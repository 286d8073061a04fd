-------------------------- MODULE RpcSystemProofs --------------------------
(***************************************************************************)
(* Safety of the remote call for every set of channels and requests, and   *)
(* that it implements RpcContract.  The invariant follows a request along  *)
(* its way: caller -> toClient -> client -> toServer -> rpcMessageMap ->   *)
(* caller, and says that it is never in two of these places.               *)
(***************************************************************************)
EXTENDS RpcSystem, ChannelRegistryProofs

AskedFor(r)   == \E ch \in Channels : <<ch, r>> \in toClient
AnsweredOn(r) == \E m \in toServer : m.msg.messageId = r

(* Until the caller writes, nothing of its request exists anywhere.         *)
NothingBeforeWrite ==
  \A r \in Requests :
    call[r] \in {"start", "scan", "write"} =>
      /\ executions[r] = 0
      /\ answer[r] = NULL
      /\ rpcMessageMap[r] = Absent
      /\ ~AskedFor(r)
      /\ ~AnsweredOn(r)

(* A request on the wire is on one channel, and neither executed nor        *)
(* answered.                                                               *)
RequestIsFresh ==
  \A ch \in Channels, r \in Requests :
    <<ch, r>> \in toClient =>
      /\ ch = channelId[r]
      /\ executions[r] = 0
      /\ ~AnsweredOn(r)
      /\ ~HasResponse(r)

(* A result is null or was computed by the one run of its request.          *)
Genuine(r, v) == v = NULL \/ (v = r /\ executions[r] = 1)

(* A response on the wire is the only one of its request.                   *)
ResponseIsGenuine ==
  \A m \in toServer :
    /\ Genuine(m.msg.messageId, m.msg.result)
    /\ ~HasResponse(m.msg.messageId)
    /\ \A n \in toServer : n.msg.messageId = m.msg.messageId => n = m

EntryIsGenuine ==
  \A r \in Requests : HasResponse(r) => Genuine(r, rpcMessageMap[r].result)

AnswerIsGenuine ==
  \A r \in Requests : executions[r] \in {0, 1} /\ Genuine(r, answer[r])

(* A caller that is about to write has met its channel in the group.        *)
WriteHasChannel == \A r \in Requests : call[r] = "write" => channelId[r] \in Channels

(* A caller that has read its response still finds it when it removes it.   *)
TakeHasResponse == \A r \in Requests : call[r] = "take" => HasResponse(r)

NothingAfterReturn ==
  \A r \in Requests :
    call[r] = "returned" =>
      /\ r \notin leaked => rpcMessageMap[r] = Absent
      /\ ~AskedFor(r)
      /\ ~AnsweredOn(r)

CallInv ==
  /\ TypeOK
  /\ NothingBeforeWrite
  /\ RequestIsFresh
  /\ ResponseIsGenuine
  /\ EntryIsGenuine
  /\ AnswerIsGenuine
  /\ WriteHasChannel
  /\ TakeHasResponse
  /\ NothingAfterReturn

-----------------------------------------------------------------------------
(* Responses, null and absent entries are told apart.                       *)
LEMMA MapValues ==
  /\ \A r \in Requests : rpcMessageMap[r] = Absent => ~HasResponse(r)
  /\ \A r \in Requests : rpcMessageMap[r] = NULL => ~HasResponse(r)
BY RpcSystemAssumption DEF HasResponse

LEMMA CallInitInv == Init => CallInv
<1> SUFFICES ASSUME Init PROVE CallInv
  OBVIOUS
<1>1. RegTypeOK
  BY InitInv DEF Init, RegInv
<1> QED
  BY <1>1, MapValues
  DEF Init, CallInit, CallInv, TypeOK, CallState, NothingBeforeWrite,
      RequestIsFresh, ResponseIsGenuine, EntryIsGenuine, AnswerIsGenuine,
      WriteHasChannel, TakeHasResponse, NothingAfterReturn, AskedFor, AnsweredOn, Genuine

(* A registry step leaves the calls alone, and a call step the registry.    *)
LEMMA RegStepKeepsCallInv ==
  ASSUME CallInv, RegTypeOK', UNCHANGED callVars
  PROVE  CallInv'
BY DEF callVars, CallInv, TypeOK, NothingBeforeWrite, RequestIsFresh,
       ResponseIsGenuine, EntryIsGenuine, AnswerIsGenuine, WriteHasChannel,
       TakeHasResponse, NothingAfterReturn, AskedFor, AnsweredOn, Genuine, HasResponse

(* The steps of a caller that move it on and change nothing else.           *)
LEMMA MoveInv ==
  ASSUME CallInv, NEW r \in Requests, NEW to \in CallState \ {"take"},
         UNCHANGED <<regVars, channelId, answer, rpcMessageMap, toClient,
                     toServer, executions, unanswered, leaked, dropped>>,
         call' = [call EXCEPT ![r] = to],
         to \in {"start", "scan", "write", "returned"}
           => call[r] \in {"start", "scan", "write"},
         to = "write" => channelId[r] \in Channels
  PROVE  CallInv'
<1> USE DEF CallInv, CallState
<1>0. RegTypeOK'
  BY DEF TypeOK, regVars, RegTypeOK
<1>1. TypeOK'
  BY <1>0 DEF TypeOK
<1>2. NothingBeforeWrite'
  BY <1>0 DEF NothingBeforeWrite, AskedFor, AnsweredOn, TypeOK
<1>3. RequestIsFresh'
  BY <1>0 DEF RequestIsFresh, AnsweredOn, HasResponse, TypeOK
<1>4. ResponseIsGenuine'
  BY <1>0 DEF ResponseIsGenuine, Genuine, HasResponse, TypeOK
<1>5. EntryIsGenuine'
  BY <1>0 DEF EntryIsGenuine, Genuine, HasResponse, TypeOK
<1>6. AnswerIsGenuine'
  BY <1>0 DEF AnswerIsGenuine, Genuine, TypeOK
<1>7. WriteHasChannel'
  BY <1>0 DEF WriteHasChannel, TypeOK
<1>8. TakeHasResponse'
  BY <1>0 DEF TakeHasResponse, HasResponse, TypeOK
<1>9. NothingAfterReturn'
  BY <1>0 DEF NothingAfterReturn, AskedFor, AnsweredOn, NothingBeforeWrite, TypeOK
<1> QED
  BY <1>1, <1>2, <1>3, <1>4, <1>5, <1>6, <1>7, <1>8, <1>9

LEMMA CallerStepInv ==
  ASSUME CallInv, UNCHANGED regVars, NEW r \in Requests, CallerStep(r)
  PROVE  CallInv'
<1> USE RpcSystemAssumption DEF CallInv, TypeOK, Advance, CallState
<1>0. RegTypeOK'
  BY DEF regVars, RegTypeOK
<1>1. CASE ScanFinds(r)
  BY <1>1, MoveInv DEF ScanFinds, RegTypeOK
<1>2. CASE ScanMisses(r) \/ ScanThrows(r)
  BY <1>2, MoveInv DEF ScanMisses, ScanThrows
<1>3. CASE Wake(r) \/ Interrupt(r)
  BY <1>3, MoveInv DEF Wake, Interrupt
<1>4. CASE Lookup(r)
  <2>1. TypeOK'
    BY <1>0, <1>4 DEF Lookup, TypeOK, RegTypeOK
  <2>2. NothingBeforeWrite'
    BY <1>0, <1>4 DEF Lookup, NothingBeforeWrite, AskedFor, AnsweredOn
  <2>3. RequestIsFresh'
    BY <1>0, <1>4 DEF Lookup, RequestIsFresh, AnsweredOn, HasResponse, NothingBeforeWrite, AskedFor
  <2>4. ResponseIsGenuine'
    BY <1>0, <1>4 DEF Lookup, ResponseIsGenuine, Genuine, HasResponse
  <2>5. EntryIsGenuine'
    BY <1>0, <1>4 DEF Lookup, EntryIsGenuine, Genuine, HasResponse
  <2>6. AnswerIsGenuine'
    BY <1>0, <1>4 DEF Lookup, AnswerIsGenuine, Genuine
  <2>7. WriteHasChannel'
    BY <1>0, <1>4 DEF Lookup, WriteHasChannel
  <2>8. TakeHasResponse'
    BY <1>0, <1>4 DEF Lookup, TakeHasResponse, HasResponse
  <2>9. NothingAfterReturn'
    BY <1>0, <1>4 DEF Lookup, NothingAfterReturn, AskedFor, AnsweredOn
  <2> QED
    BY <2>1, <2>2, <2>3, <2>4, <2>5, <2>6, <2>7, <2>8, <2>9
<1>5. CASE Write(r)
  <2>0. \A q \in Requests \ {r} : AskedFor(q)' => AskedFor(q)
    BY <1>5 DEF Write, AskedFor
  <2>1. TypeOK'
    BY <1>0, <1>5 DEF Write, Drop, TypeOK, WriteHasChannel, Live
  <2>2. NothingBeforeWrite'
    BY <1>0, <2>0, <1>5 DEF Write, NothingBeforeWrite, AnsweredOn
  <2>3. RequestIsFresh'
    BY <1>0, <1>5 DEF Write, RequestIsFresh, AnsweredOn, HasResponse, NothingBeforeWrite, AskedFor
  <2>4. ResponseIsGenuine'
    BY <1>0, <1>5 DEF Write, ResponseIsGenuine, Genuine, HasResponse
  <2>5. EntryIsGenuine'
    BY <1>0, <1>5 DEF Write, EntryIsGenuine, Genuine, HasResponse
  <2>6. AnswerIsGenuine'
    BY <1>0, <1>5 DEF Write, AnswerIsGenuine, Genuine
  <2>7. WriteHasChannel'
    BY <1>0, <1>5 DEF Write, WriteHasChannel
  <2>8. TakeHasResponse'
    BY <1>0, <1>5 DEF Write, TakeHasResponse, HasResponse
  <2>9. NothingAfterReturn'
    BY <1>0, <2>0, <1>5 DEF Write, NothingAfterReturn, AnsweredOn
  <2> QED
    BY <2>1, <2>2, <2>3, <2>4, <2>5, <2>6, <2>7, <2>8, <2>9
<1>6. CASE PutNull(r) /\ UNCHANGED rpcMessageMap
  BY <1>6, MoveInv DEF PutNull
<1>7. CASE PutNull(r) /\ rpcMessageMap' = [rpcMessageMap EXCEPT ![r] = NULL]
  <2>1. TypeOK'
    BY <1>0, <1>7 DEF PutNull, TypeOK
  <2>2. NothingBeforeWrite'
    BY <1>0, <1>7 DEF PutNull, NothingBeforeWrite, AskedFor, AnsweredOn
  <2>3. RequestIsFresh'
    BY <1>0, <1>7 DEF PutNull, RequestIsFresh, AnsweredOn, HasResponse
  <2>4. ResponseIsGenuine'
    BY <1>0, <1>7 DEF PutNull, ResponseIsGenuine, Genuine, HasResponse
  <2>5. EntryIsGenuine'
    BY <1>0, <1>7 DEF PutNull, EntryIsGenuine, Genuine, HasResponse
  <2>6. AnswerIsGenuine'
    BY <1>0, <1>7 DEF PutNull, AnswerIsGenuine, Genuine
  <2>7. WriteHasChannel'
    BY <1>0, <1>7 DEF PutNull, WriteHasChannel
  <2>8. TakeHasResponse'
    BY <1>0, <1>7 DEF PutNull, TakeHasResponse, HasResponse
  <2>9. NothingAfterReturn'
    BY <1>0, <1>7 DEF PutNull, NothingAfterReturn, AskedFor, AnsweredOn
  <2> QED
    BY <2>1, <2>2, <2>3, <2>4, <2>5, <2>6, <2>7, <2>8, <2>9
<1>8. CASE Poll(r)
  <2>1. TypeOK'
    BY <1>0, <1>8 DEF Poll, HasResponse, TypeOK, Responses
  <2>2. NothingBeforeWrite'
    BY <1>0, <1>8 DEF Poll, HasResponse, NothingBeforeWrite, AskedFor, AnsweredOn
  <2>3. RequestIsFresh'
    BY <1>0, <1>8 DEF Poll, HasResponse, RequestIsFresh, AnsweredOn, HasResponse
  <2>4. ResponseIsGenuine'
    BY <1>0, <1>8 DEF Poll, HasResponse, ResponseIsGenuine, Genuine, HasResponse
  <2>5. EntryIsGenuine'
    BY <1>0, <1>8 DEF Poll, HasResponse, EntryIsGenuine, Genuine, HasResponse
  <2>6. AnswerIsGenuine'
    BY <1>0, <1>8 DEF Poll, HasResponse, AnswerIsGenuine, Genuine, EntryIsGenuine
  <2>7. WriteHasChannel'
    BY <1>0, <1>8 DEF Poll, HasResponse, WriteHasChannel
  <2>8. TakeHasResponse'
    BY <1>0, <1>8 DEF Poll, HasResponse, TakeHasResponse, HasResponse
  <2>9. NothingAfterReturn'
    BY <1>0, <1>8 DEF Poll, HasResponse, NothingAfterReturn, AskedFor, AnsweredOn
  <2> QED
    BY <2>1, <2>2, <2>3, <2>4, <2>5, <2>6, <2>7, <2>8, <2>9
<1>9. CASE Take(r) /\ rpcMessageMap' = [rpcMessageMap EXCEPT ![r] = Absent] /\ UNCHANGED leaked
  <2>1. TypeOK'
    BY <1>0, <1>9 DEF Take, TypeOK
  <2>2. NothingBeforeWrite'
    BY <1>0, <1>9 DEF Take, NothingBeforeWrite, AskedFor, AnsweredOn
  <2>3. RequestIsFresh'
    BY <1>0, <1>9 DEF Take, RequestIsFresh, AnsweredOn, HasResponse
  <2>4. ResponseIsGenuine'
    BY <1>0, <1>9 DEF Take, ResponseIsGenuine, Genuine, HasResponse
  <2>5. EntryIsGenuine'
    BY <1>0, <1>9 DEF Take, EntryIsGenuine, Genuine, HasResponse
  <2>6. AnswerIsGenuine'
    BY <1>0, <1>9 DEF Take, AnswerIsGenuine, Genuine
  <2>7. WriteHasChannel'
    BY <1>0, <1>9 DEF Take, WriteHasChannel
  <2>8. TakeHasResponse'
    BY <1>0, <1>9 DEF Take, TakeHasResponse, HasResponse
  <2>9. NothingAfterReturn'
    BY <1>0, <1>9 DEF Take, NothingAfterReturn, AskedFor, AnsweredOn, TakeHasResponse, RequestIsFresh, ResponseIsGenuine, HasResponse
  <2> QED
    BY <2>1, <2>2, <2>3, <2>4, <2>5, <2>6, <2>7, <2>8, <2>9
<1>10. CASE Take(r) /\ leaked' = leaked \union {r} /\ UNCHANGED rpcMessageMap
  <2>1. TypeOK'
    BY <1>0, <1>10 DEF Take, TypeOK
  <2>2. NothingBeforeWrite'
    BY <1>0, <1>10 DEF Take, NothingBeforeWrite, AskedFor, AnsweredOn
  <2>3. RequestIsFresh'
    BY <1>0, <1>10 DEF Take, RequestIsFresh, AnsweredOn, HasResponse
  <2>4. ResponseIsGenuine'
    BY <1>0, <1>10 DEF Take, ResponseIsGenuine, Genuine, HasResponse
  <2>5. EntryIsGenuine'
    BY <1>0, <1>10 DEF Take, EntryIsGenuine, Genuine, HasResponse
  <2>6. AnswerIsGenuine'
    BY <1>0, <1>10 DEF Take, AnswerIsGenuine, Genuine
  <2>7. WriteHasChannel'
    BY <1>0, <1>10 DEF Take, WriteHasChannel
  <2>8. TakeHasResponse'
    BY <1>0, <1>10 DEF Take, TakeHasResponse, HasResponse
  <2>9. NothingAfterReturn'
    BY <1>0, <1>10 DEF Take, NothingAfterReturn, AskedFor, AnsweredOn, TakeHasResponse, RequestIsFresh, ResponseIsGenuine, HasResponse
  <2> QED
    BY <2>1, <2>2, <2>3, <2>4, <2>5, <2>6, <2>7, <2>8, <2>9
<1> QED
  BY <1>1, <1>2, <1>3, <1>4, <1>5, <1>6, <1>7, <1>8, <1>9, <1>10
  DEF CallerStep, CallerGoesOn, PutNull, Take

LEMMA ClientStepInv ==
  ASSUME CallInv, UNCHANGED regVars,
         NEW ch \in Channels, NEW r \in Requests, ClientStep(ch, r)
  PROVE  CallInv'
<1> USE RpcSystemAssumption DEF CallInv, TypeOK, CallState
<1>0. RegTypeOK'
  BY DEF regVars, RegTypeOK
<1>a. <<ch, r>> \in toClient
  BY DEF ClientStep, ClientExecutes, ClientCannotInvoke, ClientThrows, ClientDrops
<1>b. call[r] \notin {"start", "scan", "write", "returned"}
  BY <1>a DEF NothingBeforeWrite, NothingAfterReturn, AskedFor
<1>c. \A q \in Requests \ {r} :
        /\ AskedFor(q)' => AskedFor(q)
        /\ AnsweredOn(q)' => AnsweredOn(q)
  <2>1. toClient' = toClient \ {<<ch, r>>}
    BY DEF ClientStep, ClientExecutes, ClientCannotInvoke, ClientThrows, ClientDrops, Answer
  <2>2. \A m \in toServer' : m \in toServer \/ m.msg.messageId = r
    BY DEF ClientStep, ClientExecutes, ClientCannotInvoke, ClientThrows, ClientDrops, Answer, Response
  <2> QED
    BY <2>1, <2>2 DEF AskedFor, AnsweredOn
<1>1. CASE ClientExecutes(ch, r)
  <2>1. TypeOK'
    BY <1>0, <1>1 DEF ClientExecutes, Answer, Drop, Response, TypeOK, Responses
  <2>2. NothingBeforeWrite'
    BY <1>b, <1>c, <1>1 DEF ClientExecutes, Answer, NothingBeforeWrite
  <2>3. RequestIsFresh'
    BY <1>0, <1>1 DEF ClientExecutes, Answer, Response, RequestIsFresh, AnsweredOn, HasResponse
  <2>4. ResponseIsGenuine'
    BY <1>0, <1>1 DEF ClientExecutes, Answer, Response, ResponseIsGenuine, Genuine, HasResponse, RequestIsFresh, AnsweredOn
  <2>5. EntryIsGenuine'
    BY <1>0, <1>1 DEF ClientExecutes, Answer, Response, EntryIsGenuine, Genuine, HasResponse, RequestIsFresh
  <2>6. AnswerIsGenuine'
    BY <1>0, <1>1 DEF ClientExecutes, Answer, Response, AnswerIsGenuine, Genuine, RequestIsFresh
  <2>7. WriteHasChannel'
    BY <1>0, <1>1 DEF ClientExecutes, Answer, Response, WriteHasChannel
  <2>8. TakeHasResponse'
    BY <1>0, <1>1 DEF ClientExecutes, Answer, Response, TakeHasResponse, HasResponse
  <2>9. NothingAfterReturn'
    BY <1>b, <1>c, <1>1 DEF ClientExecutes, Answer, NothingAfterReturn
  <2> QED
    BY <2>1, <2>2, <2>3, <2>4, <2>5, <2>6, <2>7, <2>8, <2>9
<1>2. CASE ClientCannotInvoke(ch, r)
  <2>1. TypeOK'
    BY <1>0, <1>2 DEF ClientCannotInvoke, Answer, Drop, Response, TypeOK, Responses
  <2>2. NothingBeforeWrite'
    BY <1>b, <1>c, <1>2 DEF ClientCannotInvoke, Answer, NothingBeforeWrite
  <2>3. RequestIsFresh'
    BY <1>0, <1>2 DEF ClientCannotInvoke, Answer, Response, RequestIsFresh, AnsweredOn, HasResponse
  <2>4. ResponseIsGenuine'
    BY <1>0, <1>2 DEF ClientCannotInvoke, Answer, Response, ResponseIsGenuine, Genuine, HasResponse, RequestIsFresh, AnsweredOn
  <2>5. EntryIsGenuine'
    BY <1>0, <1>2 DEF ClientCannotInvoke, Answer, Response, EntryIsGenuine, Genuine, HasResponse, RequestIsFresh
  <2>6. AnswerIsGenuine'
    BY <1>0, <1>2 DEF ClientCannotInvoke, Answer, Response, AnswerIsGenuine, Genuine, RequestIsFresh
  <2>7. WriteHasChannel'
    BY <1>0, <1>2 DEF ClientCannotInvoke, Answer, Response, WriteHasChannel
  <2>8. TakeHasResponse'
    BY <1>0, <1>2 DEF ClientCannotInvoke, Answer, Response, TakeHasResponse, HasResponse
  <2>9. NothingAfterReturn'
    BY <1>b, <1>c, <1>2 DEF ClientCannotInvoke, Answer, NothingAfterReturn
  <2> QED
    BY <2>1, <2>2, <2>3, <2>4, <2>5, <2>6, <2>7, <2>8, <2>9
<1>3. CASE ClientThrows(ch, r) \/ ClientDrops(ch, r)
  <2>1. TypeOK'
    BY <1>0, <1>3 DEF ClientThrows, ClientDrops, Drop, TypeOK
  <2>2. NothingBeforeWrite'
    BY <1>0, <1>3 DEF ClientThrows, ClientDrops, NothingBeforeWrite, AskedFor, AnsweredOn
  <2>3. RequestIsFresh'
    BY <1>0, <1>3 DEF ClientThrows, ClientDrops, RequestIsFresh, AnsweredOn, HasResponse
  <2>4. ResponseIsGenuine'
    BY <1>0, <1>3 DEF ClientThrows, ClientDrops, ResponseIsGenuine, Genuine, HasResponse
  <2>5. EntryIsGenuine'
    BY <1>0, <1>3 DEF ClientThrows, ClientDrops, EntryIsGenuine, Genuine, HasResponse
  <2>6. AnswerIsGenuine'
    BY <1>0, <1>3 DEF ClientThrows, ClientDrops, AnswerIsGenuine, Genuine
  <2>7. WriteHasChannel'
    BY <1>0, <1>3 DEF ClientThrows, ClientDrops, WriteHasChannel
  <2>8. TakeHasResponse'
    BY <1>0, <1>3 DEF ClientThrows, ClientDrops, TakeHasResponse, HasResponse
  <2>9. NothingAfterReturn'
    BY <1>0, <1>3 DEF ClientThrows, ClientDrops, NothingAfterReturn, AskedFor, AnsweredOn
  <2> QED
    BY <2>1, <2>2, <2>3, <2>4, <2>5, <2>6, <2>7, <2>8, <2>9
<1> QED
  BY <1>1, <1>2, <1>3 DEF ClientStep

LEMMA ReceiveInv ==
  ASSUME CallInv, UNCHANGED regVars, NEW m \in toServer, ReceiveResponse(m)
  PROVE  CallInv'
<1> USE RpcSystemAssumption DEF CallInv, TypeOK, CallState, ReceiveResponse
<1>0. RegTypeOK'
  BY DEF regVars, RegTypeOK
<1>m. m.msg \in Responses /\ m.msg.messageId \in Requests
  BY DEF Responses
<1>n. \A q \in Requests : AnsweredOn(q)' => AnsweredOn(q)
  BY DEF AnsweredOn
<1>o. \A q \in Requests : HasResponse(q)' => HasResponse(q) \/ q = m.msg.messageId
  BY DEF HasResponse
<1>p. \A q \in Requests : HasResponse(q) => HasResponse(q)'
  BY <1>m DEF HasResponse
<1>q. ~AnsweredOn(m.msg.messageId)'
  BY DEF AnsweredOn, ResponseIsGenuine
<1>r. AnsweredOn(m.msg.messageId)
  BY DEF AnsweredOn
<1>1. TypeOK'
  BY <1>0, <1>m DEF TypeOK
<1>2. NothingBeforeWrite'
  BY <1>m, <1>n, <1>r DEF NothingBeforeWrite, AskedFor
<1>3. RequestIsFresh'
  BY <1>m, <1>n, <1>o, <1>r DEF RequestIsFresh
<1>4. ResponseIsGenuine'
  <2> SUFFICES ASSUME NEW n \in toServer, n # m
               PROVE  /\ Genuine(n.msg.messageId, n.msg.result)'
                      /\ ~HasResponse(n.msg.messageId)'
                      /\ \A o \in toServer : o.msg.messageId = n.msg.messageId => o = n
    BY DEF ResponseIsGenuine
  <2>1. n.msg.messageId \in Requests /\ n.msg.messageId # m.msg.messageId
    BY DEF ResponseIsGenuine, Responses
  <2> QED
    BY <1>o, <2>1 DEF ResponseIsGenuine, Genuine
<1>5. EntryIsGenuine'
  BY <1>m DEF EntryIsGenuine, Genuine, HasResponse, ResponseIsGenuine
<1>6. AnswerIsGenuine'
  BY DEF AnswerIsGenuine, Genuine
<1>7. WriteHasChannel'
  BY DEF WriteHasChannel
<1>8. TakeHasResponse'
  BY <1>p DEF TakeHasResponse
<1>9. NothingAfterReturn'
  BY <1>m, <1>n, <1>r DEF NothingAfterReturn, AskedFor
<1> QED
  BY <1>1, <1>2, <1>3, <1>4, <1>5, <1>6, <1>7, <1>8, <1>9

LEMMA NextInv == RegInv /\ CallInv /\ [Next]_vars => RegInv' /\ CallInv'
<1> SUFFICES ASSUME RegInv, CallInv, [Next]_vars
             PROVE  RegInv' /\ CallInv'
  OBVIOUS
<1>1. RegInv'
  BY StepInv, StutterInv DEF Next, RegNext, vars
<1>2. CASE UNCHANGED callVars
  BY <1>1, <1>2, RegStepKeepsCallInv DEF RegInv
<1>3. CASE CallNext /\ UNCHANGED regVars
  <2>1. ASSUME NEW r \in Requests, CallerStep(r) PROVE CallInv'
    BY <1>3, <2>1, CallerStepInv
  <2>2. ASSUME NEW ch \in Channels, NEW r \in Requests, ClientStep(ch, r)
        PROVE  CallInv'
    BY <1>3, <2>2, ClientStepInv
  <2>3. ASSUME NEW m \in toServer, ReceiveResponse(m) PROVE CallInv'
    BY <1>3, <2>3, ReceiveInv
  <2> QED
    BY <1>1, <1>3, <2>1, <2>2, <2>3 DEF CallNext
<1> QED
  BY <1>1, <1>2, <1>3 DEF Next, vars

THEOREM SystemInvariant == Spec => [](RegInv /\ CallInv)
<1>1. Init => RegInv /\ CallInv
  BY InitInv, CallInitInv DEF Init
<1> QED
  BY <1>1, NextInv, PTL DEF Spec

(* Every variable of the system keeps its type.                             *)
THEOREM SystemTypeCorrect == Spec => []TypeOK
BY SystemInvariant, PTL DEF CallInv

(* The method of a request runs at most once, and a value that a call       *)
(* returns was computed by that run.                                       *)
THEOREM AnswersAreOwn == Spec => []OwnAnswer
<1>1. CallInv => OwnAnswer
  <2> SUFFICES ASSUME CallInv, NEW r \in Requests
               PROVE  /\ executions[r] <= 1
                      /\ answer[r] \in {r, NULL}
                      /\ answer[r] = r => executions[r] = 1
    BY DEF OwnAnswer
  <2> QED
    BY RpcSystemAssumption DEF CallInv, AnswerIsGenuine, Genuine
<1> QED
  BY <1>1, SystemInvariant, PTL

(* A call that returns leaves no entry in rpcMessageMap, and no response is *)
(* on its way that would make one.                                         *)
THEOREM ReturnLeavesNothing == Spec => []NoEntryLeft
<1>1. CallInv => NoEntryLeft
  BY DEF CallInv, NothingAfterReturn, NoEntryLeft, AnsweredOn
<1> QED
  BY <1>1, SystemInvariant, PTL

(* After the caller's put of null a response stays until that caller takes  *)
(* it.                                                                     *)
THEOREM RegisteredResponseKept == Spec => ResponseKept
<1>1. ASSUME RegInv, CallInv, [Next]_vars, NEW r \in Requests,
             call[r] \in {"sleep", "poll", "take"}, HasResponse(r)
      PROVE  \/ rpcMessageMap'[r] = rpcMessageMap[r]
             \/ call[r] = "take" /\ call'[r] = "returned"
  <2> USE <1>1 DEF CallInv, TypeOK
  <2>1. CASE UNCHANGED callVars
    BY <2>1 DEF callVars
  <2>2. ASSUME NEW q \in Requests, CallerStep(q)
        PROVE  \/ rpcMessageMap'[r] = rpcMessageMap[r]
               \/ call[r] = "take" /\ call'[r] = "returned"
    BY <2>2 DEF CallerStep, CallerGoesOn, Lookup, ScanFinds, ScanMisses,
                ScanThrows, Write, PutNull, Wake, Interrupt, Poll, Take, Advance
  <2>3. ASSUME NEW ch \in Channels, NEW q \in Requests, ClientStep(ch, q)
        PROVE  rpcMessageMap'[r] = rpcMessageMap[r]
    BY <2>3 DEF ClientStep, ClientExecutes, ClientCannotInvoke, ClientThrows, ClientDrops, Answer
  <2>4. ASSUME NEW m \in toServer, ReceiveResponse(m)
        PROVE  rpcMessageMap'[r] = rpcMessageMap[r]
    BY <2>4 DEF ReceiveResponse, ResponseIsGenuine, Responses
  <2> QED
    BY <2>1, <2>2, <2>3, <2>4 DEF Next, CallNext, vars
<1>2. RegInv /\ CallInv /\ [Next]_vars =>
        [\A r \in Requests :
           call[r] \in {"sleep", "poll", "take"} /\ HasResponse(r) =>
             \/ rpcMessageMap'[r] = rpcMessageMap[r]
             \/ call[r] = "take" /\ call'[r] = "returned"]_vars
  BY <1>1
<1> QED
  BY <1>2, SystemInvariant, PTL DEF Spec, ResponseKept

-----------------------------------------------------------------------------
(* Refinement: every step of the system is a step of RpcContract or changes *)
(* nothing it can see.                                                     *)

(* A caller's step, seen from the contract.                                 *)
LEMMA CallerRefines ==
  ASSUME RegInv, CallInv, NEW r \in Requests, CallerStep(r)
  PROVE  Contract!Next \/ UNCHANGED Contract!contractVars
<1> USE DEF CallInv, TypeOK, CallState, Advance
<1>1. Ran' = Ran
  BY DEF CallerStep, CallerGoesOn, Lookup, ScanFinds, ScanMisses, ScanThrows,
         Write, PutNull, Wake, Interrupt, Poll, Take, Ran
<1>2. CASE Lookup(r)
  <2>1. Contract!Start(r)
    BY <1>1, <1>2 DEF Lookup, Contract!Start, Status, Reply, AbstractStatus, Ended
  <2> QED
    BY <2>1 DEF Contract!Next
<1>3. CASE ScanFinds(r) \/ Write(r) \/ PutNull(r) \/ Wake(r) \/ Poll(r)
  <2>1. Status' = Status
    BY <1>3 DEF ScanFinds, Write, PutNull, Wake, Poll, Status, AbstractStatus, Ended
  <2>2. Reply' = Reply
    BY <1>3 DEF ScanFinds, Write, PutNull, Wake, Poll, Reply
  <2> QED
    BY <1>1, <2>1, <2>2 DEF Contract!contractVars
<1>4. CASE ScanThrows(r) \/ Interrupt(r)
  <2>1. Contract!Throw(r)
    BY <1>1, <1>4 DEF ScanThrows, Interrupt, Contract!Throw, Status, Reply,
                      AbstractStatus, Ended
  <2> QED
    BY <2>1 DEF Contract!Next
<1>5. CASE ScanMisses(r) \/ Take(r)
  <2>1. answer' = answer /\ answer[r] \in {NULL} \union (Ran \intersect {r})
    BY <1>5 DEF ScanMisses, Take, AnswerIsGenuine, Genuine, Ran
  <2>2. Status[r] = "running" /\ Status' = [Status EXCEPT ![r] = "returned"]
    BY <1>5 DEF ScanMisses, Take, Status, AbstractStatus, Ended
  <2>3. Reply' = [Reply EXCEPT ![r] = answer[r]]
    BY <1>5, <2>1 DEF ScanMisses, Take, Reply
  <2>4. Contract!Return(r)
    BY <1>1, <2>1, <2>2, <2>3 DEF Contract!Return
  <2> QED
    BY <2>4 DEF Contract!Next
<1> QED
  BY <1>2, <1>3, <1>4, <1>5 DEF CallerStep, CallerGoesOn

(* A client's step executes the request, or is not visible.                 *)
LEMMA ClientRefines ==
  ASSUME CallInv, NEW ch \in Channels, NEW r \in Requests, ClientStep(ch, r)
  PROVE  Contract!Next \/ UNCHANGED Contract!contractVars
<1> USE DEF CallInv, TypeOK, CallState
<1>1. Status' = Status /\ Reply' = Reply
  BY DEF ClientStep, ClientExecutes, ClientCannotInvoke, ClientThrows, ClientDrops, Answer,
         Status, Reply, AbstractStatus, Ended
<1>2. CASE ClientExecutes(ch, r)
  <2>1. <<ch, r>> \in toClient
    BY <1>2 DEF ClientExecutes
  <2>2. Status[r] # "idle"
    BY <2>1 DEF NothingBeforeWrite, AskedFor, Status, AbstractStatus, Ended
  <2>3. r \notin Ran /\ Ran' = Ran \union {r}
    BY <1>2, <2>1 DEF RequestIsFresh, ClientExecutes, Ran
  <2>4. Contract!Execute(r)
    BY <1>1, <2>2, <2>3 DEF Contract!Execute
  <2> QED
    BY <2>4 DEF Contract!Next
<1>3. CASE ClientCannotInvoke(ch, r) \/ ClientThrows(ch, r) \/ ClientDrops(ch, r)
  BY <1>1, <1>3 DEF ClientCannotInvoke, ClientThrows, ClientDrops, Ran, Contract!contractVars
<1> QED
  BY <1>2, <1>3 DEF ClientStep

(* The remote call implements its contract: a returned value is that of the *)
(* one execution of the very call, and nothing runs before it is called.   *)
THEOREM CallImplementsContract == Spec => ImplementsContract
<1>1. Init => Contract!Init
  BY DEF Init, CallInit, Contract!Init, Status, Reply, Ran, AbstractStatus, Ended
<1>2. ASSUME RegInv, CallInv, [Next]_vars
      PROVE  [Contract!Next]_Contract!contractVars
  <2>1. CASE UNCHANGED callVars
    BY <2>1 DEF callVars, Contract!contractVars, Status, Reply, Ran,
                AbstractStatus, Ended
  <2>2. ASSUME NEW m \in toServer, ReceiveResponse(m)
        PROVE  UNCHANGED Contract!contractVars
    BY <2>2 DEF ReceiveResponse, Contract!contractVars, Status, Reply, Ran,
                AbstractStatus, Ended
  <2>3. CASE CallNext
    BY <1>2, <2>2, <2>3, CallerRefines, ClientRefines DEF CallNext
  <2> QED
    BY <1>2, <2>1, <2>3 DEF Next, vars
<1> QED
  BY <1>1, <1>2, SystemInvariant, PTL DEF Spec, ImplementsContract, Contract!Spec
=============================================================================
