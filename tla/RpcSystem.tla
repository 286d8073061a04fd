----------------------------- MODULE RpcSystem -----------------------------
(***************************************************************************)
(* A remote call through the registry: the HTTP thread that serves         *)
(* ServerController.rpcTest (ServerServiceImpl.request, then               *)
(* ServerNettyMapping.sendRequestMessage and registerListenerAndReturn),   *)
(* the client's PpcClientHandler that answers it, and the RESPONSE branch  *)
(* of RpcServerHandler that hands the answer over in `rpcMessageMap`.      *)
(*                                                                         *)
(* Every request has a thread of its own and a random UUID as message id;  *)
(* the request itself stands for that id.  The value the service computes  *)
(* for request r is r, so a mixed-up answer is visible; NULL is Java null. *)
(* Messages in flight are sets: TCP's order within a channel is not kept.  *)
(* A message sent on a channel that closes is simply never delivered, and  *)
(* one that a codec fails on is dropped with the channel open; only the    *)
(* server's decoder has an exceptionCaught after it, which closes.         *)
(* rpcMessageMap is a HashMap without synchronization like serverChannelMap *)
(* (see ChannelRegistry): a racing put of a new key can be lost, a remove  *)
(* that races with another remove can be undone.                           *)
(***************************************************************************)
EXTENDS ChannelRegistry, Naturals

CONSTANTS
  Requests,   \* the calls ever made over HTTP
  Absent      \* marks a key that rpcMessageMap does not contain

(* Where an HTTP thread is.                                                *)
(* "start"   : in ServerController.rpcTest                                  *)
(* "scan"    : serverChannelMap has been read, `group` not yet             *)
(* "write"   : the channel is found       "register": the request is sent  *)
(* "sleep"   : Thread.sleep(500)          "poll"    : the spin loop        *)
(* "take"    : a response has been read, not yet removed from the map      *)
(* "returned": request() has returned     "threw"   : an exception left it *)
CallState == {"start", "scan", "write", "register", "sleep", "poll", "take",
              "returned", "threw"}

Responses == [messageId : Requests, result : Requests \union {NULL}]

ASSUME RpcSystemAssumption ==
  /\ NULL \notin Requests
  /\ NULL \notin Responses
  /\ Absent \notin Responses \union {NULL}

VARIABLES
  call,           \* [Requests -> CallState]
  channelId,      \* the channel id sendRequestMessage read for the lot
  answer,         \* what request() returns (NULL until a response is read)
  rpcMessageMap,  \* ServerNettyMapping.rpcMessageMap
  toClient,       \* requests on the wire: <<channel, message id>>
  toServer,       \* responses on the wire: [ch, msg]
  executions,     \* how often the service method ran for a request
  unanswered,     \* requests whose handler on the client ended with an exception
  leaked,         \* requests whose rpcMessageMap.remove was undone by a race
  dropped         \* requests that, or whose responses, a codec threw away

callVars == <<call, channelId, answer, rpcMessageMap, toClient, toServer,
              executions, unanswered, leaked, dropped>>
vars == <<regVars, callVars>>

TypeOK ==
  /\ RegTypeOK
  /\ call \in [Requests -> CallState]
  /\ channelId \in [Requests -> Channels \union {NULL}]
  /\ answer \in [Requests -> Requests \union {NULL}]
  /\ rpcMessageMap \in [Requests -> Responses \union {Absent, NULL}]
  /\ toClient \subseteq Channels \X Requests
  /\ toServer \subseteq [ch : Channels, msg : Responses]
  /\ executions \in [Requests -> Nat]
  /\ unanswered \subseteq Requests
  /\ leaked \subseteq Requests
  /\ dropped \subseteq Requests

CallInit ==
  /\ call = [r \in Requests |-> "start"]
  /\ channelId = [r \in Requests |-> NULL]
  /\ answer = [r \in Requests |-> NULL]
  /\ rpcMessageMap = [r \in Requests |-> Absent]
  /\ toClient = {}
  /\ toServer = {}
  /\ executions = [r \in Requests |-> 0]
  /\ unanswered = {}
  /\ leaked = {}
  /\ dropped = {}

Init == RegInit /\ CallInit

(* Another thread is about to put or to remove a key of rpcMessageMap other *)
(* than r: a caller, or an event loop that has read a response.            *)
Receivable(m)  == chan[m.ch] \in {"open", "closed"} /\ loop[m.ch] = "idle"
OtherWriter(r) ==
  \/ \E q \in Requests \ {r} : call[q] \in {"register", "take"}
  \/ \E m \in toServer : m.msg.messageId # r /\ Receivable(m)
NewKeyLost(r)  == rpcMessageMap[r] = Absent /\ OtherWriter(r)

(* A codec (Kryo, or the closer its event loops share: see MessageCodec)    *)
(* fails on the request of r or on its response, which is then nowhere.    *)
Drop(r) == dropped' = dropped \union {r}

Advance(r, from, to) == call[r] = from /\ call' = [call EXCEPT ![r] = to]

-----------------------------------------------------------------------------
(* ServerNettyMapping.sendRequestMessage.                                   *)

(* serverChannelMap.get(parkingId).  The assert after it is not enabled    *)
(* (no -ea), so a null id goes on.                                         *)
Lookup(r) ==
  /\ Advance(r, "start", "scan")
  /\ \E k \in ParkingIds :
       channelId' = [channelId EXCEPT ![r] = serverChannelMap[k]]
  /\ UNCHANGED <<answer, rpcMessageMap, toClient, toServer, executions, unanswered, leaked, dropped>>

(* The loop over `group` meets the channel.                                 *)
ScanFinds(r) ==
  /\ channelId[r] \in group
  /\ Advance(r, "scan", "write")
  /\ UNCHANGED <<channelId, answer, rpcMessageMap, toClient, toServer, executions, unanswered, leaked, dropped>>

(* The loop ends without meeting it: no message id, and request() returns  *)
(* null.  With a null id that needs an empty group...                      *)
ScanMisses(r) ==
  /\ IF channelId[r] = NULL THEN group = {} ELSE channelId[r] \notin group
  /\ Advance(r, "scan", "returned")
  /\ UNCHANGED <<channelId, answer, rpcMessageMap, toClient, toServer, executions, unanswered, leaked, dropped>>

(* ...and otherwise the first comparison dereferences null.                 *)
ScanThrows(r) ==
  /\ channelId[r] = NULL /\ group # {}
  /\ Advance(r, "scan", "threw")
  /\ UNCHANGED <<channelId, answer, rpcMessageMap, toClient, toServer, executions, unanswered, leaked, dropped>>

(* setMessageId and writeAndFlush; the future is not looked at: a write to *)
(* a channel that has closed meanwhile is lost without notice, and so is a *)
(* message that MessageEncoder throws on, with the channel left open.      *)
Write(r) ==
  /\ Advance(r, "write", "register")
  /\ \/ /\ toClient' = IF Live(channelId[r])
                       THEN toClient \union {<<channelId[r], r>>} ELSE toClient
        /\ UNCHANGED dropped
     \/ Drop(r) /\ UNCHANGED toClient
  /\ UNCHANGED <<channelId, answer, rpcMessageMap, toServer, executions, unanswered, leaked>>

(* rpcMessageMap.put(messageId, null), after the write.                     *)
PutNull(r) ==
  /\ Advance(r, "register", "sleep")
  /\ \/ rpcMessageMap' = [rpcMessageMap EXCEPT ![r] = NULL]
     \/ NewKeyLost(r) /\ UNCHANGED rpcMessageMap
  /\ UNCHANGED <<channelId, answer, toClient, toServer, executions, unanswered, leaked, dropped>>

-----------------------------------------------------------------------------
(* ServerNettyMapping.registerListenerAndReturn.                            *)

HasResponse(r) == rpcMessageMap[r] \in Responses

Wake(r) ==
  /\ Advance(r, "sleep", "poll")
  /\ UNCHANGED <<channelId, answer, rpcMessageMap, toClient, toServer, executions, unanswered, leaked, dropped>>

(* The container interrupts the sleeping thread: a null message is         *)
(* returned, on which request() calls getResult().                         *)
Interrupt(r) ==
  /\ Advance(r, "sleep", "threw")
  /\ UNCHANGED <<channelId, answer, rpcMessageMap, toClient, toServer, executions, unanswered, leaked, dropped>>

(* Faulty variant: any response is taken for the own one.                   *)
PollAny(r) ==
  /\ Advance(r, "poll", "take")
  /\ \E q \in Requests :
       HasResponse(q) /\ answer' = [answer EXCEPT ![r] = rpcMessageMap[q].result]
  /\ UNCHANGED <<channelId, rpcMessageMap, toClient, toServer, executions, unanswered, leaked, dropped>>

(* The get of the spin loop that sees a non-null message.  Gets that see   *)
(* null, or a stale null, change nothing.                                  *)
Poll(r) ==
  /\ HasResponse(r)
  /\ Advance(r, "poll", "take")
  /\ answer' = [answer EXCEPT ![r] = rpcMessageMap[r].result]
  /\ UNCHANGED <<channelId, rpcMessageMap, toClient, toServer, executions, unanswered, leaked, dropped>>

(* Faulty variants: the entry stays; the whole map is cleared.              *)
TakeKeepsEntry(r) ==
  /\ Advance(r, "take", "returned")
  /\ UNCHANGED <<channelId, answer, rpcMessageMap, toClient, toServer, executions, unanswered, leaked, dropped>>

TakeClearsMap(r) ==
  /\ Advance(r, "take", "returned")
  /\ rpcMessageMap' = [q \in Requests |-> Absent]
  /\ UNCHANGED <<channelId, answer, toClient, toServer, executions, unanswered, leaked, dropped>>

(* rpcMessageMap.remove(messageId), and request() returns the result.       *)
Take(r) ==
  /\ Advance(r, "take", "returned")
  /\ \/ rpcMessageMap' = [rpcMessageMap EXCEPT ![r] = Absent] /\ UNCHANGED leaked
     \/ /\ \E q \in Requests \ {r} : call[q] = "take"
        /\ leaked' = leaked \union {r}
        /\ UNCHANGED rpcMessageMap
  /\ UNCHANGED <<channelId, answer, toClient, toServer, executions, unanswered, dropped>>

(* What the thread does by itself once it has begun.                        *)
CallerGoesOn(r) ==
  \/ ScanFinds(r)
  \/ ScanMisses(r)
  \/ ScanThrows(r)
  \/ Write(r)
  \/ PutNull(r)
  \/ Wake(r)
  \/ Poll(r)
  \/ Take(r)

CallerStep(r) == Lookup(r) \/ CallerGoesOn(r) \/ Interrupt(r)

-----------------------------------------------------------------------------
(* PpcClientHandler.dealDifferentMsg with AbstractInvoker.invokeRequest, on *)
(* the client's event loop.                                                *)

(* Faulty variant: the id of the request is not copied.                     *)
ResponseWithoutId(r, v) == [messageId |-> NULL, result |-> v]

Response(r, v) == [messageId |-> r, result |-> v]

(* Faulty variants: a result that is null is not sent; the request is       *)
(* delivered again.                                                        *)
AnswerOnlyValues(ch, r, v) ==
  /\ toClient' = toClient \ {<<ch, r>>}
  /\ \/ /\ toServer' = IF chan[ch] = "open" /\ v # NULL
                       THEN toServer \union {[ch |-> ch, msg |-> Response(r, v)]}
                       ELSE toServer
        /\ UNCHANGED dropped
     \/ Drop(r) /\ UNCHANGED toServer
  /\ UNCHANGED <<call, channelId, answer, rpcMessageMap, unanswered, leaked>>

AnswerKeepsRequest(ch, r, v) ==
  /\ toServer' = toServer \union {[ch |-> ch, msg |-> Response(r, v)]}
  /\ UNCHANGED <<call, channelId, answer, rpcMessageMap, toClient, unanswered, leaked, dropped>>

(* The response goes out on the channel the request came in on, unless     *)
(* that channel is down, or MessageEncoder throws on it: nobody looks at    *)
(* the future of the write, and the channel stays open.                    *)
Answer(ch, r, v) ==
  /\ toClient' = toClient \ {<<ch, r>>}
  /\ \/ /\ toServer' = IF chan[ch] = "open"
                       THEN toServer \union {[ch |-> ch, msg |-> Response(r, v)]}
                       ELSE toServer
        /\ UNCHANGED dropped
     \/ Drop(r) /\ UNCHANGED toServer
  /\ UNCHANGED <<call, channelId, answer, rpcMessageMap, unanswered, leaked>>

(* The method runs: it returns a value, or it throws and the               *)
(* InvocationTargetException is printed and the result stays null.         *)
ClientExecutes(ch, r) ==
  /\ <<ch, r>> \in toClient
  /\ \E v \in {r, NULL} : Answer(ch, r, v)
  /\ executions' = [executions EXCEPT ![r] = @ + 1]

(* NoSuchMethodException or IllegalAccessException: printed, result null.   *)
ClientCannotInvoke(ch, r) ==
  /\ <<ch, r>> \in toClient
  /\ Answer(ch, r, NULL)
  /\ UNCHANGED executions

(* invokeRequest throws (ServiceCenter knows no such service, or the       *)
(* arguments do not fit).  The catch block dereferences the response that  *)
(* was never built and the finally block writes null: both throw, and      *)
(* nothing is sent.                                                        *)
ClientThrows(ch, r) ==
  /\ <<ch, r>> \in toClient
  /\ toClient' = toClient \ {<<ch, r>>}
  /\ unanswered' = unanswered \union {r}
  /\ UNCHANGED <<call, channelId, answer, rpcMessageMap, toServer, executions, leaked, dropped>>

(* MessageDecoder throws on the request: no handler of the client's        *)
(* pipeline deals with exceptions, so the channel stays open and nothing   *)
(* else happens.                                                           *)
ClientDrops(ch, r) ==
  /\ <<ch, r>> \in toClient
  /\ toClient' = toClient \ {<<ch, r>>}
  /\ Drop(r)
  /\ UNCHANGED <<call, channelId, answer, rpcMessageMap, toServer, executions, unanswered, leaked>>

ClientStep(ch, r) ==
  \/ ClientExecutes(ch, r)
  \/ ClientCannotInvoke(ch, r)
  \/ ClientThrows(ch, r)
  \/ ClientDrops(ch, r)

-----------------------------------------------------------------------------
(* The RESPONSE branch of RpcServerHandler, between two other callbacks of *)
(* the channel's event loop: rpcMessageMap.put(messageId, message).        *)
ReceiveResponse(m) ==
  /\ m \in toServer
  /\ Receivable(m)
  /\ \/ rpcMessageMap' = [rpcMessageMap EXCEPT ![m.msg.messageId] = m.msg]
     \/ NewKeyLost(m.msg.messageId) /\ UNCHANGED rpcMessageMap
  /\ toServer' = toServer \ {m}
  /\ UNCHANGED <<call, channelId, answer, toClient, executions, unanswered, leaked, dropped>>

CallNext ==
  \/ \E r \in Requests : CallerStep(r)
  \/ \E ch \in Channels, r \in Requests : ClientStep(ch, r)
  \/ \E m \in toServer : ReceiveResponse(m)

Next ==
  \/ RegNext /\ UNCHANGED callVars
  \/ CallNext /\ UNCHANGED regVars

(* Threads and event loops run on; a spinning get eventually sees the      *)
(* message that another thread put.  Nobody has to call, to interrupt, or  *)
(* to stay connected.                                                      *)
Fairness ==
  /\ \A r \in Requests :
       /\ WF_vars(CallerGoesOn(r) /\ UNCHANGED regVars)
       /\ WF_vars((\E ch \in Channels : ClientStep(ch, r)) /\ UNCHANGED regVars)
       /\ WF_vars((\E m \in toServer : m.msg.messageId = r /\ ReceiveResponse(m)) /\ UNCHANGED regVars)
  /\ \A ch \in Channels :
       /\ WF_vars((HeartAdd(ch) \/ HeartPut(ch)) /\ UNCHANGED callVars)
       /\ WF_vars(Inactive(ch) /\ UNCHANGED callVars)

Spec == Init /\ [][Next]_vars /\ Fairness

-----------------------------------------------------------------------------
(* Properties.                                                             *)

Ended(r) == call[r] \in {"returned", "threw"}

(* The service method of a request runs at most once, and a value that     *)
(* request() returns was computed by that run for that very request, not   *)
(* for another one waiting on the same map.                                *)
OwnAnswer ==
  \A r \in Requests :
    /\ executions[r] <= 1
    /\ answer[r] \in {r, NULL}
    /\ answer[r] = r => executions[r] = 1

(* A call that returns leaves nothing behind: its entry is out of           *)
(* rpcMessageMap, and no response is on its way that would put it back;    *)
(* only a remove undone by another caller's can leave an entry.            *)
NoEntryLeft ==
  \A r \in Requests :
    call[r] = "returned" =>
      /\ r \notin leaked => rpcMessageMap[r] = Absent
      /\ \A m \in toServer : m.msg.messageId # r

(* Once a caller has registered (put its null), a response that reaches     *)
(* the map stays there until that caller itself takes it.                  *)
ResponseKept ==
  [][\A r \in Requests :
       call[r] \in {"sleep", "poll", "take"} /\ HasResponse(r) =>
         \/ rpcMessageMap'[r] = rpcMessageMap[r]
         \/ call[r] = "take" /\ call'[r] = "returned"]_vars

(* A response that reaches rpcMessageMap, "the map of the messages the      *)
(* other side returned", leaves it only by being taken.                    *)
ResponseNeverOverwritten ==
  [][\A r \in Requests :
       HasResponse(r) /\ ~HasResponse(r)' => call[r] = "take"]_vars

(* Liveness: a caller whose null reached rpcMessageMap while its request    *)
(* was still on the way ends, whatever other callers do to the map, unless *)
(* the client's handler failed, a codec threw the request or its response  *)
(* away, or the channel is lost: in these three cases it spins for ever.   *)
AnsweredCallEnds ==
  \A r \in Requests, ch \in Channels :
    call[r] \in {"sleep", "poll"} /\ rpcMessageMap[r] = NULL /\ <<ch, r>> \in toClient
      ~> Ended(r) \/ r \in unanswered \union dropped \/ chan[ch] # "open"

(* Liveness: the error of a request that failed on the client is reported   *)
(* to the caller, which then ends.                                         *)
FailureReachesCaller == \A r \in Requests : r \in unanswered ~> Ended(r)

(* The promise of RpcContract, with the maps, channels and messages hidden. *)
AbstractStatus(r) ==
  CASE call[r] = "start" -> "idle"
    [] Ended(r)          -> call[r]
    [] OTHER             -> "running"

Status == [r \in Requests |-> AbstractStatus(r)]
Reply  == [r \in Requests |-> IF call[r] = "returned" THEN answer[r] ELSE NULL]
Ran    == {r \in Requests : executions[r] > 0}

Contract == INSTANCE RpcContract WITH status <- Status, reply <- Reply, ran <- Ran

ImplementsContract == Contract!Spec
=============================================================================
