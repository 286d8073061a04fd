----------------------- MODULE ChannelRegistryProofs -----------------------
(***************************************************************************)
(* Safety of ChannelRegistry for every set of channels and every           *)
(* assignment of parking ids, and what a single parking id adds.           *)
(***************************************************************************)
EXTENDS ChannelRegistry, TLAPS

(* A channel is only ever mapped under the id its client sends.             *)
OwnKey ==
  \A k \in ParkingIds, ch \in Channels :
    serverChannelMap[k] = ch => ParkingIdOf[ch] = k

(* A channel about to be put into the map is in the group, unless closed.   *)
PutIsGrouped == \A ch \in Channels : loop[ch] = "put" /\ Live(ch) => ch \in group

(* Which callbacks can be running in which state of the connection.         *)
LoopShape ==
  \A ch \in Channels :
    /\ loop[ch] \in {"add", "put"} => chan[ch] \in {"open", "dead", "closed"}
    /\ Iterating(ch) => chan[ch] = "closed"

(* A removal still has before it every key its channel is mapped under:     *)
(* only the channel's own event loop maps it, and that is iterating.       *)
KeysLeftCover ==
  \A ch \in Channels, k \in ParkingIds :
    Iterating(ch) /\ ch \notin undone /\ serverChannelMap[k] = ch => k \in keysLeft[ch]

MappedShape ==
  \A k \in ParkingIds, ch \in Channels :
    serverChannelMap[k] = ch =>
      /\ chan[ch] # "free"
      /\ chan[ch] = "gone" => ch \in undone

RegInv ==
  /\ RegTypeOK
  /\ GroupIsLive
  /\ OwnKey
  /\ MappedIsGrouped
  /\ PutIsGrouped
  /\ LoopShape
  /\ KeysLeftCover
  /\ MappedShape

(* The hypothesis that holds of the client in this repository: every        *)
(* heartbeat carries the same id.                                          *)
SingleLot == \A c, d \in Channels : ParkingIdOf[c] = ParkingIdOf[d]

FoundIsOwn ==
  \A ch \in Channels : loop[ch] = "remove" => found[ch] = ParkingIdOf[ch]

(* With one id, whatever makes an iterator fail has also unmapped its       *)
(* channel.                                                                *)
StaleIsUnmapped ==
  \A ch \in Channels : Iterating(ch) /\ ch \in stale => ~Mapped(ch)

FailedIsUnmapped == \A ch \in Channels : chan[ch] = "failed" => ~Mapped(ch)

(* An iterator only has before it ids that some client sends.               *)
KeysLeftAreSent ==
  \A ch \in Channels, k \in ParkingIds :
    Iterating(ch) /\ k \in keysLeft[ch] => \E c \in Channels : ParkingIdOf[c] = k

(* Two removes race on different keys only.                                 *)
NoneUndone == undone = {}

OneLotInv ==
  /\ FoundIsOwn
  /\ StaleIsUnmapped
  /\ FailedIsUnmapped
  /\ KeysLeftAreSent
  /\ NoneUndone
-----------------------------------------------------------------------------
(* The parts of the invariant hold of the initial states.                   *)
LEMMA InitInv == RegInit => RegInv /\ OneLotInv
<1>1. ASSUME NEW k \in ParkingIds, NEW ch \in Channels
      PROVE  NULL # ch
  BY ChannelRegistryAssumption
<1> QED
  BY <1>1, ChannelRegistryAssumption
  DEF RegInit, RegInv, RegTypeOK, GroupIsLive, OwnKey, MappedIsGrouped,
      PutIsGrouped, LoopShape, KeysLeftCover, MappedShape, OneLotInv,
      FoundIsOwn, StaleIsUnmapped, FailedIsUnmapped, KeysLeftAreSent,
      NoneUndone, Mapped, Iterating, ChannelState, LoopState

(* Every step of a channel keeps the invariant: one case per action.        *)
LEMMA StepInv ==
  ASSUME RegInv, NEW ch \in Channels, RegStep(ch)
  PROVE  RegInv'
<1> USE ChannelRegistryAssumption
    DEF RegInv, RegTypeOK, GroupIsLive, OwnKey, MappedIsGrouped, PutIsGrouped,
        LoopShape, KeysLeftCover, MappedShape, Iterating, Live, ChannelState,
        LoopState, transport, maps, iterators
<1>1. CASE Connect(ch)
  BY <1>1 DEF Connect
<1>2. CASE PeerVanishes(ch)
  BY <1>2 DEF PeerVanishes
<1>3. CASE PeerCloses(ch)
  BY <1>3 DEF PeerCloses, Closed
<1>4. CASE ReaderIdle(ch)
  BY <1>4 DEF ReaderIdle, Closed
<1>5. CASE HeartCheck(ch)
  BY <1>5 DEF HeartCheck
<1>6. CASE HeartAdd(ch)
  BY <1>6 DEF HeartAdd, GroupAdd
<1>7. CASE HeartPut(ch)
  <2>1. CASE serverChannelMap' = [serverChannelMap EXCEPT ![ParkingIdOf[ch]] = ch]
    BY <1>7, <2>1 DEF HeartPut, StaleAfterRestructure
  <2>2. CASE UNCHANGED serverChannelMap
    BY <1>7, <2>2 DEF HeartPut, StaleAfterRestructure
  <2> QED
    BY <1>7, <2>1, <2>2 DEF HeartPut
<1>8. CASE InactiveBegin(ch)
  BY <1>8 DEF InactiveBegin, KeySet
<1>9. CASE InactiveNext(ch)
  BY <1>9 DEF InactiveNext
<1>10. CASE InactiveRemove(ch)
  <2>1. stale' \subseteq Channels /\ undone' \subseteq Channels
    BY <1>10 DEF InactiveRemove, StaleAfterRestructure
  <2>2. CASE serverChannelMap' = MapWithout(found[ch])
    BY <1>10, <2>1, <2>2 DEF InactiveRemove, MapWithout
  <2>3. CASE ch \in undone' /\ UNCHANGED serverChannelMap
    BY <1>10, <2>1, <2>3 DEF InactiveRemove
  <2> QED
    BY <1>10, <2>2, <2>3 DEF InactiveRemove
<1>11. CASE InactiveDone(ch)
  BY <1>11 DEF InactiveDone
<1>12. CASE InactiveThrows(ch)
  <2>1. Iterating(ch) /\ chan[ch] = "closed"
    BY <1>12 DEF InactiveThrows
  <2> QED
    BY <1>12, <2>1 DEF InactiveThrows
<1> QED
  BY <1>1, <1>2, <1>3, <1>4, <1>5, <1>6, <1>7, <1>8, <1>9, <1>10, <1>11, <1>12
  DEF RegStep, Inactive

(* With a single id every step also keeps the rest of the invariant.  Only  *)
(* the steps of the HEART and the channelInactive callbacks can disturb it;*)
(* the two that make iterators stale leave the one key mapped to the       *)
(* channel itself, or to nothing.                                          *)
LEMMA StepOneLotInv ==
  ASSUME SingleLot, RegInv, OneLotInv, NEW ch \in Channels, RegStep(ch)
  PROVE  OneLotInv'
<1> USE ChannelRegistryAssumption
    DEF RegInv, RegTypeOK, OwnKey, LoopShape, OneLotInv, FoundIsOwn,
        StaleIsUnmapped, FailedIsUnmapped, KeysLeftAreSent, NoneUndone, Mapped,
        Iterating, ChannelState, LoopState, transport, maps, iterators
<1>1. CASE Connect(ch) \/ PeerVanishes(ch)
  BY <1>1 DEF Connect, PeerVanishes
<1>2. CASE PeerCloses(ch) \/ ReaderIdle(ch)
  BY <1>2 DEF PeerCloses, ReaderIdle, Closed
<1>3. CASE HeartCheck(ch)
  BY <1>3 DEF HeartCheck
<1>4. CASE HeartAdd(ch)
  BY <1>4 DEF HeartAdd
<1>5. CASE HeartPut(ch)
  <2>1. FoundIsOwn'
    BY <1>5 DEF HeartPut
  <2>2. StaleIsUnmapped'
    <3> SUFFICES ASSUME NEW d \in Channels, Iterating(d)', d \in stale',
                        NEW k \in ParkingIds, serverChannelMap'[k] = d
                 PROVE  FALSE
      OBVIOUS
    <3>1. d # ch /\ Iterating(d)
      BY <1>5 DEF HeartPut
    <3>2. serverChannelMap[k] = d /\ k = ParkingIdOf[d]
      BY <1>5, <3>1 DEF HeartPut
    <3>3. k = ParkingIdOf[ch]
      BY <3>2 DEF SingleLot
    <3> QED
      BY <1>5, <3>1, <3>2, <3>3 DEF HeartPut, NotYetMapped
  <2>3. FailedIsUnmapped'
    BY <1>5 DEF HeartPut
  <2>4. KeysLeftAreSent' /\ NoneUndone'
    BY <1>5 DEF HeartPut
  <2> QED
    BY <2>1, <2>2, <2>3, <2>4
<1>6. CASE InactiveBegin(ch)
  <2>1. KeysLeftAreSent'
    <3> SUFFICES ASSUME NEW d \in Channels, NEW k \in ParkingIds,
                        Iterating(d)', k \in keysLeft'[d]
                 PROVE  \E c \in Channels : ParkingIdOf[c] = k
      BY DEF KeysLeftAreSent
    <3>1. CASE d = ch
      BY <1>6, <3>1 DEF InactiveBegin, KeySet
    <3>2. CASE d # ch
      BY <1>6, <3>2 DEF InactiveBegin
    <3> QED
      BY <3>1, <3>2
  <2> QED
    BY <1>6, <2>1 DEF InactiveBegin
<1>7. CASE InactiveNext(ch)
  BY <1>7 DEF InactiveNext
<1>8. CASE InactiveRemove(ch)
  <2>1. ~OtherRemoves(ch, found[ch])
    BY <1>8 DEF InactiveRemove, OtherRemoves, SingleLot
  <2>2. serverChannelMap' = MapWithout(found[ch]) /\ UNCHANGED undone
    BY <1>8, <2>1 DEF InactiveRemove
  <2>3. FoundIsOwn' /\ KeysLeftAreSent'
    BY <1>8 DEF InactiveRemove
  <2>4. \A d \in Channels : ~Mapped(d)'
    <3> SUFFICES ASSUME NEW d \in Channels,
                        NEW k \in ParkingIds, serverChannelMap'[k] = d
                 PROVE  FALSE
      OBVIOUS
    <3>1. serverChannelMap[k] = d /\ k # found[ch]
      BY <2>2 DEF MapWithout
    <3>2. k = ParkingIdOf[d] /\ found[ch] = ParkingIdOf[ch]
      BY <1>8, <3>1 DEF InactiveRemove
    <3> QED
      BY <3>1, <3>2 DEF SingleLot
  <2> QED
    BY <2>2, <2>3, <2>4
<1>9. CASE InactiveDone(ch)
  BY <1>9 DEF InactiveDone
<1>10. CASE InactiveThrows(ch)
  <2>1. Iterating(ch)
    BY <1>10 DEF InactiveThrows
  <2>2. ~Mapped(ch)
    <3>1. CASE ch \in stale
      BY <2>1, <3>1
    <3>2. CASE ~(keysLeft[ch] \subseteq KeySet)
      <4>1. PICK k \in keysLeft[ch] : k \in ParkingIds /\ serverChannelMap[k] = NULL
        BY <3>2 DEF KeySet
      <4>2. k = ParkingIdOf[ch]
        BY <2>1, <4>1 DEF KeysLeftAreSent, SingleLot
      <4> QED
        BY <4>1, <4>2
    <3> QED
      BY <1>10, <3>1, <3>2 DEF InactiveThrows
  <2> QED
    BY <1>10, <2>1, <2>2 DEF InactiveThrows
<1> QED
  BY <1>1, <1>2, <1>3, <1>4, <1>5, <1>6, <1>7, <1>8, <1>9, <1>10
  DEF RegStep, Inactive

(* A step that changes no variable of the registry changes no invariant.    *)
LEMMA StutterInv ==
  ASSUME UNCHANGED regVars
  PROVE  /\ RegInv => RegInv'
         /\ OneLotInv => OneLotInv'
BY DEF regVars, RegInv, RegTypeOK, GroupIsLive, OwnKey, MappedIsGrouped,
       PutIsGrouped, LoopShape, KeysLeftCover, MappedShape, Iterating, Live,
       OneLotInv, FoundIsOwn, StaleIsUnmapped, FailedIsUnmapped,
       KeysLeftAreSent, NoneUndone, Mapped

-----------------------------------------------------------------------------
THEOREM RegInvariant == RegSpec => []RegInv
<1>1. RegInit => RegInv
  BY InitInv
<1>2. RegInv /\ [RegNext]_regVars => RegInv'
  BY StepInv, StutterInv DEF RegNext
<1> QED
  BY <1>1, <1>2, PTL DEF RegSpec

(* The maps, the group and the iterators keep their types.                  *)
THEOREM TypeCorrect == RegSpec => []RegTypeOK
BY RegInvariant, PTL DEF RegInv

(* No request ever picks a closed channel out of `group`.                   *)
THEOREM GroupOnlyLive == RegSpec => []GroupIsLive
BY RegInvariant, PTL DEF RegInv

(* A mapped channel that is not closed can be found in `group`, although    *)
(* RpcServerHandler fills the two without a lock.                          *)
THEOREM MappedCanBeFound == RegSpec => []MappedIsGrouped
BY RegInvariant, PTL DEF RegInv

(* A removeServerChannel that returns has unmapped its channel, whatever    *)
(* the other event loops did while it iterated.                            *)
THEOREM RemovalIsComplete == RegSpec => []CompletedRemovalIsClean
<1>1. RegInv => CompletedRemovalIsClean
  BY DEF RegInv, MappedShape, CompletedRemovalIsClean, Mapped
<1> QED
  BY <1>1, RegInvariant, PTL

(* With a single id, a removeServerChannel leaves no mapping of its channel *)
(* behind even when the iteration is cut short by an exception.            *)
THEOREM NoGhostWithOneLot == SingleLot /\ RegSpec => []NoGhostMapping
<1>1. RegInit => OneLotInv
  BY InitInv
<1>2. SingleLot /\ RegInv /\ OneLotInv /\ [RegNext]_regVars => OneLotInv'
  BY StepOneLotInv, StutterInv DEF RegNext
<1>3. RegInv /\ OneLotInv => NoGhostMapping
  BY DEF RegInv, MappedShape, OneLotInv, FailedIsUnmapped, NoneUndone,
         NoGhostMapping, Mapped
<1>4. CASE SingleLot
  <2>1. RegInv /\ OneLotInv /\ [RegNext]_regVars => OneLotInv'
    BY <1>2, <1>4
  <2> QED
    BY <1>1, <2>1, <1>3, RegInvariant, PTL DEF RegSpec
<1> QED
  BY <1>4
=============================================================================
