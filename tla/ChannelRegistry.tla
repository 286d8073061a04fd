-------------------------- MODULE ChannelRegistry --------------------------
(***************************************************************************)
(* The server's registry of client channels: the static maps `group` and  *)
(* `serverChannelMap` of netty.core.ServerNettyMapping, and the pipeline   *)
(* callbacks of netty.server.RpcServerHandler and                          *)
(* netty.heart.AcceptorIdleStateTrigger that change them.                  *)
(*                                                                         *)
(* Each accepted channel is served by one event-loop thread: callbacks of  *)
(* one channel never overlap, callbacks of two channels do.  The two maps  *)
(* are shared by all of them without a lock, so a callback is split at     *)
(* every access to them.  `loop[ch]` is the position inside the callback.  *)
(*                                                                         *)
(* serverChannelMap is a java.util.HashMap without synchronization.  Its    *)
(* operations are single steps, except for what a data race on it can do:  *)
(*  - the put of a new key is lost while another thread puts or removes    *)
(*    another key (same bin, or the table is being created),               *)
(*  - a remove is undone while another thread removes the neighbouring     *)
(*    node of the bin,                                                     *)
(*  - an iterator.remove() that has passed its modCount check goes on      *)
(*    although the map changes under it.                                   *)
(* The growth of the table, which takes more than 12 ids, is left out.      *)
(* `stale` holds the iterators that fail their next modCount check with a  *)
(* ConcurrentModificationException.                                         *)
(***************************************************************************)
EXTENDS FiniteSets

CONSTANTS
  Channels,     \* the connections the server ever accepts (each has its own ChannelId)
  ParkingIds,   \* the parking-lot ids
  ParkingIdOf,  \* the id the client behind a channel puts in its heartbeats
  NULL          \* what HashMap.get returns for a key that is not there

ASSUME ChannelRegistryAssumption ==
  /\ ParkingIdOf \in [Channels -> ParkingIds]
  /\ NULL \notin Channels

(* "free"  : not accepted yet            "open"   : accepted, peer alive    *)
(* "dead"  : the peer vanished silently, the server has not noticed        *)
(* "closed": closeFuture is complete     "gone"   : channelInactive returned*)
(* "failed": channelInactive ended with an exception                       *)
ChannelState == {"free", "open", "dead", "closed", "gone", "failed"}

(* "idle"; "add", "put": inside the HEART branch; "next", "remove": inside  *)
(* the loop of removeServerChannel.                                        *)
LoopState == {"idle", "add", "put", "next", "remove"}

VARIABLES
  chan,              \* [Channels -> ChannelState]
  loop,              \* [Channels -> LoopState]
  group,             \* ServerNettyMapping.group
  serverChannelMap,  \* ServerNettyMapping.serverChannelMap
  keysLeft,          \* the keys a removeServerChannel iterator has not passed
  found,             \* the key its iterator.remove() is about to remove
  stale,             \* channels whose iterator would fail its modCount check
  undone             \* channels one of whose removes was undone by a race

transport == <<chan>>
maps      == <<group, serverChannelMap>>
iterators == <<keysLeft, found, stale, undone>>
regVars   == <<chan, loop, group, serverChannelMap, keysLeft, found, stale, undone>>

RegTypeOK ==
  /\ chan \in [Channels -> ChannelState]
  /\ loop \in [Channels -> LoopState]
  /\ group \subseteq Channels
  /\ serverChannelMap \in [ParkingIds -> Channels \union {NULL}]
  /\ keysLeft \in [Channels -> SUBSET ParkingIds]
  /\ found \in [Channels -> ParkingIds]
  /\ stale \subseteq Channels
  /\ undone \subseteq Channels

Live(ch)      == chan[ch] \in {"open", "dead"}
Iterating(ch) == loop[ch] \in {"next", "remove"}
Mapped(ch)    == \E k \in ParkingIds : serverChannelMap[k] = ch

RegInit ==
  /\ chan = [ch \in Channels |-> "free"]
  /\ loop = [ch \in Channels |-> "idle"]
  /\ group = {}
  /\ serverChannelMap = [k \in ParkingIds |-> NULL]
  /\ keysLeft = [ch \in Channels |-> {}]
  /\ found = ParkingIdOf
  /\ stale = {}
  /\ undone = {}

-----------------------------------------------------------------------------
(* Accepting and losing connections.                                       *)

(* A connection is accepted.  initChannel installs the handlers and        *)
(* channelActive only prints: nothing is registered yet.                   *)
Connect(ch) ==
  /\ chan[ch] = "free"
  /\ chan' = [chan EXCEPT ![ch] = "open"]
  /\ UNCHANGED <<loop, maps, iterators>>

(* The peer crashes or the network breaks without a FIN or a RST.          *)
PeerVanishes(ch) ==
  /\ chan[ch] = "open"
  /\ chan' = [chan EXCEPT ![ch] = "dead"]
  /\ UNCHANGED <<loop, maps, iterators>>

(* The transport closes on the channel's event loop.  DefaultChannelGroup  *)
(* listens on closeFuture, which completes before channelInactive fires;   *)
(* the close and the listener it runs next are one step.                   *)
Closed(ch) ==
  /\ loop[ch] = "idle"
  /\ chan' = [chan EXCEPT ![ch] = "closed"]
  /\ group' = group \ {ch}
  /\ UNCHANGED <<loop, serverChannelMap, iterators>>

(* The peer closes, or a read or a decode fails: exceptionCaught closes.   *)
PeerCloses(ch) == chan[ch] = "open" /\ Closed(ch)

(* Faulty variant: the idle trigger misses a peer that has vanished.        *)
ReaderIdleMissesDead(ch) == chan[ch] = "open" /\ Closed(ch)

(* Nothing was read for 5 s: AcceptorIdleStateTrigger throws, and           *)
(* RpcServerHandler.exceptionCaught closes the channel.  The peer may be   *)
(* gone, or only late.                                                     *)
ReaderIdle(ch) == Live(ch) /\ Closed(ch)

-----------------------------------------------------------------------------
(* The HEART branch of RpcServerHandler.dealDifferentMsg.                   *)

(* A put of a new key, or a remove, invalidates the other open iterators.   *)
StaleAfterRestructure(ch) == stale \union {c \in Channels \ {ch} : Iterating(c)}

(* Registration is first come, first served: only a null lookup goes on.   *)
NotYetMapped(ch) == serverChannelMap[ParkingIdOf[ch]] = NULL

(* A heartbeat is read.  Bytes left in the decoder are still delivered     *)
(* after the close and before channelInactive.  When the id is already     *)
(* mapped the branch changes nothing.                                      *)
HeartCheck(ch) ==
  /\ chan[ch] \in {"open", "closed"}
  /\ loop[ch] = "idle"
  /\ NotYetMapped(ch)
  /\ loop' = [loop EXCEPT ![ch] = "add"]
  /\ UNCHANGED <<transport, maps, iterators>>

(* Faulty variants of GroupAdd: no close listener; the add forgotten.       *)
GroupAddWithoutListener(ch) == group \union {ch}
GroupAddForgotten(ch)       == group

(* group.add(ch); a closed channel is taken out again by the listener that *)
(* add installs and Netty runs at once: the two are one step.              *)
GroupAdd(ch) == IF Live(ch) THEN group \union {ch} ELSE group

HeartAdd(ch) ==
  /\ loop[ch] = "add"
  /\ group' = GroupAdd(ch)
  /\ loop' = [loop EXCEPT ![ch] = "put"]
  /\ UNCHANGED <<transport, serverChannelMap, iterators>>

(* Another event loop is about to put, or to remove, a key other than k.     *)
OtherPuts(ch, k)    == \E c \in Channels \ {ch} : loop[c] = "put" /\ ParkingIdOf[c] # k
OtherRemoves(ch, k) == \E c \in Channels \ {ch} : loop[c] = "remove" /\ found[c] # k

(* serverChannelMap.put(content, ch.id()): overwrites whatever another     *)
(* event loop put there since the check; as a new key it may be lost.      *)
HeartPut(ch) ==
  LET k == ParkingIdOf[ch] IN
  /\ loop[ch] = "put"
  /\ stale' = IF NotYetMapped(ch) THEN StaleAfterRestructure(ch) ELSE stale
  /\ \/ serverChannelMap' = [serverChannelMap EXCEPT ![k] = ch]
     \/ /\ NotYetMapped(ch)
        /\ OtherPuts(ch, k) \/ OtherRemoves(ch, k)
        /\ UNCHANGED serverChannelMap
  /\ loop' = [loop EXCEPT ![ch] = "idle"]
  /\ UNCHANGED <<transport, group, keysLeft, found, undone>>

-----------------------------------------------------------------------------
(* RpcServerHandler.channelInactive and ServerNettyMapping.                 *)
(* removeServerChannel: a fail-fast iteration over the key set.            *)

(* Faulty variant: nothing is removed.                                      *)
MapStillWith(k) == serverChannelMap

KeySet         == {k \in ParkingIds : serverChannelMap[k] # NULL}
MapWithout(k)  == [serverChannelMap EXCEPT ![k] = NULL]

InactiveBegin(ch) ==
  /\ chan[ch] = "closed"
  /\ loop[ch] = "idle"
  /\ loop' = [loop EXCEPT ![ch] = "next"]
  /\ keysLeft' = [keysLeft EXCEPT ![ch] = KeySet]
  /\ stale' = stale \ {ch}
  /\ UNCHANGED <<transport, maps, found, undone>>

(* iterator.next() and the get of its key, compared with this channel's id *)
InactiveNext(ch) ==
  /\ loop[ch] = "next"
  /\ ch \notin stale
  /\ \E k \in keysLeft[ch] :
       IF serverChannelMap[k] = ch
       THEN /\ found' = [found EXCEPT ![ch] = k]
            /\ loop' = [loop EXCEPT ![ch] = "remove"]
            /\ UNCHANGED keysLeft
       ELSE /\ keysLeft' = [keysLeft EXCEPT ![ch] = @ \ {k}]
            /\ UNCHANGED <<found, loop>>
  /\ UNCHANGED <<transport, maps, stale, undone>>

(* iterator.remove(): removes the key, whatever it is mapped to by now,     *)
(* and takes the map's modCount for the iterator's own.                    *)
InactiveRemove(ch) ==
  /\ loop[ch] = "remove"
  /\ \/ serverChannelMap' = MapWithout(found[ch]) /\ UNCHANGED undone
     \/ /\ OtherRemoves(ch, found[ch])
        /\ undone' = undone \union {ch}
        /\ UNCHANGED serverChannelMap
  /\ stale' = StaleAfterRestructure(ch) \ {ch}
  /\ keysLeft' = [keysLeft EXCEPT ![ch] = @ \ {found[ch]}]
  /\ loop' = [loop EXCEPT ![ch] = "next"]
  /\ UNCHANGED <<transport, group, found>>

(* hasNext() is false (it does not check modCount): group.remove(channel). *)
InactiveDone(ch) ==
  /\ loop[ch] = "next"
  /\ keysLeft[ch] = {}
  /\ group' = group \ {ch}
  /\ chan' = [chan EXCEPT ![ch] = "gone"]
  /\ loop' = [loop EXCEPT ![ch] = "idle"]
  /\ UNCHANGED <<serverChannelMap, iterators>>

(* next() or remove() fails the modCount check, or the key that next()     *)
(* returns is not in the map any more and its null id is dereferenced: the *)
(* loop and group.remove are abandoned, and exceptionCaught closes a       *)
(* channel that is closed already.                                         *)
InactiveThrows(ch) ==
  /\ \/ loop[ch] = "next" /\ keysLeft[ch] # {} /\ ch \in stale
     \/ loop[ch] = "next" /\ ~(keysLeft[ch] \subseteq KeySet)
     \/ loop[ch] = "remove" /\ ch \in stale
  /\ chan' = [chan EXCEPT ![ch] = "failed"]
  /\ loop' = [loop EXCEPT ![ch] = "idle"]
  /\ UNCHANGED <<maps, iterators>>

Inactive(ch) ==
  \/ InactiveBegin(ch)
  \/ InactiveNext(ch)
  \/ InactiveRemove(ch)
  \/ InactiveDone(ch)
  \/ InactiveThrows(ch)

-----------------------------------------------------------------------------
RegStep(ch) ==
  \/ Connect(ch)
  \/ PeerVanishes(ch)
  \/ PeerCloses(ch)
  \/ ReaderIdle(ch)
  \/ HeartCheck(ch)
  \/ HeartAdd(ch)
  \/ HeartPut(ch)
  \/ Inactive(ch)

RegNext == \E ch \in Channels : RegStep(ch)

(* An event loop runs the callback it is in to its end; a connected client *)
(* sends a heartbeat every 4 s and a silent channel is idle after 5 s.     *)
RegFairness ==
  \A ch \in Channels :
    /\ WF_regVars(HeartCheck(ch))
    /\ WF_regVars(HeartAdd(ch))
    /\ WF_regVars(HeartPut(ch))
    /\ WF_regVars(Inactive(ch))
    /\ WF_regVars(chan[ch] = "dead" /\ ReaderIdle(ch))

RegSpec == RegInit /\ [][RegNext]_regVars /\ RegFairness

-----------------------------------------------------------------------------
(* Safety.                                                                 *)

(* `group` only ever holds channels that are still connected as far as the *)
(* server knows, so a request picks no channel that was closed before it   *)
(* scans.  (Between the close, or the add, and the listener that takes the *)
(* channel out an HTTP thread can meet it for an instant; Netty's own two  *)
(* steps are one here.  The write to it then fails like one to a channel   *)
(* that closes just after the scan, which RpcSystem has.)                  *)
GroupIsLive == \A ch \in group : Live(ch)

(* A mapped channel that is not closed is in `group`: a request that finds  *)
(* an id in serverChannelMap also finds the channel when it scans `group`.  *)
(* (RpcServerHandler adds to the group before it puts into the map, and    *)
(* only the close takes a channel out.)                                    *)
MappedIsGrouped ==
  \A k \in ParkingIds, ch \in Channels :
    serverChannelMap[k] = ch /\ Live(ch) => ch \in group

(* When removeServerChannel has run to its end no id is mapped to its       *)
(* channel, although other event loops put and remove while it iterates:   *)
(* only an undone remove can leave one.                                    *)
CompletedRemovalIsClean ==
  \A ch \in Channels : chan[ch] = "gone" /\ ch \notin undone => ~Mapped(ch)

(* "Deletes the mapping of parking id and channel": once channelInactive    *)
(* is over, by return or by exception, no id is mapped to the channel.     *)
NoGhostMapping ==
  \A ch \in Channels : chan[ch] \in {"gone", "failed"} => ~Mapped(ch)

(* A put that another event loop's put or remove can make lost.              *)
PutRaces ==
  \E ch \in Channels :
    /\ loop[ch] = "put"
    /\ OtherPuts(ch, ParkingIdOf[ch]) \/ OtherRemoves(ch, ParkingIdOf[ch])

(* Liveness: while a client of a lot stays connected, the lot keeps being   *)
(* bound to a connected, reachable channel; a mapping left by a vanished   *)
(* peer is cleared by the reader-idle close, and the next heartbeat of the *)
(* connected client takes the id.  The exceptions: a removal that is cut    *)
(* short or undone can leave a mapping that nothing clears any more         *)
(* (NoGhostMapping), and puts that race every time can be lost every time.  *)
LotReachable ==
  []NoGhostMapping /\ <>[]~PutRaces =>
    \A ch \in Channels :
      <>[](chan[ch] = "open") =>
        []<>(\E c \in group : chan[c] = "open" /\ serverChannelMap[ParkingIdOf[ch]] = c)
=============================================================================
