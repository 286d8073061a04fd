--------------------------- MODULE MessageCodec ---------------------------
(***************************************************************************)
(* The codec in the server's JVM: MessageDecoder cuts the bytes of a       *)
(* channel into frames (a 4-byte length, then the body), MessageEncoder    *)
(* makes them, and KryoCodecUtil turns a body into an object and back with *)
(* a Kryo instance borrowed from the one pool.                             *)
(*                                                                         *)
(* Every channel is served by one event loop, its decodes and encodes      *)
(* never overlap.  Those of two channels do, and they share the pool, a    *)
(* concurrent queue, and KryoCodecUtil's static Closer, whose ArrayDeque   *)
(* is not synchronized: `finally` closes whatever streams are registered,  *)
(* in a loop that first asks isEmpty and then calls removeFirst.           *)
(*                                                                         *)
(* A call of the deque takes effect in one step, unless another loop's     *)
(* call overlaps it (it is then `torn`): the indices the two write get     *)
(* mixed up, streams can be lost, and if one of the calls is a removal a   *)
(* null can come to lie inside the deque (`holed`).  removeFirst throws on *)
(* a null and does not pass it, so that from then on no close() succeeds.  *)
(***************************************************************************)
EXTENDS Integers, SequencesExt

CONSTANTS
  Loops,           \* the event loops, each with its channel
  Messages,
  Inbound,         \* [Loops -> Seq(Messages)]: what the peers send
  Outbound,        \* [Loops -> Seq(Messages)]: what the server sends
  BodyLength,      \* the bytes Kryo makes of a message
  MESSAGE_LENGTH,  \* the bytes of the length field
  NULL

Jobs == [op : {"decode", "encode"}, msg : Messages]

ASSUME MessageCodecAssumption ==
  /\ Inbound \in [Loops -> Seq(Messages)]
  /\ Outbound \in [Loops -> Seq(Messages)]
  /\ BodyLength \in [Messages -> Nat]
  /\ MESSAGE_LENGTH \in Nat \ {0}
  /\ NULL \notin Jobs

(* A byte is known by the message it belongs to and its place in the frame. *)
Frame(m)   == [i \in 1 .. MESSAGE_LENGTH + BodyLength[m] |-> [of |-> m, at |-> i]]
Stream(ms) == FlattenSeq([i \in DOMAIN ms |-> Frame(ms[i])])

(* "idle"; "register": in closer.register; "borrow"; "work": a Kryo is in   *)
(* use; "isEmpty", "removeFirst": in closer.close().                       *)
StepState == {"idle", "register", "borrow", "work", "isEmpty", "removeFirst"}

VARIABLES
  wire,       \* bytes the peer has sent and the channel has not read
  buf,        \* the decoder's readable bytes
  delivered,  \* the objects handed to the next handler
  encoded,    \* how many messages of Outbound have been encoded or dropped
  sent,       \* the messages whose frames went out
  closed,     \* loops whose channel has been closed after an exception
  step,       \* where the loop is inside KryoCodecUtil.decode or encode
  job,        \* the message in work: [op, msg], or NULL
  failed,     \* the job threw: finally runs, and the exception goes on
  open,       \* how many streams the closer's deque has (in front of a hole)
  holed,      \* a null lies in the deque
  torn,       \* loops whose call of the deque another loop's has overlapped
  pool,       \* the Kryo instances in the pool
  using,      \* the Kryo instance a loop uses, 0 for none
  created     \* Kryo instances made so far

channels == <<wire, buf, delivered, encoded, sent, closed>>
closer   == <<open, holed, torn>>
kryos    == <<pool, using, created>>
vars     == <<channels, step, job, failed, closer, kryos>>

Init ==
  /\ wire = [l \in Loops |-> Stream(Inbound[l])]
  /\ buf = [l \in Loops |-> <<>>]
  /\ delivered = [l \in Loops |-> <<>>]
  /\ encoded = [l \in Loops |-> 0]
  /\ sent = [l \in Loops |-> <<>>]
  /\ closed = {}
  /\ step = [l \in Loops |-> "idle"]
  /\ job = [l \in Loops |-> NULL]
  /\ failed = {}
  /\ open = 0
  /\ holed = FALSE
  /\ torn = {}
  /\ pool = {}
  /\ using = [l \in Loops |-> 0]
  /\ created = 0

At(l, from)        == step[l] = from
Goes(l, from, to)  == At(l, from) /\ step' = [step EXCEPT ![l] = to]

-----------------------------------------------------------------------------
(* A chunk of any size arrives; nothing arrives on a closed channel.        *)
Arrive(l) ==
  /\ At(l, "idle")
  /\ l \notin closed
  /\ \E n \in 1 .. Len(wire[l]) :
       /\ buf' = [buf EXCEPT ![l] = @ \o SubSeq(wire[l], 1, n)]
       /\ wire' = [wire EXCEPT ![l] = SubSeq(@, n + 1, Len(@))]
  /\ UNCHANGED <<delivered, encoded, sent, closed, step, job, failed, closer, kryos>>

(* The length field of the frame at the head of the buffer.                 *)
HeadLength(l) == BodyLength[Head(buf[l]).of]

(* Faulty variants: the length field is counted as body; one byte too many  *)
(* is waited for.                                                          *)
FrameReadyWithoutHeader(l) ==
  Len(buf[l]) >= MESSAGE_LENGTH /\ Len(buf[l]) >= HeadLength(l)
FrameReadyTooLate(l) ==
  Len(buf[l]) >= MESSAGE_LENGTH /\ Len(buf[l]) > MESSAGE_LENGTH + HeadLength(l)

(* The length is there, and as many bytes as it says.                       *)
FrameReady(l) ==
  Len(buf[l]) >= MESSAGE_LENGTH /\ Len(buf[l]) >= MESSAGE_LENGTH + HeadLength(l)

Begin(l, op, m) ==
  /\ Goes(l, "idle", "register")
  /\ job' = [job EXCEPT ![l] = [op |-> op, msg |-> m]]
  /\ UNCHANGED <<failed, closer, kryos>>

(* MessageDecoder.decode with a whole frame (with less it leaves the buffer *)
(* as it was).  What is left in the buffer after a close is decoded on     *)
(* channelInactive.                                                        *)
Decode(l) ==
  /\ FrameReady(l)
  /\ Begin(l, "decode", Head(buf[l]).of)
  /\ buf' = [buf EXCEPT ![l] = SubSeq(@, MESSAGE_LENGTH + HeadLength(l) + 1, Len(@))]
  /\ UNCHANGED <<wire, delivered, encoded, sent, closed>>

(* MessageEncoder.encode.                                                   *)
Encode(l) ==
  /\ encoded[l] < Len(Outbound[l])
  /\ Begin(l, "encode", Outbound[l][encoded[l] + 1])
  /\ encoded' = [encoded EXCEPT ![l] = @ + 1]
  /\ UNCHANGED <<wire, buf, delivered, sent, closed>>

-----------------------------------------------------------------------------
(* Loops that are inside a call of the closer's deque while l makes one.     *)
Overlapped(l) == {k \in Loops \ {l} : step[k] \in {"register", "removeFirst"}}

(* closer.register(stream)                                                  *)
Register(l) ==
  /\ Goes(l, "register", "borrow")
  /\ \/ open' = open + 1 /\ UNCHANGED holed
     \/ l \in torn /\ open' \in 0 .. open /\ holed' \in {holed, TRUE}
  /\ torn' = (torn \ {l}) \union Overlapped(l)
  /\ UNCHANGED <<channels, job, failed, kryos>>

-----------------------------------------------------------------------------
(* KryoSerialize: borrow, use, release.                                     *)

(* Faulty variant: the instance stays in the pool while it is in use.       *)
BorrowAndKeep(l) ==
  /\ Goes(l, "borrow", "work")
  /\ \/ \E k \in pool :
          using' = [using EXCEPT ![l] = k] /\ UNCHANGED <<pool, created>>
     \/ /\ pool = {}
        /\ created' = created + 1
        /\ using' = [using EXCEPT ![l] = created']
        /\ UNCHANGED pool
  /\ UNCHANGED <<channels, job, failed, closer>>

Borrow(l) ==
  /\ Goes(l, "borrow", "work")
  /\ \/ \E k \in pool :
          /\ using' = [using EXCEPT ![l] = k]
          /\ pool' = pool \ {k}
          /\ UNCHANGED created
     \/ /\ pool = {}
        /\ created' = created + 1
        /\ using' = [using EXCEPT ![l] = created']
        /\ UNCHANGED pool
  /\ UNCHANGED <<channels, job, failed, closer>>

Release(l) ==
  /\ Goes(l, "work", "isEmpty")
  /\ pool' = pool \union {using[l]}
  /\ using' = [using EXCEPT ![l] = 0]
  /\ UNCHANGED <<channels, job, failed, closer, created>>

(* Faulty variant: the exception leaves without finally.                    *)
ThrowsWithoutFinally(l) ==
  /\ Goes(l, "work", "idle")
  /\ job' = [job EXCEPT ![l] = NULL]
  /\ using' = [using EXCEPT ![l] = 0]
  /\ UNCHANGED <<channels, failed, closer, pool, created>>

(* Kryo throws: the instance is not given back, and finally runs.           *)
Throws(l) ==
  /\ Goes(l, "work", "isEmpty")
  /\ failed' = failed \union {l}
  /\ using' = [using EXCEPT ![l] = 0]
  /\ UNCHANGED <<channels, job, closer, pool, created>>

-----------------------------------------------------------------------------
(* finally { closer.close(); }                                              *)

(* Faulty variant: the object is put in front of those before it.           *)
DeliverFirst(l, m) == [delivered EXCEPT ![l] = <<m>> \o @]

(* out.add(obj), passed on to the next handler.                             *)
Deliver(l, m) == [delivered EXCEPT ![l] = Append(@, m)]

Empty == open = 0 /\ ~holed

(* The job is done: the object is passed on, or the frame is written.       *)
Succeed(l) ==
  /\ Goes(l, "isEmpty", "idle")
  /\ Empty
  /\ l \notin failed
  /\ IF job[l].op = "decode"
     THEN delivered' = Deliver(l, job[l].msg) /\ UNCHANGED sent
     ELSE /\ sent' = IF l \in closed THEN sent
                     ELSE [sent EXCEPT ![l] = Append(@, job[l].msg)]
          /\ UNCHANGED delivered
  /\ job' = [job EXCEPT ![l] = NULL]
  /\ UNCHANGED <<wire, buf, encoded, closed, failed, closer, kryos>>

(* An exception leaves the codec.  One of decode reaches exceptionCaught,   *)
(* which closes the channel; one of encode only fails the write's future,  *)
(* which nobody looks at.                                                  *)
Fail(l) ==
  /\ \/ Goes(l, "isEmpty", "idle") /\ Empty /\ l \in failed
     \/ Goes(l, "removeFirst", "idle") /\ open = 0
  /\ closed' = IF job[l].op = "decode" THEN closed \union {l} ELSE closed
  /\ failed' = failed \ {l}
  /\ torn' = torn \ {l}
  /\ job' = [job EXCEPT ![l] = NULL]
  /\ UNCHANGED <<wire, buf, delivered, encoded, sent, open, holed, kryos>>

NotEmpty(l) ==
  /\ Goes(l, "isEmpty", "removeFirst")
  /\ ~Empty
  /\ UNCHANGED <<channels, job, failed, closer, kryos>>

(* removeFirst: closes a stream, whoever registered it.  On an empty deque  *)
(* and on a hole it throws (Fail).  A torn one may also take the stream    *)
(* that the other removal took, and change nothing.                        *)
RemoveStream(l) ==
  /\ Goes(l, "removeFirst", "isEmpty")
  /\ open > 0
  /\ \/ open' = open - 1 /\ UNCHANGED holed
     \/ l \in torn /\ open' \in 0 .. open /\ holed' \in {holed, TRUE}
  /\ torn' = (torn \ {l}) \union (IF UNCHANGED <<open, holed>> THEN {} ELSE Overlapped(l))
  /\ UNCHANGED <<channels, job, failed, kryos>>

LoopStep(l) ==
  \/ Decode(l)
  \/ Encode(l)
  \/ Register(l)
  \/ Borrow(l)
  \/ Release(l)
  \/ Throws(l)
  \/ Succeed(l)
  \/ Fail(l)
  \/ NotEmpty(l)
  \/ RemoveStream(l)

Next == \E l \in Loops : Arrive(l) \/ LoopStep(l)

(* Bytes that were sent arrive, and event loops go on.                      *)
Fairness == \A l \in Loops : WF_vars(Arrive(l)) /\ WF_vars(LoopStep(l))

Spec == Init /\ [][Next]_vars /\ Fairness

-----------------------------------------------------------------------------
Decoding(l) == job[l] # NULL /\ job[l].op = "decode"
Consumed(l) == Len(delivered[l]) + (IF Decoding(l) THEN 1 ELSE 0)

(* However the bytes are cut into chunks, the decoder stands at the start   *)
(* of a frame: what is buffered and still to come is exactly the frames of *)
(* the messages not decoded yet, and the delivered ones are the first.     *)
StreamAligned ==
  \A l \in Loops \ closed :
    /\ delivered[l] = SubSeq(Inbound[l], 1, Len(delivered[l]))
    /\ buf[l] \o wire[l] = Stream(SubSeq(Inbound[l], Consumed(l) + 1, Len(Inbound[l])))

(* s is t without some of its elements.                                     *)
IsSubsequence(s, t) ==
  \E f \in [DOMAIN s -> DOMAIN t] :
    /\ \A i, j \in DOMAIN s : i < j => f[i] < f[j]
    /\ \A i \in DOMAIN s : s[i] = t[f[i]]

(* Also when exceptions drop messages, on either side, the rest keep their  *)
(* order and none is repeated.                                             *)
OrderKept ==
  \A l \in Loops :
    /\ IsSubsequence(delivered[l], Inbound[l])
    /\ IsSubsequence(sent[l], SubSeq(Outbound[l], 1, encoded[l]))

(* The shared closer keeps no stream once all loops have left it, though    *)
(* they remove each other's streams and fail on it, as long as the deque   *)
(* itself is intact.                                                       *)
CloserEmptyAtRest == (\A l \in Loops : step[l] = "idle") /\ ~holed => open = 0

(* A Kryo, which is not thread-safe, is used by one loop at a time.         *)
KryoExclusive ==
  \A l \in Loops :
    using[l] # 0 =>
      /\ using[l] \notin pool
      /\ \A k \in Loops : using[k] = using[l] => k = l

(* Liveness: every message the peer sent is delivered, unless an exception  *)
(* closes the channel.                                                     *)
EveryFrameDelivered ==
  \A l \in Loops : <>(l \in closed \/ delivered[l] = Inbound[l])
=============================================================================
