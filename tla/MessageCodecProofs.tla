------------------------- MODULE MessageCodecProofs -------------------------
(* Three things about the codec, for any number of loops and messages:      *)
(* that the Kryo pool hands an instance to one event loop at a time,       *)
(* whatever the closer does in between; that the shared closer is empty    *)
(* when no loop is inside; and that the decoder cuts the bytes into the    *)
(* frames they were made of, in order, however they arrive.                *)
EXTENDS MessageCodec, SequenceTheorems, WellFoundedInduction, TLAPS

(* An instance has been created; it is in the pool, in use by one loop that *)
(* is working, or, after an exception, in neither.                         *)
PoolInv ==
  /\ step \in [Loops -> StepState]
  /\ created \in Nat
  /\ pool \subseteq 1 .. created
  /\ using \in [Loops -> 0 .. created]
  /\ \A l \in Loops : using[l] # 0 <=> step[l] = "work"
  /\ KryoExclusive

LEMMA PoolInit == Init => PoolInv
BY DEF Init, PoolInv, StepState, KryoExclusive

(* Steps that leave the pool alone and neither enter nor leave "work".      *)
LEMMA PoolApart ==
  ASSUME PoolInv, NEW l \in Loops, NEW to \in StepState \ {"work"},
         step' = [step EXCEPT ![l] = to], step[l] # "work", UNCHANGED kryos
  PROVE  PoolInv'
BY DEF PoolInv, KryoExclusive, kryos, StepState

LEMMA PoolStep == PoolInv /\ [Next]_vars => PoolInv'
<1> SUFFICES ASSUME PoolInv, [Next]_vars PROVE PoolInv'
  OBVIOUS
<1>1. CASE UNCHANGED vars
  BY <1>1 DEF PoolInv, KryoExclusive, vars, kryos
<1>2. ASSUME NEW l \in Loops, Arrive(l) PROVE PoolInv'
  BY <1>2 DEF Arrive, PoolInv, KryoExclusive, kryos
<1>3. ASSUME NEW l \in Loops, Decode(l) \/ Encode(l) PROVE PoolInv'
  BY <1>3, PoolApart DEF Decode, Encode, Begin, Goes, At, StepState
<1>4. ASSUME NEW l \in Loops, Register(l) PROVE PoolInv'
  BY <1>4, PoolApart DEF Register, Goes, At, StepState
<1>5. ASSUME NEW l \in Loops, Borrow(l) PROVE PoolInv'
  <2> USE DEF PoolInv, KryoExclusive, Goes, At, StepState
  <2>1. CASE \E k \in pool : /\ using' = [using EXCEPT ![l] = k]
                             /\ pool' = pool \ {k}
                             /\ UNCHANGED created
    BY <1>5, <2>1 DEF Borrow
  <2>2. CASE /\ created' = created + 1
             /\ using' = [using EXCEPT ![l] = created']
             /\ UNCHANGED pool
    BY <1>5, <2>2 DEF Borrow
  <2> QED
    BY <1>5, <2>1, <2>2 DEF Borrow
<1>6. ASSUME NEW l \in Loops, Release(l) PROVE PoolInv'
  <2> USE DEF PoolInv
  <2>1. /\ step' = [step EXCEPT ![l] = "isEmpty"] /\ step[l] = "work"
        /\ pool' = pool \union {using[l]}
        /\ using' = [using EXCEPT ![l] = 0]
        /\ created' = created
    BY <1>6 DEF Release, Goes, At
  <2>2. step' \in [Loops -> StepState] /\ using' \in [Loops -> 0 .. created']
    BY <2>1 DEF StepState
  <2>3. using[l] \in 1 .. created
    BY <2>1
  <2>4. pool' \subseteq 1 .. created'
    BY <2>1, <2>3
  <2>5. \A k \in Loops : using'[k] = IF k = l THEN 0 ELSE using[k]
    BY <2>1
  <2>6. \A k \in Loops : using'[k] # 0 <=> step'[k] = "work"
    BY <2>1, <2>5
  <2>7. KryoExclusive'
    BY <2>1, <2>5 DEF KryoExclusive
  <2> QED
    BY <2>1, <2>2, <2>4, <2>6, <2>7
<1>7. ASSUME NEW l \in Loops, Throws(l) PROVE PoolInv'
  BY <1>7 DEF Throws, PoolInv, KryoExclusive, Goes, At, StepState
<1>8. ASSUME NEW l \in Loops, Succeed(l) \/ Fail(l) \/ NotEmpty(l) \/ RemoveStream(l)
      PROVE  PoolInv'
  BY <1>8, PoolApart DEF Succeed, Fail, NotEmpty, RemoveStream, Goes, At, StepState
<1> QED
  BY <1>1, <1>2, <1>3, <1>4, <1>5, <1>6, <1>7, <1>8 DEF Next, LoopStep

(* KryoSerialize borrows before it uses and releases after: an instance,    *)
(* which is not thread-safe, never serves two event loops at once.         *)
THEOREM KryoIsExclusive == Spec => []KryoExclusive
<1>1. PoolInv => KryoExclusive
  BY DEF PoolInv
<1> QED
  BY <1>1, PoolInit, PoolStep, PTL DEF Spec

-----------------------------------------------------------------------------
(* A loop leaves the closer only when it has found the deque empty, and a   *)
(* stream is registered only by a loop that is then inside.                *)
CloserInv == step \in [Loops -> StepState] /\ CloserEmptyAtRest

LEMMA CloserStep == CloserInv /\ [Next]_vars => CloserInv'
<1> SUFFICES ASSUME CloserInv, [Next]_vars PROVE CloserInv'
  OBVIOUS
<1> USE DEF CloserInv, CloserEmptyAtRest, StepState
<1>1. CASE UNCHANGED vars
  BY <1>1 DEF vars, closer
<1>2. ASSUME NEW l \in Loops, Arrive(l) PROVE CloserInv'
  BY <1>2 DEF Arrive, closer
<1>3. ASSUME NEW l \in Loops, Succeed(l) \/ Fail(l) PROVE CloserInv'
  <2>1. /\ step' = [step EXCEPT ![l] = "idle"]
        /\ open' = open /\ holed' = holed
        /\ open = 0
    BY <1>3 DEF Succeed, Fail, Goes, Empty, closer
  <2> QED
    BY <2>1
<1>4. ASSUME NEW l \in Loops, NEW to \in StepState \ {"idle"},
             step' = [step EXCEPT ![l] = to]
      PROVE  CloserInv'
  <2>1. step' \in [Loops -> StepState] /\ step'[l] # "idle"
    BY <1>4
  <2> QED
    BY <2>1
<1>5. ASSUME NEW l \in Loops, Decode(l) \/ Encode(l) \/ Register(l) PROVE CloserInv'
  BY <1>5, <1>4 DEF Decode, Encode, Register, Begin, Goes
<1>6. ASSUME NEW l \in Loops, Borrow(l) \/ Release(l) \/ Throws(l) PROVE CloserInv'
  BY <1>6, <1>4 DEF Borrow, Release, Throws, Goes
<1>7. ASSUME NEW l \in Loops, NotEmpty(l) \/ RemoveStream(l) PROVE CloserInv'
  BY <1>7, <1>4 DEF NotEmpty, RemoveStream, Goes
<1> QED
  BY <1>1, <1>2, <1>3, <1>5, <1>6, <1>7 DEF Next, LoopStep

(* `finally { closer.close(); }` runs on every path, so that the shared     *)
(* closer keeps no stream at rest, although loops remove each other's and  *)
(* fail on an emptied deque; a null inside the deque is the one exception. *)
THEOREM CloserIsEmptyAtRest == Spec => []CloserEmptyAtRest
<1>1. Init => CloserInv
  BY DEF Init, CloserInv, CloserEmptyAtRest, StepState
<1>2. CloserInv => CloserEmptyAtRest
  BY DEF CloserInv
<1> QED
  BY <1>1, <1>2, CloserStep, PTL DEF Spec

-----------------------------------------------------------------------------
(* Streams are made with FlattenSeq, whose definition goes through a        *)
(* recursive function.  That the function exists, and what it computes, is *)
(* shown by induction on the number of sequences.                          *)

(* Induction, in the form of sets: a set of natural numbers has a least one. *)
LEMMA LeastNat ==
  ASSUME NEW S, S \subseteq Nat, S # {}
  PROVE  \E n \in S : \A m \in S : n <= m
<1> DEFINE R == OpToRel(<, Nat)
<1>1. IsWellFoundedOn(R, Nat)
  BY NatLessThanWellFounded
<1>2. \A x, y \in Nat : y < x => <<y, x>> \in R
  BY DEF R, OpToRel
<1> HIDE DEF R
<1>3. PICK x \in S : \A y \in S : ~ (<<y, x>> \in R)
  BY <1>1, WFMin
<1>4. \A y \in S : ~(y < x)
  BY <1>2, <1>3
<1> QED
  BY <1>3, <1>4

LEMMA NatBySteps ==
  ASSUME NEW S, 0 \in S, \A n \in Nat : n \in S => n + 1 \in S
  PROVE  Nat \subseteq S
<1> SUFFICES ASSUME ~(Nat \subseteq S) PROVE FALSE
  OBVIOUS
<1> DEFINE T == Nat \ S
<1>1. T \subseteq Nat /\ T # {}
  OBVIOUS
<1>2. PICK n \in T : \A m \in T : n <= m
  BY <1>1, LeastNat
<1>3. n # 0 /\ n - 1 \in Nat /\ n - 1 \notin T
  BY <1>2
<1> QED
  BY <1>2, <1>3

(* The function that FlattenSeq is defined with: its i-th value is the      *)
(* concatenation of the first i sequences.                                 *)
IsFlattening(f, ss, n) ==
  f = [i \in 1 .. n |-> IF i = 1 THEN ss[i] ELSE f[i - 1] \o ss[i]]

LEMMA FlatteningExists ==
  ASSUME NEW ss, NEW n \in Nat
  PROVE  \E f : IsFlattening(f, ss, n)
<1> DEFINE S == {k \in Nat : \E f : IsFlattening(f, ss, k)}
<1>1. 0 \in S
  <2>1. IsFlattening([i \in 1 .. 0 |-> ss], ss, 0)
    BY DEF IsFlattening
  <2> QED
    BY <2>1
<1>2. ASSUME NEW k \in Nat, k \in S PROVE k + 1 \in S
  <2>1. PICK f : IsFlattening(f, ss, k)
    BY <1>2
  <2> DEFINE g == [i \in 1 .. k + 1 |->
                     IF i <= k THEN f[i]
                     ELSE IF i = 1 THEN ss[i] ELSE f[i - 1] \o ss[i]]
  <2>2. \A i \in 1 .. k : f[i] = IF i = 1 THEN ss[i] ELSE f[i - 1] \o ss[i]
    BY <2>1 DEF IsFlattening
  <2>3. ASSUME NEW i \in 1 .. k + 1
        PROVE  g[i] = IF i = 1 THEN ss[i] ELSE g[i - 1] \o ss[i]
    <3>1. i # 1 => i - 1 \in 1 .. k + 1 /\ i - 1 <= k /\ g[i - 1] = f[i - 1]
      OBVIOUS
    <3> QED
      BY <2>2, <3>1
  <2>4. IsFlattening(g, ss, k + 1)
    BY <2>3 DEF IsFlattening
  <2> QED
    BY <2>4
<1> HIDE DEF S
<1>3. Nat \subseteq S
  BY <1>1, <1>2, NatBySteps
<1> QED
  BY <1>3 DEF S

(* What FlattenSeq computes, step by step.                                  *)
LEMMA FlattenBySteps ==
  ASSUME NEW B, NEW ss \in Seq(Seq(B)), Len(ss) # 0
  PROVE  \E f : /\ f \in [1 .. Len(ss) -> Seq(B)]
                /\ f[1] = ss[1]
                /\ \A i \in 1 .. Len(ss) - 1 : f[i + 1] = f[i] \o ss[i + 1]
                /\ FlattenSeq(ss) = f[Len(ss)]
<1> DEFINE n == Len(ss)
           f == CHOOSE g : IsFlattening(g, ss, n)
<1>1. n \in Nat \ {0} /\ \A i \in 1 .. n : ss[i] \in Seq(B)
  OBVIOUS
<1>2. FlattenSeq(ss) = f[n]
  BY DEF FlattenSeq, IsFlattening
<1> HIDE DEF n
<1>3. IsFlattening(f, ss, n)
  BY <1>1, FlatteningExists
<1> HIDE DEF f
<1>4. /\ f = [i \in 1 .. n |-> f[i]]
      /\ f[1] = ss[1]
      /\ \A i \in 1 .. n - 1 : f[i + 1] = f[i] \o ss[i + 1]
  <2>1. \A i \in 1 .. n : f[i] = IF i = 1 THEN ss[i] ELSE f[i - 1] \o ss[i]
    BY <1>3 DEF IsFlattening
  <2>2. f = [i \in 1 .. n |-> f[i]]
    BY <1>3 DEF IsFlattening
  <2>3. f[1] = ss[1]
    BY <1>1, <2>1
  <2>4. ASSUME NEW i \in 1 .. n - 1 PROVE f[i + 1] = f[i] \o ss[i + 1]
    <3>1. i + 1 \in 1 .. n /\ i + 1 # 1 /\ (i + 1) - 1 = i
      BY <1>1
    <3>2. f[i + 1] = f[(i + 1) - 1] \o ss[i + 1]
      BY <2>1, <3>1
    <3> QED
      BY <3>1, <3>2
  <2> QED
    BY <2>2, <2>3, <2>4
<1>5. \A i \in 1 .. n : f[i] \in Seq(B)
  <2> DEFINE S == {i \in Nat : i \in 1 .. n => f[i] \in Seq(B)}
  <2>1. 0 \in S
    OBVIOUS
  <2>2. ASSUME NEW i \in Nat, i \in S PROVE i + 1 \in S
    <3>1. CASE i = 0
      <4>1. f[1] \in Seq(B)
        BY <1>1, <1>4
      <4> QED
        BY <3>1, <4>1
    <3>2. CASE i # 0 /\ i + 1 \in 1 .. n
      <4>1. i \in 1 .. n - 1 /\ i \in 1 .. n
        BY <1>1, <3>2
      <4>2. f[i] \in Seq(B) /\ ss[i + 1] \in Seq(B)
        BY <1>1, <2>2, <3>2, <4>1
      <4>3. f[i] \o ss[i + 1] \in Seq(B)
        BY <4>2, ConcatProperties, Zenon
      <4>4. f[i + 1] = f[i] \o ss[i + 1]
        BY <1>4, <4>1
      <4>5. f[i + 1] \in Seq(B)
        BY <4>3, <4>4, Zenon
      <4> QED
        BY <4>5
    <3> QED
      BY <3>1, <3>2
  <2> HIDE DEF S
  <2>3. Nat \subseteq S
    BY <2>1, <2>2, NatBySteps
  <2> QED
    BY <2>3 DEF S
<1>6. f \in [1 .. n -> Seq(B)]
  BY <1>4, <1>5
<1> QED
  BY <1>2, <1>4, <1>6 DEF n

LEMMA FlattenType ==
  ASSUME NEW B, NEW ss \in Seq(Seq(B))
  PROVE  FlattenSeq(ss) \in Seq(B)
<1>1. CASE Len(ss) = 0
  <2>1. ss = <<>>
    BY <1>1
  <2>2. FlattenSeq(ss) = ss
    BY <1>1 DEF FlattenSeq
  <2> QED
    BY <2>1, <2>2, EmptySeq, Zenon
<1>2. CASE Len(ss) # 0
  <2>1. PICK f : f \in [1 .. Len(ss) -> Seq(B)] /\ FlattenSeq(ss) = f[Len(ss)]
    BY <1>2, FlattenBySteps
  <2>2. Len(ss) \in 1 .. Len(ss)
    BY <1>2
  <2> QED
    BY <2>1, <2>2
<1> QED
  BY <1>1, <1>2

(* The first sequence can be taken off in front.                            *)
LEMMA FlattenHead ==
  ASSUME NEW B, NEW ss \in Seq(Seq(B)), Len(ss) # 0
  PROVE  FlattenSeq(ss) = ss[1] \o FlattenSeq(Tail(ss))
<1> DEFINE n == Len(ss)
           tt == Tail(ss)
<1>1. /\ n \in Nat \ {0} /\ tt \in Seq(Seq(B)) /\ Len(tt) = n - 1
      /\ \A i \in 1 .. n : ss[i] \in Seq(B)
      /\ \A i \in 1 .. n - 1 : tt[i] = ss[i + 1]
  OBVIOUS
<1>2. PICK f : /\ f \in [1 .. n -> Seq(B)]
               /\ f[1] = ss[1]
               /\ \A i \in 1 .. n - 1 : f[i + 1] = f[i] \o ss[i + 1]
               /\ FlattenSeq(ss) = f[n]
  BY FlattenBySteps
<1> HIDE DEF n, tt
<1>3. CASE n = 1
  <2>1. Len(tt) = 0 /\ FlattenSeq(tt) = tt
    BY <1>1, <1>3 DEF FlattenSeq
  <2>2. FlattenSeq(tt) = <<>>
    BY <1>1, <2>1
  <2>3. ss[1] \in Seq(B) /\ FlattenSeq(ss) = ss[1]
    BY <1>1, <1>2, <1>3
  <2> QED
    BY <2>2, <2>3 DEF tt
<1>4. CASE n # 1
  <2>1. PICK g : /\ g \in [1 .. n - 1 -> Seq(B)]
                 /\ g[1] = tt[1]
                 /\ \A i \in 1 .. (n - 1) - 1 : g[i + 1] = g[i] \o tt[i + 1]
                 /\ FlattenSeq(tt) = g[n - 1]
    <3>1. Len(tt) # 0 /\ Len(tt) = n - 1
      BY <1>1, <1>4
    <3>2. \E g : /\ g \in [1 .. Len(tt) -> Seq(B)]
                 /\ g[1] = tt[1]
                 /\ \A i \in 1 .. Len(tt) - 1 : g[i + 1] = g[i] \o tt[i + 1]
                 /\ FlattenSeq(tt) = g[Len(tt)]
      BY <1>1, <3>1, FlattenBySteps
    <3> QED
      BY <3>1, <3>2
  <2> DEFINE S == {i \in Nat : i \in 1 .. n - 1 => f[i + 1] = ss[1] \o g[i]}
  <2>2. 0 \in S
    OBVIOUS
  <2>3. ASSUME NEW i \in Nat, i \in S, i + 1 \in 1 .. n - 1
        PROVE  f[(i + 1) + 1] = ss[1] \o g[i + 1]
    <3>1. i + 1 \in 1 .. n /\ (i + 1) + 1 \in 1 .. n
      BY <1>1, <2>3
    <3>2. tt[i + 1] = ss[(i + 1) + 1] /\ ss[1] \in Seq(B) /\ ss[(i + 1) + 1] \in Seq(B)
      BY <1>1, <2>3, <3>1
    <3>3. f[(i + 1) + 1] = f[i + 1] \o tt[i + 1]
      BY <1>2, <2>3, <3>1, <3>2
    <3>4. CASE i = 0
      <4>1. f[1] = ss[1] /\ g[1] = tt[1] /\ i + 1 = 1
        BY <1>2, <2>1, <3>4
      <4> QED
        BY <3>3, <4>1
    <3>5. CASE i # 0
      <4>1. i \in 1 .. n - 1 /\ i \in 1 .. (n - 1) - 1
        BY <1>1, <2>3, <3>5
      <4>2. f[i + 1] = ss[1] \o g[i]
        BY <2>3, <4>1
      <4>3. g[i + 1] = g[i] \o tt[i + 1] /\ g[i] \in Seq(B) /\ tt[i + 1] \in Seq(B)
        BY <2>1, <3>2, <4>1
      <4>4. (ss[1] \o g[i]) \o tt[i + 1] = ss[1] \o (g[i] \o tt[i + 1])
        <5> DEFINE a == ss[1]
                   b == g[i]
                   c == tt[i + 1]
        <5>1. a \in Seq(B) /\ b \in Seq(B) /\ c \in Seq(B)
          BY <3>2, <4>3
        <5> HIDE DEF a, b, c
        <5>2. (a \o b) \o c = a \o (b \o c)
          BY <5>1, ConcatAssociative
        <5> QED
          BY <5>2 DEF a, b, c
      <4> QED
        BY <3>3, <4>2, <4>3, <4>4
    <3> QED
      BY <3>4, <3>5
  <2>4. Nat \subseteq S
    <3>1. ASSUME NEW i \in Nat, i \in S PROVE i + 1 \in S
      <4>1. i + 1 \in 1 .. n - 1 => f[(i + 1) + 1] = ss[1] \o g[i + 1]
        BY <2>3, <3>1
      <4>2. i + 1 \in Nat
        OBVIOUS
      <4> QED
        BY <4>1, <4>2, Zenon
    <3> HIDE DEF S
    <3> QED
      BY <2>2, <3>1, NatBySteps
  <2>5. n - 1 \in Nat /\ n - 1 \in 1 .. n - 1 /\ (n - 1) + 1 = n
    BY <1>1, <1>4
  <2>6. f[(n - 1) + 1] = ss[1] \o g[n - 1]
    BY <2>4, <2>5
  <2> QED
    BY <1>2, <2>1, <2>5, <2>6 DEF tt
<1> QED
  BY <1>3, <1>4

-----------------------------------------------------------------------------
(* Bytes, frames and streams                                                *)

Bytes == [of : Messages, at : Nat]

LEMMA FrameType ==
  ASSUME NEW m \in Messages
  PROVE  /\ Frame(m) \in Seq(Bytes)
         /\ Len(Frame(m)) = MESSAGE_LENGTH + BodyLength[m]
         /\ BodyLength[m] \in Nat
         /\ Frame(m)[1].of = m
<1> DEFINE n == MESSAGE_LENGTH + BodyLength[m]
<1>1. n \in Nat \ {0} /\ BodyLength[m] \in Nat
  BY MessageCodecAssumption
<1>2. \A i \in 1 .. n : [of |-> m, at |-> i] \in Bytes
  BY <1>1 DEF Bytes
<1>3. Frame(m) = [i \in 1 .. n |-> [of |-> m, at |-> i]]
  BY DEF Frame
<1> HIDE DEF n
<1> QED
  BY <1>1, <1>2, <1>3 DEF n

LEMMA TailIs ==
  ASSUME NEW S, NEW f \in Seq(S), NEW g \in Seq(S), Len(f) # 0,
         Len(g) = Len(f) - 1, \A i \in 1 .. Len(g) : g[i] = f[i + 1]
  PROVE  Tail(f) = g
<1>1. /\ Tail(f) \in Seq(S) /\ Len(Tail(f)) = Len(f) - 1
      /\ \A i \in 1 .. Len(Tail(f)) : Tail(f)[i] = f[i + 1]
  OBVIOUS
<1> QED
  BY <1>1, SeqEqual

Frames(ms) == [i \in DOMAIN ms |-> Frame(ms[i])]

LEMMA FramesOf ==
  ASSUME NEW ms \in Seq(Messages)
  PROVE  /\ Frames(ms) \in Seq(Seq(Bytes))
         /\ Len(Frames(ms)) = Len(ms)
         /\ \A i \in 1 .. Len(ms) : Frames(ms)[i] = Frame(ms[i])
<1>1. \A i \in 1 .. Len(ms) : Frame(ms[i]) \in Seq(Bytes)
  BY FrameType
<1>2. Frames(ms) = [i \in 1 .. Len(ms) |-> Frame(ms[i])]
  BY DEF Frames
<1>3. Frames(ms) \in Seq(Seq(Bytes)) /\ Len(Frames(ms)) = Len(ms)
  BY <1>1, <1>2
<1> QED
  BY <1>2, <1>3

(* The stream of no messages is empty; another begins with a frame.         *)
LEMMA StreamOf ==
  ASSUME NEW ms \in Seq(Messages)
  PROVE  /\ Stream(ms) \in Seq(Bytes)
         /\ Len(ms) = 0 => Stream(ms) = <<>>
         /\ Len(ms) # 0 => Stream(ms) = Frame(ms[1]) \o Stream(Tail(ms))
<1>1. \A s \in Seq(Messages) : Stream(s) = FlattenSeq(Frames(s))
  BY DEF Stream, Frames
<1>2. Stream(ms) \in Seq(Bytes)
  BY <1>1, FramesOf, FlattenType
<1>3. Len(ms) = 0 => Stream(ms) = <<>>
  <2> SUFFICES ASSUME Len(ms) = 0 PROVE Stream(ms) = <<>>
    OBVIOUS
  <2>1. Frames(ms) \in Seq(Seq(Bytes)) /\ Len(Frames(ms)) = 0
    BY FramesOf
  <2>2. Frames(ms) = <<>>
    BY <2>1
  <2> QED
    BY <1>1, <2>1, <2>2 DEF FlattenSeq
<1>4. ASSUME Len(ms) # 0 PROVE Stream(ms) = Frame(ms[1]) \o Stream(Tail(ms))
  <2>1. /\ Tail(ms) \in Seq(Messages) /\ Len(Tail(ms)) = Len(ms) - 1
        /\ \A i \in 1 .. Len(ms) - 1 : Tail(ms)[i] = ms[i + 1]
    BY <1>4
  <2>2. /\ Frames(Tail(ms)) \in Seq(Seq(Bytes))
        /\ Len(Frames(Tail(ms))) = Len(ms) - 1
        /\ \A i \in 1 .. Len(ms) - 1 : Frames(Tail(ms))[i] = Frame(Tail(ms)[i])
    BY <2>1, FramesOf
  <2>3. \A i \in 1 .. Len(ms) - 1 : Frames(Tail(ms))[i] = Frames(ms)[i + 1]
    <3>1. \A i \in 1 .. Len(ms) - 1 : i + 1 \in 1 .. Len(ms)
      OBVIOUS
    <3> QED
      BY <2>1, <2>2, <3>1, FramesOf
  <2>4. Tail(Frames(ms)) = Frames(Tail(ms))
    BY <1>4, <2>2, <2>3, FramesOf, TailIs
  <2>5. FlattenSeq(Frames(ms)) = Frames(ms)[1] \o FlattenSeq(Tail(Frames(ms)))
    BY <1>4, FramesOf, FlattenHead
  <2>6. Frames(ms)[1] = Frame(ms[1])
    BY <1>4, FramesOf
  <2> QED
    BY <1>1, <2>1, <2>4, <2>5, <2>6
<1> QED
  BY <1>2, <1>3, <1>4

(* A prefix that two ways of cutting a sequence have in common.             *)
LEMMA CutPrefix ==
  ASSUME NEW S, NEW b \in Seq(S), NEW w \in Seq(S), NEW f \in Seq(S), NEW r \in Seq(S),
         b \o w = f \o r, Len(f) <= Len(b)
  PROVE  /\ SubSeq(b, Len(f) + 1, Len(b)) \in Seq(S)
         /\ SubSeq(b, Len(f) + 1, Len(b)) \o w = r
         /\ \A i \in 1 .. Len(f) : b[i] = f[i]
<1> DEFINE k == Len(f)
           n == Len(b)
           c == SubSeq(b, k + 1, n)
<1>1. k \in Nat /\ n \in Nat /\ k <= n /\ Len(w) \in Nat /\ Len(r) \in Nat
  OBVIOUS
<1>2. c \in Seq(S) /\ Len(c) = n - k /\ \A i \in 1 .. n - k : c[i] = b[k + i]
  <2>1. \A i \in k + 1 .. n : b[i] \in S
    OBVIOUS
  <2>2. /\ c \in Seq(S)
        /\ Len(c) = IF k + 1 <= n THEN n - (k + 1) + 1 ELSE 0
        /\ \A i \in 1 .. n - (k + 1) + 1 : c[i] = b[(k + 1) + i - 1]
    BY <2>1, SubSeqProperties
  <2>3. \A i \in 1 .. n - k : (k + 1) + i - 1 = k + i
    OBVIOUS
  <2> QED
    BY <1>1, <2>2, <2>3
<1>3. /\ Len(b \o w) = n + Len(w)
      /\ \A i \in 1 .. n : (b \o w)[i] = b[i]
      /\ \A i \in 1 .. Len(w) : (b \o w)[n + i] = w[i]
  BY ConcatProperties
<1>4. /\ Len(f \o r) = k + Len(r)
      /\ \A i \in 1 .. k : (f \o r)[i] = f[i]
      /\ \A i \in 1 .. Len(r) : (f \o r)[k + i] = r[i]
  BY ConcatProperties
<1> HIDE DEF k, n, c
<1>5. /\ c \o w \in Seq(S) /\ Len(c \o w) = (n - k) + Len(w)
      /\ \A i \in 1 .. n - k : (c \o w)[i] = c[i]
      /\ \A i \in 1 .. Len(w) : (c \o w)[(n - k) + i] = w[i]
  <2>1. /\ c \o w \in Seq(S) /\ Len(c \o w) = Len(c) + Len(w)
        /\ \A i \in 1 .. Len(c) : (c \o w)[i] = c[i]
        /\ \A i \in 1 .. Len(w) : (c \o w)[Len(c) + i] = w[i]
    <3>1. c \in Seq(S)
      BY <1>2
    <3> QED
      BY <3>1, ConcatProperties
  <2> QED
    BY <1>2, <2>1
<1>6. Len(r) = (n - k) + Len(w)
  BY <1>1, <1>3, <1>4
<1>7. ASSUME NEW i \in 1 .. Len(r) PROVE (c \o w)[i] = r[i]
  <2>1. (b \o w)[k + i] = r[i]
    BY <1>4
  <2>2. CASE i <= n - k
    <3>1. i \in 1 .. n - k /\ k + i \in 1 .. n
      BY <1>1, <2>2
    <3>2. (c \o w)[i] = c[i] /\ c[i] = b[k + i] /\ (b \o w)[k + i] = b[k + i]
      BY <1>2, <1>3, <1>5, <3>1
    <3> QED
      BY <2>1, <3>2
  <2>3. CASE i > n - k
    <3>1. PICK j \in 1 .. Len(w) : n + j = k + i /\ (n - k) + j = i
      <4>1. i - (n - k) \in 1 .. Len(w)
        BY <1>1, <1>6, <2>3
      <4> QED
        BY <1>1, <4>1
    <3>2. (b \o w)[n + j] = w[j] /\ (c \o w)[(n - k) + j] = w[j]
      BY <1>3, <1>5, <3>1
    <3> QED
      BY <2>1, <3>1, <3>2
  <2>4. i <= n - k \/ i > n - k
    BY <1>1
  <2> QED
    BY <2>2, <2>3, <2>4, Zenon
<1>8. c \o w = r
  <2>1. c \o w \in Seq(S) /\ Len(c \o w) = Len(r)
    BY <1>5, <1>6
  <2>2. \A i \in 1 .. Len(c \o w) : (c \o w)[i] = r[i]
    BY <1>7, <2>1
  <2> QED
    BY <2>1, <2>2, SeqEqual, Zenon
<1>9. \A i \in 1 .. k : b[i] = f[i]
  BY <1>1, <1>3, <1>4
<1> QED
  BY <1>2, <1>8, <1>9 DEF c, k, n

(* What the decoder cuts off is the frame of the first message of the       *)
(* stream, and its body is that message.                                   *)
LEMMA TakeFrame ==
  ASSUME NEW ms \in Seq(Messages), NEW b \in Seq(Bytes), NEW w \in Seq(Bytes),
         b \o w = Stream(ms), Len(b) >= MESSAGE_LENGTH,
         NEW n, n = MESSAGE_LENGTH + BodyLength[Head(b).of], Len(b) >= n
  PROVE  /\ Len(ms) # 0
         /\ Head(b).of = ms[1]
         /\ SubSeq(b, n + 1, Len(b)) \in Seq(Bytes)
         /\ SubSeq(b, n + 1, Len(b)) \o w = Stream(Tail(ms))
<1>1. Len(b) \in Nat \ {0} /\ Len(w) \in Nat
  BY MessageCodecAssumption
<1>2. Len(b \o w) = Len(b) + Len(w) /\ (b \o w)[1] = b[1]
  BY <1>1, ConcatProperties
<1>3. Len(ms) # 0
  BY <1>1, <1>2, StreamOf
<1> DEFINE f == Frame(ms[1])
           r == Stream(Tail(ms))
<1>4. /\ ms[1] \in Messages /\ Tail(ms) \in Seq(Messages)
  BY <1>3
<1>5. /\ f \in Seq(Bytes) /\ Len(f) = MESSAGE_LENGTH + BodyLength[ms[1]]
      /\ f[1].of = ms[1] /\ Len(f) \in Nat \ {0}
  <2>1. /\ Frame(ms[1]) \in Seq(Bytes)
        /\ Len(Frame(ms[1])) = MESSAGE_LENGTH + BodyLength[ms[1]]
        /\ Frame(ms[1])[1].of = ms[1] /\ BodyLength[ms[1]] \in Nat
    BY <1>4, FrameType
  <2> HIDE DEF f
  <2>2. f = Frame(ms[1])
    BY DEF f
  <2> QED
    BY <2>1, <2>2, MessageCodecAssumption
<1>6. r \in Seq(Bytes) /\ b \o w = f \o r
  BY <1>3, <1>4, StreamOf
<1> HIDE DEF f, r
<1>7. (f \o r)[1] = f[1]
  <2>1. 1 \in 1 .. Len(f) + Len(r) /\ 1 <= Len(f)
    BY <1>5, <1>6
  <2> QED
    BY <1>5, <1>6, <2>1, ConcatProperties
<1>8. Head(b).of = ms[1]
  BY <1>1, <1>2, <1>5, <1>6, <1>7
<1>9. Len(f) = n /\ Len(f) <= Len(b)
  BY <1>5, <1>8
<1>10. /\ SubSeq(b, Len(f) + 1, Len(b)) \in Seq(Bytes)
       /\ SubSeq(b, Len(f) + 1, Len(b)) \o w = r
  <2>1. f \in Seq(Bytes) /\ r \in Seq(Bytes) /\ b \o w = f \o r /\ Len(f) <= Len(b)
    BY <1>5, <1>6, <1>9
  <2> QED
    BY <2>1, CutPrefix, Zenon
<1> QED
  BY <1>3, <1>8, <1>9, <1>10 DEF r

(* A chunk moves from the wire to the buffer.                               *)
LEMMA MoveChunk ==
  ASSUME NEW S, NEW b \in Seq(S), NEW w \in Seq(S), NEW n \in 1 .. Len(w)
  PROVE  /\ b \o SubSeq(w, 1, n) \in Seq(S)
         /\ SubSeq(w, n + 1, Len(w)) \in Seq(S)
         /\ (b \o SubSeq(w, 1, n)) \o SubSeq(w, n + 1, Len(w)) = b \o w
<1> DEFINE x == SubSeq(w, 1, n)
           y == SubSeq(w, n + 1, Len(w))
<1>1. x \in Seq(S) /\ Len(x) = n /\ \A i \in 1 .. n : x[i] = w[i]
  OBVIOUS
<1>2. y \in Seq(S) /\ Len(y) = Len(w) - n /\ \A i \in 1 .. Len(w) - n : y[i] = w[n + i]
  <2>1. /\ y \in Seq(S)
        /\ Len(y) = IF n + 1 <= Len(w) THEN Len(w) - (n + 1) + 1 ELSE 0
        /\ \A i \in 1 .. Len(w) - (n + 1) + 1 : y[i] = w[(n + 1) + i - 1]
    <3>1. \A i \in n + 1 .. Len(w) : w[i] \in S
      OBVIOUS
    <3> QED
      BY <3>1, SubSeqProperties
  <2> HIDE DEF y
  <2>2. \A i \in 1 .. Len(w) - n : (n + 1) + i - 1 = n + i
    OBVIOUS
  <2> QED
    BY <2>1, <2>2
<1> HIDE DEF x, y
<1>3. x \o y = w
  <2>1. /\ x \o y \in Seq(S) /\ Len(x \o y) = Len(w)
        /\ \A i \in 1 .. Len(w) : (x \o y)[i] = IF i <= n THEN x[i] ELSE y[i - n]
    <3>1. /\ x \o y \in Seq(S) /\ Len(x \o y) = Len(x) + Len(y)
          /\ \A i \in 1 .. Len(x) + Len(y) :
                (x \o y)[i] = IF i <= Len(x) THEN x[i] ELSE y[i - Len(x)]
      BY <1>1, <1>2, ConcatProperties
    <3> QED
      BY <1>1, <1>2, <3>1
  <2>2. ASSUME NEW i \in 1 .. Len(w) PROVE (x \o y)[i] = w[i]
    <3>1. CASE i <= n
      BY <1>1, <2>1, <3>1
    <3>2. CASE ~(i <= n)
      <4>1. i - n \in 1 .. Len(w) - n /\ n + (i - n) = i
        BY <3>2
      <4>2. (x \o y)[i] = y[i - n]
        BY <2>1, <3>2
      <4> QED
        BY <1>2, <4>1, <4>2
    <3> QED
      BY <3>1, <3>2
  <2> QED
    BY <2>1, <2>2, SeqEqual, Zenon
<1>4. b \o x \in Seq(S) /\ (b \o x) \o y = b \o (x \o y)
  <2>1. x \in Seq(S) /\ y \in Seq(S)
    BY <1>1, <1>2
  <2>2. (b \o x) \o y = b \o (x \o y)
    BY <2>1, ConcatAssociative
  <2> QED
    BY <2>1, <2>2, ConcatProperties
<1> QED
  BY <1>2, <1>3, <1>4 DEF x, y

-----------------------------------------------------------------------------
(* Subsequences                                                            *)

LEMMA SubsequenceWider ==
  ASSUME NEW S, NEW s \in Seq(S), NEW t \in Seq(S), NEW u \in Seq(S),
         IsSubsequence(s, t), Len(t) <= Len(u), \A i \in 1 .. Len(t) : u[i] = t[i]
  PROVE  IsSubsequence(s, u)
<1>1. PICK f \in [DOMAIN s -> DOMAIN t] :
           /\ \A i, j \in DOMAIN s : i < j => f[i] < f[j]
           /\ \A i \in DOMAIN s : s[i] = t[f[i]]
  BY DEF IsSubsequence
<1>2. DOMAIN t = 1 .. Len(t) /\ DOMAIN u = 1 .. Len(u) /\ DOMAIN t \subseteq DOMAIN u
  OBVIOUS
<1>3. f \in [DOMAIN s -> DOMAIN u]
  BY <1>2
<1>4. \A i \in DOMAIN s : s[i] = u[f[i]]
  BY <1>1, <1>2
<1> QED
  BY <1>1, <1>3, <1>4 DEF IsSubsequence

LEMMA SubsequenceAppend ==
  ASSUME NEW S, NEW s \in Seq(S), NEW t \in Seq(S), NEW e \in S, IsSubsequence(s, t)
  PROVE  IsSubsequence(Append(s, e), Append(t, e))
<1>1. PICK f \in [DOMAIN s -> DOMAIN t] :
           /\ \A i, j \in DOMAIN s : i < j => f[i] < f[j]
           /\ \A i \in DOMAIN s : s[i] = t[f[i]]
  BY DEF IsSubsequence
<1> DEFINE m == Len(s)
           n == Len(t)
           ss == Append(s, e)
           tt == Append(t, e)
           g == [i \in 1 .. m + 1 |-> IF i <= m THEN f[i] ELSE n + 1]
<1>2. /\ m \in Nat /\ n \in Nat /\ DOMAIN s = 1 .. m /\ DOMAIN t = 1 .. n
      /\ DOMAIN ss = 1 .. m + 1 /\ DOMAIN tt = 1 .. n + 1
  OBVIOUS
<1>3. /\ \A i \in 1 .. m : ss[i] = s[i]
      /\ \A i \in 1 .. n : tt[i] = t[i]
      /\ ss[m + 1] = e /\ tt[n + 1] = e
  OBVIOUS
<1> HIDE DEF m, n, ss, tt
<1>4. \A i \in 1 .. m : f[i] \in 1 .. n
  BY <1>2
<1>5. g \in [DOMAIN ss -> DOMAIN tt]
  BY <1>2, <1>4
<1>6. \A i, j \in DOMAIN ss : i < j => g[i] < g[j]
  <2> TAKE i, j \in DOMAIN ss
  <2> HAVE i < j
  <2>1. i \in 1 .. m /\ g[i] = f[i]
    BY <1>2
  <2>2. CASE j <= m
    BY <1>1, <1>2, <2>1, <2>2
  <2>3. CASE ~(j <= m)
    BY <1>2, <1>4, <2>1, <2>3
  <2> QED
    BY <2>2, <2>3
<1>7. \A i \in DOMAIN ss : ss[i] = tt[g[i]]
  <2> TAKE i \in DOMAIN ss
  <2>1. CASE i <= m
    BY <1>1, <1>2, <1>3, <1>4, <2>1
  <2>2. CASE ~(i <= m)
    <3>1. i = m + 1 /\ g[i] = n + 1
      BY <1>2, <2>2
    <3> QED
      BY <1>3, <3>1
  <2> QED
    BY <2>1, <2>2
<1> HIDE DEF g
<1>8. IsSubsequence(ss, tt)
  BY <1>5, <1>6, <1>7 DEF IsSubsequence
<1> QED
  BY <1>8 DEF ss, tt

(* d is what has been passed on of the first k messages: all of them, when  *)
(* no exception came between.                                              *)
Passed(d, ms, k, all) ==
  /\ IsSubsequence(d, SubSeq(ms, 1, k))
  /\ all => d = SubSeq(ms, 1, k)

LEMMA FirstOf ==
  ASSUME NEW ms \in Seq(Messages), NEW k \in 0 .. Len(ms)
  PROVE  /\ SubSeq(ms, 1, k) \in Seq(Messages) /\ Len(SubSeq(ms, 1, k)) = k
         /\ \A i \in 1 .. k : SubSeq(ms, 1, k)[i] = ms[i]
OBVIOUS

LEMMA OneMore ==
  ASSUME NEW ms \in Seq(Messages), NEW k \in 1 .. Len(ms)
  PROVE  SubSeq(ms, 1, k) = Append(SubSeq(ms, 1, k - 1), ms[k])
<1> DEFINE a == SubSeq(ms, 1, k)
           b == SubSeq(ms, 1, k - 1)
<1>1. a \in Seq(Messages) /\ Len(a) = k /\ \A i \in 1 .. k : a[i] = ms[i]
  BY FirstOf
<1>2. b \in Seq(Messages) /\ Len(b) = k - 1 /\ \A i \in 1 .. k - 1 : b[i] = ms[i]
  BY FirstOf
<1> HIDE DEF a, b
<1>3. ms[k] \in Messages
  OBVIOUS
<1>4. Append(b, ms[k]) \in Seq(Messages) /\ Len(Append(b, ms[k])) = k
  BY <1>2, <1>3
<1>5. \A i \in 1 .. k : Append(b, ms[k])[i] = ms[i]
  BY <1>2, <1>3
<1>6. \A i \in 1 .. Len(a) : a[i] = Append(b, ms[k])[i]
  BY <1>1, <1>5
<1>7. a = Append(b, ms[k])
  BY <1>1, <1>4, <1>6, SeqEqual, Zenon
<1> QED
  BY <1>7 DEF a, b

LEMMA PassedNothing ==
  ASSUME NEW ms \in Seq(Messages), NEW all
  PROVE  Passed(<<>>, ms, 0, all)
<1>1. SubSeq(ms, 1, 0) = <<>>
  OBVIOUS
<1>2. IsSubsequence(<<>>, <<>>)
  <2> DEFINE f == [i \in {} |-> i]
  <2>1. f \in [{} -> {}] /\ DOMAIN <<>> = {}
    OBVIOUS
  <2> QED
    BY <2>1 DEF IsSubsequence
<1> QED
  BY <1>1, <1>2 DEF Passed

LEMMA PassedOneMore ==
  ASSUME NEW ms \in Seq(Messages), NEW k \in 1 .. Len(ms), NEW d \in Seq(Messages),
         NEW all, Passed(d, ms, k - 1, all)
  PROVE  Passed(Append(d, ms[k]), ms, k, all)
<1> DEFINE a == SubSeq(ms, 1, k)
           b == SubSeq(ms, 1, k - 1)
<1>1. b \in Seq(Messages) /\ ms[k] \in Messages /\ a = Append(b, ms[k])
  BY FirstOf, OneMore
<1>2. IsSubsequence(d, b) /\ (all => d = b)
  BY DEF Passed
<1> HIDE DEF a, b
<1>3. IsSubsequence(Append(d, ms[k]), a)
  BY <1>1, <1>2, SubsequenceAppend
<1>4. all => Append(d, ms[k]) = a
  BY <1>1, <1>2
<1> QED
  BY <1>3, <1>4 DEF Passed, a

(* A message is dropped: what was passed on is no longer all.               *)
LEMMA PassedOneLess ==
  ASSUME NEW ms \in Seq(Messages), NEW k \in 1 .. Len(ms), NEW d \in Seq(Messages),
         NEW all, Passed(d, ms, k - 1, all)
  PROVE  Passed(d, ms, k, FALSE)
<1> DEFINE a == SubSeq(ms, 1, k)
           b == SubSeq(ms, 1, k - 1)
<1>1. a \in Seq(Messages) /\ Len(a) = k /\ \A i \in 1 .. k : a[i] = ms[i]
  BY FirstOf
<1>2. b \in Seq(Messages) /\ Len(b) = k - 1 /\ \A i \in 1 .. k - 1 : b[i] = ms[i]
  BY FirstOf
<1>3. IsSubsequence(d, b)
  BY DEF Passed
<1> HIDE DEF a, b
<1>4. Len(b) <= Len(a) /\ \A i \in 1 .. Len(b) : a[i] = b[i]
  BY <1>1, <1>2
<1>5. IsSubsequence(d, a)
  BY <1>1, <1>2, <1>3, <1>4, SubsequenceWider
<1> QED
  BY <1>5 DEF Passed, a

-----------------------------------------------------------------------------
(* The invariant of the codec                                              *)

(* What follows the first n inbound messages.                               *)
Rest(l, n) == SubSeq(Inbound[l], n + 1, Len(Inbound[l]))

LEMMA RestOf ==
  ASSUME NEW l \in Loops, NEW n \in 0 .. Len(Inbound[l])
  PROVE  /\ Inbound[l] \in Seq(Messages)
         /\ Rest(l, n) \in Seq(Messages)
         /\ Len(Rest(l, n)) # 0 => /\ n + 1 \in 1 .. Len(Inbound[l])
                                  /\ Rest(l, n)[1] = Inbound[l][n + 1]
                                  /\ Tail(Rest(l, n)) = Rest(l, n + 1)
<1> DEFINE ms == Inbound[l]
           N == Len(ms)
<1>1. ms \in Seq(Messages) /\ N \in Nat /\ n \in Nat
  BY MessageCodecAssumption
<1>2. ASSUME NEW i \in 0 .. N
      PROVE  /\ SubSeq(ms, i + 1, N) \in Seq(Messages)
             /\ Len(SubSeq(ms, i + 1, N)) = N - i
             /\ \A j \in 1 .. N - i : SubSeq(ms, i + 1, N)[j] = ms[i + j]
  <2>1. \A j \in i + 1 .. N : ms[j] \in Messages
    BY <1>1
  <2> HIDE DEF ms
  <2>2. /\ SubSeq(ms, i + 1, N) \in Seq(Messages)
        /\ Len(SubSeq(ms, i + 1, N)) = IF i + 1 <= N THEN N - (i + 1) + 1 ELSE 0
        /\ \A j \in 1 .. N - (i + 1) + 1 : SubSeq(ms, i + 1, N)[j] = ms[(i + 1) + j - 1]
    <3> HIDE DEF N
    <3> QED
      BY <1>1, <2>1, SubSeqProperties
  <2>3. \A j \in 1 .. N - i : (i + 1) + j - 1 = i + j
    BY <1>1
  <2> HIDE DEF N
  <2> QED
    BY <1>1, <2>2, <2>3
<1> HIDE DEF ms, N
<1>3. ASSUME n < N
      PROVE  /\ SubSeq(ms, n + 1, N)[1] = ms[n + 1]
             /\ Tail(SubSeq(ms, n + 1, N)) = SubSeq(ms, (n + 1) + 1, N)
  <2> DEFINE a == SubSeq(ms, n + 1, N)
             b == SubSeq(ms, (n + 1) + 1, N)
  <2>1. a \in Seq(Messages) /\ Len(a) = N - n /\ \A j \in 1 .. N - n : a[j] = ms[n + j]
    BY <1>1, <1>2, <1>3
  <2>2. /\ b \in Seq(Messages) /\ Len(b) = N - (n + 1)
        /\ \A j \in 1 .. N - (n + 1) : b[j] = ms[(n + 1) + j]
    <3>1. n + 1 \in 0 .. N
      BY <1>1, <1>3
    <3> QED
      BY <1>2, <3>1
  <2> HIDE DEF a, b
  <2>3. Len(a) # 0 /\ Len(b) = Len(a) - 1
    BY <1>1, <1>3, <2>1, <2>2
  <2>4. \A j \in 1 .. Len(b) : b[j] = a[j + 1]
    <3> TAKE j \in 1 .. Len(b)
    <3>1. j + 1 \in 1 .. N - n /\ j \in 1 .. N - (n + 1) /\ (n + 1) + j = n + (j + 1)
      BY <1>1, <2>2
    <3> QED
      BY <2>1, <2>2, <3>1
  <2>5. Tail(a) = b
    BY <2>1, <2>2, <2>3, <2>4, TailIs
  <2>6. a[1] = ms[n + 1]
    BY <1>1, <1>3, <2>1
  <2> QED
    BY <2>5, <2>6 DEF a, b
<1>4. SubSeq(ms, n + 1, N) \in Seq(Messages) /\ Len(SubSeq(ms, n + 1, N)) = N - n
  BY <1>1, <1>2 DEF ms, N
<1>5. Len(SubSeq(ms, n + 1, N)) # 0 => n < N /\ n + 1 \in 1 .. N
  BY <1>1, <1>4 DEF ms, N
<1> QED
  BY <1>1, <1>3, <1>4, <1>5 DEF Rest, ms, N

Works(l, op) == step[l] # "idle" /\ job[l].op = op

CodecTypes ==
  /\ wire \in [Loops -> Seq(Bytes)]
  /\ buf \in [Loops -> Seq(Bytes)]
  /\ delivered \in [Loops -> Seq(Messages)]
  /\ sent \in [Loops -> Seq(Messages)]
  /\ encoded \in [Loops -> Nat]
  /\ step \in [Loops -> StepState]
  /\ job \in [Loops -> Jobs \union {NULL}]
  /\ \A l \in Loops : step[l] = "idle" <=> job[l] = NULL

(* The decoder has taken n messages off the stream.  What is buffered and   *)
(* on the wire is the stream of the rest; the n-th may still be in work.   *)
Taken(l, n) ==
  /\ buf[l] \o wire[l] = Stream(Rest(l, n))
  /\ Works(l, "decode") =>
       /\ n > 0 /\ job[l].msg = Inbound[l][n]
       /\ Passed(delivered[l], Inbound[l], n - 1, l \notin closed)
  /\ ~Works(l, "decode") => Passed(delivered[l], Inbound[l], n, l \notin closed)

InboundInv(l) == \E n \in 0 .. Len(Inbound[l]) : Taken(l, n)

(* The same for what the server sends.                                      *)
OutboundInv(l) ==
  /\ encoded[l] <= Len(Outbound[l])
  /\ Works(l, "encode") =>
       /\ encoded[l] > 0 /\ job[l].msg = Outbound[l][encoded[l]]
       /\ Passed(sent[l], Outbound[l], encoded[l] - 1, FALSE)
  /\ ~Works(l, "encode") => Passed(sent[l], Outbound[l], encoded[l], FALSE)

CodecInv == CodecTypes /\ \A l \in Loops : InboundInv(l) /\ OutboundInv(l)

LEMMA CodecInit == Init => CodecInv
<1> SUFFICES ASSUME Init PROVE CodecInv
  OBVIOUS
<1>1. \A l \in Loops : Stream(Inbound[l]) \in Seq(Bytes)
  BY StreamOf, MessageCodecAssumption
<1>2. <<>> \in Seq(Bytes) /\ <<>> \in Seq(Messages)
  OBVIOUS
<1>3. CodecTypes
  BY <1>1, <1>2 DEF Init, CodecTypes, StepState
<1>4. ASSUME NEW l \in Loops PROVE InboundInv(l) /\ OutboundInv(l)
  <2>1. Inbound[l] \in Seq(Messages) /\ Outbound[l] \in Seq(Messages)
    BY MessageCodecAssumption
  <2>2. Rest(l, 0) = Inbound[l]
    <3> DEFINE ms == Inbound[l]
    <3> HIDE DEF ms
    <3>1. ms \in Seq(Messages)
      BY <2>1 DEF ms
    <3>2. SubSeq(ms, 0 + 1, Len(ms)) = ms
      BY <3>1
    <3> QED
      BY <3>2 DEF Rest, ms
  <2>3. <<>> \o Stream(Inbound[l]) = Stream(Inbound[l])
    BY <1>1
  <2>4. ~Works(l, "decode") /\ ~Works(l, "encode")
    BY DEF Init, Works
  <2>5. \A all : Passed(<<>>, Inbound[l], 0, all) /\ Passed(<<>>, Outbound[l], 0, all)
    BY <2>1, PassedNothing
  <2>6. Taken(l, 0)
    BY <2>2, <2>3, <2>4, <2>5 DEF Init, Taken
  <2>7. 0 \in 0 .. Len(Inbound[l]) /\ 0 <= Len(Outbound[l])
    BY <2>1
  <2>8. InboundInv(l)
    BY <2>6, <2>7 DEF InboundInv
  <2>9. OutboundInv(l)
    BY <2>4, <2>5, <2>7 DEF OutboundInv, Init
  <2> QED
    BY <2>8, <2>9
<1> QED
  BY <1>3, <1>4 DEF CodecInv

(* A loop whose own channel and job stay as they are.                       *)
LEMMA InboundUntouched ==
  ASSUME NEW l \in Loops, InboundInv(l),
         buf'[l] \o wire'[l] = buf[l] \o wire[l], delivered'[l] = delivered[l],
         l \in closed' <=> l \in closed, job'[l] = job[l],
         step'[l] = "idle" <=> step[l] = "idle"
  PROVE  InboundInv(l)'
<1>1. PICK n \in 0 .. Len(Inbound[l]) : Taken(l, n)
  BY DEF InboundInv
<1>2. Works(l, "decode")' <=> Works(l, "decode")
  BY DEF Works
<1>3. Taken(l, n)'
  BY <1>1, <1>2 DEF Taken, Passed, Rest
<1> QED
  BY <1>3 DEF InboundInv

LEMMA OutboundUntouched ==
  ASSUME NEW l \in Loops, OutboundInv(l),
         encoded'[l] = encoded[l], sent'[l] = sent[l], job'[l] = job[l],
         step'[l] = "idle" <=> step[l] = "idle"
  PROVE  OutboundInv(l)'
BY DEF OutboundInv, Works

LEMMA OtherLoops ==
  ASSUME CodecInv, NEW l \in Loops, NEW k \in Loops \ {l},
         \/ UNCHANGED wire
         \/ \E v : wire' = [wire EXCEPT ![l] = v],
         \/ UNCHANGED buf
         \/ \E v : buf' = [buf EXCEPT ![l] = v],
         \/ UNCHANGED delivered
         \/ \E v : delivered' = [delivered EXCEPT ![l] = v],
         \/ UNCHANGED sent
         \/ \E v : sent' = [sent EXCEPT ![l] = v],
         \/ UNCHANGED encoded
         \/ \E v : encoded' = [encoded EXCEPT ![l] = v],
         \/ UNCHANGED job
         \/ \E v : job' = [job EXCEPT ![l] = v],
         \/ UNCHANGED step
         \/ \E v : step' = [step EXCEPT ![l] = v],
         closed' \in {closed, closed \union {l}}
  PROVE  InboundInv(k)' /\ OutboundInv(k)'
<1>1. /\ wire'[k] = wire[k] /\ buf'[k] = buf[k] /\ delivered'[k] = delivered[k]
      /\ sent'[k] = sent[k] /\ encoded'[k] = encoded[k]
      /\ job'[k] = job[k] /\ step'[k] = step[k]
  BY DEF CodecInv, CodecTypes
<1>2. k \in closed' <=> k \in closed
  OBVIOUS
<1>3. InboundInv(k) /\ OutboundInv(k)
  BY DEF CodecInv
<1> QED
  BY <1>1, <1>2, <1>3, InboundUntouched, OutboundUntouched

LEMMA ArriveKeeps ==
  ASSUME CodecInv, NEW l \in Loops, Arrive(l) PROVE CodecInv'
<1>1. PICK n \in 1 .. Len(wire[l]) :
           /\ buf' = [buf EXCEPT ![l] = @ \o SubSeq(wire[l], 1, n)]
           /\ wire' = [wire EXCEPT ![l] = SubSeq(@, n + 1, Len(@))]
  BY DEF Arrive
<1>2. UNCHANGED <<delivered, encoded, sent, closed, step, job>>
  BY DEF Arrive
<1> DEFINE b == buf[l] \o SubSeq(wire[l], 1, n)
           w == SubSeq(wire[l], n + 1, Len(wire[l]))
<1>3. b \in Seq(Bytes) /\ w \in Seq(Bytes) /\ b \o w = buf[l] \o wire[l]
  <2>1. buf[l] \in Seq(Bytes) /\ wire[l] \in Seq(Bytes)
    BY DEF CodecInv, CodecTypes
  <2> QED
    BY <2>1, MoveChunk
<1>4. buf' = [buf EXCEPT ![l] = b] /\ wire' = [wire EXCEPT ![l] = w]
  BY <1>1
<1> HIDE DEF b, w
<1>5. CodecTypes'
  BY <1>2, <1>3, <1>4 DEF CodecInv, CodecTypes
<1>6. InboundInv(l)'
  <2>1. buf'[l] = b /\ wire'[l] = w
    BY <1>4 DEF CodecInv, CodecTypes
  <2>2. buf'[l] \o wire'[l] = buf[l] \o wire[l]
    BY <1>3, <2>1
  <2> QED
    BY <1>2, <2>2, InboundUntouched DEF CodecInv
<1>7. OutboundInv(l)'
  BY <1>2, OutboundUntouched DEF CodecInv
<1>8. \A k \in Loops \ {l} : InboundInv(k)' /\ OutboundInv(k)'
  BY <1>2, <1>4, OtherLoops
<1> QED
  BY <1>5, <1>6, <1>7, <1>8 DEF CodecInv

LEMMA DecodeKeeps ==
  ASSUME CodecInv, NEW l \in Loops, Decode(l) PROVE CodecInv'
<1> DEFINE m == Head(buf[l]).of
           k == MESSAGE_LENGTH + BodyLength[m]
           b == SubSeq(buf[l], k + 1, Len(buf[l]))
<1>1. /\ step[l] = "idle" /\ step' = [step EXCEPT ![l] = "register"]
      /\ job' = [job EXCEPT ![l] = [op |-> "decode", msg |-> m]]
      /\ buf' = [buf EXCEPT ![l] = b]
      /\ UNCHANGED <<wire, delivered, encoded, sent, closed>>
      /\ Len(buf[l]) >= MESSAGE_LENGTH /\ Len(buf[l]) >= k
  BY DEF Decode, Begin, Goes, At, FrameReady, HeadLength
<1>2. PICK n \in 0 .. Len(Inbound[l]) : Taken(l, n)
  BY DEF CodecInv, InboundInv
<1>3. buf[l] \in Seq(Bytes) /\ wire[l] \in Seq(Bytes) /\ buf[l] \o wire[l] = Stream(Rest(l, n))
  BY <1>2 DEF CodecInv, CodecTypes, Taken
<1>4. /\ Len(Rest(l, n)) # 0 /\ m = Rest(l, n)[1]
      /\ b \in Seq(Bytes) /\ b \o wire[l] = Stream(Tail(Rest(l, n)))
  <2>1. Rest(l, n) \in Seq(Messages)
    BY RestOf
  <2> QED
    BY <1>1, <1>3, <2>1, TakeFrame
<1>5. /\ n + 1 \in 1 .. Len(Inbound[l]) /\ m = Inbound[l][n + 1]
      /\ b \o wire[l] = Stream(Rest(l, n + 1)) /\ Inbound[l] \in Seq(Messages)
  BY <1>4, RestOf
<1> HIDE DEF b, m, k
<1>6. m \in Messages
  BY <1>5
<1>7. [op |-> "decode", msg |-> m] \in Jobs /\ [op |-> "decode", msg |-> m] # NULL
  BY <1>6, MessageCodecAssumption DEF Jobs
<1>8. CodecTypes'
  BY <1>1, <1>4, <1>7 DEF CodecInv, CodecTypes, StepState
<1>9. Taken(l, n + 1)'
  <2>1. ~Works(l, "decode") /\ Passed(delivered[l], Inbound[l], n, l \notin closed)
    BY <1>1, <1>2 DEF Works, Taken
  <2>2. /\ buf'[l] = b /\ wire'[l] = wire[l] /\ delivered'[l] = delivered[l]
        /\ step'[l] = "register" /\ job'[l] = [op |-> "decode", msg |-> m]
        /\ closed' = closed
    BY <1>1 DEF CodecInv, CodecTypes
  <2>3. Works(l, "decode")' /\ (n + 1) - 1 = n /\ n + 1 > 0
    BY <2>2 DEF Works
  <2> QED
    BY <1>5, <2>1, <2>2, <2>3 DEF Taken, Rest
<1>10. InboundInv(l)'
  <2>1. n + 1 \in 0 .. Len(Inbound[l])
    BY <1>5
  <2> QED
    BY <1>9, <2>1 DEF InboundInv
<1>11. OutboundInv(l)'
  <2>1. /\ encoded'[l] = encoded[l] /\ sent'[l] = sent[l]
        /\ step'[l] = "register" /\ job'[l].op = "decode"
    BY <1>1 DEF CodecInv, CodecTypes
  <2>2. ~Works(l, "encode") /\ ~Works(l, "encode")'
    BY <1>1, <2>1 DEF Works
  <2> QED
    BY <2>1, <2>2 DEF CodecInv, OutboundInv
<1>12. \A i \in Loops \ {l} : InboundInv(i)' /\ OutboundInv(i)'
  BY <1>1, OtherLoops
<1> QED
  BY <1>8, <1>10, <1>11, <1>12 DEF CodecInv

LEMMA EncodedOf ==
  ASSUME CodecInv, NEW l \in Loops
  PROVE  /\ Outbound[l] \in Seq(Messages) /\ Len(Outbound[l]) \in Nat
         /\ encoded[l] \in 0 .. Len(Outbound[l])
         /\ Works(l, "encode") => encoded[l] \in 1 .. Len(Outbound[l])
<1>1. Outbound[l] \in Seq(Messages) /\ encoded[l] \in Nat
  BY MessageCodecAssumption DEF CodecInv, CodecTypes
<1>2. encoded[l] <= Len(Outbound[l]) /\ (Works(l, "encode") => encoded[l] > 0)
  BY DEF CodecInv, OutboundInv
<1>3. Len(Outbound[l]) \in Nat
  BY <1>1
<1> QED
  BY <1>1, <1>2, <1>3

LEMMA EncodeKeeps ==
  ASSUME CodecInv, NEW l \in Loops, Encode(l) PROVE CodecInv'
<1> DEFINE e == encoded[l] + 1
           m == Outbound[l][e]
<1>1. /\ step[l] = "idle" /\ step' = [step EXCEPT ![l] = "register"]
      /\ job' = [job EXCEPT ![l] = [op |-> "encode", msg |-> m]]
      /\ encoded' = [encoded EXCEPT ![l] = e]
      /\ UNCHANGED <<wire, buf, delivered, sent, closed>>
      /\ encoded[l] < Len(Outbound[l])
  BY DEF Encode, Begin, Goes, At
<1>2. /\ encoded[l] \in Nat /\ Outbound[l] \in Seq(Messages)
      /\ e \in 1 .. Len(Outbound[l]) /\ e - 1 = encoded[l]
  <2>1. encoded[l] \in Nat /\ Outbound[l] \in Seq(Messages) /\ Len(Outbound[l]) \in Nat
    BY EncodedOf
  <2> QED
    BY <1>1, <2>1
<1>3. m \in Messages
  BY <1>2
<1> HIDE DEF e, m
<1>4. [op |-> "encode", msg |-> m] \in Jobs /\ [op |-> "encode", msg |-> m] # NULL
  BY <1>3, MessageCodecAssumption DEF Jobs
<1>5. CodecTypes'
  BY <1>1, <1>2, <1>4 DEF CodecInv, CodecTypes, StepState
<1>6. /\ encoded'[l] = e /\ sent'[l] = sent[l] /\ buf'[l] = buf[l] /\ wire'[l] = wire[l]
      /\ delivered'[l] = delivered[l] /\ closed' = closed
      /\ step'[l] = "register" /\ job'[l] = [op |-> "encode", msg |-> m]
  BY <1>1 DEF CodecInv, CodecTypes
<1>7. OutboundInv(l)'
  <2>1. ~Works(l, "encode") /\ Works(l, "encode")'
    BY <1>1, <1>6 DEF Works
  <2>2. Passed(sent[l], Outbound[l], encoded[l], FALSE)
    BY <2>1 DEF CodecInv, OutboundInv
  <2>3. e <= Len(Outbound[l]) /\ e > 0 /\ m = Outbound[l][e]
    BY <1>2 DEF m
  <2>4. Passed(sent'[l], Outbound[l], encoded'[l] - 1, FALSE)
    BY <1>2, <1>6, <2>2
  <2>5. job'[l].msg = Outbound[l][encoded'[l]] /\ encoded'[l] > 0
        /\ encoded'[l] <= Len(Outbound[l])
    BY <1>6, <2>3
  <2> QED
    BY <2>1, <2>4, <2>5 DEF OutboundInv
<1>8. InboundInv(l)'
  <2>1. PICK n \in 0 .. Len(Inbound[l]) : Taken(l, n)
    BY DEF CodecInv, InboundInv
  <2>2. ~Works(l, "decode") /\ ~Works(l, "decode")'
    BY <1>1, <1>6 DEF Works
  <2>3. Taken(l, n)'
    BY <1>6, <2>1, <2>2 DEF Taken, Passed, Rest
  <2> QED
    BY <2>3 DEF InboundInv
<1>9. \A k \in Loops \ {l} : InboundInv(k)' /\ OutboundInv(k)'
  BY <1>1, OtherLoops
<1> QED
  BY <1>5, <1>7, <1>8, <1>9 DEF CodecInv

(* A step inside KryoCodecUtil, that neither begins nor ends a job.         *)
LEMMA InsideKeeps ==
  ASSUME CodecInv, NEW l \in Loops, UNCHANGED channels, UNCHANGED job,
         NEW to \in StepState \ {"idle"}, step[l] # "idle",
         step' = [step EXCEPT ![l] = to]
  PROVE  CodecInv'
<1>1. CodecTypes'
  BY DEF CodecInv, CodecTypes, channels
<1>2. step'[l] = to
  BY DEF CodecInv, CodecTypes
<1>3. InboundInv(l)' /\ OutboundInv(l)'
  BY <1>2, InboundUntouched, OutboundUntouched DEF CodecInv, channels
<1>4. \A k \in Loops \ {l} : InboundInv(k)' /\ OutboundInv(k)'
  BY OtherLoops DEF channels
<1> QED
  BY <1>1, <1>3, <1>4 DEF CodecInv

LEMMA JobOf ==
  ASSUME CodecInv, NEW l \in Loops, step[l] # "idle"
  PROVE  /\ job[l] \in Jobs /\ job[l].op \in {"decode", "encode"}
         /\ Works(l, "decode") <=> job[l].op = "decode"
         /\ Works(l, "encode") <=> job[l].op # "decode"
<1>1. job[l] \in Jobs
  BY DEF CodecInv, CodecTypes
<1> QED
  BY <1>1 DEF Jobs, Works

LEMMA SucceedKeeps ==
  ASSUME CodecInv, NEW l \in Loops, Succeed(l) PROVE CodecInv'
<1> DEFINE m == job[l].msg
<1>1. /\ step[l] = "isEmpty" /\ step' = [step EXCEPT ![l] = "idle"]
      /\ job' = [job EXCEPT ![l] = NULL]
      /\ UNCHANGED <<wire, buf, encoded, closed>>
  BY DEF Succeed, Goes, At
<1>2. /\ job[l] \in Jobs /\ m \in Messages
      /\ Works(l, "decode") <=> job[l].op = "decode"
      /\ Works(l, "encode") <=> job[l].op # "decode"
  <2>1. job[l] \in Jobs
    BY <1>1, JobOf
  <2> QED
    BY <1>1, <2>1, JobOf DEF Jobs
<1>3. delivered[l] \in Seq(Messages) /\ sent[l] \in Seq(Messages)
  BY DEF CodecInv, CodecTypes
<1>4. /\ wire'[l] = wire[l] /\ buf'[l] = buf[l] /\ encoded'[l] = encoded[l]
      /\ closed' = closed /\ step'[l] = "idle" /\ job'[l] = NULL
  BY <1>1 DEF CodecInv, CodecTypes
<1>5. ~Works(l, "decode")' /\ ~Works(l, "encode")'
  BY <1>4 DEF Works
<1>6. PICK n \in 0 .. Len(Inbound[l]) : Taken(l, n)
  BY DEF CodecInv, InboundInv
<1>7. Inbound[l] \in Seq(Messages) /\ Outbound[l] \in Seq(Messages)
  BY MessageCodecAssumption
<1>8. CASE job[l].op = "decode"
  <2>1. delivered' = [delivered EXCEPT ![l] = Append(@, m)] /\ sent' = sent
    BY <1>8 DEF Succeed, Deliver
  <2>2. Append(delivered[l], m) \in Seq(Messages)
    BY <1>2, <1>3
  <2>3. CodecTypes'
    <3>1. delivered' \in [Loops -> Seq(Messages)]
      BY <2>1, <2>2 DEF CodecInv, CodecTypes
    <3> QED
      BY <1>1, <2>1, <3>1 DEF CodecInv, CodecTypes, StepState
  <2>4. delivered'[l] = Append(delivered[l], m) /\ sent'[l] = sent[l]
    BY <2>1 DEF CodecInv, CodecTypes
  <2>5. /\ n > 0 /\ m = Inbound[l][n]
        /\ Passed(delivered[l], Inbound[l], n - 1, l \notin closed)
    BY <1>2, <1>6, <1>8 DEF Taken
  <2>6. Passed(Append(delivered[l], m), Inbound[l], n, l \notin closed)
    <3>1. n \in 1 .. Len(Inbound[l])
      BY <2>5
    <3> QED
      BY <1>3, <1>7, <2>5, <3>1, PassedOneMore
  <2>7. Taken(l, n)'
    BY <1>4, <1>5, <1>6, <2>4, <2>6 DEF Taken, Rest
  <2>8. InboundInv(l)'
    BY <2>7 DEF InboundInv
  <2>9. OutboundInv(l)'
    BY <1>2, <1>4, <1>5, <1>8, <2>4 DEF CodecInv, OutboundInv
  <2>10. \A k \in Loops \ {l} : InboundInv(k)' /\ OutboundInv(k)'
    BY <1>1, <2>1, OtherLoops
  <2> QED
    BY <2>3, <2>8, <2>9, <2>10 DEF CodecInv
<1>9. CASE job[l].op # "decode"
  <2>1. /\ sent' = IF l \in closed THEN sent ELSE [sent EXCEPT ![l] = Append(@, m)]
        /\ delivered' = delivered
    BY <1>9 DEF Succeed
  <2>2. Append(sent[l], m) \in Seq(Messages)
    BY <1>2, <1>3
  <2>3. CodecTypes'
    <3>1. sent' \in [Loops -> Seq(Messages)]
      BY <2>1, <2>2 DEF CodecInv, CodecTypes
    <3> QED
      BY <1>1, <2>1, <3>1 DEF CodecInv, CodecTypes, StepState
  <2>4. /\ sent'[l] = IF l \in closed THEN sent[l] ELSE Append(sent[l], m)
        /\ delivered'[l] = delivered[l]
    BY <2>1 DEF CodecInv, CodecTypes
  <2>5. /\ encoded[l] \in 1 .. Len(Outbound[l]) /\ m = Outbound[l][encoded[l]]
        /\ Passed(sent[l], Outbound[l], encoded[l] - 1, FALSE)
    <3>1. Works(l, "encode")
      BY <1>2, <1>9
    <3> QED
      BY <3>1, EncodedOf DEF CodecInv, OutboundInv
  <2>6. /\ Passed(Append(sent[l], m), Outbound[l], encoded[l], FALSE)
        /\ Passed(sent[l], Outbound[l], encoded[l], FALSE)
    <3>1. Passed(Append(sent[l], Outbound[l][encoded[l]]), Outbound[l], encoded[l], FALSE)
      BY <1>3, <1>7, <2>5, PassedOneMore
    <3>2. Passed(sent[l], Outbound[l], encoded[l], FALSE)
      BY <1>3, <1>7, <2>5, PassedOneLess
    <3> HIDE DEF m
    <3> QED
      BY <2>5, <3>1, <3>2
  <2>7. OutboundInv(l)'
    <3>1. Passed(sent'[l], Outbound[l], encoded[l], FALSE)
      BY <2>4, <2>6
    <3> QED
      BY <1>4, <1>5, <3>1 DEF CodecInv, OutboundInv
  <2>8. Taken(l, n)'
    BY <1>2, <1>4, <1>5, <1>6, <1>9, <2>4 DEF Taken, Rest
  <2>9. InboundInv(l)'
    BY <2>8 DEF InboundInv
  <2>10. \A k \in Loops \ {l} : InboundInv(k)' /\ OutboundInv(k)'
    BY <1>1, <2>1, OtherLoops
  <2> QED
    BY <2>3, <2>7, <2>9, <2>10 DEF CodecInv
<1> QED
  BY <1>8, <1>9

LEMMA FailKeeps ==
  ASSUME CodecInv, NEW l \in Loops, Fail(l) PROVE CodecInv'
<1>1. /\ step[l] # "idle" /\ step' = [step EXCEPT ![l] = "idle"]
      /\ job' = [job EXCEPT ![l] = NULL]
      /\ UNCHANGED <<wire, buf, delivered, encoded, sent>>
      /\ closed' = IF job[l].op = "decode" THEN closed \union {l} ELSE closed
  BY DEF Fail, Goes, At
<1>2. /\ Works(l, "decode") <=> job[l].op = "decode"
      /\ Works(l, "encode") <=> job[l].op # "decode"
  BY <1>1, JobOf
<1>3. delivered[l] \in Seq(Messages) /\ sent[l] \in Seq(Messages)
  BY DEF CodecInv, CodecTypes
<1>4. step'[l] = "idle" /\ job'[l] = NULL
  BY <1>1 DEF CodecInv, CodecTypes
<1>5. ~Works(l, "decode")' /\ ~Works(l, "encode")'
  BY <1>4 DEF Works
<1>6. PICK n \in 0 .. Len(Inbound[l]) : Taken(l, n)
  BY DEF CodecInv, InboundInv
<1>7. Inbound[l] \in Seq(Messages) /\ Outbound[l] \in Seq(Messages)
  BY MessageCodecAssumption
<1>8. CodecTypes'
  BY <1>1 DEF CodecInv, CodecTypes, StepState
<1>9. InboundInv(l)' /\ OutboundInv(l)'
  <2>1. CASE job[l].op = "decode"
    <3>1. n \in 1 .. Len(Inbound[l]) /\ Passed(delivered[l], Inbound[l], n - 1, l \notin closed)
      BY <1>2, <1>6, <2>1 DEF Taken
    <3>2. Passed(delivered[l], Inbound[l], n, FALSE)
      BY <1>3, <1>7, <3>1, PassedOneLess
    <3>3. l \in closed'
      BY <1>1, <2>1
    <3>4. Taken(l, n)'
      BY <1>1, <1>5, <1>6, <3>2, <3>3 DEF Taken, Passed, Rest
    <3>5. OutboundInv(l)'
      BY <1>1, <1>2, <1>5, <2>1 DEF CodecInv, OutboundInv
    <3> QED
      BY <3>4, <3>5 DEF InboundInv
  <2>2. CASE job[l].op # "decode"
    <3>1. encoded[l] \in 1 .. Len(Outbound[l]) /\ Passed(sent[l], Outbound[l], encoded[l] - 1, FALSE)
      <4>1. Works(l, "encode")
        BY <1>2, <2>2
      <4> QED
        BY <4>1, EncodedOf DEF CodecInv, OutboundInv
    <3>2. Passed(sent[l], Outbound[l], encoded[l], FALSE)
      BY <1>3, <1>7, <3>1, PassedOneLess
    <3>3. OutboundInv(l)'
      BY <1>1, <1>5, <3>2 DEF CodecInv, OutboundInv
    <3>4. Taken(l, n)'
      BY <1>1, <1>2, <1>5, <1>6, <2>2 DEF Taken, Rest
    <3> QED
      BY <3>3, <3>4 DEF InboundInv
  <2> QED
    BY <2>1, <2>2
<1>10. \A k \in Loops \ {l} : InboundInv(k)' /\ OutboundInv(k)'
  BY <1>1, OtherLoops
<1> QED
  BY <1>8, <1>9, <1>10 DEF CodecInv

LEMMA CodecStep == CodecInv /\ [Next]_vars => CodecInv'
<1> SUFFICES ASSUME CodecInv, [Next]_vars PROVE CodecInv'
  OBVIOUS
<1>1. CASE UNCHANGED vars
  <2>1. CodecTypes'
    BY <1>1 DEF CodecInv, CodecTypes, vars, channels
  <2>2. ASSUME NEW l \in Loops PROVE InboundInv(l)' /\ OutboundInv(l)'
    BY <1>1, InboundUntouched, OutboundUntouched DEF CodecInv, vars, channels
  <2> QED
    BY <2>1, <2>2 DEF CodecInv
<1>2. ASSUME NEW l \in Loops, Register(l) \/ Borrow(l) \/ Release(l) PROVE CodecInv'
  BY <1>2, InsideKeeps DEF Register, Borrow, Release, Goes, At, StepState
<1>3. ASSUME NEW l \in Loops, Throws(l) \/ NotEmpty(l) \/ RemoveStream(l) PROVE CodecInv'
  BY <1>3, InsideKeeps DEF Throws, NotEmpty, RemoveStream, Goes, At, StepState
<1> QED
  BY <1>1, <1>2, <1>3, ArriveKeeps, DecodeKeeps, EncodeKeeps, SucceedKeeps, FailKeeps
     DEF Next, LoopStep

(* The decoder stays at the start of a frame, however the bytes are cut     *)
(* into chunks: MessageDecoder reads a length and the body that it says,   *)
(* or, with mark and reset, nothing.                                       *)
THEOREM DecoderStaysAligned == Spec => []StreamAligned
<1>1. CodecInv => StreamAligned
  <2> SUFFICES ASSUME CodecInv, NEW l \in Loops \ closed
               PROVE  /\ delivered[l] = SubSeq(Inbound[l], 1, Len(delivered[l]))
                      /\ buf[l] \o wire[l] = Stream(SubSeq(Inbound[l], Consumed(l) + 1, Len(Inbound[l])))
    BY DEF StreamAligned
  <2>1. PICK n \in 0 .. Len(Inbound[l]) : Taken(l, n)
    BY DEF CodecInv, InboundInv
  <2>2. Inbound[l] \in Seq(Messages)
    BY MessageCodecAssumption
  <2>3. Decoding(l) <=> Works(l, "decode")
    BY DEF CodecInv, CodecTypes, Decoding, Works
  <2> DEFINE k == IF Decoding(l) THEN n - 1 ELSE n
  <2>4. k \in 0 .. Len(Inbound[l]) /\ delivered[l] = SubSeq(Inbound[l], 1, k)
    BY <2>1, <2>2, <2>3 DEF Taken, Passed
  <2>5. Len(delivered[l]) = k
    <3> HIDE DEF k
    <3> QED
      BY <2>2, <2>4, FirstOf
  <2>6. Consumed(l) = n
    BY <2>5 DEF Consumed
  <2> QED
    BY <2>1, <2>4, <2>5, <2>6 DEF Taken, Rest
<1> QED
  BY <1>1, CodecInit, CodecStep, PTL DEF Spec

(* Exceptions of Kryo and of the shared closer drop messages on both sides  *)
(* of the codec; they reorder and repeat none.                             *)
THEOREM CodecKeepsOrder == Spec => []OrderKept
<1>1. CodecInv => OrderKept
  <2> SUFFICES ASSUME CodecInv, NEW l \in Loops
               PROVE  /\ IsSubsequence(delivered[l], Inbound[l])
                      /\ IsSubsequence(sent[l], SubSeq(Outbound[l], 1, encoded[l]))
    BY DEF OrderKept
  <2>1. /\ Inbound[l] \in Seq(Messages) /\ Outbound[l] \in Seq(Messages)
        /\ delivered[l] \in Seq(Messages) /\ sent[l] \in Seq(Messages)
        /\ encoded[l] \in 0 .. Len(Outbound[l])
    BY MessageCodecAssumption, EncodedOf DEF CodecInv, CodecTypes
  <2>2. PICK k \in 0 .. Len(Inbound[l]) : IsSubsequence(delivered[l], SubSeq(Inbound[l], 1, k))
    <3>1. PICK n \in 0 .. Len(Inbound[l]) : Taken(l, n)
      BY DEF CodecInv, InboundInv
    <3>2. CASE Works(l, "decode")
      <4>1. n - 1 \in 0 .. Len(Inbound[l])
        BY <2>1, <3>1, <3>2 DEF Taken
      <4> QED
        BY <3>1, <3>2, <4>1 DEF Taken, Passed
    <3>3. CASE ~Works(l, "decode")
      BY <3>1, <3>3 DEF Taken, Passed
    <3> QED
      BY <3>2, <3>3
  <2>3. IsSubsequence(delivered[l], Inbound[l])
    <3>1. /\ SubSeq(Inbound[l], 1, k) \in Seq(Messages)
          /\ Len(SubSeq(Inbound[l], 1, k)) = k /\ k <= Len(Inbound[l])
          /\ \A i \in 1 .. k : SubSeq(Inbound[l], 1, k)[i] = Inbound[l][i]
      BY <2>1, FirstOf
    <3> QED
      BY <2>1, <2>2, <3>1, SubsequenceWider
  <2>4. Passed(sent[l], Outbound[l], encoded[l], FALSE)
    <3>1. CASE Works(l, "encode")
      <4>1. encoded[l] \in 1 .. Len(Outbound[l])
            /\ Passed(sent[l], Outbound[l], encoded[l] - 1, FALSE)
        BY <3>1, EncodedOf DEF CodecInv, OutboundInv
      <4> QED
        BY <2>1, <4>1, PassedOneLess
    <3>2. CASE ~Works(l, "encode")
      BY <3>2 DEF CodecInv, OutboundInv
    <3> QED
      BY <3>1, <3>2
  <2> QED
    BY <2>3, <2>4 DEF Passed
<1> QED
  BY <1>1, CodecInit, CodecStep, PTL DEF Spec
=============================================================================
