---------------------------- MODULE IScrollProofs ----------------------------
(* That the scroller's current page is always one of those that exist, that *)
(* a position is lost by two handlers only, and which handlers leave the    *)
(* content out of bounds with nobody to bring it back: what a movement can  *)
(* make of a position, which pages there are, that every handler leaves     *)
(* both in order, and where each one sends the scroller.  What holds of all *)
(* positions and of those that are not lost is proved once, of any set P of *)
(* positions that no movement leaves.                                       *)
EXTENDS IScroll, WellFoundedInduction, TLAPS

Points(P) == [Axes -> P]

Motions(P) ==
  [pos : Points(P), from : Points(P) \union {None}, timed : BOOLEAN,
   inTransition : BOOLEAN, isAnimating : BOOLEAN,
   frames : Seq([from : Points(P), dest : Points(P), done : Nat])]

(* The positions that are not lost.                                         *)
Near == {p \in Int : -(Far - Px) <= p /\ p <= Far - Px}

(* Where nothing is scrolled, or whole pixels to the left of it and above;  *)
(* so far from infinity that what goes out of bounds is.                    *)
Bounds ==
  {low \in [Axes -> Int] :
     \A a \in Axes : /\ low[a] <= 0 /\ low[a] % Px = 0
                     /\ -(Far - Px) <= low[a] - Px * Overshoot}

(* Sets of positions that no movement leaves.                               *)
Closed(P) ==
  /\ Near \subseteq P /\ P \subseteq Position
  /\ \A p \in P : RoundPx(p) \in P
  /\ \A p, q \in P : \A k \in 0 .. Steps : Between(p, q, k) \in P

-----------------------------------------------------------------------------
(* Numbers                                                                  *)

LEMMA Constants ==
  /\ Px \in Int /\ Px = 3 /\ Far \in Int /\ -Far \in Int
  /\ Far - Px \in Int /\ -(Far - Px) \in Int /\ Far - Px > 0
  /\ Far = Px * 100000
  /\ NaN \notin Int /\ Steps \in Nat \ {0} /\ MinIndicator \in Int /\ Overshoot \in Nat
  /\ \A a \in Axes : Wrapper[a] \in Nat \ {0}
BY IScrollAssumption, SMT DEF Px, Far

LEMMA Numbers ==
  ASSUME NEW p \in Position, NEW q \in Position
  PROVE  /\ IsFinite(p) => p \in Int
         /\ p # NaN => p \in Int
         /\ ~IsFinite(p) => p \in {NaN, Far, -Far}
         /\ \A d \in Int : Add(p, d) \in Position
         /\ RoundPx(p) \in Position
         /\ \A k \in Nat : Between(p, q, k) \in Position
         /\ \A low \in Int : Clamp(p, low) \in Position
<1> USE Constants DEF Position
<1>1. /\ IsFinite(p) => p \in Int
      /\ p # NaN => p \in Int
      /\ IsFinite(q) => q \in Int
      /\ ~IsFinite(p) => p \in {NaN, Far, -Far}
  BY DEF IsFinite
<1>2. ASSUME NEW d \in Int
      PROVE  Add(p, d) \in Position
  BY <1>1 DEF Add
<1>3. RoundPx(p) \in Position
  BY <1>1 DEF RoundPx
<1>4. ASSUME NEW k \in Nat
      PROVE  Between(p, q, k) \in Position
  BY <1>1 DEF Between
<1>5. ASSUME NEW low \in Int
      PROVE  Clamp(p, low) \in Position
  BY <1>1 DEF Clamp, Above, Below
<1> QED
  BY <1>1, <1>2, <1>3, <1>4, <1>5

LEMMA NearIsFinite ==
  /\ \A p \in Near : p \in Int /\ p # NaN /\ IsFinite(p) /\ p \in Position
  /\ 0 \in Near
BY Constants DEF Near, IsFinite, Position

(* Between two numbers there are no others.                                 *)
LEMMA OnTheWay ==
  ASSUME NEW p \in Int, NEW q \in Int, NEW k \in 0 .. Steps
  PROVE  LET x == p + ((q - p) * k) \div Steps
         IN  x \in Int /\ ((p <= x /\ x <= q) \/ (q <= x /\ x <= p))
<1> DEFINE d == q - p
           e == (d * k) \div Steps
<1>1. d \in Int /\ k \in Int /\ 0 <= k /\ k <= Steps /\ Steps \in Nat \ {0}
  BY Constants
<1> HIDE DEF d
<1>2. d * k \in Int /\ d * Steps \in Int
  BY <1>1
<1>3. e \in Int /\ e * Steps <= d * k /\ d * k < e * Steps + Steps
  <2> DEFINE n == d * k
  <2>1. n \in Int
    BY <1>2
  <2> HIDE DEF n
  <2>2. n \div Steps \in Int
    BY <1>1, <2>1, SMT
  <2>3. (n \div Steps) * Steps <= n
    BY <1>1, <2>1, SMT
  <2>4. n < (n \div Steps) * Steps + Steps
    BY <1>1, <2>1, SMT
  <2> QED
    BY <2>2, <2>3, <2>4 DEF n
<1> HIDE DEF e
<1>4. CASE d >= 0
  <2>1. 0 <= d * k /\ d * k <= d * Steps
    BY <1>1, <1>4, SMT
  <2>2. e * Steps <= d * Steps /\ -Steps < e * Steps
    BY <1>1, <1>2, <1>3, <2>1
  <2>3. e <= d /\ -1 < e
    BY <1>1, <1>3, <2>2, SMT
  <2> QED
    BY <1>1, <1>3, <2>3 DEF d, e
<1>5. CASE d < 0
  <2>1. d * k <= 0 /\ d * Steps <= d * k
    BY <1>1, <1>5, SMT
  <2>2. e * Steps <= 0 /\ d * Steps < e * Steps + Steps
    BY <1>1, <1>2, <1>3, <2>1
  <2>3. e <= 0
    BY <1>1, <1>3, <2>2, SMT
  <2>4. d < e + 1
    <3>1. e * Steps + Steps = (e + 1) * Steps
      BY <1>1, <1>3, SMT
    <3>2. d * Steps < (e + 1) * Steps /\ e + 1 \in Int
      BY <1>3, <2>2, <3>1
    <3> QED
      BY <1>1, <3>2, SMT
  <2> QED
    BY <1>1, <1>3, <2>3, <2>4 DEF d, e
<1> QED
  BY <1>1, <1>4, <1>5

LEMMA PositionIsClosed == Closed(Position)
<1>1. Near \subseteq Position
  BY DEF Near, Position
<1>2. \A k \in 0 .. Steps : k \in Nat
  BY Constants
<1> QED
  BY <1>1, <1>2, Numbers DEF Closed

LEMMA NearIsClosed == Closed(Near)
<1>1. Near \subseteq Position
  BY DEF Near, Position
<1>2. ASSUME NEW p \in Near
      PROVE  RoundPx(p) \in Near
  <2>1. RoundPx(p) = 3 * ((2 * p + 3) \div 6) /\ p \in Int
    BY NearIsFinite, Constants DEF RoundPx
  <2>2. -299997 <= p /\ p <= 299997
    BY Constants DEF Near
  <2>3. -299997 <= RoundPx(p) /\ RoundPx(p) <= 299997 /\ RoundPx(p) \in Int
    BY <2>1, <2>2, SMTT(30)
  <2> QED
    BY <2>3, Constants DEF Near
<1>3. ASSUME NEW p \in Near, NEW q \in Near, NEW k \in 0 .. Steps
      PROVE  Between(p, q, k) \in Near
  <2> DEFINE x == p + ((q - p) * k) \div Steps
  <2>1. p \in Int /\ q \in Int /\ Between(p, q, k) = x
    BY NearIsFinite DEF Between
  <2>2. x \in Int /\ ((p <= x /\ x <= q) \/ (q <= x /\ x <= p))
    BY <2>1, OnTheWay
  <2> HIDE DEF x
  <2> QED
    BY <2>1, <2>2, Constants DEF Near
<1> QED
  BY <1>1, <1>2, <1>3 DEF Closed

(* A position that is a number is clamped to between the bounds, and one    *)
(* that is lost stays lost or is found at one of them.                      *)
LEMMA ClampedWithin ==
  ASSUME NEW p \in Position, NEW low \in Int, low <= 0
  PROVE  /\ p = NaN => Clamp(p, low) = NaN
         /\ p # NaN => Clamp(p, low) \in Int /\ low <= Clamp(p, low) /\ Clamp(p, low) <= 0
BY Constants DEF Position, Clamp, Above, Below

LEMMA BoundsAreNear ==
  ASSUME NEW low \in Bounds, NEW a \in Axes
  PROVE  /\ low[a] \in Int /\ low[a] <= 0
         /\ \A p \in Int : low[a] <= p /\ p <= 0 => p \in Near
BY Constants DEF Bounds, Near

LEMMA ClampedPositions ==
  ASSUME NEW P, Closed(P), NEW low \in Bounds, NEW a \in Axes
  PROVE  /\ \A p \in P : Clamp(p, low[a]) \in P
         /\ \A p \in P : \A d \in Int : Clamp(Add(p, d), low[a]) \in P
<1>1. /\ low[a] \in Int /\ low[a] <= 0 /\ Near \subseteq P /\ P \subseteq Position
      /\ \A q \in Int : low[a] <= q /\ q <= 0 => q \in P
  BY BoundsAreNear DEF Closed
<1>2. ASSUME NEW p \in P
      PROVE  Clamp(p, low[a]) \in P
  <2>1. CASE p = NaN
    BY <1>1, <2>1, ClampedWithin
  <2>2. CASE p # NaN
    BY <1>1, <2>2, ClampedWithin
  <2> QED
    BY <2>1, <2>2
<1>3. ASSUME NEW p \in P, NEW d \in Int
      PROVE  Clamp(Add(p, d), low[a]) \in P
  <2>1. CASE IsFinite(p)
    <3>1. Add(p, d) \in Int /\ Add(p, d) \in Position /\ Add(p, d) # NaN
      BY <1>1, <2>1, Numbers, Constants DEF Add, Position
    <3> QED
      BY <1>1, <3>1, ClampedWithin
  <2>2. CASE ~IsFinite(p)
    BY <1>2, <2>2 DEF Add
  <2> QED
    BY <2>1, <2>2
<1> QED
  BY <1>2, <1>3
LEMMA Roundings ==
  ASSUME NEW n \in Int, NEW d \in Int, d # 0
  PROVE  RoundDiv(n, d) \in Int
BY SMT DEF RoundDiv

LEMMA Signs ==
  ASSUME NEW n \in Int
  PROVE  /\ Sign(n) \in {-1, 0, 1} /\ -Sign(n) \in Int /\ Sign(n) \in Int
         /\ Magnitude(n) \in Int
BY SMT DEF Sign, Magnitude

-----------------------------------------------------------------------------
(* Movement                                                                 *)

LEMMA ShownIsAPoint ==
  ASSUME NEW P, Closed(P),
         NEW m \in Motions(P), NEW k \in 0 .. Steps
  PROVE  Shown(m, k) \in Points(P)
<1>1. m.pos \in Points(P) /\ (m.from # None => m.from \in Points(P))
  BY DEF Motions
<1>2. ASSUME NEW a \in Axes
      PROVE  (IF m.from = None THEN m.pos[a] ELSE Between(m.from[a], m.pos[a], k)) \in P
  BY <1>1 DEF Points, Closed
<1> QED
  BY <1>2 DEF Shown, Points

LEMMA PaintMoves ==
  ASSUME NEW P, Closed(P),
         NEW m \in Motions(P), NEW n \in Motions(P), NEW k \in 0 .. Steps
  PROVE  Paint(m, n, k) \in Motions(P)
<1>1. Shown(m, k) \in Points(P) /\ m.from \in Points(P) \union {None}
  BY ShownIsAPoint DEF Motions
<1>2. \A f \in Points(P) \union {None} : [n EXCEPT !.from = f] \in Motions(P)
  BY DEF Motions
<1>3. \E f \in Points(P) \union {None} : Paint(m, n, k) = [n EXCEPT !.from = f]
  BY <1>1 DEF Paint
<1> QED
  BY <1>2, <1>3

(* What the parts of a handler do with a movement: those that send the      *)
(* scroller to a point leave it a movement.                                 *)
LEMMA TranslateMoves ==
  ASSUME NEW P, Closed(P),
         NEW m \in Motions(P), NEW p \in Points(P)
  PROVE  Translate(m, p) \in Motions(P)
BY DEF Translate, Motions

LEMMA FlagsMove ==
  ASSUME NEW P, Closed(P),
         NEW m \in Motions(P), NEW b \in BOOLEAN
  PROVE  /\ [m EXCEPT !.timed = b] \in Motions(P)
         /\ [m EXCEPT !.inTransition = b] \in Motions(P)
         /\ [m EXCEPT !.isAnimating = b] \in Motions(P)
         /\ [m EXCEPT !.from = None] \in Motions(P)
         /\ TransitionTime(m, b) \in Motions(P)
         /\ m.pos \in Points(P) /\ m.isAnimating \in BOOLEAN
<1>1. /\ [m EXCEPT !.timed = b] \in Motions(P)
      /\ [m EXCEPT !.inTransition = b] \in Motions(P)
      /\ [m EXCEPT !.isAnimating = b] \in Motions(P)
      /\ [m EXCEPT !.from = None] \in Motions(P)
      /\ m.pos \in Points(P) /\ m.isAnimating \in BOOLEAN
  BY DEF Motions
<1> QED
  BY <1>1 DEF TransitionTime

LEMMA AnimateMoves ==
  ASSUME NEW P, Closed(P),
         NEW m \in Motions(P), NEW p \in Points(P)
  PROVE  Animate(m, p) \in Motions(P)
<1> DEFINE first == [a \in Axes |-> Between(m.pos[a], p[a], 0)]
           frame == [from |-> m.pos, dest |-> p, done |-> 0]
<1>1. m.pos \in Points(P)
  BY DEF Motions
<1>2. first \in Points(P)
  BY <1>1, Constants DEF Points, Closed
<1>3. frame \in [from : Points(P), dest : Points(P), done : Nat]
  BY <1>1
<1> HIDE DEF first, frame
<1>4. Append(m.frames, frame) \in Seq([from : Points(P), dest : Points(P), done : Nat])
  BY <1>3 DEF Motions
<1>5. [m EXCEPT !.isAnimating = TRUE, !.pos = first,
                !.frames = Append(m.frames, frame)] \in Motions(P)
  BY <1>2, <1>4 DEF Motions
<1>6. Animate(m, p) = [m EXCEPT !.isAnimating = TRUE, !.pos = first,
                                !.frames = Append(m.frames, frame)]
  BY Zenon DEF Animate, first, frame, Motions
<1> QED
  BY <1>5, <1>6

LEMMA ScrollToMoves ==
  ASSUME NEW P, Closed(P),
         opts \in Options, NEW m \in Motions(P), NEW p \in Points(P),
         NEW timed \in BOOLEAN, NEW css
  PROVE  ScrollTo(m, p, timed, css) \in Motions(P)
<1> DEFINE n == [m EXCEPT !.inTransition = opts.useTransition /\ timed]
<1>1. (opts.useTransition /\ timed) \in BOOLEAN
  BY DEF Options
<1>2. n \in Motions(P)
  BY <1>1, FlagsMove
<1> HIDE DEF n
<1>3. /\ Translate(TransitionTime(n, timed), p) \in Motions(P)
      /\ Translate(n, p) \in Motions(P)
      /\ Animate(n, p) \in Motions(P)
  BY <1>2, FlagsMove, TranslateMoves, AnimateMoves
<1> QED
  BY <1>3 DEF ScrollTo, n

LEMMA ResetMoves ==
  ASSUME NEW P, Closed(P),
         opts \in Options, NEW m \in Motions(P), NEW low \in Bounds,
         NEW timed \in BOOLEAN
  PROVE  ResetPosition(m, low, timed) \in Motions(P)
<1>1. m.pos \in Points(P)
  BY DEF Motions
<1>2. 0 \in P
  BY NearIsFinite DEF Closed
<1>3. ResetTarget(m.pos, low) \in Points(P)
  BY <1>1, <1>2, ClampedPositions DEF ResetTarget, Points
<1> QED
  BY <1>3, ScrollToMoves DEF ResetPosition

LEMMA ProgressIsPart == Progress \subseteq 0 .. Steps
BY Constants DEF Progress

LEMMA MovesLeaveMotion ==
  ASSUME NEW P, Closed(P),
         motion \in Motions(P), NEW n \in Motions(P), NEW k \in Progress, Moves(n, k)
  PROVE  motion' \in Motions(P)
<1>1. k \in 0 .. Steps
  BY ProgressIsPart
<1> QED
  BY <1>1, PaintMoves DEF Moves

(* Where momentum would take a finger is a position, which is not lost if   *)
(* its speed is not divided by zero.                                        *)
LEMMA ThrownPositions ==
  ASSUME opts \in Options, NEW p \in Position, NEW s \in Position,
         NEW low \in Bounds, NEW a \in Axes, NEW tick \in BOOLEAN
  PROVE  /\ Momentum(p, s, low[a], tick) \subseteq Position
         /\ p \in Near /\ s \in Near /\ ~tick =>
              Momentum(p, s, low[a], tick) \subseteq Near
<1> USE Constants
<1> DEFINE out  == IF opts.bounce THEN Px * Overshoot ELSE 0
           fast == tick \/ ~IsFinite(s)
           l    == low[a]
<1>0. l \in Int /\ l <= 0 /\ -(Far - Px) <= l - Px * Overshoot
  BY DEF Bounds
<1> HIDE DEF l
<1>1. CASE NaN \in {p, s}
  <2>1. Momentum(p, s, l, tick) = {NaN}
    BY <1>1 DEF Momentum
  <2>2. ~(p \in Near /\ s \in Near)
    BY <1>1, NearIsFinite
  <2> QED
    BY <2>1, <2>2 DEF Position, l
<1>2. CASE NaN \notin {p, s}
  <2>1. /\ p \in Int /\ s \in Int /\ out \in Int
        /\ 0 <= out /\ out <= Px * Overshoot
    BY <1>2 DEF Position
  <2>2. Sign(p - s) = 0 \/ Sign(p - s) = 1 \/ Sign(p - s) = -1
    BY <2>1, Signs
  <2>3. \A q : q \in p .. out \/ q \in l - out .. p => q \in Position
    BY <1>0, <2>1 DEF Position
  <2>4. p \in Near => \A q : q \in p .. out \/ q \in l - out .. p => q \in Near
    BY <1>0, <2>1 DEF Near
  <2>5. s \in Near /\ ~tick => ~fast
    BY NearIsFinite
  <2> HIDE DEF out
  <2>6. Momentum(p, s, l, tick) \subseteq Position
    <3>1. /\ {NaN} \subseteq Position /\ {p} \subseteq Position
          /\ {IF opts.bounce THEN Far ELSE 0} \subseteq Position
          /\ {IF opts.bounce THEN -Far ELSE l} \subseteq Position
      BY <1>0, <2>1 DEF Position
    <3>2. /\ {q \in p .. out : q % Px = 0} \subseteq Position
          /\ {q \in l - out .. p : q % Px = 0} \subseteq Position
      BY <2>3
    <3> QED
      BY <1>2, <2>2, <3>1, <3>2 DEF Momentum, out
  <2>7. ASSUME p \in Near, s \in Near, ~tick
        PROVE  Momentum(p, s, l, tick) \subseteq Near
    <3>1. /\ {p} \subseteq Near
          /\ {q \in p .. out : q % Px = 0} \subseteq Near
          /\ {q \in l - out .. p : q % Px = 0} \subseteq Near
      BY <2>4, <2>7
    <3>2. ~fast
      BY <2>5, <2>7
    <3> QED
      BY <1>2, <2>2, <3>1, <3>2 DEF Momentum, out
  <2> QED
    BY <2>6, <2>7 DEF l
<1> QED
  BY <1>1, <1>2


-----------------------------------------------------------------------------
(* Pages                                                                    *)

PageRecords(P) == [at : [Axes -> Int], pos : Points(P)]

Exists(pg, low, a) ==
  /\ pg.at[a] \in 0 .. PageCount(low, a) - 1
  /\ pg.pos[a] = PagePos(low, a, pg.at[a])

(* PageExists, of any page and any bounds.                                  *)
IsPage(pg, low) ==
  \A a \in Axes : \/ a = "y" /\ pg.pos[a] = NaN /\ pg.at[a] = PageCount(low, a)
                  \/ Exists(pg, low, a)

LEMMA RoundUp ==
  ASSUME NEW c \in Nat \ {0}, NEW l \in Int, l <= 0
  PROVE  LET n == (2 * c - l - 1) \div c
         IN  n \in Nat \ {0} /\ -((n - 1) * c) <= l
<1> DEFINE m == 2 * c - l - 1
           n == m \div c
<1>1. m \in Int /\ c <= m
  OBVIOUS
<1>2. n \in Int /\ n * c <= m /\ m < n * c + c
  <2> HIDE DEF m
  <2>1. n \in Int
    BY <1>1, SMT
  <2>2. n * c <= m
    BY <1>1, SMT
  <2>3. m < n * c + c
    BY <1>1, SMT
  <2> QED
    BY <2>1, <2>2, <2>3
<1>3. m = 2 * c - l - 1
  OBVIOUS
<1> HIDE DEF n, m
<1>4. (n - 1) * c = n * c - c
  BY <1>2, SMT
<1>5. n >= 1
  <2> SUFFICES ASSUME n <= 0 PROVE FALSE
    BY <1>2
  <2>1. n * c <= 0
    BY <1>2, SMT
  <2> QED
    BY <2>1, <1>1, <1>2
<1>6. n * c \in Int
  BY <1>2
<1>7. n \in Nat \ {0} /\ -((n - 1) * c) <= l
  BY <1>2, <1>3, <1>4, <1>5, <1>6
<1> QED
  BY <1>7 DEF n, m

(* There is a page, and the last one reaches to the bound.                  *)
LEMMA PagesReachBounds ==
  ASSUME NEW low \in Bounds, NEW a \in Axes
  PROVE  /\ PageCount(low, a) \in Nat \ {0}
         /\ \A i \in Int : PagePos(low, a, i) \in Int /\ PageMid(a, i) \in Int
         /\ \A i \in Nat : low[a] <= PagePos(low, a, i) /\ PagePos(low, a, i) <= 0
         /\ PageMid(a, PageCount(low, a) - 1) <= low[a]
<1> DEFINE c == Px * Wrapper[a]
           l == low[a]
           n == PageCount(low, a)
           h == RoundDiv(Wrapper[a], 2)
<1>1. /\ Wrapper[a] \in Nat \ {0} /\ c \in Nat \ {0} /\ c = 3 * Wrapper[a]
      /\ l \in Int /\ l <= 0
  BY Constants, BoundsAreNear
<1>2. n = (2 * c - l - 1) \div c
  <2>1. 2 * Px * Wrapper[a] = 2 * c
    BY <1>1, Constants
  <2> QED
    BY <2>1 DEF PageCount
<1>3. h \in Int /\ h >= 0
  BY <1>1 DEF RoundDiv
<1>4. \A i \in Int : PagePos(low, a, i) = Larger(-(i * c), l) /\ PageMid(a, i) = -(i * c) - 3 * h
  <2>1. \A i \in Int : i * Px * Wrapper[a] = i * c
    BY <1>1, Constants
  <2> QED
    BY <2>1, Constants DEF PagePos, PageMid
<1> HIDE DEF c, l, n, h
<1>5. n \in Nat \ {0} /\ -((n - 1) * c) <= l
  BY <1>1, <1>2, RoundUp
<1>6. \A i \in Int : i * c \in Int
  BY <1>1
<1>7. \A i \in Int : PagePos(low, a, i) \in Int /\ PageMid(a, i) \in Int
  BY <1>1, <1>3, <1>4, <1>6 DEF Larger
<1>8. PageMid(a, n - 1) <= l
  BY <1>1, <1>3, <1>4, <1>5, <1>6
<1>9. ASSUME NEW i \in Nat
      PROVE  l <= PagePos(low, a, i) /\ PagePos(low, a, i) <= 0
  <2>1. i * c \in Int /\ 0 <= i * c
    BY <1>1, SMT
  <2> QED
    BY <1>1, <1>4, <2>1 DEF Larger
<1> QED
  BY <1>5, <1>7, <1>8, <1>9 DEF l, n

LEMMA PagesAreIn ==
  ASSUME NEW P, Closed(P), NEW low \in Bounds, NEW a \in Axes, NEW i \in Nat
  PROVE  PagePos(low, a, i) \in P
BY PagesReachBounds, BoundsAreNear DEF Closed

LEMMA LeastNat ==
  ASSUME NEW T \in SUBSET Nat, T # {}
  PROVE  \E i \in T : \A j \in T : i <= j
<1> DEFINE R == OpToRel(<, Nat)
<1>1. IsWellFoundedOn(R, Nat)
  BY NatLessThanWellFounded
<1>2. \A i, j \in Nat : j < i => <<j, i>> \in R
  BY DEF R, OpToRel
<1> HIDE DEF R
<1>3. PICK i \in T : \A j \in T : ~(<<j, i>> \in R)
  BY <1>1, WFMin
<1>4. \A j \in T : ~(j < i)
  BY <1>2, <1>3
<1> QED
  BY <1>3, <1>4

(* A position that is a number, within the bounds, is on one of the pages.  *)
LEMMA FirstPageExists ==
  ASSUME NEW low \in Bounds, NEW a \in Axes, NEW p \in Position
  PROVE  /\ p = NaN => FirstPage(low, a, p) = PageCount(low, a)
         /\ p # NaN /\ low[a] <= p => FirstPage(low, a, p) \in 0 .. PageCount(low, a) - 1
<1> DEFINE n == PageCount(low, a)
           passed == {i \in 0 .. n - 1 : p # NaN /\ p >= PageMid(a, i)}
<1>1. FirstPage(low, a, p) = IF passed = {} THEN n
                             ELSE CHOOSE i \in passed : \A j \in passed : i <= j
  BY DEF FirstPage
<1>2. /\ n \in Nat \ {0} /\ PageMid(a, n - 1) \in Int /\ PageMid(a, n - 1) <= low[a]
      /\ low[a] \in Int
  BY PagesReachBounds, BoundsAreNear
<1> HIDE DEF n
<1>3. ASSUME p = NaN
      PROVE  FirstPage(low, a, p) = n
  BY <1>1, <1>3
<1>4. ASSUME p # NaN, low[a] <= p
      PROVE  FirstPage(low, a, p) \in 0 .. n - 1
  <2>1. p \in Int
    BY <1>4 DEF Position
  <2>2. n - 1 \in passed
    BY <1>2, <1>4, <2>1
  <2>3. passed \in SUBSET Nat /\ passed \subseteq 0 .. n - 1
    BY <1>2
  <2> HIDE DEF passed
  <2>4. \E i \in passed : \A j \in passed : i <= j
    BY <2>2, <2>3, LeastNat
  <2>5. (CHOOSE i \in passed : \A j \in passed : i <= j) \in passed
    BY <2>4
  <2> QED
    BY <1>1, <2>2, <2>3, <2>5
<1> QED
  BY <1>3, <1>4 DEF n

LEMMA WithinPages ==
  ASSUME NEW n \in Nat \ {0}, NEW i \in Int
  PROVE  Within(i, n) \in 0 .. n - 1
BY DEF Within

LEMMA PageForIsPage ==
  ASSUME NEW P, Closed(P),
         NEW low \in Bounds, NEW at \in [Axes -> Int]
  PROVE  PageFor(low, at) \in PageRecords(P) /\ IsPage(PageFor(low, at), low)
<1> DEFINE i == [a \in Axes |-> Within(at[a], PageCount(low, a))]
           q == [a \in Axes |-> PagePos(low, a, i[a])]
<1>1. \A a \in Axes : i[a] \in 0 .. PageCount(low, a) - 1 /\ i[a] \in Nat
  BY PagesReachBounds, WithinPages
<1>2. \A a \in Axes : q[a] \in P
  BY <1>1, PagesAreIn
<1>3. PageFor(low, at) = [at |-> i, pos |-> q]
  BY DEF PageFor, PageAt
<1>4. i \in [Axes -> Int] /\ q \in Points(P)
  BY <1>1, <1>2 DEF Points
<1>5. \A a \in Axes : q[a] = PagePos(low, a, i[a])
  OBVIOUS
<1> HIDE DEF i, q
<1> QED
  BY <1>1, <1>3, <1>4, <1>5 DEF PageRecords, IsPage, Exists

(* The snap leads to a page, or into the column that cannot be looked up.   *)
LEMMA SnapIsPage ==
  ASSUME NEW P, Closed(P),
         NEW low \in Bounds, NEW p \in Points(P), NEW begun, NEW way \in [Axes -> Int],
         NEW current \in PageRecords(P), IsPage(current, low),
         ~SnapThrows(p, low, NearestSnap(p, low, begun, way, current))
  PROVE  /\ NearestSnap(p, low, begun, way, current) \in PageRecords(P)
         /\ IsPage(NearestSnap(p, low, begun, way, current), low)
<1> DEFINE snap == NearestSnap(p, low, begun, way, current)
           n(a) == PageCount(low, a)
           c(a) == Clamp(p[a], low[a])
           i(a) == FirstPage(low, a, c(a))
           j(a) == IF i(a) = current.at[a] THEN Within(i(a) + way[a], n(a)) ELSE i(a)
           q(a) == IF j(a) < n(a) THEN PagePos(low, a, j(a)) ELSE c(a)
           next == [at |-> [a \in Axes |-> j(a)], pos |-> [a \in Axes |-> q(a)]]
<1>1. snap = current \/ snap = next
  BY DEF NearestSnap
<1>2. ASSUME NEW a \in Axes
      PROVE  /\ j(a) \in Int /\ q(a) \in P
             /\ \/ j(a) \in 0 .. n(a) - 1 /\ q(a) = PagePos(low, a, j(a))
                \/ j(a) = n(a) /\ q(a) = NaN
  <2>1. /\ p[a] \in P /\ p[a] \in Position
        /\ low[a] \in Int /\ low[a] <= 0 /\ way[a] \in Int
    BY BoundsAreNear DEF Points, Closed
  <2>2. /\ c(a) \in P /\ c(a) \in Position /\ n(a) \in Nat \ {0}
        /\ \A k \in Nat : PagePos(low, a, k) \in P
    BY <2>1, ClampedPositions, PagesReachBounds, PagesAreIn DEF Closed
  <2>3. c(a) # NaN => low[a] <= c(a)
    BY <2>1, ClampedWithin
  <2> HIDE DEF c
  <2>4. \/ c(a) = NaN /\ i(a) = n(a)
        \/ i(a) \in 0 .. n(a) - 1
    BY <2>2, <2>3, FirstPageExists
  <2>5. i(a) \in Int
    BY <2>2, <2>4
  <2> HIDE DEF i, n
  <2>6. Within(i(a) + way[a], n(a)) \in 0 .. n(a) - 1
    BY <2>1, <2>2, <2>5, WithinPages
  <2>7. \/ c(a) = NaN /\ j(a) = n(a)
        \/ j(a) \in 0 .. n(a) - 1
    BY <2>4, <2>6
  <2> HIDE DEF j
  <2>8. j(a) \in Int /\ (j(a) \in 0 .. n(a) - 1 => j(a) \in Nat /\ j(a) < n(a))
    BY <2>2, <2>7
  <2>9. j(a) = n(a) => ~(j(a) < n(a))
    BY <2>2
  <2> QED
    BY <2>2, <2>7, <2>8, <2>9
<1>3. CASE snap = current
  BY <1>3
<1>4. CASE snap = next
  <2> HIDE DEF q, j
  <2>1. /\ next.at \in [Axes -> Int] /\ next.pos \in Points(P)
        /\ \A a \in Axes : next.at[a] = j(a) /\ next.pos[a] = q(a)
    BY <1>2 DEF Points
  <2>2. next \in PageRecords(P)
    BY <2>1 DEF PageRecords
  <2>3. ~(next.at["x"] >= n("x"))
    BY <1>4 DEF SnapThrows
  <2> HIDE DEF next
  <2>4. n("x") \in Nat \ {0} /\ "x" \in Axes
    BY PagesReachBounds DEF Axes
  <2>5. j("x") # n("x")
    BY <2>1, <2>3, <2>4
  <2>6. \A a \in Axes : a = "x" \/ a = "y"
    BY DEF Axes
  <2>7. IsPage(next, low)
    BY <1>2, <2>1, <2>5, <2>6 DEF IsPage, Exists
  <2> QED
    BY <1>4, <2>2, <2>7
<1> QED
  BY <1>1, <1>3, <1>4

-----------------------------------------------------------------------------
(* The invariant                                                            *)

Touches(P) ==
  [initiated : BOOLEAN, moved : BOOLEAN, dist : [Axes -> Int],
   locked : {"no", "h", "v", "n"}, start : Points(P),
   absStart : Points(Position), ended : BOOLEAN, down : BOOLEAN, untouched : BOOLEAN]

Bars == [held : BOOLEAN, moved : BOOLEAN, down : BOOLEAN]

ScrollTypes(P) ==
  /\ opts \in Setups /\ size \in opts.contents
  /\ maxScroll \in Bounds
  /\ motion \in Motions(P)
  /\ touch \in Touches(P)
  /\ dirn \in [Axes -> Int]
  /\ page \in PageRecords(P)
  /\ bar \in Bars
  /\ bar.held => opts.bar \in Axes

PageInv == opts.snap => IsPage(page, maxScroll)

LEMMA OptionsTypes ==
  ASSUME opts \in Setups
  PROVE  /\ opts \in Options
         /\ opts.drags \subseteq [Axes -> Int] /\ opts.turns \subseteq [Axes -> Int]
         /\ opts.contents \subseteq [Axes -> Nat \ {0}]
         /\ opts.bar # "none" => opts.bar \in Axes
BY IScrollAssumption DEF Options

LEMMA NowhereTypes ==
  ASSUME NEW P, Closed(P)
  PROVE  /\ Nowhere \in [Axes -> Int] /\ Nowhere \in Points(P)
         /\ \A d \in Int : \A a : [Nowhere EXCEPT ![a] = d] \in [Axes -> Int]
<1>1. Nowhere \in [Axes -> Int] /\ Nowhere \in Points(P)
  BY NearIsFinite DEF Nowhere, Points, Closed
<1>2. ASSUME NEW d \in Int, NEW a
      PROVE  [Nowhere EXCEPT ![a] = d] \in [Axes -> Int]
  BY <1>1
<1> QED
  BY <1>1, <1>2

LEMMA MaxScrollIsABound ==
  ASSUME opts \in Setups, NEW content \in opts.contents
  PROVE  MaxScrollOf(opts, content) \in Bounds
<1>1. content \in [Axes -> Nat \ {0}]
  BY OptionsTypes
<1>2. \A a \in Axes : /\ content[a] \in Nat /\ Wrapper[a] \in Nat \ {0}
                      /\ Px * (content[a] + Overshoot + 1) <= Far
  BY <1>1, Constants, IScrollAssumption
<1>3. ASSUME NEW a \in Axes
      PROVE  LET x == IF a \in opts.scroll /\ Wrapper[a] < content[a]
                      THEN Px * (Wrapper[a] - content[a]) ELSE 0
             IN  x \in Int /\ x <= 0 /\ x % Px = 0 /\ -(Far - Px) <= x - Px * Overshoot
  BY <1>2, Constants
<1> QED
  BY <1>3 DEF MaxScrollOf, Bounds

LEMMA BoundIsAPoint ==
  ASSUME NEW P, Closed(P), NEW low \in Bounds
  PROVE  low \in Points(P)
<1>1. \A a \in Axes : low[a] \in P
  BY BoundsAreNear DEF Closed
<1> QED
  BY <1>1 DEF Bounds, Points

LEMMA StartsInOrder ==
  ASSUME NEW P, Closed(P), Init
  PROVE  ScrollTypes(P) /\ PageInv
<1>1. opts \in Setups /\ size \in opts.contents /\ maxScroll \in Bounds
  BY MaxScrollIsABound DEF Init
<1>2. motion \in Motions(P)
  BY NowhereTypes DEF Init, Motions
<1>3. touch \in Touches(P)
  <2>1. [a \in Axes |-> NaN] \in Points(Position)
    BY DEF Points, Position
  <2> QED
    BY <2>1, NowhereTypes, OptionsTypes DEF Init, Touches, Options
<1>4. dirn \in [Axes -> Int] /\ bar \in Bars /\ ~bar.held
  BY NowhereTypes DEF Init, Bars
<1>5. page = PageFor(maxScroll, Nowhere)
  <2>1. \A a \in Axes : Within(0, PageCount(maxScroll, a)) = 0
    BY <1>1, PagesReachBounds DEF Within
  <2>2. [a \in Axes |-> Within(Nowhere[a], PageCount(maxScroll, a))] = Nowhere
    BY <2>1 DEF Nowhere
  <2> QED
    BY <2>2 DEF Init, PageFor
<1>6. page \in PageRecords(P) /\ IsPage(page, maxScroll)
  BY <1>1, <1>5, PageForIsPage, NowhereTypes
<1> QED
  BY <1>1, <1>2, <1>3, <1>4, <1>6 DEF ScrollTypes, PageInv

(* What a handler has to leave in order, where the bounds stay.             *)
LEMMA InOrder ==
  ASSUME NEW P, Closed(P),
         ScrollTypes(P), PageInv, UNCHANGED <<opts, size, maxScroll>>,
         motion' \in Motions(P), touch' \in Touches(P), dirn' \in [Axes -> Int],
         \/ UNCHANGED page
         \/ page' \in PageRecords(P) /\ (opts.snap => IsPage(page', maxScroll)),
         \/ UNCHANGED bar
         \/ bar' \in Bars /\ (bar'.held => opts.bar \in Axes)
  PROVE  ScrollTypes(P)' /\ PageInv'
<1>1. page' \in PageRecords(P) /\ (opts.snap => IsPage(page', maxScroll))
  BY DEF ScrollTypes, PageInv
<1>2. bar' \in Bars /\ (bar'.held => opts.bar \in Axes)
  BY DEF ScrollTypes
<1>3. ScrollTypes(P)'
  BY <1>1, <1>2 DEF ScrollTypes
<1>4. PageInv'
  BY <1>1 DEF PageInv
<1> QED
  BY <1>3, <1>4

-----------------------------------------------------------------------------
(* The finger on the scroller                                               *)

LEMMA KeptIsATouch ==
  ASSUME NEW P, Closed(P),
         NEW t \in Touches(P)
  PROVE  Kept(t) \in Touches(P)
<1> DEFINE live == IF t.initiated THEN t
                   ELSE [t EXCEPT !.moved = FALSE, !.dist = Nowhere, !.locked = "no",
                                  !.start = Nowhere, !.down = FALSE]
<1>1. live \in Touches(P)
  BY NowhereTypes DEF Touches
<1> HIDE DEF live
<1>2. live.start \in Points(P) /\ live.absStart \in Points(Position)
  BY <1>1 DEF Touches
<1>3. /\ (IF opts.snap \/ opts.momentum THEN live.start ELSE Nowhere) \in Points(P)
      /\ (IF opts.snap THEN live.absStart ELSE Nowhere) \in Points(Position)
  BY <1>2, NowhereTypes, PositionIsClosed
<1>4. \A s \in Points(P), b \in Points(Position) : [live EXCEPT !.start = s, !.absStart = b] \in Touches(P)
  BY <1>1 DEF Touches
<1>5. Kept(t) = [live EXCEPT !.start = IF opts.snap \/ opts.momentum THEN live.start ELSE Nowhere,
                             !.absStart = IF opts.snap THEN live.absStart ELSE Nowhere]
  BY DEF Kept, live
<1> QED
  BY <1>3, <1>4, <1>5

(* A transition that is stopped leaves the scroller where it is shown.      *)
LEMMA StoppedMoves ==
  ASSUME NEW P, Closed(P),
         NEW m \in Motions(P), NEW k \in 0 .. Steps
  PROVE  LET shown == [a \in Axes |-> RoundPx(Shown(m, k)[a])]
         IN  /\ [m EXCEPT !.timed = FALSE, !.inTransition = FALSE, !.pos = shown] \in Motions(P)
             /\ [m EXCEPT !.inTransition = FALSE, !.pos = shown] \in Motions(P)
<1> DEFINE shown == [a \in Axes |-> RoundPx(Shown(m, k)[a])]
<1>1. \A a \in Axes : Shown(m, k)[a] \in P
  BY ShownIsAPoint DEF Points
<1>2. shown \in Points(P)
  BY <1>1 DEF Points, Closed
<1> HIDE DEF shown
<1>3. /\ [m EXCEPT !.timed = FALSE, !.inTransition = FALSE, !.pos = shown] \in Motions(P)
      /\ [m EXCEPT !.inTransition = FALSE, !.pos = shown] \in Motions(P)
  BY <1>2 DEF Motions
<1> QED
  BY <1>3 DEF shown

LEMMA PointerDownKeeps ==
  ASSUME NEW P, Closed(P),
         ScrollTypes(P), PageInv, PointerDown
  PROVE  ScrollTypes(P)' /\ PageInv'
<1> DEFINE transition == opts.useTransition /\ motion.inTransition
           animation  == ~opts.useTransition /\ motion.isAnimating
           n(k) == IF transition
                   THEN [motion EXCEPT !.timed = FALSE, !.inTransition = FALSE,
                           !.pos = [a \in Axes |-> RoundPx(Shown(motion, k)[a])]]
                   ELSE [motion EXCEPT !.isAnimating = @ /\ ~animation]
<1>1. motion \in Motions(P) /\ touch \in Touches(P)
  BY DEF ScrollTypes
<1>2. ASSUME NEW k \in Progress
      PROVE  n(k) \in Motions(P)
  <2>1. k \in 0 .. Steps
    BY ProgressIsPart
  <2>2. [motion EXCEPT !.timed = FALSE, !.inTransition = FALSE,
           !.pos = [a \in Axes |-> RoundPx(Shown(motion, k)[a])]] \in Motions(P)
    BY <1>1, <2>1, StoppedMoves
  <2>3. (motion.isAnimating /\ ~animation) \in BOOLEAN
    BY <1>1, FlagsMove
  <2>4. [motion EXCEPT !.isAnimating = (motion.isAnimating /\ ~animation)] \in Motions(P)
    BY <1>1, <2>3, FlagsMove
  <2> QED
    BY <2>2, <2>4
<1>3. PICK k \in Progress : Moves(n(k), k)
  BY DEF PointerDown
<1> HIDE DEF n
<1>4. motion' \in Motions(P)
  BY <1>1, <1>2, <1>3, MovesLeaveMotion
<1>5. motion'.pos \in Points(P) /\ motion'.pos \in Points(Position)
  BY <1>4 DEF Motions, Points, Closed
<1>6. [touch EXCEPT !.initiated = TRUE, !.moved = FALSE, !.dist = Nowhere, !.locked = "no",
                    !.start = motion'.pos, !.absStart = motion'.pos, !.down = TRUE,
                    !.untouched = FALSE] \in Touches(P)
  BY <1>1, <1>5, NowhereTypes DEF Touches
<1>7. touch' \in Touches(P)
  BY <1>6, KeptIsATouch DEF PointerDown
<1>8. /\ dirn' \in [Axes -> Int]
      /\ UNCHANGED <<opts, size, maxScroll>> /\ UNCHANGED page /\ UNCHANGED bar
  BY NowhereTypes DEF PointerDown
<1> QED
  BY <1>4, <1>7, <1>8, InOrder

(* What a finger drags stays as near as the bound says, if it is a number,  *)
(* and else where it is, or at the bounds.                                  *)
LEMMA DraggedPositions ==
  ASSUME NEW P, Closed(P), opts \in Options, NEW p \in P, NEW d \in Int,
         NEW low \in Bounds, NEW a \in Axes,
         IsFinite(p) => Dragged(p, d, low[a]) \in low[a] - Px * Overshoot .. Px * Overshoot
  PROVE  Dragged(p, d, low[a]) \in P
<1>1. CASE IsFinite(p)
  <2>1. /\ low[a] \in Int /\ low[a] <= 0 /\ -(Far - Px) <= low[a] - Px * Overshoot
        /\ Px * Overshoot \in Int
    BY Constants DEF Bounds
  <2>2. Dragged(p, d, low[a]) \in Near
    <3> DEFINE q == Dragged(p, d, low[a])
    <3>1. q \in low[a] - Px * Overshoot .. Px * Overshoot
      BY <1>1
    <3> HIDE DEF q
    <3>2. q \in Int /\ low[a] - Px * Overshoot <= q /\ q <= Px * Overshoot
      BY <2>1, <3>1
    <3>3. q \in Near
      BY <2>1, <3>2, Constants DEF Near
    <3> QED
      BY <3>3 DEF q
  <2> QED
    BY <2>2 DEF Closed
<1>2. CASE ~IsFinite(p)
  <2>1. Px * d \in Int
    BY Constants
  <2>2. Add(p, Px * d) = p /\ Add(p, d) = p
    BY <1>2 DEF Add
  <2>3. Clamp(Add(p, Px * d), low[a]) \in P
    BY <2>1, ClampedPositions
  <2> QED
    BY <2>2, <2>3 DEF Dragged
<1> QED
  BY <1>1, <1>2

LEMMA PointerMoveKeeps ==
  ASSUME NEW P, Closed(P),
         ScrollTypes(P), PageInv,
         NEW d \in opts.drags, NEW recent \in BOOLEAN, NEW late \in BOOLEAN,
         PointerMove(d, recent, late)
  PROVE  ScrollTypes(P)' /\ PageInv'
<1> DEFINE dist   == [a \in Axes |-> touch.dist[a] + d[a]]
           locked == Lock(dist)
           delta  == [a \in Axes |-> IF FollowsFinger(a, locked) THEN d[a] ELSE 0]
           to     == [a \in Axes |-> Dragged(motion.pos[a], delta[a], maxScroll[a])]
<1>1. /\ motion \in Motions(P) /\ touch \in Touches(P) /\ dirn \in [Axes -> Int]
      /\ opts \in Options /\ d \in [Axes -> Int] /\ maxScroll \in Bounds
  BY OptionsTypes DEF ScrollTypes
<1>2. dist \in [Axes -> Int] /\ delta \in [Axes -> Int]
  BY <1>1 DEF Touches
<1>3. locked \in {"no", "h", "v", "n"}
  BY <1>1 DEF Lock, Touches
<1> HIDE DEF dist, locked, delta
<1>4. ASSUME NEW k \in Progress, Moves(Translate(motion, to), k),
             \A a \in Axes : IsFinite(motion.pos[a]) =>
               motion'.pos[a] \in maxScroll[a] - Px * Overshoot .. Px * Overshoot
      PROVE  to \in Points(P)
  <2>1. motion.pos \in Points(P)
    BY <1>1, FlagsMove
  <2>2. motion'.pos = to
    <3> HIDE DEF to
    <3>1. Translate(motion, to).pos = to
      BY <1>1 DEF Translate, Motions
    <3>2. \A f : [Translate(motion, to) EXCEPT !.from = f].pos = to
      BY <1>1, <3>1 DEF Translate, Motions
    <3> QED
      BY <1>4, <3>2 DEF Moves, Paint
  <2>3. ASSUME NEW a \in Axes
        PROVE  to[a] \in P
    <3>1. motion.pos[a] \in P /\ delta[a] \in Int
      BY <1>2, <2>1 DEF Points
    <3>2. to[a] = Dragged(motion.pos[a], delta[a], maxScroll[a])
      OBVIOUS
    <3>3. IsFinite(motion.pos[a]) =>
            to[a] \in maxScroll[a] - Px * Overshoot .. Px * Overshoot
      BY <1>4, <2>2
    <3> QED
      BY <1>1, <3>1, <3>2, <3>3, DraggedPositions
  <2> QED
    BY <2>3 DEF Points
<1>5. /\ UNCHANGED <<opts, size, maxScroll>> /\ UNCHANGED page /\ UNCHANGED bar
      /\ \/ touch' = [touch EXCEPT !.dist = dist] /\ UNCHANGED <<motion, dirn>>
         \/ touch' = Kept([touch EXCEPT !.initiated = FALSE]) /\ UNCHANGED <<motion, dirn>>
         \/ /\ \E k \in Progress : Moves(Translate(motion, to), k)
            /\ \A a \in Axes : IsFinite(motion.pos[a]) =>
                 motion'.pos[a] \in maxScroll[a] - Px * Overshoot .. Px * Overshoot
            /\ dirn' = [a \in Axes |-> -Sign(delta[a])]
            /\ touch' = Kept([touch EXCEPT !.dist = dist, !.locked = locked, !.moved = TRUE,
                                           !.start = IF late THEN motion'.pos ELSE @])
  BY DEF PointerMove, dist, locked, delta
<1> HIDE DEF to
<1>6. CASE touch' = [touch EXCEPT !.dist = dist] /\ UNCHANGED <<motion, dirn>>
  <2>1. touch' \in Touches(P)
    BY <1>1, <1>2, <1>6 DEF Touches
  <2> QED
    BY <1>1, <1>5, <1>6, <2>1, InOrder
<1>7. CASE touch' = Kept([touch EXCEPT !.initiated = FALSE]) /\ UNCHANGED <<motion, dirn>>
  <2>1. [touch EXCEPT !.initiated = FALSE] \in Touches(P)
    BY <1>1 DEF Touches
  <2>2. touch' \in Touches(P)
    BY <1>7, <2>1, KeptIsATouch
  <2> QED
    BY <1>1, <1>5, <1>7, <2>2, InOrder
<1>8. CASE /\ \E k \in Progress : Moves(Translate(motion, to), k)
           /\ \A a \in Axes : IsFinite(motion.pos[a]) =>
                motion'.pos[a] \in maxScroll[a] - Px * Overshoot .. Px * Overshoot
           /\ dirn' = [a \in Axes |-> -Sign(delta[a])]
           /\ touch' = Kept([touch EXCEPT !.dist = dist, !.locked = locked, !.moved = TRUE,
                                          !.start = IF late THEN motion'.pos ELSE @])
  <2>1. motion' \in Motions(P)
    BY <1>1, <1>4, <1>8, TranslateMoves, MovesLeaveMotion
  <2>2. motion'.pos \in Points(P) /\ touch.start \in Points(P)
    BY <1>1, <2>1 DEF Motions, Touches
  <2>3. (IF late THEN motion'.pos ELSE touch.start) \in Points(P)
    BY <2>2
  <2>4. [touch EXCEPT !.dist = dist, !.locked = locked, !.moved = TRUE,
                      !.start = IF late THEN motion'.pos ELSE touch.start] \in Touches(P)
    BY <1>1, <1>2, <1>3, <2>3 DEF Touches
  <2>5. touch' \in Touches(P)
    BY <1>8, <2>4, KeptIsATouch
  <2>6. dirn' \in [Axes -> Int]
    BY <1>2, <1>8, Signs
  <2> QED
    BY <1>5, <2>1, <2>5, <2>6, InOrder
<1> QED
  BY <1>5, <1>6, <1>7, <1>8

(* A finger that is released in the tick in which its drag began throws the *)
(* scroller to where nothing is; positions that have that are not lost.     *)
Catches(P, tick) == P = Position \/ (P = Near /\ ~tick)

LEMMA ThrownPoints ==
  ASSUME NEW P, Closed(P), NEW tick \in BOOLEAN, Catches(P, tick),
         ScrollTypes(P), NEW m \in Motions(P)
  PROVE  Throws(m, tick) \subseteq Points(P)
<1> DEFINE to(a) == IF Has(maxScroll, a)
                    THEN Momentum(m.pos[a], touch.start[a], maxScroll[a], tick)
                    ELSE {m.pos[a]}
<1>1. /\ opts \in Options /\ maxScroll \in Bounds
      /\ m.pos \in Points(P) /\ touch.start \in Points(P)
  BY OptionsTypes DEF ScrollTypes, Motions, Touches
<1>2. ASSUME NEW a \in Axes
      PROVE  to(a) \subseteq P
  <2> DEFINE p == m.pos[a]
             s == touch.start[a]
  <2>1. p \in P /\ s \in P /\ p \in Position /\ s \in Position
    BY <1>1 DEF Points, Closed
  <2> HIDE DEF p, s
  <2>2. Momentum(p, s, maxScroll[a], tick) \subseteq P
    BY <1>1, <2>1, ThrownPositions DEF Catches
  <2> QED
    BY <2>1, <2>2 DEF p, s
<1>3. Throws(m, tick) \subseteq [Axes -> to("x") \union to("y")]
  BY DEF Throws
<1>4. to("x") \union to("y") \subseteq P
  BY <1>2 DEF Axes
<1> QED
  BY <1>3, <1>4 DEF Points

(* The end of a drag goes on to the page that is nearest, or to none when   *)
(* the look-up fails.                                                       *)
LEMMA ReleaseKeeps ==
  ASSUME NEW P, Closed(P),
         ScrollTypes(P), PageInv, NEW m \in Motions(P), NEW quick, NEW k \in Progress,
         Catches(P, quick = "tick"), Release(m, quick, k)
  PROVE  /\ motion' \in Motions(P) /\ dirn' \in [Axes -> Int]
         /\ \/ UNCHANGED page
            \/ page' \in PageRecords(P) /\ (opts.snap => IsPage(page', maxScroll))
<1> DEFINE thrown == opts.momentum /\ quick # "long"
           n      == IF thrown THEN [m EXCEPT !.inTransition = TRUE] ELSE m
           T      == IF thrown THEN Throws(m, quick = "tick") ELSE {m.pos}
           timed(t) == IF opts.snap THEN IsNumber(t)
                       ELSE quick # "tick" /\ \A a \in Axes : IsFinite(t[a])
           css(t) == \/ \E a \in Axes : IsOutside(Goal(t)[a], maxScroll[a])
                     \/ ~opts.snap \/ ~opts.jsBounce
<1>1. /\ motion \in Motions(P) /\ opts \in Options /\ maxScroll \in Bounds
      /\ dirn \in [Axes -> Int] /\ page \in PageRecords(P)
  BY OptionsTypes DEF ScrollTypes
<1>2. n \in Motions(P)
  BY FlagsMove
<1>3. T \subseteq Points(P)
  <2>1. (quick = "tick") \in BOOLEAN
    OBVIOUS
  <2>2. Throws(m, quick = "tick") \subseteq Points(P)
    BY <2>1, ThrownPoints
  <2> QED
    BY <2>2, FlagsMove
<1>4. PICK t \in T :
        \/ /\ opts.snap /\ SnapThrows(t, maxScroll, SnapOf(t))
           /\ Moves(n, k)
           /\ UNCHANGED <<page, dirn>>
        \/ /\ ~(opts.snap /\ SnapThrows(t, maxScroll, SnapOf(t)))
           /\ page' = IF opts.snap THEN SnapOf(t) ELSE page
           /\ dirn' = IF opts.snap THEN Nowhere ELSE dirn
           /\ Moves(n, k) \/ Moves(ScrollTo(n, Goal(t), timed(t), css(t)), k)
  BY DEF Release
<1> HIDE DEF n, T
<1>5. CASE UNCHANGED <<page, dirn>> /\ Moves(n, k)
  BY <1>1, <1>2, <1>5, MovesLeaveMotion
<1>6. CASE /\ ~(opts.snap /\ SnapThrows(t, maxScroll, SnapOf(t)))
           /\ page' = IF opts.snap THEN SnapOf(t) ELSE page
           /\ dirn' = IF opts.snap THEN Nowhere ELSE dirn
           /\ Moves(n, k) \/ Moves(ScrollTo(n, Goal(t), timed(t), css(t)), k)
  <2>1. opts.snap => SnapOf(t) \in PageRecords(P) /\ IsPage(SnapOf(t), maxScroll)
    BY <1>1, <1>3, <1>6, SnapIsPage DEF SnapOf, PageInv
  <2>2. Goal(t) \in Points(P)
    BY <1>3, <2>1 DEF Goal, PageRecords
  <2>3. timed(t) \in BOOLEAN
    BY DEF IsNumber
  <2> HIDE DEF timed, css
  <2>4. ScrollTo(n, Goal(t), timed(t), css(t)) \in Motions(P)
    BY <1>1, <1>2, <2>2, <2>3, ScrollToMoves
  <2>5. motion' \in Motions(P)
    BY <1>1, <1>2, <1>6, <2>4, MovesLeaveMotion
  <2>6. dirn' \in [Axes -> Int]
    BY <1>1, <1>6, NowhereTypes
  <2>7. page' \in PageRecords(P) /\ (opts.snap => IsPage(page', maxScroll))
    BY <1>1, <1>6, <2>1
  <2> QED
    BY <2>5, <2>6, <2>7
<1> QED
  BY <1>4, <1>5, <1>6

LEMMA TurnedTypes ==
  ASSUME NEW at \in [Axes -> Int], NEW d \in [Axes -> Int]
  PROVE  Turned(at, d) \in [Axes -> Int]
BY DEF Turned

(* goToPage leads to a page.                                                *)
LEMMA GoToMoves ==
  ASSUME NEW P, Closed(P),
         opts \in Options, NEW m \in Motions(P), NEW low \in Bounds,
         NEW at \in [Axes -> Int], NEW timed \in BOOLEAN
  PROVE  /\ GoTo(m, low, at, timed) \in Motions(P)
         /\ PageFor(low, at) \in PageRecords(P) /\ IsPage(PageFor(low, at), low)
<1>1. PageFor(low, at) \in PageRecords(P) /\ IsPage(PageFor(low, at), low)
  BY PageForIsPage
<1>2. PageFor(low, at).pos \in Points(P)
  BY <1>1 DEF PageRecords
<1> QED
  BY <1>1, <1>2, ScrollToMoves DEF GoTo

LEMMA LiftKeeps ==
  ASSUME NEW P, Closed(P),
         ScrollTypes(P), PageInv, NEW quick, Catches(P, quick = "tick"), Lift(quick)
  PROVE  ScrollTypes(P)' /\ PageInv'
<1> DEFINE landed  == [motion EXCEPT !.inTransition = FALSE]
           round   == [a \in Axes |-> RoundPx(motion.pos[a])]
           rounded == ScrollTo(landed, round, FALSE, TRUE)
<1>1. /\ motion \in Motions(P) /\ touch \in Touches(P) /\ opts \in Options /\ maxScroll \in Bounds
      /\ dirn \in [Axes -> Int] /\ page \in PageRecords(P) /\ page.at \in [Axes -> Int]
  BY OptionsTypes DEF ScrollTypes, PageRecords
<1>2. landed \in Motions(P)
  BY <1>1, FlagsMove
<1>3. round \in Points(P)
  BY <1>1 DEF Motions, Points, Closed
<1> HIDE DEF landed, round
<1>4. rounded \in Motions(P)
  BY <1>1, <1>2, <1>3, ScrollToMoves
<1>5. touch' \in Touches(P)
  <2>1. [touch EXCEPT !.initiated = FALSE, !.ended = TRUE, !.untouched = FALSE] \in Touches(P)
    BY <1>1 DEF Touches
  <2> QED
    BY <2>1, KeptIsATouch DEF Lift
<1>6. UNCHANGED <<opts, size, maxScroll>> /\ UNCHANGED bar
  BY DEF Lift
<1>7. PICK k \in Progress :
        \/ Moves(ResetPosition(landed, maxScroll, TRUE), k) /\ UNCHANGED <<page, dirn>>
        \/ Moves(rounded, k) /\ UNCHANGED <<page, dirn>>
        \/ /\ page' = PageFor(maxScroll, Turned(page.at, dirn))
           /\ Moves(GoTo(rounded, maxScroll, Turned(page.at, dirn), TRUE), k)
           /\ UNCHANGED dirn
        \/ Release(rounded, quick, k)
  BY DEF Lift, landed, round
<1> HIDE DEF rounded
<1>8. CASE /\ \/ Moves(ResetPosition(landed, maxScroll, TRUE), k)
              \/ Moves(rounded, k)
           /\ UNCHANGED <<page, dirn>>
  <2>1. ResetPosition(landed, maxScroll, TRUE) \in Motions(P)
    BY <1>1, <1>2, ResetMoves
  <2>2. motion' \in Motions(P)
    BY <1>1, <1>4, <1>8, <2>1, MovesLeaveMotion
  <2> QED
    BY <1>1, <1>5, <1>6, <1>8, <2>2, InOrder
<1>9. CASE /\ page' = PageFor(maxScroll, Turned(page.at, dirn))
           /\ Moves(GoTo(rounded, maxScroll, Turned(page.at, dirn), TRUE), k)
           /\ UNCHANGED dirn
  <2>1. Turned(page.at, dirn) \in [Axes -> Int]
    BY <1>1, TurnedTypes
  <2>2. /\ GoTo(rounded, maxScroll, Turned(page.at, dirn), TRUE) \in Motions(P)
        /\ page' \in PageRecords(P) /\ IsPage(page', maxScroll)
    BY <1>1, <1>4, <1>9, <2>1, GoToMoves
  <2>3. motion' \in Motions(P)
    BY <1>1, <1>9, <2>2, MovesLeaveMotion
  <2> QED
    BY <1>1, <1>5, <1>6, <1>9, <2>2, <2>3, InOrder
<1>10. CASE Release(rounded, quick, k)
  BY <1>4, <1>5, <1>6, <1>10, ReleaseKeeps, InOrder
<1> QED
  BY <1>7, <1>8, <1>9, <1>10

-----------------------------------------------------------------------------
(* The end of movements                                                     *)

LEMMA TransitionEndKeeps ==
  ASSUME NEW P, Closed(P),
         ScrollTypes(P), PageInv, TransitionEnd
  PROVE  ScrollTypes(P)' /\ PageInv'
<1> DEFINE waited == motion.inTransition /\ ~destroyed
           over   == [motion EXCEPT !.from = None]
           still  == TransitionTime(over, FALSE)
           reset  == NeedsReset(still, maxScroll)
           after  == CASE ~waited          -> over
                       [] waited /\ reset  -> ResetPosition(still, maxScroll, TRUE)
                       [] waited /\ ~reset -> [still EXCEPT !.inTransition = FALSE]
<1>1. /\ motion \in Motions(P) /\ opts \in Options /\ maxScroll \in Bounds
      /\ touch \in Touches(P) /\ dirn \in [Axes -> Int]
  BY OptionsTypes DEF ScrollTypes
<1>2. over \in Motions(P)
  BY <1>1, FlagsMove
<1>3. still \in Motions(P)
  BY <1>2, FlagsMove
<1>4. motion' = Paint(over, after, Steps)
  BY DEF TransitionEnd
<1> HIDE DEF over, still
<1>5. /\ ResetPosition(still, maxScroll, TRUE) \in Motions(P)
      /\ [still EXCEPT !.inTransition = FALSE] \in Motions(P)
  BY <1>1, <1>3, ResetMoves, FlagsMove
<1>6. after \in Motions(P)
  <2> HIDE DEF reset, waited
  <2> QED
    BY <1>2, <1>5
<1> HIDE DEF after
<1>7. motion' \in Motions(P)
  BY <1>2, <1>4, <1>6, PaintMoves, Constants
<1>8. UNCHANGED <<opts, size, maxScroll, touch, dirn>> /\ UNCHANGED page /\ UNCHANGED bar
  BY DEF TransitionEnd
<1> QED
  BY <1>1, <1>7, <1>8, InOrder

Frames(P) == [from : Points(P), dest : Points(P), done : Nat]

LEMMA FramesMove ==
  ASSUME NEW P, Closed(P),
         NEW m \in Motions(P), m.frames # <<>>
  PROVE  LET rest == [m EXCEPT !.frames = Tail(m.frames)]
         IN  /\ Head(m.frames) \in Frames(P) /\ rest \in Motions(P)
             /\ \A i \in Nat :
                  [rest EXCEPT !.frames = Append(@, [Head(m.frames) EXCEPT !.done = i])]
                    \in Motions(P)
<1> DEFINE rest == [m EXCEPT !.frames = Tail(m.frames)]
<1>1. m.frames \in Seq(Frames(P))
  BY DEF Motions, Frames
<1>2. Head(m.frames) \in Frames(P) /\ Tail(m.frames) \in Seq(Frames(P))
  BY <1>1
<1>3. rest \in Motions(P)
  BY <1>2 DEF Motions, Frames
<1>4. ASSUME NEW i \in Nat
      PROVE  [rest EXCEPT !.frames = Append(rest.frames, [Head(m.frames) EXCEPT !.done = i])]
               \in Motions(P)
  <2>1. [Head(m.frames) EXCEPT !.done = i] \in Frames(P)
    BY <1>2 DEF Frames
  <2>2. rest.frames \in Seq(Frames(P))
    BY <1>3 DEF Motions, Frames
  <2> HIDE DEF rest
  <2>3. Append(rest.frames, [Head(m.frames) EXCEPT !.done = i]) \in Seq(Frames(P))
    BY <2>1, <2>2
  <2> QED
    BY <1>3, <2>3 DEF Motions, Frames
<1> QED
  BY <1>2, <1>3, <1>4

LEMMA AnimationFrameKeeps ==
  ASSUME NEW P, Closed(P),
         ScrollTypes(P), PageInv, AnimationFrame
  PROVE  ScrollTypes(P)' /\ PageInv'
<1> DEFINE step  == Head(motion.frames)
           rest  == [motion EXCEPT !.frames = Tail(motion.frames)]
           at(i) == [a \in Axes |-> Between(step.from[a], step.dest[a], i)]
           more(i) == [rest EXCEPT !.frames = Append(@, [step EXCEPT !.done = i])]
           ended == [rest EXCEPT !.isAnimating = FALSE]
           over  == Translate(ended, step.dest)
<1>1. /\ motion \in Motions(P) /\ opts \in Options /\ maxScroll \in Bounds
      /\ touch \in Touches(P) /\ dirn \in [Axes -> Int] /\ motion.frames # <<>>
  BY OptionsTypes DEF ScrollTypes, AnimationFrame
<1>2. /\ step \in Frames(P) /\ rest \in Motions(P)
      /\ \A i \in Nat : more(i) \in Motions(P)
  BY <1>1, FramesMove
<1>3. /\ UNCHANGED <<opts, size, maxScroll, touch, dirn>> /\ UNCHANGED page /\ UNCHANGED bar
      /\ \E k \in Progress :
           \/ \E i \in step.done + 1 .. Steps - 1 :
                Moves(Translate(IF motion.isAnimating THEN more(i) ELSE rest, at(i)), k)
           \/ Moves(ResetPosition(over, maxScroll, TRUE), k)
  BY DEF AnimationFrame
<1> HIDE DEF step, rest, more
<1>4. over \in Motions(P)
  BY <1>2, FlagsMove, TranslateMoves DEF Frames
<1>5. ResetPosition(over, maxScroll, TRUE) \in Motions(P)
  BY <1>1, <1>4, ResetMoves
<1>6. ASSUME NEW i \in step.done + 1 .. Steps - 1
      PROVE  Translate(IF motion.isAnimating THEN more(i) ELSE rest, at(i)) \in Motions(P)
  <2>1. i \in Nat /\ i \in 0 .. Steps
    BY <1>2, Constants DEF Frames
  <2>2. \A a \in Axes : step.from[a] \in P /\ step.dest[a] \in P
    BY <1>2 DEF Frames, Points
  <2>3. at(i) \in Points(P)
    BY <2>1, <2>2 DEF Points, Closed
  <2>4. (IF motion.isAnimating THEN more(i) ELSE rest) \in Motions(P)
    BY <1>2, <2>1
  <2> HIDE DEF at
  <2> QED
    BY <2>3, <2>4, TranslateMoves
<1> HIDE DEF over, at
<1>7. motion' \in Motions(P)
  BY <1>1, <1>3, <1>5, <1>6, MovesLeaveMotion
<1> QED
  BY <1>1, <1>3, <1>7, InOrder

-----------------------------------------------------------------------------
(* The wheel and the keyboard                                               *)

(* A record of two numbers is one number for each axis.                     *)
LEMMA PairTypes ==
  ASSUME NEW u \in Int, NEW v \in Int
  PROVE  [x |-> u, y |-> v] \in [Axes -> Int]
BY DEF Axes

LEMMA ClampedPoint ==
  ASSUME NEW P, Closed(P),
         NEW p \in Points(P), NEW d \in [Axes -> Int], NEW low \in Bounds
  PROVE  [a \in Axes |-> Clamp(Add(p[a], Px * d[a]), low[a])] \in Points(P)
<1>1. ASSUME NEW a \in Axes
      PROVE  Clamp(Add(p[a], Px * d[a]), low[a]) \in P
  <2>1. p[a] \in P /\ Px * d[a] \in Int
    BY Constants DEF Points
  <2> QED
    BY <2>1, ClampedPositions
<1> QED
  BY <1>1 DEF Points

LEMMA WheelKeeps ==
  ASSUME NEW P, Closed(P),
         ScrollTypes(P), PageInv, NEW turn \in opts.turns, Wheel(turn)
  PROVE  ScrollTypes(P)' /\ PageInv'
<1> DEFINE delta == IF Has(maxScroll, "y") THEN turn ELSE [x |-> turn["y"], y |-> 0]
           back  == [a \in Axes |-> -Sign(delta[a])]
           at    == Turned(page.at, back)
           move  == [a \in Axes |-> IF Has(maxScroll, a) THEN delta[a] ELSE 0]
           to    == [a \in Axes |-> Clamp(Add(motion.pos[a], IF Has(maxScroll, a)
                                                             THEN Px * delta[a] ELSE 0),
                                          maxScroll[a])]
<1>1. /\ motion \in Motions(P) /\ opts \in Options /\ maxScroll \in Bounds
      /\ touch \in Touches(P) /\ dirn \in [Axes -> Int] /\ page.at \in [Axes -> Int]
      /\ turn \in [Axes -> Int] /\ motion.pos \in Points(P)
  BY OptionsTypes, FlagsMove DEF ScrollTypes, PageRecords
<1>2. delta \in [Axes -> Int]
  BY <1>1, PairTypes DEF Axes
<1> HIDE DEF delta
<1>3. back \in [Axes -> Int] /\ move \in [Axes -> Int]
  BY <1>2, Signs
<1>4. to \in Points(P)
  <2>1. \A a \in Axes : Px * move[a] = IF Has(maxScroll, a) THEN Px * delta[a] ELSE 0
    BY <1>2, Constants
  <2>2. to = [a \in Axes |-> Clamp(Add(motion.pos[a], Px * move[a]), maxScroll[a])]
    BY <2>1
  <2> QED
    BY <1>1, <1>3, <2>2, ClampedPoint
<1>5. /\ UNCHANGED <<opts, size, maxScroll, touch>> /\ UNCHANGED bar
      /\ \E k \in Progress :
           \/ /\ page' = PageFor(maxScroll, at)
              /\ Moves(GoTo(motion, maxScroll, at, IsNumber(motion.pos)), k)
              /\ UNCHANGED dirn
           \/ /\ Moves(ScrollTo(motion, to, FALSE, TRUE), k)
              /\ dirn' = back
              /\ UNCHANGED page
  BY DEF Wheel, delta
<1> HIDE DEF back, to
<1>6. at \in [Axes -> Int]
  BY <1>1, <1>3, TurnedTypes
<1> HIDE DEF at
<1>7. IsNumber(motion.pos) \in BOOLEAN
  BY DEF IsNumber
<1>8. /\ GoTo(motion, maxScroll, at, IsNumber(motion.pos)) \in Motions(P)
      /\ PageFor(maxScroll, at) \in PageRecords(P) /\ IsPage(PageFor(maxScroll, at), maxScroll)
      /\ ScrollTo(motion, to, FALSE, TRUE) \in Motions(P)
  BY <1>1, <1>4, <1>6, <1>7, GoToMoves, ScrollToMoves
<1>9. /\ motion' \in Motions(P) /\ dirn' \in [Axes -> Int]
      /\ UNCHANGED page \/ (page' \in PageRecords(P) /\ IsPage(page', maxScroll))
  BY <1>1, <1>3, <1>5, <1>8, MovesLeaveMotion
<1> QED
  BY <1>1, <1>5, <1>9, InOrder

LEMMA KeyTypes ==
  ASSUME NEW P, Closed(P),
         ScrollTypes(P), NEW key \in Keys \ {"other"}, NEW step \in KeySteps
  PROVE  /\ KeyPage(key) \in [Axes -> Int]
         /\ key \notin {"home", "end"} => KeyDelta(key, step) \in [Axes -> Int]
<1> DEFINE paged == IF Has(maxScroll, "x") /\ ~Has(maxScroll, "y") THEN "x" ELSE "y"
           along(a, d) == [Nowhere EXCEPT ![a] = d]
           last == [a \in Axes |-> PageCount(maxScroll, a) - 1]
<1>1. /\ page.at \in [Axes -> Int] /\ maxScroll \in Bounds
      /\ paged \in Axes /\ step \in Int /\ -step \in Int
  BY IScrollAssumption DEF ScrollTypes, PageRecords, Axes
<1>2. Wrapper[paged] \in Int /\ -Wrapper[paged] \in Int
  BY <1>1, Constants
<1>3. last \in [Axes -> Int]
  BY <1>1, PagesReachBounds
<1>4. /\ key \in {"pageUp", "pageDown", "end", "home", "left", "up", "right", "down"}
  BY DEF Keys
<1> HIDE DEF paged, last
<1>5. \A a : \A d \in Int : Turned(page.at, along(a, d)) \in [Axes -> Int]
  BY <1>1, NowhereTypes, TurnedTypes
<1>6. KeyPage(key) \in {Turned(page.at, along(paged, 1)), Turned(page.at, along(paged, -1)),
                        Turned(page.at, along("x", 1)), Turned(page.at, along("x", -1)),
                        Turned(page.at, along("y", 1)), Turned(page.at, along("y", -1)),
                        last, Nowhere}
  BY <1>4 DEF KeyPage, paged, last
<1>7. KeyPage(key) \in [Axes -> Int]
  <2>1. 1 \in Int /\ -1 \in Int
    OBVIOUS
  <2> HIDE DEF along
  <2> QED
    BY <1>3, <1>5, <1>6, <2>1, NowhereTypes
<1>8. ASSUME key \notin {"home", "end"}
      PROVE  KeyDelta(key, step) \in [Axes -> Int]
  <2>1. KeyDelta(key, step) \in {along(paged, Wrapper[paged]), along(paged, -Wrapper[paged]),
                                 along("x", step), along("x", -step),
                                 along("y", step), along("y", -step)}
    BY <1>4, <1>8 DEF KeyDelta, paged
  <2>2. \A a : \A d \in Int : along(a, d) \in [Axes -> Int]
    BY NowhereTypes
  <2> HIDE DEF along
  <2> QED
    BY <1>1, <1>2, <2>1, <2>2
<1> QED
  BY <1>7, <1>8

LEMMA KeyKeeps ==
  ASSUME NEW P, Closed(P),
         ScrollTypes(P), PageInv, NEW key \in Keys, NEW step \in KeySteps, Key(key, step)
  PROVE  ScrollTypes(P)' /\ PageInv'
<1> DEFINE shown(k) == [a \in Axes |-> RoundPx(Shown(motion, k)[a])]
           stops(k) == IF opts.useTransition /\ motion.inTransition
                       THEN [motion EXCEPT !.inTransition = FALSE, !.pos = shown(k)]
                       ELSE motion
           to == CASE key = "home" -> Nowhere
                   [] key = "end"  -> maxScroll
                   [] OTHER -> [a \in Axes |-> Clamp(Add(motion.pos[a],
                                                         Px * KeyDelta(key, step)[a]),
                                                     maxScroll[a])]
<1>1. /\ motion \in Motions(P) /\ opts \in Options /\ maxScroll \in Bounds
      /\ touch \in Touches(P) /\ dirn \in [Axes -> Int] /\ motion.pos \in Points(P)
  BY OptionsTypes, FlagsMove DEF ScrollTypes
<1>2. PICK k \in Progress :
        \/ key = "other" /\ Moves(stops(k), k) /\ UNCHANGED page
        \/ /\ key # "other" /\ page' = PageFor(maxScroll, KeyPage(key))
           /\ Moves(GoTo(stops(k), maxScroll, KeyPage(key), IsNumber(stops(k).pos)), k)
        \/ /\ key # "other" /\ Moves(ScrollTo(stops(k), to, FALSE, TRUE), k)
           /\ UNCHANGED page
  BY DEF Key
<1>3. UNCHANGED <<opts, size, maxScroll, touch, dirn>> /\ UNCHANGED bar
  BY DEF Key
<1>4. stops(k) \in Motions(P)
  <2>1. k \in 0 .. Steps
    BY ProgressIsPart
  <2> QED
    BY <1>1, <2>1, StoppedMoves
<1>5. key # "other" => to \in Points(P)
  <2>1. maxScroll \in Points(P)
    BY <1>1, BoundIsAPoint
  <2>2. key \notin {"other", "home", "end"} =>
          [a \in Axes |-> Clamp(Add(motion.pos[a], Px * KeyDelta(key, step)[a]), maxScroll[a])]
            \in Points(P)
    BY <1>1, KeyTypes, ClampedPoint
  <2> QED
    BY <2>1, <2>2, NowhereTypes
<1> HIDE DEF stops, to
<1>6. CASE key = "other" /\ Moves(stops(k), k) /\ UNCHANGED page
  BY <1>1, <1>3, <1>4, <1>6, MovesLeaveMotion, InOrder
<1>7. CASE /\ key # "other" /\ page' = PageFor(maxScroll, KeyPage(key))
           /\ Moves(GoTo(stops(k), maxScroll, KeyPage(key), IsNumber(stops(k).pos)), k)
  <2>1. KeyPage(key) \in [Axes -> Int]
    BY <1>7, KeyTypes
  <2>2. IsNumber(stops(k).pos) \in BOOLEAN
    BY DEF IsNumber
  <2>3. /\ GoTo(stops(k), maxScroll, KeyPage(key), IsNumber(stops(k).pos)) \in Motions(P)
        /\ page' \in PageRecords(P) /\ IsPage(page', maxScroll)
    BY <1>1, <1>4, <1>7, <2>1, <2>2, GoToMoves
  <2>4. motion' \in Motions(P)
    BY <1>1, <1>7, <2>3, MovesLeaveMotion
  <2> QED
    BY <1>1, <1>3, <2>3, <2>4, InOrder
<1>8. CASE /\ key # "other" /\ Moves(ScrollTo(stops(k), to, FALSE, TRUE), k)
           /\ UNCHANGED page
  <2>1. ScrollTo(stops(k), to, FALSE, TRUE) \in Motions(P)
    BY <1>1, <1>4, <1>5, <1>8, ScrollToMoves
  <2>2. motion' \in Motions(P)
    BY <1>1, <1>8, <2>1, MovesLeaveMotion
  <2> QED
    BY <1>1, <1>3, <1>8, <2>2, InOrder
<1> QED
  BY <1>2, <1>6, <1>7, <1>8

-----------------------------------------------------------------------------
(* The window, the content and the page that uses the scroller              *)

(* The one handler that sets the bounds goes to a page within them, if      *)
(* there are pages.                                                        *)
LEMMA RefreshKeeps ==
  ASSUME NEW P, Closed(P),
         ScrollTypes(P), PageInv, Refresh
  PROVE  ScrollTypes(P)' /\ PageInv'
<1> DEFINE low == MaxScrollOf(opts, size)
           n   == IF opts.snap THEN GoTo(motion, low, page.at, FALSE) ELSE motion
<1>1. /\ motion \in Motions(P) /\ opts \in Options /\ opts \in Setups /\ size \in opts.contents
      /\ touch \in Touches(P) /\ page \in PageRecords(P) /\ page.at \in [Axes -> Int]
  BY OptionsTypes DEF ScrollTypes, PageRecords
<1>2. low \in Bounds
  BY <1>1, MaxScrollIsABound
<1>3. PICK k \in Progress : Moves(ResetPosition(n, low, FALSE), k)
  BY DEF Refresh
<1>4. /\ maxScroll' = low /\ dirn' = Nowhere
      /\ touch' = [touch EXCEPT !.ended = FALSE]
      /\ page' = IF opts.snap THEN PageFor(low, page.at) ELSE page
      /\ UNCHANGED <<opts, size, bar>>
  BY DEF Refresh
<1> HIDE DEF low
<1>5. /\ GoTo(motion, low, page.at, FALSE) \in Motions(P)
      /\ PageFor(low, page.at) \in PageRecords(P) /\ IsPage(PageFor(low, page.at), low)
  BY <1>1, <1>2, GoToMoves
<1>6. n \in Motions(P)
  BY <1>1, <1>5
<1> HIDE DEF n
<1>7. ResetPosition(n, low, FALSE) \in Motions(P)
  BY <1>1, <1>2, <1>6, ResetMoves
<1>8. motion' \in Motions(P)
  BY <1>1, <1>3, <1>7, MovesLeaveMotion
<1>9. touch' \in Touches(P)
  BY <1>1, <1>4 DEF Touches
<1>10. page' \in PageRecords(P) /\ (opts.snap => IsPage(page', low))
  BY <1>1, <1>4, <1>5
<1>11. dirn' \in [Axes -> Int]
  BY <1>4, NowhereTypes
<1>12. ScrollTypes(P)'
  BY <1>2, <1>4, <1>8, <1>9, <1>10, <1>11 DEF ScrollTypes
<1>13. PageInv'
  BY <1>4, <1>10 DEF PageInv
<1> QED
  BY <1>12, <1>13

LEMMA GoToPageKeeps ==
  ASSUME NEW P, Closed(P),
         ScrollTypes(P), PageInv, NEW at \in [Axes -> Int], NEW timed \in BOOLEAN,
         GoToPage(at, timed)
  PROVE  ScrollTypes(P)' /\ PageInv'
<1>1. /\ motion \in Motions(P) /\ opts \in Options /\ maxScroll \in Bounds
      /\ touch \in Touches(P) /\ dirn \in [Axes -> Int]
  BY OptionsTypes DEF ScrollTypes
<1>2. PICK k \in Progress : Moves(GoTo(motion, maxScroll, at, timed), k)
  BY DEF GoToPage
<1>3. /\ UNCHANGED <<opts, size, maxScroll, touch, dirn>> /\ UNCHANGED bar
      /\ page' = PageFor(maxScroll, at)
  BY DEF GoToPage
<1>4. /\ GoTo(motion, maxScroll, at, timed) \in Motions(P)
      /\ page' \in PageRecords(P) /\ IsPage(page', maxScroll)
  BY <1>1, <1>3, GoToMoves
<1>5. motion' \in Motions(P)
  BY <1>1, <1>2, <1>4, MovesLeaveMotion
<1> QED
  BY <1>1, <1>3, <1>4, <1>5, InOrder

LEMMA NeighbourKeeps ==
  ASSUME NEW P, Closed(P),
         ScrollTypes(P), PageInv, NextPage \/ PrevPage
  PROVE  ScrollTypes(P)' /\ PageInv'
<1>1. page.at \in [Axes -> Int] /\ page.at["x"] \in Int /\ page.at["y"] \in Int
  BY DEF ScrollTypes, PageRecords, Axes
<1>2. /\ [x |-> 0, y |-> page.at["y"] + 1] \in [Axes -> Int]
      /\ [x |-> 0, y |-> page.at["y"] - 1] \in [Axes -> Int]
  BY <1>1, PairTypes
<1>3. /\ [page.at EXCEPT !["x"] = @ + 1] \in [Axes -> Int]
      /\ [page.at EXCEPT !["x"] = @ - 1] \in [Axes -> Int]
  <2>1. page.at["x"] + 1 \in Int /\ page.at["x"] - 1 \in Int
    BY <1>1
  <2> QED
    BY <1>1, <2>1
<1>4. IsNumber(motion.pos) \in BOOLEAN
  BY DEF IsNumber
<1>5. CASE NextPage
  <2>1. \E at \in [Axes -> Int] : GoToPage(at, IsNumber(motion.pos))
    BY <1>2, <1>3, <1>5 DEF NextPage
  <2> QED
    BY <1>4, <2>1, GoToPageKeeps
<1>6. CASE PrevPage
  <2>1. \E at \in [Axes -> Int] : GoToPage(at, IsNumber(motion.pos))
    BY <1>2, <1>3, <1>6 DEF PrevPage
  <2> QED
    BY <1>4, <2>1, GoToPageKeeps
<1> QED
  BY <1>5, <1>6

LEMMA SendKeeps ==
  ASSUME NEW P, Closed(P),
         ScrollTypes(P), PageInv, NEW p \in Points(P), NEW timed \in BOOLEAN, NEW css,
         Send(p, timed, css)
  PROVE  ScrollTypes(P)' /\ PageInv'
<1>1. /\ motion \in Motions(P) /\ opts \in Options /\ touch \in Touches(P)
      /\ dirn \in [Axes -> Int]
  BY OptionsTypes DEF ScrollTypes
<1>2. /\ UNCHANGED <<opts, size, maxScroll, touch, dirn>> /\ UNCHANGED bar
      /\ UNCHANGED page
      /\ \E k \in Progress : Moves(ScrollTo(motion, p, timed, css), k)
  BY DEF Send
<1>3. motion' \in Motions(P)
  BY <1>1, <1>2, ScrollToMoves, MovesLeaveMotion
<1> QED
  BY <1>1, <1>2, <1>3, InOrder

(* What a call names is as near as the bound says; what is lost stays so.   *)
LEMMA RoomIsNear ==
  ASSUME maxScroll \in Bounds, NEW a \in Axes
  PROVE  Room(a) \subseteq Near
<1>1. /\ maxScroll[a] \in Int /\ maxScroll[a] <= 0
      /\ -(Far - Px) <= maxScroll[a] - Px * Overshoot /\ Px * Overshoot \in Int
  BY Constants DEF Bounds
<1>2. ASSUME NEW p \in Room(a)
      PROVE  p \in Int /\ -(Far - Px) <= p /\ p <= Far - Px
  <2>1. p \in Int /\ maxScroll[a] - Px * Overshoot <= p /\ p <= Px * Overshoot
    BY <1>1, <1>2 DEF Room
  <2> QED
    BY <1>1, <2>1, Constants
<1> QED
  BY <1>2 DEF Near

LEMMA SendsKeep ==
  ASSUME NEW P, Closed(P), ScrollTypes(P), PageInv, NEW timed \in BOOLEAN, Sends(timed)
  PROVE  ScrollTypes(P)' /\ PageInv'
<1>1. /\ maxScroll \in Bounds /\ motion.pos \in Points(P)
      /\ opts.turns \subseteq [Axes -> Int] /\ Near \subseteq P
  BY OptionsTypes DEF ScrollTypes, Motions, Closed
<1>2. PICK way \in opts.turns : \E css \in {TRUE, ~opts.jsBounce} :
        \/ CallScrollTo(way, timed, css) \/ CallScrollBy(way, timed, css)
        \/ ScrollToElement(way, timed, css)
  BY DEF Sends, SendsAnywhere, SendsToElement
<1>3. ASSUME NEW css, CallScrollTo(way, timed, css)
      PROVE  ScrollTypes(P)' /\ PageInv'
  <2>1. [a \in Axes |-> Px * way[a]] \in Points(P)
    BY <1>1, <1>3, RoomIsNear DEF CallScrollTo, Points
  <2> QED
    BY <1>3, <2>1, SendKeeps DEF CallScrollTo
<1>4. ASSUME NEW css, CallScrollBy(way, timed, css)
      PROVE  ScrollTypes(P)' /\ PageInv'
  <2> DEFINE to == [a \in Axes |-> Add(motion.pos[a], Px * way[a])]
  <2>1. ASSUME NEW a \in Axes
        PROVE  to[a] \in P
    <3>1. CASE IsFinite(motion.pos[a])
      BY <1>1, <1>4, <3>1, RoomIsNear DEF CallScrollBy
    <3>2. CASE ~IsFinite(motion.pos[a])
      BY <1>1, <3>2 DEF Add, Points
    <3> QED
      BY <3>1, <3>2
  <2>2. to \in Points(P)
    BY <2>1 DEF Points
  <2>3. Send(to, timed, css)
    BY <1>4 DEF CallScrollBy
  <2> HIDE DEF to
  <2> QED
    BY <2>2, <2>3, SendKeeps
<1>5. ASSUME NEW css, ScrollToElement(way, timed, css)
      PROVE  ScrollTypes(P)' /\ PageInv'
  <2> DEFINE to == [a \in Axes |-> Clamp(Px * way[a], maxScroll[a])]
  <2>1. ASSUME NEW a \in Axes
        PROVE  to[a] \in P
    <3>1. Px * way[a] \in Int /\ Px * way[a] # NaN /\ Px * way[a] \in Position
      BY <1>1, Constants DEF Position
    <3>2. Clamp(Px * way[a], maxScroll[a]) \in Near
      BY <1>1, <3>1, BoundsAreNear, ClampedWithin
    <3> QED
      BY <1>1, <3>2
  <2>2. to \in Points(P)
    BY <2>1 DEF Points
  <2>3. Send(to, timed, css)
    BY <1>5 DEF ScrollToElement
  <2> HIDE DEF to
  <2> QED
    BY <2>2, <2>3, SendKeeps
<1> QED
  BY <1>2, <1>3, <1>4, <1>5

-----------------------------------------------------------------------------
(* The finger on the scrollbar                                              *)

LEMMA IndicatorIsWhole ==
  ASSUME NEW low \in Bounds, opts.bar \in Axes, NEW p \in Position
  PROVE  /\ MaxPos(low) \in Int
         /\ IndicatorPos(p, low) \in Int
<1> DEFINE w == Wrapper[opts.bar]
           l == low[opts.bar]
<1>1. w \in Nat \ {0} /\ l \in Int /\ l <= 0 /\ Px = 3
  BY Constants, BoundsAreNear
<1>2. ContentLength(low) \in Int /\ ContentLength(low) # 0
  BY <1>1 DEF ContentLength
<1>3. w * w * Px \in Int
  BY <1>1
<1>4. MaxPos(low) \in Int
  <2>1. RoundDiv(w * w * Px, ContentLength(low)) \in Int
    BY <1>2, <1>3, Roundings
  <2> QED
    BY <1>1, <2>1, Constants DEF MaxPos, IndicatorSize, Larger
<1>5. ASSUME p # NaN, l # 0
      PROVE  RoundDiv(MaxPos(low) * (-p), -l) \in Int
  <2>1. p \in Int
    BY <1>5 DEF Position
  <2>2. -l \in Int /\ -l # 0
    BY <1>1, <1>5
  <2>3. -p \in Int
    BY <2>1
  <2>4. MaxPos(low) * (-p) \in Int
    BY <1>4, <2>3
  <2> QED
    BY <2>2, <2>4, Roundings
<1> QED
  BY <1>4, <1>5 DEF IndicatorPos

(* What is rounded between a whole number and 0 stays there.                *)
LEMMA RoundedPart ==
  ASSUME NEW r \in Nat \ {0}, NEW n \in Int, NEW l \in Int, r * l <= n, n <= 0
  PROVE  LET q == (2 * n + r) \div (2 * r)
         IN  q \in Int /\ l <= q /\ q <= 0
<1> DEFINE m == 2 * n + r
           c == 2 * r
           q == m \div c
<1>1. /\ m \in Int /\ c \in Nat \ {0} /\ m < c /\ r * l \in Int
      /\ 2 * (r * l) < m
  OBVIOUS
<1>2. c * l = 2 * (r * l) /\ c * l \in Int
  BY SMT
<1>3. c * l < m
  BY <1>1, <1>2
<1> HIDE DEF m, c
<1>4. q \in Int /\ q * c <= m /\ m < q * c + c
  <2>1. q \in Int
    BY <1>1, SMT
  <2>2. q * c <= m
    BY <1>1, SMT
  <2>3. m < q * c + c
    BY <1>1, SMT
  <2> QED
    BY <2>1, <2>2, <2>3
<1> HIDE DEF q
<1>5. q <= 0
  <2> SUFFICES ASSUME q >= 1 PROVE FALSE
    BY <1>4
  <2>1. c <= q * c
    BY <1>1, <1>4, SMT
  <2> QED
    BY <1>1, <1>4, <2>1
<1>6. l <= q
  <2> SUFFICES ASSUME q + 1 <= l PROVE FALSE
    BY <1>4
  <2>1. (q + 1) * c <= c * l
    BY <1>1, <1>4, SMT
  <2>2. (q + 1) * c = q * c + c /\ q * c \in Int
    BY <1>1, <1>4, SMT
  <2> QED
    BY <1>1, <1>2, <1>3, <1>4, <2>1, <2>2
<1> QED
  BY <1>4, <1>5, <1>6 DEF q, m, c

(* Where the scrollbar sends the scroller: to between the bounds, or, if it *)
(* has no room or there is nothing to scroll, to where nothing is.          *)
LEMMA FollowedPositions ==
  ASSUME NEW low \in Bounds, opts.bar \in Axes, NEW i \in Int
  PROVE  /\ FollowIndicator(i, low) \in Position
         /\ FollowIndicator(i, low) = NaN
              \/ (low[opts.bar] <= FollowIndicator(i, low) /\ FollowIndicator(i, low) <= 0)
         /\ MaxPos(low) # 0 /\ Has(low, opts.bar) => FollowIndicator(i, low) \in Near
<1> DEFINE room == MaxPos(low)
           l == low[opts.bar]
           x == IF i < 0 THEN 0 ELSE IF i > room THEN room ELSE i
           t == l \div Px
           to == Px * RoundDiv(x * t, room)
<1>1. /\ l \in Int /\ l <= 0 /\ room \in Int
      /\ \A p \in Int : l <= p /\ p <= 0 => p \in Near
      /\ l % Px = 0
  <2>1. room \in Int
    BY IndicatorIsWhole, NearIsFinite
  <2> QED
    BY <2>1, BoundsAreNear DEF Bounds
<1>2. FollowIndicator(i, low) = IF room = 0 \/ l = 0 THEN NaN ELSE to
  BY DEF FollowIndicator
<1>3. Has(low, opts.bar) => l < 0
  BY DEF Has
<1> HIDE DEF room, l
<1>4. /\ x \in Int /\ t \in Int /\ t <= 0 /\ Px * t = l
  BY <1>1, Constants
<1>5. /\ room > 0 => 0 <= x /\ x <= room
      /\ room < 0 => x <= 0 /\ room <= x
  BY <1>1
<1> HIDE DEF x, t
<1>6. x * t \in Int /\ room * t \in Int
  BY <1>1, <1>4
<1>7. (to \in Int /\ l <= to /\ to <= 0) \/ room = 0
  <2> DEFINE q == RoundDiv(x * t, room)
  <2>1. CASE room > 0
    <3>1. room * t <= x * t /\ x * t <= 0
      BY <1>1, <1>4, <1>5, <2>1, SMT
    <3>2. q = (2 * (x * t) + room) \div (2 * room)
      BY <2>1 DEF RoundDiv
    <3>3. q \in Int /\ t <= q /\ q <= 0
      BY <1>1, <1>4, <1>6, <2>1, <3>1, <3>2, RoundedPart
    <3> HIDE DEF q
    <3> QED
      BY <1>4, <3>3, Constants DEF q
  <2>2. CASE room < 0
    <3> DEFINE w == -room
               n == -(x * t)
    <3>1. w \in Nat \ {0} /\ n \in Int
      BY <1>1, <1>6, <2>2
    <3>2. w * t = -(room * t)
      BY <1>1, <1>4, SMT
    <3>3. x * t <= room * t /\ 0 <= x * t
      BY <1>1, <1>4, <1>5, <2>2, SMT
    <3>4. w * t <= n /\ n <= 0
      BY <1>6, <3>2, <3>3
    <3>5. q = (2 * n + w) \div (2 * w)
      <4>1. -2 * (x * t) - room = 2 * n + w /\ -2 * room = 2 * w
        BY <1>1, <1>6
      <4> QED
        BY <2>2, <4>1, <1>1 DEF RoundDiv
    <3> HIDE DEF w, n
    <3>6. q \in Int /\ t <= q /\ q <= 0
      BY <1>4, <3>1, <3>4, <3>5, RoundedPart
    <3> HIDE DEF q
    <3> QED
      BY <1>4, <3>6, Constants DEF q
  <2> QED
    BY <1>1, <2>1, <2>2
<1> HIDE DEF to
<1>8. room = 0 \/ to \in Near
  BY <1>1, <1>7
<1>9. FollowIndicator(i, low) \in Position
  BY <1>2, <1>8, NearIsFinite DEF Position
<1>10. FollowIndicator(i, low) = NaN
         \/ (l <= FollowIndicator(i, low) /\ FollowIndicator(i, low) <= 0)
  BY <1>2, <1>7
<1> QED
  BY <1>1, <1>2, <1>3, <1>8, <1>9, <1>10 DEF room, l

LEMMA BarMoveKeeps ==
  ASSUME NEW P, Closed(P),
         ScrollTypes(P), PageInv, NEW d \in opts.drags, BarMove(d),
         P = Position \/ (P = Near /\ ~BarIsStuck)
  PROVE  ScrollTypes(P)' /\ PageInv'
<1> DEFINE at == IndicatorPos(motion.pos[opts.bar], maxScroll) + d[opts.bar]
           to == [motion.pos EXCEPT ![opts.bar] = FollowIndicator(at, maxScroll)]
<1>1. /\ motion \in Motions(P) /\ opts \in Options /\ maxScroll \in Bounds
      /\ touch \in Touches(P) /\ dirn \in [Axes -> Int] /\ d \in [Axes -> Int]
      /\ motion.pos \in Points(P)
      /\ bar \in Bars
  BY OptionsTypes, FlagsMove DEF ScrollTypes
<1>2. opts.bar \in Axes
  BY DEF ScrollTypes, BarMove
<1>3. motion.pos[opts.bar] \in Position /\ d[opts.bar] \in Int
  BY <1>1, <1>2 DEF Points, Closed
<1>4. at \in Int
  BY <1>1, <1>2, <1>3, IndicatorIsWhole
<1>5. /\ UNCHANGED <<opts, size, maxScroll, touch, dirn>> /\ UNCHANGED page
      /\ bar' = [bar EXCEPT !.moved = TRUE]
      /\ \E k \in Progress : Moves(ScrollTo(motion, to, FALSE, TRUE), k)
  BY DEF BarMove
<1> HIDE DEF at
<1>6. to \in Points(P)
  <2>1. FollowIndicator(at, maxScroll) \in P
    BY <1>1, <1>2, <1>4, FollowedPositions DEF BarMove, BarIsStuck
  <2> QED
    BY <1>1, <2>1 DEF Points
<1> HIDE DEF to
<1>7. motion' \in Motions(P)
  BY <1>1, <1>5, <1>6, ScrollToMoves, MovesLeaveMotion
<1>8. bar' \in Bars
  BY <1>1, <1>5 DEF Bars
<1> QED
  BY <1>1, <1>2, <1>5, <1>7, <1>8, InOrder

LEMMA BarUpKeeps ==
  ASSUME NEW P, Closed(P),
         ScrollTypes(P), PageInv, BarUp
  PROVE  ScrollTypes(P)' /\ PageInv'
<1> DEFINE snap   == NearestSnap(motion.pos, maxScroll, touch.absStart, dirn, page)
           throws == opts.snap /\ SnapThrows(motion.pos, maxScroll, snap)
           snaps  == opts.snap /\ (snap.pos # motion.pos \/ ~IsNumber(motion.pos))
<1>1. /\ motion \in Motions(P) /\ opts \in Options /\ maxScroll \in Bounds
      /\ touch \in Touches(P) /\ dirn \in [Axes -> Int] /\ motion.pos \in Points(P)
      /\ page \in PageRecords(P)
      /\ bar \in Bars /\ opts.bar \in Axes
  BY OptionsTypes, FlagsMove DEF ScrollTypes, BarUp
<1>2. /\ UNCHANGED <<opts, size, maxScroll, touch>>
      /\ bar' = [bar EXCEPT !.held = FALSE, !.down = FALSE]
      /\ \/ /\ snaps /\ ~throws /\ dirn' = Nowhere /\ page' = snap
            /\ \E k \in Progress :
                 Moves(ScrollTo(motion, snap.pos, IsNumber(snap.pos), ~opts.jsBounce), k)
         \/ UNCHANGED <<motion, dirn, page>>
  BY DEF BarUp
<1>3. bar' \in Bars
  BY <1>1, <1>2 DEF Bars
<1>4. CASE UNCHANGED <<motion, dirn, page>>
  BY <1>1, <1>2, <1>3, <1>4, InOrder
<1>5. CASE /\ snaps /\ ~throws /\ dirn' = Nowhere /\ page' = snap
           /\ \E k \in Progress :
                Moves(ScrollTo(motion, snap.pos, IsNumber(snap.pos), ~opts.jsBounce), k)
  <2>1. snap \in PageRecords(P) /\ IsPage(snap, maxScroll)
    BY <1>1, <1>5, SnapIsPage DEF PageInv
  <2> HIDE DEF snap
  <2>2. snap.pos \in Points(P) /\ IsNumber(snap.pos) \in BOOLEAN
    BY <2>1 DEF PageRecords, IsNumber
  <2>3. motion' \in Motions(P)
    BY <1>1, <1>5, <2>2, ScrollToMoves, MovesLeaveMotion
  <2>4. dirn' \in [Axes -> Int]
    BY <1>5, NowhereTypes
  <2> QED
    BY <1>1, <1>2, <1>3, <1>5, <2>1, <2>3, <2>4, InOrder
<1> QED
  BY <1>2, <1>4, <1>5

(* The handlers that leave the scroller where it is, and its page.          *)
LEMMA OthersKeep ==
  ASSUME NEW P, Closed(P),
         ScrollTypes(P), PageInv,
         \/ WheelTimeout \/ FadeTimeout \/ Resize \/ Switch \/ Destroy
         \/ BarDown \/ ContentChanges \/ FingerLost \/ BarFingerLost
  PROVE  ScrollTypes(P)' /\ PageInv'
<1>1. /\ motion \in Motions(P) /\ touch \in Touches(P) /\ dirn \in [Axes -> Int]
      /\ bar \in Bars
      /\ opts.bar # "none" => opts.bar \in Axes
      /\ bar.held => opts.bar \in Axes
  BY OptionsTypes DEF ScrollTypes
<1>2. CASE WheelTimeout \/ FadeTimeout \/ Resize \/ Switch
  BY <1>1, <1>2, InOrder DEF WheelTimeout, FadeTimeout, Resize, Switch
<1>3. CASE Destroy
  <2>1. bar' \in Bars /\ ~bar'.held
    BY <1>1, <1>3 DEF Destroy, Bars
  <2> QED
    BY <1>1, <1>3, <2>1, InOrder DEF Destroy
<1>4. CASE BarDown
  <2>1. bar' \in Bars /\ opts.bar \in Axes
    BY <1>1, <1>4 DEF BarDown, Bars
  <2> QED
    BY <1>1, <1>4, <2>1, InOrder DEF BarDown
<1>5. CASE ContentChanges
  <2>1. /\ UNCHANGED <<opts, maxScroll, motion, touch, dirn, page, bar>>
        /\ size' \in opts.contents
    BY <1>5 DEF ContentChanges
  <2>2. ScrollTypes(P)'
    BY <2>1 DEF ScrollTypes
  <2>3. PageInv'
    BY <2>1 DEF PageInv
  <2> QED
    BY <2>2, <2>3
<1>6. CASE FingerLost
  <2>1. touch' \in Touches(P)
    BY <1>1, <1>6 DEF FingerLost, Touches
  <2> QED
    BY <1>1, <1>6, <2>1, InOrder DEF FingerLost
<1>7. CASE BarFingerLost
  <2>1. bar' \in Bars /\ bar'.held = bar.held
    BY <1>1, <1>7 DEF BarFingerLost, Bars
  <2> QED
    BY <1>1, <1>7, <2>1, InOrder DEF BarFingerLost
<1> QED
  BY <1>2, <1>3, <1>4, <1>5, <1>6, <1>7

LEMMA StepsKeepOrder ==
  ASSUME NEW P, Closed(P), ScrollTypes(P), PageInv, [Next]_vars,
         P = Position \/ (P = Near /\ ~PointerUp("tick") /\ ~BarIsStuck)
  PROVE  ScrollTypes(P)' /\ PageInv'
<1>1. CASE ByItself
  <2>1. CASE TransitionEnd
    BY <2>1, TransitionEndKeeps
  <2>2. CASE AnimationFrame
    BY <2>2, AnimationFrameKeeps
  <2>3. CASE ResizeTimeout
    BY <2>3, RefreshKeeps DEF ResizeTimeout
  <2>4. CASE WheelTimeout \/ FadeTimeout
    BY <2>4, OthersKeep
  <2> QED
    BY <1>1, <2>1, <2>2, <2>3, <2>4 DEF ByItself
<1>2. CASE UsePointer
  <2>1. CASE PointerDown
    BY <2>1, PointerDownKeeps
  <2>2. CASE \E d \in opts.drags : \E recent, late \in BOOLEAN : PointerMove(d, recent, late)
    BY <2>2, PointerMoveKeeps
  <2>3. CASE \E quick \in {"tick", "flick", "short", "long"} : PointerUp(quick)
    <3>1. PICK quick \in {"tick", "flick", "short", "long"} : PointerUp(quick)
      BY <2>3
    <3>2. Catches(P, quick = "tick")
      BY <3>1 DEF Catches
    <3> QED
      BY <3>1, <3>2, LiftKeeps DEF PointerUp
  <2>4. CASE BarDown \/ FingerLost \/ BarFingerLost
    BY <2>4, OthersKeep
  <2>5. CASE \E d \in opts.drags : BarMove(d)
    BY <2>5, BarMoveKeeps
  <2>6. CASE BarUp
    BY <2>6, BarUpKeeps
  <2>7. CASE UntouchedCancel
    <3>1. Lift("long") /\ Catches(P, "long" = "tick")
      BY <2>7 DEF UntouchedCancel, Catches
    <3> QED
      BY <3>1, LiftKeeps
  <2> QED
    BY <1>2, <2>1, <2>2, <2>3, <2>4, <2>5, <2>6, <2>7 DEF UsePointer
<1>3. CASE UseKeys
  BY <1>3, KeyKeeps DEF UseKeys
<1>4. CASE UsePage
  <2>1. CASE Resize \/ ContentChanges \/ Switch \/ Destroy
    BY <2>1, OthersKeep
  <2>2. CASE CallRefresh
    BY <2>2, RefreshKeeps DEF CallRefresh
  <2>3. CASE NextPage \/ PrevPage
    BY <2>3, NeighbourKeeps
  <2>4. CASE \E turn \in opts.turns : Wheel(turn)
    BY <2>4, WheelKeeps
  <2>5. CASE \E timed \in BOOLEAN : Sends(timed)
    BY <2>5, SendsKeep
  <2> QED
    BY <1>4, <2>1, <2>2, <2>3, <2>4, <2>5 DEF UsePage
<1>5. CASE UNCHANGED vars
  <2>1. ScrollTypes(P)'
    BY <1>5 DEF ScrollTypes, vars
  <2>2. PageInv'
    BY <1>5 DEF PageInv, vars
  <2> QED
    BY <2>1, <2>2
<1> QED
  BY <1>1, <1>2, <1>3, <1>4, <1>5 DEF Next

-----------------------------------------------------------------------------
(* A scroller that is located is one whose positions are not lost.          *)

LEMMA NearIsInReach ==
  ASSUME NEW p \in Position
  PROVE  InReach(p) <=> p \in Near
BY Constants DEF InReach, IsFinite, Magnitude, Near, Position

LEMMA LocatedIsNear ==
  ASSUME ScrollTypes(Position)
  PROVE  Located <=> ScrollTypes(Near)
<1>1. /\ motion \in Motions(Position) /\ touch \in Touches(Position)
      /\ page \in PageRecords(Position)
      /\ \A a \in Axes : /\ motion.pos[a] \in Position /\ touch.start[a] \in Position
                         /\ page.pos[a] \in Position
      /\ motion.from # None => motion.from \in Points(Position)
      /\ motion.frames \in Seq(Frames(Position))
  BY DEF ScrollTypes, Motions, Touches, PageRecords, Points, Frames
<1>2. \A i \in DOMAIN motion.frames :
        /\ motion.frames[i] \in Frames(Position)
        /\ \A a \in Axes : /\ motion.frames[i].from[a] \in Position
                           /\ motion.frames[i].dest[a] \in Position
  <2>1. \A i \in DOMAIN motion.frames : motion.frames[i] \in Frames(Position)
    BY <1>1
  <2> QED
    BY <2>1 DEF Frames, Points
<1>3. ASSUME Located
      PROVE  ScrollTypes(Near)
  <2>1. motion.pos \in Points(Near) /\ touch.start \in Points(Near) /\ page.pos \in Points(Near)
    BY <1>1, <1>3, NearIsInReach DEF Located, Points, Motions, Touches, PageRecords
  <2>2. motion.from \in Points(Near) \union {None}
    BY <1>1, <1>3, NearIsInReach DEF Located, Points
  <2>3. ASSUME NEW i \in DOMAIN motion.frames
        PROVE  motion.frames[i] \in Frames(Near)
    <3>1. motion.frames[i].from \in Points(Near) /\ motion.frames[i].dest \in Points(Near)
      BY <1>2, <1>3, <2>3, NearIsInReach DEF Located, Points, Frames
    <3> QED
      BY <1>2, <2>3, <3>1 DEF Frames
  <2>4. motion.frames \in Seq(Frames(Near))
    BY <1>1, <2>3
  <2>5. motion \in Motions(Near)
    BY <1>1, <2>1, <2>2, <2>4 DEF Motions, Frames
  <2>6. touch \in Touches(Near) /\ page \in PageRecords(Near)
    BY <1>1, <2>1 DEF Touches, PageRecords
  <2> QED
    BY <2>5, <2>6 DEF ScrollTypes
<1>4. ASSUME ScrollTypes(Near)
      PROVE  Located
  <2>1. /\ motion.pos \in Points(Near) /\ touch.start \in Points(Near)
        /\ page.pos \in Points(Near)
        /\ motion.from # None => motion.from \in Points(Near)
        /\ motion.frames \in Seq(Frames(Near))
    BY <1>4 DEF ScrollTypes, Motions, Touches, PageRecords, Frames
  <2>2. \A i \in DOMAIN motion.frames : /\ motion.frames[i].from \in Points(Near)
                                        /\ motion.frames[i].dest \in Points(Near)
    <3>1. \A i \in DOMAIN motion.frames : motion.frames[i] \in Frames(Near)
      BY <2>1
    <3> QED
      BY <3>1 DEF Frames
  <2>3. \A p \in Near : InReach(p)
    BY NearIsFinite, NearIsInReach
  <2> QED
    BY <2>1, <2>2, <2>3 DEF Located, Points
<1> QED
  BY <1>3, <1>4

(* Positions are positions, whatever moves the scroller: the fields of the  *)
(* object and the frames that are waited for keep their types, and the      *)
(* bounds are never positive.                                              *)
THEOREM ScrollerTypes == Spec => []ScrollTypes(Position)
<1>1. Init => ScrollTypes(Position) /\ PageInv
  BY StartsInOrder, PositionIsClosed
<1>2. ScrollTypes(Position) /\ PageInv /\ [Next]_vars => ScrollTypes(Position)' /\ PageInv'
  BY StepsKeepOrder, PositionIsClosed
<1> QED
  BY <1>1, <1>2, PTL DEF Spec

(* currentPage is a page that exists and is where its position says, for    *)
(* every window, content and set of options; or the row after the last,     *)
(* when the position was lost; and never a column that does not exist.      *)
THEOREM CurrentPageExists == Spec => []PageExists
<1>1. Init => ScrollTypes(Position) /\ PageInv
  BY StartsInOrder, PositionIsClosed
<1>2. ScrollTypes(Position) /\ PageInv /\ [Next]_vars => ScrollTypes(Position)' /\ PageInv'
  BY StepsKeepOrder, PositionIsClosed
<1>3. PageInv => PageExists
  BY DEF PageInv, PageExists, IsPage, Exists, LostRow
<1> QED
  BY <1>1, <1>2, <1>3, PTL DEF Spec

(* While every position that a handler could read is a number, every        *)
(* handler leaves numbers, but for the release of a finger in the tick in   *)
(* which its drag began and a scrollbar that has no room, or nothing to     *)
(* scroll.                                                                  *)
THEOREM NumbersStayNumbers == Spec => NumbersComeFromNumbers
<1> DEFINE Step == Located /\ ~Located' => PointerUp("tick") \/ BarIsStuck
<1>1. Init => ScrollTypes(Position) /\ PageInv
  BY StartsInOrder, PositionIsClosed
<1>2. ScrollTypes(Position) /\ PageInv /\ [Next]_vars => ScrollTypes(Position)' /\ PageInv'
  BY StepsKeepOrder, PositionIsClosed
<1>3. ScrollTypes(Position)' => (Located' <=> ScrollTypes(Near)')
  <2>1. ScrollTypes(Position) => (Located <=> ScrollTypes(Near))
    BY LocatedIsNear
  <2> QED
    BY <2>1, PTL
<1>4. ASSUME ScrollTypes(Position), PageInv, [Next]_vars
      PROVE  Step
  <2> SUFFICES ASSUME Located, ~PointerUp("tick"), ~BarIsStuck
               PROVE  Located'
    OBVIOUS
  <2>1. ScrollTypes(Near)
    BY <1>4, LocatedIsNear
  <2>2. ScrollTypes(Near)'
    BY <1>4, <2>1, StepsKeepOrder, NearIsClosed
  <2>3. ScrollTypes(Position)'
    BY <1>2, <1>4
  <2> QED
    BY <1>3, <2>2, <2>3
<1>5. ScrollTypes(Position) /\ PageInv /\ [Next]_vars => [Step]_vars
  BY <1>4
<1> HIDE DEF Step
<1>6. Spec => [][Step]_vars
  BY <1>1, <1>2, <1>5, PTL DEF Spec
<1> QED
  BY <1>6 DEF NumbersComeFromNumbers, Step

-----------------------------------------------------------------------------
(* Who brings the content back.  A handler that sends the scroller to       *)
(* anywhere, with no frame to come, sends it to between the bounds, or to   *)
(* where nothing is; only a throw goes out of bounds.                       *)

InBounds(p, low) == \A a \in Axes : p[a] \in Int /\ low[a] <= p[a] /\ p[a] <= 0

Placed(p, low) == AllFinite(p) => InBounds(p, low)

Safe(m, low) == Placed(m.pos, low) \/ m.frames # <<>>

LEMMA ResetTargetIsPlaced ==
  ASSUME NEW p \in Points(Position), NEW low \in Bounds
  PROVE  Placed(ResetTarget(p, low), low)
<1>1. ASSUME NEW a \in Axes, IsFinite(ResetTarget(p, low)[a])
      PROVE  LET q == ResetTarget(p, low)[a] IN q \in Int /\ low[a] <= q /\ q <= 0
  <2>1. p[a] \in Position /\ low[a] \in Int /\ low[a] <= 0
    BY BoundsAreNear DEF Points
  <2>2. ResetTarget(p, low)[a] = IF ~Has(low, a) THEN 0 ELSE Clamp(p[a], low[a])
    BY DEF ResetTarget
  <2>3. CASE ~Has(low, a)
    BY <2>1, <2>2, <2>3 DEF Has
  <2>4. CASE Has(low, a)
    <3>1. ResetTarget(p, low)[a] = Clamp(p[a], low[a]) /\ Clamp(p[a], low[a]) # NaN
      BY <1>1, <2>2, <2>4 DEF IsFinite
    <3>2. p[a] # NaN
      BY <2>1, <3>1, ClampedWithin
    <3> QED
      BY <2>1, <3>1, <3>2, ClampedWithin
  <2> QED
    BY <2>3, <2>4
<1> QED
  BY <1>1 DEF Placed, AllFinite, InBounds

(* resetPosition has something to do exactly where the position is not      *)
(* between the bounds.                                                      *)
LEMMA ResetIsOfOutside ==
  ASSUME NEW m \in Motions(Position), NEW low \in Bounds
  PROVE  /\ InBounds(m.pos, low) => ~NeedsReset(m, low) /\ AllFinite(m.pos)
         /\ ~NeedsReset(m, low) => InBounds(m.pos, low)
<1>1. /\ m.pos \in Points(Position)
      /\ \A a \in Axes : /\ low[a] \in Int /\ low[a] <= 0 /\ low[a] \in Near
                         /\ m.pos[a] \in Position
      /\ ResetTarget(m.pos, low) \in [Axes -> Position]
  <2>1. m.pos \in Points(Position)
    BY DEF Motions
  <2>2. \A a \in Axes : low[a] \in Int /\ low[a] <= 0 /\ low[a] \in Near /\ m.pos[a] \in Position
    BY <2>1, BoundsAreNear DEF Points
  <2>3. \A a \in Axes : Clamp(m.pos[a], low[a]) \in Position
    BY <2>2, Numbers
  <2> QED
    BY <2>1, <2>2, <2>3 DEF ResetTarget, Position
<1>2. \A a \in Axes :
        ResetTarget(m.pos, low)[a] = IF ~Has(low, a) THEN 0 ELSE Clamp(m.pos[a], low[a])
  BY DEF ResetTarget
<1>3. ASSUME InBounds(m.pos, low)
      PROVE  ~NeedsReset(m, low) /\ AllFinite(m.pos)
  <2>1. ASSUME NEW a \in Axes
        PROVE  /\ ResetTarget(m.pos, low)[a] = m.pos[a] /\ m.pos[a] # NaN
               /\ IsFinite(m.pos[a])
    <3>1. /\ m.pos[a] \in Int /\ low[a] <= m.pos[a] /\ m.pos[a] <= 0
          /\ low[a] \in Int /\ low[a] <= 0
      BY <1>1, <1>3 DEF InBounds
    <3>2. m.pos[a] \in Near
      BY <1>1, <3>1, BoundsAreNear
    <3> QED
      BY <1>2, <3>1, <3>2, NearIsFinite DEF Has, Clamp, Above, Below
  <2>2. ResetTarget(m.pos, low) = m.pos
    BY <1>1, <2>1 DEF Points
  <2> QED
    BY <2>1, <2>2 DEF NeedsReset, AllFinite
<1>4. ASSUME ~NeedsReset(m, low)
      PROVE  InBounds(m.pos, low)
  <2>1. /\ ResetTarget(m.pos, low) = m.pos
        /\ \A a \in Axes : m.pos[a] # NaN
    BY <1>4 DEF NeedsReset
  <2>2. ASSUME NEW a \in Axes
        PROVE  m.pos[a] \in Int /\ low[a] <= m.pos[a] /\ m.pos[a] <= 0
    <3>1. CASE Has(low, a)
      <4>1. m.pos[a] = Clamp(m.pos[a], low[a]) /\ m.pos[a] # NaN
        BY <1>2, <2>1, <3>1
      <4> QED
        BY <1>1, <4>1, ClampedWithin
    <3>2. CASE ~Has(low, a)
      <4>1. m.pos[a] = 0
        BY <1>2, <2>1, <3>2
      <4> QED
        BY <1>1, <4>1
    <3> QED
      BY <3>1, <3>2
  <2> QED
    BY <2>2 DEF InBounds
<1> QED
  BY <1>3, <1>4

LEMMA SafeIsNotStranded ==
  ScrollTypes(Position) /\ Safe(motion, maxScroll) => ~Stranded
<1> SUFFICES ASSUME ScrollTypes(Position), Safe(motion, maxScroll), Stranded
             PROVE  FALSE
  OBVIOUS
<1>1. motion \in Motions(Position) /\ maxScroll \in Bounds
  BY DEF ScrollTypes
<1>2. Placed(motion.pos, maxScroll) /\ NeedsReset(motion, maxScroll) /\ AllFinite(motion.pos)
  BY DEF Safe, Stranded, WillReset
<1> QED
  BY <1>1, <1>2, ResetIsOfOutside DEF Placed

(* What the parts of a handler leave.                                       *)
LEMMA PaintKeeps ==
  ASSUME NEW m, NEW n \in Motions(Position), NEW k
  PROVE  /\ Paint(m, n, k).pos = n.pos /\ Paint(m, n, k).frames = n.frames
         /\ Paint(m, n, k).inTransition = n.inTransition
<1>1. \A f : LET x == [n EXCEPT !.from = f]
             IN  x.pos = n.pos /\ x.frames = n.frames /\ x.inTransition = n.inTransition
  BY DEF Motions
<1>2. \E f : Paint(m, n, k) = [n EXCEPT !.from = f]
  BY DEF Paint
<1> QED
  BY <1>1, <1>2

LEMMA MovesSafely ==
  ASSUME NEW n \in Motions(Position), NEW k, NEW low, Moves(n, k), Safe(n, low)
  PROVE  Safe(motion', low)
BY PaintKeeps DEF Moves, Safe

LEMMA AnimateWaits ==
  ASSUME NEW n \in Motions(Position), NEW p
  PROVE  Animate(n, p).frames # <<>>
<1>1. n.frames \in Seq(Frames(Position))
  BY DEF Motions, Frames
<1>2. Animate(n, p).frames = Append(n.frames, [from |-> n.pos, dest |-> p, done |-> 0])
  BY Zenon DEF Animate, Motions
<1>3. \A e : Append(n.frames, e) # <<>>
  BY <1>1
<1> QED
  BY <1>2, <1>3

LEMMA ScrollToSafely ==
  ASSUME opts \in Options, NEW m \in Motions(Position), NEW p \in Points(Position),
         NEW timed \in BOOLEAN, NEW css, NEW low, Placed(p, low)
  PROVE  Safe(ScrollTo(m, p, timed, css), low)
<1> DEFINE n == [m EXCEPT !.inTransition = opts.useTransition /\ timed]
<1>1. (opts.useTransition /\ timed) \in BOOLEAN
  BY DEF Options
<1>2. n \in Motions(Position)
  BY <1>1, FlagsMove, PositionIsClosed
<1> HIDE DEF n
<1>3. TransitionTime(n, timed) \in Motions(Position)
  BY <1>2, FlagsMove, PositionIsClosed
<1>4. \A x \in Motions(Position) : Translate(x, p).pos = p
  BY DEF Translate, Motions
<1>5. Animate(n, p).frames # <<>>
  BY <1>2, AnimateWaits
<1> QED
  BY <1>2, <1>3, <1>4, <1>5 DEF ScrollTo, Safe, n

LEMMA ResetSafely ==
  ASSUME opts \in Options, NEW m \in Motions(Position), NEW low \in Bounds,
         NEW timed \in BOOLEAN
  PROVE  Safe(ResetPosition(m, low, timed), low)
<1>1. m.pos \in Points(Position) /\ \A a \in Axes : m.pos[a] \in Position
  BY DEF Motions, Points
<1>2. CASE NeedsReset(m, low)
  <2>1. ResetTarget(m.pos, low) \in Points(Position)
    BY <1>1, PositionIsClosed, NearIsFinite, ClampedPositions DEF ResetTarget, Points
  <2> QED
    BY <1>1, <1>2, <2>1, ResetTargetIsPlaced, ScrollToSafely DEF ResetPosition
<1>3. CASE ~NeedsReset(m, low)
  BY <1>3, ResetIsOfOutside DEF ResetPosition, Safe, Placed
<1> QED
  BY <1>2, <1>3

LEMMA PageIsPlaced ==
  ASSUME NEW low \in Bounds, NEW pg \in PageRecords(Position), IsPage(pg, low)
  PROVE  Placed(pg.pos, low) /\ pg.pos \in Points(Position)
<1>1. ASSUME NEW a \in Axes, IsFinite(pg.pos[a])
      PROVE  pg.pos[a] \in Int /\ low[a] <= pg.pos[a] /\ pg.pos[a] <= 0
  <2>1. pg.at[a] \in 0 .. PageCount(low, a) - 1 /\ pg.pos[a] = PagePos(low, a, pg.at[a])
    BY <1>1 DEF IsPage, Exists, IsFinite
  <2>2. pg.at[a] \in Nat
    BY <2>1, PagesReachBounds
  <2> QED
    BY <2>1, <2>2, PagesReachBounds
<1> QED
  BY <1>1 DEF Placed, AllFinite, InBounds, PageRecords

LEMMA GoToSafely ==
  ASSUME opts \in Options, NEW m \in Motions(Position), NEW low \in Bounds,
         NEW at \in [Axes -> Int], NEW timed \in BOOLEAN
  PROVE  Safe(GoTo(m, low, at, timed), low)
<1>1. PageFor(low, at) \in PageRecords(Position) /\ IsPage(PageFor(low, at), low)
  BY PageForIsPage, PositionIsClosed
<1> QED
  BY <1>1, PageIsPlaced, ScrollToSafely DEF GoTo

LEMMA ClampedIsPlaced ==
  ASSUME NEW p \in Points(Position), NEW low \in Bounds
  PROVE  Placed([a \in Axes |-> Clamp(p[a], low[a])], low)
<1>1. ASSUME NEW a \in Axes, IsFinite(Clamp(p[a], low[a]))
      PROVE  LET q == Clamp(p[a], low[a]) IN q \in Int /\ low[a] <= q /\ q <= 0
  <2>1. p[a] \in Position /\ low[a] \in Int /\ low[a] <= 0
    BY BoundsAreNear DEF Points
  <2>2. p[a] # NaN
    BY <1>1, <2>1, ClampedWithin DEF IsFinite
  <2> QED
    BY <2>1, <2>2, ClampedWithin
<1> QED
  BY <1>1 DEF Placed, AllFinite, InBounds

(* Where neither the scroller nor who will look after it changes.           *)
LEMMA StaysFound ==
  ASSUME ~Stranded, motion'.pos = motion.pos, UNCHANGED maxScroll, WillReset => WillReset'
  PROVE  ~Stranded'
BY DEF Stranded, NeedsReset

(* The timers are a flag and one of three words.                            *)
TimerTypes == timers \in [resize : BOOLEAN, wheel : {"undefined", "pending", "null"}]

LEMMA TimersStay ==
  ASSUME TimerTypes, [Next]_vars
  PROVE  TimerTypes'
<1>1. \/ UNCHANGED timers
      \/ timers' = [timers EXCEPT !.resize = FALSE]
      \/ timers' = [timers EXCEPT !.resize = TRUE]
      \/ timers' = [timers EXCEPT !.wheel = "pending"]
      \/ timers' = [timers EXCEPT !.wheel = "undefined"]
      \/ timers' = [resize |-> FALSE, wheel |-> IF opts.mouseWheel THEN "null" ELSE timers.wheel]
  <2>1. CASE ByItself
    BY <2>1 DEF ByItself, TransitionEnd, AnimationFrame, WheelTimeout, ResizeTimeout, FadeTimeout
  <2>2. CASE UsePointer
    BY <2>2 DEF UsePointer, PointerDown, PointerMove, PointerUp, Lift, UntouchedCancel,
                FingerLost, BarDown, BarMove, BarUp, BarFingerLost
  <2>3. CASE UseKeys
    BY <2>3 DEF UseKeys, Key
  <2>4. CASE UsePage
    BY <2>4 DEF UsePage, Resize, ContentChanges, CallRefresh, Switch, Destroy, NextPage,
                PrevPage, GoToPage, Wheel, Sends, SendsAnywhere, SendsToElement,
                CallScrollTo, CallScrollBy, ScrollToElement, Send
  <2>5. CASE UNCHANGED vars
    BY <2>5 DEF vars
  <2> QED
    BY <2>1, <2>2, <2>3, <2>4, <2>5 DEF Next
<1>2. CASE timers' = [resize |-> FALSE, wheel |-> IF opts.mouseWheel THEN "null"
                                                ELSE timers.wheel]
  <2>1. (IF opts.mouseWheel THEN "null" ELSE timers.wheel) \in {"undefined", "pending", "null"}
    BY DEF TimerTypes
  <2> QED
    BY <1>2, <2>1 DEF TimerTypes
<1>3. CASE \/ UNCHANGED timers
           \/ timers' = [timers EXCEPT !.resize = FALSE]
           \/ timers' = [timers EXCEPT !.resize = TRUE]
           \/ timers' = [timers EXCEPT !.wheel = "pending"]
           \/ timers' = [timers EXCEPT !.wheel = "undefined"]
  BY <1>3 DEF TimerTypes
<1> QED
  BY <1>1, <1>2, <1>3

(* What every handler leaves, but for the exceptions.                       *)
Found == Safe(motion', maxScroll') \/ ~Stranded'

LEMMA TransitionEndFinds ==
  ASSUME ScrollTypes(Position), ~Stranded, TransitionEnd
  PROVE  Found
<1> DEFINE waited == motion.inTransition /\ ~destroyed
           over   == [motion EXCEPT !.from = None]
           still  == TransitionTime(over, FALSE)
           reset  == NeedsReset(still, maxScroll)
           rest   == [still EXCEPT !.inTransition = FALSE]
           back   == ResetPosition(still, maxScroll, TRUE)
           after  == CASE ~waited          -> over
                       [] waited /\ reset  -> back
                       [] waited /\ ~reset -> rest
<1>1. /\ motion \in Motions(Position) /\ opts \in Options /\ maxScroll \in Bounds
      /\ UNCHANGED <<maxScroll, touch, timers, enabled, destroyed>>
      /\ motion' = Paint(over, after, Steps)
  BY OptionsTypes DEF ScrollTypes, TransitionEnd
<1>2. over \in Motions(Position) /\ over.pos = motion.pos /\ over.frames = motion.frames
  BY <1>1 DEF Motions
<1> HIDE DEF over
<1>3. still \in Motions(Position)
  BY <1>2, FlagsMove, PositionIsClosed
<1> HIDE DEF still
<1>4. rest \in Motions(Position) /\ rest.pos = still.pos
  BY <1>3 DEF Motions
<1> HIDE DEF rest
<1>5. back \in Motions(Position) /\ Safe(back, maxScroll)
  BY <1>1, <1>3, ResetMoves, ResetSafely, PositionIsClosed
<1> HIDE DEF back
<1>6. CASE ~waited
  <2>1. motion' = Paint(over, over, Steps)
    BY <1>1, <1>6
  <2>2. motion'.pos = motion.pos /\ motion'.frames = motion.frames
    BY <1>2, <2>1, PaintKeeps
  <2>3. WillReset => WillReset'
    BY <1>1, <1>6, <2>2 DEF WillReset, InHand
  <2> QED
    BY <1>1, <2>2, <2>3, StaysFound DEF Found
<1>7. CASE waited /\ reset
  <2>1. motion' = Paint(over, back, Steps)
    BY <1>1, <1>7
  <2> QED
    BY <1>1, <1>5, <2>1, PaintKeeps DEF Safe, Found
<1>8. CASE waited /\ ~reset
  <2>1. motion' = Paint(over, rest, Steps)
    BY <1>1, <1>8
  <2>2. InBounds(rest.pos, maxScroll)
    BY <1>1, <1>3, <1>4, <1>8, ResetIsOfOutside
  <2> QED
    BY <1>1, <1>4, <2>1, <2>2, PaintKeeps DEF Safe, Placed, Found
<1> QED
  BY <1>6, <1>7, <1>8

LEMMA AnimationFrameFinds ==
  ASSUME ScrollTypes(Position), AnimationFrame, ~StrayFrame
  PROVE  Found
<1> DEFINE step  == Head(motion.frames)
           rest  == [motion EXCEPT !.frames = Tail(motion.frames)]
           at(i) == [a \in Axes |-> Between(step.from[a], step.dest[a], i)]
           more(i) == [rest EXCEPT !.frames = Append(@, [step EXCEPT !.done = i])]
           ended == [rest EXCEPT !.isAnimating = FALSE]
           over  == Translate(ended, step.dest)
<1>1. /\ motion \in Motions(Position) /\ opts \in Options /\ maxScroll \in Bounds
      /\ motion.frames # <<>> /\ motion.isAnimating /\ UNCHANGED maxScroll
  BY OptionsTypes DEF ScrollTypes, AnimationFrame, StrayFrame
<1>2. step \in Frames(Position) /\ rest \in Motions(Position)
      /\ \A i \in Nat : more(i) \in Motions(Position)
  BY <1>1, FramesMove, PositionIsClosed
<1>3. \E k \in Progress :
        \/ \E i \in step.done + 1 .. Steps - 1 : Moves(Translate(more(i), at(i)), k)
        \/ Moves(ResetPosition(over, maxScroll, TRUE), k)
  BY <1>1 DEF AnimationFrame
<1>4. \A i \in Nat : more(i).frames # <<>>
  <2>1. rest.frames \in Seq(Frames(Position))
    BY <1>2 DEF Motions, Frames
  <2>2. \A i \in Nat : more(i).frames = Append(rest.frames, [step EXCEPT !.done = i])
    <3> HIDE DEF step
    <3> QED
      BY <1>2 DEF Motions
  <2> HIDE DEF more, rest
  <2>3. \A e : Append(rest.frames, e) # <<>>
    BY <2>1
  <2> QED
    BY <2>2, <2>3
<1> HIDE DEF step, rest, more
<1>5. over \in Motions(Position)
  BY <1>2, FlagsMove, TranslateMoves, PositionIsClosed DEF Frames
<1>6. /\ ResetPosition(over, maxScroll, TRUE) \in Motions(Position)
      /\ Safe(ResetPosition(over, maxScroll, TRUE), maxScroll)
  BY <1>1, <1>5, ResetMoves, ResetSafely, PositionIsClosed
<1>7. ASSUME NEW i \in step.done + 1 .. Steps - 1
      PROVE  /\ Translate(more(i), at(i)) \in Motions(Position)
             /\ Safe(Translate(more(i), at(i)), maxScroll)
  <2>1. i \in Nat /\ i \in 0 .. Steps
    BY <1>2, Constants DEF Frames
  <2>2. \A a \in Axes : step.from[a] \in Position /\ step.dest[a] \in Position
    BY <1>2 DEF Frames, Points
  <2>3. at(i) \in Points(Position)
    BY <2>1, <2>2, PositionIsClosed DEF Points, Closed
  <2>4. more(i) \in Motions(Position) /\ more(i).frames # <<>>
    BY <1>2, <1>4, <2>1
  <2> HIDE DEF at
  <2>5. Translate(more(i), at(i)).frames = more(i).frames
    BY <2>4 DEF Translate, Motions
  <2> QED
    BY <2>3, <2>4, <2>5, TranslateMoves, PositionIsClosed DEF Safe
<1> HIDE DEF over, at
<1>8. \E n \in Motions(Position) : \E k : Moves(n, k) /\ Safe(n, maxScroll)
  BY <1>3, <1>6, <1>7
<1> QED
  BY <1>1, <1>8, MovesSafely DEF Found

LEMMA KeptStays ==
  ASSUME NEW P, NEW t \in Touches(P)
  PROVE  Kept(t).initiated = t.initiated /\ (t.initiated => Kept(t).down = t.down)
<1> DEFINE live == IF t.initiated THEN t
                   ELSE [t EXCEPT !.moved = FALSE, !.dist = Nowhere, !.locked = "no",
                                  !.start = Nowhere, !.down = FALSE]
<1>1. /\ live.initiated = t.initiated /\ (t.initiated => live.down = t.down)
      /\ DOMAIN live = {"initiated", "moved", "dist", "locked", "start", "absStart", "ended",
                        "down", "untouched"}
  BY DEF Touches
<1>2. Kept(t) = [live EXCEPT !.start = IF opts.snap \/ opts.momentum THEN live.start ELSE Nowhere,
                             !.absStart = IF opts.snap THEN live.absStart ELSE Nowhere]
  BY DEF Kept, live
<1> HIDE DEF live
<1> QED
  BY <1>1, <1>2

LEMMA HeldIsFound ==
  ASSUME touch'.initiated, touch'.down, enabled', ~destroyed'
  PROVE  Found
BY DEF Found, Stranded, WillReset, InHand

LEMMA PointerDownFinds ==
  ASSUME ScrollTypes(Position), ScrollTypes(Position)', PointerDown
  PROVE  Found
<1> DEFINE t == [touch EXCEPT !.initiated = TRUE, !.moved = FALSE, !.dist = Nowhere,
                              !.locked = "no", !.start = motion'.pos, !.absStart = motion'.pos,
                              !.down = TRUE, !.untouched = FALSE]
<1>1. touch \in Touches(Position) /\ motion'.pos \in Points(Position)
  BY DEF ScrollTypes, Motions
<1>2. t \in Touches(Position) /\ t.initiated /\ t.down
  BY <1>1, NowhereTypes, PositionIsClosed DEF Touches
<1>3. touch' = Kept(t) /\ enabled' /\ ~destroyed'
  BY DEF PointerDown
<1> HIDE DEF t
<1> QED
  BY <1>2, <1>3, KeptStays, HeldIsFound

LEMMA PointerMoveFinds ==
  ASSUME ScrollTypes(Position), ScrollTypes(Position)', ~PassedOn, touch.down,
         NEW d \in opts.drags, NEW recent \in BOOLEAN, NEW late \in BOOLEAN,
         PointerMove(d, recent, late)
  PROVE  Found
<1> DEFINE dist   == [a \in Axes |-> touch.dist[a] + d[a]]
           locked == Lock(dist)
           begun  == IF late THEN motion'.pos ELSE touch.start
           gone   == [touch EXCEPT !.initiated = FALSE]
           here   == [touch EXCEPT !.dist = dist]
           there  == [touch EXCEPT !.dist = dist, !.locked = locked, !.moved = TRUE,
                                   !.start = begun]
<1>1. /\ touch \in Touches(Position) /\ motion'.pos \in Points(Position)
      /\ d \in [Axes -> Int] /\ opts \in Options /\ touch.start \in Points(Position)
  BY OptionsTypes DEF ScrollTypes, Motions, Touches
<1>2. /\ touch.initiated /\ enabled' /\ ~destroyed'
      /\ \/ touch' = here
         \/ touch' = Kept(gone) /\ UNCHANGED motion /\ opts.eventPassthrough # "none"
         \/ touch' = Kept(there)
  BY DEF PointerMove
<1>3. dist \in [Axes -> Int] /\ begun \in Points(Position)
  BY <1>1 DEF Touches
<1>4. locked \in {"no", "h", "v", "n"}
  BY <1>1 DEF Lock, Touches
<1> HIDE DEF dist, locked, begun
<1>5. /\ here \in Touches(Position) /\ here.initiated /\ here.down
      /\ gone \in Touches(Position) /\ ~gone.initiated
      /\ there \in Touches(Position) /\ there.initiated /\ there.down
  BY <1>1, <1>2, <1>3, <1>4 DEF Touches
<1> HIDE DEF here, gone, there
<1>6. CASE touch' = Kept(gone) /\ UNCHANGED motion /\ opts.eventPassthrough # "none"
  <2>1. ~touch'.initiated
    BY <1>5, <1>6, KeptStays
  <2> QED
    BY <1>2, <1>6, <2>1 DEF PassedOn
<1>7. touch' = here \/ touch' = Kept(there) => touch'.initiated /\ touch'.down
  BY <1>5, KeptStays
<1> QED
  BY <1>2, <1>6, <1>7, HeldIsFound

(* Rounding to pixels does not go out of bounds that are whole pixels.      *)
LEMMA RoundedWithin ==
  ASSUME NEW p \in Int, NEW l \in Int, l <= p, p <= 0, l % Px = 0
  PROVE  LET q == Px * ((2 * p + Px) \div (2 * Px)) IN q \in Int /\ l <= q /\ q <= 0
<1>1. l % 3 = 0 /\ Px = 3
  BY Constants
<1>2. LET q == 3 * ((2 * p + 3) \div 6) IN q \in Int /\ l <= q /\ q <= 0
  BY <1>1, SMTT(30)
<1> QED
  BY <1>1, <1>2

LEMMA RoundedIsPlaced ==
  ASSUME NEW p \in Points(Position), NEW low \in Bounds, InBounds(p, low)
  PROVE  InBounds([a \in Axes |-> RoundPx(p[a])], low)
<1>1. ASSUME NEW a \in Axes
      PROVE  RoundPx(p[a]) \in Int /\ low[a] <= RoundPx(p[a]) /\ RoundPx(p[a]) <= 0
  <2>1. /\ p[a] \in Int /\ low[a] <= p[a] /\ p[a] <= 0 /\ low[a] \in Int /\ low[a] % Px = 0
        /\ p[a] \in Near
    BY BoundsAreNear DEF InBounds, Bounds
  <2>2. RoundPx(p[a]) = Px * ((2 * p[a] + Px) \div (2 * Px))
    BY <2>1, NearIsFinite DEF RoundPx
  <2> QED
    BY <2>1, <2>2, RoundedWithin
<1> QED
  BY <1>1 DEF InBounds

LEMMA InBoundsIsFinite ==
  ASSUME NEW p \in Points(Position), NEW low \in Bounds, InBounds(p, low)
  PROVE  AllFinite(p)
<1>1. ASSUME NEW a \in Axes
      PROVE  IsFinite(p[a])
  BY BoundsAreNear, NearIsFinite DEF InBounds
<1> QED
  BY <1>1 DEF AllFinite

(* Within one tick of the clock a finger throws the scroller to a bound or  *)
(* to where nothing is.                                                     *)
LEMMA TickIsPlaced ==
  ASSUME ScrollTypes(Position), NEW m \in Motions(Position), InBounds(m.pos, maxScroll),
         NEW t \in Throws(m, TRUE)
  PROVE  Placed(t, maxScroll)
<1>1. maxScroll \in Bounds /\ m.pos \in Points(Position)
  BY DEF ScrollTypes, Motions
<1>2. ASSUME NEW a \in Axes, IsFinite(t[a])
      PROVE  t[a] \in Int /\ maxScroll[a] <= t[a] /\ t[a] <= 0
  <2> DEFINE p == m.pos[a]
             s == touch.start[a]
             l == maxScroll[a]
             q == t[a]
  <2>1. q \in IF Has(maxScroll, a) THEN Momentum(p, s, l, TRUE) ELSE {p}
    BY DEF Throws, Axes
  <2>2. p \in Int /\ l <= p /\ p <= 0 /\ l \in Int /\ l <= 0
    BY <1>1, BoundsAreNear DEF InBounds
  <2>3. q \in Momentum(p, s, l, TRUE) => q \in {NaN, Far, 0, -Far, l}
    <3> HIDE DEF p, s, l, q
    <3>1. s # NaN => Sign(p - s) = 0 \/ Sign(p - s) = 1 \/ Sign(p - s) = -1
      BY DEF Sign
    <3> QED
      BY <3>1 DEF Momentum
  <2>4. q \in {0, l} \/ q = p
    BY <1>2, <2>1, <2>3 DEF IsFinite
  <2> QED
    BY <2>2, <2>4
<1> QED
  BY <1>2 DEF Placed, AllFinite, InBounds

(* A transition that starts from where nothing moved is under way.          *)
LEMMA StartsFromRest ==
  ASSUME ScrollTypes(Position), InBounds(motion.pos, maxScroll), motion.from = None,
         NEW n \in Motions(Position), n.timed, AllFinite(n.pos), n.pos # motion.pos, NEW k
  PROVE  Paint(motion, n, k).from # None
<1>1. maxScroll \in Bounds /\ motion.pos \in Points(Position)
  BY DEF ScrollTypes, Motions
<1>2. Shown(motion, k) = motion.pos
  BY <1>1 DEF Shown, Points
<1>3. AllFinite(motion.pos)
  BY <1>1, InBoundsIsFinite
<1>4. Paint(motion, n, k) = [n EXCEPT !.from = motion.pos]
  BY <1>2, <1>3 DEF Paint, AllFinite
<1>5. motion.pos # None
  BY <1>1, IScrollAssumption DEF Points, Position
<1> QED
  BY <1>4, <1>5 DEF Motions

(* A throw, on its way in a transition or in frames.                        *)
LEMMA ThrowIsFound ==
  ASSUME ScrollTypes(Position), InBounds(motion.pos, maxScroll), ~destroyed',
         UNCHANGED maxScroll,
         NEW n \in Motions(Position), NEW t \in Points(Position), AllFinite(t),
         NEW k, Moves(ScrollTo(n, t, TRUE, TRUE), k),
         motion.from # None => motion'.from # None
  PROVE  Found
<1> DEFINE go == [n EXCEPT !.inTransition = opts.useTransition /\ TRUE]
           to == Translate(TransitionTime(go, TRUE), t)
<1>1. opts \in Options /\ (opts.useTransition /\ TRUE) \in BOOLEAN /\ maxScroll \in Bounds
  BY OptionsTypes DEF ScrollTypes, Options
<1>2. go \in Motions(Position)
  BY <1>1, FlagsMove, PositionIsClosed
<1>3. CASE opts.useTransition
  <2>1. ScrollTo(n, t, TRUE, TRUE) = to
    BY <1>3 DEF ScrollTo
  <2>2. go.inTransition
    BY <1>3 DEF Motions
  <2> HIDE DEF go
  <2>3. TransitionTime(go, TRUE) = [go EXCEPT !.timed = TRUE]
    BY <1>3 DEF TransitionTime
  <2>4. to.pos = t /\ to.timed /\ to.inTransition
    BY <1>2, <2>2, <2>3 DEF Translate, Motions
  <2>5. to \in Motions(Position)
    BY <1>2, FlagsMove, TranslateMoves, PositionIsClosed
  <2> HIDE DEF to
  <2>6. motion' = Paint(motion, to, k)
    BY <2>1 DEF Moves
  <2>7. motion'.inTransition /\ motion'.pos = t
    BY <2>4, <2>5, <2>6, PaintKeeps
  <2>8. CASE t = motion.pos
    BY <2>7, <2>8 DEF Found, Safe, Placed
  <2>9. CASE t # motion.pos
    <3>1. motion'.from # None
      BY <2>4, <2>5, <2>6, <2>9, StartsFromRest
    <3> QED
      BY <2>7, <3>1 DEF Found, Stranded, WillReset
  <2> QED
    BY <2>8, <2>9
<1>4. CASE ~opts.useTransition
  <2>1. ScrollTo(n, t, TRUE, TRUE) = Animate(go, t)
    BY <1>4 DEF ScrollTo
  <2> HIDE DEF go
  <2>2. Animate(go, t).frames # <<>> /\ Animate(go, t) \in Motions(Position)
    BY <1>2, AnimateWaits, AnimateMoves, PositionIsClosed
  <2> QED
    BY <2>1, <2>2, MovesSafely DEF Safe, Found
<1> QED
  BY <1>3, <1>4

LEMMA ReleaseFinds ==
  ASSUME ScrollTypes(Position), PageInv, InBounds(motion.pos, maxScroll), ~destroyed',
         UNCHANGED maxScroll,
         NEW m \in Motions(Position), InBounds(m.pos, maxScroll),
         NEW quick \in {"tick", "flick", "short", "long"}, NEW k, Release(m, quick, k),
         quick \in {"flick", "short"} => (motion.from # None => motion'.from # None)
  PROVE  Found
<1> DEFINE thrown == opts.momentum /\ quick # "long"
           n      == IF thrown THEN [m EXCEPT !.inTransition = TRUE] ELSE m
           T      == IF thrown THEN Throws(m, quick = "tick") ELSE {m.pos}
           timed(t) == IF opts.snap THEN IsNumber(t)
                       ELSE quick # "tick" /\ \A a \in Axes : IsFinite(t[a])
           css(t) == \/ \E a \in Axes : IsOutside(Goal(t)[a], maxScroll[a])
                     \/ ~opts.snap \/ ~opts.jsBounce
<1>1. /\ opts \in Options /\ maxScroll \in Bounds /\ dirn \in [Axes -> Int]
      /\ page \in PageRecords(Position) /\ m.pos \in Points(Position)
  BY OptionsTypes DEF ScrollTypes, Motions
<1>2. n \in Motions(Position) /\ n.pos = m.pos
  BY DEF Motions
<1>3. T \subseteq Points(Position)
  <2>1. (quick = "tick") \in BOOLEAN /\ Catches(Position, quick = "tick")
    BY DEF Catches
  <2>2. Throws(m, quick = "tick") \subseteq Points(Position)
    BY <2>1, ThrownPoints, PositionIsClosed
  <2> QED
    BY <1>1, <2>2
<1>4. PICK t \in T :
        \/ Moves(n, k)
        \/ /\ ~(opts.snap /\ SnapThrows(t, maxScroll, SnapOf(t)))
           /\ Moves(ScrollTo(n, Goal(t), timed(t), css(t)), k)
  BY DEF Release
<1>5. thrown /\ quick = "tick" => t \in Throws(m, TRUE)
  BY <1>4
<1>6. ~thrown => t = m.pos
  BY <1>4
<1>7. thrown /\ quick # "tick" => quick \in {"flick", "short"}
  OBVIOUS
<1>8. t \in Points(Position)
  BY <1>3, <1>4
<1> HIDE DEF n, T, thrown
<1>9. CASE Moves(n, k)
  BY <1>2, <1>9, MovesSafely DEF Safe, Placed, Found
<1>10. CASE /\ ~(opts.snap /\ SnapThrows(t, maxScroll, SnapOf(t)))
            /\ Moves(ScrollTo(n, Goal(t), timed(t), css(t)), k)
  <2>1. timed(t) \in BOOLEAN
    BY DEF IsNumber
  <2>2. ASSUME Goal(t) \in Points(Position), Placed(Goal(t), maxScroll)
        PROVE  Found
    <3> HIDE DEF timed, css
    <3>1. /\ ScrollTo(n, Goal(t), timed(t), css(t)) \in Motions(Position)
          /\ Safe(ScrollTo(n, Goal(t), timed(t), css(t)), maxScroll)
      BY <1>1, <1>2, <2>1, <2>2, ScrollToMoves, ScrollToSafely, PositionIsClosed
    <3> QED
      BY <1>10, <3>1, MovesSafely DEF Found
  <2>3. CASE opts.snap
    <3>1. SnapOf(t) \in PageRecords(Position) /\ IsPage(SnapOf(t), maxScroll)
      BY <1>1, <1>8, <1>10, <2>3, SnapIsPage, PositionIsClosed DEF SnapOf, PageInv
    <3>2. Goal(t) = SnapOf(t).pos
      BY <2>3 DEF Goal
    <3> QED
      BY <1>1, <2>2, <3>1, <3>2, PageIsPlaced
  <2>4. CASE ~opts.snap
    <3>1. Goal(t) = t
      BY <2>4 DEF Goal
    <3>2. CASE Placed(t, maxScroll)
      BY <1>8, <2>2, <3>1, <3>2
    <3>3. CASE ~Placed(t, maxScroll)
      <4>1. thrown /\ quick # "tick" /\ AllFinite(t)
        BY <1>5, <1>6, <3>3, TickIsPlaced DEF Placed
      <4>2. timed(t) = TRUE /\ css(t) = TRUE
        BY <2>4, <4>1 DEF AllFinite
      <4> HIDE DEF timed, css
      <4>3. Moves(ScrollTo(n, t, TRUE, TRUE), k)
        BY <1>10, <3>1, <4>2
      <4> QED
        BY <1>2, <1>7, <1>8, <4>1, <4>3, ThrowIsFound
    <3> QED
      BY <3>2, <3>3
  <2> QED
    BY <2>3, <2>4
<1> QED
  BY <1>4, <1>9, <1>10

LEMMA UntimedGoes ==
  ASSUME NEW m \in Motions(Position), NEW p
  PROVE  ScrollTo(m, p, FALSE, TRUE).pos = p
<1> DEFINE n == [m EXCEPT !.inTransition = opts.useTransition /\ FALSE]
<1>1. n \in Motions(Position)
  BY FlagsMove, PositionIsClosed
<1> HIDE DEF n
<1>2. TransitionTime(n, FALSE) \in Motions(Position)
  BY <1>1, FlagsMove, PositionIsClosed
<1>3. \A x \in Motions(Position) : Translate(x, p).pos = p
  BY DEF Translate, Motions
<1>4. \/ ScrollTo(m, p, FALSE, TRUE) = Translate(TransitionTime(n, FALSE), p)
      \/ ScrollTo(m, p, FALSE, TRUE) = Translate(n, p)
  BY DEF ScrollTo, n
<1> QED
  BY <1>1, <1>2, <1>3, <1>4

LEMMA LiftFinds ==
  ASSUME ScrollTypes(Position), PageInv,
         NEW quick \in {"tick", "flick", "short", "long"}, Lift(quick),
         quick \in {"flick", "short"} => (motion.from # None => motion'.from # None)
  PROVE  Found
<1> DEFINE landed  == [motion EXCEPT !.inTransition = FALSE]
           round   == [a \in Axes |-> RoundPx(motion.pos[a])]
           rounded == ScrollTo(landed, round, FALSE, TRUE)
           next    == Turned(page.at, dirn)
<1>1. /\ motion \in Motions(Position) /\ opts \in Options /\ maxScroll \in Bounds
      /\ dirn \in [Axes -> Int] /\ page.at \in [Axes -> Int]
      /\ motion.pos \in Points(Position)
  BY OptionsTypes DEF ScrollTypes, PageRecords, Motions
<1>2. landed \in Motions(Position) /\ landed.pos = motion.pos
  BY <1>1 DEF Motions
<1>3. round \in Points(Position)
  BY <1>1, PositionIsClosed DEF Points, Closed
<1>4. UNCHANGED <<maxScroll, destroyed>> /\ ~destroyed'
  BY DEF Lift
<1>5. PICK k \in Progress :
        \/ Moves(ResetPosition(landed, maxScroll, TRUE), k)
        \/ ~NeedsReset(landed, maxScroll) /\ Moves(rounded, k)
        \/ ~NeedsReset(landed, maxScroll) /\ Moves(GoTo(rounded, maxScroll, next, TRUE), k)
        \/ ~NeedsReset(landed, maxScroll) /\ Release(rounded, quick, k)
  BY DEF Lift
<1> HIDE DEF landed, round, next
<1>6. rounded \in Motions(Position)
  BY <1>1, <1>2, <1>3, ScrollToMoves, PositionIsClosed
<1>7. rounded.pos = round
  BY <1>1, <1>2, UntimedGoes
<1> HIDE DEF rounded
<1>8. CASE Moves(ResetPosition(landed, maxScroll, TRUE), k)
  <2>1. /\ ResetPosition(landed, maxScroll, TRUE) \in Motions(Position)
        /\ Safe(ResetPosition(landed, maxScroll, TRUE), maxScroll)
    BY <1>1, <1>2, ResetMoves, ResetSafely, PositionIsClosed
  <2> QED
    BY <1>4, <1>8, <2>1, MovesSafely DEF Found
<1>9. CASE ~NeedsReset(landed, maxScroll)
  <2>1. InBounds(motion.pos, maxScroll)
    BY <1>1, <1>2, <1>9, ResetIsOfOutside
  <2>2. InBounds(rounded.pos, maxScroll)
    BY <1>1, <1>7, <2>1, RoundedIsPlaced DEF round
  <2>3. CASE Moves(rounded, k)
    BY <1>4, <1>6, <2>2, <2>3, MovesSafely DEF Safe, Placed, Found
  <2>4. CASE Moves(GoTo(rounded, maxScroll, next, TRUE), k)
    <3>1. next \in [Axes -> Int]
      BY <1>1, TurnedTypes DEF next
    <3>2. /\ GoTo(rounded, maxScroll, next, TRUE) \in Motions(Position)
          /\ Safe(GoTo(rounded, maxScroll, next, TRUE), maxScroll)
      BY <1>1, <1>6, <3>1, GoToMoves, GoToSafely, PositionIsClosed
    <3> QED
      BY <1>4, <2>4, <3>2, MovesSafely DEF Found
  <2>5. CASE Release(rounded, quick, k)
    BY <1>4, <1>6, <2>1, <2>2, <2>5, ReleaseFinds
  <2> QED
    BY <1>5, <1>9, <2>3, <2>4, <2>5, <1>8
<1> QED
  BY <1>5, <1>8, <1>9

(* Going to a page, and to a point within the bounds.                       *)
LEMMA TurningFinds ==
  ASSUME ScrollTypes(Position), UNCHANGED maxScroll,
         NEW m \in Motions(Position), NEW at \in [Axes -> Int], NEW timed \in BOOLEAN,
         NEW k, Moves(GoTo(m, maxScroll, at, timed), k)
  PROVE  Found
<1>1. opts \in Options /\ maxScroll \in Bounds
  BY OptionsTypes DEF ScrollTypes
<1>2. /\ GoTo(m, maxScroll, at, timed) \in Motions(Position)
      /\ Safe(GoTo(m, maxScroll, at, timed), maxScroll)
  BY <1>1, GoToMoves, GoToSafely, PositionIsClosed
<1> QED
  BY <1>2, MovesSafely DEF Found

LEMMA PlacingFinds ==
  ASSUME ScrollTypes(Position), UNCHANGED maxScroll,
         NEW m \in Motions(Position), NEW p \in Points(Position), Placed(p, maxScroll),
         NEW timed \in BOOLEAN, NEW css, NEW k, Moves(ScrollTo(m, p, timed, css), k)
  PROVE  Found
<1>1. opts \in Options
  BY OptionsTypes DEF ScrollTypes
<1>2. /\ ScrollTo(m, p, timed, css) \in Motions(Position)
      /\ Safe(ScrollTo(m, p, timed, css), maxScroll)
  BY <1>1, ScrollToMoves, ScrollToSafely, PositionIsClosed
<1> QED
  BY <1>2, MovesSafely DEF Found

LEMMA ClampedAdds ==
  ASSUME NEW p \in Points(Position), NEW d \in [Axes -> Int], NEW low \in Bounds
  PROVE  Placed([a \in Axes |-> Clamp(Add(p[a], Px * d[a]), low[a])], low)
<1> DEFINE q == [a \in Axes |-> Add(p[a], Px * d[a])]
<1>1. ASSUME NEW a \in Axes
      PROVE  Add(p[a], Px * d[a]) \in Position
  <2>1. p[a] \in Position /\ Px * d[a] \in Int
    BY Constants DEF Points
  <2> QED
    BY <2>1, Numbers
<1>2. q \in Points(Position)
  BY <1>1 DEF Points
<1>3. Placed([a \in Axes |-> Clamp(q[a], low[a])], low)
  <2> HIDE DEF q
  <2> QED
    BY <1>2, ClampedIsPlaced
<1>4. \A a \in Axes : q[a] = Add(p[a], Px * d[a])
  OBVIOUS
<1> HIDE DEF q
<1>5. [a \in Axes |-> Clamp(q[a], low[a])]
        = [a \in Axes |-> Clamp(Add(p[a], Px * d[a]), low[a])]
  BY <1>4
<1> QED
  BY <1>3, <1>5

LEMMA WheelFinds ==
  ASSUME ScrollTypes(Position), NEW turn \in opts.turns, Wheel(turn)
  PROVE  Found
<1> DEFINE delta == IF Has(maxScroll, "y") THEN turn ELSE [x |-> turn["y"], y |-> 0]
           back  == [a \in Axes |-> -Sign(delta[a])]
           at    == Turned(page.at, back)
           move  == [a \in Axes |-> IF Has(maxScroll, a) THEN delta[a] ELSE 0]
           to    == [a \in Axes |-> Clamp(Add(motion.pos[a], IF Has(maxScroll, a)
                                                             THEN Px * delta[a] ELSE 0),
                                          maxScroll[a])]
<1>1. /\ motion \in Motions(Position) /\ maxScroll \in Bounds
      /\ page.at \in [Axes -> Int] /\ turn \in [Axes -> Int]
      /\ motion.pos \in Points(Position)
  BY OptionsTypes DEF ScrollTypes, PageRecords, Motions
<1>2. delta \in [Axes -> Int]
  BY <1>1, PairTypes DEF Axes
<1> HIDE DEF delta
<1>3. back \in [Axes -> Int] /\ move \in [Axes -> Int]
  BY <1>2, Signs
<1>4. to \in Points(Position) /\ Placed(to, maxScroll)
  <2>1. \A a \in Axes : Px * move[a] = IF Has(maxScroll, a) THEN Px * delta[a] ELSE 0
    BY <1>2, Constants
  <2>2. to = [a \in Axes |-> Clamp(Add(motion.pos[a], Px * move[a]), maxScroll[a])]
    BY <2>1
  <2> QED
    BY <1>1, <1>3, <2>2, ClampedPoint, ClampedAdds, PositionIsClosed
<1>5. /\ UNCHANGED maxScroll
      /\ \E k \in Progress : \/ Moves(GoTo(motion, maxScroll, at, IsNumber(motion.pos)), k)
                            \/ Moves(ScrollTo(motion, to, FALSE, TRUE), k)
  BY DEF Wheel, delta
<1>6. IsNumber(motion.pos) \in BOOLEAN
  BY DEF IsNumber
<1> HIDE DEF back, to
<1>7. at \in [Axes -> Int]
  BY <1>1, <1>3, TurnedTypes
<1> HIDE DEF at
<1> QED
  BY <1>1, <1>4, <1>5, <1>6, <1>7, TurningFinds, PlacingFinds

LEMMA KeyFinds ==
  ASSUME ScrollTypes(Position), NEW key \in Keys, NEW step \in KeySteps, Key(key, step),
         ~StrayKey
  PROVE  Found
<1> DEFINE shown(k) == [a \in Axes |-> RoundPx(Shown(motion, k)[a])]
           stops(k) == IF opts.useTransition /\ motion.inTransition
                       THEN [motion EXCEPT !.inTransition = FALSE, !.pos = shown(k)]
                       ELSE motion
           added == [a \in Axes |-> Clamp(Add(motion.pos[a], Px * KeyDelta(key, step)[a]),
                                          maxScroll[a])]
           to == CASE key = "home" -> Nowhere
                   [] key = "end"  -> maxScroll
                   [] OTHER -> added
<1>1. /\ motion \in Motions(Position) /\ maxScroll \in Bounds
      /\ motion.pos \in Points(Position) /\ UNCHANGED maxScroll
  BY DEF ScrollTypes, Motions, Key
<1>2. key # "other"
  BY DEF StrayKey
<1>3. PICK k \in Progress :
        \/ Moves(GoTo(stops(k), maxScroll, KeyPage(key), IsNumber(stops(k).pos)), k)
        \/ Moves(ScrollTo(stops(k), to, FALSE, TRUE), k)
  BY <1>2 DEF Key
<1>4. stops(k) \in Motions(Position)
  <2>1. k \in 0 .. Steps
    BY ProgressIsPart
  <2> QED
    BY <1>1, <2>1, StoppedMoves, PositionIsClosed
<1>5. to \in Points(Position) /\ Placed(to, maxScroll)
  <2>1. maxScroll \in Points(Position) /\ Nowhere \in Points(Position)
    BY <1>1, BoundIsAPoint, NowhereTypes, PositionIsClosed
  <2>2. InBounds(maxScroll, maxScroll) /\ InBounds(Nowhere, maxScroll)
    BY <1>1, BoundsAreNear DEF InBounds, Nowhere
  <2>3. key \notin {"home", "end"} => added \in Points(Position) /\ Placed(added, maxScroll)
    BY <1>1, <1>2, KeyTypes, ClampedPoint, ClampedAdds, PositionIsClosed
  <2> HIDE DEF added
  <2> QED
    BY <2>1, <2>2, <2>3 DEF Placed
<1> HIDE DEF stops, to
<1>6. KeyPage(key) \in [Axes -> Int] /\ IsNumber(stops(k).pos) \in BOOLEAN
  BY <1>2, KeyTypes, PositionIsClosed DEF IsNumber
<1> QED
  BY <1>1, <1>3, <1>4, <1>5, <1>6, TurningFinds, PlacingFinds

LEMMA NeighbourFinds ==
  ASSUME ScrollTypes(Position), NextPage \/ PrevPage
  PROVE  Found
<1>1. page.at \in [Axes -> Int] /\ page.at["x"] \in Int /\ page.at["y"] \in Int
  BY DEF ScrollTypes, PageRecords, Axes
<1>2. /\ [x |-> 0, y |-> page.at["y"] + 1] \in [Axes -> Int]
      /\ [x |-> 0, y |-> page.at["y"] - 1] \in [Axes -> Int]
  BY <1>1, PairTypes
<1>3. /\ [page.at EXCEPT !["x"] = @ + 1] \in [Axes -> Int]
      /\ [page.at EXCEPT !["x"] = @ - 1] \in [Axes -> Int]
  <2>1. page.at["x"] + 1 \in Int /\ page.at["x"] - 1 \in Int
    BY <1>1
  <2> QED
    BY <1>1, <2>1
<1>4. \E at \in [Axes -> Int] : GoToPage(at, IsNumber(motion.pos))
  <2>1. CASE NextPage
    BY <1>2, <1>3, <2>1 DEF NextPage
  <2>2. CASE PrevPage
    BY <1>2, <1>3, <2>2 DEF PrevPage
  <2> QED
    BY <2>1, <2>2
<1>5. PICK at \in [Axes -> Int] : GoToPage(at, IsNumber(motion.pos))
  BY <1>4
<1>6. /\ UNCHANGED maxScroll /\ motion \in Motions(Position)
      /\ \E k \in Progress : Moves(GoTo(motion, maxScroll, at, IsNumber(motion.pos)), k)
      /\ IsNumber(motion.pos) \in BOOLEAN
  BY <1>5 DEF GoToPage, ScrollTypes, IsNumber
<1> QED
  BY <1>6, TurningFinds

LEMMA ScrollToElementFinds ==
  ASSUME ScrollTypes(Position), NEW offset \in opts.turns, NEW timed \in BOOLEAN, NEW css,
         ScrollToElement(offset, timed, css)
  PROVE  Found
<1> DEFINE at == [a \in Axes |-> Px * offset[a]]
           to == [a \in Axes |-> Clamp(Px * offset[a], maxScroll[a])]
<1>1. /\ motion \in Motions(Position) /\ maxScroll \in Bounds
      /\ offset \in [Axes -> Int] /\ UNCHANGED maxScroll
      /\ \E k \in Progress : Moves(ScrollTo(motion, to, timed, css), k)
  BY OptionsTypes DEF ScrollTypes, ScrollToElement, Send
<1>2. at \in Points(Position)
  BY <1>1, Constants DEF Points, Position
<1>3. to = [a \in Axes |-> Clamp(at[a], maxScroll[a])]
  OBVIOUS
<1> HIDE DEF at
<1>4. Placed(to, maxScroll)
  BY <1>1, <1>2, <1>3, ClampedIsPlaced
<1>5. to \in Points(Position)
  <2>1. \A a \in Axes : at[a] \in Position /\ maxScroll[a] \in Int
    BY <1>1, <1>2, BoundsAreNear DEF Points
  <2> QED
    BY <1>3, <2>1, Numbers DEF Points
<1> HIDE DEF to
<1> QED
  BY <1>1, <1>4, <1>5, PlacingFinds

(* To anywhere else the page sends it with open eyes.                       *)
LEMMA SendsFind ==
  ASSUME ScrollTypes(Position), NEW timed \in BOOLEAN, Sends(timed), ~SentOutside
  PROVE  Found
<1>1. CASE SendsAnywhere(timed)
  <2>1. UNCHANGED maxScroll
    BY <1>1 DEF SendsAnywhere, CallScrollTo, CallScrollBy, Send
  <2>2. ~NeedsReset(motion', maxScroll)
    BY <1>1 DEF SentOutside
  <2> QED
    BY <2>1, <2>2 DEF Found, Stranded, NeedsReset
<1>2. CASE SendsToElement(timed)
  BY <1>2, ScrollToElementFinds DEF SendsToElement
<1> QED
  BY <1>1, <1>2 DEF Sends

LEMMA RefreshFinds ==
  ASSUME ScrollTypes(Position), Refresh
  PROVE  Found
<1> DEFINE low == MaxScrollOf(opts, size)
           n   == IF opts.snap THEN GoTo(motion, low, page.at, FALSE) ELSE motion
<1>1. /\ motion \in Motions(Position) /\ opts \in Options /\ page.at \in [Axes -> Int]
      /\ low \in Bounds
  BY OptionsTypes, MaxScrollIsABound DEF ScrollTypes, PageRecords
<1>2. PICK k \in Progress : Moves(ResetPosition(n, low, FALSE), k)
  BY DEF Refresh
<1>3. maxScroll' = low
  BY DEF Refresh
<1> HIDE DEF low
<1>4. n \in Motions(Position)
  BY <1>1, GoToMoves, PositionIsClosed
<1> HIDE DEF n
<1>5. /\ ResetPosition(n, low, FALSE) \in Motions(Position)
      /\ Safe(ResetPosition(n, low, FALSE), low)
  BY <1>1, <1>4, ResetMoves, ResetSafely, PositionIsClosed
<1> QED
  BY <1>2, <1>3, <1>5, MovesSafely DEF Found

(* A scrollbar keeps the scroller on its other axis, where it is out of     *)
(* bounds only when it crosses a movement.                                  *)
LEMMA BarMoveFinds ==
  ASSUME ScrollTypes(Position), NEW d \in opts.drags, BarMove(d), ~BarCrosses
  PROVE  Found
<1> DEFINE at == IndicatorPos(motion.pos[opts.bar], maxScroll) + d[opts.bar]
           f  == FollowIndicator(at, maxScroll)
           to == [motion.pos EXCEPT ![opts.bar] = f]
<1>1. /\ motion \in Motions(Position) /\ maxScroll \in Bounds /\ d \in [Axes -> Int]
      /\ motion.pos \in Points(Position) /\ opts.bar \in Axes
      /\ UNCHANGED maxScroll
      /\ \E k \in Progress : Moves(ScrollTo(motion, to, FALSE, TRUE), k)
  BY OptionsTypes DEF ScrollTypes, Motions, BarMove
<1>2. motion.pos[opts.bar] \in Position /\ d[opts.bar] \in Int
  BY <1>1 DEF Points
<1>3. at \in Int
  BY <1>1, <1>2, IndicatorIsWhole
<1> HIDE DEF at
<1>4. f \in Position /\ (f = NaN \/ (maxScroll[opts.bar] <= f /\ f <= 0))
  BY <1>1, <1>3, FollowedPositions
<1> HIDE DEF f
<1>5. to \in Points(Position)
  BY <1>1, <1>4 DEF Points
<1>6. ASSUME NEW a \in Axes, IsFinite(to[a])
      PROVE  to[a] \in Int /\ maxScroll[a] <= to[a] /\ to[a] <= 0
  <2>1. to[a] \in Int /\ to[a] # NaN /\ maxScroll[a] \in Int
    BY <1>1, <1>5, <1>6, Numbers, BoundsAreNear DEF Points, IsFinite
  <2>2. CASE a = opts.bar
    <3>1. to[a] = f
      BY <1>1, <2>2 DEF Points
    <3> QED
      BY <1>4, <2>1, <2>2, <3>1
  <2>3. CASE a # opts.bar
    <3>1. to[a] = motion.pos[a]
      BY <1>1, <2>3 DEF Points
    <3>2. ~IsOutside(motion.pos[a], maxScroll[a])
      BY <2>3 DEF BarCrosses
    <3> QED
      BY <2>1, <3>1, <3>2 DEF IsOutside, Above, Below
  <2> QED
    BY <2>2, <2>3
<1>7. Placed(to, maxScroll)
  BY <1>6 DEF Placed, AllFinite, InBounds
<1> HIDE DEF to
<1> QED
  BY <1>1, <1>5, <1>7, PlacingFinds

LEMMA BarUpFinds ==
  ASSUME ScrollTypes(Position), PageInv, ~Stranded, BarUp
  PROVE  Found
<1> DEFINE snap == NearestSnap(motion.pos, maxScroll, touch.absStart, dirn, page)
<1>1. /\ motion \in Motions(Position) /\ maxScroll \in Bounds /\ dirn \in [Axes -> Int]
      /\ motion.pos \in Points(Position) /\ page \in PageRecords(Position)
      /\ UNCHANGED <<maxScroll, touch, timers, enabled, destroyed>>
  BY DEF ScrollTypes, Motions, BarUp
<1>2. \/ /\ opts.snap /\ ~SnapThrows(motion.pos, maxScroll, snap)
         /\ \E k \in Progress :
              Moves(ScrollTo(motion, snap.pos, IsNumber(snap.pos), ~opts.jsBounce), k)
      \/ UNCHANGED motion
  BY DEF BarUp
<1>3. CASE UNCHANGED motion
  <2>1. WillReset => WillReset'
    BY <1>1, <1>3 DEF WillReset, InHand
  <2> QED
    BY <1>1, <1>3, <2>1, StaysFound DEF Found
<1>4. CASE /\ opts.snap /\ ~SnapThrows(motion.pos, maxScroll, snap)
           /\ \E k \in Progress :
                Moves(ScrollTo(motion, snap.pos, IsNumber(snap.pos), ~opts.jsBounce), k)
  <2>1. snap \in PageRecords(Position) /\ IsPage(snap, maxScroll)
    BY <1>1, <1>4, SnapIsPage, PositionIsClosed DEF PageInv
  <2> HIDE DEF snap
  <2>2. Placed(snap.pos, maxScroll) /\ snap.pos \in Points(Position)
    BY <1>1, <2>1, PageIsPlaced
  <2>3. IsNumber(snap.pos) \in BOOLEAN
    BY DEF IsNumber
  <2> QED
    BY <1>1, <1>4, <2>2, <2>3, PlacingFinds
<1> QED
  BY <1>2, <1>3, <1>4

LEMMA OthersFind ==
  ASSUME TimerTypes, ~Stranded, ~Disables,
         \/ WheelTimeout \/ FadeTimeout \/ Resize \/ Switch
         \/ BarDown \/ BarFingerLost \/ ContentChanges \/ UNCHANGED vars
  PROVE  Found
<1>1. /\ UNCHANGED <<motion, maxScroll, touch, destroyed>>
      /\ UNCHANGED enabled \/ Switch
      /\ \/ UNCHANGED timers
         \/ timers' = [timers EXCEPT !.resize = TRUE]
         \/ timers' = [timers EXCEPT !.wheel = "undefined"]
  BY DEF WheelTimeout, FadeTimeout, Resize, Switch, BarDown, BarFingerLost, ContentChanges, vars
<1>2. timers.resize => timers'.resize
  BY <1>1 DEF TimerTypes
<1>3. InHand => InHand'
  BY <1>1 DEF InHand, Disables
<1>4. WillReset => WillReset'
  BY <1>1, <1>2, <1>3 DEF WillReset
<1> QED
  BY <1>1, <1>4, StaysFound DEF Found

Strands ==
  StrayKey \/ StrayFrame \/ PassedOn \/ Destroy \/ BarCrosses \/ ThrownToShown
    \/ Loses \/ SentOutside

LEMMA StepsFind ==
  ASSUME ScrollTypes(Position), ScrollTypes(Position)', PageInv, TimerTypes, ~Stranded,
         [Next]_vars, ~Strands
  PROVE  Found
<1>1. /\ ~StrayKey /\ ~StrayFrame /\ ~PassedOn /\ ~Destroy /\ ~BarCrosses /\ ~ThrownToShown
      /\ ~FingerLost /\ ~Disables /\ ~StrayDrag /\ ~SentOutside
  BY DEF Strands, Loses
<1>2. CASE ByItself
  <2>1. CASE TransitionEnd
    BY <2>1, TransitionEndFinds
  <2>2. CASE AnimationFrame
    BY <1>1, <2>2, AnimationFrameFinds
  <2>3. CASE ResizeTimeout
    BY <2>3, RefreshFinds DEF ResizeTimeout
  <2>4. CASE WheelTimeout \/ FadeTimeout
    BY <1>1, <2>4, OthersFind
  <2> QED
    BY <1>2, <2>1, <2>2, <2>3, <2>4 DEF ByItself
<1>3. CASE UsePointer
  <2>1. CASE PointerDown
    BY <2>1, PointerDownFinds
  <2>2. CASE \E d \in opts.drags : \E recent, late \in BOOLEAN : PointerMove(d, recent, late)
    <3>1. touch.down
      BY <1>1, <2>2 DEF StrayDrag
    <3> QED
      BY <1>1, <2>2, <3>1, PointerMoveFinds
  <2>3. CASE \E quick \in {"tick", "flick", "short", "long"} : PointerUp(quick)
    <3>1. PICK quick \in {"tick", "flick", "short", "long"} : PointerUp(quick)
      BY <2>3
    <3>2. quick \in {"flick", "short"} => (motion.from # None => motion'.from # None)
      BY <1>1, <3>1 DEF ThrownToShown
    <3> QED
      BY <3>1, <3>2, LiftFinds DEF PointerUp
  <2>4. CASE BarDown \/ BarFingerLost
    BY <1>1, <2>4, OthersFind
  <2>5. CASE \E d \in opts.drags : BarMove(d)
    BY <1>1, <2>5, BarMoveFinds
  <2>6. CASE BarUp
    BY <2>6, BarUpFinds
  <2>7. CASE UntouchedCancel
    BY <2>7, LiftFinds DEF UntouchedCancel
  <2> QED
    BY <1>1, <1>3, <2>1, <2>2, <2>3, <2>4, <2>5, <2>6, <2>7 DEF UsePointer
<1>4. CASE UseKeys
  BY <1>1, <1>4, KeyFinds DEF UseKeys
<1>5. CASE UsePage
  <2>1. CASE Resize \/ ContentChanges \/ Switch
    BY <1>1, <2>1, OthersFind
  <2>2. CASE CallRefresh
    BY <2>2, RefreshFinds DEF CallRefresh
  <2>3. CASE NextPage \/ PrevPage
    BY <2>3, NeighbourFinds
  <2>4. CASE \E turn \in opts.turns : Wheel(turn)
    BY <2>4, WheelFinds
  <2>5. CASE \E timed \in BOOLEAN : Sends(timed)
    BY <1>1, <2>5, SendsFind
  <2> QED
    BY <1>1, <1>5, <2>1, <2>2, <2>3, <2>4, <2>5 DEF UsePage
<1>6. CASE UNCHANGED vars
  BY <1>1, <1>6, OthersFind
<1> QED
  BY <1>2, <1>3, <1>4, <1>5, <1>6 DEF Next

(* A step of a scroller that somebody will bring back into bounds, or that  *)
(* is within them, leaves it so; but for the steps that the property names. *)
THEOREM OnlyTheseLeaveItOut == Spec => OnlyTheseStrandIt
<1> DEFINE Inv  == ScrollTypes(Position) /\ PageInv /\ TimerTypes
           Step == ~Stranded /\ Stranded' => \/ StrayKey \/ StrayFrame \/ PassedOn \/ Destroy
                                             \/ BarCrosses \/ ThrownToShown
                                             \/ Loses \/ SentOutside
<1>1. Init => Inv
  <2>1. Init => ScrollTypes(Position) /\ PageInv
    BY StartsInOrder, PositionIsClosed
  <2>2. Init => TimerTypes
    BY DEF Init, TimerTypes
  <2> QED
    BY <2>1, <2>2
<1>2. Inv /\ [Next]_vars => Inv'
  <2>1. Inv /\ [Next]_vars => ScrollTypes(Position)' /\ PageInv' /\ TimerTypes'
    BY StepsKeepOrder, TimersStay, PositionIsClosed
  <2> QED
    BY <2>1
<1>3. ScrollTypes(Position)' /\ Safe(motion, maxScroll)' => ~Stranded'
  BY SafeIsNotStranded, PTL
<1>4. ASSUME Inv, [Next]_vars
      PROVE  Step
  <2> SUFFICES ASSUME ~Stranded, ~Strands
               PROVE  ~Stranded'
    BY DEF Strands
  <2>1. ScrollTypes(Position)'
    BY <1>2, <1>4
  <2>2. Found
    BY <1>4, <2>1, StepsFind
  <2>3. Safe(motion', maxScroll') => Safe(motion, maxScroll)'
    BY DEF Safe, Placed, AllFinite, InBounds
  <2> QED
    BY <1>3, <2>1, <2>2, <2>3 DEF Found
<1>5. Inv /\ [Next]_vars => [Step]_vars
  BY <1>4
<1> HIDE DEF Inv, Step
<1>6. Spec => [][Step]_vars
  BY <1>1, <1>2, <1>5, PTL DEF Spec
<1> QED
  BY <1>6 DEF OnlyTheseStrandIt, Step
=============================================================================
