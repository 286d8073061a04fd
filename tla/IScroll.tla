------------------------------ MODULE IScroll -------------------------------
(***************************************************************************)
(* assets/js/iscroll.js: a scroller delivered with the assets of the       *)
(* administration pages, none of which includes it yet.  One thread        *)
(* handles the events of a finger (or mouse), of the wheel, the keyboard   *)
(* and the window, the end of CSS transitions, animation frames and three  *)
(* kinds of timeouts, in any order; every action below is one handler, run *)
(* to its end, or one call.                                                *)
(*                                                                         *)
(* Lengths are in pixels and positions in thirds of a pixel, in which the  *)
(* drag that is slowed down out of bounds (deltaX / 3) is exact.  A        *)
(* position can also become NaN or infinite (Far, -Far).  Times are the    *)
(* cases the code tells apart.  What is drawn is left out, but not what    *)
(* the browser does with it: a transform that is set while the transition  *)
(* time is not zero is shown later, and ends with an event.                *)
(***************************************************************************)
EXTENDS Integers, Sequences

CONSTANTS
  Wrapper,       \* [Axes -> pixels], the size of the window on the content
  Setups,        \* the options an instance can be created with, and its use
  KeySteps,      \* pixels: what an arrow key adds (5 at first, then more)
  MoveThreshold, \* 10 pixels, below which nothing is scrolled
  LockThreshold, \* directionLockThreshold
  FlickDistance, \* 100 pixels
  MinIndicator,  \* 8 pixels, the least length of a scrollbar's indicator
  NaN, None,
  Steps,         \* bound: how many points of a movement are seen
  Overshoot,     \* bound: pixels that a finger, momentum or a call goes out of bounds
  Reach,         \* bound: pixels between a finger and where it was put down
  MaxFrames      \* bound: animation frames waited for at once

Axes == {"x", "y"}
Px   == 3
Far  == Px * 100000

Options ==
  [scroll : SUBSET Axes, useTransition : BOOLEAN, bounce : BOOLEAN,
   momentum : BOOLEAN, snap : BOOLEAN, freeScroll : BOOLEAN,
   eventPassthrough : Axes \union {"none"},
   jsBounce : BOOLEAN,                  \* bounceEasing has no CSS form
   pointer : BOOLEAN,                   \* not disableMouse, -Pointer and -Touch
   mouseWheel : BOOLEAN, keyBindings : BOOLEAN,
   bar : Axes \union {"none"},          \* interactive and fading scrollbar
   \* Its use, in pixels: the sizes of its content, the ways from one event of
   \* a finger to the next, of the wheel and to an element, the calls, and
   \* whether the browser cancels fingers.
   contents : SUBSET [Axes -> Nat \ {0}],
   drags : SUBSET [Axes -> Int], turns : SUBSET [Axes -> Int],
   calls : SUBSET {"resize", "content", "refresh", "switch", "destroy", "goTo", "element",
                   "scrollTo", "scrollBy", "cancel"}]

ASSUME IScrollAssumption ==
  /\ Wrapper \in [Axes -> Nat \ {0}]
  /\ Setups \subseteq Options
  /\ \A o \in Setups : /\ o.eventPassthrough \notin o.scroll
                        /\ o.eventPassthrough # "none" => ~o.freeScroll
  /\ \A o \in Setups : \A content \in o.contents : \A a \in Axes :
        Px * (content[a] + Overshoot + 1) <= Far
  /\ KeySteps \subseteq Nat
  /\ {MoveThreshold, LockThreshold, FlickDistance, Overshoot, Reach, MaxFrames} \subseteq Nat
  /\ MinIndicator \in Nat /\ Steps \in Nat \ {0}
  /\ NaN \notin Int /\ None \notin [Axes -> Int \union {NaN}]

VARIABLES
  opts,        \* this.options
  size,        \* the size of the content, which the page changes
  maxScroll,   \* [Axes -> thirds], not positive; zero where nothing is scrolled
  motion,      \* where the scroller is and what moves it
  touch,       \* the finger that began on the scroller (down: it is there)
  dirn,        \* directionX, directionY
  page,        \* currentPage: its indices and its position
  timers,      \* resizeTimeout and wheelTimeout
  bar,         \* the finger that began on the scrollbar
  view,        \* what listeners to the events made of them
  enabled, destroyed

vars == <<opts, size, maxScroll, motion, touch, dirn, page, timers, bar, view,
          enabled, destroyed>>

-----------------------------------------------------------------------------
(* Numbers                                                                  *)

Position == Int \union {NaN}

IsFinite(p) == p \notin {NaN, Far, -Far}
Add(p, d)   == IF IsFinite(p) THEN p + d ELSE p
Above(p, q) == p # NaN /\ p > q
Below(p, q) == p # NaN /\ p < q

(* Math.round; the third of a pixel is never half of one.                   *)
RoundPx(p) == IF IsFinite(p) THEN Px * ((2 * p + Px) \div (2 * Px)) ELSE p

(* Math.round(n / d).                                                       *)
RoundDiv(n, d) == IF d > 0 THEN (2 * n + d) \div (2 * d)
                           ELSE (-2 * n - d) \div (-2 * d)

Magnitude(n) == IF n < 0 THEN -n ELSE n
Sign(n)      == IF n > 0 THEN 1 ELSE IF n < 0 THEN -1 ELSE 0
Larger(m, n) == IF m > n THEN m ELSE n

(* newX > 0 ? 0 : newX < maxScrollX ? maxScrollX : newX                     *)
Clamp(p, low) == IF Above(p, 0) THEN 0 ELSE IF Below(p, low) THEN low ELSE p

IsOutside(p, low) == Above(p, 0) \/ Below(p, low)

Nowhere == [a \in Axes |-> 0]

-----------------------------------------------------------------------------
(* Movement: how a handler changes motion                                   *)

(* A point of a movement, steps of Steps on its way.                        *)
Between(p, q, k) ==
  IF IsFinite(p) /\ IsFinite(q) THEN p + ((q - p) * k) \div Steps ELSE NaN

(* getComputedPosition: where the browser shows the scroller.               *)
Shown(m, k) ==
  [a \in Axes |-> IF m.from = None THEN m.pos[a] ELSE Between(m.from[a], m.pos[a], k)]

(* The browser looks at the style when a handler is over: a new transform   *)
(* starts a transition from what is shown, if the transition time is not   *)
(* zero, and else ends the one under way.                                  *)
Paint(m, n, k) ==
  [n EXCEPT !.from = CASE n.pos = m.pos -> m.from
                       [] n.pos # m.pos /\ n.timed /\ Shown(m, k) # n.pos
                            /\ (\A a \in Axes : IsFinite(n.pos[a])
                                                  /\ IsFinite(Shown(m, k)[a])) -> Shown(m, k)
                       [] OTHER -> None]

TransitionTime(m, timed) == IF opts.useTransition THEN [m EXCEPT !.timed = timed] ELSE m

Translate(m, p) == [m EXCEPT !.pos = p]

(* _animate and its first step(); the others come with animation frames.    *)
Animate(m, p) ==
  [m EXCEPT !.isAnimating = TRUE,
            !.pos = [a \in Axes |-> Between(m.pos[a], p[a], 0)],
            !.frames = Append(@, [from |-> m.pos, dest |-> p, done |-> 0])]

(* timed: the time is positive (not 0, undefined or NaN); css: the easing   *)
(* function has a CSS form.                                                *)
ScrollTo(m, p, timed, css) ==
  LET n == [m EXCEPT !.inTransition = opts.useTransition /\ timed]
  IN  CASE opts.useTransition /\ css -> Translate(TransitionTime(n, timed), p)
        [] ~(opts.useTransition /\ css) /\ ~timed -> Translate(n, p)
        [] OTHER -> Animate(n, p)

Has(low, a) == low[a] < 0

ResetTarget(p, low) ==
  [a \in Axes |-> IF ~Has(low, a) THEN 0 ELSE Clamp(p[a], low[a])]

(* Faulty variant: the bounds themselves are taken for out of bounds.       *)
IsAtBounds(m, low) ==
  \E a \in Axes : Has(low, a) /\ m.pos[a] \notin low[a] + 1 .. -1

(* x == this.x && y == this.y does not hold for NaN.                        *)
NeedsReset(m, low) ==
  \/ ResetTarget(m.pos, low) # m.pos
  \/ \E a \in Axes : ResetTarget(m.pos, low)[a] = NaN

(* Faulty variant: only what is below 0 is looked at.                       *)
ResetFromAbove(m, low, timed) ==
  IF \E a \in Axes : Above(m.pos[a], 0)
  THEN ScrollTo(m, ResetTarget(m.pos, low), timed, ~opts.jsBounce) ELSE m

ResetPosition(m, low, timed) ==
  IF NeedsReset(m, low)
  THEN ScrollTo(m, ResetTarget(m.pos, low), timed, ~opts.jsBounce) ELSE m

(* utils.momentum: where a finger that has moved from s to p sends the      *)
(* scroller.  Within one tick of the clock its speed is n / 0 or 0 / 0.     *)
Momentum(p, s, low, withinTick) ==
  LET out  == IF opts.bounce THEN Px * Overshoot ELSE 0
      gone == Sign(p - s)
      fast == withinTick \/ ~IsFinite(s)
  IN  CASE NaN \in {p, s}       -> {NaN}
        [] OTHER ->
           CASE fast /\ gone = 0   -> {NaN}
             [] fast /\ gone = 1   -> {IF opts.bounce THEN Far ELSE 0}
             [] fast /\ gone = -1  -> {IF opts.bounce THEN -Far ELSE low}
             [] ~fast /\ gone = 0  -> {p}
             [] ~fast /\ gone = 1  -> {q \in p .. out : q % Px = 0}
             [] ~fast /\ gone = -1 -> {q \in low - out .. p : q % Px = 0}

-----------------------------------------------------------------------------
(* Pages of the size of the wrapper, to which a scroller can snap           *)

PageCount(low, a)  == (2 * Px * Wrapper[a] - low[a] - 1) \div (Px * Wrapper[a])
PagePos(low, a, i) == Larger(-(i * Px * Wrapper[a]), low[a])
PageMid(a, i)      == -(i * Px * Wrapper[a]) - Px * RoundDiv(Wrapper[a], 2)
Threshold(a)       == Px * RoundDiv(Wrapper[a] * 334, 1000)

PageAt(low, at) == [at |-> at, pos |-> [a \in Axes |-> PagePos(low, a, at[a])]]

(* Faulty variant: none is taken to be before the first.                    *)
WithinAbove(i, count)  == IF i >= count THEN count - 1 ELSE i

Within(i, count) == IF i >= count THEN count - 1 ELSE IF i < 0 THEN 0 ELSE i

(* The first page whose middle is not past p; none of them is past NaN.     *)
FirstPage(low, a, p) ==
  LET passed == {i \in 0 .. PageCount(low, a) - 1 : p # NaN /\ p >= PageMid(a, i)}
  IN  IF passed = {} THEN PageCount(low, a)
      ELSE CHOOSE i \in passed : \A j \in passed : i <= j

(* Near where the finger began the page is kept; a page that would be the   *)
(* present one again is taken one further in the direction of the drag.    *)
NearestSnap(p, low, begun, way, current) ==
  LET near(a) == /\ IsFinite(p[a]) /\ IsFinite(begun[a])
                 /\ Magnitude(p[a] - begun[a]) < Threshold(a)
      i(a) == FirstPage(low, a, Clamp(p[a], low[a]))
      j(a) == IF i(a) = current.at[a]
              THEN Within(i(a) + way[a], PageCount(low, a)) ELSE i(a)
  IN  IF \A a \in Axes : near(a) THEN current
      ELSE [at |-> [a \in Axes |-> j(a)],
            pos |-> [a \in Axes |-> IF j(a) < PageCount(low, a)
                                    THEN PagePos(low, a, j(a)) ELSE Clamp(p[a], low[a])]]

(* this.pages[i] is undefined after the last column.                        *)
SnapThrows(p, low, snap) == snap.at["x"] >= PageCount(low, "x")

PageFor(low, at) == PageAt(low, [a \in Axes |-> Within(at[a], PageCount(low, a))])

(* goToPage, without the assignment to currentPage, which is PageFor.  The  *)
(* time it chooses when it is given none is NaN if the position is.        *)
GoTo(m, low, at, timed) == ScrollTo(m, PageFor(low, at).pos, timed, ~opts.jsBounce)
IsNumber(p)             == \A a \in Axes : p[a] # NaN

Turned(at, delta) == [a \in Axes |-> at[a] + delta[a]]

-----------------------------------------------------------------------------
(* The scrollbar (Indicator): as long as the wrapper, interactive, fading   *)

ContentLength(low) == Wrapper[opts.bar] * Px - low[opts.bar]
IndicatorSize(low) ==
  Larger(RoundDiv(Wrapper[opts.bar] * Wrapper[opts.bar] * Px, ContentLength(low)), MinIndicator)
MaxPos(low) == Wrapper[opts.bar] - IndicatorSize(low)

(* updatePosition: what is not a number is taken for 0.                     *)
IndicatorPos(p, low) ==
  IF p = NaN \/ MaxPos(low) = 0 \/ low[opts.bar] = 0 THEN 0
  ELSE LET i == RoundDiv(MaxPos(low) * (-p), -low[opts.bar])
       IN  IF i < 0 THEN 0 ELSE IF i > MaxPos(low) THEN MaxPos(low) ELSE i

(* Faulty variant: the last pixel of the room is left out of the ratio.     *)
FollowShort(i, low) ==
  LET room == MaxPos(low) - 1
      x == IF i < 0 THEN 0 ELSE IF i > room THEN room ELSE i
  IN  IF room <= 0 \/ low[opts.bar] = 0 THEN NaN
      ELSE Px * RoundDiv(x * (low[opts.bar] \div Px), room)

(* _pos: where the scroller goes when the indicator is dragged to i; the    *)
(* ratio it divides by is 0 when there is no room for the indicator.       *)
FollowIndicator(i, low) ==
  LET room == MaxPos(low)
      x == IF i < 0 THEN 0 ELSE IF i > room THEN room ELSE i
  IN  IF room = 0 \/ low[opts.bar] = 0 THEN NaN
      ELSE Px * RoundDiv(x * (low[opts.bar] \div Px), room)

(* Faulty variant: nobody listens to scrollCancel.                          *)
HearNoCancel(v, e) ==
  LET heard == [v EXCEPT !.scrolling = IF e = "scrollStart" THEN TRUE
                                       ELSE IF e = "scrollEnd" THEN FALSE ELSE @]
  IN  CASE opts.bar = "none" \/ destroyed \/ e = "scrollCancel" -> heard
        [] e = "beforeScrollStart" /\ ~v.visible -> heard
        [] e = "scrollEnd" -> [heard EXCEPT !.timer = "hide"]
        [] OTHER           -> [heard EXCEPT !.timer = "show"]

(* What the listeners do on _execEvent(e): whoever follows the scroller     *)
(* takes it for scrolling or not, and the scrollbar fades in or out.        *)
Hear(v, e) ==
  LET heard == [v EXCEPT !.scrolling = CASE e = "scrollStart" -> TRUE
                                         [] e \in {"scrollEnd", "scrollCancel"} -> FALSE
                                         [] OTHER -> @]
      fade(t) == [heard EXCEPT !.timer = t]
  IN  CASE opts.bar = "none" \/ destroyed           -> heard
        [] e \in {"scrollEnd", "scrollCancel"}      -> fade("hide")
        [] e = "scrollStart"                        -> fade("show")
        [] e = "beforeScrollStart" /\ v.visible     -> fade("show")
        [] OTHER                                    -> heard

-----------------------------------------------------------------------------
MaxScrollOf(o, content) ==
  [a \in Axes |-> IF a \in o.scroll /\ Wrapper[a] < content[a]
                  THEN Px * (Wrapper[a] - content[a]) ELSE 0]

(* The constructor: with _init(), refresh(), scrollTo(0, 0) and enable().   *)
Init ==
  /\ opts \in Setups /\ size \in opts.contents
  /\ maxScroll = MaxScrollOf(opts, size)
  /\ motion = [pos |-> Nowhere, from |-> None, timed |-> FALSE, inTransition |-> FALSE,
               isAnimating |-> FALSE, frames |-> <<>>]
  /\ touch = [initiated |-> FALSE, moved |-> FALSE, dist |-> Nowhere, locked |-> "no",
              start |-> Nowhere, absStart |-> [a \in Axes |-> NaN], ended |-> FALSE,
              down |-> FALSE, untouched |-> opts.pointer /\ "cancel" \in opts.calls]
  /\ dirn = Nowhere
  /\ page = PageAt(maxScroll, Nowhere)
  /\ timers = [resize |-> FALSE, wheel |-> "undefined"]
  /\ bar = [held |-> FALSE, moved |-> FALSE, down |-> FALSE]
  /\ view = [scrolling |-> FALSE, visible |-> FALSE, timer |-> "none"]
  /\ enabled = TRUE /\ destroyed = FALSE

(* How much of a running transition is shown when a handler interrupts it.  *)
Progress == IF motion.from = None THEN {0} ELSE 0 .. Steps

Moves(n, k) ==
  /\ Len(n.frames) <= MaxFrames
  /\ motion' = Paint(motion, n, k)

-----------------------------------------------------------------------------
(* The finger on the scroller                                               *)

(* What is not read is not kept: all but two of these once the finger is    *)
(* gone, startX where nothing is thrown, absStartX where there are no pages. *)
Kept(t) ==
  LET live == IF t.initiated THEN t
              ELSE [t EXCEPT !.moved = FALSE, !.dist = Nowhere, !.locked = "no",
                             !.start = Nowhere, !.down = FALSE]
  IN  [live EXCEPT !.start = IF opts.snap \/ opts.momentum THEN @ ELSE Nowhere,
                   !.absStart = IF opts.snap THEN @ ELSE Nowhere]

PointerDown ==
  /\ opts.pointer /\ enabled /\ ~destroyed
  /\ LET transition == opts.useTransition /\ motion.inTransition
         animation  == ~opts.useTransition /\ motion.isAnimating
     IN  /\ \E k \in Progress :
              Moves(IF transition
                    THEN [motion EXCEPT !.timed = FALSE, !.inTransition = FALSE,
                            !.pos = [a \in Axes |-> RoundPx(Shown(motion, k)[a])]]
                    ELSE [motion EXCEPT !.isAnimating = @ /\ ~animation], k)
         /\ view' = Hear(IF transition \/ animation THEN Hear(view, "scrollEnd") ELSE view,
                         "beforeScrollStart")
  /\ touch' = Kept([touch EXCEPT !.initiated = TRUE, !.moved = FALSE, !.dist = Nowhere,
                                 !.locked = "no", !.start = motion'.pos,
                                 !.absStart = motion'.pos, !.down = TRUE,
                                 !.untouched = FALSE])
  /\ dirn' = Nowhere
  /\ UNCHANGED <<opts, size, maxScroll, page, timers, bar, enabled, destroyed>>

(* An axis whose events are passed through is told apart at once.           *)
Lock(dist) ==
  LET margin == IF opts.eventPassthrough = "none" THEN LockThreshold ELSE 0
  IN  CASE opts.freeScroll \/ touch.locked # "no" -> touch.locked
        [] Magnitude(dist["x"]) > Magnitude(dist["y"]) + margin  -> "h"
        [] Magnitude(dist["y"]) >= Magnitude(dist["x"]) + margin -> "v"
        [] OTHER -> "n"

(* The axis that a lock leaves to the finger.                               *)
FollowsFinger(a, locked) ==
  /\ Has(maxScroll, a)
  /\ locked = "h" => a = "x"
  /\ locked = "v" => a = "y"

(* A drag out of bounds goes a third of the way, or nowhere.                *)
Dragged(p, d, low) ==
  IF ~IsOutside(Add(p, Px * d), low) THEN Add(p, Px * d)
  ELSE IF opts.bounce THEN Add(p, d) ELSE Clamp(Add(p, Px * d), low)

(* recent: no more than 300 ms after the last touch; late: more than 300 ms *)
(* after startTime, which then begins anew.                                *)
PointerMove(d, recent, late) ==
  LET dist   == [a \in Axes |-> touch.dist[a] + d[a]]
      locked == Lock(dist)
      delta  == [a \in Axes |-> IF FollowsFinger(a, locked) THEN d[a] ELSE 0]
      short  == ~recent /\ \A a \in Axes : Magnitude(dist[a]) < MoveThreshold
      passed == \/ locked = "h" /\ opts.eventPassthrough = "x"
                \/ locked = "v" /\ opts.eventPassthrough = "y"
  IN  /\ enabled /\ ~destroyed /\ touch.initiated
      /\ recent => touch.ended
      /\ \A a \in Axes : Magnitude(dist[a]) <= Reach
      /\ \/ /\ short
            /\ touch' = [touch EXCEPT !.dist = dist]
            /\ UNCHANGED <<motion, dirn, view>>
         \/ /\ ~short /\ passed
            /\ touch' = Kept([touch EXCEPT !.initiated = FALSE])
            /\ UNCHANGED <<motion, dirn, view>>
         \/ /\ ~short /\ ~passed
            /\ \E k \in Progress :
                 Moves(Translate(motion,
                         [a \in Axes |-> Dragged(motion.pos[a], delta[a], maxScroll[a])]), k)
            /\ \A a \in Axes : IsFinite(motion.pos[a]) =>
                 motion'.pos[a] \in maxScroll[a] - Px * Overshoot .. Px * Overshoot
            /\ dirn' = [a \in Axes |-> -Sign(delta[a])]
            /\ view' = IF touch.moved THEN view ELSE Hear(view, "scrollStart")
            /\ touch' = Kept([touch EXCEPT !.dist = dist, !.locked = locked, !.moved = TRUE,
                                           !.start = IF late THEN motion'.pos ELSE @])
      /\ UNCHANGED <<opts, size, maxScroll, page, timers, bar, enabled, destroyed>>

(* Where momentum would take the scroller, on each axis it can scroll.      *)
Throws(m, withinTick) ==
  LET to(a) == IF Has(maxScroll, a)
               THEN Momentum(m.pos[a], touch.start[a], maxScroll[a], withinTick)
               ELSE {m.pos[a]}
  IN  {p \in [Axes -> to("x") \union to("y")] : \A a \in Axes : p[a] \in to(a)}

SnapOf(target) == NearestSnap(target, maxScroll, touch.absStart, dirn, page)

(* Faulty variant: newX = snap.x is forgotten.                              *)
GoalBeforeSnap(target) == target

Goal(target) == IF opts.snap THEN SnapOf(target).pos ELSE target

(* The end of a drag, from where it was rounded to.  quick: in the tick in  *)
(* which startTime was set, within 200 ms ("flick"), within 300 ("short").  *)
Release(m, quick, k) ==
  LET thrown == opts.momentum /\ quick # "long"
      n      == IF thrown THEN [m EXCEPT !.inTransition = TRUE] ELSE m
  IN  \E target \in IF thrown THEN Throws(m, quick = "tick") ELSE {m.pos} :
        LET snap  == SnapOf(target)
            goal  == Goal(target)
            out   == \E a \in Axes : IsOutside(goal[a], maxScroll[a])
            timed == IF opts.snap THEN IsNumber(target)
                     ELSE quick # "tick" /\ \A a \in Axes : IsFinite(target[a])
        IN  \/ /\ opts.snap /\ SnapThrows(target, maxScroll, snap)
               /\ Moves(n, k)
               /\ UNCHANGED <<page, dirn, view>>
            \/ /\ ~(opts.snap /\ SnapThrows(target, maxScroll, snap))
               /\ page' = IF opts.snap THEN snap ELSE page
               /\ dirn' = IF opts.snap THEN Nowhere ELSE dirn
               /\ IF goal = m.pos /\ IsNumber(goal)
                  THEN Moves(n, k) /\ view' = Hear(view, "scrollEnd")
                  ELSE /\ Moves(ScrollTo(n, goal, timed,
                                         out \/ ~opts.snap \/ ~opts.jsBounce), k)
                       /\ UNCHANGED view

(* Only pages listen to a flick.                                            *)
IsFlick(m, quick) ==
  /\ opts.snap /\ quick \in {"tick", "flick"}
  /\ \A a \in Axes : /\ IsFinite(m.pos[a]) /\ IsFinite(touch.start[a])
                     /\ Magnitude(m.pos[a] - touch.start[a]) < Px * FlickDistance

Lift(quick) ==
  LET landed  == [motion EXCEPT !.inTransition = FALSE]
      rounded == ScrollTo(landed, [a \in Axes |-> RoundPx(motion.pos[a])], FALSE, TRUE)
  IN  /\ enabled /\ ~destroyed
      /\ touch' = Kept([touch EXCEPT !.initiated = FALSE, !.ended = TRUE, !.untouched = FALSE])
      /\ \E k \in Progress :
           \/ /\ NeedsReset(landed, maxScroll)
              /\ Moves(ResetPosition(landed, maxScroll, TRUE), k)
              /\ UNCHANGED <<page, dirn, view>>
           \/ /\ ~NeedsReset(landed, maxScroll) /\ ~touch.moved
              /\ Moves(rounded, k)
              /\ view' = Hear(view, "scrollCancel")
              /\ UNCHANGED <<page, dirn>>
           \/ /\ ~NeedsReset(landed, maxScroll) /\ touch.moved /\ IsFlick(rounded, quick)
              /\ page' = PageFor(maxScroll, Turned(page.at, dirn))
              /\ Moves(GoTo(rounded, maxScroll, Turned(page.at, dirn), TRUE), k)
              /\ UNCHANGED <<dirn, view>>
           \/ /\ ~NeedsReset(landed, maxScroll) /\ touch.moved /\ ~IsFlick(rounded, quick)
              /\ Release(rounded, quick, k)
      /\ UNCHANGED <<opts, size, maxScroll, timers, bar, enabled, destroyed>>

PointerUp(quick) == touch.initiated /\ Lift(quick)

(* A finger is cancelled by the browser, or lifted while the scroller is    *)
(* disabled: _end() returns at once, and the finger is still taken to be    *)
(* there, by listeners on the window that hear any other one.              *)
FingerLost ==
  /\ touch.down /\ ~destroyed
  /\ "cancel" \in opts.calls \/ ~enabled
  /\ touch' = [touch EXCEPT !.down = FALSE]
  /\ UNCHANGED <<opts, size, maxScroll, motion, dirn, page, timers, bar, view, enabled, destroyed>>

(* Before the first touch this.initiated is undefined, and so is the type   *)
(* of a cancel event: that of any finger on the window is taken for the     *)
(* end of a touch that did not move.                                       *)
UntouchedCancel == touch.untouched /\ Lift("long")

-----------------------------------------------------------------------------
(* The end of movements                                                     *)

(* The browser ends a transition; the event is heard even if the scroller   *)
(* no longer waits for it.                                                 *)
TransitionEnd ==
  LET waited == motion.inTransition /\ ~destroyed
      over   == [motion EXCEPT !.from = None]
      still  == TransitionTime(over, FALSE)
      reset  == NeedsReset(still, maxScroll)
      after  == CASE ~waited          -> over
                  [] waited /\ reset  -> ResetPosition(still, maxScroll, TRUE)
                  [] waited /\ ~reset -> [still EXCEPT !.inTransition = FALSE]
  IN  /\ motion.from # None
      /\ Len(after.frames) <= MaxFrames
      /\ motion' = Paint(over, after, Steps)
      /\ view' = IF waited /\ ~reset THEN Hear(view, "scrollEnd") ELSE view
      /\ UNCHANGED <<opts, size, maxScroll, touch, dirn, page, timers, bar, enabled, destroyed>>

(* step(): the oldest of the frames waited for.                             *)
AnimationFrame ==
  LET step == Head(motion.frames)
      rest == [motion EXCEPT !.frames = Tail(@)]
      at(i) == [a \in Axes |-> Between(step.from[a], step.dest[a], i)]
      over  == Translate([rest EXCEPT !.isAnimating = FALSE], step.dest)
  IN  /\ motion.frames # <<>>
      /\ \E k \in Progress :
           \/ \E i \in step.done + 1 .. Steps - 1 :
                /\ Moves(Translate(IF motion.isAnimating
                                   THEN [rest EXCEPT !.frames = Append(@, [step EXCEPT !.done = i])]
                                   ELSE rest, at(i)), k)
                /\ UNCHANGED view
           \/ /\ Moves(ResetPosition(over, maxScroll, TRUE), k)
              /\ view' = IF NeedsReset(over, maxScroll) THEN view ELSE Hear(view, "scrollEnd")
      /\ UNCHANGED <<opts, size, maxScroll, touch, dirn, page, timers, bar, enabled, destroyed>>

-----------------------------------------------------------------------------
(* The wheel and the keyboard                                               *)

(* Where only the other axis can be scrolled the wheel turns that one.      *)
Wheel(turn) ==
  LET delta == IF Has(maxScroll, "y") THEN turn ELSE [x |-> turn["y"], y |-> 0]
      at    == Turned(page.at, [a \in Axes |-> -Sign(delta[a])])
      to    == [a \in Axes |-> Clamp(Add(motion.pos[a], IF Has(maxScroll, a) THEN Px * delta[a]
                                                        ELSE 0), maxScroll[a])]
  IN  /\ opts.mouseWheel /\ enabled /\ ~destroyed
      /\ view' = IF timers.wheel = "undefined" THEN Hear(view, "scrollStart") ELSE view
      /\ timers' = [timers EXCEPT !.wheel = "pending"]
      /\ \E k \in Progress :
           IF opts.snap
           THEN /\ page' = PageFor(maxScroll, at)
                /\ Moves(GoTo(motion, maxScroll, at, IsNumber(motion.pos)), k)
                /\ UNCHANGED dirn
           ELSE /\ Moves(ScrollTo(motion, to, FALSE, TRUE), k)
                /\ dirn' = [a \in Axes |-> -Sign(delta[a])]
                /\ UNCHANGED page
      /\ UNCHANGED <<opts, size, maxScroll, touch, bar, enabled, destroyed>>

(* Faulty variant: the end is forgotten.                                    *)
WheelStops ==
  /\ timers.wheel = "pending"
  /\ timers' = [timers EXCEPT !.wheel = "undefined"]
  /\ UNCHANGED <<opts, size, maxScroll, motion, touch, dirn, page, bar, view, enabled, destroyed>>

WheelTimeout ==
  /\ timers.wheel = "pending"
  /\ timers' = [timers EXCEPT !.wheel = "undefined"]
  /\ view' = IF opts.snap THEN view ELSE Hear(view, "scrollEnd")
  /\ UNCHANGED <<opts, size, maxScroll, motion, touch, dirn, page, bar, enabled, destroyed>>

Keys == {"pageUp", "pageDown", "end", "home", "left", "up", "right", "down", "other"}

(* What a key adds to the position, in pixels.                              *)
KeyDelta(key, step) ==
  LET paged == IF Has(maxScroll, "x") /\ ~Has(maxScroll, "y") THEN "x" ELSE "y"
      along(a, d) == [Nowhere EXCEPT ![a] = d]
  IN  CASE key = "pageUp"   -> along(paged, Wrapper[paged])
        [] key = "pageDown" -> along(paged, -Wrapper[paged])
        [] key = "left"     -> along("x", step)
        [] key = "up"       -> along("y", step)
        [] key = "right"    -> along("x", -step)
        [] key = "down"     -> along("y", -step)

(* With pages, pageUp and up go to the next one.                            *)
KeyPage(key) ==
  LET paged == IF Has(maxScroll, "x") /\ ~Has(maxScroll, "y") THEN "x" ELSE "y"
      along(a, d) == Turned(page.at, [Nowhere EXCEPT ![a] = d])
  IN  CASE key = "pageUp"   -> along(paged, 1)
        [] key = "pageDown" -> along(paged, -1)
        [] key = "end"      -> [a \in Axes |-> PageCount(maxScroll, a) - 1]
        [] key = "home"     -> Nowhere
        [] key = "left"     -> along("x", -1)
        [] key = "up"       -> along("y", 1)
        [] key = "right"    -> along("x", 1)
        [] key = "down"     -> along("y", -1)

(* What is added is added to where the transition was going, not to where   *)
(* it is stopped.                                                          *)
Key(key, step) ==
  LET stops(k) ==
        IF opts.useTransition /\ motion.inTransition
        THEN [motion EXCEPT !.inTransition = FALSE,
                            !.pos = [a \in Axes |-> RoundPx(Shown(motion, k)[a])]]
        ELSE motion
      to == CASE key = "home" -> Nowhere
              [] key = "end"  -> maxScroll
              [] OTHER -> [a \in Axes |-> Clamp(Add(motion.pos[a], Px * KeyDelta(key, step)[a]),
                                                maxScroll[a])]
  IN  /\ opts.keyBindings /\ enabled /\ ~destroyed
      /\ \E k \in Progress :
           \/ /\ key = "other"
              /\ Moves(stops(k), k)
              /\ UNCHANGED page
           \/ /\ key # "other" /\ opts.snap
              /\ page' = PageFor(maxScroll, KeyPage(key))
              /\ Moves(GoTo(stops(k), maxScroll, KeyPage(key), IsNumber(stops(k).pos)), k)
           \/ /\ key # "other" /\ ~opts.snap
              /\ Moves(ScrollTo(stops(k), to, FALSE, TRUE), k)
              /\ UNCHANGED page
      /\ UNCHANGED <<opts, size, maxScroll, touch, dirn, timers, bar, view, enabled, destroyed>>

-----------------------------------------------------------------------------
(* The window, the content and the page that uses the scroller              *)

Resize ==
  /\ "resize" \in opts.calls /\ ~destroyed
  /\ timers' = [timers EXCEPT !.resize = TRUE]
  /\ UNCHANGED <<opts, size, maxScroll, motion, touch, dirn, page, bar, view, enabled, destroyed>>

(* The page changes what is scrolled; the scroller is not told.             *)
ContentChanges ==
  /\ "content" \in opts.calls /\ size' \in opts.contents \ {size}
  /\ UNCHANGED <<opts, maxScroll, motion, touch, dirn, page, timers, bar, view, enabled, destroyed>>

(* refresh(): with pages, to the current one, as far as it still exists.    *)
Refresh ==
  LET low == MaxScrollOf(opts, size)
      n   == IF opts.snap THEN GoTo(motion, low, page.at, FALSE) ELSE motion
  IN  /\ maxScroll' = low
      /\ touch' = [touch EXCEPT !.ended = FALSE]
      /\ dirn' = Nowhere
      /\ page' = IF opts.snap THEN PageFor(low, page.at) ELSE page
      /\ \E k \in Progress : Moves(ResetPosition(n, low, FALSE), k)
      /\ UNCHANGED <<opts, size, bar, view, enabled, destroyed>>

CallRefresh   == "refresh" \in opts.calls /\ ~destroyed /\ Refresh /\ UNCHANGED timers
ResizeTimeout == timers.resize /\ Refresh /\ timers' = [timers EXCEPT !.resize = FALSE]

Switch ==
  /\ "switch" \in opts.calls /\ ~destroyed
  /\ enabled' = ~enabled
  /\ UNCHANGED <<opts, size, maxScroll, motion, touch, dirn, page, timers, bar, view, destroyed>>

(* The listeners on 'destroy': no handler hears an event any more, but      *)
(* frames that were asked for still come, and the fading is not stopped.   *)
Destroy ==
  /\ "destroy" \in opts.calls /\ ~destroyed /\ destroyed' = TRUE
  /\ timers' = [resize |-> FALSE,
                wheel |-> IF opts.mouseWheel THEN "null" ELSE timers.wheel]
  /\ bar' = [bar EXCEPT !.held = FALSE, !.down = FALSE]
  /\ UNCHANGED <<opts, size, maxScroll, motion, touch, dirn, page, view, enabled>>

(* goToPage(), and next() and prev(), which run over into the next row.     *)
GoToPage(at, timed) ==
  /\ "goTo" \in opts.calls /\ opts.snap /\ ~destroyed
  /\ page' = PageFor(maxScroll, at)
  /\ \E k \in Progress : Moves(GoTo(motion, maxScroll, at, timed), k)
  /\ UNCHANGED <<opts, size, maxScroll, touch, dirn, timers, bar, view, enabled, destroyed>>

NextPage ==
  LET runsOver == page.at["x"] + 1 >= PageCount(maxScroll, "x") /\ Has(maxScroll, "y")
  IN  GoToPage(IF runsOver THEN [x |-> 0, y |-> page.at["y"] + 1]
               ELSE [page.at EXCEPT !["x"] = @ + 1], IsNumber(motion.pos))

PrevPage ==
  LET runsOver == page.at["x"] < 1 /\ Has(maxScroll, "y")
  IN  GoToPage(IF runsOver THEN [x |-> 0, y |-> page.at["y"] - 1]
               ELSE [page.at EXCEPT !["x"] = @ - 1], IsNumber(motion.pos))

(* The page sends the scroller somewhere, in a time or at once, in a way    *)
(* that CSS knows or not; a scroller with pages is not kept to them.        *)
Send(p, timed, css) ==
  /\ ~destroyed
  /\ \E k \in Progress : Moves(ScrollTo(motion, p, timed, css), k)
  /\ UNCHANGED <<opts, size, maxScroll, touch, dirn, page, timers, bar, view, enabled, destroyed>>

(* Bound: how far out of bounds it is sent.                                 *)
Room(a) == maxScroll[a] - Px * Overshoot .. Px * Overshoot

CallScrollTo(to, timed, css) ==
  /\ "scrollTo" \in opts.calls
  /\ \A a \in Axes : Px * to[a] \in Room(a)
  /\ Send([a \in Axes |-> Px * to[a]], timed, css)

CallScrollBy(way, timed, css) ==
  LET to == [a \in Axes |-> Add(motion.pos[a], Px * way[a])]
  IN  /\ "scrollBy" \in opts.calls
      /\ \A a \in Axes : IsFinite(motion.pos[a]) => to[a] \in Room(a)
      /\ Send(to, timed, css)

(* To an element of the content, as near as the bounds allow.               *)
ScrollToElement(offset, timed, css) ==
  /\ "element" \in opts.calls
  /\ Send([a \in Axes |-> Clamp(Px * offset[a], maxScroll[a])], timed, css)

-----------------------------------------------------------------------------
(* The finger on the scrollbar                                              *)

BarDown ==
  /\ opts.bar # "none" /\ ~destroyed /\ Has(maxScroll, opts.bar) /\ ~bar.down
  /\ bar' = [held |-> TRUE, moved |-> FALSE, down |-> TRUE]
  /\ view' = Hear(view, "beforeScrollStart")
  /\ UNCHANGED <<opts, size, maxScroll, motion, touch, dirn, page, timers, enabled, destroyed>>

(* scrollTo() on the axis of the bar; the position on the other is kept.    *)
BarMove(d) ==
  LET at == IndicatorPos(motion.pos[opts.bar], maxScroll) + d[opts.bar]
  IN  /\ bar.held
      /\ bar' = [bar EXCEPT !.moved = TRUE]
      /\ view' = IF bar.moved THEN view ELSE Hear(view, "scrollStart")
      /\ \E k \in Progress :
           Moves(ScrollTo(motion,
                          [motion.pos EXCEPT ![opts.bar] = FollowIndicator(at, maxScroll)],
                          FALSE, TRUE), k)
      /\ UNCHANGED <<opts, size, maxScroll, touch, dirn, page, timers, enabled, destroyed>>

BarUp ==
  LET snap   == NearestSnap(motion.pos, maxScroll, touch.absStart, dirn, page)
      throws == opts.snap /\ SnapThrows(motion.pos, maxScroll, snap)
      snaps  == opts.snap /\ (snap.pos # motion.pos \/ ~IsNumber(motion.pos))
  IN  /\ bar.held
      /\ bar' = [bar EXCEPT !.held = FALSE, !.down = FALSE]
      /\ IF snaps /\ ~throws
         THEN /\ dirn' = Nowhere /\ page' = snap
              /\ \E k \in Progress :
                   Moves(ScrollTo(motion, snap.pos, IsNumber(snap.pos), ~opts.jsBounce), k)
         ELSE UNCHANGED <<motion, dirn, page>>
      /\ view' = IF bar.moved /\ ~throws THEN Hear(view, "scrollEnd") ELSE view
      /\ UNCHANGED <<opts, size, maxScroll, touch, timers, enabled, destroyed>>

(* The bar does not listen to a cancel event.                               *)
BarFingerLost ==
  /\ "cancel" \in opts.calls /\ bar.down
  /\ bar' = [bar EXCEPT !.down = FALSE]
  /\ UNCHANGED <<opts, size, maxScroll, motion, touch, dirn, page, timers, view, enabled, destroyed>>

FadeTimeout ==
  /\ view.timer # "none"
  /\ view' = [view EXCEPT !.visible = (view.timer = "show"), !.timer = "none"]
  /\ UNCHANGED <<opts, size, maxScroll, motion, touch, dirn, page, timers, bar, enabled, destroyed>>

-----------------------------------------------------------------------------
(* What comes by itself, once the page and its user leave the scroller.     *)
ByItself == \/ TransitionEnd \/ AnimationFrame
            \/ WheelTimeout \/ ResizeTimeout \/ FadeTimeout

UsePointer ==
  \/ PointerDown
  \/ \E d \in opts.drags : \E recent, late \in BOOLEAN : PointerMove(d, recent, late)
  \/ \E quick \in {"tick", "flick", "short", "long"} : PointerUp(quick)
  \/ FingerLost \/ UntouchedCancel
  \/ BarDown
  \/ \E d \in opts.drags : BarMove(d)
  \/ BarUp \/ BarFingerLost

UseKeys == \E key \in Keys : \E step \in KeySteps : Key(key, step)

SendsAnywhere(timed) ==
  \E way \in opts.turns : \E css \in {TRUE, ~opts.jsBounce} :
    CallScrollTo(way, timed, css) \/ CallScrollBy(way, timed, css)

SendsToElement(timed) ==
  \E way \in opts.turns : \E css \in {TRUE, ~opts.jsBounce} : ScrollToElement(way, timed, css)

Sends(timed) == SendsAnywhere(timed) \/ SendsToElement(timed)

UsePage ==
  \/ Resize \/ ContentChanges \/ CallRefresh \/ Switch \/ Destroy
  \/ NextPage \/ PrevPage
  \/ \E turn \in opts.turns : Wheel(turn)
  \/ \E timed \in BOOLEAN : Sends(timed)

Next == ByItself \/ UsePointer \/ UseKeys \/ UsePage

(* The browser ends transitions, asks for frames and runs timeouts.         *)
Fairness == WF_vars(TransitionEnd) /\ WF_vars(AnimationFrame) /\ WF_vars(WheelTimeout)
              /\ WF_vars(ResizeTimeout) /\ WF_vars(FadeTimeout)

Spec == Init /\ [][Next]_vars /\ Fairness

-----------------------------------------------------------------------------
(* Properties                                                               *)

AllFinite(p) == \A a \in Axes : IsFinite(p[a])

(* A finger is there, and will be heard when it is lifted.                  *)
InHand  == ~destroyed /\ enabled /\ touch.initiated /\ touch.down
BarHeld == bar.held /\ bar.down

(* Somebody is still to come who brings the content back into bounds.       *)
WillReset ==
  \/ ~destroyed /\ motion.from # None /\ motion.inTransition
  \/ InHand
  \/ motion.frames # <<>>
  \/ timers.resize

(* The finger on a scrollbar only tells of the end when it is lifted.       *)
Awaited == WillReset \/ BarHeld

(* isInTransition of a transition that there is not: the scroller was sent, *)
(* with a time, to where it is shown, and no event will ever end that.      *)
WaitsInVain == motion.inTransition /\ motion.from = None /\ motion.frames = <<>>

(* Steps at which the code is known to lose track of a movement: a key that *)
(* means nothing to it, or any key or call that stops a transition; the     *)
(* frame of an animation that a finger stopped; a drag given up to the      *)
(* browser; a scrollbar that stops a movement of the other axis; a throw to *)
(* just where a transition that was not stopped shows the content, which    *)
(* the browser makes no transition of; a finger that is cancelled, or       *)
(* lifted when the scroller is disabled; disable() itself, under a finger;  *)
(* another finger or the mouse that drags on after that; a call that sends  *)
(* the content out of bounds.                                              *)
StrayKey   == \E step \in KeySteps : Key("other", step)
KeyStops   == motion.inTransition /\ \E key \in Keys : \E step \in KeySteps : Key(key, step)
CallStops  == motion.inTransition /\ Sends(FALSE)
StrayFrame == AnimationFrame /\ ~motion.isAnimating
PassedOn   == /\ opts.eventPassthrough # "none" /\ touch.initiated /\ ~touch'.initiated
              /\ UNCHANGED motion
BarCrosses == /\ \E d \in opts.drags : BarMove(d)
              /\ \E a \in Axes \ {opts.bar} : IsOutside(motion.pos[a], maxScroll[a])
ThrownToShown == /\ \E quick \in {"flick", "short"} : PointerUp(quick)
                 /\ motion.from # None /\ motion'.from = None
Disables   == Switch /\ touch.down /\ ~enabled'
StrayDrag  == /\ ~touch.down
              /\ \E d \in opts.drags : \E recent, late \in BOOLEAN : PointerMove(d, recent, late)
StrayBarDrag == ~bar.down /\ \E d \in opts.drags : BarMove(d)
SentOutside  == (\E timed \in BOOLEAN : SendsAnywhere(timed)) /\ NeedsReset(motion', maxScroll)
SentToShown == /\ WaitsInVain'
               /\ \/ \E quick \in {"tick", "flick", "short", "long"} : PointerUp(quick)
                  \/ \E turn \in opts.turns : Wheel(turn)
                  \/ NextPage \/ PrevPage \/ Sends(TRUE)
Refreshes  == CallRefresh \/ ResizeTimeout

Loses    == FingerLost \/ Disables \/ StrayDrag
LosesBar == BarFingerLost \/ StrayBarDrag

Disturbed ==
  \/ KeyStops \/ CallStops \/ PassedOn \/ Refreshes \/ Destroy \/ ~AllFinite(motion.pos)
  \/ Loses \/ LosesBar

(* A position out of bounds always has somebody who will bring it back: a   *)
(* finger, a transition or animation under way, a refresh.  Only the steps  *)
(* named here leave the content where it cannot be seen.                    *)
Stranded == ~WillReset /\ NeedsReset(motion, maxScroll) /\ AllFinite(motion.pos)

OnlyTheseStrandIt ==
  [][~Stranded /\ Stranded' => \/ StrayKey \/ StrayFrame \/ PassedOn \/ Destroy
                               \/ BarCrosses \/ ThrownToShown
                               \/ Loses \/ SentOutside]_vars

(* Whoever was told that scrolling starts is told that it ends: no handler  *)
(* ends the last movement in silence, but for the known disturbances, the   *)
(* release of a scrollbar that was pressed and not moved, and a release, a  *)
(* wheel or a call that sends the scroller, with a time, to where it is     *)
(* shown: it then waits for the end of a transition that there is not.      *)
Untold ==
  /\ view.scrolling /\ (timers.wheel = "pending" => opts.snap)
  /\ ~Awaited /\ AllFinite(motion.pos)

EveryEndIsTold ==
  [][~Untold /\ Untold' => Disturbed \/ SentToShown \/ (bar.held /\ ~bar.moved)]_vars

(* A scrollbar that is shown will fade out, in whatever order fading in,    *)
(* fading out and the events come; with the same exceptions.                *)
Lit ==
  /\ view.timer = "show" \/ (view.visible /\ view.timer = "none")
  /\ ~view.scrolling /\ ~Awaited /\ AllFinite(motion.pos)

BarFades == [][~Lit /\ Lit' => Disturbed \/ SentToShown \/ (bar.held /\ ~bar.moved)]_vars

(* The page that is held to be current is one of those that exist, and is   *)
(* where its position says, after every change of the content.  A scroller  *)
(* that is not a number goes to the row after the last, which has none      *)
(* either, and keeps to it until something else turns a page; in a column   *)
(* after the last it could not look a page up.                              *)
LostRow(a) ==
  a = "y" /\ page.pos[a] = NaN /\ page.at[a] = PageCount(maxScroll, a)

PageExists ==
  opts.snap =>
    \A a \in Axes : \/ LostRow(a)
                    \/ /\ page.at[a] \in 0 .. PageCount(maxScroll, a) - 1
                       /\ page.pos[a] = PagePos(maxScroll, a, page.at[a])

(* Nothing comes to rest between two pages, or on another one than the      *)
(* current, except at the ends (after a bounce), nor is it sent there; the  *)
(* exceptions are a tap on a page that is being turned, a stray key, a      *)
(* finger that is lost, a scrollbar that was dragged to just where another  *)
(* page is, and the page's own calls, which do not look at the pages.       *)
Goals == IF motion.frames = <<>> THEN {motion.pos}
         ELSE {motion.frames[i].dest : i \in DOMAIN motion.frames}

Strayed ==
  /\ opts.snap /\ ~InHand /\ ~BarHeld
  /\ \E p \in Goals : /\ AllFinite(p)
                      /\ \E a \in Axes : p[a] \notin {page.pos[a], 0, maxScroll[a]}

PageIsShown ==
  [][~Strayed /\ Strayed' =>
        \/ StrayKey \/ Destroy \/ Loses \/ LosesBar
        \/ BarUp /\ SnapOf(motion.pos).pos = motion.pos
        \/ \E timed \in BOOLEAN : Sends(timed)
        \/ (touch.initiated /\ ~touch.moved)]_vars

(* While every position that a handler could read is a number, it is lost   *)
(* (not a number, or infinite) only by the release of a finger in the tick  *)
(* in which its drag began, whose speed is divided by zero, and by a        *)
(* scrollbar that has no room, or no content to scroll any more.            *)
InReach(p) == IsFinite(p) /\ Magnitude(p) <= Far - Px

Located ==
  \A a \in Axes :
    /\ InReach(motion.pos[a]) /\ InReach(touch.start[a]) /\ InReach(page.pos[a])
    /\ motion.from # None => InReach(motion.from[a])
    /\ \A i \in DOMAIN motion.frames : /\ InReach(motion.frames[i].from[a])
                                       /\ InReach(motion.frames[i].dest[a])

BarIsStuck == bar.held /\ (MaxPos(maxScroll) = 0 \/ ~Has(maxScroll, opts.bar))

NumbersComeFromNumbers ==
  [][Located /\ ~Located' => PointerUp("tick") \/ BarIsStuck]_vars

(* Left alone, the scroller comes to rest: resets, bounces and timeouts do  *)
(* not set off one another for ever, unless the position is lost.           *)
Idle ==
  /\ motion.from = None /\ motion.frames = <<>>
  /\ ~timers.resize /\ timers.wheel # "pending" /\ view.timer = "none"

LeftAloneItRests == <>[][ByItself]_vars => <>[]Idle \/ <>[]~AllFinite(motion.pos)
=============================================================================
