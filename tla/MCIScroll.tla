----------------------------- MODULE MCIScroll ------------------------------
(* IScroll with one instance of each kind, a window of 2 by 2 pixels and    *)
(* fingers that move by 1.                                                  *)
EXTENDS IScroll

Size(w, h) == [x |-> w, y |-> h]

MCWrapper == Size(2, 2)

Vertical   == {Size(0, 1), Size(0, -1)}
Horizontal == {Size(1, 0), Size(-1, 0)}

(* A list moved by a finger alone.                                          *)
Plain ==
  [scroll |-> {"y"}, useTransition |-> TRUE, bounce |-> TRUE, momentum |-> TRUE,
   pointer |-> TRUE, snap |-> FALSE, freeScroll |-> FALSE, eventPassthrough |-> "none",
   jsBounce |-> FALSE, mouseWheel |-> FALSE, keyBindings |-> FALSE, bar |-> "none",
   contents |-> {Size(2, 3)}, drags |-> Vertical, turns |-> {}, calls |-> {}]

(* A longer one, which the page sends down and the finger up.               *)
Sent ==
  [Plain EXCEPT !.contents = {Size(2, 4)}, !.drags = {Size(0, 1)}, !.calls = {"element"},
                !.turns = {Size(0, -2)}]

(* Wheel and keys move it too.                                              *)
Wheeled ==
  [Plain EXCEPT !.mouseWheel = TRUE, !.keyBindings = TRUE, !.turns = Vertical,
                !.momentum = FALSE, !.calls = {"element"}]

(* It bounces in a way CSS cannot.                                          *)
Eased == [Plain EXCEPT !.jsBounce = TRUE, !.momentum = FALSE]

(* A scrollbar, on a list that the page makes shorter.                      *)
Barred ==
  [Plain EXCEPT !.bar = "y", !.contents = {Size(2, 4), Size(2, 2)}, !.bounce = FALSE,
                !.momentum = FALSE, !.calls = {"content", "refresh", "destroy"}]

(* A scrollbar, and a finger that throws the content the other way.         *)
Crossed ==
  [Plain EXCEPT !.scroll = {"x", "y"}, !.contents = {Size(3, 3)}, !.bar = "y",
                !.drags = {Size(-1, 0)}]

(* The page disables the scroller and destroys it.                          *)
Managed ==
  [Plain EXCEPT !.contents = {Size(2, 3), Size(2, 2)}, !.momentum = FALSE,
                !.calls = {"resize", "content", "switch", "destroy"}]

(* Without CSS transitions.                                                 *)
Animated == [Plain EXCEPT !.useTransition = FALSE, !.momentum = FALSE]

(* Three pages side by side, under a finger.                                *)
Pages ==
  [Plain EXCEPT !.scroll = {"x"}, !.snap = TRUE, !.contents = {Size(5, 2)},
                !.bounce = FALSE, !.drags = Horizontal, !.calls = {"destroy"}]

Bouncing == [Pages EXCEPT !.bounce = TRUE, !.contents = {Size(4, 2)}, !.calls = {}]

(* Three pages that become one, and come and go by everything else.         *)
Album ==
  [Pages EXCEPT !.pointer = FALSE, !.mouseWheel = TRUE, !.turns = Vertical, !.bar = "x",
                !.keyBindings = TRUE, !.contents = {Size(5, 2), Size(2, 2)},
                !.calls = {"content", "refresh", "goTo"}]

(* Two rows of two pages.                                                   *)
Grid ==
  [Pages EXCEPT !.scroll = {"x", "y"}, !.contents = {Size(4, 3)}, !.pointer = FALSE,
                !.keyBindings = TRUE, !.calls = {"goTo"}]

(* The same under a finger that goes any way.                               *)
Map ==
  [Grid EXCEPT !.pointer = TRUE, !.freeScroll = TRUE, !.keyBindings = FALSE,
               !.drags = Vertical \union Horizontal, !.calls = {}]

(* Both ways, one of them locked.                                           *)
Locked ==
  [Plain EXCEPT !.scroll = {"x", "y"}, !.contents = {Size(3, 3)}, !.momentum = FALSE,
                !.drags = {Size(1, 0), Size(0, -1), Size(1, -1)}]

Free == [Locked EXCEPT !.freeScroll = TRUE]

(* Up and down only, what goes sideways is left to the browser.             *)
Passing ==
  [Plain EXCEPT !.eventPassthrough = "x", !.drags = Vertical \union {Size(1, 0)}]

(* The browser cancels fingers, on the list and on its scrollbar.           *)
Cancelled ==
  [Plain EXCEPT !.momentum = FALSE, !.bar = "y", !.calls = {"cancel"}]

CancelledPages ==
  [Pages EXCEPT !.momentum = FALSE, !.calls = {"cancel", "switch"}]

(* The page sends the content where it likes, in every way.                 *)
Driven ==
  [Plain EXCEPT !.momentum = FALSE, !.turns = {Size(0, -1)},
                !.calls = {"scrollTo", "scrollBy", "element"}]

DrivenPages ==
  [Pages EXCEPT !.pointer = FALSE, !.bar = "x", !.turns = Horizontal,
                !.calls = {"scrollTo", "scrollBy", "element", "goTo", "cancel"}]

MCSetups ==
  {Plain, Sent, Wheeled, Eased, Barred, Crossed, Managed, Animated, Pages, Bouncing,
   Album, Grid, Map, Locked, Free, Passing, Cancelled, CancelledPages,
   Driven, DrivenPages}
=============================================================================
