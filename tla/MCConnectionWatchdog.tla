----------------------- MODULE MCConnectionWatchdog -----------------------
(* ConnectionWatchdog with the first channel and two that take turns, so    *)
(* that a channel whose listener is late can overlap with its successor.   *)
EXTENDS ConnectionWatchdog

CONSTANTS c0, c1, c2

MCConns == {c0, c1, c2}
=============================================================================
