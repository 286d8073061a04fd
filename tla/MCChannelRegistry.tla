------------------------- MODULE MCChannelRegistry -------------------------
(* An instance of ChannelRegistry for TLC: ids differ by client, as the     *)
(* TODO of ConnectorIdleStateTrigger.HEARTBEAT plans and as the second link *)
(* of static.html (parkingId=2) expects; two of the clients share one.      *)
EXTENDS ChannelRegistry, TLC

CONSTANTS c1, c2, c3, lot1, lot2

MCChannels == {c1, c2, c3}
TwoLots    == (c1 :> lot1) @@ (c2 :> lot1) @@ (c3 :> lot2)
=============================================================================
