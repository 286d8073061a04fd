---------------------------- MODULE MCRpcSystem ----------------------------
(* Instances of RpcSystem for TLC, with the clients of MCChannelRegistry.   *)
EXTENDS RpcSystem, MCChannelRegistry

CONSTANTS r1, r2

MCRequests == {r1, r2}

(* Every client sends the same id, as the one in this repository does;      *)
(* requests may name any lot.                                              *)
OneLot == [ch \in Channels |-> lot1]

(* Bound: connections accepted and calls made, all in all.  Requests are    *)
(* alike: r2 is made after r1.                                             *)
FewEvents ==
  /\ Cardinality({ch \in Channels : chan[ch] # "free"})
       + Cardinality({r \in Requests : call[r] # "start"}) <= 3
  /\ call[r2] # "start" => call[r1] # "start"

(* Peers send heartbeats and fall silent, besides what Fairness says.       *)
MCSpec == Init /\ [][Next /\ FewEvents']_vars /\ Fairness /\ RegFairness
=============================================================================
