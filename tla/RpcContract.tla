---------------------------- MODULE RpcContract ----------------------------
(***************************************************************************)
(* What a remote call over this system promises its HTTP caller, without   *)
(* channels, maps or messages.  The service method runs at most once per   *)
(* call and never before the call; the call returns the value of its own   *)
(* execution, or null (it was not delivered, or the method failed), or     *)
(* ends with an exception.  It may execute although it never returns.      *)
(***************************************************************************)
CONSTANTS Requests, NULL

VARIABLES
  status,  \* [Requests -> {"idle", "running", "returned", "threw"}]
  reply,   \* what a returned call gave back; NULL before
  ran      \* the requests whose method has been executed

contractVars == <<status, reply, ran>>

Init ==
  /\ status = [r \in Requests |-> "idle"]
  /\ reply = [r \in Requests |-> NULL]
  /\ ran = {}

Start(r) ==
  /\ status[r] = "idle"
  /\ status' = [status EXCEPT ![r] = "running"]
  /\ UNCHANGED <<reply, ran>>

Execute(r) ==
  /\ status[r] # "idle"
  /\ r \notin ran
  /\ ran' = ran \union {r}
  /\ UNCHANGED <<status, reply>>

Return(r) ==
  /\ status[r] = "running"
  /\ status' = [status EXCEPT ![r] = "returned"]
  /\ \E v \in {NULL} \union (ran \intersect {r}) :
       reply' = [reply EXCEPT ![r] = v]
  /\ UNCHANGED ran

Throw(r) ==
  /\ status[r] = "running"
  /\ status' = [status EXCEPT ![r] = "threw"]
  /\ UNCHANGED <<reply, ran>>

Next == \E r \in Requests : Start(r) \/ Execute(r) \/ Return(r) \/ Throw(r)

Spec == Init /\ [][Next]_contractVars
=============================================================================
