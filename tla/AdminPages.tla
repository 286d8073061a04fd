----------------------------- MODULE AdminPages -----------------------------
(***************************************************************************)
(* The administration pages: each is a table with, on the page of users,   *)
(* the dialog that edits the rows it shows, and on the two others the      *)
(* telephone boxes.  The handlers of a page run one at a time, in the      *)
(* order of its events.                                                    *)
(*                                                                         *)
(* The table and the telephone boxes of a page have no variable in common  *)
(* and touch none of each other's elements, so that the admin uses one of  *)
(* them in a behaviour; the dialog takes its rows from the table and is    *)
(* used together with it.                                                  *)
(***************************************************************************)
EXTENDS UserForm, TelSuggestions

vars == <<page, inUse, tableVars, formVars, telVars>>

Init ==
  /\ page \in Pages
  /\ inUse \in IF page = "users" THEN {{"table", "form"}} ELSE {{"table"}, {"tel"}}
  /\ TableInit
  /\ FormInit
  /\ TelInit

Next ==
  \/ TableStep /\ UNCHANGED <<page, inUse, formVars, telVars>>
  \/ FormStep /\ UNCHANGED <<page, inUse, tableVars, telVars>>
  \/ TelStep /\ UNCHANGED <<page, inUse, tableVars, formVars>>

Spec     == Init /\ [][Next]_vars
LiveSpec == Spec /\ TableFairness /\ TelFairness
=============================================================================
