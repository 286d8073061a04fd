------------------------------ MODULE UserForm ------------------------------
(***************************************************************************)
(* The dialog of assets/js/user-list.js in which a user is edited or added *)
(* (one form for both), the popup of Amaze UI it is in, and the check of   *)
(* the user's name while it is typed.                                      *)
(*                                                                         *)
(* The popup opens and closes with a transition: it is active from the     *)
(* start of its opening to the end of its closing, so that modal(), which  *)
(* turns it over, closes it again while it closes.                         *)
(***************************************************************************)
EXTENDS SearchTable

CONSTANTS
  Names,      \* what the name of a user can be
  NameOf,     \* [Rows -> Names], the name of the user of a row
  MaxDialogs  \* bound: how often the dialog is turned over or typed into

ASSUME UserFormAssumption ==
  /\ NameOf \in [Rows -> Names]
  /\ Blank \notin Names
  /\ MaxDialogs \in Nat

VARIABLES
  active,    \* of the popup
  moving,    \* its transition: "in", "out" or "none"
  action,    \* of #user-form
  disabled,  \* the name cannot be changed and is not sent
  fields,    \* the form's name, and the row whose id, nice name and password are in it
  asked,     \* the names the server was asked about (isExists)
  pending,   \* those it has not answered
  checked,   \* the name has been checked: data("validity") is set
  sent,      \* the form that was submitted, with which the page is left
  dialogs    \* how often the dialog was used, up to MaxDialogs

formVars == <<active, moving, action, disabled, fields, asked, pending,
              checked, sent, dialogs>>

FormInit ==
  /\ active = FALSE
  /\ moving = "none"
  /\ action = "insertUser"
  /\ disabled = FALSE
  /\ fields = [name |-> Blank, row |-> None]
  /\ asked = {}
  /\ pending = {}
  /\ checked = FALSE
  /\ sent = None
  /\ dialogs = 0

-----------------------------------------------------------------------------
UseDialog == "form" \in inUse /\ dialogs < MaxDialogs /\ dialogs' = dialogs + 1

(* Faulty variant: the handler of close.modal does not reset the form.      *)
CloseWithoutReset ==
  /\ active' = (moving # "out")
  /\ moving' = "out"
  /\ UNCHANGED <<action, disabled>>

(* Modal.close: a transition under way is ended first; then close.modal     *)
(* tells the page, which makes the form one for a new user again, and the   *)
(* popup moves out.  A popup that was moving out is no longer active.       *)
Close ==
  /\ active' = (moving # "out")
  /\ moving' = "out"
  /\ action' = "insertUser"
  /\ disabled' = FALSE

Open(a, d) ==
  /\ active' = TRUE
  /\ moving' = "in"
  /\ action' = a
  /\ disabled' = d

(* The button of a row (修改): the form takes the row and the popup is      *)
(* turned over, with a for the action and d for disabled as they are then.  *)
Toggle(a, d) == IF active THEN Close ELSE Open(a, d)

Edit(row) ==
  /\ UseDialog
  /\ fields' = [name |-> NameOf[row], row |-> row]
  /\ Toggle("updateUser", TRUE)
  /\ UNCHANGED <<asked, pending, checked, sent>>

(* The button that adds a user turns the popup over and sets nothing.       *)
Add ==
  /\ UseDialog
  /\ Toggle(action, disabled)
  /\ UNCHANGED <<fields, asked, pending, checked, sent>>

CloseDialog ==
  /\ active
  /\ UseDialog
  /\ Close
  /\ UNCHANGED <<fields, asked, pending, checked, sent>>

TransitionEnd ==
  /\ moving # "none"
  /\ active' = (moving = "in")
  /\ moving' = "none"
  /\ UNCHANGED <<action, disabled, fields, asked, pending, checked,
                 sent, dialogs>>

(* Only an open dialog can be typed into.                                   *)
Usable == active /\ moving # "out"

(* validate(): the server is asked about the name, blank or not.            *)
Validate(n) ==
  /\ asked' = asked \union {n}
  /\ pending' = pending \union {n}
  /\ checked' = TRUE

(* Faulty variant: the name is not checked when a name has been before.     *)
TypeNameCheckedOnce(n) ==
  /\ UseDialog
  /\ Usable
  /\ ~disabled
  /\ n # fields.name
  /\ fields' = [fields EXCEPT !.name = n]
  /\ IF ~checked THEN Validate(n) ELSE UNCHANGED <<asked, pending, checked>>
  /\ UNCHANGED <<active, moving, action, disabled, sent>>

TypeName(n) ==
  /\ UseDialog
  /\ Usable
  /\ ~disabled
  /\ n # fields.name
  /\ fields' = [fields EXCEPT !.name = n]
  /\ Validate(n)
  /\ UNCHANGED <<active, moving, action, disabled, sent>>

(* The name box is left without a change.                                   *)
LeaveName ==
  /\ UseDialog
  /\ Usable
  /\ ~disabled
  /\ Validate(fields.name)
  /\ UNCHANGED <<active, moving, action, disabled, fields, sent>>

(* The answer to isExists or its failure, in any order with the others.     *)
(* The validator is handed d and not what its then() made of it: the answer *)
(* replaces the validity of the name and, having no "valid", says no.       *)
ExistsAnswered(n) ==
  /\ n \in pending
  /\ pending' = pending \ {n}
  /\ checked' = TRUE
  /\ UNCHANGED <<active, moving, action, disabled, fields, asked, sent, dialogs>>

(* submit() checks a name that has not been checked and returns true,       *)
(* whatever the check says: the browser sends the form.                     *)
Submit ==
  /\ Usable
  /\ IF ~checked /\ ~disabled
       THEN Validate(fields.name)
       ELSE UNCHANGED <<asked, pending, checked>>
  /\ sent' = [action |-> action, row |-> fields.row,
              name |-> IF disabled THEN None ELSE fields.name]
  /\ UNCHANGED <<active, moving, action, disabled, fields, dialogs>>

FormStep ==
  /\ sent = None
  /\ \/ \E row \in ShownRows : Edit(row)
     \/ Add
     \/ CloseDialog
     \/ TransitionEnd
     \/ \E n \in Names : TypeName(n)
     \/ LeaveName
     \/ \E n \in pending : ExistsAnswered(n)
     \/ Submit

-----------------------------------------------------------------------------
(* The form is one that edits only as long as its dialog is open: whichever *)
(* way it is closed, and however often while it moves, the next user that   *)
(* is added is inserted and can be named.                                   *)
EditEndsWithDialog ==
  /\ action = "updateUser" <=> disabled
  /\ disabled => Usable

(* A user is not added under a name that the server was never asked about.  *)
(* The exception is a name that an edited row left in the form: a name that *)
(* is not typed is checked only if none was checked before it.              *)
AddedNameWasAsked ==
  sent # None /\ sent.action = "insertUser" =>
    sent.name \in asked \/ (sent.row # None /\ sent.name = NameOf[sent.row])
=============================================================================
