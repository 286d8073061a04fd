--------------------------- MODULE TelSuggestions ---------------------------
(***************************************************************************)
(* The telephone boxes of assets/js/integral.js and integral_history.js.   *)
(* Each has a list of suggestions under it, a dropdown of Amaze UI that    *)
(* app.js lets the keyboard walk through.  700 ms after the last change,   *)
(* the server is asked for the users whose number is like the text; a      *)
(* click on one of them fills in its number and its name.  The boxes share *)
(* one timer (time2), one request ($a) and one map of users (imap), and    *)
(* the menus share keyState, $dropdown and $prevLi.                        *)
(*                                                                         *)
(* A user stands for its own number: Tels are texts, too.                  *)
(***************************************************************************)
EXTENDS SearchTable, Functions, FiniteSets

CONSTANTS
  Inputs,    \* the telephone boxes of a page
  TelTexts,  \* what a box can hold
  Tels,      \* the numbers among them that a user has
  Like,      \* [TelTexts -> Seq(Tels)], what the server suggests for a text
  Stripped,  \* [TelTexts -> TelTexts], a text without its white space
  MaxKeys    \* bound: how often the admin types, clicks or presses a key

ASSUME TelSuggestionsAssumption ==
  /\ Blank \in TelTexts
  /\ Tels \subseteq TelTexts
  /\ Like \in [TelTexts -> Seq(Tels)]
  /\ Stripped \in [TelTexts -> TelTexts]
  /\ None \notin Inputs
  /\ MaxKeys \in Nat

VARIABLES
  tel,       \* [Inputs -> TelTexts], what the boxes hold
  name,      \* the user whose name is in the name box of the same form
  list,      \* the suggestions under a box
  time2,     \* the box whose 700 ms are running, or None
  lookups,   \* the requests under way
  latest,    \* $a: a request, None for undefined
  imap,      \* the users the suggestions were seen with
  menu,      \* the state of each dropdown
  keyState,  \* the keyboard belongs to a menu
  dropdown,  \* $dropdown, the menu opened last
  prevLi,    \* the entry the keys are at: its menu and place, 0 if it is not there any more
  lastTyped, \* the box typed into last, None once a suggestion has filled it
  telError,  \* the last request has failed
  keys       \* how often the boxes were used, up to MaxKeys

telVars == <<tel, name, list, time2, lookups, latest, imap, menu, keyState,
             dropdown, prevLi, lastTyped, telError, keys>>

(* A menu is animated while it opens and closes; it is active from the end  *)
(* of its opening to the end of its closing.                                *)
MenuStates == {"closed", "opening", "open", "closing"}
Visible(i) == menu[i] # "closed"

TelInit ==
  /\ tel = [i \in Inputs |-> Blank]
  /\ name = [i \in Inputs |-> Blank]
  /\ list = [i \in Inputs |-> <<>>]
  /\ time2 = None
  /\ lookups = {}
  /\ latest = None
  /\ imap = {}
  /\ menu = [i \in Inputs |-> "closed"]
  /\ keyState = FALSE
  /\ dropdown = None
  /\ prevLi = None
  /\ lastTyped = None
  /\ telError = FALSE
  /\ keys = 0

-----------------------------------------------------------------------------
Press == "tel" \in inUse /\ keys < MaxKeys /\ keys' = keys + 1

(* Faulty variant: a running timer is left to its box.                      *)
TypeTelWithoutTimer(i, t) ==
  /\ Press
  /\ t # tel[i]
  /\ tel' = [tel EXCEPT ![i] = IF page = "history" THEN Stripped[t] ELSE t]
  /\ time2' = IF time2 = None THEN i ELSE time2
  /\ lastTyped' = i
  /\ UNCHANGED <<name, list, lookups, latest, imap, menu, keyState, dropdown,
                 prevLi, telError>>

(* The input event of a box, the history's strips white space.  The timer   *)
(* is the same for all boxes: what was typed into another one is forgotten. *)
TypeTel(i, t) ==
  /\ Press
  /\ t # tel[i]
  /\ tel' = [tel EXCEPT ![i] = IF page = "history" THEN Stripped[t] ELSE t]
  /\ time2' = i
  /\ lastTyped' = i
  /\ UNCHANGED <<name, list, lookups, latest, imap, menu, keyState, dropdown,
                 prevLi, telError>>

(* The box is read when the timer runs down.  A request under way is given  *)
(* up; its always() runs at once.  Sending can fail at once, too: $a is     *)
(* then a request that has ended.                                           *)
Lookup ==
  /\ time2 # None
  /\ time2' = None
  /\ LET r    == [box |-> time2, text |-> tel[time2]]
         kept == lookups \ {latest}
     IN  /\ latest' = r
         /\ \/ lookups' = kept \union {r} /\ telError' = FALSE
            \/ lookups' = kept /\ telError' = TRUE
  /\ UNCHANGED <<tel, name, list, imap, menu, keyState, dropdown, prevLi, lastTyped, keys>>

(* The answer replaces the entries under its box, and with them the one     *)
(* that has the focus.                                                      *)
Suggest(r) ==
  /\ r \in lookups
  /\ lookups' = lookups \ {r}
  /\ latest' = None
  /\ list' = [list EXCEPT ![r.box] = Like[r.text]]
  /\ imap' = imap \union Range(Like[r.text])
  /\ prevLi' = IF prevLi # None /\ prevLi.menu = r.box THEN [prevLi EXCEPT !.at = 0] ELSE prevLi
  /\ UNCHANGED <<tel, name, time2, menu, keyState, dropdown, lastTyped, telError, keys>>

LookupFailed(r) ==
  /\ r \in lookups
  /\ lookups' = lookups \ {r}
  /\ latest' = None
  /\ telError' = TRUE
  /\ UNCHANGED <<tel, name, list, time2, imap, menu, keyState, dropdown, prevLi,
                 lastTyped, keys>>

-----------------------------------------------------------------------------
(* Dropdown.close does nothing to a menu that is not active yet.            *)
Closing(m) == IF m = "open" THEN "closing" ELSE m

(* A click closes every menu it is outside of.                              *)
ClosedBut(i) == [j \in Inputs |-> IF j = i THEN menu[j] ELSE Closing(menu[j])]

(* A click on a suggestion leaves its menu open.                            *)
Fill(i, k) ==
  /\ tel' = [tel EXCEPT ![i] = list[i][k]]
  /\ name' = [name EXCEPT ![i] = list[i][k]]
  /\ lastTyped' = IF lastTyped = i THEN None ELSE lastTyped

ClickEntry(i, k) ==
  /\ Press
  /\ Visible(i)
  /\ Fill(i, k)
  /\ menu' = ClosedBut(i)
  /\ UNCHANGED <<list, time2, lookups, latest, imap, keyState, dropdown, prevLi, telError>>

(* A click on a box turns its menu over, unless the menu is moving.         *)
ClickBox(i) ==
  /\ Press
  /\ menu' = [ClosedBut(i) EXCEPT ![i] = CASE @ = "closed" -> "opening"
                                           [] @ = "open"   -> "closing"
                                           [] OTHER        -> @]
  /\ UNCHANGED <<tel, name, list, time2, lookups, latest, imap, keyState, dropdown,
                 prevLi, lastTyped, telError>>

(* A click elsewhere, or the escape key.                                    *)
ClickOutside ==
  /\ Press
  /\ menu' = [i \in Inputs |-> Closing(menu[i])]
  /\ UNCHANGED <<tel, name, list, time2, lookups, latest, imap, keyState, dropdown,
                 prevLi, lastTyped, telError>>

(* Faulty variant: the entry that has the focus is kept.                    *)
OpenedWithFocus(i) ==
  /\ menu[i] = "opening"
  /\ menu' = [menu EXCEPT ![i] = "open"]
  /\ keyState' = TRUE
  /\ dropdown' = i
  /\ UNCHANGED prevLi
  /\ UNCHANGED <<tel, name, list, time2, lookups, latest, imap, lastTyped, telError, keys>>

(* The animations end in any order.  The end of a closing also runs the     *)
(* handler of opened, which is never taken off, before that of closed.      *)
Opened(i) ==
  /\ menu[i] = "opening"
  /\ menu' = [menu EXCEPT ![i] = "open"]
  /\ keyState' = TRUE
  /\ dropdown' = i
  /\ prevLi' = None
  /\ UNCHANGED <<tel, name, list, time2, lookups, latest, imap, lastTyped, telError, keys>>

Closed(i) ==
  /\ menu[i] = "closing"
  /\ menu' = [menu EXCEPT ![i] = "closed"]
  /\ keyState' = FALSE
  /\ dropdown' = i
  /\ prevLi' = None
  /\ UNCHANGED <<tel, name, list, time2, lookups, latest, imap, lastTyped, telError, keys>>

Focus(k) == prevLi' = [menu |-> dropdown, at |-> k]

(* The arrows walk through the menu opened last; an entry that was removed  *)
(* has no neighbours.                                                       *)
KeyUp ==
  /\ Press
  /\ keyState
  /\ prevLi # None /\ prevLi.at > 1
  /\ Focus(prevLi.at - 1)
  /\ UNCHANGED <<tel, name, list, time2, lookups, latest, imap, menu, keyState, dropdown,
                 lastTyped, telError>>

KeyDown ==
  /\ Press
  /\ keyState
  /\ \/ prevLi = None /\ Focus(IF list[dropdown] = <<>> THEN 0 ELSE 1)
     \/ prevLi # None /\ prevLi.at \in 1 .. Len(list[dropdown]) - 1 /\ Focus(prevLi.at + 1)
  /\ UNCHANGED <<tel, name, list, time2, lookups, latest, imap, menu, keyState, dropdown,
                 lastTyped, telError>>

(* Enter clicks the entry, if the focus has not been moved to a box since,  *)
(* and on keyup closes the menu.                                            *)
KeyEnter ==
  /\ Press
  /\ keyState
  /\ prevLi # None
  /\ \/ /\ prevLi.at > 0
        /\ Fill(dropdown, prevLi.at)
        /\ menu' = [i \in Inputs |-> Closing(menu[i])]
     \/ /\ menu' = [menu EXCEPT ![dropdown] = Closing(@)]
        /\ UNCHANGED <<tel, name, lastTyped>>
  /\ UNCHANGED <<list, time2, lookups, latest, imap, keyState, dropdown, prevLi, telError>>

LookedUp == \E r \in lookups : Suggest(r) \/ LookupFailed(r)

TelStep ==
  \/ \E i \in Inputs, t \in TelTexts : TypeTel(i, t)
  \/ Lookup
  \/ LookedUp
  \/ \E i \in Inputs : \/ \E k \in 1 .. Len(list[i]) : ClickEntry(i, k)
                       \/ ClickBox(i)
                       \/ Opened(i)
                       \/ Closed(i)
  \/ ClickOutside
  \/ KeyUp
  \/ KeyDown
  \/ KeyEnter

TelFairness == WF_telVars(Lookup) /\ WF_telVars(LookedUp)

-----------------------------------------------------------------------------
(* Whatever is typed into the boxes in turn, the box typed into last has    *)
(* the suggestions for its text in the end, unless its request failed.      *)
LastTypedIsAnswered ==
  <>[](telError \/ lastTyped = None \/ list[lastTyped] = Like[tel[lastTyped]])

(* The keys go to a menu that is open or has not finished closing, and      *)
(* the entry that has the focus is one of that menu, or was replaced by an  *)
(* answer: then the arrows do nothing until the menu is opened again.       *)
KeysFollowMenu ==
  /\ keyState => dropdown \in Inputs /\ menu[dropdown] \in {"open", "closing"}
  /\ prevLi # None => /\ keyState
                      /\ prevLi.menu = dropdown
                      /\ prevLi.at \in 0 .. Len(list[dropdown])
=============================================================================
