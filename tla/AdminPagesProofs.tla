-------------------------- MODULE AdminPagesProofs --------------------------
(***************************************************************************)
(* What the table, the dialog and the telephone boxes show, for any texts, *)
(* rows, names and numbers and however long the pages are used.            *)
(*                                                                         *)
(* A part of a page is disturbed by no step of another: each part has an   *)
(* invariant of its own, and the dialog's needs one fact of the table's,   *)
(* that the rows it shows are rows of the server.                          *)
(***************************************************************************)
EXTENDS AdminPages, TLAPS

-----------------------------------------------------------------------------
(* The table                                                                *)

IsRequest(q) == q.text \in Texts /\ q.pageNumber \in Nat \ {0}

TableTypes ==
  /\ page \in Pages
  /\ text \in Texts
  /\ sortName \in Sortable[page] \union {None}
  /\ sortOrder \in Orders
  /\ orderOf \in [Columns -> Orders]
  /\ pageNumber \in Nat \ {0}
  /\ totalPages \in Nat
  /\ \A q \in asking : IsRequest(q)
  /\ shown = None \/ IsRequest(shown)

(* One request is under way at most, and it asks for what the table is set  *)
(* to; when it has been answered, the rows are its rows.  loadError stays   *)
(* until the table asks again.                                              *)
AskingIsCurrent ==
  /\ \A q, r \in asking : q = r
  /\ \A q \in asking : /\ q.order = AskedOrder(page, sortName, sortOrder)
                       /\ q.pageNumber = pageNumber

ShownIsCurrent ==
  AtRest =>
    /\ shown.order = AskedOrder(page, sortName, sortOrder)
    /\ totalPages = Len(Hits[shown.text])
    /\ \/ shown.pageNumber = pageNumber
       \/ shown.pageNumber > totalPages /\ pageNumber = totalPages

TableInv == TableTypes /\ AskingIsCurrent /\ ShownIsCurrent

LEMMA TableInitially == Init => TableInv
<1> SUFFICES ASSUME Init PROVE TableInv
  OBVIOUS
<1> USE SearchTableAssumption DEF Init, TableInit, TableInv
<1> DEFINE q == Query(text, dates, sortName, sortOrder, pageNumber)
<1>1. /\ asking = {q}
      /\ IsRequest(q)
      /\ q.order = AskedOrder(page, sortName, sortOrder)
      /\ q.pageNumber = pageNumber
  BY DEF IsRequest, Query
<1> HIDE DEF q
<1>2. TableTypes
  <2>1. sortOrder \in Orders /\ orderOf \in [Columns -> Orders]
    BY DEF Orders
  <2>2. \A r \in asking : IsRequest(r)
    BY <1>1
  <2>3. pageNumber \in Nat \ {0} /\ totalPages \in Nat
    OBVIOUS
  <2> QED
    BY <2>1, <2>2, <2>3 DEF TableTypes
<1>3. AskingIsCurrent /\ ShownIsCurrent
  BY <1>1 DEF AskingIsCurrent, ShownIsCurrent, AtRest
<1> QED
  BY <1>2, <1>3

(* A request that is sent now is current, whatever was under way.           *)
LEMMA AskIsCurrent ==
  ASSUME NEW q, Ask(q), IsRequest(q),
         q.order = AskedOrder(page', sortName', sortOrder'),
         q.pageNumber = pageNumber'
  PROVE  AskingIsCurrent' /\ ShownIsCurrent' /\ \A r \in asking' : IsRequest(r)
BY DEF Ask, AskingIsCurrent, ShownIsCurrent, AtRest

LEMMA TableStepInv ==
  ASSUME TableInv, TableStep, page' = page
  PROVE  TableInv'
<1> USE SearchTableAssumption DEF TableInv, TableTypes
<1>1. ASSUME NEW t \in Texts, TypeSearch(t) PROVE TableInv'
  BY <1>1 DEF TypeSearch, AskingIsCurrent, ShownIsCurrent, AtRest, Use
<1>2. ASSUME SearchTimeout PROVE TableInv'
  <2> DEFINE q == Query(text', dates', sortName, sortOrder, pageNumber)
  <2>1. Ask(q)
    BY <1>2 DEF SearchTimeout, Refresh
  <2>2. /\ IsRequest(q)
        /\ q.order = AskedOrder(page', sortName', sortOrder')
        /\ q.pageNumber = pageNumber'
    BY <1>2 DEF SearchTimeout, Query, IsRequest
  <2> HIDE DEF q
  <2>3. AskingIsCurrent' /\ ShownIsCurrent' /\ \A r \in asking' : IsRequest(r)
    BY <2>1, <2>2, AskIsCurrent
  <2> QED
    BY <2>3, <1>2 DEF SearchTimeout
<1>3. ASSUME NEW b \in Boxes, NEW d \in Dates, PickDate(b, d) PROVE TableInv'
  <2> DEFINE q == Query(text', dates', sortName, sortOrder, pageNumber)
  <2>1. /\ UNCHANGED <<text, sortName, sortOrder, orderOf, pageNumber, totalPages, shown>>
        /\ Ask(q) \/ UNCHANGED <<asking, loadError>>
    BY <1>3 DEF PickDate, Refresh
  <2>2. /\ IsRequest(q)
        /\ q.order = AskedOrder(page', sortName', sortOrder')
        /\ q.pageNumber = pageNumber'
    BY <2>1 DEF Query, IsRequest
  <2> HIDE DEF q
  <2>3. CASE Ask(q)
    <3>1. AskingIsCurrent' /\ ShownIsCurrent' /\ \A r \in asking' : IsRequest(r)
      BY <2>2, <2>3, AskIsCurrent
    <3> QED
      BY <3>1, <2>1
  <2>4. CASE UNCHANGED <<asking, loadError>>
    BY <2>1, <2>4 DEF AskingIsCurrent, ShownIsCurrent, AtRest
  <2> QED
    BY <2>1, <2>3, <2>4
<1>4. ASSUME NEW c \in Sortable[page], ClickHeader(c) PROVE TableInv'
  <2> DEFINE q == Query(text, dates, sortName', sortOrder', pageNumber)
  <2>1. /\ Ask(q)
        /\ UNCHANGED <<text, pageNumber, totalPages, shown>>
        /\ sortName' = c /\ sortOrder' \in Orders
        /\ orderOf' = [orderOf EXCEPT ![c] = sortOrder']
    BY <1>4 DEF ClickHeader, Orders
  <2>2. /\ IsRequest(q)
        /\ q.order = AskedOrder(page', sortName', sortOrder')
        /\ q.pageNumber = pageNumber'
    BY <2>1 DEF Query, IsRequest
  <2> HIDE DEF q
  <2>3. AskingIsCurrent' /\ ShownIsCurrent' /\ \A r \in asking' : IsRequest(r)
    BY <2>1, <2>2, AskIsCurrent
  <2>4. orderOf' \in [Columns -> Orders]
    BY <2>1
  <2> QED
    BY <2>1, <2>3, <2>4
<1>5. ASSUME NEW n \in 1 .. totalPages, TurnPage(n) PROVE TableInv'
  <2> DEFINE q == Query(text, dates, sortName, sortOrder, n)
  <2>1. /\ Ask(q)
        /\ pageNumber' = n /\ n \in Nat \ {0}
        /\ UNCHANGED <<text, sortName, sortOrder, orderOf, totalPages, shown>>
    BY <1>5 DEF TurnPage
  <2>2. /\ IsRequest(q)
        /\ q.order = AskedOrder(page', sortName', sortOrder')
        /\ q.pageNumber = pageNumber'
    BY <2>1 DEF Query, IsRequest
  <2> HIDE DEF q
  <2>3. AskingIsCurrent' /\ ShownIsCurrent' /\ \A r \in asking' : IsRequest(r)
    BY <2>1, <2>2, AskIsCurrent
  <2> QED
    BY <2>1, <2>3
<1>6. ASSUME NEW q \in asking, Loaded(q) PROVE TableInv'
  <2>1. Len(Hits[q.text]) \in Nat
    BY DEF IsRequest
  <2>2. /\ asking' = {} /\ shown' = q /\ IsRequest(q)
        /\ q.order = AskedOrder(page, sortName, sortOrder)
        /\ q.pageNumber = pageNumber
    BY <1>6 DEF Loaded, AskingIsCurrent
  <2>3. /\ totalPages' = Len(Hits[q.text])
        /\ pageNumber' = IF totalPages' > 0 /\ pageNumber > totalPages'
                           THEN totalPages' ELSE pageNumber
        /\ UNCHANGED <<text, sortName, sortOrder, orderOf>>
    BY <1>6 DEF Loaded
  <2>4. TableTypes'
    BY <2>1, <2>2, <2>3
  <2>5. AskingIsCurrent' /\ ShownIsCurrent'
    BY <2>1, <2>2, <2>3 DEF AskingIsCurrent, ShownIsCurrent
  <2> QED
    BY <2>4, <2>5
<1>7. ASSUME NEW q \in asking, NotLoaded(q) PROVE TableInv'
  BY <1>7 DEF NotLoaded, AskingIsCurrent, ShownIsCurrent, AtRest
<1> QED
  BY <1>1, <1>2, <1>3, <1>4, <1>5, <1>6, <1>7 DEF TableStep, Answered

LEMMA TableUntouched == TableInv /\ UNCHANGED <<page, tableVars>> => TableInv'
BY DEF tableVars, TableInv, TableTypes, AskingIsCurrent, ShownIsCurrent, AtRest

(* What the three theorems on the table rest on: a table at rest shows what  *)
(* was asked for last (query, refresh, load of SearchTable).               *)
THEOREM TableInvariant == Spec => []TableInv
<1>1. TableInv /\ [Next]_vars => TableInv'
  BY TableStepInv, TableUntouched DEF Next, vars
<1> QED
  BY <1>1, TableInitially, PTL DEF Spec

-----------------------------------------------------------------------------
(* query() asks for the column that is shown under the header, but for the  *)
(* page's own order, whichever of its names for columns is clicked.         *)
LEMMA CasesNameTheColumn ==
  ASSUME NEW p \in Pages, NEW col \in Sortable[p], NEW order \in Orders
  PROVE  LET by == AskedOrder(p, col, order)
         IN  /\ by[1] = ServerColumn[p][col]
             /\ by[2] = order \/ col \in {"lastDate", "datetime"}
<1>1. p \in {"integral", "history"}
  BY DEF Pages, Sortable
<1>2. CASE col \in {"lastDate", "datetime"}
  <2>1. ~\E c \in SortCases[p] : c[1] = col
    BY <1>1, <1>2 DEF SortCases
  <2>2. AskedOrder(p, col, order) =
          IF p = "integral" THEN <<"last_update", "DESC">> ELSE <<"a.date_time", "DESC">>
    BY <1>1, <2>1 DEF AskedOrder
  <2> QED
    BY <1>1, <1>2, <2>2 DEF ServerColumn, Sortable
<1>3. CASE col \notin {"lastDate", "datetime"}
  <2>1. <<col, ServerColumn[p][col]>> \in SortCases[p]
    BY <1>1, <1>3 DEF SortCases, ServerColumn, Sortable
  <2>2. \A c \in SortCases[p] : c[1] = col => c[2] = ServerColumn[p][col]
    BY <1>1, <1>3 DEF SortCases, ServerColumn, Sortable
  <2>3. AskedOrder(p, col, order) =
          <<(CHOOSE c \in SortCases[p] : c[1] = col)[2], order>>
    BY <1>1, <2>1 DEF AskedOrder
  <2>4. (CHOOSE c \in SortCases[p] : c[1] = col)[2] = ServerColumn[p][col]
    BY <2>1, <2>2
  <2> QED
    BY <2>3, <2>4
<1> QED
  BY <1>2, <1>3

(* The arrow of a header tells the order of the rows once the table is at   *)
(* rest, whatever was sorted, searched and turned before (onSort, query).   *)
THEOREM ArrowIsTrue == Spec => []ArrowTellsOrder
<1>1. TableInv => ArrowTellsOrder
  BY CasesNameTheColumn DEF TableInv, TableTypes, ShownIsCurrent, ArrowTellsOrder
<1> QED
  BY <1>1, TableInvariant, PTL

(* The bar names the page of the rows, or the last one of an empty table    *)
(* (refresh, load), for any rows the server finds.                         *)
THEOREM BarIsTrue == Spec => []BarTellsPage
<1>1. ASSUME TableInv PROVE BarTellsPage
  <2> USE <1>1 DEF TableInv
  <2>1. CASE shown = None
    BY <2>1 DEF ShownIsCurrent, BarTellsPage, ShownRows
  <2>2. CASE shown # None
    <3>1. shown.pageNumber \in Nat /\ Len(Hits[shown.text]) \in Nat
      BY <2>2, SearchTableAssumption DEF TableTypes, IsRequest
    <3> QED
      BY <2>2, <3>1 DEF ShownIsCurrent, BarTellsPage, ShownRows, RowsOf
  <2> QED
    BY <2>1, <2>2
<1> QED
  BY <1>1, TableInvariant, PTL

(* The rows that are shown are rows of the server.                          *)
LEMMA ShownAreRows == TableInv => ShownRows \subseteq Rows
BY SearchTableAssumption DEF TableInv, TableTypes, IsRequest, ShownRows, RowsOf

-----------------------------------------------------------------------------
(* The dialog                                                               *)

(* The name in the form has been asked about or is that of the edited row,  *)
(* once a name was checked; answers are awaited only after that.            *)
NameWasAsked ==
  /\ pending # {} => checked
  /\ checked => \/ fields.name \in asked
                \/ fields.row # None /\ fields.name = NameOf[fields.row]

FormTypes ==
  /\ {active, disabled} \subseteq BOOLEAN
  /\ moving \in {"none", "in", "out"}
  /\ fields = [name |-> fields.name, row |-> fields.row]

FormInv ==
  /\ FormTypes
  /\ EditEndsWithDialog
  /\ NameWasAsked
  /\ AddedNameWasAsked

LEMMA FormInitially == Init => FormInv
BY DEF Init, FormInit, FormInv, FormTypes, EditEndsWithDialog, NameWasAsked, AddedNameWasAsked

(* A dialog that is turned over or closed edits only if it was opened so.   *)
LEMMA ToggleEnds ==
  ASSUME NEW a, NEW d \in BOOLEAN, Toggle(a, d), a = "updateUser" <=> d
  PROVE  /\ EditEndsWithDialog' /\ (disabled' => d)
         /\ active' \in BOOLEAN /\ disabled' \in BOOLEAN
         /\ moving' \in {"none", "in", "out"}
BY DEF EditEndsWithDialog, Usable, Toggle, Close, Open

LEMMA FormStepInv ==
  ASSUME FormInv, FormStep, ShownRows \subseteq Rows
  PROVE  FormInv'
<1> USE DEF FormInv
<1>n. sent = None
  BY DEF FormStep
<1>s. ASSUME UNCHANGED sent PROVE AddedNameWasAsked'
  BY <1>n, <1>s DEF AddedNameWasAsked
<1>1. ASSUME NEW row \in ShownRows, Edit(row) PROVE FormInv'
  <2>1. /\ EditEndsWithDialog'
        /\ {active', disabled'} \subseteq BOOLEAN /\ moving' \in {"none", "in", "out"}
    <3>1. Toggle("updateUser", TRUE)
      BY <1>1 DEF Edit
    <3> QED
      BY <3>1, ToggleEnds
  <2>2. /\ fields' = [name |-> NameOf[row], row |-> row]
        /\ UNCHANGED <<asked, pending, checked, sent>>
    BY <1>1 DEF Edit
  <2>3. row # None
    BY SearchTableAssumption
  <2>4. FormTypes' /\ NameWasAsked'
    BY <2>1, <2>2, <2>3 DEF FormTypes, NameWasAsked
  <2> QED
    BY <2>1, <2>2, <2>4, <1>s
<1>2. ASSUME Add PROVE FormInv'
  <2>1. disabled \in BOOLEAN /\ (action = "updateUser" <=> disabled)
    BY DEF EditEndsWithDialog, FormTypes
  <2>2. /\ EditEndsWithDialog' /\ (disabled' => disabled)
        /\ {active', disabled'} \subseteq BOOLEAN /\ moving' \in {"none", "in", "out"}
    <3>1. Toggle(action, disabled)
      BY <1>2 DEF Add
    <3> QED
      BY <2>1, <3>1, ToggleEnds
  <2>3. UNCHANGED <<fields, asked, pending, checked, sent>>
    BY <1>2 DEF Add
  <2> QED
    BY <2>2, <2>3, <1>s DEF FormTypes, NameWasAsked
<1>3. ASSUME CloseDialog PROVE FormInv'
  <2>1. UNCHANGED <<fields, asked, pending, checked, sent>>
    BY <1>3 DEF CloseDialog
  <2>2. EditEndsWithDialog' /\ FormTypes'
    BY <1>3, <2>1 DEF CloseDialog, Close, EditEndsWithDialog, FormTypes
  <2> QED
    BY <2>1, <2>2, <1>s DEF NameWasAsked
<1>4. ASSUME TransitionEnd PROVE FormInv'
  <2>1. UNCHANGED <<action, disabled, fields, asked, pending, checked, sent>>
    BY <1>4 DEF TransitionEnd
  <2>2. EditEndsWithDialog' /\ FormTypes'
    BY <1>4, <2>1 DEF TransitionEnd, EditEndsWithDialog, Usable, FormTypes
  <2> QED
    BY <2>1, <2>2, <1>s DEF NameWasAsked
<1>5. ASSUME NEW n \in Names, TypeName(n) PROVE FormInv'
  <2>1. /\ fields' = [name |-> n, row |-> fields.row]
        /\ ~disabled /\ UNCHANGED <<active, moving, action, disabled, sent>>
        /\ n \in asked' /\ checked'
    BY <1>5 DEF TypeName, Validate, FormTypes
  <2>2. EditEndsWithDialog' /\ NameWasAsked' /\ FormTypes'
    BY <2>1 DEF EditEndsWithDialog, Usable, NameWasAsked, FormTypes
  <2> QED
    BY <2>1, <2>2, <1>s
<1>6. ASSUME LeaveName PROVE FormInv'
  <2>1. /\ UNCHANGED <<active, moving, action, disabled, fields, sent>>
        /\ fields.name \in asked' /\ checked'
    BY <1>6 DEF LeaveName, Validate
  <2>2. EditEndsWithDialog' /\ NameWasAsked' /\ FormTypes'
    BY <2>1 DEF EditEndsWithDialog, Usable, NameWasAsked, FormTypes
  <2> QED
    BY <2>1, <2>2, <1>s
<1>7. ASSUME NEW n \in pending, ExistsAnswered(n) PROVE FormInv'
  <2>1. /\ UNCHANGED <<active, moving, action, disabled, fields, asked, sent>>
        /\ checked /\ checked'
    BY <1>7 DEF ExistsAnswered, NameWasAsked
  <2>2. EditEndsWithDialog' /\ NameWasAsked' /\ FormTypes'
    BY <2>1 DEF EditEndsWithDialog, Usable, NameWasAsked, FormTypes
  <2> QED
    BY <2>1, <2>2, <1>s
<1>8. ASSUME Submit PROVE FormInv'
  <2>1. /\ UNCHANGED <<active, moving, action, disabled, fields>>
        /\ sent' = [action |-> action, row |-> fields.row,
                    name |-> IF disabled THEN None ELSE fields.name]
    BY <1>8 DEF Submit
  <2>2. \/ fields.name \in asked' /\ checked'
        \/ (checked \/ disabled) /\ UNCHANGED <<asked, pending, checked>>
    BY <1>8 DEF Submit, Validate
  <2>3. EditEndsWithDialog' /\ NameWasAsked' /\ FormTypes'
    BY <2>1, <2>2 DEF EditEndsWithDialog, Usable, NameWasAsked, FormTypes
  <2>4. AddedNameWasAsked'
    <3> SUFFICES ASSUME sent'.action = "insertUser"
                 PROVE  \/ sent'.name \in asked'
                        \/ sent'.row # None /\ sent'.name = NameOf[sent'.row]
      BY DEF AddedNameWasAsked
    <3>1. ~disabled
      BY <2>1 DEF EditEndsWithDialog
    <3>2. sent'.name = fields.name /\ sent'.row = fields.row
      BY <2>1, <3>1
    <3> QED
      BY <2>2, <3>1, <3>2 DEF NameWasAsked
  <2> QED
    BY <2>1, <2>3, <2>4
<1> QED
  BY <1>1, <1>2, <1>3, <1>4, <1>5, <1>6, <1>7, <1>8 DEF FormStep

LEMMA FormUntouched == FormInv /\ UNCHANGED formVars => FormInv'
BY DEF formVars, FormInv, FormTypes, EditEndsWithDialog, Usable,
       NameWasAsked, AddedNameWasAsked

(* What the theorems on the dialog rest on: a checked name in the form was  *)
(* asked about or comes from a row.                                        *)
THEOREM FormInvariant == Spec => []FormInv
<1>1. TableInv /\ FormInv /\ [Next]_vars => FormInv'
  <2> SUFFICES ASSUME TableInv, FormInv, [Next]_vars PROVE FormInv'
    OBVIOUS
  <2>1. CASE FormStep
    BY <2>1, FormStepInv, ShownAreRows
  <2>2. CASE UNCHANGED formVars
    BY <2>2, FormUntouched
  <2> QED
    BY <2>1, <2>2 DEF Next, vars
<1> QED
  BY <1>1, TableInvariant, FormInitially, PTL DEF Spec

(* However the popup is turned over while it moves, an edit ends with it    *)
(* (close.modal).                                                          *)
THEOREM EditEnds == Spec => []EditEndsWithDialog
BY FormInvariant, PTL DEF FormInv

(* submit() adds no user under a name that was neither asked about nor left *)
(* there by an edit, in whichever order the answers come.                  *)
THEOREM AddedWasAsked == Spec => []AddedNameWasAsked
BY FormInvariant, PTL DEF FormInv

-----------------------------------------------------------------------------
(* The telephone boxes                                                      *)

TelTypes ==
  /\ tel \in [Inputs -> TelTexts]
  /\ list \in [Inputs -> Seq(Tels)]
  /\ time2 \in Inputs \union {None}
  /\ lookups \subseteq [box : Inputs, text : TelTexts]
  /\ menu \in [Inputs -> MenuStates]
  /\ keyState \in BOOLEAN
  /\ prevLi = None \/ prevLi \in [menu : Inputs, at : Nat]

TelInv == TelTypes /\ KeysFollowMenu

LEMMA TelInitially == Init => TelInv
<1> SUFFICES ASSUME TelInit PROVE TelInv
  BY DEF Init
<1>1. TelTypes
  <2>1. /\ tel \in [Inputs -> TelTexts]
        /\ menu \in [Inputs -> MenuStates]
    BY TelSuggestionsAssumption DEF TelInit, MenuStates
  <2>2. <<>> \in Seq(Tels)
    OBVIOUS
  <2>3. list \in [Inputs -> Seq(Tels)]
    BY <2>2 DEF TelInit
  <2> QED
    BY <2>1, <2>3 DEF TelInit, TelTypes
<1>2. KeysFollowMenu
  BY DEF TelInit, KeysFollowMenu
<1> QED
  BY <1>1, <1>2 DEF TelInv

(* Closing a menu that is open leaves it visible until its animation ends.  *)
LEMMA ClosingKeepsFocus ==
  ASSUME TelInv, menu' \in [Inputs -> MenuStates],
         \A i \in Inputs : menu[i] \in {"open", "closing"} => menu'[i] \in {"open", "closing"},
         UNCHANGED <<list, keyState, dropdown, prevLi>>
  PROVE  KeysFollowMenu'
BY DEF TelInv, KeysFollowMenu

LEMMA TelStepInv ==
  ASSUME TelInv, TelStep
  PROVE  TelInv'
<1> USE TelSuggestionsAssumption DEF TelInv, TelTypes
<1>c. \A i \in Inputs : /\ Closing(menu[i]) \in MenuStates
                        /\ menu[i] \in {"open", "closing"} => Closing(menu[i]) = "closing"
  BY DEF Closing, MenuStates
<1>f. ASSUME NEW i \in Inputs, NEW k \in 1 .. Len(list[i]), Fill(i, k)
      PROVE  tel' \in [Inputs -> TelTexts]
  BY <1>f DEF Fill
<1>1. ASSUME NEW i \in Inputs, NEW t \in TelTexts, TypeTel(i, t) PROVE TelInv'
  BY <1>1 DEF TypeTel, KeysFollowMenu
<1>2. ASSUME Lookup PROVE TelInv'
  BY <1>2 DEF Lookup, KeysFollowMenu
<1>3. ASSUME NEW r \in lookups, Suggest(r) PROVE TelInv'
  <2>1. r.box \in Inputs /\ Like[r.text] \in Seq(Tels)
    OBVIOUS
  <2>2. TelTypes'
    BY <1>3, <2>1 DEF Suggest
  <2>3. KeysFollowMenu'
    BY <1>3, <2>1 DEF Suggest, KeysFollowMenu
  <2> QED
    BY <2>2, <2>3
<1>4. ASSUME NEW r \in lookups, LookupFailed(r) PROVE TelInv'
  BY <1>4 DEF LookupFailed, KeysFollowMenu
<1>5. ASSUME NEW i \in Inputs, NEW k \in 1 .. Len(list[i]), ClickEntry(i, k) PROVE TelInv'
  <2>1. tel' \in [Inputs -> TelTexts]
    BY <1>5, <1>f DEF ClickEntry
  <2>2. menu' \in [Inputs -> MenuStates]
    BY <1>5, <1>c DEF ClickEntry, ClosedBut
  <2>3. KeysFollowMenu'
    BY <1>5, <1>c, <2>2, ClosingKeepsFocus DEF ClickEntry, ClosedBut
  <2> QED
    BY <1>5, <2>1, <2>2, <2>3 DEF ClickEntry
<1>6. ASSUME NEW i \in Inputs, ClickBox(i) PROVE TelInv'
  <2>1. menu' \in [Inputs -> MenuStates]
    BY <1>6, <1>c DEF ClickBox, ClosedBut, MenuStates
  <2>2. KeysFollowMenu'
    BY <1>6, <1>c, <2>1, ClosingKeepsFocus DEF ClickBox, ClosedBut, MenuStates
  <2> QED
    BY <1>6, <2>1, <2>2 DEF ClickBox
<1>7. ASSUME ClickOutside PROVE TelInv'
  <2>1. menu' \in [Inputs -> MenuStates]
    BY <1>7, <1>c DEF ClickOutside
  <2>2. KeysFollowMenu'
    BY <1>7, <1>c, <2>1, ClosingKeepsFocus DEF ClickOutside
  <2> QED
    BY <1>7, <2>1, <2>2 DEF ClickOutside
<1>8. ASSUME NEW i \in Inputs, Opened(i) \/ Closed(i) PROVE TelInv'
  BY <1>8 DEF Opened, Closed, KeysFollowMenu, MenuStates
<1>9. ASSUME KeyUp \/ KeyDown PROVE TelInv'
  <2>1. dropdown \in Inputs /\ list[dropdown] \in Seq(Tels) /\ Len(list[dropdown]) \in Nat
    BY <1>9 DEF KeyUp, KeyDown, KeysFollowMenu
  <2>2. /\ UNCHANGED <<tel, list, time2, lookups, menu, keyState, dropdown>>
        /\ \E k \in 0 .. Len(list[dropdown]) : prevLi' = [menu |-> dropdown, at |-> k]
        /\ keyState
    BY <1>9, <2>1 DEF KeyUp, KeyDown, Focus, KeysFollowMenu
  <2> QED
    BY <2>1, <2>2 DEF KeysFollowMenu
<1>10. ASSUME KeyEnter PROVE TelInv'
  <2>1. /\ UNCHANGED <<list, time2, lookups, keyState, dropdown, prevLi>>
        /\ dropdown \in Inputs
        /\ prevLi.at \in 0 .. Len(list[dropdown])
    BY <1>10 DEF KeyEnter, KeysFollowMenu
  <2>2. tel' \in [Inputs -> TelTexts]
    BY <1>10, <1>f, <2>1 DEF KeyEnter
  <2>3. \/ menu' = [i \in Inputs |-> Closing(menu[i])]
        \/ menu' = [menu EXCEPT ![dropdown] = Closing(@)]
    BY <1>10 DEF KeyEnter
  <2>4. menu' \in [Inputs -> MenuStates]
    <3>1. CASE menu' = [i \in Inputs |-> Closing(menu[i])]
      BY <1>c, <3>1
    <3>2. CASE menu' = [menu EXCEPT ![dropdown] = Closing(@)]
      BY <1>c, <2>1, <3>2
    <3> QED
      BY <2>3, <3>1, <3>2
  <2>5. KeysFollowMenu'
    BY <1>c, <2>1, <2>3, <2>4, ClosingKeepsFocus
  <2> QED
    BY <2>1, <2>2, <2>4, <2>5
<1> QED
  BY <1>1, <1>2, <1>3, <1>4, <1>5, <1>6, <1>7, <1>8, <1>9, <1>10 DEF TelStep, LookedUp

LEMMA TelUntouched == TelInv /\ UNCHANGED telVars => TelInv'
BY DEF telVars, TelInv, TelTypes, KeysFollowMenu

(* What the theorem on the keys rests on: which menu is open, and where the  *)
(* selected entry of it is, of the telephone boxes.                        *)
THEOREM TelInvariant == Spec => []TelInv
<1>1. TelInv /\ [Next]_vars => TelInv'
  BY TelStepInv, TelUntouched DEF Next, vars
<1> QED
  BY <1>1, TelInitially, PTL DEF Spec

(* The keys never act on a menu that is closed, nor on an entry that is not *)
(* in it, for any number of boxes and suggestions.                         *)
THEOREM KeysStayInMenu == Spec => []KeysFollowMenu
BY TelInvariant, PTL DEF TelInv
=============================================================================
