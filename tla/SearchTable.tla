---------------------------- MODULE SearchTable -----------------------------
(***************************************************************************)
(* The table of the three administration pages (assets/js/integral.js,     *)
(* integral_history.js, user-list.js; app.js, initTableByServer): a        *)
(* bootstrap-table that asks the server for one page of rows at a time.    *)
(* It asks again when the admin has stopped typing for 700 ms, picks a     *)
(* date, sorts or turns the page, and gives up what it asked before.       *)
(*                                                                         *)
(* The server answers a search with the rows of Hits, PageSize = 1 of them *)
(* on a page; dates and orders are kept apart but do not change the rows.  *)
(***************************************************************************)
EXTENDS Integers, Sequences

CONSTANTS
  Texts,       \* what can be typed into the search box
  Dates,       \* what can be picked as a first and as a last day
  Rows,        \* the rows of the server, by their ids
  Hits,        \* [Texts -> Seq(Rows)], the rows the server finds for a text
  None,
  MaxSearches  \* bound: how often the admin uses the table

Blank  == ""
Pages  == {"integral", "history", "users"}
Boxes  == {"start", "end"}
Orders == {"asc", "desc"}

ASSUME SearchTableAssumption ==
  /\ Blank \in Texts
  /\ Blank \notin Dates
  /\ Hits \in [Texts -> Seq(Rows)]
  /\ None \notin Rows
  /\ MaxSearches \in Nat

VARIABLES
  page,        \* which of the pages is open
  inUse,       \* the parts of the page that the admin uses
  text,        \* #search
  dates,       \* #start and #end, as they show
  timer,       \* the 700 ms of the search box are running
  sortName,    \* options.sortName: the column with the arrow, None before
  sortOrder,   \* options.sortOrder
  orderOf,     \* data("order") of each column's header
  pageNumber,  \* options.pageNumber
  totalPages,  \* of the last answer
  asking,      \* the requests under way
  shown,       \* the request whose rows are shown, None before
  loadError,   \* the last request has failed
  searches     \* how often the table was used, up to MaxSearches

tableVars == <<text, dates, timer, sortName, sortOrder, orderOf, pageNumber,
               totalPages, asking, shown, loadError, searches>>

(* The columns with sortable: true; those of user-list.js cannot be sorted. *)
Sortable == [integral |-> {"tel", "name", "integral", "dateTime", "lastDate"},
             history  |-> {"tel", "name", "inum", "datetime", "typeStr"},
             users    |-> {}]
Columns  == UNION {Sortable[p] : p \in Pages}

(* Faulty variant: the case of inum is missing.                             *)
SortCasesWithoutInum ==
  [integral |-> {<<"dateTime", "date_time">>, <<"name", "name">>, <<"tel", "tel">>,
                 <<"integral", "integral">>},
   history  |-> {<<"name", "b.name">>, <<"user.nice", "b.nice">>,
                 <<"typeStr", "a.type">>, <<"tel", "tel">>}]

(* The cases of query(): a column and its name on the server.               *)
SortCases ==
  [integral |-> {<<"dateTime", "date_time">>, <<"name", "name">>, <<"tel", "tel">>,
                 <<"integral", "integral">>},
   history  |-> {<<"name", "b.name">>, <<"inum", "i_num">>, <<"user.nice", "b.nice">>,
                 <<"typeStr", "a.type">>, <<"tel", "tel">>}]

(* What the server is asked to order by: the default case is the page's own *)
(* order, whichever way the arrow points.                                   *)
AskedOrder(p, name, order) ==
  CASE p = "users" -> <<name, order>>
    [] p # "users" /\ \E c \in SortCases[p] : c[1] = name ->
         <<(CHOOSE c \in SortCases[p] : c[1] = name)[2], order>>
    [] OTHER -> IF p = "integral" THEN <<"last_update", "DESC">> ELSE <<"a.date_time", "DESC">>

HasDates(p) == p # "users"

(* The request as it is now: queryParams reads the boxes when it is sent.   *)
Query(t, d, name, order, n) ==
  [text |-> t, start |-> d["start"], end |-> d["end"],
   order |-> AskedOrder(page, name, order), pageNumber |-> n]

RowsOf(q)  == IF q.pageNumber <= Len(Hits[q.text]) THEN {Hits[q.text][q.pageNumber]} ELSE {}
ShownRows  == IF shown = None THEN {} ELSE RowsOf(shown)

(* The page has loaded: the boxes are blank and the table asks at once.     *)
TableInit ==
  /\ text = Blank
  /\ dates = [b \in Boxes |-> Blank]
  /\ timer = FALSE
  /\ sortName = None
  /\ sortOrder = "asc"
  /\ orderOf = [c \in Columns |-> "asc"]
  /\ pageNumber = 1
  /\ totalPages = 0
  /\ asking = {Query(text, dates, sortName, sortOrder, pageNumber)}
  /\ shown = None
  /\ loadError = FALSE
  /\ searches = 0

-----------------------------------------------------------------------------
Use == "table" \in inUse /\ searches < MaxSearches /\ searches' = searches + 1

(* initServer: what was asked before is aborted.                            *)
Ask(q) == asking' = {q} /\ loadError' = FALSE

(* bootstrapTable("refresh"): the same page number, whatever is in the boxes now. *)
Refresh == Ask(Query(text', dates', sortName, sortOrder, pageNumber))

(* The input event of #search; a running timer is cleared first.            *)
TypeSearch(t) ==
  /\ Use
  /\ t # text
  /\ text' = t
  /\ timer' = TRUE
  /\ UNCHANGED <<dates, sortName, sortOrder, orderOf, pageNumber, totalPages,
                 asking, shown, loadError>>

SearchTimeout ==
  /\ timer
  /\ timer' = FALSE
  /\ UNCHANGED <<text, dates>>
  /\ Refresh
  /\ UNCHANGED <<sortName, sortOrder, orderOf, pageNumber, totalPages, shown, searches>>

(* Faulty variant: the boxes are looked at before the date is put in.       *)
PickDateTooLate(b, d) ==
  /\ HasDates(page)
  /\ Use
  /\ dates' = [dates EXCEPT ![b] = d]
  /\ UNCHANGED text
  /\ IF \A c \in Boxes : dates[c] # Blank
       THEN Refresh
       ELSE UNCHANGED <<asking, loadError>>
  /\ UNCHANGED <<timer, sortName, sortOrder, orderOf, pageNumber, totalPages, shown>>

(* changeDate of #start and #end: the table waits until both are set.       *)
PickDate(b, d) ==
  /\ HasDates(page)
  /\ Use
  /\ dates' = [dates EXCEPT ![b] = d]
  /\ UNCHANGED text
  /\ IF \A c \in Boxes : dates'[c] # Blank
       THEN Refresh
       ELSE UNCHANGED <<asking, loadError>>
  /\ UNCHANGED <<timer, sortName, sortOrder, orderOf, pageNumber, totalPages, shown>>

(* onSort: another click turns the arrow of a column round.                 *)
ClickHeader(c) ==
  /\ Use
  /\ sortName' = c
  /\ sortOrder' = IF (IF sortName = c THEN sortOrder ELSE orderOf[c]) = "asc"
                    THEN "desc" ELSE "asc"
  /\ orderOf' = [orderOf EXCEPT ![c] = sortOrder']
  /\ Ask(Query(text, dates, sortName', sortOrder', pageNumber))
  /\ UNCHANGED <<text, dates, timer, pageNumber, totalPages, shown>>

(* Faulty variant: the page is asked for before its number is changed.      *)
TurnPageTooLate(n) ==
  /\ Use
  /\ n # pageNumber
  /\ pageNumber' = n
  /\ Ask(Query(text, dates, sortName, sortOrder, pageNumber))
  /\ UNCHANGED <<text, dates, timer, sortName, sortOrder, orderOf, totalPages, shown>>

(* onPageNumber: the bar has the pages of the last answer.                  *)
TurnPage(n) ==
  /\ Use
  /\ n # pageNumber
  /\ pageNumber' = n
  /\ Ask(Query(text, dates, sortName, sortOrder, n))
  /\ UNCHANGED <<text, dates, timer, sortName, sortOrder, orderOf, totalPages, shown>>

(* load: the rows are put in, and a page number beyond the last page is set *)
(* to the last page without asking for its rows.                            *)
Loaded(q) ==
  /\ q \in asking
  /\ asking' = asking \ {q}
  /\ shown' = q
  /\ totalPages' = Len(Hits[q.text])
  /\ pageNumber' = IF totalPages' > 0 /\ pageNumber > totalPages'
                     THEN totalPages' ELSE pageNumber
  /\ UNCHANGED <<text, dates, timer, sortName, sortOrder, orderOf, loadError, searches>>

NotLoaded(q) ==
  /\ q \in asking
  /\ asking' = asking \ {q}
  /\ loadError' = TRUE
  /\ UNCHANGED <<text, dates, timer, sortName, sortOrder, orderOf, pageNumber,
                 totalPages, shown, searches>>

Answered == \E q \in asking : Loaded(q) \/ NotLoaded(q)

TableStep ==
  \/ \E t \in Texts : TypeSearch(t)
  \/ SearchTimeout
  \/ \E b \in Boxes, d \in Dates : PickDate(b, d)
  \/ \E c \in Sortable[page] : ClickHeader(c)
  \/ \E n \in 1 .. totalPages : TurnPage(n)
  \/ Answered

(* A timer runs down, and the server answers or the browser gives up.       *)
TableFairness == WF_tableVars(SearchTimeout) /\ WF_tableVars(Answered)

-----------------------------------------------------------------------------
AtRest == asking = {} /\ ~loadError

(* In the end the rows are those of what is in the boxes: no request that   *)
(* is answered late, no timer and no date is left behind.  The exceptions   *)
(* are a request that failed, which nothing repeats, and a day that is      *)
(* picked while the other is not: it counts from the next search on.        *)
TableSettles ==
  <>[](loadError \/ /\ shown # None
                     /\ shown.text = text
                     /\ \/ \E b \in Boxes : dates[b] = Blank
                        \/ [b \in Boxes |-> shown[b]] = dates)

(* The name, on the server, of what a column shows.                         *)
ServerColumn ==
  [integral |-> [tel |-> "tel", name |-> "name", integral |-> "integral",
                 dateTime |-> "date_time", lastDate |-> "last_update"],
   history  |-> [tel |-> "tel", name |-> "b.name", inum |-> "i_num",
                 datetime |-> "a.date_time", typeStr |-> "a.type"]]

(* The arrow in the header tells the order of the rows: they are ordered by *)
(* that column, in that direction.  The exception is the column of the      *)
(* page's own order (lastDate, datetime), which no case of query() names:   *)
(* its arrow turns but the newest rows stay first.                          *)
ArrowTellsOrder ==
  AtRest /\ sortName # None =>
    /\ shown.order[1] = ServerColumn[page][sortName]
    /\ shown.order[2] = sortOrder \/ sortName \in {"lastDate", "datetime"}

(* The bar names the page whose rows are shown.  The exception is a search  *)
(* that finds fewer pages than the one it was typed on: refresh keeps the   *)
(* page number, so the table is empty although there are rows, and the bar  *)
(* shows the last page.                                                     *)
BarTellsPage ==
  AtRest =>
    \/ shown.pageNumber = pageNumber
    \/ shown.pageNumber > totalPages /\ pageNumber = totalPages /\ ShownRows = {}
=============================================================================
