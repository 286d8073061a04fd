# A verification model of testNettyRpcV2

The program is a small parking-fee cloud. One half is an RPC service on Netty 4.1: parking lots (the
*clients*, behind NAT) open a TCP connection to the cloud (the *server*), announce their lot by
heartbeats, and the cloud calls methods on them. A call starts as an HTTP request to the cloud,
travels to the lot over the connection the lot opened, is run there by reflection, and the answer
travels back to the HTTP thread that waits for it. The other half are the administration pages in the
browser, in their own JavaScript.

This directory holds TLA+ modules translated from the source, the TLC configurations that
check them on small instances, and TLAPS proofs for every instance. Java paths below are relative to
`src/main/java`, JavaScript ones to `src/main/resources/static/assets/js`. Everything was read at one
commit, with Java 8, Netty 4.1.28 and Guava 25.1 (the versions of the build file), because races
inside `HashMap`, `ArrayDeque` and Netty matter here.

## 1. Inventory

| Component | State | Operations | Talks to |
|---|---|---|---|
| Channel registry: `netty/core/ServerNettyMapping`, `netty/server/RpcServerHandler`, `netty/heart/AcceptorIdleStateTrigger`, the pipeline of `RpcServer` | `group` (a Netty `ChannelGroup`), `serverChannelMap` (lot id -> channel id, a plain `HashMap`) | accept; HEART branch (check, `group.add`, `put`); reader-idle exception -> close; `channelInactive` -> `removeServerChannel` (fail-fast iteration, remove, `group.remove`) | all event loops and HTTP threads share the two maps, no lock |
| Remote call: `ServerController.rpcTest`, `ServerServiceImpl.request`, `sendRequestMessage`, `registerListenerAndReturn`, `PpcClientHandler`, `AbstractInvoker` | `rpcMessageMap` (message id -> response, a plain `HashMap`), each HTTP thread's position | look up, scan, write, put null, sleep 500 ms, spin, remove; on the client: invoke and answer; RESPONSE branch: put | registry (shared maps), client (messages) |
| Client reconnection: `netty/heart/ConnectionWatchdog`, `netty/client/RpcClient` | `attempts`, pending timeouts, `socketChannel` | `connect`, `channelActive`, `channelInactive`, `run` (timer), its future listener, `sendMessage` | event loops, a `HashedWheelTimer`, the thread in `connect` |
| Message codec: `netty/serialize/*` | the decoder's buffer, the Kryo pool, the static `Closer` of `KryoCodecUtil` | cut frames, encode, decode, borrow/release, register/close | all event loops of a JVM share pool and closer |
| `DateUtil` | none (pure functions of the clock) | offsets, resets, months, quarters, workdays | nothing calls it |
| Administration pages: `integral.js`, `integral_history.js`, `user-list.js`, `app.js` | the table's options and request, the boxes, the 700 ms timers, the dialog and its form, the menus of suggestions, which menu the keys go to | type, pick dates, sort, turn pages, answers and failures; edit, add, validate, submit; look up, suggest, click, arrow keys | the server (requests), bootstrap-table, the modal and dropdown of Amaze UI |
| Page date helpers: `app.js` | the `Date` they are given, which they change | first day of week, month, quarter and year, month before, first and last date | nothing yet |
| Scroller: `iscroll.js` | position, transition or animation under way, finger, pages, scrollbar, timeouts | touch, wheel, keys, resize, refresh, snapping, momentum, bouncing, scrollbar | the browser: transitions, animation frames, timeouts; listeners to its events |
| Server start: `RpcServer.start`, `ServerController.startServer` | two event-loop groups, the bound channel | bind, wait for close, shut down on an exception | - |
| Service lookup: `ServiceCenter` | `serviceMap` | fill at Spring start, look up | the client's invoker |
| Heartbeat timing: `IdleStateHandler(0,4,0)` and `(5,0,0)` | timers | write-idle 4 s on the client, read-idle 5 s on the server | registry |
| the rest | - | demo controllers, an interceptor that lets all pass, data classes, manual tests, `ClientNettyMapping` (unused), vendored front-end libraries | - |

What is hard. In the Java half four kinds of threads (HTTP, server event loops, client event loops,
timer) share unsynchronized maps; checks and acts on them are separate; a fail-fast iterator runs
while others write; a response races with the registration of its listener; a timeout can hit a peer
that is only late; a reconnect's failure must be heard by a listener added after the fact; an
exception in one step skips the steps after it. In the browser one thread runs every handler to its
end, but the order of the handlers is anyone's: timers shared between boxes, answers after the
question has changed, popups that are turned over while they move, transitions stopped half-way by a
key, frames of animations that a finger has ended. In the date functions it is the calendar: days that
a month does not have, objects that a helper has changed. The full list, with lines, is in
`PROJECT.json` under `hazards`.

What makes each part correct:

* registry: what is mapped can be found in `group` and is alive; what has gone is not mapped; a
  lot with a connected client is reachable again in the end;
* call: a call gets its own answer or none, runs at most once, leaves nothing behind, and ends if
  it is answered; a failure reaches the caller;
* reconnection: one chain of retries, never two, never none; back-off grows, retries are limited;
  success resets the count;
* codec: frames stay aligned and ordered whatever the chunks; a Kryo is used by one thread; the
  closer does not keep or mix up streams;
* dates: periods follow on one another without a gap, an offset is described as what it is, the
  pages and the server mean the same by a month, a quarter and a week;
* pages: what is shown belongs to what was typed and clicked last; an edit cannot leak into the
  next dialog; keys act on the menu that is open;
* scroller: the content comes back into view, whoever was told of a start is told of the end,
  a page is shown whole, numbers stay numbers, and left alone everything comes to rest.

## 2. Modules

| Module | Models | Composed from |
|---|---|---|
| `ChannelRegistry` | the registry | - |
| `RpcContract` | what a remote call promises (abstract) | - |
| `RpcSystem` | the remote call | EXTENDS `ChannelRegistry`; implements `RpcContract` |
| `ConnectionWatchdog` | client reconnection | - |
| `MessageCodec` | framing, encoding, Kryo pool, closer | - |
| `DateUtil` | offsets, months, quarters, workdays | - |
| `PageDates` | the date helpers of `app.js` | EXTENDS `DateUtil`, with whose functions it is compared |
| `SearchTable` | the table, its search box, dates, order and pages | - |
| `UserForm` | the dialog of a user | EXTENDS `SearchTable`, from whose rows it is filled |
| `TelSuggestions` | the telephone boxes, their menus and keys | EXTENDS `UserForm` |
| `AdminPages` | the three pages | EXTENDS the three above |
| `IScroll` | the scroller | - |
| `ChannelRegistryProofs`, `RpcSystemProofs`, `ConnectionWatchdogProofs`, `MessageCodecProofs`, `PageDatesProofs`, `PeriodProofs`, `AdminPagesProofs`, `IScrollProofs` | theorems | the module, TLAPS |
| `MC*` and `*.cfg` | instances for TLC | the module |

In a module, definitions marked *faulty variant* are no part of the model: each is a plausible bug
in the code (a forgotten reset, a dropped guard) that can be put in the place of the definition it
imitates to see that a property notices.

### ChannelRegistry

`chan[ch]` is the connection (free, open, dead = the peer vanished without a FIN, closed, gone,
failed) and `loop[ch]` where its event loop is inside a callback. A callback is split at every
access to a shared map, and only there: `HeartCheck` (get), `HeartAdd` (`group.add`), `HeartPut`
(`put`), `InactiveBegin` (`keySet().iterator()`), `InactiveNext` (`next`, `get`, compare),
`InactiveRemove` (`iterator.remove`), `InactiveDone` (`group.remove`), `InactiveThrows`. Two
callbacks of one channel never overlap (Netty), which is the guard `loop[ch] = "idle"`.

* Netty completes `closeFuture`, which runs the group's own remover, before `channelInactive`
  fires (deregistration is a later task of the loop): `Closed` takes the channel out of `group`.
* `group.add` installs a listener that fires at once on a closed channel; add and removal are one
  step (`GroupAdd`).
* Netty's close and the group's remover are one step, as are that add and its listener. Between the two
  a thread that scans `group` can see a closed channel; what it writes there is lost, as in
  a write to a channel that closes just after the scan, which the model has.
* Bytes left in the decoder are still delivered after the close, before `channelInactive`.
* `HashMap` data races are modelled by their outcomes: a put of a *new* key can be lost while
  another thread puts or removes a *different* key, a remove can be undone by the concurrent
  remove of a neighbour (`undone`), and `iterator.remove()` can pass its modCount check before
  and remove after another's change. Operations on one and the same key have the outcome of some
  order. The growth of the table (more than 12 ids) is not modelled.
* `stale` stands for the modCount comparison: a new key or a remove makes the other iterators
  fail at their next check; `hasNext` does not check.

### RpcSystem and RpcContract

Each request has its own thread (`call[r]`) and its random UUID, assumed unique, so the request
stands for its id. `Lookup`, `ScanFinds`/`ScanMisses`/`ScanThrows`, `Write`, `PutNull` are
`sendRequestMessage`; `Wake`, `Interrupt`, `Poll`, `Take` are `registerListenerAndReturn`;
`ClientExecutes`, `ClientCannotInvoke`, `ClientThrows` are the three ways the client's REQUEST
branch ends; `ReceiveResponse` is the RESPONSE branch. The assertion after the lookup is not
enabled in production, so a null id goes on to the scan, which dereferences it if the group is
not empty. Messages on the wire are sets: what TCP delivers in order is also delivered in other
orders. A write to a channel that has closed is lost silently, because the future is not looked
at. So is a message that a codec throws on, with the channel left open: the encoder of either side (Kryo, or
the closer that `MessageCodec` models) in `Write` and `Answer`, the client's decoder in `ClientDrops`. `dropped` remembers
these requests; when the server's decoder throws, the server closes the channel, which `PeerCloses` is. Gets of the spin
loop that see null (or a stale null) are stuttering steps.

`RpcContract` is a call with `Start`, `Execute`, `Return`, `Throw`: it executes at most once, only
after it has started, and returns null or the value of its own execution. `RpcSystem` maps `Status`,
`Reply` and `Ran` onto its variables.

### ConnectionWatchdog

`conn[c]` is a channel object's life; `pending` counts the watchdog's timeouts; `runner` is the
channel `run()` has begun and does not listen to yet; `listening` those it does. A failed connect
completes the future first and destroys the pipeline in a later event-loop task, so a listener
added in between, before, or after has different effects (`RefusedHeard`, `RefusedUnheard`,
`Deregister`, `AddListener`). `ShiftOne` is Java's `1 << n` on 32 bits. Time is left out: a timeout
fires some time after it is scheduled; a negative delay fires at the next tick like any other.

### MessageCodec

A byte is known by its message and place, so that a misaligned decoder is visible. `Arrive` cuts
the stream at any byte. `step[l]` follows a loop through `register`, borrow, work and
`closer.close()`. `isEmpty` and `removeFirst` are separate steps, so a loop can find the deque
emptied by another and fail with `NoSuchElementException`; overlapping calls (`torn`) can lose
streams or leave a null inside the deque (`holed`), after which no `close()` ever succeeds.

### DateUtil and PageDates

The functions are operators over the fields of a `Calendar`; the clock they read is the only
state, and `LaterToday` and `Tomorrow` take it through every day. What `java.util.Calendar` does is
modelled by its effect: `AddMonths` takes a shorter month's last day, a field that is only set is
resolved by `getTime()` into the next month (`Resolve`), `SetWeekDay` depends on the locale's first
day of the week (a Saturday, a Sunday or a Monday in the locales of Java 8). Days are added by at most
the 28 that every month has. `ToInt` cuts an offset to 32 bits, in two parts, because TLC's own
integers have no more. Milliseconds are kept where the code keeps them. There is no summer time (the
time zone of the parking lots has none).

The helpers of `app.js` set fields of the JavaScript `Date` they are given: each operator of `PageDates`
is the `Date` it leaves behind, so that calling one helper on what another has left can be written
down, and those that return something else than its `format()` have a second operator. `setMonth` and
`setDate` resolve a day the month lacks at once, into the next month: that is what makes them differ
from `Calendar.add`.

### SearchTable, UserForm, TelSuggestions, AdminPages

A handler is an action. `TypeSearch`, `SearchTimeout`, `PickDate`, `ClickHeader` and `TurnPage` are what
the admin does with the table, `Loaded` and `NotLoaded` the answer of the server and its failure. The
parts of bootstrap-table they run through are modelled with them: `initServer` aborts the request
before (`Ask`), `onSort` keeps an order per header (`orderOf`), `load` sets a page number that is too high
back to the last page without asking for it. `AskedOrder` is the `switch` of `query()` in each page. One
row is on a page, so that two hits are two pages.

In `UserForm` the popup has the two variables that Amaze UI's modal goes by: `active` is set when it
begins to open and taken back when it has closed, `moving` is the transition; `modal()` *toggles*, so a
click can close what it was meant to open. `action` and `disabled` are what `close.modal` resets; `fields` is the
one form that both uses share. The name's validity is a promise (`pending`) whose answers come in any
order (`ExistsAnswered`).

In `TelSuggestions` all boxes share one timer (`time2`), one request (`latest`, aborted by the next) and
one `prevLi`. Menus open and close with animations; `Opened` and `Closed` are their ends, in any order.
`KeyUp`, `KeyDown`, `KeyEnter` are the handler of `keydown` in `app.js`, guarded by `keyState`.

`AdminPages` composes them: a page has the table, and the dialog (users) or the telephone boxes
(points). The table and the boxes share no variable and no element, so that a behaviour uses
the one or the other; the dialog is used together with the table, whose rows it edits.

### IScroll

`motion` is the position with what moves it: a CSS transition (`from` and where it began, `timed`), or
the frames of `_animate` that have been asked for; `isInTransition` and `isAnimating` are the code's
own flags, which need not agree with that. `touch`, `dirn`, `page`, `bar` and `timers` are the fields of
the object; `view` is what a listener to `scrollStart` and `scrollEnd` believes and what the fading scrollbar
shows. One action is one handler: `PointerDown`, `PointerMove`, `PointerUp`, `TransitionEnd`, `AnimationFrame`,
`Wheel`, `WheelTimeout`, `Key`, `Resize`, `Refresh`, the calls (`CallScrollTo`, `CallScrollBy`, `ScrollToElement`,
`NextPage`, `PrevPage`, `Switch` for `enable` and `disable`, `Destroy`), and the scrollbar's own finger (`BarDown`, `BarMove`,
`BarUp`) and `FadeTimeout`. A finger is there (`touch.down`, `bar.down`) and is believed to be there (`touch.initiated`,
`bar.held`): the two part when the browser cancels it or it is lifted from a scroller that is disabled (`FingerLost`,
`BarFingerLost`). `_end()` then returns at once, because `utils.eventType` has no entry for a cancel event, and the next
finger or mouse of the same kind on the window goes on with the drag. Before the first touch `initiated` and the type of a cancel
event are both `undefined`, so that `_end()` does run (`UntouchedCancel`). A handler that reads where a running transition is shown (`getComputedPosition`) finds one of
`Steps` points of its way. Positions are in thirds of a pixel, because a drag out of bounds is divided by three;
NaN and infinity are positions (a division by an elapsed time of 0 makes them). Times are the cases the code
compares them with: within the same tick, up to 200 ms (a flick), up to 300 ms (momentum), longer.

## 3. Runs

TLC, all states. Deadlock is checked in the runs of the watchdog; elsewhere it is off, because all
connections, calls, messages, days or inputs may be used up.

| Run | Instance | Distinct states | Shows |
|---|---|---|---|
| `rpc` | 3 connections of 2 lots, 2 calls, of which any three occur (`FewEvents`) | 282,103 | `TypeOK`, `GroupIsLive`, `MappedIsGrouped`, `CompletedRemovalIsClean` under colliding iterations, `OwnAnswer`, `NoEntryLeft`, `ResponseKept`, `ImplementsContract`, `LotReachable`, `AnsweredCallEnds` |
| `watchdog_main` | 3 channels, limit 50 | 8,378 | `SingleChain`, `UpMeansReset`, `Reconnects`, `DelayGrows` |
| `codec` | 2 loops, 4 messages, 4-byte length | 119,560 | `StreamAligned`, `OrderKept`, `CloserEmptyAtRest`, `KryoExclusive`, `EveryFrameDelivered` |
| `dates` | every day of 2096 to 2104 (2100 is no leap year) at 3 times, weeks from Saturday, Sunday and Monday, 8 dates to describe | 9,861 | `PeriodsTile`, `WorkdaysAreNeighbours`, `OffsetIsDescribed`, `SeasonStartsAtItsQuarter`, `MonthHasItsEnds`, `PagesAgreeWithServer` |
| `pages` | 3 pages, 2 rows, 3 texts, 2 boxes; `MaxSearches` 3, `MaxDialogs` 4, `MaxKeys` 4 | 375,777 | `TableSettles`, `ArrowTellsOrder`, `BarTellsPage`, `EditEndsWithDialog`, `AddedNameWasAsked`, `LastTypedIsAnswered`, `KeysFollowMenu` |
| `iscroll` | 20 kinds of scroller, a window of 2 by 2 pixels | 324,778 | `PageExists`, `OnlyTheseStrandIt`, `EveryEndIsTold`, `BarFades`, `PageIsShown`, `NumbersComeFromNumbers`, `LeftAloneItRests` |
| `ghost_mapping` | 3 connections, 2 ids | - | violated: see section 5 |
| `response_overwritten` | 2 connections, 2 calls | - | violated: see section 5 |
| `failure_not_reported` | 1 connection, 1 call | - | violated: see section 5 |
| `watchdog_chain_breaks`, `watchdog_limit` | as `watchdog_main` | - | violated: see section 5 |
| `documented_dates` | as `dates` | - | violated: see section 5 |

A type invariant stands in the run of the call only, whose composition is the one place where a
variable of one module is written by another; elsewhere the invariants of the proofs contain the types.

Why the bounds are enough. The registry's interference is between one iterating channel, one
writer that makes it stale and one that shares its id, which is three connections; two calls are enough to
mix two answers up and to race on the map of responses, and one call with two connections to have its lot
registered anew, or its channel closed, under it. `FewEvents` lets any three of these five happen: three connections,
two and a call, or one and two calls. That two calls meet two connections is left to `RpcSystemProofs`, whose theorems
hold for every number of both. The watchdog's channel objects other than the first are
reused without bound, and its counter runs through the whole range of the code; two loops overlap
in all ways two calls can, and frames of two sizes are cut at every byte; nine years have every
month length, three leap years and a century that is none, and months begin on every day of the
week; of the dates to describe one is always, one at first too far away for an `int`. No run uses symmetry.

A table is used three times: to set an order or a page, to ask again while that is on its way, and to change
what is asked once more; the server knows searches with no, one and two pages of hits. Four uses of the
dialog turn it over, type into it, turn it over while it moves, and submit with what was left; four of
the boxes open two menus, walk and choose in one of them while the other closes. What is typed and answered
is not bounded, nor how often a timer, a transition or an answer comes in between. `AdminPagesProofs` shows the
invariants without the bounds.

A scroller's positions are bounded by how far a finger may go (`Reach` 2) and how far momentum or a call may go
out of bounds (`Overshoot` 1); a transition has 2 steps, so that it can be stopped at its begin, in the middle and at its end;
2 frames are waited for at once, which is the first number at which an animation meets the stray frame of
another. The window and the content are a few pixels, so that every rounding, both ends and up to three pages occur;
the thresholds of the code (10, 100 and 8 pixels) are CONSTANTS of the same scale. The 20 setups are chosen
so that every option meets each it interacts with: bounce with CSS easing and without, momentum, one and two
directions, locked and free, snapping in one direction and in two (with keys, and under a finger), a scrollbar (also
across a thrown axis), wheel and keys, a page that sends the content where a finger moves it from, content that shrinks,
an instance that is disabled and destroyed, drags left to the browser, fingers that are cancelled on a list, on a
scrollbar and on pages, and calls that send lists and pages anywhere. There is no bound on the number of events.
Not among them is a scrollbar on pages in two directions; `IScrollProofs` covers it for what it proves.

Fairness. *Registry*: a loop runs a callback it has begun to its end; a connected client sends a
heartbeat every 4 s (weak fairness of `HeartCheck`); a channel whose peer has vanished is idle
after 5 s. Nobody has to connect, close, or vanish. *Call*: threads and handlers run on, a
message put by one thread is in the end seen by another's spinning get, a message on a live
connection arrives (`MCSpec` of the run `rpc` assumes both). *Watchdog*: timeouts fire, connects end one way or the other. *Codec*: bytes
sent arrive, loops go on; nothing forces Kryo to throw. *Pages*: a timer of 700 ms runs down, and a request
is answered or the browser gives it up; the admin need not do anything. *Scroller*: the browser
ends transitions and runs the frames and timeouts it was asked for; no finger need be lifted, and
`LeftAloneItRests` speaks of the behaviours in which, from some time on, only these happen.

## 4. Theorems

Proved by TLAPS for every set of channels, ids, requests, rows, texts, years, messages, windows, contents and
options and every limit. The assumptions are those stated with `ASSUME` in the modules (NULL, Absent, NaN and None
differ from values, ids are assigned to channels, MAX_ATTEMPTS is positive, the server's rows are a sequence for every
text, a week begins on a Saturday, Sunday or Monday, the dates to describe are dates, the length field has at least
one byte, contents are nearer than the number that stands for infinity).

* `ChannelRegistryProofs`: `RegTypeOK`, `GroupIsLive`, `MappedIsGrouped`, `CompletedRemovalIsClean`,
  and, if all clients send one id, `NoGhostMapping`. The properties are not inductive alone:
  `MappedIsGrouped` needs `PutIsGrouped` (between add and put the channel is in the group unless
  closed) and `OwnKey`; completed removals need `KeysLeftCover` (an iterator still has before it
  every key its channel is mapped under), which rests on `LoopShape`: only a channel's own loop
  maps it, and that loop is busy iterating. The one-id theorem adds `StaleIsUnmapped`: whatever
  made the iterator fail has also unmapped the channel, which is false with two ids (section 5).
* `RpcSystemProofs`: `TypeOK`, `OwnAnswer`, `NoEntryLeft`, `ResponseKept`, and
  `Spec => RpcContract!Spec`. The invariant follows a request along caller, wire, client, wire,
  map, caller, and says it is in one place at a time: nothing exists before the write
  (`NothingBeforeWrite`), a request on the wire is unexecuted and unanswered (`RequestIsFresh`), a
  response is the only one and genuine (`ResponseIsGenuine`), and nothing is left after the return.
* `ConnectionWatchdogProofs`: `SingleChain`, `UpMeansReset`, from one invariant that says at most
  one of *pending timeout, running timer task, connect under way, connection* exists; and the action property
  `DelayGrows`, for any limit of attempts, below that limit: the delay is always that of the last failure, and of the
  32 shifts that Java's `<<` tells apart only the last two do not double it.
* `MessageCodecProofs`: `KryoExclusive`, from the fact that a loop uses a Kryo exactly while it is at
  work, and that what is in use is not in the pool; `CloserEmptyAtRest`, which is inductive; and `StreamAligned` and
  `OrderKept`, for messages of any sizes cut at any byte. Their invariant counts: the decoder has taken some number n
  of frames, what is buffered and on the wire is the stream of the others, and what was delivered is a
  subsequence of the first n (`InboundInv`; `OutboundInv` for the encoder). A stream is defined by recursion; what it
  is for every sequence of messages is shown by taking the least counterexample, which needs no
  induction theorem with an operator as its parameter.
* `PageDatesProofs`: `WorkdaysAreNeighbours`, for every year. `AddDaysCounts` says that adding n days adds
  n to the day number, from the month table (`MonthTable`) and from when a year is a leap year
  (`LeapYears`); the days of the week are then remainders by 7. And `SeasonStartsAtItsQuarter` and
  `MonthHasItsEnds`, on the days on which the code is right (their preconditions; the other days are runs of section 5),
  and `PagesAgreeWithServer`, for every year. Every date that is met on the way is written `At(d, y, m, n)`, and four lemmas say what `setDate`, `setMonth`
  and `add` make of it inside a month and across its ends (`AddWithin`, `AddAfter`, `AddBefore`,
  `SetMonthDate`); `MondayOfADate` finds the Monday by remainders.
* `PeriodProofs`: `PeriodsTile`, with quarters on the days where `DayIsLost` does not hold. The bounds of months and quarters are the first and the last of a
  month (`FirstOf`, `LastOf`), which join up (`NextMonthBegins`) and have now between them (`NowIsBetween`);
  the week is a table of remainders for each of the three first days (`WeekByRemainder`); a rolled date
  keeps its day, or the last one of the month, through two calls of `add` (`AddMonthsKeepsDay`). And
  `OffsetIsDescribed` (of descriptions, all but those of a day to sixty hours), of any date whose distance in
  seconds fits an `int`: the two parts of the difference make up the distance (`OffsetIsDistance`), and
  dividing by one unit after another loses nothing.
* `AdminPagesProofs`: `ArrowTellsOrder`, `BarTellsPage`, `EditEndsWithDialog`, `AddedNameWasAsked`
  and `KeysFollowMenu`, for any rows, texts, boxes and any number of uses. The table's invariant is that a
  request under way is the only one and asks for what the table is set to (`AskingIsCurrent`), and that
  a table at rest shows the answer to it (`ShownIsCurrent`); the form's, that a checked name was asked about or is the row's (`NameWasAsked`); the boxes'
  properties are inductive with the types. Steps of one part leave the others' invariants alone.

* `IScrollProofs`: `PageExists`, `NumbersComeFromNumbers` and `OnlyTheseStrandIt`. What a handler makes of positions is
  proved once for any set P of positions that rounding, clamping and movements do not leave (`Closed`), as an
  invariant `ScrollTypes(P)`: with all positions for P it is the type invariant, with those that are not lost
  (`Near`) it says that numbers stay numbers. `PageInv` says that `currentPage` is a page (`IsPage`); it rests on
  the last page's middle being past the end of the content (`PagesReachBounds`), so that a number always finds one. For
  `OnlyTheseStrandIt` each handler is shown to send the scroller to between the bounds or to where nothing is (`Placed`),
  or to leave a finger, a transition, a frame or a refresh to come (`Found`); rounding must not cross a bound,
  which holds because bounds are whole pixels. A finger counts only if it will be heard (`InHand`: the scroller is enabled and
  the finger is on it), so that the steps which lose one are exceptions of their own (`Loses`), as is a call that sends the content
  out of bounds (`SentOutside`). Two other exceptions (`BarCrosses`, `ThrownToShown`) came out of this proof: the property had
  been stated without them, and held only of the setups that the run had then. The setups `Sent` and `Crossed` now reach
  them, `Cancelled`, `CancelledPages`, `Driven` and `DrivenPages` the others.

Only model-checked:

* out of the prover's reach, all liveness: `LotReachable`, `AnsweredCallEnds`, `Reconnects`, `EveryFrameDelivered`,
  `TableSettles`, `LastTypedIsAnswered`, `LeftAloneItRests`;
* the six counterexamples, which are behaviours;
* `EveryEndIsTold`, `BarFades` and `PageIsShown` of `IScroll`: their exceptions are cases of the setups in the
  run, and for all options there may be more of them, as there were for `OnlyTheseStrandIt`.

## 5. What the model says of the code

Each of these is a run that TLC ends with a counterexample, and a comment of the code that says
otherwise (quoted in `PROJECT.json`).

1. `ghost_mapping` (`ServerNettyMapping:81`): with two ids, `removeServerChannel` can be cut short
   by `ConcurrentModificationException`; the dead channel stays mapped, and since a heartbeat only
   registers when the lookup is null, its lot can never be registered again.
2. `response_overwritten` (`ServerNettyMapping:113`): the null is put *after* the write; a fast
   response is overwritten and the HTTP thread spins for ever.
3. `failure_not_reported` (`PpcClientHandler:62`): the catch block dereferences the response that
   was not built; the server never hears of the failure, and the HTTP thread spins for ever.
4. `watchdog_chain_breaks` (`ConnectionWatchdog:101`): a connect that fails before its listener is
   added, or a channel that cannot be opened, ends reconnection for good.
5. `watchdog_limit` (`ConnectionWatchdog:63`, `:67`): "a certain number of times", with a "maximum number of
   reconnects", is a limit of the counter only: retries go on for ever. And "the interval becomes longer and longer"
   is no longer true of them, because the counter stands still. `LimitedOrLonger` is what either comment says of the
   retry after the limit, and the run ends with the 51st, after the same delay. (Before that, the shift of an `int` makes the delay of the
   31st failure negative and of the 32nd 1 ms.)
6. `documented_dates`: `SomeDateIsAsDocumented` is what any one of four comments says, and 31 May, on which the run
   ends, contradicts them all:
   * `DateUtil:341`: on 31 May, 31 July and 31 August `getQuarterEndTime` is the end of the month after the quarter;
   * `DateUtil:454`: hours are counted up to 60, so that nothing is described as "1 day ago", an example of the comment;
   * `app.js:272`: in December and on 31 May `getFirstDayOfSeason` finds the first of the present month;
   * `app.js:333`: on a day that the next month lacks, `getEndDate` is the end of that next month.

For 5 the passing run says what holds below the limit (`Reconnects`, `DelayGrows`), for 6 what holds
on the other days and distances (`PeriodsTile`, `OffsetIsDescribed`, `SeasonStartsAtItsQuarter`, `MonthHasItsEnds`).

The following are exceptions that a property names, so that it is the *rest* that the run shows, or
are plain from the code.

*RPC.* Between lines 83 and 84
`removeServerChannel` can take out the mapping another, live channel has just put, until the next heartbeat
repairs it (`LotReachable`). `RpcClient.sendMessage` keeps using the first channel after a reconnect. `group`,
whose comment says it stores all clients that connect, only gets those whose id is free at a heartbeat. The
assertion on the channel id is off in production. A call whose connection is lost while it waits, or whose request or
response a codec throws on, never ends (there is no timeout; `AnsweredCallEnds`); an interrupted call leaves its entry in the map. A hole in the closer's deque stops
the whole server from sending and receiving.

*Dates.* `getResetTime` exchanges minute and second. In the browser every helper changes the `Date` it is given:
`getEndDate` after `getfirstDate` on the same one is the end of the month after.

*Pages.* A search that finds fewer pages than the one it is typed on shows an empty table, because `refresh`
keeps the page number (`integral.js:96`; `BarTellsPage`). Picking one of the two dates asks nothing until something
else does. The columns of the page's own order are always sorted descending, whichever way their arrow points
(`ArrowTellsOrder`). A request that fails is not repeated. Typing into one telephone box within 700 ms of
another forgets the other's lookup (`LastTypedIsAnswered` is about the box typed into last); a lookup that is
superseded shows the message of a failure (`app.js:221` compares a function). Two menus can be open at once, and
the end of one's closing takes the keys from the other (`app.js:42`). An answer replaces the entry that has the focus,
and the arrows are dead until the menu is opened again. The name filled in by a suggestion stays when
another number is typed. The name's validator returns the request and not what its `then` makes of
it, so that every answer says "invalid"; `submit()` returns true all the same (`user-list.js:103`). What an
edit left in the form (id, nice name, password, a name nobody asked about) is there when a user is added
next (`AddedNameWasAsked`). A click on an edit button while the popup closes closes it again.

*Scroller.* A key that means nothing, pressed during a transition, freezes the content where it is, out of
bounds if it was bouncing (`OnlyTheseStrandIt`); any key during a transition suppresses `scrollEnd` and is added to where
the transition was going (`EveryEndIsTold`). The frame of an animation that a finger has stopped moves the content
once more. A flick, a page or a wheel that sends the scroller to where it is shown already leaves
`isInTransition` true, until something else ends it (`SentToShown`). A finger lifted in the tick of the clock in which its drag began divides by
zero: the position is NaN or infinite from then on (`NumbersComeFromNumbers`); so does the scrollbar when its
indicator fills it. After NaN an animation never ends, and on pages in two directions the row that is current is the one after the last, which
does not exist, for as long as a finger stays near (`LostRow`). A bounce past the last page leaves `currentPage` behind; a tap
that stops a page being turned leaves it between two pages (`PageIsShown`), and a scrollbar dragged exactly to
another page does not make it current. A refresh during a movement, a drag given up to the browser and `destroy()` lose
`scrollEnd`, the latter two also what would bring the content back; `scrollTo`, `scrollBy` and `scrollToElement` without a
time stop a transition without telling (`CallStops`). A finger that the browser cancels, or under which `disable()` is called, is never
lifted for the scroller (`iscroll.js:583`): the content stays where it was dragged, `scrollEnd` is not told, a bar stays lit, and the next
finger on the window drags it on (`Loses`, `LosesBar`). `scrollTo` and `scrollBy` go out of bounds, where nothing brings the content back
(`SentOutside`), and on pages they and `scrollToElement` rest anywhere (`PageIsShown`). A scrollbar that is dragged while the other axis is out of bounds ends the movement that would bring
it back (`BarCrosses`), and a throw to just where a transition that nobody stopped shows the content is none
(`ThrownToShown`). Pressing a fading scrollbar without
moving it leaves it lit (`BarFades`). `destroy()` clears the fade timer only under an option nobody sets
(`fade` for `fadeScrollbars`, line 1789). `disable()` does not stop the scrollbar. What
`OnlyTheseStrandIt`, `EveryEndIsTold`, `BarFades` and `PageIsShown` show is that there is nothing else.

## 6. Not modelled

* The server's start (`RpcServer`): one blocking call without shared state, whose one hazard (after a failed
  bind the groups are shut down, after a close they are not) is a line of code. The service lookup: a map that is
  filled once and read; `RpcSystem` treats its outcome as a choice. The timing of heartbeats: 4 s against 5 s is a
  question of real time; `ChannelRegistry` has the events in every order.
* Parsing and formatting of dates on the server, `getWeekdayDesc`, `getNowDate`; summer time.
* COMMON messages, which are only printed; `getServerChannel` and `ClientNettyMapping`, which nothing
  calls; `RpcServer.sendMessage`, a test method that writes to a server socket.
* Growth of the two `HashMap`s while they are used; contents of messages; logging.
* Of the pages: the sum of points, the message in the query string, the points kept in `localStorage`, the
  pattern of telephone numbers, full screen, navigation, and the button that voids a record, which is shown on every
  row, voided or not (`integral_history.js:92`): each is one handler that reads and writes one element. The server of the
  pages (`/m/...`) is not in the repository and is modelled by its answers.
* Of the scroller: what is drawn (indicators that shrink, style sheets), the taps and clicks it makes for the
  browser, indicators made by the caller, infinite scrolling. The pointers of a behaviour are of one kind: that a finger and a mouse
  work on the same instance, of which `eventType` lets only the kind that began be heard, is left out. The page makes no call
  after `destroy()`, and its calls go out of bounds by at most `Overshoot`. No page includes `iscroll.js` yet.
* Vendored libraries, but for the handlers of bootstrap-table and of Amaze UI's modal and dropdown that the
  pages run through.

Known weak spots that no property covers, because what they need is outside the models: the first channel that
`RpcClient` keeps (`RpcClient:104`); the double-checked locking on a field that is not volatile
(`KryoPoolFactory:33`), over before the codec's model starts; the negative length after which the decoder goes on
(`MessageDecoder:32`), which no encoder of this code sends; the exchanged minute and second of `getResetTime`
(`DateUtil:157`), which every caller passes equal; the shared `SimpleDateFormat` (`DateUtil:480`).

## 7. Plan

1. Done: the modules of section 2, their runs and proofs.
2. `KeepAlive`: a discrete-time model of the two idle handlers, the registry and the watchdog around
   one connection (4 s against 5 s, delays up to a second): which delays keep a live client
   connected, and how long a lot is unreachable after a loss.
3. `ServerLifecycle`: `startServer`, bind, close, the two groups and the first channels' race for the
   Kryo pool; one HTTP thread blocked per running server.
4. `ServiceCenter`: names, registration and lookup, composed with `RpcSystem` in place of its free choice.
5. Proofs: `EveryEndIsTold`, `BarFades` and `PageIsShown` of `IScroll` for all options, with the exceptions that
   takes; the refinement of the composed client and server.
