------------------------ MODULE ConnectionWatchdog ------------------------
(***************************************************************************)
(* The client's reconnection: netty.heart.ConnectionWatchdog, a sharable   *)
(* handler that sits in the pipeline of every connection and is also the   *)
(* task of a HashedWheelTimer, with RpcClient.connect, which makes the     *)
(* first connection, and RpcClient.sendMessage.                            *)
(*                                                                         *)
(* Three kinds of threads act: the event loops (a connection succeeds,     *)
(* fails, is lost), the timer thread (run), and the thread in connect.     *)
(* Time is left out: a timeout fires some time after it is scheduled.      *)
(***************************************************************************)
EXTENDS Integers

CONSTANTS
  Conns,         \* channel objects; all but First are used over and over
  First,         \* the channel that RpcClient.connect opens
  MAX_ATTEMPTS,
  NULL

ASSUME ConnectionWatchdogAssumption ==
  /\ First \in Conns
  /\ NULL \notin Conns
  /\ MAX_ATTEMPTS \in Nat \ {0}

(* "free"; "connecting"; "up"; "lost": was up, channelInactive has run;     *)
(* "refused": the connect failed and the pipeline still holds the watchdog;*)
(* "destroyed": the connect failed and the pipeline is empty.              *)
ConnState == {"free", "connecting", "up", "lost", "refused", "destroyed"}

VARIABLES
  conn,           \* [Conns -> ConnState]
  attempts,       \* ConnectionWatchdog.attempts
  delay,          \* the last delay given to timer.newTimeout, in ms
  pending,        \* how many timeouts of the watchdog are pending
  runner,         \* the connection run() has begun and not yet listens to
  listening,      \* the connecting channels whose future has run()'s listener
  socketChannel,  \* RpcClient.socketChannel
  main,           \* RpcClient.connect: "syncing", "returned" or "threw"
  reachable       \* environment: the server accepts connections

vars == <<conn, attempts, delay, pending, runner, listening, socketChannel,
          main, reachable>>

(* RpcClient.connect has built the watchdog and called boot.connect.        *)
Init ==
  /\ conn = [c \in Conns |-> IF c = First THEN "connecting" ELSE "free"]
  /\ attempts = 0
  /\ delay = 0
  /\ pending = 0
  /\ runner = NULL
  /\ listening = {}
  /\ socketChannel = NULL
  /\ main = "syncing"
  /\ reachable \in BOOLEAN

Becomes(c, from, to) == conn[c] = from /\ conn' = [conn EXCEPT ![c] = to]

-----------------------------------------------------------------------------
(* The watchdog's callbacks.                                               *)

(* Faulty variant: the reset is forgotten.                                  *)
KeepAttempts == UNCHANGED attempts

(* channelActive *)
ResetAttempts == attempts' = 0

NextAttempt == IF attempts < MAX_ATTEMPTS THEN attempts + 1 ELSE attempts

(* Faulty variant: the interval has an upper limit.                         *)
ShiftOneUpTo(n) == IF n < 10 THEN 2^n ELSE 2^10

(* Java's 1 << n on int: only the low five bits of n count.                 *)
ShiftOne(n) ==
  LET s == n % 32 IN IF s = 31 THEN -(2^30) - (2^30) ELSE 2^s

(* channelInactive: schedules the next run, however many have failed.       *)
ChannelInactive ==
  /\ attempts' = NextAttempt
  /\ delay' = ShiftOne(NextAttempt)
  /\ pending' = pending + 1

Quiet == UNCHANGED <<attempts, delay, pending>>

-----------------------------------------------------------------------------
(* Event loops.                                                            *)

(* The connect succeeds: run()'s listener only prints, channelActive.       *)
Connected(c) ==
  /\ reachable
  /\ Becomes(c, "connecting", "up")
  /\ ResetAttempts
  /\ listening' = listening \ {c}
  /\ UNCHANGED <<delay, pending, runner, socketChannel, main, reachable>>

(* The connect fails with run()'s listener in place: it fires              *)
(* channelInactive on the pipeline, which Netty destroys in a later task.  *)
RefusedHeard(c) ==
  /\ ~reachable
  /\ c \in listening
  /\ Becomes(c, "connecting", "destroyed")
  /\ ChannelInactive
  /\ listening' = listening \ {c}
  /\ UNCHANGED <<runner, socketChannel, main, reachable>>

(* The connect fails and nobody listens: the first connect, or run() has   *)
(* not reached addListener.                                                *)
RefusedUnheard(c) ==
  /\ ~reachable
  /\ c \notin listening
  /\ Becomes(c, "connecting", "refused")
  /\ Quiet
  /\ UNCHANGED <<runner, listening, socketChannel, main, reachable>>

(* The later task: the channel is deregistered and its pipeline destroyed.  *)
Deregister(c) ==
  /\ Becomes(c, "refused", "destroyed")
  /\ Quiet
  /\ UNCHANGED <<runner, listening, socketChannel, main, reachable>>

(* The server closes the connection, or an I/O error does.                  *)
Lost(c) ==
  /\ Becomes(c, "up", "lost")
  /\ ChannelInactive
  /\ UNCHANGED <<runner, listening, socketChannel, main, reachable>>

-----------------------------------------------------------------------------
(* The timer thread: ConnectionWatchdog.run.                               *)

(* Synchronized on the bootstrap: a new channel, and its asynchronous       *)
(* connect.  When the channel cannot be opened or registered, connect      *)
(* returns a failed future whose pipeline never held the watchdog.         *)
Run(c) ==
  /\ pending > 0
  /\ runner = NULL
  /\ c # First
  /\ \E outcome \in {"connecting", "destroyed"} :
       \E old \in {"free", "lost", "destroyed"} : Becomes(c, old, outcome)
  /\ pending' = pending - 1
  /\ runner' = c
  /\ UNCHANGED <<attempts, delay, listening, socketChannel, main, reachable>>

(* Faulty variant: the listener does not look at isSuccess.                 *)
FireUnlessDestroyed(c) ==
  IF conn[c] \in {"refused", "up"} THEN ChannelInactive ELSE Quiet

(* Faulty variant: a listener added to a connect that is over stays silent. *)
FireNever(c) == Quiet

(* The listener of a connect that is over already when it is added.         *)
FireIfFailed(c) == IF conn[c] = "refused" THEN ChannelInactive ELSE Quiet

(* future.addListener: a later notification when the connect is not over,  *)
(* else the listener runs at once, on whatever is left of the pipeline.    *)
AddListener(c) ==
  /\ runner = c
  /\ runner' = NULL
  /\ IF conn[c] = "connecting"
     THEN listening' = listening \union {c} /\ UNCHANGED conn /\ Quiet
     ELSE /\ FireIfFailed(c)
          /\ conn' = [conn EXCEPT ![c] = IF @ = "refused" THEN "destroyed" ELSE @]
          /\ UNCHANGED listening
  /\ UNCHANGED <<socketChannel, main, reachable>>

-----------------------------------------------------------------------------
(* RpcClient.connect: future.sync() returns or throws.                      *)
SyncReturns ==
  /\ main = "syncing"
  /\ conn[First] \in {"up", "lost"}
  /\ main' = "returned"
  /\ socketChannel' = First
  /\ UNCHANGED <<conn, attempts, delay, pending, runner, listening, reachable>>

SyncThrows ==
  /\ main = "syncing"
  /\ conn[First] \in {"refused", "destroyed"}
  /\ main' = "threw"
  /\ UNCHANGED <<conn, attempts, delay, pending, runner, listening, socketChannel, reachable>>

(* The server starts or stops listening, the network comes or goes.         *)
ServerChanges ==
  /\ reachable' = ~reachable
  /\ UNCHANGED <<conn, attempts, delay, pending, runner, listening, socketChannel, main>>

ConnStep(c) ==
  \/ Connected(c)
  \/ RefusedHeard(c)
  \/ RefusedUnheard(c)
  \/ Deregister(c)
  \/ Lost(c)
  \/ Run(c)
  \/ AddListener(c)

Next ==
  \/ \E c \in Conns : ConnStep(c)
  \/ SyncReturns
  \/ SyncThrows
  \/ ServerChanges

(* Threads go on, timeouts fire, and a connect ends one way or the other.  *)
(* The server need not come back and connections need not be lost.         *)
Fairness ==
  /\ WF_vars(\E c \in Conns : Run(c))
  /\ WF_vars(SyncReturns \/ SyncThrows)
  /\ \A c \in Conns :
       /\ WF_vars(AddListener(c))
       /\ WF_vars(Deregister(c))
       /\ WF_vars(Connected(c) \/ RefusedHeard(c) \/ RefusedUnheard(c))

Spec == Init /\ [][Next]_vars /\ Fairness

-----------------------------------------------------------------------------
(* Properties.                                                             *)

Busy(c) == conn[c] \in {"connecting", "up"}

(* One chain of reconnection: at most one connection is up or being made,   *)
(* and while there is one no timeout is pending, so the client never ends  *)
(* up with two connections or two chains of retries.                       *)
SingleChain ==
  /\ pending <= 1
  /\ \A c \in Conns : Busy(c) => pending = 0
  /\ \A c, d \in Conns : Busy(c) /\ Busy(d) => c = d

(* A failure count never survives a success: a connection that is up was   *)
(* the last thing to happen to `attempts`.                                 *)
UpMeansReset == \A c \in Conns : conn[c] = "up" => attempts = 0

(* A connect failed before run() came to add its listener, or never had     *)
(* the watchdog in its pipeline.                                           *)
ListenerTooLate == \E c \in Conns : runner = c /\ conn[c] = "destroyed"

(* Liveness: if no listener is ever added too late, then a client that has   *)
(* lost its first connection, and has not yet counted as many failures as   *)
(* it is to make attempts, is connected again if the server is reachable    *)
(* from then on.  (That it goes on trying after so many failures is what    *)
(* LimitedOrLonger is about.)                                              *)
Reconnects ==
  []~ListenerTooLate =>
    [](conn[First] = "lost" /\ attempts < MAX_ATTEMPTS /\ []reachable
         => <>(\E c \in Conns : conn[c] = "up"))

(* "Reconnects a certain number of times", with a "maximum number of       *)
(* reconnects"; and "the interval between reconnects becomes longer and    *)
(* longer".  By either comment: when so many failures have been counted,   *)
(* and the retry that is then pending fails as well, there is either no     *)
(* other retry or one after a longer interval.                             *)
LimitedOrLonger ==
  [][attempts = MAX_ATTEMPTS /\ pending' > pending => delay' > delay]_vars

(* "If the reconnect fails, call channelInactive, which triggers the       *)
(* reconnect again": a client that was connected once is connected, or      *)
(* connecting, or has a retry pending.                                     *)
ChainNeverBreaks ==
  conn[First] = "lost" =>
    \/ pending > 0
    \/ runner # NULL
    \/ \E c \in Conns : Busy(c)

(* Where the shift neither overflows (the 31st failure of 32, whose delay   *)
(* is negative) nor begins anew (the 32nd, whose delay is 1 ms), and the    *)
(* count of failures has not reached its limit (from which the delay stays  *)
(* the same), each timeout that is scheduled after an earlier failure is    *)
(* longer than the one before.  (The comment promises it of every failure:  *)
(* LimitedOrLonger.)                                                       *)
DelayGrows ==
  [][0 < attempts /\ attempts < MAX_ATTEMPTS /\ pending' > pending /\ attempts' % 32 \notin {31, 0}
       => delay' > delay]_vars
=============================================================================
