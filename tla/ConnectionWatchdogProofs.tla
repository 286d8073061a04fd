--------------------- MODULE ConnectionWatchdogProofs ---------------------
(***************************************************************************)
(* That reconnection is a single chain, for every set of channel objects   *)
(* and every MAX_ATTEMPTS: its only token is a pending timeout, a          *)
(* connection that is up or being made, or a failed connect whose listener *)
(* run() has yet to add, and no step copies it.                            *)
(***************************************************************************)
EXTENDS ConnectionWatchdog, TLAPS

(* The types of the variables, but for the range of `delay`.                *)
ChainTypeOK ==
  /\ conn \in [Conns -> ConnState]
  /\ attempts \in 0 .. MAX_ATTEMPTS
  /\ pending \in Nat

HoldsToken(c) == Busy(c) \/ (conn[c] = "refused" /\ runner = c)

TokenIsUnique ==
  /\ pending <= 1
  /\ \A c \in Conns : HoldsToken(c) => pending = 0
  /\ \A c, d \in Conns : HoldsToken(c) /\ HoldsToken(d) => c = d

ChainInv == ChainTypeOK /\ TokenIsUnique /\ UpMeansReset

LEMMA ChainInit == Init => ChainInv
BY ConnectionWatchdogAssumption
DEF Init, ChainInv, ChainTypeOK, ConnState, TokenIsUnique, HoldsToken, Busy,
    UpMeansReset

(* The count of failed attempts stays within its limit.                     *)
LEMMA NextAttemptRange ==
  ASSUME attempts \in 0 .. MAX_ATTEMPTS
  PROVE  NextAttempt \in 0 .. MAX_ATTEMPTS
BY ConnectionWatchdogAssumption DEF NextAttempt

(* A step of a connection hands the token on.  In the cases that schedule a *)
(* retry the connection held it, so no other is up and none is pending.    *)
LEMMA ConnStepInv ==
  ASSUME ChainInv, NEW c \in Conns, ConnStep(c)
  PROVE  ChainInv'
<1> USE ConnectionWatchdogAssumption
    DEF ChainInv, ChainTypeOK, ConnState, TokenIsUnique, HoldsToken, Busy,
        UpMeansReset, Becomes, Quiet
<1>1. CASE Connected(c)
  BY <1>1 DEF Connected, ResetAttempts
<1>2. CASE RefusedHeard(c)
  BY <1>2, NextAttemptRange DEF RefusedHeard, ChannelInactive
<1>3. CASE RefusedUnheard(c)
  BY <1>3 DEF RefusedUnheard
<1>4. CASE Deregister(c)
  BY <1>4 DEF Deregister
<1>5. CASE Lost(c)
  BY <1>5, NextAttemptRange DEF Lost, ChannelInactive
<1>6. CASE Run(c)
  BY <1>6 DEF Run
<1>7. CASE AddListener(c)
  BY <1>7, NextAttemptRange DEF AddListener, FireIfFailed, ChannelInactive
<1> QED
  BY <1>1, <1>2, <1>3, <1>4, <1>5, <1>6, <1>7 DEF ConnStep

THEOREM ChainInvariant == Spec => []ChainInv
<1>1. ChainInv /\ [Next]_vars => ChainInv'
  <2> SUFFICES ASSUME ChainInv, [Next]_vars PROVE ChainInv'
    OBVIOUS
  <2>1. CASE SyncReturns \/ SyncThrows \/ ServerChanges \/ UNCHANGED vars
    BY <2>1 DEF SyncReturns, SyncThrows, ServerChanges, vars, ChainInv,
       ChainTypeOK, TokenIsUnique, HoldsToken, Busy, UpMeansReset
  <2> QED
    BY <2>1, ConnStepInv DEF Next
<1> QED
  BY <1>1, ChainInit, PTL DEF Spec

(* The client never has two connections, nor a retry pending beside one:    *)
(* channelInactive is not answered twice by the watchdog and run()'s       *)
(* listener.                                                               *)
THEOREM ChainIsSingle == Spec => []SingleChain
<1>1. ChainInv => SingleChain
  BY DEF ChainInv, TokenIsUnique, HoldsToken, SingleChain
<1> QED
  BY <1>1, ChainInvariant, PTL

(* While a connection is up no failure has been counted since.              *)
THEOREM UpIsReset == Spec => []UpMeansReset
BY ChainInvariant, PTL DEF ChainInv

-----------------------------------------------------------------------------
(* Powers of two as far as an int has them.                                 *)
LEMMA PowersOfTwo ==
  /\ 2^0 = 1 /\ 2^1 = 2 /\ 2^2 = 4 /\ 2^3 = 8
  /\ 2^4 = 16 /\ 2^5 = 32 /\ 2^6 = 64 /\ 2^7 = 128
  /\ 2^8 = 256 /\ 2^9 = 512 /\ 2^10 = 1024 /\ 2^11 = 2048
  /\ 2^12 = 4096 /\ 2^13 = 8192 /\ 2^14 = 16384 /\ 2^15 = 32768
  /\ 2^16 = 65536 /\ 2^17 = 131072 /\ 2^18 = 262144 /\ 2^19 = 524288
  /\ 2^20 = 1048576 /\ 2^21 = 2097152 /\ 2^22 = 4194304 /\ 2^23 = 8388608
  /\ 2^24 = 16777216 /\ 2^25 = 33554432 /\ 2^26 = 67108864 /\ 2^27 = 134217728
  /\ 2^28 = 268435456 /\ 2^29 = 536870912 /\ 2^30 = 1073741824
OBVIOUS

LEMMA ShiftGrows ==
  ASSUME NEW n \in Nat, (n + 1) % 32 # 31
  PROVE  ShiftOne(n + 1) > ShiftOne(n)
<1> DEFINE s == n % 32
           t == (n + 1) % 32
<1>1. /\ s \in 0 .. 31 /\ t \in 0 .. 31 /\ t # 31
      /\ t = IF s = 31 THEN 0 ELSE s + 1
  OBVIOUS
<1>2. /\ ShiftOne(n) = IF s = 31 THEN -(2^30) - (2^30) ELSE 2^s
      /\ ShiftOne(n + 1) = IF t = 31 THEN -(2^30) - (2^30) ELSE 2^t
  BY DEF ShiftOne
<1> HIDE DEF s, t
<1>3. CASE s = 31
  BY <1>1, <1>2, <1>3, PowersOfTwo
<1>4. CASE s \in 0 .. 29
  <2>1. ShiftOne(n) = 2^s /\ ShiftOne(n + 1) = 2^(s + 1)
    BY <1>1, <1>2, <1>4
  <2> DEFINE Power == [k \in 0 .. 30 |-> 2^k]
  <2>2. /\ Power[0] = 1 /\ Power[1] = 2 /\ Power[2] = 4 /\ Power[3] = 8
        /\ Power[4] = 16 /\ Power[5] = 32 /\ Power[6] = 64 /\ Power[7] = 128
        /\ Power[8] = 256 /\ Power[9] = 512 /\ Power[10] = 1024 /\ Power[11] = 2048
        /\ Power[12] = 4096 /\ Power[13] = 8192 /\ Power[14] = 16384 /\ Power[15] = 32768
        /\ Power[16] = 65536 /\ Power[17] = 131072 /\ Power[18] = 262144 /\ Power[19] = 524288
        /\ Power[20] = 1048576 /\ Power[21] = 2097152 /\ Power[22] = 4194304 /\ Power[23] = 8388608
        /\ Power[24] = 16777216 /\ Power[25] = 33554432 /\ Power[26] = 67108864 /\ Power[27] = 134217728
        /\ Power[28] = 268435456 /\ Power[29] = 536870912 /\ Power[30] = 1073741824
    BY PowersOfTwo
  <2>3. Power[s] = 2^s /\ Power[s + 1] = 2^(s + 1)
    BY <1>4
  <2> HIDE DEF Power
  <2>4. Power[s + 1] > Power[s]
    <3>1. CASE s \in {0, 1, 2, 3, 4, 5, 6, 7, 8, 9}
      BY <2>2, <3>1
    <3>2. CASE s \in {10, 11, 12, 13, 14, 15, 16, 17, 18, 19}
      BY <2>2, <3>2
    <3>3. CASE s \in {20, 21, 22, 23, 24, 25, 26, 27, 28, 29}
      BY <2>2, <3>3
    <3> QED
      BY <1>4, <3>1, <3>2, <3>3
  <2> QED
    BY <2>1, <2>3, <2>4
<1> QED
  BY <1>1, <1>3, <1>4

(* The delay is the shift of the failures counted since the last success.   *)
DelayInv ==
  /\ attempts \in 0 .. MAX_ATTEMPTS
  /\ attempts > 0 => delay = ShiftOne(attempts)
  /\ pending \in Nat

(* What a step does to the count: nothing, a reset, or another failure,      *)
(* with which alone a timeout is scheduled.                                *)
StepOfCount ==
  \/ UNCHANGED <<attempts, delay>> /\ pending' \in {pending, pending - 1}
  \/ attempts' = 0 /\ pending' = pending
  \/ attempts' = NextAttempt /\ delay' = ShiftOne(NextAttempt) /\ pending' = pending + 1

LEMMA AttemptsStep ==
  ASSUME [Next]_vars
  PROVE  StepOfCount
<1>1. ASSUME NEW c \in Conns, ConnStep(c)
      PROVE  StepOfCount
  BY <1>1 DEF StepOfCount, ConnStep, Connected, RefusedHeard, RefusedUnheard, Deregister,
     Lost, Run, AddListener, FireIfFailed, ChannelInactive, ResetAttempts, Quiet
<1>2. CASE SyncReturns \/ SyncThrows \/ ServerChanges \/ UNCHANGED vars
  BY <1>2 DEF StepOfCount, SyncReturns, SyncThrows, ServerChanges, vars
<1> QED
  BY <1>1, <1>2 DEF Next

LEMMA DelayInvariant == Spec => []DelayInv
<1>1. Init => DelayInv
  BY ConnectionWatchdogAssumption DEF Init, DelayInv
<1>2. DelayInv /\ ChainInv /\ ChainInv' /\ [Next]_vars => DelayInv'
  BY AttemptsStep, NextAttemptRange, ConnectionWatchdogAssumption
  DEF DelayInv, StepOfCount, NextAttempt, ChainInv, ChainTypeOK
<1> QED
  BY <1>1, <1>2, ChainInvariant, PTL DEF Spec

(* Below the limit of attempts, whatever it is, the interval between        *)
(* reconnects grows with every failure, but for the 31st and the 32nd of    *)
(* 32, where the shift of an int overflows and begins anew.                 *)
THEOREM DelaysGrow == Spec => DelayGrows
<1>1. DelayInv /\ [Next]_vars
        => [0 < attempts /\ attempts < MAX_ATTEMPTS /\ pending' > pending /\ attempts' % 32 \notin {31, 0}
              => delay' > delay]_vars
  <2> SUFFICES ASSUME DelayInv, Next,
                      0 < attempts, attempts < MAX_ATTEMPTS, pending' > pending,
                      attempts' % 32 \notin {31, 0}
               PROVE  delay' > delay
    OBVIOUS
  <2>1. attempts \in Nat /\ delay = ShiftOne(attempts) /\ pending \in Nat
    BY ConnectionWatchdogAssumption DEF DelayInv
  <2>2. attempts' = attempts + 1 /\ delay' = ShiftOne(attempts + 1)
    BY AttemptsStep, <2>1, ConnectionWatchdogAssumption DEF StepOfCount, NextAttempt
  <2> QED
    BY <2>1, <2>2, ShiftGrows
<1> QED
  BY <1>1, DelayInvariant, PTL DEF Spec, DelayGrows
=============================================================================
