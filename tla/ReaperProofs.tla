----------------------------- MODULE ReaperProofs -----------------------------
(***************************************************************************)
(* How late the reaper can be, for every heartbeat and every timeout.  The *)
(* sleep it is in was bounded when it began, by the heartbeat or by a row   *)
(* that was there; a row written since then expires one timeout after its  *)
(* writer read the clock, which is MaxDelay before the writing at most; so *)
(* the timer is never armed for more than the difference after any row's   *)
(* expiry.                                                                 *)
(***************************************************************************)
EXTENDS Reaper, TLAPS

Oversleep == LongestSleep + MaxDelay - ShortestTimeout

\* How late the reaper can be when poll returns.
LateAtWakeUp == IF Oversleep > MaxBusy THEN Oversleep ELSE MaxBusy

\* Without a failure nothing is left open, and the reaper sees every row.
NothingOpen == ~open /\ gone = {}

\* The clock readings are in order.
ClocksOrdered ==
    /\ t <= now /\ awake <= now
    /\ step = "query" => awake <= t

\* Every expiry was written one timeout ahead of the clock at most.
ExpiriesNear == \A s \in Scopes : Expiring(s) => exp[s] <= now + LongestTimeout

\* Asleep: the timer is near, and not far behind any row.
TimerNear ==
    step = "poll" => /\ timer <= now + LongestSleep
                     /\ \A s \in Scopes : Expiring(s) => /\ timer <= exp[s] + Oversleep
                                                         /\ now <= exp[s] + LateAtWakeUp

\* Awake: not for long, and since a moment not far behind any row.
AwakeShort ==
    step # "poll" /\ ~Stopped =>
        /\ now <= awake + MaxBusy
        /\ \A s \in Scopes : Expiring(s) => awake <= exp[s] + LateAtWakeUp

LatenessInv == TypeOK /\ NothingOpen /\ ClocksOrdered /\ ExpiriesNear /\ TimerNear /\ AwakeShort

\* The bounds are numbers, and a sleep is as long as any timeout.
LEMMA Bounds ==
    /\ LongestSleep \in Nat /\ Heartbeat <= LongestSleep /\ LongestTimeout <= LongestSleep
    /\ Oversleep \in Nat /\ LongestSleep + MaxDelay = Oversleep + ShortestTimeout
    /\ LateAtWakeUp \in Nat /\ Oversleep <= LateAtWakeUp /\ MaxBusy <= LateAtWakeUp
    /\ Lateness = LateAtWakeUp + MaxBusy
<1>1. LongestSleep \in Nat /\ Heartbeat <= LongestSleep /\ LongestTimeout <= LongestSleep
  BY BoundAssumption, TimeoutAssumption DEF LongestSleep
<1>2. Oversleep \in Nat /\ LongestSleep + MaxDelay = Oversleep + ShortestTimeout
  BY <1>1, TimeoutAssumption, BoundAssumption DEF Oversleep, LongestSleep
<1>3. LateAtWakeUp \in Nat /\ Oversleep <= LateAtWakeUp /\ MaxBusy <= LateAtWakeUp
  BY <1>2, BoundAssumption DEF LateAtWakeUp
<1>4. Lateness = LateAtWakeUp + MaxBusy
  BY DEF Lateness, LateAtWakeUp, Oversleep
<1> QED BY <1>1, <1>2, <1>3, <1>4

LEMMA LatenessInit == Init => LatenessInv
<1> SUFFICES ASSUME Init
             PROVE  LatenessInv
  OBVIOUS
<1>1. TypeOK
  BY DEF Init, TypeOK
<1>2. \A s \in Scopes : ~Expiring(s)
  BY DEF Init, Expiring
<1>3. step = "loop" /\ t = 0 /\ awake = 1 /\ now = 1
  BY DEF Init
<1>4. now <= awake + MaxBusy
  BY <1>3, BoundAssumption
<1> QED BY <1>1, <1>2, <1>3, <1>4
      DEF LatenessInv, ClocksOrdered, ExpiriesNear, TimerNear, AwakeShort, NothingOpen, Init

\* A step of the reaper writes no row.
LEMMA LatenessLoop ==
    ASSUME LatenessInv, ~failed',
           \/ ReadClock \/ SleepHeartbeat \/ SleepOrReap \/ Poll
           \/ Claim \/ ClaimFails \/ CommitFails \/ Callbacks \/ Crash \/ Restart
    PROVE  LatenessInv'
<1> USE Bounds, BoundAssumption, TimeoutAssumption
    DEF LatenessInv, TypeOK, NothingOpen, ClocksOrdered, ExpiriesNear, TimerNear, AwakeShort
<1>1. CASE ReadClock
  BY <1>1 DEF ReadClock, Expiring, Stopped
<1>2. CASE SleepHeartbeat
  <2>1. \A s \in Scopes : ~Expiring(s) /\ ~Expiring(s)'
    BY <1>2 DEF SleepHeartbeat, Expiring, Sees
  <2>2. timer' = t + Heartbeat /\ timer' <= now + LongestSleep
    BY <1>2 DEF SleepHeartbeat
  <2> QED BY <1>2, <2>1, <2>2 DEF SleepHeartbeat
<1>3. CASE SleepOrReap
  <2>1. PICK r \in Scopes :
           /\ Sees(r) /\ Expiring(r) /\ Earliest(exp[r])
           /\ IF exp[r] <= t
              THEN step' = "reap" /\ UNCHANGED timer
              ELSE step' = "poll" /\ timer' = exp[r]
    BY <1>3 DEF SleepOrReap, Sees
  <2>2. /\ step = "query" /\ ~Stopped /\ ~Stopped'
        /\ UNCHANGED <<exp, open, gone, now, t, awake, term, crashes, failed>>
    BY <1>3, <2>1 DEF SleepOrReap, Stopped
  <2>3. exp[r] \in Nat /\ \A s \in Scopes : Expiring(s) => exp[s] \in Nat
    BY <2>1 DEF Expiring
  <2>4. CASE exp[r] <= t
    BY <2>1, <2>2, <2>4 DEF Expiring
  <2>5. CASE ~(exp[r] <= t)
    <3>1. timer' = exp[r] /\ step' = "poll" /\ t < exp[r]
      BY <2>1, <2>3, <2>5
    <3>2. timer' \in Nat /\ timer' <= now + LongestSleep
      BY <2>1, <2>3, <3>1
    <3>3. ASSUME NEW s \in Scopes, Expiring(s)
          PROVE  timer' <= exp[s] + Oversleep /\ now <= exp[s] + LateAtWakeUp
      <4>1. exp[r] <= exp[s] /\ exp[s] \in Nat
        BY <2>1, <2>3, <3>3 DEF Earliest, Sees
      <4>2. now <= awake + MaxBusy /\ awake <= t
        BY <2>2
      <4> QED BY <2>3, <3>1, <4>1, <4>2
    <3> QED BY <2>2, <3>1, <3>2, <3>3 DEF Expiring
  <2> QED BY <2>4, <2>5
<1>4. CASE Poll
  <2>1. /\ step = "poll" /\ step' \in {"drain", "reap"}
        /\ awake' = now /\ t' = now /\ UNCHANGED <<exp, open, gone, now, timer, term, crashes, failed>>
    BY <1>4 DEF Poll
  <2> QED BY <2>1 DEF Expiring
<1>5. CASE Claim
  <2>1. /\ step # "poll" /\ ~Stopped /\ step' \in {"lastCallbacks", "callbacks"}
        /\ UNCHANGED <<open, gone, now, t, timer, awake, term, crashes, failed>>
    BY <1>5 DEF Claim, Stopped
  <2>2. exp' \in [Scopes -> Nat \cup {Absent}]
    BY <1>5 DEF Claim
  <2>3. \A s \in Scopes : Expiring(s)' => Expiring(s) /\ exp'[s] = exp[s]
    BY <1>5 DEF Claim, Expiring
  <2> QED BY <2>1, <2>2, <2>3
<1>6. CASE ClaimFails \/ CommitFails
  BY <1>6 DEF ClaimFails, CommitFails
<1>7. CASE Callbacks
  BY <1>7 DEF Callbacks, Expiring, Stopped
<1>8. CASE Crash
  <2>1. /\ step' = "down" /\ UNCHANGED <<exp, now, t, timer, term, failed>>
        /\ crashes' = crashes + 1 /\ step \notin {"exited", "down"}
        /\ awake' = (IF step = "poll" THEN now ELSE awake)
    BY <1>8 DEF Crash
  <2>2. open' \in BOOLEAN /\ gone' \subseteq Scopes /\ NothingOpen'
    BY <1>8 DEF Crash, RolledBack
  <2>3. CASE step = "poll"
    BY <2>1, <2>2, <2>3 DEF Expiring
  <2>4. CASE step # "poll"
    BY <2>1, <2>2, <2>4 DEF Expiring, Stopped
  <2> QED BY <2>3, <2>4
<1>9. CASE Restart
  BY <1>9 DEF Restart, Expiring, Stopped
<1> QED BY <1>1, <1>2, <1>3, <1>4, <1>5, <1>6, <1>7, <1>8, <1>9

\* What a worker writes expires far enough ahead, and the clock runs on only while
\* the reaper may sleep or be awake.
LEMMA LatenessEnvironment ==
    ASSUME LatenessInv,
           \/ \E s \in Scopes : WriteScope(s) \/ RemoveScope(s)
           \/ Terminate \/ Tick
    PROVE  LatenessInv'
<1> USE Bounds, BoundAssumption, TimeoutAssumption
    DEF LatenessInv, TypeOK, NothingOpen, ClocksOrdered, ExpiriesNear, TimerNear, AwakeShort
<1>1. ASSUME NEW r \in Scopes, WriteScope(r)
      PROVE  LatenessInv'
  <2>1. PICK reading \in 0 .. now :
           /\ now <= reading + MaxDelay
           /\ \E e \in {reading + d : d \in Timeouts} \cup {0} : exp' = [exp EXCEPT ![r] = e]
    BY <1>1 DEF WriteScope
  <2>2. UNCHANGED <<open, gone, now, step, t, timer, awake, term, crashes, failed>>
    BY <1>1 DEF WriteScope
  <2>3. PICK e \in {reading + d : d \in Timeouts} \cup {0} : exp' = [exp EXCEPT ![r] = e]
    BY <2>1
  <2>4. /\ e \in Nat
        /\ e = 0 \/ (now + ShortestTimeout <= e + MaxDelay /\ e <= now + LongestTimeout)
    <3>1. e = 0 \/ \E d \in Timeouts : e = reading + d
      BY <2>3
    <3>2. reading \in Nat /\ reading <= now /\ now <= reading + MaxDelay
      BY <2>1
    <3> QED BY <3>1, <3>2
  <2>5. \A s \in Scopes : Expiring(s)' =>
            \/ s = r /\ exp'[s] = e /\ e # 0
            \/ Expiring(s) /\ exp'[s] = exp[s]
    BY <2>3 DEF Expiring
  <2>6. exp' \in [Scopes -> Nat \cup {Absent}]
    BY <2>3, <2>4
  <2>7. ExpiriesNear'
    BY <2>2, <2>4, <2>5
  <2>8. TimerNear'
    BY <2>2, <2>4, <2>5
  <2>9. AwakeShort'
    BY <2>2, <2>4, <2>5 DEF Stopped
  <2> QED BY <2>2, <2>6, <2>7, <2>8, <2>9
<1>2. ASSUME NEW r \in Scopes, RemoveScope(r)
      PROVE  LatenessInv'
  <2>1. \A s \in Scopes : Expiring(s)' => Expiring(s) /\ exp'[s] = exp[s]
    BY <1>2 DEF RemoveScope, Expiring
  <2>2. exp' \in [Scopes -> Nat \cup {Absent}]
    BY <1>2 DEF RemoveScope
  <2> QED BY <1>2, <2>1, <2>2 DEF RemoveScope, Stopped
<1>3. CASE Terminate
  BY <1>3 DEF Terminate, Expiring, Stopped
<1>4. CASE Tick
  <2>1. now' = now + 1 /\ ~Stopped /\ UNCHANGED <<exp, open, gone, step, t, timer, awake, term, crashes, failed>>
    BY <1>4 DEF Tick
  <2>2. \A s \in Scopes : Expiring(s)' => Expiring(s) /\ exp'[s] = exp[s] /\ exp[s] \in Nat
    BY <2>1 DEF Expiring
  <2>3. CASE step = "poll"
    <3>1. now < timer
      BY <1>4, <2>3 DEF Tick
    <3> QED BY <2>1, <2>2, <2>3, <3>1
  <2>4. CASE step # "poll"
    <3>1. now < awake + MaxBusy
      BY <1>4, <2>4 DEF Tick
    <3> QED BY <2>1, <2>2, <2>4, <3>1 DEF Stopped
  <2> QED BY <2>3, <2>4
<1> QED BY <1>1, <1>2, <1>3, <1>4

\* As long as the reaper's own statements succeed, a row is claimed at most the
\* longest sleep less its timeout, the age of the clock reading it was written with,
\* and the time the process was awake, after its expiry: run_reaper_process is not woken by a row that expires earlier than the
\* one its timerfd is armed for, and this is what that costs.
THEOREM ClaimedInTime == Spec => []OversleepBounded
<1> DEFINE Inv == ~failed => LatenessInv
<1>1. Inv /\ [Next]_vars => Inv'
  <2> SUFFICES ASSUME Inv, [Next]_vars, ~failed'
               PROVE  LatenessInv'
    OBVIOUS
  <2>1. ~failed
    BY DEF vars, Next, ReadClock, SleepHeartbeat, SleepOrReap, Poll, Claim, ClaimFails,
           CommitFails, Callbacks, Crash, Restart, WriteScope, RemoveScope, Terminate, Tick
  <2>2. CASE UNCHANGED vars
    BY <2>1, <2>2 DEF vars, LatenessInv, TypeOK, NothingOpen, ClocksOrdered, ExpiriesNear,
                      TimerNear, AwakeShort, Expiring, Stopped
  <2> QED BY <2>1, <2>2, LatenessLoop, LatenessEnvironment DEF Next
<1>2. Inv => OversleepBounded
  <2> SUFFICES ASSUME LatenessInv, ~Stopped, NEW s \in Scopes, Expiring(s)
               PROVE  now <= exp[s] + Lateness
    BY DEF OversleepBounded
  <2>1. exp[s] \in Nat /\ now \in Nat /\ awake \in Nat
    BY DEF LatenessInv, TypeOK, Expiring
  <2>2. CASE step = "poll"
    <3>1. now <= exp[s] + LateAtWakeUp
      BY <2>2 DEF LatenessInv, TimerNear
    <3> QED BY <2>1, <3>1, Bounds, BoundAssumption
  <2>3. CASE step # "poll"
    <3>1. now <= awake + MaxBusy /\ awake <= exp[s] + LateAtWakeUp
      BY <2>3 DEF LatenessInv, AwakeShort
    <3> QED BY <2>1, <3>1, Bounds, BoundAssumption
  <2> QED BY <2>2, <2>3
<1>3. Init => Inv
  BY LatenessInit
<1> QED BY <1>1, <1>2, <1>3, PTL DEF Spec
===============================================================================
