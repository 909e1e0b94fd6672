-------------------------------- MODULE Reaper --------------------------------
(***************************************************************************)
(* When the reaper process wakes: the loop of run_reaper_process.  It reads *)
(* the clock, asks the store for the earliest expiry, claims what is due   *)
(* or arms its timer for it, and sleeps in poll until the timer or a signal *)
(* wakes it.  Nobody tells it of the rows the workers write while it       *)
(* sleeps.  What claiming and the callbacks do to a session is module      *)
(* ScopeLifecycle's subject: here a row is only its expiry.                *)
(***************************************************************************)
EXTENDS Naturals

CONSTANTS Scopes,            \* the rows of cf_scope
          Absent,            \* no row
          Heartbeat,         \* 60 in the code
          Timeouts,          \* how far ahead an expiry is when it is written
          ShortestTimeout, LongestTimeout,
          MaxBusy,           \* seconds the process may be awake in one go
          MaxDelay,          \* seconds from a worker's clock reading to its statement
          MaxCrashes,        \* bound on the crashes
          MaxTime            \* bound on the clock

ASSUME AbsentAssumption == Absent \notin Nat
ASSUME TimeoutAssumption ==
    /\ ShortestTimeout \in Nat /\ LongestTimeout \in Nat
    /\ ShortestTimeout <= LongestTimeout
    /\ \A d \in Timeouts : d \in ShortestTimeout .. LongestTimeout
ASSUME BoundAssumption ==
    Heartbeat \in Nat /\ MaxBusy \in Nat /\ MaxDelay \in Nat /\ MaxTime \in Nat

VARIABLES exp,      \* expires_at of each committed row, 0 for never
          open,     \* a COMMIT has failed: the reaper's transaction is still open
          gone,     \* the rows that transaction has deleted
          now,      \* CLOCK_REALTIME, which the timer runs on
          step,     \* where the loop is
          t,        \* the clock reading the loop works with
          timer,    \* what the timerfd is armed for
          awake,    \* when poll last returned
          term,     \* has the supervisor sent SIGTERM
          crashes,  \* how often the process died
          failed    \* has a statement of the reaper failed

vars == <<exp, open, gone, now, step, t, timer, awake, term, crashes, failed>>

Expiring(s) == exp[s] # Absent /\ exp[s] > 0
DueAt(s, time) == Expiring(s) /\ exp[s] <= time

\* The reaper's own SELECT does not see what its open transaction has deleted.
Sees(s) == Expiring(s) /\ s \notin gone

\* The longest poll: nothing to expire, or the longest timeout.
LongestSleep == IF Heartbeat > LongestTimeout THEN Heartbeat ELSE LongestTimeout

TypeOK ==
    /\ exp \in [Scopes -> Nat \cup {Absent}]
    /\ open \in BOOLEAN /\ gone \subseteq Scopes
    /\ now \in Nat /\ t \in Nat /\ timer \in Nat /\ awake \in Nat
    /\ step \in {"loop", "query", "reap", "callbacks", "poll",
                 "drain", "lastCallbacks", "exited", "down"}
    /\ term \in BOOLEAN
    /\ crashes \in Nat
    /\ failed \in BOOLEAN

Init ==
    /\ exp = [s \in Scopes |-> Absent]
    /\ open = FALSE /\ gone = {}
    /\ now = 1 /\ t = 0 /\ timer = 0 /\ awake = 1
    /\ step = "loop"
    /\ term = FALSE
    /\ crashes = 0
    /\ failed = FALSE

Stopped == step = "exited" \/ (step = "down" /\ term)

-------------------------------------------------------------------------------
(* The loop.                                                               *)

ReadClock ==
    /\ step = "loop"
    /\ t' = now
    /\ step' = "query"
    /\ UNCHANGED <<exp, open, gone, now, timer, awake, term, crashes, failed>>

\* The mutated form: sleep until a signal comes when nothing has an expiry.
SleepIndefinitely ==
    /\ step = "query"
    /\ \A s \in Scopes : ~Sees(s)
    /\ timer' = MaxTime + 1
    /\ step' = "poll"
    /\ UNCHANGED <<exp, open, gone, now, t, awake, term, crashes, failed>>

\* Nothing has an expiry, or earliestExpiry fails, which is reported alike.  (A
\* failure so late that the clock's bound would cut the sleep short is left out.)
SleepHeartbeat ==
    /\ step = "query"
    /\ \/ (\A s \in Scopes : ~Sees(s)) /\ UNCHANGED failed
       \/ t + Heartbeat <= MaxTime /\ failed' = TRUE
    /\ timer' = t + Heartbeat
    /\ step' = "poll"
    /\ UNCHANGED <<exp, open, gone, now, t, awake, term, crashes>>

\* The mutated form: the latest expiry.
Latest(time) == \A s \in Scopes : Sees(s) => exp[s] <= time

Earliest(time) == \A s \in Scopes : Sees(s) => time <= exp[s]

SleepOrReap ==
    /\ step = "query"
    /\ \E s \in Scopes :
          /\ Sees(s) /\ Earliest(exp[s])
          /\ IF exp[s] <= t
             THEN step' = "reap" /\ UNCHANGED timer
             ELSE step' = "poll" /\ timer' = exp[s]
    /\ UNCHANGED <<exp, open, gone, now, t, awake, term, crashes, failed>>

\* The mutated form: the timer is looked at first and the signal never.
PollTimer ==
    /\ step = "poll" /\ timer <= now
    /\ t' = now /\ awake' = now
    /\ step' = "reap"
    /\ UNCHANGED <<exp, open, gone, now, timer, term, crashes, failed>>

\* poll returns: a signal is looked at before the timer.
Poll ==
    /\ step = "poll"
    /\ term \/ timer <= now
    /\ t' = now /\ awake' = now
    /\ step' = IF term THEN "drain" ELSE "reap"
    /\ UNCHANGED <<exp, open, gone, now, timer, term, crashes, failed>>

\* A process that ends takes its transaction with it.
RolledBack == open' = FALSE /\ gone' = {}

AfterFailedClaim == IF step = "drain" THEN "exited" ELSE "loop"

\* claimExpired commits ...
Claim ==
    /\ step \in {"reap", "drain"}
    /\ ~open
    /\ exp' = [s \in Scopes |-> IF DueAt(s, t) THEN Absent ELSE exp[s]]
    /\ step' = IF step = "drain" THEN "lastCallbacks" ELSE "callbacks"
    /\ UNCHANGED <<open, gone, now, t, timer, awake, term, crashes, failed>>

\* ... or has no transaction: BEGIN fails, as it must inside one that is open, or
\* a statement does, and is rolled back.  The loop goes on at once.
ClaimFails ==
    /\ step \in {"reap", "drain"}
    /\ step' = AfterFailedClaim
    /\ failed' = TRUE
    /\ IF step = "drain" THEN RolledBack ELSE UNCHANGED <<open, gone>>
    /\ UNCHANGED <<exp, now, t, timer, awake, term, crashes>>

\* ... or its COMMIT fails, which nothing rolls back.
CommitFails ==
    /\ step \in {"reap", "drain"}
    /\ ~open
    /\ step' = AfterFailedClaim
    /\ failed' = TRUE
    /\ IF step = "drain"
       THEN UNCHANGED <<open, gone>>
       ELSE open' = TRUE /\ gone' = {s \in Scopes : DueAt(s, t)}
    /\ UNCHANGED <<exp, now, t, timer, awake, term, crashes>>

Callbacks ==
    /\ step \in {"callbacks", "lastCallbacks"}
    /\ step' = IF step = "lastCallbacks" THEN "exited" ELSE "loop"
    /\ UNCHANGED <<exp, open, gone, now, t, timer, awake, term, crashes, failed>>

Crash ==
    /\ step \notin {"exited", "down"}
    /\ crashes < MaxCrashes
    /\ crashes' = crashes + 1
    /\ step' = "down"
    /\ awake' = IF step = "poll" THEN now ELSE awake
    /\ RolledBack
    /\ UNCHANGED <<exp, now, t, timer, term, failed>>

\* The supervisor forks another, unless it is terminating.
Restart ==
    /\ step = "down" /\ ~term
    /\ step' = "loop"
    /\ UNCHANGED <<exp, open, gone, now, t, timer, awake, term, crashes, failed>>

-------------------------------------------------------------------------------
(* Its environment.                                                        *)

\* A worker's storeRow or touchRow, with the expiry it has worked out from a reading
\* of the clock that is up to MaxDelay seconds old; none succeeds while the reaper's
\* transaction has the database locked.  The clock's bound leaves the reaper a full
\* sleep to find the row.
WriteScope(s) ==
    /\ ~Stopped /\ ~open
    /\ now + LongestSleep <= MaxTime
    /\ \E reading \in 0 .. now :
          /\ now <= reading + MaxDelay
          /\ \E e \in {reading + d : d \in Timeouts} \cup {0} : exp' = [exp EXCEPT ![s] = e]
    /\ UNCHANGED <<open, gone, now, step, t, timer, awake, term, crashes, failed>>

RemoveScope(s) ==
    /\ exp[s] # Absent /\ ~open
    /\ exp' = [exp EXCEPT ![s] = Absent]
    /\ UNCHANGED <<open, gone, now, step, t, timer, awake, term, crashes, failed>>

Terminate ==
    /\ ~term
    /\ term' = TRUE
    /\ UNCHANGED <<exp, open, gone, now, step, t, timer, awake, crashes, failed>>

\* The process is awake for MaxBusy seconds at most, and does not sleep on when
\* something has woken it.
Tick ==
    /\ now < MaxTime
    /\ ~Stopped
    /\ IF step = "poll" THEN now < timer /\ ~term ELSE now < awake + MaxBusy
    /\ now' = now + 1
    /\ UNCHANGED <<exp, open, gone, step, t, timer, awake, term, crashes, failed>>

Next ==
    \/ ReadClock \/ SleepHeartbeat \/ SleepOrReap \/ Poll
    \/ Claim \/ ClaimFails \/ CommitFails \/ Callbacks \/ Crash \/ Restart
    \/ \E s \in Scopes : WriteScope(s) \/ RemoveScope(s)
    \/ Terminate \/ Tick

Spec == Init /\ [][Next]_vars

Progress ==
    /\ WF_vars(ReadClock) /\ WF_vars(SleepHeartbeat \/ SleepOrReap) /\ WF_vars(Poll)
    /\ WF_vars(Claim \/ ClaimFails \/ CommitFails) /\ WF_vars(Callbacks) /\ WF_vars(Restart)
    /\ WF_vars(Tick)

\* The process is scheduled and the clock runs, whatever the store does.
FairSpec == Spec /\ Progress

-------------------------------------------------------------------------------
(* Properties.                                                             *)

\* How late a claim can be: the sleep that began just before the row was written,
\* less the row's own timeout as far as it had not run when it was written, or a
\* wake-up that just missed the row; and the time the process is awake.
Lateness ==
    LET oversleep == LongestSleep + MaxDelay - ShortestTimeout
    IN (IF oversleep > MaxBusy THEN oversleep ELSE MaxBusy) + MaxBusy

\* As long as the reaper's statements succeed, no row outlives its expiry by more than
\* that, although nothing wakes the reaper when a row is written that expires before
\* the one the timer is armed for, and rows are written with an old reading of the clock.
OversleepBounded ==
    ~failed /\ ~Stopped => \A s \in Scopes : Expiring(s) => now <= exp[s] + Lateness

\* claimExpired does not fail for ever: of the claims, if they never end, some succeed
\* again and again.  Nothing in the code makes this so.
ClaimsSucceed ==
    []<>(step \in {"reap", "drain"}) => []<>(step \in {"callbacks", "lastCallbacks"})

\* Unless its claims fail for ever the reaper claims a row that has expired, across
\* crashes and failing statements, but for a row whose claim it could not commit: that
\* one it does not see again until the process ends.
DueIsClaimed ==
    ClaimsSucceed =>
        \A s \in Scopes : DueAt(s, now) ~> (~DueAt(s, now) \/ s \in gone \/ Stopped)

\* Only claims that fail for ever keep the process from obeying the signal of the
\* supervisor; a transaction left open does not by itself.
SignalObeyed == ClaimsSucceed => (term ~> Stopped)
===============================================================================
