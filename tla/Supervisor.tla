------------------------------ MODULE Supervisor ------------------------------
(***************************************************************************)
(* The supervisor of the prefork server: appserver::run.  It forks the     *)
(* reaper and the workers, blocks SIGINT, SIGTERM and SIGCHLD and waits for *)
(* them with sigwait, forks another reaper when waitpid reports the        *)
(* reaper's exit, and at a SIGTERM signals its children and waits for them. *)
(* A standard signal is pending once however often it was sent, and a      *)
(* SIGCHLD that is not blocked is discarded.                               *)
(***************************************************************************)
EXTENDS Naturals, FiniteSets

CONSTANTS Pids,        \* process ids, which the system gives out again
          NoPid,       \* -1: fork_reaper failed
          WorkerNum,
          MaxDeaths,   \* bound on the children that die of themselves
          MaxFailures  \* bound on the forks that fail

ASSUME PidAssumption == NoPid \notin Pids
ASSUME NumAssumption == WorkerNum \in Nat /\ MaxDeaths \in Nat /\ MaxFailures \in Nat

VARIABLES phase,      \* where the supervisor is
          role,       \* what each process id is now
          alive,      \* the processes that run, the others are zombies
          reaperPid,  \* reaper_pid
          childs,     \* childs
          toKill,     \* the children not signalled yet at the shutdown
          toWait,     \* those not waited for yet
          pending,    \* the blocked signals pending for the supervisor
          armed,      \* children past prctl(PR_SET_PDEATHSIG)
          termed,     \* children SIGTERM or SIGUSR1 was sent to
          missed,     \* children whose SIGCHLD was discarded
          deaths, failures

forkVars == <<reaperPid, failures>>
procVars == <<role, alive, armed, termed, missed>>
listVars == <<childs, toKill, toWait>>
vars == <<phase, pending, deaths, forkVars, procVars, listVars>>

Phases == {"forkReaper", "forkWorkers", "sigwait", "collect", "killReaper", "killWorkers",
           "waitReaper", "waitWorkers", "exited"}

TypeOK ==
    /\ phase \in Phases
    /\ role \in [Pids -> {"none", "reaper", "worker"}]
    /\ alive \subseteq {p \in Pids : role[p] # "none"}
    /\ reaperPid \in Pids \cup {NoPid}
    /\ childs \subseteq Pids /\ toKill \subseteq childs /\ toWait \subseteq childs
    /\ pending \subseteq {"CHLD", "TERM"}
    /\ armed \subseteq Pids /\ termed \subseteq Pids /\ missed \subseteq Pids
    /\ deaths \in Nat /\ failures \in Nat

Init ==
    /\ phase = "forkReaper"
    /\ role = [p \in Pids |-> "none"]
    /\ alive = {} /\ armed = {} /\ termed = {} /\ missed = {}
    /\ childs = {} /\ toKill = {} /\ toWait = {}
    /\ reaperPid = NoPid
    /\ pending = {}
    /\ deaths = 0 /\ failures = 0

Zombies == {p \in Pids : role[p] # "none"} \ alive
Starting == phase \in {"forkReaper", "forkWorkers"}

\* fork() of a "kind" of child, out of the process table "table".
Fork(kind, table, p) ==
    /\ table[p] = "none"
    /\ role' = [table EXCEPT ![p] = kind]
    /\ alive' = alive \cup {p}
    /\ armed' = armed \ {p} /\ termed' = termed \ {p} /\ missed' = missed \ {p}

ForkFails ==
    /\ failures < MaxFailures
    /\ failures' = failures + 1

\* The mutated form of fork_reaper: a failed fork leaves the old reaper_pid.
ForkReaperOrKeep(table) ==
    \/ \E p \in Pids : Fork("reaper", table, p) /\ reaperPid' = p /\ UNCHANGED failures
    \/ ForkFails /\ role' = table /\ UNCHANGED <<alive, armed, termed, missed, reaperPid>>

ForkReaper(table) ==
    \/ \E p \in Pids : Fork("reaper", table, p) /\ reaperPid' = p /\ UNCHANGED failures
    \/ ForkFails /\ role' = table /\ reaperPid' = NoPid
       /\ UNCHANGED <<alive, armed, termed, missed>>

-------------------------------------------------------------------------------
(* Starting.                                                               *)

StartReaper ==
    /\ phase = "forkReaper"
    /\ ForkReaper(role)
    /\ phase' = "forkWorkers"
    /\ UNCHANGED <<pending, deaths, listVars>>

StartWorker ==
    /\ phase = "forkWorkers"
    /\ Cardinality(childs) < WorkerNum
    /\ \E p \in Pids : Fork("worker", role, p) /\ childs' = childs \cup {p}
    /\ UNCHANGED <<phase, pending, deaths, forkVars, toKill, toWait>>

\* The supervisor is gone: the system sends SIGTERM to the children that asked for it.
Leave ==
    /\ phase' = "exited"
    /\ termed' = termed \cup (alive \cap armed)
    /\ UNCHANGED <<pending, deaths, reaperPid, role, alive, armed, missed, listVars>>

\* run returns when a worker cannot be forked ...
StartFails ==
    /\ phase = "forkWorkers"
    /\ Cardinality(childs) < WorkerNum
    /\ ForkFails
    /\ Leave

\* ... and until it has blocked the signals, one to terminate ends it there.
TerminatedEarly == Starting /\ Leave /\ UNCHANGED failures

BlockSignals ==
    /\ phase = "forkWorkers"
    /\ Cardinality(childs) = WorkerNum
    /\ phase' = "sigwait"
    /\ UNCHANGED <<pending, deaths, forkVars, procVars, listVars>>

-------------------------------------------------------------------------------
(* Supervising.                                                            *)

\* sigwait takes any of the pending signals.
SigWait ==
    /\ phase = "sigwait"
    /\ \E sig \in pending :
          /\ pending' = pending \ {sig}
          /\ phase' = IF sig = "TERM" THEN "killReaper" ELSE "collect"
    /\ UNCHANGED <<deaths, forkVars, procVars, listVars>>

\* The mutated form: another reaper for any child that exits.
IsAnyChild(p) == p \in Pids

IsReaper(p) == p = reaperPid

\* One round of the waitpid loop.
Collect ==
    /\ phase = "collect"
    /\ \E p \in Zombies :
          LET table == [role EXCEPT ![p] = "none"]
          IN IF IsReaper(p)
             THEN ForkReaper(table)
             ELSE role' = table /\ UNCHANGED <<alive, armed, termed, missed, forkVars>>
    /\ UNCHANGED <<phase, pending, deaths, listVars>>

\* The mutated form: one waitpid for each SIGCHLD.
CollectedOne ==
    /\ phase = "collect"
    /\ phase' = "sigwait"
    /\ UNCHANGED <<pending, deaths, forkVars, procVars, listVars>>

Collected ==
    /\ phase = "collect"
    /\ Zombies = {}
    /\ phase' = "sigwait"
    /\ UNCHANGED <<pending, deaths, forkVars, procVars, listVars>>

-------------------------------------------------------------------------------
(* Terminating.                                                            *)

\* The mutated form: only the workers are signalled.
KillNoReaper ==
    /\ phase = "killReaper"
    /\ toKill' = childs
    /\ phase' = "killWorkers"
    /\ UNCHANGED <<pending, deaths, forkVars, procVars, childs, toWait>>

KillReaper ==
    /\ phase = "killReaper"
    /\ termed' = IF reaperPid # NoPid THEN termed \cup {reaperPid} ELSE termed
    /\ toKill' = childs
    /\ phase' = "killWorkers"
    /\ UNCHANGED <<pending, deaths, forkVars, role, alive, armed, missed, childs, toWait>>

\* childs keeps the ids of workers waited for long ago: the signal then goes to
\* whichever child has the id now.
KillWorker ==
    /\ phase = "killWorkers"
    /\ \E p \in toKill : toKill' = toKill \ {p} /\ termed' = termed \cup {p}
    /\ UNCHANGED <<phase, pending, deaths, forkVars, role, alive, armed, missed, childs, toWait>>

WorkersKilled ==
    /\ phase = "killWorkers" /\ toKill = {}
    /\ phase' = "waitReaper"
    /\ UNCHANGED <<pending, deaths, forkVars, procVars, listVars>>

\* waitpid returns for a child that has exited, and for an id that is none.
WaitReaper ==
    /\ phase = "waitReaper"
    /\ reaperPid \notin alive
    /\ role' = [p \in Pids |-> IF p = reaperPid THEN "none" ELSE role[p]]
    /\ toWait' = childs
    /\ phase' = "waitWorkers"
    /\ UNCHANGED <<pending, deaths, forkVars, alive, armed, termed, missed, childs, toKill>>

\* The mutated form: with WNOHANG.
WaitWorkerNoHang ==
    /\ phase = "waitWorkers"
    /\ \E p \in toWait :
          /\ toWait' = toWait \ {p}
          /\ role' = [role EXCEPT ![p] = "none"]
    /\ UNCHANGED <<phase, pending, deaths, forkVars, alive, armed, termed, missed, childs, toKill>>

WaitWorker ==
    /\ phase = "waitWorkers"
    /\ \E p \in toWait \ alive :
          /\ toWait' = toWait \ {p}
          /\ role' = [role EXCEPT ![p] = "none"]
    /\ UNCHANGED <<phase, pending, deaths, forkVars, alive, armed, termed, missed, childs, toKill>>

Exit ==
    /\ phase = "waitWorkers" /\ toWait = {}
    /\ Leave
    /\ UNCHANGED failures

-------------------------------------------------------------------------------
(* The children, and who runs the server.                                  *)

\* prctl(PR_SET_PDEATHSIG); it is of no effect once the supervisor is gone.
Arm(p) ==
    /\ p \in alive \ armed
    /\ phase # "exited"
    /\ armed' = armed \cup {p}
    /\ UNCHANGED <<phase, pending, deaths, forkVars, role, alive, termed, missed, listVars>>

\* The mutated form: SIGCHLD is not among the signals waited for.
DieUnnoticed(p) ==
    /\ alive' = alive \ {p}
    /\ UNCHANGED <<phase, pending, missed, forkVars, role, armed, termed, listVars>>

\* A SIGCHLD the supervisor has not blocked is discarded.
Die(p) ==
    /\ alive' = alive \ {p}
    /\ pending' = IF Starting THEN pending ELSE pending \cup {"CHLD"}
    /\ missed' = IF Starting THEN missed \cup {p} ELSE missed
    /\ UNCHANGED <<phase, forkVars, role, armed, termed, listVars>>

\* A child dies of itself: a fault, or a scope store that does not open.
ChildDies ==
    /\ deaths < MaxDeaths
    /\ deaths' = deaths + 1
    /\ \E p \in alive : Die(p)

\* A child dies of the signal, the reaper after its last claim.
ChildObeys(p) ==
    /\ p \in alive \cap termed
    /\ Die(p)
    /\ UNCHANGED deaths

Terminate ==
    /\ phase \in {"sigwait", "collect"}
    /\ "TERM" \notin pending
    /\ pending' = pending \cup {"TERM"}
    /\ UNCHANGED <<phase, deaths, forkVars, procVars, listVars>>

SupervisorStep ==
    \/ StartReaper \/ StartWorker \/ StartFails \/ BlockSignals
    \/ SigWait \/ Collect \/ Collected
    \/ KillReaper \/ KillWorker \/ WorkersKilled \/ WaitReaper \/ WaitWorker \/ Exit

Next ==
    \/ SupervisorStep
    \/ ChildDies \/ (\E p \in Pids : Arm(p) \/ ChildObeys(p))
    \/ Terminate \/ TerminatedEarly

Spec == Init /\ [][Next]_vars

\* The supervisor is scheduled, and a signalled child dies.
FairSpec ==
    /\ Spec
    /\ WF_vars(SupervisorStep)
    /\ \A p \in Pids : WF_vars(ChildObeys(p))

-------------------------------------------------------------------------------
(* Properties.                                                             *)

\* Across the entire server instance there is one reaper at most.
OneReaper == \A p, q \in alive : role[p] = "reaper" /\ role[q] = "reaper" => p = q

\* sigwait never sleeps on a child that has exited since the signals were blocked,
\* however many exits one SIGCHLD stands for.
NoLostWakeup == phase = "sigwait" /\ Zombies \ missed # {} => "CHLD" \in pending

\* reaper_pid is the reaper or its zombie whenever it is about to be signalled.
SignalsTheReaper ==
    phase = "killReaper" /\ reaperPid # NoPid => role[reaperPid] = "reaper"

\* A signal to terminate ends the server, with every child waited for.
Terminates == "TERM" \in pending ~> (phase = "exited" /\ alive = {})

\* A reaper that dies is replaced, unless its SIGCHLD was discarded, the fork fails
\* or the server ends.
ReaperIsReplaced ==
    (phase = "sigwait" /\ reaperPid \in Zombies \ missed)
        ~> (reaperPid \in alive \/ reaperPid = NoPid \/ phase = "killReaper")
===============================================================================
