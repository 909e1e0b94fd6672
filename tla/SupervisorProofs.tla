--------------------------- MODULE SupervisorProofs ---------------------------
(***************************************************************************)
(* There is one reaper, however many process ids, workers, deaths and      *)
(* failing forks: appserver::run forks one only when the process table     *)
(* holds none, and the id it keeps in reaper_pid is that reaper's until it *)
(* has been waited for.  And sigwait never sleeps on a child that exited    *)
(* while SIGCHLD was blocked.                                              *)
(***************************************************************************)
EXTENDS Supervisor, TLAPS

\* The process table holds a reaper, running or zombie, under reaper_pid only ...
ReaperKnown == \A p \in Pids : role[p] = "reaper" => p = reaperPid

\* ... and it is there until the last waitpid.
ReaperThere ==
    phase \notin {"forkReaper", "waitWorkers", "exited"} /\ reaperPid # NoPid
        => role[reaperPid] = "reaper"

\* Before the first fork there is none.
NoneYet == phase = "forkReaper" => \A p \in Pids : role[p] = "none"

SupervisorInv == TypeOK /\ ReaperKnown /\ ReaperThere /\ NoneYet

\* fork_reaper finds a table without a reaper and leaves it with the one it names.
LEMMA ForkReaperEffect ==
    ASSUME NEW table \in [Pids -> {"none", "reaper", "worker"}],
           \A p \in Pids : table[p] # "reaper",
           alive \subseteq {p \in Pids : table[p] # "none"},
           TypeOK,
           ForkReaper(table)
    PROVE  /\ role' \in [Pids -> {"none", "reaper", "worker"}]
           /\ alive' \subseteq {p \in Pids : role'[p] # "none"}
           /\ armed' \subseteq Pids /\ termed' \subseteq Pids /\ missed' \subseteq Pids
           /\ reaperPid' \in Pids \cup {NoPid}
           /\ \A p \in Pids : role'[p] = "reaper" => p = reaperPid'
           /\ reaperPid' # NoPid => role'[reaperPid'] = "reaper"
           /\ failures' \in Nat
<1>1. CASE \E p \in Pids : Fork("reaper", table, p) /\ reaperPid' = p /\ UNCHANGED failures
  BY <1>1, PidAssumption DEF Fork, TypeOK
<1>2. CASE /\ ForkFails /\ role' = table /\ reaperPid' = NoPid
           /\ UNCHANGED <<alive, armed, termed, missed>>
  BY <1>2 DEF ForkFails, TypeOK
<1> QED BY <1>1, <1>2 DEF ForkReaper

LEMMA SupervisorInit == Init => SupervisorInv
  BY DEF Init, SupervisorInv, TypeOK, Phases, ReaperKnown, ReaperThere, NoneYet

\* A step that neither forks nor waits leaves the processes' roles alone.
LEMMA QuietStep ==
    ASSUME SupervisorInv, phase' \in Phases, UNCHANGED <<role, reaperPid>>,
           phase' = "forkReaper" => phase = "forkReaper",
           phase \in {"forkReaper", "waitWorkers", "exited"}
             => phase' \in {phase, "exited"},
           TypeOK'
    PROVE  SupervisorInv'
  BY DEF SupervisorInv, ReaperKnown, ReaperThere, NoneYet, Phases

LEMMA SupervisorStepInv ==
    ASSUME SupervisorInv, [Next]_vars
    PROVE  SupervisorInv'
<1> USE PidAssumption, NumAssumption DEF SupervisorInv
<1>1. CASE StartReaper
  <2>1. phase = "forkReaper" /\ phase' = "forkWorkers" /\ ForkReaper(role)
        /\ UNCHANGED <<pending, deaths, childs, toKill, toWait>>
    BY <1>1 DEF StartReaper, listVars
  <2>2. \A p \in Pids : role[p] # "reaper"
    BY <2>1 DEF NoneYet
  <2> QED BY <2>1, <2>2, ForkReaperEffect DEF TypeOK, Phases, ReaperKnown, ReaperThere, NoneYet
<1>2. CASE StartWorker
  <2>1. PICK p \in Pids : Fork("worker", role, p) /\ childs' = childs \cup {p}
    BY <1>2 DEF StartWorker
  <2>2. phase = "forkWorkers" /\ UNCHANGED <<phase, pending, deaths, reaperPid, failures,
                                             toKill, toWait>>
    BY <1>2 DEF StartWorker, forkVars
  <2>3. TypeOK'
    BY <2>1, <2>2 DEF Fork, TypeOK
  <2> QED BY <2>1, <2>2, <2>3 DEF Fork, TypeOK, ReaperKnown, ReaperThere, NoneYet
<1>3. CASE Collect
  <2>1. PICK p \in Zombies :
           IF IsReaper(p)
           THEN ForkReaper([role EXCEPT ![p] = "none"])
           ELSE /\ role' = [role EXCEPT ![p] = "none"]
                /\ UNCHANGED <<alive, armed, termed, missed, forkVars>>
    BY <1>3 DEF Collect
  <2>2. /\ phase = "collect" /\ phase' = "collect"
        /\ UNCHANGED <<pending, deaths, childs, toKill, toWait>>
    BY <1>3 DEF Collect, listVars
  <2> DEFINE table == [role EXCEPT ![p] = "none"]
  <2>3. /\ table \in [Pids -> {"none", "reaper", "worker"}]
        /\ alive \subseteq {q \in Pids : table[q] # "none"}
    BY <2>1 DEF Zombies, TypeOK
  <2>4. CASE p = reaperPid
    <3>1. \A q \in Pids : table[q] # "reaper"
      BY <2>4 DEF ReaperKnown, TypeOK
    <3>2. ForkReaper(table)
      BY <2>1, <2>4 DEF IsReaper
    <3> HIDE DEF table
    <3> QED BY <2>2, <2>3, <3>1, <3>2, ForkReaperEffect
          DEF TypeOK, ReaperKnown, ReaperThere, NoneYet
  <2>5. CASE p # reaperPid
    <3>1. role' = table /\ UNCHANGED <<alive, armed, termed, missed, reaperPid, failures>>
      BY <2>1, <2>5 DEF IsReaper, forkVars
    <3> QED BY <2>2, <2>3, <2>5, <3>1 DEF TypeOK, ReaperKnown, ReaperThere, NoneYet
  <2> QED BY <2>4, <2>5
<1>4. CASE WaitReaper
  BY <1>4 DEF WaitReaper, forkVars, TypeOK, Phases, ReaperKnown, ReaperThere, NoneYet
<1>5. CASE WaitWorker
  BY <1>5 DEF WaitWorker, forkVars, TypeOK, Phases, ReaperKnown, ReaperThere, NoneYet
<1>6. CASE StartFails \/ TerminatedEarly \/ Exit
  <2>1. /\ phase' = "exited" /\ termed' = termed \cup (alive \cap armed) /\ failures' \in Nat
        /\ UNCHANGED <<pending, deaths, reaperPid, role, alive, armed, missed, listVars>>
    BY <1>6 DEF StartFails, TerminatedEarly, Exit, Leave, ForkFails, TypeOK
  <2>2. TypeOK'
    BY <2>1 DEF TypeOK, Phases, listVars
  <2> QED BY <2>1, <2>2, QuietStep DEF Phases
<1>7. CASE BlockSignals \/ SigWait \/ Collected \/ WorkersKilled
  <2>1. /\ phase \in {"forkWorkers", "sigwait", "collect", "killWorkers"}
        /\ phase' \in {"sigwait", "collect", "killReaper", "waitReaper"}
        /\ pending' \subseteq pending
        /\ UNCHANGED <<deaths, forkVars, procVars, listVars>>
    BY <1>7 DEF BlockSignals, SigWait, Collected, WorkersKilled
  <2>2. TypeOK'
    BY <2>1 DEF TypeOK, Phases, forkVars, procVars, listVars
  <2> QED BY <2>1, <2>2, QuietStep DEF Phases, forkVars, procVars
<1>8. CASE KillReaper \/ KillWorker
  <2>1. /\ phase \in {"killReaper", "killWorkers"} /\ phase' = "killWorkers"
        /\ termed' \subseteq Pids /\ toKill' \subseteq childs
        /\ UNCHANGED <<pending, deaths, forkVars, role, alive, armed, missed, childs, toWait>>
    BY <1>8 DEF KillReaper, KillWorker, TypeOK
  <2>2. TypeOK'
    BY <2>1 DEF TypeOK, Phases, forkVars
  <2> QED BY <2>1, <2>2, QuietStep DEF Phases, forkVars
<1>9. CASE ChildDies \/ \E p \in Pids : ChildObeys(p)
  <2>1. PICK p \in Pids : Die(p) /\ deaths' \in Nat
    BY <1>9 DEF ChildDies, ChildObeys, TypeOK
  <2>2. TypeOK' /\ UNCHANGED <<phase, role, reaperPid>>
    BY <2>1 DEF Die, TypeOK, forkVars, listVars
  <2> QED BY <2>2, QuietStep DEF TypeOK
<1>10. CASE \E p \in Pids : Arm(p)
  <2>1. TypeOK' /\ UNCHANGED <<phase, role, reaperPid>>
    BY <1>10 DEF Arm, TypeOK, forkVars, listVars
  <2> QED BY <2>1, QuietStep DEF TypeOK
<1>11. CASE Terminate
  <2>1. TypeOK' /\ UNCHANGED <<phase, role, reaperPid>>
    BY <1>11 DEF Terminate, TypeOK, forkVars, procVars, listVars
  <2> QED BY <2>1, QuietStep DEF TypeOK
<1>12. CASE UNCHANGED vars
  <2>1. TypeOK' /\ UNCHANGED <<phase, role, reaperPid>>
    BY <1>12 DEF vars, TypeOK, forkVars, procVars, listVars
  <2> QED BY <2>1, QuietStep DEF TypeOK
<1> QED BY <1>1, <1>2, <1>3, <1>4, <1>5, <1>6, <1>7, <1>8, <1>9, <1>10, <1>11, <1>12
      DEF Next, SupervisorStep

\* Until SIGCHLD is blocked every exit is missed; after, it is pending or the loop
\* that collects every child runs.
WakeupInv == (Starting => Zombies \subseteq missed) /\ NoLostWakeup

LEMMA ForkedIsNoZombie ==
    ASSUME NEW kind \in {"reaper", "worker"}, NEW table, NEW p \in Pids,
           TypeOK, TypeOK', Fork(kind, table, p),
           \A q \in Pids : table[q] = role[q],
           Zombies \subseteq missed
    PROVE  (Zombies \subseteq missed)'
<1>1. \A q \in Pids \ {p} : role'[q] = role[q]
  BY DEF Fork, TypeOK
<1> QED BY <1>1 DEF Fork, Zombies

LEMMA WakeupStep ==
    ASSUME SupervisorInv, SupervisorInv', WakeupInv, [Next]_vars
    PROVE  WakeupInv'
<1> USE DEF SupervisorInv, WakeupInv
<1>1. CASE StartReaper
  <2>1. phase = "forkReaper" /\ phase' = "forkWorkers" /\ ForkReaper(role)
    BY <1>1 DEF StartReaper
  <2>2. Zombies \subseteq missed
    BY <2>1 DEF Starting
  <2>3. CASE \E p \in Pids : Fork("reaper", role, p)
    BY <2>1, <2>2, <2>3, ForkedIsNoZombie DEF NoLostWakeup
  <2>4. CASE UNCHANGED <<role, alive, missed>>
    BY <2>1, <2>2, <2>4 DEF Zombies, NoLostWakeup
  <2> QED BY <2>1, <2>3, <2>4 DEF ForkReaper
<1>2. CASE StartWorker
  <2>1. phase = "forkWorkers" /\ phase' = "forkWorkers" /\ \E p \in Pids : Fork("worker", role, p)
    BY <1>2 DEF StartWorker
  <2>2. Zombies \subseteq missed
    BY <2>1 DEF Starting
  <2> QED BY <2>1, <2>2, ForkedIsNoZombie DEF NoLostWakeup
<1>3. CASE BlockSignals
  BY <1>3 DEF BlockSignals, Starting, Zombies, NoLostWakeup, procVars
<1>4. CASE SigWait
  BY <1>4 DEF SigWait, Starting, NoLostWakeup
<1>5. CASE Collected
  BY <1>5 DEF Collected, Starting, Zombies, NoLostWakeup, procVars
<1>6. CASE ChildDies \/ \E p \in Pids : ChildObeys(p)
  <2>1. PICK p \in Pids : Die(p)
    BY <1>6 DEF ChildDies, ChildObeys, TypeOK
  <2>2. phase' = phase /\ Zombies' \subseteq Zombies \cup {p}
    BY <2>1 DEF Die, Zombies
  <2>3. CASE Starting
    <3>1. missed' = missed \cup {p}
      BY <2>1, <2>3 DEF Die
    <3> QED BY <2>2, <2>3, <3>1 DEF Starting, NoLostWakeup
  <2>4. CASE ~Starting
    <3>1. "CHLD" \in pending'
      BY <2>1, <2>4 DEF Die
    <3> QED BY <2>2, <2>4, <3>1 DEF Starting, NoLostWakeup
  <2> QED BY <2>3, <2>4
<1>7. CASE Terminate \/ \E p \in Pids : Arm(p)
  <2>1. pending \subseteq pending' /\ UNCHANGED <<phase, role, alive, missed>>
    BY <1>7 DEF Terminate, Arm, procVars
  <2> QED BY <2>1 DEF Starting, Zombies, NoLostWakeup
<1>8. CASE \/ StartFails \/ TerminatedEarly \/ Exit \/ Collect \/ KillReaper \/ KillWorker
           \/ WorkersKilled \/ WaitReaper \/ WaitWorker
  <2>1. phase' \notin {"forkReaper", "forkWorkers", "sigwait"}
    BY <1>8 DEF StartFails, TerminatedEarly, Exit, Leave, Collect, KillReaper, KillWorker,
                WorkersKilled, WaitReaper, WaitWorker
  <2> QED BY <2>1 DEF Starting, NoLostWakeup
<1>9. CASE UNCHANGED vars
  BY <1>9 DEF vars, procVars, Starting, Zombies, NoLostWakeup
<1> QED BY <1>1, <1>2, <1>3, <1>4, <1>5, <1>6, <1>7, <1>8, <1>9 DEF Next, SupervisorStep

\* The ids appserver::run keeps (reaper_pid, childs) are of its children, and no process
\* runs that is not in the process table.
THEOREM SupervisorTypeCorrect == Spec => []TypeOK
<1>1. SupervisorInv => TypeOK
  BY DEF SupervisorInv
<1> QED BY <1>1, SupervisorInit, SupervisorStepInv, PTL DEF Spec

\* The signals being blocked before sigwait, and the waitpid loop going on until no child
\* is left to collect, appserver::run never sleeps on a child that has exited since.
THEOREM NoneSleptOn == Spec => []NoLostWakeup
<1>1. Init => WakeupInv
  BY DEF Init, WakeupInv, Zombies, NoLostWakeup
<1>2. WakeupInv => NoLostWakeup
  BY DEF WakeupInv
<1> QED BY <1>1, <1>2, SupervisorInit, SupervisorStepInv, WakeupStep, PTL DEF Spec

\* Whatever children die and whatever forks fail, the server has one reaper at
\* most (the waitpid loop forks another only for the reaper's own exit) ...
THEOREM SingleReaper == Spec => []OneReaper
<1>1. SupervisorInv => OneReaper
  BY DEF SupervisorInv, TypeOK, ReaperKnown, OneReaper
<1> QED BY <1>1, SupervisorInit, SupervisorStepInv, PTL DEF Spec

\* ... and SIGTERM goes to it or to its zombie, never to another process that has
\* been given its id (kill(reaper_pid, SIGTERM)).
THEOREM ReaperSignalled == Spec => []SignalsTheReaper
<1>1. SupervisorInv => SignalsTheReaper
  BY DEF SupervisorInv, ReaperThere, SignalsTheReaper
<1> QED BY <1>1, SupervisorInit, SupervisorStepInv, PTL DEF Spec
===============================================================================
