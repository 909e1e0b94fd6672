------------------------------ MODULE SessionFate ------------------------------
(***************************************************************************)
(* What the scope store promises about a session, with no workers, requests *)
(* or clock: it is open while it has a row; the reaper claims it with others *)
(* or a page removes it; a claimed one is called back once, unless nobody    *)
(* can be or the reaper dies, and is never open again.                       *)
(***************************************************************************)

CONSTANT Sids

VARIABLE fate

TypeOK == fate \in [Sids -> {"new", "open", "removed", "claimed", "ended", "skipped", "lost"}]

In(states) == {s \in Sids : fate[s] \in states}
Become(set, state) == fate' = [s \in Sids |-> IF s \in set THEN state ELSE fate[s]]

Init == fate = [s \in Sids |-> "new"]

\* A removed session comes back when a request that was under way stores it.
Open == \E s \in In({"new", "removed"}) : Become({s}, "open")

\* SessionInvalidate and SessionRotate, of one session, ApplicationStop, of all; a
\* session that was never stored can be removed too.
Remove == \E set \in SUBSET In({"new", "open"}) : Become(set, "removed")

Claim == \E set \in SUBSET In({"open"}) : Become(set, "claimed")

CallBack == \E s \in In({"claimed"}), result \in {"ended", "skipped"} : Become({s}, result)

\* The reaper dies.
Lose == Become(In({"claimed"}), "lost")

\* (A step moves some session: this is what TLC looks at first.)
Next == fate' # fate /\ (Open \/ Remove \/ Claim \/ CallBack \/ Lose)

Spec == Init /\ [][Next]_fate
===============================================================================
