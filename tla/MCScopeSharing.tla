---------------------------- MODULE MCScopeSharing ----------------------------
(* Instances of ScopeSharing for TLC.  The session ids and the updates are     *)
(* finite sets: a run ends when they are used up.                              *)
EXTENDS ScopeSharing, TLC

Interchangeable == Permutations(Workers) \cup Permutations(Clients) \cup Permutations(Apps)
                   \cup Permutations(Sids) \cup Permutations(Updates)
===============================================================================
