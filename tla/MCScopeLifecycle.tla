--------------------------- MODULE MCScopeLifecycle ---------------------------
(* Instances of ScopeLifecycle for TLC. *)
EXTENDS ScopeLifecycle, TLC

Interchangeable == Permutations(Workers) \cup Permutations(Sids)
===============================================================================
