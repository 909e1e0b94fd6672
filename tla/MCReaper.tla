------------------------------- MODULE MCReaper -------------------------------
(* Instances of Reaper for TLC. *)
EXTENDS Reaper, TLC

Interchangeable == Permutations(Scopes)
===============================================================================
