----------------------------- MODULE MCSupervisor -----------------------------
(* Instances of Supervisor for TLC. *)
EXTENDS Supervisor, TLC

Interchangeable == Permutations(Pids)
===============================================================================
