------------------------------- MODULE MCLogins -------------------------------
(* Instances of Logins: clients and workers are interchangeable.   *)
EXTENDS Logins, TLC

Interchangeable == Permutations(Workers) \cup Permutations(Clients)
===============================================================================
