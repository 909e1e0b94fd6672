--------------------------- MODULE MCTransactions -----------------------------
(* Instances of Transactions for TLC. *)
EXTENDS Transactions, TLC

CONSTANTS ds, DS, log   \* two spellings of one datasource, and another

Uppercase == [n \in Names |-> IF n = ds THEN DS ELSE n]

Interchangeable == Permutations(Conns)
===============================================================================
