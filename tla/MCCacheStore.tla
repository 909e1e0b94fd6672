------------------------------ MODULE MCCacheStore ------------------------------
(* Instances of CacheStore for TLC. *)
EXTENDS CacheStore, TLC

OneLimit == {[ttl |-> 1, idle |-> 1]}

Interchangeable == Permutations(Ids)
===============================================================================
