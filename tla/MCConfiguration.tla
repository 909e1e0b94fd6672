---------------------------- MODULE MCConfiguration ----------------------------
(* Instances of Configuration for TLC. *)
EXTENDS Configuration, TLC

Interchangeable == Permutations(Inodes)
===============================================================================
