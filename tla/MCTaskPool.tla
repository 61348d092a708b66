------------------------------ MODULE MCTaskPool ------------------------------
(***************************************************************************)
(* TaskPool for TLC: messages and clients are interchangeable, no          *)
(* definition tells one from another, so states that differ by a           *)
(* permutation of them are explored once.  Only for runs whose properties  *)
(* are safety properties.                                                  *)
(***************************************************************************)
EXTENDS TaskPool, TLC

Interchangeable == Permutations(Msgs) \cup Permutations(Clients)
=============================================================================
