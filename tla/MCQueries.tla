----------------------------- MODULE MCQueries -----------------------------
(***************************************************************************)
(* Queries for TLC: the names of queries, and the report indices, are      *)
(* interchangeable.                                                        *)
(***************************************************************************)
EXTENDS Queries, TLC

Symmetry == Permutations(Queries) \cup Permutations(Reports)

=============================================================================
