--------------------------- MODULE MCRevalidation ---------------------------
(* Revalidation for TLC: requests and replicas are interchangeable.         *)
EXTENDS Revalidation, TLC

Symmetry == Permutations(Requests) \cup Permutations(Replicas)
=============================================================================
