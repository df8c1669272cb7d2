---------------------------- MODULE MCLoginFlow ----------------------------
(* LoginFlow for TLC: flows and users are interchangeable.                  *)
EXTENDS LoginFlow, TLC

Symmetry == Permutations(Flows) \cup Permutations(Users)
=============================================================================
