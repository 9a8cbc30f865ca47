----------------------------- MODULE MCSourcing -----------------------------
(* Values for model checking Sourcing.                                     *)
EXTENDS Sourcing, TLC

CONSTANT s1

\* The first source names two listings and the others one.
TwoListings == [s \in Sources |-> IF s = s1 THEN 2 ELSE 1]

HashesAlike == Permutations(Hashes)
=============================================================================
