----------------------------- MODULE MCFunnel -----------------------------
(***************************************************************************)
(* Instances of Funnel for TLC.                                            *)
(***************************************************************************)
EXTENDS Funnel, TLC

CONSTANTS s1, s2, s3, c1, c2, m1, m2, o1, t1, t2

Interchangeable == Permutations({s1, s2, s3}) \cup Permutations({t1, t2})
===========================================================================
