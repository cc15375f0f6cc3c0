----------------------------- MODULE MCJobQueue -----------------------------
(* Instances of JobQueue for TLC: the connections are interchangeable.      *)
EXTENDS JobQueue, TLC

ConnSymmetry == Permutations(Conns)
=============================================================================
