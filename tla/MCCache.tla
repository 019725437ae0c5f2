------------------------------ MODULE MCCache ------------------------------
(* A small cache for TLC.                                                  *)
EXTENDS Cache, TLC

CONSTANTS k1, k2

MCBucketOf == [k \in Keys |-> IF k = k1 THEN 0 ELSE 1]

Symmetry == Permutations(Objects) \cup Permutations(Accessors)
=============================================================================
