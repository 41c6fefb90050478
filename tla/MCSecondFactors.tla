--------------------------- MODULE MCSecondFactors ---------------------------
(* An instance of SecondFactors for TLC.                                     *)
EXTENDS SecondFactors, TLC

CONSTANTS x1, x2, c1, c2, k1, r1, r2

Interchangeable == Permutations(Requests) \cup Permutations(Secrets) \cup Permutations(Codes)
=============================================================================
