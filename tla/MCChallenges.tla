----------------------------- MODULE MCChallenges -----------------------------
(* An instance of Challenges for TLC.                                         *)
EXTENDS Challenges, TLC

CONSTANTS q1, q2, k1, n1, n2, n3

Interchangeable == Permutations(Requests) \cup Permutations(Nonces)
=============================================================================
