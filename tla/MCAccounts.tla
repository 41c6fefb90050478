----------------------------- MODULE MCAccounts ------------------------------
(* An instance of Accounts for TLC.                                           *)
EXTENDS Accounts, TLC

CONSTANTS u1, u2, w1, w2, q1, q2, ann, bob

MCLower == [e \in {ann, bob} |-> e]
Interchangeable == Permutations(Requests) \cup Permutations(Words) \cup Permutations(Users)
                   \cup Permutations(Addresses)
=============================================================================
