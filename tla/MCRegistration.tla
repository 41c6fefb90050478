---------------------------- MODULE MCRegistration ----------------------------
(* An instance of Registration for TLC.                                       *)
EXTENDS Registration, TLC

CONSTANTS u1, u2, o1, s1, s2, f1, q1, q2, ann, bob

Interchangeable ==
    Permutations(Users) \cup Permutations(OAuthAccounts) \cup Permutations(Sessions)
        \cup Permutations(Flows) \cup Permutations(Requests) \cup Permutations(Addresses)
=============================================================================
