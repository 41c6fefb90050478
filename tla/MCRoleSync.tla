----------------------------- MODULE MCRoleSync ------------------------------
(* An instance of RoleSync for TLC.                                          *)
EXTENDS RoleSync, TLC

CONSTANTS u1, u2, r1, r2, p1, p2, q1, q2, w1, w2

MCDirect == Users \X Permissions
Interchangeable == Permutations(Users) \cup Permutations(Permissions)
                   \cup Permutations(Requests) \cup Permutations(Workers) \cup Permutations(Roles)
=============================================================================
