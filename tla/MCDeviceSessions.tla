-------------------------- MODULE MCDeviceSessions --------------------------
(* Instances of DeviceSessions, and of the token endpoint in it, for TLC.    *)
EXTENDS DeviceSessions, TLC

CONSTANTS u1, c1, openid, offline, a1, n1, n2, p1, p2, s1, s2, k1, t1, t2

\* A code with a challenge that can be refreshed, and one with neither.
TwoConsents == {<<c1, {offline}, TRUE>>, <<c1, {openid}, FALSE>>}

\* The client calls from one place; the browser roams.
OneNet == p1 :> <<a1, n1>> @@ p2 :> <<a1, n1>>

SymIds == Permutations(Requests) \cup Permutations(Sessions) \cup Permutations(Tokens)
=============================================================================
