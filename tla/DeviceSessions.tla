--------------------------- MODULE DeviceSessions ---------------------------
(***************************************************************************)
(* The devices of a user: the session tokens of the hosted pages and the    *)
(* refresh tokens of the clients, grouped by user agent and network, and    *)
(* the ways to sign them out, while POST /token redeems grants.  A request  *)
(* of the dashboard commits every DELETE by itself.                         *)
(***************************************************************************)
EXTENDS TokenEndpoint

CONSTANTS Sessions     \* the ids of session tokens: as many as a run has room for

VARIABLES
    session,     \* session[s]: the row s of session_tokens
    revoking,    \* revoking[u]: the tokens that DeviceSessionsService.revoke has yet to delete
    sweeping     \* the users whose sign-out has not come to the refresh tokens yet

deviceVars == <<session, revoking, sweeping>>
vars == <<users, codes, refresh, request, sent, origin, issued, lapsed, overlapped,
          session, revoking, sweeping>>

SessionRow == [user: Users, agent: Agents, net: Nets]
Token == [kind: {"session"}, id: Sessions] \cup [kind: {"refresh"}, id: Tokens]

TypeOK ==
    /\ TokenTypeOK
    /\ session \in [Sessions -> SessionRow \cup {Unused, Deleted}]
    /\ revoking \in [Users -> SUBSET Token]
    /\ sweeping \subseteq Users

Init ==
    /\ TokenInit
    /\ session = [s \in Sessions |-> Unused]
    /\ revoking = [u \in Users |-> {}]
    /\ sweeping = {}

-----------------------------------------------------------------------------
(* Session tokens.                                                           *)

LiveSession(s) == session[s] \notin {Unused, Deleted}

\* create_session_token.
SignIn(u) ==
    /\ u \in users
    /\ \E s \in Sessions, a \in Agents, n \in Nets :
          /\ session[s] = Unused
          /\ session' = [session EXCEPT ![s] = [user |-> u, agent |-> a, net |-> n]]
    /\ UNCHANGED <<tokenVars, revoking, sweeping>>

\* get_session_token: touch_last_seen, from whichever network the request comes.
Visit(s) ==
    /\ LiveSession(s)
    /\ \E n \in Nets : session' = [session EXCEPT ![s].net = n]
    /\ UNCHANGED <<tokenVars, revoking, sweeping>>

\* Logout, or the end of the lifetime.
EndSession(s) ==
    /\ LiveSession(s)
    /\ session' = [session EXCEPT ![s] = Deleted]
    /\ UNCHANGED <<tokenVars, revoking, sweeping>>

-----------------------------------------------------------------------------
(* list_for_user and revoke.                                                 *)

SignedIn(u) == \E s \in Sessions : LiveSession(s) /\ session[s].user = u

\* One row of the list: the tokens of u with one agent and one network.
Device(u, a, n) ==
    {[kind |-> "session", id |-> s] :
        s \in {s \in Sessions : session[s] = [user |-> u, agent |-> a, net |-> n]}}
    \cup {[kind |-> "refresh", id |-> t] :
        t \in {t \in Tokens : /\ LiveToken(t) /\ refresh[t].user = u
                              /\ refresh[t].agent = a /\ refresh[t].net = n}}

Devices(u) == {Device(u, a, n) : a \in Agents, n \in Nets} \ {{}}

(* DELETE of a device_key, which is a hash of the ids of the tokens: it is a *)
(* 404 unless the device still has the tokens that were shown, and no other. *)
Revoke(u) ==
    /\ SignedIn(u)
    /\ revoking[u] = {}
    /\ \E device \in Devices(u) : revoking' = [revoking EXCEPT ![u] = device]
    /\ UNCHANGED <<tokenVars, session, sweeping>>

Sessional(tokens) == {x \in tokens : x.kind = "session"}

\* delete_by_id_for_user, for the sessions first and the refresh tokens then.
RevokeOne(u) ==
    /\ \E x \in revoking[u] :
          /\ revoking' = [revoking EXCEPT ![u] = @ \ {x}]
          /\ IF x.kind = "session"
             THEN /\ session' = [session EXCEPT ![x.id] = Deleted]
                  /\ UNCHANGED refresh
             ELSE /\ Sessional(revoking[u]) = {}
                  /\ Forget({x.id})
                  /\ UNCHANGED session
    /\ UNCHANGED <<users, codes, request, sent, origin, issued, lapsed, overlapped,
                   sweeping>>

-----------------------------------------------------------------------------
(* sign_out_others and auto_revoke_others, on behalf of the session s.       *)

SignOutOthers(s) ==
    /\ LiveSession(s)
    /\ session[s].user \notin sweeping
    /\ session' = [o \in Sessions |->
                      IF LiveSession(o) /\ session[o].user = session[s].user /\ o # s
                      THEN Deleted ELSE session[o]]
    /\ sweeping' = sweeping \cup {session[s].user}
    /\ UNCHANGED <<tokenVars, revoking>>

\* The refresh tokens of an agent that is still signed in are spared.
BugSweep(u) ==
    /\ u \in sweeping
    /\ Forget({t \in Tokens :
                 /\ LiveToken(t) /\ refresh[t].user = u
                 /\ ~ \E s \in Sessions : LiveSession(s) /\ session[s].agent = refresh[t].agent})
    /\ sweeping' = sweeping \ {u}
    /\ UNCHANGED <<users, codes, request, sent, origin, issued, lapsed, overlapped,
                   session, revoking>>

\* delete_all_except_for_user(user_id, []): every refresh token of u.
Sweep(u) ==
    /\ u \in sweeping
    /\ Forget({t \in Tokens : LiveToken(t) /\ refresh[t].user = u})
    /\ sweeping' = sweeping \ {u}
    /\ UNCHANGED <<users, codes, request, sent, origin, issued, lapsed, overlapped,
                   session, revoking>>

-----------------------------------------------------------------------------
\* The sessions of a user who is deleted go with the user.
Cascades ==
    session' = [s \in Sessions |->
                   IF LiveSession(s) /\ session[s].user \notin users' THEN Deleted ELSE session[s]]

Next ==
    \/ TokenNext /\ Cascades /\ UNCHANGED <<revoking, sweeping>>
    \/ \E u \in Users :
          SignIn(u) \/ Revoke(u) \/ RevokeOne(u) \/ Sweep(u)
    \/ \E s \in Sessions : Visit(s) \/ EndSession(s) \/ SignOutOthers(s)

Spec == Init /\ [][Next]_vars

-----------------------------------------------------------------------------
(* Properties.                                                               *)

(* Signing out everywhere else reaches every client that is at rest: a       *)
(* family of refresh tokens that no request is redeeming, and whose code is  *)
(* spent, has no grant left once the refresh tokens have been swept.         *)
SignOutReaches ==
    [][\A u \in sweeping \ sweeping' : \A k \in Codes :
          codes[k] = Deleted /\ origin[k].user = u /\ ~Underway(k) => Grants(k)' = {}]_vars
=============================================================================
