--------------------------- MODULE TokenEndpoint ---------------------------
(***************************************************************************)
(* The grants that POST /token redeems, authorization codes and refresh     *)
(* tokens, with the requests in flight.  Every action is one commit, or one *)
(* read that later steps of its request rely on: the row of a grant is read *)
(* by validate_grant_request, and deleted by the same generator after its   *)
(* yield, when the response has been sent.                                  *)
(*                                                                         *)
(* The device columns of a refresh token (user agent, network) are kept,    *)
(* since DeviceSessions groups by them; nonce, hashes and claims are not.   *)
(***************************************************************************)
EXTENDS FiniteSets, Naturals

CONSTANTS
    Users, Clients, Scopes, Agents, Nets,
    Public,          \* the public clients: no secret, PKCE for every code
    Offline,         \* the scope offline_access
    Requests,        \* requests to /token that may be in flight together
    From,            \* From[p]: the <<agent, net>> that the request p comes from
    \* Bounds of the model.
    Consents,        \* the <<client, scope, pkce>> that the codes are issued for
    Mishaps,         \* what may happen: "expire", "crash", "delete"
    Codes, Tokens    \* the ids of codes and of refresh tokens, each used once

ASSUME TokenAssumption ==
    /\ Public \subseteq Clients
    /\ Offline \in Scopes
    /\ From \in [Requests -> Agents \X Nets]
    /\ Consents \subseteq Clients \X (SUBSET Scopes) \X BOOLEAN

VARIABLES
    users,       \* the users that exist
    codes,       \* codes[k]: the row k of authorization_codes
    refresh,     \* refresh[t]: the row t of refresh_tokens
    request,     \* request[p]: how far the request p has come
    sent,        \* history: the codes whose redirect was sent to the client
    origin,      \* history: origin[k], the row that the code k was inserted with
    issued,      \* history: what the answers of /token stand for
    lapsed,      \* history: the codes that have expired
    overlapped   \* history: the families redeemed twice at once, or cut off

tokenVars == <<users, codes, refresh, request, sent, origin, issued, lapsed, overlapped>>

Unused == [state |-> "unused"]
Deleted == [state |-> "deleted"]
CodeRow == [user: Users, client: Clients, scope: SUBSET Scopes,
            pkce: BOOLEAN, bound: BOOLEAN]
TokenRow == [user: Users, client: Clients, scope: SUBSET Scopes, family: Codes,
             agent: Agents, net: Nets]
Idle == [step |-> "idle"]
Verifier == {"absent", "right", "wrong"}
Grant == [grant: {"code"}, id: Codes] \cup [grant: {"refresh"}, id: Tokens]
Busy == [step: {"user", "touch", "mint", "burn"}, of: Grant, family: Codes,
         user: Users, client: Clients, scope: SUBSET Scopes, verifier: Verifier]
Answer == [grant: {"code", "refresh"}, family: Codes, user: Users, client: Clients,
           scope: SUBSET Scopes, verifier: Verifier]

TokenTypeOK ==
    /\ users \subseteq Users
    /\ codes \in [Codes -> CodeRow \cup {Unused, Deleted}]
    /\ refresh \in [Tokens -> TokenRow \cup {Unused, Deleted}]
    /\ request \in [Requests -> Busy \cup {Idle}]
    /\ sent \subseteq Codes
    /\ origin \in [Codes -> CodeRow \cup {Unused}]
    /\ issued \subseteq Answer
    /\ lapsed \subseteq Codes
    /\ overlapped \subseteq Codes

TokenInit ==
    /\ users = Users
    /\ codes = [k \in Codes |-> Unused]
    /\ refresh = [t \in Tokens |-> Unused]
    /\ request = [p \in Requests |-> Idle]
    /\ sent = {}
    /\ origin = [k \in Codes |-> Unused]
    /\ issued = {}
    /\ lapsed = {}
    /\ overlapped = {}

-----------------------------------------------------------------------------
(* /consent issues a code: one commit inserts the row without its challenge, *)
(* the commit of delete_login_session adds it, and the redirect is sent.  The *)
(* session that /consent has read may be gone by now.                        *)

LiveCode(k) == codes[k] \notin {Unused, Deleted}
LiveToken(t) == refresh[t] \notin {Unused, Deleted}

NewCode(u, consent) ==
    [user |-> u, client |-> consent[1], scope |-> consent[2], pkce |-> consent[3],
     bound |-> FALSE]

InsertCode(u) ==
    /\ u \in users
    /\ \E k \in Codes, consent \in Consents :
          /\ codes[k] = Unused
          /\ codes' = [codes EXCEPT ![k] = NewCode(u, consent)]
          /\ origin' = [origin EXCEPT ![k] = NewCode(u, consent)]
    /\ UNCHANGED <<users, refresh, request, sent, issued, lapsed, overlapped>>

\* The redirect leaves before anything has flushed the challenge.
BugSendCode(k) ==
    /\ LiveCode(k) /\ k \notin sent
    /\ sent' = sent \cup {k}
    /\ UNCHANGED <<users, codes, refresh, request, origin, issued, lapsed, overlapped>>

SendCode(k) ==
    /\ LiveCode(k) /\ k \notin sent
    /\ codes' = [codes EXCEPT ![k].bound = codes[k].pkce]
    /\ sent' = sent \cup {k}
    /\ UNCHANGED <<users, refresh, request, origin, issued, lapsed, overlapped>>

-----------------------------------------------------------------------------
(* validate_grant_request, up to its yield.  What it refuses changes nothing *)
(* and is no action.                                                         *)

InFlight(k) == \E p \in Requests : request[p] # Idle /\ request[p].family = k

\* The request p sets out to redeem a grant of the family k.
SetsOut(p, busy) ==
    /\ request' = [request EXCEPT ![p] = busy]
    /\ overlapped' = IF InFlight(busy.family) THEN overlapped \cup {busy.family}
                     ELSE overlapped

\* The verifier must match the challenge, and be absent where there is none.
Proves(row, verifier) == verifier = IF row.bound THEN "right" ELSE "absent"

\* authenticate_client: a public client has to bring a verifier for a code.
Authenticates(client, verifier) == client \in Public => verifier # "absent"

\* What the yield hands to the handler.
CodeRequest(k, v) ==
    [step |-> "user", of |-> [grant |-> "code", id |-> k], family |-> k,
     user |-> codes[k].user, client |-> codes[k].client,
     scope |-> codes[k].scope, verifier |-> v]

TokenRequest(t, scope) ==
    [step |-> "user", of |-> [grant |-> "refresh", id |-> t], family |-> refresh[t].family,
     user |-> refresh[t].user, client |-> refresh[t].client,
     scope |-> scope, verifier |-> "absent"]

ValidateCode(p) ==
    /\ request[p] = Idle
    /\ \E k \in sent, v \in Verifier :
          /\ LiveCode(k)
          /\ Authenticates(codes[k].client, v)
          /\ Proves(codes[k], v)
          /\ SetsOut(p, CodeRequest(k, v))
    /\ UNCHANGED <<users, codes, refresh, sent, origin, issued, lapsed>>

\* The scope of the request is not compared with the scope of the token.
BugValidateToken(p) ==
    /\ request[p] = Idle
    /\ \E t \in Tokens, scope \in SUBSET Scopes :
          /\ LiveToken(t)
          /\ SetsOut(p, TokenRequest(t, scope))
    /\ UNCHANGED <<users, codes, refresh, sent, origin, issued, lapsed>>

ValidateToken(p) ==
    /\ request[p] = Idle
    /\ \E t \in Tokens, scope \in SUBSET Scopes :
          /\ LiveToken(t)
          /\ scope \subseteq refresh[t].scope
          /\ SetsOut(p, TokenRequest(t, scope))
    /\ UNCHANGED <<users, codes, refresh, sent, origin, issued, lapsed>>

-----------------------------------------------------------------------------
(* The handler.                                                              *)

Steps(p, step) == request' = [request EXCEPT ![p].step = step]
Ends(p) == request' = [request EXCEPT ![p] = Idle]

NewToken(p) ==
    [user |-> request[p].user, client |-> request[p].client, scope |-> request[p].scope,
     family |-> request[p].family, agent |-> From[p][1], net |-> From[p][2]]

\* get_user_from_grant_request: invalid_grant once the user is gone, and the
\* exception goes through the yield, past the deletion of the grant.
FindUser(p) ==
    /\ request[p] # Idle /\ request[p].step = "user"
    /\ IF request[p].user \notin users THEN Ends(p)
       ELSE Steps(p, IF request[p].of.grant = "refresh" THEN "touch" ELSE "mint")
    /\ UNCHANGED <<users, codes, refresh, sent, origin, issued, lapsed, overlapped>>

\* The row is merged back, whether or not it is still there.
BugTouch(p) ==
    /\ request[p] # Idle /\ request[p].step = "touch"
    /\ Steps(p, "mint")
    /\ refresh' = [refresh EXCEPT ![request[p].of.id] = NewToken(p)]
    /\ UNCHANGED <<users, codes, sent, origin, issued, lapsed, overlapped>>

\* touch_last_seen: an UPDATE, which finds nothing where the row is gone.
Touch(p) ==
    /\ request[p] # Idle /\ request[p].step = "touch"
    /\ Steps(p, "mint")
    /\ refresh' = IF LiveToken(request[p].of.id)
                  THEN [refresh EXCEPT ![request[p].of.id].net = From[p][2]]
                  ELSE refresh
    /\ UNCHANGED <<users, codes, sent, origin, issued, lapsed, overlapped>>

Stands(p) == [grant |-> request[p].of.grant, family |-> request[p].family,
              user |-> request[p].user, client |-> request[p].client,
              scope |-> request[p].scope, verifier |-> request[p].verifier]

\* The tokens are signed, a new refresh token is inserted for offline_access,
\* and the response is sent.
Respond(p) ==
    /\ request[p] # Idle /\ request[p].step = "mint"
    /\ IF Offline \notin request[p].scope THEN UNCHANGED refresh
       ELSE \E t \in Tokens :
               /\ request[p].user \in users
               /\ refresh[t] = Unused
               /\ refresh' = [refresh EXCEPT ![t] = NewToken(p)]
    /\ issued' = issued \cup {Stands(p)}
    /\ Steps(p, "burn")
    /\ UNCHANGED <<users, codes, sent, origin, lapsed, overlapped>>

\* The INSERT of a refresh token for a user who is gone: a 503.
RespondOrphan(p) ==
    /\ request[p] # Idle /\ request[p].step = "mint"
    /\ Offline \in request[p].scope /\ request[p].user \notin users
    /\ Ends(p)
    /\ UNCHANGED <<users, codes, refresh, sent, origin, issued, lapsed, overlapped>>

\* A refresh token is left where it is: the code only is for one use.
BugBurn(p) ==
    /\ request[p] # Idle /\ request[p].step = "burn"
    /\ codes' = IF request[p].of.grant = "code"
                THEN [codes EXCEPT ![request[p].of.id] = Deleted] ELSE codes
    /\ Ends(p)
    /\ UNCHANGED <<users, refresh, sent, origin, issued, lapsed, overlapped>>

\* After the yield: the grant is deleted, if it is still there.
Burn(p) ==
    /\ request[p] # Idle /\ request[p].step = "burn"
    /\ IF request[p].of.grant = "code"
       THEN codes' = [codes EXCEPT ![request[p].of.id] = Deleted] /\ UNCHANGED refresh
       ELSE refresh' = [refresh EXCEPT ![request[p].of.id] = Deleted] /\ UNCHANGED codes
    /\ Ends(p)
    /\ UNCHANGED <<users, sent, origin, issued, lapsed, overlapped>>

-----------------------------------------------------------------------------
(* Mishaps.                                                                  *)

\* The grant is burnt in a finally clause.
BugCutOff(p) ==
    /\ "crash" \in Mishaps
    /\ request[p] # Idle
    /\ Ends(p)
    /\ overlapped' = IF request[p].step = "burn" THEN overlapped \cup {request[p].family}
                     ELSE overlapped
    /\ IF request[p].of.grant = "code"
       THEN codes' = [codes EXCEPT ![request[p].of.id] = Deleted] /\ UNCHANGED refresh
       ELSE refresh' = [refresh EXCEPT ![request[p].of.id] = Deleted] /\ UNCHANGED codes
    /\ UNCHANGED <<users, sent, origin, issued, lapsed>>

\* The process dies, or a statement fails: what is committed stays.
CutOff(p) ==
    /\ "crash" \in Mishaps
    /\ request[p] # Idle
    /\ Ends(p)
    /\ overlapped' = IF request[p].step = "burn" THEN overlapped \cup {request[p].family}
                     ELSE overlapped
    /\ UNCHANGED <<users, codes, refresh, sent, origin, issued, lapsed>>

\* An expired grant is never found again, and the clean-up deletes it.
ExpireCode(k) ==
    /\ "expire" \in Mishaps
    /\ LiveCode(k)
    /\ codes' = [codes EXCEPT ![k] = Deleted]
    /\ lapsed' = lapsed \cup {k}
    /\ UNCHANGED <<users, refresh, request, sent, origin, issued, overlapped>>

ExpireToken(t) ==
    /\ "expire" \in Mishaps
    /\ LiveToken(t)
    /\ refresh' = [refresh EXCEPT ![t] = Deleted]
    /\ UNCHANGED <<users, codes, request, sent, origin, issued, lapsed, overlapped>>

\* An administrator deletes a user: the foreign keys cascade.
DeleteUser(u) ==
    /\ "delete" \in Mishaps
    /\ u \in users
    /\ users' = users \ {u}
    /\ codes' = [k \in Codes |-> IF LiveCode(k) /\ codes[k].user = u THEN Deleted ELSE codes[k]]
    /\ refresh' = [t \in Tokens |->
                      IF LiveToken(t) /\ refresh[t].user = u THEN Deleted ELSE refresh[t]]
    /\ UNCHANGED <<request, sent, origin, issued, lapsed, overlapped>>

-----------------------------------------------------------------------------
(* What other parts of the system do to refresh tokens: they delete them.    *)

Forget(tokens) ==
    refresh' = [t \in Tokens |-> IF t \in tokens /\ LiveToken(t) THEN Deleted ELSE refresh[t]]

Evict ==
    /\ \E tokens \in SUBSET Tokens : Forget(tokens)
    /\ UNCHANGED <<users, codes, request, sent, origin, issued, lapsed, overlapped>>

TokenNext ==
    \/ \E u \in Users : InsertCode(u) \/ DeleteUser(u)
    \/ \E k \in Codes : SendCode(k) \/ ExpireCode(k)
    \/ \E t \in Tokens : ExpireToken(t)
    \/ \E p \in Requests :
          \/ ValidateCode(p) \/ ValidateToken(p) \/ FindUser(p) \/ Touch(p)
          \/ Respond(p) \/ RespondOrphan(p) \/ Burn(p) \/ CutOff(p)

\* The token endpoint in any system that does no more than Evict.
TokenSpec == TokenInit /\ [][TokenNext \/ Evict]_tokenVars

-----------------------------------------------------------------------------
(* Properties.                                                               *)

\* The grants of the family k that the table holds.
Grants(k) ==
    {<<"code", l>> : l \in {l \in Codes : l = k /\ LiveCode(l)}}
        \cup {<<"refresh", t>> : t \in {t \in Tokens : LiveToken(t) /\ refresh[t].family = k}}

\* A request has read a grant of the family k, and has not answered yet.
Underway(k) ==
    \E p \in Requests :
        request[p] # Idle /\ request[p].family = k /\ request[p].step # "burn"

Dead(k) == codes[k] = Deleted /\ Grants(k) = {} /\ ~Underway(k)

(* Every answer of /token stands for a consent: it goes to the client and    *)
(* the user of the code that the chain of refresh tokens goes back to, with  *)
(* no scope that was not consented to, however often it was refreshed        *)
(* (validate_grant_request, the row that the handler inserts).               *)
AnswersWithinConsent ==
    \A i \in issued :
        /\ origin[i.family] # Unused
        /\ i.user = origin[i.family].user /\ i.client = origin[i.family].client
        /\ i.scope \subseteq origin[i.family].scope

(* A code that was asked for with a challenge is never redeemed without the  *)
(* verifier, although its row is inserted without the challenge at first     *)
(* (get_authorization_code_success_redirect, delete_login_session).          *)
PkceHolds ==
    \A i \in issued : i.grant = "code" /\ origin[i.family].pkce => i.verifier = "right"

(* One consent has one grant, its code or the latest refresh token, as long  *)
(* as no two requests redeem it at once and none is cut off between its      *)
(* answer and the deletion: only a request that has answered holds a second. *)
NoFork ==
    \A k \in Codes \ overlapped :
        Cardinality(Grants(k)) <=
            IF \E p \in Requests : request[p] # Idle /\ request[p].family = k
                                      /\ request[p].step = "burn"
            THEN 2 ELSE 1

(* A code that was sent to its client is spent by an answer only: refused,   *)
(* failed and interrupted requests leave it for a retry.                     *)
UnansweredKept ==
    \A k \in sent \ lapsed :
        codes[k] = Deleted /\ origin[k].user \in users => \E i \in issued : i.family = k

(* What is gone stays gone: the row of a refresh token is never written      *)
(* again, and a family without a grant, and without a request that has read  *)
(* one, gets neither a grant nor an answer any more.                         *)
StaysDead ==
    [][/\ \A t \in Tokens : refresh[t] = Deleted => refresh'[t] = Deleted
       /\ \A k \in Codes : Dead(k) =>
             Dead(k)' /\ \A i \in issued' : i.family = k => i \in issued]_tokenVars
=============================================================================
