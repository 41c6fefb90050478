------------------------ MODULE DeviceSessionsProofs ------------------------
(***************************************************************************)
(* Theorems of the token endpoint and of the device list, for any number of *)
(* users, sessions, codes, tokens, clients and requests in flight.  What    *)
(* holds of the endpoint is proved in any system that deletes refresh       *)
(* tokens under its hands (Evict); signing devices out does no more.        *)
(***************************************************************************)
EXTENDS DeviceSessions, FiniteSetTheorems, TLAPS


-----------------------------------------------------------------------------
(* Rows and requests.                                                       *)

\* The marks of an absent row, and of an idle request, are no rows.
LEMMA Marks ==
    /\ Unused # Deleted
    /\ Unused \notin CodeRow /\ Deleted \notin CodeRow
    /\ Unused \notin TokenRow /\ Deleted \notin TokenRow
    /\ Idle \notin Busy
<1>1. Unused # Deleted
    BY DEF Unused, Deleted
<1>2. Unused \notin CodeRow /\ Deleted \notin CodeRow
    BY DEF Unused, Deleted, CodeRow
<1>3. Unused \notin TokenRow /\ Deleted \notin TokenRow
    BY DEF Unused, Deleted, TokenRow
<1>4. Idle \notin Busy
    BY DEF Idle, Busy
<1> QED BY <1>1, <1>2, <1>3, <1>4

\* What a request carries.
LEMMA BusyRequest ==
    ASSUME TokenTypeOK, NEW p \in Requests, request[p] # Idle
    PROVE  /\ request[p] \in Busy
           /\ request[p].step \in {"user", "touch", "mint", "burn"}
           /\ request[p].family \in Codes
           /\ request[p].user \in Users
           /\ request[p].client \in Clients
           /\ request[p].scope \in SUBSET Scopes
           /\ request[p].verifier \in Verifier
           /\ request[p].of \in Grant
           /\ request[p].of.grant \in {"code", "refresh"}
           /\ request[p].of.grant = "code" => request[p].of.id \in Codes
           /\ request[p].of.grant = "refresh" => request[p].of.id \in Tokens
<1>1. request[p] \in Busy
    BY DEF TokenTypeOK
<1>2. request[p].of \in Grant
    BY <1>1 DEF Busy
<1>3. /\ request[p].of.grant \in {"code", "refresh"}
      /\ request[p].of.grant = "code" => request[p].of.id \in Codes
      /\ request[p].of.grant = "refresh" => request[p].of.id \in Tokens
    BY <1>2 DEF Grant
<1> QED BY <1>1, <1>2, <1>3 DEF Busy

\* A step of a request keeps all else that it carries.
LEMMA StepsTo ==
    ASSUME TokenTypeOK, NEW p \in Requests, request[p] # Idle,
           NEW step \in {"user", "touch", "mint", "burn"}, Steps(p, step)
    PROVE  /\ request' \in [Requests -> Busy \cup {Idle}]
           /\ request'[p] # Idle /\ request'[p].step = step
           /\ request'[p].of = request[p].of
           /\ request'[p].family = request[p].family
           /\ request'[p].user = request[p].user
           /\ request'[p].client = request[p].client
           /\ request'[p].scope = request[p].scope
           /\ request'[p].verifier = request[p].verifier
           /\ \A q \in Requests : q # p => request'[q] = request[q]
<1> DEFINE new == [request[p] EXCEPT !.step = step]
<1>1. request[p] \in Busy
    BY BusyRequest
<1>2. new \in Busy
    BY <1>1 DEF Busy
<1>3. /\ new.step = step
      /\ new.of = request[p].of /\ new.family = request[p].family
      /\ new.user = request[p].user /\ new.client = request[p].client
      /\ new.scope = request[p].scope /\ new.verifier = request[p].verifier
    BY <1>1 DEF Busy
<1>4. request' = [request EXCEPT ![p] = new]
    BY DEF Steps
<1> HIDE DEF new
<1>5. request' \in [Requests -> Busy \cup {Idle}]
    BY <1>2, <1>4 DEF TokenTypeOK
<1>6. request'[p] = new /\ \A q \in Requests : q # p => request'[q] = request[q]
    BY <1>4 DEF TokenTypeOK
<1> QED BY <1>2, <1>3, <1>5, <1>6, Marks

\* A request that ends leaves the others alone.
LEMMA EndsIdle ==
    ASSUME TokenTypeOK, NEW p \in Requests, Ends(p)
    PROVE  /\ request' \in [Requests -> Busy \cup {Idle}]
           /\ request'[p] = Idle
           /\ \A q \in Requests : q # p => request'[q] = request[q]
BY DEF TokenTypeOK, Ends

\* A request that sets out carries what it has read.
LEMMA SetOut ==
    ASSUME TokenTypeOK, NEW p \in Requests, NEW busy \in Busy, SetsOut(p, busy)
    PROVE  /\ request' \in [Requests -> Busy \cup {Idle}]
           /\ request'[p] = busy
           /\ \A q \in Requests : q # p => request'[q] = request[q]
           /\ overlapped' \in SUBSET Codes
           /\ overlapped \subseteq overlapped'
<1>1. busy.family \in Codes
    BY DEF Busy
<1> QED BY <1>1 DEF TokenTypeOK, SetsOut

LEMMA NewCodeType ==
    ASSUME NEW u \in Users, NEW consent \in Consents
    PROVE  NewCode(u, consent) \in CodeRow
<1>1. consent[1] \in Clients /\ consent[2] \in SUBSET Scopes /\ consent[3] \in BOOLEAN
    BY TokenAssumption
<1> QED BY <1>1 DEF NewCode, CodeRow

LEMMA CodeRequestType ==
    ASSUME TokenTypeOK, NEW k \in Codes, NEW v \in Verifier, LiveCode(k)
    PROVE  CodeRequest(k, v) \in Busy
<1>1. codes[k] \in CodeRow
    BY DEF TokenTypeOK, LiveCode
<1> QED BY <1>1 DEF CodeRequest, Busy, Grant, CodeRow

LEMMA TokenRequestType ==
    ASSUME TokenTypeOK, NEW t \in Tokens, NEW scope \in SUBSET Scopes, LiveToken(t)
    PROVE  TokenRequest(t, scope) \in Busy
<1>1. refresh[t] \in TokenRow
    BY DEF TokenTypeOK, LiveToken
<1> QED BY <1>1 DEF TokenRequest, Busy, Grant, TokenRow, Verifier

LEMMA NewTokenType ==
    ASSUME TokenTypeOK, NEW p \in Requests, request[p] # Idle
    PROVE  NewToken(p) \in TokenRow
<1>1. From[p][1] \in Agents /\ From[p][2] \in Nets
    BY TokenAssumption
<1> QED BY <1>1, BusyRequest DEF NewToken, TokenRow

-----------------------------------------------------------------------------
(* Types.                                                                   *)

\* What is forgotten is deleted, and nothing else is touched.
LEMMA ForgetType ==
    ASSUME TokenTypeOK, NEW tokens, Forget(tokens)
    PROVE  refresh' \in [Tokens -> TokenRow \cup {Unused, Deleted}]
BY DEF TokenTypeOK, Forget

LEMMA TypeStep ==
    ASSUME TokenTypeOK, [TokenNext \/ Evict]_tokenVars
    PROVE  TokenTypeOK'
<1> USE DEF TokenTypeOK
<1>1. ASSUME NEW u \in Users, InsertCode(u) PROVE TokenTypeOK'
    BY <1>1, NewCodeType DEF InsertCode
<1>2. ASSUME NEW k \in Codes, SendCode(k) PROVE TokenTypeOK'
    <2>1. codes[k] \in CodeRow
        BY <1>2 DEF SendCode, LiveCode
    <2>2. [codes[k] EXCEPT !.bound = codes[k].pkce] \in CodeRow
        BY <2>1 DEF CodeRow
    <2>3. codes' = [codes EXCEPT ![k] = [codes[k] EXCEPT !.bound = codes[k].pkce]]
        BY <1>2 DEF SendCode
    <2> QED BY <1>2, <2>2, <2>3 DEF SendCode
<1>3. ASSUME NEW p \in Requests, ValidateCode(p) PROVE TokenTypeOK'
    <2>1. PICK k \in sent, v \in Verifier : LiveCode(k) /\ SetsOut(p, CodeRequest(k, v))
        BY <1>3 DEF ValidateCode
    <2>2. CodeRequest(k, v) \in Busy
        BY <2>1, CodeRequestType
    <2> QED BY <1>3, <2>1, <2>2, SetOut DEF ValidateCode
<1>4. ASSUME NEW p \in Requests, ValidateToken(p) PROVE TokenTypeOK'
    <2>1. PICK t \in Tokens, scope \in SUBSET Scopes :
             LiveToken(t) /\ SetsOut(p, TokenRequest(t, scope))
        BY <1>4 DEF ValidateToken
    <2>2. TokenRequest(t, scope) \in Busy
        BY <2>1, TokenRequestType
    <2> QED BY <1>4, <2>1, <2>2, SetOut DEF ValidateToken
<1>5. ASSUME NEW p \in Requests, FindUser(p) PROVE TokenTypeOK'
    BY <1>5, StepsTo, EndsIdle DEF FindUser
<1>6. ASSUME NEW p \in Requests, Touch(p) PROVE TokenTypeOK'
    <2>1. From[p][2] \in Nets
        BY TokenAssumption
    <2>2. \A t \in Tokens : LiveToken(t) => [refresh[t] EXCEPT !.net = From[p][2]] \in TokenRow
        BY <2>1 DEF LiveToken, TokenRow
    <2>3. \A t \in Tokens : LiveToken(t) =>
             [refresh EXCEPT ![t].net = From[p][2]] \in [Tokens -> TokenRow \cup {Unused, Deleted}]
        BY <2>2
    <2>4. refresh' \in [Tokens -> TokenRow \cup {Unused, Deleted}]
        <3>1. CASE request[p].of.id \in Tokens
            BY <1>6, <2>3, <3>1 DEF Touch
        <3>2. CASE request[p].of.id \notin Tokens
            BY <1>6, <3>2 DEF Touch
        <3> QED BY <3>1, <3>2
    <2> QED BY <1>6, <2>4, StepsTo DEF Touch
<1>7. ASSUME NEW p \in Requests, Respond(p) PROVE TokenTypeOK'
    <2>1. NewToken(p) \in TokenRow
        BY <1>7, NewTokenType DEF Respond
    <2>2. refresh' \in [Tokens -> TokenRow \cup {Unused, Deleted}]
        BY <1>7, <2>1 DEF Respond
    <2>3. Stands(p) \in Answer
        BY <1>7, BusyRequest DEF Respond, Stands, Answer
    <2> QED BY <1>7, <2>2, <2>3, StepsTo DEF Respond
<1>8. ASSUME NEW p \in Requests, RespondOrphan(p) PROVE TokenTypeOK'
    BY <1>8, EndsIdle DEF RespondOrphan
<1>9. ASSUME NEW p \in Requests, Burn(p) PROVE TokenTypeOK'
    BY <1>9, EndsIdle DEF Burn
<1>10. ASSUME NEW p \in Requests, CutOff(p) PROVE TokenTypeOK'
    BY <1>10, EndsIdle, BusyRequest DEF CutOff
<1>11. ASSUME NEW k \in Codes, ExpireCode(k) PROVE TokenTypeOK'
    BY <1>11 DEF ExpireCode
<1>12. ASSUME NEW t \in Tokens, ExpireToken(t) PROVE TokenTypeOK'
    BY <1>12 DEF ExpireToken
<1>13. ASSUME NEW u \in Users, DeleteUser(u) PROVE TokenTypeOK'
    BY <1>13 DEF DeleteUser
<1>14. ASSUME Evict PROVE TokenTypeOK'
    BY <1>14, ForgetType DEF Evict
<1>15. ASSUME UNCHANGED tokenVars PROVE TokenTypeOK'
    BY <1>15 DEF tokenVars
<1> QED BY <1>1, <1>2, <1>3, <1>4, <1>5, <1>6, <1>7, <1>8, <1>9, <1>10, <1>11, <1>12,
           <1>13, <1>14, <1>15 DEF TokenNext

(* The rows, the requests and the answers are of the types declared, under   *)
(* every interleaving of the handlers.                                       *)
THEOREM TypeCorrect == TokenSpec => []TokenTypeOK
<1>1. TokenInit => TokenTypeOK
    BY DEF TokenInit, TokenTypeOK
<1>2. TokenTypeOK /\ [TokenNext \/ Evict]_tokenVars => TokenTypeOK'
    BY TypeStep
<1> QED BY <1>1, <1>2, PTL DEF TokenSpec

-----------------------------------------------------------------------------
(* The inductive invariant.  What a code, a token, a request or an answer    *)
(* says of the user, the client and the scope goes back to the code that was *)
(* inserted; a code has its challenge once it is sent; and a request that is *)
(* about to delete its grant has answered.                                   *)

Kin(row, k) ==
    /\ origin[k] # Unused
    /\ row.user = origin[k].user
    /\ row.client = origin[k].client
    /\ row.scope \subseteq origin[k].scope

CodesKin ==
    \A k \in Codes :
        /\ codes[k] = Unused <=> origin[k] = Unused
        /\ LiveCode(k) => Kin(codes[k], k) /\ codes[k].pkce = origin[k].pkce

SentBound == \A k \in sent : codes[k] # Unused /\ (LiveCode(k) => codes[k].bound = codes[k].pkce)

TokensKin == \A t \in Tokens : LiveToken(t) => Kin(refresh[t], refresh[t].family)

RequestKin(p) ==
    /\ Kin(request[p], request[p].family)
    /\ request[p].of.grant = "code" =>
          /\ request[p].of.id = request[p].family
          /\ origin[request[p].family].pkce => request[p].verifier = "right"
    /\ request[p].step = "burn" => \E i \in issued : i.family = request[p].family

RequestsKin == \A p \in Requests : request[p] # Idle => RequestKin(p)

Kinship ==
    /\ TokenTypeOK /\ CodesKin /\ SentBound /\ TokensKin /\ RequestsKin
    /\ AnswersWithinConsent /\ PkceHolds

-----------------------------------------------------------------------------
(* What a step may do to each of the tables, and to the requests.            *)

Step == [TokenNext \/ Evict]_tokenVars

\* A code is inserted, sent or deleted; the columns it was inserted with stay.
CodeStays(k) == codes'[k] = codes[k] /\ origin'[k] = origin[k] /\ (k \in sent' => k \in sent)
CodeGone(k) == codes'[k] = Deleted /\ codes[k] # Unused /\ origin'[k] = origin[k]
                  /\ (k \in sent' => k \in sent)
CodeInserted(k) ==
    /\ codes[k] = Unused /\ codes'[k] \in CodeRow /\ origin'[k] = codes'[k]
    /\ k \in sent' => k \in sent
CodeSent(k) ==
    /\ LiveCode(k) /\ codes'[k] \in CodeRow /\ origin'[k] = origin[k]
    /\ codes'[k].user = codes[k].user /\ codes'[k].client = codes[k].client
    /\ codes'[k].scope = codes[k].scope /\ codes'[k].pkce = codes[k].pkce
    /\ codes'[k].bound = codes[k].pkce

LEMMA CodesStep ==
    ASSUME TokenTypeOK, RequestsKin, CodesKin, Step, NEW k \in Codes
    PROVE  CodeStays(k) \/ CodeGone(k) \/ CodeInserted(k) \/ CodeSent(k)
<1> USE DEF CodeStays, CodeGone, CodeInserted, CodeSent
<1>1. ASSUME NEW u \in Users, InsertCode(u)
      PROVE  CodeStays(k) \/ CodeInserted(k)
    BY <1>1, NewCodeType DEF TokenTypeOK, InsertCode
<1>2. ASSUME NEW l \in Codes, SendCode(l)
      PROVE  CodeStays(k) \/ CodeSent(k)
    <2>1. CASE l = k
        <3>1. codes[k] \in CodeRow
            BY <1>2, <2>1 DEF SendCode, LiveCode, TokenTypeOK
        <3>2. codes'[k] = [codes[k] EXCEPT !.bound = codes[k].pkce]
            BY <1>2, <2>1 DEF SendCode, TokenTypeOK
        <3> QED BY <1>2, <2>1, <3>1, <3>2 DEF SendCode, CodeRow
    <2>2. CASE l # k
        BY <1>2, <2>2 DEF SendCode, TokenTypeOK
    <2> QED BY <2>1, <2>2
<1>3. ASSUME NEW p \in Requests, Burn(p)
      PROVE  CodeStays(k) \/ CodeGone(k)
    <2>1. request[p].of.grant = "code" => codes[request[p].of.id] # Unused
        BY <1>3 DEF Burn, RequestsKin, RequestKin, Kin, CodesKin, TokenTypeOK, Busy
    <2> QED BY <1>3, <2>1 DEF Burn, TokenTypeOK
<1>4. ASSUME NEW l \in Codes, ExpireCode(l)
      PROVE  CodeStays(k) \/ CodeGone(k)
    BY <1>4 DEF ExpireCode, LiveCode, TokenTypeOK
<1>5. ASSUME NEW u \in Users, DeleteUser(u)
      PROVE  CodeStays(k) \/ CodeGone(k)
    BY <1>5 DEF DeleteUser, LiveCode
<1>6. ASSUME NEW p \in Requests,
             ValidateCode(p) \/ ValidateToken(p) \/ FindUser(p) \/ Touch(p) \/ Respond(p)
                \/ RespondOrphan(p) \/ CutOff(p)
      PROVE  CodeStays(k)
    BY <1>6 DEF ValidateCode, ValidateToken, FindUser, Touch, Respond, RespondOrphan, CutOff
<1>7. ASSUME Evict \/ UNCHANGED tokenVars \/ \E t \in Tokens : ExpireToken(t)
      PROVE  CodeStays(k)
    BY <1>7 DEF Evict, tokenVars, ExpireToken
<1> QED BY <1>1, <1>2, <1>3, <1>4, <1>5, <1>6, <1>7 DEF Step, TokenNext

\* A refresh token is minted or deleted; all but its device columns stay.
TokenGone(t) == refresh'[t] = Deleted
TokenKept(t) ==
    /\ LiveToken(t) /\ refresh'[t] \in TokenRow
    /\ refresh'[t].user = refresh[t].user /\ refresh'[t].client = refresh[t].client
    /\ refresh'[t].scope = refresh[t].scope /\ refresh'[t].family = refresh[t].family
TokenMinted(t) ==
    \E p \in Requests : request[p] # Idle /\ request[p].step = "mint"
                        /\ refresh[t] = Unused /\ refresh'[t] = NewToken(p)

LEMMA TokensStep ==
    ASSUME TokenTypeOK, Step, NEW t \in Tokens
    PROVE  refresh'[t] = refresh[t] \/ TokenGone(t) \/ TokenKept(t) \/ TokenMinted(t)
<1> USE DEF TokenGone, TokenKept, TokenMinted
<1>1. ASSUME NEW p \in Requests, Touch(p)
      PROVE  refresh'[t] = refresh[t] \/ TokenKept(t)
    <2>1. CASE request[p].of.id = t /\ LiveToken(t)
        <3>1. refresh[t] \in TokenRow
            BY <2>1 DEF LiveToken, TokenTypeOK
        <3>2. refresh'[t] = [refresh[t] EXCEPT !.net = From[p][2]]
            BY <1>1, <2>1 DEF Touch, TokenTypeOK
        <3>3. From[p][2] \in Nets
            BY TokenAssumption
        <3> QED BY <2>1, <3>1, <3>2, <3>3 DEF TokenRow
    <2>2. CASE ~(request[p].of.id = t /\ LiveToken(t))
        BY <1>1, <2>2 DEF Touch, TokenTypeOK
    <2> QED BY <2>1, <2>2
<1>2. ASSUME NEW p \in Requests, Respond(p)
      PROVE  refresh'[t] = refresh[t] \/ TokenMinted(t)
    BY <1>2 DEF Respond, TokenTypeOK
<1>3. ASSUME NEW p \in Requests, Burn(p)
      PROVE  refresh'[t] = refresh[t] \/ TokenGone(t)
    BY <1>3 DEF Burn, TokenTypeOK
<1>4. ASSUME NEW u \in Tokens, ExpireToken(u)
      PROVE  refresh'[t] = refresh[t] \/ TokenGone(t)
    BY <1>4 DEF ExpireToken, TokenTypeOK
<1>5. ASSUME NEW u \in Users, DeleteUser(u)
      PROVE  refresh'[t] = refresh[t] \/ TokenGone(t)
    BY <1>5 DEF DeleteUser
<1>6. ASSUME Evict
      PROVE  refresh'[t] = refresh[t] \/ TokenGone(t)
    BY <1>6 DEF Evict, Forget
<1>7. ASSUME NEW p \in Requests,
             ValidateCode(p) \/ ValidateToken(p) \/ FindUser(p) \/ RespondOrphan(p) \/ CutOff(p)
      PROVE  refresh'[t] = refresh[t]
    BY <1>7 DEF ValidateCode, ValidateToken, FindUser, RespondOrphan, CutOff
<1>8. ASSUME NEW u \in Users, InsertCode(u)
      PROVE  refresh'[t] = refresh[t]
    BY <1>8 DEF InsertCode
<1>9. ASSUME NEW k \in Codes, SendCode(k) \/ ExpireCode(k)
      PROVE  refresh'[t] = refresh[t]
    BY <1>9 DEF SendCode, ExpireCode
<1>10. ASSUME UNCHANGED tokenVars
       PROVE  refresh'[t] = refresh[t]
    BY <1>10 DEF tokenVars
<1> QED BY <1>1, <1>2, <1>3, <1>4, <1>5, <1>6, <1>7, <1>8, <1>9, <1>10 DEF Step, TokenNext

\* A request goes on with what it carries, ends, or sets out with a grant.
GoesOn(p) ==
    /\ request[p] # Idle /\ request'[p] # Idle
    /\ request'[p].of = request[p].of /\ request'[p].family = request[p].family
    /\ request'[p].user = request[p].user /\ request'[p].client = request[p].client
    /\ request'[p].scope = request[p].scope /\ request'[p].verifier = request[p].verifier
    /\ request[p].step # "burn"
    /\ request'[p].step = "burn" => request[p].step = "mint" /\ Stands(p) \in issued'
RedeemsCode(p) ==
    /\ request[p] = Idle
    /\ \E k \in sent, v \in Verifier :
          LiveCode(k) /\ Proves(codes[k], v) /\ request'[p] = CodeRequest(k, v)
RedeemsToken(p) ==
    /\ request[p] = Idle
    /\ \E t \in Tokens, scope \in SUBSET Scopes :
          LiveToken(t) /\ scope \subseteq refresh[t].scope /\ request'[p] = TokenRequest(t, scope)

LEMMA RequestsStep ==
    ASSUME TokenTypeOK, Step, NEW q \in Requests
    PROVE  \/ request'[q] = request[q]
           \/ request'[q] = Idle
           \/ GoesOn(q) \/ RedeemsCode(q) \/ RedeemsToken(q)
<1> USE DEF GoesOn, RedeemsCode, RedeemsToken
<1>1. ASSUME NEW p \in Requests, ValidateCode(p)
      PROVE  request'[q] = request[q] \/ RedeemsCode(q)
    <2>1. PICK k \in sent, v \in Verifier :
             LiveCode(k) /\ Proves(codes[k], v) /\ SetsOut(p, CodeRequest(k, v))
        BY <1>1 DEF ValidateCode
    <2>2. CodeRequest(k, v) \in Busy
        BY <2>1, CodeRequestType DEF TokenTypeOK
    <2> QED BY <1>1, <2>1, <2>2, SetOut DEF ValidateCode
<1>2. ASSUME NEW p \in Requests, ValidateToken(p)
      PROVE  request'[q] = request[q] \/ RedeemsToken(q)
    <2>1. PICK t \in Tokens, scope \in SUBSET Scopes :
             LiveToken(t) /\ scope \subseteq refresh[t].scope /\ SetsOut(p, TokenRequest(t, scope))
        BY <1>2 DEF ValidateToken
    <2>2. TokenRequest(t, scope) \in Busy
        BY <2>1, TokenRequestType
    <2> QED BY <1>2, <2>1, <2>2, SetOut DEF ValidateToken
<1>3. ASSUME NEW p \in Requests, FindUser(p)
      PROVE  request'[q] = request[q] \/ request'[q] = Idle \/ GoesOn(q)
    BY <1>3, StepsTo, EndsIdle DEF FindUser
<1>4. ASSUME NEW p \in Requests, Touch(p)
      PROVE  request'[q] = request[q] \/ GoesOn(q)
    BY <1>4, StepsTo DEF Touch
<1>5. ASSUME NEW p \in Requests, Respond(p)
      PROVE  request'[q] = request[q] \/ GoesOn(q)
    BY <1>5, StepsTo DEF Respond
<1>6. ASSUME NEW p \in Requests, RespondOrphan(p) \/ Burn(p) \/ CutOff(p)
      PROVE  request'[q] = request[q] \/ request'[q] = Idle
    BY <1>6, EndsIdle DEF RespondOrphan, Burn, CutOff
<1>7. ASSUME NEW u \in Users, InsertCode(u) \/ DeleteUser(u)
      PROVE  request'[q] = request[q]
    BY <1>7 DEF InsertCode, DeleteUser
<1>8. ASSUME NEW k \in Codes, SendCode(k) \/ ExpireCode(k)
      PROVE  request'[q] = request[q]
    BY <1>8 DEF SendCode, ExpireCode
<1>9. ASSUME Evict \/ UNCHANGED tokenVars \/ \E t \in Tokens : ExpireToken(t)
      PROVE  request'[q] = request[q]
    BY <1>9 DEF Evict, tokenVars, ExpireToken
<1> QED BY <1>1, <1>2, <1>3, <1>4, <1>5, <1>6, <1>7, <1>8, <1>9 DEF Step, TokenNext

\* An answer is what the request that gives it stands for.
LEMMA IssuedStep ==
    ASSUME TokenTypeOK, Step
    PROVE  \/ issued' = issued
           \/ \E p \in Requests : /\ request[p] # Idle /\ request[p].step = "mint"
                                  /\ issued' = issued \cup {Stands(p)}
<1>1. ASSUME NEW p \in Requests, Respond(p)
      PROVE  request[p] # Idle /\ request[p].step = "mint" /\ issued' = issued \cup {Stands(p)}
    BY <1>1 DEF Respond
<1>2. ASSUME NEW p \in Requests,
             ValidateCode(p) \/ ValidateToken(p) \/ FindUser(p) \/ Touch(p)
                \/ RespondOrphan(p) \/ Burn(p) \/ CutOff(p)
      PROVE  issued' = issued
    BY <1>2 DEF ValidateCode, ValidateToken, FindUser, Touch, RespondOrphan, Burn, CutOff
<1>3. ASSUME NEW u \in Users, InsertCode(u) \/ DeleteUser(u)
      PROVE  issued' = issued
    BY <1>3 DEF InsertCode, DeleteUser
<1>4. ASSUME NEW k \in Codes, SendCode(k) \/ ExpireCode(k)
      PROVE  issued' = issued
    BY <1>4 DEF SendCode, ExpireCode
<1>5. ASSUME Evict \/ UNCHANGED tokenVars \/ \E t \in Tokens : ExpireToken(t)
      PROVE  issued' = issued
    BY <1>5 DEF Evict, tokenVars, ExpireToken
<1> QED BY <1>1, <1>2, <1>3, <1>4, <1>5 DEF Step, TokenNext

-----------------------------------------------------------------------------
(* The invariant is inductive.                                               *)

\* A kinship is for good: the origin of a family is written once.
LEMMA OriginsStay ==
    ASSUME Kinship, Step, NEW k \in Codes, origin[k] # Unused
    PROVE  origin'[k] = origin[k]
BY CodesStep DEF Kinship, CodesKin, CodeStays, CodeGone, CodeInserted, CodeSent

LEMMA CodesKinStep ==
    ASSUME Kinship, Step
    PROVE  CodesKin' /\ SentBound'
<1> SUFFICES ASSUME NEW k \in Codes
             PROVE  /\ codes'[k] = Unused <=> origin'[k] = Unused
                    /\ codes'[k] \notin {Unused, Deleted} =>
                          /\ origin'[k] # Unused
                          /\ codes'[k].user = origin'[k].user
                          /\ codes'[k].client = origin'[k].client
                          /\ codes'[k].scope \subseteq origin'[k].scope
                          /\ codes'[k].pkce = origin'[k].pkce
                    /\ k \in sent' => codes'[k] # Unused
                    /\ k \in sent' /\ codes'[k] \notin {Unused, Deleted} =>
                          codes'[k].bound = codes'[k].pkce
    <2>1. sent' \subseteq Codes
        BY TypeStep DEF Kinship, Step, TokenTypeOK
    <2> QED BY <2>1 DEF CodesKin, SentBound, LiveCode, Kin
<1> USE DEF Kinship
<1>1. CASE CodeStays(k)
    BY <1>1 DEF CodeStays, CodesKin, SentBound, LiveCode, Kin
<1>2. CASE CodeGone(k)
    BY <1>2, Marks DEF CodeGone, CodesKin
<1>3. CASE CodeInserted(k)
    <2>1. k \notin sent
        BY <1>3 DEF CodeInserted, SentBound
    <2> QED BY <1>3, <2>1, Marks DEF CodeInserted
<1>4. CASE CodeSent(k)
    BY <1>4, Marks DEF CodeSent, CodesKin, LiveCode, Kin
<1> QED BY <1>1, <1>2, <1>3, <1>4, CodesStep

LEMMA TokensKinStep ==
    ASSUME Kinship, Step
    PROVE  TokensKin'
<1> SUFFICES ASSUME NEW t \in Tokens, refresh'[t] \notin {Unused, Deleted}
             PROVE  /\ origin'[refresh'[t].family] # Unused
                    /\ refresh'[t].user = origin'[refresh'[t].family].user
                    /\ refresh'[t].client = origin'[refresh'[t].family].client
                    /\ refresh'[t].scope \subseteq origin'[refresh'[t].family].scope
    BY DEF TokensKin, LiveToken, Kin
<1>1. CASE refresh'[t] = refresh[t] \/ TokenKept(t)
    <2>1. LiveToken(t) /\ refresh[t].family \in Codes /\ refresh'[t].family = refresh[t].family
        BY <1>1 DEF TokenKept, LiveToken, Kinship, TokenTypeOK, TokenRow
    <2>2. Kin(refresh[t], refresh[t].family)
        BY <2>1 DEF Kinship, TokensKin
    <2>3. origin'[refresh[t].family] = origin[refresh[t].family]
        BY <2>1, <2>2, OriginsStay DEF Kin
    <2> QED BY <1>1, <2>1, <2>2, <2>3 DEF Kin, TokenKept
<1>2. CASE TokenMinted(t)
    <2>1. PICK p \in Requests : request[p] # Idle /\ refresh'[t] = NewToken(p)
        BY <1>2 DEF TokenMinted
    <2>2. request[p].family \in Codes /\ Kin(request[p], request[p].family)
        BY <2>1, BusyRequest DEF Kinship, RequestsKin, RequestKin
    <2>3. origin'[request[p].family] = origin[request[p].family]
        BY <2>2, OriginsStay DEF Kin
    <2> QED BY <2>1, <2>2, <2>3 DEF Kin, NewToken
<1>3. CASE TokenGone(t)
    BY <1>3 DEF TokenGone
<1> QED BY <1>1, <1>2, <1>3, TokensStep DEF Kinship

LEMMA IssuedGrows ==
    ASSUME TokenTypeOK, Step
    PROVE  issued \subseteq issued'
BY IssuedStep

LEMMA RequestsKinStep ==
    ASSUME Kinship, Step
    PROVE  RequestsKin'
<1> DEFINE R == request' O == origin' I == issued'
<1> SUFFICES ASSUME NEW p \in Requests, R[p] # Idle
             PROVE  /\ O[R[p].family] # Unused
                    /\ R[p].user = O[R[p].family].user
                    /\ R[p].client = O[R[p].family].client
                    /\ R[p].scope \subseteq O[R[p].family].scope
                    /\ R[p].of.grant = "code" =>
                          /\ R[p].of.id = R[p].family
                          /\ O[R[p].family].pkce => R[p].verifier = "right"
                    /\ R[p].step = "burn" => \E i \in I : i.family = R[p].family
    BY DEF RequestsKin, RequestKin, Kin
<1>1. CASE R[p] = request[p]
    <2>1. RequestKin(p) /\ request[p].family \in Codes
        BY <1>1, BusyRequest DEF Kinship, RequestsKin
    <2>2. O[request[p].family] = origin[request[p].family]
        BY <2>1, OriginsStay DEF RequestKin, Kin
    <2>3. issued \subseteq I
        BY IssuedGrows DEF Kinship
    <2> QED BY <1>1, <2>1, <2>2, <2>3 DEF RequestKin, Kin
<1>2. CASE GoesOn(p)
    <2>1. RequestKin(p) /\ request[p].family \in Codes
        BY <1>2, BusyRequest DEF Kinship, RequestsKin, GoesOn
    <2>2. O[request[p].family] = origin[request[p].family]
        BY <2>1, OriginsStay DEF RequestKin, Kin
    <2>3. R[p].step = "burn" => Stands(p) \in I /\ Stands(p).family = R[p].family
        BY <1>2 DEF GoesOn, Stands
    <2> QED BY <1>2, <2>1, <2>2, <2>3 DEF RequestKin, Kin, GoesOn
<1>3. CASE RedeemsCode(p)
    <2>1. PICK k \in sent, v \in Verifier :
             LiveCode(k) /\ Proves(codes[k], v) /\ R[p] = CodeRequest(k, v)
        BY <1>3 DEF RedeemsCode
    <2>2. k \in Codes /\ Kin(codes[k], k) /\ codes[k].pkce = origin[k].pkce
             /\ codes[k].bound = codes[k].pkce
        BY <2>1 DEF Kinship, TokenTypeOK, CodesKin, SentBound
    <2>3. O[k] = origin[k]
        BY <2>2, OriginsStay DEF Kin
    <2>4. origin[k].pkce => v = "right"
        BY <2>1, <2>2 DEF Proves
    <2> QED BY <2>1, <2>2, <2>3, <2>4 DEF CodeRequest, Kin
<1>4. CASE RedeemsToken(p)
    <2>1. PICK t \in Tokens, scope \in SUBSET Scopes :
             LiveToken(t) /\ scope \subseteq refresh[t].scope /\ R[p] = TokenRequest(t, scope)
        BY <1>4 DEF RedeemsToken
    <2>2. Kin(refresh[t], refresh[t].family) /\ refresh[t].family \in Codes
        BY <2>1 DEF Kinship, TokensKin, TokenTypeOK, LiveToken, TokenRow
    <2>3. O[refresh[t].family] = origin[refresh[t].family]
        BY <2>2, OriginsStay DEF Kin
    <2> QED BY <2>1, <2>2, <2>3 DEF TokenRequest, Kin
<1> QED BY <1>1, <1>2, <1>3, <1>4, RequestsStep DEF Kinship

\* What an answer stands for is what its request has been let through with.
LEMMA AnswersStep ==
    ASSUME Kinship, Step
    PROVE  AnswersWithinConsent' /\ PkceHolds'
<1> SUFFICES ASSUME NEW i \in issued'
             PROVE  /\ origin'[i.family] # Unused
                    /\ i.user = origin'[i.family].user
                    /\ i.client = origin'[i.family].client
                    /\ i.scope \subseteq origin'[i.family].scope
                    /\ i.grant = "code" /\ origin'[i.family].pkce => i.verifier = "right"
    BY DEF AnswersWithinConsent, PkceHolds
<1>1. CASE i \in issued
    <2>1. i.family \in Codes
        BY <1>1 DEF Kinship, TokenTypeOK, Answer
    <2>2. origin'[i.family] = origin[i.family]
        BY <1>1, <2>1, OriginsStay DEF Kinship, AnswersWithinConsent
    <2> QED BY <1>1, <2>2 DEF Kinship, AnswersWithinConsent, PkceHolds
<1>2. CASE i \notin issued
    <2>1. PICK p \in Requests : request[p] # Idle /\ i = Stands(p)
        BY <1>2, IssuedStep DEF Kinship
    <2>2. RequestKin(p) /\ request[p].family \in Codes
        BY <2>1, BusyRequest DEF Kinship, RequestsKin
    <2>3. origin'[request[p].family] = origin[request[p].family]
        BY <2>2, OriginsStay DEF RequestKin, Kin
    <2> QED BY <2>1, <2>2, <2>3 DEF RequestKin, Kin, Stands
<1> QED BY <1>1, <1>2

THEOREM KinshipHolds == TokenSpec => []Kinship
<1>1. TokenInit => Kinship
    <2>1. ASSUME TokenInit PROVE Kinship
        <3>1. TokenTypeOK
            BY <2>1 DEF TokenInit, TokenTypeOK
        <3>2. CodesKin /\ SentBound /\ TokensKin /\ RequestsKin
            BY <2>1 DEF TokenInit, CodesKin, SentBound, TokensKin, RequestsKin, LiveCode, LiveToken
        <3>3. AnswersWithinConsent /\ PkceHolds
            BY <2>1 DEF TokenInit, AnswersWithinConsent, PkceHolds
        <3> QED BY <3>1, <3>2, <3>3 DEF Kinship
    <2> QED BY <2>1
<1>2. Kinship /\ [TokenNext \/ Evict]_tokenVars => Kinship'
    <2>1. ASSUME Kinship, Step PROVE Kinship'
        BY <2>1, TypeStep, CodesKinStep, TokensKinStep, RequestsKinStep, AnswersStep
           DEF Kinship, Step
    <2> QED BY <2>1 DEF Step
<1> QED BY <1>1, <1>2, PTL DEF TokenSpec

(* Every answer goes to the user and the client of the code that its chain   *)
(* of refresh tokens goes back to, with no scope that was not consented to.  *)
THEOREM ConsentBounds == TokenSpec => []AnswersWithinConsent
<1>1. Kinship => AnswersWithinConsent
    BY DEF Kinship
<1> QED BY <1>1, KinshipHolds, PTL

(* No code that was asked for with a challenge is redeemed without its       *)
(* verifier, however the two commits of /consent interleave with /token.     *)
THEOREM ChallengeAnswered == TokenSpec => []PkceHolds
<1>1. Kinship => PkceHolds
    BY DEF Kinship
<1> QED BY <1>1, KinshipHolds, PTL

-----------------------------------------------------------------------------
(* A code that was sent is spent by an answer only.                          *)

\* Who deletes a code: a request that has answered, time, or an administrator.
LEMMA WhyGone ==
    ASSUME Kinship, Step, NEW k \in Codes, codes[k] # Deleted, codes'[k] = Deleted
    PROVE  \/ \E i \in issued : i.family = k
           \/ k \in lapsed'
           \/ origin[k].user \notin users'
<1>1. ASSUME NEW p \in Requests, Burn(p)
      PROVE  \E i \in issued : i.family = k
    <2>1. RequestKin(p)
        BY <1>1 DEF Burn, Kinship, RequestsKin
    <2>2. request[p].of.grant = "code" /\ request[p].of.id = k
        BY <1>1 DEF Burn, Kinship, TokenTypeOK
    <2> QED BY <1>1, <2>1, <2>2 DEF RequestKin, Burn
<1>2. ASSUME NEW l \in Codes, ExpireCode(l)
      PROVE  k \in lapsed'
    BY <1>2 DEF ExpireCode, Kinship, TokenTypeOK
<1>3. ASSUME NEW u \in Users, DeleteUser(u)
      PROVE  origin[k].user \notin users'
    <2>1. LiveCode(k) /\ codes[k].user = u
        BY <1>3 DEF DeleteUser
    <2>2. origin[k].user = u
        BY <2>1 DEF Kinship, CodesKin, Kin
    <2> QED BY <1>3, <2>2 DEF DeleteUser
<1>4. ASSUME NEW u \in Users, InsertCode(u)
      PROVE  FALSE
    BY <1>4, NewCodeType, Marks DEF InsertCode, Kinship, TokenTypeOK
<1>5. ASSUME NEW l \in Codes, SendCode(l)
      PROVE  FALSE
    <2>1. codes[l] \in CodeRow
        BY <1>5 DEF SendCode, LiveCode, Kinship, TokenTypeOK
    <2>2. [codes[l] EXCEPT !.bound = codes[l].pkce] \in CodeRow
        BY <2>1 DEF CodeRow
    <2> QED BY <1>5, <2>2, Marks DEF SendCode, Kinship, TokenTypeOK
<1>6. ASSUME NEW p \in Requests,
             ValidateCode(p) \/ ValidateToken(p) \/ FindUser(p) \/ Touch(p) \/ Respond(p)
                \/ RespondOrphan(p) \/ CutOff(p)
      PROVE  FALSE
    BY <1>6 DEF ValidateCode, ValidateToken, FindUser, Touch, Respond, RespondOrphan, CutOff
<1>7. ASSUME Evict \/ UNCHANGED tokenVars \/ \E t \in Tokens : ExpireToken(t)
      PROVE  FALSE
    BY <1>7 DEF Evict, tokenVars, ExpireToken
<1> QED BY <1>1, <1>2, <1>3, <1>4, <1>5, <1>6, <1>7 DEF Step, TokenNext

\* Users who are gone do not come back, nor does what has lapsed.
LEMMA OneWay ==
    ASSUME TokenTypeOK, Step
    PROVE  users' \subseteq users /\ lapsed \subseteq lapsed' /\ overlapped \subseteq overlapped'
<1>1. ASSUME NEW p \in Requests,
             ValidateCode(p) \/ ValidateToken(p) \/ FindUser(p) \/ Touch(p) \/ Respond(p)
                \/ RespondOrphan(p) \/ CutOff(p) \/ Burn(p)
      PROVE  users' = users /\ lapsed' = lapsed /\ overlapped \subseteq overlapped'
    BY <1>1 DEF ValidateCode, ValidateToken, FindUser, Touch, Respond, RespondOrphan, CutOff,
                Burn, SetsOut
<1>2. ASSUME NEW u \in Users, InsertCode(u) \/ DeleteUser(u)
      PROVE  users' \subseteq users /\ lapsed' = lapsed /\ overlapped' = overlapped
    BY <1>2 DEF InsertCode, DeleteUser
<1>3. ASSUME NEW k \in Codes, SendCode(k) \/ ExpireCode(k)
      PROVE  users' = users /\ lapsed \subseteq lapsed' /\ overlapped' = overlapped
    BY <1>3 DEF SendCode, ExpireCode
<1>4. ASSUME Evict \/ UNCHANGED tokenVars \/ \E t \in Tokens : ExpireToken(t)
      PROVE  users' = users /\ lapsed' = lapsed /\ overlapped' = overlapped
    BY <1>4 DEF Evict, tokenVars, ExpireToken
<1> QED BY <1>1, <1>2, <1>3, <1>4 DEF Step, TokenNext

LEMMA UnansweredStep ==
    ASSUME Kinship, UnansweredKept, Step
    PROVE  UnansweredKept'
<1> SUFFICES ASSUME NEW k \in sent' \ lapsed', codes'[k] = Deleted, origin'[k].user \in users'
             PROVE  \E i \in issued' : i.family = k
    BY DEF UnansweredKept
<1>1. k \in Codes
    BY TypeStep DEF Kinship, Step, TokenTypeOK
<1>2. k \notin lapsed /\ users' \subseteq users /\ issued \subseteq issued'
    BY OneWay, IssuedGrows DEF Kinship
<1>3. k \in sent /\ origin'[k] = origin[k]
    BY <1>1, CodesStep, Marks DEF Kinship, CodeStays, CodeGone, CodeInserted, CodeSent
<1>4. CASE codes[k] = Deleted
    BY <1>2, <1>3, <1>4 DEF UnansweredKept
<1>5. CASE codes[k] # Deleted
    BY <1>1, <1>2, <1>3, <1>5, WhyGone
<1> QED BY <1>4, <1>5

(* Requests that are refused, that fail or that are cut off leave the code   *)
(* for a retry: only an answer spends it.                                    *)
THEOREM CodesKeptForRetry == TokenSpec => []UnansweredKept
<1>1. TokenInit => UnansweredKept
    BY DEF TokenInit, UnansweredKept
<1>2. Kinship /\ UnansweredKept /\ [TokenNext \/ Evict]_tokenVars => UnansweredKept'
    BY UnansweredStep DEF Step
<1> QED BY <1>1, <1>2, KinshipHolds, PTL DEF TokenSpec

-----------------------------------------------------------------------------
(* What is gone stays gone.                                                  *)

LEMMA GrantsMembers ==
    ASSUME NEW k \in Codes
    PROVE  /\ \A x : x \in Grants(k) <=>
                        \/ x = <<"code", k>> /\ LiveCode(k)
                        \/ \E t \in Tokens : /\ x = <<"refresh", t>>
                                             /\ LiveToken(t) /\ refresh[t].family = k
BY DEF Grants

\* A family gets a grant by the insertion of its code or the minting of a token.
LEMMA GrantsStep ==
    ASSUME Kinship, Step, NEW k \in Codes, NEW x \in Grants(k)'
    PROVE  \/ x \in Grants(k)
           \/ CodeInserted(k) /\ x = <<"code", k>>
           \/ \E t \in Tokens : /\ x = <<"refresh", t>> /\ refresh'[t].family = k
                                /\ TokenMinted(t)
<1>1. CASE x = <<"code", k>> /\ codes'[k] \notin {Unused, Deleted}
    <2>1. LiveCode(k) \/ CodeInserted(k)
        BY <1>1, CodesStep DEF Kinship, CodeStays, CodeGone, CodeSent, LiveCode
    <2> QED BY <1>1, <2>1, GrantsMembers
<1>2. CASE \E t \in Tokens : /\ x = <<"refresh", t>> /\ refresh'[t].family = k
                             /\ refresh'[t] \notin {Unused, Deleted}
    <2>1. PICK t \in Tokens : /\ x = <<"refresh", t>> /\ refresh'[t].family = k
                              /\ refresh'[t] \notin {Unused, Deleted}
        BY <1>2
    <2>2. CASE refresh'[t] = refresh[t] \/ TokenKept(t)
        BY <2>1, <2>2, GrantsMembers DEF TokenKept, LiveToken
    <2>3. CASE TokenMinted(t)
        BY <2>1, <2>3
    <2>4. CASE TokenGone(t)
        BY <2>1, <2>4 DEF TokenGone
    <2> QED BY <2>2, <2>3, <2>4, TokensStep DEF Kinship
<1>3. \/ x = <<"code", k>> /\ codes'[k] \notin {Unused, Deleted}
      \/ \E t \in Tokens : /\ x = <<"refresh", t>> /\ refresh'[t].family = k
                           /\ refresh'[t] \notin {Unused, Deleted}
    BY DEF Grants, LiveCode, LiveToken
<1> QED BY <1>1, <1>2, <1>3

LEMMA DeadStep ==
    ASSUME Kinship, Step, NEW k \in Codes, Dead(k)
    PROVE  /\ codes'[k] = Deleted
           /\ Grants(k)' = {}
           /\ \A p \in Requests : request'[p] # Idle /\ request'[p].family = k
                                     => request'[p].step = "burn"
           /\ \A i \in issued' : i.family = k => i \in issued
<1>1. codes[k] = Deleted /\ Grants(k) = {}
      /\ \A p \in Requests : request[p] # Idle /\ request[p].family = k
                                => request[p].step = "burn"
    BY DEF Dead, Underway
<1>2. codes'[k] = Deleted
    BY <1>1, CodesStep, Marks DEF Kinship, CodeStays, CodeGone, CodeInserted, CodeSent, LiveCode
<1>3. ASSUME NEW t \in Tokens, TokenMinted(t), refresh'[t].family = k
      PROVE  FALSE
    <2>1. PICK p \in Requests : request[p] # Idle /\ request[p].step = "mint"
                                 /\ refresh'[t] = NewToken(p)
        BY <1>3 DEF TokenMinted
    <2>2. request[p].family = k
        BY <1>3, <2>1 DEF NewToken
    <2> QED BY <1>1, <2>1, <2>2
<1>4. Grants(k)' = {}
    BY <1>1, <1>3, GrantsStep, Marks DEF CodeInserted
<1>5. ASSUME NEW p \in Requests, request'[p] # Idle, request'[p].family = k
      PROVE  request'[p].step = "burn"
    <2>1. CASE request'[p] = request[p]
        BY <1>1, <1>5, <2>1
    <2>2. CASE GoesOn(p)
        BY <1>1, <1>5, <2>2 DEF GoesOn
    <2>3. CASE RedeemsCode(p)
        BY <1>1, <1>5, <2>3 DEF RedeemsCode, CodeRequest, LiveCode
    <2>4. CASE RedeemsToken(p)
        <3>1. PICK t \in Tokens, scope \in SUBSET Scopes :
                 LiveToken(t) /\ request'[p] = TokenRequest(t, scope)
            BY <2>4 DEF RedeemsToken
        <3>2. refresh[t].family = k
            BY <1>5, <3>1 DEF TokenRequest
        <3>3. <<"refresh", t>> \in Grants(k)
            BY <3>1, <3>2, GrantsMembers
        <3> QED BY <1>1, <3>3
    <2> QED BY <1>5, <2>1, <2>2, <2>3, <2>4, RequestsStep DEF Kinship
<1>6. \A i \in issued' : i.family = k => i \in issued
    BY <1>1, IssuedStep DEF Kinship, Stands
<1> QED BY <1>2, <1>4, <1>5, <1>6

(* A refresh token that is gone is never written again, and a family that    *)
(* has lost its grants while no request was holding one is dead for good.    *)
THEOREM DeadForGood == TokenSpec => StaysDead
<1> DEFINE A == /\ \A t \in Tokens : refresh[t] = Deleted => refresh'[t] = Deleted
                /\ \A k \in Codes : Dead(k) =>
                      Dead(k)' /\ \A i \in issued' : i.family = k => i \in issued
<1>1. ASSUME Kinship, Step PROVE A
    <2>1. ASSUME NEW t \in Tokens, refresh[t] = Deleted PROVE refresh'[t] = Deleted
        BY <1>1, <2>1, TokensStep, Marks DEF Kinship, TokenGone, TokenKept, TokenMinted, LiveToken
    <2>2. ASSUME NEW k \in Codes, Dead(k)
          PROVE  Dead(k)' /\ \A i \in issued' : i.family = k => i \in issued
        BY <1>1, <2>2, DeadStep DEF Dead, Underway
    <2> QED BY <2>1, <2>2
<1>2. Kinship /\ [TokenNext \/ Evict]_tokenVars => [A]_tokenVars
    BY <1>1 DEF Step
<1>3. TokenSpec => [][A]_tokenVars
    BY <1>2, KinshipHolds, PTL DEF TokenSpec
<1> QED BY <1>3 DEF StaysDead

-----------------------------------------------------------------------------
(* One grant a family.  While no two requests redeem a family at once, the   *)
(* request that does so holds its only grant, until it has answered: then    *)
(* there may be one more, and the first is the one that it deletes.          *)

Of(p) == <<request[p].of.grant, request[p].of.id>>

Holds(p, k) == request[p] # Idle /\ request[p].family = k
Holding(p, k) == Holds(p, k) /\ request[p].step # "burn"
Burning(p, k) == Holds(p, k) /\ request[p].step = "burn"

Alone(k) == \A p, q \in Requests : Holds(p, k) /\ Holds(q, k) => p = q

OneGrant(k) ==
    /\ Alone(k)
    /\ \A p \in Requests : Holding(p, k) => Grants(k) \subseteq {Of(p)}
    /\ \E g : \A x \in Grants(k) : x = g \/ \E p \in Requests : Burning(p, k) /\ x = Of(p)

Unforked == \A k \in Codes \ overlapped : OneGrant(k)

\* A step after which the same requests hold the same grants, and adds none.
LEMMA OneGrantSame ==
    ASSUME NEW k \in Codes, OneGrant(k), Grants(k)' \subseteq Grants(k),
           \A p \in Requests : /\ Holding(p, k)' <=> Holding(p, k)
                               /\ Burning(p, k)' <=> Burning(p, k)
                               /\ Holds(p, k) => request'[p].of = request[p].of
    PROVE  OneGrant(k)'
<1>1. \A p \in Requests : Holds(p, k)' <=> Holds(p, k)
    BY DEF Holding, Burning
<1>2. Alone(k)'
    BY <1>1 DEF OneGrant, Alone
<1>3. ASSUME NEW p \in Requests, Holding(p, k)'
      PROVE  Grants(k)' \subseteq {<<request'[p].of.grant, request'[p].of.id>>}
    <2>1. Holding(p, k) /\ request'[p].of = request[p].of
        BY <1>3 DEF Holding
    <2> QED BY <2>1 DEF OneGrant, Of
<1>4. PICK g : \A x \in Grants(k) : x = g \/ \E p \in Requests : Burning(p, k) /\ x = Of(p)
    BY DEF OneGrant
<1>5. \A x \in Grants(k)' : \/ x = g
                            \/ \E p \in Requests : /\ Burning(p, k)'
                                  /\ x = <<request'[p].of.grant, request'[p].of.id>>
    BY <1>4 DEF Of, Burning
<1> QED BY <1>2, <1>3, <1>5 DEF OneGrant, Of

\* A step that leaves the requests of the family alone, and adds no grant.
LEMMA OneGrantStays ==
    ASSUME NEW k \in Codes, OneGrant(k), Grants(k)' \subseteq Grants(k),
           \A p \in Requests : request'[p] = request[p] \/ (~Holds(p, k) /\ ~Holds(p, k)')
    PROVE  OneGrant(k)'
<1>1. \A p \in Requests : /\ Holding(p, k)' <=> Holding(p, k)
                          /\ Burning(p, k)' <=> Burning(p, k)
                          /\ Holds(p, k) => request'[p].of = request[p].of
    BY DEF Holds, Holding, Burning
<1> QED BY <1>1, OneGrantSame

\* A request that takes a step short of its answer.
LEMMA OneGrantGoesOn ==
    ASSUME TokenTypeOK, NEW k \in Codes, OneGrant(k), Grants(k)' \subseteq Grants(k),
           NEW p \in Requests, request[p] # Idle, request[p].step # "burn",
           NEW step \in {"user", "touch", "mint"}, Steps(p, step)
    PROVE  OneGrant(k)'
<1>1. /\ request'[p] # Idle /\ request'[p].step = step /\ request'[p].of = request[p].of
      /\ request'[p].family = request[p].family
      /\ \A q \in Requests : q # p => request'[q] = request[q]
    BY StepsTo
<1>2. \A q \in Requests : /\ Holding(q, k)' <=> Holding(q, k)
                          /\ Burning(q, k)' <=> Burning(q, k)
                          /\ Holds(q, k) => request'[q].of = request[q].of
    BY <1>1 DEF Holds, Holding, Burning
<1> QED BY <1>2, OneGrantSame

LEMMA NoNewGrants ==
    ASSUME NEW k \in Codes,
           codes'[k] \notin {Unused, Deleted} => LiveCode(k),
           \A t \in Tokens : refresh'[t] \notin {Unused, Deleted}
                                => LiveToken(t) /\ refresh[t].family = refresh'[t].family
    PROVE  Grants(k)' \subseteq Grants(k)
BY DEF Grants, LiveCode, LiveToken

\* A request sets out with a grant: with the only one, where it is alone.
LEMMA OneGrantRead ==
    ASSUME TokenTypeOK, NEW k \in Codes, OneGrant(k), k \notin overlapped',
           NEW p \in Requests, NEW busy \in Busy, request[p] = Idle, SetsOut(p, busy),
           busy.family = k, busy.step = "user", <<busy.of.grant, busy.of.id>> \in Grants(k),
           UNCHANGED <<codes, refresh>>
    PROVE  OneGrant(k)'
<1>1. \A q \in Requests : ~Holds(q, k)
    BY DEF SetsOut, InFlight, Holds
<1>2. request'[p] = busy /\ \A q \in Requests : q # p => request'[q] = request[q]
    BY SetOut
<1>3. \A q \in Requests : Holds(q, k)' => q = p
    BY <1>1, <1>2 DEF Holds
<1>4. \A q \in Requests : ~Burning(q, k) /\ ~Burning(q, k)'
    BY <1>1, <1>2, <1>3 DEF Burning, Holds
<1>5. Grants(k)' = Grants(k)
    BY DEF Grants, LiveCode, LiveToken
<1>6. PICK g : \A x \in Grants(k) : x = g
    BY <1>4 DEF OneGrant
<1>7. Alone(k)'
    BY <1>3 DEF Alone
<1>8. ASSUME NEW q \in Requests, Holding(q, k)'
      PROVE  Grants(k)' \subseteq {<<request'[q].of.grant, request'[q].of.id>>}
    <2>1. q = p
        BY <1>3, <1>8 DEF Holding
    <2> QED BY <1>2, <1>5, <1>6, <2>1
<1> QED BY <1>5, <1>6, <1>7, <1>8 DEF OneGrant, Of

\* A request ends: before it has answered, or after it has deleted its grant.
LEMMA OneGrantLeft ==
    ASSUME TokenTypeOK, NEW k \in Codes, OneGrant(k), NEW p \in Requests, Holds(p, k), Ends(p),
           Grants(k)' \subseteq Grants(k), Holding(p, k) \/ Of(p) \notin Grants(k)'
    PROVE  OneGrant(k)'
<1>1. request'[p] = Idle /\ \A q \in Requests : q # p => request'[q] = request[q]
    BY EndsIdle
<1>2. \A q \in Requests : ~Holds(q, k)'
    BY <1>1 DEF OneGrant, Alone, Holds
<1>3. Alone(k)' /\ \A q \in Requests : ~Holding(q, k)'
    BY <1>2 DEF Alone, Holding
<1>4. \E g : \A x \in Grants(k)' : x = g
    <2>1. CASE Holding(p, k)
        BY <2>1 DEF OneGrant
    <2>2. CASE ~Holding(p, k)
        <3>1. PICK g : \A x \in Grants(k) : x = g \/ \E q \in Requests : Burning(q, k) /\ x = Of(q)
            BY DEF OneGrant
        <3>2. \A q \in Requests : Burning(q, k) => q = p
            BY DEF OneGrant, Alone, Burning
        <3>3. \A x \in Grants(k)' : x = g
            BY <2>2, <3>1, <3>2
        <3> QED BY <3>3
    <2> QED BY <2>1, <2>2
<1> QED BY <1>3, <1>4 DEF OneGrant

\* An answer adds at most one grant to the one that its request holds.
LEMMA OneGrantAnswered ==
    ASSUME TokenTypeOK, NEW k \in Codes, OneGrant(k), NEW p \in Requests, Holding(p, k),
           Respond(p)
    PROVE  OneGrant(k)'
<1>1. /\ request'[p] # Idle /\ request'[p].step = "burn" /\ request'[p].of = request[p].of
      /\ request'[p].family = request[p].family
      /\ \A q \in Requests : q # p => request'[q] = request[q]
    BY StepsTo DEF Respond
<1>2. Grants(k) \subseteq {Of(p)}
    BY DEF OneGrant
<1>3. PICK t : \A u \in Tokens : u # t => refresh'[u] = refresh[u]
    <2>1. CASE refresh' = refresh
        BY <2>1
    <2>2. CASE refresh' # refresh
        <3>1. PICK t \in Tokens : refresh' = [refresh EXCEPT ![t] = NewToken(p)]
            BY <2>2 DEF Respond
        <3>2. \A u \in Tokens : u # t => refresh'[u] = refresh[u]
            BY <3>1 DEF TokenTypeOK
        <3> QED BY <3>2
    <2> QED BY <2>1, <2>2
<1>4. \A x \in Grants(k)' : x = <<"refresh", t>> \/ x \in Grants(k)
    BY <1>3 DEF Grants, LiveCode, LiveToken, Respond
<1>5. \A q \in Requests : q # p => ~Holds(q, k)'
    BY <1>1 DEF OneGrant, Alone, Holding, Holds
<1>6. Alone(k)' /\ \A q \in Requests : ~Holding(q, k)'
    BY <1>1, <1>5 DEF Alone, Holding
<1>7. Burning(p, k)'
    BY <1>1 DEF Burning, Holding, Holds
<1>8. \A x \in Grants(k)' :
         \/ x = <<"refresh", t>>
         \/ Burning(p, k)' /\ x = <<request'[p].of.grant, request'[p].of.id>>
    BY <1>1, <1>2, <1>4, <1>7 DEF Of
<1> QED BY <1>6, <1>8 DEF OneGrant, Of

\* A code that is inserted is the first grant of its family.
LEMMA OneGrantInserted ==
    ASSUME Kinship, NEW k \in Codes, codes[k] = Unused, UNCHANGED <<request, refresh>>
    PROVE  OneGrant(k)'
<1>1. origin[k] = Unused
    BY DEF Kinship, CodesKin
<1>2. \A p \in Requests : ~Holds(p, k)'
    BY <1>1 DEF Kinship, RequestsKin, RequestKin, Kin, Holds
<1>3. \A t \in Tokens : ~(LiveToken(t) /\ refresh[t].family = k)
    BY <1>1 DEF Kinship, TokensKin, Kin
<1>4. Grants(k)' \subseteq {<<"code", k>>}
    BY <1>3 DEF Grants, LiveToken
<1>5. Alone(k)' /\ \A p \in Requests : ~Holding(p, k)'
    BY <1>2 DEF Alone, Holding
<1> QED BY <1>4, <1>5 DEF OneGrant

LEMMA UnforkedStep ==
    ASSUME Kinship, Unforked, Step
    PROVE  Unforked'
<1> SUFFICES ASSUME NEW k \in Codes, k \notin overlapped'
             PROVE  OneGrant(k)'
    BY DEF Unforked
<1>0. k \notin overlapped /\ OneGrant(k)
    BY OneWay DEF Kinship, Unforked
<1> USE <1>0
<1>1. ASSUME NEW u \in Users, InsertCode(u) PROVE OneGrant(k)'
    <2>1. CASE codes[k] = Unused
        BY <1>1, <2>1, OneGrantInserted DEF InsertCode
    <2>2. CASE codes[k] # Unused
        <3>1. codes'[k] = codes[k]
            BY <1>1, <2>2 DEF InsertCode, Kinship, TokenTypeOK
        <3>2. Grants(k)' \subseteq Grants(k)
            BY <1>1, <3>1, NoNewGrants DEF InsertCode, LiveCode, LiveToken
        <3> QED BY <1>1, <3>2, OneGrantStays DEF InsertCode
    <2> QED BY <2>1, <2>2
<1>2. ASSUME NEW l \in Codes, SendCode(l) PROVE OneGrant(k)'
    <2>1. codes'[k] \notin {Unused, Deleted} => LiveCode(k)
        BY <1>2 DEF SendCode, LiveCode, Kinship, TokenTypeOK
    <2>2. Grants(k)' \subseteq Grants(k)
        BY <1>2, <2>1, NoNewGrants DEF SendCode, LiveToken
    <2> QED BY <1>2, <2>2, OneGrantStays DEF SendCode
<1>3. ASSUME NEW p \in Requests, ValidateCode(p) PROVE OneGrant(k)'
    <2>1. PICK l \in sent, v \in Verifier : LiveCode(l) /\ SetsOut(p, CodeRequest(l, v))
        BY <1>3 DEF ValidateCode
    <2>2. CodeRequest(l, v) \in Busy
        BY <2>1, CodeRequestType DEF Kinship, TokenTypeOK
    <2>3. Grants(k)' = Grants(k)
        BY <1>3 DEF ValidateCode, Grants, LiveCode, LiveToken
    <2>4. CASE l = k
        <3>1. <<"code", k>> \in Grants(k)
            BY <2>1, <2>4, GrantsMembers
        <3> QED BY <1>3, <2>1, <2>2, <2>4, <3>1, OneGrantRead
                DEF ValidateCode, CodeRequest, Kinship
    <2>5. CASE l # k
        <3>1. request'[p] = CodeRequest(l, v) /\ \A q \in Requests : q # p => request'[q] = request[q]
            BY <2>1, <2>2, SetOut DEF Kinship
        <3> QED BY <1>3, <2>3, <2>5, <3>1, OneGrantStays DEF ValidateCode, CodeRequest, Holds
    <2> QED BY <2>4, <2>5
<1>4. ASSUME NEW p \in Requests, ValidateToken(p) PROVE OneGrant(k)'
    <2>1. PICK t \in Tokens, scope \in SUBSET Scopes :
             LiveToken(t) /\ SetsOut(p, TokenRequest(t, scope))
        BY <1>4 DEF ValidateToken
    <2>2. TokenRequest(t, scope) \in Busy
        BY <2>1, TokenRequestType DEF Kinship
    <2>3. Grants(k)' = Grants(k)
        BY <1>4 DEF ValidateToken, Grants, LiveCode, LiveToken
    <2>4. CASE refresh[t].family = k
        <3>1. <<"refresh", t>> \in Grants(k)
            BY <2>1, <2>4, GrantsMembers
        <3> QED BY <1>4, <2>1, <2>2, <2>4, <3>1, OneGrantRead
                DEF ValidateToken, TokenRequest, Kinship
    <2>5. CASE refresh[t].family # k
        <3>1. request'[p] = TokenRequest(t, scope)
                 /\ \A q \in Requests : q # p => request'[q] = request[q]
            BY <2>1, <2>2, SetOut DEF Kinship
        <3> QED BY <1>4, <2>3, <2>5, <3>1, OneGrantStays DEF ValidateToken, TokenRequest, Holds
    <2> QED BY <2>4, <2>5
<1>5. ASSUME NEW p \in Requests, FindUser(p) PROVE OneGrant(k)'
    <2>1. Grants(k)' \subseteq Grants(k)
        BY <1>5 DEF FindUser, Grants, LiveCode, LiveToken
    <2>2. CASE request[p].user \notin users
        <3>1. CASE Holds(p, k)
            BY <1>5, <2>1, <2>2, <3>1, OneGrantLeft DEF FindUser, Holding, Kinship
        <3>2. CASE ~Holds(p, k)
            <4>1. request'[p] = Idle /\ \A q \in Requests : q # p => request'[q] = request[q]
                BY <1>5, <2>2, EndsIdle DEF FindUser, Kinship
            <4> QED BY <2>1, <3>2, <4>1, OneGrantStays DEF Holds
        <3> QED BY <3>1, <3>2
    <2>3. CASE request[p].user \in users
        <3>1. \E step \in {"user", "touch", "mint"} : Steps(p, step)
            BY <1>5, <2>3 DEF FindUser
        <3> QED BY <1>5, <2>1, <3>1, OneGrantGoesOn DEF FindUser, Kinship
    <2> QED BY <2>2, <2>3
<1>6. ASSUME NEW p \in Requests, Touch(p) PROVE OneGrant(k)'
    <2>1. ASSUME NEW t \in Tokens, refresh'[t] \notin {Unused, Deleted}
          PROVE  LiveToken(t) /\ refresh[t].family = refresh'[t].family
        <3>1. CASE request[p].of.id = t /\ LiveToken(t)
            <4>1. refresh[t] \in TokenRow
                BY <3>1 DEF LiveToken, Kinship, TokenTypeOK
            <4>2. refresh'[t] = [refresh[t] EXCEPT !.net = From[p][2]]
                BY <1>6, <3>1 DEF Touch, Kinship, TokenTypeOK
            <4> QED BY <3>1, <4>1, <4>2 DEF TokenRow
        <3>2. CASE ~(request[p].of.id = t /\ LiveToken(t))
            BY <1>6, <2>1, <3>2 DEF Touch, LiveToken, Kinship, TokenTypeOK
        <3> QED BY <3>1, <3>2
    <2>2. Grants(k)' \subseteq Grants(k)
        BY <1>6, <2>1, NoNewGrants DEF Touch, LiveCode
    <2> QED BY <1>6, <2>2, OneGrantGoesOn DEF Touch, Kinship
<1>7. ASSUME NEW p \in Requests, Respond(p) PROVE OneGrant(k)'
    <2>1. CASE Holds(p, k)
        BY <1>7, <2>1, OneGrantAnswered DEF Respond, Holding, Kinship
    <2>2. CASE ~Holds(p, k)
        <3>1. /\ request'[p].family = request[p].family
              /\ \A q \in Requests : q # p => request'[q] = request[q]
            BY <1>7, StepsTo DEF Respond, Kinship
        <3>2. ASSUME NEW t \in Tokens, refresh'[t] # refresh[t]
              PROVE  refresh'[t].family # k
            <4>1. refresh'[t] = NewToken(p)
                BY <1>7, <3>2 DEF Respond, Kinship, TokenTypeOK
            <4> QED BY <1>7, <2>2, <4>1 DEF NewToken, Holds, Respond
        <3>3. Grants(k)' \subseteq Grants(k)
            BY <1>7, <3>2 DEF Grants, LiveCode, LiveToken, Respond
        <3> QED BY <1>7, <2>2, <3>1, <3>3, OneGrantStays DEF Holds, Respond
    <2> QED BY <2>1, <2>2
<1>8. ASSUME NEW p \in Requests, RespondOrphan(p) PROVE OneGrant(k)'
    <2>1. Grants(k)' \subseteq Grants(k)
        BY <1>8 DEF RespondOrphan, Grants, LiveCode, LiveToken
    <2>2. CASE Holds(p, k)
        BY <1>8, <2>1, <2>2, OneGrantLeft DEF RespondOrphan, Holding, Kinship
    <2>3. CASE ~Holds(p, k)
        <3>1. request'[p] = Idle /\ \A q \in Requests : q # p => request'[q] = request[q]
            BY <1>8, EndsIdle DEF RespondOrphan, Kinship
        <3> QED BY <2>1, <2>3, <3>1, OneGrantStays DEF Holds
    <2> QED BY <2>2, <2>3
<1>9. ASSUME NEW p \in Requests, Burn(p) PROVE OneGrant(k)'
    <2>1. \A t \in Tokens : refresh'[t] \in {refresh[t], Deleted}
        BY <1>9 DEF Burn, Kinship, TokenTypeOK
    <2>2. codes'[k] \in {codes[k], Deleted}
        BY <1>9 DEF Burn, Kinship, TokenTypeOK
    <2>3. Grants(k)' \subseteq Grants(k)
        BY <2>1, <2>2, NoNewGrants DEF LiveCode, LiveToken
    <2>4. CASE Holds(p, k)
        <3>1. RequestKin(p) /\ request[p].of.grant \in {"code", "refresh"}
            BY <1>9, BusyRequest DEF Burn, Kinship, RequestsKin
        <3>2. CASE request[p].of.grant = "code"
            <4>1. Of(p) = <<"code", k>> /\ codes'[k] = Deleted
                BY <1>9, <2>4, <3>1, <3>2 DEF Of, RequestKin, Holds, Burn, Kinship, TokenTypeOK
            <4>2. Of(p) \notin Grants(k)'
                BY <4>1 DEF Grants, LiveCode
            <4> QED BY <1>9, <2>3, <2>4, <4>2, OneGrantLeft DEF Burn, Kinship
        <3>3. CASE request[p].of.grant = "refresh"
            <4>1. Of(p) = <<"refresh", request[p].of.id>> /\ request[p].of.id \in Tokens
                BY <1>9, <3>3, BusyRequest DEF Of, Burn, Kinship
            <4>2. refresh'[request[p].of.id] = Deleted
                BY <1>9, <3>3, <4>1 DEF Burn, Kinship, TokenTypeOK
            <4>3. Of(p) \notin Grants(k)'
                BY <4>1, <4>2 DEF Grants, LiveToken
            <4> QED BY <1>9, <2>3, <2>4, <4>3, OneGrantLeft DEF Burn, Kinship
        <3> QED BY <3>1, <3>2, <3>3
    <2>5. CASE ~Holds(p, k)
        <3>1. request'[p] = Idle /\ \A q \in Requests : q # p => request'[q] = request[q]
            BY <1>9, EndsIdle DEF Burn, Kinship
        <3> QED BY <2>3, <2>5, <3>1, OneGrantStays DEF Holds
    <2> QED BY <2>4, <2>5
<1>10. ASSUME NEW p \in Requests, CutOff(p) PROVE OneGrant(k)'
    <2>1. Grants(k)' \subseteq Grants(k)
        BY <1>10 DEF CutOff, Grants, LiveCode, LiveToken
    <2>2. CASE Holds(p, k)
        <3>1. Holding(p, k)
            BY <1>10, <2>2 DEF CutOff, Holds, Holding
        <3> QED BY <1>10, <2>1, <2>2, <3>1, OneGrantLeft DEF CutOff, Kinship
    <2>3. CASE ~Holds(p, k)
        <3>1. request'[p] = Idle /\ \A q \in Requests : q # p => request'[q] = request[q]
            BY <1>10, EndsIdle DEF CutOff, Kinship
        <3> QED BY <2>1, <2>3, <3>1, OneGrantStays DEF Holds
    <2> QED BY <2>2, <2>3
<1>11. ASSUME NEW l \in Codes, ExpireCode(l) PROVE OneGrant(k)'
    <2>1. codes'[k] \in {codes[k], Deleted}
        BY <1>11 DEF ExpireCode, Kinship, TokenTypeOK
    <2>2. Grants(k)' \subseteq Grants(k)
        BY <1>11, <2>1, NoNewGrants DEF ExpireCode, LiveCode, LiveToken
    <2> QED BY <1>11, <2>2, OneGrantStays DEF ExpireCode
<1>12. ASSUME NEW t \in Tokens, ExpireToken(t) PROVE OneGrant(k)'
    <2>1. \A u \in Tokens : refresh'[u] \in {refresh[u], Deleted}
        BY <1>12 DEF ExpireToken, Kinship, TokenTypeOK
    <2>2. Grants(k)' \subseteq Grants(k)
        BY <1>12, <2>1, NoNewGrants DEF ExpireToken, LiveCode, LiveToken
    <2> QED BY <1>12, <2>2, OneGrantStays DEF ExpireToken
<1>13. ASSUME NEW u \in Users, DeleteUser(u) PROVE OneGrant(k)'
    <2>1. codes'[k] \in {codes[k], Deleted} /\ \A t \in Tokens : refresh'[t] \in {refresh[t], Deleted}
        BY <1>13 DEF DeleteUser
    <2>2. Grants(k)' \subseteq Grants(k)
        BY <2>1, NoNewGrants DEF LiveCode, LiveToken
    <2> QED BY <1>13, <2>2, OneGrantStays DEF DeleteUser
<1>14. ASSUME Evict PROVE OneGrant(k)'
    <2>1. \A t \in Tokens : refresh'[t] \in {refresh[t], Deleted}
        BY <1>14 DEF Evict, Forget
    <2>2. Grants(k)' \subseteq Grants(k)
        BY <1>14, <2>1, NoNewGrants DEF Evict, LiveCode, LiveToken
    <2> QED BY <1>14, <2>2, OneGrantStays DEF Evict
<1>15. ASSUME UNCHANGED tokenVars PROVE OneGrant(k)'
    <2>1. Grants(k)' \subseteq Grants(k)
        BY <1>15 DEF tokenVars, Grants, LiveCode, LiveToken
    <2> QED BY <1>15, <2>1, OneGrantStays DEF tokenVars
<1> QED BY <1>1, <1>2, <1>3, <1>4, <1>5, <1>6, <1>7, <1>8, <1>9, <1>10, <1>11, <1>12,
           <1>13, <1>14, <1>15 DEF Step, TokenNext

\* At most so many grants: the one, and the one that is about to be deleted.
LEMMA OneGrantCounts ==
    ASSUME NEW k \in Codes, OneGrant(k)
    PROVE  Cardinality(Grants(k)) <= IF \E p \in Requests : Burning(p, k) THEN 2 ELSE 1
<1>1. PICK g : \A x \in Grants(k) : x = g \/ \E p \in Requests : Burning(p, k) /\ x = Of(p)
    BY DEF OneGrant
<1>2. CASE \E p \in Requests : Burning(p, k)
    <2>1. PICK p \in Requests : Burning(p, k)
        BY <1>2
    <2>2. \A q \in Requests : Burning(q, k) => q = p
        BY <2>1 DEF OneGrant, Alone, Burning
    <2>3. Grants(k) \subseteq {g} \cup {Of(p)}
        BY <1>1, <2>2
    <2>4. IsFiniteSet({g}) /\ Cardinality({g}) = 1
        BY FS_Singleton
    <2>5. /\ IsFiniteSet({g} \cup {Of(p)})
          /\ Cardinality({g} \cup {Of(p)}) <= 2
        BY <2>4, FS_AddElement
    <2>6. Cardinality(Grants(k)) <= Cardinality({g} \cup {Of(p)})
        BY <2>3, <2>5, FS_Subset
    <2>7. Cardinality(Grants(k)) \in Nat /\ Cardinality({g} \cup {Of(p)}) \in Nat
        BY <2>3, <2>5, FS_Subset, FS_CardinalityType
    <2> QED BY <1>2, <2>5, <2>6, <2>7
<1>3. CASE ~ \E p \in Requests : Burning(p, k)
    <2>1. Grants(k) \subseteq {g}
        BY <1>1, <1>3
    <2>2. IsFiniteSet({g}) /\ Cardinality({g}) = 1
        BY FS_Singleton
    <2>3. Cardinality(Grants(k)) <= Cardinality({g})
        BY <2>1, <2>2, FS_Subset
    <2> QED BY <1>3, <2>2, <2>3
<1> QED BY <1>2, <1>3

(* One consent has one grant, for any number of requests, as long as no two  *)
(* redeem it at once and none is cut off between its answer and its deletion.*)
THEOREM GrantsDoNotFork == TokenSpec => []NoFork
<1>1. TokenInit => Unforked
    <2>1. ASSUME TokenInit, NEW k \in Codes PROVE OneGrant(k)
        <3>1. Grants(k) = {}
            BY <2>1 DEF TokenInit, Grants, LiveCode, LiveToken
        <3>2. \A p \in Requests : ~Holds(p, k)
            BY <2>1 DEF TokenInit, Holds
        <3> QED BY <3>1, <3>2 DEF OneGrant, Alone, Holding
    <2> QED BY <2>1 DEF Unforked
<1>2. Kinship /\ Unforked /\ [TokenNext \/ Evict]_tokenVars => Unforked'
    BY UnforkedStep DEF Step
<1>3. Unforked => NoFork
    BY OneGrantCounts DEF Unforked, NoFork, Burning, Holds
<1> QED BY <1>1, <1>2, <1>3, KinshipHolds, PTL DEF TokenSpec

-----------------------------------------------------------------------------
(* Next to the device list.                                                  *)


(* The whole implements the token endpoint on its own: every commit of the   *)
(* dashboard evicts refresh tokens or is none of its business.               *)
THEOREM EndpointImplemented == Spec => TokenSpec
<1>1. Init => TokenInit
    BY DEF Init
<1>2. ASSUME [Next]_vars PROVE [TokenNext \/ Evict]_tokenVars
    <2>1. CASE TokenNext
        BY <2>1
    <2>2. ASSUME NEW u \in Users, SignIn(u) \/ Revoke(u)
          PROVE  UNCHANGED tokenVars
        BY <2>2 DEF SignIn, Revoke
    <2>3. ASSUME NEW u \in Users, RevokeOne(u)
          PROVE  Evict \/ UNCHANGED tokenVars
        <3>1. PICK x \in revoking[u] :
                 IF x.kind = "session" THEN UNCHANGED refresh ELSE Forget({x.id})
            BY <2>3 DEF RevokeOne
        <3>2. CASE x.kind = "session"
            BY <2>3, <3>1, <3>2 DEF RevokeOne, tokenVars
        <3>3. CASE x.kind # "session"
            <4>1. Forget({x.id} \cap Tokens)
                BY <3>1, <3>3 DEF Forget
            <4> QED BY <2>3, <4>1 DEF RevokeOne, Evict
        <3> QED BY <3>2, <3>3
    <2>4. ASSUME NEW u \in Users, Sweep(u)
          PROVE  Evict
        BY <2>4 DEF Sweep, Evict
    <2>5. ASSUME NEW s \in Sessions, Visit(s) \/ EndSession(s) \/ SignOutOthers(s)
          PROVE  UNCHANGED tokenVars
        BY <2>5 DEF Visit, EndSession, SignOutOthers
    <2>6. CASE UNCHANGED vars
        BY <2>6 DEF vars, tokenVars
    <2> QED BY <1>2, <2>1, <2>2, <2>3, <2>4, <2>5, <2>6 DEF Next
<1> QED BY <1>1, <1>2, PTL DEF Spec, TokenSpec

(* What the token endpoint promises holds while devices are signed out.      *)
THEOREM EndpointPromises ==
    Spec => /\ []AnswersWithinConsent /\ []PkceHolds /\ []NoFork /\ []UnansweredKept
            /\ StaysDead
BY EndpointImplemented, ConsentBounds, ChallengeAnswered, GrantsDoNotFork, CodesKeptForRetry,
   DeadForGood, PTL

-----------------------------------------------------------------------------
LEMMA DeviceTypes ==
    ASSUME NEW u \in Users, NEW device \in Devices(u)
    PROVE  device \subseteq Token
<1>1. \A a \in Agents, n \in Nets : Device(u, a, n) \subseteq Token
    BY DEF Device, Token
<1> QED BY <1>1 DEF Devices

LEMMA DeviceTypeStep ==
    ASSUME TypeOK, TokenTypeOK', [Next]_vars
    PROVE  TypeOK'
<1>1. ASSUME TokenNext, Cascades, UNCHANGED <<revoking, sweeping>> PROVE TypeOK'
    BY <1>1 DEF TypeOK, Cascades
<1>2. ASSUME NEW u \in Users, SignIn(u) PROVE TypeOK'
    BY <1>2 DEF TypeOK, SignIn, SessionRow
<1>3. ASSUME NEW u \in Users, Revoke(u) PROVE TypeOK'
    BY <1>3, DeviceTypes DEF TypeOK, Revoke
<1>4. ASSUME NEW u \in Users, RevokeOne(u) PROVE TypeOK'
    <2>1. PICK x \in revoking[u] :
             /\ revoking' = [revoking EXCEPT ![u] = @ \ {x}]
             /\ \/ x.kind = "session" /\ session' = [session EXCEPT ![x.id] = Deleted]
                \/ UNCHANGED session
        BY <1>4 DEF RevokeOne
    <2>2. session' \in [Sessions -> SessionRow \cup {Unused, Deleted}]
        BY <2>1 DEF TypeOK
    <2>3. revoking' \in [Users -> SUBSET Token]
        BY <2>1 DEF TypeOK
    <2> QED BY <1>4, <2>2, <2>3 DEF TypeOK, RevokeOne
<1>5. ASSUME NEW u \in Users, Sweep(u) PROVE TypeOK'
    BY <1>5 DEF TypeOK, Sweep
<1>6. ASSUME NEW s \in Sessions, Visit(s) PROVE TypeOK'
    <2>1. PICK n \in Nets : session' = [session EXCEPT ![s].net = n]
        BY <1>6 DEF Visit
    <2>2. session[s] \in SessionRow
        BY <1>6 DEF Visit, LiveSession, TypeOK
    <2>3. [session[s] EXCEPT !.net = n] \in SessionRow
        BY <2>2 DEF SessionRow
    <2>4. session' = [session EXCEPT ![s] = [session[s] EXCEPT !.net = n]]
        BY <2>1
    <2> QED BY <1>6, <2>3, <2>4 DEF TypeOK, Visit
<1>7. ASSUME NEW s \in Sessions, EndSession(s) PROVE TypeOK'
    BY <1>7 DEF TypeOK, EndSession
<1>8. ASSUME NEW s \in Sessions, SignOutOthers(s) PROVE TypeOK'
    <2>1. session[s].user \in Users
        BY <1>8 DEF SignOutOthers, LiveSession, TypeOK, SessionRow
    <2> QED BY <1>8, <2>1 DEF TypeOK, SignOutOthers
<1>9. ASSUME UNCHANGED vars PROVE TypeOK'
    BY <1>9 DEF TypeOK, vars
<1> QED BY <1>1, <1>2, <1>3, <1>4, <1>5, <1>6, <1>7, <1>8, <1>9 DEF Next

(* The rows of sessions and the lists of the requests keep their types.      *)
THEOREM DeviceTypeCorrect == Spec => []TypeOK
<1>1. Init => TypeOK
    <2>1. TokenInit => TokenTypeOK
        BY DEF TokenInit, TokenTypeOK
    <2> QED BY <2>1 DEF Init, TypeOK
<1>2. TypeOK /\ TokenTypeOK' /\ [Next]_vars => TypeOK'
    BY DeviceTypeStep
<1> QED BY <1>1, <1>2, EndpointImplemented, TypeCorrect, PTL DEF Spec

-----------------------------------------------------------------------------
(* Signing out everywhere else takes the grants of every family at rest: the *)
(* user of a refresh token is the user of the code it goes back to.          *)
THEOREM SignOutIsComplete == Spec => SignOutReaches
<1> DEFINE A == \A u \in sweeping \ sweeping' : \A k \in Codes :
                   codes[k] = Deleted /\ origin[k].user = u /\ ~Underway(k) => Grants(k)' = {}
<1>1. ASSUME Kinship, [Next]_vars, NEW u \in sweeping \ sweeping', NEW k \in Codes,
             codes[k] = Deleted, origin[k].user = u
      PROVE  Grants(k)' = {}
    <2>1. ASSUME NEW v \in Users, Sweep(v) PROVE Grants(k)' = {}
        <3>1. v = u
            BY <1>1, <2>1 DEF Sweep
        <3>2. \A t \in Tokens : LiveToken(t) /\ refresh[t].family = k => refresh[t].user = u
            BY <1>1 DEF Kinship, TokensKin, Kin
        <3>3. \A t \in Tokens : refresh'[t] \notin {Unused, Deleted} =>
                 LiveToken(t) /\ refresh'[t] = refresh[t] /\ refresh[t].user # u
            BY <2>1, <3>1 DEF Sweep, Forget, LiveToken
        <3>4. codes'[k] = Deleted
            BY <1>1, <2>1 DEF Sweep
        <3> QED BY <3>2, <3>3, <3>4 DEF Grants, LiveCode, LiveToken
    <2>2. ASSUME NEW v \in Users, SignIn(v) \/ Revoke(v) \/ RevokeOne(v) PROVE FALSE
        BY <1>1, <2>2 DEF SignIn, Revoke, RevokeOne
    <2>3. ASSUME NEW s \in Sessions, Visit(s) \/ EndSession(s) \/ SignOutOthers(s) PROVE FALSE
        BY <1>1, <2>3 DEF Visit, EndSession, SignOutOthers
    <2>4. UNCHANGED vars => FALSE
        BY <1>1 DEF vars
    <2> QED BY <1>1, <2>1, <2>2, <2>3, <2>4 DEF Next
<1>2. Kinship /\ [Next]_vars => [A]_vars
    BY <1>1
<1>3. Spec => [][A]_vars
    BY <1>2, EndpointImplemented, KinshipHolds, PTL DEF Spec
<1> QED BY <1>3 DEF SignOutReaches
=============================================================================
