----------------------------- MODULE MCAuthFlow -----------------------------
(* Instances of AuthFlow for TLC.                                            *)
EXTENDS AuthFlow, FiniteSets, TLC

CONSTANTS u1, u2, c1, c2, b1, b2, openid, email, phone

Plain == [verified |-> TRUE, totp |-> "none", passkey |-> FALSE,
          enabled |-> FALSE, recovery |-> 0]
NewUser == [Plain EXCEPT !.verified = FALSE]
Totp == [Plain EXCEPT !.totp = "confirmed", !.enabled = TRUE, !.recovery = 1]
Passkey == [Plain EXCEPT !.passkey = TRUE, !.enabled = TRUE]
Both == [Totp EXCEPT !.passkey = TRUE]

\* A secret that no longer decrypts; a flag without, and a secret without flag.
Broken == [Totp EXCEPT !.totp = "broken"]
Orphan == [Plain EXCEPT !.enabled = TRUE]
Unflagged == [Totp EXCEPT !.enabled = FALSE]

Anyone == {NewUser, Totp, Passkey, Both, Broken, Orphan}
AnyoneAlone == {Plain, NewUser, Totp, Passkey, [Both EXCEPT !.recovery = 0],
                [Broken EXCEPT !.passkey = TRUE], Broken, Orphan, Unflagged}

Ask == [client |-> c1, scope |-> {openid}, acr |-> 0, recent |-> TRUE,
        prompt |-> "absent", screen |-> "login"]
Asks == {Ask, [Ask EXCEPT !.client = c2], [Ask EXCEPT !.scope = {openid, email}],
         [Ask EXCEPT !.prompt = "consent"]}
Overlapping == {Ask, [Ask EXCEPT !.client = c2], [Ask EXCEPT !.scope = {openid, email}],
                [Ask EXCEPT !.scope = {openid, phone}]}

\* Everybody shares the login session of one plain request ...
Shared ==
    /\ login[1] = Unused \/ asked[1] = Ask
    /\ \A l \in LoginIds \ {1} : login[l] = Unused
    /\ \A l \in LoginIds : Stored(l) => ~login[l].expired

\* ... or one user has all of them in the tabs of one browser, and one session.
Alone ==
    /\ \A s \in SessionIds : session[s] # Deleted /\ (session[s] = Unused \/ s = 1)
    /\ \E u \in Users, b \in Browsers :
        /\ users[u] \in {NewUser, Plain}
        /\ \A v \in Users \ {u} : users[v] = NewUser
        /\ \A l \in LoginIds : primary[l] \in {u, None}
        /\ \A c \in Browsers \ {b} : browser[c].login = None

SharedOrAlone == Shared \/ Alone

Interchangeable == Permutations(Users) \cup Permutations(Browsers)
=============================================================================
