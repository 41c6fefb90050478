------------------------- MODULE SecondFactorsProofs -------------------------
(* Theorems about SecondFactors, for any number of requests, secrets, codes  *)
(* and passkeys.                                                             *)
EXTENDS SecondFactors, TLAPS

Going == Busy \cup {Idle}

LEMMA IdleIsNotBusy == Idle \notin Busy
<1> SUFFICES ASSUME Idle \in Busy
             PROVE  FALSE
  OBVIOUS
<1>1. Idle.step \in Step
  BY DEF Busy
<1> QED
  BY <1>1 DEF Idle, Step

(* A request that commits goes on as it says, and the others at most cease   *)
(* to be calm, for a reason.                                                 *)
LEMMA CommitEffect ==
    ASSUME request \in [Requests -> Going], NEW p \in Requests, NEW r, Commits(p, r)
    PROVE  /\ request'[p] = r
           /\ \A q \in Requests \ {p} :
                 \/ request'[q] = request[q]
                 \/ /\ request[q] \in Busy
                    /\ request'[q] = [request[q] EXCEPT !.calm = FALSE]
           /\ \A q \in Requests \ {p} :
                 request'[q] # Idle /\ request'[q].calm =>
                    /\ request'[q] = request[q]
                    /\ enabled' = enabled /\ Confirmed' = Confirmed /\ passkeys' = passkeys
           /\ r \in Going => request' \in [Requests -> Going]
<1> DEFINE moved == <<enabled, Confirmed, passkeys>>' # <<enabled, Confirmed, passkeys>>
<1>1. request' = [q \in Requests |->
                     IF q = p THEN r
                     ELSE IF moved /\ request[q] # Idle THEN [request[q] EXCEPT !.calm = FALSE]
                     ELSE request[q]]
  BY DEF Commits
<1>2. ~moved => enabled' = enabled /\ Confirmed' = Confirmed /\ passkeys' = passkeys
  OBVIOUS
<1> HIDE DEF moved
<1>3. \A q \in Requests : request[q] # Idle => request[q] \in Busy
  BY DEF Going
<1>4. ASSUME NEW b \in Busy
      PROVE  /\ [b EXCEPT !.calm = FALSE] \in Busy
             /\ ~ [b EXCEPT !.calm = FALSE].calm
  BY DEF Busy
<1>5. request'[p] = r
  BY <1>1
<1>6. \A q \in Requests \ {p} :
         IF moved /\ request[q] # Idle THEN request'[q] = [request[q] EXCEPT !.calm = FALSE]
         ELSE request'[q] = request[q]
  BY <1>1
<1>7. \A q \in Requests \ {p} :
         request'[q] # Idle /\ request'[q].calm =>
            request'[q] = request[q] /\ ~moved
  BY <1>3, <1>4, <1>6
<1>8. r \in Going => request' \in [Requests -> Going]
  BY <1>1, <1>3, <1>4 DEF Going
<1> QED
  BY <1>2, <1>3, <1>5, <1>6, <1>7, <1>8

LEMMA ReadEffect ==
    ASSUME request \in [Requests -> Going], NEW p \in Requests, NEW r, Reads(p, r)
    PROVE  /\ request'[p] = r
           /\ \A q \in Requests \ {p} : request'[q] = request[q]
           /\ r \in Going => request' \in [Requests -> Going]
  BY DEF Reads

(* A request in flight can go on from any step to any other.                 *)
LEMMA ToType ==
    ASSUME request \in [Requests -> Going], NEW p \in Requests, request[p] # Idle,
           NEW step \in Step
    PROVE  /\ request[p] \in Busy
           /\ To(p, step) \in Busy
           /\ To(p, step).step = step
           /\ To(p, step).seen = request[p].seen
           /\ To(p, step).row = request[p].row
           /\ To(p, step).has = request[p].has
           /\ To(p, step).left = request[p].left
           /\ To(p, step).calm = request[p].calm
  BY DEF Going, Busy, To

(* A request in flight stays one when it notes a count or a verdict.         *)
LEMMA BusyUpdates ==
    ASSUME NEW b \in Busy
    PROVE  /\ \A h \in BOOLEAN :
                 LET n == [b EXCEPT !.has = h]
                 IN  n \in Busy /\ n.step = b.step /\ n.has = h /\ n.calm = b.calm /\ n.seen = b.seen
           /\ \A k \in 0 .. NumCodes :
                 LET n == [b EXCEPT !.left = k]
                 IN  n \in Busy /\ n.step = b.step /\ n.left = k /\ n.calm = b.calm /\ n.seen = b.seen
  BY DEF Busy

(* What a request in flight holds on to while it writes.                     *)
RowsHeld ==
    \A p \in Requests :
        /\ At(p, "use") => request[p].row \in Codes
        /\ At(p, "fill") => request[p].left # 0

LEMMA CommitsKeepRows ==
    ASSUME request \in [Requests -> Going], RowsHeld,
           NEW p \in Requests, NEW r \in Going, Commits(p, r) \/ Reads(p, r),
           r # Idle => /\ r.step = "use" => r.row \in Codes
                       /\ r.step = "fill" => r.left # 0
    PROVE  RowsHeld' /\ request' \in [Requests -> Going]
<1>1. /\ request'[p] = r
      /\ \A q \in Requests \ {p} :
            \/ request'[q] = request[q]
            \/ /\ request[q] \in Busy
               /\ request'[q] = [request[q] EXCEPT !.calm = FALSE]
      /\ request' \in [Requests -> Going]
  BY CommitEffect, ReadEffect
<1>2. ASSUME NEW b \in Busy
      PROVE  /\ [b EXCEPT !.calm = FALSE].step = b.step
             /\ [b EXCEPT !.calm = FALSE].row = b.row
             /\ [b EXCEPT !.calm = FALSE].left = b.left
             /\ b # Idle
  BY IdleIsNotBusy DEF Busy
<1>3. ASSUME NEW q \in Requests
      PROVE  /\ At(q, "use")' => request'[q].row \in Codes
             /\ At(q, "fill")' => request'[q].left # 0
  <2>1. CASE q = p
    BY <1>1, <2>1 DEF At
  <2>2. CASE q # p /\ request'[q] = request[q]
    BY <2>2 DEF At, RowsHeld
  <2>3. CASE q # p /\ request[q] \in Busy /\ request'[q] = [request[q] EXCEPT !.calm = FALSE]
    BY <2>3, <1>2 DEF At, RowsHeld
  <2>4. QED
    BY <1>1, <2>1, <2>2, <2>3
<1>4. QED
  BY <1>1, <1>3 DEF RowsHeld

LEMMA TablesCleared ==
    /\ TypeOK /\ NoSecret =>
          secret' \in [Secrets -> {"unused", "pending", "confirmed", "deleted"}]
    /\ TypeOK /\ NoCodes =>
          /\ recovery' \in [Codes -> {"unused", "fresh", "used", "deleted"}]
          /\ replaced' \subseteq Codes
  BY DEF TypeOK, NoSecret, NoCodes

ITypes == TypeOK /\ RowsHeld

(* Type correctness: in particular a new set of recovery codes is counted    *)
(* down to its end, however many requests write theirs at once.              *)
THEOREM FactorTypes == Spec => []ITypes
<1>1. Init => ITypes
  BY DEF Init, ITypes, TypeOK, RowsHeld, At
<1>2. ITypes /\ [Next]_vars => ITypes'
  <2> SUFFICES ASSUME ITypes, [Next]_vars
               PROVE  ITypes'
    OBVIOUS
  <2> USE FactorAssumption
  <2>0. request \in [Requests -> Going] /\ RowsHeld
    BY DEF ITypes, TypeOK, Going
  <2>t. \A p \in Requests, step \in Step :
           request[p] # Idle => To(p, step) \in Busy /\ To(p, step).step = step
    BY <2>0, ToType
  <2>a. ASSUME NEW p \in Requests, Arrive(p)
        PROVE  ITypes'
    <3> DEFINE r == [step |-> "start", seen |-> enabled, row |-> NoRow, login |-> FALSE,
                     has |-> FALSE, left |-> 0, calm |-> TRUE]
    <3>1. r \in Going /\ r.step = "start" /\ Reads(p, r)
      BY <2>a DEF Arrive, Going, Busy, Step, ITypes, TypeOK
    <3> HIDE DEF r
    <3>2. RowsHeld' /\ request' \in [Requests -> Going]
      BY <2>0, <3>1, CommitsKeepRows
    <3>3. QED
      BY <2>a, <3>2 DEF Arrive, ITypes, TypeOK, Going, history
  <2>b. ASSUME NEW p \in Requests, BeginEnrollment(p)
        PROVE  ITypes'
    <3>1. PICK r \in Going : /\ Commits(p, r) \/ Reads(p, r)
                             /\ r # Idle => /\ r.step = "use" => r.row \in Codes
                                            /\ r.step = "fill" => r.left # 0
      BY <2>b, <2>t DEF BeginEnrollment, Going, Step, At
    <3>2. RowsHeld' /\ request' \in [Requests -> Going]
      BY <2>0, <3>1, CommitsKeepRows
    <3>3. QED
      BY <2>b, <3>2 DEF BeginEnrollment, ITypes, TypeOK, Going, history
  <2>c. ASSUME NEW p \in Requests, Clear(p)
        PROVE  ITypes'
    <3>1. PICK r \in Going : /\ Commits(p, r) \/ Reads(p, r)
                             /\ r # Idle => /\ r.step = "use" => r.row \in Codes
                                            /\ r.step = "fill" => r.left # 0
      BY <2>c, <2>t DEF Clear, Going, Step, At
    <3>2. RowsHeld' /\ request' \in [Requests -> Going]
      BY <2>0, <3>1, CommitsKeepRows
    <3>3. QED
      BY <2>c, <3>2, TablesCleared DEF Clear, ITypes, TypeOK, Going, history
  <2>d. ASSUME NEW p \in Requests, Create(p)
        PROVE  ITypes'
    <3>1. PICK r \in Going : /\ Commits(p, r) \/ Reads(p, r)
                             /\ r # Idle => /\ r.step = "use" => r.row \in Codes
                                            /\ r.step = "fill" => r.left # 0
      BY <2>d, <2>t DEF Create, Going, Step, At
    <3>2. RowsHeld' /\ request' \in [Requests -> Going]
      BY <2>0, <3>1, CommitsKeepRows
    <3>3. QED
      BY <2>d, <3>2 DEF Create, ITypes, TypeOK, Going, history
  <2>e. ASSUME NEW p \in Requests, ConfirmEnrollment(p)
        PROVE  ITypes'
    <3>a. To(p, "confirm") \in Busy /\ To(p, "confirm").step = "confirm"
      BY <2>e, <2>t DEF ConfirmEnrollment, At, Step
    <3>b. PICK x \in Secrets : Reads(p, [To(p, "confirm") EXCEPT !.row = x])
      BY <2>e DEF ConfirmEnrollment
    <3>c. /\ [To(p, "confirm") EXCEPT !.row = x] \in Busy
          /\ [To(p, "confirm") EXCEPT !.row = x].step = "confirm"
      BY <3>a DEF Busy
    <3>1. PICK r \in Going : /\ Commits(p, r) \/ Reads(p, r)
                             /\ r # Idle => /\ r.step = "use" => r.row \in Codes
                                            /\ r.step = "fill" => r.left # 0
      BY <3>b, <3>c DEF Going
    <3>2. RowsHeld' /\ request' \in [Requests -> Going]
      BY <2>0, <3>1, CommitsKeepRows
    <3>3. QED
      BY <2>e, <3>2 DEF ConfirmEnrollment, ITypes, TypeOK, Going, history
  <2>f. ASSUME NEW p \in Requests, Confirm(p)
        PROVE  ITypes'
    <3>1. PICK r \in Going : /\ Commits(p, r) \/ Reads(p, r)
                             /\ r # Idle => /\ r.step = "use" => r.row \in Codes
                                            /\ r.step = "fill" => r.left # 0
      BY <2>f, <2>t DEF Confirm, Going, Step, At
    <3>2. RowsHeld' /\ request' \in [Requests -> Going]
      BY <2>0, <3>1, CommitsKeepRows
    <3>3. QED
      BY <2>f, <3>2 DEF Confirm, ITypes, TypeOK, Going, history
  <2>g. ASSUME NEW p \in Requests, Raise(p)
        PROVE  ITypes'
    <3>1. PICK r \in Going : /\ Commits(p, r) \/ Reads(p, r)
                             /\ r # Idle => /\ r.step = "use" => r.row \in Codes
                                            /\ r.step = "fill" => r.left # 0
      BY <2>g, <2>t DEF Raise, Going, Step, At
    <3>2. RowsHeld' /\ request' \in [Requests -> Going]
      BY <2>0, <3>1, CommitsKeepRows
    <3>3. QED
      BY <2>g, <3>2 DEF Raise, ITypes, TypeOK, Going, history
  <2>h. ASSUME NEW p \in Requests, Regenerate(p)
        PROVE  ITypes'
    <3>1. PICK r \in Going : /\ Commits(p, r) \/ Reads(p, r)
                             /\ r # Idle => /\ r.step = "use" => r.row \in Codes
                                            /\ r.step = "fill" => r.left # 0
      BY <2>h, <2>t DEF Regenerate, Going, Step, At
    <3>2. RowsHeld' /\ request' \in [Requests -> Going]
      BY <2>0, <3>1, CommitsKeepRows
    <3>3. QED
      BY <2>h, <3>2 DEF Regenerate, ITypes, TypeOK, Going, history
  <2>i. ASSUME NEW p \in Requests, Wipe(p)
        PROVE  ITypes'
    <3>a. To(p, "fill") \in Busy /\ To(p, "fill").step = "fill"
      BY <2>i, <2>t DEF Wipe, At, Step
    <3>b. NumCodes \in 0 .. NumCodes /\ NumCodes # 0
      OBVIOUS
    <3>c. LET n == [To(p, "fill") EXCEPT !.left = NumCodes]
          IN  n \in Busy /\ n.step = "fill" /\ n.left # 0
      BY <3>a, <3>b, BusyUpdates
    <3>1. PICK r \in Going : /\ Commits(p, r) \/ Reads(p, r)
                             /\ r # Idle => /\ r.step = "use" => r.row \in Codes
                                            /\ r.step = "fill" => r.left # 0
      BY <2>i, <3>c DEF Wipe, Going
    <3>2. RowsHeld' /\ request' \in [Requests -> Going]
      BY <2>0, <3>1, CommitsKeepRows
    <3>3. QED
      BY <2>i, <3>2, TablesCleared DEF Wipe, ITypes, TypeOK, Going, history
  <2>j. ASSUME NEW p \in Requests, Fill(p)
        PROVE  ITypes'
    <3>a. request[p] \in Busy /\ request[p].step = "fill" /\ request[p].left # 0
      BY <2>j, <2>0, ToType DEF Fill, At, RowsHeld, Going
    <3>b. request[p].left \in 0 .. NumCodes
      BY <3>a DEF Busy
    <3>c. request[p].left # 1 => request[p].left - 1 \in 0 .. NumCodes /\ request[p].left - 1 # 0
      BY <3>a, <3>b
    <3>d. request[p].left # 1 =>
             LET n == [request[p] EXCEPT !.left = request[p].left - 1]
             IN  n \in Busy /\ n.step = "fill" /\ n.left # 0
      BY <3>a, <3>c, BusyUpdates
    <3>1. PICK r \in Going : /\ Commits(p, r) \/ Reads(p, r)
                             /\ r # Idle => /\ r.step = "use" => r.row \in Codes
                                            /\ r.step = "fill" => r.left # 0
      BY <2>j, <3>d DEF Fill, Going
    <3>2. RowsHeld' /\ request' \in [Requests -> Going]
      BY <2>0, <3>1, CommitsKeepRows
    <3>3. QED
      BY <2>j, <3>2 DEF Fill, ITypes, TypeOK, Going, history
  <2>k. ASSUME NEW p \in Requests, Verify(p)
        PROVE  ITypes'
    <3>a. To(p, "stamp") \in Busy /\ To(p, "stamp").step = "stamp"
      BY <2>k, <2>t DEF Verify, At, Step
    <3>b. PICK x \in Secrets, l \in BOOLEAN :
             Reads(p, [To(p, "stamp") EXCEPT !.row = x, !.login = l])
      BY <2>k DEF Verify, Confirmed
    <3>c. /\ [To(p, "stamp") EXCEPT !.row = x, !.login = l] \in Busy
          /\ [To(p, "stamp") EXCEPT !.row = x, !.login = l].step = "stamp"
      BY <3>a DEF Busy
    <3>1. PICK r \in Going : /\ Commits(p, r) \/ Reads(p, r)
                             /\ r # Idle => /\ r.step = "use" => r.row \in Codes
                                            /\ r.step = "fill" => r.left # 0
      BY <3>b, <3>c DEF Going
    <3>2. RowsHeld' /\ request' \in [Requests -> Going]
      BY <2>0, <3>1, CommitsKeepRows
    <3>3. QED
      BY <2>k, <3>2 DEF Verify, ITypes, TypeOK, Going, history
  <2>l. ASSUME NEW p \in Requests, Stamp(p)
        PROVE  ITypes'
    <3>1. PICK r \in Going : /\ Commits(p, r) \/ Reads(p, r)
                             /\ r # Idle => /\ r.step = "use" => r.row \in Codes
                                            /\ r.step = "fill" => r.left # 0
      BY <2>l, <2>t DEF Stamp, Going, Step, At
    <3>2. RowsHeld' /\ request' \in [Requests -> Going]
      BY <2>0, <3>1, CommitsKeepRows
    <3>3. QED
      BY <2>l, <3>2 DEF Stamp, ITypes, TypeOK, Going, history
  <2>m. ASSUME NEW p \in Requests, Consume(p)
        PROVE  ITypes'
    <3>a. To(p, "use") \in Busy /\ To(p, "use").step = "use"
      BY <2>m, <2>t DEF Consume, At, Step
    <3>b. PICK c \in Codes : Reads(p, [To(p, "use") EXCEPT !.row = c])
      BY <2>m DEF Consume, Matches
    <3>c. /\ [To(p, "use") EXCEPT !.row = c] \in Busy
          /\ [To(p, "use") EXCEPT !.row = c].step = "use"
          /\ [To(p, "use") EXCEPT !.row = c].row = c
      BY <3>a DEF Busy
    <3>1. PICK r \in Going : /\ Commits(p, r) \/ Reads(p, r)
                             /\ r # Idle => /\ r.step = "use" => r.row \in Codes
                                            /\ r.step = "fill" => r.left # 0
      BY <3>b, <3>c DEF Going
    <3>2. RowsHeld' /\ request' \in [Requests -> Going]
      BY <2>0, <3>1, CommitsKeepRows
    <3>3. QED
      BY <2>m, <3>2 DEF Consume, Matches, ITypes, TypeOK, Going, history
  <2>n. ASSUME NEW p \in Requests, Use(p)
        PROVE  ITypes'
    <3>1. PICK r \in Going : /\ Commits(p, r) \/ Reads(p, r)
                             /\ r # Idle => /\ r.step = "use" => r.row \in Codes
                                            /\ r.step = "fill" => r.left # 0
      BY <2>n, <2>t DEF Use, Going, Step, At
    <3>2. RowsHeld' /\ request' \in [Requests -> Going]
      BY <2>0, <3>1, CommitsKeepRows
    <3>a. request[p].row \in Codes
      BY <2>n, <2>0 DEF Use, RowsHeld
    <3>3. QED
      BY <2>n, <3>a, <3>2 DEF Use, ITypes, TypeOK, Going, history
  <2>o. ASSUME NEW p \in Requests, SelfHeal(p)
        PROVE  ITypes'
    <3>1. PICK r \in Going : /\ Commits(p, r) \/ Reads(p, r)
                             /\ r # Idle => /\ r.step = "use" => r.row \in Codes
                                            /\ r.step = "fill" => r.left # 0
      BY <2>o, <2>t DEF SelfHeal, Going, Step, At
    <3>2. RowsHeld' /\ request' \in [Requests -> Going]
      BY <2>0, <3>1, CommitsKeepRows
    <3>3. QED
      BY <2>o, <3>2 DEF SelfHeal, ITypes, TypeOK, Going, history
  <2>p. ASSUME NEW p \in Requests, ForceReenroll(p)
        PROVE  ITypes'
    <3>1. PICK r \in Going : /\ Commits(p, r) \/ Reads(p, r)
                             /\ r # Idle => /\ r.step = "use" => r.row \in Codes
                                            /\ r.step = "fill" => r.left # 0
      BY <2>p, <2>t DEF ForceReenroll, Going, Step, At
    <3>2. RowsHeld' /\ request' \in [Requests -> Going]
      BY <2>0, <3>1, CommitsKeepRows
    <3>3. QED
      BY <2>p, <3>2 DEF ForceReenroll, ITypes, TypeOK, Going, history
  <2>q. ASSUME NEW p \in Requests, Drop(p)
        PROVE  ITypes'
    <3>1. PICK r \in Going : /\ Commits(p, r) \/ Reads(p, r)
                             /\ r # Idle => /\ r.step = "use" => r.row \in Codes
                                            /\ r.step = "fill" => r.left # 0
      BY <2>q, <2>t DEF Drop, Going, Step, At
    <3>2. RowsHeld' /\ request' \in [Requests -> Going]
      BY <2>0, <3>1, CommitsKeepRows
    <3>3. QED
      BY <2>q, <3>2, TablesCleared DEF Drop, ITypes, TypeOK, Going, history
  <2>r. ASSUME NEW p \in Requests, Forget(p)
        PROVE  ITypes'
    <3>1. PICK r \in Going : /\ Commits(p, r) \/ Reads(p, r)
                             /\ r # Idle => /\ r.step = "use" => r.row \in Codes
                                            /\ r.step = "fill" => r.left # 0
      BY <2>r, <2>t DEF Forget, Going, Step, At
    <3>2. RowsHeld' /\ request' \in [Requests -> Going]
      BY <2>0, <3>1, CommitsKeepRows
    <3>3. QED
      BY <2>r, <3>2, TablesCleared DEF Forget, ITypes, TypeOK, Going, history
  <2>s. ASSUME NEW p \in Requests, AddPasskey(p)
        PROVE  ITypes'
    <3>1. PICK r \in Going : /\ Commits(p, r) \/ Reads(p, r)
                             /\ r # Idle => /\ r.step = "use" => r.row \in Codes
                                            /\ r.step = "fill" => r.left # 0
      BY <2>s, <2>t DEF AddPasskey, Going, Step, At
    <3>2. RowsHeld' /\ request' \in [Requests -> Going]
      BY <2>0, <3>1, CommitsKeepRows
    <3>3. QED
      BY <2>s, <3>2 DEF AddPasskey, ITypes, TypeOK, Going, history
  <2>u. ASSUME NEW p \in Requests, RemovePasskey(p)
        PROVE  ITypes'
    <3>1. PICK r \in Going : /\ Commits(p, r) \/ Reads(p, r)
                             /\ r # Idle => /\ r.step = "use" => r.row \in Codes
                                            /\ r.step = "fill" => r.left # 0
      BY <2>u, <2>t DEF RemovePasskey, Going, Step, At
    <3>2. RowsHeld' /\ request' \in [Requests -> Going]
      BY <2>0, <3>1, CommitsKeepRows
    <3>3. QED
      BY <2>u, <3>2 DEF RemovePasskey, ITypes, TypeOK, Going, history
  <2>v. ASSUME NEW p \in Requests, Recount(p)
        PROVE  ITypes'
    <3>a. To(p, "count") \in Busy /\ To(p, "count").step = "count"
      BY <2>v, <2>t DEF Recount, At, Step
    <3>1. PICK r \in Going : /\ Commits(p, r) \/ Reads(p, r)
                             /\ r # Idle => /\ r.step = "use" => r.row \in Codes
                                            /\ r.step = "fill" => r.left # 0
      BY <2>v, <3>a, BusyUpdates DEF Recount, Going
    <3>2. RowsHeld' /\ request' \in [Requests -> Going]
      BY <2>0, <3>1, CommitsKeepRows
    <3>3. QED
      BY <2>v, <3>2 DEF Recount, ITypes, TypeOK, Going, history
  <2>w. ASSUME NEW p \in Requests, Count(p)
        PROVE  ITypes'
    <3>a. To(p, "write") \in Busy /\ To(p, "write").step = "write"
      BY <2>w, <2>t DEF Count, At, Step
    <3>b. (To(p, "write").has \/ passkeys # {}) \in BOOLEAN
      OBVIOUS
    <3>1. PICK r \in Going : /\ Commits(p, r) \/ Reads(p, r)
                             /\ r # Idle => /\ r.step = "use" => r.row \in Codes
                                            /\ r.step = "fill" => r.left # 0
      BY <2>w, <3>a, <3>b, BusyUpdates DEF Count, Going
    <3>2. RowsHeld' /\ request' \in [Requests -> Going]
      BY <2>0, <3>1, CommitsKeepRows
    <3>3. QED
      BY <2>w, <3>2 DEF Count, ITypes, TypeOK, Going, history
  <2>x. ASSUME NEW p \in Requests, Write(p)
        PROVE  ITypes'
    <3>1. PICK r \in Going : /\ Commits(p, r) \/ Reads(p, r)
                             /\ r # Idle => /\ r.step = "use" => r.row \in Codes
                                            /\ r.step = "fill" => r.left # 0
      BY <2>x, <2>t DEF Write, Written, Going, Step, At
    <3>2. RowsHeld' /\ request' \in [Requests -> Going]
      BY <2>0, <3>1, CommitsKeepRows
    <3>a. request[p] \in Busy
      BY <2>x, <2>0, ToType DEF Write, At, Going
    <3>b. Written(p) \in BOOLEAN
      BY <3>a DEF Written, ITypes, TypeOK, Busy
    <3>3. QED
      BY <2>x, <3>b, <3>2 DEF Write, ITypes, TypeOK, Going, history
  <2>y. ASSUME NEW p \in Requests, CutOff(p)
        PROVE  ITypes'
    <3>1. PICK r \in Going : /\ Commits(p, r) \/ Reads(p, r)
                             /\ r # Idle => /\ r.step = "use" => r.row \in Codes
                                            /\ r.step = "fill" => r.left # 0
      BY <2>y, <2>t DEF CutOff, Going, Step, At
    <3>2. RowsHeld' /\ request' \in [Requests -> Going]
      BY <2>0, <3>1, CommitsKeepRows
    <3>3. QED
      BY <2>y, <3>2 DEF CutOff, ITypes, TypeOK, Going, history
  <2>z. CASE UNCHANGED vars
    BY <2>z DEF vars, ITypes, TypeOK, RowsHeld, At
  <2> QED
    BY <2>a, <2>b, <2>c, <2>d, <2>e, <2>f, <2>g, <2>h, <2>i, <2>j, <2>k, <2>l, <2>m, <2>n,
       <2>o, <2>p, <2>q, <2>r, <2>s, <2>u, <2>v, <2>w, <2>x, <2>y, <2>z
       DEF Next, Enrol, Generate, Ask, Disable
<1>3. QED
  BY <1>1, <1>2, PTL DEF Spec

-----------------------------------------------------------------------------
(* What a request relies on.  A secret that it is about to confirm has been  *)
(* proved; and as long as it is calm, the flag is as it has seen it and the  *)
(* factors are as it has read them.                                          *)
Relies(p) ==
    request[p] # Idle =>
        /\ request[p].step = "confirm" => request[p].row \in proved
        /\ request[p].calm =>
              /\ request[p].step \notin {"wipe", "fill"} => request[p].seen = enabled
              /\ request[p].step = "clear" => Confirmed = {}
              /\ request[p].step = "raise" => Confirmed # {}
              /\ request[p].step = "count" => (request[p].has <=> Confirmed # {})
              /\ request[p].step = "write" => (request[p].has <=> Factors)

LEMMA OthersRely ==
    ASSUME request \in [Requests -> Going], NEW p \in Requests, NEW r,
           \/ Commits(p, r)
           \/ Reads(p, r) /\ enabled' = enabled /\ Confirmed' = Confirmed /\ passkeys' = passkeys,
           proved \subseteq proved', NEW q \in Requests \ {p}, Relies(q)
    PROVE  Relies(q)'
<1>1. CASE request'[q] = Idle
  BY <1>1 DEF Relies
<1>2. CASE request'[q] # Idle /\ request'[q].calm
  <2>1. /\ request'[q] = request[q]
        /\ enabled' = enabled /\ Confirmed' = Confirmed /\ passkeys' = passkeys
    BY <1>2, CommitEffect, ReadEffect
  <2>2. Factors' <=> Factors
    BY <2>1 DEF Factors
  <2>3. QED
    BY <2>1, <2>2 DEF Relies
<1>3. CASE request'[q] # Idle /\ ~request'[q].calm
  <2>1. \/ request'[q] = request[q]
        \/ request[q] \in Busy /\ request'[q] = [request[q] EXCEPT !.calm = FALSE]
    BY CommitEffect, ReadEffect
  <2>2. ASSUME request[q] \in Busy, request'[q] = [request[q] EXCEPT !.calm = FALSE]
        PROVE  /\ request[q] # Idle
               /\ request'[q].step = request[q].step /\ request'[q].row = request[q].row
    BY <2>2, IdleIsNotBusy DEF Busy
  <2>3. request[q] # Idle /\ request'[q].step = request[q].step /\ request'[q].row = request[q].row
    BY <1>3, <2>1, <2>2
  <2>4. QED
    BY <1>3, <2>3 DEF Relies
<1>4. QED
  BY <1>1, <1>2, <1>3

RInv == ConfirmedWasProved /\ \A p \in Requests : Relies(p)

(* Every secret that is confirmed has been proved, and what a calm request   *)
(* has read is still so when it writes: the invariant behind the theorems    *)
(* that follow.                                                              *)
THEOREM FactorsRelied == Spec => []RInv
<1>1. Init => RInv
  BY DEF Init, RInv, ConfirmedWasProved, Confirmed, Relies
<1>2. ITypes /\ RInv /\ [Next]_vars => RInv'
  <2> SUFFICES ASSUME ITypes, RInv, [Next]_vars
               PROVE  RInv'
    OBVIOUS
  <2>0. request \in [Requests -> Going]
    BY DEF ITypes, TypeOK, Going
  <2> DEFINE Fits(r) ==
         r # Idle =>
            /\ r.step = "confirm" => r.row \in proved'
            /\ r.calm => /\ r.step \notin {"wipe", "fill"} => r.seen = enabled'
                         /\ r.step = "clear" => Confirmed' = {}
                         /\ r.step = "raise" => Confirmed' # {}
                         /\ r.step = "count" => (r.has <=> Confirmed' # {})
                         /\ r.step = "write" => (r.has <=> Confirmed' # {} \/ passkeys' # {})
  <2>1. ASSUME NEW p \in Requests, NEW r, Fits(r), ConfirmedWasProved', proved \subseteq proved',
               \/ Commits(p, r)
               \/ Reads(p, r) /\ enabled' = enabled /\ Confirmed' = Confirmed /\ passkeys' = passkeys
        PROVE  RInv'
    <3>1. request'[p] = r
      BY <2>0, <2>1, CommitEffect, ReadEffect
    <3>2. Relies(p)'
      BY <2>1, <3>1 DEF Relies, Factors
    <3>3. \A q \in Requests \ {p} : Relies(q)'
      BY <2>0, <2>1, OthersRely DEF RInv
    <3>4. QED
      BY <2>1, <3>2, <3>3 DEF RInv
  <2>2. \A p \in Requests, step \in Step :
           request[p] # Idle =>
              /\ request[p] \in Busy /\ To(p, step) \in Busy /\ To(p, step).step = step
              /\ To(p, step).seen = request[p].seen /\ To(p, step).row = request[p].row
              /\ To(p, step).has = request[p].has /\ To(p, step).calm = request[p].calm
    BY <2>0, ToType
  <2>3. secret' = secret => Confirmed' = Confirmed
    BY DEF Confirmed
  <2>a. ASSUME NEW p \in Requests, Arrive(p)
        PROVE  RInv'
    <3>1. PICK r : /\ Fits(r)
                   /\ \/ Commits(p, r)
                      \/ Reads(p, r) /\ enabled' = enabled /\ Confirmed' = Confirmed /\ passkeys' = passkeys
      BY <2>a, <2>2, <2>3 DEF Arrive, RInv, Relies, At, Step, history, Factors
    <3>2. ConfirmedWasProved' /\ proved \subseteq proved'
      BY <2>a, <2>3 DEF Arrive, RInv, Relies, At, ConfirmedWasProved, Confirmed, Stored, history
    <3>3. QED
      BY <2>1, <3>1, <3>2
  <2>b. ASSUME NEW p \in Requests, BeginEnrollment(p)
        PROVE  RInv'
    <3>1. PICK r : /\ Fits(r)
                   /\ \/ Commits(p, r)
                      \/ Reads(p, r) /\ enabled' = enabled /\ Confirmed' = Confirmed /\ passkeys' = passkeys
      BY <2>b, <2>2, <2>3 DEF BeginEnrollment, RInv, Relies, At, Step, history, Factors
    <3>2. ConfirmedWasProved' /\ proved \subseteq proved'
      BY <2>b, <2>3 DEF BeginEnrollment, RInv, Relies, At, ConfirmedWasProved, Confirmed, Stored, history
    <3>3. QED
      BY <2>1, <3>1, <3>2
  <2>c. ASSUME NEW p \in Requests, Clear(p)
        PROVE  RInv'
    <3>a. Confirmed' = {} /\ enabled' = enabled /\ proved' = proved
      BY <2>c DEF Clear, NoSecret, Confirmed, Stored, history
    <3>1. Fits(To(p, "create"))
      BY <2>c, <2>2, <3>a DEF Clear, RInv, Relies, At, Step
    <3>2. ConfirmedWasProved'
      BY <3>a DEF ConfirmedWasProved
    <3>3. QED
      BY <2>1, <2>c, <3>a, <3>1, <3>2 DEF Clear
  <2>d. ASSUME NEW p \in Requests, Create(p)
        PROVE  RInv'
    <3>1. PICK r : /\ Fits(r)
                   /\ \/ Commits(p, r)
                      \/ Reads(p, r) /\ enabled' = enabled /\ Confirmed' = Confirmed /\ passkeys' = passkeys
      BY <2>d, <2>2, <2>3 DEF Create, Confirmed, RInv, Relies, At, Step, history, Factors
    <3>a. Confirmed' \subseteq Confirmed /\ proved' = proved
      BY <2>d DEF Create, Confirmed, history, ITypes, TypeOK
    <3>2. ConfirmedWasProved' /\ proved \subseteq proved'
      BY <3>a DEF RInv, ConfirmedWasProved
    <3>3. QED
      BY <2>1, <3>1, <3>2
  <2>e. ASSUME NEW p \in Requests, ConfirmEnrollment(p)
        PROVE  RInv'
    <3>a. PICK x \in Secrets : proved' = proved \cup {x} /\ Reads(p, [To(p, "confirm") EXCEPT !.row = x])
      BY <2>e DEF ConfirmEnrollment
    <3> DEFINE n == [To(p, "confirm") EXCEPT !.row = x]
    <3>b. n.step = "confirm" /\ n.row = x /\ n.seen = request[p].seen /\ n.calm = request[p].calm
      BY <2>e, <2>2 DEF ConfirmEnrollment, At, Step, Busy
    <3>c. /\ enabled' = enabled /\ Confirmed' = Confirmed /\ passkeys' = passkeys
          /\ request[p] # Idle /\ request[p].step = "start"
      BY <2>e, <2>3 DEF ConfirmEnrollment, At
    <3>d. Reads(p, n)
      BY <3>a
    <3> HIDE DEF n
    <3>1. Fits(n)
      BY <3>a, <3>b, <3>c DEF RInv, Relies
    <3>2. ConfirmedWasProved' /\ proved \subseteq proved'
      BY <3>a, <3>c DEF RInv, ConfirmedWasProved
    <3>3. QED
      BY <2>1, <3>c, <3>d, <3>1, <3>2
  <2>f. ASSUME NEW p \in Requests, Confirm(p)
        PROVE  RInv'
    <3> DEFINE x == request[p].row
               n == IF x \in Stored THEN To(p, "raise") ELSE Idle
    <3>a. /\ At(p, "confirm") /\ Commits(p, n) /\ enabled' = enabled /\ proved' = proved
          /\ secret' = IF x \in Stored THEN [secret EXCEPT ![x] = "confirmed"] ELSE secret
      BY <2>f DEF Confirm, history
    <3>b. x \in proved
      BY <3>a DEF RInv, Relies, At
    <3>c. IF x \in Stored THEN Confirmed' = Confirmed \cup {x} ELSE Confirmed' = Confirmed
      BY <3>a DEF Confirmed, Stored, ITypes, TypeOK
    <3> HIDE DEF x
    <3>1. Fits(n)
      BY <2>2, <3>a, <3>c DEF RInv, Relies, At, Step
    <3>2. ConfirmedWasProved' /\ proved \subseteq proved'
      BY <3>a, <3>b, <3>c DEF RInv, ConfirmedWasProved
    <3> HIDE DEF n
    <3>3. QED
      BY <2>1, <3>a, <3>1, <3>2
  <2>g. ASSUME NEW p \in Requests, Raise(p)
        PROVE  RInv'
    <3>1. PICK r : /\ Fits(r)
                   /\ \/ Commits(p, r)
                      \/ Reads(p, r) /\ enabled' = enabled /\ Confirmed' = Confirmed /\ passkeys' = passkeys
      BY <2>g, <2>2, <2>3 DEF Raise, RInv, Relies, At, Step, history, Factors
    <3>2. ConfirmedWasProved' /\ proved \subseteq proved'
      BY <2>g, <2>3 DEF Raise, RInv, Relies, At, ConfirmedWasProved, Confirmed, Stored, history
    <3>3. QED
      BY <2>1, <3>1, <3>2
  <2>h. ASSUME NEW p \in Requests, Regenerate(p)
        PROVE  RInv'
    <3>1. PICK r : /\ Fits(r)
                   /\ \/ Commits(p, r)
                      \/ Reads(p, r) /\ enabled' = enabled /\ Confirmed' = Confirmed /\ passkeys' = passkeys
      BY <2>h, <2>2, <2>3 DEF Regenerate, RInv, Relies, At, Step, history, Factors
    <3>2. ConfirmedWasProved' /\ proved \subseteq proved'
      BY <2>h, <2>3 DEF Regenerate, RInv, Relies, At, ConfirmedWasProved, Confirmed, Stored, history
    <3>3. QED
      BY <2>1, <3>1, <3>2
  <2>i. ASSUME NEW p \in Requests, Wipe(p)
        PROVE  RInv'
    <3>a. [To(p, "fill") EXCEPT !.left = NumCodes].step = "fill"
      BY <2>i, <2>2 DEF Wipe, At, Step, Busy
    <3>1. PICK r : /\ Fits(r)
                   /\ \/ Commits(p, r)
                      \/ Reads(p, r) /\ enabled' = enabled /\ Confirmed' = Confirmed /\ passkeys' = passkeys
      BY <2>i, <2>2, <2>3, <3>a DEF Wipe, NoCodes, RInv, Relies, At, Step, history, Factors
    <3>2. ConfirmedWasProved' /\ proved \subseteq proved'
      BY <2>i, <2>3, <3>a DEF Wipe, NoCodes, RInv, Relies, At, ConfirmedWasProved, Confirmed, Stored, history
    <3>3. QED
      BY <2>1, <3>1, <3>2
  <2>j. ASSUME NEW p \in Requests, Fill(p)
        PROVE  RInv'
    <3>a. [request[p] EXCEPT !.left = @ - 1].step = "fill"
      BY <2>j, <2>2 DEF Fill, At, Step, Busy
    <3>1. PICK r : /\ Fits(r)
                   /\ \/ Commits(p, r)
                      \/ Reads(p, r) /\ enabled' = enabled /\ Confirmed' = Confirmed /\ passkeys' = passkeys
      BY <2>j, <2>2, <2>3, <3>a DEF Fill, RInv, Relies, At, Step, history, Factors
    <3>2. ConfirmedWasProved' /\ proved \subseteq proved'
      BY <2>j, <2>3, <3>a DEF Fill, RInv, Relies, At, ConfirmedWasProved, Confirmed, Stored, history
    <3>3. QED
      BY <2>1, <3>1, <3>2
  <2>k. ASSUME NEW p \in Requests, Verify(p)
        PROVE  RInv'
    <3>a. PICK x \in Secrets, l \in BOOLEAN : Reads(p, [To(p, "stamp") EXCEPT !.row = x, !.login = l])
      BY <2>k DEF Verify, Confirmed
    <3> DEFINE n == [To(p, "stamp") EXCEPT !.row = x, !.login = l]
    <3>b. n.step = "stamp" /\ n.seen = request[p].seen /\ n.calm = request[p].calm
      BY <2>k, <2>2 DEF Verify, At, Step, Busy
    <3>c. /\ enabled' = enabled /\ Confirmed' = Confirmed /\ passkeys' = passkeys /\ proved' = proved
          /\ request[p] # Idle /\ request[p].step = "start"
      BY <2>k, <2>3 DEF Verify, At, history
    <3>d. Reads(p, n)
      BY <3>a
    <3> HIDE DEF n
    <3>1. Fits(n)
      BY <3>b, <3>c DEF RInv, Relies
    <3>2. ConfirmedWasProved' /\ proved \subseteq proved'
      BY <3>c DEF RInv, ConfirmedWasProved
    <3>3. QED
      BY <2>1, <3>c, <3>d, <3>1, <3>2
  <2>l. ASSUME NEW p \in Requests, Stamp(p)
        PROVE  RInv'
    <3>1. PICK r : /\ Fits(r)
                   /\ \/ Commits(p, r)
                      \/ Reads(p, r) /\ enabled' = enabled /\ Confirmed' = Confirmed /\ passkeys' = passkeys
      BY <2>l, <2>2, <2>3 DEF Stamp, RInv, Relies, At, Step, history, Factors
    <3>2. ConfirmedWasProved' /\ proved \subseteq proved'
      BY <2>l, <2>3 DEF Stamp, RInv, Relies, At, ConfirmedWasProved, Confirmed, Stored, history
    <3>3. QED
      BY <2>1, <3>1, <3>2
  <2>m. ASSUME NEW p \in Requests, Consume(p)
        PROVE  RInv'
    <3>a. PICK c \in Codes : Reads(p, [To(p, "use") EXCEPT !.row = c])
      BY <2>m DEF Consume, Matches
    <3> DEFINE n == [To(p, "use") EXCEPT !.row = c]
    <3>b. n.step = "use" /\ n.seen = request[p].seen /\ n.calm = request[p].calm
      BY <2>m, <2>2 DEF Consume, At, Step, Busy
    <3>c. /\ enabled' = enabled /\ Confirmed' = Confirmed /\ passkeys' = passkeys /\ proved' = proved
          /\ request[p] # Idle /\ request[p].step = "start"
      BY <2>m, <2>3 DEF Consume, At, history
    <3>d. Reads(p, n)
      BY <3>a
    <3> HIDE DEF n
    <3>1. Fits(n)
      BY <3>b, <3>c DEF RInv, Relies
    <3>2. ConfirmedWasProved' /\ proved \subseteq proved'
      BY <3>c DEF RInv, ConfirmedWasProved
    <3>3. QED
      BY <2>1, <3>c, <3>d, <3>1, <3>2
  <2>n. ASSUME NEW p \in Requests, Use(p)
        PROVE  RInv'
    <3>1. PICK r : /\ Fits(r)
                   /\ \/ Commits(p, r)
                      \/ Reads(p, r) /\ enabled' = enabled /\ Confirmed' = Confirmed /\ passkeys' = passkeys
      BY <2>n, <2>2, <2>3 DEF Use, RInv, Relies, At, Step, history, Factors
    <3>2. ConfirmedWasProved' /\ proved \subseteq proved'
      BY <2>n, <2>3 DEF Use, RInv, Relies, At, ConfirmedWasProved, Confirmed, Stored, history
    <3>3. QED
      BY <2>1, <3>1, <3>2
  <2>o. ASSUME NEW p \in Requests, SelfHeal(p)
        PROVE  RInv'
    <3>1. PICK r : /\ Fits(r)
                   /\ \/ Commits(p, r)
                      \/ Reads(p, r) /\ enabled' = enabled /\ Confirmed' = Confirmed /\ passkeys' = passkeys
      BY <2>o, <2>2, <2>3 DEF SelfHeal, RInv, Relies, At, Step, history, Factors
    <3>2. ConfirmedWasProved' /\ proved \subseteq proved'
      BY <2>o, <2>3 DEF SelfHeal, RInv, Relies, At, ConfirmedWasProved, Confirmed, Stored, history
    <3>3. QED
      BY <2>1, <3>1, <3>2
  <2>p. ASSUME NEW p \in Requests, ForceReenroll(p)
        PROVE  RInv'
    <3>1. PICK r : /\ Fits(r)
                   /\ \/ Commits(p, r)
                      \/ Reads(p, r) /\ enabled' = enabled /\ Confirmed' = Confirmed /\ passkeys' = passkeys
      BY <2>p, <2>2, <2>3 DEF ForceReenroll, RInv, Relies, At, Step, history, Factors
    <3>2. ConfirmedWasProved' /\ proved \subseteq proved'
      BY <2>p, <2>3 DEF ForceReenroll, RInv, Relies, At, ConfirmedWasProved, Confirmed, Stored, history
    <3>3. QED
      BY <2>1, <3>1, <3>2
  <2>q. ASSUME NEW p \in Requests, Drop(p)
        PROVE  RInv'
    <3>a. Confirmed' = {} /\ enabled' = enabled /\ proved' = proved
      BY <2>q DEF Drop, NoSecret, Confirmed, Stored, history
    <3>1. Fits(To(p, "forget"))
      BY <2>q, <2>2, <3>a DEF Drop, RInv, Relies, At, Step
    <3>2. ConfirmedWasProved'
      BY <3>a DEF ConfirmedWasProved
    <3>3. QED
      BY <2>1, <2>q, <3>a, <3>1, <3>2 DEF Drop
  <2>r. ASSUME NEW p \in Requests, Forget(p)
        PROVE  RInv'
    <3>1. PICK r : /\ Fits(r)
                   /\ \/ Commits(p, r)
                      \/ Reads(p, r) /\ enabled' = enabled /\ Confirmed' = Confirmed /\ passkeys' = passkeys
      BY <2>r, <2>2, <2>3 DEF Forget, NoCodes, RInv, Relies, At, Step, history, Factors
    <3>2. ConfirmedWasProved' /\ proved \subseteq proved'
      BY <2>r, <2>3 DEF Forget, NoCodes, RInv, Relies, At, ConfirmedWasProved, Confirmed, Stored, history
    <3>3. QED
      BY <2>1, <3>1, <3>2
  <2>s. ASSUME NEW p \in Requests, AddPasskey(p)
        PROVE  RInv'
    <3>1. PICK r : /\ Fits(r)
                   /\ \/ Commits(p, r)
                      \/ Reads(p, r) /\ enabled' = enabled /\ Confirmed' = Confirmed /\ passkeys' = passkeys
      BY <2>s, <2>2, <2>3 DEF AddPasskey, RInv, Relies, At, Step, history, Factors
    <3>2. ConfirmedWasProved' /\ proved \subseteq proved'
      BY <2>s, <2>3 DEF AddPasskey, RInv, Relies, At, ConfirmedWasProved, Confirmed, Stored, history
    <3>3. QED
      BY <2>1, <3>1, <3>2
  <2>u. ASSUME NEW p \in Requests, RemovePasskey(p)
        PROVE  RInv'
    <3>1. PICK r : /\ Fits(r)
                   /\ \/ Commits(p, r)
                      \/ Reads(p, r) /\ enabled' = enabled /\ Confirmed' = Confirmed /\ passkeys' = passkeys
      BY <2>u, <2>2, <2>3 DEF RemovePasskey, RInv, Relies, At, Step, history, Factors
    <3>2. ConfirmedWasProved' /\ proved \subseteq proved'
      BY <2>u, <2>3 DEF RemovePasskey, RInv, Relies, At, ConfirmedWasProved, Confirmed, Stored, history
    <3>3. QED
      BY <2>1, <3>1, <3>2
  <2>v. ASSUME NEW p \in Requests, Recount(p)
        PROVE  RInv'
    <3> DEFINE h == (Confirmed # {})
               n == [To(p, "count") EXCEPT !.has = h]
    <3>a. To(p, "count") \in Busy /\ request[p] # Idle /\ request[p].step = "recount"
      BY <2>v, <2>2 DEF Recount, At, Step
    <3>b. h \in BOOLEAN
      OBVIOUS
    <3>c. /\ enabled' = enabled /\ Confirmed' = Confirmed /\ passkeys' = passkeys /\ proved' = proved
          /\ Reads(p, n)
      BY <2>v, <2>2, <2>3, <3>a DEF Recount, history, Step
    <3>d. h <=> Confirmed # {}
      BY <2>2, <3>a DEF Step
    <3> HIDE DEF h
    <3>e. n.step = "count" /\ n.has = h /\ n.seen = request[p].seen /\ n.calm = request[p].calm
      BY <2>2, <3>a, <3>b, BusyUpdates DEF Step
    <3> HIDE DEF n
    <3>1. Fits(n)
      BY <3>a, <3>c, <3>d, <3>e DEF RInv, Relies
    <3>2. ConfirmedWasProved' /\ proved \subseteq proved'
      BY <3>c DEF RInv, ConfirmedWasProved
    <3>3. QED
      BY <2>1, <3>c, <3>1, <3>2
  <2>w. ASSUME NEW p \in Requests, Count(p)
        PROVE  RInv'
    <3> DEFINE h == (To(p, "write").has \/ passkeys # {})
               n == [To(p, "write") EXCEPT !.has = h]
    <3>a. To(p, "write") \in Busy /\ request[p] # Idle /\ request[p].step = "count"
      BY <2>w, <2>2 DEF Count, At, Step
    <3>b. h \in BOOLEAN
      OBVIOUS
    <3>c. /\ enabled' = enabled /\ Confirmed' = Confirmed /\ passkeys' = passkeys /\ proved' = proved
          /\ Reads(p, n)
      BY <2>w, <2>2, <2>3, <3>a DEF Count, history, Step
    <3>d. h <=> request[p].has \/ passkeys # {}
      BY <2>2, <3>a DEF Step
    <3> HIDE DEF h
    <3>e. n.step = "write" /\ n.has = h /\ n.seen = request[p].seen /\ n.calm = request[p].calm
      BY <2>2, <3>a, <3>b, BusyUpdates DEF Step
    <3> HIDE DEF n
    <3>1. Fits(n)
      BY <3>a, <3>c, <3>d, <3>e DEF RInv, Relies
    <3>2. ConfirmedWasProved' /\ proved \subseteq proved'
      BY <3>c DEF RInv, ConfirmedWasProved
    <3>3. QED
      BY <2>1, <3>c, <3>1, <3>2
  <2>x. ASSUME NEW p \in Requests, Write(p)
        PROVE  RInv'
    <3>1. PICK r : /\ Fits(r)
                   /\ \/ Commits(p, r)
                      \/ Reads(p, r) /\ enabled' = enabled /\ Confirmed' = Confirmed /\ passkeys' = passkeys
      BY <2>x, <2>2, <2>3 DEF Write, RInv, Relies, At, Step, history, Factors
    <3>2. ConfirmedWasProved' /\ proved \subseteq proved'
      BY <2>x, <2>3 DEF Write, RInv, Relies, At, ConfirmedWasProved, Confirmed, Stored, history
    <3>3. QED
      BY <2>1, <3>1, <3>2
  <2>y. ASSUME NEW p \in Requests, CutOff(p)
        PROVE  RInv'
    <3>1. PICK r : /\ Fits(r)
                   /\ \/ Commits(p, r)
                      \/ Reads(p, r) /\ enabled' = enabled /\ Confirmed' = Confirmed /\ passkeys' = passkeys
      BY <2>y, <2>2, <2>3 DEF CutOff, RInv, Relies, At, Step, history, Factors
    <3>2. ConfirmedWasProved' /\ proved \subseteq proved'
      BY <2>y, <2>3 DEF CutOff, RInv, Relies, At, ConfirmedWasProved, Confirmed, Stored, history
    <3>3. QED
      BY <2>1, <3>1, <3>2
  <2>z. CASE UNCHANGED vars
    BY <2>z DEF vars, RInv, ConfirmedWasProved, Relies, Confirmed, Factors
  <2> QED
    BY <2>a, <2>b, <2>c, <2>d, <2>e, <2>f, <2>g, <2>h, <2>i, <2>j, <2>k, <2>l, <2>m, <2>n,
       <2>o, <2>p, <2>q, <2>r, <2>s, <2>u, <2>v, <2>w, <2>x, <2>y, <2>z
       DEF Next, Enrol, Generate, Ask, Disable
<1>3. QED
  BY <1>1, <1>2, FactorTypes, PTL DEF Spec

(* However many tabs show QR codes, the secret that is confirmed is one      *)
(* whose first code was right (confirm_enrollment).                          *)
THEOREM ProvedBeforeConfirmed == Spec => []ConfirmedWasProved
<1>1. RInv => ConfirmedWasProved
  BY DEF RInv
<1>2. QED
  BY <1>1, FactorsRelied, PTL

(* After any races and crashes, a request that sets mfa_enabled while        *)
(* nothing else is enrolled or torn down sets it right (mfa_state.py).       *)
THEOREM FlagHeals == Spec => []TogglingHeals
<1>1. RInv => TogglingHeals
  BY DEF RInv, TogglingHeals, Relies, At, Written, Factors
<1>2. QED
  BY <1>1, FactorsRelied, PTL

LEMMA TablesDeleted ==
    /\ NoSecret => \A x \in Secrets : secret[x] = "deleted" => secret'[x] = "deleted"
    /\ NoCodes => \A c \in Codes : recovery[c] = "deleted" => recovery'[c] = "deleted"
    /\ NoCodes => \A c \in Codes : Stands(c) => recovery'[c] = "deleted"
    /\ NoCodes => \A c \in Codes : ~Stands(c) => recovery'[c] = recovery[c]
  BY DEF NoSecret, NoCodes, Stored, Stands

(* A confirmed secret goes with a tear-down, or in a race that begin_        *)
(* enrollment loses: nothing else deletes it.                                *)
THEOREM ConfirmedKept == Spec => ConfirmedIsKept
<1>1. ITypes /\ RInv /\ [Next]_vars =>
          [\A x \in Confirmed :
              secret'[x] = "deleted" =>
                  \E p \in Requests : At(p, "drop") \/ (At(p, "clear") /\ ~request[p].calm)]_vars
  <2> SUFFICES ASSUME ITypes, RInv, Next, NEW x \in Confirmed, secret'[x] = "deleted"
               PROVE  \E p \in Requests : At(p, "drop") \/ (At(p, "clear") /\ ~request[p].calm)
    BY DEF vars, Confirmed
  <2>1. x \in Secrets /\ secret[x] = "confirmed"
    BY DEF Confirmed
  <2>2. PICK p \in Requests : Drop(p) \/ Clear(p) \/ Create(p) \/ Confirm(p)
    <3>1. secret' # secret
      BY <2>1
    <3>2. ASSUME NEW p \in Requests,
                 Arrive(p) \/ BeginEnrollment(p) \/ ConfirmEnrollment(p) \/ Raise(p) \/ Generate(p)
          PROVE  secret' = secret
      BY <3>2 DEF Arrive, BeginEnrollment, ConfirmEnrollment, Raise, Generate, Regenerate, Wipe, Fill
    <3>3. ASSUME NEW p \in Requests, Ask(p)
          PROVE  secret' = secret
      BY <3>3 DEF Ask, Verify, Stamp, Consume, Use, SelfHeal, ForceReenroll
    <3>4. ASSUME NEW p \in Requests,
                 \/ Forget(p) \/ AddPasskey(p) \/ RemovePasskey(p)
                 \/ Recount(p) \/ Count(p) \/ Write(p) \/ CutOff(p)
          PROVE  secret' = secret
      BY <3>4 DEF Forget, AddPasskey, RemovePasskey, Recount, Count, Write, CutOff
    <3>5. PICK p \in Requests :
              Arrive(p) \/ Enrol(p) \/ Generate(p) \/ Ask(p) \/ Disable(p) \/ CutOff(p)
      BY DEF Next
    <3>6. Drop(p) \/ Clear(p) \/ Create(p) \/ Confirm(p)
      BY <3>1, <3>2, <3>3, <3>4, <3>5 DEF Enrol, Disable
    <3>7. QED
      BY <3>5, <3>6, Zenon
  <2>3. CASE Drop(p)
    BY <2>3 DEF Drop
  <2>4. CASE Clear(p)
    <3>1. At(p, "clear") /\ Confirmed # {}
      BY <2>4 DEF Clear
    <3>2. ~request[p].calm
      BY <3>1 DEF RInv, Relies, At
    <3>3. QED
      BY <3>1, <3>2
  <2>5. CASE Create(p) \/ Confirm(p)
    BY <2>1, <2>5 DEF Create, Confirm, ITypes, TypeOK
  <2>6. QED
    BY <2>2, <2>3, <2>4, <2>5
<1>2. QED
  BY <1>1, FactorTypes, FactorsRelied, PTL DEF Spec, ConfirmedIsKept

-----------------------------------------------------------------------------
(* What the rows of the recovery codes tell of their past: an accepted one   *)
(* is no longer unused, one that was replaced is deleted, and whoever still  *)
(* holds a code that was accepted has shared it.                             *)
Holds(p, c) == At(p, "use") /\ request[p].row = c

CodeHistory ==
    /\ \A c \in accepted : recovery[c] \in {"used", "deleted"}
    /\ \A c \in replaced : recovery[c] = "deleted" /\ c \notin accepted
    /\ OnceEach
    /\ \A p \in Requests, c \in accepted : Holds(p, c) => c \in shared
    /\ \A p, q \in Requests, c \in Codes : p # q /\ Holds(p, c) /\ Holds(q, c) => c \in shared

(* Who holds a code after a step held it before, or has just matched it.     *)
LEMMA HoldersRemain ==
    ASSUME request \in [Requests -> Going], NEW p \in Requests, NEW r \in Going,
           Commits(p, r) \/ Reads(p, r), NEW q \in Requests, NEW c \in Codes,
           Holds(q, c)'
    PROVE  IF q = p THEN r \in Busy /\ r.step = "use" /\ r.row = c ELSE Holds(q, c)
<1>1. CASE q = p
  BY <1>1, CommitEffect, ReadEffect DEF Holds, At, Going
<1>2. CASE q # p
  <2>1. \/ request'[q] = request[q]
        \/ request[q] \in Busy /\ request'[q] = [request[q] EXCEPT !.calm = FALSE]
    BY <1>2, CommitEffect, ReadEffect
  <2>2. CASE request'[q] = request[q]
    BY <1>2, <2>2 DEF Holds, At
  <2>3. CASE request[q] \in Busy /\ request'[q] = [request[q] EXCEPT !.calm = FALSE]
    <3>1. /\ request[q] # Idle
          /\ request'[q].step = request[q].step /\ request'[q].row = request[q].row
      BY <2>3, IdleIsNotBusy DEF Busy
    <3>2. QED
      BY <1>2, <3>1 DEF Holds, At
  <2>4. QED
    BY <2>1, <2>2, <2>3
<1>3. QED
  BY <1>1, <1>2

(* An action that leaves the codes alone, and hands none out, leaves their   *)
(* history alone.                                                            *)
LEMMA CodesUntouched ==
    ASSUME ITypes, CodeHistory, NEW p \in Requests, NEW r \in Going,
           Commits(p, r) \/ Reads(p, r), r # Idle => r.step # "use",
           UNCHANGED <<recovery, accepted, repeated, shared, replaced>>
    PROVE  CodeHistory'
<1>0. request \in [Requests -> Going] /\ accepted \subseteq Codes
  BY DEF ITypes, TypeOK, Going
<1>1. \A q \in Requests, c \in Codes : Holds(q, c)' => Holds(q, c)
  <2> SUFFICES ASSUME NEW q \in Requests, NEW c \in Codes, Holds(q, c)'
               PROVE  Holds(q, c)
    OBVIOUS
  <2>1. IF q = p THEN r \in Busy /\ r.step = "use" /\ r.row = c ELSE Holds(q, c)
    BY <1>0, HoldersRemain
  <2>2. r \in Busy => r # Idle
    BY IdleIsNotBusy
  <2>3. QED
    BY <2>1, <2>2
<1>2. \A q \in Requests, c \in accepted' : Holds(q, c)' => c \in shared'
  BY <1>0, <1>1 DEF CodeHistory
<1>3. \A q, o \in Requests, c \in Codes : q # o /\ Holds(q, c)' /\ Holds(o, c)' => c \in shared'
  BY <1>1 DEF CodeHistory
<1>4. QED
  BY <1>2, <1>3 DEF CodeHistory, OnceEach

(* When the rows are deleted, those that were not accepted were replaced.    *)
LEMMA CodesReplaced ==
    ASSUME ITypes, CodeHistory, NEW p \in Requests, NEW r \in Going,
           Commits(p, r), r # Idle => r.step # "use",
           NoCodes, UNCHANGED <<accepted, repeated, shared>>
    PROVE  CodeHistory'
<1>0. /\ request \in [Requests -> Going] /\ accepted \subseteq Codes /\ replaced \subseteq Codes
      /\ recovery \in [Codes -> {"unused", "fresh", "used", "deleted"}]
  BY DEF ITypes, TypeOK, Going
<1>1. \A q \in Requests, c \in Codes : Holds(q, c)' => Holds(q, c)
  <2> SUFFICES ASSUME NEW q \in Requests, NEW c \in Codes, Holds(q, c)'
               PROVE  Holds(q, c)
    OBVIOUS
  <2>1. IF q = p THEN r \in Busy /\ r.step = "use" /\ r.row = c ELSE Holds(q, c)
    BY <1>0, HoldersRemain
  <2>2. r \in Busy => r # Idle
    BY IdleIsNotBusy
  <2>3. QED
    BY <2>1, <2>2
<1>2. \A c \in Codes : IF Stands(c) THEN recovery'[c] = "deleted" ELSE recovery'[c] = recovery[c]
  BY TablesDeleted
<1>3. \A c \in accepted' : recovery'[c] \in {"used", "deleted"}
  BY <1>0, <1>2 DEF CodeHistory
<1>4. replaced' = replaced \cup {c \in Codes : Stands(c) /\ c \notin accepted}
  BY DEF NoCodes
<1>5. \A c \in replaced' : recovery'[c] = "deleted" /\ c \notin accepted'
  BY <1>0, <1>2, <1>4 DEF CodeHistory
<1>6. \A q \in Requests, c \in accepted' : Holds(q, c)' => c \in shared'
  BY <1>0, <1>1 DEF CodeHistory
<1>7. \A q, o \in Requests, c \in Codes : q # o /\ Holds(q, c)' /\ Holds(o, c)' => c \in shared'
  BY <1>1 DEF CodeHistory
<1>8. QED
  BY <1>3, <1>5, <1>6, <1>7 DEF CodeHistory, OnceEach

(* What the rows say of the past of the codes is true at all times.          *)
THEOREM CodesRemembered == Spec => []CodeHistory
<1>1. Init => CodeHistory
  BY DEF Init, CodeHistory, OnceEach, Holds, At
<1>2. ITypes /\ CodeHistory /\ [Next]_vars => CodeHistory'
  <2> SUFFICES ASSUME ITypes, CodeHistory, [Next]_vars
               PROVE  CodeHistory'
    OBVIOUS
  <2>0. /\ request \in [Requests -> Going] /\ RowsHeld
        /\ recovery \in [Codes -> {"unused", "fresh", "used", "deleted"}]
        /\ accepted \subseteq Codes /\ replaced \subseteq Codes
    BY DEF ITypes, TypeOK, Going
  <2>1. \A p \in Requests, step \in Step :
           request[p] # Idle =>
              /\ request[p] \in Busy /\ To(p, step) \in Busy /\ To(p, step).step = step
    BY <2>0, ToType
  <2>a. ASSUME NEW p \in Requests, Arrive(p)
        PROVE  CodeHistory'
    <3>a. [step |-> "start", seen |-> enabled, row |-> NoRow, login |-> FALSE,
           has |-> FALSE, left |-> 0, calm |-> TRUE] \in Busy
      BY FactorAssumption DEF Busy, Step, ITypes, TypeOK
    <3>1. PICK r \in Going : (Commits(p, r) \/ Reads(p, r)) /\ (r # Idle => r.step # "use")
      BY <2>a, <2>1, <3>a DEF Arrive, Going, Step, At
    <3>2. UNCHANGED <<recovery, accepted, repeated, shared, replaced>>
      BY <2>a DEF Arrive, history
    <3>3. QED
      BY <3>1, <3>2, CodesUntouched
  <2>b. ASSUME NEW p \in Requests, BeginEnrollment(p)
        PROVE  CodeHistory'
    <3>1. PICK r \in Going : (Commits(p, r) \/ Reads(p, r)) /\ (r # Idle => r.step # "use")
      BY <2>b, <2>1 DEF BeginEnrollment, Going, Step, At
    <3>2. UNCHANGED <<recovery, accepted, repeated, shared, replaced>>
      BY <2>b DEF BeginEnrollment, history
    <3>3. QED
      BY <3>1, <3>2, CodesUntouched
  <2>c. ASSUME NEW p \in Requests, Clear(p)
        PROVE  CodeHistory'
    <3>1. PICK r \in Going : (Commits(p, r) \/ Reads(p, r)) /\ (r # Idle => r.step # "use")
      BY <2>c, <2>1 DEF Clear, Going, Step, At
    <3>2. UNCHANGED <<recovery, accepted, repeated, shared, replaced>>
      BY <2>c DEF Clear, history
    <3>3. QED
      BY <3>1, <3>2, CodesUntouched
  <2>d. ASSUME NEW p \in Requests, Create(p)
        PROVE  CodeHistory'
    <3>1. PICK r \in Going : (Commits(p, r) \/ Reads(p, r)) /\ (r # Idle => r.step # "use")
      BY <2>d, <2>1 DEF Create, Going, Step, At
    <3>2. UNCHANGED <<recovery, accepted, repeated, shared, replaced>>
      BY <2>d DEF Create, history
    <3>3. QED
      BY <3>1, <3>2, CodesUntouched
  <2>e. ASSUME NEW p \in Requests, ConfirmEnrollment(p)
        PROVE  CodeHistory'
    <3>a. To(p, "confirm") \in Busy /\ To(p, "confirm").step = "confirm"
      BY <2>e, <2>1 DEF ConfirmEnrollment, At, Step
    <3>b. PICK x \in Secrets : Reads(p, [To(p, "confirm") EXCEPT !.row = x])
      BY <2>e DEF ConfirmEnrollment
    <3>c. /\ [To(p, "confirm") EXCEPT !.row = x] \in Busy
          /\ [To(p, "confirm") EXCEPT !.row = x].step = "confirm"
      BY <3>a DEF Busy
    <3>1. PICK r \in Going : (Commits(p, r) \/ Reads(p, r)) /\ (r # Idle => r.step # "use")
      BY <2>e, <2>1, <3>b, <3>c DEF ConfirmEnrollment, Going, Step, At
    <3>2. UNCHANGED <<recovery, accepted, repeated, shared, replaced>>
      BY <2>e DEF ConfirmEnrollment, history
    <3>3. QED
      BY <3>1, <3>2, CodesUntouched
  <2>f. ASSUME NEW p \in Requests, Confirm(p)
        PROVE  CodeHistory'
    <3>1. PICK r \in Going : (Commits(p, r) \/ Reads(p, r)) /\ (r # Idle => r.step # "use")
      BY <2>f, <2>1 DEF Confirm, Going, Step, At
    <3>2. UNCHANGED <<recovery, accepted, repeated, shared, replaced>>
      BY <2>f DEF Confirm, history
    <3>3. QED
      BY <3>1, <3>2, CodesUntouched
  <2>g. ASSUME NEW p \in Requests, Raise(p)
        PROVE  CodeHistory'
    <3>1. PICK r \in Going : (Commits(p, r) \/ Reads(p, r)) /\ (r # Idle => r.step # "use")
      BY <2>g, <2>1 DEF Raise, Going, Step, At
    <3>2. UNCHANGED <<recovery, accepted, repeated, shared, replaced>>
      BY <2>g DEF Raise, history
    <3>3. QED
      BY <3>1, <3>2, CodesUntouched
  <2>h. ASSUME NEW p \in Requests, Regenerate(p)
        PROVE  CodeHistory'
    <3>1. PICK r \in Going : (Commits(p, r) \/ Reads(p, r)) /\ (r # Idle => r.step # "use")
      BY <2>h, <2>1 DEF Regenerate, Going, Step, At
    <3>2. UNCHANGED <<recovery, accepted, repeated, shared, replaced>>
      BY <2>h DEF Regenerate, history
    <3>3. QED
      BY <3>1, <3>2, CodesUntouched
  <2>k. ASSUME NEW p \in Requests, Verify(p)
        PROVE  CodeHistory'
    <3>a. To(p, "stamp") \in Busy /\ To(p, "stamp").step = "stamp"
      BY <2>k, <2>1 DEF Verify, At, Step
    <3>b. PICK x \in Secrets, l \in BOOLEAN :
             Reads(p, [To(p, "stamp") EXCEPT !.row = x, !.login = l])
      BY <2>k DEF Verify, Confirmed
    <3>c. /\ [To(p, "stamp") EXCEPT !.row = x, !.login = l] \in Busy
          /\ [To(p, "stamp") EXCEPT !.row = x, !.login = l].step = "stamp"
      BY <3>a DEF Busy
    <3>1. PICK r \in Going : (Commits(p, r) \/ Reads(p, r)) /\ (r # Idle => r.step # "use")
      BY <2>k, <2>1, <3>b, <3>c DEF Verify, Going, Step, At
    <3>2. UNCHANGED <<recovery, accepted, repeated, shared, replaced>>
      BY <2>k DEF Verify, history
    <3>3. QED
      BY <3>1, <3>2, CodesUntouched
  <2>l. ASSUME NEW p \in Requests, Stamp(p)
        PROVE  CodeHistory'
    <3>1. PICK r \in Going : (Commits(p, r) \/ Reads(p, r)) /\ (r # Idle => r.step # "use")
      BY <2>l, <2>1 DEF Stamp, Going, Step, At
    <3>2. UNCHANGED <<recovery, accepted, repeated, shared, replaced>>
      BY <2>l DEF Stamp, history
    <3>3. QED
      BY <3>1, <3>2, CodesUntouched
  <2>o. ASSUME NEW p \in Requests, SelfHeal(p)
        PROVE  CodeHistory'
    <3>1. PICK r \in Going : (Commits(p, r) \/ Reads(p, r)) /\ (r # Idle => r.step # "use")
      BY <2>o, <2>1 DEF SelfHeal, Going, Step, At
    <3>2. UNCHANGED <<recovery, accepted, repeated, shared, replaced>>
      BY <2>o DEF SelfHeal, history
    <3>3. QED
      BY <3>1, <3>2, CodesUntouched
  <2>p. ASSUME NEW p \in Requests, ForceReenroll(p)
        PROVE  CodeHistory'
    <3>1. PICK r \in Going : (Commits(p, r) \/ Reads(p, r)) /\ (r # Idle => r.step # "use")
      BY <2>p, <2>1 DEF ForceReenroll, Going, Step, At
    <3>2. UNCHANGED <<recovery, accepted, repeated, shared, replaced>>
      BY <2>p DEF ForceReenroll, history
    <3>3. QED
      BY <3>1, <3>2, CodesUntouched
  <2>q. ASSUME NEW p \in Requests, Drop(p)
        PROVE  CodeHistory'
    <3>1. PICK r \in Going : (Commits(p, r) \/ Reads(p, r)) /\ (r # Idle => r.step # "use")
      BY <2>q, <2>1 DEF Drop, Going, Step, At
    <3>2. UNCHANGED <<recovery, accepted, repeated, shared, replaced>>
      BY <2>q DEF Drop, history
    <3>3. QED
      BY <3>1, <3>2, CodesUntouched
  <2>s. ASSUME NEW p \in Requests, AddPasskey(p)
        PROVE  CodeHistory'
    <3>1. PICK r \in Going : (Commits(p, r) \/ Reads(p, r)) /\ (r # Idle => r.step # "use")
      BY <2>s, <2>1 DEF AddPasskey, Going, Step, At
    <3>2. UNCHANGED <<recovery, accepted, repeated, shared, replaced>>
      BY <2>s DEF AddPasskey, history
    <3>3. QED
      BY <3>1, <3>2, CodesUntouched
  <2>u. ASSUME NEW p \in Requests, RemovePasskey(p)
        PROVE  CodeHistory'
    <3>1. PICK r \in Going : (Commits(p, r) \/ Reads(p, r)) /\ (r # Idle => r.step # "use")
      BY <2>u, <2>1 DEF RemovePasskey, Going, Step, At
    <3>2. UNCHANGED <<recovery, accepted, repeated, shared, replaced>>
      BY <2>u DEF RemovePasskey, history
    <3>3. QED
      BY <3>1, <3>2, CodesUntouched
  <2>v. ASSUME NEW p \in Requests, Recount(p)
        PROVE  CodeHistory'
    <3> DEFINE k == (Confirmed # {})
    <3>a. To(p, "count") \in Busy /\ To(p, "count").step = "count" /\ k \in BOOLEAN
      BY <2>v, <2>1 DEF Recount, At, Step
    <3>b. Reads(p, [To(p, "count") EXCEPT !.has = k])
      BY <2>v DEF Recount
    <3> HIDE DEF k
    <3>c. /\ [To(p, "count") EXCEPT !.has = k] \in Busy
          /\ [To(p, "count") EXCEPT !.has = k].step = "count"
      BY <3>a, BusyUpdates
    <3>1. PICK r \in Going : (Commits(p, r) \/ Reads(p, r)) /\ (r # Idle => r.step # "use")
      BY <3>b, <3>c DEF Going
    <3>2. UNCHANGED <<recovery, accepted, repeated, shared, replaced>>
      BY <2>v DEF Recount, history
    <3>3. QED
      BY <3>1, <3>2, CodesUntouched
  <2>w. ASSUME NEW p \in Requests, Count(p)
        PROVE  CodeHistory'
    <3> DEFINE k == (To(p, "write").has \/ passkeys # {})
    <3>a. To(p, "write") \in Busy /\ To(p, "write").step = "write" /\ k \in BOOLEAN
      BY <2>w, <2>1 DEF Count, At, Step
    <3>b. Reads(p, [To(p, "write") EXCEPT !.has = k])
      BY <2>w DEF Count
    <3> HIDE DEF k
    <3>c. /\ [To(p, "write") EXCEPT !.has = k] \in Busy
          /\ [To(p, "write") EXCEPT !.has = k].step = "write"
      BY <3>a, BusyUpdates
    <3>1. PICK r \in Going : (Commits(p, r) \/ Reads(p, r)) /\ (r # Idle => r.step # "use")
      BY <3>b, <3>c DEF Going
    <3>2. UNCHANGED <<recovery, accepted, repeated, shared, replaced>>
      BY <2>w DEF Count, history
    <3>3. QED
      BY <3>1, <3>2, CodesUntouched
  <2>x. ASSUME NEW p \in Requests, Write(p)
        PROVE  CodeHistory'
    <3>1. PICK r \in Going : (Commits(p, r) \/ Reads(p, r)) /\ (r # Idle => r.step # "use")
      BY <2>x, <2>1 DEF Write, Going, Step, At
    <3>2. UNCHANGED <<recovery, accepted, repeated, shared, replaced>>
      BY <2>x DEF Write, history
    <3>3. QED
      BY <3>1, <3>2, CodesUntouched
  <2>y. ASSUME NEW p \in Requests, CutOff(p)
        PROVE  CodeHistory'
    <3>1. PICK r \in Going : (Commits(p, r) \/ Reads(p, r)) /\ (r # Idle => r.step # "use")
      BY <2>y, <2>1 DEF CutOff, Going, Step, At
    <3>2. UNCHANGED <<recovery, accepted, repeated, shared, replaced>>
      BY <2>y DEF CutOff, history
    <3>3. QED
      BY <3>1, <3>2, CodesUntouched
  <2>i. ASSUME NEW p \in Requests, Wipe(p)
        PROVE  CodeHistory'
    <3>a. To(p, "fill") \in Busy /\ To(p, "fill").step = "fill"
      BY <2>i, <2>1 DEF Wipe, At, Step
    <3>b. NumCodes \in 0 .. NumCodes
      BY FactorAssumption
    <3>c. LET n == [To(p, "fill") EXCEPT !.left = NumCodes]
          IN  n \in Busy /\ n.step = "fill"
      BY <3>a, <3>b, BusyUpdates
    <3>1. PICK r \in Going : (Commits(p, r)) /\ (r # Idle => r.step # "use")
      BY <2>i, <2>1, <3>c DEF Wipe, Going, Step, At
    <3>2. NoCodes /\ UNCHANGED <<accepted, repeated, shared>>
      BY <2>i DEF Wipe, history
    <3>3. QED
      BY <3>1, <3>2, CodesReplaced
  <2>r. ASSUME NEW p \in Requests, Forget(p)
        PROVE  CodeHistory'
    <3>1. PICK r \in Going : (Commits(p, r)) /\ (r # Idle => r.step # "use")
      BY <2>r, <2>1 DEF Forget, Going, Step, At
    <3>2. NoCodes /\ UNCHANGED <<accepted, repeated, shared>>
      BY <2>r DEF Forget, history
    <3>3. QED
      BY <3>1, <3>2, CodesReplaced
  <2>h1. \A q \in Requests, c \in Codes, p \in Requests, r \in Going :
            /\ Commits(p, r) \/ Reads(p, r)
            /\ Holds(q, c)'
            => IF q = p THEN r \in Busy /\ r.step = "use" /\ r.row = c ELSE Holds(q, c)
    BY <2>0, HoldersRemain
  <2>h2. \A r \in Busy : r # Idle
    BY IdleIsNotBusy
  <2>j. ASSUME NEW p \in Requests, Fill(p)
        PROVE  CodeHistory'
    <3>a. request[p] \in Busy /\ request[p].step = "fill" /\ request[p].left # 0
      BY <2>j, <2>0, <2>1 DEF Fill, At, RowsHeld, Step
    <3>b. request[p].left # 1 => request[p].left - 1 \in 0 .. NumCodes
      BY <3>a, FactorAssumption DEF Busy
    <3>c. request[p].left # 1 =>
             LET n == [request[p] EXCEPT !.left = request[p].left - 1]
             IN  n \in Busy /\ n.step = "fill"
      BY <3>a, <3>b, BusyUpdates
    <3>1. PICK r \in Going : Commits(p, r) /\ (r # Idle => r.step # "use")
      BY <2>j, <3>c DEF Fill, Going
    <3>2. \A q \in Requests, c \in Codes : Holds(q, c)' => Holds(q, c)
      BY <2>h1, <2>h2, <3>1
    <3>3. /\ UNCHANGED <<accepted, repeated, shared, replaced>>
          /\ \A c \in Codes : recovery[c] # "unused" => recovery'[c] = recovery[c]
      BY <2>j, <2>0 DEF Fill, history
    <3>4. \A c \in accepted' : recovery'[c] \in {"used", "deleted"}
      BY <2>0, <3>3 DEF CodeHistory
    <3>5. \A c \in replaced' : recovery'[c] = "deleted" /\ c \notin accepted'
      BY <2>0, <3>3 DEF CodeHistory
    <3>6. \A q \in Requests, c \in accepted' : Holds(q, c)' => c \in shared'
      BY <2>0, <3>2, <3>3 DEF CodeHistory
    <3>7. \A q, o \in Requests, c \in Codes : q # o /\ Holds(q, c)' /\ Holds(o, c)' => c \in shared'
      BY <3>2, <3>3 DEF CodeHistory
    <3>8. QED
      BY <3>3, <3>4, <3>5, <3>6, <3>7 DEF CodeHistory, OnceEach
  <2>m. ASSUME NEW p \in Requests, Consume(p)
        PROVE  CodeHistory'
    <3>a. To(p, "use") \in Busy /\ To(p, "use").step = "use" /\ ~At(p, "use")
      BY <2>m, <2>1 DEF Consume, At, Step
    <3>b. PICK c \in Codes : recovery[c] = "fresh" /\ Matches(p, c)
      BY <2>m DEF Consume
    <3> DEFINE n == [To(p, "use") EXCEPT !.row = c]
    <3>c. n \in Busy /\ n.step = "use" /\ n.row = c /\ n \in Going
      BY <3>a DEF Busy, Going
    <3>d. /\ Reads(p, n)
          /\ shared' = IF \E q \in Requests : Holds(q, c) THEN shared \cup {c} ELSE shared
      BY <3>b DEF Matches, Holds
    <3> HIDE DEF n
    <3>1. \A q \in Requests, k \in Codes : Holds(q, k)' => IF q = p THEN k = c ELSE Holds(q, k)
      BY <2>h1, <3>c, <3>d
    <3>2. UNCHANGED <<recovery, accepted, repeated, replaced>> /\ shared \subseteq shared'
      BY <2>m, <3>d DEF Consume
    <3>3. c \notin accepted
      BY <3>b DEF CodeHistory
    <3>4. \A q \in Requests, k \in accepted' : Holds(q, k)' => k \in shared'
      BY <2>0, <3>1, <3>2, <3>3 DEF CodeHistory
    <3>5. \A q, o \in Requests, k \in Codes : q # o /\ Holds(q, k)' /\ Holds(o, k)' => k \in shared'
      BY <3>1, <3>2, <3>d DEF CodeHistory
    <3>6. QED
      BY <3>2, <3>4, <3>5 DEF CodeHistory, OnceEach
  <2>n. ASSUME NEW p \in Requests, Use(p)
        PROVE  CodeHistory'
    <3> DEFINE c == request[p].row
               n == IF Stands(c) THEN To(p, "drop") ELSE Idle
    <3>a. Holds(p, c) /\ c \in Codes /\ Commits(p, n) /\ UNCHANGED <<shared, replaced>>
      BY <2>n, <2>0 DEF Use, Holds, RowsHeld
    <3>b. n \in Going /\ (n # Idle => n.step # "use")
      BY <2>n, <2>1 DEF Use, At, Step, Going
    <3>c. IF Stands(c)
          THEN /\ recovery' = [recovery EXCEPT ![c] = "used"]
               /\ accepted' = accepted \cup {c}
               /\ repeated' = IF c \in accepted THEN repeated \cup {c} ELSE repeated
          ELSE UNCHANGED <<recovery, accepted, repeated>>
      BY <2>n DEF Use
    <3> HIDE DEF c
    <3>1. \A q \in Requests, k \in Codes : Holds(q, k)' => q # p /\ Holds(q, k)
      <4> HIDE DEF n
      <4> QED
        BY <2>h1, <2>h2, <3>a, <3>b
    <3>2. c \in accepted => c \in shared
      BY <3>a DEF CodeHistory
    <3>3. repeated' \subseteq shared'
      BY <3>a, <3>c, <3>2 DEF CodeHistory, OnceEach
    <3>4. \A k \in accepted' : recovery'[k] \in {"used", "deleted"}
      BY <2>0, <3>a, <3>c DEF CodeHistory
    <3>5. \A k \in replaced' : recovery'[k] = "deleted" /\ k \notin accepted'
      BY <2>0, <3>a, <3>c DEF CodeHistory, Stands
    <3>6. \A q \in Requests, k \in accepted' : Holds(q, k)' => k \in shared'
      BY <2>0, <3>a, <3>c, <3>1 DEF CodeHistory
    <3>7. \A q, o \in Requests, k \in Codes : q # o /\ Holds(q, k)' /\ Holds(o, k)' => k \in shared'
      BY <3>a, <3>1 DEF CodeHistory
    <3>8. QED
      BY <3>3, <3>4, <3>5, <3>6, <3>7 DEF CodeHistory, OnceEach
  <2>z. CASE UNCHANGED vars
    BY <2>z DEF vars, CodeHistory, OnceEach, Holds, At
  <2> QED
    BY <2>a, <2>b, <2>c, <2>d, <2>e, <2>f, <2>g, <2>h, <2>i, <2>j, <2>k, <2>l, <2>m, <2>n,
       <2>o, <2>p, <2>q, <2>r, <2>s, <2>u, <2>v, <2>w, <2>x, <2>y, <2>z
       DEF Next, Enrol, Generate, Ask, Disable
<1>3. QED
  BY <1>1, <1>2, FactorTypes, PTL DEF Spec

(* A recovery code is accepted twice only if two requests had matched it     *)
(* before either marked it used (consume).                                   *)
THEOREM CodesUsedOnce == Spec => []OnceEach
<1>1. CodeHistory => OnceEach
  BY DEF CodeHistory
<1>2. QED
  BY <1>1, CodesRemembered, PTL

(* No code that was replaced is accepted, and no row that was deleted comes  *)
(* back: an UPDATE that comes late hits nothing (generate_for, mark_used).   *)
THEOREM DeletedForGood == Spec => GoneForGood
<1> DEFINE Gone == /\ replaced' \cap accepted' = {}
                   /\ \A x \in Secrets : secret[x] = "deleted" => secret'[x] = "deleted"
                   /\ \A c \in Codes : recovery[c] = "deleted" => recovery'[c] = "deleted"
<1>1. ITypes /\ CodeHistory' /\ [Next]_vars => [Gone]_vars
  <2> SUFFICES ASSUME ITypes, CodeHistory', Next
               PROVE  Gone
    OBVIOUS
  <2>1. replaced' \cap accepted' = {}
    BY DEF CodeHistory
  <2>2. PICK p \in Requests :
            Arrive(p) \/ Enrol(p) \/ Generate(p) \/ Ask(p) \/ Disable(p) \/ CutOff(p)
    BY DEF Next
  <2>3. /\ secret \in [Secrets -> {"unused", "pending", "confirmed", "deleted"}]
        /\ recovery \in [Codes -> {"unused", "fresh", "used", "deleted"}]
    BY DEF ITypes, TypeOK
  <2>4. CASE Arrive(p) \/ CutOff(p)
    BY <2>1, <2>4 DEF Arrive, CutOff
  <2>5. CASE Enrol(p)
    <3>1. recovery' = recovery
      BY <2>5 DEF Enrol, BeginEnrollment, Clear, Create, ConfirmEnrollment, Confirm, Raise
    <3>2. CASE BeginEnrollment(p) \/ ConfirmEnrollment(p) \/ Raise(p)
      BY <2>1, <3>1, <3>2 DEF BeginEnrollment, ConfirmEnrollment, Raise
    <3>3. CASE Clear(p)
      BY <2>1, <3>1, <3>3, TablesDeleted DEF Clear
    <3>4. CASE Create(p)
      BY <2>1, <2>3, <3>1, <3>4 DEF Create
    <3>5. CASE Confirm(p)
      BY <2>1, <2>3, <3>1, <3>5 DEF Confirm, Stored
    <3>6. QED
      BY <2>5, <3>2, <3>3, <3>4, <3>5 DEF Enrol
  <2>6. CASE Generate(p)
    BY <2>1, <2>3, <2>6, TablesDeleted DEF Generate, Regenerate, Wipe, Fill
  <2>7. CASE Ask(p)
    BY <2>1, <2>3, <2>7
       DEF Ask, Verify, Stamp, Consume, Use, SelfHeal, ForceReenroll, Stands
  <2>8. CASE Disable(p)
    BY <2>1, <2>8, TablesDeleted
       DEF Disable, Drop, Forget, AddPasskey, RemovePasskey, Recount, Count, Write
  <2>9. QED
    BY <2>2, <2>4, <2>5, <2>6, <2>7, <2>8
<1>2. QED
  BY <1>1, FactorTypes, CodesRemembered, PTL DEF Spec, GoneForGood
=============================================================================
