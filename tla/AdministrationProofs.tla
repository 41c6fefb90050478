------------------------- MODULE AdministrationProofs -------------------------
(* What Administration and Webhooks promise, proved for every number of       *)
(* actors, rows, events and hooks.  The two share no state: no other table    *)
(* refers to those of the hooks.                                              *)
EXTENDS Administration, Webhooks, FiniteSetTheorems, TLAPS

-----------------------------------------------------------------------------
(* The types of Webhooks.                                                    *)

(* How many times the task can have been posted if no worker has died.       *)
Made(d) == delivery[d].retries + (IF delivery[d].step \in {"log", "unlogged", "done"} THEN 1 ELSE 0)
HooksOK == hooks \in [Hooks -> Hook]
LogsOK == logs \subseteq Log /\ \A l \in logs : hooks[HookOf(l.of)].life = "live"
TriggersOK == trigger \in [Events -> Trigger] /\ \A e \in Events : trigger[e].run <= crashes
DeliveriesOK == delivery \in [Deliveries -> Delivery]
PostsOK ==
    /\ posts \in [Deliveries -> Nat]
    /\ \A d \in Deliveries : posts[d] <= Made(d) + crashes
(* The tasks that a trigger is still to make have not been made.              *)
ToMake(e, w, r) ==
    \/ r > trigger[e].run
    \/ r = trigger[e].run /\ trigger[e].step \in {"none", "queued"}
    \/ r = trigger[e].run /\ trigger[e].step = "sending" /\ w \in trigger[e].todo
Unmade(d) == delivery[d].step = "none"
MadeOnce ==
    \A e \in Events, w \in Hooks, r \in 0 .. MaxCrashes :
        ToMake(e, w, r) => Unmade(<<e, w, r>>)
PastOK == crashes \in 0 .. MaxCrashes /\ died \subseteq Deliveries /\ changed \subseteq Deliveries

Typed == HooksOK /\ LogsOK /\ TriggersOK /\ DeliveriesOK /\ PostsOK /\ PastOK /\ MadeOnce

LEMMA TypedIsTypeOK == Typed => HooksTypeOK
<1> SUFFICES ASSUME Typed PROVE HooksTypeOK
  OBVIOUS
<1> USE DEF Typed
<1>1. posts \in [Deliveries -> 0 .. MaxAttempts + 1 + MaxCrashes]
  <2>1. ASSUME NEW d \in Deliveries PROVE posts[d] \in 0 .. MaxAttempts + 1 + MaxCrashes
    <3>1. delivery[d].retries \in Nat /\ delivery[d].retries <= MaxAttempts
      BY WebhookAssumption DEF DeliveriesOK, Delivery
    <3>2. Made(d) \in Nat /\ Made(d) <= MaxAttempts + 1
      BY <3>1, WebhookAssumption DEF Made
    <3>3. QED
      BY <3>2, WebhookAssumption DEF PostsOK, PastOK
  <2>2. QED
    BY <2>1 DEF PostsOK
<1>2. QED
  BY <1>1 DEF HooksTypeOK, HooksOK, LogsOK, TriggersOK, DeliveriesOK, PastOK

LEMMA HookOfDelivery ==
    ASSUME NEW d \in Deliveries PROVE HookOf(d) \in Hooks
  BY DEF Deliveries, HookOf

LEMMA TypedAtFirst == HooksInit => Typed
  BY WebhookAssumption DEF HooksInit, Typed, HooksOK, LogsOK, TriggersOK, DeliveriesOK, PostsOK, PastOK,
     MadeOnce, Unmade, Deliveries, Made, Hook, Trigger, Delivery

(* How tasks and triggers change: one row at most.                            *)
LEMMA AdministerTyped ==
    ASSUME Typed, NEW w \in Hooks, Administer(w)
    PROVE  Typed'
<1> USE DEF Typed
<1>1. UNCHANGED <<trigger, delivery, crashes, posts, died>>
  BY DEF Administer, CreateWebhook, CreateOnDashboard, UpdateWebhook, UpdateOnDashboard,
     RegenerateWebhookSecret, RegenerateOnDashboard, DeleteWebhook, DeleteOnDashboard
<1>2. TriggersOK' /\ DeliveriesOK' /\ PostsOK' /\ MadeOnce'
  BY <1>1 DEF TriggersOK, DeliveriesOK, PostsOK, Made, MadeOnce, ToMake, Unmade
<1>3. CASE \E types \in SUBSET Types : CreateWebhook(w, types)
  <2>1. PICK types \in SUBSET Types : CreateWebhook(w, types)
    BY <1>3
  <2>2. HooksOK'
    BY <2>1 DEF CreateWebhook, HooksOK, Hook
  <2>3. LogsOK'
    <3>1. \A l \in logs : HookOf(l.of) # w /\ HookOf(l.of) \in Hooks
      BY <2>1, HookOfDelivery DEF CreateWebhook, LogsOK, Log
    <3>2. QED
      BY <2>1, <3>1 DEF CreateWebhook, HooksOK, LogsOK
  <2>4. QED
    BY <1>1, <1>2, <2>1, <2>2, <2>3 DEF CreateWebhook, PastOK
<1>4. CASE \E types \in SUBSET Types : UpdateWebhook(w, types)
  <2>1. changed' \subseteq Deliveries
    BY <1>4 DEF UpdateWebhook, Aiming, PastOK
  <2>2. PICK types \in SUBSET Types : UpdateWebhook(w, types)
    BY <1>4
  <2>3. hooks[w].version + 1 \in 0 .. MaxChanges
    BY <2>2, WebhookAssumption DEF UpdateWebhook, HooksOK, Hook
  <2>4. HooksOK'
    BY <2>2, <2>3 DEF UpdateWebhook, HooksOK, Hook
  <2>5. LogsOK'
    BY <2>2, HookOfDelivery DEF UpdateWebhook, HooksOK, LogsOK, Log, Hook
  <2>6. QED
    BY <1>1, <1>2, <2>1, <2>4, <2>5 DEF PastOK
<1>5. CASE DeleteWebhook(w)
  <2>1. HooksOK' /\ PastOK'
    BY <1>1, <1>5, WebhookAssumption DEF DeleteWebhook, HooksOK, Hook, PastOK
  <2>2. LogsOK'
    BY <1>5, HookOfDelivery DEF DeleteWebhook, HooksOK, LogsOK, Log
  <2>3. QED
    BY <1>2, <2>1, <2>2
<1>6. ASSUME RegenerateWebhookSecret(w)
      PROVE  \E types \in SUBSET Types : UpdateWebhook(w, types)
  BY <1>6 DEF RegenerateWebhookSecret, HooksOK, Hook
<1>7. \/ \E types \in SUBSET Types : CreateWebhook(w, types)
      \/ \E types \in SUBSET Types : UpdateWebhook(w, types)
      \/ DeleteWebhook(w) \/ RegenerateWebhookSecret(w)
  BY DEF Administer, CreateOnDashboard, UpdateOnDashboard, RegenerateOnDashboard,
     DeleteOnDashboard
<1>8. QED
  BY <1>3, <1>4, <1>5, <1>6, <1>7

Triggering(e) ==
    TriggerWebhooks(e) \/ ReadHooks(e) \/ AllSent(e) \/ TriggerDies(e)

LEMMA TriggerTyped ==
    ASSUME Typed, NEW e \in Events, Triggering(e)
    PROVE  Typed'
<1> USE DEF Typed
<1>1. UNCHANGED <<hooks, logs, delivery, posts, died, changed>> /\ crashes' \in {crashes, crashes + 1}
  BY DEF Triggering, TriggerWebhooks, ReadHooks, AllSent, TriggerDies
<1>2. PastOK'
  BY <1>1, WebhookAssumption DEF PastOK, Triggering, TriggerWebhooks, ReadHooks, AllSent, TriggerDies
<1>3. HooksOK' /\ LogsOK' /\ DeliveriesOK'
  BY <1>1 DEF HooksOK, LogsOK, DeliveriesOK
<1>4. PostsOK'
  <2>1. \A d \in Deliveries : Made(d) \in Nat
    BY WebhookAssumption DEF DeliveriesOK, Delivery, Made
  <2>2. QED
    BY <1>1, <2>1, WebhookAssumption DEF PostsOK, PastOK, Made
<1>5. TriggersOK'
  <2>1. CASE TriggerWebhooks(e) \/ ReadHooks(e) \/ AllSent(e)
    BY <2>1 DEF TriggersOK, Trigger, TriggerWebhooks, ReadHooks, AllSent
  <2>2. CASE TriggerDies(e)
    <3>1. trigger[e].run + 1 \in 0 .. MaxCrashes /\ trigger[e].run + 1 <= crashes + 1
      BY <2>2, WebhookAssumption DEF TriggersOK, Trigger, TriggerDies, PastOK
    <3>2. ASSUME NEW f \in Events PROVE trigger[f].run \in Nat /\ trigger[f].run <= crashes
      BY WebhookAssumption DEF TriggersOK, Trigger
    <3>3. trigger' \in [Events -> Trigger]
      BY <2>2, <3>1 DEF TriggersOK, Trigger, TriggerDies
    <3>4. ASSUME NEW f \in Events PROVE trigger'[f].run <= crashes'
      BY <2>2, <3>1, <3>2, WebhookAssumption DEF TriggersOK, TriggerDies, PastOK
    <3>5. QED
      BY <3>3, <3>4 DEF TriggersOK
  <2>3. QED
    BY <2>1, <2>2 DEF Triggering
<1>6. MadeOnce'
  <2> SUFFICES ASSUME NEW f \in Events, NEW w \in Hooks, NEW r \in 0 .. MaxCrashes,
                      ToMake(f, w, r)'
               PROVE  Unmade(<<f, w, r>>)
    BY <1>1 DEF MadeOnce, Unmade
  <2>1. trigger \in [Events -> Trigger] /\ trigger[e].run \in Nat
    BY WebhookAssumption DEF TriggersOK, Trigger
  <2>2. CASE f # e
    <3>1. trigger'[f] = trigger[f]
      BY <2>1, <2>2 DEF Triggering, TriggerWebhooks, ReadHooks, AllSent, TriggerDies
    <3>2. QED
      BY <3>1 DEF ToMake, MadeOnce
  <2>3. CASE f = e /\ TriggerDies(e)
    BY <2>1, <2>3 DEF ToMake, MadeOnce, TriggerDies
  <2>4. CASE f = e /\ (TriggerWebhooks(e) \/ ReadHooks(e))
    <3>1. trigger[e].step \in {"none", "queued"}
      BY <2>4 DEF TriggerWebhooks, ReadHooks
    <3>2. CASE TriggerWebhooks(e)
      BY <2>1, <2>4, <3>1, <3>2 DEF TriggerWebhooks, ToMake, MadeOnce
    <3>3. CASE ReadHooks(e)
      BY <2>1, <2>4, <3>1, <3>3 DEF ReadHooks, ToMake, MadeOnce
    <3>4. QED
      BY <2>4, <3>2, <3>3
  <2>5. CASE f = e /\ AllSent(e)
    BY <2>1, <2>5 DEF ToMake, MadeOnce, AllSent
  <2>6. QED
    BY <2>2, <2>3, <2>4, <2>5 DEF Triggering
<1>7. QED
  BY <1>2, <1>3, <1>4, <1>5, <1>6

LEMMA SendTyped ==
    ASSUME Typed, NEW e \in Events, NEW w \in Hooks, SendDelivery(e, w)
    PROVE  /\ Typed'
           /\ <<e, w, trigger[e].run>> \in Deliveries
           /\ Unmade(<<e, w, trigger[e].run>>)
<1> USE DEF Typed
<1> DEFINE d == <<e, w, trigger[e].run>>
<1>1. d \in Deliveries /\ Unmade(d)
  BY WebhookAssumption DEF TriggersOK, Trigger, Deliveries, SendDelivery, MadeOnce, ToMake
<1>2. delivery' = [delivery EXCEPT ![d].step = "queued"]
  BY DEF SendDelivery
<1>3. TriggersOK'
  BY DEF SendDelivery, TriggersOK, Trigger
<1>4. MadeOnce'
  <2> SUFFICES ASSUME NEW f \in Events, NEW v \in Hooks, NEW r \in 0 .. MaxCrashes,
                      ToMake(f, v, r)'
               PROVE  Unmade(<<f, v, r>>)'
    BY DEF MadeOnce
  <2>1. ToMake(f, v, r) /\ <<f, v, r>> # d
    BY DEF SendDelivery, TriggersOK, Trigger, ToMake
  <2>2. <<f, v, r>> \in Deliveries
    BY DEF Deliveries
  <2>3. QED
    BY <1>2, <2>1, <2>2 DEF MadeOnce, Unmade, DeliveriesOK
<1> HIDE DEF d
<1>5. DeliveriesOK'
  BY <1>1, <1>2 DEF DeliveriesOK, Delivery
<1>6. \A c \in Deliveries : Made(c)' = Made(c)
  BY <1>1, <1>2 DEF DeliveriesOK, Delivery, Made, Unmade
<1>7. PostsOK'
  BY <1>6 DEF SendDelivery, PostsOK
<1>8. HooksOK' /\ LogsOK' /\ PastOK'
  BY DEF SendDelivery, HooksOK, LogsOK, PastOK
<1>9. QED
  BY <1>1, <1>3, <1>4, <1>5, <1>7, <1>8 DEF d

(* What a worker does to its task: the posts it has made and the retries that *)
(* are counted keep up with each other.                                       *)
LEMMA DeliveryTyped ==
    ASSUME Typed, NEW d \in Deliveries, RunDelivery(d) \/ DeliveryFails(d) \/ DeliveryDies(d)
    PROVE  Typed'
<1> USE DEF Typed
<1>1. delivery[d].step # "none" /\ UNCHANGED <<hooks, trigger>>
  BY DEF RunDelivery, DeliveryFails, DeliveryDies, Fetch, LogResult, ExecuteDelivery
<1>2. \E r \in Delivery : delivery' = [delivery EXCEPT ![d] = r]
  <2>1. delivery[d] \in Delivery /\ hooks[HookOf(d)].version \in 0 .. MaxChanges
    BY HookOfDelivery DEF DeliveriesOK, HooksOK, Hook
  <2>2. CASE Fetch(d)
    <3> DEFINE r == IF Exists(HookOf(d))
                    THEN [delivery[d] EXCEPT !.step = "post", !.version = hooks[HookOf(d)].version]
                    ELSE [delivery[d] EXCEPT !.step = "done", !.version = 0]
    <3>1. r \in Delivery
      <4>1. CASE Exists(HookOf(d))
        BY <2>1, <4>1 DEF Delivery
      <4>2. CASE ~Exists(HookOf(d))
        <5>1. 0 \in 0 .. MaxChanges
          BY WebhookAssumption
        <5>2. QED
          BY <2>1, <4>2, <5>1 DEF Delivery
      <4>3. QED
        BY <4>1, <4>2
    <3>2. delivery' = [delivery EXCEPT ![d] = r]
      BY <2>2 DEF Fetch, DeliveriesOK
    <3>3. QED
      BY <3>1, <3>2
  <2>3. CASE \E success \in BOOLEAN : ExecuteDelivery(d, success)
    <3>1. PICK success \in BOOLEAN : ExecuteDelivery(d, success)
      BY <2>3
    <3> DEFINE r == [delivery[d] EXCEPT !.step = "log", !.success = success]
    <3>2. r \in Delivery
      BY <2>1 DEF Delivery
    <3>3. delivery' = [delivery EXCEPT ![d] = r]
      BY <3>1 DEF ExecuteDelivery, DeliveriesOK
    <3>4. QED
      BY <3>2, <3>3
  <2>4. CASE LogResult(d)
    <3> DEFINE r == IF Exists(HookOf(d)) /\ ShouldRetry(d)
                    THEN [delivery[d] EXCEPT !.step = "queued", !.retries = @ + 1]
                    ELSE [delivery[d] EXCEPT !.step = "done", !.version = 0]
    <3>1. r \in Delivery
      <4>1. CASE Exists(HookOf(d)) /\ ShouldRetry(d)
        <5>1. delivery[d].retries + 1 \in 0 .. MaxAttempts
          BY <2>1, <4>1, WebhookAssumption DEF Delivery, ShouldRetry
        <5>2. QED
          BY <2>1, <4>1, <5>1 DEF Delivery
      <4>2. CASE ~(Exists(HookOf(d)) /\ ShouldRetry(d))
        <5>1. 0 \in 0 .. MaxChanges
          BY WebhookAssumption
        <5>2. QED
          BY <2>1, <4>2, <5>1 DEF Delivery
      <4>3. QED
        BY <4>1, <4>2
    <3>2. delivery' = [delivery EXCEPT ![d] = r]
      BY <2>4 DEF LogResult, DeliveriesOK, Retried
    <3>3. QED
      BY <3>1, <3>2
  <2>5. CASE DeliveryDies(d)
    <3> DEFINE r == [delivery[d] EXCEPT !.step = "queued"]
    <3>1. r \in Delivery
      BY <2>1 DEF Delivery
    <3>2. delivery' = [delivery EXCEPT ![d] = r]
      BY <2>5 DEF DeliveryDies, DeliveriesOK
    <3>3. QED
      BY <3>1, <3>2
  <2>6. CASE DeliveryFails(d)
    <3> DEFINE r == [delivery[d] EXCEPT !.step = IF @ = "log" THEN "unlogged" ELSE "failed",
                                        !.version = 0]
    <3>1. 0 \in 0 .. MaxChanges
      BY WebhookAssumption
    <3>2. r \in Delivery
      BY <2>1, <3>1 DEF Delivery, Broken
    <3>3. delivery' = [delivery EXCEPT ![d] = r]
      BY <2>6 DEF DeliveryFails, DeliveriesOK
    <3>4. QED
      BY <3>2, <3>3
  <2>7. QED
    BY <2>2, <2>3, <2>4, <2>5, <2>6 DEF RunDelivery
<1>3. DeliveriesOK'
  BY <1>2 DEF DeliveriesOK
<1>4. MadeOnce'
  <2> SUFFICES ASSUME NEW e \in Events, NEW w \in Hooks, NEW r \in 0 .. MaxCrashes,
                      ToMake(e, w, r)
               PROVE  Unmade(<<e, w, r>>)'
    BY <1>1 DEF MadeOnce, ToMake
  <2>1. Unmade(<<e, w, r>>) /\ <<e, w, r>> # d
    BY <1>1 DEF MadeOnce, Unmade
  <2>2. QED
    BY <1>2, <2>1 DEF Unmade, DeliveriesOK
<1>5. LogsOK'
  <2>1. CASE logs' \subseteq logs
    BY <1>1, <2>1 DEF LogsOK
  <2>2. CASE LogResult(d) /\ Exists(HookOf(d))
    <3> DEFINE l == [of |-> d, attempt |-> Attempt(d), success |-> delivery[d].success]
    <3>1. l \in Log /\ hooks[HookOf(l.of)].life = "live"
      BY <2>2, WebhookAssumption DEF DeliveriesOK, Delivery, Log, Attempt, Exists
    <3>2. logs' = logs \cup {l}
      BY <2>2 DEF LogResult
    <3> HIDE DEF l
    <3>3. QED
      BY <1>1, <3>1, <3>2 DEF LogsOK
  <2>3. QED
    BY <2>1, <2>2 DEF RunDelivery, DeliveryFails, DeliveryDies, Fetch, LogResult, ExecuteDelivery
<1>6. PastOK'
  BY WebhookAssumption
     DEF PastOK, RunDelivery, DeliveryFails, DeliveryDies, Fetch, LogResult, ExecuteDelivery
<1>7. PostsOK'
  <2>1. ASSUME NEW c \in Deliveries, c # d PROVE Made(c)' = Made(c) /\ posts'[c] = posts[c]
    <3>1. Made(c)' = Made(c)
      BY <1>2, <2>1 DEF Made, DeliveriesOK
    <3>2. posts' = posts \/ posts' = [posts EXCEPT ![d] = @ + 1]
      BY DEF RunDelivery, DeliveryFails, DeliveryDies, Fetch, LogResult, ExecuteDelivery
    <3>3. QED
      BY <2>1, <3>1, <3>2 DEF PostsOK
  <2>2. ASSUME NEW c \in Deliveries PROVE Made(c) \in Nat
    BY WebhookAssumption DEF DeliveriesOK, Delivery, Made
  <2>3. crashes \in Nat /\ crashes' \in Nat /\ crashes <= crashes'
    BY WebhookAssumption
       DEF PastOK, RunDelivery, DeliveryFails, DeliveryDies, Fetch, LogResult, ExecuteDelivery
  <2>4. posts'[d] \in Nat /\ posts'[d] <= Made(d)' + crashes'
    <3>1. /\ posts[d] \in Nat /\ posts[d] <= Made(d) + crashes
          /\ delivery[d].retries \in Nat
      BY WebhookAssumption DEF PostsOK, DeliveriesOK, Delivery
    <3>2. CASE Fetch(d)
      BY <2>3, <3>1, <3>2 DEF Fetch, Made, DeliveriesOK
    <3>3. CASE \E success \in BOOLEAN : ExecuteDelivery(d, success)
      BY <2>3, <3>1, <3>3 DEF ExecuteDelivery, Made, DeliveriesOK, PostsOK
    <3>4. CASE LogResult(d)
      BY <2>3, <3>1, <3>4 DEF LogResult, Retried, Made, DeliveriesOK
    <3>5. CASE DeliveryDies(d)
      BY <2>3, <3>1, <3>5 DEF DeliveryDies, Made, DeliveriesOK
    <3>6. CASE DeliveryFails(d)
      BY <2>3, <3>1, <3>6 DEF DeliveryFails, Made, DeliveriesOK
    <3>7. QED
      BY <3>2, <3>3, <3>4, <3>5, <3>6 DEF RunDelivery
  <2>5. posts' \in [Deliveries -> Nat]
    BY DEF PostsOK, RunDelivery, DeliveryFails, DeliveryDies, Fetch, LogResult, ExecuteDelivery
  <2>6. QED
    BY <2>1, <2>2, <2>3, <2>4, <2>5 DEF PostsOK
<1>8. HooksOK'
  BY <1>1 DEF HooksOK
<1>9. TriggersOK'
  <2>1. crashes \in Nat /\ crashes' \in {crashes, crashes + 1}
    BY WebhookAssumption
       DEF PastOK, RunDelivery, DeliveryFails, DeliveryDies, Fetch, LogResult, ExecuteDelivery
  <2>2. QED
    BY <1>1, <2>1, WebhookAssumption DEF TriggersOK, Trigger
<1>10. QED
  BY <1>3, <1>4, <1>5, <1>6, <1>7, <1>8, <1>9

LEMMA TypedStays ==
    ASSUME Typed, [HooksNext]_hookVars
    PROVE  Typed'
<1>1. CASE UNCHANGED hookVars
  BY <1>1 DEF hookVars, Typed, HooksOK, LogsOK, TriggersOK, DeliveriesOK, PostsOK, PastOK, MadeOnce,
     ToMake, Unmade, Made
<1>2. QED
  BY <1>1, AdministerTyped, TriggerTyped, SendTyped, DeliveryTyped DEF HooksNext, Triggering, RunTrigger

(* The rows and tasks keep their types, whatever dies and is repeated: no log *)
(* outlives its hook, and no task is posted more often than its attempts and  *)
(* the deaths of workers allow.                                               *)
THEOREM WebhookTypes == HooksSpec => []HooksTypeOK
<1>1. HooksInit => Typed
  BY TypedAtFirst
<1>2. Typed /\ [HooksNext]_hookVars => Typed'
  BY TypedStays
<1>3. Typed => HooksTypeOK
  BY TypedIsTypeOK
<1>4. QED
  BY <1>1, <1>2, <1>3, PTL DEF HooksSpec

-----------------------------------------------------------------------------
(* The log.                                                                  *)

(* What the row of a task, the number of its posts and its logs have to do   *)
(* with each other, as long as no worker has died over it.                   *)
Counted(row, n) == n - (IF row.step \in {"log", "unlogged"} THEN 1 ELSE 0)
Tally(row, n, logged) ==
    /\ {l.attempt : l \in logged} = 1 .. Counted(row, n)
    /\ \A k, l \in logged : k.attempt = l.attempt => k = l
    /\ row.step # "done" => Counted(row, n) = row.retries /\ \A l \in logged : ~l.success
    /\ \A l \in logged : l.success => l.attempt = n
Logged(d) == {l \in logs : l.of = d}
Recorded(d) == Tally(delivery[d], posts[d], Logged(d))

(* Nobody has heard of a hook that does not exist yet.                       *)
Untouched(d) == Unmade(d) /\ delivery[d].retries = 0 /\ posts[d] = 0
Unused(w) == hooks[w].life = "unused"
NoneEarly ==
    \A w \in Hooks : Unused(w) =>
        /\ \A e \in Events : w \notin trigger[e].todo
        /\ \A d \in Deliveries : HookOf(d) = w => Untouched(d)
AllRecorded == \A d \in Deliveries : d \notin died /\ Exists(HookOf(d)) => Recorded(d)

LEMMA TallyCounts ==
    ASSUME NEW row \in Delivery, NEW n \in Nat, NEW logged, Tally(row, n, logged)
    PROVE  Cardinality(logged) = Counted(row, n)
<1> DEFINE m == Counted(row, n)
           f == [i \in 1 .. m |-> CHOOSE l \in logged : l.attempt = i]
<1>1. m \in Nat
  BY WebhookAssumption DEF Counted, Tally, Delivery
<1>2. \A i \in 1 .. m : f[i] \in logged /\ f[i].attempt = i
  <2> SUFFICES ASSUME NEW i \in 1 .. m
               PROVE  \E l \in logged : l.attempt = i
    OBVIOUS
  <2>1. i \in {l.attempt : l \in logged}
    BY DEF Tally
  <2>2. QED
    BY <2>1
<1>3. \A l \in logged : l.attempt \in 1 .. m /\ l = f[l.attempt]
  <2> SUFFICES ASSUME NEW l \in logged
               PROVE  l.attempt \in 1 .. m /\ l = f[l.attempt]
    OBVIOUS
  <2>1. l.attempt \in {k.attempt : k \in logged}
    OBVIOUS
  <2>2. l.attempt \in 1 .. m
    BY <2>1 DEF Tally
  <2>3. QED
    BY <1>2, <2>2 DEF Tally
<1>4. f \in Bijection(1 .. m, logged)
  <2> HIDE DEF m
  <2>1. f \in [1 .. m -> logged]
    BY <1>2
  <2> HIDE DEF f
  <2>2. QED
    BY <1>2, <1>3, <2>1 DEF Bijection, Injection, Surjection, IsInjective
<1>5. IsFiniteSet(1 .. m) /\ Cardinality(1 .. m) = IF 1 > m THEN 0 ELSE m
  <2> HIDE DEF m
  <2>1. 1 \in Int /\ m \in Int
    BY <1>1
  <2>2. QED
    BY <2>1, FS_Interval
<1>6. Cardinality(logged) = Cardinality(1 .. m)
  BY <1>4, <1>5, FS_Bijection DEF ExistsBijection
<1>7. QED
  BY <1>1, <1>5, <1>6

LEMMA RecordedAtFirst == HooksInit => NoneEarly /\ AllRecorded
<1> SUFFICES ASSUME HooksInit PROVE NoneEarly /\ AllRecorded
  OBVIOUS
<1>1. \A w \in Hooks, e \in Events : w \notin trigger[e].todo
  BY DEF HooksInit
<1>2. \A d \in Deliveries : Untouched(d) /\ ~Exists(HookOf(d))
  BY HookOfDelivery DEF HooksInit, Untouched, Unmade, Exists
<1>3. QED
  BY <1>1, <1>2 DEF NoneEarly, AllRecorded

(* What other steps leave alone stays as it was.                              *)
LEMMA RecordedStays ==
    ASSUME NEW d \in Deliveries, Recorded(d), Logged(d)' = Logged(d),
           posts'[d] = posts[d], delivery'[d] = delivery[d]
    PROVE  Recorded(d)'
  BY DEF Recorded

LEMMA AdministerRecorded ==
    ASSUME Typed, NoneEarly, AllRecorded, NEW w \in Hooks, Administer(w)
    PROVE  NoneEarly' /\ AllRecorded'
<1>1. UNCHANGED <<trigger, delivery, crashes, posts, died>>
  BY DEF Administer, CreateWebhook, CreateOnDashboard, UpdateWebhook, UpdateOnDashboard,
     RegenerateWebhookSecret, RegenerateOnDashboard, DeleteWebhook, DeleteOnDashboard
<1>2. \/ \E types \in SUBSET Types : CreateWebhook(w, types)
      \/ \E types : UpdateWebhook(w, types)
      \/ DeleteWebhook(w)
  BY DEF Administer, CreateOnDashboard, UpdateOnDashboard, RegenerateOnDashboard,
     DeleteOnDashboard, RegenerateWebhookSecret
<1>3. hooks \in [Hooks -> Hook]
  BY DEF Typed, HooksOK
<1>4. /\ \A v \in Hooks : Unused(v)' => Unused(v)
      /\ \A v \in Hooks : Exists(v)' => Exists(v) \/ Unused(v)
  <2>1. CASE \E types \in SUBSET Types : CreateWebhook(w, types)
    BY <1>3, <2>1 DEF Unused, Exists, CreateWebhook
  <2>2. CASE \E types : UpdateWebhook(w, types)
    BY <1>3, <2>2 DEF Unused, Exists, UpdateWebhook
  <2>3. CASE DeleteWebhook(w)
    BY <1>3, <2>3 DEF Unused, Exists, DeleteWebhook
  <2>4. QED
    BY <1>2, <2>1, <2>2, <2>3
<1>5. NoneEarly'
  BY <1>1, <1>4 DEF NoneEarly, Untouched, Unmade
<1>6. ASSUME NEW d \in Deliveries, d \notin died, Exists(HookOf(d))'
      PROVE  Recorded(d)'
  <2>1. HookOf(d) \in Hooks
    BY HookOfDelivery
  <2>2. Logged(d)' = Logged(d)
    <3>1. CASE logs' = logs
      BY <3>1 DEF Logged
    <3>2. CASE DeleteWebhook(w)
      <4>1. HookOf(d) # w
        BY <1>3, <1>6, <2>1, <3>2 DEF DeleteWebhook, Exists
      <4>2. QED
        BY <3>2, <4>1 DEF DeleteWebhook, Logged
    <3>3. QED
      BY <1>2, <3>1, <3>2 DEF CreateWebhook, UpdateWebhook
  <2>3. CASE Exists(HookOf(d))
    BY <1>1, <1>6, <2>2, <2>3, RecordedStays DEF AllRecorded
  <2>4. CASE Unused(HookOf(d))
    <3>1. Untouched(d)
      BY <2>1, <2>4 DEF NoneEarly
    <3>2. Logged(d) = {}
      BY <2>4 DEF Logged, Typed, LogsOK, Unused
    <3>3. Recorded(d)
      <4>1. Counted(delivery[d], posts[d]) = 0 /\ delivery[d].retries = 0 /\ posts[d] = 0
        <5>1. delivery[d].step \notin {"log", "unlogged"} /\ posts[d] = 0 /\ delivery[d].retries = 0
          BY <3>1 DEF Untouched, Unmade
        <5>2. Counted(delivery[d], posts[d]) = 0 - 0
          BY <5>1 DEF Counted
        <5>3. QED
          BY <5>1, <5>2
      <4>2. {l.attempt : l \in Logged(d)} = {}
        BY <3>2
      <4>3. 1 .. 0 = {}
        OBVIOUS
      <4>4. QED
        BY <3>2, <4>1, <4>2, <4>3 DEF Recorded, Tally
    <3>4. QED
      BY <1>1, <2>2, <3>3, RecordedStays
  <2>5. QED
    BY <1>4, <1>6, <2>1, <2>3, <2>4
<1>7. QED
  BY <1>1, <1>5, <1>6 DEF AllRecorded

LEMMA TriggerRecorded ==
    ASSUME Typed, NoneEarly, AllRecorded, NEW e \in Events, Triggering(e)
    PROVE  NoneEarly' /\ AllRecorded'
<1>1. UNCHANGED <<hooks, logs, delivery, posts, died>>
  BY DEF Triggering, TriggerWebhooks, ReadHooks, AllSent, TriggerDies
<1>2. ASSUME NEW w \in Hooks, Unused(w), NEW f \in Events
      PROVE  w \notin trigger'[f].todo
  <2>1. trigger \in [Events -> Trigger] /\ w \notin trigger[f].todo
    BY <1>2 DEF NoneEarly, Typed, TriggersOK
  <2>2. CASE TriggerWebhooks(e)
    BY <2>1, <2>2 DEF TriggerWebhooks
  <2>3. CASE AllSent(e)
    BY <2>1, <2>3 DEF AllSent
  <2>4. CASE TriggerDies(e)
    BY <2>1, <2>4 DEF TriggerDies
  <2>5. CASE ReadHooks(e)
    <3>1. ~Subscribed(e, w)
      BY <1>2 DEF Subscribed, Exists, Unused
    <3>2. QED
      BY <2>1, <2>5, <3>1 DEF ReadHooks
  <2>6. QED
    BY <2>2, <2>3, <2>4, <2>5 DEF Triggering
<1>3. NoneEarly'
  BY <1>1, <1>2 DEF NoneEarly, Unused, Untouched, Unmade
<1>4. AllRecorded'
  BY <1>1 DEF AllRecorded, Recorded, Logged, Exists
<1>5. QED
  BY <1>3, <1>4

LEMMA SendRecorded ==
    ASSUME Typed, NoneEarly, AllRecorded, NEW e \in Events, NEW w \in Hooks, SendDelivery(e, w)
    PROVE  NoneEarly' /\ AllRecorded'
<1> DEFINE d == <<e, w, trigger[e].run>>
<1>1. d \in Deliveries /\ Unmade(d) /\ HookOf(d) = w /\ ~Unused(w)
  BY SendTyped DEF HookOf, SendDelivery, NoneEarly
<1>2. /\ delivery' = [delivery EXCEPT ![d].step = "queued"]
      /\ UNCHANGED <<hooks, logs, posts, died>>
      /\ delivery \in [Deliveries -> Delivery]
  BY DEF SendDelivery, Typed, DeliveriesOK
<1>3. \A v \in Hooks, f \in Events : v \notin trigger[f].todo => v \notin trigger'[f].todo
  BY DEF SendDelivery, Typed, TriggersOK
<1> HIDE DEF d
<1>4. NoneEarly'
  BY <1>1, <1>2, <1>3 DEF NoneEarly, Unused, Untouched, Unmade
<1>5. ASSUME NEW c \in Deliveries, c \notin died, Exists(HookOf(c))
      PROVE  Recorded(c)'
  <2>1. Recorded(c) /\ Logged(c)' = Logged(c)
    BY <1>2, <1>5 DEF AllRecorded, Logged
  <2>2. CASE c # d
    BY <1>2, <2>1, <2>2, RecordedStays
  <2>3. CASE c = d
    <3>1. /\ delivery'[c].step = "queued" /\ delivery[c].step = "none"
          /\ delivery'[c].retries = delivery[c].retries
      BY <1>1, <1>2, <2>3 DEF Unmade, Delivery
    <3>2. QED
      BY <1>2, <2>1, <3>1 DEF Recorded, Tally, Counted
  <2>4. QED
    BY <2>2, <2>3
<1>6. QED
  BY <1>2, <1>4, <1>5 DEF AllRecorded, Exists

(* A post comes on top of what is logged, until its log is written; the last  *)
(* one is a success or has no retry left.                                    *)
LEMMA DeliveryRecorded ==
    ASSUME Typed, NoneEarly, AllRecorded, NEW d \in Deliveries,
           RunDelivery(d) \/ DeliveryFails(d) \/ DeliveryDies(d)
    PROVE  NoneEarly' /\ AllRecorded'
<1>1. /\ delivery \in [Deliveries -> Delivery] /\ posts \in [Deliveries -> Nat]
      /\ delivery[d].retries \in Nat
  BY WebhookAssumption DEF Typed, DeliveriesOK, PostsOK, Delivery
<1>2. ~Unmade(d) /\ UNCHANGED <<hooks, trigger>>
  BY DEF RunDelivery, DeliveryFails, DeliveryDies, Fetch, LogResult, ExecuteDelivery, Unmade
<1>3. \A c \in Deliveries : c # d => delivery'[c] = delivery[c] /\ posts'[c] = posts[c]
  BY <1>1 DEF RunDelivery, DeliveryFails, DeliveryDies, Fetch, LogResult, ExecuteDelivery, Retried
<1>4. \A c \in Deliveries : c # d => Logged(c)' = Logged(c)
  <2>1. CASE logs' = logs
    BY <2>1 DEF Logged
  <2>2. CASE LogResult(d) /\ Exists(HookOf(d))
    BY <2>2 DEF LogResult, Logged
  <2>3. QED
    BY <2>1, <2>2 DEF RunDelivery, DeliveryFails, DeliveryDies, Fetch, LogResult, ExecuteDelivery
<1>5. NoneEarly'
  <2>1. ASSUME NEW c \in Deliveries, Untouched(c) PROVE Untouched(c)'
    BY <1>2, <1>3, <2>1 DEF Untouched, Unmade
  <2>2. QED
    BY <1>2, <2>1 DEF NoneEarly, Unused
<1>6. ASSUME d \notin died', Exists(HookOf(d)), Recorded(d) PROVE Recorded(d)'
  <2>1. CASE Fetch(d)
    <3>1. /\ delivery[d].step = "queued" /\ delivery'[d].step = "post"
          /\ delivery'[d].retries = delivery[d].retries /\ UNCHANGED <<posts, logs>>
      BY <1>1, <1>6, <2>1 DEF Fetch
    <3>2. QED
      BY <1>6, <3>1 DEF Recorded, Tally, Counted, Logged
  <2>2. CASE \E success \in BOOLEAN : ExecuteDelivery(d, success)
    <3>1. /\ delivery[d].step = "post" /\ delivery'[d].step = "log"
          /\ delivery'[d].retries = delivery[d].retries
          /\ posts'[d] = posts[d] + 1 /\ UNCHANGED logs
      BY <1>1, <2>2 DEF ExecuteDelivery
    <3>2. QED
      BY <1>1, <1>6, <3>1 DEF Recorded, Tally, Counted, Logged
  <2>3. CASE LogResult(d)
    <3> DEFINE l == [of |-> d, attempt |-> Attempt(d), success |-> delivery[d].success]
    <3>1. /\ delivery[d].step = "log" /\ UNCHANGED posts
          /\ Logged(d)' = Logged(d) \cup {l}
      BY <1>6, <2>3 DEF LogResult, Logged
    <3>2. /\ Counted(delivery[d], posts[d]) = delivery[d].retries
          /\ posts[d] = delivery[d].retries + 1
          /\ \A k \in Logged(d) : ~k.success
          /\ {k.attempt : k \in Logged(d)} = 1 .. delivery[d].retries
          /\ \A k, m \in Logged(d) : k.attempt = m.attempt => k = m
      BY <1>1, <1>6, <3>1 DEF Recorded, Tally, Counted
    <3>3. l.attempt = delivery[d].retries + 1 /\ l.success = delivery[d].success
      BY DEF Attempt
    <3> HIDE DEF l
    <3>4. /\ {k.attempt : k \in Logged(d) \cup {l}} = 1 .. delivery[d].retries + 1
          /\ \A k, m \in Logged(d) \cup {l} : k.attempt = m.attempt => k = m
      <4>1. {k.attempt : k \in Logged(d) \cup {l}} = {k.attempt : k \in Logged(d)} \cup {l.attempt}
        OBVIOUS
      <4>2. \A k \in Logged(d) : k.attempt # l.attempt
        <5>1. \A k \in Logged(d) : k.attempt \in 1 .. delivery[d].retries
          BY <3>2
        <5>2. QED
          BY <1>1, <3>3, <5>1
      <4>3. QED
        BY <1>1, <3>2, <3>3, <4>1, <4>2
    <3>5. CASE ShouldRetry(d)
      <4>1. /\ delivery'[d].step = "queued"
            /\ delivery'[d].retries = delivery[d].retries + 1
        BY <1>1, <1>6, <2>3, <3>5 DEF LogResult, Retried
      <4>2. ~l.success
        BY <3>3, <3>5 DEF ShouldRetry
      <4>3. QED
        BY <1>1, <3>1, <3>2, <3>4, <4>1, <4>2 DEF Recorded, Tally, Counted
    <3>6. CASE ~ShouldRetry(d)
      <4>1. delivery'[d].step = "done"
        BY <1>1, <1>6, <2>3, <3>6 DEF LogResult
      <4>2. QED
        BY <1>1, <3>1, <3>2, <3>3, <3>4, <4>1 DEF Recorded, Tally, Counted
    <3>7. QED
      BY <3>5, <3>6
  <2>4. ~DeliveryDies(d)
    BY <1>6 DEF DeliveryDies
  <2>5. CASE DeliveryFails(d)
    <3>1. /\ delivery[d].step \in {"queued", "post", "log"} /\ UNCHANGED <<posts, logs>>
          /\ delivery'[d].step = IF delivery[d].step = "log" THEN "unlogged" ELSE "failed"
          /\ delivery'[d].retries = delivery[d].retries
      BY <1>1, <2>5 DEF DeliveryFails
    <3>2. Counted(delivery'[d], posts'[d]) = Counted(delivery[d], posts[d])
      BY <3>1 DEF Counted
    <3>3. QED
      BY <1>6, <3>1, <3>2 DEF Recorded, Tally, Logged
  <2>6. QED
    BY <2>1, <2>2, <2>3, <2>4, <2>5 DEF RunDelivery
<1>7. died \subseteq died'
  BY DEF RunDelivery, DeliveryFails, DeliveryDies, Fetch, LogResult, ExecuteDelivery
<1>8. ASSUME NEW c \in Deliveries, c \notin died', Exists(HookOf(c))
      PROVE  Recorded(c)'
  <2>1. Recorded(c)
    BY <1>7, <1>8 DEF AllRecorded
  <2>2. CASE c = d
    BY <1>6, <1>8, <2>1, <2>2
  <2>3. CASE c # d
    BY <1>3, <1>4, <2>1, <2>3, RecordedStays
  <2>4. QED
    BY <2>2, <2>3
<1>9. QED
  BY <1>2, <1>5, <1>8 DEF AllRecorded, Exists

Kept == Typed /\ NoneEarly /\ AllRecorded

LEMMA KeptAtFirst == HooksInit => Kept
  BY TypedAtFirst, RecordedAtFirst DEF Kept

LEMMA KeptStays == Kept /\ [HooksNext]_hookVars => Kept'
<1> SUFFICES ASSUME Kept, [HooksNext]_hookVars PROVE NoneEarly' /\ AllRecorded'
  BY TypedStays DEF Kept
<1>1. CASE UNCHANGED hookVars
  BY <1>1 DEF hookVars, Kept, NoneEarly, Unused, Untouched, Unmade, AllRecorded, Recorded, Logged,
     Exists
<1>2. CASE HooksNext
  BY <1>2, AdministerRecorded, TriggerRecorded, SendRecorded, DeliveryRecorded
     DEF Kept, HooksNext, Triggering, RunTrigger
<1>3. QED
  BY <1>1, <1>2

(* Every attempt at a hook is in its log once, under its number, up to the    *)
(* last one, and a success is the last one: unless a worker dies over it,     *)
(* deliver_webhook logs what it posts before its message is put back.         *)
THEOREM LogsTellAll == HooksSpec => []LogIsComplete
<1>1. Kept => LogIsComplete
  <2> SUFFICES ASSUME Kept, NEW d \in Deliveries, Exists(HookOf(d)), d \notin died
               PROVE  LET sent == Counted(delivery[d], posts[d])
                      IN  /\ {l.attempt : l \in Logged(d)} = 1 .. sent
                          /\ \A l \in Logged(d) : l.success => l.attempt = posts[d]
                          /\ Cardinality(Logged(d)) = sent
    BY DEF LogIsComplete, Counted, Logged
  <2>1. Tally(delivery[d], posts[d], Logged(d))
    BY DEF Kept, AllRecorded, Recorded
  <2>2. delivery[d] \in Delivery /\ posts[d] \in Nat
    BY DEF Kept, Typed, DeliveriesOK, PostsOK
  <2>3. QED
    BY <2>1, <2>2, TallyCounts DEF Tally
<1>2. QED
  BY <1>1, KeptAtFirst, KeptStays, PTL DEF HooksSpec

-----------------------------------------------------------------------------
(* The address.                                                              *)

Aimed(d) ==
    delivery[d].step = "post" /\ d \notin changed /\ Exists(HookOf(d))
        => delivery[d].version = hooks[HookOf(d)].version
AllAimed == \A d \in Deliveries : Aimed(d)

LEMMA AimedAtFirst == HooksInit => AllAimed
  BY DEF HooksInit, AllAimed, Aimed

LEMMA AimedStays ==
    ASSUME Kept, AllAimed, [HooksNext]_hookVars
    PROVE  AllAimed'
<1>1. delivery \in [Deliveries -> Delivery] /\ hooks \in [Hooks -> Hook]
  BY DEF Kept, Typed, DeliveriesOK, HooksOK
<1>2. CASE UNCHANGED hookVars
  BY <1>2 DEF hookVars, AllAimed, Aimed, Exists
<1>3. ASSUME NEW w \in Hooks, Administer(w) PROVE AllAimed'
  <2> SUFFICES ASSUME NEW d \in Deliveries PROVE Aimed(d)'
    BY DEF AllAimed
  <2>1. Aimed(d) /\ HookOf(d) \in Hooks
    BY HookOfDelivery DEF AllAimed
  <2>2. CASE \E types \in SUBSET Types : CreateWebhook(w, types)
    <3>1. hooks[w].life = "unused" /\ UNCHANGED <<delivery, changed>>
      BY <2>2 DEF CreateWebhook
    <3>2. CASE HookOf(d) = w
      BY <2>1, <3>1, <3>2 DEF Kept, NoneEarly, Unused, Untouched, Unmade, Aimed
    <3>3. CASE HookOf(d) # w
      BY <1>1, <2>1, <2>2, <3>3 DEF CreateWebhook, Aimed, Exists
    <3>4. QED
      BY <3>2, <3>3
  <2>3. CASE \E types : UpdateWebhook(w, types)
    <3>1. Exists(w) /\ UNCHANGED delivery /\ changed' = changed \cup Aiming(w)
      BY <2>3 DEF UpdateWebhook
    <3>2. CASE HookOf(d) = w
      BY <3>1, <3>2 DEF Aiming, Aimed
    <3>3. CASE HookOf(d) # w
      BY <1>1, <2>1, <2>3, <3>1, <3>3 DEF UpdateWebhook, Aimed, Exists
    <3>4. QED
      BY <3>2, <3>3
  <2>4. CASE DeleteWebhook(w)
    BY <1>1, <2>1, <2>4 DEF DeleteWebhook, Aimed, Exists
  <2>5. QED
    BY <1>3, <2>2, <2>3, <2>4 DEF Administer, CreateOnDashboard, UpdateOnDashboard,
       RegenerateOnDashboard, DeleteOnDashboard, RegenerateWebhookSecret
<1>4. ASSUME NEW e \in Events, Triggering(e) PROVE AllAimed'
  BY <1>4 DEF Triggering, TriggerWebhooks, ReadHooks, AllSent, TriggerDies, AllAimed, Aimed, Exists
<1>5. ASSUME NEW e \in Events, NEW w \in Hooks, SendDelivery(e, w) PROVE AllAimed'
  <2> DEFINE d == <<e, w, trigger[e].run>>
  <2>1. d \in Deliveries /\ delivery' = [delivery EXCEPT ![d].step = "queued"]
        /\ UNCHANGED <<hooks, changed>>
    BY <1>5, SendTyped DEF Kept, SendDelivery
  <2> HIDE DEF d
  <2>2. QED
    BY <1>1, <2>1 DEF AllAimed, Aimed, Exists
<1>6. ASSUME NEW d \in Deliveries, RunDelivery(d) \/ DeliveryFails(d) \/ DeliveryDies(d)
      PROVE  AllAimed'
  <2>1. /\ UNCHANGED hooks
        /\ \A c \in Deliveries : c # d => delivery'[c] = delivery[c]
                                          /\ (c \in changed' <=> c \in changed)
    BY <1>1, <1>6 DEF RunDelivery, DeliveryFails, DeliveryDies, Fetch, LogResult, ExecuteDelivery,
       Retried
  <2>2. Aimed(d)'
    <3>1. CASE Fetch(d)
      BY <1>1, <3>1 DEF Fetch, Aimed
    <3>2. CASE ~Fetch(d)
      <4>1. delivery'[d].step # "post"
        <5>1. CASE LogResult(d)
          BY <1>1, <5>1 DEF LogResult, Retried
        <5>2. CASE DeliveryDies(d)
          BY <1>1, <5>2 DEF DeliveryDies
        <5>3. ASSUME NEW success \in BOOLEAN, ExecuteDelivery(d, success)
              PROVE  delivery'[d].step # "post"
          BY <1>1, <5>3 DEF ExecuteDelivery
        <5>4. CASE DeliveryFails(d)
          BY <1>1, <5>4 DEF DeliveryFails
        <5>5. QED
          BY <1>6, <3>2, <5>1, <5>2, <5>3, <5>4 DEF RunDelivery
      <4>2. QED
        BY <4>1 DEF Aimed
    <3>3. QED
      BY <3>1, <3>2
  <2>3. QED
    BY <2>1, <2>2 DEF AllAimed, Aimed, Exists
<1>7. QED
  BY <1>2, <1>3, <1>4, <1>5, <1>6 DEF HooksNext, Triggering, RunTrigger

(* A request is sent to the url, and signed with the secret, that the hook    *)
(* has at that moment, unless they were changed after deliver_webhook read    *)
(* them: a retry reads them again.                                            *)
THEOREM PostsGoToTheHook == HooksSpec => PostsAreAimed
<1> DEFINE Right == \A d \in Deliveries :
                        posts'[d] # posts[d] /\ d \notin changed /\ Exists(HookOf(d))
                            => delivery[d].version = hooks[HookOf(d)].version
<1>1. ASSUME Kept, AllAimed, [HooksNext]_hookVars PROVE [Right]_hookVars
  <2> SUFFICES ASSUME HooksNext, NEW d \in Deliveries, posts'[d] # posts[d], d \notin changed,
                      Exists(HookOf(d))
               PROVE  delivery[d].version = hooks[HookOf(d)].version
    BY <1>1
  <2>1. posts \in [Deliveries -> Nat]
    BY <1>1 DEF Kept, Typed, PostsOK
  <2>2. ~UNCHANGED posts
    OBVIOUS
  <2>3. PICK c \in Deliveries : \E success \in BOOLEAN : ExecuteDelivery(c, success)
    <3>1. ASSUME NEW w \in Hooks, Administer(w) PROVE UNCHANGED posts
      BY <3>1 DEF Administer, CreateWebhook, CreateOnDashboard, UpdateWebhook, UpdateOnDashboard,
         RegenerateWebhookSecret, RegenerateOnDashboard, DeleteWebhook, DeleteOnDashboard
    <3>2. ASSUME NEW e \in Events, TriggerWebhooks(e) \/ RunTrigger(e) \/ TriggerDies(e)
          PROVE  UNCHANGED posts
      BY <3>2 DEF TriggerWebhooks, RunTrigger, TriggerDies, ReadHooks, AllSent, SendDelivery
    <3>3. ASSUME NEW c \in Deliveries, Fetch(c) \/ LogResult(c) \/ DeliveryFails(c) \/ DeliveryDies(c)
          PROVE  UNCHANGED posts
      BY <3>3 DEF Fetch, LogResult, DeliveryFails, DeliveryDies
    <3>4. QED
      BY <2>2, <3>1, <3>2, <3>3 DEF HooksNext, RunDelivery
  <2>4. c = d /\ delivery[d].step = "post"
    BY <2>1, <2>3 DEF ExecuteDelivery
  <2>5. QED
    BY <1>1, <2>4 DEF AllAimed, Aimed
<1>2. Kept /\ AllAimed /\ [HooksNext]_hookVars => Kept' /\ AllAimed'
  BY KeptStays, AimedStays
<1>3. HooksInit => Kept /\ AllAimed
  BY KeptAtFirst, AimedAtFirst
<1> HIDE DEF Right
<1>4. HooksSpec => [][Right]_hookVars
  BY <1>1, <1>2, <1>3, PTL DEF HooksSpec
<1>5. QED
  BY <1>4 DEF Right, PostsAreAimed

-----------------------------------------------------------------------------
(* The catalogue.  Each table of the migrations has keys of a kind: a        *)
(* deletion cascades from a level of tables to higher ones only, which is    *)
(* why it ends; what is set to NULL may be NULL; no column is in two keys.   *)
Level(table) ==
    CASE table \in {"roles_permissions", "webhook_logs", "clients",
                    "tenants_oauth_providers", "users", "brands"} -> 1
      [] table \in {"oauth_sessions", "registration_sessions"} -> 3
      [] table \in {"audit_logs", "email_domains", "email_templates", "oauth_providers",
                    "permissions", "roles", "themes", "user_fields", "webhooks", "tenants",
                    "admin_api_key", "admin_session_tokens"} -> 0
      [] OTHER -> 2
KeysFit(table, keys) ==
    \A key \in keys :
        /\ key.column # "id"
        /\ key.to # "tenants_oauth_providers"
        /\ key.onDelete = "CASCADE" => Level(key.to) < Level(table)
        /\ key.onDelete # "CASCADE" => key.onDelete = "SET_NULL" /\ key.nullable
        /\ \A other \in keys : other.column = key.column => other = key

LEMMA TablesOfMigrations ==
    /\ DOMAIN AuditTables = {"audit_logs"}
    /\ DOMAIN MailTables = {"email_domains", "email_templates"}
    /\ DOMAIN ProviderTables = {"oauth_providers"}
    /\ DOMAIN RightTables = {"permissions", "roles"}
    /\ DOMAIN ThemeTables = {"themes"}
    /\ DOMAIN FieldTables = {"user_fields"}
    /\ DOMAIN HookTables = {"webhooks"}
    /\ DOMAIN TenantTables = {"roles_permissions", "tenants"}
    /\ DOMAIN HookLogTables = {"webhook_logs"}
    /\ DOMAIN ClientTables = {"clients", "tenants_oauth_providers"}
    /\ DOMAIN UserTables = {"users"}
    /\ DOMAIN CodeTables = {"authorization_codes", "email_verifications"}
    /\ DOMAIN PendingUser(ConsentTables) = {"grants", "login_sessions"}
    /\ DOMAIN AccountOnce(OAuthTables) = {"oauth_accounts"}
    /\ DOMAIN TokenTables = {"refresh_tokens", "session_tokens"}
    /\ DOMAIN ValueTables = {"user_field_values"}
    /\ DOMAIN HeldTables = {"user_permissions", "user_roles"}
    /\ DOMAIN SessionTables = {"oauth_sessions", "registration_sessions"}
    /\ DOMAIN AdminTables = {"admin_api_key", "admin_session_tokens"}
    /\ DOMAIN BrandTables = {"brands"}
    /\ DOMAIN FactorTables = {"user_totp_secrets", "user_mfa_recovery_codes"}
    /\ DOMAIN LockoutTables = {"user_lockouts"}
    /\ DOMAIN PasskeyTables = {"user_webauthn_credentials"}
<1>1. DOMAIN AuditTables = {"audit_logs"}
  BY DEF AuditTables
<1>2. DOMAIN MailTables = {"email_domains", "email_templates"}
  BY DEF MailTables
<1>3. DOMAIN ProviderTables = {"oauth_providers"}
  BY DEF ProviderTables
<1>4. DOMAIN RightTables = {"permissions", "roles"}
  BY DEF RightTables
<1>5. DOMAIN ThemeTables = {"themes"}
  BY DEF ThemeTables
<1>6. DOMAIN FieldTables = {"user_fields"}
  BY DEF FieldTables
<1>7. DOMAIN HookTables = {"webhooks"}
  BY DEF HookTables
<1>8. DOMAIN TenantTables = {"roles_permissions", "tenants"}
  BY DEF TenantTables
<1>9. DOMAIN HookLogTables = {"webhook_logs"}
  BY DEF HookLogTables
<1>10. DOMAIN ClientTables = {"clients", "tenants_oauth_providers"}
  BY DEF ClientTables
<1>11. DOMAIN UserTables = {"users"}
  BY DEF UserTables
<1>12. DOMAIN CodeTables = {"authorization_codes", "email_verifications"}
  BY DEF CodeTables
<1>13. DOMAIN PendingUser(ConsentTables) = {"grants", "login_sessions"}
  BY DEF PendingUser, ConsentTables
<1>14. DOMAIN AccountOnce(OAuthTables) = {"oauth_accounts"}
  BY DEF AccountOnce, OAuthTables
<1>15. DOMAIN TokenTables = {"refresh_tokens", "session_tokens"}
  BY DEF TokenTables
<1>16. DOMAIN ValueTables = {"user_field_values"}
  BY DEF ValueTables
<1>17. DOMAIN HeldTables = {"user_permissions", "user_roles"}
  BY DEF HeldTables
<1>18. DOMAIN SessionTables = {"oauth_sessions", "registration_sessions"}
  BY DEF SessionTables
<1>19. DOMAIN AdminTables = {"admin_api_key", "admin_session_tokens"}
  BY DEF AdminTables
<1>20. DOMAIN BrandTables = {"brands"}
  BY DEF BrandTables
<1>21. DOMAIN FactorTables = {"user_totp_secrets", "user_mfa_recovery_codes"}
  BY DEF FactorTables
<1>22. DOMAIN LockoutTables = {"user_lockouts"}
  BY DEF LockoutTables
<1>23. DOMAIN PasskeyTables = {"user_webauthn_credentials"}
  BY DEF PasskeyTables
<1>24. QED
  BY <1>1, <1>2, <1>3, <1>4, <1>5, <1>6, <1>7, <1>8, <1>9, <1>10, <1>11, <1>12, <1>13, <1>14, <1>15, <1>16, <1>17, <1>18, <1>19, <1>20, <1>21, <1>22, <1>23

LEMMA TableOf ==
    ASSUME NEW table \in DOMAIN Catalogue
    PROVE  \E tables \in Migrations : table \in DOMAIN tables /\ Catalogue[table] = tables[table]
<1>1. \E tables \in Migrations : table \in DOMAIN tables
  BY DEF Catalogue
<1>2. QED
  BY <1>1 DEF Catalogue

LEMMA KeyParts ==
    ASSUME NEW column, NEW to
    PROVE  /\ Owner(column, to).column = column
           /\ Owner(column, to).to = to
           /\ Owner(column, to).onDelete = "CASCADE"
           /\ Parent(column, to).column = column
           /\ Parent(column, to).to = to
           /\ Parent(column, to).onDelete = "CASCADE"
           /\ Choice(column, to).column = column
           /\ Choice(column, to).to = to
           /\ Choice(column, to).onDelete = "SET_NULL"
           /\ Choice(column, to).nullable
  BY DEF Owner, Parent, Choice, Key

LEMMA Levels ==
    /\ Level("email_domains") = 0
    /\ Level("oauth_providers") = 0
    /\ Level("permissions") = 0
    /\ Level("roles") = 0
    /\ Level("themes") = 0
    /\ Level("user_fields") = 0
    /\ Level("webhooks") = 0
    /\ Level("tenants") = 0
    /\ Level("roles_permissions") = 1
    /\ Level("webhook_logs") = 1
    /\ Level("clients") = 1
    /\ Level("tenants_oauth_providers") = 1
    /\ Level("users") = 1
    /\ Level("brands") = 1
    /\ Level("authorization_codes") = 2
    /\ Level("email_verifications") = 2
    /\ Level("grants") = 2
    /\ Level("login_sessions") = 2
    /\ Level("oauth_accounts") = 2
    /\ Level("refresh_tokens") = 2
    /\ Level("session_tokens") = 2
    /\ Level("user_field_values") = 2
    /\ Level("user_permissions") = 2
    /\ Level("user_roles") = 2
    /\ Level("user_totp_secrets") = 2
    /\ Level("user_mfa_recovery_codes") = 2
    /\ Level("user_lockouts") = 2
    /\ Level("user_webauthn_credentials") = 2
    /\ Level("oauth_sessions") = 3
    /\ Level("registration_sessions") = 3
  BY DEF Level

LEMMA KeysOfMigrations ==
    ASSUME NEW tables \in Migrations, NEW table \in DOMAIN tables
    PROVE  KeysFit(table, tables[table].keys)
<1>1. CASE tables = AuditTables
  BY <1>1, TablesOfMigrations, KeyParts, Levels DEF KeysFit, AuditTables, Table, Plain
<1>2. CASE tables = MailTables
  <2>1. CASE table = "email_domains"
    BY <1>2, <2>1, KeyParts, Levels DEF KeysFit, MailTables, Table, Plain
  <2>2. CASE table = "email_templates"
    BY <1>2, <2>2, KeyParts, Levels DEF KeysFit, MailTables, Table, Plain
  <2>3. QED
    BY <1>2, <2>1, <2>2, TablesOfMigrations
<1>3. CASE tables = ProviderTables
  BY <1>3, TablesOfMigrations, KeyParts, Levels DEF KeysFit, ProviderTables, Table, Plain
<1>4. CASE tables = RightTables
  <2>1. CASE table = "permissions"
    BY <1>4, <2>1, KeyParts, Levels DEF KeysFit, RightTables, Table, Plain
  <2>2. CASE table = "roles"
    BY <1>4, <2>2, KeyParts, Levels DEF KeysFit, RightTables, Table, Plain
  <2>3. QED
    BY <1>4, <2>1, <2>2, TablesOfMigrations
<1>5. CASE tables = ThemeTables
  BY <1>5, TablesOfMigrations, KeyParts, Levels DEF KeysFit, ThemeTables, Table, Plain
<1>6. CASE tables = FieldTables
  BY <1>6, TablesOfMigrations, KeyParts, Levels DEF KeysFit, FieldTables, Table, Plain
<1>7. CASE tables = HookTables
  BY <1>7, TablesOfMigrations, KeyParts, Levels DEF KeysFit, HookTables, Table, Plain
<1>8. CASE tables = TenantTables
  <2>1. CASE table = "roles_permissions"
    BY <1>8, <2>1, KeyParts, Levels DEF KeysFit, TenantTables, Table, Plain
  <2>2. CASE table = "tenants"
    BY <1>8, <2>2, KeyParts, Levels DEF KeysFit, TenantTables, Table, Plain
  <2>3. QED
    BY <1>8, <2>1, <2>2, TablesOfMigrations
<1>9. CASE tables = HookLogTables
  BY <1>9, TablesOfMigrations, KeyParts, Levels DEF KeysFit, HookLogTables, Table, Plain
<1>10. CASE tables = ClientTables
  <2>1. CASE table = "clients"
    BY <1>10, <2>1, KeyParts, Levels DEF KeysFit, ClientTables, Table, Plain
  <2>2. CASE table = "tenants_oauth_providers"
    BY <1>10, <2>2, KeyParts, Levels DEF KeysFit, ClientTables, Table, Plain
  <2>3. QED
    BY <1>10, <2>1, <2>2, TablesOfMigrations
<1>11. CASE tables = UserTables
  BY <1>11, TablesOfMigrations, KeyParts, Levels DEF KeysFit, UserTables, Table, Plain
<1>12. CASE tables = CodeTables
  <2>1. CASE table = "authorization_codes"
    BY <1>12, <2>1, KeyParts, Levels DEF KeysFit, CodeTables, Table, Plain
  <2>2. CASE table = "email_verifications"
    BY <1>12, <2>2, KeyParts, Levels DEF KeysFit, CodeTables, Table, Plain
  <2>3. QED
    BY <1>12, <2>1, <2>2, TablesOfMigrations
<1>13. CASE tables = PendingUser(ConsentTables)
  <2>1. CASE table = "grants"
    BY <1>13, <2>1, KeyParts, Levels DEF KeysFit, PendingUser, ConsentTables, Table, Plain
  <2>2. CASE table = "login_sessions"
    BY <1>13, <2>2, KeyParts, Levels DEF KeysFit, PendingUser, ConsentTables, Table, Plain
  <2>3. QED
    BY <1>13, <2>1, <2>2, TablesOfMigrations
<1>14. CASE tables = AccountOnce(OAuthTables)
  BY <1>14, TablesOfMigrations, KeyParts, Levels DEF KeysFit, AccountOnce, OAuthTables, Table, Plain
<1>15. CASE tables = TokenTables
  <2>1. CASE table = "refresh_tokens"
    BY <1>15, <2>1, KeyParts, Levels DEF KeysFit, TokenTables, Table, Plain
  <2>2. CASE table = "session_tokens"
    BY <1>15, <2>2, KeyParts, Levels DEF KeysFit, TokenTables, Table, Plain
  <2>3. QED
    BY <1>15, <2>1, <2>2, TablesOfMigrations
<1>16. CASE tables = ValueTables
  BY <1>16, TablesOfMigrations, KeyParts, Levels DEF KeysFit, ValueTables, Table, Plain
<1>17. CASE tables = HeldTables
  <2>1. CASE table = "user_permissions"
    BY <1>17, <2>1, KeyParts, Levels DEF KeysFit, HeldTables, Table, Plain
  <2>2. CASE table = "user_roles"
    BY <1>17, <2>2, KeyParts, Levels DEF KeysFit, HeldTables, Table, Plain
  <2>3. QED
    BY <1>17, <2>1, <2>2, TablesOfMigrations
<1>18. CASE tables = SessionTables
  <2>1. CASE table = "oauth_sessions"
    BY <1>18, <2>1, KeyParts, Levels DEF KeysFit, SessionTables, Table, Plain
  <2>2. CASE table = "registration_sessions"
    BY <1>18, <2>2, KeyParts, Levels DEF KeysFit, SessionTables, Table, Plain
  <2>3. QED
    BY <1>18, <2>1, <2>2, TablesOfMigrations
<1>19. CASE tables = AdminTables
  <2>1. CASE table = "admin_api_key"
    BY <1>19, <2>1, KeyParts, Levels DEF KeysFit, AdminTables, Table, Plain
  <2>2. CASE table = "admin_session_tokens"
    BY <1>19, <2>2, KeyParts, Levels DEF KeysFit, AdminTables, Table, Plain
  <2>3. QED
    BY <1>19, <2>1, <2>2, TablesOfMigrations
<1>20. CASE tables = BrandTables
  BY <1>20, TablesOfMigrations, KeyParts, Levels DEF KeysFit, BrandTables, Table, Plain
<1>21. CASE tables = FactorTables
  <2>1. CASE table = "user_totp_secrets"
    BY <1>21, <2>1, KeyParts, Levels DEF KeysFit, FactorTables, Table, Plain
  <2>2. CASE table = "user_mfa_recovery_codes"
    BY <1>21, <2>2, KeyParts, Levels DEF KeysFit, FactorTables, Table, Plain
  <2>3. QED
    BY <1>21, <2>1, <2>2, TablesOfMigrations
<1>22. CASE tables = LockoutTables
  BY <1>22, TablesOfMigrations, KeyParts, Levels DEF KeysFit, LockoutTables, Table, Plain
<1>23. CASE tables = PasskeyTables
  BY <1>23, TablesOfMigrations, KeyParts, Levels DEF KeysFit, PasskeyTables, Table, Plain
<1>24. QED
  BY <1>1, <1>2, <1>3, <1>4, <1>5, <1>6, <1>7, <1>8, <1>9, <1>10, <1>11, <1>12, <1>13, <1>14, <1>15, <1>16, <1>17, <1>18, <1>19, <1>20, <1>21, <1>22, <1>23 DEF Migrations

\* Every table of the migrations is like that, whichever tables a model keeps.
THEOREM CatalogueFits ==
    ASSUME NEW table \in DOMAIN Catalogue
    PROVE  KeysFit(table, Catalogue[table].keys)
<1>1. PICK tables \in Migrations : table \in DOMAIN tables /\ Catalogue[table] = tables[table]
  BY TableOf
<1>2. KeysFit(table, tables[table].keys)
  BY <1>1, KeysOfMigrations
<1>3. QED
  BY <1>1, <1>2

LEMMA RouteTablesAre ==
    /\ Catalogue["tenants"] = TenantTables["tenants"]
    /\ Catalogue["clients"] = ClientTables["clients"]
    /\ Catalogue["themes"] = ThemeTables["themes"]
    /\ Catalogue["oauth_providers"] = ProviderTables["oauth_providers"]
    /\ Catalogue["tenants_oauth_providers"] = ClientTables["tenants_oauth_providers"]
    /\ Catalogue["email_domains"] = MailTables["email_domains"]
    /\ Catalogue["email_templates"] = MailTables["email_templates"]
    /\ Catalogue["user_fields"] = FieldTables["user_fields"]
    /\ Catalogue["users"] = UserTables["users"]
    /\ Catalogue["permissions"] = RightTables["permissions"]
    /\ Catalogue["roles"] = RightTables["roles"]
    /\ Catalogue["roles_permissions"] = TenantTables["roles_permissions"]
    /\ Catalogue["user_roles"] = HeldTables["user_roles"]
    /\ Catalogue["user_permissions"] = HeldTables["user_permissions"]
    /\ Catalogue["admin_api_key"] = AdminTables["admin_api_key"]
<1>1. Catalogue["tenants"] = TenantTables["tenants"]
  <2>1. TenantTables \in Migrations /\ "tenants" \in DOMAIN TenantTables
    BY TablesOfMigrations DEF Migrations
  <2>2. \A tables \in Migrations : "tenants" \in DOMAIN tables => tables = TenantTables
    BY TablesOfMigrations DEF Migrations
  <2>3. QED
    BY <2>1, <2>2 DEF Catalogue
<1>2. Catalogue["clients"] = ClientTables["clients"]
  <2>1. ClientTables \in Migrations /\ "clients" \in DOMAIN ClientTables
    BY TablesOfMigrations DEF Migrations
  <2>2. \A tables \in Migrations : "clients" \in DOMAIN tables => tables = ClientTables
    BY TablesOfMigrations DEF Migrations
  <2>3. QED
    BY <2>1, <2>2 DEF Catalogue
<1>3. Catalogue["themes"] = ThemeTables["themes"]
  <2>1. ThemeTables \in Migrations /\ "themes" \in DOMAIN ThemeTables
    BY TablesOfMigrations DEF Migrations
  <2>2. \A tables \in Migrations : "themes" \in DOMAIN tables => tables = ThemeTables
    BY TablesOfMigrations DEF Migrations
  <2>3. QED
    BY <2>1, <2>2 DEF Catalogue
<1>4. Catalogue["oauth_providers"] = ProviderTables["oauth_providers"]
  <2>1. ProviderTables \in Migrations /\ "oauth_providers" \in DOMAIN ProviderTables
    BY TablesOfMigrations DEF Migrations
  <2>2. \A tables \in Migrations : "oauth_providers" \in DOMAIN tables => tables = ProviderTables
    BY TablesOfMigrations DEF Migrations
  <2>3. QED
    BY <2>1, <2>2 DEF Catalogue
<1>5. Catalogue["tenants_oauth_providers"] = ClientTables["tenants_oauth_providers"]
  <2>1. ClientTables \in Migrations /\ "tenants_oauth_providers" \in DOMAIN ClientTables
    BY TablesOfMigrations DEF Migrations
  <2>2. \A tables \in Migrations : "tenants_oauth_providers" \in DOMAIN tables => tables = ClientTables
    BY TablesOfMigrations DEF Migrations
  <2>3. QED
    BY <2>1, <2>2 DEF Catalogue
<1>6. Catalogue["email_domains"] = MailTables["email_domains"]
  <2>1. MailTables \in Migrations /\ "email_domains" \in DOMAIN MailTables
    BY TablesOfMigrations DEF Migrations
  <2>2. \A tables \in Migrations : "email_domains" \in DOMAIN tables => tables = MailTables
    BY TablesOfMigrations DEF Migrations
  <2>3. QED
    BY <2>1, <2>2 DEF Catalogue
<1>7. Catalogue["email_templates"] = MailTables["email_templates"]
  <2>1. MailTables \in Migrations /\ "email_templates" \in DOMAIN MailTables
    BY TablesOfMigrations DEF Migrations
  <2>2. \A tables \in Migrations : "email_templates" \in DOMAIN tables => tables = MailTables
    BY TablesOfMigrations DEF Migrations
  <2>3. QED
    BY <2>1, <2>2 DEF Catalogue
<1>8. Catalogue["user_fields"] = FieldTables["user_fields"]
  <2>1. FieldTables \in Migrations /\ "user_fields" \in DOMAIN FieldTables
    BY TablesOfMigrations DEF Migrations
  <2>2. \A tables \in Migrations : "user_fields" \in DOMAIN tables => tables = FieldTables
    BY TablesOfMigrations DEF Migrations
  <2>3. QED
    BY <2>1, <2>2 DEF Catalogue
<1>9. Catalogue["users"] = UserTables["users"]
  <2>1. UserTables \in Migrations /\ "users" \in DOMAIN UserTables
    BY TablesOfMigrations DEF Migrations
  <2>2. \A tables \in Migrations : "users" \in DOMAIN tables => tables = UserTables
    BY TablesOfMigrations DEF Migrations
  <2>3. QED
    BY <2>1, <2>2 DEF Catalogue
<1>10. Catalogue["permissions"] = RightTables["permissions"]
  <2>1. RightTables \in Migrations /\ "permissions" \in DOMAIN RightTables
    BY TablesOfMigrations DEF Migrations
  <2>2. \A tables \in Migrations : "permissions" \in DOMAIN tables => tables = RightTables
    BY TablesOfMigrations DEF Migrations
  <2>3. QED
    BY <2>1, <2>2 DEF Catalogue
<1>11. Catalogue["roles"] = RightTables["roles"]
  <2>1. RightTables \in Migrations /\ "roles" \in DOMAIN RightTables
    BY TablesOfMigrations DEF Migrations
  <2>2. \A tables \in Migrations : "roles" \in DOMAIN tables => tables = RightTables
    BY TablesOfMigrations DEF Migrations
  <2>3. QED
    BY <2>1, <2>2 DEF Catalogue
<1>12. Catalogue["roles_permissions"] = TenantTables["roles_permissions"]
  <2>1. TenantTables \in Migrations /\ "roles_permissions" \in DOMAIN TenantTables
    BY TablesOfMigrations DEF Migrations
  <2>2. \A tables \in Migrations : "roles_permissions" \in DOMAIN tables => tables = TenantTables
    BY TablesOfMigrations DEF Migrations
  <2>3. QED
    BY <2>1, <2>2 DEF Catalogue
<1>13. Catalogue["user_roles"] = HeldTables["user_roles"]
  <2>1. HeldTables \in Migrations /\ "user_roles" \in DOMAIN HeldTables
    BY TablesOfMigrations DEF Migrations
  <2>2. \A tables \in Migrations : "user_roles" \in DOMAIN tables => tables = HeldTables
    BY TablesOfMigrations DEF Migrations
  <2>3. QED
    BY <2>1, <2>2 DEF Catalogue
<1>14. Catalogue["user_permissions"] = HeldTables["user_permissions"]
  <2>1. HeldTables \in Migrations /\ "user_permissions" \in DOMAIN HeldTables
    BY TablesOfMigrations DEF Migrations
  <2>2. \A tables \in Migrations : "user_permissions" \in DOMAIN tables => tables = HeldTables
    BY TablesOfMigrations DEF Migrations
  <2>3. QED
    BY <2>1, <2>2 DEF Catalogue
<1>15. Catalogue["admin_api_key"] = AdminTables["admin_api_key"]
  <2>1. AdminTables \in Migrations /\ "admin_api_key" \in DOMAIN AdminTables
    BY TablesOfMigrations DEF Migrations
  <2>2. \A tables \in Migrations : "admin_api_key" \in DOMAIN tables => tables = AdminTables
    BY TablesOfMigrations DEF Migrations
  <2>3. QED
    BY <2>1, <2>2 DEF Catalogue
<1>16. QED
  BY <1>1, <1>2, <1>3, <1>4, <1>5, <1>6, <1>7, <1>8, <1>9, <1>10, <1>11, <1>12, <1>13, <1>14, <1>15

-----------------------------------------------------------------------------
(* Deletions.  The rounds of a cascade close it after as many rounds as      *)
(* there are levels.                                                         *)
LEMMA Least ==
    ASSUME NEW T \in SUBSET Nat, T # {}
    PROVE  \E x \in T : \A y \in T : x <= y
<1> DEFINE R == OpToRel(<, Nat)
<1>1. IsWellFoundedOn(R, Nat)
  BY NatLessThanWellFounded
<1>2. \A x, y \in Nat : x < y => <<x, y>> \in R
  BY DEF OpToRel
<1> HIDE DEF R
<1>3. PICK x \in T : \A y \in T : ~(<<y, x>> \in R)
  BY <1>1, WFMin
<1>4. ASSUME NEW y \in T PROVE x <= y
  <2>1. ~(y < x)
    BY <1>2, <1>3, Zenon
  <2>2. QED
    BY <2>1
<1>5. QED
  BY <1>4

LEMMA Induct ==
    ASSUME NEW T \in SUBSET Nat, 0 \in T, \A n \in T : n + 1 \in T
    PROVE  T = Nat
<1> SUFFICES ASSUME T # Nat PROVE FALSE
  OBVIOUS
<1> DEFINE U == Nat \ T
<1>1. PICK x \in U : \A y \in U : x <= y
  <2>1. U \in SUBSET Nat /\ U # {}
    OBVIOUS
  <2> HIDE DEF U
  <2>2. QED
    BY <2>1, Least
<1>2. x # 0 /\ x \in Nat
  BY <1>1
<1>3. x - 1 \in Nat /\ x - 1 \notin U
  BY <1>1, <1>2
<1>4. QED
  BY <1>1, <1>2, <1>3

\* A deletion is closed up to a level of tables: what belongs to a row that
\* goes, goes too.
ClosedTo(rows, dead, n) ==
    \A table \in Tables : Level(table) <= n =>
        \A row \in rows[table] : \A key \in KeysOf(table) :
            key.onDelete = "CASCADE" /\ <<key.to, row[key.column]>> \in dead =>
                <<table, row.id>> \in dead

LEMMA LevelsAre ==
    ASSUME NEW table
    PROVE  Level(table) \in 0 .. 3
  BY DEF Level

LEMMA KeysFitHere ==
    ASSUME NEW table \in Tables, NEW key \in KeysOf(table)
    PROVE  /\ key.to \in Tables
           /\ key.column # "id"
           /\ key.to # "tenants_oauth_providers"
           /\ key.onDelete = "CASCADE" => Level(key.to) < Level(table)
           /\ key.onDelete # "CASCADE" => key.onDelete = "SET_NULL" /\ key.nullable
           /\ \A other \in KeysOf(table) : other.column = key.column => other = key
<1>1. table \in DOMAIN Catalogue
  BY TablesAssumption
<1>2. KeysFit(table, Catalogue[table].keys)
  BY <1>1, CatalogueFits
<1>3. QED
  BY <1>2 DEF KeysFit, KeysOf

LEMMA FollowsWhom ==
    ASSUME NEW rows, NEW dead, NEW table, NEW id,
           <<table, id>> \in Follows(rows, dead), <<table, id>> \notin dead
    PROVE  /\ table \in Tables
           /\ \E row \in rows[table] : row.id = id /\ \E key \in KeysOf(table) :
                key.onDelete = "CASCADE" /\ <<key.to, row[key.column]>> \in dead
<1>1. PICK t \in Tables : \E row \in rows[t] : <<table, id>> = <<t, row.id>> /\
        \E key \in KeysOf(t) :
            key.onDelete = "CASCADE" /\ <<key.to, row[key.column]>> \in dead
  BY Zenon DEF Follows
<1>2. t = table
  BY <1>1
<1>3. QED
  BY <1>1, <1>2

LEMMA FollowsIn ==
    ASSUME NEW rows, NEW dead, NEW table \in Tables, NEW row \in rows[table],
           NEW key \in KeysOf(table), key.onDelete = "CASCADE",
           <<key.to, row[key.column]>> \in dead
    PROVE  <<table, row.id>> \in Follows(rows, dead)
  BY DEF Follows

LEMMA OneRound ==
    ASSUME NEW rows, NEW dead, NEW n \in Nat, ClosedTo(rows, dead, n)
    PROVE  ClosedTo(rows, Follows(rows, dead), n + 1)
<1> SUFFICES ASSUME NEW table \in Tables, Level(table) <= n + 1, NEW row \in rows[table],
                    NEW key \in KeysOf(table), key.onDelete = "CASCADE",
                    <<key.to, row[key.column]>> \in Follows(rows, dead)
             PROVE  <<table, row.id>> \in Follows(rows, dead)
  BY DEF ClosedTo
<1>1. key.to \in Tables /\ Level(key.to) <= n
  BY KeysFitHere, LevelsAre
<1>2. <<key.to, row[key.column]>> \in dead
  <2> SUFFICES ASSUME <<key.to, row[key.column]>> \notin dead PROVE FALSE
    OBVIOUS
  <2>1. PICK other \in rows[key.to] : other.id = row[key.column] /\
            \E up \in KeysOf(key.to) :
                up.onDelete = "CASCADE" /\ <<up.to, other[up.column]>> \in dead
    BY FollowsWhom
  <2>2. <<key.to, other.id>> \in dead
    BY <1>1, <2>1 DEF ClosedTo
  <2>3. QED
    BY <2>1, <2>2
<1>3. QED
  BY <1>2, FollowsIn

Rounds(rows, dead, f, last) ==
    f = [n \in 0 .. last |-> IF n = 0 THEN dead ELSE Follows(rows, f[n - 1])]

LEMMA RoundsExist ==
    ASSUME NEW rows, NEW dead, NEW last \in Nat
    PROVE  \E f : Rounds(rows, dead, f, last)
<1> DEFINE T == {m \in Nat : \E f : Rounds(rows, dead, f, m)}
<1>1. 0 \in T
  <2>1. Rounds(rows, dead, [n \in 0 .. 0 |-> dead], 0)
    BY DEF Rounds
  <2>2. QED
    BY <2>1
<1>2. ASSUME NEW m \in T PROVE m + 1 \in T
  <2>1. PICK f : Rounds(rows, dead, f, m)
    OBVIOUS
  <2> DEFINE g == [n \in 0 .. m + 1 |-> IF n <= m THEN f[n] ELSE Follows(rows, f[m])]
  <2>2. ASSUME NEW n \in 0 .. m + 1
        PROVE  g[n] = IF n = 0 THEN dead ELSE Follows(rows, g[n - 1])
    <3>1. CASE n = 0
      BY <2>1, <3>1 DEF Rounds
    <3>2. CASE n # 0 /\ n <= m
      BY <2>1, <3>2 DEF Rounds
    <3>3. CASE n = m + 1
      BY <3>3
    <3>4. QED
      BY <3>1, <3>2, <3>3
  <2>3. Rounds(rows, dead, g, m + 1)
    <3>1. g = [n \in 0 .. m + 1 |-> g[n]]
      OBVIOUS
    <3> HIDE DEF g
    <3>2. QED
      BY <2>2, <3>1 DEF Rounds
  <2> HIDE DEF g
  <2>4. m + 1 \in Nat
    OBVIOUS
  <2>5. QED
    BY <2>3, <2>4
<1> HIDE DEF T
<1>3. T = Nat
  BY <1>1, <1>2, Induct DEF T
<1>4. QED
  BY <1>3 DEF T

LEMMA CascadeCloses ==
    ASSUME NEW rows, NEW dead, Cardinality(Tables) \in Nat, Cardinality(Tables) >= 3
    PROVE  ClosedTo(rows, Cascade(rows, dead), 3)
<1> DEFINE last == Cardinality(Tables)
<1>1. PICK f : Rounds(rows, dead, f, last) /\ Cascade(rows, dead) = f[last]
  <2>1. \E f : Rounds(rows, dead, f, last)
    BY RoundsExist
  <2>2. QED
    BY <2>1 DEF Cascade, Rounds
<1> DEFINE T == {n \in Nat : n <= last => ClosedTo(rows, f[n], n)}
<1>2. 0 \in T
  <2>1. \A table \in Tables : Level(table) <= 0 => \A key \in KeysOf(table) :
            key.onDelete # "CASCADE"
    BY KeysFitHere, LevelsAre
  <2>2. QED
    BY <2>1 DEF ClosedTo
<1>3. ASSUME NEW n \in T PROVE n + 1 \in T
  <2> SUFFICES ASSUME n + 1 <= last PROVE ClosedTo(rows, f[n + 1], n + 1)
    OBVIOUS
  <2>1. ClosedTo(rows, f[n], n) /\ n \in Nat
    OBVIOUS
  <2>2. f[n + 1] = Follows(rows, f[n])
    BY <1>1, <2>1 DEF Rounds
  <2>3. QED
    BY <2>1, <2>2, OneRound
<1> HIDE DEF T
<1>4. T = Nat
  BY <1>2, <1>3, Induct DEF T
<1>5. ClosedTo(rows, f[last], last)
  BY <1>4 DEF T
<1>6. \A table : Level(table) <= 3 => Level(table) <= last
  BY LevelsAre
<1>7. QED
  BY <1>1, <1>5, <1>6 DEF ClosedTo

LEMMA ManyTables == Cardinality(Tables) \in Nat /\ Cardinality(Tables) >= 3
<1> DEFINE S == {"tenants", "clients", "users"}
<1>1. IsFiniteSet(S) /\ Cardinality(S) = 3
  <2>1. IsFiniteSet({}) /\ Cardinality({}) = 0
    BY FS_EmptySet
  <2>2. IsFiniteSet({"tenants"}) /\ Cardinality({"tenants"}) = 1
    BY FS_Singleton
  <2>3. IsFiniteSet({"tenants"} \cup {"clients"}) /\ Cardinality({"tenants"} \cup {"clients"}) = 2
    BY <2>2, FS_AddElement
  <2>4. IsFiniteSet(({"tenants"} \cup {"clients"}) \cup {"users"}) /\ Cardinality(({"tenants"} \cup {"clients"}) \cup {"users"}) = 3
    BY <2>3, FS_AddElement
  <2>5. S = ({"tenants"} \cup {"clients"}) \cup {"users"}
    OBVIOUS
  <2>6. QED
    BY <2>4, <2>5
<1>2. S \subseteq Tables /\ IsFiniteSet(Tables)
  BY RoutesAssumption, TablesAssumption DEF RouteTables
<1>3. QED
  BY <1>1, <1>2, FS_Subset, FS_CardinalityType

-----------------------------------------------------------------------------
(* Commits.  A row has its id and its keys, and keeps them; a commit that is *)
(* tame inserts such rows only, and takes an id from nobody.                 *)
KeyColumns(table) == {key.column : key \in KeysOf(table)}
Shaped(table, row) ==
    /\ "id" \in DOMAIN row
    /\ KeyColumns(table) \subseteq DOMAIN row
    /\ table = "themes" => "default" \in DOMAIN row /\ row.id # NULL
RowsShaped(rows) == \A table \in Tables : \A row \in rows[table] : Shaped(table, row)
Tame(write) ==
    /\ \A new \in write.insert : Shaped(new[1], new[2])
    /\ \A u \in write.update : "id" \notin DOMAIN u.columns
    /\ \A gone \in write.unlink : gone[1] = "tenants_oauth_providers"

LEMMA ChangedIs ==
    ASSUME NEW row, NEW table, NEW updates, "id" \in DOMAIN row,
           \A u \in updates : "id" \notin DOMAIN u.columns
    PROVE  /\ DOMAIN row \subseteq DOMAIN Changed(row, table, updates)
           /\ Changed(row, table, updates).id = row.id
           /\ (\A u \in updates : u.table # table) => Changed(row, table, updates) = row
           /\ \A c \in DOMAIN row :
                (\A u \in updates : u.table = table => c \notin DOMAIN u.columns) =>
                    Changed(row, table, updates)[c] = row[c]
<1> DEFINE mine == {u \in updates : u.table = table /\ u.id = row.id}
<1>1. CASE mine = {}
  <2>1. Changed(row, table, updates) = row
    BY <1>1 DEF Changed
  <2>2. QED
    BY <2>1
<1>2. CASE mine # {}
  <2> DEFINE u == CHOOSE u \in mine : TRUE
  <2>1. u \in mine
    BY <1>2
  <2>2. Changed(row, table, updates) = Over(u.columns, row)
    BY <1>2 DEF Changed
  <2> HIDE DEF u
  <2>3. u \in updates /\ u.table = table
    BY <2>1
  <2> HIDE DEF mine
  <2>4. QED
    BY <2>2, <2>3 DEF Over
<1>3. QED
  BY <1>1, <1>2

\* Where a row comes from after a commit.
Inserted(row, table, write) == \E new \in write.insert : new[1] = table /\ new[2] = row
Remains(row, rows, table, write) ==
    \E old \in rows[table] :
        <<table, old.id>> \notin write.unlink /\ row = Changed(old, table, write.update)

LEMMA AppliedRow ==
    ASSUME NEW rows, NEW write, NEW table \in Tables, NEW row \in Applied(rows, write)[table]
    PROVE  Inserted(row, table, write) \/ Remains(row, rows, table, write)
  BY DEF Applied, Inserted, Remains

LEMMA AppliedKeeps ==
    ASSUME NEW rows, NEW write, NEW table \in Tables, NEW row \in rows[table],
           <<table, row.id>> \notin write.unlink
    PROVE  Changed(row, table, write.update) \in Applied(rows, write)[table]
  BY DEF Applied

LEMMA ShapedApplied ==
    ASSUME NEW rows, NEW write, RowsShaped(rows), Tame(write)
    PROVE  RowsShaped(Applied(rows, write))
<1> SUFFICES ASSUME NEW table \in Tables, NEW row \in Applied(rows, write)[table]
             PROVE  Shaped(table, row)
  BY DEF RowsShaped
<1>1. CASE Remains(row, rows, table, write)
  <2> PICK old \in rows[table] : row = Changed(old, table, write.update)
    BY <1>1 DEF Remains
  <2>1. Shaped(table, old)
    BY DEF RowsShaped
  <2>2. DOMAIN old \subseteq DOMAIN row /\ row.id = old.id
    BY <2>1, ChangedIs DEF Shaped, Tame
  <2>3. QED
    BY <2>1, <2>2 DEF Shaped
<1>2. CASE Inserted(row, table, write)
  BY <1>2 DEF Tame, Inserted
<1>3. QED
  BY <1>1, <1>2, AppliedRow

\* A row that is only updated, or not at all, is still found by its id.
LEMMA IdsApplied ==
    ASSUME NEW rows, NEW write, RowsShaped(rows), Tame(write),
           NEW table \in Tables, table # "tenants_oauth_providers"
    PROVE  Ids(rows, table) \subseteq Ids(Applied(rows, write), table)
<1> SUFFICES ASSUME NEW row \in rows[table]
             PROVE  row.id \in Ids(Applied(rows, write), table)
  BY DEF Ids
<1> DEFINE new == Changed(row, table, write.update)
<1>1. <<table, row.id>> \notin write.unlink
  BY DEF Tame
<1>2. new \in Applied(rows, write)[table]
  BY <1>1, AppliedKeeps
<1>3. Shaped(table, row)
  BY DEF RowsShaped
<1>4. new.id = row.id
  BY <1>3, ChangedIs DEF Shaped, Tame
<1> HIDE DEF new
<1>5. QED
  BY <1>2, <1>4 DEF Ids

LEMMA KeysApplied ==
    ASSUME NEW rows, NEW write, RowsShaped(rows), Tame(write),
           KeysHold(rows, Tables), Accepts(rows, write)
    PROVE  KeysHold(Applied(rows, write), Tables)
<1> DEFINE new == Applied(rows, write)
<1>1. SUFFICES ASSUME NEW table \in Tables, NEW row \in new[table], NEW key \in KeysOf(table)
               PROVE  \/ row[key.column] \in Ids(new, key.to)
                      \/ key.nullable /\ row[key.column] = NULL
  BY DEF KeysHold
<1>2. CASE table \in Written(write)
  BY <1>2 DEF Accepts, KeysHold
<1>3. CASE table \notin Written(write)
  <2>1. \A u \in write.update : u.table # table
    BY <1>3 DEF Written
  <2>2. ~Inserted(row, table, write)
    BY <1>3 DEF Written, Inserted
  <2>3. PICK old \in rows[table] : row = Changed(old, table, write.update)
    <3>1. Remains(row, rows, table, write)
      BY <2>2, AppliedRow
    <3>2. QED
      BY <3>1 DEF Remains
  <2>4. row = old
    <3>1. Shaped(table, old)
      BY DEF RowsShaped
    <3>2. QED
      BY <2>1, <2>3, <3>1, ChangedIs DEF Shaped, Tame
  <2>5. \/ row[key.column] \in Ids(rows, key.to)
        \/ key.nullable /\ row[key.column] = NULL
    BY <2>4 DEF KeysHold
  <2>6. Ids(rows, key.to) \subseteq Ids(new, key.to)
    BY KeysFitHere, IdsApplied
  <2>7. QED
    BY <2>5, <2>6
<1>4. QED
  BY <1>2, <1>3

\* A row that is not deleted keeps its columns, but for the keys it forgets.
LEMMA ForgetsWhat ==
    ASSUME NEW row, NEW table \in Tables, NEW dead
    PROVE  /\ DOMAIN Forgets(row, table, dead) = DOMAIN row
           /\ \A c \in DOMAIN row : c \notin KeyColumns(table) =>
                Forgets(row, table, dead)[c] = row[c]
           /\ \A key \in KeysOf(table) : key.column \in DOMAIN row =>
                Forgets(row, table, dead)[key.column] =
                    IF key.onDelete = "SET_NULL" /\ <<key.to, row[key.column]>> \in dead
                    THEN NULL ELSE row[key.column]
<1>1. DOMAIN Forgets(row, table, dead) = DOMAIN row
  BY DEF Forgets
<1>2. ASSUME NEW c \in DOMAIN row, c \notin KeyColumns(table)
      PROVE  Forgets(row, table, dead)[c] = row[c]
  BY <1>2 DEF Forgets, KeyColumns
<1>3. ASSUME NEW key \in KeysOf(table), key.column \in DOMAIN row
      PROVE  Forgets(row, table, dead)[key.column] =
                IF key.onDelete = "SET_NULL" /\ <<key.to, row[key.column]>> \in dead
                THEN NULL ELSE row[key.column]
  <2>1. \A other \in KeysOf(table) : other.column = key.column => other = key
    BY KeysFitHere
  <2>2. QED
    BY <1>3, <2>1 DEF Forgets
<1>4. QED
  BY <1>1, <1>2, <1>3

LEMMA IdIsNoKey ==
    ASSUME NEW table \in Tables
    PROVE  "id" \notin KeyColumns(table)
  BY KeysFitHere DEF KeyColumns

LEMMA WithoutRow ==
    ASSUME NEW rows, NEW dead, NEW table \in Tables, NEW row \in Without(rows, dead)[table]
    PROVE  \E old \in rows[table] :
                <<table, old.id>> \notin dead /\ row = Forgets(old, table, dead)
  BY DEF Without

LEMMA WithoutKeeps ==
    ASSUME NEW rows, NEW dead, NEW table \in Tables, NEW row \in rows[table],
           <<table, row.id>> \notin dead
    PROVE  Forgets(row, table, dead) \in Without(rows, dead)[table]
  BY DEF Without

LEMMA ForgetsShaped ==
    ASSUME NEW row, NEW table \in Tables, NEW dead, Shaped(table, row)
    PROVE  Shaped(table, Forgets(row, table, dead)) /\ Forgets(row, table, dead).id = row.id
  BY ForgetsWhat, IdIsNoKey DEF Shaped

LEMMA KeysWithout ==
    ASSUME NEW rows, NEW dead, RowsShaped(rows), KeysHold(rows, Tables),
           ClosedTo(rows, dead, 3)
    PROVE  KeysHold(Without(rows, dead), Tables)
<1> DEFINE left == Without(rows, dead)
<1> SUFFICES ASSUME NEW table \in Tables, NEW row \in left[table], NEW key \in KeysOf(table)
             PROVE  \/ row[key.column] \in Ids(left, key.to)
                    \/ key.nullable /\ row[key.column] = NULL
  BY DEF KeysHold
<1>1. PICK old \in rows[table] :
        <<table, old.id>> \notin dead /\ row = Forgets(old, table, dead)
  BY WithoutRow
<1>2. Shaped(table, old) /\ key.column \in DOMAIN old
  BY DEF RowsShaped, Shaped, KeyColumns
<1>3. row[key.column] = IF key.onDelete = "SET_NULL" /\ <<key.to, old[key.column]>> \in dead
                        THEN NULL ELSE old[key.column]
  BY <1>1, <1>2, ForgetsWhat
<1>4. key.onDelete # "CASCADE" => key.onDelete = "SET_NULL" /\ key.nullable
  BY KeysFitHere
<1>5. \/ old[key.column] \in Ids(rows, key.to)
      \/ key.nullable /\ old[key.column] = NULL
  BY DEF KeysHold
<1>6. key.to \in Tables
  BY KeysFitHere
<1>7. CASE <<key.to, old[key.column]>> \in dead
  <2>1. key.onDelete # "CASCADE"
    BY <1>1, <1>7, LevelsAre DEF ClosedTo
  <2>2. QED
    BY <1>3, <1>4, <1>7, <2>1
<1>8. CASE <<key.to, old[key.column]>> \notin dead /\ old[key.column] \in Ids(rows, key.to)
  <2>1. PICK target \in rows[key.to] : target.id = old[key.column]
    BY <1>8 DEF Ids
  <2>2. Forgets(target, key.to, dead) \in left[key.to]
    BY <1>6, <1>8, <2>1, WithoutKeeps
  <2>3. Forgets(target, key.to, dead).id = target.id
    BY <1>6, ForgetsShaped DEF RowsShaped
  <2>4. old[key.column] \in Ids(left, key.to)
    BY <2>1, <2>2, <2>3 DEF Ids
  <2>5. QED
    BY <1>3, <1>8, <2>4
<1>9. CASE /\ <<key.to, old[key.column]>> \notin dead
           /\ key.nullable /\ old[key.column] = NULL
  BY <1>3, <1>9
<1>10. QED
  BY <1>5, <1>7, <1>8, <1>9

\* What a commit does to the references between rows.
LEMMA CommitKeepsKeys ==
    ASSUME NEW rows, NEW write, RowsShaped(rows), Tame(write),
           KeysHold(rows, Tables), Accepts(rows, write)
    PROVE  RowsShaped(After(rows, write)) /\ KeysHold(After(rows, write), Tables)
<1> DEFINE applied == Applied(rows, write)
           dead == Cascade(applied, write.delete)
<1>1. RowsShaped(applied) /\ KeysHold(applied, Tables)
  BY ShapedApplied, KeysApplied
<1>2. CASE write.delete = {}
  <2>1. After(rows, write) = applied
    BY <1>2 DEF After
  <2>2. QED
    BY <1>1, <2>1
<1>3. CASE write.delete # {}
  <2>1. After(rows, write) = Without(applied, dead)
    BY <1>3 DEF After
  <2>2. ClosedTo(applied, dead, 3)
    BY CascadeCloses, ManyTables
  <2> HIDE DEF applied, dead
  <2>3. KeysHold(Without(applied, dead), Tables)
    BY <1>1, <2>2, KeysWithout
  <2>4. RowsShaped(Without(applied, dead))
    <3> SUFFICES ASSUME NEW table \in Tables, NEW row \in Without(applied, dead)[table]
                 PROVE  Shaped(table, row)
      BY DEF RowsShaped
    <3>1. PICK old \in applied[table] : row = Forgets(old, table, dead)
      <4>1. \E old \in applied[table] :
                <<table, old.id>> \notin dead /\ row = Forgets(old, table, dead)
        BY WithoutRow
      <4>2. QED
        BY <4>1
    <3>2. Shaped(table, old)
      BY <1>1 DEF RowsShaped
    <3>3. QED
      BY <3>1, <3>2, ForgetsShaped
  <2>5. QED
    BY <2>1, <2>3, <2>4
<1>4. QED
  BY <1>2, <1>3

-----------------------------------------------------------------------------
(* Plans.  Every command and route but two draws up a routine plan: two      *)
(* commits at most, which are tame and leave alone which theme is the        *)
(* default.                                                                  *)
Touches(write) ==
    \/ \E new \in write.insert : new[1] = "themes" /\ new[2].default
    \/ \E u \in write.update : u.table = "themes" /\ "default" \in DOMAIN u.columns
Harmless(write) == Tame(write) /\ ~Touches(write)
Routine(plan) ==
    \/ plan = <<>>
    \/ \E one : plan = <<one>> /\ Harmless(one)
    \/ \E one, two : plan = <<one, two>> /\ Harmless(one) /\ Harmless(two)

Draws(a, plan) ==
    /\ \E stage, row : ProceedWith(a, stage, plan, row)
    /\ UNCHANGED db
    /\ UNCHANGED issued \/ \E tables : Issue(tables)
Proposes(a) == \E plan : Draws(a, plan) /\ Routine(plan)

LEMMA KeyColumnsAre ==
    /\ KeyColumns("tenants") \subseteq {"theme_id", "email_domain_id"}
    /\ KeyColumns("clients") \subseteq {"tenant_id"}
    /\ KeyColumns("themes") = {}
    /\ KeyColumns("oauth_providers") = {}
    /\ KeyColumns("tenants_oauth_providers") \subseteq {"oauth_provider_id", "tenant_id"}
    /\ KeyColumns("email_domains") = {}
    /\ KeyColumns("email_templates") = {}
    /\ KeyColumns("user_fields") = {}
    /\ KeyColumns("users") \subseteq {"tenant_id"}
    /\ KeyColumns("permissions") = {}
    /\ KeyColumns("roles") = {}
    /\ KeyColumns("roles_permissions") \subseteq {"permission_id", "role_id"}
    /\ KeyColumns("user_roles") \subseteq {"role_id", "user_id"}
    /\ KeyColumns("user_permissions") \subseteq {"from_role_id", "permission_id", "user_id"}
    /\ KeyColumns("admin_api_key") = {}
<1> USE RouteTablesAre, KeyParts DEF KeyColumns, KeysOf, Table, Plain
<1>1. KeyColumns("tenants") \subseteq {"theme_id", "email_domain_id"}
  BY DEF TenantTables
<1>2. KeyColumns("clients") \subseteq {"tenant_id"}
  BY DEF ClientTables
<1>3. KeyColumns("themes") = {}
  BY DEF ThemeTables
<1>4. KeyColumns("oauth_providers") = {}
  BY DEF ProviderTables
<1>5. KeyColumns("tenants_oauth_providers") \subseteq {"oauth_provider_id", "tenant_id"}
  BY DEF ClientTables
<1>6. KeyColumns("email_domains") = {} /\ KeyColumns("email_templates") = {}
  BY DEF MailTables
<1>7. KeyColumns("user_fields") = {}
  BY DEF FieldTables
<1>8. KeyColumns("users") \subseteq {"tenant_id"}
  BY DEF UserTables
<1>9. KeyColumns("permissions") = {} /\ KeyColumns("roles") = {}
  BY DEF RightTables
<1>10. KeyColumns("roles_permissions") \subseteq {"permission_id", "role_id"}
  BY DEF TenantTables
<1>11. KeyColumns("user_roles") \subseteq {"role_id", "user_id"}
  BY DEF HeldTables
<1>12. KeyColumns("user_permissions") \subseteq {"from_role_id", "permission_id", "user_id"}
  BY DEF HeldTables
<1>13. KeyColumns("admin_api_key") = {}
  BY DEF AdminTables
<1> HIDE RouteTablesAre, KeyParts DEF KeyColumns, KeysOf, Table, Plain
<1>14. QED
  BY <1>1, <1>2, <1>3, <1>4, <1>5, <1>6, <1>7, <1>8, <1>9, <1>10, <1>11, <1>12, <1>13

LEMMA InsertHarmless ==
    ASSUME NEW table, NEW row, Shaped(table, row), table # "themes"
    PROVE  Harmless(Insert({<<table, row>>}))
  BY DEF Harmless, Tame, Touches, Insert, NoChange

LEMMA ThemeTame ==
    ASSUME NEW id, NEW default \in BOOLEAN, id # NULL
    PROVE  Tame(Insert({<<"themes", [id |-> id, default |-> default]>>}))
<1>1. Shaped("themes", [id |-> id, default |-> default])
  BY KeyColumnsAre DEF Shaped
<1>2. QED
  BY <1>1 DEF Tame, Insert, NoChange

LEMMA UpdateHarmless ==
    ASSUME NEW table, NEW id, NEW columns, "id" \notin DOMAIN columns,
           table = "themes" => "default" \notin DOMAIN columns
    PROVE  Harmless(Update(table, id, columns))
  BY DEF Harmless, Tame, Touches, Update, NoChange

LEMMA DeleteHarmless ==
    ASSUME NEW table, NEW id
    PROVE  Harmless(Delete(table, id))
  BY DEF Harmless, Tame, Touches, Delete, NoChange

LEMMA DeletesHarmless ==
    ASSUME NEW gone
    PROVE  Harmless([NoChange EXCEPT !.delete = gone])
  BY DEF Harmless, Tame, Touches, NoChange

LEMMA RequestProposes ==
    ASSUME NEW a, NEW plan, Request(a, plan), Routine(plan),
           UNCHANGED issued \/ \E tables : Issue(tables)
    PROVE  Proposes(a)
  BY DEF Request, Proceed, Proposes, Draws

LEMMA RequestOne ==
    ASSUME NEW a, NEW write, Request(a, <<write>>), Harmless(write),
           UNCHANGED issued \/ \E tables : Issue(tables)
    PROVE  Proposes(a)
  BY RequestProposes DEF Routine

-----------------------------------------------------------------------------
(* The routes.                                                               *)
LEMMA LinksShaped ==
    ASSUME NEW tenant, NEW providers, NEW new \in Links(tenant, providers)
    PROVE  new[1] = "tenants_oauth_providers" /\ Shaped(new[1], new[2])
<1> PICK p \in providers : new = <<"tenants_oauth_providers",
        [id |-> <<tenant, p>>, tenant_id |-> tenant, oauth_provider_id |-> p]>>
  BY DEF Links
<1>1. QED
  BY KeyColumnsAre DEF Shaped

LEMMA ClientHarmless ==
    ASSUME NEW tenant
    PROVE  Harmless(Insert({NewClient(tenant)}))
<1>1. Shaped("clients", [id |-> NextId("clients"), client_id |-> NextId("clients"),
                         tenant_id |-> tenant])
  BY KeyColumnsAre DEF Shaped
<1>2. QED
  BY <1>1, InsertHarmless DEF NewClient

LEMMA TenantSteps ==
    ASSUME NEW a, TenantRoutes(a)
    PROVE  Proposes(a)
<1>1. CASE CreateTenant(a)
  <2> PICK name, theme, providers :
        LET tenant == NextId("tenants")
        IN  Request(a,
              <<Insert({<<"tenants", [id |-> tenant, slug |-> AvailableSlug(name),
                          default |-> FALSE, theme_id |-> theme,
                          email_domain_id |-> NULL]>>} \cup Links(tenant, providers)),
                Insert({NewClient(tenant)})>>)
    BY <1>1 DEF CreateTenant
  <2> DEFINE tenant == NextId("tenants")
             row == [id |-> tenant, slug |-> AvailableSlug(name), default |-> FALSE,
                     theme_id |-> theme, email_domain_id |-> NULL]
             first == Insert({<<"tenants", row>>} \cup Links(tenant, providers))
  <2>1. Shaped("tenants", row)
    BY KeyColumnsAre DEF Shaped
  <2> HIDE DEF row
  <2>2. Harmless(first)
    BY <2>1, LinksShaped DEF Harmless, Tame, Touches, Insert, NoChange
  <2>3. Harmless(Insert({NewClient(tenant)}))
    BY ClientHarmless
  <2>4. Request(a, <<first, Insert({NewClient(tenant)})>>)
    BY DEF row
  <2>5. \E tables : Issue(tables)
    BY <1>1 DEF CreateTenant
  <2> HIDE DEF first
  <2>6. Routine(<<first, Insert({NewClient(tenant)})>>)
    BY <2>2, <2>3 DEF Routine
  <2>7. QED
    BY <2>4, <2>5, <2>6, RequestProposes
<1>2. CASE UpdateTenant(a)
  <2> PICK tenant, theme, linked, providers :
        Request(a, <<[Update("tenants", tenant, [theme_id |-> theme]) EXCEPT
                !.unlink = {<<"tenants_oauth_providers", <<tenant, p>>>> :
                                p \in linked \ providers},
                !.insert = Links(tenant, providers \ linked)]>>)
    BY <1>2 DEF UpdateTenant
  <2> DEFINE write == [Update("tenants", tenant, [theme_id |-> theme]) EXCEPT
                !.unlink = {<<"tenants_oauth_providers", <<tenant, p>>>> :
                                p \in linked \ providers},
                !.insert = Links(tenant, providers \ linked)]
  <2>1. write.insert = Links(tenant, providers \ linked)
    BY DEF Update, NoChange
  <2>2. write.update = {[table |-> "tenants", id |-> tenant,
                         columns |-> [theme_id |-> theme]]}
    BY DEF Update, NoChange
  <2>3. write.unlink = {<<"tenants_oauth_providers", <<tenant, p>>>> :
                            p \in linked \ providers}
    BY DEF Update, NoChange
  <2> HIDE DEF write
  <2>4. Harmless(write)
    BY <2>1, <2>2, <2>3, LinksShaped DEF Harmless, Tame, Touches
  <2>5. Request(a, <<write>>)
    BY DEF write
  <2>6. QED
    BY <1>2, <2>4, <2>5, RequestOne DEF UpdateTenant
<1>3. CASE DeleteTenant(a)
  BY <1>3, RequestOne, DeleteHarmless DEF DeleteTenant
<1>4. QED
  BY <1>1, <1>2, <1>3 DEF TenantRoutes

LEMMA TenantEmailSteps ==
    ASSUME NEW a, TenantEmailRoutes(a)
    PROVE  Proposes(a)
<1>1. CASE SetTenantEmail(a)
  <2> PICK tenant \in Ids(db, "tenants"), domain \in Domains :
        Request(a, <<[Update("tenants", tenant, [email_domain_id |-> domain]) EXCEPT
            !.insert = IF domain \in Ids(db, "email_domains") THEN {}
                       ELSE {<<"email_domains", [id |-> domain, domain |-> domain]>>}]>>)
    BY <1>1 DEF SetTenantEmail
  <2> DEFINE row == [id |-> domain, domain |-> domain]
             write == [Update("tenants", tenant, [email_domain_id |-> domain]) EXCEPT
            !.insert = IF domain \in Ids(db, "email_domains") THEN {}
                       ELSE {<<"email_domains", row>>}]
  <2>1. Request(a, <<write>>)
    OBVIOUS
  <2>2. Shaped("email_domains", row)
    BY KeyColumnsAre DEF Shaped
  <2> HIDE DEF row
  <2>3. write.insert \subseteq {<<"email_domains", row>>}
    BY DEF Update, NoChange
  <2>4. write.update = {[table |-> "tenants", id |-> tenant,
                         columns |-> [email_domain_id |-> domain]]}
    BY DEF Update, NoChange
  <2>5. write.unlink = {}
    BY DEF Update, NoChange
  <2> HIDE DEF write
  <2>6. Harmless(write)
    BY <2>2, <2>3, <2>4, <2>5 DEF Harmless, Tame, Touches
  <2>7. QED
    BY <1>1, <2>1, <2>6, RequestOne DEF SetTenantEmail
<1>2. CASE VerifyDomain(a)
  BY <1>2, RequestOne, UpdateHarmless DEF VerifyDomain, Others
<1>3. QED
  BY <1>1, <1>2 DEF TenantEmailRoutes

LEMMA ClientSteps ==
    ASSUME NEW a, ClientRoutes(a)
    PROVE  Proposes(a)
<1>1. CASE CreateClient(a)
  BY <1>1, RequestOne, ClientHarmless DEF CreateClient
<1>2. CASE UpdateClient(a)
  BY <1>2, RequestOne, UpdateHarmless DEF UpdateClient, Others
<1>3. CASE DeleteClient(a)
  BY <1>3, RequestOne, DeleteHarmless DEF DeleteClient
<1>4. QED
  BY <1>1, <1>2, <1>3 DEF ClientRoutes

LEMMA NextIdIsNew ==
    ASSUME issued \in [NumberedTables -> Nat]
    PROVE  NextId("themes") # NULL
<1>1. NextId("themes") \in Nat
  BY DEF NextId, NumberedTables
<1>2. QED
  BY <1>1, RoutesAssumption

LEMMA ThemeSteps ==
    ASSUME NEW a, CreateTheme(a) \/ UpdateTheme(a), issued \in [NumberedTables -> Nat]
    PROVE  Proposes(a)
<1>1. CASE CreateTheme(a)
  <2> DEFINE write == Insert({<<"themes", [id |-> NextId("themes"), default |-> FALSE]>>})
  <2>1. Tame(write)
    BY NextIdIsNew, ThemeTame
  <2>2. ~Touches(write)
    BY DEF Touches, Insert, NoChange
  <2>3. Request(a, <<write>>) /\ \E tables : Issue(tables)
    BY <1>1 DEF CreateTheme
  <2> HIDE DEF write
  <2>4. QED
    BY <2>1, <2>2, <2>3, RequestOne DEF Harmless
<1>2. CASE UpdateTheme(a)
  BY <1>2, RequestOne, UpdateHarmless DEF UpdateTheme, Others
<1>3. QED
  BY <1>1, <1>2

LEMMA ProviderSteps ==
    ASSUME NEW a, ProviderRoutes(a)
    PROVE  Proposes(a)
<1>1. CASE CreateProvider(a)
  <2>1. Shaped("oauth_providers", [id |-> NextId("oauth_providers")])
    BY KeyColumnsAre DEF Shaped
  <2>2. QED
    BY <1>1, <2>1, RequestOne, InsertHarmless DEF CreateProvider
<1>2. CASE UpdateProvider(a)
  BY <1>2, RequestOne, UpdateHarmless DEF UpdateProvider, Others
<1>3. CASE DeleteProvider(a)
  BY <1>3, RequestOne, DeleteHarmless DEF DeleteProvider
<1>4. QED
  BY <1>1, <1>2, <1>3 DEF ProviderRoutes

LEMMA FieldSteps ==
    ASSUME NEW a, FieldRoutes(a)
    PROVE  Proposes(a)
<1>1. CASE CreateField(a)
  <2>1. PICK slug : Request(a, <<Insert({<<"user_fields",
                        [id |-> NextId("user_fields"), slug |-> slug]>>})>>)
    BY <1>1 DEF CreateField
  <2>2. Shaped("user_fields", [id |-> NextId("user_fields"), slug |-> slug])
    BY KeyColumnsAre DEF Shaped
  <2>3. QED
    BY <1>1, <2>1, <2>2, RequestOne, InsertHarmless DEF CreateField
<1>2. CASE UpdateField(a)
  <2>1. PICK field, slug : Request(a, <<Update("user_fields", field.id, [slug |-> slug])>>)
    BY <1>2 DEF UpdateField
  <2>2. "id" \notin DOMAIN [slug |-> slug]
    OBVIOUS
  <2>3. QED
    BY <1>2, <2>1, <2>2, RequestOne, UpdateHarmless DEF UpdateField
<1>3. CASE DeleteField(a)
  BY <1>3, RequestOne, DeleteHarmless DEF DeleteField
<1>4. QED
  BY <1>1, <1>2, <1>3 DEF FieldRoutes

LEMMA TemplateSteps ==
    ASSUME NEW a, TemplateRoutes(a)
    PROVE  Proposes(a)
  BY RequestOne, UpdateHarmless DEF TemplateRoutes, UpdateTemplate, Others

LEMMA ApiKeySteps ==
    ASSUME NEW a, ApiKeyRoutes(a)
    PROVE  Proposes(a)
<1>1. CASE CreateApiKey(a)
  <2>1. Shaped("admin_api_key", [id |-> NextId("admin_api_key"),
                                 token |-> NextId("admin_api_key")])
    BY KeyColumnsAre DEF Shaped
  <2>2. QED
    BY <1>1, <2>1, RequestOne, InsertHarmless DEF CreateApiKey
<1>2. CASE DeleteApiKey(a)
  BY <1>2, RequestOne, DeleteHarmless DEF DeleteApiKey
<1>3. QED
  BY <1>1, <1>2 DEF ApiKeyRoutes

LEMMA RightsSteps ==
    ASSUME NEW a, RightsRoutes(a)
    PROVE  Proposes(a)
<1>1. CASE DeleteUser(a) \/ DeleteRole(a) \/ DeletePermission(a)
  BY <1>1, RequestOne, DeleteHarmless
     DEF RightsRoutes, DeleteUser, DeleteRole, DeletePermission
<1>2. CASE DeleteUserRole(a)
  BY <1>2, RequestProposes, DeleteHarmless, DeletesHarmless
     DEF RightsRoutes, DeleteUserRole, Routine
<1>3. QED
  BY <1>1, <1>2 DEF RightsRoutes

-----------------------------------------------------------------------------
(* The commands.                                                             *)
LEMMA DrawNothing ==
    ASSUME NEW a, NEW stage, NEW row, ProceedWith(a, stage, <<>>, row),
           UNCHANGED <<db, issued>>
    PROVE  Proposes(a)
  BY DEF Proposes, Draws, Routine

LEMMA DrawOne ==
    ASSUME NEW a, NEW stage, NEW row, NEW write, ProceedWith(a, stage, <<write>>, row),
           Harmless(write), UNCHANGED db, UNCHANGED issued \/ \E tables : Issue(tables)
    PROVE  Proposes(a)
  BY DEF Proposes, Draws, Routine

LEMMA InitTenantSteps ==
    ASSUME NEW a, InitDefaultTenant(a)
    PROVE  Proposes(a)
<1>1. CASE DefaultTenants # {}
  BY <1>1, DrawNothing DEF InitDefaultTenant, Reads
<1>2. CASE DefaultTenants = {}
  <2> DEFINE row == [id |-> NextId("tenants"), slug |-> AvailableSlug("default"),
                     default |-> TRUE, theme_id |-> NULL, email_domain_id |-> NULL]
  <2>1. Shaped("tenants", row)
    BY KeyColumnsAre DEF Shaped
  <2>2. ProceedWith(a, "tenant", <<Insert({<<"tenants", row>>})>>, NextId("tenants"))
    BY <1>2 DEF InitDefaultTenant
  <2> HIDE DEF row
  <2>3. UNCHANGED db /\ \E tables : Issue(tables)
    BY <1>2 DEF InitDefaultTenant, Reads
  <2>4. QED
    BY <2>1, <2>2, <2>3, DrawOne, InsertHarmless
<1>3. QED
  BY <1>1, <1>2

LEMMA InitClientSteps ==
    ASSUME NEW a, InitDefaultClient(a)
    PROVE  Proposes(a)
<1>1. CASE MainClients # {}
  BY <1>1, DrawOne, UpdateHarmless DEF InitDefaultClient, Reads, Others, Proceed
<1>2. CASE MainClients = {}
  <2> DEFINE row == [id |-> NextId("clients"), client_id |-> Main, tenant_id |-> work[a].row]
  <2>1. Shaped("clients", row)
    BY KeyColumnsAre DEF Shaped
  <2>2. ProceedWith(a, "client", <<Insert({<<"clients", row>>})>>, NULL)
    BY <1>2 DEF InitDefaultClient, Proceed
  <2> HIDE DEF row
  <2>3. UNCHANGED db /\ \E tables : Issue(tables)
    BY <1>2 DEF InitDefaultClient, Reads
  <2>4. QED
    BY <2>1, <2>2, <2>3, DrawOne, InsertHarmless
<1>3. QED
  BY <1>1, <1>2

LEMMA InitRoleSteps ==
    ASSUME NEW a, NEW before, NEW stage, InitAdminRole(a, before, stage)
    PROVE  Proposes(a)
<1>1. CASE AdminPermissions # {}
  BY <1>1, DrawNothing DEF InitAdminRole, Reads, Proceed
<1>2. CASE AdminPermissions = {}
  <2> DEFINE permission == [id |-> NextId("permissions"), codename |-> "fief_admin"]
             role == [id |-> NextId("roles"), name |-> "Administrator"]
             link == [id |-> <<NextId("roles"), NextId("permissions")>>,
                      role_id |-> NextId("roles"), permission_id |-> NextId("permissions")]
             one == Insert({<<"permissions", permission>>})
             two == Insert({<<"roles", role>>, <<"roles_permissions", link>>})
  <2>1. Shaped("permissions", permission) /\ Shaped("roles", role)
    BY KeyColumnsAre DEF Shaped
  <2>2. Shaped("roles_permissions", link)
    BY KeyColumnsAre DEF Shaped
  <2>3. AdminRolePlan = <<one, two>>
    BY DEF AdminRolePlan
  <2> HIDE DEF permission, role, link
  <2>4. Harmless(one)
    BY <2>1, InsertHarmless
  <2>5. Harmless(two)
    BY <2>1, <2>2 DEF Harmless, Tame, Touches, Insert, NoChange
  <2> HIDE DEF one, two
  <2>6. Routine(AdminRolePlan)
    BY <2>3, <2>4, <2>5 DEF Routine
  <2>7. QED
    BY <1>2, <2>6 DEF InitAdminRole, Reads, Proceed, Proposes, Draws
<1>3. QED
  BY <1>1, <1>2

LEMMA TemplatesSteps ==
    ASSUME NEW a, InitTemplate(a) \/ TemplatesReady(a)
    PROVE  Proposes(a)
<1>1. CASE InitTemplate(a)
  <2>1. PICK type : Proceed(a, "theme", <<Insert({<<"email_templates",
                                            [id |-> type, type |-> type]>>})>>)
    BY <1>1 DEF InitTemplate
  <2>2. Shaped("email_templates", [id |-> type, type |-> type])
    BY KeyColumnsAre DEF Shaped
  <2>3. QED
    BY <1>1, <2>1, <2>2, DrawOne, InsertHarmless DEF InitTemplate, Reads, Proceed
<1>2. CASE TemplatesReady(a)
  BY <1>2, DrawNothing DEF TemplatesReady, Reads, Proceed
<1>3. QED
  BY <1>1, <1>2

LEMMA CreateAdminSteps ==
    ASSUME NEW a, CreateAdmin(a)
    PROVE  Proposes(a)
<1>1. CASE MainUsers # {}
  BY <1>1, DrawNothing DEF CreateAdmin, Reads, Proceed
<1>2. CASE MainUsers = {}
  <2> DEFINE row == [id |-> NextId("users"), email |-> Main,
                     tenant_id |-> Only(DefaultTenants).id]
  <2>1. Shaped("users", row)
    BY KeyColumnsAre DEF Shaped
  <2>2. ProceedWith(a, "user", <<Insert({<<"users", row>>})>>, NextId("users"))
    BY <1>2 DEF CreateAdmin
  <2> HIDE DEF row
  <2>3. UNCHANGED db /\ \E tables : Issue(tables)
    BY <1>2 DEF CreateAdmin, Reads
  <2>4. QED
    BY <2>1, <2>2, <2>3, DrawOne, InsertHarmless
<1>3. QED
  BY <1>1, <1>2

LEMMA GrantRoutine ==
    ASSUME NEW user, NEW role
    PROVE  Routine(GrantPlan(user, role))
<1> DEFINE link == [id |-> <<user, role>>, user_id |-> user, role_id |-> role]
           given == {<<"user_permissions",
                [id |-> <<user, link2.permission_id, role>>, user_id |-> user,
                 permission_id |-> link2.permission_id, from_role_id |-> role]>> :
                link2 \in {link2 \in db["roles_permissions"] : link2.role_id = role}}
           one == Insert({<<"user_roles", link>>})
           two == Insert(given)
<1>1. Shaped("user_roles", link)
  BY KeyColumnsAre DEF Shaped
<1>2. ASSUME NEW new \in given PROVE new[1] = "user_permissions" /\ Shaped(new[1], new[2])
  <2> PICK p : new = <<"user_permissions", [id |-> <<user, p, role>>, user_id |-> user,
                        permission_id |-> p, from_role_id |-> role]>>
    OBVIOUS
  <2>1. QED
    BY KeyColumnsAre DEF Shaped
<1>3. GrantPlan(user, role) = <<one, two>>
  BY DEF GrantPlan
<1> HIDE DEF link, given
<1>4. Harmless(one)
  BY <1>1, InsertHarmless
<1>5. Harmless(two)
  BY <1>2 DEF Harmless, Tame, Touches, Insert, NoChange
<1> HIDE DEF one, two
<1>6. QED
  BY <1>3, <1>4, <1>5 DEF Routine

LEMMA GrantSteps ==
    ASSUME NEW a, GrantToNew(a) \/ GrantAdminRole(a)
    PROVE  Proposes(a)
<1>1. CASE GrantToNew(a)
  <2>1. PICK plan : Proceed(a, "granted", plan) /\ Routine(plan)
    BY <1>1, GrantRoutine DEF GrantToNew, Routine
  <2>2. QED
    BY <1>1, <2>1 DEF GrantToNew, Proceed, Proposes, Draws
<1>2. CASE GrantAdminRole(a)
  <2>1. PICK stage, plan : Proceed(a, stage, plan) /\ Routine(plan)
    BY <1>2, GrantRoutine DEF GrantAdminRole, Routine
  <2>2. QED
    BY <1>2, <2>1 DEF GrantAdminRole, Reads, Proceed, Proposes, Draws
<1>3. QED
  BY <1>1, <1>2

LEMMA KeySteps ==
    ASSUME NEW a, CreateKey(a)
    PROVE  Proposes(a)
<1>1. Shaped("admin_api_key", [id |-> Main, token |-> Main])
  BY KeyColumnsAre DEF Shaped
<1>2. CASE Where("admin_api_key", "token", Main) # {}
  BY <1>2, DrawNothing DEF CreateKey, Reads, Proceed
<1>3. CASE Where("admin_api_key", "token", Main) = {}
  BY <1>1, <1>3, DrawOne, InsertHarmless DEF CreateKey, Reads, Proceed
<1>4. QED
  BY <1>2, <1>3

LEMMA BeginSteps ==
    ASSUME NEW a, BeginStart(a) \/ BeginGrant(a)
    PROVE  Proposes(a)
  BY DrawNothing DEF BeginStart, BeginGrant, Proceed

-----------------------------------------------------------------------------
(* Steps.  An actor draws up a plan, gives up, or commits.                   *)
Formed(plan) ==
    \/ plan = <<>>
    \/ \E one : plan = <<one>> /\ Tame(one)
    \/ \E one, two : plan = <<one, two>> /\ Tame(one) /\ Tame(two)

\* The plans that are about the default theme, and what each rests on.
Making(plan) == \E id : plan = <<Insert({<<"themes", [id |-> id, default |-> TRUE]>>})>>
Setting(plan) == \E id : plan = <<Update("themes", id, [default |-> TRUE])>>
Moving(plan, old) ==
    \E id : plan = <<Update("themes", old, [default |-> FALSE]),
                     Update("themes", id, [default |-> TRUE])>>
Rests(plan, defaults) ==
    TouchesDefault(plan) =>
        \/ (Making(plan) \/ Setting(plan)) /\ defaults = {}
        \/ \E old : Moving(plan, old) /\ \A row \in defaults : row.id = old

Prepares(a) ==
    \E plan :
        Draws(a, plan) /\ Formed(plan) /\ (~overlapped => Rests(plan, DefaultThemes))
Quits(a) ==
    work' = [work EXCEPT ![a] = Idle] /\ UNCHANGED <<db, issued, overlapped>>
Performs(a) ==
    /\ work[a].plan # <<>>
    /\ Accepts(db, Head(work[a].plan))
    /\ db' = After(db, Head(work[a].plan))
    /\ work' = [work EXCEPT ![a] = Done([work[a] EXCEPT !.plan = Tail(@)])]
    /\ UNCHANGED <<issued, overlapped>>

LEMMA TouchesOne ==
    ASSUME NEW one, NEW two
    PROVE  /\ ~TouchesDefault(<<>>)
           /\ TouchesDefault(<<one>>) <=> Touches(one)
           /\ TouchesDefault(<<one, two>>) <=> Touches(one) \/ Touches(two)
<1>1. ~TouchesDefault(<<>>)
  BY DEF TouchesDefault
<1>2. TouchesDefault(<<one>>) <=> Touches(one)
  BY DEF TouchesDefault, Touches
<1>3. TouchesDefault(<<one, two>>) <=> Touches(one) \/ Touches(two)
  BY DEF TouchesDefault, Touches
<1>4. QED
  BY <1>1, <1>2, <1>3

LEMMA ProposesPrepares ==
    ASSUME NEW a, Proposes(a)
    PROVE  Prepares(a)
<1> PICK plan : Draws(a, plan) /\ Routine(plan)
  BY DEF Proposes
<1>1. Formed(plan)
  BY DEF Routine, Formed, Harmless
<1>2. ~TouchesDefault(plan)
  BY TouchesOne DEF Routine, Harmless
<1>3. QED
  BY <1>1, <1>2 DEF Prepares, Rests

LEMMA SetDefaultPrepares ==
    ASSUME NEW a, SetDefaultTheme(a),
           ~overlapped => \A one, other \in DefaultThemes : one = other
    PROVE  Prepares(a)
<1> DEFINE old == Only(DefaultThemes).id
<1> PICK id : Request(a, <<Update("themes", old, [default |-> FALSE]),
                           Update("themes", id, [default |-> TRUE])>>)
  BY DEF SetDefaultTheme
<1> DEFINE one == Update("themes", old, [default |-> FALSE])
           two == Update("themes", id, [default |-> TRUE])
<1>1. Tame(one) /\ Tame(two)
  BY DEF Tame, Update, NoChange
<1>2. Formed(<<one, two>>)
  <2> HIDE DEF one, two
  <2> QED
    BY <1>1 DEF Formed
<1>3. ~overlapped => \A row \in DefaultThemes : row.id = old
  <2> SUFFICES ASSUME ~overlapped, NEW row \in DefaultThemes PROVE row.id = old
    OBVIOUS
  <2>1. Only(DefaultThemes) \in DefaultThemes
    BY DEF Only
  <2>2. QED
    BY <2>1
<1>4. Moving(<<one, two>>, old)
  BY DEF Moving
<1>5. Draws(a, <<one, two>>)
  BY DEF Request, Proceed, Draws, SetDefaultTheme
<1> HIDE DEF one, two, old
<1>6. QED
  BY <1>2, <1>3, <1>4, <1>5 DEF Prepares, Rests

LEMMA InitThemePrepares ==
    ASSUME NEW a, InitDefaultTheme(a), issued \in [NumberedTables -> Nat]
    PROVE  Prepares(a)
<1>1. CASE DefaultThemes # {}
  BY <1>1, DrawNothing, ProposesPrepares DEF InitDefaultTheme, Reads, Proceed
<1>2. CASE DefaultThemes = {}
  <2> DEFINE write == Insert({<<"themes", [id |-> NextId("themes"), default |-> TRUE]>>})
  <2>1. Tame(write)
    BY NextIdIsNew, ThemeTame
  <2>2. Making(<<write>>)
    BY DEF Making
  <2>3. Draws(a, <<write>>)
    BY <1>2 DEF InitDefaultTheme, Reads, Proceed, Draws
  <2> HIDE DEF write
  <2>4. Formed(<<write>>)
    BY <2>1 DEF Formed
  <2>5. QED
    BY <1>2, <2>2, <2>3, <2>4 DEF Prepares, Rests
<1>3. QED
  BY <1>1, <1>2

LEMMA GiveUpQuits ==
    ASSUME NEW a, Die(a) \/ Stumble(a)
    PROVE  Quits(a)
  BY DEF Die, Stumble, GiveUp, Quits

LEMMA CommitSteps ==
    ASSUME NEW a, Commit(a)
    PROVE  Performs(a) \/ Quits(a)
  BY DEF Commit, GiveUp, Performs, Quits

LEMMA Steps ==
    ASSUME NEW a, Administrate(a) \/ Commands(a), issued \in [NumberedTables -> Nat],
           ~overlapped => \A one, other \in DefaultThemes : one = other
    PROVE  Prepares(a) \/ Performs(a) \/ Quits(a)
<1>1. CASE Administrate(a)
  <2>1. CASE \/ TenantRoutes(a) \/ TenantEmailRoutes(a) \/ ClientRoutes(a)
             \/ ProviderRoutes(a) \/ FieldRoutes(a) \/ TemplateRoutes(a) \/ ApiKeyRoutes(a)
             \/ RightsRoutes(a)
    BY <2>1, ProposesPrepares, TenantSteps, TenantEmailSteps, ClientSteps, ProviderSteps,
       FieldSteps, TemplateSteps, ApiKeySteps, RightsSteps
  <2>2. CASE ThemeRoutes(a)
    BY <2>2, ProposesPrepares, ThemeSteps, SetDefaultPrepares DEF ThemeRoutes
  <2>3. QED
    BY <1>1, <2>1, <2>2 DEF Administrate
<1>2. CASE Commands(a)
  <2>1. CASE RunServer(a)
    <3>1. CASE InitAll(a)
      BY <3>1, ProposesPrepares, InitTenantSteps, InitClientSteps, InitRoleSteps,
         InitThemePrepares, TemplatesSteps, GiveUpQuits DEF InitAll
    <3>2. CASE ~InitAll(a)
      BY <2>1, <3>2, ProposesPrepares, BeginSteps, InitRoleSteps, CreateAdminSteps,
         GrantSteps, KeySteps DEF RunServer
    <3>3. QED
      BY <3>1, <3>2
  <2>2. CASE ~RunServer(a)
    BY <1>2, <2>2, ProposesPrepares, BeginSteps, InitRoleSteps, GrantSteps, CommitSteps,
       GiveUpQuits DEF Commands
  <2>3. QED
    BY <2>1, <2>2
<1>3. QED
  BY <1>1, <1>2

-----------------------------------------------------------------------------
(* References.                                                               *)
Orderly ==
    /\ issued \in [NumberedTables -> Nat]
    /\ RowsShaped(db) /\ KeysHold(db, Tables)
    /\ DOMAIN work = Actors
    /\ \A a \in Actors : "plan" \in DOMAIN work[a] /\ Formed(work[a].plan)

LEMMA IssueTypes ==
    ASSUME issued \in [NumberedTables -> Nat],
           UNCHANGED issued \/ \E tables : Issue(tables)
    PROVE  issued' \in [NumberedTables -> Nat]
  BY RoutesAssumption DEF Issue

LEMMA FirstAndRest ==
    ASSUME NEW plan, Formed(plan), plan # <<>>
    PROVE  Tame(Head(plan)) /\ Formed(Tail(plan))
<1>1. ASSUME NEW one, plan = <<one>>, Tame(one)
      PROVE  Tame(Head(plan)) /\ Formed(Tail(plan))
  <2>1. Head(plan) = one /\ Tail(plan) = <<>>
    BY <1>1
  <2>2. QED
    BY <1>1, <2>1 DEF Formed
<1>2. ASSUME NEW one, NEW two, plan = <<one, two>>, Tame(one), Tame(two)
      PROVE  Tame(Head(plan)) /\ Formed(Tail(plan))
  <2>1. Head(plan) = one /\ Tail(plan) = <<two>>
    BY <1>2
  <2>2. QED
    BY <1>2, <2>1 DEF Formed
<1>3. QED
  BY <1>1, <1>2 DEF Formed

LEMMA DoneIs ==
    ASSUME NEW task, "plan" \in DOMAIN task
    PROVE  /\ "plan" \in DOMAIN Done([task EXCEPT !.plan = Tail(@)])
           /\ Done([task EXCEPT !.plan = Tail(@)]).plan = Tail(task.plan)
<1> DEFINE next == [task EXCEPT !.plan = Tail(@)]
<1>1. DOMAIN next = DOMAIN task /\ next.plan = Tail(task.plan)
  OBVIOUS
<1> HIDE DEF next
<1>2. QED
  BY <1>1 DEF Done, Idle

LEMMA OrderlyAtFirst ==
    ASSUME AllInit
    PROVE  Orderly
<1>1. issued \in [NumberedTables -> Nat]
  BY RoutesAssumption DEF AllInit, Init
<1>2. RowsShaped(db) /\ KeysHold(db, Tables)
  BY DEF AllInit, Init, RowsShaped, KeysHold
<1>3. DOMAIN work = Actors /\ \A a \in Actors : work[a] = Idle
  BY DEF AllInit, Init
<1>4. "plan" \in DOMAIN Idle /\ Formed(Idle.plan)
  BY DEF Idle, Formed
<1>5. QED
  BY <1>1, <1>2, <1>3, <1>4 DEF Orderly

LEMMA OrderlyStep ==
    ASSUME Orderly, NEW a \in Actors, Prepares(a) \/ Performs(a) \/ Quits(a)
    PROVE  Orderly'
<1>1. CASE Prepares(a)
  <2> PICK plan, stage, row :
        /\ ProceedWith(a, stage, plan, row) /\ Formed(plan) /\ UNCHANGED db
        /\ UNCHANGED issued \/ \E tables : Issue(tables)
    BY <1>1 DEF Prepares, Draws
  <2>1. issued' \in [NumberedTables -> Nat]
    BY IssueTypes DEF Orderly
  <2>2. work' = [work EXCEPT ![a] = [stage |-> stage, plan |-> plan, row |-> row]]
    BY DEF ProceedWith
  <2>3. DOMAIN work' = Actors
    BY <2>2 DEF Orderly
  <2>4. \A b \in Actors : "plan" \in DOMAIN work'[b] /\ Formed(work'[b].plan)
    BY <2>2 DEF Orderly
  <2>5. RowsShaped(db') /\ KeysHold(db', Tables)
    BY DEF Orderly
  <2>6. QED
    BY <2>1, <2>3, <2>4, <2>5 DEF Orderly
<1>2. CASE Performs(a)
  <2> DEFINE write == Head(work[a].plan)
             next == Done([work[a] EXCEPT !.plan = Tail(@)])
  <2>1. Tame(write) /\ Formed(Tail(work[a].plan))
    BY <1>2, FirstAndRest DEF Performs, Orderly
  <2>2. "plan" \in DOMAIN next /\ next.plan = Tail(work[a].plan)
    BY DoneIs DEF Orderly
  <2>3. work' = [work EXCEPT ![a] = next]
    BY <1>2 DEF Performs
  <2> HIDE DEF next
  <2>4. DOMAIN work' = Actors
    BY <2>3 DEF Orderly
  <2>5. \A b \in Actors : "plan" \in DOMAIN work'[b] /\ Formed(work'[b].plan)
    BY <2>1, <2>2, <2>3 DEF Orderly
  <2>6. RowsShaped(After(db, write)) /\ KeysHold(After(db, write), Tables)
    BY <1>2, <2>1, CommitKeepsKeys DEF Performs, Orderly
  <2>7. db' = After(db, write) /\ issued' = issued
    BY <1>2 DEF Performs
  <2>8. QED
    BY <2>4, <2>5, <2>6, <2>7 DEF Orderly
<1>3. CASE Quits(a)
  <2>1. DOMAIN work' = Actors
    BY <1>3 DEF Quits, Orderly
  <2>2. \A b \in Actors : "plan" \in DOMAIN work'[b] /\ Formed(work'[b].plan)
    BY <1>3 DEF Quits, Orderly, Idle, Formed
  <2>3. QED
    BY <1>3, <2>1, <2>2 DEF Quits, Orderly
<1>4. QED
  BY <1>1, <1>2, <1>3

LEMMA OwnersAreThere ==
    ASSUME KeysHold(db, Tables), NEW table \in Tables, NEW column, NEW to,
           Owner(column, to) \in KeysOf(table)
    PROVE  Belongs(table, column, to)
<1>1. Owner(column, to).column = column /\ Owner(column, to).to = to
  BY KeyParts
<1>2. ~Owner(column, to).nullable
  BY DEF Owner, Key
<1>3. QED
  BY <1>1, <1>2 DEF KeysHold, Belongs

LEMMA ChoicesAreThere ==
    ASSUME KeysHold(db, Tables), NEW table \in Tables, NEW column, NEW to,
           Choice(column, to) \in KeysOf(table)
    PROVE  Points(table, column, to)
<1>1. Choice(column, to).column = column /\ Choice(column, to).to = to
  BY KeyParts
<1>2. QED
  BY <1>1 DEF KeysHold, Points

LEMMA OrderlyRows ==
    ASSUME Orderly
    PROVE  RowsBelong
<1>1. KeysHold(db, Tables)
  BY DEF Orderly
<1>2. RouteTables \subseteq Tables
  BY RoutesAssumption
<1>3. /\ Owner("tenant_id", "tenants") \in KeysOf("clients")
      /\ Owner("oauth_provider_id", "oauth_providers") \in KeysOf("tenants_oauth_providers")
      /\ Owner("tenant_id", "tenants") \in KeysOf("tenants_oauth_providers")
  BY <1>2, RouteTablesAre, KeyParts DEF KeysOf, Table, RouteTables, ClientTables
<1>4. Owner("tenant_id", "tenants") \in KeysOf("users")
  BY <1>2, RouteTablesAre, KeyParts DEF KeysOf, Table, RouteTables, UserTables
<1>5. /\ Owner("user_id", "users") \in KeysOf("user_roles")
      /\ Owner("user_id", "users") \in KeysOf("user_permissions")
  BY <1>2, RouteTablesAre, KeyParts DEF KeysOf, Table, RouteTables, HeldTables
<1>6. /\ Choice("theme_id", "themes") \in KeysOf("tenants")
      /\ Choice("email_domain_id", "email_domains") \in KeysOf("tenants")
  BY <1>2, RouteTablesAre, KeyParts DEF KeysOf, Table, RouteTables, TenantTables
<1>7. \A table \in {"clients", "tenants_oauth_providers", "users", "user_roles",
                    "user_permissions", "tenants"} : table \in Tables
  BY <1>2 DEF RouteTables
<1>8. QED
  BY <1>1, <1>3, <1>4, <1>5, <1>6, <1>7, OwnersAreThere, ChoicesAreThere DEF RowsBelong

-----------------------------------------------------------------------------
(* The default theme.                                                        *)
SingleDefault ==
    ~overlapped =>
        /\ \A one, other \in DefaultThemes : one = other
        /\ \A a, b \in Actors :
            TouchesDefault(work[a].plan) /\ TouchesDefault(work[b].plan) => a = b
        /\ \A a \in Actors : Rests(work[a].plan, DefaultThemes)

Defaults(rows) == {row \in rows["themes"] : row["default"] = TRUE}

\* What a commit that leaves the default alone makes of a theme.
Image(row, rows, write) ==
    IF write.delete = {} THEN Changed(row, "themes", write.update)
    ELSE Forgets(Changed(row, "themes", write.update), "themes",
                 Cascade(Applied(rows, write), write.delete))

LEMMA ThemesHere == "themes" \in Tables
  BY RoutesAssumption DEF RouteTables

LEMMA HarmlessDefaults ==
    ASSUME NEW rows, NEW write, RowsShaped(rows), Tame(write), ~Touches(write),
           NEW row \in Defaults(After(rows, write))
    PROVE  \E old \in Defaults(rows) : row = Image(old, rows, write) /\ row.id = old.id
<1> DEFINE applied == Applied(rows, write)
           dead == Cascade(applied, write.delete)
<1>1. row \in After(rows, write)["themes"] /\ row["default"] = TRUE
  BY DEF Defaults
<1>2. PICK mid \in applied["themes"] :
        /\ row = IF write.delete = {} THEN mid ELSE Forgets(mid, "themes", dead)
        /\ mid["default"] = TRUE /\ row.id = mid.id
  <2>1. CASE write.delete = {}
    BY <1>1, <2>1 DEF After
  <2>2. CASE write.delete # {}
    <3>1. row \in Without(applied, dead)["themes"]
      BY <1>1, <2>2 DEF After
    <3> HIDE DEF applied, dead
    <3>2. PICK mid \in applied["themes"] :
            <<"themes", mid.id>> \notin dead /\ row = Forgets(mid, "themes", dead)
      BY <3>1, ThemesHere, WithoutRow
    <3>3. Shaped("themes", mid)
      BY ShapedApplied, ThemesHere DEF RowsShaped, applied
    <3>4. row.id = mid.id /\ row["default"] = mid["default"]
      BY <3>2, <3>3, ForgetsWhat, ThemesHere, KeyColumnsAre DEF Shaped
    <3>5. QED
      BY <1>1, <2>2, <3>2, <3>4
  <2>3. QED
    BY <2>1, <2>2
<1>3. ~Inserted(mid, "themes", write)
  BY <1>2 DEF Inserted, Touches
<1>4. PICK old \in rows["themes"] : mid = Changed(old, "themes", write.update)
  <2>1. Remains(mid, rows, "themes", write)
    BY <1>3, AppliedRow, ThemesHere
  <2>2. QED
    BY <2>1 DEF Remains
<1>5. Shaped("themes", old)
  BY ThemesHere DEF RowsShaped
<1>6. mid.id = old.id /\ mid["default"] = old["default"]
  BY <1>4, <1>5, ChangedIs DEF Shaped, Tame, Touches
<1>7. old \in Defaults(rows)
  BY <1>2, <1>6 DEF Defaults
<1>8. row = Image(old, rows, write)
  BY <1>2, <1>4 DEF Image
<1>9. QED
  BY <1>2, <1>6, <1>7, <1>8

\* Where there was no default, a new one is the only one.
LEMMA MakingDefaults ==
    ASSUME NEW rows, NEW id, Defaults(rows) = {},
           NEW one \in Defaults(After(rows, Insert({<<"themes", [id |-> id, default |-> TRUE]>>}))),
           NEW other \in Defaults(After(rows, Insert({<<"themes", [id |-> id, default |-> TRUE]>>})))
    PROVE  one = other
<1> DEFINE new == [id |-> id, default |-> TRUE]
           write == Insert({<<"themes", new>>})
<1>1. After(rows, write) = Applied(rows, write)
  BY DEF After, Insert, NoChange
<1>2. ASSUME NEW row \in Defaults(Applied(rows, write))
      PROVE  row = new
  <2>1. write.update = {} /\ write.insert = {<<"themes", new>>}
    BY DEF Insert, NoChange
  <2> HIDE DEF write
  <2>2. row \in Applied(rows, write)["themes"] /\ row["default"] = TRUE
    BY <1>2 DEF Defaults
  <2>3. CASE Inserted(row, "themes", write)
    BY <2>1, <2>3 DEF Inserted
  <2>4. CASE Remains(row, rows, "themes", write)
    <3>1. PICK old \in rows["themes"] : row = Changed(old, "themes", write.update)
      BY <2>4 DEF Remains
    <3>2. row = old
      BY <2>1, <3>1 DEF Changed
    <3>3. QED
      BY <2>2, <3>2 DEF Defaults
  <2>5. QED
    BY <2>2, <2>3, <2>4, AppliedRow, ThemesHere
<1>3. QED
  BY <1>1, <1>2

\* What one UPDATE of the column makes of the themes.
LEMMA UpdatedTheme ==
    ASSUME NEW rows, NEW id, NEW value \in BOOLEAN, RowsShaped(rows),
           NEW row \in Defaults(After(rows, Update("themes", id, [default |-> value])))
    PROVE  /\ row \in Applied(rows, Update("themes", id, [default |-> value]))["themes"]
           /\ \/ row.id = id /\ value = TRUE
              \/ row \in Defaults(rows) /\ row.id # id
<1> DEFINE columns == [default |-> value]
           write == Update("themes", id, columns)
           update == [table |-> "themes", id |-> id, columns |-> columns]
<1>1. write.update = {update} /\ write.insert = {} /\ write.delete = {}
  BY DEF Update, NoChange
<1>2. "id" \notin DOMAIN update.columns /\ update.columns = columns
  OBVIOUS
<1>3. update.table = "themes" /\ update.id = id
  OBVIOUS
<1>4. DOMAIN columns = {"default"} /\ columns["default"] = value
  OBVIOUS
<1> HIDE DEF write, update, columns
<1>5. row \in Applied(rows, write)["themes"] /\ row["default"] = TRUE
  BY <1>1 DEF Defaults, After, write, columns
<1>6. ~Inserted(row, "themes", write)
  BY <1>1 DEF Inserted
<1>7. PICK old \in rows["themes"] : row = Changed(old, "themes", write.update)
  <2>1. Remains(row, rows, "themes", write)
    BY <1>5, <1>6, AppliedRow, ThemesHere
  <2>2. QED
    BY <2>1 DEF Remains
<1>8. Shaped("themes", old)
  BY ThemesHere DEF RowsShaped
<1>9. row.id = old.id
  BY <1>1, <1>2, <1>7, <1>8, ChangedIs DEF Shaped
<1>10. CASE old.id = id
  <2>1. {u \in write.update : u.table = "themes" /\ u.id = old.id} = {update}
    BY <1>1, <1>3, <1>10
  <2>2. (CHOOSE u \in {update} : TRUE) = update
    OBVIOUS
  <2>3. row = Over(update.columns, old)
    BY <1>7, <2>1, <2>2 DEF Changed
  <2>4. row["default"] = value
    BY <1>2, <1>4, <2>3 DEF Over
  <2>5. QED
    BY <1>5, <1>9, <1>10, <2>4 DEF write, columns
<1>11. CASE old.id # id
  <2>1. {u \in write.update : u.table = "themes" /\ u.id = old.id} = {}
    BY <1>1, <1>3, <1>11
  <2>2. row = old
    BY <1>7, <2>1 DEF Changed
  <2>3. QED
    BY <1>5, <1>11, <2>2 DEF Defaults, write, columns
<1>12. QED
  BY <1>10, <1>11

\* Where there was no default, the theme that is set is the only one: it is
\* the only row with its id.
LEMMA SettingDefaults ==
    ASSUME NEW rows, NEW id, RowsShaped(rows), Defaults(rows) = {},
           Accepts(rows, Update("themes", id, [default |-> TRUE])),
           NEW one \in Defaults(After(rows, Update("themes", id, [default |-> TRUE]))),
           NEW other \in Defaults(After(rows, Update("themes", id, [default |-> TRUE])))
    PROVE  one = other
<1> DEFINE write == Update("themes", id, [default |-> TRUE])
           applied == Applied(rows, write)
<1>1. /\ one \in applied["themes"] /\ one.id = id
      /\ other \in applied["themes"] /\ other.id = id
  BY UpdatedTheme
<1>2. "themes" \in Written(write)
  BY DEF Written, Update, NoChange
<1>3. Tame(write)
  BY DEF Tame, Update, NoChange
<1>4. UniqueHolds(applied, Written(write))
  BY DEF Accepts
<1>5. RowsShaped(applied)
  BY <1>3, ShapedApplied
<1> HIDE DEF write, applied
<1>6. Distinct(applied["themes"], {"id"})
  BY <1>2, <1>4 DEF UniqueHolds
<1>7. one.id # NULL
  BY <1>1, <1>5, ThemesHere DEF RowsShaped, Shaped
<1>8. QED
  BY <1>1, <1>6, <1>7 DEF Distinct

\* Where all defaults had one id, none is left once it is unset.
LEMMA MovingDefaults ==
    ASSUME NEW rows, NEW id, RowsShaped(rows), \A row \in Defaults(rows) : row.id = id
    PROVE  Defaults(After(rows, Update("themes", id, [default |-> FALSE]))) = {}
  BY UpdatedTheme

-----------------------------------------------------------------------------
LEMMA SingleAtFirst ==
    ASSUME AllInit
    PROVE  SingleDefault
<1>1. DefaultThemes = {}
  BY ThemesHere DEF AllInit, Init, DefaultThemes, Where
<1>2. \A a \in Actors : work[a].plan = <<>>
  BY DEF AllInit, Init, Idle
<1>3. QED
  BY <1>1, <1>2, TouchesOne DEF SingleDefault, Rests

LEMMA SinglePrepares ==
    ASSUME Orderly, SingleDefault, NEW a \in Actors, Prepares(a)
    PROVE  SingleDefault'
<1> SUFFICES ASSUME ~overlapped' PROVE SingleDefault'
  BY DEF SingleDefault
<1>1. PICK plan, stage, row :
        /\ ProceedWith(a, stage, plan, row) /\ db' = db
        /\ ~overlapped => Rests(plan, DefaultThemes)
  BY DEF Prepares, Draws
<1>2. /\ ~overlapped
      /\ TouchesDefault(plan) => \A b \in Actors \ {a} : ~TouchesDefault(work[b].plan)
  BY <1>1 DEF ProceedWith
<1>3. work'[a].plan = plan /\ \A b \in Actors \ {a} : work'[b] = work[b]
  BY <1>1 DEF ProceedWith, Orderly
<1>4. DefaultThemes' = DefaultThemes
  BY <1>1 DEF DefaultThemes, Where
<1>5. \A b \in Actors : Rests(work'[b].plan, DefaultThemes)
  BY <1>1, <1>2, <1>3 DEF SingleDefault
<1>6. \A b, c \in Actors :
        TouchesDefault(work'[b].plan) /\ TouchesDefault(work'[c].plan) => b = c
  BY <1>2, <1>3 DEF SingleDefault
<1>7. \A one, other \in DefaultThemes : one = other
  BY <1>2 DEF SingleDefault
<1>8. QED
  BY <1>4, <1>5, <1>6, <1>7 DEF SingleDefault

LEMMA SingleQuits ==
    ASSUME Orderly, SingleDefault, NEW a \in Actors, Quits(a)
    PROVE  SingleDefault'
<1>1. DefaultThemes' = DefaultThemes /\ overlapped' = overlapped
  BY DEF Quits, DefaultThemes, Where
<1>2. work'[a].plan = <<>> /\ \A b \in Actors \ {a} : work'[b] = work[b]
  BY DEF Quits, Orderly, Idle
<1>3. ~TouchesDefault(work'[a].plan)
  BY <1>2, TouchesOne
<1>4. QED
  BY <1>1, <1>2, <1>3 DEF SingleDefault, Rests

LEMMA SinglePerforms ==
    ASSUME Orderly, SingleDefault, NEW a \in Actors, Performs(a)
    PROVE  SingleDefault'
<1> SUFFICES ASSUME ~overlapped' PROVE SingleDefault'
  BY DEF SingleDefault
<1> DEFINE plan == work[a].plan
           write == Head(plan)
           next == Done([work[a] EXCEPT !.plan = Tail(@)])
<1>1. ~overlapped /\ db' = After(db, write) /\ Accepts(db, write) /\ plan # <<>>
  BY DEF Performs
<1>2. work'[a].plan = Tail(plan) /\ \A b \in Actors \ {a} : work'[b] = work[b]
  <2>1. next.plan = Tail(plan)
    BY DoneIs DEF Orderly
  <2>2. work' = [work EXCEPT ![a] = next]
    BY DEF Performs
  <2> HIDE DEF next
  <2>3. QED
    BY <2>1, <2>2 DEF Orderly
<1>3. DefaultThemes' = Defaults(After(db, write)) /\ DefaultThemes = Defaults(db)
  BY <1>1 DEF DefaultThemes, Where, Defaults
<1>4. /\ \A one, other \in DefaultThemes : one = other
      /\ \A b, c \in Actors :
            TouchesDefault(work[b].plan) /\ TouchesDefault(work[c].plan) => b = c
      /\ \A b \in Actors : Rests(work[b].plan, DefaultThemes)
  BY <1>1 DEF SingleDefault
<1>5. RowsShaped(db) /\ Formed(plan)
  BY DEF Orderly
<1> HIDE DEF plan, write
<1>6. CASE ~TouchesDefault(plan)
  <2>1. Tame(write) /\ ~Touches(write) /\ ~TouchesDefault(Tail(plan))
    <3>1. ASSUME NEW one, plan = <<one>>, Tame(one)
          PROVE  Tame(write) /\ ~Touches(write) /\ ~TouchesDefault(Tail(plan))
      <4>1. Head(plan) = one /\ Tail(plan) = <<>>
        BY <3>1
      <4>2. QED
        BY <1>6, <3>1, <4>1, TouchesOne DEF write
    <3>2. ASSUME NEW one, NEW two, plan = <<one, two>>, Tame(one)
          PROVE  Tame(write) /\ ~Touches(write) /\ ~TouchesDefault(Tail(plan))
      <4>1. Head(plan) = one /\ Tail(plan) = <<two>>
        BY <3>2
      <4>2. QED
        BY <1>6, <3>2, <4>1, TouchesOne DEF write
    <3>3. QED
      BY <1>1, <1>5, <3>1, <3>2 DEF Formed
  <2>2. \A row \in DefaultThemes' : \E old \in DefaultThemes :
            row = Image(old, db, write) /\ row.id = old.id
    BY <1>3, <1>5, <2>1, HarmlessDefaults
  <2>3. \A one, other \in DefaultThemes' : one = other
    BY <1>4, <2>2
  <2>4. \A b \in Actors : Rests(work'[b].plan, DefaultThemes')
    <3>1. ~TouchesDefault(work'[a].plan)
      BY <1>2, <2>1
    <3>2. \A b \in Actors \ {a} : Rests(work[b].plan, DefaultThemes')
      BY <1>4, <2>2 DEF Rests
    <3>3. QED
      BY <1>2, <3>1, <3>2 DEF Rests
  <2>5. \A b, c \in Actors :
            TouchesDefault(work'[b].plan) /\ TouchesDefault(work'[c].plan) => b = c
    BY <1>2, <1>4, <2>1
  <2>6. QED
    BY <2>3, <2>4, <2>5 DEF SingleDefault
<1>7. CASE TouchesDefault(plan)
  <2>1. \A b \in Actors \ {a} : ~TouchesDefault(work'[b].plan)
    BY <1>2, <1>4, <1>7 DEF plan
  <2>2. \/ (Making(plan) \/ Setting(plan)) /\ DefaultThemes = {}
        \/ \E old : Moving(plan, old) /\ \A row \in DefaultThemes : row.id = old
    BY <1>4, <1>7 DEF Rests, plan
  <2>3. SUFFICES /\ \A one, other \in DefaultThemes' : one = other
                 /\ Rests(Tail(plan), DefaultThemes')
    BY <1>2, <2>1 DEF SingleDefault, Rests
  <2>4. CASE Making(plan) /\ DefaultThemes = {}
    <3>1. PICK id : plan = <<Insert({<<"themes", [id |-> id, default |-> TRUE]>>})>>
      BY <2>4 DEF Making
    <3>2. /\ write = Insert({<<"themes", [id |-> id, default |-> TRUE]>>})
          /\ Tail(plan) = <<>>
      BY <3>1 DEF write
    <3>3. \A one, other \in DefaultThemes' : one = other
      BY <1>3, <2>4, <3>2, MakingDefaults
    <3>4. QED
      BY <3>2, <3>3, TouchesOne DEF Rests
  <2>5. CASE Setting(plan) /\ DefaultThemes = {}
    <3>1. PICK id : plan = <<Update("themes", id, [default |-> TRUE])>>
      BY <2>5 DEF Setting
    <3>2. write = Update("themes", id, [default |-> TRUE]) /\ Tail(plan) = <<>>
      BY <3>1 DEF write
    <3>3. \A one, other \in DefaultThemes' : one = other
      BY <1>1, <1>3, <1>5, <2>5, <3>2, SettingDefaults
    <3>4. QED
      BY <3>2, <3>3, TouchesOne DEF Rests
  <2>6. ASSUME NEW old, Moving(plan, old), \A row \in DefaultThemes : row.id = old
        PROVE  /\ \A one, other \in DefaultThemes' : one = other
               /\ Rests(Tail(plan), DefaultThemes')
    <3>1. PICK id : plan = <<Update("themes", old, [default |-> FALSE]),
                             Update("themes", id, [default |-> TRUE])>>
      BY <2>6 DEF Moving
    <3>2. /\ write = Update("themes", old, [default |-> FALSE])
          /\ Tail(plan) = <<Update("themes", id, [default |-> TRUE])>>
      BY <3>1 DEF write
    <3>3. DefaultThemes' = {}
      BY <1>3, <1>5, <2>6, <3>2, MovingDefaults
    <3>4. Setting(Tail(plan))
      BY <3>2 DEF Setting
    <3>5. QED
      BY <3>3, <3>4 DEF Rests
  <2>7. QED
    BY <2>2, <2>4, <2>5, <2>6
<1>8. QED
  BY <1>6, <1>7

\* The two invariants together: what a plan for the default rests on is needed to
\* know what the plans are.
LEMMA OrderKept == Spec => [](Orderly /\ SingleDefault)
<1>1. AllInit => Orderly /\ SingleDefault
  BY OrderlyAtFirst, SingleAtFirst
<1>2. Orderly /\ SingleDefault /\ [AllNext]_allVars => (Orderly /\ SingleDefault)'
  <2> SUFFICES ASSUME Orderly, SingleDefault, [AllNext]_allVars
               PROVE  (Orderly /\ SingleDefault)'
    OBVIOUS
  <2>1. CASE AllNext
    <3> PICK a \in Actors : Administrate(a) \/ Commands(a)
      BY <2>1 DEF AllNext
    <3>1. Prepares(a) \/ Performs(a) \/ Quits(a)
      BY Steps DEF Orderly, SingleDefault
    <3>2. QED
      BY <3>1, OrderlyStep, SinglePrepares, SinglePerforms, SingleQuits
  <2>2. CASE UNCHANGED allVars
    BY <2>2 DEF allVars, vars, Orderly, SingleDefault, DefaultThemes, Where
  <2>3. QED
    BY <2>1, <2>2
<1>3. QED
  BY <1>1, <1>2, PTL DEF Spec

\* Every reference leads to a row, however the commits of the commands and of
\* the routes interleave: what is written is checked against what is there, and
\* what is deleted takes along or is forgotten by all that pointed to it.
THEOREM NothingDangles == Spec => []RowsBelong
<1>1. Orderly => RowsBelong
  BY OrderlyRows
<1>2. QED
  BY <1>1, OrderKept, PTL

\* There are never two default themes, unless two plans for the default have
\* been under way at once.
THEOREM OneDefaultAtMost == Spec => []OneDefaultTheme
<1>1. SingleDefault => OneDefaultTheme
  <2> SUFFICES ASSUME \A one, other \in DefaultThemes : one = other
               PROVE  Cardinality(DefaultThemes) <= 1
    BY DEF SingleDefault, OneDefaultTheme
  <2>1. CASE DefaultThemes = {}
    BY <2>1, FS_EmptySet
  <2>2. CASE DefaultThemes # {}
    <3>1. PICK theme : DefaultThemes = {theme}
      BY <2>2
    <3>2. Cardinality({theme}) = 1
      BY FS_Singleton
    <3>3. QED
      BY <3>1, <3>2
  <2>3. QED
    BY <2>1, <2>2
<1>2. QED
  BY <1>1, OrderKept, PTL

-----------------------------------------------------------------------------
(* Starts.  What a start has seen to by the stage that it has reached, and   *)
(* what it relies on that others have done.                                  *)

\* The columns that no UPDATE changes and no deletion forgets.
Fixed(table) ==
    CASE table = "tenants" -> {"default"}
      [] table = "clients" -> {"client_id", "tenant_id"}
      [] table = "email_templates" -> {"type"}
      [] table = "permissions" -> {"codename"}
      [] table = "roles" -> {"name"}
      [] table = "roles_permissions" -> {"role_id"}
      [] table = "user_permissions" -> {"user_id"}
      [] OTHER -> {}
\* What a row of a table always says.
Fits(table, row) ==
    /\ Fixed(table) \subseteq DOMAIN row
    /\ table = "tenants" => row.id \in Nat
    /\ table = "email_templates" => row.id = row.type
    /\ table = "permissions" => row.codename = "fief_admin"
    /\ table = "roles" => row.name = "Administrator"
    /\ table = "user_permissions" => row.id[1] = row.user_id
RowsFit(rows) == \A table \in Tables : \A row \in rows[table] : Fits(table, row)
\* Every role has its permission, from the commit that made it, until a role or
\* a permission is deleted.
Linked(rows, broken) == broken = {} =>
    \A role \in rows["roles"] : \E link \in rows["roles_permissions"] : link.role_id = role.id

Adds(write, table) == \E new \in write.insert : new[1] = table
Deletable ==
    {"tenants", "clients", "oauth_providers", "user_fields", "admin_api_key", "users",
     "roles", "permissions", "user_roles", "user_permissions"}
Steady(write) ==
    /\ \A new \in write.insert :
        /\ Fits(new[1], new[2])
        /\ new[1] = "roles" =>
            \E link \in write.insert :
                link[1] = "roles_permissions" /\ link[2].role_id = new[2].id
    /\ \A u \in write.update : DOMAIN u.columns \cap Fixed(u.table) = {}
    /\ \A gone \in write.delete : gone[1] \in Deletable
\* The writes of a start only add rows.
Mild(write) ==
    /\ write.delete = {} /\ write.unlink = {}
    /\ \A u \in write.update : DOMAIN u.columns = {}
Gives(write, user) ==
    \E new \in write.insert : new[1] = "user_permissions" /\ new[2].user_id = user

Writes(plan) == {plan[i] : i \in DOMAIN plan}
Final(plan) == plan[Len(plan)]
StartStages ==
    {"start", "tenant", "client", "role", "theme", "templates", "adminRole", "user",
     "granted", "up"}
TaskOK(task) ==
    /\ DOMAIN task = {"stage", "plan", "row"}
    /\ \A write \in Writes(task.plan) :
        /\ Steady(write)
        /\ task.stage \in StartStages => Mild(write)
        /\ task.stage # "user" => ~Adds(write, "users")
        /\ task.stage \notin RoleStages => ~Adds(write, "permissions")
    /\ task.stage \in RoleStages /\ task.plan # <<>> =>
        Adds(Final(task.plan), "roles") /\ ~Adds(Final(task.plan), "permissions")
    /\ task.stage = "user" /\ task.plan # <<>> =>
        /\ Len(task.plan) = 1
        /\ \A new \in task.plan[1].insert : new[1] = "users" => new[2].id = task.row

\* Between the two commits of the role, and between those of the main user.
Midway(task) == task.stage \in RoleStages /\ Len(task.plan) = 1
Granting(task) ==
    \/ task.stage = "user" /\ task.plan = <<>>
    \/ task.stage = "granted" /\ task.plan # <<>>
GrantingTo(task, user) ==
    \/ task.stage = "user" /\ task.plan = <<>> /\ task.row = user
    \/ task.stage = "granted" /\ task.plan # <<>> /\ Gives(Final(task.plan), user)
Quiet(task) == ~Midway(task) /\ ~Granting(task)

Halves(rows, tasks, broken) ==
    rows["permissions"] # {} /\ "role" \notin broken =>
        rows["roles"] # {} \/ \E b \in Actors : Midway(tasks[b])
Held(rows, user) == \E held \in rows["user_permissions"] : held.user_id = user
Grants(rows, tasks, broken) ==
    broken = {} => \A user \in rows["users"] :
        Held(rows, user.id) \/ \E b \in Actors : GrantingTo(tasks[b], user.id)

\* The tenants there are or may be, and those that the main client may have: no
\* other tenant ever gets their ids.
MayBe(row, table, rows, tasks) ==
    \/ row \in rows[table]
    \/ \E b \in Actors : \E write \in Writes(tasks[b].plan) : Inserted(row, table, write)
Chosen(i, rows, tasks) ==
    \/ \E b \in Actors : tasks[b].stage = "tenant" /\ tasks[b].row = i
    \/ \E c : MayBe(c, "clients", rows, tasks) /\ c.client_id = Main /\ c.tenant_id = i
Tenancy(rows, tasks, last) ==
    /\ \A t : MayBe(t, "tenants", rows, tasks) => t.id \in Nat /\ t.id <= last
    /\ \A t, s : MayBe(t, "tenants", rows, tasks) /\ MayBe(s, "tenants", rows, tasks)
                    /\ t.id = s.id => t.default = s.default
    /\ \A i : Chosen(i, rows, tasks) =>
        /\ i \in Nat /\ i <= last
        /\ \A t : MayBe(t, "tenants", rows, tasks) /\ t.id = i => t.default = TRUE

PastClient == {"role", "theme", "templates", "adminRole", "user", "granted", "up"}
PastRole == PastClient \ {"role"}
PastTheme == PastRole \ {"theme"}
PastUser == {"granted", "up"}
\* Either it is there, or the first commit that is left will make it.
HasClient(rows) == \E c \in rows["clients"] : c.client_id = Main
HasTemplates(rows) == TemplateTypes \subseteq Ids(rows, "email_templates")
MakesClient(plan) ==
    plan # <<>> /\ \E new \in plan[1].insert : new[1] = "clients" /\ new[2].client_id = Main
MakesTheme(plan) ==
    plan # <<>> /\ \E new \in plan[1].insert : new[1] = "themes" /\ new[2]["default"] = TRUE
Makes(plan, table) == plan # <<>> /\ Adds(plan[1], table)
Mends(rows, task) ==
    /\ task.stage \in PastClient => HasClient(rows)
    /\ task.stage = "client" => HasClient(rows) \/ MakesClient(task.plan)
    /\ task.stage \in PastRole => rows["permissions"] # {}
    /\ task.stage = "role" => rows["permissions"] # {} \/ Makes(task.plan, "permissions")
    /\ task.stage \in PastTheme => Defaults(rows) # {} /\ HasTemplates(rows)
    /\ task.stage = "theme" => Defaults(rows) # {} \/ MakesTheme(task.plan)
    /\ task.stage \in PastUser => rows["users"] # {}
    /\ task.stage = "user" => rows["users"] # {} \/ Makes(task.plan, "users")
    /\ task.stage = "up" => rows["admin_api_key"] # {} \/ Makes(task.plan, "admin_api_key")
Calm(rows, tasks, starters) ==
    \A a \in starters :
        /\ \A b \in Actors \ {a} : Quiet(tasks[b])
        /\ Mends(rows, tasks[a])

Progress ==
    /\ RowsFit(db) /\ Linked(db, torn)
    /\ calm \subseteq Actors
    /\ \A a \in Actors : TaskOK(work[a])
    /\ Tenancy(db, work, issued["tenants"])
    /\ Halves(db, work, torn) /\ Grants(db, work, torn)
    /\ Calm(db, work, calm)

-----------------------------------------------------------------------------
(* What a commit makes of rows.                                              *)

\* A row after a commit and the one that it was.
Alike(table, row, old) ==
    /\ row.id = old.id /\ DOMAIN old \subseteq DOMAIN row
    /\ \A c \in Fixed(table) : row[c] = old[c]
\* A row that was there, or is new.
Origin(old, rows, table, write) == old \in rows[table] \/ Inserted(old, table, write)

LEMMA FixedAre ==
    /\ Fixed("tenants") = {"default"}
    /\ Fixed("clients") = {"client_id", "tenant_id"}
    /\ Fixed("email_templates") = {"type"}
    /\ Fixed("permissions") = {"codename"}
    /\ Fixed("roles") = {"name"}
    /\ Fixed("roles_permissions") = {"role_id"}
    /\ Fixed("user_permissions") = {"user_id"}
    /\ \A table : table \notin {"tenants", "clients", "email_templates", "permissions", "roles",
                                "roles_permissions", "user_permissions"} => Fixed(table) = {}
  BY DEF Fixed

LEMMA FixedStays ==
    ASSUME NEW table \in Tables, NEW c \in Fixed(table)
    PROVE  c # "id" /\ \A key \in KeysOf(table) : key.column = c => key.onDelete = "CASCADE"
<1> USE RouteTablesAre, KeyParts, FixedAre DEF KeysOf, Table, Plain
<1>1. CASE table = "tenants"
  BY <1>1 DEF TenantTables
<1>2. CASE table = "clients"
  BY <1>2 DEF ClientTables
<1>3. CASE table = "email_templates"
  BY <1>3 DEF MailTables
<1>4. CASE table = "permissions" \/ table = "roles"
  BY <1>4 DEF RightTables
<1>5. CASE table = "roles_permissions"
  BY <1>5 DEF TenantTables
<1>6. CASE table = "user_permissions"
  BY <1>6 DEF HeldTables
<1> HIDE RouteTablesAre, KeyParts DEF KeysOf, Table, Plain
<1>7. QED
  BY <1>1, <1>2, <1>3, <1>4, <1>5, <1>6

LEMMA AlikeFits ==
    ASSUME NEW table, NEW row, NEW old, Alike(table, row, old), Fits(table, old)
    PROVE  Fits(table, row)
  BY FixedAre DEF Alike, Fits

LEMMA ChangedAlike ==
    ASSUME NEW table, NEW old, NEW write, Shaped(table, old), Fits(table, old),
           Tame(write), Steady(write)
    PROVE  Alike(table, Changed(old, table, write.update), old)
<1>1. "id" \in DOMAIN old /\ Fixed(table) \subseteq DOMAIN old
  BY DEF Shaped, Fits
<1>2. \A u \in write.update : "id" \notin DOMAIN u.columns
  BY DEF Tame
<1>3. \A u \in write.update : DOMAIN u.columns \cap Fixed(u.table) = {}
  BY DEF Steady
<1>4. ASSUME NEW c \in Fixed(table)
      PROVE  Changed(old, table, write.update)[c] = old[c]
  BY <1>1, <1>2, <1>3, ChangedIs
<1>5. QED
  BY <1>1, <1>2, <1>4, ChangedIs DEF Alike

LEMMA ForgetsAlike ==
    ASSUME NEW table \in Tables, NEW old, NEW dead, Shaped(table, old), Fits(table, old)
    PROVE  Alike(table, Forgets(old, table, dead), old)
<1>1. "id" \in DOMAIN old /\ Fixed(table) \subseteq DOMAIN old
  BY DEF Shaped, Fits
<1>2. ASSUME NEW c \in Fixed(table)
      PROVE  Forgets(old, table, dead)[c] = old[c]
  <2>1. CASE c \in KeyColumns(table)
    <3>1. PICK key \in KeysOf(table) : key.column = c
      BY <2>1 DEF KeyColumns
    <3>2. key.onDelete = "CASCADE"
      BY <3>1, FixedStays
    <3>3. key.column \in DOMAIN old
      BY <1>1, <3>1
    <3>4. Forgets(old, table, dead)[key.column] =
            IF key.onDelete = "SET_NULL" /\ <<key.to, old[key.column]>> \in dead
            THEN NULL ELSE old[key.column]
      BY <3>3, ForgetsWhat
    <3>5. QED
      BY <3>1, <3>2, <3>4
  <2>2. CASE c \notin KeyColumns(table)
    BY <1>1, <2>2, ForgetsWhat
  <2>3. QED
    BY <2>1, <2>2
<1>3. QED
  BY <1>1, <1>2, ForgetsWhat, IdIsNoKey DEF Alike

LEMMA AlikeIsTransitive ==
    ASSUME NEW table, NEW row, NEW mid, NEW old, Alike(table, row, mid), Alike(table, mid, old)
    PROVE  Alike(table, row, old)
  BY DEF Alike

LEMMA AppliedAlike ==
    ASSUME NEW rows, NEW write, RowsShaped(rows), RowsFit(rows), Tame(write), Steady(write),
           NEW table \in Tables, NEW row \in Applied(rows, write)[table]
    PROVE  \E old : Origin(old, rows, table, write) /\ Alike(table, row, old)
<1>1. CASE Inserted(row, table, write)
  BY <1>1 DEF Origin, Alike
<1>2. CASE Remains(row, rows, table, write)
  <2>1. PICK old \in rows[table] : row = Changed(old, table, write.update)
    BY <1>2 DEF Remains
  <2>2. Shaped(table, old) /\ Fits(table, old)
    BY DEF RowsShaped, RowsFit
  <2>3. Alike(table, row, old)
    BY <2>1, <2>2, ChangedAlike
  <2>4. QED
    BY <2>3 DEF Origin
<1>3. QED
  BY <1>1, <1>2, AppliedRow

LEMMA OriginFits ==
    ASSUME NEW rows, NEW write, RowsShaped(rows), RowsFit(rows), Tame(write), Steady(write),
           NEW table \in Tables, NEW old, Origin(old, rows, table, write)
    PROVE  Fits(table, old) /\ Shaped(table, old)
  BY DEF Origin, RowsFit, RowsShaped, Inserted, Steady, Tame

LEMMA FitApplied ==
    ASSUME NEW rows, NEW write, RowsShaped(rows), RowsFit(rows), Tame(write), Steady(write)
    PROVE  RowsFit(Applied(rows, write)) /\ RowsShaped(Applied(rows, write))
<1>1. ASSUME NEW table \in Tables, NEW row \in Applied(rows, write)[table]
      PROVE  Fits(table, row)
  <2>1. PICK old : Origin(old, rows, table, write) /\ Alike(table, row, old)
    BY AppliedAlike
  <2>2. Fits(table, old)
    BY <2>1, OriginFits
  <2>3. QED
    BY <2>1, <2>2, AlikeFits
<1>2. QED
  BY <1>1, ShapedApplied DEF RowsFit

\* Where a row comes from that is there after a commit.
LEMMA AfterAlike ==
    ASSUME NEW rows, NEW write, RowsShaped(rows), RowsFit(rows), Tame(write), Steady(write),
           NEW table \in Tables, NEW row \in After(rows, write)[table]
    PROVE  \E old : /\ Origin(old, rows, table, write) /\ Alike(table, row, old)
                    /\ write.delete # {} =>
                        <<table, old.id>> \notin Cascade(Applied(rows, write), write.delete)
<1> DEFINE applied == Applied(rows, write)
           dead == Cascade(applied, write.delete)
<1>1. CASE write.delete = {}
  <2>1. row \in applied[table]
    BY <1>1 DEF After
  <2>2. QED
    BY <1>1, <2>1, AppliedAlike
<1>2. CASE write.delete # {}
  <2>1. row \in Without(applied, dead)[table]
    BY <1>2 DEF After
  <2>2. RowsFit(applied) /\ RowsShaped(applied)
    BY FitApplied
  <2>3. PICK mid \in applied[table] : <<table, mid.id>> \notin dead /\ row = Forgets(mid, table, dead)
    <3> HIDE DEF applied, dead
    <3>1. QED
      BY <2>1, WithoutRow
  <2>4. Alike(table, row, mid)
    BY <2>2, <2>3, ForgetsAlike DEF RowsFit, RowsShaped
  <2>5. PICK old : Origin(old, rows, table, write) /\ Alike(table, mid, old)
    BY AppliedAlike
  <2>6. Alike(table, row, old) /\ mid.id = old.id
    BY <2>4, <2>5, AlikeIsTransitive DEF Alike
  <2>7. QED
    BY <2>3, <2>5, <2>6
<1>3. QED
  BY <1>1, <1>2

\* What becomes of a row that is not deleted.
LEMMA AfterKeeps ==
    ASSUME NEW rows, NEW write, RowsShaped(rows), RowsFit(rows), Tame(write), Steady(write),
           NEW table \in Tables, NEW old, Origin(old, rows, table, write),
           table # "tenants_oauth_providers",
           write.delete # {} =>
                <<table, old.id>> \notin Cascade(Applied(rows, write), write.delete)
    PROVE  \E row \in After(rows, write)[table] : Alike(table, row, old)
<1> DEFINE applied == Applied(rows, write)
           dead == Cascade(applied, write.delete)
<1>1. PICK mid \in applied[table] : Alike(table, mid, old)
  <2>1. CASE Inserted(old, table, write)
    <3>1. old \in applied[table]
      BY <2>1 DEF Inserted, Applied
    <3>2. QED
      BY <3>1 DEF Alike
  <2>2. CASE old \in rows[table]
    <3>1. <<table, old.id>> \notin write.unlink
      BY DEF Tame
    <3>2. Changed(old, table, write.update) \in applied[table]
      BY <2>2, <3>1, AppliedKeeps
    <3>3. Alike(table, Changed(old, table, write.update), old)
      BY <2>2, ChangedAlike DEF RowsFit, RowsShaped
    <3>4. QED
      BY <3>2, <3>3
  <2>3. QED
    BY <2>1, <2>2 DEF Origin
<1>2. CASE write.delete = {}
  BY <1>1, <1>2 DEF After
<1>3. CASE write.delete # {}
  <2>1. After(rows, write) = Without(applied, dead)
    BY <1>3 DEF After
  <2>2. RowsFit(applied) /\ RowsShaped(applied)
    BY FitApplied
  <2>3. <<table, mid.id>> \notin dead
    BY <1>1, <1>3 DEF Alike
  <2> HIDE DEF applied, dead
  <2>4. Forgets(mid, table, dead) \in Without(applied, dead)[table]
    BY <2>3, WithoutKeeps
  <2>5. Alike(table, Forgets(mid, table, dead), mid)
    BY <2>2, ForgetsAlike DEF RowsFit, RowsShaped
  <2>6. QED
    BY <1>1, <2>1, <2>4, <2>5, AlikeIsTransitive
<1>4. QED
  BY <1>2, <1>3

\* A mild commit keeps every column of every row.
Same(row, old) == DOMAIN old \subseteq DOMAIN row /\ \A c \in DOMAIN old : row[c] = old[c]
LEMMA MildKeeps ==
    ASSUME NEW rows, NEW write, RowsShaped(rows), Tame(write), Mild(write),
           NEW table \in Tables, NEW old, Origin(old, rows, table, write)
    PROVE  \E row \in After(rows, write)[table] : Same(row, old)
<1>1. After(rows, write) = Applied(rows, write)
  BY DEF Mild, After
<1>2. CASE Inserted(old, table, write)
  <2>1. old \in Applied(rows, write)[table]
    BY <1>2 DEF Inserted, Applied
  <2>2. QED
    BY <1>1, <2>1 DEF Same
<1>3. CASE old \in rows[table]
  <2>1. Changed(old, table, write.update) \in Applied(rows, write)[table]
    BY <1>3, AppliedKeeps DEF Mild
  <2>2. "id" \in DOMAIN old
    BY <1>3 DEF RowsShaped, Shaped
  <2>3. \A u \in write.update : "id" \notin DOMAIN u.columns /\ DOMAIN u.columns = {}
    BY DEF Mild
  <2>4. Same(Changed(old, table, write.update), old)
    BY <2>2, <2>3, ChangedIs DEF Same
  <2>5. QED
    BY <1>1, <2>1, <2>4
<1>4. QED
  BY <1>2, <1>3 DEF Origin

-----------------------------------------------------------------------------
(* What a deletion takes along.                                              *)

LEMMA FollowsOne ==
    ASSUME NEW rows, NEW dead, NEW y \in Follows(rows, dead), y \notin dead
    PROVE  \E t \in Tables : \E row \in rows[t] : \E key \in KeysOf(t) :
                y = <<t, row.id>> /\ <<key.to, row[key.column]>> \in dead
<1>1. PICK t \in Tables : \E row \in rows[t] : y = <<t, row.id>> /\
        \E key \in KeysOf(t) :
            key.onDelete = "CASCADE" /\ <<key.to, row[key.column]>> \in dead
  BY Zenon DEF Follows
<1>2. QED
  BY <1>1

LEMMA CascadeFrom ==
    ASSUME NEW rows, NEW dead, NEW table, NEW id, <<table, id>> \in Cascade(rows, dead)
    PROVE  \/ <<table, id>> \in dead
           \/ \E row \in rows[table] : row.id = id /\ \E key \in KeysOf(table) :
                <<key.to, row[key.column]>> \in Cascade(rows, dead)
<1> DEFINE x == <<table, id>>
           last == Cardinality(Tables)
           Led(y, s) == \/ y \in dead
                        \/ \E t \in Tables : \E row \in rows[t] : \E key \in KeysOf(t) :
                            y = <<t, row.id>> /\ <<key.to, row[key.column]>> \in s
<1>1. PICK f : Rounds(rows, dead, f, last) /\ Cascade(rows, dead) = f[last]
  <2>1. \E f : Rounds(rows, dead, f, last)
    BY ManyTables, RoundsExist
  <2>2. QED
    BY <2>1 DEF Cascade, Rounds
<1> DEFINE T == {n \in Nat : n <= last => \A y \in f[n] : Led(y, f[n])}
<1>2. 0 \in T
  BY <1>1, ManyTables DEF Rounds
<1>3. ASSUME NEW n \in T PROVE n + 1 \in T
  <2>1. n \in Nat /\ (n <= last => \A y \in f[n] : Led(y, f[n]))
    OBVIOUS
  <2>2. SUFFICES ASSUME n + 1 <= last, NEW y \in f[n + 1] PROVE Led(y, f[n + 1])
    BY <2>1
  <2>3. n <= last
    BY <2>1, <2>2, ManyTables
  <2>4. f[n + 1] = Follows(rows, f[n])
    BY <1>1, <2>1, <2>2, ManyTables DEF Rounds
  <2>5. f[n] \subseteq f[n + 1]
    BY <2>4 DEF Follows
  <2>6. CASE y \in f[n]
    <3>1. Led(y, f[n])
      BY <2>1, <2>3, <2>6
    <3>2. QED
      BY <2>5, <3>1
  <2>7. CASE y \notin f[n]
    <3>1. \E t \in Tables : \E row \in rows[t] : \E key \in KeysOf(t) :
            y = <<t, row.id>> /\ <<key.to, row[key.column]>> \in f[n]
      BY <2>4, <2>7, FollowsOne
    <3>2. QED
      BY <2>5, <3>1
  <2>8. QED
    BY <2>6, <2>7
<1>4. T = Nat
  <2>1. T \in SUBSET Nat
    OBVIOUS
  <2> HIDE DEF T
  <2>2. QED
    BY <1>2, <1>3, <2>1, Induct
<1>5. \A y \in f[last] : Led(y, f[last])
  <2>1. last \in T /\ last <= last
    <3> HIDE DEF T
    <3>1. QED
      BY <1>4, ManyTables
  <2>2. QED
    BY <2>1
<1>6. Led(x, Cascade(rows, dead))
  BY <1>1, <1>5
<1>7. CASE x \in dead
  BY <1>7
<1>8. CASE x \notin dead
  <2>1. PICK t \in Tables : \E row \in rows[t] : \E key \in KeysOf(t) :
            x = <<t, row.id>> /\ <<key.to, row[key.column]>> \in Cascade(rows, dead)
    BY <1>6, <1>8
  <2>2. t = table /\ \A i : <<table, id>> = <<table, i>> => i = id
    BY <2>1
  <2>3. QED
    BY <2>1, <2>2
<1>9. QED
  BY <1>7, <1>8

\* What a commit does not take away, by its deletions.
LEMMA LosesWhat ==
    ASSUME NEW write
    PROVE  /\ "role" \notin Loses(write) => \A gone \in write.delete : gone[1] # "roles"
           /\ Loses(write) = {} => \A gone \in write.delete :
                gone[1] \notin {"roles", "permissions", "user_permissions"}
<1>1. /\ DOMAIN Needs = {"role", "admin"}
      /\ Needs["role"] = {"roles"} /\ Needs["admin"] = {"permissions", "user_permissions"}
  BY DEF Needs
<1>2. ASSUME NEW part \in {"role", "admin"}, part \notin Loses(write)
      PROVE  \A gone \in write.delete : gone[1] \notin Needs[part]
  BY <1>1, <1>2 DEF Loses
<1>3. QED
  BY <1>1, <1>2

\* Roles go with nothing else, their links with roles and permissions.
LEMMA RolesStay ==
    ASSUME NEW rows, NEW dead, \A gone \in dead : gone[1] # "roles", NEW id
    PROVE  <<"roles", id>> \notin Cascade(rows, dead)
<1> SUFFICES ASSUME <<"roles", id>> \in Cascade(rows, dead) PROVE FALSE
  OBVIOUS
<1>1. <<"roles", id>> \notin dead
  OBVIOUS
<1>2. KeysOf("roles") = {}
  BY KeyColumnsAre DEF KeyColumns
<1>3. QED
  BY <1>1, <1>2, CascadeFrom

LEMMA RightsStay ==
    ASSUME NEW rows, NEW dead, NEW id,
           \A gone \in dead : gone[1] \in Deletable \ {"roles", "permissions"}
    PROVE  /\ <<"permissions", id>> \notin Cascade(rows, dead)
           /\ <<"roles", id>> \notin Cascade(rows, dead)
           /\ <<"roles_permissions", id>> \notin Cascade(rows, dead)
<1>1. ASSUME NEW table \in {"permissions", "roles_permissions"}, NEW i
      PROVE  <<table, i>> \notin dead
  BY <1>1 DEF Deletable
<1>2. KeysOf("permissions") = {}
  BY KeyColumnsAre DEF KeyColumns
<1>3. ASSUME NEW i PROVE <<"permissions", i>> \notin Cascade(rows, dead)
  <2> SUFFICES ASSUME <<"permissions", i>> \in Cascade(rows, dead) PROVE FALSE
    OBVIOUS
  <2>1. <<"permissions", i>> \notin dead
    BY <1>1
  <2>2. QED
    BY <1>2, <2>1, CascadeFrom
<1>4. ASSUME NEW i PROVE <<"roles", i>> \notin Cascade(rows, dead)
  BY RolesStay
<1>5. \A key \in KeysOf("roles_permissions") : key.to \in {"permissions", "roles"}
  BY RouteTablesAre, KeyParts DEF KeysOf, Table, TenantTables
<1>6. <<"roles_permissions", id>> \notin Cascade(rows, dead)
  <2> SUFFICES ASSUME <<"roles_permissions", id>> \in Cascade(rows, dead) PROVE FALSE
    OBVIOUS
  <2>1. \E row \in rows["roles_permissions"] : \E key \in KeysOf("roles_permissions") :
            <<key.to, row[key.column]>> \in Cascade(rows, dead)
    BY <1>1, CascadeFrom
  <2>2. QED
    BY <1>3, <1>4, <1>5, <2>1
<1>7. QED
  BY <1>3, <1>4, <1>6

LEMMA HeldHere == "user_permissions" \in Tables
  BY RoutesAssumption DEF RouteTables

\* A right goes with its user only, where no deletion is about rights.
LEMMA HeldGoWithUser ==
    ASSUME NEW rows, NEW dead, RowsFit(rows),
           \A gone \in dead :
                gone[1] \in Deletable \ {"roles", "permissions", "user_permissions"},
           NEW held \in rows["user_permissions"],
           <<"user_permissions", held.id>> \in Cascade(rows, dead)
    PROVE  <<"users", held.user_id>> \in Cascade(rows, dead)
<1>1. PICK row \in rows["user_permissions"] :
        row.id = held.id /\ \E key \in KeysOf("user_permissions") :
            <<key.to, row[key.column]>> \in Cascade(rows, dead)
  <2>1. <<"user_permissions", held.id>> \notin dead
    OBVIOUS
  <2>2. \A i : <<"user_permissions", i>> \in Cascade(rows, dead) =>
            \/ <<"user_permissions", i>> \in dead
            \/ \E row \in rows["user_permissions"] :
                    row.id = i /\ \E key \in KeysOf("user_permissions") :
                        <<key.to, row[key.column]>> \in Cascade(rows, dead)
    BY CascadeFrom, Zenon
  <2>3. QED
    BY <2>1, <2>2, Zenon
<1>2. PICK key \in KeysOf("user_permissions") :
        <<key.to, row[key.column]>> \in Cascade(rows, dead)
  BY <1>1
<1>3. row.user_id = held.user_id
  <2>1. Fits("user_permissions", row) /\ Fits("user_permissions", held)
    BY HeldHere DEF RowsFit
  <2>2. QED
    BY <1>1, <2>1 DEF Fits
<1>4. key.to # "permissions" /\ key.to # "roles"
  BY <1>2, RightsStay
<1>5. \A k \in KeysOf("user_permissions") :
        \/ k.to = "permissions" \/ k.to = "roles" \/ (k.to = "users" /\ k.column = "user_id")
  BY RouteTablesAre, KeyParts DEF KeysOf, Table, HeldTables
<1>6. key.to = "users" /\ key.column = "user_id"
  BY <1>4, <1>5
<1>7. QED
  BY <1>2, <1>3, <1>6

-----------------------------------------------------------------------------
(* Plans and what is left of them.                                           *)

LEMMA WritesAre ==
    ASSUME NEW one, NEW two
    PROVE  Writes(<<>>) = {} /\ Writes(<<one>>) = {one} /\ Writes(<<one, two>>) = {one, two}
  BY DEF Writes

LEMMA PlanParts ==
    ASSUME NEW plan, Formed(plan), plan # <<>>
    PROVE  /\ Head(plan) = plan[1] /\ Head(plan) \in Writes(plan)
           /\ Writes(Tail(plan)) \subseteq Writes(plan)
           /\ Final(plan) \in Writes(plan)
           /\ Len(plan) = 1 => Tail(plan) = <<>> /\ Final(plan) = Head(plan)
           /\ Len(plan) # 1 => /\ Len(Tail(plan)) = 1 /\ Tail(plan) # <<>>
                               /\ Final(Tail(plan)) = Final(plan)
<1>1. CASE \E one : plan = <<one>>
  <2> PICK one : plan = <<one>>
    BY <1>1
  <2>1. Head(plan) = one /\ Tail(plan) = <<>> /\ Len(plan) = 1 /\ plan[1] = one
    OBVIOUS
  <2>2. Final(plan) = one
    BY <2>1 DEF Final
  <2>3. QED
    BY <2>1, <2>2, WritesAre
<1>2. CASE \E one, two : plan = <<one, two>>
  <2> PICK one, two : plan = <<one, two>>
    BY <1>2
  <2>1. /\ Head(plan) = one /\ Tail(plan) = <<two>> /\ Len(plan) = 2
        /\ plan[1] = one /\ plan[2] = two
    OBVIOUS
  <2>2. Len(<<two>>) = 1 /\ <<two>>[1] = two /\ <<two>> # <<>>
    OBVIOUS
  <2>3. Final(plan) = two /\ Final(Tail(plan)) = two
    BY <2>1, <2>2 DEF Final
  <2>4. Writes(plan) = {one, two} /\ Writes(Tail(plan)) = {two}
    BY <2>1, WritesAre
  <2>5. QED
    BY <2>1, <2>2, <2>3, <2>4
<1>3. QED
  BY <1>1, <1>2 DEF Formed

LEMMA EmptyPlan == Len(<<>>) = 0 /\ Formed(<<>>)
  BY DEF Formed

LEMMA IdleIs ==
    /\ Idle.stage = "idle" /\ Idle.plan = <<>> /\ Quiet(Idle) /\ TaskOK(Idle)
    /\ \A user : ~GrantingTo(Idle, user)
    /\ Writes(Idle.plan) = {}
<1>1. Idle.stage = "idle" /\ Idle.plan = <<>> /\ DOMAIN Idle = {"stage", "plan", "row"}
  BY DEF Idle
<1>2. Writes(Idle.plan) = {}
  BY <1>1, WritesAre
<1> HIDE DEF Idle
<1>3. QED
  BY <1>1, <1>2 DEF Quiet, Midway, Granting, GrantingTo, TaskOK, RoleStages

LEMMA GrantingIs ==
    ASSUME NEW task, NEW user, GrantingTo(task, user)
    PROVE  Granting(task)
  BY DEF GrantingTo, Granting

\* What an actor goes on with after a commit: the rest of its plan at the same
\* stage, or nothing at all.
Onward(task) == Done([task EXCEPT !.plan = Tail(@)])
LEMMA AfterCommit ==
    ASSUME NEW task, DOMAIN task = {"stage", "plan", "row"}
    PROVE  \/ Onward(task) = Idle /\ task.stage = "request"
           \/ /\ DOMAIN Onward(task) = {"stage", "plan", "row"}
              /\ Onward(task).stage = task.stage /\ Onward(task).row = task.row
              /\ Onward(task).plan = Tail(task.plan)
<1> DEFINE next == [task EXCEPT !.plan = Tail(@)]
<1>1. /\ DOMAIN next = DOMAIN task /\ next.plan = Tail(task.plan)
      /\ next.stage = task.stage /\ next.row = task.row
  OBVIOUS
<1> HIDE DEF next
<1>2. Onward(task) = IF next.stage = "request" /\ next.plan = <<>> THEN Idle ELSE next
  BY DEF Onward, Done, next
<1>3. QED
  BY <1>1, <1>2

LEMMA TaskGoesOn ==
    ASSUME NEW task, TaskOK(task), Formed(task.plan), task.plan # <<>>
    PROVE  /\ TaskOK(Onward(task))
           /\ Writes(Onward(task).plan) \subseteq Writes(task.plan)
<1>1. CASE Onward(task) = Idle
  BY <1>1, IdleIs
<1>2. CASE Onward(task) # Idle
  <2> DEFINE next == Onward(task)
  <2>1. /\ DOMAIN next = {"stage", "plan", "row"}
        /\ next.stage = task.stage /\ next.row = task.row /\ next.plan = Tail(task.plan)
    BY <1>2, AfterCommit DEF TaskOK
  <2> HIDE DEF next
  <2>2. /\ Writes(next.plan) \subseteq Writes(task.plan)
        /\ next.plan # <<>> => Len(task.plan) # 1 /\ Final(next.plan) = Final(task.plan)
    BY <2>1, PlanParts
  <2>3. TaskOK(next)
    BY <2>1, <2>2 DEF TaskOK
  <2>4. QED
    BY <2>2, <2>3 DEF next
<1>3. QED
  BY <1>1, <1>2

-----------------------------------------------------------------------------
(* A commit, seen from what it leaves.                                       *)

LEMMA AppliedHas ==
    ASSUME NEW rows, NEW write, RowsShaped(rows), RowsFit(rows), Tame(write), Steady(write),
           NEW table \in Tables, NEW old, Origin(old, rows, table, write),
           table # "tenants_oauth_providers"
    PROVE  \E mid \in Applied(rows, write)[table] : Alike(table, mid, old)
<1>1. CASE Inserted(old, table, write)
  <2>1. old \in Applied(rows, write)[table]
    BY <1>1 DEF Inserted, Applied
  <2>2. QED
    BY <2>1 DEF Alike
<1>2. CASE old \in rows[table]
  <2>1. <<table, old.id>> \notin write.unlink
    BY DEF Tame
  <2>2. Changed(old, table, write.update) \in Applied(rows, write)[table]
    BY <1>2, <2>1, AppliedKeeps
  <2>3. Alike(table, Changed(old, table, write.update), old)
    BY <1>2, ChangedAlike DEF RowsFit, RowsShaped
  <2>4. QED
    BY <2>2, <2>3
<1>3. QED
  BY <1>1, <1>2 DEF Origin

\* Roles and their links stay, and rights as long as their user, where no
\* deletion is about them.
LEMMA RolesKept ==
    ASSUME NEW rows, NEW write, RowsShaped(rows), RowsFit(rows), Tame(write), Steady(write),
           "role" \notin Loses(write), NEW old, Origin(old, rows, "roles", write)
    PROVE  \E row \in After(rows, write)["roles"] : Alike("roles", row, old)
<1>1. "roles" \in Tables
  BY RoutesAssumption DEF RouteTables
<1>2. \A gone \in write.delete : gone[1] # "roles"
  BY LosesWhat
<1>3. <<"roles", old.id>> \notin Cascade(Applied(rows, write), write.delete)
  BY <1>2, RolesStay
<1>4. QED
  BY <1>1, <1>3, AfterKeeps

LEMMA LinksKept ==
    ASSUME NEW rows, NEW write, RowsShaped(rows), RowsFit(rows), Tame(write), Steady(write),
           Loses(write) = {}, NEW old, Origin(old, rows, "roles_permissions", write)
    PROVE  \E row \in After(rows, write)["roles_permissions"] :
                Alike("roles_permissions", row, old)
<1>1. "roles_permissions" \in Tables
  BY RoutesAssumption DEF RouteTables
<1>2. \A gone \in write.delete : gone[1] \in Deletable \ {"roles", "permissions"}
  BY LosesWhat DEF Steady
<1>3. <<"roles_permissions", old.id>> \notin Cascade(Applied(rows, write), write.delete)
  BY <1>2, RightsStay
<1>4. QED
  BY <1>1, <1>3, AfterKeeps

LEMMA HeldKept ==
    ASSUME NEW rows, NEW write, RowsShaped(rows), RowsFit(rows), Tame(write), Steady(write),
           Loses(write) = {}, NEW old, Origin(old, rows, "user_permissions", write),
           write.delete # {} =>
            <<"users", old.user_id>> \notin Cascade(Applied(rows, write), write.delete)
    PROVE  Held(After(rows, write), old.user_id)
<1> DEFINE applied == Applied(rows, write)
           dead == Cascade(applied, write.delete)
<1>1. PICK mid \in applied["user_permissions"] : Alike("user_permissions", mid, old)
  BY HeldHere, AppliedHas
<1>2. mid.id = old.id /\ mid.user_id = old.user_id
  BY <1>1, FixedAre DEF Alike
<1>3. write.delete # {} => <<"user_permissions", old.id>> \notin dead
  <2> SUFFICES ASSUME write.delete # {}, <<"user_permissions", mid.id>> \in dead PROVE FALSE
    BY <1>2
  <2>1. \A gone \in write.delete :
            gone[1] \in Deletable \ {"roles", "permissions", "user_permissions"}
    BY LosesWhat DEF Steady
  <2>2. RowsFit(applied)
    BY FitApplied
  <2> HIDE DEF applied
  <2>3. <<"users", mid.user_id>> \in dead
    BY <1>1, <2>1, <2>2, HeldGoWithUser
  <2>4. QED
    BY <1>2, <2>3 DEF applied
<1>4. PICK row \in After(rows, write)["user_permissions"] : Alike("user_permissions", row, old)
  BY <1>3, HeldHere, AfterKeeps
<1>5. row.user_id = old.user_id
  BY <1>4, FixedAre DEF Alike
<1>6. QED
  BY <1>4, <1>5 DEF Held

LEMMA CommitFits ==
    ASSUME NEW rows, NEW write, RowsShaped(rows), RowsFit(rows), Tame(write), Steady(write)
    PROVE  RowsFit(After(rows, write))
<1> SUFFICES ASSUME NEW table \in Tables, NEW row \in After(rows, write)[table]
             PROVE  Fits(table, row)
  BY DEF RowsFit
<1>1. PICK old : Origin(old, rows, table, write) /\ Alike(table, row, old)
  BY AfterAlike
<1>2. QED
  BY <1>1, OriginFits, AlikeFits

LEMMA RoleTablesHere == {"permissions", "roles", "roles_permissions"} \subseteq Tables
  BY RoutesAssumption DEF RouteTables

LEMMA CommitLinks ==
    ASSUME NEW rows, NEW write, NEW broken, RowsShaped(rows), RowsFit(rows),
           Linked(rows, broken), Tame(write), Steady(write)
    PROVE  Linked(After(rows, write), broken \cup Loses(write))
<1> SUFFICES ASSUME broken = {}, Loses(write) = {}, NEW role \in After(rows, write)["roles"]
             PROVE  \E link \in After(rows, write)["roles_permissions"] : link.role_id = role.id
  BY DEF Linked
<1>1. PICK old : Origin(old, rows, "roles", write) /\ Alike("roles", role, old)
  BY RoleTablesHere, AfterAlike
<1>2. PICK link : Origin(link, rows, "roles_permissions", write) /\ link.role_id = old.id
  <2>1. CASE old \in rows["roles"]
    BY <2>1 DEF Linked, Origin
  <2>2. CASE Inserted(old, "roles", write)
    <3>1. PICK new \in write.insert : new[1] = "roles" /\ new[2] = old
      BY <2>2 DEF Inserted
    <3>2. PICK new2 \in write.insert : new2[1] = "roles_permissions" /\ new2[2].role_id = old.id
      BY <3>1 DEF Steady
    <3>3. Inserted(new2[2], "roles_permissions", write)
      BY <3>2 DEF Inserted
    <3>4. QED
      BY <3>2, <3>3 DEF Origin
  <2>3. QED
    BY <1>1, <2>1, <2>2 DEF Origin
<1>3. PICK row \in After(rows, write)["roles_permissions"] : Alike("roles_permissions", row, link)
  BY <1>2, LinksKept
<1>4. row.role_id = link.role_id /\ role.id = old.id
  BY <1>1, <1>3, FixedAre DEF Alike
<1>5. QED
  BY <1>2, <1>3, <1>4

-----------------------------------------------------------------------------
(* A commit and the halves, the grants, the tenants and what is mended.      *)

\* What an actor's commit does to its tasks: the others keep theirs.
Replaced(tasks, new, a, task) ==
    new[a] = task /\ \A b \in Actors \ {a} : new[b] = tasks[b]
\* An actor's first commit, and where it is found.
FirstOf(task, write) ==
    TaskOK(task) /\ Formed(task.plan) /\ task.plan # <<>> /\ write = Head(task.plan)

LEMMA CommitIs ==
    ASSUME NEW task, NEW write, FirstOf(task, write)
    PROVE  /\ Tame(write) /\ Steady(write) /\ write \in Writes(task.plan)
           /\ write = task.plan[1]
           /\ task.stage \in StartStages => Mild(write)
           /\ task.stage # "user" => ~Adds(write, "users")
           /\ task.stage \notin RoleStages => ~Adds(write, "permissions")
<1>1. Tame(write)
  BY FirstAndRest DEF FirstOf
<1>2. write \in Writes(task.plan) /\ write = task.plan[1]
  BY PlanParts DEF FirstOf
<1>3. QED
  BY <1>1, <1>2 DEF FirstOf, TaskOK

LEMMA CommitHalves ==
    ASSUME NEW rows, NEW tasks, NEW broken, NEW a \in Actors, NEW write, NEW new,
           RowsShaped(rows), RowsFit(rows), Halves(rows, tasks, broken),
           FirstOf(tasks[a], write), Replaced(tasks, new, a, Onward(tasks[a]))
    PROVE  Halves(After(rows, write), new, broken \cup Loses(write))
<1> DEFINE task == tasks[a]
<1> SUFFICES ASSUME "role" \notin broken, "role" \notin Loses(write),
                    NEW row \in After(rows, write)["permissions"]
             PROVE  \/ After(rows, write)["roles"] # {}
                    \/ \E b \in Actors : Midway(new[b])
  BY DEF Halves
<1>1. Tame(write) /\ Steady(write)
  BY CommitIs
<1>2. PICK old : Origin(old, rows, "permissions", write)
  <2>1. \E old : Origin(old, rows, "permissions", write) /\ Alike("permissions", row, old)
    BY <1>1, RoleTablesHere, AfterAlike
  <2>2. QED
    BY <2>1
<1>3. CASE Inserted(old, "permissions", write)
  <2>1. Adds(write, "permissions")
    BY <1>3 DEF Inserted, Adds
  <2>2. task.stage \in RoleStages
    BY <2>1, CommitIs
  <2>3. write # Final(task.plan)
    BY <2>1, <2>2 DEF FirstOf, TaskOK
  <2>4. Len(Tail(task.plan)) = 1
    BY <2>3, PlanParts DEF FirstOf
  <2>5. Onward(task).stage = task.stage /\ Onward(task).plan = Tail(task.plan)
    BY <2>2, AfterCommit DEF FirstOf, TaskOK, RoleStages
  <2>6. Midway(new[a])
    BY <2>2, <2>4, <2>5 DEF Midway, Replaced
  <2>7. QED
    BY <2>6
<1>4. CASE old \in rows["permissions"]
  <2>1. rows["roles"] # {} \/ \E b \in Actors : Midway(tasks[b])
    BY <1>4 DEF Halves
  <2>2. ASSUME NEW role, Origin(role, rows, "roles", write)
        PROVE  After(rows, write)["roles"] # {}
    BY <1>1, <2>2, RolesKept
  <2>3. CASE rows["roles"] # {}
    BY <2>2, <2>3 DEF Origin
  <2>4. ASSUME NEW b \in Actors, Midway(tasks[b]), b # a
        PROVE  Midway(new[b])
    BY <2>4 DEF Replaced
  <2>5. CASE Midway(task)
    <3>1. Len(task.plan) = 1 /\ task.stage \in RoleStages
      BY <2>5 DEF Midway
    <3>2. write = Final(task.plan)
      BY <3>1, PlanParts DEF FirstOf
    <3>3. Adds(write, "roles")
      BY <3>1, <3>2 DEF FirstOf, TaskOK
    <3>4. \E role : Origin(role, rows, "roles", write)
      BY <3>3 DEF Adds, Origin, Inserted
    <3>5. QED
      BY <2>2, <3>4
  <2>6. QED
    BY <2>1, <2>3, <2>4, <2>5
<1>5. QED
  BY <1>2, <1>3, <1>4 DEF Origin

LEMMA UsersHere == "users" \in Tables
  BY RoutesAssumption DEF RouteTables

LEMMA CommitGrants ==
    ASSUME NEW rows, NEW tasks, NEW broken, NEW a \in Actors, NEW write, NEW new,
           RowsShaped(rows), RowsFit(rows), Grants(rows, tasks, broken),
           FirstOf(tasks[a], write), Replaced(tasks, new, a, Onward(tasks[a]))
    PROVE  Grants(After(rows, write), new, broken \cup Loses(write))
<1> DEFINE task == tasks[a]
<1> SUFFICES ASSUME broken = {}, Loses(write) = {}, NEW user \in After(rows, write)["users"]
             PROVE  \/ Held(After(rows, write), user.id)
                    \/ \E b \in Actors : GrantingTo(new[b], user.id)
  BY DEF Grants
<1>1. Tame(write) /\ Steady(write)
  BY CommitIs
<1>2. PICK old : /\ Origin(old, rows, "users", write) /\ Alike("users", user, old)
                 /\ write.delete # {} =>
                    <<"users", old.id>> \notin Cascade(Applied(rows, write), write.delete)
  BY <1>1, UsersHere, AfterAlike
<1>3. user.id = old.id
  BY <1>2 DEF Alike
<1>4. task.stage # "request" =>
        Onward(task).stage = task.stage /\ Onward(task).plan = Tail(task.plan)
        /\ Onward(task).row = task.row
  BY AfterCommit DEF FirstOf, TaskOK
<1>5. ASSUME NEW held, Origin(held, rows, "user_permissions", write), held.user_id = old.id
      PROVE  Held(After(rows, write), user.id)
  BY <1>1, <1>2, <1>3, <1>5, HeldKept
<1>6. CASE Inserted(old, "users", write)
  <2>1. PICK one \in write.insert : one[1] = "users" /\ one[2] = old
    BY <1>6 DEF Inserted
  <2>2. task.stage = "user"
    BY <2>1, CommitIs DEF Adds
  <2>3. Len(task.plan) = 1 /\ old.id = task.row
    BY <2>1, <2>2, CommitIs DEF FirstOf, TaskOK
  <2>4. Tail(task.plan) = <<>>
    BY <2>3, PlanParts DEF FirstOf
  <2>5. GrantingTo(new[a], user.id)
    BY <1>3, <1>4, <2>2, <2>3, <2>4 DEF GrantingTo, Replaced
  <2>6. QED
    BY <2>5
<1>7. CASE old \in rows["users"]
  <2>1. Held(rows, old.id) \/ \E b \in Actors : GrantingTo(tasks[b], old.id)
    BY <1>7 DEF Grants
  <2>2. CASE Held(rows, old.id)
    BY <1>5, <2>2 DEF Held, Origin
  <2>3. ASSUME NEW b \in Actors, b # a, GrantingTo(tasks[b], old.id)
        PROVE  GrantingTo(new[b], user.id)
    BY <1>3, <2>3 DEF Replaced
  <2>4. CASE GrantingTo(task, old.id)
    <3>1. task.stage = "granted" /\ Gives(Final(task.plan), old.id)
      BY <2>4 DEF GrantingTo, FirstOf
    <3>2. CASE Len(task.plan) = 1
      <4>1. Gives(write, old.id)
        BY <3>1, <3>2, PlanParts DEF FirstOf
      <4>2. PICK one \in write.insert : one[1] = "user_permissions" /\ one[2].user_id = old.id
        BY <4>1 DEF Gives
      <4>3. Origin(one[2], rows, "user_permissions", write)
        BY <4>2 DEF Origin, Inserted
      <4>4. QED
        BY <1>5, <4>2, <4>3
    <3>3. CASE Len(task.plan) # 1
      <4>1. Tail(task.plan) # <<>> /\ Final(Tail(task.plan)) = Final(task.plan)
        BY <3>3, PlanParts DEF FirstOf
      <4>2. GrantingTo(new[a], user.id)
        BY <1>3, <1>4, <3>1, <4>1 DEF GrantingTo, Replaced
      <4>3. QED
        BY <4>2
    <3>4. QED
      BY <3>2, <3>3
  <2>5. QED
    BY <2>1, <2>2, <2>3, <2>4
<1>8. QED
  BY <1>2, <1>6, <1>7 DEF Origin

-----------------------------------------------------------------------------
(* Tenants.                                                                  *)

\* What a step may do to the tenants and to what is chosen of them: it makes one
\* tenant with the next id at most, and the client's choice falls on a default one.
LEMMA TenancyStep ==
    ASSUME NEW rows, NEW tasks, NEW last \in Nat, NEW new, NEW later, NEW next \in Nat,
           NEW fresh, Tenancy(rows, tasks, last), last <= next,
           \A t : MayBe(t, "tenants", new, later) =>
                \/ \E old : /\ MayBe(old, "tenants", rows, tasks)
                            /\ t.id = old.id /\ t.default = old.default
                \/ t.id = next /\ next = last + 1 /\ t.default = fresh,
           \A i : Chosen(i, new, later) =>
                \/ Chosen(i, rows, tasks)
                \/ i = next /\ next = last + 1 /\ fresh = TRUE
                \/ \E t \in rows["tenants"] : t.id = i /\ t.default = TRUE
    PROVE  Tenancy(new, later, next)
<1>1. ASSUME NEW t, MayBe(t, "tenants", new, later)
      PROVE  t.id \in Nat /\ t.id <= next
  BY <1>1 DEF Tenancy
<1>2. ASSUME NEW t, NEW s, MayBe(t, "tenants", new, later), MayBe(s, "tenants", new, later),
             t.id = s.id
      PROVE  t.default = s.default
  BY <1>2 DEF Tenancy
<1>3. ASSUME NEW i, Chosen(i, new, later)
      PROVE  /\ i \in Nat /\ i <= next
             /\ \A t : MayBe(t, "tenants", new, later) /\ t.id = i => t.default = TRUE
  <2>1. CASE Chosen(i, rows, tasks)
    BY <2>1 DEF Tenancy
  <2>2. CASE i = next /\ next = last + 1 /\ fresh = TRUE
    <3>1. ASSUME NEW t, MayBe(t, "tenants", new, later), t.id = i PROVE t.default = TRUE
      <4>1. ASSUME NEW old, MayBe(old, "tenants", rows, tasks), t.id = old.id PROVE FALSE
        <5>1. old.id \in Nat /\ old.id <= last
          BY <4>1 DEF Tenancy
        <5>2. QED
          BY <2>2, <3>1, <4>1, <5>1
      <4>2. QED
        BY <2>2, <3>1, <4>1
    <3>2. i \in Nat /\ i <= next
      BY <2>2
    <3>3. QED
      BY <3>1, <3>2, Zenon
  <2>3. CASE \E t \in rows["tenants"] : t.id = i /\ t.default = TRUE
    <3>1. PICK one : MayBe(one, "tenants", rows, tasks) /\ one.id = i /\ one.default = TRUE
      BY <2>3 DEF MayBe
    <3>2. i \in Nat /\ i <= last
      BY <3>1 DEF Tenancy
    <3>3. \A t : MayBe(t, "tenants", rows, tasks) /\ t.id = i => t.default = TRUE
      BY <3>1 DEF Tenancy
    <3>4. QED
      BY <3>2, <3>3
  <2>4. QED
    BY <1>3, <2>1, <2>2, <2>3
<1>4. QED
  BY <1>1, <1>2, <1>3 DEF Tenancy

\* Nothing new: fewer tasks, or other rows that are like old ones.
LEMMA TenancyStays ==
    ASSUME NEW rows, NEW tasks, NEW last \in Nat, NEW new, NEW later, NEW next \in Nat,
           Tenancy(rows, tasks, last), last <= next,
           \A t : MayBe(t, "tenants", new, later) =>
                \E old : /\ MayBe(old, "tenants", rows, tasks)
                         /\ t.id = old.id /\ t.default = old.default,
           \A i : Chosen(i, new, later) => Chosen(i, rows, tasks)
    PROVE  Tenancy(new, later, next)
  BY TenancyStep

LEMMA TenantTablesHere == {"tenants", "clients"} \subseteq Tables
  BY RoutesAssumption DEF RouteTables

\* What actor a holds is part of what it held.
LEMMA MayBeLess ==
    ASSUME NEW rows, NEW tasks, NEW later, NEW a \in Actors, NEW task,
           Replaced(tasks, later, a, task), Writes(task.plan) \subseteq Writes(tasks[a].plan),
           NEW row, NEW table, MayBe(row, table, rows, later)
    PROVE  MayBe(row, table, rows, tasks)
  BY DEF MayBe, Replaced

LEMMA ChosenLess ==
    ASSUME NEW rows, NEW tasks, NEW later, NEW a \in Actors, NEW task,
           Replaced(tasks, later, a, task), Writes(task.plan) \subseteq Writes(tasks[a].plan),
           task.stage = "tenant" => tasks[a].stage = "tenant" /\ task.row = tasks[a].row,
           NEW i, Chosen(i, rows, later)
    PROVE  Chosen(i, rows, tasks)
<1>1. CASE \E b \in Actors : later[b].stage = "tenant" /\ later[b].row = i
  BY <1>1 DEF Chosen, Replaced
<1>2. CASE \E c : MayBe(c, "clients", rows, later) /\ c.client_id = Main /\ c.tenant_id = i
  BY <1>2, MayBeLess DEF Chosen
<1>3. QED
  BY <1>1, <1>2 DEF Chosen

\* After a commit, from what it was made of.
LEMMA MayBeAfter ==
    ASSUME NEW rows, NEW tasks, NEW a \in Actors, NEW write, NEW later,
           RowsShaped(rows), RowsFit(rows), FirstOf(tasks[a], write),
           NEW table \in {"tenants", "clients"}, NEW row,
           MayBe(row, table, After(rows, write), later),
           \A r : MayBe(r, table, rows, later) => MayBe(r, table, rows, tasks)
    PROVE  \E old : MayBe(old, table, rows, tasks) /\ Alike(table, row, old)
<1>1. Tame(write) /\ Steady(write) /\ write \in Writes(tasks[a].plan)
  BY CommitIs
<1>2. CASE row \in After(rows, write)[table]
  <2>1. PICK old : Origin(old, rows, table, write) /\ Alike(table, row, old)
    BY <1>1, <1>2, TenantTablesHere, AfterAlike
  <2>2. MayBe(old, table, rows, tasks)
    BY <1>1, <2>1 DEF MayBe, Origin
  <2>3. QED
    BY <2>1, <2>2
<1>3. CASE row \notin After(rows, write)[table]
  <2>1. MayBe(row, table, rows, later)
    BY <1>3 DEF MayBe
  <2>2. QED
    BY <2>1 DEF Alike
<1>4. QED
  BY <1>2, <1>3

LEMMA CommitTenancy ==
    ASSUME NEW rows, NEW tasks, NEW a \in Actors, NEW write, NEW later, NEW last \in Nat,
           RowsShaped(rows), RowsFit(rows), Tenancy(rows, tasks, last),
           FirstOf(tasks[a], write), Replaced(tasks, later, a, Onward(tasks[a]))
    PROVE  Tenancy(After(rows, write), later, last)
<1> DEFINE task == tasks[a]
<1>1. Writes(Onward(task).plan) \subseteq Writes(task.plan)
  BY TaskGoesOn DEF FirstOf
<1>2. Onward(task).stage = "tenant" => task.stage = "tenant" /\ Onward(task).row = task.row
  BY AfterCommit, IdleIs DEF FirstOf, TaskOK
<1>3. ASSUME NEW table \in {"tenants", "clients"}, NEW row,
             MayBe(row, table, After(rows, write), later)
      PROVE  \E old : MayBe(old, table, rows, tasks) /\ Alike(table, row, old)
  <2>1. \A r : MayBe(r, table, rows, later) => MayBe(r, table, rows, tasks)
    BY <1>1, MayBeLess
  <2>2. QED
    BY <1>3, <2>1, MayBeAfter
<1>4. ASSUME NEW t, MayBe(t, "tenants", After(rows, write), later)
      PROVE  \E old : /\ MayBe(old, "tenants", rows, tasks)
                      /\ t.id = old.id /\ t.default = old.default
  BY <1>3, <1>4, FixedAre DEF Alike
<1>5. ASSUME NEW i, Chosen(i, After(rows, write), later)
      PROVE  Chosen(i, rows, tasks)
  <2>1. CASE \E b \in Actors : later[b].stage = "tenant" /\ later[b].row = i
    BY <1>2, <2>1 DEF Chosen, Replaced
  <2>2. CASE \E c : /\ MayBe(c, "clients", After(rows, write), later)
                    /\ c.client_id = Main /\ c.tenant_id = i
    <3>1. PICK c : /\ MayBe(c, "clients", After(rows, write), later)
                   /\ c.client_id = Main /\ c.tenant_id = i
      BY <2>2
    <3>2. PICK old : MayBe(old, "clients", rows, tasks) /\ Alike("clients", c, old)
      BY <1>3, <3>1
    <3>3. old.client_id = Main /\ old.tenant_id = i
      BY <3>1, <3>2, FixedAre DEF Alike
    <3>4. QED
      BY <3>2, <3>3 DEF Chosen
  <2>3. QED
    BY <1>5, <2>1, <2>2 DEF Chosen
<1>6. QED
  BY <1>4, <1>5, TenancyStays

-----------------------------------------------------------------------------
(* A start's own commits keep what it has seen to.                           *)
LEMMA MendTablesHere ==
    {"clients", "permissions", "themes", "email_templates", "users", "admin_api_key"}
        \subseteq Tables
  BY RoutesAssumption DEF RouteTables

LEMMA CommitMends ==
    ASSUME NEW rows, NEW task, NEW write, RowsShaped(rows), RowsFit(rows), Mends(rows, task),
           FirstOf(task, write)
    PROVE  Mends(After(rows, write), Onward(task))
<1> DEFINE after == After(rows, write)
<1>1. Tame(write) /\ Steady(write) /\ write = task.plan[1] /\ task.plan # <<>>
  BY CommitIs DEF FirstOf
<1>2. CASE task.stage \notin StartStages
  <2>1. Onward(task).stage \notin StartStages
    BY <1>2, AfterCommit, IdleIs DEF FirstOf, TaskOK, StartStages
  <2>2. QED
    BY <2>1 DEF Mends, StartStages, PastClient, PastRole, PastTheme, PastUser
<1>3. CASE task.stage \in StartStages
  <2>1. Mild(write)
    BY <1>3, CommitIs
  <2>2. Onward(task).stage = task.stage
    BY <1>3, AfterCommit DEF FirstOf, TaskOK, StartStages
  <2>3. ASSUME NEW table \in Tables, NEW old, Origin(old, rows, table, write)
        PROVE  \E row \in after[table] : Same(row, old)
    BY <1>1, <2>1, <2>3, MildKeeps
  <2>4. ASSUME NEW table \in Tables, rows[table] # {} \/ Adds(write, table)
        PROVE  after[table] # {}
    <3>1. \E old : Origin(old, rows, table, write)
      BY <2>4 DEF Origin, Inserted, Adds
    <3>2. QED
      BY <2>3, <3>1
  <2>5. ASSUME NEW c, Origin(c, rows, "clients", write), c.client_id = Main
        PROVE  HasClient(after)
    <3>1. PICK row \in after["clients"] : Same(row, c)
      BY <2>3, <2>5, MendTablesHere
    <3>2. "client_id" \in DOMAIN c
      BY <1>1, <2>5, OriginFits, MendTablesHere, FixedAre DEF Fits
    <3>3. row.client_id = Main
      BY <2>5, <3>1, <3>2 DEF Same
    <3>4. QED
      BY <3>1, <3>3 DEF HasClient
  <2>6. ASSUME NEW t, Origin(t, rows, "themes", write), t["default"] = TRUE
        PROVE  Defaults(after) # {}
    <3>1. PICK row \in after["themes"] : Same(row, t)
      BY <2>3, <2>6, MendTablesHere
    <3>2. "default" \in DOMAIN t
      BY <1>1, <2>6, OriginFits, MendTablesHere DEF Shaped
    <3>3. row["default"] = TRUE
      BY <2>6, <3>1, <3>2 DEF Same
    <3>4. QED
      BY <3>1, <3>3 DEF Defaults
  <2>7. HasClient(rows) \/ MakesClient(task.plan) => HasClient(after)
    BY <1>1, <2>5 DEF HasClient, MakesClient, Origin, Inserted
  <2>8. Defaults(rows) # {} \/ MakesTheme(task.plan) => Defaults(after) # {}
    BY <1>1, <2>6 DEF Defaults, MakesTheme, Origin, Inserted
  <2>9. HasTemplates(rows) => HasTemplates(after)
    <3> SUFFICES ASSUME HasTemplates(rows), NEW type \in TemplateTypes
                 PROVE  type \in Ids(after, "email_templates")
      BY DEF HasTemplates
    <3>1. PICK t \in rows["email_templates"] : t.id = type
      BY DEF HasTemplates, Ids
    <3>2. PICK row \in after["email_templates"] : Same(row, t)
      BY <2>3, MendTablesHere DEF Origin
    <3>3. "id" \in DOMAIN t
      BY MendTablesHere DEF RowsShaped, Shaped
    <3>4. row.id = type
      BY <3>1, <3>2, <3>3 DEF Same
    <3>5. QED
      BY <3>2, <3>4 DEF Ids
  <2>10. /\ rows["permissions"] # {} \/ Makes(task.plan, "permissions") =>
                after["permissions"] # {}
         /\ rows["users"] # {} \/ Makes(task.plan, "users") => after["users"] # {}
         /\ rows["admin_api_key"] # {} \/ Makes(task.plan, "admin_api_key") =>
                after["admin_api_key"] # {}
    BY <1>1, <2>4, MendTablesHere DEF Makes
  <2> HIDE DEF after
  <2>11. QED
    BY <2>2, <2>7, <2>8, <2>9, <2>10 DEF Mends, after
<1>4. QED
  BY <1>2, <1>3

-----------------------------------------------------------------------------
(* Steps.  An actor commits, gives up, or draws up a plan.                   *)

LEMMA OrderlyIs ==
    ASSUME Orderly
    PROVE  /\ RowsShaped(db) /\ DOMAIN work = Actors /\ issued["tenants"] \in Nat
           /\ \A b \in Actors : Formed(work[b].plan)
  BY DEF Orderly, NumberedTables

LEMMA ProgressCommits ==
    ASSUME Orderly, Progress, NEW a \in Actors, Commit(a), db' # db \/ Accepts(db, Head(work[a].plan))
    PROVE  Progress'
<1> DEFINE write == Head(work[a].plan)
<1>1. /\ work[a].plan # <<>> /\ db' = After(db, write)
      /\ work' = [work EXCEPT ![a] = Done([work[a] EXCEPT !.plan = Tail(@)])]
      /\ calm' = calm \cap {a} /\ torn' = torn \cup Loses(write) /\ issued' = issued
  BY DEF Commit
<1>2. RowsShaped(db) /\ RowsFit(db) /\ Linked(db, torn) /\ issued["tenants"] \in Nat
  BY OrderlyIs DEF Progress
<1>3. FirstOf(work[a], write)
  BY <1>1, OrderlyIs DEF FirstOf, Progress
<1>4. Replaced(work, work', a, Onward(work[a]))
  BY <1>1, OrderlyIs DEF Replaced, Onward
<1> HIDE DEF write
<1>5. Tame(write) /\ Steady(write)
  BY <1>3, CommitIs
<1>6. RowsFit(db') /\ Linked(db', torn')
  BY <1>1, <1>2, <1>5, CommitFits, CommitLinks
<1>7. calm' \subseteq Actors
  BY <1>1
<1>8. \A b \in Actors : TaskOK(work'[b])
  BY <1>3, <1>4, TaskGoesOn DEF Replaced, Progress, FirstOf
<1>9. Tenancy(db', work', issued'["tenants"])
  BY <1>1, <1>2, <1>3, <1>4, CommitTenancy DEF Progress
<1>10. Halves(db', work', torn')
  BY <1>1, <1>2, <1>3, <1>4, CommitHalves DEF Progress
<1>11. Grants(db', work', torn')
  BY <1>1, <1>2, <1>3, <1>4, CommitGrants DEF Progress
<1>12. Calm(db', work', calm')
  <2> SUFFICES ASSUME a \in calm
               PROVE  /\ \A b \in Actors \ {a} : Quiet(work'[b])
                      /\ Mends(db', work'[a])
    BY <1>1 DEF Calm
  <2>1. Mends(db, work[a]) /\ \A b \in Actors \ {a} : Quiet(work[b])
    BY DEF Progress, Calm
  <2>2. Mends(After(db, write), Onward(work[a]))
    BY <1>2, <1>3, <2>1, CommitMends
  <2>3. QED
    BY <1>1, <1>4, <2>1, <2>2 DEF Replaced
<1>13. QED
  BY <1>6, <1>7, <1>8, <1>9, <1>10, <1>11, <1>12 DEF Progress

LEMMA ProgressEnds ==
    ASSUME Orderly, Progress, NEW a \in Actors, GiveUp(a), UNCHANGED <<db, issued>>
    PROVE  Progress'
<1>1. Replaced(work, work', a, Idle)
  BY OrderlyIs DEF GiveUp, Replaced
<1>2. RowsFit(db') /\ Linked(db', torn') /\ calm' \subseteq Actors
  BY DEF Progress, GiveUp, Linked
<1>3. \A b \in Actors : TaskOK(work'[b])
  BY <1>1, IdleIs DEF Replaced, Progress
<1>4. Tenancy(db', work', issued'["tenants"])
  <2>1. Writes(Idle.plan) \subseteq Writes(work[a].plan) /\ Idle.stage # "tenant"
    BY IdleIs
  <2>2. \A t : MayBe(t, "tenants", db', work') => MayBe(t, "tenants", db, work)
    BY <1>1, <2>1, MayBeLess
  <2>3. \A i : Chosen(i, db', work') => Chosen(i, db, work)
    BY <1>1, <2>1, ChosenLess
  <2>4. issued["tenants"] \in Nat /\ issued' = issued
    BY OrderlyIs
  <2>5. QED
    BY <2>2, <2>3, <2>4, TenancyStays DEF Progress
<1>5. /\ Midway(work[a]) => "role" \in torn'
      /\ \A user : GrantingTo(work[a], user) => "admin" \in torn'
      /\ torn \subseteq torn'
  <2>1. torn' = torn \cup HalfMade(a)
    BY DEF GiveUp
  <2>2. Midway(work[a]) => "role" \in HalfMade(a)
    BY DEF Midway, HalfMade, RoleStages
  <2>3. Granting(work[a]) => "admin" \in HalfMade(a)
    BY DEF Granting, HalfMade, RoleStages
  <2>4. QED
    BY <2>1, <2>2, <2>3, GrantingIs
<1>6. Halves(db', work', torn')
  BY <1>1, <1>5 DEF Halves, Progress, Replaced
<1>7. Grants(db', work', torn')
  BY <1>1, <1>5 DEF Grants, Progress, Replaced
<1>8. Calm(db', work', calm')
  BY <1>1, IdleIs DEF Calm, Progress, Replaced, GiveUp
<1>9. QED
  BY <1>2, <1>3, <1>4, <1>6, <1>7, <1>8 DEF Progress

\* An actor without a commit left that draws up a plan between no two halves.
DrawsUp(a, task) ==
    /\ work[a].plan = <<>> /\ work[a].stage # "user"
    /\ work' = [work EXCEPT ![a] = task]
    /\ UNCHANGED <<db, torn>>
    /\ calm' \subseteq calm \cup {a}
    /\ a \in calm' => \A b \in Actors \ {a} : Quiet(work[b])

LEMMA ProgressDraws ==
    ASSUME Orderly, Progress, NEW a \in Actors, NEW task, DrawsUp(a, task),
           TaskOK(task), Quiet(task), a \in calm' => Mends(db, task),
           Tenancy(db, work', issued'["tenants"])
    PROVE  Progress'
<1>1. Replaced(work, work', a, task) /\ db' = db /\ torn' = torn
  BY OrderlyIs DEF DrawsUp, Replaced
<1>2. RowsFit(db') /\ Linked(db', torn') /\ calm' \subseteq Actors
  BY <1>1 DEF Progress, DrawsUp
<1>3. \A b \in Actors : TaskOK(work'[b])
  BY <1>1 DEF Replaced, Progress
<1>4. Quiet(work[a]) /\ \A user : ~GrantingTo(work[a], user)
  <2>1. Quiet(work[a])
    BY EmptyPlan DEF DrawsUp, Quiet, Midway, Granting
  <2>2. QED
    BY <2>1, GrantingIs DEF Quiet
<1>5. Halves(db', work', torn')
  BY <1>1, <1>4 DEF Halves, Progress, Replaced, Quiet
<1>6. Grants(db', work', torn')
  BY <1>1, <1>4 DEF Grants, Progress, Replaced
<1>7. Calm(db', work', calm')
  BY <1>1 DEF Calm, Progress, Replaced, DrawsUp
<1>8. Tenancy(db', work', issued'["tenants"])
  BY <1>1
<1>9. QED
  BY <1>2, <1>3, <1>5, <1>6, <1>7, <1>8 DEF Progress

\* A plan that makes neither a tenant nor the main client.
Homely(plan) ==
    \A write \in Writes(plan) : \A new \in write.insert :
        /\ new[1] # "tenants"
        /\ new[1] = "clients" => new[2].client_id # Main

LEMMA IssuedGrows ==
    ASSUME Orderly, UNCHANGED issued \/ \E tables : Issue(tables)
    PROVE  issued'["tenants"] \in Nat /\ issued["tenants"] <= issued'["tenants"]
<1>1. "tenants" \in DOMAIN MaxRows /\ issued["tenants"] \in Nat
  BY OrderlyIs, RoutesAssumption DEF NumberedTables
<1>2. QED
  BY <1>1 DEF Issue

LEMMA TenancyPlain ==
    ASSUME Orderly, Progress, NEW a \in Actors, NEW task, Replaced(work, work', a, task),
           Homely(task.plan), task.stage # "tenant",
           UNCHANGED issued \/ \E tables : Issue(tables)
    PROVE  Tenancy(db, work', issued'["tenants"])
<1>1. \A t : MayBe(t, "tenants", db, work') => MayBe(t, "tenants", db, work)
  BY DEF MayBe, Replaced, Homely, Inserted
<1>2. \A c : MayBe(c, "clients", db, work') /\ c.client_id = Main => MayBe(c, "clients", db, work)
  BY DEF MayBe, Replaced, Homely, Inserted
<1>3. \A i : Chosen(i, db, work') => Chosen(i, db, work)
  BY <1>2 DEF Chosen, Replaced
<1>4. QED
  BY <1>1, <1>3, OrderlyIs, IssuedGrows, TenancyStays DEF Progress

-----------------------------------------------------------------------------
(* Modest plans make no tenant, no main client, no user and no permission:   *)
(* those of all routes but the creation of tenants, and most of the starts'. *)

Modest(write) ==
    /\ Steady(write)
    /\ \A new \in write.insert :
        /\ new[1] \notin {"tenants", "users", "permissions"}
        /\ new[1] = "clients" => new[2].client_id # Main

LEMMA DrawsModest ==
    ASSUME Orderly, Progress, NEW a \in Actors, NEW stage, NEW plan, NEW row,
           ProceedWith(a, stage, plan, row),
           DrawsUp(a, [stage |-> stage, plan |-> plan, row |-> row]),
           stage \notin RoleStages \cup {"user", "tenant"}, stage = "granted" => plan = <<>>,
           \A write \in Writes(plan) : Modest(write) /\ (stage \in StartStages => Mild(write)),
           a \in calm' => Mends(db, [stage |-> stage, plan |-> plan, row |-> row]),
           UNCHANGED issued \/ \E tables : Issue(tables)
    PROVE  Progress'
<1> DEFINE task == [stage |-> stage, plan |-> plan, row |-> row]
<1>1. task.stage = stage /\ task.plan = plan /\ DOMAIN task = {"stage", "plan", "row"}
  OBVIOUS
<1>2. DrawsUp(a, task) /\ (a \in calm' => Mends(db, task))
  OBVIOUS
<1> HIDE DEF task
<1>3. TaskOK(task) /\ Homely(task.plan)
  BY <1>1 DEF TaskOK, Homely, Modest, Adds
<1>4. Quiet(task)
  BY <1>1 DEF Quiet, Midway, Granting
<1>5. Replaced(work, work', a, task)
  BY <1>2, OrderlyIs DEF DrawsUp, Replaced
<1>6. Tenancy(db, work', issued'["tenants"])
  BY <1>1, <1>3, <1>5, TenancyPlain
<1>7. QED
  BY <1>2, <1>3, <1>4, <1>6, ProgressDraws

LEMMA RequestDraws ==
    ASSUME Progress, NEW a \in Actors, NEW plan, Request(a, plan)
    PROVE  /\ ProceedWith(a, "request", plan, NULL)
           /\ DrawsUp(a, [stage |-> "request", plan |-> plan, row |-> NULL])
           /\ Mends(db, [stage |-> "request", plan |-> plan, row |-> NULL])
<1>1. ProceedWith(a, "request", plan, NULL)
  BY DEF Request, Proceed
<1>2. Mends(db, [stage |-> "request", plan |-> plan, row |-> NULL])
  BY DEF Mends, PastClient, PastRole, PastTheme, PastUser
<1>3. DrawsUp(a, [stage |-> "request", plan |-> plan, row |-> NULL])
  BY <1>1 DEF Request, Free, DrawsUp, ProceedWith, Progress, Calm
<1>4. QED
  BY <1>1, <1>2, <1>3

LEMMA RequestKeeps ==
    ASSUME Orderly, Progress, NEW a \in Actors, NEW plan, Request(a, plan),
           \A write \in Writes(plan) : Modest(write),
           UNCHANGED issued \/ \E tables : Issue(tables)
    PROVE  Progress'
  BY RequestDraws, DrawsModest DEF RoleStages, StartStages

LEMMA RequestsOne ==
    ASSUME Orderly, Progress, NEW a \in Actors, NEW write, Request(a, <<write>>), Modest(write),
           UNCHANGED issued \/ \E tables : Issue(tables)
    PROVE  Progress'
<1>1. Writes(<<write>>) = {write}
  BY WritesAre
<1>2. QED
  BY <1>1, RequestKeeps

LEMMA InsertModest ==
    ASSUME NEW table, NEW row, Fits(table, row), table # "tenants", table # "users",
           table # "permissions", table # "roles", table # "clients"
    PROVE  Modest(Insert({<<table, row>>}))
  BY DEF Modest, Steady, Insert, NoChange

LEMMA AnyFits ==
    ASSUME NEW row
    PROVE  /\ Fits("themes", row) /\ Fits("oauth_providers", row) /\ Fits("user_fields", row)
           /\ Fits("admin_api_key", row) /\ Fits("users", row) /\ Fits("user_roles", row)
           /\ Fits("tenants_oauth_providers", row) /\ Fits("email_domains", row)
  BY FixedAre DEF Fits

LEMMA UpdateModest ==
    ASSUME NEW table, NEW id, NEW columns, DOMAIN columns \cap Fixed(table) = {}
    PROVE  Modest(Update(table, id, columns))
  BY DEF Modest, Steady, Update, NoChange

LEMMA OthersModest ==
    ASSUME NEW table, NEW id
    PROVE  Modest(Update(table, id, Others)) /\ Mild(Update(table, id, Others))
<1>1. DOMAIN Others = {}
  BY DEF Others
<1>2. Mild(Update(table, id, Others))
  BY <1>1 DEF Mild, Update, NoChange
<1>3. QED
  BY <1>1, <1>2, UpdateModest

LEMMA DeleteModest ==
    ASSUME NEW table \in Deletable, NEW id
    PROVE  Modest(Delete(table, id))
  BY DEF Modest, Steady, Delete, NoChange

LEMMA DeletesModest ==
    ASSUME NEW gone, \A one \in gone : one[1] \in Deletable
    PROVE  Modest([NoChange EXCEPT !.delete = gone])
  BY DEF Modest, Steady, NoChange

LEMMA ClientFits ==
    ASSUME NEW id, NEW client, NEW tenant
    PROVE  Fits("clients", [id |-> id, client_id |-> client, tenant_id |-> tenant])
  BY FixedAre DEF Fits

LEMMA ClientModest ==
    ASSUME Orderly, NEW tenant
    PROVE  Modest(Insert({NewClient(tenant)}))
<1> DEFINE row == [id |-> NextId("clients"), client_id |-> NextId("clients"),
                   tenant_id |-> tenant]
<1>1. row.client_id # Main
  <2>1. issued["clients"] \in Nat
    BY DEF Orderly, NumberedTables
  <2>2. QED
    BY <2>1 DEF NextId, Main
<1>2. Fits("clients", row)
  BY ClientFits
<1>3. NewClient(tenant) = <<"clients", row>>
  BY DEF NewClient
<1> HIDE DEF row
<1>4. QED
  BY <1>1, <1>2, <1>3 DEF Modest, Steady, Insert, NoChange

LEMMA LinksModest ==
    ASSUME NEW write, write.insert \subseteq {new \in write.insert : new[1] = "tenants_oauth_providers"},
           write.delete = {}, \A u \in write.update : DOMAIN u.columns \cap Fixed(u.table) = {}
    PROVE  Modest(write)
  BY FixedAre DEF Modest, Steady, Fits

-----------------------------------------------------------------------------
(* The routes.                                                               *)
LEMMA UpdateTenantKeeps ==
    ASSUME Orderly, Progress, NEW a \in Actors, UpdateTenant(a)
    PROVE  Progress'
<1> PICK tenant, theme, linked, providers :
        Request(a, <<[Update("tenants", tenant, [theme_id |-> theme]) EXCEPT
                !.unlink = {<<"tenants_oauth_providers", <<tenant, p>>>> :
                                p \in linked \ providers},
                !.insert = Links(tenant, providers \ linked)]>>)
  BY DEF UpdateTenant
<1> DEFINE columns == [theme_id |-> theme]
           write == [Update("tenants", tenant, [theme_id |-> theme]) EXCEPT
                !.unlink = {<<"tenants_oauth_providers", <<tenant, p>>>> :
                                p \in linked \ providers},
                !.insert = Links(tenant, providers \ linked)]
<1>1. write.insert = Links(tenant, providers \ linked) /\ write.delete = {}
  BY DEF Update, NoChange
<1>2. write.update = {[table |-> "tenants", id |-> tenant, columns |-> columns]}
  BY DEF Update, NoChange
<1>3. DOMAIN columns = {"theme_id"}
  OBVIOUS
<1>4. Request(a, <<write>>)
  OBVIOUS
<1> HIDE DEF write, columns
<1>5. \A u \in write.update : DOMAIN u.columns \cap Fixed(u.table) = {}
  BY <1>2, <1>3, FixedAre
<1>6. \A new \in write.insert : new[1] = "tenants_oauth_providers"
  BY <1>1, LinksShaped
<1>7. Modest(write)
  BY <1>1, <1>5, <1>6, LinksModest
<1>8. QED
  BY <1>4, <1>7, RequestsOne DEF UpdateTenant

LEMMA TenantEmailKeeps ==
    ASSUME Orderly, Progress, NEW a \in Actors, TenantEmailRoutes(a)
    PROVE  Progress'
<1>1. CASE SetTenantEmail(a)
  <2> PICK tenant \in Ids(db, "tenants"), domain \in Domains :
        Request(a, <<[Update("tenants", tenant, [email_domain_id |-> domain]) EXCEPT
            !.insert = IF domain \in Ids(db, "email_domains") THEN {}
                       ELSE {<<"email_domains", [id |-> domain, domain |-> domain]>>}]>>)
    BY <1>1 DEF SetTenantEmail
  <2> DEFINE row == [id |-> domain, domain |-> domain]
             columns == [email_domain_id |-> domain]
             write == [Update("tenants", tenant, columns) EXCEPT
            !.insert = IF domain \in Ids(db, "email_domains") THEN {}
                       ELSE {<<"email_domains", row>>}]
  <2>1. Request(a, <<write>>)
    OBVIOUS
  <2> HIDE DEF row
  <2>2. write.insert \subseteq {<<"email_domains", row>>} /\ write.delete = {}
    BY DEF Update, NoChange
  <2>3. write.update = {[table |-> "tenants", id |-> tenant, columns |-> columns]}
    BY DEF Update, NoChange
  <2>4. DOMAIN columns = {"email_domain_id"}
    OBVIOUS
  <2> HIDE DEF write, columns
  <2>5. Modest(write)
    BY <2>2, <2>3, <2>4, FixedAre DEF Modest, Steady, Fits
  <2>6. QED
    BY <1>1, <2>1, <2>5, RequestsOne DEF SetTenantEmail
<1>2. CASE VerifyDomain(a)
  BY <1>2, RequestsOne, OthersModest DEF VerifyDomain
<1>3. QED
  BY <1>1, <1>2 DEF TenantEmailRoutes

LEMMA ClientKeeps ==
    ASSUME Orderly, Progress, NEW a \in Actors, ClientRoutes(a)
    PROVE  Progress'
<1>1. CASE CreateClient(a)
  BY <1>1, RequestsOne, ClientModest DEF CreateClient
<1>2. CASE UpdateClient(a)
  BY <1>2, RequestsOne, OthersModest DEF UpdateClient
<1>3. CASE DeleteClient(a)
  BY <1>3, RequestsOne, DeleteModest DEF DeleteClient, Deletable
<1>4. QED
  BY <1>1, <1>2, <1>3 DEF ClientRoutes

LEMMA ThemeKeeps ==
    ASSUME Orderly, Progress, NEW a \in Actors, ThemeRoutes(a)
    PROVE  Progress'
<1>1. CASE CreateTheme(a)
  <2>1. Modest(Insert({<<"themes", [id |-> NextId("themes"), default |-> FALSE]>>}))
    BY InsertModest, AnyFits
  <2>2. QED
    BY <1>1, <2>1, RequestsOne DEF CreateTheme
<1>2. CASE UpdateTheme(a)
  BY <1>2, RequestsOne, OthersModest DEF UpdateTheme
<1>3. CASE SetDefaultTheme(a)
  <2> PICK old, id : Request(a, <<Update("themes", old, [default |-> FALSE]),
                                  Update("themes", id, [default |-> TRUE])>>)
    BY <1>3 DEF SetDefaultTheme
  <2> DEFINE one == Update("themes", old, [default |-> FALSE])
             two == Update("themes", id, [default |-> TRUE])
  <2>1. Modest(one) /\ Modest(two)
    BY UpdateModest, FixedAre
  <2>2. Request(a, <<one, two>>)
    OBVIOUS
  <2> HIDE DEF one, two
  <2>3. Writes(<<one, two>>) = {one, two}
    BY WritesAre
  <2>4. QED
    BY <1>3, <2>1, <2>2, <2>3, RequestKeeps DEF SetDefaultTheme
<1>4. QED
  BY <1>1, <1>2, <1>3 DEF ThemeRoutes

LEMMA OtherRoutesKeep ==
    ASSUME Orderly, Progress, NEW a \in Actors,
           ProviderRoutes(a) \/ FieldRoutes(a) \/ TemplateRoutes(a) \/ ApiKeyRoutes(a)
    PROVE  Progress'
<1>1. CASE ProviderRoutes(a)
  <2>1. CASE CreateProvider(a)
    <3>1. Modest(Insert({<<"oauth_providers", [id |-> NextId("oauth_providers")]>>}))
      BY InsertModest, AnyFits
    <3>2. QED
      BY <2>1, <3>1, RequestsOne DEF CreateProvider
  <2>2. CASE UpdateProvider(a)
    BY <2>2, RequestsOne, OthersModest DEF UpdateProvider
  <2>3. CASE DeleteProvider(a)
    BY <2>3, RequestsOne, DeleteModest DEF DeleteProvider, Deletable
  <2>4. QED
    BY <1>1, <2>1, <2>2, <2>3 DEF ProviderRoutes
<1>2. CASE FieldRoutes(a)
  <2>1. CASE CreateField(a)
    <3>1. PICK slug : Request(a, <<Insert({<<"user_fields",
                        [id |-> NextId("user_fields"), slug |-> slug]>>})>>)
      BY <2>1 DEF CreateField
    <3>2. Modest(Insert({<<"user_fields", [id |-> NextId("user_fields"), slug |-> slug]>>}))
      BY InsertModest, AnyFits
    <3>3. QED
      BY <2>1, <3>1, <3>2, RequestsOne DEF CreateField
  <2>2. CASE UpdateField(a)
    <3>1. PICK field, slug : Request(a, <<Update("user_fields", field.id, [slug |-> slug])>>)
      BY <2>2 DEF UpdateField
    <3>2. Modest(Update("user_fields", field.id, [slug |-> slug]))
      BY UpdateModest, FixedAre
    <3>3. QED
      BY <2>2, <3>1, <3>2, RequestsOne DEF UpdateField
  <2>3. CASE DeleteField(a)
    BY <2>3, RequestsOne, DeleteModest DEF DeleteField, Deletable
  <2>4. QED
    BY <1>2, <2>1, <2>2, <2>3 DEF FieldRoutes
<1>3. CASE TemplateRoutes(a)
  BY <1>3, RequestsOne, OthersModest DEF TemplateRoutes, UpdateTemplate
<1>4. CASE ApiKeyRoutes(a)
  <2>1. CASE CreateApiKey(a)
    <3>1. Modest(Insert({<<"admin_api_key", [id |-> NextId("admin_api_key"),
                                             token |-> NextId("admin_api_key")]>>}))
      BY InsertModest, AnyFits
    <3>2. QED
      BY <2>1, <3>1, RequestsOne DEF CreateApiKey
  <2>2. CASE DeleteApiKey(a)
    BY <2>2, RequestsOne, DeleteModest DEF DeleteApiKey, Deletable
  <2>3. QED
    BY <1>4, <2>1, <2>2 DEF ApiKeyRoutes
<1>5. QED
  BY <1>1, <1>2, <1>3, <1>4

LEMMA RightsRoutesKeep ==
    ASSUME Orderly, Progress, NEW a \in Actors, RightsRoutes(a)
    PROVE  Progress'
<1>1. CASE DeleteUser(a) \/ DeleteRole(a) \/ DeletePermission(a)
  BY <1>1, RequestsOne, DeleteModest
     DEF RightsRoutes, DeleteUser, DeleteRole, DeletePermission, Deletable
<1>2. CASE DeleteUserRole(a)
  <2>1. PICK held : Request(a, <<Delete("user_roles", held.id),
                [NoChange EXCEPT !.delete = Revoked(held.user_id, held.role_id)]>>)
    BY <1>2 DEF DeleteUserRole
  <2> DEFINE one == Delete("user_roles", held.id)
             gone == Revoked(held.user_id, held.role_id)
             two == [NoChange EXCEPT !.delete = gone]
  <2>2. Modest(one)
    BY DeleteModest DEF Deletable
  <2>3. \A row \in gone : row[1] \in Deletable
    BY DEF Revoked, Deletable
  <2>4. Modest(two)
    BY <2>3, DeletesModest
  <2>5. Request(a, <<one, two>>)
    BY <2>1
  <2> HIDE DEF one, two, gone
  <2>6. Writes(<<one, two>>) = {one, two}
    BY WritesAre
  <2>7. QED
    BY <2>2, <2>4, <2>5, <2>6, RequestKeeps DEF RightsRoutes
<1>3. QED
  BY <1>1, <1>2 DEF RightsRoutes

-----------------------------------------------------------------------------
(* Making a tenant, by a route and by a start.                               *)

LEMMA NextTenant ==
    ASSUME Orderly, NEW tables, Issue(tables), "tenants" \in tables
    PROVE  /\ issued'["tenants"] = issued["tenants"] + 1 /\ NextId("tenants") = issued'["tenants"]
           /\ issued["tenants"] \in Nat /\ issued'["tenants"] \in Nat
           /\ issued["tenants"] <= issued'["tenants"]
<1>1. "tenants" \in DOMAIN MaxRows /\ issued["tenants"] \in Nat
  BY OrderlyIs, RoutesAssumption DEF NumberedTables
<1>2. issued'["tenants"] = issued["tenants"] + 1
  BY <1>1 DEF Issue
<1>3. QED
  BY <1>1, <1>2 DEF NextId

\* A plan that makes the tenant with the next id, and no main client.
TenantOnly(plan, id, default) ==
    \A write \in Writes(plan) : \A new \in write.insert :
        /\ new[1] = "tenants" => new[2].id = id /\ new[2]["default"] = default
        /\ new[1] = "clients" => new[2].client_id # Main

LEMMA TenancyNew ==
    ASSUME Orderly, Progress, NEW a \in Actors, NEW task, Replaced(work, work', a, task),
           NEW default, NEW tables, Issue(tables), "tenants" \in tables,
           TenantOnly(task.plan, NextId("tenants"), default),
           task.stage = "tenant" => default = TRUE /\ task.row = NextId("tenants")
    PROVE  Tenancy(db, work', issued'["tenants"])
<1> DEFINE last == issued["tenants"]
           next == issued'["tenants"]
<1>1. next = last + 1 /\ NextId("tenants") = next /\ last \in Nat /\ next \in Nat /\ last <= next
  BY NextTenant
<1> HIDE DEF next
<1>2. ASSUME NEW t, MayBe(t, "tenants", db, work')
      PROVE  \/ MayBe(t, "tenants", db, work)
             \/ t.id = next /\ t.default = default
  BY <1>1, <1>2 DEF MayBe, Replaced, TenantOnly, Inserted
<1>3. ASSUME NEW c, MayBe(c, "clients", db, work'), c.client_id = Main
      PROVE  MayBe(c, "clients", db, work)
  BY <1>3 DEF MayBe, Replaced, TenantOnly, Inserted
<1>4. ASSUME NEW i, Chosen(i, db, work')
      PROVE  Chosen(i, db, work) \/ (i = next /\ default = TRUE)
  <2>1. CASE \E b \in Actors : work'[b].stage = "tenant" /\ work'[b].row = i
    BY <1>1, <2>1 DEF Chosen, Replaced
  <2>2. CASE \E c : MayBe(c, "clients", db, work') /\ c.client_id = Main /\ c.tenant_id = i
    BY <1>3, <2>2 DEF Chosen
  <2>3. QED
    BY <1>4, <2>1, <2>2 DEF Chosen
<1>5. Tenancy(db, work, last)
  BY DEF Progress
<1>6. \A t : MayBe(t, "tenants", db, work') =>
            \/ \E old : /\ MayBe(old, "tenants", db, work)
                        /\ t.id = old.id /\ t.default = old.default
            \/ t.id = next /\ next = last + 1 /\ t.default = default
  BY <1>1, <1>2
<1>7. \A i : Chosen(i, db, work') =>
            \/ Chosen(i, db, work)
            \/ i = next /\ next = last + 1 /\ default = TRUE
            \/ \E t \in db["tenants"] : t.id = i /\ t.default = TRUE
  BY <1>1, <1>4
<1> HIDE DEF last
<1>8. Tenancy(db, work', next)
  BY <1>1, <1>5, <1>6, <1>7, TenancyStep
<1>9. QED
  BY <1>8 DEF next

LEMMA TenantFits ==
    ASSUME NEW id \in Nat, NEW slug, NEW default, NEW theme, NEW domain
    PROVE  Fits("tenants", [id |-> id, slug |-> slug, default |-> default, theme_id |-> theme,
                            email_domain_id |-> domain])
  BY FixedAre DEF Fits

LEMMA CreateTenantKeeps ==
    ASSUME Orderly, Progress, NEW a \in Actors, CreateTenant(a)
    PROVE  Progress'
<1> PICK name, theme, providers :
      LET tenant == NextId("tenants")
      IN  Request(a,
            <<Insert({<<"tenants", [id |-> tenant, slug |-> AvailableSlug(name),
                        default |-> FALSE, theme_id |-> theme,
                        email_domain_id |-> NULL]>>} \cup Links(tenant, providers)),
              Insert({NewClient(tenant)})>>)
  BY DEF CreateTenant
<1> DEFINE tenant == NextId("tenants")
           row == [id |-> tenant, slug |-> AvailableSlug(name), default |-> FALSE,
                   theme_id |-> theme, email_domain_id |-> NULL]
           links == Links(tenant, providers)
           one == Insert({<<"tenants", row>>} \cup links)
           two == Insert({NewClient(tenant)})
           plan == <<one, two>>
           task == [stage |-> "request", plan |-> plan, row |-> NULL]
<1>1. Request(a, plan)
  OBVIOUS
<1>2. Issue({"tenants", "clients"})
  BY DEF CreateTenant
<1>3. tenant \in Nat
  BY <1>2, NextTenant
<1>4. Fits("tenants", row) /\ row.id = tenant /\ row["default"] = FALSE
  BY <1>3, TenantFits
<1>5. \A new \in links : new[1] = "tenants_oauth_providers" /\ Fits(new[1], new[2])
  BY LinksShaped, AnyFits
<1>6. Modest(two)
  BY ClientModest
<1>7. /\ one.insert = {<<"tenants", row>>} \cup links
      /\ one.update = {} /\ one.delete = {}
  BY DEF Insert, NoChange
<1>8. Writes(plan) = {one, two}
  BY WritesAre
<1>9. task.stage = "request" /\ task.plan = plan /\ DOMAIN task = {"stage", "plan", "row"}
  OBVIOUS
<1>10. DrawsUp(a, task) /\ Mends(db, task)
  BY <1>1, RequestDraws
<1>11. two.insert = {NewClient(tenant)} /\ NewClient(tenant)[1] = "clients"
  BY DEF Insert, NoChange, NewClient
<1> HIDE DEF task, plan, one, two, links, row, tenant
<1>12. Steady(one)
  BY <1>4, <1>5, <1>7 DEF Steady
<1>13. ~Adds(one, "users") /\ ~Adds(one, "permissions") /\ ~Adds(two, "users")
       /\ ~Adds(two, "permissions")
  BY <1>5, <1>6, <1>7 DEF Adds, Modest
<1>14. TaskOK(task) /\ Quiet(task)
  BY <1>6, <1>8, <1>9, <1>12, <1>13
     DEF TaskOK, Quiet, Midway, Granting, RoleStages, StartStages, Modest
<1>15. TenantOnly(task.plan, NextId("tenants"), FALSE)
  BY <1>4, <1>5, <1>6, <1>7, <1>8, <1>9, <1>11 DEF TenantOnly, Modest, tenant
<1>16. Replaced(work, work', a, task)
  BY <1>10, OrderlyIs DEF DrawsUp, Replaced
<1>17. Tenancy(db, work', issued'["tenants"])
  BY <1>2, <1>9, <1>15, <1>16, TenancyNew
<1>18. QED
  BY <1>10, <1>14, <1>17, ProgressDraws

LEMMA AdministrateKeeps ==
    ASSUME Orderly, Progress, NEW a \in Actors, Administrate(a)
    PROVE  Progress'
<1>1. CASE TenantRoutes(a)
  <2>1. CASE DeleteTenant(a)
    BY <2>1, RequestsOne, DeleteModest DEF DeleteTenant, Deletable
  <2>2. QED
    BY <1>1, <2>1, CreateTenantKeeps, UpdateTenantKeeps DEF TenantRoutes
<1>2. QED
  BY <1>1, TenantEmailKeeps, ClientKeeps, ThemeKeeps, OtherRoutesKeep, RightsRoutesKeep
     DEF Administrate

-----------------------------------------------------------------------------
(* The commands.                                                             *)
LEMMA ReadsDraw ==
    ASSUME Progress, NEW a \in Actors, NEW before, Ready(a, before), before # "user",
           NEW stage, NEW plan, NEW row, ProceedWith(a, stage, plan, row), Reads
    PROVE  /\ DrawsUp(a, [stage |-> stage, plan |-> plan, row |-> row])
           /\ a \in calm' => Mends(db, work[a])
           /\ work[a].stage = before /\ work[a].plan = <<>>
  BY DEF Ready, ProceedWith, Reads, DrawsUp, Progress, Calm

LEMMA InsertMild ==
    ASSUME NEW rows
    PROVE  Mild(Insert(rows)) /\ Insert(rows).insert = rows /\ Insert(rows).update = {}
           /\ Insert(rows).delete = {}
  BY DEF Mild, Insert, NoChange

LEMMA InitTenantKeeps ==
    ASSUME Orderly, Progress, NEW a \in Actors, InitDefaultTenant(a)
    PROVE  Progress'
<1>1. Ready(a, "start") /\ Reads
  BY DEF InitDefaultTenant
<1>2. CASE DefaultTenants # {}
  <2> DEFINE row == Only(DefaultTenants).id
             task == [stage |-> "tenant", plan |-> <<>>, row |-> row]
  <2>1. ProceedWith(a, "tenant", <<>>, row) /\ issued' = issued
    BY <1>2 DEF InitDefaultTenant
  <2>2. DrawsUp(a, task)
    BY <1>1, <2>1, ReadsDraw
  <2>3. task.stage = "tenant" /\ task.plan = <<>> /\ task.row = row
        /\ DOMAIN task = {"stage", "plan", "row"}
    OBVIOUS
  <2>4. \E t \in db["tenants"] : t.id = row /\ t.default = TRUE
    <3>1. Only(DefaultTenants) \in DefaultTenants
      BY <1>2 DEF Only
    <3>2. QED
      BY <3>1 DEF DefaultTenants, Where
  <2> HIDE DEF task, row
  <2>5. Writes(task.plan) = {}
    BY <2>3, WritesAre
  <2>6. TaskOK(task) /\ Quiet(task) /\ Mends(db, task)
    BY <2>3, <2>5 DEF TaskOK, Quiet, Midway, Granting, RoleStages, Mends, PastClient, PastRole,
       PastTheme, PastUser
  <2>7. Replaced(work, work', a, task)
    BY <2>2, OrderlyIs DEF DrawsUp, Replaced
  <2>8. \A t : MayBe(t, "tenants", db, work') => MayBe(t, "tenants", db, work)
    BY <2>5, <2>7 DEF MayBe, Replaced
  <2>9. \A c : MayBe(c, "clients", db, work') => MayBe(c, "clients", db, work)
    BY <2>5, <2>7 DEF MayBe, Replaced
  <2>10. \A i : Chosen(i, db, work') => Chosen(i, db, work) \/ i = row
    BY <2>3, <2>7, <2>9 DEF Chosen, Replaced
  <2>11. Tenancy(db, work', issued'["tenants"])
    <3>1. issued["tenants"] \in Nat /\ issued["tenants"] <= issued["tenants"]
      BY OrderlyIs
    <3>2. Tenancy(db, work, issued["tenants"])
      BY DEF Progress
    <3>3. Tenancy(db, work', issued["tenants"])
      BY <2>4, <2>8, <2>10, <3>1, <3>2, TenancyStep
    <3>4. QED
      BY <2>1, <3>3
  <2>12. QED
    BY <2>2, <2>6, <2>11, ProgressDraws
<1>3. CASE DefaultTenants = {}
  <2> DEFINE row == [id |-> NextId("tenants"), slug |-> AvailableSlug("default"),
                     default |-> TRUE, theme_id |-> NULL, email_domain_id |-> NULL]
             one == Insert({<<"tenants", row>>})
             task == [stage |-> "tenant", plan |-> <<one>>, row |-> NextId("tenants")]
  <2>1. ProceedWith(a, "tenant", <<one>>, NextId("tenants")) /\ Issue({"tenants"})
    BY <1>3 DEF InitDefaultTenant
  <2>2. DrawsUp(a, task)
    BY <1>1, <2>1, ReadsDraw
  <2>3. NextId("tenants") \in Nat
    BY <2>1, NextTenant
  <2>4. Fits("tenants", row) /\ row.id = NextId("tenants") /\ row["default"] = TRUE
    BY <2>3, TenantFits
  <2>5. Mild(one) /\ one.insert = {<<"tenants", row>>} /\ one.update = {} /\ one.delete = {}
    BY InsertMild
  <2>6. task.stage = "tenant" /\ task.plan = <<one>> /\ task.row = NextId("tenants")
        /\ DOMAIN task = {"stage", "plan", "row"}
    OBVIOUS
  <2> HIDE DEF task, one, row
  <2>7. Writes(task.plan) = {one}
    BY <2>6, WritesAre
  <2>8. Steady(one) /\ ~Adds(one, "users") /\ ~Adds(one, "permissions")
    BY <2>4, <2>5 DEF Steady, Adds
  <2>9. TaskOK(task) /\ Quiet(task) /\ Mends(db, task)
    BY <2>5, <2>6, <2>7, <2>8 DEF TaskOK, Quiet, Midway, Granting, RoleStages, Mends,
       PastClient, PastRole, PastTheme, PastUser
  <2>10. TenantOnly(task.plan, NextId("tenants"), TRUE)
    BY <2>4, <2>5, <2>7 DEF TenantOnly
  <2>11. Replaced(work, work', a, task)
    BY <2>2, OrderlyIs DEF DrawsUp, Replaced
  <2>12. Tenancy(db, work', issued'["tenants"])
    BY <2>1, <2>6, <2>10, <2>11, TenancyNew
  <2>13. QED
    BY <2>2, <2>9, <2>12, ProgressDraws
<1>4. QED
  BY <1>2, <1>3

-----------------------------------------------------------------------------
(* The stages of a start: the client, the permissions, the role.            *)

LEMMA MainClientsAre == MainClients # {} <=> HasClient(db)
  BY DEF MainClients, Where, HasClient

LEMMA PermissionsAre ==
    ASSUME RowsFit(db)
    PROVE  AdminPermissions = db["permissions"] /\ AdminRoles = db["roles"]
  BY RoleTablesHere DEF AdminPermissions, AdminRoles, Where, RowsFit, Fits

LEMMA InitClientKeeps ==
    ASSUME Orderly, Progress, NEW a \in Actors, InitDefaultClient(a)
    PROVE  Progress'
<1>1. Ready(a, "tenant") /\ Reads
  BY DEF InitDefaultClient
<1>2. CASE MainClients # {}
  <2> DEFINE one == Update("clients", Only(MainClients).id, Others)
             task == [stage |-> "client", plan |-> <<one>>, row |-> NULL]
  <2>1. ProceedWith(a, "client", <<one>>, NULL) /\ issued' = issued
    BY <1>2 DEF InitDefaultClient, Proceed
  <2>2. DrawsUp(a, task)
    BY <1>1, <2>1, ReadsDraw
  <2>3. Modest(one) /\ Mild(one)
    BY OthersModest
  <2>4. task.stage = "client"
    OBVIOUS
  <2>5. Writes(<<one>>) = {one}
    BY WritesAre
  <2>6. Mends(db, task)
    <3> HIDE DEF task
    <3>1. QED
      BY <1>2, <2>4, MainClientsAre DEF Mends, PastClient, PastRole, PastTheme, PastUser
  <2> HIDE DEF one
  <2>7. QED
    BY <2>1, <2>2, <2>3, <2>5, <2>6, DrawsModest DEF RoleStages
<1>3. CASE MainClients = {}
  <2> DEFINE row == [id |-> NextId("clients"), client_id |-> Main, tenant_id |-> work[a].row]
             one == Insert({<<"clients", row>>})
             task == [stage |-> "client", plan |-> <<one>>, row |-> NULL]
  <2>1. ProceedWith(a, "client", <<one>>, NULL) /\ Issue({"clients"})
    BY <1>3 DEF InitDefaultClient, Proceed
  <2>2. DrawsUp(a, task) /\ work[a].stage = "tenant"
    BY <1>1, <2>1, ReadsDraw
  <2>3. Fits("clients", row) /\ row.client_id = Main /\ row.tenant_id = work[a].row
    BY ClientFits
  <2>4. Mild(one) /\ one.insert = {<<"clients", row>>} /\ one.update = {} /\ one.delete = {}
    BY InsertMild
  <2>5. /\ task.stage = "client" /\ task.plan = <<one>> /\ DOMAIN task = {"stage", "plan", "row"}
        /\ <<one>> # <<>> /\ <<one>>[1] = one
    OBVIOUS
  <2> HIDE DEF task, one, row
  <2>6. Writes(task.plan) = {one}
    BY <2>5, WritesAre
  <2>7. Steady(one) /\ ~Adds(one, "users") /\ ~Adds(one, "permissions")
    BY <2>3, <2>4 DEF Steady, Adds
  <2>8. TaskOK(task) /\ Quiet(task)
    BY <2>4, <2>5, <2>6, <2>7 DEF TaskOK, Quiet, Midway, Granting, RoleStages
  <2>9. Mends(db, task)
    <3>1. MakesClient(task.plan)
      <4>1. task.plan # <<>> /\ <<"clients", row>> \in task.plan[1].insert
        BY <2>4, <2>5
      <4>2. <<"clients", row>>[1] = "clients" /\ <<"clients", row>>[2] = row
        OBVIOUS
      <4>3. QED
        BY <2>3, <4>1, <4>2 DEF MakesClient
    <3>2. QED
      BY <2>5, <3>1 DEF Mends, PastClient, PastRole, PastTheme, PastUser
  <2>10. Replaced(work, work', a, task)
    BY <2>2, OrderlyIs DEF DrawsUp, Replaced
  <2>11. \A t : MayBe(t, "tenants", db, work') => MayBe(t, "tenants", db, work)
    BY <2>4, <2>6, <2>10 DEF MayBe, Replaced, Inserted
  <2>12. \A c : MayBe(c, "clients", db, work') => MayBe(c, "clients", db, work) \/ c = row
    BY <2>4, <2>6, <2>10 DEF MayBe, Replaced, Inserted
  <2>13. \A i : Chosen(i, db, work') => Chosen(i, db, work)
    BY <2>2, <2>3, <2>5, <2>10, <2>12 DEF Chosen, Replaced
  <2>14. Tenancy(db, work', issued'["tenants"])
    BY <2>1, <2>11, <2>13, OrderlyIs, IssuedGrows, TenancyStays DEF Progress
  <2>15. QED
    BY <2>2, <2>8, <2>9, <2>14, ProgressDraws
<1>4. QED
  BY <1>2, <1>3

\* The plan for the role, and what it makes.
LEMMA RolePlanIs ==
    \E one, two :
        /\ AdminRolePlan = <<one, two>> /\ Steady(one) /\ Steady(two) /\ Mild(one) /\ Mild(two)
        /\ Adds(one, "permissions") /\ Adds(two, "roles")
        /\ ~Adds(two, "permissions") /\ ~Adds(one, "users") /\ ~Adds(two, "users")
        /\ \A new \in one.insert : new[1] \notin {"tenants", "clients"}
        /\ \A new \in two.insert : new[1] \notin {"tenants", "clients"}
<1> DEFINE permission == [id |-> NextId("permissions"), codename |-> "fief_admin"]
           role == [id |-> NextId("roles"), name |-> "Administrator"]
           link == [id |-> <<NextId("roles"), NextId("permissions")>>,
                    role_id |-> NextId("roles"), permission_id |-> NextId("permissions")]
           one == Insert({<<"permissions", permission>>})
           two == Insert({<<"roles", role>>, <<"roles_permissions", link>>})
<1>1. Fits("permissions", permission) /\ Fits("roles", role)
  BY FixedAre DEF Fits
<1>2. Fits("roles_permissions", link) /\ link.role_id = role.id
  BY FixedAre DEF Fits
<1>3. AdminRolePlan = <<one, two>>
  BY DEF AdminRolePlan
<1>4. Mild(one) /\ one.insert = {<<"permissions", permission>>} /\ one.update = {}
      /\ one.delete = {}
  BY InsertMild
<1>5. Mild(two) /\ two.insert = {<<"roles", role>>, <<"roles_permissions", link>>}
      /\ two.update = {} /\ two.delete = {}
  BY InsertMild
<1> HIDE DEF one, two, permission, role, link
<1>6. Steady(one)
  BY <1>1, <1>4 DEF Steady
<1>7. Steady(two)
  BY <1>1, <1>2, <1>5 DEF Steady
<1>8. /\ Adds(one, "permissions") /\ Adds(two, "roles")
      /\ ~Adds(two, "permissions") /\ ~Adds(one, "users") /\ ~Adds(two, "users")
  BY <1>4, <1>5 DEF Adds
<1>9. /\ \A new \in one.insert : new[1] \notin {"tenants", "clients"}
      /\ \A new \in two.insert : new[1] \notin {"tenants", "clients"}
  BY <1>4, <1>5
<1>10. QED
  BY <1>3, <1>4, <1>5, <1>6, <1>7, <1>8, <1>9

LEMMA InitRoleKeeps ==
    ASSUME Orderly, Progress, NEW a \in Actors, NEW before, NEW stage,
           InitAdminRole(a, before, stage),
           \/ before = "client" /\ stage = "role"
           \/ before = "templates" /\ stage = "adminRole"
           \/ before = "grant" /\ stage = "grantRole"
    PROVE  Progress'
<1>1. PICK plan : /\ Proceed(a, stage, plan)
                  /\ \/ plan = <<>> /\ AdminPermissions # {}
                     \/ plan = AdminRolePlan
  BY DEF InitAdminRole
<1>2. Ready(a, before) /\ Reads /\ (UNCHANGED issued \/ \E tables : Issue(tables))
  BY DEF InitAdminRole
<1> DEFINE task == [stage |-> stage, plan |-> plan, row |-> NULL]
<1>3. DrawsUp(a, task) /\ work[a].stage = before /\ work[a].plan = <<>>
      /\ (a \in calm' => Mends(db, work[a]))
  BY <1>1, <1>2, ReadsDraw DEF Proceed
<1>4. task.stage = stage /\ task.plan = plan /\ DOMAIN task = {"stage", "plan", "row"}
  OBVIOUS
<1> HIDE DEF task
<1>5. /\ stage \in RoleStages /\ stage # "user" /\ stage # "granted" /\ stage # "tenant"
      /\ Replaced(work, work', a, task)
  BY <1>3, OrderlyIs DEF RoleStages, DrawsUp, Replaced
<1>6. AdminPermissions # {} => db["permissions"] # {}
  BY PermissionsAre DEF Progress
<1>7. db["permissions"] # {} \/ Makes(plan, "permissions") =>
        (a \in calm' => Mends(db, task))
  BY <1>3, <1>4
     DEF Mends, PastClient, PastRole, PastTheme, PastUser, MakesClient
<1>8. CASE plan = <<>> /\ AdminPermissions # {}
  <2>1. Writes(task.plan) = {} /\ Len(task.plan) = 0
    BY <1>4, <1>8, WritesAre, EmptyPlan
  <2>2. TaskOK(task) /\ Quiet(task) /\ Homely(task.plan)
    BY <1>4, <1>5, <1>8, <2>1 DEF TaskOK, Quiet, Midway, Granting, Homely
  <2>3. Tenancy(db, work', issued'["tenants"])
    BY <1>2, <1>4, <1>5, <2>2, TenancyPlain
  <2>4. QED
    BY <1>3, <1>6, <1>7, <1>8, <2>2, <2>3, ProgressDraws
<1>9. CASE plan = AdminRolePlan
  <2>1. PICK one, two :
        /\ AdminRolePlan = <<one, two>> /\ Steady(one) /\ Steady(two) /\ Mild(one) /\ Mild(two)
        /\ Adds(one, "permissions") /\ Adds(two, "roles")
        /\ ~Adds(two, "permissions") /\ ~Adds(one, "users") /\ ~Adds(two, "users")
        /\ \A new \in one.insert : new[1] \notin {"tenants", "clients"}
        /\ \A new \in two.insert : new[1] \notin {"tenants", "clients"}
    BY RolePlanIs
  <2>2. Len(plan) = 2 /\ plan[1] = one /\ plan[2] = two /\ plan # <<>>
    BY <1>9, <2>1
  <2>3. Writes(task.plan) = {one, two} /\ Final(task.plan) = two
    <3>1. Final(plan) = two
      BY <2>2 DEF Final
    <3>2. Writes(<<one, two>>) = {one, two}
      BY WritesAre
    <3>3. QED
      BY <1>4, <1>9, <2>1, <3>1, <3>2
  <2>4. TaskOK(task)
    BY <1>4, <1>5, <2>1, <2>3 DEF TaskOK
  <2>5. Quiet(task) /\ Homely(task.plan)
    BY <1>4, <1>5, <2>1, <2>2, <2>3 DEF Quiet, Midway, Granting, Homely
  <2>6. Tenancy(db, work', issued'["tenants"])
    BY <1>2, <1>4, <1>5, <2>5, TenancyPlain
  <2>7. Makes(plan, "permissions")
    BY <2>1, <2>2 DEF Makes
  <2>8. QED
    BY <1>3, <1>7, <2>4, <2>5, <2>6, <2>7, ProgressDraws
<1>10. QED
  BY <1>1, <1>8, <1>9

LEMMA InitThemeKeeps ==
    ASSUME Orderly, Progress, NEW a \in Actors, InitDefaultTheme(a)
    PROVE  Progress'
<1>1. Ready(a, "role") /\ Reads /\ DefaultThemes = Defaults(db)
  BY DEF InitDefaultTheme, DefaultThemes, Where, Defaults
<1> DEFINE row == [id |-> NextId("themes"), default |-> TRUE]
           one == Insert({<<"themes", row>>})
<1>2. PICK plan : /\ Proceed(a, "theme", plan)
                  /\ \/ plan = <<>> /\ DefaultThemes # {}
                     \/ plan = <<one>>
  BY DEF InitDefaultTheme
<1>3. UNCHANGED issued \/ \E tables : Issue(tables)
  BY DEF InitDefaultTheme
<1> DEFINE task == [stage |-> "theme", plan |-> plan, row |-> NULL]
<1>4. DrawsUp(a, task) /\ work[a].stage = "role" /\ work[a].plan = <<>>
      /\ (a \in calm' => Mends(db, work[a]))
  BY <1>1, <1>2, ReadsDraw DEF Proceed
<1>5. task.stage = "theme" /\ task.plan = plan
  OBVIOUS
<1>6. Modest(one) /\ Mild(one)
  BY InsertModest, AnyFits, InsertMild
<1>7. plan = <<one>> => MakesTheme(plan)
  <2>1. <<one>> # <<>> /\ <<one>>[1] = one
    OBVIOUS
  <2>2. <<"themes", row>> \in one.insert
    BY InsertMild
  <2>3. <<"themes", row>>[1] = "themes" /\ <<"themes", row>>[2] = row /\ row["default"] = TRUE
    OBVIOUS
  <2> HIDE DEF one, row
  <2>4. QED
    BY <2>1, <2>2, <2>3 DEF MakesTheme
<1> HIDE DEF one
<1>8. \A write \in Writes(plan) : Modest(write) /\ Mild(write)
  <2>1. Writes(<<>>) = {} /\ Writes(<<one>>) = {one}
    BY WritesAre
  <2>2. QED
    BY <1>2, <1>6, <2>1
<1>9. a \in calm' => Mends(db, task)
  <2> HIDE DEF task
  <2>1. QED
    BY <1>1, <1>2, <1>4, <1>5, <1>7
       DEF Mends, PastClient, PastRole, PastTheme, PastUser, Makes
<1>10. QED
  BY <1>2, <1>3, <1>4, <1>8, <1>9, DrawsModest DEF Proceed, RoleStages

LEMMA TemplatesKeep ==
    ASSUME Orderly, Progress, NEW a \in Actors, InitTemplate(a) \/ TemplatesReady(a)
    PROVE  Progress'
<1>1. Ready(a, "theme") /\ Reads /\ issued' = issued
  BY DEF InitTemplate, TemplatesReady
<1>2. CASE InitTemplate(a)
  <2> PICK type : Proceed(a, "theme", <<Insert({<<"email_templates",
                                            [id |-> type, type |-> type]>>})>>)
    BY <1>2 DEF InitTemplate
  <2> DEFINE one == Insert({<<"email_templates", [id |-> type, type |-> type]>>})
             task == [stage |-> "theme", plan |-> <<one>>, row |-> NULL]
  <2>1. ProceedWith(a, "theme", <<one>>, NULL)
    BY DEF Proceed
  <2>2. DrawsUp(a, task) /\ work[a].stage = "theme" /\ work[a].plan = <<>>
        /\ (a \in calm' => Mends(db, work[a]))
    BY <1>1, <2>1, ReadsDraw
  <2>3. Fits("email_templates", [id |-> type, type |-> type])
    BY FixedAre DEF Fits
  <2>4. Modest(one) /\ Mild(one)
    BY <2>3, InsertModest, InsertMild
  <2>5. task.stage = "theme" /\ Writes(<<one>>) = {one}
    BY WritesAre
  <2> HIDE DEF one
  <2>6. a \in calm' => Mends(db, task)
    <3> HIDE DEF task
    <3>1. QED
      BY <2>2, <2>5 DEF Mends, PastClient, PastRole, PastTheme, PastUser, MakesTheme
  <2>7. QED
    BY <1>1, <2>1, <2>2, <2>4, <2>5, <2>6, DrawsModest DEF RoleStages
<1>3. CASE TemplatesReady(a)
  <2> DEFINE task == [stage |-> "templates", plan |-> <<>>, row |-> NULL]
  <2>1. ProceedWith(a, "templates", <<>>, NULL)
    BY <1>3 DEF TemplatesReady, Proceed
  <2>2. DrawsUp(a, task) /\ work[a].stage = "theme" /\ work[a].plan = <<>>
        /\ (a \in calm' => Mends(db, work[a]))
    BY <1>1, <2>1, ReadsDraw
  <2>3. task.stage = "templates" /\ Writes(<<>>) = {}
    BY WritesAre
  <2>4. HasTemplates(db)
    <3> SUFFICES ASSUME NEW type \in TemplateTypes PROVE type \in Ids(db, "email_templates")
      BY DEF HasTemplates
    <3>1. PICK row \in db["email_templates"] : row.type = type
      BY <1>3 DEF TemplatesReady
    <3>2. Fits("email_templates", row)
      BY MendTablesHere DEF Progress, RowsFit
    <3>3. row.id = type
      BY <3>1, <3>2 DEF Fits
    <3>4. QED
      BY <3>3 DEF Ids
  <2>5. a \in calm' => Mends(db, task)
    <3> HIDE DEF task
    <3>1. QED
      BY <2>2, <2>3, <2>4 DEF Mends, PastClient, PastRole, PastTheme, PastUser, MakesTheme
  <2>6. QED
    BY <1>1, <2>1, <2>2, <2>3, <2>5, DrawsModest DEF RoleStages
<1>4. QED
  BY <1>2, <1>3

-----------------------------------------------------------------------------
(* The stages of a start: the main user and what is granted.                 *)

LEMMA CreateAdminKeeps ==
    ASSUME Orderly, Progress, NEW a \in Actors, CreateAdmin(a)
    PROVE  Progress'
<1>1. Ready(a, "adminRole") /\ Reads
  BY DEF CreateAdmin
<1>2. CASE MainUsers # {}
  <2> DEFINE task == [stage |-> "granted", plan |-> <<>>, row |-> NULL]
  <2>1. ProceedWith(a, "granted", <<>>, NULL) /\ issued' = issued
    BY <1>2 DEF CreateAdmin, Proceed
  <2>2. DrawsUp(a, task) /\ work[a].stage = "adminRole" /\ work[a].plan = <<>>
        /\ (a \in calm' => Mends(db, work[a]))
    BY <1>1, <2>1, ReadsDraw
  <2>3. task.stage = "granted" /\ Writes(<<>>) = {}
    BY WritesAre
  <2>4. db["users"] # {}
    BY <1>2 DEF MainUsers
  <2>5. a \in calm' => Mends(db, task)
    <3> HIDE DEF task
    <3>1. QED
      BY <2>2, <2>3, <2>4 DEF Mends, PastClient, PastRole, PastTheme, PastUser
  <2>6. QED
    BY <2>1, <2>2, <2>3, <2>5, DrawsModest DEF RoleStages
<1>3. CASE MainUsers = {}
  <2> DEFINE row == [id |-> NextId("users"), email |-> Main,
                     tenant_id |-> Only(DefaultTenants).id]
             one == Insert({<<"users", row>>})
             task == [stage |-> "user", plan |-> <<one>>, row |-> NextId("users")]
  <2>1. ProceedWith(a, "user", <<one>>, NextId("users")) /\ Issue({"users"})
    BY <1>3 DEF CreateAdmin
  <2>2. DrawsUp(a, task) /\ work[a].stage = "adminRole" /\ work[a].plan = <<>>
        /\ (a \in calm' => Mends(db, work[a]))
    BY <1>1, <2>1, ReadsDraw
  <2>3. Fits("users", row) /\ row.id = NextId("users")
    BY AnyFits
  <2>4. Mild(one) /\ one.insert = {<<"users", row>>} /\ one.update = {} /\ one.delete = {}
    BY InsertMild
  <2>5. /\ task.stage = "user" /\ task.plan = <<one>> /\ task.row = NextId("users")
        /\ DOMAIN task = {"stage", "plan", "row"}
        /\ <<one>> # <<>> /\ <<one>>[1] = one /\ Len(<<one>>) = 1
    OBVIOUS
  <2> HIDE DEF task, one, row
  <2>6. Writes(task.plan) = {one}
    BY <2>5, WritesAre
  <2>7. Steady(one) /\ Adds(one, "users") /\ ~Adds(one, "permissions") /\ Homely(task.plan)
    BY <2>3, <2>4, <2>6 DEF Steady, Adds, Homely
  <2>8. TaskOK(task) /\ Quiet(task)
    BY <2>3, <2>4, <2>5, <2>6, <2>7 DEF TaskOK, Quiet, Midway, Granting, RoleStages
  <2>9. a \in calm' => Mends(db, task)
    <3>1. Makes(task.plan, "users")
      BY <2>5, <2>7 DEF Makes
    <3>2. QED
      BY <2>2, <2>5, <3>1 DEF Mends, PastClient, PastRole, PastTheme, PastUser
  <2>10. Replaced(work, work', a, task)
    BY <2>2, OrderlyIs DEF DrawsUp, Replaced
  <2>11. Tenancy(db, work', issued'["tenants"])
    BY <2>1, <2>5, <2>7, <2>10, TenancyPlain
  <2>12. QED
    BY <2>2, <2>8, <2>9, <2>11, ProgressDraws
<1>4. QED
  BY <1>2, <1>3

LEMMA CreateKeyKeeps ==
    ASSUME Orderly, Progress, NEW a \in Actors, CreateKey(a)
    PROVE  Progress'
<1> DEFINE row == [id |-> Main, token |-> Main]
           one == Insert({<<"admin_api_key", row>>})
<1>1. Ready(a, "granted") /\ Reads /\ issued' = issued
  BY DEF CreateKey
<1>2. PICK plan : /\ ProceedWith(a, "up", plan, NULL)
                  /\ \/ plan = <<>> /\ db["admin_api_key"] # {}
                     \/ plan = <<one>>
  BY DEF CreateKey, Proceed, Where
<1> DEFINE task == [stage |-> "up", plan |-> plan, row |-> NULL]
<1>3. DrawsUp(a, task) /\ work[a].stage = "granted" /\ work[a].plan = <<>>
      /\ (a \in calm' => Mends(db, work[a]))
  BY <1>1, <1>2, ReadsDraw
<1>4. Modest(one) /\ Mild(one)
  BY InsertModest, AnyFits, InsertMild
<1>5. plan = <<one>> => Makes(plan, "admin_api_key")
  <2>1. <<one>> # <<>> /\ <<one>>[1] = one
    OBVIOUS
  <2>2. one.insert = {<<"admin_api_key", row>>} /\ <<"admin_api_key", row>>[1] = "admin_api_key"
    BY InsertMild
  <2> HIDE DEF one, row
  <2>3. QED
    BY <2>1, <2>2 DEF Makes, Adds
<1>6. task.stage = "up" /\ task.plan = plan
  OBVIOUS
<1> HIDE DEF one
<1>7. \A write \in Writes(plan) : Modest(write) /\ Mild(write)
  <2>1. Writes(<<>>) = {} /\ Writes(<<one>>) = {one}
    BY WritesAre
  <2>2. QED
    BY <1>2, <1>4, <2>1
<1>8. a \in calm' => Mends(db, task)
  <2> HIDE DEF task
  <2>1. QED
    BY <1>2, <1>3, <1>5, <1>6 DEF Mends, PastClient, PastRole, PastTheme, PastUser
<1>9. QED
  BY <1>1, <1>2, <1>3, <1>7, <1>8, DrawsModest DEF RoleStages

LEMMA FreeIsQuiet ==
    ASSUME NEW b, Free(b)
    PROVE  Quiet(work[b])
  BY EmptyPlan DEF Free, Quiet, Midway, Granting

LEMMA BeginKeeps ==
    ASSUME Orderly, Progress, NEW a \in Actors, BeginStart(a) \/ BeginGrant(a)
    PROVE  Progress'
<1>1. PICK stage \in {"start", "grant"} : ProceedWith(a, stage, <<>>, NULL)
  BY DEF BeginStart, BeginGrant, Proceed
<1> DEFINE task == [stage |-> stage, plan |-> <<>>, row |-> NULL]
<1>2. UNCHANGED <<db, torn, issued>> /\ Free(a) /\ calm' \subseteq calm \cup {a}
  BY DEF BeginStart, BeginGrant
<1>3. a \in calm' => \A b \in Actors \ {a} : Quiet(work[b])
  BY FreeIsQuiet DEF BeginStart, BeginGrant
<1>4. DrawsUp(a, task)
  BY <1>1, <1>2, <1>3 DEF DrawsUp, Free, ProceedWith
<1>5. task.stage = stage /\ Writes(<<>>) = {}
  BY WritesAre
<1>6. Mends(db, task)
  <2> HIDE DEF task
  <2>1. QED
    BY <1>5 DEF Mends, PastClient, PastRole, PastTheme, PastUser
<1>7. QED
  BY <1>1, <1>2, <1>4, <1>5, <1>6, DrawsModest DEF RoleStages

\* The plan of a grant, and what it gives.
LEMMA GrantPlanIs ==
    ASSUME NEW user, NEW role
    PROVE  \E one, two :
            /\ GrantPlan(user, role) = <<one, two>>
            /\ Modest(one) /\ Modest(two) /\ Mild(one) /\ Mild(two)
            /\ (\E link \in db["roles_permissions"] : link.role_id = role) => Gives(two, user)
            /\ \A new \in one.insert : new[1] = "user_roles"
            /\ \A new \in two.insert : new[1] = "user_permissions"
<1> DEFINE link == [id |-> <<user, role>>, user_id |-> user, role_id |-> role]
           Right(p) == [id |-> <<user, p, role>>, user_id |-> user, permission_id |-> p,
                        from_role_id |-> role]
           mine == {link2 \in db["roles_permissions"] : link2.role_id = role}
           given == {<<"user_permissions", Right(link2.permission_id)>> : link2 \in mine}
           one == Insert({<<"user_roles", link>>})
           two == Insert(given)
<1>1. GrantPlan(user, role) = <<one, two>>
  BY DEF GrantPlan
<1>2. ASSUME NEW p PROVE Fits("user_permissions", Right(p)) /\ Right(p).user_id = user
  <2>1. /\ "user_id" \in DOMAIN Right(p) /\ Right(p).user_id = user
        /\ Right(p).id = <<user, p, role>> /\ Right(p).id[1] = user
    OBVIOUS
  <2> HIDE DEF Right
  <2>2. QED
    BY <2>1, FixedAre DEF Fits
<1>3. Modest(one) /\ Mild(one) /\ one.insert = {<<"user_roles", link>>}
  BY InsertModest, AnyFits, InsertMild
<1>4. Mild(two) /\ two.insert = given /\ two.update = {} /\ two.delete = {}
  BY InsertMild
<1> HIDE DEF Right, link
<1>5. \A new \in given : new[1] = "user_permissions" /\ Fits(new[1], new[2])
  BY <1>2
<1>6. (\E l \in db["roles_permissions"] : l.role_id = role) => \E new \in given :
        new[1] = "user_permissions" /\ new[2].user_id = user
  <2> SUFFICES ASSUME NEW l \in mine
               PROVE  \E new \in given : new[1] = "user_permissions" /\ new[2].user_id = user
    OBVIOUS
  <2>1. <<"user_permissions", Right(l.permission_id)>> \in given
    OBVIOUS
  <2>2. QED
    BY <1>2, <2>1
<1> HIDE DEF one, two, given
<1>7. Modest(two)
  BY <1>4, <1>5 DEF Modest, Steady
<1>8. \A new \in one.insert : new[1] = "user_roles"
  BY <1>3
<1>9. QED
  BY <1>1, <1>3, <1>4, <1>5, <1>6, <1>7, <1>8 DEF Gives

LEMMA GrantRoleKeeps ==
    ASSUME Orderly, Progress, NEW a \in Actors, GrantAdminRole(a)
    PROVE  Progress'
<1>1. Ready(a, "grantRole") /\ Reads /\ issued' = issued
  BY DEF GrantAdminRole
<1>2. PICK stage, plan :
        /\ stage \in {"idle", "request"}
        /\ ProceedWith(a, stage, plan, NULL)
        /\ plan = <<>> \/ \E user, role : plan = GrantPlan(user, role)
  BY DEF GrantAdminRole, Proceed
<1> DEFINE task == [stage |-> stage, plan |-> plan, row |-> NULL]
<1>3. DrawsUp(a, task)
  BY <1>1, <1>2, ReadsDraw
<1>4. \A write \in Writes(plan) : Modest(write)
  <2>1. CASE plan = <<>>
    BY <2>1, WritesAre
  <2>2. ASSUME NEW user, NEW role, plan = GrantPlan(user, role)
        PROVE  \A write \in Writes(plan) : Modest(write)
    <3>1. PICK one, two : plan = <<one, two>> /\ Modest(one) /\ Modest(two)
      BY <2>2, GrantPlanIs
    <3>2. Writes(<<one, two>>) = {one, two}
      BY WritesAre
    <3>3. QED
      BY <3>1, <3>2
  <2>3. QED
    BY <1>2, <2>1, <2>2
<1>5. Mends(db, task)
  <2>1. task.stage = stage
    OBVIOUS
  <2> HIDE DEF task
  <2>2. QED
    BY <1>2, <2>1 DEF Mends, PastClient, PastRole, PastTheme, PastUser
<1>6. QED
  BY <1>1, <1>2, <1>3, <1>4, <1>5, DrawsModest DEF RoleStages, StartStages

\* Between the halves of the main user: nobody else is calm meanwhile.
LEMMA GrantToNewKeeps ==
    ASSUME Orderly, Progress, NEW a \in Actors, GrantToNew(a)
    PROVE  Progress'
<1> DEFINE user == work[a].row
           role == Only(AdminRoles).id
<1>1. /\ work[a].stage = "user" /\ work[a].plan = <<>>
      /\ UNCHANGED <<db, issued, calm>>
  BY DEF GrantToNew, Ready
<1>2. PICK plan :
        /\ ProceedWith(a, "granted", plan, NULL)
        /\ \/ plan = <<>> /\ "admin" \in torn'
           \/ AdminRoles # {} /\ plan = GrantPlan(user, role)
        /\ torn \subseteq torn'
  BY DEF GrantToNew, Proceed
<1> DEFINE task == [stage |-> "granted", plan |-> plan, row |-> NULL]
<1>3. Replaced(work, work', a, task)
  BY <1>2, OrderlyIs DEF ProceedWith, Replaced
<1>4. task.stage = "granted" /\ task.plan = plan /\ DOMAIN task = {"stage", "plan", "row"}
  OBVIOUS
<1> HIDE DEF task
<1>5. /\ \A write \in Writes(plan) : Modest(write) /\ Mild(write)
      /\ torn' = {} => GrantingTo(task, user)
  <2>1. CASE plan = <<>> /\ "admin" \in torn'
    BY <2>1, WritesAre
  <2>2. CASE AdminRoles # {} /\ plan = GrantPlan(user, role)
    <3>1. PICK one, two :
            /\ plan = <<one, two>>
            /\ Modest(one) /\ Modest(two) /\ Mild(one) /\ Mild(two)
            /\ (\E link \in db["roles_permissions"] : link.role_id = role) => Gives(two, user)
      BY <2>2, GrantPlanIs
    <3>2. Writes(<<one, two>>) = {one, two}
      BY WritesAre
    <3>3. ASSUME torn = {}
          PROVE  \E link \in db["roles_permissions"] : link.role_id = role
      <4>1. Only(AdminRoles) \in db["roles"]
        BY <2>2, PermissionsAre DEF Only, Progress
      <4>2. QED
        BY <3>3, <4>1 DEF Progress, Linked
    <3>4. plan # <<>> /\ Len(plan) = 2 /\ plan[2] = two
      BY <3>1
    <3>5. Final(plan) = two
      BY <3>4 DEF Final
    <3>6. torn' = {} => GrantingTo(task, user)
      BY <1>2, <1>4, <3>1, <3>3, <3>4, <3>5 DEF GrantingTo
    <3>7. QED
      BY <3>1, <3>2, <3>6
  <2>3. QED
    BY <1>2, <2>1, <2>2
<1>6. TaskOK(task) /\ Homely(plan) /\ ~Midway(task)
  BY <1>4, <1>5 DEF TaskOK, Homely, Modest, Adds, Midway, RoleStages
<1>7. Tenancy(db, work', issued'["tenants"])
  BY <1>1, <1>3, <1>4, <1>6, TenancyPlain
<1>8. ~Midway(work[a]) /\ Granting(work[a])
  BY <1>1, EmptyPlan DEF Midway, Granting
<1>9. RowsFit(db') /\ Linked(db', torn') /\ calm' \subseteq Actors /\ \A b \in Actors : TaskOK(work'[b])
  <2>1. Linked(db, torn) => Linked(db, torn')
    BY <1>2 DEF Linked
  <2>2. QED
    BY <1>1, <1>3, <1>6, <2>1 DEF Progress, Replaced
<1>10. Halves(db', work', torn')
  BY <1>1, <1>2, <1>3, <1>8 DEF Halves, Progress, Replaced
<1>11. Grants(db', work', torn')
  <2> SUFFICES ASSUME torn' = {}, NEW u \in db["users"]
               PROVE  Held(db, u.id) \/ \E b \in Actors : GrantingTo(work'[b], u.id)
    BY <1>1 DEF Grants
  <2>1. torn = {}
    BY <1>2
  <2>2. Held(db, u.id) \/ \E b \in Actors : GrantingTo(work[b], u.id)
    BY <2>1 DEF Progress, Grants
  <2>3. GrantingTo(work[a], u.id) => u.id = user
    BY <1>1 DEF GrantingTo
  <2>4. QED
    BY <1>3, <1>5, <2>2, <2>3 DEF Replaced
<1>12. Calm(db', work', calm')
  <2>1. calm \subseteq {a}
    BY <1>8 DEF Progress, Calm, Quiet
  <2>2. ASSUME a \in calm PROVE Mends(db, task)
    <3>1. Mends(db, work[a])
      BY <2>2 DEF Progress, Calm
    <3>2. QED
      BY <1>1, <1>4, <3>1 DEF Mends, PastClient, PastRole, PastTheme, PastUser, Makes
  <2>3. QED
    BY <1>1, <1>3, <2>1, <2>2 DEF Progress, Calm, Replaced
<1>13. QED
  BY <1>1, <1>7, <1>9, <1>10, <1>11, <1>12 DEF Progress

-----------------------------------------------------------------------------
(* What a start repairs.                                                     *)

LEMMA ProgressAtFirst ==
    ASSUME AllInit
    PROVE  Progress
<1>1. /\ \A table \in Tables : db[table] = {}
      /\ calm = {} /\ issued["tenants"] = 0 /\ \A b \in Actors : work[b] = Idle
  BY RoutesAssumption DEF AllInit, Init, NumberedTables
<1>2. RowsFit(db)
  BY <1>1 DEF RowsFit
<1>3. db["tenants"] = {} /\ db["clients"] = {} /\ db["permissions"] = {} /\ db["users"] = {}
      /\ db["roles"] = {}
  BY <1>1, TenantTablesHere, MendTablesHere, RoleTablesHere
<1>4. Tenancy(db, work, issued["tenants"])
  <2>1. ASSUME NEW row, NEW table \in {"tenants", "clients"} PROVE ~MayBe(row, table, db, work)
    BY <1>1, <1>3, IdleIs DEF MayBe
  <2>2. ASSUME NEW i PROVE ~Chosen(i, db, work)
    BY <1>1, <2>1, IdleIs DEF Chosen
  <2>3. QED
    BY <2>1, <2>2 DEF Tenancy
<1>5. QED
  BY <1>1, <1>2, <1>3, <1>4, IdleIs DEF Progress, Linked, Halves, Grants, Calm

LEMMA ProgressStep ==
    ASSUME Orderly, Progress, NEW a \in Actors, Administrate(a) \/ Commands(a)
    PROVE  Progress'
<1>1. CASE Administrate(a)
  BY <1>1, AdministrateKeeps
<1>2. CASE InitAll(a)
  <2>1. CASE Stumble(a)
    BY <2>1, ProgressEnds DEF Stumble
  <2>2. QED
    BY <1>2, <2>1, InitTenantKeeps, InitClientKeeps, InitRoleKeeps, InitThemeKeeps,
       TemplatesKeep DEF InitAll
<1>3. CASE RunServer(a)
  BY <1>2, <1>3, BeginKeeps, InitRoleKeeps, CreateAdminKeeps, GrantToNewKeeps, CreateKeyKeeps
     DEF RunServer
<1>4. CASE Commit(a)
  <2>1. CASE Accepts(db, Head(work[a].plan))
    BY <1>4, <2>1, ProgressCommits
  <2>2. CASE ~Accepts(db, Head(work[a].plan))
    BY <1>4, <2>2, ProgressEnds DEF Commit
  <2>3. QED
    BY <2>1, <2>2
<1>5. CASE Die(a)
  BY <1>5, ProgressEnds DEF Die
<1>6. QED
  BY <1>1, <1>3, <1>4, <1>5, BeginKeeps, InitRoleKeeps, GrantRoleKeeps DEF Commands

LEMMA RepairTablesHere ==
    /\ "clients" \in Tables /\ "tenants" \in Tables /\ "user_permissions" \in Tables
    /\ "permissions" \in Tables /\ "roles" \in Tables /\ "users" \in Tables
  BY RoutesAssumption DEF RouteTables

LEMMA ProgressRepairs ==
    ASSUME Orderly, Progress
    PROVE  StartsRepair
<1> SUFFICES ASSUME NEW a \in calm, Ready(a, "up")
             PROVE  /\ \E tenant \in DefaultTenants : \E client \in MainClients :
                        client.tenant_id = tenant.id
                    /\ DefaultThemes # {}
                    /\ TemplateTypes \subseteq Ids(db, "email_templates")
                    /\ MayUseApi
                    /\ "role" \notin torn => AdminRoles # {}
                    /\ torn = {} => MayUseDashboard
  BY DEF StartsRepair
<1>1. /\ a \in Actors /\ work[a].stage = "up" /\ work[a].plan = <<>>
      /\ \A b \in Actors \ {a} : Quiet(work[b])
      /\ Mends(db, work[a])
  BY DEF Progress, Calm, Ready
<1>2. /\ HasClient(db) /\ db["permissions"] # {} /\ Defaults(db) # {} /\ HasTemplates(db)
      /\ db["users"] # {} /\ db["admin_api_key"] # {}
  BY <1>1 DEF Mends, PastClient, PastRole, PastTheme, PastUser, Makes
<1>3. \A b \in Actors : Quiet(work[b])
  BY <1>1 DEF Quiet, Midway, Granting, RoleStages
<1>4. \E tenant \in DefaultTenants : \E client \in MainClients : client.tenant_id = tenant.id
  <2>1. PICK client \in db["clients"] : client.client_id = Main
    BY <1>2 DEF HasClient
  <2>2. PICK tenant \in db["tenants"] : tenant.id = client.tenant_id
    BY OrderlyRows DEF RowsBelong, Belongs, Ids
  <2>3. Chosen(client.tenant_id, db, work)
    BY <2>1 DEF Chosen, MayBe
  <2>4. tenant.default = TRUE
    BY <2>2, <2>3 DEF Progress, Tenancy, MayBe
  <2>5. QED
    BY <2>1, <2>2, <2>4 DEF DefaultTenants, MainClients, Where
<1>5. "role" \notin torn => AdminRoles # {}
  BY <1>2, <1>3, PermissionsAre DEF Progress, Halves, Quiet
<1>6. torn = {} => MayUseDashboard
  <2> SUFFICES ASSUME torn = {} PROVE MayUseDashboard
    OBVIOUS
  <2>1. PICK user \in db["users"] : TRUE
    BY <1>2
  <2>2. Held(db, user.id)
    BY <1>3, GrantingIs DEF Progress, Grants, Quiet
  <2>3. PICK held \in db["user_permissions"] : held.user_id = user.id
    BY <2>2 DEF Held
  <2>4. Owner("permission_id", "permissions") \in KeysOf("user_permissions")
    BY RepairTablesHere, RouteTablesAre, KeyParts DEF KeysOf, Table, HeldTables
  <2>5. held.permission_id \in Ids(db, "permissions")
    BY <2>4, OwnersAreThere, RepairTablesHere DEF Orderly, Belongs
  <2>6. QED
    BY <2>3, <2>5, PermissionsAre DEF Ids, MayUseDashboard, Progress
<1>7. DefaultThemes # {} /\ MayUseApi /\ TemplateTypes \subseteq Ids(db, "email_templates")
  BY <1>2 DEF DefaultThemes, Where, Defaults, MayUseApi, HasTemplates
<1>8. QED
  BY <1>4, <1>5, <1>6, <1>7

\* A server that has started calmly, which is to say that nobody else committed
\* meanwhile, finds everything in place, whatever others have left or deleted; the
\* role and the main user's grant only if no command has died or failed between
\* their commits and nobody has deleted the role, the permission or the grant.
THEOREM StartsMend == Spec => []StartsRepair
<1>1. AllInit => Orderly /\ SingleDefault /\ Progress
  BY OrderlyAtFirst, SingleAtFirst, ProgressAtFirst
<1>2. Orderly /\ Progress /\ [AllNext]_allVars => Progress'
  <2> SUFFICES ASSUME Orderly, Progress, [AllNext]_allVars PROVE Progress'
    OBVIOUS
  <2>1. CASE AllNext
    BY <2>1, ProgressStep DEF AllNext
  <2>2. CASE UNCHANGED allVars
    BY <2>2 DEF allVars, vars, Progress
  <2>3. QED
    BY <2>1, <2>2
<1>3. Orderly /\ Progress => StartsRepair
  BY ProgressRepairs
<1>4. QED
  BY <1>1, <1>2, <1>3, OrderKept, PTL DEF Spec
=============================================================================
