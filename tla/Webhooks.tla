------------------------------- MODULE Webhooks -------------------------------
(***************************************************************************)
(* Webhooks: an event of the application is a task, which makes a task for  *)
(* every hook that has subscribed to its type; that one posts the event and *)
(* is repeated while the other side fails.                                  *)
(*                                                                         *)
(* The queue delivers a task at least once: a worker that dies leaves it to *)
(* another one, from the start and with the same count of retries.  The url *)
(* and the secret of a hook are one number, which every change increases;   *)
(* payloads, signatures, answers and delays are left out.                   *)
(***************************************************************************)
EXTENDS FiniteSets, Naturals

CONSTANTS
    Events,       \* ids of events
    Hooks,        \* ids of rows of webhooks; each is used once
    Types,        \* types of events
    MaxAttempts,  \* webhooks_max_attempts
    MaxCrashes,   \* a bound on workers that die
    MaxChanges    \* a bound on changes: the first hook to reach it ends them

ASSUME WebhookAssumption ==
    /\ IsFiniteSet(Events) /\ IsFiniteSet(Hooks) /\ IsFiniteSet(Types)
    /\ MaxAttempts \in Nat /\ MaxCrashes \in Nat /\ MaxChanges \in Nat

VARIABLES
    hooks,     \* hooks[w]: the row of webhooks
    logs,      \* the rows of webhook_logs
    trigger,   \* trigger[e]: the task trigger_webhooks of the event e
    delivery,  \* delivery[d]: the task deliver_webhook d
    crashes,   \* how many workers have died
    posts,     \* history: posts[d], how many requests the task d has made
    died,      \* history: the tasks that a worker left when it died
    changed    \* history: the tasks whose hook was changed after they read it

hookVars == <<hooks, logs, trigger, delivery, crashes, posts, died, changed>>

(* A task is named by its event, its hook and how often the trigger was run *)
(* before.                                                                  *)
Deliveries == Events \X Hooks \X (0 .. MaxCrashes)
HookOf(d) == d[2]
\* Tasks that ended with an error that is not repeated, the second after an unlogged post.
Broken == {"failed", "unlogged"}

Hook == [life: {"unused", "live", "gone"}, events: SUBSET Types, version: 0 .. MaxChanges]
Log == [of: Deliveries, attempt: 1 .. MaxAttempts + 1, success: BOOLEAN]
Trigger == [step: {"none", "queued", "sending", "done"}, type: Types, todo: SUBSET Hooks,
            run: 0 .. MaxCrashes]
Delivery == [step: {"none", "queued", "post", "log", "done"} \cup Broken, retries: 0 .. MaxAttempts,
             version: 0 .. MaxChanges, success: BOOLEAN]

HooksTypeOK ==
    /\ hooks \in [Hooks -> Hook]
    /\ logs \subseteq Log /\ \A l \in logs : hooks[HookOf(l.of)].life = "live"
    /\ trigger \in [Events -> Trigger]
    /\ delivery \in [Deliveries -> Delivery]
    /\ crashes \in 0 .. MaxCrashes
    /\ posts \in [Deliveries -> 0 .. MaxAttempts + 1 + MaxCrashes]
    /\ died \subseteq Deliveries /\ changed \subseteq Deliveries

HooksInit ==
    /\ hooks = [w \in Hooks |-> [life |-> "unused", events |-> {}, version |-> 0]]
    /\ logs = {}
    /\ trigger \in [Events -> {[step |-> "none", type |-> t, todo |-> {}, run |-> 0] : t \in Types}]
    /\ delivery = [d \in Deliveries |-> [step |-> "none", retries |-> 0, version |-> 0,
                                         success |-> FALSE]]
    /\ crashes = 0
    /\ posts = [d \in Deliveries |-> 0]
    /\ died = {} /\ changed = {}

-----------------------------------------------------------------------------
(* The administration of hooks, by the API and by the dashboard.             *)

\* get_webhook_by_id_or_404
Exists(w) == hooks[w].life = "live"
Subscribed(e, w) == Exists(w) /\ trigger[e].type \in hooks[w].events
\* The tasks that have read the hook and have not posted yet.
Aiming(w) == {d \in Deliveries : HookOf(d) = w /\ delivery[d].step = "post"}

CreateWebhook(w, types) ==
    /\ hooks[w].life = "unused"
    /\ hooks' = [hooks EXCEPT ![w].life = "live", ![w].events = types]
    /\ UNCHANGED <<logs, trigger, delivery, crashes, posts, died, changed>>

UpdateWebhook(w, types) ==
    /\ Exists(w) /\ \A v \in Hooks : hooks[v].version < MaxChanges
    /\ hooks' = [hooks EXCEPT ![w].events = types, ![w].version = @ + 1]
    /\ changed' = changed \cup Aiming(w)
    /\ UNCHANGED <<logs, trigger, delivery, crashes, posts, died>>

\* A new secret, and no other column
RegenerateWebhookSecret(w) == UpdateWebhook(w, hooks[w].events)

\* The logs go with the hook, tasks do not.
DeleteWebhook(w) ==
    /\ Exists(w)
    /\ hooks' = [hooks EXCEPT ![w] = [life |-> "gone", events |-> {}, version |-> 0]]
    /\ logs' = {l \in logs : HookOf(l.of) # w}
    /\ UNCHANGED <<trigger, delivery, crashes, posts, died, changed>>

\* The dashboard has the same four, behind forms.
CreateOnDashboard(w, types) == CreateWebhook(w, types)
UpdateOnDashboard(w, types) == UpdateWebhook(w, types)
RegenerateOnDashboard(w) == RegenerateWebhookSecret(w)
DeleteOnDashboard(w) == DeleteWebhook(w)

-----------------------------------------------------------------------------
(* The task trigger_webhooks.                                                *)

\* trigger_webhooks, after the commit of what the event tells of
TriggerWebhooks(e) ==
    /\ trigger[e].step = "none"
    /\ trigger' = [trigger EXCEPT ![e].step = "queued"]
    /\ UNCHANGED <<hooks, logs, delivery, crashes, posts, died, changed>>

BugReadHooks(e) ==
    /\ trigger[e].step = "queued"
    /\ \E some \in SUBSET {w \in Hooks : Subscribed(e, w)} :
          /\ Cardinality(some) <= 1
          /\ trigger' = [trigger EXCEPT ![e].step = "sending", ![e].todo = some]
    /\ UNCHANGED <<hooks, logs, delivery, crashes, posts, died, changed>>
ReadHooks(e) ==
    /\ trigger[e].step = "queued"
    /\ trigger' = [trigger EXCEPT ![e].step = "sending",
                                  ![e].todo = {w \in Hooks : Subscribed(e, w)}]
    /\ UNCHANGED <<hooks, logs, delivery, crashes, posts, died, changed>>

SendDelivery(e, w) ==
    /\ trigger[e].step = "sending" /\ w \in trigger[e].todo
    /\ trigger' = [trigger EXCEPT ![e].todo = @ \ {w}]
    /\ delivery' = [delivery EXCEPT ![<<e, w, trigger[e].run>>].step = "queued"]
    /\ UNCHANGED <<hooks, logs, crashes, posts, died, changed>>

AllSent(e) ==
    /\ trigger[e].step = "sending" /\ trigger[e].todo = {}
    /\ trigger' = [trigger EXCEPT ![e].step = "done"]
    /\ UNCHANGED <<hooks, logs, delivery, crashes, posts, died, changed>>

(* Those who were told before are told again.  A death after the last was    *)
(* told, which repeats them all, is left out to bound the copies.           *)
TriggerDies(e) ==
    /\ trigger[e].step = "sending" /\ trigger[e].todo # {} /\ crashes < MaxCrashes
    /\ trigger' = [trigger EXCEPT ![e].step = "queued", ![e].todo = {}, ![e].run = @ + 1]
    /\ crashes' = crashes + 1
    /\ UNCHANGED <<hooks, logs, delivery, posts, died, changed>>

-----------------------------------------------------------------------------
(* The task deliver_webhook.                                                 *)

BugFetch(d) ==
    /\ delivery[d].step = "queued"
    /\ delivery' = IF Exists(HookOf(d))
                   THEN [delivery EXCEPT ![d].step = "post",
                             ![d].version = IF delivery[d].retries = 0
                                            THEN hooks[HookOf(d)].version ELSE @]
                   ELSE [delivery EXCEPT ![d].step = "done", ![d].version = 0]
    /\ UNCHANGED <<hooks, logs, trigger, crashes, posts, died, changed>>
\* A hook that is gone ends the task, which is not repeated.
Fetch(d) ==
    /\ delivery[d].step = "queued"
    /\ delivery' = IF Exists(HookOf(d))
                   THEN [delivery EXCEPT ![d].step = "post",
                                         ![d].version = hooks[HookOf(d)].version]
                   ELSE [delivery EXCEPT ![d].step = "done", ![d].version = 0]
    /\ UNCHANGED <<hooks, logs, trigger, crashes, posts, died, changed>>

\* What httpx raises as an HTTPError is an answer like any other.
ExecuteDelivery(d, success) ==
    /\ delivery[d].step = "post"
    /\ delivery' = [delivery EXCEPT ![d].step = "log", ![d].success = success]
    /\ posts' = [posts EXCEPT ![d] = @ + 1]
    /\ changed' = changed \ {d}
    /\ UNCHANGED <<hooks, logs, trigger, crashes, died>>

Attempt(d) == delivery[d].retries + 1
ShouldRetry(d) == delivery[d].retries < MaxAttempts /\ ~delivery[d].success
\* Dramatiq puts the message back with its count increased.
Retried(d) == [delivery EXCEPT ![d].step = "queued", ![d].retries = @ + 1]

BugLogResult(d) ==
    /\ delivery[d].step = "log"
    /\ logs' = IF Exists(HookOf(d)) /\ ~ShouldRetry(d)
               THEN logs \cup {[of |-> d, attempt |-> Attempt(d), success |-> delivery[d].success]}
               ELSE logs
    /\ delivery' = IF Exists(HookOf(d)) /\ ShouldRetry(d) THEN Retried(d)
                   ELSE [delivery EXCEPT ![d].step = "done", ![d].version = 0]
    /\ UNCHANGED <<hooks, trigger, crashes, posts, died, changed>>
(* The log of a hook that is gone breaks the foreign key, and an error of   *)
(* the database is not repeated.                                            *)
LogResult(d) ==
    /\ delivery[d].step = "log"
    /\ logs' = IF Exists(HookOf(d))
               THEN logs \cup {[of |-> d, attempt |-> Attempt(d), success |-> delivery[d].success]}
               ELSE logs
    /\ delivery' = IF Exists(HookOf(d)) /\ ShouldRetry(d) THEN Retried(d)
                   ELSE [delivery EXCEPT ![d].step = "done", ![d].version = 0]
    /\ UNCHANGED <<hooks, trigger, crashes, posts, died, changed>>

(* An error of the database, or one of the post that is no HTTPError: there  *)
(* is no log, and should_retry_deliver_webhook does not repeat the task.  A  *)
(* post that was made and fails so is ExecuteDelivery and then this.         *)
DeliveryFails(d) ==
    /\ delivery[d].step \in {"queued", "post", "log"}
    /\ delivery' = [delivery EXCEPT ![d].step = IF @ = "log" THEN "unlogged" ELSE "failed",
                                    ![d].version = 0]
    /\ changed' = changed \ {d}
    /\ UNCHANGED <<hooks, logs, trigger, crashes, posts, died>>

DeliveryDies(d) ==
    /\ delivery[d].step \in {"post", "log"} /\ crashes < MaxCrashes
    /\ delivery' = [delivery EXCEPT ![d].step = "queued"]
    /\ crashes' = crashes + 1
    /\ changed' = changed \ {d}
    /\ died' = died \cup {d}
    /\ UNCHANGED <<hooks, logs, trigger, posts>>

-----------------------------------------------------------------------------
Administer(w) ==
    \/ \E types \in SUBSET Types :
          \/ CreateWebhook(w, types) \/ CreateOnDashboard(w, types)
          \/ UpdateWebhook(w, types) \/ UpdateOnDashboard(w, types)
    \/ RegenerateWebhookSecret(w) \/ RegenerateOnDashboard(w)
    \/ DeleteWebhook(w) \/ DeleteOnDashboard(w)

RunTrigger(e) == ReadHooks(e) \/ AllSent(e) \/ \E w \in Hooks : SendDelivery(e, w)
RunDelivery(d) ==
    Fetch(d) \/ LogResult(d) \/ \E success \in BOOLEAN : ExecuteDelivery(d, success)

HooksNext ==
    \/ \E w \in Hooks : Administer(w)
    \/ \E e \in Events : TriggerWebhooks(e) \/ RunTrigger(e) \/ TriggerDies(e)
    \/ \E d \in Deliveries : RunDelivery(d) \/ DeliveryFails(d) \/ DeliveryDies(d)

\* The worker takes what is in the queue, and requests time out.
Fairness ==
    /\ \A e \in Events : WF_hookVars(RunTrigger(e))
    /\ \A d \in Deliveries : WF_hookVars(RunDelivery(d))

HooksSpec == HooksInit /\ [][HooksNext]_hookVars /\ Fairness

-----------------------------------------------------------------------------
(* Properties.                                                               *)

(* The log of a hook tells what was sent to it: the attempts of a delivery  *)
(* are numbered without a gap and up to the last, and a success, if there   *)
(* is one, ends them.  One post at most is missing, the last of a task that  *)
(* broke.  Where a worker died, a post may have left no log and a success    *)
(* may be posted once more.                                                  *)
LogIsComplete ==
    \A d \in Deliveries :
        Exists(HookOf(d)) /\ d \notin died =>
            LET logged == {l \in logs : l.of = d}
                sent == posts[d] - (IF delivery[d].step \in {"log", "unlogged"} THEN 1 ELSE 0)
            IN  /\ {l.attempt : l \in logged} = 1 .. sent
                /\ \A l \in logged : l.success => l.attempt = posts[d]
                /\ Cardinality(logged) = sent

(* A post goes to the url, and is signed with the secret, that the hook has *)
(* now: each attempt reads them anew, and only those under way when they    *)
(* were changed carry the old ones.                                         *)
PostsAreAimed ==
    [][\A d \in Deliveries : posts'[d] # posts[d] /\ d \notin changed /\ Exists(HookOf(d))
           => delivery[d].version = hooks[HookOf(d)].version]_hookVars

(* Who has subscribed to an event is told of it in the end, or was tried    *)
(* webhooks_max_attempts times and once more, whatever dies on the way: only *)
(* an error that the task does not repeat can lose an event.                 *)
Told(e, w) ==
    \E run \in 0 .. MaxCrashes :
        LET d == <<e, w, run>>
        IN  /\ delivery[d].step = "done"
            /\ delivery[d].success \/ posts[d] > MaxAttempts
Lost(e, w) == \E run \in 0 .. MaxCrashes : delivery[<<e, w, run>>].step \in Broken
EventsAreTold ==
    \A e \in Events, w \in Hooks :
        trigger[e].step = "queued" /\ Subscribed(e, w) ~> Told(e, w) \/ Lost(e, w) \/ ~Subscribed(e, w)
=============================================================================
