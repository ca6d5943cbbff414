----------------------------- MODULE Notifications -----------------------------
(***************************************************************************)
(* Web Push: the subscriptions of the browsers, and the messages that the  *)
(* orchestrator sends to them.  The browser side is stores/push.ts of the  *)
(* dashboard and its service worker (dashboard/public/sw.js); the other    *)
(* side is the routes /api/push (app.ts), the table push_subscriptions     *)
(* (db.ts), Notifier (notify.ts) and sendPush (push.ts).                   *)
(*                                                                         *)
(* A subscription is its endpoint, a number; it is made for one VAPID key. *)
(* Each browser runs at most three tasks at once: the refresh of a page    *)
(* that loads, the switch of the settings (on or off, never both), and the *)
(* service worker.  Each await is a step.                                  *)
(***************************************************************************)
EXTENDS Naturals, FiniteSets

CONSTANTS Device,        \* the browsers
          Person,        \* the users
          MaxVapid,      \* bound: VAPID keys of the deployment
          MaxEndpoints,  \* bound: subscriptions that are made
          MaxRounds,     \* bound: events that are notified
          MaxMissed      \* bound: calls that fail, and users that change

ASSUME PushBoundsAssumption == MaxVapid \in Nat \ {0} /\ MaxEndpoints \in Nat /\ MaxRounds \in Nat /\ MaxMissed \in Nat

VARIABLES
  \* The deployment.
  vapid,       \* the keypair of the deployment, 0 before the first use
  subscribers, \* the table push_subscriptions
  round,       \* the event that is being notified: its rows, which of them wait for
               \* an answer, and which were reached
  rounds,
  \* The push service and the browsers.
  made,        \* the key that each endpoint was made for, 0 before it is made
  alive,       \* the endpoints that the push service serves
  person,      \* who uses each browser
  held,        \* pushManager.getSubscription() of each browser, 0 for none
  says,        \* PushState.subscribed of the page
  task,        \* what each browser does
  missed,
  \* For the properties.
  crossed,     \* the endpoints whose row names a key that was replaced while it was asked for
  upset        \* the page has not looked at its subscription since something else changed it

deploymentVars == <<vapid, subscribers, round, rounds>>
pushBrowserVars == <<made, alive, person, held, says, task>>
notifyVars == <<deploymentVars, pushBrowserVars, missed, crossed, upset>>

Endpoint == 1..MaxEndpoints
TaskName == {"refresh", "switch", "worker"}
NoTask == [step |-> "idle", kind |-> "none", at |-> 0, key |-> 0]
NoRound == [rows |-> {}, open |-> {}, reached |-> {}, faulty |-> FALSE]

PushTypeOK ==
  /\ vapid \in 0..MaxVapid
  /\ DOMAIN subscribers \subseteq Endpoint
  /\ \A e \in DOMAIN subscribers : subscribers[e] \in [owner : Person, key : 1..MaxVapid]
  /\ made \in [Endpoint -> 0..MaxVapid]
  /\ alive \subseteq {e \in Endpoint : made[e] # 0}
  /\ held \in [Device -> Endpoint \cup {0}]
  /\ says \in [Device -> BOOLEAN]

NotifyInit ==
  /\ vapid = 0 /\ subscribers = [e \in {} |-> 0] /\ round = NoRound /\ rounds = 0
  /\ made = [e \in Endpoint |-> 0] /\ alive = {}
  /\ person \in [Device -> Person]
  /\ held = [d \in Device |-> 0] /\ says = [d \in Device |-> FALSE]
  /\ task = [d \in Device |-> [k \in TaskName |-> NoTask]]
  /\ missed = 0 /\ crossed = {} /\ upset = [d \in Device |-> FALSE]

(***************************************************************************)
(* The deployment.                                                         *)
(***************************************************************************)

\* loadVapidKeys: the first use makes the keypair.
Vapid == IF vapid = 0 THEN 1 ELSE vapid

Without(es) == [e \in DOMAIN subscribers \ es |-> subscribers[e]]

\* A mutant: the row keeps the owner and the key that it had.
Upserted_Kept(e, user) ==
  [f \in DOMAIN subscribers \cup {e} |->
     IF f \in DOMAIN subscribers THEN subscribers[f] ELSE [owner |-> user, key |-> Vapid]]

\* upsertPushSubscription: the row of the endpoint moves to the user of the request, with
\* the key of now.
Upserted(e, user) ==
  [f \in DOMAIN subscribers \cup {e} |->
     IF f = e THEN [owner |-> user, key |-> Vapid] ELSE subscribers[f]]

\* deleteOwnPushSubscription.
OwnDeleted(e, user) ==
  IF e \in DOMAIN subscribers /\ subscribers[e].owner = user THEN Without({e}) ELSE subscribers

\* The operator removes the key and restarts the orchestrator.
KeyIsReplaced ==
  /\ vapid \in 1..(MaxVapid - 1)
  /\ vapid' = vapid + 1 /\ round' = NoRound
  /\ upset' = [d \in Device |-> TRUE]
  /\ UNCHANGED <<subscribers, rounds, pushBrowserVars, missed, crossed>>

\* Notifier.push: the rows of the owner of the box, without those of another key.
EventIsNotified(user) ==
  LET stored == {e \in DOMAIN subscribers : subscribers[e].owner = user}
      fit == {e \in stored : subscribers[e].key = Vapid}
  IN  /\ round.open = {} /\ rounds < MaxRounds /\ stored # {}
      /\ vapid' = Vapid
      /\ subscribers' = Without({e \in DOMAIN subscribers : subscribers[e].key # Vapid})
      /\ round' = [rows |-> stored, open |-> fit, reached |-> {}, faulty |-> FALSE] /\ rounds' = rounds + 1
      /\ UNCHANGED <<pushBrowserVars, missed, crossed, upset>>

\* sendPush answers for one row: the service does not know the endpoint any more, or it
\* takes or refuses the message.
RowIsAnswered(e) ==
  /\ e \in round.open
  /\ round' = [round EXCEPT !.open = @ \ {e},
                            !.reached = @ \cup {f \in {e} \cap alive : made[f] = vapid}]
  /\ subscribers' = IF e \in alive THEN subscribers ELSE Without({e})
  /\ UNCHANGED <<vapid, rounds, pushBrowserVars, missed, crossed, upset>>

\* The service does not answer in time, or answers with an error of its own.
RowIsNotAnswered(e) ==
  /\ e \in round.open /\ missed < MaxMissed
  /\ round' = [round EXCEPT !.open = @ \ {e}, !.faulty = TRUE] /\ missed' = missed + 1
  /\ UNCHANGED <<vapid, subscribers, rounds, pushBrowserVars, crossed, upset>>

(***************************************************************************)
(* The browser.                                                            *)
(***************************************************************************)

Does(d, k, step) == task[d][k].step = step
Moves(d, k, step) == task' = [task EXCEPT ![d][k].step = step]
Others(d, k) == \E j \in TaskName \ {k} : task[d][j] # NoTask

\* The task ends, and the page shows what has come of it.
Finishes(d, k, subscribed) ==
  /\ task' = [task EXCEPT ![d][k] = NoTask]
  /\ says' = [says EXCEPT ![d] = subscribed]
\* The worker has no page, and an enable that fails leaves what the page shows.
Fails(d, k) ==
  IF k = "refresh" THEN Finishes(d, k, FALSE)
  ELSE task' = [task EXCEPT ![d][k] = NoTask] /\ UNCHANGED says

\* refreshPush, enablePush, disablePush and pushsubscriptionchange begin.
TaskBegins(d, k, kind, step) ==
  /\ task[d][k] = NoTask
  /\ task' = [task EXCEPT ![d][k] = [step |-> step, kind |-> kind, at |-> 0, key |-> 0]]
  /\ upset' = [upset EXCEPT ![d] = (k # "refresh" /\ @) \/ Others(d, k) \/ k = "worker"]

PageLoads(d) ==
  /\ task[d]["switch"] = NoTask
  /\ TaskBegins(d, "refresh", "refresh", "look")
  /\ says' = [says EXCEPT ![d] = FALSE]
  /\ UNCHANGED <<deploymentVars, made, alive, person, held, missed, crossed>>

SwitchIsPressed(d) ==
  /\ IF says[d] THEN TaskBegins(d, "switch", "off", "look") ELSE TaskBegins(d, "switch", "on", "key")
  /\ UNCHANGED <<deploymentVars, made, alive, person, held, says, missed, crossed>>

\* The browser drops its subscription, and wakes the worker.
SubscriptionExpires(d) ==
  /\ held[d] # 0 /\ missed < MaxMissed
  /\ alive' = alive \ {held[d]} /\ held' = [held EXCEPT ![d] = 0] /\ missed' = missed + 1
  /\ TaskBegins(d, "worker", "on", "key")
  /\ UNCHANGED <<deploymentVars, made, person, says, crossed>>

\* getSubscription.
SubscriptionIsRead(d, k) ==
  /\ Does(d, k, "look")
  /\ LET kind == task[d][k].kind
         next == CASE kind = "refresh" -> "key" [] kind = "off" -> "delete" [] kind = "on" -> "fit"
     IN  IF held[d] = 0 /\ kind # "on" THEN Finishes(d, k, FALSE)
         ELSE task' = [task EXCEPT ![d][k].at = held[d], ![d][k].step = next] /\ UNCHANGED says
  /\ UNCHANGED <<deploymentVars, made, alive, person, held, missed, crossed, upset>>

\* matchesDeployment decides what follows: the subscription fits, or goes first.
AfterLook(at, key, refresh) ==
  IF at # 0 /\ made[at] = key THEN "post" ELSE IF at = 0 THEN "subscribe" ELSE IF refresh THEN "delete" ELSE "drop"

\* GET /api/push/key.
KeyIsRead(d, k) ==
  /\ Does(d, k, "key")
  /\ vapid' = Vapid
  /\ LET t == task[d][k]
     IN  task' = [task EXCEPT ![d][k].key = Vapid,
                              ![d][k].step = IF t.kind = "refresh" THEN AfterLook(t.at, Vapid, TRUE)
                                             ELSE IF k = "worker" THEN "subscribe" ELSE "look"]
  /\ UNCHANGED <<subscribers, round, rounds, made, alive, person, held, says, missed, crossed, upset>>

SubscriptionIsMatched(d, k) ==
  /\ Does(d, k, "fit")
  /\ Moves(d, k, AfterLook(task[d][k].at, task[d][k].key, FALSE))
  /\ UNCHANGED <<deploymentVars, made, alive, person, held, says, missed, crossed, upset>>

\* DELETE /api/push/subscribe; its failure is left to the next notification.
RowIsDeleted(d, k) ==
  /\ Does(d, k, "delete")
  /\ \/ subscribers' = OwnDeleted(task[d][k].at, person[d]) /\ UNCHANGED missed
     \/ missed < MaxMissed /\ missed' = missed + 1 /\ UNCHANGED subscribers
  /\ Moves(d, k, "drop")
  /\ UNCHANGED <<vapid, round, rounds, made, alive, person, held, says, crossed, upset>>

\* PushSubscription.unsubscribe.
SubscriptionIsDropped(d, k) ==
  LET e == task[d][k].at IN
  /\ Does(d, k, "drop")
  /\ alive' = alive \ {e}
  /\ held' = [held EXCEPT ![d] = IF @ = e THEN 0 ELSE @]
  /\ IF task[d][k].kind = "off" THEN Finishes(d, k, FALSE) ELSE Moves(d, k, "subscribe") /\ UNCHANGED says
  /\ UNCHANGED <<deploymentVars, made, person, missed, crossed, upset>>

\* pushManager.subscribe: one subscription for a browser, and never for two keys.
Subscribes(d, k) ==
  LET key == task[d][k].key
      fresh == {e \in Endpoint : made[e] = 0}
  IN  /\ Does(d, k, "subscribe")
      /\ IF held[d] # 0
           THEN /\ IF made[held[d]] = key
                     THEN task' = [task EXCEPT ![d][k].at = held[d], ![d][k].step = "post"] /\ UNCHANGED says
                     ELSE Fails(d, k)
                /\ UNCHANGED <<made, alive, held>>
           ELSE /\ \E e \in fresh :
                     /\ \A f \in fresh : e <= f
                     /\ made' = [made EXCEPT ![e] = key] /\ alive' = alive \cup {e}
                     /\ held' = [held EXCEPT ![d] = e]
                     /\ task' = [task EXCEPT ![d][k].at = e, ![d][k].step = "post"]
                /\ UNCHANGED says
      /\ UNCHANGED <<deploymentVars, person, missed, crossed, upset>>

\* POST /api/push/subscribe.
RowIsPosted(d, k) ==
  LET e == task[d][k].at IN
  /\ Does(d, k, "post")
  /\ vapid' = Vapid
  /\ subscribers' = Upserted(e, person[d])
  /\ crossed' = IF made[e] = Vapid THEN crossed \ {e} ELSE crossed \cup {e}
  /\ \/ UNCHANGED missed
        /\ IF k = "worker" THEN task' = [task EXCEPT ![d][k] = NoTask] /\ UNCHANGED says
           ELSE Finishes(d, k, TRUE)
     \/ missed < MaxMissed /\ missed' = missed + 1 /\ Fails(d, k)
  /\ round' = [round EXCEPT !.rows = @ \ {e}]
  /\ UNCHANGED <<rounds, made, alive, person, held, upset>>

\* A call fails before it has done anything: the key, the subscribe, the post.
CallFails(d, k) ==
  /\ missed < MaxMissed /\ missed' = missed + 1
  /\ task[d][k].step \in {"key", "subscribe", "post"}
  /\ Fails(d, k)
  /\ UNCHANGED <<deploymentVars, made, alive, person, held, crossed, upset>>

\* Another user signs in, with a new page.
UserChanges(d, user) ==
  /\ user # person[d] /\ missed < MaxMissed /\ missed' = missed + 1
  /\ \A k \in TaskName : task[d][k] = NoTask
  /\ person' = [person EXCEPT ![d] = user]
  /\ task' = [task EXCEPT ![d]["refresh"] = [step |-> "look", kind |-> "refresh", at |-> 0, key |-> 0]]
  /\ says' = [says EXCEPT ![d] = FALSE] /\ upset' = [upset EXCEPT ![d] = FALSE]
  /\ UNCHANGED <<deploymentVars, made, alive, held, crossed>>

NotifyNext ==
  \/ KeyIsReplaced
  \/ \E u \in Person : EventIsNotified(u)
  \/ \E e \in Endpoint : RowIsAnswered(e) \/ RowIsNotAnswered(e)
  \/ \E d \in Device :
       \/ PageLoads(d) \/ SwitchIsPressed(d) \/ SubscriptionExpires(d)
       \/ \E u \in Person : UserChanges(d, u)
       \/ \E k \in TaskName :
            \/ SubscriptionIsRead(d, k) \/ KeyIsRead(d, k) \/ SubscriptionIsMatched(d, k)
            \/ RowIsDeleted(d, k) \/ SubscriptionIsDropped(d, k) \/ Subscribes(d, k)
            \/ RowIsPosted(d, k) \/ CallFails(d, k)

NotifySpec == NotifyInit /\ [][NotifyNext]_notifyVars

(***************************************************************************)
(* Properties.                                                             *)
(***************************************************************************)

\* A page that says it is subscribed has a subscription that a notification of its user
\* reaches, until something else than this page changes it: a key that is replaced, a
\* subscription that the browser drops, or two tasks of one browser at the same time.
ShownIsServed ==
  \A d \in Device :
    says[d] /\ ~upset[d] /\ (\A k \in TaskName : task[d][k] = NoTask) =>
      /\ held[d] \in alive \cap DOMAIN subscribers
      /\ subscribers[held[d]] = [owner |-> person[d], key |-> vapid]
      /\ made[held[d]] = vapid

\* Each row of a notification is reached, or it is gone (a subscription that is over, or
\* that was made for another key), so that no row is tried forever.  The exception is a row
\* whose key was replaced while its browser asked for it.
ReachedOrGone ==
  round.open = {} /\ ~round.faulty =>
    round.rows \cap DOMAIN subscribers \subseteq round.reached \cup crossed

\* The row of an endpoint names the key that the endpoint was made for, so that the drop
\* of the rows of other keys hits the right ones.
RowNamesItsKey == \A e \in DOMAIN subscribers : e \in crossed \/ subscribers[e].key = made[e]

NotificationsArrive == PushTypeOK /\ ShownIsServed /\ ReachedOrGone /\ RowNamesItsKey
=============================================================================
