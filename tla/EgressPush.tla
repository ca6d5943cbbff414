------------------------------- MODULE EgressPush -------------------------------
(***************************************************************************)
(* The push of the egress policy: the store and EgressManager.sync         *)
(* (orchestrator/src/egress.ts), the loops that call it, the control       *)
(* channel and the push queue of the proxy (proxy/src/control.ts, main.ts) *)
(* and the controller of the interception engine (proxy/src/inject.ts).    *)
(*                                                                         *)
(* A policy is a version and whether it has credentials: what it allows is *)
(* the matter of EgressRules. Version 0 is the policy of a new proxy.      *)
(***************************************************************************)
EXTENDS Naturals, Sequences, SequencesExt

CONSTANTS Caller,        \* callers of sync: the loop and the writes of the store
          Loop,          \* the boot and the reconciler, one after the other
          Nobody,        \* the caller of a push that nobody waits for
          MaxWrites,     \* bound: writes of the store
          MaxMishaps     \* bound: restarts, timeouts, lost pushes and answers, failed engines

ASSUME LoopIsACaller == Loop \in Caller /\ Nobody \notin Caller
ASSUME PushBounds == MaxWrites \in Nat /\ MaxMishaps \in Nat

VARIABLES
  \* The orchestrator.
  store,       \* what composePolicy builds from the tables
  waiting,     \* the callers that await controlCall
  health,      \* EgressManager.health
  \* The channel.
  onWire,      \* the pushes that have not reached the proxy
  answers,     \* the answers that have not reached the orchestrator
  \* The proxy.
  policy,      \* main.ts: policy
  applied,     \* main.ts: applied
  queue,       \* main.ts: pushes, with the one that is applied at the head
  previous,    \* the previous policy, while a push is applied
  applying,    \* the head of the queue is past its first statement
  engine,      \* Interceptor.server runs
  refused,     \* main.ts: refusedTokens is not empty
  \* For the properties.
  owed,        \* a refusal that the orchestrator has not heard of, and no mishap has dropped
  mishaps

pushVars == <<store, waiting, health, onWire, answers, policy, applied, queue, previous,
              applying, engine, refused, owed, mishaps>>
proxyVars == <<policy, applied, queue, previous, applying, engine>>

Policy == [version : 0..(MaxWrites + 1), secrets : BOOLEAN]
EmptyPolicy == [version |-> 0, secrets |-> FALSE]
Push == [caller : Caller \cup {Nobody}, policy : Policy]
PushAnswer == [caller : Caller, ok : BOOLEAN, refused : BOOLEAN]

PushTypeOK ==
  /\ store \in Policy
  /\ waiting \subseteq Caller
  /\ health \in {"unknown", "inSync", "error"}
  /\ onWire \subseteq Push
  /\ answers \subseteq PushAnswer
  /\ policy \in Policy /\ previous \in Policy
  /\ applied \in BOOLEAN /\ applying \in BOOLEAN /\ engine \in BOOLEAN
  /\ queue \in Seq(Push)
  /\ refused \in BOOLEAN /\ owed \in BOOLEAN
  /\ mishaps \in 0..MaxMishaps

PushInit ==
  /\ store \in {[version |-> 1, secrets |-> s] : s \in BOOLEAN}
  /\ waiting = {} /\ health = "unknown"
  /\ onWire = {} /\ answers = {}
  /\ policy = EmptyPolicy /\ previous = EmptyPolicy
  /\ applied = FALSE /\ applying = FALSE /\ engine = FALSE
  /\ queue = <<>>
  /\ refused = FALSE /\ owed = FALSE
  /\ mishaps = 0

Mishap == mishaps < MaxMishaps /\ mishaps' = mishaps + 1

(***************************************************************************)
(* The orchestrator.                                                       *)
(***************************************************************************)

\* sync up to its await: the policy is composed in the same step as the call.
Sync(c, composed) ==
  /\ waiting' = waiting \cup {c}
  /\ onWire' = onWire \cup {[caller |-> c, policy |-> composed]}

\* A write of the store, and repushPolicy: the push is not awaited by the write.
StoreWrites(c, secrets) ==
  /\ c # Loop /\ c \notin waiting
  /\ store.version <= MaxWrites
  /\ store' = [version |-> store.version + 1, secrets |-> secrets]
  /\ Sync(c, store')
  /\ UNCHANGED <<health, answers, proxyVars, refused, owed, mishaps>>

\* A mutant: the tick pushes only what the last answer calls out of sync.
LoopSyncs_OutOfSync ==
  /\ Loop \notin waiting
  /\ health # "inSync"
  /\ Sync(Loop, store)
  /\ UNCHANGED <<store, health, answers, proxyVars, refused, owed, mishaps>>

\* The push at boot, and the one of each tick of the reconciler, which does not overlap.
LoopSyncs ==
  /\ Loop \notin waiting
  /\ Sync(Loop, store)
  /\ UNCHANGED <<store, health, answers, proxyVars, refused, owed, mishaps>>

\* The answer arrives: health is what this answer says, and the refused tokens
\* go to onRefused.
PushAnswerArrives(a) ==
  /\ a \in answers
  /\ answers' = answers \ {a}
  /\ waiting' = waiting \ {a.caller}
  /\ health' = IF a.ok THEN "inSync" ELSE "error"
  /\ owed' = (owed /\ ~a.refused)
  /\ UNCHANGED <<store, onWire, proxyVars, refused, mishaps>>

\* Nobody waits for what caller c has sent: the push itself goes on.
ForgetCallers(callers) ==
  /\ onWire' = {IF p.caller \in callers THEN [p EXCEPT !.caller = Nobody] ELSE p : p \in onWire}
  /\ queue' = [i \in DOMAIN queue |->
                 IF queue[i].caller \in callers THEN [queue[i] EXCEPT !.caller = Nobody]
                                                ELSE queue[i]]
  /\ answers' = {a \in answers : a.caller \notin callers}
  /\ owed' = (owed /\ \A a \in answers : a.caller \in callers => ~a.refused)

\* controlCall fails: its time limit ends while the push can be anywhere, or the
\* connection is lost.
CallFails(c) ==
  /\ Mishap
  /\ c \in waiting
  /\ waiting' = waiting \ {c}
  /\ health' = "error"
  /\ ForgetCallers({c})
  /\ UNCHANGED <<store, policy, applied, previous, applying, engine, refused>>

\* A push is lost with its connection, and its caller sees the error.
PushIsLost(p) ==
  /\ Mishap
  /\ p \in onWire
  /\ onWire' = onWire \ {p}
  /\ waiting' = waiting \ {p.caller}
  /\ health' = IF p.caller = Nobody THEN health ELSE "error"
  /\ UNCHANGED <<store, answers, proxyVars, refused, owed>>

\* The orchestrator restarts: the tables stay, and every call of it is gone.
OrchestratorRestarts ==
  /\ Mishap
  /\ waiting' = {}
  /\ health' = "unknown"
  /\ ForgetCallers(Caller)
  /\ UNCHANGED <<store, policy, applied, previous, applying, engine, refused>>

(***************************************************************************)
(* The proxy.                                                              *)
(***************************************************************************)

\* The body of a push has arrived. Pushes can overtake each other on the way.
PushArrives(p) ==
  /\ p \in onWire
  /\ onWire' = onWire \ {p}
  /\ queue' = Append(queue, p)
  /\ UNCHANGED <<store, waiting, health, answers, policy, applied, previous, applying,
                 engine, refused, owed, mishaps>>

\* The push at the head has ended: its answer goes out, a good one with the
\* refused tokens so far, and the next push begins.
EndPush(ok) ==
  LET caller == Head(queue).caller
      taken == ok /\ refused
  IN /\ queue' = Tail(queue)
     /\ applying' = FALSE
     /\ previous' = EmptyPolicy
     /\ refused' = (refused /\ ~ok)
     /\ answers' = IF caller = Nobody THEN answers
                   ELSE answers \cup {[caller |-> caller, ok |-> ok, refused |-> taken]}
     \* The answer of a push that nobody waits for drops what it carries.
     /\ owed' = (owed /\ ~(caller = Nobody /\ taken))

\* The work of a push begins. The new policy is live at once, also while its
\* engine starts, and an engine that it does not need stops.
PushBegins ==
  /\ queue # <<>> /\ ~applying
  /\ applying' = TRUE
  /\ previous' = policy
  /\ policy' = Head(queue).policy
  /\ engine' = (engine /\ policy'.secrets)
  /\ UNCHANGED <<store, waiting, health, onWire, answers, applied, queue, refused, owed, mishaps>>

\* applyNow has ended well: the engine of a policy with credentials runs.
PushSucceeds ==
  /\ applying
  /\ engine' = policy.secrets
  /\ applied' = TRUE
  /\ EndPush(TRUE)
  /\ UNCHANGED <<store, waiting, health, onWire, policy, mishaps>>

\* A mutant: the refused policy stays.
PushFails_NoRollback ==
  /\ Mishap
  /\ applying /\ policy.secrets /\ ~engine
  /\ UNCHANGED <<policy, engine, applied>>
  /\ EndPush(FALSE)
  /\ UNCHANGED <<store, waiting, health, onWire>>

\* The engine does not start. The previous policy is live again, and the engine
\* is applied to it, an error of which is ignored.
PushFails ==
  /\ Mishap
  /\ applying /\ policy.secrets /\ ~engine
  /\ policy' = previous
  /\ engine' \in IF previous.secrets THEN BOOLEAN ELSE {FALSE}
  /\ EndPush(FALSE)
  /\ UNCHANGED <<store, waiting, health, onWire, applied>>

\* A server refuses an OAuth token that the engine has swapped in.
ServerRefuses ==
  /\ engine /\ policy.secrets
  /\ ~refused
  /\ refused' = TRUE
  /\ owed' = TRUE
  /\ UNCHANGED <<store, waiting, health, onWire, answers, proxyVars, mishaps>>

\* The proxy restarts with no policy. The calls that it had not answered fail.
ProxyRestarts ==
  LET cut == {queue[i].caller : i \in DOMAIN queue} \ {Nobody}
  IN /\ Mishap
     /\ policy' = EmptyPolicy /\ previous' = EmptyPolicy
     /\ applied' = FALSE /\ applying' = FALSE /\ engine' = FALSE
     /\ queue' = <<>>
     /\ refused' = FALSE
     /\ owed' = (owed /\ ~refused)
     /\ waiting' = waiting \ cut
     /\ health' = IF cut = {} THEN health ELSE "error"
     /\ UNCHANGED <<store, onWire, answers>>

PushNext ==
  \/ \E c \in Caller, secrets \in BOOLEAN : StoreWrites(c, secrets)
  \/ LoopSyncs
  \/ \E a \in answers : PushAnswerArrives(a)
  \/ \E c \in Caller : CallFails(c)
  \/ \E p \in onWire : PushIsLost(p) \/ PushArrives(p)
  \/ OrchestratorRestarts \/ ProxyRestarts
  \/ PushBegins \/ PushSucceeds \/ PushFails
  \/ ServerRefuses

\* The loop ticks every minute, a push is lost or arrives, the queue of the proxy
\* goes on, and an answer arrives or its caller gives up, which is a mishap.
PushFairness ==
  /\ WF_pushVars(LoopSyncs)
  /\ WF_pushVars(PushBegins)
  /\ WF_pushVars(PushSucceeds)
  /\ \A c \in Caller \cup {Nobody} :
       /\ WF_pushVars(\E p \in onWire : p.caller = c /\ PushArrives(p))
       /\ WF_pushVars(\E a \in answers : a.caller = c /\ PushAnswerArrives(a))

PushSpec == PushInit /\ [][PushNext]_pushVars /\ PushFairness

(***************************************************************************)
(* Properties.                                                             *)
(***************************************************************************)

\* Between two pushes, a policy with credentials has an engine that swaps them in
\* (the rollback of main.ts), and a proxy that was never pushed to has no policy.
SecretsHaveEngine ==
  ~applying => /\ policy.secrets = engine
               /\ applied \/ policy = EmptyPolicy

\* A refused token reaches onRefused, unless an answer is lost or the proxy
\* restarts: a push that fails leaves the report for the next one.
RefusalIsReported ==
  owed => \/ refused
          \/ \E a \in answers : a.refused /\ a.caller \in waiting

\* What the proxy holds, and what it reports of it, survive the pushes that fail.
PushIsWhole == SecretsHaveEngine /\ RefusalIsReported

\* The proxy ends up with the policy of the store, however the pushes overtake
\* each other and whatever restarts, and the health says so.
PolicyConverges == <>[](policy.version = store.version /\ health = "inSync")
=============================================================================
