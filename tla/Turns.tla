--------------------------------- MODULE Turns ---------------------------------
(***************************************************************************)
(* What the gateway believes about the work on one thread: the prompts it  *)
(* forwards and the flag of the running turn (UpstreamBox.forwardRequest,  *)
(* upstream.ts), the count of prompts in flight and the relay of the full  *)
(* history (broadcast.ts), and the reading of the update stream with its   *)
(* two timers (Activity, activity.ts).                                     *)
(*                                                                         *)
(* A request of a browser is a flow: it awaits the start of the adapter,   *)
(* then looks at the state and changes it in one step, then awaits the     *)
(* answer of the adapter.                                                  *)
(***************************************************************************)
EXTENDS Naturals, FiniteSets

CONSTANTS Prompt,       \* the prompts that browsers send; each can be sent again
          Load,         \* the loads of the full history that browsers ask for
          NoLoad,       \* no load
          MaxUpdates,   \* bound: updates of the agent and prompts of the browsers
          MaxEnds       \* bound: adapters that exit, stops, and restarts of the orchestrator

ASSUME NoLoadAssumption == NoLoad \notin Load
ASSUME TurnsFinite == IsFiniteSet(Prompt)
ASSUME TurnBounds == MaxUpdates \in Nat /\ MaxEnds \in Nat

VARIABLES
  \* The adapter.
  adapterUp,   \* the adapter runs and holds the thread
  tasks,       \* the agent has announced a background task
  \* The row of the thread (survives a crash).
  turnActive,  \* threads.turn_active
  \* The gateway.
  booted,      \* the orchestrator runs and has reconciled
  prompt,      \* the flow of each prompt
  load,        \* the flow of each load of the full history
  inFlight,    \* Broadcast.promptsInFlight
  relay,       \* the load that Broadcast.relays belongs to
  speaking,    \* ThreadState.speaking of Activity
  openCall,    \* ThreadState.open is not empty: a foreground tool call runs
  timer,       \* the timer that ThreadState.cancel cancels; "forgotten" without a state
  watching,    \* a browser watches the thread
  unreported,  \* the agent has worked, and the thread has not settled since (for the properties)
  \* The bounds.
  updates, ends

activityVars == <<speaking, openCall, timer>>
flowVars == <<prompt, load, inFlight, relay>>
turnBounds == <<updates, ends>>
turnVars == <<adapterUp, tasks, turnActive, booted, flowVars, activityVars, watching,
              unreported, turnBounds>>

TurnsTypeOK ==
  /\ adapterUp \in BOOLEAN
  /\ tasks \in BOOLEAN
  /\ turnActive \in BOOLEAN
  /\ booted \in BOOLEAN
  /\ prompt \in [Prompt -> {"idle", "starting", "open"}]
  /\ load \in [Load -> {"idle", "starting", "replaying", "restoring"}]
  /\ inFlight \in Nat
  /\ relay \in Load \cup {NoLoad}
  /\ speaking \in BOOLEAN
  /\ openCall \in BOOLEAN
  /\ timer \in {"forgotten", "quiet", "settle"}
  /\ watching \in BOOLEAN
  /\ unreported \in BOOLEAN
  /\ updates \in 0..MaxUpdates
  /\ ends \in 0..MaxEnds

TurnsInit ==
  /\ adapterUp = FALSE
  /\ tasks = FALSE
  /\ turnActive = FALSE
  /\ booted = TRUE
  /\ prompt = [p \in Prompt |-> "idle"]
  /\ load = [l \in Load |-> "idle"]
  /\ inFlight = 0
  /\ relay = NoLoad
  /\ speaking = FALSE
  /\ openCall = FALSE
  /\ timer = "forgotten"
  /\ watching = FALSE
  /\ unreported = FALSE
  /\ updates = 0
  /\ ends = 0

(***************************************************************************)
(* Activity.                                                               *)
(***************************************************************************)

\* mark: the agent works, and the silence counts from now.
Mark ==
  /\ speaking' = TRUE
  /\ timer' = "quiet"
  /\ unreported' = TRUE

\* reset and clear: the thread is forgotten, and nothing is announced.
Forget ==
  /\ speaking' = FALSE
  /\ openCall' = FALSE
  /\ timer' = "forgotten"

\* stop: the adapter has said that the processing cycle is over.
CycleEnds ==
  /\ IF timer = "forgotten" THEN UNCHANGED <<speaking, timer>>
                            ELSE speaking' = FALSE /\ timer' = "settle"
  /\ openCall' = FALSE
  /\ UNCHANGED unreported

\* quiet: the agent has been silent for AGENT_QUIET_SECONDS.  An open tool call
\* explains the silence, so the wait begins again.
QuietElapses ==
  /\ timer = "quiet"
  /\ IF openCall
     THEN UNCHANGED <<speaking, timer>>
     ELSE speaking' = FALSE /\ timer' = "settle"
  /\ UNCHANGED <<adapterUp, tasks, turnActive, booted, flowVars, openCall, watching,
                 unreported, turnBounds>>

\* armSettle: the thread has been quiet for AGENT_SETTLE_SECONDS.  It is forgotten,
\* and reported: onSettled announces it when nobody watches it.
SettleElapses ==
  /\ timer = "settle"
  /\ ~speaking
  /\ timer' = "forgotten"
  /\ openCall' = FALSE
  /\ unreported' = FALSE
  /\ UNCHANGED <<adapterUp, tasks, turnActive, booted, flowVars, speaking, watching, turnBounds>>

(***************************************************************************)
(* The prompts.                                                            *)
(***************************************************************************)

\* The agent has something to say: a prompt, or a background task that wakes it.
AgentWorks == adapterUp /\ (tasks \/ \E p \in Prompt : prompt[p] = "open")

\* UpstreamBox.onUpdate for a live update: Activity.observe, with what the update
\* is about: text, a tool call that opens, a call that ends or starts background
\* work, the end of the cycle.
AgentUpdates ==
  /\ AgentWorks
  /\ updates < MaxUpdates
  /\ updates' = updates + 1
  /\ \/ Mark /\ UNCHANGED <<openCall, tasks>>
     \/ Mark /\ openCall' = TRUE /\ UNCHANGED tasks
     \/ Mark /\ openCall' = FALSE /\ UNCHANGED tasks
     \/ Mark /\ openCall' = FALSE /\ tasks' = TRUE
     \/ CycleEnds /\ UNCHANGED tasks
  /\ UNCHANGED <<adapterUp, turnActive, booted, flowVars, watching, ends>>

\* A background task ends or is stopped (AdapterConnection.noteTask).
TaskEnds ==
  /\ tasks
  /\ tasks' = FALSE
  /\ UNCHANGED <<adapterUp, turnActive, booted, flowVars, activityVars, watching, unreported,
                 turnBounds>>

\* A browser sends a prompt: forwardRequest awaits ensureStarted.
PromptArrives(p) ==
  /\ booted
  /\ prompt[p] = "idle"
  /\ updates < MaxUpdates
  /\ updates' = updates + 1
  /\ prompt' = [prompt EXCEPT ![p] = "starting"]
  /\ UNCHANGED <<adapterUp, tasks, turnActive, booted, load, inFlight, relay, activityVars,
                 watching, unreported, ends>>

\* A mutant: the check for a relay is not made.
PromptBegins_DuringRelay(p) ==
  /\ adapterUp
  /\ prompt[p] = "starting"
  /\ prompt' = [prompt EXCEPT ![p] = "open"]
  /\ inFlight' = inFlight + 1
  /\ turnActive' = TRUE
  /\ Mark
  /\ UNCHANGED <<adapterUp, tasks, booted, load, relay, openCall, watching, turnBounds>>

\* The adapter is up: the prompt is refused during a relay, and the turn begins
\* otherwise (setTurnActive, Activity.begin, beginPrompt).
PromptBegins(p) ==
  /\ adapterUp
  /\ prompt[p] = "starting"
  /\ \/ /\ relay # NoLoad
        /\ prompt' = [prompt EXCEPT ![p] = "idle"]
        /\ UNCHANGED <<inFlight, turnActive, speaking, timer, unreported>>
     \/ /\ relay = NoLoad
        /\ prompt' = [prompt EXCEPT ![p] = "open"]
        /\ inFlight' = inFlight + 1
        /\ turnActive' = TRUE
        /\ Mark
  /\ UNCHANGED <<adapterUp, tasks, booted, load, relay, openCall, watching, turnBounds>>

\* ensureStarted throws.
PromptFails(p) ==
  /\ prompt[p] = "starting"
  /\ ~adapterUp
  /\ prompt' = [prompt EXCEPT ![p] = "idle"]
  /\ UNCHANGED <<adapterUp, tasks, turnActive, booted, load, inFlight, relay, activityVars,
                 watching, unreported, turnBounds>>

\* The adapter answers a prompt, or fails it: the finally of forwardRequest.
PromptEnds(p) ==
  /\ adapterUp
  /\ prompt[p] = "open"
  /\ prompt' = [prompt EXCEPT ![p] = "idle"]
  /\ inFlight' = inFlight - 1
  /\ turnActive' = FALSE
  /\ UNCHANGED <<adapterUp, tasks, booted, load, relay, activityVars, watching, unreported,
                 turnBounds>>

\* forwardNotification of a session/cancel.
CancelTurn ==
  /\ adapterUp
  /\ inFlight > 0
  /\ turnActive' = FALSE
  /\ Forget
  /\ UNCHANGED <<adapterUp, tasks, booted, flowVars, watching, unreported, turnBounds>>

(***************************************************************************)
(* The relay of the full history.                                          *)
(***************************************************************************)

\* A browser asks for the full history: forwardRequest awaits ensureStarted.
LoadArrives(l) ==
  /\ booted
  /\ load[l] = "idle"
  /\ load' = [load EXCEPT ![l] = "starting"]
  /\ UNCHANGED <<adapterUp, tasks, turnActive, booted, prompt, inFlight, relay, activityVars,
                 watching, unreported, turnBounds>>

\* The thread is idle: no relay, no prompt, a quiet agent and no task.
ThreadIdle == relay = NoLoad /\ inFlight = 0 /\ ~speaking /\ ~tasks

\* relayHistory: refused unless the thread is idle.  It can be refused for the
\* row of the thread too (no row, not held, a fork without a transcript).
LoadBegins(l) ==
  /\ load[l] = "starting"
  /\ \/ /\ adapterUp
        /\ ThreadIdle
        /\ load' = [load EXCEPT ![l] = "replaying"]
        /\ relay' = l
     \/ /\ load' = [load EXCEPT ![l] = "idle"]
        /\ UNCHANGED relay
  /\ UNCHANGED <<adapterUp, tasks, turnActive, booted, prompt, inFlight, activityVars,
                 watching, unreported, turnBounds>>

\* The adapter has replayed the thread, or failed to: the finally of relayHistory.
ReplayEnds(l) ==
  /\ adapterUp
  /\ load[l] = "replaying"
  /\ relay' = NoLoad
  /\ \/ load' = [load EXCEPT ![l] = "restoring"]
     \/ load' = [load EXCEPT ![l] = "idle"]
  /\ UNCHANGED <<adapterUp, tasks, turnActive, booted, prompt, inFlight, activityVars,
                 watching, unreported, turnBounds>>

\* The mode and the settings of the thread are restored (restoreSettings).
SettingsRestored(l) ==
  /\ load[l] = "restoring"
  /\ load' = [load EXCEPT ![l] = "idle"]
  /\ UNCHANGED <<adapterUp, tasks, turnActive, booted, prompt, inFlight, relay, activityVars,
                 watching, unreported, turnBounds>>

(***************************************************************************)
(* The browsers, the adapter and the orchestrator.                         *)
(***************************************************************************)

\* The first browser opens the thread, or the last one leaves it.
WatchersChange ==
  /\ booted
  /\ watching' = ~watching
  /\ UNCHANGED <<adapterUp, tasks, turnActive, booted, flowVars, activityVars, unreported,
                 turnBounds>>

AdapterStarts ==
  /\ booted
  /\ ~adapterUp
  /\ adapterUp' = TRUE
  /\ UNCHANGED <<tasks, turnActive, booted, flowVars, activityVars, watching, unreported,
                 turnBounds>>

\* Every request that the adapter has not answered is rejected: the finally of
\* forwardRequest and of relayHistory.
RequestsRejected ==
  /\ prompt' = [p \in Prompt |-> IF prompt[p] = "open" THEN "idle" ELSE prompt[p]]
  /\ load' = [l \in Load |-> IF load[l] \in {"replaying", "restoring"} THEN "idle" ELSE load[l]]
  /\ inFlight' = 0
  /\ relay' = NoLoad

\* The adapter exits (onThreadsLost), or the box is stopped (UpstreamBox.stop and
\* clearThreadStates): both forget what the thread was in the middle of.
AdapterEnds ==
  /\ adapterUp
  /\ ends < MaxEnds
  /\ ends' = ends + 1
  /\ adapterUp' = FALSE
  /\ tasks' = FALSE
  /\ turnActive' = FALSE
  /\ Forget
  /\ RequestsRejected
  /\ UNCHANGED <<booted, watching, unreported, updates>>

\* The orchestrator ends.  Only the row is left.
GatewayCrashes ==
  /\ booted
  /\ ends < MaxEnds
  /\ ends' = ends + 1
  /\ booted' = FALSE
  /\ adapterUp' = FALSE
  /\ tasks' = FALSE
  /\ prompt' = [p \in Prompt |-> "idle"]
  /\ load' = [l \in Load |-> "idle"]
  /\ inFlight' = 0
  /\ relay' = NoLoad
  /\ Forget
  /\ watching' = FALSE
  /\ unreported' = FALSE
  /\ UNCHANGED <<turnActive, updates>>

\* BoxManager.reconcile clears the flags of every box (clearBoxTurns).
GatewayBoots ==
  /\ ~booted
  /\ booted' = TRUE
  /\ turnActive' = FALSE
  /\ UNCHANGED <<adapterUp, tasks, flowVars, activityVars, watching, unreported, turnBounds>>

TurnsNext ==
  \/ \E p \in Prompt : PromptArrives(p) \/ PromptBegins(p) \/ PromptFails(p) \/ PromptEnds(p)
  \/ \E l \in Load : \/ LoadArrives(l) \/ LoadBegins(l) \/ ReplayEnds(l)
                     \/ SettingsRestored(l)
  \/ CancelTurn \/ AgentUpdates \/ TaskEnds \/ QuietElapses \/ SettleElapses
  \/ WatchersChange \/ AdapterStarts \/ AdapterEnds \/ GatewayCrashes \/ GatewayBoots

\* The timers of the process fire in the end.
TurnsFairness == WF_turnVars(QuietElapses) /\ WF_turnVars(SettleElapses)

TurnsSpec == TurnsInit /\ [][TurnsNext]_turnVars /\ TurnsFairness

(***************************************************************************)
(* Properties.                                                             *)
(***************************************************************************)

\* The gateway counts the prompts it carries, so the echo of the adapter is
\* dropped exactly while one is open (beginPrompt, endPrompt and the exits).
PromptsAreCounted == inFlight = Cardinality({p \in Prompt : prompt[p] = "open"})

\* A turn flag never outlives the turn: it would keep the box from the idle
\* reaper for ever.  (The reverse does not hold: the first of two prompts that
\* ends clears the flag of both.)
FlagMeansTurn == booted /\ turnActive => inFlight > 0

\* No turn and no background task runs while the adapter replays the history, so
\* no live update goes to the relay instead of the log.  Both sides check after
\* their await and set their mark in the same step.
RelayIsAlone == relay # NoLoad => inFlight = 0 /\ ~tasks /\ ~speaking

\* The relay belongs to one load, and ends with it: no load is refused, and no
\* prompt, once nobody replays.
RelayHasItsLoad ==
  \A l \in Load : load[l] = "replaying" <=> relay = l

\* A speaking agent always has a timer that will declare it silent, and an idle
\* announcement is about work that was not announced before.
SpeakingIsTimed ==
  /\ speaking => timer = "quiet"
  /\ openCall => timer # "forgotten"
  /\ timer # "forgotten" => unreported

\* What the gateway knows of the turns of a thread is so: its flag, its count, its
\* relay and its timer, whichever of the prompts, loads and tasks ends first.
TurnsAreTold ==
  /\ TurnsTypeOK
  /\ PromptsAreCounted /\ FlagMeansTurn
  /\ RelayIsAlone /\ RelayHasItsLoad
  /\ SpeakingIsTimed

\* Once the agent has no open call and says nothing more, the thread settles.
QuietThreadSettles == <>[](~openCall) => <>[](timer = "forgotten")

=============================================================================
