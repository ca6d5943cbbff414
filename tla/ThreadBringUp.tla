----------------------------- MODULE ThreadBringUp -----------------------------
(***************************************************************************)
(* How the threads of one box get onto the adapter of their harness, as    *)
(* AdapterConnection (orchestrator/src/gateway/adapter.ts) and UpstreamBox *)
(* (upstream.ts) do it: one shared start that spawns the adapter and loads *)
(* the threads a connection has to carry, and the bring-ups of single      *)
(* threads that browsers ask for, over the same connection.                *)
(*                                                                         *)
(* The start and each bring-up is a flow: a chain of awaits.  A step that  *)
(* arrives from outside (an answer, a browser, an exit, a stop) runs only  *)
(* when no flow has code left to run; the code between two awaits is a     *)
(* step of its own (the phases in Micro), so two flows that one event      *)
(* wakes go on in either order.                                            *)
(*                                                                         *)
(* The threads exist from the begin, belong to one harness, and are no     *)
(* forks; the other way to a conversation, session/fork, is left out.      *)
(***************************************************************************)
EXTENDS Naturals, FiniteSets

CONSTANTS Thread,            \* the thread rows of the box
          Start,             \* the flow of the shared start
          Attempts,          \* spawn attempts (MAX_SPAWN_ATTEMPTS)
          MaxConversations,  \* bound: conversations the adapters mint
          MaxFaults,         \* bound: calls that fail and adapters that exit
          MaxRefusals,       \* bound: calls refused for want of a credential
          MaxStops           \* bound: stops of the box

ASSUME BoundsAssumption == /\ Attempts \in Nat \ {0}
                           /\ MaxConversations \in Nat
                           /\ MaxFaults \in Nat
                           /\ MaxRefusals \in Nat
                           /\ MaxStops \in Nat

VARIABLES
  \* The database and the home directory of the box.
  row,        \* threads.acp_session_id, or None
  stored,     \* the conversations with a transcript: the prompted ones
  \* The adapter process and the connection to it.
  process,    \* the adapter process runs
  conn,       \* "handshake" until the initialize response is there
  stopping,   \* AdapterConnection.stopping
  live,       \* AdapterConnection.live
  loaded,     \* the conversations the adapter process has in its memory
  minted,     \* number of conversations minted so far
  \* The UpstreamBox.
  log,        \* the log of each conversation
  watched,    \* the conversations that browsers are pinned to
  \* The flows.
  work,       \* what each flow awaits or has to do
  conv,       \* the conversation each flow is about
  aim,        \* the thread that the start loads or mints
  leg,        \* the part of loadThreads the start is in
  todo,       \* the watched conversations that the start still looks at
  attempt,    \* the spawn attempt of the start
  \* The bounds.
  faults, refusals, stops

adapterVars == <<process, conn, live, loaded>>
startVars == <<stopping, aim, leg, todo, attempt>>
bounds == <<faults, refusals, stops>>
vars == <<row, stored, minted, log, watched, work, conv, adapterVars, startVars, bounds>>

None == 0
Conversation == 1..MaxConversations
Flow == Thread \cup {Start}

ASSUME ThreadsAssumption == Start \notin Thread /\ None \notin Flow

\* What a flow can await.
Awaits == {"wait", "container", "backoff", "spawn", "handshake", "load", "share", "restore",
           "mint", "settings"}
\* What a flow can have left to run before the next event.
Micro == {"go", "held", "gone", "minted", "broken", "refused", "next", "again", "returns",
          "throws"}

TypeOK ==
  /\ row \in [Thread -> Conversation \cup {None}]
  /\ stored \subseteq Conversation
  /\ process \in BOOLEAN
  /\ conn \in {"down", "handshake", "up"}
  /\ stopping \in BOOLEAN
  /\ live \subseteq Conversation
  /\ loaded \subseteq Conversation
  /\ minted \in 0..MaxConversations
  /\ log \in [Conversation -> {"none", "filling", "open"}]
  /\ watched \subseteq Conversation
  /\ work \in [Flow -> {"off"} \cup Awaits \cup Micro]
  /\ conv \in [Flow -> Conversation \cup {None}]
  /\ aim \in Thread \cup {None}
  /\ leg \in {"latest", "watched"}
  /\ todo \subseteq Conversation
  /\ attempt \in 0..Attempts
  /\ faults \in 0..MaxFaults
  /\ refusals \in 0..MaxRefusals
  /\ stops \in 0..MaxStops

Init ==
  /\ row = [t \in Thread |-> None]
  /\ stored = {}
  /\ process = FALSE
  /\ conn = "down"
  /\ stopping = FALSE
  /\ live = {}
  /\ loaded = {}
  /\ minted = 0
  /\ log = [c \in Conversation |-> "none"]
  /\ watched = {}
  /\ work = [f \in Flow |-> "off"]
  /\ conv = [f \in Flow |-> None]
  /\ aim = None
  /\ leg = "latest"
  /\ todo = {}
  /\ attempt = 0
  /\ faults = 0
  /\ refusals = 0
  /\ stops = 0

(***************************************************************************)
(* Helpers.                                                                *)
(***************************************************************************)

\* No flow has code left to run, so the event loop takes the next event.
Quiet == \A f \in Flow : work[f] \notin Micro

Goes(f, phase) == work' = [work EXCEPT ![f] = phase]

\* A load of the conversation is in flight (AdapterConnection.loading).
Loading(c) == \E f \in Flow : work[f] \in {"load", "restore"} /\ conv[f] = c

\* A bring-up is over, and its local variables are gone.
Ends(t) == Goes(t, "off") /\ conv' = [conv EXCEPT ![t] = None]

\* The thread of a flow.
ThreadOf(f) == IF f = Start THEN aim ELSE f

\* A request reaches the adapter.  Without a connection, and on a closed one,
\* it throws.
Connected == conn # "down" /\ process

\* fillLog begins; when the request throws, it drops the log again.
Fill(f, c) ==
  IF Connected THEN Goes(f, "load") /\ log' = [log EXCEPT ![c] = "filling"]
               ELSE Goes(f, "broken") /\ log' = [log EXCEPT ![c] = "none"]

\* loadThread: a caller that comes during a load of the conversation shares it.
LoadThread(f, c) ==
  /\ conv' = [conv EXCEPT ![f] = c]
  /\ IF Loading(c) THEN Goes(f, "share") /\ UNCHANGED log ELSE Fill(f, c)

\* mintInto sends session/new.
AskMint(f) == Goes(f, IF Connected THEN "mint" ELSE "broken")

\* The load of a conversation ends: its loader f and every sharer go on.
LoadEnds(f, c, phase) ==
  work' = [g \in Flow |->
             IF g = f \/ (conv[g] = c /\ work[g] = "share") THEN phase ELSE work[g]]

\* What a flow does when the connection closes under it.  A request in flight
\* is rejected; a rejected setting is only logged, so the load or the mint
\* that it belongs to succeeds.
Rejected(f) ==
  CASE work[f] = "handshake" -> "again"
    [] work[f] \in {"load", "mint"} -> "broken"
    [] work[f] = "restore" -> "held"
    [] work[f] = "settings" -> "minted"
    [] work[f] = "share" ->
         IF \E g \in Flow : work[g] = "restore" /\ conv[g] = conv[f] THEN "held" ELSE "broken"
    [] OTHER -> work[f]

\* The pipe to the adapter is gone: every flow that awaits it goes on, and a
\* load that was rejected drops its log.
Close(own, phase) ==
  /\ work' = [f \in Flow |-> IF f = own THEN phase ELSE Rejected(f)]
  /\ log' = [c \in Conversation |-> IF log[c] = "filling" THEN "none" ELSE log[c]]
  /\ process' = FALSE
  /\ loaded' = {}

\* teardownConnection closes the connection and kills the exec.  The flow that
\* calls it, if any, goes on with `phase`.
Teardown(own, phase) ==
  Close(own, phase) /\ conn' = "down" /\ live' = {}

(***************************************************************************)
(* The browsers, the runtime and the adapter: what arrives from outside.   *)
(***************************************************************************)

\* start() begins: `work` gets the flows that await it.
StartBegins(waiters) ==
  /\ work' = [f \in Flow |-> IF f = Start THEN "container"
                             ELSE IF f \in waiters THEN "wait" ELSE work[f]]
  /\ stopping' = FALSE
  /\ UNCHANGED <<aim, leg, todo, attempt>>

\* A browser opens a thread: pin, resolveThread, and bringUp up to its
\* ensureStarted.  Two browsers on one thread share the flow of the thread.
OpenThread(t) ==
  /\ Quiet
  /\ \/ row[t] \in live /\ watched' = watched \cup {row[t]} /\ UNCHANGED <<work, startVars>>
     \/ /\ row[t] \notin live /\ work[t] = "off" /\ UNCHANGED watched
        /\ IF conn # "up" /\ work[Start] = "off" THEN StartBegins({t})
           ELSE Goes(t, IF conn = "up" THEN "go" ELSE "wait") /\ UNCHANGED startVars
  /\ UNCHANGED <<row, stored, minted, log, conv, adapterVars, bounds>>

\* A message of a browser finds no adapter (forwardRequest's ensureStarted).
MessageStarts ==
  /\ Quiet /\ watched # {} /\ conn # "up" /\ work[Start] = "off"
  /\ StartBegins({})
  /\ UNCHANGED <<row, stored, minted, log, watched, conv, adapterVars, bounds>>

\* A prompt reaches the adapter, which then writes the transcript.
AgentIsPrompted(c) ==
  /\ Quiet /\ conn = "up" /\ c \in watched \cap live \cap loaded
  /\ stored' = stored \cup {c}
  /\ UNCHANGED <<row, minted, log, watched, work, conv, adapterVars, startVars, bounds>>

\* The last browser of a conversation goes.
Detach(c) ==
  /\ Quiet /\ c \in watched
  /\ watched' = watched \ {c}
  /\ UNCHANGED <<row, stored, minted, log, work, conv, adapterVars, startVars, bounds>>

\* The box stops: UpstreamBox.stop.
Stop ==
  /\ Quiet /\ stops < MaxStops
  /\ stops' = stops + 1
  /\ stopping' = TRUE
  /\ Teardown(None, "off")
  /\ UNCHANGED <<row, stored, minted, watched, conv, aim, leg, todo, attempt, faults, refusals>>

\* The adapter exits on its own: handleExecExit.  The pipe ends either way,
\* but an exit during a deliberate stop leaves the connection as it is.
AdapterExits ==
  /\ Quiet /\ process /\ faults < MaxFaults
  /\ faults' = faults + 1
  /\ IF stopping THEN Close(None, "off") /\ UNCHANGED <<conn, live>>
                 ELSE Teardown(None, "off")
  /\ UNCHANGED <<row, stored, minted, watched, conv, startVars, refusals, stops>>

(***************************************************************************)
(* The answers that the flows await.                                       *)
(***************************************************************************)

\* A call fails: one more fault.
Fails == faults < MaxFaults /\ faults' = faults + 1 /\ UNCHANGED <<refusals, stops>>

\* A call is refused for want of a credential.
Refuses == refusals < MaxRefusals /\ refusals' = refusals + 1 /\ UNCHANGED <<faults, stops>>

\* The box is up, or cannot be started.  The loop checks `stopping` before
\* its first spawn.
ContainerAnswers ==
  /\ work[Start] = "container"
  /\ \/ Goes(Start, IF stopping THEN "returns" ELSE "spawn") /\ UNCHANGED bounds
     \/ Fails /\ Goes(Start, "throws")
  /\ UNCHANGED <<conv, row, minted, log, adapterVars, startVars>>

\* The backoff ends.  Nothing checks `stopping` after it.
BackoffEnds ==
  /\ work[Start] = "backoff"
  /\ Goes(Start, "spawn")
  /\ UNCHANGED <<conv, row, minted, log, adapterVars, startVars, bounds>>

\* The runtime has spawned the adapter, or has failed to.
SpawnAnswers ==
  /\ work[Start] = "spawn"
  /\ \/ /\ process' = TRUE /\ conn' = "handshake" /\ Goes(Start, "handshake")
        /\ UNCHANGED bounds
     \/ Fails /\ Goes(Start, "again") /\ UNCHANGED <<process, conn>>
  /\ UNCHANGED <<conv, row, minted, log, live, loaded, startVars>>

\* The adapter answers the initialize request, and loadThreads takes the
\* latest thread, which is any of them.
HandshakeAnswers ==
  /\ work[Start] = "handshake"
  /\ \/ /\ UNCHANGED bounds
        /\ conn' = "up"
        /\ leg' = "latest"
        /\ \E t \in Thread :
             /\ aim' = t
             /\ IF row[t] = None THEN Goes(Start, "mint") /\ UNCHANGED <<conv, log>>
                                ELSE LoadThread(Start, row[t])
     \/ Fails /\ Goes(Start, "again") /\ UNCHANGED <<conn, log, conv, aim, leg>>
  /\ UNCHANGED <<row, minted, process, live, loaded, stopping, todo, attempt>>

\* A mutant: any error of a load discards the conversation of the thread.
LoadAnswers_Discards(f) ==
  /\ work[f] = "load"
  /\ LET c == conv[f] IN
     \/ /\ c \in stored
        /\ log' = [log EXCEPT ![c] = "open"]
        /\ live' = live \cup {c}
        /\ loaded' = loaded \cup {c}
        /\ Goes(f, "restore")
        /\ UNCHANGED <<row, bounds>>
     \/ /\ (c \notin stored /\ UNCHANGED bounds) \/ Fails
        /\ log' = [log EXCEPT ![c] = "none"]
        /\ live' = live \ {c}
        /\ row' = [row EXCEPT ![ThreadOf(f)] = None]
        /\ LoadEnds(f, c, "gone")
        /\ UNCHANGED loaded
  /\ UNCHANGED <<conv, minted, process, conn, startVars>>

\* The adapter answers session/load.  It has the transcript of a prompted
\* conversation only.  Only "resource not found" clears the row.
LoadAnswers(f) ==
  /\ work[f] = "load"
  /\ LET c == conv[f] IN
     \/ /\ c \in stored
        /\ log' = [log EXCEPT ![c] = "open"]
        /\ live' = live \cup {c}
        /\ loaded' = loaded \cup {c}
        /\ Goes(f, "restore")
        /\ UNCHANGED <<row, bounds>>
     \/ /\ c \notin stored
        /\ log' = [log EXCEPT ![c] = "none"]
        /\ live' = live \ {c}
        /\ row' = [row EXCEPT ![ThreadOf(f)] = None]
        /\ LoadEnds(f, c, "gone")
        /\ UNCHANGED <<loaded, bounds>>
     \/ /\ (Fails /\ LoadEnds(f, c, "broken")) \/ (Refuses /\ LoadEnds(f, c, "refused"))
        /\ log' = [log EXCEPT ![c] = "none"]
        /\ UNCHANGED <<row, live, loaded>>
  /\ UNCHANGED <<conv, minted, process, conn, startVars>>

\* The adapter answers session/new.  The bound on the conversations shows as
\* an adapter that fails.
MintAnswers(f) ==
  /\ work[f] = "mint"
  /\ \/ /\ minted < MaxConversations
        /\ minted' = minted + 1
        /\ log' = [log EXCEPT ![minted'] = "open"]
        /\ live' = live \cup {minted'}
        /\ loaded' = loaded \cup {minted'}
        /\ conv' = [conv EXCEPT ![f] = minted']
        /\ Goes(f, "settings")
        /\ UNCHANGED bounds
     \/ /\ \/ Goes(f, "broken") /\ Fails
           \/ Goes(f, "broken") /\ minted = MaxConversations /\ UNCHANGED bounds
           \/ Goes(f, "refused") /\ Refuses
        /\ UNCHANGED <<conv, minted, log, live, loaded>>
  /\ UNCHANGED <<row, process, conn, startVars>>

\* The adapter has the mode and the settings, or has refused some of them.
SettingsAnswer(f) ==
  /\ \/ work[f] = "restore" /\ LoadEnds(f, conv[f], "held")
     \/ work[f] = "settings" /\ Goes(f, "minted")
  /\ UNCHANGED <<conv, row, minted, log, adapterVars, startVars, bounds>>

\* An answer that flow f awaits arrives.
CallAnswered(f) ==
  /\ Quiet
  /\ \/ f = Start /\ (ContainerAnswers \/ BackoffEnds \/ SpawnAnswers \/ HandshakeAnswers)
     \/ LoadAnswers(f) \/ MintAnswers(f) \/ SettingsAnswer(f)
  /\ UNCHANGED <<stored, watched>>

(***************************************************************************)
(* The bring-up of one thread goes on.                                     *)
(***************************************************************************)

\* bringUp after ensureStarted: the row is read after the spawn, which may
\* have loaded the thread.
BringUpReads(t) ==
  /\ work[t] = "go"
  /\ IF row[t] \in live THEN /\ conv' = [conv EXCEPT ![t] = row[t]]
                             /\ Goes(t, "held")
                             /\ UNCHANGED log
     ELSE IF row[t] # None THEN LoadThread(t, row[t])
     ELSE AskMint(t) /\ UNCHANGED <<conv, log>>
  /\ UNCHANGED <<row, watched>>

\* The adapter does not have the transcript, so bringUp mints.
BringUpMints(t) ==
  /\ work[t] = "gone"
  /\ AskMint(t)
  /\ UNCHANGED <<conv, log, row, watched>>

\* The browsers that wait get pinned to the conversation.
BringUpEnds(t) ==
  /\ \/ work[t] = "held" /\ UNCHANGED row
     \/ work[t] = "minted" /\ row' = [row EXCEPT ![t] = conv[t]]
  /\ watched' = watched \cup {conv[t]}
  /\ Ends(t)
  /\ UNCHANGED log

\* The error goes to the browsers that wait.
BringUpThrows(t) ==
  /\ work[t] \in {"broken", "refused"}
  /\ Ends(t)
  /\ UNCHANGED <<log, row, watched>>

BringUpGoesOn(t) ==
  /\ BringUpReads(t) \/ BringUpMints(t) \/ BringUpEnds(t) \/ BringUpThrows(t)
  /\ UNCHANGED <<stored, minted, adapterVars, startVars, bounds>>

(***************************************************************************)
(* The shared start goes on.                                               *)
(***************************************************************************)

\* The latest thread is on the adapter: the loop over the watched ones begins.
\* A conversation that the start minted is recorded first.
LatestIsHeld ==
  /\ leg = "latest"
  /\ \/ work[Start] = "held" /\ UNCHANGED row
     \/ work[Start] = "minted" /\ row' = [row EXCEPT ![aim] = conv[Start]]
  /\ leg' = "watched"
  /\ todo' = watched
  /\ Goes(Start, "next")
  /\ UNCHANGED <<stopping, aim, attempt, watched, log, conv, adapterVars>>

\* The transcript of the latest thread is gone: it gets a fresh conversation.
LatestIsGone ==
  /\ leg = "latest" /\ work[Start] = "gone"
  /\ AskMint(Start)
  /\ UNCHANGED <<startVars, row, watched, log, conv, adapterVars>>

\* A fault on the latest thread fails the spawn.
LatestIsBroken ==
  /\ leg = "latest" /\ work[Start] = "broken"
  /\ Goes(Start, "again")
  /\ UNCHANGED <<startVars, row, watched, log, conv, adapterVars>>

\* The load of a watched conversation is over.  When it did not succeed, the
\* browsers of the conversation are dropped.
WatchedIsLoaded ==
  /\ leg = "watched" /\ work[Start] \in {"held", "gone", "broken"}
  /\ watched' = IF work[Start] = "held" THEN watched ELSE watched \ {conv[Start]}
  /\ Goes(Start, "next")
  /\ UNCHANGED <<startVars, row, log, conv, adapterVars>>

\* The loop takes the next watched conversation: it skips one that is live,
\* loads one that a row has, and drops the browsers of any other.
NextWatched(c) ==
  /\ work[Start] = "next" /\ c \in todo
  /\ todo' = todo \ {c}
  /\ \/ c \in live /\ UNCHANGED <<watched, work, conv, log, aim>>
     \/ \E t \in Thread : /\ c \notin live /\ row[t] = c
                         /\ aim' = t
                         /\ LoadThread(Start, c)
                         /\ UNCHANGED watched
     \/ /\ c \notin live /\ \A t \in Thread : row[t] # c
        /\ watched' = watched \ {c}
        /\ UNCHANGED <<work, conv, log, aim>>
  /\ UNCHANGED <<stopping, leg, attempt, row, adapterVars>>

\* A mutant: nothing looks at `stopping` after the load.
LoadedAll_StaysUp ==
  /\ work[Start] = "next" /\ todo = {}
  /\ Goes(Start, "returns")
  /\ UNCHANGED <<log, adapterVars, startVars, row, watched, conv>>

\* Every conversation is back.  A stop that arrived meanwhile takes it down.
LoadedAll ==
  /\ work[Start] = "next" /\ todo = {}
  /\ IF stopping THEN Teardown(Start, "returns")
                 ELSE Goes(Start, "returns") /\ UNCHANGED <<log, adapterVars>>
  /\ UNCHANGED <<startVars, row, watched, conv>>

\* A credential is missing: the start returns and the connection stays up.
LoadIsRefused ==
  /\ work[Start] = "refused"
  /\ Goes(Start, "returns")
  /\ UNCHANGED <<startVars, row, watched, log, conv, adapterVars>>

\* The local variables of loadThreads are gone.
ForgetLoads ==
  /\ conv' = [conv EXCEPT ![Start] = None]
  /\ aim' = None
  /\ leg' = "latest"
  /\ todo' = {}
  /\ UNCHANGED <<stopping, row, watched>>

\* An attempt has failed: the connection goes, and the next attempt waits,
\* unless a stop came or the attempts are used up.
AttemptFailed ==
  /\ work[Start] = "again"
  /\ attempt' = attempt + 1
  /\ Teardown(Start, IF stopping THEN "returns"
                     ELSE IF attempt' < Attempts THEN "backoff" ELSE "throws")
  /\ ForgetLoads

\* A mutant: a bring-up that waits for the start of another one is not told.
StartSettles_Alone ==
  /\ work[Start] \in {"returns", "throws"}
  /\ work' = [work EXCEPT ![Start] = "off"]
  /\ conv' = [conv EXCEPT ![Start] = None]
  /\ aim' = None
  /\ leg' = "latest"
  /\ todo' = {}
  /\ attempt' = 0
  /\ UNCHANGED <<stopping, row, watched, log, adapterVars>>

\* The start settles, and everything that awaits it goes on or throws.
StartSettles ==
  /\ work[Start] \in {"returns", "throws"}
  /\ work' = [f \in Flow |-> IF f = Start THEN "off"
                             ELSE IF work[f] # "wait" THEN work[f]
                             ELSE IF work[Start] = "returns" THEN "go" ELSE "broken"]
  /\ conv' = [conv EXCEPT ![Start] = None]
  /\ aim' = None
  /\ leg' = "latest"
  /\ todo' = {}
  /\ attempt' = 0
  /\ UNCHANGED <<stopping, row, watched, log, adapterVars>>

StartGoesOn ==
  /\ \/ LatestIsHeld \/ LatestIsGone \/ LatestIsBroken \/ WatchedIsLoaded
     \/ \E c \in Conversation : NextWatched(c)
     \/ LoadedAll \/ LoadIsRefused \/ AttemptFailed \/ StartSettles
  /\ UNCHANGED <<stored, minted, bounds>>

(***************************************************************************)
(* The specification.                                                      *)
(***************************************************************************)

Next ==
  \/ \E t \in Thread : OpenThread(t)
  \/ MessageStarts
  \/ \E c \in Conversation : AgentIsPrompted(c) \/ Detach(c)
  \/ Stop
  \/ AdapterExits
  \/ \E f \in Flow : CallAnswered(f)
  \/ \E t \in Thread : BringUpGoesOn(t)
  \/ StartGoesOn

Spec == Init /\ [][Next]_vars

\* The event loop runs the code that is ready, and the box, the runtime, the
\* timers and the adapter answer each call: a dead adapter answers through the
\* closed pipe.  An answer is taken although other events come before it.
FairSpec ==
  /\ Spec
  /\ \A f \in Flow : SF_vars(CallAnswered(f))
  /\ \A t \in Thread : WF_vars(BringUpGoesOn(t))
  /\ WF_vars(StartGoesOn)

(***************************************************************************)
(* Properties.                                                             *)
(***************************************************************************)

\* What the connection takes for live (AdapterConnection.live, which decides
\* that a pin needs no load) is in the memory of the adapter that runs, and
\* has an open log.
LiveIsHeld ==
  /\ process => live \subseteq loaded
  /\ \A c \in live : log[c] = "open"

\* A log is being filled exactly while one load of its conversation runs
\* (loadThread: a second load would replace the log that the first one fills).
FillHasOneLoad ==
  \A c \in Conversation :
    LET loads == {f \in Flow : work[f] = "load" /\ conv[f] = c} IN
    IF log[c] = "filling" THEN Cardinality(loads) = 1 ELSE loads = {}

\* What is live is loaded once, and its log is whole.
LoadsAreHeld == LiveIsHeld /\ FillHasOneLoad

\* Once a start is through, each conversation that a browser is pinned to is
\* live, so a browser is either served or dropped to pin again (loadThreads).
\* A refused load ends the loop early and is left out.
WatchersAreServed ==
  Quiet /\ conn = "up" /\ work[Start] = "off" /\ refusals = 0 => watched \subseteq live

\* A stopped box has no adapter left once its start has settled, whatever the
\* start awaited when the stop came.  The refused load is left out here.
StopLeavesNothing ==
  stopping /\ work[Start] = "off" /\ refusals = 0 => conn = "down" /\ ~process

\* ThreadsAreServed: the state is typed, what the adapter takes for live is loaded once,
\* a browser that waits is served, and a stop leaves nothing behind (adapter.ts,
\* upstream.ts).
ThreadsAreServed ==
  TypeOK /\ LoadsAreHeld /\ WatchersAreServed /\ StopLeavesNothing

\* A transient fault never discards a conversation that has a transcript
\* (loadThread: "so a transient fault does not discard a live thread").
TransientFaultKeepsRow ==
  [][\A t \in Thread : row'[t] = None => row[t] \notin stored]_vars

\* Each bring-up that a browser waits for settles.
EveryBringUpSettles == \A t \in Thread : work[t] # "off" ~> work[t] = "off"

\* A conversation that was prompted stays the conversation of its thread, for
\* "the pin's resolution reuses it rather than minting a second one".
TranscriptIsKept ==
  [][\A t \in Thread : row[t] \in stored => row'[t] = row[t]]_vars

\* "Drops the connection when the adapter exits on its own": once a start has
\* settled, a connection that ensureStarted takes for up has an adapter behind
\* it, so the next message is not sent into a closed pipe.
DeadConnectionIsDropped == work[Start] = "off" /\ conn # "down" => process
===============================================================================
