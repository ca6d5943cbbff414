---------------------------- MODULE GatewayProofs ----------------------------
(***************************************************************************)
(* Proofs about the modules of the gateway, for any number of prompts,     *)
(* loads, browsers, questions, servers, keys, logins, ticks and calls: the *)
(* turns of a thread (Turns), the secrets of the MCP servers (McpServers), *)
(* the permission requests (Questions), the terminal (Terminals), and the  *)
(* stored secrets (Vault, McpConnections): the credential that is stored   *)
(* is the one the user wanted and the endpoint accepts, a login leaves     *)
(* nothing, and the rotated refresh token of an MCP server is kept.        *)
(***************************************************************************)
EXTENDS MCGateway, FiniteSetTheorems, SequenceTheorems, TLAPS

(***************************************************************************)
(* Turns.  The conjuncts of TurnsAreTold carry each other: the flag and    *)
(* the relay rest on the count, and the count on the flows of the prompts. *)
(***************************************************************************)

OpenPrompts == {p \in Prompt : prompt[p] = "open"}

\* The prompts that are open are finitely many, and there are none when the count is 0.
LEMMA OpenPromptsCount ==
  /\ IsFiniteSet(OpenPrompts) /\ Cardinality(OpenPrompts) \in Nat
  /\ Cardinality(OpenPrompts) = 0 <=> OpenPrompts = {}
<1>1. IsFiniteSet(OpenPrompts)
  BY FS_Subset, TurnsFinite DEF OpenPrompts
<1> QED
  BY <1>1, FS_CardinalityType, FS_EmptySet

\* The count follows a prompt that opens, one that ends, and an end of all of them.
LEMMA CountFollows ==
  ASSUME TurnsTypeOK, PromptsAreCounted
  PROVE  /\ prompt' = prompt => Cardinality(OpenPrompts)' = inFlight
         /\ \A p \in Prompt, s \in {"idle", "starting"} :
              prompt[p] # "open" /\ prompt' = [prompt EXCEPT ![p] = s]
                => Cardinality(OpenPrompts)' = inFlight
         /\ \A p \in Prompt :
              prompt[p] # "open" /\ prompt' = [prompt EXCEPT ![p] = "open"]
                => Cardinality(OpenPrompts)' = inFlight + 1
         /\ \A p \in Prompt :
              prompt[p] = "open" /\ prompt' = [prompt EXCEPT ![p] = "idle"]
                => Cardinality(OpenPrompts)' = inFlight - 1
         /\ (\A p \in Prompt : prompt'[p] # "open") => Cardinality(OpenPrompts)' = 0
<1>1. inFlight = Cardinality(OpenPrompts) /\ IsFiniteSet(OpenPrompts)
  BY OpenPromptsCount DEF PromptsAreCounted, OpenPrompts
<1>2. prompt' = prompt => Cardinality(OpenPrompts)' = inFlight
  BY <1>1 DEF OpenPrompts
<1>3. ASSUME NEW p \in Prompt, NEW s \in {"idle", "starting"}, prompt[p] # "open",
             prompt' = [prompt EXCEPT ![p] = s]
      PROVE  Cardinality(OpenPrompts)' = inFlight
  <2>1. OpenPrompts' = OpenPrompts
    BY <1>3 DEF OpenPrompts, TurnsTypeOK
  <2> QED
    BY <1>1, <2>1
<1>4. ASSUME NEW p \in Prompt, prompt[p] # "open", prompt' = [prompt EXCEPT ![p] = "open"]
      PROVE  Cardinality(OpenPrompts)' = inFlight + 1
  <2>1. OpenPrompts' = OpenPrompts \cup {p} /\ p \notin OpenPrompts
    BY <1>4 DEF OpenPrompts, TurnsTypeOK
  <2> QED
    BY <1>1, <2>1, FS_AddElement
<1>5. ASSUME NEW p \in Prompt, prompt[p] = "open", prompt' = [prompt EXCEPT ![p] = "idle"]
      PROVE  Cardinality(OpenPrompts)' = inFlight - 1
  <2>1. OpenPrompts' = OpenPrompts \ {p} /\ p \in OpenPrompts
    BY <1>5 DEF OpenPrompts, TurnsTypeOK
  <2> QED
    BY <1>1, <2>1, FS_RemoveElement
<1>6. (\A p \in Prompt : prompt'[p] # "open") => Cardinality(OpenPrompts)' = 0
  <2> SUFFICES ASSUME \A p \in Prompt : prompt'[p] # "open" PROVE Cardinality(OpenPrompts)' = 0
    OBVIOUS
  <2>1. OpenPrompts' = {}
    BY DEF OpenPrompts
  <2> QED
    BY <2>1, FS_EmptySet
<1> QED
  BY <1>2, <1>3, <1>4, <1>5, <1>6

\* The actions of a prompt, of a load, and the others.
PromptSteps == \E p \in Prompt : PromptArrives(p) \/ PromptBegins(p) \/ PromptFails(p) \/ PromptEnds(p)
LoadSteps == \E l \in Load : LoadArrives(l) \/ LoadBegins(l) \/ ReplayEnds(l) \/ SettingsRestored(l)
AgentSteps == AgentUpdates \/ TaskEnds \/ QuietElapses \/ SettleElapses
ThreadEnds == AdapterEnds \/ GatewayCrashes
OtherTurnSteps == CancelTurn \/ WatchersChange \/ AdapterStarts \/ GatewayBoots

LEMMA TurnsSteps ==
  TurnsNext <=> PromptSteps \/ LoadSteps \/ AgentSteps \/ ThreadEnds \/ OtherTurnSteps
  BY DEF TurnsNext, PromptSteps, LoadSteps, AgentSteps, ThreadEnds, OtherTurnSteps

\* The types, part by part.
FlagTypes ==
  /\ adapterUp \in BOOLEAN /\ tasks \in BOOLEAN /\ turnActive \in BOOLEAN /\ booted \in BOOLEAN
  /\ speaking \in BOOLEAN /\ openCall \in BOOLEAN /\ watching \in BOOLEAN /\ unreported \in BOOLEAN

FlowTypes ==
  /\ prompt \in [Prompt -> {"idle", "starting", "open"}]
  /\ load \in [Load -> {"idle", "starting", "replaying", "restoring"}]
  /\ relay \in Load \cup {NoLoad}
  /\ timer \in {"forgotten", "quiet", "settle"}

CountTypes == inFlight \in Nat /\ updates \in 0..MaxUpdates /\ ends \in 0..MaxEnds

LEMMA TurnsTypesAre == TurnsTypeOK <=> FlagTypes /\ FlowTypes /\ CountTypes
  BY DEF TurnsTypeOK, FlagTypes, FlowTypes, CountTypes

LEMMA FlagTypesStay ==
  ASSUME FlagTypes, TurnsNext
  PROVE  FlagTypes'
<1> USE DEF FlagTypes, flowVars, activityVars
<1>1. CASE PromptSteps
  BY <1>1 DEF PromptSteps, PromptArrives, PromptBegins, PromptFails, PromptEnds, Mark
<1>2. CASE LoadSteps
  BY <1>2 DEF LoadSteps, LoadArrives, LoadBegins, ReplayEnds, SettingsRestored
<1>3. CASE AgentSteps
  BY <1>3 DEF AgentSteps, AgentUpdates, TaskEnds, QuietElapses, SettleElapses, Mark, CycleEnds
<1>4. CASE ThreadEnds
  BY <1>4 DEF ThreadEnds, AdapterEnds, GatewayCrashes, Forget
<1>5. CASE OtherTurnSteps
  BY <1>5 DEF OtherTurnSteps, CancelTurn, WatchersChange, AdapterStarts, GatewayBoots, Forget
<1> QED
  BY <1>1, <1>2, <1>3, <1>4, <1>5, TurnsSteps

LEMMA FlowTypesStay ==
  ASSUME FlowTypes, TurnsNext
  PROVE  FlowTypes'
<1> USE DEF FlowTypes, flowVars, activityVars
<1>1. CASE PromptSteps
  BY <1>1 DEF PromptSteps, PromptArrives, PromptBegins, PromptFails, PromptEnds, Mark
<1>2. CASE LoadSteps
  BY <1>2 DEF LoadSteps, LoadArrives, LoadBegins, ReplayEnds, SettingsRestored
<1>3. CASE AgentSteps
  BY <1>3 DEF AgentSteps, AgentUpdates, TaskEnds, QuietElapses, SettleElapses, Mark, CycleEnds
<1>4. CASE ThreadEnds
  BY <1>4 DEF ThreadEnds, AdapterEnds, GatewayCrashes, RequestsRejected, Forget
<1>5. CASE OtherTurnSteps
  BY <1>5 DEF OtherTurnSteps, CancelTurn, WatchersChange, AdapterStarts, GatewayBoots, Forget
<1> QED
  BY <1>1, <1>2, <1>3, <1>4, <1>5, TurnsSteps

LEMMA CountTypesStay ==
  ASSUME CountTypes, PromptsAreCounted, TurnsNext
  PROVE  CountTypes'
<1> USE TurnBounds DEF CountTypes, turnBounds, flowVars
<1>1. CASE PromptSteps
  <2> PICK p \in Prompt : PromptArrives(p) \/ PromptBegins(p) \/ PromptFails(p) \/ PromptEnds(p)
    BY <1>1 DEF PromptSteps
  <2>1. CASE PromptArrives(p) \/ PromptBegins(p) \/ PromptFails(p)
    BY <2>1 DEF PromptArrives, PromptBegins, PromptFails
  <2>2. CASE PromptEnds(p)
    <3>1. p \in OpenPrompts
      BY <2>2 DEF PromptEnds, OpenPrompts
    <3>2. inFlight # 0
      BY <3>1, OpenPromptsCount DEF PromptsAreCounted, OpenPrompts
    <3> QED
      BY <2>2, <3>2 DEF PromptEnds
  <2> QED
    BY <2>1, <2>2
<1>2. CASE LoadSteps
  BY <1>2 DEF LoadSteps, LoadArrives, LoadBegins, ReplayEnds, SettingsRestored
<1>3. CASE AgentSteps
  BY <1>3 DEF AgentSteps, AgentUpdates, TaskEnds, QuietElapses, SettleElapses
<1>4. CASE ThreadEnds
  BY <1>4 DEF ThreadEnds, AdapterEnds, GatewayCrashes, RequestsRejected
<1>5. CASE OtherTurnSteps
  BY <1>5 DEF OtherTurnSteps, CancelTurn, WatchersChange, AdapterStarts, GatewayBoots
<1> QED
  BY <1>1, <1>2, <1>3, <1>4, <1>5, TurnsSteps

LEMMA TurnsTypesStay ==
  ASSUME TurnsTypeOK, PromptsAreCounted, TurnsNext
  PROVE  TurnsTypeOK'
<1>1. FlagTypes' /\ FlowTypes' /\ CountTypes'
  BY TurnsTypesAre, FlagTypesStay, FlowTypesStay, CountTypesStay
<1> QED
  BY <1>1 DEF TurnsTypeOK, FlagTypes, FlowTypes, CountTypes

LEMMA CountStays ==
  ASSUME TurnsTypeOK, PromptsAreCounted, TurnsNext
  PROVE  PromptsAreCounted'
<1>1. (PromptsAreCounted <=> inFlight = Cardinality(OpenPrompts))'
  BY DEF PromptsAreCounted, OpenPrompts
<1>2. CASE PromptSteps
  BY <1>1, <1>2, CountFollows DEF PromptSteps, PromptArrives, PromptBegins, PromptFails, PromptEnds
<1>3. CASE LoadSteps
  BY <1>1, <1>3, CountFollows DEF LoadSteps, LoadArrives, LoadBegins, ReplayEnds, SettingsRestored
<1>4. CASE AgentSteps
  BY <1>1, <1>4, CountFollows
     DEF AgentSteps, AgentUpdates, TaskEnds, QuietElapses, SettleElapses, flowVars
<1>5. CASE ThreadEnds
  <2>1. (\A p \in Prompt : prompt'[p] # "open") /\ inFlight' = 0
    BY <1>5 DEF ThreadEnds, AdapterEnds, GatewayCrashes, RequestsRejected
  <2> QED
    BY <1>1, <2>1, CountFollows
<1>6. CASE OtherTurnSteps
  BY <1>1, <1>6, CountFollows
     DEF OtherTurnSteps, CancelTurn, WatchersChange, AdapterStarts, GatewayBoots, flowVars
<1> QED
  BY <1>2, <1>3, <1>4, <1>5, <1>6, TurnsSteps

\* The flag is cleared with the first prompt that ends, so it needs no count of its own.
LEMMA FlagStays ==
  ASSUME TurnsTypeOK, FlagMeansTurn, TurnsNext
  PROVE  FlagMeansTurn'
<1> USE DEF TurnsTypeOK, FlagMeansTurn
<1>1. CASE PromptSteps
  <2>1. \/ turnActive' = turnActive /\ inFlight' = inFlight /\ booted' = booted
        \/ turnActive' = TRUE /\ inFlight' = inFlight + 1
        \/ turnActive' = FALSE
    BY <1>1 DEF PromptSteps, PromptArrives, PromptBegins, PromptFails, PromptEnds
  <2>2. inFlight + 1 > 0
    OBVIOUS
  <2> HIDE DEF TurnsTypeOK
  <2> QED
    BY <2>1, <2>2
<1>2. CASE LoadSteps
  BY <1>2 DEF LoadSteps, LoadArrives, LoadBegins, ReplayEnds, SettingsRestored
<1>3. CASE AgentSteps
  BY <1>3 DEF AgentSteps, AgentUpdates, TaskEnds, QuietElapses, SettleElapses, flowVars
<1>4. CASE ThreadEnds
  BY <1>4 DEF ThreadEnds, AdapterEnds, GatewayCrashes
<1>5. CASE OtherTurnSteps
  BY <1>5 DEF OtherTurnSteps, CancelTurn, WatchersChange, AdapterStarts, GatewayBoots, flowVars
<1> QED
  BY <1>1, <1>2, <1>3, <1>4, <1>5, TurnsSteps

\* A relay begins only in an idle thread, and what would end the idleness looks for the
\* relay in the step that does.
LEMMA RelayStays ==
  ASSUME TurnsTypeOK, PromptsAreCounted, RelayIsAlone, RelayHasItsLoad, TurnsNext
  PROVE  RelayIsAlone' /\ RelayHasItsLoad'
<1> USE NoLoadAssumption DEF TurnsTypeOK, RelayIsAlone, RelayHasItsLoad
<1>1. CASE PromptSteps
  <2> PICK p \in Prompt : PromptArrives(p) \/ PromptBegins(p) \/ PromptFails(p) \/ PromptEnds(p)
    BY <1>1 DEF PromptSteps
  <2>1. CASE PromptArrives(p) \/ PromptFails(p)
    BY <2>1 DEF PromptArrives, PromptFails, activityVars
  <2>2. CASE PromptBegins(p)
    <3>1. relay' = relay /\ load' = load /\ tasks' = tasks
      BY <2>2 DEF PromptBegins
    <3>2. relay = NoLoad \/ (inFlight' = inFlight /\ speaking' = speaking)
      BY <2>2 DEF PromptBegins
    <3> QED
      BY <3>1, <3>2
  <2>3. CASE PromptEnds(p)
    <3>1. inFlight # 0
      <4>1. p \in OpenPrompts
        BY <2>3 DEF PromptEnds, OpenPrompts
      <4> QED
        BY <4>1, OpenPromptsCount DEF PromptsAreCounted, OpenPrompts
    <3>2. relay' = relay /\ load' = load
      BY <2>3 DEF PromptEnds
    <3> QED
      BY <3>1, <3>2
  <2> QED
    BY <2>1, <2>2, <2>3
<1>2. CASE LoadSteps
  BY <1>2 DEF LoadSteps, LoadArrives, LoadBegins, ReplayEnds, SettingsRestored, ThreadIdle, activityVars
<1>3. CASE AgentUpdates
  <2>1. relay = NoLoad
    <3> SUFFICES ASSUME relay # NoLoad PROVE FALSE
      OBVIOUS
    <3>1. OpenPrompts = {} /\ ~tasks
      BY OpenPromptsCount DEF PromptsAreCounted, OpenPrompts
    <3> QED
      BY <1>3, <3>1 DEF AgentUpdates, AgentWorks, OpenPrompts
  <2> QED
    BY <1>3, <2>1 DEF AgentUpdates, flowVars
<1>4. CASE TaskEnds \/ QuietElapses \/ SettleElapses
  BY <1>4 DEF TaskEnds, QuietElapses, SettleElapses, flowVars, activityVars
<1>5. CASE ThreadEnds
  BY <1>5 DEF ThreadEnds, AdapterEnds, GatewayCrashes, RequestsRejected
<1>6. CASE OtherTurnSteps
  BY <1>6 DEF OtherTurnSteps, CancelTurn, WatchersChange, AdapterStarts, GatewayBoots, flowVars,
     activityVars, Forget
<1> QED
  BY <1>1, <1>2, <1>3, <1>4, <1>5, <1>6, TurnsSteps DEF AgentSteps

LEMMA TimerStays ==
  ASSUME TurnsTypeOK, SpeakingIsTimed, TurnsNext
  PROVE  SpeakingIsTimed'
<1> USE DEF TurnsTypeOK, SpeakingIsTimed, activityVars
<1>1. CASE PromptSteps
  BY <1>1 DEF PromptSteps, PromptArrives, PromptBegins, PromptFails, PromptEnds, Mark
<1>2. CASE LoadSteps
  BY <1>2 DEF LoadSteps, LoadArrives, LoadBegins, ReplayEnds, SettingsRestored
<1>3. CASE AgentSteps
  BY <1>3 DEF AgentSteps, AgentUpdates, TaskEnds, QuietElapses, SettleElapses, Mark, CycleEnds
<1>4. CASE ThreadEnds
  BY <1>4 DEF ThreadEnds, AdapterEnds, GatewayCrashes, Forget
<1>5. CASE OtherTurnSteps
  BY <1>5 DEF OtherTurnSteps, CancelTurn, WatchersChange, AdapterStarts, GatewayBoots, Forget
<1> QED
  BY <1>1, <1>2, <1>3, <1>4, <1>5, TurnsSteps

\* What the gateway knows of the turns of a thread is always so, for any number of
\* prompts and loads: no relay meets a turn, the count is right, the flag ends with its
\* turn, and an agent that speaks has its timer.
THEOREM TurnsAreAlwaysTold == TurnsSpec => []TurnsAreTold
<1>1. TurnsInit => TurnsAreTold
  <2> SUFFICES ASSUME TurnsInit PROVE TurnsAreTold
    OBVIOUS
  <2>1. OpenPrompts = {}
    BY DEF TurnsInit, OpenPrompts
  <2>2. PromptsAreCounted
    BY <2>1, FS_EmptySet DEF TurnsInit, PromptsAreCounted, OpenPrompts
  <2>3. TurnsTypeOK
    <3>1. FlagTypes /\ FlowTypes
      BY DEF TurnsInit, FlagTypes, FlowTypes
    <3>2. CountTypes
      BY TurnBounds DEF TurnsInit, CountTypes
    <3> QED
      BY <3>1, <3>2, TurnsTypesAre
  <2>4. FlagMeansTurn /\ RelayIsAlone /\ RelayHasItsLoad /\ SpeakingIsTimed
    BY NoLoadAssumption DEF TurnsInit, FlagMeansTurn, RelayIsAlone, RelayHasItsLoad, SpeakingIsTimed
  <2> QED
    BY <2>2, <2>3, <2>4 DEF TurnsAreTold
<1>2. TurnsAreTold /\ [TurnsNext]_turnVars => TurnsAreTold'
  <2> SUFFICES ASSUME TurnsAreTold, [TurnsNext]_turnVars PROVE TurnsAreTold'
    OBVIOUS
  <2>1. CASE UNCHANGED turnVars
    BY <2>1 DEF turnVars, flowVars, activityVars, turnBounds, TurnsAreTold, TurnsTypeOK, PromptsAreCounted,
       FlagMeansTurn, RelayIsAlone, RelayHasItsLoad, SpeakingIsTimed
  <2>2. CASE TurnsNext
    BY <2>2, TurnsTypesStay, CountStays, FlagStays, RelayStays, TimerStays DEF TurnsAreTold
  <2> QED
    BY <2>1, <2>2
<1> QED
  BY <1>1, <1>2, PTL DEF TurnsSpec

(***************************************************************************)
(* McpServers.  A placeholder is bound to the address of its server when   *)
(* it is made, and nothing moves either of them.                           *)
(***************************************************************************)

\* What is stored of a set: its server has its secret, entered for its own address, over
\* https; and every placeholder that was given out has been made.
SecretsFollowServers ==
  /\ secrets \in [SetOfServers -> [placeholder : Nat, enteredFor : Url \cup {"none"}]]
  /\ \A s \in SetOfServers :
       /\ servers[s].secret => /\ secrets[s] # NoSecret /\ secrets[s].placeholder > 0
                               /\ secrets[s].enteredFor = servers[s].url /\ servers[s].url \in SecureUrl
       /\ ~servers[s].secret => secrets[s] = NoSecret

ServersInv == ServersTypeOK /\ SecretsFollowServers

LEMMA ServersInvMeans == ServersInv => SecretsGoHome
  BY DEF ServersInv, ServersTypeOK, SecretsFollowServers, SecretsGoHome, Injected, Server, NoServer

\* The row of a secret after its server is put.
LEMMA SecretRowIsRight ==
  ASSUME ServersInv, NEW s \in SetOfServers, NEW server \in Server, NEW entered \in BOOLEAN,
         ServerIsPut(s, server, entered)
  PROVE  /\ secrets' \in [SetOfServers -> [placeholder : Nat, enteredFor : Url \cup {"none"}]]
         /\ placeholders' \in Nat
         /\ \A t \in SetOfServers : secrets'[t].placeholder \in 0..placeholders'
         /\ \A t \in SetOfServers \ {s} : secrets'[t] = secrets[t]
         /\ server.secret => /\ secrets'[s] # NoSecret /\ secrets'[s].placeholder > 0
                             /\ secrets'[s].enteredFor = server.url
         /\ ~server.secret => secrets'[s] = NoSecret
<1> USE DEF SecretsFollowServers
<1>1. /\ SecretIsWritten(s, server, entered) /\ server.url \in Url
      /\ servers[s] # NoServer => servers[s].url = server.url
  BY DEF ServerIsPut, Server
<1>2. /\ secrets \in [SetOfServers -> [placeholder : Nat, enteredFor : Url \cup {"none"}]]
      /\ placeholders \in Nat /\ \A t \in SetOfServers : secrets[t].placeholder \in 0..placeholders
  BY DEF ServersInv, ServersTypeOK
<1>3. CASE ~server.secret
  BY <1>1, <1>2, <1>3 DEF SecretIsWritten, NoSecret
<1>4. CASE server.secret /\ secrets[s] = NoSecret
  <2>1. /\ placeholders' = placeholders + 1
        /\ secrets' = [secrets EXCEPT ![s] = [placeholder |-> placeholders + 1, enteredFor |-> server.url]]
    BY <1>1, <1>4 DEF SecretIsWritten
  <2> QED
    BY <1>1, <1>2, <1>4, <2>1 DEF NoSecret
<1>5. CASE server.secret /\ secrets[s] # NoSecret
  <2>1. /\ placeholders' = placeholders
        /\ secrets' = IF entered THEN [secrets EXCEPT ![s].enteredFor = server.url] ELSE secrets
    BY <1>1, <1>5 DEF SecretIsWritten
  <2>2. secrets[s].placeholder > 0 /\ secrets[s].enteredFor = server.url
    BY <1>1, <1>5 DEF NoServer, ServersInv
  <2> QED
    BY <1>1, <1>2, <1>5, <2>1, <2>2 DEF NoSecret
<1> QED
  BY <1>3, <1>4, <1>5

LEMMA ServerPutKeeps ==
  ASSUME ServersInv, NEW s \in SetOfServers, NEW server \in Server, NEW entered \in BOOLEAN,
         ServerIsPut(s, server, entered)
  PROVE  ServersInv'
<1>1. serverEdits' \in 0..MaxServerEdits /\ readies' \in 0..MaxReadies
  BY ServersAssumption DEF ServerIsPut, ServersChange, ServersInv, ServersTypeOK
<1>2. servers' = [servers EXCEPT ![s] = server]
  BY DEF ServerIsPut
<1>3. servers \in [SetOfServers -> Server \cup {NoServer}]
  BY DEF ServersInv, ServersTypeOK
<1>4. /\ servers' \in [SetOfServers -> Server \cup {NoServer}]
      /\ servers'[s] = server
      /\ \A t \in SetOfServers \ {s} : servers'[t] = servers[t]
  BY <1>2, <1>3
<1>5. ServersTypeOK'
  BY <1>1, <1>4, SecretRowIsRight DEF ServersTypeOK
<1>6. server.secret => server.url \in SecureUrl
  BY DEF ServerIsPut, IsValid
<1>7. ASSUME NEW t \in SetOfServers
      PROVE  /\ servers'[t].secret => /\ secrets'[t] # NoSecret /\ secrets'[t].placeholder > 0
                                      /\ secrets'[t].enteredFor = servers'[t].url /\ servers'[t].url \in SecureUrl
             /\ ~servers'[t].secret => secrets'[t] = NoSecret
  <2>1. CASE t = s
    BY <1>4, <1>6, <2>1, SecretRowIsRight
  <2>2. CASE t # s
    BY <1>4, <2>2, SecretRowIsRight DEF ServersInv, SecretsFollowServers
  <2> QED
    BY <2>1, <2>2
<1>8. SecretsFollowServers'
  BY <1>7, SecretRowIsRight DEF SecretsFollowServers
<1> QED
  BY <1>5, <1>8 DEF ServersInv

\* A secret leaves only to the address that it was entered for, for any number of
\* addresses, edits and starts.
THEOREM SecretsAlwaysGoHome == ServersSpec => []SecretsGoHome
<1>1. ServersInit => ServersInv
  BY ServersAssumption DEF ServersInit, ServersInv, ServersTypeOK, SecretsFollowServers, NoServer, NoSecret,
     Server
<1>2. ServersInv /\ [ServersNext]_serversVars => ServersInv'
  <2> SUFFICES ASSUME ServersInv, [ServersNext]_serversVars PROVE ServersInv'
    OBVIOUS
  <2>1. ASSUME NEW s \in SetOfServers, ServerIsDropped(s) PROVE ServersInv'
    BY <2>1, ServersAssumption DEF ServerIsDropped, ServersChange, ServersInv, ServersTypeOK,
       SecretsFollowServers, NoServer, NoSecret, Server
  <2>2. CASE SetupTakesServers \/ BoxGetsServers \/ SessionGetsServers \/ UNCHANGED serversVars
    BY <2>2, ServersAssumption DEF SetupTakesServers, BoxGetsServers, SessionGetsServers, serversVars,
       ServersInv, ServersTypeOK, SecretsFollowServers
  <2> QED
    BY <2>1, <2>2, ServerPutKeeps DEF ServersNext
<1> QED
  BY <1>1, <1>2, ServersInvMeans, PTL DEF ServersSpec

(***************************************************************************)
(* Questions.  A question has its message, its approval or its answer with *)
(* a browser at most once, and only while the gateway waits for it there,  *)
(* or with the withdrawal behind it.  The messages of a channel are told   *)
(* apart by four lemmas about the sequences; the rest follows one question *)
(* and one browser at a time.                                              *)
(***************************************************************************)

\* A channel holds a message; it holds a question at most once; and each question q it
\* holds is followed by its withdrawal.
Carries(w, m) == \E i \in DOMAIN w : w[i] = m

AskedOnce(w, q) == \A i, j \in DOMAIN w : w[i] = Ask(q) /\ w[j] = Ask(q) => i = j

ThenWithdrawn(w, q) ==
  \A i \in DOMAIN w : w[i] = Ask(q) => \E j \in DOMAIN w : j > i /\ w[j] = Withdraw(q)

\* What a channel holds after messages were sent.
LEMMA SentMessages ==
  ASSUME NEW w \in Seq(Message), NEW s \in Seq(Message)
  PROVE  /\ w \o s \in Seq(Message)
         /\ \A m : Carries(w \o s, m) <=> Carries(w, m) \/ Carries(s, m)
         /\ \A q : AskedOnce(w, q) /\ AskedOnce(s, q) /\ ~(Carries(w, Ask(q)) /\ Carries(s, Ask(q)))
                     => AskedOnce(w \o s, q)
         /\ \A q : ~Carries(s, Ask(q)) /\ (ThenWithdrawn(w, q) \/ Carries(s, Withdraw(q)))
                     => ThenWithdrawn(w \o s, q)
<1> DEFINE n == Len(w)  k == Len(s)  v == w \o s
<1>1. /\ n \in Nat /\ k \in Nat /\ DOMAIN w = 1..n /\ DOMAIN s = 1..k /\ DOMAIN v = 1..(n + k)
      /\ v \in Seq(Message)
  BY ConcatProperties, LenProperties
<1>2. \A i \in 1..n : i \in 1..(n + k) /\ v[i] = w[i]
  BY <1>1, ConcatProperties
<1>3. \A i \in 1..k : n + i \in 1..(n + k) /\ v[n + i] = s[i]
  <2> TAKE i \in 1..k
  <2>1. n + i \in 1..(n + k) /\ ~(n + i <= n) /\ (n + i) - n = i
    BY <1>1
  <2> QED
    BY <1>1, <2>1, ConcatProperties
<1>4. \A i \in 1..(n + k) : \/ i \in 1..n /\ v[i] = w[i]
                            \/ i > n /\ i - n \in 1..k /\ v[i] = s[i - n]
  BY <1>1, ConcatProperties
<1> HIDE DEF n, k, v
<1>5. \A m : Carries(v, m) <=> Carries(w, m) \/ Carries(s, m)
  BY <1>1, <1>2, <1>3, <1>4 DEF Carries
<1>6. ASSUME NEW q, AskedOnce(w, q), AskedOnce(s, q), ~(Carries(w, Ask(q)) /\ Carries(s, Ask(q)))
      PROVE  AskedOnce(v, q)
  <2> SUFFICES ASSUME NEW i \in 1..(n + k), NEW j \in 1..(n + k), v[i] = Ask(q), v[j] = Ask(q)
               PROVE  i = j
    BY <1>1 DEF AskedOnce
  <2>1. CASE i \in 1..n /\ v[i] = w[i] /\ j \in 1..n /\ v[j] = w[j]
    BY <1>1, <1>6, <2>1 DEF AskedOnce
  <2>2. CASE i > n /\ i - n \in 1..k /\ v[i] = s[i - n] /\ j > n /\ j - n \in 1..k /\ v[j] = s[j - n]
    <3>1. i - n = j - n
      BY <1>1, <1>6, <2>2 DEF AskedOnce
    <3> QED
      BY <1>1, <3>1
  <2> QED
    BY <1>1, <1>4, <1>6, <2>1, <2>2 DEF Carries
<1>7. ASSUME NEW q, ~Carries(s, Ask(q)), ThenWithdrawn(w, q) \/ Carries(s, Withdraw(q))
      PROVE  ThenWithdrawn(v, q)
  <2> SUFFICES ASSUME NEW i \in 1..(n + k), v[i] = Ask(q)
               PROVE  \E j \in 1..(n + k) : j > i /\ v[j] = Withdraw(q)
    BY <1>1 DEF ThenWithdrawn
  <2>1. i \in 1..n /\ w[i] = Ask(q)
    BY <1>1, <1>4, <1>7 DEF Carries
  <2>2. CASE ThenWithdrawn(w, q)
    BY <1>1, <1>2, <2>1, <2>2 DEF ThenWithdrawn
  <2>3. CASE Carries(s, Withdraw(q))
    <3> PICK j \in 1..k : s[j] = Withdraw(q)
      BY <1>1, <2>3 DEF Carries
    <3>1. n + j > i
      BY <1>1, <2>1
    <3> QED
      BY <1>3, <3>1
  <2> QED
    BY <1>7, <2>2, <2>3
<1> QED
  BY <1>1, <1>5, <1>6, <1>7 DEF v

\* What a channel holds after its first message was taken.
LEMMA TakenMessage ==
  ASSUME NEW w \in Seq(Message), w # <<>>
  PROVE  /\ Head(w) \in Message /\ Tail(w) \in Seq(Message)
         /\ \A m : Carries(w, m) <=> Head(w) = m \/ Carries(Tail(w), m)
         /\ \A q : AskedOnce(w, q) => AskedOnce(Tail(w), q)
         /\ \A q : AskedOnce(w, q) /\ Head(w) = Ask(q) => ~Carries(Tail(w), Ask(q))
         /\ \A q : ThenWithdrawn(w, q) => ThenWithdrawn(Tail(w), q)
         /\ \A q : ThenWithdrawn(w, q) /\ Head(w) = Ask(q) => Carries(Tail(w), Withdraw(q))
<1> DEFINE n == Len(w)  t == Tail(w)
<1>1. n \in Nat \ {0} /\ DOMAIN w = 1..n
  BY EmptySeq, LenProperties
<1>2. Head(w) = w[1] /\ Head(w) \in Message /\ t \in Seq(Message) /\ DOMAIN t = 1..(n - 1)
  BY <1>1, HeadTailProperties, LenProperties
<1>3. \A i \in 1..(n - 1) : t[i] = w[i + 1] /\ i + 1 \in 1..n
  BY <1>1, <1>2, HeadTailProperties
<1>4. \A i \in 1..n : i = 1 \/ \E j \in 1..(n - 1) : i = j + 1 /\ w[i] = t[j]
  <2> TAKE i \in 1..n
  <2>1. i = 1 \/ (i - 1 \in 1..(n - 1) /\ i = (i - 1) + 1)
    BY <1>1
  <2> QED
    BY <1>3, <2>1
<1>5. 1 \in 1..n /\ \A i \in 1..(n - 1) : i + 1 # 1 /\ \A j \in 1..(n - 1) : (j + 1 > i + 1 <=> j > i) /\ (i + 1 = j + 1 => i = j)
  BY <1>1
<1> HIDE DEF n, t
<1>6. ASSUME NEW m PROVE Carries(w, m) <=> Head(w) = m \/ Carries(t, m)
  <2>1. Carries(w, m) => Head(w) = m \/ Carries(t, m)
    BY <1>1, <1>2, <1>4 DEF Carries
  <2>2. Head(w) = m => Carries(w, m)
    BY <1>1, <1>2, <1>5 DEF Carries
  <2>3. Carries(t, m) => Carries(w, m)
    BY <1>1, <1>2, <1>3 DEF Carries
  <2> QED
    BY <2>1, <2>2, <2>3
<1>7. ASSUME NEW q, AskedOnce(w, q)
      PROVE  AskedOnce(t, q) /\ (Head(w) = Ask(q) => ~Carries(t, Ask(q)))
  <2>1. AskedOnce(t, q)
    <3> SUFFICES ASSUME NEW i \in 1..(n - 1), NEW j \in 1..(n - 1), t[i] = Ask(q), t[j] = Ask(q)
                 PROVE  i = j
      BY <1>2 DEF AskedOnce
    <3>1. i + 1 = j + 1
      BY <1>1, <1>3, <1>7 DEF AskedOnce
    <3> QED
      BY <1>5, <3>1
  <2>2. ASSUME Head(w) = Ask(q), Carries(t, Ask(q)) PROVE FALSE
    <3> PICK i \in 1..(n - 1) : t[i] = Ask(q)
      BY <1>2, <2>2 DEF Carries
    <3>1. i + 1 = 1
      BY <1>1, <1>2, <1>3, <1>5, <1>7, <2>2 DEF AskedOnce
    <3> QED
      BY <1>5, <3>1
  <2> QED
    BY <2>1, <2>2
<1>8. ASSUME NEW q, ThenWithdrawn(w, q)
      PROVE  ThenWithdrawn(t, q) /\ (Head(w) = Ask(q) => Carries(t, Withdraw(q)))
  <2>1. ASSUME NEW i \in 1..n, w[i] = Ask(q)
        PROVE  \E j \in 1..(n - 1) : j + 1 > i /\ t[j] = Withdraw(q)
    <3> PICK j \in 1..n : j > i /\ w[j] = Withdraw(q)
      BY <1>1, <1>8, <2>1 DEF ThenWithdrawn
    <3>1. j # 1
      BY <1>1
    <3> QED
      BY <1>4, <3>1
  <2>2. ThenWithdrawn(t, q)
    <3> SUFFICES ASSUME NEW i \in 1..(n - 1), t[i] = Ask(q)
                 PROVE  \E j \in 1..(n - 1) : j > i /\ t[j] = Withdraw(q)
      BY <1>2 DEF ThenWithdrawn
    <3> QED
      BY <1>3, <1>5, <2>1
  <2>3. Head(w) = Ask(q) => Carries(t, Withdraw(q))
    BY <1>2, <1>5, <2>1 DEF Carries
  <2> QED
    BY <2>2, <2>3
<1> QED
  BY <1>2, <1>6, <1>7, <1>8 DEF t

\* SetToSeq holds the elements of a finite set, each once.
LEMMA SetToSeqHolds ==
  ASSUME NEW S, IsFiniteSet(S), S \subseteq Message
  PROVE  /\ SetToSeq(S) \in Seq(Message)
         /\ \A m : Carries(SetToSeq(S), m) <=> m \in S
         /\ \A q : AskedOnce(SetToSeq(S), q)
<1> DEFINE n == Cardinality(S)  f == SetToSeq(S)
<1>1. n \in Nat /\ \E g \in [1..n -> S] : IsInjective(g)
  BY FS_CardinalityType DEF ExistsBijection, Bijection, Injection
<1>2. f \in [1..n -> S] /\ IsInjective(f)
  BY <1>1 DEF SetToSeq
<1>3. f \in Injection(1..n, S)
  BY <1>2 DEF Injection
<1>4. Cardinality(1..n) = n
  BY <1>1, FS_Interval
<1>5. f \in Surjection(1..n, S)
  BY <1>3, <1>4, FS_Injection
<1>6. \A m \in S : \E i \in 1..n : f[i] = m
  BY <1>5 DEF Surjection
<1> HIDE DEF f, n
<1>7. f \in Seq(Message)
  BY <1>1, <1>2, SeqDef
<1> QED
  BY <1>2, <1>6, <1>7 DEF Carries, AskedOnce, IsInjective, f

\* The gateway waits for no answer to q, of nobody.
IsGone(q) == direct[q] = NoBrowser /\ q \notin queued /\ outcome[q] # "unasked"

Answering(q, b) == \E o \in Answer : <<q, o>> \in back[b]

\* Where a question can be: with a browser only once, as a message, as an approval or as an
\* answer; and only while the gateway waits for the answer, or after it has withdrawn it, or
\* has taken a late answer for it.
PlaceIsTrue(q, b) ==
  /\ WithBrowser(q, b) => stage[b] # "away" /\ (IsOpen(q, b) \/ IsGone(q))
  /\ AskedOnce(wire[b], q)
  /\ Carries(wire[b], Ask(q)) => q \notin shown[b]
  /\ Answering(q, b) => q \notin shown[b] /\ ~Carries(wire[b], Ask(q))
  /\ \/ IsOpen(q, b) \/ q \in misread
     \/ ThenWithdrawn(wire[b], q) /\ (q \in shown[b] => Carries(wire[b], Withdraw(q)))

PlacesAreTrue == \A q \in Question, b \in Browser : PlaceIsTrue(q, b)

\* A question was asked before it has a place in the gateway, and has only one; it is
\* delivered from the queue, to open threads.
QueueIsTrue ==
  \A q \in Question :
    /\ direct[q] # NoBrowser => outcome[q] # "unasked" /\ q \notin queued
    /\ q \in queued => outcome[q] # "unasked"
    /\ \A b \in deliveries[q] : q \in queued /\ stage[b] = "open"

\* The request of a question is answered once, and not while the gateway waits for an answer.
AnswersAreTrue ==
  \A q \in Question :
    /\ resolved[q] \in {0, 1}
    /\ outcome[q] = "unasked" \/ direct[q] # NoBrowser \/ q \in queued => resolved[q] = 0

\* The page of an open thread that still has the approvals of an earlier socket is about to
\* read the replay.
LeftoversEnd ==
  \A b \in Browser : stage[b] = "open" => leftover[b] = {} \/ Carries(wire[b], Replay)

\* An orchestrator that ended has left nothing but rows.
EndedIsEmpty ==
  ~gateway => ~held /\ queued = {} /\ \A b \in Browser : stage[b] = "away"

QuestionsInv ==
  /\ QuestionsTypeOK /\ WaitingQuestionIsSomewhere /\ RowsAreAnswerable
  /\ PlacesAreTrue /\ QueueIsTrue /\ EndedIsEmpty /\ AnswersAreTrue /\ LeftoversEnd

LEMMA WithBrowserMeans ==
  ASSUME NEW q, NEW b
  PROVE  WithBrowser(q, b) <=> Carries(wire[b], Ask(q)) \/ q \in shown[b] \/ Answering(q, b)
  BY DEF WithBrowser, Carries, Answering

LEMMA MessagesAreDistinct ==
  ASSUME NEW q \in Question
  PROVE  /\ Ask(q) \in Message /\ Withdraw(q) \in Message /\ Replay \in Message
         /\ \A r \in Question : Ask(q) # Withdraw(r) /\ (Ask(q) = Ask(r) => q = r)
                                                     /\ (Withdraw(q) = Withdraw(r) => q = r)
         /\ Ask(q) # Replay /\ Withdraw(q) # Replay
<1>1. \A r : /\ Ask(r).kind = "ask" /\ Withdraw(r).kind = "withdraw" /\ Replay.kind = "replay"
             /\ Ask(r).q = r /\ Withdraw(r).q = r
  BY DEF Ask, Withdraw, Replay
<1>2. Ask(q) \in Message /\ Withdraw(q) \in Message /\ Replay \in Message
  BY DEF Ask, Withdraw, Replay, Message
<1> QED
  BY <1>1, <1>2

\* A set of messages about questions is finite.
LEMMA MessageSetsAreFinite ==
  ASSUME NEW Q \in SUBSET Question
  PROVE  IsFiniteSet({Ask(q) : q \in Q}) /\ IsFiniteSet({Withdraw(q) : q \in Q})
<1>1. IsFiniteSet(Q)
  BY QuestionsFinite, FS_Subset
<1>2. [q \in Q |-> Ask(q)] \in Surjection(Q, {Ask(q) : q \in Q})
  BY DEF Surjection
<1>3. [q \in Q |-> Withdraw(q)] \in Surjection(Q, {Withdraw(q) : q \in Q})
  BY DEF Surjection
<1> QED
  BY <1>1, <1>2, <1>3, FS_Surjection

\* One message more in a channel.
LEMMA OneMessage ==
  ASSUME NEW w \in Seq(Message), NEW m \in Message
  PROVE  Append(w, m) = w \o <<m>> /\ <<m>> \in Seq(Message) /\ \A x : Carries(<<m>>, x) <=> x = m
<1>1. Append(w, m) = w \o <<m>> /\ <<m>> \in Seq(Message)
  OBVIOUS
<1>2. DOMAIN <<m>> = {1} /\ <<m>>[1] = m
  OBVIOUS
<1> QED
  BY <1>1, <1>2 DEF Carries

LEMMA AskIsSent ==
  ASSUME NEW w \in Seq(Message), NEW q \in Question
  PROVE  /\ Append(w, Ask(q)) \in Seq(Message)
         /\ Carries(Append(w, Ask(q)), Ask(q))
         /\ \A r \in Question : r # q => (Carries(Append(w, Ask(q)), Ask(r)) <=> Carries(w, Ask(r)))
         /\ \A r \in Question : Carries(Append(w, Ask(q)), Withdraw(r)) <=> Carries(w, Withdraw(r))
         /\ Carries(w, Replay) => Carries(Append(w, Ask(q)), Replay)
         /\ \A r \in Question : AskedOnce(w, r) /\ (r = q => ~Carries(w, Ask(r)))
                                  => AskedOnce(Append(w, Ask(q)), r)
         /\ \A r \in Question \ {q} : ThenWithdrawn(w, r) => ThenWithdrawn(Append(w, Ask(q)), r)
<1> DEFINE s == <<Ask(q)>>
<1>1. /\ Append(w, Ask(q)) = w \o s /\ s \in Seq(Message) /\ \A x : Carries(s, x) <=> x = Ask(q)
  BY OneMessage, MessagesAreDistinct
<1>2. \A r : AskedOnce(s, r)
  BY DEF AskedOnce
<1> HIDE DEF s
<1> QED
  BY <1>1, <1>2, SentMessages, MessagesAreDistinct

\* The messages of a set, in the order of SetToSeq.
LEMMA WithdrawalsInOrder ==
  ASSUME NEW Q \in SUBSET Question, NEW s, s = SetToSeq({Withdraw(q) : q \in Q})
  PROVE  /\ s \in Seq(Message)
         /\ \A r \in Question : ~Carries(s, Ask(r)) /\ (Carries(s, Withdraw(r)) <=> r \in Q)
<1> DEFINE S == {Withdraw(q) : q \in Q}
<1>1. IsFiniteSet(S) /\ S \subseteq Message
  BY MessageSetsAreFinite, MessagesAreDistinct
<1>2. \A r \in Question : Ask(r) \notin S /\ (Withdraw(r) \in S <=> r \in Q)
  BY MessagesAreDistinct
<1> HIDE DEF S
<1>3. SetToSeq(S) \in Seq(Message) /\ (\A m : Carries(SetToSeq(S), m) <=> m \in S)
  BY <1>1, SetToSeqHolds
<1> QED
  BY <1>2, <1>3 DEF S

LEMMA AsksInOrder ==
  ASSUME NEW Q \in SUBSET Question, NEW s, s = SetToSeq({Ask(q) : q \in Q})
  PROVE  /\ s \in Seq(Message)
         /\ \A r \in Question : ~Carries(s, Withdraw(r)) /\ (Carries(s, Ask(r)) <=> r \in Q)
         /\ \A r \in Question : AskedOnce(s, r)
<1> DEFINE S == {Ask(q) : q \in Q}
<1>1. IsFiniteSet(S) /\ S \subseteq Message
  BY MessageSetsAreFinite, MessagesAreDistinct
<1>2. \A r \in Question : Withdraw(r) \notin S /\ (Ask(r) \in S <=> r \in Q)
  BY MessagesAreDistinct
<1> HIDE DEF S
<1>3. /\ SetToSeq(S) \in Seq(Message) /\ (\A m : Carries(SetToSeq(S), m) <=> m \in S)
      /\ \A r : AskedOnce(SetToSeq(S), r)
  BY <1>1, SetToSeqHolds
<1> QED
  BY <1>2, <1>3 DEF S

\* Withdrawals are sent: they withdraw what is on its way, and ask nothing.
LEMMA WithdrawalsAreSent ==
  ASSUME NEW w \in Seq(Message), NEW Q \in SUBSET Question, NEW s \in Seq(Message),
         \A r \in Question : ~Carries(s, Ask(r)) /\ (Carries(s, Withdraw(r)) <=> r \in Q)
  PROVE  /\ w \o s \in Seq(Message)
         /\ \A r \in Question : Carries(w \o s, Ask(r)) <=> Carries(w, Ask(r))
         /\ \A r \in Question : Carries(w \o s, Withdraw(r)) <=> Carries(w, Withdraw(r)) \/ r \in Q
         /\ \A r \in Question : AskedOnce(w, r) => AskedOnce(w \o s, r)
         /\ \A r \in Question : ThenWithdrawn(w, r) \/ r \in Q => ThenWithdrawn(w \o s, r)
         /\ Carries(w, Replay) => Carries(w \o s, Replay)
<1>1. ASSUME NEW r \in Question, AskedOnce(w, r) PROVE AskedOnce(w \o s, r)
  <2>1. AskedOnce(s, r)
    BY DEF AskedOnce, Carries
  <2> QED
    BY <1>1, <2>1, SentMessages
<1> QED
  BY <1>1, SentMessages

\* The replay and the queued questions Q are sent.
LEMMA ReplayIsSent ==
  ASSUME NEW w \in Seq(Message), NEW Q \in SUBSET Question, NEW s \in Seq(Message),
         \A r \in Question : ~Carries(s, Withdraw(r)) /\ (Carries(s, Ask(r)) <=> r \in Q),
         \A r \in Question : AskedOnce(s, r)
  PROVE  LET v == w \o <<Replay>> \o s IN
         /\ v \in Seq(Message)
         /\ \A r \in Question : Carries(v, Ask(r)) <=> Carries(w, Ask(r)) \/ r \in Q
         /\ \A r \in Question : AskedOnce(w, r) /\ (r \in Q => ~Carries(w, Ask(r))) => AskedOnce(v, r)
         /\ \A r \in Question \ Q : ThenWithdrawn(w, r) => ThenWithdrawn(v, r)
         /\ \A r \in Question : Carries(v, Withdraw(r)) <=> Carries(w, Withdraw(r))
         /\ Carries(v, Replay)
<1> DEFINE p == <<Replay>>  u == w \o p
<1>1. p \in Seq(Message) /\ \A x : Carries(p, x) <=> x = Replay
  <2>1. Replay \in Message
    BY DEF Replay, Message
  <2> QED
    BY <2>1, OneMessage
<1>2. \A r : AskedOnce(p, r)
  BY DEF AskedOnce
<1> HIDE DEF p
<1>3. /\ u \in Seq(Message) /\ Carries(u, Replay)
      /\ \A r \in Question : Carries(u, Ask(r)) <=> Carries(w, Ask(r))
      /\ \A r \in Question : Carries(u, Withdraw(r)) <=> Carries(w, Withdraw(r))
      /\ \A r \in Question : AskedOnce(w, r) => AskedOnce(u, r)
      /\ \A r \in Question : ThenWithdrawn(w, r) => ThenWithdrawn(u, r)
  BY <1>1, <1>2, SentMessages, MessagesAreDistinct
<1> HIDE DEF u
<1>4. /\ u \o s \in Seq(Message) /\ Carries(u \o s, Replay)
      /\ \A r \in Question : Carries(u \o s, Ask(r)) <=> Carries(u, Ask(r)) \/ r \in Q
      /\ \A r \in Question : Carries(u \o s, Withdraw(r)) <=> Carries(u, Withdraw(r))
  BY <1>3, SentMessages
<1>5. ASSUME NEW r \in Question, AskedOnce(u, r), r \in Q => ~Carries(u, Ask(r)) PROVE AskedOnce(u \o s, r)
  BY <1>3, <1>5, SentMessages
<1>6. ASSUME NEW r \in Question \ Q, ThenWithdrawn(u, r) PROVE ThenWithdrawn(u \o s, r)
  BY <1>3, <1>6, SentMessages
<1>7. w \o <<Replay>> \o s = u \o s
  BY DEF u, p
<1> QED
  BY <1>3, <1>4, <1>5, <1>6, <1>7

\* What is sent by a settlement of the questions Q, with the deliveries D.
LEMMA SettlementIsSent ==
  ASSUME wire \in [Browser -> Seq(Message)], NEW Q \in SUBSET Question,
         NEW D \in [Question -> SUBSET Browser], Settle(Q, D)
  PROVE  /\ wire' \in [Browser -> Seq(Message)]
         /\ \A b \in Browser : Carries(wire[b], Replay) => Carries(wire'[b], Replay)
         /\ \A b \in Browser, q \in Question :
              /\ Carries(wire'[b], Ask(q)) <=> Carries(wire[b], Ask(q))
              /\ Carries(wire'[b], Withdraw(q)) <=> Carries(wire[b], Withdraw(q)) \/ (q \in Q /\ b \in D[q])
              /\ AskedOnce(wire[b], q) => AskedOnce(wire'[b], q)
              /\ ThenWithdrawn(wire[b], q) \/ (q \in Q /\ b \in D[q]) => ThenWithdrawn(wire'[b], q)
<1> DEFINE of(b) == {r \in Q : b \in D[r]}  s(b) == SetToSeq({Withdraw(q) : q \in of(b)})
<1>1. wire' = [b \in Browser |-> wire[b] \o s(b)]
  BY DEF Settle
<1>2. ASSUME NEW b \in Browser
      PROVE  /\ of(b) \in SUBSET Question
             /\ s(b) \in Seq(Message)
             /\ \A r \in Question : ~Carries(s(b), Ask(r)) /\ (Carries(s(b), Withdraw(r)) <=> r \in of(b))
  BY WithdrawalsInOrder
<1> HIDE DEF s
<1>3. \A b \in Browser : wire'[b] = wire[b] \o s(b) /\ wire[b] \in Seq(Message)
  BY <1>1
<1>4. ASSUME NEW b \in Browser
      PROVE  /\ wire'[b] \in Seq(Message) /\ (Carries(wire[b], Replay) => Carries(wire'[b], Replay))
             /\ \A q \in Question :
                  /\ Carries(wire'[b], Ask(q)) <=> Carries(wire[b], Ask(q))
                  /\ Carries(wire'[b], Withdraw(q)) <=> Carries(wire[b], Withdraw(q)) \/ q \in of(b)
                  /\ AskedOnce(wire[b], q) => AskedOnce(wire'[b], q)
                  /\ ThenWithdrawn(wire[b], q) \/ q \in of(b) => ThenWithdrawn(wire'[b], q)
  <2>1. /\ wire[b] \in Seq(Message) /\ of(b) \in SUBSET Question /\ s(b) \in Seq(Message)
        /\ \A r \in Question : ~Carries(s(b), Ask(r)) /\ (Carries(s(b), Withdraw(r)) <=> r \in of(b))
    BY <1>2
  <2> DEFINE w == wire[b]  Q1 == of(b)  s1 == s(b)
  <2> HIDE DEF w, Q1, s1
  <2>2. /\ w \in Seq(Message) /\ Q1 \in SUBSET Question /\ s1 \in Seq(Message)
        /\ \A r \in Question : ~Carries(s1, Ask(r)) /\ (Carries(s1, Withdraw(r)) <=> r \in Q1)
    BY <2>1 DEF w, Q1, s1
  <2>3. /\ w \o s1 \in Seq(Message) /\ (Carries(w, Replay) => Carries(w \o s1, Replay))
        /\ \A q \in Question :
             /\ Carries(w \o s1, Ask(q)) <=> Carries(w, Ask(q))
             /\ Carries(w \o s1, Withdraw(q)) <=> Carries(w, Withdraw(q)) \/ q \in Q1
             /\ AskedOnce(w, q) => AskedOnce(w \o s1, q)
             /\ ThenWithdrawn(w, q) \/ q \in Q1 => ThenWithdrawn(w \o s1, q)
    BY <2>2, WithdrawalsAreSent
  <2>4. wire'[b] = w \o s1
    BY <1>3 DEF w, s1
  <2> QED
    BY <2>3, <2>4 DEF w, Q1
<1> QED
  BY <1>1, <1>4

(***************************************************************************)
(* Types.                                                                  *)
(***************************************************************************)

GatewayTypes ==
  /\ held \in BOOLEAN /\ gateway \in BOOLEAN
  /\ outcome \in [Question -> Answer \cup {"unasked", "waiting", "denied", "lost"}]
  /\ fallback \in {"hold", "deny"}
  /\ resolved \in [Question -> Nat]
  /\ direct \in [Question -> Browser \cup {NoBrowser}]
  /\ queued \subseteq Question /\ timers \subseteq queued /\ rows \subseteq Question
  /\ deliveries \in [Question -> SUBSET Browser]

PageTypes ==
  /\ stage \in [Browser -> Stage]
  /\ shown \in [Browser -> SUBSET Question]
  /\ back \in [Browser -> SUBSET (Question \X Answer)]
  /\ leftover \in [Browser -> SUBSET Question]
  /\ overdue \in [Browser -> SUBSET (Question \X Answer)]
  /\ misread \subseteq Question
  /\ recency \subseteq Browser \X Browser

WireType == wire \in [Browser -> Seq(Message)]

QuestionCounts == sockets \in 0..MaxSockets /\ losses \in 0..MaxLosses

LEMMA QuestionTypesAre == QuestionsTypeOK <=> GatewayTypes /\ PageTypes /\ WireType /\ QuestionCounts
  BY DEF QuestionsTypeOK, GatewayTypes, PageTypes, WireType, QuestionCounts

\* The actions of the gateway, of the process, and of the sockets and browsers.
AskSteps == \E q \in Question : AskQuestion(q) \/ HoldElapses(q)
HandshakeSteps == \E b \in Browser : Attach(b) \/ PinBrowser(b) \/ AskForThread(b) \/ LoadThreadFor(b)
ChannelSteps == \E b \in Browser : MessageArrives(b) \/ SocketCloses(b)
AnswerSteps ==
  \E b \in Browser, q \in Question, o \in Answer :
    \/ AnswerArrives(b, q, o) \/ UserAnswers(b, q, o)
    \/ LateAnswerArrives(b, q, o) \/ UserAnswersLate(b, q, o)
ProcessSteps == AdapterHolds \/ AdapterLost \/ OrchestratorEnds \/ OrchestratorBoots

LEMMA QuestionSteps ==
  QuestionsNext <=> AskSteps \/ HandshakeSteps \/ ChannelSteps \/ AnswerSteps \/ ProcessSteps
  BY DEF QuestionsNext, AskSteps, HandshakeSteps, ChannelSteps, AnswerSteps, ProcessSteps

\* An answer to a request counts it once more.
LEMMA AnswerCounts ==
  ASSUME GatewayTypes, NEW q \in Question, NEW o \in Answer \cup {"denied"}, Answered(q, o)
  PROVE  /\ resolved' \in [Question -> Nat]
         /\ outcome' \in [Question -> Answer \cup {"unasked", "waiting", "denied", "lost"}]
<1>1. resolved' = [resolved EXCEPT ![q] = @ + 1] /\ resolved[q] \in Nat
  BY DEF Answered, GatewayTypes
<1>2. resolved[q] + 1 \in Nat
  BY <1>1
<1>3. resolved' \in [Question -> Nat]
  BY <1>1, <1>2 DEF GatewayTypes
<1>4. outcome' = [outcome EXCEPT ![q] = IF @ = "waiting" THEN o ELSE @]
  BY DEF Answered
<1>5. outcome' \in [Question -> Answer \cup {"unasked", "waiting", "denied", "lost"}]
  BY <1>4 DEF GatewayTypes
<1> QED
  BY <1>3, <1>5

LEMMA TakenTypes ==
  ASSUME GatewayTypes, NEW b \in Browser, NEW q \in Question, NEW o \in Answer, TakeAnswer(b, q, o),
         UNCHANGED <<held, gateway, fallback>>
  PROVE  GatewayTypes'
<1>1. /\ resolved' \in [Question -> Nat]
      /\ outcome' \in [Question -> Answer \cup {"unasked", "waiting", "denied", "lost"}]
  BY AnswerCounts DEF TakeAnswer
<1>2. \/ direct' = [direct EXCEPT ![q] = NoBrowser] /\ UNCHANGED <<queued, timers, deliveries, rows>>
      \/ direct' = direct /\ Settle({q}, [deliveries EXCEPT ![q] = @ \ {b}])
  BY DEF TakeAnswer
<1> QED
  BY <1>1, <1>2 DEF GatewayTypes, Settle

LEMMA GatewayTypesStay ==
  ASSUME GatewayTypes, QuestionsNext
  PROVE  GatewayTypes'
<1> USE DEF gatewayVars, outcomeVars
<1>1. CASE AskSteps
  <2>1. ASSUME NEW q \in Question, AskQuestion(q) PROVE GatewayTypes'
    BY <2>1 DEF AskQuestion, Enqueue, GatewayTypes
  <2>2. ASSUME NEW q \in Question, HoldElapses(q), fallback = "hold" PROVE GatewayTypes'
    BY <2>2 DEF HoldElapses, GatewayTypes
  <2>3. ASSUME NEW q \in Question, HoldElapses(q), fallback = "deny" PROVE GatewayTypes'
    <3>1. Settle({q}, deliveries) /\ Answered(q, "denied") /\ UNCHANGED <<held, gateway, fallback, direct>>
      BY <2>3 DEF HoldElapses
    <3>2. /\ resolved' \in [Question -> Nat]
          /\ outcome' \in [Question -> Answer \cup {"unasked", "waiting", "denied", "lost"}]
      BY <3>1, AnswerCounts
    <3> QED
      BY <3>1, <3>2 DEF GatewayTypes, Settle
  <2> QED
    BY <1>1, <2>1, <2>2, <2>3 DEF AskSteps, GatewayTypes
<1>2. CASE HandshakeSteps
  <2>1. ASSUME NEW b \in Browser, Attach(b) \/ PinBrowser(b) \/ AskForThread(b) PROVE GatewayTypes'
    <3>1. UNCHANGED <<held, gateway, outcome, resolved, fallback, direct, queued, timers, rows, deliveries>>
      BY <2>1 DEF Attach, PinBrowser, AskForThread
    <3> QED
      BY <3>1 DEF GatewayTypes
  <2>2. ASSUME NEW b \in Browser, LoadThreadFor(b) PROVE GatewayTypes'
    BY <2>2 DEF LoadThreadFor, GatewayTypes
  <2> QED
    BY <1>2, <2>1, <2>2 DEF HandshakeSteps
<1>3. CASE ChannelSteps
  BY <1>3 DEF ChannelSteps, MessageArrives, SocketCloses, Enqueue, GatewayTypes
<1>4. CASE AnswerSteps
  <2> PICK b \in Browser, q \in Question, o \in Answer :
             \/ AnswerArrives(b, q, o) \/ UserAnswers(b, q, o)
             \/ LateAnswerArrives(b, q, o) \/ UserAnswersLate(b, q, o)
    BY <1>4 DEF AnswerSteps
  <2>1. UNCHANGED <<held, gateway, fallback>>
    BY DEF AnswerArrives, UserAnswers, LateAnswerArrives, UserAnswersLate
  <2>2. ASSUME NEW r \in Question, TakeAnswer(b, r, o) PROVE GatewayTypes'
    BY <2>1, <2>2, TakenTypes
  <2>3. CASE UNCHANGED <<gatewayVars, outcome, resolved>>
    BY <2>1, <2>3 DEF GatewayTypes
  <2> QED
    BY <2>2, <2>3 DEF AnswerArrives, UserAnswers, LateAnswerArrives, UserAnswersLate, DropAnswer
<1>5. CASE ProcessSteps
  <2>1. Lost \in [Question -> Answer \cup {"unasked", "waiting", "denied", "lost"}]
    BY DEF Lost, GatewayTypes
  <2>2. CASE AdapterLost
    <3>1. \A q \in Question : resolved[q] + 1 \in Nat
      BY DEF GatewayTypes
    <3>2. resolved' = [q \in Question |-> IF q \in queued THEN resolved[q] + 1 ELSE resolved[q]]
      BY <2>2 DEF AdapterLost
    <3>3. resolved' \in [Question -> Nat]
      BY <3>1, <3>2 DEF GatewayTypes
    <3> QED
      BY <2>1, <2>2, <3>3 DEF AdapterLost, Settle, GatewayTypes
  <2>3. CASE OrchestratorEnds
    BY <2>1, <2>3 DEF OrchestratorEnds, GatewayTypes
  <2>4. CASE AdapterHolds \/ OrchestratorBoots
    BY <2>4 DEF AdapterHolds, OrchestratorBoots, GatewayTypes
  <2> QED
    BY <1>5, <2>2, <2>3, <2>4 DEF ProcessSteps
<1> QED
  BY <1>1, <1>2, <1>3, <1>4, <1>5, QuestionSteps

LEMMA PageTypesStay ==
  ASSUME PageTypes, WireType, QuestionsNext
  PROVE  PageTypes'
<1> USE DEF PageTypes, browserVars, approvalVars, outcomeVars, Stage
<1>1. CASE AskSteps
  BY <1>1 DEF AskSteps, AskQuestion, HoldElapses
<1>2. CASE HandshakeSteps
  BY <1>2 DEF HandshakeSteps, Attach, PinBrowser, AskForThread, LoadThreadFor, Active, WithoutBrowser,
     FailApprovals, Answer
<1>3. CASE ChannelSteps
  <2> PICK b \in Browser : MessageArrives(b) \/ SocketCloses(b)
    BY <1>3 DEF ChannelSteps
  <2>1. CASE MessageArrives(b)
    <3>1. wire[b] \in Seq(Message) /\ wire[b] # <<>>
      BY <2>1 DEF MessageArrives, WireType
    <3>2. Head(wire[b]) \in Message
      BY <3>1, TakenMessage
    <3>3. Head(wire[b]).kind # "replay" => Head(wire[b]).q \in Question
      BY <3>2 DEF Message
    <3> QED
      BY <2>1, <3>3 DEF MessageArrives, FailApprovals, Answer
  <2>2. CASE SocketCloses(b)
    BY <2>2 DEF SocketCloses, WithoutBrowser
  <2> QED
    BY <2>1, <2>2
<1>4. CASE AnswerSteps
  BY <1>4 DEF AnswerSteps, AnswerArrives, UserAnswers, LateAnswerArrives, UserAnswersLate
<1>5. CASE ProcessSteps
  BY <1>5 DEF ProcessSteps, AdapterHolds, AdapterLost, OrchestratorEnds, OrchestratorBoots
<1> QED
  BY <1>1, <1>2, <1>3, <1>4, <1>5, QuestionSteps

LEMMA WireTypeStays ==
  ASSUME GatewayTypes, WireType, QuestionsNext
  PROVE  WireType'
<1> USE DEF WireType, browserVars
<1>1. CASE AskSteps
  <2> PICK q \in Question : AskQuestion(q) \/ HoldElapses(q)
    BY <1>1 DEF AskSteps
  <2>1. CASE AskQuestion(q)
    <3>1. CASE wire' = wire
      BY <3>1
    <3>2. ASSUME NEW b \in Browser, wire' = [wire EXCEPT ![b] = Append(@, Ask(q))] PROVE WireType'
      <4>1. Append(wire[b], Ask(q)) \in Seq(Message)
        BY AskIsSent
      <4> QED
        BY <3>2, <4>1
    <3> QED
      BY <2>1, <3>1, <3>2 DEF AskQuestion
  <2>2. CASE HoldElapses(q)
    BY <2>2, SettlementIsSent DEF HoldElapses, GatewayTypes
  <2> QED
    BY <2>1, <2>2
<1>2. CASE HandshakeSteps
  <2> PICK b \in Browser : Attach(b) \/ PinBrowser(b) \/ AskForThread(b) \/ LoadThreadFor(b)
    BY <1>2 DEF HandshakeSteps
  <2>1. CASE Attach(b) \/ PinBrowser(b) \/ AskForThread(b)
    BY <2>1 DEF Attach, PinBrowser, AskForThread
  <2>2. CASE LoadThreadFor(b)
    <3> DEFINE s == SetToSeq({Ask(q) : q \in queued})
    <3>1. /\ s \in Seq(Message) /\ (\A r \in Question : AskedOnce(s, r)) /\ queued \in SUBSET Question
          /\ \A r \in Question : ~Carries(s, Withdraw(r)) /\ (Carries(s, Ask(r)) <=> r \in queued)
      BY AsksInOrder DEF GatewayTypes
    <3>2. wire' = [wire EXCEPT ![b] = @ \o <<Replay>> \o s]
      BY <2>2 DEF LoadThreadFor
    <3> HIDE DEF s
    <3>3. wire[b] \o <<Replay>> \o s \in Seq(Message)
      BY <3>1, ReplayIsSent
    <3> QED
      BY <3>2, <3>3
  <2> QED
    BY <2>1, <2>2
<1>3. CASE ChannelSteps
  <2> PICK b \in Browser : MessageArrives(b) \/ SocketCloses(b)
    BY <1>3 DEF ChannelSteps
  <2>1. CASE MessageArrives(b)
    <3>1. wire[b] # <<>> /\ wire' = [wire EXCEPT ![b] = Tail(@)]
      BY <2>1 DEF MessageArrives
    <3>2. Tail(wire[b]) \in Seq(Message)
      BY <3>1, TakenMessage
    <3> QED
      BY <3>1, <3>2
  <2>2. CASE SocketCloses(b)
    <3>1. wire' = [wire EXCEPT ![b] = <<>>] /\ <<>> \in Seq(Message)
      BY <2>2 DEF SocketCloses
    <3> QED
      BY <3>1
  <2> QED
    BY <2>1, <2>2
<1>4. CASE AnswerSteps
  <2> PICK b \in Browser, q \in Question, o \in Answer :
             \/ AnswerArrives(b, q, o) \/ UserAnswers(b, q, o)
             \/ LateAnswerArrives(b, q, o) \/ UserAnswersLate(b, q, o)
    BY <1>4 DEF AnswerSteps
  <2>1. CASE wire' = wire
    BY <2>1
  <2>2. ASSUME NEW r \in Question, Settle({r}, [deliveries EXCEPT ![r] = @ \ {b}]) PROVE WireType'
    BY <2>2, SettlementIsSent DEF GatewayTypes
  <2> QED
    BY <2>1, <2>2 DEF AnswerArrives, UserAnswers, LateAnswerArrives, UserAnswersLate, TakeAnswer, DropAnswer
<1>5. CASE ProcessSteps
  <2>1. CASE AdapterLost
    BY <2>1, SettlementIsSent DEF AdapterLost, GatewayTypes
  <2>2. CASE OrchestratorEnds
    <3>1. wire' = [b \in Browser |-> <<>>] /\ <<>> \in Seq(Message)
      BY <2>2 DEF OrchestratorEnds
    <3> QED
      BY <3>1
  <2>3. CASE AdapterHolds \/ OrchestratorBoots
    BY <2>3 DEF AdapterHolds, OrchestratorBoots
  <2> QED
    BY <1>5, <2>1, <2>2, <2>3 DEF ProcessSteps
<1> QED
  BY <1>1, <1>2, <1>3, <1>4, <1>5, QuestionSteps

LEMMA QuestionCountsStay ==
  ASSUME QuestionCounts, QuestionsNext
  PROVE  QuestionCounts'
<1> USE QuestionBounds DEF QuestionCounts, questionBounds
<1>1. CASE AskSteps
  BY <1>1 DEF AskSteps, AskQuestion, HoldElapses
<1>2. CASE HandshakeSteps
  BY <1>2 DEF HandshakeSteps, Attach, PinBrowser, AskForThread, LoadThreadFor
<1>3. CASE ChannelSteps
  BY <1>3 DEF ChannelSteps, MessageArrives, SocketCloses
<1>4. CASE AnswerSteps
  BY <1>4 DEF AnswerSteps, AnswerArrives, UserAnswers, LateAnswerArrives, UserAnswersLate
<1>5. CASE ProcessSteps
  BY <1>5 DEF ProcessSteps, AdapterHolds, AdapterLost, OrchestratorEnds, OrchestratorBoots
<1> QED
  BY <1>1, <1>2, <1>3, <1>4, <1>5, QuestionSteps

LEMMA QuestionTypesStay ==
  ASSUME QuestionsTypeOK, QuestionsNext
  PROVE  QuestionsTypeOK'
<1>1. GatewayTypes' /\ PageTypes' /\ WireType' /\ QuestionCounts'
  BY QuestionTypesAre, GatewayTypesStay, PageTypesStay, WireTypeStays, QuestionCountsStay
<1> QED
  BY <1>1 DEF QuestionsTypeOK, GatewayTypes, PageTypes, WireType, QuestionCounts

(***************************************************************************)
(* Where a question is.                                                    *)
(***************************************************************************)

Unasked(q) == outcome[q] = "unasked"

\* A step that moves no question: its messages, approvals, answers and places stay.
LEMMA PlaceStays ==
  ASSUME NEW q \in Question, NEW b \in Browser, PlaceIsTrue(q, b),
         wire'[b] = wire[b], shown'[b] = shown[b], back'[b] = back[b],
         stage[b] # "away" => stage'[b] # "away",
         direct'[q] = direct[q], q \in queued' <=> q \in queued, deliveries'[q] = deliveries[q],
         outcome'[q] = "unasked" => outcome[q] = "unasked", q \in misread => q \in misread'
  PROVE  PlaceIsTrue(q, b)'
  BY DEF PlaceIsTrue, WithBrowser, IsOpen, IsGone, Carries, Answering, AskedOnce, ThenWithdrawn

\* The approvals of a browser are answered: by its user, or all of them at once.
LEMMA ApprovalIsAnswered ==
  ASSUME NEW q \in Question, NEW b \in Browser, PlaceIsTrue(q, b),
         wire'[b] = wire[b], stage[b] # "away" => stage'[b] # "away",
         direct'[q] = direct[q], q \in queued' <=> q \in queued, deliveries'[q] = deliveries[q],
         outcome'[q] = outcome[q], q \in misread => q \in misread',
         q \in shown'[b] => q \in shown[b],
         Answering(q, b)' => q \notin shown'[b] /\ (Answering(q, b) \/ q \in shown[b])
  PROVE  PlaceIsTrue(q, b)'
<1>1. /\ WithBrowser(q, b) <=> Carries(wire[b], Ask(q)) \/ q \in shown[b] \/ Answering(q, b)
      /\ WithBrowser(q, b)' <=> Carries(wire[b], Ask(q))' \/ q \in shown'[b] \/ Answering(q, b)'
  BY DEF WithBrowser, Carries, Answering
<1>2. /\ Carries(wire[b], Ask(q))' <=> Carries(wire[b], Ask(q))
      /\ Carries(wire[b], Withdraw(q))' <=> Carries(wire[b], Withdraw(q))
      /\ AskedOnce(wire[b], q)' <=> AskedOnce(wire[b], q)
      /\ ThenWithdrawn(wire[b], q)' <=> ThenWithdrawn(wire[b], q)
  BY DEF Carries, AskedOnce, ThenWithdrawn
<1>3. (IsOpen(q, b)' <=> IsOpen(q, b)) /\ (IsGone(q)' <=> IsGone(q))
  BY DEF IsOpen, IsGone
<1> QED
  BY <1>1, <1>2, <1>3 DEF PlaceIsTrue
\* The parts of a place before and after a step, from the three parts of a page.
LEMMA PlaceMeans ==
  ASSUME NEW q, NEW b
  PROVE  /\ WithBrowser(q, b) <=> Carries(wire[b], Ask(q)) \/ q \in shown[b] \/ Answering(q, b)
         /\ WithBrowser(q, b)' <=> Carries(wire'[b], Ask(q)) \/ q \in shown'[b] \/ Answering(q, b)'
         /\ PlaceIsTrue(q, b)' <=>
              /\ WithBrowser(q, b)' => stage'[b] # "away" /\ (IsOpen(q, b)' \/ IsGone(q)')
              /\ AskedOnce(wire'[b], q)
              /\ Carries(wire'[b], Ask(q)) => q \notin shown'[b]
              /\ Answering(q, b)' => q \notin shown'[b] /\ ~Carries(wire'[b], Ask(q))
              /\ \/ IsOpen(q, b)' \/ q \in misread'
                 \/ ThenWithdrawn(wire'[b], q) /\ (q \in shown'[b] => Carries(wire'[b], Withdraw(q)))
  BY DEF PlaceIsTrue, WithBrowser, Carries, Answering, AskedOnce, ThenWithdrawn

\* The next message reaches the browser, which shows the question, or answers it as
\* cancelled when it is withdrawn.
LEMMA PlacesAfterMessage ==
  ASSUME QuestionsTypeOK, PlacesAreTrue, NEW b \in Browser, MessageArrives(b)
  PROVE  PlacesAreTrue'
<1> SUFFICES ASSUME NEW q \in Question, NEW c \in Browser PROVE PlaceIsTrue(q, c)'
  BY DEF PlacesAreTrue
<1>0. PlaceIsTrue(q, c)
  BY DEF PlacesAreTrue
<1>1. /\ wire[b] # <<>> /\ wire' = [wire EXCEPT ![b] = Tail(@)]
      /\ UNCHANGED <<stage, direct, queued, deliveries, outcome, misread>>
  BY DEF MessageArrives, gatewayVars, outcomeVars
<1>2. /\ wire \in [Browser -> Seq(Message)] /\ shown \in [Browser -> SUBSET Question]
      /\ back \in [Browser -> SUBSET (Question \X Answer)]
  BY DEF QuestionsTypeOK
<1> DEFINE m == Head(wire[b])
<1>3. /\ m.kind = "ask" => /\ shown' = [shown EXCEPT ![b] = @ \cup {m.q}] /\ back' = back
      /\ m.kind = "withdraw" => /\ shown' = [shown EXCEPT ![b] = @ \ {m.q}]
                                /\ back' = [back EXCEPT ![b] = @ \cup ((shown[b] \cap {m.q}) \X {"cancelled"})]
      /\ m.kind = "replay" => FailApprovals(b)
      /\ m.kind \in {"ask", "withdraw", "replay"}
  BY DEF MessageArrives
<1>4. CASE c # b
  <2>1. wire'[c] = wire[c] /\ shown'[c] = shown[c] /\ back'[c] = back[c]
    BY <1>1, <1>2, <1>3, <1>4 DEF FailApprovals
  <2> QED
    BY <1>0, <1>1, <2>1, PlaceStays
<1>5. CASE c = b
  <2> DEFINE w == wire[b]  t == wire'[b]
  <2>1. /\ m \in Message
        /\ Carries(w, Ask(q)) <=> m = Ask(q) \/ Carries(t, Ask(q))
        /\ Carries(w, Withdraw(q)) <=> m = Withdraw(q) \/ Carries(t, Withdraw(q))
        /\ AskedOnce(w, q) => AskedOnce(t, q) /\ (m = Ask(q) => ~Carries(t, Ask(q)))
        /\ ThenWithdrawn(w, q) => ThenWithdrawn(t, q) /\ (m = Ask(q) => Carries(t, Withdraw(q)))
    <3>1. w \in Seq(Message) /\ w # <<>> /\ t = Tail(w)
      BY <1>1, <1>2
    <3> HIDE DEF w, t
    <3>2. /\ Head(w) \in Message
          /\ \A x : Carries(w, x) <=> Head(w) = x \/ Carries(Tail(w), x)
          /\ AskedOnce(w, q) => AskedOnce(Tail(w), q)
          /\ AskedOnce(w, q) /\ Head(w) = Ask(q) => ~Carries(Tail(w), Ask(q))
          /\ ThenWithdrawn(w, q) => ThenWithdrawn(Tail(w), q)
          /\ ThenWithdrawn(w, q) /\ Head(w) = Ask(q) => Carries(Tail(w), Withdraw(q))
      BY <3>1, TakenMessage
    <3>3. m = Head(w)
      BY DEF w
    <3> QED
      BY <3>1, <3>2, <3>3
  <2>2. /\ (IsOpen(q, b)' <=> IsOpen(q, b)) /\ (IsGone(q)' <=> IsGone(q))
        /\ stage' = stage /\ misread' = misread
    BY <1>1 DEF IsOpen, IsGone
  <2>3. /\ m = Ask(q) <=> m.kind = "ask" /\ m.q = q
        /\ m = Withdraw(q) <=> m.kind = "withdraw" /\ m.q = q
    BY <2>1 DEF Message, Ask, Withdraw
  <2>4. CASE m.kind = "ask"
    <3>1. q \in shown'[b] <=> q \in shown[b] \/ m = Ask(q)
      BY <1>2, <1>3, <2>3, <2>4
    <3>2. Answering(q, b)' <=> Answering(q, b)
      BY <1>3, <2>4 DEF Answering
    <3>3. m # Withdraw(q)
      BY <2>3, <2>4
    <3> HIDE DEF m, w, t
    <3> QED
      BY <1>0, <1>5, <2>1, <2>2, <3>1, <3>2, <3>3, PlaceMeans DEF PlaceIsTrue, w, t
  <2>5. CASE m.kind = "withdraw"
    <3>1. q \in shown'[b] <=> q \in shown[b] /\ m # Withdraw(q)
      BY <1>2, <1>3, <2>3, <2>5
    <3>2. Answering(q, b)' <=> Answering(q, b) \/ (q \in shown[b] /\ m = Withdraw(q))
      <4>1. back'[b] = back[b] \cup ((shown[b] \cap {m.q}) \X {"cancelled"})
        BY <1>2, <1>3, <2>5
      <4>2. m = Withdraw(q) <=> m.q = q
        BY <2>3, <2>5
      <4> QED
        BY <4>1, <4>2 DEF Answering, Answer
    <3>3. m # Ask(q)
      BY <2>3, <2>5
    <3> HIDE DEF m, w, t
    <3> QED
      BY <1>0, <1>5, <2>1, <2>2, <3>1, <3>2, <3>3, PlaceMeans DEF PlaceIsTrue, w, t
  <2>6. CASE m.kind = "replay"
    <3>1. q \notin shown'[b] /\ (Answering(q, b)' <=> Answering(q, b) \/ q \in shown[b])
      <4>1. shown'[b] = {} /\ back'[b] = back[b] \cup (shown[b] \X {"cancelled"})
        BY <1>2, <1>3, <2>6 DEF FailApprovals
      <4> QED
        BY <4>1 DEF Answering, Answer
    <3>2. m # Ask(q) /\ m # Withdraw(q)
      BY <2>3, <2>6
    <3> HIDE DEF m, w, t
    <3> QED
      BY <1>0, <1>5, <2>1, <2>2, <3>1, <3>2, PlaceMeans DEF PlaceIsTrue, w, t
  <2> QED
    BY <1>3, <2>4, <2>5, <2>6
<1> QED
  BY <1>4, <1>5

\* A question is settled: its messages are followed by the withdrawal, except with the
\* browser that answered it.
LEMMA PlacesAfterSettlement ==
  ASSUME QuestionsTypeOK, PlacesAreTrue, QueueIsTrue,
         NEW Q \in SUBSET queued, NEW D \in [Question -> SUBSET Browser], Settle(Q, D),
         \A q \in Question \ Q : D[q] = deliveries[q],
         \A q \in Q, b \in Browser : b \in deliveries[q] => b \in D[q] \/ Answering(q, b) \/ q \in misread',
         \A b \in Browser : back'[b] \subseteq back[b],
         UNCHANGED <<shown, stage, direct>>, misread \subseteq misread',
         \A q \in Question : outcome'[q] = "unasked" => outcome[q] = "unasked"
  PROVE  PlacesAreTrue'
<1> SUFFICES ASSUME NEW q \in Question, NEW b \in Browser PROVE PlaceIsTrue(q, b)'
  BY DEF PlacesAreTrue
<1>1. PlaceIsTrue(q, b)
  BY DEF PlacesAreTrue
<1>2. /\ Carries(wire'[b], Ask(q)) <=> Carries(wire[b], Ask(q))
      /\ Carries(wire'[b], Withdraw(q)) <=> Carries(wire[b], Withdraw(q)) \/ (q \in Q /\ b \in D[q])
      /\ AskedOnce(wire[b], q) => AskedOnce(wire'[b], q)
      /\ ThenWithdrawn(wire[b], q) \/ (q \in Q /\ b \in D[q]) => ThenWithdrawn(wire'[b], q)
  <2>1. Q \in SUBSET Question /\ wire \in [Browser -> Seq(Message)]
    BY DEF QuestionsTypeOK
  <2> QED
    BY <2>1, SettlementIsSent
<1>3. Answering(q, b)' => Answering(q, b)
  BY DEF Answering
<1>4. stage'[b] = stage[b] /\ shown'[b] = shown[b]
  OBVIOUS
<1>5. CASE q \notin Q
  <2>1. (q \in queued' <=> q \in queued) /\ deliveries'[q] = deliveries[q]
    BY <1>5 DEF Settle
  <2>2. (IsOpen(q, b)' <=> IsOpen(q, b)) /\ (IsGone(q) => IsGone(q)')
    BY <2>1 DEF IsOpen, IsGone
  <2> QED
    BY <1>1, <1>2, <1>3, <1>4, <1>5, <2>2, PlaceMeans DEF PlaceIsTrue
<1>6. CASE q \in Q
  <2>1. direct[q] = NoBrowser /\ outcome[q] # "unasked" /\ q \in queued
    BY <1>6 DEF QueueIsTrue
  <2>2. q \notin queued'
    BY <1>6 DEF Settle
  <2>3. IsGone(q)'
    BY <2>1, <2>2 DEF IsGone
  <2>4. IsOpen(q, b) => b \in deliveries[q]
    BY <2>1, NoBrowserAssumption DEF IsOpen
  <2>5. ~Answering(q, b) /\ IsOpen(q, b) => b \in D[q] \/ q \in misread'
    BY <1>6, <2>4
  <2>6. ~Carries(wire[b], Ask(q)) => ThenWithdrawn(wire'[b], q)
    BY <1>2 DEF Carries, ThenWithdrawn
  <2> QED
    BY <1>1, <1>2, <1>3, <1>4, <1>6, <2>3, <2>5, <2>6, PlaceMeans DEF PlaceIsTrue
<1> QED
  BY <1>5, <1>6
\* A question that was never asked is with no browser, and a queued one only where it was
\* delivered.
LEMMA UnaskedIsNowhere ==
  ASSUME PlacesAreTrue, QueueIsTrue, NEW q \in Question, NEW b \in Browser
  PROVE  /\ outcome[q] = "unasked" => ~WithBrowser(q, b) /\ ~IsOpen(q, b)
         /\ q \in queued /\ b \notin deliveries[q] => ~WithBrowser(q, b)
         /\ direct[q] # NoBrowser /\ direct[q] # b => ~WithBrowser(q, b) /\ ~IsOpen(q, b)
  BY NoBrowserAssumption DEF PlacesAreTrue, PlaceIsTrue, QueueIsTrue, IsOpen, IsGone

\* The question is asked: it is sent to one browser, or queued.
LEMMA PlacesAfterAsk ==
  ASSUME QuestionsTypeOK, PlacesAreTrue, QueueIsTrue, NEW r \in Question, AskQuestion(r)
  PROVE  PlacesAreTrue'
<1> SUFFICES ASSUME NEW q \in Question, NEW b \in Browser PROVE PlaceIsTrue(q, b)'
  BY DEF PlacesAreTrue
<1>1. PlaceIsTrue(q, b)
  BY DEF PlacesAreTrue
<1>2. /\ outcome[r] = "unasked" /\ outcome' = [outcome EXCEPT ![r] = "waiting"]
      /\ UNCHANGED <<deliveries, stage, shown, back, misread>>
  BY DEF AskQuestion, approvalVars
<1>3. /\ direct \in [Question -> Browser \cup {NoBrowser}] /\ wire \in [Browser -> Seq(Message)]
      /\ outcome' \in [Question -> {"unasked", "waiting", "denied", "lost"} \cup Answer]
      /\ outcome'[r] # "unasked" /\ \A p \in Question \ {r} : outcome'[p] = outcome[p]
  BY <1>2 DEF QuestionsTypeOK
<1>4. Answering(q, b)' <=> Answering(q, b)
  BY <1>2 DEF Answering
<1>5. ASSUME NEW c \in Browser, IsLatest(c), direct' = [direct EXCEPT ![r] = c],
             wire' = [wire EXCEPT ![c] = Append(@, Ask(r))], queued' = queued
      PROVE  PlaceIsTrue(q, b)'
  <2>1. CASE q # r /\ b # c
    <3>1. wire'[b] = wire[b] /\ direct'[q] = direct[q]
      BY <1>3, <1>5, <2>1
    <3> QED
      BY <1>1, <1>2, <1>3, <1>5, <2>1, <3>1, PlaceStays
  <2>2. CASE b = c
    <3>1. wire[b] \in Seq(Message) /\ wire'[b] = Append(wire[b], Ask(r))
      BY <1>3, <1>5, <2>2
    <3>2. /\ Carries(wire'[b], Ask(r))
          /\ q # r => (Carries(wire'[b], Ask(q)) <=> Carries(wire[b], Ask(q)))
          /\ Carries(wire'[b], Withdraw(q)) <=> Carries(wire[b], Withdraw(q))
          /\ AskedOnce(wire[b], q) /\ (q = r => ~Carries(wire[b], Ask(q))) => AskedOnce(wire'[b], q)
          /\ q # r /\ ThenWithdrawn(wire[b], q) => ThenWithdrawn(wire'[b], q)
      BY <3>1, AskIsSent
    <3>3. stage'[b] = stage[b] /\ shown'[b] = shown[b] /\ misread' = misread
      BY <1>2
    <3>4. CASE q = r
      <4>1. ~WithBrowser(q, b)
        BY <1>2, <3>4, UnaskedIsNowhere
      <4>2. stage[b] # "away"
        BY <1>5, <2>2 DEF IsLatest, Watchers
      <4>3. IsOpen(q, b)'
        BY <1>3, <1>5, <2>2, <3>4 DEF IsOpen
      <4> QED
        BY <1>1, <1>4, <3>2, <3>3, <3>4, <4>1, <4>2, <4>3, PlaceMeans DEF PlaceIsTrue
    <3>5. CASE q # r
      <4>1. (IsOpen(q, b)' <=> IsOpen(q, b)) /\ (IsGone(q)' <=> IsGone(q))
        BY <1>2, <1>3, <1>5, <3>5 DEF IsOpen, IsGone
      <4> QED
        BY <1>1, <1>4, <3>2, <3>3, <3>5, <4>1, PlaceMeans DEF PlaceIsTrue
    <3> QED
      BY <3>4, <3>5
  <2>3. CASE q = r /\ b # c
    <3>1. ~WithBrowser(q, b)
      BY <1>2, <2>3, UnaskedIsNowhere
    <3>2. wire'[b] = wire[b] /\ stage'[b] = stage[b] /\ shown'[b] = shown[b]
      BY <1>2, <1>3, <1>5, <2>3
    <3>3. ~Carries(wire[b], Ask(q)) /\ q \notin shown[b] /\ ~Answering(q, b)
      BY <3>1, PlaceMeans
    <3>4. ThenWithdrawn(wire[b], q)
      BY <3>3 DEF Carries, ThenWithdrawn
    <3> QED
      BY <1>1, <1>4, <3>2, <3>3, <3>4, PlaceMeans DEF PlaceIsTrue
  <2> QED
    BY <2>1, <2>2, <2>3
<1>6. ASSUME queued' = queued \cup {r}, UNCHANGED <<direct, wire>>
      PROVE  PlaceIsTrue(q, b)'
  <2>1. CASE q # r
    BY <1>1, <1>2, <1>3, <1>6, <2>1, PlaceStays
  <2>2. CASE q = r
    <3>1. ~Carries(wire[b], Ask(q)) /\ q \notin shown[b] /\ ~Answering(q, b)
      BY <1>2, <2>2, UnaskedIsNowhere, PlaceMeans
    <3>2. ThenWithdrawn(wire[b], q)
      BY <3>1 DEF Carries, ThenWithdrawn
    <3>3. wire'[b] = wire[b] /\ stage'[b] = stage[b] /\ shown'[b] = shown[b]
      BY <1>2, <1>6
    <3> QED
      BY <1>1, <1>4, <3>1, <3>2, <3>3, PlaceMeans DEF PlaceIsTrue
  <2> QED
    BY <2>1, <2>2
<1> QED
  BY <1>5, <1>6 DEF AskQuestion, Enqueue

\* The thread opens: the queued questions are put to a browser that had none of them.
LEMMA PlacesAfterLoad ==
  ASSUME QuestionsTypeOK, PlacesAreTrue, QueueIsTrue, NEW c \in Browser, LoadThreadFor(c)
  PROVE  PlacesAreTrue'
<1> SUFFICES ASSUME NEW q \in Question, NEW b \in Browser PROVE PlaceIsTrue(q, b)'
  BY DEF PlacesAreTrue
<1>1. PlaceIsTrue(q, b)
  BY DEF PlacesAreTrue
<1> DEFINE s == SetToSeq({Ask(p) : p \in queued})
<1>2. /\ stage[c] = "asked" /\ stage' = [stage EXCEPT ![c] = "open"]
      /\ wire' = [wire EXCEPT ![c] = @ \o <<Replay>> \o s]
      /\ deliveries' = [p \in Question |->
                          IF p \in queued THEN deliveries[p] \cup {c} ELSE deliveries[p]]
      /\ UNCHANGED <<direct, queued, shown, back, outcome, misread>>
  BY DEF LoadThreadFor, approvalVars, outcomeVars
<1>3. /\ wire \in [Browser -> Seq(Message)] /\ stage \in [Browser -> Stage] /\ queued \in SUBSET Question
  BY DEF QuestionsTypeOK
<1>4. /\ s \in Seq(Message) /\ (\A r \in Question : AskedOnce(s, r))
      /\ \A r \in Question : ~Carries(s, Withdraw(r)) /\ (Carries(s, Ask(r)) <=> r \in queued)
  BY <1>3, AsksInOrder
<1> HIDE DEF s
<1>5. Answering(q, b)' <=> Answering(q, b)
  BY <1>2 DEF Answering
<1>6. IsGone(q)' <=> IsGone(q)
  BY <1>2 DEF IsGone
<1>7. CASE b # c
  <2>1. wire'[b] = wire[b] /\ stage'[b] = stage[b] /\ shown'[b] = shown[b] /\ misread' = misread
    BY <1>2, <1>3, <1>7
  <2>2. IsOpen(q, b)' <=> IsOpen(q, b)
    BY <1>2, <1>7 DEF IsOpen
  <2> QED
    BY <1>1, <1>5, <1>6, <2>1, <2>2, PlaceMeans DEF PlaceIsTrue
<1>8. CASE b = c
  <2>1. wire[b] \in Seq(Message) /\ wire'[b] = wire[b] \o <<Replay>> \o s /\ stage'[b] = "open"
        /\ shown'[b] = shown[b] /\ misread' = misread
    BY <1>2, <1>3, <1>8
  <2>2. /\ Carries(wire'[b], Ask(q)) <=> Carries(wire[b], Ask(q)) \/ q \in queued
        /\ AskedOnce(wire[b], q) /\ (q \in queued => ~Carries(wire[b], Ask(q))) => AskedOnce(wire'[b], q)
        /\ q \notin queued /\ ThenWithdrawn(wire[b], q) => ThenWithdrawn(wire'[b], q)
        /\ Carries(wire'[b], Withdraw(q)) <=> Carries(wire[b], Withdraw(q))
    <3> DEFINE w == wire[b]  v == w \o <<Replay>> \o s
    <3>1. w \in Seq(Message) /\ wire'[b] = v
      BY <2>1
    <3> HIDE DEF w
    <3>2. /\ \A r \in Question : Carries(v, Ask(r)) <=> Carries(w, Ask(r)) \/ r \in queued
          /\ \A r \in Question : AskedOnce(w, r) /\ (r \in queued => ~Carries(w, Ask(r))) => AskedOnce(v, r)
          /\ \A r \in Question \ queued : ThenWithdrawn(w, r) => ThenWithdrawn(v, r)
          /\ \A r \in Question : Carries(v, Withdraw(r)) <=> Carries(w, Withdraw(r))
      BY <1>3, <1>4, <3>1, ReplayIsSent
    <3> HIDE DEF v
    <3> QED
      BY <3>1, <3>2 DEF w
  <2>3. CASE q \notin queued
    <3>1. IsOpen(q, b)' <=> IsOpen(q, b)
      BY <1>2, <2>3 DEF IsOpen
    <3> QED
      BY <1>1, <1>5, <1>6, <2>1, <2>2, <2>3, <3>1, PlaceMeans DEF PlaceIsTrue
  <2>4. CASE q \in queued
    <3>1. b \notin deliveries[q]
      BY <1>2, <1>8 DEF QueueIsTrue
    <3>2. ~Carries(wire[b], Ask(q)) /\ q \notin shown[b] /\ ~Answering(q, b)
      BY <2>4, <3>1, UnaskedIsNowhere, PlaceMeans
    <3>3. IsOpen(q, b)'
      BY <1>2, <1>8, <2>4 DEF IsOpen
    <3> QED
      BY <1>1, <1>5, <2>1, <2>2, <2>4, <3>2, <3>3, PlaceMeans DEF PlaceIsTrue
  <2> QED
    BY <2>3, <2>4
<1> QED
  BY <1>7, <1>8

\* An answer is taken for one to a question: the one of its browser, or a late one.
LEMMA PlacesAfterTake ==
  ASSUME QuestionsTypeOK, PlacesAreTrue, QueueIsTrue,
         NEW c \in Browser, NEW r \in Question, NEW o \in Answer, TakeAnswer(c, r, o),
         Answering(r, c) \/ r \in misread', misread \subseteq misread',
         \A b \in Browser : back'[b] \subseteq back[b], UNCHANGED <<stage, shown>>
  PROVE  PlacesAreTrue'
<1>3. /\ back \in [Browser -> SUBSET (Question \X Answer)] /\ direct \in [Question -> Browser \cup {NoBrowser}]
      /\ deliveries \in [Question -> SUBSET Browser] /\ outcome \in [Question -> Answer \cup {"unasked", "waiting", "denied", "lost"}]
  BY DEF QuestionsTypeOK
<1>5. \A q \in Question : Answered(r, o) \/ outcome' = outcome => (outcome'[q] = "unasked" => outcome[q] = "unasked")
  BY <1>3 DEF Answered, Answer
<1>6. CASE direct[r] = c /\ direct' = [direct EXCEPT ![r] = NoBrowser] /\ Answered(r, o)
           /\ UNCHANGED <<queued, deliveries, wire>>
  <2> SUFFICES ASSUME NEW q \in Question, NEW b \in Browser PROVE PlaceIsTrue(q, b)'
    BY DEF PlacesAreTrue
  <2>1. PlaceIsTrue(q, b) /\ (Answering(q, b)' => Answering(q, b))
    BY DEF PlacesAreTrue, Answering
  <2>2. wire'[b] = wire[b] /\ stage'[b] = stage[b] /\ shown'[b] = shown[b]
    BY <1>6
  <2>3. CASE q # r
    <3>1. (IsOpen(q, b)' <=> IsOpen(q, b)) /\ (IsGone(q) => IsGone(q)')
      BY <1>3, <1>5, <1>6, <2>3 DEF IsOpen, IsGone
    <3> QED
      BY <2>1, <2>2, <3>1, PlaceMeans DEF PlaceIsTrue
  <2>4. CASE q = r
    <3>1. IsGone(q)'
      <4>1. outcome[r] # "unasked" /\ r \notin queued
        BY <1>6, NoBrowserAssumption DEF QueueIsTrue
      <4> QED
        BY <1>3, <1>5, <1>6, <2>4, <4>1 DEF IsGone
    <3>2. CASE b = c
      <4>1. Answering(q, b) => ~Carries(wire[b], Ask(q)) /\ q \notin shown[b]
        BY <2>1 DEF PlaceIsTrue
      <4>2. Answering(q, b) => ThenWithdrawn(wire[b], q)
        BY <4>1 DEF Carries, ThenWithdrawn
      <4> QED
        BY <2>1, <2>2, <2>4, <3>1, <3>2, <4>1, <4>2, PlaceMeans DEF PlaceIsTrue
    <3>3. CASE b # c
      <4>1. ~IsOpen(q, b)
        BY <1>6, <2>4, <3>3, NoBrowserAssumption, UnaskedIsNowhere
      <4> QED
        BY <2>1, <2>2, <3>1, <4>1, PlaceMeans DEF PlaceIsTrue
    <3> QED
      BY <3>2, <3>3
  <2> QED
    BY <2>3, <2>4
<1>7. CASE /\ direct[r] # c /\ c \in deliveries[r]
           /\ Settle({r}, [deliveries EXCEPT ![r] = @ \ {c}]) /\ Answered(r, o) /\ UNCHANGED direct
  <2> DEFINE D == [deliveries EXCEPT ![r] = @ \ {c}]
  <2>1. {r} \in SUBSET queued
    BY <1>7 DEF QueueIsTrue
  <2>2. /\ D \in [Question -> SUBSET Browser]
        /\ \A q \in Question \ {r} : D[q] = deliveries[q]
        /\ D[r] = deliveries[r] \ {c}
    BY <1>3
  <2> HIDE DEF D
  <2>3. Settle({r}, D)
    BY <1>7 DEF D
  <2>4. \A q \in {r}, b \in Browser : b \in deliveries[q] => b \in D[q] \/ Answering(q, b) \/ q \in misread'
    BY <2>2
  <2>5. \A q \in Question : outcome'[q] = "unasked" => outcome[q] = "unasked"
    BY <1>5, <1>7
  <2>6. UNCHANGED <<shown, stage, direct>>
    BY <1>7
  <2> QED
    BY <2>1, <2>2, <2>3, <2>4, <2>5, <2>6, PlacesAfterSettlement
<1> QED
  BY <1>6, <1>7 DEF TakeAnswer

\* An answer to a question of this socket, or of an earlier one, arrives.
LEMMA PlacesAfterAnswer ==
  ASSUME QuestionsTypeOK, PlacesAreTrue, QueueIsTrue,
         NEW c \in Browser, NEW p \in Question, NEW o \in Answer,
         AnswerArrives(c, p, o) \/ LateAnswerArrives(c, p, o)
  PROVE  PlacesAreTrue'
<1>1. /\ UNCHANGED <<stage, shown>> /\ misread \subseteq misread'
      /\ \A b \in Browser : back'[b] \subseteq back[b]
  BY DEF AnswerArrives, LateAnswerArrives, QuestionsTypeOK
<1>2. ASSUME NEW r \in Question, TakeAnswer(c, r, o), Answering(r, c) \/ r \in misread'
      PROVE  PlacesAreTrue'
  BY <1>1, <1>2, PlacesAfterTake
<1>3. CASE DropAnswer
  <2> SUFFICES ASSUME NEW q \in Question, NEW b \in Browser PROVE PlaceIsTrue(q, b)'
    BY DEF PlacesAreTrue
  <2>1. PlaceIsTrue(q, b) /\ (Answering(q, b)' => Answering(q, b))
    BY <1>1 DEF PlacesAreTrue, Answering
  <2> QED
    BY <1>1, <1>3, <2>1, ApprovalIsAnswered DEF PlaceIsTrue, DropAnswer, gatewayVars
<1>4. CASE AnswerArrives(c, p, o)
  BY <1>2, <1>3, <1>4 DEF AnswerArrives, Answering
<1>5. CASE LateAnswerArrives(c, p, o)
  BY <1>2, <1>3, <1>5 DEF LateAnswerArrives
<1> QED
  BY <1>4, <1>5

\* A socket closes: its browser has nothing any more, and its questions are queued.
LEMMA PlacesAfterClose ==
  ASSUME QuestionsTypeOK, PlacesAreTrue, QueueIsTrue, NEW c \in Browser, SocketCloses(c)
  PROVE  PlacesAreTrue'
<1> SUFFICES ASSUME NEW q \in Question, NEW b \in Browser PROVE PlaceIsTrue(q, b)'
  BY DEF PlacesAreTrue
<1>1. PlaceIsTrue(q, b)
  BY DEF PlacesAreTrue
<1>2. /\ stage' = [stage EXCEPT ![c] = "away"] /\ wire' = [wire EXCEPT ![c] = <<>>]
      /\ shown' = [shown EXCEPT ![c] = {}] /\ back' = [back EXCEPT ![c] = {}] /\ outcome' = outcome /\ misread' = misread
      /\ queued' = queued \cup {p \in Question : direct[p] = c}
      /\ direct' = [p \in Question |-> IF direct[p] = c THEN NoBrowser ELSE direct[p]]
      /\ deliveries' = [p \in Question |-> deliveries[p] \ {c}]
  BY DEF SocketCloses, Enqueue, outcomeVars
<1>3. /\ wire \in [Browser -> Seq(Message)] /\ stage \in [Browser -> Stage]
      /\ shown \in [Browser -> SUBSET Question] /\ back \in [Browser -> SUBSET (Question \X Answer)]
  BY DEF QuestionsTypeOK
<1>4. CASE b = c
  <2>1. wire'[b] = <<>> /\ shown'[b] = {} /\ back'[b] = {}
    BY <1>2, <1>3, <1>4
  <2>2. ~Carries(wire'[b], Ask(q)) /\ AskedOnce(wire'[b], q) /\ ThenWithdrawn(wire'[b], q)
    BY <2>1 DEF Carries, AskedOnce, ThenWithdrawn
  <2>3. ~Answering(q, b)'
    BY <2>1 DEF Answering
  <2> QED
    BY <2>1, <2>2, <2>3, PlaceMeans
<1>5. CASE b # c
  <2>1. /\ wire'[b] = wire[b] /\ shown'[b] = shown[b] /\ stage'[b] = stage[b] /\ back'[b] = back[b]
        /\ misread' = misread
    BY <1>2, <1>3, <1>5
  <2>2. Answering(q, b)' <=> Answering(q, b)
    BY <2>1 DEF Answering
  <2>3. CASE direct[q] = c
    <3>1. ~WithBrowser(q, b) /\ ~IsOpen(q, b)
      BY <1>5, <2>3, NoBrowserAssumption, UnaskedIsNowhere
    <3> QED
      BY <1>1, <2>1, <2>2, <3>1, PlaceMeans DEF PlaceIsTrue
  <2>4. CASE direct[q] # c
    <3>1. (IsOpen(q, b)' <=> IsOpen(q, b)) /\ (IsGone(q)' <=> IsGone(q))
      BY <1>2, <1>5, <2>4 DEF IsOpen, IsGone
    <3> QED
      BY <1>1, <2>1, <2>2, <3>1, PlaceMeans DEF PlaceIsTrue
  <2> QED
    BY <2>3, <2>4
<1> QED
  BY <1>4, <1>5

\* The orchestrator ends, and with it every socket.
LEMMA PlacesAfterEnd ==
  ASSUME OrchestratorEnds
  PROVE  PlacesAreTrue'
<1> SUFFICES ASSUME NEW q \in Question, NEW b \in Browser PROVE PlaceIsTrue(q, b)'
  BY DEF PlacesAreTrue
<1>1. wire'[b] = <<>> /\ shown'[b] = {} /\ back'[b] = {}
  BY DEF OrchestratorEnds
<1>2. ~Carries(wire'[b], Ask(q)) /\ AskedOnce(wire'[b], q) /\ ThenWithdrawn(wire'[b], q)
  BY <1>1 DEF Carries, AskedOnce, ThenWithdrawn
<1>3. ~Answering(q, b)'
  BY <1>1 DEF Answering
<1> QED
  BY <1>1, <1>2, <1>3, PlaceMeans

LEMMA PlacesStay ==
  ASSUME QuestionsTypeOK, PlacesAreTrue, QueueIsTrue, QuestionsNext
  PROVE  PlacesAreTrue'
<1>1. ASSUME NEW q \in Question, HoldElapses(q) PROVE PlacesAreTrue'
  <2>1. CASE UNCHANGED <<queued, rows, deliveries, wire, outcome>>
    BY <1>1, <2>1, PlaceStays DEF PlacesAreTrue, HoldElapses, approvalVars
  <2>2. CASE Settle({q}, deliveries) /\ Answered(q, "denied")
    <3>1. {q} \in SUBSET queued /\ deliveries \in [Question -> SUBSET Browser]
      BY <1>1 DEF HoldElapses, QuestionsTypeOK
    <3>2. UNCHANGED <<shown, stage, direct, back, misread>>
      BY <1>1 DEF HoldElapses, approvalVars
    <3>3. \A p \in Question : outcome'[p] = "unasked" => outcome[p] = "unasked"
      BY <2>2 DEF Answered, QuestionsTypeOK
    <3> QED
      BY <2>2, <3>1, <3>2, <3>3, PlacesAfterSettlement
  <2> QED
    BY <1>1, <2>1, <2>2 DEF HoldElapses
<1>2. ASSUME NEW b \in Browser, Attach(b) \/ PinBrowser(b) PROVE PlacesAreTrue'
  <2>1. /\ UNCHANGED <<wire, shown, back, direct, queued, deliveries, outcome, misread>>
        /\ \A c \in Browser : stage[c] # "away" => stage'[c] # "away"
    BY <1>2 DEF Attach, PinBrowser, gatewayVars, approvalVars, outcomeVars, QuestionsTypeOK
  <2> QED
    BY <2>1, PlaceStays DEF PlacesAreTrue
<1>3. ASSUME NEW b \in Browser, AskForThread(b) PROVE PlacesAreTrue'
  <2> SUFFICES ASSUME NEW q \in Question, NEW c \in Browser PROVE PlaceIsTrue(q, c)'
    BY DEF PlacesAreTrue
  <2>1. /\ UNCHANGED <<wire, direct, queued, deliveries, outcome, misread>>
        /\ stage[c] # "away" => stage'[c] # "away"
    BY <1>3 DEF AskForThread, gatewayVars, outcomeVars, QuestionsTypeOK
  <2>2. PlaceIsTrue(q, c)
    BY DEF PlacesAreTrue
  <2>3. CASE UNCHANGED approvalVars
    BY <2>1, <2>2, <2>3, PlaceStays DEF approvalVars
  <2>4. CASE FailApprovals(b)
    <3>1. /\ q \in shown'[c] => q \in shown[c]
          /\ Answering(q, c)' => q \notin shown'[c] /\ (Answering(q, c) \/ q \in shown[c])
      <4>1. Answering(q, c) => q \notin shown[c]
        BY <2>2 DEF PlaceIsTrue
      <4>2. CASE c # b
        BY <2>4, <4>1, <4>2 DEF FailApprovals, QuestionsTypeOK, Answering
      <4>3. CASE c = b
        <5>1. shown'[c] = {} /\ back'[c] = back[c] \cup (shown[c] \X {"cancelled"})
          BY <2>4, <4>3 DEF FailApprovals, QuestionsTypeOK
        <5> QED
          BY <5>1 DEF Answering
      <4> QED
        BY <4>2, <4>3
    <3> QED
      BY <2>1, <2>2, <3>1, ApprovalIsAnswered
  <2> QED
    BY <1>3, <2>3, <2>4 DEF AskForThread
<1>4. ASSUME NEW b \in Browser, NEW r \in Question, NEW o \in Answer, UserAnswers(b, r, o)
      PROVE  PlacesAreTrue'
  <2> SUFFICES ASSUME NEW q \in Question, NEW c \in Browser PROVE PlaceIsTrue(q, c)'
    BY DEF PlacesAreTrue
  <2>1. /\ UNCHANGED <<wire, direct, queued, deliveries, outcome, stage, misread>> /\ r \in shown[b]
        /\ shown' = [shown EXCEPT ![b] = @ \ {r}] /\ back' = [back EXCEPT ![b] = @ \cup {<<r, o>>}]
    BY <1>4 DEF UserAnswers, gatewayVars, outcomeVars
  <2>2. PlaceIsTrue(q, c) /\ (Answering(q, c) => q \notin shown[c])
    BY DEF PlacesAreTrue, PlaceIsTrue
  <2>3. /\ q \in shown'[c] => q \in shown[c]
        /\ Answering(q, c)' => q \notin shown'[c] /\ (Answering(q, c) \/ q \in shown[c])
    <3>1. CASE c # b
      BY <2>1, <2>2, <3>1 DEF QuestionsTypeOK, Answering
    <3>2. CASE c = b
      <4>1. shown'[c] = shown[c] \ {r} /\ back'[c] = back[c] \cup {<<r, o>>}
        BY <2>1, <3>2 DEF QuestionsTypeOK
      <4> QED
        BY <2>1, <2>2, <3>2, <4>1 DEF Answering
    <3> QED
      BY <3>1, <3>2
  <2> QED
    BY <2>1, <2>2, <2>3, ApprovalIsAnswered
<1>5. CASE AdapterLost
  <2>1. queued \in SUBSET queued /\ deliveries \in [Question -> SUBSET Browser] /\ Settle(queued, deliveries)
    BY <1>5 DEF AdapterLost, QuestionsTypeOK
  <2>2. UNCHANGED <<shown, stage, direct, back, misread>>
    BY <1>5 DEF AdapterLost, approvalVars
  <2>3. \A p \in Question : outcome'[p] = "unasked" => outcome[p] = "unasked"
    BY <1>5 DEF AdapterLost, Lost, QuestionsTypeOK
  <2> QED
    BY <2>1, <2>2, <2>3, PlacesAfterSettlement
<1>6. CASE AdapterHolds \/ OrchestratorBoots
  BY <1>6, PlaceStays DEF PlacesAreTrue, AdapterHolds, OrchestratorBoots, gatewayVars, browserVars,
     approvalVars, outcomeVars
<1>7. ASSUME NEW b \in Browser, NEW r \in Question, NEW o \in Answer, UserAnswersLate(b, r, o)
      PROVE  PlacesAreTrue'
  BY <1>7, PlaceStays DEF PlacesAreTrue, UserAnswersLate, gatewayVars, outcomeVars
<1> QED
  BY <1>1, <1>2, <1>3, <1>4, <1>5, <1>6, <1>7, PlacesAfterMessage, PlacesAfterAsk, PlacesAfterLoad, PlacesAfterAnswer,
     PlacesAfterClose, PlacesAfterEnd DEF QuestionsNext
(***************************************************************************)
(* The queue, its rows, and what the adapter waits for.                    *)
(***************************************************************************)

LEMMA QueueStays ==
  ASSUME QuestionsTypeOK, QueueIsTrue, QuestionsNext
  PROVE  QueueIsTrue'
<1> USE NoBrowserAssumption DEF QueueIsTrue, QuestionsTypeOK, gatewayVars, outcomeVars
<1>1. CASE AskSteps
  <2>1. ASSUME NEW q \in Question, AskQuestion(q) PROVE QueueIsTrue'
    <3>1. /\ outcome[q] = "unasked" /\ outcome' = [outcome EXCEPT ![q] = "waiting"]
          /\ UNCHANGED <<deliveries, stage>>
      BY <2>1 DEF AskQuestion
    <3>2. \/ queued' = queued /\ \E b \in Browser : direct' = [direct EXCEPT ![q] = b]
          \/ queued' = queued \cup {q} /\ direct' = direct
      BY <2>1 DEF AskQuestion, Enqueue
    <3> QED
      BY <3>1, <3>2
  <2>2. ASSUME NEW q \in Question, HoldElapses(q) PROVE QueueIsTrue'
    <3>1. UNCHANGED <<direct, stage>>
      BY <2>2 DEF HoldElapses
    <3>2. \/ UNCHANGED <<queued, deliveries, outcome>>
          \/ /\ queued' = queued \ {q}
             /\ deliveries' = [p \in Question |-> IF p \in {q} THEN {} ELSE deliveries[p]]
             /\ outcome' = [outcome EXCEPT ![q] = IF @ = "waiting" THEN "denied" ELSE @]
      BY <2>2 DEF HoldElapses, Settle, Answered
    <3> QED
      BY <3>1, <3>2
  <2> QED
    BY <1>1, <2>1, <2>2 DEF AskSteps
<1>2. CASE HandshakeSteps
  <2>1. ASSUME NEW b \in Browser, Attach(b) \/ PinBrowser(b) \/ AskForThread(b) PROVE QueueIsTrue'
    BY <2>1 DEF Attach, PinBrowser, AskForThread
  <2>2. ASSUME NEW b \in Browser, LoadThreadFor(b) PROVE QueueIsTrue'
    BY <2>2 DEF LoadThreadFor
  <2> QED
    BY <1>2, <2>1, <2>2 DEF HandshakeSteps
<1>3. CASE ChannelSteps
  BY <1>3 DEF ChannelSteps, MessageArrives, SocketCloses, Enqueue
<1>4. CASE AnswerSteps
  BY <1>4 DEF AnswerSteps, AnswerArrives, UserAnswers, LateAnswerArrives, UserAnswersLate, TakeAnswer, DropAnswer,
     Settle, Answered, Answer
<1>5. CASE ProcessSteps
  <2>1. CASE AdapterHolds \/ OrchestratorBoots
    <3>1. UNCHANGED <<direct, queued, deliveries, outcome, stage>>
      BY <2>1 DEF AdapterHolds, OrchestratorBoots, browserVars
    <3> QED
      BY <3>1
  <2>2. CASE AdapterLost
    BY <2>2 DEF AdapterLost, Lost, Settle
  <2>3. CASE OrchestratorEnds
    BY <2>3 DEF OrchestratorEnds, Lost
  <2> QED
    BY <1>5, <2>1, <2>2, <2>3 DEF ProcessSteps
<1> QED
  BY <1>1, <1>2, <1>3, <1>4, <1>5, QuestionSteps

LEMMA EndedStays ==
  ASSUME QuestionsTypeOK, EndedIsEmpty, QuestionsNext
  PROVE  EndedIsEmpty'
<1> USE DEF EndedIsEmpty, QuestionsTypeOK, gatewayVars
<1>1. CASE AskSteps
  BY <1>1 DEF AskSteps, AskQuestion, HoldElapses, Settle
<1>2. CASE HandshakeSteps
  BY <1>2 DEF HandshakeSteps, Attach, PinBrowser, AskForThread, LoadThreadFor
<1>3. CASE ChannelSteps
  BY <1>3 DEF ChannelSteps, MessageArrives, SocketCloses, Enqueue
<1>4. CASE AnswerSteps
  BY <1>4 DEF AnswerSteps, AnswerArrives, UserAnswers, LateAnswerArrives, UserAnswersLate, TakeAnswer, DropAnswer, Settle
<1>5. CASE ProcessSteps
  BY <1>5 DEF ProcessSteps, AdapterHolds, AdapterLost, OrchestratorEnds, OrchestratorBoots, Settle, browserVars
<1> QED
  BY <1>1, <1>2, <1>3, <1>4, <1>5, QuestionSteps

LEMMA RowsStay ==
  ASSUME QuestionsTypeOK, EndedIsEmpty, RowsAreAnswerable, QuestionsNext
  PROVE  RowsAreAnswerable'
<1> USE DEF RowsAreAnswerable, gatewayVars
<1>1. CASE AskSteps
  BY <1>1 DEF AskSteps, AskQuestion, HoldElapses, Settle, Enqueue
<1>2. CASE HandshakeSteps
  BY <1>2 DEF HandshakeSteps, Attach, PinBrowser, AskForThread, LoadThreadFor
<1>3. CASE ChannelSteps
  BY <1>3 DEF ChannelSteps, MessageArrives, SocketCloses, Enqueue
<1>4. CASE AnswerSteps
  <2>1. ASSUME NEW b \in Browser, NEW q \in Question, NEW o \in Answer,
               AnswerArrives(b, q, o) \/ LateAnswerArrives(b, q, o)
        PROVE  /\ gateway' = gateway
               /\ \/ queued' = queued /\ rows' = rows
                  \/ \E r \in Question : queued' = queued \ {r} /\ rows' = rows \ {r}
    BY <2>1 DEF AnswerArrives, LateAnswerArrives, TakeAnswer, DropAnswer, Settle
  <2>2. ASSUME NEW b \in Browser, NEW q \in Question, NEW o \in Answer,
               UserAnswers(b, q, o) \/ UserAnswersLate(b, q, o)
        PROVE  gateway' = gateway /\ queued' = queued /\ rows' = rows
    BY <2>2 DEF UserAnswers, UserAnswersLate
  <2> QED
    BY <1>4, <2>1, <2>2 DEF AnswerSteps
<1>5. CASE ProcessSteps
  BY <1>5 DEF ProcessSteps, AdapterHolds, AdapterLost, OrchestratorEnds, OrchestratorBoots, Settle, EndedIsEmpty
<1> QED
  BY <1>1, <1>2, <1>3, <1>4, <1>5, QuestionSteps

\* The place of one question that waits.
IsSomewhere(q) ==
  outcome[q] = "waiting" => q \in queued \/ \E b \in Browser : direct[q] = b /\ WithBrowser(q, b)

\* A step that leaves the question where it is.
LEMMA SomewhereStays ==
  ASSUME NEW q \in Question, IsSomewhere(q),
         outcome'[q] = "waiting" => outcome[q] = "waiting",
         direct'[q] = direct[q], q \in queued => q \in queued',
         \A b \in Browser : WithBrowser(q, b) => WithBrowser(q, b)'
  PROVE  IsSomewhere(q)'
  BY DEF IsSomewhere

LEMMA WaitingStays ==
  ASSUME QuestionsTypeOK, PlacesAreTrue, QueueIsTrue, WaitingQuestionIsSomewhere, QuestionsNext
  PROVE  WaitingQuestionIsSomewhere'
<1> SUFFICES ASSUME NEW q \in Question PROVE IsSomewhere(q)'
  BY DEF WaitingQuestionIsSomewhere, IsSomewhere
<1>0. IsSomewhere(q)
  BY DEF WaitingQuestionIsSomewhere, IsSomewhere
<1>00. /\ wire \in [Browser -> Seq(Message)] /\ shown \in [Browser -> SUBSET Question]
       /\ back \in [Browser -> SUBSET (Question \X Answer)] /\ deliveries \in [Question -> SUBSET Browser]
       /\ direct \in [Question -> Browser \cup {NoBrowser}] /\ queued \in SUBSET Question
       /\ outcome \in [Question -> Answer \cup {"unasked", "waiting", "denied", "lost"}]
  BY DEF QuestionsTypeOK
<1>000. UNCHANGED <<wire, shown, back>> => \A b \in Browser : WithBrowser(q, b) => WithBrowser(q, b)'
  BY DEF WithBrowser
<1>1. ASSUME NEW r \in Question, AskQuestion(r) PROVE IsSomewhere(q)'
  <2>1. /\ outcome' = [outcome EXCEPT ![r] = "waiting"] /\ UNCHANGED <<shown, back>>
    BY <1>1 DEF AskQuestion, approvalVars
  <2>2. ASSUME NEW c \in Browser, direct' = [direct EXCEPT ![r] = c],
               wire' = [wire EXCEPT ![c] = Append(@, Ask(r))], queued' = queued
        PROVE  IsSomewhere(q)'
    <3>1. \A b \in Browser : Carries(wire[b], Ask(q)) => Carries(wire'[b], Ask(q))
      <4> SUFFICES ASSUME NEW b \in Browser, Carries(wire[b], Ask(q)) PROVE Carries(wire'[b], Ask(q))
        OBVIOUS
      <4>1. CASE b = c
        <5>1. wire[b] \in Seq(Message) /\ wire'[b] = Append(wire[b], Ask(r))
          BY <1>00, <2>2, <4>1
        <5> QED
          BY <5>1, AskIsSent
      <4>2. CASE b # c
        BY <1>00, <2>2, <4>2
      <4> QED
        BY <4>1, <4>2
    <3>2. Carries(wire'[c], Ask(r))
      <4>1. wire[c] \in Seq(Message) /\ wire'[c] = Append(wire[c], Ask(r))
        BY <1>00, <2>2
      <4> QED
        BY <4>1, AskIsSent
    <3>3. \A b \in Browser : WithBrowser(q, b) => WithBrowser(q, b)'
      BY <2>1, <3>1, PlaceMeans DEF Answering
    <3>4. WithBrowser(r, c)'
      BY <3>2, PlaceMeans
    <3> QED
      BY <1>0, <1>00, <2>1, <2>2, <3>3, <3>4 DEF IsSomewhere
  <2>3. CASE queued' = queued \cup {r} /\ UNCHANGED <<direct, wire>>
    BY <1>0, <1>00, <1>000, <2>1, <2>3 DEF IsSomewhere
  <2> QED
    BY <1>1, <2>2, <2>3 DEF AskQuestion, Enqueue
<1>2. ASSUME NEW Q \in SUBSET Question, NEW D \in [Question -> SUBSET Browser], Settle(Q, D),
             q \in Q => outcome'[q] # "waiting", outcome'[q] = "waiting" => outcome[q] = "waiting",
             direct' = direct, shown' = shown,
             \A b \in Browser : outcome'[q] = "waiting" /\ direct[q] = b => back'[b] = back[b]
      PROVE  IsSomewhere(q)'
  <2>1. \A b \in Browser : Carries(wire'[b], Ask(q)) <=> Carries(wire[b], Ask(q))
    BY <1>00, <1>2, SettlementIsSent
  <2>2. \A b \in Browser : outcome'[q] = "waiting" /\ direct[q] = b /\ WithBrowser(q, b) => WithBrowser(q, b)'
    BY <1>2, <2>1, PlaceMeans DEF Answering
  <2>3. q \in queued /\ q \notin Q => q \in queued'
    BY <1>2 DEF Settle
  <2> QED
    BY <1>0, <1>2, <2>2, <2>3 DEF IsSomewhere
<1>3. ASSUME NEW r \in Question, HoldElapses(r) PROVE IsSomewhere(q)'
  <2>1. UNCHANGED <<direct, shown, back>>
    BY <1>3 DEF HoldElapses, approvalVars
  <2>2. CASE UNCHANGED <<queued, rows, deliveries, wire, outcome>>
    BY <1>0, <1>000, <2>1, <2>2, SomewhereStays
  <2>3. CASE Settle({r}, deliveries) /\ Answered(r, "denied")
    <3>1. (q = r => outcome'[q] # "waiting") /\ (outcome'[q] = "waiting" => outcome[q] = "waiting")
      BY <1>00, <2>3 DEF Answered
    <3> QED
      BY <1>2, <1>00, <2>1, <2>3, <3>1
  <2> QED
    BY <1>3, <2>2, <2>3 DEF HoldElapses
<1>4. ASSUME NEW b \in Browser, Attach(b) \/ PinBrowser(b) PROVE IsSomewhere(q)'
  <2>1. UNCHANGED <<wire, shown, back, direct, queued, outcome>>
    BY <1>4 DEF Attach, PinBrowser, gatewayVars, approvalVars, outcomeVars
  <2> QED
    BY <1>0, <1>000, <2>1, SomewhereStays
<1>5. ASSUME NEW b \in Browser, AskForThread(b) PROVE IsSomewhere(q)'
  <2>1. UNCHANGED <<wire, direct, queued, outcome>>
    BY <1>5 DEF AskForThread, gatewayVars, outcomeVars
  <2>2. \A c \in Browser : q \in shown[c] \/ Answering(q, c) => q \in shown'[c] \/ Answering(q, c)'
    <3>1. CASE UNCHANGED approvalVars
      BY <3>1 DEF Answering, approvalVars
    <3>2. CASE FailApprovals(b)
      BY <1>00, <3>2 DEF FailApprovals, Answering, Answer
    <3> QED
      BY <1>5, <3>1, <3>2 DEF AskForThread
  <2>3. \A c \in Browser : WithBrowser(q, c) => WithBrowser(q, c)'
    BY <2>1, <2>2, PlaceMeans
  <2> QED
    BY <1>0, <2>1, <2>3, SomewhereStays
<1>6. ASSUME NEW b \in Browser, LoadThreadFor(b) PROVE IsSomewhere(q)'
  <2> DEFINE s == SetToSeq({Ask(p) : p \in queued})
  <2>1. UNCHANGED <<shown, back, direct, queued, outcome>> /\ wire' = [wire EXCEPT ![b] = @ \o <<Replay>> \o s]
    BY <1>6 DEF LoadThreadFor, approvalVars, outcomeVars
  <2>2. /\ s \in Seq(Message) /\ (\A r \in Question : AskedOnce(s, r))
        /\ \A r \in Question : ~Carries(s, Withdraw(r)) /\ (Carries(s, Ask(r)) <=> r \in queued)
    BY <1>00, AsksInOrder
  <2> HIDE DEF s
  <2>3. ASSUME NEW c \in Browser, Carries(wire[c], Ask(q)) PROVE Carries(wire'[c], Ask(q))
    <3>1. CASE c # b
      BY <1>00, <2>1, <2>3, <3>1
    <3>2. CASE c = b
      <4> DEFINE w == wire[c]  v == w \o <<Replay>> \o s
      <4>1. w \in Seq(Message) /\ wire'[c] = v
        BY <1>00, <2>1, <3>2
      <4> HIDE DEF w
      <4>2. Carries(w, Ask(q)) => Carries(v, Ask(q))
        BY <1>00, <2>2, <4>1, ReplayIsSent
      <4> HIDE DEF v
      <4> QED
        BY <2>3, <4>1, <4>2 DEF w
    <3> QED
      BY <3>1, <3>2
  <2>4. \A c \in Browser : WithBrowser(q, c) => WithBrowser(q, c)'
    BY <2>1, <2>3, PlaceMeans DEF Answering
  <2> QED
    BY <1>0, <2>1, <2>4, SomewhereStays
<1>7. ASSUME NEW b \in Browser, MessageArrives(b) PROVE IsSomewhere(q)'
  <2> DEFINE m == Head(wire[b])
  <2>1. /\ wire[b] # <<>> /\ wire' = [wire EXCEPT ![b] = Tail(@)] /\ UNCHANGED <<direct, queued, outcome>>
    BY <1>7 DEF MessageArrives, gatewayVars, outcomeVars
  <2>2. /\ m.kind = "ask" => /\ shown' = [shown EXCEPT ![b] = @ \cup {m.q}] /\ back' = back
        /\ m.kind = "withdraw" => /\ shown' = [shown EXCEPT ![b] = @ \ {m.q}]
                                  /\ back' = [back EXCEPT ![b] = @ \cup ((shown[b] \cap {m.q}) \X {"cancelled"})]
        /\ m.kind = "replay" => FailApprovals(b)
        /\ m.kind \in {"ask", "withdraw", "replay"}
    BY <1>7 DEF MessageArrives
  <2>3. m = Ask(q) => m.kind = "ask" /\ m.q = q
    BY DEF Ask
  <2>4. ASSUME NEW c \in Browser, Carries(wire[c], Ask(q))
        PROVE  Carries(wire'[c], Ask(q)) \/ (c = b /\ m = Ask(q))
    <3>1. CASE c # b
      BY <1>00, <2>1, <2>4, <3>1
    <3>2. CASE c = b
      <4>1. wire[c] \in Seq(Message) /\ wire[c] # <<>> /\ wire'[c] = Tail(wire[c])
        BY <1>00, <2>1, <3>2
      <4> QED
        BY <2>4, <3>2, <4>1, TakenMessage
    <3> QED
      BY <3>1, <3>2
  <2>5. m = Ask(q) => q \in shown'[b]
    BY <1>00, <2>2, <2>3
  <2>6. \A c \in Browser : q \in shown[c] \/ Answering(q, c) => q \in shown'[c] \/ Answering(q, c)'
    <3> SUFFICES ASSUME NEW c \in Browser, q \in shown[c] \/ Answering(q, c)
                 PROVE  q \in shown'[c] \/ Answering(q, c)'
      OBVIOUS
    <3>1. \/ shown'[c] = shown[c] /\ back'[c] = back[c]
          \/ shown'[c] = shown[c] \cup {m.q} /\ back'[c] = back[c]
          \/ /\ shown'[c] = shown[c] \ {m.q}
             /\ back'[c] = back[c] \cup ((shown[c] \cap {m.q}) \X {"cancelled"})
          \/ shown'[c] = {} /\ back'[c] = back[c] \cup (shown[c] \X {"cancelled"})
      <4> HIDE DEF m
      <4>1. CASE c = b
        BY <1>00, <2>2, <4>1 DEF FailApprovals
      <4>2. CASE c # b
        BY <1>00, <2>2, <4>2 DEF FailApprovals
      <4> QED
        BY <4>1, <4>2
    <3> HIDE DEF m
    <3> QED
      BY <3>1 DEF Answering, Answer
  <2> HIDE DEF m
  <2>7. \A c \in Browser : WithBrowser(q, c) => WithBrowser(q, c)'
    BY <2>4, <2>5, <2>6, PlaceMeans
  <2> QED
    BY <1>0, <2>1, <2>7, SomewhereStays
<1>8. ASSUME NEW b \in Browser, SocketCloses(b) PROVE IsSomewhere(q)'
  <2>1. /\ wire' = [wire EXCEPT ![b] = <<>>] /\ outcome' = outcome
        /\ shown' = [shown EXCEPT ![b] = {}] /\ back' = [back EXCEPT ![b] = {}]
        /\ queued' = queued \cup {p \in Question : direct[p] = b}
        /\ direct' = [p \in Question |-> IF direct[p] = b THEN NoBrowser ELSE direct[p]]
    BY <1>8 DEF SocketCloses, Enqueue, outcomeVars
  <2>2. \A c \in Browser \ {b} : WithBrowser(q, c) => WithBrowser(q, c)'
    BY <1>00, <2>1 DEF WithBrowser
  <2> QED
    BY <1>0, <2>1, <2>2 DEF IsSomewhere
<1>9. ASSUME NEW b \in Browser, NEW r \in Question, NEW o \in Answer, TakeAnswer(b, r, o),
             UNCHANGED shown, \A c \in Browser : q # r => (Answering(q, c)' <=> Answering(q, c))
      PROVE  IsSomewhere(q)'
  <2>3. CASE direct[r] = b /\ direct' = [direct EXCEPT ![r] = NoBrowser] /\ Answered(r, o) /\ UNCHANGED <<queued, wire>>
    <3>1. CASE q = r
      <4>1. outcome'[q] # "waiting"
        BY <1>00, <2>3, <3>1 DEF Answered, Answer
      <4> QED
        BY <4>1 DEF IsSomewhere
    <3>2. CASE q # r
      <4>1. direct'[q] = direct[q] /\ outcome'[q] = outcome[q]
        BY <1>00, <2>3, <3>2 DEF Answered
      <4>2. \A c \in Browser : WithBrowser(q, c) => WithBrowser(q, c)'
        BY <1>9, <2>3, <3>2, PlaceMeans
      <4> QED
        BY <1>0, <2>3, <4>1, <4>2, SomewhereStays
    <3> QED
      BY <3>1, <3>2
  <2>4. CASE /\ direct[r] # b /\ Settle({r}, [deliveries EXCEPT ![r] = @ \ {b}])
             /\ Answered(r, o) /\ UNCHANGED direct
    <3>1. CASE q = r
      <4>1. outcome'[q] # "waiting"
        BY <1>00, <2>4, <3>1 DEF Answered, Answer
      <4> QED
        BY <4>1 DEF IsSomewhere
    <3>2. CASE q # r
      <4>1. outcome'[q] = outcome[q] /\ (q \in queued => q \in queued')
        BY <1>00, <2>4, <3>2 DEF Answered, Settle
      <4>2. {r} \in SUBSET Question /\ [deliveries EXCEPT ![r] = @ \ {b}] \in [Question -> SUBSET Browser]
        BY <1>00
      <4>3. \A c \in Browser : Carries(wire'[c], Ask(q)) <=> Carries(wire[c], Ask(q))
        BY <1>00, <2>4, <4>2, SettlementIsSent
      <4>4. \A c \in Browser : WithBrowser(q, c) => WithBrowser(q, c)'
        BY <1>9, <3>2, <4>3, PlaceMeans
      <4> QED
        BY <1>0, <2>4, <4>1, <4>4, SomewhereStays
    <3> QED
      BY <3>1, <3>2
  <2> QED
    BY <1>9, <2>3, <2>4 DEF TakeAnswer
<1>13. ASSUME NEW b \in Browser, NEW r \in Question, NEW o \in Answer, AnswerArrives(b, r, o)
       PROVE  IsSomewhere(q)'
  <2>1. back' = [back EXCEPT ![b] = @ \ {<<r, o>>}] /\ UNCHANGED shown
    BY <1>13 DEF AnswerArrives
  <2>2. \A c \in Browser : q # r => (Answering(q, c)' <=> Answering(q, c))
    BY <1>00, <2>1 DEF Answering
  <2>3. CASE TakeAnswer(b, r, o)
    BY <1>9, <2>1, <2>2, <2>3
  <2>4. CASE direct[r] # b /\ UNCHANGED <<direct, queued, outcome, wire>>
    <3>1. \A c \in Browser : direct[q] = c /\ WithBrowser(q, c) => WithBrowser(q, c)'
      <4> SUFFICES ASSUME NEW c \in Browser, direct[q] = c, WithBrowser(q, c) PROVE WithBrowser(q, c)'
        OBVIOUS
      <4>1. q # r \/ c # b
        BY <2>4
      <4>2. Answering(q, c)' <=> Answering(q, c)
        BY <1>00, <2>1, <2>2, <4>1 DEF Answering
      <4> QED
        BY <2>1, <2>4, <4>2, PlaceMeans
    <3> QED
      BY <1>0, <2>4, <3>1 DEF IsSomewhere
  <2> QED
    BY <1>13, <2>3, <2>4 DEF AnswerArrives, DropAnswer, gatewayVars
<1>14. ASSUME NEW b \in Browser, NEW p \in Question, NEW o \in Answer, LateAnswerArrives(b, p, o)
       PROVE  IsSomewhere(q)'
  <2>1. UNCHANGED <<shown, back>>
    BY <1>14 DEF LateAnswerArrives
  <2>2. \A c \in Browser : Answering(q, c)' <=> Answering(q, c)
    BY <2>1 DEF Answering
  <2>3. ASSUME NEW r \in Question, TakeAnswer(b, r, o) PROVE IsSomewhere(q)'
    BY <1>9, <2>1, <2>2, <2>3
  <2>4. CASE DropAnswer
    BY <1>0, <1>000, <2>1, <2>4, SomewhereStays DEF DropAnswer, gatewayVars
  <2> QED
    BY <1>14, <2>3, <2>4 DEF LateAnswerArrives
<1>15. ASSUME NEW b \in Browser, NEW r \in Question, NEW o \in Answer, UserAnswersLate(b, r, o)
       PROVE  IsSomewhere(q)'
  <2>1. UNCHANGED <<wire, shown, back, direct, queued, outcome>>
    BY <1>15 DEF UserAnswersLate, gatewayVars, outcomeVars
  <2> QED
    BY <1>0, <1>000, <2>1, SomewhereStays
<1>10. ASSUME NEW b \in Browser, NEW r \in Question, NEW o \in Answer, UserAnswers(b, r, o)
       PROVE  IsSomewhere(q)'
  <2>1. /\ UNCHANGED <<wire, direct, queued, outcome>>
        /\ shown' = [shown EXCEPT ![b] = @ \ {r}] /\ back' = [back EXCEPT ![b] = @ \cup {<<r, o>>}]
    BY <1>10 DEF UserAnswers, gatewayVars, outcomeVars
  <2>2. \A c \in Browser : q \in shown[c] \/ Answering(q, c) => q \in shown'[c] \/ Answering(q, c)'
    BY <1>00, <2>1 DEF Answering
  <2>3. \A c \in Browser : WithBrowser(q, c) => WithBrowser(q, c)'
    BY <2>1, <2>2, PlaceMeans
  <2> QED
    BY <1>0, <2>1, <2>3, SomewhereStays
<1>11. CASE AdapterLost \/ OrchestratorEnds
  <2>1. outcome' = Lost
    BY <1>11 DEF AdapterLost, OrchestratorEnds
  <2> QED
    BY <1>00, <2>1 DEF IsSomewhere, Lost
<1>12. CASE AdapterHolds \/ OrchestratorBoots
  <2>1. UNCHANGED <<wire, shown, back, direct, queued, outcome>>
    BY <1>12 DEF AdapterHolds, OrchestratorBoots, gatewayVars, browserVars, approvalVars, outcomeVars
  <2> QED
    BY <1>0, <1>000, <2>1, SomewhereStays
<1> QED
  BY <1>1, <1>3, <1>4, <1>5, <1>6, <1>7, <1>8, <1>10, <1>11, <1>12, <1>13, <1>14, <1>15 DEF QuestionsNext

\* The request of a question is answered where its place in the gateway ends, and only there.
LEMMA AnswersStay ==
  ASSUME QuestionsTypeOK, QueueIsTrue, AnswersAreTrue, QuestionsNext
  PROVE  AnswersAreTrue'
<1> USE NoBrowserAssumption DEF AnswersAreTrue, QueueIsTrue, GatewayTypes, gatewayVars, outcomeVars
<1>0. GatewayTypes
  BY QuestionTypesAre
<1>1. ASSUME NEW b \in Browser, NEW r \in Question, NEW o \in Answer, TakeAnswer(b, r, o) PROVE AnswersAreTrue'
  <2>1. resolved' = [resolved EXCEPT ![r] = @ + 1] /\ outcome' = [outcome EXCEPT ![r] = IF @ = "waiting" THEN o ELSE @]
    BY <1>1 DEF TakeAnswer, Answered
  <2>2. resolved[r] = 0 /\ outcome[r] # "unasked"
    BY <1>0, <1>1 DEF TakeAnswer
  <2>3. resolved'[r] = 1
    BY <1>0, <2>1, <2>2
  <2>4. outcome'[r] # "unasked"
    BY <1>0, <2>1, <2>2 DEF Answer
  <2>5. direct'[r] = NoBrowser /\ r \notin queued'
    <3>1. CASE direct[r] = b
      BY <1>0, <1>1, <3>1 DEF TakeAnswer
    <3>2. CASE direct[r] # b
      BY <1>0, <1>1, <3>2 DEF TakeAnswer, Settle
    <3> QED
      BY <3>1, <3>2
  <2>6. ASSUME NEW q \in Question \ {r}
        PROVE  resolved'[q] = resolved[q] /\ outcome'[q] = outcome[q]
    BY <1>0, <2>1, <2>6
  <2>7. ASSUME NEW q \in Question \ {r}
        PROVE  direct'[q] = direct[q] /\ (q \in queued' <=> q \in queued)
    BY <1>0, <1>1, <2>7 DEF TakeAnswer, Settle
  <2> QED
    BY <2>3, <2>4, <2>5, <2>6, <2>7
<1>2. CASE DropAnswer
  BY <1>2 DEF DropAnswer
<1>3. CASE AskSteps
  BY <1>0, <1>3 DEF AskSteps, AskQuestion, HoldElapses, Enqueue, Settle, Answered
<1>4. CASE HandshakeSteps
  BY <1>4 DEF HandshakeSteps, Attach, PinBrowser, AskForThread, LoadThreadFor
<1>5. CASE ChannelSteps
  BY <1>0, <1>5 DEF ChannelSteps, MessageArrives, SocketCloses, Enqueue
<1>6. CASE AnswerSteps
  BY <1>1, <1>2, <1>6 DEF AnswerSteps, AnswerArrives, UserAnswers, LateAnswerArrives, UserAnswersLate
<1>7. CASE ProcessSteps
  BY <1>0, <1>7 DEF ProcessSteps, AdapterHolds, AdapterLost, OrchestratorEnds, OrchestratorBoots, Lost, Settle,
     browserVars
<1> QED
  BY <1>3, <1>4, <1>5, <1>6, <1>7, QuestionSteps

\* A page whose thread opens is sent the replay, which ends what it has of an earlier socket.
LEMMA LeftoversStay ==
  ASSUME QuestionsTypeOK, LeftoversEnd, QuestionsNext
  PROVE  LeftoversEnd'
<1> SUFFICES ASSUME NEW c \in Browser, stage'[c] = "open"
             PROVE  leftover'[c] = {} \/ Carries(wire'[c], Replay)
  BY DEF LeftoversEnd, Carries
<1>0. /\ wire \in [Browser -> Seq(Message)] /\ stage \in [Browser -> Stage]
      /\ leftover \in [Browser -> SUBSET Question] /\ deliveries \in [Question -> SUBSET Browser]
      /\ queued \in SUBSET Question
  BY DEF QuestionsTypeOK
<1>00. stage[c] = "open" => leftover[c] = {} \/ Carries(wire[c], Replay)
  BY DEF LeftoversEnd
<1>1. ASSUME stage'[c] = stage[c], leftover'[c] = leftover[c], Carries(wire[c], Replay) => Carries(wire'[c], Replay)
      PROVE  leftover'[c] = {} \/ Carries(wire'[c], Replay)
  BY <1>00, <1>1
<1>2. ASSUME NEW Q \in SUBSET Question, NEW D \in [Question -> SUBSET Browser], Settle(Q, D)
      PROVE  Carries(wire[c], Replay) => Carries(wire'[c], Replay)
  BY <1>0, <1>2, SettlementIsSent
<1>3. CASE AskSteps
  <2>1. stage' = stage /\ leftover' = leftover
    BY <1>3 DEF AskSteps, AskQuestion, HoldElapses, approvalVars
  <2>2. ASSUME NEW r \in Question, AskQuestion(r) PROVE Carries(wire[c], Replay) => Carries(wire'[c], Replay)
    <3>1. CASE wire' = wire
      BY <3>1
    <3>2. ASSUME NEW b \in Browser, wire' = [wire EXCEPT ![b] = Append(@, Ask(r))]
          PROVE  Carries(wire[c], Replay) => Carries(wire'[c], Replay)
      <4>1. wire'[c] = wire[c] \/ wire'[c] = Append(wire[c], Ask(r))
        BY <1>0, <3>2
      <4>2. wire[c] \in Seq(Message)
        BY <1>0
      <4> QED
        BY <4>1, <4>2, AskIsSent
    <3> QED
      BY <2>2, <3>1, <3>2 DEF AskQuestion
  <2>3. ASSUME NEW r \in Question, HoldElapses(r) PROVE Carries(wire[c], Replay) => Carries(wire'[c], Replay)
    BY <1>0, <1>2, <2>3 DEF HoldElapses
  <2> QED
    BY <1>1, <1>3, <2>1, <2>2, <2>3 DEF AskSteps
<1>4. CASE HandshakeSteps
  <2> PICK b \in Browser : Attach(b) \/ PinBrowser(b) \/ AskForThread(b) \/ LoadThreadFor(b)
    BY <1>4 DEF HandshakeSteps
  <2>1. CASE LoadThreadFor(b)
    <3>1. CASE c = b
      <4> DEFINE s == SetToSeq({Ask(p) : p \in queued})
      <4>1. wire' = [wire EXCEPT ![b] = @ \o <<Replay>> \o s]
        BY <2>1 DEF LoadThreadFor
      <4>2. /\ s \in Seq(Message) /\ (\A r \in Question : AskedOnce(s, r))
            /\ \A r \in Question : ~Carries(s, Withdraw(r)) /\ (Carries(s, Ask(r)) <=> r \in queued)
        BY <1>0, AsksInOrder
      <4> HIDE DEF s
      <4> DEFINE w == wire[c]  v == w \o <<Replay>> \o s
      <4>3. w \in Seq(Message) /\ wire'[c] = v
        BY <1>0, <3>1, <4>1
      <4> HIDE DEF w
      <4>4. Carries(v, Replay)
        BY <1>0, <4>2, <4>3, ReplayIsSent
      <4> HIDE DEF v
      <4> QED
        BY <4>3, <4>4
    <3>2. CASE c # b
      BY <1>0, <1>1, <2>1, <3>2 DEF LoadThreadFor, approvalVars
    <3> QED
      BY <3>1, <3>2
  <2>2. CASE Attach(b) \/ PinBrowser(b) \/ AskForThread(b)
    <3>1. c # b /\ stage'[c] = stage[c]
      BY <1>0, <2>2 DEF Attach, PinBrowser, AskForThread
    <3>2. leftover'[c] = leftover[c] /\ wire' = wire
      BY <1>0, <2>2, <3>1 DEF Attach, PinBrowser, AskForThread, FailApprovals, approvalVars
    <3> QED
      BY <1>1, <3>1, <3>2
  <2> QED
    BY <2>1, <2>2
<1>5. CASE ChannelSteps
  <2> PICK b \in Browser : MessageArrives(b) \/ SocketCloses(b)
    BY <1>5 DEF ChannelSteps
  <2>1. CASE c # b
    <3>1. stage'[c] = stage[c] /\ leftover'[c] = leftover[c] /\ wire'[c] = wire[c]
      BY <1>0, <2>1 DEF MessageArrives, SocketCloses, FailApprovals
    <3> QED
      BY <1>1, <3>1
  <2>2. CASE c = b /\ MessageArrives(b)
    <3>1. wire[c] \in Seq(Message) /\ wire[c] # <<>> /\ wire'[c] = Tail(wire[c]) /\ stage'[c] = stage[c]
      BY <1>0, <2>2 DEF MessageArrives
    <3>2. Head(wire[c]) \in Message /\ (Carries(wire[c], Replay) => Head(wire[c]) = Replay \/ Carries(wire'[c], Replay))
      BY <3>1, TakenMessage
    <3>3. CASE Head(wire[c]) = Replay
      <4>1. Replay.kind = "replay"
        BY DEF Replay
      <4> QED
        BY <1>0, <2>2, <3>3, <4>1 DEF MessageArrives, FailApprovals
    <3>4. CASE Head(wire[c]) # Replay
      <4>1. Head(wire[c]).kind # "replay"
        BY <3>2, <3>4 DEF Message, Replay
      <4>2. leftover'[c] = leftover[c]
        BY <2>2, <4>1 DEF MessageArrives
      <4> QED
        BY <1>1, <3>1, <3>2, <3>4, <4>2
    <3> QED
      BY <3>3, <3>4
  <2>3. CASE c = b /\ SocketCloses(b)
    BY <1>0, <2>3 DEF SocketCloses
  <2> QED
    BY <2>1, <2>2, <2>3
<1>6. CASE AnswerSteps
  <2> PICK b \in Browser, q \in Question, o \in Answer :
             \/ AnswerArrives(b, q, o) \/ UserAnswers(b, q, o)
             \/ LateAnswerArrives(b, q, o) \/ UserAnswersLate(b, q, o)
    BY <1>6 DEF AnswerSteps
  <2>1. ASSUME NEW r \in Question, TakeAnswer(b, r, o) PROVE Carries(wire[c], Replay) => Carries(wire'[c], Replay)
    <3>1. [deliveries EXCEPT ![r] = @ \ {b}] \in [Question -> SUBSET Browser] /\ {r} \in SUBSET Question
      BY <1>0
    <3> QED
      BY <1>2, <2>1, <3>1 DEF TakeAnswer
  <2>2. CASE AnswerArrives(b, q, o) \/ LateAnswerArrives(b, q, o)
    <3>1. stage' = stage /\ leftover' = leftover
      BY <2>2 DEF AnswerArrives, LateAnswerArrives
    <3>2. Carries(wire[c], Replay) => Carries(wire'[c], Replay)
      BY <2>1, <2>2 DEF AnswerArrives, LateAnswerArrives, DropAnswer
    <3> QED
      BY <1>1, <3>1, <3>2
  <2>3. CASE UserAnswers(b, q, o) \/ UserAnswersLate(b, q, o)
    BY <1>0, <1>00, <2>3 DEF UserAnswers, UserAnswersLate
  <2> QED
    BY <2>2, <2>3
<1>7. CASE ProcessSteps
  <2>1. CASE AdapterLost
    <3>1. stage' = stage /\ leftover' = leftover /\ Settle(queued, deliveries)
      BY <2>1 DEF AdapterLost, approvalVars
    <3> QED
      BY <1>0, <1>1, <1>2, <3>1
  <2>2. CASE OrchestratorEnds
    BY <2>2 DEF OrchestratorEnds
  <2>3. CASE AdapterHolds \/ OrchestratorBoots
    BY <1>1, <2>3 DEF AdapterHolds, OrchestratorBoots, browserVars, approvalVars
  <2> QED
    BY <1>7, <2>1, <2>2, <2>3 DEF ProcessSteps
<1> QED
  BY <1>3, <1>4, <1>5, <1>6, <1>7, QuestionSteps

LEMMA QuestionsInvMeans == QuestionsInv => QuestionsAreKept
<1> SUFFICES ASSUME QuestionsInv PROVE ShownQuestionIsOpen /\ ReplayEndsKept /\ OneAnswerReachesAdapter
  BY DEF QuestionsInv, QuestionsAreKept
<1>1. ShownQuestionIsOpen
  BY DEF QuestionsInv, QuestionsTypeOK, PlacesAreTrue, PlaceIsTrue, Carries, ShownQuestionIsOpen
<1>2. ReplayEndsKept
  BY DEF QuestionsInv, LeftoversEnd, Carries, ReplayEndsKept
<1>3. OneAnswerReachesAdapter
  BY DEF QuestionsInv, AnswersAreTrue, OneAnswerReachesAdapter
<1> QED
  BY <1>1, <1>2, <1>3

\* For any number of questions, browsers, sockets and losses: a question that waits is in
\* one place where it can be answered, no page that has read its thread shows a question
\* that was answered elsewhere without its withdrawal (or a late answer taken for it), every
\* row has its entry, and the adapter gets one answer.
THEOREM QuestionsAreAlwaysKept == QuestionsSpec => []QuestionsAreKept
<1>1. QuestionsInit => QuestionsInv
  <2> SUFFICES ASSUME QuestionsInit PROVE QuestionsInv
    OBVIOUS
  <2>1. GatewayTypes /\ PageTypes /\ QuestionCounts
    <3>1. GatewayTypes /\ PageTypes
      BY DEF QuestionsInit, GatewayTypes, PageTypes, Stage
    <3>2. QuestionCounts
      BY QuestionBounds DEF QuestionsInit, QuestionCounts
    <3> QED
      BY <3>1, <3>2
  <2>2. <<>> \in Seq(Message)
    OBVIOUS
  <2>3. WireType
    BY <2>2 DEF QuestionsInit, WireType
  <2>4. QuestionsTypeOK
    BY <2>1, <2>3, QuestionTypesAre
  <2>5. \A b \in Browser : wire[b] = <<>> /\ shown[b] = {} /\ back[b] = {}
    BY DEF QuestionsInit
  <2>6. PlacesAreTrue
    <3>1. \A q : ~Carries(<<>>, Ask(q)) /\ AskedOnce(<<>>, q) /\ ThenWithdrawn(<<>>, q)
      BY DEF Carries, AskedOnce, ThenWithdrawn
    <3>2. \A q \in Question, b \in Browser : ~WithBrowser(q, b) /\ ~Answering(q, b)
      BY <2>5, <3>1, PlaceMeans DEF Answering
    <3> QED
      BY <2>5, <3>1, <3>2 DEF PlacesAreTrue, PlaceIsTrue
  <2>7. /\ WaitingQuestionIsSomewhere /\ RowsAreAnswerable /\ QueueIsTrue /\ EndedIsEmpty
        /\ AnswersAreTrue /\ LeftoversEnd
    BY NoBrowserAssumption
       DEF QuestionsInit, WaitingQuestionIsSomewhere, RowsAreAnswerable, QueueIsTrue, EndedIsEmpty,
           AnswersAreTrue, LeftoversEnd
  <2> QED
    BY <2>4, <2>6, <2>7 DEF QuestionsInv
<1>2. QuestionsInv /\ [QuestionsNext]_questionVars => QuestionsInv'
  <2> SUFFICES ASSUME QuestionsInv, [QuestionsNext]_questionVars PROVE QuestionsInv'
    OBVIOUS
  <2>1. CASE UNCHANGED questionVars
    <3> USE DEF questionVars, gatewayVars, browserVars, approvalVars, outcomeVars, questionBounds
    <3>1. QuestionsTypeOK'
      BY <2>1 DEF QuestionsInv, QuestionsTypeOK
    <3>2. /\ WaitingQuestionIsSomewhere' /\ RowsAreAnswerable' /\ QueueIsTrue' /\ EndedIsEmpty'
          /\ AnswersAreTrue' /\ LeftoversEnd'
      BY <2>1 DEF QuestionsInv, WaitingQuestionIsSomewhere, RowsAreAnswerable, QueueIsTrue, EndedIsEmpty,
         AnswersAreTrue, LeftoversEnd, Carries, WithBrowser
    <3>3. PlacesAreTrue'
      BY <2>1, PlaceStays DEF QuestionsInv, PlacesAreTrue
    <3> QED
      BY <3>1, <3>2, <3>3 DEF QuestionsInv
  <2>2. CASE QuestionsNext
    BY <2>2, QuestionTypesStay, PlacesStay, QueueStays, EndedStays, RowsStay, WaitingStays, AnswersStay,
       LeftoversStay DEF QuestionsInv
  <2> QED
    BY <2>1, <2>2
<1> QED
  BY <1>1, <1>2, QuestionsInvMeans, PTL DEF QuestionsSpec

(***************************************************************************)
(* Terminals.  What makes TerminalIsWhole inductive: which steps of the    *)
(* endpoint have a session, an exec and a live pty, and that nothing waits *)
(* in the queue of a live one.                                             *)
(***************************************************************************)

\* No exec runs that the endpoint does not hold as its live pty, a pty is live only
\* while the endpoint is wired to it, and then nothing waits in the queue; before the
\* first open there is neither a session nor an exec, and after the close no session.
PtyIsHeld ==
  /\ exec = "runs" => ptyLive
  /\ ptyLive => step = "wired" /\ typeAhead = <<>>
  /\ step \in {"box", "size", "open"} => ~session /\ exec = "none"
  /\ closed => ~session

\* The size that an open takes with it is the one the terminal knows, unless one came
\* while it was under way.
OpenTakesTheSize ==
  step \in {"open", "reopen"} /\ ~late => ptySize = cols

TerminalInv == TerminalIsWhole /\ PtyIsHeld /\ OpenTakesTheSize

\* The strictly increasing sequences: the order of the keystrokes.
InOrder(s) == \A i, j \in DOMAIN s : i < j => s[i] < s[j]

\* The input as a whole, in the order of the keystrokes.
Input == typed \o typeAhead

LEMMA InputMeans ==
  ShellGetsItsInput <=> /\ InOrder(Input)
                        /\ Range(Input) \cup lost = 1..keys
                        /\ ptyLive /\ exec = "runs" /\ ~late => ptySize = cols
  BY DEF ShellGetsItsInput, InOrder, Input

\* One more keystroke, behind all the others, keeps the order.
LEMMA NextKeyIsLast ==
  ASSUME NEW s \in Seq(Nat), NEW k \in Nat, InOrder(s), Range(s) \subseteq 1..k
  PROVE  InOrder(Append(s, k + 1)) /\ Range(Append(s, k + 1)) = Range(s) \cup {k + 1}
<1> DEFINE t == Append(s, k + 1)
<1>1. t \in Seq(Nat) /\ Len(t) = Len(s) + 1 /\ t[Len(s) + 1] = k + 1
      /\ \A i \in 1..Len(s) : t[i] = s[i]
  BY AppendProperties
<1>2. DOMAIN t = 1..(Len(s) + 1) /\ DOMAIN s = 1..Len(s) /\ Len(s) \in Nat
  BY <1>1
<1>3. \A i \in 1..Len(s) : s[i] \in 1..k
  BY <1>2 DEF Range
<1> HIDE DEF t
<1>4. InOrder(t)
  <2>1. ASSUME NEW i \in 1..Len(s) PROVE t[i] = s[i] /\ s[i] \in Nat /\ s[i] < t[Len(s) + 1]
    <3>1. t[i] = s[i] /\ s[i] \in 1..k /\ t[Len(s) + 1] = k + 1
      BY <1>1, <1>3
    <3> QED
      BY <3>1
  <2>2. \A i, j \in 1..(Len(s) + 1) : i < j => i \in 1..Len(s) /\ (j \in 1..Len(s) \/ j = Len(s) + 1)
    BY <1>2
  <2>3. \A i, j \in 1..Len(s) : i < j => s[i] < s[j]
    BY <1>2 DEF InOrder
  <2> QED
    BY <1>2, <2>1, <2>2, <2>3 DEF InOrder
<1>5. Range(t) = Range(s) \cup {k + 1}
  <2>1. Range(s) = {s[i] : i \in 1..Len(s)} /\ Range(t) = {t[i] : i \in 1..(Len(s) + 1)}
    BY <1>2 DEF Range
  <2>2. 1..(Len(s) + 1) = 1..Len(s) \cup {Len(s) + 1}
    BY <1>2
  <2>3. {t[i] : i \in 1..(Len(s) + 1)} = {t[i] : i \in 1..Len(s)} \cup {t[Len(s) + 1]}
    BY <2>2
  <2>4. {t[i] : i \in 1..Len(s)} = {s[i] : i \in 1..Len(s)}
    BY <1>1
  <2> QED
    BY <1>1, <2>1, <2>3, <2>4
<1> QED
  BY <1>4, <1>5 DEF t

\* The first part of an ordered sequence is ordered.
LEMMA FirstPartInOrder ==
  ASSUME NEW s \in Seq(Nat), NEW t \in Seq(Nat), InOrder(s \o t)
  PROVE  InOrder(s)
<1>1. /\ DOMAIN (s \o t) = 1..(Len(s) + Len(t)) /\ DOMAIN s = 1..Len(s)
      /\ Len(s) \in Nat /\ Len(t) \in Nat /\ \A i \in 1..Len(s) : (s \o t)[i] = s[i]
  BY ConcatProperties
<1>2. \A i \in 1..Len(s) : i \in DOMAIN (s \o t)
  BY <1>1
<1> DEFINE u == s \o t
<1>3. \A i, j \in DOMAIN u : i < j => u[i] < u[j]
  BY DEF InOrder
<1>4. \A i \in 1..Len(s) : i \in DOMAIN u /\ u[i] = s[i]
  BY <1>1, <1>2
<1> HIDE DEF u
<1> QED
  BY <1>1, <1>3, <1>4 DEF InOrder

\* A keystroke behind the second part is one behind the whole.
LEMMA AppendBehind ==
  ASSUME NEW s \in Seq(Nat), NEW t \in Seq(Nat), NEW k \in Nat
  PROVE  s \o Append(t, k) = Append(s \o t, k)
<1>1. <<k>> \in Seq(Nat) /\ s \o t \in Seq(Nat)
  BY ConcatProperties
<1>2. Append(t, k) = t \o <<k>> /\ Append(s \o t, k) = (s \o t) \o <<k>>
  BY <1>1, AppendIsConcat
<1> QED
  BY <1>1, <1>2, ConcatAssociative

\* The flags and the places; the numbers; and the keystrokes. Together they are the types.
TerminalFlags ==
  /\ socket \in BOOLEAN /\ boxHeld \in BOOLEAN /\ closed \in BOOLEAN /\ retried \in BOOLEAN
  /\ ptyLive \in BOOLEAN /\ box \in BOOLEAN /\ session \in BOOLEAN /\ late \in BOOLEAN
  /\ step \in {"box", "size", "open", "wired", "wait", "state", "reopen", "over"}
  /\ exec \in {"none", "runs", "ended"}

TerminalNumbers ==
  /\ size \in 0..MaxSizes /\ cols \in 0..MaxSizes /\ ptySize \in 0..MaxSizes
  /\ missed \in 0..MissedPings
  /\ shellEnds \in 0..MaxShellEnds

TerminalKeys ==
  /\ keys \in 0..MaxKeys
  /\ typeAhead \in Seq(1..MaxKeys) /\ typed \in Seq(1..MaxKeys)
  /\ lost \subseteq 1..MaxKeys

LEMMA TerminalTypesAre == TerminalTypeOK <=> TerminalFlags /\ TerminalNumbers /\ TerminalKeys
  BY DEF TerminalTypeOK, TerminalFlags, TerminalNumbers, TerminalKeys

\* Every step of the terminal keeps the flags and the places.
LEMMA TerminalFlagsStay ==
  ASSUME TerminalFlags, [TerminalNext]_terminalVars
  PROVE  TerminalFlags'
<1> USE DEF TerminalFlags, clientVars, endVars, execVars, CloseTerminal, EndShell
<1>1. CASE BrowserTypes
  BY <1>1 DEF BrowserTypes
<1>2. CASE BrowserResizes
  BY <1>2 DEF BrowserResizes
<1>3. CASE BrowserLeaves
  BY <1>3 DEF BrowserLeaves
<1>4. CASE PingIsDue
  <2>1. CASE missed >= MissedPings
    BY <1>4, <2>1 DEF PingIsDue
  <2>2. CASE ~(missed >= MissedPings)
    BY <1>4, <2>2 DEF PingIsDue
  <2> QED
    BY <2>1, <2>2
<1>5. CASE BrowserAnswers
  BY <1>5 DEF BrowserAnswers
<1>6. CASE BoxIsReached
  BY <1>6 DEF BoxIsReached
<1>7. CASE SizeIsKnown
  BY <1>7 DEF SizeIsKnown
<1>8. CASE PtyOpens
  BY <1>8 DEF PtyOpens
<1>9. CASE PtyFails
  BY <1>9 DEF PtyFails
<1>10. CASE ExecEnds
  BY <1>10 DEF ExecEnds
<1>11. CASE BoxStops
  BY <1>11 DEF BoxStops
<1>12. CASE ExitIsNoticed
  BY <1>12 DEF ExitIsNoticed
<1>13. CASE DelayEnds
  BY <1>13 DEF DelayEnds
<1>14. CASE StateIsKnown
  BY <1>14 DEF StateIsKnown
<1>15. CASE SessionIsGone
  BY <1>15 DEF SessionIsGone
<1>16. CASE UNCHANGED terminalVars
  BY <1>16 DEF terminalVars
<1> QED
  BY <1>1, <1>2, <1>3, <1>4, <1>5, <1>6, <1>7, <1>8, <1>9, <1>10, <1>11, <1>12, <1>13, <1>14, <1>15, <1>16
     DEF TerminalNext

\* Every step of the terminal keeps the numbers within their bounds.
LEMMA TerminalNumbersStay ==
  ASSUME TerminalNumbers, [TerminalNext]_terminalVars
  PROVE  TerminalNumbers'
<1> USE TerminalBounds DEF TerminalNumbers, clientVars, endVars, execVars, End, MissedPings
<1>1. CASE BrowserTypes
  BY <1>1 DEF BrowserTypes
<1>2. CASE BrowserResizes
  BY <1>2 DEF BrowserResizes
<1>3. CASE BrowserLeaves
  BY <1>3 DEF BrowserLeaves
<1>4. CASE PingIsDue
  <2>1. UNCHANGED <<size, cols, ptySize, shellEnds>>
    BY <1>4 DEF PingIsDue
  <2>2. missed' = missed \/ (~(missed >= MissedPings) /\ missed' = missed + 1)
    BY <1>4 DEF PingIsDue
  <2> QED
    BY <2>1, <2>2
<1>5. CASE BrowserAnswers
  BY <1>5 DEF BrowserAnswers
<1>6. CASE BoxIsReached
  BY <1>6 DEF BoxIsReached
<1>7. CASE SizeIsKnown
  BY <1>7 DEF SizeIsKnown
<1>8. CASE PtyOpens
  BY <1>8 DEF PtyOpens
<1>9. CASE PtyFails
  BY <1>9 DEF PtyFails
<1>10. CASE ExecEnds
  BY <1>10 DEF ExecEnds
<1>11. CASE BoxStops
  BY <1>11 DEF BoxStops
<1>12. CASE ExitIsNoticed
  BY <1>12 DEF ExitIsNoticed
<1>13. CASE DelayEnds
  BY <1>13 DEF DelayEnds
<1>14. CASE StateIsKnown
  BY <1>14 DEF StateIsKnown
<1>15. CASE SessionIsGone
  BY <1>15 DEF SessionIsGone
<1>16. CASE UNCHANGED terminalVars
  BY <1>16 DEF terminalVars
<1> QED
  BY <1>1, <1>2, <1>3, <1>4, <1>5, <1>6, <1>7, <1>8, <1>9, <1>10, <1>11, <1>12, <1>13, <1>14, <1>15, <1>16
     DEF TerminalNext

\* Every step of the terminal keeps the keystrokes within theirs.
LEMMA TerminalKeysStay ==
  ASSUME TerminalKeys, [TerminalNext]_terminalVars
  PROVE  TerminalKeys'
<1> USE TerminalBounds DEF TerminalKeys, clientVars, endVars, execVars
<1>1. CASE BrowserTypes
  <2>1. keys' \in 1..MaxKeys /\ keys' \in 0..MaxKeys
    BY <1>1 DEF BrowserTypes
  <2>2. typed' \in {typed, Append(typed, keys')} /\ typeAhead' \in {typeAhead, Append(typeAhead, keys')}
        /\ lost' \in {lost, lost \cup {keys'}}
    BY <1>1 DEF BrowserTypes
  <2>3. Append(typed, keys') \in Seq(1..MaxKeys) /\ Append(typeAhead, keys') \in Seq(1..MaxKeys)
    BY <2>1, AppendProperties
  <2>4. lost' \subseteq 1..MaxKeys
    BY <2>1, <2>2
  <2>5. typed' \in Seq(1..MaxKeys) /\ typeAhead' \in Seq(1..MaxKeys)
    BY <2>2, <2>3
  <2> QED
    BY <2>1, <2>4, <2>5
<1>2. CASE BrowserResizes
  BY <1>2 DEF BrowserResizes
<1>3. CASE BrowserLeaves
  BY <1>3 DEF BrowserLeaves
<1>4. CASE PingIsDue
  BY <1>4 DEF PingIsDue
<1>5. CASE BrowserAnswers
  BY <1>5 DEF BrowserAnswers
<1>6. CASE BoxIsReached
  BY <1>6 DEF BoxIsReached
<1>7. CASE SizeIsKnown
  BY <1>7 DEF SizeIsKnown
<1>8. CASE PtyOpens
  <2>1. typed \o typeAhead \in Seq(1..MaxKeys) /\ <<>> \in Seq(1..MaxKeys)
    BY ConcatProperties
  <2> QED
    BY <1>8, <2>1 DEF PtyOpens
<1>9. CASE PtyFails
  BY <1>9 DEF PtyFails
<1>10. CASE ExecEnds
  BY <1>10 DEF ExecEnds
<1>11. CASE BoxStops
  BY <1>11 DEF BoxStops
<1>12. CASE ExitIsNoticed
  BY <1>12 DEF ExitIsNoticed
<1>13. CASE DelayEnds
  BY <1>13 DEF DelayEnds
<1>14. CASE StateIsKnown
  BY <1>14 DEF StateIsKnown
<1>15. CASE SessionIsGone
  <2>1. Range(typeAhead) \subseteq 1..MaxKeys
    BY DEF Range
  <2>2. typeAhead' = <<>> /\ lost' = lost \cup Range(typeAhead) /\ keys' = keys /\ typed' = typed
    BY <1>15 DEF SessionIsGone
  <2>3. <<>> \in Seq(1..MaxKeys)
    OBVIOUS
  <2>4. lost' \subseteq 1..MaxKeys
    BY <2>1, <2>2
  <2> QED
    BY <2>2, <2>3, <2>4
<1>16. CASE UNCHANGED terminalVars
  BY <1>16 DEF terminalVars
<1> QED
  BY <1>1, <1>2, <1>3, <1>4, <1>5, <1>6, <1>7, <1>8, <1>9, <1>10, <1>11, <1>12, <1>13, <1>14, <1>15, <1>16
     DEF TerminalNext

\* Every step keeps what the endpoint holds of the box and of its pty.
LEMMA HoldStays ==
  ASSUME TerminalTypeOK, ClosedLeavesNoShell, PtyIsHeld, [TerminalNext]_terminalVars
  PROVE  ClosedLeavesNoShell' /\ PtyIsHeld'
<1> USE DEF TerminalTypeOK, ClosedLeavesNoShell, PtyIsHeld, clientVars, endVars, execVars, CloseTerminal,
            EndShell
<1>1. CASE BrowserTypes
  BY <1>1 DEF BrowserTypes
<1>2. CASE BrowserResizes
  BY <1>2 DEF BrowserResizes
<1>3. CASE BrowserLeaves
  BY <1>3 DEF BrowserLeaves
<1>4. CASE PingIsDue
  BY <1>4 DEF PingIsDue
<1>5. CASE BrowserAnswers
  BY <1>5 DEF BrowserAnswers
<1>6. CASE BoxIsReached
  BY <1>6 DEF BoxIsReached
<1>7. CASE SizeIsKnown
  BY <1>7 DEF SizeIsKnown
<1>8. CASE PtyOpens
  BY <1>8 DEF PtyOpens
<1>9. CASE PtyFails
  <2>1. step \in {"open", "reopen"} /\ step' \in {"wait", "over"} /\ typeAhead' = typeAhead
    BY <1>9 DEF PtyFails
  <2>2. CASE UNCHANGED <<boxHeld, closed, ptyLive, session, exec>>
    BY <2>1, <2>2
  <2>3. CASE CloseTerminal
    BY <2>1, <2>3
  <2> QED
    BY <1>9, <2>2, <2>3 DEF PtyFails
<1>10. CASE ExecEnds
  BY <1>10 DEF ExecEnds
<1>11. CASE BoxStops
  BY <1>11 DEF BoxStops
<1>12. CASE ExitIsNoticed
  BY <1>12 DEF ExitIsNoticed
<1>13. CASE DelayEnds
  BY <1>13 DEF DelayEnds
<1>14. CASE StateIsKnown
  BY <1>14 DEF StateIsKnown
<1>15. CASE SessionIsGone
  BY <1>15 DEF SessionIsGone
<1>16. CASE UNCHANGED terminalVars
  BY <1>16 DEF terminalVars
<1> QED
  BY <1>1, <1>2, <1>3, <1>4, <1>5, <1>6, <1>7, <1>8, <1>9, <1>10, <1>11, <1>12, <1>13, <1>14, <1>15, <1>16
     DEF TerminalNext

\* Every step keeps the size of the pty the one of the window.
LEMMA SizeStays ==
  ASSUME TerminalInv, [TerminalNext]_terminalVars
  PROVE  OpenTakesTheSize' /\ (ptyLive /\ exec = "runs" /\ ~late => ptySize = cols)'
<1> USE DEF TerminalInv, TerminalIsWhole, TerminalTypeOK, PtyIsHeld, ShellGetsItsInput, OpenTakesTheSize,
            clientVars, endVars, execVars, CloseTerminal, EndShell
<1>1. CASE BrowserTypes
  BY <1>1 DEF BrowserTypes
<1>2. CASE BrowserResizes
  <2>1. cols' = size' /\ step' = step /\ exec' = exec /\ ptyLive' = ptyLive
    BY <1>2 DEF BrowserResizes
  <2>2. step \in {"open", "reopen"} => late'
    <3>1. size > 0 \/ size = 0
      OBVIOUS
    <3> QED
      BY <1>2, <3>1 DEF BrowserResizes
  <2>3. ptyLive /\ exec = "runs" /\ ~late' => ptySize' = size'
    <3>1. size > 0 \/ size = 0
      OBVIOUS
    <3> QED
      BY <1>2, <3>1 DEF BrowserResizes
  <2> QED
    BY <2>1, <2>2, <2>3
<1>3. CASE BrowserLeaves
  BY <1>3 DEF BrowserLeaves
<1>4. CASE PingIsDue
  BY <1>4 DEF PingIsDue
<1>5. CASE BrowserAnswers
  BY <1>5 DEF BrowserAnswers
<1>6. CASE BoxIsReached
  BY <1>6 DEF BoxIsReached
<1>7. CASE SizeIsKnown
  BY <1>7 DEF SizeIsKnown
<1>8. CASE PtyOpens
  BY <1>8 DEF PtyOpens
<1>9. CASE PtyFails
  <2>1. step' \in {"wait", "over"} /\ UNCHANGED <<cols, ptySize, late>>
    BY <1>9 DEF PtyFails
  <2>2. ~ptyLive'
    BY <1>9 DEF PtyFails
  <2> QED
    BY <2>1, <2>2
<1>10. CASE ExecEnds
  BY <1>10 DEF ExecEnds
<1>11. CASE BoxStops
  BY <1>11 DEF BoxStops
<1>12. CASE ExitIsNoticed
  BY <1>12 DEF ExitIsNoticed
<1>13. CASE DelayEnds
  BY <1>13 DEF DelayEnds
<1>14. CASE StateIsKnown
  BY <1>14 DEF StateIsKnown
<1>15. CASE SessionIsGone
  BY <1>15 DEF SessionIsGone
<1>16. CASE UNCHANGED terminalVars
  BY <1>16 DEF terminalVars
<1> QED
  BY <1>1, <1>2, <1>3, <1>4, <1>5, <1>6, <1>7, <1>8, <1>9, <1>10, <1>11, <1>12, <1>13, <1>14, <1>15, <1>16
     DEF TerminalNext

\* Every step keeps the input whole and in order: only a keystroke adds to it, an open
\* moves the queue behind what the shell has, and an exec without a session loses it.
LEMMA InputStays ==
  ASSUME TerminalInv, [TerminalNext]_terminalVars
  PROVE  (InOrder(Input) /\ Range(Input) \cup lost = 1..keys)'
<1> DEFINE Whole == InOrder(Input) /\ Range(Input) \cup lost = 1..keys
<1>1. Whole
  BY InputMeans DEF TerminalInv, TerminalIsWhole
<1>2. typed \in Seq(Nat) /\ typeAhead \in Seq(Nat) /\ keys \in Nat
  BY TerminalBounds DEF TerminalInv, TerminalIsWhole, TerminalTypeOK
<1>3. Input \in Seq(Nat) /\ Range(Input) \subseteq 1..keys
  BY <1>1, <1>2, ConcatProperties DEF Input
<1>4. CASE BrowserTypes
  <2>1. keys' = keys + 1
    BY <1>4 DEF BrowserTypes
  <2>2. 1..keys' = (1..keys) \cup {keys'}
    BY <1>2, <2>1
  <2>3. CASE ptyLive /\ exec # "runs"
    <3>1. typed' = typed /\ typeAhead' = typeAhead /\ lost' = lost \cup {keys'}
      BY <1>4, <2>3 DEF BrowserTypes
    <3> QED
      BY <1>1, <2>2, <3>1 DEF Input, InOrder
  <2>4. CASE ~(ptyLive /\ exec # "runs")
    <3>1. lost' = lost
      BY <1>4, <2>4 DEF BrowserTypes
    <3>2. Input' = Append(Input, keys')
      <4>1. CASE ptyLive
        <5>1. typeAhead = <<>> /\ typeAhead' = <<>> /\ typed' = Append(typed, keys')
          BY <1>4, <2>4, <4>1 DEF BrowserTypes, TerminalInv, PtyIsHeld
        <5>2. Append(typed, keys') \in Seq(Nat)
          BY <1>2, <2>1
        <5> QED
          BY <1>2, <5>1, <5>2, ConcatEmptySeq DEF Input
      <4>2. CASE ~ptyLive
        <5>1. typed' = typed /\ typeAhead' = Append(typeAhead, keys')
          BY <1>4, <4>2 DEF BrowserTypes
        <5> QED
          BY <1>2, <2>1, <5>1, AppendBehind DEF Input
      <4> QED
        BY <4>1, <4>2
    <3>3. InOrder(Append(Input, keys')) /\ Range(Append(Input, keys')) = Range(Input) \cup {keys'}
      BY <1>1, <1>2, <1>3, <2>1, NextKeyIsLast
    <3>4. InOrder(Input')
      BY <3>2, <3>3
    <3>5. Range(Input') \cup lost' = 1..keys'
      BY <1>1, <2>2, <3>1, <3>2, <3>3
    <3> QED
      BY <3>4, <3>5 DEF InOrder
  <2> QED
    BY <2>3, <2>4
<1>5. CASE PtyOpens
  <2>1. UNCHANGED <<typed, typeAhead>> \/ (typed' = Input /\ typeAhead' = <<>>)
    BY <1>5 DEF PtyOpens, Input
  <2>2. Input' = Input
    BY <1>3, <2>1, ConcatEmptySeq DEF Input
  <2>3. lost' = lost /\ keys' = keys
    BY <1>5 DEF PtyOpens, clientVars
  <2> QED
    BY <1>1, <2>2, <2>3 DEF InOrder
<1>6. CASE SessionIsGone
  <2>1. typed' = typed /\ typeAhead' = <<>> /\ lost' = lost \cup Range(typeAhead) /\ keys' = keys
    BY <1>6 DEF SessionIsGone
  <2>2. Input' = typed
    BY <1>2, <2>1, ConcatEmptySeq DEF Input
  <2>3. InOrder(typed)
    BY <1>1, <1>2, FirstPartInOrder DEF Input
  <2>4. Range(Input) = Range(typed) \cup Range(typeAhead)
    BY <1>2, RangeConcatenation DEF Input
  <2> QED
    BY <1>1, <2>1, <2>2, <2>3, <2>4 DEF InOrder
<1>7. CASE UNCHANGED <<typed, typeAhead, lost, keys>>
  BY <1>1, <1>7 DEF Input, InOrder
<1>8. BrowserTypes \/ PtyOpens \/ SessionIsGone \/ UNCHANGED <<typed, typeAhead, lost, keys>>
  BY DEF TerminalNext, terminalVars, clientVars, endVars, execVars, BrowserResizes, BrowserLeaves, PingIsDue,
         BrowserAnswers, BoxIsReached, SizeIsKnown, PtyFails, ExecEnds, BoxStops, ExitIsNoticed, DelayEnds,
         StateIsKnown
<1> QED
  BY <1>4, <1>5, <1>6, <1>7, <1>8

\* A terminal that is open gets every keystroke to its shell, in order, and the size of
\* its window; one that is closed holds the box no more and leaves no shell behind, in
\* whatever order its pty opens, ends and is attached to again (attachTerminal).
THEOREM TerminalIsAlwaysWhole == TerminalSpec => []TerminalIsWhole
<1>1. TerminalInit => TerminalInv
  <2> SUFFICES ASSUME TerminalInit PROVE TerminalInv
    OBVIOUS
  <2>1. typed = <<>> /\ typeAhead = <<>> /\ lost = {} /\ keys = 0
    BY DEF TerminalInit
  <2>2. Input = <<>> /\ Range(Input) = {} /\ InOrder(Input)
    BY <2>1 DEF Input, Range, InOrder
  <2>3. TerminalFlags
    BY DEF TerminalInit, TerminalFlags
  <2>4. TerminalNumbers
    BY TerminalBounds DEF TerminalInit, TerminalNumbers, DefaultSize, MissedPings
  <2>5. TerminalKeys
    BY <2>1, TerminalBounds DEF TerminalKeys
  <2>6. TerminalTypeOK
    BY <2>3, <2>4, <2>5, TerminalTypesAre
  <2>7. ClosedLeavesNoShell /\ PtyIsHeld /\ OpenTakesTheSize /\ ~ptyLive
    BY DEF TerminalInit, ClosedLeavesNoShell, PtyIsHeld, OpenTakesTheSize
  <2>8. ShellGetsItsInput
    BY <2>1, <2>2, <2>7, InputMeans
  <2> QED
    BY <2>6, <2>7, <2>8 DEF TerminalInv, TerminalIsWhole
<1>2. TerminalInv /\ [TerminalNext]_terminalVars => TerminalInv'
  <2> SUFFICES ASSUME TerminalInv, [TerminalNext]_terminalVars PROVE TerminalInv'
    OBVIOUS
  <2>1. TerminalTypeOK'
    BY TerminalTypesAre, TerminalFlagsStay, TerminalNumbersStay, TerminalKeysStay
       DEF TerminalInv, TerminalIsWhole, TerminalTypeOK, TerminalFlags, TerminalNumbers, TerminalKeys
  <2>2. ClosedLeavesNoShell' /\ PtyIsHeld'
    BY HoldStays DEF TerminalInv, TerminalIsWhole
  <2>3. OpenTakesTheSize' /\ (ptyLive /\ exec = "runs" /\ ~late => ptySize = cols)'
    BY SizeStays
  <2>4. (InOrder(Input) /\ Range(Input) \cup lost = 1..keys)'
    BY InputStays
  <2>5. ShellGetsItsInput'
    BY <2>3, <2>4 DEF ShellGetsItsInput, InOrder, Input
  <2> QED
    BY <2>1, <2>2, <2>3, <2>5 DEF TerminalInv, TerminalIsWhole
<1>3. TerminalInv => TerminalIsWhole
  BY DEF TerminalInv
<1> QED
  BY <1>1, <1>2, <1>3, PTL DEF TerminalSpec

(***************************************************************************)
(* The credential: what the logins, the ticks and the endpoint are up to.  *)
(***************************************************************************)

\* A run that has not begun shows nothing, only a run that can still remove its
\* container has one, and one that was given up while it reads its document has
\* overtaken the user.
LoginFits(f) ==
  /\ page[f] = "none" <=> loginStep[f] = "none"
  /\ container[f] => holds[f]
  /\ holds[f] => loginStep[f] \in {"spawn", "cli", "grace", "reading"}
  /\ loginStep[f] = "over" => Settled(f) /\ ~container[f]
  /\ loginStep[f] = "reading" /\ Settled(f) => overtaken

LoginsFit ==
  /\ \A f \in Login : LoginFits(f)
  /\ current # NoLogin => loginStep[current] # "none"

\* The loop runs one tick at a time.
OneTick == \A t, u \in Tick : phase[t] # "idle" /\ phase[u] # "idle" => t = u

\* What the tick has read is what the user wanted, unless it was overtaken.
ListedIsWanted ==
  \A t \in Tick : phase[t] # "idle" /\ listed[t] # NoRow => listed[t].made = decision \/ overtaken

\* Every refresh token comes from the endpoint.
TokensAreIssued ==
  /\ \A k \in accepted : k <= issued
  /\ secretRow # NoRow => secretRow.token <= issued
  /\ \A t \in Tick : listed[t] # NoRow => listed[t].token <= issued

\* A token that is on its way to a tick is accepted, and a refresh that was refused was
\* made with a token that the row has no more.
OffersAreGood ==
  \A t \in Tick : phase[t] = "posted" =>
    /\ listed[t] # NoRow /\ listed[t].token # 0
    /\ offer[t] # 0 => offer[t] \in accepted
    /\ offer[t] = 0 /\ ~answerLost /\ secretRow # NoRow => secretRow.token # listed[t].token

(***************************************************************************)
(* The connection of an MCP server.                                        *)
(***************************************************************************)

\* One refresh runs at a time (refresh shares the running one).
OneRefresh ==
  \A c, d \in Call : refresh[c].step = "posted" /\ refresh[d].step = "posted" => c = d

\* A token that is on its way to the row is valid.
OffersAreValid ==
  \A c \in Call : refresh[c].step = "posted" =>
    /\ refresh[c].doc.token # 0
    /\ refresh[c].offer # 0 => refresh[c].offer \in valid

McpInv == OneRefresh /\ OffersAreValid /\ RotatedTokenIsKept

\* What is stored and offered; the logins only need that nothing forgets that the user
\* was overtaken.
SecretTypes ==
  /\ kind \in {"claude", "openai", "devtunnels"}
  /\ secretRow \in Secret \cup {NoRow}
  /\ decision \in 0..MaxDecisions
  /\ accepted \subseteq 1..MaxTokens
  /\ issued \in 0..MaxTokens
  /\ answerLost \in BOOLEAN
  /\ overtaken \in BOOLEAN
  /\ phase \in [Tick -> {"idle", "listed", "posted"}]
  /\ listed \in [Tick -> Secret \cup {NoRow}]
  /\ offer \in [Tick -> 0..MaxTokens]

LoginTypes ==
  /\ current \in Login \cup {NoLogin}
  /\ page \in [Login -> {"none", "starting", "browser", "code", "refused", "done", "failed"}]
  /\ loginStep \in [Login -> {"none", "container", "spawn", "cli", "grace", "reading",
                        "asking", "polling", "lookup", "over"}]
  /\ holds \in [Login -> BOOLEAN]
  /\ container \in [Login -> BOOLEAN]

SecretSide ==
  /\ SecretTypes /\ OneTick /\ ListedIsWanted /\ SecretIsWanted
  /\ TokensAreIssued /\ OffersAreGood /\ StoredTokenIsAccepted

LoginSide == LoginTypes /\ LoginsFit

VaultInv == SecretSide /\ LoginSide

(***************************************************************************)
(* The steps of a login.                                                   *)
(***************************************************************************)

\* A step that stores nothing keeps the secrets, if it does not forget that the user was
\* overtaken.
LEMMA NothingIsStored ==
  ASSUME SecretSide, UNCHANGED <<kind, secretRow, decision, endpointVars, refreshVars>>,
         overtaken' \in BOOLEAN, overtaken => overtaken'
  PROVE  SecretSide'
<1> USE DEF SecretSide, endpointVars, refreshVars
<1>1. SecretTypes' /\ OneTick' /\ TokensAreIssued'
  BY DEF SecretTypes, OneTick, TokensAreIssued
<1>2. ListedIsWanted' /\ SecretIsWanted'
  BY DEF ListedIsWanted, SecretIsWanted
<1>3. OffersAreGood' /\ StoredTokenIsAccepted'
  BY DEF OffersAreGood, StoredTokenIsAccepted
<1> QED
  BY <1>1, <1>2, <1>3

\* The end of a run keeps what the logins are up to.
LEMMA RunEndsKeeps ==
  ASSUME LoginSide, NEW f \in Login, NEW shows, RunEnds(f, shows), loginStep[f] # "none",
         shows \in {"done", "failed"} \/ Settled(f), UNCHANGED current,
         \A g \in Login : loginStep[g] = "reading" /\ overtaken => overtaken'
  PROVE  LoginSide'
<1> USE DEF LoginSide, RunEnds, Settled
<1>1. LoginTypes'
  <2>1. (IF Settled(f) THEN page[f] ELSE shows) \in {"done", "failed"}
    OBVIOUS
  <2> QED
    BY <2>1 DEF LoginTypes
<1>2. \A g \in Login \ {f} : LoginFits(g)'
  BY DEF LoginsFit, LoginFits, LoginTypes
<1>3. LoginFits(f)'
  BY DEF LoginsFit, LoginFits, LoginTypes
<1>4. current' # NoLogin => loginStep'[current'] # "none"
  BY DEF LoginsFit, LoginTypes
<1> QED
  BY <1>1, <1>2, <1>3, <1>4 DEF LoginsFit

\* A run that goes on keeps what the logins are up to.
LEMMA RunGoesOnKeeps ==
  ASSUME LoginSide, NEW f \in Login, NEW next, NEW shows, RunGoesOn(f, next, shows),
         loginStep[f] # "none", UNCHANGED <<current, overtaken>>,
         next \in {"cli", "grace", "reading", "polling", "lookup"},
         shows \in {"starting", "browser", "code", "refused"} \/ shows = page[f],
         next = "reading" => ~Settled(f) /\ shows = page[f],
         next \in {"polling", "lookup"} => loginStep[f] \in {"asking", "polling"}
  PROVE  LoginSide'
<1> USE DEF LoginSide, RunGoesOn, Settled
<1>1. LoginTypes'
  BY DEF LoginTypes
<1>2. \A g \in Login \ {f} : LoginFits(g)'
  BY DEF LoginsFit, LoginFits, LoginTypes
<1>3. LoginFits(f)'
  BY DEF LoginsFit, LoginFits, LoginTypes
<1>4. current' # NoLogin => loginStep'[current'] # "none"
  BY DEF LoginsFit, LoginTypes
<1> QED
  BY <1>1, <1>2, <1>3, <1>4 DEF LoginsFit

\* The abort of a login keeps what the logins are up to; the steps are those of before,
\* and p is the page of before or shows a login that starts.
LEMMA AbortKeeps ==
  ASSUME LoginSide, NEW f \in Login, NEW p, AbortOf(f, p),
         loginStep' = loginStep, p = page, loginStep[f] # "none",
         current' \in Login \cup {NoLogin}, current' # NoLogin => loginStep[current'] # "none"
  PROVE  LoginSide'
<1> USE DEF LoginSide, AbortOf, Settled
<1>1. LoginTypes'
  BY DEF LoginTypes
<1>2. \A g \in Login \ {f} : LoginFits(g)'
  BY DEF LoginsFit, LoginFits, LoginTypes
<1>3. LoginFits(f)'
  BY DEF LoginsFit, LoginFits, LoginTypes
<1>4. current' # NoLogin => loginStep'[current'] # "none"
  OBVIOUS
<1> QED
  BY <1>1, <1>2, <1>3, <1>4 DEF LoginsFit

\* A login starts, and the current one is aborted.
LEMMA LoginStartsKeeps ==
  ASSUME VaultInv, NEW f \in Login, LoginStarts(f)
  PROVE  VaultInv'
<1>0. SecretSide /\ LoginSide
  BY DEF VaultInv
<1>1. CASE current = NoLogin
  <2>1. SecretSide'
    BY <1>0, <1>1, NothingIsStored DEF LoginStarts, SecretSide, SecretTypes
  <2>2. LoginTypes'
    BY <1>0, <1>1 DEF LoginSide, LoginTypes, LoginStarts
  <2>3. \A g \in Login \ {f} : LoginFits(g)'
    BY <1>0, <1>1 DEF LoginSide, LoginTypes, LoginStarts, LoginsFit, LoginFits, Settled
  <2>4. LoginFits(f)'
    BY <1>0, <1>1 DEF LoginSide, LoginTypes, LoginStarts, LoginsFit, LoginFits, Settled
  <2>5. current' # NoLogin => loginStep'[current'] # "none"
    BY <1>0 DEF LoginSide, LoginTypes, LoginStarts
  <2> QED
    BY <2>1, <2>2, <2>3, <2>4, <2>5 DEF VaultInv, LoginSide, LoginsFit
<1>2. CASE current # NoLogin
  <2>a. PICK c \in Login : c = current
    BY <1>0, <1>2 DEF LoginSide, LoginTypes
  <2>0. /\ AbortOf(c, [page EXCEPT ![f] = "starting"])
        /\ loginStep[c] # "none" /\ page[f] = "none" /\ f # c /\ current' = f
        /\ overtaken' \in BOOLEAN /\ (overtaken => overtaken')
    BY <1>0, <1>2, <2>a DEF LoginSide, LoginTypes, LoginsFit, LoginFits, LoginStarts, AbortOf,
       SecretSide, SecretTypes
  <2>1. SecretSide'
    BY <1>0, <2>0, NothingIsStored DEF LoginStarts
  <2>2. LoginTypes'
    BY <1>0, <2>0 DEF LoginSide, LoginTypes, LoginStarts, AbortOf, Settled
  <2>3. \A g \in Login \ {f, c} : LoginFits(g)'
    BY <1>0, <2>0 DEF LoginSide, LoginTypes, LoginStarts, AbortOf, LoginsFit, LoginFits, Settled
  <2>4. LoginFits(f)'
    BY <1>0, <2>0 DEF LoginSide, LoginTypes, LoginStarts, AbortOf, LoginsFit, LoginFits, Settled
  <2>5. LoginFits(c)'
    <3>1. page'[c] = (IF Settled(c) THEN page[c] ELSE "failed")
      BY <1>0, <2>0 DEF LoginSide, LoginTypes, AbortOf, Settled
    <3>2. /\ container'[c] = (container[c] /\ ~holds[c]) /\ holds'[c] = FALSE
          /\ loginStep'[c] = loginStep[c]
          /\ overtaken' = (overtaken \/ loginStep[c] = "reading")
      BY <1>0, <2>0 DEF LoginSide, LoginTypes, LoginStarts, AbortOf
    <3> QED
      BY <1>0, <2>0, <3>1, <3>2 DEF LoginSide, LoginsFit, LoginFits, Settled
  <2>6. current' # NoLogin => loginStep'[current'] # "none"
    BY <1>0, <2>0 DEF LoginSide, LoginTypes, LoginStarts
  <2> QED
    BY <2>1, <2>2, <2>3, <2>4, <2>5, <2>6 DEF VaultInv, LoginSide, LoginsFit
<1> QED
  BY <1>1, <1>2

\* A login is given up, by its user or by the time.
LEMMA LoginIsGivenUp ==
  ASSUME VaultInv, LoginIsCancelled \/ \E f \in Login : LoginTimesOut(f)
  PROVE  VaultInv'
<1>0. SecretSide /\ LoginSide
  BY DEF VaultInv
<1>1. CASE LoginIsCancelled
  <2>1. /\ current \in Login /\ loginStep[current] # "none" /\ AbortOf(current, page)
        /\ loginStep' = loginStep /\ current' = NoLogin
    BY <1>0, <1>1 DEF LoginIsCancelled, LoginSide, LoginTypes, LoginsFit
  <2>2. LoginSide'
    BY <1>0, <2>1, AbortKeeps
  <2>3. SecretSide'
    BY <1>0, <1>1, <2>1, NothingIsStored DEF LoginIsCancelled, AbortOf, SecretSide, SecretTypes
  <2> QED
    BY <2>2, <2>3 DEF VaultInv
<1>2. ASSUME NEW f \in Login, LoginTimesOut(f) PROVE VaultInv'
  <2>1. SecretSide'
    BY <1>0, <1>2, NothingIsStored DEF LoginTimesOut, SecretSide, SecretTypes
  <2>2. LoginTypes'
    BY <1>0, <1>2 DEF LoginTimesOut, LoginSide, LoginTypes
  <2>3. \A g \in Login : LoginFits(g)'
    BY <1>0, <1>2 DEF LoginTimesOut, LoginSide, LoginTypes, LoginsFit, LoginFits, Settled
  <2>4. current' # NoLogin => loginStep'[current'] # "none"
    BY <1>0, <1>2 DEF LoginTimesOut, LoginSide, LoginsFit
  <2> QED
    BY <2>1, <2>2, <2>3, <2>4 DEF VaultInv, LoginSide, LoginsFit
<1> QED
  BY <1>1, <1>2

\* The steps of a run that store nothing.
LEMMA RunKeeps ==
  ASSUME VaultInv, NEW f \in Login,
         \/ ContainerStarts(f) \/ CliStarts(f) \/ CliPrints(f) \/ UserEntersCode(f)
         \/ CliEnds(f) \/ DeviceCodeAnswers(f) \/ PollAnswers(f)
  PROVE  VaultInv'
<1>0. SecretSide /\ LoginSide
  BY DEF VaultInv
<1>1. StoresNothing /\ loginStep[f] # "none"
  BY DEF ContainerStarts, CliStarts, CliPrints, UserEntersCode, CliEnds, DeviceCodeAnswers,
     PollAnswers
<1>2. SecretSide'
  BY <1>0, <1>1, NothingIsStored DEF StoresNothing, SecretSide, SecretTypes
<1>3. ASSUME NEW shows, RunEnds(f, shows), shows \in {"done", "failed"} \/ Settled(f)
      PROVE  LoginSide'
  BY <1>0, <1>1, <1>3, RunEndsKeeps DEF StoresNothing
<1>4. ASSUME ContainerStarts(f) /\ ~RunEnds(f, "failed") PROVE LoginSide'
  <2>1. LoginTypes'
    BY <1>0, <1>1, <1>4 DEF ContainerStarts, StoresNothing, LoginSide, LoginTypes
  <2>2. \A g \in Login \ {f} : LoginFits(g)'
    BY <1>0, <1>1, <1>4 DEF ContainerStarts, StoresNothing, LoginSide, LoginTypes, LoginsFit, LoginFits,
       Settled
  <2>3. LoginFits(f)'
    BY <1>0, <1>1, <1>4 DEF ContainerStarts, StoresNothing, LoginSide, LoginTypes, LoginsFit, LoginFits,
       Settled
  <2>4. current' # NoLogin => loginStep'[current'] # "none"
    BY <1>0, <1>1, <1>4 DEF ContainerStarts, StoresNothing, LoginSide, LoginTypes, LoginsFit
  <2> QED
    BY <2>1, <2>2, <2>3, <2>4 DEF LoginSide, LoginsFit
<1>5. ASSUME UserEntersCode(f) PROVE LoginSide'
  <2>1. LoginTypes'
    BY <1>0, <1>1, <1>5 DEF UserEntersCode, StoresNothing, LoginSide, LoginTypes
  <2>2. \A g \in Login : LoginFits(g)'
    BY <1>0, <1>1, <1>5 DEF UserEntersCode, StoresNothing, LoginSide, LoginTypes, LoginsFit, LoginFits,
       Settled
  <2>3. current' # NoLogin => loginStep'[current'] # "none"
    BY <1>0, <1>1, <1>5 DEF UserEntersCode, StoresNothing, LoginSide, LoginsFit
  <2> QED
    BY <2>1, <2>2, <2>3 DEF LoginSide, LoginsFit
<1>6. ASSUME NEW next, NEW shows, RunGoesOn(f, next, shows),
             next \in {"cli", "grace", "reading", "polling", "lookup"},
             shows \in {"starting", "browser", "code", "refused"} \/ shows = page[f],
             next = "reading" => ~Settled(f) /\ shows = page[f],
             next \in {"polling", "lookup"} => loginStep[f] \in {"asking", "polling"}
      PROVE  LoginSide'
  BY <1>0, <1>1, <1>6, RunGoesOnKeeps DEF StoresNothing
<1>7. ASSUME ContainerStarts(f) /\ RunEnds(f, "failed") PROVE LoginSide'
  BY <1>3, <1>7
<1>8. ASSUME CliStarts(f) PROVE LoginSide'
  BY <1>3, <1>6, <1>8 DEF CliStarts
<1>9. ASSUME CliPrints(f) PROVE LoginSide'
  BY <1>6, <1>9 DEF CliPrints
<1>10. ASSUME CliEnds(f) PROVE LoginSide'
  BY <1>3, <1>6, <1>10 DEF CliEnds
<1>11. ASSUME DeviceCodeAnswers(f) PROVE LoginSide'
  BY <1>3, <1>6, <1>11 DEF DeviceCodeAnswers
<1>12. ASSUME PollAnswers(f) PROVE LoginSide'
  BY <1>3, <1>6, <1>12 DEF PollAnswers
<1>13. LoginSide'
  BY <1>4, <1>5, <1>7, <1>8, <1>9, <1>10, <1>11, <1>12
<1> QED
  BY <1>2, <1>13 DEF VaultInv

(***************************************************************************)
(* What is stored.                                                         *)
(***************************************************************************)

\* A decision of the user keeps the secrets: what was under way when he decided has
\* overtaken him.
LEMMA DecideKeeps ==
  ASSUME SecretSide, NEW new \in Secret \cup {NoRow}, Decide(new),
         UNCHANGED <<kind, answerLost, refreshVars>>,
         new # NoRow => /\ new.made = decision + 1
                        /\ new.token # 0 => new.token = issued + 1 /\ new.token \in accepted',
         issued' \in {issued, issued + 1} /\ issued' <= MaxTokens,
         new # NoRow => new.token <= issued',
         accepted' \subseteq accepted \cup (1..issued'),
         accepted \subseteq accepted'
  PROVE  SecretSide'
<1> USE DEF SecretSide, refreshVars
<1>a. ASSUME NEW t \in Tick, phase[t] # "idle" PROVE overtaken'
  <2>1. UnderWay
    BY <1>a DEF UnderWay
  <2>2. overtaken' = UnderWay
    BY DEF Decide
  <2> QED
    BY <2>1, <2>2
<1>0. /\ MaxDecisions \in Nat /\ MaxTokens \in Nat
      /\ decision' = decision + 1 /\ secretRow' = new /\ decision < MaxDecisions
      /\ issued \in Nat /\ decision \in Nat
      /\ \A t \in Tick : phase[t] # "idle" => overtaken'
  BY <1>a, VaultBounds DEF Decide, SecretTypes
<1>1. SecretTypes'
  <2>1. overtaken' \in BOOLEAN
    BY DEF Decide, UnderWay
  <2>2. accepted' \subseteq 1..MaxTokens /\ issued' \in 0..MaxTokens
    BY <1>0 DEF SecretTypes
  <2>3. decision' \in 0..MaxDecisions
    BY <1>0
  <2> QED
    BY <1>0, <2>1, <2>2, <2>3 DEF SecretTypes
<1>2. OneTick'
  BY DEF OneTick
<1>3. ListedIsWanted'
  BY <1>0 DEF ListedIsWanted
<1>4. SecretIsWanted'
  BY <1>0 DEF SecretIsWanted
<1>5. TokensAreIssued'
  <2>1. \A k \in accepted' : k <= issued'
    BY <1>0 DEF TokensAreIssued, SecretTypes
  <2>2. \A t \in Tick : listed'[t] # NoRow => listed'[t].token <= issued'
    BY <1>0 DEF TokensAreIssued, SecretTypes, Secret
  <2> QED
    BY <1>0, <2>1, <2>2 DEF TokensAreIssued
<1>6. OffersAreGood'
  <2> SUFFICES ASSUME NEW t \in Tick, phase[t] = "posted"
               PROVE  /\ listed[t] # NoRow /\ listed[t].token # 0
                      /\ offer[t] # 0 => offer[t] \in accepted'
                      /\ secretRow' # NoRow => secretRow'.token # listed[t].token
    BY DEF OffersAreGood
  <2>1. listed[t] # NoRow /\ listed[t].token # 0 /\ listed[t].token <= issued
        /\ listed[t].token \in Nat /\ (offer[t] # 0 => offer[t] \in accepted)
    BY DEF OffersAreGood, TokensAreIssued, SecretTypes, Secret
  <2> QED
    BY <1>0, <2>1
<1>7. StoredTokenIsAccepted'
  BY <1>0 DEF StoredTokenIsAccepted
<1> QED
  BY <1>1, <1>2, <1>3, <1>4, <1>5, <1>6, <1>7

\* The user pastes or removes a credential.
LEMMA UserKeeps ==
  ASSUME VaultInv, UserPastes \/ UserRemoves
  PROVE  VaultInv'
<1>0. SecretSide /\ LoginSide
  BY DEF VaultInv
<1>1. UNCHANGED <<kind, endpointVars, refreshVars, loginVars>>
  BY DEF UserPastes, UserRemoves
<1>2. LoginSide'
  <2>1. \A f \in Login : loginStep[f] = "reading" => overtaken'
    BY DEF UserPastes, UserRemoves, Decide, UnderWay
  <2>2. \A f \in Login : LoginFits(f)'
    BY <1>0, <1>1, <2>1 DEF LoginSide, LoginsFit, LoginFits, Settled, loginVars
  <2> QED
    BY <1>0, <1>1, <2>2 DEF LoginSide, LoginTypes, LoginsFit, loginVars
<1>3. SecretSide'
  <2>0. issued' = issued /\ accepted' = accepted /\ issued <= MaxTokens
        /\ issued \in Nat /\ decision \in Nat
    BY <1>0, <1>1, VaultBounds DEF endpointVars, SecretSide, SecretTypes
  <2>1. CASE UserPastes
    <3> DEFINE new == [method |-> "token", token |-> 0, made |-> decision + 1, status |-> "ok"]
    <3>1. Decide(new)
      BY <2>1 DEF UserPastes
    <3>2. new \in Secret
      BY <2>0, <3>1, VaultBounds DEF Secret, Decide
    <3> HIDE DEF new
    <3>3. new.made = decision + 1 /\ new.token = 0
      BY DEF new
    <3> QED
      BY <1>0, <1>1, <2>0, <3>1, <3>2, <3>3, DecideKeeps DEF endpointVars
  <2>2. CASE UserRemoves
    BY <1>0, <1>1, <2>0, <2>2, DecideKeeps DEF UserRemoves, endpointVars
  <2> QED
    BY <2>1, <2>2
<1> QED
  BY <1>2, <1>3 DEF VaultInv

\* A login stores its secret: one that the user saw through is a decision, one that was
\* given up has overtaken him.
LEMMA StoreLoginKeeps ==
  ASSUME SecretSide, NEW f \in Login, StoreLogin(f), Settled(f) => overtaken
  PROVE  SecretSide'
<1>0. /\ MaxDecisions \in Nat /\ MaxTokens \in Nat /\ issued \in Nat /\ issued <= MaxTokens
      /\ decision \in Nat /\ decision <= MaxDecisions
      /\ UNCHANGED <<kind, answerLost, refreshVars, current>>
  BY VaultBounds DEF SecretSide, SecretTypes, StoreLogin
<1> DEFINE method == IF kind = "claude" THEN "token" ELSE "oauth"
           new(t, made) == [method |-> method, token |-> t, made |-> made, status |-> "ok"]
<1>1. PICK t \in {0, issued + 1} :
        /\ t <= MaxTokens
        /\ issued' = (IF t = 0 THEN issued ELSE t)
        /\ accepted' = accepted \cup ({t} \ {0})
        /\ IF Settled(f) THEN secretRow' = new(t, 0) /\ UNCHANGED <<decision, overtaken>>
                         ELSE Decide(new(t, decision + 1))
  BY <1>0 DEF StoreLogin
<1>2. /\ \A made \in 0..MaxDecisions : new(t, made) \in Secret
      /\ \A made : new(t, made).token = t /\ new(t, made).made = made
  BY <1>0, <1>1 DEF Secret
<1> HIDE DEF new
<1>3. /\ issued' \in {issued, issued + 1} /\ issued' <= MaxTokens /\ t <= issued'
      /\ t # 0 => t = issued + 1 /\ t \in accepted'
      /\ accepted' \subseteq accepted \cup (1..issued') /\ accepted \subseteq accepted'
  BY <1>0, <1>1
<1>4. CASE ~Settled(f)
  <2>1. Decide(new(t, decision + 1)) /\ decision + 1 \in 0..MaxDecisions
    BY <1>0, <1>1, <1>4 DEF Decide
  <2>2. new(t, decision + 1) \in Secret
    BY <1>2, <2>1
  <2> QED
    BY <1>0, <1>2, <1>3, <2>1, <2>2, DecideKeeps
<1>5. CASE Settled(f)
  <2> USE DEF SecretSide, refreshVars
  <2>0. /\ secretRow' = new(t, 0) /\ secretRow'.token = t /\ secretRow' \in Secret
        /\ overtaken /\ overtaken' = overtaken /\ decision' = decision
    BY <1>0, <1>1, <1>2, <1>5
  <2>1. SecretTypes'
    BY <1>0, <1>3, <2>0 DEF SecretTypes
  <2>2. OneTick' /\ ListedIsWanted' /\ SecretIsWanted'
    BY <1>0, <2>0 DEF OneTick, ListedIsWanted, SecretIsWanted
  <2>3. TokensAreIssued'
    <3>1. \A k \in accepted' : k <= issued'
      BY <1>0, <1>3 DEF TokensAreIssued, SecretTypes
    <3>2. \A u \in Tick : listed'[u] # NoRow => listed'[u].token <= issued'
      BY <1>0, <1>3 DEF TokensAreIssued, SecretTypes, Secret
    <3> QED
      BY <1>3, <2>0, <3>1, <3>2 DEF TokensAreIssued
  <2>4. OffersAreGood'
    <3> SUFFICES ASSUME NEW u \in Tick, phase[u] = "posted"
                 PROVE  /\ listed[u] # NoRow /\ listed[u].token # 0
                        /\ offer[u] # 0 => offer[u] \in accepted'
                        /\ t # listed[u].token
      BY <1>0, <2>0 DEF OffersAreGood
    <3>1. listed[u] # NoRow /\ listed[u].token # 0 /\ listed[u].token <= issued
          /\ listed[u].token \in Nat /\ (offer[u] # 0 => offer[u] \in accepted)
      BY DEF OffersAreGood, TokensAreIssued, SecretTypes, Secret
    <3> QED
      BY <1>0, <1>3, <3>1
  <2>5. StoredTokenIsAccepted'
    BY <1>3, <2>0 DEF StoredTokenIsAccepted
  <2> QED
    BY <2>1, <2>2, <2>3, <2>4, <2>5
<1> QED
  BY <1>4, <1>5

\* The steps of a run that can store its secret.
LEMMA RunStoresKeeps ==
  ASSUME VaultInv, NEW f \in Login, TokenIsComplete(f) \/ DocumentIsRead(f) \/ LookupAnswers(f)
  PROVE  VaultInv'
<1>0. SecretSide /\ LoginSide
  BY DEF VaultInv
<1>1. /\ loginStep[f] # "none"
      /\ \E shows \in {"done", "failed"} : RunEnds(f, shows)
      /\ \/ StoresNothing
         \/ StoreLogin(f) /\ (loginStep[f] = "reading" \/ ~Settled(f))
  BY DEF TokenIsComplete, DocumentIsRead, LookupAnswers
<1>2. CASE StoresNothing
  <2>1. SecretSide'
    BY <1>0, <1>2, NothingIsStored DEF StoresNothing, SecretSide, SecretTypes
  <2>2. LoginSide'
    BY <1>0, <1>1, <1>2, RunEndsKeeps DEF StoresNothing
  <2> QED
    BY <2>1, <2>2 DEF VaultInv
<1>3. CASE StoreLogin(f) /\ (loginStep[f] = "reading" \/ ~Settled(f))
  <2>1. Settled(f) => overtaken
    BY <1>0, <1>3 DEF LoginSide, LoginsFit, LoginFits
  <2>2. SecretSide'
    BY <1>0, <1>3, <2>1, StoreLoginKeeps
  <2>3. \A g \in Login : loginStep[g] = "reading" /\ overtaken => overtaken'
    BY <1>3 DEF StoreLogin, Decide, UnderWay
  <2>4. UNCHANGED current
    BY <1>3 DEF StoreLogin
  <2>5. LoginSide'
    BY <1>0, <1>1, <2>3, <2>4, RunEndsKeeps
  <2> QED
    BY <2>2, <2>5 DEF VaultInv
<1> QED
  BY <1>1, <1>2, <1>3

(***************************************************************************)
(* The refresh of the credential.                                          *)
(***************************************************************************)

\* Nothing of the logins changes.
LEMMA LoginsStay ==
  ASSUME LoginSide, UNCHANGED <<loginVars, overtaken>>
  PROVE  LoginSide'
<1>1. \A f \in Login : LoginFits(f)'
  BY DEF LoginSide, LoginsFit, LoginFits, Settled, loginVars
<1> QED
  BY <1>1 DEF LoginSide, LoginTypes, LoginsFit, loginVars

\* A tick begins and reads the row.
LEMMA TickListsKeeps ==
  ASSUME SecretSide, NEW t \in Tick, TickLists(t)
  PROVE  SecretSide'
<1> USE DEF SecretSide, TickLists, endpointVars, loginVars
<1>1. SecretTypes'
  BY DEF SecretTypes
<1>2. OneTick'
  BY DEF OneTick, SecretTypes
<1>3. ListedIsWanted' /\ SecretIsWanted'
  BY DEF ListedIsWanted, SecretIsWanted, SecretTypes
<1>4. TokensAreIssued'
  BY DEF TokensAreIssued, SecretTypes
<1>5. \A u \in Tick : phase'[u] # "posted" /\ phase[u] # "posted"
  BY DEF SecretTypes
<1>6. OffersAreGood' /\ StoredTokenIsAccepted'
  BY <1>5 DEF OffersAreGood, StoredTokenIsAccepted
<1> QED
  BY <1>1, <1>2, <1>3, <1>4, <1>6

\* A mark of the row keeps its secret.
LEMMA MarkKeeps ==
  ASSUME SecretSide, NEW s \in {"ok", "failing", "expired"}, MarkStatus(s)
  PROVE  /\ secretRow' \in Secret \cup {NoRow}
         /\ secretRow' # NoRow => /\ secretRow # NoRow
                                  /\ secretRow'.token = secretRow.token
                                  /\ secretRow'.made = secretRow.made
<1>1. CASE secretRow = NoRow
  BY <1>1 DEF MarkStatus
<1>2. CASE secretRow # NoRow
  BY <1>2 DEF MarkStatus, SecretSide, SecretTypes, Secret
<1> QED
  BY <1>1, <1>2

\* A tick that has nothing to refresh.
LEMMA TickSkipsKeeps ==
  ASSUME SecretSide, NEW t \in Tick, TickSkips(t)
  PROVE  SecretSide'
<1> USE DEF SecretSide, TickSkips, endpointVars, loginVars
<1>1. /\ secretRow' \in Secret \cup {NoRow}
      /\ secretRow' # NoRow => /\ secretRow # NoRow
                               /\ secretRow'.token = secretRow.token
                               /\ secretRow'.made = secretRow.made
  <2>1. CASE UNCHANGED secretRow
    BY <2>1 DEF SecretTypes
  <2>2. CASE MarkStatus("expired") \/ MarkStatus("failing")
    BY <2>2, MarkKeeps
  <2> QED
    BY <2>1, <2>2
<1>2. SecretTypes'
  BY <1>1 DEF SecretTypes
<1>3. /\ \A u \in Tick \ {t} : phase'[u] = phase[u] /\ listed'[u] = listed[u]
      /\ phase'[t] = "idle" /\ listed'[t] = NoRow /\ offer' = offer
      /\ \A u \in Tick : phase[u] = "posted" => phase'[u] = "posted" /\ listed'[u] = listed[u]
  BY DEF SecretTypes
<1>4. OneTick'
  BY <1>3 DEF OneTick
<1>5. ListedIsWanted' /\ SecretIsWanted'
  BY <1>1, <1>3 DEF ListedIsWanted, SecretIsWanted
<1>6. TokensAreIssued'
  BY <1>1, <1>3 DEF TokensAreIssued
<1>7. OffersAreGood'
  BY <1>1, <1>3 DEF OffersAreGood
<1>8. StoredTokenIsAccepted'
  BY <1>1, <1>3 DEF StoredTokenIsAccepted
<1> QED
  BY <1>2, <1>4, <1>5, <1>6, <1>7, <1>8

\* The token of the row that was read goes to the endpoint.
LEMMA RefreshPostsKeeps ==
  ASSUME SecretSide, NEW t \in Tick, RefreshPosts(t)
  PROVE  SecretSide'
<1> USE DEF SecretSide, RefreshPosts, loginVars
<1>0. /\ phase[t] = "listed" /\ listed[t] # NoRow /\ listed[t].token # 0 /\ listed[t] \in Secret
      /\ listed[t].token \in Nat /\ listed[t].token <= issued
      /\ issued \in Nat /\ MaxTokens \in Nat /\ issued <= MaxTokens
      /\ UNCHANGED <<kind, secretRow, decision, overtaken, answerLost, listed>>
      /\ \A u \in Tick \ {t} : phase[u] = "idle"
      /\ \A u \in Tick \ {t} : phase'[u] = "idle" /\ offer'[u] = offer[u]
      /\ phase'[t] = "posted"
  BY VaultBounds DEF SecretTypes, Secret, OneTick, TokensAreIssued
<1>1. \/ /\ listed[t].token \in accepted /\ issued < MaxTokens /\ issued' = issued + 1
         /\ accepted' = (accepted \ {listed[t].token}) \cup {issued + 1}
         /\ offer' = [offer EXCEPT ![t] = issued + 1]
      \/ /\ listed[t].token \in accepted /\ UNCHANGED <<accepted, issued>>
         /\ offer' = [offer EXCEPT ![t] = listed[t].token]
      \/ /\ listed[t].token \notin accepted /\ UNCHANGED <<accepted, issued>>
         /\ offer' = [offer EXCEPT ![t] = 0]
  OBVIOUS
<1>2. SecretTypes'
  <2>0. /\ issued' \in 0..MaxTokens
        /\ \/ accepted' = accepted
           \/ issued' \in 1..MaxTokens /\ accepted' \subseteq accepted \cup {issued'}
    BY <1>0, <1>1
  <2>1. accepted' \subseteq 1..MaxTokens /\ issued' \in 0..MaxTokens
    BY <2>0 DEF SecretTypes
  <2>2. offer' \in [Tick -> 0..MaxTokens]
    BY <1>0, <1>1 DEF SecretTypes
  <2>3. phase' \in [Tick -> {"idle", "listed", "posted"}]
    BY DEF SecretTypes
  <2> QED
    BY <1>0, <2>1, <2>2, <2>3 DEF SecretTypes
<1>3. OneTick'
  BY <1>0 DEF OneTick
<1>4. ListedIsWanted' /\ SecretIsWanted'
  BY <1>0 DEF ListedIsWanted, SecretIsWanted
<1>5. TokensAreIssued'
  <2>0. accepted \subseteq Nat /\ \A k \in accepted : k <= issued
    BY DEF TokensAreIssued, SecretTypes
  <2>2. issued <= issued' /\ issued' \in Nat
    BY <1>0, <1>1
  <2>a. accepted' \subseteq accepted \cup {issued'}
    BY <1>1
  <2>1. \A k \in accepted' : k <= issued'
    BY <1>0, <2>0, <2>2, <2>a
  <2>3. secretRow # NoRow => secretRow.token \in Nat
    BY DEF SecretTypes, Secret
  <2>4. \A u \in Tick : listed[u] # NoRow => listed[u].token \in Nat
    BY DEF SecretTypes, Secret
  <2> QED
    BY <1>0, <2>1, <2>2, <2>3, <2>4 DEF TokensAreIssued
<1>6. ~answerLost /\ secretRow # NoRow /\ secretRow.token # 0 => secretRow.token \in accepted
  BY <1>0 DEF StoredTokenIsAccepted
<1>7. offer'[t] # 0 => offer'[t] \in accepted'
  BY <1>0, <1>1 DEF SecretTypes
<1>8. offer'[t] = 0 => listed[t].token \notin accepted
  BY <1>0, <1>1 DEF SecretTypes
<1>9. OffersAreGood'
  BY <1>0, <1>6, <1>7, <1>8 DEF OffersAreGood
<1>10. StoredTokenIsAccepted'
  <2>1. \A k \in accepted : k # listed[t].token => k \in accepted'
    BY <1>1
  <2> QED
    BY <1>0, <1>6, <2>1 DEF StoredTokenIsAccepted
<1> QED
  BY <1>2, <1>3, <1>4, <1>5, <1>9, <1>10

\* The answer of the endpoint arrives, or is lost.
LEMMA RefreshAnswersKeeps ==
  ASSUME SecretSide, NEW t \in Tick, RefreshAnswers(t)
  PROVE  SecretSide'
<1> USE DEF SecretSide, RefreshAnswers, loginVars
<1>0. /\ phase[t] = "posted" /\ listed[t] # NoRow /\ listed[t].token # 0 /\ listed[t] \in Secret
      /\ UNCHANGED <<kind, decision, overtaken, accepted, issued>>
      /\ \A u \in Tick \ {t} : phase[u] = "idle"
      /\ \A u \in Tick : phase'[u] = "idle"
      /\ \A u \in Tick : listed'[u] # NoRow => listed'[u] = listed[u]
      /\ offer[t] # 0 => offer[t] \in accepted
      /\ offer[t] \in 0..MaxTokens /\ answerLost' \in BOOLEAN /\ (answerLost => answerLost')
  BY DEF SecretTypes, OneTick, OffersAreGood
<1>1. /\ phase' \in [Tick -> {"idle", "listed", "posted"}]
      /\ listed' \in [Tick -> Secret \cup {NoRow}]
      /\ offer' \in [Tick -> 0..MaxTokens]
  BY VaultBounds DEF SecretTypes
<1>2. OneTick' /\ ListedIsWanted' /\ OffersAreGood'
  BY <1>0 DEF OneTick, ListedIsWanted, OffersAreGood
<1>3. CASE offer[t] # 0 /\ secretRow' = [listed[t] EXCEPT !.token = offer[t], !.status = "ok"]
  <2>1. /\ secretRow' \in Secret /\ secretRow'.token = offer[t] /\ secretRow'.made = listed[t].made
    BY <1>0, <1>3 DEF Secret
  <2>2. SecretTypes'
    BY <1>0, <1>1, <2>1 DEF SecretTypes
  <2>3. SecretIsWanted'
    BY <1>0, <2>1 DEF SecretIsWanted, ListedIsWanted
  <2>4. TokensAreIssued'
    BY <1>0, <1>3, <2>1 DEF TokensAreIssued
  <2>5. StoredTokenIsAccepted'
    BY <1>0, <1>3, <2>1 DEF StoredTokenIsAccepted
  <2> QED
    BY <1>2, <2>2, <2>3, <2>4, <2>5
<1>4. CASE /\ MarkStatus("failing")
           /\ answerLost' = (answerLost \/ offer[t] \notin {0, listed[t].token})
  <2>1. /\ secretRow' \in Secret \cup {NoRow}
        /\ secretRow' # NoRow => /\ secretRow # NoRow
                                 /\ secretRow'.token = secretRow.token
                                 /\ secretRow'.made = secretRow.made
    BY <1>4, MarkKeeps
  <2>2. SecretTypes'
    BY <1>0, <1>1, <2>1 DEF SecretTypes
  <2>3. SecretIsWanted'
    BY <1>0, <2>1 DEF SecretIsWanted
  <2>4. TokensAreIssued'
    BY <1>0, <2>1 DEF TokensAreIssued
  <2>5. StoredTokenIsAccepted'
    <3> SUFFICES ASSUME secretRow # NoRow, secretRow.token # 0, ~answerLost,
                        offer[t] \in {0, listed[t].token}
                 PROVE  secretRow.token \in accepted
      BY <1>0, <1>4, <2>1 DEF StoredTokenIsAccepted
    <3>1. CASE secretRow.token = listed[t].token
      BY <1>0, <3>1 DEF OffersAreGood
    <3>2. CASE secretRow.token # listed[t].token
      BY <1>0, <3>2 DEF StoredTokenIsAccepted
    <3> QED
      BY <3>1, <3>2
  <2> QED
    BY <1>2, <2>2, <2>3, <2>4, <2>5
<1> QED
  BY <1>3, <1>4

\* Every step of the vault keeps the invariant.
LEMMA VaultStep ==
  ASSUME VaultInv, [VaultNext]_vaultVars
  PROVE  VaultInv'
<1>0. SecretSide /\ LoginSide
  BY DEF VaultInv
<1>1. CASE UserPastes \/ UserRemoves
  BY <1>1, UserKeeps
<1>2. CASE LoginIsCancelled \/ \E f \in Login : LoginTimesOut(f)
  BY <1>2, LoginIsGivenUp
<1>3. ASSUME NEW t \in Tick, TickLists(t) \/ TickSkips(t) \/ RefreshPosts(t) \/ RefreshAnswers(t)
      PROVE  VaultInv'
  <2>1. SecretSide'
    BY <1>0, <1>3, TickListsKeeps, TickSkipsKeeps, RefreshPostsKeeps, RefreshAnswersKeeps
  <2>2. LoginSide'
    BY <1>0, <1>3, LoginsStay DEF TickLists, TickSkips, RefreshPosts, RefreshAnswers
  <2> QED
    BY <2>1, <2>2 DEF VaultInv
<1>4. ASSUME NEW f \in Login, LoginStarts(f) PROVE VaultInv'
  BY <1>4, LoginStartsKeeps
<1>5. ASSUME NEW f \in Login,
             \/ ContainerStarts(f) \/ CliStarts(f) \/ CliPrints(f) \/ UserEntersCode(f)
             \/ CliEnds(f) \/ DeviceCodeAnswers(f) \/ PollAnswers(f)
      PROVE  VaultInv'
  BY <1>5, RunKeeps
<1>6. ASSUME NEW f \in Login, TokenIsComplete(f) \/ DocumentIsRead(f) \/ LookupAnswers(f)
      PROVE  VaultInv'
  BY <1>6, RunStoresKeeps
<1>7. CASE UNCHANGED vaultVars
  <2>1. SecretSide'
    BY <1>0, <1>7, NothingIsStored DEF vaultVars, SecretSide, SecretTypes
  <2>2. LoginSide'
    BY <1>0, <1>7, LoginsStay DEF vaultVars
  <2> QED
    BY <2>1, <2>2 DEF VaultInv
<1> QED
  BY <1>1, <1>2, <1>3, <1>4, <1>5, <1>6, <1>7 DEF VaultNext

\* The secret that the proxy sends is the one that the user decided on last, its refresh
\* token is one that the endpoint accepts, and a login that is over leaves no container,
\* in whatever order pastes, logins and ticks come (credentials.ts, reaper.ts, login.ts).
THEOREM SecretsAreAlwaysRight == VaultSpec => []SecretsAreRight
<1>1. VaultInit => VaultInv
  <2> SUFFICES ASSUME VaultInit PROVE VaultInv
    OBVIOUS
  <2>0. 0 \in 0..MaxTokens /\ 0 \in 0..MaxDecisions
    BY VaultBounds
  <2>1. SecretTypes
    BY <2>0 DEF VaultInit, SecretTypes
  <2>2. OneTick /\ ListedIsWanted /\ SecretIsWanted /\ TokensAreIssued
    BY DEF VaultInit, OneTick, ListedIsWanted, SecretIsWanted, TokensAreIssued
  <2>3. OffersAreGood /\ StoredTokenIsAccepted
    BY DEF VaultInit, OffersAreGood, StoredTokenIsAccepted
  <2>4. LoginTypes
    BY DEF VaultInit, LoginTypes
  <2>5. LoginsFit
    BY DEF VaultInit, LoginsFit, LoginFits, Settled
  <2> QED
    BY <2>1, <2>2, <2>3, <2>4, <2>5 DEF VaultInv, SecretSide, LoginSide
<1>2. VaultInv => SecretsAreRight
  BY DEF VaultInv, SecretSide, LoginSide, SecretTypes, LoginTypes, SecretsAreRight, VaultTypeOK,
     EndedRunLeavesNothing, LoginsFit, LoginFits
<1> QED
  BY <1>1, <1>2, VaultStep, PTL DEF VaultSpec

(***************************************************************************)
(* The refresh of an MCP connection.                                       *)
(***************************************************************************)

\* The values of the row; NoMcpRow is not among them that a step writes.
LEMMA NewRowFits ==
  ASSUME NEW doc \in Document, McpTypeOK, PutToken(doc)
  PROVE  /\ mcpRow' \in McpRow \cup {NoMcpRow}
         /\ mcpRow = NoMcpRow => mcpRow' = NoMcpRow
         /\ mcpRow # NoMcpRow => mcpRow'.doc = doc
  BY DEF PutToken, McpRow, McpTypeOK

\* A step that leaves the refreshes and the server alone, and puts a token in the row
\* that was there before, or none.
LEMMA RowKeepsToken ==
  ASSUME McpInv, McpTypeOK', UNCHANGED <<refresh, valid, granted, tokenLost>>,
         spoilt => spoilt',
         \/ spoilt'
         \/ mcpRow' # NoMcpRow =>
              \/ mcpRow'.doc.token = 0
              \/ mcpRow # NoMcpRow /\ mcpRow'.doc.token = mcpRow.doc.token
  PROVE  McpInv'
<1>1. OneRefresh' /\ OffersAreValid'
  BY DEF McpInv, OneRefresh, OffersAreValid
<1>2. RotatedTokenIsKept'
  BY DEF McpInv, RotatedTokenIsKept
<1> QED
  BY <1>1, <1>2 DEF McpInv

\* The server is saved and deleted, the token ages and is refused, and a login waits for
\* its user: no token moves.
LEMMA RowStepsKeep ==
  ASSUME McpInv,
         \/ ServerIsSaved \/ ServerIsDeleted \/ LoginIsPruned \/ CallbackBegins
         \/ TokenIsRefused \/ TokenAges
         \/ \E c \in Call : ConnectBegins(c) \/ ConnectFails(c)
  PROVE  McpInv'
<1> USE DEF serverVars
<1>0. McpTypeOK /\ MaxConnects \in Nat /\ MaxGrants \in Nat
  BY McpBounds DEF McpInv, RotatedTokenIsKept
<1>1. CASE ServerIsSaved
  <2>1. mcpRow' \in McpRow /\ mcpRow'.doc.token = 0
    BY <1>0, <1>1 DEF ServerIsSaved, McpRow, Document, Blank
  <2> QED
    BY <1>0, <1>1, <2>1, RowKeepsToken DEF ServerIsSaved, McpTypeOK
<1>2. CASE ServerIsDeleted
  <2>1. McpTypeOK'
    BY <1>0, <1>2 DEF ServerIsDeleted, McpTypeOK
  <2> QED
    BY <1>2, <2>1, RowKeepsToken DEF ServerIsDeleted
<1>3. CASE LoginIsPruned \/ CallbackBegins
  <2>1. McpTypeOK' /\ UNCHANGED <<mcpRow, refresh, valid, granted, tokenLost, spoilt>>
    BY <1>0, <1>3 DEF LoginIsPruned, CallbackBegins, McpTypeOK
  <2> QED
    BY <2>1, RowKeepsToken
<1>4. CASE TokenIsRefused \/ TokenAges
  <2>1. /\ mcpRow' \in McpRow /\ mcpRow # NoMcpRow /\ mcpRow'.doc = mcpRow.doc
        /\ UNCHANGED <<valid, granted, tokenLost, connect, pendingLogins, exchange, refresh, spoilt, connects>>
    BY <1>0, <1>4 DEF TokenIsRefused, TokenAges, McpTypeOK, McpRow
  <2>2. McpTypeOK'
    BY <1>0, <2>1 DEF McpTypeOK
  <2> QED
    BY <2>1, <2>2, RowKeepsToken
<1>5. ASSUME NEW c \in Call, ConnectBegins(c) \/ ConnectFails(c) PROVE McpInv'
  <2>1. Blank \in Document /\ (mcpRow # NoMcpRow => mcpRow.doc \in Document)
    BY <1>0 DEF Document, Blank, McpTypeOK, McpRow
  <2>2. connect' \in [Call -> [step : {"idle", "discovers"}, doc : Document, offer : {0}]]
    <3>1. CASE ConnectBegins(c)
      BY <1>0, <2>1, <3>1 DEF ConnectBegins, McpTypeOK
    <3>2. CASE ConnectFails(c)
      BY <1>0, <2>1, <3>2 DEF ConnectFails, McpTypeOK, Idle
    <3> QED
      BY <1>5, <3>1, <3>2
  <2>3. connects' \in 0..MaxConnects
        /\ UNCHANGED <<mcpRow, valid, granted, tokenLost, pendingLogins, exchange, refresh, spoilt>>
    BY <1>0, <1>5 DEF ConnectBegins, ConnectFails, McpTypeOK
  <2>4. McpTypeOK'
    BY <1>0, <2>2, <2>3 DEF McpTypeOK
  <2> QED
    BY <2>3, <2>4, RowKeepsToken
<1> QED
  BY <1>1, <1>2, <1>3, <1>4, <1>5

\* A connect writes the document that it has read, with another client.
LEMMA ConnectAnswersKeeps ==
  ASSUME McpInv, NEW c \in Call, ConnectAnswers(c)
  PROVE  McpInv'
<1>0. McpTypeOK /\ MaxConnects \in Nat /\ MaxGrants \in Nat
  BY McpBounds DEF McpInv, RotatedTokenIsKept
<1>1. /\ connect[c].doc \in Document /\ Blank \in Document
      /\ UNCHANGED <<valid, granted, tokenLost, exchange, refresh, connects>>
  BY <1>0 DEF McpTypeOK, ConnectAnswers, serverVars, Document, Blank
<1>2. PICK client \in {connect[c].doc.client, connects} \ {0} :
        /\ PutOAuth([connect[c].doc EXCEPT !.client = client], connect[c].doc)
        /\ pendingLogins' = pendingLogins \cup {client}
  BY DEF ConnectAnswers
<1>3. client \in 1..MaxConnects
  BY <1>0, <1>1, <1>2 DEF McpTypeOK, Document
<1> DEFINE doc == [connect[c].doc EXCEPT !.client = client]
<1>4. doc \in Document /\ doc.token = connect[c].doc.token
  BY <1>1, <1>3 DEF Document
<1> HIDE DEF doc
<1>5. /\ mcpRow' = (IF mcpRow = NoMcpRow THEN NoMcpRow ELSE [mcpRow EXCEPT !.doc = doc])
      /\ spoilt' = (spoilt \/ (mcpRow # NoMcpRow /\ mcpRow.doc.token # connect[c].doc.token))
  BY <1>2 DEF PutOAuth, doc
<1>6. /\ mcpRow' \in McpRow \cup {NoMcpRow}
      /\ mcpRow # NoMcpRow => mcpRow'.doc.token = connect[c].doc.token
      /\ mcpRow' # NoMcpRow => mcpRow # NoMcpRow
  BY <1>0, <1>4, <1>5 DEF McpTypeOK, McpRow
<1>7. connect' \in [Call -> [step : {"idle", "discovers"}, doc : Document, offer : {0}]]
  BY <1>0, <1>1 DEF ConnectAnswers, McpTypeOK, Idle
<1>8. McpTypeOK'
  BY <1>0, <1>1, <1>2, <1>3, <1>5, <1>6, <1>7 DEF McpTypeOK
<1> QED
  BY <1>1, <1>5, <1>6, <1>8, RowKeepsToken

\* The answer to a callback brings no refresh token, or a new one.
LEMMA CallbackAnswersKeeps ==
  ASSUME McpInv, NEW client \in 1..MaxConnects, CallbackAnswers(client)
  PROVE  McpInv'
<1>0. McpTypeOK /\ MaxConnects \in Nat /\ MaxGrants \in Nat /\ granted \in Nat
  BY McpBounds DEF McpInv, RotatedTokenIsKept, McpTypeOK
<1>1. /\ UNCHANGED <<tokenLost, connect, pendingLogins, refresh, spoilt, connects>>
      /\ exchange' \subseteq 1..MaxConnects
  BY <1>0 DEF CallbackAnswers, McpTypeOK
<1>2. CASE UNCHANGED <<mcpRow, valid, granted>>
  <2>1. McpTypeOK'
    BY <1>0, <1>1, <1>2 DEF McpTypeOK
  <2> QED
    BY <1>1, <1>2, <2>1, RowKeepsToken
<1>3. CASE PutToken([client |-> client, token |-> 0]) /\ UNCHANGED <<valid, granted>>
  <2>0. [client |-> client, token |-> 0] \in Document
    BY <1>0 DEF Document
  <2>1. mcpRow' \in McpRow \cup {NoMcpRow} /\ (mcpRow' # NoMcpRow => mcpRow'.doc.token = 0)
    BY <1>0, <1>3, <2>0, NewRowFits
  <2>2. McpTypeOK'
    BY <1>0, <1>1, <1>3, <2>1 DEF McpTypeOK
  <2> QED
    BY <1>1, <1>3, <2>1, <2>2, RowKeepsToken
<1>4. CASE /\ granted < MaxGrants /\ granted' = granted + 1
           /\ valid' = valid \cup {granted + 1}
           /\ PutToken([client |-> client, token |-> granted + 1])
  <2>0. [client |-> client, token |-> granted + 1] \in Document
    BY <1>0, <1>4 DEF Document
  <2>1. /\ mcpRow' \in McpRow \cup {NoMcpRow}
        /\ mcpRow' # NoMcpRow => mcpRow'.doc.token = granted + 1
    BY <1>0, <1>4, <2>0, NewRowFits
  <2>2. valid' \subseteq 1..MaxGrants /\ granted' \in 0..MaxGrants
    BY <1>0, <1>4 DEF McpTypeOK
  <2>3. McpTypeOK'
    BY <1>0, <1>1, <2>1, <2>2 DEF McpTypeOK
  <2>4. OneRefresh' /\ OffersAreValid'
    BY <1>1, <1>4 DEF McpInv, OneRefresh, OffersAreValid
  <2>5. RotatedTokenIsKept'
    BY <1>1, <1>4, <2>1, <2>3 DEF McpInv, RotatedTokenIsKept
  <2> QED
    BY <2>4, <2>5 DEF McpInv
<1> QED
  BY <1>2, <1>3, <1>4 DEF CallbackAnswers

\* A refresh begins with the token of the row, when no other runs.
LEMMA RefreshBeginsKeeps ==
  ASSUME McpInv, NEW c \in Call, RefreshBegins(c)
  PROVE  McpInv'
<1>0. McpTypeOK /\ MaxConnects \in Nat /\ MaxGrants \in Nat /\ granted \in Nat
  BY McpBounds DEF McpInv, RotatedTokenIsKept, McpTypeOK
<1>1. /\ mcpRow # NoMcpRow /\ mcpRow.doc \in Document /\ mcpRow.doc.token # 0
      /\ mcpRow.doc.token \in 0..MaxGrants
      /\ \A d \in Call : refresh[d].step = "idle"
      /\ UNCHANGED <<mcpRow, tokenLost, connect, pendingLogins, exchange, spoilt, connects>>
  BY <1>0 DEF RefreshBegins, McpTypeOK, McpRow, Document
<1> DEFINE Goal(o) == /\ refresh' = [refresh EXCEPT ![c] = [step |-> "posted", doc |-> mcpRow.doc,
                                                            offer |-> o]]
                      /\ o # 0 => o \in valid'
                      /\ mcpRow.doc.token \in valid => o # 0
                      /\ valid' \subseteq 1..MaxGrants /\ granted' \in 0..MaxGrants
<1>2. PICK o \in 0..MaxGrants : Goal(o)
  <2>1. CASE /\ mcpRow.doc.token \in valid /\ granted < MaxGrants /\ granted' = granted + 1
             /\ valid' = (valid \ {mcpRow.doc.token}) \cup {granted + 1}
             /\ refresh' = [refresh EXCEPT ![c] = [step |-> "posted", doc |-> mcpRow.doc,
                                                   offer |-> granted + 1]]
    <3>1. /\ granted + 1 \in 1..MaxGrants /\ granted + 1 \in 0..MaxGrants /\ granted + 1 # 0
          /\ granted + 1 \in valid'
      BY <1>0, <2>1
    <3>2. valid' \subseteq 1..MaxGrants
      BY <1>0, <2>1, <3>1 DEF McpTypeOK
    <3>3. Goal(granted + 1)
      BY <2>1, <3>1, <3>2
    <3> QED
      BY <3>1, <3>3
  <2>2. CASE /\ UNCHANGED <<granted, valid>> /\ mcpRow.doc.token \in valid
             /\ refresh' = [refresh EXCEPT ![c] = [step |-> "posted", doc |-> mcpRow.doc,
                                                   offer |-> mcpRow.doc.token]]
    <3>1. Goal(mcpRow.doc.token)
      BY <1>0, <1>1, <2>2 DEF McpTypeOK
    <3> QED
      BY <1>1, <3>1
  <2>3. CASE /\ UNCHANGED <<granted, valid>> /\ mcpRow.doc.token \notin valid
             /\ refresh' = [refresh EXCEPT ![c] = [step |-> "posted", doc |-> mcpRow.doc, offer |-> 0]]
    <3>1. Goal(0) /\ 0 \in 0..MaxGrants
      BY <1>0, <2>3 DEF McpTypeOK
    <3> QED
      BY <3>1
  <2> QED
    BY <2>1, <2>2, <2>3 DEF RefreshBegins
<1>3. /\ refresh'[c] = [step |-> "posted", doc |-> mcpRow.doc, offer |-> o]
      /\ \A d \in Call \ {c} : refresh'[d].step = "idle"
      /\ refresh' \in [Call -> [step : {"idle", "posted"}, doc : Document, offer : 0..MaxGrants]]
  BY <1>0, <1>1, <1>2 DEF McpTypeOK
<1>4. /\ refresh'[c].step = "posted" /\ refresh'[c].doc.token = mcpRow.doc.token
      /\ refresh'[c].offer = o
  BY <1>3
<1>5. McpTypeOK'
  BY <1>0, <1>1, <1>2, <1>3 DEF McpTypeOK
<1>6. OneRefresh' /\ OffersAreValid'
  BY <1>1, <1>2, <1>3, <1>4 DEF OneRefresh, OffersAreValid
<1>7. ~tokenLost /\ ~spoilt => mcpRow.doc.token \in valid
  BY <1>1 DEF McpInv, RotatedTokenIsKept
<1>8. RotatedTokenIsKept'
  BY <1>1, <1>2, <1>3, <1>4, <1>5, <1>7 DEF RotatedTokenIsKept
<1> QED
  BY <1>6, <1>8 DEF McpInv

\* A refresh is over, with new tokens or with a failure.
LEMMA RefreshEndsKeeps ==
  ASSUME McpInv, NEW c \in Call, RefreshSucceeds(c) \/ RefreshFails(c)
  PROVE  McpInv'
<1>0. McpTypeOK /\ MaxConnects \in Nat /\ MaxGrants \in Nat
  BY McpBounds DEF McpInv, RotatedTokenIsKept
<1>1. /\ refresh[c].step = "posted" /\ refresh[c].doc \in Document
      /\ refresh[c].doc.token # 0 /\ refresh[c].offer \in 0..MaxGrants
      /\ refresh[c].offer # 0 => refresh[c].offer \in valid
      /\ \A d \in Call \ {c} : refresh[d].step = "idle"
  BY <1>0 DEF RefreshSucceeds, RefreshFails, McpInv, OffersAreValid, OneRefresh, McpTypeOK
<1>2. /\ UNCHANGED <<valid, granted, connect, pendingLogins, exchange, spoilt, connects>>
      /\ refresh' = [refresh EXCEPT ![c] = Idle]
  BY DEF RefreshSucceeds, RefreshFails, serverVars
<1>3. /\ \A d \in Call : refresh'[d].step = "idle"
      /\ refresh' \in [Call -> [step : {"idle", "posted"}, doc : Document, offer : 0..MaxGrants]]
  BY <1>0, <1>1, <1>2 DEF McpTypeOK, Idle, Blank, Document
<1>4. OneRefresh' /\ OffersAreValid'
  BY <1>3 DEF OneRefresh, OffersAreValid
<1>5. ASSUME mcpRow' \in McpRow \cup {NoMcpRow}, tokenLost' \in BOOLEAN, tokenLost => tokenLost',
             ~tokenLost' /\ ~spoilt /\ mcpRow' # NoMcpRow /\ mcpRow'.doc.token # 0
               => mcpRow'.doc.token \in valid
      PROVE  McpInv'
  <2>1. McpTypeOK'
    BY <1>0, <1>2, <1>3, <1>5 DEF McpTypeOK
  <2>2. RotatedTokenIsKept'
    BY <1>2, <1>3, <1>5, <2>1 DEF RotatedTokenIsKept
  <2> QED
    BY <1>4, <2>2 DEF McpInv
<1>6. CASE RefreshSucceeds(c)
  <2> DEFINE doc == [refresh[c].doc EXCEPT !.token = refresh[c].offer]
  <2>1. doc \in Document /\ doc.token = refresh[c].offer
    BY <1>1 DEF Document
  <2>2. PutToken(doc) /\ refresh[c].offer # 0 /\ UNCHANGED tokenLost
    BY <1>6 DEF RefreshSucceeds, serverVars
  <2> HIDE DEF doc
  <2>3. mcpRow' \in McpRow \cup {NoMcpRow} /\ (mcpRow' # NoMcpRow => mcpRow'.doc = doc)
    BY <1>0, <2>1, <2>2, NewRowFits
  <2> QED
    BY <1>0, <1>1, <1>5, <2>1, <2>2, <2>3 DEF McpTypeOK
<1>7. ASSUME NEW client \in {0, refresh[c].doc.client}, refresh[c].offer = 0, UNCHANGED tokenLost,
             mcpRow' = IF mcpRow = NoMcpRow THEN NoMcpRow
                       ELSE [mcpRow EXCEPT !.doc = [client |-> client, token |-> 0],
                                           !.status = "failing"]
      PROVE  McpInv'
  <2>1. [client |-> client, token |-> 0] \in Document
    BY <1>0, <1>1 DEF Document
  <2>2. mcpRow' \in McpRow \cup {NoMcpRow} /\ (mcpRow' # NoMcpRow => mcpRow'.doc.token = 0)
    BY <1>0, <1>7, <2>1 DEF McpTypeOK, McpRow
  <2> QED
    BY <1>0, <1>5, <1>7, <2>2 DEF McpTypeOK
<1>8. CASE /\ mcpRow' = IF mcpRow = NoMcpRow THEN NoMcpRow ELSE [mcpRow EXCEPT !.status = "failing"]
           /\ tokenLost' = (tokenLost \/ refresh[c].offer \notin {0, refresh[c].doc.token})
  <2>1. /\ mcpRow' \in McpRow \cup {NoMcpRow}
        /\ mcpRow' # NoMcpRow => mcpRow # NoMcpRow /\ mcpRow'.doc = mcpRow.doc
    BY <1>0, <1>8 DEF McpTypeOK, McpRow
  <2>2. tokenLost' \in BOOLEAN /\ (tokenLost => tokenLost')
    BY <1>0, <1>8 DEF McpTypeOK
  <2>3. ASSUME ~tokenLost', ~spoilt, mcpRow # NoMcpRow, mcpRow.doc.token # 0
        PROVE  mcpRow.doc.token \in valid
    <3>1. refresh[c].offer = refresh[c].doc.token /\ refresh[c].offer \in valid
      BY <1>1, <1>8, <2>3 DEF McpInv, RotatedTokenIsKept
    <3>2. \/ mcpRow.doc.token \in valid
          \/ \E d \in Call : refresh[d].step = "posted" /\ refresh[d].doc.token = mcpRow.doc.token
      BY <1>8, <2>3 DEF McpInv, RotatedTokenIsKept
    <3> QED
      BY <1>1, <3>1, <3>2
  <2> QED
    BY <1>5, <2>1, <2>2, <2>3
<1>9. CASE RefreshFails(c)
  BY <1>7, <1>8, <1>9 DEF RefreshFails
<1> QED
  BY <1>6, <1>9

\* Every step of the connection keeps the invariant.
LEMMA McpStep ==
  ASSUME McpInv, [McpNext]_mcpVars
  PROVE  McpInv'
<1>1. CASE UNCHANGED mcpVars
  <2>1. UNCHANGED <<mcpRow, valid, granted, tokenLost, connect, pendingLogins, exchange,
                    refresh, spoilt, connects>>
    BY <1>1 DEF mcpVars, serverVars
  <2>2. McpTypeOK'
    BY <2>1 DEF McpInv, RotatedTokenIsKept, McpTypeOK
  <2> QED
    BY <2>1, <2>2, RowKeepsToken
<1>2. CASE \/ ServerIsSaved \/ ServerIsDeleted \/ LoginIsPruned \/ CallbackBegins
           \/ TokenIsRefused \/ TokenAges
           \/ \E c \in Call : ConnectBegins(c) \/ ConnectFails(c)
  BY <1>2, RowStepsKeep
<1>3. ASSUME NEW c \in Call, \/ ConnectAnswers(c) \/ RefreshBegins(c)
                             \/ RefreshSucceeds(c) \/ RefreshFails(c)
      PROVE  McpInv'
  BY <1>3, ConnectAnswersKeeps, RefreshBeginsKeeps, RefreshEndsKeeps
<1>4. ASSUME NEW client \in 1..MaxConnects, CallbackAnswers(client) PROVE McpInv'
  BY <1>4, CallbackAnswersKeeps
<1> QED
  BY <1>1, <1>2, <1>3, <1>4 DEF McpNext

\* The row of an MCP server holds a refresh token that the authorization server accepts,
\* and no refresh presents one that an earlier refresh has used up, in whatever order
\* connects, callbacks, refreshes and changes of the server come (mcp-oauth.ts).
THEOREM RotatedTokenIsAlwaysKept == McpSpec => []RotatedTokenIsKept
<1>1. McpInit => McpInv
  <2> SUFFICES ASSUME McpInit PROVE McpInv
    OBVIOUS
  <2>0. MaxConnects \in Nat /\ MaxGrants \in Nat /\ Idle.step = "idle"
        /\ Idle \in [step : {"idle", "discovers"}, doc : Document, offer : {0}]
        /\ Idle \in [step : {"idle", "posted"}, doc : Document, offer : 0..MaxGrants]
    BY McpBounds DEF Idle, Blank, Document
  <2>a. 0 \in 0..MaxConnects /\ 0 \in 0..MaxGrants
    BY <2>0
  <2>1. McpTypeOK
    BY <2>0, <2>a DEF McpInit, McpTypeOK
  <2>2. OneRefresh /\ OffersAreValid
    BY <2>0 DEF McpInit, OneRefresh, OffersAreValid
  <2>3. RotatedTokenIsKept
    BY <2>0, <2>1 DEF McpInit, RotatedTokenIsKept
  <2> QED
    BY <2>2, <2>3 DEF McpInv
<1>2. McpInv => RotatedTokenIsKept
  BY DEF McpInv
<1> QED
  BY <1>1, <1>2, McpStep, PTL DEF McpSpec

(***************************************************************************)
(* Both, in the composition that the run checks.                           *)
(***************************************************************************)

\* The gateway keeps its secrets: what is stored is wanted and accepted, and no refresh
\* uses a token twice (credentials.ts, login.ts, mcp-oauth.ts).
THEOREM SecretsAreAlwaysKept == MCGatewaySpec => []SecretsAreKept
<1>1. MCGatewayInit => VaultInit /\ McpInit
  BY DEF MCGatewayInit
<1>2. [MCGatewayNext]_gatewayParts => [VaultNext]_vaultVars /\ [McpNext]_mcpVars
  BY DEF MCGatewayNext, gatewayParts, secretVars
<1>3. MCGatewaySpec => VaultSpec /\ McpSpec
  BY <1>1, <1>2, PTL DEF MCGatewaySpec, VaultSpec, McpSpec
<1>4. SecretsAreRight /\ RotatedTokenIsKept => SecretsAreKept
  BY DEF SecretsAreKept
<1> QED
  BY <1>3, <1>4, SecretsAreAlwaysRight, RotatedTokenIsAlwaysKept, PTL

================================================================================
