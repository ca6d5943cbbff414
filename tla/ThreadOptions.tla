----------------------------- MODULE ThreadOptions -----------------------------
(***************************************************************************)
(* The mode, the model and the effort of one thread.  Four places know     *)
(* them: the agent in its adapter, the row of the thread, the log that     *)
(* answers the browsers (gateway/adapter.ts, upstream.ts, thread-log.ts),  *)
(* and the page (thread-store.ts).  An adapter forgets them when it stops, *)
(* so a load and a mint put the thread back on what the row records.       *)
(*                                                                         *)
(* Messages of an adapter arrive in the order that it sends them.  A       *)
(* request is taken by the adapter at once; its answer takes its time.     *)
(***************************************************************************)
EXTENDS Naturals, Sequences

CONSTANTS Wish,           \* requests of pages that change something
          MaxMints,      \* bound: conversations that are minted
          MaxWishes,     \* bound: changes that pages and the agent make
          MaxWoes        \* bound: refusals, fallbacks, and exits of a busy adapter

ASSUME ThreadOptionsAssumption ==
  /\ MaxMints \in Nat /\ MaxWishes \in Nat /\ MaxWoes \in Nat
  /\ "restore" \notin Wish    \* a message of the adapter is for a page or for a load

VARIABLES
  tells,        \* the adapter sends an update for each change, and not only for its own
  answering,    \* the adapter answers a change of an option with its options
  agentHolds,   \* the conversation that the adapter holds, with its options
  transcripts,  \* the conversations that the adapter can load
  upwards,      \* the messages of the adapter that are on their way
  record,       \* the row of the thread
  logOptions,   \* ThreadLog.options of its conversation, or NoOptions
  restore,      \* the load or the mint that runs
  asks,         \* the changes that pages ask for
  pageMode,     \* ThreadModel.modes of the page
  mints, wishes, woes,
  \* For the properties.
  lastMode,     \* the mode that was chosen last
  muddled,      \* a change crossed a failed one or a load
  notTaken,      \* the adapter refused what the row records
  contextLost   \* a fork lost its source, or the first prompt of a fork was lost

adapterSideVars == <<tells, answering, agentHolds, transcripts>>
threadOptionVars == <<adapterSideVars, upwards, record, logOptions, restore, asks, pageMode, mints, wishes, woes,
                      lastMode, muddled, notTaken, contextLost>>

Mode == {"auto", "plan", "full"}
DefaultMode == "auto"
ForkMode == "plan"
AgentMode == "full"      \* the mode that the adapter begins in
Model == {"opus", "haiku"}
Effort == {"low", "high"}
Unset == "unset"

\* The options that an adapter begins with; only one model offers an effort.
FreshOptions == [mode |-> AgentMode, model |-> "haiku", effort |-> Unset]
NoOptions == [mode |-> Unset, model |-> Unset, effort |-> Unset]
FreshConversation(id, context) ==
  [id |-> id, context |-> context, up |-> TRUE, mode |-> FreshOptions.mode, model |-> FreshOptions.model, effort |-> FreshOptions.effort]
Nothing == [id |-> 0, context |-> FALSE, up |-> FALSE, mode |-> Unset, model |-> Unset, effort |-> Unset]
OptionsIn(agent) == [mode |-> agent.mode, model |-> agent.model, effort |-> agent.effort]

NoRestore == [kind |-> "none", step |-> "none", row |-> NoOptions, known |-> NoOptions, done |-> {}]
NoAsk == [id |-> "none", value |-> Unset, previous |-> Unset, before |-> Unset, alone |-> TRUE]

Waits(a) == asks[a].id # "none"

ThreadOptionsTypeOK ==
  /\ OptionsIn(record) \in [mode : Mode \cup {Unset}, model : Model \cup {Unset}, effort : Effort \cup {Unset}]
  /\ logOptions \in [mode : Mode \cup {Unset}, model : Model \cup {Unset}, effort : Effort \cup {Unset}]
  /\ record.id \in 0..MaxMints /\ agentHolds.id \in 0..MaxMints /\ DOMAIN transcripts \subseteq 1..MaxMints
  /\ restore.kind \in {"none", "fill", "relay", "mint"} /\ restore.step \in {"none", "load", "loaded", "mode", "model", "effort"}
  /\ pageMode \in Mode \cup {Unset}

\* A thread whose conversation is minted yet: a new one, with the mode of the dialog or of
\* the harness, or a fork, which has the mode of forks and the settings of its source.
ThreadOptionsInit ==
  /\ tells \in BOOLEAN /\ answering \in BOOLEAN
  /\ agentHolds = Nothing /\ transcripts = <<>> /\ upwards = <<>>
  /\ \E fork \in BOOLEAN, chosen \in BOOLEAN :
       /\ fork => chosen
       /\ record = [id |-> 0, mode |-> IF chosen THEN ForkMode ELSE Unset, model |-> "opus",
                    effort |-> IF chosen THEN "high" ELSE Unset, inherits |-> fork, fork |-> fork]
       /\ lastMode = IF chosen THEN ForkMode ELSE DefaultMode
  /\ logOptions = NoOptions /\ restore = NoRestore
  /\ asks = [a \in Wish |-> NoAsk] /\ pageMode = Unset
  /\ mints = 0 /\ wishes = 0 /\ woes = 0
  /\ muddled = FALSE /\ notTaken = FALSE /\ contextLost = FALSE

(***************************************************************************)
(* The adapter.                                                            *)
(***************************************************************************)

Msg(what, to, ok, options) == [what |-> what, to |-> to, ok |-> ok, options |-> options]
OptionUpdate(agent, id, to) == Msg(IF id = "mode" THEN "mode" ELSE "options", to, TRUE, OptionsIn(agent))
Told(agent) == <<OptionUpdate(agent, "mode", "all"), OptionUpdate(agent, "options", "all")>>
ToldOne(agent, id) == <<OptionUpdate(agent, id, "all")>>

\* A change of the model changes the efforts that there are.
Changed(agent, id, value) ==
  CASE id = "mode" -> [agent EXCEPT !.mode = value]
    [] id = "model" -> [agent EXCEPT !.model = value, !.effort = IF value = "opus" THEN "low" ELSE Unset]
    [] id = "effort" -> [agent EXCEPT !.effort = value]

\* What becomes of a request: it is taken, refused, or the adapter falls back to another
\* mode, which it tells before it answers.
Outcomes(agent, id, value, to) ==
  LET then(a, updates, ok, woe) ==
        [agent |-> a, sent |-> updates \o <<Msg("answer", to, ok, OptionsIn(a))>>, woe |-> woe]
      taken == Changed(agent, id, value)
  IN  IF id = "effort" /\ agent.effort = Unset THEN {then(agent, <<>>, FALSE, 0)}
      ELSE {then(taken, IF tells THEN ToldOne(taken, id) ELSE <<>>, TRUE, 0), then(agent, <<>>, FALSE, 1)}
             \cup {then(Changed(agent, id, m), ToldOne(Changed(agent, id, m), id), TRUE, 1) :
                     m \in IF id = "mode" THEN {AgentMode} \ {value} ELSE {}}

\* The agent changes a setting by itself: it leaves the plan mode, or another model steps in.
AgentWishes ==
  /\ agentHolds.up /\ agentHolds.id = record.id /\ record.id # 0 /\ restore = NoRestore
  /\ wishes < MaxWishes /\ wishes' = wishes + 1
  /\ \E id \in {"mode", "model"} :
       \E value \in (IF id = "mode" THEN Mode ELSE Model) \ {agentHolds[id]} :
         /\ agentHolds' = Changed(agentHolds, id, value)
         /\ upwards' = Append(upwards, OptionUpdate(Changed(agentHolds, id, value), id, "own"))
  /\ UNCHANGED <<tells, answering, transcripts, record, logOptions, restore, asks, pageMode, mints, woes, lastMode, muddled, notTaken, contextLost>>

AdapterComesUp ==
  /\ ~agentHolds.up
  /\ agentHolds' = [Nothing EXCEPT !.up = TRUE]
  /\ UNCHANGED <<tells, answering, transcripts, upwards, record, logOptions, restore, asks, pageMode, mints, wishes, woes, lastMode, muddled, notTaken, contextLost>>

\* handleExecExit: the requests fail, and a load drops the log that it was filling.
OptionsAreLost(agentOptions) ==
  /\ agentHolds' = agentOptions /\ upwards' = <<>> /\ restore' = NoRestore
  /\ asks' = [a \in Wish |-> NoAsk]
  /\ LET waits == {a \in Wish : asks[a].id = "mode"}
     IN  /\ logOptions' = IF restore.kind \in {"fill", "mint"} THEN NoOptions
                          ELSE IF waits = {} THEN logOptions
                          ELSE [logOptions EXCEPT !.mode = asks[CHOOSE a \in waits : TRUE].previous]
         /\ pageMode' = IF waits = {} THEN pageMode ELSE asks[CHOOSE a \in waits : TRUE].before
         /\ muddled' = (muddled \/ waits # {} \/ (\E i \in DOMAIN upwards : upwards[i].to = "own") \/ restore.kind = "relay"
                                  \/ (restore.kind = "fill" /\ tells))

AdapterGoesDown ==
  /\ agentHolds.up
  /\ IF upwards = <<>> /\ restore = NoRestore /\ (\A a \in Wish : ~Waits(a)) THEN UNCHANGED woes
     ELSE woes < MaxWoes /\ woes' = woes + 1
  /\ OptionsAreLost(Nothing)
  /\ UNCHANGED <<tells, answering, transcripts, record, mints, wishes, lastMode, notTaken, contextLost>>

(***************************************************************************)
(* Loads and mints.                                                        *)
(***************************************************************************)

Row == [OptionsIn(record) EXCEPT !.mode = IF @ = Unset THEN DefaultMode ELSE @]
Holds == agentHolds.up /\ record.id # 0 /\ agentHolds.id = record.id

\* loadThread, and its answer that the transcript is gone: the row is cleared for a mint,
\* and the browsers on the dead id are dropped.
ThreadIsLoaded ==
  /\ agentHolds.up /\ record.id # 0 /\ agentHolds.id # record.id /\ restore = NoRestore
  /\ IF record.id \in DOMAIN transcripts
       THEN LET agent == FreshConversation(record.id, transcripts[record.id])
            IN  /\ agentHolds' = agent
                /\ upwards' = IF tells THEN Told(agent) ELSE <<>>
                /\ restore' = [NoRestore EXCEPT !.kind = "fill", !.step = "load", !.row = Row]
                /\ logOptions' = NoOptions
                /\ UNCHANGED <<record, pageMode>>
       ELSE /\ record' = [record EXCEPT !.id = 0] /\ pageMode' = Unset /\ logOptions' = NoOptions
            /\ UNCHANGED <<agentHolds, upwards, restore>>
  /\ UNCHANGED <<tells, answering, transcripts, asks, mints, wishes, woes, lastMode, muddled, notTaken, contextLost>>

\* relayHistory: another window asks for the full history of an idle thread.
HistoryIsRelayed ==
  /\ Holds /\ restore = NoRestore /\ ~record.inherits /\ record.id \in DOMAIN transcripts
  /\ wishes < MaxWishes /\ wishes' = wishes + 1
  /\ LET agent == FreshConversation(record.id, transcripts[record.id])
     IN  /\ agentHolds' = agent
         /\ upwards' = upwards \o (IF tells THEN Told(agent) ELSE <<>>)
  /\ restore' = [NoRestore EXCEPT !.kind = "relay", !.step = "load", !.row = Row]
  /\ muddled' = (muddled \/ upwards # <<>> \/ \E a \in Wish : Waits(a))
  /\ UNCHANGED <<tells, answering, transcripts, record, logOptions, asks, pageMode, mints, woes, lastMode, notTaken, contextLost>>

LoadIsAnswered ==
  /\ restore.step = "load" /\ agentHolds.up
  /\ restore' = [restore EXCEPT !.step = "loaded"]
  /\ upwards' = Append(upwards, Msg("answer", "restore", TRUE, OptionsIn(agentHolds)))
  /\ UNCHANGED <<tells, answering, agentHolds, transcripts, record, logOptions, asks, pageMode, mints, wishes, woes, lastMode, muddled, notTaken, contextLost>>

\* The value to set for an option, or Unset to leave what the adapter has (wantedValue).
WantedValue(r, id) == IF r.known[id] = Unset THEN Unset ELSE r.row[id]
\* A mutant: the settings of the row are not put back.
NextOption_ModeOnly(r) == IF "mode" \notin r.done /\ WantedValue(r, "mode") \notin {Unset, r.known.mode} THEN "mode" ELSE "none"
\* applyMode, and then applyConfig: the next option that differs.
NextOption(r) ==
  LET differs(id) == id \notin r.done /\ WantedValue(r, id) \notin {Unset, r.known[id]}
  IN  IF differs("mode") THEN "mode"
      ELSE IF differs("model") THEN "model"
      ELSE IF differs("effort") THEN "effort" ELSE "none"
UpTo(id) == CASE id = "mode" -> {"mode"} [] id = "model" -> {"mode", "model"} [] OTHER -> {"mode", "model", "effort"}

\* The restore goes on from r, with what is left of the messages; it ends with the id of a
\* mint in the row.
RestoreGoesOn(r, log, rest) ==
  LET id == NextOption(r) IN
  IF id = "none"
    THEN /\ restore' = NoRestore /\ logOptions' = log /\ upwards' = rest
         /\ record' = IF r.kind = "mint" THEN [record EXCEPT !.id = agentHolds.id] ELSE record
         /\ UNCHANGED <<agentHolds, woes>>
    ELSE \E o \in Outcomes(agentHolds, id, r.row[id], "restore") :
           /\ woes + o.woe <= MaxWoes /\ woes' = woes + o.woe
           /\ agentHolds' = o.agent /\ upwards' = rest \o o.sent
           /\ restore' = [r EXCEPT !.step = id, !.done = UpTo(id)]
           /\ logOptions' = IF id = "mode" THEN [log EXCEPT !.mode = r.row.mode] ELSE log
           /\ UNCHANGED record

\* mintInto: a fork that was not prompted is branched from its source again.
ThreadIsMinted ==
  /\ agentHolds.up /\ record.id = 0 /\ restore = NoRestore /\ mints < MaxMints
  /\ mints' = mints + 1
  /\ \E branched \in BOOLEAN :
       /\ branched => record.inherits
       /\ contextLost' = (contextLost \/ (record.inherits /\ ~branched))
       /\ LET agent == FreshConversation(mints + 1, branched)
          IN  /\ agentHolds' = agent
              /\ upwards' = <<Msg("answer", "restore", TRUE, OptionsIn(agent))>>
              /\ restore' = [NoRestore EXCEPT !.kind = "mint", !.step = "loaded", !.row = Row]
  /\ UNCHANGED <<tells, answering, transcripts, record, logOptions, asks, pageMode, wishes, woes, lastMode, muddled, notTaken>>

(***************************************************************************)
(* The messages of the adapter.                                            *)
(***************************************************************************)

FirstOf(kind) == upwards # <<>> /\ Head(upwards).what = kind
NowSet(options, id, value) == [options EXCEPT ![id] = IF @ = Unset THEN @ ELSE value]
\* During a load the updates go to the log that is filled, or to the window that asked.
ToPages == restore.kind # "relay" \/ restore.step \notin {"load", "loaded"}

\* onUpdate with a current_mode_update: the row, the log and the pages.
ModeIsTold ==
  /\ FirstOf("mode")
  /\ LET m == Head(upwards).options.mode
     IN  /\ upwards' = Tail(upwards)
         /\ record' = IF record.id = agentHolds.id THEN [record EXCEPT !.mode = m] ELSE record
         /\ logOptions' = IF ToPages THEN NowSet(logOptions, "mode", m) ELSE logOptions
         /\ pageMode' = IF ToPages /\ pageMode # Unset THEN m ELSE pageMode
         /\ lastMode' = IF restore.step \in {"load", "loaded"} \/ record.id # agentHolds.id THEN lastMode ELSE m
         /\ asks' = [a \in Wish |-> IF Waits(a) THEN [asks[a] EXCEPT !.alone = @ /\ Head(upwards).to # "own"] ELSE NoAsk]
  /\ UNCHANGED <<adapterSideVars, restore, mints, wishes, woes, muddled, notTaken, contextLost>>

\* recordConfigOptions: what the adapter reports is merged into the row.
Merged(options) ==
  [record EXCEPT !.model = options.model, !.effort = IF options.effort = Unset THEN @ ELSE options.effort]

\* onUpdate with a config_option_update: the whole list replaces the one of the log.
OptionsAreTold ==
  /\ FirstOf("options")
  /\ LET options == Head(upwards).options
     IN  /\ upwards' = Tail(upwards)
         /\ record' = IF record.id = agentHolds.id THEN Merged(options) ELSE record
         /\ logOptions' = IF ToPages /\ logOptions # NoOptions THEN [options EXCEPT !.mode = logOptions.mode] ELSE logOptions
  /\ UNCHANGED <<adapterSideVars, restore, asks, pageMode, mints, wishes, woes, lastMode, muddled, notTaken, contextLost>>

\* logConfig: the options of the answer, or the value that was asked for.
Configured(log, id, value, options) ==
  IF answering THEN [options EXCEPT !.mode = log.mode] ELSE NowSet(log, id, value)

\* fillLog, relayHistory, applyMode and applyConfig go on with an answer.
RestoreIsAnswered ==
  /\ FirstOf("answer") /\ Head(upwards).to = "restore"
  /\ LET answer == Head(upwards)
         r == restore
         id == r.step
     IN  /\ CASE id = "loaded" ->
                   RestoreGoesOn([r EXCEPT !.known = answer.options],
                                 IF r.kind = "relay" THEN logOptions ELSE answer.options, Tail(upwards))
              [] id = "mode" ->
                   RestoreGoesOn(r, IF answer.ok THEN logOptions ELSE [logOptions EXCEPT !.mode = r.known.mode], Tail(upwards))
              [] OTHER ->
                   RestoreGoesOn(IF answer.ok /\ answering THEN [r EXCEPT !.known = [answer.options EXCEPT !.mode = r.known.mode]] ELSE r,
                                 IF answer.ok THEN Configured(logOptions, id, r.row[id], answer.options) ELSE logOptions,
                                 Tail(upwards))
         /\ notTaken' = (notTaken \/ ~answer.ok \/ (id = "mode" /\ answer.options.mode # r.row.mode))
         /\ muddled' = (muddled \/ (r.kind = "relay" /\ ~answer.ok))
  /\ UNCHANGED <<tells, answering, transcripts, asks, pageMode, mints, wishes, lastMode, contextLost>>

(***************************************************************************)
(* The page.                                                               *)
(***************************************************************************)

\* The load of a page is answered from the log.
PageOpensThread ==
  /\ Holds /\ restore.kind # "fill" /\ logOptions.mode # Unset /\ \A a \in Wish : ~Waits(a)
  /\ pageMode' = logOptions.mode /\ pageMode # logOptions.mode
  /\ UNCHANGED <<adapterSideVars, upwards, record, logOptions, restore, asks, mints, wishes, woes, lastMode, muddled, notTaken, contextLost>>

\* setMode and setConfigOption of the page, and forwardRequest: the page and the log show
\* the new mode before the adapter has it.
PageAsks(a, id, value) ==
  /\ ~Waits(a) /\ pageMode # Unset /\ Holds /\ restore.kind \in {"none", "relay"}
  /\ wishes < MaxWishes /\ wishes' = wishes + 1
  /\ logOptions[id] \notin {Unset, value}
  /\ LET others == \E b \in Wish : Waits(b)
         onTheWay == \E i \in DOMAIN upwards : upwards[i].what # "answer"
     IN  /\ asks' = [b \in Wish |->
                       IF b = a THEN [id |-> id, value |-> value, previous |-> logOptions.mode, before |-> pageMode,
                                      alone |-> ~others /\ ~onTheWay]
                       ELSE IF Waits(b) THEN [asks[b] EXCEPT !.alone = FALSE] ELSE NoAsk]
         /\ muddled' = (muddled \/ restore # NoRestore \/ (onTheWay /\ ~tells))
  /\ \E o \in Outcomes(agentHolds, id, value, a) :
       /\ woes + o.woe <= MaxWoes /\ woes' = woes + o.woe
       /\ agentHolds' = o.agent /\ upwards' = upwards \o o.sent
  /\ logOptions' = IF id = "mode" THEN [logOptions EXCEPT !.mode = value] ELSE logOptions
  /\ pageMode' = IF id = "mode" THEN value ELSE pageMode
  /\ UNCHANGED <<tells, answering, transcripts, record, restore, mints, lastMode, notTaken, contextLost>>

\* A mutant: the row takes the mode that was asked for.
ModeRecorded_Asked(ask) == ask.value
\* The row takes the mode of the log, which a fallback has replaced there.
ModeRecorded(ask) == logOptions.mode

\* forwardRequest goes on with the answer: it records a change, or takes it back.
AskIsAnswered(a) ==
  /\ FirstOf("answer") /\ Head(upwards).to = a
  /\ upwards' = Tail(upwards) /\ asks' = [asks EXCEPT ![a] = NoAsk]
  /\ LET ask == asks[a]
         answer == Head(upwards)
     IN  IF ~answer.ok
           THEN /\ logOptions' = IF ask.id = "mode" THEN [logOptions EXCEPT !.mode = ask.previous] ELSE logOptions
                /\ pageMode' = IF ask.id = "mode" THEN ask.before ELSE pageMode
                /\ muddled' = (muddled \/ ~ask.alone)
                /\ UNCHANGED <<record, lastMode>>
         ELSE /\ IF ask.id = "mode"
                   THEN /\ record' = [record EXCEPT !.mode = ModeRecorded(ask)] /\ lastMode' = answer.options.mode
                        /\ UNCHANGED logOptions
                   ELSE /\ logOptions' = Configured(logOptions, ask.id, ask.value, answer.options)
                        /\ record' = IF answering THEN Merged(answer.options) ELSE [record EXCEPT ![ask.id] = ask.value]
                        /\ UNCHANGED lastMode
              /\ UNCHANGED <<pageMode, muddled>>
  /\ UNCHANGED <<adapterSideVars, restore, mints, wishes, woes, notTaken, contextLost>>

\* A prompt takes the inheritance from a fork, because the adapter writes its transcript.
ThreadIsPrompted ==
  /\ Holds /\ restore = NoRestore /\ record.id \notin DOMAIN transcripts
  /\ record' = [record EXCEPT !.inherits = FALSE]
  /\ transcripts' = [id \in DOMAIN transcripts \cup {record.id} |-> IF id = record.id THEN agentHolds.context ELSE transcripts[id]]
  /\ UNCHANGED <<tells, answering, agentHolds, upwards, logOptions, restore, asks, pageMode, mints, wishes, woes, lastMode, muddled, notTaken, contextLost>>

\* The adapter exits before it has written the first prompt.
FirstPromptIsLost ==
  /\ Holds /\ restore = NoRestore /\ record.id \notin DOMAIN transcripts
  /\ woes < MaxWoes /\ woes' = woes + 1
  /\ record' = [record EXCEPT !.inherits = FALSE]
  /\ contextLost' = (contextLost \/ record.inherits)
  /\ OptionsAreLost(Nothing)
  /\ UNCHANGED <<tells, answering, transcripts, mints, wishes, lastMode, notTaken>>

ThreadOptionsNext ==
  \/ AgentWishes \/ AdapterComesUp \/ AdapterGoesDown
  \/ ThreadIsLoaded \/ HistoryIsRelayed \/ LoadIsAnswered \/ ThreadIsMinted
  \/ ModeIsTold \/ OptionsAreTold \/ RestoreIsAnswered
  \/ PageOpensThread \/ ThreadIsPrompted \/ FirstPromptIsLost
  \/ \E a \in Wish :
       \/ AskIsAnswered(a)
       \/ \E m \in Mode : PageAsks(a, "mode", m)
       \/ \E m \in Model : PageAsks(a, "model", m)
       \/ \E e \in Effort : PageAsks(a, "effort", e)

ThreadOptionsSpec == ThreadOptionsInit /\ [][ThreadOptionsNext]_threadOptionVars

(***************************************************************************)
(* Properties.                                                             *)
(***************************************************************************)

NothingOnTheWay == upwards = <<>> /\ restore = NoRestore /\ Holds /\ \A a \in Wish : ~Waits(a)

\* The log and the page show what the agent runs with.
ShownIsRun ==
  /\ logOptions.mode = agentHolds.mode /\ logOptions.model = agentHolds.model
  /\ answering => logOptions.effort = agentHolds.effort
  /\ pageMode \in {Unset, logOptions.mode} \/ notTaken

\* The agent runs with what the row records, which is what was chosen last.
RunIsRecorded ==
  /\ agentHolds.mode = Row.mode /\ agentHolds.mode = lastMode
  /\ agentHolds.model = Row.model
  /\ answering /\ agentHolds.effort # Unset /\ Row.effort # Unset => agentHolds.effort = Row.effort

\* When nothing is on its way, all four places have the same mode, model and effort,
\* through exits of the adapter, loads, mints and forks.  Named exceptions: a change that
\* crosses a load or another change that fails, and what the adapter refuses to take back
\* (forwardRequest, applyMode, applyConfig, recordThreadInfo).  A fork keeps its context,
\* unless the source cannot be branched, or its first prompt is lost.
OptionsAreKept ==
  NothingOnTheWay =>
    /\ muddled \/ ShownIsRun
    /\ muddled \/ notTaken \/ RunIsRecorded
    /\ record.fork => agentHolds.context \/ contextLost
=============================================================================
