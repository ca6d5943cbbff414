-------------------------- MODULE ThreadOptionsProofs --------------------------
(***************************************************************************)
(* The mode, the model and the effort of a thread are the same in its four *)
(* places when nothing is on its way, for any number of asks and every     *)
(* bound.                                                                  *)
(*                                                                         *)
(* The invariant has three cases.  A thread whose adapter does not hold    *)
(* the conversation rests: the row alone says what was chosen.  While a    *)
(* load or a mint puts the row back, the queue is that of one step of it:  *)
(* updates, and then the answer that it waits for (Restoring).  Otherwise  *)
(* the thread flows: the last message about an option tells what the       *)
(* agent runs with, unless a refused mode dooms the asks that crossed it   *)
(* (Flowing).                                                              *)
(***************************************************************************)
EXTENDS ThreadOptions, SequenceTheorems, TLAPS

(***************************************************************************)
(* What the variables hold.                                                *)
(***************************************************************************)

OptionSet == [mode : Mode, model : Model, effort : Effort \cup {Unset}]
MaybeOptions == [mode : Mode \cup {Unset}, model : Model \cup {Unset}, effort : Effort \cup {Unset}]
AgentSet == [id : Nat, context : BOOLEAN, up : BOOLEAN, mode : Mode \cup {Unset}, model : Model \cup {Unset},
             effort : Effort \cup {Unset}]
RowSet == [id : Nat, mode : Mode \cup {Unset}, model : Model \cup {Unset}, effort : Effort \cup {Unset},
           inherits : BOOLEAN, fork : BOOLEAN]
MessageSet == [what : {"mode", "options", "answer"}, to : Wish \cup {"all", "own", "restore"}, ok : BOOLEAN, options : MaybeOptions]
AskSet == [id : {"none", "mode", "model", "effort"}, value : Mode \cup Model \cup Effort \cup {Unset},
           previous : Mode \cup {Unset}, before : Mode \cup {Unset}, alone : BOOLEAN]
RestoreSet == [kind : {"none", "fill", "relay", "mint"}, step : {"none", "load", "loaded", "mode", "model", "effort"},
               row : MaybeOptions, known : MaybeOptions, done : SUBSET {"mode", "model", "effort"}]

OptionIds == {"mode", "model", "effort"}
OptionValue(id, value) ==
  \/ id = "mode" /\ value \in Mode
  \/ id = "model" /\ value \in Model
  \/ id = "effort" /\ value \in Effort

\* The types of the variables.
TypesFit ==
  /\ tells \in BOOLEAN /\ answering \in BOOLEAN /\ notTaken \in BOOLEAN
  /\ agentHolds \in AgentSet /\ record \in RowSet
  /\ logOptions \in MaybeOptions /\ pageMode \in Mode \cup {Unset}
  /\ upwards \in Seq(MessageSet) /\ mints \in Nat
  /\ asks \in [Wish -> AskSet] /\ restore \in RestoreSet
  /\ restore.step = "none" <=> restore = NoRestore
  /\ \A a \in Wish : Waits(a) => OptionValue(asks[a].id, asks[a].value)
  /\ \A id \in DOMAIN transcripts : transcripts[id] \in BOOLEAN

(***************************************************************************)
(* The invariant.  ModeRuns and SettingsRun say of the messages that are   *)
(* on their way that the last one which tells the mode, or the settings,   *)
(* tells what the agent runs with, so that everybody knows it when the     *)
(* queue is empty.                                                         *)
(***************************************************************************)

\* A fork has the context of its source.
ContextKept ==
  /\ 0 \notin DOMAIN transcripts
  /\ record.fork /\ ~contextLost =>
       /\ Holds \/ restore.kind = "mint" => agentHolds.context
       /\ \A id \in DOMAIN transcripts : transcripts[id]
       /\ ~record.inherits => record.id \in DOMAIN transcripts
  /\ restore.kind = "mint" => record.id = 0 /\ agentHolds.up

\* The conversation runs with possible options.
AgentFits ==
  /\ OptionsIn(agentHolds) \in OptionSet
  /\ agentHolds.effort = Unset <=> agentHolds.model = "haiku"

\* What the message i of the queue q is about, with the asks ks.
AnswerTo(q, ks, i, id) == q[i].what = "answer" /\ ks[q[i].to].id = id
ModeAt(q, ks, i) == q[i].what = "mode" \/ AnswerTo(q, ks, i, "mode")
SettingAt(q, ks, all, i) ==
  \/ q[i].what = "options"
  \/ q[i].ok /\ (AnswerTo(q, ks, i, "model") \/ (all = TRUE /\ AnswerTo(q, ks, i, "effort")))
RefusedMode(q, ks, i) == AnswerTo(q, ks, i, "mode") /\ ~q[i].ok
TakenMode(q, ks, i) == AnswerTo(q, ks, i, "mode") /\ q[i].ok

\* Each answer is of one ask that waits, and an ask that is alone is the only one.
AsksFit ==
  /\ \A i \in DOMAIN upwards : upwards[i].options \in OptionSet
  /\ \A i \in DOMAIN upwards : upwards[i].what = "answer" =>
       /\ upwards[i].to \in Wish /\ Waits(upwards[i].to)
       /\ \A j \in DOMAIN upwards : upwards[j].what = "answer" /\ upwards[j].to = upwards[i].to => j = i
       /\ upwards[i].ok /\ asks[upwards[i].to].id = "model" => asks[upwards[i].to].value = upwards[i].options.model
  /\ \A a, b \in Wish : Waits(a) /\ asks[a].alone /\ Waits(b) => a = b
  /\ \A a \in Wish : asks[a].id = "mode" => asks[a].previous \in Mode

\* A refused mode is on its way whose ask is not alone: what it takes back may be another change.
Doomed == \E i \in DOMAIN upwards : RefusedMode(upwards, asks, i) /\ ~asks[upwards[i].to].alone

\* The mode m of the agent, the last choice and the row, unless it was not taken.
ModeIsRight(m, choice, row, nt) ==
  /\ nt = TRUE \/ (choice = m /\ row = m)
  /\ row = m \/ m = AgentMode

\* The last message about the mode tells m; when there is none, the log has m and the row fits.
ModeLast(q, ks, m) ==
  \A i \in DOMAIN q : ModeAt(q, ks, i) => q[i].options.mode = m \/ \E j \in DOMAIN q : j > i /\ ModeAt(q, ks, j)
ModeNone(q, ks, m, log, choice, row, nt) ==
  (\A i \in DOMAIN q : ~ModeAt(q, ks, i)) => log = m /\ ModeIsRight(m, choice, row, nt)
\* When the last message is the answer that a mode was taken, the updates in front of it
\* bring the log to m, or the log has it.
ModeTaken(q, ks, m, log) ==
  \A k \in DOMAIN q : TakenMode(q, ks, k) /\ (\A j \in DOMAIN q : j > k => ~ModeAt(q, ks, j)) =>
       /\ \A i \in DOMAIN q : i < k /\ q[i].what = "mode" =>
            q[i].options.mode = m \/ \E j \in DOMAIN q : i < j /\ j < k /\ q[j].what = "mode"
       /\ (\A i \in DOMAIN q : i < k => q[i].what # "mode") => log = m
\* When it is the answer that a mode was refused, the log goes back to m with it.
ModeRefused(q, ks, m, choice, row, nt) ==
  \A k \in DOMAIN q : RefusedMode(q, ks, k) =>
       /\ \A i \in DOMAIN q : i < k => q[i].what # "mode"
       /\ (\A j \in DOMAIN q : j > k => ~ModeAt(q, ks, j)) =>
            ks[q[k].to].previous = m /\ ModeIsRight(m, choice, row, nt)
ModeRuns(q, ks, m, log, choice, row, nt) ==
  /\ ModeLast(q, ks, m) /\ ModeNone(q, ks, m, log, choice, row, nt)
  /\ ModeTaken(q, ks, m, log) /\ ModeRefused(q, ks, m, choice, row, nt)

ModeFlows == ModeRuns(upwards, asks, agentHolds.mode, logOptions.mode, lastMode, Row.mode, notTaken)
\* Only the agent itself tells a mode without an answer behind it.
Answered(q, ks) == \A i \in DOMAIN q : q[i].what = "mode" /\ q[i].to # "own" => \E k \in DOMAIN q : k > i /\ AnswerTo(q, ks, k, "mode")
OwnModes == Answered(upwards, asks)
\* The page shows the mode of the log, and a refusal takes both back to the same.
PageFollows ==
  notTaken = TRUE \/ ( /\ pageMode \in {Unset, logOptions.mode}
                      /\ \A a \in Wish : asks[a].id = "mode" => asks[a].before = asks[a].previous)

\* The model m and the effort e of the agent, and the row.
SettingsAreRight(m, e, row, all, nt) ==
  /\ nt = TRUE \/ row.model = m
  /\ row.model = m \/ m = "haiku"
  /\ all = TRUE /\ nt # TRUE /\ e # Unset => row.effort \in {Unset, e}
\* The last message about the settings tells m and e; when there is none, the log has them.
SettingsLast(q, ks, m, e, all) ==
  \A i \in DOMAIN q : SettingAt(q, ks, all, i) =>
       \/ q[i].options.model = m /\ (all = TRUE => q[i].options.effort = e)
       \/ \E j \in DOMAIN q : j > i /\ SettingAt(q, ks, all, j)
SettingsNone(q, ks, m, e, log, row, all, nt) ==
  (\A i \in DOMAIN q : ~SettingAt(q, ks, all, i)) =>
       /\ log.model = m /\ (all = TRUE => log.effort = e)
       /\ SettingsAreRight(m, e, row, all, nt)
SettingsRun(q, ks, m, e, log, row, all, nt) ==
  SettingsLast(q, ks, m, e, all) /\ SettingsNone(q, ks, m, e, log, row, all, nt)
SettingsFlow ==
  SettingsRun(upwards, asks, agentHolds.model, agentHolds.effort, logOptions, record, answering, notTaken)

\* The conversation is there and nothing is put back.
Flowing ==
  /\ AgentFits /\ AsksFit /\ logOptions.mode # Unset /\ logOptions.model # Unset
  /\ Doomed \/ (ModeFlows /\ OwnModes /\ PageFollows /\ SettingsFlow)

\* The adapter does not hold the conversation.
Resting ==
  /\ upwards = <<>> /\ \A a \in Wish : ~Waits(a)
  /\ record.id = 0 => pageMode = Unset
  /\ notTaken = TRUE \/ (lastMode = Row.mode /\ pageMode \in {Unset, Row.mode})

\* The messages of the adapter while something is put back.
TellsIn(q, what) == \E i \in DOMAIN q : q[i].what = what
LastIn(q) == q[Len(q)]
\* The messages q of the agent a while a restore does its step.
QueueFits(q, a, step) ==
  /\ \A i \in DOMAIN q :
       /\ q[i].options = OptionsIn(a) /\ q[i].to \in {"all", "restore"}
       /\ q[i].what = "answer" <=> q[i].to = "restore"
       /\ q[i].what = "answer" => i = Len(q)
  /\ step # "load" => q # <<>> /\ LastIn(q).what = "answer"
  /\ step = "load" => ~TellsIn(q, "answer")

Tells(what) == TellsIn(upwards, what)
LastAnswer == LastIn(upwards)
RestoringQueue == QueueFits(upwards, agentHolds, restore.step)

HasRow == restore.kind # "mint"

\* The load or the mint has not been answered, or its answer has not arrived.
Loading ==
  /\ OptionsIn(agentHolds) = FreshOptions /\ restore.done = {}
  /\ restore.step = "loaded" => LastAnswer.ok
  /\ notTaken = TRUE \/ lastMode = restore.row.mode
  /\ record.effort = restore.row.effort
  /\ ~tells \/ ~HasRow => Row = restore.row /\ ~Tells("mode") /\ ~Tells("options")
  /\ tells /\ HasRow => (Tells("mode") \/ record.mode = AgentMode) /\ (Tells("options") \/ record.model = "haiku")
  /\ restore.kind = "fill" => \/ notTaken = TRUE
                              \/ pageMode = Unset
                              \/ tells /\ (Tells("mode") \/ pageMode = AgentMode)
                              \/ ~tells /\ pageMode = restore.row.mode
  /\ restore.kind = "relay" =>
       /\ logOptions.mode # Unset /\ logOptions.model # Unset
       /\ restore.row.mode = AgentMode => logOptions.mode = AgentMode
       /\ restore.row.model = "haiku" => logOptions.model = "haiku" /\ (answering => logOptions.effort = Unset)
       /\ notTaken = TRUE \/ (logOptions.mode = restore.row.mode /\ pageMode \in {Unset, restore.row.mode})

\* applyMode has asked for the mode of the row.
PuttingMode ==
  /\ restore.known = FreshOptions /\ restore.row.mode # AgentMode /\ restore.done = {"mode"}
  /\ agentHolds.model = "haiku" /\ agentHolds.effort = Unset /\ ~Tells("options")
  /\ LastAnswer.ok => agentHolds.mode \in {restore.row.mode, AgentMode} /\ (Tells("mode") \/ logOptions.mode = agentHolds.mode)
  /\ ~LastAnswer.ok => ~Tells("mode") /\ agentHolds.mode = AgentMode
  /\ logOptions.mode # Unset /\ logOptions.model # Unset
  /\ restore.kind # "relay" \/ restore.row.model = "haiku" => logOptions.model = "haiku" /\ (answering => logOptions.effort = Unset)
  /\ record.effort = restore.row.effort
  /\ tells /\ HasRow => record.model = "haiku"
  /\ ~tells \/ ~HasRow => record.model = restore.row.model
  /\ ~HasRow => Row.mode = restore.row.mode /\ (notTaken = TRUE \/ lastMode = restore.row.mode)
  /\ agentHolds.mode = restore.row.mode =>
       \/ HasRow /\ Tells("mode")
       \/ /\ Row.mode = restore.row.mode
          /\ notTaken = TRUE \/ (lastMode = restore.row.mode /\ pageMode \in {Unset, restore.row.mode})
  /\ restore.kind = "fill" /\ ~tells => notTaken = TRUE \/ (lastMode = Row.mode /\ pageMode \in {Unset, Row.mode})

\* The mode is put back.
ModeIsPut ==
  /\ ~Tells("mode") /\ logOptions.mode = agentHolds.mode /\ logOptions.model # Unset
  /\ ModeIsRight(agentHolds.mode, lastMode, Row.mode, notTaken)
  /\ notTaken = TRUE \/ pageMode \in {Unset, agentHolds.mode}

\* applyConfig has asked for the model of the row, and then for the effort.
PuttingModel ==
  /\ ModeIsPut /\ restore.done = {"mode", "model"}
  /\ restore.known.model = "haiku" /\ restore.known.effort = Unset /\ restore.row.model = "opus"
  /\ LastAnswer.ok => agentHolds.model = "opus" /\ agentHolds.effort = "low"
  /\ ~LastAnswer.ok => ~Tells("options") /\ agentHolds.model = "haiku" /\ agentHolds.effort = Unset
  /\ restore.kind # "relay" /\ ~LastAnswer.ok => logOptions.model = "haiku" /\ (answering => logOptions.effort = Unset)
  /\ tells /\ HasRow /\ LastAnswer.ok /\ ~Tells("options") => record.model = "opus" /\ record.effort = "low"
  /\ ~tells \/ ~HasRow => record.model = "opus" /\ record.effort = restore.row.effort
  /\ ~tells => ~Tells("options")

PuttingEffort ==
  /\ ModeIsPut /\ answering /\ restore.row.effort = "high" /\ restore.done = {"mode", "model", "effort"}
  /\ agentHolds.model = "opus" /\ logOptions.model = "opus" /\ record.model = "opus"
  /\ LastAnswer.ok => agentHolds.effort = "high"
  /\ ~LastAnswer.ok => ~Tells("options") /\ logOptions.effort = "low" /\ agentHolds.effort = "low"
  /\ LastAnswer.ok => (HasRow /\ Tells("options")) \/ record.effort = "high"

\* A load, a relay or a mint puts back what the row records.
Restoring ==
  /\ agentHolds.up /\ AgentFits /\ (\A a \in Wish : ~Waits(a)) /\ RestoringQueue
  /\ restore.row \in OptionSet /\ restore.kind \in {"fill", "relay", "mint"}
  /\ HasRow => Holds
  /\ ~HasRow => record.id = 0 /\ agentHolds.id # 0 /\ pageMode = Unset
  /\ \/ restore.step \in {"load", "loaded"} /\ Loading
     \/ restore.step = "mode" /\ PuttingMode
     \/ restore.step = "model" /\ PuttingModel
     \/ restore.step = "effort" /\ PuttingEffort

\* The invariant without the types and the context.
OptionsFit ==
  /\ record.model \in Model
  /\ restore # NoRestore => Restoring
  /\ restore = NoRestore /\ Holds => Flowing
  /\ restore = NoRestore /\ ~Holds => Resting

OptionsInv == TypesFit /\ ContextKept /\ (muddled = TRUE \/ OptionsFit)

(***************************************************************************)
(* Queues.  A message leaves the queue at its head or comes behind it;     *)
(* these lemmas carry over what ModeRuns and SettingsRun say of it.        *)
(***************************************************************************)

\* The queue t is q without its head.
Shifted(q, t) ==
  /\ 1 \in DOMAIN q /\ DOMAIN q \subseteq Nat \ {0} /\ DOMAIN t \subseteq Nat \ {0}
  /\ \A j \in DOMAIN t : j + 1 \in DOMAIN q /\ t[j] = q[j + 1]
  /\ \A i \in DOMAIN q : i = 1 \/ i - 1 \in DOMAIN t
\* The queue t is q with e behind it.
Joined(q, e, t) ==
  \E n \in Nat : /\ DOMAIN q = 1..n /\ DOMAIN t = 1..(n + 1)
                 /\ t[n + 1] = e /\ \A i \in 1..n : t[i] = q[i]
\* The asks whose answers are in t are the same.
Kept(t, ks, ks2) ==
  \A i \in DOMAIN t : t[i].what = "answer" => ks2[t[i].to].id = ks[t[i].to].id /\ ks2[t[i].to].previous = ks[t[i].to].previous

\* A queue without its head.
LEMMA TailIs ==
  ASSUME NEW S, NEW q \in Seq(S), q # <<>>
  PROVE  Tail(q) \in Seq(S) /\ Shifted(q, Tail(q)) /\ q[1] \in S /\ Head(q) = q[1] /\ Len(Tail(q)) = Len(q) - 1 /\ Len(q) \in Nat
<1>1. Len(q) \in Nat /\ Len(q) >= 1 /\ DOMAIN q = 1..Len(q)
  OBVIOUS
<1>2. Tail(q) \in Seq(S) /\ Len(Tail(q)) = Len(q) - 1 /\ \A i \in 1..(Len(q) - 1) : Tail(q)[i] = q[i + 1]
  OBVIOUS
<1>3. DOMAIN Tail(q) = 1..(Len(q) - 1)
  BY <1>1, <1>2
<1>4. Shifted(q, Tail(q))
  BY <1>1, <1>2, <1>3 DEF Shifted
<1> QED
  BY <1>1, <1>2, <1>4

\* A queue with a message behind it.
LEMMA AppendIs ==
  ASSUME NEW S, NEW q \in Seq(S), NEW e \in S
  PROVE  Append(q, e) \in Seq(S) /\ Joined(q, e, Append(q, e))
<1>1. Append(q, e) \in Seq(S) /\ Len(Append(q, e)) = Len(q) + 1 /\ Len(q) \in Nat
  OBVIOUS
<1>2. Append(q, e)[Len(q) + 1] = e /\ \A i \in 1..Len(q) : Append(q, e)[i] = q[i]
  OBVIOUS
<1>3. DOMAIN q = 1..Len(q) /\ DOMAIN Append(q, e) = 1..(Len(q) + 1)
  BY <1>1
<1> QED
  BY <1>1, <1>2, <1>3 DEF Joined

Sent(updates, e) == updates \o <<e>>

\* What the adapter sends for a request: an update and the answer, or the answer alone.
LEMMA JoinsAre ==
  ASSUME NEW S, NEW q \in Seq(S), NEW e \in S, NEW x \in S
  PROVE  /\ q \o Sent(<<x>>, e) = Append(Append(q, x), e)
         /\ q \o Sent(<<>>, e) = Append(q, e)
<1>1. <<x>> \in Seq(S) /\ <<e>> \in Seq(S) /\ Append(q, x) \in Seq(S)
  OBVIOUS
<1>2. q \o <<e>> = Append(q, e) /\ q \o <<x>> = Append(q, x)
  BY AppendIsConcat
<1>3. \A u, v \in Seq(S) : q \o (u \o v) = (q \o u) \o v
  BY ConcatAssociative
<1>4. Append(q, x) \o <<e>> = Append(Append(q, x), e)
  BY <1>1, AppendIsConcat
<1>5. <<>> \o <<e>> = <<e>>
  OBVIOUS
<1>6. q \o (<<x>> \o <<e>>) = Append(Append(q, x), e)
  <2> PICK u \in Seq(S), v \in Seq(S) : u = <<x>> /\ v = <<e>>
    BY <1>1
  <2>1. q \o (u \o v) = (q \o u) \o v
    BY <1>3
  <2>2. q \o u = Append(q, x) /\ Append(q, x) \o v = Append(Append(q, x), e)
    BY <1>2, <1>4
  <2>3. q \o (u \o v) = Append(Append(q, x), e)
    BY <2>1, <2>2
  <2> QED
    BY <2>3
<1>7. q \o (<<>> \o <<e>>) = Append(q, e)
  BY <1>2, <1>5
<1> QED
  BY <1>6, <1>7 DEF Sent

\* What the messages say stays the same when they move up.
LEMMA ShiftSays ==
  ASSUME NEW q, NEW t, NEW ks, NEW ks2, Shifted(q, t), Kept(t, ks, ks2), NEW j \in DOMAIN t
  PROVE  /\ ModeAt(t, ks2, j) <=> ModeAt(q, ks, j + 1)
         /\ TakenMode(t, ks2, j) <=> TakenMode(q, ks, j + 1)
         /\ RefusedMode(t, ks2, j) <=> RefusedMode(q, ks, j + 1)
         /\ t[j].what = q[j + 1].what /\ t[j].options = q[j + 1].options
         /\ RefusedMode(t, ks2, j) => ks2[t[j].to].previous = ks[q[j + 1].to].previous
<1>1. t[j] = q[j + 1]
  BY DEF Shifted
<1>2. t[j].what = "answer" => ks2[t[j].to].id = ks[t[j].to].id /\ ks2[t[j].to].previous = ks[t[j].to].previous
  BY DEF Kept
<1> QED
  BY <1>1, <1>2 DEF ModeAt, TakenMode, RefusedMode, AnswerTo

\* What the messages say of the settings stays the same when they move up.
LEMMA ShiftSetting ==
  ASSUME NEW q, NEW t, NEW ks, NEW ks2, NEW all, Shifted(q, t), Kept(t, ks, ks2), NEW j \in DOMAIN t
  PROVE  (SettingAt(t, ks2, all, j) <=> SettingAt(q, ks, all, j + 1)) /\ t[j].options = q[j + 1].options
<1>1. t[j] = q[j + 1]
  BY DEF Shifted
<1>2. t[j].what = "answer" => ks2[t[j].to].id = ks[t[j].to].id
  BY DEF Kept
<1> QED
  BY <1>1, <1>2 DEF SettingAt, AnswerTo

\* What the messages say stays the same when another one comes behind them.
LEMMA JoinSays ==
  ASSUME NEW q, NEW t, NEW ks, NEW ks2, NEW n \in Nat, DOMAIN q = 1..n, DOMAIN t = 1..(n + 1),
         \A i \in 1..n : t[i] = q[i], Kept(q, ks, ks2), NEW j \in DOMAIN q
  PROVE  /\ ModeAt(t, ks2, j) <=> ModeAt(q, ks, j)
         /\ TakenMode(t, ks2, j) <=> TakenMode(q, ks, j)
         /\ RefusedMode(t, ks2, j) <=> RefusedMode(q, ks, j)
         /\ t[j].what = q[j].what /\ t[j].options = q[j].options
         /\ RefusedMode(t, ks2, j) => ks2[t[j].to].previous = ks[q[j].to].previous
<1>1. t[j] = q[j]
  OBVIOUS
<1>2. t[j].what = "answer" => ks2[t[j].to].id = ks[t[j].to].id /\ ks2[t[j].to].previous = ks[t[j].to].previous
  BY <1>1 DEF Kept
<1> QED
  BY <1>1, <1>2 DEF ModeAt, TakenMode, RefusedMode, AnswerTo

\* What the messages say of the settings stays the same when another one comes behind them.
LEMMA JoinSetting ==
  ASSUME NEW q, NEW t, NEW ks, NEW ks2, NEW all, NEW n \in Nat, DOMAIN q = 1..n, DOMAIN t = 1..(n + 1),
         \A i \in 1..n : t[i] = q[i], Kept(q, ks, ks2), NEW j \in DOMAIN q
  PROVE  (SettingAt(t, ks2, all, j) <=> SettingAt(q, ks, all, j)) /\ t[j].options = q[j].options
<1>1. t[j] = q[j]
  OBVIOUS
<1>2. t[j].what = "answer" => ks2[t[j].to].id = ks[t[j].to].id
  BY <1>1 DEF Kept
<1> QED
  BY <1>1, <1>2 DEF SettingAt, AnswerTo

\* What the shifted queue gives of the queue.
LEMMA ShiftFacts ==
  ASSUME NEW q, NEW t, Shifted(q, t)
  PROVE  /\ 1 \in DOMAIN q /\ DOMAIN q \subseteq Nat \ {0} /\ DOMAIN t \subseteq Nat \ {0}
         /\ \A j \in DOMAIN t : j + 1 \in DOMAIN q
         /\ \A i \in DOMAIN q : i = 1 \/ (i - 1 \in DOMAIN t /\ (i - 1) + 1 = i)
<1>1. \A i \in DOMAIN q : (i - 1) + 1 = i
  BY DEF Shifted
<1> QED
  BY <1>1 DEF Shifted

\* The last message about the mode is the last one without the head, too.
LEMMA ShiftLast ==
  ASSUME NEW q, NEW t, NEW ks, NEW ks2, NEW m, Shifted(q, t), Kept(t, ks, ks2), ModeLast(q, ks, m)
  PROVE  ModeLast(t, ks2, m)
<1>1. \A j \in DOMAIN t : (ModeAt(t, ks2, j) <=> ModeAt(q, ks, j + 1)) /\ t[j].options = q[j + 1].options
  BY ShiftSays
<1>2. /\ DOMAIN q \subseteq Nat \ {0} /\ DOMAIN t \subseteq Nat \ {0}
      /\ \A j \in DOMAIN t : j + 1 \in DOMAIN q
      /\ \A i \in DOMAIN q : i = 1 \/ (i - 1 \in DOMAIN t /\ (i - 1) + 1 = i)
  BY ShiftFacts
<1> SUFFICES ASSUME NEW i \in DOMAIN t, ModeAt(t, ks2, i), t[i].options.mode # m
             PROVE  \E j \in DOMAIN t : j > i /\ ModeAt(t, ks2, j)
  BY DEF ModeLast
<1>3. PICK j \in DOMAIN q : j > i + 1 /\ ModeAt(q, ks, j)
  BY <1>1, <1>2 DEF ModeLast
<1>4. j - 1 \in DOMAIN t /\ j - 1 > i /\ (j - 1) + 1 = j
  BY <1>2, <1>3
<1> QED
  BY <1>3, <1>4, <1>1

\* What is silent behind a place of t is silent behind the next of q.
LEMMA ShiftSilence ==
  ASSUME NEW q, NEW t, NEW ks, NEW ks2, Shifted(q, t), Kept(t, ks, ks2), NEW i \in Nat,
         \A j \in DOMAIN t : j > i => ~ModeAt(t, ks2, j)
  PROVE  \A j \in DOMAIN q : j > i + 1 => ~ModeAt(q, ks, j)
<1>1. \A j \in DOMAIN t : ModeAt(t, ks2, j) <=> ModeAt(q, ks, j + 1)
  BY ShiftSays
<1>2. /\ DOMAIN q \subseteq Nat \ {0}
      /\ \A j \in DOMAIN q : j = 1 \/ (j - 1 \in DOMAIN t /\ (j - 1) + 1 = j)
  BY ShiftFacts
<1> SUFFICES ASSUME NEW j \in DOMAIN q, j > i + 1 PROVE ~ModeAt(q, ks, j)
  OBVIOUS
<1>3. j - 1 \in DOMAIN t /\ j - 1 > i /\ (j - 1) + 1 = j
  BY <1>2
<1> QED
  BY <1>3, <1>1

\* A taken mode is behind the same modes without the head, unless the head tells a mode.
LEMMA ShiftTaken ==
  ASSUME NEW q, NEW t, NEW ks, NEW ks2, NEW m, NEW log, Shifted(q, t), Kept(t, ks, ks2),
         q[1].what # "mode", ModeTaken(q, ks, m, log)
  PROVE  ModeTaken(t, ks2, m, log)
<1>1. \A j \in DOMAIN t :
         /\ TakenMode(t, ks2, j) <=> TakenMode(q, ks, j + 1)
         /\ t[j].what = q[j + 1].what /\ t[j].options = q[j + 1].options
  BY ShiftSays
<1>2. /\ DOMAIN q \subseteq Nat \ {0} /\ DOMAIN t \subseteq Nat \ {0}
      /\ \A j \in DOMAIN t : j + 1 \in DOMAIN q
      /\ \A i \in DOMAIN q : i = 1 \/ (i - 1 \in DOMAIN t /\ (i - 1) + 1 = i)
  BY ShiftFacts
<1> SUFFICES ASSUME NEW k \in DOMAIN t, TakenMode(t, ks2, k), \A j \in DOMAIN t : j > k => ~ModeAt(t, ks2, j)
             PROVE  /\ \A i \in DOMAIN t : i < k /\ t[i].what = "mode" =>
                         t[i].options.mode = m \/ \E j \in DOMAIN t : i < j /\ j < k /\ t[j].what = "mode"
                    /\ (\A i \in DOMAIN t : i < k => t[i].what # "mode") => log = m
  BY DEF ModeTaken
<1>3. /\ \A i \in DOMAIN q : i < k + 1 /\ q[i].what = "mode" =>
           q[i].options.mode = m \/ \E j \in DOMAIN q : i < j /\ j < k + 1 /\ q[j].what = "mode"
      /\ (\A i \in DOMAIN q : i < k + 1 => q[i].what # "mode") => log = m
  <2>1. TakenMode(q, ks, k + 1) /\ k + 1 \in DOMAIN q /\ k \in Nat
    BY <1>1, <1>2
  <2>2. \A j \in DOMAIN q : j > k + 1 => ~ModeAt(q, ks, j)
    BY ShiftSilence, <2>1
  <2> QED
    BY <2>1, <2>2 DEF ModeTaken
<1>4. ASSUME NEW i \in DOMAIN t, i < k, t[i].what = "mode", t[i].options.mode # m
      PROVE  \E j \in DOMAIN t : i < j /\ j < k /\ t[j].what = "mode"
  <2>1. PICK j \in DOMAIN q : i + 1 < j /\ j < k + 1 /\ q[j].what = "mode"
    BY <1>3, <1>4, <1>1, <1>2
  <2>2. j - 1 \in DOMAIN t /\ i < j - 1 /\ j - 1 < k /\ (j - 1) + 1 = j
    BY <2>1, <1>2
  <2> QED
    BY <2>1, <2>2, <1>1
<1>5. ASSUME \A i \in DOMAIN t : i < k => t[i].what # "mode" PROVE log = m
  <2> SUFFICES ASSUME NEW i \in DOMAIN q, i < k + 1, i # 1 PROVE q[i].what # "mode"
    BY <1>3
  <2>1. i - 1 \in DOMAIN t /\ i - 1 < k /\ (i - 1) + 1 = i
    BY <1>2
  <2> QED
    BY <2>1, <1>5, <1>1
<1> QED
  BY <1>4, <1>5

\* A refused mode stays right without the head.
LEMMA ShiftRefused ==
  ASSUME NEW q, NEW t, NEW ks, NEW ks2, NEW m, NEW choice, NEW row, NEW nt, Shifted(q, t), Kept(t, ks, ks2),
         ModeRefused(q, ks, m, choice, row, nt)
  PROVE  ModeRefused(t, ks2, m, choice, row, nt)
<1>1. \A j \in DOMAIN t :
         /\ RefusedMode(t, ks2, j) <=> RefusedMode(q, ks, j + 1)
         /\ t[j].what = q[j + 1].what
         /\ RefusedMode(t, ks2, j) => ks2[t[j].to].previous = ks[q[j + 1].to].previous
  BY ShiftSays
<1>2. /\ DOMAIN q \subseteq Nat \ {0} /\ DOMAIN t \subseteq Nat \ {0}
      /\ \A j \in DOMAIN t : j + 1 \in DOMAIN q
  BY ShiftFacts
<1> SUFFICES ASSUME NEW k \in DOMAIN t, RefusedMode(t, ks2, k)
             PROVE  /\ \A i \in DOMAIN t : i < k => t[i].what # "mode"
                    /\ (\A j \in DOMAIN t : j > k => ~ModeAt(t, ks2, j)) =>
                         ks2[t[k].to].previous = m /\ ModeIsRight(m, choice, row, nt)
  BY DEF ModeRefused
<1>3. RefusedMode(q, ks, k + 1) /\ k + 1 \in DOMAIN q /\ k \in Nat /\ ks2[t[k].to].previous = ks[q[k + 1].to].previous
  BY <1>1, <1>2
<1>4. /\ \A i \in DOMAIN q : i < k + 1 => q[i].what # "mode"
      /\ (\A j \in DOMAIN q : j > k + 1 => ~ModeAt(q, ks, j)) =>
           ks[q[k + 1].to].previous = m /\ ModeIsRight(m, choice, row, nt)
  BY <1>3 DEF ModeRefused
<1>5. \A i \in DOMAIN t : i < k => t[i].what # "mode"
  <2> TAKE i \in DOMAIN t
  <2>1. i + 1 \in DOMAIN q /\ (i < k => i + 1 < k + 1)
    BY <1>2
  <2> QED
    BY <2>1, <1>4, <1>1
<1>6. (\A j \in DOMAIN t : j > k => ~ModeAt(t, ks2, j)) => \A j \in DOMAIN q : j > k + 1 => ~ModeAt(q, ks, j)
  BY ShiftSilence, <1>3
<1> QED
  BY <1>3, <1>4, <1>5, <1>6

\* Behind the head all is silent when t is.
LEMMA ShiftNone ==
  ASSUME NEW q, NEW t, NEW ks, NEW ks2, Shifted(q, t), Kept(t, ks, ks2), \A j \in DOMAIN t : ~ModeAt(t, ks2, j)
  PROVE  \A j \in DOMAIN q : j # 1 => ~ModeAt(q, ks, j)
<1>1. \A j \in DOMAIN q : j > 0 + 1 => ~ModeAt(q, ks, j)
  BY ShiftSilence
<1>2. \A j \in DOMAIN q : j # 1 => j > 0 + 1
  BY DEF Shifted
<1> QED
  BY <1>1, <1>2

\* A head that says nothing of the mode.
LEMMA OtherHeadRuns ==
  ASSUME NEW q, NEW t, NEW ks, NEW ks2, NEW m, NEW log, NEW choice, NEW row, NEW nt,
         Shifted(q, t), Kept(t, ks, ks2), ~ModeAt(q, ks, 1), ModeRuns(q, ks, m, log, choice, row, nt)
  PROVE  ModeRuns(t, ks2, m, log, choice, row, nt)
<1>1. ModeLast(q, ks, m) /\ ModeNone(q, ks, m, log, choice, row, nt) /\ ModeTaken(q, ks, m, log)
      /\ ModeRefused(q, ks, m, choice, row, nt)
  BY DEF ModeRuns
<1>2. q[1].what # "mode"
  BY DEF ModeAt
<1>3. ModeLast(t, ks2, m)
  BY <1>1, ShiftLast
<1>4. ModeTaken(t, ks2, m, log)
  BY <1>1, <1>2, ShiftTaken
<1>5. ModeRefused(t, ks2, m, choice, row, nt)
  BY <1>1, ShiftRefused
<1>6. ModeNone(t, ks2, m, log, choice, row, nt)
  <2> SUFFICES ASSUME \A j \in DOMAIN t : ~ModeAt(t, ks2, j) PROVE log = m /\ ModeIsRight(m, choice, row, nt)
    BY DEF ModeNone
  <2>1. \A i \in DOMAIN q : ~ModeAt(q, ks, i)
    BY ShiftNone
  <2> QED
    BY <2>1, <1>1 DEF ModeNone
<1> QED
  BY <1>3, <1>4, <1>5, <1>6 DEF ModeRuns

\* An update of the mode: the log, the choice and the row follow it.
LEMMA ToldHeadRuns ==
  ASSUME NEW q, NEW t, NEW ks, NEW ks2, NEW m, NEW log, NEW choice, NEW row, NEW nt, NEW v,
         Shifted(q, t), Kept(t, ks, ks2), q[1].what = "mode", q[1].options.mode = v,
         ModeRuns(q, ks, m, log, choice, row, nt)
  PROVE  ModeRuns(t, ks2, m, v, v, v, nt)
<1>0. ModeLast(q, ks, m) /\ ModeTaken(q, ks, m, log) /\ ModeRefused(q, ks, m, choice, row, nt)
  BY DEF ModeRuns
<1>1. \A j \in DOMAIN t :
         /\ TakenMode(t, ks2, j) <=> TakenMode(q, ks, j + 1)
         /\ RefusedMode(t, ks2, j) <=> RefusedMode(q, ks, j + 1)
         /\ t[j].what = q[j + 1].what /\ t[j].options = q[j + 1].options
  BY ShiftSays
<1>2. /\ 1 \in DOMAIN q /\ DOMAIN q \subseteq Nat \ {0} /\ DOMAIN t \subseteq Nat \ {0}
      /\ \A j \in DOMAIN t : j + 1 \in DOMAIN q
      /\ \A i \in DOMAIN q : i = 1 \/ (i - 1 \in DOMAIN t /\ (i - 1) + 1 = i)
  BY ShiftFacts
<1>3. ModeLast(t, ks2, m)
  BY <1>0, ShiftLast
<1>4. ASSUME NEW k \in DOMAIN t PROVE ~RefusedMode(t, ks2, k)
  <2>1. k + 1 \in DOMAIN q /\ 1 < k + 1
    BY <1>2
  <2> QED
    BY <2>1, <1>0, <1>1, <1>2 DEF ModeRefused
<1>5. ModeNone(t, ks2, m, v, v, v, nt)
  <2> SUFFICES ASSUME \A j \in DOMAIN t : ~ModeAt(t, ks2, j) PROVE v = m
    BY DEF ModeNone, ModeIsRight
  <2>1. \A j \in DOMAIN q : j # 1 => ~ModeAt(q, ks, j)
    BY ShiftNone
  <2>2. ModeAt(q, ks, 1)
    BY DEF ModeAt
  <2>3. \A j \in DOMAIN q : ~(j > 1 /\ ModeAt(q, ks, j))
    BY <2>1, <1>2
  <2> QED
    BY <2>2, <2>3, <1>0, <1>2 DEF ModeLast
<1>6. ModeTaken(t, ks2, m, v)
  <2> SUFFICES ASSUME NEW k \in DOMAIN t, TakenMode(t, ks2, k), \A j \in DOMAIN t : j > k => ~ModeAt(t, ks2, j)
               PROVE  /\ \A i \in DOMAIN t : i < k /\ t[i].what = "mode" =>
                           t[i].options.mode = m \/ \E j \in DOMAIN t : i < j /\ j < k /\ t[j].what = "mode"
                      /\ (\A i \in DOMAIN t : i < k => t[i].what # "mode") => v = m
    BY DEF ModeTaken
  <2>1. \A i \in DOMAIN q : i < k + 1 /\ q[i].what = "mode" =>
          q[i].options.mode = m \/ \E j \in DOMAIN q : i < j /\ j < k + 1 /\ q[j].what = "mode"
    <3>1. TakenMode(q, ks, k + 1) /\ k + 1 \in DOMAIN q /\ k \in Nat
      BY <1>1, <1>2
    <3>2. \A j \in DOMAIN q : j > k + 1 => ~ModeAt(q, ks, j)
      BY ShiftSilence, <3>1
    <3> QED
      BY <3>1, <3>2, <1>0 DEF ModeTaken
  <2>2. ASSUME NEW i \in DOMAIN t, i < k, t[i].what = "mode", t[i].options.mode # m
        PROVE  \E j \in DOMAIN t : i < j /\ j < k /\ t[j].what = "mode"
    <3>1. PICK j \in DOMAIN q : i + 1 < j /\ j < k + 1 /\ q[j].what = "mode"
      BY <2>1, <2>2, <1>1, <1>2
    <3>2. j - 1 \in DOMAIN t /\ i < j - 1 /\ j - 1 < k /\ (j - 1) + 1 = j
      BY <3>1, <1>2
    <3> QED
      BY <3>1, <3>2, <1>1
  <2>3. ASSUME \A i \in DOMAIN t : i < k => t[i].what # "mode", v # m PROVE FALSE
    <3>1. 1 < k + 1
      BY <1>2
    <3>2. PICK j \in DOMAIN q : 1 < j /\ j < k + 1 /\ q[j].what = "mode"
      BY <3>1, <2>1, <2>3, <1>2
    <3>3. j - 1 \in DOMAIN t /\ j - 1 < k /\ (j - 1) + 1 = j
      BY <3>2, <1>2
    <3> QED
      BY <3>2, <3>3, <2>3, <1>1
  <2> QED
    BY <2>2, <2>3
<1>7. ModeRefused(t, ks2, m, v, v, nt)
  BY <1>4 DEF ModeRefused
<1> QED
  BY <1>3, <1>5, <1>6, <1>7 DEF ModeRuns

\* An answer that the mode was taken: the row takes the mode of the log.
LEMMA TakenHeadRuns ==
  ASSUME NEW q, NEW t, NEW ks, NEW ks2, NEW m, NEW log, NEW choice, NEW row, NEW nt, NEW v,
         Shifted(q, t), Kept(t, ks, ks2), TakenMode(q, ks, 1), q[1].options.mode = v,
         \A j \in DOMAIN q : ~RefusedMode(q, ks, j),
         ModeRuns(q, ks, m, log, choice, row, nt)
  PROVE  ModeRuns(t, ks2, m, log, v, log, nt)
<1>0. ModeLast(q, ks, m) /\ ModeTaken(q, ks, m, log)
  BY DEF ModeRuns
<1>1. \A j \in DOMAIN t : RefusedMode(t, ks2, j) <=> RefusedMode(q, ks, j + 1)
  BY ShiftSays
<1>2. /\ 1 \in DOMAIN q /\ DOMAIN q \subseteq Nat \ {0}
      /\ \A j \in DOMAIN t : j + 1 \in DOMAIN q
  BY ShiftFacts
<1>3. q[1].what # "mode" /\ ModeAt(q, ks, 1)
  BY DEF TakenMode, AnswerTo, ModeAt
<1>4. ModeLast(t, ks2, m)
  BY <1>0, ShiftLast
<1>5. ModeTaken(t, ks2, m, log)
  BY <1>0, <1>3, ShiftTaken
<1>6. ModeRefused(t, ks2, m, v, log, nt)
  BY <1>1, <1>2 DEF ModeRefused
<1>7. ModeNone(t, ks2, m, log, v, log, nt)
  <2> SUFFICES ASSUME \A j \in DOMAIN t : ~ModeAt(t, ks2, j) PROVE log = m /\ v = m
    BY DEF ModeNone, ModeIsRight
  <2>1. \A j \in DOMAIN q : j > 1 => ~ModeAt(q, ks, j)
    <3>1. \A j \in DOMAIN q : j # 1 => ~ModeAt(q, ks, j)
      BY ShiftNone
    <3> QED
      BY <3>1, <1>2
  <2>2. v = m
    BY <2>1, <1>0, <1>2, <1>3 DEF ModeLast
  <2>3. \A i \in DOMAIN q : ~(i < 1)
    BY <1>2
  <2>4. log = m
    BY <2>1, <2>3, <1>0, <1>2 DEF ModeTaken
  <2> QED
    BY <2>2, <2>4
<1> QED
  BY <1>4, <1>5, <1>6, <1>7 DEF ModeRuns

\* An answer that the mode was refused: the log goes back.
LEMMA RefusedHeadRuns ==
  ASSUME NEW q, NEW t, NEW ks, NEW ks2, NEW m, NEW log, NEW choice, NEW row, NEW nt,
         Shifted(q, t), Kept(t, ks, ks2), RefusedMode(q, ks, 1),
         \A j \in DOMAIN q : AnswerTo(q, ks, j, "mode") => j = 1,
         ModeRuns(q, ks, m, log, choice, row, nt)
  PROVE  ModeRuns(t, ks2, m, ks[q[1].to].previous, choice, row, nt)
<1>0. ModeLast(q, ks, m) /\ ModeRefused(q, ks, m, choice, row, nt)
  BY DEF ModeRuns
<1>1. \A j \in DOMAIN t : /\ TakenMode(t, ks2, j) <=> TakenMode(q, ks, j + 1)
                          /\ RefusedMode(t, ks2, j) <=> RefusedMode(q, ks, j + 1)
  BY ShiftSays
<1>2. /\ 1 \in DOMAIN q /\ DOMAIN q \subseteq Nat \ {0} /\ DOMAIN t \subseteq Nat \ {0}
      /\ \A j \in DOMAIN t : j + 1 \in DOMAIN q
  BY ShiftFacts
<1>3. \A j \in DOMAIN t : ~TakenMode(t, ks2, j) /\ ~RefusedMode(t, ks2, j)
  <2> TAKE j \in DOMAIN t
  <2>1. j + 1 \in DOMAIN q /\ j + 1 # 1
    BY <1>2
  <2>2. ~AnswerTo(q, ks, j + 1, "mode")
    BY <2>1
  <2> QED
    BY <2>2, <1>1 DEF TakenMode, RefusedMode
<1>4. ModeLast(t, ks2, m)
  BY <1>0, ShiftLast
<1>5. ModeNone(t, ks2, m, ks[q[1].to].previous, choice, row, nt)
  <2> SUFFICES ASSUME \A j \in DOMAIN t : ~ModeAt(t, ks2, j)
               PROVE  ks[q[1].to].previous = m /\ ModeIsRight(m, choice, row, nt)
    BY DEF ModeNone
  <2>1. \A j \in DOMAIN q : j > 1 => ~ModeAt(q, ks, j)
    <3>1. \A j \in DOMAIN q : j # 1 => ~ModeAt(q, ks, j)
      BY ShiftNone
    <3> QED
      BY <3>1, <1>2
  <2> QED
    BY <2>1, <1>0, <1>2 DEF ModeRefused
<1>6. ModeTaken(t, ks2, m, ks[q[1].to].previous)
  BY <1>3 DEF ModeTaken
<1>7. ModeRefused(t, ks2, m, choice, row, nt)
  BY <1>3 DEF ModeRefused
<1> QED
  BY <1>4, <1>5, <1>6, <1>7 DEF ModeRuns
\* A message behind the queue that says nothing of the mode.
LEMMA OtherJoinRuns ==
  ASSUME NEW q, NEW e, NEW t, NEW ks, NEW ks2, NEW m, NEW log, NEW choice, NEW row, NEW nt,
         Joined(q, e, t), Kept(q, ks, ks2), e.what # "mode", e.what = "answer" => ks2[e.to].id # "mode",
         ModeRuns(q, ks, m, log, choice, row, nt)
  PROVE  ModeRuns(t, ks2, m, log, choice, row, nt)
<1>0. ModeLast(q, ks, m) /\ ModeNone(q, ks, m, log, choice, row, nt) /\ ModeTaken(q, ks, m, log)
      /\ ModeRefused(q, ks, m, choice, row, nt)
  BY DEF ModeRuns
<1>1. PICK n \in Nat : DOMAIN q = 1..n /\ DOMAIN t = 1..(n + 1) /\ t[n + 1] = e /\ \A i \in 1..n : t[i] = q[i]
  BY DEF Joined
<1>2. \A j \in DOMAIN q :
         /\ ModeAt(t, ks2, j) <=> ModeAt(q, ks, j)
         /\ TakenMode(t, ks2, j) <=> TakenMode(q, ks, j)
         /\ RefusedMode(t, ks2, j) <=> RefusedMode(q, ks, j)
         /\ t[j].what = q[j].what /\ t[j].options = q[j].options
         /\ RefusedMode(t, ks2, j) => ks2[t[j].to].previous = ks[q[j].to].previous
  <2> TAKE j \in DOMAIN q
  <2> QED
    BY <1>1, JoinSays
<1>3. ~ModeAt(t, ks2, n + 1) /\ ~TakenMode(t, ks2, n + 1) /\ ~RefusedMode(t, ks2, n + 1) /\ t[n + 1].what # "mode"
  BY <1>1 DEF ModeAt, TakenMode, RefusedMode, AnswerTo
<1>4. DOMAIN q \subseteq DOMAIN t /\ \A j \in DOMAIN t : j \in DOMAIN q \/ j = n + 1
  BY <1>1
<1>5. ModeLast(t, ks2, m)
  BY <1>0, <1>2, <1>3, <1>4 DEF ModeLast
<1>6. ModeNone(t, ks2, m, log, choice, row, nt)
  BY <1>0, <1>2, <1>4 DEF ModeNone
<1>7. ModeTaken(t, ks2, m, log)
  <2> SUFFICES ASSUME NEW k \in DOMAIN t, TakenMode(t, ks2, k), \A j \in DOMAIN t : j > k => ~ModeAt(t, ks2, j)
               PROVE  /\ \A i \in DOMAIN t : i < k /\ t[i].what = "mode" =>
                           t[i].options.mode = m \/ \E j \in DOMAIN t : i < j /\ j < k /\ t[j].what = "mode"
                      /\ (\A i \in DOMAIN t : i < k => t[i].what # "mode") => log = m
    BY DEF ModeTaken
  <2>1. k \in DOMAIN q /\ TakenMode(q, ks, k) /\ \A j \in DOMAIN q : j > k => ~ModeAt(q, ks, j)
    BY <1>2, <1>3, <1>4
  <2>2. /\ \A i \in DOMAIN q : i < k /\ q[i].what = "mode" =>
             q[i].options.mode = m \/ \E j \in DOMAIN q : i < j /\ j < k /\ q[j].what = "mode"
        /\ (\A i \in DOMAIN q : i < k => q[i].what # "mode") => log = m
    BY <1>0, <2>1 DEF ModeTaken
  <2>3. ASSUME NEW i \in DOMAIN t, i < k, t[i].what = "mode", t[i].options.mode # m
        PROVE  \E j \in DOMAIN t : i < j /\ j < k /\ t[j].what = "mode"
    <3>1. i \in DOMAIN q
      BY <2>3, <1>3, <1>4
    <3>2. \E j \in DOMAIN q : i < j /\ j < k /\ q[j].what = "mode"
      BY <3>1, <2>2, <2>3, <1>2
    <3> QED
      BY <3>2, <1>2, <1>4
  <2>4. (\A i \in DOMAIN t : i < k => t[i].what # "mode") => \A i \in DOMAIN q : i < k => q[i].what # "mode"
    BY <1>2, <1>4
  <2> QED
    BY <2>2, <2>3, <2>4
<1>8. ModeRefused(t, ks2, m, choice, row, nt)
  <2> SUFFICES ASSUME NEW k \in DOMAIN t, RefusedMode(t, ks2, k)
               PROVE  /\ \A i \in DOMAIN t : i < k => t[i].what # "mode"
                      /\ (\A j \in DOMAIN t : j > k => ~ModeAt(t, ks2, j)) =>
                           ks2[t[k].to].previous = m /\ ModeIsRight(m, choice, row, nt)
    BY DEF ModeRefused
  <2>1. k \in DOMAIN q /\ RefusedMode(q, ks, k) /\ ks2[t[k].to].previous = ks[q[k].to].previous
    BY <1>2, <1>3, <1>4
  <2>2. /\ \A i \in DOMAIN q : i < k => q[i].what # "mode"
        /\ (\A j \in DOMAIN q : j > k => ~ModeAt(q, ks, j)) =>
             ks[q[k].to].previous = m /\ ModeIsRight(m, choice, row, nt)
    BY <1>0, <2>1 DEF ModeRefused
  <2>3. \A i \in DOMAIN t : i < k => t[i].what # "mode"
    BY <2>2, <1>2, <1>3, <1>4
  <2>4. (\A j \in DOMAIN t : j > k => ~ModeAt(t, ks2, j)) => \A j \in DOMAIN q : j > k => ~ModeAt(q, ks, j)
    BY <1>2, <1>4
  <2> QED
    BY <2>1, <2>2, <2>3, <2>4
<1> QED
  BY <1>5, <1>6, <1>7, <1>8 DEF ModeRuns

\* An update of the mode behind the queue.
LEMMA ToldJoinRuns ==
  ASSUME NEW q, NEW e, NEW t, NEW ks, NEW ks2, NEW m, NEW log, NEW choice, NEW row, NEW nt,
         Joined(q, e, t), Kept(q, ks, ks2), e.what = "mode",
         ModeRuns(q, ks, m, log, choice, row, nt)
  PROVE  ModeRuns(t, ks2, e.options.mode, log, choice, row, nt)
<1>0. ModeRefused(q, ks, m, choice, row, nt)
  BY DEF ModeRuns
<1>1. PICK n \in Nat : DOMAIN q = 1..n /\ DOMAIN t = 1..(n + 1) /\ t[n + 1] = e /\ \A i \in 1..n : t[i] = q[i]
  BY DEF Joined
<1>2. \A j \in DOMAIN q :
         /\ TakenMode(t, ks2, j) <=> TakenMode(q, ks, j)
         /\ RefusedMode(t, ks2, j) <=> RefusedMode(q, ks, j)
         /\ t[j].what = q[j].what
  <2> TAKE j \in DOMAIN q
  <2> QED
    BY <1>1, JoinSays
<1>3. ModeAt(t, ks2, n + 1) /\ ~TakenMode(t, ks2, n + 1) /\ ~RefusedMode(t, ks2, n + 1)
  BY <1>1 DEF ModeAt, TakenMode, RefusedMode, AnswerTo
<1>4. /\ n + 1 \in DOMAIN t /\ t[n + 1].options.mode = e.options.mode
      /\ \A j \in DOMAIN t : j = n + 1 \/ (j \in DOMAIN q /\ n + 1 > j)
      /\ DOMAIN t \subseteq Nat
  BY <1>1
<1>5. ModeLast(t, ks2, e.options.mode)
  BY <1>3, <1>4 DEF ModeLast
<1>6. ModeNone(t, ks2, e.options.mode, log, choice, row, nt)
  BY <1>3, <1>4 DEF ModeNone
<1>7. ModeTaken(t, ks2, e.options.mode, log)
  <2> SUFFICES ASSUME NEW k \in DOMAIN t, TakenMode(t, ks2, k), \A j \in DOMAIN t : j > k => ~ModeAt(t, ks2, j)
               PROVE  FALSE
    BY DEF ModeTaken
  <2> QED
    BY <1>3, <1>4
<1>8. ModeRefused(t, ks2, e.options.mode, choice, row, nt)
  <2> SUFFICES ASSUME NEW k \in DOMAIN t, RefusedMode(t, ks2, k)
               PROVE  /\ \A i \in DOMAIN t : i < k => t[i].what # "mode"
                      /\ \E j \in DOMAIN t : j > k /\ ModeAt(t, ks2, j)
    BY DEF ModeRefused
  <2>1. k \in DOMAIN q /\ RefusedMode(q, ks, k) /\ n + 1 > k
    BY <1>2, <1>3, <1>4
  <2>2. \A i \in DOMAIN q : i < k => q[i].what # "mode"
    BY <1>0, <2>1 DEF ModeRefused
  <2>3. \A i \in DOMAIN t : i < k => i \in DOMAIN q
    BY <2>1, <1>1
  <2> QED
    BY <2>1, <2>2, <2>3, <1>2, <1>3, <1>4
<1> QED
  BY <1>5, <1>6, <1>7, <1>8 DEF ModeRuns

\* An answer behind the queue that the mode was taken.
LEMMA TakenJoinRuns ==
  ASSUME NEW q, NEW e, NEW t, NEW ks, NEW ks2, NEW m, NEW log, NEW choice, NEW row, NEW nt,
         Joined(q, e, t), Kept(q, ks, ks2), e.what = "answer", e.ok, ks2[e.to].id = "mode", e.options.mode = m,
         \A j \in DOMAIN q : ~RefusedMode(q, ks, j),
         \A i \in DOMAIN q : q[i].what = "mode" =>
           q[i].options.mode = m \/ \E j \in DOMAIN q : i < j /\ q[j].what = "mode",
         (\A i \in DOMAIN q : q[i].what # "mode") => log = m
  PROVE  ModeRuns(t, ks2, m, log, choice, row, nt)
<1>1. PICK n \in Nat : DOMAIN q = 1..n /\ DOMAIN t = 1..(n + 1) /\ t[n + 1] = e /\ \A i \in 1..n : t[i] = q[i]
  BY DEF Joined
<1>2. \A j \in DOMAIN q :
         /\ RefusedMode(t, ks2, j) <=> RefusedMode(q, ks, j)
         /\ t[j].what = q[j].what /\ t[j].options = q[j].options
  BY <1>1, JoinSays
<1>3. ModeAt(t, ks2, n + 1) /\ ~RefusedMode(t, ks2, n + 1) /\ t[n + 1].what # "mode"
  BY <1>1 DEF ModeAt, RefusedMode, AnswerTo
<1>4. /\ n + 1 \in DOMAIN t /\ t[n + 1].options.mode = m
      /\ \A j \in DOMAIN t : j = n + 1 \/ (j \in DOMAIN q /\ n + 1 > j)
      /\ \A j \in DOMAIN q : j \in DOMAIN t /\ n + 1 > j /\ j < n + 1
      /\ DOMAIN t \subseteq Nat
  BY <1>1
<1>5. ModeLast(t, ks2, m)
  BY <1>3, <1>4 DEF ModeLast
<1>6. ModeNone(t, ks2, m, log, choice, row, nt)
  BY <1>3, <1>4 DEF ModeNone
<1>7. ModeTaken(t, ks2, m, log)
  <2> SUFFICES ASSUME NEW k \in DOMAIN t, TakenMode(t, ks2, k), \A j \in DOMAIN t : j > k => ~ModeAt(t, ks2, j)
               PROVE  /\ \A i \in DOMAIN t : i < k /\ t[i].what = "mode" =>
                           t[i].options.mode = m \/ \E j \in DOMAIN t : i < j /\ j < k /\ t[j].what = "mode"
                      /\ (\A i \in DOMAIN t : i < k => t[i].what # "mode") => log = m
    BY DEF ModeTaken
  <2>1. k = n + 1
    BY <1>3, <1>4
  <2>2. ASSUME NEW i \in DOMAIN t, i < k, t[i].what = "mode", t[i].options.mode # m
        PROVE  \E j \in DOMAIN t : i < j /\ j < k /\ t[j].what = "mode"
    <3>1. i \in DOMAIN q
      BY <2>2, <1>3, <1>4
    <3>2. \E j \in DOMAIN q : i < j /\ q[j].what = "mode"
      BY <3>1, <2>2, <1>2
    <3> QED
      BY <3>2, <2>1, <1>2, <1>4
  <2>3. (\A i \in DOMAIN t : i < k => t[i].what # "mode") => \A i \in DOMAIN q : q[i].what # "mode"
    BY <2>1, <1>2, <1>4
  <2> QED
    BY <2>2, <2>3
<1>8. ModeRefused(t, ks2, m, choice, row, nt)
  BY <1>2, <1>3, <1>4 DEF ModeRefused
<1> QED
  BY <1>5, <1>6, <1>7, <1>8 DEF ModeRuns

\* An answer in an empty queue that the mode was refused.
LEMMA RefusedJoinRuns ==
  ASSUME NEW q, NEW e, NEW t, NEW ks2, NEW m, NEW log, NEW choice, NEW row, NEW nt,
         Joined(q, e, t), DOMAIN q = {}, e.what = "answer", ~e.ok, ks2[e.to].id = "mode", e.options.mode = m,
         ks2[e.to].previous = m, ModeIsRight(m, choice, row, nt)
  PROVE  ModeRuns(t, ks2, m, log, choice, row, nt)
<1>1. DOMAIN t = {1} /\ t[1] = e
  <2>1. PICK n \in Nat : DOMAIN q = 1..n /\ DOMAIN t = 1..(n + 1) /\ t[n + 1] = e
    BY DEF Joined
  <2>2. n = 0
    BY <2>1
  <2> QED
    BY <2>1, <2>2
<1>2. ModeAt(t, ks2, 1) /\ ~TakenMode(t, ks2, 1) /\ t[1].what # "mode" /\ t[1].options.mode = m
  BY <1>1 DEF ModeAt, TakenMode, AnswerTo
<1>3. ModeLast(t, ks2, m)
  BY <1>1, <1>2 DEF ModeLast
<1>4. ModeNone(t, ks2, m, log, choice, row, nt)
  BY <1>1, <1>2 DEF ModeNone
<1>5. ModeTaken(t, ks2, m, log)
  BY <1>1, <1>2 DEF ModeTaken
<1>6. ModeRefused(t, ks2, m, choice, row, nt)
  BY <1>1, <1>2 DEF ModeRefused
<1> QED
  BY <1>3, <1>4, <1>5, <1>6 DEF ModeRuns

\* The settings without the head: the last message is the same, and only the head may have been one.
LEMMA ShiftSettings ==
  ASSUME NEW q, NEW t, NEW ks, NEW ks2, NEW m, NEW e, NEW all, Shifted(q, t), Kept(t, ks, ks2), SettingsLast(q, ks, m, e, all)
  PROVE  /\ SettingsLast(t, ks2, m, e, all)
         /\ (\A j \in DOMAIN t : ~SettingAt(t, ks2, all, j)) => \A j \in DOMAIN q : j # 1 => ~SettingAt(q, ks, all, j)
<1>1. \A j \in DOMAIN t : (SettingAt(t, ks2, all, j) <=> SettingAt(q, ks, all, j + 1)) /\ t[j].options = q[j + 1].options
  BY ShiftSetting
<1>2. /\ DOMAIN q \subseteq Nat \ {0} /\ DOMAIN t \subseteq Nat \ {0}
      /\ \A j \in DOMAIN t : j + 1 \in DOMAIN q
      /\ \A i \in DOMAIN q : i = 1 \/ (i - 1 \in DOMAIN t /\ (i - 1) + 1 = i)
  BY ShiftFacts
<1>3. SettingsLast(t, ks2, m, e, all)
  <2> SUFFICES ASSUME NEW i \in DOMAIN t, SettingAt(t, ks2, all, i),
                      ~(t[i].options.model = m /\ (all = TRUE => t[i].options.effort = e))
               PROVE  \E j \in DOMAIN t : j > i /\ SettingAt(t, ks2, all, j)
    BY DEF SettingsLast
  <2>1. PICK j \in DOMAIN q : j > i + 1 /\ SettingAt(q, ks, all, j)
    BY <1>1, <1>2 DEF SettingsLast
  <2>2. j - 1 \in DOMAIN t /\ j - 1 > i /\ (j - 1) + 1 = j
    BY <1>2, <2>1
  <2> QED
    BY <2>1, <2>2, <1>1
<1>4. ASSUME \A j \in DOMAIN t : ~SettingAt(t, ks2, all, j), NEW j \in DOMAIN q, j # 1
      PROVE  ~SettingAt(q, ks, all, j)
  <2>1. j - 1 \in DOMAIN t /\ (j - 1) + 1 = j
    BY <1>2, <1>4
  <2> QED
    BY <2>1, <1>1, <1>4
<1> QED
  BY <1>3, <1>4

\* A head that says nothing of the settings.
LEMMA OtherHeadSets ==
  ASSUME NEW q, NEW t, NEW ks, NEW ks2, NEW m, NEW e, NEW log, NEW log2, NEW row, NEW row2, NEW all, NEW nt,
         Shifted(q, t), Kept(t, ks, ks2), ~SettingAt(q, ks, all, 1), SettingsRun(q, ks, m, e, log, row, all, nt),
         log2.model = log.model, row2.model = row.model,
         all = TRUE => log2.effort = log.effort /\ row2.effort = row.effort
  PROVE  SettingsRun(t, ks2, m, e, log2, row2, all, nt)
<1>1. SettingsLast(q, ks, m, e, all) /\ SettingsNone(q, ks, m, e, log, row, all, nt)
  BY DEF SettingsRun
<1>2. SettingsLast(t, ks2, m, e, all)
  BY <1>1, ShiftSettings
<1>3. SettingsNone(t, ks2, m, e, log2, row2, all, nt)
  <2> SUFFICES ASSUME \A j \in DOMAIN t : ~SettingAt(t, ks2, all, j)
               PROVE  /\ log2.model = m /\ (all = TRUE => log2.effort = e)
                      /\ SettingsAreRight(m, e, row2, all, nt)
    BY DEF SettingsNone
  <2>1. \A j \in DOMAIN q : ~SettingAt(q, ks, all, j)
    BY <1>1, ShiftSettings
  <2>2. log.model = m /\ (all = TRUE => log.effort = e) /\ SettingsAreRight(m, e, row, all, nt)
    BY <2>1, <1>1 DEF SettingsNone
  <2> QED
    BY <2>2 DEF SettingsAreRight
<1> QED
  BY <1>2, <1>3 DEF SettingsRun

\* A head that tells the settings: the log and the row follow it.
LEMMA ToldHeadSets ==
  ASSUME NEW q, NEW t, NEW ks, NEW ks2, NEW m, NEW e, NEW log, NEW log2, NEW row, NEW row2, NEW all, NEW nt,
         Shifted(q, t), Kept(t, ks, ks2), SettingAt(q, ks, all, 1), SettingsRun(q, ks, m, e, log, row, all, nt),
         log2.model = q[1].options.model, row2.model = q[1].options.model,
         all = TRUE => /\ log2.effort = q[1].options.effort
                       /\ q[1].options.effort # Unset => row2.effort = q[1].options.effort
  PROVE  SettingsRun(t, ks2, m, e, log2, row2, all, nt)
<1>1. SettingsLast(q, ks, m, e, all)
  BY DEF SettingsRun
<1>2. SettingsLast(t, ks2, m, e, all)
  BY <1>1, ShiftSettings
<1>3. SettingsNone(t, ks2, m, e, log2, row2, all, nt)
  <2> SUFFICES ASSUME \A j \in DOMAIN t : ~SettingAt(t, ks2, all, j)
               PROVE  /\ log2.model = m /\ (all = TRUE => log2.effort = e)
                      /\ SettingsAreRight(m, e, row2, all, nt)
    BY DEF SettingsNone
  <2>1. \A j \in DOMAIN q : j # 1 => ~SettingAt(q, ks, all, j)
    BY <1>1, ShiftSettings
  <2>2. 1 \in DOMAIN q /\ \A j \in DOMAIN q : ~(j > 1 /\ SettingAt(q, ks, all, j))
    <3>1. 1 \in DOMAIN q /\ DOMAIN q \subseteq Nat
      BY DEF Shifted
    <3> QED
      BY <3>1, <2>1
  <2>3. q[1].options.model = m /\ (all = TRUE => q[1].options.effort = e)
    BY <2>2, <1>1 DEF SettingsLast
  <2> QED
    BY <2>3 DEF SettingsAreRight
<1> QED
  BY <1>2, <1>3 DEF SettingsRun

\* A message behind the queue that says nothing of the settings.
LEMMA OtherJoinSets ==
  ASSUME NEW q, NEW x, NEW t, NEW ks, NEW ks2, NEW m, NEW e, NEW e2, NEW log, NEW log2, NEW row, NEW all, NEW nt,
         Joined(q, x, t), Kept(q, ks, ks2), SettingsRun(q, ks, m, e, log, row, all, nt),
         x.what # "options",
         x.what = "answer" /\ x.ok => ks2[x.to].id # "model" /\ (all = TRUE => ks2[x.to].id # "effort"),
         all = TRUE => e2 = e, log2.model = log.model, log2.effort = log.effort
  PROVE  SettingsRun(t, ks2, m, e2, log2, row, all, nt)
<1>0. SettingsLast(q, ks, m, e, all) /\ SettingsNone(q, ks, m, e, log, row, all, nt)
  BY DEF SettingsRun
<1>1. PICK n \in Nat : DOMAIN q = 1..n /\ DOMAIN t = 1..(n + 1) /\ t[n + 1] = x /\ \A i \in 1..n : t[i] = q[i]
  BY DEF Joined
<1>2. \A j \in DOMAIN q : (SettingAt(t, ks2, all, j) <=> SettingAt(q, ks, all, j)) /\ t[j].options = q[j].options
  BY <1>1, JoinSetting
<1>3. ~SettingAt(t, ks2, all, n + 1)
  BY <1>1 DEF SettingAt, AnswerTo
<1>4. DOMAIN q \subseteq DOMAIN t /\ \A j \in DOMAIN t : j \in DOMAIN q \/ j = n + 1
  BY <1>1
<1>5. SettingsLast(t, ks2, m, e2, all)
  BY <1>0, <1>2, <1>3, <1>4 DEF SettingsLast
<1>6. SettingsNone(t, ks2, m, e2, log2, row, all, nt)
  <2> SUFFICES ASSUME \A j \in DOMAIN t : ~SettingAt(t, ks2, all, j)
               PROVE  /\ log2.model = m /\ (all = TRUE => log2.effort = e2)
                      /\ SettingsAreRight(m, e2, row, all, nt)
    BY DEF SettingsNone
  <2>1. \A j \in DOMAIN q : ~SettingAt(q, ks, all, j)
    BY <1>2, <1>4
  <2>2. log.model = m /\ (all = TRUE => log.effort = e) /\ SettingsAreRight(m, e, row, all, nt)
    BY <2>1, <1>0 DEF SettingsNone
  <2> QED
    BY <2>2 DEF SettingsAreRight
<1> QED
  BY <1>5, <1>6 DEF SettingsRun

\* A message behind the queue that tells the settings.
LEMMA ToldJoinSets ==
  ASSUME NEW q, NEW x, NEW t, NEW ks, NEW ks2, NEW log, NEW row, NEW all, NEW nt,
         Joined(q, x, t),
         \/ x.what = "options"
         \/ x.what = "answer" /\ x.ok /\ (ks2[x.to].id = "model" \/ (all = TRUE /\ ks2[x.to].id = "effort"))
  PROVE  SettingsRun(t, ks2, x.options.model, x.options.effort, log, row, all, nt)
<1>1. PICK n \in Nat : DOMAIN q = 1..n /\ DOMAIN t = 1..(n + 1) /\ t[n + 1] = x /\ \A i \in 1..n : t[i] = q[i]
  BY DEF Joined
<1>2. SettingAt(t, ks2, all, n + 1) /\ n + 1 \in DOMAIN t /\ \A j \in DOMAIN t : j = n + 1 \/ n + 1 > j
  BY <1>1 DEF SettingAt, AnswerTo
<1>3. SettingsLast(t, ks2, x.options.model, x.options.effort, all)
  BY <1>1, <1>2 DEF SettingsLast
<1>4. SettingsNone(t, ks2, x.options.model, x.options.effort, log, row, all, nt)
  BY <1>2 DEF SettingsNone
<1> QED
  BY <1>3, <1>4 DEF SettingsRun
(***************************************************************************)
(* Requests, and what the adapter sends for them.                          *)
(***************************************************************************)

Answer(to, ok, agent) == Msg("answer", to, ok, OptionsIn(agent))
AllUpdate(agent, id) == OptionUpdate(agent, id, "all")

\* The agent c after the option of the agent a has got its value.
ChangedTo(c, a, id, value) ==
  /\ c \in AgentSet /\ c.id = a.id /\ c.context = a.context /\ c.up = a.up
  /\ id = "mode" => c.mode = value /\ c.model = a.model /\ c.effort = a.effort
  /\ id = "model" => c.mode = a.mode /\ c.model = value /\ c.effort = (IF value = "opus" THEN "low" ELSE Unset)
  /\ id = "effort" => c.mode = a.mode /\ c.model = a.model /\ c.effort = value

\* The change of an option is what ChangedTo says.
LEMMA ChangedIs ==
  ASSUME NEW a \in AgentSet, NEW id, NEW value, OptionValue(id, value)
  PROVE  ChangedTo(Changed(a, id, value), a, id, value)
<1>1. CASE id = "mode" /\ value \in Mode
  <2>1. Changed(a, id, value) = [a EXCEPT !.mode = value]
    BY <1>1 DEF Changed
  <2> QED
    BY <1>1, <2>1 DEF ChangedTo, AgentSet
<1>2. CASE id = "model" /\ value \in Model
  <2>1. Changed(a, id, value) = [a EXCEPT !.model = value, !.effort = IF value = "opus" THEN "low" ELSE Unset]
    BY <1>2 DEF Changed
  <2>2. (IF value = "opus" THEN "low" ELSE Unset) \in Effort \cup {Unset}
    BY DEF Effort
  <2> QED
    BY <1>2, <2>1, <2>2 DEF ChangedTo, AgentSet
<1>3. CASE id = "effort" /\ value \in Effort
  <2>1. Changed(a, id, value) = [a EXCEPT !.effort = value]
    BY <1>3 DEF Changed
  <2> QED
    BY <1>3, <2>1 DEF ChangedTo, AgentSet
<1> QED
  BY <1>1, <1>2, <1>3 DEF OptionValue

\* What a request makes of the agent a and of the queue q: b and t.
Taking(a, b, id, value, to, q, t) ==
  /\ ChangedTo(b, a, id, value) /\ (id = "effort" => a.effort # Unset)
  /\ \/ ~tells /\ t = Append(q, Answer(to, TRUE, b))
     \/ tells /\ t = Append(Append(q, AllUpdate(b, id)), Answer(to, TRUE, b))
FallingBack(a, b, id, value, to, q, t) ==
  /\ id = "mode" /\ value # AgentMode /\ ChangedTo(b, a, "mode", AgentMode)
  /\ t = Append(Append(q, AllUpdate(b, id)), Answer(to, TRUE, b))
Refusing(a, b, id, to, q, t) == b = a /\ t = Append(q, Answer(to, FALSE, a))

\* The answer and the update of an agent, and its options.
LEMMA MessagesAre ==
  ASSUME NEW a \in AgentSet, NEW id, NEW to \in Wish \cup {"restore"}, NEW ok \in BOOLEAN
  PROVE  /\ Answer(to, ok, a) \in MessageSet /\ AllUpdate(a, id) \in MessageSet /\ OptionsIn(a) \in MaybeOptions
         /\ Answer(to, ok, a).what = "answer" /\ Answer(to, ok, a).to = to /\ Answer(to, ok, a).ok = ok
         /\ Answer(to, ok, a).options = OptionsIn(a)
         /\ AllUpdate(a, id).what = (IF id = "mode" THEN "mode" ELSE "options") /\ AllUpdate(a, id).to = "all"
         /\ AllUpdate(a, id).options = OptionsIn(a)
         /\ OptionsIn(a).mode = a.mode /\ OptionsIn(a).model = a.model /\ OptionsIn(a).effort = a.effort
<1>1. OptionsIn(a) \in MaybeOptions
  BY DEF OptionsIn, MaybeOptions, AgentSet
<1>2. (IF id = "mode" THEN "mode" ELSE "options") \in {"mode", "options"}
  OBVIOUS
<1> QED
  BY <1>1, <1>2 DEF Answer, AllUpdate, OptionUpdate, Msg, MessageSet, OptionsIn

Reply(b, updates, to, ok, woe) == [agent |-> b, sent |-> Sent(updates, Answer(to, ok, b)), woe |-> woe]

\* The parts of a reply.
LEMMA ReplyIs ==
  ASSUME NEW b, NEW updates, NEW to, NEW ok, NEW woe, NEW o, o = Reply(b, updates, to, ok, woe)
  PROVE  o.agent = b /\ o.sent = Sent(updates, Answer(to, ok, b))
BY DEF Reply

\* A request is refused, taken with an update or without, or the adapter falls back.
LEMMA OutcomesAre ==
  ASSUME NEW a, NEW id, NEW value, NEW to, NEW o \in Outcomes(a, id, value, to)
  PROVE  \/ \E w : o = Reply(a, <<>>, to, FALSE, w)
         \/ /\ id = "effort" => a.effort # Unset
            /\ \/ tells /\ o = Reply(Changed(a, id, value), <<AllUpdate(Changed(a, id, value), id)>>, to, TRUE, 0)
               \/ ~tells /\ o = Reply(Changed(a, id, value), <<>>, to, TRUE, 0)
         \/ /\ id = "mode" /\ value # AgentMode
            /\ o = Reply(Changed(a, id, AgentMode), <<AllUpdate(Changed(a, id, AgentMode), id)>>, to, TRUE, 1)
<1>1. \A b, updates, ok, woe : [agent |-> b, sent |-> updates \o <<Msg("answer", to, ok, OptionsIn(b))>>, woe |-> woe]
                                 = Reply(b, updates, to, ok, woe)
  BY DEF Reply, Sent, Answer
<1>2. \A b : ToldOne(b, id) = <<AllUpdate(b, id)>>
  BY DEF ToldOne, AllUpdate, OptionUpdate
<1>3. CASE id = "effort" /\ a.effort = Unset
  <2>1. o = [agent |-> a, sent |-> <<>> \o <<Msg("answer", to, FALSE, OptionsIn(a))>>, woe |-> 0]
    BY <1>3 DEF Outcomes
  <2>2. o = Reply(a, <<>>, to, FALSE, 0)
    BY <2>1, <1>1
  <2> QED
    BY <2>2
<1>4. CASE ~(id = "effort" /\ a.effort = Unset)
  <2> DEFINE then(b, updates, ok, woe) == [agent |-> b, sent |-> updates \o <<Msg("answer", to, ok, OptionsIn(b))>>, woe |-> woe]
             taken == Changed(a, id, value)
  <2>1. Outcomes(a, id, value, to) =
          {then(taken, IF tells THEN ToldOne(taken, id) ELSE <<>>, TRUE, 0), then(a, <<>>, FALSE, 1)}
             \cup {then(Changed(a, id, m), ToldOne(Changed(a, id, m), id), TRUE, 1) :
                     m \in IF id = "mode" THEN {AgentMode} \ {value} ELSE {}}
    BY <1>4 DEF Outcomes
  <2>3. \A b, updates, ok, woe : then(b, updates, ok, woe) = Reply(b, updates, to, ok, woe)
    BY <1>1
  <2> HIDE DEF then, taken
  <2>2. \/ o = then(taken, IF tells THEN ToldOne(taken, id) ELSE <<>>, TRUE, 0)
        \/ o = then(a, <<>>, FALSE, 1)
        \/ \E m \in (IF id = "mode" THEN {AgentMode} \ {value} ELSE {}) :
             o = then(Changed(a, id, m), ToldOne(Changed(a, id, m), id), TRUE, 1)
    BY <2>1
  <2>4. CASE o = then(taken, IF tells THEN ToldOne(taken, id) ELSE <<>>, TRUE, 0)
    <3>1. CASE tells
      BY <2>4, <3>1, <2>3, <1>2, <1>4 DEF taken
    <3>2. CASE ~tells
      BY <2>4, <3>2, <2>3, <1>4 DEF taken
    <3> QED
      BY <3>1, <3>2
  <2>5. CASE o = then(a, <<>>, FALSE, 1)
    BY <2>5, <2>3
  <2>6. CASE \E m \in (IF id = "mode" THEN {AgentMode} \ {value} ELSE {}) :
               o = then(Changed(a, id, m), ToldOne(Changed(a, id, m), id), TRUE, 1)
    <3>1. id = "mode" /\ value # AgentMode /\ o = then(Changed(a, id, AgentMode), ToldOne(Changed(a, id, AgentMode), id), TRUE, 1)
      BY <2>6
    <3> QED
      BY <3>1, <2>3, <1>2
  <2> QED
    BY <2>2, <2>4, <2>5, <2>6
<1> QED
  BY <1>3, <1>4

\* The agent after a request, and the queue with what the adapter sends behind it.
LEMMA OutcomeIs ==
  ASSUME NEW a \in AgentSet, NEW id, NEW value, OptionValue(id, value), NEW to \in Wish \cup {"restore"},
         NEW q \in Seq(MessageSet), NEW o \in Outcomes(a, id, value, to)
  PROVE  /\ o.agent \in AgentSet /\ o.agent.id = a.id /\ o.agent.context = a.context /\ o.agent.up = a.up
         /\ q \o o.sent \in Seq(MessageSet)
         /\ \/ Taking(a, o.agent, id, value, to, q, q \o o.sent)
            \/ FallingBack(a, o.agent, id, value, to, q, q \o o.sent)
            \/ Refusing(a, o.agent, id, to, q, q \o o.sent)
<1> DEFINE taken == Changed(a, id, value)
           fallen == Changed(a, id, AgentMode)
<1>2. ChangedTo(taken, a, id, value)
  BY ChangedIs
<1>3. id = "mode" => ChangedTo(fallen, a, "mode", AgentMode)
  <2>1. OptionValue("mode", AgentMode)
    BY DEF OptionValue, AgentMode, Mode
  <2> QED
    BY <2>1, ChangedIs
<1>1. \/ \E w : o = Reply(a, <<>>, to, FALSE, w)
      \/ /\ id = "effort" => a.effort # Unset
         /\ \/ tells /\ o = Reply(taken, <<AllUpdate(taken, id)>>, to, TRUE, 0)
            \/ ~tells /\ o = Reply(taken, <<>>, to, TRUE, 0)
      \/ /\ id = "mode" /\ value # AgentMode
         /\ o = Reply(fallen, <<AllUpdate(fallen, id)>>, to, TRUE, 1)
  BY OutcomesAre
<1> HIDE DEF taken, fallen
<1>7. ASSUME NEW b \in AgentSet, NEW ok \in BOOLEAN, NEW w
      PROVE  /\ o = Reply(b, <<>>, to, ok, w) =>
                  o.agent = b /\ q \o o.sent = Append(q, Answer(to, ok, b)) /\ q \o o.sent \in Seq(MessageSet)
             /\ o = Reply(b, <<AllUpdate(b, id)>>, to, ok, w) =>
                  /\ o.agent = b /\ q \o o.sent = Append(Append(q, AllUpdate(b, id)), Answer(to, ok, b))
                  /\ q \o o.sent \in Seq(MessageSet)
  <2>1. Answer(to, ok, b) \in MessageSet /\ AllUpdate(b, id) \in MessageSet
    BY MessagesAre
  <2> DEFINE e == Answer(to, ok, b)
             x == AllUpdate(b, id)
  <2>2. q \o Sent(<<x>>, e) = Append(Append(q, x), e) /\ q \o Sent(<<>>, e) = Append(q, e)
    BY <2>1, JoinsAre
  <2>3. Append(q, e) \in Seq(MessageSet) /\ Append(Append(q, x), e) \in Seq(MessageSet)
    <3> HIDE DEF e, x
    <3> e \in MessageSet /\ x \in MessageSet
      BY <2>1 DEF e, x
    <3> QED
      BY AppendIs
  <2>4. /\ o = Reply(b, <<>>, to, ok, w) => o.agent = b /\ o.sent = Sent(<<>>, e)
        /\ o = Reply(b, <<x>>, to, ok, w) => o.agent = b /\ o.sent = Sent(<<x>>, e)
    BY ReplyIs
  <2> QED
    BY <2>2, <2>3, <2>4
<1>4. CASE \E w : o = Reply(a, <<>>, to, FALSE, w)
  BY <1>4, <1>7 DEF Refusing
<1>5. CASE /\ id = "effort" => a.effort # Unset
           /\ \/ tells /\ o = Reply(taken, <<AllUpdate(taken, id)>>, to, TRUE, 0)
              \/ ~tells /\ o = Reply(taken, <<>>, to, TRUE, 0)
  <2>1. taken \in AgentSet /\ taken.id = a.id /\ taken.context = a.context /\ taken.up = a.up
    BY <1>2 DEF ChangedTo
  <2> QED
    BY <1>2, <1>5, <1>7, <2>1 DEF Taking
<1>6. CASE id = "mode" /\ value # AgentMode /\ o = Reply(fallen, <<AllUpdate(fallen, id)>>, to, TRUE, 1)
  <2>1. fallen \in AgentSet /\ fallen.id = a.id /\ fallen.context = a.context /\ fallen.up = a.up
    BY <1>3, <1>6 DEF ChangedTo
  <2> QED
    BY <1>3, <1>6, <1>7, <2>1 DEF FallingBack
<1> QED
  BY <1>1, <1>4, <1>5, <1>6

\* The next option of a restore, and its value.
LEMMA NextIs ==
  ASSUME NEW r \in RestoreSet
  PROVE  /\ NextOption(r) \in OptionIds \cup {"none"}
         /\ NextOption(r) # "none" => /\ OptionValue(NextOption(r), r.row[NextOption(r)])
                                      /\ UpTo(NextOption(r)) \in SUBSET OptionIds
         /\ NextOption(r) = "mode" <=> "mode" \notin r.done /\ r.known.mode # Unset /\ r.row.mode \notin {Unset, r.known.mode}
         /\ NextOption(r) = "model" <=>
              /\ NextOption(r) # "mode" /\ "model" \notin r.done
              /\ r.known.model # Unset /\ r.row.model \notin {Unset, r.known.model}
         /\ NextOption(r) = "effort" <=>
              /\ NextOption(r) \notin {"mode", "model"} /\ "effort" \notin r.done
              /\ r.known.effort # Unset /\ r.row.effort \notin {Unset, r.known.effort}
<1> DEFINE differs(id) == id \notin r.done /\ WantedValue(r, id) \notin {Unset, r.known[id]}
<1>0. r.row \in MaybeOptions /\ r.known \in MaybeOptions
  BY DEF RestoreSet
<1>1. NextOption(r) = IF differs("mode") THEN "mode" ELSE IF differs("model") THEN "model"
                      ELSE IF differs("effort") THEN "effort" ELSE "none"
  BY DEF NextOption
<1>2. differs("mode") <=> "mode" \notin r.done /\ r.known.mode # Unset /\ r.row.mode \notin {Unset, r.known.mode}
  BY DEF WantedValue
<1>3. differs("model") <=> "model" \notin r.done /\ r.known.model # Unset /\ r.row.model \notin {Unset, r.known.model}
  BY DEF WantedValue
<1>4. differs("effort") <=> "effort" \notin r.done /\ r.known.effort # Unset /\ r.row.effort \notin {Unset, r.known.effort}
  BY DEF WantedValue
<1> HIDE DEF differs
<1>5. CASE NextOption(r) = "mode"
  BY <1>0, <1>1, <1>2, <1>5 DEF MaybeOptions, OptionValue, UpTo, OptionIds
<1>6. CASE NextOption(r) = "model"
  BY <1>0, <1>1, <1>2, <1>3, <1>6 DEF MaybeOptions, OptionValue, UpTo, OptionIds
<1>7. CASE NextOption(r) = "effort"
  BY <1>0, <1>1, <1>2, <1>3, <1>4, <1>7 DEF MaybeOptions, OptionValue, UpTo, OptionIds
<1>8. CASE NextOption(r) = "none"
  BY <1>1, <1>2, <1>3, <1>4, <1>8 DEF OptionIds
<1> QED
  BY <1>1, <1>5, <1>6, <1>7, <1>8

\* A conversation that was loaded or minted has fresh options.
LEMMA FreshIs ==
  ASSUME NEW i \in Nat, NEW c \in BOOLEAN
  PROVE  /\ FreshConversation(i, c) \in AgentSet
         /\ FreshConversation(i, c).id = i /\ FreshConversation(i, c).context = c /\ FreshConversation(i, c).up
         /\ FreshConversation(i, c).mode = AgentMode /\ FreshConversation(i, c).model = "haiku"
         /\ FreshConversation(i, c).effort = Unset
         /\ OptionsIn(FreshConversation(i, c)) = FreshOptions
BY DEF FreshConversation, AgentSet, FreshOptions, OptionsIn, AgentMode, Mode, Model

\* The updates after a load, behind the queue q.
LEMMA ToldIs ==
  ASSUME NEW a \in AgentSet, NEW q \in Seq(MessageSet)
  PROVE  /\ q \o Told(a) = Append(Append(q, AllUpdate(a, "mode")), AllUpdate(a, "options"))
         /\ q \o Told(a) \in Seq(MessageSet) /\ Told(a) \in Seq(MessageSet)
<1>1. AllUpdate(a, "mode") \in MessageSet /\ AllUpdate(a, "options") \in MessageSet
  BY MessagesAre
<1>2. Told(a) = <<AllUpdate(a, "mode"), AllUpdate(a, "options")>>
  BY DEF Told, AllUpdate, OptionUpdate
<1> PICK x \in MessageSet, e \in MessageSet : x = AllUpdate(a, "mode") /\ e = AllUpdate(a, "options")
  BY <1>1
<1>3. q \o Sent(<<x>>, e) = Append(Append(q, x), e)
  BY JoinsAre
<1>4. Sent(<<x>>, e) = <<x, e>>
  <2>1. <<x>> \in Seq(MessageSet)
    OBVIOUS
  <2>2. <<x>> \o <<e>> = Append(<<x>>, e)
    BY <2>1, AppendIsConcat
  <2>3. Append(<<x>>, e) = <<x, e>>
    <3> PICK u \in Seq(MessageSet) : u = <<x>>
      BY <2>1
    <3>1. Len(u) = 1 /\ u[1] = x
      OBVIOUS
    <3>2. Len(Append(u, e)) = 2 /\ Append(u, e) \in Seq(MessageSet) /\ Append(u, e)[2] = e /\ Append(u, e)[1] = x
      BY <3>1, AppendProperties
    <3>3. <<x, e>> \in Seq(MessageSet) /\ Len(<<x, e>>) = 2 /\ <<x, e>>[1] = x /\ <<x, e>>[2] = e
      OBVIOUS
    <3>4. \A i \in 1..2 : Append(u, e)[i] = <<x, e>>[i]
      <4>1. 1..2 = {1, 2}
        OBVIOUS
      <4> QED
        BY <3>2, <3>3, <4>1
    <3>5. PICK v \in Seq(MessageSet) : v = <<x, e>>
      BY <3>3
    <3>6. Len(v) = 2 /\ \A i \in 1..2 : Append(u, e)[i] = v[i]
      BY <3>3, <3>4, <3>5
    <3>7. Append(u, e) = v
      BY <3>2, <3>6, SeqEqual
    <3> QED
      BY <3>5, <3>7
  <2> QED
    BY <2>2, <2>3 DEF Sent
<1>5. Append(Append(q, x), e) \in Seq(MessageSet)
  BY AppendIs
<1>6. <<x, e>> \in Seq(MessageSet)
  OBVIOUS
<1> QED
  BY <1>2, <1>3, <1>4, <1>5, <1>6

\* What the agent tells of a change that it makes by itself.
OwnUpdate(a, id) == OptionUpdate(a, id, "own")

\* The update of a change that the agent makes by itself.
LEMMA OwnIs ==
  ASSUME NEW a \in AgentSet, NEW id, NEW q \in Seq(MessageSet)
  PROVE  /\ OwnUpdate(a, id) \in MessageSet /\ Append(q, OwnUpdate(a, id)) \in Seq(MessageSet)
         /\ OwnUpdate(a, id).what = (IF id = "mode" THEN "mode" ELSE "options") /\ OwnUpdate(a, id).to = "own"
         /\ OwnUpdate(a, id).options = OptionsIn(a)
<1>2. OptionsIn(a) \in MaybeOptions
  BY DEF OptionsIn, MaybeOptions, AgentSet
<1>3. (IF id = "mode" THEN "mode" ELSE "options") \in {"mode", "options"}
  OBVIOUS
<1>4. OwnUpdate(a, id) \in MessageSet
  BY <1>2, <1>3 DEF OwnUpdate, OptionUpdate, Msg, MessageSet
<1>5. /\ OwnUpdate(a, id).what = (IF id = "mode" THEN "mode" ELSE "options") /\ OwnUpdate(a, id).to = "own"
      /\ OwnUpdate(a, id).options = OptionsIn(a)
  BY DEF OwnUpdate, OptionUpdate, Msg
<1>7. Append(q, OwnUpdate(a, id)) \in Seq(MessageSet)
  BY <1>4, AppendIs
<1> QED
  BY <1>4, <1>5, <1>7

\* The head of the queue is a message, and the rest is a queue.
LEMMA HeadIs ==
  ASSUME TypesFit, upwards # <<>>
  PROVE  /\ Head(upwards) \in MessageSet /\ Tail(upwards) \in Seq(MessageSet)
         /\ Head(upwards).options \in MaybeOptions /\ Head(upwards).ok \in BOOLEAN
         /\ Head(upwards).options.mode \in Mode \cup {Unset} /\ Head(upwards).options.model \in Model \cup {Unset}
         /\ Head(upwards).options.effort \in Effort \cup {Unset}
         /\ Head(upwards) = upwards[1] /\ Shifted(upwards, Tail(upwards))
<1>1. upwards \in Seq(MessageSet)
  BY DEF TypesFit
<1>2. /\ Head(upwards) \in MessageSet /\ Tail(upwards) \in Seq(MessageSet)
      /\ Head(upwards) = upwards[1] /\ Shifted(upwards, Tail(upwards))
  BY <1>1, TailIs
<1> PICK h \in MessageSet : h = Head(upwards)
  BY <1>2
<1>3. h.options \in MaybeOptions /\ h.ok \in BOOLEAN
  BY DEF MessageSet
<1>4. h.options.mode \in Mode \cup {Unset} /\ h.options.model \in Model \cup {Unset} /\ h.options.effort \in Effort \cup {Unset}
  BY <1>3 DEF MaybeOptions
<1> QED
  BY <1>2, <1>3, <1>4

\* The row as a restore reads it.
LEMMA RowIs ==
  ASSUME record \in RowSet
  PROVE  /\ Row \in MaybeOptions /\ Row.mode = (IF record.mode = Unset THEN DefaultMode ELSE record.mode) /\ Row.mode \in Mode
         /\ Row.model = record.model /\ Row.effort = record.effort /\ OptionsIn(record).mode = record.mode
         /\ record.mode # Unset => Row.mode = record.mode
BY DEF Row, RowSet, OptionsIn, MaybeOptions, DefaultMode, Mode

\* The row after recordConfigOptions.
LEMMA MergedIs ==
  ASSUME record \in RowSet, NEW o \in MaybeOptions
  PROVE  /\ Merged(o) \in RowSet /\ Merged(o).mode = record.mode /\ Merged(o).model = o.model
         /\ Merged(o).effort = (IF o.effort = Unset THEN record.effort ELSE o.effort)
         /\ Merged(o).id = record.id /\ Merged(o).fork = record.fork /\ Merged(o).inherits = record.inherits
BY DEF Merged, RowSet, MaybeOptions

\* The fields of options, also with another mode.
LEMMA OptionFields ==
  ASSUME NEW o \in MaybeOptions
  PROVE  /\ o.mode \in Mode \cup {Unset} /\ o.model \in Model \cup {Unset} /\ o.effort \in Effort \cup {Unset}
         /\ \A m \in Mode \cup {Unset} : /\ [o EXCEPT !.mode = m] \in MaybeOptions /\ [o EXCEPT !.mode = m].mode = m
                                         /\ [o EXCEPT !.mode = m].model = o.model /\ [o EXCEPT !.mode = m].effort = o.effort
BY DEF MaybeOptions

\* NowSet changes one option, and only one that is there.
LEMMA NowSetIs ==
  ASSUME NEW o \in MaybeOptions, NEW id, NEW value, OptionValue(id, value)
  PROVE  /\ NowSet(o, id, value) \in MaybeOptions
         /\ \A f \in OptionIds : NowSet(o, id, value)[f] = IF f = id /\ o[f] # Unset THEN value ELSE o[f]
<1>1. CASE id = "mode" /\ value \in Mode
  BY <1>1 DEF NowSet, MaybeOptions, OptionIds
<1>2. CASE id = "model" /\ value \in Model
  BY <1>2 DEF NowSet, MaybeOptions, OptionIds
<1>3. CASE id = "effort" /\ value \in Effort
  BY <1>3 DEF NowSet, MaybeOptions, OptionIds
<1> QED
  BY <1>1, <1>2, <1>3 DEF OptionValue

IsRestore(r) == r \in RestoreSet /\ (r.step = "none" <=> r = NoRestore)

(***************************************************************************)
(* The types are kept.                                                     *)
(***************************************************************************)

\* The empty values are of their types.
LEMMA NoOnesAre ==
  /\ NoRestore \in RestoreSet /\ IsRestore(NoRestore) /\ NoAsk \in AskSet /\ NoOptions \in MaybeOptions
  /\ Nothing \in AgentSet /\ [Nothing EXCEPT !.up = TRUE] \in AgentSet
  /\ NoAsk.id = "none" /\ NoRestore.step = "none" /\ NoRestore.kind = "none" /\ NoRestore.done = {}
<1>1. NoOptions \in MaybeOptions
  BY DEF NoOptions, MaybeOptions
<1>2. NoRestore \in RestoreSet
  BY <1>1 DEF NoRestore, RestoreSet
<1>3. NoRestore.step = "none" /\ NoRestore.kind = "none" /\ NoRestore.done = {} /\ NoAsk.id = "none"
  BY DEF NoRestore, NoAsk
<1>4. NoAsk \in AskSet
  BY DEF NoAsk, AskSet
<1>5. Nothing \in AgentSet /\ [Nothing EXCEPT !.up = TRUE] \in AgentSet
  BY DEF Nothing, AgentSet
<1> QED
  BY <1>1, <1>2, <1>3, <1>4, <1>5 DEF IsRestore

\* The restore that a load, a relay or a mint begins.
LEMMA BeginsIs ==
  ASSUME NEW k \in {"fill", "relay", "mint"}, NEW s \in {"load", "loaded"}, NEW w \in MaybeOptions,
         NEW r, r = [NoRestore EXCEPT !.kind = k, !.step = s, !.row = w]
  PROVE  IsRestore(r) /\ r \in RestoreSet /\ r.kind = k /\ r.step = s /\ r.row = w /\ r.done = {}
<1>1. r = [kind |-> k, step |-> s, row |-> w, known |-> NoOptions, done |-> {}]
  BY DEF NoRestore
<1>2. r \in RestoreSet
  BY <1>1, NoOnesAre DEF RestoreSet
<1>3. r.kind = k /\ r.step = s /\ r.row = w /\ r.done = {}
  <2> HIDE DEF NoRestore
  <2>1. \A x : x = [kind |-> k, step |-> s, row |-> w, known |-> NoOptions, done |-> {}]
                => x.kind = k /\ x.step = s /\ x.row = w /\ x.done = {}
    OBVIOUS
  <2> QED
    BY <1>1, <2>1
<1>4. r.step # "none" /\ r # NoRestore
  BY <1>3, NoOnesAre
<1>5. IsRestore(r)
  BY <1>2, <1>4 DEF IsRestore
<1> QED
  BY <1>2, <1>3, <1>5

\* One message is a queue.
LEMMA SingleIs == ASSUME NEW S, NEW e \in S PROVE <<e>> \in Seq(S)
OBVIOUS

\* The answer of a load or a mint.
LEMMA AnswerIs ==
  ASSUME NEW a \in AgentSet, NEW q \in Seq(MessageSet)
  PROVE  Msg("answer", "restore", TRUE, OptionsIn(a)) = Answer("restore", TRUE, a)
         /\ Append(q, Answer("restore", TRUE, a)) \in Seq(MessageSet) /\ <<Answer("restore", TRUE, a)>> \in Seq(MessageSet)
<1>1. Answer("restore", TRUE, a) \in MessageSet
  BY MessagesAre
<1> PICK e \in MessageSet : e = Answer("restore", TRUE, a)
  BY <1>1
<1>2. Append(q, e) \in Seq(MessageSet)
  BY AppendIs
<1>3. <<e>> \in Seq(MessageSet)
  BY SingleIs
<1> QED
  BY <1>2, <1>3 DEF Answer

\* The types of a restore that goes on.
LEMMA GoesOnTypes ==
  ASSUME TypesFit, NEW r \in RestoreSet, NEW log \in MaybeOptions, NEW rest \in Seq(MessageSet),
         RestoreGoesOn(r, log, rest)
  PROVE  /\ record' \in RowSet /\ agentHolds' \in AgentSet /\ logOptions' \in MaybeOptions
         /\ upwards' \in Seq(MessageSet) /\ IsRestore(restore')
<1>0. agentHolds \in AgentSet /\ record \in RowSet
  BY DEF TypesFit
<1>1. CASE NextOption(r) = "none"
  <2>1. /\ restore' = NoRestore /\ logOptions' = log /\ upwards' = rest /\ agentHolds' = agentHolds
        /\ record' = IF r.kind = "mint" THEN [record EXCEPT !.id = agentHolds.id] ELSE record
    BY <1>1 DEF RestoreGoesOn
  <2>2. record' \in RowSet
    BY <1>0, <2>1 DEF RowSet, AgentSet
  <2> QED
    BY <1>0, <2>1, <2>2, NoOnesAre
<1>2. CASE NextOption(r) # "none"
  <2> DEFINE id == NextOption(r)
  <2>1. id \in OptionIds /\ OptionValue(id, r.row[id]) /\ UpTo(id) \in SUBSET OptionIds
    BY <1>2, NextIs
  <2>2. PICK o \in Outcomes(agentHolds, id, r.row[id], "restore") :
             /\ agentHolds' = o.agent /\ upwards' = rest \o o.sent
             /\ restore' = [r EXCEPT !.step = id, !.done = UpTo(id)]
             /\ logOptions' = IF id = "mode" THEN [log EXCEPT !.mode = r.row.mode] ELSE log
             /\ UNCHANGED record
    BY <1>2 DEF RestoreGoesOn
  <2>3. o.agent \in AgentSet /\ rest \o o.sent \in Seq(MessageSet)
    BY <2>1, <1>0, OutcomeIs
  <2>4. r.row \in MaybeOptions /\ r.row.mode \in Mode \cup {Unset}
    BY DEF RestoreSet, MaybeOptions
  <2>5. logOptions' \in MaybeOptions
    BY <2>2, <2>4 DEF MaybeOptions
  <2> HIDE DEF id
  <2>6. restore' \in RestoreSet /\ restore'.step = id
    BY <2>1, <2>2 DEF RestoreSet, OptionIds
  <2>7. restore' # NoRestore /\ restore'.step # "none"
    BY <2>1, <2>6, NoOnesAre DEF OptionIds
  <2> QED
    BY <1>0, <2>2, <2>3, <2>5, <2>6, <2>7 DEF IsRestore
<1> QED
  BY <1>1, <1>2

\* The types after an exit of the adapter.
LEMMA LostTypes ==
  ASSUME TypesFit, NEW agentOptions \in AgentSet, OptionsAreLost(agentOptions)
  PROVE  /\ agentHolds' \in AgentSet /\ logOptions' \in MaybeOptions /\ pageMode' \in Mode \cup {Unset}
         /\ upwards' \in Seq(MessageSet) /\ asks' \in [Wish -> AskSet] /\ IsRestore(restore')
         /\ \A a \in Wish : Waits(a)' => OptionValue(asks'[a].id, asks'[a].value)
<1>1. /\ agentHolds' = agentOptions /\ upwards' = <<>> /\ restore' = NoRestore /\ asks' = [a \in Wish |-> NoAsk]
  BY DEF OptionsAreLost
<1>2. logOptions' \in MaybeOptions /\ pageMode' \in Mode \cup {Unset}
  <2> DEFINE waits == {a \in Wish : asks[a].id = "mode"}
  <2>1. /\ logOptions' = IF restore.kind \in {"fill", "mint"} THEN NoOptions
                          ELSE IF waits = {} THEN logOptions
                          ELSE [logOptions EXCEPT !.mode = asks[CHOOSE a \in waits : TRUE].previous]
        /\ pageMode' = IF waits = {} THEN pageMode ELSE asks[CHOOSE a \in waits : TRUE].before
    BY DEF OptionsAreLost
  <2>2. waits # {} => (CHOOSE a \in waits : TRUE) \in Wish
    OBVIOUS
  <2>3. \A a \in Wish : asks[a].previous \in Mode \cup {Unset} /\ asks[a].before \in Mode \cup {Unset}
    BY DEF TypesFit, AskSet
  <2> HIDE DEF waits
  <2>4. logOptions' \in MaybeOptions
    BY <2>1, <2>2, <2>3, NoOnesAre DEF TypesFit, MaybeOptions
  <2> QED
    BY <2>1, <2>2, <2>3, <2>4 DEF TypesFit
<1>3. asks' \in [Wish -> AskSet] /\ \A a \in Wish : asks'[a].id = "none"
  BY <1>1, NoOnesAre
<1> QED
  BY <1>1, <1>2, <1>3, NoOnesAre DEF Waits

\* TypesFit, in the parts that an action may change.
LEMMA TypesFrom ==
  ASSUME /\ tells' \in BOOLEAN /\ answering' \in BOOLEAN /\ notTaken' \in BOOLEAN,
         agentHolds' \in AgentSet, record' \in RowSet, logOptions' \in MaybeOptions, pageMode' \in Mode \cup {Unset},
         upwards' \in Seq(MessageSet), mints' \in Nat, asks' \in [Wish -> AskSet], IsRestore(restore'),
         \A a \in Wish : Waits(a)' => OptionValue(asks'[a].id, asks'[a].value),
         \A id \in DOMAIN transcripts' : transcripts'[id] \in BOOLEAN
  PROVE  TypesFit'
BY DEF TypesFit, IsRestore

\* The conjuncts of TypesFit, one by one.
LEMMA TypesParts ==
  ASSUME TypesFit
  PROVE  /\ tells \in BOOLEAN /\ answering \in BOOLEAN /\ notTaken \in BOOLEAN
         /\ agentHolds \in AgentSet /\ record \in RowSet /\ logOptions \in MaybeOptions /\ pageMode \in Mode \cup {Unset}
         /\ upwards \in Seq(MessageSet) /\ mints \in Nat /\ asks \in [Wish -> AskSet] /\ IsRestore(restore)
         /\ restore \in RestoreSet
         /\ \A a \in Wish : Waits(a) => OptionValue(asks[a].id, asks[a].value)
         /\ \A id \in DOMAIN transcripts : transcripts[id] \in BOOLEAN
BY DEF TypesFit, IsRestore

\* A change of the agent keeps the types.
LEMMA TypesAgentWishes == ASSUME TypesFit, AgentWishes PROVE TypesFit'
<1>1. PICK id \in {"mode", "model"} :
       \E value \in (IF id = "mode" THEN Mode ELSE Model) :
         /\ agentHolds' = Changed(agentHolds, id, value)
         /\ upwards' = Append(upwards, OptionUpdate(Changed(agentHolds, id, value), id, "own"))
  BY DEF AgentWishes
<1>2. PICK value : /\ OptionValue(id, value) /\ agentHolds' = Changed(agentHolds, id, value)
                   /\ upwards' = Append(upwards, OwnUpdate(agentHolds', id))
  BY <1>1 DEF OptionValue, OwnUpdate
<1>3. agentHolds' \in AgentSet
  BY <1>2, ChangedIs, TypesParts DEF ChangedTo
<1>4. upwards' \in Seq(MessageSet)
  BY <1>2, <1>3, OwnIs, TypesParts
<1>5. UNCHANGED <<tells, answering, transcripts, record, logOptions, restore, asks, pageMode, mints, notTaken>>
  BY DEF AgentWishes
<1> QED
  BY <1>3, <1>4, <1>5, TypesParts, TypesFrom DEF Waits

\* An exit of the adapter keeps the types.
LEMMA TypesExits == ASSUME TypesFit, AdapterGoesDown \/ FirstPromptIsLost PROVE TypesFit'
<1>1. OptionsAreLost(Nothing) /\ UNCHANGED <<tells, answering, transcripts, mints, notTaken>>
  BY DEF AdapterGoesDown, FirstPromptIsLost
<1>2. record' \in RowSet
  <2>1. record' = record \/ record' = [record EXCEPT !.inherits = FALSE]
    BY DEF AdapterGoesDown, FirstPromptIsLost
  <2> QED
    BY <2>1, TypesParts DEF RowSet
<1>3. /\ agentHolds' \in AgentSet /\ logOptions' \in MaybeOptions /\ pageMode' \in Mode \cup {Unset}
      /\ upwards' \in Seq(MessageSet) /\ asks' \in [Wish -> AskSet] /\ IsRestore(restore')
      /\ \A a \in Wish : Waits(a)' => OptionValue(asks'[a].id, asks'[a].value)
  BY <1>1, LostTypes, NoOnesAre
<1> QED
  BY <1>1, <1>2, <1>3, TypesParts, TypesFrom

\* A start of the adapter keeps the types.
LEMMA TypesComesUp == ASSUME TypesFit, AdapterComesUp PROVE TypesFit'
<1>1. agentHolds' = [Nothing EXCEPT !.up = TRUE]
      /\ UNCHANGED <<tells, answering, transcripts, upwards, record, logOptions, restore, asks, pageMode, mints, notTaken>>
  BY DEF AdapterComesUp
<1> QED
  BY <1>1, NoOnesAre, TypesParts, TypesFrom DEF Waits

\* A load and a relay keep the types.
LEMMA TypesLoads == ASSUME TypesFit, ThreadIsLoaded \/ HistoryIsRelayed PROVE TypesFit'
<1> DEFINE agent == FreshConversation(record.id, transcripts[record.id])
<1>0. record \in RowSet /\ record.id \in Nat
  BY TypesParts DEF RowSet
<1>1. UNCHANGED <<tells, answering, transcripts, asks, mints, notTaken>>
  BY DEF ThreadIsLoaded, HistoryIsRelayed
<1>2. CASE record.id \in DOMAIN transcripts
  <2>1. agent \in AgentSet
    BY <1>0, <1>2, TypesParts, FreshIs
  <2>2. agentHolds' = agent /\ record' = record /\ pageMode' = pageMode
    BY <1>2 DEF ThreadIsLoaded, HistoryIsRelayed
  <2>3. /\ upwards' \in {Told(agent), <<>>, upwards \o Told(agent), upwards \o <<>>}
        /\ logOptions' \in {NoOptions, logOptions}
        /\ \/ restore' = [NoRestore EXCEPT !.kind = "fill", !.step = "load", !.row = Row]
           \/ restore' = [NoRestore EXCEPT !.kind = "relay", !.step = "load", !.row = Row]
    BY <1>2 DEF ThreadIsLoaded, HistoryIsRelayed
  <2> HIDE DEF agent
  <2>4. upwards' \in Seq(MessageSet)
    <3>1. Told(agent) \in Seq(MessageSet) /\ upwards \o Told(agent) \in Seq(MessageSet)
      BY <2>1, ToldIs, TypesParts
    <3>2. <<>> \in Seq(MessageSet)
      OBVIOUS
    <3>3. upwards \o <<>> \in Seq(MessageSet)
      BY <3>2, TypesParts, ConcatProperties
    <3> QED
      BY <2>3, <3>1, <3>2, <3>3
  <2>5. IsRestore(restore')
    <3>1. Row \in MaybeOptions
      BY <1>0, RowIs
    <3> QED
      BY <2>3, <3>1, BeginsIs
  <2>6. logOptions' \in MaybeOptions
    <3>1. logOptions \in MaybeOptions
      BY TypesParts
    <3> QED
      BY <2>3, <3>1, NoOnesAre
  <2> QED
    BY <1>1, <2>1, <2>2, <2>4, <2>5, <2>6, TypesParts, TypesFrom DEF Waits
<1>3. CASE record.id \notin DOMAIN transcripts
  <2>1. /\ record' = [record EXCEPT !.id = 0] /\ pageMode' = Unset /\ logOptions' = NoOptions
        /\ UNCHANGED <<agentHolds, upwards, restore>>
    BY <1>3 DEF ThreadIsLoaded, HistoryIsRelayed
  <2>2. record' \in RowSet
    BY <1>0, <2>1 DEF RowSet
  <2> QED
    BY <1>1, <2>1, <2>2, NoOnesAre, TypesParts, TypesFrom DEF Waits
<1> QED
  BY <1>2, <1>3

\* The answer of a load keeps the types.
LEMMA TypesLoadAnswered == ASSUME TypesFit, LoadIsAnswered PROVE TypesFit'
<1>1. /\ restore' = [restore EXCEPT !.step = "loaded"]
      /\ upwards' = Append(upwards, Msg("answer", "restore", TRUE, OptionsIn(agentHolds)))
      /\ UNCHANGED <<tells, answering, agentHolds, transcripts, record, logOptions, asks, pageMode, mints, notTaken>>
  BY DEF LoadIsAnswered
<1>2. upwards' \in Seq(MessageSet)
  BY <1>1, AnswerIs, TypesParts
<1>3. restore' \in RestoreSet /\ restore'.step = "loaded"
  BY <1>1, TypesParts DEF RestoreSet
<1>4. IsRestore(restore')
  BY <1>3, NoOnesAre DEF IsRestore
<1> QED
  BY <1>1, <1>2, <1>4, TypesParts, TypesFrom DEF Waits

\* A mint keeps the types.
LEMMA TypesMinted == ASSUME TypesFit, ThreadIsMinted PROVE TypesFit'
<1>1. PICK branched \in BOOLEAN :
         /\ agentHolds' = FreshConversation(mints + 1, branched)
         /\ upwards' = <<Msg("answer", "restore", TRUE, OptionsIn(FreshConversation(mints + 1, branched)))>>
  BY DEF ThreadIsMinted
<1>2. /\ mints' = mints + 1 /\ restore' = [NoRestore EXCEPT !.kind = "mint", !.step = "loaded", !.row = Row]
      /\ UNCHANGED <<tells, answering, transcripts, record, logOptions, asks, pageMode, notTaken>>
  BY DEF ThreadIsMinted
<1>3. mints' \in Nat /\ agentHolds' \in AgentSet
  <2>1. mints + 1 \in Nat
    BY TypesParts
  <2> QED
    BY <1>1, <1>2, <2>1, FreshIs
<1>4. upwards' \in Seq(MessageSet)
  <2>1. upwards' = <<Answer("restore", TRUE, agentHolds')>>
    BY <1>1 DEF Answer
  <2> QED
    BY <2>1, <1>3, AnswerIs, TypesParts
<1>5. IsRestore(restore')
  <2>1. Row \in MaybeOptions
    BY RowIs, TypesParts
  <2> QED
    BY <1>2, <2>1, BeginsIs
<1> QED
  BY <1>2, <1>3, <1>4, <1>5, TypesParts, TypesFrom DEF Waits

\* An update keeps the types.
LEMMA TypesTold == ASSUME TypesFit, ModeIsTold \/ OptionsAreTold PROVE TypesFit'
<1> DEFINE h == Head(upwards)
<1>0. /\ upwards # <<>> /\ upwards' = Tail(upwards)
      /\ UNCHANGED <<tells, answering, agentHolds, transcripts, restore, mints, notTaken>>
  BY DEF ModeIsTold, OptionsAreTold, FirstOf, adapterSideVars
<1>1. /\ upwards' \in Seq(MessageSet) /\ h.options \in MaybeOptions
      /\ h.options.mode \in Mode \cup {Unset} /\ h.options.model \in Model \cup {Unset}
      /\ h.options.effort \in Effort \cup {Unset}
  BY <1>0, HeadIs
<1>2. CASE ModeIsTold
  <2>1. /\ record' = IF record.id = agentHolds.id THEN [record EXCEPT !.mode = h.options.mode] ELSE record
        /\ logOptions' = IF ToPages THEN NowSet(logOptions, "mode", h.options.mode) ELSE logOptions
        /\ pageMode' = IF ToPages /\ pageMode # Unset THEN h.options.mode ELSE pageMode
        /\ asks' = [a \in Wish |-> IF Waits(a) THEN [asks[a] EXCEPT !.alone = @ /\ h.to # "own"] ELSE NoAsk]
    BY <1>2 DEF ModeIsTold
  <2> HIDE DEF h
  <2>2. record' \in RowSet
    BY <1>1, <2>1, TypesParts DEF RowSet
  <2>3. logOptions' \in MaybeOptions
    BY <1>1, <2>1, TypesParts DEF NowSet, MaybeOptions
  <2>4. pageMode' \in Mode \cup {Unset}
    BY <1>1, <2>1, TypesParts
  <2>5. asks' \in [Wish -> AskSet] /\ \A a \in Wish : asks'[a].id = asks[a].id /\ (Waits(a) => asks'[a].value = asks[a].value)
    <3>1. ASSUME NEW a \in Wish
          PROVE  asks'[a] \in AskSet /\ asks'[a].id = asks[a].id /\ (Waits(a) => asks'[a].value = asks[a].value)
      <4>1. asks'[a] = IF Waits(a) THEN [asks[a] EXCEPT !.alone = asks[a].alone /\ h.to # "own"] ELSE NoAsk
        BY <2>1
      <4>2. asks[a] \in AskSet
        BY TypesParts
      <4>3. CASE Waits(a)
        BY <4>1, <4>2, <4>3 DEF AskSet
      <4>4. CASE ~Waits(a)
        BY <4>1, <4>4, NoOnesAre DEF Waits
      <4> QED
        BY <4>3, <4>4
    <3>2. asks' = [a \in Wish |-> asks'[a]]
      BY <2>1
    <3> QED
      BY <3>1, <3>2
  <2>6. \A a \in Wish : Waits(a)' => OptionValue(asks'[a].id, asks'[a].value)
    BY <2>5, TypesParts DEF Waits
  <2> QED
    BY <1>0, <1>1, <2>2, <2>3, <2>4, <2>5, <2>6, TypesParts, TypesFrom
<1>3. CASE OptionsAreTold
  <2>1. /\ record' = IF record.id = agentHolds.id THEN Merged(h.options) ELSE record
        /\ logOptions' = IF ToPages /\ logOptions # NoOptions THEN [h.options EXCEPT !.mode = logOptions.mode] ELSE logOptions
        /\ UNCHANGED <<asks, pageMode>>
    BY <1>3 DEF OptionsAreTold
  <2> HIDE DEF h
  <2>2. record' \in RowSet
    BY <1>1, <2>1, TypesParts, MergedIs
  <2>3. logOptions' \in MaybeOptions
    BY <1>1, <2>1, TypesParts, OptionFields
  <2> QED
    BY <1>0, <1>1, <2>1, <2>2, <2>3, TypesParts, TypesFrom DEF Waits
<1> QED
  BY <1>2, <1>3

\* The options of the log after logConfig.
LEMMA ConfiguredIs ==
  ASSUME NEW log \in MaybeOptions, NEW id, NEW value, OptionValue(id, value), NEW o \in MaybeOptions
  PROVE  /\ Configured(log, id, value, o) \in MaybeOptions
         /\ answering = TRUE => /\ Configured(log, id, value, o).mode = log.mode
                                /\ Configured(log, id, value, o).model = o.model
                                /\ Configured(log, id, value, o).effort = o.effort
         /\ answering # TRUE => Configured(log, id, value, o) = NowSet(log, id, value)
<1>1. CASE answering = TRUE
  <2>1. Configured(log, id, value, o) = [o EXCEPT !.mode = log.mode]
    BY <1>1 DEF Configured
  <2> QED
    BY <1>1, <2>1, OptionFields
<1>2. CASE answering # TRUE
  <2>1. Configured(log, id, value, o) = NowSet(log, id, value)
    BY <1>2 DEF Configured
  <2> QED
    BY <1>2, <2>1, NowSetIs
<1> QED
  BY <1>1, <1>2

\* What goes on with the answer of a restore: the restore, the log and the messages.
GoesOnFrom(r, log) ==
  LET answer == Head(upwards)
      id == restore.step
  IN  \/ /\ id = "loaded"
         /\ r = [restore EXCEPT !.known = answer.options]
         /\ log = IF restore.kind = "relay" THEN logOptions ELSE answer.options
      \/ /\ id = "mode" /\ r = restore
         /\ log = IF answer.ok THEN logOptions ELSE [logOptions EXCEPT !.mode = restore.known.mode]
      \/ /\ id \notin {"loaded", "mode"}
         /\ r = IF answer.ok /\ answering THEN [restore EXCEPT !.known = [answer.options EXCEPT !.mode = restore.known.mode]] ELSE restore
         /\ log = IF answer.ok THEN Configured(logOptions, id, restore.row[id], answer.options) ELSE logOptions

\* The parts of RestoreIsAnswered: with what the restore goes on.
LEMMA AnsweredIs ==
  ASSUME RestoreIsAnswered
  PROVE  /\ upwards # <<>> /\ Head(upwards).what = "answer" /\ Head(upwards).to = "restore"
         /\ \E r, log : GoesOnFrom(r, log) /\ RestoreGoesOn(r, log, Tail(upwards))
         /\ notTaken' = (notTaken \/ ~Head(upwards).ok \/ (restore.step = "mode" /\ Head(upwards).options.mode # restore.row.mode))
         /\ muddled' = (muddled \/ (restore.kind = "relay" /\ ~Head(upwards).ok))
         /\ UNCHANGED <<tells, answering, transcripts, asks, pageMode, mints, wishes, lastMode, contextLost>>
<1>1. CASE restore.step = "loaded"
  BY <1>1 DEF RestoreIsAnswered, GoesOnFrom, FirstOf
<1>2. CASE restore.step = "mode"
  BY <1>2 DEF RestoreIsAnswered, GoesOnFrom, FirstOf
<1>3. CASE restore.step \notin {"loaded", "mode"}
  BY <1>3 DEF RestoreIsAnswered, GoesOnFrom, FirstOf
<1> QED
  BY <1>1, <1>2, <1>3

\* The type of NowSet.
LEMMA NowSetTypes ==
  ASSUME NEW o \in MaybeOptions, NEW id, NEW value,
         id = "mode" => value \in Mode \cup {Unset}, id = "model" => value \in Model \cup {Unset},
         id = "effort" => value \in Effort \cup {Unset}
  PROVE  NowSet(o, id, value) \in MaybeOptions
<1>1. CASE id \in OptionIds
  BY <1>1 DEF NowSet, MaybeOptions, OptionIds
<1>2. CASE id \notin OptionIds
  <2>1. NowSet(o, id, value) = o
    BY <1>2 DEF NowSet, MaybeOptions, OptionIds
  <2> QED
    BY <2>1
<1> QED
  BY <1>1, <1>2

\* An answer of a restore keeps the types.
LEMMA TypesAnswered == ASSUME TypesFit, RestoreIsAnswered PROVE TypesFit'
<1>0. /\ upwards # <<>> /\ notTaken' \in BOOLEAN
      /\ UNCHANGED <<tells, answering, transcripts, asks, pageMode, mints>>
  BY AnsweredIs, TypesParts
<1>1. PICK r, log : GoesOnFrom(r, log) /\ RestoreGoesOn(r, log, Tail(upwards))
  BY AnsweredIs
<1>2. /\ Tail(upwards) \in Seq(MessageSet) /\ Head(upwards).options \in MaybeOptions
      /\ Head(upwards).ok \in BOOLEAN
  BY <1>0, HeadIs
<1>3. restore \in RestoreSet /\ logOptions \in MaybeOptions /\ restore.known \in MaybeOptions /\ restore.row \in MaybeOptions
  BY TypesParts DEF RestoreSet
<1> DEFINE h == Head(upwards)
<1>4. /\ \A m \in Mode \cup {Unset} : [logOptions EXCEPT !.mode = m] \in MaybeOptions
      /\ [h.options EXCEPT !.mode = restore.known.mode] \in MaybeOptions
      /\ restore.known.mode \in Mode \cup {Unset}
  BY <1>2, <1>3, OptionFields
<1>5. Configured(logOptions, restore.step, restore.row[restore.step], h.options) \in MaybeOptions
  <2>1. CASE answering
    <3>1. Configured(logOptions, restore.step, restore.row[restore.step], h.options) = [h.options EXCEPT !.mode = logOptions.mode]
      BY <2>1 DEF Configured
    <3>2. logOptions.mode \in Mode \cup {Unset}
      BY <1>3, OptionFields
    <3> PICK o \in MaybeOptions : o = h.options
      BY <1>2
    <3>3. [o EXCEPT !.mode = logOptions.mode] \in MaybeOptions
      BY <3>2, OptionFields
    <3> QED
      BY <3>1, <3>3
  <2>2. CASE ~answering
    <3>1. Configured(logOptions, restore.step, restore.row[restore.step], h.options)
             = NowSet(logOptions, restore.step, restore.row[restore.step])
      BY <2>2 DEF Configured
    <3>2. restore.row.mode \in Mode \cup {Unset} /\ restore.row.model \in Model \cup {Unset} /\ restore.row.effort \in Effort \cup {Unset}
      BY <1>3, OptionFields
    <3>3. NowSet(logOptions, restore.step, restore.row[restore.step]) \in MaybeOptions
      BY <1>3, <3>2, NowSetTypes
    <3> QED
      BY <3>1, <3>3
  <2> QED
    BY <2>1, <2>2
<1>6. \A k \in MaybeOptions : [restore EXCEPT !.known = k] \in RestoreSet
  BY <1>3 DEF RestoreSet
<1> HIDE DEF h
<1>7. r \in RestoreSet /\ log \in MaybeOptions
  <2>1. \/ /\ r = [restore EXCEPT !.known = h.options]
           /\ log = IF restore.kind = "relay" THEN logOptions ELSE h.options
        \/ /\ r = restore
           /\ log = IF h.ok THEN logOptions ELSE [logOptions EXCEPT !.mode = restore.known.mode]
        \/ /\ r = IF h.ok /\ answering THEN [restore EXCEPT !.known = [h.options EXCEPT !.mode = restore.known.mode]] ELSE restore
           /\ log = IF h.ok THEN Configured(logOptions, restore.step, restore.row[restore.step], h.options) ELSE logOptions
    BY <1>1 DEF GoesOnFrom, h
  <2>2. h.options \in MaybeOptions
    BY <1>2 DEF h
  <2> QED
    BY <2>1, <2>2, <1>3, <1>4, <1>5, <1>6
<1>8. /\ record' \in RowSet /\ agentHolds' \in AgentSet /\ logOptions' \in MaybeOptions
      /\ upwards' \in Seq(MessageSet) /\ IsRestore(restore')
  BY <1>1, <1>2, <1>7, GoesOnTypes
<1> QED
  BY <1>0, <1>8, TypesParts, TypesFrom DEF Waits

\* The load of a page keeps the types.
LEMMA TypesOpens == ASSUME TypesFit, PageOpensThread PROVE TypesFit'
<1>1. /\ pageMode' = logOptions.mode
      /\ UNCHANGED <<tells, answering, agentHolds, transcripts, upwards, record, logOptions, restore, asks, mints, notTaken>>
  BY DEF PageOpensThread, adapterSideVars
<1>2. pageMode' \in Mode \cup {Unset}
  BY <1>1, TypesParts, OptionFields
<1> QED
  BY <1>1, <1>2, TypesParts, TypesFrom DEF Waits

\* A prompt keeps the types.
LEMMA TypesPrompted == ASSUME TypesFit, ThreadIsPrompted PROVE TypesFit'
<1>1. /\ record' = [record EXCEPT !.inherits = FALSE]
      /\ transcripts' = [id \in DOMAIN transcripts \cup {record.id} |-> IF id = record.id THEN agentHolds.context ELSE transcripts[id]]
      /\ UNCHANGED <<tells, answering, agentHolds, upwards, logOptions, restore, asks, pageMode, mints, notTaken>>
  BY DEF ThreadIsPrompted
<1>2. record' \in RowSet
  BY <1>1, TypesParts DEF RowSet
<1>3. \A id \in DOMAIN transcripts' : transcripts'[id] \in BOOLEAN
  <2>1. agentHolds.context \in BOOLEAN
    BY TypesParts DEF AgentSet
  <2> QED
    BY <1>1, <2>1, TypesParts
<1> QED
  BY <1>1, <1>2, <1>3, TypesParts, TypesFrom DEF Waits

\* What PageAsks makes of the asks.
Asked(a, id, value) ==
  [id |-> id, value |-> value, previous |-> logOptions.mode, before |-> pageMode,
   alone |-> (~\E b \in Wish : Waits(b)) /\ ~\E i \in DOMAIN upwards : upwards[i].what # "answer"]

\* The asks after another one: it is alone, or no ask that waits is.
LEMMA AskedIs ==
  ASSUME TypesFit, NEW a \in Wish, NEW id, NEW value, OptionValue(id, value), PageAsks(a, id, value)
  PROVE  /\ asks' \in [Wish -> AskSet]
         /\ asks'[a].id = id /\ asks'[a].value = value /\ asks'[a].previous = logOptions.mode /\ asks'[a].before = pageMode
         /\ asks'[a].alone <=> (\A b \in Wish : ~Waits(b)) /\ \A i \in DOMAIN upwards : upwards[i].what = "answer"
         /\ \A b \in Wish : b # a => /\ asks'[b].id = asks[b].id /\ (Waits(b) => ~asks'[b].alone)
                                     /\ Waits(b) => asks'[b].value = asks[b].value /\ asks'[b].previous = asks[b].previous
                                                    /\ asks'[b].before = asks[b].before
<1>1. asks' = [b \in Wish |-> IF b = a THEN Asked(a, id, value) ELSE IF Waits(b) THEN [asks[b] EXCEPT !.alone = FALSE] ELSE NoAsk]
  BY DEF PageAsks, Asked
<1>2. asks'[a] = Asked(a, id, value)
  BY <1>1
<1>3. id \in {"none", "mode", "model", "effort"} /\ value \in Mode \cup Model \cup Effort \cup {Unset}
  BY DEF OptionValue
<1>4. logOptions.mode \in Mode \cup {Unset} /\ pageMode \in Mode \cup {Unset}
  BY TypesParts, OptionFields
<1>5. Asked(a, id, value) \in AskSet
  BY <1>3, <1>4 DEF Asked, AskSet
<1>6. /\ Asked(a, id, value).id = id /\ Asked(a, id, value).value = value /\ Asked(a, id, value).previous = logOptions.mode
      /\ Asked(a, id, value).before = pageMode
      /\ Asked(a, id, value).alone <=> (\A b \in Wish : ~Waits(b)) /\ \A i \in DOMAIN upwards : upwards[i].what = "answer"
  BY DEF Asked
<1>7. ASSUME NEW b \in Wish, b # a
      PROVE  /\ asks'[b] \in AskSet /\ asks'[b].id = asks[b].id /\ (Waits(b) => ~asks'[b].alone)
             /\ Waits(b) => asks'[b].value = asks[b].value /\ asks'[b].previous = asks[b].previous
                            /\ asks'[b].before = asks[b].before
  <2>1. asks'[b] = IF Waits(b) THEN [asks[b] EXCEPT !.alone = FALSE] ELSE NoAsk
    BY <1>1, <1>7
  <2>2. asks[b] \in AskSet
    BY TypesParts
  <2>3. CASE Waits(b)
    BY <2>1, <2>2, <2>3 DEF AskSet
  <2>4. CASE ~Waits(b)
    BY <2>1, <2>4, NoOnesAre DEF Waits
  <2> QED
    BY <2>3, <2>4
<1>8. asks' \in [Wish -> AskSet]
  <2>1. asks' = [b \in Wish |-> asks'[b]]
    BY <1>1
  <2>2. \A b \in Wish : asks'[b] \in AskSet
    BY <1>2, <1>5, <1>7
  <2> QED
    BY <2>1, <2>2
<1> QED
  BY <1>2, <1>6, <1>7, <1>8

\* An ask of a page keeps the types.
LEMMA TypesAsks ==
  ASSUME TypesFit, NEW a \in Wish, NEW id, NEW value, OptionValue(id, value), PageAsks(a, id, value)
  PROVE  TypesFit'
<1>1. PICK o \in Outcomes(agentHolds, id, value, a) : agentHolds' = o.agent /\ upwards' = upwards \o o.sent
  BY DEF PageAsks
<1>2. /\ logOptions' = (IF id = "mode" THEN [logOptions EXCEPT !.mode = value] ELSE logOptions)
      /\ pageMode' = (IF id = "mode" THEN value ELSE pageMode)
      /\ UNCHANGED <<tells, answering, transcripts, record, restore, mints, notTaken>>
  BY DEF PageAsks
<1>3. agentHolds' \in AgentSet /\ upwards' \in Seq(MessageSet)
  BY <1>1, OutcomeIs, TypesParts
<1>4. id = "mode" => value \in Mode
  BY DEF OptionValue, Model, Effort
<1>5. logOptions' \in MaybeOptions /\ pageMode' \in Mode \cup {Unset}
  <2>1. id = "mode" => [logOptions EXCEPT !.mode = value] \in MaybeOptions
    BY <1>4, TypesParts, OptionFields
  <2> QED
    BY <1>2, <1>4, <2>1, TypesParts
<1>6. asks' \in [Wish -> AskSet] /\ \A b \in Wish : Waits(b)' => OptionValue(asks'[b].id, asks'[b].value)
  <2>1. /\ asks' \in [Wish -> AskSet] /\ asks'[a].id = id /\ asks'[a].value = value
        /\ \A b \in Wish : b # a => asks'[b].id = asks[b].id /\ (Waits(b) => asks'[b].value = asks[b].value)
    BY AskedIs
  <2> QED
    BY <2>1, TypesParts DEF Waits
<1> QED
  BY <1>2, <1>3, <1>5, <1>6, TypesParts, TypesFrom

\* The answer of an ask keeps the types.
LEMMA TypesAskAnswered == ASSUME TypesFit, NEW a \in Wish, AskIsAnswered(a) PROVE TypesFit'
<1> DEFINE h == Head(upwards)
<1>0. /\ upwards # <<>> /\ upwards' = Tail(upwards) /\ asks' = [asks EXCEPT ![a] = NoAsk]
      /\ UNCHANGED <<tells, answering, agentHolds, transcripts, restore, mints, notTaken>>
  BY DEF AskIsAnswered, FirstOf, adapterSideVars
<1>1. upwards' \in Seq(MessageSet) /\ h.options \in MaybeOptions
  BY <1>0, HeadIs
<1>2. asks \in [Wish -> AskSet] /\ asks[a] \in AskSet /\ asks[a].previous \in Mode \cup {Unset} /\ asks[a].before \in Mode \cup {Unset}
  BY TypesParts DEF AskSet
<1>3. asks' \in [Wish -> AskSet] /\ \A b \in Wish : asks'[b] = IF b = a THEN NoAsk ELSE asks[b]
  BY <1>0, <1>2, NoOnesAre
<1>4. \A b \in Wish : Waits(b)' => OptionValue(asks'[b].id, asks'[b].value)
  BY <1>3, NoOnesAre, TypesParts DEF Waits
<1>5. logOptions.mode \in Mode \cup {Unset} /\ record \in RowSet /\ logOptions \in MaybeOptions
  BY TypesParts, OptionFields
<1> HIDE DEF h
<1>6. CASE ~h.ok
  <2>1. /\ logOptions' = IF asks[a].id = "mode" THEN [logOptions EXCEPT !.mode = asks[a].previous] ELSE logOptions
        /\ pageMode' = IF asks[a].id = "mode" THEN asks[a].before ELSE pageMode
        /\ record' = record
    BY <1>6 DEF AskIsAnswered, h
  <2>2. logOptions' \in MaybeOptions
    BY <2>1, <1>2, <1>5, OptionFields
  <2>3. pageMode' \in Mode \cup {Unset} /\ record' \in RowSet
    BY <2>1, <1>2, TypesParts
  <2> QED
    BY <1>0, <1>1, <1>3, <1>4, <2>2, <2>3, TypesParts, TypesFrom
<1>7. CASE h.ok
  <2>0. pageMode' = pageMode
    BY <1>7 DEF AskIsAnswered, h
  <2>1. CASE asks[a].id = "mode"
    <3>1. record' = [record EXCEPT !.mode = logOptions.mode] /\ logOptions' = logOptions
      BY <1>7, <2>1 DEF AskIsAnswered, ModeRecorded, h
    <3>2. record' \in RowSet
      BY <3>1, <1>5 DEF RowSet
    <3> QED
      BY <1>0, <1>1, <1>3, <1>4, <1>5, <2>0, <3>1, <3>2, TypesParts, TypesFrom
  <2>2. CASE asks[a].id # "mode"
    <3>1. /\ logOptions' = Configured(logOptions, asks[a].id, asks[a].value, h.options)
          /\ record' = IF answering THEN Merged(h.options) ELSE [record EXCEPT ![asks[a].id] = asks[a].value]
      BY <1>7, <2>2 DEF AskIsAnswered, h
    <3>2. asks[a].id = "none" \/ OptionValue(asks[a].id, asks[a].value)
      BY TypesParts DEF Waits
    <3>3. logOptions' \in MaybeOptions
      <4>1. CASE answering
        <5>1. logOptions' = [h.options EXCEPT !.mode = logOptions.mode]
          BY <3>1, <4>1 DEF Configured
        <5> QED
          BY <5>1, <1>1, <1>5, OptionFields
      <4>2. CASE ~answering
        <5>1. logOptions' = NowSet(logOptions, asks[a].id, asks[a].value)
          BY <3>1, <4>2 DEF Configured
        <5>2. /\ asks[a].id = "mode" => asks[a].value \in Mode \cup {Unset}
              /\ asks[a].id = "model" => asks[a].value \in Model \cup {Unset}
              /\ asks[a].id = "effort" => asks[a].value \in Effort \cup {Unset}
          BY <3>2 DEF OptionValue
        <5> QED
          BY <5>1, <5>2, <1>5, NowSetTypes
      <4> QED
        BY <4>1, <4>2
    <3>4. record' \in RowSet
      <4>1. CASE answering
        BY <3>1, <4>1, <1>1, <1>5, MergedIs
      <4>2. CASE ~answering
        <5>1. record' = [record EXCEPT ![asks[a].id] = asks[a].value]
          BY <3>1, <4>2
        <5>2. CASE asks[a].id = "model" /\ asks[a].value \in Model
          BY <5>1, <5>2, <1>5 DEF RowSet
        <5>3. CASE asks[a].id = "effort" /\ asks[a].value \in Effort
          BY <5>1, <5>3, <1>5 DEF RowSet
        <5>4. CASE asks[a].id = "none"
          <6>1. record' = record
            BY <5>1, <5>4, <1>5 DEF RowSet
          <6> QED
            BY <6>1, <1>5
        <5> QED
          BY <5>2, <5>3, <5>4, <3>2, <2>2 DEF OptionValue
      <4> QED
        BY <4>1, <4>2
    <3> QED
      BY <1>0, <1>1, <1>3, <1>4, <2>0, <3>3, <3>4, TypesParts, TypesFrom
  <2> QED
    BY <2>1, <2>2
<1> QED
  BY <1>6, <1>7

\* What a page may ask for is a value of its option.
LEMMA WishesAreOptions ==
  /\ \A m \in Mode : OptionValue("mode", m)
  /\ \A m \in Model : OptionValue("model", m)
  /\ \A e \in Effort : OptionValue("effort", e)
BY DEF OptionValue

\* TypesFit is inductive.
LEMMA TypesStay == ASSUME TypesFit, [ThreadOptionsNext]_threadOptionVars PROVE TypesFit'
<1>1. CASE UNCHANGED threadOptionVars
  BY <1>1, TypesParts, TypesFrom DEF threadOptionVars, adapterSideVars, Waits
<1>2. CASE \E a \in Wish : AskIsAnswered(a)
  BY <1>2, TypesAskAnswered
<1>3. CASE \E a \in Wish : \/ \E m \in Mode : PageAsks(a, "mode", m)
                           \/ \E m \in Model : PageAsks(a, "model", m)
                           \/ \E e \in Effort : PageAsks(a, "effort", e)
  BY <1>3, TypesAsks, WishesAreOptions
<1> QED
  BY <1>1, <1>2, <1>3, TypesAgentWishes, TypesExits, TypesComesUp, TypesLoads, TypesLoadAnswered, TypesMinted, TypesTold,
     TypesAnswered, TypesOpens, TypesPrompted DEF ThreadOptionsNext

(***************************************************************************)
(* A fork keeps the context of its source.                                 *)
(***************************************************************************)

\* The step leaves the conversation, or the thread, alone.
SameConversation ==
  /\ agentHolds'.id = agentHolds.id /\ agentHolds'.context = agentHolds.context /\ agentHolds'.up = agentHolds.up
SameThread == record'.id = record.id /\ record'.fork = record.fork /\ record'.inherits = record.inherits

\* A step that leaves the thread and the conversation alone keeps the context.
LEMMA ContextSame ==
  ASSUME ContextKept, SameThread, SameConversation, restore'.kind \in {restore.kind, "none"},
         transcripts' = transcripts, contextLost' = contextLost
  PROVE  ContextKept'
BY DEF ContextKept, SameThread, SameConversation, Holds

\* A restore that goes on holds the same conversation, and ends a mint with its id in the row.
LEMMA GoesOnKeeps ==
  ASSUME TypesFit, NEW r \in RestoreSet, NEW log \in MaybeOptions, NEW rest \in Seq(MessageSet), RestoreGoesOn(r, log, rest)
  PROVE  /\ SameConversation
         /\ \/ restore' = NoRestore /\ agentHolds' = agentHolds /\ r.kind = "mint" /\ record' = [record EXCEPT !.id = agentHolds.id]
            \/ restore' = NoRestore /\ agentHolds' = agentHolds /\ r.kind # "mint" /\ record' = record
            \/ restore'.kind = r.kind /\ record' = record
<1>1. CASE NextOption(r) = "none"
  BY <1>1 DEF RestoreGoesOn, SameConversation
<1>2. CASE NextOption(r) # "none"
  <2> DEFINE id == NextOption(r)
  <2>1. id \in OptionIds /\ OptionValue(id, r.row[id])
    BY <1>2, NextIs
  <2>2. PICK o \in Outcomes(agentHolds, id, r.row[id], "restore") :
             /\ agentHolds' = o.agent /\ restore' = [r EXCEPT !.step = id, !.done = UpTo(id)] /\ record' = record
    BY <1>2 DEF RestoreGoesOn
  <2>3. SameConversation
    BY <2>1, <2>2, OutcomeIs, TypesParts DEF SameConversation
  <2> HIDE DEF id
  <2>4. restore'.kind = r.kind
    BY <2>2 DEF RestoreSet
  <2> QED
    BY <2>2, <2>3, <2>4
<1> QED
  BY <1>1, <1>2

\* What goes on with an answer is the restore that runs.
LEMMA GoesOnTyped ==
  ASSUME TypesFit, upwards # <<>>, NEW r, NEW log, GoesOnFrom(r, log)
  PROVE  /\ r \in RestoreSet /\ log \in MaybeOptions
         /\ r.kind = restore.kind /\ r.row = restore.row /\ r.done = restore.done
         /\ Tail(upwards) \in Seq(MessageSet)
<1>2. /\ Tail(upwards) \in Seq(MessageSet) /\ Head(upwards).options \in MaybeOptions
      /\ Head(upwards).ok \in BOOLEAN
  BY HeadIs
<1>3. restore \in RestoreSet /\ logOptions \in MaybeOptions /\ restore.known \in MaybeOptions /\ restore.row \in MaybeOptions
  BY TypesParts DEF RestoreSet
<1> DEFINE h == Head(upwards)
<1>4. /\ \A m \in Mode \cup {Unset} : [logOptions EXCEPT !.mode = m] \in MaybeOptions
      /\ [h.options EXCEPT !.mode = restore.known.mode] \in MaybeOptions
      /\ restore.known.mode \in Mode \cup {Unset}
  BY <1>2, <1>3, OptionFields
<1>5. Configured(logOptions, restore.step, restore.row[restore.step], h.options) \in MaybeOptions
  <2>1. CASE answering
    <3>1. Configured(logOptions, restore.step, restore.row[restore.step], h.options) = [h.options EXCEPT !.mode = logOptions.mode]
      BY <2>1 DEF Configured
    <3>2. logOptions.mode \in Mode \cup {Unset}
      BY <1>3, OptionFields
    <3> PICK o \in MaybeOptions : o = h.options
      BY <1>2
    <3>3. [o EXCEPT !.mode = logOptions.mode] \in MaybeOptions
      BY <3>2, OptionFields
    <3> QED
      BY <3>1, <3>3
  <2>2. CASE ~answering
    <3>1. Configured(logOptions, restore.step, restore.row[restore.step], h.options)
             = NowSet(logOptions, restore.step, restore.row[restore.step])
      BY <2>2 DEF Configured
    <3>2. restore.row.mode \in Mode \cup {Unset} /\ restore.row.model \in Model \cup {Unset} /\ restore.row.effort \in Effort \cup {Unset}
      BY <1>3, OptionFields
    <3>3. NowSet(logOptions, restore.step, restore.row[restore.step]) \in MaybeOptions
      BY <1>3, <3>2, NowSetTypes
    <3> QED
      BY <3>1, <3>3
  <2> QED
    BY <2>1, <2>2
<1>6. \A k \in MaybeOptions : \A x : x = [restore EXCEPT !.known = k] =>
         x \in RestoreSet /\ x.kind = restore.kind /\ x.row = restore.row /\ x.done = restore.done
  BY <1>3 DEF RestoreSet
<1> HIDE DEF h
<1>7. \/ /\ r = [restore EXCEPT !.known = h.options]
         /\ log = IF restore.kind = "relay" THEN logOptions ELSE h.options
      \/ /\ r = restore
         /\ log = IF h.ok THEN logOptions ELSE [logOptions EXCEPT !.mode = restore.known.mode]
      \/ /\ r = IF h.ok /\ answering THEN [restore EXCEPT !.known = [h.options EXCEPT !.mode = restore.known.mode]] ELSE restore
         /\ log = IF h.ok THEN Configured(logOptions, restore.step, restore.row[restore.step], h.options) ELSE logOptions
  BY DEF GoesOnFrom, h
<1>8. h.options \in MaybeOptions
  BY <1>2 DEF h
<1>9. log \in MaybeOptions
  BY <1>7, <1>8, <1>3, <1>4, <1>5
<1>10. r \in RestoreSet /\ r.kind = restore.kind /\ r.row = restore.row /\ r.done = restore.done
  <2>1. r = restore \/ r = [restore EXCEPT !.known = h.options]
        \/ r = [restore EXCEPT !.known = [h.options EXCEPT !.mode = restore.known.mode]]
    BY <1>7
  <2>2. [h.options EXCEPT !.mode = restore.known.mode] \in MaybeOptions
    BY <1>4
  <2> QED
    BY <2>1, <2>2, <1>8, <1>3, <1>6
<1> QED
  BY <1>2, <1>9, <1>10

\* A load and a relay keep the context of a fork.
LEMMA ContextLoads == ASSUME TypesFit, ContextKept, ThreadIsLoaded \/ HistoryIsRelayed PROVE ContextKept'
<1> DEFINE agent == FreshConversation(record.id, transcripts[record.id])
<1>0. record \in RowSet /\ record.id \in Nat
  BY TypesParts DEF RowSet
<1>1. UNCHANGED <<transcripts, contextLost>> /\ record.id # 0 /\ restore = NoRestore
  BY DEF ThreadIsLoaded, HistoryIsRelayed, Holds
<1>2. CASE record.id \in DOMAIN transcripts
  <2>1. agent.context = transcripts[record.id] /\ agent.up /\ agent.id = record.id
    BY <1>0, <1>2, TypesParts, FreshIs
  <2>2. agentHolds' = agent /\ record' = record
        /\ \/ restore' = [NoRestore EXCEPT !.kind = "fill", !.step = "load", !.row = Row]
           \/ restore' = [NoRestore EXCEPT !.kind = "relay", !.step = "load", !.row = Row]
    BY <1>2 DEF ThreadIsLoaded, HistoryIsRelayed
  <2>3. restore'.kind # "mint"
    <3>1. Row \in MaybeOptions
      BY <1>0, RowIs
    <3>2. ASSUME NEW k \in {"fill", "relay"}, restore' = [NoRestore EXCEPT !.kind = k, !.step = "load", !.row = Row]
          PROVE  restore'.kind = k
      <4>1. restore' = [kind |-> k, step |-> "load", row |-> Row, known |-> NoOptions, done |-> {}]
        BY <3>2 DEF NoRestore
      <4> QED
        BY <4>1
    <3> QED
      BY <2>2, <3>2
  <2> HIDE DEF agent
  <2> QED
    BY <1>1, <1>2, <2>1, <2>2, <2>3 DEF ContextKept, Holds
<1>3. CASE record.id \notin DOMAIN transcripts
  <2>1. record' = [record EXCEPT !.id = 0] /\ UNCHANGED <<agentHolds, restore>>
    BY <1>3 DEF ThreadIsLoaded, HistoryIsRelayed
  <2>2. record'.id = 0 /\ record'.fork = record.fork /\ record'.inherits = record.inherits
    BY <1>0, <2>1 DEF RowSet
  <2>3. restore.kind = "none"
    BY <1>1, NoOnesAre
  <2> QED
    BY <1>1, <1>3, <2>1, <2>2, <2>3 DEF ContextKept, Holds
<1> QED
  BY <1>2, <1>3

\* A mint keeps the context of a fork, or counts it as lost.
LEMMA ContextMinted == ASSUME TypesFit, ContextKept, ThreadIsMinted PROVE ContextKept'
<1>1. PICK branched \in BOOLEAN :
         /\ agentHolds' = FreshConversation(mints + 1, branched)
         /\ contextLost' = (contextLost \/ (record.inherits /\ ~branched))
  BY DEF ThreadIsMinted
<1>2. record.id = 0 /\ UNCHANGED <<transcripts, record>>
  BY DEF ThreadIsMinted
<1>3. agentHolds'.context = branched /\ agentHolds'.up
  <2>1. mints + 1 \in Nat
    BY TypesParts
  <2> QED
    BY <1>1, <2>1, FreshIs
<1>4. ~contextLost' => ~contextLost /\ (record.inherits => branched)
  BY <1>1
<1> QED
  BY <1>2, <1>3, <1>4 DEF ContextKept, Holds

\* An exit of the adapter keeps the context of a fork, or counts it as lost.
LEMMA ContextExits == ASSUME TypesFit, ContextKept, AdapterGoesDown \/ FirstPromptIsLost PROVE ContextKept'
<1>1. agentHolds' = Nothing /\ restore' = NoRestore /\ transcripts' = transcripts
  BY DEF AdapterGoesDown, FirstPromptIsLost, OptionsAreLost
<1>2. ~agentHolds'.up /\ restore'.kind = "none"
  BY <1>1 DEF Nothing, NoRestore
<1>3. CASE AdapterGoesDown
  BY <1>1, <1>2, <1>3 DEF AdapterGoesDown, ContextKept, Holds
<1>4. CASE FirstPromptIsLost
  <2>1. record.id \notin DOMAIN transcripts /\ record' = [record EXCEPT !.inherits = FALSE]
        /\ contextLost' = (contextLost \/ record.inherits)
    BY <1>4 DEF FirstPromptIsLost
  <2>2. record'.fork = record.fork /\ (~contextLost' => ~contextLost /\ ~record.inherits)
    BY <2>1, TypesParts DEF RowSet
  <2> QED
    BY <1>1, <1>2, <2>1, <2>2 DEF ContextKept, Holds
<1> QED
  BY <1>3, <1>4

\* A start of the adapter keeps the context of a fork.
LEMMA ContextComesUp == ASSUME TypesFit, ContextKept, AdapterComesUp PROVE ContextKept'
<1>1. /\ ~agentHolds.up /\ agentHolds' = [Nothing EXCEPT !.up = TRUE]
      /\ UNCHANGED <<transcripts, record, restore, contextLost>>
  BY DEF AdapterComesUp
<1>2. agentHolds'.id = 0
  BY <1>1 DEF Nothing
<1> QED
  BY <1>1, <1>2 DEF ContextKept, Holds

\* A prompt keeps the context of a fork: its transcript has it now.
LEMMA ContextPrompted == ASSUME TypesFit, ContextKept, ThreadIsPrompted PROVE ContextKept'
<1>1. /\ Holds /\ record' = [record EXCEPT !.inherits = FALSE]
      /\ transcripts' = [id \in DOMAIN transcripts \cup {record.id} |-> IF id = record.id THEN agentHolds.context ELSE transcripts[id]]
      /\ UNCHANGED <<agentHolds, restore, contextLost>>
  BY DEF ThreadIsPrompted
<1>2. record'.id = record.id /\ record'.fork = record.fork
  BY <1>1, TypesParts DEF RowSet
<1> QED
  BY <1>1, <1>2 DEF ContextKept, Holds

\* An answer of a restore keeps the context of a fork.
LEMMA ContextAnswered == ASSUME TypesFit, ContextKept, RestoreIsAnswered PROVE ContextKept'
<1>0. upwards # <<>> /\ UNCHANGED <<transcripts, contextLost>>
  BY AnsweredIs
<1>1. PICK r, log : GoesOnFrom(r, log) /\ RestoreGoesOn(r, log, Tail(upwards))
  BY AnsweredIs
<1>2. r \in RestoreSet /\ log \in MaybeOptions /\ r.kind = restore.kind /\ Tail(upwards) \in Seq(MessageSet)
  BY <1>0, <1>1, GoesOnTyped
<1>3. /\ SameConversation
      /\ \/ restore' = NoRestore /\ agentHolds' = agentHolds /\ r.kind = "mint" /\ record' = [record EXCEPT !.id = agentHolds.id]
         \/ restore' = NoRestore /\ agentHolds' = agentHolds /\ r.kind # "mint" /\ record' = record
         \/ restore'.kind = r.kind /\ record' = record
  BY <1>1, <1>2, GoesOnKeeps
<1>4. CASE record' = record /\ restore'.kind \in {restore.kind, "none"}
  <2>1. SameThread
    BY <1>4 DEF SameThread
  <2> QED
    BY <1>0, <1>3, <1>4, <2>1, ContextSame
<1>5. CASE restore' = NoRestore /\ agentHolds' = agentHolds /\ r.kind = "mint" /\ record' = [record EXCEPT !.id = agentHolds.id]
  <2>1. record'.id = agentHolds.id /\ record'.fork = record.fork /\ record'.inherits = record.inherits
    BY <1>5, TypesParts DEF RowSet
  <2>2. restore'.kind = "none" /\ restore.kind = "mint"
    BY <1>5, <1>2, NoOnesAre
  <2> QED
    BY <1>0, <1>5, <2>1, <2>2 DEF ContextKept, Holds
<1> QED
  BY <1>2, <1>3, <1>4, <1>5, NoOnesAre

\* The other actions change neither the thread nor its conversation.
LEMMA ContextStays == ASSUME TypesFit, ContextKept, [ThreadOptionsNext]_threadOptionVars PROVE ContextKept'
<1>0. record \in RowSet
  BY TypesParts
<1>1. CASE AgentWishes
  <2>1. PICK id \in {"mode", "model"} :
         \E value \in (IF id = "mode" THEN Mode ELSE Model) : agentHolds' = Changed(agentHolds, id, value)
    BY <1>1 DEF AgentWishes
  <2>2. PICK value : OptionValue(id, value) /\ agentHolds' = Changed(agentHolds, id, value)
    BY <2>1 DEF OptionValue
  <2>3. SameConversation
    BY <2>2, ChangedIs, TypesParts DEF ChangedTo, SameConversation
  <2>4. UNCHANGED <<record, restore, transcripts, contextLost>>
    BY <1>1 DEF AgentWishes
  <2> QED
    BY <2>3, <2>4, ContextSame DEF SameThread
<1>2. CASE LoadIsAnswered
  <2>1. UNCHANGED <<agentHolds, record, transcripts, contextLost>> /\ restore' = [restore EXCEPT !.step = "loaded"]
    BY <1>2 DEF LoadIsAnswered
  <2>2. restore'.kind = restore.kind
    BY <2>1, TypesParts DEF RestoreSet
  <2> QED
    BY <2>1, <2>2, ContextSame DEF SameThread, SameConversation
<1>3. CASE ModeIsTold
  <2>1. UNCHANGED <<agentHolds, restore, transcripts, contextLost>>
        /\ record' \in {record, [record EXCEPT !.mode = Head(upwards).options.mode]}
    BY <1>3 DEF ModeIsTold, adapterSideVars
  <2>2. SameThread
    BY <1>0, <2>1 DEF SameThread, RowSet
  <2> QED
    BY <2>1, <2>2, ContextSame DEF SameConversation
<1>4. CASE OptionsAreTold
  <2>1. UNCHANGED <<agentHolds, restore, transcripts, contextLost>> /\ record' \in {record, Merged(Head(upwards).options)}
        /\ upwards # <<>>
    BY <1>4 DEF OptionsAreTold, adapterSideVars, FirstOf
  <2>2. SameThread
    <3>1. Head(upwards).options \in MaybeOptions
      BY <2>1, HeadIs
    <3> QED
      BY <1>0, <2>1, <3>1, MergedIs DEF SameThread
  <2> QED
    BY <2>1, <2>2, ContextSame DEF SameConversation
<1>5. CASE PageOpensThread
  <2>1. UNCHANGED <<agentHolds, record, restore, transcripts, contextLost>>
    BY <1>5 DEF PageOpensThread, adapterSideVars
  <2> QED
    BY <2>1, ContextSame DEF SameThread, SameConversation
<1>6. ASSUME NEW a \in Wish, NEW id, NEW value, OptionValue(id, value), PageAsks(a, id, value) PROVE ContextKept'
  <2>1. PICK o \in Outcomes(agentHolds, id, value, a) : agentHolds' = o.agent
    BY <1>6 DEF PageAsks
  <2>2. SameConversation
    BY <1>6, <2>1, OutcomeIs, TypesParts DEF SameConversation
  <2>3. UNCHANGED <<record, restore, transcripts, contextLost>>
    BY <1>6 DEF PageAsks
  <2> QED
    BY <2>2, <2>3, ContextSame DEF SameThread
<1>7. ASSUME NEW a \in Wish, AskIsAnswered(a) PROVE ContextKept'
  <2>1. UNCHANGED <<agentHolds, restore, transcripts, contextLost>> /\ upwards # <<>>
    BY <1>7 DEF AskIsAnswered, adapterSideVars, FirstOf
  <2>2. \/ record' = record \/ record' = [record EXCEPT !.mode = logOptions.mode] \/ record' = Merged(Head(upwards).options)
        \/ record' = [record EXCEPT ![asks[a].id] = asks[a].value]
    BY <1>7 DEF AskIsAnswered, ModeRecorded
  <2>3. asks[a].id \in {"none", "mode", "model", "effort"}
    BY TypesParts DEF AskSet
  <2>4. SameThread
    <3>1. Head(upwards).options \in MaybeOptions
      BY <2>1, HeadIs
    <3>2. CASE record' = Merged(Head(upwards).options)
      BY <1>0, <3>1, <3>2, MergedIs DEF SameThread
    <3>3. CASE record' = [record EXCEPT ![asks[a].id] = asks[a].value]
      BY <1>0, <2>3, <3>3 DEF SameThread, RowSet
    <3>4. CASE record' = record \/ record' = [record EXCEPT !.mode = logOptions.mode]
      BY <1>0, <3>4 DEF SameThread, RowSet
    <3> QED
      BY <2>2, <3>2, <3>3, <3>4
  <2> QED
    BY <2>1, <2>4, ContextSame DEF SameConversation
<1>8. CASE UNCHANGED threadOptionVars
  <2>1. UNCHANGED <<agentHolds, record, restore, transcripts, contextLost>>
    BY <1>8 DEF threadOptionVars, adapterSideVars
  <2> QED
    BY <2>1, ContextSame DEF SameThread, SameConversation
<1>9. ASSUME NEW a \in Wish, \/ \E m \in Mode : PageAsks(a, "mode", m)
                             \/ \E m \in Model : PageAsks(a, "model", m)
                             \/ \E e \in Effort : PageAsks(a, "effort", e)
      PROVE  ContextKept'
  BY <1>6, <1>9, WishesAreOptions
<1> QED
  BY <1>1, <1>2, <1>3, <1>4, <1>5, <1>7, <1>8, <1>9, ContextLoads, ContextMinted, ContextExits, ContextComesUp,
     ContextPrompted, ContextAnswered DEF ThreadOptionsNext

(***************************************************************************)
(* A restore goes on.  The queue holds the updates of its step and then    *)
(* its answer, so that the answer finds nothing in front of it.            *)
(***************************************************************************)

\* The domain of a queue.
LEMMA SeqDomain == ASSUME NEW S, NEW q \in Seq(S) PROVE DOMAIN q = 1..Len(q) /\ Len(q) \in Nat /\ (q # <<>> <=> Len(q) # 0)
<1>1. DOMAIN q = 1..Len(q) /\ Len(q) \in Nat
  OBVIOUS
<1>2. q = <<>> <=> Len(q) = 0
  BY EmptySeq
<1> QED
  BY <1>1, <1>2

\* A message goes that is not the answer.
LEMMA QueuePops ==
  ASSUME NEW q \in Seq(MessageSet), q # <<>>, NEW a, NEW step, QueueFits(q, a, step), Head(q).what # "answer"
  PROVE  /\ QueueFits(Tail(q), a, step) /\ (step # "load" => LastIn(Tail(q)) = LastIn(q))
         /\ \A w : TellsIn(Tail(q), w) => TellsIn(q, w)
         /\ \A w : TellsIn(q, w) => TellsIn(Tail(q), w) \/ w = Head(q).what
         /\ Head(q).options = OptionsIn(a) /\ TellsIn(q, Head(q).what)
<1> DEFINE t == Tail(q)
<1>1. /\ t \in Seq(MessageSet) /\ Head(q) = q[1] /\ Len(t) = Len(q) - 1 /\ Len(q) \in Nat
      /\ DOMAIN q = 1..Len(q) /\ DOMAIN t = 1..Len(t) /\ Shifted(q, t)
  BY TailIs, SeqDomain
<1>2. 1 \in DOMAIN q /\ \A j \in DOMAIN t : j + 1 \in DOMAIN q /\ t[j] = q[j + 1]
  BY <1>1 DEF Shifted
<1> HIDE DEF t
<1>3. \A w : TellsIn(t, w) => TellsIn(q, w)
  BY <1>2 DEF TellsIn
<1>4. \A w : TellsIn(q, w) => TellsIn(t, w) \/ w = q[1].what
  <2> TAKE w
  <2> HAVE TellsIn(q, w)
  <2>1. PICK i \in DOMAIN q : q[i].what = w
    BY DEF TellsIn
  <2>2. CASE i # 1
    <3>1. i - 1 \in DOMAIN t /\ (i - 1) + 1 = i
      BY <1>1, <2>2
    <3> QED
      BY <2>1, <3>1, <1>2 DEF TellsIn
  <2> QED
    BY <2>1, <2>2
<1>5. ASSUME step # "load" PROVE t # <<>> /\ LastIn(t) = LastIn(q)
  <2>1. q[Len(q)].what = "answer"
    BY <1>5 DEF QueueFits, LastIn
  <2>2. Len(q) # 1
    BY <2>1, <1>1
  <2>3. Len(t) \in DOMAIN t /\ Len(t) + 1 = Len(q)
    BY <2>2, <1>1, <1>2
  <2>4. t # <<>>
    BY <2>3, <1>1, SeqDomain
  <2> QED
    BY <2>3, <2>4, <1>2 DEF LastIn
<1>6. QueueFits(t, a, step)
  <2>1. \A i \in DOMAIN t : /\ t[i].options = OptionsIn(a) /\ t[i].to \in {"all", "restore"}
                            /\ t[i].what = "answer" <=> t[i].to = "restore"
                            /\ t[i].what = "answer" => i = Len(t)
    <3> TAKE i \in DOMAIN t
    <3>1. i + 1 \in DOMAIN q /\ t[i] = q[i + 1] /\ (i + 1 = Len(q) => i = Len(t))
      BY <1>1, <1>2
    <3> QED
      BY <3>1 DEF QueueFits
  <2>2. step = "load" => ~TellsIn(t, "answer")
    BY <1>3 DEF QueueFits
  <2>3. step # "load" => t # <<>> /\ LastIn(t).what = "answer"
    BY <1>5 DEF QueueFits
  <2> QED
    BY <2>1, <2>2, <2>3 DEF QueueFits
<1>7. Head(q).options = OptionsIn(a) /\ TellsIn(q, Head(q).what)
  BY <1>1, <1>2 DEF QueueFits, TellsIn
<1> QED
  BY <1>1, <1>3, <1>4, <1>5, <1>6, <1>7 DEF t

\* The answer goes, which is the last message.
LEMMA QueueEnds ==
  ASSUME NEW q \in Seq(MessageSet), q # <<>>, NEW a, NEW step, QueueFits(q, a, step), Head(q).what = "answer"
  PROVE  /\ Tail(q) = <<>> /\ Head(q) = LastIn(q) /\ Head(q).options = OptionsIn(a) /\ Head(q).to = "restore"
         /\ step # "load" /\ ~TellsIn(q, "mode") /\ ~TellsIn(q, "options")
<1> DEFINE t == Tail(q)
<1>1. /\ t \in Seq(MessageSet) /\ Head(q) = q[1] /\ Len(t) = Len(q) - 1 /\ Len(q) \in Nat
      /\ DOMAIN q = 1..Len(q) /\ 1 \in DOMAIN q
  BY TailIs, SeqDomain DEF Shifted
<1>2. Len(q) = 1
  BY <1>1 DEF QueueFits
<1> HIDE DEF t
<1>3. t = <<>>
  <2>1. Len(t) = 0
    BY <1>1, <1>2
  <2> QED
    BY <2>1, <1>1, SeqDomain
<1>4. \A i \in DOMAIN q : i = 1
  BY <1>1, <1>2
<1> QED
  BY <1>1, <1>2, <1>3, <1>4 DEF QueueFits, LastIn, TellsIn, t

\* What an answer says.
LEMMA AnswerOk == ASSUME NEW a, NEW to PROVE Answer(to, TRUE, a).ok /\ ~Answer(to, FALSE, a).ok
BY DEF Answer, Msg

\* The fields of an answer.
LEMMA AnswerFields ==
  ASSUME NEW a \in AgentSet, NEW to \in Wish \cup {"restore"}, NEW ok \in BOOLEAN
  PROVE  /\ Answer(to, ok, a) \in MessageSet /\ Answer(to, ok, a).what = "answer" /\ Answer(to, ok, a).to = to
         /\ Answer(to, ok, a).options = OptionsIn(a)
BY MessagesAre

\* The fields of an update.
LEMMA UpdateFields ==
  ASSUME NEW a \in AgentSet, NEW id
  PROVE  /\ AllUpdate(a, id) \in MessageSet /\ AllUpdate(a, id).what = (IF id = "mode" THEN "mode" ELSE "options")
         /\ AllUpdate(a, id).to = "all" /\ AllUpdate(a, id).options = OptionsIn(a)
<1>1. OptionsIn(a) \in MaybeOptions
  BY DEF OptionsIn, MaybeOptions, AgentSet
<1>2. (IF id = "mode" THEN "mode" ELSE "options") \in {"mode", "options"}
  OBVIOUS
<1> QED
  BY <1>1, <1>2 DEF AllUpdate, OptionUpdate, Msg, MessageSet

\* The queue t is q with e behind it, for what a queue tells.
Behind(q, e, t) ==
  /\ \A i \in DOMAIN q : i \in DOMAIN t /\ t[i] = q[i]
  /\ \A i \in DOMAIN t : (i \in DOMAIN q /\ t[i] = q[i]) \/ (i = Len(t) /\ t[i] = e)
  /\ t # <<>> /\ LastIn(t) = e /\ Len(t) \in DOMAIN t

\* A queue and a message behind it, as Behind says.
LEMMA Appended ==
  ASSUME NEW q \in Seq(MessageSet), NEW e \in MessageSet
  PROVE  Behind(q, e, Append(q, e))
<1> PICK t : t = Append(q, e)
  OBVIOUS
<1>1. t \in Seq(MessageSet) /\ Len(t) = Len(q) + 1
  BY AppendProperties
<1>2. t[Len(q) + 1] = e /\ \A i \in 1..Len(q) : t[i] = q[i]
  BY AppendProperties
<1>3. Len(q) \in Nat /\ DOMAIN q = 1..Len(q) /\ DOMAIN t = 1..Len(t)
  BY <1>1, SeqDomain
<1>4. \A i \in DOMAIN t : i \in DOMAIN q \/ i = Len(t)
  BY <1>1, <1>3
<1>5. t # <<>> /\ Len(t) \in DOMAIN t /\ DOMAIN q \subseteq DOMAIN t
  BY <1>1, <1>3, SeqDomain
<1> QED
  BY <1>1, <1>2, <1>3, <1>4, <1>5 DEF LastIn, Behind

\* The load is answered behind its updates.
LEMMA QueueAnswers ==
  ASSUME NEW q \in Seq(MessageSet), NEW a \in AgentSet, QueueFits(q, a, "load")
  PROVE  LET t == Append(q, Answer("restore", TRUE, a))
         IN  /\ QueueFits(t, a, "loaded") /\ LastIn(t).ok
             /\ \A w : w # "answer" => (TellsIn(t, w) <=> TellsIn(q, w))
<1>1. Answer("restore", TRUE, a) \in MessageSet /\ Answer("restore", TRUE, a).what = "answer"
      /\ Answer("restore", TRUE, a).to = "restore" /\ Answer("restore", TRUE, a).options = OptionsIn(a)
      /\ Answer("restore", TRUE, a).ok
  BY AnswerFields, AnswerOk
<1> PICK e \in MessageSet : e = Answer("restore", TRUE, a)
  BY <1>1
<1> DEFINE t == Append(q, e)
<1>2. /\ \A i \in DOMAIN t : (i \in DOMAIN q /\ t[i] = q[i]) \/ (i = Len(t) /\ t[i] = e)
      /\ \A i \in DOMAIN q : i \in DOMAIN t /\ t[i] = q[i]
      /\ t # <<>> /\ LastIn(t) = e
  <2>1. Behind(q, e, t)
    BY Appended
  <2> HIDE DEF t
  <2> QED
    BY <2>1 DEF Behind
<1> HIDE DEF t
<1>4. \A i \in DOMAIN q : q[i].what # "answer" /\ q[i].to # "restore" /\ q[i].to = "all" /\ q[i].options = OptionsIn(a)
  BY DEF QueueFits, TellsIn
<1>6. QueueFits(t, a, "loaded")
  BY <1>1, <1>2, <1>4 DEF QueueFits
<1>7. \A w : w # "answer" => (TellsIn(t, w) <=> TellsIn(q, w))
  <2> TAKE w
  <2> HAVE w # "answer"
  <2>1. TellsIn(t, w) => TellsIn(q, w)
    BY <1>1, <1>2 DEF TellsIn
  <2>2. TellsIn(q, w) => TellsIn(t, w)
    BY <1>2 DEF TellsIn
  <2> QED
    BY <2>1, <2>2
<1> QED
  BY <1>1, <1>2, <1>6, <1>7 DEF t

\* The messages of a request for the option id, from an empty queue.
KindOf(id) == IF id = "mode" THEN "mode" ELSE "options"
OtherKind(id) == IF id = "mode" THEN "options" ELSE "mode"
AskingIs(t, b, a, id, value) ==
  /\ QueueFits(t, b, id) /\ ~TellsIn(t, OtherKind(id)) /\ b \in AgentSet
  /\ \/ ChangedTo(b, a, id, value) /\ LastIn(t).ok /\ (tells <=> TellsIn(t, KindOf(id))) /\ (id = "effort" => a.effort # Unset)
     \/ id = "mode" /\ value # AgentMode /\ ChangedTo(b, a, id, AgentMode) /\ LastIn(t).ok /\ TellsIn(t, KindOf(id))
     \/ b = a /\ ~LastIn(t).ok /\ ~TellsIn(t, KindOf(id))

\* A queue of one message.
LEMMA OneMessage ==
  ASSUME NEW e \in MessageSet
  PROVE  /\ Append(<<>>, e) \in Seq(MessageSet) /\ DOMAIN Append(<<>>, e) = {1} /\ Append(<<>>, e)[1] = e
         /\ Len(Append(<<>>, e)) = 1 /\ Append(<<>>, e) # <<>>
<1> PICK q \in Seq(MessageSet) : q = <<>>
  <2>1. <<>> \in Seq(MessageSet)
    OBVIOUS
  <2> QED
    BY <2>1
<1>1. Len(q) = 0
  BY SeqDomain
<1>2. Append(q, e) \in Seq(MessageSet) /\ Len(Append(q, e)) = 1 /\ Append(q, e)[1] = e
  BY <1>1, AppendProperties
<1>3. DOMAIN Append(q, e) = {1} /\ Append(q, e) # <<>>
  BY <1>2, SeqDomain
<1> QED
  BY <1>2, <1>3

\* A queue of two messages.
LEMMA TwoMessages ==
  ASSUME NEW x \in MessageSet, NEW e \in MessageSet
  PROVE  LET t == Append(Append(<<>>, x), e)
         IN  t \in Seq(MessageSet) /\ DOMAIN t = {1, 2} /\ t[1] = x /\ t[2] = e /\ Len(t) = 2 /\ t # <<>>
<1> PICK u \in Seq(MessageSet) : u = Append(<<>>, x)
  BY OneMessage
<1>1. Len(u) = 1 /\ u[1] = x /\ DOMAIN u = {1}
  BY OneMessage
<1>2. Append(u, e) \in Seq(MessageSet) /\ Len(Append(u, e)) = 2 /\ Append(u, e)[2] = e /\ Append(u, e)[1] = x
  BY <1>1, AppendProperties
<1>3. DOMAIN Append(u, e) = {1, 2} /\ Append(u, e) # <<>>
  BY <1>2, SeqDomain
<1> QED
  BY <1>2, <1>3

\* What the request of a restore sends from an empty queue.
LEMMA AskingHolds ==
  ASSUME NEW a \in AgentSet, NEW id, NEW value, OptionValue(id, value), NEW o \in Outcomes(a, id, value, "restore")
  PROVE  AskingIs(<<>> \o o.sent, o.agent, a, id, value)
<1> PICK q \in Seq(MessageSet) : q = <<>>
  <2>1. <<>> \in Seq(MessageSet)
    OBVIOUS
  <2> QED
    BY <2>1
<1> DEFINE t == q \o o.sent
           b == o.agent
<1>1. /\ b \in AgentSet
      /\ \/ Taking(a, b, id, value, "restore", q, t) \/ FallingBack(a, b, id, value, "restore", q, t)
         \/ Refusing(a, b, id, "restore", q, t)
  BY OutcomeIs
<1> SUFFICES AskingIs(t, b, a, id, value)
  OBVIOUS
<1> HIDE DEF t, b
<1>2. /\ \A ok \in BOOLEAN : /\ Answer("restore", ok, b) \in MessageSet /\ Answer("restore", ok, b).what = "answer"
                              /\ Answer("restore", ok, b).to = "restore" /\ Answer("restore", ok, b).options = OptionsIn(b)
      /\ AllUpdate(b, id) \in MessageSet /\ AllUpdate(b, id).what = KindOf(id) /\ AllUpdate(b, id).to = "all"
      /\ AllUpdate(b, id).options = OptionsIn(b)
  BY <1>1, AnswerFields, UpdateFields DEF KindOf
<1>3. id \in OptionIds /\ id # "load" /\ KindOf(id) # "answer" /\ OtherKind(id) # "answer" /\ OtherKind(id) # KindOf(id)
  BY DEF OptionValue, KindOf, OtherKind, OptionIds
<1>4. ASSUME NEW ok \in BOOLEAN, t = Append(q, Answer("restore", ok, b))
      PROVE  QueueFits(t, b, id) /\ ~TellsIn(t, OtherKind(id)) /\ ~TellsIn(t, KindOf(id)) /\ LastIn(t) = Answer("restore", ok, b)
  <2> PICK e \in MessageSet : e = Answer("restore", ok, b)
    BY <1>2
  <2>1. DOMAIN t = {1} /\ t[1] = e /\ Len(t) = 1 /\ t # <<>>
    BY <1>4, OneMessage
  <2>2. e.what = "answer" /\ e.to = "restore" /\ e.options = OptionsIn(b)
    BY <1>2
  <2> QED
    BY <2>1, <2>2, <1>3 DEF QueueFits, TellsIn, LastIn
<1>5. ASSUME t = Append(Append(q, AllUpdate(b, id)), Answer("restore", TRUE, b))
      PROVE  QueueFits(t, b, id) /\ ~TellsIn(t, OtherKind(id)) /\ TellsIn(t, KindOf(id)) /\ LastIn(t).ok
  <2> PICK e \in MessageSet, x \in MessageSet : e = Answer("restore", TRUE, b) /\ x = AllUpdate(b, id)
    BY <1>2
  <2>1. DOMAIN t = {1, 2} /\ t[1] = x /\ t[2] = e /\ Len(t) = 2 /\ t # <<>>
    BY <1>5, TwoMessages
  <2>2. e.what = "answer" /\ e.to = "restore" /\ e.ok /\ e.options = OptionsIn(b)
        /\ x.what = KindOf(id) /\ x.to = "all" /\ x.options = OptionsIn(b)
    BY <1>2, AnswerOk
  <2> QED
    BY <2>1, <2>2, <1>3 DEF QueueFits, TellsIn, LastIn
<1>10. /\ t = Append(q, Answer("restore", TRUE, b)) =>
           QueueFits(t, b, id) /\ ~TellsIn(t, OtherKind(id)) /\ ~TellsIn(t, KindOf(id)) /\ LastIn(t).ok
       /\ t = Append(q, Answer("restore", FALSE, b)) =>
           QueueFits(t, b, id) /\ ~TellsIn(t, OtherKind(id)) /\ ~TellsIn(t, KindOf(id)) /\ ~LastIn(t).ok
  BY <1>4, AnswerOk
<1>6. CASE Taking(a, b, id, value, "restore", q, t)
  <2>1. ChangedTo(b, a, id, value) /\ (id = "effort" => a.effort # Unset)
        /\ \/ ~tells /\ t = Append(q, Answer("restore", TRUE, b))
           \/ tells /\ t = Append(Append(q, AllUpdate(b, id)), Answer("restore", TRUE, b))
    BY <1>6 DEF Taking
  <2> QED
    BY <1>1, <1>5, <1>10, <2>1 DEF AskingIs
<1>7. CASE FallingBack(a, b, id, value, "restore", q, t)
  BY <1>1, <1>5, <1>7 DEF AskingIs, FallingBack
<1>8. CASE Refusing(a, b, id, "restore", q, t)
  <2>1. b = a /\ t = Append(q, Answer("restore", FALSE, b))
    BY <1>8 DEF Refusing
  <2> QED
    BY <1>1, <1>10, <2>1 DEF AskingIs
<1> QED
  BY <1>1, <1>6, <1>7, <1>8

\* The options of a conversation or a row are its fields.
LEMMA OptionsInIs ==
  ASSUME NEW a
  PROVE  OptionsIn(a).mode = a.mode /\ OptionsIn(a).model = a.model /\ OptionsIn(a).effort = a.effort
BY DEF OptionsIn

\* The fields of fresh options.
LEMMA FreshFields ==
  FreshOptions.mode = AgentMode /\ FreshOptions.model = "haiku" /\ FreshOptions.effort = Unset
BY DEF FreshOptions

\* A request keeps the options of the agent possible.
LEMMA AskingFits ==
  ASSUME AgentFits, agentHolds \in AgentSet, NEW t, NEW id, NEW value, OptionValue(id, value),
         \/ ChangedTo(agentHolds', agentHolds, id, value) /\ (id = "effort" => agentHolds.effort # Unset)
         \/ ChangedTo(agentHolds', agentHolds, "mode", AgentMode)
         \/ agentHolds' = agentHolds
  PROVE  AgentFits' /\ OptionsIn(agentHolds)' = OptionsIn(agentHolds')
<1>1. /\ agentHolds.mode \in Mode /\ agentHolds.model \in Model /\ agentHolds.effort \in Effort \cup {Unset}
      /\ agentHolds.effort = Unset <=> agentHolds.model = "haiku"
  BY OptionsInIs DEF AgentFits, OptionSet
<1>2. /\ agentHolds'.mode \in Mode /\ agentHolds'.model \in Model /\ agentHolds'.effort \in Effort \cup {Unset}
      /\ agentHolds'.effort = Unset <=> agentHolds'.model = "haiku"
  <2>1. CASE agentHolds' = agentHolds
    BY <1>1, <2>1
  <2>2. CASE ChangedTo(agentHolds', agentHolds, "mode", AgentMode)
    BY <1>1, <2>2 DEF ChangedTo, AgentMode, Mode
  <2>3. CASE ChangedTo(agentHolds', agentHolds, id, value) /\ (id = "effort" => agentHolds.effort # Unset)
    <3>1. CASE id = "mode" /\ value \in Mode
      BY <1>1, <2>3, <3>1 DEF ChangedTo
    <3>2. CASE id = "model" /\ value \in Model
      BY <1>1, <2>3, <3>2 DEF ChangedTo, Model, Effort, Unset
    <3>3. CASE id = "effort" /\ value \in Effort
      BY <1>1, <2>3, <3>3 DEF ChangedTo, Effort, Unset
    <3> QED
      BY <3>1, <3>2, <3>3 DEF OptionValue
  <2> QED
    BY <2>1, <2>2, <2>3
<1> QED
  BY <1>2 DEF AgentFits, OptionSet, OptionsIn

\* A restore asks for the next option.
LEMMA GoesAsk ==
  ASSUME TypesFit, NEW r \in RestoreSet, NEW log \in MaybeOptions, RestoreGoesOn(r, log, <<>>),
         NEW id, id = NextOption(r), id # "none"
  PROVE  /\ AskingIs(upwards', agentHolds', agentHolds, id, r.row[id]) /\ OptionValue(id, r.row[id])
         /\ record' = record /\ restore' \in RestoreSet /\ restore' # NoRestore
         /\ restore'.step = id /\ restore'.done = UpTo(id) /\ restore'.row = r.row /\ restore'.known = r.known
         /\ restore'.kind = r.kind
         /\ logOptions' = IF id = "mode" THEN [log EXCEPT !.mode = r.row.mode] ELSE log
<1>1. id \in OptionIds /\ OptionValue(id, r.row[id]) /\ UpTo(id) \in SUBSET OptionIds
  BY NextIs
<1>2. PICK o \in Outcomes(agentHolds, id, r.row[id], "restore") :
           /\ agentHolds' = o.agent /\ upwards' = <<>> \o o.sent
           /\ restore' = [r EXCEPT !.step = id, !.done = UpTo(id)]
           /\ logOptions' = IF id = "mode" THEN [log EXCEPT !.mode = r.row.mode] ELSE log
           /\ record' = record
  BY DEF RestoreGoesOn
<1>3. AskingIs(upwards', agentHolds', agentHolds, id, r.row[id])
  BY <1>1, <1>2, AskingHolds, TypesParts
<1>4. /\ restore' \in RestoreSet /\ restore'.step = id /\ restore'.done = UpTo(id) /\ restore'.row = r.row
      /\ restore'.known = r.known /\ restore'.kind = r.kind
  BY <1>1, <1>2 DEF RestoreSet, OptionIds
<1>5. restore' # NoRestore
  BY <1>1, <1>4, NoOnesAre DEF OptionIds
<1> QED
  BY <1>1, <1>2, <1>3, <1>4, <1>5

\* The parts of Restoring that do not depend on the step.
RestoringAnyhow ==
  /\ agentHolds.up /\ AgentFits /\ (\A a \in Wish : ~Waits(a)) /\ RestoringQueue
  /\ restore.row \in OptionSet /\ restore.kind \in {"fill", "relay", "mint"}
  /\ HasRow => Holds
  /\ ~HasRow => record.id = 0 /\ agentHolds.id # 0 /\ pageMode = Unset

\* A restore that asks for another option is still a restore.
LEMMA AsksFurther ==
  ASSUME TypesFit, RestoringAnyhow, NEW r \in RestoreSet, NEW log \in MaybeOptions, RestoreGoesOn(r, log, <<>>),
         r.kind = restore.kind, r.row = restore.row, asks' = asks, pageMode' = pageMode,
         NEW id, id = NextOption(r), id # "none"
  PROVE  RestoringAnyhow' /\ restore' # NoRestore /\ restore'.step = id /\ record' = record
<1>1. /\ AskingIs(upwards', agentHolds', agentHolds, id, r.row[id]) /\ OptionValue(id, r.row[id])
      /\ record' = record /\ restore' # NoRestore
      /\ restore'.step = id /\ restore'.row = r.row /\ restore'.kind = r.kind
  BY GoesAsk
<1>2. AgentFits'
  BY <1>1, AskingFits, TypesParts DEF AskingIs, RestoringAnyhow
<1>3. agentHolds'.up = agentHolds.up /\ agentHolds'.id = agentHolds.id
  BY <1>1 DEF AskingIs, ChangedTo
<1>4. RestoringQueue'
  BY <1>1 DEF AskingIs, RestoringQueue
<1> QED
  BY <1>1, <1>2, <1>3, <1>4 DEF RestoringAnyhow, HasRow, Holds, Waits

\* A restore ends, and its conversation holds what the log, the page and the row say.
Ready(log, nt) ==
  /\ log.mode = agentHolds.mode /\ log.model = agentHolds.model /\ (answering = TRUE => log.effort = agentHolds.effort)
  /\ ModeIsRight(agentHolds.mode, lastMode, Row.mode, nt)
  /\ nt = TRUE \/ pageMode \in {Unset, agentHolds.mode}
  /\ SettingsAreRight(agentHolds.model, agentHolds.effort, record, answering, nt)

\* A restore that ends where the log, the page and the row fit the agent leaves a conversation that flows.
LEMMA Ends ==
  ASSUME TypesFit, RestoringAnyhow, record.model \in Model, NEW r \in RestoreSet, NEW log \in MaybeOptions,
         RestoreGoesOn(r, log, <<>>), NextOption(r) = "none", r.kind = restore.kind,
         asks' = asks, pageMode' = pageMode, lastMode' = lastMode, answering' = answering,
         Ready(log, notTaken')
  PROVE  OptionsFit'
<1>1. /\ restore' = NoRestore /\ logOptions' = log /\ upwards' = <<>> /\ agentHolds' = agentHolds
      /\ record' = IF r.kind = "mint" THEN [record EXCEPT !.id = agentHolds.id] ELSE record
  BY DEF RestoreGoesOn
<1>2. /\ record' \in RowSet /\ record'.mode = record.mode /\ record'.model = record.model /\ record'.effort = record.effort
      /\ record'.id = IF r.kind = "mint" THEN agentHolds.id ELSE record.id
  BY <1>1, TypesParts DEF RowSet, AgentSet
<1>3. Holds'
  BY <1>1, <1>2 DEF RestoringAnyhow, Holds, HasRow
<1>4. Row'.mode = Row.mode
  BY <1>2, TypesParts DEF Row, OptionsIn, RowSet
<1>5. agentHolds.mode \in Mode /\ agentHolds.model \in Model /\ Unset \notin Mode /\ Unset \notin Model
  BY OptionsInIs DEF RestoringAnyhow, AgentFits, OptionSet, Mode, Model, Unset
<1>6. DOMAIN upwards' = {}
  BY <1>1
<1>7. AgentFits' /\ AsksFit' /\ logOptions'.mode # Unset /\ logOptions'.model # Unset
  <2>1. \A a \in Wish : ~Waits(a) /\ asks'[a].id = "none"
    BY DEF RestoringAnyhow, Waits
  <2>2. AsksFit'
    BY <1>6, <2>1 DEF AsksFit, Waits
  <2>3. AgentFits'
    BY <1>1 DEF RestoringAnyhow, AgentFits
  <2>4. log.mode = agentHolds.mode /\ log.model = agentHolds.model
    BY DEF Ready
  <2> QED
    BY <1>1, <1>5, <2>2, <2>3, <2>4
<1>8. ModeFlows'
  <2>1. ModeNone(upwards', asks', agentHolds'.mode, logOptions'.mode, lastMode', Row'.mode, notTaken')
    BY <1>1, <1>4 DEF Ready, ModeNone
  <2>2. /\ ModeLast(upwards', asks', agentHolds'.mode) /\ ModeTaken(upwards', asks', agentHolds'.mode, logOptions'.mode)
        /\ ModeRefused(upwards', asks', agentHolds'.mode, lastMode', Row'.mode, notTaken')
    BY <1>6 DEF ModeLast, ModeTaken, ModeRefused
  <2> QED
    BY <2>1, <2>2 DEF ModeFlows, ModeRuns
<1>9. OwnModes'
  BY <1>6 DEF OwnModes, Answered
<1>10. PageFollows'
  <2>1. \A a \in Wish : asks'[a].id = "none"
    BY DEF RestoringAnyhow, Waits
  <2> QED
    BY <1>1, <2>1 DEF PageFollows, Ready
<1>11. SettingsFlow'
  <2>1. SettingsAreRight(agentHolds.model, agentHolds.effort, record', answering, notTaken')
    BY <1>2 DEF Ready, SettingsAreRight
  <2>2. SettingsNone(upwards', asks', agentHolds'.model, agentHolds'.effort, logOptions', record', answering', notTaken')
    BY <1>1, <2>1 DEF Ready, SettingsNone
  <2>3. SettingsLast(upwards', asks', agentHolds'.model, agentHolds'.effort, answering')
    BY <1>6 DEF SettingsLast
  <2> QED
    BY <2>2, <2>3 DEF SettingsFlow, SettingsRun
<1>12. Flowing'
  BY <1>7, <1>8, <1>9, <1>10, <1>11 DEF Flowing
<1> QED
  BY <1>1, <1>2, <1>3, <1>12 DEF OptionsFit

\* The restore goes on from r, with the log.
Turn(r, log) ==
  /\ TypesFit /\ RestoringAnyhow /\ record.model \in Model /\ RestoreGoesOn(r, log, <<>>)
  /\ r \in RestoreSet /\ log \in MaybeOptions /\ r.kind = restore.kind /\ r.row = restore.row /\ r.done = restore.done
  /\ asks' = asks /\ pageMode' = pageMode /\ lastMode' = lastMode /\ answering' = answering /\ tells' = tells
  /\ ~Tells("mode") /\ ~Tells("options")

\* Row follows the row.
LEMMA RowStays == ASSUME record' = record PROVE Row' = Row
BY DEF Row, OptionsIn

\* What an update of an option is, and what the other one is.
LEMMA KindsAre ==
  /\ KindOf("mode") = "mode" /\ OtherKind("mode") = "options" /\ KindOf("model") = "options" /\ OtherKind("model") = "mode"
  /\ KindOf("effort") = "options" /\ OtherKind("effort") = "mode"
  /\ UpTo("mode") = {"mode"} /\ UpTo("model") = {"mode", "model"} /\ UpTo("effort") = {"mode", "model", "effort"}
BY DEF KindOf, OtherKind, UpTo

\* A restore that asks for the mode of the row.
LEMMA ToMode ==
  ASSUME NEW r, NEW log, Turn(r, log), NextOption(r) = "mode",
         Loading, r.known = FreshOptions, notTaken' = notTaken,
         log = IF restore.kind = "relay" THEN logOptions ELSE FreshOptions
  PROVE  OptionsFit'
<1> USE DEF Turn
<1>0. /\ AskingIs(upwards', agentHolds', agentHolds, "mode", r.row.mode) /\ r.row.mode \in Mode
      /\ restore'.step = "mode" /\ restore'.done = {"mode"} /\ restore'.row = restore.row /\ restore'.known = FreshOptions
      /\ restore'.kind = restore.kind
      /\ logOptions' = [log EXCEPT !.mode = r.row.mode]
  <2>1. /\ AskingIs(upwards', agentHolds', agentHolds, "mode", r.row["mode"]) /\ OptionValue("mode", r.row["mode"])
        /\ restore'.step = "mode" /\ restore'.done = UpTo("mode") /\ restore'.row = r.row /\ restore'.known = r.known
        /\ restore'.kind = r.kind
        /\ logOptions' = IF "mode" = "mode" THEN [log EXCEPT !.mode = r.row.mode] ELSE log
    BY GoesAsk
  <2> QED
    BY <2>1, KindsAre DEF OptionValue
<1>1. RestoringAnyhow' /\ restore' # NoRestore /\ record' = record
  BY AsksFurther
<1>2. r.row.mode # AgentMode
  BY NextIs, FreshFields
<1>3. agentHolds.mode = AgentMode /\ agentHolds.model = "haiku" /\ agentHolds.effort = Unset
  BY OptionsInIs, FreshFields DEF Loading
<1>4. /\ QueueFits(upwards', agentHolds', "mode") /\ ~TellsIn(upwards', "options") /\ agentHolds' \in AgentSet
      /\ agentHolds'.model = "haiku" /\ agentHolds'.effort = Unset
      /\ \/ agentHolds'.mode = restore.row.mode /\ LastIn(upwards').ok /\ (tells <=> TellsIn(upwards', "mode"))
         \/ agentHolds'.mode = AgentMode /\ LastIn(upwards').ok /\ TellsIn(upwards', "mode")
         \/ agentHolds'.mode = AgentMode /\ ~LastIn(upwards').ok /\ ~TellsIn(upwards', "mode")
  BY <1>0, <1>3, KindsAre DEF AskingIs, ChangedTo
<1>5. logOptions'.mode = restore.row.mode /\ logOptions'.model = log.model /\ logOptions'.effort = log.effort
  BY <1>0 DEF MaybeOptions
<1>6. restore.row.mode \in Mode /\ restore.row.mode # Unset
  BY <1>0 DEF Mode, Unset
<1>7. Row' = Row /\ Row.mode \in Mode /\ Row.model = record.model /\ Row.effort = record.effort
      /\ (record.mode # Unset => Row.mode = record.mode)
  BY <1>1, RowStays, RowIs, TypesParts
<1>8. tells /\ HasRow => record.mode = AgentMode /\ record.model = "haiku"
  BY DEF Loading, Tells
<1>9. ~tells \/ ~HasRow => Row = restore.row /\ record.model = restore.row.model /\ record.effort = restore.row.effort
  BY <1>7 DEF Loading
<1>10. HasRow' <=> HasRow
  BY <1>0 DEF HasRow
<1>11. ~HasRow => pageMode = Unset
  BY DEF RestoringAnyhow
<1>12. restore.kind \in {"fill", "relay", "mint"}
  BY DEF RestoringAnyhow
<1>13. PuttingMode'
  <2>1. /\ restore'.known = FreshOptions /\ restore'.row.mode # AgentMode /\ restore'.done = {"mode"}
        /\ agentHolds'.model = "haiku" /\ agentHolds'.effort = Unset /\ ~Tells("options")'
    BY <1>0, <1>2, <1>4 DEF Tells
  <2>2. /\ LastAnswer'.ok => agentHolds'.mode \in {restore'.row.mode, AgentMode} /\ (Tells("mode")' \/ logOptions'.mode = agentHolds'.mode)
        /\ ~LastAnswer'.ok => ~Tells("mode")' /\ agentHolds'.mode = AgentMode
    BY <1>0, <1>4, <1>5 DEF Tells, LastAnswer
  <2>3. logOptions'.mode # Unset /\ logOptions'.model # Unset
    <3>1. log.model # Unset
      <4>1. CASE restore.kind = "relay"
        BY <4>1 DEF Loading
      <4>2. CASE restore.kind # "relay"
        BY <4>2, FreshFields DEF Unset
      <4> QED
        BY <4>1, <4>2
    <3> QED
      BY <3>1, <1>5, <1>6
  <2>4. restore'.kind # "relay" \/ restore'.row.model = "haiku" =>
          logOptions'.model = "haiku" /\ (answering' => logOptions'.effort = Unset)
    <3>1. CASE restore.kind = "relay"
      BY <3>1, <1>0, <1>5 DEF Loading
    <3>2. CASE restore.kind # "relay"
      BY <3>2, <1>5, FreshFields
    <3> QED
      BY <3>1, <3>2
  <2>5. /\ record'.effort = restore'.row.effort
        /\ tells' /\ HasRow' => record'.model = "haiku"
        /\ ~tells' \/ ~HasRow' => record'.model = restore'.row.model
    BY <1>0, <1>1, <1>8, <1>9, <1>10 DEF Loading
  <2>6. ~HasRow' => Row'.mode = restore'.row.mode /\ (notTaken' = TRUE \/ lastMode' = restore'.row.mode)
    BY <1>0, <1>7, <1>9, <1>10 DEF Loading
  <2>7. agentHolds'.mode = restore'.row.mode =>
          \/ HasRow' /\ Tells("mode")'
          \/ /\ Row'.mode = restore'.row.mode
             /\ notTaken' = TRUE \/ (lastMode' = restore'.row.mode /\ pageMode' \in {Unset, restore'.row.mode})
    <3> SUFFICES ASSUME agentHolds'.mode = restore.row.mode, ~(HasRow /\ TellsIn(upwards', "mode"))
                 PROVE  /\ Row'.mode = restore.row.mode
                        /\ notTaken = TRUE \/ (lastMode = restore.row.mode /\ pageMode \in {Unset, restore.row.mode})
      BY <1>0, <1>10 DEF Tells
    <3>1. ~tells \/ ~HasRow
      BY <1>2, <1>4
    <3>2. notTaken = TRUE \/ lastMode = restore.row.mode
      BY DEF Loading
    <3>3. notTaken = TRUE \/ pageMode \in {Unset, restore.row.mode}
      <4>1. CASE restore.kind = "fill"
        <5>1. ~tells
          BY <3>1, <4>1 DEF HasRow
        <5> QED
          BY <5>1, <4>1 DEF Loading
      <4>2. CASE restore.kind = "relay"
        BY <4>2 DEF Loading
      <4>3. CASE restore.kind = "mint"
        BY <4>3, <1>11 DEF HasRow
      <4> QED
        BY <4>1, <4>2, <4>3, <1>12
    <3> QED
      BY <3>1, <3>2, <3>3, <1>7, <1>9
  <2>8. restore'.kind = "fill" /\ ~tells' =>
          notTaken' = TRUE \/ (lastMode' = Row'.mode /\ pageMode' \in {Unset, Row'.mode})
    <3> SUFFICES ASSUME restore.kind = "fill", ~tells, notTaken # TRUE
                 PROVE  lastMode = Row.mode /\ pageMode \in {Unset, Row.mode}
      BY <1>0, <1>7
    <3>1. lastMode = restore.row.mode /\ Row = restore.row /\ pageMode \in {Unset, restore.row.mode}
      BY <1>9 DEF Loading
    <3> QED
      BY <3>1
  <2> QED
    BY <2>1, <2>2, <2>3, <2>4, <2>5, <2>6, <2>7, <2>8 DEF PuttingMode
<1>14. Restoring'
  BY <1>0, <1>1, <1>13 DEF RestoringAnyhow, Restoring
<1> QED
  BY <1>1, <1>14 DEF OptionsFit

\* The mode is put back in the log.
ModePutIn(log, nt) ==
  /\ log.mode = agentHolds.mode /\ log.model # Unset
  /\ ModeIsRight(agentHolds.mode, lastMode, Row.mode, nt)
  /\ nt = TRUE \/ pageMode \in {Unset, agentHolds.mode}

\* A restore that asks for the model of the row, with the mode put back.
LEMMA ToModel ==
  ASSUME NEW r, NEW log, Turn(r, log), NextOption(r) = "model",
         ModePutIn(log, notTaken'), r.known.model = "haiku", r.known.effort = Unset,
         agentHolds.model = "haiku", agentHolds.effort = Unset,
         restore.kind # "relay" => log.model = "haiku" /\ (answering => log.effort = Unset),
         ~tells \/ ~HasRow => record.model = restore.row.model /\ record.effort = restore.row.effort
  PROVE  OptionsFit'
<1> USE DEF Turn
<1>0. /\ AskingIs(upwards', agentHolds', agentHolds, "model", r.row.model) /\ r.row.model \in Model
      /\ restore'.step = "model" /\ restore'.done = {"mode", "model"} /\ restore'.row = restore.row /\ restore'.known = r.known
      /\ restore'.kind = restore.kind /\ logOptions' = log
  <2>1. /\ AskingIs(upwards', agentHolds', agentHolds, "model", r.row["model"]) /\ OptionValue("model", r.row["model"])
        /\ restore'.step = "model" /\ restore'.done = UpTo("model") /\ restore'.row = r.row /\ restore'.known = r.known
        /\ restore'.kind = r.kind
        /\ logOptions' = IF "model" = "mode" THEN [log EXCEPT !.mode = r.row.mode] ELSE log
    BY GoesAsk
  <2> QED
    BY <2>1, KindsAre DEF OptionValue
<1>1. RestoringAnyhow' /\ restore' # NoRestore /\ record' = record
  BY AsksFurther
<1>2. r.row.model = "opus"
  <2>1. r.row.model # "haiku"
    BY NextIs
  <2> QED
    BY <2>1, <1>0 DEF Model
<1>4. /\ ~TellsIn(upwards', "mode") /\ agentHolds'.mode = agentHolds.mode
      /\ \/ /\ agentHolds'.model = "opus" /\ agentHolds'.effort = "low" /\ LastIn(upwards').ok
            /\ tells <=> TellsIn(upwards', "options")
         \/ agentHolds'.model = "haiku" /\ agentHolds'.effort = Unset /\ ~LastIn(upwards').ok /\ ~TellsIn(upwards', "options")
  BY <1>0, <1>2, KindsAre DEF AskingIs, ChangedTo
<1>7. Row' = Row
  BY <1>1, RowStays
<1>10. HasRow' <=> HasRow
  BY <1>0 DEF HasRow
<1>13. PuttingModel'
  <2>1. ModeIsPut'
    BY <1>0, <1>4, <1>7 DEF ModeIsPut, ModePutIn, Tells
  <2>2. /\ restore'.done = {"mode", "model"}
        /\ restore'.known.model = "haiku" /\ restore'.known.effort = Unset /\ restore'.row.model = "opus"
    BY <1>0, <1>2
  <2>3. /\ LastAnswer'.ok => agentHolds'.model = "opus" /\ agentHolds'.effort = "low"
        /\ ~LastAnswer'.ok => ~Tells("options")' /\ agentHolds'.model = "haiku" /\ agentHolds'.effort = Unset
        /\ ~tells' => ~Tells("options")'
        /\ tells' /\ LastAnswer'.ok => Tells("options")'
    BY <1>4 DEF LastAnswer, Tells
  <2>4. restore'.kind # "relay" /\ ~LastAnswer'.ok => logOptions'.model = "haiku" /\ (answering' => logOptions'.effort = Unset)
    BY <1>0
  <2>5. ~tells' \/ ~HasRow' => record'.model = "opus" /\ record'.effort = restore'.row.effort
    BY <1>0, <1>1, <1>2, <1>10
  <2> QED
    BY <2>1, <2>2, <2>3, <2>4, <2>5 DEF PuttingModel
<1>14. Restoring'
  BY <1>0, <1>1, <1>13 DEF RestoringAnyhow, Restoring
<1> QED
  BY <1>1, <1>14 DEF OptionsFit

\* A restore that asks for the effort of the row, with the mode and the model put back.
LEMMA ToEffort ==
  ASSUME NEW r, NEW log, Turn(r, log), NextOption(r) = "effort",
         ModePutIn(log, notTaken'), answering, r.known.effort = "low",
         agentHolds.model = "opus", agentHolds.effort = "low", log.model = "opus", log.effort = "low", record.model = "opus",
         ~tells \/ ~HasRow => record.effort = restore.row.effort
  PROVE  OptionsFit'
<1> USE DEF Turn
<1>0. /\ AskingIs(upwards', agentHolds', agentHolds, "effort", r.row.effort) /\ r.row.effort \in Effort
      /\ restore'.step = "effort" /\ restore'.done = {"mode", "model", "effort"} /\ restore'.row = restore.row
      /\ restore'.kind = restore.kind /\ logOptions' = log
  <2>1. /\ AskingIs(upwards', agentHolds', agentHolds, "effort", r.row["effort"]) /\ OptionValue("effort", r.row["effort"])
        /\ restore'.step = "effort" /\ restore'.done = UpTo("effort") /\ restore'.row = r.row
        /\ restore'.kind = r.kind
        /\ logOptions' = IF "effort" = "mode" THEN [log EXCEPT !.mode = r.row.mode] ELSE log
    BY GoesAsk
  <2> QED
    BY <2>1, KindsAre DEF OptionValue
<1>1. RestoringAnyhow' /\ restore' # NoRestore /\ record' = record
  BY AsksFurther
<1>2. r.row.effort = "high"
  <2>1. r.row.effort # "low"
    BY NextIs
  <2> QED
    BY <2>1, <1>0 DEF Effort
<1>4. /\ ~TellsIn(upwards', "mode") /\ agentHolds'.mode = agentHolds.mode /\ agentHolds'.model = "opus"
      /\ \/ agentHolds'.effort = "high" /\ LastIn(upwards').ok /\ (tells <=> TellsIn(upwards', "options"))
         \/ agentHolds'.effort = "low" /\ ~LastIn(upwards').ok /\ ~TellsIn(upwards', "options")
  BY <1>0, <1>2, KindsAre DEF AskingIs, ChangedTo
<1>7. Row' = Row
  BY <1>1, RowStays
<1>10. HasRow' <=> HasRow
  BY <1>0 DEF HasRow
<1>13. PuttingEffort'
  <2>1. ModeIsPut'
    BY <1>0, <1>4, <1>7 DEF ModeIsPut, ModePutIn, Tells
  <2>2. /\ restore'.done = {"mode", "model", "effort"} /\ restore'.row.effort = "high" /\ answering'
        /\ agentHolds'.model = "opus" /\ logOptions'.model = "opus" /\ record'.model = "opus"
    BY <1>0, <1>1, <1>2, <1>4
  <2>3. /\ LastAnswer'.ok => agentHolds'.effort = "high"
        /\ ~LastAnswer'.ok => ~Tells("options")' /\ logOptions'.effort = "low" /\ agentHolds'.effort = "low"
        /\ LastAnswer'.ok => (HasRow' /\ Tells("options")') \/ record'.effort = "high"
    BY <1>0, <1>1, <1>2, <1>4, <1>10 DEF LastAnswer, Tells
  <2> QED
    BY <2>1, <2>2, <2>3 DEF PuttingEffort
<1>14. Restoring'
  BY <1>0, <1>1, <1>13 DEF RestoringAnyhow, Restoring
<1> QED
  BY <1>1, <1>14 DEF OptionsFit

\* An answer for a restore is the last message of a conversation that is restored.
LEMMA RestoreIsTurned ==
  ASSUME TypesFit, OptionsFit, RestoreIsAnswered
  PROVE  /\ Restoring /\ Tail(upwards) = <<>> /\ Head(upwards) = LastAnswer
         /\ LastAnswer.options = OptionsIn(agentHolds) /\ LastAnswer.ok \in BOOLEAN
         /\ \E r, log : GoesOnFrom(r, log) /\ Turn(r, log)
<1>1. /\ upwards # <<>> /\ Head(upwards).what = "answer" /\ Head(upwards).to = "restore"
      /\ \E r, log : GoesOnFrom(r, log) /\ RestoreGoesOn(r, log, Tail(upwards))
      /\ tells' = tells /\ answering' = answering /\ asks' = asks /\ pageMode' = pageMode /\ lastMode' = lastMode
  BY AnsweredIs
<1>2. upwards \in Seq(MessageSet) /\ Head(upwards) = upwards[1] /\ 1 \in DOMAIN upwards /\ Head(upwards).ok \in BOOLEAN
  BY <1>1, HeadIs, TypesParts DEF Shifted
<1>3. restore # NoRestore
  <2>1. ~Resting
    BY <1>1 DEF Resting
  <2>2. ~Flowing
    BY <1>1, <1>2, ThreadOptionsAssumption DEF Flowing, AsksFit
  <2> QED
    BY <2>1, <2>2 DEF OptionsFit
<1>4. Restoring /\ record.model \in Model
  BY <1>3 DEF OptionsFit
<1>5. QueueFits(upwards, agentHolds, restore.step)
  BY <1>4 DEF Restoring, RestoringQueue
<1>6. /\ Tail(upwards) = <<>> /\ Head(upwards) = LastIn(upwards) /\ Head(upwards).options = OptionsIn(agentHolds)
      /\ ~TellsIn(upwards, "mode") /\ ~TellsIn(upwards, "options")
  BY <1>1, <1>2, <1>5, QueueEnds
<1>7. RestoringAnyhow
  BY <1>4 DEF Restoring, RestoringAnyhow
<1>8. PICK r, log : GoesOnFrom(r, log) /\ RestoreGoesOn(r, log, <<>>)
  BY <1>1, <1>6
<1>9. r \in RestoreSet /\ log \in MaybeOptions /\ r.kind = restore.kind /\ r.row = restore.row /\ r.done = restore.done
  BY <1>1, <1>8, GoesOnTyped
<1>10. Turn(r, log)
  BY <1>1, <1>4, <1>6, <1>7, <1>8, <1>9 DEF Turn, Tells
<1> QED
  BY <1>2, <1>4, <1>6, <1>8, <1>10 DEF LastAnswer

\* The options of a row that is put back.
LEMMA RowPossible ==
  ASSUME RestoringAnyhow
  PROVE  /\ restore.row.mode \in Mode /\ restore.row.model \in Model /\ restore.row.mode # Unset /\ restore.row.model # Unset
         /\ restore.row.model \in {"opus", "haiku"} /\ restore.row.effort \in {"low", "high", Unset}
         /\ agentHolds.mode \in Mode /\ agentHolds.model \in Model
BY OptionsInIs DEF RestoringAnyhow, OptionSet, AgentFits, Mode, Model, Effort, Unset

\* A restore goes on with the answer of the load or the mint.
LEMMA LoadEnds ==
  ASSUME NEW r, NEW log, Turn(r, log), Loading, r.known = FreshOptions, notTaken' = notTaken, restore.step = "loaded",
         log = IF restore.kind = "relay" THEN logOptions ELSE FreshOptions
  PROVE  OptionsFit'
<1> USE DEF Turn
<1>1. CASE NextOption(r) = "mode"
  BY <1>1, ToMode
<1>2. CASE NextOption(r) # "mode"
  <2>1. agentHolds.mode = AgentMode /\ agentHolds.model = "haiku" /\ agentHolds.effort = Unset
    BY OptionsInIs, FreshFields DEF Loading
  <2>2. restore.row.mode = AgentMode
    <3>1. AgentMode # Unset /\ "mode" \notin r.done
      BY DEF AgentMode, Unset, Loading
    <3> QED
      BY <1>2, <3>1, NextIs, FreshFields, RowPossible
  <2>3. Row.mode \in Mode /\ Row.model = record.model /\ Row.effort = record.effort
        /\ (record.mode # Unset => Row.mode = record.mode)
    BY RowIs, TypesParts
  <2>4. restore.kind \in {"fill", "relay", "mint"} /\ (~HasRow => pageMode = Unset)
    BY DEF RestoringAnyhow
  <2>5. ModePutIn(log, notTaken')
    <3>1. log.mode = AgentMode /\ log.model # Unset
      <4>1. CASE restore.kind = "relay"
        BY <4>1, <2>2 DEF Loading
      <4>2. CASE restore.kind # "relay"
        BY <4>2, FreshFields DEF Unset
      <4> QED
        BY <4>1, <4>2
    <3>2. Row.mode = AgentMode
      <4>1. CASE tells /\ HasRow
        BY <4>1, <2>3 DEF Loading, AgentMode, Unset
      <4>2. CASE ~(tells /\ HasRow)
        BY <4>2, <2>2 DEF Loading
      <4> QED
        BY <4>1, <4>2
    <3>3. notTaken = TRUE \/ lastMode = AgentMode
      BY <2>2 DEF Loading
    <3>4. notTaken = TRUE \/ pageMode \in {Unset, AgentMode}
      <4>1. CASE restore.kind = "fill"
        BY <4>1, <2>2 DEF Loading
      <4>2. CASE restore.kind = "relay"
        BY <4>2, <2>2 DEF Loading
      <4>3. CASE restore.kind = "mint"
        BY <4>3, <2>4 DEF HasRow
      <4> QED
        BY <4>1, <4>2, <4>3, <2>4
    <3> QED
      BY <3>1, <3>2, <3>3, <3>4, <2>1 DEF ModePutIn, ModeIsRight
  <2>6. restore.kind # "relay" => log.model = "haiku" /\ (answering => log.effort = Unset)
    BY FreshFields
  <2>7. ~tells \/ ~HasRow => record.model = restore.row.model /\ record.effort = restore.row.effort
    BY <2>3 DEF Loading
  <2>8. CASE NextOption(r) = "model"
    BY <2>1, <2>5, <2>6, <2>7, <2>8, FreshFields, ToModel
  <2>9. CASE NextOption(r) # "model"
    <3>1. restore.row.model = "haiku"
      <4>1. "model" \notin r.done /\ r.known.model # Unset
        BY FreshFields DEF Loading, Unset
      <4> QED
        BY <1>2, <2>9, <4>1, NextIs, FreshFields, RowPossible
    <3>2. NextOption(r) = "none"
      BY <1>2, <2>9, NextIs, FreshFields DEF OptionIds
    <3>3. log.model = "haiku" /\ (answering => log.effort = Unset)
      <4>1. CASE restore.kind = "relay"
        BY <4>1, <3>1 DEF Loading
      <4> QED
        BY <4>1, <2>6
    <3>4. record.model = "haiku"
      <4>1. CASE tells /\ HasRow
        BY <4>1 DEF Loading
      <4> QED
        BY <4>1, <2>7, <3>1
    <3>5. Ready(log, notTaken')
      BY <2>1, <2>5, <3>3, <3>4 DEF Ready, ModePutIn, SettingsAreRight
    <3> QED
      BY <3>2, <3>5, Ends
  <2> QED
    BY <2>8, <2>9
<1> QED
  BY <1>1, <1>2

\* A restore goes on with the answer about the mode.
LEMMA ModeEnds ==
  ASSUME NEW r, NEW log, Turn(r, log), PuttingMode, r = restore,
         log = IF LastAnswer.ok THEN logOptions ELSE [logOptions EXCEPT !.mode = AgentMode],
         notTaken' = (notTaken \/ ~LastAnswer.ok \/ agentHolds.mode # restore.row.mode)
  PROVE  OptionsFit'
<1> USE DEF Turn
<1>1. logOptions \in MaybeOptions /\ notTaken \in BOOLEAN /\ AgentMode \in Mode \cup {Unset}
  BY TypesParts DEF AgentMode, Mode
<1>2. log.model = logOptions.model /\ log.effort = logOptions.effort /\ log.mode = agentHolds.mode
  <2>1. CASE LastAnswer.ok
    BY <2>1 DEF PuttingMode
  <2>2. CASE ~LastAnswer.ok
    BY <2>2, <1>1, OptionFields DEF PuttingMode
  <2> QED
    BY <2>1, <2>2
<1>3. agentHolds.mode = restore.row.mode \/ agentHolds.mode = AgentMode
  BY DEF PuttingMode
<1>4. agentHolds.mode = restore.row.mode =>
        /\ Row.mode = restore.row.mode
        /\ notTaken = TRUE \/ (lastMode = restore.row.mode /\ pageMode \in {Unset, restore.row.mode})
  BY DEF PuttingMode
<1>5. ModePutIn(log, notTaken')
  BY <1>1, <1>2, <1>3, <1>4 DEF ModePutIn, ModeIsRight, PuttingMode
<1>6. ~tells \/ ~HasRow => record.model = restore.row.model /\ record.effort = restore.row.effort
  BY DEF PuttingMode
<1>7. r.known = FreshOptions /\ r.done = {"mode"} /\ agentHolds.model = "haiku" /\ agentHolds.effort = Unset
  BY DEF PuttingMode
<1>8. restore.kind # "relay" \/ restore.row.model = "haiku" => log.model = "haiku" /\ (answering => log.effort = Unset)
  BY <1>2 DEF PuttingMode
<1>9. CASE NextOption(r) = "model"
  BY <1>5, <1>6, <1>7, <1>8, <1>9, FreshFields, ToModel
<1>10. CASE NextOption(r) # "model"
  <2>1. NextOption(r) # "mode"
    BY <1>7, NextIs
  <2>2. restore.row.model = "haiku"
    <3>1. "model" \notin r.done /\ r.known.model = "haiku" /\ r.known.model # Unset
      BY <1>7, FreshFields DEF Unset
    <3> QED
      BY <1>10, <2>1, <3>1, NextIs, RowPossible
  <2>3. NextOption(r) = "none"
    BY <1>7, <1>10, <2>1, NextIs, FreshFields DEF OptionIds
  <2>4. record.model = "haiku"
    <3>1. CASE tells /\ HasRow
      BY <3>1 DEF PuttingMode
    <3> QED
      BY <3>1, <1>6, <2>2
  <2>5. Ready(log, notTaken')
    BY <1>5, <1>7, <1>8, <2>2, <2>4 DEF Ready, ModePutIn, SettingsAreRight
  <2> QED
    BY <2>3, <2>5, Ends
<1> QED
  BY <1>9, <1>10

\* What the mode was put to stays put.
LEMMA PutStays ==
  ASSUME ModeIsPut, NEW log, log.mode = logOptions.mode, log.model # Unset,
         notTaken' = notTaken \/ notTaken' = TRUE, notTaken = TRUE => notTaken' = TRUE
  PROVE  ModePutIn(log, notTaken')
BY DEF ModeIsPut, ModePutIn, ModeIsRight

\* A restore goes on with the answer about the model.
LEMMA ModelEnds ==
  ASSUME NEW r, NEW log, Turn(r, log), PuttingModel, LastAnswer.options = OptionsIn(agentHolds),
         r = IF LastAnswer.ok /\ answering THEN [restore EXCEPT !.known = [LastAnswer.options EXCEPT !.mode = restore.known.mode]]
             ELSE restore,
         log = IF LastAnswer.ok THEN Configured(logOptions, "model", restore.row.model, LastAnswer.options) ELSE logOptions,
         notTaken' = (notTaken \/ ~LastAnswer.ok), restore.kind # "relay" \/ LastAnswer.ok
  PROVE  OptionsFit'
<1> USE DEF Turn
<1>1. /\ logOptions \in MaybeOptions /\ notTaken \in BOOLEAN /\ answering \in BOOLEAN /\ restore \in RestoreSet
      /\ agentHolds \in AgentSet /\ restore.known \in MaybeOptions
  BY TypesParts DEF RestoreSet
<1>2. ModeIsPut /\ restore.row.model = "opus" /\ r.done = {"mode", "model"}
      /\ restore.known.effort = Unset
  BY DEF PuttingModel
<1>3. OptionValue("model", restore.row.model) /\ OptionsIn(agentHolds) \in MaybeOptions
  BY <1>1, <1>2, MessagesAre DEF OptionValue, Model
<1>4. logOptions.model # Unset /\ logOptions.mode = agentHolds.mode
  BY <1>2 DEF ModeIsPut
<1>5. NextOption(r) \in {"effort", "none"}
  BY <1>2, NextIs DEF OptionIds
<1>6. CASE LastAnswer.ok /\ answering
  <2>1. agentHolds.model = "opus" /\ agentHolds.effort = "low"
    BY <1>6 DEF PuttingModel
  <2>2. r.known.effort = "low"
    <3> PICK o \in MaybeOptions : o = OptionsIn(agentHolds)
      BY <1>3
    <3>1. [o EXCEPT !.mode = restore.known.mode].effort = o.effort
      BY <1>1, OptionFields
    <3>2. r = [restore EXCEPT !.known = [o EXCEPT !.mode = restore.known.mode]]
      BY <1>6
    <3>3. r.known = [o EXCEPT !.mode = restore.known.mode]
      BY <3>2, <1>1 DEF RestoreSet
    <3> QED
      BY <3>1, <3>3, <2>1, OptionsInIs
  <2>3. log.mode = logOptions.mode /\ log.model = "opus" /\ log.effort = "low"
    BY <1>1, <1>3, <1>6, <2>1, ConfiguredIs, OptionsInIs
  <2>4. ModePutIn(log, notTaken')
    BY <1>1, <1>2, <2>3, PutStays DEF Unset
  <2>5. record.model = "opus" /\ (~tells \/ ~HasRow => record.effort = restore.row.effort)
        /\ (tells /\ HasRow => record.effort = "low")
    BY <1>6 DEF PuttingModel
  <2>6. CASE NextOption(r) = "effort"
    BY <1>6, <2>1, <2>2, <2>3, <2>4, <2>5, <2>6, ToEffort
  <2>7. CASE NextOption(r) = "none"
    <3>1. restore.row.effort \in {Unset, "low"}
      <4>1. "effort" \notin r.done /\ r.known.effort # Unset
        BY <1>2, <2>2 DEF Unset
      <4> QED
        BY <2>2, <2>7, <4>1, NextIs
    <3>2. record.effort \in {Unset, "low"}
      BY <2>5, <3>1
    <3>3. Ready(log, notTaken')
      BY <2>1, <2>3, <2>4, <2>5, <3>2 DEF Ready, ModePutIn, SettingsAreRight
    <3> QED
      BY <2>7, <3>3, Ends
  <2> QED
    BY <1>5, <2>6, <2>7
<1>7. CASE ~(LastAnswer.ok /\ answering)
  <2>1. r = restore
    BY <1>7
  <2>2. NextOption(r) = "none"
    BY <1>2, <1>5, <2>1, NextIs
  <2>3. Ready(log, notTaken')
    <3>1. CASE LastAnswer.ok
      <4>1. answering # TRUE /\ ~answering
        BY <1>7, <3>1
      <4>2. log = NowSet(logOptions, "model", "opus")
        <5>1. log = Configured(logOptions, "model", restore.row.model, LastAnswer.options)
          BY <3>1
        <5> QED
          BY <1>2, <4>1, <5>1 DEF Configured
      <4>3. log.mode = logOptions.mode /\ log.model = "opus"
        <5>1. \A f \in OptionIds : log[f] = IF f = "model" /\ logOptions[f] # Unset THEN "opus" ELSE logOptions[f]
          BY <1>1, <1>2, <1>3, <4>2, NowSetIs
        <5>2. log["mode"] = logOptions["mode"] /\ log["model"] = "opus"
          BY <5>1, <1>4 DEF OptionIds
        <5> QED
          BY <5>2
      <4>4. ModePutIn(log, notTaken')
        BY <1>1, <1>2, <4>3, PutStays DEF Unset
      <4>5. agentHolds.model = "opus" /\ record.model = "opus"
        BY <3>1 DEF PuttingModel
      <4> QED
        BY <4>1, <4>3, <4>4, <4>5 DEF Ready, ModePutIn, SettingsAreRight
    <3>2. CASE ~LastAnswer.ok
      <4>1. log = logOptions /\ notTaken' = TRUE
        BY <3>2
      <4>2. ModePutIn(log, notTaken')
        BY <1>1, <1>2, <1>4, <4>1, PutStays
      <4>3. agentHolds.model = "haiku" /\ agentHolds.effort = Unset /\ log.model = "haiku" /\ (answering => log.effort = Unset)
        BY <3>2, <4>1 DEF PuttingModel
      <4> QED
        BY <4>1, <4>2, <4>3 DEF Ready, ModePutIn, SettingsAreRight
    <3> QED
      BY <3>1, <3>2
  <2> QED
    BY <2>2, <2>3, Ends
<1> QED
  BY <1>6, <1>7

\* A restore ends with the answer about the effort.
LEMMA EffortEnds ==
  ASSUME NEW r, NEW log, Turn(r, log), PuttingEffort, LastAnswer.options = OptionsIn(agentHolds),
         log = IF LastAnswer.ok THEN Configured(logOptions, "effort", restore.row.effort, LastAnswer.options) ELSE logOptions,
         notTaken' = (notTaken \/ ~LastAnswer.ok)
  PROVE  OptionsFit'
<1> USE DEF Turn
<1>1. /\ logOptions \in MaybeOptions /\ notTaken \in BOOLEAN /\ answering \in BOOLEAN /\ agentHolds \in AgentSet
  BY TypesParts
<1>2. ModeIsPut /\ answering /\ restore.row.effort = "high" /\ r.done = {"mode", "model", "effort"}
      /\ agentHolds.model = "opus" /\ logOptions.model = "opus" /\ record.model = "opus"
  BY DEF PuttingEffort
<1>3. OptionValue("effort", restore.row.effort) /\ OptionsIn(agentHolds) \in MaybeOptions
  BY <1>1, <1>2, MessagesAre DEF OptionValue, Effort
<1>4. NextOption(r) = "none"
  BY <1>2, NextIs DEF OptionIds
<1>5. CASE LastAnswer.ok
  <2>1. agentHolds.effort = "high" /\ record.effort = "high"
    BY <1>5 DEF PuttingEffort, Turn
  <2>2. log.mode = logOptions.mode /\ log.model = "opus" /\ log.effort = "high"
    BY <1>1, <1>2, <1>3, <1>5, <2>1, ConfiguredIs, OptionsInIs
  <2>3. ModePutIn(log, notTaken')
    BY <1>1, <1>2, <2>2, PutStays DEF Unset
  <2>4. Ready(log, notTaken')
    BY <1>2, <2>1, <2>2, <2>3 DEF Ready, ModePutIn, SettingsAreRight
  <2> QED
    BY <1>4, <2>4, Ends
<1>6. CASE ~LastAnswer.ok
  <2>1. log = logOptions /\ notTaken' = TRUE /\ log.effort = "low" /\ agentHolds.effort = "low"
    BY <1>6 DEF PuttingEffort
  <2>2. ModePutIn(log, notTaken')
    BY <1>1, <1>2, <2>1, PutStays DEF Unset
  <2>3. Ready(log, notTaken')
    BY <1>2, <2>1, <2>2 DEF Ready, ModePutIn, SettingsAreRight
  <2> QED
    BY <1>4, <2>3, Ends
<1> QED
  BY <1>5, <1>6

\* RestoreIsAnswered keeps OptionsFit.
LEMMA OptionsAnswered == ASSUME TypesFit, OptionsFit, RestoreIsAnswered, muddled' # TRUE PROVE OptionsFit'
<1>1. /\ Restoring /\ Head(upwards) = LastAnswer
      /\ LastAnswer.options = OptionsIn(agentHolds) /\ LastAnswer.ok \in BOOLEAN
  BY RestoreIsTurned
<1>2. PICK r, log : GoesOnFrom(r, log) /\ Turn(r, log)
  BY RestoreIsTurned
<1>3. /\ notTaken' = (notTaken \/ ~LastAnswer.ok \/ (restore.step = "mode" /\ agentHolds.mode # restore.row.mode))
      /\ muddled' = (muddled \/ (restore.kind = "relay" /\ ~LastAnswer.ok))
  BY <1>1, AnsweredIs, OptionsInIs
<1>4. /\ notTaken \in BOOLEAN /\ restore \in RestoreSet /\ logOptions \in MaybeOptions /\ agentHolds \in AgentSet
  BY TypesParts
<1>5. CASE restore.step \in {"load", "loaded"} /\ Loading
  <2>1. restore.step = "loaded"
    BY <1>1, <1>5 DEF Restoring, RestoringQueue, QueueFits, LastAnswer, TellsIn, RestoreIsAnswered, FirstOf
  <2>2. r = [restore EXCEPT !.known = FreshOptions] /\ log = IF restore.kind = "relay" THEN logOptions ELSE FreshOptions
    BY <1>1, <1>2, <1>5, <2>1 DEF GoesOnFrom, Loading
  <2>3. r.known = FreshOptions
    BY <1>4, <2>2 DEF RestoreSet
  <2>4. notTaken' = notTaken
    BY <1>3, <1>4, <1>5, <2>1 DEF Loading
  <2> QED
    BY <1>2, <1>5, <2>1, <2>2, <2>3, <2>4, LoadEnds
<1>6. CASE restore.step = "mode" /\ PuttingMode
  <2>1. r = restore /\ log = IF LastAnswer.ok THEN logOptions ELSE [logOptions EXCEPT !.mode = AgentMode]
    BY <1>1, <1>2, <1>6, FreshFields DEF GoesOnFrom, PuttingMode
  <2> QED
    BY <1>2, <1>3, <1>6, <2>1, ModeEnds
<1>7. CASE restore.step = "model" /\ PuttingModel
  <2>1. /\ r = IF LastAnswer.ok /\ answering THEN [restore EXCEPT !.known = [LastAnswer.options EXCEPT !.mode = restore.known.mode]]
               ELSE restore
        /\ log = IF LastAnswer.ok THEN Configured(logOptions, "model", restore.row["model"], LastAnswer.options) ELSE logOptions
    BY <1>1, <1>2, <1>7 DEF GoesOnFrom
  <2>2. notTaken' = (notTaken \/ ~LastAnswer.ok) /\ (restore.kind # "relay" \/ LastAnswer.ok)
    BY <1>3, <1>7
  <2> QED
    BY <1>1, <1>2, <1>7, <2>1, <2>2, ModelEnds
<1>8. CASE restore.step = "effort" /\ PuttingEffort
  <2>1. log = IF LastAnswer.ok THEN Configured(logOptions, "effort", restore.row["effort"], LastAnswer.options) ELSE logOptions
    BY <1>1, <1>2, <1>8 DEF GoesOnFrom
  <2>2. notTaken' = (notTaken \/ ~LastAnswer.ok)
    BY <1>3, <1>8
  <2> QED
    BY <1>1, <1>2, <1>8, <2>1, <2>2, EffortEnds
<1> QED
  BY <1>1, <1>5, <1>6, <1>7, <1>8 DEF Restoring

(***************************************************************************)
(* Starts, loads and mints.                                                *)
(***************************************************************************)

\* Fresh options are possible.
LEMMA FreshFits ==
  ASSUME NEW a, agentHolds' = a, OptionsIn(a) = FreshOptions
  PROVE  AgentFits'
<1>1. OptionsIn(a) \in OptionSet /\ a.effort = Unset /\ a.model = "haiku"
  BY OptionsInIs, FreshFields DEF OptionSet, FreshOptions, AgentMode, Mode, Model
<1> QED
  BY <1>1 DEF AgentFits, OptionsIn

\* What a restore puts back is possible.
LEMMA RowIsPut ==
  ASSUME TypesFit, record.model \in Model
  PROVE  Row \in OptionSet
BY RowIs, TypesParts DEF OptionSet, MaybeOptions

\* What is told of a load, from an empty queue.
LEMMA LoadTells ==
  ASSUME NEW a \in AgentSet
  PROVE  /\ QueueFits(Told(a), a, "load") /\ TellsIn(Told(a), "mode") /\ TellsIn(Told(a), "options")
         /\ QueueFits(<<>>, a, "load") /\ \A w : ~TellsIn(<<>>, w)
<1>1. Told(a) = <<AllUpdate(a, "mode"), AllUpdate(a, "options")>>
  BY DEF Told, AllUpdate, OptionUpdate
<1>2. /\ AllUpdate(a, "mode").what = "mode" /\ AllUpdate(a, "mode").to = "all" /\ AllUpdate(a, "mode").options = OptionsIn(a)
      /\ AllUpdate(a, "options").what = "options" /\ AllUpdate(a, "options").to = "all"
      /\ AllUpdate(a, "options").options = OptionsIn(a)
      /\ AllUpdate(a, "mode") \in MessageSet /\ AllUpdate(a, "options") \in MessageSet
  BY UpdateFields
<1> PICK x \in MessageSet, y \in MessageSet : x = AllUpdate(a, "mode") /\ y = AllUpdate(a, "options")
  BY <1>2
<1>3. DOMAIN <<x, y>> = {1, 2} /\ <<x, y>>[1] = x /\ <<x, y>>[2] = y /\ Len(<<x, y>>) = 2
  <2>1. DOMAIN <<x, y>> = 1..2 /\ <<x, y>>[1] = x /\ <<x, y>>[2] = y /\ Len(<<x, y>>) = 2
    OBVIOUS
  <2> QED
    BY <2>1
<1> PICK t : t = <<x, y>>
  OBVIOUS
<1>4. QueueFits(t, a, "load") /\ TellsIn(t, "mode") /\ TellsIn(t, "options")
  BY <1>2, <1>3 DEF QueueFits, TellsIn
<1>5. DOMAIN <<>> = {}
  OBVIOUS
<1>6. QueueFits(<<>>, a, "load") /\ \A w : ~TellsIn(<<>>, w)
  BY <1>5 DEF QueueFits, TellsIn
<1> QED
  BY <1>1, <1>4, <1>6

\* An adapter that holds nothing.
LEMMA NothingHeld ==
  /\ ~Nothing.up /\ Nothing.id = 0 /\ [Nothing EXCEPT !.up = TRUE].id = 0
BY DEF Nothing

\* AdapterComesUp keeps OptionsFit.
LEMMA OptionsComeUp == ASSUME TypesFit, OptionsFit, AdapterComesUp PROVE OptionsFit'
<1>1. restore = NoRestore /\ ~Holds
  BY DEF AdapterComesUp, OptionsFit, Restoring, Holds
<1>2. Resting
  BY <1>1 DEF OptionsFit
<1>3. Row' = Row /\ ~Holds' /\ restore' = NoRestore
  BY <1>1, NothingHeld DEF AdapterComesUp, Row, OptionsIn, Holds
<1>4. Resting'
  BY <1>2, <1>3 DEF Resting, AdapterComesUp, Waits
<1> QED
  BY <1>3, <1>4 DEF OptionsFit, AdapterComesUp

\* ThreadIsLoaded keeps OptionsFit.
LEMMA OptionsLoad == ASSUME TypesFit, ContextKept, OptionsFit, ThreadIsLoaded PROVE OptionsFit'
<1>1. restore = NoRestore /\ ~Holds /\ agentHolds.up /\ record.id # 0
  BY DEF ThreadIsLoaded, Holds
<1>2. Resting /\ record.model \in Model
  BY <1>1 DEF OptionsFit
<1>3. /\ tells' = tells /\ answering' = answering /\ asks' = asks /\ lastMode' = lastMode /\ notTaken' = notTaken
  BY DEF ThreadIsLoaded
<1>4. Row \in OptionSet /\ Row.effort = record.effort /\ tells \in BOOLEAN /\ record.id \in Nat /\ Row \in MaybeOptions
  BY <1>2, RowIsPut, RowIs, TypesParts DEF RowSet
<1>5. CASE record.id \in DOMAIN transcripts
  <2> DEFINE agent == FreshConversation(record.id, transcripts[record.id])
  <2>1. agent \in AgentSet /\ agent.id = record.id /\ agent.up /\ OptionsIn(agent) = FreshOptions
    BY <1>4, <1>5, FreshIs, TypesParts
  <2>2. /\ agentHolds' = agent /\ upwards' = (IF tells THEN Told(agent) ELSE <<>>)
        /\ restore' = [NoRestore EXCEPT !.kind = "fill", !.step = "load", !.row = Row]
        /\ record' = record /\ pageMode' = pageMode
    BY <1>5 DEF ThreadIsLoaded
  <2> HIDE DEF agent
  <2>3. restore' # NoRestore /\ restore'.kind = "fill" /\ restore'.step = "load" /\ restore'.row = Row /\ restore'.done = {}
    <3>1. restore' = [kind |-> "fill", step |-> "load", row |-> Row, known |-> NoOptions, done |-> {}]
      BY <2>2 DEF NoRestore
    <3>2. restore'.kind = "fill" /\ restore'.step = "load" /\ restore'.row = Row /\ restore'.done = {}
      BY <3>1
    <3> QED
      BY <3>2, NoOnesAre
  <2>4. Row' = Row
    BY <2>2, RowStays
  <2>5. RestoringQueue' /\ (tells => TellsIn(upwards', "mode") /\ TellsIn(upwards', "options"))
        /\ (~tells => ~TellsIn(upwards', "mode") /\ ~TellsIn(upwards', "options"))
    BY <2>1, <2>2, <2>3, LoadTells DEF RestoringQueue
  <2>6. Loading'
    BY <1>1, <1>2, <1>3, <1>4, <2>1, <2>2, <2>3, <2>4, <2>5 DEF Loading, HasRow, Tells, Resting
  <2>7. AgentFits'
    BY <2>1, <2>2, FreshFits
  <2>8. Restoring'
    BY <1>1, <1>2, <1>3, <1>4, <2>1, <2>2, <2>3, <2>5, <2>6, <2>7 DEF Restoring, Waits, HasRow, Holds, Resting
  <2> QED
    BY <1>2, <2>2, <2>3, <2>8 DEF OptionsFit
<1>6. CASE record.id \notin DOMAIN transcripts
  <2>1. /\ record' = [record EXCEPT !.id = 0] /\ pageMode' = Unset /\ agentHolds' = agentHolds /\ upwards' = upwards
        /\ restore' = restore
    BY <1>6 DEF ThreadIsLoaded
  <2>2. record'.id = 0 /\ record'.mode = record.mode /\ record'.model = record.model /\ Row'.mode = Row.mode
    BY <2>1, TypesParts DEF RowSet, Row, OptionsIn
  <2>3. Resting'
    BY <1>2, <1>3, <2>1, <2>2 DEF Resting, Waits
  <2> QED
    BY <1>1, <1>2, <2>1, <2>2, <2>3 DEF OptionsFit, Holds
<1> QED
  BY <1>5, <1>6

\* The thread is idle: the log and the page show what the agent runs with.
LEMMA IdleIs ==
  ASSUME TypesFit, Flowing, upwards = <<>>, \A a \in Wish : ~Waits(a)
  PROVE  /\ logOptions.mode = agentHolds.mode /\ ModeIsRight(agentHolds.mode, lastMode, Row.mode, notTaken)
         /\ notTaken = TRUE \/ pageMode \in {Unset, logOptions.mode}
         /\ logOptions.model = agentHolds.model /\ (answering = TRUE => logOptions.effort = agentHolds.effort)
         /\ SettingsAreRight(agentHolds.model, agentHolds.effort, record, answering, notTaken)
<1>1. DOMAIN upwards = {}
  OBVIOUS
<1>2. ~Doomed
  BY <1>1 DEF Doomed
<1>3. ModeFlows /\ PageFollows /\ SettingsFlow
  BY <1>2 DEF Flowing
<1>4. ModeNone(upwards, asks, agentHolds.mode, logOptions.mode, lastMode, Row.mode, notTaken)
  BY <1>3 DEF ModeFlows, ModeRuns
<1>5. SettingsNone(upwards, asks, agentHolds.model, agentHolds.effort, logOptions, record, answering, notTaken)
  BY <1>3 DEF SettingsFlow, SettingsRun
<1>6. logOptions.mode = agentHolds.mode /\ ModeIsRight(agentHolds.mode, lastMode, Row.mode, notTaken)
  BY <1>1, <1>4 DEF ModeNone
<1>7. /\ logOptions.model = agentHolds.model /\ (answering = TRUE => logOptions.effort = agentHolds.effort)
      /\ SettingsAreRight(agentHolds.model, agentHolds.effort, record, answering, notTaken)
  BY <1>1, <1>5 DEF SettingsNone
<1> QED
  BY <1>3, <1>6, <1>7 DEF PageFollows

\* HistoryIsRelayed keeps OptionsFit, unless it crosses a change.
LEMMA OptionsRelay == ASSUME TypesFit, ContextKept, OptionsFit, HistoryIsRelayed, muddled' # TRUE PROVE OptionsFit'
<1>1. restore = NoRestore /\ Holds /\ record.id \in DOMAIN transcripts
  BY DEF HistoryIsRelayed
<1>2. Flowing /\ record.model \in Model
  BY <1>1 DEF OptionsFit
<1>3. /\ tells' = tells /\ answering' = answering /\ asks' = asks /\ lastMode' = lastMode /\ notTaken' = notTaken
      /\ record' = record /\ pageMode' = pageMode /\ logOptions' = logOptions
  BY DEF HistoryIsRelayed
<1>4. Row \in OptionSet /\ Row.effort = record.effort /\ Row.model = record.model /\ tells \in BOOLEAN /\ record.id \in Nat
      /\ Row \in MaybeOptions /\ answering \in BOOLEAN
  BY <1>2, RowIsPut, RowIs, TypesParts DEF RowSet
<1>5. upwards = <<>> /\ \A a \in Wish : ~Waits(a)
  BY DEF HistoryIsRelayed
<1> DEFINE agent == FreshConversation(record.id, transcripts[record.id])
<1>6. agent \in AgentSet /\ agent.id = record.id /\ agent.up /\ OptionsIn(agent) = FreshOptions
  BY <1>1, <1>4, FreshIs, TypesParts
<1>7. /\ agentHolds' = agent /\ upwards' = <<>> \o (IF tells THEN Told(agent) ELSE <<>>)
      /\ restore' = [NoRestore EXCEPT !.kind = "relay", !.step = "load", !.row = Row]
  BY <1>5 DEF HistoryIsRelayed
<1> HIDE DEF agent
<1>8. upwards' = (IF tells THEN Told(agent) ELSE <<>>)
  <2>1. Told(agent) \in Seq(MessageSet)
    <3>1. <<>> \in Seq(MessageSet)
      OBVIOUS
    <3> QED
      BY <1>6, <3>1, ToldIs
  <2>2. <<>> \o Told(agent) = Told(agent) /\ <<>> \o <<>> = <<>>
    BY <2>1, ConcatEmptySeq
  <2> QED
    BY <1>7, <2>2
<1>9. restore' # NoRestore /\ restore'.kind = "relay" /\ restore'.step = "load" /\ restore'.row = Row /\ restore'.done = {}
  <2>1. restore' = [kind |-> "relay", step |-> "load", row |-> Row, known |-> NoOptions, done |-> {}]
    BY <1>7 DEF NoRestore
  <2>2. restore'.kind = "relay" /\ restore'.step = "load" /\ restore'.row = Row /\ restore'.done = {}
    BY <2>1
  <2> QED
    BY <2>2, NoOnesAre
<1>10. Row' = Row
  BY <1>3, RowStays
<1>11. RestoringQueue' /\ (tells => TellsIn(upwards', "mode") /\ TellsIn(upwards', "options"))
       /\ (~tells => ~TellsIn(upwards', "mode") /\ ~TellsIn(upwards', "options"))
  BY <1>6, <1>7, <1>8, <1>9, LoadTells DEF RestoringQueue
<1>12. /\ logOptions.mode = agentHolds.mode /\ ModeIsRight(agentHolds.mode, lastMode, Row.mode, notTaken)
       /\ notTaken = TRUE \/ pageMode \in {Unset, logOptions.mode}
       /\ logOptions.model = agentHolds.model /\ (answering = TRUE => logOptions.effort = agentHolds.effort)
       /\ SettingsAreRight(agentHolds.model, agentHolds.effort, record, answering, notTaken)
  BY <1>2, <1>5, IdleIs
<1>13. /\ logOptions.mode # Unset /\ logOptions.model # Unset
       /\ Row.mode = AgentMode => logOptions.mode = AgentMode
       /\ Row.model = "haiku" => logOptions.model = "haiku" /\ (answering => logOptions.effort = Unset)
       /\ notTaken = TRUE \/ (logOptions.mode = Row.mode /\ lastMode = Row.mode /\ pageMode \in {Unset, Row.mode})
  <2>1. logOptions.mode # Unset /\ logOptions.model # Unset /\ (agentHolds.model = "haiku" => agentHolds.effort = Unset)
    BY <1>2 DEF Flowing, AgentFits
  <2> QED
    BY <1>4, <1>12, <2>1 DEF ModeIsRight, SettingsAreRight
<1>14. Loading'
  BY <1>3, <1>4, <1>6, <1>7, <1>9, <1>10, <1>11, <1>13 DEF Loading, HasRow, Tells
<1>15. AgentFits'
  BY <1>6, <1>7, FreshFits
<1>16. Restoring'
  BY <1>1, <1>3, <1>4, <1>5, <1>6, <1>7, <1>9, <1>11, <1>14, <1>15 DEF Restoring, Waits, HasRow, Holds
<1> QED
  BY <1>2, <1>3, <1>9, <1>16 DEF OptionsFit

\* LoadIsAnswered keeps OptionsFit.
LEMMA OptionsLoadAnswered == ASSUME TypesFit, OptionsFit, LoadIsAnswered PROVE OptionsFit'
<1>1. restore.step = "load" /\ restore # NoRestore /\ agentHolds \in AgentSet /\ restore \in RestoreSet
  BY NoOnesAre, TypesParts DEF LoadIsAnswered
<1>2. Restoring /\ record.model \in Model /\ Loading
  BY <1>1 DEF OptionsFit, Restoring
<1>3. restore' = [restore EXCEPT !.step = "loaded"] /\ upwards' = Append(upwards, Answer("restore", TRUE, agentHolds))
      /\ UNCHANGED <<tells, answering, agentHolds, transcripts, record, logOptions, asks, pageMode, lastMode, notTaken>>
  BY DEF LoadIsAnswered, Answer
<1>4. restore'.step = "loaded" /\ restore'.kind = restore.kind /\ restore'.row = restore.row /\ restore'.done = restore.done
      /\ restore' # NoRestore
  BY <1>1, <1>3, NoOnesAre DEF RestoreSet
<1>5. upwards \in Seq(MessageSet) /\ QueueFits(upwards, agentHolds, "load")
  BY <1>1, <1>2, TypesParts DEF Restoring, RestoringQueue
<1>6. /\ QueueFits(upwards', agentHolds, "loaded") /\ LastIn(upwards').ok
      /\ \A w : w # "answer" => (TellsIn(upwards', w) <=> TellsIn(upwards, w))
  BY <1>1, <1>3, <1>5, QueueAnswers
<1>7. (Tells("mode")' <=> Tells("mode")) /\ (Tells("options")' <=> Tells("options")) /\ LastAnswer'.ok /\ RestoringQueue'
  BY <1>3, <1>4, <1>6 DEF Tells, LastAnswer, RestoringQueue
<1>8. Row' = Row /\ (HasRow' <=> HasRow) /\ (Holds' <=> Holds) /\ AgentFits' = AgentFits /\ \A a \in Wish : Waits(a)' = Waits(a)
  BY <1>3, <1>4 DEF Row, OptionsIn, HasRow, Holds, AgentFits, Waits
<1>9. Loading'
  BY <1>2, <1>3, <1>4, <1>7, <1>8 DEF Loading, OptionsIn
<1>10. Restoring'
  BY <1>2, <1>3, <1>4, <1>7, <1>8, <1>9 DEF Restoring
<1> QED
  BY <1>2, <1>3, <1>4, <1>10 DEF OptionsFit

\* ThreadIsMinted keeps OptionsFit.
LEMMA OptionsMinted == ASSUME TypesFit, OptionsFit, ThreadIsMinted PROVE OptionsFit'
<1>1. restore = NoRestore /\ ~Holds /\ agentHolds.up /\ record.id = 0 /\ mints \in Nat /\ tells \in BOOLEAN
  BY TypesParts DEF ThreadIsMinted, Holds
<1>2. Resting /\ record.model \in Model
  BY <1>1 DEF OptionsFit
<1>3. /\ tells' = tells /\ answering' = answering /\ asks' = asks /\ lastMode' = lastMode /\ notTaken' = notTaken
      /\ record' = record /\ pageMode' = pageMode
  BY DEF ThreadIsMinted
<1>4. Row \in OptionSet /\ Row.effort = record.effort /\ Row \in MaybeOptions /\ Row' = Row
  BY <1>2, <1>3, RowIsPut, RowIs, TypesParts, RowStays
<1>5. PICK branched \in BOOLEAN : LET agent == FreshConversation(mints + 1, branched)
          IN  /\ agentHolds' = agent
              /\ upwards' = <<Msg("answer", "restore", TRUE, OptionsIn(agent))>>
              /\ restore' = [NoRestore EXCEPT !.kind = "mint", !.step = "loaded", !.row = Row]
  BY DEF ThreadIsMinted
<1> DEFINE agent == FreshConversation(mints + 1, branched)
<1>6. agent \in AgentSet /\ agent.id = mints + 1 /\ agent.up /\ OptionsIn(agent) = FreshOptions
  BY <1>1, FreshIs
<1>7. agentHolds' = agent /\ upwards' = <<Answer("restore", TRUE, agent)>>
      /\ restore' = [NoRestore EXCEPT !.kind = "mint", !.step = "loaded", !.row = Row]
  BY <1>5 DEF Answer
<1> HIDE DEF agent
<1>8. restore' # NoRestore /\ restore'.kind = "mint" /\ restore'.step = "loaded" /\ restore'.row = Row /\ restore'.done = {}
  <2>1. restore' = [kind |-> "mint", step |-> "loaded", row |-> Row, known |-> NoOptions, done |-> {}]
    BY <1>7 DEF NoRestore
  <2>2. restore'.kind = "mint" /\ restore'.step = "loaded" /\ restore'.row = Row /\ restore'.done = {}
    BY <2>1
  <2> QED
    BY <2>2, NoOnesAre
<1>9. QueueFits(upwards', agentHolds', "loaded") /\ LastIn(upwards').ok /\ ~TellsIn(upwards', "mode") /\ ~TellsIn(upwards', "options")
  <2> PICK e \in MessageSet : e = Answer("restore", TRUE, agent)
    BY <1>6, AnswerFields
  <2>1. e.what = "answer" /\ e.to = "restore" /\ e.ok /\ e.options = OptionsIn(agent)
    BY <1>6, AnswerFields, AnswerOk
  <2> PICK t : t = <<e>>
    OBVIOUS
  <2>2. DOMAIN t = {1} /\ t[1] = e /\ Len(t) = 1 /\ t # <<>>
    <3>1. DOMAIN <<e>> = 1..1 /\ <<e>>[1] = e /\ Len(<<e>>) = 1 /\ <<e>> # <<>>
      OBVIOUS
    <3> QED
      BY <3>1
  <2>3. QueueFits(t, agent, "loaded") /\ LastIn(t).ok /\ ~TellsIn(t, "mode") /\ ~TellsIn(t, "options")
    BY <2>1, <2>2 DEF QueueFits, LastIn, TellsIn
  <2> QED
    BY <1>7, <2>3
<1>10. RestoringQueue' /\ LastAnswer'.ok /\ ~Tells("mode")' /\ ~Tells("options")'
  BY <1>8, <1>9 DEF RestoringQueue, LastAnswer, Tells
<1>11. Loading'
  BY <1>2, <1>3, <1>4, <1>6, <1>7, <1>8, <1>10 DEF Loading, HasRow, Resting
<1>12. AgentFits'
  BY <1>6, <1>7, FreshFits
<1>13. Restoring'
  BY <1>1, <1>2, <1>3, <1>4, <1>6, <1>7, <1>8, <1>10, <1>11, <1>12 DEF Restoring, Waits, HasRow, Resting
<1> QED
  BY <1>2, <1>3, <1>8, <1>13 DEF OptionsFit

(***************************************************************************)
(* The updates during a restore.                                           *)
(***************************************************************************)

\* What is told during a restore is what the agent holds.
LEMMA RestoreIsTold ==
  ASSUME TypesFit, Restoring, upwards # <<>>, Head(upwards).what # "answer", upwards' = Tail(upwards),
         agentHolds' = agentHolds, restore' = restore
  PROVE  /\ Head(upwards).options = OptionsIn(agentHolds) /\ Tells(Head(upwards).what) /\ RestoringQueue'
         /\ restore.step # "load" => LastAnswer' = LastAnswer
         /\ \A w : Tells(w)' => Tells(w)
         /\ \A w : Tells(w) => Tells(w)' \/ w = Head(upwards).what
<1>1. upwards \in Seq(MessageSet) /\ QueueFits(upwards, agentHolds, restore.step)
  BY TypesParts DEF Restoring, RestoringQueue
<1>2. /\ QueueFits(Tail(upwards), agentHolds, restore.step) /\ (restore.step # "load" => LastIn(Tail(upwards)) = LastIn(upwards))
      /\ \A w : TellsIn(Tail(upwards), w) => TellsIn(upwards, w)
      /\ \A w : TellsIn(upwards, w) => TellsIn(Tail(upwards), w) \/ w = Head(upwards).what
      /\ Head(upwards).options = OptionsIn(agentHolds) /\ TellsIn(upwards, Head(upwards).what)
  BY <1>1, QueuePops
<1> QED
  BY <1>2 DEF RestoringQueue, LastAnswer, Tells

\* ModeIsTold keeps OptionsFit during a restore.
LEMMA RestoreModeTold == ASSUME TypesFit, OptionsFit, restore # NoRestore, ModeIsTold PROVE OptionsFit'
<1>0. Restoring /\ record.model \in Model
  BY DEF OptionsFit
<1>1. /\ upwards # <<>> /\ Head(upwards).what = "mode" /\ upwards' = Tail(upwards)
      /\ UNCHANGED <<tells, answering, agentHolds, transcripts, restore, notTaken>>
  BY DEF ModeIsTold, FirstOf, adapterSideVars
<1>2. /\ Head(upwards).options = OptionsIn(agentHolds) /\ Tells("mode") /\ RestoringQueue'
      /\ restore.step # "load" => LastAnswer' = LastAnswer
      /\ \A w : Tells(w)' => Tells(w)
      /\ \A w : Tells(w) => Tells(w)' \/ w = "mode"
  BY <1>0, <1>1, RestoreIsTold
<1>3. Head(upwards).options.mode = agentHolds.mode
  BY <1>2, OptionsInIs
<1>4. /\ record' = IF record.id = agentHolds.id THEN [record EXCEPT !.mode = agentHolds.mode] ELSE record
      /\ logOptions' = IF ToPages THEN NowSet(logOptions, "mode", agentHolds.mode) ELSE logOptions
      /\ pageMode' = IF ToPages /\ pageMode # Unset THEN agentHolds.mode ELSE pageMode
      /\ lastMode' = IF restore.step \in {"load", "loaded"} \/ record.id # agentHolds.id THEN lastMode ELSE agentHolds.mode
      /\ \A a \in Wish : ~Waits(a) => asks'[a] = NoAsk
  BY <1>3 DEF ModeIsTold
<1>5. \A a \in Wish : ~Waits(a)'
  BY <1>0, <1>4, NoOnesAre DEF Restoring, Waits
<1>6. /\ agentHolds.mode \in Mode /\ Unset \notin Mode /\ record \in RowSet /\ tells \in BOOLEAN
      /\ logOptions \in MaybeOptions /\ OptionValue("mode", agentHolds.mode)
  BY <1>0, TypesParts, OptionsInIs DEF Restoring, AgentFits, OptionSet, Mode, Unset, OptionValue
<1>7. /\ HasRow => record.id = agentHolds.id /\ record' = [record EXCEPT !.mode = agentHolds.mode]
      /\ ~HasRow => record' = record /\ lastMode' = lastMode /\ pageMode = Unset /\ pageMode' = Unset
  BY <1>0, <1>4 DEF Restoring, Holds
<1>8. /\ record'.id = record.id /\ record'.model = record.model /\ record'.effort = record.effort
      /\ HasRow => record'.mode = agentHolds.mode
  BY <1>6, <1>7 DEF RowSet
<1>9. /\ HasRow => Row'.mode = agentHolds.mode
      /\ ~HasRow => Row' = Row
  <2>1. ASSUME HasRow PROVE Row'.mode = agentHolds.mode
    BY <1>6, <1>7, <2>1 DEF Row, OptionsIn, RowSet
  <2> QED
    BY <2>1, <1>7, RowStays
<1>10. (HasRow' <=> HasRow) /\ (HasRow => Holds') /\ AgentFits' /\ agentHolds'.up
  BY <1>0, <1>1, <1>8 DEF Restoring, HasRow, Holds, AgentFits, OptionsIn
<1>11. Restoring' <=> \/ restore.step \in {"load", "loaded"} /\ Loading'
                      \/ restore.step = "mode" /\ PuttingMode'
  <2>1. restore.step \in {"model", "effort"} => ~ModeIsPut
    BY <1>2 DEF ModeIsPut
  <2>2. ~(PuttingModel /\ restore.step = "model") /\ ~(PuttingEffort /\ restore.step = "effort")
    BY <2>1 DEF PuttingModel, PuttingEffort
  <2>3. ~ModeIsPut' \/ restore.step \notin {"model", "effort"}
    BY <1>0, <2>2 DEF Restoring
  <2> QED
    BY <1>0, <1>1, <1>2, <1>5, <1>7, <1>8, <1>10, <2>3 DEF Restoring, PuttingModel, PuttingEffort
<1>12. CASE restore.step \in {"load", "loaded"} /\ Loading
  <2>1. tells /\ HasRow
    BY <1>2, <1>12 DEF Loading
  <2>2. restore.kind \in {"fill", "relay"} /\ restore.kind # "mint"
    BY <1>0, <2>1 DEF Restoring, HasRow
  <2>3. restore.kind = "relay" => logOptions' = logOptions /\ pageMode' = pageMode
    BY <1>4, <1>12 DEF ToPages
  <2>4. restore.kind = "fill" => pageMode' = Unset \/ pageMode' = AgentMode
    <3>1. agentHolds.mode = AgentMode
      BY <1>12, OptionsInIs, FreshFields DEF Loading
    <3> QED
      BY <1>4, <3>1 DEF ToPages
  <2>5. agentHolds.mode = AgentMode /\ lastMode' = lastMode
    BY <1>4, <1>12, OptionsInIs, FreshFields DEF Loading
  <2>6. /\ restore'.step = "loaded" => LastAnswer'.ok
        /\ notTaken' = TRUE \/ lastMode' = restore'.row.mode
        /\ record'.effort = restore'.row.effort
    BY <1>1, <1>2, <1>8, <1>12, <2>5 DEF Loading
  <2>7. tells' /\ HasRow' => (Tells("mode")' \/ record'.mode = AgentMode) /\ (Tells("options")' \/ record'.model = "haiku")
    BY <1>2, <1>8, <1>12, <2>1, <2>5 DEF Loading
  <2>8. restore'.kind = "fill" => pageMode' = Unset \/ (tells' /\ pageMode' = AgentMode)
    BY <1>1, <2>1, <2>4
  <2>9. restore'.kind = "relay" =>
           /\ logOptions'.mode # Unset /\ logOptions'.model # Unset
           /\ restore'.row.mode = AgentMode => logOptions'.mode = AgentMode
           /\ restore'.row.model = "haiku" => logOptions'.model = "haiku" /\ (answering' => logOptions'.effort = Unset)
           /\ notTaken' = TRUE \/ (logOptions'.mode = restore'.row.mode /\ pageMode' \in {Unset, restore'.row.mode})
    BY <1>1, <1>12, <2>3 DEF Loading
  <2>10. OptionsIn(agentHolds)' = FreshOptions /\ restore'.done = {} /\ tells' /\ HasRow'
    BY <1>1, <1>10, <1>12, <2>1 DEF Loading, OptionsIn
  <2>11. Loading'
    BY <2>6, <2>7, <2>8, <2>9, <2>10 DEF Loading
  <2> QED
    BY <1>0, <1>1, <1>8, <1>11, <1>12, <2>11 DEF OptionsFit
<1>13. CASE restore.step = "mode" /\ PuttingMode
  <2>1. ToPages /\ LastAnswer' = LastAnswer
    BY <1>2, <1>13 DEF ToPages
  <2>2. LastAnswer.ok \/ ~Tells("mode")
    BY <1>13 DEF PuttingMode
  <2>3. LastAnswer.ok
    BY <1>2, <2>2
  <2>4. logOptions'.mode = agentHolds.mode /\ logOptions'.model = logOptions.model /\ logOptions'.effort = logOptions.effort
    <3>1. logOptions' = NowSet(logOptions, "mode", agentHolds.mode) /\ logOptions.mode # Unset
      BY <1>4, <1>13, <2>1 DEF PuttingMode
    <3>2. \A f \in OptionIds : logOptions'[f] = IF f = "mode" /\ logOptions[f] # Unset THEN agentHolds.mode ELSE logOptions[f]
      BY <1>6, <3>1, NowSetIs
    <3>3. logOptions'["mode"] = agentHolds.mode /\ logOptions'["model"] = logOptions["model"]
          /\ logOptions'["effort"] = logOptions["effort"]
      BY <3>1, <3>2 DEF OptionIds
    <3> QED
      BY <3>3
  <2>5. /\ restore'.known = FreshOptions /\ restore'.row.mode # AgentMode /\ restore'.done = {"mode"}
        /\ agentHolds'.model = "haiku" /\ agentHolds'.effort = Unset /\ ~Tells("options")'
    BY <1>1, <1>2, <1>13 DEF PuttingMode
  <2>6. /\ LastAnswer'.ok => agentHolds'.mode \in {restore'.row.mode, AgentMode} /\ (Tells("mode")' \/ logOptions'.mode = agentHolds'.mode)
        /\ LastAnswer'.ok
    BY <1>1, <1>13, <2>1, <2>3, <2>4 DEF PuttingMode
  <2>7. /\ logOptions'.mode # Unset /\ logOptions'.model # Unset
        /\ restore'.kind # "relay" \/ restore'.row.model = "haiku" =>
             logOptions'.model = "haiku" /\ (answering' => logOptions'.effort = Unset)
    BY <1>1, <1>6, <1>13, <2>4 DEF PuttingMode
  <2>8. /\ record'.effort = restore'.row.effort
        /\ tells' /\ HasRow' => record'.model = "haiku"
        /\ ~tells' \/ ~HasRow' => record'.model = restore'.row.model
    BY <1>1, <1>8, <1>10, <1>13 DEF PuttingMode
  <2>9. ~HasRow' => Row'.mode = restore'.row.mode /\ (notTaken' = TRUE \/ lastMode' = restore'.row.mode)
    BY <1>1, <1>7, <1>9, <1>10, <1>13 DEF PuttingMode
  <2>10. HasRow => lastMode' = agentHolds.mode /\ pageMode' \in {Unset, agentHolds.mode}
    BY <1>4, <1>7, <1>13, <2>1
  <2>11. agentHolds'.mode = restore'.row.mode =>
           /\ Row'.mode = restore'.row.mode
           /\ notTaken' = TRUE \/ (lastMode' = restore'.row.mode /\ pageMode' \in {Unset, restore'.row.mode})
    <3>1. CASE HasRow
      BY <1>1, <1>9, <2>10, <3>1
    <3>2. CASE ~HasRow
      BY <1>1, <1>7, <1>10, <2>9, <3>2
    <3> QED
      BY <3>1, <3>2
  <2>12. restore'.kind = "fill" /\ ~tells' => notTaken' = TRUE \/ (lastMode' = Row'.mode /\ pageMode' \in {Unset, Row'.mode})
    BY <1>1, <1>9, <2>10 DEF HasRow
  <2>13. PuttingMode'
    BY <2>5, <2>6, <2>7, <2>8, <2>9, <2>11, <2>12 DEF PuttingMode
  <2> QED
    BY <1>0, <1>1, <1>8, <1>11, <1>13, <2>13 DEF OptionsFit
<1>14. ~(restore.step = "model" /\ PuttingModel) /\ ~(restore.step = "effort" /\ PuttingEffort)
  BY <1>2 DEF PuttingModel, PuttingEffort, ModeIsPut
<1> QED
  BY <1>0, <1>12, <1>13, <1>14 DEF Restoring

\* OptionsAreTold keeps OptionsFit during a restore.
LEMMA RestoreOptionsTold == ASSUME TypesFit, OptionsFit, restore # NoRestore, OptionsAreTold PROVE OptionsFit'
<1>0. Restoring /\ record.model \in Model
  BY DEF OptionsFit
<1>1. /\ upwards # <<>> /\ Head(upwards).what = "options" /\ upwards' = Tail(upwards)
      /\ UNCHANGED <<tells, answering, agentHolds, transcripts, restore, asks, pageMode, lastMode, notTaken>>
  BY DEF OptionsAreTold, FirstOf, adapterSideVars
<1>2. /\ Head(upwards).options = OptionsIn(agentHolds) /\ Tells("options") /\ RestoringQueue'
      /\ restore.step # "load" => LastAnswer' = LastAnswer
      /\ \A w : Tells(w)' => Tells(w)
      /\ \A w : Tells(w) => Tells(w)' \/ w = "options"
  BY <1>0, <1>1, RestoreIsTold
<1>3. /\ record' = IF record.id = agentHolds.id THEN Merged(OptionsIn(agentHolds)) ELSE record
      /\ logOptions' = IF ToPages /\ logOptions # NoOptions THEN [OptionsIn(agentHolds) EXCEPT !.mode = logOptions.mode] ELSE logOptions
  BY <1>2 DEF OptionsAreTold
<1>4. /\ record \in RowSet /\ tells \in BOOLEAN /\ OptionsIn(agentHolds) \in MaybeOptions /\ logOptions \in MaybeOptions
      /\ agentHolds.model \in Model /\ Unset \notin Model
  BY <1>0, TypesParts, MessagesAre, OptionsInIs DEF Restoring, AgentFits, OptionSet, Model, Unset
<1>5. /\ HasRow => record.id = agentHolds.id /\ record' = Merged(OptionsIn(agentHolds))
      /\ ~HasRow => record' = record /\ pageMode = Unset
  BY <1>0, <1>3 DEF Restoring, Holds
<1>6. /\ record'.id = record.id /\ record'.mode = record.mode /\ record' \in RowSet
      /\ HasRow => /\ record'.model = agentHolds.model
                   /\ record'.effort = IF agentHolds.effort = Unset THEN record.effort ELSE agentHolds.effort
      /\ record'.model \in Model
  BY <1>0, <1>4, <1>5, MergedIs, OptionsInIs
<1>7. Row'.mode = Row.mode /\ (~HasRow => Row' = Row)
  <2>1. Row'.mode = Row.mode
    BY <1>4, <1>6 DEF Row, OptionsIn, RowSet
  <2> QED
    BY <2>1, <1>5, RowStays
<1>8. (HasRow' <=> HasRow) /\ (HasRow => Holds') /\ AgentFits' /\ agentHolds'.up /\ \A a \in Wish : ~Waits(a)'
  BY <1>0, <1>1, <1>6 DEF Restoring, HasRow, Holds, AgentFits, OptionsIn, Waits
<1>9. logOptions'.mode = logOptions.mode
      /\ (logOptions.mode # Unset /\ ToPages => logOptions'.model = agentHolds.model /\ logOptions'.effort = agentHolds.effort)
      /\ (~ToPages => logOptions' = logOptions)
  <2>1. logOptions.mode # Unset => logOptions # NoOptions
    BY DEF NoOptions
  <2> PICK o \in MaybeOptions : o = OptionsIn(agentHolds)
    BY <1>4
  <2>2. logOptions' = IF ToPages /\ logOptions # NoOptions THEN [o EXCEPT !.mode = logOptions.mode] ELSE logOptions
    BY <1>3
  <2> QED
    BY <1>4, <2>1, <2>2, OptionFields, OptionsInIs
<1>10. RestoringAnyhow'
  BY <1>0, <1>1, <1>2, <1>5, <1>6, <1>8 DEF Restoring, RestoringAnyhow
<1>11. CASE restore.step \in {"load", "loaded"} /\ Loading
  <2>1. tells /\ HasRow
    BY <1>2, <1>11 DEF Loading
  <2>2. ~ToPages \/ restore.kind # "relay"
    BY <1>11 DEF ToPages
  <2>3. agentHolds.model = "haiku" /\ agentHolds.effort = Unset
    BY <1>11, OptionsInIs, FreshFields DEF Loading
  <2>4. /\ restore'.step = "loaded" => LastAnswer'.ok
        /\ notTaken' = TRUE \/ lastMode' = restore'.row.mode
        /\ record'.effort = restore'.row.effort
    BY <1>1, <1>2, <1>6, <1>11, <2>1, <2>3 DEF Loading
  <2>5. tells' /\ HasRow' => (Tells("mode")' \/ record'.mode = AgentMode) /\ (Tells("options")' \/ record'.model = "haiku")
    BY <1>2, <1>6, <1>11, <2>1, <2>3 DEF Loading
  <2>6. restore'.kind = "fill" =>
          notTaken' = TRUE \/ pageMode' = Unset \/ (tells' /\ (Tells("mode")' \/ pageMode' = AgentMode))
    BY <1>1, <1>2, <1>11, <2>1 DEF Loading
  <2>7. restore'.kind = "relay" =>
           /\ logOptions'.mode # Unset /\ logOptions'.model # Unset
           /\ restore'.row.mode = AgentMode => logOptions'.mode = AgentMode
           /\ restore'.row.model = "haiku" => logOptions'.model = "haiku" /\ (answering' => logOptions'.effort = Unset)
           /\ notTaken' = TRUE \/ (logOptions'.mode = restore'.row.mode /\ pageMode' \in {Unset, restore'.row.mode})
    BY <1>1, <1>9, <1>11, <2>2 DEF Loading
  <2>8. OptionsIn(agentHolds)' = FreshOptions /\ restore'.done = {} /\ tells' /\ HasRow'
    BY <1>1, <1>8, <1>11, <2>1 DEF Loading, OptionsIn
  <2>9. Loading'
    BY <2>4, <2>5, <2>6, <2>7, <2>8 DEF Loading
  <2>10. Restoring'
    BY <1>1, <1>10, <1>11, <2>9 DEF Restoring, RestoringAnyhow
  <2> QED
    BY <1>1, <1>6, <2>10 DEF OptionsFit
<1>12. ASSUME ModeIsPut PROVE ModeIsPut'
  <2>1. logOptions'.model # Unset
    BY <1>3, <1>4, <1>9, <1>12 DEF ModeIsPut, OptionsIn, AgentFits, Restoring
  <2> QED
    BY <1>1, <1>2, <1>7, <1>9, <1>12, <2>1 DEF ModeIsPut
<1>13. ASSUME ModeIsPut, restore.step \in {"model", "effort"}
       PROVE  logOptions'.model = agentHolds.model /\ logOptions'.effort = agentHolds.effort
  <2>1. logOptions.mode # Unset
    BY <1>0, <1>13, OptionsInIs DEF ModeIsPut, Restoring, AgentFits, OptionSet, Mode, Unset
  <2> QED
    BY <1>9, <1>13, <2>1 DEF ToPages
<1>14. CASE restore.step = "model" /\ PuttingModel
  <2>1. LastAnswer' = LastAnswer /\ LastAnswer.ok /\ tells
    BY <1>2, <1>14 DEF PuttingModel
  <2>2. agentHolds.model = "opus" /\ agentHolds.effort = "low"
    BY <1>14, <2>1 DEF PuttingModel
  <2>3. ModeIsPut'
    BY <1>12, <1>14 DEF PuttingModel
  <2>4. HasRow => record'.model = "opus" /\ record'.effort = "low"
    BY <1>6, <2>2 DEF Unset
  <2>5. ~HasRow => record'.model = "opus" /\ record'.effort = restore.row.effort
    BY <1>5, <1>14 DEF PuttingModel
  <2>6. PuttingModel'
    BY <1>1, <1>2, <1>8, <1>14, <2>1, <2>2, <2>3, <2>4, <2>5 DEF PuttingModel
  <2>7. Restoring'
    BY <1>1, <1>10, <1>14, <2>6 DEF Restoring, RestoringAnyhow
  <2> QED
    BY <1>1, <1>6, <2>7 DEF OptionsFit
<1>15. CASE restore.step = "effort" /\ PuttingEffort
  <2>1. LastAnswer' = LastAnswer /\ LastAnswer.ok
    BY <1>2, <1>15 DEF PuttingEffort
  <2>2. agentHolds.model = "opus" /\ agentHolds.effort = "high" /\ record.model = "opus"
    BY <1>15, <2>1 DEF PuttingEffort
  <2>3. ModeIsPut' /\ logOptions'.model = "opus"
    BY <1>12, <1>13, <1>15, <2>2 DEF PuttingEffort
  <2>4. HasRow => record'.model = "opus" /\ record'.effort = "high"
    BY <1>6, <2>2 DEF Unset
  <2>5. ~HasRow => record'.model = "opus" /\ record'.effort = "high"
    BY <1>5, <1>15, <2>1, <2>2 DEF PuttingEffort
  <2>6. PuttingEffort'
    BY <1>1, <1>15, <2>1, <2>2, <2>3, <2>4, <2>5 DEF PuttingEffort
  <2>7. Restoring'
    BY <1>1, <1>10, <1>15, <2>6 DEF Restoring, RestoringAnyhow
  <2> QED
    BY <1>1, <1>6, <2>7 DEF OptionsFit
<1>16. ~(restore.step = "mode" /\ PuttingMode)
  BY <1>2 DEF PuttingMode
<1> QED
  BY <1>0, <1>11, <1>14, <1>15, <1>16 DEF Restoring

(***************************************************************************)
(* The page loads, the agent is prompted, the adapter exits, and the agent *)
(* changes a setting by itself.                                            *)
(***************************************************************************)

\* A page opens the thread while its history is relayed.
LEMMA OptionsOpen == ASSUME TypesFit, OptionsFit, PageOpensThread PROVE OptionsFit'
<1>1. /\ Holds /\ restore.kind # "fill" /\ logOptions.mode # Unset /\ pageMode' = logOptions.mode
      /\ UNCHANGED <<tells, answering, agentHolds, transcripts, upwards, record, logOptions, restore, asks, lastMode, notTaken>>
  BY DEF PageOpensThread, adapterSideVars
<1>2. record.id # 0 /\ Row' = Row /\ (Holds' <=> Holds) /\ (HasRow' <=> HasRow) /\ (AgentFits' <=> AgentFits)
      /\ (\A a \in Wish : Waits(a)' <=> Waits(a)) /\ (RestoringQueue' <=> RestoringQueue) /\ LastAnswer' = LastAnswer
      /\ \A w : Tells(w)' <=> Tells(w)
  BY <1>1 DEF Holds, Row, OptionsIn, HasRow, AgentFits, Waits, RestoringQueue, LastAnswer, Tells, QueueFits
<1>3. CASE restore = NoRestore
  <2>1. Flowing /\ record.model \in Model
    BY <1>1, <1>3 DEF OptionsFit
  <2>2. (Doomed' <=> Doomed) /\ (AsksFit' <=> AsksFit)
    BY <1>1 DEF Doomed, AsksFit, Waits, RefusedMode, AnswerTo
  <2>3. (ModeFlows' <=> ModeFlows) /\ (OwnModes' <=> OwnModes) /\ (SettingsFlow' <=> SettingsFlow)
    <3>1. ModeFlows' <=> ModeFlows
      BY <1>1, <1>2 DEF ModeFlows
    <3>2. OwnModes' <=> OwnModes
      BY <1>1 DEF OwnModes
    <3>3. SettingsFlow' <=> SettingsFlow
      BY <1>1 DEF SettingsFlow
    <3> QED
      BY <3>1, <3>2, <3>3
  <2>4. PageFollows => PageFollows'
    BY <1>1 DEF PageFollows
  <2>5. Flowing'
    BY <1>1, <1>2, <2>1, <2>2, <2>3, <2>4 DEF Flowing
  <2> QED
    BY <1>1, <1>2, <1>3, <2>1, <2>5 DEF OptionsFit
<1>4. CASE restore # NoRestore
  <2>1. Restoring /\ record.model \in Model
    BY <1>4 DEF OptionsFit
  <2>2. restore.kind = "relay" /\ HasRow
    BY <1>1, <1>2, <2>1 DEF Restoring, HasRow
  <2>3. RestoringAnyhow'
    BY <1>1, <1>2, <2>1, <2>2 DEF Restoring, RestoringAnyhow
  <2>4. ModeIsPut => ModeIsPut'
    BY <1>1, <1>2 DEF ModeIsPut
  <2>5. Loading => Loading'
    BY <1>1, <1>2, <2>2 DEF Loading, OptionsIn
  <2>6. PuttingMode => PuttingMode'
    <3> HAVE PuttingMode
    <3>1. agentHolds'.mode = restore'.row.mode =>
            \/ HasRow' /\ Tells("mode")'
            \/ /\ Row'.mode = restore'.row.mode
               /\ notTaken' = TRUE \/ (lastMode' = restore'.row.mode /\ pageMode' \in {Unset, restore'.row.mode})
      <4>1. ASSUME agentHolds.mode = restore.row.mode, ~Tells("mode")
            PROVE  /\ Row.mode = restore.row.mode /\ logOptions.mode = restore.row.mode
                   /\ notTaken = TRUE \/ lastMode = restore.row.mode
        BY <4>1 DEF PuttingMode
      <4> QED
        BY <1>1, <1>2, <2>2, <4>1
    <3> QED
      BY <1>1, <1>2, <2>2, <3>1 DEF PuttingMode
  <2>7. PuttingModel => PuttingModel'
    BY <1>1, <1>2, <2>4 DEF PuttingModel
  <2>8. PuttingEffort => PuttingEffort'
    BY <1>1, <1>2, <2>4 DEF PuttingEffort
  <2>9. Restoring'
    BY <1>1, <2>1, <2>3, <2>5, <2>6, <2>7, <2>8 DEF Restoring, RestoringAnyhow
  <2> QED
    BY <1>1, <1>4, <2>1, <2>9 DEF OptionsFit
<1> QED
  BY <1>3, <1>4

\* ThreadIsPrompted keeps OptionsFit.
LEMMA OptionsPrompted == ASSUME TypesFit, OptionsFit, ThreadIsPrompted PROVE OptionsFit'
<1>1. /\ Holds /\ restore = NoRestore /\ record' = [record EXCEPT !.inherits = FALSE]
      /\ UNCHANGED <<tells, answering, agentHolds, upwards, logOptions, restore, asks, pageMode, lastMode, notTaken>>
  BY DEF ThreadIsPrompted
<1>2. Flowing /\ record.model \in Model
  BY <1>1 DEF OptionsFit
<1>3. record'.id = record.id /\ record'.mode = record.mode /\ record'.model = record.model /\ record'.effort = record.effort
  BY <1>1, TypesParts DEF RowSet
<1>4. Row'.mode = Row.mode /\ Holds'
  BY <1>1, <1>3, TypesParts DEF Row, OptionsIn, RowSet, Holds
<1>5. (Doomed' <=> Doomed) /\ (AsksFit' <=> AsksFit) /\ (AgentFits' <=> AgentFits)
  BY <1>1 DEF Doomed, AsksFit, Waits, RefusedMode, AnswerTo, AgentFits, OptionsIn
<1>6. ModeFlows' <=> ModeFlows
  BY <1>1, <1>4 DEF ModeFlows
<1>7. OwnModes' <=> OwnModes
  BY <1>1 DEF OwnModes
<1>8. SettingsFlow => SettingsFlow'
  BY <1>1, <1>3 DEF SettingsFlow, SettingsRun, SettingsNone, SettingsAreRight
<1>9. PageFollows' <=> PageFollows
  BY <1>1 DEF PageFollows
<1>10. Flowing'
  BY <1>1, <1>2, <1>5, <1>6, <1>7, <1>8, <1>9 DEF Flowing
<1> QED
  BY <1>1, <1>2, <1>3, <1>4, <1>10 DEF OptionsFit

\* AdapterGoesDown and FirstPromptIsLost keep OptionsFit, unless they cut off a change.
LEMMA OptionsExit ==
  ASSUME TypesFit, OptionsFit, AdapterGoesDown \/ FirstPromptIsLost, muddled' # TRUE
  PROVE  OptionsFit'
<1>1. /\ OptionsAreLost(Nothing) /\ tells' = tells /\ lastMode' = lastMode /\ notTaken' = notTaken
      /\ record' = record \/ record' = [record EXCEPT !.inherits = FALSE]
  BY DEF AdapterGoesDown, FirstPromptIsLost
<1>2. record'.id = record.id /\ record'.mode = record.mode /\ record'.model = record.model /\ Row'.mode = Row.mode
  BY <1>1, TypesParts DEF RowSet, Row, OptionsIn
<1>3. /\ agentHolds' = Nothing /\ upwards' = <<>> /\ restore' = NoRestore /\ asks' = [a \in Wish |-> NoAsk]
      /\ \A a \in Wish : asks[a].id # "mode"
      /\ pageMode' = pageMode
      /\ \A i \in DOMAIN upwards : upwards[i].to # "own"
      /\ restore.kind # "relay" /\ ~(restore.kind = "fill" /\ tells)
  <2> DEFINE waits == {a \in Wish : asks[a].id = "mode"}
  <2>1. /\ agentHolds' = Nothing /\ upwards' = <<>> /\ restore' = NoRestore /\ asks' = [a \in Wish |-> NoAsk]
        /\ pageMode' = IF waits = {} THEN pageMode ELSE asks[CHOOSE a \in waits : TRUE].before
        /\ muddled' = (muddled \/ waits # {} \/ (\E i \in DOMAIN upwards : upwards[i].to = "own") \/ restore.kind = "relay"
                                  \/ (restore.kind = "fill" /\ tells))
    BY <1>1 DEF OptionsAreLost
  <2>2. waits = {}
    BY <2>1
  <2> QED
    BY <2>1, <2>2
<1>4. ~Holds' /\ (\A a \in Wish : ~Waits(a)')
  BY <1>3, NothingHeld, NoOnesAre DEF Holds, Waits
<1>5. /\ record.id = 0 => pageMode = Unset
      /\ notTaken = TRUE \/ (lastMode = Row.mode /\ pageMode \in {Unset, Row.mode})
  <2>1. CASE restore = NoRestore /\ ~Holds
    BY <2>1 DEF OptionsFit, Resting
  <2>2. CASE restore = NoRestore /\ Holds
    <3>1. Flowing
      BY <2>2 DEF OptionsFit
    <3>2. AsksFit
      BY <3>1 DEF Flowing
    <3>3. \A i \in DOMAIN upwards : upwards[i].what = "answer" => upwards[i].to \in Wish
      BY <3>2 DEF AsksFit
    <3>4. \A i \in DOMAIN upwards : ~AnswerTo(upwards, asks, i, "mode")
      BY <1>3, <3>3 DEF AnswerTo
    <3>5. ~Doomed
      BY <3>4 DEF Doomed, RefusedMode
    <3>6. ModeFlows /\ OwnModes /\ PageFollows
      BY <3>1, <3>5 DEF Flowing
    <3>7. \A i \in DOMAIN upwards : ~ModeAt(upwards, asks, i)
      BY <1>3, <3>4, <3>6 DEF OwnModes, Answered, ModeAt
    <3>8. ModeNone(upwards, asks, agentHolds.mode, logOptions.mode, lastMode, Row.mode, notTaken)
      BY <3>6 DEF ModeFlows, ModeRuns
    <3>9. logOptions.mode = agentHolds.mode /\ ModeIsRight(agentHolds.mode, lastMode, Row.mode, notTaken)
      BY <3>7, <3>8 DEF ModeNone
    <3> QED
      BY <2>2, <3>6, <3>9 DEF PageFollows, ModeIsRight, Holds
  <2>3. CASE restore # NoRestore
    <3>1. Restoring
      BY <2>3 DEF OptionsFit
    <3>2. (restore.kind = "fill" /\ ~tells /\ record.id # 0) \/ (restore.kind = "mint" /\ pageMode = Unset)
      BY <1>3, <3>1 DEF Restoring, HasRow, Holds
    <3>3. ModeIsPut => notTaken = TRUE \/ (lastMode = Row.mode /\ pageMode \in {Unset, Row.mode})
      BY DEF ModeIsPut, ModeIsRight
    <3>4. Loading => notTaken = TRUE \/ (lastMode = Row.mode /\ pageMode \in {Unset, Row.mode})
      BY <3>2 DEF Loading, HasRow
    <3>5. PuttingMode => notTaken = TRUE \/ (lastMode = Row.mode /\ pageMode \in {Unset, Row.mode})
      BY <3>2 DEF PuttingMode, HasRow
    <3> QED
      BY <3>1, <3>2, <3>3, <3>4, <3>5 DEF Restoring, PuttingModel, PuttingEffort
  <2> QED
    BY <2>1, <2>2, <2>3
<1>6. Resting'
  BY <1>1, <1>2, <1>3, <1>4, <1>5 DEF Resting
<1>7. record.model \in Model
  BY DEF OptionsFit
<1> QED
  BY <1>2, <1>3, <1>4, <1>6, <1>7 DEF OptionsFit

\* A message behind the queue: the asks stay as they fit.
LEMMA JoinedFits ==
  ASSUME NEW q, NEW x, NEW t, Joined(q, x, t)
  PROVE  \E n \in Nat : /\ DOMAIN q = 1..n /\ n + 1 \in DOMAIN t /\ t[n + 1] = x /\ \A i \in DOMAIN t : i \in DOMAIN q \/ i = n + 1
                        /\ \A i \in DOMAIN q : i \in DOMAIN t /\ t[i] = q[i] /\ i # n + 1 /\ n + 1 > i
BY DEF Joined

\* A change of the agent, or a setting, behind the queue: each other mode has its answer behind it.
LEMMA OwnJoins ==
  ASSUME NEW q, NEW x, NEW t, NEW ks, Joined(q, x, t), Answered(q, ks), x.to = "own" \/ x.what # "mode"
  PROVE  Answered(t, ks)
<1> PICK n \in Nat : /\ DOMAIN q = 1..n /\ n + 1 \in DOMAIN t /\ t[n + 1] = x /\ \A i \in DOMAIN t : i \in DOMAIN q \/ i = n + 1
                     /\ \A i \in DOMAIN q : i \in DOMAIN t /\ t[i] = q[i] /\ i # n + 1 /\ n + 1 > i
  BY JoinedFits
<1> SUFFICES ASSUME NEW i \in DOMAIN t, t[i].what = "mode", t[i].to # "own"
             PROVE  \E k \in DOMAIN t : k > i /\ AnswerTo(t, ks, k, "mode")
  BY DEF Answered
<1>1. i \in DOMAIN q /\ t[i] = q[i]
  OBVIOUS
<1>2. PICK k \in DOMAIN q : k > i /\ AnswerTo(q, ks, k, "mode")
  BY <1>1 DEF Answered
<1>3. k \in DOMAIN t /\ t[k] = q[k]
  OBVIOUS
<1> QED
  BY <1>2, <1>3 DEF AnswerTo

\* Asks that do not change are kept.
LEMMA KeptAll == ASSUME NEW q, NEW ks PROVE Kept(q, ks, ks)
BY DEF Kept

\* AgentWishes keeps OptionsFit.
LEMMA OptionsWished == ASSUME TypesFit, OptionsFit, AgentWishes PROVE OptionsFit'
<1>1. /\ agentHolds.up /\ Holds /\ restore = NoRestore
      /\ UNCHANGED <<tells, answering, record, logOptions, restore, asks, pageMode, lastMode, muddled, notTaken>>
  BY DEF AgentWishes, Holds
<1>2. Flowing /\ record.model \in Model
  BY <1>1 DEF OptionsFit
<1>3. PICK id \in {"mode", "model"} :
       \E value \in (IF id = "mode" THEN Mode ELSE Model) \ {agentHolds[id]} :
         /\ agentHolds' = Changed(agentHolds, id, value)
         /\ upwards' = Append(upwards, OptionUpdate(Changed(agentHolds, id, value), id, "own"))
  BY DEF AgentWishes
<1>4. PICK value : /\ OptionValue(id, value) /\ agentHolds' = Changed(agentHolds, id, value)
                   /\ upwards' = Append(upwards, OwnUpdate(agentHolds', id))
  BY <1>3 DEF OptionValue, OwnUpdate
<1>5. ChangedTo(agentHolds', agentHolds, id, value) /\ agentHolds' \in AgentSet
  <2>1. ChangedTo(agentHolds', agentHolds, id, value)
    BY <1>4, ChangedIs, TypesParts
  <2> QED
    BY <2>1 DEF ChangedTo
<1>6. AgentFits' /\ OptionsIn(agentHolds)' = OptionsIn(agentHolds')
  BY <1>2, <1>3, <1>4, <1>5, AskingFits, TypesParts DEF Flowing
<1>7. upwards \in Seq(MessageSet) /\ agentHolds \in AgentSet
  BY TypesParts
<1> PICK x : x = OwnUpdate(agentHolds', id)
  OBVIOUS
<1>8. /\ x \in MessageSet /\ x.what = (IF id = "mode" THEN "mode" ELSE "options") /\ x.to = "own"
      /\ x.options = OptionsIn(agentHolds')
  BY <1>5, <1>7, OwnIs
<1>9. Joined(upwards, x, upwards') /\ Kept(upwards, asks, asks)
  BY <1>4, <1>7, <1>8, AppendIs, KeptAll
<1>10. PICK n \in Nat : /\ DOMAIN upwards = 1..n /\ n + 1 \in DOMAIN upwards' /\ upwards'[n + 1] = x
                        /\ \A i \in DOMAIN upwards' : i \in DOMAIN upwards \/ i = n + 1
                        /\ \A i \in DOMAIN upwards : i \in DOMAIN upwards' /\ upwards'[i] = upwards[i] /\ i # n + 1 /\ n + 1 > i
  BY <1>9, JoinedFits
<1>11. x.what # "answer" /\ x.options \in OptionSet /\ x.options.mode = agentHolds'.mode
       /\ x.options.model = agentHolds'.model /\ x.options.effort = agentHolds'.effort
  BY <1>3, <1>6, <1>8, OptionsInIs DEF AgentFits
<1>12. AsksFit'
  <2>1. AsksFit
    BY <1>2 DEF Flowing
  <2>2. \A i \in DOMAIN upwards' : upwards'[i].what = "answer" => i \in DOMAIN upwards /\ upwards'[i] = upwards[i]
    BY <1>10, <1>11
  <2>3. \A i \in DOMAIN upwards' : upwards'[i].options \in OptionSet
    BY <1>10, <1>11, <2>1 DEF AsksFit
  <2> QED
    BY <1>1, <2>1, <2>2, <2>3 DEF AsksFit, Waits
<1>13. Doomed => Doomed'
  BY <1>1, <1>10 DEF Doomed, RefusedMode, AnswerTo
<1>14. Row' = Row
  BY <1>1, RowStays
<1>15. ASSUME ~Doomed PROVE ModeFlows' /\ OwnModes' /\ PageFollows' /\ SettingsFlow'
  <2>1. ModeFlows /\ OwnModes /\ PageFollows /\ SettingsFlow
    BY <1>2, <1>15 DEF Flowing
  <2>2. ModeRuns(upwards, asks, agentHolds.mode, logOptions.mode, lastMode, Row.mode, notTaken)
    BY <2>1 DEF ModeFlows
  <2>3. SettingsRun(upwards, asks, agentHolds.model, agentHolds.effort, logOptions, record, answering, notTaken)
    BY <2>1 DEF SettingsFlow
  <2>4. PageFollows'
    BY <1>1, <2>1 DEF PageFollows
  <2>5. OwnModes'
    <3>1. Answered(upwards', asks)
      BY <1>8, <1>9, <2>1, OwnJoins DEF OwnModes
    <3> QED
      BY <1>1, <3>1 DEF OwnModes
  <2>6. CASE id = "mode"
    <3>1. ModeRuns(upwards', asks, x.options.mode, logOptions.mode, lastMode, Row.mode, notTaken)
      BY <1>8, <1>9, <2>2, <2>6, ToldJoinRuns
    <3>2. agentHolds'.model = agentHolds.model /\ agentHolds'.effort = agentHolds.effort
      BY <1>5, <2>6 DEF ChangedTo
    <3>3. SettingsRun(upwards', asks, agentHolds.model, agentHolds.effort, logOptions, record, answering, notTaken)
      BY <1>8, <1>9, <2>3, <2>6, OtherJoinSets
    <3> QED
      BY <1>1, <1>11, <1>14, <2>4, <2>5, <3>1, <3>2, <3>3 DEF ModeFlows, SettingsFlow
  <2>7. CASE id = "model"
    <3>1. agentHolds'.mode = agentHolds.mode
      BY <1>5, <2>7 DEF ChangedTo
    <3>2. ModeRuns(upwards', asks, agentHolds.mode, logOptions.mode, lastMode, Row.mode, notTaken)
      BY <1>8, <1>9, <2>2, <2>7, OtherJoinRuns
    <3>3. SettingsRun(upwards', asks, x.options.model, x.options.effort, logOptions, record, answering, notTaken)
      BY <1>8, <1>9, <2>7, ToldJoinSets
    <3> QED
      BY <1>1, <1>11, <1>14, <2>4, <2>5, <3>1, <3>2, <3>3 DEF ModeFlows, SettingsFlow
  <2> QED
    BY <1>3, <2>6, <2>7
<1>16. Flowing'
  BY <1>1, <1>2, <1>6, <1>12, <1>13, <1>15 DEF Flowing
<1>17. Holds'
  BY <1>1, <1>5 DEF Holds, ChangedTo
<1> QED
  BY <1>1, <1>2, <1>16, <1>17 DEF OptionsFit

(***************************************************************************)
(* The messages when nothing is put back: updates, and answers of asks.    *)
(***************************************************************************)

\* The asks of the pages are the same, or they are done.
AsksGo ==
  \A a \in Wish : /\ asks'[a].id \in {asks[a].id, "none"}
                  /\ Waits(a)' => /\ asks'[a].value = asks[a].value /\ asks'[a].previous = asks[a].previous
                                  /\ asks'[a].before = asks[a].before /\ (asks'[a].alone => asks[a].alone)
                  /\ Waits(a) /\ ~Waits(a)' => Head(upwards).what = "answer" /\ Head(upwards).to = a

\* The first message is read.
LEMMA HeadGoes ==
  ASSUME TypesFit, AsksFit, upwards # <<>>, upwards' = Tail(upwards), AsksGo
  PROVE  /\ AsksFit' /\ Kept(upwards', asks, asks') /\ Shifted(upwards, upwards') /\ Head(upwards) = upwards[1]
         /\ \A i \in DOMAIN upwards' : upwards'[i].what = "answer" =>
              upwards'[i].to \in Wish /\ asks'[upwards'[i].to].id = asks[upwards'[i].to].id /\ asks'[upwards'[i].to].id # "none"
         /\ Head(upwards).options \in OptionSet
<1>1. Head(upwards) = upwards[1] /\ Shifted(upwards, upwards')
  BY HeadIs
<1>2. /\ 1 \in DOMAIN upwards /\ \A i \in DOMAIN upwards' : i + 1 \in DOMAIN upwards /\ upwards'[i] = upwards[i + 1] /\ i + 1 # 1
      /\ \A i, j \in DOMAIN upwards' : i + 1 = j + 1 => i = j
  BY <1>1 DEF Shifted
<1>3. \A i \in DOMAIN upwards' : upwards'[i].what = "answer" =>
        upwards'[i].to \in Wish /\ Waits(upwards'[i].to) /\ asks'[upwards'[i].to].id # "none"
  <2> SUFFICES ASSUME NEW i \in DOMAIN upwards', upwards'[i].what = "answer"
               PROVE  upwards'[i].to \in Wish /\ Waits(upwards'[i].to) /\ asks'[upwards'[i].to].id # "none"
    OBVIOUS
  <2>1. upwards'[i].to \in Wish /\ Waits(upwards'[i].to)
    BY <1>2 DEF AsksFit
  <2>2. ~(Head(upwards).what = "answer" /\ Head(upwards).to = upwards'[i].to)
    BY <1>1, <1>2 DEF AsksFit
  <2> PICK a \in Wish : a = upwards'[i].to
    BY <2>1
  <2>3. Waits(a) /\ ~Waits(a)' => Head(upwards).what = "answer" /\ Head(upwards).to = a
    BY DEF AsksGo
  <2>4. Waits(a)'
    BY <2>1, <2>2, <2>3
  <2> QED
    BY <2>1, <2>4 DEF Waits
<1>4. \A i \in DOMAIN upwards' : upwards'[i].what = "answer" =>
        /\ asks'[upwards'[i].to].id = asks[upwards'[i].to].id /\ asks'[upwards'[i].to].value = asks[upwards'[i].to].value
        /\ asks'[upwards'[i].to].previous = asks[upwards'[i].to].previous
  <2>1. \A a \in Wish : Waits(a)' => /\ asks'[a].id = asks[a].id /\ asks'[a].value = asks[a].value
                                     /\ asks'[a].previous = asks[a].previous
    BY DEF AsksGo, Waits
  <2> QED
    BY <1>3, <2>1 DEF Waits
<1>5. AsksFit'
  <2>1. \A i \in DOMAIN upwards' : upwards'[i].options \in OptionSet
    BY <1>2 DEF AsksFit
  <2>2. \A i \in DOMAIN upwards' : upwards'[i].what = "answer" =>
          \A j \in DOMAIN upwards' : upwards'[j].what = "answer" /\ upwards'[j].to = upwards'[i].to => j = i
    BY <1>2 DEF AsksFit
  <2>3. \A i \in DOMAIN upwards' : upwards'[i].what = "answer" =>
          (upwards'[i].ok /\ asks'[upwards'[i].to].id = "model" => asks'[upwards'[i].to].value = upwards'[i].options.model)
    BY <1>2, <1>4 DEF AsksFit
  <2>4. \A a \in Wish : Waits(a)' => Waits(a)
    BY DEF AsksGo, Waits
  <2>5. \A a, b \in Wish : Waits(a)' /\ asks'[a].alone /\ Waits(b)' => a = b
    BY <2>4 DEF AsksFit, AsksGo
  <2>6. \A a \in Wish : asks'[a].id = "mode" => asks'[a].previous \in Mode
    BY DEF AsksFit, AsksGo, Waits
  <2> QED
    BY <1>3, <2>1, <2>2, <2>3, <2>5, <2>6 DEF AsksFit, Waits
<1> QED
  BY <1>1, <1>2, <1>3, <1>4, <1>5 DEF Kept, AsksFit

\* A refused mode that crosses another change is still to be answered.
LEMMA DoomStays ==
  ASSUME TypesFit, AsksFit, upwards # <<>>, upwards' = Tail(upwards), AsksGo, Doomed,
         ~(RefusedMode(upwards, asks, 1) /\ ~asks[upwards[1].to].alone)
  PROVE  Doomed'
<1>1. PICK i \in DOMAIN upwards : RefusedMode(upwards, asks, i) /\ ~asks[upwards[i].to].alone
  BY DEF Doomed
<1>2. /\ Shifted(upwards, upwards')
      /\ \A j \in DOMAIN upwards' : upwards'[j].what = "answer" =>
           upwards'[j].to \in Wish /\ asks'[upwards'[j].to].id = asks[upwards'[j].to].id /\ asks'[upwards'[j].to].id # "none"
  BY HeadGoes
<1>3. i # 1
  BY <1>1
<1>4. PICK j \in DOMAIN upwards' : j + 1 = i
  BY <1>2, <1>3, ShiftFacts
<1>5. upwards'[j] = upwards[i]
  BY <1>2, <1>4 DEF Shifted
<1>6. RefusedMode(upwards', asks', j)
  BY <1>1, <1>2, <1>5 DEF RefusedMode, AnswerTo
<1>7. ~asks'[upwards'[j].to].alone
  <2> PICK a : a = upwards'[j].to
    OBVIOUS
  <2>1. upwards'[j].what = "answer"
    BY <1>6 DEF RefusedMode, AnswerTo
  <2>2. a \in Wish /\ Waits(a)'
    BY <1>2, <2>1 DEF Waits
  <2>3. asks'[a].alone => asks[a].alone
    BY <2>2 DEF AsksGo
  <2> QED
    BY <1>1, <1>5, <2>3
<1> QED
  BY <1>6, <1>7 DEF Doomed

\* Each mode that is told for an ask has its answer behind it, also without the head.
LEMMA AnsweredShifts ==
  ASSUME NEW q, NEW t, NEW ks, NEW ks2, Shifted(q, t), Kept(t, ks, ks2), Answered(q, ks)
  PROVE  Answered(t, ks2)
<1> SUFFICES ASSUME NEW i \in DOMAIN t, t[i].what = "mode", t[i].to # "own"
             PROVE  \E k \in DOMAIN t : k > i /\ AnswerTo(t, ks2, k, "mode")
  BY DEF Answered
<1>1. i + 1 \in DOMAIN q /\ q[i + 1] = t[i] /\ i \in Nat
  BY DEF Shifted
<1>2. PICK k \in DOMAIN q : k > i + 1 /\ AnswerTo(q, ks, k, "mode")
  BY <1>1 DEF Answered
<1>3. PICK j \in DOMAIN t : j + 1 = k
  BY <1>1, <1>2, ShiftFacts
<1>4. t[j] = q[k] /\ j > i
  <2>1. t[j] = q[j + 1] /\ j \in Nat
    BY DEF Shifted
  <2> QED
    BY <1>1, <1>2, <1>3, <2>1
<1>5. AnswerTo(t, ks2, j, "mode")
  BY <1>2, <1>4 DEF AnswerTo, Kept
<1> QED
  BY <1>4, <1>5

\* A message that is on its way without a restore is of a conversation that flows.
LEMMA FlowsOn ==
  ASSUME OptionsFit, restore = NoRestore, upwards # <<>>
  PROVE  Flowing /\ Holds /\ record.model \in Model /\ record.id = agentHolds.id
BY DEF OptionsFit, Resting, Holds

\* ModeIsTold keeps OptionsFit when nothing is put back.
LEMMA FlowModeTold == ASSUME TypesFit, OptionsFit, restore = NoRestore, ModeIsTold PROVE OptionsFit'
<1>1. /\ upwards # <<>> /\ Head(upwards).what = "mode" /\ upwards' = Tail(upwards)
      /\ UNCHANGED <<tells, answering, agentHolds, restore, muddled, notTaken>>
  BY DEF ModeIsTold, FirstOf, adapterSideVars
<1>2. Flowing /\ Holds /\ record.model \in Model /\ record.id = agentHolds.id
  BY <1>1, FlowsOn
<1> PICK m : m = Head(upwards).options.mode
  OBVIOUS
<1>3. /\ record' = [record EXCEPT !.mode = m] /\ logOptions' = NowSet(logOptions, "mode", m)
      /\ pageMode' = (IF pageMode # Unset THEN m ELSE pageMode) /\ lastMode' = m
      /\ asks' = [a \in Wish |-> IF Waits(a) THEN [asks[a] EXCEPT !.alone = @ /\ Head(upwards).to # "own"] ELSE NoAsk]
  <2>1. ToPages /\ restore.step = "none"
    BY NoOnesAre DEF ToPages
  <2> QED
    BY <1>2, <2>1 DEF ModeIsTold
<1>4. AsksGo
  <2>1. asks \in [Wish -> AskSet]
    BY TypesParts
  <2>2. \A a \in Wish : asks'[a] = IF Waits(a) THEN [asks[a] EXCEPT !.alone = @ /\ Head(upwards).to # "own"] ELSE NoAsk
    BY <1>3
  <2>3. ASSUME NEW a \in Wish, Waits(a)
        PROVE  /\ asks'[a].id = asks[a].id /\ asks'[a].value = asks[a].value /\ asks'[a].previous = asks[a].previous
               /\ asks'[a].before = asks[a].before /\ (asks'[a].alone => asks[a].alone)
    <3> PICK k \in AskSet : k = asks[a]
      BY <2>1
    <3>1. asks'[a] = [k EXCEPT !.alone = @ /\ Head(upwards).to # "own"]
      BY <2>2, <2>3
    <3> QED
      BY <3>1 DEF AskSet
  <2>4. \A a \in Wish : ~Waits(a) => asks'[a].id = "none" /\ ~Waits(a)'
    BY <2>2, NoOnesAre DEF Waits
  <2> QED
    BY <2>3, <2>4 DEF AsksGo, Waits
<1>5. AsksFit
  BY <1>2 DEF Flowing
<1>6. /\ AsksFit' /\ Kept(upwards', asks, asks') /\ Shifted(upwards, upwards') /\ Head(upwards) = upwards[1]
      /\ Head(upwards).options \in OptionSet
  BY <1>1, <1>4, <1>5, HeadGoes
<1>7. m \in Mode /\ m # Unset /\ OptionValue("mode", m) /\ upwards[1].what = "mode" /\ upwards[1].options.mode = m
  BY <1>1, <1>6 DEF OptionSet, Mode, Unset, OptionValue
<1>8. Doomed => Doomed'
  BY <1>1, <1>4, <1>5, <1>7, DoomStays DEF RefusedMode, AnswerTo
<1>9. logOptions'.mode = m /\ logOptions'.model = logOptions.model /\ logOptions'.effort = logOptions.effort
  <2>1. \A f \in OptionIds : logOptions'[f] = IF f = "mode" /\ logOptions[f] # Unset THEN m ELSE logOptions[f]
    BY <1>3, <1>7, NowSetIs, TypesParts
  <2>2. logOptions'["mode"] = m /\ logOptions'["model"] = logOptions["model"] /\ logOptions'["effort"] = logOptions["effort"]
    BY <1>2, <2>1 DEF OptionIds, Flowing
  <2> QED
    BY <2>2
<1>10. record'.id = record.id /\ record'.mode = m /\ record'.model = record.model /\ record'.effort = record.effort
       /\ Row'.mode = m
  BY <1>3, <1>7, TypesParts DEF RowSet, Row, OptionsIn
<1>11. ASSUME ~Doomed PROVE ModeFlows' /\ OwnModes' /\ PageFollows' /\ SettingsFlow'
  <2>1. ModeFlows /\ OwnModes /\ PageFollows /\ SettingsFlow
    BY <1>2, <1>11 DEF Flowing
  <2>2. ModeRuns(upwards', asks', agentHolds.mode, m, m, m, notTaken)
    BY <1>6, <1>7, <2>1, ToldHeadRuns DEF ModeFlows
  <2>3. ModeFlows'
    BY <1>1, <1>3, <1>9, <1>10, <2>2 DEF ModeFlows
  <2>4. OwnModes'
    BY <1>6, <2>1, AnsweredShifts DEF OwnModes
  <2>5. PageFollows'
    BY <1>1, <1>3, <1>4, <1>9, <2>1 DEF PageFollows, AsksGo, Waits
  <2>6. ~SettingAt(upwards, asks, answering, 1)
    BY <1>7 DEF SettingAt, AnswerTo
  <2>7. SettingsRun(upwards, asks, agentHolds.model, agentHolds.effort, logOptions, record, answering, notTaken)
    BY <2>1 DEF SettingsFlow
  <2>8. SettingsRun(upwards', asks', agentHolds.model, agentHolds.effort, logOptions', record', answering, notTaken)
    BY <1>6, <1>9, <1>10, <2>6, <2>7, OtherHeadSets
  <2>9. SettingsFlow'
    BY <1>1, <2>8 DEF SettingsFlow
  <2> QED
    BY <2>3, <2>4, <2>5, <2>9
<1>12. AgentFits'
  BY <1>1, <1>2 DEF Flowing, AgentFits, OptionsIn
<1>13. Flowing'
  BY <1>2, <1>6, <1>7, <1>8, <1>9, <1>11, <1>12 DEF Flowing
<1> QED
  BY <1>1, <1>2, <1>10, <1>13 DEF OptionsFit, Holds

\* OptionsAreTold keeps OptionsFit when nothing is put back.
LEMMA FlowOptionsTold == ASSUME TypesFit, OptionsFit, restore = NoRestore, OptionsAreTold PROVE OptionsFit'
<1>1. /\ upwards # <<>> /\ Head(upwards).what = "options" /\ upwards' = Tail(upwards)
      /\ UNCHANGED <<tells, answering, agentHolds, restore, asks, pageMode, lastMode, muddled, notTaken>>
  BY DEF OptionsAreTold, FirstOf, adapterSideVars
<1>2. Flowing /\ Holds /\ record.model \in Model /\ record.id = agentHolds.id
  BY <1>1, FlowsOn
<1> PICK o : o = Head(upwards).options
  OBVIOUS
<1>3. record' = Merged(o) /\ logOptions' = [o EXCEPT !.mode = logOptions.mode]
  <2>1. ToPages /\ logOptions # NoOptions
    BY <1>2, NoOnesAre DEF ToPages, Flowing, NoOptions
  <2> QED
    BY <1>2, <2>1 DEF OptionsAreTold
<1>4. AsksGo
  BY <1>1 DEF AsksGo, Waits
<1>5. AsksFit
  BY <1>2 DEF Flowing
<1>6. /\ AsksFit' /\ Kept(upwards', asks, asks') /\ Shifted(upwards, upwards') /\ Head(upwards) = upwards[1]
      /\ o \in OptionSet
  BY <1>1, <1>4, <1>5, HeadGoes
<1>7. /\ upwards[1].what = "options" /\ upwards[1].options = o /\ o \in MaybeOptions /\ o.model \in Model /\ Unset \notin Model
      /\ logOptions.mode \in Mode \cup {Unset}
  BY <1>1, <1>6, TypesParts DEF OptionSet, MaybeOptions, Model, Unset
<1>8. Doomed => Doomed'
  BY <1>1, <1>4, <1>5, <1>7, DoomStays DEF RefusedMode, AnswerTo
<1>9. logOptions'.mode = logOptions.mode /\ logOptions'.model = o.model /\ logOptions'.effort = o.effort
  BY <1>3, <1>7, OptionFields
<1>10. /\ record'.id = record.id /\ record'.mode = record.mode /\ record'.model = o.model
       /\ o.effort # Unset => record'.effort = o.effort
       /\ Row'.mode = Row.mode
  <2>1. /\ record'.id = record.id /\ record'.mode = record.mode /\ record'.model = o.model
        /\ record'.effort = (IF o.effort = Unset THEN record.effort ELSE o.effort) /\ record' \in RowSet
    BY <1>3, <1>7, MergedIs, TypesParts
  <2> QED
    BY <2>1, TypesParts DEF RowSet, Row, OptionsIn
<1>11. ASSUME ~Doomed PROVE ModeFlows' /\ OwnModes' /\ PageFollows' /\ SettingsFlow'
  <2>1. ModeFlows /\ OwnModes /\ PageFollows /\ SettingsFlow
    BY <1>2, <1>11 DEF Flowing
  <2>2. ModeRuns(upwards', asks', agentHolds.mode, logOptions.mode, lastMode, Row.mode, notTaken)
    BY <1>6, <1>7, <2>1, OtherHeadRuns DEF ModeFlows, ModeAt, AnswerTo
  <2>3. ModeFlows'
    BY <1>1, <1>9, <1>10, <2>2 DEF ModeFlows
  <2>4. OwnModes'
    BY <1>6, <2>1, AnsweredShifts DEF OwnModes
  <2>5. PageFollows'
    BY <1>1, <1>9, <2>1 DEF PageFollows
  <2>6. SettingAt(upwards, asks, answering, 1)
    BY <1>7 DEF SettingAt
  <2>7. SettingsRun(upwards, asks, agentHolds.model, agentHolds.effort, logOptions, record, answering, notTaken)
    BY <2>1 DEF SettingsFlow
  <2>8. SettingsRun(upwards', asks', agentHolds.model, agentHolds.effort, logOptions', record', answering, notTaken)
    BY <1>6, <1>7, <1>9, <1>10, <2>6, <2>7, ToldHeadSets
  <2>9. SettingsFlow'
    BY <1>1, <2>8 DEF SettingsFlow
  <2> QED
    BY <2>3, <2>4, <2>5, <2>9
<1>12. AgentFits'
  BY <1>1, <1>2 DEF Flowing, AgentFits, OptionsIn
<1>13. Flowing'
  BY <1>2, <1>6, <1>7, <1>8, <1>9, <1>11, <1>12 DEF Flowing
<1> QED
  BY <1>1, <1>2, <1>7, <1>10, <1>13 DEF OptionsFit, Holds

\* Nothing but the asks of pages is answered when nothing is put back.
LEMMA AskIsOfFlow ==
  ASSUME TypesFit, OptionsFit, NEW a \in Wish, AskIsAnswered(a)
  PROVE  restore = NoRestore /\ upwards # <<>> /\ Head(upwards).what = "answer" /\ Head(upwards).to = a
<1>1. upwards # <<>> /\ Head(upwards).what = "answer" /\ Head(upwards).to = a
  BY DEF AskIsAnswered, FirstOf
<1>2. a # "restore"
  BY ThreadOptionsAssumption
<1>3. ~(restore # NoRestore)
  <2> SUFFICES ASSUME restore # NoRestore PROVE FALSE
    OBVIOUS
  <2>1. QueueFits(upwards, agentHolds, restore.step)
    BY DEF OptionsFit, Restoring, RestoringQueue
  <2>2. Head(upwards).to = "restore"
    BY <1>1, <2>1, QueueEnds, TypesParts
  <2> QED
    BY <1>1, <1>2, <2>2
<1> QED
  BY <1>1, <1>3

\* What is the same after each answer of an ask.
LEMMA AskAnswers ==
  ASSUME TypesFit, OptionsFit, NEW a \in Wish, AskIsAnswered(a)
  PROVE  /\ Flowing /\ Holds /\ record.model \in Model /\ restore = NoRestore
         /\ AsksFit' /\ Kept(upwards', asks, asks') /\ Shifted(upwards, upwards') /\ Head(upwards) = upwards[1]
         /\ AsksGo /\ upwards # <<>> /\ upwards' = Tail(upwards)
         /\ upwards[1].what = "answer" /\ upwards[1].to = a /\ upwards[1].options \in OptionSet /\ 1 \in DOMAIN upwards
         /\ Waits(a) /\ OptionValue(asks[a].id, asks[a].value) /\ asks[a].id \in OptionIds
         /\ UNCHANGED <<tells, answering, agentHolds, restore, notTaken>> /\ AgentFits' /\ asks'[a].id = "none"
<1>1. /\ upwards # <<>> /\ Head(upwards).what = "answer" /\ Head(upwards).to = a /\ upwards' = Tail(upwards)
      /\ asks' = [asks EXCEPT ![a] = NoAsk]
      /\ UNCHANGED <<tells, answering, agentHolds, restore, notTaken>>
  BY DEF AskIsAnswered, FirstOf, adapterSideVars
<1>2. restore = NoRestore
  BY AskIsOfFlow
<1>3. Flowing /\ Holds /\ record.model \in Model
  BY <1>1, <1>2, FlowsOn
<1>4. AsksFit
  BY <1>3 DEF Flowing
<1>5. asks'[a] = NoAsk /\ \A b \in Wish : b # a => asks'[b] = asks[b]
  BY <1>1, TypesParts
<1>6. AsksGo
  <2>1. ASSUME NEW b \in Wish
        PROVE  /\ asks'[b].id \in {asks[b].id, "none"}
               /\ Waits(b)' => /\ asks'[b].value = asks[b].value /\ asks'[b].previous = asks[b].previous
                               /\ asks'[b].before = asks[b].before /\ (asks'[b].alone => asks[b].alone)
               /\ Waits(b) /\ ~Waits(b)' => Head(upwards).what = "answer" /\ Head(upwards).to = b
    <3>1. CASE b = a
      BY <1>1, <1>5, <3>1, NoOnesAre DEF Waits
    <3>2. CASE b # a
      BY <1>5, <3>2 DEF Waits
    <3> QED
      BY <3>1, <3>2
  <2> QED
    BY <2>1 DEF AsksGo
<1>7. /\ AsksFit' /\ Kept(upwards', asks, asks') /\ Shifted(upwards, upwards') /\ Head(upwards) = upwards[1]
      /\ Head(upwards).options \in OptionSet
  BY <1>1, <1>4, <1>6, HeadGoes
<1>8. 1 \in DOMAIN upwards
  BY <1>7 DEF Shifted
<1>9. Waits(a)
  BY <1>1, <1>4, <1>7, <1>8 DEF AsksFit
<1>10. OptionValue(asks[a].id, asks[a].value)
  BY <1>9, TypesParts
<1>11. asks[a].id \in OptionIds
  BY <1>10 DEF OptionValue, OptionIds
<1>12. AgentFits'
  BY <1>1, <1>3 DEF Flowing, AgentFits, OptionsIn
<1> QED
  BY <1>1, <1>2, <1>3, <1>5, <1>6, <1>7, <1>8, <1>9, <1>10, <1>11, <1>12, NoOnesAre

\* The answer of an ask, when nothing is doomed: no other mode is refused, and a refused
\* mode is alone.
LEMMA AloneIs ==
  ASSUME TypesFit, AsksFit, ~Doomed, NEW a \in Wish, Waits(a), 1 \in DOMAIN upwards,
         upwards[1].what = "answer", upwards[1].to = a, asks[a].id = "mode"
  PROVE  /\ upwards[1].ok => \A j \in DOMAIN upwards : ~RefusedMode(upwards, asks, j)
         /\ ~upwards[1].ok => \A j \in DOMAIN upwards : AnswerTo(upwards, asks, j, "mode") => j = 1
<1>1. \A j \in DOMAIN upwards : RefusedMode(upwards, asks, j) => j = 1
  <2> SUFFICES ASSUME NEW j \in DOMAIN upwards, RefusedMode(upwards, asks, j) PROVE j = 1
    OBVIOUS
  <2>1. asks[upwards[j].to].alone /\ upwards[j].what = "answer"
    BY DEF Doomed, RefusedMode, AnswerTo
  <2>2. upwards[j].to \in Wish /\ Waits(upwards[j].to)
    BY <2>1 DEF AsksFit
  <2>3. upwards[j].to = a
    BY <2>1, <2>2 DEF AsksFit
  <2> QED
    BY <2>1, <2>3 DEF AsksFit
<1>2. ASSUME ~upwards[1].ok, NEW j \in DOMAIN upwards, AnswerTo(upwards, asks, j, "mode") PROVE j = 1
  <2>1. RefusedMode(upwards, asks, 1)
    BY <1>2 DEF RefusedMode, AnswerTo
  <2>2. asks[a].alone
    BY <2>1 DEF Doomed
  <2>3. upwards[j].what = "answer" /\ upwards[j].to \in Wish /\ Waits(upwards[j].to)
    BY <1>2 DEF AnswerTo, AsksFit
  <2>4. upwards[j].to = a
    BY <2>2, <2>3 DEF AsksFit
  <2> QED
    BY <2>3, <2>4 DEF AsksFit
<1> QED
  BY <1>1, <1>2 DEF RefusedMode

\* The page shows the mode of the log, and the other asks are the same.
LEMMA PageGoes ==
  ASSUME PageFollows, AsksGo, notTaken' = notTaken, notTaken = TRUE \/ pageMode' \in {Unset, logOptions'.mode}
  PROVE  PageFollows'
<1>1. ASSUME notTaken # TRUE, NEW a \in Wish, asks'[a].id = "mode" PROVE asks'[a].before = asks'[a].previous
  <2>1. Waits(a)' /\ asks[a].id = "mode"
    BY <1>1 DEF AsksGo, Waits
  <2>2. asks'[a].before = asks[a].before /\ asks'[a].previous = asks[a].previous
    BY <2>1 DEF AsksGo
  <2> QED
    BY <1>1, <2>1, <2>2 DEF PageFollows
<1> QED
  BY <1>1 DEF PageFollows

\* AskIsAnswered keeps OptionsFit, unless a refused ask was not alone.
LEMMA OptionsAskAnswered ==
  ASSUME TypesFit, OptionsFit, NEW a \in Wish, AskIsAnswered(a), muddled' # TRUE
  PROVE  OptionsFit'
<1>1. /\ Flowing /\ Holds /\ record.model \in Model /\ restore = NoRestore
      /\ AsksFit' /\ Kept(upwards', asks, asks') /\ Shifted(upwards, upwards') /\ Head(upwards) = upwards[1]
      /\ AsksGo /\ upwards # <<>> /\ upwards' = Tail(upwards)
      /\ upwards[1].what = "answer" /\ upwards[1].to = a /\ upwards[1].options \in OptionSet /\ 1 \in DOMAIN upwards
      /\ Waits(a) /\ OptionValue(asks[a].id, asks[a].value) /\ asks[a].id \in OptionIds
      /\ UNCHANGED <<tells, answering, agentHolds, restore, notTaken>> /\ AgentFits' /\ asks'[a].id = "none"
  BY AskAnswers
<1> PICK id, h : id = asks[a].id /\ h = upwards[1]
  OBVIOUS
<1>2. /\ logOptions \in MaybeOptions /\ record \in RowSet /\ answering \in BOOLEAN /\ pageMode \in Mode \cup {Unset}
      /\ h.options \in MaybeOptions /\ Unset \notin Mode /\ Unset \notin Model /\ h.options.model \in Model /\ h.ok \in BOOLEAN
  BY <1>1, TypesParts, HeadIs DEF OptionSet, Mode, Model, Unset
<1>3. AsksFit /\ logOptions.mode # Unset /\ logOptions.model # Unset
  BY <1>1 DEF Flowing
<1>4. ~h.ok =>
        /\ logOptions' = IF id = "mode" THEN [logOptions EXCEPT !.mode = asks[a].previous] ELSE logOptions
        /\ pageMode' = IF id = "mode" THEN asks[a].before ELSE pageMode
        /\ asks[a].alone /\ record' = record /\ lastMode' = lastMode
  BY <1>1 DEF AskIsAnswered
<1>5. h.ok /\ id = "mode" =>
        record' = [record EXCEPT !.mode = logOptions.mode] /\ lastMode' = h.options.mode /\ logOptions' = logOptions
        /\ pageMode' = pageMode
  BY <1>1 DEF AskIsAnswered, ModeRecorded
<1>6. h.ok /\ id # "mode" =>
        /\ logOptions' = Configured(logOptions, id, asks[a].value, h.options)
        /\ record' = IF answering THEN Merged(h.options) ELSE [record EXCEPT ![id] = asks[a].value]
        /\ lastMode' = lastMode /\ pageMode' = pageMode
  BY <1>1 DEF AskIsAnswered
<1>7. AnswerTo(upwards, asks, 1, id) /\ \A f : AnswerTo(upwards, asks, 1, f) => f = id
  BY <1>1 DEF AnswerTo
<1>8. Doomed => Doomed'
  <2>1. ~(RefusedMode(upwards, asks, 1) /\ ~asks[upwards[1].to].alone)
    BY <1>1, <1>4 DEF RefusedMode
  <2> QED
    BY <1>1, <1>3, <2>1, DoomStays
<1>9. ASSUME ~Doomed PROVE OwnModes' /\ ModeFlows /\ PageFollows /\ SettingsFlow
  BY <1>1, <1>9, AnsweredShifts DEF Flowing, OwnModes
<1>10. CASE ~h.ok
  <2>1. logOptions'.model = logOptions.model /\ logOptions'.effort = logOptions.effort
        /\ logOptions'.mode = (IF id = "mode" THEN asks[a].previous ELSE logOptions.mode) /\ logOptions'.mode # Unset
    <3>1. id = "mode" => asks[a].previous \in Mode
      BY <1>3 DEF AsksFit
    <3>2. CASE id = "mode"
      <4>1. logOptions' = [logOptions EXCEPT !.mode = asks[a].previous] /\ asks[a].previous \in Mode \cup {Unset}
        BY <1>4, <1>10, <3>1, <3>2
      <4>2. logOptions'.mode = asks[a].previous /\ logOptions'.model = logOptions.model /\ logOptions'.effort = logOptions.effort
        BY <1>2, <4>1 DEF MaybeOptions
      <4> QED
        BY <1>2, <3>1, <3>2, <4>2
    <3>3. CASE id # "mode"
      BY <1>3, <1>4, <1>10, <3>3
    <3> QED
      BY <3>2, <3>3
  <2>2. ASSUME ~Doomed PROVE ModeFlows' /\ PageFollows' /\ SettingsFlow'
    <3>1. Row' = Row
      BY <1>4, <1>10, RowStays
    <3>2. ModeRuns(upwards, asks, agentHolds.mode, logOptions.mode, lastMode, Row.mode, notTaken)
      BY <1>9, <2>2 DEF ModeFlows
    <3>3. CASE id = "mode"
      <4>1. RefusedMode(upwards, asks, 1) /\ \A j \in DOMAIN upwards : AnswerTo(upwards, asks, j, "mode") => j = 1
        BY <1>1, <1>3, <1>7, <1>10, <2>2, <3>3, AloneIs DEF RefusedMode
      <4>2. ModeRuns(upwards', asks', agentHolds.mode, asks[upwards[1].to].previous, lastMode, Row.mode, notTaken)
        BY <1>1, <3>2, <4>1, RefusedHeadRuns
      <4>3. ModeFlows'
        BY <1>1, <1>4, <1>10, <2>1, <3>1, <3>3, <4>2 DEF ModeFlows
      <4>4. PageFollows'
        <5>1. notTaken = TRUE \/ asks[a].before = asks[a].previous
          BY <1>9, <2>2, <3>3 DEF PageFollows
        <5> QED
          BY <1>1, <1>4, <1>9, <1>10, <2>1, <2>2, <3>3, <5>1, PageGoes
      <4> QED
        BY <1>1, <1>4, <1>7, <1>10, <4>3, <4>4, <3>3, <1>9, <2>2, <2>1, OtherHeadSets DEF SettingsFlow, SettingAt
    <3>4. CASE id # "mode"
      <4>1. ~ModeAt(upwards, asks, 1)
        BY <1>1, <1>7, <3>4 DEF ModeAt
      <4>2. ModeRuns(upwards', asks', agentHolds.mode, logOptions.mode, lastMode, Row.mode, notTaken)
        BY <1>1, <3>2, <4>1, OtherHeadRuns
      <4>3. ModeFlows'
        BY <1>1, <1>4, <1>10, <2>1, <3>1, <3>4, <4>2 DEF ModeFlows
      <4>4. PageFollows'
        <5>1. notTaken = TRUE \/ pageMode \in {Unset, logOptions.mode}
          BY <1>9, <2>2 DEF PageFollows
        <5> QED
          BY <1>1, <1>4, <1>9, <1>10, <2>1, <2>2, <3>4, <5>1, PageGoes
      <4> QED
        BY <1>1, <1>4, <1>7, <1>10, <4>3, <4>4, <3>4, <1>9, <2>2, <2>1, OtherHeadSets DEF SettingsFlow, SettingAt
    <3> QED
      BY <3>3, <3>4
  <2>3. Flowing'
    BY <1>1, <1>3, <1>8, <1>9, <2>1, <2>2 DEF Flowing
  <2> QED
    BY <1>1, <1>4, <1>10, <2>3 DEF OptionsFit, Holds
<1>11. CASE h.ok /\ id = "mode"
  <2>1. record'.id = record.id /\ record'.model = record.model /\ record'.effort = record.effort /\ Row'.mode = logOptions.mode
    BY <1>2, <1>3, <1>5, <1>11 DEF RowSet, Row, OptionsIn, MaybeOptions
  <2>2. ASSUME ~Doomed PROVE ModeFlows' /\ PageFollows' /\ SettingsFlow'
    <3>1. ModeRuns(upwards, asks, agentHolds.mode, logOptions.mode, lastMode, Row.mode, notTaken)
      BY <1>9, <2>2 DEF ModeFlows
    <3>2. TakenMode(upwards, asks, 1) /\ \A j \in DOMAIN upwards : ~RefusedMode(upwards, asks, j)
      BY <1>1, <1>3, <1>7, <1>11, <2>2, AloneIs DEF TakenMode
    <3>3. ModeRuns(upwards', asks', agentHolds.mode, logOptions.mode, h.options.mode, logOptions.mode, notTaken)
      BY <1>1, <3>1, <3>2, TakenHeadRuns
    <3>4. ModeFlows'
      BY <1>1, <1>5, <1>11, <2>1, <3>3 DEF ModeFlows
    <3>5. PageFollows'
      <4>1. notTaken = TRUE \/ pageMode \in {Unset, logOptions.mode}
        BY <1>9, <2>2 DEF PageFollows
      <4> QED
        BY <1>1, <1>5, <1>9, <1>11, <2>2, <4>1, PageGoes
    <3>6. ~SettingAt(upwards, asks, answering, 1)
      BY <1>1, <1>7, <1>11 DEF SettingAt
    <3>7. SettingsRun(upwards, asks, agentHolds.model, agentHolds.effort, logOptions, record, answering, notTaken)
      BY <1>9, <2>2 DEF SettingsFlow
    <3>8. SettingsRun(upwards', asks', agentHolds.model, agentHolds.effort, logOptions, record', answering, notTaken)
      BY <1>1, <2>1, <3>6, <3>7, OtherHeadSets
    <3>9. SettingsFlow'
      BY <1>1, <1>5, <1>11, <3>8 DEF SettingsFlow
    <3> QED
      BY <3>4, <3>5, <3>9
  <2>3. Flowing'
    BY <1>1, <1>3, <1>5, <1>8, <1>9, <1>11, <2>2 DEF Flowing
  <2> QED
    BY <1>1, <2>1, <2>3 DEF OptionsFit, Holds
<1>12. CASE h.ok /\ id # "mode"
  <2>0. id \in {"model", "effort"} /\ OptionValue(id, asks[a].value)
    BY <1>1, <1>12 DEF OptionIds
  <2>1. /\ logOptions'.mode = logOptions.mode /\ logOptions'.model # Unset
        /\ answering => logOptions'.model = h.options.model /\ logOptions'.effort = h.options.effort
        /\ ~answering => logOptions'.model = IF id = "model" THEN asks[a].value ELSE logOptions.model
    <3>1. CASE answering
      BY <1>2, <1>6, <1>12, <2>0, <3>1, ConfiguredIs
    <3>2. CASE ~answering
      <4>1. logOptions' = NowSet(logOptions, id, asks[a].value)
        BY <1>6, <1>12, <3>2 DEF Configured
      <4>2. \A f \in OptionIds : logOptions'[f] = IF f = id /\ logOptions[f] # Unset THEN asks[a].value ELSE logOptions[f]
        BY <1>2, <2>0, <4>1, NowSetIs
      <4>3. /\ logOptions'["mode"] = logOptions["mode"]
            /\ logOptions'["model"] = IF id = "model" THEN asks[a].value ELSE logOptions["model"]
        BY <1>3, <2>0, <4>2 DEF OptionIds
      <4>4. id = "model" => asks[a].value # Unset
        BY <1>2, <2>0 DEF OptionValue
      <4> QED
        BY <1>3, <3>2, <4>3, <4>4
    <3> QED
      BY <1>2, <3>1, <3>2
  <2>2. /\ record' \in RowSet /\ record'.id = record.id /\ record'.mode = record.mode
        /\ answering => /\ record'.model = h.options.model
                        /\ h.options.effort # Unset => record'.effort = h.options.effort
        /\ ~answering => record'.model = IF id = "model" THEN asks[a].value ELSE record.model
        /\ record'.model \in Model
    <3>1. CASE answering
      BY <1>2, <1>6, <1>12, <3>1, MergedIs
    <3>2. CASE ~answering
      <4>1. record' = [record EXCEPT ![id] = asks[a].value]
        BY <1>6, <1>12, <3>2
      <4>2. CASE id = "model" /\ asks[a].value \in Model
        BY <1>2, <3>2, <4>1, <4>2 DEF RowSet
      <4>3. CASE id = "effort" /\ asks[a].value \in Effort
        BY <1>1, <1>2, <3>2, <4>1, <4>3 DEF RowSet
      <4> QED
        BY <2>0, <4>2, <4>3 DEF OptionValue
    <3> QED
      BY <3>1, <3>2
  <2>3. Row'.mode = Row.mode
    BY <1>2, <2>2 DEF Row, OptionsIn, RowSet
  <2>4. ASSUME ~Doomed PROVE ModeFlows' /\ PageFollows' /\ SettingsFlow'
    <3>1. ModeRuns(upwards, asks, agentHolds.mode, logOptions.mode, lastMode, Row.mode, notTaken)
      BY <1>9, <2>4 DEF ModeFlows
    <3>2. ~ModeAt(upwards, asks, 1)
      BY <1>1, <1>7, <1>12 DEF ModeAt
    <3>3. ModeRuns(upwards', asks', agentHolds.mode, logOptions.mode, lastMode, Row.mode, notTaken)
      BY <1>1, <3>1, <3>2, OtherHeadRuns
    <3>4. ModeFlows'
      BY <1>1, <1>6, <1>12, <2>1, <2>3, <3>3 DEF ModeFlows
    <3>5. PageFollows'
      <4>1. notTaken = TRUE \/ pageMode \in {Unset, logOptions.mode}
        BY <1>9, <2>4 DEF PageFollows
      <4> QED
        BY <1>1, <1>6, <1>9, <1>12, <2>1, <2>4, <4>1, PageGoes
    <3>7. SettingsRun(upwards, asks, agentHolds.model, agentHolds.effort, logOptions, record, answering, notTaken)
      BY <1>9, <2>4 DEF SettingsFlow
    <3>8. SettingsRun(upwards', asks', agentHolds.model, agentHolds.effort, logOptions', record', answering, notTaken)
      <4>1. CASE answering
        <5>1. SettingAt(upwards, asks, answering, 1)
          BY <1>7, <1>12, <2>0, <4>1 DEF SettingAt
        <5> QED
          BY <1>1, <2>1, <2>2, <3>7, <4>1, <5>1, ToldHeadSets
      <4>2. CASE ~answering /\ id = "model"
        <5>1. SettingAt(upwards, asks, answering, 1)
          BY <1>7, <1>12, <4>2 DEF SettingAt
        <5>2. asks[a].value = h.options.model
          <6>1. upwards[1].ok /\ asks[upwards[1].to].id = "model" => asks[upwards[1].to].value = upwards[1].options.model
            BY <1>1, <1>3 DEF AsksFit
          <6> QED
            BY <1>1, <1>12, <4>2, <6>1
        <5> QED
          BY <1>1, <2>1, <2>2, <3>7, <4>2, <5>1, <5>2, ToldHeadSets
      <4>3. CASE ~answering /\ id = "effort"
        <5>1. ~SettingAt(upwards, asks, answering, 1)
          BY <1>1, <1>7, <4>3 DEF SettingAt
        <5> QED
          BY <1>1, <2>1, <2>2, <3>7, <4>3, <5>1, OtherHeadSets
      <4> QED
        BY <2>0, <4>1, <4>2, <4>3
    <3>9. SettingsFlow'
      BY <1>1, <3>8 DEF SettingsFlow
    <3> QED
      BY <3>4, <3>5, <3>9
  <2>5. Flowing'
    BY <1>1, <1>3, <1>8, <1>9, <2>1, <2>4 DEF Flowing
  <2> QED
    BY <1>1, <2>2, <2>5 DEF OptionsFit, Holds
<1> QED
  BY <1>2, <1>10, <1>11, <1>12

(***************************************************************************)
(* An ask of a page.                                                       *)
(***************************************************************************)

\* The queue q1, before the answer of an ask, is the queue or has an update behind it.
Updates(q1, b, id) ==
  \E x \in MessageSet : /\ Joined(upwards, x, q1) /\ x.what = KindOf(id) /\ x.to = "all" /\ x.options = OptionsIn(b)
\* The agent b, and the queue q1 before the answer e of an ask a, after the option id was asked for.
Sends(q1, e, b, t, a, id, value) ==
  /\ Joined(q1, e, t) /\ e.what = "answer" /\ e.to = a /\ e.options = OptionsIn(b)
  /\ \/ q1 = upwards /\ ~tells /\ e.ok /\ ChangedTo(b, agentHolds, id, value) /\ (id = "effort" => agentHolds.effort # Unset)
     \/ q1 = upwards /\ ~e.ok /\ b = agentHolds
     \/ /\ Updates(q1, b, id) /\ e.ok
        /\ \/ tells /\ ChangedTo(b, agentHolds, id, value) /\ (id = "effort" => agentHolds.effort # Unset)
           \/ id = "mode" /\ ChangedTo(b, agentHolds, "mode", AgentMode)

\* What the adapter sends for an ask is an answer behind the queue, or an update and an answer.
LEMMA SendsAre ==
  ASSUME TypesFit, NEW a \in Wish, NEW id, NEW value, OptionValue(id, value), NEW o \in Outcomes(agentHolds, id, value, a)
  PROVE  /\ o.agent \in AgentSet
         /\ \E q1, e : Sends(q1, e, o.agent, upwards \o o.sent, a, id, value)
<1> PICK b, t : b = o.agent /\ t = upwards \o o.sent
  OBVIOUS
<1>1. /\ b \in AgentSet
      /\ \/ Taking(agentHolds, b, id, value, a, upwards, t) \/ FallingBack(agentHolds, b, id, value, a, upwards, t)
         \/ Refusing(agentHolds, b, id, a, upwards, t)
  BY OutcomeIs, TypesParts
<1>2. /\ \A ok \in BOOLEAN : /\ Answer(a, ok, b) \in MessageSet /\ Answer(a, ok, b).what = "answer"
                              /\ Answer(a, ok, b).to = a /\ Answer(a, ok, b).options = OptionsIn(b)
      /\ AllUpdate(b, id) \in MessageSet /\ AllUpdate(b, id).what = KindOf(id) /\ AllUpdate(b, id).to = "all"
      /\ AllUpdate(b, id).options = OptionsIn(b)
      /\ Answer(a, TRUE, b).ok /\ ~Answer(a, FALSE, b).ok
  <2>1. \A ok \in BOOLEAN : /\ Answer(a, ok, b) \in MessageSet /\ Answer(a, ok, b).what = "answer"
                             /\ Answer(a, ok, b).to = a /\ Answer(a, ok, b).options = OptionsIn(b)
    BY <1>1, AnswerFields
  <2>2. /\ AllUpdate(b, id) \in MessageSet /\ AllUpdate(b, id).what = KindOf(id) /\ AllUpdate(b, id).to = "all"
        /\ AllUpdate(b, id).options = OptionsIn(b)
    BY <1>1, UpdateFields DEF KindOf
  <2> QED
    BY <2>1, <2>2, AnswerOk
<1>3. upwards \in Seq(MessageSet)
  BY TypesParts
<1>4. ASSUME NEW ok \in BOOLEAN, t = Append(upwards, Answer(a, ok, b))
      PROVE  Joined(upwards, Answer(a, ok, b), t)
  BY <1>2, <1>3, <1>4, AppendIs
<1>5. ASSUME t = Append(Append(upwards, AllUpdate(b, id)), Answer(a, TRUE, b))
      PROVE  \E q1 : Updates(q1, b, id) /\ Joined(q1, Answer(a, TRUE, b), t)
  <2> PICK x \in MessageSet, e \in MessageSet : x = AllUpdate(b, id) /\ e = Answer(a, TRUE, b)
    BY <1>2
  <2> PICK q1 : q1 = Append(upwards, x)
    OBVIOUS
  <2>1. q1 \in Seq(MessageSet) /\ Joined(upwards, x, q1)
    BY <1>3, AppendIs
  <2>2. Joined(q1, e, t)
    BY <1>5, <2>1, AppendIs
  <2> QED
    BY <1>2, <2>1, <2>2 DEF Updates
<1>6. CASE Taking(agentHolds, b, id, value, a, upwards, t)
  <2>1. /\ ChangedTo(b, agentHolds, id, value) /\ (id = "effort" => agentHolds.effort # Unset)
        /\ \/ ~tells /\ t = Append(upwards, Answer(a, TRUE, b))
           \/ tells /\ t = Append(Append(upwards, AllUpdate(b, id)), Answer(a, TRUE, b))
    BY <1>6 DEF Taking
  <2>2. CASE ~tells
    <3>1. Joined(upwards, Answer(a, TRUE, b), t)
      BY <1>4, <2>1, <2>2
    <3>2. Sends(upwards, Answer(a, TRUE, b), b, t, a, id, value)
      BY <1>2, <2>1, <2>2, <3>1 DEF Sends
    <3> QED
      BY <1>1, <3>2
  <2>3. CASE tells
    <3>1. PICK q1 : Updates(q1, b, id) /\ Joined(q1, Answer(a, TRUE, b), t)
      BY <1>5, <2>1, <2>3
    <3>2. Sends(q1, Answer(a, TRUE, b), b, t, a, id, value)
      BY <1>2, <2>1, <2>3, <3>1 DEF Sends
    <3> QED
      BY <1>1, <3>2
  <2> QED
    BY <2>2, <2>3
<1>7. CASE FallingBack(agentHolds, b, id, value, a, upwards, t)
  <2>1. /\ id = "mode" /\ ChangedTo(b, agentHolds, "mode", AgentMode)
        /\ t = Append(Append(upwards, AllUpdate(b, id)), Answer(a, TRUE, b))
    BY <1>7 DEF FallingBack
  <2>2. PICK q1 : Updates(q1, b, id) /\ Joined(q1, Answer(a, TRUE, b), t)
    BY <1>5, <2>1
  <2>3. Sends(q1, Answer(a, TRUE, b), b, t, a, id, value)
    BY <1>2, <2>1, <2>2 DEF Sends
  <2> QED
    BY <1>1, <2>3
<1>8. CASE Refusing(agentHolds, b, id, a, upwards, t)
  <2>1. b = agentHolds /\ t = Append(upwards, Answer(a, FALSE, b))
    BY <1>8 DEF Refusing
  <2>2. Joined(upwards, Answer(a, FALSE, b), t)
    BY <1>4, <2>1
  <2>3. Sends(upwards, Answer(a, FALSE, b), b, t, a, id, value)
    BY <1>2, <2>1, <2>2 DEF Sends
  <2> QED
    BY <1>1, <2>3
<1> QED
  BY <1>1, <1>6, <1>7, <1>8

\* What a page knows of the queue that its ask goes behind.
Ahead(q1) ==
  /\ \A i \in DOMAIN upwards : i \in DOMAIN q1 /\ q1[i] = upwards[i]
  /\ \A i \in DOMAIN q1 : q1[i].what = "answer" => i \in DOMAIN upwards /\ q1[i] = upwards[i]

\* In front of the answer of an ask is the queue, with no other answer.
LEMMA SendsBehind ==
  ASSUME NEW q1, NEW e, NEW b, NEW t, NEW a, NEW id, NEW value, Sends(q1, e, b, t, a, id, value), AsksFit, OptionsIn(b) \in OptionSet
  PROVE  Ahead(q1) /\ \A i \in DOMAIN q1 : q1[i].options \in OptionSet
<1>1. CASE q1 = upwards
  BY <1>1 DEF Ahead, AsksFit
<1>2. CASE Updates(q1, b, id)
  <2>1. PICK x : Joined(upwards, x, q1) /\ x.what = KindOf(id) /\ x.options = OptionsIn(b)
    BY <1>2 DEF Updates
  <2>2. PICK n \in Nat : /\ DOMAIN upwards = 1..n /\ n + 1 \in DOMAIN q1 /\ q1[n + 1] = x
                         /\ \A i \in DOMAIN q1 : i \in DOMAIN upwards \/ i = n + 1
                         /\ \A i \in DOMAIN upwards : i \in DOMAIN q1 /\ q1[i] = upwards[i] /\ i # n + 1 /\ n + 1 > i
    BY <2>1, JoinedFits
  <2>3. x.what # "answer" /\ x.options \in OptionSet
    BY <2>1 DEF KindOf
  <2> QED
    BY <2>2, <2>3 DEF Ahead, AsksFit
<1> QED
  BY <1>1, <1>2 DEF Sends

\* The state and the step of an ask: what it finds, what it does to the asks, and what it sends.
Asking(q1, e, a, id, value) ==
  /\ Flowing /\ Holds /\ restore = NoRestore /\ record.model \in Model /\ ~Waits(a) /\ pageMode # Unset
  /\ OptionValue(id, value) /\ a \in Wish /\ logOptions.mode \in Mode
  /\ UNCHANGED <<tells, answering, record, restore, lastMode, notTaken>>
  /\ logOptions'.mode = (IF id = "mode" THEN value ELSE logOptions.mode) /\ logOptions'.mode # Unset
  /\ logOptions'.model = logOptions.model /\ logOptions'.effort = logOptions.effort
  /\ pageMode' = (IF id = "mode" THEN value ELSE pageMode)
  /\ tells \/ \A i \in DOMAIN upwards : upwards[i].what = "answer"
  /\ Sends(q1, e, agentHolds', upwards', a, id, value)

AskingAsks(a, id, value) ==
  /\ asks'[a].id = id /\ asks'[a].value = value /\ asks'[a].previous = logOptions.mode /\ asks'[a].before = pageMode
  /\ asks'[a].alone <=> (\A b \in Wish : ~Waits(b)) /\ \A i \in DOMAIN upwards : upwards[i].what = "answer"
  /\ \A b \in Wish : b # a => /\ asks'[b].id = asks[b].id /\ (Waits(b) => ~asks'[b].alone)
                              /\ Waits(b) => asks'[b].value = asks[b].value /\ asks'[b].previous = asks[b].previous
                                             /\ asks'[b].before = asks[b].before

\* The parts of PageAsks.
LEMMA AsksOut ==
  ASSUME TypesFit, OptionsFit, NEW a \in Wish, NEW id, NEW value, OptionValue(id, value), PageAsks(a, id, value), muddled' # TRUE
  PROVE  AskingAsks(a, id, value) /\ \E q1, e : Asking(q1, e, a, id, value)
<1>1. AskingAsks(a, id, value)
  BY AskedIs DEF AskingAsks
<1>2. /\ ~Waits(a) /\ pageMode # Unset /\ Holds
      /\ UNCHANGED <<tells, answering, record, restore, lastMode, notTaken>>
      /\ logOptions' = IF id = "mode" THEN [logOptions EXCEPT !.mode = value] ELSE logOptions
      /\ pageMode' = IF id = "mode" THEN value ELSE pageMode
  BY DEF PageAsks
<1>3. muddled' = (muddled \/ restore # NoRestore \/ ((\E i \in DOMAIN upwards : upwards[i].what # "answer") /\ ~tells))
  BY DEF PageAsks
<1>4. restore = NoRestore /\ (tells \/ \A i \in DOMAIN upwards : upwards[i].what = "answer")
  BY <1>3
<1>5. Flowing /\ record.model \in Model
  BY <1>2, <1>4 DEF OptionsFit
<1>6. PICK o \in Outcomes(agentHolds, id, value, a) : agentHolds' = o.agent /\ upwards' = upwards \o o.sent
  BY DEF PageAsks
<1>7. \E q1, e : Sends(q1, e, agentHolds', upwards', a, id, value)
  BY <1>6, SendsAre
<1>8. logOptions.mode \in Mode /\ logOptions \in MaybeOptions
  BY <1>5, TypesParts, OptionFields DEF Flowing
<1>9. /\ logOptions'.mode = (IF id = "mode" THEN value ELSE logOptions.mode) /\ logOptions'.mode # Unset
      /\ logOptions'.model = logOptions.model /\ logOptions'.effort = logOptions.effort
  <2>1. CASE id = "mode"
    <3>1. value \in Mode /\ Unset \notin Mode
      BY <2>1 DEF OptionValue, Mode, Unset
    <3> QED
      BY <1>2, <1>8, <2>1, <3>1, OptionFields
  <2>2. CASE id # "mode"
    BY <1>2, <1>5, <2>2 DEF Flowing
  <2> QED
    BY <2>1, <2>2
<1>10. PICK q1, e : Sends(q1, e, agentHolds', upwards', a, id, value)
  BY <1>7
<1>11. Asking(q1, e, a, id, value)
  BY <1>2, <1>4, <1>5, <1>8, <1>9, <1>10 DEF Asking
<1> QED
  BY <1>1, <1>11

\* The queue of an ask: every other answer in it is of an ask that waits.
LEMMA AskQueue ==
  ASSUME TypesFit, NEW a, NEW id, NEW value, NEW q1, NEW e, Asking(q1, e, a, id, value), AskingAsks(a, id, value)
  PROVE  /\ AgentFits' /\ Joined(q1, e, upwards') /\ Ahead(q1) /\ Kept(upwards, asks, asks') /\ Kept(q1, asks', asks') /\ AsksFit
         /\ e.what = "answer" /\ e.to = a /\ e.options \in OptionSet /\ e.options = OptionsIn(agentHolds')
         /\ \A i \in DOMAIN q1 : q1[i].options \in OptionSet
         /\ \A i \in DOMAIN upwards : upwards[i].what = "answer" => upwards[i].to \in Wish /\ Waits(upwards[i].to) /\ upwards[i].to # a
<1>1. /\ Flowing /\ ~Waits(a) /\ Sends(q1, e, agentHolds', upwards', a, id, value) /\ OptionValue(id, value)
  BY DEF Asking
<1>2. AsksFit /\ AgentFits
  BY <1>1 DEF Flowing
<1>3. \/ ChangedTo(agentHolds', agentHolds, id, value) /\ (id = "effort" => agentHolds.effort # Unset)
      \/ ChangedTo(agentHolds', agentHolds, "mode", AgentMode)
      \/ agentHolds' = agentHolds
  BY <1>1 DEF Sends
<1>4. AgentFits' /\ OptionsIn(agentHolds)' = OptionsIn(agentHolds')
  BY <1>1, <1>2, <1>3, AskingFits, TypesParts
<1>5. OptionsIn(agentHolds') \in OptionSet
  BY <1>4 DEF AgentFits
<1>6. Ahead(q1) /\ \A i \in DOMAIN q1 : q1[i].options \in OptionSet
  BY <1>1, <1>2, <1>5, SendsBehind
<1>7. \A i \in DOMAIN upwards : upwards[i].what = "answer" => upwards[i].to \in Wish /\ Waits(upwards[i].to) /\ upwards[i].to # a
  BY <1>1, <1>2 DEF AsksFit
<1>8. Kept(upwards, asks, asks')
  BY <1>7 DEF Kept, AskingAsks
<1>9. Kept(q1, asks', asks')
  BY KeptAll
<1> QED
  BY <1>1, <1>2, <1>4, <1>5, <1>6, <1>7, <1>8, <1>9 DEF Sends

\* PageAsks keeps AsksFit.
LEMMA AskAsksFit ==
  ASSUME TypesFit, NEW a, NEW id, NEW value, NEW q1, NEW e, Asking(q1, e, a, id, value), AskingAsks(a, id, value)
  PROVE  AsksFit'
<1>1. /\ AgentFits' /\ Joined(q1, e, upwards') /\ Ahead(q1) /\ AsksFit
      /\ e.what = "answer" /\ e.to = a /\ e.options \in OptionSet /\ e.options = OptionsIn(agentHolds')
      /\ \A i \in DOMAIN q1 : q1[i].options \in OptionSet
      /\ \A i \in DOMAIN upwards : upwards[i].what = "answer" => upwards[i].to \in Wish /\ Waits(upwards[i].to) /\ upwards[i].to # a
  BY AskQueue
<1>2. PICK n \in Nat : /\ DOMAIN q1 = 1..n /\ n + 1 \in DOMAIN upwards' /\ upwards'[n + 1] = e
                       /\ \A i \in DOMAIN upwards' : i \in DOMAIN q1 \/ i = n + 1
                       /\ \A i \in DOMAIN q1 : i \in DOMAIN upwards' /\ upwards'[i] = q1[i] /\ i # n + 1 /\ n + 1 > i
  BY <1>1, JoinedFits
<1>3. a \in Wish /\ id # "none" /\ ~Waits(a) /\ logOptions.mode \in Mode
  BY DEF Asking, OptionValue
<1>4. \A i \in DOMAIN upwards' : upwards'[i].what = "answer" =>
        i = n + 1 \/ (i \in DOMAIN upwards /\ upwards'[i] = upwards[i] /\ i # n + 1)
  BY <1>1, <1>2 DEF Ahead
<1>5. \A i \in DOMAIN upwards' : upwards'[i].options \in OptionSet
  BY <1>1, <1>2
<1>6. e.ok /\ id = "model" => value = e.options.model
  <2>1. e.ok /\ id = "model" => agentHolds'.model = value
    BY DEF Asking, Sends, ChangedTo
  <2> QED
    BY <1>1, <2>1, OptionsInIs
<1>7. ASSUME NEW i \in DOMAIN upwards', upwards'[i].what = "answer"
      PROVE  /\ upwards'[i].to \in Wish /\ asks'[upwards'[i].to].id # "none"
             /\ \A j \in DOMAIN upwards' : upwards'[j].what = "answer" /\ upwards'[j].to = upwards'[i].to => j = i
             /\ upwards'[i].ok /\ asks'[upwards'[i].to].id = "model" => asks'[upwards'[i].to].value = upwards'[i].options.model
  <2>1. CASE i = n + 1
    <3>1. upwards'[i] = e /\ upwards'[i].to = a /\ asks'[a].id = id /\ asks'[a].value = value
      BY <1>1, <1>2, <2>1 DEF AskingAsks
    <3>2. \A j \in DOMAIN upwards' : upwards'[j].what = "answer" /\ upwards'[j].to = a => j = i
      BY <1>1, <1>4, <2>1
    <3> QED
      BY <1>3, <1>6, <3>1, <3>2
  <2>2. CASE i # n + 1
    <3>1. i \in DOMAIN upwards /\ upwards'[i] = upwards[i]
      BY <1>4, <1>7, <2>2
    <3> PICK b : b = upwards[i].to
      OBVIOUS
    <3>2. b \in Wish /\ Waits(b) /\ b # a /\ upwards'[i].to = b
      BY <1>1, <1>7, <3>1
    <3>3. asks'[b].id = asks[b].id /\ asks'[b].value = asks[b].value
      BY <3>2 DEF AskingAsks
    <3>4. \A j \in DOMAIN upwards' : upwards'[j].what = "answer" /\ upwards'[j].to = b => j = i
      <4> SUFFICES ASSUME NEW j \in DOMAIN upwards', upwards'[j].what = "answer", upwards'[j].to = b PROVE j = i
        OBVIOUS
      <4>1. j \in DOMAIN upwards /\ upwards'[j] = upwards[j]
        BY <1>1, <1>2, <1>4, <3>2
      <4> QED
        BY <1>1, <1>7, <3>1, <4>1 DEF AsksFit
    <3>5. upwards[i].ok /\ asks[b].id = "model" => asks[b].value = upwards[i].options.model
      BY <1>1, <1>7, <3>1 DEF AsksFit
    <3> QED
      BY <3>1, <3>2, <3>3, <3>4, <3>5 DEF Waits
  <2> QED
    BY <2>1, <2>2
<1>8. ASSUME NEW b \in Wish, NEW c \in Wish, asks'[b].id # "none", asks'[b].alone, asks'[c].id # "none" PROVE b = c
  <2>1. b = a
    BY <1>8 DEF AskingAsks, Waits
  <2>2. \A d \in Wish : ~Waits(d)
    BY <1>8, <2>1 DEF AskingAsks
  <2> QED
    BY <1>8, <2>1, <2>2 DEF AskingAsks, Waits
<1>9. ASSUME NEW b \in Wish, asks'[b].id = "mode" PROVE asks'[b].previous \in Mode
  <2>1. CASE b = a
    BY <1>3, <2>1 DEF AskingAsks
  <2>2. CASE b # a
    <3>1. Waits(b) /\ asks[b].id = "mode" /\ asks'[b].previous = asks[b].previous
      BY <1>9, <2>2 DEF AskingAsks, Waits
    <3> QED
      BY <1>1, <3>1 DEF AsksFit
  <2> QED
    BY <2>1, <2>2
<1> QED
  BY <1>5, <1>7, <1>8, <1>9 DEF AsksFit, Waits

\* A refused mode on its way dooms the asks when another one is made.
LEMMA AskDooms ==
  ASSUME TypesFit, NEW a, NEW id, NEW value, NEW q1, NEW e, Asking(q1, e, a, id, value), AskingAsks(a, id, value), ~Doomed'
  PROVE  /\ \A j \in DOMAIN q1 : ~RefusedMode(q1, asks', j)
         /\ ~Doomed
         /\ id = "mode" /\ ~e.ok => DOMAIN upwards = {} /\ \A b \in Wish : ~Waits(b)
<1>1. /\ Joined(q1, e, upwards') /\ Ahead(q1) /\ AsksFit /\ Kept(upwards, asks, asks')
      /\ e.what = "answer" /\ e.to = a
      /\ \A i \in DOMAIN upwards : upwards[i].what = "answer" => upwards[i].to \in Wish /\ Waits(upwards[i].to) /\ upwards[i].to # a
  BY AskQueue
<1>2. PICK n \in Nat : /\ DOMAIN q1 = 1..n /\ n + 1 \in DOMAIN upwards' /\ upwards'[n + 1] = e
                       /\ \A i \in DOMAIN upwards' : i \in DOMAIN q1 \/ i = n + 1
                       /\ \A i \in DOMAIN q1 : i \in DOMAIN upwards' /\ upwards'[i] = q1[i] /\ i # n + 1 /\ n + 1 > i
  BY <1>1, JoinedFits
<1>3. \A i \in DOMAIN upwards' : RefusedMode(upwards', asks', i) => asks'[upwards'[i].to].alone
  BY DEF Doomed
<1>4. \A j \in DOMAIN upwards : ~RefusedMode(upwards, asks, j)
  <2> SUFFICES ASSUME NEW j \in DOMAIN upwards, RefusedMode(upwards, asks, j) PROVE FALSE
    OBVIOUS
  <2> PICK b : b = upwards[j].to
    OBVIOUS
  <2>1. upwards[j].what = "answer" /\ ~upwards[j].ok /\ asks[b].id = "mode"
    BY DEF RefusedMode, AnswerTo
  <2>2. b \in Wish /\ Waits(b) /\ b # a
    BY <1>1, <2>1
  <2>3. asks'[b].id = "mode" /\ ~asks'[b].alone
    BY <2>1, <2>2 DEF AskingAsks
  <2>4. j \in DOMAIN upwards' /\ upwards'[j] = upwards[j]
    BY <1>1, <1>2 DEF Ahead
  <2>5. RefusedMode(upwards', asks', j)
    BY <2>1, <2>3, <2>4 DEF RefusedMode, AnswerTo
  <2> QED
    BY <1>3, <2>3, <2>4, <2>5
<1>5. ~Doomed
  BY <1>4 DEF Doomed
<1>6. \A j \in DOMAIN q1 : ~RefusedMode(q1, asks', j)
  <2> SUFFICES ASSUME NEW j \in DOMAIN q1, RefusedMode(q1, asks', j) PROVE FALSE
    OBVIOUS
  <2>1. q1[j].what = "answer" /\ ~q1[j].ok /\ asks'[q1[j].to].id = "mode"
    BY DEF RefusedMode, AnswerTo
  <2>2. j \in DOMAIN upwards /\ q1[j] = upwards[j]
    BY <1>1, <2>1 DEF Ahead
  <2>3. asks[upwards[j].to].id = "mode"
    BY <1>1, <2>1, <2>2 DEF Kept
  <2>4. RefusedMode(upwards, asks, j)
    BY <2>1, <2>2, <2>3 DEF RefusedMode, AnswerTo
  <2> QED
    BY <1>4, <2>2, <2>4
<1>7. ASSUME id = "mode", ~e.ok PROVE DOMAIN upwards = {} /\ \A b \in Wish : ~Waits(b)
  <2>1. asks'[a].id = "mode"
    BY <1>7 DEF AskingAsks
  <2>2. RefusedMode(upwards', asks', n + 1)
    BY <1>1, <1>2, <1>7, <2>1 DEF RefusedMode, AnswerTo
  <2>3. asks'[a].alone
    BY <1>1, <1>2, <1>3, <2>2
  <2>4. (\A b \in Wish : ~Waits(b)) /\ \A i \in DOMAIN upwards : upwards[i].what = "answer"
    BY <2>3 DEF AskingAsks
  <2>5. \A i \in DOMAIN upwards : FALSE
    BY <1>1, <2>4
  <2> QED
    BY <2>4, <2>5
<1> QED
  BY <1>5, <1>6, <1>7

\* PageAsks keeps PageFollows: the page and the log show the same mode, before and after.
LEMMA AskPage ==
  ASSUME NEW a, NEW id, NEW value, NEW q1, NEW e, Asking(q1, e, a, id, value), AskingAsks(a, id, value), PageFollows
  PROVE  PageFollows'
<1>1. /\ notTaken' = notTaken /\ pageMode # Unset /\ a \in Wish
      /\ logOptions'.mode = (IF id = "mode" THEN value ELSE logOptions.mode)
      /\ pageMode' = (IF id = "mode" THEN value ELSE pageMode)
  BY DEF Asking
<1>2. CASE notTaken = TRUE
  BY <1>1, <1>2 DEF PageFollows
<1>3. CASE notTaken # TRUE
  <2>1. pageMode = logOptions.mode /\ \A b \in Wish : asks[b].id = "mode" => asks[b].before = asks[b].previous
    BY <1>1, <1>3 DEF PageFollows
  <2>2. pageMode' \in {Unset, logOptions'.mode}
    BY <1>1, <2>1
  <2>3. ASSUME NEW b \in Wish, asks'[b].id = "mode" PROVE asks'[b].before = asks'[b].previous
    <3>1. CASE b = a
      BY <2>1, <3>1 DEF AskingAsks
    <3>2. CASE b # a
      <4>1. asks[b].id = "mode" /\ Waits(b)
        BY <2>3, <3>2 DEF AskingAsks, Waits
      <4>2. asks'[b].before = asks[b].before /\ asks'[b].previous = asks[b].previous
        BY <3>2, <4>1 DEF AskingAsks
      <4> QED
        BY <2>1, <4>1, <4>2
    <3> QED
      BY <3>1, <3>2
  <2> QED
    BY <2>2, <2>3 DEF PageFollows
<1> QED
  BY <1>2, <1>3

\* Behind an ask for a mode comes its answer; another ask leaves the modes as they are.
LEMMA AskAnswersOwn ==
  ASSUME NEW a, NEW id, NEW value, NEW q1, NEW e, Joined(q1, e, upwards'), e.what = "answer", e.to = a,
         asks'[a].id = id, Kept(upwards, asks, asks'), Answered(upwards, asks), Sends(q1, e, agentHolds', upwards', a, id, value)
  PROVE  OwnModes'
<1>1. PICK n \in Nat : /\ DOMAIN q1 = 1..n /\ n + 1 \in DOMAIN upwards' /\ upwards'[n + 1] = e
                       /\ \A i \in DOMAIN upwards' : i \in DOMAIN q1 \/ i = n + 1
                       /\ \A i \in DOMAIN q1 : i \in DOMAIN upwards' /\ upwards'[i] = q1[i] /\ i # n + 1 /\ n + 1 > i
  BY JoinedFits
<1>2. CASE id = "mode"
  <2>1. AnswerTo(upwards', asks', n + 1, "mode")
    BY <1>1, <1>2 DEF AnswerTo
  <2>2. \A i \in DOMAIN upwards' : upwards'[i].what = "mode" => n + 1 > i
    BY <1>1
  <2>3. Answered(upwards', asks')
    BY <1>1, <2>1, <2>2 DEF Answered
  <2> QED
    BY <2>3 DEF OwnModes
<1>3. CASE id # "mode"
  <2>1. Answered(upwards, asks')
    <3> SUFFICES ASSUME NEW i \in DOMAIN upwards, upwards[i].what = "mode", upwards[i].to # "own"
                 PROVE  \E k \in DOMAIN upwards : k > i /\ AnswerTo(upwards, asks', k, "mode")
      BY DEF Answered
    <3>1. PICK k \in DOMAIN upwards : k > i /\ AnswerTo(upwards, asks, k, "mode")
      BY DEF Answered
    <3>2. AnswerTo(upwards, asks', k, "mode")
      BY <3>1 DEF AnswerTo, Kept
    <3> QED
      BY <3>1, <3>2
  <2>2. Answered(q1, asks')
    <3>1. CASE q1 = upwards
      BY <2>1, <3>1
    <3>2. CASE Updates(q1, agentHolds', id)
      <4>1. PICK x : Joined(upwards, x, q1) /\ x.what = KindOf(id)
        BY <3>2 DEF Updates
      <4>2. x.what # "mode"
        BY <1>3, <4>1 DEF KindOf
      <4> QED
        BY <2>1, <4>1, <4>2, OwnJoins
    <3> QED
      BY <3>1, <3>2 DEF Sends
  <2>3. Answered(upwards', asks')
    BY <2>2, OwnJoins
  <2> QED
    BY <2>3 DEF OwnModes
<1> QED
  BY <1>2, <1>3

\* An ask for a mode keeps ModeFlows, unless it crosses a refused one.
LEMMA AskModes ==
  ASSUME TypesFit, NEW a, NEW value, NEW q1, NEW e, Asking(q1, e, a, "mode", value), AskingAsks(a, "mode", value), ~Doomed', ModeFlows
  PROVE  ModeFlows'
<1>1. /\ Joined(q1, e, upwards') /\ Ahead(q1) /\ Kept(q1, asks', asks') /\ Kept(upwards, asks, asks')
      /\ e.what = "answer" /\ e.to = a /\ e.options = OptionsIn(agentHolds')
  BY AskQueue
<1>2. (\A j \in DOMAIN q1 : ~RefusedMode(q1, asks', j)) /\ (~e.ok => DOMAIN upwards = {} /\ \A b \in Wish : ~Waits(b))
  BY AskDooms
<1>3. /\ record' = record /\ lastMode' = lastMode /\ notTaken' = notTaken /\ logOptions'.mode = value
      /\ tells \/ \A i \in DOMAIN upwards : upwards[i].what = "answer"
      /\ Sends(q1, e, agentHolds', upwards', a, "mode", value)
  BY DEF Asking
<1>4. Row' = Row
  BY <1>3, RowStays
<1>5. asks'[a].id = "mode" /\ asks'[a].previous = logOptions.mode
  BY DEF AskingAsks
<1>6. e.options.mode = agentHolds'.mode
  BY <1>1, OptionsInIs
<1>7. ModeRuns(upwards, asks, agentHolds.mode, logOptions.mode, lastMode, Row.mode, notTaken)
  BY DEF ModeFlows
<1>8. ModeRuns(upwards', asks', agentHolds'.mode, value, lastMode, Row.mode, notTaken)
  <2>1. CASE e.ok /\ q1 = upwards /\ ~tells /\ ChangedTo(agentHolds', agentHolds, "mode", value)
    <3>1. agentHolds'.mode = value
      BY <2>1 DEF ChangedTo
    <3>2. \A i \in DOMAIN q1 : q1[i].what # "mode"
      BY <1>3, <2>1
    <3>3. ModeRuns(upwards', asks', value, value, lastMode, Row.mode, notTaken)
      BY <1>1, <1>2, <1>5, <1>6, <2>1, <3>1, <3>2, <1>7, TakenJoinRuns
    <3> QED
      BY <3>1, <3>3
  <2>2. CASE e.ok /\ Updates(q1, agentHolds', "mode")
    <3>1. PICK x : Joined(upwards, x, q1) /\ x.what = KindOf("mode") /\ x.options = OptionsIn(agentHolds')
      BY <2>2 DEF Updates
    <3>2. x.what = "mode" /\ x.options.mode = agentHolds'.mode
      BY <3>1, OptionsInIs DEF KindOf
    <3>3. PICK n \in Nat : /\ DOMAIN upwards = 1..n /\ n + 1 \in DOMAIN q1 /\ q1[n + 1] = x
                           /\ \A i \in DOMAIN q1 : i \in DOMAIN upwards \/ i = n + 1
                           /\ \A i \in DOMAIN upwards : i \in DOMAIN q1 /\ q1[i] = upwards[i] /\ i # n + 1 /\ n + 1 > i
      BY <3>1, JoinedFits
    <3>4. \A i \in DOMAIN q1 : q1[i].what = "mode" =>
            q1[i].options.mode = agentHolds'.mode \/ \E j \in DOMAIN q1 : i < j /\ q1[j].what = "mode"
      <4>1. \A i \in DOMAIN q1 : i = n + 1 \/ i < n + 1
        BY <3>3
      <4> QED
        BY <3>2, <3>3, <4>1
    <3>5. ~(\A i \in DOMAIN q1 : q1[i].what # "mode")
      BY <3>2, <3>3
    <3>6. ModeRuns(upwards', asks', agentHolds'.mode, value, lastMode, Row.mode, notTaken)
      <4>1. PICK m, row : m = agentHolds'.mode /\ row = Row.mode
        OBVIOUS
      <4>2. ModeRuns(upwards, asks, agentHolds.mode, logOptions.mode, lastMode, row, notTaken)
        BY <1>7, <4>1
      <4>3. ModeRuns(upwards', asks', m, value, lastMode, row, notTaken)
        <5>1. PICK t, ks : t = upwards' /\ ks = asks'
          OBVIOUS
        <5>2. /\ Joined(q1, e, t) /\ Kept(q1, ks, ks) /\ e.what = "answer" /\ e.ok /\ ks[e.to].id = "mode" /\ e.options.mode = m
              /\ \A j \in DOMAIN q1 : ~RefusedMode(q1, ks, j)
          BY <1>1, <1>2, <1>5, <1>6, <2>2, <4>1, <5>1
        <5>3. /\ \A i \in DOMAIN q1 : q1[i].what = "mode" =>
                   q1[i].options.mode = m \/ \E j \in DOMAIN q1 : i < j /\ q1[j].what = "mode"
              /\ (\A i \in DOMAIN q1 : q1[i].what # "mode") => value = m
          BY <3>4, <3>5, <4>1
        <5>4. ModeRuns(t, ks, m, value, lastMode, row, notTaken)
          BY <5>2, <5>3, TakenJoinRuns
        <5> QED
          BY <5>1, <5>4
      <4> QED
        BY <4>1, <4>3
    <3> QED
      BY <3>6
  <2>3. CASE ~e.ok /\ q1 = upwards /\ agentHolds' = agentHolds
    <3>1. DOMAIN q1 = {}
      BY <1>2, <2>3
    <3>2. logOptions.mode = agentHolds.mode /\ ModeIsRight(agentHolds.mode, lastMode, Row.mode, notTaken)
      <4>1. ModeNone(upwards, asks, agentHolds.mode, logOptions.mode, lastMode, Row.mode, notTaken)
        BY <1>7 DEF ModeRuns
      <4> QED
        BY <2>3, <3>1, <4>1 DEF ModeNone
    <3>3. ModeRuns(upwards', asks', agentHolds.mode, value, lastMode, Row.mode, notTaken)
      BY <1>1, <1>5, <1>6, <2>3, <3>1, <3>2, RefusedJoinRuns
    <3> QED
      BY <2>3, <3>3
  <2> QED
    BY <1>3, <2>1, <2>2, <2>3 DEF Sends
<1> QED
  BY <1>3, <1>4, <1>8 DEF ModeFlows

\* An ask for a setting leaves the modes as they are.
LEMMA AskOtherModes ==
  ASSUME TypesFit, NEW a, NEW id, NEW value, NEW q1, NEW e, Asking(q1, e, a, id, value), AskingAsks(a, id, value), id # "mode", ModeFlows
  PROVE  ModeFlows'
<1>1. /\ Joined(q1, e, upwards') /\ Kept(q1, asks', asks') /\ Kept(upwards, asks, asks')
      /\ e.what = "answer" /\ e.to = a
  BY AskQueue
<1>2. /\ record' = record /\ lastMode' = lastMode /\ notTaken' = notTaken /\ logOptions'.mode = logOptions.mode
      /\ Sends(q1, e, agentHolds', upwards', a, id, value) /\ OptionValue(id, value)
  BY DEF Asking
<1>3. Row' = Row
  BY <1>2, RowStays
<1>4. asks'[a].id # "mode"
  BY DEF AskingAsks
<1>5. agentHolds'.mode = agentHolds.mode
  BY <1>2 DEF Sends, ChangedTo, OptionValue
<1> PICK row, m : row = Row.mode /\ m = agentHolds.mode
  OBVIOUS
<1>6. ModeRuns(upwards, asks, m, logOptions.mode, lastMode, row, notTaken)
  BY DEF ModeFlows
<1>7. ModeRuns(q1, asks', m, logOptions.mode, lastMode, row, notTaken) \/ q1 = upwards
  <2>1. CASE Updates(q1, agentHolds', id)
    <3>1. PICK x : Joined(upwards, x, q1) /\ x.what = KindOf(id)
      BY <2>1 DEF Updates
    <3>2. x.what # "mode" /\ x.what # "answer"
      BY <3>1 DEF KindOf
    <3> QED
      BY <1>1, <1>6, <3>1, <3>2, OtherJoinRuns
  <2> QED
    BY <1>2, <2>1 DEF Sends
<1>8. ModeRuns(upwards', asks', m, logOptions.mode, lastMode, row, notTaken)
  <2>1. CASE q1 = upwards
    BY <1>1, <1>4, <1>6, <2>1, OtherJoinRuns
  <2>2. CASE ModeRuns(q1, asks', m, logOptions.mode, lastMode, row, notTaken)
    BY <1>1, <1>4, <2>2, OtherJoinRuns
  <2> QED
    BY <1>7, <2>1, <2>2
<1> QED
  BY <1>2, <1>3, <1>5, <1>8 DEF ModeFlows

\* An ask keeps SettingsFlow.
LEMMA AskSettings ==
  ASSUME TypesFit, NEW a, NEW id, NEW value, NEW q1, NEW e, Asking(q1, e, a, id, value), AskingAsks(a, id, value), SettingsFlow
  PROVE  SettingsFlow'
<1>1. /\ Joined(q1, e, upwards') /\ Kept(q1, asks', asks') /\ Kept(upwards, asks, asks')
      /\ e.what = "answer" /\ e.to = a /\ e.options = OptionsIn(agentHolds')
  BY AskQueue
<1>2. /\ record' = record /\ notTaken' = notTaken /\ answering' = answering
      /\ logOptions'.model = logOptions.model /\ logOptions'.effort = logOptions.effort
      /\ Sends(q1, e, agentHolds', upwards', a, id, value) /\ OptionValue(id, value)
  BY DEF Asking
<1>3. asks'[a].id = id /\ answering \in BOOLEAN
  BY TypesParts DEF AskingAsks
<1>4. e.options.model = agentHolds'.model /\ e.options.effort = agentHolds'.effort
  BY <1>1, OptionsInIs
<1> PICK m, f, m2, f2 : m = agentHolds.model /\ f = agentHolds.effort /\ m2 = agentHolds'.model /\ f2 = agentHolds'.effort
  OBVIOUS
<1>5. SettingsRun(upwards, asks, m, f, logOptions, record, answering, notTaken)
  BY DEF SettingsFlow
<1>6. SettingsRun(upwards', asks', m2, f2, logOptions', record, answering, notTaken)
  <2>1. CASE id = "mode"
    <3>1. m2 = m /\ f2 = f
      BY <1>2, <2>1 DEF Sends, ChangedTo
    <3>2. SettingsRun(q1, asks', m, f, logOptions, record, answering, notTaken) \/ q1 = upwards
      <4>1. CASE Updates(q1, agentHolds', id)
        <5>1. PICK x : Joined(upwards, x, q1) /\ x.what = KindOf(id)
          BY <4>1 DEF Updates
        <5>2. x.what = "mode"
          BY <2>1, <5>1 DEF KindOf
        <5> QED
          BY <1>1, <1>5, <5>1, <5>2, OtherJoinSets
      <4> QED
        BY <1>2, <4>1 DEF Sends
    <3>3. CASE q1 = upwards
      BY <1>1, <1>2, <1>3, <1>5, <2>1, <3>1, <3>3, OtherJoinSets
    <3>4. CASE SettingsRun(q1, asks', m, f, logOptions, record, answering, notTaken)
      BY <1>1, <1>2, <1>3, <2>1, <3>1, <3>4, OtherJoinSets
    <3> QED
      BY <3>2, <3>3, <3>4
  <2>2. CASE id # "mode" /\ ~e.ok
    <3>1. q1 = upwards /\ m2 = m /\ f2 = f
      BY <1>2, <2>2 DEF Sends
    <3> QED
      BY <1>1, <1>2, <1>3, <1>5, <2>2, <3>1, OtherJoinSets
  <2>3. CASE e.ok /\ (id = "model" \/ (id = "effort" /\ answering = TRUE))
    <3>1. SettingsRun(upwards', asks', e.options.model, e.options.effort, logOptions', record, answering, notTaken)
      BY <1>1, <1>3, <2>3, ToldJoinSets
    <3> QED
      BY <1>4, <3>1
  <2>4. CASE e.ok /\ id = "effort" /\ answering # TRUE /\ q1 = upwards
    <3>1. m2 = m
      BY <1>2, <2>4 DEF Sends, ChangedTo
    <3>2. Joined(upwards, e, upwards') /\ e.what # "options" /\ asks'[e.to].id # "model"
      BY <1>1, <1>3, <2>4
    <3>3. SettingsRun(upwards', asks', m, f2, logOptions', record, answering, notTaken)
      BY <1>1, <1>2, <1>5, <2>4, <3>2, OtherJoinSets
    <3> QED
      BY <3>1, <3>3
  <2>5. CASE e.ok /\ id = "effort" /\ answering # TRUE /\ Updates(q1, agentHolds', id)
    <3>1. PICK x : Joined(upwards, x, q1) /\ x.what = KindOf(id) /\ x.options = OptionsIn(agentHolds')
      BY <2>5 DEF Updates
    <3>2. x.what = "options" /\ x.options.model = m2 /\ x.options.effort = f2
      BY <2>5, <3>1, OptionsInIs DEF KindOf
    <3>3. SettingsRun(q1, asks', x.options.model, x.options.effort, logOptions, record, answering, notTaken)
      BY <3>1, <3>2, ToldJoinSets
    <3>4. SettingsRun(q1, asks', m2, f2, logOptions, record, answering, notTaken)
      BY <3>2, <3>3
    <3> QED
      BY <1>1, <1>2, <1>3, <2>5, <3>4, OtherJoinSets
  <2> QED
    BY <1>2, <1>3, <2>1, <2>2, <2>3, <2>4, <2>5 DEF Sends, OptionValue
<1> QED
  BY <1>2, <1>6 DEF SettingsFlow

\* PageAsks keeps OptionsFit, unless it crosses a restore or an unasked change.
LEMMA OptionsAsked ==
  ASSUME TypesFit, OptionsFit, NEW a \in Wish, NEW id, NEW value, OptionValue(id, value), PageAsks(a, id, value), muddled' # TRUE
  PROVE  OptionsFit'
<1>1. AskingAsks(a, id, value) /\ \E q1, e : Asking(q1, e, a, id, value)
  BY AsksOut
<1> PICK q1, e : Asking(q1, e, a, id, value)
  BY <1>1
<1>2. /\ Flowing /\ Holds /\ restore = NoRestore /\ record.model \in Model /\ record' = record /\ restore' = restore
      /\ logOptions'.mode # Unset /\ logOptions'.model = logOptions.model
      /\ Sends(q1, e, agentHolds', upwards', a, id, value)
  BY DEF Asking
<1>3. AgentFits' /\ Joined(q1, e, upwards') /\ Kept(upwards, asks, asks') /\ e.what = "answer" /\ e.to = a
  BY <1>1, AskQueue
<1>4. AsksFit'
  BY <1>1, AskAsksFit
<1>5. ASSUME ~Doomed' PROVE ModeFlows' /\ OwnModes' /\ PageFollows' /\ SettingsFlow'
  <2>1. ~Doomed
    BY <1>1, <1>5, AskDooms
  <2>2. ModeFlows /\ OwnModes /\ PageFollows /\ SettingsFlow
    BY <1>2, <2>1 DEF Flowing
  <2>3. ModeFlows'
    <3>1. CASE id = "mode"
      BY <1>1, <1>5, <2>2, <3>1, AskModes
    <3>2. CASE id # "mode"
      BY <1>1, <2>2, <3>2, AskOtherModes
    <3> QED
      BY <3>1, <3>2
  <2>4. OwnModes'
    <3>1. asks'[a].id = id
      BY <1>1 DEF AskingAsks
    <3> QED
      BY <1>2, <1>3, <2>2, <3>1, AskAnswersOwn DEF OwnModes
  <2>5. PageFollows'
    BY <1>1, <2>2, AskPage
  <2>6. SettingsFlow'
    BY <1>1, <2>2, AskSettings
  <2> QED
    BY <2>3, <2>4, <2>5, <2>6
<1>6. Flowing'
  <2>1. logOptions'.model # Unset
    BY <1>2 DEF Flowing
  <2> QED
    BY <1>2, <1>3, <1>4, <1>5, <2>1 DEF Flowing
<1>7. Holds'
  BY <1>2 DEF Holds, Sends, ChangedTo
<1> QED
  BY <1>2, <1>6, <1>7 DEF OptionsFit

(***************************************************************************)
(* The invariant is inductive.                                             *)
(***************************************************************************)

\* A step of something else keeps OptionsFit.
LEMMA OptionsSame ==
  ASSUME OptionsFit, UNCHANGED threadOptionVars
  PROVE  OptionsFit'
<1>1. UNCHANGED <<tells, answering, agentHolds, upwards, record, logOptions, restore, asks, pageMode, lastMode, notTaken>>
  BY DEF threadOptionVars, adapterSideVars
<1>2. Row' = Row /\ (Holds' <=> Holds)
  BY <1>1, RowStays DEF Holds
<1>3. /\ Doomed' <=> Doomed
      /\ AsksFit' <=> AsksFit
      /\ AgentFits' <=> AgentFits
  BY <1>1 DEF Doomed, AsksFit, Waits, AgentFits, OptionsIn
<1>4. /\ ModeFlows' <=> ModeFlows
      /\ OwnModes' <=> OwnModes
      /\ PageFollows' <=> PageFollows
      /\ SettingsFlow' <=> SettingsFlow
  BY <1>1, <1>2 DEF ModeFlows, OwnModes, PageFollows, SettingsFlow
<1>5. Flowing => Flowing'
  BY <1>1, <1>3, <1>4 DEF Flowing
<1>6. Resting => Resting'
  BY <1>1, <1>2 DEF Resting, Waits
<1>7. (RestoringQueue' <=> RestoringQueue) /\ (HasRow' <=> HasRow) /\ (\A w : Tells(w)' <=> Tells(w)) /\ LastAnswer' = LastAnswer
  BY <1>1 DEF RestoringQueue, HasRow, Tells, LastAnswer
<1>8. Loading => Loading'
  BY <1>1, <1>2, <1>7 DEF Loading, OptionsIn
<1>9. PuttingMode => PuttingMode'
  BY <1>1, <1>2, <1>7 DEF PuttingMode
<1>10. ModeIsPut => ModeIsPut'
  BY <1>1, <1>2, <1>7 DEF ModeIsPut
<1>11. PuttingModel => PuttingModel'
  BY <1>1, <1>7, <1>10 DEF PuttingModel
<1>12. PuttingEffort => PuttingEffort'
  BY <1>1, <1>7, <1>10 DEF PuttingEffort
<1>13. Restoring => Restoring'
  BY <1>1, <1>2, <1>3, <1>7, <1>8, <1>9, <1>11, <1>12 DEF Restoring, Waits
<1> QED
  BY <1>1, <1>2, <1>5, <1>6, <1>13 DEF OptionsFit

\* What is muddled stays so.
LEMMA MuddleStays ==
  ASSUME [ThreadOptionsNext]_threadOptionVars, muddled' # TRUE
  PROVE  muddled # TRUE
<1>1. CASE UNCHANGED threadOptionVars
  BY <1>1 DEF threadOptionVars
<1>2. CASE AgentWishes \/ AdapterComesUp \/ ThreadIsLoaded \/ LoadIsAnswered \/ ThreadIsMinted \/ ModeIsTold \/ OptionsAreTold
           \/ PageOpensThread \/ ThreadIsPrompted
  BY <1>2 DEF AgentWishes, AdapterComesUp, ThreadIsLoaded, LoadIsAnswered, ThreadIsMinted, ModeIsTold, OptionsAreTold,
              PageOpensThread, ThreadIsPrompted
<1>3. CASE AdapterGoesDown \/ FirstPromptIsLost
  BY <1>3 DEF AdapterGoesDown, FirstPromptIsLost, OptionsAreLost
<1>4. CASE HistoryIsRelayed
  BY <1>4 DEF HistoryIsRelayed
<1>5. CASE RestoreIsAnswered
  BY <1>5 DEF RestoreIsAnswered
<1>6. CASE \E a \in Wish : AskIsAnswered(a)
  BY <1>6 DEF AskIsAnswered
<1>7. ASSUME NEW a, NEW id, NEW value, PageAsks(a, id, value) PROVE muddled # TRUE
  BY <1>7 DEF PageAsks
<1> QED
  BY <1>1, <1>2, <1>3, <1>4, <1>5, <1>6, <1>7 DEF ThreadOptionsNext

\* OptionsFit is inductive as long as nothing is muddled.
LEMMA OptionsStay ==
  ASSUME TypesFit, ContextKept, OptionsFit, [ThreadOptionsNext]_threadOptionVars, muddled' # TRUE
  PROVE  OptionsFit'
<1>1. CASE UNCHANGED threadOptionVars
  BY <1>1, OptionsSame
<1>2. CASE ModeIsTold
  BY <1>2, FlowModeTold, RestoreModeTold
<1>3. CASE OptionsAreTold
  BY <1>3, FlowOptionsTold, RestoreOptionsTold
<1>4. CASE \E a \in Wish : AskIsAnswered(a)
  BY <1>4, OptionsAskAnswered
<1>5. CASE \E a \in Wish : \/ \E m \in Mode : PageAsks(a, "mode", m)
                           \/ \E m \in Model : PageAsks(a, "model", m)
                           \/ \E e \in Effort : PageAsks(a, "effort", e)
  BY <1>5, OptionsAsked, WishesAreOptions
<1> QED
  BY <1>1, <1>2, <1>3, <1>4, <1>5, OptionsWished, OptionsComeUp, OptionsExit, OptionsLoad, OptionsRelay, OptionsLoadAnswered,
     OptionsMinted, OptionsAnswered, OptionsOpen, OptionsPrompted DEF ThreadOptionsNext

\* OptionsInv holds at first.
LEMMA OptionsBegin == ASSUME ThreadOptionsInit PROVE OptionsInv
<1>1. /\ tells \in BOOLEAN /\ answering \in BOOLEAN
      /\ agentHolds = Nothing /\ transcripts = <<>> /\ upwards = <<>>
      /\ logOptions = NoOptions /\ restore = NoRestore
      /\ asks = [a \in Wish |-> NoAsk] /\ pageMode = Unset
      /\ mints = 0 /\ notTaken = FALSE
  BY DEF ThreadOptionsInit
<1>2. PICK fork \in BOOLEAN, chosen \in BOOLEAN :
        /\ record = [id |-> 0, mode |-> IF chosen THEN ForkMode ELSE Unset, model |-> "opus",
                     effort |-> IF chosen THEN "high" ELSE Unset, inherits |-> fork, fork |-> fork]
        /\ lastMode = IF chosen THEN ForkMode ELSE DefaultMode
  BY DEF ThreadOptionsInit
<1>3. record \in RowSet /\ record.id = 0 /\ record.model = "opus" /\ record.inherits = record.fork
      /\ record.mode = (IF chosen THEN ForkMode ELSE Unset)
  BY <1>2 DEF RowSet, ForkMode, Mode, Model, Effort
<1>4. Row.mode = lastMode
  BY <1>2, <1>3, RowIs DEF ForkMode, Unset
<1>5. \A a \in Wish : ~Waits(a)
  BY <1>1, NoOnesAre DEF Waits
<1>6. TypesFit
  <2>1. transcripts \in Seq(BOOLEAN) /\ DOMAIN transcripts = {} /\ upwards \in Seq(MessageSet)
    BY <1>1
  <2>2. /\ NoRestore \in RestoreSet /\ (NoRestore.step = "none" <=> NoRestore = NoRestore)
        /\ NoAsk \in AskSet /\ NoOptions \in MaybeOptions /\ Nothing \in AgentSet
    BY NoOnesAre
  <2>3. asks \in [Wish -> AskSet]
    BY <1>1, <2>2
  <2> QED
    BY <1>1, <1>3, <1>5, <2>1, <2>2, <2>3 DEF TypesFit
<1>7. ~Holds /\ ~agentHolds.up
  BY <1>1, NothingHeld DEF Holds
<1>8. ContextKept
  <2>1. DOMAIN transcripts = {} /\ restore.kind = "none"
    BY <1>1, NoOnesAre
  <2> QED
    BY <1>3, <1>7, <2>1 DEF ContextKept
<1>9. OptionsFit
  <2>1. Resting
    BY <1>1, <1>4, <1>5 DEF Resting
  <2>2. record.model \in Model
    BY <1>3 DEF Model
  <2> QED
    BY <1>1, <1>7, <2>1, <2>2 DEF OptionsFit
<1> QED
  BY <1>6, <1>8, <1>9 DEF OptionsInv

\* OptionsInv gives OptionsAreKept: an empty queue means that the last message has been told.
LEMMA OptionsInvKeeps == ASSUME OptionsInv PROVE OptionsAreKept
<1> SUFFICES ASSUME NothingOnTheWay
             PROVE  /\ muddled \/ ShownIsRun
                    /\ muddled \/ notTaken \/ RunIsRecorded
                    /\ record.fork => agentHolds.context \/ contextLost
  BY DEF OptionsAreKept
<1>1. upwards = <<>> /\ restore = NoRestore /\ Holds /\ \A a \in Wish : ~Waits(a)
  BY DEF NothingOnTheWay
<1>2. TypesFit /\ ContextKept
  BY DEF OptionsInv
<1>3. record.fork => agentHolds.context \/ contextLost
  BY <1>1, <1>2 DEF ContextKept
<1>4. CASE muddled = TRUE
  BY <1>3, <1>4
<1>5. CASE muddled # TRUE
  <2>1. Flowing
    BY <1>1, <1>5 DEF OptionsInv, OptionsFit
  <2>2. /\ logOptions.mode = agentHolds.mode /\ ModeIsRight(agentHolds.mode, lastMode, Row.mode, notTaken)
        /\ notTaken = TRUE \/ pageMode \in {Unset, logOptions.mode}
        /\ logOptions.model = agentHolds.model /\ (answering = TRUE => logOptions.effort = agentHolds.effort)
        /\ SettingsAreRight(agentHolds.model, agentHolds.effort, record, answering, notTaken)
    BY <1>1, <1>2, <2>1, IdleIs
  <2>3. answering \in BOOLEAN /\ notTaken \in BOOLEAN /\ Row.model = record.model /\ Row.effort = record.effort
    BY <1>2, TypesParts, RowIs
  <2>4. ShownIsRun
    BY <2>2, <2>3 DEF ShownIsRun
  <2>5. notTaken \/ RunIsRecorded
    BY <2>2, <2>3 DEF RunIsRecorded, ModeIsRight, SettingsAreRight
  <2> QED
    BY <1>3, <2>4, <2>5
<1> QED
  BY <1>4, <1>5

\* Whatever the order of the messages, with any pages and any bounds: when nothing is on its
\* way, the log and the page show what the agent runs with, the row records it, and it is what
\* was chosen last, unless one of the exceptions that the property names has happened; and a
\* fork keeps the context of its source (forwardRequest, fillLog, applyMode, applyConfig).
THEOREM OptionsAreAlwaysKept == ThreadOptionsSpec => []OptionsAreKept
<1>1. ThreadOptionsInit => OptionsInv
  BY OptionsBegin
<1>2. OptionsInv /\ [ThreadOptionsNext]_threadOptionVars => OptionsInv'
  <2> SUFFICES ASSUME OptionsInv, [ThreadOptionsNext]_threadOptionVars PROVE OptionsInv'
    OBVIOUS
  <2>1. TypesFit' /\ ContextKept'
    BY TypesStay, ContextStays DEF OptionsInv
  <2>2. CASE muddled' # TRUE
    <3>1. TypesFit /\ ContextKept /\ OptionsFit
      BY <2>2, MuddleStays DEF OptionsInv
    <3>2. OptionsFit'
      BY <2>2, <3>1, OptionsStay
    <3> QED
      BY <2>1, <3>2 DEF OptionsInv
  <2>3. CASE muddled' = TRUE
    BY <2>1, <2>3 DEF OptionsInv
  <2> QED
    BY <2>2, <2>3
<1>3. OptionsInv => OptionsAreKept
  BY OptionsInvKeeps
<1> QED
  BY <1>1, <1>2, <1>3, PTL DEF ThreadOptionsSpec

================================================================================
