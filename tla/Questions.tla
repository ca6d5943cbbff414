------------------------------- MODULE Questions -------------------------------
(***************************************************************************)
(* The permission requests ("questions") of one thread, from the adapter   *)
(* through the gateway to the browsers and back: UpstreamBox.onPermission  *)
(* (orchestrator/src/gateway/upstream.ts), the queue of PendingStore       *)
(* (pending.ts), the socket of a browser (downstream.ts) and the approvals *)
(* of the dashboard (stores/thread/acp-client.ts and thread-store.ts).     *)
(*                                                                         *)
(* A socket is a FIFO channel to the browser (wire); the answers of a      *)
(* browser settle in any order (back).  A browser goes through the         *)
(* handshake: it is attached, then pinned to the thread by the gateway,    *)
(* then it has asked for the thread, then the thread is open.              *)
(*                                                                         *)
(* A page keeps the approvals of a socket that closed (leftover) until it  *)
(* reads the replay of the next one or resets itself before it.  What it   *)
(* answers meanwhile goes over the socket of that time, under the number   *)
(* the request had on the old one (overdue).  The ACP library, which is    *)
(* external, numbers the requests of each connection by itself, so the     *)
(* gateway drops such an answer or takes it for one to any question that   *)
(* waits on the new socket.                                                *)
(***************************************************************************)
EXTENDS Naturals, Sequences, FiniteSets, SequencesExt

CONSTANTS Browser,       \* the browsers that open the thread
          Question,      \* the questions the adapters ask, each at most once
          NoBrowser,     \* no browser
          MaxSockets,    \* bound: sockets that are opened
          MaxLosses      \* bound: adapters that exit and restarts of the orchestrator

ASSUME NoBrowserAssumption == NoBrowser \notin Browser
ASSUME QuestionsFinite == IsFiniteSet(Question)
ASSUME QuestionBounds == MaxSockets \in Nat /\ MaxLosses \in Nat

VARIABLES
  \* The adapter, and what it knows of its questions.
  held,        \* an adapter runs and holds the conversation
  outcome,     \* what became of each question
  resolved,    \* how often the gateway answered the request of each question
  \* The gateway (lost in a crash, except for the rows).
  gateway,     \* the orchestrator runs
  fallback,    \* PERMISSION_FALLBACK
  direct,      \* the browser a question was forwarded to
  queued,      \* PendingStore.entries
  timers,      \* the queued questions whose hold time runs
  deliveries,  \* the browsers a queued question was put to
  rows,        \* the table pending_requests
  recency,     \* the pairs of attached browsers, the more recently active first
  \* The sockets and the browsers.
  stage,       \* how far the handshake of each browser is
  wire,        \* the messages on the way to each browser
  shown,       \* the approvals of each browser that came over its socket
  back,        \* the answers to them on the way from each browser
  leftover,    \* the approvals of each browser that came over an earlier socket
  overdue,     \* the answers to those on the way
  misread,     \* the questions a late answer was taken for (for the properties)
  \* The bounds.
  sockets, losses

gatewayVars == <<direct, queued, timers, deliveries, rows>>
approvalVars == <<shown, back, leftover, overdue>>
browserVars == <<stage, recency, wire, approvalVars>>
questionBounds == <<sockets, losses>>
outcomeVars == <<outcome, resolved, misread>>
questionVars == <<held, outcomeVars, gateway, fallback, gatewayVars, browserVars, questionBounds>>

Answer == {"selected", "cancelled"}
Stage  == {"away", "attached", "pinned", "asked", "open"}
Message == [kind : {"ask", "withdraw"}, q : Question] \cup {[kind |-> "replay"]}

QuestionsTypeOK ==
  /\ held \in BOOLEAN
  /\ outcome \in [Question -> Answer \cup {"unasked", "waiting", "denied", "lost"}]
  /\ resolved \in [Question -> Nat]
  /\ gateway \in BOOLEAN
  /\ fallback \in {"hold", "deny"}
  /\ direct \in [Question -> Browser \cup {NoBrowser}]
  /\ queued \subseteq Question
  /\ timers \subseteq queued
  /\ deliveries \in [Question -> SUBSET Browser]
  /\ rows \subseteq Question
  /\ recency \subseteq Browser \X Browser
  /\ stage \in [Browser -> Stage]
  /\ wire \in [Browser -> Seq(Message)]
  /\ shown \in [Browser -> SUBSET Question]
  /\ back \in [Browser -> SUBSET (Question \X Answer)]
  /\ leftover \in [Browser -> SUBSET Question]
  /\ overdue \in [Browser -> SUBSET (Question \X Answer)]
  /\ misread \subseteq Question
  /\ sockets \in 0..MaxSockets
  /\ losses \in 0..MaxLosses

QuestionsInit ==
  /\ held = FALSE
  /\ outcome = [q \in Question |-> "unasked"]
  /\ resolved = [q \in Question |-> 0]
  /\ gateway = TRUE
  /\ fallback \in {"hold", "deny"}
  /\ direct = [q \in Question |-> NoBrowser]
  /\ queued = {}
  /\ timers = {}
  /\ deliveries = [q \in Question |-> {}]
  /\ rows = {}
  /\ recency = {}
  /\ stage = [b \in Browser |-> "away"]
  /\ wire = [b \in Browser |-> <<>>]
  /\ shown = [b \in Browser |-> {}]
  /\ back = [b \in Browser |-> {}]
  /\ leftover = [b \in Browser |-> {}]
  /\ overdue = [b \in Browser |-> {}]
  /\ misread = {}
  /\ sockets = 0
  /\ losses = 0

(***************************************************************************)
(* The gateway.                                                            *)
(***************************************************************************)

Ask(q) == [kind |-> "ask", q |-> q]
Withdraw(q) == [kind |-> "withdraw", q |-> q]
Replay == [kind |-> "replay"]

\* The browsers watching the thread: those the gateway has pinned to it.
Watchers == {b \in Browser : stage[b] \in {"pinned", "asked", "open"}}

\* The first watcher of byRecency.
IsLatest(b) == b \in Watchers /\ \A c \in Watchers \ {b} : <<b, c>> \in recency

WithoutBrowser(b) == {p \in recency : b \notin {p[1], p[2]}}

\* A request of the browser arrived (DownstreamHandle.lastActiveAt).
Active(b) == recency' = WithoutBrowser(b) \cup {<<b, c>> : c \in {d \in Browser \ {b} : stage[d] # "away"}}

\* A mutant: the hold time does not run.
Enqueue_Untimed(Q) ==
  /\ queued' = queued \cup Q
  /\ rows' = rows \cup Q
  /\ timers' = timers

\* PendingStore.add: an entry with its row and its timer.
Enqueue(Q) ==
  /\ queued' = queued \cup Q
  /\ rows' = rows \cup Q
  /\ timers' = timers \cup Q

\* A mutant: the browsers keep the question.
Settle_Silent(Q, D) ==
  /\ queued' = queued \ Q
  /\ rows' = rows \ Q
  /\ timers' = timers \ Q
  /\ deliveries' = [q \in Question |-> IF q \in Q THEN {} ELSE D[q]]
  /\ wire' = wire

\* PendingStore.settle: the entries and the rows go, and the question is
\* withdrawn from every browser that has not answered it (the deliveries D).
Settle(Q, D) ==
  /\ queued' = queued \ Q
  /\ rows' = rows \ Q
  /\ timers' = timers \ Q
  /\ deliveries' = [q \in Question |-> IF q \in Q THEN {} ELSE D[q]]
  /\ wire' = [b \in Browser |->
                wire[b] \o SetToSeq({Withdraw(q) : q \in {r \in Q : b \in D[r]}})]

\* The gateway answers the request, and the adapter hears it if it still runs.
Answered(q, o) ==
  /\ outcome' = [outcome EXCEPT ![q] = IF @ = "waiting" THEN o ELSE @]
  /\ resolved' = [resolved EXCEPT ![q] = @ + 1]

\* UpstreamBox.onPermission: the question goes to the most recently active
\* watcher, and to the queue when there is none.
AskQuestion(q) ==
  /\ held
  /\ outcome[q] = "unasked"
  /\ outcome' = [outcome EXCEPT ![q] = "waiting"]
  /\ \/ /\ \E b \in Browser : /\ IsLatest(b)
                               /\ direct' = [direct EXCEPT ![q] = b]
                               /\ wire' = [wire EXCEPT ![b] = Append(@, Ask(q))]
        /\ UNCHANGED <<queued, timers, rows>>
     \/ /\ Watchers = {}
        /\ Enqueue({q})
        /\ UNCHANGED <<direct, wire>>
  /\ UNCHANGED <<held, gateway, fallback, deliveries, stage, recency, approvalVars, resolved, misread,
                 questionBounds>>

\* applyPermissionFallback, when the hold time of a question is over.
HoldElapses(q) ==
  /\ q \in timers
  /\ \/ /\ fallback = "hold"
        /\ timers' = timers \ {q}
        /\ UNCHANGED <<queued, rows, deliveries, wire, outcome, resolved>>
     \/ /\ fallback = "deny"
        /\ Settle({q}, deliveries)
        /\ Answered(q, "denied")
  /\ UNCHANGED <<held, gateway, fallback, direct, stage, recency, approvalVars, misread, questionBounds>>

\* attachDownstream and UpstreamBox.attach: the socket is there, the thread not yet.
Attach(b) ==
  /\ gateway
  /\ stage[b] = "away"
  /\ sockets < MaxSockets
  /\ sockets' = sockets + 1
  /\ stage' = [stage EXCEPT ![b] = "attached"]
  /\ Active(b)
  /\ UNCHANGED <<held, outcomeVars, gateway, fallback, gatewayVars, wire, approvalVars, losses>>

\* UpstreamBox.pin: the bring-up is over, so the gateway routes to the browser.
PinBrowser(b) ==
  /\ held
  /\ stage[b] = "attached"
  /\ stage' = [stage EXCEPT ![b] = "pinned"]
  /\ UNCHANGED <<held, outcomeVars, gateway, fallback, gatewayVars, recency, wire, approvalVars,
                 questionBounds>>

\* The gateway answers the session/load of the browser from the log (Broadcast.open)
\* and puts every queued question to it (flushPendingTo).
LoadThreadFor(b) ==
  /\ held
  /\ stage[b] = "asked"
  /\ stage' = [stage EXCEPT ![b] = "open"]
  /\ Active(b)
  /\ wire' = [wire EXCEPT ![b] = @ \o <<Replay>> \o SetToSeq({Ask(q) : q \in queued})]
  /\ deliveries' = [q \in Question |->
                      IF q \in queued THEN deliveries[q] \cup {b} ELSE deliveries[q]]
  /\ UNCHANGED <<held, outcomeVars, gateway, fallback, direct, queued, timers, rows, approvalVars,
                 questionBounds>>

\* The gateway waits for an answer of b to q: it was forwarded to b, or put to b from
\* the queue.
IsOpen(q, b) == direct[q] = b \/ (q \in queued /\ b \in deliveries[q])

\* An answer of b to q: the one of the browser the question was forwarded to, or the
\* first to a delivery, which settles the question.
TakeAnswer(b, q, o) ==
  \/ /\ direct[q] = b
     /\ direct' = [direct EXCEPT ![q] = NoBrowser]
     /\ Answered(q, o)
     /\ UNCHANGED <<queued, timers, deliveries, rows, wire>>
  \/ /\ direct[q] # b
     /\ b \in deliveries[q]
     /\ Settle({q}, [deliveries EXCEPT ![q] = @ \ {b}])
     /\ Answered(q, o)
     /\ UNCHANGED direct

\* An answer that comes to no question that waits on the socket, such as one that was
\* withdrawn.
DropAnswer == UNCHANGED <<gatewayVars, wire, outcome, resolved>>

\* The answer of a browser to a question of this socket arrives.
AnswerArrives(b, q, o) ==
  /\ <<q, o>> \in back[b]
  /\ back' = [back EXCEPT ![b] = @ \ {<<q, o>>}]
  /\ \/ TakeAnswer(b, q, o)
     \/ direct[q] # b /\ b \notin deliveries[q] /\ DropAnswer
  /\ UNCHANGED <<held, gateway, fallback, stage, recency, shown, leftover, overdue, misread, questionBounds>>

\* The answer to a question of an earlier socket arrives: its number is free, or it is
\* that of a question r that waits on this one.
LateAnswerArrives(b, q, o) ==
  /\ <<q, o>> \in overdue[b]
  /\ overdue' = [overdue EXCEPT ![b] = @ \ {<<q, o>>}]
  /\ \/ \E r \in Question : TakeAnswer(b, r, o) /\ misread' = misread \cup {r}
     \/ DropAnswer /\ UNCHANGED misread
  /\ UNCHANGED <<held, gateway, fallback, stage, recency, shown, back, leftover, questionBounds>>

\* The socket closes: detach, and every request in flight on it is rejected.  A
\* forwarded question is queued, also one whose adapter is gone by now.  The page
\* keeps its approvals.
SocketCloses(b) ==
  /\ stage[b] # "away"
  /\ stage' = [stage EXCEPT ![b] = "away"]
  /\ recency' = WithoutBrowser(b)
  /\ wire' = [wire EXCEPT ![b] = <<>>]
  /\ shown' = [shown EXCEPT ![b] = {}]
  /\ leftover' = [leftover EXCEPT ![b] = @ \cup shown[b]]
  /\ back' = [back EXCEPT ![b] = {}]
  /\ overdue' = [overdue EXCEPT ![b] = {}]
  /\ Enqueue({q \in Question : direct[q] = b})
  /\ direct' = [q \in Question |-> IF direct[q] = b THEN NoBrowser ELSE direct[q]]
  /\ deliveries' = [q \in Question |-> deliveries[q] \ {b}]
  /\ UNCHANGED <<held, outcomeVars, gateway, fallback, questionBounds>>

(***************************************************************************)
(* The adapter, and the orchestrator.                                      *)
(***************************************************************************)

\* A bring-up has given the thread to an adapter.
AdapterHolds ==
  /\ gateway
  /\ ~held
  /\ held' = TRUE
  /\ UNCHANGED <<outcomeVars, gateway, fallback, gatewayVars, browserVars, questionBounds>>

Lost == [q \in Question |-> IF outcome[q] = "waiting" THEN "lost" ELSE outcome[q]]

\* onThreadsLost, for an adapter that exited, and UpstreamBox.stop: every queued
\* question fails (failThread, failBox).  A forwarded one stays with its browser.
AdapterLost ==
  /\ held
  /\ losses < MaxLosses
  /\ losses' = losses + 1
  /\ held' = FALSE
  /\ outcome' = Lost
  /\ resolved' = [q \in Question |-> IF q \in queued THEN resolved[q] + 1 ELSE resolved[q]]
  /\ Settle(queued, deliveries)
  /\ UNCHANGED <<gateway, fallback, direct, stage, recency, approvalVars, misread, sockets>>

\* The orchestrator ends: its sockets and the streams of its adapters close, and
\* only the rows are left.
OrchestratorEnds ==
  /\ gateway
  /\ losses < MaxLosses
  /\ losses' = losses + 1
  /\ gateway' = FALSE
  /\ held' = FALSE
  /\ outcome' = Lost
  /\ direct' = [q \in Question |-> NoBrowser]
  /\ queued' = {}
  /\ timers' = {}
  /\ deliveries' = [q \in Question |-> {}]
  /\ recency' = {}
  /\ stage' = [b \in Browser |-> "away"]
  /\ wire' = [b \in Browser |-> <<>>]
  /\ shown' = [b \in Browser |-> {}]
  /\ leftover' = [b \in Browser |-> leftover[b] \cup shown[b]]
  /\ back' = [b \in Browser |-> {}]
  /\ overdue' = [b \in Browser |-> {}]
  /\ UNCHANGED <<fallback, rows, resolved, misread, sockets>>

\* The boot: PendingStore.clearStale.
OrchestratorBoots ==
  /\ ~gateway
  /\ gateway' = TRUE
  /\ rows' = {}
  /\ UNCHANGED <<held, outcomeVars, fallback, direct, queued, timers, deliveries, browserVars,
                 questionBounds>>

(***************************************************************************)
(* The dashboard.                                                          *)
(***************************************************************************)

\* ThreadStore.failOpenApprovals: each open approval of b is answered as cancelled, over
\* the socket of now.
FailApprovals(b) ==
  /\ shown' = [shown EXCEPT ![b] = {}]
  /\ back' = [back EXCEPT ![b] = @ \cup (shown[b] \X {"cancelled"})]
  /\ leftover' = [leftover EXCEPT ![b] = {}]
  /\ overdue' = [overdue EXCEPT ![b] = @ \cup (leftover[b] \X {"cancelled"})]

\* AcpClient.handshake, once session/new is answered: without a resume point the
\* store is reset at once, and the thread is asked for.
AskForThread(b) ==
  /\ stage[b] = "pinned"
  /\ stage' = [stage EXCEPT ![b] = "asked"]
  /\ Active(b)
  /\ \/ FailApprovals(b)
     \/ UNCHANGED approvalVars
  /\ UNCHANGED <<held, outcomeVars, gateway, fallback, gatewayVars, wire, questionBounds>>

\* The next message reaches the browser (AcpClient.receive).
MessageArrives(b) ==
  /\ wire[b] # <<>>
  /\ wire' = [wire EXCEPT ![b] = Tail(@)]
  /\ LET m == Head(wire[b]) IN
     \/ /\ m.kind = "ask"
        /\ shown' = [shown EXCEPT ![b] = @ \cup {m.q}]
        /\ UNCHANGED <<back, leftover, overdue>>
     \/ /\ m.kind = "withdraw"
        /\ shown' = [shown EXCEPT ![b] = @ \ {m.q}]
        /\ back' = [back EXCEPT ![b] = @ \cup ((shown[b] \cap {m.q}) \X {"cancelled"})]
        /\ UNCHANGED <<leftover, overdue>>
     \/ /\ m.kind = "replay"
        /\ FailApprovals(b)
  /\ UNCHANGED <<held, outcomeVars, gateway, fallback, gatewayVars, stage, recency, questionBounds>>

\* ThreadStore.respondToApproval: the user answers.
UserAnswers(b, q, o) ==
  /\ q \in shown[b]
  /\ shown' = [shown EXCEPT ![b] = @ \ {q}]
  /\ back' = [back EXCEPT ![b] = @ \cup {<<q, o>>}]
  /\ UNCHANGED <<held, outcomeVars, gateway, fallback, gatewayVars, stage, recency, wire, leftover, overdue,
                 questionBounds>>

\* The user answers an approval of an earlier socket: over the one of now, if there is one.
UserAnswersLate(b, q, o) ==
  /\ q \in leftover[b]
  /\ leftover' = [leftover EXCEPT ![b] = @ \ {q}]
  /\ overdue' = [overdue EXCEPT ![b] = IF stage[b] = "away" THEN @ ELSE @ \cup {<<q, o>>}]
  /\ UNCHANGED <<held, outcomeVars, gateway, fallback, gatewayVars, stage, recency, wire, shown, back,
                 questionBounds>>

QuestionsNext ==
  \/ \E q \in Question : AskQuestion(q) \/ HoldElapses(q)
  \/ \E b \in Browser : \/ Attach(b) \/ PinBrowser(b) \/ AskForThread(b) \/ LoadThreadFor(b)
                        \/ MessageArrives(b) \/ SocketCloses(b)
  \/ \E b \in Browser, q \in Question, o \in Answer :
       \/ AnswerArrives(b, q, o) \/ UserAnswers(b, q, o)
       \/ LateAnswerArrives(b, q, o) \/ UserAnswersLate(b, q, o)
  \/ AdapterHolds \/ AdapterLost \/ OrchestratorEnds \/ OrchestratorBoots

\* A timer of the process fires in the end.
QuestionsFairness == \A q \in Question : WF_questionVars(HoldElapses(q))

QuestionsSpec == QuestionsInit /\ [][QuestionsNext]_questionVars /\ QuestionsFairness

(***************************************************************************)
(* Properties.                                                             *)
(***************************************************************************)

\* The question is on its way to the browser, or the browser shows it, or the
\* answer is on its way back.
WithBrowser(q, b) ==
  \/ \E i \in DOMAIN wire[b] : wire[b][i] = Ask(q)
  \/ q \in shown[b]
  \/ \E o \in Answer : <<q, o>> \in back[b]

\* No question gets lost: one that an adapter waits on is in the queue, or with
\* the browser it was forwarded to (onPermission and its catch, SocketCloses).
WaitingQuestionIsSomewhere ==
  \A q \in Question :
    outcome[q] = "waiting" =>
      q \in queued \/ \E b \in Browser : direct[q] = b /\ WithBrowser(q, b)

\* The first answer removes the question from the other browsers: a question that a
\* browser was asked over its socket is shown only while the gateway still waits for
\* its answer, or the withdrawal is on its way (settle aborts the deliveries).  Except
\* one that a late answer was taken for: the page that sent it shows it on.
ShownQuestionIsOpen ==
  \A b \in Browser : \A q \in shown[b] :
    \/ IsOpen(q, b)
    \/ \E i \in DOMAIN wire[b] : wire[b][i] = Withdraw(q)
    \/ q \in misread

\* A page shows no question of an earlier socket, which may be answered or over by now,
\* once it has read the replay of its thread (onReplay, reset, resume).
ReplayEndsKept ==
  \A b \in Browser :
    stage[b] = "open" /\ (\A i \in DOMAIN wire[b] : wire[b][i] # Replay) => leftover[b] = {}

\* Of the answers of several browsers, the hold time and the loss of the adapter, only one
\* answers the request of a question (settle, the deliveries, and the catch of a forward).
OneAnswerReachesAdapter == \A q \in Question : resolved[q] <= 1

\* A row that the dashboard counts can be answered: it has its entry in memory,
\* also after a restart (settle, clearStale).
RowsAreAnswerable == gateway => rows = queued

\* A question that waits is in one place where it can be answered, and only there: with
\* a browser or in the queue, shown to no other page that has read its thread, counted
\* for the dashboard while it is queued, and answered once.
QuestionsAreKept ==
  /\ QuestionsTypeOK /\ WaitingQuestionIsSomewhere /\ RowsAreAnswerable
  /\ ShownQuestionIsOpen /\ ReplayEndsKept /\ OneAnswerReachesAdapter

\* With PERMISSION_FALLBACK=deny no question stays in the queue for ever, not
\* even one whose adapter was gone before the gateway queued it.
HoldEnds ==
  \A q \in Question : [](fallback = "deny" /\ q \in queued => <>(q \notin queued))

=============================================================================
