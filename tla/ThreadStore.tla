------------------------------ MODULE ThreadStore ------------------------------
(***************************************************************************)
(* What the page of a thread shows: the model that the dashboard folds the *)
(* updates into (stores/thread/translate.ts), the cards with their         *)
(* questions and the views that are drawn of them (thread-store.ts and     *)
(* convert.ts), over the replays of a reconnect, of a refetch and of the   *)
(* full history.  The steps of the handshake and the cap of the log are in *)
(* ThreadLogs, the queue of the questions is in Questions.                 *)
(*                                                                         *)
(* The approvals of a connection that was lost stay (stale) until the page *)
(* reads the replay of the next one.  Answered then, or meanwhile by the   *)
(* user, they go over the connection of that time, where the gateway drops *)
(* them or takes them for answers to others (mistaken, see Questions).     *)
(***************************************************************************)
EXTENDS Naturals, Sequences, SequencesExt, FiniteSets

CONSTANTS Tool,          \* the calls of tools
          Inquiry,       \* the questions
          MaxThread,     \* bound: updates of the thread
          MaxReplays     \* bound: reconnects, refetches and loads of the full history

NoTool == "no call"

ASSUME StoreBounds ==
  /\ MaxThread \in Nat /\ MaxReplays \in Nat
  /\ NoTool \notin Tool /\ IsFiniteSet(Inquiry)

VARIABLES
  \* The gateway.
  sent,         \* the updates of the thread
  asked,        \* the questions that it waits for, each about a call
  waiting,      \* those of them that it puts to every connection that loads the thread
  toPage,       \* what is on the way to the page
  \* The page.
  up,           \* its connection has loaded the thread
  messages, cards, views,    \* ThreadModel.messages, .tools, and ThreadStore.views
  approvals,    \* ThreadStore.approvals: the open questions
  stale,        \* those of them that came over an earlier connection
  resumeAnchor, replaying,
  loading,      \* the load that the page waits for besides that of the handshake
  replays,
  \* For the properties.
  about,        \* the call that each question is about
  over,         \* the questions that were asked and are over
  keptViews,    \* views that were drawn before a resume and not since
  headless,     \* a refetch has emptied the model, and its replay was lost
  mistaken,      \* questions that an answer to a stale one was taken for
  refused       \* questions that the page itself declined on a connection that lives

askerVars == <<sent, asked, waiting, over, about>>
modelVars == <<messages, cards, views, keptViews>>
pageVars == <<modelVars, approvals, stale, resumeAnchor, replaying, refused>>
storeVars == <<askerVars, toPage, up, pageVars, loading, headless, mistaken, replays>>

NoCard == [at |-> 0]
ThreadUpdate == [kind : {"text", "call", "result"}, names : Nat, tool : Tool \cup {NoTool}]
Card == [at : Nat \ {0}, titled : BOOLEAN, output : Nat,
         asks : SUBSET Inquiry, state : {"none", "open", "answered", "cancelled"}]

StoreTypeOK ==
  /\ sent \in Seq(ThreadUpdate) /\ waiting \subseteq asked /\ asked \subseteq Inquiry
  /\ cards \in [Tool -> Card \cup {NoCard}]
  /\ approvals \in SUBSET Inquiry /\ stale \subseteq approvals /\ mistaken \subseteq over
  /\ up \in BOOLEAN /\ replaying \in BOOLEAN
  /\ loading \in {"none", "refetch", "full"}

StoreInit ==
  /\ sent = <<>> /\ asked = {} /\ waiting = {} /\ over = {} /\ toPage = <<>> /\ up = FALSE
  /\ messages = <<>> /\ cards = [t \in Tool |-> NoCard] /\ views = <<>> /\ keptViews = {}
  /\ approvals = {} /\ stale = {} /\ mistaken = {} /\ resumeAnchor = 0 /\ replaying = FALSE
  /\ loading = "none" /\ replays = 0 /\ refused = {} /\ headless = FALSE
  /\ about \in [Inquiry -> Tool]

(***************************************************************************)
(* The model (translate.ts).                                               *)
(***************************************************************************)

\* messageFor: the last message, when the update names it or names none.
Fits(ms, names) == ms # <<>> /\ (names = 0 \/ Last(ms).names = names)
MessageFor(ms, names) == IF Fits(ms, names) THEN ms ELSE Append(ms, [names |-> names, parts |-> <<>>])

\* appendText: text grows the last part when that is text.
WithText(parts, n) ==
  IF parts # <<>> /\ Last(parts).tool = NoTool
    THEN [parts EXCEPT ![Len(parts)].says = Append(@, n)]
    ELSE Append(parts, [tool |-> NoTool, says |-> <<n>>])

\* A mutant: an update before its call is announced makes a card that the call does not find.
Opened_Twice(s, u, n) ==
  LET ms == MessageFor(s.messages, 0)
      card == [at |-> Len(ms), titled |-> u.kind = "call", output |-> IF u.kind = "result" THEN n ELSE 0,
               asks |-> {}, state |-> "none"]
  IN  IF s.cards[u.tool] # NoCard /\ u.kind # "call"
        THEN [s EXCEPT !.cards[u.tool].output = IF u.kind = "result" THEN n ELSE @]
        ELSE [messages |-> [ms EXCEPT ![Len(ms)].parts = Append(@, [tool |-> u.tool, says |-> <<>>])],
              cards |-> [s.cards EXCEPT ![u.tool] = card]]

\* openTool and mergeTool: the call has one card, whichever update is the first.
Opened(s, u, n) ==
  LET ms == MessageFor(s.messages, 0)
      card == [at |-> Len(ms), titled |-> u.kind = "call", output |-> IF u.kind = "result" THEN n ELSE 0,
               asks |-> {}, state |-> "none"]
  IN  IF s.cards[u.tool] # NoCard
        THEN [s EXCEPT !.cards[u.tool].titled = @ \/ u.kind = "call",
                       !.cards[u.tool].output = IF u.kind = "result" THEN n ELSE @]
        ELSE [messages |-> [ms EXCEPT ![Len(ms)].parts = Append(@, [tool |-> u.tool, says |-> <<>>])],
              cards |-> [s.cards EXCEPT ![u.tool] = card]]

\* applyUpdate.
ApplyUpdate(s, n) ==
  LET u == sent[n]
      ms == MessageFor(s.messages, u.names)
  IN  IF u.kind = "text"
        THEN [s EXCEPT !.messages = [ms EXCEPT ![Len(ms)].parts = WithText(@, n)]]
        ELSE Opened(s, u, n)

\* truncateFrom: the index loses the calls of the dropped messages.
TruncateFrom(k) ==
  /\ messages' = SubSeq(messages, 1, k - 1)
  /\ views' = IF k <= Len(views) THEN SubSeq(views, 1, k - 1) ELSE views
  /\ keptViews' = (DOMAIN views) \cap 1..(k - 1)
  /\ cards' = [t \in Tool |-> IF cards[t].at >= k \/ cards[t] = NoCard THEN NoCard
                              ELSE [cards[t] EXCEPT !.asks = {}, !.state = "none"]]

EmptyModel ==
  messages' = <<>> /\ cards' = [t \in Tool |-> NoCard] /\ views' = <<>> /\ keptViews' = {}

(***************************************************************************)
(* The views.                                                              *)
(***************************************************************************)

\* convertMessage and toolPart: a call that awaits an answer gets no result.
AwaitsApproval(card) == card.state = "open"
Converted(part, cs) ==
  IF part.tool = NoTool THEN part
  ELSE LET c == cs[part.tool]
       IN  [tool |-> part.tool, titled |-> c.titled, result |-> IF AwaitsApproval(c) THEN 0 ELSE c.output,
            asks |-> IF AwaitsApproval(c) THEN c.asks ELSE {}]
View(message, cs) == [i \in DOMAIN message.parts |-> Converted(message.parts[i], cs)]

\* messageViews: the touched message is drawn anew, and those that have no view.
MessageViews(touched) ==
  /\ views' = [i \in DOMAIN messages' |->
                 IF i \in DOMAIN views /\ i # touched THEN views[i] ELSE View(messages'[i], cards')]
  /\ keptViews' = keptViews \ {touched}

\* refreshMessages: nothing is drawn while a replay is read.
RefreshMessages(touched) ==
  IF replaying THEN UNCHANGED <<views, keptViews>> ELSE MessageViews(touched)

\* flushReplay, with the model as it is.
FlushReplay ==
  /\ replaying' = FALSE
  /\ IF replaying THEN MessageViews(0) ELSE UNCHANGED <<views, keptViews>>

(***************************************************************************)
(* The gateway.                                                            *)
(***************************************************************************)

Sends(ms) == toPage' = IF up THEN toPage \o ms ELSE toPage
Names == {0} \cup {sent[i].names : i \in DOMAIN sent}
LastName == CHOOSE m \in Names : \A k \in Names : k <= m

\* An update of the agent: a chunk of the last message or of a new one, the announcement
\* of a call, or a result.
AgentSends(u) ==
  /\ Len(sent) < MaxThread
  /\ sent' = Append(sent, u)
  /\ Sends(<<[kind |-> "update", n |-> Len(sent) + 1]>>)
  /\ UNCHANGED <<asked, waiting, over, about, up, pageVars, loading, headless, mistaken, replays>>

AgentSpeaks ==
  \E m \in {LastName, LastName + 1} \ {0} : AgentSends([kind |-> "text", names |-> m, tool |-> NoTool])
CallGoesOn ==
  \E t \in Tool, k \in {"call", "result"} : AgentSends([kind |-> k, names |-> 0, tool |-> t])

\* onPermission: the page is asked, and without one the question is queued.  A call asks
\* one question at a time, and none after one that an answer to another has ended.
AgentAsks(q) ==
  /\ q \notin asked \cup over /\ \A p \in asked \cup mistaken : about[p] # about[q]
  /\ sent # <<>>
  /\ asked' = asked \cup {q}
  /\ waiting' = IF up THEN waiting ELSE waiting \cup {q}
  /\ Sends(<<[kind |-> "ask", q |-> q]>>)
  /\ UNCHANGED <<sent, over, about, up, pageVars, loading, headless, mistaken, replays>>

\* The agent has its answer.
QuestionsEnd(qs) == asked' = asked \ qs /\ waiting' = waiting \ qs /\ over' = over \cup qs

\* The other deliveries of a queued question are aborted (PendingStore.settle).
Withdrawn(qs) == SetToSeq({[kind |-> "withdraw", q |-> q] : q \in qs \cap waiting})

\* Another browser answers first, or the hold time is over.
QuestionIsWithdrawn(q) ==
  /\ q \in waiting
  /\ QuestionsEnd({q})
  /\ Sends(<<[kind |-> "withdraw", q |-> q]>>)
  /\ UNCHANGED <<sent, about, up, pageVars, loading, headless, mistaken, replays>>

\* The begin of a replay, its updates, the questions that wait, and then the answer
\* (BroadcastHub.open and UpstreamBox.flushPendingTo, before the handler returns).
StoreReplay(resumed, from, load) ==
  <<[kind |-> "replay", resumed |-> resumed, load |-> load]>>
  \o [i \in 1..(Len(sent) - from + 1) |-> [kind |-> "update", n |-> from + i - 1]]
  \o SetToSeq({[kind |-> "ask", q |-> q] : q \in waiting})
  \o <<[kind |-> "loaded", load |-> load]>>

(***************************************************************************)
(* The page.                                                               *)
(***************************************************************************)

\* lastNamedMessage: the last message with an id of the adapter.
LastNamedMessage ==
  LET S == {i \in DOMAIN messages : messages[i].names # 0}
  IN  IF S = {} THEN 0 ELSE messages[CHOOSE i \in S : \A j \in S : j <= i].names
FirstEntryOf(m) == CHOOSE i \in DOMAIN sent : sent[i].names = m /\ \A j \in 1..(i - 1) : sent[j].names # m

\* reset, before a replay of the whole thread.
Reset == EmptyModel /\ replaying' = TRUE

\* The page connects and loads the thread from its anchor (handshake).
PageConnects ==
  /\ ~up /\ replays < MaxReplays
  /\ up' = TRUE /\ replays' = replays + 1
  /\ resumeAnchor' = LastNamedMessage
  /\ toPage' = IF LastNamedMessage = 0 THEN StoreReplay(FALSE, 1, "open")
               ELSE StoreReplay(TRUE, FirstEntryOf(LastNamedMessage), "open")
  /\ IF LastNamedMessage = 0 THEN Reset /\ approvals' = {} /\ stale' = {}
     ELSE UNCHANGED <<modelVars, approvals, stale, replaying>>
  /\ UNCHANGED <<askerVars, refused, loading, headless, mistaken>>

\* restoreApprovals: a question whose call is gone is given up.
RestoreApprovals ==
  LET back == {q \in approvals : cards[about[q]] # NoCard}
  IN  /\ approvals' = back
      /\ cards' = [t \in Tool |-> IF \E q \in back : about[q] = t
                                  THEN [cards[t] EXCEPT !.asks = {q \in back : about[q] = t}, !.state = "open"]
                                  ELSE cards[t]]

\* The notice of a whole replay is still on its way.
ReplayIsAhead == \E i \in DOMAIN toPage : toPage[i].kind = "replay" /\ ~toPage[i].resumed

\* The connection is lost with what it carries.  A refetch, or a load of the full
\* history, ends with what has come of it.  The approvals stay.
ConnectionIsLost ==
  /\ up
  /\ up' = FALSE /\ toPage' = <<>> /\ loading' = "none"
  /\ headless' = (headless \/ (loading = "refetch" /\ ReplayIsAhead))
  /\ waiting' = asked
  /\ IF loading = "refetch" THEN RestoreApprovals ELSE UNCHANGED <<approvals, cards>>
  /\ stale' = approvals'
  /\ UNCHANGED messages
  /\ IF loading # "none" THEN FlushReplay ELSE UNCHANGED <<views, keptViews, replaying>>
  /\ UNCHANGED <<sent, asked, over, about, resumeAnchor, refused, mistaken, replays>>

\* refetch: the open questions are kept, and what comes before the replay is applied to
\* the empty model.
Refetches ==
  /\ up /\ replays < MaxReplays /\ loading = "none"
  /\ replays' = replays + 1 /\ loading' = "refetch"
  /\ Reset
  /\ toPage' = toPage \o StoreReplay(FALSE, 1, "refetch")
  /\ UNCHANGED <<askerVars, up, approvals, stale, resumeAnchor, refused, headless, mistaken>>

\* Without a connection the request fails at once, and no call is left for a question.
RefetchFails ==
  /\ ~up /\ 0 < replays /\ replays < MaxReplays
  /\ replays' = replays + 1
  /\ EmptyModel /\ replaying' = FALSE /\ approvals' = {} /\ stale' = {}
  /\ UNCHANGED <<askerVars, toPage, up, resumeAnchor, refused, loading, headless, mistaken>>

\* loadFullHistory, which the gateway refuses to a thread that works.
FullHistoryIsLoaded ==
  /\ up /\ replays < MaxReplays /\ ~replaying /\ loading = "none" /\ asked = {}
  /\ replays' = replays + 1 /\ loading' = "full"
  /\ toPage' = toPage \o StoreReplay(FALSE, 1, "full")
  /\ UNCHANGED <<askerVars, up, pageVars, headless, mistaken>>

\* The questions that onReplay answers as cancelled over the connection they came over:
\* none of them is open there when the handshake loads the thread.
Declined(m) == IF m.kind = "replay" /\ m.load # "open" THEN approvals \cap asked ELSE {}

\* Answers to so many stale approvals reach the gateway: the numbers of some of them are
\* those of questions on this connection.
TakenFor(qs) == {taken \in SUBSET asked : Cardinality(taken) <= Cardinality(qs)}

\* onReplay: failOpenApprovals answers what is open as cancelled.
ReadsReplayNotice(m) ==
  LET S == {i \in DOMAIN messages : messages[i].names = resumeAnchor}
  IN  /\ IF m.resumed /\ S # {} THEN TruncateFrom(CHOOSE i \in S : \A j \in S : i <= j) ELSE EmptyModel
      /\ replaying' = TRUE
      /\ approvals' = {} /\ stale' = {}
      /\ refused' = refused \cup Declined(m)
      /\ UNCHANGED resumeAnchor

\* onUpdate.
ReadsPageUpdate(m) ==
  LET s == ApplyUpdate([messages |-> messages, cards |-> cards], m.n)
      u == sent[m.n]
  IN  /\ messages' = s.messages /\ cards' = s.cards
      /\ RefreshMessages(IF u.kind = "text" THEN Len(s.messages) ELSE s.cards[u.tool].at)
      /\ UNCHANGED <<approvals, stale, resumeAnchor, replaying, refused>>

\* onPermission: a call that is not announced gets a card for its question.
ReadsQuestion(m) ==
  LET t == about[m.q]
      s == IF cards[t] # NoCard THEN [messages |-> messages, cards |-> cards]
           ELSE Opened([messages |-> messages, cards |-> cards], [kind |-> "ask", tool |-> t], 0)
  IN  /\ messages' = s.messages
      /\ cards' = [s.cards EXCEPT ![t].asks = {m.q}, ![t].state = "open"]
      /\ approvals' = approvals \cup {m.q}
      /\ RefreshMessages(s.cards[t].at)
      /\ UNCHANGED <<stale, resumeAnchor, replaying, refused>>

\* respondToApproval: the question is over for the page, by the user or not.
Responds(q, state) ==
  /\ q \in approvals
  /\ approvals' = approvals \ {q} /\ stale' = stale \ {q}
  /\ cards' = IF cards[about[q]] # NoCard /\ cards[about[q]].state # "none"
                THEN [cards EXCEPT ![about[q]].state = state] ELSE cards
  /\ UNCHANGED messages
  /\ RefreshMessages(cards[about[q]].at)
  /\ UNCHANGED <<resumeAnchor, replaying, refused>>

ReadsWithdrawal(m) ==
  IF m.q \in approvals \ stale THEN Responds(m.q, "cancelled") ELSE UNCHANGED pageVars

\* The answer to session/load ends the replay (onReady, refetch, loadFullHistory).
ReadsLoaded(m) ==
  /\ IF m.load = "refetch" THEN RestoreApprovals ELSE UNCHANGED <<approvals, cards>>
  /\ UNCHANGED <<messages, stale, resumeAnchor, refused>>
  /\ FlushReplay

PageReads ==
  /\ toPage # <<>>
  /\ LET m == Head(toPage) IN
       /\ \E late \in TakenFor(IF m.kind = "replay" THEN stale ELSE {}) :
            QuestionsEnd(Declined(m) \cup late) /\ mistaken' = mistaken \cup late
       /\ toPage' = Tail(toPage) \o Withdrawn(Declined(m))
       /\ headless' = (headless /\ ~(m.kind = "replay" /\ ~m.resumed))
       /\ loading' = IF m.kind = "loaded" /\ m.load = loading THEN "none" ELSE loading
       /\ \/ m.kind = "replay" /\ ReadsReplayNotice(m)
          \/ m.kind = "update" /\ ReadsPageUpdate(m)
          \/ m.kind = "ask" /\ ReadsQuestion(m)
          \/ m.kind = "withdraw" /\ ReadsWithdrawal(m)
          \/ m.kind = "loaded" /\ ReadsLoaded(m)
  /\ UNCHANGED <<sent, about, up, replays>>

\* The user answers, and the answer arrives: for the question, or over another connection
\* than the question came.
UserAnswersCard(q) ==
  /\ up /\ q \notin stale /\ Responds(q, "answered") /\ QuestionsEnd({q})
  /\ toPage' = toPage \o Withdrawn({q})
  /\ UNCHANGED <<sent, about, up, loading, headless, mistaken, replays>>
UserAnswersStaleCard(q) ==
  /\ q \in stale /\ Responds(q, "answered")
  /\ \E late \in TakenFor(IF up THEN {q} ELSE {}) : QuestionsEnd(late) /\ mistaken' = mistaken \cup late
  /\ UNCHANGED <<sent, about, toPage, up, loading, headless, replays>>

StoreNext ==
  \/ AgentSpeaks \/ CallGoesOn
  \/ \E q \in Inquiry : \/ AgentAsks(q) \/ QuestionIsWithdrawn(q)
                       \/ UserAnswersCard(q) \/ UserAnswersStaleCard(q)
  \/ PageConnects \/ ConnectionIsLost \/ Refetches \/ RefetchFails \/ FullHistoryIsLoaded \/ PageReads

StoreSpec == StoreInit /\ [][StoreNext]_storeVars

(***************************************************************************)
(* Properties.                                                             *)
(***************************************************************************)

\* The page has read all that was sent.
PageSettled == up /\ toPage = <<>>

\* The places of the texts in the model, in their order, and the places of a card.
Spots == UNION {UNION {{<<i, j, k>> : k \in DOMAIN messages[i].parts[j].says} :
                         j \in DOMAIN messages[i].parts} : i \in DOMAIN messages}
TextAt(s) == messages[s[1]].parts[s[2]].says[s[3]]
Precedes(s, t) ==
  \/ s[1] < t[1]
  \/ s[1] = t[1] /\ (s[2] < t[2] \/ (s[2] = t[2] /\ s[3] < t[3]))
CardsOf(t) == UNION {{<<i, j>> : j \in {j \in DOMAIN messages[i].parts : messages[i].parts[j].tool = t}} :
                       i \in DOMAIN messages}
LastResult(t) ==
  LET S == {n \in DOMAIN sent : sent[n].kind = "result" /\ sent[n].tool = t}
  IN  CHOOSE n \in S \cup {0} : \A k \in S : k <= n

\* Whatever was replayed from where, the page ends up with every text once and in order,
\* and with one card for each call, which has its title and its last result.  Not so when
\* a refetch has lost its connection before its replay began: the page goes on from the
\* updates that came in between, until it gets a whole replay.
ModelIsThread ==
  PageSettled /\ ~headless =>
    /\ {TextAt(s) : s \in Spots} = {n \in DOMAIN sent : sent[n].kind = "text"}
    /\ \A s, t \in Spots : Precedes(s, t) => TextAt(s) < TextAt(t)
    /\ \A t \in Tool :
         (\E n \in DOMAIN sent : sent[n].tool = t) =>
            /\ Cardinality(CardsOf(t)) = 1
            /\ cards[t].output = LastResult(t)
            /\ cards[t].titled <=> \E n \in DOMAIN sent : sent[n].tool = t /\ sent[n].kind = "call"

\* A question that the gateway waits for has its card, open and with no result, and a
\* card asks nothing else, but for a question that the page has answered in error.
CardsAsk ==
  PageSettled =>
    /\ asked \subseteq approvals /\ approvals \subseteq asked \cup mistaken
    /\ \A t \in Tool : cards[t] # NoCard /\ cards[t].state = "open" <=>
                         \E q \in approvals : about[q] = t /\ cards[t].asks = {q}

\* What is drawn is the model.
DrawnIsModel ==
  PageSettled => \A i \in DOMAIN messages : views[i] = View(messages[i], cards)

\* The same, but for the messages before the point of a resume.
DrawnIsModelSinceResume ==
  PageSettled => ~replaying /\ \A i \in DOMAIN messages : i \in keptViews \/ views[i] = View(messages[i], cards)

PageIsTrue == StoreTypeOK /\ ModelIsThread /\ CardsAsk /\ DrawnIsModelSinceResume

\* The page declines no question by itself on a connection that lives (refetch keeps
\* them).
PageDeclinesNothing == refused = {}
=============================================================================
