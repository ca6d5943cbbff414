------------------------------- MODULE ThreadLogs -------------------------------
(***************************************************************************)
(* The log of one thread and the copy of it that a browser builds: the     *)
(* ThreadLog of the gateway (orchestrator/src/gateway/thread-log.ts) with  *)
(* its cap, the opening of a thread from an anchor (Broadcast.open), and   *)
(* the message model of the dashboard (stores/thread/thread-store.ts and   *)
(* translate.ts), over sockets that drop at any point.                     *)
(*                                                                         *)
(* An update is its number in the history of the thread.  Its content is   *)
(* only the message it names, if any: a chunk of a message of the agent    *)
(* names it, the echo of a prompt and a tool call name none.               *)
(***************************************************************************)
EXTENDS Naturals, Sequences, FiniteSets, SequencesExt

CONSTANTS MaxHistory,    \* bound: updates of the thread
          LogCap,        \* the size limit of the log, in updates (MAX_LOG_BYTES)
          MaxGroup       \* bound: updates from the first chunk of a message to the next message

ASSUME LogBounds == /\ MaxHistory \in Nat
                    /\ LogCap \in Nat \ {0}
                    /\ MaxGroup \in Nat \ {0}

VARIABLES
  history,     \* the updates of the thread so far, and what the transcript holds
  logged,      \* ThreadLog.entries, as numbers of updates
  logCut,      \* ThreadLog.truncated
  pipe,        \* what is on the way to the browser
  link,        \* how far the handshake of the browser is
  model,       \* ThreadModel.messages of the browser
  known,       \* AcpClient.acpSessionId is the thread's
  anchor,      \* ThreadStore.resumeAnchor
  cut,         \* ThreadStore.truncated
  \* For the properties.
  early        \* the messages that began for the browser between a pin and its load

logVars == <<history, logged, logCut>>
readerVars == <<pipe, link, model, known, anchor, cut, early>>
threadLogVars == <<logVars, readerVars>>

NoMessage == 0
\* An update: the message it names, and who speaks.
Update == [names : 0..MaxHistory, role : {"user", "assistant"}]
\* What the socket carries: updates, the answer to session/new, and the notice before
\* the updates of a load.
Carried == [kind : {"update"}, n : 1..MaxHistory]
             \cup [kind : {"created"}]
             \cup [kind : {"replay"}, resumed : BOOLEAN, truncated : BOOLEAN]
\* A message of the browser; one without a name has an id that no replay repeats.
Shown == [names : 0..MaxHistory, role : {"user", "assistant"}, parts : Seq(1..MaxHistory)]

LogTypeOK ==
  /\ history \in Seq(Update)
  /\ logged \in Seq(1..MaxHistory)
  /\ logCut \in BOOLEAN
  /\ pipe \in Seq(Carried)
  /\ link \in {"down", "pinned", "named", "asked", "loaded"}
  /\ model \in Seq(Shown)
  /\ known \in BOOLEAN
  /\ anchor \in 0..MaxHistory
  /\ cut \in BOOLEAN
  /\ early \subseteq 1..MaxHistory

LogInit ==
  /\ history = <<>>
  /\ logged = <<>>
  /\ logCut = FALSE
  /\ pipe = <<>>
  /\ link = "down"
  /\ model = <<>>
  /\ known = FALSE
  /\ anchor = NoMessage
  /\ cut = FALSE
  /\ early = {}

(***************************************************************************)
(* The log.                                                                *)
(***************************************************************************)

\* evictOldest: the oldest message goes, with every entry up to the first chunk of
\* the next message.
EvictOldest(h, entries) ==
  LET kept == {i \in 2..Len(entries) :
                 h[entries[i]].names \notin {NoMessage, h[entries[1]].names}}
  IN  IF kept = {} THEN <<>>
      ELSE SubSeq(entries, CHOOSE i \in kept : \A j \in kept : i <= j, Len(entries))

\* append: once over the cap, the oldest messages go.  (One round is enough when
\* every update has the same size.)
Appended(h, entries, n) ==
  LET longer == Append(entries, n)
  IN  IF Len(longer) > LogCap /\ Len(longer) > 1 THEN EvictOldest(h, longer) ELSE longer

\* The last message of the agent, and the number of updates since it began.
LastMessage == LET S == {history[i].names : i \in DOMAIN history}
               IN  IF S = {} THEN NoMessage ELSE CHOOSE m \in S : \A k \in S : k <= m
GroupLength ==
  Cardinality({i \in DOMAIN history :
                 \A j \in i..Len(history) : history[j].names \in {NoMessage, LastMessage}})

\* Broadcast.update and the echo of beginPrompt: the update goes into the log and
\* to the browser, once it is pinned to the thread.
UpdateArrives(u) ==
  /\ Len(history) < MaxHistory
  /\ LET n == Len(history) + 1
         h == Append(history, u)
     IN  /\ history' = h
         /\ logged' = Appended(h, logged, n)
         /\ logCut' = (logCut \/ Len(logged) + 1 > Len(Appended(h, logged, n)))
         /\ pipe' = IF link # "down" THEN Append(pipe, [kind |-> "update", n |-> n]) ELSE pipe
  /\ UNCHANGED <<link, model, known, anchor, cut, early>>

\* A chunk of a new message (its name is new), a further chunk of the last one
\* (also after the echo of a prompt or a tool call), a tool call, a prompt.
NewMessageArrives ==
  UpdateArrives([names |-> LastMessage + 1, role |-> "assistant"])
MoreArrives ==
  /\ GroupLength < MaxGroup
  /\ \/ /\ LastMessage # NoMessage
        /\ UpdateArrives([names |-> LastMessage, role |-> "assistant"])
     \/ UpdateArrives([names |-> NoMessage, role |-> "assistant"])
     \/ UpdateArrives([names |-> NoMessage, role |-> "user"])

\* fillLog of an adapter that starts again: the log is filled from the transcript.
Refilled ==
  LET filled[n \in 0..Len(history)] ==
        IF n = 0 THEN <<>> ELSE Appended(history, filled[n - 1], n)
  IN  filled[Len(history)]

LogIsRefilled ==
  /\ logged' = Refilled
  /\ logCut' = (Len(Refilled) < Len(history))
  /\ UNCHANGED <<history, readerVars>>

(***************************************************************************)
(* The socket and the loads.                                               *)
(***************************************************************************)

Updates(ns) == [i \in DOMAIN ns |-> [kind |-> "update", n |-> ns[i]]]
Notice(resumed, truncated) == [kind |-> "replay", resumed |-> resumed, truncated |-> truncated]

\* The first entry of the log that belongs to the message, or 0.
EntryOf(m) ==
  LET S == {i \in DOMAIN logged : m # NoMessage /\ history[logged[i]].names = m}
  IN  IF S = {} THEN 0 ELSE CHOOSE i \in S : \A j \in S : i <= j

\* lastNamedMessage: where a replay of the browser can resume.
LastNamed ==
  LET S == {i \in DOMAIN model : model[i].names # NoMessage}
  IN  IF S = {} THEN NoMessage ELSE model[CHOOSE i \in S : \A j \in S : j <= i].names

\* A mutant: the tail begins after the anchor.
LoadTail_After ==
  LET at == EntryOf(anchor)
  IN  <<Notice(at > 0, logCut)>> \o Updates(SubSeq(logged, at + 1, Len(logged)))

\* ThreadLog.opening: the anchor message and everything after it, or the whole log.
LoadTail ==
  LET at == EntryOf(anchor)
  IN  <<Notice(at > 0, logCut)>>
        \o Updates(IF at > 0 THEN SubSeq(logged, at, Len(logged)) ELSE logged)

\* attachDownstream: the socket opens, and the handle is pinned to the thread.
SocketOpens ==
  /\ link = "down"
  /\ link' = "pinned"
  /\ UNCHANGED <<logVars, pipe, model, known, anchor, cut, early>>

\* session/new is answered.
SessionIsNamed ==
  /\ link = "pinned"
  /\ link' = "named"
  /\ pipe' = Append(pipe, [kind |-> "created"])
  /\ UNCHANGED <<logVars, model, known, anchor, cut, early>>

\* session/load reaches the gateway, which sends the thread from the anchor.
LoadIsServed ==
  /\ link = "asked"
  /\ link' = "loaded"
  /\ pipe' = pipe \o LoadTail
  /\ UNCHANGED <<logVars, model, known, anchor, cut, early>>

\* loadFullHistory: the adapter replays the thread to this browser (the relay).
FullHistoryLoads ==
  /\ link = "loaded"
  /\ cut
  /\ pipe = <<>>
  /\ pipe' = <<Notice(FALSE, FALSE)>> \o Updates([i \in DOMAIN history |-> i])
  /\ UNCHANGED <<logVars, link, model, known, anchor, cut, early>>

\* The socket drops, with what it carries.
SocketDrops ==
  /\ link # "down"
  /\ link' = "down"
  /\ pipe' = <<>>
  /\ UNCHANGED <<logVars, model, known, anchor, cut, early>>

(***************************************************************************)
(* The message model of the browser.                                       *)
(***************************************************************************)

\* messageFor: the last message when it is the one named, or when the update names
\* none and the role is the same; a new message otherwise.
Applied(msgs, n) ==
  LET u == history[n]
      last == msgs[Len(msgs)]
      fits == /\ msgs # <<>>
              /\ IF u.names # NoMessage THEN last.names = u.names ELSE last.role = u.role
  IN  IF fits THEN [msgs EXCEPT ![Len(msgs)].parts = Append(@, n)]
              ELSE Append(msgs, [names |-> u.names, role |-> u.role, parts |-> <<n>>])

\* truncateFrom: the message goes, with every message after it.
TruncatedFrom(msgs, m) ==
  LET S == {i \in DOMAIN msgs : msgs[i].names = m}
  IN  IF m = NoMessage \/ S = {} THEN msgs
      ELSE SubSeq(msgs, 1, (CHOOSE i \in S : \A j \in S : i <= j) - 1)

\* handshake: the browser asks for the thread from its last named message, when it has
\* had this thread before.  Without one it discards its model at once.
ReadsCreated ==
  /\ link' = "asked"
  /\ known' = TRUE
  /\ anchor' = IF known THEN LastNamed ELSE NoMessage
  /\ IF anchor' = NoMessage
       THEN model' = <<>> /\ cut' = FALSE /\ early' = {}
       ELSE UNCHANGED <<model, cut, early>>

\* The browser has read the begin of the thread that it loaded.
HasLoaded == link = "loaded" /\ \A i \in DOMAIN pipe : pipe[i].kind # "replay"

\* onUpdate, whatever the handshake has come to.
ReadsUpdate(n) ==
  /\ model' = Applied(model, n)
  /\ early' = IF HasLoaded \/ \E i \in DOMAIN model : model[i].names = history[n].names
                THEN early
                ELSE early \cup ({history[n].names} \ {NoMessage})
  /\ UNCHANGED <<link, known, anchor, cut>>

\* onReplay: a resumed replay cuts the model back to the anchor.  Only a replay of
\* the whole thread says whether old messages are missing.
ReadsReplay(m) ==
  LET resumes == m.resumed /\ TruncatedFrom(model, anchor) # model
  IN  /\ model' = IF resumes THEN TruncatedFrom(model, anchor) ELSE <<>>
      /\ cut' = IF m.resumed THEN cut ELSE m.truncated
      /\ early' = IF resumes THEN {e \in early : e = anchor \/ \E i \in DOMAIN model' : model'[i].names = e}
                            ELSE {}
      /\ UNCHANGED <<link, known, anchor>>

\* The browser reads the next message (AcpClient.receive).
ReaderReads ==
  /\ pipe # <<>>
  /\ pipe' = Tail(pipe)
  /\ LET m == Head(pipe) IN
     \/ m.kind = "update" /\ ReadsUpdate(m.n)
     \/ m.kind = "created" /\ ReadsCreated
     \/ m.kind = "replay" /\ ReadsReplay(m)
  /\ UNCHANGED logVars

LogNext ==
  \/ NewMessageArrives \/ MoreArrives \/ LogIsRefilled
  \/ SocketOpens \/ SessionIsNamed \/ LoadIsServed \/ FullHistoryLoads
  \/ SocketDrops \/ ReaderReads

LogSpec == LogInit /\ [][LogNext]_threadLogVars

(***************************************************************************)
(* Properties.                                                             *)
(***************************************************************************)

\* The log is the end of the history, it begins with a message and not within
\* one, and it says so when the begin of the history is missing (evictOldest).
LogIsSuffix ==
  /\ \A i \in DOMAIN logged : logged[i] = Len(history) - Len(logged) + i
  /\ logCut <=> Len(logged) < Len(history)
  /\ logged # <<>> /\ logged[1] > 1 =>
       \A j \in 1..(logged[1] - 1) : history[j].names # history[logged[1]].names

\* However often the socket drops and wherever the replay resumes, a browser that has
\* loaded the thread shows each update once and in order, without a gap up to the last
\* one; one that does not offer the full history shows the thread from its begin.
TranscriptHasNoGap ==
  HasLoaded =>
    /\ \A i \in DOMAIN model :
         /\ model[i].parts # <<>>
         /\ \A j \in DOMAIN model[i].parts : model[i].parts[j] = model[i].parts[1] + j - 1
         /\ i > 1 => model[i].parts[1] = Last(model[i - 1].parts) + 1
    /\ pipe = <<>> /\ history # <<>> => model # <<>> /\ Last(Last(model).parts) = Len(history)
    /\ ~cut /\ model # <<>> => model[1].parts[1] = 1

\* Both sides of the log: its entries are the end of the history, and a browser that
\* reads it misses nothing; except that one for which a message began between its pin
\* and its load resumes from that message, and can lack what it missed before.
ThreadIsTold == LogTypeOK /\ LogIsSuffix /\ (early = {} => TranscriptHasNoGap)

=============================================================================
