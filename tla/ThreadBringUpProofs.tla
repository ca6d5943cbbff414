-------------------------- MODULE ThreadBringUpProofs --------------------------
(***************************************************************************)
(* Proofs about the bring-up of threads (ThreadBringUp), for any number of *)
(* threads, conversations, faults, refusals, stops and spawn attempts:     *)
(*                                                                         *)
(*   ThreadsAreAlwaysServed: live conversations are loaded and have a      *)
(*   whole log, a log is filled by one load, a browser of a started        *)
(*   connection is served, and a stop leaves no adapter behind.            *)
(*                                                                         *)
(*   FaultsAlwaysKeepRows: a transient fault never discards a conversation *)
(*   that has a transcript.                                                *)
(*                                                                         *)
(* The inductive invariant BringUpInv follows the code: what a flow awaits *)
(* tells how far the connection is (FlowsFitTheConnection), a conversation *)
(* has one load and the log tells it (LoadsAreAlone), a load is about the  *)
(* row of its thread and a fresh conversation is in no row yet             *)
(* (RowsAreTheirs), and while the start walks over the watched             *)
(* conversations each of them is live, ahead, or the one in hand           *)
(* (WatchedIsCovered).                                                     *)
(***************************************************************************)
EXTENDS ThreadBringUp, FiniteSetTheorems, TLAPS

\* The calls that only a connection answers.
Calls == {"load", "restore", "mint", "settings"}

\* The start has attempts left until it settles (adapter.ts, the loop of start).
AttemptIsLeft == work[Start] \notin {"returns", "throws"} => attempt < Attempts

\* What a flow awaits tells how far the connection is.
FlowsFitTheConnection ==
  /\ \A t \in Thread : work[t] \notin {"container", "backoff", "spawn", "handshake"}
  /\ \A f \in Flow : work[f] \in Calls => conn = "up" /\ process
  /\ work[Start] = "handshake" => conn = "handshake" /\ process
  /\ work[Start] \in {"container", "spawn", "backoff"} => conn = "down"
  /\ conn = "handshake" => /\ work[Start] \in {"handshake", "again"}
                           /\ \A t \in Thread : work[t] \in {"off", "wait"}
  /\ conn # "up" => live = {}
  /\ conn = "down" => ~process

\* A conversation has at most one loader, a sharer shares a load that runs, and the log
\* of a conversation is being filled exactly while it is loaded.
LoadsAreAlone ==
  /\ \A c \in Conversation :
       log[c] = "filling" <=> \E f \in Flow : work[f] = "load" /\ conv[f] = c
  /\ \A f, g \in Flow : /\ work[f] \in {"load", "restore"}
                        /\ work[g] \in {"load", "restore"}
                        /\ conv[f] = conv[g]
                        => f = g
  /\ \A f \in Flow : work[f] = "share" => Loading(conv[f])
  /\ \A f \in Flow : work[f] = "load" => conv[f] \notin live
  /\ \A f \in Flow :
       work[f] \in {"load", "share", "restore", "settings", "held", "minted"} => conv[f] # None

\* A load is about the row of its thread; a flow that mints has no row to lose; a
\* conversation that was minted is in no row and with no other flow; no two threads have
\* one conversation.
RowsAreTheirs ==
  /\ \A t \in Thread : row[t] <= minted
  /\ \A f \in Flow : conv[f] <= minted
  /\ \A f \in Flow : work[f] \in {"load", "share"} /\ conv[f] \notin live
                     => row[ThreadOf(f)] = conv[f]
  /\ \A f \in Flow : conn = "up" /\ work[f] \in {"gone", "mint", "settings", "minted"}
                     => row[ThreadOf(f)] \in live \cup {None}
  /\ \A f \in Flow : work[f] \in {"settings", "minted"} => \A t \in Thread : row[t] # conv[f]
  /\ \A f, g \in Flow : /\ work[f] \in {"settings", "minted"}
                        /\ work[g] \in {"settings", "minted"}
                        /\ conv[f] = conv[g]
                        => f = g
  /\ \A t, u \in Thread : row[t] = row[u] /\ row[t] # None => t = u
  /\ work[Start] \in {"load", "share", "mint", "settings", "gone", "minted"} => aim \in Thread
  /\ \A f \in Flow : conn = "up" /\ work[f] \in {"restore", "settings", "held", "minted"}
                     => conv[f] \in live

\* A stop that the start has not seen yet is still ahead of it.
StopIsSeen ==
  /\ /\ stopping
     /\ refusals = 0
     /\ work[Start] \in {"off", "container", "returns", "throws", "backoff"}
     => conn = "down"
  /\ \A f \in Flow : work[f] = "refused" => refusals > 0

\* While the start walks over the watched conversations, each of them is live, still
\* ahead, or the one in hand; when it is through, each is live.
WatchedIsCovered ==
  /\ conn = "up" /\ refusals = 0 /\ work[Start] \in {"off", "returns", "throws"}
     => watched \subseteq live
  /\ /\ conn = "up" /\ refusals = 0 /\ leg = "watched"
     /\ work[Start] \in {"load", "share", "restore", "held", "gone", "broken"}
     => watched \subseteq live \cup todo \cup {conv[Start]}
  /\ conn = "up" /\ refusals = 0 /\ work[Start] = "next"
     => watched \subseteq live \cup todo
  /\ work[Start] \in {"mint", "settings"} => leg = "latest"
  /\ work[Start] = "next" => leg = "watched"

\* The inductive invariant.
BringUpInv ==
  /\ TypeOK
  /\ AttemptIsLeft
  /\ FlowsFitTheConnection
  /\ LoadsAreAlone
  /\ LiveIsHeld
  /\ RowsAreTheirs
  /\ StopIsSeen
  /\ WatchedIsCovered

\* A flow whose connection closes is woken: afterwards it awaits none of its answers.
LEMMA RejectedGoesOn ==
  ASSUME TypeOK, NEW f \in Flow
  PROVE  /\ Rejected(f) \in {"off"} \cup Awaits \cup Micro
         /\ Rejected(f) \notin Calls \cup {"handshake", "share"}
         /\ Rejected(f) # work[f] =>
              \/ work[f] = "handshake" /\ Rejected(f) = "again"
              \/ work[f] \in {"load", "mint"} /\ Rejected(f) = "broken"
              \/ work[f] = "restore" /\ Rejected(f) = "held"
              \/ work[f] = "settings" /\ Rejected(f) = "minted"
              \/ work[f] = "share" /\ Rejected(f) = "broken"
              \/ /\ work[f] = "share" /\ Rejected(f) = "held"
                 /\ \E g \in Flow : work[g] = "restore" /\ conv[g] = conv[f]
<1>1. work[f] \in {"off"} \cup Awaits \cup Micro
  BY DEF TypeOK
<1> QED  BY <1>1 DEF Rejected, Calls, Awaits, Micro

\* What a close leaves: no call, no log being filled, no process.
LEMMA CloseWakes ==
  ASSUME TypeOK, NEW own \in Flow \cup {None}, NEW phase \in {"off"} \cup Micro \cup {"backoff"},
         Close(own, phase)
  PROVE  /\ work' \in [Flow -> {"off"} \cup Awaits \cup Micro]
         /\ log' \in [Conversation -> {"none", "filling", "open"}]
         /\ process' = FALSE /\ loaded' = {}
         /\ \A c \in Conversation : log'[c] # "filling" /\ (log[c] = "open" => log'[c] = "open")
         /\ \A f \in Flow : work'[f] \notin Calls \cup {"handshake", "share"}
         /\ own \in Flow => work'[own] = phase
         /\ \A f \in Flow : f # own => work'[f] = Rejected(f)
<1>1. \A f \in Flow : f # own => work'[f] = Rejected(f)
  BY DEF Close
<1>2. own \in Flow => work'[own] = phase
  BY DEF Close
<1>3. \A f \in Flow : Rejected(f) \in ({"off"} \cup Awaits \cup Micro) /\ Rejected(f) \notin Calls \cup {"handshake", "share"}
  BY RejectedGoesOn
<1>4. \A f \in Flow : work'[f] \in {"off"} \cup Awaits \cup Micro
  BY <1>1, <1>2, <1>3 DEF Awaits
<1>5. work' \in [Flow -> {"off"} \cup Awaits \cup Micro]
  <2>1. work' = [f \in Flow |-> IF f = own THEN phase ELSE Rejected(f)]
    BY DEF Close
  <2>2. \A f \in Flow : (IF f = own THEN phase ELSE Rejected(f)) \in {"off"} \cup Awaits \cup Micro
    BY <1>3 DEF Awaits
  <2> QED  BY <2>1, <2>2
<1>6. \A f \in Flow : work'[f] \notin Calls \cup {"handshake", "share"}
  <2> SUFFICES ASSUME NEW f \in Flow PROVE work'[f] \notin Calls \cup {"handshake", "share"}
    OBVIOUS
  <2>1. CASE f = own
    BY <2>1, <1>2 DEF Calls, Micro
  <2>2. CASE f # own
    BY <2>2, <1>1, <1>3
  <2> QED  BY <2>1, <2>2
<1>7. /\ log' \in [Conversation -> {"none", "filling", "open"}]
      /\ \A c \in Conversation : log'[c] # "filling" /\ (log[c] = "open" => log'[c] = "open")
  BY DEF Close, TypeOK
<1>8. process' = FALSE /\ loaded' = {}
  BY DEF Close
<1> QED  BY <1>1, <1>2, <1>5, <1>6, <1>7, <1>8

\* The end of a load wakes its loader and every flow that shares it.
LEMMA LoadEndsWakes ==
  ASSUME TypeOK, NEW f \in Flow, NEW c, NEW phase \in Micro, LoadEnds(f, c, phase)
  PROVE  /\ work' \in [Flow -> {"off"} \cup Awaits \cup Micro]
         /\ \A g \in Flow : work'[g] = IF g = f \/ (conv[g] = c /\ work[g] = "share")
                                       THEN phase ELSE work[g]
<1>1. \A g \in Flow : (IF g = f \/ (conv[g] = c /\ work[g] = "share") THEN phase ELSE work[g])
                      \in {"off"} \cup Awaits \cup Micro
  BY DEF TypeOK
<1> QED  BY <1>1 DEF LoadEnds

(***************************************************************************)
(* The outcomes of the larger steps.                                       *)
(***************************************************************************)

\* The adapter has the transcript (LoadAnswers, first outcome).
LoadSucceeds(f) ==
  /\ work[f] = "load" /\ conv[f] \in stored
  /\ log' = [log EXCEPT ![conv[f]] = "open"]
  /\ live' = live \cup {conv[f]}
  /\ loaded' = loaded \cup {conv[f]}
  /\ work' = [work EXCEPT ![f] = "restore"]
  /\ UNCHANGED <<row, bounds, conv, minted, process, conn, startVars>>

\* The adapter does not have it (LoadAnswers, second outcome).
LoadIsGone(f) ==
  /\ work[f] = "load" /\ conv[f] \notin stored
  /\ log' = [log EXCEPT ![conv[f]] = "none"]
  /\ live' = live \ {conv[f]}
  /\ row' = [row EXCEPT ![ThreadOf(f)] = None]
  /\ LoadEnds(f, conv[f], "gone")
  /\ UNCHANGED <<loaded, bounds, conv, minted, process, conn, startVars>>

\* The load fails or is refused (LoadAnswers, third outcome).
LoadFails(f) ==
  /\ work[f] = "load"
  /\ (Fails /\ LoadEnds(f, conv[f], "broken")) \/ (Refuses /\ LoadEnds(f, conv[f], "refused"))
  /\ log' = [log EXCEPT ![conv[f]] = "none"]
  /\ UNCHANGED <<row, live, loaded, conv, minted, process, conn, startVars>>

\* The adapter mints (MintAnswers, first outcome).
MintSucceeds(f) ==
  /\ work[f] = "mint" /\ minted < MaxConversations
  /\ minted' = minted + 1
  /\ log' = [log EXCEPT ![minted'] = "open"]
  /\ live' = live \cup {minted'}
  /\ loaded' = loaded \cup {minted'}
  /\ conv' = [conv EXCEPT ![f] = minted']
  /\ work' = [work EXCEPT ![f] = "settings"]
  /\ UNCHANGED <<bounds, row, process, conn, startVars>>

\* The mint fails or is refused (MintAnswers, second outcome).
MintFails(f) ==
  /\ work[f] = "mint"
  /\ \/ Goes(f, "broken") /\ Fails
     \/ Goes(f, "broken") /\ UNCHANGED bounds
     \/ Goes(f, "refused") /\ Refuses
  /\ UNCHANGED <<conv, minted, log, live, loaded, row, process, conn, startVars>>

\* A bring-up records what it minted (BringUpEnds).
MintedIsPinned(t) ==
  /\ work[t] = "minted"
  /\ row' = [row EXCEPT ![t] = conv[t]]
  /\ watched' = watched \cup {conv[t]}
  /\ work' = [work EXCEPT ![t] = "off"] /\ conv' = [conv EXCEPT ![t] = None]
  /\ UNCHANGED log

\* A bring-up found or loaded its conversation (BringUpEnds).
HeldIsPinned(t) ==
  /\ work[t] = "held"
  /\ watched' = watched \cup {conv[t]}
  /\ work' = [work EXCEPT ![t] = "off"] /\ conv' = [conv EXCEPT ![t] = None]
  /\ UNCHANGED <<row, log>>

\* The start is through and meets a stop (LoadedAll).
LoadsAreStopped ==
  /\ work[Start] = "next" /\ stopping
  /\ Teardown(Start, "returns")
  /\ UNCHANGED <<startVars, row, watched, conv>>

\* The start is through (LoadedAll).
LoadsAreDone ==
  /\ work[Start] = "next" /\ todo = {} /\ ~stopping
  /\ work' = [work EXCEPT ![Start] = "returns"]
  /\ UNCHANGED <<log, adapterVars, startVars, row, watched, conv>>

\* The row is live (BringUpReads).
RowIsLive(t) ==
  /\ work[t] = "go" /\ row[t] \in live
  /\ conv' = [conv EXCEPT ![t] = row[t]]
  /\ work' = [work EXCEPT ![t] = "held"]
  /\ UNCHANGED <<log, row, watched>>

\* The row is loaded (BringUpReads).
RowIsLoaded(t) ==
  /\ work[t] = "go" /\ row[t] \notin live /\ row[t] # None
  /\ LoadThread(t, row[t])
  /\ UNCHANGED <<row, watched>>

\* There is no row (BringUpReads).
RowIsEmpty(t) ==
  /\ work[t] = "go" /\ row[t] = None
  /\ AskMint(t)
  /\ UNCHANGED <<conv, log, row, watched>>

\* A pin of what is live shows a browser more; any other opening only sets a flow to
\* wait or to go on, over a connection that is as it was.
LEMMA OpenThreadKeeps ==
  ASSUME BringUpInv, NEW t \in Thread, OpenThread(t)
  PROVE  BringUpInv'
<1>0. /\ TypeOK /\ AttemptIsLeft /\ FlowsFitTheConnection /\ LoadsAreAlone
      /\ LiveIsHeld /\ RowsAreTheirs /\ StopIsSeen /\ WatchedIsCovered
  BY DEF BringUpInv
<1>1. TypeOK'
  <2>1. work' \in [Flow -> {"off"} \cup Awaits \cup Micro]
    BY <1>0 DEF OpenThread, StartBegins, Goes, TypeOK, Awaits, Micro, Flow
  <2>2. watched' \subseteq Conversation
    BY <1>0 DEF OpenThread, TypeOK
  <2>3. UNCHANGED <<row, stored, minted, log, conv, process, conn, live, loaded, aim, leg, todo,
                    attempt, faults, refusals, stops>>
    BY DEF OpenThread, StartBegins, adapterVars, startVars, bounds
  <2>4. stopping' \in BOOLEAN
    BY <1>0 DEF OpenThread, StartBegins, startVars, TypeOK
  <2> QED  BY <1>0, <2>1, <2>2, <2>3, <2>4 DEF TypeOK
<1>2. AttemptIsLeft'
  BY <1>0 DEF OpenThread, StartBegins, Goes, AttemptIsLeft, TypeOK, Flow, startVars
<1>3. FlowsFitTheConnection'
  BY <1>0, ThreadsAssumption DEF OpenThread, StartBegins, Goes, FlowsFitTheConnection,
     Calls, TypeOK, Conversation, Flow, adapterVars
<1>4. LoadsAreAlone'
  BY <1>0 DEF OpenThread, StartBegins, Goes, LoadsAreAlone, Loading, TypeOK, adapterVars
<1>5. LiveIsHeld'
  BY <1>0 DEF OpenThread, StartBegins, Goes, LiveIsHeld, adapterVars
<1>6. RowsAreTheirs'
  BY <1>0 DEF OpenThread, StartBegins, Goes, RowsAreTheirs, ThreadOf, TypeOK, Flow,
     adapterVars, startVars
<1>7. StopIsSeen'
  BY <1>0 DEF OpenThread, StartBegins, Goes, StopIsSeen, TypeOK, Flow, adapterVars,
     startVars, bounds
<1>8. WatchedIsCovered'
  <2>1. CASE row[t] \in live
    BY <1>0, <2>1 DEF OpenThread, WatchedIsCovered, adapterVars, startVars, bounds
  <2>2. CASE row[t] \notin live
    <3>1. UNCHANGED <<watched, live, conn, refusals, leg, todo, conv>>
      BY <2>2 DEF OpenThread, StartBegins, adapterVars, startVars, bounds
    <3>2. work'[Start] = work[Start] \/ conn # "up"
      BY <1>0, <2>2, ThreadsAssumption DEF OpenThread, StartBegins, Goes, TypeOK, Flow
    <3>3. work'[Start] = work[Start] \/ work'[Start] = "container"
      BY <1>0, <2>2, ThreadsAssumption DEF OpenThread, StartBegins, Goes, TypeOK, Flow
    <3> QED  BY <1>0, <3>1, <3>2, <3>3 DEF WatchedIsCovered
  <2> QED  BY <2>1, <2>2
<1> QED  BY <1>1, <1>2, <1>3, <1>4, <1>5, <1>6, <1>7, <1>8 DEF BringUpInv

\* A start begins without a connection, so nothing awaits an answer of it.
LEMMA MessageStartsKeeps ==
  ASSUME BringUpInv, MessageStarts
  PROVE  BringUpInv'
<1>0. /\ TypeOK /\ AttemptIsLeft /\ FlowsFitTheConnection /\ LoadsAreAlone
      /\ LiveIsHeld /\ RowsAreTheirs /\ StopIsSeen /\ WatchedIsCovered
  BY DEF BringUpInv
<1>1. TypeOK'
  BY <1>0, BoundsAssumption DEF MessageStarts, StartBegins, TypeOK, Awaits, Micro, None,
     adapterVars, bounds
<1>2. AttemptIsLeft'
  BY <1>0 DEF MessageStarts, StartBegins, AttemptIsLeft
<1>3. FlowsFitTheConnection'
  BY <1>0, ThreadsAssumption DEF MessageStarts, StartBegins, FlowsFitTheConnection, Calls,
     TypeOK, Conversation, Flow, adapterVars
<1>4. LoadsAreAlone'
  BY <1>0 DEF MessageStarts, StartBegins, LoadsAreAlone, FlowsFitTheConnection, Calls,
     Loading
<1>5. LiveIsHeld'
  BY <1>0 DEF MessageStarts, StartBegins, LiveIsHeld, adapterVars
<1>6. RowsAreTheirs'
  BY <1>0 DEF MessageStarts, StartBegins, RowsAreTheirs, LoadsAreAlone,
     FlowsFitTheConnection, Calls, Loading, Flow, adapterVars
<1>7. StopIsSeen'
  BY <1>0 DEF MessageStarts, StartBegins, StopIsSeen, bounds
<1>8. WatchedIsCovered'
  BY <1>0 DEF MessageStarts, StartBegins, WatchedIsCovered, Flow
<1> QED  BY <1>1, <1>2, <1>3, <1>4, <1>5, <1>6, <1>7, <1>8 DEF BringUpInv

\* A prompt writes a transcript, and more of them can only save rows.
LEMMA AgentIsPromptedKeeps ==
  ASSUME BringUpInv, NEW c \in Conversation, AgentIsPrompted(c)
  PROVE  BringUpInv'
<1>0. /\ TypeOK /\ AttemptIsLeft /\ FlowsFitTheConnection /\ LoadsAreAlone
      /\ LiveIsHeld /\ RowsAreTheirs /\ StopIsSeen /\ WatchedIsCovered
  BY DEF BringUpInv
<1>1. TypeOK'
  BY <1>0 DEF AgentIsPrompted, TypeOK, adapterVars, startVars, bounds
<1>2. AttemptIsLeft'
  BY <1>0 DEF AgentIsPrompted, AttemptIsLeft, startVars
<1>3. FlowsFitTheConnection'
  BY <1>0 DEF AgentIsPrompted, FlowsFitTheConnection, adapterVars
<1>4. LoadsAreAlone'
  BY <1>0 DEF AgentIsPrompted, LoadsAreAlone, Loading, adapterVars
<1>5. LiveIsHeld'
  BY <1>0 DEF AgentIsPrompted, LiveIsHeld, adapterVars
<1>6. RowsAreTheirs'
  BY <1>0 DEF AgentIsPrompted, RowsAreTheirs, ThreadOf, adapterVars, startVars
<1>7. StopIsSeen'
  BY <1>0 DEF AgentIsPrompted, StopIsSeen, startVars, bounds
<1>8. WatchedIsCovered'
  BY <1>0 DEF AgentIsPrompted, WatchedIsCovered, adapterVars, startVars, bounds
<1> QED  BY <1>1, <1>2, <1>3, <1>4, <1>5, <1>6, <1>7, <1>8 DEF BringUpInv

\* One browser less is one less to be served.
LEMMA DetachKeeps ==
  ASSUME BringUpInv, NEW c \in Conversation, Detach(c)
  PROVE  BringUpInv'
<1>0. /\ TypeOK /\ AttemptIsLeft /\ FlowsFitTheConnection /\ LoadsAreAlone
      /\ LiveIsHeld /\ RowsAreTheirs /\ StopIsSeen /\ WatchedIsCovered
  BY DEF BringUpInv
<1>1. TypeOK'
  BY <1>0 DEF Detach, TypeOK, adapterVars, startVars, bounds
<1>2. AttemptIsLeft'
  BY <1>0 DEF Detach, AttemptIsLeft, startVars
<1>3. FlowsFitTheConnection'
  BY <1>0 DEF Detach, FlowsFitTheConnection, adapterVars
<1>4. LoadsAreAlone'
  BY <1>0 DEF Detach, LoadsAreAlone, Loading, adapterVars
<1>5. LiveIsHeld'
  BY <1>0 DEF Detach, LiveIsHeld, adapterVars
<1>6. RowsAreTheirs'
  BY <1>0 DEF Detach, RowsAreTheirs, ThreadOf, adapterVars, startVars
<1>7. StopIsSeen'
  BY <1>0 DEF Detach, StopIsSeen, adapterVars, startVars, bounds
<1>8. WatchedIsCovered'
  BY <1>0 DEF Detach, WatchedIsCovered, adapterVars, startVars, bounds
<1> QED  BY <1>1, <1>2, <1>3, <1>4, <1>5, <1>6, <1>7, <1>8 DEF BringUpInv

\* A stop closes the connection under every flow: nothing is live, and the start either
\* has ended or meets the flag.
LEMMA StopKeeps ==
  ASSUME BringUpInv, Stop
  PROVE  BringUpInv'
<1>0. /\ TypeOK /\ AttemptIsLeft /\ FlowsFitTheConnection /\ LoadsAreAlone
      /\ LiveIsHeld /\ RowsAreTheirs /\ StopIsSeen /\ WatchedIsCovered
  BY DEF BringUpInv
<1>1. TypeOK'
  <2>1. Close(None, "off") /\ conn' = "down" /\ live' = {}
    BY DEF Stop, Teardown
  <2>2. /\ work' \in [Flow -> {"off"} \cup Awaits \cup Micro]
        /\ log' \in [Conversation -> {"none", "filling", "open"}]
        /\ process' = FALSE /\ loaded' = {}
    BY <1>0, <2>1, CloseWakes, ThreadsAssumption
  <2>3. stops' \in 0..MaxStops /\ stopping' \in BOOLEAN
    BY <1>0, BoundsAssumption DEF Stop, TypeOK
  <2>4. UNCHANGED <<row, stored, minted, watched, conv, aim, leg, todo, attempt, faults, refusals>>
    BY DEF Stop
  <2> QED  BY <1>0, <2>1, <2>2, <2>3, <2>4 DEF TypeOK
<1>2. AttemptIsLeft'
  BY <1>0, ThreadsAssumption DEF Stop, Teardown, Close, Rejected, AttemptIsLeft,
     Conversation, Flow
<1>3. FlowsFitTheConnection'
  BY <1>0 DEF Stop, Teardown, Close, Rejected, FlowsFitTheConnection, Calls, Flow
<1>4. LoadsAreAlone'
  BY <1>0 DEF Stop, Teardown, Close, Rejected, LoadsAreAlone
<1>5. LiveIsHeld'
  BY <1>0 DEF Stop, Teardown, Close, Rejected, LiveIsHeld
<1>6. RowsAreTheirs'
  BY <1>0 DEF Stop, Teardown, Close, Rejected, RowsAreTheirs, Flow
<1>7. StopIsSeen'
  BY <1>0 DEF Stop, Teardown, Close, Rejected, StopIsSeen
<1>8. WatchedIsCovered'
  BY <1>0 DEF Stop, Teardown, Close, Rejected, WatchedIsCovered, Flow
<1> QED  BY <1>1, <1>2, <1>3, <1>4, <1>5, <1>6, <1>7, <1>8 DEF BringUpInv

\* An exit closes the pipe under every flow. During a stop the connection stays in
\* place without a process, and so does what counts as live.
LEMMA AdapterExitsKeeps ==
  ASSUME BringUpInv, AdapterExits
  PROVE  BringUpInv'
<1>0. /\ TypeOK /\ AttemptIsLeft /\ FlowsFitTheConnection /\ LoadsAreAlone
      /\ LiveIsHeld /\ RowsAreTheirs /\ StopIsSeen /\ WatchedIsCovered
  BY DEF BringUpInv
<1>a. Close(None, "off")
  BY DEF AdapterExits, Teardown
<1>9. /\ work' \in [Flow -> {"off"} \cup Awaits \cup Micro]
      /\ log' \in [Conversation -> {"none", "filling", "open"}]
      /\ process' = FALSE /\ loaded' = {}
      /\ \A c \in Conversation : log'[c] # "filling" /\ (log[c] = "open" => log'[c] = "open")
      /\ \A f \in Flow : work'[f] \notin Calls \cup {"handshake", "share"}
      /\ \A f \in Flow : work'[f] = Rejected(f)
  BY <1>0, <1>a, CloseWakes, ThreadsAssumption
<1>1. TypeOK'
  <2>1. /\ work' \in [Flow -> {"off"} \cup Awaits \cup Micro]
        /\ log' \in [Conversation -> {"none", "filling", "open"}]
        /\ process' = FALSE /\ loaded' = {}
    BY <1>0, <1>9
  <2>2. conn' \in {conn, "down"} /\ live' \subseteq live
    BY DEF AdapterExits, Teardown
  <2>3. faults' \in 0..MaxFaults
    BY <1>0, BoundsAssumption DEF AdapterExits, TypeOK
  <2>4. UNCHANGED <<row, stored, minted, watched, conv, stopping, aim, leg, todo, attempt,
                    refusals, stops>>
    BY DEF AdapterExits, startVars
  <2> QED  BY <1>0, <2>1, <2>2, <2>3, <2>4 DEF TypeOK
<1>2. AttemptIsLeft'
  BY <1>0, ThreadsAssumption DEF AdapterExits, Teardown, Close, Rejected, AttemptIsLeft,
     Conversation, Flow, startVars
<1>3. FlowsFitTheConnection'
  <2>1. CASE stopping
    <3>1. UNCHANGED <<conn, live>>
      BY <2>1 DEF AdapterExits
    <3>2. \A t \in Thread : work'[t] \notin {"container", "backoff", "spawn", "handshake"}
      BY <1>0, <1>9, RejectedGoesOn DEF FlowsFitTheConnection, Flow
    <3>3. /\ work'[Start] \in {"container", "spawn", "backoff"} => work'[Start] = work[Start]
          /\ conn = "handshake" => work'[Start] \in {"handshake", "again"}
      BY <1>0, <1>9, RejectedGoesOn DEF FlowsFitTheConnection, Flow
    <3>4. conn = "handshake" => \A t \in Thread : work'[t] \in {"off", "wait"}
      BY <1>0, <1>9, RejectedGoesOn DEF FlowsFitTheConnection, Flow
    <3> QED  BY <1>0, <1>9, <3>1, <3>2, <3>3, <3>4 DEF FlowsFitTheConnection, Flow
  <2>2. CASE ~stopping
    <3>1. conn' = "down" /\ live' = {}
      BY <2>2 DEF AdapterExits, Teardown
    <3>2. \A t \in Thread : work'[t] \notin {"container", "backoff", "spawn", "handshake"}
      BY <1>0, <1>9, RejectedGoesOn DEF FlowsFitTheConnection, Flow
    <3> QED  BY <1>0, <1>9, <3>1, <3>2 DEF FlowsFitTheConnection, Flow
  <2> QED  BY <2>1, <2>2
<1>4. LoadsAreAlone'
  <2>1. /\ UNCHANGED conv
        /\ live' \subseteq live
    BY DEF AdapterExits, Teardown, startVars
  <2>2. \A f \in Flow : work'[f] \in {"settings", "held", "minted"} =>
          work[f] \in {"settings", "held", "minted", "restore", "share"}
    BY <1>0, <1>9, RejectedGoesOn
  <2> QED  BY <1>0, <1>9, <2>1, <2>2 DEF LoadsAreAlone, Loading, Calls
<1>5. LiveIsHeld'
  BY <1>0, BoundsAssumption DEF AdapterExits, Teardown, Close, Rejected, LiveIsHeld,
     TypeOK, Awaits, Micro, None
<1>6. RowsAreTheirs'
  <2>1. UNCHANGED <<row, conv, minted, aim>>
    BY DEF AdapterExits, startVars
  <2>2. conn' = "up" => UNCHANGED live
    BY DEF AdapterExits, Teardown
  <2>3. \A f \in Flow : work'[f] \in {"gone", "mint", "settings", "minted"} =>
          work[f] \in {"gone", "mint", "settings", "minted"}
    BY <1>0, <1>9, RejectedGoesOn
  <2>4. \A f \in Flow : work'[f] \in {"settings", "minted"} => work[f] \in {"settings", "minted"}
    BY <1>0, <1>9, RejectedGoesOn
  <2>5. \A f \in Flow : conn = "up" /\ work'[f] \in {"restore", "settings", "held", "minted"} => conv[f] \in live
    BY <1>0, <1>9, RejectedGoesOn DEF RowsAreTheirs
  <2>6. conn' = "up" => conn = "up"
    BY DEF AdapterExits, Teardown
  <2>7. Start \in Flow
    BY DEF Flow
  <2> QED  BY <1>0, <1>9, <2>1, <2>2, <2>3, <2>4, <2>5, <2>6, <2>7 DEF RowsAreTheirs, ThreadOf, Calls
<1>7. StopIsSeen'
  <2>1. /\ conn = "down" => conn' = "down"
        /\ UNCHANGED <<refusals, stopping>>
    BY DEF AdapterExits, Teardown, startVars
  <2>2. \A f \in Flow : work'[f] \in {"off", "container", "returns", "throws", "backoff", "refused"}
          => work'[f] = work[f]
    BY <1>0, <1>9, RejectedGoesOn
  <2> QED  BY <1>0, <2>1, <2>2 DEF StopIsSeen, Flow
<1>8. WatchedIsCovered'
  <2>1. /\ UNCHANGED <<watched, todo, conv, leg, refusals>>
        /\ conn' = "up" => conn = "up" /\ UNCHANGED live
    BY DEF AdapterExits, Teardown, startVars
  <2>2. /\ work'[Start] \in {"off", "returns", "throws", "next", "mint", "settings"} => work'[Start] = work[Start]
        /\ work'[Start] \in {"load", "share", "restore", "held", "gone", "broken"} =>
             work[Start] \in {"load", "share", "restore", "held", "gone", "broken", "mint"}
    BY <1>0, <1>9, RejectedGoesOn DEF Flow, Calls
  <2> QED  BY <1>0, <2>1, <2>2 DEF WatchedIsCovered
<1> QED  BY <1>1, <1>2, <1>3, <1>4, <1>5, <1>6, <1>7, <1>8 DEF BringUpInv

\* The container is up or not; there is no connection yet.
LEMMA ContainerAnswersKeeps ==
  ASSUME BringUpInv, ContainerAnswers, CallAnswered(Start), UNCHANGED <<stored, watched>>
  PROVE  BringUpInv'
<1>0. /\ TypeOK /\ AttemptIsLeft /\ FlowsFitTheConnection /\ LoadsAreAlone
      /\ LiveIsHeld /\ RowsAreTheirs /\ StopIsSeen /\ WatchedIsCovered
  BY DEF BringUpInv
<1>1. TypeOK'
  BY <1>0, BoundsAssumption DEF ContainerAnswers, Goes, Fails, TypeOK, Awaits, Micro,
     None, adapterVars, startVars, bounds
<1>2. AttemptIsLeft'
  BY <1>0 DEF ContainerAnswers, Goes, Fails, AttemptIsLeft, startVars
<1>3. FlowsFitTheConnection'
  BY <1>0 DEF ContainerAnswers, Goes, Fails, FlowsFitTheConnection, Calls, TypeOK, Flow,
     adapterVars
<1>4. LoadsAreAlone'
  BY <1>0 DEF ContainerAnswers, Goes, Fails, LoadsAreAlone, FlowsFitTheConnection, Calls,
     Loading, TypeOK
<1>5. LiveIsHeld'
  BY <1>0 DEF ContainerAnswers, Goes, Fails, LiveIsHeld, adapterVars
<1>6. RowsAreTheirs'
  BY <1>0 DEF ContainerAnswers, Goes, Fails, RowsAreTheirs, LoadsAreAlone,
     FlowsFitTheConnection, Calls, Loading, TypeOK, adapterVars
<1>7. StopIsSeen'
  BY <1>0 DEF ContainerAnswers, Goes, Fails, StopIsSeen, FlowsFitTheConnection, TypeOK,
     adapterVars, bounds
<1>8. WatchedIsCovered'
  BY <1>0 DEF ContainerAnswers, Goes, Fails, WatchedIsCovered, FlowsFitTheConnection,
     Calls, TypeOK, adapterVars
<1> QED  BY <1>1, <1>2, <1>3, <1>4, <1>5, <1>6, <1>7, <1>8 DEF BringUpInv

\* The backoff ends with an attempt left.
LEMMA BackoffEndsKeeps ==
  ASSUME BringUpInv, BackoffEnds, UNCHANGED <<stored, watched>>
  PROVE  BringUpInv'
<1>0. /\ TypeOK /\ AttemptIsLeft /\ FlowsFitTheConnection /\ LoadsAreAlone
      /\ LiveIsHeld /\ RowsAreTheirs /\ StopIsSeen /\ WatchedIsCovered
  BY DEF BringUpInv
<1>1. TypeOK'
  BY <1>0, BoundsAssumption DEF BackoffEnds, Goes, TypeOK, Awaits, Micro, None,
     adapterVars, startVars, bounds
<1>2. AttemptIsLeft'
  BY <1>0 DEF BackoffEnds, Goes, AttemptIsLeft, startVars
<1>3. FlowsFitTheConnection'
  BY <1>0 DEF BackoffEnds, Goes, FlowsFitTheConnection, Calls, adapterVars
<1>4. LoadsAreAlone'
  BY <1>0 DEF BackoffEnds, Goes, LoadsAreAlone, FlowsFitTheConnection, Calls, Loading
<1>5. LiveIsHeld'
  BY <1>0 DEF BackoffEnds, Goes, LiveIsHeld, adapterVars
<1>6. RowsAreTheirs'
  BY <1>0 DEF BackoffEnds, Goes, RowsAreTheirs, LoadsAreAlone, FlowsFitTheConnection,
     Calls, Loading, adapterVars
<1>7. StopIsSeen'
  BY <1>0 DEF BackoffEnds, Goes, StopIsSeen, TypeOK, Flow, bounds
<1>8. WatchedIsCovered'
  BY <1>0 DEF BackoffEnds, Goes, WatchedIsCovered
<1> QED  BY <1>1, <1>2, <1>3, <1>4, <1>5, <1>6, <1>7, <1>8 DEF BringUpInv

\* A spawned adapter has nothing in its memory, and nothing is live yet.
LEMMA SpawnAnswersKeeps ==
  ASSUME BringUpInv, SpawnAnswers, Quiet, UNCHANGED <<stored, watched>>
  PROVE  BringUpInv'
<1>0. /\ TypeOK /\ AttemptIsLeft /\ FlowsFitTheConnection /\ LoadsAreAlone
      /\ LiveIsHeld /\ RowsAreTheirs /\ StopIsSeen /\ WatchedIsCovered
  BY DEF BringUpInv
<1>1. TypeOK'
  <2>1. work' \in [Flow -> {"off"} \cup Awaits \cup Micro]
    BY <1>0 DEF SpawnAnswers, Goes, TypeOK, Awaits, Micro
  <2>2. process' \in BOOLEAN /\ conn' \in {"down", "handshake", "up"}
    BY <1>0 DEF SpawnAnswers, TypeOK
  <2>3. faults' \in 0..MaxFaults
    BY <1>0, BoundsAssumption DEF SpawnAnswers, Fails, TypeOK, bounds
  <2>4. UNCHANGED <<row, stored, minted, log, watched, conv, live, loaded, stopping, aim, leg, todo,
                    attempt, refusals, stops>>
    BY DEF SpawnAnswers, Fails, startVars, bounds
  <2> QED  BY <1>0, <2>1, <2>2, <2>3, <2>4 DEF TypeOK
<1>2. AttemptIsLeft'
  BY <1>0 DEF SpawnAnswers, Goes, Fails, AttemptIsLeft, startVars
<1>3. FlowsFitTheConnection'
  BY <1>0, BoundsAssumption DEF SpawnAnswers, Goes, Fails, Quiet, FlowsFitTheConnection,
     Calls, LoadsAreAlone, Loading, TypeOK, Flow, Awaits, Micro, None
<1>4. LoadsAreAlone'
  BY <1>0 DEF SpawnAnswers, Goes, Fails, LoadsAreAlone, Loading, TypeOK
<1>5. LiveIsHeld'
  BY <1>0 DEF SpawnAnswers, Goes, Fails, LiveIsHeld, FlowsFitTheConnection, Calls
<1>6. RowsAreTheirs'
  BY <1>0 DEF SpawnAnswers, Goes, Fails, RowsAreTheirs, LoadsAreAlone,
     FlowsFitTheConnection, Calls, Loading, TypeOK
<1>7. StopIsSeen'
  BY <1>0 DEF SpawnAnswers, Goes, Fails, StopIsSeen, TypeOK, bounds
<1>8. WatchedIsCovered'
  BY <1>0 DEF SpawnAnswers, Goes, Fails, WatchedIsCovered, TypeOK
<1> QED  BY <1>1, <1>2, <1>3, <1>4, <1>5, <1>6, <1>7, <1>8 DEF BringUpInv

\* The first conversation that a connection loads is the row of the thread that the
\* start aims at, and no other flow loads one by then.
LEMMA HandshakeAnswersKeeps ==
  ASSUME BringUpInv, HandshakeAnswers, Quiet, UNCHANGED <<stored, watched>>
  PROVE  BringUpInv'
<1>0. /\ TypeOK /\ AttemptIsLeft /\ FlowsFitTheConnection /\ LoadsAreAlone
      /\ LiveIsHeld /\ RowsAreTheirs /\ StopIsSeen /\ WatchedIsCovered
  BY DEF BringUpInv
<1>1. TypeOK'
  BY <1>0, BoundsAssumption DEF HandshakeAnswers, Goes, Fails, LoadThread, Fill,
     Connected, TypeOK, Awaits, Micro, None, bounds
<1>2. AttemptIsLeft'
  BY <1>0 DEF HandshakeAnswers, Goes, Fails, LoadThread, Fill, Connected, AttemptIsLeft
<1>3. FlowsFitTheConnection'
  BY <1>0 DEF HandshakeAnswers, Goes, Fails, LoadThread, Fill, Connected,
     FlowsFitTheConnection, Calls, TypeOK, Flow
<1>4. LoadsAreAlone'
  BY <1>0, BoundsAssumption DEF HandshakeAnswers, Goes, Fails, LoadThread, Fill,
     Connected, Loading, LoadsAreAlone, FlowsFitTheConnection, Calls, TypeOK, Flow, Awaits,
     Micro, None
<1>5. LiveIsHeld'
  BY <1>0 DEF HandshakeAnswers, Goes, Fails, LoadThread, Fill, Connected, LiveIsHeld,
     FlowsFitTheConnection, Calls
<1>6. RowsAreTheirs'
  BY <1>0 DEF HandshakeAnswers, Goes, Fails, LoadThread, Fill, Connected, RowsAreTheirs,
     FlowsFitTheConnection, Calls, ThreadOf, TypeOK, Flow
<1>7. StopIsSeen'
  BY <1>0 DEF HandshakeAnswers, Goes, Fails, LoadThread, Fill, Connected, StopIsSeen,
     FlowsFitTheConnection, TypeOK, Flow
<1>8. WatchedIsCovered'
  BY <1>0 DEF HandshakeAnswers, Goes, Fails, LoadThread, Fill, Connected,
     WatchedIsCovered, TypeOK
<1> QED  BY <1>1, <1>2, <1>3, <1>4, <1>5, <1>6, <1>7, <1>8 DEF BringUpInv

\* A load that succeeds makes the conversation live with an open log.
LEMMA LoadSucceedsKeeps ==
  ASSUME BringUpInv, NEW f \in Flow, LoadSucceeds(f), UNCHANGED <<stored, watched>>
  PROVE  BringUpInv'
<1>0. /\ TypeOK /\ AttemptIsLeft /\ FlowsFitTheConnection /\ LoadsAreAlone
      /\ LiveIsHeld /\ RowsAreTheirs /\ StopIsSeen /\ WatchedIsCovered
  BY DEF BringUpInv
<1>1. TypeOK'
  BY <1>0, BoundsAssumption DEF LoadSucceeds, TypeOK, Awaits, Micro, None, startVars,
     bounds
<1>2. AttemptIsLeft'
  BY <1>0 DEF LoadSucceeds, AttemptIsLeft, startVars
<1>3. FlowsFitTheConnection'
  BY <1>0 DEF LoadSucceeds, FlowsFitTheConnection, Calls
<1>4. LoadsAreAlone'
  BY <1>0 DEF LoadSucceeds, LoadsAreAlone, Loading, TypeOK
<1>5. LiveIsHeld'
  <2>1. conv[f] \in Conversation
    BY <1>0 DEF LoadSucceeds, LoadsAreAlone, TypeOK
  <2>2. \A c \in live' : log'[c] = "open"
    BY <1>0, <2>1 DEF LoadSucceeds, LiveIsHeld, TypeOK
  <2>3. process' => live' \subseteq loaded'
    BY <1>0 DEF LoadSucceeds, LiveIsHeld
  <2> QED  BY <2>2, <2>3 DEF LiveIsHeld
<1>6. RowsAreTheirs'
  BY <1>0 DEF LoadSucceeds, RowsAreTheirs, ThreadOf, startVars
<1>7. StopIsSeen'
  BY <1>0 DEF LoadSucceeds, StopIsSeen, startVars, bounds
<1>8. WatchedIsCovered'
  BY <1>0 DEF LoadSucceeds, WatchedIsCovered, startVars, bounds
<1> QED  BY <1>1, <1>2, <1>3, <1>4, <1>5, <1>6, <1>7, <1>8 DEF BringUpInv

\* A load without a transcript clears the row that the load was about, for its loader
\* and its sharers alike.
LEMMA LoadIsGoneKeeps ==
  ASSUME BringUpInv, NEW f \in Flow, LoadIsGone(f), UNCHANGED <<stored, watched>>
  PROVE  BringUpInv'
<1>0. /\ TypeOK /\ AttemptIsLeft /\ FlowsFitTheConnection /\ LoadsAreAlone
      /\ LiveIsHeld /\ RowsAreTheirs /\ StopIsSeen /\ WatchedIsCovered
  BY DEF BringUpInv
<1>9. /\ conv[f] \in Conversation
      /\ work' \in [Flow -> {"off"} \cup Awaits \cup Micro]
  <2>1. conv[f] \in Conversation
    BY <1>0 DEF LoadIsGone, LoadsAreAlone, TypeOK
  <2> QED  BY <1>0, <2>1, LoadEndsWakes DEF LoadIsGone, Micro
<1>10. \A g \in Flow : work'[g] = IF g = f \/ (conv[g] = conv[f] /\ work[g] = "share")
                                THEN "gone" ELSE work[g]
  BY <1>0, LoadEndsWakes DEF LoadIsGone, Micro
<1>1. TypeOK'
  BY <1>0, <1>9, <1>10 DEF LoadIsGone, TypeOK, startVars, bounds
<1>2. AttemptIsLeft'
  BY <1>0, <1>9, <1>10 DEF LoadIsGone, AttemptIsLeft, Flow, startVars
<1>3. FlowsFitTheConnection'
  BY <1>0, <1>9, <1>10 DEF LoadIsGone, FlowsFitTheConnection, Calls, Flow
<1>4. LoadsAreAlone'
  <2>1. /\ UNCHANGED conv /\ live' \subseteq live
        /\ \A c \in Conversation : log'[c] = IF c = conv[f] THEN "none" ELSE log[c]
        /\ work[f] = "load"
    BY <1>0, <1>9 DEF LoadIsGone, TypeOK
  <2>2. \A g \in Flow :
          \/ work'[g] \in {"gone", "broken", "refused"}
          \/ work'[g] = work[g] /\ ~(work[g] = "share" /\ conv[g] = conv[f]) /\ g # f
    BY <1>10
  <2>3. \A g \in Flow : work[g] \in {"load", "restore"} /\ g # f => work'[g] = work[g]
    BY <1>10
  <2>4. \A g \in Flow : work'[g] \in {"load", "restore"} <=> (work[g] \in {"load", "restore"} /\ g # f)
    BY <2>2, <2>3
  <2>5. \A g \in Flow : work'[g] = "load" <=> (work[g] = "load" /\ g # f)
    BY <2>2, <2>3
  <2>6. \A g \in Flow : work[g] = "load" /\ conv[g] = conv[f] => g = f
    BY <1>0, <2>1 DEF LoadsAreAlone
  <2>7. \A c \in Conversation :
          log'[c] = "filling" <=> \E g \in Flow : work'[g] = "load" /\ conv'[g] = c
    <3> SUFFICES ASSUME NEW c \in Conversation
                 PROVE  log'[c] = "filling" <=> \E g \in Flow : work'[g] = "load" /\ conv[g] = c
      BY <2>1
    <3>1. CASE c = conv[f]
      BY <3>1, <2>1, <2>5, <2>6
    <3>2. CASE c # conv[f]
      <4>1. log[c] = "filling" <=> \E g \in Flow : work[g] = "load" /\ conv[g] = c
        BY <1>0 DEF LoadsAreAlone
      <4> QED  BY <3>2, <4>1, <2>1, <2>5
    <3> QED  BY <3>1, <3>2
  <2>8. \A g \in Flow : work'[g] = "share" =>
          \E h \in Flow : work'[h] \in {"load", "restore"} /\ conv'[h] = conv'[g]
    <3> SUFFICES ASSUME NEW g \in Flow, work'[g] = "share"
                 PROVE  \E h \in Flow : work'[h] \in {"load", "restore"} /\ conv[h] = conv[g]
      BY <2>1
    <3>1. work[g] = "share" /\ conv[g] # conv[f]
      BY <2>2
    <3>2. PICK h \in Flow : work[h] \in {"load", "restore"} /\ conv[h] = conv[g]
      BY <1>0, <3>1 DEF LoadsAreAlone, Loading
    <3> QED  BY <3>1, <3>2, <2>4
  <2>9. \A g \in Flow : work'[g] \in {"load", "share", "restore", "settings", "held", "minted"} =>
          work'[g] = work[g]
    BY <2>2
  <2> QED  BY <1>0, <2>1, <2>4, <2>7, <2>8, <2>9 DEF LoadsAreAlone, Loading
<1>5. LiveIsHeld'
  <2>1. \A c \in live' : log'[c] = "open"
    BY <1>0, <1>9 DEF LoadIsGone, LiveIsHeld, TypeOK
  <2> QED  BY <1>0, <2>1 DEF LoadIsGone, LiveIsHeld
<1>6. RowsAreTheirs'
  BY <1>0, <1>9, <1>10, BoundsAssumption DEF LoadIsGone, RowsAreTheirs, LoadsAreAlone,
     ThreadOf, TypeOK, Flow, Awaits, Micro, None, startVars
<1>7. StopIsSeen'
  BY <1>0, <1>9, <1>10 DEF LoadIsGone, StopIsSeen, Flow, startVars, bounds
<1>8. WatchedIsCovered'
  BY <1>0, <1>9, <1>10 DEF LoadIsGone, WatchedIsCovered, LoadsAreAlone, Flow, startVars,
     bounds
<1> QED  BY <1>1, <1>2, <1>3, <1>4, <1>5, <1>6, <1>7, <1>8 DEF BringUpInv

\* A load that fails leaves the row as it is.
LEMMA LoadFailsKeeps ==
  ASSUME BringUpInv, NEW f \in Flow, LoadFails(f), UNCHANGED <<stored, watched>>
  PROVE  BringUpInv'
<1>0. /\ TypeOK /\ AttemptIsLeft /\ FlowsFitTheConnection /\ LoadsAreAlone
      /\ LiveIsHeld /\ RowsAreTheirs /\ StopIsSeen /\ WatchedIsCovered
  BY DEF BringUpInv
<1>9. /\ conv[f] \in Conversation
      /\ work' \in [Flow -> {"off"} \cup Awaits \cup Micro]
  <2>1. conv[f] \in Conversation
    BY <1>0 DEF LoadFails, LoadsAreAlone, TypeOK
  <2> QED  BY <1>0, <2>1, LoadEndsWakes DEF LoadFails, Micro
<1>10. \E phase \in {"broken", "refused"} : \A g \in Flow :
         work'[g] = IF g = f \/ (conv[g] = conv[f] /\ work[g] = "share") THEN phase ELSE work[g]
  BY <1>0, LoadEndsWakes DEF LoadFails, Micro
<1>1. TypeOK'
  <2>1. log' \in [Conversation -> {"none", "filling", "open"}]
    BY <1>0, <1>9 DEF LoadFails, TypeOK
  <2>2. faults' \in 0..MaxFaults /\ refusals' \in 0..MaxRefusals /\ stops' \in 0..MaxStops
    BY <1>0, BoundsAssumption DEF LoadFails, Fails, Refuses, TypeOK, bounds
  <2> QED  BY <1>0, <1>9, <2>1, <2>2 DEF LoadFails, TypeOK, startVars
<1>2. AttemptIsLeft'
  BY <1>0, <1>9, <1>10 DEF LoadFails, Fails, Refuses, AttemptIsLeft, Flow, startVars
<1>3. FlowsFitTheConnection'
  BY <1>0, <1>9, <1>10 DEF LoadFails, Fails, Refuses, FlowsFitTheConnection, Calls, Flow
<1>4. LoadsAreAlone'
  <2>1. /\ UNCHANGED conv /\ live' \subseteq live
        /\ \A c \in Conversation : log'[c] = IF c = conv[f] THEN "none" ELSE log[c]
        /\ work[f] = "load"
    BY <1>0, <1>9 DEF LoadFails, TypeOK
  <2>2. \A g \in Flow :
          \/ work'[g] \in {"gone", "broken", "refused"}
          \/ work'[g] = work[g] /\ ~(work[g] = "share" /\ conv[g] = conv[f]) /\ g # f
    BY <1>10
  <2>3. \A g \in Flow : work[g] \in {"load", "restore"} /\ g # f => work'[g] = work[g]
    BY <1>10
  <2>4. \A g \in Flow : work'[g] \in {"load", "restore"} <=> (work[g] \in {"load", "restore"} /\ g # f)
    BY <2>2, <2>3
  <2>5. \A g \in Flow : work'[g] = "load" <=> (work[g] = "load" /\ g # f)
    BY <2>2, <2>3
  <2>6. \A g \in Flow : work[g] = "load" /\ conv[g] = conv[f] => g = f
    BY <1>0, <2>1 DEF LoadsAreAlone
  <2>7. \A c \in Conversation :
          log'[c] = "filling" <=> \E g \in Flow : work'[g] = "load" /\ conv'[g] = c
    <3> SUFFICES ASSUME NEW c \in Conversation
                 PROVE  log'[c] = "filling" <=> \E g \in Flow : work'[g] = "load" /\ conv[g] = c
      BY <2>1
    <3>1. CASE c = conv[f]
      BY <3>1, <2>1, <2>5, <2>6
    <3>2. CASE c # conv[f]
      <4>1. log[c] = "filling" <=> \E g \in Flow : work[g] = "load" /\ conv[g] = c
        BY <1>0 DEF LoadsAreAlone
      <4> QED  BY <3>2, <4>1, <2>1, <2>5
    <3> QED  BY <3>1, <3>2
  <2>8. \A g \in Flow : work'[g] = "share" =>
          \E h \in Flow : work'[h] \in {"load", "restore"} /\ conv'[h] = conv'[g]
    <3> SUFFICES ASSUME NEW g \in Flow, work'[g] = "share"
                 PROVE  \E h \in Flow : work'[h] \in {"load", "restore"} /\ conv[h] = conv[g]
      BY <2>1
    <3>1. work[g] = "share" /\ conv[g] # conv[f]
      BY <2>2
    <3>2. PICK h \in Flow : work[h] \in {"load", "restore"} /\ conv[h] = conv[g]
      BY <1>0, <3>1 DEF LoadsAreAlone, Loading
    <3> QED  BY <3>1, <3>2, <2>4
  <2>9. \A g \in Flow : work'[g] \in {"load", "share", "restore", "settings", "held", "minted"} =>
          work'[g] = work[g]
    BY <2>2
  <2> QED  BY <1>0, <2>1, <2>4, <2>7, <2>8, <2>9 DEF LoadsAreAlone, Loading
<1>5. LiveIsHeld'
  BY <1>0, <1>9, <1>10 DEF LoadFails, Fails, Refuses, LiveIsHeld, LoadsAreAlone
<1>6. RowsAreTheirs'
  BY <1>0, <1>9, <1>10 DEF LoadFails, Fails, Refuses, RowsAreTheirs, ThreadOf, Flow,
     startVars
<1>7. StopIsSeen'
  <2>1. /\ refusals' \in Nat /\ refusals \in Nat
        /\ refusals' >= refusals
        /\ (\E g \in Flow : work'[g] = "refused" /\ work[g] # "refused") => refusals' > 0
    <3>1. CASE Fails /\ LoadEnds(f, conv[f], "broken")
      BY <1>0, <3>1, BoundsAssumption DEF Fails, TypeOK, LoadEnds
    <3>2. CASE Refuses
      BY <1>0, <3>2, BoundsAssumption DEF Refuses, TypeOK
    <3> QED  BY <3>1, <3>2 DEF LoadFails
  <2>2. \A g \in Flow : work'[g] = "refused" => refusals' > 0
    BY <1>0, <2>1 DEF StopIsSeen
  <2>3. /\ work'[Start] \in {"off", "container", "returns", "throws", "backoff"} => work'[Start] = work[Start]
        /\ UNCHANGED <<stopping, conn>>
    BY <1>10 DEF LoadFails, startVars, Flow
  <2> QED  BY <1>0, <2>1, <2>2, <2>3 DEF StopIsSeen
<1>8. WatchedIsCovered'
  BY <1>0, <1>9, <1>10 DEF LoadFails, Fails, Refuses, WatchedIsCovered, TypeOK, Flow,
     startVars
<1> QED  BY <1>1, <1>2, <1>3, <1>4, <1>5, <1>6, <1>7, <1>8 DEF BringUpInv

\* A minted conversation is in no row, in no flow, and live at once.
LEMMA MintSucceedsKeeps ==
  ASSUME BringUpInv, NEW f \in Flow, MintSucceeds(f), UNCHANGED <<stored, watched>>
  PROVE  BringUpInv'
<1>0. /\ TypeOK /\ AttemptIsLeft /\ FlowsFitTheConnection /\ LoadsAreAlone
      /\ LiveIsHeld /\ RowsAreTheirs /\ StopIsSeen /\ WatchedIsCovered
  BY DEF BringUpInv
<1>1. TypeOK'
  BY <1>0, ThreadsAssumption, BoundsAssumption DEF MintSucceeds, TypeOK, Conversation,
     Awaits, Micro, None, startVars, bounds
<1>2. AttemptIsLeft'
  BY <1>0 DEF MintSucceeds, AttemptIsLeft, startVars
<1>3. FlowsFitTheConnection'
  BY <1>0 DEF MintSucceeds, FlowsFitTheConnection, Calls
<1>4. LoadsAreAlone'
  BY <1>0, BoundsAssumption DEF MintSucceeds, LoadsAreAlone, RowsAreTheirs, Loading,
     TypeOK, Awaits, Micro, None
<1>5. LiveIsHeld'
  BY <1>0, ThreadsAssumption, BoundsAssumption DEF MintSucceeds, LiveIsHeld, TypeOK,
     Conversation, Awaits, Micro, None
<1>6. RowsAreTheirs'
  <2>0. /\ minted \in Nat /\ minted' = minted + 1 /\ row' = row /\ conn' = conn /\ aim' = aim
        /\ work[f] = "mint" /\ live' = live \cup {minted'}
        /\ conv'[f] = minted' /\ work'[f] = "settings"
        /\ \A g \in Flow \ {f} : conv'[g] = conv[g] /\ work'[g] = work[g]
    BY <1>0, BoundsAssumption DEF MintSucceeds, TypeOK, startVars
  <2>1. /\ \A t \in Thread : row'[t] \in Nat /\ row'[t] <= minted /\ row'[t] # minted'
        /\ \A g \in Flow \ {f} : conv'[g] \in Nat /\ conv'[g] <= minted /\ conv'[g] # minted'
    BY <1>0, <2>0 DEF RowsAreTheirs, TypeOK, Conversation, None
  <2>2. /\ \A t \in Thread : row'[t] <= minted'
        /\ \A g \in Flow : conv'[g] <= minted'
    BY <2>0, <2>1
  <2>3. \A g \in Flow : ThreadOf(g)' = ThreadOf(g)
    BY <2>0 DEF ThreadOf
  <2>4. \A g \in Flow : work'[g] \in {"load", "share"} /\ conv'[g] \notin live'
                         => row'[ThreadOf(g)'] = conv'[g]
    BY <1>0, <2>0, <2>3 DEF RowsAreTheirs
  <2>5. \A g \in Flow : conn' = "up" /\ work'[g] \in {"gone", "mint", "settings", "minted"}
                         => row'[ThreadOf(g)'] \in live' \cup {None}
    BY <1>0, <2>0, <2>3 DEF RowsAreTheirs
  <2>6. \A g \in Flow : work'[g] \in {"settings", "minted"} => \A t \in Thread : row'[t] # conv'[g]
    BY <1>0, <2>0, <2>1 DEF RowsAreTheirs
  <2>7. \A g, h \in Flow : /\ work'[g] \in {"settings", "minted"}
                            /\ work'[h] \in {"settings", "minted"}
                            /\ conv'[g] = conv'[h]
                            => g = h
    BY <1>0, <2>0, <2>1 DEF RowsAreTheirs
  <2>8. work'[Start] \in {"load", "share", "mint", "settings", "gone", "minted"} => aim' \in Thread
    <3>1. CASE f = Start
      BY <1>0, <2>0, <3>1 DEF RowsAreTheirs
    <3>2. CASE f # Start
      <4>1. work'[Start] = work[Start]
        BY <2>0, <3>2 DEF Flow
      <4> QED
        BY <1>0, <2>0, <4>1 DEF RowsAreTheirs
    <3> QED
      BY <3>1, <3>2
  <2>9. \A g \in Flow : conn' = "up" /\ work'[g] \in {"restore", "settings", "held", "minted"}
                         => conv'[g] \in live'
    BY <1>0, <2>0 DEF RowsAreTheirs
  <2>10. \A t, u \in Thread : row'[t] = row'[u] /\ row'[t] # None => t = u
    BY <1>0, <2>0 DEF RowsAreTheirs
  <2> QED
    BY <2>2, <2>4, <2>5, <2>6, <2>7, <2>8, <2>9, <2>10 DEF RowsAreTheirs
<1>7. StopIsSeen'
  BY <1>0 DEF MintSucceeds, StopIsSeen, startVars, bounds
<1>8. WatchedIsCovered'
  BY <1>0 DEF MintSucceeds, WatchedIsCovered, startVars, bounds
<1> QED  BY <1>1, <1>2, <1>3, <1>4, <1>5, <1>6, <1>7, <1>8 DEF BringUpInv

\* A mint that fails has no row to lose.
LEMMA MintFailsKeeps ==
  ASSUME BringUpInv, NEW f \in Flow, MintFails(f), UNCHANGED <<stored, watched>>
  PROVE  BringUpInv'
<1>0. /\ TypeOK /\ AttemptIsLeft /\ FlowsFitTheConnection /\ LoadsAreAlone
      /\ LiveIsHeld /\ RowsAreTheirs /\ StopIsSeen /\ WatchedIsCovered
  BY DEF BringUpInv
<1>1. TypeOK'
  BY <1>0, BoundsAssumption DEF MintFails, Goes, Fails, Refuses, TypeOK, Awaits, Micro,
     None, startVars, bounds
<1>2. AttemptIsLeft'
  BY <1>0 DEF MintFails, Goes, Fails, Refuses, AttemptIsLeft, TypeOK, Flow, startVars
<1>3. FlowsFitTheConnection'
  BY <1>0 DEF MintFails, Goes, Fails, Refuses, FlowsFitTheConnection, Calls, TypeOK, Flow
<1>4. LoadsAreAlone'
  BY <1>0 DEF MintFails, Goes, Fails, Refuses, LoadsAreAlone, Loading, TypeOK
<1>5. LiveIsHeld'
  BY <1>0 DEF MintFails, Goes, Fails, Refuses, LiveIsHeld
<1>6. RowsAreTheirs'
  BY <1>0 DEF MintFails, Goes, Fails, Refuses, RowsAreTheirs, ThreadOf, TypeOK, Flow,
     startVars
<1>7. StopIsSeen'
  BY <1>0 DEF MintFails, Goes, Fails, Refuses, StopIsSeen, TypeOK, Flow, startVars, bounds
<1>8. WatchedIsCovered'
  BY <1>0 DEF MintFails, Goes, Fails, Refuses, WatchedIsCovered, TypeOK, Flow, startVars,
     bounds
<1> QED  BY <1>1, <1>2, <1>3, <1>4, <1>5, <1>6, <1>7, <1>8 DEF BringUpInv

\* The settings come after the conversation is live, so their answer changes no row.
LEMMA SettingsAnswerKeeps ==
  ASSUME BringUpInv, NEW f \in Flow, SettingsAnswer(f), Quiet, UNCHANGED <<stored, watched>>
  PROVE  BringUpInv'
<1>0. /\ TypeOK /\ AttemptIsLeft /\ FlowsFitTheConnection /\ LoadsAreAlone
      /\ LiveIsHeld /\ RowsAreTheirs /\ StopIsSeen /\ WatchedIsCovered
  BY DEF BringUpInv
<1>1. TypeOK'
  BY <1>0, BoundsAssumption DEF SettingsAnswer, Goes, LoadEnds, TypeOK, Awaits, Micro,
     None, adapterVars, startVars, bounds
<1>2. AttemptIsLeft'
  BY <1>0 DEF SettingsAnswer, Goes, LoadEnds, AttemptIsLeft, TypeOK, Flow, startVars
<1>3. FlowsFitTheConnection'
  BY <1>0 DEF SettingsAnswer, Goes, LoadEnds, FlowsFitTheConnection, Calls, TypeOK, Flow,
     adapterVars
<1>4. LoadsAreAlone'
  BY <1>0 DEF SettingsAnswer, Goes, LoadEnds, LoadsAreAlone, Loading, TypeOK, adapterVars
<1>5. LiveIsHeld'
  BY <1>0 DEF SettingsAnswer, Goes, LoadEnds, LiveIsHeld, adapterVars
<1>6. RowsAreTheirs'
  BY <1>0 DEF SettingsAnswer, Goes, LoadEnds, RowsAreTheirs, ThreadOf, TypeOK, Flow,
     adapterVars, startVars
<1>7. StopIsSeen'
  BY <1>0 DEF SettingsAnswer, Goes, LoadEnds, StopIsSeen, TypeOK, Flow, adapterVars,
     startVars, bounds
<1>8. WatchedIsCovered'
  BY <1>0 DEF SettingsAnswer, Goes, LoadEnds, WatchedIsCovered, TypeOK, Flow, adapterVars,
     startVars, bounds
<1> QED  BY <1>1, <1>2, <1>3, <1>4, <1>5, <1>6, <1>7, <1>8 DEF BringUpInv

\* A bring-up that finds its row live is done.
LEMMA RowIsLiveKeeps ==
  ASSUME BringUpInv, NEW t \in Thread, RowIsLive(t), UNCHANGED <<stored, minted, adapterVars, startVars, bounds>>
  PROVE  BringUpInv'
<1>0. /\ TypeOK /\ AttemptIsLeft /\ FlowsFitTheConnection /\ LoadsAreAlone
      /\ LiveIsHeld /\ RowsAreTheirs /\ StopIsSeen /\ WatchedIsCovered
  BY DEF BringUpInv
<1>1. TypeOK'
  BY <1>0, BoundsAssumption DEF RowIsLive, TypeOK, Awaits, Micro, None, adapterVars,
     startVars, bounds
<1>2. AttemptIsLeft'
  BY <1>0 DEF RowIsLive, AttemptIsLeft, startVars
<1>3. FlowsFitTheConnection'
  BY <1>0 DEF RowIsLive, FlowsFitTheConnection, Calls, adapterVars
<1>4. LoadsAreAlone'
  BY <1>0, ThreadsAssumption, BoundsAssumption DEF RowIsLive, LoadsAreAlone, Loading,
     TypeOK, Conversation, Awaits, Micro, None, adapterVars
<1>5. LiveIsHeld'
  BY <1>0 DEF RowIsLive, LiveIsHeld, adapterVars
<1>6. RowsAreTheirs'
  BY <1>0 DEF RowIsLive, RowsAreTheirs, ThreadOf, TypeOK, adapterVars, startVars
<1>7. StopIsSeen'
  BY <1>0 DEF RowIsLive, StopIsSeen, FlowsFitTheConnection, startVars, bounds
<1>8. WatchedIsCovered'
  BY <1>0, ThreadsAssumption DEF RowIsLive, WatchedIsCovered, Conversation, adapterVars,
     startVars, bounds
<1> QED  BY <1>1, <1>2, <1>3, <1>4, <1>5, <1>6, <1>7, <1>8 DEF BringUpInv

\* A bring-up whose row is not live loads it, or shares the load that runs.
LEMMA RowIsLoadedKeeps ==
  ASSUME BringUpInv, NEW t \in Thread, RowIsLoaded(t), UNCHANGED <<stored, minted, adapterVars, startVars, bounds>>
  PROVE  BringUpInv'
<1>0. /\ TypeOK /\ AttemptIsLeft /\ FlowsFitTheConnection /\ LoadsAreAlone
      /\ LiveIsHeld /\ RowsAreTheirs /\ StopIsSeen /\ WatchedIsCovered
  BY DEF BringUpInv
<1>1. TypeOK'
  BY <1>0, BoundsAssumption DEF RowIsLoaded, Goes, LoadThread, Fill, Connected, TypeOK,
     Awaits, Micro, None, adapterVars, startVars, bounds
<1>2. AttemptIsLeft'
  BY <1>0 DEF RowIsLoaded, Goes, LoadThread, Fill, Connected, AttemptIsLeft, TypeOK, Flow,
     startVars
<1>3. FlowsFitTheConnection'
  BY <1>0 DEF RowIsLoaded, Goes, LoadThread, Fill, Connected, FlowsFitTheConnection,
     Calls, TypeOK, Flow, adapterVars
<1>4. LoadsAreAlone'
  <2> DEFINE c == row[t]
  <2>1. /\ c \in Conversation /\ c \notin live /\ t \in Flow /\ work[t] = "go"
        /\ UNCHANGED <<live, minted>>
        /\ \A g \in Flow : conv'[g] = IF g = t THEN c ELSE conv[g]
    BY <1>0 DEF RowIsLoaded, TypeOK, Flow, LoadThread, adapterVars
  <2>2. CASE Loading(c)
    <3>1. work' = [work EXCEPT ![t] = "share"] /\ UNCHANGED log
      BY <2>2 DEF RowIsLoaded, LoadThread, Goes
    <3>2. \A g \in Flow : work'[g] = IF g = t THEN "share" ELSE work[g]
      BY <1>0, <3>1 DEF TypeOK
    <3>3. \A g \in Flow : work'[g] = "share" => Loading(conv'[g])
      BY <1>0, <2>1, <2>2, <3>2 DEF LoadsAreAlone
    <3>4. \A d : Loading(d) => \E h \in Flow : work'[h] \in {"load", "restore"} /\ conv'[h] = d
      BY <2>1, <3>2 DEF Loading
    <3>5. c # None
      BY <2>1 DEF None, Conversation
    <3> QED  BY <1>0, <2>1, <3>1, <3>2, <3>3, <3>4, <3>5 DEF LoadsAreAlone, Loading
  <2>3. CASE ~Loading(c)
    <3>1. Fill(t, c)
      BY <2>3 DEF RowIsLoaded, LoadThread
    <3>2. \A g \in Flow : work[g] \in {"load", "restore"} => conv[g] # c
      BY <2>3 DEF Loading
    <3>3. \A g \in Flow : g # t => work'[g] = work[g]
      BY <1>0, <3>1 DEF Fill, Goes, TypeOK
    <3>4. \A g \in Flow : work'[g] = "share" =>
            \E h \in Flow : work'[h] \in {"load", "restore"} /\ conv'[h] = conv'[g]
      <4> SUFFICES ASSUME NEW g \in Flow, work'[g] = "share"
                   PROVE  \E h \in Flow : work'[h] \in {"load", "restore"} /\ conv'[h] = conv'[g]
        OBVIOUS
      <4>1. g # t
        BY <1>0, <2>1, <3>1 DEF Fill, Goes, TypeOK
      <4>2. PICK h \in Flow : work[h] \in {"load", "restore"} /\ conv[h] = conv[g]
        BY <1>0, <3>3, <4>1 DEF LoadsAreAlone, Loading
      <4> QED  BY <2>1, <3>3, <4>1, <4>2
    <3>5. c # None
      BY <2>1 DEF None, Conversation
    <3>6. CASE Connected
      <4>1. work'[t] = "load" /\ \A d \in Conversation : log'[d] = IF d = c THEN "filling" ELSE log[d]
        BY <1>0, <2>1, <3>1, <3>6 DEF Fill, Goes, TypeOK
      <4> QED  BY <1>0, <2>1, <3>2, <3>3, <3>4, <3>5, <4>1 DEF LoadsAreAlone, Loading
    <3>7. CASE ~Connected
      <4>1. work'[t] = "broken" /\ \A d \in Conversation : log'[d] = IF d = c THEN "none" ELSE log[d]
        BY <1>0, <2>1, <3>1, <3>7 DEF Fill, Goes, TypeOK
      <4> QED  BY <1>0, <2>1, <3>2, <3>3, <3>4, <3>5, <4>1 DEF LoadsAreAlone, Loading
    <3> QED  BY <3>6, <3>7
  <2> QED  BY <2>2, <2>3
<1>5. LiveIsHeld'
  BY <1>0, BoundsAssumption DEF RowIsLoaded, Goes, LoadThread, Fill, Connected,
     LiveIsHeld, TypeOK, Awaits, Micro, None, adapterVars
<1>6. RowsAreTheirs'
  BY <1>0, ThreadsAssumption DEF RowIsLoaded, Goes, LoadThread, Fill, Connected,
     RowsAreTheirs, ThreadOf, TypeOK, Conversation, Flow, adapterVars, startVars
<1>7. StopIsSeen'
  BY <1>0 DEF RowIsLoaded, Goes, LoadThread, Fill, Connected, StopIsSeen, TypeOK, Flow,
     adapterVars, startVars, bounds
<1>8. WatchedIsCovered'
  BY <1>0, ThreadsAssumption DEF RowIsLoaded, Goes, LoadThread, Fill, Connected,
     WatchedIsCovered, TypeOK, Conversation, Flow, adapterVars, startVars, bounds
<1> QED  BY <1>1, <1>2, <1>3, <1>4, <1>5, <1>6, <1>7, <1>8 DEF BringUpInv

\* A bring-up without a row mints.
LEMMA RowIsEmptyKeeps ==
  ASSUME BringUpInv, NEW t \in Thread, RowIsEmpty(t), UNCHANGED <<stored, minted, adapterVars, startVars, bounds>>
  PROVE  BringUpInv'
<1>0. /\ TypeOK /\ AttemptIsLeft /\ FlowsFitTheConnection /\ LoadsAreAlone
      /\ LiveIsHeld /\ RowsAreTheirs /\ StopIsSeen /\ WatchedIsCovered
  BY DEF BringUpInv
<1>1. TypeOK'
  BY <1>0, BoundsAssumption DEF RowIsEmpty, AskMint, Goes, Connected, TypeOK, Awaits,
     Micro, None, adapterVars, startVars, bounds
<1>2. AttemptIsLeft'
  BY <1>0 DEF RowIsEmpty, AskMint, Goes, Connected, AttemptIsLeft, startVars
<1>3. FlowsFitTheConnection'
  BY <1>0 DEF RowIsEmpty, AskMint, Goes, Connected, FlowsFitTheConnection, Calls, TypeOK,
     adapterVars
<1>4. LoadsAreAlone'
  BY <1>0 DEF RowIsEmpty, AskMint, Goes, Connected, LoadsAreAlone, Loading, adapterVars
<1>5. LiveIsHeld'
  BY <1>0 DEF RowIsEmpty, AskMint, Goes, Connected, LiveIsHeld, adapterVars
<1>6. RowsAreTheirs'
  BY <1>0, ThreadsAssumption DEF RowIsEmpty, AskMint, Goes, Connected, RowsAreTheirs,
     ThreadOf, Conversation, adapterVars, startVars
<1>7. StopIsSeen'
  BY <1>0 DEF RowIsEmpty, AskMint, Goes, Connected, StopIsSeen, adapterVars, startVars,
     bounds
<1>8. WatchedIsCovered'
  BY <1>0, ThreadsAssumption DEF RowIsEmpty, AskMint, Goes, Connected, WatchedIsCovered,
     Conversation, adapterVars, startVars, bounds
<1> QED  BY <1>1, <1>2, <1>3, <1>4, <1>5, <1>6, <1>7, <1>8 DEF BringUpInv

\* A bring-up whose row has just been cleared mints.
LEMMA BringUpMintsKeeps ==
  ASSUME BringUpInv, NEW t \in Thread, BringUpMints(t), UNCHANGED <<stored, minted, adapterVars, startVars, bounds>>
  PROVE  BringUpInv'
<1>0. /\ TypeOK /\ AttemptIsLeft /\ FlowsFitTheConnection /\ LoadsAreAlone
      /\ LiveIsHeld /\ RowsAreTheirs /\ StopIsSeen /\ WatchedIsCovered
  BY DEF BringUpInv
<1>1. TypeOK'
  BY <1>0, BoundsAssumption DEF BringUpMints, Goes, AskMint, Connected, TypeOK, Awaits,
     Micro, None, adapterVars, startVars, bounds
<1>2. AttemptIsLeft'
  BY <1>0 DEF BringUpMints, Goes, AskMint, Connected, AttemptIsLeft, startVars
<1>3. FlowsFitTheConnection'
  BY <1>0 DEF BringUpMints, Goes, AskMint, Connected, FlowsFitTheConnection, Calls,
     TypeOK, adapterVars
<1>4. LoadsAreAlone'
  BY <1>0 DEF BringUpMints, Goes, AskMint, Connected, LoadsAreAlone, Loading, adapterVars
<1>5. LiveIsHeld'
  BY <1>0 DEF BringUpMints, Goes, AskMint, Connected, LiveIsHeld, adapterVars
<1>6. RowsAreTheirs'
  BY <1>0 DEF BringUpMints, Goes, AskMint, Connected, RowsAreTheirs, ThreadOf,
     adapterVars, startVars
<1>7. StopIsSeen'
  BY <1>0 DEF BringUpMints, Goes, AskMint, Connected, StopIsSeen, adapterVars, startVars,
     bounds
<1>8. WatchedIsCovered'
  BY <1>0, ThreadsAssumption DEF BringUpMints, Goes, AskMint, Connected, WatchedIsCovered,
     Conversation, adapterVars, startVars, bounds
<1> QED  BY <1>1, <1>2, <1>3, <1>4, <1>5, <1>6, <1>7, <1>8 DEF BringUpInv

\* A bring-up that holds a conversation pins browsers to what is live.
LEMMA HeldIsPinnedKeeps ==
  ASSUME BringUpInv, NEW t \in Thread, HeldIsPinned(t), UNCHANGED <<stored, minted, adapterVars, startVars, bounds>>
  PROVE  BringUpInv'
<1>0. /\ TypeOK /\ AttemptIsLeft /\ FlowsFitTheConnection /\ LoadsAreAlone
      /\ LiveIsHeld /\ RowsAreTheirs /\ StopIsSeen /\ WatchedIsCovered
  BY DEF BringUpInv
<1>1. TypeOK'
  <2>1. watched' \subseteq Conversation
    BY <1>0 DEF HeldIsPinned, TypeOK, LoadsAreAlone, Flow
  <2>2. /\ work' \in [Flow -> {"off"} \cup Awaits \cup Micro]
        /\ conv' \in [Flow -> Conversation \cup {None}]
        /\ row' \in [Thread -> Conversation \cup {None}]
    BY <1>0 DEF HeldIsPinned, TypeOK, Flow
  <2> QED  BY <1>0, <2>1, <2>2 DEF HeldIsPinned, TypeOK, adapterVars, startVars, bounds
<1>2. AttemptIsLeft'
  BY <1>0 DEF HeldIsPinned, AttemptIsLeft, startVars
<1>3. FlowsFitTheConnection'
  BY <1>0 DEF HeldIsPinned, FlowsFitTheConnection, Calls, adapterVars
<1>4. LoadsAreAlone'
  BY <1>0 DEF HeldIsPinned, LoadsAreAlone, Loading, TypeOK, adapterVars
<1>5. LiveIsHeld'
  BY <1>0 DEF HeldIsPinned, LiveIsHeld, adapterVars
<1>6. RowsAreTheirs'
  BY <1>0, BoundsAssumption DEF HeldIsPinned, RowsAreTheirs, ThreadOf, TypeOK, Awaits,
     Micro, None, adapterVars, startVars
<1>7. StopIsSeen'
  BY <1>0, ThreadsAssumption DEF HeldIsPinned, StopIsSeen, Conversation, adapterVars,
     startVars, bounds
<1>8. WatchedIsCovered'
  <2>1. t \in Flow /\ t # Start
    BY ThreadsAssumption DEF Flow
  <2>2. conn = "up" => conv[t] \in live
    BY <1>0, <2>1 DEF HeldIsPinned, RowsAreTheirs
  <2>3. work'[Start] = work[Start] /\ conv'[Start] = conv[Start]
    BY <1>0, <2>1 DEF HeldIsPinned, TypeOK
  <2> QED  BY <1>0, <2>2, <2>3 DEF HeldIsPinned, WatchedIsCovered, adapterVars, startVars, bounds
<1> QED  BY <1>1, <1>2, <1>3, <1>4, <1>5, <1>6, <1>7, <1>8 DEF BringUpInv

\* The conversation that a bring-up minted goes into the row of its thread, where no
\* other flow has put one.
LEMMA MintedIsPinnedKeeps ==
  ASSUME BringUpInv, NEW t \in Thread, MintedIsPinned(t), UNCHANGED <<stored, minted, adapterVars, startVars, bounds>>
  PROVE  BringUpInv'
<1>0. /\ TypeOK /\ AttemptIsLeft /\ FlowsFitTheConnection /\ LoadsAreAlone
      /\ LiveIsHeld /\ RowsAreTheirs /\ StopIsSeen /\ WatchedIsCovered
  BY DEF BringUpInv
<1>1. TypeOK'
  <2>1. watched' \subseteq Conversation
    BY <1>0 DEF MintedIsPinned, TypeOK, LoadsAreAlone, Flow
  <2>2. /\ work' \in [Flow -> {"off"} \cup Awaits \cup Micro]
        /\ conv' \in [Flow -> Conversation \cup {None}]
        /\ row' \in [Thread -> Conversation \cup {None}]
    BY <1>0 DEF MintedIsPinned, TypeOK, Flow
  <2> QED  BY <1>0, <2>1, <2>2 DEF MintedIsPinned, TypeOK, adapterVars, startVars, bounds
<1>2. AttemptIsLeft'
  BY <1>0 DEF MintedIsPinned, AttemptIsLeft, startVars
<1>3. FlowsFitTheConnection'
  BY <1>0 DEF MintedIsPinned, FlowsFitTheConnection, Calls, adapterVars
<1>4. LoadsAreAlone'
  BY <1>0 DEF MintedIsPinned, LoadsAreAlone, Loading, TypeOK, adapterVars
<1>5. LiveIsHeld'
  BY <1>0 DEF MintedIsPinned, LiveIsHeld, adapterVars
<1>6. RowsAreTheirs'
  BY <1>0, BoundsAssumption DEF MintedIsPinned, RowsAreTheirs, LoadsAreAlone,
     FlowsFitTheConnection, Calls, Loading, ThreadOf, TypeOK, Flow, Awaits, Micro, None,
     adapterVars, startVars
<1>7. StopIsSeen'
  BY <1>0, ThreadsAssumption DEF MintedIsPinned, StopIsSeen, Conversation, adapterVars,
     startVars, bounds
<1>8. WatchedIsCovered'
  <2>1. t \in Flow /\ t # Start
    BY ThreadsAssumption DEF Flow
  <2>2. conn = "up" => conv[t] \in live
    BY <1>0, <2>1 DEF MintedIsPinned, RowsAreTheirs
  <2>3. work'[Start] = work[Start] /\ conv'[Start] = conv[Start]
    BY <1>0, <2>1 DEF MintedIsPinned, TypeOK
  <2> QED  BY <1>0, <2>2, <2>3 DEF MintedIsPinned, WatchedIsCovered, adapterVars, startVars, bounds
<1> QED  BY <1>1, <1>2, <1>3, <1>4, <1>5, <1>6, <1>7, <1>8 DEF BringUpInv

\* A bring-up that throws leaves what the connection holds.
LEMMA BringUpThrowsKeeps ==
  ASSUME BringUpInv, NEW t \in Thread, BringUpThrows(t), UNCHANGED <<stored, minted, adapterVars, startVars, bounds>>
  PROVE  BringUpInv'
<1>0. /\ TypeOK /\ AttemptIsLeft /\ FlowsFitTheConnection /\ LoadsAreAlone
      /\ LiveIsHeld /\ RowsAreTheirs /\ StopIsSeen /\ WatchedIsCovered
  BY DEF BringUpInv
<1>1. TypeOK'
  BY <1>0 DEF BringUpThrows, Goes, Ends, TypeOK, adapterVars, startVars, bounds
<1>2. AttemptIsLeft'
  BY <1>0 DEF BringUpThrows, Goes, Ends, AttemptIsLeft, startVars
<1>3. FlowsFitTheConnection'
  BY <1>0 DEF BringUpThrows, Goes, Ends, FlowsFitTheConnection, Calls, adapterVars
<1>4. LoadsAreAlone'
  BY <1>0 DEF BringUpThrows, Goes, Ends, LoadsAreAlone, Loading, adapterVars
<1>5. LiveIsHeld'
  BY <1>0 DEF BringUpThrows, Goes, Ends, LiveIsHeld, adapterVars
<1>6. RowsAreTheirs'
  BY <1>0, BoundsAssumption DEF BringUpThrows, Goes, Ends, RowsAreTheirs, ThreadOf,
     TypeOK, Awaits, Micro, None, adapterVars, startVars
<1>7. StopIsSeen'
  BY <1>0, ThreadsAssumption DEF BringUpThrows, Goes, Ends, StopIsSeen, Conversation,
     adapterVars, startVars, bounds
<1>8. WatchedIsCovered'
  BY <1>0, ThreadsAssumption DEF BringUpThrows, Goes, Ends, WatchedIsCovered,
     Conversation, adapterVars, startVars, bounds
<1> QED  BY <1>1, <1>2, <1>3, <1>4, <1>5, <1>6, <1>7, <1>8 DEF BringUpInv

\* When the latest thread is on the adapter, every watched conversation is still ahead
\* of the start.
LEMMA LatestIsHeldKeeps ==
  ASSUME BringUpInv, LatestIsHeld, UNCHANGED <<stored, minted, bounds>>
  PROVE  BringUpInv'
<1>0. /\ TypeOK /\ AttemptIsLeft /\ FlowsFitTheConnection /\ LoadsAreAlone
      /\ LiveIsHeld /\ RowsAreTheirs /\ StopIsSeen /\ WatchedIsCovered
  BY DEF BringUpInv
<1>1. TypeOK'
  BY <1>0, BoundsAssumption DEF LatestIsHeld, Goes, TypeOK, Flow, Awaits, Micro, None,
     adapterVars, bounds
<1>2. AttemptIsLeft'
  BY <1>0 DEF LatestIsHeld, Goes, AttemptIsLeft
<1>3. FlowsFitTheConnection'
  BY <1>0 DEF LatestIsHeld, Goes, FlowsFitTheConnection, Calls, adapterVars
<1>4. LoadsAreAlone'
  BY <1>0 DEF LatestIsHeld, Goes, LoadsAreAlone, Loading, adapterVars
<1>5. LiveIsHeld'
  BY <1>0 DEF LatestIsHeld, Goes, LiveIsHeld, adapterVars
<1>6. RowsAreTheirs'
  BY <1>0 DEF LatestIsHeld, Goes, RowsAreTheirs, LoadsAreAlone, FlowsFitTheConnection,
     Calls, Loading, ThreadOf, TypeOK, Flow, adapterVars
<1>7. StopIsSeen'
  BY <1>0 DEF LatestIsHeld, Goes, StopIsSeen, bounds
<1>8. WatchedIsCovered'
  BY <1>0 DEF LatestIsHeld, Goes, WatchedIsCovered
<1> QED  BY <1>1, <1>2, <1>3, <1>4, <1>5, <1>6, <1>7, <1>8 DEF BringUpInv

\* The start mints for the thread whose row it has just cleared.
LEMMA LatestIsGoneKeeps ==
  ASSUME BringUpInv, LatestIsGone, UNCHANGED <<stored, minted, bounds>>
  PROVE  BringUpInv'
<1>0. /\ TypeOK /\ AttemptIsLeft /\ FlowsFitTheConnection /\ LoadsAreAlone
      /\ LiveIsHeld /\ RowsAreTheirs /\ StopIsSeen /\ WatchedIsCovered
  BY DEF BringUpInv
<1>1. TypeOK'
  BY <1>0, BoundsAssumption DEF LatestIsGone, Goes, AskMint, Connected, TypeOK, Awaits,
     Micro, None, adapterVars, startVars, bounds
<1>2. AttemptIsLeft'
  BY <1>0 DEF LatestIsGone, Goes, AskMint, Connected, AttemptIsLeft, startVars
<1>3. FlowsFitTheConnection'
  BY <1>0 DEF LatestIsGone, Goes, AskMint, Connected, FlowsFitTheConnection, Calls,
     TypeOK, adapterVars
<1>4. LoadsAreAlone'
  BY <1>0 DEF LatestIsGone, Goes, AskMint, Connected, LoadsAreAlone, Loading, adapterVars
<1>5. LiveIsHeld'
  BY <1>0 DEF LatestIsGone, Goes, AskMint, Connected, LiveIsHeld, adapterVars
<1>6. RowsAreTheirs'
  BY <1>0 DEF LatestIsGone, Goes, AskMint, Connected, RowsAreTheirs, ThreadOf,
     adapterVars, startVars
<1>7. StopIsSeen'
  BY <1>0 DEF LatestIsGone, Goes, AskMint, Connected, StopIsSeen, bounds
<1>8. WatchedIsCovered'
  BY <1>0 DEF LatestIsGone, Goes, AskMint, Connected, WatchedIsCovered, startVars
<1> QED  BY <1>1, <1>2, <1>3, <1>4, <1>5, <1>6, <1>7, <1>8 DEF BringUpInv

\* A fault on the latest thread fails the attempt; the connection is torn down by the
\* step after.
LEMMA LatestIsBrokenKeeps ==
  ASSUME BringUpInv, LatestIsBroken, UNCHANGED <<stored, minted, bounds>>
  PROVE  BringUpInv'
<1>0. /\ TypeOK /\ AttemptIsLeft /\ FlowsFitTheConnection /\ LoadsAreAlone
      /\ LiveIsHeld /\ RowsAreTheirs /\ StopIsSeen /\ WatchedIsCovered
  BY DEF BringUpInv
<1>1. TypeOK'
  BY <1>0, BoundsAssumption DEF LatestIsBroken, Goes, TypeOK, Awaits, Micro, None,
     adapterVars, startVars, bounds
<1>2. AttemptIsLeft'
  BY <1>0 DEF LatestIsBroken, Goes, AttemptIsLeft, startVars
<1>3. FlowsFitTheConnection'
  BY <1>0 DEF LatestIsBroken, Goes, FlowsFitTheConnection, Calls, adapterVars
<1>4. LoadsAreAlone'
  BY <1>0 DEF LatestIsBroken, Goes, LoadsAreAlone, Loading, adapterVars
<1>5. LiveIsHeld'
  BY <1>0 DEF LatestIsBroken, Goes, LiveIsHeld, adapterVars
<1>6. RowsAreTheirs'
  BY <1>0 DEF LatestIsBroken, Goes, RowsAreTheirs, ThreadOf, adapterVars
<1>7. StopIsSeen'
  BY <1>0 DEF LatestIsBroken, Goes, StopIsSeen, bounds
<1>8. WatchedIsCovered'
  BY <1>0 DEF LatestIsBroken, Goes, WatchedIsCovered, TypeOK, Flow
<1> QED  BY <1>1, <1>2, <1>3, <1>4, <1>5, <1>6, <1>7, <1>8 DEF BringUpInv

\* A watched conversation is live after its load, or its browsers are dropped.
LEMMA WatchedIsLoadedKeeps ==
  ASSUME BringUpInv, WatchedIsLoaded, UNCHANGED <<stored, minted, bounds>>
  PROVE  BringUpInv'
<1>0. /\ TypeOK /\ AttemptIsLeft /\ FlowsFitTheConnection /\ LoadsAreAlone
      /\ LiveIsHeld /\ RowsAreTheirs /\ StopIsSeen /\ WatchedIsCovered
  BY DEF BringUpInv
<1>1. TypeOK'
  BY <1>0, BoundsAssumption DEF WatchedIsLoaded, Goes, TypeOK, Awaits, Micro, None,
     adapterVars, startVars, bounds
<1>2. AttemptIsLeft'
  BY <1>0 DEF WatchedIsLoaded, Goes, AttemptIsLeft, startVars
<1>3. FlowsFitTheConnection'
  BY <1>0 DEF WatchedIsLoaded, Goes, FlowsFitTheConnection, Calls, adapterVars
<1>4. LoadsAreAlone'
  BY <1>0 DEF WatchedIsLoaded, Goes, LoadsAreAlone, Loading, adapterVars
<1>5. LiveIsHeld'
  BY <1>0 DEF WatchedIsLoaded, Goes, LiveIsHeld, adapterVars
<1>6. RowsAreTheirs'
  BY <1>0 DEF WatchedIsLoaded, Goes, RowsAreTheirs, ThreadOf, TypeOK, Flow, adapterVars
<1>7. StopIsSeen'
  BY <1>0 DEF WatchedIsLoaded, Goes, StopIsSeen, bounds
<1>8. WatchedIsCovered'
  BY <1>0, BoundsAssumption DEF WatchedIsLoaded, Goes, WatchedIsCovered, RowsAreTheirs,
     Flow, Awaits, Micro, None, adapterVars, startVars, bounds
<1> QED  BY <1>1, <1>2, <1>3, <1>4, <1>5, <1>6, <1>7, <1>8 DEF BringUpInv

\* The watched conversation that the start takes is live already, or in hand, or
\* dropped.
LEMMA NextWatchedKeeps ==
  ASSUME BringUpInv, NEW c \in Conversation, NextWatched(c), UNCHANGED <<stored, minted, bounds>>
  PROVE  BringUpInv'
<1>0. /\ TypeOK /\ AttemptIsLeft /\ FlowsFitTheConnection /\ LoadsAreAlone
      /\ LiveIsHeld /\ RowsAreTheirs /\ StopIsSeen /\ WatchedIsCovered
  BY DEF BringUpInv
<1>1. TypeOK'
  <2>1. work' \in [Flow -> {"off"} \cup Awaits \cup Micro]
    BY <1>0 DEF NextWatched, Goes, LoadThread, Fill, TypeOK, Awaits, Micro, Flow
  <2>2. log' \in [Conversation -> {"none", "filling", "open"}]
    BY <1>0 DEF NextWatched, LoadThread, Fill, TypeOK
  <2>3. conv' \in [Flow -> Conversation \cup {None}]
    BY <1>0 DEF NextWatched, LoadThread, TypeOK
  <2>4. aim' \in Thread \cup {None} /\ todo' \subseteq Conversation /\ watched' \subseteq Conversation
    BY <1>0 DEF NextWatched, TypeOK
  <2> QED  BY <1>0, <2>1, <2>2, <2>3, <2>4 DEF NextWatched, TypeOK, adapterVars, bounds
<1>2. AttemptIsLeft'
  BY <1>0 DEF NextWatched, Goes, LoadThread, Fill, Connected, AttemptIsLeft
<1>3. FlowsFitTheConnection'
  BY <1>0 DEF NextWatched, Goes, LoadThread, Fill, Connected, FlowsFitTheConnection,
     Calls, TypeOK, Flow, adapterVars
<1>4. LoadsAreAlone'
  <2>0. /\ work[Start] = "next" /\ Start \in Flow /\ live' = live /\ c # None
    BY <1>0, BoundsAssumption DEF NextWatched, Flow, Conversation, None, adapterVars
  <2>1. CASE UNCHANGED <<work, conv, log>>
    BY <1>0, <2>0, <2>1 DEF LoadsAreAlone, Loading
  <2>2. CASE c \notin live /\ LoadThread(Start, c) /\ Loading(c)
    BY <1>0, <2>0, <2>2 DEF LoadThread, Goes, LoadsAreAlone, Loading, TypeOK
  <2>3. CASE c \notin live /\ LoadThread(Start, c) /\ ~Loading(c) /\ Connected
    BY <1>0, <2>0, <2>3 DEF LoadThread, Fill, Goes, LoadsAreAlone, Loading, TypeOK
  <2>4. CASE c \notin live /\ LoadThread(Start, c) /\ ~Loading(c) /\ ~Connected
    BY <1>0, <2>0, <2>4 DEF LoadThread, Fill, Goes, LoadsAreAlone, Loading, TypeOK
  <2> QED
    BY <1>0, <2>1, <2>2, <2>3, <2>4 DEF NextWatched
<1>5. LiveIsHeld'
  BY <1>0, BoundsAssumption DEF NextWatched, Goes, LoadThread, Fill, Connected,
     LiveIsHeld, TypeOK, Awaits, Micro, None, adapterVars
<1>6. RowsAreTheirs'
  BY <1>0 DEF NextWatched, Goes, LoadThread, Fill, Connected, RowsAreTheirs, ThreadOf,
     TypeOK, adapterVars
<1>7. StopIsSeen'
  BY <1>0 DEF NextWatched, Goes, LoadThread, Fill, Connected, StopIsSeen, TypeOK, bounds
<1>8. WatchedIsCovered'
  <2>1. /\ work[Start] = "next" /\ todo' = todo \ {c} /\ Start \in Flow
        /\ UNCHANGED <<leg, live, conn, refusals>>
    BY DEF NextWatched, adapterVars, bounds, Flow
  <2>2. leg = "watched" /\ (conn = "up" /\ refusals = 0 => watched \subseteq live \cup todo)
    BY <1>0, <2>1 DEF WatchedIsCovered
  <2>3. CASE UNCHANGED <<work, conv>> /\ watched' \subseteq watched /\ (c \in live \/ c \notin watched')
    BY <2>1, <2>2, <2>3 DEF WatchedIsCovered
  <2>4. CASE UNCHANGED watched /\ LoadThread(Start, c)
    <3>1. conv'[Start] = c /\ work'[Start] \in {"load", "share", "broken"}
      BY <1>0, <2>1, <2>4 DEF LoadThread, Fill, Goes, TypeOK
    <3> QED  BY <2>1, <2>2, <2>4, <3>1 DEF WatchedIsCovered
  <2> QED  BY <2>3, <2>4 DEF NextWatched
<1> QED  BY <1>1, <1>2, <1>3, <1>4, <1>5, <1>6, <1>7, <1>8 DEF BringUpInv

\* A stop that came during the loads takes the connection down, and all that is live
\* with it.
LEMMA LoadsAreStoppedKeeps ==
  ASSUME BringUpInv, LoadsAreStopped, UNCHANGED <<stored, minted, bounds>>
  PROVE  BringUpInv'
<1>0. /\ TypeOK /\ AttemptIsLeft /\ FlowsFitTheConnection /\ LoadsAreAlone
      /\ LiveIsHeld /\ RowsAreTheirs /\ StopIsSeen /\ WatchedIsCovered
  BY DEF BringUpInv
<1>9. /\ work' \in [Flow -> {"off"} \cup Awaits \cup Micro]
      /\ log' \in [Conversation -> {"none", "filling", "open"}]
      /\ process' = FALSE /\ loaded' = {} /\ conn' = "down" /\ live' = {}
      /\ \A c \in Conversation : log'[c] # "filling" /\ (log[c] = "open" => log'[c] = "open")
      /\ \A f \in Flow : work'[f] \notin Calls \cup {"handshake", "share"}
      /\ work'[Start] = "returns"
      /\ \A f \in Thread : work'[f] = Rejected(f)
  BY <1>0, CloseWakes, ThreadsAssumption DEF LoadsAreStopped, Teardown, Flow, Micro
<1>1. TypeOK'
  BY <1>0, <1>9 DEF LoadsAreStopped, TypeOK, startVars, bounds
<1>2. AttemptIsLeft'
  BY <1>0 DEF LoadsAreStopped, Teardown, AttemptIsLeft, startVars
<1>3. FlowsFitTheConnection'
  <2>1. \A t \in Thread : work'[t] \notin {"container", "backoff", "spawn", "handshake"}
    BY <1>0, <1>9, RejectedGoesOn DEF FlowsFitTheConnection, Flow
  <2> QED  BY <1>9, <2>1 DEF FlowsFitTheConnection
<1>4. LoadsAreAlone'
  <2>1. UNCHANGED conv \/ conv' = [conv EXCEPT ![Start] = None]
    BY DEF LoadsAreStopped
  <2>2. \A f \in Flow : work'[f] \in {"settings", "held", "minted"} =>
          f \in Thread /\ work[f] \in {"settings", "held", "minted", "restore", "share"}
    BY <1>0, <1>9, RejectedGoesOn DEF Flow
  <2>3. \A f \in Thread : conv'[f] = conv[f]
    BY <1>0, <2>1, ThreadsAssumption DEF TypeOK, Flow
  <2> QED  BY <1>0, <1>9, <2>2, <2>3 DEF LoadsAreAlone, Calls
<1>5. LiveIsHeld'
  BY <1>9 DEF LiveIsHeld
<1>6. RowsAreTheirs'
  <2>1. UNCHANGED <<row, minted>> /\ (UNCHANGED conv \/ conv' = [conv EXCEPT ![Start] = None])
    BY DEF LoadsAreStopped
  <2>2. \A f \in Flow : work'[f] \in {"settings", "minted"} => f \in Thread /\ work[f] \in {"settings", "minted"}
    BY <1>0, <1>9, RejectedGoesOn DEF Flow
  <2>3. \A f \in Thread : conv'[f] = conv[f]
    BY <1>0, <2>1, ThreadsAssumption DEF TypeOK, Flow
  <2>4. \A f \in Flow : conv'[f] <= minted
    BY <1>0, <2>1 DEF RowsAreTheirs, TypeOK, None
  <2> QED  BY <1>0, <1>9, <2>1, <2>2, <2>3, <2>4 DEF RowsAreTheirs, Calls
<1>7. StopIsSeen'
  BY <1>0, <1>9, RejectedGoesOn DEF StopIsSeen, Flow, bounds
<1>8. WatchedIsCovered'
  BY <1>9 DEF WatchedIsCovered
<1> QED  BY <1>1, <1>2, <1>3, <1>4, <1>5, <1>6, <1>7, <1>8 DEF BringUpInv

\* With nothing ahead of the start, each watched conversation is live.
LEMMA LoadsAreDoneKeeps ==
  ASSUME BringUpInv, LoadsAreDone, UNCHANGED <<stored, minted, bounds>>
  PROVE  BringUpInv'
<1>0. /\ TypeOK /\ AttemptIsLeft /\ FlowsFitTheConnection /\ LoadsAreAlone
      /\ LiveIsHeld /\ RowsAreTheirs /\ StopIsSeen /\ WatchedIsCovered
  BY DEF BringUpInv
<1>1. TypeOK'
  BY <1>0, BoundsAssumption DEF LoadsAreDone, TypeOK, Awaits, Micro, None, adapterVars,
     startVars, bounds
<1>2. AttemptIsLeft'
  BY <1>0 DEF LoadsAreDone, AttemptIsLeft, TypeOK, Flow
<1>3. FlowsFitTheConnection'
  BY <1>0 DEF LoadsAreDone, FlowsFitTheConnection, Calls, adapterVars
<1>4. LoadsAreAlone'
  BY <1>0 DEF LoadsAreDone, LoadsAreAlone, Loading, adapterVars
<1>5. LiveIsHeld'
  BY <1>0 DEF LoadsAreDone, LiveIsHeld, adapterVars
<1>6. RowsAreTheirs'
  BY <1>0 DEF LoadsAreDone, RowsAreTheirs, ThreadOf, adapterVars
<1>7. StopIsSeen'
  BY <1>0 DEF LoadsAreDone, StopIsSeen, startVars, bounds
<1>8. WatchedIsCovered'
  BY <1>0 DEF LoadsAreDone, WatchedIsCovered, TypeOK, Flow, adapterVars, bounds
<1> QED  BY <1>1, <1>2, <1>3, <1>4, <1>5, <1>6, <1>7, <1>8 DEF BringUpInv

\* A refused load ends the start with the connection up.
LEMMA LoadIsRefusedKeeps ==
  ASSUME BringUpInv, LoadIsRefused, UNCHANGED <<stored, minted, bounds>>
  PROVE  BringUpInv'
<1>0. /\ TypeOK /\ AttemptIsLeft /\ FlowsFitTheConnection /\ LoadsAreAlone
      /\ LiveIsHeld /\ RowsAreTheirs /\ StopIsSeen /\ WatchedIsCovered
  BY DEF BringUpInv
<1>1. TypeOK'
  BY <1>0, BoundsAssumption DEF LoadIsRefused, Goes, TypeOK, Awaits, Micro, None,
     adapterVars, startVars, bounds
<1>2. AttemptIsLeft'
  BY <1>0 DEF LoadIsRefused, Goes, AttemptIsLeft, TypeOK, Flow
<1>3. FlowsFitTheConnection'
  BY <1>0 DEF LoadIsRefused, Goes, FlowsFitTheConnection, Calls, adapterVars
<1>4. LoadsAreAlone'
  BY <1>0 DEF LoadIsRefused, Goes, LoadsAreAlone, Loading, adapterVars
<1>5. LiveIsHeld'
  BY <1>0 DEF LoadIsRefused, Goes, LiveIsHeld, adapterVars
<1>6. RowsAreTheirs'
  BY <1>0 DEF LoadIsRefused, Goes, RowsAreTheirs, ThreadOf, adapterVars
<1>7. StopIsSeen'
  BY <1>0 DEF LoadIsRefused, Goes, StopIsSeen, Flow, bounds
<1>8. WatchedIsCovered'
  <2>1. Start \in Flow /\ refusals' # 0
    BY <1>0 DEF LoadIsRefused, StopIsSeen, Flow, bounds, TypeOK
  <2>2. work'[Start] = "returns"
    BY <1>0, <2>1 DEF LoadIsRefused, Goes, TypeOK
  <2> QED  BY <2>1, <2>2 DEF WatchedIsCovered
<1> QED  BY <1>1, <1>2, <1>3, <1>4, <1>5, <1>6, <1>7, <1>8 DEF BringUpInv

\* A failed attempt closes the connection under the bring-ups, and the start forgets
\* what it was about.
LEMMA AttemptFailedKeeps ==
  ASSUME BringUpInv, AttemptFailed, UNCHANGED <<stored, minted, bounds>>
  PROVE  BringUpInv'
<1>0. /\ TypeOK /\ AttemptIsLeft /\ FlowsFitTheConnection /\ LoadsAreAlone
      /\ LiveIsHeld /\ RowsAreTheirs /\ StopIsSeen /\ WatchedIsCovered
  BY DEF BringUpInv
<1>9. /\ work' \in [Flow -> {"off"} \cup Awaits \cup Micro]
      /\ log' \in [Conversation -> {"none", "filling", "open"}]
      /\ process' = FALSE /\ loaded' = {} /\ conn' = "down" /\ live' = {}
      /\ \A c \in Conversation : log'[c] # "filling" /\ (log[c] = "open" => log'[c] = "open")
      /\ \A f \in Flow : work'[f] \notin Calls \cup {"handshake", "share"}
      /\ work'[Start] \in {"returns", "backoff", "throws"}
      /\ \A f \in Thread : work'[f] = Rejected(f)
  <2>1. PICK phase \in {"returns", "backoff", "throws"} : Close(Start, phase)
    BY DEF AttemptFailed, Teardown
  <2>2. conn' = "down" /\ live' = {}
    BY DEF AttemptFailed, Teardown
  <2>3. \A f \in Thread : f # Start /\ f \in Flow
    BY ThreadsAssumption DEF Flow
  <2>4. phase \in {"off"} \cup Micro \cup {"backoff"} /\ Start \in Flow
    BY DEF Micro, Flow
  <2>5. /\ work' \in [Flow -> {"off"} \cup Awaits \cup Micro]
        /\ log' \in [Conversation -> {"none", "filling", "open"}]
        /\ process' = FALSE /\ loaded' = {}
        /\ \A c \in Conversation : log'[c] # "filling" /\ (log[c] = "open" => log'[c] = "open")
        /\ \A f \in Flow : work'[f] \notin Calls \cup {"handshake", "share"}
        /\ work'[Start] = phase
        /\ \A f \in Flow : f # Start => work'[f] = Rejected(f)
    BY <1>0, <2>1, <2>4, CloseWakes
  <2> QED  BY <2>1, <2>2, <2>3, <2>5
<1>1. TypeOK'
  <2>1. attempt' \in 0..Attempts
    BY <1>0, BoundsAssumption DEF AttemptFailed, TypeOK, AttemptIsLeft
  <2>2. conv' \in [Flow -> Conversation \cup {None}]
    BY <1>0 DEF AttemptFailed, ForgetLoads, TypeOK
  <2> QED  BY <1>0, <1>9, <2>1, <2>2 DEF AttemptFailed, ForgetLoads, TypeOK, bounds
<1>2. AttemptIsLeft'
  BY <1>0 DEF AttemptFailed, Teardown, Close, Rejected, ForgetLoads, AttemptIsLeft, Flow
<1>3. FlowsFitTheConnection'
  <2>1. \A t \in Thread : work'[t] \notin {"container", "backoff", "spawn", "handshake"}
    BY <1>0, <1>9, RejectedGoesOn DEF FlowsFitTheConnection, Flow
  <2> QED  BY <1>9, <2>1 DEF FlowsFitTheConnection
<1>4. LoadsAreAlone'
  <2>1. UNCHANGED conv \/ conv' = [conv EXCEPT ![Start] = None]
    BY DEF AttemptFailed, ForgetLoads
  <2>2. \A f \in Flow : work'[f] \in {"settings", "held", "minted"} =>
          f \in Thread /\ work[f] \in {"settings", "held", "minted", "restore", "share"}
    BY <1>0, <1>9, RejectedGoesOn DEF Flow
  <2>3. \A f \in Thread : conv'[f] = conv[f]
    BY <1>0, <2>1, ThreadsAssumption DEF TypeOK, Flow
  <2> QED  BY <1>0, <1>9, <2>2, <2>3 DEF LoadsAreAlone, Calls
<1>5. LiveIsHeld'
  BY <1>9 DEF LiveIsHeld
<1>6. RowsAreTheirs'
  <2>1. UNCHANGED <<row, minted>> /\ (UNCHANGED conv \/ conv' = [conv EXCEPT ![Start] = None])
    BY DEF AttemptFailed, ForgetLoads
  <2>2. \A f \in Flow : work'[f] \in {"settings", "minted"} => f \in Thread /\ work[f] \in {"settings", "minted"}
    BY <1>0, <1>9, RejectedGoesOn DEF Flow
  <2>3. \A f \in Thread : conv'[f] = conv[f]
    BY <1>0, <2>1, ThreadsAssumption DEF TypeOK, Flow
  <2>4. \A f \in Flow : conv'[f] <= minted
    BY <1>0, <2>1 DEF RowsAreTheirs, TypeOK, None
  <2> QED  BY <1>0, <1>9, <2>1, <2>2, <2>3, <2>4 DEF RowsAreTheirs, Calls
<1>7. StopIsSeen'
  BY <1>0, <1>9, RejectedGoesOn DEF StopIsSeen, Flow, bounds
<1>8. WatchedIsCovered'
  BY <1>9 DEF WatchedIsCovered
<1> QED  BY <1>1, <1>2, <1>3, <1>4, <1>5, <1>6, <1>7, <1>8 DEF BringUpInv

\* A start that settles lets the waiting bring-ups go on or throw.
LEMMA StartSettlesKeeps ==
  ASSUME BringUpInv, StartSettles, UNCHANGED <<stored, minted, bounds>>
  PROVE  BringUpInv'
<1>0. /\ TypeOK /\ AttemptIsLeft /\ FlowsFitTheConnection /\ LoadsAreAlone
      /\ LiveIsHeld /\ RowsAreTheirs /\ StopIsSeen /\ WatchedIsCovered
  BY DEF BringUpInv
<1>1. TypeOK'
  BY <1>0, BoundsAssumption DEF StartSettles, TypeOK, Flow, Awaits, Micro, None,
     adapterVars, bounds
<1>2. AttemptIsLeft'
  BY <1>0, BoundsAssumption DEF StartSettles, AttemptIsLeft, Awaits, Micro, None
<1>3. FlowsFitTheConnection'
  BY <1>0 DEF StartSettles, FlowsFitTheConnection, Calls, Flow, adapterVars
<1>4. LoadsAreAlone'
  <2>1. /\ \A f \in Flow : \A w \in Calls \cup {"share", "held", "minted"} : work'[f] = w <=> work[f] = w
        /\ work'[Start] = "off"
    BY DEF StartSettles, Flow, Calls
  <2>2. \A f \in Flow : work[f] \in Calls \cup {"share", "held", "minted"} => conv'[f] = conv[f]
    BY <1>0 DEF StartSettles, TypeOK, Calls
  <2>3. UNCHANGED <<log, live>>
    BY DEF StartSettles, adapterVars
  <2>4. \A f \in Flow : work'[f] = "share" =>
          \E g \in Flow : work'[g] \in {"load", "restore"} /\ conv'[g] = conv'[f]
    BY <1>0, <2>1, <2>2 DEF LoadsAreAlone, Loading, Calls
  <2> QED  BY <1>0, <2>1, <2>2, <2>3, <2>4 DEF LoadsAreAlone, Calls, Loading
<1>5. LiveIsHeld'
  BY <1>0 DEF StartSettles, LiveIsHeld, adapterVars
<1>6. RowsAreTheirs'
  BY <1>0, BoundsAssumption DEF StartSettles, RowsAreTheirs, ThreadOf, TypeOK, Flow,
     Awaits, Micro, None, adapterVars
<1>7. StopIsSeen'
  BY <1>0 DEF StartSettles, StopIsSeen, adapterVars, bounds
<1>8. WatchedIsCovered'
  BY <1>0 DEF StartSettles, WatchedIsCovered, Flow, adapterVars, bounds
<1> QED  BY <1>1, <1>2, <1>3, <1>4, <1>5, <1>6, <1>7, <1>8 DEF BringUpInv

(***************************************************************************)
(* The invariant.                                                          *)
(***************************************************************************)

\* A fresh gateway satisfies the invariant.
LEMMA BringUpBegins == Init => BringUpInv
<1> SUFFICES ASSUME Init PROVE BringUpInv
  OBVIOUS
<1>1. /\ \A f \in Flow : work[f] = "off" /\ conv[f] = None
      /\ \A c \in Conversation : log[c] = "none"
      /\ \A t \in Thread : row[t] = None
      /\ Start \in Flow /\ work[Start] = "off"
  BY DEF Init, Flow
<1>2. TypeOK /\ AttemptIsLeft
  <2>1. /\ row \in [Thread -> Conversation \cup {None}]
        /\ conv \in [Flow -> Conversation \cup {None}]
        /\ log \in [Conversation -> {"none", "filling", "open"}]
        /\ work \in [Flow -> {"off"} \cup Awaits \cup Micro]
    BY DEF Init
  <2>2. /\ minted \in 0..MaxConversations /\ attempt \in 0..Attempts /\ attempt < Attempts
        /\ faults \in 0..MaxFaults /\ refusals \in 0..MaxRefusals /\ stops \in 0..MaxStops
    BY BoundsAssumption DEF Init
  <2> QED  BY <2>1, <2>2 DEF Init, TypeOK, AttemptIsLeft
<1>3. FlowsFitTheConnection
  BY <1>1 DEF Init, FlowsFitTheConnection, Calls, Flow
<1>4. LoadsAreAlone /\ LiveIsHeld
  BY <1>1 DEF Init, LoadsAreAlone, LiveIsHeld
<1>5. RowsAreTheirs
  BY <1>1 DEF Init, RowsAreTheirs, None
<1>6. StopIsSeen /\ WatchedIsCovered
  BY <1>1 DEF Init, StopIsSeen, WatchedIsCovered
<1> QED  BY <1>2, <1>3, <1>4, <1>5, <1>6 DEF BringUpInv

\* An answer that a flow awaits keeps the invariant.
LEMMA CallAnsweredKeeps ==
  ASSUME BringUpInv, NEW f \in Flow, CallAnswered(f)
  PROVE  BringUpInv'
<1>1. Quiet /\ UNCHANGED <<stored, watched>>
  BY DEF CallAnswered
<1>2. CASE f = Start /\ ContainerAnswers
  BY <1>1, <1>2, ContainerAnswersKeeps
<1>3. CASE f = Start /\ BackoffEnds
  BY <1>1, <1>3, BackoffEndsKeeps
<1>4. CASE f = Start /\ SpawnAnswers
  BY <1>1, <1>4, SpawnAnswersKeeps
<1>5. CASE f = Start /\ HandshakeAnswers
  BY <1>1, <1>5, HandshakeAnswersKeeps
<1>6. CASE LoadAnswers(f)
  <2>1. LoadSucceeds(f) \/ LoadIsGone(f) \/ LoadFails(f)
    BY <1>6 DEF LoadAnswers, LoadSucceeds, LoadIsGone, LoadFails, Goes
  <2> QED  BY <1>1, <2>1, LoadSucceedsKeeps, LoadIsGoneKeeps, LoadFailsKeeps
<1>7. CASE MintAnswers(f)
  <2>1. MintSucceeds(f) \/ MintFails(f)
    BY <1>7 DEF MintAnswers, MintSucceeds, MintFails, Goes
  <2> QED  BY <1>1, <2>1, MintSucceedsKeeps, MintFailsKeeps
<1>8. CASE SettingsAnswer(f)
  BY <1>1, <1>8, SettingsAnswerKeeps
<1> QED  BY <1>2, <1>3, <1>4, <1>5, <1>6, <1>7, <1>8 DEF CallAnswered

\* A bring-up that goes on keeps the invariant.
LEMMA BringUpGoesOnKeeps ==
  ASSUME BringUpInv, NEW t \in Thread, BringUpGoesOn(t)
  PROVE  BringUpInv'
<1>1. UNCHANGED <<stored, minted, adapterVars, startVars, bounds>>
  BY DEF BringUpGoesOn
<1>2. CASE BringUpReads(t)
  <2>1. RowIsLive(t) \/ RowIsLoaded(t) \/ RowIsEmpty(t)
    BY <1>2 DEF BringUpReads, RowIsLive, RowIsLoaded, RowIsEmpty, Goes
  <2> QED  BY <1>1, <2>1, RowIsLiveKeeps, RowIsLoadedKeeps, RowIsEmptyKeeps
<1>3. CASE BringUpMints(t)
  BY <1>1, <1>3, BringUpMintsKeeps
<1>4. CASE BringUpEnds(t)
  <2>1. HeldIsPinned(t) \/ MintedIsPinned(t)
    BY <1>4 DEF BringUpEnds, Ends, Goes, HeldIsPinned, MintedIsPinned
  <2> QED  BY <1>1, <2>1, HeldIsPinnedKeeps, MintedIsPinnedKeeps
<1>5. CASE BringUpThrows(t)
  BY <1>1, <1>5, BringUpThrowsKeeps
<1> QED  BY <1>2, <1>3, <1>4, <1>5 DEF BringUpGoesOn

\* A start that goes on keeps the invariant.
LEMMA StartGoesOnKeeps ==
  ASSUME BringUpInv, StartGoesOn
  PROVE  BringUpInv'
<1>1. UNCHANGED <<stored, minted, bounds>>
  BY DEF StartGoesOn
<1>2. CASE LatestIsHeld
  BY <1>1, <1>2, LatestIsHeldKeeps
<1>3. CASE LatestIsGone
  BY <1>1, <1>3, LatestIsGoneKeeps
<1>4. CASE LatestIsBroken
  BY <1>1, <1>4, LatestIsBrokenKeeps
<1>5. CASE WatchedIsLoaded
  BY <1>1, <1>5, WatchedIsLoadedKeeps
<1>6. CASE \E c \in Conversation : NextWatched(c)
  BY <1>1, <1>6, NextWatchedKeeps
<1>7. CASE LoadedAll
  <2>1. LoadsAreStopped \/ LoadsAreDone
    BY <1>7 DEF LoadedAll, LoadsAreStopped, LoadsAreDone, Goes
  <2> QED  BY <1>1, <2>1, LoadsAreStoppedKeeps, LoadsAreDoneKeeps
<1>8. CASE LoadIsRefused
  BY <1>1, <1>8, LoadIsRefusedKeeps
<1>9. CASE AttemptFailed
  BY <1>1, <1>9, AttemptFailedKeeps
<1>10. CASE StartSettles
  BY <1>1, <1>10, StartSettlesKeeps
<1> QED  BY <1>2, <1>3, <1>4, <1>5, <1>6, <1>7, <1>8, <1>9, <1>10 DEF StartGoesOn

\* A step that changes nothing keeps the invariant.
LEMMA BringUpStutters ==
  ASSUME BringUpInv, UNCHANGED vars
  PROVE  BringUpInv'
<1>1. UNCHANGED <<row, stored, minted, log, watched, work, conv, process, conn, live, loaded,
                  stopping, aim, leg, todo, attempt, faults, refusals, stops>>
  BY DEF vars, adapterVars, startVars, bounds
<1> QED  BY <1>1 DEF BringUpInv, TypeOK, AttemptIsLeft, FlowsFitTheConnection, LoadsAreAlone,
                     Loading, LiveIsHeld, RowsAreTheirs, ThreadOf, StopIsSeen, WatchedIsCovered

\* Each step of the specification keeps the invariant.
LEMMA BringUpSteps == BringUpInv /\ [Next]_vars => BringUpInv'
<1> SUFFICES ASSUME BringUpInv, [Next]_vars PROVE BringUpInv'
  OBVIOUS
<1>1. CASE \E t \in Thread : OpenThread(t)
  BY <1>1, OpenThreadKeeps
<1>2. CASE MessageStarts
  BY <1>2, MessageStartsKeeps
<1>3. CASE \E c \in Conversation : AgentIsPrompted(c) \/ Detach(c)
  BY <1>3, AgentIsPromptedKeeps, DetachKeeps
<1>4. CASE Stop
  BY <1>4, StopKeeps
<1>5. CASE AdapterExits
  BY <1>5, AdapterExitsKeeps
<1>6. CASE \E f \in Flow : CallAnswered(f)
  BY <1>6, CallAnsweredKeeps
<1>7. CASE \E t \in Thread : BringUpGoesOn(t)
  BY <1>7, BringUpGoesOnKeeps
<1>8. CASE StartGoesOn
  BY <1>8, StartGoesOnKeeps
<1>9. CASE UNCHANGED vars
  BY <1>9, BringUpStutters
<1> QED  BY <1>1, <1>2, <1>3, <1>4, <1>5, <1>6, <1>7, <1>8, <1>9 DEF Next

\* What the flows of one box await, what its log, its rows and its watchers are, always
\* fits together (BringUpInv), however the answers, exits and stops interleave
\* (adapter.ts, upstream.ts).
THEOREM BringUpInvariant == Spec => []BringUpInv
BY BringUpBegins, BringUpSteps, PTL DEF Spec

\* The invariant says what the checked property asks: one load fills a log.
LEMMA BringUpInvServes == BringUpInv => ThreadsAreServed
<1> SUFFICES ASSUME BringUpInv PROVE ThreadsAreServed
  OBVIOUS
<1>1. TypeOK /\ LiveIsHeld
  BY DEF BringUpInv
<1>2. FillHasOneLoad
  <2> SUFFICES ASSUME NEW c \in Conversation
               PROVE  LET loads == {f \in Flow : work[f] = "load" /\ conv[f] = c} IN
                      IF log[c] = "filling" THEN Cardinality(loads) = 1 ELSE loads = {}
    BY DEF FillHasOneLoad
  <2> DEFINE loads == {f \in Flow : work[f] = "load" /\ conv[f] = c}
  <2>1. log[c] = "filling" <=> \E f \in Flow : work[f] = "load" /\ conv[f] = c
    BY DEF BringUpInv, LoadsAreAlone
  <2>2. CASE log[c] = "filling"
    <3>1. PICK f \in loads : TRUE
      BY <2>1, <2>2
    <3>2. loads = {f}
      BY <3>1 DEF BringUpInv, LoadsAreAlone
    <3>3. Cardinality({f}) = 1
      BY FS_Singleton
    <3> QED  BY <2>2, <3>2, <3>3
  <2>3. CASE log[c] # "filling"
    BY <2>1, <2>3
  <2> QED  BY <2>2, <2>3
<1>3. WatchersAreServed
  BY DEF BringUpInv, WatchedIsCovered, WatchersAreServed
<1>4. StopLeavesNothing
  BY DEF BringUpInv, StopIsSeen, FlowsFitTheConnection, StopLeavesNothing
<1> QED  BY <1>1, <1>2, <1>3, <1>4 DEF ThreadsAreServed, LoadsAreHeld

\* A thread that the connection takes for live is in the memory of the adapter with a
\* whole log, one load fills a log, a browser of a started connection is served, and a
\* stop leaves no adapter behind, for any number of threads and conversations and for
\* every interleaving of bring-ups, exits, faults and stops (adapter.ts, upstream.ts).
THEOREM ThreadsAreAlwaysServed == Spec => []ThreadsAreServed
BY BringUpInvariant, BringUpInvServes, PTL

\* Only a load that the adapter answers with "resource not found" clears a row, and it
\* clears the row of the conversation that was not found.
LEMMA RowsAreKeptByAStep ==
  ASSUME BringUpInv, [Next]_vars
  PROVE  \A t \in Thread : row'[t] = None => row[t] \notin stored
<1>1. \A t \in Thread : row[t] = None => row[t] \notin stored
  BY DEF BringUpInv, TypeOK, Conversation, None
<1>2. CASE \E f \in Flow : LoadIsGone(f)
  <2>1. PICK f \in Flow : LoadIsGone(f)
    BY <1>2
  <2>2. row[ThreadOf(f)] = conv[f] /\ conv[f] \notin stored
    BY <2>1 DEF BringUpInv, LoadsAreAlone, RowsAreTheirs, LoadIsGone
  <2> QED  BY <1>1, <2>1, <2>2 DEF LoadIsGone, BringUpInv, TypeOK
<1>3. CASE \E t \in Thread : MintedIsPinned(t)
  <2>1. PICK t \in Thread : MintedIsPinned(t)
    BY <1>3
  <2>2. conv[t] # None
    BY <2>1 DEF BringUpInv, LoadsAreAlone, MintedIsPinned, Flow
  <2> QED  BY <1>1, <2>1, <2>2 DEF MintedIsPinned, BringUpInv, TypeOK
<1>4. CASE LatestIsHeld
  <2>1. work[Start] = "minted" => conv[Start] # None
    BY DEF BringUpInv, LoadsAreAlone, Flow
  <2> QED  BY <1>1, <1>4, <2>1 DEF LatestIsHeld, BringUpInv, TypeOK
<1>5. CASE UNCHANGED row
  BY <1>1, <1>5
<1>6. \/ \E f \in Flow : LoadIsGone(f)
      \/ \E t \in Thread : MintedIsPinned(t)
      \/ LatestIsHeld
      \/ UNCHANGED row
  <2>1. CASE \E f \in Flow : CallAnswered(f)
    <3>1. PICK f \in Flow : CallAnswered(f)
      BY <2>1
    <3>2. CASE LoadAnswers(f)
      BY <3>2 DEF LoadAnswers, LoadIsGone
    <3>3. CASE ~LoadAnswers(f)
      BY <3>1, <3>3 DEF CallAnswered, ContainerAnswers, BackoffEnds, SpawnAnswers,
                        HandshakeAnswers, MintAnswers, SettingsAnswer
    <3> QED  BY <3>2, <3>3
  <2>2. CASE \E t \in Thread : BringUpGoesOn(t)
    <3>1. PICK t \in Thread : BringUpGoesOn(t)
      BY <2>2
    <3>2. CASE BringUpEnds(t)
      BY <3>2 DEF BringUpEnds, Ends, Goes, MintedIsPinned
    <3>3. CASE ~BringUpEnds(t)
      BY <3>1, <3>3 DEF BringUpGoesOn, BringUpReads, BringUpMints, BringUpThrows
    <3> QED  BY <3>2, <3>3
  <2>3. CASE StartGoesOn
    BY <2>3 DEF StartGoesOn, LatestIsGone, LatestIsBroken, WatchedIsLoaded, NextWatched,
                LoadedAll, LoadIsRefused, AttemptFailed, ForgetLoads, StartSettles
  <2>4. CASE \/ \E t \in Thread : OpenThread(t)
             \/ MessageStarts
             \/ \E c \in Conversation : AgentIsPrompted(c) \/ Detach(c)
             \/ Stop
             \/ AdapterExits
    BY <2>4 DEF OpenThread, MessageStarts, AgentIsPrompted, Detach, Stop, AdapterExits
  <2>5. CASE UNCHANGED vars
    BY <2>5 DEF vars
  <2> QED  BY <2>1, <2>2, <2>3, <2>4, <2>5 DEF Next
<1> QED  BY <1>2, <1>3, <1>4, <1>5, <1>6

\* A transient fault never discards a conversation that has a transcript: each step that
\* clears a row clears one whose conversation the adapter does not have (loadThread).
THEOREM FaultsAlwaysKeepRows == Spec => TransientFaultKeepsRow
<1>1. BringUpInv /\ [Next]_vars => [\A t \in Thread : row'[t] = None => row[t] \notin stored]_vars
  BY RowsAreKeptByAStep
<1> QED  BY <1>1, BringUpInvariant, PTL DEF Spec, TransientFaultKeepsRow
===============================================================================
