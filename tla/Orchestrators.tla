----------------------------- MODULE Orchestrators -----------------------------
(***************************************************************************)
(* The processes that want one DATA_DIR: the claim on it (lock.ts), the    *)
(* boot and the shutdown (index.ts), and what they share, the flags of the *)
(* running turns and the rows of the waiting questions in the database.    *)
(*                                                                         *)
(* A process is one thread, but two processes run side by side, so each    *)
(* call on the lock file is a step.  writeFileSync empties the file and    *)
(* then fills it: in between nobody can read a stamp from it.              *)
(* Time passes in steps of HEARTBEAT_MS.                                   *)
(***************************************************************************)
EXTENDS Naturals, FiniteSets

CONSTANTS Process,      \* the orchestrators that are started on the directory
          StaleBeats,   \* LOCK_STALE_MS, in heartbeats
          DrainPolls,   \* the polls of the drain in TURN_DRAIN_MS
          MaxStarts     \* bound: starts of a process, all together

ASSUME LockAssumption == StaleBeats \in Nat \ {0} /\ DrainPolls \in Nat /\ MaxStarts \in Nat

VARIABLES
  \* DATA_DIR.
  lockThere,    \* the lock file exists
  lockAge,      \* the age of its stamp
  flagged,      \* a thread is marked with a running turn (turn_active)
  asking,       \* the processes whose waiting question has its row
  \* The processes.
  life,        \* how far each process has come
  stamping,     \* the processes that have emptied the lock file and not filled it yet
  lag,          \* the time since the last stamp of each process
  turnRuns,     \* the processes with a turn in one of their adapters
  waits,        \* the processes that wait for the answer to a question
  pollsLeft,    \* how often the drain can still look
  starts,
  \* For the properties.
  mishaps,      \* what can break the claim and did happen
  cutShort      \* a shutdown ended a turn before the drain was over

fileVars == <<lockThere, lockAge>>
rowVars == <<flagged, asking>>
serviceWorkVars == <<turnRuns, waits>>
orchestratorVars == <<fileVars, rowVars, life, stamping, lag, serviceWorkVars, pollsLeft, starts,
                      mishaps, cutShort>>

\* A file without a stamp counts as abandoned, like one with an old stamp.
Unreadable == StaleBeats

\* The process works with the directory.
Owners == {p \in Process : life[p] \in {"boot", "ready", "drain"}}

OrchestratorsTypeOK ==
  /\ lockThere \in BOOLEAN
  /\ lockAge \in 0..StaleBeats
  /\ flagged \in BOOLEAN
  /\ asking \subseteq Process
  /\ life \in [Process -> {"out", "reading", "taking", "claimed", "boot", "ready", "drain"}]
  /\ stamping \subseteq Process
  /\ lag \in [Process -> 0..StaleBeats]
  /\ turnRuns \subseteq Process
  /\ waits \subseteq Process
  /\ pollsLeft \in [Process -> 0..DrainPolls]
  /\ starts \in 0..MaxStarts
  /\ mishaps \subseteq {"stall", "gap", "race", "vanished"}
  /\ cutShort \in BOOLEAN

OrchestratorsInit ==
  /\ lockThere = FALSE
  /\ lockAge = Unreadable
  /\ flagged = FALSE
  /\ asking = {}
  /\ life = [p \in Process |-> "out"]
  /\ stamping = {}
  /\ lag = [p \in Process |-> 0]
  /\ turnRuns = {}
  /\ waits = {}
  /\ pollsLeft = [p \in Process |-> DrainPolls]
  /\ starts = 0
  /\ mishaps = {}
  /\ cutShort = FALSE

(***************************************************************************)
(* The claim.                                                              *)
(***************************************************************************)

GoTo(p, next) == life' = [life EXCEPT ![p] = next]

\* stamp: the file is emptied, or made.
BeginStamp(p) ==
  /\ stamping' = stamping \cup {p}
  /\ lockThere' = TRUE
  /\ lockAge' = Unreadable

\* A mutant: the claim is not exclusive.
Claim_Overwrites(p) ==
  /\ life[p] = "out"
  /\ starts < MaxStarts
  /\ starts' = starts + 1
  /\ GoTo(p, "claimed") /\ BeginStamp(p)
  /\ UNCHANGED <<rowVars, lag, serviceWorkVars, pollsLeft, mishaps, cutShort>>

\* claimDataDir: only one process makes the file.  The others have to read it.
Claim(p) ==
  /\ life[p] = "out"
  /\ starts < MaxStarts
  /\ starts' = starts + 1
  /\ \/ ~lockThere /\ GoTo(p, "claimed") /\ BeginStamp(p)
     \/ lockThere /\ GoTo(p, "reading") /\ UNCHANGED <<fileVars, stamping>>
  /\ UNCHANGED <<rowVars, lag, serviceWorkVars, pollsLeft, mishaps, cutShort>>

\* stampedAt: a fresh stamp ends this process (lockDataDir).  An old one, one that
\* cannot be read, and a file that has gone meanwhile can be taken over.
ReadsStamp(p) ==
  /\ life[p] = "reading"
  /\ GoTo(p, IF lockThere /\ lockAge < StaleBeats THEN "out" ELSE "taking")
  /\ mishaps' = mishaps
       \cup (IF lockThere THEN {} ELSE {"vanished"})
       \cup (IF lockThere /\ stamping # {} THEN {"gap"} ELSE {})
       \cup (IF \E q \in Process : life[q] = "taking" THEN {"race"} ELSE {})
  /\ UNCHANGED <<fileVars, rowVars, stamping, lag, serviceWorkVars, pollsLeft, starts, cutShort>>

TakesOver(p) ==
  /\ life[p] = "taking"
  /\ GoTo(p, "claimed")
  /\ BeginStamp(p)
  /\ UNCHANGED <<rowVars, lag, serviceWorkVars, pollsLeft, starts, mishaps, cutShort>>

\* The file has its stamp.  A process that claimed the directory goes on to the boot.
StampIsWritten(p) ==
  /\ p \in stamping
  /\ stamping' = stamping \ {p}
  /\ lockThere' = TRUE
  /\ lockAge' = 0
  /\ lag' = [lag EXCEPT ![p] = 0]
  /\ GoTo(p, IF life[p] = "claimed" THEN "boot" ELSE life[p])
  /\ UNCHANGED <<rowVars, serviceWorkVars, pollsLeft, starts, mishaps, cutShort>>

\* The heartbeat.
Beat(p) ==
  /\ p \in Owners \ stamping
  /\ lag[p] > 0
  /\ BeginStamp(p)
  /\ UNCHANGED <<rowVars, life, lag, serviceWorkVars, pollsLeft, starts, mishaps, cutShort>>

\* HEARTBEAT_MS pass.  A process can be held up for so long that its stamp gets old.
TimePasses ==
  /\ lockAge < StaleBeats \/ \E p \in Owners : lag[p] < StaleBeats
  /\ lockAge' = IF lockAge < StaleBeats THEN lockAge + 1 ELSE lockAge
  /\ lag' = [p \in Process |-> IF p \in Owners /\ lag[p] < StaleBeats THEN lag[p] + 1 ELSE lag[p]]
  /\ mishaps' = mishaps
       \cup IF \E p \in Owners : lag'[p] = StaleBeats THEN {"stall"} ELSE {}
  /\ UNCHANGED <<lockThere, rowVars, life, stamping, serviceWorkVars, pollsLeft, starts, cutShort>>

(***************************************************************************)
(* The life of a process.                                                  *)
(***************************************************************************)

\* The process is gone, with all it carried.
Vanish(p) ==
  /\ GoTo(p, "out")
  /\ stamping' = stamping \ {p}
  /\ lag' = [lag EXCEPT ![p] = 0]
  /\ turnRuns' = turnRuns \ {p}
  /\ waits' = waits \ {p}
  /\ pollsLeft' = [pollsLeft EXCEPT ![p] = DrainPolls]

\* main: reconcile clears the flags and the questions of an earlier process, and
\* the process serves the sockets.
BootFinishes(p) ==
  /\ life[p] = "boot"
  /\ p \notin stamping
  /\ GoTo(p, "ready")
  /\ flagged' = FALSE
  /\ asking' = {}
  /\ UNCHANGED <<fileVars, stamping, lag, serviceWorkVars, pollsLeft, starts, mishaps, cutShort>>

\* main throws: the process exits and gives the directory up.
BootFails(p) ==
  /\ life[p] = "boot"
  /\ p \notin stamping
  /\ Vanish(p)
  /\ lockThere' = FALSE
  /\ UNCHANGED <<lockAge, rowVars, starts, mishaps, cutShort>>

\* A prompt begins a turn, also while the process drains: its sockets stay open.
TurnStarts(p) ==
  /\ life[p] \in {"ready", "drain"}
  /\ p \notin turnRuns \cup stamping
  /\ turnRuns' = turnRuns \cup {p}
  /\ flagged' = TRUE
  /\ UNCHANGED <<fileVars, asking, life, stamping, lag, waits, pollsLeft, starts, mishaps, cutShort>>

TurnFinishes(p) ==
  /\ p \in turnRuns \ stamping
  /\ turnRuns' = turnRuns \ {p}
  /\ flagged' = FALSE
  /\ UNCHANGED <<fileVars, asking, life, stamping, lag, waits, pollsLeft, starts, mishaps, cutShort>>

\* A question is queued, with its row.
QuestionWaits(p) ==
  /\ life[p] \in {"ready", "drain"}
  /\ p \notin waits \cup stamping
  /\ waits' = waits \cup {p}
  /\ asking' = asking \cup {p}
  /\ UNCHANGED <<fileVars, flagged, life, stamping, lag, turnRuns, pollsLeft, starts, mishaps, cutShort>>

QuestionIsAnswered(p) ==
  /\ p \in waits \ stamping
  /\ waits' = waits \ {p}
  /\ asking' = asking \ {p}
  /\ UNCHANGED <<fileVars, flagged, life, stamping, lag, turnRuns, pollsLeft, starts, mishaps, cutShort>>

\* SIGTERM: the loops stop, and drainTurns waits for the turns.
Signal(p) ==
  /\ life[p] = "ready"
  /\ p \notin stamping
  /\ GoTo(p, "drain")
  /\ UNCHANGED <<fileVars, rowVars, stamping, lag, serviceWorkVars, pollsLeft, starts, mishaps, cutShort>>

\* A turn runs, and TURN_DRAIN_MS are not over.
DrainWaits(p) ==
  /\ life[p] = "drain"
  /\ p \notin stamping
  /\ flagged
  /\ pollsLeft[p] > 0
  /\ pollsLeft' = [pollsLeft EXCEPT ![p] = @ - 1]
  /\ UNCHANGED <<fileVars, rowVars, life, stamping, lag, serviceWorkVars, starts, mishaps, cutShort>>

\* Otherwise closeAll ends the adapters, and the process exits: release stops the
\* heartbeat and removes the lock file, whoever has stamped it last.
Exits(p) ==
  /\ life[p] = "drain"
  /\ p \notin stamping
  /\ ~flagged \/ pollsLeft[p] = 0
  /\ cutShort' = (cutShort \/ (p \in turnRuns /\ pollsLeft[p] > 0))
  /\ Vanish(p)
  /\ lockThere' = FALSE
  /\ UNCHANGED <<lockAge, rowVars, starts, mishaps>>

\* SIGKILL, in any step: the lock file stays as it is.
Killed(p) ==
  /\ life[p] # "out"
  /\ Vanish(p)
  /\ UNCHANGED <<fileVars, rowVars, starts, mishaps, cutShort>>

OrchestratorsNext ==
  \/ TimePasses
  \/ \E p \in Process :
       \/ Claim(p) \/ ReadsStamp(p) \/ TakesOver(p) \/ StampIsWritten(p) \/ Beat(p)
       \/ BootFinishes(p) \/ BootFails(p) \/ TurnStarts(p) \/ TurnFinishes(p)
       \/ QuestionWaits(p) \/ QuestionIsAnswered(p) \/ Signal(p) \/ DrainWaits(p) \/ Exits(p)
       \/ Killed(p)

OrchestratorsSpec == OrchestratorsInit /\ [][OrchestratorsNext]_orchestratorVars

(***************************************************************************)
(* Properties.                                                             *)
(***************************************************************************)

\* Two orchestrators never work on one directory, and so no boot takes the rows of
\* another one from under it, and no shutdown overlooks a turn.  The claim does not
\* cover a process that is held up until its stamp is old, and three reads of the
\* lock file: between the two halves of a stamp, after another process has read the
\* same old stamp, and after the file was removed.
OrchestratorIsAlone ==
  /\ OrchestratorsTypeOK
  /\ mishaps = {} =>
    /\ Cardinality(Owners) <= 1
    /\ waits \subseteq asking
    /\ turnRuns # {} => flagged
    /\ ~cutShort
=============================================================================
