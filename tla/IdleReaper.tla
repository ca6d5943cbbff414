------------------------------ MODULE IdleReaper ------------------------------
(***************************************************************************)
(* The idle reaper on one box: a tick of reaper.ts, what holds the box     *)
(* (turns, questions, browsers, terminals, background work), and the       *)
(* cached reading of its processes (BackgroundProbe, background.ts).       *)
(*                                                                         *)
(* A tick reads the rows of all boxes, and can spend minutes on the stops  *)
(* of the others before it comes to this one.  Time passes in minutes.     *)
(***************************************************************************)
EXTENDS Naturals

CONSTANT IdleMinutes     \* IDLE_STOP_MINUTES

ASSUME IdleAssumption == IdleMinutes \in Nat \ {0}

VARIABLES
  \* The box.
  up,            \* the row says running, and the container runs
  turnOn,        \* a thread of the box has a running turn
  approvalOpen,  \* a permission request waits
  attached,      \* a browser is attached
  terminalOpen,  \* a terminal is open
  buildRuns,     \* a command runs in the background
  announced,     \* its adapter has announced it as a task (TaskBoard)
  sharedShell,   \* the tmux session that all terminals share
  idleFor,       \* the time since last_active_at
  \* The probe.
  answer,        \* BackgroundProbe.reading, "unread" before the first one
  fresh,         \* the reading is younger than ttlMs
  readingNow,    \* inFlight, with what ps has met
  failing,       \* the last reading failed
  \* The tick.
  tickOn,        \* a tick has read the rows and not come to the box yet
  rowBusy,       \* what it read: a turn or a question
  rowIdle,       \* and last_active_at long enough ago
  \* For the properties.
  met,         \* a reading has met the command: "no", "read", or "yes" when it has landed
  shownLost      \* the reaper has ended a command that a reading had met

holdVars == <<turnOn, approvalOpen, attached, terminalOpen>>
processVars == <<buildRuns, announced, sharedShell, met>>
probeVars == <<answer, fresh, readingNow, failing>>
tickVars == <<tickOn, rowBusy, rowIdle>>
reaperVars == <<up, holdVars, processVars, idleFor, probeVars, tickVars, shownLost>>

ReaperTypeOK ==
  /\ {up, turnOn, approvalOpen, attached, terminalOpen, buildRuns, announced, sharedShell,
      fresh, failing, tickOn, rowBusy, rowIdle, shownLost} \subseteq BOOLEAN
  /\ idleFor \in 0..IdleMinutes
  /\ answer \in {"unread", "idle", "busy"}
  /\ readingNow \in {"none", "asked", "idle", "busy", "dropped"}
  /\ met \in {"no", "read", "yes"}

ReaperInit ==
  /\ up = FALSE
  /\ turnOn = FALSE /\ approvalOpen = FALSE /\ attached = FALSE /\ terminalOpen = FALSE
  /\ buildRuns = FALSE /\ announced = FALSE /\ sharedShell = FALSE /\ met = "no"
  /\ idleFor = IdleMinutes
  /\ answer = "unread" /\ fresh = FALSE /\ readingNow = "none" /\ failing = FALSE
  /\ tickOn = FALSE /\ rowBusy = FALSE /\ rowIdle = FALSE
  /\ shownLost = FALSE

(***************************************************************************)
(* The probe.                                                              *)
(***************************************************************************)

\* refresh: at most one reading at a time.
Refresh == readingNow' = IF readingNow = "none" THEN "asked" ELSE readingNow

\* active, work and freshen: the answer is the last reading, however old, and a
\* reading that is not fresh starts the next one.
Freshen == IF fresh THEN UNCHANGED readingNow ELSE Refresh

\* What ps shows besides the processes of the setup and the adapters (readBox).
BoxIsBusy == buildRuns \/ sharedShell

\* The runtime lists the processes; a box that does not run has none.
ProcessesAreRead ==
  /\ readingNow = "asked"
  /\ readingNow' = IF up /\ BoxIsBusy THEN "busy" ELSE "idle"
  /\ met' = IF up /\ buildRuns /\ met = "no" THEN "read" ELSE met
  /\ UNCHANGED <<up, holdVars, buildRuns, announced, sharedShell, idleFor, answer, fresh, failing,
                 tickVars, shownLost>>

\* The list resolves: a reading from before a clear is dropped.
ReadingLands ==
  /\ readingNow \in {"idle", "busy", "dropped"}
  /\ readingNow' = "none"
  /\ IF readingNow = "dropped"
       THEN UNCHANGED <<answer, fresh, failing>>
       ELSE answer' = readingNow /\ fresh' = TRUE /\ failing' = FALSE
  /\ met' = IF met = "read" THEN "yes" ELSE met
  /\ UNCHANGED <<up, holdVars, buildRuns, announced, sharedShell, idleFor, tickVars, shownLost>>

\* A mutant: a reading that failed counts as one of an empty box.
ReadingFails_Empty ==
  /\ readingNow # "none"
  /\ readingNow' = "none" /\ answer' = "idle" /\ fresh' = TRUE /\ failing' = TRUE
  /\ met' = IF met = "read" THEN "no" ELSE met
  /\ UNCHANGED <<up, holdVars, buildRuns, announced, sharedShell, idleFor, tickVars, shownLost>>

\* The list fails: the last answer stays, and counts as new.
ReadingFails ==
  /\ readingNow # "none"
  /\ readingNow' = "none" /\ fresh' = TRUE /\ failing' = TRUE
  /\ met' = IF met = "read" THEN "no" ELSE met
  /\ UNCHANGED <<up, holdVars, buildRuns, announced, sharedShell, idleFor, answer, tickVars,
                 shownLost>>

\* pollWhileWatched with a browser, and the list of the boxes without one.
ProbeIsAsked ==
  /\ \/ attached /\ Refresh
     \/ up /\ Freshen
  /\ UNCHANGED <<up, holdVars, processVars, idleFor, answer, fresh, failing, tickVars, shownLost>>

(***************************************************************************)
(* The use of the box.                                                     *)
(***************************************************************************)

\* A start of the box, by its page: not an activity.
BoxIsStarted ==
  /\ ~up
  /\ up' = TRUE
  /\ UNCHANGED <<holdVars, processVars, idleFor, probeVars, tickVars, shownLost>>

\* A browser opens a thread, which reports activity (execTarget, onUpdate), or leaves.
BrowserAttaches ==
  /\ ~attached
  /\ attached' = TRUE /\ up' = TRUE /\ idleFor' = 0
  /\ Refresh
  /\ UNCHANGED <<turnOn, approvalOpen, terminalOpen, processVars, answer, fresh, failing,
                 tickVars, shownLost>>

BrowserDetaches ==
  /\ attached
  /\ attached' = FALSE
  /\ UNCHANGED <<up, turnOn, approvalOpen, terminalOpen, processVars, idleFor, probeVars,
                 tickVars, shownLost>>

\* setTurnActive: a turn begins, or ends.
TurnChanges ==
  /\ up
  /\ turnOn' = ~turnOn /\ idleFor' = 0
  /\ UNCHANGED <<up, approvalOpen, attached, terminalOpen, processVars, probeVars, tickVars, shownLost>>

\* onPermission, and the answer to it.
ApprovalChanges ==
  /\ up /\ (turnOn \/ approvalOpen)
  /\ approvalOpen' = ~approvalOpen
  /\ idleFor' = IF approvalOpen THEN idleFor ELSE 0
  /\ UNCHANGED <<up, turnOn, attached, terminalOpen, processVars, probeVars, tickVars, shownLost>>

\* A terminal holds the box (holdTerminal), and its shell makes the shared session.
TerminalOpens ==
  /\ ~terminalOpen
  /\ terminalOpen' = TRUE /\ up' = TRUE /\ sharedShell' = TRUE /\ idleFor' = 0
  /\ UNCHANGED <<turnOn, approvalOpen, attached, buildRuns, announced, met, probeVars,
                 tickVars, shownLost>>

\* The user types (touchThrottled).
UserTypes ==
  /\ terminalOpen
  /\ idleFor' = 0
  /\ UNCHANGED <<up, holdVars, processVars, probeVars, tickVars, shownLost>>

\* The terminal closes: the shared session stays, unless the user has left its shell.
TerminalCloses ==
  /\ terminalOpen
  /\ terminalOpen' = FALSE
  /\ sharedShell' \in {sharedShell, FALSE}
  /\ UNCHANGED <<up, turnOn, approvalOpen, attached, buildRuns, announced, met, idleFor,
                 probeVars, tickVars, shownLost>>

\* A turn or a terminal starts a command that goes on without it; an adapter can announce it.
BuildStarts ==
  /\ up /\ ~buildRuns
  /\ turnOn \/ terminalOpen
  /\ buildRuns' = TRUE /\ met' = "no"
  /\ announced' \in {FALSE, turnOn}
  /\ UNCHANGED <<up, holdVars, sharedShell, idleFor, probeVars, tickVars, shownLost>>

BuildEnds ==
  /\ buildRuns
  /\ buildRuns' = FALSE /\ announced' = FALSE /\ met' = "no"
  /\ UNCHANGED <<up, holdVars, sharedShell, idleFor, probeVars, tickVars, shownLost>>

\* The adapter exits: its board is empty, its turn and its question are over.
AdapterGoes ==
  /\ up
  /\ announced' = FALSE /\ turnOn' = FALSE /\ approvalOpen' = FALSE
  /\ UNCHANGED <<up, attached, terminalOpen, buildRuns, sharedShell, met, idleFor, probeVars,
                 tickVars, shownLost>>

\* UpstreamBox.stop and the end of the container: clear settles the answer.
StopBox(readingRuns) ==
  /\ up' = FALSE
  /\ turnOn' = FALSE /\ approvalOpen' = FALSE
  /\ buildRuns' = FALSE /\ announced' = FALSE /\ sharedShell' = FALSE /\ met' = "no"
  /\ answer' = "idle" /\ fresh' = FALSE
  /\ readingNow' = IF readingRuns THEN "dropped" ELSE "none"

UserStops ==
  /\ up
  /\ StopBox(readingNow # "none")
  /\ UNCHANGED <<attached, terminalOpen, idleFor, failing, tickVars, shownLost>>

MinutePasses ==
  /\ idleFor' = IF idleFor < IdleMinutes THEN idleFor + 1 ELSE idleFor
  /\ fresh' = FALSE
  /\ UNCHANGED <<up, holdVars, processVars, answer, readingNow, failing, tickVars, shownLost>>

(***************************************************************************)
(* The tick.                                                               *)
(***************************************************************************)

\* The tick reads the rows, the questions, the turns and the clock, all at once.
TickReadsRows ==
  /\ ~tickOn /\ up
  /\ tickOn' = TRUE
  /\ rowBusy' = (turnOn \/ approvalOpen)
  /\ rowIdle' = (idleFor = IdleMinutes)
  /\ UNCHANGED <<up, holdVars, processVars, idleFor, probeVars, shownLost>>

\* A mutant: the upstream of a running box is dropped too.
UpstreamIsDropped_Running ==
  /\ ~attached
  /\ answer' = "unread" /\ fresh' = FALSE /\ readingNow' = "none" /\ failing' = FALSE
  /\ UNCHANGED <<up, holdVars, processVars, idleFor, tickVars, shownLost>>

\* maintenance, after a tick without the box: an upstream that holds nothing goes,
\* and its probe with it.
UpstreamIsDropped ==
  /\ ~up /\ ~attached
  /\ answer' = "unread" /\ fresh' = FALSE /\ readingNow' = "none" /\ failing' = FALSE
  /\ UNCHANGED <<up, holdVars, processVars, idleFor, tickVars, shownLost>>

\* The checks up to the background work, and those after it.
HeldBefore == rowBusy \/ attached \/ terminalOpen
HeldAfter == ~rowIdle \/ turnOn \/ approvalOpen

\* backgroundActive: a task that is announced, or the answer of the probe.  Null holds.
BackgroundHolds == announced \/ answer # "idle"

TickSpares ==
  /\ tickOn
  /\ tickOn' = FALSE /\ rowBusy' = FALSE /\ rowIdle' = FALSE
  /\ HeldBefore \/ BackgroundHolds \/ HeldAfter
  /\ IF HeldBefore \/ announced THEN UNCHANGED readingNow ELSE Freshen
  /\ UNCHANGED <<up, holdVars, processVars, idleFor, answer, fresh, failing, shownLost>>

\* Nothing holds the box: it is stopped.  One that was stopped meanwhile stays so.
TickReaps ==
  /\ tickOn
  /\ tickOn' = FALSE /\ rowBusy' = FALSE /\ rowIdle' = FALSE
  /\ ~HeldBefore /\ ~BackgroundHolds /\ ~HeldAfter
  /\ IF up
       THEN /\ StopBox(readingNow # "none" \/ ~fresh)
            /\ shownLost' = (shownLost \/ met = "yes")
       ELSE UNCHANGED <<up, turnOn, approvalOpen, processVars, answer, fresh, readingNow, shownLost>>
  /\ UNCHANGED <<attached, terminalOpen, idleFor, failing>>

\* stopUnlessBusy returns false: an operation has the slot of the box.
SlotIsBusy ==
  /\ tickOn /\ up
  /\ tickOn' = FALSE /\ rowBusy' = FALSE /\ rowIdle' = FALSE
  /\ ~HeldBefore /\ ~BackgroundHolds /\ ~HeldAfter
  /\ Freshen
  /\ UNCHANGED <<up, holdVars, processVars, idleFor, answer, fresh, failing, shownLost>>

ReaperNext ==
  \/ ProcessesAreRead \/ ReadingLands \/ ReadingFails \/ ProbeIsAsked
  \/ BoxIsStarted \/ BrowserAttaches \/ BrowserDetaches \/ TurnChanges \/ ApprovalChanges
  \/ TerminalOpens \/ UserTypes \/ TerminalCloses \/ BuildStarts \/ BuildEnds \/ AdapterGoes
  \/ UserStops \/ MinutePasses
  \/ TickReadsRows \/ UpstreamIsDropped \/ TickSpares \/ TickReaps \/ SlotIsBusy

\* The clock goes on, the loop ticks, each call to the runtime settles, and a slot that
\* is free again and again is not busy at every tick.
ReaperFairness ==
  /\ WF_reaperVars(MinutePasses)
  /\ WF_reaperVars(TickReadsRows)
  /\ WF_reaperVars(TickSpares)
  /\ SF_reaperVars(TickReaps)
  /\ WF_reaperVars(ProcessesAreRead)
  /\ WF_reaperVars(ReadingLands \/ ReadingFails)

ReaperSpec == ReaperInit /\ [][ReaperNext]_reaperVars /\ ReaperFairness

(***************************************************************************)
(* Properties.                                                             *)
(***************************************************************************)

\* A command that a reading of this container has met is not ended by the reaper,
\* through failed readings, readings from before a stop, and dropped upstreams.  (One
\* that no reading has met yet can be: the answer may be old, and so is the row.)
ShownWorkIsSpared == ~shownLost

Unused == ~turnOn /\ ~approvalOpen /\ ~attached /\ ~terminalOpen /\ ~buildRuns /\ ~failing

\* A box that nobody uses, with no work and no shell in it, is down again and again, and
\* so for good when nobody starts it: no stale reading holds it for ever.
QuietBoxIsReaped == <>[](Unused /\ ~sharedShell) => []<>(~up)

\* What doc/terminal.md says of a box after its terminals are closed.
LeftBoxIsReaped == <>[]Unused => []<>(~up)
=============================================================================
