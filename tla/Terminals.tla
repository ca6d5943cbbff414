------------------------------- MODULE Terminals -------------------------------
(***************************************************************************)
(* One terminal of a browser: the endpoint attachTerminal                  *)
(* (orchestrator/src/gateway/terminal.ts), its pty, and the tmux session   *)
(* of this connection in the box.                                          *)
(*                                                                         *)
(* A keystroke is its number. The size of the window is a number too.      *)
(***************************************************************************)
EXTENDS Naturals, Sequences, SequencesExt

CONSTANTS MaxKeys,      \* bound: keystrokes
          MaxSizes,     \* bound: sizes that the browser reports
          MaxShellEnds       \* bound: execs that end by themselves, failed calls, stops of the box

ASSUME TerminalBounds == MaxKeys \in Nat /\ MaxSizes \in Nat /\ MaxShellEnds \in Nat

VARIABLES
  \* The browser.
  socket,       \* the socket is open
  keys,         \* keystrokes so far
  size,         \* the last size it has reported, 0 before the first
  missed,       \* pings without an answer
  \* attachTerminal.
  boxHeld,      \* manager.holdTerminal: the hold of the box
  closed,
  step,         \* where the opening, or the reattach, is
  retried,      \* the second try of the reattach
  ptyLive,
  typeAhead,    \* what was typed while no pty was live
  cols,         \* the size that the terminal knows
  \* The box.
  box,          \* the box runs
  session,      \* the tmux session of this connection is there
  exec,         \* the exec of the pty
  ptySize,      \* the size that the pty has
  typed,        \* what has reached the shell
  \* For the properties.
  lost,         \* keystrokes written into an exec that had ended
  late,         \* a size was reported while a pty was opened
  shellEnds

clientVars == <<socket, keys, size, missed>>
endVars == <<boxHeld, closed, step, retried, ptyLive, typeAhead, cols>>
execVars == <<session, exec, ptySize, typed>>
terminalVars == <<clientVars, endVars, box, execVars, lost, late, shellEnds>>

MissedPings == 2
\* SIZE_WAIT_MS ends before the first size: the pty opens at the default one.
DefaultSize == 0

TerminalTypeOK ==
  /\ socket \in BOOLEAN /\ boxHeld \in BOOLEAN /\ closed \in BOOLEAN /\ retried \in BOOLEAN
  /\ ptyLive \in BOOLEAN /\ box \in BOOLEAN /\ session \in BOOLEAN /\ late \in BOOLEAN
  /\ keys \in 0..MaxKeys /\ size \in 0..MaxSizes /\ cols \in 0..MaxSizes /\ ptySize \in 0..MaxSizes
  /\ missed \in 0..MissedPings
  /\ step \in {"box", "size", "open", "wired", "wait", "state", "reopen", "over"}
  /\ exec \in {"none", "runs", "ended"}
  /\ typeAhead \in Seq(1..MaxKeys) /\ typed \in Seq(1..MaxKeys)
  /\ lost \subseteq 1..MaxKeys
  /\ shellEnds \in 0..MaxShellEnds

TerminalInit ==
  /\ socket = TRUE /\ keys = 0 /\ size = 0 /\ missed = 0
  /\ boxHeld = TRUE /\ closed = FALSE /\ step = "box" /\ retried = FALSE /\ ptyLive = FALSE
  /\ typeAhead = <<>> /\ cols = DefaultSize
  /\ box \in BOOLEAN
  /\ session = FALSE /\ exec = "none" /\ ptySize = DefaultSize /\ typed = <<>>
  /\ lost = {} /\ late = FALSE /\ shellEnds = 0

End == shellEnds < MaxShellEnds /\ shellEnds' = shellEnds + 1

\* TerminalExec.close: the session is ended by name, and the stream is dropped. It
\* needs no live pty, only one that was opened once.
EndShell(opened) ==
  /\ session' = IF opened THEN FALSE ELSE session
  /\ exec' = IF opened /\ exec = "runs" THEN "ended" ELSE exec

\* close: once, from whichever side goes first. An open that is under way goes on.
CloseTerminal ==
  /\ ~closed
  /\ closed' = TRUE
  /\ boxHeld' = FALSE
  /\ socket' = FALSE
  /\ EndShell(step \notin {"box", "size", "open"})
  /\ ptyLive' = (ptyLive /\ exec' = "runs")

(***************************************************************************)
(* The browser.                                                            *)
(***************************************************************************)

\* A binary frame: into the pty that is live, and otherwise into the queue.
BrowserTypes ==
  /\ socket /\ keys < MaxKeys
  /\ keys' = keys + 1
  /\ IF ptyLive
       THEN /\ UNCHANGED typeAhead
            /\ IF exec = "runs" THEN typed' = Append(typed, keys') /\ UNCHANGED lost
                                ELSE lost' = lost \cup {keys'} /\ UNCHANGED typed
       ELSE typeAhead' = Append(typeAhead, keys') /\ UNCHANGED <<typed, lost>>
  /\ UNCHANGED <<socket, size, missed, boxHeld, closed, step, retried, ptyLive, cols, box, session,
                 exec, ptySize, late, shellEnds>>

\* A text frame: the first size ends the wait for it, and a later one goes to a pty
\* that is live. One that comes while a pty is opened goes nowhere.
BrowserResizes ==
  /\ socket /\ size < MaxSizes
  /\ size' = size + 1
  /\ cols' = size'
  /\ ptySize' = IF size > 0 /\ ptyLive /\ exec = "runs" THEN size' ELSE ptySize
  /\ late' = (late \/ (size > 0 /\ step \in {"open", "reopen"}) \/ (size = 0 /\ step \notin {"box", "size"}))
  /\ UNCHANGED <<socket, keys, missed, boxHeld, closed, step, retried, ptyLive, typeAhead, box, session,
                 exec, typed, lost, shellEnds>>

\* The socket closes, or fails.
BrowserLeaves ==
  /\ socket
  /\ CloseTerminal
  /\ UNCHANGED <<keys, size, missed, step, retried, typeAhead, cols, box, ptySize, typed, lost, late, shellEnds>>

\* A ping, after two without an answer the end of the terminal.
PingIsDue ==
  /\ socket
  /\ IF missed >= MissedPings
       THEN CloseTerminal /\ UNCHANGED missed
       ELSE /\ missed' = missed + 1
            /\ UNCHANGED <<socket, boxHeld, closed, ptyLive, session, exec>>
  /\ UNCHANGED <<keys, size, step, retried, typeAhead, cols, box, ptySize, typed, lost, late, shellEnds>>

\* A pong.
BrowserAnswers ==
  /\ socket /\ missed > 0
  /\ missed' = 0
  /\ UNCHANGED <<socket, keys, size, endVars, box, execVars, lost, late, shellEnds>>

(***************************************************************************)
(* The opening.                                                            *)
(***************************************************************************)

\* manager.execTarget starts a stopped box, or fails.
BoxIsReached ==
  /\ step = "box"
  /\ \/ /\ box' = TRUE /\ step' = "size"
        /\ UNCHANGED <<socket, boxHeld, closed, ptyLive, session, exec, shellEnds>>
     \/ /\ End
        /\ step' = "over" /\ UNCHANGED box
        /\ IF closed THEN UNCHANGED <<socket, boxHeld, closed, ptyLive, session, exec>> ELSE CloseTerminal
  /\ UNCHANGED <<keys, size, missed, retried, typeAhead, cols, ptySize, typed, lost, late>>

\* The size is known, or the wait for it has ended.
SizeIsKnown ==
  /\ step = "size"
  /\ step' = IF closed THEN "over" ELSE "open"
  /\ ptySize' = IF closed THEN ptySize ELSE cols
  /\ UNCHANGED <<clientVars, boxHeld, closed, retried, ptyLive, typeAhead, cols, box, session, exec, typed,
                 lost, late, shellEnds>>

\* A mutant: the socket that closed meanwhile is forgotten.
PtyOpens_Unchecked ==
  /\ step \in {"open", "reopen"}
  /\ box
  /\ step = "reopen" => session
  /\ session' = TRUE /\ exec' = "runs" /\ ptyLive' = TRUE /\ step' = "wired"
  /\ typed' = typed \o typeAhead /\ typeAhead' = <<>>
  /\ retried' = FALSE
  /\ UNCHANGED <<clientVars, boxHeld, closed, cols, box, ptySize, lost, late, shellEnds>>

\* openTerminal gives a pty: of a new session, or of the one it attaches to again. A
\* socket that closed meanwhile has its shell ended, and wire connects any other.
PtyOpens ==
  /\ step \in {"open", "reopen"}
  /\ box
  /\ step = "reopen" => session
  /\ IF closed
       THEN /\ session' = FALSE /\ exec' = "ended" /\ step' = "over"
            /\ UNCHANGED <<ptyLive, typeAhead, typed>>
       ELSE /\ session' = TRUE /\ exec' = "runs" /\ ptyLive' = TRUE /\ step' = "wired"
            /\ typed' = typed \o typeAhead /\ typeAhead' = <<>>
  /\ retried' = FALSE
  /\ UNCHANGED <<clientVars, boxHeld, closed, cols, box, ptySize, lost, late, shellEnds>>

\* The spawn fails: the first open closes the terminal, a reattach is tried once more.
PtyFails ==
  /\ step \in {"open", "reopen"}
  /\ End
  /\ IF step = "reopen" /\ ~retried
       THEN /\ step' = "wait" /\ retried' = TRUE
            /\ UNCHANGED <<socket, boxHeld, closed, ptyLive, session, exec>>
       ELSE /\ step' = "over" /\ UNCHANGED retried
            /\ IF closed THEN UNCHANGED <<socket, boxHeld, closed, ptyLive, session, exec>>
                         ELSE CloseTerminal
  /\ UNCHANGED <<keys, size, missed, typeAhead, cols, box, ptySize, typed, lost, late>>

(***************************************************************************)
(* The end of the exec, and the reattach.                                  *)
(***************************************************************************)

\* The exec ends: its session lives on, or the user has ended the shell.
ExecEnds ==
  /\ End
  /\ exec = "runs"
  /\ exec' = "ended"
  /\ session' \in {session, FALSE}
  /\ UNCHANGED <<clientVars, endVars, box, ptySize, typed, lost, late>>

\* The box stops, with everything in it.
BoxStops ==
  /\ End
  /\ box
  /\ box' = FALSE
  /\ session' = FALSE
  /\ exec' = IF exec = "runs" THEN "ended" ELSE exec
  /\ UNCHANGED <<clientVars, endVars, ptySize, typed, lost, late>>

\* exited resolves: the reattach begins with its delay. Its exit code is the one of
\* reattachShell when the exec was a reattach that found no session.
ExitIsNoticed ==
  /\ step = "wired" /\ exec = "ended" /\ ptyLive
  /\ ptyLive' = FALSE
  /\ step' = IF closed THEN "over" ELSE "wait"
  /\ UNCHANGED <<clientVars, boxHeld, closed, retried, typeAhead, cols, box, execVars, lost, late, shellEnds>>

\* The delay has passed: nothing more for a closed terminal, and then the box is asked.
DelayEnds ==
  /\ step = "wait"
  /\ step' = IF closed THEN "over" ELSE "state"
  /\ UNCHANGED <<clientVars, boxHeld, closed, retried, ptyLive, typeAhead, cols, box, execVars, lost, late, shellEnds>>

\* A stopped box ends the terminal, which never starts it.
StateIsKnown ==
  /\ step = "state"
  /\ IF box
       THEN /\ step' = "reopen" /\ ptySize' = cols
            /\ UNCHANGED <<socket, boxHeld, closed, ptyLive, session, exec>>
       ELSE /\ step' = "over" /\ UNCHANGED ptySize
            /\ IF closed THEN UNCHANGED <<socket, boxHeld, closed, ptyLive, session, exec>>
                         ELSE CloseTerminal
  /\ UNCHANGED <<keys, size, missed, retried, typeAhead, cols, box, typed, lost, late, shellEnds>>

\* reattachShell finds no session: its exec ends with NO_TERMINAL_SESSION, which closes
\* the terminal. What waited in the queue was written into that exec.
SessionIsGone ==
  /\ step = "reopen" /\ box /\ ~session
  /\ step' = "over"
  /\ lost' = lost \cup Range(typeAhead)
  /\ typeAhead' = <<>>
  /\ IF closed THEN UNCHANGED <<socket, boxHeld, closed, ptyLive, session, exec>> ELSE CloseTerminal
  /\ UNCHANGED <<keys, size, missed, retried, cols, box, ptySize, typed, late, shellEnds>>

TerminalNext ==
  \/ BrowserTypes \/ BrowserResizes \/ BrowserLeaves \/ PingIsDue \/ BrowserAnswers
  \/ BoxIsReached \/ SizeIsKnown \/ PtyOpens \/ PtyFails
  \/ ExecEnds \/ BoxStops \/ ExitIsNoticed \/ DelayEnds \/ StateIsKnown \/ SessionIsGone

TerminalSpec == TerminalInit /\ [][TerminalNext]_terminalVars

(***************************************************************************)
(* Properties.                                                             *)
(***************************************************************************)

\* A closed terminal holds its box no more, and leaves no shell behind in it, unless
\* a pty that is still being opened will end it; one that is not closed holds it.
ClosedLeavesNoShell ==
  /\ boxHeld = ~closed
  /\ closed => /\ exec # "runs"
               /\ session => step \in {"open", "reopen"}

\* What the browser sends reaches the shell: every keystroke is in it, in the queue or
\* was written into an exec that had ended, and no two change their order, through any
\* number of reattaches.  The pty has the size of the window, unless a size came while
\* it was opened.
ShellGetsItsInput ==
  LET all == typed \o typeAhead
  IN /\ \A i, j \in DOMAIN all : i < j => all[i] < all[j]
     /\ Range(all) \cup lost = 1..keys
     /\ ptyLive /\ exec = "runs" /\ ~late => ptySize = cols

\* A terminal that is open works, and one that is closed leaves nothing.
TerminalIsWhole == TerminalTypeOK /\ ClosedLeavesNoShell /\ ShellGetsItsInput

=============================================================================
