---------------------------- MODULE MCBoxLifecycle ----------------------------
(***************************************************************************)
(* Model checking of BoxLifecycle, and the statements of the documentation *)
(* and of the comments that the code does not meet.                        *)
(***************************************************************************)
EXTENDS BoxLifecycle

\* orchestrator/src/boxes.ts:93: "The boxes where a stop or a delete has
\* overtaken the queued operations.  Each queued or running operation of such
\* a box gives up at its next step."  A start that a stop has overtaken does
\* not begin.
OvertakenStartNeverBegins ==
  [][\A b \in Box :
       /\ RunsBringUp(b)
       /\ step[b] = "queued"
       /\ \E i \in 2..Len(queue[b]) : queue[b][i] \in Overtakers
       => step'[b] # "storage"]_vars

\* Nothing uses the box: no operation of a user waits, no adapter starts.
Unused(b) ==
  /\ adapter[b] = "off"
  /\ \A i \in DOMAIN queue[b] : queue[b][i] \notin BringUps \cup {"create"}

\* doc/files.md:20: "A file operation starts a stopped box [...].  A file
\* operation counts as activity, so the idle reaper waits IDLE_STOP_MINUTES
\* from then": a box that nothing uses any more is stopped in the end.  (A box
\* in the status `error` is left out: the statement is about healthy boxes.)
UnusedBoxIsReaped ==
  \A b \in Box :
    <>[](Unused(b) /\ status[b] # "error") => <>[](container[b] # "running")

=============================================================================
