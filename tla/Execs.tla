---------------------------------- MODULE Execs ----------------------------------
(***************************************************************************)
(* One process in a container, and the connection that carries its output: *)
(* execInContainer and spawnExec (docker.ts) for Docker, exec              *)
(* (kubernetes.ts) for Kubernetes.  A caller runs a short command and      *)
(* waits for its output and its code, or keeps a process that it can kill. *)
(* Two of them share nothing, so one is enough.                            *)
(*                                                                         *)
(* The process writes pieces to stdout.  The connection carries them in    *)
(* order, and then its end; Kubernetes sends the code before the end, and  *)
(* Docker is asked for it after the end.  A code is 0, or 1 for any other. *)
(***************************************************************************)
EXTENDS Naturals, Sequences

CONSTANTS MaxPieces,   \* bound: pieces that the process writes
          KeptPieces   \* maxOutput of a short command

ASSUME ExecsAssumption == MaxPieces \in Nat /\ KeptPieces \in Nat

VARIABLES
  runsOn,       \* the runtime
  execWay,      \* what the caller wants: a short command, or a process
  execCall,     \* the call
  boxIs,        \* the container
  process,      \* the process in it
  processCode,  \* what it ended with
  wrote,        \* the pieces that it wrote
  wire,         \* what the connection carries
  socket,       \* the connection
  arrived, kept, \* the pieces that came, and those of them that a short command keeps
  statusCode,   \* the code that Kubernetes sent
  finished,     \* the end was seen, and the streams of the caller are ended
  exited,       \* the promise of the code
  cut           \* for the properties: the connection did not reach its end

execVars == <<runsOn, execWay, execCall, boxIs, process, processCode, wrote, wire, socket,
              arrived, kept, statusCode, finished, exited, cut>>

NoCode == 8    \* null
Pending == 9   \* the promise is open
ExecsTypeOK ==
  /\ runsOn \in {"docker", "kubernetes"} /\ execWay \in {"none", "run", "spawn"}
  /\ execCall \in {"none", "asked", "open", "refused", "returned"}
  /\ boxIs \in {"up", "down", "gone"} /\ process \in {"none", "runs", "ended"}
  /\ socket \in {"none", "up", "closing", "closed"} /\ finished \in BOOLEAN /\ cut \in BOOLEAN
  /\ exited \in {Pending, NoCode, 0, 1} /\ kept <= arrived /\ arrived <= wrote

ExecsInit ==
  /\ runsOn \in {"docker", "kubernetes"} /\ execWay = "none" /\ execCall = "none"
  /\ boxIs = "up" /\ process = "none" /\ processCode = NoCode /\ wrote = 0
  /\ wire = <<>> /\ socket = "none" /\ arrived = 0 /\ kept = 0
  /\ statusCode = NoCode /\ finished = FALSE /\ exited = Pending /\ cut = FALSE

(***************************************************************************)
(* The call.                                                               *)
(***************************************************************************)

ExecIsAsked(w) ==
  /\ execCall = "none" /\ execCall' = "asked" /\ execWay' = w
  /\ UNCHANGED <<runsOn, boxIs, process, processCode, wrote, wire, socket, arrived, kept, statusCode, finished, exited, cut>>

ExecOpens ==
  /\ execCall = "asked" /\ boxIs = "up"
  /\ execCall' = "open" /\ process' = "runs" /\ socket' = "up"
  /\ UNCHANGED <<runsOn, execWay, boxIs, processCode, wrote, wire, arrived, kept, statusCode, finished, exited, cut>>

\* The call throws.  The process may have begun: nobody has a handle on it then.
ExecIsRefused ==
  /\ execCall = "asked" /\ execCall' = "refused"
  /\ process' \in (IF boxIs = "up" THEN {"none", "runs"} ELSE {"none"})
  /\ UNCHANGED <<runsOn, execWay, boxIs, processCode, wrote, wire, socket, arrived, kept, statusCode, finished, exited, cut>>

(***************************************************************************)
(* The container.                                                          *)
(***************************************************************************)

Sent(frames) == IF socket \in {"up", "closing"} THEN wire \o frames ELSE wire
EndOf(code) == IF runsOn = "kubernetes" THEN <<[what |-> "status", code |-> code], [what |-> "end"]>> ELSE <<[what |-> "end"]>>

ProcessWrites ==
  /\ process = "runs" /\ wrote < MaxPieces /\ wrote' = wrote + 1
  /\ wire' = Sent(<<[what |-> "piece"]>>)
  /\ UNCHANGED <<runsOn, execWay, execCall, boxIs, process, processCode, socket, arrived, kept, statusCode, finished, exited, cut>>

\* A short command that takes too long is ended by timeout, in the container.
ProcessEnds(code) ==
  /\ process = "runs" /\ process' = "ended" /\ processCode' = code
  /\ wire' = Sent(EndOf(code))
  /\ UNCHANGED <<runsOn, execWay, execCall, boxIs, wrote, socket, arrived, kept, statusCode, finished, exited, cut>>

\* The container is stopped or removed.
ContainerGoes(to) ==
  /\ boxIs = "up" /\ boxIs' = to
  /\ IF process = "runs"
       THEN process' = "ended" /\ processCode' = 1 /\ wire' = Sent(EndOf(1))
     ELSE UNCHANGED <<process, processCode, wire>>
  /\ UNCHANGED <<runsOn, execWay, execCall, wrote, socket, arrived, kept, statusCode, finished, exited, cut>>

(***************************************************************************)
(* The connection.                                                         *)
(***************************************************************************)

\* finish: the streams of the caller end.  Kubernetes has sent the code, or there is none.
Finish(code) ==
  /\ socket' = "closed" /\ finished' = TRUE /\ wire' = <<>>
  /\ exited' = IF runsOn = "kubernetes" THEN code ELSE Pending

FrameArrives ==
  /\ socket \in {"up", "closing"} /\ wire # <<>>
  /\ CASE Head(wire).what = "piece" ->
            /\ arrived' = arrived + 1 /\ wire' = Tail(wire)
            /\ kept' = IF execWay = "run" /\ kept = KeptPieces THEN kept ELSE kept + 1
            /\ UNCHANGED <<statusCode, socket, finished, exited>>
       [] Head(wire).what = "status" ->
            /\ statusCode' = Head(wire).code /\ wire' = Tail(wire)
            /\ UNCHANGED <<arrived, kept, socket, finished, exited>>
       [] OTHER -> Finish(statusCode) /\ UNCHANGED <<arrived, kept, statusCode>>
  /\ UNCHANGED <<runsOn, execWay, execCall, boxIs, process, processCode, wrote, cut>>

\* The connection breaks, or a connection that was closed here is closed.
ConnectionIsLost ==
  /\ socket \in {"up", "closing"} /\ cut' = TRUE
  /\ Finish(statusCode)
  /\ UNCHANGED <<runsOn, execWay, execCall, boxIs, process, processCode, wrote, arrived, kept, statusCode>>

\* kill: Docker's stream is destroyed, and the socket of Kubernetes says goodbye first.
\* The process is not told: it ends when it writes, or with its container.
ProcessIsKilled ==
  /\ execCall = "open" /\ execWay = "spawn" /\ socket = "up" /\ cut' = TRUE
  /\ IF runsOn = "docker" THEN Finish(statusCode)
     ELSE socket' = "closing" /\ UNCHANGED <<wire, finished, exited>>
  /\ UNCHANGED <<runsOn, execWay, execCall, boxIs, process, processCode, wrote, arrived, kept, statusCode>>

\* A mutant: a code that is not there counts as success.
InspectedCode_Zero == IF process = "ended" /\ boxIs # "gone" THEN processCode ELSE 0
\* ExitCode is null while the process runs, and the call fails when the container is gone.
InspectedCode == IF process = "ended" /\ boxIs # "gone" THEN processCode ELSE NoCode
DockerIsAsked ==
  /\ runsOn = "docker" /\ finished /\ exited = Pending
  /\ exited' \in {InspectedCode, NoCode}
  /\ UNCHANGED <<runsOn, execWay, execCall, boxIs, process, processCode, wrote, wire, socket, arrived, kept, statusCode, finished, cut>>

\* run: both streams have ended, and the code is known, or known to be unknown.
RunReturns ==
  /\ execCall = "open" /\ execWay = "run" /\ finished /\ exited # Pending
  /\ execCall' = "returned"
  /\ UNCHANGED <<runsOn, execWay, boxIs, process, processCode, wrote, wire, socket, arrived, kept, statusCode, finished, exited, cut>>

ExecsNext ==
  \/ ExecOpens \/ ExecIsRefused \/ ProcessWrites \/ FrameArrives \/ ConnectionIsLost
  \/ ProcessIsKilled \/ DockerIsAsked \/ RunReturns
  \/ \E w \in {"run", "spawn"} : ExecIsAsked(w)
  \/ \E c \in {0, 1} : ProcessEnds(c)
  \/ \E to \in {"down", "gone"} : ContainerGoes(to)

ExecsSpec == ExecsInit /\ [][ExecsNext]_execVars

(***************************************************************************)
(* Properties.                                                             *)
(***************************************************************************)

\* A code that the caller gets is the code of a process that has ended.
CodeIsTrue == exited \in {0, 1} => process = "ended" /\ exited = processCode

\* A short command that returns a code has its whole output, up to the limit.  A connection
\* to Docker that breaks after the process has ended is the exception: the code is asked
\* for afterwards, so the output can end early with a code of success (execCompletion).
CodeMeansWhole ==
  execCall = "returned" /\ exited # NoCode =>
    \/ arrived = wrote /\ kept = (IF wrote <= KeptPieces THEN wrote ELSE KeptPieces)
    \/ runsOn = "docker" /\ cut

ExecsAreTold == ExecsTypeOK /\ CodeIsTrue /\ CodeMeansWhole
=============================================================================
