----------------------------- MODULE BoxLifecycle -----------------------------
(***************************************************************************)
(* The life of the boxes of one orchestrator, as BoxManager of             *)
(* orchestrator/src/boxes.ts runs it: the per-box promise chain (the       *)
(* "slot"), the operations that run under it step by step, the stop and    *)
(* the delete that overtake them, the create whose failure path runs       *)
(* outside the chain, the report of the adapter that writes the status     *)
(* from outside, and a crash of the process followed by the boot           *)
(* reconciliation.                                                         *)
(*                                                                         *)
(* An operation is modelled by what it AWAITS.  While it awaits a runtime  *)
(* call, the call can take effect (RuntimeActs) or fail (RuntimeFails),    *)
(* the container can exit, the process can crash and other requests can    *)
(* arrive; the code after the await is one step (the Continue actions).    *)
(***************************************************************************)
EXTENDS Naturals, Sequences

CONSTANTS Box,          \* ids of boxes; an id is used for one box only
          MaxQueue,     \* bound: operations of one box in its chain
          MaxFaults,    \* bound: runtime calls that fail
          MaxCrashes    \* bound: crashes of the orchestrator

ASSUME BoundsAssumption == /\ MaxQueue \in Nat
                           /\ MaxFaults \in Nat
                           /\ MaxCrashes \in Nat

VARIABLES
  \* The database (survives a crash).
  status,      \* boxes.status; "none" before the row is inserted
  ready,       \* boxes.ready_at is not NULL
  threads,     \* the box has thread rows
  \* The runtime (survives a crash).
  container,   \* the container of the box
  storage,     \* the workspace and the home directories exist
  setup,       \* the current run of the container has been set up
  \* The memory of the orchestrator (lost in a crash).
  alive,       \* the orchestrator runs and has reconciled
  queue,       \* the chain of the box, the running operation first
  step,        \* what the running operation awaits
  ans,         \* what the awaited runtime call has answered
  preempted,   \* BoxManager.preempted
  birth,       \* how far the create of the box has come
  adapter,     \* the adapter start that will report a status
  \* The bounds.
  faults, crashes

database == <<status, ready, threads>>
runtime  == <<container, storage, setup>>
running  == <<queue, step, ans>>
bounds   == <<faults, crashes>>
vars == <<status, ready, threads, container, storage, setup, alive, queue, step,
          ans, preempted, birth, adapter, faults, crashes>>

(***************************************************************************)
(* Types.                                                                  *)
(***************************************************************************)

\* "open" is the container start that an adapter asks for (ensureContainer),
\* "exec" a local command: a terminal, a review, an attachment, a download.
BringUps   == {"start", "open", "exec"}
Overtakers == {"stop", "remove"}
Kinds      == BringUps \cup Overtakers \cup {"create", "repair"}

\* "queued": the operation waits in the chain.  Every other step is the
\* runtime call that the first operation of the chain awaits.
Steps == {"queued", "make", "storage", "ensure", "state", "start", "setup",
          "stop", "remove", "clear"}
Answers  == {"none", "ok", "fail", "missing", "running", "stopped", "unknown"}
Statuses == {"none", "creating", "running", "stopped", "error", "deleted"}
Births   == {"unborn", "egress", "slot", "unwind", "unwindStorage", "unwindStatus", "done"}

TypeOK ==
  /\ status \in [Box -> Statuses]
  /\ ready \in [Box -> BOOLEAN]
  /\ threads \in [Box -> BOOLEAN]
  /\ container \in [Box -> {"absent", "stopped", "running"}]
  /\ storage \in [Box -> BOOLEAN]
  /\ setup \in [Box -> BOOLEAN]
  /\ alive \in BOOLEAN
  /\ queue \in [Box -> Seq(Kinds)]
  /\ step \in [Box -> Steps]
  /\ ans \in [Box -> Answers]
  /\ preempted \in SUBSET Box
  /\ birth \in [Box -> Births]
  /\ adapter \in [Box -> {"off", "waiting", "starting"}]
  /\ faults \in 0..MaxFaults
  /\ crashes \in 0..MaxCrashes

Init ==
  /\ status = [b \in Box |-> "none"]
  /\ ready = [b \in Box |-> FALSE]
  /\ threads = [b \in Box |-> FALSE]
  /\ container = [b \in Box |-> "absent"]
  /\ storage = [b \in Box |-> FALSE]
  /\ setup = [b \in Box |-> FALSE]
  /\ alive = TRUE
  /\ queue = [b \in Box |-> <<>>]
  /\ step = [b \in Box |-> "queued"]
  /\ ans = [b \in Box |-> "none"]
  /\ preempted = {}
  /\ birth = [b \in Box |-> "unborn"]
  /\ adapter = [b \in Box |-> "off"]
  /\ faults = 0
  /\ crashes = 0

(***************************************************************************)
(* The status column, the chain and the flag of the overtakers.            *)
(***************************************************************************)

\* A mutant: the update does not look at the tombstone.
SetStatus_NoTombstone(b, s) == status' = [status EXCEPT ![b] = s]

\* setStatus: a deleted box stays deleted.
SetStatus(b, s) ==
  status' = [status EXCEPT ![b] = IF @ = "deleted" THEN @ ELSE s]

\* A box that a user can see and use (visibleRow, and allRows for the loops).
Visible(b) == status[b] \notin {"none", "deleted"}

\* A mutant: the row is not looked at again.
Gone_Never(b) == FALSE

\* mustGet throws for a row that is absent or a tombstone.
Gone(b) == ~Visible(b)

Running(b, k) == queue[b] # <<>> /\ Head(queue[b]) = k
RunsBringUp(b) == queue[b] # <<>> /\ Head(queue[b]) \in BringUps

\* withSlot appends to the chain of the box.
Enqueue(b, k) ==
  /\ Len(queue[b]) < MaxQueue
  /\ queue' = [queue EXCEPT ![b] = Append(@, k)]
  /\ UNCHANGED <<step, ans>>

\* The operation settles, and the chain goes on with the next one.
Leave(b) ==
  /\ queue' = [queue EXCEPT ![b] = Tail(@)]
  /\ step' = [step EXCEPT ![b] = "queued"]
  /\ ans' = [ans EXCEPT ![b] = "none"]

\* The operation awaits its next runtime call.
Await(b, s) ==
  /\ step' = [step EXCEPT ![b] = s]
  /\ ans' = [ans EXCEPT ![b] = "none"]
  /\ UNCHANGED queue

\* giveUpIfPreempted throws.
GivesUp(b) == b \in preempted

(***************************************************************************)
(* Requests: what the routes, the gateway and the loops ask for.           *)
(***************************************************************************)

\* create inserts the row and then awaits the push of the egress policy,
\* before it asks for the slot.
RequestCreate(b) ==
  /\ alive
  /\ status[b] = "none"
  /\ status' = [status EXCEPT ![b] = "creating"]
  /\ birth' = [birth EXCEPT ![b] = "egress"]
  /\ UNCHANGED <<ready, threads, runtime, alive, running, preempted, adapter, bounds>>

\* The egress push returns (its failure is logged), and create asks for the slot.
QueueCreate(b) ==
  /\ birth[b] = "egress"
  /\ Enqueue(b, "create")
  /\ birth' = [birth EXCEPT ![b] = "slot"]
  /\ UNCHANGED <<database, runtime, alive, preempted, adapter, bounds>>

\* start and execTarget.
RequestBringUp(b, k) ==
  /\ alive
  /\ Visible(b)
  /\ Enqueue(b, k)
  /\ UNCHANGED <<database, runtime, alive, preempted, birth, adapter, bounds>>

\* An adapter starts: AdapterConnection.start clears its `stopping` flag and
\* awaits ensureContainer.  The starts of one box share one container start.
RequestOpen(b) ==
  /\ alive
  /\ Visible(b)
  /\ adapter[b] = "off"
  /\ "open" \notin {queue[b][i] : i \in DOMAIN queue[b]}
  /\ Enqueue(b, "open")
  /\ adapter' = [adapter EXCEPT ![b] = "waiting"]
  /\ UNCHANGED <<database, runtime, alive, preempted, birth, bounds>>

\* stop and remove: the flag and the stop of the upstream come before the
\* request for the slot.  The stop sets `stopping` in each adapter connection,
\* so an adapter start in flight reports no status any more.
Overtake(b, k) ==
  /\ Enqueue(b, k)
  /\ preempted' = preempted \cup {b}
  /\ adapter' = [adapter EXCEPT ![b] = "off"]
  /\ UNCHANGED <<database, runtime, alive, birth, bounds>>

\* The reaper reads the rows at the begin of a tick, so its stop can also meet
\* a box that has been deleted since.
RequestOvertaker(b, k) ==
  /\ alive
  /\ Visible(b) \/ (k = "stop" /\ status[b] = "deleted")
  /\ Overtake(b, k)

\* The reaper stops a box whose row says running and whose chain is empty
\* (stopUnlessBusy).  Its other conditions (no turn, no browser, no recent
\* activity) are taken as met: it may act on any such box at any time.
Reap(b) ==
  /\ alive
  /\ status[b] = "running"
  /\ queue[b] = <<>>
  /\ Overtake(b, "stop")

\* reconcileIsolation skips a box that is not running or has a chain.  The
\* boot repairs each running box with the same operation.
RequestRepair(b) ==
  /\ alive
  /\ status[b] = "running"
  /\ queue[b] = <<>>
  /\ Enqueue(b, "repair")
  /\ UNCHANGED <<database, runtime, alive, preempted, birth, adapter, bounds>>

(***************************************************************************)
(* The first step of each operation, once it is first in the chain.        *)
(***************************************************************************)

\* A mutant: the bring-up goes to the container without a look at the files.
BringUpBegins_NoStorageCheck(b) ==
  /\ RunsBringUp(b)
  /\ IF Gone(b) \/ GivesUp(b)
     THEN /\ Leave(b)
          /\ adapter' = IF Running(b, "open") THEN [adapter EXCEPT ![b] = "off"] ELSE adapter
     ELSE Await(b, "ensure") /\ UNCHANGED adapter
  /\ UNCHANGED <<database, preempted>>

\* bringUp: mustGet, giveUpIfPreempted, then requireStorage.
BringUpBegins(b) ==
  /\ RunsBringUp(b)
  /\ IF Gone(b) \/ GivesUp(b)
     THEN /\ Leave(b)
          /\ adapter' = IF Running(b, "open") THEN [adapter EXCEPT ![b] = "off"] ELSE adapter
     ELSE Await(b, "storage") /\ UNCHANGED adapter
  /\ UNCHANGED <<database, preempted>>

\* createResources starts with createStorage and does not look at the row.
CreateBegins(b) ==
  /\ Running(b, "create")
  /\ Await(b, "make")
  /\ UNCHANGED <<database, preempted, adapter>>

\* stopHeld and removeHeld clear the flag first.
ClearFlag(b) == preempted' = preempted \ {b}

StopBegins(b) ==
  /\ Running(b, "stop")
  /\ ClearFlag(b)
  /\ IF Gone(b) THEN Leave(b) ELSE Await(b, "state")
  /\ UNCHANGED <<database, adapter>>

\* The tombstone goes first, before the teardown.
RemoveBegins(b) ==
  /\ Running(b, "remove")
  /\ ClearFlag(b)
  /\ IF Gone(b) THEN Leave(b) /\ UNCHANGED status
               ELSE Await(b, "remove") /\ SetStatus(b, "deleted")
  /\ UNCHANGED <<ready, threads, adapter>>

RepairBegins(b) ==
  /\ Running(b, "repair")
  /\ Await(b, "state")
  /\ UNCHANGED <<database, preempted, adapter>>

Begin(b) ==
  /\ alive
  /\ queue[b] # <<>>
  /\ step[b] = "queued"
  /\ \/ BringUpBegins(b)
     \/ CreateBegins(b)
     \/ StopBegins(b)
     \/ RemoveBegins(b)
     \/ RepairBegins(b)
  /\ UNCHANGED <<runtime, alive, birth, bounds>>

(***************************************************************************)
(* The runtime (external: Docker or Kubernetes behind runtime.ts).         *)
(***************************************************************************)

Answer(b, a) == ans' = [ans EXCEPT ![b] = a]

\* The effect and the answer of the call that the operation awaits.
CallTakesEffect(b) ==
  \/ /\ step[b] = "make"
     /\ storage' = [storage EXCEPT ![b] = TRUE]
     /\ Answer(b, "ok") /\ UNCHANGED <<container, setup>>
  \/ /\ step[b] = "storage"
     /\ Answer(b, IF storage[b] THEN "ok" ELSE "missing") /\ UNCHANGED runtime
  \/ /\ step[b] = "ensure"
     /\ container' = [container EXCEPT ![b] = IF @ = "absent" THEN "stopped" ELSE @]
     /\ Answer(b, "ok") /\ UNCHANGED <<storage, setup>>
  \/ /\ step[b] = "state"
     /\ Answer(b, IF container[b] = "running" THEN "running" ELSE "stopped")
     /\ UNCHANGED runtime
  \/ /\ step[b] = "start"
     /\ container[b] = "stopped"
     /\ container' = [container EXCEPT ![b] = "running"]
     /\ setup' = [setup EXCEPT ![b] = FALSE]
     /\ Answer(b, "ok") /\ UNCHANGED storage
  \/ /\ step[b] = "start"
     /\ container[b] # "stopped"
     /\ Answer(b, IF container[b] = "running" THEN "ok" ELSE "fail") /\ UNCHANGED runtime
  \/ /\ step[b] = "setup"
     /\ container[b] = "running"
     /\ setup' = [setup EXCEPT ![b] = TRUE]
     /\ Answer(b, "ok") /\ UNCHANGED <<container, storage>>
  \/ /\ step[b] = "setup"
     /\ container[b] # "running"
     /\ Answer(b, "fail") /\ UNCHANGED runtime
  \/ /\ step[b] = "stop"
     /\ container' = [container EXCEPT ![b] = IF @ = "running" THEN "stopped" ELSE @]
     /\ Answer(b, "ok") /\ UNCHANGED <<storage, setup>>
  \/ /\ step[b] = "remove"
     /\ container' = [container EXCEPT ![b] = "absent"]
     /\ Answer(b, "ok") /\ UNCHANGED <<storage, setup>>
  \/ /\ step[b] = "clear"
     /\ storage' = [storage EXCEPT ![b] = FALSE]
     /\ Answer(b, "ok") /\ UNCHANGED <<container, setup>>

RuntimeActs(b) ==
  /\ alive
  /\ ans[b] = "none"
  /\ CallTakesEffect(b)
  /\ UNCHANGED <<database, alive, queue, step, preempted, birth, adapter, bounds>>

\* What a call that had no effect can answer: a failed read of the state is
\* `unknown`, and an ensure that reads an unknown state returns as if it worked.
FailedAnswers(s) ==
  CASE s = "state"  -> {"unknown"}
    [] s = "ensure" -> {"ok", "fail"}
    [] OTHER        -> {"fail"}

\* What a call that failed in the middle leaves of a container c: a remove has
\* only stopped it, or an ensure has removed an outdated one and made no new one.
LeftOf(s, c) ==
  CASE s = "remove" /\ c = "running" -> {"running", "stopped"}
    [] s = "ensure" /\ c = "stopped" -> {"stopped", "absent"}
    [] OTHER                         -> {c}

\* A call fails, without an effect or in the middle.
RuntimeFails(b) ==
  /\ alive
  /\ step[b] # "queued"
  /\ ans[b] = "none"
  /\ faults < MaxFaults
  /\ \/ /\ \E a \in FailedAnswers(step[b]) : Answer(b, a)
        /\ UNCHANGED container
     \/ /\ \E c \in LeftOf(step[b], container[b]) : container' = [container EXCEPT ![b] = c]
        /\ Answer(b, "fail")
        /\ step[b] # "state"
  /\ faults' = faults + 1
  /\ UNCHANGED <<database, storage, setup, alive, queue, step, preempted, birth, adapter, crashes>>

(***************************************************************************)
(* The code after each await.                                              *)
(***************************************************************************)

Answered(b, s, a) == step[b] = s /\ ans[b] = a

\* A mutant: the rejection of an operation ends its chain.
Throws_EndsChain(b) ==
  /\ UNCHANGED running
  /\ adapter' = IF Running(b, "open") THEN [adapter EXCEPT ![b] = "off"] ELSE adapter

\* The operation throws: nothing else changes, but an adapter start that
\* waited for the container is over.
Throws(b) ==
  /\ Leave(b)
  /\ adapter' = IF Running(b, "open") THEN [adapter EXCEPT ![b] = "off"] ELSE adapter

\* A bring-up returns: start records the status, an adapter start goes on
\* unless a stop has ended it, a local command records nothing but activity.
Succeeds(b) ==
  /\ Leave(b)
  /\ IF Running(b, "start") THEN SetStatus(b, "running") ELSE UNCHANGED status
  /\ adapter' = IF Running(b, "open") /\ adapter[b] = "waiting"
                THEN [adapter EXCEPT ![b] = "starting"] ELSE adapter

\* bringUp after requireStorage, and prepareContainer after its second check.
AfterStorage(b) ==
  /\ step[b] = "storage"
  /\ \/ /\ ans[b] = "missing"
        /\ SetStatus(b, "error")
        /\ Throws(b)
     \/ /\ ans[b] = "fail"
        /\ Throws(b)
        /\ UNCHANGED status
     \/ /\ ans[b] = "ok"
        /\ IF GivesUp(b) THEN Throws(b) ELSE Await(b, "ensure") /\ UNCHANGED adapter
        /\ UNCHANGED status
  /\ UNCHANGED ready

AfterEnsure(b) ==
  /\ step[b] = "ensure"
  /\ ans[b] \in {"ok", "fail"}
  /\ IF ans[b] = "fail" \/ GivesUp(b)
     THEN Throws(b) ELSE Await(b, "state") /\ UNCHANGED adapter
  /\ UNCHANGED <<status, ready>>

\* makeReady, after the last check for an overtaker.
GoReady(b) ==
  IF GivesUp(b) THEN Throws(b) /\ UNCHANGED <<status, ready>>
  ELSE IF ready[b] THEN Succeeds(b) /\ UNCHANGED ready
  ELSE Await(b, "setup") /\ UNCHANGED <<status, ready, adapter>>

\* A mutant: the start keeps the mark of the run before.
ClearReady_Never(b) == UNCHANGED ready

\* The ready mark goes before the container starts.
ClearReady(b) == ready' = [ready EXCEPT ![b] = FALSE]

AfterState(b) ==
  /\ step[b] = "state"
  /\ \/ /\ ans[b] = "running"
        /\ GoReady(b)
     \/ /\ ans[b] \in {"stopped", "unknown"}
        /\ ClearReady(b)
        /\ Await(b, "start")
        /\ UNCHANGED <<status, adapter>>

AfterStart(b) ==
  /\ step[b] = "start"
  /\ \/ /\ ans[b] = "ok"
        /\ GoReady(b)
     \/ /\ ans[b] = "fail"
        /\ Throws(b)
        /\ UNCHANGED <<status, ready>>

AfterSetup(b) ==
  /\ step[b] = "setup"
  /\ \/ /\ ans[b] = "ok"
        /\ ready' = [ready EXCEPT ![b] = TRUE]
        /\ Succeeds(b)
     \/ /\ ans[b] = "fail"
        /\ SetStatus(b, "error")
        /\ Throws(b)
        /\ UNCHANGED ready

BringUpContinues(b) ==
  /\ alive
  /\ RunsBringUp(b)
  /\ \/ AfterStorage(b)
     \/ AfterEnsure(b)
     \/ AfterState(b)
     \/ AfterStart(b)
     \/ AfterSetup(b)
  /\ UNCHANGED <<threads, runtime, alive, preempted, birth, bounds>>

\* createResources failed: the slot is free, and the teardown runs outside it.
CreateFails(b) ==
  /\ Leave(b)
  /\ birth' = [birth EXCEPT ![b] = "unwind"]
  /\ UNCHANGED <<ready, threads>>

\* createResources step by step; then, before the next operation of the chain
\* can begin, create records the status and inserts the first thread.
\* boxSpec calls mustGet, so a deleted box fails after its storage is made.
CreateContinues(b) ==
  /\ alive
  /\ Running(b, "create")
  /\ ans[b] \in {"ok", "fail"}
  /\ \/ /\ ans[b] = "fail" \/ (step[b] = "make" /\ Gone(b))
        /\ CreateFails(b)
        /\ IF step[b] = "setup" THEN SetStatus(b, "error") ELSE UNCHANGED status
     \/ /\ Answered(b, "make", "ok")
        /\ ~Gone(b)
        /\ Await(b, "ensure")
        /\ UNCHANGED <<database, birth>>
     \/ /\ Answered(b, "ensure", "ok")
        /\ Await(b, "start")
        /\ UNCHANGED <<database, birth>>
     \/ /\ Answered(b, "start", "ok")
        /\ Await(b, "setup")
        /\ UNCHANGED <<database, birth>>
     \/ /\ Answered(b, "setup", "ok")
        /\ ready' = [ready EXCEPT ![b] = TRUE]
        /\ threads' = [threads EXCEPT ![b] = TRUE]
        /\ birth' = [birth EXCEPT ![b] = "done"]
        /\ SetStatus(b, "running")
        /\ Leave(b)
  /\ UNCHANGED <<runtime, alive, preempted, adapter, bounds>>

\* The teardown of a failed create: runtime.remove, removeStorage, and then
\* the status.  A failed step is logged and the teardown goes on.
UnwindRemove(b) ==
  /\ birth[b] = "unwind"
  /\ birth' = [birth EXCEPT ![b] = "unwindStorage"]
  /\ \/ container' = [container EXCEPT ![b] = "absent"] /\ UNCHANGED faults
     \/ /\ faults < MaxFaults
        /\ faults' = faults + 1
        /\ \E c \in LeftOf("remove", container[b]) : container' = [container EXCEPT ![b] = c]
  /\ UNCHANGED <<database, storage, setup, alive, running, preempted, adapter, crashes>>

UnwindStorage(b) ==
  /\ birth[b] = "unwindStorage"
  /\ birth' = [birth EXCEPT ![b] = "unwindStatus"]
  /\ \/ storage' = [storage EXCEPT ![b] = FALSE] /\ UNCHANGED faults
     \/ faults < MaxFaults /\ faults' = faults + 1 /\ UNCHANGED storage
  /\ UNCHANGED <<database, container, setup, alive, running, preempted, adapter, crashes>>

UnwindStatus(b) ==
  /\ birth[b] = "unwindStatus"
  /\ birth' = [birth EXCEPT ![b] = "done"]
  /\ SetStatus(b, "error")
  /\ UNCHANGED <<ready, threads, runtime, alive, running, preempted, adapter, bounds>>

\* A mutant: the status goes before the stop of the container.
StopContinues_StatusFirst(b) ==
  /\ alive
  /\ Running(b, "stop")
  /\ \/ /\ step[b] = "state"
        /\ ans[b] # "none"
        /\ Await(b, "stop")
        /\ SetStatus(b, "stopped")
     \/ /\ step[b] = "stop"
        /\ ans[b] # "none"
        /\ Leave(b)
        /\ UNCHANGED status
  /\ UNCHANGED <<ready, threads, runtime, alive, preempted, birth, adapter, bounds>>

\* stopHeld: the state decides only about a last disk measurement.
StopContinues(b) ==
  /\ alive
  /\ Running(b, "stop")
  /\ \/ /\ step[b] = "state"
        /\ ans[b] # "none"
        /\ Await(b, "stop")
        /\ UNCHANGED status
     \/ /\ Answered(b, "stop", "ok")
        /\ SetStatus(b, "stopped")
        /\ Leave(b)
     \/ /\ Answered(b, "stop", "fail")
        /\ Leave(b)
        /\ UNCHANGED status
  /\ UNCHANGED <<ready, threads, runtime, alive, preempted, birth, adapter, bounds>>

\* removeHeld: teardownResources logs each failure and goes on, and the
\* thread rows go last.
RemoveContinues(b) ==
  /\ alive
  /\ Running(b, "remove")
  /\ ans[b] # "none"
  /\ \/ /\ step[b] = "remove"
        /\ Await(b, "clear")
        /\ UNCHANGED threads
     \/ /\ step[b] = "clear"
        /\ threads' = [threads EXCEPT ![b] = FALSE]
        /\ Leave(b)
  /\ UNCHANGED <<status, ready, runtime, alive, preempted, birth, adapter, bounds>>

\* reconcileIsolation under the slot: the state is read again before the repair.
RepairContinues(b) ==
  /\ alive
  /\ Running(b, "repair")
  /\ ans[b] # "none"
  /\ \/ /\ step[b] = "state"
        /\ IF ans[b] = "running" THEN Await(b, "ensure") ELSE Leave(b)
     \/ /\ step[b] = "ensure"
        /\ Leave(b)
  /\ UNCHANGED <<database, runtime, alive, preempted, birth, adapter, bounds>>

\* An adapter start ends after its container start: the adapter runs in the
\* box, or every spawn attempt failed, or the adapter misses a credential,
\* which it does not report.  The report reaches setStatus outside the chain.
\* A stop in the meantime has turned the report off.
AdapterReports(b) ==
  /\ adapter[b] = "starting"
  /\ \/ container[b] = "running" /\ SetStatus(b, "running")
     \/ SetStatus(b, "error")
     \/ UNCHANGED status
  /\ adapter' = [adapter EXCEPT ![b] = "off"]
  /\ UNCHANGED <<ready, threads, runtime, alive, running, preempted, birth, bounds>>

\* A mutant: a tombstone counts as a row that owns its objects.
Sweep_KeepsTombstones(b) ==
  /\ alive
  /\ status[b] = "none"
  /\ \/ container[b] # "absent" /\ container' = [container EXCEPT ![b] = "absent"]
        /\ UNCHANGED storage
     \/ storage[b] /\ storage' = [storage EXCEPT ![b] = FALSE]
        /\ UNCHANGED container
  /\ UNCHANGED <<database, setup, alive, running, preempted, birth, adapter, bounds>>

\* sweepOrphans: the reaper removes each object that no live row owns, one at a
\* time and outside the chain.  A removal that fails is tried at the next tick.
Sweep(b) ==
  /\ alive
  /\ ~Visible(b)
  /\ \/ container[b] # "absent" /\ container' = [container EXCEPT ![b] = "absent"]
        /\ UNCHANGED storage
     \/ storage[b] /\ storage' = [storage EXCEPT ![b] = FALSE]
        /\ UNCHANGED container
  /\ UNCHANGED <<database, setup, alive, running, preempted, birth, adapter, bounds>>

(***************************************************************************)
(* The environment, a crash and the boot.                                  *)
(***************************************************************************)

\* A container ends by itself, for example out of memory; nothing but the
\* orchestrator starts it again (restart policy `no`).
Exits(b) ==
  /\ container[b] = "running"
  /\ container' = [container EXCEPT ![b] = "stopped"]
  /\ UNCHANGED <<database, storage, setup, alive, running, preempted, birth, adapter, bounds>>

\* The files of a box can be lost while the orchestrator is down, for example
\* when the data volume is restored from a backup.
LosesStorage(b) ==
  /\ ~alive
  /\ storage[b]
  /\ storage' = [storage EXCEPT ![b] = FALSE]
  /\ UNCHANGED <<database, container, setup, alive, running, preempted, birth, adapter, bounds>>

\* The process ends.  A create in flight is gone with it.
Crash ==
  /\ alive
  /\ crashes < MaxCrashes
  /\ crashes' = crashes + 1
  /\ alive' = FALSE
  /\ queue' = [b \in Box |-> <<>>]
  /\ step' = [b \in Box |-> "queued"]
  /\ ans' = [b \in Box |-> "none"]
  /\ preempted' = {}
  /\ birth' = [b \in Box |-> IF birth[b] = "unborn" THEN "unborn" ELSE "done"]
  /\ adapter' = [b \in Box |-> "off"]
  /\ UNCHANGED <<database, runtime, faults>>

\* A mutant: the row takes the state of the runtime as it is.
Adopted_RawState(b) == IF ~Visible(b) THEN status[b] ELSE container[b]

\* A mutant: a create that did not finish keeps its status.
Adopted_SkipsCreating(b) ==
  IF ~Visible(b) THEN status[b]
  ELSE IF container[b] = "absent"
       THEN IF status[b] = "running" THEN "stopped" ELSE status[b]
       ELSE IF container[b] = "running" THEN "running" ELSE "stopped"

\* reconcile: a live row follows its container.  Without a container, a
\* running row is stopped, and a create that did not finish is an error.
Adopted(b) ==
  IF ~Visible(b) THEN status[b]
  ELSE IF container[b] = "absent"
       THEN CASE status[b] = "running" -> "stopped"
              [] status[b] = "creating" -> "error"
              [] OTHER -> status[b]
       ELSE IF container[b] = "running" THEN "running" ELSE "stopped"

\* No request is served before reconcile has finished.
Boot ==
  /\ ~alive
  /\ alive' = TRUE
  /\ status' = [b \in Box |-> Adopted(b)]
  /\ UNCHANGED <<ready, threads, runtime, running, preempted, birth, adapter, bounds>>

(***************************************************************************)
(* The specification.                                                      *)
(***************************************************************************)

Continue(b) ==
  \/ BringUpContinues(b)
  \/ CreateContinues(b)
  \/ StopContinues(b)
  \/ RemoveContinues(b)
  \/ RepairContinues(b)

Unwind(b) == UnwindRemove(b) \/ UnwindStorage(b) \/ UnwindStatus(b)

Next ==
  \/ \E b \in Box :
       \/ RequestCreate(b)
       \/ QueueCreate(b)
       \/ \E k \in {"start", "exec"} : RequestBringUp(b, k)
       \/ RequestOpen(b)
       \/ \E k \in Overtakers : RequestOvertaker(b, k)
       \/ Reap(b)
       \/ RequestRepair(b)
       \/ Begin(b)
       \/ RuntimeActs(b)
       \/ RuntimeFails(b)
       \/ Continue(b)
       \/ Unwind(b)
       \/ AdapterReports(b)
       \/ Sweep(b)
       \/ Exits(b)
       \/ LosesStorage(b)
  \/ Crash
  \/ Boot

Spec == Init /\ [][Next]_vars

\* The event loop runs every settled promise, a runtime call answers, the
\* process is started again, and the reaper ticks every minute.  The repair
\* loop ticks every minute too and can hold the chain for a moment, so the
\* reaper needs strong fairness.
Fairness ==
  /\ \A b \in Box :
       /\ WF_vars(QueueCreate(b))
       /\ WF_vars(Begin(b))
       /\ WF_vars(RuntimeActs(b))
       /\ WF_vars(Continue(b))
       /\ WF_vars(Unwind(b))
       /\ WF_vars(Sweep(b))
       /\ SF_vars(Reap(b))
  /\ WF_vars(Boot)

FairSpec == Spec /\ Fairness

(***************************************************************************)
(* Safety.                                                                 *)
(***************************************************************************)

\* The ready mark is only there when the current run of the container has
\* been set up, whatever crash, exit or failed call came in between: bringUp
\* clears the mark before runtime().start, so "a crash between the two leaves
\* the box not ready".
ReadyMeansSetUp ==
  \A b \in Box : ready[b] /\ container[b] = "running" => setup[b]

\* A deleted box leaves no container, no storage and no thread row, also when
\* the delete overtook the create and came before it in the chain: the create
\* then fails on the tombstone and tears down what it made.
DeleteLeavesNothing ==
  \A b \in Box :
    /\ status[b] = "deleted"
    /\ queue[b] = <<>>
    /\ birth[b] = "done"
    /\ faults = 0
    /\ crashes = 0
    => container[b] = "absent" /\ ~storage[b] /\ ~threads[b]

\* A tombstone is final: no late report of an adapter and no operation behind
\* the delete in the chain brings the row back or starts the container.
TombstoneIsFinal ==
  [][\A b \in Box : status[b] = "deleted" =>
       /\ status'[b] = "deleted"
       /\ container'[b] = "running" => container[b] = "running"]_vars

\* No container of a created box starts without the files of the box, because
\* requireStorage runs before anything mounts them, on every path to a start,
\* also after the files were lost while the orchestrator was down.
StartsOnlyWithStorage ==
  [][\A b \in Box :
       threads[b] /\ container[b] # "running" /\ container'[b] = "running"
         => storage[b]]_vars

\* Whenever a row becomes `stopped`, by a stop or by the boot, its container
\* does not run at that moment, whatever else is in the chain.
StoppedMeansDown ==
  [][\A b \in Box :
       status[b] # "stopped" /\ status'[b] = "stopped"
         => container'[b] # "running"]_vars

(***************************************************************************)
(* Liveness.                                                               *)
(***************************************************************************)

\* A stop or a delete, once requested, takes the container down: operations
\* before it in the chain end, and one that is rejected does not block the
\* chain.  (A failed runtime call or a crash can lose it.)
OvertakerTakesEffect ==
  \A b \in Box :
    b \in preempted ~> (container[b] # "running" \/ faults > 0 \/ crashes > 0)

\* No box stays `creating`: a create succeeds, fails, or is settled by the
\* boot after a crash.
CreateSettles ==
  \A b \in Box : status[b] = "creating" ~> status[b] # "creating"

\* A deleted box leaves nothing for good, also when a step of its teardown
\* failed, when the process crashed in the middle of the delete, or when a
\* create behind the delete made the storage again: the sweep of the reaper
\* removes what no live row owns.
TombstoneIsSwept ==
  \A b \in Box :
    <>(status[b] = "deleted") => <>[](container[b] = "absent" /\ ~storage[b])

(***************************************************************************)
(* What the other parts see of it.                                         *)
(***************************************************************************)

\* The row, without the reason why a box that is kept does not work.
RowOf(b) ==
  CASE status[b] = "none" -> "none"
    [] status[b] = "deleted" -> "gone"
    [] status[b] = "stopped" -> "stopped"
    [] OTHER -> "kept"

Promise == INSTANCE BoxPromise WITH
             row <- [b \in Box |-> RowOf(b)],
             power <- [b \in Box |-> container[b] = "running"],
             fit <- setup,
             mark <- ready

\* The manager keeps BoxPromise: through slots, overtakers, failed calls, crashes and
\* boots, a row moves, a container starts and a ready mark appears only as promised.
PromiseKept == Promise!PromiseSpec

=============================================================================
