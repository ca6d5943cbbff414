------------------------- MODULE BoxLifecycleProofs -------------------------
(***************************************************************************)
(* What holds of BoxLifecycle for every set of boxes and every bound: the  *)
(* types, what a chain and a create may be doing (IInv) and the invariants *)
(* that follow from it, what a delete leaves behind, and that it           *)
(* implements BoxPromise.                                                  *)
(***************************************************************************)
EXTENDS BoxLifecycle, TLAPS

(***************************************************************************)
(* Type correctness.                                                       *)
(***************************************************************************)

\* The operators that change a variable of one box keep the types.
LEMMA SetStatusType ==
  ASSUME NEW b \in Box, NEW s \in Statuses, TypeOK, SetStatus(b, s)
  PROVE  status' \in [Box -> Statuses]
  BY DEF SetStatus, TypeOK

\* An operation that settles keeps the types of the chain.
LEMMA LeaveType ==
  ASSUME NEW b \in Box, TypeOK, queue[b] # <<>>, Leave(b)
  PROVE  /\ queue' \in [Box -> Seq(Kinds)]
         /\ step' \in [Box -> Steps]
         /\ ans' \in [Box -> Answers]
  BY DEF Leave, TypeOK, Steps, Answers

\* An operation that awaits a runtime call keeps the types of the chain.
LEMMA AwaitType ==
  ASSUME NEW b \in Box, NEW s \in Steps, TypeOK, Await(b, s)
  PROVE  /\ queue' \in [Box -> Seq(Kinds)]
         /\ step' \in [Box -> Steps]
         /\ ans' \in [Box -> Answers]
  BY DEF Await, TypeOK, Answers

\* A request keeps the types of the chain.
LEMMA EnqueueType ==
  ASSUME NEW b \in Box, NEW k \in Kinds, TypeOK, Enqueue(b, k)
  PROVE  /\ queue' \in [Box -> Seq(Kinds)]
         /\ step' \in [Box -> Steps]
         /\ ans' \in [Box -> Answers]
  BY DEF Enqueue, TypeOK

\* The code after an await of a bring-up.
LEMMA BringUpContinuesType ==
  ASSUME NEW b \in Box, TypeOK, BringUpContinues(b)
  PROVE  TypeOK'
<1> USE DEF TypeOK, database, runtime, running, bounds
<1>a. queue[b] # <<>>
  BY DEF BringUpContinues, RunsBringUp
<1>b. {"error", "running"} \subseteq Statuses
        /\ {"ensure", "state", "start", "setup"} \subseteq Steps
  BY DEF Statuses, Steps
<1>0. ASSUME Throws(b)
      PROVE  /\ queue' \in [Box -> Seq(Kinds)]
             /\ step' \in [Box -> Steps]
             /\ ans' \in [Box -> Answers]
             /\ adapter' \in [Box -> {"off", "waiting", "starting"}]
  BY <1>0, <1>a, LeaveType DEF Throws
<1>1. ASSUME Succeeds(b)
      PROVE  /\ queue' \in [Box -> Seq(Kinds)]
             /\ step' \in [Box -> Steps]
             /\ ans' \in [Box -> Answers]
             /\ adapter' \in [Box -> {"off", "waiting", "starting"}]
             /\ status' \in [Box -> Statuses]
  BY <1>1, <1>a, <1>b, LeaveType, SetStatusType DEF Succeeds
<1>2. ASSUME GoReady(b), ready' \in [Box -> BOOLEAN] \/ UNCHANGED ready
      PROVE  TypeOK'
  BY <1>0, <1>1, <1>2, <1>b, AwaitType DEF GoReady, BringUpContinues
<1>3. CASE AfterStorage(b)
  BY <1>0, <1>3, <1>b, AwaitType, SetStatusType DEF AfterStorage, BringUpContinues
<1>4. CASE AfterEnsure(b)
  BY <1>0, <1>4, <1>b, AwaitType DEF AfterEnsure, BringUpContinues
<1>5. CASE AfterState(b)
  BY <1>2, <1>5, <1>b, AwaitType DEF AfterState, ClearReady, BringUpContinues, GoReady
<1>6. CASE AfterStart(b)
  BY <1>0, <1>2, <1>6 DEF AfterStart, BringUpContinues, GoReady
<1>7. CASE AfterSetup(b)
  BY <1>0, <1>1, <1>7, <1>b, SetStatusType DEF AfterSetup, BringUpContinues
<1> QED
  BY <1>3, <1>4, <1>5, <1>6, <1>7 DEF BringUpContinues

\* The code after an await of the other operations.
LEMMA CreateContinuesType ==
  ASSUME NEW b \in Box, TypeOK, CreateContinues(b)
  PROVE  TypeOK'
<1> USE DEF TypeOK, database, runtime, running, bounds
<1>a. queue[b] # <<>>
  BY DEF CreateContinues, Running
<1>b. /\ {"error", "running"} \subseteq Statuses
      /\ {"ensure", "start", "setup"} \subseteq Steps
      /\ {"unwind", "done"} \subseteq Births
  BY DEF Statuses, Steps, Births
<1>1. CASE CreateFails(b)
  BY <1>1, <1>a, <1>b, LeaveType, SetStatusType DEF CreateFails, CreateContinues
<1>2. CASE /\ Answered(b, "setup", "ok")
           /\ ready' = [ready EXCEPT ![b] = TRUE]
           /\ threads' = [threads EXCEPT ![b] = TRUE]
           /\ birth' = [birth EXCEPT ![b] = "done"]
           /\ SetStatus(b, "running")
           /\ Leave(b)
  BY <1>2, <1>a, <1>b, LeaveType, SetStatusType DEF CreateContinues
<1>3. CASE /\ UNCHANGED <<database, birth>>
           /\ \E s \in {"ensure", "start", "setup"} : Await(b, s)
  BY <1>3, <1>b, AwaitType DEF CreateContinues
<1> QED
  BY <1>1, <1>2, <1>3 DEF CreateContinues

\* The code after an await of a stop, a delete or a repair keeps the types.
LEMMA OvertakerContinuesType ==
  ASSUME NEW b \in Box, TypeOK,
         StopContinues(b) \/ RemoveContinues(b) \/ RepairContinues(b)
  PROVE  TypeOK'
<1> USE DEF TypeOK, database, runtime, running, bounds
<1>a. queue[b] # <<>>
  BY DEF StopContinues, RemoveContinues, RepairContinues, Running
<1>b. "stopped" \in Statuses /\ {"stop", "clear", "ensure"} \subseteq Steps
  BY DEF Statuses, Steps
<1>1. CASE StopContinues(b)
  BY <1>1, <1>a, <1>b, LeaveType, AwaitType, SetStatusType DEF StopContinues
<1>2. CASE RemoveContinues(b)
  BY <1>2, <1>a, <1>b, LeaveType, AwaitType DEF RemoveContinues
<1>3. CASE RepairContinues(b)
  BY <1>3, <1>a, <1>b, LeaveType, AwaitType DEF RepairContinues
<1> QED
  BY <1>1, <1>2, <1>3

\* The first step of each operation.
LEMMA BeginType ==
  ASSUME NEW b \in Box, TypeOK, Begin(b)
  PROVE  TypeOK'
<1> USE DEF TypeOK, database, runtime, running, bounds
<1>a. queue[b] # <<>>
  BY DEF Begin
<1>b. "deleted" \in Statuses /\ {"storage", "make", "state", "remove"} \subseteq Steps
  BY DEF Statuses, Steps
<1>1. CASE BringUpBegins(b)
  BY <1>1, <1>a, <1>b, LeaveType, AwaitType DEF Begin, BringUpBegins
<1>2. CASE CreateBegins(b)
  BY <1>2, <1>a, <1>b, AwaitType DEF Begin, CreateBegins
<1>3. CASE StopBegins(b)
  BY <1>3, <1>a, <1>b, LeaveType, AwaitType DEF Begin, StopBegins, ClearFlag
<1>4. CASE RemoveBegins(b)
  BY <1>4, <1>a, <1>b, LeaveType, AwaitType, SetStatusType DEF Begin, RemoveBegins, ClearFlag
<1>5. CASE RepairBegins(b)
  BY <1>5, <1>a, <1>b, AwaitType DEF Begin, RepairBegins
<1> QED
  BY <1>1, <1>2, <1>3, <1>4, <1>5 DEF Begin

\* A request puts an operation into the chain.
LEMMA RequestType ==
  ASSUME NEW b \in Box, TypeOK,
         \/ RequestCreate(b)
         \/ QueueCreate(b)
         \/ \E k \in {"start", "exec"} : RequestBringUp(b, k)
         \/ RequestOpen(b)
         \/ \E k \in Overtakers : RequestOvertaker(b, k)
         \/ Reap(b)
         \/ RequestRepair(b)
  PROVE  TypeOK'
<1> USE DEF TypeOK, database, runtime, running, bounds
<1>a. {"start", "exec", "open", "create", "repair", "stop", "remove"} \subseteq Kinds
      /\ Overtakers \subseteq Kinds
  BY DEF Kinds, BringUps, Overtakers
<1>1. CASE RequestCreate(b)
  BY <1>1 DEF RequestCreate, Statuses, Births
<1>2. CASE QueueCreate(b)
  BY <1>2, <1>a, EnqueueType DEF QueueCreate, Births
<1>3. ASSUME NEW k \in {"start", "exec"}, RequestBringUp(b, k) PROVE TypeOK'
  BY <1>3, <1>a, EnqueueType DEF RequestBringUp
<1>4. CASE RequestOpen(b)
  BY <1>4, <1>a, EnqueueType DEF RequestOpen
<1>5. ASSUME NEW k \in Overtakers, Overtake(b, k), UNCHANGED <<status, ready>>
      PROVE  TypeOK'
  BY <1>5, <1>a, EnqueueType DEF Overtake
<1>6. CASE Reap(b)
  BY <1>5, <1>6 DEF Reap, Overtake, Overtakers
<1>7. CASE RequestRepair(b)
  BY <1>7, <1>a, EnqueueType DEF RequestRepair
<1>8. ASSUME NEW k \in Overtakers, RequestOvertaker(b, k) PROVE TypeOK'
  BY <1>5, <1>8 DEF RequestOvertaker, Overtake
<1> QED
  BY <1>1, <1>2, <1>3, <1>4, <1>6, <1>7, <1>8

\* The runtime, the teardown of a failed create and the environment.
LEMMA EnvironmentType ==
  ASSUME NEW b \in Box, TypeOK,
         \/ RuntimeActs(b) \/ RuntimeFails(b) \/ Unwind(b)
         \/ AdapterReports(b) \/ Sweep(b) \/ Exits(b) \/ LosesStorage(b)
  PROVE  TypeOK'
<1> USE DEF TypeOK, database, runtime, running, bounds
<1>1. CASE RuntimeActs(b)
  BY <1>1 DEF RuntimeActs, CallTakesEffect, Answer, Answers
<1>2. CASE RuntimeFails(b)
  <2>1. faults' \in 0..MaxFaults
    BY <1>2, BoundsAssumption DEF RuntimeFails
  <2>2. container' \in [Box -> {"absent", "stopped", "running"}]
    BY <1>2 DEF RuntimeFails, LeftOf
  <2>3. ans' \in [Box -> Answers]
    <3>1. FailedAnswers(step[b]) \subseteq Answers /\ "fail" \in Answers
      BY DEF FailedAnswers, Answers
    <3>2. \E a \in Answers : Answer(b, a)
      BY <1>2, <3>1 DEF RuntimeFails
    <3> QED
      BY <3>2 DEF Answer
  <2> QED
    BY <1>2, <2>1, <2>2, <2>3 DEF RuntimeFails
<1>3. CASE UnwindRemove(b) \/ UnwindStorage(b)
  <2>1. faults' \in 0..MaxFaults
    BY <1>3, BoundsAssumption DEF UnwindRemove, UnwindStorage
  <2>2. birth' \in [Box -> Births]
    BY <1>3 DEF UnwindRemove, UnwindStorage, Births
  <2>3. /\ container' \in [Box -> {"absent", "stopped", "running"}]
        /\ storage' \in [Box -> BOOLEAN]
    <3>1. LeftOf("remove", container[b]) \subseteq {"absent", "stopped", "running"}
      BY DEF LeftOf
    <3>2. CASE UnwindRemove(b)
      <4>1. storage' = storage
        BY <3>2 DEF UnwindRemove
      <4>2. \E c \in {"absent", "stopped", "running"} : container' = [container EXCEPT ![b] = c]
        BY <3>1, <3>2 DEF UnwindRemove
      <4> QED
        BY <4>1, <4>2
    <3>3. CASE UnwindStorage(b)
      BY <3>3 DEF UnwindStorage
    <3> QED
      BY <1>3, <3>2, <3>3
  <2> QED
    BY <1>3, <2>1, <2>2, <2>3 DEF UnwindRemove, UnwindStorage
<1>4. CASE UnwindStatus(b)
  BY <1>4, SetStatusType DEF UnwindStatus, Births, Statuses
<1>5. CASE AdapterReports(b)
  BY <1>5, SetStatusType DEF AdapterReports, Statuses
<1>6. CASE Sweep(b) \/ Exits(b) \/ LosesStorage(b)
  BY <1>6 DEF Sweep, Exits, LosesStorage
<1> QED
  BY <1>1, <1>2, <1>3, <1>4, <1>5, <1>6 DEF Unwind

\* A crash and a boot keep the types.
LEMMA CrashBootType ==
  ASSUME TypeOK, Crash \/ Boot
  PROVE  TypeOK'
<1> USE DEF TypeOK, database, runtime, running, bounds
<1>1. CASE Crash
  <2>1. queue' \in [Box -> Seq(Kinds)]
    BY <1>1 DEF Crash
  <2>2. /\ step' \in [Box -> Steps]
        /\ ans' \in [Box -> Answers]
        /\ birth' \in [Box -> Births]
    BY <1>1 DEF Crash, Steps, Answers, Births
  <2>3. crashes' \in 0..MaxCrashes
    BY <1>1, BoundsAssumption DEF Crash
  <2> QED
    BY <1>1, <2>1, <2>2, <2>3 DEF Crash
<1>2. CASE Boot
  <2>1. \A b \in Box : Adopted(b) \in Statuses
    BY DEF Adopted, Statuses
  <2> QED
    BY <1>2, <2>1 DEF Boot
<1> QED
  BY <1>1, <1>2

\* The initial state has the types.
LEMMA InitType == Init => TypeOK
  BY BoundsAssumption DEF Init, TypeOK, Statuses, Steps, Answers, Births

\* Every step keeps the types.
LEMMA NextType == TypeOK /\ [Next]_vars => TypeOK'
<1> SUFFICES ASSUME TypeOK, [Next]_vars PROVE TypeOK'
  OBVIOUS
<1>1. CASE UNCHANGED vars
  BY <1>1 DEF vars, TypeOK
<1>2. CASE Next
  BY <1>2, BringUpContinuesType, CreateContinuesType, OvertakerContinuesType,
     BeginType, RequestType, EnvironmentType, CrashBootType DEF Next, Continue
<1> QED
  BY <1>1, <1>2

\* Every variable keeps its type, whatever crashes, failures and requests do.
THEOREM TypeCorrect == Spec => []TypeOK
  BY InitType, NextType, PTL DEF Spec

(***************************************************************************)
(* The inductive invariant.  Each part is about one box.                   *)
(***************************************************************************)

\* An operation awaits only calls of its own, and nothing awaits in an empty
\* chain or in a process that is down.
LegalStep(b) ==
  /\ queue[b] = <<>> => step[b] = "queued"
  /\ step[b] = "queued" => ans[b] = "none"
  /\ ~alive => queue[b] = <<>> /\ birth[b] \in {"unborn", "done"}
  /\ RunsBringUp(b) =>
       step[b] \in {"queued", "storage", "ensure", "state", "start", "setup"}
  /\ Running(b, "create") => step[b] \in {"queued", "make", "ensure", "start", "setup"}
  /\ Running(b, "stop") => step[b] \in {"queued", "state", "stop"}
  /\ Running(b, "remove") => step[b] \in {"queued", "remove", "clear"}
  /\ Running(b, "repair") => step[b] \in {"queued", "state", "ensure"}

\* A box is created once.
CreatedOnce(b) ==
  /\ status[b] = "none" => birth[b] = "unborn"
  /\ threads[b] => birth[b] = "done"
  /\ \A i \in 1..Len(queue[b]) :
       queue[b][i] = "create" =>
         /\ birth[b] = "slot"
         /\ \A j \in 1..Len(queue[b]) : queue[b][j] = "create" => j = i

Unmade(b) == birth[b] \in {"unborn", "egress", "slot"}

\* Before its create has run, a box has no files, and a bring-up that comes
\* first in the chain ends at the check for them.
NothingBeforeCreate(b) ==
  Unmade(b) =>
    /\ ~ready[b]
    /\ ~Running(b, "create") => ~storage[b]
    /\ RunsBringUp(b) => step[b] \in {"queued", "storage"} /\ ans[b] # "ok"

\* The ready mark and the call that awaits.
ReadyHeld(b) ==
  /\ step[b] = "start" => ~ready[b]
  /\ step[b] = "setup" /\ ans[b] = "ok" /\ container[b] = "running" => setup[b]
  /\ ready[b] /\ container[b] = "running" => setup[b]

\* A tombstone and the call that awaits: a bring-up or a create of a deleted
\* box goes no further than its next look at the row.
TombstoneHeld(b) ==
  status[b] = "deleted" /\ (RunsBringUp(b) \/ Running(b, "create"))
    => step[b] \in {"queued", "make"}

\* The files and the call that awaits.
StorageHeld(b) ==
  /\ threads[b]
  /\ RunsBringUp(b)
  /\ \/ step[b] \in {"ensure", "state", "start"}
     \/ Answered(b, "storage", "ok")
  => storage[b]

StopHeld(b) == Answered(b, "stop", "ok") => container[b] # "running"

BoxInv(b) ==
  /\ LegalStep(b)
  /\ CreatedOnce(b)
  /\ NothingBeforeCreate(b)
  /\ ReadyHeld(b)
  /\ TombstoneHeld(b)
  /\ StorageHeld(b)
  /\ StopHeld(b)

IInv == TypeOK /\ \A b \in Box : BoxInv(b)

\* A box whose state does not change keeps its part of the invariant.
Same(c) ==
  /\ status'[c] = status[c] /\ ready'[c] = ready[c] /\ threads'[c] = threads[c]
  /\ container'[c] = container[c] /\ storage'[c] = storage[c] /\ setup'[c] = setup[c]
  /\ queue'[c] = queue[c] /\ step'[c] = step[c] /\ ans'[c] = ans[c]
  /\ birth'[c] = birth[c]

\* A box that a step does not touch keeps its part of the invariant.
LEMMA SameKeeps ==
  ASSUME NEW c \in Box, BoxInv(c), Same(c), alive' = alive
  PROVE  BoxInv(c)'
  BY DEF BoxInv, Same, LegalStep, CreatedOnce, NothingBeforeCreate, ReadyHeld,
         TombstoneHeld, StorageHeld, StopHeld, Unmade, RunsBringUp, Running, Answered

\* What Leave does to the chain of the box.
LEMMA LeaveChain ==
  ASSUME NEW b \in Box, TypeOK, queue[b] # <<>>, Leave(b)
  PROVE  /\ step'[b] = "queued" /\ ans'[b] = "none"
         /\ Len(queue'[b]) = Len(queue[b]) - 1
         /\ \A i \in 1..Len(queue'[b]) : queue'[b][i] = queue[b][i + 1]
         /\ \A c \in Box \ {b} :
              queue'[c] = queue[c] /\ step'[c] = step[c] /\ ans'[c] = ans[c]
  BY DEF Leave, TypeOK

\* What a new request does to the chain of the box.
LEMMA EnqueueChain ==
  ASSUME NEW b \in Box, TypeOK, NEW k \in Kinds, Enqueue(b, k)
  PROVE  /\ step' = step /\ ans' = ans
         /\ queue'[b] # <<>>
         /\ Len(queue'[b]) = Len(queue[b]) + 1
         /\ queue'[b][Len(queue'[b])] = k
         /\ \A i \in 1..Len(queue[b]) : queue'[b][i] = queue[b][i]
         /\ queue[b] # <<>> => Head(queue'[b]) = Head(queue[b])
         /\ \A c \in Box \ {b} : queue'[c] = queue[c]
<1>1. queue[b] \in Seq(Kinds) /\ queue'[b] = Append(queue[b], k)
  BY DEF Enqueue, TypeOK
<1>2. /\ step' = step /\ ans' = ans
      /\ \A c \in Box \ {b} : queue'[c] = queue[c]
  BY DEF Enqueue, TypeOK
<1>3. /\ Len(queue'[b]) = Len(queue[b]) + 1
      /\ queue'[b][Len(queue'[b])] = k
      /\ \A i \in 1..Len(queue[b]) : queue'[b][i] = queue[b][i]
  BY <1>1
<1>4. queue'[b] # <<>>
  BY <1>1
<1>5. queue[b] # <<>> => Head(queue'[b]) = Head(queue[b])
  BY <1>1
<1> QED
  BY <1>2, <1>3, <1>4, <1>5

\* After an operation has settled nothing awaits, and most of the invariant
\* holds for that reason.
LEMMA LeaveKeeps ==
  ASSUME NEW b \in Box, TypeOK, queue[b] # <<>>, Leave(b), alive'
  PROVE  /\ LegalStep(b)' /\ TombstoneHeld(b)' /\ StorageHeld(b)' /\ StopHeld(b)'
         /\ (ready'[b] /\ container'[b] = "running" => setup'[b]) => ReadyHeld(b)'
         /\ (Unmade(b)' => ~ready'[b] /\ ~storage'[b]) => NothingBeforeCreate(b)'
  BY LeaveChain DEF LegalStep, TombstoneHeld, StorageHeld, StopHeld, ReadyHeld,
     NothingBeforeCreate, RunsBringUp, Running, Answered, BringUps

\* The create leaves the chain only once.
LEMMA LeaveCreatedOnce ==
  ASSUME NEW b \in Box, TypeOK, queue[b] # <<>>, Leave(b), CreatedOnce(b),
         status'[b] = "none" => birth'[b] = "unborn",
         threads'[b] => birth'[b] = "done",
         Running(b, "create") \/ birth'[b] = birth[b]
  PROVE  CreatedOnce(b)'
<1> SUFFICES ASSUME NEW i \in 1..Len(queue'[b]), queue'[b][i] = "create"
             PROVE  /\ birth'[b] = "slot"
                    /\ \A j \in 1..Len(queue'[b]) : queue'[b][j] = "create" => j = i
  BY DEF CreatedOnce
<1>1. queue[b] \in Seq(Kinds)
  BY DEF TypeOK
<1>2. /\ Len(queue'[b]) = Len(queue[b]) - 1
      /\ \A j \in 1..Len(queue'[b]) : queue'[b][j] = queue[b][j + 1]
  BY LeaveChain
<1>3. i + 1 \in 1..Len(queue[b]) /\ queue[b][i + 1] = "create"
  BY <1>1, <1>2
<1>4. birth[b] = "slot" /\ \A j \in 1..Len(queue[b]) : queue[b][j] = "create" => j = i + 1
  BY <1>3 DEF CreatedOnce
<1>5. ~Running(b, "create")
  <2>1. 1 \in 1..Len(queue[b]) /\ Head(queue[b]) = queue[b][1]
    BY <1>1
  <2> QED
    BY <1>4, <2>1 DEF Running
<1>6. birth'[b] = "slot"
  BY <1>4, <1>5
<1>7. ASSUME NEW j \in 1..Len(queue'[b]), queue'[b][j] = "create" PROVE j = i
  <2>1. j + 1 \in 1..Len(queue[b]) /\ queue[b][j + 1] = "create"
    BY <1>1, <1>2, <1>7
  <2> QED
    BY <1>1, <1>2, <1>4, <2>1
<1> QED
  BY <1>6, <1>7

\* It is enough to look at the box that an action is about.
LEMMA OneBox ==
  ASSUME NEW b \in Box, IInv, TypeOK', alive' = alive,
         \A c \in Box \ {b} : Same(c), BoxInv(b)'
  PROVE  IInv'
<1>1. \A c \in Box \ {b} : BoxInv(c)'
  BY SameKeeps DEF IInv
<1> QED
  BY <1>1 DEF IInv

(***************************************************************************)
(* Each action preserves the invariant.                                    *)
(***************************************************************************)

\* A request for anything but a create only makes the chain longer.
LEMMA EnqueueKeeps ==
  ASSUME NEW b \in Box, NEW k \in Kinds \ {"create"}, IInv, TypeOK', alive,
         Enqueue(b, k), UNCHANGED <<database, runtime, alive, birth>>
  PROVE  IInv'
<1> USE DEF database, runtime
<1>1. TypeOK /\ BoxInv(b)
  BY DEF IInv
<1>2. \A c \in Box \ {b} : Same(c)
  BY <1>1, EnqueueChain DEF Same
<1>3. /\ step' = step /\ ans' = ans
      /\ queue'[b] # <<>>
      /\ Len(queue'[b]) = Len(queue[b]) + 1
      /\ queue'[b][Len(queue'[b])] = k
      /\ \A i \in 1..Len(queue[b]) : queue'[b][i] = queue[b][i]
      /\ queue[b] # <<>> => Head(queue'[b]) = Head(queue[b])
  BY <1>1, EnqueueChain
<1>4. Len(queue[b]) \in Nat
  BY <1>1 DEF TypeOK
<1>5. CreatedOnce(b)'
  <2>1. \A i \in 1..Len(queue'[b]) :
          queue'[b][i] = "create" => i \in 1..Len(queue[b]) /\ queue[b][i] = "create"
    BY <1>3, <1>4
  <2> QED
    BY <1>1, <2>1 DEF BoxInv, CreatedOnce
<1>6. CASE queue[b] = <<>>
  <2>1. step'[b] = "queued" /\ ans'[b] = "none" /\ ~Running(b, "create")
    BY <1>1, <1>3, <1>6 DEF BoxInv, LegalStep, Running
  <2>2. BoxInv(b)'
    BY <1>1, <1>5, <2>1 DEF BoxInv, LegalStep, NothingBeforeCreate, ReadyHeld,
       TombstoneHeld, StorageHeld, StopHeld, Unmade, RunsBringUp, Running, Answered
  <2> QED
    BY <1>1, <1>2, <2>2, OneBox
<1>7. CASE queue[b] # <<>>
  <2>1. BoxInv(b)'
    BY <1>1, <1>3, <1>5, <1>7 DEF BoxInv, LegalStep, NothingBeforeCreate, ReadyHeld,
       TombstoneHeld, StorageHeld, StopHeld, Unmade, RunsBringUp, Running, Answered
  <2> QED
    BY <1>1, <1>2, <2>1, OneBox
<1> QED
  BY <1>6, <1>7

\* The insert of the row keeps the invariant.
LEMMA RequestCreateKeeps ==
  ASSUME NEW b \in Box, IInv, TypeOK', RequestCreate(b)
  PROVE  IInv'
<1> USE DEF database, runtime, running, RequestCreate
<1>1. TypeOK /\ BoxInv(b)
  BY DEF IInv
<1>2. \A c \in Box \ {b} : Same(c)
  BY <1>1 DEF Same, TypeOK
<1>3. birth[b] = "unborn" /\ birth'[b] = "egress" /\ status'[b] = "creating"
  BY <1>1 DEF BoxInv, CreatedOnce, TypeOK
<1>4. BoxInv(b)'
  BY <1>1, <1>3 DEF BoxInv, LegalStep, CreatedOnce, NothingBeforeCreate, ReadyHeld,
     TombstoneHeld, StorageHeld, StopHeld, Unmade, RunsBringUp, Running, Answered
<1> QED
  BY <1>1, <1>2, <1>4, OneBox

\* The create that asks for the slot keeps the invariant.
LEMMA QueueCreateKeeps ==
  ASSUME NEW b \in Box, IInv, TypeOK', QueueCreate(b)
  PROVE  IInv'
<1> USE DEF database, runtime, QueueCreate
<1>1. TypeOK /\ BoxInv(b) /\ "create" \in Kinds
  BY DEF IInv, Kinds
<1>2. \A c \in Box \ {b} : Same(c)
  BY <1>1, EnqueueChain DEF Same, TypeOK
<1>3. /\ step' = step /\ ans' = ans
      /\ queue'[b] # <<>>
      /\ Len(queue'[b]) = Len(queue[b]) + 1
      /\ queue'[b][Len(queue'[b])] = "create"
      /\ \A i \in 1..Len(queue[b]) : queue'[b][i] = queue[b][i]
      /\ queue[b] # <<>> => Head(queue'[b]) = Head(queue[b])
  BY <1>1, EnqueueChain
<1>4. Len(queue[b]) \in Nat /\ birth[b] = "egress" /\ birth'[b] = "slot" /\ alive'
  BY <1>1 DEF TypeOK, BoxInv, LegalStep
<1>5. CreatedOnce(b)'
  <2>1. \A i \in 1..Len(queue[b]) : queue[b][i] # "create"
    BY <1>1, <1>4 DEF BoxInv, CreatedOnce
  <2>2. \A i \in 1..Len(queue'[b]) : queue'[b][i] = "create" => i = Len(queue'[b])
    BY <1>3, <1>4, <2>1
  <2>3. status'[b] # "none" /\ ~threads'[b]
    BY <1>1, <1>4 DEF BoxInv, CreatedOnce
  <2> QED
    BY <1>4, <2>2, <2>3 DEF CreatedOnce
<1>6. CASE queue[b] = <<>>
  <2>1. step'[b] = "queued" /\ ans'[b] = "none" /\ ~Running(b, "create")
    BY <1>1, <1>3, <1>6 DEF BoxInv, LegalStep, Running
  <2>2. BoxInv(b)'
    BY <1>1, <1>4, <1>5, <2>1 DEF BoxInv, LegalStep, NothingBeforeCreate, ReadyHeld,
       TombstoneHeld, StorageHeld, StopHeld, Unmade, RunsBringUp, Running, Answered
  <2> QED
    BY <1>1, <1>2, <2>2, OneBox
<1>7. CASE queue[b] # <<>>
  <2>1. BoxInv(b)'
    BY <1>1, <1>3, <1>4, <1>5, <1>7 DEF BoxInv, LegalStep, NothingBeforeCreate, ReadyHeld,
       TombstoneHeld, StorageHeld, StopHeld, Unmade, RunsBringUp, Running, Answered
  <2> QED
    BY <1>1, <1>2, <2>1, OneBox
<1> QED
  BY <1>6, <1>7

\* Every other request keeps the invariant.
LEMMA RequestKeeps ==
  ASSUME NEW b \in Box, IInv, TypeOK',
         \/ \E k \in {"start", "exec"} : RequestBringUp(b, k)
         \/ RequestOpen(b)
         \/ \E k \in Overtakers : RequestOvertaker(b, k)
         \/ Reap(b)
         \/ RequestRepair(b)
  PROVE  IInv'
<1>1. PICK k \in Kinds \ {"create"} :
        alive /\ Enqueue(b, k) /\ UNCHANGED <<database, runtime, alive, birth>>
  BY DEF RequestBringUp, RequestOpen, RequestOvertaker, Reap, RequestRepair, Overtake,
         Kinds, BringUps, Overtakers
<1> QED
  BY <1>1, EnqueueKeeps

\* What Await does to the chain of the box.
LEMMA AwaitChain ==
  ASSUME NEW b \in Box, TypeOK, NEW s, Await(b, s)
  PROVE  /\ queue' = queue /\ step'[b] = s /\ ans'[b] = "none"
         /\ \A c \in Box \ {b} : step'[c] = step[c] /\ ans'[c] = ans[c]
  BY DEF Await, TypeOK

\* What SetStatus does to the row of the box.
LEMMA SetStatusRow ==
  ASSUME NEW b \in Box, TypeOK, NEW s, SetStatus(b, s)
  PROVE  /\ status'[b] = IF status[b] = "deleted" THEN "deleted" ELSE s
         /\ \A c \in Box \ {b} : status'[c] = status[c]
  BY DEF SetStatus, TypeOK

\* An operation that settles and leaves the ready mark, the thread rows and
\* the create of its box as they are.
LEMMA SettleKeeps ==
  ASSUME NEW b \in Box, IInv, TypeOK', alive, queue[b] # <<>>, Leave(b),
         UNCHANGED <<ready, threads, runtime, alive, birth>>, ~Running(b, "create"),
         status' = status \/ \E s \in Statuses \ {"none"} : SetStatus(b, s)
  PROVE  IInv'
<1> USE DEF runtime
<1>1. TypeOK /\ BoxInv(b)
  BY DEF IInv
<1>2. \A c \in Box \ {b} : Same(c)
  BY <1>1, LeaveChain, SetStatusRow DEF Same
<1>3. status'[b] = "none" => status[b] = "none"
  BY <1>1, SetStatusRow
<1>4. CreatedOnce(b)'
  BY <1>1, <1>3, LeaveCreatedOnce DEF BoxInv, CreatedOnce
<1>5. ReadyHeld(b)' /\ NothingBeforeCreate(b)'
  BY <1>1, LeaveKeeps DEF BoxInv, ReadyHeld, NothingBeforeCreate, Unmade
<1>6. LegalStep(b)' /\ TombstoneHeld(b)' /\ StorageHeld(b)' /\ StopHeld(b)'
  BY <1>1, LeaveKeeps
<1>7. BoxInv(b)'
  BY <1>4, <1>5, <1>6 DEF BoxInv
<1> QED
  BY <1>1, <1>2, <1>7, OneBox

\* The first step of an operation keeps the invariant.
LEMMA BeginKeeps ==
  ASSUME NEW b \in Box, IInv, TypeOK', Begin(b)
  PROVE  IInv'
<1> USE DEF database, runtime
<1>1. TypeOK /\ BoxInv(b) /\ alive /\ queue[b] # <<>> /\ step[b] = "queued"
  BY DEF IInv, Begin
<1>2. ASSUME Leave(b), ~Running(b, "create"), UNCHANGED database
      PROVE  IInv'
  BY <1>1, <1>2, SettleKeeps DEF Begin
<1>3. ASSUME NEW s, Await(b, s), UNCHANGED <<ready, threads>>,
             status' = status \/ SetStatus(b, "deleted"),
             LegalStep(b)', NothingBeforeCreate(b)', TombstoneHeld(b)',
             s \notin {"ensure", "state", "start"} \/ ~RunsBringUp(b), s # "start"
      PROVE  IInv'
  <2>1. \A c \in Box \ {b} : Same(c)
    BY <1>1, <1>3, AwaitChain, SetStatusRow DEF Same, Begin
  <2>2. queue' = queue /\ step'[b] = s /\ ans'[b] = "none" /\ alive' = alive
    BY <1>1, <1>3, AwaitChain DEF Begin
  <2>3. status'[b] = "none" => status[b] = "none"
    BY <1>1, <1>3, SetStatusRow
  <2>4. CreatedOnce(b)'
    BY <1>1, <1>3, <2>2, <2>3 DEF BoxInv, CreatedOnce, Begin
  <2>5. ReadyHeld(b)' /\ StorageHeld(b)' /\ StopHeld(b)'
    BY <1>1, <1>3, <2>2 DEF BoxInv, ReadyHeld, StorageHeld, StopHeld, RunsBringUp,
       Running, Answered, Begin
  <2>6. BoxInv(b)'
    BY <1>3, <2>4, <2>5 DEF BoxInv
  <2> QED
    BY <1>1, <2>1, <2>2, <2>6, OneBox
<1> USE DEF LegalStep, NothingBeforeCreate, TombstoneHeld, Unmade, RunsBringUp, Running,
            BringUps
<1>4. CASE BringUpBegins(b)
  <2>1. CASE Leave(b)
    BY <1>2, <1>4, <2>1 DEF BringUpBegins
  <2>2. CASE Await(b, "storage") /\ status[b] # "deleted"
    <3>1. queue' = queue /\ step'[b] = "storage" /\ ans'[b] = "none" /\ UNCHANGED database
      BY <1>1, <1>4, <2>2, AwaitChain DEF BringUpBegins
    <3>2. LegalStep(b)' /\ NothingBeforeCreate(b)' /\ TombstoneHeld(b)'
      BY <1>1, <1>4, <2>2, <3>1 DEF BoxInv, Begin, BringUpBegins
    <3> QED
      BY <1>3, <2>2, <3>1, <3>2
  <2> QED
    BY <1>4, <2>1, <2>2 DEF BringUpBegins, Gone, Visible
<1>5. CASE CreateBegins(b)
  <2>1. queue' = queue /\ step'[b] = "make" /\ ans'[b] = "none" /\ UNCHANGED database
    BY <1>1, <1>5, AwaitChain DEF CreateBegins
  <2>2. LegalStep(b)' /\ NothingBeforeCreate(b)' /\ TombstoneHeld(b)'
    BY <1>1, <1>5, <2>1 DEF BoxInv, Begin, CreateBegins
  <2> QED
    BY <1>3, <1>5, <2>1, <2>2 DEF CreateBegins
<1>6. CASE StopBegins(b)
  <2>1. CASE Leave(b)
    BY <1>2, <1>6, <2>1 DEF StopBegins
  <2>2. CASE Await(b, "state")
    <3>1. queue' = queue /\ step'[b] = "state" /\ ans'[b] = "none" /\ UNCHANGED database
      BY <1>1, <1>6, <2>2, AwaitChain DEF StopBegins
    <3>2. LegalStep(b)' /\ NothingBeforeCreate(b)' /\ TombstoneHeld(b)'
      BY <1>1, <1>6, <3>1 DEF BoxInv, Begin, StopBegins
    <3> QED
      BY <1>3, <1>6, <2>2, <3>1, <3>2 DEF StopBegins
  <2> QED
    BY <1>6, <2>1, <2>2 DEF StopBegins
<1>7. CASE RemoveBegins(b)
  <2>1. CASE Leave(b) /\ UNCHANGED status
    BY <1>2, <1>7, <2>1 DEF RemoveBegins
  <2>2. CASE Await(b, "remove") /\ SetStatus(b, "deleted")
    <3>1. queue' = queue /\ step'[b] = "remove" /\ ans'[b] = "none"
          /\ UNCHANGED <<ready, threads>>
      BY <1>1, <1>7, <2>2, AwaitChain DEF RemoveBegins
    <3>2. LegalStep(b)' /\ NothingBeforeCreate(b)' /\ TombstoneHeld(b)'
      BY <1>1, <1>7, <3>1 DEF BoxInv, Begin, RemoveBegins
    <3> QED
      BY <1>3, <1>7, <2>2, <3>1, <3>2 DEF RemoveBegins
  <2> QED
    BY <1>7, <2>1, <2>2 DEF RemoveBegins
<1>8. CASE RepairBegins(b)
  <2>1. queue' = queue /\ step'[b] = "state" /\ ans'[b] = "none" /\ UNCHANGED database
    BY <1>1, <1>8, AwaitChain DEF RepairBegins
  <2>2. LegalStep(b)' /\ NothingBeforeCreate(b)' /\ TombstoneHeld(b)'
    BY <1>1, <1>8, <2>1 DEF BoxInv, Begin, RepairBegins
  <2> QED
    BY <1>3, <1>8, <2>1, <2>2 DEF RepairBegins
<1> QED
  BY <1>4, <1>5, <1>6, <1>7, <1>8 DEF Begin

\* A call of the runtime takes effect: the container starts only in a call of
\* runtime().start, when the ready mark is gone.
LEMMA RuntimeActsKeeps ==
  ASSUME NEW b \in Box, IInv, TypeOK', RuntimeActs(b)
  PROVE  IInv'
<1> USE DEF database, runtime, Answer
<1>1. TypeOK /\ BoxInv(b) /\ alive /\ ans[b] = "none"
  BY DEF IInv, RuntimeActs
<1>2. \A c \in Box \ {b} : Same(c)
  BY <1>1 DEF Same, TypeOK, RuntimeActs, CallTakesEffect
<1>3. /\ queue' = queue /\ step' = step /\ birth' = birth /\ alive' = alive
      /\ UNCHANGED <<status, ready, threads>>
  BY DEF RuntimeActs
<1>4. LegalStep(b)' /\ CreatedOnce(b)' /\ TombstoneHeld(b)'
  <2>1. step[b] # "queued"
    BY DEF RuntimeActs, CallTakesEffect
  <2> QED
    BY <1>1, <1>3, <2>1 DEF BoxInv, LegalStep, CreatedOnce, TombstoneHeld,
       RunsBringUp, Running
<1>a. queue[b] # <<>> /\ (RunsBringUp(b) \/ \E k \in Kinds \ BringUps : Running(b, k))
  <2>1. queue[b] # <<>>
    BY <1>1 DEF RuntimeActs, CallTakesEffect, BoxInv, LegalStep
  <2>2. Head(queue[b]) \in Kinds
    BY <1>1, <2>1 DEF TypeOK
  <2> QED
    BY <2>1, <2>2 DEF RunsBringUp, Running
<1>b. (step[b] = "make" => Running(b, "create")) /\ (step[b] = "clear" => Running(b, "remove"))
      /\ (step[b] = "stop" => Running(b, "stop"))
  BY <1>1, <1>a DEF BoxInv, LegalStep, Kinds, BringUps, Overtakers
<1>5. NothingBeforeCreate(b)'
  <2>1. storage'[b] => storage[b] \/ step[b] = "make"
    BY <1>1 DEF RuntimeActs, CallTakesEffect, TypeOK
  <2>2. step[b] = "storage" /\ ans'[b] = "ok" => storage[b]
    BY <1>1 DEF RuntimeActs, CallTakesEffect, TypeOK
  <2>3. RunsBringUp(b) => ~Running(b, "create")
    BY DEF RunsBringUp, Running, BringUps
  <2>4. step[b] # "queued"
    BY DEF RuntimeActs, CallTakesEffect
  <2> QED
    BY <1>1, <1>3, <1>b, <2>1, <2>2, <2>3, <2>4 DEF BoxInv, NothingBeforeCreate, Unmade,
       RunsBringUp, Running
<1>6. ReadyHeld(b)'
  BY <1>1, <1>3 DEF RuntimeActs, CallTakesEffect, BoxInv, ReadyHeld, TypeOK
<1>7. StorageHeld(b)'
  BY <1>1, <1>3, <1>b DEF RuntimeActs, CallTakesEffect, BoxInv, StorageHeld, RunsBringUp,
     Running, Answered, TypeOK, BringUps
<1>8. StopHeld(b)'
  BY <1>1, <1>3 DEF RuntimeActs, CallTakesEffect, BoxInv, StopHeld, Answered, TypeOK
<1>9. BoxInv(b)'
  BY <1>4, <1>5, <1>6, <1>7, <1>8 DEF BoxInv
<1> QED
  BY <1>1, <1>2, <1>3, <1>9, OneBox

\* A runtime call that fails without an effect keeps the invariant.
LEMMA RuntimeFailsKeeps ==
  ASSUME NEW b \in Box, IInv, TypeOK', RuntimeFails(b)
  PROVE  IInv'
<1> USE DEF database, runtime, Answer
<1>1. TypeOK /\ BoxInv(b)
  BY DEF IInv
<1>2. /\ \A c \in Box \ {b} : Same(c)
      /\ ans'[b] \in {"fail", "unknown"} \/ step[b] = "ensure"
      /\ step[b] # "queued"
      /\ alive' = alive
      /\ container'[b] = "running" => container[b] = "running"
  BY <1>1 DEF Same, TypeOK, RuntimeFails, FailedAnswers, LeftOf
<1>3. BoxInv(b)'
  BY <1>1, <1>2 DEF RuntimeFails, BoxInv, LegalStep, CreatedOnce, NothingBeforeCreate, ReadyHeld,
     TombstoneHeld, StorageHeld, StopHeld, Unmade, RunsBringUp, Running, Answered
<1> QED
  BY <1>1, <1>2, <1>3, OneBox

\* A bring-up goes on to its next call.
LEMMA BringUpAwaitKeeps ==
  ASSUME NEW b \in Box, IInv, TypeOK', alive, RunsBringUp(b),
         NEW s \in {"ensure", "state", "start", "setup"}, Await(b, s),
         UNCHANGED <<status, threads, runtime, alive, birth>>,
         ready' = ready \/ ready' = [ready EXCEPT ![b] = FALSE],
         s = "start" => ~ready'[b],
         ~Unmade(b), status[b] # "deleted",
         threads[b] /\ s # "setup" => storage[b]
  PROVE  IInv'
<1> USE DEF runtime
<1>1. TypeOK /\ BoxInv(b) /\ "create" \notin BringUps
  BY DEF IInv, BringUps
<1>2. /\ queue' = queue /\ step'[b] = s /\ ans'[b] = "none"
      /\ \A c \in Box \ {b} : step'[c] = step[c] /\ ans'[c] = ans[c]
  BY <1>1, AwaitChain
<1>3. \A c \in Box \ {b} : Same(c)
  BY <1>1, <1>2 DEF Same, TypeOK
<1>4. LegalStep(b)'
  BY <1>1, <1>2 DEF BoxInv, LegalStep, RunsBringUp, Running, BringUps
<1>5. CreatedOnce(b)' /\ NothingBeforeCreate(b)'
  BY <1>1, <1>2 DEF BoxInv, CreatedOnce, NothingBeforeCreate, Unmade
<1>6. ReadyHeld(b)'
  <2>1. ready'[b] => ready[b]
    BY <1>1 DEF TypeOK
  <2> QED
    BY <1>1, <1>2, <2>1 DEF BoxInv, ReadyHeld
<1>7. TombstoneHeld(b)' /\ StorageHeld(b)' /\ StopHeld(b)'
  BY <1>1, <1>2 DEF BoxInv, TombstoneHeld, StorageHeld, StopHeld, Answered
<1>8. BoxInv(b)'
  BY <1>4, <1>5, <1>6, <1>7 DEF BoxInv
<1> QED
  BY <1>1, <1>3, <1>8, OneBox

\* A bring-up that has passed the check for the files.
Passed(b) == step[b] \in {"ensure", "state", "start", "setup"} \/ Answered(b, "storage", "ok")

\* What an operation knows once it is behind a check.
LEMMA PassedFacts ==
  ASSUME NEW b \in Box, IInv, RunsBringUp(b), Passed(b)
  PROVE  /\ ~Unmade(b) /\ status[b] # "deleted"
         /\ threads[b] /\ step[b] # "setup" => storage[b]
         /\ ~Running(b, "create") /\ queue[b] # <<>>
  BY DEF IInv, BoxInv, NothingBeforeCreate, TombstoneHeld, StorageHeld, Passed, Answered,
         RunsBringUp, Running, BringUps

\* The end of a bring-up.
LEMMA BringUpEndsKeeps ==
  ASSUME NEW b \in Box, IInv, TypeOK', alive, RunsBringUp(b),
         UNCHANGED <<ready, threads, runtime, alive, birth>>,
         \/ Throws(b) /\ (UNCHANGED status \/ SetStatus(b, "error"))
         \/ Succeeds(b)
  PROVE  IInv'
<1>1. Leave(b) /\ queue[b] # <<>> /\ ~Running(b, "create")
  BY DEF Throws, Succeeds, RunsBringUp, Running, BringUps
<1>2. status' = status \/ \E s \in Statuses \ {"none"} : SetStatus(b, s)
  BY DEF Throws, Succeeds, Statuses
<1> QED
  BY <1>1, <1>2, SettleKeeps

\* A bring-up whose container runs keeps the invariant.
LEMMA GoReadyKeeps ==
  ASSUME NEW b \in Box, IInv, TypeOK', alive, RunsBringUp(b), Passed(b), GoReady(b),
         UNCHANGED <<threads, runtime, alive, birth>>
  PROVE  IInv'
<1>1. CASE Throws(b) /\ UNCHANGED <<status, ready>>
  BY <1>1, BringUpEndsKeeps
<1>2. CASE Succeeds(b) /\ UNCHANGED ready
  BY <1>2, BringUpEndsKeeps
<1>3. CASE Await(b, "setup") /\ UNCHANGED <<status, ready, adapter>>
  BY <1>3, PassedFacts, BringUpAwaitKeeps
<1> QED
  BY <1>1, <1>2, <1>3 DEF GoReady

\* The code after an await of a bring-up keeps the invariant.
LEMMA BringUpContinuesKeeps ==
  ASSUME NEW b \in Box, IInv, TypeOK', BringUpContinues(b)
  PROVE  IInv'
<1> USE DEF runtime
<1>1. /\ TypeOK /\ BoxInv(b) /\ alive /\ RunsBringUp(b)
      /\ UNCHANGED <<threads, runtime, alive, birth>>
  BY DEF IInv, BringUpContinues
<1>2. CASE AfterStorage(b)
  <2>1. CASE Throws(b) /\ (UNCHANGED status \/ SetStatus(b, "error")) /\ UNCHANGED ready
    BY <1>1, <2>1, BringUpEndsKeeps
  <2>2. CASE ans[b] = "ok" /\ Await(b, "ensure") /\ UNCHANGED <<status, ready>>
    <3>1. Passed(b)
      BY <1>2, <2>2 DEF AfterStorage, Passed, Answered
    <3> QED
      BY <1>1, <1>2, <2>2, <3>1, PassedFacts, BringUpAwaitKeeps DEF AfterStorage
  <2> QED
    BY <1>2, <2>1, <2>2 DEF AfterStorage
<1>3. CASE AfterEnsure(b)
  <2>1. CASE Throws(b)
    BY <1>1, <1>3, <2>1, BringUpEndsKeeps DEF AfterEnsure
  <2>2. CASE Await(b, "state")
    <3>1. Passed(b) /\ step[b] = "ensure" /\ UNCHANGED <<status, ready>>
      BY <1>3 DEF AfterEnsure, Passed
    <3> QED
      BY <1>1, <2>2, <3>1, PassedFacts, BringUpAwaitKeeps
  <2> QED
    BY <1>3, <2>1, <2>2 DEF AfterEnsure
<1>4. CASE AfterState(b)
  <2>a. Passed(b) /\ step[b] = "state"
    BY <1>4 DEF AfterState, Passed
  <2>1. CASE GoReady(b)
    BY <1>1, <2>a, <2>1, GoReadyKeeps
  <2>2. CASE ClearReady(b) /\ Await(b, "start") /\ UNCHANGED status
    <3>1. ready' = [ready EXCEPT ![b] = FALSE] /\ ~ready'[b]
      BY <1>1, <2>2 DEF ClearReady, TypeOK
    <3> QED
      BY <1>1, <2>a, <2>2, <3>1, PassedFacts, BringUpAwaitKeeps
  <2> QED
    BY <1>4, <2>1, <2>2 DEF AfterState
<1>5. CASE AfterStart(b)
  <2>1. CASE GoReady(b)
    BY <1>1, <1>5, <2>1, GoReadyKeeps DEF AfterStart, Passed
  <2>2. CASE Throws(b) /\ UNCHANGED <<status, ready>>
    BY <1>1, <2>2, BringUpEndsKeeps
  <2> QED
    BY <1>5, <2>1, <2>2 DEF AfterStart
<1>6. CASE AfterSetup(b)
  <2>1. CASE Throws(b) /\ SetStatus(b, "error") /\ UNCHANGED ready
    BY <1>1, <2>1, BringUpEndsKeeps
  <2>2. CASE ans[b] = "ok" /\ ready' = [ready EXCEPT ![b] = TRUE] /\ Succeeds(b)
    <3>a. Passed(b)
      BY <1>6 DEF AfterSetup, Passed
    <3>b. ~Unmade(b) /\ ~Running(b, "create") /\ queue[b] # <<>> /\ Leave(b)
      BY <1>1, <2>2, <3>a, PassedFacts DEF Succeeds
    <3>c. status' = status \/ SetStatus(b, "running")
      BY <2>2 DEF Succeeds
    <3>e. \A c \in Box \ {b} :
            queue'[c] = queue[c] /\ step'[c] = step[c] /\ ans'[c] = ans[c]
      BY <1>1, <3>b, LeaveChain
    <3>f. \A c \in Box \ {b} : status'[c] = status[c]
      BY <1>1, <3>c, SetStatusRow
    <3>1. \A c \in Box \ {b} : Same(c)
      BY <1>1, <2>2, <3>e, <3>f DEF Same, TypeOK
    <3>d. (container[b] = "running" => setup[b]) /\ ~Unmade(b)'
      BY <1>1, <1>6, <2>2, <3>b DEF BoxInv, ReadyHeld, AfterSetup, Unmade
    <3>2. ReadyHeld(b)' /\ NothingBeforeCreate(b)'
      BY <1>1, <3>b, <3>d, LeaveKeeps
    <3>3. status'[b] = "none" => status[b] = "none"
      BY <1>1, <3>c, SetStatusRow
    <3>4. CreatedOnce(b)'
      BY <1>1, <3>b, <3>3, LeaveCreatedOnce DEF BoxInv, CreatedOnce
    <3>5. BoxInv(b)'
      BY <1>1, <3>b, <3>2, <3>4, LeaveKeeps DEF BoxInv
    <3> QED
      BY <1>1, <3>1, <3>5, OneBox
  <2> QED
    BY <1>6, <2>1, <2>2 DEF AfterSetup
<1> QED
  BY <1>2, <1>3, <1>4, <1>5, <1>6 DEF BringUpContinues

\* The code after an await of a create keeps the invariant.
LEMMA CreateContinuesKeeps ==
  ASSUME NEW b \in Box, IInv, TypeOK', CreateContinues(b)
  PROVE  IInv'
<1> USE DEF database, runtime
<1>1. /\ TypeOK /\ BoxInv(b) /\ alive /\ alive' /\ queue[b] # <<>> /\ Running(b, "create")
      /\ UNCHANGED runtime
  BY DEF IInv, CreateContinues, Running
<1>2. birth[b] = "slot" /\ ~ready[b] /\ ~threads[b]
  <2>1. 1 \in 1..Len(queue[b]) /\ queue[b][1] = "create"
    BY <1>1 DEF Running, TypeOK
  <2> QED
    BY <1>1, <2>1 DEF BoxInv, CreatedOnce, NothingBeforeCreate, Unmade
<1>3. ASSUME NEW s \in {"ensure", "start", "setup"}, Await(b, s),
             UNCHANGED <<database, birth>>, status[b] # "deleted"
      PROVE  IInv'
  <2>1. /\ queue' = queue /\ step'[b] = s /\ ans'[b] = "none"
        /\ \A c \in Box \ {b} : step'[c] = step[c] /\ ans'[c] = ans[c]
    BY <1>1, <1>3, AwaitChain
  <2>2. \A c \in Box \ {b} : Same(c)
    BY <1>1, <1>3, <2>1 DEF Same
  <2>3. ~RunsBringUp(b)' /\ ~RunsBringUp(b) /\ Running(b, "create")'
    BY <1>1, <2>1 DEF RunsBringUp, Running, BringUps
  <2>4. LegalStep(b)'
    BY <1>1, <2>1, <2>3 DEF LegalStep, Running
  <2>5. CreatedOnce(b)' /\ NothingBeforeCreate(b)'
    BY <1>1, <1>2, <1>3, <2>1, <2>3 DEF BoxInv, CreatedOnce, NothingBeforeCreate, Unmade
  <2>6. ReadyHeld(b)' /\ TombstoneHeld(b)' /\ StorageHeld(b)' /\ StopHeld(b)'
    BY <1>1, <1>2, <1>3, <2>1, <2>3 DEF BoxInv, ReadyHeld, TombstoneHeld, StorageHeld,
       StopHeld, Answered
  <2>7. BoxInv(b)'
    BY <2>4, <2>5, <2>6 DEF BoxInv
  <2> QED
    BY <1>1, <2>2, <2>7, OneBox
<1>4. ASSUME Leave(b), birth' = [birth EXCEPT ![b] = "unwind"], UNCHANGED <<ready, threads>>,
             status' = status \/ SetStatus(b, "error")
      PROVE  IInv'
  <2>a. \A c \in Box \ {b} :
          queue'[c] = queue[c] /\ step'[c] = step[c] /\ ans'[c] = ans[c]
    BY <1>1, <1>4, LeaveChain
  <2>b. \A c \in Box \ {b} : status'[c] = status[c]
    BY <1>1, <1>4, SetStatusRow
  <2>1. \A c \in Box \ {b} : Same(c)
    BY <1>1, <1>4, <2>a, <2>b DEF Same, TypeOK
  <2>2. birth'[b] = "unwind" /\ ~ready'[b] /\ ~threads'[b]
    BY <1>1, <1>2, <1>4 DEF TypeOK
  <2>3. status'[b] # "none"
    <3>1. status[b] # "none"
      BY <1>1, <1>2 DEF BoxInv, CreatedOnce
    <3> QED
      BY <1>1, <1>4, <3>1, SetStatusRow
  <2>4. CreatedOnce(b)
    BY <1>1 DEF BoxInv
  <2>5. CreatedOnce(b)'
    BY <1>1, <1>4, <2>2, <2>3, <2>4, LeaveCreatedOnce
  <2>6. ReadyHeld(b)' /\ NothingBeforeCreate(b)'
    BY <1>1, <1>4, <2>2, LeaveKeeps DEF Unmade
  <2>7. BoxInv(b)'
    BY <1>1, <1>4, <2>5, <2>6, LeaveKeeps DEF BoxInv
  <2> QED
    BY <1>1, <2>1, <2>7, OneBox DEF CreateContinues
<1>5. CASE CreateFails(b) /\ (status' = status \/ SetStatus(b, "error"))
  BY <1>4, <1>5 DEF CreateFails
<1>6. CASE /\ Answered(b, "setup", "ok")
           /\ ready' = [ready EXCEPT ![b] = TRUE]
           /\ threads' = [threads EXCEPT ![b] = TRUE]
           /\ birth' = [birth EXCEPT ![b] = "done"]
           /\ SetStatus(b, "running")
           /\ Leave(b)
  <2>b. \A c \in Box \ {b} :
          queue'[c] = queue[c] /\ step'[c] = step[c] /\ ans'[c] = ans[c]
    BY <1>1, <1>6, LeaveChain
  <2>c. status'[b] # "none" /\ \A c \in Box \ {b} : status'[c] = status[c]
    BY <1>1, <1>6, SetStatusRow
  <2>1. \A c \in Box \ {b} : Same(c)
    BY <1>1, <1>6, <2>b, <2>c DEF Same, TypeOK
  <2>2. birth'[b] = "done" /\ status'[b] # "none"
    BY <1>1, <1>6, <2>c DEF TypeOK
  <2>a. CreatedOnce(b) /\ (container[b] = "running" => setup[b])
    BY <1>1, <1>6 DEF BoxInv, ReadyHeld, Answered
  <2>3. CreatedOnce(b)'
    BY <1>1, <1>6, <2>2, <2>a, LeaveCreatedOnce
  <2>4. ReadyHeld(b)' /\ NothingBeforeCreate(b)'
    BY <1>1, <1>6, <2>2, <2>a, LeaveKeeps DEF Unmade
  <2>5. BoxInv(b)'
    BY <1>1, <1>6, <2>3, <2>4, LeaveKeeps DEF BoxInv
  <2> QED
    BY <1>1, <2>1, <2>5, OneBox DEF CreateContinues
<1>7. CASE /\ UNCHANGED <<database, birth>>
           /\ \/ Answered(b, "make", "ok") /\ ~Gone(b) /\ Await(b, "ensure")
              \/ Answered(b, "ensure", "ok") /\ Await(b, "start")
              \/ Answered(b, "start", "ok") /\ Await(b, "setup")
  <2>1. status[b] # "deleted"
    BY <1>1, <1>7 DEF BoxInv, TombstoneHeld, Answered, Gone, Visible
  <2> QED
    BY <1>3, <1>7, <2>1
<1> QED
  BY <1>5, <1>6, <1>7 DEF CreateContinues

\* The code after an await of a stop, a delete or a repair.
LEMMA OvertakerContinuesKeeps ==
  ASSUME NEW b \in Box, IInv, TypeOK',
         StopContinues(b) \/ RemoveContinues(b) \/ RepairContinues(b)
  PROVE  IInv'
<1> USE DEF database, runtime
<1>1. /\ TypeOK /\ BoxInv(b) /\ alive /\ alive' /\ queue[b] # <<>>
      /\ Running(b, "stop") \/ Running(b, "remove") \/ Running(b, "repair")
      /\ ~RunsBringUp(b) /\ ~Running(b, "create")
      /\ UNCHANGED <<ready, runtime, birth>>
  BY DEF IInv, StopContinues, RemoveContinues, RepairContinues, Running, RunsBringUp, BringUps
<1>2. ASSUME NEW s \in {"stop", "clear", "ensure"}, Await(b, s),
             s = "stop" => Running(b, "stop"),
             s = "clear" => Running(b, "remove"),
             s = "ensure" => Running(b, "repair"),
             UNCHANGED <<status, threads>>
      PROVE  IInv'
  <2>1. /\ queue' = queue /\ step'[b] = s /\ ans'[b] = "none"
        /\ \A c \in Box \ {b} : step'[c] = step[c] /\ ans'[c] = ans[c]
    BY <1>1, <1>2, AwaitChain
  <2>2. \A c \in Box \ {b} : Same(c)
    BY <1>1, <1>2, <2>1 DEF Same
  <2>3. LegalStep(b)'
    BY <1>1, <1>2, <2>1 DEF LegalStep, Running, RunsBringUp
  <2>4. CreatedOnce(b)' /\ NothingBeforeCreate(b)'
    BY <1>1, <1>2, <2>1 DEF BoxInv, CreatedOnce, NothingBeforeCreate, Unmade, Running, RunsBringUp
  <2>5. ReadyHeld(b)' /\ TombstoneHeld(b)' /\ StorageHeld(b)' /\ StopHeld(b)'
    BY <1>1, <1>2, <2>1 DEF BoxInv, ReadyHeld, TombstoneHeld, StorageHeld, StopHeld, Answered,
       Running, RunsBringUp
  <2>6. BoxInv(b)'
    BY <2>3, <2>4, <2>5 DEF BoxInv
  <2> QED
    BY <1>1, <2>2, <2>6, OneBox
<1>3. CASE StopContinues(b)
  <2>1. CASE Leave(b) /\ (UNCHANGED status \/ SetStatus(b, "stopped"))
    BY <1>1, <1>3, <2>1, SettleKeeps DEF StopContinues, Statuses
  <2>2. CASE Await(b, "stop") /\ UNCHANGED status
    BY <1>2, <1>3, <2>2 DEF StopContinues
  <2> QED
    BY <1>3, <2>1, <2>2 DEF StopContinues
<1>4. CASE RemoveContinues(b)
  <2>1. CASE Await(b, "clear") /\ UNCHANGED threads
    BY <1>2, <1>4, <2>1 DEF RemoveContinues
  <2>2. CASE Leave(b) /\ threads' = [threads EXCEPT ![b] = FALSE]
    <3>1. \A c \in Box \ {b} : Same(c)
      <4>1. \A c \in Box \ {b} :
              queue'[c] = queue[c] /\ step'[c] = step[c] /\ ans'[c] = ans[c]
        BY <1>1, <2>2, LeaveChain
      <4>2. \A c \in Box \ {b} : threads'[c] = threads[c]
        BY <1>1, <2>2 DEF TypeOK
      <4>3. UNCHANGED <<status, ready, container, storage, setup, birth>>
        BY <1>1, <1>4 DEF RemoveContinues
      <4> QED
        BY <4>1, <4>2, <4>3 DEF Same
    <3>2. ~threads'[b] /\ UNCHANGED <<status, alive>>
      BY <1>1, <1>4, <2>2 DEF TypeOK, RemoveContinues
    <3>3. CreatedOnce(b)'
      BY <1>1, <2>2, <3>2, LeaveCreatedOnce DEF BoxInv, CreatedOnce
    <3>4. ReadyHeld(b)' /\ NothingBeforeCreate(b)'
      BY <1>1, <2>2, LeaveKeeps DEF BoxInv, ReadyHeld, NothingBeforeCreate, Unmade
    <3>5. BoxInv(b)'
      BY <1>1, <2>2, <3>3, <3>4, LeaveKeeps DEF BoxInv
    <3> QED
      BY <1>1, <3>1, <3>2, <3>5, OneBox
  <2> QED
    BY <1>4, <2>1, <2>2 DEF RemoveContinues
<1>5. CASE RepairContinues(b)
  <2>1. CASE Leave(b)
    BY <1>1, <1>5, <2>1, SettleKeeps DEF RepairContinues
  <2>2. CASE Await(b, "ensure")
    BY <1>2, <1>5, <2>2 DEF RepairContinues
  <2> QED
    BY <1>5, <2>1, <2>2 DEF RepairContinues
<1> QED
  BY <1>3, <1>4, <1>5

\* The teardown of a failed create, the adapter and the environment.
LEMMA EnvironmentKeeps ==
  ASSUME NEW b \in Box, IInv, TypeOK',
         Unwind(b) \/ AdapterReports(b) \/ Sweep(b) \/ Exits(b) \/ LosesStorage(b)
  PROVE  IInv'
<1> USE DEF database, runtime, running
<1>1. TypeOK /\ BoxInv(b)
  BY DEF IInv
<1>2. CASE UnwindRemove(b) \/ UnwindStorage(b)
  <2>1. \A c \in Box \ {b} : Same(c)
    BY <1>1, <1>2 DEF Same, TypeOK, UnwindRemove, UnwindStorage
  <2>2. /\ UNCHANGED <<status, ready, threads, setup, alive, queue, step, ans>>
        /\ birth[b] \in {"unwind", "unwindStorage"}
        /\ birth'[b] \in {"unwindStorage", "unwindStatus"}
        /\ container'[b] = "running" => container[b] = "running"
    BY <1>1, <1>2 DEF TypeOK, UnwindRemove, UnwindStorage, LeftOf
  <2>3. BoxInv(b)'
    BY <1>1, <2>2 DEF BoxInv, LegalStep, CreatedOnce, NothingBeforeCreate, ReadyHeld,
       TombstoneHeld, StorageHeld, StopHeld, Unmade, RunsBringUp, Running, Answered
  <2> QED
    BY <1>1, <2>1, <2>2, <2>3, OneBox
<1>3. CASE UnwindStatus(b) \/ AdapterReports(b)
  <2>1. /\ UNCHANGED <<ready, threads, container, storage, setup, alive, queue, step, ans>>
        /\ birth'[b] = birth[b] \/ (birth[b] = "unwindStatus" /\ birth'[b] = "done")
        /\ \A c \in Box \ {b} : birth'[c] = birth[c]
    <3>1. CASE UnwindStatus(b)
      BY <1>1, <3>1 DEF TypeOK, UnwindStatus
    <3>2. CASE AdapterReports(b)
      BY <3>2 DEF AdapterReports
    <3> QED
      BY <1>3, <3>1, <3>2
  <2>2. SetStatus(b, "running") \/ SetStatus(b, "error")
          \/ (UNCHANGED status /\ birth'[b] = birth[b])
    BY <1>3 DEF UnwindStatus, AdapterReports
  <2>3. /\ \A c \in Box \ {b} : status'[c] = status[c]
        /\ status'[b] = "deleted" => status[b] = "deleted"
        /\ status'[b] = "none" => status[b] = "none" /\ birth'[b] = birth[b]
    BY <1>1, <2>2, SetStatusRow
  <2>4. \A c \in Box \ {b} : Same(c)
    BY <2>1, <2>3 DEF Same
  <2>5. BoxInv(b)'
    BY <1>1, <2>1, <2>3 DEF BoxInv, LegalStep, CreatedOnce, NothingBeforeCreate, ReadyHeld,
       TombstoneHeld, StorageHeld, StopHeld, Unmade, RunsBringUp, Running, Answered
  <2> QED
    BY <1>1, <2>1, <2>4, <2>5, OneBox
<1>4. CASE Exits(b) \/ LosesStorage(b)
  <2>1. \A c \in Box \ {b} : Same(c)
    BY <1>1, <1>4 DEF Same, TypeOK, Exits, LosesStorage
  <2>2. /\ UNCHANGED <<status, ready, threads, setup, alive, queue, step, ans, birth>>
        /\ container'[b] = "running" => container[b] = "running"
        /\ storage' = storage \/ (~alive /\ ~storage'[b])
    BY <1>1, <1>4 DEF TypeOK, Exits, LosesStorage
  <2>3. BoxInv(b)'
    BY <1>1, <2>2 DEF BoxInv, LegalStep, CreatedOnce, NothingBeforeCreate, ReadyHeld,
       TombstoneHeld, StorageHeld, StopHeld, Unmade, RunsBringUp, Running, Answered
  <2> QED
    BY <1>1, <2>1, <2>2, <2>3, OneBox
<1>5. CASE Sweep(b)
  <2>1. \A c \in Box \ {b} : Same(c)
    BY <1>1, <1>5 DEF Same, TypeOK, Sweep
  <2>2. /\ UNCHANGED <<status, ready, threads, setup, alive, queue, step, ans, birth>>
        /\ container'[b] = "running" => container[b] = "running"
        /\ storage'[b] => storage[b]
        /\ alive /\ status[b] \in {"none", "deleted"}
    BY <1>1, <1>5 DEF TypeOK, Sweep, Visible
  <2>3. threads[b] => status[b] = "deleted"
    BY <1>1, <2>2 DEF BoxInv, CreatedOnce
  <2>4. StorageHeld(b)'
    BY <1>1, <2>2, <2>3 DEF BoxInv, StorageHeld, TombstoneHeld, RunsBringUp, Answered
  <2>5. BoxInv(b)'
    BY <1>1, <2>2, <2>4 DEF BoxInv, LegalStep, CreatedOnce, NothingBeforeCreate, ReadyHeld,
       TombstoneHeld, StopHeld, Unmade, RunsBringUp, Running, Answered
  <2> QED
    BY <1>1, <2>1, <2>2, <2>5, OneBox
<1> QED
  BY <1>2, <1>3, <1>4, <1>5 DEF Unwind

\* A crash empties the chains; the boot changes only the status.
LEMMA CrashBootKeeps ==
  ASSUME IInv, TypeOK', Crash \/ Boot
  PROVE  IInv'
<1> USE DEF database, runtime, running
<1> SUFFICES ASSUME NEW b \in Box PROVE BoxInv(b)'
  BY DEF IInv
<1>1. TypeOK /\ BoxInv(b)
  BY DEF IInv
<1>2. CASE Crash
  <2>1. /\ queue'[b] = <<>> /\ step'[b] = "queued" /\ ans'[b] = "none"
        /\ birth'[b] = IF birth[b] = "unborn" THEN "unborn" ELSE "done"
        /\ UNCHANGED <<status, ready, threads, container, storage, setup>>
    BY <1>2 DEF Crash
  <2> QED
    BY <1>1, <2>1 DEF BoxInv, LegalStep, CreatedOnce, NothingBeforeCreate, ReadyHeld,
       TombstoneHeld, StorageHeld, StopHeld, Unmade, RunsBringUp, Running, Answered
<1>3. CASE Boot
  <2>1. /\ UNCHANGED <<ready, threads, container, storage, setup, queue, step, ans, birth>>
        /\ ~alive /\ queue[b] = <<>>
    BY <1>1, <1>3 DEF Boot, BoxInv, LegalStep
  <2>2. status'[b] = "none" => status[b] = "none"
    BY <1>3 DEF Boot, Adopted, Visible
  <2> QED
    BY <1>1, <2>1, <2>2 DEF BoxInv, LegalStep, CreatedOnce, NothingBeforeCreate, ReadyHeld,
       TombstoneHeld, StorageHeld, StopHeld, Unmade, RunsBringUp, Running, Answered
<1> QED
  BY <1>2, <1>3

\* The initial state satisfies the inductive invariant.
LEMMA InitInv == Init => IInv
<1> SUFFICES ASSUME Init, NEW b \in Box PROVE BoxInv(b)
  BY InitType DEF IInv
<1> QED
  BY DEF Init, BoxInv, LegalStep, CreatedOnce, NothingBeforeCreate, ReadyHeld,
     TombstoneHeld, StorageHeld, StopHeld, Unmade, RunsBringUp, Running, Answered

\* Every step keeps the inductive invariant.
LEMMA NextInv == IInv /\ [Next]_vars => IInv'
<1> SUFFICES ASSUME IInv, [Next]_vars PROVE IInv'
  OBVIOUS
<1>1. TypeOK'
  BY NextType DEF IInv
<1>2. CASE UNCHANGED vars
  <2>1. alive' = alive /\ \A c \in Box : Same(c)
    BY <1>2 DEF vars, Same
  <2>2. \A c \in Box : BoxInv(c)
    BY DEF IInv
  <2>3. \A c \in Box : BoxInv(c)'
    BY <2>1, <2>2, SameKeeps
  <2> QED
    BY <1>1, <2>3 DEF IInv
<1>3. ASSUME NEW b \in Box,
             \/ RequestCreate(b)
             \/ QueueCreate(b)
             \/ \E k \in {"start", "exec"} : RequestBringUp(b, k)
             \/ RequestOpen(b)
             \/ \E k \in Overtakers : RequestOvertaker(b, k)
             \/ Reap(b)
             \/ RequestRepair(b)
      PROVE  IInv'
  BY <1>1, <1>3, RequestCreateKeeps, QueueCreateKeeps, RequestKeeps
<1>4. ASSUME NEW b \in Box, Begin(b) \/ RuntimeActs(b) \/ RuntimeFails(b) \/ Continue(b)
      PROVE  IInv'
  BY <1>1, <1>4, BeginKeeps, RuntimeActsKeeps, RuntimeFailsKeeps, BringUpContinuesKeeps,
     CreateContinuesKeeps, OvertakerContinuesKeeps DEF Continue
<1>5. ASSUME NEW b \in Box, Unwind(b) \/ AdapterReports(b) \/ Sweep(b) \/ Exits(b) \/ LosesStorage(b)
      PROVE  IInv'
  BY <1>1, <1>5, EnvironmentKeeps
<1>6. CASE Crash \/ Boot
  BY <1>1, <1>6, CrashBootKeeps
<1> QED
  BY <1>2, <1>3, <1>4, <1>5, <1>6 DEF Next

\* The inductive invariant holds in every reachable state.
LEMMA InductiveInvariant == Spec => []IInv
  BY InitInv, NextInv, PTL DEF Spec

\* The ready mark of a running container is true: the container has been set
\* up since it started, after any crash, exit, failed call or interleaving.
THEOREM ReadyIsTrue == Spec => []ReadyMeansSetUp
<1>1. IInv => ReadyMeansSetUp
  BY DEF IInv, BoxInv, ReadyHeld, ReadyMeansSetUp
<1> QED
  BY <1>1, InductiveInvariant, PTL

(***************************************************************************)
(* What a step may never do.                                               *)
(***************************************************************************)

\* Only these actions change the status, and only RuntimeActs starts a
\* container.
LEMMA ContainerStarts ==
  ASSUME NEW b \in Box, TypeOK, [Next]_vars, container[b] # "running", container'[b] = "running"
  PROVE  RuntimeActs(b) /\ step[b] = "start" /\ UNCHANGED status
<1> USE DEF database, runtime, running, bounds
<1>1. CASE UNCHANGED vars
  BY <1>1 DEF vars
<1>2. ASSUME NEW c \in Box, RuntimeActs(c)
      PROVE  RuntimeActs(b) /\ step[b] = "start" /\ UNCHANGED status
  <2>1. c = b
    BY <1>2 DEF RuntimeActs, CallTakesEffect, TypeOK
  <2> QED
    BY <1>2, <2>1 DEF RuntimeActs, CallTakesEffect, TypeOK
<1>3. ASSUME NEW c \in Box,
             UnwindRemove(c) \/ RuntimeFails(c) \/ Sweep(c) \/ Exits(c)
      PROVE  FALSE
  BY <1>3 DEF UnwindRemove, RuntimeFails, LeftOf, Sweep, Exits, TypeOK
<1>4. ASSUME NEW c \in Box,
             \/ RequestCreate(c) \/ QueueCreate(c)
             \/ \E k \in {"start", "exec"} : RequestBringUp(c, k)
             \/ RequestOpen(c)
             \/ \E k \in Overtakers : RequestOvertaker(c, k)
             \/ Reap(c) \/ RequestRepair(c)
      PROVE  FALSE
  BY <1>4 DEF RequestCreate, QueueCreate, RequestBringUp, RequestOpen, RequestOvertaker,
     Overtake, Reap, RequestRepair
<1>5. ASSUME NEW c \in Box,
             \/ Begin(c) \/ Continue(c) \/ UnwindStorage(c)
             \/ UnwindStatus(c) \/ AdapterReports(c) \/ LosesStorage(c)
      PROVE  FALSE
  BY <1>5 DEF Begin, Continue, BringUpContinues, CreateContinues, StopContinues,
     RemoveContinues, RepairContinues, UnwindStorage, UnwindStatus, AdapterReports, LosesStorage
<1>6. CASE Crash \/ Boot
  BY <1>6 DEF Crash, Boot
<1> QED
  BY <1>1, <1>2, <1>3, <1>4, <1>5, <1>6 DEF Next, Unwind

\* No container of a created box starts without the files of the box: the
\* check for them comes before every start, and nothing removes them between
\* the check and the start.
THEOREM StartNeedsStorage == Spec => StartsOnlyWithStorage
<1>1. IInv /\ [Next]_vars =>
        [\A b \in Box :
           threads[b] /\ container[b] # "running" /\ container'[b] = "running" => storage[b]]_vars
  <2> SUFFICES ASSUME IInv, [Next]_vars, NEW b \in Box,
                      threads[b], container[b] # "running", container'[b] = "running"
               PROVE  storage[b]
    OBVIOUS
  <2>1. RuntimeActs(b) /\ step[b] = "start" /\ TypeOK /\ BoxInv(b)
    BY ContainerStarts DEF IInv
  <2>2. queue[b] # <<>>
    BY <2>1 DEF BoxInv, LegalStep
  <2>3. Head(queue[b]) \in Kinds
    BY <2>1, <2>2 DEF TypeOK
  <2>4. ~Running(b, "create")
    <3>1. ASSUME Running(b, "create") PROVE birth[b] = "slot"
      <4>1. 1 \in 1..Len(queue[b]) /\ queue[b][1] = "create"
        BY <2>1, <2>2, <3>1 DEF Running, TypeOK
      <4> QED
        BY <2>1, <4>1 DEF BoxInv, CreatedOnce
    <3> QED
      BY <2>1, <3>1 DEF BoxInv, CreatedOnce
  <2>5. RunsBringUp(b)
    BY <2>1, <2>2, <2>3, <2>4 DEF BoxInv, LegalStep, RunsBringUp, Running, Kinds, BringUps,
       Overtakers
  <2> QED
    BY <2>1, <2>5 DEF BoxInv, StorageHeld
<1> QED
  BY <1>1, InductiveInvariant, PTL DEF Spec, StartsOnlyWithStorage

\* No step changes the row of a deleted box or starts its container.
LEMMA TombstoneStep ==
  ASSUME IInv, [Next]_vars, NEW b \in Box, status[b] = "deleted"
  PROVE  /\ status'[b] = "deleted"
         /\ container'[b] = "running" => container[b] = "running"
<1>1. TypeOK /\ BoxInv(b)
  BY DEF IInv
<1>2. ASSUME container[b] # "running", container'[b] = "running" PROVE FALSE
  <2>1. step[b] = "start"
    BY <1>1, <1>2, ContainerStarts
  <2>2. queue[b] # <<>>
    BY <1>1, <2>1 DEF BoxInv, LegalStep
  <2>3. Head(queue[b]) \in Kinds
    BY <1>1, <2>2 DEF TypeOK
  <2>4. RunsBringUp(b) \/ Running(b, "create")
    BY <1>1, <2>1, <2>2, <2>3 DEF BoxInv, LegalStep, RunsBringUp, Running, Kinds, BringUps,
       Overtakers
  <2> QED
    BY <1>1, <2>1, <2>4 DEF BoxInv, TombstoneHeld
<1>3. status'[b] = "deleted"
  <2> USE DEF database, runtime, running, bounds
  <2>0. ASSUME NEW c \in Box, NEW s, SetStatus(c, s) PROVE status'[b] = "deleted"
    BY <1>1, <2>0 DEF SetStatus, TypeOK
  <2>1. CASE UNCHANGED status
    BY <2>1
  <2>2. ASSUME NEW c \in Box, RequestCreate(c) PROVE status'[b] = "deleted"
    BY <1>1, <2>2 DEF RequestCreate, TypeOK
  <2>3. ASSUME NEW c \in Box, Begin(c) PROVE status'[b] = "deleted"
    BY <2>0, <2>1, <2>3 DEF Begin, BringUpBegins, CreateBegins, StopBegins, RemoveBegins,
       RepairBegins
  <2>4. ASSUME NEW c \in Box, BringUpContinues(c) PROVE status'[b] = "deleted"
    BY <2>0, <2>1, <2>4 DEF BringUpContinues, AfterStorage, AfterEnsure, AfterState, AfterStart,
       AfterSetup, GoReady, Succeeds
  <2>5. ASSUME NEW c \in Box,
               CreateContinues(c) \/ StopContinues(c) \/ RemoveContinues(c) \/ RepairContinues(c)
        PROVE  status'[b] = "deleted"
    BY <2>0, <2>1, <2>5 DEF CreateContinues, StopContinues, RemoveContinues, RepairContinues
  <2>6. ASSUME NEW c \in Box, Unwind(c) \/ AdapterReports(c) PROVE status'[b] = "deleted"
    BY <2>0, <2>1, <2>6 DEF Unwind, UnwindRemove, UnwindStorage, UnwindStatus, AdapterReports
  <2>7. CASE Boot
    BY <2>7 DEF Boot, Adopted, Visible
  <2>8. ASSUME NEW c \in Box,
               \/ QueueCreate(c)
               \/ \E k \in {"start", "exec"} : RequestBringUp(c, k)
               \/ RequestOpen(c)
               \/ \E k \in Overtakers : RequestOvertaker(c, k)
               \/ Reap(c) \/ RequestRepair(c)
               \/ RuntimeActs(c) \/ RuntimeFails(c)
               \/ Sweep(c) \/ Exits(c) \/ LosesStorage(c)
        PROVE  UNCHANGED status
    BY <2>8 DEF QueueCreate, RequestBringUp, RequestOpen, RequestOvertaker, Overtake, Reap,
       RequestRepair, RuntimeActs, RuntimeFails, Sweep, Exits, LosesStorage
  <2>9. CASE Crash \/ UNCHANGED vars
    BY <2>1, <2>9 DEF Crash, vars
  <2> QED
    BY <2>1, <2>2, <2>3, <2>4, <2>5, <2>6, <2>7, <2>8, <2>9 DEF Next, Continue
<1> QED
  BY <1>2, <1>3

\* A tombstone is final: no report and no operation behind the delete brings
\* the row back or starts the container.
THEOREM TombstoneStays == Spec => TombstoneIsFinal
<1>1. IInv /\ [Next]_vars =>
        [\A b \in Box : status[b] = "deleted" =>
           /\ status'[b] = "deleted"
           /\ container'[b] = "running" => container[b] = "running"]_vars
  BY TombstoneStep
<1> QED
  BY <1>1, InductiveInvariant, PTL DEF Spec, TombstoneIsFinal

\* A step that says `stopped` finds the container down.
LEMMA StoppedStep ==
  ASSUME IInv, [Next]_vars, NEW b \in Box, status[b] # "stopped", status'[b] = "stopped"
  PROVE  container'[b] # "running"
<1> USE DEF database, runtime, running, bounds
<1>1. TypeOK /\ BoxInv(b)
  BY DEF IInv
<1>0. ASSUME NEW c \in Box, NEW s \in Statuses \ {"stopped"}, SetStatus(c, s) PROVE FALSE
  BY <1>0, <1>1 DEF SetStatus, TypeOK
<1>2. status' # status
  OBVIOUS
<1>3. ASSUME NEW c \in Box, StopContinues(c) PROVE container'[b] # "running"
  <2>1. Answered(c, "stop", "ok") /\ SetStatus(c, "stopped") /\ container' = container
    BY <1>2, <1>3 DEF StopContinues
  <2>2. c = b
    BY <1>1, <2>1 DEF SetStatus, TypeOK
  <2> QED
    BY <1>1, <2>1, <2>2 DEF BoxInv, StopHeld
<1>4. CASE Boot
  BY <1>1, <1>4 DEF Boot, Adopted, Visible
<1>5. {"creating", "running", "error", "deleted"} \subseteq Statuses \ {"stopped"}
  BY DEF Statuses
<1>6. ASSUME NEW c \in Box, RequestCreate(c) PROVE FALSE
  BY <1>1, <1>6 DEF RequestCreate, TypeOK
<1>7. ASSUME NEW c \in Box, Begin(c) PROVE FALSE
  BY <1>0, <1>2, <1>5, <1>7 DEF Begin, BringUpBegins, CreateBegins, StopBegins, RemoveBegins,
     RepairBegins
<1>8. ASSUME NEW c \in Box, BringUpContinues(c) PROVE FALSE
  BY <1>0, <1>2, <1>5, <1>8 DEF BringUpContinues, AfterStorage, AfterEnsure, AfterState,
     AfterStart, AfterSetup, GoReady, Succeeds
<1>9. ASSUME NEW c \in Box, CreateContinues(c) \/ RemoveContinues(c) \/ RepairContinues(c)
      PROVE  FALSE
  BY <1>0, <1>2, <1>5, <1>9 DEF CreateContinues, RemoveContinues, RepairContinues
<1>10. ASSUME NEW c \in Box, Unwind(c) \/ AdapterReports(c) PROVE FALSE
  BY <1>0, <1>2, <1>5, <1>10 DEF Unwind, UnwindRemove, UnwindStorage, UnwindStatus,
     AdapterReports
<1>11. ASSUME NEW c \in Box,
              \/ QueueCreate(c)
              \/ \E k \in {"start", "exec"} : RequestBringUp(c, k)
              \/ RequestOpen(c)
              \/ \E k \in Overtakers : RequestOvertaker(c, k)
              \/ Reap(c) \/ RequestRepair(c)
              \/ RuntimeActs(c) \/ RuntimeFails(c)
              \/ Sweep(c) \/ Exits(c) \/ LosesStorage(c)
       PROVE  FALSE
  BY <1>2, <1>11 DEF QueueCreate, RequestBringUp, RequestOpen, RequestOvertaker, Overtake, Reap,
     RequestRepair, RuntimeActs, RuntimeFails, Sweep, Exits, LosesStorage
<1>12. ~Crash /\ vars' # vars
  BY <1>2 DEF Crash, vars
<1> QED
  BY <1>3, <1>4, <1>6, <1>7, <1>8, <1>9, <1>10, <1>11, <1>12 DEF Next, Continue

\* A row becomes `stopped` only when its container is down: after a stop that
\* the runtime has answered, or at the boot, which asks the runtime first.
THEOREM StoppedIsDown == Spec => StoppedMeansDown
<1>1. IInv /\ [Next]_vars =>
        [\A b \in Box :
           status[b] # "stopped" /\ status'[b] = "stopped" => container'[b] # "running"]_vars
  BY StoppedStep
<1> QED
  BY <1>1, InductiveInvariant, PTL DEF Spec, StoppedMeansDown
(***************************************************************************)
(* A delete leaves nothing.  On top of IInv: what the teardown of a        *)
(* deleted box has still ahead, as long as no call failed and no crash     *)
(* came.                                                                   *)
(***************************************************************************)

\* A repair is asked for when the chain is empty (reconcileIsolation), so nothing is ever
\* ahead of one, and a delete does not meet one behind it.
RepairsComeFirst(b) ==
  /\ \A i \in 1..Len(queue[b]) : queue[b][i] = "repair" => i = 1
  /\ status[b] = "deleted" => ~Running(b, "repair")

\* removeHeld is under way: it has removed the container, or will, and so for the files.
TeardownAhead(b) ==
  /\ Running(b, "remove")
  /\ ans[b] \in {"none", "ok"}
  /\ \/ step[b] = "remove" /\ (ans[b] = "ok" => container[b] = "absent")
     \/ step[b] = "clear" /\ container[b] = "absent" /\ (ans[b] = "ok" => ~storage[b])

\* The teardown is over.  Only a create that the delete overtook makes the storage
\* again, and takes it down itself.
TeardownDone(b) ==
  /\ container[b] = "absent" /\ ~threads[b]
  /\ step[b] \in {"queued", "make"}
  /\ storage[b] => Answered(b, "make", "ok") \/ birth[b] \in {"unwind", "unwindStorage"}

TeardownHeld(b) ==
  status[b] = "deleted" /\ faults = 0 /\ crashes = 0 => TeardownAhead(b) \/ TeardownDone(b)

DeleteInv == \A b \in Box : RepairsComeFirst(b) /\ TeardownHeld(b)

\* It is enough to look at the box that an action is about.
LEMMA OneDelete ==
  ASSUME NEW b \in Box, IInv, DeleteInv, TypeOK', \A c \in Box \ {b} : Same(c),
         faults' = faults \/ faults' = faults + 1, crashes' = crashes,
         RepairsComeFirst(b)', TeardownHeld(b)'
  PROVE  DeleteInv'
<1>1. faults \in Nat /\ crashes \in Nat
  BY BoundsAssumption DEF IInv, TypeOK
<1>2. ASSUME NEW c \in Box \ {b} PROVE RepairsComeFirst(c)' /\ TeardownHeld(c)'
  <2>1. RepairsComeFirst(c) /\ TeardownHeld(c) /\ Same(c)
    BY <1>2 DEF DeleteInv
  <2>2. faults' = 0 => faults = 0
    BY <1>1
  <2> QED
    BY <2>1, <2>2 DEF Same, RepairsComeFirst, TeardownHeld, TeardownAhead, TeardownDone, Running,
       Answered
<1> QED
  BY <1>2 DEF DeleteInv

\* A request makes the chain longer.
LEMMA EnqueueDeletes ==
  ASSUME NEW b \in Box, NEW k \in Kinds, IInv, DeleteInv, TypeOK', Enqueue(b, k),
         k = "repair" => queue[b] = <<>> /\ status[b] # "deleted",
         UNCHANGED <<database, runtime, bounds>>,
         birth' = birth \/ (birth[b] = "egress" /\ \A c \in Box \ {b} : birth'[c] = birth[c])
  PROVE  DeleteInv'
<1> USE DEF database, runtime, bounds
<1>1. TypeOK /\ LegalStep(b) /\ RepairsComeFirst(b) /\ TeardownHeld(b)
  BY DEF IInv, BoxInv, DeleteInv
<1>2. \A c \in Box \ {b} : Same(c)
  BY <1>1, EnqueueChain DEF Same
<1>3. /\ step' = step /\ ans' = ans
      /\ queue'[b] # <<>>
      /\ Len(queue'[b]) = Len(queue[b]) + 1
      /\ queue'[b][Len(queue'[b])] = k
      /\ \A i \in 1..Len(queue[b]) : queue'[b][i] = queue[b][i]
      /\ queue[b] # <<>> => Head(queue'[b]) = Head(queue[b])
  BY <1>1, EnqueueChain
<1>4. queue[b] \in Seq(Kinds) /\ queue'[b] \in Seq(Kinds)
  BY <1>1 DEF TypeOK
<1>5. queue[b] = <<>> => Head(queue'[b]) = k
  BY <1>3, <1>4
<1>6. RepairsComeFirst(b)'
  <2>1. \A i \in 1..Len(queue'[b]) : queue'[b][i] = "repair" => i = 1
    <3>1. k = "repair" => Len(queue[b]) = 0
      OBVIOUS
    <3>2. Len(queue[b]) \in Nat
      BY <1>4
    <3> QED
      BY <1>1, <1>3, <3>1, <3>2 DEF RepairsComeFirst
  <2>2. status[b] = "deleted" => Head(queue'[b]) # "repair"
    BY <1>1, <1>3, <1>5 DEF RepairsComeFirst, Running
  <2> QED
    BY <2>1, <2>2 DEF RepairsComeFirst, Running
<1>7. TeardownHeld(b)'
  <2>1. Running(b, "remove") => Running(b, "remove")'
    BY <1>3 DEF Running
  <2> QED
    BY <1>1, <1>3, <2>1 DEF TeardownHeld, TeardownAhead, TeardownDone, Answered
<1> QED
  BY <1>2, <1>6, <1>7, OneDelete

\* An operation that settles makes the chain shorter.
LEMMA LeaveRepairs ==
  ASSUME NEW b \in Box, TypeOK, RepairsComeFirst(b), queue[b] # <<>>, Leave(b)
  PROVE  RepairsComeFirst(b)'
<1>1. /\ Len(queue'[b]) = Len(queue[b]) - 1
      /\ \A i \in 1..Len(queue'[b]) : queue'[b][i] = queue[b][i + 1]
  BY LeaveChain
<1>2. queue[b] \in Seq(Kinds) /\ queue'[b] \in Seq(Kinds)
  BY DEF TypeOK, Leave
<1>3. \A i \in 1..Len(queue'[b]) : queue'[b][i] # "repair"
  BY <1>1, <1>2 DEF RepairsComeFirst
<1>4. queue'[b] # <<>> => Head(queue'[b]) # "repair"
  BY <1>2, <1>3
<1> QED
  BY <1>3, <1>4 DEF RepairsComeFirst, Running

\* The operations that a step of the code leaves, or in which it goes on.
LEMMA StepRepairs ==
  ASSUME NEW b \in Box, TypeOK, RepairsComeFirst(b), queue[b] # <<>>,
         Leave(b) \/ (queue' = queue /\ (status'[b] = "deleted" => status[b] = "deleted" \/ ~Running(b, "repair")))
  PROVE  RepairsComeFirst(b)'
<1>1. CASE Leave(b)
  BY <1>1, LeaveRepairs
<1>2. CASE queue' = queue /\ (status'[b] = "deleted" => status[b] = "deleted" \/ ~Running(b, "repair"))
  BY <1>2 DEF RepairsComeFirst, Running
<1> QED
  BY <1>1, <1>2

\* A box that is not deleted has nothing to tear down.
LEMMA NotDeleted ==
  ASSUME NEW b \in Box, status'[b] # "deleted"
  PROVE  TeardownHeld(b)'
  BY DEF TeardownHeld

\* The first step of an operation: only removeHeld makes the tombstone.
LEMMA BeginDeletes ==
  ASSUME NEW b \in Box, IInv, DeleteInv, TypeOK', Begin(b)
  PROVE  DeleteInv'
<1> USE DEF database, runtime, bounds
<1>1. /\ TypeOK /\ LegalStep(b) /\ CreatedOnce(b) /\ RepairsComeFirst(b) /\ TeardownHeld(b)
      /\ queue[b] # <<>> /\ step[b] = "queued" /\ ans[b] = "none"
  BY DEF IInv, BoxInv, DeleteInv, Begin, LegalStep
<1>2. UNCHANGED <<container, storage, setup, birth, faults, crashes, ready, threads>>
  BY DEF Begin, BringUpBegins, CreateBegins, StopBegins, RemoveBegins, RepairBegins
<1>3. \/ Leave(b)
      \/ \E s \in Steps : Await(b, s)
  BY DEF Begin, BringUpBegins, CreateBegins, StopBegins, RemoveBegins, RepairBegins, Steps
<1>4. status' = status \/ (Running(b, "remove") /\ SetStatus(b, "deleted"))
  BY DEF Begin, BringUpBegins, CreateBegins, StopBegins, RemoveBegins, RepairBegins
<1>5. \A c \in Box \ {b} : Same(c)
  BY <1>1, <1>2, <1>3, <1>4, LeaveChain, AwaitChain, SetStatusRow DEF Same
<1>6. RepairsComeFirst(b)'
  <2>1. Running(b, "remove") => ~Running(b, "repair")
    BY DEF Running
  <2> QED
    BY <1>1, <1>3, <1>4, <2>1, StepRepairs, AwaitChain
<1>7. TeardownHeld(b)'
  <2>1. CASE status[b] = "deleted"
    <3>1. status'[b] = "deleted"
      BY <1>1, <1>4, <2>1, SetStatusRow
    <3>2. Leave(b) \/ (Running(b, "create") /\ Await(b, "make"))
      BY <1>1, <2>1 DEF Begin, BringUpBegins, CreateBegins, StopBegins, RemoveBegins, RepairBegins,
         Gone, Visible, RepairsComeFirst
    <3>3. step'[b] \in {"queued", "make"} /\ ans'[b] = "none"
      BY <1>1, <3>2, LeaveChain, AwaitChain
    <3>4. faults = 0 /\ crashes = 0 => TeardownDone(b)
      BY <1>1, <2>1 DEF TeardownHeld, TeardownAhead
    <3>5. faults = 0 /\ crashes = 0 =>
            container[b] = "absent" /\ ~threads[b] /\ (storage[b] => birth[b] \in {"unwind", "unwindStorage"})
      BY <1>1, <3>4 DEF TeardownDone, Answered
    <3> QED
      BY <1>2, <3>1, <3>3, <3>5 DEF TeardownHeld, TeardownDone
  <2>2. CASE status[b] # "deleted" /\ status'[b] = "deleted"
    <3>1. RemoveBegins(b) /\ Await(b, "remove")
      BY <2>2 DEF Begin, BringUpBegins, CreateBegins, StopBegins, RemoveBegins, RepairBegins
    <3>2. queue'[b] = queue[b] /\ step'[b] = "remove" /\ ans'[b] = "none"
      BY <1>1, <3>1, AwaitChain
    <3> QED
      BY <3>1, <3>2 DEF RemoveBegins, Running, TeardownHeld, TeardownAhead
  <2>3. CASE status'[b] # "deleted"
    BY <2>3, NotDeleted
  <2> QED
    BY <2>1, <2>2, <2>3
<1> QED
  BY <1>2, <1>5, <1>6, <1>7, OneDelete

\* The call of a teardown takes effect.
LEMMA RuntimeActsDeletes ==
  ASSUME NEW b \in Box, IInv, DeleteInv, TypeOK', RuntimeActs(b)
  PROVE  DeleteInv'
<1> USE DEF database, runtime, bounds
<1>1. TypeOK /\ RepairsComeFirst(b) /\ TeardownHeld(b) /\ ans[b] = "none"
  BY DEF IInv, DeleteInv, RuntimeActs
<1>2. UNCHANGED <<status, ready, threads, queue, step, birth, faults, crashes>> /\ CallTakesEffect(b)
  BY DEF RuntimeActs
<1>3. \A c \in Box \ {b} : Same(c)
  BY <1>1, <1>2 DEF Same, CallTakesEffect, Answer, TypeOK
<1>4. RepairsComeFirst(b)'
  BY <1>1, <1>2 DEF RepairsComeFirst, Running
<1>5. TeardownHeld(b)'
  <2>1. CASE status[b] = "deleted" /\ faults = 0 /\ crashes = 0 /\ TeardownAhead(b)
    BY <1>1, <1>2, <2>1 DEF CallTakesEffect, Answer, TeardownHeld, TeardownAhead, Running, TypeOK
  <2>2. CASE status[b] = "deleted" /\ faults = 0 /\ crashes = 0 /\ TeardownDone(b)
    BY <1>1, <1>2, <2>2 DEF CallTakesEffect, Answer, TeardownHeld, TeardownDone, Answered, TypeOK
  <2> QED
    BY <1>1, <1>2, <2>1, <2>2 DEF TeardownHeld
<1> QED
  BY <1>2, <1>3, <1>4, <1>5, OneDelete

\* The code after an await: a bring-up or a create of a deleted box ends, and the delete
\* goes on.
LEMMA ContinueDeletes ==
  ASSUME NEW b \in Box, IInv, DeleteInv, TypeOK', Continue(b)
  PROVE  DeleteInv'
<1> USE DEF database, runtime, bounds
<1>1. /\ TypeOK /\ LegalStep(b) /\ CreatedOnce(b) /\ TombstoneHeld(b)
      /\ RepairsComeFirst(b) /\ TeardownHeld(b)
  BY DEF IInv, BoxInv, DeleteInv
<1>2. queue[b] # <<>> /\ UNCHANGED <<container, storage, setup, faults, crashes>>
  BY DEF Continue, BringUpContinues, CreateContinues, StopContinues, RemoveContinues, RepairContinues,
         RunsBringUp, Running
<1>3. Leave(b) \/ \E s \in Steps : Await(b, s)
  BY DEF Continue, BringUpContinues, CreateContinues, StopContinues, RemoveContinues, RepairContinues,
         AfterStorage, AfterEnsure, AfterState, AfterStart, AfterSetup, GoReady, Throws, Succeeds,
         CreateFails, Steps
<1>4. status' = status \/ \E s \in Statuses \ {"deleted"} : SetStatus(b, s)
  BY DEF Continue, BringUpContinues, CreateContinues, StopContinues, RemoveContinues, RepairContinues,
         AfterStorage, AfterEnsure, AfterState, AfterStart, AfterSetup, GoReady, Throws, Succeeds,
         CreateFails, Statuses
<1>5. \A c \in Box \ {b} : ready'[c] = ready[c] /\ threads'[c] = threads[c] /\ birth'[c] = birth[c]
  BY <1>1 DEF Continue, BringUpContinues, CreateContinues, StopContinues, RemoveContinues, RepairContinues,
         AfterStorage, AfterEnsure, AfterState, AfterStart, AfterSetup, GoReady, ClearReady,
         CreateFails, TypeOK
<1>6. \A c \in Box \ {b} : Same(c)
  BY <1>1, <1>2, <1>3, <1>4, <1>5, LeaveChain, AwaitChain, SetStatusRow DEF Same
<1>7. status'[b] = "deleted" <=> status[b] = "deleted"
  BY <1>1, <1>4, SetStatusRow
<1>8. RepairsComeFirst(b)'
  BY <1>1, <1>2, <1>3, <1>7, StepRepairs, AwaitChain
<1>9. TeardownHeld(b)'
  <2> SUFFICES ASSUME status[b] = "deleted", faults = 0, crashes = 0
               PROVE  TeardownAhead(b)' \/ TeardownDone(b)'
    BY <1>2, <1>7 DEF TeardownHeld
  <2>1. TeardownAhead(b) \/ TeardownDone(b)
    BY <1>1 DEF TeardownHeld
  <2>2. CASE RemoveContinues(b)
    <3>1. TeardownAhead(b)
      BY <1>1, <2>1, <2>2 DEF RemoveContinues, TeardownDone
    <3>2. CASE step[b] = "remove" /\ Await(b, "clear")
      <4>1. queue' = queue /\ step'[b] = "clear" /\ ans'[b] = "none"
        BY <1>1, <3>2, AwaitChain
      <4> QED
        BY <1>2, <2>2, <3>1, <3>2, <4>1 DEF RemoveContinues, TeardownAhead, Running
    <3>3. CASE step[b] = "clear" /\ threads' = [threads EXCEPT ![b] = FALSE] /\ Leave(b)
      <4>1. step'[b] = "queued" /\ ~threads'[b]
        BY <1>1, <1>2, <3>3, LeaveChain DEF TypeOK
      <4> QED
        BY <1>2, <2>2, <3>1, <3>3, <4>1 DEF RemoveContinues, TeardownAhead, TeardownDone
    <3> QED
      BY <2>2, <3>2, <3>3 DEF RemoveContinues
  <2>3. CASE CreateContinues(b)
    <3>1. TeardownDone(b) /\ step[b] = "make" /\ Gone(b)
      BY <1>1, <2>1, <2>3 DEF CreateContinues, TeardownAhead, TeardownDone, Running, LegalStep, Gone, Visible
    <3>2. Leave(b) /\ birth' = [birth EXCEPT ![b] = "unwind"] /\ threads' = threads
      BY <2>3, <3>1 DEF CreateContinues, CreateFails, Answered
    <3>3. step'[b] = "queued" /\ birth'[b] = "unwind"
      BY <1>1, <1>2, <3>2, LeaveChain DEF TypeOK
    <3> QED
      BY <1>2, <3>1, <3>2, <3>3 DEF TeardownDone
  <2>4. CASE BringUpContinues(b)
    <3>1. step[b] = "queued"
      BY <1>1, <2>4 DEF BringUpContinues, TombstoneHeld, LegalStep
    <3> QED
      BY <2>4, <3>1 DEF BringUpContinues, AfterStorage, AfterEnsure, AfterState, AfterStart, AfterSetup
  <2>5. CASE StopContinues(b)
    BY <1>1, <2>1, <2>5 DEF StopContinues, TeardownAhead, TeardownDone, Running, Answered
  <2>6. CASE RepairContinues(b)
    BY <1>1, <2>6 DEF RepairContinues, RepairsComeFirst
  <2> QED
    BY <2>2, <2>3, <2>4, <2>5, <2>6 DEF Continue
<1> QED
  BY <1>2, <1>6, <1>8, <1>9, OneDelete

\* The unwind of a create, the sweep, an exit and a late report take nothing back.
LEMMA EnvironmentDeletes ==
  ASSUME NEW b \in Box, IInv, DeleteInv, TypeOK',
         Unwind(b) \/ AdapterReports(b) \/ Sweep(b) \/ Exits(b) \/ LosesStorage(b)
  PROVE  DeleteInv'
<1> USE DEF database, runtime, running, bounds
<1>1. TypeOK /\ RepairsComeFirst(b) /\ TeardownHeld(b)
  BY DEF IInv, DeleteInv
<1>2. /\ UNCHANGED <<queue, step, ans, threads, ready, setup, crashes>>
      /\ faults' = faults \/ faults' = faults + 1
  BY DEF Unwind, UnwindRemove, UnwindStorage, UnwindStatus, AdapterReports, Sweep, Exits, LosesStorage
<1>3. status' = status \/ \E s \in Statuses \ {"deleted"} : SetStatus(b, s)
  BY DEF Unwind, UnwindRemove, UnwindStorage, UnwindStatus, AdapterReports, Sweep, Exits, LosesStorage,
         Statuses
<1>4. \A c \in Box \ {b} : container'[c] = container[c] /\ storage'[c] = storage[c] /\ birth'[c] = birth[c]
  BY <1>1 DEF Unwind, UnwindRemove, UnwindStorage, UnwindStatus, AdapterReports, Sweep, Exits,
         LosesStorage, TypeOK
<1>5. \A c \in Box \ {b} : Same(c)
  BY <1>1, <1>2, <1>3, <1>4, SetStatusRow DEF Same
<1>6. status'[b] = "deleted" <=> status[b] = "deleted"
  BY <1>1, <1>3, SetStatusRow
<1>7. RepairsComeFirst(b)'
  BY <1>1, <1>2, <1>6 DEF RepairsComeFirst, Running
<1>8. TeardownHeld(b)'
  <2> SUFFICES ASSUME status[b] = "deleted", faults' = 0, crashes = 0
               PROVE  TeardownAhead(b)' \/ TeardownDone(b)'
    BY <1>2, <1>6 DEF TeardownHeld
  <2>1. faults = 0 /\ faults' = faults
    BY <1>1, <1>2, BoundsAssumption DEF TypeOK
  <2>2. TeardownAhead(b) \/ TeardownDone(b)
    BY <1>1, <2>1 DEF TeardownHeld
  <2>3. /\ container[b] = "absent" => container'[b] = "absent"
        /\ storage'[b] => storage[b] /\ (birth[b] \in {"unwind", "unwindStorage"} =>
                                          birth'[b] \in {"unwind", "unwindStorage"})
    BY <1>1, <2>1 DEF Unwind, UnwindRemove, UnwindStorage, UnwindStatus, AdapterReports, Sweep, Exits,
       LosesStorage, TypeOK
  <2> QED
    BY <1>1, <1>2, <2>2, <2>3 DEF TeardownAhead, TeardownDone, Running, Answered, TypeOK
<1> QED
  BY <1>2, <1>5, <1>7, <1>8, OneDelete

\* Each step of the specification keeps it.
LEMMA DeleteStep == IInv /\ DeleteInv /\ [Next]_vars => DeleteInv'
<1> SUFFICES ASSUME IInv, DeleteInv, [Next]_vars PROVE DeleteInv'
  OBVIOUS
<1>1. TypeOK /\ TypeOK'
  BY NextType DEF IInv
<1>2. ASSUME NEW b \in Box, RequestCreate(b) PROVE DeleteInv'
  <2>1. \A c \in Box \ {b} : Same(c)
    BY <1>1, <1>2 DEF RequestCreate, Same, runtime, running, TypeOK
  <2>2. status'[b] = "creating" /\ UNCHANGED <<queue, faults, crashes>>
    BY <1>1, <1>2 DEF RequestCreate, running, bounds, TypeOK
  <2>3. RepairsComeFirst(b)' /\ TeardownHeld(b)'
    BY <2>2 DEF DeleteInv, RepairsComeFirst, TeardownHeld
  <2> QED
    BY <1>1, <2>1, <2>2, <2>3, OneDelete
<1>3. ASSUME NEW b \in Box, QueueCreate(b) PROVE DeleteInv'
  <2>1. \A c \in Box \ {b} : birth'[c] = birth[c]
    BY <1>1, <1>3 DEF QueueCreate, TypeOK
  <2> QED
    BY <1>1, <1>3, <2>1, EnqueueDeletes DEF QueueCreate, Kinds
<1>4. ASSUME NEW b \in Box, \/ \E k \in {"start", "exec"} : RequestBringUp(b, k)
                            \/ RequestOpen(b)
                            \/ \E k \in Overtakers : RequestOvertaker(b, k)
                            \/ Reap(b)
                            \/ RequestRepair(b)
      PROVE DeleteInv'
  <2>1. PICK k \in Kinds : /\ Enqueue(b, k)
                           /\ k = "repair" => queue[b] = <<>> /\ status[b] # "deleted"
                           /\ UNCHANGED <<database, runtime, bounds, birth>>
    BY <1>4 DEF RequestBringUp, RequestOpen, RequestOvertaker, Reap, RequestRepair, Overtake,
                Kinds, BringUps, Overtakers
  <2> QED
    BY <1>1, <2>1, EnqueueDeletes
<1>5. ASSUME NEW b \in Box, RuntimeFails(b) PROVE DeleteInv'
  <2>1. \A c \in Box \ {b} : Same(c)
    BY <1>1, <1>5 DEF RuntimeFails, Same, Answer, database, TypeOK
  <2>2. faults' > 0 /\ faults' = faults + 1 /\ UNCHANGED <<status, queue, crashes>>
    BY <1>1, <1>5, BoundsAssumption DEF RuntimeFails, database, TypeOK
  <2>3. RepairsComeFirst(b)' /\ TeardownHeld(b)'
    BY <2>2 DEF DeleteInv, RepairsComeFirst, Running, TeardownHeld
  <2> QED
    BY <1>1, <2>1, <2>2, <2>3, OneDelete
<1>6. CASE Crash
  <2>1. crashes' > 0 /\ \A b \in Box : queue'[b] = <<>>
    BY <1>1, <1>6, BoundsAssumption DEF Crash, TypeOK
  <2>2. \A b \in Box : Len(queue'[b]) = 0
    BY <2>1
  <2> QED
    BY <2>1, <2>2 DEF DeleteInv, RepairsComeFirst, Running, TeardownHeld
<1>7. CASE Boot
  <2>1. UNCHANGED <<queue, step, ans, threads, container, storage, birth, faults, crashes>>
    BY <1>7 DEF Boot, runtime, running, bounds
  <2>2. \A b \in Box : status'[b] = "deleted" <=> status[b] = "deleted"
    BY <1>1, <1>7 DEF Boot, Adopted, Visible, TypeOK
  <2> QED
    BY <2>1, <2>2 DEF DeleteInv, RepairsComeFirst, Running, TeardownHeld, TeardownAhead, TeardownDone,
       Answered
<1>8. CASE UNCHANGED vars
  BY <1>8 DEF vars, DeleteInv, RepairsComeFirst, Running, TeardownHeld, TeardownAhead, TeardownDone,
     Answered
<1> QED
  BY <1>1, <1>2, <1>3, <1>4, <1>5, <1>6, <1>7, <1>8, BeginDeletes, RuntimeActsDeletes, ContinueDeletes,
     EnvironmentDeletes DEF Next

\* A fresh orchestrator has nothing to tear down.
LEMMA DeleteBegins ==
  ASSUME Init PROVE DeleteInv
<1>1. \A b \in Box : queue[b] = <<>> /\ status[b] = "none"
  BY DEF Init
<1>2. ASSUME NEW b \in Box PROVE RepairsComeFirst(b) /\ TeardownHeld(b)
  <2>1. \A i \in 1..Len(queue[b]) : FALSE
    BY <1>1
  <2> QED
    BY <1>1, <2>1 DEF RepairsComeFirst, TeardownHeld, Running
<1> QED
  BY <1>2 DEF DeleteInv

\* A deleted box leaves no container, no storage and no thread row once its chain is empty
\* and its create is over, in whatever order the delete, the create, the bring-ups and the
\* late reports came, as long as no runtime call failed and no crash came in between
\* (removeHeld, create of boxes.ts).
THEOREM DeletesLeaveNothing == Spec => []DeleteLeavesNothing
<1>1. Init => DeleteInv
  BY DeleteBegins
<1>2. IInv /\ DeleteInv => DeleteLeavesNothing
  <2> SUFFICES ASSUME IInv, DeleteInv, NEW b \in Box, status[b] = "deleted", queue[b] = <<>>,
                      birth[b] = "done", faults = 0, crashes = 0
               PROVE  container[b] = "absent" /\ ~storage[b] /\ ~threads[b]
    BY DEF DeleteLeavesNothing
  <2>1. step[b] = "queued" /\ TeardownDone(b)
    BY DEF IInv, BoxInv, LegalStep, DeleteInv, TeardownHeld, TeardownAhead, Running
  <2> QED
    BY <2>1 DEF TeardownDone, Answered
<1>3. Spec => []IInv
  BY InductiveInvariant
<1> QED
  BY <1>1, <1>2, <1>3, DeleteStep, PTL DEF Spec

(***************************************************************************)
(* BoxLifecycle implements BoxPromise, for every set of boxes and every    *)
(* bound.  The proof takes the steps apart by what they change: the row,   *)
(* the container, the setup and the ready mark.                            *)
(***************************************************************************)

(***************************************************************************)
(* A box without a row is idle.                                            *)
(***************************************************************************)

Idle(b) == status[b] = "none" => queue[b] = <<>> /\ adapter[b] = "off" /\ birth[b] = "unborn"

NoRowIsIdle == \A b \in Box : Idle(b)

\* A step that is about one box, which has a row and keeps it.
LEMMA IdleOneBox ==
  ASSUME NEW b \in Box, TypeOK, NoRowIsIdle,
         \A c \in Box \ {b} : /\ status'[c] = status[c] /\ queue'[c] = queue[c]
                              /\ adapter'[c] = adapter[c] /\ birth'[c] = birth[c],
         status'[b] # "none"
  PROVE  NoRowIsIdle'
  BY DEF NoRowIsIdle, Idle

\* The requests.
LEMMA IdleRequest ==
  ASSUME NEW b \in Box, TypeOK, NoRowIsIdle,
         \/ RequestCreate(b) \/ QueueCreate(b)
         \/ \E k \in {"start", "exec"} : RequestBringUp(b, k)
         \/ RequestOpen(b)
         \/ \E k \in Overtakers : RequestOvertaker(b, k)
         \/ Reap(b) \/ RequestRepair(b)
  PROVE  NoRowIsIdle'
<1> USE DEF database, running, Idle, NoRowIsIdle, TypeOK, Enqueue, Overtake
<1>1. CASE RequestCreate(b)
  BY <1>1 DEF RequestCreate
<1>2. CASE QueueCreate(b)
  BY <1>2 DEF QueueCreate
<1>3. ASSUME NEW k \in {"start", "exec"}, RequestBringUp(b, k) PROVE NoRowIsIdle'
  BY <1>3 DEF RequestBringUp, Visible
<1>4. CASE RequestOpen(b)
  BY <1>4 DEF RequestOpen, Visible
<1>5. ASSUME NEW k \in Overtakers, RequestOvertaker(b, k) PROVE NoRowIsIdle'
  BY <1>5 DEF RequestOvertaker, Visible
<1>6. CASE Reap(b) \/ RequestRepair(b)
  BY <1>6 DEF Reap, RequestRepair
<1> QED
  BY <1>1, <1>2, <1>3, <1>4, <1>5, <1>6

\* The steps of an operation: its chain is not empty, so its box has a row.
LEMMA IdleOperation ==
  ASSUME NEW b \in Box, TypeOK, NoRowIsIdle, Begin(b) \/ Continue(b)
  PROVE  NoRowIsIdle'
<1> USE DEF database, running, TypeOK
<1>1. queue[b] # <<>>
  BY DEF Begin, Continue, BringUpContinues, CreateContinues, StopContinues, RemoveContinues,
     RepairContinues, RunsBringUp, Running
<1>2. status[b] # "none"
  BY <1>1 DEF NoRowIsIdle, Idle
<1>3. ASSUME Leave(b) \/ \E s \in Steps : Await(b, s)
      PROVE  \A c \in Box \ {b} : queue'[c] = queue[c]
  BY <1>3 DEF Leave, Await
<1>4. {"storage", "make", "state", "remove", "ensure", "start", "setup", "clear", "stop"} \subseteq Steps
  BY DEF Steps
<1>5. status' = status \/ \E s \in Statuses \ {"none"} : SetStatus(b, s)
  <2>1. {"error", "running", "stopped", "deleted"} \subseteq Statuses \ {"none"}
    BY DEF Statuses
  <2>2. CASE Begin(b)
    BY <2>1, <2>2 DEF Begin, BringUpBegins, CreateBegins, StopBegins, RemoveBegins, RepairBegins
  <2>3. CASE BringUpContinues(b)
    BY <2>1, <2>3 DEF BringUpContinues, AfterStorage, AfterEnsure, AfterState, AfterStart,
       AfterSetup, GoReady, Succeeds
  <2>4. CASE CreateContinues(b) \/ StopContinues(b) \/ RemoveContinues(b) \/ RepairContinues(b)
    BY <2>1, <2>4 DEF CreateContinues, StopContinues, RemoveContinues, RepairContinues
  <2> QED
    BY <2>2, <2>3, <2>4 DEF Continue
<1>6. \A c \in Box \ {b} : status'[c] = status[c]
  BY <1>5 DEF SetStatus
<1>7. status'[b] # "none"
  BY <1>2, <1>5 DEF SetStatus
<1>8. \A c \in Box \ {b} : queue'[c] = queue[c] /\ adapter'[c] = adapter[c] /\ birth'[c] = birth[c]
  <2>1. CASE Begin(b)
    BY <1>3, <1>4, <2>1 DEF Begin, BringUpBegins, CreateBegins, StopBegins, RemoveBegins, RepairBegins
  <2>2. CASE BringUpContinues(b)
    BY <1>3, <1>4, <2>2 DEF BringUpContinues, AfterStorage, AfterEnsure, AfterState, AfterStart,
       AfterSetup, GoReady, Succeeds, Throws
  <2>3. CASE CreateContinues(b)
    BY <1>3, <1>4, <2>3 DEF CreateContinues, CreateFails
  <2>4. CASE StopContinues(b) \/ RemoveContinues(b) \/ RepairContinues(b)
    BY <1>3, <1>4, <2>4 DEF StopContinues, RemoveContinues, RepairContinues
  <2> QED
    BY <2>1, <2>2, <2>3, <2>4 DEF Continue
<1> QED
  BY <1>2, <1>6, <1>7, <1>8, IdleOneBox

\* Every step keeps it.
LEMMA IdleNext == TypeOK /\ NoRowIsIdle /\ [Next]_vars => NoRowIsIdle'
<1> SUFFICES ASSUME TypeOK, NoRowIsIdle, [Next]_vars PROVE NoRowIsIdle'
  OBVIOUS
<1> USE DEF database, runtime, running, bounds
<1>1. CASE UNCHANGED vars
  BY <1>1 DEF vars, NoRowIsIdle, Idle
<1>2. ASSUME NEW b \in Box,
             RuntimeActs(b) \/ RuntimeFails(b) \/ Sweep(b) \/ Exits(b) \/ LosesStorage(b)
      PROVE  NoRowIsIdle'
  BY <1>2 DEF RuntimeActs, RuntimeFails, Sweep, Exits, LosesStorage, NoRowIsIdle, Idle
<1>3. ASSUME NEW b \in Box, Unwind(b) PROVE NoRowIsIdle'
  BY <1>3 DEF Unwind, UnwindRemove, UnwindStorage, UnwindStatus, NoRowIsIdle, Idle, TypeOK, SetStatus
<1>4. ASSUME NEW b \in Box, AdapterReports(b) PROVE NoRowIsIdle'
  BY <1>4 DEF AdapterReports, NoRowIsIdle, Idle, TypeOK, SetStatus
<1>5. CASE Crash
  BY <1>5 DEF Crash, NoRowIsIdle, Idle
<1>6. CASE Boot
  BY <1>6 DEF Boot, Adopted, Visible, NoRowIsIdle, Idle
<1> QED
  BY <1>1, <1>2, <1>3, <1>4, <1>5, <1>6, IdleRequest, IdleOperation DEF Next

\* What the refinement rests on, in one invariant.
LEMMA PromiseInvariant == Spec => [](IInv /\ NoRowIsIdle)
<1>1. Init => NoRowIsIdle
  BY DEF Init, NoRowIsIdle, Idle
<1>2. IInv /\ NoRowIsIdle /\ [Next]_vars => NoRowIsIdle'
  BY IdleNext DEF IInv
<1> QED
  BY <1>1, <1>2, InductiveInvariant, PTL DEF Spec

(***************************************************************************)
(* Each step keeps the promise.                                            *)
(***************************************************************************)

\* The only step for a box without a row is its insert.
LEMMA InsertStep ==
  ASSUME IInv, NoRowIsIdle, [Next]_vars, NEW b \in Box, status[b] = "none"
  PROVE  status'[b] \in {"none", "creating"}
<1> USE DEF database, runtime, running, bounds
<1>1. TypeOK /\ queue[b] = <<>> /\ adapter[b] = "off" /\ birth[b] = "unborn"
  BY DEF IInv, NoRowIsIdle, Idle
<1>2. ASSUME NEW c \in Box, RequestCreate(c) PROVE status'[b] \in {"none", "creating"}
  BY <1>1, <1>2 DEF RequestCreate, TypeOK
<1>3. ASSUME NEW c \in Box, Begin(c) \/ Continue(c) PROVE status'[b] = "none"
  <2>1. queue[c] # <<>>
    BY <1>3 DEF Begin, Continue, BringUpContinues, CreateContinues, StopContinues,
       RemoveContinues, RepairContinues, RunsBringUp, Running
  <2>2. c # b
    BY <1>1, <2>1
  <2>3. status' = status \/ \E s \in Statuses : SetStatus(c, s)
    <3>1. {"error", "running", "stopped", "deleted"} \subseteq Statuses
      BY DEF Statuses
    <3>2. CASE Begin(c)
      BY <3>1, <3>2 DEF Begin, BringUpBegins, CreateBegins, StopBegins, RemoveBegins, RepairBegins
    <3>3. CASE BringUpContinues(c)
      BY <3>1, <3>3 DEF BringUpContinues, AfterStorage, AfterEnsure, AfterState, AfterStart,
         AfterSetup, GoReady, Succeeds
    <3>4. CASE CreateContinues(c) \/ StopContinues(c) \/ RemoveContinues(c) \/ RepairContinues(c)
      BY <3>1, <3>4 DEF CreateContinues, StopContinues, RemoveContinues, RepairContinues
    <3> QED
      BY <1>3, <3>2, <3>3, <3>4 DEF Continue
  <2> QED
    BY <1>1, <2>2, <2>3 DEF SetStatus, TypeOK
<1>4. ASSUME NEW c \in Box, Unwind(c) \/ AdapterReports(c) PROVE status'[b] = "none"
  BY <1>1, <1>4 DEF Unwind, UnwindRemove, UnwindStorage, UnwindStatus, AdapterReports, SetStatus,
     TypeOK
<1>5. CASE Boot
  BY <1>5 DEF Boot, Adopted, Visible
<1>6. ASSUME NEW c \in Box,
             \/ QueueCreate(c)
             \/ \E k \in {"start", "exec"} : RequestBringUp(c, k)
             \/ RequestOpen(c)
             \/ \E k \in Overtakers : RequestOvertaker(c, k)
             \/ Reap(c) \/ RequestRepair(c)
             \/ RuntimeActs(c) \/ RuntimeFails(c)
             \/ Sweep(c) \/ Exits(c) \/ LosesStorage(c)
      PROVE  status' = status
  BY <1>6 DEF QueueCreate, RequestBringUp, RequestOpen, RequestOvertaker, Overtake, Reap,
     RequestRepair, RuntimeActs, RuntimeFails, Sweep, Exits, LosesStorage
<1>7. CASE Crash \/ UNCHANGED vars
  BY <1>7 DEF Crash, vars
<1> QED
  BY <1>2, <1>3, <1>4, <1>5, <1>6, <1>7 DEF Next

\* No step takes a row away.
LEMMA RowStays ==
  ASSUME TypeOK, NoRowIsIdle, [Next]_vars, NEW b \in Box, status[b] # "none"
  PROVE  status'[b] # "none"
<1> USE DEF database, runtime, running, bounds
<1>1. ASSUME NEW c \in Box, NEW s \in Statuses \ {"none"}, SetStatus(c, s)
      PROVE  status'[b] # "none"
  BY <1>1 DEF SetStatus, TypeOK
<1>2. {"error", "running", "stopped", "deleted", "creating"} \subseteq Statuses \ {"none"}
  BY DEF Statuses
<1>3. ASSUME NEW c \in Box, RequestCreate(c) PROVE status'[b] # "none"
  BY <1>3 DEF RequestCreate, TypeOK
<1>4. ASSUME NEW c \in Box, Begin(c) PROVE status'[b] # "none"
  BY <1>1, <1>2, <1>4 DEF Begin, BringUpBegins, CreateBegins, StopBegins, RemoveBegins, RepairBegins
<1>5. ASSUME NEW c \in Box, BringUpContinues(c) PROVE status'[b] # "none"
  BY <1>1, <1>2, <1>5 DEF BringUpContinues, AfterStorage, AfterEnsure, AfterState, AfterStart,
     AfterSetup, GoReady, Succeeds
<1>6. ASSUME NEW c \in Box,
             CreateContinues(c) \/ StopContinues(c) \/ RemoveContinues(c) \/ RepairContinues(c)
      PROVE  status'[b] # "none"
  BY <1>1, <1>2, <1>6 DEF CreateContinues, StopContinues, RemoveContinues, RepairContinues
<1>7. ASSUME NEW c \in Box, Unwind(c) \/ AdapterReports(c) PROVE status'[b] # "none"
  BY <1>1, <1>2, <1>7 DEF Unwind, UnwindRemove, UnwindStorage, UnwindStatus, AdapterReports
<1>8. CASE Boot
  BY <1>8 DEF Boot, Adopted, Visible
<1>9. ASSUME NEW c \in Box,
             \/ QueueCreate(c)
             \/ \E k \in {"start", "exec"} : RequestBringUp(c, k)
             \/ RequestOpen(c)
             \/ \E k \in Overtakers : RequestOvertaker(c, k)
             \/ Reap(c) \/ RequestRepair(c)
             \/ RuntimeActs(c) \/ RuntimeFails(c)
             \/ Sweep(c) \/ Exits(c) \/ LosesStorage(c)
      PROVE  status' = status
  BY <1>9 DEF QueueCreate, RequestBringUp, RequestOpen, RequestOvertaker, Overtake, Reap,
     RequestRepair, RuntimeActs, RuntimeFails, Sweep, Exits, LosesStorage
<1>10. CASE Crash \/ UNCHANGED vars
  BY <1>10 DEF Crash, vars
<1> QED
  BY <1>3, <1>4, <1>5, <1>6, <1>7, <1>8, <1>9, <1>10 DEF Next, Continue

\* The setup changes with a call of the runtime: a start undoes it, and it is made in
\* a container that runs.
LEMMA SetupStep ==
  ASSUME TypeOK, [Next]_vars, NEW b \in Box, setup'[b] # setup[b]
  PROVE  \/ container[b] # "running" /\ container'[b] = "running" /\ ~setup'[b]
         \/ container[b] = "running" /\ setup'[b] /\ container' = container
<1> USE DEF database, runtime, running, bounds
<1>1. ASSUME NEW c \in Box, RuntimeActs(c)
      PROVE  \/ container[b] # "running" /\ container'[b] = "running" /\ ~setup'[b]
             \/ container[b] = "running" /\ setup'[b] /\ container' = container
  <2>1. \/ /\ container[c] = "stopped"
           /\ container' = [container EXCEPT ![c] = "running"]
           /\ setup' = [setup EXCEPT ![c] = FALSE]
        \/ /\ container[c] = "running" /\ container' = container
           /\ setup' = [setup EXCEPT ![c] = TRUE]
    BY <1>1 DEF RuntimeActs, CallTakesEffect
  <2>2. c = b
    BY <2>1 DEF TypeOK
  <2>3. CASE container[c] = "stopped"
    BY <2>1, <2>2, <2>3 DEF TypeOK
  <2>4. CASE container[c] = "running" /\ container' = container
    <3>1. setup' = [setup EXCEPT ![b] = TRUE]
      BY <2>1, <2>2, <2>4
    <3>2. setup'[b]
      BY <3>1 DEF TypeOK
    <3> QED
      BY <2>2, <2>4, <3>2
  <2> QED
    BY <2>1, <2>3, <2>4
<1>2. ASSUME NEW c \in Box,
             \/ RequestCreate(c) \/ QueueCreate(c)
             \/ \E k \in {"start", "exec"} : RequestBringUp(c, k)
             \/ RequestOpen(c)
             \/ \E k \in Overtakers : RequestOvertaker(c, k)
             \/ Reap(c) \/ RequestRepair(c)
      PROVE  FALSE
  BY <1>2 DEF RequestCreate, QueueCreate, RequestBringUp, RequestOpen, RequestOvertaker, Overtake,
     Reap, RequestRepair
<1>3. ASSUME NEW c \in Box, Begin(c) \/ Continue(c) PROVE FALSE
  BY <1>3 DEF Begin, Continue, BringUpContinues, CreateContinues, StopContinues, RemoveContinues,
     RepairContinues
<1>4. ASSUME NEW c \in Box,
             RuntimeFails(c) \/ Unwind(c) \/ AdapterReports(c) \/ Sweep(c) \/ Exits(c) \/ LosesStorage(c)
      PROVE  FALSE
  BY <1>4 DEF RuntimeFails, Unwind, UnwindRemove, UnwindStorage, UnwindStatus, AdapterReports, Sweep,
     Exits, LosesStorage
<1>5. CASE Crash \/ Boot \/ UNCHANGED vars
  BY <1>5 DEF Crash, Boot, vars
<1> QED
  BY <1>1, <1>2, <1>3, <1>4, <1>5 DEF Next

\* A container starts in a call of the runtime for a box with a row, without the mark.
LEMMA SwitchOnStep ==
  ASSUME IInv, NoRowIsIdle, [Next]_vars, NEW b \in Box,
         container[b] # "running", container'[b] = "running"
  PROVE  /\ status' = status /\ status[b] \notin {"none", "deleted"}
         /\ ~ready[b] /\ ~ready'[b] /\ ~setup'[b]
<1>1. TypeOK /\ BoxInv(b)
  BY DEF IInv
<1>2. RuntimeActs(b) /\ step[b] = "start" /\ UNCHANGED status
  BY <1>1, ContainerStarts
<1>3. queue[b] # <<>>
  BY <1>1, <1>2 DEF BoxInv, LegalStep
<1>4. status[b] # "none"
  BY <1>3 DEF NoRowIsIdle, Idle
<1>5. status[b] # "deleted"
  BY TombstoneStep
<1>6. ~ready[b] /\ ~ready'[b]
  BY <1>1, <1>2 DEF BoxInv, ReadyHeld, RuntimeActs, database
<1>7. ~setup'[b]
  <2>1. container'[b] # container[b]
    OBVIOUS
  <2>2. setup' = [setup EXCEPT ![b] = FALSE]
    BY <1>2, <2>1 DEF RuntimeActs, CallTakesEffect, runtime
  <2> QED
    BY <1>1, <2>2 DEF TypeOK
<1>8. status' = status /\ status[b] \notin {"none", "deleted"}
  BY <1>2, <1>4, <1>5
<1> QED
  BY <1>6, <1>7, <1>8

\* The row, as the others see it.
LEMMA RowStep ==
  ASSUME IInv, IInv', NoRowIsIdle, [Next]_vars, NEW b \in Box
  PROVE  \/ RowOf(b)' = RowOf(b)
         \/ RowOf(b) \in {"none", "stopped"} /\ RowOf(b)' = "kept"
         \/ RowOf(b) = "kept" /\ RowOf(b)' = "stopped" /\ container'[b] # "running"
         \/ RowOf(b) \in {"kept", "stopped"} /\ RowOf(b)' = "gone"
<1>1. status[b] \in Statuses /\ status'[b] \in Statuses
  BY DEF IInv, TypeOK
<1>2. status[b] = "none" => status'[b] \in {"none", "creating"}
  BY InsertStep
<1>3. status[b] # "none" => status'[b] # "none"
  BY RowStays DEF IInv
<1>4. status[b] = "deleted" => status'[b] = "deleted"
  BY TombstoneStep
<1>5. status[b] # "stopped" /\ status'[b] = "stopped" => container'[b] # "running"
  BY StoppedStep
<1>6. /\ status[b] = "none" => RowOf(b) = "none"
      /\ status[b] = "deleted" => RowOf(b) = "gone"
      /\ status[b] = "stopped" => RowOf(b) = "stopped"
      /\ status[b] \in {"creating", "running", "error"} => RowOf(b) = "kept"
  BY DEF RowOf
<1>7. /\ status'[b] = "none" => RowOf(b)' = "none"
      /\ status'[b] = "deleted" => RowOf(b)' = "gone"
      /\ status'[b] = "stopped" => RowOf(b)' = "stopped"
      /\ status'[b] \in {"creating", "running", "error"} => RowOf(b)' = "kept"
  BY DEF RowOf
<1> QED
  BY <1>1, <1>2, <1>3, <1>4, <1>5, <1>6, <1>7 DEF Statuses

\* Every step of the manager is a step of the promise, or changes nothing of it.
LEMMA PromiseStep ==
  ASSUME IInv, IInv', NoRowIsIdle, [Next]_vars
  PROVE  Promise!PromiseNext
<1> SUFFICES ASSUME NEW b \in Box
             PROVE  Promise!RowMoves(b) /\ (Promise!SwitchesOn(b) \/ Promise!Runs(b))
  BY DEF Promise!PromiseNext
<1>1. Promise!RowMoves(b)
  BY RowStep DEF Promise!RowMoves
<1>2. TypeOK /\ BoxInv(b)'
  BY DEF IInv
<1>3. CASE container[b] # "running" /\ container'[b] = "running"
  <2>1. /\ status' = status /\ status[b] \notin {"none", "deleted"}
        /\ ~ready[b] /\ ~ready'[b] /\ ~setup'[b]
    BY <1>3, SwitchOnStep
  <2>2. RowOf(b) \in {"kept", "stopped"} /\ RowOf(b)' = RowOf(b)
    BY <2>1 DEF RowOf
  <2> QED
    BY <1>1, <1>3, <2>1, <2>2 DEF Promise!SwitchesOn
<1>4. CASE ~(container[b] # "running" /\ container'[b] = "running")
  <2>1. setup'[b] = setup[b] \/ (container[b] = "running" /\ setup'[b])
    BY <1>2, <1>4, SetupStep
  <2>2. ready'[b] /\ container'[b] = "running" => setup'[b]
    BY <1>2 DEF BoxInv, ReadyHeld
  <2> QED
    BY <1>1, <1>4, <2>1, <2>2 DEF Promise!Runs
<1> QED
  BY <1>3, <1>4

\* The manager of the boxes implements BoxPromise: through slots, overtakers, failed
\* calls, crashes and boots, a row moves, a container starts and a ready mark appears
\* only as promised (PromiseKept).
THEOREM BoxKeepsPromise == Spec => PromiseKept
<1>1. ASSUME Init
      PROVE  Promise!PromiseInit
  <2>1. \A b \in Box : RowOf(b) = "none" /\ (container[b] = "running") = FALSE
    BY <1>1 DEF Init, RowOf
  <2>2. setup = [b \in Box |-> FALSE] /\ ready = [b \in Box |-> FALSE]
    BY <1>1 DEF Init
  <2> QED
    BY <2>1, <2>2 DEF Promise!PromiseInit
<1>2. IInv /\ IInv' /\ NoRowIsIdle /\ [Next]_vars => [Promise!PromiseNext]_(Promise!promiseVars)
  BY PromiseStep
<1> QED
  BY <1>1, <1>2, PromiseInvariant, PTL DEF Spec, PromiseKept, Promise!PromiseSpec

====
