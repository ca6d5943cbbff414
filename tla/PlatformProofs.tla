----------------------------- MODULE PlatformProofs -----------------------------
(***************************************************************************)
(* Proofs about four modules of the platform.                              *)
(*                                                                         *)
(* Two orchestrators never work on one directory (Orchestrators), for any  *)
(* number of processes, any age at which a stamp counts as old and any     *)
(* number of starts.  The claim itself says little: what makes it hold is  *)
(* that the holder keeps the file there, that its stamp is never older     *)
(* than its own clock says, and that nobody else gets past the read        *)
(* meanwhile.                                                              *)
(*                                                                         *)
(* Notifications arrive (Notifications), for any number of browsers, users *)
(* and keys; and the file service of a box is safe (FileService), for any  *)
(* number of requests, connections and edits of the agent.                 *)
(*                                                                         *)
(* The owners of a deployment are apart (Owners), for any users, boxes,    *)
(* restarts and requests.  An id is of one row and an owner has one        *)
(* default of each kind; what is named is of the owner who names it, also  *)
(* by a create that waits; and each box has a profile at all times.        *)
(***************************************************************************)
EXTENDS Orchestrators, Notifications, FileService, Owners, FiniteSetTheorems, TLAPS

\* The process has passed the read of the lock file, or made the file.
HoldsLock(p) == life[p] \in {"taking", "claimed", "boot", "ready", "drain"}

\* What a process carries belongs to a stage of its life.
StagesAgree ==
  /\ \A p \in stamping : life[p] \in {"claimed", "boot", "ready", "drain"}
  /\ \A p \in Process : life[p] = "claimed" => p \in stamping
  /\ \A p \in turnRuns \cup waits : life[p] \in {"ready", "drain"}

\* There is one holder, and the file is there for as long as it holds.
OneHolder ==
  /\ \A p, q \in Process : HoldsLock(p) /\ HoldsLock(q) => p = q
  /\ \A p \in Process : HoldsLock(p) => lockThere

\* The stamp of an owner is no older than its clock, which is not old.
StampIsFresh ==
  \A p \in Owners : lag[p] < StaleBeats /\ (p \notin stamping => lockAge <= lag[p])

\* The rows tell of the work of the one owner.
RowsAgree == waits \subseteq asking /\ (turnRuns # {} => flagged) /\ ~cutShort

OrchestratorsInv ==
  /\ OrchestratorsTypeOK
  /\ StagesAgree
  /\ mishaps = {} => OneHolder /\ StampIsFresh /\ RowsAgree

(***************************************************************************)
(* Types and stages.                                                       *)
(***************************************************************************)

LEMMA OrchestratorsInitInv == OrchestratorsInit => OrchestratorsInv
<1> SUFFICES ASSUME OrchestratorsInit PROVE OrchestratorsInv
  OBVIOUS
<1> USE LockAssumption DEF OrchestratorsInit
<1>1. OrchestratorsTypeOK
  <2>1. lockAge \in 0..StaleBeats /\ starts \in 0..MaxStarts
    BY DEF Unreadable
  <2>2. lag \in [Process -> 0..StaleBeats] /\ pollsLeft \in [Process -> 0..DrainPolls]
    OBVIOUS
  <2> QED
    BY <2>1, <2>2 DEF OrchestratorsTypeOK
<1>2. StagesAgree /\ OneHolder /\ StampIsFresh /\ RowsAgree
  BY DEF StagesAgree, OneHolder, StampIsFresh, RowsAgree, HoldsLock, Owners
<1> QED
  BY <1>1, <1>2 DEF OrchestratorsInv

\* The steps of one process, in four groups.
ClaimSteps(p) == Claim(p) \/ ReadsStamp(p) \/ TakesOver(p) \/ StampIsWritten(p) \/ Beat(p)
WorkSteps(p) ==
  \/ TurnStarts(p) \/ TurnFinishes(p) \/ QuestionWaits(p) \/ QuestionIsAnswered(p)
  \/ Signal(p) \/ DrainWaits(p)
EndSteps(p) == BootFails(p) \/ Exits(p) \/ Killed(p)

LEMMA OrchestratorsSteps ==
  OrchestratorsNext <=>
    \/ TimePasses
    \/ \E p \in Process : ClaimSteps(p) \/ BootFinishes(p) \/ WorkSteps(p) \/ EndSteps(p)
  BY DEF OrchestratorsNext, ClaimSteps, WorkSteps, EndSteps

LEMMA TypesStay ==
  ASSUME OrchestratorsTypeOK, [OrchestratorsNext]_orchestratorVars
  PROVE  OrchestratorsTypeOK'
<1> USE DEF OrchestratorsTypeOK, fileVars, rowVars, serviceWorkVars, GoTo, BeginStamp
<1>1. 0 \in 0..StaleBeats /\ Unreadable \in 0..StaleBeats /\ DrainPolls \in 0..DrainPolls
  BY LockAssumption DEF Unreadable
<1>2. CASE UNCHANGED orchestratorVars
  BY <1>2 DEF orchestratorVars
<1>3. CASE TimePasses
  <2>1. lockAge' \in 0..StaleBeats /\ lag' \in [Process -> 0..StaleBeats]
    BY <1>3, LockAssumption DEF TimePasses
  <2> QED
    BY <1>3, <2>1 DEF TimePasses
<1>4. ASSUME NEW p \in Process, ClaimSteps(p) PROVE OrchestratorsTypeOK'
  <2>1. CASE Claim(p)
    <3>1. starts' \in 0..MaxStarts
      BY <2>1, LockAssumption DEF Claim
    <3> QED
      BY <1>1, <2>1, <3>1 DEF Claim
  <2>2. CASE ReadsStamp(p)
    BY <2>2 DEF ReadsStamp
  <2>3. CASE TakesOver(p) \/ Beat(p)
    BY <1>1, <2>3 DEF TakesOver, Beat
  <2>4. CASE StampIsWritten(p)
    BY <1>1, <2>4 DEF StampIsWritten
  <2> QED
    BY <1>4, <2>1, <2>2, <2>3, <2>4 DEF ClaimSteps
<1>5. ASSUME NEW p \in Process, BootFinishes(p) \/ WorkSteps(p) PROVE OrchestratorsTypeOK'
  <2>1. DrainWaits(p) => pollsLeft' \in [Process -> 0..DrainPolls]
    BY LockAssumption DEF DrainWaits
  <2> QED
    BY <1>5, <2>1 DEF BootFinishes, WorkSteps, TurnStarts, TurnFinishes, QuestionWaits,
       QuestionIsAnswered, Signal, DrainWaits
<1>6. ASSUME NEW p \in Process, EndSteps(p) PROVE OrchestratorsTypeOK'
  <2>1. Vanish(p)
    BY <1>6 DEF EndSteps, BootFails, Exits, Killed
  <2>2. /\ life' \in [Process -> {"out", "reading", "taking", "claimed", "boot", "ready", "drain"}]
        /\ lag' \in [Process -> 0..StaleBeats] /\ pollsLeft' \in [Process -> 0..DrainPolls]
    BY <1>1, <2>1 DEF Vanish
  <2>3. stamping' \subseteq Process /\ turnRuns' \subseteq Process /\ waits' \subseteq Process
    BY <2>1 DEF Vanish
  <2>4. /\ lockThere' \in BOOLEAN /\ cutShort' \in BOOLEAN
        /\ UNCHANGED <<lockAge, flagged, asking, starts, mishaps>>
    BY <1>6 DEF EndSteps, BootFails, Exits, Killed
  <2> QED
    BY <2>2, <2>3, <2>4
<1> QED
  BY <1>2, <1>3, <1>4, <1>5, <1>6, OrchestratorsSteps

LEMMA StagesStay ==
  ASSUME OrchestratorsTypeOK, StagesAgree, [OrchestratorsNext]_orchestratorVars
  PROVE  StagesAgree'
<1> USE DEF OrchestratorsTypeOK, StagesAgree, fileVars, rowVars, serviceWorkVars, GoTo, BeginStamp
<1>1. CASE UNCHANGED orchestratorVars
  BY <1>1 DEF orchestratorVars
<1>2. CASE TimePasses
  BY <1>2 DEF TimePasses
<1>3. ASSUME NEW p \in Process, ClaimSteps(p) PROVE StagesAgree'
  <2>1. CASE Claim(p)
    BY <2>1 DEF Claim
  <2>2. CASE ReadsStamp(p)
    BY <2>2 DEF ReadsStamp
  <2>3. CASE TakesOver(p) \/ Beat(p)
    BY <2>3 DEF TakesOver, Beat, Owners
  <2>4. CASE StampIsWritten(p)
    BY <2>4 DEF StampIsWritten
  <2> QED
    BY <1>3, <2>1, <2>2, <2>3, <2>4 DEF ClaimSteps
<1>4. ASSUME NEW p \in Process, BootFinishes(p) \/ WorkSteps(p) PROVE StagesAgree'
  BY <1>4 DEF BootFinishes, WorkSteps, TurnStarts, TurnFinishes, QuestionWaits, QuestionIsAnswered,
     Signal, DrainWaits
<1>5. ASSUME NEW p \in Process, EndSteps(p) PROVE StagesAgree'
  BY <1>5 DEF EndSteps, BootFails, Exits, Killed, Vanish
<1> QED
  BY <1>1, <1>2, <1>3, <1>4, <1>5, OrchestratorsSteps

(***************************************************************************)
(* The claim.                                                              *)
(***************************************************************************)

\* What can break the claim is not forgotten.
LEMMA MishapsStay ==
  ASSUME OrchestratorsTypeOK, [OrchestratorsNext]_orchestratorVars, mishaps' = {}
  PROVE  mishaps = {}
<1> USE DEF fileVars, rowVars, serviceWorkVars
<1>1. mishaps \subseteq mishaps'
  <2>1. CASE UNCHANGED orchestratorVars
    BY <2>1 DEF orchestratorVars
  <2>2. CASE TimePasses
    BY <2>2 DEF TimePasses
  <2>3. ASSUME NEW p \in Process, ClaimSteps(p) PROVE mishaps \subseteq mishaps'
    BY <2>3 DEF ClaimSteps, Claim, ReadsStamp, TakesOver, StampIsWritten, Beat
  <2>4. ASSUME NEW p \in Process, BootFinishes(p) \/ WorkSteps(p) \/ EndSteps(p)
        PROVE  mishaps \subseteq mishaps'
    BY <2>4 DEF BootFinishes, WorkSteps, TurnStarts, TurnFinishes, QuestionWaits,
       QuestionIsAnswered, Signal, DrainWaits, EndSteps, BootFails, Exits, Killed
  <2> QED
    BY <2>1, <2>2, <2>3, <2>4, OrchestratorsSteps
<1> QED
  BY <1>1

\* A process that reads a stamp gets past it only when there is no holder.
LEMMA ReadIsAlone ==
  ASSUME OrchestratorsInv, mishaps = {}, NEW p \in Process, ReadsStamp(p), mishaps' = {},
         life'[p] = "taking"
  PROVE  \A q \in Process : ~HoldsLock(q)
<1> USE LockAssumption DEF OrchestratorsInv, OrchestratorsTypeOK, ReadsStamp, GoTo
<1>1. lockThere /\ stamping = {} /\ \A q \in Process : life[q] # "taking"
  <2>1. mishaps' = mishaps \cup (IF lockThere THEN {} ELSE {"vanished"})
                           \cup (IF lockThere /\ stamping # {} THEN {"gap"} ELSE {})
                           \cup (IF \E q \in Process : life[q] = "taking" THEN {"race"} ELSE {})
    BY DEF ReadsStamp
  <2> QED
    BY <2>1
<1>2. ~(lockAge < StaleBeats)
  BY <1>1
<1>3. Owners = {}
  BY <1>1, <1>2 DEF StampIsFresh, Owners
<1>4. \A q \in Process : life[q] # "claimed"
  BY <1>1 DEF StagesAgree
<1> QED
  BY <1>1, <1>3, <1>4 DEF HoldsLock, Owners

\* The steps on the lock file keep one holder.
LEMMA ClaimKeepsOneHolder ==
  ASSUME OrchestratorsInv, mishaps = {}, NEW p \in Process, ClaimSteps(p), mishaps' = {}
  PROVE  OneHolder'
<1> USE DEF OrchestratorsInv, OrchestratorsTypeOK, OneHolder, HoldsLock, GoTo, BeginStamp, fileVars
<1>1. CASE Claim(p)
  BY <1>1 DEF Claim
<1>2. CASE ReadsStamp(p)
  <2>1. lockThere' = lockThere /\ \A q \in Process \ {p} : life'[q] = life[q]
    BY <1>2 DEF ReadsStamp
  <2>2. CASE life'[p] = "taking"
    <3>1. \A q \in Process : ~HoldsLock(q)
      BY <1>2, <2>2, ReadIsAlone
    <3>2. lockThere
      BY <1>2 DEF ReadsStamp
    <3> QED
      BY <2>1, <3>1, <3>2
  <2>3. CASE life'[p] # "taking"
    <3>1. life'[p] = "out"
      BY <1>2, <2>3 DEF ReadsStamp
    <3> QED
      BY <2>1, <3>1
  <2> QED
    BY <2>2, <2>3
<1>3. CASE TakesOver(p)
  BY <1>3 DEF TakesOver
<1>4. CASE Beat(p)
  BY <1>4 DEF Beat
<1>5. CASE StampIsWritten(p)
  <2>1. HoldsLock(p)
    BY <1>5 DEF StampIsWritten, StagesAgree
  <2> QED
    BY <1>5, <2>1 DEF StampIsWritten
<1> QED
  BY <1>1, <1>2, <1>3, <1>4, <1>5 DEF ClaimSteps

\* A process that leaves takes the file away only from its own claim.
LEMMA OneHolderStays ==
  ASSUME OrchestratorsInv, [OrchestratorsNext]_orchestratorVars, mishaps = {}, mishaps' = {}
  PROVE  OneHolder'
<1> USE DEF OrchestratorsInv, OrchestratorsTypeOK, OneHolder, HoldsLock, GoTo, fileVars
<1>1. CASE TimePasses \/ UNCHANGED orchestratorVars
  BY <1>1 DEF TimePasses, orchestratorVars
<1>2. ASSUME NEW p \in Process, BootFinishes(p) \/ WorkSteps(p) PROVE OneHolder'
  BY <1>2 DEF BootFinishes, WorkSteps, TurnStarts, TurnFinishes, QuestionWaits,
     QuestionIsAnswered, Signal, DrainWaits
<1>3. ASSUME NEW p \in Process, EndSteps(p) PROVE OneHolder'
  <2>1. life' = [life EXCEPT ![p] = "out"]
    BY <1>3 DEF EndSteps, BootFails, Exits, Killed, Vanish
  <2>2. lockThere' = lockThere \/ HoldsLock(p)
    BY <1>3 DEF EndSteps, BootFails, Exits, Killed
  <2> QED
    BY <2>1, <2>2
<1> QED
  BY <1>1, <1>2, <1>3, ClaimKeepsOneHolder, OrchestratorsSteps

\* The stamp of the owner stays fresh: its clock and the stamp grow together, and a
\* clock that gets old is a mishap.
LEMMA StampStaysFresh ==
  ASSUME OrchestratorsInv, OrchestratorsTypeOK', OneHolder',
         [OrchestratorsNext]_orchestratorVars, mishaps = {}, mishaps' = {}
  PROVE  StampIsFresh'
<1> USE DEF OrchestratorsInv, OrchestratorsTypeOK, StampIsFresh, Owners, GoTo
<1>1. CASE UNCHANGED orchestratorVars
  BY <1>1 DEF orchestratorVars, fileVars
<1>2. CASE TimePasses
  <2>1. Owners' = Owners /\ stamping' = stamping
    BY <1>2 DEF TimePasses
  <2>2. \A q \in Owners : lag'[q] # StaleBeats
    BY <1>2, <2>1 DEF TimePasses
  <2>3. ASSUME NEW q \in Owners
        PROVE  lag'[q] < StaleBeats /\ (q \notin stamping => lockAge' <= lag'[q])
    <3>1. lag[q] \in 0..StaleBeats /\ lag'[q] \in 0..StaleBeats /\ lockAge \in 0..StaleBeats
      OBVIOUS
    <3>2. lag'[q] = lag[q] + 1 /\ lockAge' \in {lockAge, lockAge + 1}
      BY <1>2 DEF TimePasses
    <3> QED
      BY <2>2, <3>1, <3>2, LockAssumption
  <2> QED
    BY <2>1, <2>3
<1>3. ASSUME NEW p \in Process, ClaimSteps(p) PROVE StampIsFresh'
  <2>1. CASE Claim(p) \/ ReadsStamp(p) \/ TakesOver(p)
    <3>1. \A q \in Process : life'[q] \in {"boot", "ready", "drain"} => q # p /\ life[q] = life'[q]
      BY <2>1 DEF Claim, ReadsStamp, TakesOver
    <3>2. lag' = lag
      BY <2>1 DEF Claim, ReadsStamp, TakesOver
    <3>3. CASE stamping' = stamping /\ lockAge' = lockAge
      BY <3>1, <3>2, <3>3
    <3>4. CASE life'[p] = "claimed"
      BY <3>1, <3>4 DEF OneHolder, HoldsLock
    <3> QED
      BY <2>1, <3>3, <3>4 DEF Claim, ReadsStamp, TakesOver, fileVars
  <2>2. CASE Beat(p)
    <3>1. life' = life /\ lag' = lag /\ p \in stamping' /\ p \in Owners
      BY <2>2 DEF Beat, BeginStamp
    <3>2. \A q \in Owners : q = p
      BY <3>1 DEF OneHolder, HoldsLock
    <3> QED
      BY <3>1, <3>2
  <2>3. CASE StampIsWritten(p)
    <3>1. lockAge' = 0 /\ lag'[p] = 0 /\ life'[p] \in {"boot", "ready", "drain"}
      BY <2>3 DEF StampIsWritten, StagesAgree
    <3>2. \A q \in Owners' : q = p
      BY <3>1 DEF OneHolder, HoldsLock
    <3> QED
      BY <3>1, <3>2, LockAssumption
  <2> QED
    BY <1>3, <2>1, <2>2, <2>3 DEF ClaimSteps
<1>4. ASSUME NEW p \in Process, BootFinishes(p) \/ WorkSteps(p) PROVE StampIsFresh'
  BY <1>4 DEF BootFinishes, WorkSteps, TurnStarts, TurnFinishes, QuestionWaits,
     QuestionIsAnswered, Signal, DrainWaits, fileVars
<1>5. ASSUME NEW p \in Process, EndSteps(p) PROVE StampIsFresh'
  <2>1. Vanish(p) /\ lockAge' = lockAge
    BY <1>5 DEF EndSteps, BootFails, Exits, Killed, fileVars
  <2>2. \A q \in Owners' : q # p /\ q \in Owners /\ lag'[q] = lag[q]
    BY <2>1 DEF Vanish
  <2> QED
    BY <2>1, <2>2 DEF Vanish
<1> QED
  BY <1>1, <1>2, <1>3, <1>4, <1>5, OrchestratorsSteps

(***************************************************************************)
(* The rows.                                                               *)
(***************************************************************************)

\* The owner is alone with the rows: what its boot clears is nobody's, the end of its
\* turn is the end of the only one, and its drain sees every turn.
LEMMA RowsStay ==
  ASSUME OrchestratorsInv, [OrchestratorsNext]_orchestratorVars, mishaps = {}, mishaps' = {}
  PROVE  RowsAgree'
<1> USE DEF OrchestratorsInv, OrchestratorsTypeOK, RowsAgree, GoTo
<1>1. \A p \in Process : HoldsLock(p) => turnRuns \subseteq {p} /\ waits \subseteq {p}
  BY DEF OneHolder, HoldsLock, StagesAgree
<1>2. CASE TimePasses \/ UNCHANGED orchestratorVars
  BY <1>2 DEF TimePasses, orchestratorVars, rowVars, serviceWorkVars
<1>3. ASSUME NEW p \in Process, ClaimSteps(p) PROVE RowsAgree'
  BY <1>3 DEF ClaimSteps, Claim, ReadsStamp, TakesOver, StampIsWritten, Beat, rowVars, serviceWorkVars
<1>4. ASSUME NEW p \in Process, BootFinishes(p) PROVE RowsAgree'
  <2>1. turnRuns = {} /\ waits = {}
    BY <1>1, <1>4 DEF BootFinishes, HoldsLock, StagesAgree
  <2> QED
    BY <1>4, <2>1 DEF BootFinishes, serviceWorkVars
<1>5. ASSUME NEW p \in Process, WorkSteps(p) PROVE RowsAgree'
  <2>1. CASE TurnFinishes(p)
    <3>1. turnRuns' = {}
      BY <1>1, <2>1 DEF TurnFinishes, HoldsLock, StagesAgree
    <3> QED
      BY <2>1, <3>1 DEF TurnFinishes
  <2> QED
    BY <1>5, <2>1 DEF WorkSteps, TurnStarts, QuestionWaits, QuestionIsAnswered, Signal, DrainWaits,
       rowVars, serviceWorkVars
<1>6. ASSUME NEW p \in Process, EndSteps(p) PROVE RowsAgree'
  <2>1. Vanish(p) /\ UNCHANGED <<flagged, asking>>
    BY <1>6 DEF EndSteps, BootFails, Exits, Killed, rowVars
  <2>2. ~cutShort'
    <3>1. CASE Exits(p)
      BY <3>1 DEF Exits
    <3> QED
      BY <1>6, <3>1 DEF EndSteps, BootFails, Killed
  <2> QED
    BY <2>1, <2>2 DEF Vanish
<1> QED
  BY <1>2, <1>3, <1>4, <1>5, <1>6, OrchestratorsSteps

(***************************************************************************)
(* The theorems.                                                           *)
(***************************************************************************)

\* The invariant of the claim: as long as nothing on the list of mishaps happens, one
\* process holds the directory, the lock file is there with a fresh stamp, and the
\* rows tell of the work of this process alone.
THEOREM OrchestratorsInvariant == OrchestratorsSpec => []OrchestratorsInv
<1>1. OrchestratorsInv /\ [OrchestratorsNext]_orchestratorVars => OrchestratorsInv'
  <2> SUFFICES ASSUME OrchestratorsInv, [OrchestratorsNext]_orchestratorVars
               PROVE  OrchestratorsInv'
    OBVIOUS
  <2>1. OrchestratorsTypeOK' /\ StagesAgree'
    BY TypesStay, StagesStay DEF OrchestratorsInv
  <2>2. ASSUME mishaps' = {} PROVE (OneHolder /\ StampIsFresh /\ RowsAgree)'
    <3>1. mishaps = {}
      BY <2>2, MishapsStay DEF OrchestratorsInv
    <3> QED
      BY <2>1, <2>2, <3>1, OneHolderStays, StampStaysFresh, RowsStay
  <2> QED
    BY <2>1, <2>2 DEF OrchestratorsInv
<1> QED
  BY <1>1, OrchestratorsInitInv, PTL DEF OrchestratorsSpec

\* Two orchestrators never work on one directory, no boot takes the rows of another
\* one from under it, and no shutdown overlooks a turn, unless a process was held up
\* until its stamp was old or the lock file was read in one of its three gaps.
THEOREM OneOrchestrator == OrchestratorsSpec => []OrchestratorIsAlone
<1>1. OrchestratorsInv => OrchestratorIsAlone
  <2> SUFFICES ASSUME OrchestratorsInv, mishaps = {} PROVE Cardinality(Owners) <= 1
    BY DEF OrchestratorsInv, OrchestratorIsAlone, RowsAgree
  <2>1. Owners = {} \/ \E p \in Owners : Owners = {p}
    BY DEF OrchestratorsInv, OneHolder, HoldsLock, Owners
  <2>2. CASE Owners = {}
    BY <2>2, FS_EmptySet
  <2>3. ASSUME NEW p \in Owners, Owners = {p} PROVE Cardinality(Owners) <= 1
    <3>1. Cardinality(Owners) = 1
      BY <2>3, FS_Singleton, Zenon
    <3> QED
      BY <3>1
  <2> QED
    BY <2>1, <2>2, <2>3
<1> QED
  BY <1>1, OrchestratorsInvariant, PTL(***************************************************************************)
(* Notifications.  What a page shows is the end of a chain of calls, so    *)
(* the invariant says what each task of a browser works on: an endpoint    *)
(* belongs to one browser, a task that nothing disturbs works on the       *)
(* subscription that the browser holds and with the key of now, and the    *)
(* rows of a notification are those of now.                                *)
(***************************************************************************)

TaskRecord == [step : {"idle", "look", "key", "fit", "post", "subscribe", "delete", "drop"},
               kind : {"none", "refresh", "on", "off"},
               at : Endpoint \cup {0}, key : 0..MaxVapid]

RoundRecord == [rows : SUBSET Endpoint, open : SUBSET Endpoint, reached : SUBSET Endpoint, faulty : BOOLEAN]

RecordTypes ==
  /\ task \in [Device -> [TaskName -> TaskRecord]]
  /\ round \in RoundRecord
  /\ crossed \subseteq Endpoint
  /\ upset \in [Device -> BOOLEAN]
  /\ person \in [Device -> Person]

\* A task is idle, or where its kind can be; an endpoint that it holds was made, it posts
\* and drops the endpoint that it holds, and it subscribes with a key that it has read.
TaskIsRight(t, k) ==
  /\ t.kind = "none" => t = NoTask
  /\ t.step = "idle" => t.kind = "none"
  /\ t.kind = "refresh" => k = "refresh" /\ t.step # "fit"
  /\ t.kind = "on" => k \in {"switch", "worker"} /\ t.step # "delete"
  /\ t.kind = "off" => k = "switch" /\ t.step \in {"look", "delete", "drop"}
  /\ t.at # 0 => made[t.at] # 0
  /\ t.step \in {"post", "delete", "drop"} => t.at # 0
  /\ t.step \in {"fit", "subscribe"} => t.key # 0
  /\ t.kind = "refresh" /\ t.step \in {"delete", "drop"} => t.key # 0
  /\ t.kind = "on" /\ t.step \in {"look", "drop"} => t.key # 0

TasksAreRight == \A d \in Device : \A k \in TaskName : TaskIsRight(task[d][k], k)

\* What a browser holds and what its tasks work on.
EndpointsOf(d) == ({held[d]} \cup {task[d][k].at : k \in TaskName}) \ {0}

\* An endpoint belongs to one browser, and one that a browser holds is served.
EndpointsAreApart ==
  /\ \A d \in Device : \A e \in EndpointsOf(d) : e \in Endpoint /\ made[e] # 0
  /\ \A d \in Device : \A f \in Device \ {d} : EndpointsOf(d) \cap EndpointsOf(f) = {}
  /\ \A d \in Device : held[d] # 0 => held[d] \in alive

\* A row is there for an endpoint that was made, once the deployment has a key.
RowsAreMade ==
  /\ \A e \in DOMAIN subscribers : made[e] # 0
  /\ vapid = 0 => DOMAIN subscribers = {}

\* The rows of a notification that are there still are reached, or are going to be, with
\* the key of now.
RoundFollows ==
  /\ ~round.faulty => round.rows \cap DOMAIN subscribers \subseteq round.reached \cup round.open \cup crossed
  /\ \A e \in round.open \cap DOMAIN subscribers : e \in crossed \/ subscribers[e].key = vapid

\* A browser that nothing disturbs runs one task at most, and never the worker.
OneTask(d) ==
  ~upset[d] => /\ task[d]["worker"] = NoTask
               /\ task[d]["refresh"] = NoTask \/ task[d]["switch"] = NoTask

\* Such a task has read the key of now, works on what the browser holds, and switches a
\* page that says it is subscribed only off.
TaskFollows(d, k) ==
  LET t == task[d][k] IN
  ~upset[d] /\ t # NoTask =>
    /\ says[d] => t.kind = "off"
    /\ t.key # 0 => t.key = vapid
    /\ (t.step = "fit" \/ (t.step = "key" /\ t.kind = "refresh")) => t.at = held[d]
    /\ t.step = "post" => t.at = held[d] /\ made[t.at] = vapid

Served(d) ==
  /\ held[d] \in alive \cap DOMAIN subscribers
  /\ subscribers[held[d]] = [owner |-> person[d], key |-> vapid]
  /\ made[held[d]] = vapid

ShownAt(d) == says[d] /\ ~upset[d] /\ (\A k \in TaskName : task[d][k] = NoTask) => Served(d)

BrowserFollows(d) == OneTask(d) /\ (\A k \in TaskName : TaskFollows(d, k)) /\ ShownAt(d)

NotifyInv ==
  /\ PushTypeOK /\ RecordTypes
  /\ TasksAreRight /\ EndpointsAreApart
  /\ RowsAreMade /\ RowNamesItsKey /\ RoundFollows
  /\ \A d \in Device : BrowserFollows(d)

LEMMA ShownIsShownAt == ShownIsServed <=> \A d \in Device : ShownAt(d)
  BY DEF ShownIsServed, ShownAt, Served

\* One task of a browser becomes t, and no other task changes.
OneMoves(d, k, t) ==
  /\ task' \in [Device -> [TaskName -> TaskRecord]]
  /\ task'[d][k] = t
  /\ \A j \in TaskName \ {k} : task'[d][j] = task[d][j]
  /\ \A f \in Device \ {d} : task'[f] = task[f]

LEMMA TaskMoves ==
  ASSUME RecordTypes, NEW d \in Device, NEW k \in TaskName, NEW t \in TaskRecord,
         task' = [task EXCEPT ![d][k] = t]
  PROVE  OneMoves(d, k, t)
  BY DEF RecordTypes, OneMoves

\* The task goes to another step, and takes an endpoint or a key with it.
LEMMA FieldsMove ==
  ASSUME RecordTypes, NEW d \in Device, NEW k \in TaskName,
         NEW s \in {"idle", "look", "key", "fit", "post", "subscribe", "delete", "drop"},
         NEW a \in Endpoint \cup {0}, NEW v \in 0..MaxVapid,
         \/ /\ task' = [task EXCEPT ![d][k].step = s] /\ a = task[d][k].at /\ v = task[d][k].key
         \/ /\ task' = [task EXCEPT ![d][k].at = a, ![d][k].step = s] /\ v = task[d][k].key
         \/ /\ task' = [task EXCEPT ![d][k].key = v, ![d][k].step = s] /\ a = task[d][k].at
  PROVE  OneMoves(d, k, [step |-> s, kind |-> task[d][k].kind, at |-> a, key |-> v])
<1> DEFINE t == [step |-> s, kind |-> task[d][k].kind, at |-> a, key |-> v]
<1>1. task[d][k] \in TaskRecord /\ t \in TaskRecord
  BY DEF RecordTypes, TaskRecord
<1>2. task' = [task EXCEPT ![d][k] = t]
  BY <1>1 DEF RecordTypes, TaskRecord
<1> HIDE DEF t
<1>3. OneMoves(d, k, t)
  BY <1>1, <1>2, TaskMoves
<1> QED
  BY <1>3 DEF t

\* A step of a browser leaves the other browsers, what was made, and what belongs to
\* the others alone.
Elsewhere(d) ==
  /\ \A f \in Device \ {d} : /\ task'[f] = task[f] /\ held'[f] = held[f] /\ says'[f] = says[f]
                             /\ upset'[f] = upset[f] /\ person'[f] = person[f]
  /\ \A e \in Endpoint : made[e] # 0 => made'[e] = made[e]
  /\ \A e \in alive \ EndpointsOf(d) : e \in alive'
  /\ vapid' = vapid \/ vapid' = Vapid
  /\ \A e \in DOMAIN subscribers \ EndpointsOf(d) :
       e \in DOMAIN subscribers' /\ subscribers'[e] = subscribers[e]

\* The tasks of the other browsers stay right.
LEMMA OthersStayRight ==
  ASSUME NotifyInv, NEW d \in Device, Elsewhere(d), NEW f \in Device \ {d}
  PROVE  /\ \A k \in TaskName : TaskIsRight(task[f][k], k)'
         /\ EndpointsOf(f)' = EndpointsOf(f)
<1>1. task'[f] = task[f] /\ held'[f] = held[f]
  BY DEF Elsewhere
<1>2. ASSUME NEW k \in TaskName PROVE TaskIsRight(task[f][k], k)'
  <2>1. TaskIsRight(task[f][k], k) /\ task[f][k].at \in Endpoint \cup {0}
    BY DEF NotifyInv, TasksAreRight, RecordTypes, TaskRecord
  <2>2. task[f][k].at # 0 => made'[task[f][k].at] # 0
    BY <2>1 DEF Elsewhere, TaskIsRight
  <2> QED
    BY <1>1, <2>1, <2>2 DEF TaskIsRight
<1> QED
  BY <1>1, <1>2 DEF EndpointsOf

\* The other browsers go on as they were.
LEMMA OthersFollow ==
  ASSUME NotifyInv, NEW d \in Device, Elsewhere(d), NEW f \in Device \ {d}
  PROVE  BrowserFollows(f)'
<1>1. BrowserFollows(f)
  BY DEF NotifyInv
<1>2. /\ task'[f] = task[f] /\ held'[f] = held[f] /\ says'[f] = says[f]
      /\ upset'[f] = upset[f] /\ person'[f] = person[f]
  BY DEF Elsewhere
<1>3. vapid # 0 => vapid' = vapid
  BY DEF Elsewhere, Vapid
<1>4. OneTask(f)'
  BY <1>1, <1>2 DEF BrowserFollows, OneTask
<1>5. ASSUME NEW k \in TaskName PROVE TaskFollows(f, k)'
  <2>1. TaskFollows(f, k) /\ TaskIsRight(task[f][k], k) /\ task[f][k].at \in Endpoint \cup {0}
    BY <1>1 DEF BrowserFollows, NotifyInv, TasksAreRight, RecordTypes, TaskRecord
  <2>2. task[f][k].at # 0 => made[task[f][k].at] # 0 /\ made'[task[f][k].at] = made[task[f][k].at]
    BY <2>1 DEF Elsewhere, TaskIsRight
  <2> QED
    BY <1>2, <1>3, <2>1, <2>2 DEF TaskFollows, TaskIsRight
<1>6. ShownAt(f)'
  <2> SUFFICES ASSUME Served(f) PROVE Served(f)'
    BY <1>1, <1>2 DEF BrowserFollows, ShownAt
  <2>1. held[f] \in alive \cap DOMAIN subscribers /\ subscribers[held[f]].key = vapid
    BY DEF Served
  <2>2. held[f] \in Endpoint /\ vapid # 0
    BY <2>1, PushBoundsAssumption DEF NotifyInv, PushTypeOK, RowsAreMade
  <2>3. held[f] # 0
    BY <2>2, PushBoundsAssumption DEF Endpoint
  <2>4. held[f] \notin EndpointsOf(d)
    BY <2>3 DEF NotifyInv, EndpointsAreApart, EndpointsOf
  <2>5. made[held[f]] # 0
    BY <2>2 DEF Served
  <2> QED
    BY <1>2, <1>3, <2>1, <2>2, <2>4, <2>5 DEF Served, Elsewhere
<1> QED
  BY <1>4, <1>5, <1>6 DEF BrowserFollows

\* It is enough to look at the browser of the step, and at the rows.
LEMMA OneBrowser ==
  ASSUME NotifyInv, NEW d \in Device, Elsewhere(d), PushTypeOK', RecordTypes',
         \A k \in TaskName : TaskIsRight(task[d][k], k)',
         \A e \in (EndpointsOf(d))' : e \in EndpointsOf(d) \/ (e \in Endpoint /\ made[e] = 0 /\ made'[e] # 0),
         held'[d] # 0 => held'[d] \in alive',
         RowsAreMade', RowNamesItsKey', RoundFollows',
         BrowserFollows(d)'
  PROVE  NotifyInv'
<1>1. TasksAreRight'
  BY OthersStayRight DEF TasksAreRight
<1>2. EndpointsAreApart'
  <2>1. \A f \in Device \ {d} : EndpointsOf(f)' = EndpointsOf(f)
    BY OthersStayRight
  <2>2. ASSUME NEW f \in Device, NEW e \in (EndpointsOf(f))' PROVE e \in Endpoint /\ made'[e] # 0
    BY <2>1, <2>2 DEF NotifyInv, EndpointsAreApart, Elsewhere
  <2>3. ASSUME NEW f \in Device, NEW g \in Device \ {f}
        PROVE  (EndpointsOf(f))' \cap (EndpointsOf(g))' = {}
    BY <2>1, <2>3 DEF NotifyInv, EndpointsAreApart
  <2>4. ASSUME NEW f \in Device, held'[f] # 0 PROVE held'[f] \in alive'
    <3>1. CASE f = d
      BY <2>4, <3>1
    <3>2. CASE f # d
      <4>1. held'[f] = held[f]
        BY <3>2 DEF Elsewhere
      <4>2. held[f] \in alive /\ held[f] \notin EndpointsOf(d)
        BY <2>4, <3>2, <4>1 DEF NotifyInv, EndpointsAreApart, EndpointsOf
      <4> QED
        BY <4>1, <4>2 DEF Elsewhere
    <3> QED
      BY <3>1, <3>2
  <2> QED
    BY <2>2, <2>3, <2>4 DEF EndpointsAreApart
<1>3. \A f \in Device : BrowserFollows(f)'
  BY OthersFollow
<1> QED
  BY <1>1, <1>2, <1>3 DEF NotifyInv

\* A step that adds no row keeps what the rows are.
LEMMA RowsKeep ==
  ASSUME NotifyInv, UNCHANGED <<round, crossed>>, vapid' = vapid \/ vapid' = Vapid,
         \A e \in Endpoint : made[e] # 0 => made'[e] = made[e],
         \A e \in DOMAIN subscribers' : e \in DOMAIN subscribers /\ subscribers'[e] = subscribers[e]
  PROVE  RowsAreMade' /\ RowNamesItsKey' /\ RoundFollows'
<1>1. \A e \in DOMAIN subscribers : e \in Endpoint /\ made[e] # 0
  BY DEF NotifyInv, PushTypeOK, RowsAreMade
<1>2. vapid = 0 => DOMAIN subscribers = {}
  BY DEF NotifyInv, RowsAreMade
<1>3. vapid # 0 => vapid' = vapid
  BY DEF Vapid
<1>4. RowsAreMade'
  BY <1>1, <1>2, <1>3 DEF RowsAreMade
<1>5. RowNamesItsKey'
  BY <1>1 DEF NotifyInv, RowNamesItsKey
<1>6. RoundFollows'
  BY <1>2, <1>3 DEF NotifyInv, RoundFollows
<1> QED
  BY <1>4, <1>5, <1>6

\* A browser that nothing disturbs is about one task.
LEMMA TheTaskIsAlone ==
  ASSUME NotifyInv, NEW d \in Device, NEW k \in TaskName, task[d][k] # NoTask, ~upset[d]
  PROVE  k # "worker" /\ \A j \in TaskName \ {k} : task[d][j] = NoTask
  BY DEF NotifyInv, BrowserFollows, OneTask, TaskName

\* It is enough to look at the task of the step.
LEMMA OneFollows ==
  ASSUME NEW d \in Device, NEW k \in TaskName,
         ~upset'[d] => /\ k # "worker" \/ task'[d][k] = NoTask
                       /\ \A j \in TaskName \ {k} : task'[d][j] = NoTask,
         TaskFollows(d, k)', ShownAt(d)'
  PROVE  BrowserFollows(d)'
<1>1. OneTask(d)'
  BY DEF OneTask, TaskName
<1>2. \A j \in TaskName : TaskFollows(d, j)'
  BY DEF TaskFollows
<1> QED
  BY <1>1, <1>2 DEF BrowserFollows

\* The task of the step, its record and its place.
LEMMA TheTask ==
  ASSUME NotifyInv, NEW d \in Device, NEW k \in TaskName
  PROVE  /\ task[d][k] \in TaskRecord /\ TaskIsRight(task[d][k], k)
         /\ task[d][k].at # 0 => task[d][k].at \in EndpointsOf(d) /\ made[task[d][k].at] # 0
         /\ held[d] \in Endpoint \cup {0} /\ 0 \notin Endpoint
         /\ held[d] # 0 => held[d] \in EndpointsOf(d) /\ made[held[d]] # 0 /\ held[d] \in alive
         /\ TaskFollows(d, k) /\ ShownAt(d)
         /\ says[d] \in BOOLEAN /\ upset[d] \in BOOLEAN
<1>1. task[d][k] \in TaskRecord
  BY DEF NotifyInv, RecordTypes
<1>2. TaskIsRight(task[d][k], k)
  BY DEF NotifyInv, TasksAreRight
<1>3. task[d][k].at # 0 => task[d][k].at \in EndpointsOf(d) /\ made[task[d][k].at] # 0
  BY <1>2 DEF EndpointsOf, TaskIsRight
<1>4. held[d] \in Endpoint \cup {0} /\ 0 \notin Endpoint
  BY PushBoundsAssumption DEF NotifyInv, PushTypeOK, Endpoint
<1>5. held[d] # 0 => held[d] \in EndpointsOf(d) /\ made[held[d]] # 0 /\ held[d] \in alive
  BY DEF NotifyInv, EndpointsAreApart, EndpointsOf
<1> QED
  BY <1>1, <1>2, <1>3, <1>4, <1>5 DEF NotifyInv, BrowserFollows, PushTypeOK, RecordTypes

LEMMA IdleIsRight ==
  ASSUME NEW k \in TaskName
  PROVE  NoTask \in TaskRecord /\ TaskIsRight(NoTask, k)
<1>1. 0 \in 0..MaxVapid
  BY PushBoundsAssumption
<1> QED
  BY <1>1 DEF NoTask, TaskRecord, TaskIsRight

\* A task begins where it has not begun yet, and alone unless something is disturbed.
LEMMA TaskBeginsMeans ==
  ASSUME NotifyInv, NEW d \in Device, NEW k \in TaskName,
         NEW kind \in {"refresh", "on", "off"}, NEW step \in {"look", "key"},
         TaskBegins(d, k, kind, step)
  PROVE  /\ task[d][k] = NoTask
         /\ OneMoves(d, k, [step |-> step, kind |-> kind, at |-> 0, key |-> 0])
         /\ upset' \in [Device -> BOOLEAN] /\ \A f \in Device \ {d} : upset'[f] = upset[f]
         /\ ~upset'[d] => /\ k # "worker" /\ \A j \in TaskName \ {k} : task'[d][j] = NoTask
                          /\ k # "refresh" => ~upset[d]
<1> DEFINE t == [step |-> step, kind |-> kind, at |-> 0, key |-> 0]
<1>1. t \in TaskRecord
  BY PushBoundsAssumption DEF TaskRecord
<1>2. task[d][k] = NoTask /\ task' = [task EXCEPT ![d][k] = t]
  BY DEF TaskBegins
<1> HIDE DEF t
<1>3. OneMoves(d, k, t)
  BY <1>1, <1>2, TaskMoves DEF NotifyInv
<1>4. /\ upset' \in [Device -> BOOLEAN] /\ \A f \in Device \ {d} : upset'[f] = upset[f]
      /\ upset'[d] = ((k # "refresh" /\ upset[d]) \/ Others(d, k) \/ k = "worker")
  BY DEF TaskBegins, NotifyInv, RecordTypes
<1>5. ~Others(d, k) => \A j \in TaskName \ {k} : task'[d][j] = NoTask
  BY <1>3 DEF Others, OneMoves
<1> QED
  BY <1>2, <1>3, <1>4, <1>5 DEF t

\* The page loads.
LEMMA PageLoadsKeeps ==
  ASSUME NotifyInv, NEW d \in Device, PageLoads(d)
  PROVE  NotifyInv'
<1> DEFINE k == "refresh"
<1> DEFINE t == [step |-> "look", kind |-> "refresh", at |-> 0, key |-> 0]
<1>1. k \in TaskName
  BY DEF TaskName
<1>2. /\ TaskBegins(d, k, "refresh", "look") /\ says' = [says EXCEPT ![d] = FALSE]
      /\ UNCHANGED <<vapid, subscribers, round, rounds, made, alive, person, held, missed, crossed>>
  BY DEF PageLoads, deploymentVars
<1>3. OneMoves(d, k, t) /\ upset' \in [Device -> BOOLEAN] /\ \A f \in Device \ {d} : upset'[f] = upset[f]
  BY <1>1, <1>2, TaskBeginsMeans
<1>4. ~upset'[d] => k # "worker" /\ \A j \in TaskName \ {k} : task'[d][j] = NoTask
  BY <1>1, <1>2, TaskBeginsMeans
<1>5. PushTypeOK' /\ RecordTypes' /\ says'[d] = FALSE
  BY <1>2, <1>3 DEF NotifyInv, PushTypeOK, RecordTypes, OneMoves
<1>6. Elsewhere(d)
  BY <1>2, <1>3, <1>5 DEF NotifyInv, Elsewhere, OneMoves, PushTypeOK
<1>7. \A j \in TaskName : TaskIsRight(task[d][j], j)'
  BY <1>1, <1>2, <1>3, TheTask DEF OneMoves, TaskIsRight, NoTask
<1>8. \A e \in (EndpointsOf(d))' : e \in EndpointsOf(d)
  BY <1>2, <1>3 DEF EndpointsOf, OneMoves
<1>9. held'[d] # 0 => held'[d] \in alive'
  BY <1>1, <1>2, TheTask
<1>10. RowsAreMade' /\ RowNamesItsKey' /\ RoundFollows'
  BY <1>2, RowsKeep
<1>11. TaskFollows(d, k)' /\ ShownAt(d)'
  BY <1>3, <1>5 DEF TaskFollows, ShownAt, OneMoves
<1>12. BrowserFollows(d)'
  BY <1>1, <1>4, <1>11, OneFollows
<1> QED
  BY <1>5, <1>6, <1>7, <1>8, <1>9, <1>10, <1>12, OneBrowser

\* The switch is pressed: off by a page that says it is subscribed, and on by another.
LEMMA SwitchIsPressedKeeps ==
  ASSUME NotifyInv, NEW d \in Device, SwitchIsPressed(d)
  PROVE  NotifyInv'
<1> DEFINE k == "switch"
<1>1. k \in TaskName
  BY DEF TaskName
<1>2. PICK kind \in {"on", "off"}, step \in {"look", "key"} :
        /\ TaskBegins(d, k, kind, step)
        /\ kind = "off" => step = "look" /\ says[d]
        /\ kind = "on" => step = "key" /\ ~says[d]
  BY DEF SwitchIsPressed
<1>3. UNCHANGED <<vapid, subscribers, round, rounds, made, alive, person, held, says, missed, crossed>>
  BY DEF SwitchIsPressed, deploymentVars
<1> DEFINE t == [step |-> step, kind |-> kind, at |-> 0, key |-> 0]
<1>4. OneMoves(d, k, t) /\ upset' \in [Device -> BOOLEAN] /\ \A f \in Device \ {d} : upset'[f] = upset[f]
  BY <1>1, <1>2, TaskBeginsMeans
<1>5. ~upset'[d] => k # "worker" /\ \A j \in TaskName \ {k} : task'[d][j] = NoTask
  BY <1>1, <1>2, TaskBeginsMeans
<1>6. PushTypeOK' /\ RecordTypes'
  BY <1>3, <1>4 DEF NotifyInv, PushTypeOK, RecordTypes, OneMoves
<1>7. Elsewhere(d)
  BY <1>3, <1>4 DEF NotifyInv, Elsewhere, OneMoves, PushTypeOK
<1>8. \A j \in TaskName : TaskIsRight(task[d][j], j)'
  BY <1>1, <1>2, <1>3, <1>4, TheTask DEF OneMoves, TaskIsRight, NoTask
<1>9. \A e \in (EndpointsOf(d))' : e \in EndpointsOf(d)
  BY <1>3, <1>4 DEF EndpointsOf, OneMoves
<1>10. held'[d] # 0 => held'[d] \in alive'
  BY <1>1, <1>3, TheTask
<1>11. RowsAreMade' /\ RowNamesItsKey' /\ RoundFollows'
  BY <1>3, RowsKeep
<1>12. TaskFollows(d, k)' /\ ShownAt(d)'
  BY <1>1, <1>2, <1>3, <1>4 DEF TaskFollows, ShownAt, OneMoves, NoTask
<1>13. BrowserFollows(d)'
  BY <1>1, <1>5, <1>12, OneFollows
<1> QED
  BY <1>6, <1>7, <1>8, <1>9, <1>10, <1>11, <1>13, OneBrowser

\* The subscription expires, which wakes the worker and disturbs the page.
LEMMA SubscriptionExpiresKeeps ==
  ASSUME NotifyInv, NEW d \in Device, SubscriptionExpires(d)
  PROVE  NotifyInv'
<1> DEFINE k == "worker"
<1> DEFINE t == [step |-> "key", kind |-> "on", at |-> 0, key |-> 0]
<1>1. k \in TaskName
  BY DEF TaskName
<1>2. /\ TaskBegins(d, k, "on", "key")
      /\ held[d] # 0 /\ alive' = alive \ {held[d]} /\ held' = [held EXCEPT ![d] = 0]
      /\ UNCHANGED <<vapid, subscribers, round, rounds, made, person, says, crossed>>
  BY DEF SubscriptionExpires, deploymentVars
<1>3. OneMoves(d, k, t) /\ upset' \in [Device -> BOOLEAN] /\ \A f \in Device \ {d} : upset'[f] = upset[f]
  BY <1>1, <1>2, TaskBeginsMeans
<1>4. upset'[d]
  BY <1>1, <1>2, <1>3, TaskBeginsMeans
<1>5. PushTypeOK' /\ RecordTypes' /\ held'[d] = 0 /\ \A f \in Device \ {d} : held'[f] = held[f]
  <2>1. held' \in [Device -> Endpoint \cup {0}]
    BY <1>2 DEF NotifyInv, PushTypeOK
  <2> QED
    BY <1>2, <1>3, <2>1 DEF NotifyInv, PushTypeOK, RecordTypes, OneMoves
<1>6. Elsewhere(d)
  <2>1. held[d] \in EndpointsOf(d)
    BY <1>1, <1>2, TheTask
  <2> QED
    BY <1>2, <1>3, <1>5, <2>1 DEF Elsewhere, OneMoves
<1>7. \A j \in TaskName : TaskIsRight(task[d][j], j)'
  BY <1>1, <1>2, <1>3, TheTask DEF OneMoves, TaskIsRight, NoTask
<1>8. \A e \in (EndpointsOf(d))' : e \in EndpointsOf(d)
  BY <1>3, <1>5 DEF EndpointsOf, OneMoves
<1>9. RowsAreMade' /\ RowNamesItsKey' /\ RoundFollows'
  BY <1>2, RowsKeep
<1>10. BrowserFollows(d)'
  BY <1>4 DEF BrowserFollows, OneTask, TaskFollows, ShownAt
<1> QED
  BY <1>5, <1>6, <1>7, <1>8, <1>9, <1>10, OneBrowser

\* Another user signs in, with a new page.
LEMMA UserChangesKeeps ==
  ASSUME NotifyInv, NEW d \in Device, NEW u \in Person, UserChanges(d, u)
  PROVE  NotifyInv'
<1> DEFINE k == "refresh"
<1> DEFINE t == [step |-> "look", kind |-> "refresh", at |-> 0, key |-> 0]
<1>1. k \in TaskName /\ t \in TaskRecord
  BY PushBoundsAssumption DEF TaskName, TaskRecord
<1>2. /\ \A j \in TaskName : task[d][j] = NoTask
      /\ task' = [task EXCEPT ![d][k] = t] /\ person' = [person EXCEPT ![d] = u]
      /\ says' = [says EXCEPT ![d] = FALSE] /\ upset' = [upset EXCEPT ![d] = FALSE]
      /\ UNCHANGED <<vapid, subscribers, round, rounds, made, alive, held, crossed>>
  BY DEF UserChanges, deploymentVars
<1>3. OneMoves(d, k, t)
  BY <1>1, <1>2, TaskMoves DEF NotifyInv
<1>4. PushTypeOK' /\ RecordTypes' /\ says'[d] = FALSE
  BY <1>2, <1>3 DEF NotifyInv, PushTypeOK, RecordTypes, OneMoves
<1>5. Elsewhere(d)
  BY <1>2, <1>3 DEF NotifyInv, Elsewhere, OneMoves, PushTypeOK, RecordTypes
<1>6. \A j \in TaskName : TaskIsRight(task[d][j], j)'
  BY <1>1, <1>2, <1>3, TheTask DEF OneMoves, TaskIsRight, NoTask
<1>7. \A e \in (EndpointsOf(d))' : e \in EndpointsOf(d)
  BY <1>2, <1>3 DEF EndpointsOf, OneMoves
<1>8. held'[d] # 0 => held'[d] \in alive'
  BY <1>1, <1>2, TheTask
<1>9. RowsAreMade' /\ RowNamesItsKey' /\ RoundFollows'
  BY <1>2, RowsKeep
<1>10. TaskFollows(d, k)' /\ ShownAt(d)'
  BY <1>3, <1>4 DEF TaskFollows, ShownAt, OneMoves
<1>11. BrowserFollows(d)'
  BY <1>1, <1>2, <1>3, <1>10, OneFollows DEF OneMoves
<1> QED
  BY <1>4, <1>5, <1>6, <1>7, <1>8, <1>9, <1>11, OneBrowser

\* A task goes on, or ends: it is enough to look at that task.
LEMMA TaskStepKeeps ==
  ASSUME NotifyInv, NEW d \in Device, NEW k \in TaskName, NEW t \in TaskRecord,
         task[d][k] # NoTask, OneMoves(d, k, t), Elsewhere(d), PushTypeOK', RecordTypes',
         RowsAreMade', RowNamesItsKey', RoundFollows', upset'[d] = upset[d],
         \A e \in {held'[d], t.at} \ {0} :
           e \in EndpointsOf(d) \/ (e \in Endpoint /\ made[e] = 0 /\ made'[e] # 0),
         held'[d] # 0 => held'[d] \in alive',
         TaskIsRight(task[d][k], k)', TaskFollows(d, k)', ShownAt(d)'
  PROVE  NotifyInv'
<1>1. ASSUME NEW j \in TaskName PROVE TaskIsRight(task[d][j], j)'
  <2>1. CASE j = k
    BY <2>1
  <2>2. CASE j # k
    <3>1. task'[d][j] = task[d][j]
      BY <2>2 DEF OneMoves
    <3>2. TaskIsRight(task[d][j], j) /\ task[d][j].at \in Endpoint \cup {0}
      BY TheTask DEF TaskRecord
    <3>3. task[d][j].at # 0 => made'[task[d][j].at] # 0
      BY <3>2 DEF TaskIsRight, Elsewhere
    <3> QED
      BY <3>1, <3>2, <3>3 DEF TaskIsRight
  <2> QED
    BY <2>1, <2>2
<1>2. \A e \in (EndpointsOf(d))' : e \in EndpointsOf(d) \/ (e \in Endpoint /\ made[e] = 0 /\ made'[e] # 0)
  <2>1. \A j \in TaskName : task'[d][j].at = t.at \/ task'[d][j].at = task[d][j].at
    BY DEF OneMoves
  <2> QED
    BY <2>1 DEF EndpointsOf
<1>3. BrowserFollows(d)'
  <2>1. ~upset'[d] => k # "worker" /\ \A j \in TaskName \ {k} : task'[d][j] = NoTask
    BY TheTaskIsAlone DEF OneMoves
  <2> QED
    BY <2>1, OneFollows
<1> QED
  BY <1>1, <1>2, <1>3, OneBrowser

\* Such a step that changes nothing of the subscriptions but what the page says.
LEMMA QuietStepKeeps ==
  ASSUME NotifyInv, NEW d \in Device, NEW k \in TaskName, NEW t \in TaskRecord,
         task[d][k] # NoTask, OneMoves(d, k, t),
         UNCHANGED <<round, made, alive, person, held, crossed, upset>>,
         vapid' = vapid \/ vapid' = Vapid,
         says' \in [Device -> BOOLEAN], \A f \in Device \ {d} : says'[f] = says[f],
         \A e \in DOMAIN subscribers' : e \in DOMAIN subscribers /\ subscribers'[e] = subscribers[e],
         \A e \in DOMAIN subscribers \ EndpointsOf(d) : e \in DOMAIN subscribers',
         t.at # 0 => t.at \in EndpointsOf(d),
         TaskIsRight(task[d][k], k)', TaskFollows(d, k)', ShownAt(d)'
  PROVE  NotifyInv'
<1>1. PushTypeOK'
  <2>1. vapid' \in 0..MaxVapid
    BY PushBoundsAssumption DEF NotifyInv, PushTypeOK, Vapid
  <2> QED
    BY <2>1 DEF NotifyInv, PushTypeOK
<1>2. RecordTypes'
  BY DEF NotifyInv, RecordTypes, OneMoves
<1>3. Elsewhere(d)
  BY DEF Elsewhere, OneMoves
<1>4. RowsAreMade' /\ RowNamesItsKey' /\ RoundFollows'
  BY RowsKeep
<1>5. held[d] # 0 => held[d] \in alive /\ held[d] \in EndpointsOf(d)
  BY TheTask
<1> QED
  BY <1>1, <1>2, <1>3, <1>4, <1>5, TaskStepKeeps

\* A task that fails leaves no page that says it is subscribed, unless it was disturbed.
LEMMA TaskFails ==
  ASSUME NotifyInv, NEW d \in Device, NEW k \in TaskName, task[d][k] # NoTask,
         task[d][k].kind # "off", Fails(d, k)
  PROVE  /\ OneMoves(d, k, NoTask) /\ says' \in [Device -> BOOLEAN]
         /\ \A f \in Device \ {d} : says'[f] = says[f]
         /\ ~upset[d] => ~says'[d]
<1>1. task' = [task EXCEPT ![d][k] = NoTask] /\ (says' = says \/ says' = [says EXCEPT ![d] = FALSE])
  BY DEF Fails, Finishes
<1>2. OneMoves(d, k, NoTask)
  BY <1>1, TaskMoves, IdleIsRight DEF NotifyInv
<1>3. ~upset[d] => ~says[d]
  BY TheTask DEF TaskFollows
<1>4. says' \in [Device -> BOOLEAN] /\ (\A f \in Device \ {d} : says'[f] = says[f]) /\ (~upset[d] => ~says'[d])
  BY <1>1, <1>3 DEF NotifyInv, PushTypeOK
<1> QED
  BY <1>2, <1>4

\* getSubscription.
LEMMA SubscriptionIsReadKeeps ==
  ASSUME NotifyInv, NEW d \in Device, NEW k \in TaskName, SubscriptionIsRead(d, k)
  PROVE  NotifyInv'
<1> DEFINE old == task[d][k]
<1>1. /\ old \in TaskRecord /\ TaskIsRight(old, k) /\ old.step = "look" /\ old # NoTask
      /\ held[d] \in Endpoint \cup {0} /\ TaskFollows(d, k)
      /\ held[d] # 0 => held[d] \in EndpointsOf(d) /\ made[held[d]] # 0
  BY TheTask DEF SubscriptionIsRead, Does, NoTask
<1>2. UNCHANGED <<vapid, subscribers, round, made, alive, person, held, crossed, upset>>
  BY DEF SubscriptionIsRead, deploymentVars
<1>3. CASE held[d] = 0 /\ old.kind # "on"
  <2>1. task' = [task EXCEPT ![d][k] = NoTask] /\ says' = [says EXCEPT ![d] = FALSE]
    BY <1>3 DEF SubscriptionIsRead, Finishes
  <2>2. OneMoves(d, k, NoTask) /\ NoTask \in TaskRecord
    BY <2>1, TaskMoves, IdleIsRight DEF NotifyInv
  <2>3. says' \in [Device -> BOOLEAN] /\ ~says'[d] /\ \A f \in Device \ {d} : says'[f] = says[f]
    BY <2>1 DEF NotifyInv, PushTypeOK
  <2>4. TaskIsRight(task[d][k], k)' /\ TaskFollows(d, k)' /\ ShownAt(d)'
    BY <2>2, <2>3, IdleIsRight DEF TaskFollows, ShownAt, TaskIsRight, NoTask, OneMoves
  <2>5. NoTask.at = 0
    BY DEF NoTask
  <2> QED
    BY <1>1, <1>2, <2>2, <2>3, <2>4, <2>5, QuietStepKeeps
<1>4. CASE ~(held[d] = 0 /\ old.kind # "on")
  <2>1. PICK s \in {"key", "delete", "fit"} :
          /\ old.kind = "refresh" => s = "key"
          /\ old.kind = "off" => s = "delete"
          /\ old.kind = "on" => s = "fit"
          /\ task' = [task EXCEPT ![d][k].at = held[d], ![d][k].step = s] /\ says' = says
    <3>1. old.kind \in {"refresh", "off", "on"}
      BY <1>1 DEF TaskIsRight, TaskRecord
    <3> QED
      BY <1>4, <3>1 DEF SubscriptionIsRead
  <2> DEFINE t == [step |-> s, kind |-> old.kind, at |-> held[d], key |-> old.key]
  <2>2. OneMoves(d, k, t) /\ t \in TaskRecord
    BY <1>1, <2>1, FieldsMove DEF NotifyInv, TaskRecord
  <2>3. TaskIsRight(task[d][k], k)'
    BY <1>1, <1>2, <1>4, <2>1, <2>2 DEF TaskIsRight, OneMoves, TaskRecord, NoTask
  <2>4. TaskFollows(d, k)'
    BY <1>1, <1>2, <1>4, <2>1, <2>2 DEF TaskFollows, OneMoves
  <2>5. ShownAt(d)'
    BY <2>1, <2>2 DEF ShownAt, OneMoves, NoTask
  <2>6. says' \in [Device -> BOOLEAN]
    BY <2>1 DEF NotifyInv, PushTypeOK
  <2> QED
    BY <1>1, <1>2, <2>1, <2>2, <2>3, <2>4, <2>5, <2>6, QuietStepKeeps
<1> QED
  BY <1>3, <1>4

\* The key of the deployment is there once it was asked for.
LEMMA VapidIsThere ==
  ASSUME NotifyInv
  PROVE  Vapid \in 1..MaxVapid /\ (vapid # 0 => Vapid = vapid)
  BY PushBoundsAssumption DEF Vapid, NotifyInv, PushTypeOK

\* GET /api/push/key.
LEMMA KeyIsReadKeeps ==
  ASSUME NotifyInv, NEW d \in Device, NEW k \in TaskName, KeyIsRead(d, k)
  PROVE  NotifyInv'
<1> DEFINE old == task[d][k]
<1>1. /\ old \in TaskRecord /\ TaskIsRight(old, k) /\ old.step = "key" /\ old # NoTask
      /\ held[d] \in Endpoint \cup {0} /\ TaskFollows(d, k)
      /\ old.at # 0 => old.at \in EndpointsOf(d) /\ made[old.at] # 0
  BY TheTask DEF KeyIsRead, Does, NoTask
<1>2. UNCHANGED <<subscribers, round, made, alive, person, held, says, crossed, upset>> /\ vapid' = Vapid
  BY DEF KeyIsRead
<1>3. Vapid \in 1..MaxVapid /\ Vapid \in 0..MaxVapid /\ Vapid # 0
  BY VapidIsThere, PushBoundsAssumption
<1>4. PICK s \in {"post", "subscribe", "delete", "look"} :
        /\ old.kind = "on" => s \in {"subscribe", "look"}
        /\ old.kind = "refresh" => s \in {"post", "subscribe", "delete"}
        /\ s = "post" => old.at # 0 /\ made[old.at] = Vapid
        /\ s = "delete" => old.at # 0
        /\ task' = [task EXCEPT ![d][k].key = Vapid, ![d][k].step = s]
  BY DEF KeyIsRead, AfterLook
<1>5. old.kind \in {"refresh", "on"}
  BY <1>1 DEF TaskIsRight, TaskRecord
<1> DEFINE t == [step |-> s, kind |-> old.kind, at |-> old.at, key |-> Vapid]
<1>6. OneMoves(d, k, t) /\ t \in TaskRecord
  BY <1>1, <1>3, <1>4, FieldsMove DEF NotifyInv, TaskRecord
<1>7. TaskIsRight(task[d][k], k)'
  BY <1>1, <1>2, <1>3, <1>4, <1>5, <1>6 DEF TaskIsRight, OneMoves
<1>8. TaskFollows(d, k)'
  BY <1>1, <1>2, <1>3, <1>4, <1>5, <1>6 DEF TaskFollows, OneMoves, TaskIsRight
<1>9. ShownAt(d)'
  BY <1>4, <1>6 DEF ShownAt, OneMoves, NoTask
<1>10. says' \in [Device -> BOOLEAN]
  BY <1>2 DEF NotifyInv, PushTypeOK
<1> QED
  BY <1>1, <1>2, <1>4, <1>6, <1>7, <1>8, <1>9, <1>10, QuietStepKeeps

\* matchesDeployment.
LEMMA SubscriptionIsMatchedKeeps ==
  ASSUME NotifyInv, NEW d \in Device, NEW k \in TaskName, SubscriptionIsMatched(d, k)
  PROVE  NotifyInv'
<1> DEFINE old == task[d][k]
<1>1. /\ old \in TaskRecord /\ TaskIsRight(old, k) /\ old.step = "fit" /\ old # NoTask
      /\ TaskFollows(d, k)
      /\ old.at # 0 => old.at \in EndpointsOf(d) /\ made[old.at] # 0
  BY TheTask DEF SubscriptionIsMatched, Does, NoTask
<1>2. UNCHANGED <<vapid, subscribers, round, made, alive, person, held, says, crossed, upset>>
  BY DEF SubscriptionIsMatched, deploymentVars
<1>3. old.kind = "on" /\ old.key # 0
  BY <1>1 DEF TaskIsRight, TaskRecord
<1>4. PICK s \in {"post", "subscribe", "drop"} :
        /\ s \in {"post", "drop"} => old.at # 0
        /\ s = "post" => made[old.at] = old.key
        /\ task' = [task EXCEPT ![d][k].step = s]
  BY DEF SubscriptionIsMatched, AfterLook, Moves
<1> DEFINE t == [step |-> s, kind |-> old.kind, at |-> old.at, key |-> old.key]
<1>5. OneMoves(d, k, t) /\ t \in TaskRecord
  BY <1>1, <1>4, FieldsMove DEF NotifyInv, TaskRecord
<1>6. TaskIsRight(task[d][k], k)'
  BY <1>1, <1>2, <1>3, <1>4, <1>5 DEF TaskIsRight, OneMoves
<1>7. TaskFollows(d, k)'
  BY <1>1, <1>2, <1>3, <1>4, <1>5 DEF TaskFollows, OneMoves
<1>8. ShownAt(d)'
  BY <1>4, <1>5 DEF ShownAt, OneMoves, NoTask
<1>9. says' \in [Device -> BOOLEAN]
  BY <1>2 DEF NotifyInv, PushTypeOK
<1> QED
  BY <1>1, <1>2, <1>5, <1>6, <1>7, <1>8, <1>9, QuietStepKeeps

\* DELETE /api/push/subscribe.
LEMMA RowIsDeletedKeeps ==
  ASSUME NotifyInv, NEW d \in Device, NEW k \in TaskName, RowIsDeleted(d, k)
  PROVE  NotifyInv'
<1> DEFINE old == task[d][k]
<1>1. /\ old \in TaskRecord /\ TaskIsRight(old, k) /\ old.step = "delete" /\ old # NoTask
      /\ TaskFollows(d, k)
      /\ old.at # 0 => old.at \in EndpointsOf(d) /\ made[old.at] # 0
  BY TheTask DEF RowIsDeleted, Does, NoTask
<1>2. UNCHANGED <<vapid, round, made, alive, person, held, says, crossed, upset>>
  BY DEF RowIsDeleted
<1>3. old.at # 0 /\ old.kind \in {"refresh", "off"} /\ (old.kind = "refresh" => old.key # 0)
  BY <1>1 DEF TaskIsRight, TaskRecord
<1>4. /\ \A e \in DOMAIN subscribers' : e \in DOMAIN subscribers /\ subscribers'[e] = subscribers[e]
      /\ \A e \in DOMAIN subscribers \ EndpointsOf(d) : e \in DOMAIN subscribers'
  <2>1. subscribers' = subscribers \/ subscribers' = Without({old.at})
    BY DEF RowIsDeleted, OwnDeleted
  <2> QED
    BY <1>1, <1>3, <2>1 DEF Without
<1>5. task' = [task EXCEPT ![d][k].step = "drop"]
  BY DEF RowIsDeleted, Moves
<1> DEFINE t == [step |-> "drop", kind |-> old.kind, at |-> old.at, key |-> old.key]
<1>6. OneMoves(d, k, t) /\ t \in TaskRecord
  BY <1>1, <1>5, FieldsMove DEF NotifyInv, TaskRecord
<1>7. TaskIsRight(task[d][k], k)'
  BY <1>1, <1>2, <1>3, <1>6 DEF TaskIsRight, OneMoves
<1>8. TaskFollows(d, k)'
  BY <1>1, <1>2, <1>3, <1>6 DEF TaskFollows, OneMoves
<1>9. ShownAt(d)'
  BY <1>6 DEF ShownAt, OneMoves, NoTask
<1>10. says' \in [Device -> BOOLEAN]
  BY <1>2 DEF NotifyInv, PushTypeOK
<1> QED
  BY <1>1, <1>2, <1>4, <1>6, <1>7, <1>8, <1>9, <1>10, QuietStepKeeps

\* A call fails before it has done anything.
LEMMA CallFailsKeeps ==
  ASSUME NotifyInv, NEW d \in Device, NEW k \in TaskName, CallFails(d, k)
  PROVE  NotifyInv'
<1> DEFINE old == task[d][k]
<1>1. /\ old \in TaskRecord /\ TaskIsRight(old, k) /\ old # NoTask
      /\ old.step \in {"key", "subscribe", "post"}
  BY TheTask DEF CallFails, NoTask
<1>2. UNCHANGED <<vapid, subscribers, round, made, alive, person, held, crossed, upset>>
  BY DEF CallFails, deploymentVars
<1>3. old.kind # "off" /\ Fails(d, k)
  BY <1>1 DEF TaskIsRight, CallFails
<1>4. /\ OneMoves(d, k, NoTask) /\ says' \in [Device -> BOOLEAN]
      /\ \A f \in Device \ {d} : says'[f] = says[f]
      /\ ~upset[d] => ~says'[d]
  BY <1>1, <1>3, TaskFails
<1>5. TaskIsRight(task[d][k], k)' /\ TaskFollows(d, k)' /\ ShownAt(d)'
  BY <1>2, <1>4, IdleIsRight DEF TaskFollows, ShownAt, TaskIsRight, NoTask, OneMoves
<1>6. NoTask.at = 0 /\ NoTask \in TaskRecord
  BY IdleIsRight DEF NoTask
<1> QED
  BY <1>1, <1>2, <1>4, <1>5, <1>6, QuietStepKeeps

\* PushSubscription.unsubscribe.
LEMMA SubscriptionIsDroppedKeeps ==
  ASSUME NotifyInv, NEW d \in Device, NEW k \in TaskName, SubscriptionIsDropped(d, k)
  PROVE  NotifyInv'
<1> DEFINE old == task[d][k]
<1>1. /\ old \in TaskRecord /\ TaskIsRight(old, k) /\ old.step = "drop" /\ old # NoTask
      /\ TaskFollows(d, k) /\ held[d] \in Endpoint \cup {0} /\ 0 \notin Endpoint
      /\ old.at # 0 => old.at \in EndpointsOf(d) /\ made[old.at] # 0
      /\ held[d] # 0 => held[d] \in EndpointsOf(d) /\ held[d] \in alive
  BY TheTask DEF SubscriptionIsDropped, Does, NoTask
<1>2. UNCHANGED <<vapid, subscribers, round, made, person, crossed, upset>>
  BY DEF SubscriptionIsDropped, deploymentVars
<1>3. old.at # 0 /\ old.kind \in {"refresh", "on", "off"} /\ (old.kind # "off" => old.key # 0)
  BY <1>1 DEF TaskIsRight, TaskRecord
<1>4. /\ alive' = alive \ {old.at}
      /\ held' \in [Device -> Endpoint \cup {0}] /\ \A f \in Device \ {d} : held'[f] = held[f]
      /\ held'[d] = IF held[d] = old.at THEN 0 ELSE held[d]
  BY <1>1 DEF SubscriptionIsDropped, NotifyInv, PushTypeOK
<1>5. RowsAreMade' /\ RowNamesItsKey' /\ RoundFollows'
  BY <1>2, RowsKeep
<1>6. held'[d] # 0 => held'[d] \in alive' /\ held'[d] \in EndpointsOf(d)
  BY <1>1, <1>4
<1>7. CASE old.kind = "off"
  <2>1. task' = [task EXCEPT ![d][k] = NoTask] /\ says' = [says EXCEPT ![d] = FALSE]
    BY <1>7 DEF SubscriptionIsDropped, Finishes
  <2>2. OneMoves(d, k, NoTask) /\ NoTask \in TaskRecord /\ NoTask.at = 0
    BY <2>1, TaskMoves, IdleIsRight DEF NotifyInv, NoTask
  <2>3. says' \in [Device -> BOOLEAN] /\ ~says'[d] /\ \A f \in Device \ {d} : says'[f] = says[f]
    BY <2>1 DEF NotifyInv, PushTypeOK
  <2>4. TaskIsRight(task[d][k], k)' /\ TaskFollows(d, k)' /\ ShownAt(d)'
    BY <2>2, <2>3, IdleIsRight DEF TaskFollows, ShownAt, TaskIsRight, NoTask, OneMoves
  <2>5. PushTypeOK' /\ RecordTypes'
    BY <1>2, <1>4, <2>2, <2>3 DEF NotifyInv, PushTypeOK, RecordTypes, OneMoves
  <2>6. Elsewhere(d)
    BY <1>1, <1>2, <1>3, <1>4, <2>2, <2>3 DEF Elsewhere, OneMoves
  <2> QED
    BY <1>1, <1>2, <1>5, <1>6, <2>2, <2>4, <2>5, <2>6, TaskStepKeeps
<1>8. CASE old.kind # "off"
  <2> DEFINE t == [step |-> "subscribe", kind |-> old.kind, at |-> old.at, key |-> old.key]
  <2>1. task' = [task EXCEPT ![d][k].step = "subscribe"] /\ says' = says
    BY <1>8 DEF SubscriptionIsDropped, Moves
  <2>2. OneMoves(d, k, t) /\ t \in TaskRecord
    BY <1>1, <2>1, FieldsMove DEF NotifyInv, TaskRecord
  <2>3. TaskIsRight(task[d][k], k)'
    BY <1>1, <1>2, <1>3, <1>8, <2>2 DEF TaskIsRight, OneMoves
  <2>4. TaskFollows(d, k)'
    BY <1>1, <1>2, <1>3, <2>1, <2>2 DEF TaskFollows, OneMoves
  <2>5. ShownAt(d)'
    BY <2>2 DEF ShownAt, OneMoves, NoTask
  <2>6. PushTypeOK' /\ RecordTypes'
    BY <1>2, <1>4, <2>1, <2>2 DEF NotifyInv, PushTypeOK, RecordTypes, OneMoves
  <2>7. Elsewhere(d)
    BY <1>1, <1>2, <1>3, <1>4, <2>1, <2>2 DEF Elsewhere, OneMoves
  <2> QED
    BY <1>1, <1>2, <1>5, <1>6, <2>2, <2>3, <2>4, <2>5, <2>6, <2>7, TaskStepKeeps
<1> QED
  BY <1>7, <1>8

\* pushManager.subscribe: the subscription that is there, if it is of the key, none, or a
\* new one.
LEMMA SubscribesKeeps ==
  ASSUME NotifyInv, NEW d \in Device, NEW k \in TaskName, Subscribes(d, k)
  PROVE  NotifyInv'
<1> DEFINE old == task[d][k]
<1>1. /\ old \in TaskRecord /\ TaskIsRight(old, k) /\ old.step = "subscribe" /\ old # NoTask
      /\ TaskFollows(d, k) /\ held[d] \in Endpoint \cup {0} /\ 0 \notin Endpoint
      /\ held[d] # 0 => held[d] \in EndpointsOf(d) /\ held[d] \in alive /\ made[held[d]] # 0
  BY TheTask DEF Subscribes, Does, NoTask
<1>2. UNCHANGED <<vapid, subscribers, round, person, crossed, upset>>
  BY DEF Subscribes, deploymentVars
<1>3. old.kind \in {"refresh", "on"} /\ old.key # 0 /\ old.key \in 0..MaxVapid
  BY <1>1 DEF TaskIsRight, TaskRecord
<1>4. CASE held[d] # 0 /\ made[held[d]] = old.key
  <2> DEFINE t == [step |-> "post", kind |-> old.kind, at |-> held[d], key |-> old.key]
  <2>1. /\ task' = [task EXCEPT ![d][k].at = held[d], ![d][k].step = "post"]
        /\ UNCHANGED <<says, made, alive, held>>
    BY <1>4 DEF Subscribes
  <2>2. OneMoves(d, k, t) /\ t \in TaskRecord
    BY <1>1, <2>1, FieldsMove DEF NotifyInv, TaskRecord
  <2>3. TaskIsRight(task[d][k], k)'
    <3>1. /\ task'[d][k] = t /\ t.at = held[d] /\ t.step = "post" /\ t.kind = old.kind /\ t.key # 0
          /\ made' = made /\ made[held[d]] # 0
      BY <1>1, <1>3, <1>4, <2>1, <2>2 DEF OneMoves
    <3> HIDE DEF t
    <3> QED
      BY <1>1, <1>3, <1>4, <3>1 DEF TaskIsRight
  <2>4. TaskFollows(d, k)'
    BY <1>1, <1>2, <1>3, <1>4, <2>1, <2>2 DEF TaskFollows, OneMoves
  <2>5. ShownAt(d)'
    BY <2>2 DEF ShownAt, OneMoves, NoTask
  <2>6. says' \in [Device -> BOOLEAN]
    BY <2>1 DEF NotifyInv, PushTypeOK
  <2> QED
    BY <1>1, <1>2, <1>4, <2>1, <2>2, <2>3, <2>4, <2>5, <2>6, QuietStepKeeps
<1>5. CASE held[d] # 0 /\ made[held[d]] # old.key
  <2>1. Fails(d, k) /\ UNCHANGED <<made, alive, held>>
    BY <1>5 DEF Subscribes
  <2>2. /\ OneMoves(d, k, NoTask) /\ says' \in [Device -> BOOLEAN]
        /\ \A f \in Device \ {d} : says'[f] = says[f]
        /\ ~upset[d] => ~says'[d]
    BY <1>1, <1>3, <2>1, TaskFails
  <2>3. TaskIsRight(task[d][k], k)' /\ TaskFollows(d, k)' /\ ShownAt(d)'
    BY <1>2, <2>2, IdleIsRight DEF TaskFollows, ShownAt, TaskIsRight, NoTask, OneMoves
  <2>4. NoTask.at = 0 /\ NoTask \in TaskRecord
    BY IdleIsRight DEF NoTask
  <2> QED
    BY <1>1, <1>2, <2>1, <2>2, <2>3, <2>4, QuietStepKeeps
<1>6. CASE held[d] = 0
  <2>1. PICK e \in Endpoint :
          /\ made[e] = 0
          /\ made' = [made EXCEPT ![e] = old.key] /\ alive' = alive \cup {e}
          /\ held' = [held EXCEPT ![d] = e] /\ says' = says
          /\ task' = [task EXCEPT ![d][k].at = e, ![d][k].step = "post"]
    BY <1>6 DEF Subscribes
  <2> DEFINE t == [step |-> "post", kind |-> old.kind, at |-> e, key |-> old.key]
  <2>2. OneMoves(d, k, t) /\ t \in TaskRecord
    BY <1>1, <2>1, FieldsMove DEF NotifyInv, TaskRecord
  <2>3. /\ made' \in [Endpoint -> 0..MaxVapid] /\ made'[e] = old.key
        /\ \A f \in Endpoint \ {e} : made'[f] = made[f]
        /\ held' \in [Device -> Endpoint \cup {0}] /\ held'[d] = e
        /\ \A f \in Device \ {d} : held'[f] = held[f]
        /\ e # 0 /\ e \in alive'
    BY <1>1, <1>3, <2>1 DEF NotifyInv, PushTypeOK
  <2>4. \A f \in Endpoint : made[f] # 0 => made'[f] = made[f] /\ made'[f] # 0
    BY <2>1, <2>3
  <2>5. TaskIsRight(task[d][k], k)'
    BY <1>1, <1>3, <2>2, <2>3 DEF TaskIsRight, OneMoves
  <2>6. TaskFollows(d, k)'
    BY <1>1, <1>2, <1>3, <2>1, <2>2, <2>3 DEF TaskFollows, OneMoves
  <2>7. ShownAt(d)'
    BY <2>2 DEF ShownAt, OneMoves, NoTask
  <2>8. PushTypeOK'
    <3>1. alive' \subseteq {f \in Endpoint : made'[f] # 0}
      BY <1>3, <2>1, <2>3, <2>4 DEF NotifyInv, PushTypeOK
    <3> QED
      BY <1>2, <2>1, <2>3, <3>1 DEF NotifyInv, PushTypeOK
  <2>9. RecordTypes'
    BY <1>2, <2>2 DEF NotifyInv, RecordTypes, OneMoves
  <2>10. Elsewhere(d)
    BY <1>2, <2>1, <2>2, <2>3, <2>4 DEF Elsewhere, OneMoves
  <2>11. RowsAreMade' /\ RowNamesItsKey' /\ RoundFollows'
    BY <1>2, <2>4, RowsKeep
  <2>12. e \in Endpoint /\ made[e] = 0 /\ made'[e] # 0 /\ upset'[d] = upset[d]
    BY <1>2, <1>3, <2>1, <2>3
  <2> QED
    BY <1>1, <2>2, <2>3, <2>5, <2>6, <2>7, <2>8, <2>9, <2>10, <2>11, <2>12, TaskStepKeeps
<1> QED
  BY <1>4, <1>5, <1>6

\* POST /api/push/subscribe.
LEMMA RowIsPostedKeeps ==
  ASSUME NotifyInv, NEW d \in Device, NEW k \in TaskName, RowIsPosted(d, k)
  PROVE  NotifyInv'
<1> DEFINE old == task[d][k]
<1> DEFINE e == old.at
<1>1. /\ old \in TaskRecord /\ TaskIsRight(old, k) /\ old.step = "post" /\ old # NoTask
      /\ TaskFollows(d, k)
      /\ old.at # 0 => old.at \in EndpointsOf(d) /\ made[old.at] # 0
      /\ held[d] # 0 => held[d] \in EndpointsOf(d) /\ held[d] \in alive
  BY TheTask DEF RowIsPosted, Does, NoTask
<1>2. e # 0 /\ e \in Endpoint /\ old.kind # "off"
  BY <1>1 DEF TaskIsRight, TaskRecord
<1>3. Vapid \in 1..MaxVapid /\ Vapid \in 0..MaxVapid /\ Vapid # 0 /\ (vapid # 0 => Vapid = vapid)
  BY VapidIsThere, PushBoundsAssumption
<1>4. /\ UNCHANGED <<made, alive, person, held, upset>> /\ vapid' = Vapid
      /\ subscribers' = Upserted(e, person[d])
      /\ crossed' = IF made[e] = Vapid THEN crossed \ {e} ELSE crossed \cup {e}
      /\ round' = [round EXCEPT !.rows = @ \ {e}]
  BY DEF RowIsPosted
<1>5. person[d] \in Person
  BY DEF NotifyInv, RecordTypes
<1>6. /\ DOMAIN subscribers' = DOMAIN subscribers \cup {e}
      /\ subscribers'[e] = [owner |-> person[d], key |-> Vapid]
      /\ \A f \in DOMAIN subscribers \ {e} : subscribers'[f] = subscribers[f]
  BY <1>4 DEF Upserted
<1>7. /\ round' \in RoundRecord /\ round'.rows = round.rows \ {e} /\ round'.open = round.open
      /\ round'.reached = round.reached /\ round'.faulty = round.faulty
  BY <1>4 DEF NotifyInv, RecordTypes, RoundRecord
<1>8. /\ OneMoves(d, k, NoTask) /\ says' \in [Device -> BOOLEAN]
      /\ \A f \in Device \ {d} : says'[f] = says[f]
  <2>1. CASE Fails(d, k)
    BY <1>1, <1>2, <2>1, TaskFails
  <2>2. CASE task' = [task EXCEPT ![d][k] = NoTask] /\ says' = says
    BY <2>2, TaskMoves, IdleIsRight DEF NotifyInv, PushTypeOK
  <2>3. CASE Finishes(d, k, TRUE)
    BY <2>3, TaskMoves, IdleIsRight DEF NotifyInv, PushTypeOK, Finishes
  <2> QED
    BY <2>1, <2>2, <2>3 DEF RowIsPosted
<1>9. PushTypeOK'
  <2>1. DOMAIN subscribers' \subseteq Endpoint
    BY <1>2, <1>6 DEF NotifyInv, PushTypeOK
  <2>2. \A f \in DOMAIN subscribers' : subscribers'[f] \in [owner : Person, key : 1..MaxVapid]
    BY <1>3, <1>5, <1>6 DEF NotifyInv, PushTypeOK
  <2> QED
    BY <1>3, <1>4, <1>8, <2>1, <2>2 DEF NotifyInv, PushTypeOK
<1>10. RecordTypes'
  BY <1>2, <1>4, <1>7, <1>8 DEF NotifyInv, RecordTypes, OneMoves
<1>11. Elsewhere(d)
  BY <1>1, <1>2, <1>4, <1>6, <1>8 DEF Elsewhere, OneMoves
<1>12. RowsAreMade'
  BY <1>1, <1>2, <1>3, <1>4, <1>6 DEF NotifyInv, RowsAreMade
<1>13. RowNamesItsKey'
  BY <1>4, <1>6 DEF NotifyInv, RowNamesItsKey
<1>14. RoundFollows'
  <2>1. ~round'.faulty => round'.rows \cap DOMAIN subscribers' \subseteq round'.reached \cup round'.open \cup crossed'
    BY <1>4, <1>6, <1>7 DEF NotifyInv, RoundFollows
  <2>2. ASSUME NEW f \in round'.open \cap DOMAIN subscribers'
        PROVE  f \in crossed' \/ subscribers'[f].key = vapid'
    <3>1. CASE f = e
      BY <1>4, <1>6, <3>1
    <3>2. CASE f # e
      BY <1>3, <1>4, <1>6, <1>7, <2>2, <3>2 DEF NotifyInv, RoundFollows, RowsAreMade
    <3> QED
      BY <3>1, <3>2
  <2> QED
    BY <2>1, <2>2 DEF RoundFollows
<1>15. TaskIsRight(task[d][k], k)' /\ TaskFollows(d, k)'
  BY <1>8, IdleIsRight DEF TaskFollows, TaskIsRight, NoTask, OneMoves
<1>16. ShownAt(d)'
  <2> SUFFICES ASSUME ~upset[d] PROVE Served(d)'
    BY <1>4 DEF ShownAt
  <2>1. e = held[d] /\ made[e] = vapid
    BY <1>1 DEF TaskFollows
  <2>2. vapid' = vapid
    BY <1>1, <1>2, <1>3, <1>4, <2>1
  <2> QED
    BY <1>1, <1>2, <1>4, <1>6, <2>1, <2>2 DEF Served
<1>17. NoTask.at = 0 /\ NoTask \in TaskRecord
  BY IdleIsRight DEF NoTask
<1> QED
  BY <1>1, <1>4, <1>8, <1>9, <1>10, <1>11, <1>12, <1>13, <1>14, <1>15, <1>16, <1>17, TaskStepKeeps

(***************************************************************************)
(* The steps of the deployment: no browser does anything.                  *)
(***************************************************************************)

\* No browser moves, and what belongs to those that say they are subscribed stays.
LEMMA DeploymentStepKeeps ==
  ASSUME NotifyInv, PushTypeOK', RecordTypes', UNCHANGED pushBrowserVars,
         RowsAreMade', RowNamesItsKey', RoundFollows',
         \A d \in Device : BrowserFollows(d)'
  PROVE  NotifyInv'
<1>1. UNCHANGED <<made, alive, held, task>>
  BY DEF pushBrowserVars
<1>2. TasksAreRight'
  BY <1>1 DEF NotifyInv, TasksAreRight, TaskIsRight
<1>3. EndpointsAreApart'
  <2>1. \A d \in Device : (EndpointsOf(d))' = EndpointsOf(d)
    BY <1>1 DEF EndpointsOf
  <2> QED
    BY <1>1, <2>1 DEF NotifyInv, EndpointsAreApart
<1> QED
  BY <1>2, <1>3 DEF NotifyInv

LEMMA KeyIsReplacedKeeps ==
  ASSUME NotifyInv, KeyIsReplaced
  PROVE  NotifyInv'
<1>1. /\ vapid # 0 /\ vapid' \in 0..MaxVapid /\ vapid' # 0 /\ round' = NoRound
      /\ upset' = [d \in Device |-> TRUE]
      /\ UNCHANGED <<subscribers, pushBrowserVars, crossed>>
  BY PushBoundsAssumption DEF KeyIsReplaced, NotifyInv, PushTypeOK
<1>2. NoRound \in RoundRecord /\ NoRound.rows = {} /\ NoRound.open = {}
  BY DEF NoRound, RoundRecord
<1>3. PushTypeOK' /\ RecordTypes'
  BY <1>1, <1>2 DEF NotifyInv, PushTypeOK, RecordTypes, pushBrowserVars
<1>4. RowsAreMade' /\ RowNamesItsKey'
  BY <1>1 DEF NotifyInv, RowsAreMade, RowNamesItsKey, pushBrowserVars
<1>5. RoundFollows'
  BY <1>1, <1>2 DEF RoundFollows
<1>6. \A d \in Device : BrowserFollows(d)'
  BY <1>1 DEF BrowserFollows, OneTask, TaskFollows, ShownAt
<1> QED
  BY <1>1, <1>3, <1>4, <1>5, <1>6, DeploymentStepKeeps

\* What the browsers follow rests on the key of now, and on the rows with that key that
\* are served.
LEMMA BrowsersFollow ==
  ASSUME NotifyInv, UNCHANGED <<pushBrowserVars, upset>>, vapid' = Vapid \/ vapid' = vapid,
         \A e \in DOMAIN subscribers \cap alive :
           subscribers[e].key = vapid => e \in DOMAIN subscribers' /\ subscribers'[e] = subscribers[e],
         NEW d \in Device
  PROVE  BrowserFollows(d)'
<1>1. UNCHANGED <<made, alive, person, held, says, task, upset>>
  BY DEF pushBrowserVars
<1>2. BrowserFollows(d) /\ (vapid # 0 => vapid' = vapid)
  BY VapidIsThere DEF NotifyInv
<1>3. OneTask(d)'
  BY <1>1, <1>2 DEF BrowserFollows, OneTask
<1>4. ASSUME NEW k \in TaskName PROVE TaskFollows(d, k)'
  BY <1>1, <1>2, TheTask DEF TaskFollows, TaskIsRight
<1>5. ShownAt(d)'
  <2> SUFFICES ASSUME Served(d) PROVE Served(d)'
    BY <1>1, <1>2 DEF BrowserFollows, ShownAt
  <2>1. held[d] \in DOMAIN subscribers /\ vapid # 0
    BY DEF Served, NotifyInv, RowsAreMade
  <2> QED
    BY <1>1, <1>2, <2>1 DEF Served
<1> QED
  BY <1>3, <1>4, <1>5 DEF BrowserFollows

\* Notifier.push: the rows of another key go, and those of this one are open.
LEMMA EventIsNotifiedKeeps ==
  ASSUME NotifyInv, NEW u \in Person, EventIsNotified(u)
  PROVE  NotifyInv'
<1> DEFINE stored == {e \in DOMAIN subscribers : subscribers[e].owner = u}
<1> DEFINE fit == {e \in stored : subscribers[e].key = Vapid}
<1>1. /\ vapid' = Vapid
      /\ subscribers' = Without({e \in DOMAIN subscribers : subscribers[e].key # Vapid})
      /\ round' = [rows |-> stored, open |-> fit, reached |-> {}, faulty |-> FALSE]
      /\ UNCHANGED <<pushBrowserVars, crossed, upset>>
  BY DEF EventIsNotified
<1>2. Vapid \in 0..MaxVapid /\ (vapid # 0 => Vapid = vapid) /\ Vapid # 0
  BY VapidIsThere, PushBoundsAssumption
<1>3. /\ DOMAIN subscribers' = {e \in DOMAIN subscribers : subscribers[e].key = Vapid}
      /\ \A e \in DOMAIN subscribers' : subscribers'[e] = subscribers[e]
  BY <1>1 DEF Without
<1>4. /\ round'.rows = stored /\ round'.open = fit /\ round' \in RoundRecord
  BY <1>1 DEF RoundRecord, NotifyInv, PushTypeOK
<1>5. PushTypeOK' /\ RecordTypes'
  BY <1>1, <1>2, <1>3, <1>4 DEF NotifyInv, PushTypeOK, RecordTypes, pushBrowserVars
<1>6. RowsAreMade' /\ RowNamesItsKey'
  BY <1>1, <1>2, <1>3 DEF NotifyInv, RowsAreMade, RowNamesItsKey, pushBrowserVars
<1>7. RoundFollows'
  BY <1>1, <1>3, <1>4 DEF RoundFollows
<1>8. \A d \in Device : BrowserFollows(d)'
  <2>1. \A e \in DOMAIN subscribers : subscribers[e].key = vapid => e \in DOMAIN subscribers'
    BY <1>2, <1>3 DEF NotifyInv, RowsAreMade
  <2> QED
    BY <1>1, <1>3, <2>1, BrowsersFollow
<1> QED
  BY <1>1, <1>5, <1>6, <1>7, <1>8, DeploymentStepKeeps

\* sendPush answers for one row: it was reached, refused as one of another key, or is gone.
LEMMA RowIsAnsweredKeeps ==
  ASSUME NotifyInv, NEW e \in Endpoint, RowIsAnswered(e)
  PROVE  NotifyInv'
<1>1. /\ e \in round.open /\ UNCHANGED <<vapid, pushBrowserVars, crossed, upset>>
      /\ subscribers' = IF e \in alive THEN subscribers ELSE Without({e})
  BY DEF RowIsAnswered
<1>2. /\ round' \in RoundRecord /\ round'.rows = round.rows /\ round'.open = round.open \ {e}
      /\ round'.reached = round.reached \cup {f \in {e} \cap alive : made[f] = vapid}
      /\ round'.faulty = round.faulty
  BY DEF RowIsAnswered, NotifyInv, RecordTypes, RoundRecord
<1>3. /\ \A f \in DOMAIN subscribers' : f \in DOMAIN subscribers /\ subscribers'[f] = subscribers[f]
      /\ \A f \in DOMAIN subscribers \cap alive : f \in DOMAIN subscribers'
      /\ e \in DOMAIN subscribers' => e \in alive
  BY <1>1 DEF Without
<1>4. PushTypeOK' /\ RecordTypes'
  BY <1>1, <1>2, <1>3 DEF NotifyInv, PushTypeOK, RecordTypes, pushBrowserVars
<1>5. RowsAreMade' /\ RowNamesItsKey'
  BY <1>1, <1>3 DEF NotifyInv, RowsAreMade, RowNamesItsKey, pushBrowserVars
<1>6. RoundFollows'
  <2>1. ASSUME ~round'.faulty, NEW f \in round'.rows \cap DOMAIN subscribers'
        PROVE  f \in round'.reached \cup round'.open \cup crossed'
    <3>1. CASE f # e
      BY <1>1, <1>2, <1>3, <2>1, <3>1 DEF NotifyInv, RoundFollows
    <3>2. CASE f = e
      <4>1. e \in crossed \/ (subscribers[e].key = vapid /\ subscribers[e].key = made[e])
        BY <1>1, <1>3, <2>1, <3>2 DEF NotifyInv, RoundFollows, RowNamesItsKey
      <4> QED
        BY <1>1, <1>2, <1>3, <2>1, <3>2, <4>1
    <3> QED
      BY <3>1, <3>2
  <2>2. \A f \in round'.open \cap DOMAIN subscribers' : f \in crossed' \/ subscribers'[f].key = vapid'
    BY <1>1, <1>2, <1>3 DEF NotifyInv, RoundFollows
  <2> QED
    BY <2>1, <2>2 DEF RoundFollows
<1>7. \A d \in Device : BrowserFollows(d)'
  BY <1>1, <1>3, BrowsersFollow
<1> QED
  BY <1>1, <1>4, <1>5, <1>6, <1>7, DeploymentStepKeeps

\* The service does not answer.
LEMMA RowIsNotAnsweredKeeps ==
  ASSUME NotifyInv, NEW e \in Endpoint, RowIsNotAnswered(e)
  PROVE  NotifyInv'
<1>1. UNCHANGED <<vapid, subscribers, pushBrowserVars, crossed, upset>>
  BY DEF RowIsNotAnswered
<1>2. /\ round' \in RoundRecord /\ round'.rows = round.rows /\ round'.open = round.open \ {e}
      /\ round'.faulty
  BY DEF RowIsNotAnswered, NotifyInv, RecordTypes, RoundRecord
<1>3. PushTypeOK' /\ RecordTypes'
  BY <1>1, <1>2 DEF NotifyInv, PushTypeOK, RecordTypes, pushBrowserVars
<1>4. RowsAreMade' /\ RowNamesItsKey'
  BY <1>1 DEF NotifyInv, RowsAreMade, RowNamesItsKey, pushBrowserVars
<1>5. RoundFollows'
  BY <1>1, <1>2 DEF NotifyInv, RoundFollows
<1>6. \A d \in Device : BrowserFollows(d)'
  BY <1>1, BrowsersFollow
<1> QED
  BY <1>1, <1>3, <1>4, <1>5, <1>6, DeploymentStepKeeps

LEMMA NotifyBegins ==
  ASSUME NotifyInit
  PROVE  NotifyInv
<1>1. /\ \A d \in Device : \A k \in TaskName : task[d][k] = NoTask
      /\ \A d \in Device : held[d] = 0 /\ ~says[d]
      /\ DOMAIN subscribers = {} /\ round = NoRound
  BY DEF NotifyInit
<1>2. \A k \in TaskName : NoTask \in TaskRecord /\ TaskIsRight(NoTask, k)
  BY IdleIsRight
<1>3. NoTask.at = 0 /\ NoRound.rows = {} /\ NoRound.open = {} /\ NoRound \in RoundRecord
  BY DEF NoTask, NoRound, RoundRecord
<1>4. PushTypeOK
  <2>1. 0 \in 0..MaxVapid
    BY PushBoundsAssumption
  <2> QED
    BY <1>1, <2>1 DEF NotifyInit, PushTypeOK
<1>5. RecordTypes
  <2>1. NoTask \in TaskRecord
    BY <1>2 DEF TaskName
  <2> QED
    BY <1>3, <2>1 DEF NotifyInit, RecordTypes
<1>6. \A d \in Device : EndpointsOf(d) = {}
  BY <1>1, <1>3 DEF EndpointsOf
<1>7. TasksAreRight /\ EndpointsAreApart
  BY <1>1, <1>2, <1>6 DEF TasksAreRight, EndpointsAreApart
<1>8. RowsAreMade /\ RowNamesItsKey /\ RoundFollows
  BY <1>1, <1>3 DEF RowsAreMade, RowNamesItsKey, RoundFollows
<1>9. \A d \in Device : BrowserFollows(d)
  BY <1>1 DEF BrowserFollows, OneTask, TaskFollows, ShownAt, TaskName
<1> QED
  BY <1>4, <1>5, <1>7, <1>8, <1>9 DEF NotifyInv

LEMMA NotifyStep ==
  ASSUME NotifyInv, [NotifyNext]_notifyVars
  PROVE  NotifyInv'
<1>1. CASE UNCHANGED notifyVars
  <2>1. UNCHANGED <<deploymentVars, pushBrowserVars, crossed, upset>>
    BY <1>1 DEF notifyVars
  <2>2. PushTypeOK' /\ RecordTypes' /\ RowsAreMade' /\ RowNamesItsKey' /\ RoundFollows'
    BY <2>1 DEF NotifyInv, PushTypeOK, RecordTypes, RowsAreMade, RowNamesItsKey, RoundFollows,
                deploymentVars, pushBrowserVars
  <2>3. \A d \in Device : BrowserFollows(d)'
    BY <2>1, BrowsersFollow DEF deploymentVars
  <2> QED
    BY <2>1, <2>2, <2>3, DeploymentStepKeeps
<1> QED
  BY <1>1, KeyIsReplacedKeeps, EventIsNotifiedKeeps, RowIsAnsweredKeeps, RowIsNotAnsweredKeeps,
     PageLoadsKeeps, SwitchIsPressedKeeps, SubscriptionExpiresKeeps, UserChangesKeeps,
     SubscriptionIsReadKeeps, KeyIsReadKeeps, SubscriptionIsMatchedKeeps, RowIsDeletedKeeps,
     SubscriptionIsDroppedKeeps, SubscribesKeeps, RowIsPostedKeeps, CallFailsKeeps
     DEF NotifyNext

\* A page that says it is subscribed and that nothing has disturbed is served by every
\* notification of its user, each row of a notification is reached or gone, and no row names
\* another key than its endpoint was made for, through any number of keys, browsers and
\* failed calls (stores/push.ts, notify.ts).
THEOREM NotificationsAlwaysArrive == NotifySpec => []NotificationsArrive
<1>1. NotifyInit => NotifyInv
  BY NotifyBegins
<1>2. NotifyInv /\ [NotifyNext]_notifyVars => NotifyInv'
  BY NotifyStep
<1>3. NotifyInv => NotificationsArrive
  BY ShownIsShownAt DEF NotifyInv, NotificationsArrive, BrowserFollows, RoundFollows, ReachedOrGone
<1> QED
  BY <1>1, <1>2, <1>3, PTL DEF NotifySpec
(***************************************************************************)
(* Files.  What a request is told and what it has done rest on how far it  *)
(* is on both sides, and the write on the version that it looked at.       *)
(***************************************************************************)

AtWork == {"looks", "hashes", "looksAgain", "renames"}
Placing == {"write", "writeNew", "create"}

GhostTypes ==
  /\ replyTo \in [Request -> {"none", "ok", "refused", "lost", "failed"}]
  /\ heldSince \in [Request -> SUBSET Contents]
  /\ placed \subseteq Request
  /\ blind \in BOOLEAN /\ overwritten \in BOOLEAN /\ killed \in BOOLEAN

\* The service works on one request at a time, and knows only those that were sent; one
\* that was given up goes on only while the service works on it.
SidesFit(r) ==
  /\ served[r] \in AtWork <=> worksFor = r
  /\ reached[r] \in {"new", "connects", "again"} => served[r] = "no"
  /\ reached[r] = "done" => served[r] \in {"no"} \cup AtWork
  /\ served[r] \in {"body", "looks"} => wish[r] \in Placing
  /\ served[r] \in AtWork \ {"looks"} => wish[r] = "write"
  /\ r \in temps => killed \/ served[r] \in {"body"} \cup AtWork

\* The write has seen the version that it looked at, and that version is what it expects.
WriteIsRight(r) ==
  /\ looked[r] <= stamp
  /\ served[r] = "looksAgain" /\ stamp = looked[r] => content = cond[r]
  /\ served[r] = "renames" /\ ~blind => content = cond[r]

HasReply(r, reply) == (served[r] = "replied" \/ reached[r] = "done") /\ replyTo[r] = reply

\* What was put in place is told as done, or to nobody; and the other way round.
ReplyIsRight(r) ==
  /\ r \in placed => /\ wish[r] \in Placing
                     /\ HasReply(r, "ok") \/ (reached[r] = "done" /\ replyTo[r] = "lost")
                     /\ served[r] \in {"no", "replied"} /\ reached[r] \in {"sent", "done"}
  /\ HasReply(r, "ok") /\ wish[r] = "write" => r \in placed
  /\ HasReply(r, "ok") /\ wish[r] = "read" => cond[r] \in heldSince[r]
  /\ reached[r] = "done" /\ served[r] \in AtWork => replyTo[r] = "lost"
  /\ reached[r] # "new" => content \in heldSince[r]

FileInv ==
  /\ FileTypeOK /\ GhostTypes /\ ~overwritten
  /\ \A r \in Request : SidesFit(r) /\ WriteIsRight(r) /\ ReplyIsRight(r)

\* The types, in parts: the places of the two sides, the contents, the numbers.
PlaceTypes ==
  /\ temps \subseteq Request
  /\ link \in {"none", "opening", "open", "ended"}
  /\ wish \in [Request -> Wish \cup {"none"}]
  /\ reached \in [Request -> {"new", "connects", "sent", "again", "done"}]
  /\ retries \subseteq Request
  /\ served \in [Request -> {"no", "head", "body", "looks", "hashes", "looksAgain", "renames", "replied"}]
  /\ worksFor \in Request \cup {NoRequest}
  /\ replyTo \in [Request -> {"none", "ok", "refused", "lost", "failed"}]
  /\ placed \subseteq Request

ContentTypes ==
  /\ content \in Contents
  /\ cond \in [Request -> Contents]
  /\ heldSince \in [Request -> SUBSET Contents]

NumberTypes ==
  /\ stamp \in Nat /\ looked \in [Request -> Nat]
  /\ links \in 0..MaxLinks
  /\ agentEdits \in 0..MaxAgentEdits /\ timeouts \in 0..MaxTimeouts

FlagTypes == blind \in BOOLEAN /\ overwritten \in BOOLEAN /\ killed \in BOOLEAN

LEMMA FileTypesAre == FileTypeOK /\ GhostTypes <=> PlaceTypes /\ ContentTypes /\ NumberTypes /\ FlagTypes
  BY DEF FileTypeOK, GhostTypes, PlaceTypes, ContentTypes, NumberTypes, FlagTypes

\* Every step keeps the places.
LEMMA PlaceTypesStay ==
  ASSUME PlaceTypes, [FileNext]_fileServiceVars
  PROVE  PlaceTypes'
<1> USE DEF PlaceTypes, heldVars, linkVars, requestVars, serviceVars, boundVars, ghostVars
<1>1. ASSUME SessionOpens PROVE PlaceTypes'
  BY <1>1 DEF SessionOpens
<1>2. ASSUME SessionIsOpen PROVE PlaceTypes'
  BY <1>2 DEF SessionIsOpen
<1>3. ASSUME SessionEnds PROVE PlaceTypes'
  BY <1>3 DEF SessionEnds
<1>4. ASSUME AgentEdits PROVE PlaceTypes'
  BY <1>4 DEF AgentEdits, Becomes
<1>5. ASSUME NEW r \in Request, NEW o \in Wish, RequestBegins(r, o) PROVE PlaceTypes'
  BY <1>5 DEF RequestBegins
<1>6. ASSUME NEW r \in Request, RequestIsSent(r) PROVE PlaceTypes'
  BY <1>6 DEF RequestIsSent
<1>7. ASSUME NEW r \in Request, ReplyArrives(r) PROVE PlaceTypes'
  BY <1>7 DEF ReplyArrives
<1>8. ASSUME NEW r \in Request, RequestTimesOut(r) PROVE PlaceTypes'
  BY <1>8 DEF RequestTimesOut
<1>9. ASSUME NEW r \in Request, ReadIsServed(r) PROVE PlaceTypes'
  BY <1>9 DEF ReadIsServed, ServiceIsFree, Replies
<1>10. ASSUME NEW r \in Request, RemoveIsServed(r) PROVE PlaceTypes'
  BY <1>10 DEF RemoveIsServed, ServiceIsFree, Replies, Becomes
<1>11. ASSUME NEW r \in Request, BodyBegins(r) PROVE PlaceTypes'
  BY <1>11 DEF BodyBegins, ServiceIsFree
<1>12. ASSUME NEW r \in Request, BodyEnds(r) PROVE PlaceTypes'
  BY <1>12 DEF BodyEnds, ServiceIsFree
<1>13. ASSUME NEW r \in Request, LinkIsMade(r) PROVE PlaceTypes'
  BY <1>13 DEF LinkIsMade, Becomes, Concludes, LetsGo, Replies
<1>14. ASSUME NEW r \in Request, WriteLooks(r) PROVE PlaceTypes'
  BY <1>14 DEF WriteLooks
<1>15. ASSUME NEW r \in Request, WriteHashes(r) PROVE PlaceTypes'
  BY <1>15 DEF WriteHashes, Concludes, LetsGo, Replies
<1>16. ASSUME NEW r \in Request, WriteLooksAgain(r) PROVE PlaceTypes'
  BY <1>16 DEF WriteLooksAgain, Concludes, LetsGo, Replies
<1>17. ASSUME NEW r \in Request, WriteRenames(r) PROVE PlaceTypes'
  BY <1>17 DEF WriteRenames, Becomes, Concludes, LetsGo, Replies
<1>18. CASE UNCHANGED fileServiceVars
  BY <1>18 DEF fileServiceVars
<1> QED
  BY <1>1, <1>2, <1>3, <1>4, <1>5, <1>6, <1>7, <1>8, <1>9, <1>10, <1>11, <1>12,
     <1>13, <1>14, <1>15, <1>16, <1>17, <1>18 DEF FileNext

\* Every step keeps the contents.
LEMMA ContentTypesStay ==
  ASSUME ContentTypes, [FileNext]_fileServiceVars
  PROVE  ContentTypes'
<1> USE DEF ContentTypes, Contents, heldVars, linkVars, requestVars, serviceVars, boundVars, ghostVars
<1>1. ASSUME SessionOpens PROVE ContentTypes'
  BY <1>1 DEF SessionOpens
<1>2. ASSUME SessionIsOpen PROVE ContentTypes'
  BY <1>2 DEF SessionIsOpen
<1>3. ASSUME SessionEnds PROVE ContentTypes'
  BY <1>3 DEF SessionEnds
<1>4. ASSUME AgentEdits PROVE ContentTypes'
  BY <1>4 DEF AgentEdits, Becomes
<1>5. ASSUME NEW r \in Request, NEW o \in Wish, RequestBegins(r, o) PROVE ContentTypes'
  BY <1>5 DEF RequestBegins
<1>6. ASSUME NEW r \in Request, RequestIsSent(r) PROVE ContentTypes'
  BY <1>6 DEF RequestIsSent
<1>7. ASSUME NEW r \in Request, ReplyArrives(r) PROVE ContentTypes'
  BY <1>7 DEF ReplyArrives
<1>8. ASSUME NEW r \in Request, RequestTimesOut(r) PROVE ContentTypes'
  BY <1>8 DEF RequestTimesOut
<1>9. ASSUME NEW r \in Request, ReadIsServed(r) PROVE ContentTypes'
  BY <1>9 DEF ReadIsServed, ServiceIsFree, Replies
<1>10. ASSUME NEW r \in Request, RemoveIsServed(r) PROVE ContentTypes'
  BY <1>10 DEF RemoveIsServed, ServiceIsFree, Replies, Becomes
<1>11. ASSUME NEW r \in Request, BodyBegins(r) PROVE ContentTypes'
  BY <1>11 DEF BodyBegins, ServiceIsFree
<1>12. ASSUME NEW r \in Request, BodyEnds(r) PROVE ContentTypes'
  BY <1>12 DEF BodyEnds, ServiceIsFree
<1>13. ASSUME NEW r \in Request, LinkIsMade(r) PROVE ContentTypes'
  BY <1>13 DEF LinkIsMade, Becomes, Concludes, LetsGo, Replies
<1>14. ASSUME NEW r \in Request, WriteLooks(r) PROVE ContentTypes'
  BY <1>14 DEF WriteLooks
<1>15. ASSUME NEW r \in Request, WriteHashes(r) PROVE ContentTypes'
  BY <1>15 DEF WriteHashes, Concludes, LetsGo, Replies
<1>16. ASSUME NEW r \in Request, WriteLooksAgain(r) PROVE ContentTypes'
  BY <1>16 DEF WriteLooksAgain, Concludes, LetsGo, Replies
<1>17. ASSUME NEW r \in Request, WriteRenames(r) PROVE ContentTypes'
  BY <1>17 DEF WriteRenames, Becomes, Concludes, LetsGo, Replies
<1>18. CASE UNCHANGED fileServiceVars
  BY <1>18 DEF fileServiceVars
<1> QED
  BY <1>1, <1>2, <1>3, <1>4, <1>5, <1>6, <1>7, <1>8, <1>9, <1>10, <1>11, <1>12,
     <1>13, <1>14, <1>15, <1>16, <1>17, <1>18 DEF FileNext

\* Every step keeps the numbers within their bounds.
LEMMA NumberTypesStay ==
  ASSUME NumberTypes, [FileNext]_fileServiceVars
  PROVE  NumberTypes'
<1> USE FileAssumption DEF NumberTypes, heldVars, linkVars, requestVars, serviceVars, boundVars, ghostVars
<1>1. ASSUME SessionOpens PROVE NumberTypes'
  BY <1>1 DEF SessionOpens
<1>2. ASSUME SessionIsOpen PROVE NumberTypes'
  BY <1>2 DEF SessionIsOpen
<1>3. ASSUME SessionEnds PROVE NumberTypes'
  BY <1>3 DEF SessionEnds
<1>4. ASSUME AgentEdits PROVE NumberTypes'
  BY <1>4 DEF AgentEdits, Becomes
<1>5. ASSUME NEW r \in Request, NEW o \in Wish, RequestBegins(r, o) PROVE NumberTypes'
  BY <1>5 DEF RequestBegins
<1>6. ASSUME NEW r \in Request, RequestIsSent(r) PROVE NumberTypes'
  BY <1>6 DEF RequestIsSent
<1>7. ASSUME NEW r \in Request, ReplyArrives(r) PROVE NumberTypes'
  BY <1>7 DEF ReplyArrives
<1>8. ASSUME NEW r \in Request, RequestTimesOut(r) PROVE NumberTypes'
  BY <1>8 DEF RequestTimesOut
<1>9. ASSUME NEW r \in Request, ReadIsServed(r) PROVE NumberTypes'
  BY <1>9 DEF ReadIsServed, ServiceIsFree, Replies
<1>10. ASSUME NEW r \in Request, RemoveIsServed(r) PROVE NumberTypes'
  BY <1>10 DEF RemoveIsServed, ServiceIsFree, Replies, Becomes
<1>11. ASSUME NEW r \in Request, BodyBegins(r) PROVE NumberTypes'
  BY <1>11 DEF BodyBegins, ServiceIsFree
<1>12. ASSUME NEW r \in Request, BodyEnds(r) PROVE NumberTypes'
  BY <1>12 DEF BodyEnds, ServiceIsFree
<1>13. ASSUME NEW r \in Request, LinkIsMade(r) PROVE NumberTypes'
  BY <1>13 DEF LinkIsMade, Becomes, Concludes, LetsGo, Replies
<1>14. ASSUME NEW r \in Request, WriteLooks(r) PROVE NumberTypes'
  BY <1>14 DEF WriteLooks
<1>15. ASSUME NEW r \in Request, WriteHashes(r) PROVE NumberTypes'
  BY <1>15 DEF WriteHashes, Concludes, LetsGo, Replies
<1>16. ASSUME NEW r \in Request, WriteLooksAgain(r) PROVE NumberTypes'
  BY <1>16 DEF WriteLooksAgain, Concludes, LetsGo, Replies
<1>17. ASSUME NEW r \in Request, WriteRenames(r) PROVE NumberTypes'
  BY <1>17 DEF WriteRenames, Becomes, Concludes, LetsGo, Replies
<1>18. CASE UNCHANGED fileServiceVars
  BY <1>18 DEF fileServiceVars
<1> QED
  BY <1>1, <1>2, <1>3, <1>4, <1>5, <1>6, <1>7, <1>8, <1>9, <1>10, <1>11, <1>12,
     <1>13, <1>14, <1>15, <1>16, <1>17, <1>18 DEF FileNext

\* Every step keeps the flags.
LEMMA FlagTypesStay ==
  ASSUME FlagTypes, [FileNext]_fileServiceVars
  PROVE  FlagTypes'
<1> USE DEF FlagTypes, heldVars, linkVars, requestVars, serviceVars, boundVars, ghostVars
<1>1. ASSUME SessionOpens PROVE FlagTypes'
  BY <1>1 DEF SessionOpens
<1>2. ASSUME SessionIsOpen PROVE FlagTypes'
  BY <1>2 DEF SessionIsOpen
<1>3. ASSUME SessionEnds PROVE FlagTypes'
  BY <1>3 DEF SessionEnds
<1>4. ASSUME AgentEdits PROVE FlagTypes'
  BY <1>4 DEF AgentEdits, Becomes
<1>5. ASSUME NEW r \in Request, NEW o \in Wish, RequestBegins(r, o) PROVE FlagTypes'
  BY <1>5 DEF RequestBegins
<1>6. ASSUME NEW r \in Request, RequestIsSent(r) PROVE FlagTypes'
  BY <1>6 DEF RequestIsSent
<1>7. ASSUME NEW r \in Request, ReplyArrives(r) PROVE FlagTypes'
  BY <1>7 DEF ReplyArrives
<1>8. ASSUME NEW r \in Request, RequestTimesOut(r) PROVE FlagTypes'
  BY <1>8 DEF RequestTimesOut
<1>9. ASSUME NEW r \in Request, ReadIsServed(r) PROVE FlagTypes'
  BY <1>9 DEF ReadIsServed, ServiceIsFree, Replies
<1>10. ASSUME NEW r \in Request, RemoveIsServed(r) PROVE FlagTypes'
  BY <1>10 DEF RemoveIsServed, ServiceIsFree, Replies, Becomes
<1>11. ASSUME NEW r \in Request, BodyBegins(r) PROVE FlagTypes'
  BY <1>11 DEF BodyBegins, ServiceIsFree
<1>12. ASSUME NEW r \in Request, BodyEnds(r) PROVE FlagTypes'
  BY <1>12 DEF BodyEnds, ServiceIsFree
<1>13. ASSUME NEW r \in Request, LinkIsMade(r) PROVE FlagTypes'
  BY <1>13 DEF LinkIsMade, Becomes, Concludes, LetsGo, Replies
<1>14. ASSUME NEW r \in Request, WriteLooks(r) PROVE FlagTypes'
  BY <1>14 DEF WriteLooks
<1>15. ASSUME NEW r \in Request, WriteHashes(r) PROVE FlagTypes'
  BY <1>15 DEF WriteHashes, Concludes, LetsGo, Replies
<1>16. ASSUME NEW r \in Request, WriteLooksAgain(r) PROVE FlagTypes'
  BY <1>16 DEF WriteLooksAgain, Concludes, LetsGo, Replies
<1>17. ASSUME NEW r \in Request, WriteRenames(r) PROVE FlagTypes'
  BY <1>17 DEF WriteRenames, Becomes, Concludes, LetsGo, Replies
<1>18. CASE UNCHANGED fileServiceVars
  BY <1>18 DEF fileServiceVars
<1> QED
  BY <1>1, <1>2, <1>3, <1>4, <1>5, <1>6, <1>7, <1>8, <1>9, <1>10, <1>11, <1>12,
     <1>13, <1>14, <1>15, <1>16, <1>17, <1>18 DEF FileNext

\* Every step keeps the two sides together.
LEMMA SidesStay ==
  ASSUME PlaceTypes, FlagTypes, \A p \in Request : SidesFit(p), NEW q \in Request, [FileNext]_fileServiceVars
  PROVE  SidesFit(q)'
<1> USE FileAssumption DEF PlaceTypes, FlagTypes, SidesFit, AtWork, Placing, Wish, Reading, heldVars, linkVars, requestVars, serviceVars, boundVars, ghostVars
<1>1. ASSUME SessionOpens PROVE SidesFit(q)'
  BY <1>1 DEF SessionOpens
<1>2. ASSUME SessionIsOpen PROVE SidesFit(q)'
  BY <1>2 DEF SessionIsOpen
<1>3. ASSUME SessionEnds PROVE SidesFit(q)'
  BY <1>3 DEF SessionEnds
<1>4. ASSUME AgentEdits PROVE SidesFit(q)'
  BY <1>4 DEF AgentEdits, Becomes
<1>5. ASSUME NEW r \in Request, NEW o \in Wish, RequestBegins(r, o) PROVE SidesFit(q)'
  BY <1>5 DEF RequestBegins
<1>6. ASSUME NEW r \in Request, RequestIsSent(r) PROVE SidesFit(q)'
  BY <1>6 DEF RequestIsSent
<1>7. ASSUME NEW r \in Request, ReplyArrives(r) PROVE SidesFit(q)'
  BY <1>7 DEF ReplyArrives
<1>8. ASSUME NEW r \in Request, RequestTimesOut(r) PROVE SidesFit(q)'
  BY <1>8 DEF RequestTimesOut
<1>9. ASSUME NEW r \in Request, ReadIsServed(r) PROVE SidesFit(q)'
  BY <1>9 DEF ReadIsServed, ServiceIsFree, Replies
<1>10. ASSUME NEW r \in Request, RemoveIsServed(r) PROVE SidesFit(q)'
  BY <1>10 DEF RemoveIsServed, ServiceIsFree, Replies, Becomes
<1>11. ASSUME NEW r \in Request, BodyBegins(r) PROVE SidesFit(q)'
  BY <1>11 DEF BodyBegins, ServiceIsFree
<1>12. ASSUME NEW r \in Request, BodyEnds(r) PROVE SidesFit(q)'
  BY <1>12 DEF BodyEnds, ServiceIsFree
<1>13. ASSUME NEW r \in Request, LinkIsMade(r) PROVE SidesFit(q)'
  BY <1>13 DEF LinkIsMade, Becomes, Concludes, LetsGo, Replies
<1>14. ASSUME NEW r \in Request, WriteLooks(r) PROVE SidesFit(q)'
  BY <1>14 DEF WriteLooks
<1>15. ASSUME NEW r \in Request, WriteHashes(r) PROVE SidesFit(q)'
  BY <1>15 DEF WriteHashes, Concludes, LetsGo, Replies
<1>16. ASSUME NEW r \in Request, WriteLooksAgain(r) PROVE SidesFit(q)'
  BY <1>16 DEF WriteLooksAgain, Concludes, LetsGo, Replies
<1>17. ASSUME NEW r \in Request, WriteRenames(r) PROVE SidesFit(q)'
  BY <1>17 DEF WriteRenames, Becomes, Concludes, LetsGo, Replies
<1>18. CASE UNCHANGED fileServiceVars
  BY <1>18 DEF fileServiceVars
<1> QED
  BY <1>1, <1>2, <1>3, <1>4, <1>5, <1>6, <1>7, <1>8, <1>9, <1>10, <1>11, <1>12,
     <1>13, <1>14, <1>15, <1>16, <1>17, <1>18 DEF FileNext

\* Every step keeps what a write has looked at.
LEMMA WritesStay ==
  ASSUME PlaceTypes, ContentTypes, NumberTypes, FlagTypes, \A p \in Request : SidesFit(p) /\ WriteIsRight(p), NEW q \in Request, [FileNext]_fileServiceVars
  PROVE  WriteIsRight(q)'
<1> USE FileAssumption DEF PlaceTypes, ContentTypes, NumberTypes, FlagTypes, WriteIsRight, SidesFit, AtWork, heldVars, linkVars, requestVars, serviceVars, boundVars, ghostVars
<1>1. ASSUME SessionOpens PROVE WriteIsRight(q)'
  BY <1>1 DEF SessionOpens
<1>2. ASSUME SessionIsOpen PROVE WriteIsRight(q)'
  BY <1>2 DEF SessionIsOpen
<1>3. ASSUME SessionEnds PROVE WriteIsRight(q)'
  BY <1>3 DEF SessionEnds
<1>4. ASSUME AgentEdits PROVE WriteIsRight(q)'
  BY <1>4 DEF AgentEdits, Becomes
<1>5. ASSUME NEW r \in Request, NEW o \in Wish, RequestBegins(r, o) PROVE WriteIsRight(q)'
  BY <1>5 DEF RequestBegins
<1>6. ASSUME NEW r \in Request, RequestIsSent(r) PROVE WriteIsRight(q)'
  BY <1>6 DEF RequestIsSent
<1>7. ASSUME NEW r \in Request, ReplyArrives(r) PROVE WriteIsRight(q)'
  BY <1>7 DEF ReplyArrives
<1>8. ASSUME NEW r \in Request, RequestTimesOut(r) PROVE WriteIsRight(q)'
  BY <1>8 DEF RequestTimesOut
<1>9. ASSUME NEW r \in Request, ReadIsServed(r) PROVE WriteIsRight(q)'
  BY <1>9 DEF ReadIsServed, ServiceIsFree, Replies
<1>10. ASSUME NEW r \in Request, RemoveIsServed(r) PROVE WriteIsRight(q)'
  BY <1>10 DEF RemoveIsServed, ServiceIsFree, Replies, Becomes
<1>11. ASSUME NEW r \in Request, BodyBegins(r) PROVE WriteIsRight(q)'
  BY <1>11 DEF BodyBegins, ServiceIsFree
<1>12. ASSUME NEW r \in Request, BodyEnds(r) PROVE WriteIsRight(q)'
  BY <1>12 DEF BodyEnds, ServiceIsFree
<1>13. ASSUME NEW r \in Request, LinkIsMade(r) PROVE WriteIsRight(q)'
  BY <1>13 DEF LinkIsMade, Becomes, Concludes, LetsGo, Replies
<1>14. ASSUME NEW r \in Request, WriteLooks(r) PROVE WriteIsRight(q)'
  BY <1>14 DEF WriteLooks
<1>15. ASSUME NEW r \in Request, WriteHashes(r) PROVE WriteIsRight(q)'
  BY <1>15 DEF WriteHashes, Concludes, LetsGo, Replies
<1>16. ASSUME NEW r \in Request, WriteLooksAgain(r) PROVE WriteIsRight(q)'
  BY <1>16 DEF WriteLooksAgain, Concludes, LetsGo, Replies
<1>17. ASSUME NEW r \in Request, WriteRenames(r) PROVE WriteIsRight(q)'
  BY <1>17 DEF WriteRenames, Becomes, Concludes, LetsGo, Replies
<1>18. CASE UNCHANGED fileServiceVars
  BY <1>18 DEF fileServiceVars
<1> QED
  BY <1>1, <1>2, <1>3, <1>4, <1>5, <1>6, <1>7, <1>8, <1>9, <1>10, <1>11, <1>12,
     <1>13, <1>14, <1>15, <1>16, <1>17, <1>18 DEF FileNext

\* Every step keeps what a request is told.
LEMMA RepliesStay ==
  ASSUME PlaceTypes, ContentTypes, \A p \in Request : SidesFit(p) /\ ReplyIsRight(p), NEW q \in Request, [FileNext]_fileServiceVars
  PROVE  ReplyIsRight(q)'
<1> USE FileAssumption DEF PlaceTypes, ContentTypes, ReplyIsRight, SidesFit, HasReply, AtWork, Placing, Wish, Reading, heldVars, linkVars, requestVars, serviceVars, boundVars, ghostVars
<1>1. ASSUME SessionOpens PROVE ReplyIsRight(q)'
  BY <1>1 DEF SessionOpens
<1>2. ASSUME SessionIsOpen PROVE ReplyIsRight(q)'
  BY <1>2 DEF SessionIsOpen
<1>3. ASSUME SessionEnds PROVE ReplyIsRight(q)'
  BY <1>3 DEF SessionEnds
<1>4. ASSUME AgentEdits PROVE ReplyIsRight(q)'
  BY <1>4 DEF AgentEdits, Becomes
<1>5. ASSUME NEW r \in Request, NEW o \in Wish, RequestBegins(r, o) PROVE ReplyIsRight(q)'
  BY <1>5 DEF RequestBegins
<1>6. ASSUME NEW r \in Request, RequestIsSent(r) PROVE ReplyIsRight(q)'
  BY <1>6 DEF RequestIsSent
<1>7. ASSUME NEW r \in Request, ReplyArrives(r) PROVE ReplyIsRight(q)'
  BY <1>7 DEF ReplyArrives
<1>8. ASSUME NEW r \in Request, RequestTimesOut(r) PROVE ReplyIsRight(q)'
  BY <1>8 DEF RequestTimesOut
<1>9. ASSUME NEW r \in Request, ReadIsServed(r) PROVE ReplyIsRight(q)'
  BY <1>9 DEF ReadIsServed, ServiceIsFree, Replies
<1>10. ASSUME NEW r \in Request, RemoveIsServed(r) PROVE ReplyIsRight(q)'
  BY <1>10 DEF RemoveIsServed, ServiceIsFree, Replies, Becomes
<1>11. ASSUME NEW r \in Request, BodyBegins(r) PROVE ReplyIsRight(q)'
  BY <1>11 DEF BodyBegins, ServiceIsFree
<1>12. ASSUME NEW r \in Request, BodyEnds(r) PROVE ReplyIsRight(q)'
  BY <1>12 DEF BodyEnds, ServiceIsFree
<1>13. ASSUME NEW r \in Request, LinkIsMade(r) PROVE ReplyIsRight(q)'
  <2>1. CASE q = r
    BY <1>13, <2>1 DEF LinkIsMade, Becomes, Concludes, LetsGo, Replies
  <2>2. CASE q # r
    BY <1>13, <2>2 DEF LinkIsMade, Becomes, Concludes, LetsGo, Replies
  <2> QED
    BY <2>1, <2>2
<1>14. ASSUME NEW r \in Request, WriteLooks(r) PROVE ReplyIsRight(q)'
  BY <1>14 DEF WriteLooks
<1>15. ASSUME NEW r \in Request, WriteHashes(r) PROVE ReplyIsRight(q)'
  BY <1>15 DEF WriteHashes, Concludes, LetsGo, Replies
<1>16. ASSUME NEW r \in Request, WriteLooksAgain(r) PROVE ReplyIsRight(q)'
  BY <1>16 DEF WriteLooksAgain, Concludes, LetsGo, Replies
<1>17. ASSUME NEW r \in Request, WriteRenames(r) PROVE ReplyIsRight(q)'
  <2>1. CASE q = r
    BY <1>17, <2>1 DEF WriteRenames, Becomes, Concludes, LetsGo, Replies
  <2>2. CASE q # r
    BY <1>17, <2>2 DEF WriteRenames, Becomes, Concludes, LetsGo, Replies
  <2> QED
    BY <2>1, <2>2
<1>18. CASE UNCHANGED fileServiceVars
  BY <1>18 DEF fileServiceVars
<1> QED
  BY <1>1, <1>2, <1>3, <1>4, <1>5, <1>6, <1>7, <1>8, <1>9, <1>10, <1>11, <1>12,
     <1>13, <1>14, <1>15, <1>16, <1>17, <1>18 DEF FileNext

\* Only a rename replaces a content that it did not expect, and none does.
LEMMA NothingIsOverwritten ==
  ASSUME FileInv, [FileNext]_fileServiceVars
  PROVE  ~overwritten'
<1>1. ASSUME NEW r \in Request, WriteRenames(r) PROVE ~overwritten'
  BY <1>1 DEF WriteRenames, FileInv, WriteIsRight
<1>2. CASE UNCHANGED overwritten
  BY <1>2 DEF FileInv
<1>3. (\E r \in Request : WriteRenames(r)) \/ UNCHANGED overwritten
  BY DEF FileNext, fileServiceVars, ghostVars, SessionOpens, SessionIsOpen, SessionEnds, AgentEdits, RequestBegins,
         RequestIsSent, ReplyArrives, RequestTimesOut, ReadIsServed, RemoveIsServed, BodyBegins, BodyEnds,
         LinkIsMade, WriteLooks, WriteHashes, WriteLooksAgain
<1> QED
  BY <1>1, <1>2, <1>3

\* A write replaces only what its reader was shown, a request that is told a conflict has
\* changed nothing and one that is told its success has, a read returns what the file held
\* meanwhile, and no temp file stays, however connections end and requests time out
\* (files.ts, files/src).
THEOREM FilesAreAlwaysSafe == FileSpec => []FilesAreSafe
<1>1. FileInit => FileInv
  <2> SUFFICES ASSUME FileInit PROVE FileInv
    OBVIOUS
  <2>1. PlaceTypes
    BY DEF FileInit, PlaceTypes
  <2>2. ContentTypes
    BY DEF FileInit, ContentTypes, Contents
  <2>3. NumberTypes
    BY FileAssumption DEF FileInit, NumberTypes
  <2>4. FlagTypes /\ ~overwritten
    BY DEF FileInit, FlagTypes
  <2>5. ASSUME NEW r \in Request PROVE SidesFit(r) /\ WriteIsRight(r) /\ ReplyIsRight(r)
    <3>1. worksFor # r
      BY FileAssumption DEF FileInit
    <3> QED
      BY <3>1 DEF FileInit, SidesFit, WriteIsRight, ReplyIsRight, HasReply, AtWork
  <2> QED
    BY <2>1, <2>2, <2>3, <2>4, <2>5, FileTypesAre DEF FileInv
<1>2. FileInv /\ [FileNext]_fileServiceVars => FileInv'
  <2> SUFFICES ASSUME FileInv, [FileNext]_fileServiceVars PROVE FileInv'
    OBVIOUS
  <2>1. PlaceTypes /\ ContentTypes /\ NumberTypes /\ FlagTypes
    BY FileTypesAre DEF FileInv
  <2>2. PlaceTypes' /\ ContentTypes' /\ NumberTypes' /\ FlagTypes'
    BY <2>1, PlaceTypesStay, ContentTypesStay, NumberTypesStay, FlagTypesStay
  <2>3. FileTypeOK' /\ GhostTypes'
    BY <2>2 DEF FileTypeOK, GhostTypes, PlaceTypes, ContentTypes, NumberTypes, FlagTypes
  <2>4. ~overwritten'
    BY NothingIsOverwritten
  <2>5. \A r \in Request : SidesFit(r)' /\ WriteIsRight(r)' /\ ReplyIsRight(r)'
    BY <2>1, SidesStay, WritesStay, RepliesStay DEF FileInv
  <2> QED
    BY <2>3, <2>4, <2>5 DEF FileInv
<1>3. FileInv => FilesAreSafe
  <2> SUFFICES ASSUME FileInv PROVE FilesAreSafe
    OBVIOUS
  <2>1. \A r \in Request : /\ IsTold(r, "refused") => r \notin placed
                           /\ IsTold(r, "ok") /\ wish[r] = "write" => r \in placed
                           /\ IsTold(r, "ok") /\ wish[r] = "read" => cond[r] \in heldSince[r]
    BY DEF FileInv, IsTold, ReplyIsRight, HasReply
  <2>2. temps # {} => killed \/ \E r \in temps : served[r] # "no"
    BY DEF FileInv, FileTypeOK, SidesFit, AtWork
  <2> QED
    BY <2>1, <2>2 DEF FileInv, FilesAreSafe
<1> QED
  BY <1>1, <1>2, <1>3, PTL DEF FileSpec

(***************************************************************************)
(* The rows of the owners.                                                 *)
(***************************************************************************)

ListRow == [kind : ListKind, id : Nat \ {NoList}, owner : Owner, standard : BOOLEAN, open : BOOLEAN]
OwnBoxRow == [owner : Owner, profile : Nat, set : Nat]

\* An id is of one row, and an owner has one default of each kind.
RowsFit(rows) ==
  /\ rows \subseteq ListRow /\ IsFiniteSet(rows)
  /\ \A l, m \in rows : l.id = m.id => l = m
  /\ \A l, m \in rows : l.standard /\ m.standard /\ l.kind = m.kind /\ l.owner = m.owner => l = m

\* What a box or a create names is of its owner, and not the default.
NameFits(rows, kind, owner, id) ==
  id # NoList => \E l \in Of(rows, kind, owner) : l.id = id /\ ~l.standard
BoxesFit(rows, boxes) ==
  /\ boxes \in [DOMAIN boxes -> OwnBoxRow] /\ DOMAIN boxes \subseteq OwnBox /\ IsFiniteSet(DOMAIN boxes)
  /\ \A b \in DOMAIN boxes :
       /\ NameFits(rows, "profile", boxes[b].owner, boxes[b].profile)
       /\ NameFits(rows, "set", boxes[b].owner, boxes[b].set)

\* The box has a profile: one that it names, or the default of its owner.
HasProfile(rows, box) == box.profile # NoList \/ Standard(rows, "profile", box.owner) # {}
BoxesServed(rows, boxes) == \A b \in DOMAIN boxes : HasProfile(rows, boxes[b])

\* A create may name a row that was deleted meanwhile, but no row of another owner.
CreateFits(rows, c) ==
  /\ c.owner \in Owner /\ c.profile \in Nat /\ c.set \in Nat
  /\ \A l \in rows :
       /\ l.kind = "profile" /\ l.id = c.profile => l.owner = c.owner /\ ~l.standard
       /\ l.kind = "set" /\ l.id = c.set => l.owner = c.owner /\ ~l.standard

\* What is left without an owner.
LeftFits(rows, boxes, who) ==
  /\ \A b \in DOMAIN boxes : boxes[b].owner # ""
  /\ \A l \in rows : l.owner = "" => l.standard /\ Standard(rows, l.kind, who) # {}

\* A container has the placeholders of its owner.
EnvsFit(envs, table, boxes, gone) ==
  \A b \in DOMAIN envs, n \in SecretName :
    envs[b][n] # 0 /\ <<b, n>> \notin gone =>
      <<boxes[b].owner, n>> \in DOMAIN table /\ table[<<boxes[b].owner, n>>].placeholder = envs[b][n]

TablesFit(rows, boxes) == RowsFit(rows) /\ BoxesFit(rows, boxes) /\ BoxesServed(rows, boxes)
ProcessFits ==
  /\ multi \in BOOLEAN /\ ready \in BOOLEAN /\ unowned \in BOOLEAN
  /\ refreshing # <<>> => refreshing \in Owner \X {"credential"}
PendingFits ==
  creating # NoCreate =>
    /\ ready /\ ~unowned /\ creating.box \in OwnBox /\ creating.box \notin DOMAIN ownBoxes
    /\ multi => creating.owner # ""

OwnersInv ==
  /\ ProcessFits /\ PendingFits
  /\ DOMAIN secrets \subseteq Owner \X SecretName /\ DOMAIN boxEnvs \subseteq DOMAIN ownBoxes
  /\ TablesFit(lists, ownBoxes) /\ CreateFits(lists, creating)
  /\ multi /\ ~unowned => LeftFits(lists, ownBoxes, claimer)
  /\ told = Compose(lists, secrets, ownBoxes)
  /\ EnvsFit(boxEnvs, secrets, ownBoxes, torn)

(***************************************************************************)
(* The ids.                                                                *)
(***************************************************************************)

LEMMA UsedIsFinite ==
  ASSUME OwnersInv, NEW rows, RowsFit(rows)
  PROVE  IsFiniteSet(UsedIds(rows)) /\ Cardinality(UsedIds(rows)) \in Nat
<1> DEFINE ids == {l.id : l \in rows}
           profiles == {ownBoxes[b].profile : b \in DOMAIN ownBoxes}
           sets == {ownBoxes[b].set : b \in DOMAIN ownBoxes}
<1>1. IsFiniteSet(ids)
  <2>1. [l \in rows |-> l.id] \in Surjection(rows, ids)
    BY DEF Surjection
  <2> QED
    BY <2>1, FS_Surjection DEF RowsFit
<1>2. IsFiniteSet(DOMAIN ownBoxes)
  BY DEF OwnersInv, TablesFit, BoxesFit
<1>3. IsFiniteSet(profiles)
  <2>1. [b \in DOMAIN ownBoxes |-> ownBoxes[b].profile] \in Surjection(DOMAIN ownBoxes, profiles)
    BY DEF Surjection
  <2> QED
    BY <2>1, <1>2, FS_Surjection
<1>4. IsFiniteSet(sets)
  <2>1. [b \in DOMAIN ownBoxes |-> ownBoxes[b].set] \in Surjection(DOMAIN ownBoxes, sets)
    BY DEF Surjection
  <2> QED
    BY <2>1, <1>2, FS_Surjection
<1>5. IsFiniteSet({creating.profile}) /\ IsFiniteSet({creating.set})
  BY FS_Singleton
<1>6. NamedIds = ({creating.profile} \cup {creating.set}) \cup (profiles \cup sets)
  BY DEF NamedIds
<1>7. IsFiniteSet({creating.profile} \cup {creating.set}) /\ IsFiniteSet(profiles \cup sets)
  BY <1>3, <1>4, <1>5, FS_Union
<1>8. IsFiniteSet(NamedIds)
  BY <1>6, <1>7, FS_Union
<1>9. IsFiniteSet(UsedIds(rows))
  BY <1>1, <1>8, FS_Union DEF UsedIds
<1> QED
  BY <1>9, FS_CardinalityType

\* There is an id that nothing names.
LEMMA IdIsThere ==
  ASSUME OwnersInv, NEW rows, RowsFit(rows)
  PROVE  \E id \in 1..(Cardinality(UsedIds(rows)) + 1) : id \notin UsedIds(rows)
<1> DEFINE n == Cardinality(UsedIds(rows))
<1>1. IsFiniteSet(UsedIds(rows)) /\ n \in Nat
  BY UsedIsFinite
<1>2. Cardinality(1..(n + 1)) = n + 1
  <2>1. 1 \in Int /\ n + 1 \in Int
    BY <1>1
  <2>2. Cardinality(1..(n + 1)) = IF 1 > n + 1 THEN 0 ELSE (n + 1) - 1 + 1
    BY <2>1, FS_Interval
  <2> QED
    BY <2>2, <1>1
<1> HIDE DEF n
<1>3. ASSUME 1..(n + 1) \subseteq UsedIds(rows) PROVE FALSE
  <2>1. Cardinality(1..(n + 1)) <= n
    BY <1>1, <1>3, FS_Subset DEF n
  <2> QED
    BY <2>1, <1>1, <1>2
<1> QED
  BY <1>3 DEF n

LEMMA FreshIdIs ==
  ASSUME OwnersInv, NEW rows, RowsFit(rows)
  PROVE  FreshId(rows) \in Nat \ {NoList} /\ FreshId(rows) \notin UsedIds(rows)
<1>1. FreshId(rows) \in 1..(Cardinality(UsedIds(rows)) + 1) /\ FreshId(rows) \notin UsedIds(rows)
  BY IdIsThere DEF FreshId
<1> QED
  BY <1>1, UsedIsFinite DEF NoList

\* Nobody needs a default.
LEMMA NoneIsMissing ==
  ASSUME NEW rows, NEW kind, NEW owners, \A o \in owners : Standard(rows, kind, o) # {}
  PROVE  WithStandards(rows, kind, owners) = rows
  BY DEF WithStandards

\* One owner needs a default.
OnlyMissing(rows, kind, owners, o) ==
  /\ o \in owners /\ Standard(rows, kind, o) = {}
  /\ \A p \in owners : p = o \/ Standard(rows, kind, p) # {}
MadeFor(rows, kind, o, more) ==
  \E id \in Nat \ {NoList} : id \notin UsedIds(rows) /\ more = rows \cup {List(kind, id, o, TRUE, TRUE)}

LEMMA OneIsMissing ==
  ASSUME OwnersInv, NEW rows, RowsFit(rows), NEW kind, NEW owners, NEW o, OnlyMissing(rows, kind, owners, o)
  PROVE  MadeFor(rows, kind, o, WithStandards(rows, kind, owners))
<1> DEFINE missing == {p \in owners : Standard(rows, kind, p) = {}}
           Good(f) == IsInjective(f) /\ \A p \in missing : f[p] \notin UsedIds(rows)
           ids == 1..(Cardinality(UsedIds(rows)) + Cardinality(missing))
           f0 == CHOOSE f \in [missing -> ids] : Good(f)
<1>1. missing = {o}
  BY DEF OnlyMissing
<1>2. Cardinality(missing) = 1
  BY <1>1, FS_Singleton
<1>3. PICK id \in ids : id \notin UsedIds(rows)
  BY <1>2, IdIsThere
<1>4. [p \in missing |-> id] \in [missing -> ids] /\ Good([p \in missing |-> id])
  BY <1>1, <1>3 DEF IsInjective
<1>5. f0 \in [missing -> ids] /\ Good(f0)
  <2> HIDE DEF missing, ids, Good
  <2> QED
    BY <1>4
<1>6. WithStandards(rows, kind, owners) = rows \cup {List(kind, f0[p], p, TRUE, TRUE) : p \in missing}
  BY DEF WithStandards
<1>7. f0[o] \in ids /\ f0[o] \notin UsedIds(rows)
  BY <1>1, <1>5
<1> HIDE DEF f0
<1>8. WithStandards(rows, kind, owners) = rows \cup {List(kind, f0[o], o, TRUE, TRUE)}
  BY <1>1, <1>6
<1>9. f0[o] \in Nat \ {NoList}
  BY <1>2, <1>7, UsedIsFinite DEF NoList
<1> QED
  BY <1>7, <1>8, <1>9 DEF MadeFor

(***************************************************************************)
(* A row more.                                                             *)
(***************************************************************************)

\* The rows among which a box finds its profile.
ProfilesOf(rows, owner, id) ==
  LET named == Selected(rows, "profile", owner, id)
  IN  IF named # {} THEN named ELSE Standard(rows, "profile", owner)
AnyOf(all) == CHOOSE l \in all : TRUE

LEMMA ForBoxIs ==
  ASSUME NEW rows, NEW owner, NEW id
  PROVE  ForBox(rows, "profile", owner, id) = AnyOf(ProfilesOf(rows, owner, id))
  BY DEF ForBox, ProfilesOf, AnyOf

\* The boxes and the rows were changed, and no profile of a box.
ProfilesAgree(rows, more, boxes, others) ==
  /\ DOMAIN others = DOMAIN boxes
  /\ \A b \in DOMAIN boxes :
       /\ others[b].owner = boxes[b].owner /\ others[b].profile = boxes[b].profile
       /\ ProfilesOf(more, boxes[b].owner, boxes[b].profile) = ProfilesOf(rows, boxes[b].owner, boxes[b].profile)

LEMMA SameProfiles ==
  ASSUME NEW rows, NEW more, NEW table, NEW boxes, NEW others, ProfilesAgree(rows, more, boxes, others)
  PROVE  Compose(more, table, others) = Compose(rows, table, boxes)
<1> USE DEF ProfilesAgree
<1>2. ASSUME NEW b \in DOMAIN boxes
      PROVE  /\ ForBox(more, "profile", others[b].owner, others[b].profile) = ForBox(rows, "profile", boxes[b].owner, boxes[b].profile)
             /\ others[b].owner = boxes[b].owner
  BY ForBoxIs
<1>3. [b \in DOMAIN others |-> [owner |-> others[b].owner,
                                open |-> ForBox(more, "profile", others[b].owner, others[b].profile).open]]
      = [b \in DOMAIN boxes |-> [owner |-> boxes[b].owner,
                                 open |-> ForBox(rows, "profile", boxes[b].owner, boxes[b].profile).open]]
  BY <1>2
<1> QED
  BY <1>3 DEF Compose

\* What holds of rows that may become the rows of the tables.
RowsGood(rows) ==
  /\ RowsFit(rows) /\ BoxesFit(rows, ownBoxes) /\ BoxesServed(rows, ownBoxes)
  /\ CreateFits(rows, creating)
  /\ multi /\ ~unowned => LeftFits(rows, ownBoxes, claimer)
  /\ told = Compose(rows, secrets, ownBoxes)

LEMMA RowIsAdded ==
  ASSUME NEW rows, RowsFit(rows), NEW row \in ListRow, \A l \in rows : l.id # row.id,
         row.standard => Standard(rows, row.kind, row.owner) = {}
  PROVE  RowsFit(rows \cup {row})
<1>1. rows \cup {row} \subseteq ListRow /\ IsFiniteSet(rows \cup {row})
  BY FS_AddElement DEF RowsFit
<1>2. \A l, m \in rows \cup {row} : l.id = m.id => l = m
  BY DEF RowsFit
<1>3. \A l, m \in rows \cup {row} :
        l.standard /\ m.standard /\ l.kind = m.kind /\ l.owner = m.owner => l = m
  BY DEF RowsFit, Standard, Of
<1> QED
  BY <1>1, <1>2, <1>3 DEF RowsFit

LEMMA BoxesFitMore ==
  ASSUME NEW rows, NEW more, rows \subseteq more, NEW boxes
  PROVE  /\ BoxesFit(rows, boxes) => BoxesFit(more, boxes)
         /\ BoxesServed(rows, boxes) => BoxesServed(more, boxes)
<1>1. \A kind, owner, id : NameFits(rows, kind, owner, id) => NameFits(more, kind, owner, id)
  BY DEF NameFits, Of
<1>2. \A kind, owner : Standard(rows, kind, owner) # {} => Standard(more, kind, owner) # {}
  BY DEF Standard, Of
<1> QED
  BY <1>1, <1>2 DEF BoxesFit, BoxesServed, HasProfile

LEMMA ProfilesStay ==
  ASSUME NEW rows, RowsFit(rows), NEW row \in ListRow,
         row.kind = "profile" /\ row.standard => Standard(rows, row.kind, row.owner) = {},
         NEW owner, NEW id, row.id # id,
         id = NoList => Standard(rows, "profile", owner) # {}, NameFits(rows, "profile", owner, id),
         NEW more, more = rows \cup {row}
  PROVE  ProfilesOf(more, owner, id) = ProfilesOf(rows, owner, id)
<1>1. Selected(more, "profile", owner, id) = Selected(rows, "profile", owner, id)
  BY DEF Selected, Of
<1>2. CASE id # NoList
  <2>1. Selected(rows, "profile", owner, id) # {}
    BY <1>2 DEF NameFits, Selected, Of
  <2> QED
    BY <1>1, <2>1 DEF ProfilesOf
<1>3. CASE id = NoList
  <2>1. Standard(rows, "profile", owner) # {}
    BY <1>3
  <2>2. ~(row.kind = "profile" /\ row.owner = owner /\ row.standard)
    BY <2>1
  <2>3. Standard(more, "profile", owner) = Standard(rows, "profile", owner)
    BY <2>2 DEF Standard, Of
  <2> QED
    BY <1>1, <2>3 DEF ProfilesOf
<1> QED
  BY <1>2, <1>3

\* Rows are made for somebody.
Allowed(owner) == owner \in Owner /\ (multi /\ ~unowned => owner # "")
NewRow(rows, row) ==
  /\ row \in ListRow /\ row.id \notin UsedIds(rows) /\ Allowed(row.owner)
  /\ row.standard => Standard(rows, row.kind, row.owner) = {}

LEMMA MoreIsGood ==
  ASSUME OwnersInv, NEW rows, RowsGood(rows), NEW row, NewRow(rows, row)
  PROVE  RowsGood(rows \cup {row})
<1>1. /\ \A l \in rows : l.id # row.id
      /\ row.id # creating.profile /\ row.id # creating.set
      /\ \A b \in DOMAIN ownBoxes : row.id # ownBoxes[b].profile
  <2> USE DEF NewRow
  <2>1. \A b \in DOMAIN ownBoxes : {ownBoxes[b].profile, ownBoxes[b].set} \subseteq NamedIds
    BY DEF NamedIds
  <2>2. creating.profile \in NamedIds /\ creating.set \in NamedIds
    BY DEF NamedIds
  <2> QED
    BY <2>1, <2>2 DEF UsedIds
<1>2. RowsFit(rows \cup {row})
  BY <1>1, RowIsAdded DEF RowsGood, NewRow
<1>3. BoxesFit(rows \cup {row}, ownBoxes) /\ BoxesServed(rows \cup {row}, ownBoxes)
  BY BoxesFitMore DEF RowsGood
<1>4. CreateFits(rows \cup {row}, creating)
  BY <1>1 DEF RowsGood, CreateFits
<1>5. multi /\ ~unowned => LeftFits(rows \cup {row}, ownBoxes, claimer)
  BY DEF RowsGood, LeftFits, Standard, Of, NewRow, Allowed
<1>6. Compose(rows \cup {row}, secrets, ownBoxes) = Compose(rows, secrets, ownBoxes)
  <2>0. PICK grown : grown = rows \cup {row}
    OBVIOUS
  <2>1. ASSUME NEW b \in DOMAIN ownBoxes
        PROVE  ProfilesOf(grown, ownBoxes[b].owner, ownBoxes[b].profile)
               = ProfilesOf(rows, ownBoxes[b].owner, ownBoxes[b].profile)
    <3> DEFINE of == ownBoxes[b].owner
               named == ownBoxes[b].profile
    <3>1. /\ named = NoList => Standard(rows, "profile", of) # {}
          /\ NameFits(rows, "profile", of, named)
          /\ RowsFit(rows) /\ row.id # named
      BY <1>1 DEF RowsGood, BoxesFit, BoxesServed, HasProfile
    <3>2. /\ row \in ListRow
          /\ row.kind = "profile" /\ row.standard => Standard(rows, row.kind, row.owner) = {} 
      BY DEF NewRow
    <3> HIDE DEF of, named
    <3>3. ProfilesOf(grown, of, named) = ProfilesOf(rows, of, named)
      BY <2>0, <3>1, <3>2, ProfilesStay
    <3> QED
      BY <3>3 DEF of, named
  <2>2. ProfilesAgree(rows, grown, ownBoxes, ownBoxes)
    BY <2>1 DEF ProfilesAgree
  <2>3. Compose(grown, secrets, ownBoxes) = Compose(rows, secrets, ownBoxes)
    BY <2>2, SameProfiles
  <2> QED
    BY <2>0, <2>3
<1> QED
  BY <1>2, <1>3, <1>4, <1>5, <1>6 DEF RowsGood

LEMMA StandardIsGood ==
  ASSUME OwnersInv, NEW rows, RowsGood(rows), NEW kind \in ListKind, NEW owner, Allowed(owner)
  PROVE  /\ RowsGood(WithStandard(rows, kind, owner)) /\ rows \subseteq WithStandard(rows, kind, owner)
         /\ Standard(WithStandard(rows, kind, owner), kind, owner) # {}
<1>1. CASE Standard(rows, kind, owner) # {}
  BY <1>1, NoneIsMissing DEF WithStandard
<1>2. CASE Standard(rows, kind, owner) = {}
  <2>1. PICK id \in Nat \ {NoList} :
          id \notin UsedIds(rows) /\ WithStandard(rows, kind, owner) = rows \cup {List(kind, id, owner, TRUE, TRUE)}
    <3>1. OnlyMissing(rows, kind, {owner}, owner)
      BY <1>2 DEF OnlyMissing
    <3>2. MadeFor(rows, kind, owner, WithStandard(rows, kind, owner))
      BY <3>1, OneIsMissing DEF RowsGood, WithStandard
    <3> QED
      BY <3>2 DEF MadeFor
  <2> DEFINE row == List(kind, id, owner, TRUE, TRUE)
  <2>2. row \in ListRow /\ row.id = id /\ row.kind = kind /\ row.owner = owner /\ row.standard
    BY DEF List, ListRow, Allowed
  <2> HIDE DEF row
  <2>5. NewRow(rows, row)
    BY <1>2, <2>1, <2>2 DEF NewRow
  <2>3. RowsGood(rows \cup {row})
    BY <2>5, MoreIsGood
  <2>4. row \in Standard(rows \cup {row}, kind, owner)
    BY <2>2 DEF Standard, Of
  <2> QED
    BY <2>1, <2>3, <2>4 DEF row
<1> QED
  BY <1>1, <1>2

(***************************************************************************)
(* A push.                                                                 *)
(***************************************************************************)

\* The owners of the boxes that name no profile.
Defaulting(rows, boxes) ==
  {boxes[b].owner : b \in {c \in DOMAIN boxes : Selected(rows, "profile", boxes[c].owner, boxes[c].profile) = {}}}

\* A box that names a profile finds it.
LEMMA DefaultingIs ==
  ASSUME NEW rows, NEW boxes, BoxesFit(rows, boxes), NEW o \in Defaulting(rows, boxes)
  PROVE  \E b \in DOMAIN boxes : boxes[b].owner = o /\ boxes[b].profile = NoList
<1>1. PICK b \in DOMAIN boxes :
        o = boxes[b].owner /\ Selected(rows, "profile", boxes[b].owner, boxes[b].profile) = {}
  BY DEF Defaulting
<1>2. NameFits(rows, "profile", boxes[b].owner, boxes[b].profile)
  BY DEF BoxesFit
<1> QED
  BY <1>1, <1>2 DEF NameFits, Selected

Pushed(rows, table, boxes) ==
  lists' = rows /\ secrets' = table /\ ownBoxes' = boxes /\ told' = Compose(rows, table, boxes)

LEMMA PushesOnly ==
  ASSUME NEW rows, NEW table, NEW boxes, BoxesFit(rows, boxes), BoxesServed(rows, boxes),
         Pushes(rows, table, boxes)
  PROVE  Pushed(rows, table, boxes)
<1>1. \A o \in Defaulting(rows, boxes) : Standard(rows, "profile", o) # {}
  BY DefaultingIs DEF BoxesServed, HasProfile
<1>2. WithStandards(rows, "profile", Defaulting(rows, boxes)) = rows
  BY <1>1, NoneIsMissing
<1>3. AfterCompose(rows, boxes) = rows
  BY <1>2 DEF AfterCompose, Defaulting
<1> QED
  BY <1>3 DEF Pushes, Pushed

\* The boxes of one owner may lack their default, which is made.
ServedBut(rows, boxes, o) == \A b \in DOMAIN boxes : boxes[b].owner # o => HasProfile(rows, boxes[b])
DefaultMade(rows, o, row) ==
  row \in ListRow /\ row.kind = "profile" /\ row.owner = o /\ row.standard /\ row.id \notin UsedIds(rows)
PushedWith(rows, table, boxes, o) ==
  /\ TablesFit(lists', boxes)
  /\ secrets' = table /\ ownBoxes' = boxes /\ told' = Compose(lists', table, boxes)
  /\ lists' = rows \/ \E row : DefaultMade(rows, o, row) /\ lists' = rows \cup {row}

LEMMA PushesOne ==
  ASSUME OwnersInv, NEW rows, NEW table, NEW boxes, RowsFit(rows), BoxesFit(rows, boxes),
         NEW o \in Owner, ServedBut(rows, boxes, o), Pushes(rows, table, boxes)
  PROVE  PushedWith(rows, table, boxes, o)
<1>1. CASE BoxesServed(rows, boxes)
  <2>1. Pushed(rows, table, boxes)
    BY <1>1, PushesOnly
  <2> QED
    BY <1>1, <2>1 DEF Pushed, PushedWith, TablesFit
<1>2. CASE ~BoxesServed(rows, boxes)
  <2>1. PICK b \in DOMAIN boxes : boxes[b].owner = o /\ boxes[b].profile = NoList
    BY <1>2 DEF BoxesServed, ServedBut, HasProfile
  <2>2. Standard(rows, "profile", o) = {}
    BY <1>2 DEF BoxesServed, ServedBut, HasProfile
  <2>3. Selected(rows, "profile", boxes[b].owner, boxes[b].profile) = {}
    BY <2>1 DEF Selected, Of, RowsFit, ListRow
  <2>4. o \in Defaulting(rows, boxes)
    BY <2>1, <2>3 DEF Defaulting
  <2>5. \A p \in Defaulting(rows, boxes) : p = o \/ Standard(rows, "profile", p) # {}
    BY DefaultingIs DEF ServedBut, HasProfile
  <2>6. OnlyMissing(rows, "profile", Defaulting(rows, boxes), o)
    BY <2>2, <2>4, <2>5 DEF OnlyMissing
  <2>7. MadeFor(rows, "profile", o, WithStandards(rows, "profile", Defaulting(rows, boxes)))
    BY <2>6, OneIsMissing
  <2>8. WithStandards(rows, "profile", Defaulting(rows, boxes)) = AfterCompose(rows, boxes)
    BY DEF AfterCompose, Defaulting
  <2>9. PICK id \in Nat \ {NoList} :
          id \notin UsedIds(rows) /\ AfterCompose(rows, boxes) = rows \cup {List("profile", id, o, TRUE, TRUE)}
    BY <2>7, <2>8 DEF MadeFor
  <2>10. PICK row : row = List("profile", id, o, TRUE, TRUE)
    OBVIOUS
  <2>11. DefaultMade(rows, o, row)
    BY <2>9, <2>10 DEF DefaultMade, List, ListRow, ListKind
  <2>12. /\ lists' = rows \cup {row} /\ secrets' = table /\ ownBoxes' = boxes
         /\ told' = Compose(lists', table, boxes)
    BY <2>9, <2>10 DEF Pushes
  <2>13. RowsFit(rows \cup {row})
    <3>1. row \in ListRow /\ \A l \in rows : l.id # row.id
      BY <2>11 DEF DefaultMade, UsedIds
    <3>2. row.standard => Standard(rows, row.kind, row.owner) = {}
      BY <2>2, <2>11 DEF DefaultMade
    <3> QED
      BY <3>1, <3>2, RowIsAdded
  <2>14. BoxesFit(rows \cup {row}, boxes)
    BY BoxesFitMore
  <2>15. BoxesServed(rows \cup {row}, boxes)
    <3>1. row \in Standard(rows \cup {row}, "profile", o)
      BY <2>11 DEF DefaultMade, Standard, Of
    <3>2. \A owner : Standard(rows, "profile", owner) # {} => Standard(rows \cup {row}, "profile", owner) # {}
      BY DEF Standard, Of
    <3> QED
      BY <3>1, <3>2 DEF BoxesServed, ServedBut, HasProfile
  <2> QED
    BY <2>11, <2>12, <2>13, <2>14, <2>15 DEF PushedWith, TablesFit
<1> QED
  BY <1>1, <1>2

(***************************************************************************)
(* The steps.                                                              *)
(***************************************************************************)

LEMMA RowsAreGood ==
  ASSUME OwnersInv
  PROVE  RowsGood(lists)
BY DEF OwnersInv, RowsGood, TablesFit

LEMMA ServedIsAll ==
  ASSUME NEW rows, NEW boxes
  PROVE  BoxesServed(rows, boxes) => \A o : ServedBut(rows, boxes, o)
BY DEF BoxesServed, ServedBut

\* A container keeps its placeholders where the rows of its owner stay.
LEMMA EnvsStay ==
  ASSUME NEW envs, NEW table, NEW boxes, NEW others, NEW later, NEW gone, NEW more,
         EnvsFit(envs, table, boxes, gone), gone \subseteq more,
         \A b \in DOMAIN envs : others[b].owner = boxes[b].owner,
         \A k \in DOMAIN table : k \in DOMAIN later /\ later[k].placeholder = table[k].placeholder
  PROVE  EnvsFit(envs, later, others, more)
BY DEF EnvsFit

\* A container whose row goes is counted as torn.
LEMMA EnvsAreTorn ==
  ASSUME NEW table, NEW boxes, TornBy(table, boxes) \subseteq torn'
  PROVE  EnvsFit(boxEnvs, table, boxes, torn')
<1> SUFFICES ASSUME NEW b \in DOMAIN boxEnvs, NEW n \in SecretName, boxEnvs[b][n] # 0, <<b, n>> \notin torn'
             PROVE  /\ <<boxes[b].owner, n>> \in DOMAIN table
                    /\ table[<<boxes[b].owner, n>>].placeholder = boxEnvs[b][n]
  BY DEF EnvsFit
<1>1. <<b, n>> \in (DOMAIN boxEnvs) \X SecretName /\ <<b, n>> \notin TornBy(table, boxes)
  OBVIOUS
<1>2. <<b, n>>[1] = b /\ <<b, n>>[2] = n
  OBVIOUS
<1> QED
  BY <1>1, <1>2 DEF TornBy

LEMMA OwnersStart ==
  ASSUME OwnersInit
  PROVE  OwnersInv
<1> USE DEF OwnersInit
<1>1. DOMAIN secrets = {} /\ DOMAIN ownBoxes = {} /\ DOMAIN boxEnvs = {}
  OBVIOUS
<1>2. TablesFit(lists, ownBoxes)
  <2>1. RowsFit(lists)
    BY FS_EmptySet DEF RowsFit
  <2>2. ownBoxes \in [DOMAIN ownBoxes -> OwnBoxRow]
    BY <1>1
  <2>3. BoxesFit(lists, ownBoxes)
    BY <1>1, <2>2, FS_EmptySet DEF BoxesFit
  <2> QED
    BY <1>1, <2>1, <2>3 DEF TablesFit, BoxesServed
<1>3. CreateFits(lists, creating)
  BY DEF CreateFits, NoCreate, Owner
<1>4. LeftFits(lists, ownBoxes, claimer)
  BY <1>1 DEF LeftFits
<1>5. told = Compose(lists, secrets, ownBoxes)
  <2>1. [b \in DOMAIN ownBoxes |-> [owner |-> ownBoxes[b].owner,
           open |-> ForBox(lists, "profile", ownBoxes[b].owner, ownBoxes[b].profile).open]] = <<>>
    BY <1>1
  <2>2. {[row |-> k, placeholder |-> secrets[k].placeholder] : k \in DOMAIN secrets} = {}
    BY <1>1
  <2> QED
    BY <2>1, <2>2 DEF Compose
<1>6. EnvsFit(boxEnvs, secrets, ownBoxes, torn)
  BY <1>1 DEF EnvsFit
<1>7. ProcessFits /\ PendingFits
  BY DEF ProcessFits, PendingFits
<1> QED
  BY <1>1, <1>2, <1>3, <1>4, <1>5, <1>6, <1>7 DEF OwnersInv

LEMMA ProcessRestartsKeeps ==
  ASSUME OwnersInv, ProcessRestarts
  PROVE  OwnersInv'
<1> USE DEF ProcessRestarts, tableVars
<1>1. ProcessFits' /\ PendingFits'
  BY DEF ProcessFits, PendingFits
<1>2. CreateFits(lists, NoCreate)
  BY DEF CreateFits, NoCreate, Owner, OwnersInv, TablesFit, RowsFit, ListRow, NoList
<1>3. multi' /\ ~unowned' => LeftFits(lists, ownBoxes, claimer)
  BY DEF HasUnownedData, LeftFits
<1> QED
  BY <1>1, <1>2, <1>3 DEF OwnersInv

LEMMA BootEndsKeeps ==
  ASSUME OwnersInv, BootEnds
  PROVE  OwnersInv'
<1>1. Pushed(lists, secrets, ownBoxes)
  BY PushesOnly DEF BootEnds, OwnersInv, TablesFit
<1>2. ProcessFits' /\ PendingFits'
  BY <1>1 DEF BootEnds, ProcessFits, PendingFits, OwnersInv, Pushed
<1> QED
  BY <1>1, <1>2 DEF BootEnds, OwnersInv, Pushed

LEMMA RefreshTakesKeeps ==
  ASSUME OwnersInv, NEW k \in DOMAIN secrets, RefreshTakesRow(k)
  PROVE  OwnersInv'
<1>1. ProcessFits' /\ PendingFits'
  BY DEF RefreshTakesRow, ProcessFits, PendingFits, OwnersInv, tableVars
<1> QED
  BY <1>1 DEF RefreshTakesRow, OwnersInv, tableVars

\* A row that is written keeps the other rows, and its place.
LEMMA WrittenIs ==
  ASSUME NEW table, NEW k, NEW shape
  PROVE  /\ DOMAIN Written(table, k, shape) = DOMAIN table \cup {k}
         /\ \A j \in DOMAIN table : j # k => Written(table, k, shape)[j] = table[j]
         /\ k \in DOMAIN table /\ KeepsPlaceholder(k[2], table[k], shape) =>
              Written(table, k, shape)[k].placeholder = table[k].placeholder
BY DEF Written, With

LEMMA RefreshWritesKeeps ==
  ASSUME OwnersInv, RefreshWritesRow
  PROVE  OwnersInv'
<1> DEFINE table == Written(secrets, refreshing, "long")
<1>1. Pushed(lists, table, ownBoxes)
  BY PushesOnly DEF RefreshWritesRow, OwnersInv, TablesFit
<1>2. ProcessFits' /\ PendingFits'
  BY <1>1 DEF RefreshWritesRow, ProcessFits, PendingFits, OwnersInv, Pushed
<1>3. refreshing \in Owner \X {"credential"} /\ refreshing[2] = "credential"
  BY DEF RefreshWritesRow, OwnersInv, ProcessFits
<1>6. /\ DOMAIN table = DOMAIN secrets \cup {refreshing}
      /\ \A j \in DOMAIN secrets : j # refreshing => table[j] = secrets[j]
      /\ refreshing \in DOMAIN secrets /\ KeepsPlaceholder(refreshing[2], secrets[refreshing], "long") =>
           table[refreshing].placeholder = secrets[refreshing].placeholder
  BY DEF Written, With
<1> HIDE DEF table
<1>4. DOMAIN table \subseteq Owner \X SecretName
  <2>1. refreshing \in Owner \X SecretName
    BY <1>3 DEF SecretName
  <2> QED
    BY <1>6, <2>1 DEF OwnersInv
<1>5. EnvsFit(boxEnvs, table, ownBoxes, torn)
  <2>1. \A k \in DOMAIN secrets : k \in DOMAIN table /\ table[k].placeholder = secrets[k].placeholder
    <3>1. KeepsPlaceholder(refreshing[2], secrets[refreshing], "long")
      BY <1>3 DEF KeepsPlaceholder
    <3> QED
      BY <1>6, <3>1
  <2> QED
    BY <2>1, EnvsStay DEF OwnersInv
<1> QED
  BY <1>1, <1>2, <1>4, <1>5 DEF RefreshWritesRow, OwnersInv, Pushed

LEMMA SecretIsPutKeeps ==
  ASSUME OwnersInv, NEW user \in Owner, NEW name \in SecretName, NEW shape, SecretIsPut(user, name, shape)
  PROVE  OwnersInv'
<1>1. PICK k : k = <<user, name>>
  OBVIOUS
<1>2. PICK table : table = Written(secrets, k, shape)
  OBVIOUS
<1> USE DEF SecretIsPut, processVars
<1>3. Pushed(lists, table, ownBoxes)
  BY <1>1, <1>2, PushesOnly DEF OwnersInv, TablesFit
<1>4. ProcessFits' /\ PendingFits'
  BY <1>3 DEF ProcessFits, PendingFits, OwnersInv, Pushed
<1>5. /\ DOMAIN table = DOMAIN secrets \cup {k}
      /\ \A j \in DOMAIN secrets : j # k => table[j] = secrets[j]
      /\ k \in DOMAIN secrets /\ KeepsPlaceholder(k[2], secrets[k], shape) =>
           table[k].placeholder = secrets[k].placeholder
  BY <1>2 DEF Written, With
<1>6. DOMAIN table \subseteq Owner \X SecretName
  BY <1>1, <1>5 DEF OwnersInv
<1>7. EnvsFit(boxEnvs, table, ownBoxes, torn')
  <2>1. CASE name = "key" /\ k \in DOMAIN secrets /\ secrets[k].shape # shape
    <3>1. torn' = torn \cup TornBy(table, ownBoxes)
      BY <1>1, <1>2, <2>1
    <3> QED
      BY <3>1, EnvsAreTorn
  <2>2. CASE ~(name = "key" /\ k \in DOMAIN secrets /\ secrets[k].shape # shape)
    <3>1. torn' = torn
      BY <1>1, <1>2, <2>2
    <3>2. k \in DOMAIN secrets => KeepsPlaceholder(k[2], secrets[k], shape)
      BY <1>1, <2>2 DEF KeepsPlaceholder, SecretName
    <3>3. \A j \in DOMAIN secrets : j \in DOMAIN table /\ table[j].placeholder = secrets[j].placeholder
      BY <1>5, <3>2
    <3> QED
      BY <3>1, <3>3, EnvsStay DEF OwnersInv
  <2> QED
    BY <2>1, <2>2
<1> QED
  BY <1>3, <1>4, <1>6, <1>7 DEF OwnersInv, Pushed

LEMMA SecretIsRemovedKeeps ==
  ASSUME OwnersInv, NEW user \in Owner, NEW name \in SecretName, SecretIsRemoved(user, name)
  PROVE  OwnersInv'
<1>1. PICK table : table = Drop(secrets, {<<user, name>>})
  OBVIOUS
<1> USE DEF SecretIsRemoved, processVars
<1>2. Pushed(lists, table, ownBoxes) /\ torn' = torn \cup TornBy(table, ownBoxes)
  BY <1>1, PushesOnly DEF OwnersInv, TablesFit
<1>3. ProcessFits' /\ PendingFits'
  BY <1>2 DEF ProcessFits, PendingFits, OwnersInv, Pushed
<1>4. DOMAIN table \subseteq Owner \X SecretName
  BY <1>1 DEF OwnersInv, Drop
<1>5. EnvsFit(boxEnvs, table, ownBoxes, torn')
  BY <1>2, EnvsAreTorn
<1> QED
  BY <1>2, <1>3, <1>4, <1>5 DEF OwnersInv, Pushed

LEMMA ContainerIsMadeKeeps ==
  ASSUME OwnersInv, NEW b, ContainerIsMade(b)
  PROVE  OwnersInv'
<1> USE DEF ContainerIsMade, processVars, tableVars
<1>1. ProcessFits' /\ PendingFits'
  BY DEF ProcessFits, PendingFits, OwnersInv
<1>2. DOMAIN boxEnvs' = DOMAIN boxEnvs \cup {b}
  BY DEF With
<1>3. EnvsFit(boxEnvs', secrets, ownBoxes, torn')
  <2> SUFFICES ASSUME NEW c \in DOMAIN boxEnvs', NEW n \in SecretName, boxEnvs'[c][n] # 0, <<c, n>> \notin torn'
               PROVE  /\ <<ownBoxes[c].owner, n>> \in DOMAIN secrets
                      /\ secrets[<<ownBoxes[c].owner, n>>].placeholder = boxEnvs'[c][n]
    BY DEF EnvsFit
  <2>1. CASE c = b
    BY <2>1 DEF With
  <2>2. CASE c # b
    <3>1. c \in DOMAIN boxEnvs /\ boxEnvs'[c] = boxEnvs[c]
      BY <2>2 DEF With
    <3>2. <<c, n>> \notin torn
      BY <2>2
    <3> QED
      BY <3>1, <3>2 DEF OwnersInv, EnvsFit
  <2> QED
    BY <2>1, <2>2
<1> QED
  BY <1>1, <1>2, <1>3 DEF OwnersInv

LEMMA OwnedBoxIsDeletedKeeps ==
  ASSUME OwnersInv, NEW user, NEW b, OwnedBoxIsDeleted(user, b)
  PROVE  OwnersInv'
<1>1. PICK boxes : boxes = Drop(ownBoxes, {b})
  OBVIOUS
<1>2. DOMAIN boxes = DOMAIN ownBoxes \ {b} /\ \A c \in DOMAIN boxes : boxes[c] = ownBoxes[c]
  BY <1>1 DEF Drop
<1> USE DEF OwnedBoxIsDeleted, processVars
<1>3. BoxesFit(lists, boxes) /\ BoxesServed(lists, boxes)
  <2>1. IsFiniteSet(DOMAIN boxes)
    BY <1>2, FS_Subset DEF OwnersInv, TablesFit, BoxesFit
  <2>2. boxes \in [DOMAIN boxes -> OwnBoxRow]
    BY <1>1, <1>2 DEF OwnersInv, TablesFit, BoxesFit, Drop
  <2> QED
    BY <1>2, <2>1, <2>2 DEF OwnersInv, TablesFit, BoxesFit, BoxesServed
<1>4. Pushed(lists, secrets, boxes)
  BY <1>1, <1>3, PushesOnly
<1>5. ProcessFits' /\ PendingFits'
  BY <1>2, <1>4 DEF ProcessFits, PendingFits, OwnersInv, Pushed
<1>6. DOMAIN boxEnvs' \subseteq DOMAIN boxes /\ EnvsFit(boxEnvs', secrets, boxes, torn')
  <2>1. DOMAIN boxEnvs' = DOMAIN boxEnvs \ {b} /\ \A c \in DOMAIN boxEnvs' : boxEnvs'[c] = boxEnvs[c]
    BY DEF Drop
  <2>2. \A c \in DOMAIN boxEnvs' : c \in DOMAIN boxes /\ c # b
    BY <1>2, <2>1 DEF OwnersInv
  <2>3. ASSUME NEW c \in DOMAIN boxEnvs', NEW n, <<c, n>> \notin torn' PROVE <<c, n>> \notin torn
    BY <2>2, <2>3
  <2>4. DOMAIN boxEnvs' \subseteq DOMAIN boxes
    BY <2>2
  <2>5. EnvsFit(boxEnvs, secrets, ownBoxes, torn)
    BY DEF OwnersInv
  <2>6. ASSUME NEW c \in DOMAIN boxEnvs', NEW n \in SecretName, boxEnvs'[c][n] # 0, <<c, n>> \notin torn'
        PROVE  /\ <<boxes[c].owner, n>> \in DOMAIN secrets
               /\ secrets[<<boxes[c].owner, n>>].placeholder = boxEnvs'[c][n]
    <3>1. c \in DOMAIN boxEnvs /\ boxEnvs'[c] = boxEnvs[c] /\ boxes[c] = ownBoxes[c] /\ <<c, n>> \notin torn
      BY <1>2, <2>1, <2>2, <2>3, <2>6
    <3> QED
      BY <2>5, <2>6, <3>1 DEF EnvsFit
  <2> QED
    BY <2>4, <2>6 DEF EnvsFit
<1>7. multi /\ ~unowned => LeftFits(lists, boxes, claimer)
  BY <1>2 DEF OwnersInv, LeftFits
<1> QED
  BY <1>3, <1>4, <1>5, <1>6, <1>7 DEF OwnersInv, Pushed, TablesFit

(***************************************************************************)
(* The steps on profiles and sets.                                         *)
(***************************************************************************)

\* The rows may be the tables' rows.
LEMMA GoodRowsKeep ==
  ASSUME OwnersInv, NEW rows, RowsGood(rows), lists' = rows, UNCHANGED <<processVars, secrets, ownBoxes, boxEnvs, told, claimer, torn>>
  PROVE  OwnersInv'
<1>1. ProcessFits' /\ PendingFits'
  BY DEF ProcessFits, PendingFits, OwnersInv, processVars
<1> QED
  BY <1>1 DEF OwnersInv, RowsGood, TablesFit, processVars

LEMMA UserIsAllowed ==
  ASSUME NEW user \in Owner, IsUser(user)
  PROVE  Allowed(user)
BY OwnersAssumption DEF IsUser, Allowed, Owner

LEMMA ListsAreReadKeeps ==
  ASSUME OwnersInv, NEW user \in Owner, NEW kind \in ListKind, ListsAreRead(user, kind)
  PROVE  OwnersInv'
<1>1. RowsGood(WithStandard(lists, kind, user))
  BY RowsAreGood, UserIsAllowed, StandardIsGood DEF ListsAreRead
<1> QED
  BY <1>1, GoodRowsKeep DEF ListsAreRead

LEMMA ListIsCreatedKeeps ==
  ASSUME OwnersInv, NEW user \in Owner, NEW kind \in ListKind, ListIsCreated(user, kind)
  PROVE  OwnersInv'
<1>1. PICK rows : rows = IF kind = "profile" THEN WithStandard(lists, kind, user) ELSE lists
  OBVIOUS
<1>2. PICK row : row = List(kind, FreshId(rows), user, FALSE, FALSE)
  OBVIOUS
<1>3. Allowed(user)
  BY UserIsAllowed DEF ListIsCreated
<1>4. RowsGood(rows)
  BY <1>1, <1>3, RowsAreGood, StandardIsGood
<1>5. NewRow(rows, row)
  <2>1. FreshId(rows) \in Nat \ {NoList} /\ FreshId(rows) \notin UsedIds(rows)
    BY <1>4, FreshIdIs DEF RowsGood
  <2> QED
    BY <1>2, <1>3, <2>1 DEF NewRow, List, ListRow, Allowed
<1>6. PICK all : all = rows \cup {row}
  OBVIOUS
<1>7. RowsGood(all)
  BY <1>4, <1>5, <1>6, MoreIsGood
<1>8. CASE kind = "profile"
  <2>1. Pushes(all, secrets, ownBoxes)
    BY <1>1, <1>2, <1>6, <1>8 DEF ListIsCreated
  <2>2. Pushed(all, secrets, ownBoxes)
    BY <1>7, <2>1, PushesOnly DEF RowsGood
  <2>3. lists' = all /\ UNCHANGED <<processVars, secrets, ownBoxes, boxEnvs, told, claimer, torn>>
    BY <1>7, <2>2 DEF ListIsCreated, Pushed, RowsGood
  <2> QED
    BY <1>7, <2>3, GoodRowsKeep
<1>9. CASE kind # "profile"
  <2>1. lists' = all /\ UNCHANGED <<processVars, secrets, ownBoxes, boxEnvs, told, claimer, torn>>
    BY <1>1, <1>2, <1>6, <1>9 DEF ListIsCreated
  <2> QED
    BY <1>7, <2>1, GoodRowsKeep
<1> QED
  BY <1>8, <1>9

\* A profile that is opened or closed keeps its place.
LEMMA ProfileIsChangedKeeps ==
  ASSUME OwnersInv, NEW user \in Owner, NEW l \in lists, ProfileIsChanged(user, l)
  PROVE  OwnersInv'
<1>1. PICK new : new = [l EXCEPT !.open = ~@]
  OBVIOUS
<1>2. PICK rows : rows = (lists \ {l}) \cup {new}
  OBVIOUS
<1>3. l \in ListRow
  BY DEF OwnersInv, TablesFit, RowsFit
<1>4. new \in ListRow /\ new.kind = l.kind /\ new.id = l.id /\ new.owner = l.owner /\ new.standard = l.standard
  BY <1>1, <1>3 DEF ListRow
<1> HIDE <1>1
<1>5. RowsFit(rows)
  <2>1. RowsFit(lists)
    BY DEF OwnersInv, TablesFit
  <2>2. rows \subseteq ListRow
    BY <1>2, <1>4, <2>1 DEF RowsFit
  <2>3. IsFiniteSet(rows)
    BY <1>2, <2>1, FS_AddElement, FS_RemoveElement DEF RowsFit
  <2>4. \A m, n \in rows : m.id = n.id => m = n
    BY <1>2, <1>4, <2>1 DEF RowsFit
  <2>5. \A m, n \in rows : m.standard /\ n.standard /\ m.kind = n.kind /\ m.owner = n.owner => m = n
    BY <1>2, <1>4, <2>1 DEF RowsFit
  <2> QED
    BY <2>2, <2>3, <2>4, <2>5 DEF RowsFit
<1>6. \A m \in lists : \E n \in rows : n.kind = m.kind /\ n.id = m.id /\ n.owner = m.owner /\ n.standard = m.standard
  BY <1>2, <1>4
<1>7. \A n \in rows : \E m \in lists : n.kind = m.kind /\ n.id = m.id /\ n.owner = m.owner /\ n.standard = m.standard
  BY <1>2, <1>4
<1>8. \A kind, owner, id : NameFits(lists, kind, owner, id) => NameFits(rows, kind, owner, id)
  BY <1>6 DEF NameFits, Of
<1>9. \A kind, owner : Standard(lists, kind, owner) # {} => Standard(rows, kind, owner) # {}
  BY <1>6 DEF Standard, Of
<1>10. BoxesFit(rows, ownBoxes) /\ BoxesServed(rows, ownBoxes)
  BY <1>8, <1>9 DEF OwnersInv, TablesFit, BoxesFit, BoxesServed, HasProfile
<1>11. Pushes(rows, secrets, ownBoxes)
  BY <1>1, <1>2 DEF ProfileIsChanged
<1>12. Pushed(rows, secrets, ownBoxes)
  BY <1>10, <1>11, PushesOnly
<1>13. CreateFits(rows, creating)
  BY <1>7 DEF OwnersInv, CreateFits
<1>14. multi /\ ~unowned => LeftFits(rows, ownBoxes, claimer)
  <2>1. SUFFICES ASSUME LeftFits(lists, ownBoxes, claimer) PROVE LeftFits(rows, ownBoxes, claimer)
    BY DEF OwnersInv
  <2>2. ASSUME NEW n \in rows, n.owner = "" PROVE n.standard /\ Standard(rows, n.kind, claimer) # {}
    <3>1. PICK m \in lists : n.kind = m.kind /\ n.owner = m.owner /\ n.standard = m.standard
      BY <1>7
    <3>2. m.standard /\ Standard(lists, m.kind, claimer) # {}
      BY <2>1, <2>2, <3>1 DEF LeftFits
    <3> QED
      BY <1>9, <3>1, <3>2
  <2> QED
    BY <2>1, <2>2 DEF LeftFits
<1>15. ProcessFits' /\ PendingFits'
  BY <1>12 DEF ProfileIsChanged, processVars, ProcessFits, PendingFits, OwnersInv, Pushed
<1> QED
  BY <1>5, <1>10, <1>12, <1>13, <1>14, <1>15 DEF ProfileIsChanged, processVars, OwnersInv, TablesFit, Pushed

\* A change that pushes may make the default of one owner who had none.
PushFits(rows, boxes, o) ==
  /\ RowsFit(rows) /\ BoxesFit(rows, boxes) /\ ServedBut(rows, boxes, o)
  /\ multi /\ ~unowned => o # "" /\ LeftFits(rows, boxes, claimer)

LEMMA NoCreateFits ==
  ASSUME NEW rows, RowsFit(rows)
  PROVE  CreateFits(rows, NoCreate)
BY DEF CreateFits, NoCreate, Owner, RowsFit, ListRow, NoList

LEMMA PushKeeps ==
  ASSUME OwnersInv, NEW rows, NEW boxes, NEW o \in Owner, PushFits(rows, boxes, o),
         Pushes(rows, secrets, boxes), CreateFits(rows, creating), creating' = creating \/ creating' = NoCreate
  PROVE  /\ TablesFit(lists', boxes) /\ CreateFits(lists', creating')
         /\ multi /\ ~unowned => LeftFits(lists', boxes, claimer)
         /\ told' = Compose(lists', secrets, boxes) /\ secrets' = secrets /\ ownBoxes' = boxes
<1>1. PushedWith(rows, secrets, boxes, o)
  BY PushesOne DEF PushFits
<1>2. multi /\ ~unowned => LeftFits(lists', boxes, claimer)
  <2>1. CASE lists' = rows
    BY <2>1 DEF PushFits
  <2>2. ASSUME NEW row, DefaultMade(rows, o, row), lists' = rows \cup {row}
        PROVE  multi /\ ~unowned => LeftFits(lists', boxes, claimer)
    BY <2>2 DEF PushFits, LeftFits, DefaultMade, Standard, Of
  <2> QED
    BY <1>1, <2>1, <2>2 DEF PushedWith
<1>3. CreateFits(lists', creating)
  <2>1. CASE lists' = rows
    BY <2>1
  <2>2. ASSUME NEW row, DefaultMade(rows, o, row), lists' = rows \cup {row}
        PROVE  CreateFits(lists', creating)
    <3>1. creating.profile \in UsedIds(rows) /\ creating.set \in UsedIds(rows)
      BY DEF UsedIds, NamedIds
    <3>2. row.id # creating.profile /\ row.id # creating.set
      BY <2>2, <3>1 DEF DefaultMade
    <3> QED
      BY <2>2, <3>2 DEF CreateFits
  <2> QED
    BY <1>1, <2>1, <2>2 DEF PushedWith
<1>4. CreateFits(lists', creating')
  <2>1. CreateFits(lists', NoCreate)
    BY <1>1, NoCreateFits DEF PushedWith, TablesFit
  <2> QED
    BY <1>3, <2>1
<1> QED
  BY <1>1, <1>2, <1>4 DEF PushedWith

LEMMA BoxIsInsertedKeeps ==
  ASSUME OwnersInv, BoxIsInserted
  PROVE  OwnersInv'
<1> DEFINE there(kind) == creating[kind] = NoList \/ \E l \in lists : l.kind = kind /\ l.id = creating[kind]
<1>1. /\ creating # NoCreate /\ creating' = NoCreate
      /\ UNCHANGED <<multi, ready, unowned, refreshing, boxEnvs, placeholders, modes, requests, claimer, torn>>
  BY DEF BoxIsInserted
<1>2. ProcessFits' /\ PendingFits'
  BY <1>1 DEF ProcessFits, PendingFits, OwnersInv
<1>3. CASE ~(there("profile") /\ there("set"))
  <2>1. UNCHANGED <<tableVars, told>>
    BY <1>3 DEF BoxIsInserted
  <2>2. CreateFits(lists, NoCreate)
    BY NoCreateFits DEF OwnersInv, TablesFit
  <2> QED
    BY <1>1, <1>2, <2>1, <2>2 DEF OwnersInv, tableVars
<1>4. CASE there("profile") /\ there("set")
  <2>1. PICK box : box = [owner |-> creating.owner, profile |-> creating.profile, set |-> creating.set]
    OBVIOUS
  <2>2. PICK boxes : boxes = With(ownBoxes, creating.box, box)
    OBVIOUS
  <2>3. DOMAIN boxes = DOMAIN ownBoxes \cup {creating.box} /\ boxes[creating.box] = box
    BY <2>2 DEF With
  <2>4. \A b \in DOMAIN ownBoxes : boxes[b] = ownBoxes[b]
    BY <1>1, <2>2 DEF With, OwnersInv, PendingFits
  <2>5. creating.owner \in Owner /\ box \in OwnBoxRow /\ creating.box \in OwnBox
    BY <1>1, <2>1 DEF OwnersInv, PendingFits, CreateFits, OwnBoxRow
  <2>6. NameFits(lists, "profile", box.owner, box.profile) /\ NameFits(lists, "set", box.owner, box.set)
    BY <1>4, <2>1 DEF OwnersInv, CreateFits, NameFits, Of
  <2>7. BoxesFit(lists, boxes)
    <3>1. IsFiniteSet(DOMAIN boxes)
      BY <2>3, FS_AddElement DEF OwnersInv, TablesFit, BoxesFit
    <3>2. boxes \in [DOMAIN boxes -> OwnBoxRow]
      BY <2>2, <2>3, <2>4, <2>5 DEF OwnersInv, TablesFit, BoxesFit, With
    <3> QED
      BY <2>3, <2>4, <2>5, <2>6, <3>1, <3>2 DEF OwnersInv, TablesFit, BoxesFit
  <2>8. ServedBut(lists, boxes, creating.owner)
    BY <2>1, <2>3, <2>4 DEF ServedBut, OwnersInv, TablesFit, BoxesServed
  <2>9. multi /\ ~unowned => creating.owner # "" /\ LeftFits(lists, boxes, claimer)
    <3> SUFFICES ASSUME multi, ~unowned PROVE creating.owner # "" /\ LeftFits(lists, boxes, claimer)
      OBVIOUS
    <3>1. creating.owner # "" /\ LeftFits(lists, ownBoxes, claimer)
      BY <1>1 DEF OwnersInv, PendingFits
    <3>2. box.owner = creating.owner
      BY <2>1
    <3>3. \A b \in DOMAIN boxes : boxes[b].owner # ""
      BY <2>3, <2>4, <3>1, <3>2 DEF LeftFits
    <3> QED
      BY <3>1, <3>3 DEF LeftFits
  <2>10. PICK o \in Owner : o = creating.owner
    BY <2>5
  <2>11. PushFits(lists, boxes, o)
    BY <2>7, <2>8, <2>9, <2>10 DEF PushFits, OwnersInv, TablesFit
  <2>12. Pushes(lists, secrets, boxes)
    BY <1>4, <2>1, <2>2 DEF BoxIsInserted
  <2>13. /\ TablesFit(lists', boxes) /\ CreateFits(lists', creating')
         /\ multi /\ ~unowned => LeftFits(lists', boxes, claimer)
         /\ told' = Compose(lists', secrets, boxes) /\ secrets' = secrets /\ ownBoxes' = boxes
    BY <1>1, <2>11, <2>12, PushKeeps DEF OwnersInv
  <2>14. DOMAIN boxEnvs \subseteq DOMAIN boxes /\ EnvsFit(boxEnvs, secrets, boxes, torn)
    BY <2>3, <2>4 DEF OwnersInv, EnvsFit
  <2> QED
    BY <1>1, <1>2, <2>13, <2>14 DEF OwnersInv
<1> QED
  BY <1>3, <1>4

\* The boxes that name a row that is deleted go back to the default.
Released(boxes, l) ==
  [b \in DOMAIN boxes |-> IF boxes[b][l.kind] = l.id THEN [boxes[b] EXCEPT ![l.kind] = NoList] ELSE boxes[b]]

LEMMA ReleasedIs ==
  ASSUME OwnersInv, NEW l \in lists
  PROVE  /\ DOMAIN Released(ownBoxes, l) = DOMAIN ownBoxes
         /\ \A b \in DOMAIN ownBoxes :
              /\ Released(ownBoxes, l)[b] \in OwnBoxRow /\ Released(ownBoxes, l)[b].owner = ownBoxes[b].owner
              /\ Released(ownBoxes, l)[b].profile
                   = IF l.kind = "profile" /\ ownBoxes[b].profile = l.id THEN NoList ELSE ownBoxes[b].profile
              /\ Released(ownBoxes, l)[b].set
                   = IF l.kind = "set" /\ ownBoxes[b].set = l.id THEN NoList ELSE ownBoxes[b].set
<1>1. \A b \in DOMAIN ownBoxes : ownBoxes[b] \in OwnBoxRow
  BY DEF OwnersInv, TablesFit, BoxesFit
<1>2. l.kind = "profile" \/ l.kind = "set"
  BY DEF OwnersInv, TablesFit, RowsFit, ListRow, ListKind
<1>3. CASE l.kind = "profile"
  BY <1>1, <1>3 DEF Released, OwnBoxRow, NoList
<1>4. CASE l.kind = "set"
  BY <1>1, <1>4 DEF Released, OwnBoxRow, NoList
<1> QED
  BY <1>2, <1>3, <1>4

LEMMA ListIsDeletedKeeps ==
  ASSUME OwnersInv, NEW user \in Owner, NEW l \in lists, ListIsDeleted(user, l)
  PROVE  OwnersInv'
<1>1. PICK boxes : boxes = Released(ownBoxes, l)
  OBVIOUS
<1>2. /\ DOMAIN boxes = DOMAIN ownBoxes
      /\ \A b \in DOMAIN ownBoxes :
           /\ boxes[b] \in OwnBoxRow /\ boxes[b].owner = ownBoxes[b].owner
           /\ boxes[b].profile = IF l.kind = "profile" /\ ownBoxes[b].profile = l.id THEN NoList ELSE ownBoxes[b].profile
           /\ boxes[b].set = IF l.kind = "set" /\ ownBoxes[b].set = l.id THEN NoList ELSE ownBoxes[b].set
  BY <1>1, ReleasedIs
<1>3. PICK rows : rows = lists \ {l}
  OBVIOUS
<1>4. l.owner = user /\ ~l.standard /\ (l.kind = "profile" \/ l.kind = "set") /\ l.id # NoList
  BY DEF ListIsDeleted, Of, OwnersInv, TablesFit, RowsFit, ListRow, ListKind
<1>5. RowsFit(lists) /\ BoxesFit(lists, ownBoxes) /\ BoxesServed(lists, ownBoxes)
  BY DEF OwnersInv, TablesFit
<1>6. RowsFit(rows)
  BY <1>3, <1>5, FS_RemoveElement DEF RowsFit
<1>7. \A kind, owner : Standard(lists, kind, owner) = Standard(rows, kind, owner)
  BY <1>3, <1>4 DEF Standard, Of
<1>8. BoxesFit(rows, boxes)
  <2>1. boxes \in [DOMAIN boxes -> OwnBoxRow]
    BY <1>1, <1>2 DEF Released
  <2>2. ASSUME NEW b \in DOMAIN boxes
        PROVE  NameFits(rows, "profile", boxes[b].owner, boxes[b].profile)
    <3>1. NameFits(lists, "profile", ownBoxes[b].owner, ownBoxes[b].profile)
      BY <1>2, <1>5 DEF BoxesFit
    <3> QED
      BY <1>2, <1>3, <3>1 DEF NameFits, Of
  <2>3. ASSUME NEW b \in DOMAIN boxes
        PROVE  NameFits(rows, "set", boxes[b].owner, boxes[b].set)
    <3>1. NameFits(lists, "set", ownBoxes[b].owner, ownBoxes[b].set)
      BY <1>2, <1>5 DEF BoxesFit
    <3> QED
      BY <1>2, <1>3, <3>1 DEF NameFits, Of
  <2>4. DOMAIN boxes \subseteq OwnBox /\ IsFiniteSet(DOMAIN boxes)
    BY <1>2, <1>5 DEF BoxesFit
  <2> QED
    BY <2>1, <2>2, <2>3, <2>4 DEF BoxesFit
<1>9. ServedBut(rows, boxes, user)
  <2>1. ASSUME NEW b \in DOMAIN boxes, boxes[b].owner # user
        PROVE  HasProfile(rows, boxes[b])
    <3>1. HasProfile(lists, ownBoxes[b])
      BY <1>2, <1>5 DEF BoxesServed
    <3>2. boxes[b].profile = ownBoxes[b].profile
      <4>1. NameFits(lists, "profile", ownBoxes[b].owner, ownBoxes[b].profile)
        BY <1>2, <1>5 DEF BoxesFit
      <4>2. ~(l.kind = "profile" /\ ownBoxes[b].profile = l.id)
        BY <1>2, <1>4, <1>5, <2>1, <4>1 DEF NameFits, Of, RowsFit
      <4> QED
        BY <1>2, <4>2
    <3> QED
      BY <1>2, <1>7, <3>1, <3>2 DEF HasProfile
  <2> QED
    BY <2>1 DEF ServedBut
<1>10. CreateFits(rows, creating)
  BY <1>3 DEF OwnersInv, CreateFits
<1>11. multi /\ ~unowned => LeftFits(rows, boxes, claimer)
  <2>1. SUFFICES ASSUME LeftFits(lists, ownBoxes, claimer) PROVE LeftFits(rows, boxes, claimer)
    BY DEF OwnersInv
  <2> QED
    BY <1>2, <1>3, <1>7, <2>1 DEF LeftFits
<1>12. Allowed(user)
  BY UserIsAllowed DEF ListIsDeleted
<1>13. UNCHANGED <<processVars, boxEnvs, claimer, torn>>
  BY DEF ListIsDeleted
<1>14. DOMAIN boxEnvs \subseteq DOMAIN boxes /\ EnvsFit(boxEnvs, secrets, boxes, torn)
  BY <1>2 DEF OwnersInv, EnvsFit
<1>15. /\ TablesFit(lists', boxes) /\ CreateFits(lists', creating')
       /\ multi /\ ~unowned => LeftFits(lists', boxes, claimer)
       /\ told' = Compose(lists', secrets, boxes) /\ secrets' = secrets /\ ownBoxes' = boxes
  <2>1. CASE l.kind = "profile"
    <3>1. Pushes(rows, secrets, boxes)
      BY <1>1, <1>3, <2>1 DEF ListIsDeleted, Released
    <3>2. PushFits(rows, boxes, user)
      BY <1>6, <1>8, <1>9, <1>11, <1>12 DEF PushFits, Allowed
    <3>3. creating' = creating
      BY <1>13 DEF processVars
    <3> QED
      BY <1>10, <3>1, <3>2, <3>3, PushKeeps
  <2>2. CASE l.kind # "profile"
    <3>1. lists' = rows /\ ownBoxes' = boxes /\ secrets' = secrets /\ told' = told
      BY <1>1, <1>3, <2>2 DEF ListIsDeleted, Released
    <3>2. \A b \in DOMAIN boxes : boxes[b].profile = ownBoxes[b].profile
      BY <1>2, <2>2
    <3>3. BoxesServed(rows, boxes)
      BY <1>2, <1>5, <1>7, <3>2 DEF BoxesServed, HasProfile
    <3>4. \A owner, id : Selected(rows, "profile", owner, id) = Selected(lists, "profile", owner, id)
      BY <1>3, <2>2 DEF Selected, Of
    <3>5. \A owner, id : ProfilesOf(rows, owner, id) = ProfilesOf(lists, owner, id)
      BY <1>7, <3>4 DEF ProfilesOf
    <3>6. ProfilesAgree(lists, rows, ownBoxes, boxes)
      BY <1>2, <3>2, <3>5 DEF ProfilesAgree
    <3>7. Compose(rows, secrets, boxes) = Compose(lists, secrets, ownBoxes)
      BY <3>6, SameProfiles
    <3> QED
      BY <1>6, <1>8, <1>10, <1>11, <1>13, <3>1, <3>3, <3>7 DEF TablesFit, OwnersInv, processVars
  <2> QED
    BY <2>1, <2>2
<1>16. ProcessFits' /\ PendingFits'
  BY <1>2, <1>13, <1>15 DEF processVars, ProcessFits, PendingFits, OwnersInv
<1> QED
  BY <1>13, <1>14, <1>15, <1>16 DEF OwnersInv, processVars

(***************************************************************************)
(* The steps on boxes.                                                     *)
(***************************************************************************)

LEMMA NamedRowsAreGood ==
  ASSUME OwnersInv, NEW rows, RowsGood(rows), NEW kind \in ListKind, NEW owner, Allowed(owner), NEW id
  PROVE  RowsGood(WhenNamed(rows, kind, owner, id))
BY StandardIsGood DEF WhenNamed

\* What a request may name is of its owner.
LEMMA SelectableFits ==
  ASSUME NEW rows, RowsFit(rows), NEW kind, NEW owner, NEW id \in Selectable(rows, kind, owner)
  PROVE  /\ id \in Nat /\ NameFits(rows, kind, owner, id)
         /\ \A l \in rows : l.kind = kind /\ l.id = id => l.owner = owner /\ ~l.standard
<1>1. CASE id = NoList
  BY <1>1 DEF NameFits, RowsFit, ListRow, NoList
<1>2. CASE id # NoList
  <2>1. PICK m \in Of(rows, kind, owner) : ~m.standard /\ m.id = id
    BY <1>2 DEF Selectable
  <2>2. m \in rows /\ m.owner = owner /\ m.id \in Nat
    BY <2>1 DEF Of, RowsFit, ListRow
  <2>3. \A l \in rows : l.id = id => l = m
    BY <2>1, <2>2 DEF RowsFit
  <2> QED
    BY <2>1, <2>2, <2>3 DEF NameFits
<1> QED
  BY <1>1, <1>2

LEMMA CreateIsAskedKeeps ==
  ASSUME OwnersInv, NEW user \in Owner, NEW b \in OwnBox, NEW profile, NEW set,
         CreateIsAsked(user, b, profile, set)
  PROVE  OwnersInv'
<1>1. Allowed(user)
  BY UserIsAllowed DEF CreateIsAsked
<1>2. PICK rows : rows = WhenNamed(WhenNamed(lists, "set", user, set), "profile", user, profile)
  OBVIOUS
<1>3. RowsGood(rows)
  <2>1. RowsGood(WhenNamed(lists, "set", user, set))
    BY <1>1, RowsAreGood, NamedRowsAreGood DEF ListKind
  <2> QED
    BY <1>1, <1>2, <2>1, NamedRowsAreGood DEF ListKind
<1>4. /\ lists' = rows /\ creating' = [box |-> b, owner |-> user, profile |-> profile, set |-> set]
      /\ profile \in Selectable(rows, "profile", user) /\ set \in Selectable(rows, "set", user)
      /\ ready /\ ~unowned /\ b \notin DOMAIN ownBoxes
      /\ UNCHANGED <<multi, ready, unowned, refreshing, secrets, ownBoxes, boxEnvs, told, claimer, torn>>
  BY <1>2 DEF CreateIsAsked, IsUser
<1>5. CreateFits(rows, creating')
  <2>1. creating'.owner = user /\ creating'.profile = profile /\ creating'.set = set
    BY <1>4
  <2>2. profile \in Nat /\ \A l \in rows : l.kind = "profile" /\ l.id = profile => l.owner = user /\ ~l.standard
    BY <1>3, <1>4, SelectableFits DEF RowsGood
  <2>3. set \in Nat /\ \A l \in rows : l.kind = "set" /\ l.id = set => l.owner = user /\ ~l.standard
    BY <1>3, <1>4, SelectableFits DEF RowsGood
  <2> QED
    BY <2>1, <2>2, <2>3 DEF CreateFits
<1>6. PendingFits'
  <2>1. creating'.box = b /\ creating'.owner = user
    BY <1>4
  <2> QED
    BY <1>1, <1>4, <2>1 DEF PendingFits, Allowed
<1>7. ProcessFits'
  BY <1>4 DEF ProcessFits, OwnersInv
<1> QED
  BY <1>3, <1>4, <1>5, <1>6, <1>7 DEF OwnersInv, RowsGood, TablesFit

LEMMA BoxChangesProfileKeeps ==
  ASSUME OwnersInv, NEW user \in Owner, NEW b, NEW id, BoxChangesProfile(user, b, id)
  PROVE  OwnersInv'
<1>1. b \in DOMAIN ownBoxes /\ ownBoxes[b] \in OwnBoxRow
  BY DEF BoxChangesProfile, Sees, OwnersInv, TablesFit, BoxesFit
<1>2. PICK owner \in Owner : owner = ownBoxes[b].owner
  BY <1>1 DEF OwnBoxRow
<1>3. PICK rows : rows = WhenNamed(lists, "profile", owner, id)
  OBVIOUS
<1>4. Allowed(owner)
  BY <1>1, <1>2 DEF OwnersInv, LeftFits, Allowed
<1>5. RowsGood(rows)
  BY <1>3, <1>4, RowsAreGood, NamedRowsAreGood DEF ListKind
<1>6. PICK boxes : boxes = [ownBoxes EXCEPT ![b].profile = id]
  OBVIOUS
<1>7. /\ Pushes(rows, secrets, boxes) /\ id \in Selectable(rows, "profile", owner)
      /\ UNCHANGED <<processVars, boxEnvs, claimer, torn>>
  BY <1>2, <1>3, <1>6 DEF BoxChangesProfile
<1>8. id \in Nat /\ NameFits(rows, "profile", owner, id)
  BY <1>5, <1>7, SelectableFits DEF RowsGood
<1>9. /\ DOMAIN boxes = DOMAIN ownBoxes /\ boxes[b].owner = owner /\ boxes[b].profile = id
      /\ boxes[b].set = ownBoxes[b].set /\ boxes[b] \in OwnBoxRow
      /\ \A c \in DOMAIN ownBoxes : c # b => boxes[c] = ownBoxes[c]
  BY <1>1, <1>2, <1>6, <1>8 DEF OwnBoxRow
<1>10. BoxesFit(rows, ownBoxes) /\ BoxesServed(rows, ownBoxes) /\ RowsFit(rows)
  BY <1>5 DEF RowsGood
<1>11. BoxesFit(rows, boxes)
  <2>1. boxes \in [DOMAIN boxes -> OwnBoxRow]
    BY <1>6, <1>9, <1>10 DEF BoxesFit
  <2>2. NameFits(rows, "set", boxes[b].owner, boxes[b].set)
    BY <1>1, <1>2, <1>9, <1>10 DEF BoxesFit
  <2> QED
    BY <1>8, <1>9, <1>10, <2>1, <2>2 DEF BoxesFit
<1>12. ServedBut(rows, boxes, owner)
  BY <1>9, <1>10 DEF BoxesServed, ServedBut
<1>13. multi /\ ~unowned => LeftFits(rows, boxes, claimer)
  <2>1. SUFFICES ASSUME LeftFits(rows, ownBoxes, claimer) PROVE LeftFits(rows, boxes, claimer)
    BY <1>5 DEF RowsGood
  <2>2. \A c \in DOMAIN boxes : boxes[c].owner = ownBoxes[c].owner
    BY <1>2, <1>9
  <2> QED
    BY <1>9, <2>1, <2>2 DEF LeftFits
<1>14. PushFits(rows, boxes, owner)
  BY <1>4, <1>10, <1>11, <1>12, <1>13 DEF PushFits, Allowed
<1>15. creating' = creating /\ CreateFits(rows, creating)
  BY <1>5, <1>7 DEF RowsGood, processVars
<1>16. /\ TablesFit(lists', boxes) /\ CreateFits(lists', creating')
       /\ multi /\ ~unowned => LeftFits(lists', boxes, claimer)
       /\ told' = Compose(lists', secrets, boxes) /\ secrets' = secrets /\ ownBoxes' = boxes
  BY <1>7, <1>14, <1>15, PushKeeps
<1>17. DOMAIN boxEnvs \subseteq DOMAIN boxes /\ EnvsFit(boxEnvs, secrets, boxes, torn)
  <2>1. \A c \in DOMAIN ownBoxes : boxes[c].owner = ownBoxes[c].owner
    BY <1>2, <1>9
  <2> QED
    BY <1>9, <2>1 DEF OwnersInv, EnvsFit
<1>18. ProcessFits' /\ PendingFits'
  BY <1>7, <1>9, <1>16 DEF processVars, ProcessFits, PendingFits, OwnersInv
<1> QED
  BY <1>7, <1>16, <1>17, <1>18 DEF OwnersInv, processVars

(***************************************************************************)
(* The first user.                                                         *)
(***************************************************************************)

MovesTo(rows, l, user) == l.owner = "" /\ ~(l.standard /\ Standard(rows, l.kind, user) # {})

\* A row is the claimed one of a row, with its owner or the user.
LEMMA ListsClaimedAre ==
  ASSUME NEW rows, RowsFit(rows), NEW user \in NamedUser
  PROVE  /\ \A n \in ListsClaimed(rows, user) :
               \E l \in rows : /\ n.kind = l.kind /\ n.id = l.id /\ n.standard = l.standard /\ n \in ListRow
                              /\ IF MovesTo(rows, l, user) THEN n = [l EXCEPT !.owner = user] /\ n.owner = user ELSE n = l
         /\ \A l \in rows :
               \E n \in ListsClaimed(rows, user) :
                 /\ n.kind = l.kind /\ n.id = l.id /\ n.standard = l.standard
                 /\ n.owner = IF MovesTo(rows, l, user) THEN user ELSE l.owner
<1> DEFINE moved(l) == IF MovesTo(rows, l, user) THEN [l EXCEPT !.owner = user] ELSE l
<1>1. ASSUME NEW l \in rows
      PROVE  /\ moved(l) \in ListRow
             /\ moved(l).kind = l.kind /\ moved(l).id = l.id /\ moved(l).standard = l.standard
             /\ moved(l).owner = IF MovesTo(rows, l, user) THEN user ELSE l.owner
  <2>1. l \in ListRow /\ user \in Owner
    BY DEF RowsFit, Owner
  <2> QED
    BY <2>1 DEF ListRow
<1>2. ListsClaimed(rows, user) = {moved(l) : l \in rows}
  BY DEF ListsClaimed, MovesTo
<1>3. ASSUME NEW n \in ListsClaimed(rows, user)
      PROVE  \E l \in rows : /\ n.kind = l.kind /\ n.id = l.id /\ n.standard = l.standard /\ n \in ListRow
                            /\ IF MovesTo(rows, l, user) THEN n = [l EXCEPT !.owner = user] /\ n.owner = user ELSE n = l
  <2>1. PICK l \in rows : n = moved(l)
    BY <1>2
  <2>2. IF MovesTo(rows, l, user) THEN n = [l EXCEPT !.owner = user] ELSE n = l
    BY <2>1
  <2>3. n.kind = l.kind /\ n.id = l.id /\ n.standard = l.standard /\ n \in ListRow
    BY <1>1, <2>1
  <2>4. MovesTo(rows, l, user) => n.owner = user
    BY <1>1, <2>1
  <2> QED
    BY <2>2, <2>3, <2>4
<1>4. ASSUME NEW l \in rows
      PROVE  \E n \in ListsClaimed(rows, user) :
               /\ n.kind = l.kind /\ n.id = l.id /\ n.standard = l.standard
               /\ n.owner = IF MovesTo(rows, l, user) THEN user ELSE l.owner
  <2>1. moved(l) \in ListsClaimed(rows, user)
    BY <1>2
  <2> QED
    BY <1>1, <2>1
<1> QED
  BY <1>3, <1>4

LEMMA ListsClaimedFit ==
  ASSUME NEW rows, RowsFit(rows), NEW user \in NamedUser
  PROVE  RowsFit(ListsClaimed(rows, user))
<1>1. PICK all : all = ListsClaimed(rows, user)
  OBVIOUS
<1>2. \A n \in all : \E l \in rows :
        /\ n.kind = l.kind /\ n.id = l.id /\ n.standard = l.standard /\ n \in ListRow
        /\ IF MovesTo(rows, l, user) THEN n = [l EXCEPT !.owner = user] /\ n.owner = user ELSE n = l
  BY <1>1, ListsClaimedAre
<1>3. IsFiniteSet(all)
  <2> DEFINE moved(l) == IF MovesTo(rows, l, user) THEN [l EXCEPT !.owner = user] ELSE l
  <2>1. all = {moved(l) : l \in rows}
    BY <1>1 DEF ListsClaimed, MovesTo
  <2>2. [l \in rows |-> moved(l)] \in Surjection(rows, all)
    BY <2>1 DEF Surjection
  <2> QED
    BY <2>2, FS_Surjection DEF RowsFit
<1>4. ASSUME NEW m \in all, NEW n \in all, m.id = n.id PROVE m = n
  <2>1. PICK l \in rows : /\ m.id = l.id
                         /\ IF MovesTo(rows, l, user) THEN m = [l EXCEPT !.owner = user] ELSE m = l
    BY <1>2
  <2>2. PICK k \in rows : /\ n.id = k.id
                         /\ IF MovesTo(rows, k, user) THEN n = [k EXCEPT !.owner = user] ELSE n = k
    BY <1>2
  <2>3. l = k
    BY <1>4, <2>1, <2>2 DEF RowsFit
  <2> QED
    BY <2>1, <2>2, <2>3
<1>5. ASSUME NEW m \in all, NEW n \in all, m.standard, n.standard, m.kind = n.kind, m.owner = n.owner PROVE m = n
  <2>1. PICK l \in rows :
          /\ m.kind = l.kind /\ m.id = l.id /\ m.standard = l.standard
          /\ IF MovesTo(rows, l, user) THEN m = [l EXCEPT !.owner = user] /\ m.owner = user ELSE m = l
    BY <1>2
  <2>2. PICK k \in rows :
          /\ n.kind = k.kind /\ n.id = k.id /\ n.standard = k.standard
          /\ IF MovesTo(rows, k, user) THEN n = [k EXCEPT !.owner = user] /\ n.owner = user ELSE n = k
    BY <1>2
  <2>3. l.standard /\ k.standard /\ l.kind = k.kind
    BY <1>5, <2>1, <2>2
  <2>4. l.owner = k.owner
    <3>1. CASE MovesTo(rows, l, user) /\ MovesTo(rows, k, user)
      BY <3>1 DEF MovesTo
    <3>2. CASE ~MovesTo(rows, l, user) /\ ~MovesTo(rows, k, user)
      BY <1>5, <2>1, <2>2, <3>2
    <3>3. CASE MovesTo(rows, l, user) /\ ~MovesTo(rows, k, user)
      <4>1. k.owner = user
        BY <1>5, <2>1, <2>2, <3>3
      <4>2. k \in Standard(rows, l.kind, user)
        BY <2>3, <4>1 DEF Standard, Of
      <4> QED
        BY <2>3, <3>3, <4>2 DEF MovesTo
    <3>4. CASE ~MovesTo(rows, l, user) /\ MovesTo(rows, k, user)
      <4>1. l.owner = user
        BY <1>5, <2>1, <2>2, <3>4
      <4>2. l \in Standard(rows, k.kind, user)
        BY <2>3, <4>1 DEF Standard, Of
      <4> QED
        BY <2>3, <3>4, <4>2 DEF MovesTo
    <3> QED
      BY <3>1, <3>2, <3>3, <3>4
  <2>5. l = k
    BY <2>3, <2>4 DEF RowsFit
  <2> QED
    BY <2>1, <2>2, <2>5
<1>6. all \subseteq ListRow
  BY <1>2
<1> QED
  BY <1>1, <1>3, <1>4, <1>5, <1>6 DEF RowsFit

NewOwner(owner, user) == IF owner = "" THEN user ELSE owner

LEMMA BoxesClaimedAre ==
  ASSUME OwnersInv, NEW user \in NamedUser
  PROVE  /\ DOMAIN BoxesClaimed(ownBoxes, user) = DOMAIN ownBoxes
         /\ \A b \in DOMAIN ownBoxes :
              /\ BoxesClaimed(ownBoxes, user)[b] \in OwnBoxRow
              /\ BoxesClaimed(ownBoxes, user)[b].owner = NewOwner(ownBoxes[b].owner, user)
              /\ BoxesClaimed(ownBoxes, user)[b].profile = ownBoxes[b].profile
              /\ BoxesClaimed(ownBoxes, user)[b].set = ownBoxes[b].set
<1>1. \A b \in DOMAIN ownBoxes : ownBoxes[b] \in OwnBoxRow
  BY DEF OwnersInv, TablesFit, BoxesFit
<1>2. user \in Owner
  BY DEF Owner
<1> QED
  BY <1>1, <1>2 DEF BoxesClaimed, OwnBoxRow, NewOwner

LEMMA ClaimedStaysInside ==
  ASSUME DOMAIN secrets \subseteq Owner \X SecretName, NEW user \in NamedUser
  PROVE  DOMAIN Claimed(secrets, user) \subseteq Owner \X SecretName
<1> DEFINE moved == {k \in DOMAIN secrets : k[1] = "" /\ <<user, k[2]>> \notin DOMAIN secrets}
<1>1. DOMAIN Claimed(secrets, user) = (DOMAIN secrets \ moved) \cup {<<user, m[2]>> : m \in moved}
  BY DEF Claimed
<1>2. \A m \in moved : <<user, m[2]>> \in Owner \X SecretName
  BY DEF Owner
<1> QED
  BY <1>1, <1>2

LEMMA FirstUserComesKeeps ==
  ASSUME OwnersInv, NEW user \in NamedUser, FirstUserComes(user)
  PROVE  OwnersInv'
<1>1. user # "" /\ user \in Owner
  BY OwnersAssumption DEF Owner
<1>2. PICK rows : rows = ListsClaimed(lists, user)
  OBVIOUS
<1>3. PICK boxes : boxes = BoxesClaimed(ownBoxes, user)
  OBVIOUS
<1>4. PICK table : table = Claimed(secrets, user)
  OBVIOUS
<1>5. /\ Pushes(rows, table, boxes) /\ torn' = torn \cup TornBy(table, boxes)
      /\ unowned' = FALSE /\ claimer' = user
      /\ UNCHANGED <<multi, ready, creating, refreshing, boxEnvs>> /\ unowned
  BY <1>2, <1>3, <1>4 DEF FirstUserComes
<1>6. RowsFit(lists) /\ BoxesFit(lists, ownBoxes) /\ BoxesServed(lists, ownBoxes)
  BY DEF OwnersInv, TablesFit
<1>7. RowsFit(rows)
  BY <1>2, <1>6, ListsClaimedFit
<1>8. \A n \in rows : \E l \in lists :
        /\ n.kind = l.kind /\ n.id = l.id /\ n.standard = l.standard
        /\ IF MovesTo(lists, l, user) THEN n = [l EXCEPT !.owner = user] /\ n.owner = user ELSE n = l
  BY <1>2, <1>6, ListsClaimedAre
<1>9. \A l \in lists : \E n \in rows :
        /\ n.kind = l.kind /\ n.id = l.id /\ n.standard = l.standard
        /\ n.owner = IF MovesTo(lists, l, user) THEN user ELSE l.owner
  BY <1>2, <1>6, ListsClaimedAre
<1>10. /\ DOMAIN boxes = DOMAIN ownBoxes
       /\ \A b \in DOMAIN ownBoxes :
            /\ boxes[b] \in OwnBoxRow /\ boxes[b].owner = NewOwner(ownBoxes[b].owner, user)
            /\ boxes[b].profile = ownBoxes[b].profile /\ boxes[b].set = ownBoxes[b].set
  BY <1>3, BoxesClaimedAre
<1>11. \A kind, owner, id : NameFits(lists, kind, owner, id) => NameFits(rows, kind, NewOwner(owner, user), id)
  <2>1. SUFFICES ASSUME NEW kind, NEW owner, NEW id, NEW l \in Of(lists, kind, owner), l.id = id, ~l.standard
                 PROVE  \E n \in Of(rows, kind, NewOwner(owner, user)) : n.id = id /\ ~n.standard
    BY DEF NameFits
  <2>2. l \in lists /\ l.kind = kind /\ l.owner = owner
    BY DEF Of
  <2>3. MovesTo(lists, l, user) <=> owner = ""
    BY <2>1, <2>2 DEF MovesTo
  <2>4. PICK n \in rows : /\ n.kind = l.kind /\ n.id = l.id /\ n.standard = l.standard
                         /\ n.owner = IF MovesTo(lists, l, user) THEN user ELSE l.owner
    BY <1>9, <2>2
  <2>5. n.owner = NewOwner(owner, user)
    BY <2>2, <2>3, <2>4 DEF NewOwner
  <2>6. n \in Of(rows, kind, NewOwner(owner, user))
    BY <2>2, <2>4, <2>5 DEF Of
  <2> QED
    BY <2>1, <2>4, <2>6
<1>12. \A kind, owner : Standard(lists, kind, owner) # {} => Standard(rows, kind, NewOwner(owner, user)) # {}
  <2>1. SUFFICES ASSUME NEW kind, NEW owner, NEW l \in Standard(lists, kind, owner)
                 PROVE  Standard(rows, kind, NewOwner(owner, user)) # {}
    OBVIOUS
  <2>2. l \in lists /\ l.kind = kind /\ l.owner = owner /\ l.standard
    BY DEF Standard, Of
  <2>3. PICK k \in lists : /\ k.kind = kind /\ k.standard
                          /\ NewOwner(owner, user) = IF MovesTo(lists, k, user) THEN user ELSE k.owner
    <3>1. CASE owner # ""
      BY <2>2, <3>1 DEF MovesTo, NewOwner
    <3>2. CASE owner = "" /\ Standard(lists, kind, user) = {}
      BY <2>2, <3>2 DEF MovesTo, NewOwner
    <3>3. CASE owner = "" /\ Standard(lists, kind, user) # {}
      BY <1>1, <3>3 DEF MovesTo, NewOwner, Standard, Of
    <3> QED
      BY <3>1, <3>2, <3>3
  <2>4. PICK n \in rows : /\ n.kind = k.kind /\ n.standard = k.standard
                         /\ n.owner = IF MovesTo(lists, k, user) THEN user ELSE k.owner
    BY <1>9
  <2>5. n \in Standard(rows, kind, NewOwner(owner, user))
    BY <2>3, <2>4 DEF Standard, Of
  <2> QED
    BY <2>5
<1>13. BoxesFit(rows, boxes)
  <2>1. boxes \in [DOMAIN boxes -> OwnBoxRow]
    BY <1>3, <1>10 DEF BoxesClaimed
  <2> QED
    BY <1>6, <1>10, <1>11, <2>1 DEF BoxesFit
<1>14. BoxesServed(rows, boxes)
  BY <1>6, <1>10, <1>12 DEF BoxesServed, HasProfile
<1>15. Pushed(rows, table, boxes)
  BY <1>5, <1>13, <1>14, PushesOnly
<1>16. LeftFits(rows, boxes, user)
  <2>1. \A b \in DOMAIN boxes : boxes[b].owner # ""
    BY <1>1, <1>10 DEF NewOwner
  <2>2. ASSUME NEW n \in rows, n.owner = "" PROVE n.standard /\ Standard(rows, n.kind, user) # {}
    <3>1. PICK l \in lists : /\ n.kind = l.kind /\ n.standard = l.standard
                            /\ IF MovesTo(lists, l, user) THEN n.owner = user ELSE n = l
      BY <1>8
    <3>2. ~MovesTo(lists, l, user) /\ l.owner = ""
      BY <1>1, <2>2, <3>1
    <3>3. l.standard /\ Standard(lists, l.kind, user) # {}
      BY <3>2 DEF MovesTo
    <3>4. NewOwner(user, user) = user
      BY DEF NewOwner
    <3> QED
      BY <1>12, <3>1, <3>3, <3>4
  <2> QED
    BY <2>1, <2>2 DEF LeftFits
<1>17. creating = NoCreate /\ CreateFits(rows, NoCreate)
  BY <1>5, <1>7, NoCreateFits DEF OwnersInv, PendingFits
<1>18. DOMAIN table \subseteq Owner \X SecretName
  BY <1>4, ClaimedStaysInside DEF OwnersInv
<1>19. EnvsFit(boxEnvs, table, boxes, torn')
  BY <1>5, EnvsAreTorn
<1>20. ProcessFits' /\ PendingFits'
  BY <1>5, <1>17 DEF ProcessFits, PendingFits, OwnersInv
<1> QED
  BY <1>5, <1>7, <1>10, <1>13, <1>14, <1>15, <1>16, <1>17, <1>18, <1>19, <1>20 DEF OwnersInv, TablesFit, Pushed

(***************************************************************************)
(* What the invariant says of the profiles.                                *)
(***************************************************************************)

\* A box that names a profile has that one, and the others the default of their owner.
LEMMA ForBoxFinds ==
  ASSUME NEW rows, RowsFit(rows), NEW box, HasProfile(rows, box), NameFits(rows, "profile", box.owner, box.profile)
  PROVE  \E l \in Of(rows, "profile", box.owner) :
           /\ ForBox(rows, "profile", box.owner, box.profile) = l
           /\ IF box.profile = NoList THEN l.standard ELSE l.id = box.profile
<1>1. CASE box.profile = NoList
  <2>1. Selected(rows, "profile", box.owner, box.profile) = {}
    BY <1>1 DEF Selected, Of, RowsFit, ListRow
  <2>2. Standard(rows, "profile", box.owner) # {}
    BY <1>1 DEF HasProfile
  <2>3. ForBox(rows, "profile", box.owner, box.profile) \in Standard(rows, "profile", box.owner)
    BY <2>1, <2>2 DEF ForBox
  <2> QED
    BY <1>1, <2>3 DEF Standard
<1>2. CASE box.profile # NoList
  <2>1. Selected(rows, "profile", box.owner, box.profile) # {}
    BY <1>2 DEF NameFits, Selected
  <2>2. ForBox(rows, "profile", box.owner, box.profile) \in Selected(rows, "profile", box.owner, box.profile)
    BY <2>1 DEF ForBox
  <2> QED
    BY <1>2, <2>2 DEF Selected
<1> QED
  BY <1>1, <1>2

LEMMA CountedWhereUsed ==
  ASSUME OwnersInv
  PROVE  CountIsUse
<1> SUFFICES ASSUME NEW o \in Owner, NEW l \in Of(lists, "profile", o)
             PROVE  BoxCount(l) = Cardinality({b \in DOMAIN ownBoxes :
                      ownBoxes[b].owner = o /\ ForBox(lists, "profile", o, ownBoxes[b].profile) = l})
  BY DEF CountIsUse
<1>1. l \in lists /\ l.kind = "profile" /\ l.owner = o /\ l.id # NoList /\ RowsFit(lists)
  BY DEF Of, OwnersInv, TablesFit, RowsFit, ListRow
<1>2. ASSUME NEW b \in DOMAIN ownBoxes
      PROVE  (\/ ownBoxes[b][l.kind] = l.id
              \/ l.kind = "profile" /\ l.standard /\ ownBoxes[b].profile = NoList /\ ownBoxes[b].owner = l.owner)
             <=> (ownBoxes[b].owner = o /\ ForBox(lists, "profile", o, ownBoxes[b].profile) = l)
  <2>1. PICK box : box = ownBoxes[b]
    OBVIOUS
  <2>2. NameFits(lists, "profile", box.owner, box.profile) /\ HasProfile(lists, box)
    BY <2>1 DEF OwnersInv, TablesFit, BoxesFit, BoxesServed
  <2>3. PICK m \in Of(lists, "profile", box.owner) :
          /\ ForBox(lists, "profile", box.owner, box.profile) = m
          /\ IF box.profile = NoList THEN m.standard ELSE m.id = box.profile
    BY <1>1, <2>2, ForBoxFinds
  <2>4. m \in lists /\ m.kind = "profile" /\ m.owner = box.owner
    BY <2>3 DEF Of
  <2>5. m.id = l.id => m = l
    BY <1>1, <2>4 DEF RowsFit
  <2>6. m.standard /\ l.standard /\ m.owner = l.owner => m = l
    BY <1>1, <2>4 DEF RowsFit
  <2>7. (box.profile = l.id \/ (l.standard /\ box.profile = NoList /\ box.owner = o)) <=> m = l
    BY <1>1, <2>2, <2>3, <2>4, <2>5, <2>6 DEF NameFits, Of, RowsFit
  <2>8. m = l <=> (box.owner = o /\ ForBox(lists, "profile", o, box.profile) = l)
    BY <1>1, <2>3, <2>4
  <2> QED
    BY <1>1, <2>1, <2>7, <2>8
<1>3. {b \in DOMAIN ownBoxes :
         \/ ownBoxes[b][l.kind] = l.id
         \/ l.kind = "profile" /\ l.standard /\ ownBoxes[b].profile = NoList /\ ownBoxes[b].owner = l.owner}
      = {b \in DOMAIN ownBoxes : ownBoxes[b].owner = o /\ ForBox(lists, "profile", o, ownBoxes[b].profile) = l}
  BY <1>2
<1> QED
  BY <1>3 DEF BoxCount

LEMMA OwnersInvSays ==
  ASSUME OwnersInv
  PROVE  OwnersAreApart
<1>1. OwnersTypeOK
  <2>1. \A l \in lists : l.kind \in ListKind /\ l.id \in Nat \ {NoList} /\ l.owner \in Owner
    BY DEF OwnersInv, TablesFit, RowsFit, ListRow
  <2>2. DOMAIN ownBoxes \subseteq OwnBox
    BY DEF OwnersInv, TablesFit, BoxesFit
  <2> QED
    BY <2>1, <2>2 DEF OwnersTypeOK, OwnersInv, ProcessFits
<1>2. NamesAreOfOwner
  <2>1. ASSUME NEW b \in DOMAIN ownBoxes
        PROVE  /\ NameFits(lists, "profile", ownBoxes[b].owner, ownBoxes[b]["profile"])
               /\ NameFits(lists, "set", ownBoxes[b].owner, ownBoxes[b]["set"])
    BY DEF OwnersInv, TablesFit, BoxesFit
  <2> QED
    BY <2>1 DEF NamesAreOfOwner, NameFits, ListKind
<1>3. CountIsUse
  BY CountedWhereUsed
<1>4. PolicyFollowsRows
  BY DEF PolicyFollowsRows, OwnersInv
<1>5. ContainersReachTheirSecrets
  <2> SUFFICES ASSUME NEW b \in DOMAIN boxEnvs, NEW n \in SecretName, boxEnvs[b][n] # 0, <<b, n>> \notin torn
               PROVE  \E s \in told.secrets : s.row = <<ownBoxes[b].owner, n>> /\ s.placeholder = boxEnvs[b][n]
    BY DEF ContainersReachTheirSecrets
  <2>1. PICK k : k = <<ownBoxes[b].owner, n>>
    OBVIOUS
  <2>2. k \in DOMAIN secrets /\ secrets[k].placeholder = boxEnvs[b][n]
    BY <2>1 DEF OwnersInv, EnvsFit
  <2>3. told.secrets = {[row |-> j, placeholder |-> secrets[j].placeholder] : j \in DOMAIN secrets}
    BY DEF OwnersInv, Compose
  <2>4. [row |-> k, placeholder |-> secrets[k].placeholder] \in told.secrets
    BY <2>2, <2>3
  <2> QED
    BY <2>1, <2>2, <2>4
<1>6. NothingIsLeftBehind
  BY DEF NothingIsLeftBehind, OwnersInv, LeftFits
<1> QED
  BY <1>1, <1>2, <1>3, <1>4, <1>5, <1>6 DEF OwnersAreApart

\* Whatever the users, the restarts and the requests: what a box names is of its owner, each
\* box is counted where its policy comes from, the proxy knows what the tables hold, each
\* container reaches the secrets of its owner, and the first user is given what had none.
THEOREM OwnersAreAlwaysApart == OwnersSpec => []OwnersAreApart
<1>1. OwnersInit => OwnersInv
  BY OwnersStart
<1>2. OwnersInv /\ [OwnersNext]_ownerVars => OwnersInv'
  <2> SUFFICES ASSUME OwnersInv, [OwnersNext]_ownerVars PROVE OwnersInv'
    OBVIOUS
  <2>1. CASE UNCHANGED ownerVars
    BY <2>1 DEF ownerVars, processVars, tableVars, OwnersInv, ProcessFits, PendingFits
  <2>2. CASE ProcessRestarts \/ BootEnds \/ RefreshWritesRow \/ BoxIsInserted
    BY <2>2, ProcessRestartsKeeps, BootEndsKeeps, RefreshWritesKeeps, BoxIsInsertedKeeps
  <2>3. CASE \E k \in DOMAIN secrets : RefreshTakesRow(k)
    BY <2>3, RefreshTakesKeeps
  <2>4. CASE \E b \in OwnBox : ContainerIsMade(b)
    BY <2>4, ContainerIsMadeKeeps
  <2>5. CASE \E u \in NamedUser : FirstUserComes(u)
    BY <2>5, FirstUserComesKeeps
  <2>6. ASSUME NEW u \in Owner, NEW n \in SecretName,
               SecretIsRemoved(u, n) \/ \E s \in (IF n = "key" THEN Shape ELSE {"long"}) : SecretIsPut(u, n, s)
        PROVE  OwnersInv'
    BY <2>6, SecretIsRemovedKeeps, SecretIsPutKeeps
  <2>7. ASSUME NEW u \in Owner, NEW k \in ListKind, ListsAreRead(u, k) \/ ListIsCreated(u, k) PROVE OwnersInv'
    BY <2>7, ListsAreReadKeeps, ListIsCreatedKeeps
  <2>8. ASSUME NEW u \in Owner, NEW l \in lists, ProfileIsChanged(u, l) \/ ListIsDeleted(u, l) PROVE OwnersInv'
    BY <2>8, ProfileIsChangedKeeps, ListIsDeletedKeeps
  <2>9. ASSUME NEW u \in Owner, NEW b \in OwnBox,
               \/ OwnedBoxIsDeleted(u, b)
               \/ \E p \in Ids : BoxChangesProfile(u, b, p) \/ \E s \in Ids : CreateIsAsked(u, b, p, s)
        PROVE  OwnersInv'
    BY <2>9, OwnedBoxIsDeletedKeeps, BoxChangesProfileKeeps, CreateIsAskedKeeps
  <2> QED
    BY <2>1, <2>2, <2>3, <2>4, <2>5, <2>6, <2>7, <2>8, <2>9 DEF OwnersNext
<1>3. OwnersInv => OwnersAreApart
  BY OwnersInvSays
<1> QED
  BY <1>1, <1>2, <1>3, PTL DEF OwnersSpec
=============================================================================
