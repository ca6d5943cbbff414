---------------------------- MODULE ReviewSnapshots ----------------------------
(***************************************************************************)
(* What git says of the workspace of a box, as the review keeps it         *)
(* (ReviewService of review/service.ts): one snapshot, which requests      *)
(* share, take anew, and drop when they change the base or save a file.    *)
(*                                                                         *)
(* A take awaits git several times: it finds the repositories, reads the   *)
(* base of the row and resolves it, and then reads the files.  A number    *)
(* stands for what the files hold.                                         *)
(***************************************************************************)
EXTENDS Naturals, FiniteSets

CONSTANTS Reader,      \* the requests
          Rev,         \* the revisions that a base can name
          MaxTakes, MaxFileChanges

ASSUME SnapshotAssumption == MaxTakes \in Nat /\ MaxFileChanges \in Nat

VARIABLES
  baseRev,       \* boxes.review_base_rev
  wsFiles,       \* what the files of the workspace hold
  held,          \* ReviewService.snapshots
  old,           \* the held snapshot is older than SNAPSHOT_MS
  taking,        \* ReviewService.taking: the take that requests join
  takeStep,      \* how far each take is
  taken,         \* what it has read
  takes,
  what,          \* what each request is for
  readerStep,
  joined,        \* the take that it waits for
  seen,          \* the snapshot that it works with
  fileChanges,
  \* For the properties.
  basesSince,    \* the bases of the row since the request began
  saved,         \* what the files held after the last save that has returned
  savedBefore    \* the same, when the request began

sharedVars == <<held, old, taking>>
takeVars == <<takeStep, taken, takes>>
readerVars == <<what, readerStep, joined, seen, basesSince, savedBefore>>
snapshotVars == <<baseRev, wsFiles, fileChanges, sharedVars, takeVars, readerVars, saved>>

HeadRev == "HEAD"
Bases == Rev \cup {HeadRev}
TakeId == 1..MaxTakes
NoTake == 0
Snapshot == [base : Bases, files : 0..MaxFileChanges]
NoSnapshot == [base |-> HeadRev, files |-> MaxFileChanges + 1]
Looking == {"dir", "freshDir", "file"}

SnapshotsTypeOK ==
  /\ baseRev \in Bases /\ wsFiles \in 0..MaxFileChanges
  /\ held \in Snapshot \cup {NoSnapshot} /\ old \in BOOLEAN
  /\ taking \in TakeId \cup {NoTake}
  /\ takeStep \in [TakeId -> {"free", "discovers", "reads", "describes", "over", "failed"}]
  /\ taken \in [TakeId -> Snapshot]
  /\ what \in [Reader -> Looking \cup {"setBase", "save", "none"}]
  /\ readerStep \in [Reader -> {"new", "writes", "wrote", "asks", "joins", "has",
                           "resolves", "done", "error"}]
  /\ joined \in [Reader -> TakeId \cup {NoTake}]

SnapshotsInit ==
  /\ baseRev = HeadRev /\ wsFiles = 0 /\ fileChanges = 0
  /\ held = NoSnapshot /\ old = FALSE /\ taking = NoTake
  /\ takeStep = [t \in TakeId |-> "free"] /\ takes = 0
  /\ taken = [t \in TakeId |-> [base |-> HeadRev, files |-> 0]]
  /\ what = [r \in Reader |-> "none"] /\ readerStep = [r \in Reader |-> "new"]
  /\ joined = [r \in Reader |-> NoTake] /\ seen = [r \in Reader |-> NoSnapshot]
  /\ basesSince = [r \in Reader |-> {}]
  /\ saved = 0 /\ savedBefore = [r \in Reader |-> 0]

(***************************************************************************)
(* Takes.                                                                  *)
(***************************************************************************)

\* take: a new one, which the requests from now on join.
TakeBegins ==
  /\ takes < MaxTakes
  /\ takes' = takes + 1
  /\ takeStep' = [takeStep EXCEPT ![takes + 1] = "discovers"]
  /\ taking' = takes + 1

NoTakeBegins == UNCHANGED <<takes, takeStep, taking>>

\* discoverRepos answers, and the row is read.
TakeReadsBase(t) ==
  /\ takeStep[t] = "discovers"
  /\ takeStep' = [takeStep EXCEPT ![t] = "reads"]
  /\ taken' = [taken EXCEPT ![t].base = baseRev]
  /\ UNCHANGED <<baseRev, wsFiles, fileChanges, sharedVars, takes, readerVars, saved>>

\* workspaceStatuses, after resolveBases.
TakeReadsFiles(t) ==
  /\ takeStep[t] = "reads"
  /\ takeStep' = [takeStep EXCEPT ![t] = "describes"]
  /\ taken' = [taken EXCEPT ![t].files = wsFiles]
  /\ UNCHANGED <<baseRev, wsFiles, fileChanges, sharedVars, takes, readerVars, saved>>

\* A mutant: a take that was replaced or dropped is kept too.
TakeEnds_Kept(t) ==
  /\ takeStep[t] = "describes"
  /\ takeStep' = [takeStep EXCEPT ![t] = "over"]
  /\ held' = taken[t] /\ old' = FALSE
  /\ taking' = IF taking = t THEN NoTake ELSE taking
  /\ UNCHANGED <<baseRev, wsFiles, fileChanges, taken, takes, readerVars, saved>>

\* Only the take of now is held.
TakeEnds(t) ==
  /\ takeStep[t] = "describes"
  /\ takeStep' = [takeStep EXCEPT ![t] = "over"]
  /\ IF taking = t
       THEN held' = taken[t] /\ old' = FALSE /\ taking' = NoTake
       ELSE UNCHANGED sharedVars
  /\ UNCHANGED <<baseRev, wsFiles, fileChanges, taken, takes, readerVars, saved>>

\* Git or the file service fails.
TakeFails(t) ==
  /\ takeStep[t] \in {"discovers", "reads"}
  /\ takeStep' = [takeStep EXCEPT ![t] = "failed"]
  /\ taking' = IF taking = t THEN NoTake ELSE taking
  /\ UNCHANGED <<baseRev, wsFiles, fileChanges, held, old, taken, takes, readerVars, saved>>

SnapshotAges ==
  /\ held # NoSnapshot /\ ~old
  /\ old' = TRUE
  /\ UNCHANGED <<baseRev, wsFiles, fileChanges, held, taking, takeVars, readerVars, saved>>

(***************************************************************************)
(* The requests.                                                           *)
(***************************************************************************)

ReaderBegins(r, w) ==
  /\ readerStep[r] = "new"
  /\ what' = [what EXCEPT ![r] = w] /\ readerStep' = [readerStep EXCEPT ![r] = IF w = "save" THEN "writes" ELSE "asks"]
  /\ basesSince' = [basesSince EXCEPT ![r] = {baseRev}]
  /\ savedBefore' = [savedBefore EXCEPT ![r] = saved]
  /\ UNCHANGED <<baseRev, wsFiles, fileChanges, sharedVars, takeVars, joined, seen, saved>>


ReaderGoesTo(r, step) == readerStep' = [readerStep EXCEPT ![r] = step]

\* invalidate.
Invalidates == held' = NoSnapshot /\ old' = FALSE /\ taking' = NoTake

\* snapshot: a fresh one is taken; one that is held is used, and replaced in the
\* background when it is old; without one, the take of now is joined, or one begins.
SnapshotIsAsked(r) ==
  /\ readerStep[r] = "asks"
  /\ IF what[r] # "freshDir" /\ held # NoSnapshot
       THEN /\ seen' = [seen EXCEPT ![r] = held] /\ ReaderGoesTo(r, "has")
            /\ IF old /\ taking = NoTake THEN TakeBegins ELSE NoTakeBegins
            /\ UNCHANGED joined
       ELSE /\ IF what[r] # "freshDir" /\ taking # NoTake THEN NoTakeBegins ELSE TakeBegins
            /\ joined' = [joined EXCEPT ![r] = taking'] /\ ReaderGoesTo(r, "joins")
            /\ UNCHANGED seen
  /\ UNCHANGED <<baseRev, wsFiles, fileChanges, held, old, taken, what, basesSince, saved, savedBefore>>

JoinedTakeEnds(r) ==
  /\ readerStep[r] = "joins" /\ takeStep[joined[r]] \in {"over", "failed"}
  /\ IF takeStep[joined[r]] = "over"
       THEN ReaderGoesTo(r, "has") /\ seen' = [seen EXCEPT ![r] = taken[joined[r]]]
       ELSE ReaderGoesTo(r, "error") /\ UNCHANGED seen
  /\ UNCHANGED <<baseRev, wsFiles, fileChanges, sharedVars, takeVars, what, joined, basesSince, saved, savedBefore>>

\* dir and file answer; setBase goes on to resolve the revision.
SnapshotIsUsed(r) ==
  /\ readerStep[r] = "has"
  /\ ReaderGoesTo(r, IF what[r] = "setBase" THEN "resolves" ELSE "done")
  /\ UNCHANGED <<baseRev, wsFiles, fileChanges, sharedVars, takeVars, what, joined, seen, basesSince, saved, savedBefore>>

\* setBase: the row and the snapshot change together, or the revision names nothing.
BaseIsSet(r) ==
  /\ readerStep[r] = "resolves"
  /\ \/ /\ \E b \in Bases :
             /\ baseRev' = b
             /\ basesSince' = [q \in Reader |-> basesSince[q] \cup {b}]
        /\ Invalidates /\ ReaderGoesTo(r, "done")
     \/ ReaderGoesTo(r, "error") /\ UNCHANGED <<baseRev, basesSince, held, old, taking>>
  /\ UNCHANGED <<wsFiles, fileChanges, takeVars, what, joined, seen, saved, savedBefore>>

\* writeFile: the file service writes, and its reply drops the snapshot.
FileIsSaved(r) ==
  /\ readerStep[r] = "writes" /\ fileChanges < MaxFileChanges
  /\ fileChanges' = fileChanges + 1 /\ wsFiles' = wsFiles + 1
  /\ ReaderGoesTo(r, "wrote")
  /\ UNCHANGED <<baseRev, sharedVars, takeVars, what, joined, seen, basesSince, saved, savedBefore>>

SaveIsAnswered(r) ==
  /\ readerStep[r] = "wrote"
  /\ Invalidates
  /\ saved' = wsFiles
  /\ ReaderGoesTo(r, "asks")
  /\ UNCHANGED <<baseRev, wsFiles, fileChanges, takeVars, what, joined, seen, basesSince, savedBefore>>

AgentChangesFiles ==
  /\ fileChanges < MaxFileChanges
  /\ fileChanges' = fileChanges + 1 /\ wsFiles' = wsFiles + 1
  /\ UNCHANGED <<baseRev, sharedVars, takeVars, readerVars, saved>>

SnapshotsNext ==
  \/ SnapshotAges \/ AgentChangesFiles
  \/ \E t \in TakeId : TakeReadsBase(t) \/ TakeReadsFiles(t) \/ TakeEnds(t) \/ TakeFails(t)
  \/ \E r \in Reader :
       \/ \E w \in Looking \cup {"setBase", "save"} : ReaderBegins(r, w)
       \/ SnapshotIsAsked(r) \/ JoinedTakeEnds(r) \/ SnapshotIsUsed(r)
       \/ BaseIsSet(r) \/ FileIsSaved(r) \/ SaveIsAnswered(r)

SnapshotsSpec == SnapshotsInit /\ [][SnapshotsNext]_snapshotVars

(***************************************************************************)
(* Properties.                                                             *)
(***************************************************************************)

\* The snapshot that requests share compares with the base of the row, and shows every
\* save that has been answered, whatever takes were under way when the base changed or
\* the file was saved.
HeldSnapshotIsOfNow ==
  held # NoSnapshot => held.base = baseRev /\ held.files >= saved

\* A request answers from a base that the row had while it ran, with every save that
\* was answered before it began.
AnswersAreOfNow ==
  \A r \in Reader :
    seen[r] # NoSnapshot => seen[r].base \in basesSince[r] /\ seen[r].files >= savedBefore[r]

SnapshotsAreOfNow == SnapshotsTypeOK /\ HeldSnapshotIsOfNow /\ AnswersAreOfNow
=============================================================================
