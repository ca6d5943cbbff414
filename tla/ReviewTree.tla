------------------------------- MODULE ReviewTree -------------------------------
(***************************************************************************)
(* The file tree of a review (review/tree.ts, treeRepos.ts, gitstatus.ts, and  *)
(* children of service.ts): what the folders of a workspace with nested    *)
(* repositories show of the files on disk and of what git reports, against *)
(* what is true of the files.                                              *)
(*                                                                         *)
(* The files of the workspace are at three depths.  A number stands for    *)
(* the content of a file in a commit, in the index and on disk, 0 for no   *)
(* file.                                                                   *)
(***************************************************************************)
EXTENDS Naturals, Sequences, SequencesExt, FiniteSets, FiniteSetsExt

VARIABLES
  inCommit,     \* each file in HEAD, or in the base, of its repository
  inIndex,      \* each file in the index of its repository
  onDisk,
  treeRepos,        \* the repositories, by path
  withBase,     \* the review compares with a base
  outer,        \* what a repository around the one of the deepest file reports of it
  shown         \* the tree that a page has read, folder by folder

treeVars == <<inCommit, inIndex, onDisk, treeRepos, withBase, outer, shown>>

Top == <<"f">>
Middle == <<"a", "f">>
Deep == <<"a", "b", "f">>
Path == {Top, Middle, Deep}
Folder == {<<>>, <<"a">>, <<"a", "b">>}
Within(path, folder) == Len(folder) < Len(path) /\ IsPrefix(folder, path)
NoTree == [folders |-> {}, files |-> {}]

ReviewTreeInit ==
  /\ inCommit \in [Path -> 0..1] /\ inIndex \in [Path -> 0..2] /\ onDisk \in [Path -> 0..2]
  /\ inCommit[Top] = inIndex[Top] /\ onDisk[Top] # 2
  /\ inCommit[Middle] = inIndex[Middle] \/ inCommit[Deep] = inIndex[Deep]
  /\ treeRepos \in SUBSET Folder
  /\ withBase \in BOOLEAN
  /\ outer \in {"none", "D"}
  /\ shown = NoTree

(***************************************************************************)
(* The repositories.                                                       *)
(***************************************************************************)

NoRepo == <<"no repository">>
Encloses(repo, path) == IsPrefix(repo, path)
Innermost(p) ==
  IF \E r \in treeRepos : Encloses(r, p)
    THEN CHOOSE r \in treeRepos : Encloses(r, p) /\ \A s \in treeRepos : Encloses(s, p) => IsPrefix(s, r)
    ELSE NoRepo

\* RepoMap.repoFor: the repository with the longest path.
RepoFor(p) ==
  IF \E r \in treeRepos : Encloses(r, p)
    THEN CHOOSE r \in treeRepos : Encloses(r, p) /\ \A s \in treeRepos : Encloses(s, p) => Len(s) <= Len(r)
    ELSE NoRepo

(***************************************************************************)
(* What git reports.                                                       *)
(***************************************************************************)

\* git status --porcelain --no-renames: what differs between commit and index, and
\* between index and disk.
Porcelain(p) ==
  LET differs(from, to) == IF from = to THEN " " ELSE IF from = 0 THEN "A" ELSE IF to = 0 THEN "D" ELSE "M"
      tracked == [path |-> p, x |-> differs(inCommit[p], inIndex[p]), y |-> differs(inIndex[p], onDisk[p])]
  IN  IF inIndex[p] # 0 THEN tracked
      ELSE IF onDisk[p] # 0 THEN [path |-> p, x |-> "?", y |-> "?"]
      ELSE [tracked EXCEPT !.y = " "]

(***************************************************************************)
(* The statuses.                                                           *)
(***************************************************************************)

\* classifyStatus.
ClassifyStatus(x, y) ==
  CASE x = "?" /\ y = "?" -> "untracked"
    [] x = "A" -> "added"
    [] x = "D" -> "deleted"
    [] x = "M" -> IF y \in {"M", "D"} THEN "modified" ELSE "staged"
    [] x = " " -> IF y = "M" THEN "modified" ELSE IF y = "D" THEN "deleted" ELSE "none"

\* statusesSince: git diff --name-status from the base to the disk, and the untracked
\* files over it.
StatusSince(p) ==
  CASE inIndex[p] = 0 /\ onDisk[p] # 0 -> "untracked"
    [] onDisk[p] = 0 -> IF inCommit[p] # 0 THEN "deleted" ELSE "none"
    [] inIndex[p] # 0 /\ onDisk[p] # 0 ->
         IF inCommit[p] = 0 THEN "added" ELSE IF inCommit[p] # onDisk[p] THEN "modified" ELSE "none"

\* fileStatuses: what a repository says of a file; one that is around the repository of
\* the file may have an entry for it too.
Says(repo, p) ==
  IF repo # Innermost(p) THEN IF p = Deep THEN ClassifyStatus(" ", outer) ELSE "none"
  ELSE IF withBase THEN StatusSince(p)
  ELSE ClassifyStatus(Porcelain(p).x, Porcelain(p).y)

\* workspaceStatuses: a repository has its say only over the paths that it owns.
Statuses == [p \in Path |-> IF RepoFor(p) = NoRepo THEN "none" ELSE Says(RepoFor(p), p)]

(***************************************************************************)
(* The folders.                                                            *)
(***************************************************************************)

\* What is on disk.
Exists(folder) ==
  \/ \E p \in Path : onDisk[p] # 0 /\ Within(p, folder)
  \/ \E r \in treeRepos : IsPrefix(folder, r)

HoldsDeleted(statuses, folder) == \E p \in Path : statuses[p] = "deleted" /\ Within(p, folder)

\* children: a folder that is gone opens when it holds files that git reports deleted.
Opens(folder) == folder = <<>> \/ Exists(folder) \/ HoldsDeleted(Statuses, folder)

IsIn(path, folder) == Within(path, folder) /\ Len(path) = Len(folder) + 1

\* dirEntries: the files of a folder with their statuses, and the deleted ones.
FilesIn(folder, statuses) ==
  {[path |-> p, status |-> statuses[p]] :
     p \in {q \in Path : IsIn(q, folder) /\ (onDisk[q] # 0 \/ statuses[q] = "deleted")}}

\* dirEntries: its folders, on disk or with deleted files, marked when a file in them
\* has a status, or when they are repositories.
FoldersIn(folder, statuses) ==
  {[path |-> f, changed |-> \E p \in Path : statuses[p] # "none" /\ Within(p, f), repo |-> f \in treeRepos] :
     f \in {g \in Folder : IsIn(g, folder) /\ (Exists(g) \/ HoldsDeleted(statuses, g))}}

\* A page reads the folders from the root down.
FoldersBelow(folders, statuses) ==
  folders \cup UNION {{f.path : f \in FoldersIn(g, statuses)} : g \in folders}

PageReadsTree ==
  LET statuses == Statuses
      read == FoldersBelow(FoldersBelow({<<>>}, statuses), statuses)
  IN  /\ shown = NoTree
      /\ shown' = [folders |-> UNION {FoldersIn(g, statuses) : g \in read},
                   files   |-> UNION {FilesIn(g, statuses) : g \in read}]
      /\ UNCHANGED <<inCommit, inIndex, onDisk, treeRepos, withBase, outer>>

ReviewTreeSpec == ReviewTreeInit /\ [][PageReadsTree]_treeVars

(***************************************************************************)
(* Properties.                                                             *)
(***************************************************************************)

\* A file with a change in the index that was removed from the disk after: without a
\* base, the code takes it for modified, and so shows it nowhere.
RemovedAfterStaging(p) ==
  ~withBase /\ inCommit[p] # 0 /\ inIndex[p] \notin {0, inCommit[p]} /\ onDisk[p] = 0

\* What is true of a file.
TrueStatus(p) ==
  IF Innermost(p) = NoRepo THEN "none"
  ELSE
  CASE onDisk[p] = 0 -> IF inCommit[p] # 0 THEN "deleted" ELSE "none"
    [] onDisk[p] # 0 /\ inIndex[p] = 0 -> "untracked"
    [] onDisk[p] # 0 /\ inIndex[p] # 0 /\ inCommit[p] = 0 -> "added"
    [] OTHER -> CASE ~withBase /\ inIndex[p] # inCommit[p] -> IF onDisk[p] = inIndex[p] THEN "staged" ELSE "modified"
                  [] OTHER -> IF onDisk[p] = inCommit[p] THEN "none" ELSE "modified"

\* The tree shows every file that is on disk, and every one that was deleted since the
\* commit that the review compares with, each with its true status by the repository
\* that owns it; it shows no other; each folder that it shows opens; and a folder is
\* marked as changed when a file that it shows there is.
TreeIsTrue ==
  shown # NoTree =>
    /\ {f \in shown.files : ~RemovedAfterStaging(f.path)} =
         {[path |-> p, status |-> TrueStatus(p)] :
            p \in {q \in Path : onDisk[q] # 0 \/ (TrueStatus(q) = "deleted" /\ ~RemovedAfterStaging(q))}}
    /\ \A d \in shown.folders :
         /\ Opens(d.path)
         /\ (\E f \in shown.files : Within(f.path, d.path) /\ f.status # "none") => d.changed

(***************************************************************************)
(* How the review marks the lines of a file from the diff of git           *)
(* (parseDiff of review/difflines.ts), against what the diff says.  A diff *)
(* is a sequence of hunks, a hunk a sequence of lines: "=" unchanged, "-"  *)
(* removed, "+" added, and "\" for the missing newline at the end.         *)
(***************************************************************************)
CONSTANT MaxDiff    \* bound: the lines of the hunks together

ASSUME DiffAssumption == MaxDiff \in Nat

VARIABLES hunks,    \* the hunks, each with the line of the new file that it begins at
          marked    \* what parseDiff returns

diffVars == <<hunks, marked>>

Line == {"=", "-", "+"}
NoMarks == [lines |-> {}, deletions |-> {}]
CountOf(hunk, kinds) == Cardinality({i \in DOMAIN hunk.body : hunk.body[i] \in kinds})

\* One hunk, or two with unchanged lines between them.
DiffInit ==
  /\ \E one \in BoundedSeq(Line, MaxDiff) :
       \E two \in BoundedSeq(Line, MaxDiff - Len(one)) :
         LET first == [start |-> 1, body |-> one]
         IN  hunks = <<first, [start |-> CountOf(first, {"=", "+"}) + 4, body |-> two]>>
  /\ marked = NoMarks

(***************************************************************************)
(* parseDiff.                                                              *)
(***************************************************************************)

\* endRun: the lines that were removed and not replaced are a deletion.
EndRun(s) ==
  [s EXCEPT !.deletions = IF s.removed > 0 THEN @ \cup {[afterLine |-> s.newLine - 1, hunkIndex |-> s.hunk]} ELSE @,
            !.removed = 0, !.replacing = FALSE]

\* A new run of changes starts where the added lines stopped.
Removed(s) ==
  LET t == IF s.replacing THEN EndRun(s) ELSE s
  IN  [t EXCEPT !.removed = @ + 1]

Added(s) ==
  LET replaces == s.replacing \/ s.removed > 0
  IN  [s EXCEPT !.replacing = replaces, !.removed = 0, !.newLine = @ + 1,
                !.lines = @ \cup {[line |-> s.newLine, change |-> IF replaces THEN "modified" ELSE "added"]}]

ParseLine(s, line) ==
  CASE line = "=" -> [EndRun(s) EXCEPT !.newLine = @ + 1]
    [] line = "-" -> Removed(s)
    [] line = "+" -> Added(s)

\* A hunk header ends the hunk before it, and so does the end of the diff.
ParseHunk(s, hunk) ==
  LET parsed == EndRun(FoldLeft(ParseLine, [s EXCEPT !.newLine = hunk.start], hunk.body))
  IN  [parsed EXCEPT !.hunk = @ + 1]

ParseDiff(diff) ==
  LET s == FoldLeft(ParseHunk, [newLine |-> 0, removed |-> 0, replacing |-> FALSE, hunk |-> 0,
                                lines |-> {}, deletions |-> {}], diff)
  IN  [lines |-> s.lines, deletions |-> s.deletions]

FileIsDiffed ==
  /\ marked = NoMarks
  /\ marked' = ParseDiff(hunks)
  /\ UNCHANGED hunks

DiffSpec == DiffInit /\ [][FileIsDiffed]_diffVars

(***************************************************************************)
(* The property of a diff.                                                 *)
(***************************************************************************)

\* The line of the new file that the i-th line of a hunk is, or would be, at.
LineAt(hunk, i) == hunk.start + CountOf([hunk EXCEPT !.body = SubSeq(@, 1, i - 1)], {"=", "+"})
\* The removed lines right before it, with only added ones between.
IsReplaced(body, i) == \E j \in 1..(i - 1) : body[j] = "-" /\ \A k \in (j + 1)..(i - 1) : body[k] # "="
IsPlainRemoval(body, i) ==
  body[i] = "-" /\ (i = Len(body) \/ body[i + 1] = "=")

\* Each line that the diff adds is marked, as modified when it stands in for removed
\* lines, and each run of removed lines that nothing stands in for is a deletion after
\* the line before it, in its hunk.
MarksAreTrue ==
  marked # NoMarks =>
    /\ marked.lines =
         UNION {{[line |-> LineAt(hunks[h], i), change |-> IF IsReplaced(hunks[h].body, i) THEN "modified" ELSE "added"] :
                   i \in {j \in DOMAIN hunks[h].body : hunks[h].body[j] = "+"}} : h \in DOMAIN hunks}
    /\ marked.deletions =
         UNION {{[afterLine |-> LineAt(hunks[h], i) - 1, hunkIndex |-> h - 1] :
                   i \in {j \in DOMAIN hunks[h].body : IsPlainRemoval(hunks[h].body, j)}} : h \in DOMAIN hunks}
=============================================================================
