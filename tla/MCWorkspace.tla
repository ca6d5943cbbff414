------------------------------ MODULE MCWorkspace ------------------------------
(***************************************************************************)
(* What a box holds and how the orchestrator works on it, checked for      *)
(* safety in one run: the files of the workspace, the agent sets in the    *)
(* home, and the review: its comments and their anchors, its snapshots,    *)
(* its tree and its diffs, and its page.  They share no state: a behaviour *)
(* is one of a single module, and the variables of the others keep one     *)
(* initial value.                                                          *)
(***************************************************************************)
EXTENDS FileService, AgentSets, ReviewComments, ReviewSnapshots, ReviewTree, ReviewText,
        ReviewAnchors, ReviewPane

VARIABLE part    \* the module that the behaviour belongs to

pageVars == <<snapshotVars, treeVars, diffVars, reviewTextVars>>
notesVars == <<commentVars, anchorVars, reviewPaneVars>>
workspaceParts == <<part, fileServiceVars, setVars, notesVars, pageVars>>

\* The boxes and the files of the review page are interchangeable.
AnyOf(S) == CHOOSE x \in S : TRUE

MCWorkspaceInit ==
  /\ part \in {"files", "sets", "comments", "snapshots", "tree", "diff", "text", "anchors", "pane"}
  /\ FileInit /\ (part # "files" => content = NoFile)
  /\ SetsInit
  /\ CommentsInit
  /\ AnchorsInit /\ (part # "anchors" => source = <<>>)
  /\ SnapshotsInit /\ ReviewTextInit
  /\ ReviewPaneInit /\ pageBox = AnyOf(PaneBox) /\ inUrl = AnyOf(PanePath)
  /\ IF part = "tree" THEN ReviewTreeInit ELSE
       /\ inCommit = <<>> /\ inIndex = <<>> /\ onDisk = <<>> /\ treeRepos = {}
       /\ withBase = FALSE /\ outer = "none" /\ shown = NoTree
  /\ IF part = "diff" THEN DiffInit ELSE hunks = <<>> /\ marked = NoMarks

MCWorkspaceNext ==
  /\ UNCHANGED part
  /\ \/ /\ part = "files" /\ FileNext
        /\ UNCHANGED <<setVars, notesVars, pageVars>>
     \/ /\ part = "sets" /\ SetsNext
        /\ UNCHANGED <<fileServiceVars, notesVars, pageVars>>
     \/ /\ part = "comments" /\ CommentsNext
        /\ UNCHANGED <<fileServiceVars, setVars, anchorVars, reviewPaneVars, pageVars>>
     \/ /\ part = "anchors" /\ AnchorsNext
        /\ UNCHANGED <<fileServiceVars, setVars, commentVars, reviewPaneVars, pageVars>>
     \/ /\ part = "pane" /\ ReviewPaneNext
        /\ UNCHANGED <<fileServiceVars, setVars, commentVars, anchorVars, pageVars>>
     \/ /\ part = "snapshots" /\ SnapshotsNext
        /\ UNCHANGED <<fileServiceVars, setVars, notesVars, treeVars, diffVars, reviewTextVars>>
     \/ /\ part = "tree" /\ PageReadsTree
        /\ UNCHANGED <<fileServiceVars, setVars, notesVars, snapshotVars, diffVars, reviewTextVars>>
     \/ /\ part = "diff" /\ FileIsDiffed
        /\ UNCHANGED <<fileServiceVars, setVars, notesVars, snapshotVars, treeVars, reviewTextVars>>
     \/ /\ part = "text" /\ ReviewTextNext
        /\ UNCHANGED <<fileServiceVars, setVars, notesVars, snapshotVars, treeVars, diffVars>>

MCWorkspaceSpec == MCWorkspaceInit /\ [][MCWorkspaceNext]_workspaceParts

\* SnapshotsAreOfNow, TreeIsTrue, MarksAreTrue and PaneIsTrue: what a page of the review shows
\* of the workspace is of now, and true (ReviewService.snapshot, dirEntries, parseDiff, and
\* the store of the page, review.ts).
ReviewIsTrue ==
  /\ part = "snapshots" => SnapshotsAreOfNow
  /\ part = "tree" => TreeIsTrue
  /\ part = "diff" => MarksAreTrue
  /\ part = "pane" => PaneIsTrue
=============================================================================
