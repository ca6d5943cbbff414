------------------------------- MODULE ReviewPane -------------------------------
(***************************************************************************)
(* The page of a review: its store (stores/review.ts), the buffer of an    *)
(* edit (hooks/use-code-edit.ts), and the view that calls them             *)
(* (views/BoxReview.tsx).  The store is one for all boxes, and each answer *)
(* of the server can arrive after the reader has moved on.                 *)
(*                                                                         *)
(* A content is a number, which is its hash as well.  The files of a box   *)
(* are in one folder below the root, so the first answer for the root      *)
(* unfolds it.  What a listing says of git, the scroll offsets, the        *)
(* loading flags and the wording of an error are left out.                 *)
(***************************************************************************)
EXTENDS Naturals, Sequences, FiniteSets

CONSTANTS PaneBox,      \* the boxes that the reader reviews
          PanePath,     \* the files of each
          NoteLine,     \* the lines that a comment can be on
          MaxActs,      \* bound: moves and writes of the reader, and calls that fail
          MaxContents   \* bound: contents that the agent and the reader write

ASSUME ReviewPaneAssumption ==
  /\ "none" \notin PaneBox \cup PanePath
  /\ IsFiniteSet(PaneBox) /\ IsFiniteSet(PanePath) /\ IsFiniteSet(NoteLine)
  /\ MaxActs \in Nat /\ MaxContents \in Nat

VARIABLES
  \* The server.
  disk,        \* what each file holds
  notesOf,     \* the lines of each file that carry a comment
  contents,    \* the contents so far
  \* The page.
  pageBox,     \* the box of the view and of the store
  inUrl,       \* the path in the URL
  wantedPath,  \* requestedPath
  file,        \* the open file
  listing,     \* facts, dirs and expanded
  saving, composing,
  text,        \* the buffer of the edit
  conflict,
  calls,       \* the requests that are on their way
  paints,      \* the files whose tokens are being made
  acts,
  \* For the properties.
  strayed,     \* the page showed or asked for a file that its reader had moved on from
  muddled      \* a read and a write of comments were on their way together, or a call failed

servedVars == <<disk, notesOf, contents>>
paneVars == <<pageBox, inUrl, wantedPath, file, listing, saving, composing, text, conflict>>
flightVars == <<calls, paints, acts, strayed, muddled>>
reviewPaneVars == <<servedVars, paneVars, flightVars>>

Nowhere == "none"
NoBuffer == 0
NoPane == [box |-> Nowhere, path |-> Nowhere, text |-> NoBuffer, notes |-> {}]
NothingListed == [root |-> FALSE, marked |-> FALSE, sub |-> FALSE, open |-> FALSE, total |-> 0,
                  count |-> [p \in PanePath |-> 0]]

NotesPerFile(b) == [p \in PanePath |-> Cardinality(notesOf[<<b, p>>])]
SumOf(count) == Cardinality(UNION {{p} \X (1..count[p]) : p \in PanePath})
Dirty == text # NoBuffer /\ text # file.text

ReviewPaneTypeOK ==
  /\ disk \in [PaneBox \X PanePath -> 1..MaxContents]
  /\ notesOf \in [PaneBox \X PanePath -> SUBSET NoteLine] /\ contents \in 1..MaxContents
  /\ pageBox \in PaneBox /\ inUrl \in PanePath \cup {Nowhere} /\ wantedPath \in PanePath \cup {Nowhere}
  /\ file.notes \subseteq NoteLine /\ listing.total \in Nat /\ text \in 0..MaxContents
  /\ \A c \in calls : c.at \in {"asked", "answered", "failed", "refused", "lost"}

\* A file is open and the folder is listed; the other files of the box have comments.
ReviewPaneInit ==
  /\ disk = [p \in PaneBox \X PanePath |-> 1] /\ contents = 1
  /\ pageBox \in PaneBox /\ inUrl \in PanePath /\ wantedPath = inUrl
  /\ notesOf = [p \in PaneBox \X PanePath |-> IF p[1] = pageBox /\ p[2] # inUrl THEN NoteLine ELSE {}]
  /\ file = [box |-> pageBox, path |-> inUrl, text |-> 1, notes |-> {}]
  /\ listing = LET count == NotesPerFile(pageBox)
               IN  [root |-> TRUE, marked |-> SumOf(count) > 0, sub |-> TRUE, open |-> TRUE,
                    total |-> SumOf(count), count |-> count]
  /\ saving = FALSE /\ composing = FALSE
  /\ text = NoBuffer /\ conflict = FALSE /\ calls = {} /\ paints = {}
  /\ acts = 0
  /\ strayed = FALSE /\ muddled = FALSE

(***************************************************************************)
(* A call is a request with what the function does after its answer: then  *)
(* is the list of the functions that it awaits next, and prior, hash and   *)
(* text are what it holds from before the request.                         *)
(***************************************************************************)

PaneCall(kind, box, path, then) ==
  [kind |-> kind, box |-> box, path |-> path, then |-> then, at |-> "asked", mine |-> TRUE,
   line |-> {}, text |-> NoBuffer, hash |-> NoBuffer,
   prior |-> {}, notes |-> {}, count |-> NothingListed.count]
Ask(cs) == calls' = calls \cup cs

\* loadTree takes the open folders before its first request.
TreeLoad(then) ==
  PaneCall("root", pageBox', Nowhere, (IF listing'.open THEN <<"sub">> ELSE <<>>) \o then)

Reads == {"root", "sub", "file"}
CommentWrites == {"note", "unnote", "clear"}

\* The next function of a chain: loadTree, loadDir of the folder, or loadFile.  Each works on
\* the box that the store holds by then.
Continues(c, begun) ==
  LET next == Head(c.then)
      more == CASE c.then = <<>> -> {}
                [] c.then # <<>> /\ next = "tree" -> {[TreeLoad(Tail(c.then)) EXCEPT !.path = c.path]}
                [] OTHER -> {PaneCall(next, pageBox, c.path, Tail(c.then))}
      loads == c.then # <<>> /\ next = "file"
  IN  /\ calls' = (calls \ {c}) \cup begun \cup more
      /\ wantedPath' = IF loads THEN c.path ELSE wantedPath
      /\ strayed' = (strayed \/ (loads /\ (c.path # inUrl \/ c.box # pageBox)))

\* The pane shows a file, and its edit ends when the path is another one.
Shows(f) ==
  /\ file' = f
  /\ text' = IF f.path = file.path THEN text ELSE NoBuffer

(***************************************************************************)
(* The reader.  An exit asks first when there are unsaved edits, and ends  *)
(* the edit when the reader agrees.                                        *)
(***************************************************************************)

Acts == acts < MaxActs /\ acts' = acts + 1
Visits == Acts /\ UNCHANGED <<servedVars, paints, strayed>>

\* The view mounts: open, loadTree, and then loadFile or closeFile by the path in the URL.
ReaderArrives(b, p) ==
  /\ Visits /\ pageBox' = b /\ inUrl' = p /\ wantedPath' = p
  /\ composing' = FALSE /\ text' = NoBuffer /\ conflict' = FALSE
  /\ IF b = pageBox THEN UNCHANGED <<listing, saving>> ELSE listing' = NothingListed /\ saving' = FALSE
  /\ file' = IF b = pageBox /\ p # Nowhere THEN file ELSE NoPane
  /\ calls' = {[c EXCEPT !.mine = FALSE] : c \in calls} \cup {TreeLoad(<<>>)}
                \cup {PaneCall("file", b, q, <<>>) : q \in {p} \ {Nowhere}}

ReaderOpensFile(p) ==
  /\ Visits /\ p # inUrl /\ inUrl' = p /\ wantedPath' = p /\ composing' = FALSE
  /\ IF Dirty THEN text' = NoBuffer /\ conflict' = FALSE ELSE UNCHANGED <<text, conflict>>
  /\ Ask({PaneCall("file", pageBox, p, <<>>)})
  /\ UNCHANGED <<pageBox, file, listing, saving>>

ReaderClosesFile ==
  /\ Visits /\ inUrl # Nowhere /\ inUrl' = Nowhere /\ wantedPath' = Nowhere /\ composing' = FALSE
  /\ conflict' = (conflict /\ ~Dirty)
  /\ Shows(NoPane) /\ UNCHANGED <<pageBox, listing, saving>>
  /\ Ask({TreeLoad(<<>>)})

FolderIsToggled ==
  /\ Visits /\ listing.root
  /\ listing' = [listing EXCEPT !.open = ~@]
  /\ Ask(IF listing.open \/ listing.sub THEN {} ELSE {PaneCall("sub", pageBox, Nowhere, <<>>)})
  /\ UNCHANGED <<pageBox, inUrl, wantedPath, file, saving, composing, text, conflict>>

\* refresh, when the tab becomes visible again.
PageRefreshes ==
  /\ Visits /\ ~saving /\ ~Dirty /\ ~composing
  /\ UNCHANGED paneVars
  /\ Ask({[TreeLoad(IF file = NoPane THEN <<>> ELSE <<"file">>) EXCEPT !.path = file.path]})

ComposerIsToggled ==
  /\ file # NoPane /\ text = NoBuffer /\ composing' = ~composing
  /\ UNCHANGED <<servedVars, pageBox, inUrl, wantedPath, file, listing, saving, text, conflict, flightVars>>

EditStarts ==
  /\ file # NoPane /\ text = NoBuffer /\ text' = file.text /\ composing' = FALSE
  /\ UNCHANGED <<servedVars, pageBox, inUrl, wantedPath, file, listing, saving, conflict, flightVars>>

ReaderTypes ==
  /\ text # NoBuffer /\ \E t \in 1..MaxContents \ {text} : text' = t
  /\ UNCHANGED <<servedVars, pageBox, inUrl, wantedPath, file, listing, saving, composing, conflict, flightVars>>

EditReverts ==
  /\ Dirty /\ ~saving /\ text' = file.text
  /\ UNCHANGED <<servedVars, pageBox, inUrl, wantedPath, file, listing, saving, composing, conflict, flightVars>>

EditStops ==
  /\ text # NoBuffer /\ text' = NoBuffer /\ conflict' = FALSE
  /\ UNCHANGED <<servedVars, pageBox, inUrl, wantedPath, file, listing, saving, composing, flightVars>>

\* "Drop my changes": the edit ends and the file loads again.
ChangesAreDropped ==
  /\ Acts /\ conflict /\ file # NoPane /\ ~saving
  /\ text' = NoBuffer /\ conflict' = FALSE /\ composing' = FALSE
  /\ wantedPath' = file.path /\ strayed' = (strayed \/ file.path # inUrl)
  /\ Ask({PaneCall("file", pageBox, file.path, <<>>)})
  /\ UNCHANGED <<servedVars, paints, pageBox, inUrl, file, listing, saving>>

(***************************************************************************)
(* The writes.  The view disables each of them while one is in flight.     *)
(***************************************************************************)

Writes == Acts /\ ~saving /\ saving' = TRUE
          /\ UNCHANGED <<servedVars, pageBox, inUrl, wantedPath, listing, text, conflict,
                         paints, strayed>>

\* A save goes against the content of the file, and "Save anyway" against the one of now.
ReaderSavesFile(force) ==
  /\ Writes /\ file # NoPane /\ IF force THEN conflict /\ text # NoBuffer ELSE Dirty
  /\ Ask({[PaneCall(IF force THEN "hash" ELSE "save", pageBox, file.path, <<>>) EXCEPT
             !.text = text, !.hash = IF force THEN NoBuffer ELSE file.text]})
  /\ UNCHANGED <<file, composing>>

\* saveComment and deleteComment show the change at once.
CommentChanges(kind, l) ==
  /\ Writes /\ file # NoPane /\ text = NoBuffer
  /\ IF kind = "note" THEN composing ELSE l \in file.notes
  /\ Ask({[PaneCall(kind, pageBox, file.path, <<>>) EXCEPT !.line = {l}, !.prior = file.notes]})
  /\ file' = [file EXCEPT !.notes = IF kind = "note" THEN @ \cup {l} ELSE @ \ {l}]
  /\ composing' = FALSE

ReviewBeginsAnew ==
  /\ Writes /\ listing.total > 0
  /\ Ask({[PaneCall("clear", pageBox, file.path, <<"tree">>) EXCEPT !.text = file.text]})
  /\ UNCHANGED <<file, composing>>

ReaderSetsBase ==
  /\ Writes /\ listing.root
  /\ Ask({PaneCall("base", pageBox, file.path, IF file = NoPane THEN <<"tree">> ELSE <<"tree", "file">>)})
  /\ UNCHANGED <<file, composing>>

(***************************************************************************)
(* The server, and the agent that changes files.                           *)
(***************************************************************************)

Answers(c, answer) == calls' = (calls \ {c}) \cup {answer}
Place(c) == <<c.box, c.path>>

\* A save is refused when the file holds another content than the one of its hash.
ServerSaves(c) ==
  /\ c.kind = "save" /\ c.at = "asked"
  /\ IF disk[Place(c)] = c.hash
     THEN /\ disk' = [disk EXCEPT ![Place(c)] = c.text]
          /\ Answers(c, [c EXCEPT !.at = "answered", !.notes = notesOf[Place(c)]])
     ELSE Answers(c, [c EXCEPT !.at = "refused"]) /\ UNCHANGED disk
  /\ UNCHANGED <<notesOf, contents, paneVars, paints, acts, strayed>>

Commented(c, p) ==
  CASE c.kind = "clear" /\ p[1] = c.box -> {}
    [] c.kind = "note" /\ p = Place(c) -> notesOf[p] \cup c.line
    [] c.kind = "unnote" /\ p = Place(c) -> notesOf[p] \ c.line
    [] OTHER -> notesOf[p]
ServerChangesNotes(c) ==
  /\ c.kind \in CommentWrites /\ c.at = "asked"
  /\ notesOf' = [p \in DOMAIN notesOf |-> Commented(c, p)]
  /\ Answers(c, [c EXCEPT !.at = "answered",
                          !.notes = IF c.kind = "clear" THEN {} ELSE Commented(c, Place(c))])
  /\ UNCHANGED <<disk, contents, paneVars, paints, acts, strayed>>

ServerReads(c) ==
  /\ c.kind \in Reads \cup {"hash", "base"} /\ c.at = "asked"
  /\ Answers(c,
       CASE c.kind = "file" -> [c EXCEPT !.at = "answered", !.text = disk[Place(c)], !.notes = notesOf[Place(c)]]
         [] c.kind = "hash" -> [c EXCEPT !.at = "answered", !.hash = disk[Place(c)]]
         [] c.kind = "base" -> [c EXCEPT !.at = "answered"]
         [] OTHER -> [c EXCEPT !.at = "answered", !.count = NotesPerFile(c.box)])
  /\ UNCHANGED <<servedVars, paneVars, paints, acts, strayed>>

\* The request or its answer is lost.
PageCallFails(c) ==
  /\ c.at \in {"asked", "answered"} /\ Acts
  /\ Answers(c, [c EXCEPT !.at = IF c.at = "asked" THEN "failed" ELSE "lost"])
  /\ UNCHANGED <<servedVars, paneVars, paints, strayed>>

\* The agent of the box of the page.
AgentWritesFile(p) ==
  /\ contents < MaxContents /\ contents' = contents + 1
  /\ disk' = [disk EXCEPT ![<<pageBox, p>>] = contents']
  /\ UNCHANGED <<notesOf, paneVars, flightVars>>

(***************************************************************************)
(* The page takes an answer.                                               *)
(***************************************************************************)

Arrives(c, kinds) == c.kind \in kinds /\ c.at # "asked"
                     /\ UNCHANGED <<servedVars, pageBox, inUrl, acts>>

\* loadDir drops the answer of a box that the store has left.  The first answer for the
\* root unfolds its only folder and loads it.
Listed(c) ==
  LET all == [listing EXCEPT !.total = SumOf(c.count)]
  IN  IF c.at # "answered" \/ c.box # pageBox THEN listing
      ELSE IF c.kind = "sub" THEN [all EXCEPT !.sub = TRUE, !.count = c.count]
      ELSE [all EXCEPT !.root = TRUE, !.marked = SumOf(c.count) > 0, !.open = @ \/ ~listing.root]
ListingArrives(c) ==
  /\ Arrives(c, {"root", "sub"})
  /\ listing' = Listed(c)
  /\ Continues(c, IF listing'.open /\ ~listing.open THEN {PaneCall("sub", pageBox, Nowhere, <<>>)} ELSE {})
  /\ composing' = (composing /\ ~(c.then # <<>> /\ Head(c.then) = "file"))
  /\ UNCHANGED <<file, saving, text, conflict, paints>>

StillWanted(c) == pageBox = c.box /\ wantedPath = c.path

Painted(f, then) == [file |-> f, then |-> then]
Held(c) == [box |-> c.box, path |-> c.path, text |-> c.text, notes |-> c.notes]

\* loadFile: an answer shows the file, and a failure closes it.
FileArrives(c) ==
  /\ Arrives(c, {"file"}) /\ calls' = calls \ {c}
  /\ CASE ~StillWanted(c) -> UNCHANGED <<file, text, paints>>
       [] StillWanted(c) /\ c.at = "answered" -> Shows(Held(c)) /\ paints' = paints \cup {Painted(Held(c), FALSE)}
       [] OTHER -> Shows(NoPane) /\ UNCHANGED paints
  /\ UNCHANGED <<wantedPath, listing, saving, composing, conflict, strayed>>

\* The tokens of a file are added to the file that they were made for.  A save loads the
\* listing only then.
PaintArrives(p, given) ==
  /\ paints' = paints \ {p}
  /\ LET fits == given /\ file.path = p.file.path
     IN  /\ file' = IF fits THEN p.file ELSE file
         /\ strayed' = (strayed \/ (fits /\ file.box # p.file.box))
  /\ UNCHANGED <<servedVars, pageBox, inUrl, wantedPath, listing, saving, composing, text, conflict,
                 acts>>
  /\ Ask(IF p.then THEN {TreeLoad(<<>>)} ELSE {})

\* "Save anyway" has read the hash.
HashArrives(c) ==
  /\ Arrives(c, {"hash"})
  /\ saving' = (saving /\ c.at = "answered")
  /\ Answers(c, [c EXCEPT !.kind = "save", !.at = "asked"]) \/ c.at # "answered"
  /\ c.at # "answered" => calls' = calls \ {c}
  /\ conflict' = (conflict /\ (c.at = "answered" \/ ~c.mine))
  /\ UNCHANGED <<wantedPath, file, listing, composing, text, paints, strayed>>

SaveArrives(c) ==
  /\ Arrives(c, {"save"}) /\ calls' = calls \ {c} /\ saving' = FALSE
  /\ conflict' = IF c.mine THEN c.at = "refused" ELSE conflict
  /\ IF c.at = "answered"
     THEN /\ file' = Held(c) /\ paints' = paints \cup {Painted(Held(c), TRUE)}
          /\ text' = IF file.path = c.path THEN text ELSE NoBuffer
          /\ strayed' = (strayed \/ <<pageBox, inUrl>> # Place(c))
     ELSE UNCHANGED <<file, text, paints, strayed>>
  /\ UNCHANGED <<wantedPath, listing, composing>>

\* applyAnnotations and patchCounts: the comments of the file when it is still open, and the
\* counts of what is loaded.
NotesArrive(c) ==
  /\ Arrives(c, {"note", "unnote"}) /\ calls' = calls \ {c} /\ saving' = FALSE
  /\ LET now == IF c.at = "answered" THEN c.notes ELSE c.prior
         before == Cardinality(c.prior)
         moved(n) == IF n + Cardinality(now) < before THEN 0 ELSE (n + Cardinality(now)) - before
     IN  /\ file' = IF file.path = c.path THEN [file EXCEPT !.notes = now] ELSE file
         /\ listing' = IF Cardinality(now) = before \/ ~(listing.root \/ listing.sub) THEN listing
                       ELSE [listing EXCEPT !.total = moved(@),
                                            !.marked = @ \/ (listing.root /\ Cardinality(now) > before),
                                            !.count[c.path] = IF listing.sub THEN moved(@) ELSE @]
  /\ strayed' = (strayed \/ c.box # pageBox)
  /\ UNCHANGED <<wantedPath, composing, text, conflict, paints>>

\* newReview shows the file that was open when it began, without its comments.
ClearArrives(c) ==
  /\ Arrives(c, {"clear"}) /\ saving' = FALSE
  /\ IF c.at # "answered"
     THEN calls' = calls \ {c} /\ UNCHANGED <<file, listing, composing, text, wantedPath, strayed>>
     ELSE /\ IF c.path = Nowhere THEN UNCHANGED <<file, text>> ELSE Shows(Held(c))
          /\ composing' = FALSE /\ UNCHANGED <<listing, wantedPath>>
          /\ calls' = (calls \ {c}) \cup {TreeLoad(<<>>)}
          /\ strayed' = (strayed \/ c.box # pageBox \/ c.path \notin {Nowhere, file.path})
  /\ UNCHANGED <<conflict, paints>>

BaseArrives(c) ==
  /\ Arrives(c, {"base"}) /\ saving' = FALSE
  /\ UNCHANGED <<file, listing, composing, text, conflict, paints>>
  /\ IF c.at = "answered" THEN Continues(c, {})
     ELSE calls' = calls \ {c} /\ UNCHANGED <<wantedPath, strayed>>

(***************************************************************************)
(* The behaviours.                                                         *)
(***************************************************************************)

\* What a page does not sort out: a read or a token and a write of comments on their way
\* together, a listing that failed, a write whose answer is lost, and a new review with the
\* folder closed, which keeps its counts.
Muddle ==
  \E c \in calls :
    \/ c.kind \in {"root", "sub"} /\ c.at \in {"failed", "lost"}
    \/ c.kind \in CommentWrites /\ \/ c.at = "lost" \/ paints # {}
                                   \/ c.kind = "clear" /\ listing.sub /\ ~listing.open
                                   \/ \E d \in calls \ {c} : d.kind \in Reads \cup CommentWrites

ReaderActs ==
  \/ \E b \in PaneBox, p \in PanePath \cup {Nowhere} : ReaderArrives(b, p)
  \/ \E p \in PanePath : ReaderOpensFile(p)
  \/ ReaderClosesFile \/ FolderIsToggled \/ PageRefreshes \/ ComposerIsToggled
  \/ EditStarts \/ ReaderTypes \/ EditReverts \/ EditStops \/ ChangesAreDropped
  \/ \E force \in BOOLEAN : ReaderSavesFile(force)
  \/ \E kind \in {"note", "unnote"}, l \in NoteLine : CommentChanges(kind, l)
  \/ ReviewBeginsAnew \/ ReaderSetsBase
ServerActs ==
  \/ \E c \in calls : ServerSaves(c) \/ ServerChangesNotes(c) \/ ServerReads(c) \/ PageCallFails(c)
  \/ \E p \in PanePath : AgentWritesFile(p)
PageTakes ==
  \/ \E c \in calls : ListingArrives(c) \/ FileArrives(c) \/ HashArrives(c) \/ SaveArrives(c)
                      \/ NotesArrive(c) \/ ClearArrives(c) \/ BaseArrives(c)
  \/ \E p \in paints, given \in BOOLEAN : PaintArrives(p, given)

ReviewPaneNext ==
  /\ ~strayed   \* bound: no property speaks of what follows
  /\ ReaderActs \/ ServerActs \/ PageTakes
  /\ muddled' = (muddled \/ Muddle')
ReviewPaneSpec == ReviewPaneInit /\ [][ReviewPaneNext]_reviewPaneVars

(***************************************************************************)
(* Properties.                                                             *)
(***************************************************************************)

\* As long as no answer of before a move was shown, the pane shows a file of the box of the
\* page, and the one that the reader opened last or, while that loads, the one before it:
\* answers of several loads in any order do not swap the files (stillWanted, review.ts).
PaneShowsOpened ==
  (~strayed /\ file # NoPane) =>
    /\ file.box = pageBox
    /\ \/ file.path = inUrl
       \/ \E c \in calls : c.kind = "file" /\ Place(c) = <<pageBox, inUrl>>

\* When nothing is on its way, and no read crossed a write, the comments and the counts that
\* the page shows, which it changed before the server answered and patched since, are those
\* of the server (saveComment, deleteComment, newReview, patchCounts in review.ts).
PaneCountsRight ==
  (calls = {} /\ paints = {} /\ ~strayed /\ ~muddled) =>
    /\ file # NoPane => file.notes = notesOf[Place(file)]
    /\ listing.root => listing.total = SumOf(NotesPerFile(pageBox)) /\ (listing.total > 0 => listing.marked)
    /\ listing.sub => listing.count = NotesPerFile(pageBox)

PaneIsTrue == ReviewPaneTypeOK /\ PaneShowsOpened /\ PaneCountsRight
=============================================================================
