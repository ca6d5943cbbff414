---------------------------- MODULE ReviewComments ----------------------------
(***************************************************************************)
(* The comments of the review of a box (review/service.ts), which live in  *)
(* the file REVIEW.md of its workspace.  Requests of pages set and delete  *)
(* comments, delete the review, and check the comments against a source    *)
(* file; the agent edits both files at any time.                           *)
(*                                                                         *)
(* The requests of a box take turns at a lock, and each read and write of  *)
(* a file awaits the file service.  The hash of REVIEW.md stands for its   *)
(* content, and a number for the content of the source file.               *)
(*                                                                         *)
(* A comment is what REVIEW.md has on a line of the source file.  A set or *)
(* a delete names the line, not the comment: it takes what is on the line  *)
(* when it is applied.  The drift check moves comments to other lines;     *)
(* which one goes where is in ReviewAnchors, and open here.                *)
(***************************************************************************)
EXTENDS Naturals, FiniteSets, Sequences

CONSTANTS Page,            \* the requests
          ByAgent,         \* a comment that the agent writes itself
          FileLines,       \* the lines of the source file
          MaxTouches, MaxSourceEdits, MaxLostWrites

ASSUME CommentsAssumption ==
  ByAgent \notin Page /\ FileLines \in Nat /\ MaxTouches \in Nat /\ MaxSourceEdits \in Nat /\ MaxLostWrites \in Nat

VARIABLES
  \* The workspace.
  review,        \* REVIEW.md: its comments, or NoReview
  sourceNow,     \* the source file
  \* The requests.
  job,           \* what each one does
  atLine,        \* the line that it sets or deletes, or 0
  stepOf,
  sourceRead,    \* the source file as the request has read it
  reviewRead,    \* REVIEW.md as it has read it
  attempt,
  verdict,       \* its answer
  chain,         \* ReviewService.locks: the requests in the order of their turns
  touches, sourceEdits, lostWrites,
  \* For the properties.
  stored,        \* the requests that have written their change
  touchedSince   \* how often the agent changed REVIEW.md in the turn of a request

jobVars == <<job, atLine, stepOf, sourceRead, reviewRead, attempt, verdict>>
commentVars == <<review, sourceNow, jobVars, chain, touches, sourceEdits, lostWrites, stored, touchedSince>>

SourceLine == 1..FileLines
Comment == Page \cup {ByAgent}
NoReview == [there |-> FALSE, comments |-> <<>>]
ReviewOf(comments) == [there |-> TRUE, comments |-> comments]
Jobs == {"set", "delete", "deleteReview", "checkAll", "checkFile"}
LinesIn(doc) == DOMAIN doc.comments
CommentsIn(doc) == {doc.comments[l].by : l \in LinesIn(doc)}

CommentsTypeOK ==
  /\ LinesIn(review) \subseteq SourceLine /\ CommentsIn(review) \subseteq Comment
  /\ atLine \in [Page -> SourceLine \cup {0}]
  /\ sourceNow \in 0..MaxSourceEdits
  /\ job \in [Page -> Jobs \cup {"none"}]
  /\ stepOf \in [Page -> {"new", "reads", "waits", "read", "write", "waitsAgain", "readAgain", "writeAgain", "done"}]
  /\ verdict \in [Page -> {"none", "ok", "conflict", "error"}]
  /\ attempt \in [Page -> 1..2]
  /\ \A i \in DOMAIN chain : chain[i] \in Page

CommentsInit ==
  /\ review = NoReview /\ sourceNow = 0
  /\ job = [p \in Page |-> "none"] /\ atLine = [p \in Page |-> 0]
  /\ stepOf = [p \in Page |-> "new"]
  /\ sourceRead = [p \in Page |-> 0] /\ reviewRead = [p \in Page |-> NoReview]
  /\ attempt = [p \in Page |-> 1] /\ verdict = [p \in Page |-> "none"]
  /\ chain = <<>>
  /\ touches = 0 /\ sourceEdits = 0 /\ lostWrites = 0
  /\ stored = {} /\ touchedSince = [p \in Page |-> 0]

GoesTo(p, step) == stepOf' = [stepOf EXCEPT ![p] = step]
HasTurn(p) == chain # <<>> /\ Head(chain) = p
TurnEnds == chain' = Tail(chain)

\* What a method has read goes with its locals.
Forgets(p) ==
  /\ sourceRead' = [sourceRead EXCEPT ![p] = 0] /\ reviewRead' = [reviewRead EXCEPT ![p] = NoReview]
  /\ attempt' = [attempt EXCEPT ![p] = 1]

(***************************************************************************)
(* The texts.                                                              *)
(***************************************************************************)

Without(doc, l) == ReviewOf([m \in LinesIn(doc) \ {l} |-> doc.comments[m]])
WithComment(doc, l, c, source) ==
  ReviewOf([m \in LinesIn(doc) \cup {l} |->
              IF m = l THEN [by |-> c, on |-> source, outdated |-> FALSE] ELSE doc.comments[m]])

\* setAnnotation and deleteAnnotation on a parsed review, whatever is on the line.
ChangedBy(p, doc) ==
  CASE job[p] = "set"    -> WithComment(doc, atLine[p], p, sourceRead[p])
    [] job[p] = "delete" -> IF atLine[p] \in LinesIn(doc) THEN Without(doc, atLine[p]) ELSE doc

\* checkDrift: the text of a comment stays, moves, or is gone.  A comment that was made on
\* the source, or has been found in it, is next to its text.  No two get one line (relocate).
IsPlacement(f, doc, source) ==
  /\ f \in [LinesIn(doc) -> SourceLine]
  /\ \A l, m \in LinesIn(doc) : f[l] = f[m] => l = m
  /\ \A l \in LinesIn(doc) : doc.comments[l].on = source => f[l] = l

\* A comment whose text is gone, or whose new line is taken, stays and is outdated.
Drifted(doc, source, f, gone) ==
  [doc EXCEPT !.comments =
     [m \in {f[l] : l \in LinesIn(doc)} |->
        LET l == CHOOSE l \in LinesIn(doc) : f[l] = m
        IN  IF l \in gone THEN [doc.comments[l] EXCEPT !.outdated = TRUE]
            ELSE [doc.comments[l] EXCEPT !.outdated = FALSE, !.on = source]]]

(***************************************************************************)
(* The requests.                                                           *)
(***************************************************************************)

\* A request begins; a set and the view of a file read the source before the lock.
RequestIsMade(p, j) ==
  /\ stepOf[p] = "new"
  /\ job' = [job EXCEPT ![p] = j]
  /\ \E l \in IF j \in {"set", "delete"} THEN SourceLine ELSE {0} : atLine' = [atLine EXCEPT ![p] = l]
  /\ GoesTo(p, IF j \in {"set", "checkFile"} THEN "reads" ELSE "waits")
  /\ chain' = IF j \in {"set", "checkFile"} THEN chain ELSE Append(chain, p)
  /\ UNCHANGED <<review, sourceNow, sourceRead, reviewRead, attempt, verdict, touches, sourceEdits, lostWrites, stored, touchedSince>>

SourceIsRead(p) ==
  /\ stepOf[p] = "reads"
  /\ sourceRead' = [sourceRead EXCEPT ![p] = sourceNow]
  /\ chain' = Append(chain, p) /\ GoesTo(p, "waits")
  /\ UNCHANGED <<review, sourceNow, job, atLine, reviewRead, attempt, verdict, touches, sourceEdits, lostWrites, stored, touchedSince>>

\* withLock: its turn comes.
TurnBegins(p) ==
  /\ HasTurn(p) /\ stepOf[p] \in {"waits", "waitsAgain"}
  /\ GoesTo(p, IF stepOf[p] = "waits" THEN "read" ELSE "readAgain")
  /\ touchedSince' = [touchedSince EXCEPT ![p] = 0]
  /\ UNCHANGED <<review, sourceNow, job, atLine, sourceRead, reviewRead, attempt, verdict, chain, touches, sourceEdits, lostWrites, stored>>

\* deleteReview.
ReviewIsDeleted(p) ==
  /\ stepOf[p] = "read" /\ job[p] = "deleteReview"
  /\ review' = NoReview
  /\ GoesTo(p, "done") /\ verdict' = [verdict EXCEPT ![p] = "ok"]
  /\ TurnEnds
  /\ UNCHANGED <<sourceNow, job, atLine, sourceRead, reviewRead, attempt, touches, sourceEdits, lostWrites, stored, touchedSince>>

\* mutate reads REVIEW.md, and ends when its change changes nothing.
ReviewIsRead(p) ==
  /\ stepOf[p] = "read" /\ job[p] \in {"set", "delete"}
  /\ IF ChangedBy(p, review) = review
       THEN GoesTo(p, "waitsAgain") /\ chain' = Append(Tail(chain), p) /\ Forgets(p)
       ELSE /\ GoesTo(p, "write") /\ reviewRead' = [reviewRead EXCEPT ![p] = review]
            /\ UNCHANGED <<chain, sourceRead, attempt>>
  /\ UNCHANGED <<review, sourceNow, job, atLine, verdict, touches, sourceEdits, lostWrites, stored, touchedSince>>

\* A mutant: the write has no condition.
ChangeIsWritten_Blindly(p) ==
  /\ stepOf[p] = "write"
  /\ review' = ChangedBy(p, reviewRead[p]) /\ stored' = stored \cup {p}
  /\ GoesTo(p, "waitsAgain") /\ chain' = Append(Tail(chain), p)
  /\ UNCHANGED <<attempt, verdict>>
  /\ UNCHANGED <<sourceNow, job, atLine, sourceRead, reviewRead, touches, sourceEdits, lostWrites, touchedSince>>

\* mutate: the write expects what was read, and is tried again once.  After it, the
\* comments are checked in a turn of their own.
ChangeIsWritten(p) ==
  /\ stepOf[p] = "write"
  /\ IF review = reviewRead[p]
       THEN /\ review' = ChangedBy(p, review) /\ stored' = stored \cup {p}
            /\ GoesTo(p, "waitsAgain") /\ chain' = Append(Tail(chain), p)
            /\ Forgets(p) /\ UNCHANGED verdict
       ELSE /\ UNCHANGED <<review, stored>>
            /\ IF attempt[p] = 1
                 THEN /\ attempt' = [attempt EXCEPT ![p] = 2]
                      /\ GoesTo(p, "read") /\ UNCHANGED <<chain, verdict, sourceRead, reviewRead>>
                 ELSE /\ verdict' = [verdict EXCEPT ![p] = "conflict"]
                      /\ Forgets(p) /\ GoesTo(p, "done") /\ TurnEnds
  /\ UNCHANGED <<sourceNow, job, atLine, touches, sourceEdits, lostWrites, touchedSince>>

\* The connection is lost during the write, which may have taken effect.
WriteIsLost(p) ==
  /\ stepOf[p] = "write" /\ lostWrites < MaxLostWrites
  /\ lostWrites' = lostWrites + 1
  /\ \/ UNCHANGED <<review, stored>>
     \/ review = reviewRead[p] /\ review' = ChangedBy(p, review) /\ stored' = stored \cup {p}
  /\ verdict' = [verdict EXCEPT ![p] = "error"] /\ GoesTo(p, "done") /\ TurnEnds /\ Forgets(p)
  /\ UNCHANGED <<sourceNow, job, atLine, touches, sourceEdits, touchedSince>>

\* driftAll and driftFile read REVIEW.md.
CheckReads(p) ==
  /\ \/ stepOf[p] = "readAgain" \/ (stepOf[p] = "read" /\ job[p] \in {"checkAll", "checkFile"})
  /\ reviewRead' = [reviewRead EXCEPT ![p] = review]
  /\ GoesTo(p, "writeAgain")
  /\ UNCHANGED <<review, sourceNow, job, atLine, sourceRead, attempt, verdict, chain, touches, sourceEdits, lostWrites, stored, touchedSince>>

\* driftAll reads the source now, driftFile has read it before its turn.  The write of
\* the marks is dropped when REVIEW.md has changed.
CheckEnds(p) ==
  LET source == IF job[p] = "checkFile" THEN sourceRead[p] ELSE sourceNow
      doc == reviewRead[p]
  IN  /\ stepOf[p] = "writeAgain"
      /\ \E f \in [LinesIn(doc) -> SourceLine],
            gone \in SUBSET {l \in LinesIn(doc) : doc.comments[l].on # source} :
           /\ IsPlacement(f, doc, source) /\ \A l \in gone : f[l] = l
           /\ review' = IF review = doc THEN Drifted(doc, source, f, gone) ELSE review
      /\ Forgets(p) /\ GoesTo(p, "done") /\ verdict' = [verdict EXCEPT ![p] = "ok"]
      /\ TurnEnds
      /\ UNCHANGED <<sourceNow, job, atLine, touches, sourceEdits, lostWrites, stored, touchedSince>>

(***************************************************************************)
(* The agent.                                                              *)
(***************************************************************************)

\* The agent resolves a comment, writes one, or removes the file.
AgentTouchesReview ==
  /\ touches < MaxTouches /\ touches' = touches + 1
  /\ \/ review # NoReview /\ review' = NoReview
     \/ \E l \in LinesIn(review) : review' = Without(review, l)
     \/ /\ ByAgent \notin CommentsIn(review)
        /\ \E l \in SourceLine : review' = WithComment(review, l, ByAgent, sourceNow)
  /\ touchedSince' = [p \in Page |-> touchedSince[p] + 1]
  /\ UNCHANGED <<sourceNow, jobVars, chain, sourceEdits, lostWrites, stored>>

AgentEditsSource ==
  /\ sourceEdits < MaxSourceEdits /\ sourceEdits' = sourceEdits + 1
  /\ sourceNow' = sourceNow + 1
  /\ UNCHANGED <<review, jobVars, chain, touches, lostWrites, stored, touchedSince>>

CommentsNext ==
  \/ AgentTouchesReview \/ AgentEditsSource
  \/ \E p \in Page :
       \/ \E j \in Jobs : RequestIsMade(p, j)
       \/ SourceIsRead(p) \/ TurnBegins(p) \/ ReviewIsDeleted(p) \/ ReviewIsRead(p)
       \/ ChangeIsWritten(p) \/ WriteIsLost(p) \/ CheckReads(p) \/ CheckEnds(p)

CommentsSpec == CommentsInit /\ [][CommentsNext]_commentVars

(***************************************************************************)
(* Properties.                                                             *)
(***************************************************************************)

\* What REVIEW.md has on a line when a request is applied to it.
IsOn(c, l) == l \in LinesIn(review) /\ review.comments[l].by = c

\* A comment goes only when the agent takes it, when the review is deleted, or when a set
\* or a delete of its line is applied to it.  Those take what is on the line by then, which
\* a drift check may have moved there or another request put there, but nothing that came
\* after the request has read REVIEW.md in its turn (mutate and the hash that it expects).
CommentGoesOnPurpose ==
  \A c \in CommentsIn(review) \ CommentsIn(review') :
    \/ touches' # touches
    \/ \E p \in Page :
         \/ job[p] \in {"set", "delete"} /\ p \in stored' \ stored /\ IsOn(c, atLine[p]) /\ review = reviewRead[p]
         \/ job[p] = "deleteReview" /\ verdict'[p] # verdict[p]

\* A set or a delete changes its line, and leaves every other comment as it is then.
OtherLinesStay ==
  \A p \in stored' \ stored : \A l \in SourceLine \ {atLine[p]} :
    /\ l \in LinesIn(review') <=> l \in LinesIn(review)
    /\ l \in LinesIn(review) => review'.comments[l] = review.comments[l]

\* A page is told that its comment is saved only when it was, and a conflict only when
\* its change was not made and the agent wrote REVIEW.md twice in its turn: the pages
\* never conflict with each other.
CommentsAreKept ==
  /\ []CommentsTypeOK
  /\ [](\A p \in Page :
          /\ verdict[p] = "ok" /\ job[p] = "set" => p \in stored
          /\ verdict[p] = "conflict" => p \notin stored /\ touchedSince[p] >= 2)
  /\ [][CommentGoesOnPurpose /\ OtherLinesStay]_commentVars
=============================================================================
