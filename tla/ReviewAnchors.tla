----------------------------- MODULE ReviewAnchors -----------------------------
(***************************************************************************)
(* How the comments of a review follow their lines: setAnnotation,         *)
(* contextAround and checkDrift with relocate and findContext (store.ts).  *)
(*                                                                         *)
(* One file, which somebody edits, and the comments on its lines.  A file  *)
(* is a sequence of lines, of a few different texts.                       *)
(***************************************************************************)
EXTENDS Integers, FiniteSets, Sequences

CONSTANTS Text,       \* the texts of a line
          Radius,     \* CONTEXT_RADIUS
          MaxLines,   \* bound: lines of a file
          MaxEdits    \* bound: edits of the file and comments set

ASSUME AnchorAssumption == Radius \in Nat /\ MaxLines \in Nat /\ MaxEdits \in Nat

VARIABLES
  source,     \* the lines of the file, or Gone when it is deleted
  comments,   \* by line: the context, its first line, and whether it is outdated
  onLine,     \* by line: the text that the comment was made on (for the properties)
  checked,    \* the comments were checked against this file
  edits

anchorVars == <<source, comments, onLine, checked, edits>>

NoText == "none"
Gone == <<NoText>>
Files == UNION {[1..n -> Text] : n \in 0..MaxLines}
NoContext == [context |-> <<>>, from |-> 0, outdated |-> FALSE]

AnchorsInit ==
  /\ source \in Files
  /\ comments = <<>> /\ onLine = <<>>
  /\ checked = FALSE
  /\ edits = 0

\* contextAround.
ContextAround(file, line) ==
  LET start == IF line > Radius THEN line - Radius ELSE 1
      last  == IF line + Radius < Len(file) THEN line + Radius ELSE Len(file)
  IN  IF line \in DOMAIN file
        THEN [context |-> SubSeq(file, start, last), from |-> start, outdated |-> FALSE]
        ELSE NoContext

\* contextMatchesAt.
MatchesAt(file, context, from) ==
  /\ from >= 1 /\ from - 1 + Len(context) <= Len(file)
  /\ \A i \in DOMAIN context : file[from - 1 + i] = context[i]

Distance(a, b) == IF a < b THEN b - a ELSE a - b

\* findContext: the nearest match, and of two the one before.  0 when there is none.
FindContext(file, context, near) ==
  LET matches == {p \in DOMAIN file : MatchesAt(file, context, p)}
      nearest == {p \in matches : \A q \in matches : Distance(p, near) <= Distance(q, near)}
  IN  IF nearest = {} THEN 0 ELSE CHOOSE p \in nearest : \A q \in nearest : p <= q

\* A mutant: a comment that stays does not keep its line.
Refused_Taken(moves, lines) ==
  {l \in DOMAIN moves : \E k \in DOMAIN moves : k < l /\ moves[k] = moves[l]}

\* relocate: the moves that do not end on a line that another comment keeps or takes.
\* A move that is refused keeps its line, which can refuse another one.
Refused(moves, lines) ==
  {l \in DOMAIN moves :
     \/ moves[l] \in lines \ DOMAIN moves
     \/ \E k \in DOMAIN moves : k < l /\ moves[k] = moves[l]}

\* The first of them keeps its line.
DropOne(moves, lines) ==
  LET bad == Refused(moves, lines)
      one == CHOOSE l \in bad : \A k \in bad : l <= k
  IN  IF bad = {} THEN moves ELSE [l \in DOMAIN moves \ {one} |-> moves[l]]

AllowedMoves(moves, lines) ==
  LET left[n \in 0..Cardinality(lines)] == IF n = 0 THEN moves ELSE DropOne(left[n - 1], lines)
  IN  left[Cardinality(lines)]

\* checkDrift: the comments whose text has moved, where it is now, and who goes there.
StraysIn(cs, file) == {l \in DOMAIN cs : cs[l].context # <<>> /\ ~MatchesAt(file, cs[l].context, cs[l].from)}
FoundAt(cs, file, l) == FindContext(file, cs[l].context, cs[l].from)
TargetOf(cs, file, l) == l + FoundAt(cs, file, l) - cs[l].from
WantedMoves(cs, file) ==
  [l \in {k \in StraysIn(cs, file) : FoundAt(cs, file, k) > 0 /\ TargetOf(cs, file, k) >= 1} |-> TargetOf(cs, file, l)]
MovesOf(cs, file) == AllowedMoves(WantedMoves(cs, file), DOMAIN cs)

\* The lines that the comments are on after these moves, and where one of them was.
LinesAfter(lines, moves) == (lines \ DOMAIN moves) \cup {moves[l] : l \in DOMAIN moves}
Origin(moves, n) == CHOOSE l \in DOMAIN moves : moves[l] = n

\* What becomes of a comment that stays.
Stayed(cs, file, l) ==
  CASE cs[l].context = <<>> -> [ContextAround(file, l) EXCEPT !.outdated = cs[l].outdated]
    [] l \in StraysIn(cs, file) -> [cs[l] EXCEPT !.outdated = TRUE]
    [] OTHER -> [cs[l] EXCEPT !.outdated = FALSE]

\* What becomes of the comments with this file.
Checked(cs, file) ==
  LET moves == MovesOf(cs, file)
  IN  [n \in LinesAfter(DOMAIN cs, moves) |->
         IF n \in DOMAIN cs \ DOMAIN moves THEN Stayed(cs, file, n)
         ELSE [cs[Origin(moves, n)] EXCEPT !.from = FoundAt(cs, file, Origin(moves, n)), !.outdated = FALSE]]

\* The same for what the comments were made on.
Followed(cs, on, file) ==
  LET moves == MovesOf(cs, file)
  IN  [n \in LinesAfter(DOMAIN cs, moves) |->
         IF n \in DOMAIN cs \ DOMAIN moves THEN on[n] ELSE on[Origin(moves, n)]]

AllOutdated(cs) == [l \in DOMAIN cs |-> [cs[l] EXCEPT !.outdated = TRUE]]

\* The agent edits, deletes or restores the file.
FileIsEdited ==
  /\ edits < MaxEdits
  /\ edits' = edits + 1
  /\ source' \in (Files \cup {Gone}) \ {source}
  /\ checked' = FALSE
  /\ UNCHANGED <<comments, onLine>>

\* What the drift check makes of these comments, on these texts.
DriftCheck(cs, on) ==
  /\ comments' = IF source = Gone THEN AllOutdated(cs) ELSE Checked(cs, source)
  /\ onLine' = IF source = Gone THEN on ELSE Followed(cs, on, source)
  /\ checked' = TRUE

\* setAnnotation on a line, with the drift check after it.  The page can name a line
\* that the file does not have any more.
CommentIsSet ==
  /\ source # Gone
  /\ edits < MaxEdits
  /\ edits' = edits + 1
  /\ \E line \in 1..MaxLines :
       LET set == [l \in DOMAIN comments \cup {line} |->
                     IF l = line THEN ContextAround(source, line) ELSE comments[l]]
       IN  DriftCheck(set, [l \in DOMAIN set |->
             IF l # line THEN onLine[l] ELSE IF line \in DOMAIN source THEN source[line] ELSE NoText])
  /\ UNCHANGED source

\* deleteAnnotation, with the drift check after it.
CommentIsDeleted ==
  /\ \E line \in DOMAIN comments :
       DriftCheck([l \in DOMAIN comments \ {line} |-> comments[l]],
                  [l \in DOMAIN onLine \ {line} |-> onLine[l]])
  /\ UNCHANGED <<source, edits>>

\* driftFile and driftAll, when a page opens the file or the tree.
DriftIsChecked ==
  /\ ~checked
  /\ DriftCheck(comments, onLine)
  /\ UNCHANGED <<source, edits>>

AnchorsNext == FileIsEdited \/ CommentIsSet \/ CommentIsDeleted \/ DriftIsChecked
AnchorsSpec == AnchorsInit /\ [][AnchorsNext]_anchorVars

(***************************************************************************)
(* Properties.                                                             *)
(***************************************************************************)

CommentsAreFound ==
  \A l \in DOMAIN comments :
    ~comments[l].outdated /\ onLine[l] # NoText => l \in DOMAIN source /\ source[l] = onLine[l]

\* A second check has nothing to do for these comments.
ChecksSettle ==
  LET again == Checked(comments, source)
  IN  \A l \in DOMAIN comments :
        onLine[l] # NoText => l \in DOMAIN again /\ again[l] = comments[l]

NoCommentGoes == Cardinality(DOMAIN comments') >= Cardinality(DOMAIN comments)

\* After a check, a comment that is not outdated stands at a line with the text that it
\* was made on, and a second check finds nothing to do, so that the drift writes of two
\* browsers do not chase each other.  Only its deletion loses a comment, however
\* many of them want to move to one line.
CommentsFollowLines ==
  /\ [](checked /\ source # Gone => CommentsAreFound /\ ChecksSettle)
  /\ [][NoCommentGoes \/ CommentIsDeleted]_anchorVars
=============================================================================
