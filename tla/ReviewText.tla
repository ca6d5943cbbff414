------------------------------- MODULE ReviewText -------------------------------
(***************************************************************************)
(* The text of REVIEW.md (review/store.ts): how a review is written as     *)
(* markdown and read again.  The agent and the desktop tool write the file *)
(* too, so what is read need not be what was written.                      *)
(*                                                                         *)
(* A line of the document is a record of what the parser tells apart: its  *)
(* kind, the backslashes in front of it, and the file, the number or the   *)
(* word that it has.  Indents, letters and line ends are left out.         *)
(***************************************************************************)
EXTENDS Naturals, Sequences, SequencesExt, FiniteSets, FiniteSetsExt, TLC

CONSTANTS MaxCommentLines,    \* bound: the lines of a comment
          MaxAgentLines       \* bound: the lines that the agent writes below a heading

ASSUME ReviewTextAssumption == MaxCommentLines \in Nat /\ MaxAgentLines \in Nat

VARIABLES written,    \* a review, as it is written
          readBack    \* what parseReview makes of the text

reviewTextVars == <<written, readBack>>

(***************************************************************************)
(* The lines.                                                              *)
(***************************************************************************)

Ln(what, name, n, tag) == [what |-> what, esc |-> 0, name |-> name, n |-> n, tag |-> tag]
Words == Ln("words", "", 0, "")
BlankLine == Ln("blank", "", 0, "")
Rule == Ln("rule", "", 0, "")
StartedLine(day) == Ln("started", "", 0, day)
FileHeader(path) == Ln("file", path, 0, "")
LineHeader(n, tag) == Ln("line", "", n, tag)
Numbered(n, source) == Ln("code", "", n, source)
Fence(char, n, info) == Ln("fence", char, n, info)
Escaped(line) == [line EXCEPT !.esc = @ + 1]

NoOpenFence == Words
NoTextContext == [context |-> <<>>, from |-> 0]

\* looksStructural: a heading, without a backslash.
LooksStructural(line) == line.what \in {"file", "line"} /\ line.esc = 0
IsHeader(line, what) == line.what = what /\ line.esc = 0

\* unescapeStructure: one backslash in front of a heading goes.
UnescapeStructure(line) ==
  IF line.esc = 1 /\ line.what \in {"file", "line"} THEN [line EXCEPT !.esc = 0] ELSE line

\* closesFence: at least as many of the same character, and nothing after them.
ClosesFence(line, fence) ==
  line.what = "fence" /\ line.name = fence.name /\ line.n >= fence.n /\ line.tag = ""
OpensFence(line) == line.what = "fence"
IsContextFence(line) == line.tag = "context"

\* The state of the fence after a line.
FenceAfter(fence, line) ==
  IF fence # NoOpenFence THEN (IF ClosesFence(line, fence) THEN NoOpenFence ELSE fence)
  ELSE IF OpensFence(line) THEN line ELSE NoOpenFence

(***************************************************************************)
(* serializeReview.                                                        *)
(***************************************************************************)

\* A mutant: lines inside of a fence are escaped too.
EscapeLine_Always(s, line) ==
  [text |-> Append(s.text, IF LooksStructural(line) THEN Escaped(line) ELSE line),
   fence |-> FenceAfter(s.fence, line)]

EscapeLine(s, line) ==
  [text |-> Append(s.text, IF s.fence = NoOpenFence /\ LooksStructural(line) THEN Escaped(line) ELSE line),
   fence |-> FenceAfter(s.fence, line)]

EscapeComment(comment) ==
  LET upTo[i \in 0..Len(comment)] ==
        IF i = 0 THEN [text |-> <<>>, fence |-> NoOpenFence] ELSE EscapeLine(upTo[i - 1], comment[i])
  IN  upTo[Len(comment)]

FormatContext(ann) == [i \in DOMAIN ann.context |-> Numbered(ann.from + i - 1, ann.context[i])]

ContextBlock(ann, open) ==
  (IF open = NoOpenFence THEN <<>> ELSE <<Fence(open.name, open.n, "")>>)
    \o <<BlankLine, Fence("tick", 3, "context")>> \o FormatContext(ann) \o <<Fence("tick", 3, "")>>

SerializeAnnotation(n, ann) ==
  LET escaped == EscapeComment(ann.comment)
  IN  <<BlankLine, LineHeader(n, IF ann.outdated THEN "outdated" ELSE ""), BlankLine>> \o escaped.text
        \o (IF ann.context = <<>> THEN <<>> ELSE ContextBlock(ann, escaped.fence))

Paths == <<"a", "b">>
AllOf(seqs) == LET upTo[i \in 0..Len(seqs)] == IF i = 0 THEN <<>> ELSE upTo[i - 1] \o seqs[i] IN upTo[Len(seqs)]
LinesOf(review, path) == {p[2] : p \in {q \in DOMAIN review.data : q[1] = path}}

SerializeFile(review, path) ==
  LET numbers == SetToSortSeq(LinesOf(review, path), <)
  IN  IF numbers = <<>> THEN <<>>
      ELSE <<BlankLine, Rule, BlankLine, FileHeader(path)>>
             \o AllOf([i \in DOMAIN numbers |-> SerializeAnnotation(numbers[i], review.data[<<path, numbers[i]>>])])

\* sortedEntries: the files in the order of their names.
SerializeReview(review) ==
  <<Words, BlankLine, StartedLine(review.started)>>
    \o AllOf([i \in DOMAIN Paths |-> SerializeFile(review, Paths[i])])

(***************************************************************************)
(* parseReview.                                                            *)
(***************************************************************************)

IsBlankLine(line) == line = BlankLine

\* joinComment: without the blank lines around it.
Trimmed(lines) ==
  LET full == {i \in DOMAIN lines : ~IsBlankLine(lines[i])}
  IN  IF full = {} THEN <<>> ELSE SubSeq(lines, Min(full), Max(full))

\* lastFencedBlock: the last one that is complete, 0 when there is none.
LastFencedBlock(lines) ==
  LET after(s, i) ==
        [open |-> IF s.fence = NoOpenFence /\ OpensFence(lines[i]) THEN i ELSE s.open,
         fence |-> FenceAfter(s.fence, lines[i]),
         found |-> IF s.fence # NoOpenFence /\ ClosesFence(lines[i], s.fence) THEN <<s.open, i>> ELSE s.found]
      upTo[i \in 0..Len(lines)] ==
        IF i = 0 THEN [open |-> 0, fence |-> NoOpenFence, found |-> <<0, 0>>] ELSE after(upTo[i - 1], i)
  IN  upTo[Len(lines)].found

\* parseContext: each line is a numbered line of the source.
IsContext(lines) == lines # <<>> /\ \A i \in DOMAIN lines : lines[i].what = "code"
ParseContext(lines) == [context |-> [i \in DOMAIN lines |-> lines[i].tag], from |-> lines[1].n]

\* splitBody: the block at the end of the body is the context, when it looks like one.
SplitBody(body, marked) ==
  LET whole == Trimmed(body)
      last == IF whole = <<>> THEN 0 ELSE Max({i \in DOMAIN body : ~IsBlankLine(body[i])})
      block == LastFencedBlock(SubSeq(body, 1, last))
      inside == SubSeq(body, block[1] + 1, block[2] - 1)
      context == last # 0 /\ block[2] = last /\ (marked => IsContextFence(body[block[1]])) /\ IsContext(inside)
  IN  IF context THEN [comment |-> Trimmed(SubSeq(body, 1, block[1] - 1))] @@ ParseContext(inside)
      ELSE [comment |-> whole] @@ NoTextContext

UsesContextMarker(lines) == \E i \in DOMAIN lines : OpensFence(lines[i]) /\ IsContextFence(lines[i])

\* opensFileSection: the next line with text is a file heading.
OpensFileSection(lines, i) ==
  \E j \in (i + 1)..Len(lines) :
    IsHeader(lines[j], "file") /\ \A k \in (i + 1)..(j - 1) : IsBlankLine(lines[k])

\* save: the body since the last heading is a comment, unless it is empty.
Save(s, marked) ==
  LET ann == SplitBody(s.body, marked) @@ [outdated |-> s.outdated]
      done == [s EXCEPT !.body = <<>>, !.collecting = FALSE]
  IN  IF s.collecting /\ ann.comment # <<>> THEN [done EXCEPT !.data = (<<s.file, s.line>> :> ann) @@ @] ELSE done

Collected(s, line) == IF s.collecting THEN [s EXCEPT !.body = Append(@, line)] ELSE s

ParseReviewLine(s, lines, i, marked) ==
  LET line == lines[i] IN
  IF s.fence # NoOpenFence \/ OpensFence(line)
  THEN [Collected(s, line) EXCEPT !.fence = FenceAfter(@, line)]
  ELSE
  CASE IsHeader(line, "line") /\ s.file # "" ->
         [Save(s, marked) EXCEPT !.line = line.n, !.outdated = (line.tag = "outdated"), !.collecting = TRUE]
    [] IsHeader(line, "file") -> [Save(s, marked) EXCEPT !.file = line.name]
    [] line = Rule /\ OpensFileSection(lines, i) -> Save(s, marked)
    [] OTHER ->
         IF s.collecting THEN Collected(s, UnescapeStructure(line))
         ELSE IF line.what = "started" /\ s.started = "" THEN [s EXCEPT !.started = line.tag]
         ELSE s

ParseReview(lines) ==
  LET marked == UsesContextMarker(lines)
      upTo[i \in 0..Len(lines)] ==
        IF i = 0 THEN [data |-> <<>>, started |-> "", file |-> "", line |-> 0, outdated |-> FALSE,
                       body |-> <<>>, collecting |-> FALSE, fence |-> NoOpenFence]
        ELSE ParseReviewLine(upTo[i - 1], lines, i, marked)
      s == Save(upTo[Len(lines)], marked)
  IN  [data |-> s.data, started |-> s.started]

(***************************************************************************)
(* What is written.                                                        *)
(***************************************************************************)

NoReviewText == [data |-> <<>>, started |-> ""]
Annotation(comment, context) ==
  [comment |-> comment, context |-> context, from |-> IF context = <<>> THEN 0 ELSE 1, outdated |-> FALSE]

CommentLine ==
  {Words, BlankLine, Rule, FileHeader("b"), LineHeader(2, ""), Escaped(LineHeader(2, "")), Numbered(1, "x"),
   Fence("tick", 3, ""), Fence("tick", 3, "context"), Fence("tick", 4, ""), Fence("tilde", 3, "")}

\* Comments are trimmed when they are set.
Comments ==
  {c \in BoundedSeq(CommentLine, MaxCommentLines) : c # <<>> /\ ~IsBlankLine(c[1]) /\ ~IsBlankLine(c[Len(c)])}
Contexts == {<<>>, <<"x", "y">>}

\* store and load of ReviewService, without the file between them.
WrittenAndRead(r) ==
  \E review \in {r} : \E text \in {SerializeReview(review)} : written' = review /\ readBack' = ParseReview(text)

\* A page sets two comments, and the review is written.
CommentsAreWritten ==
  /\ written = NoReviewText
  /\ \E c \in Comments, one \in Contexts, two \in Contexts, place \in {<<"a", 2>>, <<"b", 1>>} :
       WrittenAndRead([data |-> (<<"a", 1>> :> Annotation(c, one)) @@ (place :> [Annotation(<<Words>>, two) EXCEPT !.outdated = TRUE]),
                       started |-> "today"])

\* The agent or the desktop tool writes a review; a page then changes something else in it.
AgentLine ==
  {Words, Rule, FileHeader("b"), LineHeader(1, ""), Escaped(LineHeader(2, "")), Numbered(1, "x"),
   Fence("tick", 3, ""), Fence("tick", 3, "context")}
AgentWritesReview ==
  /\ written = NoReviewText
  /\ \E above \in {<<>>, <<FileHeader("a"), LineHeader(2, "outdated")>>},
        text \in BoundedSeq(AgentLine, MaxAgentLines) :
       \E document \in {<<Words, StartedLine("earlier")>> \o above \o text} : WrittenAndRead(ParseReview(document))

ReviewTextInit == written = NoReviewText /\ readBack = NoReviewText
ReviewTextNext == CommentsAreWritten \/ AgentWritesReview
ReviewTextSpec == ReviewTextInit /\ [][ReviewTextNext]_reviewTextVars

(***************************************************************************)
(* Properties.                                                             *)
(***************************************************************************)

OpenFenceOf(ann) == EscapeComment(ann.comment).fence

\* A comment that leaves a fence open, without a context to close it for: what follows it
\* in the document reads as a part of it.
Swallows(ann) == ann.context = <<>> /\ OpenFenceOf(ann) # NoOpenFence

\* A heading that the reviewer wrote with a backslash loses it.
HasOwnBackslash(comment) ==
  \E i \in DOMAIN comment :
    /\ comment[i].esc = 1
    /\ EscapeComment(SubSeq(comment, 1, i - 1)).fence = NoOpenFence

\* Some block of the document is marked as a context.
HasMarker(review) ==
  \E p \in DOMAIN review.data : review.data[p].context # <<>> \/ UsesContextMarker(review.data[p].comment)

\* The block at the end of a comment without a context passes for one.
PassesForContext(review, ann) ==
  /\ ann.context = <<>>
  /\ SplitBody(ann.comment, HasMarker(review)).context # <<>>

ReadsBack(review) ==
  \A p \in DOMAIN review.data :
    LET ann == review.data[p] IN
    ~Swallows(ann) /\ ~HasOwnBackslash(ann.comment) /\ ~PassesForContext(review, ann)

\* What a fence that is left open gets for the context after it.
Closed(ann) ==
  LET open == OpenFenceOf(ann)
  IN  IF open = NoOpenFence THEN ann ELSE [ann EXCEPT !.comment = Append(@, Fence(open.name, open.n, ""))]

\* A review that is written and read again is the same: each comment with its file, its
\* line, its text, its context and its mark, whatever headings, rules and fences its text
\* has.  The exceptions are named above (serializeReview, parseReview).
ReviewSurvives ==
  ReadsBack(written) =>
    readBack = [written EXCEPT !.data = [p \in DOMAIN written.data |-> Closed(written.data[p])]]
=============================================================================
