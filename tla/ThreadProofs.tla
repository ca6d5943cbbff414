----------------------------- MODULE ThreadProofs -----------------------------
(***************************************************************************)
(* What holds of the log of a thread and of the page that follows it, for  *)
(* every history, every cap and any number of dropped sockets.             *)
(***************************************************************************)
EXTENDS ThreadLogs, FiniteSetTheorems, SequenceTheorems, WellFoundedInduction, TLAPS

(***************************************************************************)
(* The history: messages in the order of their names, and no more updates  *)
(* from the first chunk of a message to the next than the log can hold.    *)
(***************************************************************************)

NamesAreOrdered(h) ==
  /\ \A i \in DOMAIN h : h[i].names <= i
  /\ \A i, j \in DOMAIN h : i <= j /\ h[j].names # NoMessage => h[i].names <= h[j].names

GroupsAreBounded(h) ==
  \A i, j \in DOMAIN h : j - i >= LogCap =>
    \E k \in (i + 1)..j : h[k].names \notin {NoMessage, h[i].names}

\* Update p is the first chunk of message m.
Begins(h, p, m) ==
  /\ m # NoMessage
  /\ h[p].names = m
  /\ \A q \in 1..(p - 1) : h[q].names # m

\* Nothing that belongs to the update at p comes before it.
StartsWell(h, p) == p > 1 => Begins(h, p, h[p].names)

\* The log of the first n updates: their end, from the begin of a message on.
LogOf(h, n, s) ==
  /\ s \in Seq(1..MaxHistory)
  /\ Len(s) <= n
  /\ \A i \in DOMAIN s : s[i] = n - Len(s) + i
  /\ n > 0 => s # <<>>
  /\ s # <<>> => StartsWell(h, s[1])

LogIsRight ==
  /\ Len(history) <= MaxHistory
  /\ NamesAreOrdered(history)
  /\ GroupsAreBounded(history)
  /\ LogOf(history, Len(history), logged)
  /\ logCut <=> Len(logged) < Len(history)

(***************************************************************************)
(* What is on the way to the browser.                                      *)
(***************************************************************************)

NumbersAreKnown ==
  /\ \A i \in DOMAIN pipe : pipe[i].kind = "update" => pipe[i].n <= Len(history)
  /\ \A i \in DOMAIN model :
       /\ model[i].parts # <<>>
       /\ \A j \in DOMAIN model[i].parts : model[i].parts[j] <= Len(history)

\* A socket carries one answer to session/new, and one notice at a time.
CarriesOne ==
  /\ link = "down" => pipe = <<>>
  /\ \A i \in DOMAIN pipe : pipe[i].kind = "created" =>
       link = "named" /\ \A j \in DOMAIN pipe : pipe[j].kind = "created" => j = i
  /\ \A i \in DOMAIN pipe : pipe[i].kind = "replay" =>
       link = "loaded" /\ \A j \in DOMAIN pipe : pipe[j].kind = "replay" => j = i

\* Behind the notice come the updates up to the last one.
TailIsWhole ==
  link = "loaded" =>
    \A i \in DOMAIN pipe : (\A j \in i..Len(pipe) : pipe[j].kind # "replay") =>
      pipe[i].kind = "update" /\ pipe[i].n = Len(history) - Len(pipe) + i

IsShown(m) == \E k \in DOMAIN model : model[k].names = m

\* A notice tells the truth about what comes behind it.
NoticeIsTrue ==
  \A i \in DOMAIN pipe : pipe[i].kind = "replay" =>
    /\ i < Len(pipe) => StartsWell(history, pipe[i + 1].n)
    /\ history # <<>> => i < Len(pipe)
    /\ ~pipe[i].resumed /\ ~pipe[i].truncated /\ i < Len(pipe) => pipe[i + 1].n = 1
    /\ pipe[i].resumed => i < Len(pipe) /\ IsShown(anchor) /\ Begins(history, pipe[i + 1].n, anchor)

AnchorIsShown == link = "asked" /\ anchor # NoMessage => IsShown(anchor)

(***************************************************************************)
(* What the browser shows.                                                 *)
(***************************************************************************)

\* The first i messages show each update up to number `to` once, and each message
\* from its begin.
Whole(h, msgs, c, i, to) ==
  /\ \A k \in 1..i : \A j \in DOMAIN msgs[k].parts :
       msgs[k].parts[j] = msgs[k].parts[1] + j - 1
  /\ \A k \in 2..i : msgs[k].parts[1] = Last(msgs[k - 1].parts) + 1
  /\ i > 0 =>
       /\ Last(msgs[i].parts) = to /\ msgs[1].parts[1] <= to
       /\ StartsWell(h, msgs[1].parts[1])
       /\ ~c => msgs[1].parts[1] = 1
       /\ \A q \in msgs[1].parts[1]..to : h[q].names # NoMessage =>
            \E k \in 1..i : msgs[k].names = h[q].names

\* Message i begins where the messages before it end.
WholeBefore(h, msgs, c, i) ==
  /\ Whole(h, msgs, c, i - 1, msgs[i].parts[1] - 1)
  /\ Begins(h, msgs[i].parts[1], msgs[i].names)
  /\ i = 1 /\ ~c => msgs[1].parts[1] = 1

IsFirst(msgs, i) ==
  msgs[i].names # NoMessage /\ \A k \in 1..(i - 1) : msgs[k].names # msgs[i].names

\* Nothing is missing before a message to resume from, unless one began unseen.
AnchorsAreWhole ==
  \A i \in DOMAIN model :
    IsFirst(model, i) /\ (\A k \in 1..i : model[k].names \notin early) =>
      WholeBefore(history, model, cut, i)

LoadedIsWhole ==
  HasLoaded /\ early = {} =>
    /\ Whole(history, model, cut, Len(model), Len(history) - Len(pipe))
    /\ model = <<>> =>
         \/ pipe = <<>> /\ history = <<>>
         \/ pipe # <<>> /\ StartsWell(history, pipe[1].n) /\ (~cut => pipe[1].n = 1)

\* A message that began unseen is shown, or is just about to be.
EarlyIsAhead ==
  HasLoaded /\ early # {} =>
    \/ \E k \in DOMAIN model : model[k].names \in early
    \/ pipe # <<>> /\ history[pipe[1].n].names \in early

ThreadInv ==
  /\ LogTypeOK
  /\ LogIsRight
  /\ NumbersAreKnown /\ CarriesOne /\ TailIsWhole /\ NoticeIsTrue /\ AnchorIsShown
  /\ AnchorsAreWhole /\ LoadedIsWhole /\ EarlyIsAhead

(***************************************************************************)
(* Numbers.                                                                *)
(***************************************************************************)

\* A set of numbers has a least one.
LEMMA LeastExists ==
  ASSUME NEW S, S \subseteq Nat, S # {}
  PROVE  \E m \in S : \A k \in S : m <= k
<1>1. \E x \in S : \A y \in S : ~ (<<y, x>> \in OpToRel(<, Nat))
  BY NatLessThanWellFounded, WFMin
<1>2. PICK m \in S : \A y \in S : ~ (<<y, m>> \in OpToRel(<, Nat))
  BY <1>1
<1>3. \A y \in S : ~ (y < m)
  <2> TAKE y \in S
  <2>1. y < m => <<y, m>> \in OpToRel(<, Nat)
    BY DEF OpToRel
  <2> QED
    BY <2>1, <1>2
<1> QED
  BY <1>3

\* Induction, for a set.
LEMMA CountsUp ==
  ASSUME NEW S, 0 \in S, \A n \in Nat : n \in S => n + 1 \in S
  PROVE  Nat \subseteq S
<1> SUFFICES ASSUME Nat \ S # {} PROVE FALSE
  OBVIOUS
<1>1. PICK m \in Nat \ S : \A k \in Nat \ S : m <= k
  BY LeastExists
<1>2. m # 0 /\ m - 1 \in Nat /\ (m - 1) + 1 = m
  BY <1>1
<1>3. m - 1 \in S
  BY <1>1, <1>2
<1> QED
  BY <1>2, <1>3

\* A bounded set of numbers has a greatest one.
LEMMA GreatestExists ==
  ASSUME NEW n \in Nat, NEW S, S \subseteq 0..n, S # {}
  PROVE  \E m \in S : \A k \in S : k <= m
<1> DEFINE D == {n - k : k \in S}
<1>0. \A k \in S : n - k \in Nat
  OBVIOUS
<1>1. D \subseteq Nat /\ D # {}
  BY <1>0
<1>2. PICK d \in D : \A e \in D : d <= e
  BY <1>1, LeastExists
<1>3. PICK m \in S : d = n - m
  OBVIOUS
<1>4. \A k \in S : k <= m
  <2> TAKE k \in S
  <2>1. n - m <= n - k
    BY <1>2, <1>3
  <2> QED
    BY <2>1
<1> QED
  BY <1>4

(***************************************************************************)
(* The log.                                                                *)
(***************************************************************************)

LEMMA LastMessageIsLast ==
  ASSUME history \in Seq(Update), NamesAreOrdered(history)
  PROVE  /\ LastMessage \in 0..Len(history)
         /\ \A i \in DOMAIN history : history[i].names <= LastMessage
         /\ LastMessage # NoMessage => \E i \in DOMAIN history : history[i].names = LastMessage
<1> DEFINE S == {history[i].names : i \in DOMAIN history}
<1>0. Len(history) \in Nat /\ DOMAIN history = 1..Len(history)
  OBVIOUS
<1>1. S \subseteq 0..Len(history)
  <2> SUFFICES ASSUME NEW i \in DOMAIN history PROVE history[i].names \in 0..Len(history)
    OBVIOUS
  <2>1. history[i] \in Update
    OBVIOUS
  <2> QED
    BY <2>1, <1>0 DEF Update, NamesAreOrdered
<1>2. CASE S = {}
  <2>1. LastMessage = NoMessage
    BY <1>2 DEF LastMessage
  <2>2. DOMAIN history = {}
    BY <1>2
  <2> QED
    BY <2>1, <2>2, <1>0 DEF NoMessage
<1>3. CASE S # {}
  <2>1. \E m \in S : \A k \in S : k <= m
    BY <1>0, <1>1, <1>3, GreatestExists
  <2>2. LastMessage = CHOOSE m \in S : \A k \in S : k <= m
    BY <1>3 DEF LastMessage
  <2>3. LastMessage \in S /\ \A k \in S : k <= LastMessage
    BY <2>1, <2>2
  <2> QED
    BY <2>3, <1>1
<1> QED
  BY <1>2, <1>3

\* A message that goes on keeps within the bound of its length, and a new one ends
\* the groups of all others.
LEMMA UpdateKeepsOrder ==
  ASSUME MaxGroup <= LogCap,
         history \in Seq(Update), Len(history) < MaxHistory,
         NamesAreOrdered(history), GroupsAreBounded(history),
         NEW u, 
         \/ u = [names |-> LastMessage + 1, role |-> "assistant"]
         \/ /\ GroupLength < MaxGroup
            /\ \/ LastMessage # NoMessage /\ u = [names |-> LastMessage, role |-> "assistant"]
               \/ u = [names |-> NoMessage, role |-> "assistant"]
               \/ u = [names |-> NoMessage, role |-> "user"]
  PROVE  /\ u \in Update
         /\ NamesAreOrdered(Append(history, u))
         /\ GroupsAreBounded(Append(history, u))
<1> DEFINE h == Append(history, u)
           n == Len(history) + 1
<1>0. Len(history) \in Nat /\ DOMAIN history = 1..Len(history) /\ MaxHistory \in Nat /\ LogCap \in Nat
      /\ LogCap >= 1 /\ MaxGroup \in Nat
  BY LogBounds
<1>1. /\ LastMessage \in 0..Len(history)
      /\ \A i \in DOMAIN history : history[i].names <= LastMessage
      /\ LastMessage # NoMessage => \E i \in DOMAIN history : history[i].names = LastMessage
  BY LastMessageIsLast
<1>2. u \in Update
  BY <1>0, <1>1 DEF Update, NoMessage
<1>3. h \in Seq(Update) /\ Len(h) = n /\ DOMAIN h = 1..n /\ h[n] = u
      /\ \A i \in 1..Len(history) : h[i] = history[i]
  BY <1>0, <1>2
<1>4. u.names \in {NoMessage, LastMessage, LastMessage + 1}
  OBVIOUS
<1>5. \A i \in DOMAIN history : history[i].names \in Nat
  <2> TAKE i \in DOMAIN history
  <2>1. history[i] \in Update
    OBVIOUS
  <2> QED
    BY <2>1, <1>0 DEF Update
<1>6. NamesAreOrdered(h)
  <2>1. \A i \in DOMAIN h : h[i].names <= i
    BY <1>0, <1>1, <1>3, <1>4 DEF NamesAreOrdered, NoMessage
  <2>2. ASSUME NEW i \in DOMAIN h, NEW j \in DOMAIN h, i <= j, h[j].names # NoMessage
        PROVE  h[i].names <= h[j].names
    <3>1. CASE j <= Len(history)
      BY <2>2, <3>1, <1>0, <1>3 DEF NamesAreOrdered
    <3>2. CASE j = n /\ i = n
      BY <3>2, <1>3, <1>2, <1>0 DEF Update
    <3>3. CASE j = n /\ i <= Len(history)
      <4>1. h[j].names >= LastMessage
        BY <2>2, <3>3, <1>3, <1>4, <1>1 DEF NoMessage
      <4> QED
        BY <4>1, <3>3, <1>0, <1>1, <1>3, <1>4, <1>5 DEF NoMessage
    <3> QED
      BY <3>1, <3>2, <3>3, <1>0, <1>3
  <2> QED
    BY <2>1, <2>2 DEF NamesAreOrdered
<1>7. GroupsAreBounded(h)
  <2> SUFFICES ASSUME NEW i \in DOMAIN h, NEW j \in DOMAIN h, j - i >= LogCap
               PROVE  \E k \in (i + 1)..j : h[k].names \notin {NoMessage, h[i].names}
    BY DEF GroupsAreBounded
  <2>0. i \in 1..Len(history) /\ j \in 1..n /\ i < j
    BY <1>0, <1>3
  <2>1. CASE j <= Len(history)
    <3>1. j \in DOMAIN history /\ i \in DOMAIN history
      BY <2>0, <2>1, <1>0
    <3>2. PICK k \in (i + 1)..j : history[k].names \notin {NoMessage, history[i].names}
      BY <3>1 DEF GroupsAreBounded
    <3> QED
      BY <3>2, <2>0, <2>1, <1>0, <1>3
  <2>2. CASE j = n /\ u.names = LastMessage + 1
    <3>1. h[n].names \notin {NoMessage, h[i].names}
      BY <2>2, <2>0, <1>0, <1>1, <1>3, <1>5 DEF NoMessage
    <3> QED
      BY <3>1, <2>2, <2>0, <1>0
  <2>3. CASE j = n /\ u.names # LastMessage + 1
    <3> SUFFICES ASSUME \A k \in (i + 1)..(n - 1) : history[k].names \in {NoMessage, history[i].names}
                 PROVE  FALSE
      BY <2>0, <2>3, <1>0, <1>3
    <3> DEFINE G == {x \in DOMAIN history :
                       \A y \in x..Len(history) : history[y].names \in {NoMessage, LastMessage}}
    <3>1. GroupLength < MaxGroup /\ GroupLength = Cardinality(G)
      BY <2>3 DEF GroupLength
    <3>2. history[i].names \in {NoMessage, LastMessage}
      <4> SUFFICES ASSUME history[i].names # NoMessage, history[i].names # LastMessage PROVE FALSE
        OBVIOUS
      <4>1. history[i].names < LastMessage
        BY <2>0, <1>0, <1>1, <1>5
      <4>2. PICK p \in DOMAIN history : history[p].names = LastMessage
        BY <4>1, <2>0, <1>0, <1>1, <1>5 DEF NoMessage
      <4>3. p > i
        <5> SUFFICES ASSUME p <= i PROVE FALSE
          BY <4>2, <2>0, <1>0
        <5>1. history[p].names <= history[i].names
          BY <2>0, <1>0 DEF NamesAreOrdered
        <5> QED
          BY <5>1, <4>1, <4>2, <2>0, <1>0, <1>1, <1>5
      <4>4. p \in (i + 1)..(n - 1)
        BY <4>3, <2>0, <1>0
      <4> QED
        BY <4>1, <4>2, <4>4, <2>0, <1>0, <1>1, <1>5 DEF NoMessage
    <3>3. i..Len(history) \subseteq G
      <4> SUFFICES ASSUME NEW x \in i..Len(history), NEW y \in x..Len(history)
                   PROVE  x \in DOMAIN history /\ history[y].names \in {NoMessage, LastMessage}
        OBVIOUS
      <4>1. x \in DOMAIN history
        BY <2>0, <1>0
      <4>2. y = i \/ y \in (i + 1)..(n - 1)
        BY <2>0, <1>0
      <4> QED
        BY <4>1, <4>2, <3>2
    <3>4. IsFiniteSet(G)
      <4>1. IsFiniteSet(1..Len(history))
        BY <1>0, FS_Interval
      <4> QED
        BY <4>1, <1>0, FS_Subset
    <3>5. Cardinality(i..Len(history)) = Len(history) - i + 1
      BY <2>0, <1>0, FS_Interval
    <3>6. Cardinality(i..Len(history)) <= Cardinality(G)
      BY <3>3, <3>4, FS_Subset
    <3>7. Cardinality(G) \in Nat
      BY <3>4, FS_CardinalityType
    <3> QED
      BY <3>1, <3>5, <3>6, <3>7, <2>0, <2>3, <1>0
  <2> QED
    BY <2>0, <2>1, <2>2, <2>3, <1>0
<1> QED
  BY <1>2, <1>6, <1>7

\* The first entry of what is kept is the begin of a message, and a log over its cap
\* keeps something.
LEMMA AppendKeepsLog ==
  ASSUME NEW h \in Seq(Update), NamesAreOrdered(h), GroupsAreBounded(h),
         NEW n \in Nat, n + 1 <= Len(h), Len(h) <= MaxHistory,
         NEW s, LogOf(h, n, s)
  PROVE  LogOf(h, n + 1, Appended(h, s, n + 1)) /\ Len(Appended(h, s, n + 1)) <= Len(s) + 1
<1> DEFINE e == Append(s, n + 1)
           t == n + 1 - Len(s)
           kept == {i \in 2..Len(e) : h[e[i]].names \notin {NoMessage, h[e[1]].names}}
<1>0. /\ MaxHistory \in Nat /\ LogCap \in Nat /\ LogCap >= 1
      /\ Len(h) \in Nat /\ DOMAIN h = 1..Len(h)
      /\ s \in Seq(1..MaxHistory) /\ Len(s) \in Nat /\ Len(s) <= n /\ DOMAIN s = 1..Len(s)
  BY LogBounds DEF LogOf
<1>1. /\ e \in Seq(1..MaxHistory) /\ Len(e) = Len(s) + 1 /\ DOMAIN e = 1..(Len(s) + 1)
      /\ \A i \in 1..Len(s) : e[i] = s[i]
      /\ e[Len(s) + 1] = n + 1
  BY <1>0
<1>a. Len(h) \in Nat /\ DOMAIN h = 1..Len(h) /\ n + 1 <= Len(h)
  BY <1>0
<1>t. t \in 1..(n + 1) /\ Len(s) = n + 1 - t
  BY <1>0
<1> HIDE DEF e, t
<1>2. t \in 1..(n + 1) /\ \A i \in 1..Len(e) : e[i] = t - 1 + i /\ e[i] \in DOMAIN h
  <2> SUFFICES ASSUME NEW i \in 1..Len(e) PROVE e[i] = t - 1 + i /\ e[i] \in DOMAIN h
    BY <1>t
  <2>1. CASE i = Len(s) + 1
    BY <2>1, <1>0, <1>1, <1>t
  <2>2. CASE i \in 1..Len(s)
    <3>1. s[i] = n - Len(s) + i
      BY <2>2, <1>0 DEF LogOf
    <3>2. e[i] = s[i]
      BY <2>2, <1>1
    <3>3. Len(s) \in Nat /\ i \in Nat /\ 1 <= i /\ i <= Len(s)
      BY <2>2, <1>0
    <3>4. n - Len(s) + i = t - 1 + i /\ t - 1 + i \in 1..(n + 1)
      BY <3>3, <1>t
    <3>5. t - 1 + i \in DOMAIN h
      BY <3>4, <1>a
    <3> QED
      BY <3>1, <3>2, <3>4, <3>5
  <2> QED
    BY <2>1, <2>2, <1>0, <1>1
<1>3. e[1] = t
  BY <1>0, <1>1, <1>t, <1>2
<1>4. StartsWell(h, t)
  <2>1. CASE s = <<>>
    <3>1. n = 0
      BY <2>1, <1>0 DEF LogOf
    <3> QED
      BY <3>1, <1>2 DEF StartsWell
  <2>2. CASE s # <<>>
    <3>1. s[1] = t
      BY <2>2, <1>0, <1>t DEF LogOf
    <3> QED
      BY <2>2, <3>1 DEF LogOf
  <2> QED
    BY <2>1, <2>2
<1>5. \A i \in DOMAIN h : h[i].names \in Nat
  <2> TAKE i \in DOMAIN h
  <2>1. h[i] \in Update
    OBVIOUS
  <2> QED
    BY <2>1, <1>0 DEF Update
<1>6. CASE ~(Len(e) > LogCap /\ Len(e) > 1)
  <2>1. Appended(h, s, n + 1) = e
    BY <1>6 DEF Appended, e
  <2>2. \A i \in DOMAIN e : e[i] = n + 1 - Len(e) + i
    BY <1>0, <1>1, <1>t, <1>2
  <2>3. e # <<>> /\ Len(e) <= n + 1
    BY <1>0, <1>1
  <2>4. Len(e) <= Len(s) + 1
    BY <1>1, <1>0
  <2>5. LogOf(h, n + 1, e)
    BY <2>2, <2>3, <1>1, <1>3, <1>4 DEF LogOf
  <2> QED
    BY <2>1, <2>4, <2>5
<1>7. CASE Len(e) > LogCap /\ Len(e) > 1
  <2>1. Appended(h, s, n + 1) = EvictOldest(h, e)
    BY <1>7 DEF Appended, e
  <2>2. PICK k \in (t + 1)..(n + 1) : h[k].names \notin {NoMessage, h[t].names}
    <3>1. t \in DOMAIN h /\ n + 1 \in DOMAIN h /\ (n + 1) - t >= LogCap
      BY <1>0, <1>1, <1>t, <1>2, <1>7
    <3> QED
      BY <3>1 DEF GroupsAreBounded
  <2>3. k - t + 1 \in kept
    <3>1. k - t + 1 \in 2..Len(e)
      BY <2>2, <1>0, <1>1, <1>t, <1>2
    <3>2. e[k - t + 1] = k
      BY <3>1, <2>2, <1>0, <1>1, <1>t, <1>2
    <3> QED
      BY <3>1, <3>2, <2>2, <1>3
  <2>4. kept \subseteq Nat /\ kept # {}
    <3>1. kept \subseteq 2..Len(e)
      OBVIOUS
    <3>2. \A i \in 2..Len(e) : i \in Nat
      OBVIOUS
    <3>3. kept # {}
      BY <2>3
    <3> QED
      BY <3>1, <3>2, <3>3
  <2>5. \E i \in kept : \A j \in kept : i <= j
    BY <2>4, LeastExists
  <2> DEFINE f == CHOOSE i \in kept : \A j \in kept : i <= j
  <2>6. f \in kept /\ \A j \in kept : f <= j
    BY <2>5
  <2> HIDE DEF f
  <2>7. f \in 2..Len(e) /\ h[e[f]].names \notin {NoMessage, h[e[1]].names}
    BY <2>6
  <2>l. Len(e) \in Nat /\ f \in Int /\ 2 <= f /\ f <= Len(e) /\ e \in Seq(1..MaxHistory) /\ Len(e) = n + 2 - t
    BY <2>7, <1>0, <1>1, <1>t
  <2>8. EvictOldest(h, e) = SubSeq(e, f, Len(e))
    BY <2>4 DEF EvictOldest, f
  <2> DEFINE r == SubSeq(e, f, Len(e))
  <2>9. /\ r \in Seq(1..MaxHistory) /\ Len(r) = Len(e) - f + 1
        /\ \A i \in 1..(Len(e) - f + 1) : r[i] = e[f + i - 1]
    <3>1. \A i \in f..Len(e) : e[i] \in 1..MaxHistory
      <4> SUFFICES ASSUME NEW i \in f..Len(e) PROVE e[i] \in 1..MaxHistory
        OBVIOUS
      <4>1. i \in 1..Len(e)
        BY <2>l
      <4> QED
        BY <4>1, <1>0, <1>a, <1>2
    <3> QED
      BY <3>1, <2>l, SubSeqProperties
  <2> HIDE DEF r
  <2>10. r # <<>> /\ Len(r) <= n + 1 /\ Len(r) \in Nat /\ DOMAIN r = 1..Len(r)
    BY <2>9, <2>l, <1>t
  <2>11. \A i \in DOMAIN r : r[i] = n + 1 - Len(r) + i
    <3> TAKE i \in DOMAIN r
    <3>1. f + i - 1 \in 1..Len(e)
      BY <2>9, <2>10, <2>l
    <3>2. r[i] = t - 1 + (f + i - 1)
      BY <3>1, <2>9, <2>10, <1>2
    <3> QED
      BY <3>2, <2>9, <2>10, <2>l, <1>t
  <2>p. PICK p \in Int : p = t - 1 + f
    BY <2>l, <1>t
  <2>12. r[1] = p /\ r[1] = e[f] /\ p \in DOMAIN h
    BY <2>p, <2>9, <2>l, <1>t, <1>2
  <2>13. Begins(h, p, h[p].names)
    <3>n. h[p].names \notin {NoMessage, h[t].names}
      BY <2>7, <2>12, <1>3
    <3> SUFFICES ASSUME NEW q \in 1..(p - 1), h[q].names = h[p].names PROVE FALSE
      BY <3>n DEF Begins
    <3>a. t \in DOMAIN h /\ t \in Int /\ 1 <= t
      BY <1>a, <1>t
    <3>b. q \in DOMAIN h /\ q \in Int /\ 1 <= q /\ q < p
      BY <2>12, <1>a
    <3>0. q \in DOMAIN h /\ t \in DOMAIN h /\ q \in Int /\ t \in Int /\ 1 <= t /\ 1 <= q /\ q < p
      BY <3>a, <3>b
    <3>l. Len(e) \in Int /\ Len(e) = n + 2 - t /\ p = t - 1 + f /\ f <= Len(e) /\ f \in Int
      BY <2>l, <2>p
    <3>1. CASE q >= t
      <4>x. PICK x \in Int : x = q - t + 1
        BY <3>0
      <4>a. 1 <= x
        BY <4>x, <3>1, <3>0
      <4>b. x < f
        <5>1. p = t - 1 + f /\ f \in Int /\ t \in Int /\ q \in Int /\ q < p /\ x = q - t + 1
          BY <4>x, <3>0, <3>l
        <5>2. f = p - t + 1
          BY <5>1
        <5> QED
          BY <5>1, <5>2
      <4>1. x \in 1..Len(e) /\ x < f
        BY <4>a, <4>b, <3>l
      <4>y. e[x] = q
        <5>1. e[x] = t - 1 + x
          BY <4>1, <1>2
        <5> QED
          BY <5>1, <4>x, <3>0
      <4>2. CASE q = t
        BY <4>2, <3>n
      <4>3. CASE q > t
        <5>0. x \in 2..Len(e)
          <6>1. q \in Int /\ t \in Int /\ q > t /\ x = q - t + 1
            BY <4>3, <4>x, <3>0
          <6>2. x >= 2
            BY <6>1
          <6> QED
            BY <6>2, <4>1
        <5>1. x \in kept
          BY <5>0, <4>y, <3>n, <1>3
        <5>2. f <= x
          BY <5>1, <2>6
        <5> QED
          BY <5>2, <4>1, <3>l
      <4> QED
        BY <4>2, <4>3, <3>1, <3>0, <1>0
    <3>2. CASE q < t
      <4>1. t > 1 /\ Begins(h, t, h[t].names)
        BY <3>2, <3>0, <1>0, <1>2, <1>4 DEF StartsWell
      <4>2. h[t].names # NoMessage
        BY <4>1 DEF Begins
      <4>3. h[q].names <= h[t].names
        <5>1. q \in DOMAIN h /\ t \in DOMAIN h /\ q <= t
          BY <3>0, <3>2
        <5> QED
          BY <5>1, <4>2 DEF NamesAreOrdered
      <4>4. h[t].names <= h[p].names
        <5>1. t <= p
          BY <2>p, <2>l, <1>0, <1>1, <1>t, <1>2
        <5> QED
          BY <5>1, <3>0, <2>7, <2>12 DEF NamesAreOrdered
      <4>5. h[q].names = h[t].names
        BY <4>3, <4>4, <3>0, <2>12, <1>5
      <4>6. q \in 1..(t - 1)
        BY <3>0, <3>2, <1>0, <1>2
      <4> QED
        BY <4>5, <4>6, <4>1 DEF Begins
    <3> QED
      BY <3>1, <3>2, <3>0, <1>0, <1>2
  <2>14. StartsWell(h, r[1])
    BY <2>12, <2>13 DEF StartsWell
  <2>s. Len(r) <= Len(s) + 1
    BY <2>9, <2>l, <1>t
  <2>15. LogOf(h, n + 1, r)
    BY <2>9, <2>10, <2>11, <2>14 DEF LogOf
  <2> QED
    BY <2>1, <2>8, <2>15, <2>s DEF r
<1> QED
  BY <1>6, <1>7

\* The log speaks of what was there before the update, so another one changes nothing.
LEMMA LogOutlivesUpdate ==
  ASSUME NEW h \in Seq(Update), NEW u \in Update,
         NEW n \in Nat, n <= Len(h), NEW s, LogOf(h, n, s)
  PROVE  LogOf(Append(h, u), n, s)
<1>0. /\ Len(h) \in Nat /\ DOMAIN h = 1..Len(h)
      /\ \A i \in 1..Len(h) : Append(h, u)[i] = h[i]
  OBVIOUS
<1>1. CASE s = <<>>
  BY <1>1 DEF LogOf
<1>2. CASE s # <<>>
  <2>1. s[1] \in 1..Len(h)
    BY <1>2, <1>0, LogBounds DEF LogOf
  <2>2. StartsWell(Append(h, u), s[1])
    BY <1>0, <1>2, <2>1 DEF LogOf, StartsWell, Begins
  <2> QED
    BY <2>2, <1>2 DEF LogOf
<1> QED
  BY <1>1, <1>2

\* The transcript that is replayed into an empty log fills it in the same way.
LEMMA RefilledIsLog ==
  ASSUME history \in Seq(Update), Len(history) <= MaxHistory,
         NamesAreOrdered(history), GroupsAreBounded(history)
  PROVE  LogOf(history, Len(history), Refilled)
<1> DEFINE Fill(f, N) ==
             f = [n \in 0..N |-> IF n = 0 THEN <<>> ELSE Appended(history, f[n - 1], n)]
           Fillable == {N \in Nat : \E f : Fill(f, N)}
<1>0. Len(history) \in Nat
  OBVIOUS
<1>1. Nat \subseteq Fillable
  <2>1. 0 \in Fillable
    <3>1. Fill([n \in 0..0 |-> <<>>], 0)
      OBVIOUS
    <3> QED
      BY <3>1
  <2>2. ASSUME NEW N \in Nat, N \in Fillable PROVE N + 1 \in Fillable
    <3>1. PICK f : Fill(f, N)
      BY <2>2
    <3> DEFINE g == [n \in 0..(N + 1) |-> IF n = N + 1 THEN Appended(history, f[N], N + 1) ELSE f[n]]
    <3>2. \A n \in 0..(N + 1) :
            g[n] = IF n = 0 THEN <<>> ELSE Appended(history, g[n - 1], n)
      <4> TAKE n \in 0..(N + 1)
      <4>1. CASE n = N + 1
        <5>1. g[n - 1] = f[N] /\ n # 0
          BY <4>1
        <5> QED
          BY <5>1, <4>1
      <4>2. CASE n \in 0..N
        <5>1. g[n] = f[n]
          BY <4>2
        <5>2. n # 0 => g[n - 1] = f[n - 1]
          BY <4>2
        <5>3. f[n] = IF n = 0 THEN <<>> ELSE Appended(history, f[n - 1], n)
          BY <3>1, <4>2
        <5> QED
          BY <5>1, <5>2, <5>3
      <4> QED
        BY <4>1, <4>2
    <3>3. Fill(g, N + 1)
      BY <3>2
    <3> HIDE DEF g, Fill
    <3> QED
      BY <3>3
  <2> HIDE DEF Fillable
  <2> QED
    BY <2>1, <2>2, CountsUp
<1> DEFINE filled == CHOOSE f : Fill(f, Len(history))
<1>2. Fill(filled, Len(history))
  BY <1>0, <1>1
<1>3. Refilled = filled[Len(history)]
  BY DEF Refilled
<1> DEFINE Good == {n \in Nat : n <= Len(history) => LogOf(history, n, filled[n])}
<1> HIDE DEF filled
<1>4. 0 \in Good
  <2>1. filled[0] = <<>>
    BY <1>0, <1>2
  <2>2. LogOf(history, 0, <<>>)
    BY DEF LogOf
  <2> QED
    BY <2>1, <2>2
<1>5. ASSUME NEW n \in Nat, n \in Good PROVE n + 1 \in Good
  <2> SUFFICES ASSUME n + 1 <= Len(history) PROVE LogOf(history, n + 1, filled[n + 1])
    OBVIOUS
  <2>1. LogOf(history, n, filled[n])
    BY <1>0, <1>5
  <2>2. filled[n + 1] = Appended(history, filled[n], n + 1)
    <3>1. n + 1 \in 0..Len(history) /\ n + 1 # 0 /\ (n + 1) - 1 = n
      BY <1>0
    <3> QED
      BY <3>1, <1>2
  <2> QED
    BY <2>1, <2>2, AppendKeepsLog
<1>6. Nat \subseteq Good
  <2> HIDE DEF Good
  <2> QED
    BY <1>4, <1>5, CountsUp
<1> QED
  BY <1>0, <1>3, <1>6

(***************************************************************************)
(* What a browser has read stays as it is while the history grows.         *)
(***************************************************************************)

LEMMA BeginsStay ==
  ASSUME NEW h \in Seq(Update), NEW u \in Update, NEW p \in 1..Len(h)
  PROVE  /\ \A m : Begins(h, p, m) => Begins(Append(h, u), p, m)
         /\ StartsWell(h, p) => StartsWell(Append(h, u), p)
<1>1. \A q \in 1..Len(h) : Append(h, u)[q] = h[q]
  OBVIOUS
<1>2. p \in 1..Len(h) /\ \A q \in 1..(p - 1) : q \in 1..Len(h)
  OBVIOUS
<1> QED
  BY <1>1, <1>2 DEF Begins, StartsWell

LEMMA WholeStays ==
  ASSUME NEW h \in Seq(Update), NEW u \in Update, NEW msgs \in Seq(Shown), NEW c,
         \A k \in DOMAIN msgs : /\ msgs[k].parts # <<>>
                                /\ \A j \in DOMAIN msgs[k].parts : msgs[k].parts[j] <= Len(h),
         NEW i \in 0..Len(msgs), NEW to, Whole(h, msgs, c, i, to)
  PROVE  Whole(Append(h, u), msgs, c, i, to)
<1>0. Len(h) \in Nat /\ Len(msgs) \in Nat /\ \A q \in 1..Len(h) : Append(h, u)[q] = h[q]
  OBVIOUS
<1>1. ASSUME i > 0
      PROVE  /\ msgs[1].parts[1] \in 1..Len(h)
             /\ Last(msgs[i].parts) \in 1..Len(h)
  <2>1. 1 \in DOMAIN msgs /\ i \in DOMAIN msgs
    BY <1>1, <1>0
  <2>2. ASSUME NEW k \in DOMAIN msgs
        PROVE  /\ msgs[k].parts \in Seq(1..MaxHistory) /\ msgs[k].parts # <<>>
               /\ 1 \in DOMAIN msgs[k].parts /\ Len(msgs[k].parts) \in DOMAIN msgs[k].parts
    <3>1. msgs[k] \in Shown
      OBVIOUS
    <3>2. msgs[k].parts \in Seq(1..MaxHistory)
      BY <3>1 DEF Shown
    <3> QED
      BY <3>2
  <2>3. \A k \in DOMAIN msgs : \A j \in DOMAIN msgs[k].parts : msgs[k].parts[j] \in 1..Len(h)
    <3> SUFFICES ASSUME NEW k \in DOMAIN msgs, NEW j \in DOMAIN msgs[k].parts
                 PROVE  msgs[k].parts[j] \in 1..Len(h)
      OBVIOUS
    <3>1. msgs[k].parts[j] \in 1..MaxHistory
      <4>1. msgs[k].parts \in Seq(1..MaxHistory) /\ j \in 1..Len(msgs[k].parts)
        BY <2>2
      <4> QED
        BY <4>1, ElementOfSeq
    <3> QED
      BY <3>1, <1>0, LogBounds
  <2> QED
    BY <2>1, <2>2, <2>3 DEF Last
<1>2. ASSUME i > 0
      PROVE  /\ StartsWell(Append(h, u), msgs[1].parts[1])
             /\ \A q \in msgs[1].parts[1]..to : Append(h, u)[q] = h[q]
  <2>1. StartsWell(h, msgs[1].parts[1]) /\ to = Last(msgs[i].parts)
    BY <1>2 DEF Whole
  <2>2. StartsWell(Append(h, u), msgs[1].parts[1])
    BY <2>1, <1>1, <1>2, BeginsStay
  <2>3. \A q \in msgs[1].parts[1]..to : q \in 1..Len(h)
    BY <2>1, <1>1, <1>2, <1>0
  <2> QED
    BY <2>2, <2>3, <1>0
<1> QED
  BY <1>2 DEF Whole

\* Only the first i messages count.
LEMMA WholeAlike ==
  ASSUME NEW h, NEW a, NEW b, NEW c, NEW i \in Nat, NEW to, Whole(h, a, c, i, to),
         \A k \in 1..i : a[k] = b[k]
  PROVE  Whole(h, b, c, i, to)
<1>1. i > 0 => 1 \in 1..i /\ i \in 1..i
  OBVIOUS
<1>2. \A k \in 2..i : k \in 1..i /\ k - 1 \in 1..i
  OBVIOUS
<1> QED
  BY <1>1, <1>2 DEF Whole

LEMMA WholeBeforeAlike ==
  ASSUME NEW h, NEW a, NEW b, NEW c, NEW i \in Nat \ {0}, WholeBefore(h, a, c, i),
         \A k \in 1..(i - 1) : a[k] = b[k],
         a[i].names = b[i].names, a[i].parts[1] = b[i].parts[1]
  PROVE  WholeBefore(h, b, c, i)
<1>1. Whole(h, b, c, i - 1, b[i].parts[1] - 1)
  BY WholeAlike DEF WholeBefore
<1> QED
  BY <1>1 DEF WholeBefore

(***************************************************************************)
(* The model of the browser.                                               *)
(***************************************************************************)

LEMMA PartsAreNumbers ==
  ASSUME NEW msgs \in Seq(Shown), NEW k \in DOMAIN msgs, msgs[k].parts # <<>>
  PROVE  /\ msgs[k].names \in 0..MaxHistory /\ msgs[k].role \in {"user", "assistant"}
         /\ msgs[k].parts \in Seq(1..MaxHistory)
         /\ Len(msgs[k].parts) \in Nat \ {0}
         /\ DOMAIN msgs[k].parts = 1..Len(msgs[k].parts)
         /\ 1 \in DOMAIN msgs[k].parts /\ Len(msgs[k].parts) \in DOMAIN msgs[k].parts
         /\ \A j \in DOMAIN msgs[k].parts : msgs[k].parts[j] \in 1..MaxHistory
<1>1. msgs[k] \in Shown
  OBVIOUS
<1>2. msgs[k].parts \in Seq(1..MaxHistory) /\ msgs[k].names \in 0..MaxHistory
      /\ msgs[k].role \in {"user", "assistant"}
  BY <1>1 DEF Shown
<1>3. Len(msgs[k].parts) \in Nat \ {0} /\ DOMAIN msgs[k].parts = 1..Len(msgs[k].parts)
  BY <1>2
<1>4. \A j \in 1..Len(msgs[k].parts) : msgs[k].parts[j] \in 1..MaxHistory
  BY <1>2, ElementOfSeq
<1> QED
  BY <1>2, <1>3, <1>4

\* An update goes to the last message, or is a message of its own.
LEMMA AppliedIs ==
  ASSUME history \in Seq(Update), NEW msgs \in Seq(Shown),
         \A k \in DOMAIN msgs : msgs[k].parts # <<>>,
         NEW n \in DOMAIN history, n \in 1..MaxHistory
  PROVE  LET r == Applied(msgs, n)
             l == Len(msgs)
         IN  /\ r \in Seq(Shown)
             /\ \/ /\ l > 0 /\ Len(r) = l
                   /\ \A k \in 1..(l - 1) : r[k] = msgs[k]
                   /\ r[l].names = msgs[l].names
                   /\ r[l].parts = Append(msgs[l].parts, n)
                   /\ history[n].names # NoMessage => msgs[l].names = history[n].names
                \/ /\ Len(r) = l + 1
                   /\ \A k \in 1..l : r[k] = msgs[k]
                   /\ r[l + 1].names = history[n].names
                   /\ r[l + 1].parts = <<n>>
<1> DEFINE u == history[n]
           l == Len(msgs)
           fits == /\ msgs # <<>>
                   /\ IF u.names # NoMessage THEN msgs[l].names = u.names ELSE msgs[l].role = u.role
<1>0. l \in Nat /\ DOMAIN msgs = 1..l /\ u \in Update
  OBVIOUS
<1>1. u.names \in 0..MaxHistory /\ u.role \in {"user", "assistant"}
  BY <1>0 DEF Update
<1>2. CASE fits
  <2>1. l \in DOMAIN msgs /\ l > 0
    BY <1>2, <1>0
  <2>2. msgs[l] \in Shown
    BY <2>1
  <2> DEFINE m == [msgs[l] EXCEPT !.parts = Append(@, n)]
             r == [msgs EXCEPT ![l] = m]
  <2>3. Applied(msgs, n) = r
    BY <1>2 DEF Applied
  <2>4. msgs[l].parts \in Seq(1..MaxHistory)
    BY <2>2 DEF Shown
  <2>5. Append(msgs[l].parts, n) \in Seq(1..MaxHistory)
    BY <2>4
  <2>6. m \in Shown /\ m.names = msgs[l].names /\ m.parts = Append(msgs[l].parts, n)
    BY <2>2, <2>5 DEF Shown
  <2> HIDE DEF m
  <2>7. r \in Seq(Shown) /\ Len(r) = l /\ r[l] = m /\ \A k \in 1..(l - 1) : r[k] = msgs[k]
    <3>1. /\ r \in Seq(Shown) /\ Len(r) = l
          /\ \A k \in 1..l : r[k] = IF k = l THEN m ELSE msgs[k]
      BY <2>1, <2>6, <1>0, ExceptSeq
    <3> HIDE DEF r
    <3>2. r[l] = m
      BY <2>1, <1>0, <3>1
    <3>3. \A k \in 1..(l - 1) : r[k] = msgs[k]
      <4> SUFFICES ASSUME NEW k \in 1..(l - 1) PROVE r[k] = msgs[k]
        OBVIOUS
      <4>0. Len(msgs) \in Nat
        BY <1>0
      <4>1. k \in 1..l /\ k # l
        BY <4>0
      <4> QED
        BY <4>1, <3>1
    <3> QED
      BY <3>1, <3>2, <3>3
  <2>8. u.names # NoMessage => msgs[l].names = u.names
    BY <1>2
  <2> QED
    BY <2>1, <2>3, <2>6, <2>7, <2>8
<1>3. CASE ~fits
  <2> DEFINE m == [names |-> u.names, role |-> u.role, parts |-> <<n>>]
  <2>1. Applied(msgs, n) = Append(msgs, m)
    BY <1>3 DEF Applied
  <2>2. m \in Shown /\ m.names = u.names /\ m.parts = <<n>>
    <3>1. <<n>> \in Seq(1..MaxHistory)
      OBVIOUS
    <3> QED
      BY <3>1, <1>1 DEF Shown
  <2> HIDE DEF m
  <2>3. /\ Append(msgs, m) \in Seq(Shown) /\ Len(Append(msgs, m)) = l + 1
        /\ Append(msgs, m)[l + 1] = m /\ \A k \in 1..l : Append(msgs, m)[k] = msgs[k]
    BY <2>2, <1>0, AppendProperties
  <2> QED
    BY <2>1, <2>2, <2>3
<1> QED
  BY <1>2, <1>3

\* The model is cut before the first message with the name.
LEMMA TruncationIs ==
  ASSUME NEW msgs \in Seq(Shown), NEW m, m # NoMessage, \E k \in DOMAIN msgs : msgs[k].names = m
  PROVE  /\ TruncatedFrom(msgs, m) # msgs
         /\ \E f \in DOMAIN msgs :
              /\ msgs[f].names = m /\ \A k \in 1..(f - 1) : msgs[k].names # m
              /\ TruncatedFrom(msgs, m) = SubSeq(msgs, 1, f - 1)
<1> DEFINE S == {i \in DOMAIN msgs : msgs[i].names = m}
<1>0. Len(msgs) \in Nat /\ DOMAIN msgs = 1..Len(msgs)
  OBVIOUS
<1>1. S \subseteq Nat /\ S # {}
  BY <1>0
<1> DEFINE f == CHOOSE i \in S : \A j \in S : i <= j
<1>2. f \in S /\ \A j \in S : f <= j
  <2>1. \E i \in S : \A j \in S : i <= j
    BY <1>1, LeastExists
  <2> QED
    BY <2>1
<1>3. TruncatedFrom(msgs, m) = SubSeq(msgs, 1, f - 1)
  BY <1>1 DEF TruncatedFrom
<1> HIDE DEF f
<1>4. f \in 1..Len(msgs)
  BY <1>0, <1>2
<1>5. Len(SubSeq(msgs, 1, f - 1)) = f - 1
  BY <1>0, <1>4
<1>6. \A k \in 1..(f - 1) : msgs[k].names # m
  <2> SUFFICES ASSUME NEW k \in 1..(f - 1), msgs[k].names = m PROVE FALSE
    OBVIOUS
  <2>1. k \in S
    BY <1>0, <1>4
  <2> QED
    BY <2>1, <1>2, <1>4
<1> QED
  BY <1>0, <1>2, <1>3, <1>4, <1>5, <1>6

(***************************************************************************)
(* The log and the socket, step by step.                                   *)
(***************************************************************************)

\* What the pipe carries.
LEMMA CarriedIs ==
  ASSUME NEW p \in Seq(Carried), NEW i \in DOMAIN p
  PROVE  /\ p[i].kind \in {"update", "created", "replay"}
         /\ p[i].kind = "update" => p[i].n \in 1..MaxHistory
         /\ p[i].kind = "replay" => p[i].resumed \in BOOLEAN /\ p[i].truncated \in BOOLEAN
<1>1. p[i] \in Carried
  OBVIOUS
<1> QED
  BY <1>1 DEF Carried

\* What the reader holds speaks of the history only.
ReaderInv ==
  /\ NumbersAreKnown /\ CarriesOne /\ TailIsWhole /\ NoticeIsTrue /\ AnchorIsShown
  /\ AnchorsAreWhole /\ LoadedIsWhole /\ EarlyIsAhead

LEMMA LogIsRefilledKeeps ==
  ASSUME ThreadInv, LogIsRefilled
  PROVE  ThreadInv'
<1>1. history' = history /\ readerVars' = readerVars /\ logged' = Refilled
      /\ logCut' = (Len(Refilled) < Len(history))
  BY DEF LogIsRefilled
<1>2. /\ history \in Seq(Update) /\ Len(history) <= MaxHistory
      /\ NamesAreOrdered(history) /\ GroupsAreBounded(history)
  BY DEF ThreadInv, LogTypeOK, LogIsRight
<1>3. LogOf(history, Len(history), Refilled)
  BY <1>2, RefilledIsLog
<1>4. LogIsRight'
  BY <1>1, <1>2, <1>3 DEF LogIsRight
<1>5. LogTypeOK'
  BY <1>1, <1>3 DEF ThreadInv, LogTypeOK, readerVars, LogOf
<1>6. ReaderInv => ReaderInv'
  BY <1>1 DEF ReaderInv, readerVars, NumbersAreKnown, CarriesOne, TailIsWhole, NoticeIsTrue, AnchorIsShown,
     AnchorsAreWhole, LoadedIsWhole, EarlyIsAhead, HasLoaded, IsShown
<1> QED
  BY <1>4, <1>5, <1>6 DEF ThreadInv, ReaderInv

\* An update of the kind that the thread sends.
UpdateFits(u) ==
  \/ u = [names |-> LastMessage + 1, role |-> "assistant"]
  \/ /\ GroupLength < MaxGroup
     /\ \/ LastMessage # NoMessage /\ u = [names |-> LastMessage, role |-> "assistant"]
        \/ u = [names |-> NoMessage, role |-> "assistant"]
        \/ u = [names |-> NoMessage, role |-> "user"]

LEMMA UpdateArrivesKeeps ==
  ASSUME MaxGroup <= LogCap, ThreadInv, NEW u, UpdateFits(u), UpdateArrives(u)
  PROVE  ThreadInv'
<1> DEFINE n == Len(history) + 1
           h == Append(history, u)
<1>1. /\ Len(history) < MaxHistory
      /\ history' = h
      /\ logged' = Appended(h, logged, n)
      /\ logCut' = (logCut \/ Len(logged) + 1 > Len(Appended(h, logged, n)))
      /\ pipe' = IF link # "down" THEN Append(pipe, [kind |-> "update", n |-> n]) ELSE pipe
      /\ UNCHANGED <<link, model, known, anchor, cut, early>>
  BY DEF UpdateArrives
<1>2. /\ history \in Seq(Update) /\ pipe \in Seq(Carried) /\ model \in Seq(Shown)
      /\ anchor \in 0..MaxHistory /\ early \subseteq 1..MaxHistory
      /\ Len(history) <= MaxHistory
      /\ NamesAreOrdered(history) /\ GroupsAreBounded(history)
      /\ LogOf(history, Len(history), logged)
      /\ logCut <=> Len(logged) < Len(history)
      /\ logCut \in BOOLEAN
  BY DEF ThreadInv, LogTypeOK, LogIsRight
<1>3. u \in Update /\ NamesAreOrdered(h) /\ GroupsAreBounded(h)
  BY <1>1, <1>2, UpdateKeepsOrder DEF UpdateFits
<1>4. /\ Len(history) \in Nat /\ DOMAIN history = 1..Len(history) /\ MaxHistory \in Nat
      /\ Len(pipe) \in Nat /\ DOMAIN pipe = 1..Len(pipe)
      /\ Len(model) \in Nat /\ DOMAIN model = 1..Len(model)
      /\ n \in 1..MaxHistory /\ n # 0
  BY <1>1, <1>2, LogBounds
<1>5. h \in Seq(Update) /\ Len(h) = n /\ h # <<>> /\ \A i \in 1..Len(history) : h[i] = history[i]
  BY <1>2, <1>3, <1>4
<1> HIDE DEF h
<1>6. /\ LogOf(h, n, Appended(h, logged, n))
      /\ Len(Appended(h, logged, n)) <= Len(logged) + 1
  <2>1. LogOf(h, Len(history), logged)
    BY <1>2, <1>3, <1>4, LogOutlivesUpdate DEF h
  <2> QED
    BY <2>1, <1>3, <1>4, <1>5, AppendKeepsLog
<1>7. LogIsRight'
  <2>1. logCut' <=> Len(logged') < Len(h)
    <3>1. Len(logged) \in Nat /\ Len(logged') \in Nat /\ Len(logged') <= n
      BY <1>1, <1>2, <1>6 DEF LogOf
    <3>2. logCut' <=> Len(logged) < Len(history) \/ Len(logged) + 1 > Len(logged')
      BY <1>1, <1>2, Zenon
    <3>3. Len(h) = Len(history) + 1 /\ Len(logged') <= Len(logged) + 1 /\ Len(logged) <= Len(history)
      BY <1>1, <1>2, <1>5, <1>6 DEF LogOf
    <3>4. (Len(logged) < Len(history) \/ Len(logged) + 1 > Len(logged')) <=> Len(logged') < Len(h)
      BY <3>1, <3>3, <1>4
    <3> QED
      BY <3>2, <3>4, Zenon
  <2> QED
    BY <2>1, <1>1, <1>3, <1>4, <1>5, <1>6 DEF LogIsRight
<1>8. LogTypeOK'
  <2>1. pipe' \in Seq(Carried)
    <3>1. [kind |-> "update", n |-> n] \in Carried
      BY <1>4 DEF Carried
    <3> QED
      BY <3>1, <1>1, <1>2
  <2>2. logCut' \in BOOLEAN
    BY <1>1, <1>2
  <2> QED
    BY <2>1, <2>2, <1>1, <1>5, <1>6 DEF ThreadInv, LogTypeOK, LogOf
\* The pipe.
<1>9. /\ \A i \in DOMAIN pipe : pipe'[i] = pipe[i]
      /\ link = "down" => pipe' = pipe
      /\ link # "down" =>
           /\ Len(pipe') = Len(pipe) + 1
           /\ pipe'[Len(pipe) + 1] = [kind |-> "update", n |-> n]
           /\ DOMAIN pipe' = 1..(Len(pipe) + 1)
  <2>1. CASE link = "down"
    BY <2>1, <1>1
  <2>2. CASE link # "down"
    <3>1. pipe' = Append(pipe, [kind |-> "update", n |-> n])
      BY <2>2, <1>1
    <3>2. [kind |-> "update", n |-> n] \in Carried
      BY <1>4 DEF Carried
    <3>3. /\ pipe' \in Seq(Carried) /\ Len(pipe') = Len(pipe) + 1
          /\ pipe'[Len(pipe) + 1] = [kind |-> "update", n |-> n]
          /\ \A i \in 1..Len(pipe) : pipe'[i] = pipe[i]
      BY <3>1, <3>2, <1>2, AppendProperties
    <3> QED
      BY <3>3, <2>2, <1>4
  <2> QED
    BY <2>1, <2>2
<1>10. /\ NumbersAreKnown /\ CarriesOne /\ TailIsWhole /\ NoticeIsTrue /\ AnchorIsShown
       /\ AnchorsAreWhole /\ LoadedIsWhole /\ EarlyIsAhead
  BY DEF ThreadInv
<1>11. ASSUME NEW i \in DOMAIN pipe'
       PROVE  \/ i \in DOMAIN pipe /\ pipe'[i] = pipe[i]
              \/ /\ link # "down" /\ i = Len(pipe) + 1 /\ pipe'[i].kind = "update"
                 /\ pipe'[i].n = n
  <2>1. CASE link = "down"
    BY <2>1, <1>9
  <2>2. CASE link # "down" /\ i \in 1..Len(pipe)
    BY <2>2, <1>9, <1>4
  <2>3. CASE link # "down" /\ i \notin 1..Len(pipe)
    <3>1. i = Len(pipe) + 1
      BY <2>3, <1>9, <1>4
    <3> QED
      BY <3>1, <2>3, <1>9
  <2> QED
    BY <2>1, <2>2, <2>3
<1>12. NumbersAreKnown'
  <2>1. \A i \in DOMAIN pipe' : pipe'[i].kind = "update" => pipe'[i].n <= Len(h)
    <3> SUFFICES ASSUME NEW i \in DOMAIN pipe', pipe'[i].kind = "update" PROVE pipe'[i].n <= Len(h)
      OBVIOUS
    <3>1. CASE i \in DOMAIN pipe /\ pipe'[i] = pipe[i]
      <4>1. pipe[i].n <= Len(history) /\ pipe[i].n \in 1..MaxHistory
        BY <3>1, <1>2, <1>10, CarriedIs DEF NumbersAreKnown
      <4> QED
        BY <3>1, <4>1, <1>4, <1>5
    <3> QED
      BY <3>1, <1>4, <1>5, <1>11
  <2>2. \A i \in DOMAIN model : /\ model[i].parts # <<>>
                                 /\ \A j \in DOMAIN model[i].parts : model[i].parts[j] <= Len(h)
    <3> SUFFICES ASSUME NEW i \in DOMAIN model
                 PROVE  /\ model[i].parts # <<>>
                        /\ \A j \in DOMAIN model[i].parts : model[i].parts[j] <= Len(h)
      OBVIOUS
    <3>1. /\ model[i].parts # <<>>
          /\ \A j \in DOMAIN model[i].parts : model[i].parts[j] <= Len(history)
      BY <1>10 DEF NumbersAreKnown
    <3>2. \A j \in DOMAIN model[i].parts : model[i].parts[j] \in 1..MaxHistory
      BY <3>1, <1>2, PartsAreNumbers
    <3> QED
      BY <3>1, <3>2, <1>4, <1>5
  <2> QED
    BY <2>1, <2>2, <1>1 DEF NumbersAreKnown
<1>13. CarriesOne'
  <2>1. link = "down" => pipe' = <<>>
    BY <1>9, <1>10 DEF CarriesOne
  <2>2. ASSUME NEW i \in DOMAIN pipe', pipe'[i].kind = "created", NEW j \in DOMAIN pipe', pipe'[j].kind = "created"
        PROVE  link = "named" /\ j = i
    BY <2>2, <1>10, <1>11 DEF CarriesOne
  <2>3. ASSUME NEW i \in DOMAIN pipe', pipe'[i].kind = "replay", NEW j \in DOMAIN pipe', pipe'[j].kind = "replay"
        PROVE  link = "loaded" /\ j = i
    BY <2>3, <1>10, <1>11 DEF CarriesOne
  <2> QED
    BY <2>1, <2>2, <2>3, <1>1 DEF CarriesOne
<1>14. TailIsWhole'
  <2> SUFFICES ASSUME link = "loaded", NEW i \in DOMAIN pipe',
                      \A j \in i..Len(pipe') : pipe'[j].kind # "replay"
               PROVE  pipe'[i].kind = "update" /\ pipe'[i].n = Len(h) - Len(pipe') + i
    BY <1>1 DEF TailIsWhole
  <2>0. Len(pipe') = Len(pipe) + 1
    BY <1>9
  <2>1. CASE i \in DOMAIN pipe
    <3>1. \A j \in i..Len(pipe) : pipe[j].kind # "replay"
      <4> TAKE j \in i..Len(pipe)
      <4>1. j \in DOMAIN pipe /\ j \in i..Len(pipe')
        BY <2>0, <2>1, <1>4
      <4> QED
        BY <4>1, <1>9
    <3>2. pipe[i].kind = "update" /\ pipe[i].n = Len(history) - Len(pipe) + i
      BY <2>1, <3>1, <1>10 DEF TailIsWhole
    <3> QED
      BY <2>0, <2>1, <3>2, <1>4, <1>5, <1>9
  <2>2. CASE i = Len(pipe) + 1
    BY <2>0, <2>2, <1>4, <1>5, <1>9
  <2> QED
    BY <2>1, <2>2, <1>4, <1>9
<1>15. NoticeIsTrue'
  <2> SUFFICES ASSUME NEW i \in DOMAIN pipe', pipe'[i].kind = "replay"
               PROVE  /\ i < Len(pipe') /\ StartsWell(h, pipe'[i + 1].n)
                      /\ ~pipe'[i].resumed /\ ~pipe'[i].truncated => pipe'[i + 1].n = 1
                      /\ pipe'[i].resumed => IsShown(anchor) /\ Begins(h, pipe'[i + 1].n, anchor)
    BY <1>1 DEF NoticeIsTrue, IsShown
  <2>1. i \in DOMAIN pipe /\ pipe'[i] = pipe[i] /\ pipe[i].kind = "replay"
    BY <1>11
  <2>2. link = "loaded"
    BY <2>1, <1>10 DEF CarriesOne
  <2>3. i < Len(pipe')
    BY <2>1, <2>2, <1>4, <1>9
  <2>4. CASE i < Len(pipe)
    <3>1. i + 1 \in DOMAIN pipe /\ pipe'[i + 1] = pipe[i + 1]
      BY <2>1, <2>4, <1>4, <1>9
    <3>2. pipe[i + 1].kind = "update"
      <4>1. \A j \in (i + 1)..Len(pipe) : j \in DOMAIN pipe /\ j # i
        BY <2>1, <1>4
      <4>2. \A j \in (i + 1)..Len(pipe) : pipe[j].kind # "replay"
        BY <4>1, <2>1, <1>10 DEF CarriesOne
      <4> QED
        BY <4>2, <3>1, <2>2, <1>10 DEF TailIsWhole
    <3>3. pipe[i + 1].n \in 1..Len(history)
      <4>1. pipe[i + 1].n \in 1..MaxHistory /\ pipe[i + 1].n <= Len(history)
        BY <3>1, <3>2, <1>2, <1>10, CarriedIs DEF NumbersAreKnown
      <4> QED
        BY <4>1, <1>4
    <3>4. /\ StartsWell(history, pipe[i + 1].n)
          /\ ~pipe[i].resumed /\ ~pipe[i].truncated => pipe[i + 1].n = 1
          /\ pipe[i].resumed => IsShown(anchor) /\ Begins(history, pipe[i + 1].n, anchor)
      BY <2>1, <2>4, <1>10 DEF NoticeIsTrue
    <3>5. /\ StartsWell(h, pipe[i + 1].n)
          /\ Begins(history, pipe[i + 1].n, anchor) => Begins(h, pipe[i + 1].n, anchor)
      BY <3>3, <3>4, <1>2, <1>3, BeginsStay DEF h
    <3> QED
      BY <2>1, <2>3, <3>1, <3>4, <3>5
  <2>5. CASE ~(i < Len(pipe))
    <3>1. i = Len(pipe) /\ history = <<>> /\ ~pipe[i].resumed
      BY <2>1, <2>5, <1>4, <1>10 DEF NoticeIsTrue
    <3>2. pipe'[i + 1].n = 1
      BY <3>1, <2>2, <1>9
    <3> QED
      BY <2>1, <2>3, <3>1, <3>2 DEF StartsWell
  <2> QED
    BY <2>4, <2>5
<1>16. AnchorIsShown'
  BY <1>1, <1>10 DEF AnchorIsShown, IsShown
\* The model.
<1>17. \A i \in DOMAIN model : /\ model[i].parts # <<>>
                               /\ \A j \in DOMAIN model[i].parts : model[i].parts[j] <= Len(history)
  BY <1>10 DEF NumbersAreKnown
<1>18. AnchorsAreWhole'
  <2> SUFFICES ASSUME NEW i \in DOMAIN model, WholeBefore(history, model, cut, i)
               PROVE  WholeBefore(h, model, cut, i)
    BY <1>1, <1>10 DEF AnchorsAreWhole
  <2>1. i - 1 \in 0..Len(model)
    BY <1>4
  <2>2. Whole(h, model, cut, i - 1, model[i].parts[1] - 1)
    BY <2>1, <1>2, <1>3, <1>17, WholeStays DEF WholeBefore, h
  <2>3. model[i].parts[1] \in 1..Len(history)
    <3>1. 1 \in DOMAIN model[i].parts /\ model[i].parts[1] \in 1..MaxHistory
      BY <1>2, <1>17, PartsAreNumbers
    <3> QED
      BY <3>1, <1>4, <1>17
  <2>4. Begins(h, model[i].parts[1], model[i].names)
    BY <2>3, <1>2, <1>3, BeginsStay DEF WholeBefore, h
  <2> QED
    BY <2>2, <2>4 DEF WholeBefore
<1>19. HasLoaded' => HasLoaded /\ link = "loaded" /\ Len(pipe') = Len(pipe) + 1
  BY <1>1, <1>9 DEF HasLoaded
<1>20. HasLoaded /\ pipe # <<>> =>
         pipe'[1] = pipe[1] /\ pipe[1].kind = "update" /\ pipe[1].n \in 1..Len(history)
  <2> SUFFICES ASSUME HasLoaded, pipe # <<>>
               PROVE  pipe'[1] = pipe[1] /\ pipe[1].kind = "update" /\ pipe[1].n \in 1..Len(history)
    OBVIOUS
  <2>1. 1 \in DOMAIN pipe
    BY <1>2, <1>4
  <2>2. \A j \in 1..Len(pipe) : pipe[j].kind # "replay"
    BY <1>4 DEF HasLoaded
  <2>3. pipe[1].kind = "update"
    BY <2>1, <2>2, <1>10 DEF TailIsWhole, HasLoaded
  <2>4. pipe[1].n \in 1..MaxHistory /\ pipe[1].n <= Len(history)
    BY <2>1, <2>3, <1>2, <1>10, CarriedIs DEF NumbersAreKnown
  <2> QED
    BY <2>1, <2>3, <2>4, <1>4, <1>9
<1>21. LoadedIsWhole'
  <2> SUFFICES ASSUME HasLoaded', early = {}
               PROVE  /\ Whole(h, model, cut, Len(model), Len(h) - Len(pipe'))
                      /\ model = <<>> => /\ pipe' # <<>> /\ StartsWell(h, pipe'[1].n)
                                         /\ ~cut => pipe'[1].n = 1
    BY <1>1 DEF LoadedIsWhole
  <2>1. /\ Whole(history, model, cut, Len(model), Len(history) - Len(pipe))
        /\ model = <<>> =>
             \/ pipe = <<>> /\ history = <<>>
             \/ pipe # <<>> /\ StartsWell(history, pipe[1].n) /\ (~cut => pipe[1].n = 1)
    BY <1>10, <1>19 DEF LoadedIsWhole
  <2>2. Len(h) - Len(pipe') = Len(history) - Len(pipe)
    BY <1>4, <1>5, <1>19
  <2>3. Whole(h, model, cut, Len(model), Len(history) - Len(pipe))
    BY <2>1, <1>2, <1>3, <1>4, <1>17, WholeStays DEF h
  <2>4. ASSUME model = <<>>
        PROVE  /\ pipe' # <<>> /\ StartsWell(h, pipe'[1].n)
               /\ ~cut => pipe'[1].n = 1
    <3>1. CASE pipe = <<>> /\ history = <<>>
      <4>1. pipe'[1].n = 1 /\ pipe' # <<>>
        BY <3>1, <1>9, <1>19
      <4> QED
        BY <4>1 DEF StartsWell
    <3>2. CASE pipe # <<>> /\ StartsWell(history, pipe[1].n) /\ (~cut => pipe[1].n = 1)
      <4>1. StartsWell(h, pipe[1].n)
        BY <3>2, <1>2, <1>3, <1>19, <1>20, BeginsStay DEF h
      <4>2. pipe' # <<>>
        BY <1>4, <1>19
      <4> QED
        BY <4>1, <4>2, <3>2, <1>19, <1>20
    <3> QED
      BY <2>1, <2>4, <3>1, <3>2
  <2> QED
    BY <2>2, <2>3, <2>4
<1>22. EarlyIsAhead'
  <2> SUFFICES ASSUME HasLoaded', early # {}
               PROVE  \/ \E k \in DOMAIN model : model[k].names \in early
                      \/ pipe' # <<>> /\ h[pipe'[1].n].names \in early
    BY <1>1 DEF EarlyIsAhead
  <2>1. CASE pipe # <<>> /\ history[pipe[1].n].names \in early
    <3>1. pipe' # <<>>
      BY <1>4, <1>19
    <3> QED
      BY <2>1, <3>1, <1>5, <1>19, <1>20
  <2> QED
    BY <2>1, <1>10, <1>19 DEF EarlyIsAhead
<1> QED
  BY <1>7, <1>8, <1>12, <1>13, <1>14, <1>15, <1>16, <1>18, <1>21, <1>22 DEF ThreadInv

\* The log and the model stay; only the socket changes.
LEMMA SocketSteps ==
  ASSUME ThreadInv, UNCHANGED <<logVars, model, known, anchor, cut, early>>,
         pipe' \in Seq(Carried), link' \in {"down", "pinned", "named", "asked", "loaded"}
  PROVE  LogTypeOK' /\ LogIsRight' /\ AnchorsAreWhole'
  BY DEF ThreadInv, logVars, LogTypeOK, LogIsRight, AnchorsAreWhole

LEMMA SocketOpensKeeps ==
  ASSUME ThreadInv, SocketOpens
  PROVE  ThreadInv'
<1>1. link = "down" /\ link' = "pinned" /\ UNCHANGED <<logVars, pipe, model, known, anchor, cut, early>>
  BY DEF SocketOpens
<1>2. pipe = <<>> /\ pipe' = <<>> /\ pipe \in Seq(Carried)
  BY <1>1 DEF ThreadInv, CarriesOne, LogTypeOK
<1>3. LogTypeOK' /\ LogIsRight' /\ AnchorsAreWhole'
  BY <1>1, <1>2, SocketSteps
<1>4. NumbersAreKnown' /\ CarriesOne' /\ TailIsWhole' /\ NoticeIsTrue' /\ AnchorIsShown'
  BY <1>1, <1>2 DEF ThreadInv, logVars, NumbersAreKnown, CarriesOne, TailIsWhole, NoticeIsTrue, AnchorIsShown
<1>5. LoadedIsWhole' /\ EarlyIsAhead'
  BY <1>1 DEF LoadedIsWhole, EarlyIsAhead, HasLoaded
<1> QED
  BY <1>3, <1>4, <1>5 DEF ThreadInv

LEMMA SocketDropsKeeps ==
  ASSUME ThreadInv, SocketDrops
  PROVE  ThreadInv'
<1>1. link' = "down" /\ pipe' = <<>> /\ UNCHANGED <<logVars, model, known, anchor, cut, early>>
  BY DEF SocketDrops
<1>2. pipe' \in Seq(Carried)
  BY <1>1
<1>3. LogTypeOK' /\ LogIsRight' /\ AnchorsAreWhole'
  BY <1>1, <1>2, SocketSteps
<1>4. NumbersAreKnown' /\ CarriesOne' /\ TailIsWhole' /\ NoticeIsTrue' /\ AnchorIsShown'
  BY <1>1 DEF ThreadInv, logVars, NumbersAreKnown, CarriesOne, TailIsWhole, NoticeIsTrue, AnchorIsShown
<1>5. LoadedIsWhole' /\ EarlyIsAhead'
  BY <1>1 DEF LoadedIsWhole, EarlyIsAhead, HasLoaded
<1> QED
  BY <1>3, <1>4, <1>5 DEF ThreadInv

LEMMA SessionIsNamedKeeps ==
  ASSUME ThreadInv, SessionIsNamed
  PROVE  ThreadInv'
<1> DEFINE c == [kind |-> "created"]
<1>1. /\ link = "pinned" /\ link' = "named" /\ pipe' = Append(pipe, c)
      /\ UNCHANGED <<logVars, model, known, anchor, cut, early>>
  BY DEF SessionIsNamed
<1>2. pipe \in Seq(Carried) /\ c \in Carried /\ c.kind = "created"
  BY DEF ThreadInv, LogTypeOK, Carried
<1> HIDE DEF c
<1>3. /\ pipe' \in Seq(Carried) /\ Len(pipe') = Len(pipe) + 1 /\ Len(pipe) \in Nat
      /\ DOMAIN pipe = 1..Len(pipe) /\ DOMAIN pipe' = 1..(Len(pipe) + 1)
      /\ pipe'[Len(pipe) + 1] = c /\ \A i \in 1..Len(pipe) : pipe'[i] = pipe[i]
  BY <1>1, <1>2, AppendProperties
<1>4. LogTypeOK' /\ LogIsRight' /\ AnchorsAreWhole'
  BY <1>1, <1>3, SocketSteps
<1>5. \A i \in DOMAIN pipe : pipe[i].kind = "update"
  <2> SUFFICES ASSUME NEW i \in DOMAIN pipe PROVE pipe[i].kind = "update"
    OBVIOUS
  <2>1. pipe[i].kind \in {"update", "created", "replay"}
    BY <1>2, CarriedIs
  <2> QED
    BY <2>1, <1>1 DEF ThreadInv, CarriesOne
<1>6. \A i \in DOMAIN pipe' : \/ i \in DOMAIN pipe /\ pipe'[i] = pipe[i] /\ pipe'[i].kind = "update"
                              \/ i = Len(pipe) + 1 /\ pipe'[i].kind = "created"
  <2> TAKE i \in DOMAIN pipe'
  <2>1. CASE i = Len(pipe) + 1
    BY <2>1, <1>2, <1>3
  <2>2. CASE i # Len(pipe) + 1
    <3>1. i \in 1..Len(pipe)
      BY <2>2, <1>3
    <3> QED
      BY <3>1, <1>3, <1>5
  <2> QED
    BY <2>1, <2>2
<1>7. NumbersAreKnown'
  BY <1>1, <1>6 DEF ThreadInv, logVars, NumbersAreKnown
<1>8. CarriesOne'
  BY <1>1, <1>6 DEF CarriesOne
<1>9. TailIsWhole' /\ NoticeIsTrue' /\ AnchorIsShown'
  BY <1>1, <1>6 DEF TailIsWhole, NoticeIsTrue, AnchorIsShown
<1>10. LoadedIsWhole' /\ EarlyIsAhead'
  BY <1>1 DEF LoadedIsWhole, EarlyIsAhead, HasLoaded
<1> QED
  BY <1>4, <1>7, <1>8, <1>9, <1>10 DEF ThreadInv

\* A replay behind the updates of the pin: the notice, and the updates to the last one.
LEMMA ReplayArrives ==
  ASSUME ThreadInv, NEW r \in BOOLEAN, NEW c \in BOOLEAN, NEW t \in Seq(1..MaxHistory),
         \A i \in DOMAIN pipe : pipe[i].kind = "update",
         pipe' = pipe \o (<<Notice(r, c)>> \o Updates(t)),
         link' = "loaded", UNCHANGED <<logVars, model, known, anchor, cut, early>>,
         Len(t) <= Len(history),
         \A i \in DOMAIN t : t[i] = Len(history) - Len(t) + i,
         history # <<>> => t # <<>>,
         t # <<>> => StartsWell(history, t[1]) /\ (~r /\ ~c => t[1] = 1),
         r => t # <<>> /\ IsShown(anchor) /\ Begins(history, t[1], anchor)
  PROVE  ThreadInv'
<1> DEFINE l == Len(pipe)
<1>1. /\ history \in Seq(Update) /\ Len(history) \in Nat /\ pipe \in Seq(Carried) /\ l \in Nat
      /\ DOMAIN pipe = 1..l /\ Len(t) \in Nat /\ DOMAIN t = 1..Len(t)
  BY DEF ThreadInv, LogTypeOK
<1>2. /\ Updates(t) \in Seq(Carried) /\ Len(Updates(t)) = Len(t)
      /\ \A i \in 1..Len(t) : Updates(t)[i].kind = "update" /\ Updates(t)[i].n = t[i]
  <2>1. \A i \in 1..Len(t) : [kind |-> "update", n |-> t[i]] \in Carried
    BY ElementOfSeq DEF Carried
  <2>2. Updates(t) = [i \in 1..Len(t) |-> [kind |-> "update", n |-> t[i]]]
    BY <1>1 DEF Updates
  <2> QED
    BY <1>1, <2>1, <2>2
<1>3. Notice(r, c) \in Carried /\ Notice(r, c).kind = "replay" /\ Notice(r, c).resumed = r
      /\ Notice(r, c).truncated = c
  BY DEF Notice, Carried
<1> DEFINE tail == <<Notice(r, c)>> \o Updates(t)
<1>4. /\ tail \in Seq(Carried) /\ Len(tail) = Len(t) + 1 /\ tail[1] = Notice(r, c)
      /\ \A i \in 1..Len(t) : tail[i + 1] = Updates(t)[i]
  <2>1. <<Notice(r, c)>> \in Seq(Carried) /\ Len(<<Notice(r, c)>>) = 1 /\ <<Notice(r, c)>>[1] = Notice(r, c)
    BY <1>3
  <2>2. /\ tail \in Seq(Carried) /\ Len(tail) = 1 + Len(t)
        /\ \A i \in 1..(1 + Len(t)) : tail[i] = IF i <= 1 THEN <<Notice(r, c)>>[i] ELSE Updates(t)[i - 1]
    BY <2>1, <1>2, ConcatProperties
  <2> HIDE DEF tail
  <2>3. tail[1] = Notice(r, c)
    BY <2>1, <2>2, <1>1
  <2>4. ASSUME NEW i \in 1..Len(t) PROVE tail[i + 1] = Updates(t)[i]
    <3>1. i + 1 \in 1..(1 + Len(t)) /\ ~(i + 1 <= 1) /\ (i + 1) - 1 = i
      BY <1>1
    <3> QED
      BY <3>1, <2>2
  <2> QED
    BY <2>2, <2>3, <2>4, <1>1
<1> HIDE DEF tail
<1>5. /\ pipe' \in Seq(Carried) /\ Len(pipe') = l + 1 + Len(t) /\ DOMAIN pipe' = 1..(l + 1 + Len(t))
      /\ \A i \in 1..l : pipe'[i] = pipe[i]
      /\ pipe'[l + 1] = Notice(r, c)
      /\ \A i \in 1..Len(t) : pipe'[l + 1 + i].kind = "update" /\ pipe'[l + 1 + i].n = t[i]
  <2>1. /\ pipe' \in Seq(Carried) /\ Len(pipe') = l + Len(tail)
        /\ \A i \in 1..(l + Len(tail)) : pipe'[i] = IF i <= l THEN pipe[i] ELSE tail[i - l]
    BY <1>1, <1>4, ConcatProperties DEF tail
  <2>2. \A i \in 1..l : pipe'[i] = pipe[i]
    BY <2>1, <1>1, <1>4
  <2>3. pipe'[l + 1] = Notice(r, c)
    <3>1. l + 1 \in 1..(l + Len(tail)) /\ ~(l + 1 <= l) /\ (l + 1) - l = 1
      BY <1>1, <1>4
    <3> QED
      BY <3>1, <2>1, <1>4
  <2>4. ASSUME NEW i \in 1..Len(t) PROVE pipe'[l + 1 + i] = Updates(t)[i]
    <3>1. l + 1 + i \in 1..(l + Len(tail)) /\ ~(l + 1 + i <= l) /\ (l + 1 + i) - l = i + 1
      BY <1>1, <1>4
    <3> QED
      BY <3>1, <2>1, <1>4
  <2> QED
    BY <2>1, <2>2, <2>3, <2>4, <1>1, <1>2, <1>4
<1>6. LogTypeOK' /\ LogIsRight' /\ AnchorsAreWhole'
  BY <1>5, SocketSteps
<1>7. history' = history /\ model' = model /\ anchor' = anchor /\ cut' = cut /\ early' = early
  BY DEF logVars
<1>a. PICK m \in Nat, k \in Nat, o \in Nat : m = l /\ k = Len(t) /\ o = Len(history)
  BY <1>1
<1>b. Len(pipe') = m + 1 + k /\ DOMAIN pipe' = 1..(m + 1 + k)
  BY <1>a, <1>5
\* Every place of the pipe.
<1>8. ASSUME NEW i \in DOMAIN pipe'
      PROVE  \/ i \in DOMAIN pipe /\ i <= l /\ pipe'[i] = pipe[i] /\ pipe'[i].kind = "update"
             \/ i = l + 1 /\ pipe'[i].kind = "replay"
             \/ /\ i > l + 1 /\ i - l - 1 \in 1..Len(t) /\ pipe'[i].kind = "update"
                /\ pipe'[i].n = Len(history) - Len(pipe') + i
  <2>1. CASE i <= l
    BY <2>1, <1>1, <1>5
  <2>2. CASE i = l + 1
    BY <2>2, <1>3, <1>5
  <2>3. CASE i > l + 1
    <3>0. i \in Nat /\ i > m + 1 /\ i <= m + 1 + k
      BY <2>3, <1>a, <1>b
    <3>1. PICK x \in 1..k : i = m + 1 + x
      <4>1. PICK x \in Int : x = i - m - 1
        BY <3>0
      <4>2. x >= 1
        BY <4>1, <3>0
      <4>3. x <= k
        BY <4>1, <3>0
      <4>4. i = m + 1 + x
        <5>1. i \in Int /\ m \in Int
          BY <3>0
        <5> QED
          BY <5>1, <4>1
      <4> QED
        BY <4>2, <4>3, <4>4
    <3>2. pipe'[i].kind = "update" /\ pipe'[i].n = o - k + x
      BY <3>1, <1>1, <1>5, <1>a
    <3>3. i - m - 1 = x /\ o - k + x = o - (m + 1 + k) + i
      BY <3>1, <3>0
    <3> QED
      BY <2>3, <3>2, <3>3, <1>a, <1>b
  <2>4. i \in Nat /\ l \in Nat
    BY <1>1, <1>b
  <2>5. i <= l \/ i = l + 1 \/ i > l + 1
    BY <2>4
  <2> QED
    BY <2>1, <2>2, <2>3, <2>5
<1>9. NumbersAreKnown'
  <2>1. ASSUME NEW i \in DOMAIN pipe', pipe'[i].kind = "update" PROVE pipe'[i].n <= Len(history)
    <3>1. CASE i \in DOMAIN pipe /\ pipe'[i] = pipe[i] /\ pipe'[i].kind = "update"
      BY <3>1, <2>1 DEF ThreadInv, NumbersAreKnown
    <3>2. CASE i > l + 1 /\ pipe'[i].n = Len(history) - Len(pipe') + i
      <4>1. i \in Nat /\ i <= Len(pipe') /\ Len(pipe') \in Nat
        BY <1>a, <1>b
      <4>2. Len(history) \in Nat
        BY <1>1
      <4>3. Len(history) - Len(pipe') + i <= Len(history)
        BY <4>1, <4>2
      <4> QED
        BY <3>2, <4>3
    <3> QED
      BY <2>1, <3>1, <3>2, <1>8
  <2> QED
    BY <2>1, <1>7 DEF ThreadInv, NumbersAreKnown
<1>10. CarriesOne'
  <2>1. \A i \in DOMAIN pipe' : pipe'[i].kind # "created"
    BY <1>8
  <2>2. \A i \in DOMAIN pipe' : pipe'[i].kind = "replay" => i = l + 1
    BY <1>8
  <2> QED
    BY <2>1, <2>2 DEF CarriesOne
<1>11. TailIsWhole'
  <2> SUFFICES ASSUME NEW i \in DOMAIN pipe', \A j \in i..Len(pipe') : pipe'[j].kind # "replay"
               PROVE  pipe'[i].kind = "update" /\ pipe'[i].n = Len(history) - Len(pipe') + i
    BY <1>7 DEF TailIsWhole
  <2>1. ~(i <= l + 1)
    <3> SUFFICES ASSUME i <= l + 1 PROVE FALSE
      OBVIOUS
    <3>1. l + 1 \in i..Len(pipe')
      BY <1>1, <1>5
    <3> QED
      BY <3>1, <1>3, <1>5
  <2>2. i # l + 1 /\ ~(i <= l)
    BY <2>1, <1>1, <1>5
  <2> QED
    BY <2>2, <1>8
<1>12. NoticeIsTrue'
  <2> SUFFICES ASSUME NEW i \in DOMAIN pipe', pipe'[i].kind = "replay"
               PROVE  /\ i < Len(pipe') => StartsWell(history, pipe'[i + 1].n)
                      /\ history # <<>> => i < Len(pipe')
                      /\ ~pipe'[i].resumed /\ ~pipe'[i].truncated /\ i < Len(pipe') => pipe'[i + 1].n = 1
                      /\ pipe'[i].resumed => /\ i < Len(pipe') /\ IsShown(anchor)
                                             /\ Begins(history, pipe'[i + 1].n, anchor)
    BY <1>7 DEF NoticeIsTrue, IsShown
  <2>1. i = l + 1 /\ pipe'[i].resumed = r /\ pipe'[i].truncated = c
    BY <1>3, <1>5, <1>8
  <2>2. i < Len(pipe') <=> t # <<>>
    BY <2>1, <1>1, <1>5
  <2>3. t # <<>> => pipe'[i + 1].n = t[1]
    <3> SUFFICES ASSUME t # <<>> PROVE pipe'[i + 1].n = t[1]
      OBVIOUS
    <3>1. 1 \in 1..Len(t) /\ i + 1 = l + 1 + 1
      BY <2>1, <1>1
    <3> QED
      BY <3>1, <1>5
  <2> QED
    BY <2>1, <2>2, <2>3
<1>13. AnchorIsShown'
  BY DEF AnchorIsShown
<1>14. ~HasLoaded'
  <2>1. l + 1 \in DOMAIN pipe' /\ pipe'[l + 1].kind = "replay"
    BY <1>1, <1>3, <1>5
  <2> QED
    BY <2>1 DEF HasLoaded
<1>15. LoadedIsWhole' /\ EarlyIsAhead'
  BY <1>14 DEF LoadedIsWhole, EarlyIsAhead
<1> QED
  BY <1>6, <1>9, <1>10, <1>11, <1>12, <1>13, <1>15 DEF ThreadInv

\* The first entry of the log that names the anchor is the begin of its message.
LEMMA EntryBegins ==
  ASSUME history \in Seq(Update), NamesAreOrdered(history),
         LogOf(history, Len(history), logged), NEW m, EntryOf(m) # 0
  PROVE  EntryOf(m) \in DOMAIN logged /\ Begins(history, logged[EntryOf(m)], m)
<1> DEFINE S == {i \in DOMAIN logged : m # NoMessage /\ history[logged[i]].names = m}
<1>0. /\ Len(history) \in Nat /\ DOMAIN history = 1..Len(history)
      /\ logged \in Seq(1..MaxHistory) /\ Len(logged) \in Nat /\ DOMAIN logged = 1..Len(logged)
      /\ Len(logged) <= Len(history)
      /\ \A i \in DOMAIN logged : logged[i] = Len(history) - Len(logged) + i
  BY DEF LogOf
<1>1. S # {}
  BY DEF EntryOf
<1> DEFINE e == CHOOSE i \in S : \A j \in S : i <= j
<1>2. e \in S /\ \A j \in S : e <= j
  <2>1. S \subseteq Nat
    BY <1>0
  <2>2. \E i \in S : \A j \in S : i <= j
    BY <1>1, <2>1, LeastExists
  <2> QED
    BY <2>2
<1>3. EntryOf(m) = e
  BY <1>1 DEF EntryOf
<1> HIDE DEF e
<1>4. PICK a \in Nat, k \in Nat : a = Len(history) - Len(logged) /\ k = Len(logged)
  <2>1. Len(history) \in Nat /\ Len(logged) \in Nat /\ Len(logged) <= Len(history)
    BY <1>0
  <2>2. Len(history) - Len(logged) \in Nat
    BY <2>1
  <2> QED
    BY <2>1, <2>2
<1>5. e \in 1..k /\ logged[e] = a + e /\ history[a + e].names = m /\ m # NoMessage
  BY <1>0, <1>2, <1>4
<1>6. \A i \in 1..k : logged[i] = a + i
  BY <1>0, <1>4
<1>7. a + k = Len(history)
  BY <1>0, <1>4
<1>8. \A i \in DOMAIN history : history[i].names \in Nat
  <2> TAKE i \in DOMAIN history
  <2>1. history[i] \in Update
    OBVIOUS
  <2> QED
    BY <2>1, LogBounds DEF Update
<1>9. ASSUME NEW q \in 1..(a + e - 1), history[q].names = m PROVE FALSE
  <2>1. CASE q > a
    <3>1. PICK j \in Int : j = q - a
      <4>1. q \in Int /\ a \in Int
        BY <1>5
      <4> QED
        BY <4>1
    <3>2. j \in 1..k /\ j < e /\ a + j = q
      BY <2>1, <3>1, <1>4, <1>5
    <3>3. logged[j] = q
      BY <3>2, <1>6
    <3>4. j \in S
      BY <3>2, <3>3, <1>0, <1>4, <1>5, <1>9
    <3>5. e <= j
      BY <3>4, <1>2
    <3> QED
      BY <3>2, <3>5, <1>5
  <2>2. CASE q <= a
    <3>1. StartsWell(history, a + 1) /\ a + 1 \in DOMAIN history /\ q \in DOMAIN history
          /\ a + e \in DOMAIN history
      <4>1. logged # <<>> /\ logged[1] = a + 1
        BY <1>4, <1>5, <1>6
      <4>2. StartsWell(history, a + 1)
        BY <4>1 DEF LogOf
      <4> QED
        BY <4>2, <2>2, <1>0, <1>4, <1>5, <1>7
    <3>2. Begins(history, a + 1, history[a + 1].names)
      <4>1. a + 1 > 1
        BY <2>2, <1>4
      <4> QED
        BY <4>1, <3>1 DEF StartsWell
    <3>3. history[q].names # history[a + 1].names
      <4>1. q \in 1..(a + 1 - 1)
        BY <2>2, <1>4
      <4> QED
        BY <4>1, <3>2 DEF Begins
    <3>4. history[q].names <= history[a + 1].names
      <4>1. q <= a + 1 /\ history[a + 1].names # NoMessage
        BY <2>2, <3>2, <1>4 DEF Begins
      <4> QED
        BY <4>1, <3>1 DEF NamesAreOrdered
    <3>5. history[a + 1].names <= m
      <4>1. a + 1 <= a + e
        BY <1>4, <1>5
      <4> QED
        BY <4>1, <3>1, <1>5 DEF NamesAreOrdered
    <3> QED
      BY <3>1, <3>3, <3>4, <3>5, <1>8, <1>9
  <2> QED
    BY <2>1, <2>2, <1>4
<1>10. Begins(history, a + e, m)
  BY <1>5, <1>9 DEF Begins
<1> QED
  BY <1>0, <1>3, <1>4, <1>5, <1>10

LEMMA LoadIsServedKeeps ==
  ASSUME ThreadInv, LoadIsServed
  PROVE  ThreadInv'
<1> DEFINE at == EntryOf(anchor)
           t == IF at > 0 THEN SubSeq(logged, at, Len(logged)) ELSE logged
<1>1. /\ link = "asked" /\ link' = "loaded" /\ pipe' = pipe \o (<<Notice(at > 0, logCut)>> \o Updates(t))
      /\ UNCHANGED <<logVars, model, known, anchor, cut, early>>
  BY DEF LoadIsServed, LoadTail
<1>2. /\ history \in Seq(Update) /\ pipe \in Seq(Carried) /\ logCut \in BOOLEAN
      /\ NamesAreOrdered(history) /\ LogOf(history, Len(history), logged)
      /\ logCut <=> Len(logged) < Len(history)
      /\ logged \in Seq(1..MaxHistory)
  BY DEF ThreadInv, LogTypeOK, LogIsRight
<1>3. \A i \in DOMAIN pipe : pipe[i].kind = "update"
  <2> SUFFICES ASSUME NEW i \in DOMAIN pipe PROVE pipe[i].kind = "update"
    OBVIOUS
  <2>1. pipe[i].kind \in {"update", "created", "replay"}
    BY <1>2, CarriedIs
  <2> QED
    BY <2>1, <1>1 DEF ThreadInv, CarriesOne
<1>4. PICK a \in Nat, k \in Nat : a = Len(history) - Len(logged) /\ k = Len(logged)
  <2>1. Len(history) \in Nat /\ Len(logged) \in Nat /\ Len(logged) <= Len(history)
    BY <1>2 DEF LogOf
  <2>2. Len(history) - Len(logged) \in Nat
    BY <2>1
  <2> QED
    BY <2>1, <2>2
<1>5. Len(history) = a + k /\ \A i \in 1..k : logged[i] = a + i
  BY <1>2, <1>4 DEF LogOf
<1>6. CASE at # 0
  <2>1. at \in 1..k /\ Begins(history, logged[at], anchor)
    BY <1>2, <1>4, <1>6, EntryBegins
  <2>2. t = SubSeq(logged, at, k) /\ at > 0 /\ at <= k /\ at \in Int
    BY <2>1, <1>4
  <2>3. /\ t \in Seq(1..MaxHistory) /\ Len(t) = k - at + 1
        /\ \A i \in 1..(k - at + 1) : t[i] = logged[at + i - 1]
    <3>1. \A i \in at..k : logged[i] \in 1..MaxHistory
      <4> TAKE i \in at..k
      <4>1. i \in 1..Len(logged)
        BY <2>2, <1>4
      <4> QED
        BY <4>1, <1>2, ElementOfSeq
    <3> QED
      BY <2>2, <3>1, SubSeqProperties
  <2> HIDE DEF at, t
  <2>4. t # <<>> /\ Len(t) <= Len(history) /\ DOMAIN t = 1..(k - at + 1) /\ 1 \in 1..(k - at + 1)
    <3>1. Len(t) \in Nat /\ DOMAIN t = 1..Len(t)
      BY <2>3
    <3>2. k - at + 1 >= 1 /\ k - at + 1 <= a + k
      BY <2>2
    <3>3. t # <<>>
      BY <2>3, <3>2
    <3> QED
      BY <2>2, <2>3, <3>1, <3>2, <3>3, <1>5
  <2>5. \A i \in DOMAIN t : t[i] = Len(history) - Len(t) + i
    <3> TAKE i \in DOMAIN t
    <3>1. PICK j \in Int : j = at + i - 1
      BY <2>2, <2>4
    <3>2. j \in 1..k
      BY <3>1, <2>2, <2>4
    <3>3. t[i] = a + j
      BY <3>1, <3>2, <2>3, <2>4, <1>5
    <3> QED
      BY <3>1, <3>3, <2>2, <2>3, <2>4, <1>5
  <2>6. t[1] = logged[at]
    <3>1. t[1] = logged[at + 1 - 1]
      BY <2>3, <2>4
    <3>2. at + 1 - 1 = at
      BY <2>2
    <3> QED
      BY <3>1, <3>2
  <2>7. Begins(history, t[1], anchor) /\ StartsWell(history, t[1])
    BY <2>1, <2>6 DEF Begins, StartsWell
  <2>8. IsShown(anchor)
    BY <2>1, <1>1 DEF ThreadInv, AnchorIsShown, Begins
  <2>9. pipe' = pipe \o (<<Notice(TRUE, logCut)>> \o Updates(t))
    BY <2>2, <1>1
  <2> QED
    BY <2>3, <2>4, <2>5, <2>7, <2>8, <2>9, <1>1, <1>2, <1>3, ReplayArrives
<1>7. CASE at = 0
  <2>1. t = logged
    BY <1>7
  <2>2. pipe' = pipe \o (<<Notice(FALSE, logCut)>> \o Updates(logged))
    <3>1. (at > 0) = FALSE
      BY <1>7
    <3> QED
      BY <2>1, <3>1, <1>1
  <2>3. Len(logged) <= Len(history) /\ (\A i \in DOMAIN logged : logged[i] = Len(history) - Len(logged) + i)
    BY <1>2 DEF LogOf
  <2>4. history # <<>> => logged # <<>>
    BY <1>2 DEF LogOf
  <2>5. logged # <<>> => StartsWell(history, logged[1]) /\ (~logCut => logged[1] = 1)
    <3>1. ASSUME logged # <<>>, ~logCut PROVE logged[1] = 1
      <4>1. ~(Len(logged) < Len(history))
        BY <3>1, <1>2
      <4>2. a = 0 /\ 1 \in 1..k
        BY <3>1, <4>1, <1>2, <1>4, <1>5
      <4> QED
        BY <4>2, <1>5
    <3> QED
      BY <3>1, <1>2 DEF LogOf
  <2> QED
    BY <2>2, <2>3, <2>4, <2>5, <1>1, <1>2, <1>3, ReplayArrives
<1> QED
  BY <1>6, <1>7

LEMMA FullHistoryLoadsKeeps ==
  ASSUME ThreadInv, FullHistoryLoads
  PROVE  ThreadInv'
<1> DEFINE t == [i \in DOMAIN history |-> i]
<1>1. /\ link = "loaded" /\ link' = link /\ pipe = <<>> /\ pipe' = <<Notice(FALSE, FALSE)>> \o Updates(t)
      /\ UNCHANGED <<logVars, model, known, anchor, cut, early>>
  BY DEF FullHistoryLoads
<1>2. /\ history \in Seq(Update) /\ Len(history) \in Nat /\ DOMAIN history = 1..Len(history)
      /\ Len(history) <= MaxHistory /\ MaxHistory \in Nat
  BY LogBounds DEF ThreadInv, LogTypeOK, LogIsRight
<1>3. t \in Seq(1..MaxHistory) /\ Len(t) = Len(history) /\ DOMAIN t = 1..Len(history)
      /\ \A i \in DOMAIN t : t[i] = i
  BY <1>2
<1> HIDE DEF t
<1>4. pipe' = pipe \o (<<Notice(FALSE, FALSE)>> \o Updates(t))
  <2>1. Updates(t) = [i \in 1..Len(history) |-> [kind |-> "update", n |-> t[i]]]
    BY <1>3 DEF Updates
  <2>2. Updates(t) \in Seq(Carried)
    <3>1. \A i \in 1..Len(history) : [kind |-> "update", n |-> t[i]] \in Carried
      BY <1>2, <1>3 DEF Carried
    <3> QED
      BY <2>1, <3>1, <1>2
  <2>3. <<Notice(FALSE, FALSE)>> \in Seq(Carried)
    BY DEF Notice, Carried
  <2>4. <<Notice(FALSE, FALSE)>> \o Updates(t) \in Seq(Carried)
    BY <2>2, <2>3, ConcatProperties
  <2> QED
    BY <2>4, <1>1, ConcatEmptySeq
<1>5. /\ \A i \in DOMAIN pipe : pipe[i].kind = "update"
      /\ Len(t) <= Len(history)
      /\ \A i \in DOMAIN t : t[i] = Len(history) - Len(t) + i
      /\ history # <<>> => t # <<>>
  <2>1. \A i \in DOMAIN pipe : pipe[i].kind = "update"
    BY <1>1
  <2>2. \A i \in DOMAIN t : t[i] = Len(history) - Len(t) + i
    BY <1>2, <1>3
  <2> QED
    BY <2>1, <2>2, <1>2, <1>3
<1>6. t # <<>> => StartsWell(history, t[1]) /\ t[1] = 1
  <2> SUFFICES ASSUME t # <<>> PROVE StartsWell(history, t[1]) /\ t[1] = 1
    OBVIOUS
  <2>1. t[1] = 1
    BY <1>2, <1>3
  <2> QED
    BY <2>1 DEF StartsWell
<1> QED
  BY <1>1, <1>3, <1>4, <1>5, <1>6, ReplayArrives

(***************************************************************************)
(* The reader, message by message.                                         *)
(***************************************************************************)

LEMMA PipeAdvances ==
  ASSUME ThreadInv, pipe # <<>>, pipe' = Tail(pipe), UNCHANGED logVars
  PROVE  /\ pipe \in Seq(Carried) /\ pipe' \in Seq(Carried)
         /\ Len(pipe) \in Nat \ {0} /\ DOMAIN pipe = 1..Len(pipe) /\ 1 \in DOMAIN pipe
         /\ Len(pipe') = Len(pipe) - 1 /\ DOMAIN pipe' = 1..(Len(pipe) - 1)
         /\ \A i \in DOMAIN pipe' : i + 1 \in DOMAIN pipe /\ pipe'[i] = pipe[i + 1]
         /\ Head(pipe) = pipe[1]
         /\ history' = history /\ LogIsRight'
         /\ \A i \in DOMAIN pipe' : pipe'[i].kind = "update" => pipe'[i].n <= Len(history)
<1>1. pipe \in Seq(Carried)
  BY DEF ThreadInv, LogTypeOK
<1>2. /\ pipe' \in Seq(Carried) /\ Len(pipe') = Len(pipe) - 1
      /\ \A i \in 1..Len(pipe') : pipe'[i] = pipe[i + 1]
  BY <1>1, HeadTailProperties
<1>3. Len(pipe) \in Nat \ {0} /\ DOMAIN pipe = 1..Len(pipe) /\ 1 \in DOMAIN pipe
  BY <1>1
<1>4. DOMAIN pipe' = 1..(Len(pipe) - 1)
  BY <1>2, <1>3
<1>5. \A i \in DOMAIN pipe' : i + 1 \in DOMAIN pipe /\ pipe'[i] = pipe[i + 1]
  BY <1>2, <1>3, <1>4
<1>6. Head(pipe) = pipe[1]
  BY <1>1
<1>7. history' = history /\ LogIsRight'
  BY DEF ThreadInv, logVars, LogIsRight
<1>8. \A i \in DOMAIN pipe' : pipe'[i].kind = "update" => pipe'[i].n <= Len(history)
  BY <1>5 DEF ThreadInv, NumbersAreKnown
<1> QED
  BY <1>1, <1>2, <1>3, <1>4, <1>5, <1>6, <1>7, <1>8

LEMMA TailStaysWhole ==
  ASSUME ThreadInv, pipe # <<>>, pipe' = Tail(pipe), UNCHANGED logVars, link' = link
  PROVE  CarriesOne' /\ TailIsWhole'
<1>1. /\ Len(pipe) \in Nat \ {0} /\ DOMAIN pipe = 1..Len(pipe)
      /\ Len(pipe') = Len(pipe) - 1 /\ DOMAIN pipe' = 1..(Len(pipe) - 1)
      /\ \A i \in DOMAIN pipe' : i + 1 \in DOMAIN pipe /\ pipe'[i] = pipe[i + 1]
      /\ history' = history
  BY PipeAdvances
<1>2. CarriesOne'
  <2>1. link # "down"
    BY DEF ThreadInv, CarriesOne
  <2>2. ASSUME NEW i \in DOMAIN pipe', pipe'[i].kind = "created", NEW j \in DOMAIN pipe', pipe'[j].kind = "created"
        PROVE  link = "named" /\ j = i
    <3>1. link = "named" /\ j + 1 = i + 1
      BY <1>1, <2>2 DEF ThreadInv, CarriesOne
    <3> QED
      BY <3>1, <1>1
  <2>3. ASSUME NEW i \in DOMAIN pipe', pipe'[i].kind = "replay", NEW j \in DOMAIN pipe', pipe'[j].kind = "replay"
        PROVE  link = "loaded" /\ j = i
    <3>1. link = "loaded" /\ j + 1 = i + 1
      BY <1>1, <2>3 DEF ThreadInv, CarriesOne
    <3> QED
      BY <3>1, <1>1
  <2> QED
    BY <2>1, <2>2, <2>3 DEF CarriesOne
<1>3. TailIsWhole'
  <2> SUFFICES ASSUME link = "loaded", NEW i \in DOMAIN pipe',
                      \A j \in i..Len(pipe') : pipe'[j].kind # "replay"
               PROVE  pipe'[i].kind = "update" /\ pipe'[i].n = Len(history) - Len(pipe') + i
    BY <1>1 DEF TailIsWhole
  <2>1. \A j \in (i + 1)..Len(pipe) : pipe[j].kind # "replay"
    <3> SUFFICES ASSUME NEW j \in (i + 1)..Len(pipe) PROVE pipe[j].kind # "replay"
      OBVIOUS
    <3>1. PICK x \in Int : x = j - 1
      BY <1>1
    <3>2. x \in i..Len(pipe') /\ x \in DOMAIN pipe' /\ x + 1 = j
      BY <3>1, <1>1
    <3> QED
      BY <3>2, <1>1
  <2>2. pipe[i + 1].kind = "update" /\ pipe[i + 1].n = Len(history) - Len(pipe) + (i + 1)
    BY <2>1, <1>1 DEF ThreadInv, TailIsWhole
  <2>3. Len(history) \in Nat
    BY DEF ThreadInv, LogTypeOK
  <2>4. Len(history) - Len(pipe) + (i + 1) = Len(history) - Len(pipe') + i
    BY <2>3, <1>1
  <2> QED
    BY <2>2, <2>4, <1>1
<1> QED
  BY <1>2, <1>3

\* In a whole model, a name that is not shown yet begins with its update.
LEMMA NewNameBegins ==
  ASSUME history \in Seq(Update), NamesAreOrdered(history),
         NEW msgs \in Seq(Shown), NEW c, NEW n \in DOMAIN history,
         \A k \in DOMAIN msgs : msgs[k].parts # <<>>,
         Whole(history, msgs, c, Len(msgs), n - 1),
         msgs = <<>> => StartsWell(history, n),
         history[n].names # NoMessage,
         \A k \in DOMAIN msgs : msgs[k].names # history[n].names
  PROVE  Begins(history, n, history[n].names)
<1> DEFINE m == history[n].names
           b == msgs[1].parts[1]
<1>0. Len(history) \in Nat /\ DOMAIN history = 1..Len(history) /\ Len(msgs) \in Nat
      /\ DOMAIN msgs = 1..Len(msgs)
  OBVIOUS
<1>1. \A i \in DOMAIN history : history[i].names \in Nat
  <2> TAKE i \in DOMAIN history
  <2>1. history[i] \in Update
    OBVIOUS
  <2> QED
    BY <2>1, LogBounds DEF Update
<1> SUFFICES ASSUME NEW q \in 1..(n - 1), history[q].names = m PROVE FALSE
  BY DEF Begins
<1>2. q \in DOMAIN history /\ n > 1
  BY <1>0
<1>3. CASE msgs = <<>>
  BY <1>2, <1>3 DEF StartsWell, Begins
<1>4. CASE msgs # <<>>
  <2>1. Len(msgs) > 0 /\ 1 \in DOMAIN msgs
    BY <1>0, <1>4
  <2>2. b \in 1..MaxHistory
    BY <2>1, PartsAreNumbers
  <2>3. /\ StartsWell(history, b) /\ b <= n - 1
        /\ \A x \in b..(n - 1) : history[x].names # NoMessage =>
             \E k \in 1..Len(msgs) : msgs[k].names = history[x].names
    BY <2>1 DEF Whole
  <2> HIDE DEF b
  <2>4. CASE q >= b
    <3>1. q \in b..(n - 1)
      BY <2>2, <2>4, <1>0
    <3> QED
      BY <3>1, <2>3, <1>0
  <2>5. CASE q < b
    <3>1. Begins(history, b, history[b].names)
      BY <2>2, <2>3, <2>5, LogBounds DEF StartsWell
    <3>2. history[q].names # history[b].names
      BY <3>1, <2>2, <2>5, <1>2, LogBounds DEF Begins
    <3>3. CASE b \in DOMAIN history /\ b <= n
      <4>1. history[q].names <= history[b].names
        BY <3>1, <3>3, <2>5, <1>2 DEF Begins, NamesAreOrdered
      <4>2. history[b].names <= m
        BY <3>3 DEF NamesAreOrdered
      <4> QED
        BY <4>1, <4>2, <3>2, <3>3, <1>1, <1>2
    <3>4. b <= n - 1
      BY <2>3
    <3> QED
      BY <3>3, <3>4, <2>2, <1>0
  <2> QED
    BY <2>4, <2>5, <2>2, <1>0
<1> QED
  BY <1>3, <1>4

\* An update read behind a whole model keeps it whole.
LEMMA AppliedStaysWhole ==
  ASSUME history \in Seq(Update), NEW msgs \in Seq(Shown), NEW c,
         \A k \in DOMAIN msgs : msgs[k].parts # <<>>,
         NEW n \in DOMAIN history, n \in 1..MaxHistory,
         Whole(history, msgs, c, Len(msgs), n - 1),
         msgs = <<>> => StartsWell(history, n) /\ (~c => n = 1)
  PROVE  Whole(history, Applied(msgs, n), c, Len(Applied(msgs, n)), n)
<1> DEFINE r == Applied(msgs, n)
           l == Len(msgs)
<1>0. l \in Nat /\ DOMAIN msgs = 1..l /\ MaxHistory \in Nat
  BY LogBounds
<1>1. /\ r \in Seq(Shown)
      /\ \/ /\ l > 0 /\ Len(r) = l
            /\ \A k \in 1..(l - 1) : r[k] = msgs[k]
            /\ r[l].names = msgs[l].names
            /\ r[l].parts = Append(msgs[l].parts, n)
            /\ history[n].names # NoMessage => msgs[l].names = history[n].names
         \/ /\ Len(r) = l + 1
            /\ \A k \in 1..l : r[k] = msgs[k]
            /\ r[l + 1].names = history[n].names
            /\ r[l + 1].parts = <<n>>
  BY AppliedIs
<1> HIDE DEF r
<1>2. \A k \in 1..l : /\ msgs[k].parts \in Seq(1..MaxHistory) /\ Len(msgs[k].parts) \in Nat \ {0}
                      /\ DOMAIN msgs[k].parts = 1..Len(msgs[k].parts)
                      /\ \A j \in 1..Len(msgs[k].parts) : msgs[k].parts[j] \in 1..MaxHistory
  <2> TAKE k \in 1..l
  <2>1. k \in DOMAIN msgs /\ msgs[k].parts # <<>>
    BY <1>0
  <2> QED
    BY <2>1, PartsAreNumbers
<1>3. /\ \A k \in 1..l : \A j \in DOMAIN msgs[k].parts : msgs[k].parts[j] = msgs[k].parts[1] + j - 1
      /\ \A k \in 2..l : msgs[k].parts[1] = Last(msgs[k - 1].parts) + 1
      /\ l > 0 =>
           /\ Last(msgs[l].parts) = n - 1 /\ msgs[1].parts[1] <= n - 1
           /\ StartsWell(history, msgs[1].parts[1])
           /\ ~c => msgs[1].parts[1] = 1
           /\ \A q \in msgs[1].parts[1]..(n - 1) : history[q].names # NoMessage =>
                \E k \in 1..l : msgs[k].names = history[q].names
  BY DEF Whole
\* It goes to the last message.
<1>4. ASSUME l > 0, Len(r) = l,
             \A k \in 1..(l - 1) : r[k] = msgs[k],
             r[l].names = msgs[l].names,
             r[l].parts = Append(msgs[l].parts, n),
             history[n].names # NoMessage => msgs[l].names = history[n].names
      PROVE  Whole(history, r, c, l, n)
  <2>0. l \in 1..l /\ 1 \in 1..l
    BY <1>0, <1>4
  <2> DEFINE p == msgs[l].parts
             z == Len(p)
  <2>1. p \in Seq(1..MaxHistory) /\ z \in Nat \ {0} /\ DOMAIN p = 1..z /\ \A j \in 1..z : p[j] \in 1..MaxHistory
    BY <1>2, <2>0
  <2>2. /\ Append(p, n) \in Seq(1..MaxHistory) /\ Len(Append(p, n)) = z + 1
        /\ \A j \in 1..z : Append(p, n)[j] = p[j]
        /\ Append(p, n)[z + 1] = n
        /\ DOMAIN Append(p, n) = 1..(z + 1)
    BY <2>1
  <2>3. p[z] = n - 1 /\ p[z] = p[1] + z - 1 /\ z \in 1..z /\ 1 \in 1..z /\ p[1] \in 1..MaxHistory
    BY <1>3, <1>4, <2>0, <2>1 DEF Last
  <2> HIDE DEF p, z
  <2>4. r[l].parts = Append(p, n) /\ msgs[l].parts = p
    BY <1>4 DEF p
  <2>5. \A k \in 1..l : r[k].names = msgs[k].names /\ r[k].parts[1] = msgs[k].parts[1]
    <3> SUFFICES ASSUME NEW k \in 1..l
                 PROVE  r[k].names = msgs[k].names /\ r[k].parts[1] = msgs[k].parts[1]
      OBVIOUS
    <3>1. CASE k = l
      BY <3>1, <1>4, <2>2, <2>3, <2>4
    <3>2. CASE k # l
      <4>1. l \in Nat
        BY <1>0
      <4>2. k \in 1..(l - 1)
        BY <4>1, <3>2
      <4> QED
        BY <4>2, <1>4
    <3> QED
      BY <3>1, <3>2
  <2>6. \A k \in 1..l : \A j \in DOMAIN r[k].parts : r[k].parts[j] = r[k].parts[1] + j - 1
    <3> SUFFICES ASSUME NEW k \in 1..l, NEW j \in DOMAIN r[k].parts
                 PROVE  r[k].parts[j] = r[k].parts[1] + j - 1
      OBVIOUS
    <3>1. CASE k = l
      <4>1. CASE j \in 1..z
        <5>1. p[j] = p[1] + j - 1
          BY <4>1, <1>3, <2>0, <2>1, <2>4
        <5>2. r[k].parts[j] = p[j] /\ r[k].parts[1] = p[1]
          BY <3>1, <4>1, <2>2, <2>3, <2>4
        <5> QED
          BY <5>1, <5>2
      <4>2. CASE j = z + 1
        <5>1. r[k].parts[j] = n /\ r[k].parts[1] = p[1]
          BY <3>1, <4>2, <2>2, <2>3, <2>4
        <5>2. n = p[1] + (z + 1) - 1
          <6>1. PICK b \in Int : b = p[1]
            BY <2>3
          <6>2. n - 1 = b + z - 1 /\ z \in Int /\ n \in Int
            BY <6>1, <2>1, <2>3
          <6>3. n = b + (z + 1) - 1
            BY <6>2
          <6> QED
            BY <6>1, <6>3
        <5> QED
          BY <4>2, <5>1, <5>2
      <4> QED
        BY <3>1, <4>1, <4>2, <2>1, <2>2, <2>4
    <3>2. CASE k # l
      <4>l. Len(msgs) \in Nat
        BY <1>0
      <4>0. k \in 1..(l - 1)
        BY <3>2, <4>l
      <4>1. r[k] = msgs[k]
        BY <4>0, <1>4
      <4> QED
        BY <4>1, <1>3
    <3> QED
      BY <3>1, <3>2
  <2>7. \A k \in 2..l : r[k].parts[1] = Last(r[k - 1].parts) + 1
    <3> SUFFICES ASSUME NEW k \in 2..l PROVE r[k].parts[1] = Last(r[k - 1].parts) + 1
      OBVIOUS
    <3>1. k \in 1..l /\ k - 1 \in 1..(l - 1)
      BY <1>0
    <3>2. r[k - 1] = msgs[k - 1]
      BY <3>1, <1>4
    <3> QED
      BY <3>1, <3>2, <1>3, <2>5
  <2>8. Last(r[l].parts) = n /\ r[1].parts[1] = msgs[1].parts[1]
    <3>1. Last(r[l].parts) = n
      BY <2>1, <2>2, <2>4 DEF Last
    <3> QED
      BY <3>1, <2>0, <2>5
  <2>9. msgs[1].parts[1] \in 1..MaxHistory /\ msgs[1].parts[1] <= n
    <3>1. 1 \in 1..Len(msgs[1].parts) /\ msgs[1].parts[1] \in 1..MaxHistory
      BY <1>2, <2>0
    <3> QED
      BY <3>1, <1>0, <1>3, <1>4
  <2>10. ASSUME NEW q \in msgs[1].parts[1]..n, history[q].names # NoMessage
         PROVE  \E k \in 1..l : r[k].names = history[q].names
    <3>1. CASE q = n
      BY <3>1, <2>0, <2>5, <2>10, <1>4
    <3>2. CASE q # n
      <4>1. q \in msgs[1].parts[1]..(n - 1)
        BY <3>2, <2>9, <1>0
      <4>2. PICK k \in 1..l : msgs[k].names = history[q].names
        BY <4>1, <2>10, <1>3, <1>4
      <4> QED
        BY <4>2, <2>5
    <3> QED
      BY <3>1, <3>2
  <2> QED
    BY <2>6, <2>7, <2>8, <2>9, <2>10, <1>3, <1>4 DEF Whole
\* It is a message of its own.
<1>5. ASSUME Len(r) = l + 1,
             \A k \in 1..l : r[k] = msgs[k],
             r[l + 1].names = history[n].names,
             r[l + 1].parts = <<n>>
      PROVE  Whole(history, r, c, l + 1, n)
  <2>1. \A k \in 1..(l + 1) : k \in 1..l \/ k = l + 1
    BY <1>0
  <2>2. \A k \in 1..(l + 1) : \A j \in DOMAIN r[k].parts : r[k].parts[j] = r[k].parts[1] + j - 1
    <3> SUFFICES ASSUME NEW k \in 1..(l + 1), NEW j \in DOMAIN r[k].parts
                 PROVE  r[k].parts[j] = r[k].parts[1] + j - 1
      OBVIOUS
    <3>1. CASE k = l + 1
      <4>1. r[k].parts = <<n>> /\ j = 1 /\ r[k].parts[1] = n
        BY <3>1, <1>5
      <4> QED
        BY <4>1
    <3>2. CASE k \in 1..l
      BY <3>2, <1>3, <1>5
    <3> QED
      BY <3>1, <3>2, <2>1
  <2>3. \A k \in 2..(l + 1) : r[k].parts[1] = Last(r[k - 1].parts) + 1
    <3> SUFFICES ASSUME NEW k \in 2..(l + 1) PROVE r[k].parts[1] = Last(r[k - 1].parts) + 1
      OBVIOUS
    <3>1. k - 1 \in 1..l
      BY <1>0
    <3>2. r[k - 1] = msgs[k - 1]
      BY <3>1, <1>5
    <3>3. CASE k = l + 1
      <4>1. k - 1 = l /\ l > 0
        BY <3>1, <3>3, <1>0
      <4>2. Last(r[k - 1].parts) = n - 1
        BY <4>1, <3>2, <1>3
      <4>3. r[k].parts[1] = n
        BY <3>3, <1>5
      <4> QED
        BY <4>2, <4>3
    <3>4. CASE k # l + 1
      <4>1. k \in 2..l /\ k \in 1..l
        BY <3>4, <1>0
      <4> QED
        BY <4>1, <3>2, <1>3, <1>5
    <3> QED
      BY <3>3, <3>4
  <2>4. l + 1 > 0 /\ Last(r[l + 1].parts) = n
    <3>1. Last(<<n>>) = n
      BY DEF Last
    <3> QED
      BY <3>1, <1>0, <1>5
  <2>5. /\ r[1].parts[1] <= n /\ StartsWell(history, r[1].parts[1])
        /\ ~c => r[1].parts[1] = 1
        /\ \A q \in r[1].parts[1]..n : history[q].names # NoMessage =>
             \E k \in 1..(l + 1) : r[k].names = history[q].names
    <3>1. CASE msgs = <<>>
      <4>1. l = 0 /\ r[1].parts[1] = n /\ r[1].names = history[n].names
        BY <3>1, <1>5
      <4>2. \A q \in n..n : q = n
        OBVIOUS
      <4>3. 1 \in 1..(l + 1)
        BY <4>1
      <4> QED
        BY <3>1, <4>1, <4>2, <4>3
    <3>2. CASE msgs # <<>>
      <4>1. l > 0 /\ 1 \in 1..l
        BY <3>2, <1>0
      <4>2. r[1] = msgs[1] /\ msgs[1].parts[1] \in 1..MaxHistory
        <5>1. 1 \in 1..Len(msgs[1].parts)
          BY <4>1, <1>2
        <5> QED
          BY <4>1, <5>1, <1>2, <1>5
      <4>3. msgs[1].parts[1] <= n
        BY <4>1, <4>2, <1>0, <1>3
      <4>4. ASSUME NEW q \in msgs[1].parts[1]..n, history[q].names # NoMessage
            PROVE  \E k \in 1..(l + 1) : r[k].names = history[q].names
        <5>1. CASE q = n
          <6>1. l + 1 \in 1..(l + 1)
            BY <1>0
          <6> QED
            BY <5>1, <6>1, <1>5
        <5>2. CASE q # n
          <6>1. q \in msgs[1].parts[1]..(n - 1)
            BY <5>2, <4>2, <1>0
          <6>2. PICK k \in 1..l : msgs[k].names = history[q].names
            BY <4>1, <4>4, <6>1, <1>3
          <6>3. k \in 1..(l + 1)
            BY <1>0
          <6> QED
            BY <6>2, <6>3, <1>5
        <5> QED
          BY <5>1, <5>2
      <4> QED
        BY <4>1, <4>2, <4>3, <4>4, <1>3
    <3> QED
      BY <3>1, <3>2
  <2> QED
    BY <2>2, <2>3, <2>4, <2>5 DEF Whole
<1> QED
  BY <1>1, <1>4, <1>5 DEF r

LEMMA ReadsUpdateKeeps ==
  ASSUME ThreadInv, pipe # <<>>, pipe' = Tail(pipe), UNCHANGED logVars,
         Head(pipe).kind = "update", ReadsUpdate(Head(pipe).n)
  PROVE  ThreadInv'
<1> DEFINE n == pipe[1].n
           l == Len(model)
           r == Applied(model, n)
<1>1. /\ pipe \in Seq(Carried) /\ pipe' \in Seq(Carried)
      /\ Len(pipe) \in Nat \ {0} /\ DOMAIN pipe = 1..Len(pipe) /\ 1 \in DOMAIN pipe
      /\ Len(pipe') = Len(pipe) - 1 /\ DOMAIN pipe' = 1..(Len(pipe) - 1)
      /\ \A i \in DOMAIN pipe' : i + 1 \in DOMAIN pipe /\ pipe'[i] = pipe[i + 1]
      /\ Head(pipe) = pipe[1]
      /\ history' = history /\ LogIsRight'
      /\ \A i \in DOMAIN pipe' : pipe'[i].kind = "update" => pipe'[i].n <= Len(history)
  BY PipeAdvances
<1>2. /\ pipe[1].kind = "update"
      /\ model' = r
      /\ early' = IF HasLoaded \/ \E i \in DOMAIN model : model[i].names = history[n].names
                    THEN early ELSE early \cup ({history[n].names} \ {NoMessage})
      /\ link' = link /\ known' = known /\ anchor' = anchor /\ cut' = cut
  BY <1>1 DEF ReadsUpdate
<1>3. CarriesOne' /\ TailIsWhole'
  BY <1>2, TailStaysWhole
<1>4. /\ history \in Seq(Update) /\ Len(history) \in Nat /\ DOMAIN history = 1..Len(history)
      /\ model \in Seq(Shown) /\ l \in Nat /\ DOMAIN model = 1..l
      /\ early \subseteq 1..MaxHistory /\ NamesAreOrdered(history) /\ MaxHistory \in Nat
      /\ \A k \in DOMAIN model : /\ model[k].parts # <<>>
                                /\ \A j \in DOMAIN model[k].parts : model[k].parts[j] <= Len(history)
  BY LogBounds DEF ThreadInv, LogTypeOK, LogIsRight, NumbersAreKnown
<1>5. n \in 1..MaxHistory /\ n \in DOMAIN history
  <2>1. n \in 1..MaxHistory
    BY <1>1, <1>2, CarriedIs
  <2>2. n <= Len(history)
    BY <1>1, <1>2 DEF ThreadInv, NumbersAreKnown
  <2> QED
    BY <2>1, <2>2, <1>4
<1>6. history[n].names \in 0..MaxHistory
  <2>1. history[n] \in Update
    BY <1>4, <1>5
  <2> QED
    BY <2>1 DEF Update
<1> HIDE DEF n
<1>7. /\ r \in Seq(Shown)
      /\ \/ /\ l > 0 /\ Len(r) = l
            /\ \A k \in 1..(l - 1) : r[k] = model[k]
            /\ r[l].names = model[l].names
            /\ r[l].parts = Append(model[l].parts, n)
            /\ history[n].names # NoMessage => model[l].names = history[n].names
         \/ /\ Len(r) = l + 1
            /\ \A k \in 1..l : r[k] = model[k]
            /\ r[l + 1].names = history[n].names
            /\ r[l + 1].parts = <<n>>
  BY <1>4, <1>5, AppliedIs
<1>l. l \in Nat /\ l = Len(model) /\ DOMAIN model = 1..l
  BY <1>4
<1> HIDE DEF r, l
\* Every message.
<1>8. \A k \in 1..l : /\ model[k].parts \in Seq(1..MaxHistory) /\ Len(model[k].parts) \in Nat \ {0}
                     /\ DOMAIN model[k].parts = 1..Len(model[k].parts)
  <2> TAKE k \in 1..l
  <2>1. k \in DOMAIN model /\ model[k].parts # <<>>
    BY <1>4
  <2> QED
    BY <2>1, <1>4, PartsAreNumbers
<1>9. DOMAIN r = 1..Len(r) /\ Len(r) \in {l, l + 1} /\ r # <<>>
  BY <1>4, <1>7
<1>z. Len(r) = l \/ Len(r) = l + 1
  BY <1>9
<1>10. \A k \in 1..l :
         /\ k \in DOMAIN r
         /\ r[k].names = model[k].names /\ r[k].parts[1] = model[k].parts[1] /\ r[k].parts # <<>>
         /\ \A j \in DOMAIN r[k].parts : r[k].parts[j] <= Len(history)
         /\ k < l => r[k] = model[k]
  <2> SUFFICES ASSUME NEW k \in 1..l
               PROVE  /\ k \in DOMAIN r
                      /\ r[k].names = model[k].names /\ r[k].parts[1] = model[k].parts[1] /\ r[k].parts # <<>>
                      /\ \A j \in DOMAIN r[k].parts : r[k].parts[j] <= Len(history)
                      /\ k < l => r[k] = model[k]
    OBVIOUS
  <2>0. k \in DOMAIN r
    <3>1. l \in Nat
      BY <1>l
    <3>2. k \in 1..Len(r)
      BY <3>1, <1>z
    <3> QED
      BY <3>2, <1>9
  <2>1. CASE r[k] = model[k]
    BY <2>0, <2>1, <1>4
  <2>2. CASE r[k] # model[k]
    <3>1. k = l /\ r[l].names = model[l].names /\ r[l].parts = Append(model[l].parts, n)
      <4>1. k \in 1..(l - 1) \/ k = l
        BY <1>l
      <4> QED
        BY <4>1, <2>2, <1>7
    <3> DEFINE p == model[l].parts
               z == Len(p)
    <3>2. p \in Seq(1..MaxHistory) /\ z \in Nat \ {0} /\ DOMAIN p = 1..z
          /\ \A j \in 1..z : p[j] <= Len(history)
      BY <3>1, <1>4, <1>8
    <3>3. /\ Append(p, n) \in Seq(1..MaxHistory) /\ Len(Append(p, n)) = z + 1
          /\ \A j \in 1..z : Append(p, n)[j] = p[j]
          /\ Append(p, n)[z + 1] = n
          /\ DOMAIN Append(p, n) = 1..(z + 1) /\ 1 \in 1..z
      BY <3>2, <1>5
    <3> HIDE DEF p, z
    <3>4. r[k].parts = Append(p, n) /\ model[k].parts = p
      BY <3>1 DEF p
    <3>5. r[k].parts[1] = model[k].parts[1] /\ r[k].parts # <<>>
      BY <3>2, <3>3, <3>4
    <3>6. \A j \in DOMAIN r[k].parts : r[k].parts[j] <= Len(history)
      <4> SUFFICES ASSUME NEW j \in DOMAIN r[k].parts PROVE r[k].parts[j] <= Len(history)
        OBVIOUS
      <4>1. j \in 1..z \/ j = z + 1
        BY <3>2, <3>3, <3>4
      <4>2. n <= Len(history)
        BY <1>4, <1>5
      <4> QED
        BY <4>1, <4>2, <3>2, <3>3, <3>4
    <3>7. ~(k < l)
      BY <3>1, <1>4
    <3> QED
      BY <2>0, <3>1, <3>5, <3>6, <3>7
  <2> QED
    BY <2>1, <2>2
<1>11. ASSUME Len(r) # l
       PROVE  /\ Len(r) = l + 1 /\ r[l + 1].names = history[n].names /\ r[l + 1].parts = <<n>>
              /\ r[l + 1].parts[1] = n
              /\ \A k \in 1..l : r[k] = model[k]
  BY <1>7, <1>11
<1>12. \A k \in DOMAIN r : k \in 1..l \/ (k = l + 1 /\ Len(r) # l)
  <2>1. l \in Nat
    BY <1>l
  <2>2. \A k \in 1..Len(r) : k \in 1..l \/ (k = l + 1 /\ Len(r) # l)
    BY <2>1, <1>z
  <2> QED
    BY <2>2, <1>9
<1>13. NumbersAreKnown'
  <2>1. ASSUME NEW k \in DOMAIN r
        PROVE  r[k].parts # <<>> /\ \A j \in DOMAIN r[k].parts : r[k].parts[j] <= Len(history)
    <3>1. CASE k \in 1..l
      BY <3>1, <1>10
    <3>2. CASE k = l + 1 /\ Len(r) # l
      <4>1. r[k].parts = <<n>>
        BY <3>2, <1>11
      <4>2. n <= Len(history)
        BY <1>4, <1>5
      <4> QED
        BY <4>1, <4>2
    <3> QED
      BY <3>1, <3>2, <1>12
  <2> QED
    BY <2>1, <1>1, <1>2 DEF NumbersAreKnown
<1>14. early' \subseteq 1..MaxHistory /\ early \subseteq early'
  <2>1. {history[n].names} \ {NoMessage} \subseteq 1..MaxHistory
    BY <1>6, <1>4 DEF NoMessage
  <2>2. early \cup ({history[n].names} \ {NoMessage}) \subseteq 1..MaxHistory
    BY <2>1, <1>4
  <2>3. early' = early \/ early' = early \cup ({history[n].names} \ {NoMessage})
    BY <1>2
  <2> QED
    BY <2>2, <2>3, <1>4
<1>15. LogTypeOK'
  BY <1>1, <1>2, <1>7, <1>14 DEF ThreadInv, LogTypeOK, logVars
<1>16. \A m : IsShown(m) => IsShown(m)'
  BY <1>2, <1>4, <1>10 DEF IsShown
<1>17. NoticeIsTrue'
  <2> SUFFICES ASSUME NEW i \in DOMAIN pipe', pipe'[i].kind = "replay"
               PROVE  /\ i < Len(pipe') => StartsWell(history, pipe'[i + 1].n)
                      /\ history # <<>> => i < Len(pipe')
                      /\ ~pipe'[i].resumed /\ ~pipe'[i].truncated /\ i < Len(pipe') => pipe'[i + 1].n = 1
                      /\ pipe'[i].resumed => /\ i < Len(pipe') /\ IsShown(anchor)'
                                             /\ Begins(history, pipe'[i + 1].n, anchor)
    BY <1>1, <1>2 DEF NoticeIsTrue
  <2>1. i + 1 \in DOMAIN pipe /\ pipe'[i] = pipe[i + 1] /\ pipe[i + 1].kind = "replay"
    BY <1>1
  <2>2. i < Len(pipe') <=> i + 1 < Len(pipe)
    BY <1>1
  <2>3. i < Len(pipe') => pipe'[i + 1] = pipe[i + 1 + 1]
    BY <1>1
  <2>4. /\ i + 1 < Len(pipe) => StartsWell(history, pipe[i + 1 + 1].n)
        /\ history # <<>> => i + 1 < Len(pipe)
        /\ ~pipe[i + 1].resumed /\ ~pipe[i + 1].truncated /\ i + 1 < Len(pipe) => pipe[i + 1 + 1].n = 1
        /\ pipe[i + 1].resumed => /\ i + 1 < Len(pipe) /\ IsShown(anchor)
                                 /\ Begins(history, pipe[i + 1 + 1].n, anchor)
    BY <2>1 DEF ThreadInv, NoticeIsTrue
  <2>5. IsShown(anchor) => IsShown(anchor)'
    BY <1>2, <1>4, <1>10 DEF IsShown
  <2> QED
    BY <2>1, <2>2, <2>3, <2>4, <2>5
<1>18. AnchorIsShown'
  BY <1>2, <1>4, <1>10 DEF ThreadInv, AnchorIsShown, IsShown
\* What is loaded stays whole.
<1>19. HasLoaded' <=> HasLoaded
  <2>1. HasLoaded => HasLoaded'
    BY <1>1, <1>2 DEF HasLoaded
  <2>2. ASSUME HasLoaded' PROVE HasLoaded
    <3>1. ASSUME NEW i \in DOMAIN pipe PROVE pipe[i].kind # "replay"
      <4>1. CASE i = 1
        BY <4>1, <1>2
      <4>2. CASE i # 1
        <5>1. PICK x \in Int : x = i - 1
          BY <1>1
        <5>2. x \in DOMAIN pipe' /\ x + 1 = i
          BY <4>2, <5>1, <1>1
        <5> QED
          BY <2>2, <5>2, <1>1 DEF HasLoaded
      <4> QED
        BY <4>1, <4>2
    <3> QED
      BY <2>2, <3>1, <1>2 DEF HasLoaded
  <2> QED
    BY <2>1, <2>2
<1>20. ASSUME HasLoaded, early = {}
       PROVE  /\ n - 1 = Len(history) - Len(pipe) /\ Whole(history, model, cut, l, n - 1)
              /\ model = <<>> => StartsWell(history, n) /\ (~cut => n = 1)
  <2>1. \A j \in 1..Len(pipe) : pipe[j].kind # "replay"
    BY <1>1, <1>20 DEF HasLoaded
  <2>2. pipe[1].n = Len(history) - Len(pipe) + 1
    BY <2>1, <1>1, <1>20 DEF ThreadInv, TailIsWhole, HasLoaded
  <2>3. n - 1 = Len(history) - Len(pipe)
    BY <2>2, <1>1, <1>4 DEF n
  <2> QED
    BY <2>3, <1>20 DEF ThreadInv, LoadedIsWhole, n, l
<1>21. LoadedIsWhole'
  <2> SUFFICES ASSUME HasLoaded, early = {}
               PROVE  Whole(history, r, cut, Len(r), Len(history) - Len(pipe'))
    BY <1>1, <1>2, <1>9, <1>14, <1>19 DEF LoadedIsWhole
  <2>1. n = Len(history) - Len(pipe')
    <3>1. n - 1 = Len(history) - Len(pipe)
      BY <1>20
    <3> QED
      BY <3>1, <1>1, <1>4, <1>5
  <2>2. Whole(history, r, cut, Len(r), n)
    BY <1>4, <1>5, <1>20, AppliedStaysWhole DEF r, l
  <2> QED
    BY <2>1, <2>2
<1>22. EarlyIsAhead'
  <2> SUFFICES ASSUME HasLoaded, early' # {}
               PROVE  \E k \in DOMAIN r : r[k].names \in early'
    BY <1>2, <1>19 DEF EarlyIsAhead
  <2>1. early' = early
    BY <1>2
  <2>2. CASE \E k \in DOMAIN model : model[k].names \in early
    BY <2>1, <2>2, <1>4, <1>10
  <2>3. CASE history[n].names \in early
    <3>1. history[n].names # NoMessage
      BY <2>3, <1>4 DEF NoMessage
    <3>2. CASE Len(r) = l
      <4>1. l > 0 /\ model[l].names = history[n].names
        BY <3>1, <3>2, <1>4, <1>7
      <4>2. l \in 1..l
        BY <4>1, <1>4
      <4> QED
        BY <2>1, <2>3, <4>1, <4>2, <1>10
    <3>3. CASE Len(r) # l
      <4>1. l + 1 \in DOMAIN r
        <5>1. Len(r) = l + 1
          BY <3>3, <1>11
        <5> QED
          BY <5>1, <1>l, <1>9
      <4> QED
        BY <2>1, <2>3, <3>3, <4>1, <1>11
    <3> QED
      BY <3>2, <3>3
  <2>4. \/ \E k \in DOMAIN model : model[k].names \in early
        \/ history[n].names \in early
    BY <2>1 DEF ThreadInv, EarlyIsAhead, n
  <2> QED
    BY <2>2, <2>3, <2>4
<1>23. AnchorsAreWhole'
  <2> SUFFICES ASSUME NEW i \in DOMAIN r, IsFirst(r, i), \A k \in 1..i : r[k].names \notin early'
               PROVE  WholeBefore(history, r, cut, i)
    BY <1>1, <1>2 DEF AnchorsAreWhole
  <2>1. CASE i \in 1..l
    <3>0. i \in DOMAIN model /\ \A k \in 1..i : k \in 1..l
      BY <2>1, <1>4
    <3>1. IsFirst(model, i)
      <4>1. \A k \in 1..(i - 1) : k \in 1..l
        BY <2>1, <1>4
      <4> QED
        BY <2>1, <4>1, <1>10 DEF IsFirst
    <3>2. \A k \in 1..i : model[k].names \notin early
      BY <3>0, <1>10, <1>14
    <3>3. WholeBefore(history, model, cut, i)
      BY <3>0, <3>1, <3>2 DEF ThreadInv, AnchorsAreWhole
    <3>4. \A k \in 1..(i - 1) : model[k] = r[k]
      <4> TAKE k \in 1..(i - 1)
      <4>1. k \in 1..l /\ k < l
        BY <2>1, <1>4
      <4> QED
        BY <4>1, <1>10
    <3>5. i \in Nat \ {0} /\ model[i].names = r[i].names /\ model[i].parts[1] = r[i].parts[1]
      BY <2>1, <1>10
    <3> QED
      BY <3>3, <3>4, <3>5, WholeBeforeAlike
  <2>2. CASE i = l + 1 /\ Len(r) # l
    <3>1. /\ Len(r) = l + 1 /\ r[i].names = history[n].names /\ r[i].parts[1] = n
          /\ \A k \in 1..l : r[k] = model[k]
      BY <2>2, <1>11
    <3>2. i - 1 = l /\ \A k \in 1..l : k \in 1..i
      BY <2>2, <1>4
    <3>3. history[n].names # NoMessage /\ \A k \in DOMAIN model : model[k].names # history[n].names
      BY <3>1, <3>2, <1>4, <2>2 DEF IsFirst
    <3>4. history[n].names \notin early'
      <4>1. i \in 1..i
        BY <2>2, <1>4
      <4> QED
        BY <4>1, <3>1
    <3>5. HasLoaded /\ early' = early
      BY <3>3, <3>4, <1>2
    <3>6. early = {}
      <4>1. \A k \in DOMAIN model : model[k].names \notin early
        BY <3>1, <3>2, <3>5, <1>4
      <4> QED
        BY <4>1, <3>4, <3>5 DEF ThreadInv, EarlyIsAhead, n
    <3>7. /\ Whole(history, model, cut, l, n - 1)
          /\ model = <<>> => StartsWell(history, n) /\ (~cut => n = 1)
      BY <3>5, <3>6, <1>20
    <3>8. Begins(history, n, history[n].names)
      BY <3>3, <3>7, <1>4, <1>5, NewNameBegins DEF l
    <3>9. Whole(history, r, cut, l, n - 1)
      BY <3>1, <3>7, <1>4, WholeAlike
    <3>10. i = 1 /\ ~cut => r[1].parts[1] = 1
      <4> SUFFICES ASSUME i = 1, ~cut PROVE r[1].parts[1] = 1
        OBVIOUS
      <4>1. model = <<>>
        BY <3>2, <1>4
      <4> QED
        BY <4>1, <3>1, <3>7
    <3> QED
      BY <3>1, <3>2, <3>8, <3>9, <3>10 DEF WholeBefore
  <2> QED
    BY <2>1, <2>2, <1>12
<1> QED
  BY <1>1, <1>3, <1>13, <1>15, <1>17, <1>18, <1>21, <1>22, <1>23 DEF ThreadInv


\* The anchor that a browser asks from is a message that it shows.
LEMMA LastNamedIsShown ==
  ASSUME model \in Seq(Shown)
  PROVE  /\ LastNamed \in 0..MaxHistory
         /\ LastNamed # NoMessage => IsShown(LastNamed)
<1> DEFINE S == {i \in DOMAIN model : model[i].names # NoMessage}
<1>1. Len(model) \in Nat /\ DOMAIN model = 1..Len(model)
  OBVIOUS
<1>2. CASE S = {}
  <2>1. LastNamed = NoMessage
    BY <1>2 DEF LastNamed
  <2>2. MaxHistory \in Nat
    BY LogBounds
  <2> QED
    BY <2>1, <2>2 DEF NoMessage
<1>3. CASE S # {}
  <2>1. S \subseteq 0..Len(model)
    BY <1>1
  <2>2. \E i \in S : \A j \in S : j <= i
    BY <2>1, <1>1, <1>3, GreatestExists
  <2>3. PICK i \in S : LastNamed = model[i].names
    BY <2>2, <1>3 DEF LastNamed
  <2>4. model[i] \in Shown
    OBVIOUS
  <2> QED
    BY <2>3, <2>4 DEF Shown, IsShown
<1> QED
  BY <1>2, <1>3

LEMMA ReadsCreatedKeeps ==
  ASSUME ThreadInv, pipe # <<>>, pipe' = Tail(pipe), UNCHANGED logVars,
         Head(pipe).kind = "created", ReadsCreated
  PROVE  ThreadInv'
<1>1. /\ pipe' \in Seq(Carried)
      /\ DOMAIN pipe = 1..Len(pipe) /\ 1 \in DOMAIN pipe
      /\ \A i \in DOMAIN pipe' : i \in Nat \ {0} /\ i + 1 \in DOMAIN pipe /\ pipe'[i] = pipe[i + 1]
      /\ Head(pipe) = pipe[1]
      /\ history' = history /\ LogIsRight'
      /\ \A i \in DOMAIN pipe' : pipe'[i].kind = "update" => pipe'[i].n <= Len(history)
  BY PipeAdvances
<1>2. /\ link' = "asked" /\ known' = TRUE
      /\ anchor' = IF known THEN LastNamed ELSE NoMessage
      /\ anchor' = NoMessage => model' = <<>> /\ cut' = FALSE /\ early' = {}
      /\ anchor' # NoMessage => UNCHANGED <<model, cut, early>>
  BY DEF ReadsCreated
<1>3. link = "named" /\ pipe[1].kind = "created"
  BY <1>1 DEF ThreadInv, CarriesOne
<1>4. \A i \in DOMAIN pipe' : pipe'[i].kind # "created" /\ pipe'[i].kind # "replay"
  <2> TAKE i \in DOMAIN pipe'
  <2>1. i + 1 \in DOMAIN pipe /\ i + 1 # 1 /\ pipe'[i] = pipe[i + 1]
    BY <1>1
  <2>2. pipe[i + 1].kind # "created"
    BY <2>1, <1>1, <1>3 DEF ThreadInv, CarriesOne
  <2>3. pipe[i + 1].kind # "replay"
    BY <2>1, <1>3 DEF ThreadInv, CarriesOne
  <2> QED
    BY <2>1, <2>2, <2>3
<1>5. model \in Seq(Shown)
  BY DEF ThreadInv, LogTypeOK
<1>6. /\ anchor' \in 0..MaxHistory
      /\ anchor' # NoMessage => IsShown(anchor')
  <2>1. MaxHistory \in Nat
    BY LogBounds
  <2> QED
    BY <2>1, <1>2, <1>5, LastNamedIsShown DEF NoMessage
<1>7. LogTypeOK'
  <2>1. model' \in Seq(Shown) /\ cut' \in BOOLEAN /\ early' \subseteq 1..MaxHistory
    <3>1. model \in Seq(Shown) /\ cut \in BOOLEAN /\ early \subseteq 1..MaxHistory
      BY DEF ThreadInv, LogTypeOK
    <3>2. <<>> \in Seq(Shown)
      OBVIOUS
    <3> QED
      BY <3>1, <3>2, <1>2
  <2> QED
    BY <2>1, <1>1, <1>2, <1>6 DEF ThreadInv, LogTypeOK, logVars
<1>8. NumbersAreKnown'
  <2>1. CASE anchor' = NoMessage
    BY <2>1, <1>1, <1>2 DEF NumbersAreKnown
  <2>2. CASE anchor' # NoMessage
    BY <2>2, <1>1, <1>2 DEF ThreadInv, NumbersAreKnown
  <2> QED
    BY <2>1, <2>2
<1>9. CarriesOne' /\ TailIsWhole' /\ NoticeIsTrue'
  BY <1>2, <1>4 DEF CarriesOne, TailIsWhole, NoticeIsTrue
<1>10. AnchorIsShown'
  BY <1>2, <1>6 DEF AnchorIsShown, IsShown
<1>11. AnchorsAreWhole'
  <2>1. CASE anchor' = NoMessage
    BY <2>1, <1>2 DEF AnchorsAreWhole
  <2>2. CASE anchor' # NoMessage
    BY <2>2, <1>1, <1>2 DEF ThreadInv, AnchorsAreWhole
  <2> QED
    BY <2>1, <2>2
<1>12. LoadedIsWhole' /\ EarlyIsAhead'
  BY <1>2 DEF LoadedIsWhole, EarlyIsAhead, HasLoaded
<1> QED
  BY <1>1, <1>7, <1>8, <1>9, <1>10, <1>11, <1>12 DEF ThreadInv

\* Behind a notice come updates only, up to the last one.
LEMMA NoticeIsRead ==
  ASSUME ThreadInv, pipe # <<>>, pipe' = Tail(pipe), UNCHANGED logVars, link' = link,
         Head(pipe).kind = "replay"
  PROVE  /\ link = "loaded" /\ HasLoaded'
         /\ CarriesOne' /\ TailIsWhole' /\ NoticeIsTrue' /\ AnchorIsShown'
         /\ pipe' # <<>> => /\ pipe'[1] = pipe[2] /\ 1 < Len(pipe)
                            /\ pipe'[1].n = Len(history) - Len(pipe') + 1
<1>1. /\ Len(pipe) \in Nat \ {0} /\ DOMAIN pipe = 1..Len(pipe) /\ 1 \in DOMAIN pipe
      /\ pipe' \in Seq(Carried)
      /\ Len(pipe') = Len(pipe) - 1 /\ DOMAIN pipe' = 1..(Len(pipe) - 1)
      /\ \A i \in DOMAIN pipe' : i + 1 \in DOMAIN pipe /\ pipe'[i] = pipe[i + 1]
      /\ Head(pipe) = pipe[1] /\ history' = history
  BY PipeAdvances
<1>2. link = "loaded" /\ pipe[1].kind = "replay"
  BY <1>1 DEF ThreadInv, CarriesOne
<1>3. \A i \in DOMAIN pipe' : pipe'[i].kind # "replay"
  <2> TAKE i \in DOMAIN pipe'
  <2>1. i + 1 \in DOMAIN pipe /\ i + 1 # 1 /\ pipe'[i] = pipe[i + 1]
    BY <1>1
  <2> QED
    BY <2>1, <1>1, <1>2 DEF ThreadInv, CarriesOne
<1>4. HasLoaded'
  BY <1>2, <1>3 DEF HasLoaded
<1>5. CarriesOne' /\ TailIsWhole'
  BY TailStaysWhole
<1>6. NoticeIsTrue' /\ AnchorIsShown'
  BY <1>2, <1>3 DEF NoticeIsTrue, AnchorIsShown
<1>7. ASSUME pipe' # <<>>
      PROVE  /\ pipe'[1] = pipe[2] /\ 1 < Len(pipe)
             /\ pipe'[1].n = Len(history) - Len(pipe') + 1
  <2>1. 1 \in DOMAIN pipe' /\ \A j \in 1..Len(pipe') : j \in DOMAIN pipe'
    BY <1>1, <1>7
  <2>2. pipe'[1] = pipe[1 + 1] /\ 1 < Len(pipe)
    BY <2>1, <1>1
  <2>3. pipe'[1].n = Len(history') - Len(pipe') + 1
    BY <2>1, <1>2, <1>3, <1>5 DEF TailIsWhole
  <2> QED
    BY <2>2, <2>3, <1>1
<1> QED
  BY <1>2, <1>4, <1>5, <1>6, <1>7

LEMMA ReadsReplayKeeps ==
  ASSUME ThreadInv, pipe # <<>>, pipe' = Tail(pipe), UNCHANGED logVars,
         Head(pipe).kind = "replay", ReadsReplay(Head(pipe))
  PROVE  ThreadInv'
<1> DEFINE m == pipe[1]
           t == TruncatedFrom(model, anchor)
           resumes == m.resumed /\ t # model
<1>1. /\ pipe \in Seq(Carried) /\ pipe' \in Seq(Carried)
      /\ Len(pipe) \in Nat \ {0} /\ 1 \in DOMAIN pipe
      /\ Len(pipe') = Len(pipe) - 1
      /\ Head(pipe) = pipe[1]
      /\ history' = history /\ LogIsRight'
      /\ \A i \in DOMAIN pipe' : pipe'[i].kind = "update" => pipe'[i].n <= Len(history)
  BY PipeAdvances
<1>2. /\ m.kind = "replay"
      /\ model' = IF resumes THEN t ELSE <<>>
      /\ cut' = IF m.resumed THEN cut ELSE m.truncated
      /\ early' = IF resumes THEN {e \in early : e = anchor \/ \E i \in DOMAIN model' : model'[i].names = e}
                            ELSE {}
      /\ link' = link /\ known' = known /\ anchor' = anchor
  BY <1>1 DEF ReadsReplay
<1>3. /\ link = "loaded" /\ HasLoaded'
      /\ CarriesOne' /\ TailIsWhole' /\ NoticeIsTrue' /\ AnchorIsShown'
      /\ pipe' # <<>> => /\ pipe'[1] = pipe[2] /\ 1 < Len(pipe)
                         /\ pipe'[1].n = Len(history) - Len(pipe') + 1
  BY <1>2, NoticeIsRead
<1>4. /\ 1 < Len(pipe) => StartsWell(history, pipe[2].n)
      /\ history # <<>> => 1 < Len(pipe)
      /\ ~m.resumed /\ ~m.truncated /\ 1 < Len(pipe) => pipe[2].n = 1
      /\ m.resumed => 1 < Len(pipe) /\ IsShown(anchor) /\ Begins(history, pipe[2].n, anchor)
  <2>1. 1 + 1 = 2
    OBVIOUS
  <2> QED
    BY <2>1, <1>1, <1>2 DEF ThreadInv, NoticeIsTrue
<1>5. m.resumed \in BOOLEAN /\ m.truncated \in BOOLEAN
  BY <1>1, <1>2, CarriedIs
<1>6. /\ model \in Seq(Shown) /\ cut \in BOOLEAN /\ early \subseteq 1..MaxHistory
      /\ history \in Seq(Update)
  BY DEF ThreadInv, LogTypeOK
<1> HIDE DEF m
<1>7. CASE ~resumes
  <2>1. ~m.resumed
    <3> SUFFICES ASSUME m.resumed PROVE FALSE
      OBVIOUS
    <3>1. anchor # NoMessage /\ \E k \in DOMAIN model : model[k].names = anchor
      BY <1>4 DEF Begins, IsShown
    <3>2. t # model
      BY <3>1, <1>6, TruncationIs
    <3> QED
      BY <3>2, <1>7
  <2>2. model' = <<>> /\ cut' = m.truncated /\ early' = {}
    BY <2>1, <1>2
  <2>3. LogTypeOK'
    BY <2>2, <1>1, <1>2, <1>5 DEF ThreadInv, LogTypeOK, logVars
  <2>4. NumbersAreKnown' /\ AnchorsAreWhole' /\ EarlyIsAhead'
    BY <2>2, <1>1 DEF NumbersAreKnown, AnchorsAreWhole, EarlyIsAhead
  <2>5. Whole(history, <<>>, m.truncated, 0, Len(history) - Len(pipe'))
    BY DEF Whole
  <2>6. \/ pipe' = <<>> /\ history = <<>>
        \/ pipe' # <<>> /\ StartsWell(history, pipe'[1].n) /\ (~m.truncated => pipe'[1].n = 1)
    <3>1. CASE pipe' = <<>>
      <4>1. Len(pipe') = 0
        <5>1. Len(<<>>) = 0
          OBVIOUS
        <5> QED
          BY <5>1, <3>1
      <4>2. ~(1 < Len(pipe))
        <5>1. Len(pipe) \in Nat \ {0} /\ Len(pipe') = Len(pipe) - 1
          BY <1>1
        <5> QED
          BY <5>1, <4>1
      <4> QED
        BY <3>1, <4>2, <1>4
    <3>2. CASE pipe' # <<>>
      BY <3>2, <2>1, <1>3, <1>4
    <3> QED
      BY <3>1, <3>2
  <2>7. LoadedIsWhole'
    BY <2>2, <2>5, <2>6, <1>1 DEF LoadedIsWhole
  <2> QED
    BY <2>3, <2>4, <2>7, <1>1, <1>3 DEF ThreadInv
<1>8. CASE resumes
  <2>1. /\ 1 < Len(pipe) /\ Begins(history, pipe[2].n, anchor)
        /\ anchor # NoMessage /\ \E k \in DOMAIN model : model[k].names = anchor
    BY <1>4, <1>8 DEF Begins, IsShown
  <2>2. pipe' # <<>> /\ pipe'[1] = pipe[2] /\ pipe'[1].n = Len(history) - Len(pipe') + 1
    <3>1. pipe' # <<>>
      <4>1. Len(pipe') > 0
        BY <2>1, <1>1
      <4> QED
        BY <4>1
    <3> QED
      BY <3>1, <1>3
  <2>3. PICK f \in DOMAIN model :
          /\ model[f].names = anchor /\ \A k \in 1..(f - 1) : model[k].names # anchor
          /\ t = SubSeq(model, 1, f - 1)
    BY <2>1, <1>6, TruncationIs
  <2>4. /\ model' = SubSeq(model, 1, f - 1) /\ cut' = cut
        /\ early' = {e \in early : e = anchor \/ \E i \in DOMAIN model' : model'[i].names = e}
    BY <2>3, <1>2, <1>8
  <2> HIDE DEF t, resumes
  <2>5. f \in 1..Len(model) /\ Len(model) \in Nat
    BY <1>6
  <2>6. /\ model' \in Seq(Shown) /\ Len(model') = f - 1 /\ DOMAIN model' = 1..(f - 1)
        /\ \A k \in 1..(f - 1) : k \in DOMAIN model /\ model'[k] = model[k]
    BY <2>4, <2>5, <1>6
  <2>7. LogTypeOK'
    <3>1. early' \subseteq 1..MaxHistory
      BY <2>4, <1>6
    <3> QED
      BY <3>1, <2>4, <2>6, <1>1, <1>2 DEF ThreadInv, LogTypeOK, logVars
  <2>8. NumbersAreKnown'
    BY <2>6, <1>1 DEF ThreadInv, NumbersAreKnown
  <2>9. AnchorsAreWhole'
    <3> SUFFICES ASSUME NEW i \in 1..(f - 1), IsFirst(model', i), \A k \in 1..i : model'[k].names \notin early'
                 PROVE  WholeBefore(history, model', cut, i)
      BY <2>4, <2>6, <1>1 DEF AnchorsAreWhole
    <3>1. \A k \in 1..i : k \in 1..(f - 1)
      BY <2>5
    <3>2. \A k \in 1..i : model[k].names \notin early
      BY <3>1, <2>4, <2>6
    <3>3. IsFirst(model, i)
      <4>1. \A k \in 1..(i - 1) : k \in 1..(f - 1)
        BY <2>5
      <4> QED
        BY <4>1, <2>6 DEF IsFirst
    <3>4. WholeBefore(history, model, cut, i)
      BY <3>2, <3>3, <2>6 DEF ThreadInv, AnchorsAreWhole
    <3>5. \A k \in 1..(i - 1) : model[k] = model'[k]
      <4>1. \A k \in 1..(i - 1) : k \in 1..(f - 1)
        BY <2>5
      <4> QED
        BY <4>1, <2>6
    <3>6. i \in Nat \ {0} /\ model[i] = model'[i]
      BY <2>5, <2>6
    <3> QED
      BY <3>4, <3>5, <3>6, WholeBeforeAlike
  \* The replay takes over where the message of the anchor began.
  <2>10. LoadedIsWhole'
    <3> SUFFICES ASSUME early' = {}
                 PROVE  /\ Whole(history, model', cut, f - 1, Len(history) - Len(pipe'))
                        /\ model' = <<>> => StartsWell(history, pipe'[1].n) /\ (~cut => pipe'[1].n = 1)
      BY <2>2, <2>4, <2>6, <1>1 DEF LoadedIsWhole
    <3>1. \A k \in 1..f : model[k].names \notin early
      <4> TAKE k \in 1..f
      <4>1. CASE k = f
        BY <4>1, <2>3, <2>4
      <4>2. CASE k # f
        <5>1. k \in 1..(f - 1)
          BY <4>2, <2>5
        <5> QED
          BY <5>1, <2>4, <2>6
      <4> QED
        BY <4>1, <4>2
    <3>2. IsFirst(model, f)
      BY <2>1, <2>3 DEF IsFirst
    <3>3. WholeBefore(history, model, cut, f)
      BY <3>1, <3>2 DEF ThreadInv, AnchorsAreWhole
    <3>4. model[f].parts[1] = pipe[2].n
      <4> DEFINE p == model[f].parts[1]
                 q == pipe[2].n
      <4>1. Begins(history, p, anchor) /\ Begins(history, q, anchor)
        BY <3>3, <2>1, <2>3 DEF WholeBefore
      <4>2. p \in Nat \ {0}
        <5>1. model[f].parts # <<>>
          BY DEF ThreadInv, NumbersAreKnown
        <5> QED
          BY <5>1, <1>6, PartsAreNumbers
      <4>3. q \in Nat \ {0}
        <5>1. 2 \in DOMAIN pipe
          BY <2>1, <1>1
        <5>2. 1 \in DOMAIN pipe' /\ pipe'[1].kind # "replay" /\ pipe'[1].kind # "created"
          <6>1. 1 \in DOMAIN pipe'
            BY <2>2, <1>1
          <6> QED
            BY <6>1, <1>3, <1>2 DEF HasLoaded, CarriesOne
        <5>3. pipe'[1].kind = "update"
          BY <5>2, <1>1, CarriedIs
        <5>4. pipe[2].kind = "update"
          BY <5>3, <2>2
        <5> QED
          BY <5>1, <5>4, <1>1, CarriedIs
      <4> HIDE DEF p, q
      <4>4. ~(p < q) /\ ~(q < p)
        <5>1. p < q => p \in 1..(q - 1)
          BY <4>2, <4>3
        <5>2. q < p => q \in 1..(p - 1)
          BY <4>2, <4>3
        <5> QED
          BY <5>1, <5>2, <4>1 DEF Begins
      <4>5. p = q
        BY <4>2, <4>3, <4>4
      <4> QED
        BY <4>5 DEF p, q
    <3>5. Whole(history, model', cut, f - 1, model[f].parts[1] - 1)
      <4>1. f - 1 \in Nat /\ \A k \in 1..(f - 1) : model[k] = model'[k]
        BY <2>5, <2>6
      <4>2. Whole(history, model, cut, f - 1, model[f].parts[1] - 1)
        BY <3>3 DEF WholeBefore
      <4> QED
        BY <4>1, <4>2, WholeAlike
    <3>6. model[f].parts[1] - 1 = Len(history) - Len(pipe')
      <4>1. Len(history) \in Nat /\ Len(pipe') \in Nat
        BY <1>1, <1>6
      <4> QED
        BY <4>1, <3>4, <2>2
    <3>7. ASSUME model' = <<>> PROVE StartsWell(history, pipe'[1].n) /\ (~cut => pipe'[1].n = 1)
      <4>1. f = 1
        BY <3>7, <2>5, <2>6
      <4>2. StartsWell(history, pipe'[1].n)
        BY <2>1, <2>2 DEF StartsWell, Begins
      <4>3. ~cut => pipe'[1].n = 1
        BY <4>1, <3>3, <3>4, <2>2 DEF WholeBefore
      <4> QED
        BY <4>2, <4>3
    <3> QED
      BY <3>5, <3>6, <3>7
  <2>11. EarlyIsAhead'
    <3> SUFFICES ASSUME NEW e \in early'
                 PROVE  \/ \E k \in DOMAIN model' : model'[k].names \in early'
                        \/ history[pipe'[1].n].names \in early'
      BY <2>2, <1>1 DEF EarlyIsAhead
    <3>1. e = anchor \/ \E i \in DOMAIN model' : model'[i].names = e
      BY <2>4
    <3>2. history[pipe'[1].n].names = anchor
      BY <2>1, <2>2 DEF Begins
    <3> QED
      BY <3>1, <3>2
  <2> QED
    BY <2>7, <2>8, <2>9, <2>10, <2>11, <1>1, <1>3 DEF ThreadInv
<1> QED
  BY <1>7, <1>8

(***************************************************************************)
(* Every step.                                                             *)
(***************************************************************************)

LEMMA ThreadInit ==
  LogInit => ThreadInv
<1> SUFFICES ASSUME LogInit PROVE ThreadInv
  OBVIOUS
<1>1. LogTypeOK
  <2>1. /\ <<>> \in Seq(Update) /\ <<>> \in Seq(1..MaxHistory)
        /\ <<>> \in Seq(Carried) /\ <<>> \in Seq(Shown)
    OBVIOUS
  <2>2. NoMessage \in 0..MaxHistory
    BY LogBounds DEF NoMessage
  <2> QED
    BY <2>1, <2>2 DEF LogInit, LogTypeOK
<1>2. LogIsRight
  <2>1. Len(<<>>) = 0 /\ MaxHistory \in Nat
    BY LogBounds
  <2> QED
    BY <2>1 DEF LogInit, LogIsRight, NamesAreOrdered, GroupsAreBounded, LogOf
<1>3. /\ NumbersAreKnown /\ CarriesOne /\ TailIsWhole /\ NoticeIsTrue /\ AnchorIsShown
      /\ AnchorsAreWhole
  BY DEF LogInit, NumbersAreKnown, CarriesOne, TailIsWhole, NoticeIsTrue, AnchorIsShown, AnchorsAreWhole
<1>4. LoadedIsWhole /\ EarlyIsAhead
  BY DEF LogInit, LoadedIsWhole, EarlyIsAhead, HasLoaded
<1> QED
  BY <1>1, <1>2, <1>3, <1>4 DEF ThreadInv

LEMMA ThreadStep ==
  ASSUME MaxGroup <= LogCap, ThreadInv, [LogNext]_threadLogVars
  PROVE  ThreadInv'
<1>1. CASE NewMessageArrives
  <2> DEFINE u == [names |-> LastMessage + 1, role |-> "assistant"]
  <2>1. UpdateFits(u) /\ UpdateArrives(u)
    BY <1>1 DEF UpdateFits, NewMessageArrives
  <2> QED
    BY <2>1, UpdateArrivesKeeps
<1>2. CASE MoreArrives
  <2>1. PICK u \in {[names |-> LastMessage, role |-> "assistant"],
                    [names |-> NoMessage, role |-> "assistant"],
                    [names |-> NoMessage, role |-> "user"]} : UpdateFits(u) /\ UpdateArrives(u)
    BY <1>2 DEF UpdateFits, MoreArrives
  <2> QED
    BY <2>1, UpdateArrivesKeeps
<1>3. CASE LogIsRefilled
  BY <1>3, LogIsRefilledKeeps
<1>4. CASE SocketOpens
  BY <1>4, SocketOpensKeeps
<1>5. CASE SessionIsNamed
  BY <1>5, SessionIsNamedKeeps
<1>6. CASE LoadIsServed
  BY <1>6, LoadIsServedKeeps
<1>7. CASE FullHistoryLoads
  BY <1>7, FullHistoryLoadsKeeps
<1>8. CASE SocketDrops
  BY <1>8, SocketDropsKeeps
<1>9. CASE ReaderReads
  <2>1. pipe # <<>> /\ pipe' = Tail(pipe) /\ UNCHANGED logVars
    BY <1>9 DEF ReaderReads
  <2>2. \/ Head(pipe).kind = "update" /\ ReadsUpdate(Head(pipe).n)
        \/ Head(pipe).kind = "created" /\ ReadsCreated
        \/ Head(pipe).kind = "replay" /\ ReadsReplay(Head(pipe))
    BY <1>9 DEF ReaderReads
  <2>3. CASE Head(pipe).kind = "update" /\ ReadsUpdate(Head(pipe).n)
    BY <2>1, <2>3, ReadsUpdateKeeps
  <2>4. CASE Head(pipe).kind = "created" /\ ReadsCreated
    BY <2>1, <2>4, ReadsCreatedKeeps
  <2>5. CASE Head(pipe).kind = "replay" /\ ReadsReplay(Head(pipe))
    BY <2>1, <2>5, ReadsReplayKeeps
  <2> QED
    BY <2>2, <2>3, <2>4, <2>5
<1>10. CASE UNCHANGED threadLogVars
  <2>1. UNCHANGED logVars /\ UNCHANGED readerVars
    BY <1>10 DEF threadLogVars
  <2> QED
    BY <2>1 DEF ThreadInv, logVars, readerVars, LogTypeOK, LogIsRight, NumbersAreKnown, CarriesOne,
       TailIsWhole, NoticeIsTrue, AnchorIsShown, AnchorsAreWhole, LoadedIsWhole, EarlyIsAhead, HasLoaded, IsShown
<1> QED
  BY <1>1, <1>2, <1>3, <1>4, <1>5, <1>6, <1>7, <1>8, <1>9, <1>10 DEF LogNext

LEMMA ThreadInvTells ==
  ThreadInv => ThreadIsTold
<1> SUFFICES ASSUME ThreadInv PROVE ThreadIsTold
  OBVIOUS
<1>1. /\ LogTypeOK /\ history \in Seq(Update) /\ model \in Seq(Shown) /\ pipe \in Seq(Carried)
      /\ logged \in Seq(1..MaxHistory) /\ Len(history) \in Nat
  BY DEF ThreadInv, LogTypeOK
<1>2. LogIsSuffix
  <2>1. LogOf(history, Len(history), logged) /\ (logCut <=> Len(logged) < Len(history))
    BY DEF ThreadInv, LogIsRight
  <2> QED
    BY <2>1 DEF LogIsSuffix, LogOf, StartsWell, Begins
<1>3. ASSUME early = {}, HasLoaded
      PROVE  TranscriptHasNoGap
  <2> DEFINE l == Len(model)
  <2>1. l \in Nat /\ DOMAIN model = 1..l
    BY <1>1
  <2>2. Whole(history, model, cut, l, Len(history) - Len(pipe))
    BY <1>3 DEF ThreadInv, LoadedIsWhole
  <2>3. \A i \in DOMAIN model : model[i].parts # <<>>
    BY DEF ThreadInv, NumbersAreKnown
  <2>4. \A i \in DOMAIN model : i > 1 => i \in 2..l
    BY <2>1
  <2>5. ASSUME pipe = <<>>, history # <<>> PROVE model # <<>> /\ Last(Last(model).parts) = Len(history)
    <3>1. model # <<>>
      BY <2>5, <1>3 DEF ThreadInv, LoadedIsWhole
    <3>2. l > 0 /\ Len(history) - Len(pipe) = Len(history)
      BY <3>1, <2>5, <2>1, <1>1
    <3>3. Last(model[l].parts) = Len(history)
      BY <3>2, <2>2 DEF Whole
    <3> QED
      BY <3>1, <3>3 DEF Last
  <2>6. ASSUME ~cut, model # <<>> PROVE model[1].parts[1] = 1
    <3>1. l > 0
      BY <2>6, <2>1
    <3> QED
      BY <3>1, <2>6, <2>2 DEF Whole
  <2> QED
    BY <2>1, <2>2, <2>3, <2>4, <2>5, <2>6 DEF TranscriptHasNoGap, Whole
<1> QED
  BY <1>1, <1>2, <1>3 DEF ThreadIsTold, TranscriptHasNoGap

\* However often the log is cut and filled again and the sockets drop, the log is the end
\* of the history from the begin of a message on, and a browser that has loaded the thread
\* shows every update once and in order up to the last one (ThreadLog, Broadcast.open, the
\* handshake and onReplay of the page).  The hypothesis: no message is longer than the log,
\* which the code can keep only whole or not at all (evictOldest).
THEOREM ThreadIsAlwaysTold ==
  ASSUME MaxGroup <= LogCap
  PROVE  LogSpec => []ThreadIsTold
<1>1. LogInit => ThreadInv
  BY ThreadInit
<1>2. ThreadInv /\ [LogNext]_threadLogVars => ThreadInv'
  BY ThreadStep
<1>3. ThreadInv => ThreadIsTold
  BY ThreadInvTells
<1> QED
  BY <1>1, <1>2, <1>3, PTL DEF LogSpec

=============================================================================
