------------------------------ MODULE ServiceProofs ------------------------------
(***************************************************************************)
(* Proofs about the services around a box: the idle reaper (IdleReaper),   *)
(* the reconciler of the tunnels (Tunnels), the push of the egress policy  *)
(* (EgressPush), the comments of a review (ReviewComments), its snapshots  *)
(* (ReviewSnapshots) and its page (ReviewPane), the agent sets and their   *)
(* install (AgentSets), and the anchors of the comments (ReviewAnchors),   *)
(* for any number of boxes, callers, files, lines, comments, repositories  *)
(* and skills, and for any bounds.                                         *)
(***************************************************************************)
EXTENDS IdleReaper, Tunnels, EgressPush, ReviewComments, ReviewSnapshots, ReviewPane, AgentSets, ReviewAnchors,
        FiniteSetTheorems, SequenceTheorems, WellFoundedInduction, NaturalsInduction, TLAPS

(***************************************************************************)
(* The idle reaper.  A command that a reading has met keeps the answer of  *)
(* the probe busy: a reading that is in flight has met it too, a reading   *)
(* that fails leaves the answer, and the probe is dropped only with a box  *)
(* that is down, where nothing runs.                                       *)
(***************************************************************************)

CommandsRunInTheBox == (buildRuns => up) /\ (met # "no" => buildRuns)

ReadingsAreTold ==
  /\ met = "read" => readingNow = "busy"
  /\ met = "yes" => answer = "busy" /\ readingNow \in {"none", "asked", "busy"}

ReaperInv == ~shownLost /\ CommandsRunInTheBox /\ ReadingsAreTold

\* The actions of the probe, of the use of the box, and of a tick that ends nothing.
ProbeSteps == ProcessesAreRead \/ ReadingLands \/ ReadingFails \/ ProbeIsAsked \/ UpstreamIsDropped
UseSteps ==
  \/ BoxIsStarted \/ BrowserAttaches \/ BrowserDetaches \/ TurnChanges \/ ApprovalChanges
  \/ TerminalOpens \/ UserTypes \/ TerminalCloses \/ BuildStarts \/ BuildEnds \/ AdapterGoes
  \/ MinutePasses
SparingSteps == TickReadsRows \/ TickSpares \/ SlotIsBusy

LEMMA ReaperSteps ==
  ReaperNext <=> ProbeSteps \/ UseSteps \/ SparingSteps \/ UserStops \/ TickReaps
  BY DEF ReaperNext, ProbeSteps, UseSteps, SparingSteps

LEMMA ReaperInvStays ==
  ASSUME ReaperInv, ReaperNext
  PROVE  ReaperInv'
<1> USE DEF ReaperInv, CommandsRunInTheBox, ReadingsAreTold
<1>1. CASE ProbeSteps
  BY <1>1 DEF ProbeSteps, ProcessesAreRead, BoxIsBusy, ReadingLands, ReadingFails, ProbeIsAsked, Freshen,
     Refresh, UpstreamIsDropped, processVars
<1>2. CASE UseSteps
  <2>1. CASE BoxIsStarted \/ BrowserAttaches \/ BrowserDetaches \/ TurnChanges \/ ApprovalChanges
    BY <2>1 DEF BoxIsStarted, BrowserAttaches, BrowserDetaches, TurnChanges, ApprovalChanges, Refresh,
       processVars, probeVars
  <2>2. CASE TerminalOpens \/ UserTypes \/ TerminalCloses \/ AdapterGoes \/ MinutePasses
    <3>1. UNCHANGED <<buildRuns, met, answer, readingNow, shownLost>> /\ (up' \/ UNCHANGED up)
      BY <2>2 DEF TerminalOpens, UserTypes, TerminalCloses, AdapterGoes, MinutePasses, processVars, probeVars
    <3> QED
      BY <3>1
  <2>3. CASE BuildStarts \/ BuildEnds
    <3>1. /\ UNCHANGED <<up, answer, readingNow, shownLost>> /\ met' = "no"
          /\ up \/ ~buildRuns'
      BY <2>3, Zenon DEF BuildStarts, BuildEnds, probeVars
    <3> QED
      BY <3>1
  <2> QED
    BY <1>2, <2>1, <2>2, <2>3 DEF UseSteps
<1>3. CASE SparingSteps
  BY <1>3 DEF SparingSteps, TickReadsRows, TickSpares, SlotIsBusy, Freshen, Refresh, processVars, probeVars
<1>4. CASE UserStops
  BY <1>4 DEF UserStops, StopBox
<1>5. CASE TickReaps
  BY <1>5 DEF TickReaps, StopBox, BackgroundHolds, processVars
<1> QED
  BY <1>1, <1>2, <1>3, <1>4, <1>5, ReaperSteps

\* The reaper never ends a command that a reading of this container has met.
THEOREM ShownWorkIsAlwaysSpared == ReaperSpec => []ShownWorkIsSpared
<1>1. ReaperInit => ReaperInv
  BY DEF ReaperInit, ReaperInv, CommandsRunInTheBox, ReadingsAreTold
<1>2. ReaperInv /\ [ReaperNext]_reaperVars => ReaperInv'
  BY ReaperInvStays DEF reaperVars, holdVars, processVars, probeVars, tickVars, ReaperInv,
     CommandsRunInTheBox, ReadingsAreTold
<1>3. ReaperInv => ShownWorkIsSpared
  BY DEF ReaperInv, ShownWorkIsSpared
<1> QED
  BY <1>1, <1>2, <1>3, PTL DEF ReaperSpec

(***************************************************************************)
(* The tunnels.  What a tick has read of a box stays true of a host that   *)
(* ran before the tick, and a host that is read is served before the row   *)
(* is looked at.                                                           *)
(***************************************************************************)

\* A host is in a box that is there, and one that ran before the tick is not read as none.
HostsAreRead ==
  \A b \in HostBox :
    /\ hosting[b] # "no" => b \in boxThere
    /\ tickAt # "off" /\ hosting[b] = "known" => boxRead[b] # "none"

\* What is read as a host is served, or about to be.
HostsAreServed == \A b \in HostBox : tickAt # "off" /\ boxRead[b] = "hosts" => b \in toServe \/ servedNow

\* The tick removes the tunnel of a row that nothing serves, after the grace.
RemovalIsDue ==
  tickAt = "remove" => /\ ~servedNow /\ toServe = {} /\ unservedFor = GraceTicks
                       /\ \A b \in HostBox : boxRead[b] # "unread"

TunnelsInv == TunnelsFollowHosts /\ HostsAreRead /\ HostsAreServed /\ RemovalIsDue

WorldSteps ==
  \/ \E b \in HostBox : HostStarts(b) \/ HostEnds(b) \/ BoxIsDeleted(b)
  \/ UserDeletesTunnel \/ LoginChanges
TickSteps == (\E b \in HostBox : ServeBegins(b)) \/ TickBegins \/ GetAnswers \/ LabelAnswers \/ RowIsChecked

LEMMA TunnelsSteps == TunnelsNext <=> WorldSteps \/ TickSteps \/ (\E b \in HostBox : BoxRead(b)) \/ RemoveAnswers
  BY DEF TunnelsNext, WorldSteps, TickSteps

\* The types, part by part.
TunnelFlagTypes == tunnelThere \in BOOLEAN /\ loggedIn \in BOOLEAN /\ servedNow \in BOOLEAN /\ cutOff \in BOOLEAN

TunnelDataTypes ==
  /\ hosting \in [HostBox -> {"no", "new", "known"}]
  /\ boxThere \subseteq HostBox /\ toServe \subseteq HostBox
  /\ rowBox \in HostBox \cup {NoBox} /\ serving \in HostBox \cup {NoBox}
  /\ tickAt \in {"off", "read", "serve", "get", "label", "remove"}
  /\ boxRead \in [HostBox -> {"unread", "hosts", "none", "unknown"}]

TunnelCountTypes == unservedFor \in 0..Served /\ hosts \in 0..MaxHosts /\ troubles \in 0..MaxTunnelTroubles

LEMMA TunnelTypesAre == TunnelsTypeOK <=> TunnelFlagTypes /\ TunnelDataTypes /\ TunnelCountTypes
  BY DEF TunnelsTypeOK, TunnelFlagTypes, TunnelDataTypes, TunnelCountTypes

LEMMA TunnelFlagTypesStay ==
  ASSUME TunnelFlagTypes, TunnelsNext
  PROVE  TunnelFlagTypes'
<1> USE DEF TunnelFlagTypes, tunnelTickVars, worldVars
<1>1. CASE WorldSteps
  BY <1>1 DEF WorldSteps, HostStarts, HostEnds, BoxIsDeleted, UserDeletesTunnel, LoginChanges
<1>2. CASE TickSteps
  BY <1>2 DEF TickSteps, TickBegins, ServeBegins, GetAnswers, LabelAnswers, RowIsChecked
<1>3. CASE (\E b \in HostBox : BoxRead(b)) \/ RemoveAnswers
  BY <1>3 DEF BoxRead, RemoveAnswers
<1> QED
  BY <1>1, <1>2, <1>3, TunnelsSteps

LEMMA TunnelDataTypesStay ==
  ASSUME TunnelDataTypes, TunnelsNext
  PROVE  TunnelDataTypes'
<1> USE DEF TunnelDataTypes, tunnelRowVars, tunnelTickVars, worldVars
<1>1. CASE WorldSteps
  BY <1>1 DEF WorldSteps, HostStarts, HostEnds, BoxIsDeleted, UserDeletesTunnel, LoginChanges
<1>2. CASE TickSteps
  BY <1>2 DEF TickSteps, TickBegins, ServeBegins, GetAnswers, LabelAnswers, RowIsChecked
<1>3. CASE \E b \in HostBox : BoxRead(b)
  BY <1>3 DEF BoxRead
<1>4. CASE RemoveAnswers
  BY <1>4 DEF RemoveAnswers
<1> QED
  BY <1>1, <1>2, <1>3, <1>4, TunnelsSteps

LEMMA TunnelCountTypesStay ==
  ASSUME TunnelCountTypes, TunnelsNext
  PROVE  TunnelCountTypes'
<1> USE GraceAssumption DEF TunnelCountTypes, Trouble, Served, tunnelRowVars
<1>1. CASE WorldSteps
  BY <1>1 DEF WorldSteps, HostStarts, HostEnds, BoxIsDeleted, UserDeletesTunnel, LoginChanges
<1>2. CASE TickSteps
  BY <1>2 DEF TickSteps, TickBegins, ServeBegins, GetAnswers, LabelAnswers, RowIsChecked
<1>3. CASE (\E b \in HostBox : BoxRead(b)) \/ RemoveAnswers
  BY <1>3 DEF BoxRead, RemoveAnswers
<1> QED
  BY <1>1, <1>2, <1>3, TunnelsSteps

LEMMA TunnelTypesStay == TunnelsTypeOK /\ TunnelsNext => TunnelsTypeOK'
<1> SUFFICES ASSUME TunnelsTypeOK, TunnelsNext PROVE TunnelsTypeOK'
  OBVIOUS
<1>1. TunnelFlagTypes' /\ TunnelDataTypes' /\ TunnelCountTypes'
  BY TunnelTypesAre, TunnelFlagTypesStay, TunnelDataTypesStay, TunnelCountTypesStay
<1> QED
  BY <1>1 DEF TunnelsTypeOK, TunnelFlagTypes, TunnelDataTypes, TunnelCountTypes

\* A box is read as it is: a host as a host, or not at all.
LEMMA ReadKeeps ==
  ASSUME TunnelsInv, NEW b \in HostBox, BoxRead(b)
  PROVE  HostsAreRead' /\ HostsAreServed' /\ RemovalIsDue' /\ TunnelsFollowHosts'
<1> USE DEF TunnelsInv, TunnelDataTypes, worldVars
<1>1. TunnelDataTypes /\ TunnelsTypeOK'
  BY TunnelTypesAre, TunnelTypesStay, TunnelsSteps DEF TunnelsFollowHosts
<1>2. /\ tickAt = "read" /\ tickAt' = "read" /\ UNCHANGED <<hosting, boxThere, servedNow, cutOff>>
      /\ \A c \in HostBox \ {b} : boxRead'[c] = boxRead[c] /\ (c \in toServe' <=> c \in toServe)
  BY <1>1 DEF BoxRead
<1>3. \/ boxRead'[b] = "unknown" /\ toServe' = toServe
      \/ boxRead'[b] = "none" /\ hosting[b] = "no" /\ toServe' = toServe
      \/ boxRead'[b] = "hosts" /\ b \in toServe'
  BY <1>1 DEF BoxRead
<1>4. HostsAreRead'
  BY <1>2, <1>3 DEF HostsAreRead
<1>5. HostsAreServed'
  BY <1>2, <1>3 DEF HostsAreServed
<1>6. RemovalIsDue'
  BY <1>2 DEF RemovalIsDue
<1>7. TunnelsFollowHosts'
  BY <1>1, <1>2 DEF TunnelsFollowHosts
<1> QED
  BY <1>4, <1>5, <1>6, <1>7

\* What happens in the world never takes a host out of what the tick has read.
LEMMA WorldKeeps ==
  ASSUME TunnelsInv, WorldSteps
  PROVE  HostsAreRead' /\ HostsAreServed' /\ RemovalIsDue' /\ TunnelsFollowHosts'
<1> USE DEF TunnelsInv, TunnelDataTypes, tunnelTickVars, tunnelRowVars
<1>1. TunnelDataTypes /\ TunnelsTypeOK'
  BY TunnelTypesAre, TunnelTypesStay, TunnelsSteps DEF TunnelsFollowHosts
<1>2. UNCHANGED <<tickAt, boxRead, toServe, servedNow, rowBox, unservedFor, cutOff>>
  BY DEF WorldSteps, HostStarts, HostEnds, BoxIsDeleted, UserDeletesTunnel, LoginChanges
<1>3. \A b \in HostBox : /\ hosting'[b] = "known" => hosting[b] = "known"
                         /\ hosting'[b] # "no" => b \in boxThere'
  BY <1>1 DEF WorldSteps, HostStarts, HostEnds, BoxIsDeleted, UserDeletesTunnel, LoginChanges, HostsAreRead
<1>4. HostsAreRead' /\ HostsAreServed' /\ RemovalIsDue'
  BY <1>2, <1>3 DEF HostsAreRead, HostsAreServed, RemovalIsDue
<1>5. TunnelsFollowHosts'
  BY <1>1, <1>2 DEF TunnelsFollowHosts
<1> QED
  BY <1>4, <1>5

LEMMA TickKeeps ==
  ASSUME TunnelsInv, TickSteps
  PROVE  HostsAreRead' /\ HostsAreServed' /\ RemovalIsDue' /\ TunnelsFollowHosts'
<1> USE DEF TunnelsInv, tunnelTickVars, tunnelRowVars, worldVars
<1>1. TunnelDataTypes /\ TunnelsTypeOK'
  BY TunnelTypesAre, TunnelTypesStay, TunnelsSteps DEF TunnelsFollowHosts
<1>2. GraceTicks \in Nat /\ GraceTicks # 0 /\ GraceTicks # Served
  BY GraceAssumption DEF Served
<1>3. CASE TickBegins
  BY <1>1, <1>3 DEF TickBegins, HostsAreRead, HostsAreServed, RemovalIsDue, TunnelsFollowHosts, TunnelDataTypes
<1>4. ASSUME NEW b \in HostBox, ServeBegins(b)
      PROVE  HostsAreRead' /\ HostsAreServed' /\ RemovalIsDue' /\ TunnelsFollowHosts'
  BY <1>1, <1>4 DEF ServeBegins, ReadingsAreIn, HostsAreRead, HostsAreServed, RemovalIsDue, TunnelsFollowHosts
<1>5. CASE GetAnswers \/ LabelAnswers
  BY <1>1, <1>5 DEF GetAnswers, LabelAnswers, HostsAreRead, HostsAreServed, RemovalIsDue, TunnelsFollowHosts
<1>6. CASE RowIsChecked
  <2>1. UNCHANGED <<hosting, boxThere, rowBox, boxRead, toServe, servedNow, cutOff>> /\ tickAt = "read"
    BY <1>6 DEF RowIsChecked, ReadingsAreIn
  <2>2. HostsAreRead' /\ HostsAreServed'
    BY <2>1 DEF HostsAreRead, HostsAreServed
  <2>3. RemovalIsDue'
    BY <1>2, <1>6, <2>1 DEF RowIsChecked, ReadingsAreIn, RemovalIsDue
  <2>4. CASE rowBox = NoBox \/ servedNow \/ boxRead[rowBox] = "unknown"
    BY <1>1, <2>1, <2>2, <2>3, <2>4 DEF TunnelsFollowHosts
  <2>5. CASE ~(rowBox = NoBox \/ servedNow \/ boxRead[rowBox] = "unknown")
    <3>1. unservedFor' # Served
      <4>1. unservedFor' = IF unservedFor = Served THEN 0 ELSE unservedFor
        BY <1>6, <2>5 DEF RowIsChecked
      <4>2. Served # 0
        BY GraceAssumption DEF Served
      <4> QED
        BY <4>1, <4>2
    <3> QED
      BY <1>1, <2>1, <2>2, <2>3, <3>1 DEF TunnelsFollowHosts
  <2> QED
    BY <2>4, <2>5
<1> QED
  BY <1>3, <1>4, <1>5, <1>6 DEF TickSteps

\* The tunnel goes when no box that the tick could read hosts it.
LEMMA RemovalKeeps ==
  ASSUME TunnelsInv, RemoveAnswers
  PROVE  HostsAreRead' /\ HostsAreServed' /\ RemovalIsDue' /\ TunnelsFollowHosts'
<1> USE DEF TunnelsInv, tunnelRowVars
<1>1. TunnelDataTypes /\ TunnelsTypeOK'
  BY TunnelTypesAre, TunnelTypesStay, TunnelsSteps DEF TunnelsFollowHosts
<1>2. /\ tickAt = "remove" /\ tickAt' = "off" /\ ~servedNow /\ toServe = {}
      /\ unservedFor = GraceTicks /\ \A b \in HostBox : boxRead[b] # "unread"
  BY DEF RemoveAnswers, RemovalIsDue
<1>3. \A b \in HostBox : hosting[b] = "known" => boxRead[b] = "unknown"
  BY <1>1, <1>2 DEF HostsAreRead, HostsAreServed, TunnelDataTypes
<1>4. ~cutOff'
  BY <1>3 DEF RemoveAnswers, TunnelsFollowHosts
<1>5. rowBox' = NoBox \/ unservedFor' # Served
  BY <1>2, GraceAssumption DEF RemoveAnswers, Served
<1>6. HostsAreRead' /\ HostsAreServed' /\ RemovalIsDue'
  BY <1>1, <1>2 DEF RemoveAnswers, HostsAreRead, HostsAreServed, RemovalIsDue, TunnelDataTypes
<1> QED
  BY <1>1, <1>4, <1>5, <1>6 DEF TunnelsFollowHosts

\* The reconciler never deletes the tunnel of a host that ran before the tick and whose
\* box the tick could read, for any number of boxes and any grace, whatever starts, ends
\* and is deleted during its awaits.
THEOREM TunnelsAlwaysFollowHosts == TunnelsSpec => []TunnelsFollowHosts
<1>1. TunnelsInit => TunnelsInv
  <2> SUFFICES ASSUME TunnelsInit PROVE TunnelsInv
    OBVIOUS
  <2>1. TunnelsTypeOK
    <3>1. TunnelFlagTypes /\ TunnelDataTypes
      BY DEF TunnelsInit, TunnelFlagTypes, TunnelDataTypes
    <3>2. TunnelCountTypes
      BY GraceAssumption DEF TunnelsInit, TunnelCountTypes, Served
    <3> QED
      BY <3>1, <3>2, TunnelTypesAre
  <2> QED
    BY <2>1 DEF TunnelsInit, TunnelsInv, TunnelsFollowHosts, HostsAreRead, HostsAreServed, RemovalIsDue
<1>2. TunnelsInv /\ [TunnelsNext]_tunnelVars => TunnelsInv'
  <2> SUFFICES ASSUME TunnelsInv, [TunnelsNext]_tunnelVars PROVE TunnelsInv'
    OBVIOUS
  <2>1. CASE UNCHANGED tunnelVars
    BY <2>1 DEF tunnelVars, worldVars, tunnelRowVars, tunnelTickVars, TunnelsInv, TunnelsFollowHosts,
       TunnelsTypeOK, HostsAreRead, HostsAreServed, RemovalIsDue
  <2>2. CASE TunnelsNext
    BY <2>2, TunnelsSteps, ReadKeeps, WorldKeeps, TickKeeps, RemovalKeeps DEF TunnelsInv
  <2> QED
    BY <2>1, <2>2
<1>3. TunnelsInv => TunnelsFollowHosts
  BY DEF TunnelsInv
<1> QED
  BY <1>1, <1>2, <1>3, PTL DEF TunnelsSpec

(***************************************************************************)
(* The push of the egress policy.  The engine follows the policy between   *)
(* two pushes because the one that is applied knows the policy before it.  *)
(* And a refused token is reported because each caller has at most one     *)
(* push under way, wherever it is.                                         *)
(***************************************************************************)

\* A push and an answer are of a caller that waits, or of nobody.
CallersWait ==
  /\ \A p \in onWire : p.caller \in waiting \cup {Nobody}
  /\ \A i \in DOMAIN queue : queue[i].caller \in waiting \cup {Nobody}
  /\ \A a \in answers : a.caller \in waiting

\* A caller has one push on the wire, in the queue or answered, and not two.
OnePushEach ==
  \A c \in Caller :
    /\ \A p, r \in onWire : p.caller = c /\ r.caller = c => p = r
    /\ \A i, j \in DOMAIN queue : queue[i].caller = c /\ queue[j].caller = c => i = j
    /\ \A a, e \in answers : a.caller = c /\ e.caller = c => a = e
    /\ (\E p \in onWire : p.caller = c) => /\ \A i \in DOMAIN queue : queue[i].caller # c
                                           /\ \A a \in answers : a.caller # c
    /\ (\E i \in DOMAIN queue : queue[i].caller = c) => \A a \in answers : a.caller # c

\* The push that is applied is at the head of the queue, and the engine of the policy
\* before it still runs if both have credentials.
EngineFollows ==
  /\ SecretsHaveEngine
  /\ applying => /\ queue # <<>>
                 /\ previous.secrets /\ policy.secrets => engine
                 /\ applied \/ previous = EmptyPolicy

PushInv == PushTypeOK /\ CallersWait /\ OnePushEach /\ EngineFollows /\ RefusalIsReported

\* The types, part by part.
PushFlagTypes ==
  /\ applied \in BOOLEAN /\ applying \in BOOLEAN /\ engine \in BOOLEAN
  /\ refused \in BOOLEAN /\ owed \in BOOLEAN

PushDataTypes ==
  /\ store \in Policy /\ policy \in Policy /\ previous \in Policy
  /\ waiting \subseteq Caller
  /\ health \in {"unknown", "inSync", "error"}
  /\ onWire \subseteq Push /\ answers \subseteq PushAnswer /\ queue \in Seq(Push)

LEMMA PushTypesAre == PushTypeOK <=> PushFlagTypes /\ PushDataTypes /\ mishaps \in 0..MaxMishaps
  BY DEF PushTypeOK, PushFlagTypes, PushDataTypes

CallSteps == (\E c \in Caller, secrets \in BOOLEAN : StoreWrites(c, secrets)) \/ LoopSyncs
LossSteps == (\E c \in Caller : CallFails(c)) \/ OrchestratorRestarts \/ ProxyRestarts
EndSteps == PushSucceeds \/ PushFails

LEMMA PushSteps ==
  PushNext <=> \/ CallSteps \/ LossSteps \/ EndSteps \/ PushBegins \/ ServerRefuses
               \/ \E a \in answers : PushAnswerArrives(a)
               \/ \E p \in onWire : PushIsLost(p) \/ PushArrives(p)
  BY DEF PushNext, CallSteps, LossSteps, EndSteps

LEMMA PushFlagTypesStay ==
  ASSUME PushFlagTypes, PushDataTypes, PushNext
  PROVE  PushFlagTypes'
<1> USE DEF PushFlagTypes, proxyVars
<1>1. CASE CallSteps
  BY <1>1 DEF CallSteps, StoreWrites, LoopSyncs
<1>2. CASE LossSteps
  BY <1>2 DEF LossSteps, CallFails, OrchestratorRestarts, ProxyRestarts, ForgetCallers
<1>3. CASE PushSucceeds
  <2>1. policy.secrets \in BOOLEAN
    BY DEF PushDataTypes, Policy
  <2> QED
    BY <1>3, <2>1 DEF PushSucceeds, EndPush
<1>4. CASE PushFails
  <2>1. engine' \in BOOLEAN
    BY <1>4 DEF PushFails
  <2> QED
    BY <1>4, <2>1 DEF PushFails, EndPush
<1>5. CASE PushBegins \/ ServerRefuses
  BY <1>5 DEF PushBegins, ServerRefuses
<1>6. CASE (\E a \in answers : PushAnswerArrives(a)) \/ \E p \in onWire : PushIsLost(p) \/ PushArrives(p)
  BY <1>6 DEF PushAnswerArrives, PushIsLost, PushArrives
<1> QED
  BY <1>1, <1>2, <1>3, <1>4, <1>5, <1>6, PushSteps DEF EndSteps

\* What forgets callers keeps the shape of the pushes.
LEMMA ForgettingTypes ==
  ASSUME PushDataTypes, NEW callers, ForgetCallers(callers)
  PROVE  onWire' \subseteq Push /\ queue' \in Seq(Push) /\ answers' \subseteq PushAnswer
<1>1. \A p \in Push : [p EXCEPT !.caller = Nobody] \in Push
  BY DEF Push
<1>2. onWire' \subseteq Push
  BY <1>1 DEF ForgetCallers, PushDataTypes
<1>3. queue' \in Seq(Push)
  <2>1. DOMAIN queue = 1..Len(queue) /\ Len(queue) \in Nat /\ \A i \in 1..Len(queue) : queue[i] \in Push
    BY DEF PushDataTypes
  <2>2. queue' \in [1..Len(queue) -> Push]
    BY <1>1, <2>1 DEF ForgetCallers
  <2> QED
    BY <2>1, <2>2, SeqDef
<1> QED
  BY <1>2, <1>3 DEF ForgetCallers, PushDataTypes

LEMMA PushDataTypesStay ==
  ASSUME PushTypeOK, EngineFollows, PushNext
  PROVE  PushDataTypes'
<1> USE DEF PushDataTypes, proxyVars
<1>1. PushFlagTypes /\ PushDataTypes
  BY PushTypesAre
<1>2. CASE CallSteps
  <2>1. Loop \in Caller
    BY LoopIsACaller
  <2>2. store' \in Policy
    BY <1>1, <1>2, PushBounds DEF CallSteps, StoreWrites, LoopSyncs, Policy
  <2>3. waiting' \subseteq Caller /\ onWire' \subseteq Push
    BY <1>1, <1>2, <2>1, <2>2 DEF CallSteps, StoreWrites, LoopSyncs, Sync, Push
  <2> QED
    BY <1>1, <1>2, <2>2, <2>3 DEF CallSteps, StoreWrites, LoopSyncs
<1>3. CASE (\E c \in Caller : CallFails(c)) \/ OrchestratorRestarts
  BY <1>1, <1>3, ForgettingTypes DEF CallFails, OrchestratorRestarts
<1>4. CASE ProxyRestarts
  <2>1. EmptyPolicy \in Policy
    BY PushBounds DEF EmptyPolicy, Policy
  <2> QED
    BY <1>1, <1>4, <2>1 DEF ProxyRestarts
<1>5. CASE EndSteps
  <2>1. EmptyPolicy \in Policy
    BY PushBounds DEF EmptyPolicy, Policy
  <2>2. queue # <<>> /\ Head(queue) \in Push /\ Tail(queue) \in Seq(Push)
    <3>1. queue # <<>> /\ queue \in Seq(Push)
      BY <1>1, <1>5 DEF EndSteps, PushSucceeds, PushFails, EngineFollows
    <3> QED
      BY <3>1, HeadTailProperties
  <2>3. queue' \in Seq(Push) /\ previous' \in Policy
    BY <1>5, <2>1, <2>2 DEF EndSteps, PushSucceeds, PushFails, EndPush
  <2>4. answers' \subseteq PushAnswer
    <3>1. \A rejected \in BOOLEAN, ok \in BOOLEAN :
            Head(queue).caller # Nobody => [caller |-> Head(queue).caller, ok |-> ok, refused |-> rejected] \in PushAnswer
      BY <2>2 DEF Push, PushAnswer
    <3>2. \A ok \in BOOLEAN : (ok /\ refused) \in BOOLEAN
      OBVIOUS
    <3> QED
      BY <1>1, <1>5, <3>1, <3>2 DEF EndSteps, PushSucceeds, PushFails, EndPush
  <2> QED
    BY <1>1, <1>5, <2>3, <2>4 DEF EndSteps, PushSucceeds, PushFails
<1>6. CASE PushBegins
  <2>1. Head(queue).policy \in Policy
    <3>1. queue # <<>> /\ queue \in Seq(Push)
      BY <1>1, <1>6 DEF PushBegins
    <3>2. Head(queue) \in Push
      BY <3>1, HeadTailProperties
    <3> QED
      BY <3>2 DEF Push
  <2> QED
    BY <1>1, <1>6, <2>1 DEF PushBegins
<1>7. CASE ServerRefuses \/ \E a \in answers : PushAnswerArrives(a)
  BY <1>1, <1>7 DEF ServerRefuses, PushAnswerArrives
<1>8. CASE \E p \in onWire : PushIsLost(p) \/ PushArrives(p)
  BY <1>1, <1>8 DEF PushIsLost, PushArrives
<1> QED
  BY <1>2, <1>3, <1>4, <1>5, <1>6, <1>7, <1>8, PushSteps DEF LossSteps

LEMMA PushTypesStay ==
  ASSUME PushTypeOK, EngineFollows, PushNext
  PROVE  PushTypeOK'
<1>1. mishaps' \in 0..MaxMishaps
  <2>1. mishaps' = mishaps \/ Mishap
    BY PushSteps DEF CallSteps, StoreWrites, LoopSyncs, LossSteps, CallFails, OrchestratorRestarts,
       ProxyRestarts, EndSteps, PushSucceeds, PushFails, PushBegins, ServerRefuses, PushAnswerArrives,
       PushIsLost, PushArrives
  <2> QED
    BY <2>1, PushBounds DEF PushTypeOK, Mishap
<1>2. PushFlagTypes' /\ PushDataTypes'
  BY PushTypesAre, PushFlagTypesStay, PushDataTypesStay
<1> QED
  BY <1>1, <1>2 DEF PushTypeOK, PushFlagTypes, PushDataTypes

\* The queue, position by position, when a push is added or the head goes.
LEMMA QueueGrows ==
  ASSUME queue \in Seq(Push), NEW p \in Push, queue' = Append(queue, p)
  PROVE  /\ DOMAIN queue' = DOMAIN queue \cup {Len(queue) + 1} /\ Len(queue) + 1 \notin DOMAIN queue
         /\ queue'[Len(queue) + 1] = p /\ \A i \in DOMAIN queue : queue'[i] = queue[i]
  OBVIOUS

LEMMA QueueShrinks ==
  ASSUME queue \in Seq(Push), queue # <<>>, queue' = Tail(queue)
  PROVE  /\ 1 \in DOMAIN queue /\ Head(queue) = queue[1]
         /\ \A i \in DOMAIN queue' : i \in Nat /\ i + 1 \in DOMAIN queue /\ i + 1 # 1 /\ queue'[i] = queue[i + 1]
<1>1. DOMAIN queue = 1..Len(queue) /\ Len(queue) \in Nat /\ Len(queue) # 0
  OBVIOUS
<1>2. Len(queue') = Len(queue) - 1 /\ DOMAIN queue' = 1..(Len(queue) - 1)
  BY HeadTailProperties, LenProperties
<1>3. \A i \in 1..(Len(queue) - 1) : queue'[i] = queue[i + 1]
  BY <1>2, HeadTailProperties
<1> QED
  BY <1>1, <1>2, <1>3

\* What is left of the pushes of callers that nobody waits for.
LEMMA ForgettingCallers ==
  ASSUME PushDataTypes, NEW callers, ForgetCallers(callers)
  PROVE  /\ \A p \in onWire' : p.caller = Nobody \/ (p \in onWire /\ p.caller \notin callers)
         /\ DOMAIN queue' = DOMAIN queue
         /\ \A i \in DOMAIN queue : queue'[i].caller = Nobody \/ (queue'[i] = queue[i] /\ queue[i].caller \notin callers)
         /\ answers' = {a \in answers : a.caller \notin callers}
<1>1. \A p \in Push : [p EXCEPT !.caller = Nobody].caller = Nobody
  BY DEF Push
<1>2. DOMAIN queue = 1..Len(queue) /\ \A i \in DOMAIN queue : queue[i] \in Push
  BY DEF PushDataTypes
<1>3. \A p \in onWire' : p.caller = Nobody \/ (p \in onWire /\ p.caller \notin callers)
  BY <1>1 DEF ForgetCallers, PushDataTypes
<1>4. /\ DOMAIN queue' = DOMAIN queue
      /\ \A i \in DOMAIN queue : queue'[i].caller = Nobody \/ (queue'[i] = queue[i] /\ queue[i].caller \notin callers)
  BY <1>1, <1>2 DEF ForgetCallers
<1> QED
  BY <1>3, <1>4 DEF ForgetCallers

LEMMA SyncKeeps ==
  ASSUME CallersWait, OnePushEach, NEW c \in Caller, NEW composed, c \notin waiting,
         Sync(c, composed), UNCHANGED <<queue, answers>>
  PROVE  CallersWait' /\ OnePushEach'
<1>1. c # Nobody
  BY LoopIsACaller
<1>2. /\ \A p \in onWire : p.caller # c
      /\ \A i \in DOMAIN queue : queue[i].caller # c
      /\ \A a \in answers : a.caller # c
  BY <1>1 DEF CallersWait
<1>3. \A p \in onWire' : p \in onWire \/ p = [caller |-> c, policy |-> composed]
  BY DEF Sync
<1>4. CallersWait'
  BY <1>3 DEF CallersWait, Sync
<1>5. OnePushEach'
  BY <1>2, <1>3 DEF OnePushEach
<1> QED
  BY <1>4, <1>5

LEMMA LossKeeps ==
  ASSUME PushInv, LossSteps
  PROVE  CallersWait' /\ OnePushEach'
<1> USE DEF PushInv
<1>1. PushDataTypes
  BY PushTypesAre
<1>2. ASSUME NEW callers, ForgetCallers(callers), waiting' = waiting \ callers
      PROVE  CallersWait' /\ OnePushEach'
  <2>1. CallersWait'
    BY <1>1, <1>2, ForgettingCallers DEF CallersWait
  <2>2. OnePushEach'
    <3> SUFFICES ASSUME NEW c \in Caller
                 PROVE  /\ \A p, r \in onWire' : p.caller = c /\ r.caller = c => p = r
                        /\ \A i, j \in DOMAIN queue' : queue'[i].caller = c /\ queue'[j].caller = c => i = j
                        /\ \A a, e \in answers' : a.caller = c /\ e.caller = c => a = e
                        /\ (\E p \in onWire' : p.caller = c) => /\ \A i \in DOMAIN queue' : queue'[i].caller # c
                                                                /\ \A a \in answers' : a.caller # c
                        /\ (\E i \in DOMAIN queue' : queue'[i].caller = c) => \A a \in answers' : a.caller # c
      BY DEF OnePushEach
    <3>1. c # Nobody
      BY LoopIsACaller
    <3> QED
      BY <1>1, <1>2, <3>1, ForgettingCallers DEF OnePushEach
  <2> QED
    BY <2>1, <2>2
<1>3. CASE \E c \in Caller : CallFails(c)
  BY <1>2, <1>3 DEF CallFails
<1>4. CASE OrchestratorRestarts
  <2>1. waiting' = waiting \ Caller
    BY <1>1, <1>4 DEF OrchestratorRestarts, PushDataTypes
  <2> QED
    BY <1>2, <1>4, <2>1 DEF OrchestratorRestarts
<1>5. CASE ProxyRestarts
  <2>1. /\ onWire' = onWire /\ answers' = answers /\ queue' = <<>>
        /\ waiting' = waiting \ ({queue[i].caller : i \in DOMAIN queue} \ {Nobody})
    BY <1>5 DEF ProxyRestarts
  <2>2. DOMAIN queue' = {}
    BY <2>1
  <2>3. OnePushEach'
    BY <2>1, <2>2 DEF OnePushEach
  <2>4. \A c \in {queue[i].caller : i \in DOMAIN queue} \ {Nobody} :
          (\A p \in onWire : p.caller # c) /\ \A a \in answers : a.caller # c
    BY <1>1 DEF OnePushEach, CallersWait, PushDataTypes
  <2>5. CallersWait'
    BY <2>1, <2>2, <2>4 DEF CallersWait
  <2> QED
    BY <2>3, <2>5
<1> QED
  BY <1>3, <1>4, <1>5 DEF LossSteps

LEMMA WireKeeps ==
  ASSUME PushInv, NEW p \in onWire, PushIsLost(p) \/ PushArrives(p)
  PROVE  CallersWait' /\ OnePushEach'
<1> USE DEF PushInv
<1>1. PushDataTypes
  BY PushTypesAre
<1>2. p.caller # Nobody => /\ p.caller \in Caller
                           /\ \A r \in onWire \ {p} : r.caller # p.caller
                           /\ \A i \in DOMAIN queue : queue[i].caller # p.caller
                           /\ \A a \in answers : a.caller # p.caller
  BY <1>1 DEF OnePushEach, CallersWait, PushDataTypes
<1>3. CASE PushIsLost(p)
  <2>1. /\ onWire' = onWire \ {p} /\ waiting' = waiting \ {p.caller}
        /\ UNCHANGED <<queue, answers>>
    BY <1>3 DEF PushIsLost, proxyVars
  <2>2. CallersWait'
    <3>1. CASE p.caller = Nobody
      <4>1. Nobody \notin waiting
        BY <1>1, LoopIsACaller DEF PushDataTypes
      <4> QED
        BY <2>1, <3>1, <4>1 DEF CallersWait
    <3>2. CASE p.caller # Nobody
      BY <1>2, <2>1, <3>2 DEF CallersWait
    <3> QED
      BY <3>1, <3>2
  <2>3. OnePushEach'
    BY <2>1 DEF OnePushEach
  <2> QED
    BY <2>2, <2>3
<1>4. CASE PushArrives(p)
  <2>1. /\ DOMAIN queue' = DOMAIN queue \cup {Len(queue) + 1} /\ Len(queue) + 1 \notin DOMAIN queue
        /\ queue'[Len(queue) + 1] = p /\ \A i \in DOMAIN queue : queue'[i] = queue[i]
    BY <1>1, <1>4, QueueGrows DEF PushArrives, PushDataTypes
  <2>2. onWire' = onWire \ {p} /\ waiting' = waiting /\ answers' = answers
    BY <1>4 DEF PushArrives
  <2>3. CallersWait'
    BY <2>1, <2>2 DEF CallersWait
  <2>4. OnePushEach'
    <3>1. \A c \in Caller : p.caller = c => c # Nobody
      BY LoopIsACaller
    <3> QED
      BY <1>2, <2>1, <2>2, <3>1 DEF OnePushEach
  <2> QED
    BY <2>3, <2>4
<1> QED
  BY <1>3, <1>4

\* A push that ends hands its caller from the queue to its answer.
LEMMA EndKeeps ==
  ASSUME PushInv, NEW ok \in BOOLEAN, applying, EndPush(ok), UNCHANGED <<onWire, waiting>>
  PROVE  CallersWait' /\ OnePushEach'
<1> USE DEF PushInv
<1>1. PushDataTypes /\ queue # <<>>
  BY PushTypesAre DEF EngineFollows
<1>2. /\ 1 \in DOMAIN queue /\ Head(queue) = queue[1]
      /\ \A i \in DOMAIN queue' : i \in Nat /\ i + 1 \in DOMAIN queue /\ i + 1 # 1 /\ queue'[i] = queue[i + 1]
  BY <1>1, QueueShrinks DEF EndPush, PushDataTypes
<1>3. PICK rejected \in BOOLEAN :
        answers' = IF Head(queue).caller = Nobody THEN answers
                   ELSE answers \cup {[caller |-> Head(queue).caller, ok |-> ok, refused |-> rejected]}
  BY DEF EndPush
<1>4. \A a \in answers' \ answers : /\ a.caller = queue[1].caller /\ a.caller # Nobody
                                    /\ a = [caller |-> queue[1].caller, ok |-> ok, refused |-> rejected]
  BY <1>2, <1>3
<1>5. CallersWait'
  BY <1>2, <1>4 DEF CallersWait
<1>6. OnePushEach'
  <2>1. \A i, j \in DOMAIN queue' : i + 1 = j + 1 => i = j
    BY <1>2
  <2> QED
    BY <1>2, <1>4, <2>1 DEF OnePushEach
<1> QED
  BY <1>5, <1>6

LEMMA CallersStay ==
  ASSUME PushInv, PushNext
  PROVE  CallersWait' /\ OnePushEach'
<1> USE DEF PushInv, proxyVars
<1>1. CASE CallSteps
  <2>1. PICK c \in Caller : c \notin waiting /\ (Sync(c, store) \/ Sync(c, store'))
                            /\ UNCHANGED <<queue, answers>>
    BY <1>1, LoopIsACaller DEF CallSteps, StoreWrites, LoopSyncs
  <2> QED
    BY <2>1, SyncKeeps
<1>2. CASE LossSteps
  BY <1>2, LossKeeps
<1>3. CASE EndSteps
  <2>1. applying /\ (EndPush(TRUE) \/ EndPush(FALSE)) /\ UNCHANGED <<onWire, waiting>>
    BY <1>3 DEF EndSteps, PushSucceeds, PushFails
  <2> QED
    BY <2>1, EndKeeps
<1>4. CASE PushBegins \/ ServerRefuses
  BY <1>4 DEF PushBegins, ServerRefuses, CallersWait, OnePushEach
<1>5. ASSUME NEW a \in answers, PushAnswerArrives(a) PROVE CallersWait' /\ OnePushEach'
  <2>1. a.caller \in Caller /\ a.caller # Nobody
    BY LoopIsACaller DEF PushTypeOK, PushAnswer
  <2>2. /\ answers' = answers \ {a} /\ waiting' = waiting \ {a.caller} /\ UNCHANGED <<onWire, queue>>
    BY <1>5 DEF PushAnswerArrives
  <2> QED
    BY <2>1, <2>2 DEF CallersWait, OnePushEach
<1>6. CASE \E p \in onWire : PushIsLost(p) \/ PushArrives(p)
  BY <1>6, WireKeeps
<1> QED
  BY <1>1, <1>2, <1>3, <1>4, <1>5, <1>6, PushSteps

\* A refusal that is owed is with the proxy, or in an answer whose caller waits: the
\* callers that stop waiting have no answer, or lose it as a mishap does.
LEMMA RefusalStays ==
  ASSUME PushInv, PushNext
  PROVE  RefusalIsReported'
<1> USE DEF PushInv, RefusalIsReported, proxyVars
<1>1. PushFlagTypes /\ PushDataTypes
  BY PushTypesAre
<1>2. CASE CallSteps
  BY <1>2 DEF CallSteps, StoreWrites, LoopSyncs, Sync
<1>3. CASE (\E c \in Caller : CallFails(c)) \/ OrchestratorRestarts
  <2>1. PICK callers : ForgetCallers(callers) /\ waiting' = waiting \ callers /\ refused' = refused
    <3>1. CASE OrchestratorRestarts
      <4>1. ForgetCallers(Caller) /\ waiting' = waiting \ Caller /\ refused' = refused
        BY <1>1, <3>1 DEF OrchestratorRestarts, PushDataTypes
      <4> QED
        BY <4>1
    <3>2. CASE \E c \in Caller : CallFails(c)
      BY <3>2 DEF CallFails
    <3> QED
      BY <1>3, <3>1, <3>2
  <2> SUFFICES ASSUME owed', ~refused' PROVE \E a \in answers' : a.refused /\ a.caller \in waiting'
    OBVIOUS
  <2>2. owed /\ \A a \in answers : a.caller \in callers => ~a.refused
    BY <2>1 DEF ForgetCallers
  <2>3. PICK a \in answers : a.refused /\ a.caller \in waiting
    BY <2>1, <2>2
  <2>4. a.caller \notin callers /\ a \in answers'
    BY <2>1, <2>2, <2>3 DEF ForgetCallers
  <2> QED
    BY <2>1, <2>3, <2>4
<1>4. CASE ProxyRestarts
  <2> SUFFICES ASSUME owed', ~refused' PROVE \E a \in answers' : a.refused /\ a.caller \in waiting'
    OBVIOUS
  <2>1. owed /\ ~refused /\ answers' = answers
        /\ waiting' = waiting \ ({queue[i].caller : i \in DOMAIN queue} \ {Nobody})
    BY <1>4 DEF ProxyRestarts
  <2>2. PICK a \in answers : a.refused /\ a.caller \in waiting
    BY <2>1
  <2>3. \A i \in DOMAIN queue : queue[i].caller # a.caller
    BY <1>1, <2>2 DEF OnePushEach, PushDataTypes
  <2> QED
    BY <2>1, <2>2, <2>3
<1>5. CASE EndSteps
  <2>1. PICK ok \in BOOLEAN : applying /\ EndPush(ok) /\ UNCHANGED <<onWire, waiting>>
    BY <1>5 DEF EndSteps, PushSucceeds, PushFails
  <2> SUFFICES ASSUME owed', ~refused' PROVE \E a \in answers' : a.refused /\ a.caller \in waiting'
    OBVIOUS
  <2>2. owed /\ (refused => ok) /\ answers \subseteq answers'
    BY <2>1 DEF EndPush
  <2>3. CASE ~refused
    BY <2>1, <2>2, <2>3
  <2>4. CASE refused
    <3>1. queue # <<>> /\ queue \in Seq(Push)
      BY <1>1, <2>1 DEF EngineFollows, PushDataTypes
    <3>2. 1 \in DOMAIN queue /\ Head(queue) = queue[1]
      BY <2>1, <3>1, QueueShrinks DEF EndPush
    <3>3. ok = TRUE /\ Head(queue).caller # Nobody
      BY <2>1, <2>2, <2>4 DEF EndPush
    <3>4. Head(queue).caller \in waiting
      BY <3>2, <3>3 DEF CallersWait
    <3>5. [caller |-> Head(queue).caller, ok |-> ok, refused |-> (ok /\ refused)] \in answers'
      BY <2>1, <3>3 DEF EndPush
    <3> QED
      BY <2>1, <2>2, <2>4, <3>4, <3>5
  <2> QED
    BY <2>3, <2>4
<1>6. CASE PushBegins \/ ServerRefuses
  BY <1>6 DEF PushBegins, ServerRefuses
<1>7. ASSUME NEW a \in answers, PushAnswerArrives(a) PROVE RefusalIsReported'
  <2> SUFFICES ASSUME owed', ~refused' PROVE \E e \in answers' : e.refused /\ e.caller \in waiting'
    OBVIOUS
  <2>1. owed /\ ~a.refused /\ answers' = answers \ {a} /\ waiting' = waiting \ {a.caller} /\ refused' = refused
    BY <1>7 DEF PushAnswerArrives
  <2>2. PICK e \in answers : e.refused /\ e.caller \in waiting
    BY <2>1
  <2>3. e.caller # a.caller
    BY <1>1, <2>1, <2>2 DEF OnePushEach, PushDataTypes
  <2> QED
    BY <2>1, <2>2, <2>3
<1>8. ASSUME NEW p \in onWire, PushIsLost(p) \/ PushArrives(p) PROVE RefusalIsReported'
  <2>1. CASE PushArrives(p)
    BY <2>1 DEF PushArrives
  <2>2. CASE PushIsLost(p)
    <3> SUFFICES ASSUME owed', ~refused' PROVE \E e \in answers' : e.refused /\ e.caller \in waiting'
      OBVIOUS
    <3>1. owed /\ answers' = answers /\ waiting' = waiting \ {p.caller} /\ refused' = refused
      BY <2>2 DEF PushIsLost
    <3>2. PICK e \in answers : e.refused /\ e.caller \in waiting
      BY <3>1
    <3>3. e.caller # p.caller
      BY <1>1, <3>2 DEF OnePushEach, PushDataTypes
    <3> QED
      BY <3>1, <3>2, <3>3
  <2> QED
    BY <1>8, <2>1, <2>2
<1> QED
  BY <1>2, <1>3, <1>4, <1>5, <1>6, <1>7, <1>8, PushSteps DEF LossSteps

\* A push that fails finds no engine for its own policy, so there was none for the
\* policy before it either.
LEMMA EngineStays ==
  ASSUME PushTypeOK, EngineFollows, PushNext
  PROVE  EngineFollows'
<1> USE DEF EngineFollows, SecretsHaveEngine, proxyVars
<1>1. PushFlagTypes /\ PushDataTypes
  BY PushTypesAre
<1>2. CASE CallSteps
  BY <1>2 DEF CallSteps, StoreWrites, LoopSyncs
<1>3. CASE (\E c \in Caller : CallFails(c)) \/ OrchestratorRestarts
  <2>1. \E callers : ForgetCallers(callers)
    BY <1>3 DEF CallFails, OrchestratorRestarts
  <2>2. UNCHANGED <<policy, applied, previous, applying, engine>>
    BY <1>3 DEF CallFails, OrchestratorRestarts
  <2>3. queue # <<>> => queue' # <<>>
    <3> SUFFICES ASSUME queue # <<>> PROVE queue' # <<>>
      OBVIOUS
    <3>1. 1 \in DOMAIN queue
      BY <1>1 DEF PushDataTypes
    <3>2. 1 \in DOMAIN queue'
      BY <1>1, <2>1, <3>1, ForgettingCallers
    <3> QED
      BY <3>2
  <2> QED
    BY <2>2, <2>3
<1>4. CASE ProxyRestarts
  BY <1>4 DEF ProxyRestarts, EmptyPolicy
<1>5. CASE PushSucceeds
  BY <1>5 DEF PushSucceeds, EndPush
<1>6. CASE PushFails
  <2>1. previous.secrets = FALSE
    <3>1. previous.secrets \in BOOLEAN
      BY <1>1 DEF PushDataTypes, Policy
    <3> QED
      BY <1>6, <3>1 DEF PushFails
  <2>2. policy' = previous /\ engine' = FALSE /\ applying' = FALSE /\ applied' = applied
    BY <1>6, <2>1 DEF PushFails, EndPush
  <2>3. applied \/ previous = EmptyPolicy
    BY <1>6 DEF PushFails
  <2> QED
    BY <2>1, <2>2, <2>3
<1>7. CASE PushBegins
  <2>1. /\ ~applying /\ applying' = TRUE /\ previous' = policy /\ queue' = queue /\ queue # <<>>
        /\ applied' = applied /\ engine' = (engine /\ policy'.secrets)
    BY <1>7 DEF PushBegins
  <2>2. policy.secrets => engine
    BY <2>1
  <2> QED
    BY <2>1, <2>2
<1>8. CASE ServerRefuses \/ (\E a \in answers : PushAnswerArrives(a)) \/ \E p \in onWire : PushIsLost(p)
  BY <1>8 DEF ServerRefuses, PushAnswerArrives, PushIsLost
<1>9. ASSUME NEW p \in onWire, PushArrives(p) PROVE EngineFollows'
  <2>1. queue \in Seq(Push) /\ p \in Push /\ queue' = Append(queue, p)
        /\ UNCHANGED <<policy, applied, previous, applying, engine>>
    BY <1>1, <1>9 DEF PushArrives, PushDataTypes
  <2>2. queue' # <<>>
    BY <2>1
  <2> QED
    BY <2>1, <2>2
<1> QED
  BY <1>2, <1>3, <1>4, <1>5, <1>6, <1>7, <1>8, <1>9, PushSteps DEF EndSteps, LossSteps

\* Between two pushes a policy with credentials has its engine, and a refused token is
\* reported, for any number of callers, whatever fails, restarts and overtakes.
THEOREM PushIsAlwaysWhole == PushSpec => []PushIsWhole
<1>1. PushInit => PushInv
  <2> SUFFICES ASSUME PushInit PROVE PushInv
    OBVIOUS
  <2>1. PushFlagTypes
    BY DEF PushInit, PushFlagTypes
  <2>2. PushDataTypes
    BY PushBounds DEF PushInit, PushDataTypes, EmptyPolicy, Policy
  <2>3. mishaps \in 0..MaxMishaps
    BY PushBounds DEF PushInit
  <2>4. CallersWait /\ OnePushEach
    BY DEF PushInit, CallersWait, OnePushEach
  <2>5. EngineFollows /\ RefusalIsReported
    BY DEF PushInit, EngineFollows, SecretsHaveEngine, RefusalIsReported, EmptyPolicy
  <2> QED
    BY <2>1, <2>2, <2>3, <2>4, <2>5, PushTypesAre DEF PushInv
<1>2. PushInv /\ [PushNext]_pushVars => PushInv'
  <2> SUFFICES ASSUME PushInv, [PushNext]_pushVars PROVE PushInv'
    OBVIOUS
  <2>1. CASE UNCHANGED pushVars
    BY <2>1 DEF pushVars, PushInv, PushTypeOK, CallersWait, OnePushEach, EngineFollows, SecretsHaveEngine,
       RefusalIsReported
  <2>2. CASE PushNext
    BY <2>2, PushTypesStay, CallersStay, EngineStays, RefusalStays DEF PushInv
  <2> QED
    BY <2>1, <2>2
<1>3. PushInv => PushIsWhole
  BY DEF PushInv, EngineFollows, PushIsWhole
<1> QED
  BY <1>1, <1>2, <1>3, PTL DEF PushSpec


(***************************************************************************)
(* The comments of a review.                                               *)
(***************************************************************************)

\* A request that is in its turn.
Working(p) == stepOf[p] \in {"read", "write", "readAgain", "writeAgain"}
IsReview(doc) == \E there, entries : doc = [there |-> there, comments |-> entries]

NotesTypeOK ==
  /\ LinesIn(review) \subseteq SourceLine /\ CommentsIn(review) \subseteq Comment /\ IsReview(review)
  /\ sourceNow = sourceEdits /\ sourceEdits \in 0..MaxSourceEdits /\ touches \in Nat
  /\ job \in [Page -> Jobs \cup {"none"}] /\ atLine \in [Page -> SourceLine \cup {0}]
  /\ stepOf \in [Page -> {"new", "reads", "waits", "read", "write", "waitsAgain", "readAgain", "writeAgain", "done"}]
  /\ verdict \in [Page -> {"none", "ok", "conflict", "error"}]
  /\ attempt \in [Page -> 1..2]
  /\ reviewRead = [p \in Page |-> reviewRead[p]] /\ sourceRead = [p \in Page |-> sourceRead[p]]
  /\ touchedSince \in [Page -> Nat] /\ stored \subseteq Page
  /\ chain \in Seq(Page)

\* The request of p: what it has stored, and what has changed since its turn began.
RequestFits(p) ==
  /\ Working(p) => HasTurn(p)
  /\ job[p] \in {"set", "delete"} => atLine[p] \in SourceLine
  /\ stepOf[p] \in {"write", "waitsAgain", "readAgain"} => job[p] \in {"set", "delete"}
  /\ stepOf[p] \in {"new", "reads", "waits", "read", "write"} => p \notin stored
  /\ job[p] = "set" /\ stepOf[p] \in {"waitsAgain", "readAgain", "writeAgain"} => p \in stored
  /\ stepOf[p] # "done" => verdict[p] = "none"
  /\ verdict[p] = "ok" /\ job[p] = "set" => p \in stored
  /\ verdict[p] = "conflict" => p \notin stored /\ touchedSince[p] >= 2
  /\ stepOf[p] \in {"new", "reads", "waits"} => attempt[p] = 1
  /\ stepOf[p] \in {"read", "write"} => touchedSince[p] >= attempt[p] - 1
  /\ stepOf[p] = "write" /\ review # reviewRead[p] => touchedSince[p] >= attempt[p]

\* A comment of a page in REVIEW.md is one that the page has stored.
CommentsInv ==
  /\ NotesTypeOK
  /\ \A p \in Page : RequestFits(p)
  /\ \A c \in CommentsIn(review) : c \in stored \/ c = ByAgent

LEMMA OneTurn ==
  ASSUME CommentsInv, NEW p \in Page, NEW q \in Page, Working(p), Working(q)
  PROVE  p = q
BY DEF CommentsInv, RequestFits, HasTurn

\* The turns after a request joins the chain, and after it leaves it.
LEMMA ChainsGo ==
  ASSUME chain \in Seq(Page), NEW p \in Page
  PROVE  /\ Append(chain, p) \in Seq(Page)
         /\ \A q : HasTurn(q) => Append(chain, p) # <<>> /\ Head(Append(chain, p)) = q
         /\ HasTurn(p) => Tail(chain) \in Seq(Page) /\ Append(Tail(chain), p) \in Seq(Page)
<1>1. Append(chain, p) \in Seq(Page)
  OBVIOUS
<1>2. \A q : HasTurn(q) => Append(chain, p) # <<>> /\ Head(Append(chain, p)) = q
  BY DEF HasTurn
<1>3. HasTurn(p) => Tail(chain) \in Seq(Page)
  BY DEF HasTurn
<1>4. HasTurn(p) => Append(Tail(chain), p) \in Seq(Page)
  BY <1>3
<1> QED
  BY <1>1, <1>2, <1>3, <1>4

LEMMA WithoutIs ==
  ASSUME NEW doc, NEW l
  PROVE  /\ IsReview(Without(doc, l)) /\ LinesIn(Without(doc, l)) = LinesIn(doc) \ {l}
         /\ \A m \in LinesIn(doc) \ {l} : Without(doc, l).comments[m] = doc.comments[m]
  BY DEF Without, ReviewOf, LinesIn, IsReview

LEMMA WithCommentIs ==
  ASSUME NEW doc, NEW l, NEW c, NEW src
  PROVE  /\ IsReview(WithComment(doc, l, c, src))
         /\ LinesIn(WithComment(doc, l, c, src)) = LinesIn(doc) \cup {l}
         /\ WithComment(doc, l, c, src).comments[l].by = c
         /\ \A m \in LinesIn(doc) \ {l} : WithComment(doc, l, c, src).comments[m] = doc.comments[m]
  BY DEF WithComment, ReviewOf, LinesIn, IsReview

\* A document that differs from another one on a line only has its comments, but for that line.
LEMMA OneLineChanges ==
  ASSUME NEW doc, NEW new, NEW l, LinesIn(new) \subseteq LinesIn(doc) \cup {l},
         \A m \in LinesIn(doc) \ {l} : m \in LinesIn(new) /\ new.comments[m] = doc.comments[m]
  PROVE  /\ \A c \in CommentsIn(new) \ CommentsIn(doc) : l \in LinesIn(new) /\ new.comments[l].by = c
         /\ \A c \in CommentsIn(doc) \ CommentsIn(new) : l \in LinesIn(doc) /\ doc.comments[l].by = c
  BY DEF CommentsIn

\* A set or a delete changes the line that it names.
LEMMA ChangedIs ==
  ASSUME NEW p, NEW doc, job[p] \in {"set", "delete"}, IsReview(doc)
  PROVE  /\ IsReview(ChangedBy(p, doc)) /\ LinesIn(ChangedBy(p, doc)) \subseteq LinesIn(doc) \cup {atLine[p]}
         /\ job[p] = "delete" => LinesIn(ChangedBy(p, doc)) \subseteq LinesIn(doc) \ {atLine[p]}
         /\ \A m \in LinesIn(doc) \ {atLine[p]} :
              m \in LinesIn(ChangedBy(p, doc)) /\ ChangedBy(p, doc).comments[m] = doc.comments[m]
         /\ CommentsIn(ChangedBy(p, doc)) \subseteq CommentsIn(doc) \cup {p}
         /\ job[p] = "set" => p \in CommentsIn(ChangedBy(p, doc))
<1> DEFINE l == atLine[p]
<1>1. CASE job[p] = "set"
  <2> DEFINE new == WithComment(doc, l, p, sourceRead[p])
  <2>1. ChangedBy(p, doc) = new
    BY <1>1 DEF ChangedBy
  <2>2. /\ IsReview(new) /\ LinesIn(new) = LinesIn(doc) \cup {l} /\ new.comments[l].by = p
        /\ \A m \in LinesIn(doc) \ {l} : new.comments[m] = doc.comments[m]
    BY WithCommentIs
  <2> HIDE DEF new
  <2>3. CommentsIn(new) \subseteq CommentsIn(doc) \cup {p} /\ p \in CommentsIn(new)
    BY <2>2 DEF CommentsIn
  <2> QED
    BY <1>1, <2>1, <2>2, <2>3
<1>2. CASE job[p] = "delete"
  <2>1. /\ IsReview(ChangedBy(p, doc)) /\ LinesIn(ChangedBy(p, doc)) = LinesIn(doc) \ {l}
        /\ \A m \in LinesIn(doc) \ {l} : ChangedBy(p, doc).comments[m] = doc.comments[m]
    BY <1>2, WithoutIs DEF ChangedBy
  <2>2. CommentsIn(ChangedBy(p, doc)) \subseteq CommentsIn(doc)
    BY <2>1 DEF CommentsIn
  <2> QED
    BY <1>2, <2>1, <2>2
<1> QED
  BY <1>1, <1>2

LEMMA NoReviewIs == CommentsIn(NoReview) = {} /\ LinesIn(NoReview) = {} /\ IsReview(NoReview)
<1>1. Len(<<>>) = 0 /\ DOMAIN <<>> = 1..Len(<<>>)
  OBVIOUS
<1>2. NoReview.comments = <<>>
  BY DEF NoReview
<1>3. CommentsIn(NoReview) = {} /\ LinesIn(NoReview) = {}
  BY <1>1, <1>2 DEF CommentsIn, LinesIn
<1>4. IsReview(NoReview)
  BY DEF NoReview, IsReview
<1> QED
  BY <1>3, <1>4

\* The drift check gives each comment a line of its own: it takes none away.
LEMMA DriftedIs ==
  ASSUME NEW doc, IsReview(doc), NEW src, NEW f, IsPlacement(f, doc, src), NEW gone
  PROVE  /\ IsReview(Drifted(doc, src, f, gone))
         /\ LinesIn(Drifted(doc, src, f, gone)) \subseteq SourceLine
         /\ CommentsIn(Drifted(doc, src, f, gone)) = CommentsIn(doc)
<1>1. PICK there, entries : doc = [there |-> there, comments |-> entries]
  BY DEF IsReview
<1> DEFINE Was(m) == CHOOSE l \in LinesIn(doc) : f[l] = m
           At(l) == IF l \in gone THEN [doc.comments[l] EXCEPT !.outdated = TRUE]
                    ELSE [doc.comments[l] EXCEPT !.outdated = FALSE, !.on = src]
<1>2. PICK marked : marked = [m \in {f[l] : l \in LinesIn(doc)} |-> At(Was(m))]
  OBVIOUS
<1>3. Drifted(doc, src, f, gone) = [doc EXCEPT !.comments = marked]
  BY <1>2 DEF Drifted
<1>4. Drifted(doc, src, f, gone) = [there |-> there, comments |-> marked]
  BY <1>1, <1>3
<1>5. Drifted(doc, src, f, gone).comments = marked
  BY <1>4
<1>6. LinesIn(Drifted(doc, src, f, gone)) = {f[l] : l \in LinesIn(doc)}
  <2>1. DOMAIN marked = {f[l] : l \in LinesIn(doc)}
    BY <1>2
  <2> QED
    BY <1>5, <2>1 DEF LinesIn
<1>7. \A l \in LinesIn(doc) : Was(f[l]) = l
  BY DEF IsPlacement
<1>8. \A l \in LinesIn(doc) : marked[f[l]] = At(l)
  BY <1>2, <1>7
<1>9. \A l \in LinesIn(doc) : At(l).by = doc.comments[l].by
  OBVIOUS
<1> HIDE DEF At, Was
<1>10. CommentsIn(Drifted(doc, src, f, gone)) = CommentsIn(doc)
  BY <1>5, <1>8, <1>9, <1>6 DEF CommentsIn
<1>11. LinesIn(Drifted(doc, src, f, gone)) \subseteq SourceLine
  BY <1>6 DEF IsPlacement
<1>12. IsReview(Drifted(doc, src, f, gone))
  BY <1>4 DEF IsReview
<1> QED
  BY <1>10, <1>11, <1>12

LEMMA CommentsStart ==
  ASSUME CommentsInit
  PROVE  CommentsInv
<1> USE CommentsAssumption DEF CommentsInit
<1>1. CommentsIn(review) = {} /\ LinesIn(review) = {} /\ IsReview(review)
  BY NoReviewIs
<1>2. NotesTypeOK
  BY <1>1 DEF NotesTypeOK, Comment
<1>3. \A p \in Page : RequestFits(p)
  BY DEF RequestFits, Working
<1> QED
  BY <1>1, <1>2, <1>3 DEF CommentsInv

\* A step of the agent.
LEMMA AgentKeepsComments ==
  ASSUME CommentsInv, AgentTouchesReview \/ AgentEditsSource
  PROVE  CommentsInv'
<1>1. CASE AgentTouchesReview
  <2> USE DEF AgentTouchesReview, jobVars
  <2> DEFINE Fits == /\ CommentsIn(review') \subseteq CommentsIn(review) \cup {ByAgent} /\ IsReview(review')
                     /\ LinesIn(review') \subseteq SourceLine
  <2>1. Fits
    <3>0. LinesIn(review) \subseteq SourceLine
      BY DEF CommentsInv, NotesTypeOK
    <3>1. CASE review' = NoReview
      BY <3>1, NoReviewIs
    <3>2. ASSUME NEW l \in LinesIn(review), review' = Without(review, l) PROVE Fits
      <4>1. /\ IsReview(review') /\ LinesIn(review') = LinesIn(review) \ {l}
            /\ \A m \in LinesIn(review) \ {l} : review'.comments[m] = review.comments[m]
        BY <3>2, WithoutIs
      <4> QED
        BY <3>0, <4>1 DEF CommentsIn
    <3>3. ASSUME NEW l \in SourceLine, review' = WithComment(review, l, ByAgent, sourceNow) PROVE Fits
      <4>1. /\ IsReview(review') /\ LinesIn(review') = LinesIn(review) \cup {l} /\ review'.comments[l].by = ByAgent
            /\ \A m \in LinesIn(review) \ {l} : review'.comments[m] = review.comments[m]
        BY <3>3, WithCommentIs
      <4> QED
        BY <3>0, <4>1 DEF CommentsIn
    <3> QED
      BY <1>1, <3>1, <3>2, <3>3
  <2>2. NotesTypeOK'
    BY <1>1, <2>1 DEF CommentsInv, NotesTypeOK, Comment
  <2>3. ASSUME NEW p \in Page PROVE RequestFits(p)'
    <3>1. RequestFits(p) /\ touchedSince[p] \in Nat /\ attempt[p] \in 1..2 /\ touchedSince'[p] = touchedSince[p] + 1
      BY <1>1 DEF CommentsInv, NotesTypeOK
    <3> QED
      BY <1>1, <3>1 DEF RequestFits, Working, HasTurn
  <2> QED
    BY <1>1, <2>1, <2>2, <2>3 DEF CommentsInv
<1>2. CASE AgentEditsSource
  <2>1. NotesTypeOK'
    BY <1>2, CommentsAssumption DEF AgentEditsSource, jobVars, CommentsInv, NotesTypeOK
  <2>2. \A p \in Page : RequestFits(p)'
    BY <1>2 DEF AgentEditsSource, jobVars, CommentsInv, RequestFits, Working, HasTurn
  <2> QED
    BY <1>2, <2>1, <2>2 DEF AgentEditsSource, CommentsInv
<1> QED
  BY <1>1, <1>2

\* A request that joins the chain.
LEMMA JoiningKeepsComments ==
  ASSUME CommentsInv, NEW p \in Page, SourceIsRead(p) \/ \E j \in Jobs : RequestIsMade(p, j)
  PROVE  CommentsInv'
<1>1. /\ chain' = chain \/ chain' = Append(chain, p)
      /\ review' = review /\ stored' = stored
  BY DEF SourceIsRead, RequestIsMade
<1>2. chain' \in Seq(Page) /\ \A q : HasTurn(q) => HasTurn(q)'
  BY <1>1, ChainsGo DEF CommentsInv, NotesTypeOK, HasTurn
<1>3. NotesTypeOK'
  <2>1. CASE SourceIsRead(p)
    BY <1>2, <2>1 DEF SourceIsRead, GoesTo, CommentsInv, NotesTypeOK
  <2>2. ASSUME NEW j \in Jobs, RequestIsMade(p, j) PROVE NotesTypeOK'
    BY <1>2, <2>2 DEF RequestIsMade, GoesTo, CommentsInv, NotesTypeOK
  <2> QED
    BY <2>1, <2>2
<1>4. ASSUME NEW q \in Page PROVE RequestFits(q)'
  <2>1. RequestFits(q) /\ RequestFits(p) /\ NotesTypeOK
    BY DEF CommentsInv
  <2>2. CASE q = p
    BY <1>2, <2>1, <2>2 DEF SourceIsRead, RequestIsMade, GoesTo, NotesTypeOK, RequestFits, Working
  <2>3. CASE q # p
    BY <1>2, <2>1, <2>3 DEF SourceIsRead, RequestIsMade, GoesTo, NotesTypeOK, RequestFits, Working
  <2> QED
    BY <2>2, <2>3
<1> QED
  BY <1>1, <1>3, <1>4 DEF CommentsInv

LEMMA TurnBeginsKeepsComments ==
  ASSUME CommentsInv, NEW p \in Page, TurnBegins(p)
  PROVE  CommentsInv'
<1> USE DEF TurnBegins, GoesTo
<1>1. NotesTypeOK'
  BY DEF CommentsInv, NotesTypeOK
<1>2. ASSUME NEW q \in Page PROVE RequestFits(q)'
  <2>1. RequestFits(q) /\ NotesTypeOK
    BY DEF CommentsInv
  <2>2. CASE q = p
    BY <2>1, <2>2 DEF NotesTypeOK, RequestFits, Working, HasTurn
  <2>3. CASE q # p
    BY <2>1, <2>3 DEF NotesTypeOK, RequestFits, Working, HasTurn
  <2> QED
    BY <2>2, <2>3
<1> QED
  BY <1>1, <1>2 DEF CommentsInv

\* The steps of a request in its turn change nothing of the others.
InTurn(p) == ReviewIsDeleted(p) \/ ReviewIsRead(p) \/ ChangeIsWritten(p) \/ WriteIsLost(p) \/ CheckReads(p) \/ CheckEnds(p)

LEMMA InTurnIs ==
  ASSUME CommentsInv, NEW p \in Page, InTurn(p)
  PROVE  /\ Working(p) /\ HasTurn(p)
         /\ chain' = chain \/ (chain' = Tail(chain) /\ stepOf'[p] = "done")
              \/ (chain' = Append(Tail(chain), p) /\ stepOf'[p] = "waitsAgain")
<1>1. Working(p)
  BY DEF InTurn, ReviewIsDeleted, ReviewIsRead, ChangeIsWritten, WriteIsLost, CheckReads, CheckEnds, Working
<1>2. HasTurn(p)
  BY <1>1 DEF CommentsInv, RequestFits
<1>3. stepOf \in [Page -> {"new", "reads", "waits", "read", "write", "waitsAgain", "readAgain", "writeAgain", "done"}]
  BY DEF CommentsInv, NotesTypeOK
<1>4. chain' = chain \/ (chain' = Tail(chain) /\ stepOf'[p] = "done")
         \/ (chain' = Append(Tail(chain), p) /\ stepOf'[p] = "waitsAgain")
  BY <1>3 DEF InTurn, ReviewIsDeleted, ReviewIsRead, ChangeIsWritten, WriteIsLost, CheckReads, CheckEnds, GoesTo, TurnEnds
<1> QED
  BY <1>1, <1>2, <1>4

LEMMA OthersStay ==
  ASSUME CommentsInv, NEW p \in Page, InTurn(p), NEW q \in Page, q # p
  PROVE  RequestFits(q)'
<1> USE DEF InTurn, ReviewIsDeleted, ReviewIsRead, ChangeIsWritten, WriteIsLost, CheckReads, CheckEnds, GoesTo, Forgets
<1>1. ~Working(q) /\ RequestFits(q)
  BY InTurnIs, OneTurn DEF CommentsInv
<1>2. /\ stepOf'[q] = stepOf[q] /\ job' = job /\ verdict'[q] = verdict[q] /\ attempt'[q] = attempt[q]
      /\ touchedSince' = touchedSince /\ (q \in stored' <=> q \in stored)
  BY DEF CommentsInv, NotesTypeOK
<1> QED
  BY <1>1, <1>2 DEF RequestFits, Working

\* The chain of a step in a turn.
LEMMA ChainStays ==
  ASSUME CommentsInv, NEW p \in Page, InTurn(p)
  PROVE  chain' \in Seq(Page)
BY InTurnIs, ChainsGo DEF CommentsInv, NotesTypeOK

\* What a request has read, and the number of its attempt.
ReadsTyped ==
  /\ attempt \in [Page -> 1..2]
  /\ reviewRead = [p \in Page |-> reviewRead[p]] /\ sourceRead = [p \in Page |-> sourceRead[p]]

LEMMA ForgettingIsTyped ==
  ASSUME ReadsTyped, NEW p \in Page, Forgets(p)
  PROVE  ReadsTyped'
<1>1. attempt' \in [Page -> 1..2]
  BY DEF ReadsTyped, Forgets
<1>2. ASSUME NEW was, was = [q \in Page |-> was[q]], NEW v, NEW then, then = [was EXCEPT ![p] = v]
      PROVE  then = [q \in Page |-> then[q]]
  BY <1>2
<1>3. reviewRead' = [q \in Page |-> reviewRead'[q]]
  BY <1>2 DEF ReadsTyped, Forgets
<1>4. sourceRead' = [q \in Page |-> sourceRead'[q]]
  BY <1>2 DEF ReadsTyped, Forgets
<1> QED
  BY <1>1, <1>3, <1>4 DEF ReadsTyped

LEMMA NotesHaveReads ==
  ASSUME NotesTypeOK
  PROVE  ReadsTyped
  BY DEF ReadsTyped, NotesTypeOK

\* What is left to show of a step in a turn.
StepFits(p) ==
  /\ NotesTypeOK' /\ RequestFits(p)'
  /\ \A c \in CommentsIn(review') : c \in stored' \/ c = ByAgent

LEMMA DeleteFits ==
  ASSUME CommentsInv, NEW p \in Page, ReviewIsDeleted(p)
  PROVE  StepFits(p)
<1> USE DEF ReviewIsDeleted, GoesTo
<1>1. CommentsIn(review') = {} /\ LinesIn(review') = {} /\ IsReview(review')
  BY NoReviewIs
<1>2. chain' \in Seq(Page)
  BY ChainStays DEF InTurn
<1>3. NotesTypeOK'
  BY <1>1, <1>2 DEF CommentsInv, NotesTypeOK
<1>4. RequestFits(p)'
  BY DEF CommentsInv, NotesTypeOK, RequestFits, Working
<1> QED
  BY <1>1, <1>3, <1>4 DEF StepFits

LEMMA ReadFits ==
  ASSUME CommentsInv, NEW p \in Page, ReviewIsRead(p)
  PROVE  StepFits(p)
<1> USE DEF ReviewIsRead, GoesTo
<1>1. chain' \in Seq(Page)
  BY ChainStays DEF InTurn
<1>2. NotesTypeOK'
  <2>1. ReadsTyped'
    <3>1. CASE Forgets(p)
      BY <3>1, ForgettingIsTyped, NotesHaveReads DEF CommentsInv
    <3>2. CASE ~Forgets(p)
      <4>1. attempt' = attempt /\ sourceRead' = sourceRead /\ reviewRead' = [reviewRead EXCEPT ![p] = review]
        BY <3>2
      <4> HIDE DEF ReviewIsRead
      <4> QED
        BY <4>1, NotesHaveReads DEF CommentsInv, ReadsTyped
    <3> QED
      BY <3>1, <3>2
  <2> QED
    BY <1>1, <2>1 DEF CommentsInv, NotesTypeOK, ReadsTyped
<1>3. HasTurn(p)
  BY InTurnIs DEF InTurn
<1>4. CASE ChangedBy(p, review) = review
  <2>1. job[p] = "set" => p \in stored
    <3>1. job[p] = "set" => p \in CommentsIn(review)
      BY <1>4, ChangedIs DEF CommentsInv, NotesTypeOK
    <3> QED
      BY <3>1, CommentsAssumption DEF CommentsInv
  <2>2. stepOf'[p] = "waitsAgain"
    BY <1>4 DEF CommentsInv, NotesTypeOK
  <2>3. RequestFits(p)'
    BY <2>1, <2>2 DEF CommentsInv, RequestFits, Working
  <2> QED
    BY <1>2, <2>3 DEF StepFits, CommentsInv
<1>5. CASE ChangedBy(p, review) # review
  <2>1. stepOf'[p] = "write" /\ reviewRead'[p] = review /\ review' = review /\ chain' = chain /\ attempt' = attempt
    BY <1>5 DEF CommentsInv, NotesTypeOK
  <2>2. RequestFits(p)'
    BY <1>3, <2>1 DEF CommentsInv, RequestFits, Working, HasTurn
  <2> QED
    BY <1>2, <2>2 DEF StepFits, CommentsInv
<1> QED
  BY <1>4, <1>5

\* A change of the review in the turn of p.
LEMMA ChangeFits ==
  ASSUME CommentsInv, NEW p \in Page, stepOf[p] = "write", review' = ChangedBy(p, review), stored' = stored \cup {p}
  PROVE  /\ IsReview(review') /\ LinesIn(review') \subseteq SourceLine /\ CommentsIn(review') \subseteq Comment
         /\ \A c \in CommentsIn(review') : c \in stored' \/ c = ByAgent
<1>1. job[p] \in {"set", "delete"}
  BY DEF CommentsInv, RequestFits
<1>2. /\ IsReview(review') /\ CommentsIn(review') \subseteq CommentsIn(review) \cup {p}
      /\ LinesIn(review') \subseteq LinesIn(review) \cup {atLine[p]}
  BY <1>1, ChangedIs DEF CommentsInv, NotesTypeOK
<1>3. atLine[p] \in SourceLine
  BY <1>1 DEF CommentsInv, RequestFits
<1> QED
  BY <1>2, <1>3 DEF CommentsInv, NotesTypeOK, Comment

LEMMA WriteFits ==
  ASSUME CommentsInv, NEW p \in Page, ChangeIsWritten(p)
  PROVE  StepFits(p)
<1> USE DEF ChangeIsWritten, GoesTo
<1>1. chain' \in Seq(Page)
  BY ChainStays DEF InTurn
<1>2. HasTurn(p)
  BY InTurnIs DEF InTurn
<1>3. CASE review = reviewRead[p]
  <2>1. review' = ChangedBy(p, review) /\ stored' = stored \cup {p} /\ verdict' = verdict
    BY <1>3
  <2>2. /\ IsReview(review') /\ LinesIn(review') \subseteq SourceLine /\ CommentsIn(review') \subseteq Comment
        /\ \A c \in CommentsIn(review') : c \in stored' \/ c = ByAgent
    BY <2>1, ChangeFits
  <2>3. stepOf'[p] = "waitsAgain"
    BY <1>3 DEF CommentsInv, NotesTypeOK
  <2>4. NotesTypeOK'
    <3>1. ReadsTyped'
      BY <1>3, ForgettingIsTyped, NotesHaveReads DEF CommentsInv
    <3> QED
      BY <1>1, <1>3, <2>1, <2>2, <3>1 DEF CommentsInv, NotesTypeOK, ReadsTyped
  <2>5. RequestFits(p)'
    BY <2>1, <2>3 DEF CommentsInv, RequestFits, Working
  <2> QED
    BY <2>2, <2>4, <2>5 DEF StepFits
<1>4. CASE review # reviewRead[p] /\ attempt[p] = 1
  <2>1. review' = review /\ stored' = stored /\ chain' = chain /\ verdict' = verdict
    BY <1>4
  <2>2. stepOf'[p] = "read" /\ attempt'[p] = 2 /\ touchedSince' = touchedSince
    BY <1>4 DEF CommentsInv, NotesTypeOK
  <2>3. NotesTypeOK'
    <3>1. /\ stepOf' = [stepOf EXCEPT ![p] = "read"] /\ attempt' = [attempt EXCEPT ![p] = 2]
          /\ UNCHANGED <<review, stored, verdict, sourceNow, job, atLine, sourceRead, reviewRead, touches, sourceEdits, touchedSince>>
      BY <1>4
    <3> HIDE DEF ChangeIsWritten
    <3> QED
      BY <1>1, <3>1 DEF CommentsInv, NotesTypeOK
  <2>4. touchedSince[p] \in Nat /\ touchedSince[p] >= 1
    BY <1>4 DEF CommentsInv, NotesTypeOK, RequestFits
  <2>5. RequestFits(p)'
    BY <1>2, <2>1, <2>2, <2>4 DEF CommentsInv, RequestFits, Working, HasTurn
  <2> QED
    BY <2>1, <2>3, <2>5 DEF StepFits, CommentsInv
<1>5. CASE review # reviewRead[p] /\ attempt[p] # 1
  <2>1. review' = review /\ stored' = stored
    BY <1>5
  <2>2. stepOf'[p] = "done" /\ verdict'[p] = "conflict" /\ touchedSince' = touchedSince
    BY <1>5 DEF CommentsInv, NotesTypeOK
  <2>3. NotesTypeOK'
    <3>1. ReadsTyped'
      BY <1>5, ForgettingIsTyped, NotesHaveReads DEF CommentsInv
    <3> QED
      BY <1>1, <1>5, <2>1, <3>1 DEF CommentsInv, NotesTypeOK, ReadsTyped
  <2>4. attempt[p] = 2 /\ touchedSince[p] >= 2 /\ p \notin stored
    BY <1>5 DEF CommentsInv, NotesTypeOK, RequestFits
  <2>5. RequestFits(p)'
    BY <2>1, <2>2, <2>4 DEF CommentsInv, RequestFits, Working
  <2> QED
    BY <2>1, <2>3, <2>5 DEF StepFits, CommentsInv
<1> QED
  BY <1>3, <1>4, <1>5

LEMMA LossFits ==
  ASSUME CommentsInv, NEW p \in Page, WriteIsLost(p)
  PROVE  StepFits(p)
<1> USE DEF WriteIsLost, GoesTo
<1>1. chain' \in Seq(Page)
  BY ChainStays DEF InTurn
<1>2. stepOf'[p] = "done" /\ verdict'[p] = "error"
  BY DEF CommentsInv, NotesTypeOK
<1>3. /\ IsReview(review') /\ LinesIn(review') \subseteq SourceLine
      /\ CommentsIn(review') \subseteq Comment /\ stored' \subseteq Page
      /\ \A c \in CommentsIn(review') : c \in stored' \/ c = ByAgent
  <2>1. CASE UNCHANGED <<review, stored>>
    BY <2>1 DEF CommentsInv, NotesTypeOK
  <2>2. CASE review' = ChangedBy(p, review) /\ stored' = stored \cup {p}
    BY <2>2, ChangeFits DEF CommentsInv, NotesTypeOK
  <2> QED
    BY <2>1, <2>2
<1>4. NotesTypeOK'
  <2>1. ReadsTyped'
    BY ForgettingIsTyped, NotesHaveReads DEF CommentsInv
  <2> QED
    BY <1>1, <1>3, <2>1 DEF CommentsInv, NotesTypeOK, ReadsTyped
<1>5. RequestFits(p)'
  BY <1>2 DEF CommentsInv, NotesTypeOK, RequestFits, Working
<1> QED
  BY <1>3, <1>4, <1>5 DEF StepFits

LEMMA CheckReadsFits ==
  ASSUME CommentsInv, NEW p \in Page, CheckReads(p)
  PROVE  StepFits(p)
<1> USE DEF CheckReads, GoesTo
<1>1. NotesTypeOK'
  BY DEF CommentsInv, NotesTypeOK
<1>2. HasTurn(p)
  BY InTurnIs DEF InTurn
<1>3. RequestFits(p)'
  BY <1>2 DEF CommentsInv, NotesTypeOK, RequestFits, Working, HasTurn
<1> QED
  BY <1>1, <1>3 DEF StepFits, CommentsInv

LEMMA CheckEndsFits ==
  ASSUME CommentsInv, NEW p \in Page, CheckEnds(p)
  PROVE  StepFits(p) /\ CommentsIn(review') = CommentsIn(review)
<1> USE DEF CheckEnds, GoesTo
<1>1. chain' \in Seq(Page)
  BY ChainStays DEF InTurn
<1>2. \/ review' = review
      \/ \E src, f, gone : IsPlacement(f, review, src) /\ review' = Drifted(review, src, f, gone)
  OBVIOUS
<1>3. IsReview(review') /\ LinesIn(review') \subseteq SourceLine /\ CommentsIn(review') = CommentsIn(review)
  BY <1>2, DriftedIs DEF CommentsInv, NotesTypeOK
<1>4. NotesTypeOK'
  <2>1. ReadsTyped'
    BY ForgettingIsTyped, NotesHaveReads DEF CommentsInv
  <2> QED
    BY <1>1, <1>3, <2>1 DEF CommentsInv, NotesTypeOK, ReadsTyped
<1>5. stepOf'[p] = "done" /\ verdict'[p] = "ok"
  BY DEF CommentsInv, NotesTypeOK
<1>6. RequestFits(p)'
  BY <1>5 DEF CommentsInv, RequestFits, Working
<1> QED
  BY <1>3, <1>4, <1>6 DEF StepFits, CommentsInv

LEMMA TurnsKeepComments ==
  ASSUME CommentsInv, NEW p \in Page, InTurn(p)
  PROVE  CommentsInv'
<1>1. StepFits(p)
  BY DeleteFits, ReadFits, WriteFits, LossFits, CheckReadsFits, CheckEndsFits DEF InTurn
<1>2. \A q \in Page : q # p => RequestFits(q)'
  BY OthersStay
<1> QED
  BY <1>1, <1>2 DEF StepFits, CommentsInv

LEMMA CommentsKept ==
  ASSUME CommentsInv, [CommentsNext]_commentVars
  PROVE  CommentsInv'
<1>1. CASE UNCHANGED commentVars
  BY <1>1 DEF commentVars, jobVars, CommentsInv, NotesTypeOK, RequestFits, Working, HasTurn
<1>2. CASE AgentTouchesReview \/ AgentEditsSource
  BY <1>2, AgentKeepsComments
<1>3. ASSUME NEW p \in Page, SourceIsRead(p) \/ \E j \in Jobs : RequestIsMade(p, j) PROVE CommentsInv'
  BY <1>3, JoiningKeepsComments
<1>4. ASSUME NEW p \in Page, TurnBegins(p) PROVE CommentsInv'
  BY <1>4, TurnBeginsKeepsComments
<1>5. ASSUME NEW p \in Page, InTurn(p) PROVE CommentsInv'
  BY <1>5, TurnsKeepComments
<1> QED
  BY <1>1, <1>2, <1>3, <1>4, <1>5 DEF CommentsNext, InTurn

\* A change takes what is on its line, which the request has read there, and nothing else.
LEMMA ChangeTakesItsLine ==
  ASSUME CommentsInv, NEW p \in Page, stepOf[p] = "write", review = reviewRead[p],
         review' = ChangedBy(p, review), stored' = stored \cup {p}
  PROVE  CommentGoesOnPurpose /\ OtherLinesStay
<1>1. job[p] \in {"set", "delete"} /\ p \in stored' \ stored /\ stored' \ stored = {p}
  BY DEF CommentsInv, RequestFits
<1>2. /\ LinesIn(review') \subseteq LinesIn(review) \cup {atLine[p]}
      /\ \A m \in LinesIn(review) \ {atLine[p]} : m \in LinesIn(review') /\ review'.comments[m] = review.comments[m]
  BY <1>1, ChangedIs DEF CommentsInv, NotesTypeOK
<1>3. \A c \in CommentsIn(review) \ CommentsIn(review') : IsOn(c, atLine[p])
  <2> DEFINE new == review'
  <2>1. /\ LinesIn(new) \subseteq LinesIn(review) \cup {atLine[p]}
        /\ \A m \in LinesIn(review) \ {atLine[p]} : m \in LinesIn(new) /\ new.comments[m] = review.comments[m]
    BY <1>2
  <2> HIDE DEF new
  <2>2. \A c \in CommentsIn(review) \ CommentsIn(new) : IsOn(c, atLine[p])
    BY <2>1, OneLineChanges DEF IsOn
  <2>3. CommentsIn(review') = CommentsIn(new)
    BY DEF new, CommentsIn, LinesIn
  <2> QED
    BY <2>2, <2>3
<1>4. CommentGoesOnPurpose
  BY <1>1, <1>3 DEF CommentGoesOnPurpose
<1>5. OtherLinesStay
  BY <1>1, <1>2 DEF OtherLinesStay
<1> QED
  BY <1>4, <1>5

LEMMA CommentsGoOnPurpose ==
  ASSUME CommentsInv, [CommentsNext]_commentVars
  PROVE  CommentGoesOnPurpose /\ OtherLinesStay
<1> USE DEF OtherLinesStay
<1>1. CASE review' = review
  BY <1>1 DEF CommentGoesOnPurpose
<1>2. CASE AgentTouchesReview
  BY <1>2 DEF AgentTouchesReview, CommentGoesOnPurpose, CommentsInv, NotesTypeOK
<1>3. ASSUME NEW p \in Page, ReviewIsDeleted(p) PROVE CommentGoesOnPurpose /\ OtherLinesStay
  <2>1. job[p] = "deleteReview" /\ verdict'[p] = "ok" /\ verdict[p] = "none"
    BY <1>3 DEF ReviewIsDeleted, CommentsInv, NotesTypeOK, RequestFits
  <2> QED
    BY <1>3, <2>1 DEF CommentGoesOnPurpose, ReviewIsDeleted
<1>4. ASSUME NEW p \in Page, ChangeIsWritten(p), review' # review PROVE CommentGoesOnPurpose /\ OtherLinesStay
  BY <1>4, ChangeTakesItsLine DEF ChangeIsWritten
<1>5. ASSUME NEW p \in Page, WriteIsLost(p), review' # review PROVE CommentGoesOnPurpose /\ OtherLinesStay
  BY <1>5, ChangeTakesItsLine DEF WriteIsLost
<1>6. ASSUME NEW p \in Page, CheckEnds(p) PROVE CommentGoesOnPurpose /\ OtherLinesStay
  BY <1>6, CheckEndsFits DEF CommentGoesOnPurpose, CheckEnds
<1>7. review' # review =>
        \/ AgentTouchesReview
        \/ \E p \in Page : ReviewIsDeleted(p) \/ ChangeIsWritten(p) \/ WriteIsLost(p) \/ CheckEnds(p)
  BY DEF CommentsNext, commentVars, AgentEditsSource, RequestIsMade, SourceIsRead, TurnBegins, ReviewIsRead, CheckReads
<1> QED
  BY <1>1, <1>2, <1>3, <1>4, <1>5, <1>6, <1>7

\* For any requests, edits of the agent and lost writes: a page is told that its comment is
\* saved only when it was, and of a conflict only when nothing was and the agent wrote twice
\* in its turn; and a comment goes only when the agent takes it, the review is deleted, or a
\* request is applied to the line that it is on, as that request has read it in its turn.
THEOREM CommentsAreAlwaysKept == CommentsSpec => CommentsAreKept
<1>1. CommentsInit => CommentsInv
  BY CommentsStart
<1>2. CommentsInv /\ [CommentsNext]_commentVars => CommentsInv'
  BY CommentsKept
<1>3. CommentsInv => CommentsTypeOK
  <2> SUFFICES ASSUME CommentsInv PROVE CommentsTypeOK
    OBVIOUS
  <2>1. \A i \in DOMAIN chain : chain[i] \in Page
    BY DEF CommentsInv, NotesTypeOK
  <2> QED
    BY <2>1 DEF CommentsInv, NotesTypeOK, CommentsTypeOK
<1>4. CommentsInv =>
        \A p \in Page :
          /\ verdict[p] = "ok" /\ job[p] = "set" => p \in stored
          /\ verdict[p] = "conflict" => p \notin stored /\ touchedSince[p] >= 2
  BY DEF CommentsInv, RequestFits
<1>5. CommentsInv /\ [CommentsNext]_commentVars => CommentGoesOnPurpose /\ OtherLinesStay
  BY CommentsGoOnPurpose
<1>6. CommentsInv /\ [CommentsNext]_commentVars => [CommentGoesOnPurpose /\ OtherLinesStay]_commentVars
  BY <1>5
<1> QED
  BY <1>1, <1>2, <1>3, <1>4, <1>6, PTL DEF CommentsSpec, CommentsAreKept

(***************************************************************************)
(* The snapshots of a review.  The take that requests join is of now: it   *)
(* has read the base of the row, and files with every save that was        *)
(* answered, because each change of either drops it.  A take that was      *)
(* dropped can still answer those that had joined it, so what it has read  *)
(* is of a moment since each of them began.                                *)
(***************************************************************************)

HasRead(t) == takeStep[t] \in {"reads", "describes", "over"}
HasReadFiles(t) == takeStep[t] \in {"describes", "over"}

TakesAreNumbered ==
  /\ takes \in 0..MaxTakes
  /\ \A t \in TakeId : t > takes => takeStep[t] = "free"
  /\ fileChanges = wsFiles /\ saved \in 0..wsFiles

TakeIsOfNow ==
  taking # NoTake =>
    /\ takeStep[taking] \in {"discovers", "reads", "describes"}
    /\ HasRead(taking) => taken[taking].base = baseRev
    /\ HasReadFiles(taking) => taken[taking].files >= saved

RequestIsOfNow(r) ==
  /\ savedBefore[r] \in 0..saved
  /\ readerStep[r] # "new" => baseRev \in basesSince[r]
  /\ readerStep[r] \in {"new", "writes", "wrote", "asks", "joins"} => seen[r] = NoSnapshot
  /\ readerStep[r] = "joins" =>
       /\ joined[r] \in 1..takes
       /\ HasRead(joined[r]) => taken[joined[r]].base \in basesSince[r]
       /\ HasReadFiles(joined[r]) => taken[joined[r]].files >= savedBefore[r]

SnapshotShape ==
  /\ seen \in [Reader -> Snapshot \cup {NoSnapshot}] /\ savedBefore \in [Reader -> Nat]
  /\ basesSince = [r \in Reader |-> basesSince[r]]

SnapshotsInv ==
  /\ SnapshotsTypeOK /\ SnapshotShape /\ TakesAreNumbered /\ TakeIsOfNow
  /\ HeldSnapshotIsOfNow /\ \A r \in Reader : RequestIsOfNow(r)
  /\ AnswersAreOfNow

\* The invariant in two parts: the types with the counters, and what is of now.
SnapshotsTyped == SnapshotsTypeOK /\ SnapshotShape /\ TakesAreNumbered
AllIsOfNow == TakeIsOfNow /\ HeldSnapshotIsOfNow /\ (\A r \in Reader : RequestIsOfNow(r)) /\ AnswersAreOfNow

LEMMA SnapshotTypes ==
  /\ NoSnapshot \notin Snapshot
  /\ \A s \in Snapshot : s.base \in Bases /\ s.files \in 0..MaxFileChanges
  /\ HeadRev \in Bases /\ MaxTakes \in Nat /\ MaxFileChanges \in Nat
  BY SnapshotAssumption DEF NoSnapshot, Snapshot, Bases

LEMMA SnapshotsBegin == SnapshotsInit => SnapshotsInv
<1> SUFFICES ASSUME SnapshotsInit PROVE SnapshotsInv
  OBVIOUS
<1> USE SnapshotTypes DEF SnapshotsInit
<1>1. SnapshotsTypeOK
  <2>1. [base |-> HeadRev, files |-> 0] \in Snapshot
    BY DEF Snapshot
  <2>2. taken \in [TakeId -> Snapshot]
    BY <2>1
  <2>3. takeStep \in [TakeId -> {"free", "discovers", "reads", "describes", "over", "failed"}]
    OBVIOUS
  <2>4. /\ what \in [Reader -> Looking \cup {"setBase", "save", "none"}]
        /\ readerStep \in [Reader -> {"new", "writes", "wrote", "asks", "joins", "has", "resolves", "done", "error"}]
    OBVIOUS
  <2>5. joined \in [Reader -> TakeId \cup {NoTake}]
    OBVIOUS
  <2>6. baseRev \in Bases /\ wsFiles \in 0..MaxFileChanges
    OBVIOUS
  <2>7. held \in Snapshot \cup {NoSnapshot} /\ old \in BOOLEAN /\ taking \in TakeId \cup {NoTake}
    OBVIOUS
  <2> HIDE DEF SnapshotsInit
  <2> QED
    BY <2>2, <2>3, <2>4, <2>5, <2>6, <2>7 DEF SnapshotsTypeOK
<1>2. SnapshotShape /\ TakesAreNumbered
  BY DEF SnapshotShape, TakesAreNumbered, TakeId
<1>3. TakeIsOfNow /\ HeldSnapshotIsOfNow /\ AnswersAreOfNow
  BY DEF TakeIsOfNow, HeldSnapshotIsOfNow, AnswersAreOfNow
<1>4. \A r \in Reader : RequestIsOfNow(r)
  BY DEF RequestIsOfNow
<1> QED
  BY <1>1, <1>2, <1>3, <1>4 DEF SnapshotsInv

LEMMA TakeReadsBaseIsOfNow ==
  ASSUME SnapshotsInv, NEW t \in TakeId, TakeReadsBase(t)
  PROVE  SnapshotsInv'
<1> USE SnapshotTypes DEF TakeReadsBase, sharedVars, takeVars, readerVars, SnapshotsInv
<1>1. SnapshotsTypeOK'
  BY DEF SnapshotsTypeOK, TakesAreNumbered, SnapshotShape, RequestIsOfNow, TakeId, NoTake, Snapshot, Looking
<1>2. SnapshotShape' /\ TakesAreNumbered'
  BY DEF SnapshotsTypeOK, SnapshotShape, TakesAreNumbered, RequestIsOfNow, TakeId, NoTake
<1>3. TakeIsOfNow'
  BY DEF SnapshotsTypeOK, TakesAreNumbered, TakeIsOfNow, HasRead, HasReadFiles, TakeId, NoTake
<1>4. HeldSnapshotIsOfNow'
  BY DEF SnapshotsTypeOK, TakesAreNumbered, TakeIsOfNow, HeldSnapshotIsOfNow, HasRead, HasReadFiles, TakeId, NoTake
<1>5. ASSUME NEW r \in Reader PROVE RequestIsOfNow(r)'
  BY <1>5 DEF SnapshotsTypeOK, SnapshotShape, TakesAreNumbered, TakeIsOfNow, RequestIsOfNow, HasRead, HasReadFiles, TakeId, NoTake
<1>6. AnswersAreOfNow'
  BY DEF SnapshotsTypeOK, SnapshotShape, TakesAreNumbered, HeldSnapshotIsOfNow, AnswersAreOfNow, RequestIsOfNow, HasRead, HasReadFiles, TakeId
<1> QED
  BY <1>1, <1>2, <1>3, <1>4, <1>5, <1>6

LEMMA TakeReadsFilesIsOfNow ==
  ASSUME SnapshotsInv, NEW t \in TakeId, TakeReadsFiles(t)
  PROVE  SnapshotsInv'
<1> USE SnapshotTypes DEF TakeReadsFiles, sharedVars, takeVars, readerVars, SnapshotsInv
<1>1. SnapshotsTypeOK'
  BY DEF SnapshotsTypeOK, TakesAreNumbered, SnapshotShape, RequestIsOfNow, TakeId, NoTake, Snapshot, Looking
<1>2. SnapshotShape' /\ TakesAreNumbered'
  BY DEF SnapshotsTypeOK, SnapshotShape, TakesAreNumbered, RequestIsOfNow, TakeId, NoTake
<1>3. TakeIsOfNow'
  BY DEF SnapshotsTypeOK, TakesAreNumbered, TakeIsOfNow, HasRead, HasReadFiles, TakeId, NoTake
<1>4. HeldSnapshotIsOfNow'
  BY DEF SnapshotsTypeOK, TakesAreNumbered, TakeIsOfNow, HeldSnapshotIsOfNow, HasRead, HasReadFiles, TakeId, NoTake
<1>5. ASSUME NEW r \in Reader PROVE RequestIsOfNow(r)'
  BY <1>5 DEF SnapshotsTypeOK, SnapshotShape, TakesAreNumbered, TakeIsOfNow, RequestIsOfNow, HasRead, HasReadFiles, TakeId, NoTake
<1>6. AnswersAreOfNow'
  BY DEF SnapshotsTypeOK, SnapshotShape, TakesAreNumbered, HeldSnapshotIsOfNow, AnswersAreOfNow, RequestIsOfNow, HasRead, HasReadFiles, TakeId
<1> QED
  BY <1>1, <1>2, <1>3, <1>4, <1>5, <1>6

LEMMA TakeEndsIsOfNow ==
  ASSUME SnapshotsInv, NEW t \in TakeId, TakeEnds(t)
  PROVE  SnapshotsInv'
<1> USE SnapshotTypes DEF TakeEnds, sharedVars, takeVars, readerVars, SnapshotsInv
<1>1. SnapshotsTypeOK'
  <2>1. taken[t] \in Snapshot
    BY DEF SnapshotsTypeOK
  <2>2. held' \in Snapshot \cup {NoSnapshot}
    BY <2>1 DEF SnapshotsTypeOK
  <2>3. old' \in BOOLEAN /\ taking' \in TakeId \cup {NoTake}
    BY DEF SnapshotsTypeOK
  <2>4. takeStep' \in [TakeId -> {"free", "discovers", "reads", "describes", "over", "failed"}]
    BY DEF SnapshotsTypeOK
  <2> QED
    BY <2>2, <2>3, <2>4 DEF SnapshotsTypeOK
<1>2. SnapshotShape' /\ TakesAreNumbered'
  BY DEF SnapshotsTypeOK, SnapshotShape, TakesAreNumbered, RequestIsOfNow, TakeId, NoTake
<1>3. TakeIsOfNow'
  BY DEF SnapshotsTypeOK, TakesAreNumbered, TakeIsOfNow, HasRead, HasReadFiles, TakeId, NoTake
<1>4. HeldSnapshotIsOfNow'
  BY DEF SnapshotsTypeOK, TakesAreNumbered, TakeIsOfNow, HeldSnapshotIsOfNow, HasRead, HasReadFiles, TakeId, NoTake
<1>5. ASSUME NEW r \in Reader PROVE RequestIsOfNow(r)'
  BY <1>5 DEF SnapshotsTypeOK, SnapshotShape, TakesAreNumbered, TakeIsOfNow, RequestIsOfNow, HasRead, HasReadFiles, TakeId, NoTake
<1>6. AnswersAreOfNow'
  BY DEF SnapshotsTypeOK, SnapshotShape, TakesAreNumbered, HeldSnapshotIsOfNow, AnswersAreOfNow, RequestIsOfNow, HasRead, HasReadFiles, TakeId
<1> QED
  BY <1>1, <1>2, <1>3, <1>4, <1>5, <1>6

LEMMA TakeFailsIsOfNow ==
  ASSUME SnapshotsInv, NEW t \in TakeId, TakeFails(t)
  PROVE  SnapshotsInv'
<1> USE SnapshotTypes DEF TakeFails, sharedVars, takeVars, readerVars, SnapshotsInv
<1>1. SnapshotsTypeOK'
  BY DEF SnapshotsTypeOK, TakesAreNumbered, SnapshotShape, RequestIsOfNow, TakeId, NoTake, Snapshot, Looking
<1>2. SnapshotShape' /\ TakesAreNumbered'
  BY DEF SnapshotsTypeOK, SnapshotShape, TakesAreNumbered, RequestIsOfNow, TakeId, NoTake
<1>3. TakeIsOfNow'
  BY DEF SnapshotsTypeOK, TakesAreNumbered, TakeIsOfNow, HasRead, HasReadFiles, TakeId, NoTake
<1>4. HeldSnapshotIsOfNow'
  BY DEF SnapshotsTypeOK, TakesAreNumbered, TakeIsOfNow, HeldSnapshotIsOfNow, HasRead, HasReadFiles, TakeId, NoTake
<1>5. ASSUME NEW r \in Reader PROVE RequestIsOfNow(r)'
  BY <1>5 DEF SnapshotsTypeOK, SnapshotShape, TakesAreNumbered, TakeIsOfNow, RequestIsOfNow, HasRead, HasReadFiles, TakeId, NoTake
<1>6. AnswersAreOfNow'
  BY DEF SnapshotsTypeOK, SnapshotShape, TakesAreNumbered, HeldSnapshotIsOfNow, AnswersAreOfNow, RequestIsOfNow, HasRead, HasReadFiles, TakeId
<1> QED
  BY <1>1, <1>2, <1>3, <1>4, <1>5, <1>6

LEMMA SnapshotAgesIsOfNow ==
  ASSUME SnapshotsInv, SnapshotAges
  PROVE  SnapshotsInv'
<1> USE SnapshotTypes DEF SnapshotAges, sharedVars, takeVars, readerVars, SnapshotsInv
<1>1. SnapshotsTypeOK'
  BY DEF SnapshotsTypeOK, TakesAreNumbered, SnapshotShape, RequestIsOfNow, TakeId, NoTake, Snapshot, Looking
<1>2. SnapshotShape' /\ TakesAreNumbered'
  BY DEF SnapshotsTypeOK, SnapshotShape, TakesAreNumbered, RequestIsOfNow, TakeId, NoTake
<1>3. TakeIsOfNow'
  BY DEF SnapshotsTypeOK, TakesAreNumbered, TakeIsOfNow, HasRead, HasReadFiles, TakeId, NoTake
<1>4. HeldSnapshotIsOfNow'
  BY DEF SnapshotsTypeOK, TakesAreNumbered, TakeIsOfNow, HeldSnapshotIsOfNow, HasRead, HasReadFiles, TakeId, NoTake
<1>5. ASSUME NEW r \in Reader PROVE RequestIsOfNow(r)'
  BY <1>5 DEF SnapshotsTypeOK, SnapshotShape, TakesAreNumbered, TakeIsOfNow, RequestIsOfNow, HasRead, HasReadFiles, TakeId, NoTake
<1>6. AnswersAreOfNow'
  BY DEF SnapshotsTypeOK, SnapshotShape, TakesAreNumbered, HeldSnapshotIsOfNow, AnswersAreOfNow, RequestIsOfNow, HasRead, HasReadFiles, TakeId
<1> QED
  BY <1>1, <1>2, <1>3, <1>4, <1>5, <1>6

LEMMA AgentChangesFilesIsOfNow ==
  ASSUME SnapshotsInv, AgentChangesFiles
  PROVE  SnapshotsInv'
<1> USE SnapshotTypes DEF AgentChangesFiles, sharedVars, takeVars, readerVars, SnapshotsInv
<1>1. SnapshotsTypeOK'
  BY DEF SnapshotsTypeOK, TakesAreNumbered, SnapshotShape, RequestIsOfNow, TakeId, NoTake, Snapshot, Looking
<1>2. SnapshotShape' /\ TakesAreNumbered'
  BY DEF SnapshotsTypeOK, SnapshotShape, TakesAreNumbered, RequestIsOfNow, TakeId, NoTake
<1>3. TakeIsOfNow'
  BY DEF SnapshotsTypeOK, TakesAreNumbered, TakeIsOfNow, HasRead, HasReadFiles, TakeId, NoTake
<1>4. HeldSnapshotIsOfNow'
  BY DEF SnapshotsTypeOK, TakesAreNumbered, TakeIsOfNow, HeldSnapshotIsOfNow, HasRead, HasReadFiles, TakeId, NoTake
<1>5. ASSUME NEW r \in Reader PROVE RequestIsOfNow(r)'
  BY <1>5 DEF SnapshotsTypeOK, SnapshotShape, TakesAreNumbered, TakeIsOfNow, RequestIsOfNow, HasRead, HasReadFiles, TakeId, NoTake
<1>6. AnswersAreOfNow'
  BY DEF SnapshotsTypeOK, SnapshotShape, TakesAreNumbered, HeldSnapshotIsOfNow, AnswersAreOfNow, RequestIsOfNow, HasRead, HasReadFiles, TakeId
<1> QED
  BY <1>1, <1>2, <1>3, <1>4, <1>5, <1>6

LEMMA ReaderBeginsIsOfNow ==
  ASSUME SnapshotsInv, NEW q \in Reader, NEW w \in Looking \cup {"setBase", "save"}, ReaderBegins(q, w)
  PROVE  SnapshotsInv'
<1> USE SnapshotTypes DEF ReaderBegins, sharedVars, takeVars, readerVars, SnapshotsInv
<1>1. SnapshotsTypeOK'
  BY DEF SnapshotsTypeOK, TakesAreNumbered, SnapshotShape, RequestIsOfNow, TakeId, NoTake, Snapshot, Looking
<1>2. SnapshotShape' /\ TakesAreNumbered'
  <2>1. saved \in Nat
    BY DEF TakesAreNumbered, SnapshotsTypeOK
  <2>2. savedBefore' \in [Reader -> Nat]
    BY <2>1 DEF SnapshotShape
  <2>3. basesSince' = [r \in Reader |-> basesSince'[r]]
    BY DEF SnapshotShape
  <2>4. SnapshotShape'
    BY <2>2, <2>3 DEF SnapshotShape
  <2> QED
    BY <2>4 DEF TakesAreNumbered
<1>3. TakeIsOfNow'
  BY DEF SnapshotsTypeOK, TakesAreNumbered, TakeIsOfNow, HasRead, HasReadFiles, TakeId, NoTake
<1>4. HeldSnapshotIsOfNow'
  BY DEF SnapshotsTypeOK, TakesAreNumbered, TakeIsOfNow, HeldSnapshotIsOfNow, HasRead, HasReadFiles, TakeId, NoTake
<1>5. ASSUME NEW r \in Reader PROVE RequestIsOfNow(r)'
  BY <1>5 DEF SnapshotsTypeOK, SnapshotShape, TakesAreNumbered, TakeIsOfNow, RequestIsOfNow, HasRead, HasReadFiles, TakeId, NoTake
<1>6. AnswersAreOfNow'
  BY DEF SnapshotsTypeOK, SnapshotShape, TakesAreNumbered, HeldSnapshotIsOfNow, AnswersAreOfNow, RequestIsOfNow, HasRead, HasReadFiles, TakeId
<1> QED
  BY <1>1, <1>2, <1>3, <1>4, <1>5, <1>6

LEMMA SnapshotIsAskedIsOfNow ==
  ASSUME SnapshotsInv, NEW q \in Reader, SnapshotIsAsked(q)
  PROVE  SnapshotsInv'
<1> USE SnapshotTypes DEF SnapshotIsAsked, ReaderGoesTo, TakeBegins, NoTakeBegins, sharedVars, takeVars, readerVars, SnapshotsInv
<1>1. SnapshotsTypeOK'
  <2>1. ASSUME TakeBegins
        PROVE  taking' \in TakeId /\ takeStep' \in [TakeId -> {"free", "discovers", "reads", "describes", "over", "failed"}]
    BY <2>1 DEF SnapshotsTypeOK, TakesAreNumbered, TakeId
  <2>2. taking' \in TakeId \cup {NoTake}
    BY <2>1 DEF SnapshotsTypeOK
  <2>3. takeStep' \in [TakeId -> {"free", "discovers", "reads", "describes", "over", "failed"}]
    BY <2>1 DEF SnapshotsTypeOK
  <2>4. joined' \in [Reader -> TakeId \cup {NoTake}]
    BY <2>2 DEF SnapshotsTypeOK
  <2>5. readerStep' \in [Reader -> {"new", "writes", "wrote", "asks", "joins", "has", "resolves", "done", "error"}]
    BY DEF SnapshotsTypeOK
  <2> QED
    BY <2>2, <2>3, <2>4, <2>5 DEF SnapshotsTypeOK
<1>2. SnapshotShape' /\ TakesAreNumbered'
  BY DEF SnapshotsTypeOK, SnapshotShape, TakesAreNumbered, RequestIsOfNow, TakeId, NoTake
<1>3. TakeIsOfNow'
  BY DEF SnapshotsTypeOK, TakesAreNumbered, TakeIsOfNow, HasRead, HasReadFiles, TakeId, NoTake
<1>4. HeldSnapshotIsOfNow'
  BY DEF SnapshotsTypeOK, TakesAreNumbered, TakeIsOfNow, HeldSnapshotIsOfNow, HasRead, HasReadFiles, TakeId, NoTake
<1>5. ASSUME NEW r \in Reader PROVE RequestIsOfNow(r)'
  <2> USE <1>5
  <2>1. /\ savedBefore'[r] \in 0..saved' /\ (readerStep'[r] # "new" => baseRev' \in basesSince'[r])
    BY DEF SnapshotsTypeOK, RequestIsOfNow
  <2>2. CASE readerStep'[r] # "joins"
    BY <2>1, <2>2 DEF SnapshotsTypeOK, SnapshotShape, RequestIsOfNow
  <2>3. CASE r = q /\ readerStep'[r] = "joins"
    <3>1. /\ joined'[r] = taking' /\ seen'[r] = NoSnapshot
      BY <2>3 DEF SnapshotsTypeOK, SnapshotShape, RequestIsOfNow
    <3>2. CASE TakeBegins
      <4>1. /\ taking' = takes + 1 /\ taking' \in TakeId /\ takeStep'[taking'] = "discovers" /\ taking' \in 1..takes'
        BY <3>2 DEF SnapshotsTypeOK, TakesAreNumbered, TakeId
      <4> QED
        BY <2>1, <3>1, <4>1 DEF RequestIsOfNow, HasRead, HasReadFiles
    <3>3. CASE NoTakeBegins /\ taking # NoTake
      <4>1. /\ taking' \in TakeId /\ takeStep[taking] # "free"
        BY <3>3 DEF SnapshotsTypeOK, TakeIsOfNow
      <4>2. taking' \in 1..takes'
        BY <3>3, <4>1 DEF TakesAreNumbered, TakeId
      <4>3. baseRev \in basesSince[r] /\ savedBefore[r] <= saved /\ saved \in Nat /\ savedBefore[r] \in Nat
        BY <2>3 DEF RequestIsOfNow, TakesAreNumbered, SnapshotsTypeOK
      <4>4. /\ HasRead(taking) => taken[taking].base \in basesSince[r]
            /\ HasReadFiles(taking) => taken[taking].files >= savedBefore[r]
        BY <3>3, <4>1, <4>3 DEF TakeIsOfNow, SnapshotsTypeOK
      <4> QED
        BY <2>1, <3>1, <3>3, <4>2, <4>4 DEF RequestIsOfNow, HasRead, HasReadFiles
    <3> QED
      BY <2>3, <3>2, <3>3 DEF SnapshotsTypeOK
  <2>4. CASE r # q /\ readerStep'[r] = "joins"
    <3>1. /\ joined'[r] = joined[r] /\ readerStep[r] = "joins" /\ seen'[r] = seen[r] /\ joined[r] \in 1..takes
      BY <2>4 DEF SnapshotsTypeOK, SnapshotShape, RequestIsOfNow
    <3>2. takes' \in Nat /\ takes <= takes' /\ takes \in Nat /\ takeStep'[joined[r]] = takeStep[joined[r]]
      BY <3>1 DEF SnapshotsTypeOK, TakesAreNumbered, TakeId
    <3> QED
      BY <2>1, <3>1, <3>2 DEF RequestIsOfNow, HasRead, HasReadFiles
  <2> QED
    BY <2>2, <2>3, <2>4
<1>6. AnswersAreOfNow'
  BY DEF SnapshotsTypeOK, SnapshotShape, TakesAreNumbered, HeldSnapshotIsOfNow, AnswersAreOfNow, RequestIsOfNow, HasRead, HasReadFiles, TakeId
<1> QED
  BY <1>1, <1>2, <1>3, <1>4, <1>5, <1>6

LEMMA JoinedTakeEndsIsOfNow ==
  ASSUME SnapshotsInv, NEW q \in Reader, JoinedTakeEnds(q)
  PROVE  SnapshotsInv'
<1> USE SnapshotTypes DEF JoinedTakeEnds, ReaderGoesTo, sharedVars, takeVars, readerVars, SnapshotsInv
<1>1. SnapshotsTypeOK'
  BY DEF SnapshotsTypeOK, TakesAreNumbered, SnapshotShape, RequestIsOfNow, TakeId, NoTake, Snapshot, Looking
<1>2. SnapshotShape' /\ TakesAreNumbered'
  <2>1. joined[q] \in TakeId
    BY DEF RequestIsOfNow, TakesAreNumbered, TakeId
  <2>2. taken[joined[q]] \in Snapshot
    BY <2>1 DEF SnapshotsTypeOK
  <2>3. seen' \in [Reader -> Snapshot \cup {NoSnapshot}]
    BY <2>2 DEF SnapshotShape
  <2> QED
    BY <2>3 DEF SnapshotShape, TakesAreNumbered
<1>3. TakeIsOfNow'
  BY DEF SnapshotsTypeOK, TakesAreNumbered, TakeIsOfNow, HasRead, HasReadFiles, TakeId, NoTake
<1>4. HeldSnapshotIsOfNow'
  BY DEF SnapshotsTypeOK, TakesAreNumbered, TakeIsOfNow, HeldSnapshotIsOfNow, HasRead, HasReadFiles, TakeId, NoTake
<1>5. ASSUME NEW r \in Reader PROVE RequestIsOfNow(r)'
  BY <1>5 DEF SnapshotsTypeOK, SnapshotShape, TakesAreNumbered, TakeIsOfNow, RequestIsOfNow, HasRead, HasReadFiles, TakeId, NoTake
<1>6. AnswersAreOfNow'
  BY DEF SnapshotsTypeOK, SnapshotShape, TakesAreNumbered, HeldSnapshotIsOfNow, AnswersAreOfNow, RequestIsOfNow, HasRead, HasReadFiles, TakeId
<1> QED
  BY <1>1, <1>2, <1>3, <1>4, <1>5, <1>6

LEMMA SnapshotIsUsedIsOfNow ==
  ASSUME SnapshotsInv, NEW q \in Reader, SnapshotIsUsed(q)
  PROVE  SnapshotsInv'
<1> USE SnapshotTypes DEF SnapshotIsUsed, ReaderGoesTo, sharedVars, takeVars, readerVars, SnapshotsInv
<1>1. SnapshotsTypeOK'
  BY DEF SnapshotsTypeOK, TakesAreNumbered, SnapshotShape, RequestIsOfNow, TakeId, NoTake, Snapshot, Looking
<1>2. SnapshotShape' /\ TakesAreNumbered'
  BY DEF SnapshotsTypeOK, SnapshotShape, TakesAreNumbered, RequestIsOfNow, TakeId, NoTake
<1>3. TakeIsOfNow'
  BY DEF SnapshotsTypeOK, TakesAreNumbered, TakeIsOfNow, HasRead, HasReadFiles, TakeId, NoTake
<1>4. HeldSnapshotIsOfNow'
  BY DEF SnapshotsTypeOK, TakesAreNumbered, TakeIsOfNow, HeldSnapshotIsOfNow, HasRead, HasReadFiles, TakeId, NoTake
<1>5. ASSUME NEW r \in Reader PROVE RequestIsOfNow(r)'
  BY <1>5 DEF SnapshotsTypeOK, SnapshotShape, TakesAreNumbered, TakeIsOfNow, RequestIsOfNow, HasRead, HasReadFiles, TakeId, NoTake
<1>6. AnswersAreOfNow'
  BY DEF SnapshotsTypeOK, SnapshotShape, TakesAreNumbered, HeldSnapshotIsOfNow, AnswersAreOfNow, RequestIsOfNow, HasRead, HasReadFiles, TakeId
<1> QED
  BY <1>1, <1>2, <1>3, <1>4, <1>5, <1>6

LEMMA BaseIsSetIsOfNow ==
  ASSUME SnapshotsInv, NEW q \in Reader, BaseIsSet(q)
  PROVE  SnapshotsInv'
<1> USE SnapshotTypes DEF BaseIsSet, ReaderGoesTo, Invalidates, sharedVars, takeVars, readerVars, SnapshotsInv
<1>1. SnapshotsTypeOK'
  BY DEF SnapshotsTypeOK, TakesAreNumbered, SnapshotShape, RequestIsOfNow, TakeId, NoTake, Snapshot, Looking
<1>2. SnapshotShape' /\ TakesAreNumbered'
  BY DEF SnapshotsTypeOK, SnapshotShape, TakesAreNumbered, RequestIsOfNow, TakeId, NoTake
<1>3. TakeIsOfNow'
  BY DEF SnapshotsTypeOK, TakesAreNumbered, TakeIsOfNow, HasRead, HasReadFiles, TakeId, NoTake
<1>4. HeldSnapshotIsOfNow'
  BY DEF SnapshotsTypeOK, TakesAreNumbered, TakeIsOfNow, HeldSnapshotIsOfNow, HasRead, HasReadFiles, TakeId, NoTake
<1>5. ASSUME NEW r \in Reader PROVE RequestIsOfNow(r)'
  BY <1>5 DEF SnapshotsTypeOK, SnapshotShape, TakesAreNumbered, TakeIsOfNow, RequestIsOfNow, HasRead, HasReadFiles, TakeId, NoTake
<1>6. AnswersAreOfNow'
  BY DEF SnapshotsTypeOK, SnapshotShape, TakesAreNumbered, HeldSnapshotIsOfNow, AnswersAreOfNow, RequestIsOfNow, HasRead, HasReadFiles, TakeId
<1> QED
  BY <1>1, <1>2, <1>3, <1>4, <1>5, <1>6

LEMMA FileIsSavedIsOfNow ==
  ASSUME SnapshotsInv, NEW q \in Reader, FileIsSaved(q)
  PROVE  SnapshotsInv'
<1> USE SnapshotTypes DEF FileIsSaved, ReaderGoesTo, sharedVars, takeVars, readerVars, SnapshotsInv
<1>1. SnapshotsTypeOK'
  BY DEF SnapshotsTypeOK, TakesAreNumbered, SnapshotShape, RequestIsOfNow, TakeId, NoTake, Snapshot, Looking
<1>2. SnapshotShape' /\ TakesAreNumbered'
  BY DEF SnapshotsTypeOK, SnapshotShape, TakesAreNumbered, RequestIsOfNow, TakeId, NoTake
<1>3. TakeIsOfNow'
  BY DEF SnapshotsTypeOK, TakesAreNumbered, TakeIsOfNow, HasRead, HasReadFiles, TakeId, NoTake
<1>4. HeldSnapshotIsOfNow'
  BY DEF SnapshotsTypeOK, TakesAreNumbered, TakeIsOfNow, HeldSnapshotIsOfNow, HasRead, HasReadFiles, TakeId, NoTake
<1>5. ASSUME NEW r \in Reader PROVE RequestIsOfNow(r)'
  BY <1>5 DEF SnapshotsTypeOK, SnapshotShape, TakesAreNumbered, TakeIsOfNow, RequestIsOfNow, HasRead, HasReadFiles, TakeId, NoTake
<1>6. AnswersAreOfNow'
  BY DEF SnapshotsTypeOK, SnapshotShape, TakesAreNumbered, HeldSnapshotIsOfNow, AnswersAreOfNow, RequestIsOfNow, HasRead, HasReadFiles, TakeId
<1> QED
  BY <1>1, <1>2, <1>3, <1>4, <1>5, <1>6

LEMMA SaveIsAnsweredIsOfNow ==
  ASSUME SnapshotsInv, NEW q \in Reader, SaveIsAnswered(q)
  PROVE  SnapshotsInv'
<1> USE SnapshotTypes DEF SaveIsAnswered, ReaderGoesTo, Invalidates, sharedVars, takeVars, readerVars, SnapshotsInv
<1>1. SnapshotsTypeOK'
  BY DEF SnapshotsTypeOK, TakesAreNumbered, SnapshotShape, RequestIsOfNow, TakeId, NoTake, Snapshot, Looking
<1>2. SnapshotShape' /\ TakesAreNumbered'
  BY DEF SnapshotsTypeOK, SnapshotShape, TakesAreNumbered, RequestIsOfNow, TakeId, NoTake
<1>3. TakeIsOfNow'
  BY DEF SnapshotsTypeOK, TakesAreNumbered, TakeIsOfNow, HasRead, HasReadFiles, TakeId, NoTake
<1>4. HeldSnapshotIsOfNow'
  BY DEF SnapshotsTypeOK, TakesAreNumbered, TakeIsOfNow, HeldSnapshotIsOfNow, HasRead, HasReadFiles, TakeId, NoTake
<1>5. ASSUME NEW r \in Reader PROVE RequestIsOfNow(r)'
  BY <1>5 DEF SnapshotsTypeOK, SnapshotShape, TakesAreNumbered, TakeIsOfNow, RequestIsOfNow, HasRead, HasReadFiles, TakeId, NoTake
<1>6. AnswersAreOfNow'
  BY DEF SnapshotsTypeOK, SnapshotShape, TakesAreNumbered, HeldSnapshotIsOfNow, AnswersAreOfNow, RequestIsOfNow, HasRead, HasReadFiles, TakeId
<1> QED
  BY <1>1, <1>2, <1>3, <1>4, <1>5, <1>6

\* The snapshot that requests share compares with the base of the row and shows every save
\* that was answered, and each request answers from a moment since it began
\* (ReviewService.snapshot, invalidate), for any requests, revisions and bounds.
THEOREM SnapshotsAreAlwaysOfNow == SnapshotsSpec => []SnapshotsAreOfNow
<1>1. ASSUME SnapshotsInv, [SnapshotsNext]_snapshotVars PROVE SnapshotsInv'
  <2>1. CASE UNCHANGED snapshotVars
    BY <1>1, <2>1 DEF snapshotVars, sharedVars, takeVars, readerVars, SnapshotsInv, SnapshotsTypeOK, SnapshotShape,
      TakesAreNumbered, TakeIsOfNow, HeldSnapshotIsOfNow, AnswersAreOfNow, RequestIsOfNow, HasRead, HasReadFiles
  <2>2. CASE SnapshotsNext
    BY <1>1, <2>2, SnapshotAgesIsOfNow, AgentChangesFilesIsOfNow, TakeReadsBaseIsOfNow, TakeReadsFilesIsOfNow,
      TakeEndsIsOfNow, TakeFailsIsOfNow, ReaderBeginsIsOfNow, SnapshotIsAskedIsOfNow, JoinedTakeEndsIsOfNow,
      SnapshotIsUsedIsOfNow, BaseIsSetIsOfNow, FileIsSavedIsOfNow, SaveIsAnsweredIsOfNow DEF SnapshotsNext
  <2> QED
    BY <1>1, <2>1, <2>2
<1>2. SnapshotsInv => SnapshotsAreOfNow
  BY DEF SnapshotsInv, SnapshotsAreOfNow
<1> QED
  BY <1>1, <1>2, SnapshotsBegin, PTL DEF SnapshotsSpec

(***************************************************************************)
(* The page of a review.  Until the reader is shown something of before a  *)
(* move, the path that the store wants is the one in the URL, so that of   *)
(* the answers of several loads only one for that path is shown; and each  *)
(* move that leaves another file in the pane has asked for the one of now. *)
(***************************************************************************)

PaneCallFields == {"kind", "box", "path", "then", "at", "mine", "line", "text", "hash", "prior", "notes", "count"}
PaneChains == {<<>>, <<"sub">>, <<"file">>, <<"sub", "file">>, <<"tree">>, <<"tree", "file">>}
ChainsWithFile == {<<"file">>, <<"sub", "file">>, <<"tree", "file">>}
FileCallKinds == {"file", "save", "hash", "note", "unnote"}

PaneFileIsWhole(f) ==
  f = [x \in {"box", "path", "text", "notes"} |-> f[x]] /\ f.box \in PaneBox /\ f.path # Nowhere

PaneCallIsWhole(c) ==
  /\ c = [x \in PaneCallFields |-> c[x]] /\ c.box \in PaneBox /\ c.then \in PaneChains
  /\ c.kind \in FileCallKinds \/ c.then \in ChainsWithFile => c.path # Nowhere

PaneIsWhole ==
  /\ pageBox \in PaneBox
  /\ \A c \in calls : PaneCallIsWhole(c)
  /\ \A p \in paints : PaneFileIsWhole(p.file)
  /\ file # NoPane => PaneFileIsWhole(file)
  /\ ~strayed => wantedPath = inUrl

PaneInv == PaneIsWhole /\ PaneShowsOpened

LEMMA PaneChainsGo ==
  /\ \A then \in PaneChains : then # <<>> =>
       /\ Head(then) \in {"sub", "file", "tree"} /\ Tail(then) \in PaneChains
       /\ Head(then) = "tree" => Tail(then) \in {<<>>, <<"file">>}
       /\ Head(then) = "file" => then \in ChainsWithFile
       /\ Tail(then) \in ChainsWithFile => then \in ChainsWithFile
  /\ <<>> \o <<>> = <<>> /\ <<"sub">> \o <<>> = <<"sub">>
  /\ <<>> \o <<"file">> = <<"file">> /\ <<"sub">> \o <<"file">> = <<"sub", "file">>
<1>1. /\ Head(<<"sub">>) = "sub" /\ Tail(<<"sub">>) = <<>>
      /\ Head(<<"file">>) = "file" /\ Tail(<<"file">>) = <<>>
      /\ Head(<<"tree">>) = "tree" /\ Tail(<<"tree">>) = <<>>
      /\ Head(<<"sub", "file">>) = "sub" /\ Tail(<<"sub", "file">>) = <<"file">>
      /\ Head(<<"tree", "file">>) = "tree" /\ Tail(<<"tree", "file">>) = <<"file">>
  OBVIOUS
<1>2. <<>> # <<"file">> /\ <<>> # <<"sub", "file">> /\ <<>> # <<"tree", "file">>
  OBVIOUS
<1>3. ASSUME NEW then \in PaneChains, then # <<>>
      PROVE  /\ Head(then) \in {"sub", "file", "tree"} /\ Tail(then) \in PaneChains
             /\ Head(then) = "tree" => Tail(then) \in {<<>>, <<"file">>}
             /\ Head(then) = "file" => then \in ChainsWithFile
             /\ Tail(then) \in ChainsWithFile => then \in ChainsWithFile
  BY <1>1, <1>2, <1>3 DEF PaneChains, ChainsWithFile
<1>4. \A x : <<x>> \in Seq({x}) /\ <<>> \in Seq({x})
  OBVIOUS
<1>5. <<>> \o <<>> = <<>> /\ <<"sub">> \o <<>> = <<"sub">> /\ <<>> \o <<"file">> = <<"file">>
  BY <1>4, ConcatEmptySeq
<1>6. <<"sub">> \o <<"file">> = <<"sub", "file">>
  <2>1. <<"sub">> \in Seq({"sub", "file"})
    OBVIOUS
  <2>2. <<"file">> \in Seq({"sub", "file"})
    OBVIOUS
  <2>3. PICK t : t = <<"sub">> \o <<"file">>
    OBVIOUS
  <2>4. Len(<<"sub">>) = 1 /\ Len(<<"file">>) = 1 /\ <<"sub">>[1] = "sub" /\ <<"file">>[1] = "file"
    OBVIOUS
  <2>5. t \in Seq({"sub", "file"}) /\ Len(t) = 2 /\ t[1] = "sub" /\ t[2] = "file"
    BY <2>1, <2>2, <2>3, <2>4, ConcatProperties
  <2>6. PICK u : u = <<"sub", "file">>
    OBVIOUS
  <2>7. u \in Seq({"sub", "file"}) /\ Len(u) = 2 /\ u[1] = "sub" /\ u[2] = "file"
    BY <2>6
  <2>8. t = u
    BY <2>5, <2>7, SeqEqual
  <2> QED
    BY <2>3, <2>6, <2>8
<1> QED
  BY <1>3, <1>5, <1>6

LEMMA PaneCallIsMade ==
  ASSUME NEW kind, NEW box \in PaneBox, NEW path, NEW then \in PaneChains,
         kind \in FileCallKinds \/ then \in ChainsWithFile => path # Nowhere
  PROVE  /\ PaneCallIsWhole(PaneCall(kind, box, path, then))
         /\ PaneCall(kind, box, path, then).kind = kind
         /\ PaneCall(kind, box, path, then).box = box
         /\ PaneCall(kind, box, path, then).path = path
         /\ PaneCall(kind, box, path, then).then = then
<1>1. PICK c : c = PaneCall(kind, box, path, then)
  OBVIOUS
<1>2. c.kind = kind /\ c.box = box /\ c.path = path /\ c.then = then
  BY <1>1 DEF PaneCall
<1>3. c = [x \in PaneCallFields |-> c[x]]
  BY <1>1 DEF PaneCall, PaneCallFields
<1> QED
  BY <1>1, <1>2, <1>3 DEF PaneCallIsWhole

LEMMA SamePaneCall ==
  ASSUME NEW c, PaneCallIsWhole(c), NEW d, d = [x \in PaneCallFields |-> d[x]],
         d.kind = c.kind, d.box = c.box, d.path = c.path, d.then = c.then
  PROVE  PaneCallIsWhole(d)
  BY DEF PaneCallIsWhole

LEMMA TreeLoadIsWhole ==
  ASSUME NEW then \in {<<>>, <<"file">>}, pageBox' \in PaneBox, NEW path, then = <<"file">> => path # Nowhere
  PROVE  /\ PaneCallIsWhole([TreeLoad(then) EXCEPT !.path = path])
         /\ then = <<>> => PaneCallIsWhole(TreeLoad(then))
<1>1. PICK awaited : awaited = (IF listing'.open THEN <<"sub">> ELSE <<>>) \o then
  OBVIOUS
<1>2. awaited \in PaneChains /\ (then = <<>> => awaited \notin ChainsWithFile)
  <2>1. awaited \in {<<>>, <<"sub">>, <<"file">>, <<"sub", "file">>} /\ (then = <<>> => awaited \in {<<>>, <<"sub">>})
    BY <1>1, PaneChainsGo
  <2>2. \A x \in {<<>>, <<"sub">>} : x \notin ChainsWithFile
    BY DEF ChainsWithFile
  <2> QED
    BY <2>1, <2>2 DEF PaneChains
<1>3. PICK c : c = PaneCall("root", pageBox', Nowhere, awaited)
  OBVIOUS
<1>4. /\ c = [x \in PaneCallFields |-> c[x]] /\ c.kind = "root" /\ c.box = pageBox' /\ c.then = awaited
  <2>1. PICK b : b = pageBox'
    OBVIOUS
  <2>2. c = PaneCall("root", b, Nowhere, awaited)
    BY <1>3, <2>1
  <2> QED
    BY <2>1, <2>2 DEF PaneCall, PaneCallFields
<1>5. PaneCallIsWhole([c EXCEPT !.path = path])
  <2>1. PICK d : d = [c EXCEPT !.path = path]
    OBVIOUS
  <2>2. d = [x \in PaneCallFields |-> IF x = "path" THEN path ELSE c[x]]
    BY <1>4, <2>1
  <2>3. d = [x \in PaneCallFields |-> d[x]] /\ d.kind = "root" /\ d.box = pageBox' /\ d.then = awaited /\ d.path = path
    BY <1>4, <2>2 DEF PaneCallFields
  <2> QED
    BY <1>2, <2>1, <2>3 DEF PaneCallIsWhole, FileCallKinds, PaneChains, ChainsWithFile
<1>6. ASSUME then = <<>> PROVE PaneCallIsWhole(TreeLoad(then))
  <2>1. TreeLoad(then) = PaneCall("root", pageBox', Nowhere, awaited)
    BY <1>1 DEF TreeLoad
  <2> QED
    BY <1>2, <1>6, <2>1, PaneCallIsMade DEF FileCallKinds
<1>7. TreeLoad(then) = c
  BY <1>1, <1>3 DEF TreeLoad
<1> QED
  BY <1>5, <1>6, <1>7

\* A step that leaves the reader where he is, with the file in the pane.
LEMMA PaneStaysOpened ==
  ASSUME PaneInv, ~strayed, pageBox' = pageBox, inUrl' = inUrl,
         file' # NoPane /\ ~strayed' => file # NoPane /\ file'.box = file.box /\ file'.path = file.path,
         \A c \in calls : c.kind = "file" => \E d \in calls' : d.kind = "file" /\ d.box = c.box /\ d.path = c.path
  PROVE  PaneShowsOpened'
  BY DEF PaneInv, PaneShowsOpened, Place

\* What the server makes of a call is the same call in what an answer is for.
IsSameCall(c, d) ==
  /\ d = [x \in PaneCallFields |-> d[x]]
  /\ d.kind = c.kind /\ d.box = c.box /\ d.path = c.path /\ d.then = c.then

LEMMA SamePaneFlight ==
  ASSUME NEW c, PaneCallIsWhole(c), NEW at, NEW t, NEW n, NEW h, NEW k
  PROVE  /\ IsSameCall(c, [c EXCEPT !.at = at])
         /\ IsSameCall(c, [c EXCEPT !.mine = at])
         /\ IsSameCall(c, [c EXCEPT !.at = at, !.notes = n])
         /\ IsSameCall(c, [c EXCEPT !.at = at, !.text = t, !.notes = n])
         /\ IsSameCall(c, [c EXCEPT !.at = at, !.hash = h])
         /\ IsSameCall(c, [c EXCEPT !.at = at, !.count = k])
<1> USE DEF IsSameCall, PaneCallFields
<1>1. c = [x \in PaneCallFields |-> c[x]]
  BY DEF PaneCallIsWhole
<1>2. IsSameCall(c, [c EXCEPT !.at = at]) /\ IsSameCall(c, [c EXCEPT !.mine = at])
  BY <1>1
<1>3. IsSameCall(c, [c EXCEPT !.at = at, !.notes = n])
  BY <1>1
<1>4. IsSameCall(c, [c EXCEPT !.at = at, !.text = t, !.notes = n])
  BY <1>1
<1>5. IsSameCall(c, [c EXCEPT !.at = at, !.hash = h]) /\ IsSameCall(c, [c EXCEPT !.at = at, !.count = k])
  BY <1>1
<1> QED
  BY <1>2, <1>3, <1>4, <1>5

LEMMA PaneAnswersKeep ==
  ASSUME PaneInv, ~strayed, NEW c \in calls, NEW d, IsSameCall(c, d), Answers(c, d),
         UNCHANGED <<paneVars, paints, strayed>>
  PROVE  PaneInv'
<1>1. PaneCallIsWhole(d)
  BY SamePaneCall DEF PaneInv, PaneIsWhole, IsSameCall
<1>2. PaneIsWhole'
  BY <1>1 DEF PaneInv, PaneIsWhole, Answers, paneVars
<1>3. PaneShowsOpened'
  BY PaneStaysOpened DEF Answers, IsSameCall, paneVars
<1> QED
  BY <1>2, <1>3 DEF PaneInv

LEMMA ServerKeepsPane ==
  ASSUME PaneInv, ~strayed, ServerActs
  PROVE  PaneInv'
<1>1. ASSUME NEW c \in calls PROVE PaneCallIsWhole(c)
  BY DEF PaneInv, PaneIsWhole
<1>2. ASSUME NEW c \in calls, ServerSaves(c) PROVE PaneInv'
  <2>1. UNCHANGED <<paneVars, paints, strayed>>
    BY <1>2 DEF ServerSaves
  <2>2. PICK n : n = notesOf[Place(c)]
    OBVIOUS
  <2>3. \/ Answers(c, [c EXCEPT !.at = "answered", !.notes = n]) \/ Answers(c, [c EXCEPT !.at = "refused"])
    BY <1>2, <2>2 DEF ServerSaves
  <2> QED
    BY <1>1, <2>1, <2>3, SamePaneFlight, PaneAnswersKeep
<1>3. ASSUME NEW c \in calls, ServerChangesNotes(c) PROVE PaneInv'
  <2>1. UNCHANGED <<paneVars, paints, strayed>>
    BY <1>3 DEF ServerChangesNotes
  <2>2. PICK n : n = IF c.kind = "clear" THEN {} ELSE Commented(c, Place(c))
    OBVIOUS
  <2>3. Answers(c, [c EXCEPT !.at = "answered", !.notes = n])
    BY <1>3, <2>2 DEF ServerChangesNotes
  <2> QED
    BY <1>1, <2>1, <2>3, SamePaneFlight, PaneAnswersKeep
<1>4. ASSUME NEW c \in calls, ServerReads(c) PROVE PaneInv'
  <2>1. UNCHANGED <<paneVars, paints, strayed>>
    BY <1>4 DEF ServerReads
  <2>2. PICK n : n = notesOf[Place(c)]
    OBVIOUS
  <2>3. PICK t : t = disk[Place(c)]
    OBVIOUS
  <2>4. PICK k : k = NotesPerFile(c.box)
    OBVIOUS
  <2>5. \/ Answers(c, [c EXCEPT !.at = "answered", !.text = t, !.notes = n])
        \/ Answers(c, [c EXCEPT !.at = "answered", !.hash = t])
        \/ Answers(c, [c EXCEPT !.at = "answered"])
        \/ Answers(c, [c EXCEPT !.at = "answered", !.count = k])
    BY <1>4, <2>2, <2>3, <2>4 DEF ServerReads
  <2> QED
    BY <1>1, <2>1, <2>5, SamePaneFlight, PaneAnswersKeep
<1>5. ASSUME NEW c \in calls, PageCallFails(c) PROVE PaneInv'
  <2>1. UNCHANGED <<paneVars, paints, strayed>>
    BY <1>5 DEF PageCallFails
  <2>2. PICK a : a = IF c.at = "asked" THEN "failed" ELSE "lost"
    OBVIOUS
  <2>3. Answers(c, [c EXCEPT !.at = a])
    BY <1>5, <2>2 DEF PageCallFails
  <2> QED
    BY <1>1, <2>1, <2>3, SamePaneFlight, PaneAnswersKeep
<1>6. ASSUME NEW p \in PanePath, AgentWritesFile(p) PROVE PaneInv'
  BY <1>6 DEF AgentWritesFile, PaneInv, PaneIsWhole, PaneShowsOpened, paneVars, flightVars
<1> QED
  BY <1>2, <1>3, <1>4, <1>5, <1>6 DEF ServerActs

LEMMA PaneAsks ==
  ASSUME PaneInv, ~strayed, NEW cs, Ask(cs), \A c \in cs : PaneCallIsWhole(c),
         UNCHANGED <<pageBox, inUrl, file, paints>>, ~strayed' => wantedPath' = inUrl'
  PROVE  PaneInv'
<1>1. PaneIsWhole'
  BY DEF PaneInv, PaneIsWhole, Ask
<1>2. \A c \in calls : c \in calls'
  BY DEF Ask
<1>3. PaneShowsOpened'
  BY <1>2, PaneStaysOpened
<1> QED
  BY <1>1, <1>3 DEF PaneInv

\* The file of the pane has a path, because NoPane is the only one without.
LEMMA PaneFileHasPath ==
  ASSUME PaneInv
  PROVE  pageBox \in PaneBox /\ (file # NoPane => file.path # Nowhere /\ file.box \in PaneBox)
  BY DEF PaneInv, PaneIsWhole, PaneFileIsWhole

LEMMA ReaderArrivesOpens ==
  ASSUME PaneInv, ~strayed, NEW b \in PaneBox, NEW p \in PanePath \cup {Nowhere}, ReaderArrives(b, p)
  PROVE  PaneInv'
<1>1. /\ pageBox' = b /\ inUrl' = p /\ wantedPath' = p /\ UNCHANGED <<paints, strayed>>
      /\ file' = IF b = pageBox /\ p # Nowhere THEN file ELSE NoPane
      /\ calls' = {[c EXCEPT !.mine = FALSE] : c \in calls} \cup {TreeLoad(<<>>)}
                    \cup {PaneCall("file", b, q, <<>>) : q \in {p} \ {Nowhere}}
  BY DEF ReaderArrives, Visits
<1>2. ASSUME NEW c \in calls PROVE PaneCallIsWhole([c EXCEPT !.mine = FALSE])
  <2>1. PaneCallIsWhole(c)
    BY DEF PaneInv, PaneIsWhole
  <2>2. IsSameCall(c, [c EXCEPT !.mine = FALSE])
    BY <2>1, SamePaneFlight
  <2> QED
    BY <2>1, <2>2, SamePaneCall DEF IsSameCall
<1>3. PaneCallIsWhole(TreeLoad(<<>>))
  <2>1. <<>> \in {<<>>, <<"file">>} /\ pageBox' \in PaneBox /\ <<>> # <<"file">>
    BY <1>1
  <2> QED
    BY <2>1, TreeLoadIsWhole
<1>4. ASSUME p # Nowhere
      PROVE  /\ PaneCallIsWhole(PaneCall("file", b, p, <<>>)) /\ PaneCall("file", b, p, <<>>).kind = "file"
             /\ PaneCall("file", b, p, <<>>).box = b /\ PaneCall("file", b, p, <<>>).path = p
  <2>1. <<>> \in PaneChains
    BY DEF PaneChains
  <2>2. PICK none : none = <<>>
    OBVIOUS
  <2>3. none \in PaneChains /\ p # Nowhere
    BY <1>4, <2>1, <2>2
  <2>4. PaneCallIsWhole(PaneCall("file", b, p, none))
    BY <2>3, PaneCallIsMade
  <2>5. PICK c : c = PaneCall("file", b, p, none)
    OBVIOUS
  <2>6. c.kind = "file" /\ c.box = b /\ c.path = p
    BY <2>5 DEF PaneCall
  <2> QED
    BY <2>2, <2>4, <2>5, <2>6
<1>5. \A c \in calls' : PaneCallIsWhole(c)
  BY <1>1, <1>2, <1>3, <1>4
<1>6. PaneIsWhole'
  BY <1>1, <1>5 DEF PaneInv, PaneIsWhole
<1>7. PaneShowsOpened'
  <2>1. SUFFICES ASSUME file' # NoPane
                 PROVE  file'.box = b /\ \E c \in calls' : c.kind = "file" /\ Place(c) = <<b, p>>
    BY <1>1 DEF PaneShowsOpened, Place
  <2>2. file' = file /\ b = pageBox /\ p # Nowhere
    BY <1>1, <2>1
  <2>3. PaneCall("file", b, p, <<>>) \in calls'
    BY <1>1, <2>2
  <2> QED
    BY <1>4, <2>1, <2>2, <2>3 DEF PaneInv, PaneShowsOpened, Place
<1> QED
  BY <1>6, <1>7 DEF PaneInv

LEMMA ReaderOpensFileOpens ==
  ASSUME PaneInv, ~strayed, NEW p \in PanePath, ReaderOpensFile(p)
  PROVE  PaneInv'
<1>1. /\ inUrl' = p /\ wantedPath' = p /\ UNCHANGED <<pageBox, file, paints, strayed>>
      /\ calls' = calls \cup {PaneCall("file", pageBox, p, <<>>)}
  BY DEF ReaderOpensFile, Visits, Ask
<1>2. /\ PaneCallIsWhole(PaneCall("file", pageBox, p, <<>>)) /\ PaneCall("file", pageBox, p, <<>>).kind = "file"
      /\ PaneCall("file", pageBox, p, <<>>).box = pageBox /\ PaneCall("file", pageBox, p, <<>>).path = p
  <2>1. <<>> \in PaneChains /\ p # Nowhere /\ pageBox \in PaneBox
    BY ReviewPaneAssumption, PaneFileHasPath DEF PaneChains, Nowhere
  <2>2. PICK none : none = <<>>
    OBVIOUS
  <2>3. none \in PaneChains
    BY <2>1, <2>2
  <2>4. PaneCallIsWhole(PaneCall("file", pageBox, p, none))
    BY <2>1, <2>3, PaneCallIsMade
  <2>5. PICK c : c = PaneCall("file", pageBox, p, none)
    OBVIOUS
  <2>6. c.kind = "file" /\ c.box = pageBox /\ c.path = p
    BY <2>5 DEF PaneCall
  <2> QED
    BY <2>2, <2>4, <2>5, <2>6
<1>3. PaneIsWhole'
  BY <1>1, <1>2 DEF PaneInv, PaneIsWhole
<1>4. PaneShowsOpened'
  BY <1>1, <1>2 DEF PaneInv, PaneShowsOpened, Place
<1> QED
  BY <1>3, <1>4 DEF PaneInv

LEMMA ReaderClosesFileOpens ==
  ASSUME PaneInv, ~strayed, ReaderClosesFile
  PROVE  PaneInv'
<1>1. /\ inUrl' = Nowhere /\ wantedPath' = Nowhere /\ file' = NoPane /\ UNCHANGED <<pageBox, paints, strayed>>
      /\ calls' = calls \cup {TreeLoad(<<>>)}
  BY DEF ReaderClosesFile, Visits, Ask, Shows
<1>2. PaneCallIsWhole(TreeLoad(<<>>))
  <2>1. <<>> \in {<<>>, <<"file">>} /\ pageBox' \in PaneBox /\ <<>> # <<"file">>
    BY <1>1, PaneFileHasPath
  <2> QED
    BY <2>1, TreeLoadIsWhole
<1> QED
  BY <1>1, <1>2 DEF PaneInv, PaneIsWhole, PaneShowsOpened

LEMMA PageLoadsOpen ==
  ASSUME PaneInv, ~strayed, FolderIsToggled \/ PageRefreshes \/ ChangesAreDropped
  PROVE  PaneInv'
<1>1. pageBox \in PaneBox /\ (file # NoPane => file.path # Nowhere)
  BY PaneFileHasPath
<1>2. <<>> \in PaneChains /\ <<>> \notin ChainsWithFile
  BY DEF PaneChains, ChainsWithFile
<1>3. CASE FolderIsToggled
  <2>1. PICK cs : Ask(cs) /\ cs = IF listing.open \/ listing.sub THEN {} ELSE {PaneCall("sub", pageBox, Nowhere, <<>>)}
    BY <1>3 DEF FolderIsToggled
  <2>2. \A c \in cs : PaneCallIsWhole(c)
    BY <1>1, <1>2, <2>1, PaneCallIsMade DEF FileCallKinds
  <2>3. UNCHANGED <<pageBox, inUrl, file, paints, wantedPath, strayed>>
    BY <1>3 DEF FolderIsToggled, Visits
  <2> QED
    BY <2>1, <2>2, <2>3, PaneAsks DEF PaneInv, PaneIsWhole
<1>4. CASE PageRefreshes
  <2>1. PICK then : then = IF file = NoPane THEN <<>> ELSE <<"file">>
    OBVIOUS
  <2>2. PICK path : path = file.path
    OBVIOUS
  <2>3. UNCHANGED <<pageBox, inUrl, file, paints, wantedPath, strayed>>
    BY <1>4 DEF PageRefreshes, Visits, paneVars
  <2>4. Ask({[TreeLoad(then) EXCEPT !.path = path]})
    BY <1>4, <2>1, <2>2 DEF PageRefreshes
  <2>5. PaneCallIsWhole([TreeLoad(then) EXCEPT !.path = path])
    <3>1. then \in {<<>>, <<"file">>} /\ pageBox' \in PaneBox /\ (then = <<"file">> => path # Nowhere)
      <4>1. <<>> # <<"file">>
        OBVIOUS
      <4> QED
        BY <1>1, <2>1, <2>2, <2>3, <4>1
    <3> QED
      BY <3>1, TreeLoadIsWhole
  <2> QED
    BY <2>3, <2>4, <2>5, PaneAsks DEF PaneInv, PaneIsWhole
<1>5. CASE ChangesAreDropped
  <2>1. /\ file # NoPane /\ wantedPath' = file.path /\ strayed' = (strayed \/ file.path # inUrl)
        /\ UNCHANGED <<pageBox, inUrl, file, paints>>
        /\ Ask({PaneCall("file", pageBox, file.path, <<>>)})
    BY <1>5 DEF ChangesAreDropped
  <2>2. PaneCallIsWhole(PaneCall("file", pageBox, file.path, <<>>))
    BY <1>1, <1>2, <2>1, PaneCallIsMade
  <2> QED
    BY <2>1, <2>2, PaneAsks
<1> QED
  BY <1>3, <1>4, <1>5

LEMMA PageWritesOpen ==
  ASSUME PaneInv, ~strayed,
         \/ \E force \in BOOLEAN : ReaderSavesFile(force)
         \/ ReviewBeginsAnew \/ ReaderSetsBase
  PROVE  PaneInv'
<1>1. pageBox \in PaneBox /\ (file # NoPane => file.path # Nowhere)
  BY PaneFileHasPath
<1>2. /\ <<>> \in PaneChains /\ <<"tree">> \in PaneChains /\ <<"tree", "file">> \in PaneChains
      /\ <<>> \notin ChainsWithFile /\ <<"tree">> \notin ChainsWithFile
  BY DEF PaneChains, ChainsWithFile
<1>3. PICK f : f = file.path
  OBVIOUS
<1>4. UNCHANGED <<pageBox, inUrl, file, paints, wantedPath, strayed>>
  BY DEF ReaderSavesFile, ReviewBeginsAnew, ReaderSetsBase, Writes
<1>5. ASSUME NEW force \in BOOLEAN, ReaderSavesFile(force) PROVE PaneInv'
  <2>1. PICK kind \in {"hash", "save"} : kind = IF force THEN "hash" ELSE "save"
    OBVIOUS
  <2>2. PICK c : c = PaneCall(kind, pageBox, f, <<>>)
    OBVIOUS
  <2>3. PaneCallIsWhole(c)
    BY <1>1, <1>2, <1>3, <1>5, <2>1, <2>2, PaneCallIsMade DEF ReaderSavesFile
  <2>4. PICK h : h = IF force THEN NoBuffer ELSE file.text
    OBVIOUS
  <2>5. PICK d : d = [c EXCEPT !.text = text, !.hash = h]
    OBVIOUS
  <2>6. Ask({d})
    BY <1>3, <1>5, <2>1, <2>2, <2>4, <2>5 DEF ReaderSavesFile
  <2>7. d = [x \in PaneCallFields |-> d[x]] /\ d.kind = c.kind /\ d.box = c.box /\ d.path = c.path /\ d.then = c.then
    <3>1. c = [x \in PaneCallFields |-> c[x]]
      BY <2>3 DEF PaneCallIsWhole
    <3> QED
      BY <2>5, <3>1 DEF PaneCallFields
  <2>8. PaneCallIsWhole(d)
    BY <2>3, <2>7, SamePaneCall
  <2> QED
    BY <1>4, <2>6, <2>8, PaneAsks DEF PaneInv, PaneIsWhole
<1>6. CASE ReviewBeginsAnew
  <2>1. PICK c : c = PaneCall("clear", pageBox, f, <<"tree">>)
    OBVIOUS
  <2>2. PaneCallIsWhole(c)
    BY <1>1, <1>2, <2>1, PaneCallIsMade DEF FileCallKinds
  <2>3. PICK t : t = file.text
    OBVIOUS
  <2>4. PICK d : d = [c EXCEPT !.text = t]
    OBVIOUS
  <2>5. Ask({d})
    BY <1>3, <1>6, <2>1, <2>3, <2>4 DEF ReviewBeginsAnew
  <2>6. d = [x \in PaneCallFields |-> d[x]] /\ d.kind = c.kind /\ d.box = c.box /\ d.path = c.path /\ d.then = c.then
    <3>1. c = [x \in PaneCallFields |-> c[x]]
      BY <2>2 DEF PaneCallIsWhole
    <3> QED
      BY <2>4, <3>1 DEF PaneCallFields
  <2>7. PaneCallIsWhole(d)
    BY <2>2, <2>6, SamePaneCall
  <2> QED
    BY <1>4, <2>5, <2>7, PaneAsks DEF PaneInv, PaneIsWhole
<1>7. CASE ReaderSetsBase
  <2>1. PICK then : then = IF file = NoPane THEN <<"tree">> ELSE <<"tree", "file">>
    OBVIOUS
  <2>2. Ask({PaneCall("base", pageBox, f, then)})
    BY <1>3, <1>7, <2>1 DEF ReaderSetsBase
  <2>3. PaneCallIsWhole(PaneCall("base", pageBox, f, then))
    <3>1. then \in PaneChains /\ (then \in ChainsWithFile => f # Nowhere)
      BY <1>1, <1>2, <1>3, <2>1
    <3> QED
      BY <1>1, <3>1, PaneCallIsMade DEF FileCallKinds
  <2> QED
    BY <1>4, <2>2, <2>3, PaneAsks DEF PaneInv, PaneIsWhole
<1> QED
  BY <1>5, <1>6, <1>7

LEMMA CommentChangesOpens ==
  ASSUME PaneInv, ~strayed, NEW kind \in {"note", "unnote"}, NEW l \in NoteLine, CommentChanges(kind, l)
  PROVE  PaneInv'
<1>1. pageBox \in PaneBox /\ file # NoPane /\ file.path # Nowhere
  BY PaneFileHasPath DEF CommentChanges
<1>2. PICK n : file' = [file EXCEPT !.notes = n]
  BY DEF CommentChanges
<1>3. PaneFileIsWhole(file') /\ file'.box = file.box /\ file'.path = file.path
  <2>1. file = [x \in {"box", "path", "text", "notes"} |-> file[x]] /\ file.box \in PaneBox
    BY <1>1 DEF PaneInv, PaneIsWhole, PaneFileIsWhole
  <2>2. PICK g : g = file'
    OBVIOUS
  <2>3. g = [x \in {"box", "path", "text", "notes"} |-> g[x]] /\ g.box = file.box /\ g.path = file.path
    BY <1>2, <2>1, <2>2
  <2> QED
    BY <1>1, <2>1, <2>2, <2>3 DEF PaneFileIsWhole
<1>4. PICK c : c = PaneCall(kind, pageBox, file.path, <<>>)
  OBVIOUS
<1>5. PaneCallIsWhole(c)
  <2>1. <<>> \in PaneChains
    BY DEF PaneChains
  <2> QED
    BY <1>1, <1>4, <2>1, PaneCallIsMade
<1>6. PICK prior : prior = file.notes
  OBVIOUS
<1>7. PICK line : line = {l}
  OBVIOUS
<1>8. PICK d : d = [c EXCEPT !.line = line, !.prior = prior]
  OBVIOUS
<1>9. calls' = calls \cup {d}
  BY <1>4, <1>6, <1>7, <1>8 DEF CommentChanges, Ask
<1>10. d = [x \in PaneCallFields |-> d[x]] /\ d.kind = c.kind /\ d.box = c.box /\ d.path = c.path /\ d.then = c.then
  <2>1. c = [x \in PaneCallFields |-> c[x]]
    BY <1>5 DEF PaneCallIsWhole
  <2> QED
    BY <1>8, <2>1 DEF PaneCallFields
<1>11. PaneCallIsWhole(d)
  BY <1>5, <1>10, SamePaneCall
<1>12. UNCHANGED <<pageBox, inUrl, paints, wantedPath, strayed>>
  BY DEF CommentChanges, Writes
<1>13. PaneIsWhole'
  BY <1>3, <1>9, <1>11, <1>12 DEF PaneInv, PaneIsWhole
<1>14. PaneShowsOpened'
  BY <1>1, <1>3, <1>9, <1>12, PaneStaysOpened
<1> QED
  BY <1>13, <1>14 DEF PaneInv

LEMMA ReaderKeepsPane ==
  ASSUME PaneInv, ~strayed, ReaderActs
  PROVE  PaneInv'
<1>1. CASE ComposerIsToggled \/ EditStarts \/ ReaderTypes \/ EditReverts \/ EditStops
  <2>1. UNCHANGED <<pageBox, inUrl, wantedPath, file, calls, paints, strayed>>
    BY <1>1 DEF ComposerIsToggled, EditStarts, ReaderTypes, EditReverts, EditStops, flightVars
  <2> QED
    BY <2>1 DEF PaneInv, PaneIsWhole, PaneShowsOpened
<1> QED
  BY <1>1, ReaderArrivesOpens, ReaderOpensFileOpens, ReaderClosesFileOpens, PageLoadsOpen, PageWritesOpen,
     CommentChangesOpens DEF ReaderActs

LEMMA PaneChainContinues ==
  ASSUME PaneInv, ~strayed, NEW c \in calls, NEW begun, \A d \in begun : PaneCallIsWhole(d),
         Continues(c, begun), c.kind # "file", UNCHANGED <<pageBox, inUrl, file, paints>>
  PROVE  PaneInv'
<1>1. PaneCallIsWhole(c) /\ c.then \in PaneChains /\ pageBox \in PaneBox
  BY DEF PaneInv, PaneIsWhole, PaneCallIsWhole
<1>2. PICK next : next = Head(c.then)
  OBVIOUS
<1>3. PICK rest : rest = Tail(c.then)
  OBVIOUS
<1>4. c.then # <<>> =>
        /\ next \in {"sub", "file", "tree"} /\ rest \in PaneChains
        /\ next = "tree" => rest \in {<<>>, <<"file">>}
        /\ next = "file" => c.then \in ChainsWithFile
        /\ rest \in ChainsWithFile => c.then \in ChainsWithFile
  BY <1>1, <1>2, <1>3, PaneChainsGo
<1>5. c.then \in ChainsWithFile => c.path # Nowhere
  BY <1>1 DEF PaneCallIsWhole
<1>6. PICK path : path = c.path
  OBVIOUS
<1>7. ASSUME c.then # <<>>, next = "tree" PROVE PaneCallIsWhole([TreeLoad(rest) EXCEPT !.path = path])
  <2>1. rest = <<"file">> => path # Nowhere
    BY <1>4, <1>5, <1>6, <1>7 DEF ChainsWithFile
  <2> QED
    BY <1>1, <1>4, <1>7, <2>1, TreeLoadIsWhole
<1>8. ASSUME c.then # <<>>, next # "tree" PROVE PaneCallIsWhole(PaneCall(next, pageBox, path, rest))
  <2>1. next \in FileCallKinds \/ rest \in ChainsWithFile => path # Nowhere
    BY <1>4, <1>5, <1>6, <1>8 DEF FileCallKinds
  <2> QED
    BY <1>1, <1>4, <1>8, <2>1, PaneCallIsMade
<1>9. PICK more : /\ calls' = (calls \ {c}) \cup begun \cup more
                  /\ more = CASE c.then = <<>> -> {}
                              [] c.then # <<>> /\ next = "tree" -> {[TreeLoad(rest) EXCEPT !.path = path]}
                              [] OTHER -> {PaneCall(next, pageBox, path, rest)}
  BY <1>2, <1>3, <1>6, Zenon DEF Continues
<1>10. \A d \in more : PaneCallIsWhole(d)
  BY <1>7, <1>8, <1>9
<1>11. /\ wantedPath' = IF c.then # <<>> /\ next = "file" THEN path ELSE wantedPath
       /\ strayed' = (strayed \/ (c.then # <<>> /\ next = "file" /\ (path # inUrl \/ c.box # pageBox)))
  BY <1>2, <1>6, Zenon DEF Continues
<1>12. ~strayed' => wantedPath' = inUrl'
  BY <1>11 DEF PaneInv, PaneIsWhole
<1>13. PaneIsWhole'
  BY <1>9, <1>10, <1>12 DEF PaneInv, PaneIsWhole
<1>14. PaneShowsOpened'
  BY <1>9, PaneStaysOpened
<1> QED
  BY <1>13, <1>14 DEF PaneInv

LEMMA ListingArrivesOpens ==
  ASSUME PaneInv, ~strayed, NEW c \in calls, ListingArrives(c)
  PROVE  PaneInv'
<1>1. c.kind # "file" /\ UNCHANGED <<pageBox, inUrl, file, paints>>
  BY DEF ListingArrives, Arrives
<1>2. PICK begun : /\ Continues(c, begun)
                   /\ begun = IF listing'.open /\ ~listing.open THEN {PaneCall("sub", pageBox, Nowhere, <<>>)} ELSE {}
  BY DEF ListingArrives
<1>3. PaneCallIsWhole(PaneCall("sub", pageBox, Nowhere, <<>>))
  <2>1. <<>> \in PaneChains /\ <<>> \notin ChainsWithFile
    BY DEF PaneChains, ChainsWithFile
  <2> QED
    BY <2>1, PaneFileHasPath, PaneCallIsMade DEF FileCallKinds
<1> QED
  BY <1>1, <1>2, <1>3, PaneChainContinues

LEMMA BaseArrivesOpens ==
  ASSUME PaneInv, ~strayed, NEW c \in calls, BaseArrives(c)
  PROVE  PaneInv'
<1>1. c.kind # "file" /\ UNCHANGED <<pageBox, inUrl, file, paints>>
  BY DEF BaseArrives, Arrives
<1>2. CASE c.at = "answered"
  <2>1. PICK begun : Continues(c, begun) /\ begun = {}
    BY <1>2 DEF BaseArrives
  <2> QED
    BY <1>1, <2>1, PaneChainContinues
<1>3. CASE c.at # "answered"
  <2>1. calls' = calls \ {c} /\ UNCHANGED <<wantedPath, strayed>>
    BY <1>3 DEF BaseArrives
  <2>2. PaneShowsOpened'
    BY <1>1, <2>1, PaneStaysOpened
  <2> QED
    BY <1>1, <2>1, <2>2 DEF PaneInv, PaneIsWhole
<1> QED
  BY <1>2, <1>3

LEMMA HeldIsWhole ==
  ASSUME NEW c, PaneCallIsWhole(c), c.path # Nowhere
  PROVE  PaneFileIsWhole(Held(c)) /\ Held(c).box = c.box /\ Held(c).path = c.path
<1>1. PICK f : f = Held(c)
  OBVIOUS
<1>2. f = [x \in {"box", "path", "text", "notes"} |-> f[x]] /\ f.box = c.box /\ f.path = c.path
  BY <1>1 DEF Held
<1>3. c.box \in PaneBox
  BY DEF PaneCallIsWhole
<1> QED
  BY <1>1, <1>2, <1>3 DEF PaneFileIsWhole

LEMMA PaintedIsOf ==
  ASSUME NEW f, NEW then
  PROVE  Painted(f, then).file = f
  BY DEF Painted

LEMMA FileArrivesOpens ==
  ASSUME PaneInv, ~strayed, NEW c \in calls, FileArrives(c)
  PROVE  PaneInv'
<1>1. /\ c.kind = "file" /\ calls' = calls \ {c}
      /\ UNCHANGED <<pageBox, inUrl, wantedPath, strayed>>
  BY DEF FileArrives, Arrives
<1>2. PaneCallIsWhole(c) /\ c.path # Nowhere
  BY <1>1 DEF PaneInv, PaneIsWhole, PaneCallIsWhole, FileCallKinds
<1>3. PaneFileIsWhole(Held(c)) /\ Held(c).box = c.box /\ Held(c).path = c.path
  BY <1>2, HeldIsWhole
<1>4. wantedPath = inUrl
  BY DEF PaneInv, PaneIsWhole
<1>5. CASE ~StillWanted(c)
  <2>1. UNCHANGED <<file, paints>>
    BY <1>5 DEF FileArrives
  <2>2. PaneIsWhole'
    BY <1>1, <2>1 DEF PaneInv, PaneIsWhole
  <2>3. PaneShowsOpened'
    <3>1. Place(c) # <<pageBox, inUrl>>
      BY <1>4, <1>5 DEF StillWanted, Place
    <3> QED
      BY <1>1, <2>1, <3>1 DEF PaneInv, PaneShowsOpened
  <2> QED
    BY <2>2, <2>3 DEF PaneInv
<1>6. CASE StillWanted(c) /\ c.at = "answered"
  <2>1. file' = Held(c) /\ paints' = paints \cup {Painted(Held(c), FALSE)}
    BY <1>6 DEF FileArrives, Shows
  <2>2. Painted(Held(c), FALSE).file = Held(c)
    BY PaintedIsOf
  <2>3. PaneIsWhole'
    BY <1>1, <1>3, <2>1, <2>2 DEF PaneInv, PaneIsWhole
  <2>4. PaneShowsOpened'
    BY <1>1, <1>3, <1>4, <1>6, <2>1 DEF PaneShowsOpened, StillWanted
  <2> QED
    BY <2>3, <2>4 DEF PaneInv
<1>7. CASE StillWanted(c) /\ c.at # "answered"
  <2>1. file' = NoPane /\ paints' = paints
    BY <1>7 DEF FileArrives, Shows
  <2> QED
    BY <1>1, <2>1 DEF PaneInv, PaneIsWhole, PaneShowsOpened
<1> QED
  BY <1>5, <1>6, <1>7

LEMMA SaveArrivesOpens ==
  ASSUME PaneInv, ~strayed, NEW c \in calls, SaveArrives(c)
  PROVE  PaneInv'
<1>1. c.kind = "save" /\ calls' = calls \ {c} /\ UNCHANGED <<pageBox, inUrl, wantedPath>>
  BY DEF SaveArrives, Arrives
<1>2. PaneCallIsWhole(c) /\ c.path # Nowhere
  BY <1>1 DEF PaneInv, PaneIsWhole, PaneCallIsWhole, FileCallKinds
<1>3. PaneFileIsWhole(Held(c)) /\ Held(c).box = c.box /\ Held(c).path = c.path
  BY <1>2, HeldIsWhole
<1>4. CASE c.at = "answered"
  <2>1. /\ file' = Held(c) /\ paints' = paints \cup {Painted(Held(c), TRUE)}
        /\ strayed' = (strayed \/ <<pageBox, inUrl>> # Place(c))
    BY <1>4 DEF SaveArrives
  <2>2. Painted(Held(c), TRUE).file = Held(c)
    BY PaintedIsOf
  <2>3. PaneIsWhole'
    BY <1>1, <1>3, <2>1, <2>2 DEF PaneInv, PaneIsWhole
  <2>4. PaneShowsOpened'
    BY <1>1, <1>3, <2>1 DEF PaneShowsOpened, Place
  <2> QED
    BY <2>3, <2>4 DEF PaneInv
<1>5. CASE c.at # "answered"
  <2>1. UNCHANGED <<file, paints, strayed>>
    BY <1>5 DEF SaveArrives
  <2>2. PaneShowsOpened'
    BY <1>1, <2>1, PaneStaysOpened
  <2> QED
    BY <1>1, <2>1, <2>2 DEF PaneInv, PaneIsWhole
<1> QED
  BY <1>4, <1>5

LEMMA HashArrivesOpens ==
  ASSUME PaneInv, ~strayed, NEW c \in calls, HashArrives(c)
  PROVE  PaneInv'
<1>1. c.kind = "hash" /\ UNCHANGED <<pageBox, inUrl, wantedPath, file, paints, strayed>>
  BY DEF HashArrives, Arrives
<1>2. PaneCallIsWhole(c) /\ c.path # Nowhere
  BY <1>1 DEF PaneInv, PaneIsWhole, PaneCallIsWhole, FileCallKinds
<1>3. PICK d : d = [c EXCEPT !.kind = "save", !.at = "asked"]
  OBVIOUS
<1>4. d = [x \in PaneCallFields |-> d[x]] /\ d.box = c.box /\ d.path = c.path /\ d.then = c.then
  <2>1. c = [x \in PaneCallFields |-> c[x]]
    BY <1>2 DEF PaneCallIsWhole
  <2> QED
    BY <1>3, <2>1 DEF PaneCallFields
<1>5. PaneCallIsWhole(d)
  BY <1>2, <1>4 DEF PaneCallIsWhole
<1>6. calls' = (calls \ {c}) \cup {d} \/ calls' = calls \ {c}
  BY <1>3 DEF HashArrives, Answers
<1>7. PaneShowsOpened'
  BY <1>1, <1>6, PaneStaysOpened
<1> QED
  BY <1>1, <1>5, <1>6, <1>7 DEF PaneInv, PaneIsWhole

LEMMA NotesArriveOpens ==
  ASSUME PaneInv, ~strayed, NEW c \in calls, NotesArrive(c)
  PROVE  PaneInv'
<1>1. /\ c.kind \in {"note", "unnote"} /\ calls' = calls \ {c}
      /\ UNCHANGED <<pageBox, inUrl, wantedPath, paints>> /\ (~strayed' => ~strayed)
  BY DEF NotesArrive, Arrives
<1>2. c.path # Nowhere
  BY <1>1 DEF PaneInv, PaneIsWhole, PaneCallIsWhole, FileCallKinds
<1>3. PICK n : file' = IF file.path = c.path THEN [file EXCEPT !.notes = n] ELSE file
  BY DEF NotesArrive
<1>4. file' # NoPane =>
        /\ file # NoPane /\ PaneFileIsWhole(file')
        /\ file'.box = file.box /\ file'.path = file.path
  <2>1. CASE file.path # c.path
    BY <1>3, <2>1 DEF PaneInv, PaneIsWhole
  <2>2. CASE file.path = c.path
    <3>1. file # NoPane
      BY <1>2, <2>2 DEF NoPane
    <3>2. PaneFileIsWhole(file)
      BY <3>1 DEF PaneInv, PaneIsWhole
    <3>3. PICK g : g = [file EXCEPT !.notes = n]
      OBVIOUS
    <3>4. g = [x \in {"box", "path", "text", "notes"} |-> g[x]] /\ g.box = file.box /\ g.path = file.path
      BY <3>2, <3>3 DEF PaneFileIsWhole
    <3> QED
      BY <1>3, <2>2, <3>1, <3>2, <3>3, <3>4 DEF PaneFileIsWhole
  <2> QED
    BY <2>1, <2>2
<1>5. PaneIsWhole'
  BY <1>1, <1>4 DEF PaneInv, PaneIsWhole
<1>6. PaneShowsOpened'
  BY <1>1, <1>4, PaneStaysOpened
<1> QED
  BY <1>5, <1>6 DEF PaneInv

LEMMA ClearArrivesOpens ==
  ASSUME PaneInv, ~strayed, NEW c \in calls, ClearArrives(c)
  PROVE  PaneInv'
<1>1. c.kind = "clear" /\ UNCHANGED <<pageBox, inUrl, paints>>
  BY DEF ClearArrives, Arrives
<1>2. CASE c.at # "answered"
  <2>1. calls' = calls \ {c} /\ UNCHANGED <<file, wantedPath, strayed>>
    BY <1>2 DEF ClearArrives
  <2>2. PaneShowsOpened'
    BY <1>1, <2>1, PaneStaysOpened
  <2> QED
    BY <1>1, <2>1, <2>2 DEF PaneInv, PaneIsWhole
<1>3. CASE c.at = "answered"
  <2>1. /\ file' = IF c.path = Nowhere THEN file ELSE Held(c)
        /\ calls' = (calls \ {c}) \cup {TreeLoad(<<>>)} /\ UNCHANGED wantedPath
        /\ strayed' = (strayed \/ c.box # pageBox \/ c.path \notin {Nowhere, file.path})
    BY <1>3 DEF ClearArrives, Shows
  <2>2. PaneCallIsWhole(TreeLoad(<<>>))
    <3>1. <<>> \in {<<>>, <<"file">>} /\ pageBox' \in PaneBox /\ <<>> # <<"file">>
      BY <1>1, PaneFileHasPath
    <3> QED
      BY <3>1, TreeLoadIsWhole
  <2>3. PaneCallIsWhole(c)
    BY DEF PaneInv, PaneIsWhole
  <2>4. file' # NoPane => PaneFileIsWhole(file')
    BY <2>1, <2>3, HeldIsWhole DEF PaneInv, PaneIsWhole
  <2>5. PaneIsWhole'
    BY <1>1, <2>1, <2>2, <2>4 DEF PaneInv, PaneIsWhole
  <2>6. ASSUME file' # NoPane, ~strayed'
        PROVE  file # NoPane /\ file'.box = file.box /\ file'.path = file.path
    <3>1. CASE c.path = Nowhere
      BY <2>1, <2>6, <3>1
    <3>2. CASE c.path # Nowhere
      <4>1. file' = Held(c) /\ c.path = file.path /\ c.box = pageBox
        BY <2>1, <2>6, <3>2
      <4>2. file # NoPane
        BY <3>2, <4>1 DEF NoPane
      <4>3. file.box = pageBox
        BY <4>2 DEF PaneInv, PaneShowsOpened
      <4> QED
        BY <2>3, <3>2, <4>1, <4>2, <4>3, HeldIsWhole
    <3> QED
      BY <3>1, <3>2
  <2>7. PaneShowsOpened'
    BY <1>1, <2>1, <2>6, PaneStaysOpened
  <2> QED
    BY <2>5, <2>7 DEF PaneInv
<1> QED
  BY <1>2, <1>3

LEMMA PaintArrivesOpens ==
  ASSUME PaneInv, ~strayed, NEW p \in paints, NEW given \in BOOLEAN, PaintArrives(p, given)
  PROVE  PaneInv'
<1>1. PICK fits \in BOOLEAN : /\ fits = (given /\ file.path = p.file.path)
                              /\ file' = IF fits THEN p.file ELSE file
                              /\ strayed' = (strayed \/ (fits /\ file.box # p.file.box))
  BY DEF PaintArrives
<1>2. paints' = paints \ {p} /\ UNCHANGED <<pageBox, inUrl, wantedPath>>
  BY DEF PaintArrives
<1>3. PICK cs : calls' = calls \cup cs /\ cs = IF p.then THEN {TreeLoad(<<>>)} ELSE {}
  BY DEF PaintArrives, Ask
<1>4. PaneCallIsWhole(TreeLoad(<<>>))
  <2>1. <<>> \in {<<>>, <<"file">>} /\ pageBox' \in PaneBox /\ <<>> # <<"file">>
    BY <1>2, PaneFileHasPath
  <2> QED
    BY <2>1, TreeLoadIsWhole
<1>5. PaneFileIsWhole(p.file) /\ p.file.path # Nowhere
  BY DEF PaneInv, PaneIsWhole, PaneFileIsWhole
<1>6. fits => file # NoPane
  <2>1. NoPane.path = Nowhere
    BY DEF NoPane
  <2> QED
    BY <1>1, <1>5, <2>1
<1>7. PaneIsWhole'
  BY <1>1, <1>2, <1>3, <1>4, <1>5 DEF PaneInv, PaneIsWhole
<1>8. PaneShowsOpened'
  <2>1. file' # NoPane /\ ~strayed' => file # NoPane /\ file'.box = file.box /\ file'.path = file.path
    BY <1>1, <1>6
  <2> QED
    BY <1>2, <1>3, <2>1, PaneStaysOpened
<1> QED
  BY <1>7, <1>8 DEF PaneInv

LEMMA PaneInvBegins == ReviewPaneInit => PaneInv
<1> SUFFICES ASSUME ReviewPaneInit PROVE PaneInv
  OBVIOUS
<1>1. PICK b \in PaneBox, p \in PanePath : pageBox = b /\ inUrl = p /\ wantedPath = p /\ p # Nowhere
  BY ReviewPaneAssumption DEF ReviewPaneInit, Nowhere
<1>2. file = [box |-> b, path |-> p, text |-> 1, notes |-> {}]
  BY <1>1 DEF ReviewPaneInit
<1>3. PaneFileIsWhole(file)
  BY <1>1, <1>2 DEF PaneFileIsWhole
<1>4. calls = {} /\ paints = {}
  BY DEF ReviewPaneInit
<1> QED
  BY <1>1, <1>2, <1>3, <1>4 DEF PaneInv, PaneIsWhole, PaneShowsOpened

\* A pane that has shown no answer of before a move shows a file of the box of its page, and
\* the one that the reader opened last or the one that it replaces when its answer comes
\* (loadFile and stillWanted, review.ts), for any boxes, files and answers in any order.
THEOREM PaneAlwaysShowsOpened == ReviewPaneSpec => []PaneShowsOpened
<1>1. ASSUME PaneInv, [ReviewPaneNext]_reviewPaneVars PROVE PaneInv'
  <2>1. CASE UNCHANGED reviewPaneVars
    BY <1>1, <2>1 DEF reviewPaneVars, paneVars, flightVars, PaneInv, PaneIsWhole, PaneShowsOpened
  <2>2. CASE ReviewPaneNext
    <3>1. ~strayed /\ (ReaderActs \/ ServerActs \/ PageTakes)
      BY <2>2 DEF ReviewPaneNext
    <3>2. CASE PageTakes
      BY <1>1, <3>1, <3>2, ListingArrivesOpens, FileArrivesOpens, HashArrivesOpens, SaveArrivesOpens,
        NotesArriveOpens, ClearArrivesOpens, BaseArrivesOpens, PaintArrivesOpens DEF PageTakes
    <3> QED
      BY <1>1, <3>1, <3>2, ReaderKeepsPane, ServerKeepsPane
  <2> QED
    BY <1>1, <2>1, <2>2
<1>2. PaneInv => PaneShowsOpened
  BY DEF PaneInv
<1> QED
  BY <1>1, <1>2, PaneInvBegins, PTL DEF ReviewPaneSpec

(***************************************************************************)
(* The agent sets.  A repository has a new id and one row, and its         *)
(* checkout changes only while a pull works on it, which ends with its     *)
(* row.  What an install packs is what the sets rank first, and what is in *)
(* the home of an install is in its record, which is written before the    *)
(* first skill moves.                                                      *)
(***************************************************************************)

SetRows ==
  /\ repos \in [AgentSet -> Seq(RepoId)] /\ lastRepo \in 0..MaxRepositories /\ extraSet \in BOOLEAN
  /\ \A s \in AgentSet : \A i \in DOMAIN repos[s] : repos[s][i] <= lastRepo
  /\ \A s \in AgentSet : \A i, j \in DOMAIN repos[s] : i # j => repos[s][i] # repos[s][j]
  /\ \A i \in DOMAIN repos["global"], j \in DOMAIN repos["extra"] : repos["global"][i] # repos["extra"][j]

CheckoutIsOf(r) ==
  /\ r > lastRepo => found[r].commit = 0 /\ tree[r] = 0 /\ pulls[r] = "no" /\ r \notin behind
  /\ r \in RepoRows /\ pulls[r] = "fetched" => tree[r] \in Commit
  /\ r \in RepoRows /\ pulls[r] # "fetched" /\ r \notin behind => found[r].commit = tree[r]
  /\ r \in repoDirs \ RepoRows => r \in strays

SetsCheckedOut == \A r \in RepoId : CheckoutIsOf(r)

SetSources == Source \ {None, Own, <<"image">>}

HomeIsRecorded ==
  /\ bundle = expected /\ \A k \in Skill : bundle[k] \notin {Own, <<"image">>}
  /\ \A k \in Skill : home[k] = <<"image">> => k \in ImageSkill
  /\ \A k \in Skill : home[k] \in SetSources => k \in managed
  /\ install = "recording" => managed = {}
  /\ install = "clearing" => todo \subseteq managed /\ \A k \in managed \ todo : home[k] = None
  /\ install \in {"moving", "image"} => managed = {k \in Skill : bundle[k] # None}
  /\ install = "moving" => todo \subseteq managed /\ \A k \in managed \ todo : home[k] = bundle[k]
  /\ install = "image" =>
       /\ todo \subseteq ImageSkill /\ \A k \in todo : bundle[k] = None
       /\ \A k \in managed : home[k] = bundle[k]
       /\ \A k \in ImageSkill \ todo : bundle[k] = None => home[k] = <<"image">>

\* The types, for the rows and checkouts and for the home.
RowsTyped ==
  /\ items \in [AgentSet -> SUBSET Skill]
  /\ found \in [RepoId -> [commit : 0..Len(InCommit), skills : SUBSET Skill]]
  /\ repoDirs \subseteq RepoId /\ strays \subseteq RepoId
  /\ tree \in [RepoId -> 0..Len(InCommit)]
  /\ pulls \in [RepoId -> {"no", "fetching", "fetched"}] /\ remote \in Commit

HomeTyped ==
  /\ home \in [Skill -> Source] /\ bundle \in [Skill -> Source] /\ expected \in [Skill -> Source]
  /\ managed \subseteq Skill /\ todo \subseteq Skill
  /\ install \in {"none", "setup", "clearing", "recording", "moving", "image", "installed"}

RowsInv == RowsTyped /\ SetRows /\ SetsCheckedOut
HomeInv == HomeTyped /\ HomeIsRecorded
SetsInv == RowsInv /\ HomeInv

(***************************************************************************)
(* What is packed.                                                         *)
(***************************************************************************)

\* The kinds of source are told apart.
LEMMA SourcesDiffer ==
  ASSUME NEW a, NEW b, NEW c
  PROVE  /\ <<"repo", a, b>> # None /\ <<"item", c>> # None /\ <<"builtin">> # None
         /\ <<"image">> # None /\ Own # None /\ Own # <<"image">> /\ Own # <<"builtin">>
         /\ <<"repo", a, b>> \notin {Own, <<"image">>} /\ <<"item", c>> \notin {Own, <<"image">>}
         /\ <<"builtin">> # <<"image">>
<1> PICK r, i, bu, im : r = <<"repo", a, b>> /\ i = <<"item", c>> /\ bu = <<"builtin">> /\ im = <<"image">>
  OBVIOUS
<1>1. Len(r) = 3 /\ Len(i) = 2 /\ Len(bu) = 1 /\ Len(im) = 1 /\ Len(<<>>) = 0 /\ Len(Own) = 1
  BY DEF Own
<1>2. r # None /\ i # None /\ bu # None /\ im # None /\ Own # None
  BY <1>1 DEF None
<1>3. r \notin {Own, im} /\ i \notin {Own, im}
  BY <1>1
<1>4. Own # im /\ Own # bu /\ bu # im
  <2>1. Own[1] = "agent" /\ im[1] = "image" /\ bu[1] = "builtin"
    BY DEF Own
  <2> QED
    BY <2>1
<1> QED
  BY <1>2, <1>3, <1>4

\* The two commits.
LEMMA CommitsAre ==
  Commit = {1, 2} /\ Len(InCommit) = 2 /\ \A c \in Commit : c # 0 /\ c \in 0..Len(InCommit)
<1>1. Len(InCommit) = 2 /\ DOMAIN InCommit = 1..2
  BY DEF InCommit
<1> QED
  BY <1>1 DEF Commit

\* Induction, for a set.
LEMMA CountsUpTo ==
  ASSUME NEW S, 0 \in S, \A n \in Nat : n \in S => n + 1 \in S
  PROVE  Nat \subseteq S
<1> SUFFICES ASSUME Nat \ S # {} PROVE FALSE
  OBVIOUS
<1>1. \E x \in Nat \ S : \A y \in Nat \ S : ~ (<<y, x>> \in OpToRel(<, Nat))
  BY NatLessThanWellFounded, WFMin
<1>2. PICK m \in Nat \ S : \A y \in Nat \ S : ~ (<<y, m>> \in OpToRel(<, Nat))
  BY <1>1
<1>3. m # 0 /\ m - 1 \in Nat /\ (m - 1) + 1 = m
  <2>1. m \in Nat /\ m # 0
    OBVIOUS
  <2> QED
    BY <2>1
<1>4. <<m - 1, m>> \in OpToRel(<, Nat)
  BY <1>3 DEF OpToRel
<1>5. m - 1 \in S
  BY <1>2, <1>3, <1>4
<1> QED
  BY <1>3, <1>5

\* f has each skill from the first of the first n repositories that has it.
FirstOf(f, rs, n) ==
  /\ f = [k \in Skill |-> f[k]]
  /\ \A k \in Skill :
       \/ f[k] = None /\ \A i \in 1..n : k \notin found[rs[i]].skills
       \/ \E i \in 1..n :
            /\ k \in found[rs[i]].skills /\ \A j \in 1..(i - 1) : k \notin found[rs[j]].skills
            /\ f[k] = <<"repo", rs[i], tree[rs[i]]>>

LEMMA NextRepo ==
  ASSUME NEW rs, NEW n \in Nat, NEW f, FirstOf(f, rs, n)
  PROVE  FirstOf(WithRepo(f, rs[n + 1]), rs, n + 1)
<1> DEFINE g == WithRepo(f, rs[n + 1])
<1>1. g = [k \in Skill |-> g[k]]
  BY DEF WithRepo
<1>2. ASSUME NEW k \in Skill
      PROVE \/ g[k] = None /\ \A i \in 1..(n + 1) : k \notin found[rs[i]].skills
            \/ \E i \in 1..(n + 1) :
                 /\ k \in found[rs[i]].skills /\ \A j \in 1..(i - 1) : k \notin found[rs[j]].skills
                 /\ g[k] = <<"repo", rs[i], tree[rs[i]]>>
  <2>0. PICK new : new = <<"repo", rs[n + 1], tree[rs[n + 1]]>>
    OBVIOUS
  <2>1. g[k] = IF f[k] = None /\ k \in found[rs[n + 1]].skills THEN new ELSE f[k]
    BY <2>0 DEF WithRepo
  <2>2. CASE \E i \in 1..n :
               /\ k \in found[rs[i]].skills /\ \A j \in 1..(i - 1) : k \notin found[rs[j]].skills
               /\ f[k] = <<"repo", rs[i], tree[rs[i]]>>
    <3>1. PICK i \in 1..n :
               /\ k \in found[rs[i]].skills /\ \A j \in 1..(i - 1) : k \notin found[rs[j]].skills
               /\ f[k] = <<"repo", rs[i], tree[rs[i]]>>
      BY <2>2
    <3>2. f[k] # None
      BY <3>1, SourcesDiffer
    <3>3. g[k] = <<"repo", rs[i], tree[rs[i]]>> /\ i \in 1..(n + 1)
      BY <2>1, <3>1, <3>2
    <3> QED
      BY <3>1, <3>3
  <2>3. CASE f[k] = None /\ \A i \in 1..n : k \notin found[rs[i]].skills
    <3>1. CASE k \in found[rs[n + 1]].skills
      <4>1. g[k] = <<"repo", rs[n + 1], tree[rs[n + 1]]>> /\ n + 1 \in 1..(n + 1) /\ (n + 1) - 1 = n
        BY <2>0, <2>1, <2>3, <3>1
      <4> QED
        BY <4>1, <3>1, <2>3
    <3>2. CASE k \notin found[rs[n + 1]].skills
      <4>1. g[k] = None
        BY <2>1, <2>3, <3>2
      <4>2. \A i \in 1..(n + 1) : k \notin found[rs[i]].skills
        <5>1. \A i \in 1..(n + 1) : i \in 1..n \/ i = n + 1
          OBVIOUS
        <5> QED
          BY <5>1, <2>3, <3>2
      <4> QED
        BY <4>1, <4>2
    <3> QED
      BY <3>1, <3>2
  <2> QED
    BY <2>2, <2>3 DEF FirstOf
<1> HIDE DEF g
<1> QED
  BY <1>1, <1>2 DEF FirstOf, g

\* The repositories of a set, in their order.
LEMMA OfReposIsFirst ==
  ASSUME NEW rs \in Seq(RepoId)
  PROVE  FirstOf(OfRepos(rs), rs, Len(rs))
<1> DEFINE Fill(f, N) ==
             f = [i \in 0..N |-> IF i = 0 THEN [k \in Skill |-> None] ELSE WithRepo(f[i - 1], rs[i])]
           Fillable == {N \in Nat : \E f : Fill(f, N)}
<1>0. Len(rs) \in Nat
  OBVIOUS
<1>1. Nat \subseteq Fillable
  <2>1. 0 \in Fillable
    <3>1. Fill([i \in 0..0 |-> [k \in Skill |-> None]], 0)
      OBVIOUS
    <3> QED
      BY <3>1
  <2>2. ASSUME NEW N \in Nat, N \in Fillable PROVE N + 1 \in Fillable
    <3>1. PICK f : Fill(f, N)
      BY <2>2
    <3> DEFINE g == [i \in 0..(N + 1) |-> IF i = N + 1 THEN WithRepo(f[N], rs[N + 1]) ELSE f[i]]
    <3>2. \A i \in 0..(N + 1) :
            g[i] = IF i = 0 THEN [k \in Skill |-> None] ELSE WithRepo(g[i - 1], rs[i])
      <4> TAKE i \in 0..(N + 1)
      <4>1. CASE i = N + 1
        <5>1. g[i - 1] = f[N] /\ i # 0 /\ g[i] = WithRepo(f[N], rs[N + 1])
          BY <4>1
        <5> QED
          BY <5>1, <4>1
      <4>2. CASE i \in 0..N
        <5>1. g[i] = f[i]
          BY <4>2
        <5>2. i # 0 => g[i - 1] = f[i - 1]
          BY <4>2
        <5>3. f[i] = IF i = 0 THEN [k \in Skill |-> None] ELSE WithRepo(f[i - 1], rs[i])
          BY <3>1, <4>2
        <5> QED
          BY <5>1, <5>2, <5>3
      <4> QED
        BY <4>1, <4>2
    <3>3. Fill(g, N + 1)
      BY <3>2
    <3> HIDE DEF g, Fill
    <3> QED
      BY <3>3
  <2> HIDE DEF Fillable
  <2> QED
    BY <2>1, <2>2, CountsUpTo
<1> DEFINE filled == CHOOSE f : Fill(f, Len(rs))
<1>2. Fill(filled, Len(rs))
  BY <1>0, <1>1
<1>3. OfRepos(rs) = filled[Len(rs)]
  BY DEF OfRepos
<1> DEFINE Good == {n \in Nat : n <= Len(rs) => FirstOf(filled[n], rs, n)}
<1> HIDE DEF filled
<1>4. 0 \in Good
  <2>1. filled[0] = [k \in Skill |-> None]
    BY <1>0, <1>2
  <2>2. FirstOf([k \in Skill |-> None], rs, 0)
    BY DEF FirstOf
  <2> QED
    BY <2>1, <2>2
<1>5. ASSUME NEW n \in Nat, n \in Good PROVE n + 1 \in Good
  <2> SUFFICES ASSUME n + 1 <= Len(rs) PROVE FirstOf(filled[n + 1], rs, n + 1)
    OBVIOUS
  <2>1. FirstOf(filled[n], rs, n)
    BY <1>0, <1>5
  <2>2. filled[n + 1] = WithRepo(filled[n], rs[n + 1])
    <3>1. n + 1 \in 0..Len(rs) /\ n + 1 # 0 /\ (n + 1) - 1 = n
      BY <1>0
    <3> QED
      BY <3>1, <1>2
  <2> QED
    BY <2>1, <2>2, NextRepo
<1>6. Nat \subseteq Good
  <2> HIDE DEF Good
  <2> QED
    BY <1>4, <1>5, CountsUpTo
<1> QED
  BY <1>0, <1>3, <1>6

\* Where a set that is there has a skill.
LEMMA SkillIsRanked ==
  ASSUME SetRows, NEW s \in AgentSet, SetIsThere(s), NEW k \in Skill
  PROVE  \/ SkillsOf(s)[k] = None /\ FirstPlace(s, k) = {}
         \/ \E i \in 0..Len(repos[s]) :
              /\ HasSkill(s, i, k) /\ FirstPlace(s, k) = {i}
              /\ SkillsOf(s)[k] = SourceAt(s, i) /\ SourceAt(s, i) # None
<1> DEFINE rs == repos[s]
<1>0. rs \in Seq(RepoId) /\ Len(rs) \in Nat
  BY DEF SetRows
<1>1. FirstOf(OfRepos(rs), rs, Len(rs))
  BY <1>0, OfReposIsFirst
<1>2. \A i, j \in 0..Len(rs) : i < j => j \in 1..Len(rs) /\ i \in 0..(j - 1)
  BY <1>0
<1>3. \A i, j \in 0..Len(rs) : i \in FirstPlace(s, k) /\ j \in FirstPlace(s, k) => i = j
  <2> SUFFICES ASSUME NEW i \in 0..Len(rs), NEW j \in 0..Len(rs), i < j,
                      i \in FirstPlace(s, k), j \in FirstPlace(s, k)
               PROVE  FALSE
    BY <1>0
  <2> QED
    BY <1>2 DEF FirstPlace
<1>4. CASE k \in items[s]
  <2>1. HasSkill(s, 0, k) /\ 0 \in 0..Len(rs) /\ \A j \in 0..(0 - 1) : ~HasSkill(s, j, k)
    BY <1>0, <1>4 DEF HasSkill
  <2>2. 0 \in FirstPlace(s, k)
    BY <2>1 DEF FirstPlace
  <2>3. FirstPlace(s, k) = {0}
    <3>1. FirstPlace(s, k) \subseteq 0..Len(rs)
      BY DEF FirstPlace
    <3> QED
      BY <2>1, <2>2, <3>1, <1>3
  <2>4. SkillsOf(s)[k] = <<"item", s>> /\ SourceAt(s, 0) = <<"item", s>>
    BY <1>4 DEF SkillsOf, SourceAt
  <2>5. SourceAt(s, 0) # None
    BY <2>4, SourcesDiffer
  <2> QED
    BY <2>1, <2>3, <2>4, <2>5
<1>5. CASE k \notin items[s] /\ \E i \in 1..Len(rs) :
             /\ k \in found[rs[i]].skills /\ \A j \in 1..(i - 1) : k \notin found[rs[j]].skills
             /\ OfRepos(rs)[k] = <<"repo", rs[i], tree[rs[i]]>>
  <2>1. PICK i \in 1..Len(rs) :
             /\ k \in found[rs[i]].skills /\ \A j \in 1..(i - 1) : k \notin found[rs[j]].skills
             /\ OfRepos(rs)[k] = <<"repo", rs[i], tree[rs[i]]>>
    BY <1>5
  <2>2. i # 0 /\ i \in 0..Len(rs) /\ \A j \in 0..(i - 1) : j = 0 \/ j \in 1..(i - 1)
    BY <1>0
  <2>3. HasSkill(s, i, k)
    BY <2>1, <2>2 DEF HasSkill
  <2>4. \A j \in 0..(i - 1) : ~HasSkill(s, j, k)
    BY <2>1, <2>2, <1>5 DEF HasSkill
  <2>5. i \in FirstPlace(s, k)
    BY <2>2, <2>3, <2>4 DEF FirstPlace
  <2>6. FirstPlace(s, k) = {i}
    <3>1. FirstPlace(s, k) \subseteq 0..Len(rs)
      BY DEF FirstPlace
    <3> QED
      BY <2>2, <2>5, <3>1, <1>3
  <2>7. SourceAt(s, i) = <<"repo", rs[i], tree[rs[i]]>>
    BY <2>2 DEF SourceAt
  <2>8. SkillsOf(s)[k] = OfRepos(rs)[k]
    BY <1>5 DEF SkillsOf
  <2>9. SourceAt(s, i) # None
    BY <2>7, SourcesDiffer
  <2> QED
    BY <2>1, <2>2, <2>3, <2>6, <2>7, <2>8, <2>9
<1>6. CASE k \notin items[s] /\ OfRepos(rs)[k] = None /\ \A i \in 1..Len(rs) : k \notin found[rs[i]].skills
  <2>1. SkillsOf(s)[k] = None
    BY <1>6 DEF SkillsOf
  <2>2. \A i \in 0..Len(rs) : i # 0 => i \in 1..Len(rs)
    BY <1>0
  <2>3. ASSUME NEW i \in 0..Len(rs) PROVE ~HasSkill(s, i, k)
    <3>1. i # 0 => i \in 1..Len(rs)
      BY <2>2
    <3>2. CASE i = 0
      BY <1>6, <3>2 DEF HasSkill
    <3>3. CASE i # 0
      BY <1>6, <3>1, <3>3 DEF HasSkill
    <3> QED
      BY <3>2, <3>3
  <2>4. FirstPlace(s, k) = {}
    BY <2>3 DEF FirstPlace
  <2> QED
    BY <2>1, <2>4
<1> QED
  BY <1>1, <1>4, <1>5, <1>6 DEF FirstOf

\* What a place of a set gives is there to be packed, or it is not packed.
LEMMA PlaceIsSource ==
  ASSUME SetsTypeOK, SetRows, NEW s \in AgentSet, NEW k \in Skill, NEW i \in 0..Len(repos[s]),
         IsInTree(SourceAt(s, i), k)
  PROVE  SourceAt(s, i) \in SetSources
<1>1. CASE i = 0
  <2>1. SourceAt(s, i) = <<"item", s>>
    BY <1>1 DEF SourceAt
  <2>2. <<"item", s>> \in Source
    BY DEF Source
  <2> QED
    BY <2>1, <2>2, SourcesDiffer DEF SetSources
<1>2. CASE i # 0
  <2>1. repos[s] \in Seq(RepoId) /\ i \in 1..Len(repos[s])
    BY <1>2 DEF SetRows
  <2>2. repos[s][i] \in RepoId
    BY <2>1
  <2>3. SourceAt(s, i) = <<"repo", repos[s][i], tree[repos[s][i]]>>
    BY <1>2 DEF SourceAt
  <2>4. SourceAt(s, i)[1] = "repo" /\ SourceAt(s, i)[3] = tree[repos[s][i]]
    BY <2>3
  <2>5. tree[repos[s][i]] \in Commit
    BY <2>4 DEF IsInTree
  <2>6. SourceAt(s, i) \in Source
    BY <2>2, <2>3, <2>5 DEF Source
  <2> QED
    BY <2>3, <2>6, SourcesDiffer DEF SetSources
<1> QED
  BY <1>1, <1>2

\* What an install packs is what the sets rank first.
LEMMA PackedIsRanked ==
  ASSUME SetsTypeOK, SetRows
  PROVE  /\ Packed = [k \in Skill |-> Ranked(k)]
         /\ \A k \in Skill : Ranked(k) \in SetSources \cup {None}
<1> DEFINE all(k) == IF Merged[k] = None /\ k \in BuiltinSkill THEN <<"builtin">> ELSE Merged[k]
<1>1. ASSUME NEW k \in Skill
      PROVE \/ all(k) = None /\ Strongest(k) = {}
            \/ /\ all(k) # None /\ Strongest(k) = {all(k)}
               /\ IsInTree(all(k), k) => all(k) \in SetSources
  <2>0. "global" \in AgentSet /\ "extra" \in AgentSet /\ SetIsThere("global") /\ (SetIsThere("extra") <=> extraSet)
    BY DEF AgentSet, SetIsThere
  <2>1. Merged[k] = IF extraSet /\ SkillsOf("extra")[k] # None THEN SkillsOf("extra")[k] ELSE SkillsOf("global")[k]
    BY DEF Merged
  <2>2. ASSUME NEW s \in AgentSet, NEW i \in 0..Len(repos[s]), all(k) = SourceAt(s, i), all(k) # None,
               Strongest(k) = {SourceAt(s, j) : j \in {i}}
        PROVE  /\ all(k) # None /\ Strongest(k) = {all(k)}
               /\ IsInTree(all(k), k) => all(k) \in SetSources
    <3> HIDE DEF all
    <3> QED
      BY <2>2, PlaceIsSource
  <2>3. CASE FirstPlace("extra", k) # {}
    <3>1. extraSet
      BY <2>3, <2>0 DEF FirstPlace
    <3>2. PICK i \in 0..Len(repos["extra"]) :
            /\ FirstPlace("extra", k) = {i}
            /\ SkillsOf("extra")[k] = SourceAt("extra", i) /\ SourceAt("extra", i) # None
      BY <2>0, <2>3, <3>1, SkillIsRanked
    <3>3. all(k) = SourceAt("extra", i)
      BY <2>1, <3>1, <3>2
    <3>4. Strongest(k) = {SourceAt("extra", j) : j \in {i}}
      BY <2>3, <3>2 DEF Strongest
    <3> HIDE DEF all
    <3> QED
      BY <2>0, <2>2, <3>2, <3>3, <3>4
  <2>4. CASE FirstPlace("extra", k) = {} /\ FirstPlace("global", k) # {}
    <3>1. ~extraSet \/ SkillsOf("extra")[k] = None
      BY <2>0, <2>4, SkillIsRanked
    <3>2. PICK i \in 0..Len(repos["global"]) :
            /\ FirstPlace("global", k) = {i}
            /\ SkillsOf("global")[k] = SourceAt("global", i) /\ SourceAt("global", i) # None
      BY <2>0, <2>4, SkillIsRanked
    <3>3. all(k) = SourceAt("global", i)
      BY <2>1, <3>1, <3>2
    <3>4. Strongest(k) = {SourceAt("global", j) : j \in {i}}
      BY <2>4, <3>2 DEF Strongest
    <3> HIDE DEF all
    <3> QED
      BY <2>0, <2>2, <3>2, <3>3, <3>4
  <2>5. CASE FirstPlace("extra", k) = {} /\ FirstPlace("global", k) = {}
    <3>1. ~extraSet \/ SkillsOf("extra")[k] = None
      BY <2>0, <2>5, SkillIsRanked
    <3>2. SkillsOf("global")[k] = None
      BY <2>0, <2>5, SkillIsRanked
    <3>3. Merged[k] = None
      BY <2>1, <3>1, <3>2
    <3>4. Strongest(k) = {<<"builtin">> : b \in {k} \cap BuiltinSkill}
      BY <2>5 DEF Strongest
    <3>5. PICK bu : bu = <<"builtin">>
      OBVIOUS
    <3>6. bu # None /\ bu \in SetSources
      BY <3>5, SourcesDiffer DEF SetSources, Source
    <3>7. all(k) = (IF k \in BuiltinSkill THEN bu ELSE None)
      BY <3>3, <3>5
    <3>8. Strongest(k) = {bu : b \in {k} \cap BuiltinSkill}
      BY <3>4, <3>5
    <3> HIDE DEF all
    <3> QED
      BY <3>6, <3>7, <3>8
  <2> QED
    BY <2>3, <2>4, <2>5
<1>2. ASSUME NEW k \in Skill PROVE Ranked(k) = IF all(k) # None /\ IsInTree(all(k), k) THEN all(k) ELSE None
  <2> HIDE DEF all
  <2>1. CASE Strongest(k) = {} /\ all(k) = None
    BY <2>1 DEF Ranked
  <2>2. CASE Strongest(k) = {all(k)} /\ all(k) # None
    BY <2>2 DEF Ranked
  <2> QED
    BY <1>1, <2>1, <2>2
<1>3. Packed = [k \in Skill |-> IF all(k) # None /\ IsInTree(all(k), k) THEN all(k) ELSE None]
  BY DEF Packed
<1>4. ASSUME NEW k \in Skill PROVE Ranked(k) \in SetSources \cup {None}
  <2> HIDE DEF all
  <2> QED
    BY <1>1, <1>2
<1> HIDE DEF all
<1> QED
  BY <1>2, <1>3, <1>4

(***************************************************************************)
(* The rows and the checkouts.                                             *)
(***************************************************************************)

LEMMA RowsOfASet ==
  ASSUME SetRows
  PROVE  /\ \A s \in AgentSet : repos[s] \in Seq(RepoId) /\ Len(repos[s]) \in Nat /\ DOMAIN repos[s] = 1..Len(repos[s])
         /\ RepoRows = {repos["global"][i] : i \in DOMAIN repos["global"]} \cup {repos["extra"][i] : i \in DOMAIN repos["extra"]}
         /\ RepoRows \subseteq RepoId /\ \A r \in RepoRows : r <= lastRepo
         /\ \A s \in AgentSet : ToSet(repos[s]) \subseteq RepoId
<1>1. \A s \in AgentSet : repos[s] \in Seq(RepoId) /\ Len(repos[s]) \in Nat /\ DOMAIN repos[s] = 1..Len(repos[s])
  BY DEF SetRows
<1>2. \A s \in AgentSet : \A i \in DOMAIN repos[s] : repos[s][i] \in RepoId /\ repos[s][i] <= lastRepo
  BY <1>1 DEF SetRows
<1>3. "global" \in AgentSet /\ "extra" \in AgentSet
  BY DEF AgentSet
<1>4. RepoRows = {repos["global"][i] : i \in DOMAIN repos["global"]} \cup {repos["extra"][i] : i \in DOMAIN repos["extra"]}
  BY DEF RepoRows, ToSet
<1>5. \A s \in AgentSet : ToSet(repos[s]) \subseteq RepoId
  BY <1>2 DEF ToSet
<1> QED
  BY <1>1, <1>2, <1>3, <1>4, <1>5

LEMMA TypesHold ==
  ASSUME SetsInv
  PROVE  SetsTypeOK /\ SetRows
BY RowsOfASet DEF SetsInv, RowsInv, HomeInv, RowsTyped, HomeTyped, SetsTypeOK

\* A sequence without the element at a place.
LEMMA RemovedAt ==
  ASSUME NEW R, NEW q \in Seq(R), NEW i \in 1..Len(q)
  PROVE  /\ RemoveAt(q, i) \in Seq(R) /\ DOMAIN RemoveAt(q, i) = 1..(Len(q) - 1)
         /\ \A j \in 1..(Len(q) - 1) : RemoveAt(q, i)[j] = IF j < i THEN q[j] ELSE q[j + 1]
<1> DEFINE a == SubSeq(q, 1, i - 1)
           b == SubSeq(q, i + 1, Len(q))
<1>0. Len(q) \in Nat /\ i \in Nat
  OBVIOUS
<1>1. a \in Seq(R) /\ Len(a) = i - 1 /\ \A j \in 1..(i - 1) : a[j] = q[j]
  <2>1. \A j \in 1..(i - 1) : q[j] \in R
    BY <1>0
  <2>2. 1 \in Int /\ i - 1 \in Int /\ 1 <= i /\ IF 1 <= i - 1 THEN (i - 1) - 1 + 1 = i - 1 ELSE i - 1 = 0
    BY <1>0
  <2> QED
    BY <1>0, <2>1, <2>2
<1>2. b \in Seq(R) /\ Len(b) = Len(q) - i /\ \A j \in 1..(Len(q) - i) : b[j] = q[i + j]
  <2>1. \A j \in (i + 1)..Len(q) : q[j] \in R
    BY <1>0
  <2>2. i + 1 \in Int /\ Len(q) \in Int /\ \A j \in 1..(Len(q) - i) : (i + 1) + j - 1 = i + j
    BY <1>0
  <2> QED
    BY <1>0, <2>1, <2>2
<1>3. RemoveAt(q, i) = a \o b
  BY DEF RemoveAt
<1> HIDE DEF a, b
<1>4. Len(a \o b) = Len(q) - 1 /\ a \o b \in Seq(R)
  <2>1. a \o b \in Seq(R) /\ Len(a \o b) = Len(a) + Len(b)
    BY <1>1, <1>2, ConcatProperties
  <2> QED
    BY <2>1, <1>0, <1>1, <1>2
<1>5. DOMAIN (a \o b) = 1..(Len(q) - 1)
  BY <1>4
<1>6. ASSUME NEW j \in 1..(Len(q) - 1) PROVE (a \o b)[j] = IF j < i THEN q[j] ELSE q[j + 1]
  <2>1. CASE j < i
    <3>1. j \in 1..Len(a)
      BY <1>0, <1>1, <2>1
    <3> QED
      BY <3>1, <2>1, <1>1, <1>2
  <2>2. CASE ~(j < i)
    <3>1. j \in (Len(a) + 1)..(Len(a) + Len(b)) /\ j - Len(a) \in 1..(Len(q) - i) /\ i + (j - Len(a)) = j + 1
      BY <1>0, <1>1, <1>2, <2>2
    <3>2. (a \o b)[j] = b[j - Len(a)]
      BY <3>1, <1>1, <1>2
    <3> QED
      BY <2>2, <3>1, <3>2, <1>2
  <2> QED
    BY <2>1, <2>2
<1> QED
  BY <1>3, <1>4, <1>5, <1>6

\* A new row has an id of its own.
LEMMA RowIsNew ==
  ASSUME SetsAssumption, SetRows, NEW s \in AgentSet, lastRepo + 1 \in RepoId, lastRepo' = lastRepo + 1,
         extraSet' = extraSet, repos' = [repos EXCEPT ![s] = Append(@, lastRepo + 1)]
  PROVE  SetRows' /\ RepoRows' = RepoRows \cup {lastRepo + 1}
<1> DEFINE r == lastRepo + 1
<1>0. AgentSet = {"global", "extra"} /\ lastRepo \in Nat /\ r \in 0..MaxRepositories /\ MaxRepositories \in Nat
  BY DEF AgentSet, SetRows, RepoId, SetsAssumption
<1>1. \A t \in AgentSet : repos[t] \in Seq(RepoId) /\ Len(repos[t]) \in Nat /\ DOMAIN repos[t] = 1..Len(repos[t])
  BY RowsOfASet
<1>2. \A t \in AgentSet : \A i \in DOMAIN repos[t] : repos[t][i] <= lastRepo /\ repos[t][i] # r
  <2>1. \A t \in AgentSet : \A i \in DOMAIN repos[t] : repos[t][i] <= lastRepo /\ repos[t][i] \in RepoId
    BY <1>1 DEF SetRows
  <2> QED
    BY <2>1, <1>0 DEF RepoId
<1>3. repos \in [AgentSet -> Seq(RepoId)]
  BY DEF SetRows
<1>4. \A t \in AgentSet : repos'[t] = IF t = s THEN Append(repos[s], r) ELSE repos[t]
  BY <1>3
<1>5. /\ repos'[s] \in Seq(RepoId) /\ DOMAIN repos'[s] = DOMAIN repos[s] \cup {Len(repos[s]) + 1}
      /\ repos'[s][Len(repos[s]) + 1] = r /\ \A i \in DOMAIN repos[s] : repos'[s][i] = repos[s][i]
  <2>1. repos'[s] = Append(repos[s], r)
    BY <1>4
  <2>2. Len(Append(repos[s], r)) = Len(repos[s]) + 1 /\ Append(repos[s], r) \in Seq(RepoId)
    BY <1>1
  <2>3. DOMAIN Append(repos[s], r) = 1..(Len(repos[s]) + 1)
    BY <2>2
  <2>4. \A i \in 1..Len(repos[s]) : Append(repos[s], r)[i] = repos[s][i]
    BY <1>1
  <2>5. Append(repos[s], r)[Len(repos[s]) + 1] = r
    BY <1>1
  <2>6. DOMAIN Append(repos[s], r) = DOMAIN repos[s] \cup {Len(repos[s]) + 1}
    BY <2>3, <1>1
  <2> HIDE DEF r
  <2> QED
    BY <2>1, <2>2, <2>4, <2>5, <2>6, <1>1
<1> DEFINE new == Len(repos[s]) + 1
<1>6. new \notin DOMAIN repos[s]
  BY <1>1
<1> HIDE DEF new
<1>7. /\ DOMAIN repos'[s] = DOMAIN repos[s] \cup {new} /\ repos'[s][new] = r
      /\ \A i \in DOMAIN repos[s] : repos'[s][i] = repos[s][i]
      /\ \A t \in AgentSet : t # s => repos'[t] = repos[t]
  BY <1>4, <1>5 DEF new
<1>8. repos' \in [AgentSet -> Seq(RepoId)]
  BY <1>3, <1>5
<1>9. \A t \in AgentSet : \A i \in DOMAIN repos'[t] : repos'[t][i] <= r
  <2>1. \A t \in AgentSet : \A i \in DOMAIN repos[t] : repos[t][i] <= r
    <3>1. \A t \in AgentSet : \A i \in DOMAIN repos[t] : repos[t][i] \in RepoId
      BY <1>1
    <3> QED
      BY <3>1, <1>0, <1>2 DEF RepoId
  <2>2. r <= r
    BY <1>0
  <2> HIDE DEF r
  <2> QED
    BY <2>1, <2>2, <1>7
<1>10. \A t \in AgentSet : \A i, j \in DOMAIN repos'[t] : i # j => repos'[t][i] # repos'[t][j]
  <2> HIDE DEF r
  <2> QED
    BY <1>2, <1>6, <1>7 DEF SetRows
<1>11. \A i \in DOMAIN repos'["global"], j \in DOMAIN repos'["extra"] : repos'["global"][i] # repos'["extra"][j]
  <2> HIDE DEF r
  <2>1. CASE s = "global"
    BY <2>1, <1>0, <1>2, <1>6, <1>7 DEF SetRows
  <2>2. CASE s = "extra"
    BY <2>2, <1>0, <1>2, <1>6, <1>7 DEF SetRows
  <2> QED
    BY <2>1, <2>2, <1>0
<1>12. SetRows'
  BY <1>0, <1>8, <1>9, <1>10, <1>11 DEF SetRows
<1>13. RepoRows' = RepoRows \cup {r}
  <2> HIDE DEF r
  <2>1. CASE s = "global"
    BY <2>1, <1>0, <1>7 DEF RepoRows, ToSet
  <2>2. CASE s = "extra"
    BY <2>2, <1>0, <1>7 DEF RepoRows, ToSet
  <2> QED
    BY <2>1, <2>2, <1>0
<1> QED
  BY <1>12, <1>13

\* A deleted row leaves the others in their order.
LEMMA RowIsGone ==
  ASSUME SetRows, NEW s \in AgentSet, NEW i \in DOMAIN repos[s], lastRepo' = lastRepo, extraSet' = extraSet,
         repos' = [repos EXCEPT ![s] = RemoveAt(@, i)]
  PROVE  SetRows' /\ RepoRows' = RepoRows \ {repos[s][i]}
<1> DEFINE rowsWere == repos[s]
           n == Len(repos[s])
           from(j) == IF j < i THEN j ELSE j + 1
<1>0. AgentSet = {"global", "extra"}
  BY DEF AgentSet
<1>1. \A t \in AgentSet : repos[t] \in Seq(RepoId) /\ Len(repos[t]) \in Nat /\ DOMAIN repos[t] = 1..Len(repos[t])
  BY RowsOfASet
<1>2. repos \in [AgentSet -> Seq(RepoId)]
  BY DEF SetRows
<1>3. i \in 1..Len(rowsWere) /\ rowsWere \in Seq(RepoId)
  BY <1>1
<1>4. \A t \in AgentSet : repos'[t] = IF t = s THEN RemoveAt(rowsWere, i) ELSE repos[t]
  BY <1>2
<1>5. /\ repos'[s] \in Seq(RepoId) /\ DOMAIN repos'[s] = 1..(n - 1)
      /\ \A j \in 1..(n - 1) : repos'[s][j] = rowsWere[from(j)]
  <2>1. /\ RemoveAt(rowsWere, i) \in Seq(RepoId) /\ DOMAIN RemoveAt(rowsWere, i) = 1..(Len(rowsWere) - 1)
        /\ \A j \in 1..(Len(rowsWere) - 1) : RemoveAt(rowsWere, i)[j] = IF j < i THEN rowsWere[j] ELSE rowsWere[j + 1]
    <3> HIDE DEF rowsWere
    <3> QED
      BY <1>3, RemovedAt
  <2>2. repos'[s] = RemoveAt(rowsWere, i)
    BY <1>4
  <2> QED
    BY <2>1, <2>2
<1>6. \A j \in 1..(n - 1) : from(j) \in 1..n \ {i}
  BY <1>1, <1>3
<1>7. \A j, k \in 1..(n - 1) : j # k => from(j) # from(k)
  BY <1>1, <1>3
<1>8. \A k \in 1..n \ {i} : \E j \in 1..(n - 1) : from(j) = k
  <2> TAKE k \in 1..n \ {i}
  <2>1. CASE k < i
    <3>1. k \in 1..(n - 1) /\ from(k) = k
      BY <1>1, <1>3, <2>1
    <3> QED
      BY <3>1
  <2>2. CASE ~(k < i)
    <3>1. k - 1 \in 1..(n - 1) /\ from(k - 1) = k
      BY <1>1, <1>3, <2>2
    <3> QED
      BY <3>1
  <2> QED
    BY <2>1, <2>2
<1> DEFINE D == DOMAIN repos'[s]
<1>9. /\ \A j \in D : from(j) \in DOMAIN rowsWere \ {i} /\ repos'[s][j] = rowsWere[from(j)]
      /\ \A j, k \in D : j # k => from(j) # from(k)
      /\ \A k \in DOMAIN rowsWere \ {i} : \E j \in D : from(j) = k
  <2>1. D = 1..(n - 1) /\ DOMAIN rowsWere = 1..n
    BY <1>1, <1>5
  <2> HIDE DEF D, from, rowsWere, n
  <2> QED
    BY <2>1, <1>5, <1>6, <1>7, <1>8
<1> HIDE DEF from, n
<1>10. \A t \in AgentSet : t # s => repos'[t] = repos[t]
  BY <1>4
<1>11. repos' \in [AgentSet -> Seq(RepoId)]
  BY <1>2, <1>5
<1>12. \A t \in AgentSet : \A j \in DOMAIN repos'[t] : repos'[t][j] <= lastRepo
  BY <1>9, <1>10 DEF SetRows
<1>13. \A t \in AgentSet : \A j, k \in DOMAIN repos'[t] : j # k => repos'[t][j] # repos'[t][k]
  <2> SUFFICES ASSUME NEW t \in AgentSet, NEW j \in DOMAIN repos'[t], NEW k \in DOMAIN repos'[t], j # k
               PROVE  repos'[t][j] # repos'[t][k]
    OBVIOUS
  <2>1. CASE t # s
    BY <2>1, <1>10 DEF SetRows
  <2>2. CASE t = s
    <3>1. from(j) # from(k) /\ from(j) \in DOMAIN rowsWere /\ from(k) \in DOMAIN rowsWere
      BY <2>2, <1>9
    <3>2. rowsWere[from(j)] # rowsWere[from(k)]
      BY <3>1 DEF SetRows
    <3> QED
      BY <2>2, <3>2, <1>9
  <2> QED
    BY <2>1, <2>2
<1>14. \A j \in DOMAIN repos'["global"], k \in DOMAIN repos'["extra"] : repos'["global"][j] # repos'["extra"][k]
  <2>1. CASE s = "global"
    BY <2>1, <1>0, <1>9, <1>10 DEF SetRows
  <2>2. CASE s = "extra"
    BY <2>2, <1>0, <1>9, <1>10 DEF SetRows
  <2> QED
    BY <2>1, <2>2, <1>0
<1>15. SetRows'
  BY <1>11, <1>12, <1>13, <1>14 DEF SetRows
<1>16. {repos'[s][j] : j \in D} = {rowsWere[k] : k \in DOMAIN rowsWere} \ {rowsWere[i]}
  <2>1. \A k \in DOMAIN rowsWere \ {i} : rowsWere[k] # rowsWere[i]
    BY DEF SetRows
  <2>2. \A j \in D : repos'[s][j] \in {rowsWere[k] : k \in DOMAIN rowsWere} \ {rowsWere[i]}
    <3> HIDE DEF D, rowsWere
    <3> QED
      BY <2>1, <1>9
  <2>3. \A k \in DOMAIN rowsWere \ {i} : rowsWere[k] \in {repos'[s][j] : j \in D}
    <3> HIDE DEF D, rowsWere
    <3> QED
      BY <1>9
  <2> HIDE DEF D, rowsWere
  <2> QED
    BY <2>2, <2>3
<1>17. ToSet(repos'[s]) = ToSet(repos[s]) \ {repos[s][i]}
  BY <1>16 DEF ToSet
<1>18. \A t \in AgentSet : t # s => repos[s][i] \notin ToSet(repos[t]) /\ ToSet(repos'[t]) = ToSet(repos[t])
  BY <1>0, <1>10 DEF SetRows, ToSet
<1>19. RepoRows' = RepoRows \ {repos[s][i]}
  <2>1. RepoRows' = ToSet(repos'["global"]) \cup ToSet(repos'["extra"])
    BY DEF RepoRows
  <2> QED
    BY <2>1, <1>0, <1>17, <1>18 DEF RepoRows
<1> QED
  BY <1>15, <1>19

\* The rows of a deleted set go together.
LEMMA RowsAreGone ==
  ASSUME SetRows, extraSet' = FALSE, lastRepo' = lastRepo, repos' = [repos EXCEPT !["extra"] = <<>>]
  PROVE  SetRows' /\ RepoRows' = RepoRows \ ToSet(repos["extra"])
<1>0. AgentSet = {"global", "extra"} /\ repos \in [AgentSet -> Seq(RepoId)]
  BY DEF AgentSet, SetRows
<1>1. repos'["global"] = repos["global"] /\ repos'["extra"] = <<>>
  BY <1>0
<1>2. <<>> \in Seq(RepoId) /\ DOMAIN <<>> = {}
  OBVIOUS
<1>3. repos' \in [AgentSet -> Seq(RepoId)]
  BY <1>0, <1>2
<1>4. SetRows'
  <2>1. DOMAIN repos'["extra"] = {}
    BY <1>1, <1>2
  <2>2. \A t \in AgentSet : \A i \in DOMAIN repos'[t] : repos'[t][i] <= lastRepo
    BY <1>0, <1>1, <2>1 DEF SetRows
  <2>3. \A t \in AgentSet : \A i, j \in DOMAIN repos'[t] : i # j => repos'[t][i] # repos'[t][j]
    BY <1>0, <1>1, <2>1 DEF SetRows
  <2> QED
    BY <2>1, <2>2, <2>3, <1>3 DEF SetRows
<1>5. ToSet(repos'["extra"]) = {}
  BY <1>1, <1>2 DEF ToSet
<1>6. ToSet(repos["global"]) \cap ToSet(repos["extra"]) = {}
  BY DEF SetRows, ToSet
<1> QED
  BY <1>1, <1>4, <1>5, <1>6 DEF RepoRows

LEMMA InstallsKeepRows ==
  ASSUME RowsInv, UNCHANGED <<setRowVars, checkoutVars>>
  PROVE  RowsInv'
BY DEF RowsInv, RowsTyped, SetRows, SetsCheckedOut, CheckoutIsOf, RepoRows, setRowVars, checkoutVars

\* Rows and their directories go.
LEMMA CheckoutsGo ==
  ASSUME RowsInv, NEW rs, ReposGo(rs), RepoRows' = RepoRows \ rs,
         UNCHANGED <<lastRepo, found, pulls, remote, behind>>
  PROVE  SetsCheckedOut'
<1> SUFFICES ASSUME NEW r \in RepoId PROVE CheckoutIsOf(r)'
  BY DEF SetsCheckedOut
<1>1. CheckoutIsOf(r)
  BY DEF RowsInv, SetsCheckedOut
<1>2. /\ tree'[r] = (IF r \in rs THEN 0 ELSE tree[r]) /\ strays' = strays \ rs /\ repoDirs' = repoDirs \ rs
      /\ lastRepo' = lastRepo /\ found' = found /\ pulls' = pulls /\ behind' = behind
  BY DEF ReposGo
<1> QED
  BY <1>1, <1>2 DEF CheckoutIsOf

LEMMA RowsStay ==
  ASSUME SetRows, UNCHANGED <<extraSet, lastRepo, repos>>
  PROVE  SetRows' /\ RepoRows' = RepoRows
BY DEF SetRows, RepoRows

LEMMA ItemsKeepRows ==
  ASSUME RowsInv, NEW s \in AgentSet, NEW k \in Skill, ItemChanges(s, k)
  PROVE  RowsInv'
<1>1. UNCHANGED <<extraSet, repos, lastRepo, found, repoDirs, tree, pulls, remote, strays, behind>>
  BY DEF ItemChanges, checkoutVars
<1>2. items' \in [AgentSet -> SUBSET Skill]
  BY DEF ItemChanges, RowsInv, RowsTyped
<1>3. RowsTyped'
  BY <1>1, <1>2 DEF RowsInv, RowsTyped
<1>4. SetRows' /\ RepoRows' = RepoRows
  BY <1>1, RowsStay DEF RowsInv
<1>5. SetsCheckedOut'
  BY <1>1, <1>4 DEF RowsInv, SetsCheckedOut, CheckoutIsOf
<1> QED
  BY <1>3, <1>4, <1>5 DEF RowsInv

LEMMA AddedRepoKeepsRows ==
  ASSUME SetsAssumption, RowsInv, NEW s \in AgentSet, RepoIsAdded(s)
  PROVE  RowsInv'
<1> PICK id : id = lastRepo + 1
  OBVIOUS
<1>1. /\ id \in RepoId /\ lastRepo' = id /\ repos' = [repos EXCEPT ![s] = Append(@, id)]
      /\ pulls' = [pulls EXCEPT ![id] = "fetching"] /\ repoDirs' = repoDirs \cup {id}
      /\ UNCHANGED <<extraSet, items, found, tree, remote, strays, behind>>
  BY DEF RepoIsAdded
<1>2. SetRows' /\ RepoRows' = RepoRows \cup {id}
  BY <1>1, RowIsNew DEF RowsInv
<1>3. RowsTyped'
  BY <1>1 DEF RowsInv, RowsTyped
<1>4. lastRepo \in Int /\ \A r \in RepoId : r \in Int
  BY DEF RowsInv, SetRows, RepoId, SetsAssumption
<1>5. ASSUME NEW r \in RepoId PROVE CheckoutIsOf(r)'
  <2>1. CheckoutIsOf(r)
    BY DEF RowsInv, SetsCheckedOut
  <2>2. /\ pulls'[r] = (IF r = id THEN "fetching" ELSE pulls[r])
        /\ r > lastRepo' => r > lastRepo /\ r # id
        /\ r = id => r > lastRepo
    BY <1>1, <1>4 DEF RowsInv, RowsTyped
  <2> QED
    BY <2>1, <2>2, <1>1, <1>2 DEF CheckoutIsOf
<1> QED
  BY <1>2, <1>3, <1>5 DEF RowsInv, SetsCheckedOut

LEMMA ReposGoTyped ==
  ASSUME RowsTyped, NEW rs, ReposGo(rs), items' \in [AgentSet -> SUBSET Skill], UNCHANGED <<found, pulls, remote>>
  PROVE  RowsTyped'
<1>1. 0 \in 0..Len(InCommit)
  BY CommitsAre
<1>2. tree' \in [RepoId -> 0..Len(InCommit)]
  BY <1>1 DEF RowsTyped, ReposGo
<1> QED
  BY <1>2 DEF RowsTyped, ReposGo

LEMMA DeletedRepoKeepsRows ==
  ASSUME RowsInv, NEW s \in AgentSet, NEW r \in RepoId, RepoIsDeleted(s, r)
  PROVE  RowsInv'
<1>1. PICK i \in DOMAIN repos[s] : repos[s][i] = r /\ repos' = [repos EXCEPT ![s] = RemoveAt(@, i)]
  BY DEF RepoIsDeleted
<1>2. ReposGo({r}) /\ UNCHANGED <<extraSet, items, lastRepo, found, pulls, remote, behind>>
  BY DEF RepoIsDeleted
<1>3. SetRows' /\ RepoRows' = RepoRows \ {r}
  BY <1>1, <1>2, RowIsGone DEF RowsInv
<1>4. SetsCheckedOut'
  BY <1>2, <1>3, CheckoutsGo
<1>5. items' \in [AgentSet -> SUBSET Skill]
  BY <1>2 DEF RowsInv, RowsTyped
<1>6. RowsTyped'
  BY <1>2, <1>5, ReposGoTyped DEF RowsInv
<1> QED
  BY <1>3, <1>4, <1>6 DEF RowsInv

LEMMA DeletedSetKeepsRows ==
  ASSUME RowsInv, SetIsDeleted
  PROVE  RowsInv'
<1>1. /\ extraSet' = FALSE /\ repos' = [repos EXCEPT !["extra"] = <<>>]
      /\ items' = [items EXCEPT !["extra"] = {}] /\ ReposGo(ToSet(repos["extra"]))
      /\ UNCHANGED <<lastRepo, found, pulls, remote, behind>>
  BY DEF SetIsDeleted
<1>2. SetRows' /\ RepoRows' = RepoRows \ ToSet(repos["extra"])
  BY <1>1, RowsAreGone DEF RowsInv
<1>3. SetsCheckedOut'
  BY <1>1, <1>2, CheckoutsGo
<1>4. items' \in [AgentSet -> SUBSET Skill]
  BY <1>1 DEF RowsInv, RowsTyped
<1>5. RowsTyped'
  BY <1>1, <1>4, ReposGoTyped DEF RowsInv
<1> QED
  BY <1>2, <1>3, <1>5 DEF RowsInv

LEMMA SweepKeepsRows ==
  ASSUME RowsInv, StraysAreSwept
  PROVE  RowsInv'
<1>1. ReposGo(repoDirs \ RepoRows) /\ UNCHANGED <<extraSet, items, repos, lastRepo, found, pulls, remote, behind>>
  BY DEF StraysAreSwept, setRowVars
<1>2. SetRows' /\ RepoRows' = RepoRows
  BY <1>1, RowsStay DEF RowsInv
<1>3. RepoRows' = RepoRows \ (repoDirs \ RepoRows)
  BY <1>2
<1>4. SetsCheckedOut'
  BY <1>1, <1>3, CheckoutsGo
<1>5. items' \in [AgentSet -> SUBSET Skill]
  BY <1>1 DEF RowsInv, RowsTyped
<1>6. RowsTyped'
  BY <1>1, <1>5, ReposGoTyped DEF RowsInv
<1> QED
  BY <1>2, <1>4, <1>6 DEF RowsInv

LEMMA PullKeepsRows ==
  ASSUME SetsAssumption, RowsInv, NEW r \in RepoId, PullBegins(r) \/ FetchEnds(r) \/ FetchFails(r) \/ PullIsRecorded(r)
  PROVE  RowsInv'
<1>1. UNCHANGED <<extraSet, items, repos, lastRepo, remote>>
  BY DEF PullBegins, FetchEnds, FetchFails, PullIsRecorded, setRowVars
<1>2. SetRows' /\ RepoRows' = RepoRows
  BY <1>1, RowsStay DEF RowsInv
<1>3. 0 \in 0..Len(InCommit) /\ remote \in Commit /\ \A c \in Commit : c \in 0..Len(InCommit)
  BY CommitsAre DEF RowsInv, RowsTyped
<1>4. /\ pulls \in [RepoId -> {"no", "fetching", "fetched"}] /\ tree \in [RepoId -> 0..Len(InCommit)]
      /\ found \in [RepoId -> [commit : 0..Len(InCommit), skills : SUBSET Skill]]
      /\ items \in [AgentSet -> SUBSET Skill]
      /\ repoDirs \subseteq RepoId /\ strays \subseteq RepoId
  BY DEF RowsInv, RowsTyped
<1>5. \A q \in RepoId : CheckoutIsOf(q)
  BY DEF RowsInv, SetsCheckedOut
<1>6. \A q \in RepoRows : ~(q > lastRepo)
  <2>1. SetRows
    BY DEF RowsInv
  <2>2. \A q \in RepoRows : q \in RepoId /\ q <= lastRepo
    BY <2>1, RowsOfASet
  <2>3. lastRepo \in Int /\ \A q \in RepoId : q \in Int
    BY <2>1 DEF SetRows, RepoId
  <2> QED
    BY <2>2, <2>3
<1>7. CASE PullBegins(r)
  <2>1. /\ r \in RepoRows /\ pulls[r] = "no" /\ pulls' = [pulls EXCEPT ![r] = "fetching"]
        /\ repoDirs' = repoDirs \cup {r} /\ strays' = strays \ {r} /\ UNCHANGED <<found, tree, behind>>
    BY <1>7 DEF PullBegins, setRowVars
  <2>2. RowsTyped'
    BY <2>1, <1>1, <1>3, <1>4 DEF RowsTyped
  <2>3. ASSUME NEW q \in RepoId PROVE CheckoutIsOf(q)'
    <3>1. pulls'[q] = (IF q = r THEN "fetching" ELSE pulls[q])
      BY <2>1, <1>4
    <3> QED
      BY <3>1, <2>1, <1>1, <1>2, <1>5, <1>6 DEF CheckoutIsOf
  <2> QED
    BY <2>2, <2>3, <1>2 DEF RowsInv, SetsCheckedOut
<1>8. CASE FetchEnds(r)
  <2>1. /\ pulls[r] = "fetching" /\ pulls' = [pulls EXCEPT ![r] = "fetched"]
        /\ repoDirs' = (IF r \in RepoRows THEN repoDirs \cup {r} ELSE repoDirs \ {r})
        /\ tree' = [tree EXCEPT ![r] = IF r \in RepoRows THEN remote ELSE 0]
        /\ strays' = strays \ {r} /\ UNCHANGED <<found, behind>>
    BY <1>8 DEF FetchEnds, setRowVars
  <2>2. RowsTyped'
    <3>1. pulls' \in [RepoId -> {"no", "fetching", "fetched"}] /\ tree' \in [RepoId -> 0..Len(InCommit)]
      BY <2>1, <1>3, <1>4
    <3> QED
      BY <3>1, <2>1, <1>1, <1>3, <1>4 DEF RowsTyped
  <2>3. ASSUME NEW q \in RepoId PROVE CheckoutIsOf(q)'
    <3>1. /\ pulls'[q] = (IF q = r THEN "fetched" ELSE pulls[q])
          /\ tree'[q] = (IF q = r THEN (IF r \in RepoRows THEN remote ELSE 0) ELSE tree[q])
      BY <2>1, <1>4
    <3>2. CASE q = r
      <4>1. ~(r > lastRepo)
        BY <2>1, <1>5 DEF CheckoutIsOf
      <4> QED
        BY <4>1, <3>1, <3>2, <2>1, <1>1, <1>2, <1>3 DEF CheckoutIsOf
    <3>3. CASE q # r
      BY <3>1, <3>3, <2>1, <1>1, <1>2, <1>5 DEF CheckoutIsOf
    <3> QED
      BY <3>2, <3>3
  <2> QED
    BY <2>2, <2>3, <1>2 DEF RowsInv, SetsCheckedOut
<1>9. CASE FetchFails(r)
  <2>1. /\ pulls[r] = "fetching" /\ pulls' = [pulls EXCEPT ![r] = "no"] /\ UNCHANGED <<found, tree, behind>>
    BY <1>9 DEF FetchFails, setRowVars
  <2>2. \/ UNCHANGED <<repoDirs, strays>>
        \/ repoDirs' = repoDirs \cup {r} /\ strays' = strays \cup {r}
    BY <1>9 DEF FetchFails
  <2>3. RowsTyped'
    BY <2>1, <2>2, <1>1, <1>3, <1>4 DEF RowsTyped
  <2>4. ASSUME NEW q \in RepoId PROVE CheckoutIsOf(q)'
    <3>1. pulls'[q] = (IF q = r THEN "no" ELSE pulls[q])
      BY <2>1, <1>4
    <3>2. q \in repoDirs' \ RepoRows => q \in strays'
      BY <2>2, <1>5 DEF CheckoutIsOf
    <3> QED
      BY <3>1, <3>2, <2>1, <1>1, <1>2, <1>5 DEF CheckoutIsOf
  <2> QED
    BY <2>3, <2>4, <1>2 DEF RowsInv, SetsCheckedOut
<1>10. CASE PullIsRecorded(r)
  <2>1. /\ pulls[r] = "fetched" /\ pulls' = [pulls EXCEPT ![r] = "no"]
        /\ UNCHANGED <<repoDirs, tree, strays>>
        /\ behind' = (IF r \in RepoRows THEN behind \ {r} ELSE behind)
    BY <1>10 DEF PullIsRecorded
  <2>2. found' = IF r \in RepoRows THEN [found EXCEPT ![r] = [commit |-> tree[r], skills |-> InCommit[tree[r]]]] ELSE found
    BY <1>10 DEF PullIsRecorded
  <2>3. r \in RepoRows => tree[r] \in Commit
    BY <2>1, <1>5 DEF CheckoutIsOf
  <2>4. \A c \in Commit : InCommit[c] \subseteq Skill
    BY CommitsAre DEF InCommit, SetsAssumption
  <2>5. found' \in [RepoId -> [commit : 0..Len(InCommit), skills : SUBSET Skill]]
    <3>1. CASE r \in RepoRows
      <4>1. [commit |-> tree[r], skills |-> InCommit[tree[r]]] \in [commit : 0..Len(InCommit), skills : SUBSET Skill]
        BY <3>1, <2>3, <2>4, <1>4
      <4>2. found' = [found EXCEPT ![r] = [commit |-> tree[r], skills |-> InCommit[tree[r]]]]
        BY <2>2, <3>1
      <4> PICK f : f = [commit |-> tree[r], skills |-> InCommit[tree[r]]]
        OBVIOUS
      <4> QED
        BY <4>1, <4>2, <1>4
    <3>2. CASE r \notin RepoRows
      BY <2>2, <3>2, <1>4
    <3> QED
      BY <3>1, <3>2
  <2>6. RowsTyped'
    BY <2>1, <2>5, <1>1, <1>3, <1>4 DEF RowsTyped
  <2>7. ASSUME NEW q \in RepoId PROVE CheckoutIsOf(q)'
    <3>1. /\ pulls'[q] = (IF q = r THEN "no" ELSE pulls[q])
          /\ found'[q].commit = (IF q = r /\ r \in RepoRows THEN tree[r] ELSE found[q].commit)
      BY <2>1, <2>2, <1>4
    <3>2. CASE q = r
      <4>1. ~(r > lastRepo)
        BY <2>1, <1>5 DEF CheckoutIsOf
      <4> QED
        BY <4>1, <3>1, <3>2, <2>1, <1>1, <1>2, <1>5 DEF CheckoutIsOf
    <3>3. CASE q # r
      BY <3>1, <3>3, <2>1, <1>1, <1>2, <1>5 DEF CheckoutIsOf
    <3> QED
      BY <3>2, <3>3
  <2> QED
    BY <2>6, <2>7, <1>2 DEF RowsInv, SetsCheckedOut
<1> QED
  BY <1>7, <1>8, <1>9, <1>10

LEMMA CutKeepsRows ==
  ASSUME RowsInv, PullsAreCut
  PROVE  RowsInv'
<1>1. PICK lost \in SUBSET {r \in RepoId : pulls[r] = "fetching"} :
        /\ tree' = [r \in RepoId |-> IF r \in lost THEN 0 ELSE tree[r]]
        /\ behind' = behind \cup lost \cup {r \in RepoId : pulls[r] = "fetched"}
  BY DEF PullsAreCut
<1>2. /\ UNCHANGED <<extraSet, items, repos, lastRepo, found, repoDirs, remote>>
      /\ pulls' = [r \in RepoId |-> "no"] /\ strays' = strays \cup {r \in repoDirs : pulls[r] = "fetching"}
  BY DEF PullsAreCut, setRowVars
<1>3. SetRows' /\ RepoRows' = RepoRows
  BY <1>2, RowsStay DEF RowsInv
<1>4. RowsTyped'
  <2>1. 0 \in 0..Len(InCommit)
    BY CommitsAre
  <2>2. tree' \in [RepoId -> 0..Len(InCommit)]
    BY <1>1, <2>1 DEF RowsInv, RowsTyped
  <2> QED
    BY <1>2, <2>2 DEF RowsInv, RowsTyped
<1>5. ASSUME NEW q \in RepoId PROVE CheckoutIsOf(q)'
  <2>1. CheckoutIsOf(q)
    BY DEF RowsInv, SetsCheckedOut
  <2>2. pulls[q] \in {"no", "fetching", "fetched"}
    BY DEF RowsInv, RowsTyped
  <2>3. /\ pulls'[q] = "no" /\ tree'[q] = (IF q \in lost THEN 0 ELSE tree[q])
        /\ q \in lost => pulls[q] = "fetching"
        /\ q \notin behind' => q \notin behind /\ q \notin lost /\ pulls[q] # "fetched"
        /\ q \in behind' => q \in behind \/ pulls[q] # "no"
    BY <1>1, <1>2
  <2> QED
    BY <2>1, <2>2, <2>3, <1>2, <1>3 DEF CheckoutIsOf
<1> QED
  BY <1>3, <1>4, <1>5 DEF RowsInv, SetsCheckedOut

LEMMA RemoteKeepsRows ==
  ASSUME RowsInv, RemoteMoves
  PROVE  RowsInv'
<1>1. remote' \in Commit
  BY DEF RemoteMoves
<1>2. UNCHANGED <<extraSet, items, repos, lastRepo, found, repoDirs, tree, pulls, strays, behind>>
  BY DEF RemoteMoves, setRowVars
<1>3. SetRows' /\ RepoRows' = RepoRows
  BY <1>2, RowsStay DEF RowsInv
<1> QED
  BY <1>1, <1>2, <1>3 DEF RowsInv, RowsTyped, SetsCheckedOut, CheckoutIsOf

(***************************************************************************)
(* The home.                                                               *)
(***************************************************************************)

LEMMA RowsKeepHome ==
  ASSUME HomeInv, UNCHANGED homeVars
  PROVE  HomeInv'
BY DEF HomeInv, HomeTyped, HomeIsRecorded, homeVars

\* What is in no set.
LEMMA PlainSources ==
  /\ None \in Source /\ Own \in Source /\ <<"image">> \in Source
  /\ None \notin SetSources /\ Own \notin SetSources /\ <<"image">> \notin SetSources
  /\ None # Own /\ None # <<"image">> /\ Own # <<"image">> /\ SetSources \subseteq Source
BY SourcesDiffer DEF Source, SetSources

LEMMA PackedKeepsHome ==
  ASSUME SetsInv, InstallBegins
  PROVE  HomeInv'
<1>1. Packed = [k \in Skill |-> Ranked(k)] /\ \A k \in Skill : Ranked(k) \in SetSources \cup {None}
  BY PackedIsRanked, TypesHold
<1>2. bundle' = Packed /\ expected' = Packed /\ install' = "setup" /\ UNCHANGED <<home, managed, todo>>
  BY <1>1 DEF InstallBegins
<1> HIDE DEF Packed, Ranked
<1>3. Packed \in [Skill -> Source] /\ \A k \in Skill : Packed[k] \notin {Own, <<"image">>}
  BY <1>1, PlainSources
<1> QED
  BY <1>2, <1>3 DEF SetsInv, HomeInv, HomeTyped, HomeIsRecorded

\* The steps of the install, and of the box.
LEMMA InstallKeepsHome ==
  ASSUME SetsAssumption, HomeInv,
         \/ SetupFails \/ SetIsUnpacked \/ RecordIsRemoved \/ RecordIsWritten \/ UnitsAreMoved \/ InstallEnds
         \/ BoxGoesDown
  PROVE  HomeInv'
<1>0. HomeTyped /\ HomeIsRecorded
  BY DEF HomeInv
<1>1. CASE SetupFails
  BY <1>0, <1>1 DEF HomeInv, HomeTyped, HomeIsRecorded, SetupFails
<1>2. CASE SetIsUnpacked
  BY <1>0, <1>2 DEF HomeInv, HomeTyped, HomeIsRecorded, SetIsUnpacked, InTheBox
<1>3. CASE RecordIsRemoved
  <2>1. \A k \in Skill : home[k] \notin SetSources
    BY <1>0, <1>3, PlainSources DEF HomeIsRecorded, RecordIsRemoved
  <2> QED
    BY <2>1, <1>0, <1>3 DEF HomeInv, HomeTyped, HomeIsRecorded, RecordIsRemoved, InTheBox
<1>4. CASE RecordIsWritten
  <2>1. \A k \in Skill : home[k] \notin SetSources
    BY <1>0, <1>4 DEF HomeIsRecorded, RecordIsWritten
  <2> QED
    BY <2>1, <1>0, <1>4 DEF HomeInv, HomeTyped, HomeIsRecorded, RecordIsWritten, InTheBox
<1>5. CASE UnitsAreMoved
  <2>1. ImageSkill \subseteq Skill
    BY DEF SetsAssumption
  <2>2. /\ install = "moving" /\ todo = {} /\ install' = "image" /\ todo' = {k \in ImageSkill : bundle[k] = None}
        /\ UNCHANGED <<home, managed, bundle, expected>>
    BY <1>5 DEF UnitsAreMoved, InTheBox
  <2> QED
    BY <2>1, <2>2, <1>0 DEF HomeInv, HomeTyped, HomeIsRecorded
<1>6. CASE InstallEnds
  BY <1>0, <1>6 DEF HomeInv, HomeTyped, HomeIsRecorded, InstallEnds, InTheBox
<1>7. CASE BoxGoesDown
  <2>1. /\ install' = "none" /\ todo' = {} /\ UNCHANGED <<managed, bundle, expected>>
        /\ home' \in [Skill -> Source] /\ \A k \in Skill : home'[k] \in {None, home[k]}
    BY <1>0, <1>7, PlainSources DEF BoxGoesDown, HomeTyped
  <2> QED
    BY <2>1, <1>0, PlainSources DEF HomeInv, HomeTyped, HomeIsRecorded
<1> QED
  BY <1>1, <1>2, <1>3, <1>4, <1>5, <1>6, <1>7

\* A step with one skill.
LEMMA UnitKeepsHome ==
  ASSUME HomeInv, NEW k \in Skill,
         UnitIsCleared(k) \/ UnitIsMoved(k) \/ ImageSkillIsCopied(k) \/ AgentChangesSkill(k)
  PROVE  HomeInv'
<1>0. HomeTyped /\ HomeIsRecorded
  BY DEF HomeInv
<1>1. CASE UnitIsCleared(k)
  BY <1>0, <1>1, PlainSources DEF HomeInv, HomeTyped, HomeIsRecorded, UnitIsCleared, InTheBox
<1>2. CASE UnitIsMoved(k)
  BY <1>0, <1>2, PlainSources DEF HomeInv, HomeTyped, HomeIsRecorded, UnitIsMoved, InTheBox
<1>3. CASE ImageSkillIsCopied(k)
  BY <1>0, <1>3, PlainSources DEF HomeInv, HomeTyped, HomeIsRecorded, ImageSkillIsCopied, InTheBox
<1>4. CASE AgentChangesSkill(k)
  BY <1>0, <1>4, PlainSources DEF HomeInv, HomeTyped, HomeIsRecorded, AgentChangesSkill
<1> QED
  BY <1>1, <1>2, <1>3, <1>4

(***************************************************************************)
(* What the sets keep.                                                     *)
(***************************************************************************)

LEMMA SetsAreEmpty == SetsAssumption /\ SetsInit => SetsInv
<1> SUFFICES ASSUME SetsAssumption, SetsInit PROVE RowsInv /\ HomeInv
  BY DEF SetsInv
<1>0. 0 \in 0..Len(InCommit) /\ 1 \in Commit
  BY CommitsAre
<1>1. RowsTyped
  <2>1. NotFound \in [commit : 0..Len(InCommit), skills : SUBSET Skill]
    BY <1>0 DEF NotFound
  <2> QED
    BY <1>0, <2>1 DEF SetsInit, RowsTyped
<1>2. SetRows
  <2>1. <<>> \in Seq(RepoId) /\ DOMAIN <<>> = {}
    OBVIOUS
  <2>2. \A s \in AgentSet : DOMAIN repos[s] = {}
    BY <2>1 DEF SetsInit
  <2>3. repos \in [AgentSet -> Seq(RepoId)]
    BY <2>1 DEF SetsInit
  <2>4. lastRepo \in 0..MaxRepositories /\ extraSet \in BOOLEAN
    BY DEF SetsInit, SetsAssumption
  <2>5. "global" \in AgentSet
    BY DEF AgentSet
  <2> QED
    BY <2>2, <2>3, <2>4, <2>5 DEF SetRows
<1>3. RepoRows = {}
  <2>1. repos["global"] = <<>> /\ repos["extra"] = <<>>
    BY DEF SetsInit, AgentSet
  <2> QED
    BY <2>1 DEF RepoRows, ToSet
<1>4. SetsCheckedOut
  BY <1>3 DEF SetsInit, SetsCheckedOut, CheckoutIsOf, NotFound
<1>5. HomeInv
  BY PlainSources DEF SetsInit, HomeInv, HomeTyped, HomeIsRecorded
<1> QED
  BY <1>1, <1>2, <1>4, <1>5 DEF RowsInv

LEMMA SetsInvStays ==
  ASSUME SetsAssumption, SetsInv, [SetsNext]_setVars
  PROVE  SetsInv'
<1>0. RowsInv /\ HomeInv
  BY DEF SetsInv
<1> SUFFICES RowsInv' /\ HomeInv'
  BY DEF SetsInv
<1>1. CASE \E s \in AgentSet : (\E k \in Skill : ItemChanges(s, k)) \/ RepoIsAdded(s) \/ \E r \in RepoId : RepoIsDeleted(s, r)
  <2>1. UNCHANGED homeVars
    BY <1>1 DEF ItemChanges, RepoIsAdded, RepoIsDeleted
  <2> QED
    BY <1>0, <1>1, <2>1, RowsKeepHome, ItemsKeepRows, AddedRepoKeepsRows, DeletedRepoKeepsRows
<1>2. CASE SetIsDeleted \/ StraysAreSwept \/ RemoteMoves \/ PullsAreCut
  <2>1. UNCHANGED homeVars
    BY <1>2 DEF SetIsDeleted, StraysAreSwept, RemoteMoves, PullsAreCut
  <2> QED
    BY <1>0, <1>2, <2>1, RowsKeepHome, DeletedSetKeepsRows, SweepKeepsRows, RemoteKeepsRows, CutKeepsRows
<1>3. CASE \E r \in RepoId : PullBegins(r) \/ FetchEnds(r) \/ FetchFails(r) \/ PullIsRecorded(r)
  <2>1. UNCHANGED homeVars
    BY <1>3 DEF PullBegins, FetchEnds, FetchFails, PullIsRecorded
  <2> QED
    BY <1>0, <1>3, <2>1, RowsKeepHome, PullKeepsRows
<1>4. CASE InstallBegins
  <2>1. UNCHANGED <<setRowVars, checkoutVars>>
    BY <1>4 DEF InstallBegins
  <2> QED
    BY <1>0, <1>4, <2>1, InstallsKeepRows, PackedKeepsHome
<1>5. CASE \/ SetupFails \/ SetIsUnpacked \/ RecordIsRemoved \/ RecordIsWritten \/ UnitsAreMoved \/ InstallEnds
           \/ BoxGoesDown
  <2>1. UNCHANGED <<setRowVars, checkoutVars>>
    BY <1>5 DEF SetupFails, SetIsUnpacked, RecordIsRemoved, RecordIsWritten, UnitsAreMoved, InstallEnds, BoxGoesDown, InTheBox
  <2> QED
    BY <1>0, <1>5, <2>1, InstallsKeepRows, InstallKeepsHome
<1>6. CASE \E k \in Skill : UnitIsCleared(k) \/ UnitIsMoved(k) \/ ImageSkillIsCopied(k) \/ AgentChangesSkill(k)
  <2>1. UNCHANGED <<setRowVars, checkoutVars>>
    BY <1>6 DEF UnitIsCleared, UnitIsMoved, ImageSkillIsCopied, AgentChangesSkill, InTheBox
  <2> QED
    BY <1>0, <1>6, <2>1, InstallsKeepRows, UnitKeepsHome
<1>7. CASE UNCHANGED setVars
  BY <1>0, <1>7, InstallsKeepRows, RowsKeepHome DEF setVars
<1> QED
  BY <1>1, <1>2, <1>3, <1>4, <1>5, <1>6, <1>7 DEF SetsNext

LEMMA CheckoutsMatch ==
  ASSUME SetsInv
  PROVE  SetsTypeOK /\ CheckoutsAreRecorded
BY TypesHold DEF SetsInv, RowsInv, SetsCheckedOut, CheckoutIsOf, CheckoutsAreRecorded

LEMMA EndedInstallIsTheSet ==
  ASSUME SetsInv, InstallEnds
  PROVE  HomeIsTheSet'
<1>1. /\ install = "image" /\ todo = {} /\ UNCHANGED <<home, managed, bundle, expected>>
  BY DEF InstallEnds, InTheBox
<1>2. HomeIsRecorded /\ home \in [Skill -> Source]
  BY DEF SetsInv, HomeInv, HomeTyped
<1>3. ASSUME NEW k \in Skill
      PROVE  /\ expected'[k] # None => home'[k] = expected'[k]
             /\ expected'[k] = None /\ k \in ImageSkill => home'[k] = <<"image">>
             /\ expected'[k] = None /\ k \notin ImageSkill => home'[k] \in {None, Own}
  <2>1. bundle[k] = expected[k] /\ (k \in managed <=> bundle[k] # None)
    BY <1>1, <1>2 DEF HomeIsRecorded
  <2>2. bundle[k] # None => home[k] = bundle[k]
    BY <1>1, <1>2, <2>1 DEF HomeIsRecorded
  <2>3. k \in ImageSkill /\ bundle[k] = None => home[k] = <<"image">>
    BY <1>1, <1>2 DEF HomeIsRecorded
  <2>4. k \notin ImageSkill /\ bundle[k] = None => home[k] \in {None, Own}
    BY <1>2, <2>1 DEF HomeIsRecorded, SetSources
  <2>5. home'[k] = home[k] /\ expected'[k] = expected[k]
    BY <1>1
  <2> QED
    BY <2>1, <2>2, <2>3, <2>4, <2>5
<1> QED
  BY <1>3 DEF HomeIsTheSet

LEMMA AgentKeepsItsSkill ==
  ASSUME SetsInv, [SetsNext]_setVars
  PROVE  OwnSkillStays
<1>0. HomeIsRecorded /\ home \in [Skill -> Source]
  BY DEF SetsInv, HomeInv, HomeTyped
<1> SUFFICES ASSUME NEW k \in Skill, home[k] = Own, home'[k] # Own
             PROVE  k \in managed \cup ImageSkill \/ bundle[k] # None \/ install = "installed"
  BY DEF OwnSkillStays
<1>1. CASE UNCHANGED home
  BY <1>1
<1>2. CASE \E u \in Skill : UnitIsCleared(u) \/ UnitIsMoved(u) \/ ImageSkillIsCopied(u) \/ AgentChangesSkill(u)
  <2>1. PICK u \in Skill : UnitIsCleared(u) \/ UnitIsMoved(u) \/ ImageSkillIsCopied(u) \/ AgentChangesSkill(u)
    BY <1>2
  <2>2. u = k
    BY <2>1, <1>0 DEF UnitIsCleared, UnitIsMoved, ImageSkillIsCopied, AgentChangesSkill
  <2>3. \/ install = "clearing" /\ k \in todo
        \/ install = "moving" /\ k \in todo
        \/ install = "image" /\ k \in todo
        \/ install = "installed"
    BY <2>1, <2>2 DEF UnitIsCleared, UnitIsMoved, ImageSkillIsCopied, AgentChangesSkill
  <2> QED
    BY <2>3, <1>0 DEF HomeIsRecorded
<1>3. CASE BoxGoesDown
  <2>1. install \in {"moving", "image"} /\ k \in todo
    BY <1>3 DEF BoxGoesDown
  <2> QED
    BY <1>0, <2>1 DEF HomeIsRecorded
<1>4. CASE UNCHANGED homeVars
  BY <1>1, <1>4 DEF homeVars
<1> QED
  BY <1>1, <1>2, <1>3, <1>4
     DEF SetsNext, setVars, ItemChanges, RepoIsAdded, RepoIsDeleted, SetIsDeleted, StraysAreSwept, RemoteMoves,
         PullsAreCut, PullBegins, FetchEnds, FetchFails, PullIsRecorded, InstallBegins, SetupFails, SetIsUnpacked,
         RecordIsRemoved, RecordIsWritten, UnitsAreMoved, InstallEnds

\* An install ends with the skills of the sets as they stood at its setup, by their
\* order of strength, above those of the image and the agent's own, however the installs
\* before it ended.  The agent keeps a skill of its own unless the sets, the image or an
\* earlier install had one of its name.  And the row of a repository shows what is
\* checked out, except between the two and after a crash there (agents.ts,
\* skill-repos.ts, agentset.ts).
THEOREM SetsAreAlwaysInstalled == SetsSpec => SetsAreInstalled
<1>1. SetsInit => SetsInv
  BY SetsAreEmpty, SetsAssumption
<1>2. SetsInv /\ [SetsNext]_setVars => SetsInv'
  BY SetsInvStays, SetsAssumption
<1>3. SetsInv => SetsTypeOK /\ CheckoutsAreRecorded
  BY CheckoutsMatch
<1>4. SetsInv /\ [SetsNext]_setVars => [(InstallEnds => HomeIsTheSet') /\ OwnSkillStays]_setVars
  BY EndedInstallIsTheSet, AgentKeepsItsSkill
<1> QED
  BY <1>1, <1>2, <1>3, <1>4, PTL DEF SetsSpec, SetsAreInstalled

(***************************************************************************)
(* The anchors of the comments.  A comment keeps the text of its line at   *)
(* the same place of its context.  Dropping one refused move at a time     *)
(* ends, after as many steps as there are lines at the most, with moves    *)
(* of which none is refused: no two comments meet.  And when some of them  *)
(* are made, those that were refused are refused still, which is why a     *)
(* second check changes nothing.                                           *)
(***************************************************************************)

\* A set of lines has a first one.
LEMMA FirstLine ==
  ASSUME NEW S, S \subseteq Nat, S # {}
  PROVE  \E m \in S : \A k \in S : m <= k
<1>1. \E x \in S : \A y \in S : ~ (<<y, x>> \in OpToRel(<, Nat))
  BY NatLessThanWellFounded, WFMin
<1>2. PICK m \in S : \A y \in S : ~ (<<y, m>> \in OpToRel(<, Nat))
  BY <1>1
<1>3. \A y \in S : ~ (y < m)
  <2> TAKE y \in S
  <2>1. y < m => <<y, m>> \in OpToRel(<, Nat)
    BY DEF OpToRel
  <2> QED
    BY <2>1, <1>2
<1> QED
  BY <1>3

\* One step drops a refused move, while there is one.
DropsTo(moves, lines, rest) ==
  \/ Refused(moves, lines) = {} /\ rest = moves
  \/ \E one \in Refused(moves, lines) : rest = [l \in DOMAIN moves \ {one} |-> moves[l]]

LEMMA DropsOne ==
  ASSUME NEW moves, DOMAIN moves \subseteq Nat, NEW lines
  PROVE  DropsTo(moves, lines, DropOne(moves, lines))
<1> DEFINE bad == Refused(moves, lines)
           one == CHOOSE l \in bad : \A k \in bad : l <= k
<1>1. bad \subseteq Nat
  BY DEF Refused
<1>2. CASE bad = {}
  BY <1>2 DEF DropOne, DropsTo
<1>3. CASE bad # {}
  <2> HIDE DEF bad
  <2>1. one \in bad
    BY <1>1, <1>3, FirstLine
  <2>2. DropOne(moves, lines) = [l \in DOMAIN moves \ {one} |-> moves[l]]
    BY <1>3 DEF DropOne, bad
  <2> HIDE DEF one
  <2> QED
    BY <2>1, <2>2 DEF bad, DropsTo
<1> QED
  BY <1>2, <1>3

\* The moves that are left after n drops.
Left(f, moves, lines, N) == f = [n \in 0..N |-> IF n = 0 THEN moves ELSE DropOne(f[n - 1], lines)]

LEMMA DropsExist ==
  ASSUME NEW moves, NEW lines, Cardinality(lines) \in Nat
  PROVE  \E f : Left(f, moves, lines, Cardinality(lines)) /\ AllowedMoves(moves, lines) = f[Cardinality(lines)]
<1> DEFINE Fill(f, N) == f = [n \in 0..N |-> IF n = 0 THEN moves ELSE DropOne(f[n - 1], lines)]
           Fillable == {N \in Nat : \E f : Fill(f, N)}
           C == Cardinality(lines)
<1>1. Nat \subseteq Fillable
  <2>1. 0 \in Fillable
    <3>1. Fill([n \in 0..0 |-> moves], 0)
      OBVIOUS
    <3> QED
      BY <3>1
  <2>2. ASSUME NEW N \in Nat, N \in Fillable PROVE N + 1 \in Fillable
    <3>1. PICK f : Fill(f, N)
      BY <2>2
    <3> DEFINE g == [n \in 0..(N + 1) |-> IF n = N + 1 THEN DropOne(f[N], lines) ELSE f[n]]
    <3>2. \A n \in 0..(N + 1) : g[n] = IF n = 0 THEN moves ELSE DropOne(g[n - 1], lines)
      <4> TAKE n \in 0..(N + 1)
      <4>1. CASE n = N + 1
        <5>1. g[n - 1] = f[N] /\ n # 0 /\ g[n] = DropOne(f[N], lines)
          BY <4>1
        <5> QED
          BY <5>1, <4>1
      <4>2. CASE n \in 0..N
        <5>1. g[n] = f[n]
          BY <4>2
        <5>2. n # 0 => g[n - 1] = f[n - 1]
          BY <4>2
        <5>3. f[n] = IF n = 0 THEN moves ELSE DropOne(f[n - 1], lines)
          BY <3>1, <4>2
        <5> QED
          BY <5>1, <5>2, <5>3
      <4> QED
        BY <4>1, <4>2
    <3>3. Fill(g, N + 1)
      BY <3>2
    <3> HIDE DEF g, Fill
    <3> QED
      BY <3>3
  <2> HIDE DEF Fillable
  <2> QED
    BY <2>1, <2>2, CountsUpTo
<1> DEFINE filled == CHOOSE f : Fill(f, C)
<1>2. Fill(filled, C)
  BY <1>1
<1>3. AllowedMoves(moves, lines) = filled[C]
  BY DEF AllowedMoves
<1> HIDE DEF filled
<1> QED
  BY <1>2, <1>3 DEF Left

\* Every move of these lines.
Only(moves, S) == [l \in S |-> moves[l]]

\* What is left is refused no more, and a move that is refused in no company of what is
\* left is left itself.
LEMMA AllowedMovesAre ==
  ASSUME NEW moves, NEW lines, IsFiniteSet(lines), lines \subseteq Nat, DOMAIN moves \subseteq lines,
         moves = Only(moves, DOMAIN moves)
  PROVE  LET a == AllowedMoves(moves, lines)
         IN  /\ DOMAIN a \subseteq DOMAIN moves /\ a = Only(moves, DOMAIN a)
             /\ Refused(a, lines) = {}
             /\ \A X \in SUBSET DOMAIN moves :
                  (\A Y \in SUBSET DOMAIN moves :
                     X \subseteq Y /\ DOMAIN a \subseteq Y => X \cap Refused(Only(moves, Y), lines) = {})
                  => X \subseteq DOMAIN a
<1> DEFINE C == Cardinality(lines)
           M == DOMAIN moves
<1>0. C \in Nat /\ IsFiniteSet(M) /\ Cardinality(M) \in Nat /\ Cardinality(M) <= C
  BY FS_CardinalityType, FS_Subset
<1> DEFINE a == AllowedMoves(moves, lines)
<1>1. PICK f : Left(f, moves, lines, C) /\ a = f[C]
  BY <1>0, DropsExist
<1>2. f[0] = moves /\ \A n \in Nat : n + 1 <= C => f[n + 1] = DropOne(f[n], lines)
  <2>1. f = [n \in 0..C |-> IF n = 0 THEN moves ELSE DropOne(f[n - 1], lines)]
    BY <1>1 DEF Left
  <2>2. f[0] = moves
    BY <1>0, <2>1
  <2>3. ASSUME NEW n \in Nat, n + 1 <= C PROVE f[n + 1] = DropOne(f[n], lines)
    <3>1. n + 1 \in 0..C /\ n + 1 # 0 /\ (n + 1) - 1 = n
      BY <1>0, <2>3
    <3> QED
      BY <3>1, <2>1
  <2> QED
    BY <2>2, <2>3
<1> DEFINE Good(n) ==
             /\ DOMAIN f[n] \subseteq M /\ f[n] = Only(moves, DOMAIN f[n])
             /\ Refused(f[n], lines) = {} \/ Cardinality(DOMAIN f[n]) + n <= Cardinality(M)
             /\ \A k \in 0..n : DOMAIN f[n] \subseteq DOMAIN f[k]
           Goods == {n \in Nat : n <= C => Good(n)}
<1> HIDE DEF C, a, M
<1>3. 0 \in Goods
  <2>1. DOMAIN f[0] = M /\ f[0] = Only(moves, DOMAIN f[0])
    BY <1>2 DEF M
  <2>2. Cardinality(DOMAIN f[0]) + 0 <= Cardinality(M)
    BY <2>1, <1>0
  <2>3. \A k \in 0..0 : DOMAIN f[0] \subseteq DOMAIN f[k]
    OBVIOUS
  <2> QED
    BY <2>1, <2>2, <2>3
<1>4. ASSUME NEW n \in Nat, n \in Goods PROVE n + 1 \in Goods
  <2> SUFFICES ASSUME n + 1 <= C PROVE Good(n + 1)
    OBVIOUS
  <2>1. Good(n) /\ f[n + 1] = DropOne(f[n], lines)
    BY <1>0, <1>2, <1>4
  <2>2. DOMAIN f[n] \subseteq Nat
    BY <2>1 DEF M
  <2>3. \/ Refused(f[n], lines) = {} /\ f[n + 1] = f[n]
        \/ \E one \in Refused(f[n], lines) : f[n + 1] = [l \in DOMAIN f[n] \ {one} |-> f[n][l]]
    <3>1. DropsTo(f[n], lines, f[n + 1])
      BY <2>1, <2>2, DropsOne
    <3> QED
      BY <3>1 DEF DropsTo
  <2>4. \A k \in 0..(n + 1) : k \in 0..n \/ k = n + 1
    OBVIOUS
  <2>5. CASE Refused(f[n], lines) = {} /\ f[n + 1] = f[n]
    BY <2>1, <2>4, <2>5
  <2>6. CASE \E one \in Refused(f[n], lines) : f[n + 1] = [l \in DOMAIN f[n] \ {one} |-> f[n][l]]
    <3>1. PICK one \in Refused(f[n], lines) : f[n + 1] = [l \in DOMAIN f[n] \ {one} |-> f[n][l]]
      BY <2>6
    <3>2. one \in DOMAIN f[n]
      BY DEF Refused
    <3>3. DOMAIN f[n + 1] = DOMAIN f[n] \ {one} /\ \A l \in DOMAIN f[n + 1] : f[n + 1][l] = f[n][l]
      BY <3>1
    <3>4. \A l \in DOMAIN f[n + 1] : f[n + 1][l] = moves[l]
      <4>1. \A l \in DOMAIN f[n] : f[n][l] = moves[l]
        BY <2>1 DEF Only
      <4> QED
        BY <3>3, <4>1
    <3>5. f[n + 1] = Only(moves, DOMAIN f[n + 1])
      BY <3>1, <3>3, <3>4 DEF Only
    <3>6. Cardinality(DOMAIN f[n + 1]) + (n + 1) <= Cardinality(M)
      <4>1. IsFiniteSet(DOMAIN f[n])
        BY <1>0, <2>1, FS_Subset
      <4>2. Cardinality(DOMAIN f[n] \ {one}) = Cardinality(DOMAIN f[n]) - 1 /\ Cardinality(DOMAIN f[n]) \in Nat
        BY <4>1, <3>2, FS_RemoveElement, FS_CardinalityType
      <4>3. Cardinality(DOMAIN f[n]) + n <= Cardinality(M)
        BY <2>1
      <4> QED
        BY <4>2, <4>3, <3>3, <1>0
    <3>7. \A k \in 0..(n + 1) : DOMAIN f[n + 1] \subseteq DOMAIN f[k]
      BY <2>1, <2>4, <3>3
    <3> QED
      BY <2>1, <3>3, <3>5, <3>6, <3>7
  <2> QED
    BY <2>3, <2>5, <2>6
<1>5. Nat \subseteq Goods
  <2> HIDE DEF Goods
  <2> QED
    BY <1>3, <1>4, CountsUpTo
<1>6. \A n \in 0..C : Good(n)
  <2>1. \A n \in 0..C : n \in Nat /\ n <= C
    BY <1>0
  <2> HIDE DEF Good
  <2> QED
    BY <1>5, <2>1
<1>7. DOMAIN a \subseteq M /\ a = Only(moves, DOMAIN a) /\ \A k \in 0..C : DOMAIN a \subseteq DOMAIN f[k]
  <2>1. C \in 0..C
    BY <1>0
  <2> QED
    BY <2>1, <1>1, <1>6
<1>8. Refused(a, lines) = {}
  <2>1. C \in 0..C
    BY <1>0
  <2>2. Refused(a, lines) = {} \/ Cardinality(DOMAIN a) + C <= Cardinality(M)
    BY <1>1, <1>6, <2>1
  <2>3. CASE Cardinality(DOMAIN a) + C <= Cardinality(M)
    <3>1. IsFiniteSet(DOMAIN a)
      BY <1>0, <1>7, FS_Subset
    <3>2. Cardinality(DOMAIN a) \in Nat
      BY <3>1, FS_CardinalityType
    <3>3. Cardinality(DOMAIN a) = 0
      BY <3>2, <1>0, <2>3
    <3>4. DOMAIN a = {}
      BY <3>1, <3>3, FS_EmptySet
    <3> QED
      BY <3>4 DEF Refused
  <2> QED
    BY <2>2, <2>3
<1>9. ASSUME NEW X \in SUBSET M,
             \A Y \in SUBSET M : X \subseteq Y /\ DOMAIN a \subseteq Y => X \cap Refused(Only(moves, Y), lines) = {}
      PROVE  X \subseteq DOMAIN a
  <2> DEFINE Keeps == {n \in Nat : n <= C => X \subseteq DOMAIN f[n]}
  <2>1. 0 \in Keeps
    BY <1>2 DEF M
  <2>2. ASSUME NEW n \in Nat, n \in Keeps PROVE n + 1 \in Keeps
    <3> SUFFICES ASSUME n + 1 <= C PROVE X \subseteq DOMAIN f[n + 1]
      OBVIOUS
    <3>1. n \in 0..C /\ X \subseteq DOMAIN f[n] /\ f[n + 1] = DropOne(f[n], lines)
      BY <2>2, <1>0, <1>2
    <3>2. DOMAIN f[n] \subseteq M /\ f[n] = Only(moves, DOMAIN f[n]) /\ DOMAIN a \subseteq DOMAIN f[n]
      BY <3>1, <1>6, <1>7
    <3>3. X \cap Refused(f[n], lines) = {}
      <4> PICK Y : Y = DOMAIN f[n]
        OBVIOUS
      <4>1. X \cap Refused(Only(moves, Y), lines) = {}
        BY <3>1, <3>2, <1>9
      <4>2. f[n] = Only(moves, Y)
        BY <3>2
      <4> QED
        BY <4>1, <4>2
    <3>4. DOMAIN f[n] \subseteq Nat
      BY <3>2 DEF M
    <3>5. \/ f[n + 1] = f[n]
          \/ \E one \in Refused(f[n], lines) : f[n + 1] = [l \in DOMAIN f[n] \ {one} |-> f[n][l]]
      <4>1. DropsTo(f[n], lines, f[n + 1])
        BY <3>1, <3>4, DropsOne
      <4> QED
        BY <4>1 DEF DropsTo
    <3> QED
      BY <3>1, <3>3, <3>5
  <2>3. Nat \subseteq Keeps
    <3> HIDE DEF Keeps
    <3> QED
      BY <2>1, <2>2, CountsUpTo
  <2> QED
    BY <2>3, <1>0, <1>1
<1> QED
  BY <1>7, <1>8, <1>9 DEF a, M

\* A move that was refused is refused again when the rest has moved.
LEMMA SecondMovesNothing ==
  ASSUME NEW t, NEW D, IsFiniteSet(D), D \subseteq Nat \ {0}, DOMAIN t \subseteq D, t \in [DOMAIN t -> Nat \ {0}]
  PROVE  LET a == AllowedMoves(t, D)
             D2 == LinesAfter(D, a)
         IN  /\ IsFiniteSet(D2) /\ D2 \subseteq Nat \ {0} /\ Cardinality(D2) = Cardinality(D)
             /\ DOMAIN AllowedMoves(Only(t, DOMAIN t \ DOMAIN a), D2) = {}
<1> DEFINE W == DOMAIN t
           a == AllowedMoves(t, D)
           D2 == LinesAfter(D, a)
           W2 == W \ DOMAIN a
           b == AllowedMoves(Only(t, W2), D2)
           F == DOMAIN b
<1>0. t = Only(t, W) /\ D \subseteq Nat /\ \A l \in W : t[l] \in Nat \ {0}
  BY DEF Only
<1>1. /\ DOMAIN a \subseteq W /\ a = Only(t, DOMAIN a) /\ Refused(a, D) = {}
      /\ \A X \in SUBSET W :
           (\A Y \in SUBSET W : X \subseteq Y /\ DOMAIN a \subseteq Y => X \cap Refused(Only(t, Y), D) = {})
           => X \subseteq DOMAIN a
  BY <1>0, AllowedMovesAre
<1> HIDE DEF a
<1>2. \A l \in DOMAIN a : a[l] = t[l] /\ a[l] \in Nat \ {0}
  BY <1>0, <1>1 DEF Only
<1>3. /\ \A l \in DOMAIN a : t[l] \notin D \ DOMAIN a
      /\ \A l, k \in DOMAIN a : k # l => t[k] # t[l]
  <2>1. \A l \in DOMAIN a : a[l] \notin D \ DOMAIN a
    BY <1>1 DEF Refused
  <2>2. \A l, k \in DOMAIN a : k < l => a[k] # a[l]
    BY <1>1 DEF Refused
  <2>3. \A l, k \in DOMAIN a : k # l => k < l \/ l < k
    BY <1>1
  <2> QED
    BY <2>1, <2>2, <2>3, <1>2
<1> DEFINE kept == D \ DOMAIN a
           landed == {a[l] : l \in DOMAIN a}
<1>4. D2 = kept \cup landed
  BY DEF LinesAfter
<1>5. IsFiniteSet(D2) /\ Cardinality(D2) = Cardinality(D)
  <2> DEFINE g == [l \in D |-> IF l \in DOMAIN a THEN t[l] ELSE l]
  <2>1. g \in [D -> D2]
    BY <1>2, <1>4
  <2>2. \A l, k \in D : g[l] = g[k] => l = k
    BY <1>3
  <2>3. \A y \in D2 : \E l \in D : g[l] = y
    <3> TAKE y \in D2
    <3>1. CASE y \in kept
      BY <3>1
    <3>2. CASE y \in landed
      <4>1. PICK l \in DOMAIN a : y = a[l]
        BY <3>2
      <4>2. l \in D /\ g[l] = y
        BY <4>1, <1>1, <1>2
      <4> QED
        BY <4>2
    <3> QED
      BY <3>1, <3>2, <1>4
  <2> HIDE DEF g, D2
  <2>4. g \in Bijection(D, D2)
    BY <2>1, <2>2, <2>3 DEF Bijection, Injection, Surjection, IsInjective
  <2>5. ExistsBijection(D, D2)
    BY <2>4 DEF ExistsBijection
  <2> QED
    BY <2>5, FS_Bijection
<1>6. D2 \subseteq Nat \ {0}
  BY <1>2, <1>4
<1>7. W2 \subseteq kept /\ W2 \subseteq D2 /\ D2 \subseteq Nat
  BY <1>1, <1>4, <1>6
<1> HIDE DEF D2, kept, landed
<1>8. /\ F \subseteq W2 /\ b = Only(t, F) /\ Refused(b, D2) = {}
      /\ \A X \in SUBSET W2 :
           (\A Y \in SUBSET W2 : X \subseteq Y /\ F \subseteq Y => X \cap Refused(Only(t, Y), D2) = {})
           => X \subseteq F
  <2> PICK m : m = Only(t, W2)
    OBVIOUS
  <2>1. DOMAIN m = W2 /\ m = Only(m, DOMAIN m) /\ \A Y \in SUBSET W2 : Only(m, Y) = Only(t, Y)
    BY DEF Only
  <2>2. b = AllowedMoves(m, D2)
    OBVIOUS
  <2> HIDE DEF b, W2
  <2>3. /\ F \subseteq W2 /\ b = Only(m, F) /\ Refused(b, D2) = {}
        /\ \A X \in SUBSET W2 :
             (\A Y \in SUBSET W2 : X \subseteq Y /\ F \subseteq Y => X \cap Refused(Only(m, Y), D2) = {})
             => X \subseteq F
    BY <2>1, <2>2, <1>5, <1>7, AllowedMovesAre
  <2>4. Only(m, F) = Only(t, F)
    BY <2>1, <2>3
  <2>5. \A X \in SUBSET W2 :
          (\A Y \in SUBSET W2 : X \subseteq Y /\ F \subseteq Y => X \cap Refused(Only(t, Y), D2) = {})
          => X \subseteq F
    <3> TAKE X \in SUBSET W2
    <3> SUFFICES ASSUME \A Y \in SUBSET W2 : X \subseteq Y /\ F \subseteq Y => X \cap Refused(Only(t, Y), D2) = {}
                 PROVE  X \subseteq F
      OBVIOUS
    <3>1. \A Y \in SUBSET W2 : X \subseteq Y /\ F \subseteq Y => X \cap Refused(Only(m, Y), D2) = {}
      BY <2>1
    <3> QED
      BY <3>1, <2>3
  <2> HIDE DEF F
  <2> QED
    BY <2>3, <2>4, <2>5
<1> HIDE DEF b
<1>9. /\ \A l \in F : t[l] \notin D2 \ F
      /\ \A l, k \in F : k < l => t[k] # t[l]
  <2>1. \A l \in F : b[l] = t[l]
    BY <1>8 DEF Only
  <2> QED
    BY <1>8, <2>1 DEF Refused
<1>10. ASSUME NEW r \in F, NEW k \in W2, t[k] = t[r] PROVE r <= k
  <2> DEFINE K == {l \in W2 : t[l] = t[r]}
  <2>1. PICK first \in K : \A l \in K : first <= l
    <3>1. K \subseteq Nat /\ K # {}
      BY <1>7, <1>10
    <3> HIDE DEF K
    <3> QED
      BY <3>1, FirstLine
  <2>2. {first} \subseteq F
    <3>1. ASSUME NEW Y \in SUBSET W2, F \subseteq Y, first \in Y PROVE first \notin Refused(Only(t, Y), D2)
      <4>1. DOMAIN Only(t, Y) = Y /\ \A l \in Y : Only(t, Y)[l] = t[l]
        BY DEF Only
      <4>2. t[first] = t[r] /\ t[r] \notin D2 \ Y
        BY <1>9, <3>1
      <4>3. \A l \in Y : l < first => t[l] # t[first]
        <5>1. \A l \in Y : t[l] = t[first] => l \in K
          BY <4>2
        <5>2. \A l \in K : ~(l < first)
          <6>1. \A l \in K : l \in Nat
            BY <1>7
          <6> QED
            BY <2>1, <6>1
        <5> QED
          BY <5>1, <5>2
      <4> QED
        BY <4>1, <4>2, <4>3 DEF Refused
    <3>2. first \in W2
      OBVIOUS
    <3> PICK X : X = {first}
      OBVIOUS
    <3>3. X \in SUBSET W2 /\ \A Y \in SUBSET W2 : X \subseteq Y /\ F \subseteq Y => X \cap Refused(Only(t, Y), D2) = {}
      BY <3>1, <3>2
    <3> HIDE DEF F, W2
    <3>4. X \subseteq F
      BY <3>3, <1>8
    <3> QED
      BY <3>4
  <2>3. first \in F /\ t[first] = t[r] /\ first \in Nat /\ r \in Nat /\ k \in Nat /\ first <= r /\ first <= k
    BY <2>1, <2>2, <1>7, <1>8, <1>10
  <2>4. ~(first < r)
    BY <2>3, <1>9
  <2> QED
    BY <2>3, <2>4
<1>11. F \subseteq DOMAIN a
  <2>1. F \in SUBSET W
    BY <1>8
  <2>2. ASSUME NEW Y \in SUBSET W, F \subseteq Y, DOMAIN a \subseteq Y, NEW r \in F PROVE r \notin Refused(Only(t, Y), D)
    <3>1. DOMAIN Only(t, Y) = Y /\ \A l \in Y : Only(t, Y)[l] = t[l]
      BY DEF Only
    <3>2. t[r] \notin D \ Y
      <4>1. t[r] \in D \ Y => t[r] \in D2 \ F
        BY <2>2, <1>4 DEF kept
      <4> QED
        BY <4>1, <1>9
    <3>3. ASSUME NEW k \in Y, k < r PROVE t[k] # t[r]
      <4>1. CASE k \in W2
        <5>1. k \in Nat /\ r \in Nat
          BY <4>1, <1>7, <1>8
        <5> QED
          BY <5>1, <3>3, <4>1, <1>10
      <4>2. CASE k \in DOMAIN a
        <5> SUFFICES ASSUME t[k] = t[r] PROVE FALSE
          OBVIOUS
        <5>1. t[r] \in D2
          BY <4>2, <1>2, <1>4 DEF landed
        <5>2. t[r] \in F
          BY <5>1, <1>9
        <5>3. t[k] \in D \ DOMAIN a
          BY <5>2, <1>7, <1>8 DEF kept
        <5> QED
          BY <5>3, <4>2, <1>3
      <4> QED
        BY <4>1, <4>2, <2>2
    <3> QED
      BY <2>2, <3>1, <3>2, <3>3 DEF Refused
  <2>3. \A Y \in SUBSET W : F \subseteq Y /\ DOMAIN a \subseteq Y => F \cap Refused(Only(t, Y), D) = {}
    BY <2>2
  <2> HIDE DEF F, W
  <2> QED
    BY <2>1, <2>3, <1>1
<1>12. F = {}
  BY <1>8, <1>11
<1> QED
  BY <1>5, <1>6, <1>12 DEF a, b, D2

(***************************************************************************)
(* The comments.                                                           *)
(***************************************************************************)

\* The context of a comment is around its line, and has the text that it was made on.
Anchored(c, l, on) ==
  /\ c = [context |-> c.context, from |-> c.from, outdated |-> c.outdated]
  /\ c.context \in Seq(Text) /\ c.outdated \in BOOLEAN
  /\ c.context # <<>> =>
       /\ c.from \in Nat \ {0} /\ l \in c.from..(c.from + Len(c.context) - 1)
       /\ on # NoText => c.context[l - c.from + 1] = on
  /\ c.context = <<>> => on = NoText

AllAnchored(cs, on) ==
  /\ IsFiniteSet(DOMAIN cs) /\ DOMAIN cs \subseteq Nat \ {0} /\ DOMAIN on = DOMAIN cs
  /\ \A l \in DOMAIN cs : Anchored(cs[l], l, on[l])

\* A comment is outdated exactly when it is not where its context is, and no move is left.
Settled(cs, on, body) ==
  /\ DOMAIN MovesOf(cs, body) = {}
  /\ \A l \in DOMAIN cs : cs[l].context # <<>> /\ on[l] # NoText =>
       (cs[l].outdated <=> ~MatchesAt(body, cs[l].context, cs[l].from))

AnchorsInv ==
  /\ source \in Files \cup {Gone} /\ checked \in BOOLEAN
  /\ AllAnchored(comments, onLine)
  /\ checked /\ source # Gone => Settled(comments, onLine, source)

LEMMA FilesAre ==
  ASSUME NEW body \in Files
  PROVE  body \in Seq(Text) /\ Len(body) \in Nat /\ DOMAIN body = 1..Len(body)
<1>1. PICK n \in 0..MaxLines : body \in [1..n -> Text]
  BY DEF Files
<1>2. n \in Nat
  BY AnchorAssumption DEF AnchorAssumption
<1> QED
  BY <1>1, <1>2

\* A context is found only where it is.
LEMMA FoundIsThere ==
  ASSUME NEW body \in Files, NEW context, NEW near
  PROVE  /\ FindContext(body, context, near) \in Nat
         /\ FindContext(body, context, near) > 0 => MatchesAt(body, context, FindContext(body, context, near))
<1> DEFINE matches == {p \in DOMAIN body : MatchesAt(body, context, p)}
           nearest == {p \in matches : \A q \in matches : Distance(p, near) <= Distance(q, near)}
           it == CHOOSE p \in nearest : \A q \in nearest : p <= q
<1>1. FindContext(body, context, near) = IF nearest = {} THEN 0 ELSE it
  BY DEF FindContext
<1>2. nearest \subseteq Nat /\ nearest \subseteq matches
  BY FilesAre
<1> HIDE DEF nearest
<1>3. nearest # {} => it \in nearest
  BY <1>2, FirstLine
<1> HIDE DEF it
<1>4. nearest # {} => it \in Nat /\ MatchesAt(body, context, it)
  BY <1>2, <1>3
<1> QED
  BY <1>1, <1>4

\* The context of a line is there, and around it.
IsAround(body, l, c) ==
  /\ \A on : on = NoText \/ (l \in DOMAIN body /\ on = body[l]) => Anchored(c, l, on)
  /\ c.outdated = FALSE
  /\ c.context # <<>> => MatchesAt(body, c.context, c.from)
  /\ c = [context |-> c.context, from |-> c.from, outdated |-> c.outdated]

LEMMA ContextIsAround ==
  ASSUME NEW body \in Files, NEW l \in Nat \ {0}
  PROVE  IsAround(body, l, ContextAround(body, l))
<1> DEFINE start == IF l > Radius THEN l - Radius ELSE 1
           last == IF l + Radius < Len(body) THEN l + Radius ELSE Len(body)
<1>0. body \in Seq(Text) /\ Len(body) \in Nat /\ DOMAIN body = 1..Len(body) /\ Radius \in Nat
  BY FilesAre, AnchorAssumption DEF AnchorAssumption
<1>1. CASE l \notin DOMAIN body
  <2>1. ContextAround(body, l) = NoContext
    BY <1>1 DEF ContextAround
  <2>2. <<>> \in Seq(Text)
    OBVIOUS
  <2>3. NoContext.context = <<>> /\ NoContext.outdated = FALSE
        /\ NoContext = [context |-> NoContext.context, from |-> NoContext.from, outdated |-> NoContext.outdated]
    BY DEF NoContext
  <2> QED
    <3>1. \A on : on = NoText => Anchored(NoContext, l, on)
      BY <2>2, <2>3 DEF Anchored
    <3> QED
      BY <3>1, <2>1, <2>3, <1>1 DEF IsAround
<1>2. CASE l \in DOMAIN body
  <2>1. start \in 1..l /\ last \in l..Len(body)
    BY <1>0, <1>2
  <2> HIDE DEF start, last
  <2> PICK c : c = ContextAround(body, l)
    OBVIOUS
  <2>2. c = [context |-> SubSeq(body, start, last), from |-> start, outdated |-> FALSE]
    BY <1>2 DEF ContextAround, start, last
  <2>3. start \in Nat /\ last \in Nat /\ 1 <= start /\ start <= last /\ last <= Len(body)
    BY <2>1, <1>0, <1>2
  <2>4. /\ SubSeq(body, start, last) \in Seq(Text) /\ Len(SubSeq(body, start, last)) = last - start + 1
        /\ \A i \in 1..(last - start + 1) : SubSeq(body, start, last)[i] = body[start + i - 1]
    <3>1. \A i \in start..last : body[i] \in Text
      BY <1>0, <2>3
    <3> QED
      BY <3>1, <2>3
  <2>5. /\ c.context \in Seq(Text) /\ Len(c.context) = last - start + 1 /\ c.from = start /\ c.outdated = FALSE
        /\ \A i \in 1..Len(c.context) : c.context[i] = body[start + i - 1]
        /\ c = [context |-> c.context, from |-> c.from, outdated |-> c.outdated]
    BY <2>2, <2>4
  <2>6. DOMAIN c.context = 1..Len(c.context)
    BY <2>5
  <2>7. MatchesAt(body, c.context, c.from)
    <3>1. \A i \in DOMAIN c.context : body[c.from - 1 + i] = c.context[i]
      <4>1. \A i \in 1..Len(c.context) : start + i - 1 = start - 1 + i
        BY <2>3, <2>5
      <4> QED
        BY <4>1, <2>5, <2>6
    <3> QED
      BY <3>1, <2>3, <2>5 DEF MatchesAt
  <2>8. l \in c.from..(c.from + Len(c.context) - 1) /\ c.context[l - c.from + 1] = body[l] /\ c.from \in Nat \ {0}
    <3>1. l - start + 1 \in 1..Len(c.context) /\ start + (l - start + 1) - 1 = l
      BY <2>1, <2>3, <2>5
    <3> QED
      BY <3>1, <2>1, <2>3, <2>5
  <2>9. c.context # <<>>
    BY <2>3, <2>5
  <2>10. \A on : on = NoText \/ on = body[l] => Anchored(c, l, on)
    BY <2>5, <2>8, <2>9 DEF Anchored
  <2> QED
    <3>1. IsAround(body, l, c)
      BY <2>5, <2>7, <2>10 DEF IsAround
    <3> QED
      BY <3>1
<1> QED
  BY <1>1, <1>2

\* The moves that comments want.
LEMMA WantedAre ==
  ASSUME NEW body \in Files, NEW cs, NEW on, AllAnchored(cs, on)
  PROVE  LET w == WantedMoves(cs, body)
         IN  /\ DOMAIN w \subseteq StraysIn(cs, body) /\ StraysIn(cs, body) \subseteq DOMAIN cs
             /\ w \in [DOMAIN w -> Nat \ {0}]
             /\ \A l \in DOMAIN w : /\ w[l] = TargetOf(cs, body, l)
                                    /\ MatchesAt(body, cs[l].context, FoundAt(cs, body, l))
                                    /\ FoundAt(cs, body, l) \in Nat \ {0}
             /\ \A l \in StraysIn(cs, body) :
                  l \in DOMAIN w <=> FoundAt(cs, body, l) > 0 /\ TargetOf(cs, body, l) >= 1
<1> DEFINE w == WantedMoves(cs, body)
<1>1. DOMAIN w = {k \in StraysIn(cs, body) : FoundAt(cs, body, k) > 0 /\ TargetOf(cs, body, k) >= 1}
  BY DEF WantedMoves
<1>2. \A l \in DOMAIN w : w[l] = TargetOf(cs, body, l)
  BY DEF WantedMoves
<1>3. StraysIn(cs, body) \subseteq DOMAIN cs
  BY DEF StraysIn
<1>4. ASSUME NEW l \in DOMAIN w
      PROVE  /\ MatchesAt(body, cs[l].context, FoundAt(cs, body, l))
             /\ FoundAt(cs, body, l) \in Nat \ {0} /\ TargetOf(cs, body, l) \in Nat \ {0}
  <2>1. FoundAt(cs, body, l) \in Nat /\ FoundAt(cs, body, l) > 0 /\ MatchesAt(body, cs[l].context, FoundAt(cs, body, l))
    BY <1>1, FoundIsThere DEF FoundAt
  <2>2. l \in DOMAIN cs /\ cs[l].context # <<>> /\ Anchored(cs[l], l, on[l])
    BY <1>1, <1>3 DEF StraysIn, AllAnchored
  <2>3. cs[l].from \in Nat /\ l \in Nat
    BY <2>2 DEF Anchored, AllAnchored
  <2>4. TargetOf(cs, body, l) \in Int /\ TargetOf(cs, body, l) >= 1
    BY <2>1, <2>3, <1>1 DEF TargetOf
  <2> QED
    BY <2>1, <2>4
<1>5. w = [l \in DOMAIN w |-> w[l]]
  BY DEF WantedMoves
<1> HIDE DEF w
<1> QED
  BY <1>1, <1>2, <1>3, <1>4, <1>5 DEF w

\* What a check makes of each comment.
CheckedTo(body, cs, on, a, w, cs2, on2) ==
  /\ DOMAIN a \subseteq DOMAIN w /\ \A l \in DOMAIN a : a[l] = w[l]
  /\ DOMAIN cs2 = LinesAfter(DOMAIN cs, a) /\ DOMAIN on2 = LinesAfter(DOMAIN cs, a)
  /\ \A n \in DOMAIN cs \ DOMAIN a : n \in DOMAIN cs2 /\ cs2[n] = Stayed(cs, body, n) /\ on2[n] = on[n]
  /\ \A n \in DOMAIN cs2 \ (DOMAIN cs \ DOMAIN a) : \E o \in DOMAIN a :
       /\ a[o] = n /\ on2[n] = on[o]
       /\ cs2[n] = [cs[o] EXCEPT !.from = FoundAt(cs, body, o), !.outdated = FALSE]

LEMMA CheckedAre ==
  ASSUME NEW body \in Files, NEW cs, NEW on, AllAnchored(cs, on)
  PROVE  CheckedTo(body, cs, on, MovesOf(cs, body), WantedMoves(cs, body), Checked(cs, body), Followed(cs, on, body))
<1> DEFINE a == MovesOf(cs, body)
           w == WantedMoves(cs, body)
           cs2 == Checked(cs, body)
           on2 == Followed(cs, on, body)
           D == DOMAIN cs
           kept == D \ DOMAIN a
<1>1. /\ DOMAIN w \subseteq D /\ w \in [DOMAIN w -> Nat \ {0}] /\ D \subseteq Nat /\ IsFiniteSet(D)
  BY WantedAre DEF AllAnchored
<1>2. DOMAIN a \subseteq DOMAIN w /\ \A l \in DOMAIN a : a[l] = w[l]
  <2> PICK v : v = w
    OBVIOUS
  <2>1. v = Only(v, DOMAIN v)
    BY <1>1 DEF Only
  <2>2. a = AllowedMoves(v, D)
    BY DEF MovesOf
  <2> HIDE DEF a, w, D
  <2>3. DOMAIN a \subseteq DOMAIN v /\ a = Only(v, DOMAIN a)
    BY <1>1, <2>1, <2>2, AllowedMovesAre
  <2> QED
    BY <2>3 DEF Only
<1>3. cs2 = [n \in LinesAfter(D, a) |->
               IF n \in D \ DOMAIN a THEN Stayed(cs, body, n)
               ELSE [cs[Origin(a, n)] EXCEPT !.from = FoundAt(cs, body, Origin(a, n)), !.outdated = FALSE]]
  BY DEF Checked
<1>4. on2 = [n \in LinesAfter(D, a) |-> IF n \in D \ DOMAIN a THEN on[n] ELSE on[Origin(a, n)]]
  BY DEF Followed
<1> HIDE DEF a, cs2, on2
<1>5. DOMAIN cs2 = LinesAfter(D, a) /\ DOMAIN on2 = LinesAfter(D, a) /\ kept \subseteq LinesAfter(D, a)
  BY <1>3, <1>4 DEF LinesAfter
<1>6. \A n \in kept : cs2[n] = Stayed(cs, body, n) /\ on2[n] = on[n]
  BY <1>3, <1>4, <1>5
<1>7. ASSUME NEW n \in DOMAIN cs2 \ kept
      PROVE  \E o \in DOMAIN a :
               /\ a[o] = n /\ on2[n] = on[o]
               /\ cs2[n] = [cs[o] EXCEPT !.from = FoundAt(cs, body, o), !.outdated = FALSE]
  <2>1. Origin(a, n) \in DOMAIN a /\ a[Origin(a, n)] = n
    <3>1. \E l \in DOMAIN a : a[l] = n
      BY <1>5 DEF LinesAfter
    <3> QED
      BY <3>1 DEF Origin
  <2>2. /\ on2[n] = on[Origin(a, n)]
        /\ cs2[n] = [cs[Origin(a, n)] EXCEPT !.from = FoundAt(cs, body, Origin(a, n)), !.outdated = FALSE]
    BY <1>3, <1>4, <1>5
  <2> QED
    BY <2>1, <2>2
<1> QED
  <2>1. CheckedTo(body, cs, on, a, w, cs2, on2)
    <3> HIDE DEF w
    <3> QED
      BY <1>2, <1>5, <1>6, <1>7 DEF CheckedTo
  <2> QED
    BY <2>1 DEF a, cs2, on2

\* What becomes of a comment that stays.
LEMMA StayedIs ==
  ASSUME NEW body \in Files, NEW cs, NEW on, AllAnchored(cs, on), NEW l \in DOMAIN cs
  PROVE  LET c == Stayed(cs, body, l)
         IN  /\ Anchored(c, l, on[l])
             /\ c.context # <<>> => (c.outdated <=> ~MatchesAt(body, c.context, c.from)) \/ cs[l].context = <<>>
             /\ cs[l].context = <<>> => c.context = <<>> \/ MatchesAt(body, c.context, c.from)
             /\ cs[l].context # <<>> => c.context = cs[l].context /\ c.from = cs[l].from
<1>1. Anchored(cs[l], l, on[l]) /\ l \in Nat \ {0}
  BY DEF AllAnchored
<1> PICK was : was = cs[l]
  OBVIOUS
<1>2. was = [context |-> was.context, from |-> was.from, outdated |-> was.outdated] /\ was.outdated \in BOOLEAN
  BY <1>1 DEF Anchored
<1>3. CASE was.context = <<>>
  <2> PICK c : c = ContextAround(body, l)
    OBVIOUS
  <2>1. /\ on[l] = NoText => Anchored(c, l, on[l])
        /\ c.context # <<>> => MatchesAt(body, c.context, c.from)
        /\ c = [context |-> c.context, from |-> c.from, outdated |-> c.outdated]
    <3>1. /\ \A o : o = NoText \/ (l \in DOMAIN body /\ o = body[l]) => Anchored(c, l, o)
          /\ c.context # <<>> => MatchesAt(body, c.context, c.from)
          /\ c = [context |-> c.context, from |-> c.from, outdated |-> c.outdated]
      BY <1>1, ContextIsAround DEF IsAround
    <3> QED
      BY <3>1
  <2>2. Stayed(cs, body, l) = [c EXCEPT !.outdated = was.outdated]
    BY <1>3 DEF Stayed, StraysIn
  <2> PICK d : d = Stayed(cs, body, l)
    OBVIOUS
  <2>3. d = [context |-> c.context, from |-> c.from, outdated |-> was.outdated]
    BY <2>1, <2>2
  <2>4. on[l] = NoText
    BY <1>1, <1>3 DEF Anchored
  <2>5. Anchored(d, l, on[l])
    BY <2>1, <2>3, <2>4, <1>2 DEF Anchored
  <2> QED
    BY <2>1, <2>3, <2>5, <1>3
<1>4. CASE was.context # <<>>
  <2> PICK d : d = Stayed(cs, body, l)
    OBVIOUS
  <2>1. l \in StraysIn(cs, body) <=> ~MatchesAt(body, was.context, was.from)
    BY <1>4 DEF StraysIn
  <2> PICK gone \in BOOLEAN : gone <=> ~MatchesAt(body, was.context, was.from)
    OBVIOUS
  <2>2. d = [was EXCEPT !.outdated = gone]
    <3>1. CASE l \in StraysIn(cs, body)
      <4>1. d = [was EXCEPT !.outdated = TRUE]
        BY <3>1, <1>4 DEF Stayed
      <4>2. gone = TRUE
        BY <3>1, <2>1
      <4> QED
        BY <4>1, <4>2
    <3>2. CASE l \notin StraysIn(cs, body)
      <4>1. d = [was EXCEPT !.outdated = FALSE]
        BY <3>2, <1>4 DEF Stayed
      <4>2. gone = FALSE
        BY <3>2, <2>1
      <4> QED
        BY <4>1, <4>2
    <3> QED
      BY <3>1, <3>2
  <2>3. d = [context |-> was.context, from |-> was.from, outdated |-> gone]
    BY <2>2, <1>2
  <2>4. Anchored(d, l, on[l])
    BY <2>3, <1>1 DEF Anchored
  <2>5. d.context = was.context /\ d.from = was.from /\ d.outdated = gone
    BY <2>3
  <2> QED
    BY <2>4, <2>5, <1>4
<1> QED
  BY <1>3, <1>4

\* A comment that moves has its context around its new line.
LEMMA MovedIs ==
  ASSUME NEW body \in Files, NEW cs, NEW on, AllAnchored(cs, on), NEW l \in DOMAIN WantedMoves(cs, body)
  PROVE  LET c == [cs[l] EXCEPT !.from = FoundAt(cs, body, l), !.outdated = FALSE]
         IN  /\ Anchored(c, TargetOf(cs, body, l), on[l])
             /\ c.outdated = FALSE /\ c.context # <<>> /\ MatchesAt(body, c.context, c.from)
<1>1. /\ l \in DOMAIN cs /\ cs[l].context # <<>>
      /\ MatchesAt(body, cs[l].context, FoundAt(cs, body, l)) /\ FoundAt(cs, body, l) \in Nat \ {0}
  BY WantedAre DEF StraysIn
<1>2. Anchored(cs[l], l, on[l]) /\ l \in Nat \ {0}
  BY <1>1 DEF AllAnchored
<1> PICK was : was = cs[l]
  OBVIOUS
<1> PICK place : place = FoundAt(cs, body, l)
  OBVIOUS
<1> PICK c : c = [was EXCEPT !.from = place, !.outdated = FALSE]
  OBVIOUS
<1>3. c = [context |-> was.context, from |-> place, outdated |-> FALSE]
  BY <1>2 DEF Anchored
<1>4. c.context = was.context /\ c.from = place /\ c.outdated = FALSE
  BY <1>3
<1> PICK n : n = TargetOf(cs, body, l)
  OBVIOUS
<1>5. n = l + place - was.from
  BY DEF TargetOf
<1>6. /\ was.from \in Nat \ {0} /\ l \in was.from..(was.from + Len(was.context) - 1) /\ Len(was.context) \in Nat
      /\ on[l] # NoText => was.context[l - was.from + 1] = on[l]
  BY <1>1, <1>2 DEF Anchored
<1>7. n \in place..(place + Len(was.context) - 1) /\ n - place + 1 = l - was.from + 1
  BY <1>1, <1>2, <1>5, <1>6
<1>8. Anchored(c, n, on[l])
  <2>1. was.context \in Seq(Text) /\ was.context # <<>>
    BY <1>1, <1>2 DEF Anchored
  <2>2. on[l] # NoText => c.context[n - c.from + 1] = on[l]
    BY <1>4, <1>6, <1>7
  <2> QED
    BY <2>1, <2>2, <1>1, <1>3, <1>4, <1>7 DEF Anchored
<1> QED
  BY <1>1, <1>4, <1>8

\* A check leaves every comment, anchored, and nothing for a second one.
LEMMA CheckKeepsComments ==
  ASSUME NEW body \in Files, NEW cs, NEW on, AllAnchored(cs, on)
  PROVE  LET cs2 == Checked(cs, body)
             on2 == Followed(cs, on, body)
         IN  /\ AllAnchored(cs2, on2) /\ Settled(cs2, on2, body)
             /\ Cardinality(DOMAIN cs2) = Cardinality(DOMAIN cs)
<1> DEFINE a == MovesOf(cs, body)
           w == WantedMoves(cs, body)
           cs2 == Checked(cs, body)
           on2 == Followed(cs, on, body)
           D == DOMAIN cs
           kept == D \ DOMAIN a
           D2 == LinesAfter(D, a)
<1>1. /\ DOMAIN a \subseteq DOMAIN w /\ \A l \in DOMAIN a : a[l] = w[l]
      /\ DOMAIN cs2 = D2 /\ DOMAIN on2 = D2
      /\ \A n \in kept : n \in DOMAIN cs2 /\ cs2[n] = Stayed(cs, body, n) /\ on2[n] = on[n]
      /\ \A n \in DOMAIN cs2 \ kept : \E o \in DOMAIN a :
           /\ a[o] = n /\ on2[n] = on[o]
           /\ cs2[n] = [cs[o] EXCEPT !.from = FoundAt(cs, body, o), !.outdated = FALSE]
  <2>1. CheckedTo(body, cs, on, a, w, cs2, on2)
    BY CheckedAre
  <2> HIDE DEF a, w, cs2, on2
  <2> QED
    BY <2>1 DEF CheckedTo
<1>2. /\ DOMAIN w \subseteq StraysIn(cs, body) /\ StraysIn(cs, body) \subseteq D
      /\ w \in [DOMAIN w -> Nat \ {0}]
      /\ \A l \in DOMAIN w : w[l] = TargetOf(cs, body, l)
      /\ \A l \in StraysIn(cs, body) : l \in DOMAIN w <=> FoundAt(cs, body, l) > 0 /\ TargetOf(cs, body, l) >= 1
  BY WantedAre
<1>3. IsFiniteSet(D) /\ D \subseteq Nat \ {0}
  BY DEF AllAnchored
<1>4. /\ IsFiniteSet(D2) /\ D2 \subseteq Nat \ {0} /\ Cardinality(D2) = Cardinality(D)
      /\ DOMAIN AllowedMoves(Only(w, DOMAIN w \ DOMAIN a), D2) = {}
  <2> PICK v : v = w
    OBVIOUS
  <2>1. a = AllowedMoves(v, D)
    BY DEF MovesOf
  <2>2. DOMAIN v \subseteq D /\ v \in [DOMAIN v -> Nat \ {0}]
    BY <1>2
  <2> HIDE DEF w, D, a
  <2>3. LET b == AllowedMoves(v, D)
            E2 == LinesAfter(D, b)
        IN  /\ IsFiniteSet(E2) /\ E2 \subseteq Nat \ {0} /\ Cardinality(E2) = Cardinality(D)
            /\ DOMAIN AllowedMoves(Only(v, DOMAIN v \ DOMAIN b), E2) = {}
    BY <2>2, <1>3, SecondMovesNothing
  <2> QED
    BY <2>1, <2>3
<1> HIDE DEF a, w, cs2, on2, D2
<1>5. ASSUME NEW n \in D2 \ kept
      PROVE  /\ Anchored(cs2[n], n, on2[n])
             /\ cs2[n].outdated = FALSE /\ cs2[n].context # <<>> /\ MatchesAt(body, cs2[n].context, cs2[n].from)
  <2>1. PICK o \in DOMAIN a :
           /\ a[o] = n /\ on2[n] = on[o]
           /\ cs2[n] = [cs[o] EXCEPT !.from = FoundAt(cs, body, o), !.outdated = FALSE]
    BY <1>1
  <2>2. o \in DOMAIN WantedMoves(cs, body) /\ n = TargetOf(cs, body, o)
    BY <2>1, <1>1, <1>2 DEF w
  <2>3. LET c == [cs[o] EXCEPT !.from = FoundAt(cs, body, o), !.outdated = FALSE]
        IN  /\ Anchored(c, TargetOf(cs, body, o), on[o])
            /\ c.outdated = FALSE /\ c.context # <<>> /\ MatchesAt(body, c.context, c.from)
    BY <2>2, MovedIs
  <2> QED
    BY <2>1, <2>2, <2>3
<1>6. ASSUME NEW n \in kept
      PROVE  /\ Anchored(cs2[n], n, on2[n])
             /\ cs2[n].context # <<>> /\ cs[n].context # <<>> => (cs2[n].outdated <=> ~MatchesAt(body, cs2[n].context, cs2[n].from))
             /\ cs[n].context = <<>> => cs2[n].context = <<>> \/ MatchesAt(body, cs2[n].context, cs2[n].from)
             /\ cs[n].context # <<>> => cs2[n].context = cs[n].context /\ cs2[n].from = cs[n].from
  <2>1. LET c == Stayed(cs, body, n)
        IN  /\ Anchored(c, n, on[n])
            /\ c.context # <<>> => (c.outdated <=> ~MatchesAt(body, c.context, c.from)) \/ cs[n].context = <<>>
            /\ cs[n].context = <<>> => c.context = <<>> \/ MatchesAt(body, c.context, c.from)
            /\ cs[n].context # <<>> => c.context = cs[n].context /\ c.from = cs[n].from
    BY StayedIs
  <2>2. cs2[n] = Stayed(cs, body, n) /\ on2[n] = on[n]
    BY <1>1
  <2> QED
    BY <2>1, <2>2
<1>7. AllAnchored(cs2, on2)
  <2>1. \A n \in D2 : Anchored(cs2[n], n, on2[n])
    BY <1>5, <1>6
  <2> QED
    BY <2>1, <1>1, <1>4 DEF AllAnchored
<1>8. WantedMoves(cs2, body) = Only(w, DOMAIN w \ DOMAIN a)
  <2>1. StraysIn(cs2, body) = StraysIn(cs, body) \ DOMAIN a
    <3>1. ASSUME NEW n \in StraysIn(cs2, body) PROVE n \in StraysIn(cs, body) \ DOMAIN a
      <4>1. n \in D2 /\ cs2[n].context # <<>> /\ ~MatchesAt(body, cs2[n].context, cs2[n].from)
        BY <1>1 DEF StraysIn
      <4>2. n \in kept /\ cs[n].context # <<>>
        BY <4>1, <1>5, <1>6
      <4> QED
        BY <4>1, <4>2, <1>6 DEF StraysIn
    <3>2. ASSUME NEW n \in StraysIn(cs, body), n \notin DOMAIN a PROVE n \in StraysIn(cs2, body)
      <4>1. n \in kept /\ cs[n].context # <<>> /\ ~MatchesAt(body, cs[n].context, cs[n].from)
        BY <3>2, <1>2 DEF StraysIn
      <4> QED
        BY <4>1, <1>1, <1>6 DEF StraysIn
    <3> QED
      BY <3>1, <3>2
  <2>2. \A n \in StraysIn(cs2, body) :
           FoundAt(cs2, body, n) = FoundAt(cs, body, n) /\ TargetOf(cs2, body, n) = TargetOf(cs, body, n)
    <3> TAKE n \in StraysIn(cs2, body)
    <3>1. n \in kept /\ cs[n].context # <<>>
      BY <2>1, <1>2 DEF StraysIn
    <3>2. cs2[n].context = cs[n].context /\ cs2[n].from = cs[n].from
      BY <3>1, <1>6
    <3> QED
      BY <3>2 DEF FoundAt, TargetOf
  <2>3. {k \in StraysIn(cs2, body) : FoundAt(cs2, body, k) > 0 /\ TargetOf(cs2, body, k) >= 1} = DOMAIN w \ DOMAIN a
    <3>1. \A k \in StraysIn(cs2, body) :
            (FoundAt(cs2, body, k) > 0 /\ TargetOf(cs2, body, k) >= 1) <=> k \in DOMAIN w
      BY <2>1, <2>2, <1>2
    <3> QED
      BY <3>1, <2>1, <1>2
  <2>4. \A l \in DOMAIN w \ DOMAIN a : TargetOf(cs2, body, l) = w[l]
    BY <2>1, <2>2, <1>2
  <2> QED
    BY <2>3, <2>4 DEF WantedMoves, Only
<1>9. Settled(cs2, on2, body)
  <2>1. DOMAIN MovesOf(cs2, body) = {}
    BY <1>1, <1>4, <1>8 DEF MovesOf
  <2>2. ASSUME NEW n \in D2, cs2[n].context # <<>>, on2[n] # NoText
        PROVE  cs2[n].outdated <=> ~MatchesAt(body, cs2[n].context, cs2[n].from)
    <3>1. CASE n \in kept
      <4>1. on[n] # NoText
        BY <3>1, <2>2, <1>1
      <4>2. cs[n].context # <<>>
        BY <3>1, <4>1 DEF AllAnchored, Anchored
      <4> QED
        BY <3>1, <4>2, <2>2, <1>6
    <3>2. CASE n \notin kept
      BY <3>2, <1>5
    <3> QED
      BY <3>1, <3>2
  <2> QED
    BY <2>1, <2>2, <1>1 DEF Settled
<1> QED
  BY <1>1, <1>4, <1>7, <1>9 DEF cs2, on2, D2

(***************************************************************************)
(* The steps.                                                              *)
(***************************************************************************)

LEMMA CheckIsSettled ==
  ASSUME source \in Files \cup {Gone}, NEW cs, NEW on, AllAnchored(cs, on), DriftCheck(cs, on)
  PROVE  /\ AllAnchored(comments', onLine') /\ checked' = TRUE
         /\ source # Gone => Settled(comments', onLine', source)
         /\ Cardinality(DOMAIN comments') = Cardinality(DOMAIN cs)
<1>1. CASE source = Gone
  <2>1. comments' = [l \in DOMAIN cs |-> [cs[l] EXCEPT !.outdated = TRUE]] /\ onLine' = on /\ checked' = TRUE
    BY <1>1 DEF DriftCheck, AllOutdated
  <2>2. ASSUME NEW l \in DOMAIN cs PROVE Anchored([cs[l] EXCEPT !.outdated = TRUE], l, on[l])
    <3> PICK c : c = cs[l]
      OBVIOUS
    <3>1. Anchored(c, l, on[l])
      BY DEF AllAnchored
    <3> PICK d : d = [c EXCEPT !.outdated = TRUE]
      OBVIOUS
    <3>2. d = [context |-> c.context, from |-> c.from, outdated |-> TRUE]
      BY <3>1 DEF Anchored
    <3>3. Anchored(d, l, on[l])
      BY <3>1, <3>2 DEF Anchored
    <3> QED
      BY <3>3
  <2> QED
    BY <2>1, <2>2, <1>1 DEF AllAnchored
<1>2. CASE source # Gone
  <2>1. source \in Files /\ comments' = Checked(cs, source) /\ onLine' = Followed(cs, on, source) /\ checked' = TRUE
    BY <1>2 DEF DriftCheck
  <2>2. LET cs2 == Checked(cs, source)
            on2 == Followed(cs, on, source)
        IN  /\ AllAnchored(cs2, on2) /\ Settled(cs2, on2, source)
            /\ Cardinality(DOMAIN cs2) = Cardinality(DOMAIN cs)
    BY <2>1, CheckKeepsComments
  <2> QED
    BY <2>1, <2>2
<1> QED
  BY <1>1, <1>2

LEMMA SetKeepsAnchors ==
  ASSUME AnchorsInv, CommentIsSet
  PROVE  AnchorsInv' /\ NoCommentGoes
<1>1. source # Gone /\ source \in Files /\ source' = source
  BY DEF CommentIsSet, AnchorsInv
<1>2. PICK line \in 1..MaxLines :
        LET set == [l \in DOMAIN comments \cup {line} |-> IF l = line THEN ContextAround(source, line) ELSE comments[l]]
        IN  DriftCheck(set, [l \in DOMAIN set |->
              IF l # line THEN onLine[l] ELSE IF line \in DOMAIN source THEN source[line] ELSE NoText])
  BY DEF CommentIsSet
<1> DEFINE set == [l \in DOMAIN comments \cup {line} |-> IF l = line THEN ContextAround(source, line) ELSE comments[l]]
           on == [l \in DOMAIN set |-> IF l # line THEN onLine[l] ELSE IF line \in DOMAIN source THEN source[line] ELSE NoText]
<1>3. line \in Nat \ {0}
  BY AnchorAssumption DEF AnchorAssumption
<1>4. AllAnchored(set, on)
  <2>1. AllAnchored(comments, onLine)
    BY DEF AnchorsInv
  <2>2. DOMAIN set = DOMAIN comments \cup {line} /\ DOMAIN on = DOMAIN set
    OBVIOUS
  <2>3. IsFiniteSet(DOMAIN set) /\ DOMAIN set \subseteq Nat \ {0}
    <3>1. IsFiniteSet(DOMAIN comments \cup {line})
      BY <2>1, FS_AddElement DEF AllAnchored
    <3> QED
      BY <3>1, <2>1, <2>2, <1>3 DEF AllAnchored
  <2>4. Anchored(set[line], line, on[line])
    <3>1. set[line] = ContextAround(source, line) /\ on[line] = IF line \in DOMAIN source THEN source[line] ELSE NoText
      BY <2>2
    <3>2. \A o : o = NoText \/ (line \in DOMAIN source /\ o = source[line]) => Anchored(ContextAround(source, line), line, o)
      BY <1>1, <1>3, ContextIsAround DEF IsAround
    <3> HIDE DEF set, on
    <3>3. on[line] = NoText \/ (line \in DOMAIN source /\ on[line] = source[line])
      BY <3>1
    <3> QED
      BY <3>1, <3>2, <3>3
  <2>5. ASSUME NEW l \in DOMAIN set, l # line PROVE Anchored(set[l], l, on[l])
    <3>1. l \in DOMAIN comments /\ set[l] = comments[l] /\ on[l] = onLine[l]
      BY <2>5
    <3> QED
      BY <3>1, <2>1 DEF AllAnchored
  <2> HIDE DEF set, on
  <2> QED
    BY <2>2, <2>3, <2>4, <2>5 DEF AllAnchored
<1>5. DriftCheck(set, on)
  BY <1>2
<1>6. DOMAIN comments \subseteq DOMAIN set
  OBVIOUS
<1> HIDE DEF set, on
<1>7. /\ AllAnchored(comments', onLine') /\ checked' = TRUE
      /\ Settled(comments', onLine', source)
      /\ Cardinality(DOMAIN comments') = Cardinality(DOMAIN set)
  BY <1>1, <1>4, <1>5, CheckIsSettled
<1>8. NoCommentGoes
  <2>1. IsFiniteSet(DOMAIN set)
    BY <1>4 DEF AllAnchored
  <2>2. Cardinality(DOMAIN comments) <= Cardinality(DOMAIN set)
    BY <2>1, <1>6, FS_Subset
  <2>3. Cardinality(DOMAIN comments) \in Nat /\ Cardinality(DOMAIN set) \in Nat
    BY <2>1, <1>6, FS_Subset, FS_CardinalityType
  <2> QED
    BY <2>2, <2>3, <1>7 DEF NoCommentGoes
<1> QED
  BY <1>1, <1>7, <1>8 DEF AnchorsInv

LEMMA DeletionKeepsAnchors ==
  ASSUME AnchorsInv, CommentIsDeleted
  PROVE  AnchorsInv'
<1>1. PICK line \in DOMAIN comments :
         DriftCheck([l \in DOMAIN comments \ {line} |-> comments[l]], [l \in DOMAIN onLine \ {line} |-> onLine[l]])
  BY DEF CommentIsDeleted
<1> DEFINE rest == [l \in DOMAIN comments \ {line} |-> comments[l]]
           on == [l \in DOMAIN onLine \ {line} |-> onLine[l]]
<1>2. AllAnchored(comments, onLine) /\ source \in Files \cup {Gone} /\ source' = source
  BY DEF AnchorsInv, CommentIsDeleted
<1>3. AllAnchored(rest, on)
  <2>1. DOMAIN rest = DOMAIN comments \ {line} /\ DOMAIN on = DOMAIN onLine \ {line}
    OBVIOUS
  <2>2. IsFiniteSet(DOMAIN comments \ {line})
    BY <1>2, FS_Subset DEF AllAnchored
  <2>3. \A l \in DOMAIN rest : rest[l] = comments[l]
    OBVIOUS
  <2>4. \A l \in DOMAIN on : on[l] = onLine[l]
    OBVIOUS
  <2> HIDE DEF rest, on
  <2> QED
    BY <2>1, <2>2, <2>3, <2>4, <1>2 DEF AllAnchored
<1>4. DriftCheck(rest, on)
  BY <1>1
<1> HIDE DEF rest, on
<1>5. /\ AllAnchored(comments', onLine') /\ checked' = TRUE
      /\ source # Gone => Settled(comments', onLine', source)
  BY <1>2, <1>3, <1>4, CheckIsSettled
<1> QED
  BY <1>2, <1>5 DEF AnchorsInv

LEMMA StepKeepsAnchors ==
  ASSUME AnchorsInv, [AnchorsNext]_anchorVars
  PROVE  AnchorsInv' /\ (NoCommentGoes \/ CommentIsDeleted)
<1>0. AllAnchored(comments, onLine) /\ source \in Files \cup {Gone}
  BY DEF AnchorsInv
<1>1. Cardinality(DOMAIN comments) \in Nat
  BY <1>0, FS_CardinalityType DEF AllAnchored
<1>2. CASE FileIsEdited
  <2>1. source' \in Files \cup {Gone} /\ checked' = FALSE /\ UNCHANGED <<comments, onLine>>
    BY <1>2 DEF FileIsEdited
  <2>2. comments' = comments /\ onLine' = onLine /\ checked' = FALSE
    BY <2>1
  <2>3. AllAnchored(comments', onLine')
    BY <2>2, <1>0
  <2>4. AnchorsInv'
    BY <2>1, <2>2, <2>3 DEF AnchorsInv
  <2>5. NoCommentGoes
    BY <2>2, <1>1 DEF NoCommentGoes
  <2> QED
    BY <2>4, <2>5
<1>3. CASE CommentIsSet
  BY <1>3, SetKeepsAnchors
<1>4. CASE CommentIsDeleted
  BY <1>4, DeletionKeepsAnchors
<1>5. CASE DriftIsChecked
  <2>1. DriftCheck(comments, onLine) /\ source' = source
    BY <1>5 DEF DriftIsChecked
  <2>2. /\ AllAnchored(comments', onLine') /\ checked' = TRUE
        /\ source # Gone => Settled(comments', onLine', source)
        /\ Cardinality(DOMAIN comments') = Cardinality(DOMAIN comments)
    BY <2>1, <1>0, CheckIsSettled
  <2>3. AnchorsInv'
    BY <2>1, <2>2, <1>0 DEF AnchorsInv
  <2>4. NoCommentGoes
    BY <2>2, <1>1 DEF NoCommentGoes
  <2> QED
    BY <2>3, <2>4
<1>6. CASE UNCHANGED anchorVars
  <2>1. UNCHANGED <<source, comments, onLine, checked>>
    BY <1>6 DEF anchorVars
  <2> QED
    BY <2>1, <1>1 DEF AnchorsInv, NoCommentGoes, AllAnchored
<1> QED
  BY <1>2, <1>3, <1>4, <1>5, <1>6 DEF AnchorsNext

\* A comment of a settled review is where it says, and stays there.
LEMMA SettledIsFound ==
  ASSUME AnchorsInv, checked, source # Gone
  PROVE  CommentsAreFound /\ ChecksSettle
<1>1. source \in Files /\ AllAnchored(comments, onLine) /\ Settled(comments, onLine, source)
  BY DEF AnchorsInv
<1>2. source \in Seq(Text) /\ Len(source) \in Nat /\ DOMAIN source = 1..Len(source)
  BY <1>1, FilesAre
<1>3. CommentsAreFound
  <2> SUFFICES ASSUME NEW l \in DOMAIN comments, ~comments[l].outdated, onLine[l] # NoText
               PROVE  l \in DOMAIN source /\ source[l] = onLine[l]
    BY DEF CommentsAreFound
  <2> PICK c : c = comments[l]
    OBVIOUS
  <2>1. Anchored(c, l, onLine[l]) /\ l \in Nat \ {0}
    BY <1>1 DEF AllAnchored
  <2>2. c.context # <<>> /\ c.context \in Seq(Text)
    BY <2>1 DEF Anchored
  <2>3. MatchesAt(source, c.context, c.from)
    BY <2>2, <1>1 DEF Settled
  <2>4. /\ c.from \in Nat \ {0} /\ l \in c.from..(c.from + Len(c.context) - 1)
        /\ c.context[l - c.from + 1] = onLine[l] /\ Len(c.context) \in Nat
    BY <2>1, <2>2 DEF Anchored
  <2>5. l - c.from + 1 \in 1..Len(c.context) /\ c.from - 1 + (l - c.from + 1) = l
    BY <2>1, <2>4
  <2>6. l - c.from + 1 \in DOMAIN c.context
    BY <2>2, <2>5
  <2>7. source[l] = onLine[l]
    BY <2>3, <2>4, <2>5, <2>6 DEF MatchesAt
  <2>8. l <= Len(source)
    BY <2>1, <2>3, <2>4, <1>2 DEF MatchesAt
  <2> QED
    BY <2>1, <2>7, <2>8, <1>2
<1>4. ChecksSettle
  <2> DEFINE again == Checked(comments, source)
             a == MovesOf(comments, source)
  <2>1. DOMAIN a = {}
    BY <1>1 DEF Settled
  <2> SUFFICES ASSUME NEW l \in DOMAIN comments, onLine[l] # NoText PROVE l \in DOMAIN again /\ again[l] = comments[l]
    BY DEF ChecksSettle
  <2>2. l \in DOMAIN comments \ DOMAIN a
    BY <2>1
  <2>3. l \in DOMAIN again /\ again[l] = Stayed(comments, source, l)
    <3> DEFINE w == WantedMoves(comments, source)
               on2 == Followed(comments, onLine, source)
    <3>1. CheckedTo(source, comments, onLine, a, w, again, on2)
      BY <1>1, CheckedAre
    <3> HIDE DEF a, w, again, on2
    <3> QED
      BY <2>2, <3>1 DEF CheckedTo
  <2> HIDE DEF again, a
  <2> PICK c : c = comments[l]
    OBVIOUS
  <2>4. Anchored(c, l, onLine[l])
    BY <1>1 DEF AllAnchored
  <2>5. c.context # <<>> /\ c = [context |-> c.context, from |-> c.from, outdated |-> c.outdated] /\ c.outdated \in BOOLEAN
    BY <2>4 DEF Anchored
  <2>6. c.outdated <=> ~MatchesAt(source, c.context, c.from)
    BY <2>5, <1>1 DEF Settled
  <2>7. CASE MatchesAt(source, c.context, c.from)
    <3>1. c.outdated = FALSE /\ l \notin StraysIn(comments, source)
      BY <2>5, <2>6, <2>7 DEF StraysIn
    <3>2. Stayed(comments, source, l) = [c EXCEPT !.outdated = FALSE]
      BY <2>5, <3>1 DEF Stayed
    <3>3. [c EXCEPT !.outdated = FALSE] = c
      BY <2>5, <3>1
    <3> QED
      BY <2>3, <3>2, <3>3
  <2>8. CASE ~MatchesAt(source, c.context, c.from)
    <3>1. c.outdated = TRUE /\ l \in StraysIn(comments, source)
      BY <2>5, <2>6, <2>8 DEF StraysIn
    <3>2. Stayed(comments, source, l) = [c EXCEPT !.outdated = TRUE]
      BY <2>5, <3>1 DEF Stayed
    <3>3. [c EXCEPT !.outdated = TRUE] = c
      BY <2>5, <3>1
    <3> QED
      BY <2>3, <3>2, <3>3
  <2> QED
    BY <2>7, <2>8
<1> QED
  BY <1>3, <1>4

\* After a check, a comment that is not outdated stands at a line with the text that it
\* was made on, a second check changes nothing, and only a deletion loses a comment
\* (checkDrift and relocate, store.ts), for files of any length and any comments.
THEOREM CommentsAlwaysFollow == AnchorsSpec => CommentsFollowLines
<1>1. AnchorsInit => AnchorsInv
  <2>1. DOMAIN <<>> = {} /\ IsFiniteSet({})
    BY FS_EmptySet
  <2> QED
    BY <2>1 DEF AnchorsInit, AnchorsInv, AllAnchored
<1>2. AnchorsInv /\ [AnchorsNext]_anchorVars => AnchorsInv'
  BY StepKeepsAnchors
<1>3. AnchorsInv => (checked /\ source # Gone => CommentsAreFound /\ ChecksSettle)
  BY SettledIsFound
<1>4. AnchorsInv /\ [AnchorsNext]_anchorVars => [NoCommentGoes \/ CommentIsDeleted]_anchorVars
  BY StepKeepsAnchors
<1> QED
  BY <1>1, <1>2, <1>3, <1>4, PTL DEF AnchorsSpec, CommentsFollowLines
=============================================================================
