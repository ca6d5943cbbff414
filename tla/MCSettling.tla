------------------------------ MODULE MCSettling ------------------------------
(***************************************************************************)
(* Small instances of what must end or settle, each with the fairness of   *)
(* its module: the bring-up of a thread, the held questions, the turns,    *)
(* the pushes to the proxy, and the idle reaper.  They share no state: a   *)
(* behaviour is one of a single module, and the fairness of a module is    *)
(* that of its own behaviours.                                             *)
(***************************************************************************)
EXTENDS Questions, Turns, EgressPush, IdleReaper, ThreadBringUp

VARIABLE part    \* the module that the behaviour belongs to

MCSettlingInit ==
  /\ part \in {"questions", "turns", "push", "reaper", "threads"}
  /\ QuestionsInit /\ (part # "questions" => fallback = "hold")
  /\ TurnsInit
  /\ PushInit /\ (part # "push" => ~store.secrets)
  /\ ReaperInit
  /\ Init

MCSettlingNext ==
  /\ UNCHANGED part
  /\ \/ /\ part = "questions" /\ QuestionsNext
        /\ UNCHANGED <<turnVars, pushVars, reaperVars, vars>>
     \/ /\ part = "turns" /\ TurnsNext
        /\ UNCHANGED <<questionVars, pushVars, reaperVars, vars>>
     \/ /\ part = "push" /\ PushNext
        /\ UNCHANGED <<questionVars, turnVars, reaperVars, vars>>
     \/ /\ part = "reaper" /\ ReaperNext
        /\ UNCHANGED <<questionVars, turnVars, pushVars, vars>>
     \/ /\ part = "threads" /\ Next
        /\ UNCHANGED <<questionVars, turnVars, pushVars, reaperVars>>

\* QuestionsFairness, TurnsFairness, PushFairness, ReaperFairness, and that of
\* ThreadBringUp.
SettlingFairness ==
  /\ \A q \in Question : WF_questionVars(part = "questions" /\ HoldElapses(q))
  /\ WF_turnVars(part = "turns" /\ QuietElapses)
  /\ WF_turnVars(part = "turns" /\ SettleElapses)
  /\ WF_pushVars(part = "push" /\ LoopSyncs)
  /\ WF_pushVars(part = "push" /\ PushBegins)
  /\ WF_pushVars(part = "push" /\ PushSucceeds)
  /\ \A c \in Caller \cup {Nobody} :
       /\ WF_pushVars(part = "push" /\ \E p \in onWire : p.caller = c /\ PushArrives(p))
       /\ WF_pushVars(part = "push" /\ \E a \in answers : a.caller = c /\ PushAnswerArrives(a))
  /\ WF_reaperVars(part = "reaper" /\ MinutePasses)
  /\ WF_reaperVars(part = "reaper" /\ TickReadsRows)
  /\ WF_reaperVars(part = "reaper" /\ TickSpares)
  /\ SF_reaperVars(part = "reaper" /\ TickReaps)
  /\ WF_reaperVars(part = "reaper" /\ ProcessesAreRead)
  /\ WF_reaperVars(part = "reaper" /\ (ReadingLands \/ ReadingFails))
  /\ \A f \in Flow : SF_vars(part = "threads" /\ CallAnswered(f))
  /\ \A t \in Thread : WF_vars(part = "threads" /\ BringUpGoesOn(t))
  /\ WF_vars(part = "threads" /\ StartGoesOn)

MCSettlingSpec ==
  /\ MCSettlingInit
  /\ [][MCSettlingNext]_<<part, questionVars, turnVars, pushVars, reaperVars, vars>>
  /\ SettlingFairness

\* HoldEnds and QuietThreadSettles: what the gateway times, ends (armFallback, quiet and
\* armSettle).
QuestionsAndTurnsEnd == HoldEnds /\ QuietThreadSettles

\* PolicyConverges, for the behaviours in which a policy is pushed at all: the proxy
\* ends up with the policy of the store (egress.ts, main.ts, startProxyReconciler).
PushedPolicyConverges == part = "push" => PolicyConverges

=============================================================================
