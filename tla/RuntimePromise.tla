----------------------------- MODULE RuntimePromise -----------------------------
(***************************************************************************)
(* What a runtime promises for one box (the comments of the interface      *)
(* Runtime, runtime.ts).  A call of the orchestrator runs until it returns *)
(* or throws; a throw promises nothing.                                    *)
(***************************************************************************)

VARIABLES power,    \* the container runs, or is on its way: "on" or "off"
          fence,    \* the isolation of the box is complete
          files,    \* the storage of the box is complete
          call,     \* the call that runs, or how the last one ended
          repaired, \* the isolation was complete at some time during the call
          reported  \* the call could not repair it, and has only logged that

promiseVars == <<power, fence, files, call, repaired, reported>>

Calls == {"createStorage", "removeStorage", "ensure", "start", "stop", "remove"}

RuntimeInit == power = "off" /\ ~fence /\ ~files /\ call = "none" /\ ~repaired /\ ~reported

Begins ==
  /\ call \notin Calls /\ call' \in Calls
  /\ ~repaired' /\ ~reported'
  /\ UNCHANGED <<power, fence, files>>

\* createStorage, and removeStorage.
FilesChange ==
  /\ \/ call = "createStorage" /\ files'
     \/ call = "removeStorage" /\ ~files'
  /\ UNCHANGED <<power, fence>>

\* ensure repairs the isolation, and nothing else that can be seen from here: it never
\* ends a container that runs.
Fenced == call = "ensure" /\ fence' /\ UNCHANGED <<power, files>>

\* start brings the container up, or down again when it cannot run.
Switched == call = "start" /\ power' \in {"on", "off"} /\ UNCHANGED <<fence, files>>

Downed == call \in {"stop", "remove"} /\ power' = "off" /\ UNCHANGED <<fence, files>>

\* remove takes the isolation only from a box that is down.
Unfenced == call = "remove" /\ power = "off" /\ ~fence' /\ UNCHANGED <<power, files>>

\* What a call is for.
Kept(c) ==
  CASE c = "createStorage" -> files
    [] c = "removeStorage" -> ~files
    [] c = "ensure"        -> repaired \/ reported
    [] c = "start"         -> power = "on"
    [] c = "stop"          -> power = "off"
    [] c = "remove"        -> power = "off" /\ ~fence

\* A call works on the box, goes on, throws, or returns when what it is for is so.
Works ==
  \E c \in Calls :
    /\ call = c
    /\ \/ FilesChange \/ Fenced \/ Switched \/ Downed \/ Unfenced
       \/ UNCHANGED <<power, fence, files>>
    /\ c = "ensure" /\ repaired' => repaired \/ fence \/ fence'
    /\ reported' => reported \/ c = "ensure"
    /\ call' \in {c, "throw", "return"}
    /\ call' = "return" => Kept(c)'

\* The container ends, or somebody takes a part of the box away.
BreaksDown ==
  /\ power' \in {power, "off"}
  /\ fence' \in {fence, FALSE}
  /\ files' \in {files, FALSE}
  /\ UNCHANGED <<call, repaired, reported>>

RuntimeNext == Begins \/ Works \/ BreaksDown

RuntimeSpec == RuntimeInit /\ [][RuntimeNext]_promiseVars
=============================================================================
