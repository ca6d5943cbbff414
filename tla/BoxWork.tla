-------------------------------- MODULE BoxWork --------------------------------
(***************************************************************************)
(* What counts as work in a process table of a box, and the order in which *)
(* it is ended: adapterPids, isResident, readBox and workPids              *)
(* (background.ts), and boxProcesses and killInBox (processes.ts).         *)
(*                                                                         *)
(* A table is a question: the machine picks one, and the code answers.     *)
(* A command line is what the rules make of it:                            *)
(*   "adapter"  has the token of a harness that starts its agent itself    *)
(*   "solo"     has the token of a harness that is the agent               *)
(*   "agent"    matches residentProcesses; its path has a token too        *)
(*   "hold"     is the sleep of the entrypoint                             *)
(*   "service"  is the file service, or the ps of the reading              *)
(*   "command"  is anything else                                           *)
(***************************************************************************)
EXTENDS Integers, FiniteSets, Sequences, Functions

CONSTANT LastPid      \* bound: the processes of a table

ASSUME PidAssumption == LastPid \in Nat \ {0}

VARIABLES table,      \* the table, with the command and the parent of each pid
          workFound   \* the answer: the pids in the order of the kill, or empty before it

workVars == <<table, workFound>>

InitPid == 1
Pid == 1..LastPid
Command == {"adapter", "solo", "agent", "hold", "service", "command"}

\* The parent of init is 0, which no process has.
Tables ==
  {[command |-> c, parent |-> p] :
     c \in {f \in [Pid -> Command] : f[InitPid] = "hold"},
     p \in {f \in [Pid -> 0..LastPid] : f[InitPid] = 0 /\ \A i \in Pid : i # InitPid => f[i] \in 1..(i - 1)}}

\* The processes above one, up to the root.
Above(t, pid) ==
  LET up[p \in 0..LastPid] == IF p = 0 THEN {} ELSE {p} \cup up[t.parent[p]]
  IN  up[t.parent[pid]]

Carries(t, pid) == t.command[pid] \in {"adapter", "solo", "agent"}
Named(t, pid) == t.command[pid] = "agent"

\* A mutant: a token is enough.
AdapterPids_ByToken(t) == {pid \in Pid : Carries(t, pid) /\ ~Named(t, pid)}

\* adapterPids: the token is not in an agent, and not below another token.
AdapterPids(t) ==
  {pid \in Pid : Carries(t, pid) /\ ~Named(t, pid) /\ ~\E above \in Above(t, pid) : Carries(t, above)}

\* isResident.
IsResident(t, pid) ==
  \/ pid = InitPid
  \/ t.parent[pid] = InitPid /\ t.command[pid] = "hold"
  \/ pid \in AdapterPids(t)
  \/ t.parent[pid] \in AdapterPids(t) /\ t.command[t.parent[pid]] = "adapter"
  \/ t.command[pid] = "service"
  \/ Named(t, pid)

\* readBox.
Work(t) == {pid \in Pid : ~IsResident(t, pid)}

Depth(t, pid) == Cardinality(Above(t, pid)) + 1

\* workPids: the deepest first, otherwise in the order of the table.
Before(t, a, b) ==
  \/ Depth(t, a) > Depth(t, b)
  \/ Depth(t, a) = Depth(t, b) /\ a < b
WorkPids(t) ==
  [i \in 1..Cardinality(Work(t)) |->
     CHOOSE pid \in Work(t) : Cardinality({other \in Work(t) : Before(t, other, pid)}) = i - 1]

WorkInit == table \in Tables /\ workFound = <<>>

BoxIsRead ==
  /\ workFound = <<>>
  /\ workFound' = WorkPids(table)
  /\ UNCHANGED table

WorkSpec == WorkInit /\ [][BoxIsRead]_workVars

(***************************************************************************)
(* Properties.                                                             *)
(***************************************************************************)

\* Whoever started it: a command is work, also one whose agent has gone, and one that
\* an agent runs inside an adapter of its own; the only commands that are not are those
\* that an adapter has started directly.  No adapter is work that stands alone.  And no
\* process is ended before the ones below it (doc/threads.md, workPids).
WorkIsReadRight ==
  workFound # <<>> =>
    LET found == Range(workFound)
        Outermost(pid) == \A above \in Above(table, pid) : ~Carries(table, above)
    IN  /\ \A pid \in Pid \ {InitPid} :
             /\ table.command[pid] = "command" =>
                  \/ pid \in found
                  \/ Outermost(table.parent[pid]) /\ table.command[table.parent[pid]] = "adapter"
             /\ table.command[pid] \in {"adapter", "solo"} /\ Outermost(pid) => pid \notin found
        /\ \A i, j \in DOMAIN workFound : i < j => workFound[i] \notin Above(table, workFound[j])
=============================================================================
