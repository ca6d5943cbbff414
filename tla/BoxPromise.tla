------------------------------ MODULE BoxPromise ------------------------------
(***************************************************************************)
(* What the manager of the boxes promises to the parts that only read the  *)
(* rows (the routes, the gateway, the reaper): a box is a row, a power     *)
(* switch, and a mark that says that one can work in it.  No slot, no      *)
(* awaited call, no crash is visible here.  BoxLifecycle implements it.    *)
(***************************************************************************)
CONSTANT Box

VARIABLES row,     \* "none", "kept", "stopped" or "gone"
          power,   \* the container runs
          fit,     \* it has been set up since it was switched on
          mark     \* the box counts as ready

promiseVars == <<row, power, fit, mark>>

PromiseInit ==
  /\ row = [b \in Box |-> "none"]
  /\ power = [b \in Box |-> FALSE]
  /\ fit = [b \in Box |-> FALSE]
  /\ mark = [b \in Box |-> FALSE]

\* A box is made once, is kept or stopped, and is gone for good.  The row says that it
\* is stopped only when it is.
RowMoves(b) ==
  \/ row'[b] = row[b]
  \/ row[b] \in {"none", "stopped"} /\ row'[b] = "kept"
  \/ row[b] = "kept" /\ row'[b] = "stopped" /\ ~power'[b]
  \/ row[b] \in {"kept", "stopped"} /\ row'[b] = "gone"

\* Only a box with a row is switched on; nothing is set up in it then, and nothing says so.
SwitchesOn(b) ==
  /\ ~power[b] /\ power'[b]
  /\ row[b] \in {"kept", "stopped"} /\ row'[b] = row[b]
  /\ ~fit'[b]
  /\ ~mark[b] /\ ~mark'[b]

\* It can go off at any time, is set up while it runs, and is marked when that is done.
Runs(b) ==
  /\ power'[b] => power[b]
  /\ fit'[b] = fit[b] \/ (power[b] /\ fit'[b])
  /\ mark'[b] /\ power'[b] => fit'[b]

PromiseNext == \A b \in Box : RowMoves(b) /\ (SwitchesOn(b) \/ Runs(b))

PromiseSpec == PromiseInit /\ [][PromiseNext]_promiseVars
=============================================================================
