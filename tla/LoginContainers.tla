----------------------------- MODULE LoginContainers -----------------------------
(***************************************************************************)
(* The containers of the logins: startLogin of both runtimes (docker.ts,   *)
(* kubernetes.ts), their removal by LoginManager.run (login.ts), and the   *)
(* sweep of what is left of them (boxes.ts).  What a login shows and       *)
(* stores is in Vault.                                                     *)
(*                                                                         *)
(* The clock counts in steps of five minutes: a login is given up after    *)
(* two of them, and the sweep removes containers that are three old.       *)
(***************************************************************************)
EXTENDS Naturals, FiniteSets

CONSTANTS LoginRun,        \* the logins, each at most once
          MaxLoginFaults   \* bound: calls that fail, and crashes

ASSUME LoginRunAssumption == IsFiniteSet(LoginRun) /\ MaxLoginFaults \in Nat

VARIABLES
  platform,      \* the runtime
  loginAt,       \* where startLogin and run of each login are
  givenUp,       \* the logins that are settled: cancelled, replaced, or out of time
  waited,        \* the age of the timer of each login
  loginBox,      \* the container of each login
  boxAge,        \* its age
  loginPolicy,   \* the network policy of the login pods is there
  toSweep,       \* what the sweep has found and not removed yet
  loginFaults,
  left,          \* for the properties: nobody but the sweep knows of the container
  raced          \* for the properties: the logins that found the policy made meanwhile

loginBoxVars == <<platform, loginAt, givenUp, waited, loginBox, boxAge, loginPolicy, toSweep, loginFaults, left, raced>>

OutOfTime == 2
Active == {l \in LoginRun : loginAt[l] \notin {"none", "over"}}
LoginBoxesTypeOK ==
  /\ loginAt \in [LoginRun -> {"none", "read", "policy", "create", "start", "up", "remove", "over"}]
  /\ loginBox \in [LoginRun -> {"none", "made", "runs"}]
  /\ boxAge \in [LoginRun -> 0..3] /\ waited \in [LoginRun -> 0..OutOfTime]
  /\ givenUp \subseteq LoginRun /\ toSweep \subseteq LoginRun

LoginBoxesInit ==
  /\ platform \in {"docker", "kubernetes"}
  /\ loginAt = [l \in LoginRun |-> "none"] /\ givenUp = {} /\ waited = [l \in LoginRun |-> 0]
  /\ loginBox = [l \in LoginRun |-> "none"] /\ boxAge = [l \in LoginRun |-> 0]
  /\ loginPolicy = FALSE /\ toSweep = {} /\ loginFaults = 0 /\ left = {} /\ raced = {}

LoginFault == loginFaults < MaxLoginFaults /\ loginFaults' = loginFaults + 1
LoginGoesTo(l, at) == loginAt' = [loginAt EXCEPT ![l] = at]

(***************************************************************************)
(* startLogin.                                                             *)
(***************************************************************************)

\* LoginManager.start: the timer begins before the container.
LoginBegins(l) ==
  /\ loginAt[l] = "none"
  /\ LoginGoesTo(l, IF platform = "kubernetes" THEN "read" ELSE "create")
  /\ UNCHANGED <<platform, givenUp, waited, loginBox, boxAge, loginPolicy, toSweep, loginFaults, left, raced>>

\* ensureLoginPolicy reads the policy, and makes it when it is missing.
PolicyIsRead(l) ==
  /\ loginAt[l] = "read" /\ LoginGoesTo(l, IF loginPolicy THEN "create" ELSE "policy")
  /\ UNCHANGED <<platform, givenUp, waited, loginBox, boxAge, loginPolicy, toSweep, loginFaults, left, raced>>

\* Another login may have made it in between: the cluster refuses, and the login fails.
PolicyIsMade(l) ==
  /\ loginAt[l] = "policy"
  /\ LoginGoesTo(l, IF loginPolicy THEN "over" ELSE "create")
  /\ raced' = IF loginPolicy THEN raced \cup {l} ELSE raced
  /\ loginPolicy' = TRUE
  /\ UNCHANGED <<platform, givenUp, waited, loginBox, boxAge, toSweep, loginFaults, left>>

LoginBoxIsMade(l) ==
  /\ loginAt[l] = "create" /\ LoginGoesTo(l, "start")
  /\ loginBox' = [loginBox EXCEPT ![l] = "made"]
  /\ UNCHANGED <<platform, givenUp, waited, boxAge, loginPolicy, toSweep, loginFaults, left, raced>>

\* The create fails, or its answer is lost: nothing removes what it may have made.
CreateIsLost(l) ==
  /\ loginAt[l] = "create" /\ LoginGoesTo(l, "over") /\ LoginFault
  /\ \/ UNCHANGED <<loginBox, left>>
     \/ loginBox' = [loginBox EXCEPT ![l] = "made"] /\ left' = left \cup {l}
  /\ UNCHANGED <<platform, givenUp, waited, boxAge, loginPolicy, toSweep, raced>>

\* A login that was given up meanwhile is not begun: run returns, and removes the container.
LoginBoxRuns(l) ==
  /\ loginAt[l] = "start" /\ loginBox[l] # "none"
  /\ loginBox' = [loginBox EXCEPT ![l] = "runs"]
  /\ LoginGoesTo(l, IF l \in givenUp THEN "remove" ELSE "up")
  /\ UNCHANGED <<platform, givenUp, waited, boxAge, loginPolicy, toSweep, loginFaults, left, raced>>

\* The start fails, or takes too long, or the container is gone.
LoginBoxDoesNotRun(l) ==
  /\ loginAt[l] = "start"
  /\ IF loginBox[l] = "none" THEN UNCHANGED loginFaults ELSE LoginFault
  /\ LoginGoesTo(l, "remove")
  /\ UNCHANGED <<platform, givenUp, waited, loginBox, boxAge, loginPolicy, toSweep, left, raced>>

(***************************************************************************)
(* The end of a login.                                                     *)
(***************************************************************************)

\* settle: the command ends, or its user cancels or begins another login.  abort and run
\* both remove the container, each when it finds the handle.
LoginEnds(l) ==
  /\ l \in Active \ givenUp
  /\ givenUp' = givenUp \cup {l}
  /\ IF loginAt[l] = "up" THEN LoginGoesTo(l, "remove") ELSE UNCHANGED loginAt
  /\ UNCHANGED <<platform, waited, loginBox, boxAge, loginPolicy, toSweep, loginFaults, left, raced>>

\* remove never throws.
LoginBoxIsRemoved(l) ==
  /\ loginAt[l] = "remove" /\ LoginGoesTo(l, "over")
  /\ \/ loginBox' = [loginBox EXCEPT ![l] = "none"] /\ UNCHANGED <<loginFaults, left>>
     \/ loginBox[l] # "none" /\ LoginFault /\ left' = left \cup {l} /\ UNCHANGED loginBox
  /\ UNCHANGED <<platform, givenUp, waited, boxAge, loginPolicy, toSweep, raced>>

\* A timer fires before the clock goes on.
FiveMinutesPass ==
  /\ \A l \in Active \ givenUp : waited[l] < OutOfTime
  /\ waited' = [l \in LoginRun |-> IF l \in Active /\ waited[l] < OutOfTime THEN waited[l] + 1 ELSE waited[l]]
  /\ boxAge' = [l \in LoginRun |-> IF loginBox[l] # "none" /\ boxAge[l] < 3 THEN boxAge[l] + 1 ELSE boxAge[l]]
  /\ UNCHANGED <<platform, loginAt, givenUp, loginBox, loginPolicy, toSweep, loginFaults, left, raced>>

\* The process ends: closeAll has no time to remove anything, or there was a crash.
ManagerIsLost ==
  /\ LoginFault
  /\ loginAt' = [l \in LoginRun |-> IF l \in Active THEN "over" ELSE loginAt[l]]
  /\ left' = left \cup {l \in Active : loginBox[l] # "none"}
  /\ toSweep' = {}
  /\ UNCHANGED <<platform, givenUp, waited, loginBox, boxAge, loginPolicy, raced>>

(***************************************************************************)
(* The sweep.                                                              *)
(***************************************************************************)

\* A mutant: the sweep forgets the time of a login.
Cutoff_OfLogin == 2
\* LOGIN_CONTAINER_MAX_AGE_MS
Cutoff == 3

\* inventory and sweepLogins.
SweepFindsLogins ==
  /\ toSweep = {} /\ toSweep' = {l \in LoginRun : loginBox[l] # "none" /\ boxAge[l] >= Cutoff}
  /\ toSweep' # {}
  /\ UNCHANGED <<platform, loginAt, givenUp, waited, loginBox, boxAge, loginPolicy, loginFaults, left, raced>>

SweepRemovesLogin(l) ==
  /\ l \in toSweep /\ toSweep' = toSweep \ {l}
  /\ \/ loginBox' = [loginBox EXCEPT ![l] = "none"] /\ left' = left \ {l} /\ UNCHANGED loginFaults
     \/ LoginFault /\ UNCHANGED <<loginBox, left>>
  /\ UNCHANGED <<platform, loginAt, givenUp, waited, boxAge, loginPolicy, raced>>

LoginBoxesNext ==
  \/ FiveMinutesPass \/ ManagerIsLost \/ SweepFindsLogins
  \/ \E l \in LoginRun :
       \/ LoginBegins(l) \/ PolicyIsRead(l) \/ PolicyIsMade(l)
       \/ LoginBoxIsMade(l) \/ CreateIsLost(l) \/ LoginBoxRuns(l) \/ LoginBoxDoesNotRun(l)
       \/ LoginEnds(l) \/ LoginBoxIsRemoved(l) \/ SweepRemovesLogin(l)

LoginBoxesSpec == LoginBoxesInit /\ [][LoginBoxesNext]_loginBoxVars

(***************************************************************************)
(* Properties.                                                             *)
(***************************************************************************)

\* The sweep never removes the container of a login that goes on (boxes.ts, sweepLogins).
SweepSparesLogins ==
  \A l \in Active \ givenUp :
    (loginAt[l] = "up" => loginBox[l] = "runs") /\ (loginAt[l] = "start" => loginBox[l] # "none")

\* The home of a login holds a part of a credential.  A login that is over leaves no
\* container, but for a call that failed, or a process that ended: then the sweep has it.
LoginsLeaveNothing ==
  \A l \in LoginRun : loginBox[l] # "none" /\ loginAt[l] \in {"none", "over"} => l \in left

\* No login pod is without its network policy, which keeps it from the cluster.
PodsAreFenced == platform = "kubernetes" => \A l \in LoginRun : loginBox[l] # "none" => loginPolicy

\* A login that nobody ends, and no call fails, gets its container, unless the first two
\* logins of a cluster begin at the same time.
LoginsStart ==
  loginFaults = 0 => \A l \in LoginRun : loginAt[l] = "over" => l \in givenUp \cup raced

LoginContainersGo == LoginBoxesTypeOK /\ SweepSparesLogins /\ LoginsLeaveNothing /\ PodsAreFenced /\ LoginsStart
=============================================================================
