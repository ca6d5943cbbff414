--------------------------------- MODULE Vault ---------------------------------
(***************************************************************************)
(* One credential of one user: its row in the store and the refresh of it  *)
(* (orchestrator/src/credentials.ts), the loop that runs the refresh       *)
(* (reaper.ts), and the logins that write it (login.ts).                   *)
(*                                                                         *)
(* A refresh token is a number, and the token endpoint keeps the set of    *)
(* those it accepts: a refresh can replace the token it was made with.     *)
(* A decision is what the user did last about the credential: a paste, a   *)
(* removal, or a login that the user saw through.                          *)
(***************************************************************************)
EXTENDS Naturals, FiniteSets

CONSTANTS Login,          \* the logins, each at most once
          NoLogin,        \* no login
          NoRow,          \* no row
          Tick,           \* the ticks of the refresh loop; two of them would overlap
          MaxDecisions,   \* bound: decisions of the user
          MaxTokens       \* bound: refresh tokens that the endpoint issues

ASSUME VaultBounds == MaxDecisions \in Nat /\ MaxTokens \in Nat
ASSUME NoLoginAssumption == NoLogin \notin Login

VARIABLES
  \* The row of the credential, and the truth at the endpoint.
  kind,        \* the credential: its login and its refresh depend on it
  secretRow,   \* the row of the table credentials
  decision,    \* the number of the last decision of the user (for the properties)
  accepted,    \* the refresh tokens that the endpoint accepts
  issued,      \* how many it has issued
  answerLost,  \* an answer of the endpoint was lost (for the properties)
  overtaken,   \* something was under way when the user decided last (for the properties)
  \* The refresh loop.
  phase,       \* what each tick does
  listed,      \* the row that each tick has read
  offer,       \* the refresh token in the answer that is on its way to each tick
  \* The logins.
  current,     \* LoginManager.flows: the login of this credential
  page,        \* Flow.state: what the settings page shows
  loginStep,   \* where LoginManager.run of each login is
  holds,       \* Flow.login is set
  container    \* the login container of each login runs

endpointVars == <<accepted, issued, answerLost>>
refreshVars == <<phase, listed, offer>>
loginVars == <<current, page, loginStep, holds, container>>
vaultVars == <<kind, secretRow, decision, overtaken, endpointVars, refreshVars, loginVars>>

\* A row: how the secret was got, its refresh token (0 without one), the decision
\* that it comes from, and its status.
Secret == [method : {"token", "oauth"}, token : 0..MaxTokens, made : 0..MaxDecisions,
           status : {"ok", "failing", "expired"}]

VaultTypeOK ==
  /\ kind \in {"claude", "openai", "devtunnels"}
  /\ secretRow \in Secret \cup {NoRow}
  /\ decision \in 0..MaxDecisions
  /\ accepted \subseteq 1..MaxTokens
  /\ issued \in 0..MaxTokens
  /\ answerLost \in BOOLEAN
  /\ overtaken \in BOOLEAN
  /\ phase \in [Tick -> {"idle", "listed", "posted"}]
  /\ listed \in [Tick -> Secret \cup {NoRow}]
  /\ offer \in [Tick -> 0..MaxTokens]
  /\ current \in Login \cup {NoLogin}
  /\ page \in [Login -> {"none", "starting", "browser", "code", "refused", "done", "failed"}]
  /\ loginStep \in [Login -> {"none", "container", "spawn", "cli", "grace", "reading",
                        "asking", "polling", "lookup", "over"}]
  /\ holds \in [Login -> BOOLEAN]
  /\ container \in [Login -> BOOLEAN]

VaultInit ==
  /\ kind \in {"claude", "openai", "devtunnels"}
  /\ secretRow = NoRow
  /\ decision = 0
  /\ accepted = {}
  /\ issued = 0
  /\ answerLost = FALSE
  /\ overtaken = FALSE
  /\ phase = [t \in Tick |-> "idle"]
  /\ listed = [t \in Tick |-> NoRow]
  /\ offer = [t \in Tick |-> 0]
  /\ current = NoLogin
  /\ page = [f \in Login |-> "none"]
  /\ loginStep = [f \in Login |-> "none"]
  /\ holds = [f \in Login |-> FALSE]
  /\ container = [f \in Login |-> FALSE]

(***************************************************************************)
(* The store.                                                              *)
(***************************************************************************)

\* Something that has read the credential, or a login, will write it later.
UnderWay == (\E t \in Tick : phase[t] # "idle") \/ (\E f \in Login : loginStep[f] = "reading")

\* CredentialStore.put with what the user has decided.
Decide(newRow) ==
  /\ decision < MaxDecisions
  /\ decision' = decision + 1
  /\ overtaken' = UnderWay
  /\ secretRow' = newRow

\* PUT /api/credentials/:id: the user pastes a token or an API key.
UserPastes ==
  /\ Decide([method |-> "token", token |-> 0, made |-> decision + 1, status |-> "ok"])
  /\ UNCHANGED <<kind, endpointVars, refreshVars, loginVars>>

\* CredentialStore.remove.
UserRemoves ==
  /\ secretRow # NoRow
  /\ Decide(NoRow)
  /\ UNCHANGED <<kind, endpointVars, refreshVars, loginVars>>

\* CredentialStore.markStatus: an UPDATE, which a row that is gone ignores.
MarkStatus(status) ==
  secretRow' = IF secretRow = NoRow THEN NoRow ELSE [secretRow EXCEPT !.status = status]

(***************************************************************************)
(* The refresh.                                                            *)
(***************************************************************************)

\* loop and refreshCredentials: a tick begins, when none runs, and reads all rows.
\* It can await the refresh of another row before it comes to this one.
TickLists(t) ==
  /\ \A u \in Tick : phase[u] = "idle"
  /\ phase' = [phase EXCEPT ![t] = "listed"]
  /\ listed' = [listed EXCEPT ![t] = secretRow]
  /\ UNCHANGED <<kind, secretRow, decision, overtaken, endpointVars, offer, loginVars>>

\* The row has no oauth method, or is not due: nothing, or the mark of an expired one.
TickSkips(t) ==
  /\ phase[t] = "listed"
  /\ phase' = [phase EXCEPT ![t] = "idle"]
  /\ \/ UNCHANGED secretRow
     \/ listed[t] # NoRow /\ listed[t].method = "token" /\ listed[t].status # "expired"
          /\ MarkStatus("expired")
     \/ listed[t] # NoRow /\ listed[t].method = "oauth" /\ listed[t].token = 0
          /\ MarkStatus("failing")
  /\ listed' = [listed EXCEPT ![t] = NoRow]
  /\ UNCHANGED <<kind, decision, overtaken, endpointVars, offer, loginVars>>

\* refreshCodex and refreshDevTunnels: the row is due, and its token goes to the
\* endpoint, which can replace it.
RefreshPosts(t) ==
  /\ phase[t] = "listed"
  /\ listed[t] # NoRow
  /\ listed[t].method = "oauth"
  /\ listed[t].token # 0
  /\ phase' = [phase EXCEPT ![t] = "posted"]
  /\ IF listed[t].token \in accepted
     THEN \/ /\ issued < MaxTokens
             /\ issued' = issued + 1
             /\ accepted' = (accepted \ {listed[t].token}) \cup {issued + 1}
             /\ offer' = [offer EXCEPT ![t] = issued + 1]
          \/ /\ offer' = [offer EXCEPT ![t] = listed[t].token]
             /\ UNCHANGED <<accepted, issued>>
     ELSE /\ offer' = [offer EXCEPT ![t] = 0]
          /\ UNCHANGED <<accepted, issued>>
  /\ UNCHANGED <<kind, secretRow, decision, overtaken, answerLost, listed, loginVars>>

\* The answer arrives, or the request fails or times out: the answer is lost then.
\* The row is written with what the tick read before.
RefreshAnswers(t) ==
  /\ phase[t] = "posted"
  /\ phase' = [phase EXCEPT ![t] = "idle"]
  /\ listed' = [listed EXCEPT ![t] = NoRow]
  /\ offer' = [offer EXCEPT ![t] = 0]
  /\ \/ /\ offer[t] # 0
        /\ secretRow' = [listed[t] EXCEPT !.token = offer[t], !.status = "ok"]
        /\ UNCHANGED answerLost
     \/ /\ MarkStatus("failing")
        /\ answerLost' = (answerLost \/ offer[t] \notin {0, listed[t].token})
  /\ UNCHANGED <<kind, decision, overtaken, accepted, issued, loginVars>>

(***************************************************************************)
(* The logins.                                                             *)
(***************************************************************************)

Settled(f) == page[f] \in {"done", "failed"}

\* LoginManager.abort and fail: the page shows the failure, the container goes now,
\* and the login is no longer the current one.
AbortOf(f, p) ==
  /\ page' = [p EXCEPT ![f] = IF Settled(f) THEN @ ELSE "failed"]
  /\ container' = [container EXCEPT ![f] = @ /\ ~holds[f]]
  /\ holds' = [holds EXCEPT ![f] = FALSE]
  /\ overtaken' = (overtaken \/ loginStep[f] = "reading")

\* LoginManager.start: a new login aborts the current one of the credential.
LoginStarts(f) ==
  /\ page[f] = "none"
  /\ current' = f
  /\ loginStep' = [loginStep EXCEPT ![f] = IF kind = "devtunnels" THEN "asking" ELSE "container"]
  /\ IF current = NoLogin
     THEN page' = [page EXCEPT ![f] = "starting"] /\ UNCHANGED <<container, holds, overtaken>>
     ELSE AbortOf(current, [page EXCEPT ![f] = "starting"])
  /\ UNCHANGED <<kind, secretRow, decision, endpointVars, refreshVars>>

\* LoginManager.cancel and closeAll.
LoginIsCancelled ==
  /\ current # NoLogin
  /\ AbortOf(current, page)
  /\ current' = NoLogin
  /\ UNCHANGED <<kind, secretRow, decision, endpointVars, refreshVars, loginStep>>

\* The login was not finished in time: only the page changes, and the exec is killed.
LoginTimesOut(f) ==
  /\ ~Settled(f)
  /\ loginStep[f] \notin {"none", "over"}
  /\ page' = [page EXCEPT ![f] = "failed"]
  /\ overtaken' = (overtaken \/ loginStep[f] = "reading")
  /\ UNCHANGED <<kind, secretRow, decision, endpointVars, refreshVars, current, loginStep, holds,
                 container>>

\* The end of run: what it still holds is removed, and a failure is shown.
RunEnds(f, shows) ==
  /\ loginStep' = [loginStep EXCEPT ![f] = "over"]
  /\ page' = [page EXCEPT ![f] = IF Settled(f) THEN @ ELSE shows]
  /\ container' = [container EXCEPT ![f] = @ /\ ~holds[f]]
  /\ holds' = [holds EXCEPT ![f] = FALSE]

\* A step of run that goes on to another await, with what the page shows then (settle).
RunGoesOn(f, next, shows) ==
  /\ loginStep' = [loginStep EXCEPT ![f] = next]
  /\ page' = [page EXCEPT ![f] = IF Settled(f) THEN @ ELSE shows]
  /\ UNCHANGED <<container, holds>>

\* Nothing is stored by this step.
StoresNothing == UNCHANGED <<kind, secretRow, decision, overtaken, endpointVars, refreshVars,
                             current>>

\* The store of a login: a login that the user saw through is a decision, one that
\* was given up is not.
StoreLogin(f) ==
  /\ \E t \in IF kind = "claude" THEN {0} ELSE {0, issued + 1} :
       LET new(made) == [method |-> IF kind = "claude" THEN "token" ELSE "oauth",
                         token |-> t, made |-> made, status |-> "ok"]
       IN  /\ t <= MaxTokens
           /\ issued' = IF t = 0 THEN issued ELSE t
           /\ accepted' = accepted \cup ({t} \ {0})
           /\ IF Settled(f) THEN secretRow' = new(0) /\ UNCHANGED <<decision, overtaken>>
                            ELSE Decide(new(decision + 1))
  /\ UNCHANGED <<kind, answerLost, refreshVars, current>>

\* run: the login container is there, or could not be started.  A login that was
\* given up meanwhile removes it again.
ContainerStarts(f) ==
  /\ loginStep[f] = "container"
  /\ \/ /\ ~Settled(f)
        /\ holds' = [holds EXCEPT ![f] = TRUE]
        /\ container' = [container EXCEPT ![f] = TRUE]
        /\ loginStep' = [loginStep EXCEPT ![f] = "spawn"]
        /\ UNCHANGED page
     \/ /\ Settled(f)
        /\ loginStep' = [loginStep EXCEPT ![f] = "over"]
        /\ UNCHANGED <<page, holds, container>>
     \/ RunEnds(f, "failed")
  /\ StoresNothing

\* spawnLogin: the CLI runs, or could not be started.
CliStarts(f) ==
  /\ loginStep[f] = "spawn"
  /\ RunGoesOn(f, "cli", page[f]) \/ RunEnds(f, "failed")
  /\ StoresNothing

\* What the CLI prints: the URL, and with Claude the prompt for a code, which it can
\* refuse.  A page that has shown the prompt keeps it.
CliPrints(f) ==
  /\ loginStep[f] = "cli"
  /\ \/ page[f] \in {"starting", "browser"} /\ RunGoesOn(f, "cli", "browser")
     \/ kind = "claude" /\ page[f] # "refused" /\ RunGoesOn(f, "cli", "code")
     \/ kind = "claude" /\ page[f] = "code" /\ RunGoesOn(f, "cli", "refused")
     \/ kind = "claude" /\ ~Settled(f) /\ RunGoesOn(f, "grace", page[f])
  /\ StoresNothing

\* submitCode: the refusal of the last code goes from the page.
UserEntersCode(f) ==
  /\ current = f
  /\ kind = "claude"
  /\ loginStep[f] = "cli"
  /\ page[f] = "refused"
  /\ page' = [page EXCEPT ![f] = "code"]
  /\ StoresNothing
  /\ UNCHANGED <<loginStep, holds, container>>

\* claudeLogin: the token is complete after the grace wait, or when the CLI ends
\* during it.
TokenIsComplete(f) ==
  /\ loginStep[f] = "grace"
  /\ RunEnds(f, "done")
  /\ IF Settled(f) THEN StoresNothing ELSE StoreLogin(f)

\* The CLI ends: a login that was given up stops here.  Codex has its document to
\* read when it exited with 0.
CliEnds(f) ==
  /\ loginStep[f] = "cli"
  /\ \/ kind = "openai" /\ ~Settled(f) /\ RunGoesOn(f, "reading", page[f])
     \/ RunEnds(f, "failed")
  /\ StoresNothing

\* codexLogin: the document is read and stored, with no further look at the flow.
DocumentIsRead(f) ==
  /\ loginStep[f] = "reading"
  /\ \/ RunEnds(f, "failed") /\ StoresNothing
     \/ RunEnds(f, "done") /\ StoreLogin(f)

\* devTunnelsLogin: GitHub hands out a device code, and is then polled.
DeviceCodeAnswers(f) ==
  /\ loginStep[f] = "asking"
  /\ RunGoesOn(f, "polling", "browser") \/ RunEnds(f, "failed")
  /\ StoresNothing

PollAnswers(f) ==
  /\ loginStep[f] = "polling"
  /\ IF Settled(f) THEN RunEnds(f, page[f])
                   ELSE RunGoesOn(f, "lookup", page[f]) \/ RunEnds(f, "failed")
  /\ StoresNothing

\* storeDevTunnelsLogin: the account is known, and the login is stored unless it
\* was given up.
LookupAnswers(f) ==
  /\ loginStep[f] = "lookup"
  /\ RunEnds(f, "done")
  /\ IF Settled(f) THEN StoresNothing ELSE StoreLogin(f)

VaultNext ==
  \/ UserPastes \/ UserRemoves \/ LoginIsCancelled
  \/ \E t \in Tick : TickLists(t) \/ TickSkips(t) \/ RefreshPosts(t) \/ RefreshAnswers(t)
  \/ \E f \in Login : \/ LoginStarts(f) \/ LoginTimesOut(f) \/ ContainerStarts(f) \/ CliStarts(f)
                     \/ CliPrints(f) \/ UserEntersCode(f) \/ TokenIsComplete(f) \/ CliEnds(f)
                     \/ DocumentIsRead(f) \/ DeviceCodeAnswers(f) \/ PollAnswers(f)
                     \/ LookupAnswers(f)

VaultSpec == VaultInit /\ [][VaultNext]_vaultVars

(***************************************************************************)
(* Properties.                                                             *)
(***************************************************************************)

\* The secret that the proxy sends is the one the user decided on last: no login
\* that was given up or replaced, and no refresh, puts another one in its place.
\* The exceptions are a refresh and the document of a Codex login that were under
\* way at that decision: those write what they read before.
SecretIsWanted == secretRow # NoRow => secretRow.made = decision \/ overtaken

\* The orchestrator holds the only copy of a login: the refresh token in the row is
\* one that the endpoint accepts, unless a refresh with it is under way or the
\* answer of one was lost (refreshCodex, refreshDevTunnels, the loop without overlap).
StoredTokenIsAccepted ==
  /\ secretRow # NoRow
  /\ secretRow.token # 0
  /\ ~answerLost
  /\ \A t \in Tick : phase[t] = "posted" => listed[t].token # secretRow.token
  => secretRow.token \in accepted

\* A login whose run is over has shown its end on the page, and has no container
\* left, whenever it was given up or timed out (run, abort and their order).
EndedRunLeavesNothing ==
  \A f \in Login : loginStep[f] = "over" => Settled(f) /\ ~container[f]

\* The three together: what is stored is wanted and accepted, and nothing else stays.
SecretsAreRight ==
  VaultTypeOK /\ SecretIsWanted /\ StoredTokenIsAccepted /\ EndedRunLeavesNothing

=============================================================================
