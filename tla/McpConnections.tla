----------------------------- MODULE McpConnections -----------------------------
(***************************************************************************)
(* The OAuth connection of one MCP server of an agent set: the login of    *)
(* the user, the token, and its refresh (orchestrator/src/mcp-oauth.ts),   *)
(* the row of the secret (mcp-secrets.ts), and the server that it belongs  *)
(* to (putMcpServer and deleteMcpServer of agents.ts).                     *)
(*                                                                         *)
(* The row holds one JSON document with the client, the authorization      *)
(* server and the refresh token; each writer replaces the whole document   *)
(* with the one it has read before, changed.                               *)
(***************************************************************************)
EXTENDS Naturals, FiniteSets

CONSTANTS Call,          \* the connect requests and the refreshes that can run
          NoMcpRow,      \* no row
          MaxGrants,     \* bound: refresh tokens that the authorization server issues
          MaxConnects    \* bound: connects, and changes of the server

ASSUME McpBounds == MaxGrants \in Nat /\ MaxConnects \in Nat

VARIABLES
  mcpRow,        \* the row of agent_mcp_secrets
  valid,         \* the refresh tokens that the authorization server accepts
  granted,       \* how many it has issued
  connect,       \* the connect requests: the document that each has read
  pendingLogins, \* McpOAuth.logins: the clients of the started logins
  exchange,      \* the clients of the callbacks that await their token
  refresh,       \* the refreshes: the document and the token on offer
  spoilt,        \* a writer has replaced a newer document by an older one (for the properties)
  tokenLost,     \* an answer with a new refresh token was lost (for the properties)
  connects       \* the bound

serverVars == <<valid, granted, tokenLost>>
mcpVars == <<mcpRow, serverVars, connect, pendingLogins, exchange, refresh, spoilt, connects>>

\* The document: the client (0 for none), and the refresh token (0 for none).
Document == [client : 0..MaxConnects, token : 0..MaxGrants]
McpRow == [doc : Document, secret : BOOLEAN, status : {"disconnected", "ok", "failing"},
           fresh : BOOLEAN]
Blank == [client |-> 0, token |-> 0]
Idle == [step |-> "idle", doc |-> Blank, offer |-> 0]

McpTypeOK ==
  /\ mcpRow \in McpRow \cup {NoMcpRow}
  /\ valid \subseteq 1..MaxGrants
  /\ granted \in 0..MaxGrants
  /\ connect \in [Call -> [step : {"idle", "discovers"}, doc : Document, offer : {0}]]
  /\ pendingLogins \subseteq 1..MaxConnects
  /\ exchange \subseteq 1..MaxConnects
  /\ refresh \in [Call -> [step : {"idle", "posted"}, doc : Document, offer : 0..MaxGrants]]
  /\ spoilt \in BOOLEAN
  /\ tokenLost \in BOOLEAN
  /\ connects \in 0..MaxConnects

McpInit ==
  /\ mcpRow = NoMcpRow
  /\ valid = {}
  /\ granted = 0
  /\ connect = [c \in Call |-> Idle]
  /\ pendingLogins = {}
  /\ exchange = {}
  /\ refresh = [c \in Call |-> Idle]
  /\ spoilt = FALSE
  /\ tokenLost = FALSE
  /\ connects = 0

(***************************************************************************)
(* The row.                                                                *)
(***************************************************************************)

\* putMcpServer: a server with oauth gets a row without a token; a stored row stays.
ServerIsSaved ==
  /\ mcpRow = NoMcpRow
  /\ connects < MaxConnects
  /\ mcpRow' = [doc |-> Blank, secret |-> FALSE, status |-> "disconnected", fresh |-> FALSE]
  /\ UNCHANGED <<serverVars, connect, pendingLogins, exchange, refresh, spoilt, connects>>

\* deleteMcpServer: the row goes with the server.
ServerIsDeleted ==
  /\ mcpRow # NoMcpRow
  /\ connects < MaxConnects
  /\ connects' = connects + 1
  /\ mcpRow' = NoMcpRow
  /\ UNCHANGED <<serverVars, connect, pendingLogins, exchange, refresh, spoilt>>

\* putOAuth, made from the document `read`: an UPDATE, which a missing row ignores.
\* It spoils a document whose token has changed since it was read.
PutOAuth(doc, read) ==
  /\ mcpRow' = IF mcpRow = NoMcpRow THEN NoMcpRow ELSE [mcpRow EXCEPT !.doc = doc]
  /\ spoilt' = (spoilt \/ (mcpRow # NoMcpRow /\ mcpRow.doc.token # read.token))

\* putToken: the token, the document and the status of a row that still exists.
PutToken(doc) ==
  mcpRow' = IF mcpRow = NoMcpRow THEN NoMcpRow
            ELSE [doc |-> doc, secret |-> TRUE, status |-> "ok", fresh |-> TRUE]

(***************************************************************************)
(* The login.                                                              *)
(***************************************************************************)

\* McpOAuth.connect: the document is read before the discovery and the registration.
ConnectBegins(c) ==
  /\ mcpRow # NoMcpRow
  /\ connect[c].step = "idle"
  /\ connects < MaxConnects
  /\ connects' = connects + 1
  /\ connect' = [connect EXCEPT ![c] = [step |-> "discovers", doc |-> mcpRow.doc, offer |-> 0]]
  /\ UNCHANGED <<mcpRow, serverVars, pendingLogins, exchange, refresh, spoilt>>

\* A remote server fails, or the user has to enter a client.
ConnectFails(c) ==
  /\ connect[c].step = "discovers"
  /\ connect' = [connect EXCEPT ![c] = Idle]
  /\ UNCHANGED <<mcpRow, serverVars, pendingLogins, exchange, refresh, spoilt, connects>>

\* selectClient: the stored client, or a new one, which the user enters or the
\* orchestrator registers.  It goes into the document, and the login is started.
ConnectAnswers(c) ==
  /\ connect[c].step = "discovers"
  /\ connect' = [connect EXCEPT ![c] = Idle]
  /\ \E client \in {connect[c].doc.client, connects} \ {0} :
       /\ PutOAuth([connect[c].doc EXCEPT !.client = client], connect[c].doc)
       /\ pendingLogins' = pendingLogins \cup {client}
  /\ UNCHANGED <<serverVars, exchange, refresh, connects>>

\* prune: a login older than ten minutes.
LoginIsPruned ==
  /\ pendingLogins # {}
  /\ \E client \in pendingLogins : pendingLogins' = pendingLogins \ {client}
  /\ UNCHANGED <<mcpRow, serverVars, connect, exchange, refresh, spoilt, connects>>

\* callback: the login is taken, and its code goes to the token endpoint.
CallbackBegins ==
  /\ \E client \in pendingLogins :
       /\ pendingLogins' = pendingLogins \ {client}
       /\ exchange' = exchange \cup {client}
  /\ UNCHANGED <<mcpRow, serverVars, connect, refresh, spoilt, connects>>

\* The answer to the callback: a failure, or a token with or without a refresh token.
CallbackAnswers(client) ==
  /\ client \in exchange
  /\ exchange' = exchange \ {client}
  /\ \/ UNCHANGED <<mcpRow, valid, granted>>
     \/ /\ PutToken([client |-> client, token |-> 0])
        /\ UNCHANGED <<valid, granted>>
     \/ /\ granted < MaxGrants
        /\ granted' = granted + 1
        /\ valid' = valid \cup {granted + 1}
        /\ PutToken([client |-> client, token |-> granted + 1])
  /\ UNCHANGED <<tokenLost, connect, pendingLogins, refresh, spoilt, connects>>

(***************************************************************************)
(* The refresh.                                                            *)
(***************************************************************************)

\* A mutant: a refresh does not share the running one.
RefreshBegins_Unshared(c) ==
  /\ mcpRow # NoMcpRow
  /\ mcpRow.doc.token # 0
  /\ mcpRow.doc.client # 0
  /\ refresh[c].step = "idle"
  /\ IF mcpRow.doc.token \in valid /\ granted < MaxGrants
     THEN /\ granted' = granted + 1
          /\ valid' = (valid \ {mcpRow.doc.token}) \cup {granted + 1}
          /\ refresh' = [refresh EXCEPT ![c] = [step |-> "posted", doc |-> mcpRow.doc,
                                                offer |-> granted + 1]]
     ELSE /\ refresh' = [refresh EXCEPT ![c] = [step |-> "posted", doc |-> mcpRow.doc,
                                                offer |-> 0]]
          /\ UNCHANGED <<granted, valid>>
  /\ UNCHANGED <<mcpRow, tokenLost, connect, pendingLogins, exchange, spoilt, connects>>

\* refresh, for refreshDue and for handleRefused: unless one runs, the document is
\* read and its token goes to the server, which replaces it or keeps it.
RefreshBegins(c) ==
  /\ mcpRow # NoMcpRow
  /\ mcpRow.doc.token # 0
  /\ mcpRow.doc.client # 0
  /\ \A d \in Call : refresh[d].step = "idle"
  /\ \/ /\ mcpRow.doc.token \in valid
        /\ granted < MaxGrants
        /\ granted' = granted + 1
        /\ valid' = (valid \ {mcpRow.doc.token}) \cup {granted + 1}
        /\ refresh' = [refresh EXCEPT ![c] = [step |-> "posted", doc |-> mcpRow.doc,
                                              offer |-> granted + 1]]
     \/ /\ refresh' = [refresh EXCEPT ![c] = [step |-> "posted", doc |-> mcpRow.doc,
                         offer |-> IF mcpRow.doc.token \in valid THEN mcpRow.doc.token ELSE 0]]
        /\ UNCHANGED <<granted, valid>>
  /\ UNCHANGED <<mcpRow, tokenLost, connect, pendingLogins, exchange, spoilt, connects>>

\* The answer: new tokens for the document that was read.
RefreshSucceeds(c) ==
  /\ refresh[c].step = "posted"
  /\ refresh[c].offer # 0
  /\ refresh' = [refresh EXCEPT ![c] = Idle]
  /\ PutToken([refresh[c].doc EXCEPT !.token = refresh[c].offer])
  /\ UNCHANGED <<serverVars, connect, pendingLogins, exchange, spoilt, connects>>

\* The server refuses the token or the client, which then goes from the document
\* that was read; or the request fails, and only the status changes.
RefreshFails(c) ==
  /\ refresh[c].step = "posted"
  /\ refresh' = [refresh EXCEPT ![c] = Idle]
  /\ \/ /\ refresh[c].offer = 0
        /\ \E client \in {0, refresh[c].doc.client} :
             LET doc == [client |-> client, token |-> 0]
             IN  mcpRow' = IF mcpRow = NoMcpRow THEN NoMcpRow
                           ELSE [mcpRow EXCEPT !.doc = doc, !.status = "failing"]
        /\ UNCHANGED tokenLost
     \/ /\ mcpRow' = IF mcpRow = NoMcpRow THEN NoMcpRow
                     ELSE [mcpRow EXCEPT !.status = "failing"]
        /\ tokenLost' = (tokenLost \/ refresh[c].offer \notin {0, refresh[c].doc.token})
  /\ UNCHANGED <<valid, granted, connect, pendingLogins, exchange, spoilt, connects>>

\* handleRefused, when there is nothing to refresh with, or the token is new: only
\* the status changes (and the scopes, which the model leaves out).
TokenIsRefused ==
  /\ mcpRow # NoMcpRow
  /\ mcpRow.secret
  /\ mcpRow.doc.token = 0 \/ mcpRow.fresh
  /\ mcpRow' = [mcpRow EXCEPT !.status = "failing"]
  /\ UNCHANGED <<serverVars, connect, pendingLogins, exchange, refresh, spoilt, connects>>

\* The token is older than REPORT_REFRESH_GAP_MS.
TokenAges ==
  /\ mcpRow # NoMcpRow
  /\ mcpRow.fresh
  /\ mcpRow' = [mcpRow EXCEPT !.fresh = FALSE]
  /\ UNCHANGED <<serverVars, connect, pendingLogins, exchange, refresh, spoilt, connects>>

McpNext ==
  \/ ServerIsSaved \/ ServerIsDeleted \/ LoginIsPruned \/ CallbackBegins
  \/ TokenIsRefused \/ TokenAges
  \/ \E c \in Call : \/ ConnectBegins(c) \/ ConnectFails(c) \/ ConnectAnswers(c)
                     \/ RefreshBegins(c) \/ RefreshSucceeds(c) \/ RefreshFails(c)
  \/ \E client \in 1..MaxConnects : CallbackAnswers(client)

McpSpec == McpInit /\ [][McpNext]_mcpVars

(***************************************************************************)
(* Properties.                                                             *)
(***************************************************************************)

\* A rotated refresh token works only once, and the row holds the only copy of the
\* new one.  So the row holds a token that the authorization server accepts, and no
\* refresh presents one that an earlier refresh has used up: such a refresh would
\* drop the connection.  The exceptions are an answer that was lost, and a connect
\* that writes the document it read before the token was rotated.
RotatedTokenIsKept ==
  /\ McpTypeOK
  /\ ~tokenLost /\ ~spoilt =>
    /\ \A c \in Call : refresh[c].step = "posted" => refresh[c].offer # 0
    /\ mcpRow # NoMcpRow /\ mcpRow.doc.token # 0 =>
         \/ mcpRow.doc.token \in valid
         \/ \E c \in Call : refresh[c].step = "posted" /\ refresh[c].doc.token = mcpRow.doc.token

=============================================================================
