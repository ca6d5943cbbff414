------------------------------ MODULE McpServers ------------------------------
(***************************************************************************)
(* The MCP servers of the agent sets of one owner (agents.ts,              *)
(* mcp-servers.ts) and the secrets of their headers (mcp-secrets.ts), the  *)
(* list that a box keeps from its last start (makeReady of boxes.ts), the  *)
(* list that a session of an agent gets, and what the egress policy lets   *)
(* the proxy put in place of a placeholder.                                *)
(*                                                                         *)
(* Both sets have a server of the one name, so that one hides the other.   *)
(***************************************************************************)
EXTENDS Naturals, FiniteSets

CONSTANTS Url,            \* the addresses of servers, each with a host of its own
          SecureUrl,      \* those with https
          MaxServerEdits, MaxReadies

ASSUME ServersAssumption == SecureUrl \subseteq Url /\ MaxServerEdits \in Nat /\ MaxReadies \in Nat

VARIABLES
  servers,      \* of each set, its server, or NoServer
  secrets,      \* of each set, the row of the secret header
  settingUp,    \* the list that a setup has taken, until the box is ready
  boxServers,   \* boxes.mcp_servers: the list of the last start
  sessionServers, \* what the last session call gave the agent
  placeholders, \* bound on the placeholders that were made
  serverEdits, readies

serversVars == <<servers, secrets, settingUp, boxServers, sessionServers, placeholders, serverEdits, readies>>

SetOfServers == {"global", "extra"}
NoServer == [url |-> "none", secret |-> FALSE]
NoSecret == [placeholder |-> 0, enteredFor |-> "none"]
Server == [url : Url, secret : BOOLEAN]
Nobody == <<>>

ServersTypeOK ==
  /\ servers \in [SetOfServers -> Server \cup {NoServer}]
  /\ \A s \in SetOfServers : secrets[s].placeholder \in 0..placeholders
  /\ placeholders \in Nat /\ serverEdits \in 0..MaxServerEdits /\ readies \in 0..MaxReadies

ServersInit ==
  /\ servers = [s \in SetOfServers |-> NoServer] /\ secrets = [s \in SetOfServers |-> NoSecret]
  /\ settingUp = {} /\ boxServers = {} /\ sessionServers = {}
  /\ placeholders = 0 /\ serverEdits = 0 /\ readies = 0

ServersChange == serverEdits < MaxServerEdits /\ serverEdits' = serverEdits + 1

\* validMcpServer: a secret goes only over https.
IsValid(server) == server.secret => server.url \in SecureUrl

\* writeForServer: a value that is entered takes the row, with a placeholder of its own
\* when it is new, and an empty one keeps it.
SecretIsWritten(s, server, entered) ==
  IF ~server.secret
    THEN secrets' = [secrets EXCEPT ![s] = NoSecret] /\ UNCHANGED placeholders
    ELSE /\ entered \/ secrets[s] # NoSecret
         /\ IF secrets[s] = NoSecret
              THEN /\ placeholders' = placeholders + 1
                   /\ secrets' = [secrets EXCEPT ![s] = [placeholder |-> placeholders + 1, enteredFor |-> server.url]]
              ELSE /\ UNCHANGED placeholders
                   /\ secrets' = IF entered THEN [secrets EXCEPT ![s].enteredFor = server.url] ELSE secrets

\* A mutant: the address of a server can change.
ServerIsPut_Moves(s, server, entered) ==
  /\ ServersChange
  /\ IsValid(server)
  /\ servers' = [servers EXCEPT ![s] = server]
  /\ SecretIsWritten(s, server, entered)
  /\ UNCHANGED <<settingUp, boxServers, sessionServers, readies>>

\* putMcpServer: the address of a server that is there is fixed.
ServerIsPut(s, server, entered) ==
  /\ ServersChange
  /\ IsValid(server)
  /\ servers[s] # NoServer => servers[s].url = server.url
  /\ servers' = [servers EXCEPT ![s] = server]
  /\ SecretIsWritten(s, server, entered)
  /\ UNCHANGED <<settingUp, boxServers, sessionServers, readies>>

\* deleteMcpServer: its secret goes with it.
ServerIsDropped(s) ==
  /\ ServersChange
  /\ servers[s] # NoServer
  /\ servers' = [servers EXCEPT ![s] = NoServer]
  /\ secrets' = [secrets EXCEPT ![s] = NoSecret]
  /\ UNCHANGED <<settingUp, boxServers, sessionServers, placeholders, readies>>

\* mcpSnapshot: the server of the second set hides the one of the global set.
McpSnapshot ==
  LET s == IF servers["extra"] # NoServer THEN "extra" ELSE "global"
  IN  IF servers[s] = NoServer THEN {} ELSE {[set |-> s, url |-> servers[s].url, secret |-> servers[s].secret]}

\* makeReady takes the list, and stores it when the setup has ended.
SetupTakesServers ==
  /\ readies < MaxReadies /\ readies' = readies + 1
  /\ settingUp' = McpSnapshot
  /\ UNCHANGED <<servers, secrets, boxServers, sessionServers, placeholders, serverEdits>>

BoxGetsServers ==
  /\ boxServers' = settingUp
  /\ UNCHANGED <<servers, secrets, settingUp, sessionServers, placeholders, serverEdits, readies>>

\* resolveMcpServers: the placeholders of now, and no server without its secret.
SessionGetsServers ==
  /\ sessionServers' =
       {[url |-> e.url, placeholder |-> IF e.secret THEN secrets[e.set].placeholder ELSE 0] :
          e \in {f \in boxServers : f.secret => secrets[f.set] # NoSecret}}
  /\ UNCHANGED <<servers, secrets, settingUp, boxServers, placeholders, serverEdits, readies>>

ServersNext ==
  \/ \E s \in SetOfServers :
       \/ \E server \in Server, entered \in BOOLEAN : ServerIsPut(s, server, entered)
       \/ ServerIsDropped(s)
  \/ SetupTakesServers \/ BoxGetsServers \/ SessionGetsServers

ServersSpec == ServersInit /\ [][ServersNext]_serversVars

\* composePolicy and mcpHostPattern: the proxy puts a secret in place of its
\* placeholder at the host of its server, and the box reaches the hosts of its sets.
Injected(call) ==
  {s \in SetOfServers : secrets[s] # NoSecret /\ call.placeholder = secrets[s].placeholder
                        /\ call.url = servers[s].url}

(***************************************************************************)
(* Properties.                                                             *)
(***************************************************************************)

\* A secret leaves only to the address that it was entered for, over https, even when
\* a box still works with the list of an older start and the server has been deleted
\* and made again since.  And the agent is never given a server that needs a secret
\* without one.
SecretsGoHome ==
  /\ ServersTypeOK
  /\ \A call \in sessionServers : \A s \in Injected(call) :
       secrets[s].enteredFor = call.url /\ call.url \in SecureUrl
  /\ \A s \in SetOfServers : secrets[s] # NoSecret <=> servers[s].secret
=============================================================================
