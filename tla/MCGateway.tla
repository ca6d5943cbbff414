------------------------------- MODULE MCGateway -------------------------------
(***************************************************************************)
(* The gateway with the adapter of a box, the page of a thread, its        *)
(* options, the terminals, the credentials, and the MCP servers with their *)
(* OAuth connections and their secrets, checked for safety in one run.     *)
(* They share no state: a behaviour is one of a single module, and the     *)
(* variables of the others keep one initial value.                         *)
(***************************************************************************)
EXTENDS Questions, Turns, ThreadLogs, Terminals, Vault, McpConnections, McpServers,
        ThreadBringUp, ThreadStore, ThreadOptions

CONSTANTS MaxMishaps,    \* bound: calls of a bring-up that fail or are refused, and stops, together
          MaxOptionSteps \* bound: mints, wishes and woes of the options, together

VARIABLE part    \* the module that the behaviour belongs to

talkVars == <<questionVars, turnVars, threadLogVars, vars, storeVars, threadOptionVars>>
secretVars == <<vaultVars, mcpVars, serversVars>>
gatewayParts == <<part, talkVars, terminalVars, secretVars>>

MCGatewayInit ==
  /\ part \in {"questions", "turns", "logs", "terminal", "vault",
              "mcp", "servers", "threads", "page", "options"}
  /\ QuestionsInit /\ (part # "questions" => fallback = "hold")
  /\ TurnsInit
  /\ LogInit
  /\ TerminalInit /\ (part # "terminal" => box)
  /\ VaultInit /\ (part # "vault" => kind = "claude")
  /\ McpInit
  /\ ServersInit
  /\ Init
  /\ StoreInit
  /\ ThreadOptionsInit /\ (part # "options" => tells /\ answering /\ ~record.fork /\ record.mode = Unset /\ record.effort = Unset)

\* Bounds of the questions: with two of them, which are asked in one order, one browser at
\* a time is connected, once more after its socket closed, and nothing is lost.
QuestionsAreFew ==
  LET first == CHOOSE q \in Question : TRUE
  IN  (\E q \in Question \ {first} : outcome[q] # "unasked") =>
        /\ outcome[first] # "unasked"
        /\ sockets <= 2 /\ losses = 0
        /\ \A b, c \in Browser : stage[b] # "away" /\ stage[c] # "away" => b = c

MCGatewayNext ==
  /\ UNCHANGED part
  /\ \/ /\ part = "questions" /\ QuestionsNext /\ QuestionsAreFew'
        /\ UNCHANGED <<turnVars, threadLogVars, vars, storeVars, threadOptionVars, terminalVars, secretVars>>
     \/ /\ part = "turns" /\ TurnsNext
        /\ UNCHANGED <<questionVars, threadLogVars, vars, storeVars, threadOptionVars, terminalVars, secretVars>>
     \/ /\ part = "logs" /\ LogNext
        /\ UNCHANGED <<questionVars, turnVars, vars, storeVars, threadOptionVars, terminalVars, secretVars>>
     \/ /\ part = "terminal" /\ TerminalNext
        /\ UNCHANGED <<talkVars, secretVars>>
     \/ /\ part = "vault" /\ VaultNext
        /\ UNCHANGED <<talkVars, terminalVars, mcpVars, serversVars>>
     \/ /\ part = "mcp" /\ McpNext
        /\ UNCHANGED <<talkVars, terminalVars, vaultVars, serversVars>>
     \/ /\ part = "servers" /\ ServersNext
        /\ UNCHANGED <<talkVars, terminalVars, vaultVars, mcpVars>>
     \/ /\ part = "threads" /\ Next /\ faults' + refusals' + stops' <= MaxMishaps
        /\ UNCHANGED <<questionVars, turnVars, threadLogVars, storeVars, threadOptionVars, terminalVars, secretVars>>
     \/ /\ part = "page" /\ StoreNext
        /\ UNCHANGED <<questionVars, turnVars, threadLogVars, vars, threadOptionVars, terminalVars, secretVars>>
     \/ /\ part = "options" /\ ThreadOptionsNext /\ mints' + wishes' + woes' <= MaxOptionSteps
        /\ UNCHANGED <<questionVars, turnVars, threadLogVars, vars, storeVars, terminalVars, secretVars>>

\* SecretsAreRight and RotatedTokenIsKept: what is stored is wanted and accepted, and no
\* refresh uses a token twice (credentials.ts, login.ts, mcp-oauth.ts).
SecretsAreKept == SecretsAreRight /\ RotatedTokenIsKept

MCGatewaySpec == MCGatewayInit /\ [][MCGatewayNext]_gatewayParts
=============================================================================
