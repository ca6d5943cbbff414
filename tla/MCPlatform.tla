------------------------------ MODULE MCPlatform ------------------------------
(***************************************************************************)
(* What the boxes stand on, checked for safety in one run: the             *)
(* orchestrators of one instance, the processes, the execs and the tunnels *)
(* of the boxes, the containers of the logins, the two container runtimes, the rules of the proxy, the messages *)
(* to the browsers, and the owners of the rows.  They share no state: a    *)
(* behaviour is one of a single module, and the variables of the others    *)
(* keep one initial value.                                                 *)
(***************************************************************************)
EXTENDS Orchestrators, BoxWork, Execs, LoginContainers, Tunnels, KubernetesDriver, DockerDriver, EgressRules, Notifications, Owners

VARIABLE part    \* the module that the behaviour belongs to

driverVars == <<kubeVars, dockerVars>>
peopleVars == <<notifyVars, ownerVars>>
procVars == <<workVars, execVars, loginBoxVars>>
platformParts == <<part, orchestratorVars, procVars, tunnelVars, driverVars, rulesVars, peopleVars>>

MCPlatformInit ==
  /\ part \in {"orchestrators", "work", "execs", "logins", "tunnels", "kubernetes", "docker", "rules", "notifications", "owners"}
  /\ OrchestratorsInit
  /\ IF part = "work" THEN WorkInit ELSE table = <<>> /\ workFound = <<>>
  /\ ExecsInit /\ (part # "execs" => runsOn = "docker")
  /\ LoginBoxesInit /\ (part # "logins" => platform = "docker")
  /\ TunnelsInit
  /\ KubeInit /\ DockerInit /\ (part # "docker" => others = {})
  /\ NotifyInit /\ person = [d \in Device |-> "u1"]
  /\ OwnersInit /\ (part # "owners" => ~multi)
  /\ IF part = "rules" THEN RulesInit ELSE asked = [kind |-> "none"] /\ given = <<>> /\ inForce = NoPolicy /\ captured = <<>>

MCPlatformNext ==
  /\ UNCHANGED part
  /\ \/ /\ part = "orchestrators" /\ OrchestratorsNext
        /\ UNCHANGED <<procVars, tunnelVars, driverVars, rulesVars, peopleVars>>
     \/ /\ part = "work" /\ BoxIsRead
        /\ UNCHANGED <<orchestratorVars, execVars, loginBoxVars, tunnelVars, driverVars, rulesVars, peopleVars>>
     \/ /\ part = "execs" /\ ExecsNext
        /\ UNCHANGED <<orchestratorVars, workVars, loginBoxVars, tunnelVars, driverVars, rulesVars, peopleVars>>
     \/ /\ part = "logins" /\ LoginBoxesNext
        /\ UNCHANGED <<orchestratorVars, workVars, execVars, tunnelVars, driverVars, rulesVars, peopleVars>>
     \/ /\ part = "tunnels" /\ TunnelsNext
        /\ UNCHANGED <<orchestratorVars, procVars, driverVars, rulesVars, peopleVars>>
     \/ /\ part = "kubernetes" /\ KubeNext
        /\ UNCHANGED <<orchestratorVars, procVars, tunnelVars, dockerVars, rulesVars, peopleVars>>
     \/ /\ part = "docker" /\ DockerNext
        /\ UNCHANGED <<orchestratorVars, procVars, tunnelVars, kubeVars, rulesVars, peopleVars>>
     \/ /\ part = "rules" /\ RulesNext
        /\ UNCHANGED <<orchestratorVars, procVars, tunnelVars, driverVars, peopleVars>>
     \/ /\ part = "notifications" /\ NotifyNext
        /\ UNCHANGED <<orchestratorVars, procVars, tunnelVars, driverVars, rulesVars, ownerVars>>
     \/ /\ part = "owners" /\ OwnersNext
        /\ UNCHANGED <<orchestratorVars, procVars, tunnelVars, driverVars, rulesVars, notifyVars>>

\* WorkIsReadRight, ExecsAreTold and LoginContainersGo: what the orchestrator knows of the
\* processes in its containers is what they do (isRunning of the agents, run of the
\* runtimes, sweepLogins).
ProcessesAreKnown == WorkIsReadRight /\ ExecsAreTold /\ LoginContainersGo

MCPlatformSpec == MCPlatformInit /\ [][MCPlatformNext]_platformParts
=============================================================================
