------------------------------ MODULE DockerDriver ------------------------------
(***************************************************************************)
(* DockerRuntime (runtime/docker.ts) with the calls of docker.ts on the    *)
(* daemon: the containers, networks and directories of the boxes, the      *)
(* subnets of the networks, and the calls of the orchestrator, which the   *)
(* slot of each box makes one at a time.                                   *)
(*                                                                         *)
(* A call awaits the daemon at each step.  A request can fail, before or   *)
(* after it took effect.                                                   *)
(***************************************************************************)
EXTENDS Integers, FiniteSets, Sequences

CONSTANTS Box, Pool,       \* the boxes, and the number of /24 subnets in BOX_SUBNET_POOL
          MaxFaults        \* bound: failures, and changes by others

ASSUME PoolAssumption == Pool \in Nat /\ MaxFaults \in Nat

Subnet == 1..Pool
NoSubnet == 0

VARIABLES
  \* The daemon and the data volume.
  container,   \* of each box: "none", "exited" or "running"
  outdated,    \* its image or environment is not the wanted one
  network,     \* the subnet of the network of each box
  proxied,     \* the boxes with the egress proxy on their network
  dirs,        \* the boxes with a workspace and a home
  others,      \* the subnets of boxes that are not modelled
  \* The calls.
  dockerCall,  \* the call on each box
  dockerAt,    \* its next request
  allocating,  \* the creations of networks, one at a time
  chosen,      \* the subnet that a creation has chosen
  faults,
  unattached   \* for the properties: the calls of ensure that could not attach the proxy

daemonVars == <<container, outdated, network, proxied, dirs, others>>
dockerCallVars == <<dockerCall, dockerAt>>
dockerVars == <<daemonVars, dockerCallVars, allocating, chosen, faults, unattached>>

DockerCalls == {"createStorage", "removeStorage", "ensure", "start", "stop", "remove"}
Steps == {"none", "createStorage", "removeStorage", "ensure", "allocate", "makeNetwork", "attach",
          "inspect", "compare", "stopOld", "removeOld", "create", "start", "stop", "remove",
          "removeContainer", "detach", "removeNetwork", "return", "throw"}

DockerTypeOK ==
  /\ container \in [Box -> {"none", "exited", "running"}]
  /\ outdated \subseteq Box /\ proxied \subseteq Box /\ dirs \subseteq Box /\ others \subseteq Subnet
  /\ network \in [Box -> Subnet \cup {NoSubnet}] /\ chosen \in [Box -> Subnet \cup {NoSubnet}]
  /\ dockerCall \in [Box -> DockerCalls \cup {"none"}] /\ dockerAt \in [Box -> Steps]
  /\ allocating \in Seq(Box)
  /\ faults \in 0..MaxFaults /\ unattached \subseteq Box

DockerInit ==
  /\ container = [b \in Box |-> "none"]
  /\ outdated = {} /\ proxied = {} /\ dirs = {} /\ others \in {{}, {Pool} \cap Subnet}
  /\ network = [b \in Box |-> NoSubnet] /\ chosen = [b \in Box |-> NoSubnet]
  /\ dockerCall = [b \in Box |-> "none"] /\ dockerAt = [b \in Box |-> "none"]
  /\ allocating = <<>>
  /\ faults = 0 /\ unattached = {}

Fault == faults < MaxFaults /\ faults' = faults + 1

(***************************************************************************)
(* The calls.                                                              *)
(***************************************************************************)

GoesTo(b, step) ==
  /\ dockerAt' = [dockerAt EXCEPT ![b] = step]
  /\ dockerCall' = IF step \in {"return", "throw"} THEN [dockerCall EXCEPT ![b] = "none"] ELSE dockerCall

\* The daemon has done it, and its answer arrives or gets lost.
Done(b, step) ==
  \/ GoesTo(b, step) /\ UNCHANGED faults
  \/ GoesTo(b, "throw") /\ Fault

DockerBegins(b, c) ==
  /\ dockerCall[b] = "none"
  /\ dockerCall' = [dockerCall EXCEPT ![b] = c] /\ dockerAt' = [dockerAt EXCEPT ![b] = c]
  /\ unattached' = unattached \ {b}
  /\ UNCHANGED <<daemonVars, allocating, chosen, faults>>

\* A request fails.  The comparison of a container and what attaches and detaches the
\* proxy never throw, and an allocation that ends lets the next one go on.
DockerFails(b) ==
  /\ dockerCall[b] # "none"
  /\ dockerAt[b] \notin {"createStorage", "removeStorage", "attach", "inspect", "compare", "detach"}
  /\ dockerAt[b] = "allocate" => Head(allocating) = b
  /\ Fault
  /\ GoesTo(b, "throw")
  /\ IF dockerAt[b] \in {"allocate", "makeNetwork"}
       THEN allocating' = Tail(allocating) /\ chosen' = [chosen EXCEPT ![b] = NoSubnet]
       ELSE UNCHANGED <<allocating, chosen>>
  /\ UNCHANGED <<daemonVars, unattached>>

\* createStorage and removeStorage work on the data volume.
DirsChange(b) ==
  /\ \/ dockerAt[b] = "createStorage" /\ dirs' = dirs \cup {b}
     \/ dockerAt[b] = "removeStorage" /\ dirs' = dirs \ {b}
  /\ GoesTo(b, "return")
  /\ UNCHANGED <<container, outdated, network, proxied, others, allocating, chosen, faults, unattached>>

\* A mutant: the proxy is attached only when the network is made.
NetworkIsLookedUp_NewOnly(b) ==
  /\ dockerAt[b] = "ensure"
  /\ IF network[b] = NoSubnet
       THEN GoesTo(b, "allocate") /\ allocating' = Append(allocating, b)
       ELSE GoesTo(b, "inspect") /\ UNCHANGED allocating
  /\ UNCHANGED <<daemonVars, chosen, faults, unattached>>

\* ensure: a network that is missing is made, after the creations before it.
NetworkIsLookedUp(b) ==
  /\ dockerAt[b] = "ensure"
  /\ IF network[b] = NoSubnet
       THEN GoesTo(b, "allocate") /\ allocating' = Append(allocating, b)
       ELSE GoesTo(b, "attach") /\ UNCHANGED allocating
  /\ UNCHANGED <<daemonVars, chosen, faults, unattached>>

FreeSubnets == Subnet \ ({network[c] : c \in Box} \cup others)

\* allocateSubnet: the first one that no network has.
SubnetIsChosen(b) ==
  /\ dockerAt[b] = "allocate" /\ Head(allocating) = b
  /\ FreeSubnets # {}
  /\ chosen' = [chosen EXCEPT ![b] = CHOOSE s \in FreeSubnets : \A t \in FreeSubnets : s <= t]
  /\ GoesTo(b, "makeNetwork")
  /\ UNCHANGED <<daemonVars, allocating, faults, unattached>>

PoolIsFull(b) ==
  /\ dockerAt[b] = "allocate" /\ Head(allocating) = b
  /\ FreeSubnets = {}
  /\ allocating' = Tail(allocating)
  /\ GoesTo(b, "throw")
  /\ UNCHANGED <<daemonVars, chosen, faults, unattached>>

\* The daemon refuses a subnet that another network has.
NetworkIsMade(b) ==
  /\ dockerAt[b] = "makeNetwork"
  /\ allocating' = Tail(allocating)
  /\ chosen' = [chosen EXCEPT ![b] = NoSubnet]
  /\ IF chosen[b] \in {network[c] : c \in Box}
       THEN GoesTo(b, "throw") /\ UNCHANGED <<network, faults>>
       ELSE network' = [network EXCEPT ![b] = chosen[b]] /\ Done(b, "attach")
  /\ UNCHANGED <<container, outdated, proxied, dirs, others, unattached>>

\* ensureProxyAttached: what fails is logged, and ensure goes on.
ProxyIsAttached(b) ==
  /\ dockerAt[b] = "attach"
  /\ \/ /\ network[b] # NoSubnet
        /\ proxied' = proxied \cup {b} /\ UNCHANGED <<unattached, faults>>
     \/ /\ unattached' = unattached \cup {b} /\ UNCHANGED proxied
        /\ IF network[b] = NoSubnet THEN UNCHANGED faults ELSE Fault
  /\ GoesTo(b, "inspect")
  /\ UNCHANGED <<container, outdated, network, dirs, others, allocating, chosen>>

\* containerState: one that runs, or that cannot be read, is left alone.
ContainerIsInspected(b) ==
  /\ dockerAt[b] = "inspect"
  /\ \/ /\ UNCHANGED faults
        /\ GoesTo(b, CASE container[b] = "running" -> "return"
                       [] container[b] = "none"    -> "create"
                       [] OTHER                    -> "compare")
     \/ Fault /\ GoesTo(b, "return")
  /\ UNCHANGED <<daemonVars, allocating, chosen, unattached>>

\* replaceOutdatedContainer: one that cannot be compared is left alone, too.
ContainerIsCompared(b) ==
  /\ dockerAt[b] = "compare"
  /\ \/ GoesTo(b, IF container[b] # "none" /\ b \in outdated THEN "stopOld" ELSE "return") /\ UNCHANGED faults
     \/ GoesTo(b, "return") /\ Fault
  /\ UNCHANGED <<daemonVars, allocating, chosen, unattached>>

\* stopContainer, which tolerates a container that is down or gone.
ContainerIsStopped(b) ==
  /\ dockerAt[b] \in {"stopOld", "stop", "remove"}
  /\ container' = [container EXCEPT ![b] = IF @ = "running" THEN "exited" ELSE @]
  /\ Done(b, CASE dockerAt[b] = "stopOld" -> "removeOld"
               [] dockerAt[b] = "stop"    -> "return"
               [] dockerAt[b] = "remove"  -> "removeContainer")
  /\ UNCHANGED <<outdated, network, proxied, dirs, others, allocating, chosen, unattached>>

\* removeContainer.
ContainerIsRemoved(b) ==
  /\ dockerAt[b] \in {"removeOld", "removeContainer"}
  /\ container' = [container EXCEPT ![b] = "none"]
  /\ outdated' = outdated \ {b}
  /\ Done(b, IF dockerAt[b] = "removeOld" THEN "create" ELSE "detach")
  /\ UNCHANGED <<network, proxied, dirs, others, allocating, chosen, unattached>>

\* createContainer, from the spec of now.  The daemon refuses one without its network.
ContainerIsCreated(b) ==
  /\ dockerAt[b] = "create"
  /\ IF network[b] # NoSubnet
       THEN container' = [container EXCEPT ![b] = "exited"] /\ outdated' = outdated \ {b} /\ Done(b, "return")
       ELSE GoesTo(b, "throw") /\ UNCHANGED <<container, outdated, faults>>
  /\ UNCHANGED <<network, proxied, dirs, others, allocating, chosen, unattached>>

\* startContainer, which tolerates one that runs.
ContainerIsStarted(b) ==
  /\ dockerAt[b] = "start"
  /\ IF container[b] = "running" \/ (container[b] = "exited" /\ network[b] # NoSubnet)
       THEN container' = [container EXCEPT ![b] = "running"] /\ Done(b, "return")
       ELSE GoesTo(b, "throw") /\ UNCHANGED <<container, faults>>
  /\ UNCHANGED <<outdated, network, proxied, dirs, others, allocating, chosen, unattached>>

\* removeNetwork: first the proxy, whose failure is ignored, then the network, which the
\* daemon keeps while the proxy is on it.
ProxyIsDetached(b) ==
  /\ dockerAt[b] = "detach"
  /\ \/ proxied' = proxied \ {b} /\ UNCHANGED faults
     \/ UNCHANGED proxied /\ Fault
  /\ GoesTo(b, "removeNetwork")
  /\ UNCHANGED <<container, outdated, network, dirs, others, allocating, chosen, unattached>>

NetworkIsRemoved(b) ==
  /\ dockerAt[b] = "removeNetwork"
  /\ IF b \in proxied
       THEN GoesTo(b, "throw") /\ UNCHANGED <<network, faults>>
       ELSE network' = [network EXCEPT ![b] = NoSubnet] /\ Done(b, "return")
  /\ UNCHANGED <<container, outdated, proxied, dirs, others, allocating, chosen, unattached>>

(***************************************************************************)
(* The host.                                                               *)
(***************************************************************************)

\* A container ends, a prune removes what nothing uses, the proxy is made anew without
\* the networks, BOX_IMAGE or the environment changes, and directories get lost.
HostChanges(b) ==
  /\ Fault
  /\ \/ /\ container[b] = "running"
        /\ container' = [container EXCEPT ![b] = "exited"]
        /\ UNCHANGED <<outdated, network, proxied, dirs, others>>
     \/ /\ container[b] = "exited"
        /\ container' = [container EXCEPT ![b] = "none"]
        /\ outdated' = outdated \ {b}
        /\ UNCHANGED <<network, proxied, dirs, others>>
     \/ /\ container[b] # "running" /\ b \notin proxied /\ network[b] # NoSubnet
        /\ network' = [network EXCEPT ![b] = NoSubnet]
        /\ UNCHANGED <<container, outdated, proxied, dirs, others>>
     \/ proxied # {} /\ proxied' = {} /\ UNCHANGED <<container, outdated, network, dirs, others>>
     \/ container[b] # "none" /\ outdated' = outdated \cup {b} /\ UNCHANGED <<container, network, proxied, dirs, others>>
     \/ b \in dirs /\ dirs' = dirs \ {b} /\ UNCHANGED <<container, outdated, network, proxied, others>>
  /\ UNCHANGED <<dockerCallVars, allocating, chosen, unattached>>

DockerNext ==
  \E b \in Box :
    \/ \E c \in DockerCalls : DockerBegins(b, c)
    \/ DockerFails(b) \/ DirsChange(b)
    \/ NetworkIsLookedUp(b) \/ SubnetIsChosen(b) \/ PoolIsFull(b) \/ NetworkIsMade(b)
    \/ ProxyIsAttached(b) \/ ContainerIsInspected(b) \/ ContainerIsCompared(b)
    \/ ContainerIsStopped(b) \/ ContainerIsRemoved(b) \/ ContainerIsCreated(b)
    \/ ContainerIsStarted(b) \/ ProxyIsDetached(b) \/ NetworkIsRemoved(b) \/ HostChanges(b)

DockerSpec == DockerInit /\ [][DockerNext]_dockerVars

(***************************************************************************)
(* Properties.                                                             *)
(***************************************************************************)

\* Boxes that are created or repaired at the same time never ask for the same subnet,
\* so none of them fails while the pool has room.  And a box runs only on its network.
NetworksAreApart ==
  /\ \A b, c \in Box : b # c /\ dockerAt[b] = "makeNetwork" => chosen[b] \notin {chosen[c], network[c]}
  /\ \A b \in Box : container[b] = "running" => network[b] # NoSubnet

\* What the orchestrator relies on, for each box.
DockerPromise(b) == INSTANCE RuntimePromise WITH
  power <- IF container[b] = "running" THEN "on" ELSE "off",
  fence <- network[b] # NoSubnet /\ b \in proxied,
  files <- b \in dirs,
  call  <- IF dockerCall[b] = "none" THEN dockerAt[b] ELSE dockerCall[b],
  repaired <- /\ dockerAt[b] \in {"inspect", "compare", "stopOld", "removeOld", "create", "return"}
              /\ b \notin unattached,
  reported <- b \in unattached

\* The driver keeps the promise of the interface: ensure never ends a container that
\* runs, whatever it cannot read, and returns only when the box was on its network with
\* the proxy, or it has logged that it could not attach the proxy; start and stop return
\* only when the container is up or down, and remove takes neither the proxy nor the
\* network from one that runs.
\* And the networks of the boxes are apart.
DockerKeepsPromise ==
  /\ \A b \in Box : DockerPromise(b)!RuntimeInit
  /\ []DockerTypeOK
  /\ []NetworksAreApart
  /\ [][\A b \in Box : [DockerPromise(b)!RuntimeNext]_(DockerPromise(b)!promiseVars)]_dockerVars
=============================================================================
