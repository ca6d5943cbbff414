------------------------------ MODULE RuntimeProofs ------------------------------
(***************************************************************************)
(* Both drivers implement RuntimePromise.  For KubernetesDriver the proof  *)
(* is for every sequence of calls and of events of the cluster, and a box  *)
(* has one container on its volume; for DockerDriver it is for every set   *)
(* of boxes, every size of the pool and every number of faults, and the    *)
(* networks of the boxes are apart.                                        *)
(*                                                                         *)
(* What runs in the containers is known: a process through its exec        *)
(* (Execs), the login in its container (LoginContainers), and the work of  *)
(* a box from its process table (BoxWork), for any bounds.                 *)
(***************************************************************************)
EXTENDS MCPlatform, FiniteSetTheorems, SequenceTheorems, WellFoundedInduction, TLAPS

(***************************************************************************)
(* Kubernetes.  What a call may do depends on the request it is at.  The   *)
(* invariant ties the two together, and says what deletePod leaves behind  *)
(* for remove.                                                             *)
(***************************************************************************)

\* The requests that a call makes, the ones between its begin and its end.
KubeRequestsOf(c) ==
  CASE c = "createStorage" -> {"createClaim"}
    [] c = "removeStorage" -> {"dropClaim", "claimGone"}
    [] c = "ensure"        -> {"readPolicy", "createPolicy", "replacePolicy"}
    [] c = "start"         -> {"readPod", "deletePod", "podGone", "createPod", "wait", "undo", "undone"}
    [] c = "stop"          -> {"deletePod", "podGone"}
    [] c = "remove"        -> {"deletePod", "podGone", "dropPolicy"}
    [] c = "none"          -> {"none", "return", "throw"}

\* Where each of the calls that delete a pod goes on.
GoesOn(c) ==
  CASE c = "start" -> "createPod" [] c = "stop" -> "return" [] c = "remove" -> "dropPolicy"

CallIsAtItsRequest ==
  /\ kubeAt \in KubeRequestsOf(kubeCall)
  /\ kubeAt \in {"deletePod", "podGone"} => kubeThen = GoesOn(kubeCall)

\* remove has waited for the pod, and nothing but a start makes another one.
PolicyOutlivesPod == kubeAt = "dropPolicy" => phase = "none"

\* A container without a pod is what a failed start has left.
GhostIsForced == ghost => forced

KubeInv == KubeTypeOK /\ CallIsAtItsRequest /\ PolicyOutlivesPod /\ GhostIsForced

(***************************************************************************)
(* The invariant.                                                          *)
(***************************************************************************)

\* The steps of a call.
KubeCallSteps ==
  \/ RequestFails \/ ClaimCreated \/ ClaimDropped \/ ClaimIsGone
  \/ PolicyRead \/ PolicyWritten \/ PolicyDropped
  \/ PodRead \/ PodCreated \/ WaitEnds \/ PodDeleted \/ PodIsGone \/ PodUndone

\* The steps of the cluster, which leave the call alone.
ClusterSteps == Kubelet \/ NodeChanges \/ PodIsEvicted \/ PolicyIsChanged \/ ClaimLeaves

LEMMA KubeSteps ==
  KubeNext <=> (\E c \in KubeCalls : KubeBegins(c)) \/ KubeCallSteps \/ ClusterSteps
  BY DEF KubeNext, KubeCallSteps, ClusterSteps

LEMMA KubeInvInit == KubeInit => KubeInv
  BY DEF KubeInit, KubeInv, KubeTypeOK, CallIsAtItsRequest, KubeRequestsOf, PolicyOutlivesPod,
     GhostIsForced, KubeRequests

\* A call begins at its first request.
LEMMA KubeInvBegins == ASSUME KubeInv, NEW c \in KubeCalls, KubeBegins(c) PROVE KubeInv'
<1> USE DEF KubeInv, KubeBegins, podVars
<1>1. KubeTypeOK'
  BY DEF KubeTypeOK, KubeCalls, KubeRequests, FirstRequest
<1>2. CallIsAtItsRequest'
  BY DEF CallIsAtItsRequest, KubeRequestsOf, GoesOn, FirstRequest, KubeCalls
<1>3. PolicyOutlivesPod'
  BY DEF PolicyOutlivesPod, FirstRequest, KubeCalls
<1> QED
  BY <1>1, <1>2, <1>3 DEF GhostIsForced

\* The cluster does not make a pod, and it takes ghosts away only.
LEMMA KubeInvCluster == ASSUME KubeInv, ClusterSteps PROVE KubeInv'
<1> USE DEF KubeInv, podVars, kubeCallVars
<1>1. UNCHANGED kubeCallVars
  BY DEF ClusterSteps, Kubelet, NodeChanges, PodIsEvicted, PolicyIsChanged, ClaimLeaves
<1>2. KubeTypeOK'
  BY DEF KubeTypeOK, ClusterSteps, Kubelet, NodeChanges, PodIsEvicted, PolicyIsChanged,
     ClaimLeaves, PodGoes
<1>3. phase = "none" => phase' = "none"
  BY DEF ClusterSteps, Kubelet, NodeChanges, PodIsEvicted, PolicyIsChanged, ClaimLeaves, PodGoes
<1>4. forced' = forced /\ (ghost' => ghost)
  BY DEF ClusterSteps, Kubelet, NodeChanges, PodIsEvicted, PolicyIsChanged, ClaimLeaves
<1> QED
  BY <1>1, <1>2, <1>3, <1>4 DEF CallIsAtItsRequest, PolicyOutlivesPod, GhostIsForced

\* Each request leads to a request of the same call, or to its end.
LEMMA KubeInvCall == ASSUME KubeInv, KubeCallSteps PROVE KubeInv'
<1> USE DEF KubeInv, podVars, To
<1>1. kubeCall \in KubeCalls
  BY DEF KubeCallSteps, RequestFails, ClaimCreated, ClaimDropped, ClaimIsGone, PolicyRead,
     PolicyWritten, PolicyDropped, PodRead, PodCreated, WaitEnds, PodDeleted, PodIsGone,
     PodUndone, CallIsAtItsRequest, KubeRequestsOf, KubeTypeOK
<1>2. KubeTypeOK'
  <2>1. CASE RequestFails \/ ClaimCreated \/ ClaimDropped \/ ClaimIsGone
    BY <2>1 DEF KubeTypeOK, KubeRequests, RequestFails, ClaimCreated, ClaimDropped, ClaimIsGone
  <2>2. CASE PolicyRead \/ PolicyWritten \/ PolicyDropped
    BY <2>2 DEF KubeTypeOK, KubeRequests, PolicyRead, PolicyWritten, PolicyDropped
  <2>3. CASE PodRead \/ PodCreated \/ WaitEnds \/ PodDeleted
    BY <2>3 DEF KubeTypeOK, KubeRequests, PodRead, PodCreated, WaitEnds, PodDeleted
  <2>4. CASE PodIsGone
    <3>1. kubeThen \in KubeRequests /\ kubeThen \in {"none", "createPod", "dropPolicy", "return"}
      BY DEF KubeTypeOK, KubeRequests
    <3> QED
      BY <2>4, <3>1 DEF KubeTypeOK, KubeRequests, PodIsGone
  <2>5. CASE PodUndone
    BY <2>5 DEF KubeTypeOK, KubeRequests, PodUndone, PodGoes
  <2> QED
    BY <2>1, <2>2, <2>3, <2>4, <2>5 DEF KubeCallSteps
<1>3. CallIsAtItsRequest'
  <2> USE DEF CallIsAtItsRequest, KubeRequestsOf, GoesOn, KubeCalls
  <2>1. CASE RequestFails \/ ClaimCreated \/ ClaimDropped \/ ClaimIsGone
    BY <1>1, <2>1 DEF RequestFails, ClaimCreated, ClaimDropped, ClaimIsGone
  <2>2. CASE PolicyRead \/ PolicyWritten \/ PolicyDropped
    BY <1>1, <2>2 DEF PolicyRead, PolicyWritten, PolicyDropped, KubeTypeOK
  <2>3. CASE PodRead \/ PodCreated
    BY <1>1, <2>3 DEF PodRead, PodCreated
  <2>4. CASE WaitEnds \/ PodDeleted \/ PodUndone
    BY <1>1, <2>4 DEF WaitEnds, PodDeleted, PodUndone
  <2>5. CASE PodIsGone
    BY <1>1, <2>5 DEF PodIsGone
  <2> QED
    BY <2>1, <2>2, <2>3, <2>4, <2>5 DEF KubeCallSteps
<1>4. PolicyOutlivesPod'
  <2>1. kubeAt' = "dropPolicy" => PodIsGone
    BY DEF KubeCallSteps, RequestFails, ClaimCreated, ClaimDropped, ClaimIsGone, PolicyRead,
       PolicyWritten, PolicyDropped, PodRead, PodCreated, WaitEnds, PodDeleted, PodUndone, KubeTypeOK
  <2> QED
    BY <2>1 DEF PolicyOutlivesPod, PodIsGone
<1>5. GhostIsForced'
  BY DEF GhostIsForced, KubeCallSteps, RequestFails, ClaimCreated, ClaimDropped, ClaimIsGone,
     PolicyRead, PolicyWritten, PolicyDropped, PodRead, PodCreated, WaitEnds, PodDeleted,
     PodIsGone, PodUndone
<1> QED
  BY <1>2, <1>3, <1>4, <1>5

\* The invariant of the driver: a call is at one of its own requests, remove drops the
\* policy only of a pod that is gone, and a container without a pod comes from a start
\* that has failed.
THEOREM KubeInvariant == KubeSpec => []KubeInv
<1>1. KubeInv /\ [KubeNext]_kubeVars => KubeInv'
  <2> SUFFICES ASSUME KubeInv, [KubeNext]_kubeVars PROVE KubeInv'
    OBVIOUS
  <2>1. CASE UNCHANGED kubeVars
    BY <2>1 DEF kubeVars, podVars, kubeCallVars, KubeInv, KubeTypeOK, CallIsAtItsRequest,
       PolicyOutlivesPod, GhostIsForced
  <2> QED
    BY <2>1, KubeSteps, KubeInvBegins, KubeInvCall, KubeInvCluster
<1> QED
  BY <1>1, KubeInvInit, PTL DEF KubeSpec

(***************************************************************************)
(* The refinement.  The promise has four kinds of steps: a call begins, it *)
(* works, it ends, and what the runtime has made breaks down.              *)
(***************************************************************************)

\* What a call is at, as the promise sees it.
KubeCallNow == IF kubeCall = "none" THEN kubeAt ELSE kubeCall
KubePower == IF phase \in {"Pending", "Running", "Unknown"} THEN "on" ELSE "off"

\* A call of the orchestrator begins when no other one runs, and touches nothing yet.
LEMMA KubeBeginsIsPromised ==
  ASSUME KubeInv, NEW c \in KubeCalls, KubeBegins(c)
  PROVE  KubePromise!Begins
<1> USE DEF KubeInv, CallIsAtItsRequest, KubeRequestsOf
<1>1. kubeAt \in {"none", "return", "throw"} /\ kubeCall = "none"
  BY DEF KubeBegins
<1>2. kubeCall' = c /\ kubeAt' # "return" /\ c # "none"
  BY DEF KubeBegins, FirstRequest, KubeCalls
<1>3. UNCHANGED <<phase, policy, claim>>
  BY DEF KubeBegins, podVars
<1> QED
  BY <1>1, <1>2, <1>3 DEF KubePromise!Begins, KubePromise!Calls, KubeCalls

\* What the cluster does takes parts of the box away, and never adds one.
LEMMA ClusterIsPromised ==
  ASSUME KubeInv, ClusterSteps
  PROVE  KubePromise!BreaksDown
<1> USE DEF podVars, kubeCallVars
<1>1. UNCHANGED <<kubeCall, kubeAt>>
  BY DEF ClusterSteps, Kubelet, NodeChanges, PodIsEvicted, PolicyIsChanged, ClaimLeaves
<1>2. KubePower' \in {KubePower, "off"}
  BY DEF ClusterSteps, Kubelet, NodeChanges, PodIsEvicted, PolicyIsChanged, ClaimLeaves, PodGoes,
     KubePower, KubeInv, KubeTypeOK
<1>3. policy' = policy \/ policy' # "good"
  BY DEF ClusterSteps, Kubelet, NodeChanges, PodIsEvicted, PolicyIsChanged, ClaimLeaves
<1>4. claim' = claim \/ claim' # "there"
  BY DEF ClusterSteps, Kubelet, NodeChanges, PodIsEvicted, PolicyIsChanged, ClaimLeaves
<1> QED
  BY <1>1, <1>2, <1>3, <1>4 DEF KubePromise!BreaksDown, KubePower

\* The end of a call, or its next request, and what the promise sees of it.
LEMMA ToIsPromised ==
  ASSUME KubeInv, kubeCall \in KubeCalls, NEW r, To(r), r # "none"
  PROVE  /\ KubeCallNow = kubeCall
         /\ KubeCallNow' \in {kubeCall, "throw", "return"}
         /\ KubeCallNow' = "return" <=> r = "return"
         /\ kubeAt' = r
  BY DEF To, KubeCallNow, KubeCalls

\* What a step of a call shows to the promise: the parts that the call is for.
LEMMA KubeWorksSuffices ==
  ASSUME NEW c \in KubeCalls, KubeCallNow = c, KubeCallNow' \in {c, "throw", "return"},
         \/ c = "createStorage" /\ claim' = "there" /\ UNCHANGED <<phase, policy>>
         \/ c = "removeStorage" /\ claim' # "there" /\ UNCHANGED <<phase, policy>>
         \/ c = "ensure" /\ policy' = "good" /\ UNCHANGED <<phase, claim>>
         \/ c = "start" /\ UNCHANGED <<policy, claim>>
         \/ c \in {"stop", "remove"} /\ phase' = "none" /\ UNCHANGED <<policy, claim>>
         \/ c = "remove" /\ phase = "none" /\ policy' # "good" /\ UNCHANGED <<phase, claim>>
         \/ UNCHANGED <<phase, policy, claim>>,
         c = "ensure" /\ kubeAt' = "return" => policy = "good" \/ policy' = "good",
         KubeCallNow' = "return" => kubeAt' = "return" /\ KubePromise!Kept(c)'
  PROVE  KubePromise!Works
<1>1. c \in KubePromise!Calls
  BY DEF KubePromise!Calls, KubeCalls
<1> QED
  BY <1>1 DEF KubePromise!Works, KubePromise!FilesChange, KubePromise!Fenced, KubePromise!Switched,
     KubePromise!Downed, KubePromise!Unfenced, KubeCallNow

\* Storage and policy: the claim is there, or going, before the call returns, and the
\* policy is good in the request that ends ensure.
LEMMA StorageAndPolicyAreKept ==
  ASSUME KubeInv, kubeCall \in KubeCalls,
         \/ ClaimCreated \/ ClaimDropped \/ ClaimIsGone \/ PolicyRead \/ PolicyWritten
  PROVE  KubePromise!Works
<1> USE DEF podVars, KubeInv, CallIsAtItsRequest, KubeRequestsOf, KubeCalls
<1> USE DEF KubePromise!Kept
<1>1. CASE ClaimCreated
  <2>1. kubeCall = "createStorage"
    BY <1>1 DEF ClaimCreated
  <2> QED
    BY <1>1, <2>1, ToIsPromised, KubeWorksSuffices DEF ClaimCreated
<1>2. CASE ClaimDropped \/ ClaimIsGone
  <2>1. kubeCall = "removeStorage"
    BY <1>2 DEF ClaimDropped, ClaimIsGone
  <2>2. claim' # "there" /\ UNCHANGED <<phase, policy>>
    BY <1>2 DEF ClaimDropped, ClaimIsGone
  <2>3. To("claimGone") \/ To("return")
    BY <1>2 DEF ClaimDropped, ClaimIsGone
  <2> QED
    BY <2>1, <2>2, <2>3, ToIsPromised, KubeWorksSuffices
<1>3. CASE PolicyRead
  <2>1. kubeCall = "ensure" /\ UNCHANGED <<phase, policy, claim>>
    BY <1>3 DEF PolicyRead
  <2>2. \E r \in {"createPolicy", "replacePolicy", "return"} :
          To(r) /\ (r = "return" => policy = "good")
    BY <1>3 DEF PolicyRead, KubeTypeOK
  <2> QED
    BY <2>1, <2>2, ToIsPromised, KubeWorksSuffices
<1>4. CASE PolicyWritten
  <2>1. kubeCall = "ensure" /\ policy' = "good" /\ UNCHANGED <<phase, claim>>
    BY <1>4 DEF PolicyWritten
  <2>2. To("return") \/ To("throw")
    BY <1>4 DEF PolicyWritten
  <2> QED
    BY <2>1, <2>2, ToIsPromised, KubeWorksSuffices
<1> QED
  BY <1>1, <1>2, <1>3, <1>4

\* The pod: start returns when it runs, stop and remove go on when it is gone, and the
\* policy goes after it.
LEMMA PodIsKept ==
  ASSUME KubeInv, kubeCall \in KubeCalls,
         \/ RequestFails \/ PolicyDropped \/ PodRead \/ PodCreated \/ WaitEnds \/ PodDeleted
         \/ PodIsGone \/ PodUndone
  PROVE  KubePromise!Works
<1> USE DEF podVars, KubeInv, CallIsAtItsRequest, KubeRequestsOf, GoesOn, KubeCalls
<1> USE DEF KubePromise!Kept
<1>1. CASE RequestFails
  <2>1. UNCHANGED <<phase, policy, claim>> /\ (To("undo") \/ To("throw"))
    BY <1>1 DEF RequestFails
  <2> QED
    BY <2>1, ToIsPromised, KubeWorksSuffices
<1>2. CASE PolicyDropped
  <2>1. kubeCall = "remove" /\ phase = "none" /\ policy' # "good" /\ UNCHANGED <<phase, claim>>
    BY <1>2 DEF PolicyDropped, PolicyOutlivesPod
  <2>2. To("return") \/ To("throw")
    BY <1>2 DEF PolicyDropped
  <2> QED
    BY <2>1, <2>2, ToIsPromised, KubeWorksSuffices
<1>3. CASE PodRead
  <2>1. kubeCall = "start" /\ kubeCall' = kubeCall /\ UNCHANGED <<phase, policy, claim>>
    BY <1>3 DEF PodRead
  <2> QED
    BY <1>3, <2>1, KubeWorksSuffices DEF KubeCallNow, PodRead
<1>4. CASE PodCreated
  <2>1. kubeCall = "start" /\ UNCHANGED <<policy, claim>> /\ (To("wait") \/ To("throw"))
    BY <1>4 DEF PodCreated
  <2> QED
    BY <2>1, ToIsPromised, KubeWorksSuffices
<1>5. CASE WaitEnds
  <2>1. kubeCall = "start" /\ UNCHANGED <<phase, policy, claim>>
    BY <1>5 DEF WaitEnds
  <2>2. (phase = "Running" /\ To("return")) \/ To("undo")
    BY <1>5 DEF WaitEnds
  <2> QED
    BY <2>1, <2>2, ToIsPromised, KubeWorksSuffices
<1>6. CASE PodDeleted
  BY <1>6, ToIsPromised, KubeWorksSuffices DEF PodDeleted
<1>7. CASE PodIsGone
  <2>1. phase = "none" /\ UNCHANGED <<phase, policy, claim>>
    BY <1>7 DEF PodIsGone
  <2>2. \/ kubeCall = "start" /\ To("throw")
        \/ kubeCall = "start" /\ To("createPod")
        \/ kubeCall = "stop" /\ To("return")
        \/ kubeCall = "remove" /\ To("dropPolicy")
    BY <1>7 DEF PodIsGone
  <2> QED
    BY <2>1, <2>2, ToIsPromised, KubeWorksSuffices
<1>8. CASE PodUndone
  <2>1. kubeCall = "start" /\ UNCHANGED <<policy, claim>> /\ To("undone")
    BY <1>8 DEF PodUndone
  <2> QED
    BY <2>1, ToIsPromised, KubeWorksSuffices
<1> QED
  BY <1>1, <1>2, <1>3, <1>4, <1>5, <1>6, <1>7, <1>8

\* Every step of the driver is a step of the promise, or none at all.
LEMMA KubeStepIsPromised ==
  KubeInv /\ [KubeNext]_kubeVars => [KubePromise!RuntimeNext]_(KubePromise!promiseVars)
<1> SUFFICES ASSUME KubeInv, [KubeNext]_kubeVars
             PROVE  [KubePromise!RuntimeNext]_(KubePromise!promiseVars)
  OBVIOUS
<1>1. CASE UNCHANGED kubeVars
  BY <1>1 DEF kubeVars, podVars, kubeCallVars, KubePromise!promiseVars
<1>2. CASE KubeCallSteps
  <2>1. kubeCall \in KubeCalls
    BY <1>2 DEF KubeCallSteps, RequestFails, ClaimCreated, ClaimDropped, ClaimIsGone, PolicyRead,
       PolicyWritten, PolicyDropped, PodRead, PodCreated, WaitEnds, PodDeleted, PodIsGone,
       PodUndone, KubeInv, CallIsAtItsRequest, KubeRequestsOf, KubeTypeOK
  <2> QED
    BY <1>2, <2>1, StorageAndPolicyAreKept, PodIsKept DEF KubeCallSteps, KubePromise!RuntimeNext
<1> QED
  BY <1>1, <1>2, KubeSteps, KubeBeginsIsPromised, ClusterIsPromised DEF KubePromise!RuntimeNext

\* The driver keeps the promise of the interface, and the volume has one container,
\* whatever the cluster does and in whatever order the calls come and fail.
THEOREM DriverKeepsPromise == KubeSpec => KubernetesKeepsPromise
<1>1. KubeInit => KubePromise!RuntimeInit
  BY DEF KubeInit, KubePromise!RuntimeInit
<1>2. KubeInv => KubeTypeOK /\ OneContainerOnVolume
  BY DEF KubeInv, GhostIsForced, OneContainerOnVolume
<1> QED
  BY <1>1, <1>2, KubeStepIsPromised, KubeInvariant, PTL
     DEF KubeSpec, KubernetesKeepsPromise, KubePromise!RuntimeSpec

(***************************************************************************)
(* Docker.  The calls of the boxes meet in one place: the queue of the     *)
(* creations of networks.  The invariant says who is in it, and that its   *)
(* head alone has chosen a subnet.                                         *)
(***************************************************************************)

\* The requests that a call makes.
RequestsOf(c) ==
  CASE c = "ensure" -> {"ensure", "allocate", "makeNetwork", "attach", "inspect", "compare",
                        "stopOld", "removeOld", "create"}
    [] c = "remove" -> {"remove", "removeContainer", "detach", "removeNetwork"}
    [] c = "none"   -> {"none", "return", "throw"}
    [] OTHER        -> {c}

CallsAreAtTheirRequests == \A b \in Box : dockerAt[b] \in RequestsOf(dockerCall[b])

\* The boxes that wait for the subnet of their network, or make it.
Allocates(b) == dockerAt[b] \in {"allocate", "makeNetwork"}

\* The queue has each of them once, and the first one alone has come to the creation.
QueueIsOfAllocations ==
  /\ \A i \in 1..Len(allocating) : Allocates(allocating[i])
  /\ \A i, j \in 1..Len(allocating) : allocating[i] = allocating[j] => i = j
  /\ \A b \in Box : Allocates(b) => \E i \in 1..Len(allocating) : allocating[i] = b
  /\ \A b \in Box : dockerAt[b] = "makeNetwork" => allocating # <<>> /\ allocating[1] = b

\* What is chosen is free until the network is made.
ChosenIsFree ==
  \A b \in Box : IF dockerAt[b] = "makeNetwork"
                   THEN chosen[b] \in Subnet /\ \A c \in Box : network[c] # chosen[b]
                   ELSE chosen[b] = NoSubnet

\* Where a call counts on the container: ensure replaces one that is down, and remove
\* takes the proxy and the network after the container.
CountsOnDown == {"compare", "stopOld", "removeOld", "create", "removeContainer", "detach", "removeNetwork"}
DownWhenNeeded(b) ==
  /\ dockerAt[b] \in CountsOnDown => container[b] # "running"
  /\ container[b] = "running" => network[b] # NoSubnet
ContainerIsDown == \A b \in Box : DownWhenNeeded(b)

DockerInv ==
  DockerTypeOK /\ CallsAreAtTheirRequests /\ QueueIsOfAllocations /\ ChosenIsFree /\ ContainerIsDown

(***************************************************************************)
(* The operators.                                                          *)
(***************************************************************************)

\* allocateSubnet has a first free subnet to choose, when there is one.
LEMMA FirstFreeSubnet ==
  ASSUME NEW S \in SUBSET Subnet, S # {}
  PROVE  (CHOOSE s \in S : \A t \in S : s <= t) \in S
<1>1. S \subseteq Nat
  BY PoolAssumption DEF Subnet
<1>2. PICK s \in S : \A t \in S : ~(<<t, s>> \in OpToRel(<, Nat))
  BY <1>1, NatLessThanWellFounded, WFMin
<1>3. \A t \in S : ~(t < s)
  BY <1>1, <1>2 DEF OpToRel
<1>4. \A t \in S : s <= t
  BY <1>1, <1>3
<1> QED
  BY <1>4

\* Where a call goes after a request: on, or to its end.
LEMMA GoesToEffect ==
  ASSUME DockerTypeOK, NEW b \in Box, NEW step \in Steps, GoesTo(b, step)
  PROVE  /\ dockerAt' \in [Box -> Steps] /\ dockerAt'[b] = step
         /\ \A c \in Box \ {b} : dockerAt'[c] = dockerAt[c] /\ dockerCall'[c] = dockerCall[c]
         /\ dockerCall' \in [Box -> DockerCalls \cup {"none"}]
         /\ dockerCall'[b] = IF step \in {"return", "throw"} THEN "none" ELSE dockerCall[b]
  BY DEF GoesTo, DockerTypeOK

LEMMA DoneGoes ==
  ASSUME NEW b, NEW step, Done(b, step)
  PROVE  GoesTo(b, step) \/ GoesTo(b, "throw")
  BY DEF Done

\* A failure is counted.
LEMMA FaultsStay ==
  ASSUME DockerTypeOK, Fault \/ UNCHANGED faults
  PROVE  faults' \in 0..MaxFaults
  BY PoolAssumption DEF Fault, DockerTypeOK

(***************************************************************************)
(* The steps.                                                              *)
(***************************************************************************)

\* The requests of the calls that are answered, and the one that fails.
NetworkSteps(b) ==
  NetworkIsLookedUp(b) \/ SubnetIsChosen(b) \/ PoolIsFull(b) \/ NetworkIsMade(b) \/ NetworkIsRemoved(b)
ContainerSteps(b) ==
  \/ ProxyIsAttached(b) \/ ProxyIsDetached(b) \/ ContainerIsInspected(b) \/ ContainerIsCompared(b)
  \/ ContainerIsStopped(b) \/ ContainerIsRemoved(b) \/ ContainerIsCreated(b) \/ ContainerIsStarted(b)
CallSteps(b) == DockerFails(b) \/ DirsChange(b) \/ NetworkSteps(b) \/ ContainerSteps(b)

LEMMA DockerSteps ==
  DockerNext <=> \E b \in Box : (\E c \in DockerCalls : DockerBegins(b, c)) \/ CallSteps(b) \/ HostChanges(b)
  BY DEF DockerNext, CallSteps, NetworkSteps, ContainerSteps

\* What a request is and leads to.
LEMMA StepGoesTo ==
  ASSUME DockerTypeOK, NEW b \in Box, CallSteps(b)
  PROVE  \E step \in Steps : GoesTo(b, step)
<1> USE DEF Steps
<1>1. CASE DockerFails(b) \/ DirsChange(b)
  BY <1>1 DEF DockerFails, DirsChange
<1>2. CASE NetworkSteps(b)
  BY <1>2, DoneGoes DEF NetworkSteps, NetworkIsLookedUp, SubnetIsChosen, PoolIsFull, NetworkIsMade,
     NetworkIsRemoved
<1>3. CASE ProxyIsAttached(b) \/ ProxyIsDetached(b) \/ ContainerIsCompared(b)
  BY <1>3 DEF ProxyIsAttached, ProxyIsDetached, ContainerIsCompared
<1>4. CASE ContainerIsInspected(b)
  BY <1>4 DEF ContainerIsInspected, DockerTypeOK
<1>5. CASE ContainerIsStopped(b)
  <2>1. dockerAt[b] = "stopOld" \/ dockerAt[b] = "stop" \/ dockerAt[b] = "remove"
    BY <1>5 DEF ContainerIsStopped
  <2> QED
    BY <1>5, <2>1, DoneGoes DEF ContainerIsStopped
<1>6. CASE ContainerIsRemoved(b) \/ ContainerIsCreated(b) \/ ContainerIsStarted(b)
  BY <1>6, DoneGoes DEF ContainerIsRemoved, ContainerIsCreated, ContainerIsStarted
<1> QED
  BY <1>1, <1>2, <1>3, <1>4, <1>5, <1>6 DEF CallSteps, ContainerSteps

\* The queue changes at its ends, and only by the call of the box.
LEMMA QueueStep ==
  ASSUME DockerTypeOK, QueueIsOfAllocations, NEW b \in Box,
         (\E c \in DockerCalls : DockerBegins(b, c)) \/ CallSteps(b) \/ HostChanges(b)
  PROVE  \/ allocating' = allocating
         \/ /\ allocating' = Append(allocating, b)
            /\ dockerAt[b] = "ensure" /\ dockerAt'[b] = "allocate"
         \/ /\ allocating # <<>> /\ allocating' = Tail(allocating) /\ allocating[1] = b
            /\ Allocates(b) /\ dockerAt'[b] \in {"throw", "attach"}
<1>1. CASE DockerFails(b)
  <2>1. dockerAt'[b] = "throw"
    BY <1>1, GoesToEffect DEF DockerFails, Steps
  <2>2. CASE dockerAt[b] \in {"allocate", "makeNetwork"}
    <3>1. allocating # <<>> /\ allocating[1] = b
      BY <1>1, <2>2 DEF DockerFails, QueueIsOfAllocations, Allocates, DockerTypeOK
    <3> QED
      BY <1>1, <2>1, <2>2, <3>1 DEF DockerFails, Allocates
  <2> QED
    BY <1>1, <2>2 DEF DockerFails
<1>2. CASE NetworkIsLookedUp(b)
  BY <1>2, GoesToEffect DEF NetworkIsLookedUp, Steps
<1>3. CASE SubnetIsChosen(b) \/ NetworkIsRemoved(b)
  BY <1>3 DEF SubnetIsChosen, NetworkIsRemoved
<1>4. CASE PoolIsFull(b)
  <2>1. dockerAt'[b] = "throw"
    BY <1>4, GoesToEffect DEF PoolIsFull, Steps
  <2>2. allocating # <<>> /\ allocating[1] = b
    BY <1>4 DEF PoolIsFull, QueueIsOfAllocations, Allocates, DockerTypeOK
  <2> QED
    BY <1>4, <2>1, <2>2 DEF PoolIsFull, Allocates
<1>5. CASE NetworkIsMade(b)
  <2>1. dockerAt'[b] \in {"throw", "attach"}
    BY <1>5, GoesToEffect, DoneGoes DEF NetworkIsMade, Steps
  <2> QED
    BY <1>5, <2>1 DEF NetworkIsMade, QueueIsOfAllocations, Allocates
<1>6. CASE ContainerSteps(b) \/ DirsChange(b) \/ HostChanges(b) \/ \E c \in DockerCalls : DockerBegins(b, c)
  BY <1>6 DEF ContainerSteps, ProxyIsAttached, ProxyIsDetached, ContainerIsInspected, ContainerIsCompared,
     ContainerIsStopped, ContainerIsRemoved, ContainerIsCreated, ContainerIsStarted, DirsChange,
     HostChanges, DockerBegins
<1> QED
  BY <1>1, <1>2, <1>3, <1>4, <1>5, <1>6 DEF CallSteps, NetworkSteps

\* A step is about one box, or takes something from all of them (the proxy).
LEMMA OneBoxSteps ==
  ASSUME DockerTypeOK, NEW b \in Box,
         (\E c \in DockerCalls : DockerBegins(b, c)) \/ CallSteps(b) \/ HostChanges(b)
  PROVE  /\ dockerAt' \in [Box -> Steps]
         /\ dockerCall' \in [Box -> DockerCalls \cup {"none"}]
         /\ \A c \in Box \ {b} : dockerAt'[c] = dockerAt[c] /\ dockerCall'[c] = dockerCall[c]
<1>1. CASE CallSteps(b)
  BY <1>1, StepGoesTo, GoesToEffect
<1>2. CASE \E c \in DockerCalls : DockerBegins(b, c)
  BY <1>2 DEF DockerBegins, DockerTypeOK, Steps, DockerCalls
<1>3. CASE HostChanges(b)
  BY <1>3 DEF HostChanges, dockerCallVars, DockerTypeOK
<1> QED
  BY <1>1, <1>2, <1>3

\* The variables of the daemon, box by box.
LEMMA DaemonTypes ==
  ASSUME DockerTypeOK, ChosenIsFree, NEW b \in Box,
         (\E c \in DockerCalls : DockerBegins(b, c)) \/ CallSteps(b) \/ HostChanges(b)
  PROVE  /\ container' \in [Box -> {"none", "exited", "running"}]
         /\ outdated' \subseteq Box /\ proxied' \subseteq Box /\ dirs' \subseteq Box /\ others' = others
         /\ network' \in [Box -> Subnet \cup {NoSubnet}]
         /\ \A c \in Box \ {b} : container'[c] = container[c] /\ network'[c] = network[c]
         /\ \A c \in Box \ {b} : c \in dirs' <=> c \in dirs
<1> USE DEF DockerTypeOK, daemonVars
<1>1. CASE (\E c \in DockerCalls : DockerBegins(b, c)) \/ DockerFails(b)
  BY <1>1 DEF DockerBegins, DockerFails
<1>2. CASE DirsChange(b)
  BY <1>2 DEF DirsChange
<1>3. CASE NetworkIsLookedUp(b) \/ SubnetIsChosen(b) \/ PoolIsFull(b)
  BY <1>3 DEF NetworkIsLookedUp, SubnetIsChosen, PoolIsFull
<1>4. CASE NetworkIsMade(b)
  <2>1. chosen[b] \in Subnet
    BY <1>4 DEF NetworkIsMade, ChosenIsFree
  <2>2. network' = network \/ network' = [network EXCEPT ![b] = chosen[b]]
    BY <1>4 DEF NetworkIsMade
  <2> QED
    BY <1>4, <2>1, <2>2 DEF NetworkIsMade
<1>5. CASE NetworkIsRemoved(b)
  BY <1>5 DEF NetworkIsRemoved
<1>6. CASE ContainerSteps(b)
  BY <1>6 DEF ContainerSteps, ProxyIsAttached, ProxyIsDetached, ContainerIsInspected, ContainerIsCompared,
     ContainerIsStopped, ContainerIsRemoved, ContainerIsCreated, ContainerIsStarted
<1>7. CASE HostChanges(b)
  BY <1>7 DEF HostChanges
<1> QED
  BY <1>1, <1>2, <1>3, <1>4, <1>5, <1>6, <1>7 DEF CallSteps, NetworkSteps

\* The subnet that is chosen is one of the pool, and nobody else's choice changes.
LEMMA ChosenTypes ==
  ASSUME DockerTypeOK, NEW b \in Box,
         (\E c \in DockerCalls : DockerBegins(b, c)) \/ CallSteps(b) \/ HostChanges(b)
  PROVE  /\ chosen' \in [Box -> Subnet \cup {NoSubnet}]
         /\ \A c \in Box \ {b} : chosen'[c] = chosen[c]
<1> USE DEF DockerTypeOK
<1>1. CASE SubnetIsChosen(b)
  <2>1. (CHOOSE s \in FreeSubnets : \A t \in FreeSubnets : s <= t) \in Subnet
    BY <1>1, FirstFreeSubnet DEF SubnetIsChosen, FreeSubnets
  <2> QED
    BY <1>1, <2>1 DEF SubnetIsChosen
<1>2. CASE chosen' = chosen \/ chosen' = [chosen EXCEPT ![b] = NoSubnet]
  BY <1>2
<1> QED
  BY <1>1, <1>2 DEF CallSteps, NetworkSteps, ContainerSteps, DockerBegins, DockerFails, DirsChange,
     NetworkIsLookedUp, PoolIsFull, NetworkIsMade, NetworkIsRemoved, ProxyIsAttached, ProxyIsDetached,
     ContainerIsInspected, ContainerIsCompared, ContainerIsStopped, ContainerIsRemoved,
     ContainerIsCreated, ContainerIsStarted, HostChanges

\* A step counts a failure, or none.
LEMMA FaultsStep ==
  ASSUME NEW b \in Box,
         (\E c \in DockerCalls : DockerBegins(b, c)) \/ CallSteps(b) \/ HostChanges(b)
  PROVE  Fault \/ UNCHANGED faults
<1>1. ASSUME NEW step, Done(b, step) PROVE Fault \/ UNCHANGED faults
  BY <1>1 DEF Done
<1> QED
  BY <1>1 DEF CallSteps, NetworkSteps, ContainerSteps, DockerBegins, DockerFails, DirsChange,
     NetworkIsLookedUp, SubnetIsChosen, PoolIsFull, NetworkIsMade, NetworkIsRemoved,
     ProxyIsAttached, ProxyIsDetached, ContainerIsInspected, ContainerIsCompared, ContainerIsStopped,
     ContainerIsRemoved, ContainerIsCreated, ContainerIsStarted, HostChanges

LEMMA TypesStay ==
  ASSUME DockerTypeOK, QueueIsOfAllocations, ChosenIsFree, NEW b \in Box,
         (\E c \in DockerCalls : DockerBegins(b, c)) \/ CallSteps(b) \/ HostChanges(b)
  PROVE  DockerTypeOK'
<1>1. allocating' \in Seq(Box)
  <2>1. CASE allocating' = allocating
    BY <2>1 DEF DockerTypeOK
  <2>2. CASE allocating' = Append(allocating, b)
    BY <2>2 DEF DockerTypeOK
  <2>3. CASE allocating # <<>> /\ allocating' = Tail(allocating)
    BY <2>3 DEF DockerTypeOK
  <2> QED
    BY <2>1, <2>2, <2>3, QueueStep
<1>2. faults' \in 0..MaxFaults
  BY FaultsStay, FaultsStep
<1>3. unattached' \subseteq Box
  BY DEF DockerTypeOK, CallSteps, NetworkSteps, ContainerSteps, DockerBegins, DockerFails, DirsChange,
     NetworkIsLookedUp, SubnetIsChosen, PoolIsFull, NetworkIsMade, NetworkIsRemoved, ProxyIsAttached,
     ProxyIsDetached, ContainerIsInspected, ContainerIsCompared, ContainerIsStopped, ContainerIsRemoved,
     ContainerIsCreated, ContainerIsStarted, HostChanges
<1> QED
  BY <1>1, <1>2, <1>3, OneBoxSteps, DaemonTypes, ChosenTypes DEF DockerTypeOK

(***************************************************************************)
(* The invariant.                                                          *)
(***************************************************************************)

LEMMA DockerInvInit == DockerInit => DockerInv
<1> SUFFICES ASSUME DockerInit PROVE DockerInv
  OBVIOUS
<1> USE DEF DockerInit
<1>1. DockerTypeOK
  <2>1. 0 \in 0..MaxFaults /\ others \subseteq Subnet
    BY PoolAssumption
  <2> QED
    BY <2>1 DEF DockerTypeOK, Steps
<1>2. CallsAreAtTheirRequests /\ ContainerIsDown
  BY DEF CallsAreAtTheirRequests, RequestsOf, ContainerIsDown, DownWhenNeeded, CountsOnDown
<1>3. QueueIsOfAllocations /\ ChosenIsFree
  BY DEF QueueIsOfAllocations, Allocates, ChosenIsFree
<1> QED
  BY <1>1, <1>2, <1>3 DEF DockerInv

\* A call ends, or goes on to one of its own requests.
LEMMA CallGoesOn ==
  ASSUME DockerTypeOK, NEW b \in Box, NEW step \in Steps, GoesTo(b, step),
         step \in {"return", "throw"} \/ step \in RequestsOf(dockerCall[b])
  PROVE  dockerAt'[b] \in RequestsOf(dockerCall'[b])
<1>1. CASE step \in {"return", "throw"}
  BY <1>1, GoesToEffect DEF RequestsOf
<1>2. CASE step \notin {"return", "throw"}
  BY <1>2, GoesToEffect
<1> QED
  BY <1>1, <1>2

LEMMA CallsStay ==
  ASSUME DockerTypeOK, CallsAreAtTheirRequests, NEW b \in Box,
         (\E c \in DockerCalls : DockerBegins(b, c)) \/ CallSteps(b) \/ HostChanges(b)
  PROVE  dockerAt'[b] \in RequestsOf(dockerCall'[b])
<1>1. ASSUME NEW c \in DockerCalls, DockerBegins(b, c) PROVE dockerAt'[b] \in RequestsOf(dockerCall'[b])
  BY <1>1 DEF DockerBegins, DockerCalls, DockerTypeOK, RequestsOf
<1>2. CASE HostChanges(b)
  BY <1>2 DEF HostChanges, dockerCallVars, CallsAreAtTheirRequests
<1>4. CASE CallSteps(b)
  <2>1. dockerAt[b] \in RequestsOf(dockerCall[b]) /\ dockerCall[b] \in DockerCalls \cup {"none"}
    BY DEF CallsAreAtTheirRequests, DockerTypeOK
  <2> USE DEF Steps, DockerCalls
  <2>2. CASE DockerFails(b) \/ DirsChange(b) \/ PoolIsFull(b) \/ NetworkIsRemoved(b) \/ ContainerIsStarted(b)
    <3>1. GoesTo(b, "return") \/ GoesTo(b, "throw")
      BY <2>2, DoneGoes DEF DockerFails, DirsChange, PoolIsFull, NetworkIsRemoved, ContainerIsStarted
    <3> QED
      BY <3>1, CallGoesOn
  <2>3. CASE NetworkIsLookedUp(b) \/ SubnetIsChosen(b) \/ NetworkIsMade(b)
    <3>1. dockerCall[b] = "ensure"
      BY <2>1, <2>3 DEF RequestsOf, NetworkIsLookedUp, SubnetIsChosen, NetworkIsMade
    <3>2. \E step \in {"allocate", "makeNetwork", "attach", "throw"} : GoesTo(b, step)
      BY <2>3, DoneGoes DEF NetworkIsLookedUp, SubnetIsChosen, NetworkIsMade
    <3> QED
      BY <3>1, CallGoesOn, <3>2 DEF RequestsOf
  <2>4. CASE ProxyIsAttached(b) \/ ContainerIsInspected(b) \/ ContainerIsCompared(b) \/ ContainerIsCreated(b)
    <3>1. dockerCall[b] = "ensure"
      BY <2>1, <2>4 DEF RequestsOf, ProxyIsAttached, ProxyIsDetached, ContainerIsInspected, ContainerIsCompared,
         ContainerIsCreated
    <3>2. \E step \in {"inspect", "compare", "create", "stopOld", "return", "throw"} : GoesTo(b, step)
      BY <2>4, DoneGoes DEF ProxyIsAttached, ProxyIsDetached, ContainerIsInspected, ContainerIsCompared,
         ContainerIsCreated, DockerTypeOK
    <3> QED
      BY <3>1, CallGoesOn, <3>2 DEF RequestsOf
  <2>5. CASE ContainerIsStopped(b)
    <3>1. \/ dockerCall[b] = "ensure" /\ (GoesTo(b, "removeOld") \/ GoesTo(b, "throw"))
          \/ GoesTo(b, "return") \/ GoesTo(b, "throw")
          \/ dockerCall[b] = "remove" /\ GoesTo(b, "removeContainer")
      BY <2>1, <2>5, DoneGoes DEF RequestsOf, ContainerIsStopped
    <3> QED
      BY <3>1, CallGoesOn DEF RequestsOf
  <2>6. CASE ContainerIsRemoved(b)
    <3>1. \/ dockerCall[b] = "ensure" /\ GoesTo(b, "create")
          \/ GoesTo(b, "throw")
          \/ dockerCall[b] = "remove" /\ GoesTo(b, "detach")
      BY <2>1, <2>6, DoneGoes DEF RequestsOf, ContainerIsRemoved
    <3> QED
      BY <3>1, CallGoesOn DEF RequestsOf
  <2>7. CASE ProxyIsDetached(b)
    <3>1. dockerCall[b] = "remove" /\ GoesTo(b, "removeNetwork")
      BY <2>1, <2>7 DEF RequestsOf, ProxyIsDetached
    <3> QED
      BY <3>1, CallGoesOn DEF RequestsOf
  <2> QED
    BY <1>4, <2>2, <2>3, <2>4, <2>5, <2>6, <2>7 DEF CallSteps, NetworkSteps, ContainerSteps
<1> QED
  BY <1>1, <1>2, <1>4

\* A box comes to an allocation through the queue, and leaves it by leaving the queue.
LEMMA AllocationStep ==
  ASSUME DockerTypeOK, CallsAreAtTheirRequests, QueueIsOfAllocations, NEW b \in Box,
         (\E c \in DockerCalls : DockerBegins(b, c)) \/ CallSteps(b) \/ HostChanges(b)
  PROVE  /\ allocating' = allocating => (Allocates(b)' <=> Allocates(b))
         /\ dockerAt'[b] = "makeNetwork" =>
              /\ allocating' = allocating
              /\ dockerAt[b] = "makeNetwork" \/ (allocating # <<>> /\ allocating[1] = b)
<1> USE DEF Allocates, Steps
<1>1. CASE DockerFails(b) \/ PoolIsFull(b)
  <2>1. dockerAt'[b] = "throw"
    BY <1>1, GoesToEffect DEF DockerFails, PoolIsFull
  <2>2. Allocates(b) => allocating # <<>> /\ allocating' = Tail(allocating)
    BY <1>1 DEF DockerFails, PoolIsFull, QueueIsOfAllocations
  <2>3. allocating # <<>> => Tail(allocating) # allocating
    BY DEF DockerTypeOK
  <2> QED
    BY <2>1, <2>2, <2>3
<1>2. CASE NetworkIsLookedUp(b)
  <2>1. Append(allocating, b) # allocating
    BY DEF DockerTypeOK
  <2>2. \/ dockerAt'[b] = "allocate" /\ allocating' = Append(allocating, b)
        \/ dockerAt'[b] = "attach"
    BY <1>2, GoesToEffect DEF NetworkIsLookedUp
  <2> QED
    BY <1>2, <2>1, <2>2 DEF NetworkIsLookedUp
<1>3. CASE SubnetIsChosen(b)
  <2>1. dockerAt'[b] = "makeNetwork" /\ dockerAt[b] = "allocate" /\ allocating' = allocating
    BY <1>3, GoesToEffect DEF SubnetIsChosen
  <2>2. allocating # <<>> /\ allocating[1] = b
    BY <1>3 DEF SubnetIsChosen, QueueIsOfAllocations, DockerTypeOK
  <2> QED
    BY <2>1, <2>2
<1>4. CASE NetworkIsMade(b)
  <2>1. allocating # <<>> /\ allocating' = Tail(allocating)
    BY <1>4 DEF NetworkIsMade, QueueIsOfAllocations
  <2>2. Tail(allocating) # allocating
    BY <2>1 DEF DockerTypeOK
  <2>3. dockerAt'[b] \in {"throw", "attach"}
    BY <1>4, GoesToEffect, DoneGoes DEF NetworkIsMade
  <2> QED
    BY <2>1, <2>2, <2>3
<1>5. CASE DirsChange(b) \/ NetworkIsRemoved(b)
  <2>1. dockerAt'[b] \in {"return", "throw"}
    BY <1>5, GoesToEffect, DoneGoes DEF DirsChange, NetworkIsRemoved
  <2> QED
    BY <1>5, <2>1 DEF DirsChange, NetworkIsRemoved
<1>6. CASE \/ ProxyIsAttached(b) \/ ProxyIsDetached(b) \/ ContainerIsInspected(b) \/ ContainerIsCompared(b)
           \/ ContainerIsCreated(b)
  <2>1. \E step \in {"inspect", "compare", "create", "stopOld", "removeNetwork", "return", "throw"} : GoesTo(b, step)
    BY <1>6, DoneGoes DEF ProxyIsAttached, ProxyIsDetached, ContainerIsInspected, ContainerIsCompared,
       ContainerIsCreated, DockerTypeOK
  <2>2. ~Allocates(b)'
    BY <2>1, GoesToEffect
  <2> QED
    BY <1>6, <2>2 DEF ProxyIsAttached, ProxyIsDetached, ContainerIsInspected, ContainerIsCompared, ContainerIsCreated
<1>7. CASE ContainerIsStopped(b) \/ ContainerIsRemoved(b) \/ ContainerIsStarted(b)
  <2>1. \E step \in {"removeOld", "return", "removeContainer", "create", "detach", "throw"} : GoesTo(b, step)
    BY <1>7, DoneGoes DEF ContainerIsStopped, ContainerIsRemoved, ContainerIsStarted
  <2>2. ~Allocates(b)'
    BY <2>1, GoesToEffect
  <2> QED
    BY <1>7, <2>2 DEF ContainerIsStopped, ContainerIsRemoved, ContainerIsStarted
<1>8. CASE HostChanges(b)
  <2>1. dockerAt' = dockerAt /\ allocating' = allocating
    BY <1>8 DEF HostChanges, dockerCallVars
  <2> QED
    BY <2>1 DEF QueueIsOfAllocations
<1>9. CASE \E c \in DockerCalls : DockerBegins(b, c)
  BY <1>9 DEF DockerBegins, DockerTypeOK, DockerCalls, CallsAreAtTheirRequests, RequestsOf
<1> QED
  BY <1>1, <1>2, <1>3, <1>4, <1>5, <1>6, <1>7, <1>8, <1>9 DEF CallSteps, NetworkSteps, ContainerSteps

\* The queue stays in order: a box joins it once, and leaves it from its head.
LEMMA QueueStays ==
  ASSUME DockerTypeOK, CallsAreAtTheirRequests, QueueIsOfAllocations, NEW b \in Box,
         (\E c \in DockerCalls : DockerBegins(b, c)) \/ CallSteps(b) \/ HostChanges(b)
  PROVE  QueueIsOfAllocations'
<1> USE DEF QueueIsOfAllocations, Allocates
<1>1. \A c \in Box \ {b} : dockerAt'[c] = dockerAt[c]
  BY OneBoxSteps
<1>2. allocating \in Seq(Box) /\ \A i \in 1..Len(allocating) : allocating[i] \in Box
  BY DEF DockerTypeOK
<1>3. CASE allocating' = allocating
  <2>1. (Allocates(b)' <=> Allocates(b)) /\
        (dockerAt'[b] = "makeNetwork" =>
           dockerAt[b] = "makeNetwork" \/ (allocating # <<>> /\ allocating[1] = b))
    BY <1>3, AllocationStep
  <2> QED
    BY <1>1, <1>2, <1>3, <2>1
<1>4. CASE allocating' = Append(allocating, b) /\ dockerAt[b] = "ensure" /\ dockerAt'[b] = "allocate"
  <2>1. /\ Len(allocating') = Len(allocating) + 1 /\ Len(allocating) \in Nat
        /\ \A i \in 1..Len(allocating) : allocating'[i] = allocating[i]
        /\ allocating'[Len(allocating) + 1] = b
    BY <1>2, <1>4
  <2>2. \A i \in 1..Len(allocating) : allocating[i] # b
    BY <1>4
  <2>3. \A i \in 1..Len(allocating') : dockerAt'[allocating'[i]] \in {"allocate", "makeNetwork"}
    BY <1>1, <1>2, <1>4, <2>1, <2>2
  <2>4. \A i, j \in 1..Len(allocating') : allocating'[i] = allocating'[j] => i = j
    BY <2>1, <2>2
  <2>5. ASSUME NEW c \in Box, Allocates(c)' PROVE \E i \in 1..Len(allocating') : allocating'[i] = c
    <3>1. CASE c = b
      BY <2>1, <3>1
    <3>2. CASE c # b
      BY <1>1, <2>1, <2>5, <3>2
    <3> QED
      BY <3>1, <3>2
  <2>6. \A c \in Box : dockerAt'[c] = "makeNetwork" => allocating' # <<>> /\ allocating'[1] = c
    <3>1. ASSUME NEW c \in Box, dockerAt'[c] = "makeNetwork" PROVE allocating' # <<>> /\ allocating'[1] = c
      <4>1. c # b /\ dockerAt[c] = "makeNetwork"
        BY <1>1, <1>4, <3>1
      <4>2. allocating # <<>> /\ allocating[1] = c
        BY <4>1
      <4>3. 1 \in 1..Len(allocating)
        BY <1>2, <4>2
      <4> QED
        BY <1>2, <1>4, <2>1, <4>2, <4>3
    <3> QED
      BY <3>1
  <2> QED
    BY <2>3, <2>4, <2>5, <2>6
<1>5. CASE /\ allocating # <<>> /\ allocating' = Tail(allocating) /\ allocating[1] = b
           /\ dockerAt'[b] \in {"throw", "attach"}
  <2>1. /\ Len(allocating') = Len(allocating) - 1 /\ Len(allocating) \in Nat /\ Len(allocating) > 0
        /\ \A i \in 1..Len(allocating') : allocating'[i] = allocating[i + 1]
    BY <1>2, <1>5
  <2>2. \A i \in 1..Len(allocating) : allocating[i] = b => i = 1
    BY <1>5, <2>1
  <2>3. \A i \in 1..Len(allocating') : allocating'[i] \in Box \ {b} /\ Allocates(allocating'[i])
    BY <1>2, <2>1, <2>2
  <2>4. \A i \in 1..Len(allocating') : dockerAt'[allocating'[i]] \in {"allocate", "makeNetwork"}
    BY <1>1, <2>3
  <2>5. \A i, j \in 1..Len(allocating') : allocating'[i] = allocating'[j] => i = j
    BY <2>1
  <2>6. ASSUME NEW c \in Box, Allocates(c)' PROVE \E i \in 1..Len(allocating') : allocating'[i] = c
    <3>1. c # b
      BY <1>5, <2>6
    <3>2. PICK i \in 1..Len(allocating) : allocating[i] = c
      BY <1>1, <2>6, <3>1
    <3>3. i # 1 /\ i - 1 \in 1..Len(allocating')
      BY <1>5, <2>1, <3>1, <3>2
    <3>4. allocating'[i - 1] = allocating[(i - 1) + 1] /\ (i - 1) + 1 = i
      BY <2>1, <3>3
    <3> QED
      BY <3>2, <3>3, <3>4
  <2>7. \A c \in Box : dockerAt'[c] # "makeNetwork"
    <3>1. ASSUME NEW c \in Box, dockerAt'[c] = "makeNetwork" PROVE FALSE
      <4>1. c # b
        BY <1>5, <3>1
      <4>2. dockerAt[c] = "makeNetwork"
        BY <1>1, <3>1, <4>1
      <4> QED
        BY <1>5, <4>1, <4>2
    <3> QED
      BY <3>1
  <2> QED
    BY <2>4, <2>5, <2>6, <2>7
<1> QED
  BY <1>3, <1>4, <1>5, QueueStep

\* Only the head of the queue makes a network, so the choice of the head stays free.
LEMMA ChosenStaysFree ==
  ASSUME DockerInv, NEW b \in Box,
         (\E c \in DockerCalls : DockerBegins(b, c)) \/ CallSteps(b) \/ HostChanges(b)
  PROVE  ChosenIsFree'
<1> USE DEF DockerInv
<1>1. /\ \A c \in Box \ {b} : dockerAt'[c] = dockerAt[c] /\ chosen'[c] = chosen[c]
      /\ \A c \in Box \ {b} : network'[c] = network[c]
  BY OneBoxSteps, ChosenTypes, DaemonTypes
<1>2. CASE NetworkIsMade(b)
  <2>1. dockerAt'[b] \in {"throw", "attach"} /\ chosen'[b] = NoSubnet
    BY <1>2, GoesToEffect, DoneGoes DEF NetworkIsMade, Steps, DockerTypeOK
  <2>2. \A c \in Box \ {b} : dockerAt[c] # "makeNetwork"
    BY <1>2 DEF NetworkIsMade, QueueIsOfAllocations
  <2> QED
    BY <1>1, <2>1, <2>2 DEF ChosenIsFree
<1>3. CASE SubnetIsChosen(b)
  <2>1. chosen'[b] \in FreeSubnets /\ network' = network
    BY <1>3, FirstFreeSubnet DEF SubnetIsChosen, FreeSubnets, DockerTypeOK, daemonVars
  <2>2. dockerAt'[b] = "makeNetwork"
    BY <1>3, GoesToEffect DEF SubnetIsChosen, Steps
  <2> QED
    BY <1>1, <2>1, <2>2 DEF ChosenIsFree, FreeSubnets
<1>4. CASE ~NetworkIsMade(b) /\ ~SubnetIsChosen(b)
  <2>1. \A c \in Box : network'[c] = network[c] \/ network'[c] = NoSubnet
    BY <1>1, <1>4 DEF CallSteps, NetworkSteps, ContainerSteps, DockerBegins, DockerFails, DirsChange,
       NetworkIsLookedUp, PoolIsFull, NetworkIsRemoved, ProxyIsAttached, ProxyIsDetached, ContainerIsInspected,
       ContainerIsCompared, ContainerIsStopped, ContainerIsRemoved, ContainerIsCreated,
       ContainerIsStarted, HostChanges, daemonVars, DockerTypeOK
  <2>2. \/ dockerAt[b] = "makeNetwork" /\ dockerAt'[b] = "makeNetwork" /\ chosen'[b] = chosen[b]
        \/ dockerAt'[b] # "makeNetwork" /\ chosen'[b] = NoSubnet
    <3>1. CASE DockerFails(b)
      <4>1. dockerAt'[b] = "throw"
        BY <3>1, GoesToEffect DEF DockerFails, Steps
      <4> QED
        BY <3>1, <4>1 DEF DockerFails, ChosenIsFree, DockerTypeOK
    <3>2. CASE HostChanges(b)
      BY <3>2 DEF HostChanges, dockerCallVars, ChosenIsFree
    <3>3. CASE \E c \in DockerCalls : DockerBegins(b, c)
      BY <3>3 DEF DockerBegins, DockerCalls, DockerTypeOK, ChosenIsFree, CallsAreAtTheirRequests, RequestsOf
    <3>4. CASE CallSteps(b) /\ ~DockerFails(b)
      <4>1. chosen' = chosen /\ dockerAt[b] # "makeNetwork"
        BY <1>4, <3>4 DEF CallSteps, NetworkSteps, ContainerSteps, DirsChange,
           NetworkIsLookedUp, PoolIsFull, NetworkIsRemoved, ProxyIsAttached, ProxyIsDetached, ContainerIsInspected,
           ContainerIsCompared, ContainerIsStopped, ContainerIsRemoved, ContainerIsCreated,
           ContainerIsStarted
      <4>2. dockerAt'[b] # "makeNetwork"
        <5>1. \A i \in 1..Len(allocating) : Allocates(allocating[i])
          BY DEF QueueIsOfAllocations
        <5>2. CASE PoolIsFull(b)
          BY <5>2, GoesToEffect DEF PoolIsFull, Steps
        <5>3. CASE ~PoolIsFull(b)
          <6>1. dockerAt[b] \notin {"allocate", "makeNetwork"}
            BY <1>4, <3>4, <4>1, <5>3 DEF CallSteps, NetworkSteps, ContainerSteps, DirsChange,
               NetworkIsLookedUp, NetworkIsRemoved, ProxyIsAttached, ProxyIsDetached, ContainerIsInspected,
               ContainerIsCompared, ContainerIsStopped, ContainerIsRemoved, ContainerIsCreated,
               ContainerIsStarted
          <6>2. dockerAt'[b] = "makeNetwork" => allocating' = allocating /\ Allocates(b)'
            BY AllocationStep DEF Allocates
          <6> QED
            BY <6>1, <6>2, AllocationStep DEF Allocates
        <5> QED
          BY <5>2, <5>3
      <4> QED
        BY <4>1, <4>2 DEF ChosenIsFree
    <3> QED
      BY <3>1, <3>2, <3>3, <3>4
  <2>3. NoSubnet \notin Subnet
    BY PoolAssumption DEF NoSubnet, Subnet
  <2> QED
    BY <1>1, <2>1, <2>2, <2>3 DEF ChosenIsFree
<1> QED
  BY <1>2, <1>3, <1>4

\* Nothing but a start brings a container up, and a start needs the network.
LEMMA ContainerStaysDown ==
  ASSUME DockerInv, NEW b \in Box,
         (\E c \in DockerCalls : DockerBegins(b, c)) \/ CallSteps(b) \/ HostChanges(b)
  PROVE  DownWhenNeeded(b)'
<1> USE DEF DockerInv
<1>1. DownWhenNeeded(b)
  BY DEF ContainerIsDown
<1>2. NoSubnet \notin Subnet
  BY PoolAssumption DEF NoSubnet, Subnet
<1> USE DEF DockerTypeOK, Steps, DownWhenNeeded, CountsOnDown
<1>3. CASE HostChanges(b)
  BY <1>1, <1>3 DEF HostChanges, dockerCallVars
<1>4. CASE \E c \in DockerCalls : DockerBegins(b, c)
  BY <1>1, <1>4 DEF DockerBegins, DockerCalls, daemonVars
<1>5. CASE DockerFails(b) \/ DirsChange(b) \/ NetworkIsLookedUp(b) \/ SubnetIsChosen(b) \/ PoolIsFull(b)
  <2>1. UNCHANGED <<container, network>>
    BY <1>5 DEF DockerFails, DirsChange, NetworkIsLookedUp, SubnetIsChosen, PoolIsFull, daemonVars
  <2>2. \E step \in {"return", "throw", "allocate", "attach", "makeNetwork"} : GoesTo(b, step)
    BY <1>5 DEF DockerFails, DirsChange, NetworkIsLookedUp, SubnetIsChosen, PoolIsFull
  <2> QED
    BY <1>1, <2>1, <2>2, GoesToEffect
<1>6. CASE NetworkIsMade(b)
  <2>1. dockerAt'[b] \in {"throw", "attach"} /\ container' = container
    BY <1>6, GoesToEffect, DoneGoes DEF NetworkIsMade
  <2>2. network' = network \/ (network' = [network EXCEPT ![b] = chosen[b]] /\ chosen[b] \in Subnet)
    BY <1>6 DEF NetworkIsMade, ChosenIsFree
  <2> QED
    BY <1>1, <1>2, <2>1, <2>2
<1>7. CASE NetworkIsRemoved(b)
  <2>1. dockerAt'[b] \in {"throw", "return"} /\ container' = container /\ dockerAt[b] = "removeNetwork"
    BY <1>7, GoesToEffect, DoneGoes DEF NetworkIsRemoved
  <2> QED
    BY <1>1, <2>1
<1>8. CASE ProxyIsAttached(b) \/ ProxyIsDetached(b) \/ ContainerIsInspected(b) \/ ContainerIsCompared(b)
  <2>1. UNCHANGED <<container, network>>
    BY <1>8 DEF ProxyIsAttached, ProxyIsDetached, ContainerIsInspected, ContainerIsCompared, daemonVars
  <2>2. \/ GoesTo(b, "return") \/ GoesTo(b, "inspect")
        \/ container[b] # "running" /\ \E step \in Steps : GoesTo(b, step)
    BY <1>1, <1>8 DEF ProxyIsAttached, ProxyIsDetached, ContainerIsInspected, ContainerIsCompared
  <2> QED
    BY <1>1, <2>1, <2>2, GoesToEffect
<1>9. CASE ContainerIsStopped(b) \/ ContainerIsRemoved(b)
  <2>1. container'[b] # "running"
    BY <1>9 DEF ContainerIsStopped, ContainerIsRemoved
  <2> QED
    BY <2>1
<1>10. CASE ContainerIsCreated(b) \/ ContainerIsStarted(b)
  <2>1. \E step \in {"return", "throw"} : GoesTo(b, step)
    BY <1>10, DoneGoes DEF ContainerIsCreated, ContainerIsStarted
  <2>2. /\ network' = network
        /\ container'[b] = "running" => container[b] = "running" \/ network[b] # NoSubnet
    BY <1>10 DEF ContainerIsCreated, ContainerIsStarted
  <2> QED
    BY <1>1, <2>1, <2>2, GoesToEffect
<1> QED
  BY <1>3, <1>4, <1>5, <1>6, <1>7, <1>8, <1>9, <1>10 DEF CallSteps, NetworkSteps, ContainerSteps

LEMMA ContainersStayDown ==
  ASSUME DockerInv, NEW b \in Box,
         (\E c \in DockerCalls : DockerBegins(b, c)) \/ CallSteps(b) \/ HostChanges(b)
  PROVE  ContainerIsDown'
<1>1. \A c \in Box \ {b} : /\ dockerAt'[c] = dockerAt[c] /\ container'[c] = container[c]
                          /\ network'[c] = network[c]
  BY OneBoxSteps, DaemonTypes DEF DockerInv
<1>2. ASSUME NEW c \in Box \ {b} PROVE DownWhenNeeded(c)'
  BY <1>1 DEF DockerInv, ContainerIsDown, DownWhenNeeded
<1> QED
  BY <1>2, ContainerStaysDown DEF ContainerIsDown

\* The invariant of the driver: each call is at one of its requests, the queue of the
\* allocations has each box once and its head alone has chosen, the choice is free, and
\* a container is down where a call counts on it.
THEOREM DockerInvariant == DockerSpec => []DockerInv
<1>1. DockerInv /\ [DockerNext]_dockerVars => DockerInv'
  <2> SUFFICES ASSUME DockerInv, [DockerNext]_dockerVars PROVE DockerInv'
    OBVIOUS
  <2>1. CASE UNCHANGED dockerVars
    BY <2>1 DEF dockerVars, daemonVars, dockerCallVars, DockerInv, DockerTypeOK,
       CallsAreAtTheirRequests, QueueIsOfAllocations, Allocates, ChosenIsFree, ContainerIsDown, DownWhenNeeded
  <2>2. ASSUME NEW b \in Box,
               (\E c \in DockerCalls : DockerBegins(b, c)) \/ CallSteps(b) \/ HostChanges(b)
        PROVE  DockerInv'
    <3>1. DockerTypeOK' /\ QueueIsOfAllocations'
      BY <2>2, TypesStay, QueueStays DEF DockerInv
    <3>2. CallsAreAtTheirRequests'
      BY <2>2, CallsStay, OneBoxSteps DEF DockerInv, CallsAreAtTheirRequests
    <3> QED
      BY <2>2, <3>1, <3>2, ChosenStaysFree, ContainersStayDown DEF DockerInv
  <2> QED
    BY <2>1, <2>2, DockerSteps
<1> QED
  BY <1>1, DockerInvInit, PTL DEF DockerSpec

(***************************************************************************)
(* The properties.                                                         *)
(***************************************************************************)

\* The head of the queue is alone at its creation, and its choice is free.
LEMMA DockerInvMeans == DockerInv => DockerTypeOK /\ NetworksAreApart
<1> SUFFICES ASSUME DockerInv PROVE NetworksAreApart
  BY DEF DockerInv
<1>1. \A b \in Box : container[b] = "running" => network[b] # NoSubnet
  BY DEF DockerInv, ContainerIsDown, DownWhenNeeded
<1>2. ASSUME NEW b \in Box, NEW c \in Box, b # c, dockerAt[b] = "makeNetwork"
      PROVE  chosen[b] \notin {chosen[c], network[c]}
  <2>1. dockerAt[c] # "makeNetwork"
    BY <1>2 DEF DockerInv, QueueIsOfAllocations
  <2>2. chosen[c] = NoSubnet /\ chosen[b] \in Subnet /\ network[c] # chosen[b]
    BY <1>2, <2>1 DEF DockerInv, ChosenIsFree
  <2>3. NoSubnet \notin Subnet
    BY PoolAssumption DEF NoSubnet, Subnet
  <2> QED
    BY <2>2, <2>3
<1> QED
  BY <1>1, <1>2 DEF NetworksAreApart

\* What the promise sees of a box.
Call(b) == IF dockerCall[b] = "none" THEN dockerAt[b] ELSE dockerCall[b]
Power(b) == IF container[b] = "running" THEN "on" ELSE "off"
Fence(b) == network[b] # NoSubnet /\ b \in proxied
Repaired(b) ==
  /\ dockerAt[b] \in {"inspect", "compare", "stopOld", "removeOld", "create", "return"}
  /\ b \notin unattached

\* What the promise sees as unchanged.
SamePower(b) == container[b] = "running" <=> container'[b] = "running"
SameFence(b) == Fence(b) <=> Fence(b)'
SameFiles(b) == b \in dirs' <=> b \in dirs

\* A step of a call, by what it shows to the promise.
LEMMA WorksSuffices ==
  ASSUME NEW b \in Box, NEW c \in DockerCalls, Call(b) = c, Call(b)' \in {c, "throw", "return"},
         \/ c = "createStorage" /\ b \in dirs' /\ SamePower(b) /\ SameFence(b)
         \/ c = "removeStorage" /\ b \notin dirs' /\ SamePower(b) /\ SameFence(b)
         \/ c = "ensure" /\ Fence(b)' /\ SamePower(b) /\ SameFiles(b)
         \/ c = "start" /\ SameFence(b) /\ SameFiles(b)
         \/ c \in {"stop", "remove"} /\ container'[b] # "running" /\ SameFence(b) /\ SameFiles(b)
         \/ /\ c = "remove" /\ container[b] # "running" /\ ~Fence(b)'
            /\ SamePower(b) /\ SameFiles(b)
         \/ SamePower(b) /\ SameFence(b) /\ SameFiles(b),
         c = "ensure" /\ Repaired(b)' => Repaired(b) \/ Fence(b) \/ Fence(b)',
         b \in unattached' => b \in unattached \/ c = "ensure",
         Call(b)' = "return" => DockerPromise(b)!Kept(c)'
  PROVE  DockerPromise(b)!Works
<1>1. c \in DockerPromise(b)!Calls
  BY DEF DockerPromise!Calls, DockerCalls
<1> QED
  BY <1>1 DEF DockerPromise!Works, DockerPromise!FilesChange, DockerPromise!Fenced,
     DockerPromise!Switched, DockerPromise!Downed, DockerPromise!Unfenced, Call, Repaired, Fence,
     SamePower, SameFence, SameFiles

\* Where a call is after a request, as the promise sees it.
LEMMA GoesToIsPromised ==
  ASSUME DockerTypeOK, NEW b \in Box, dockerCall[b] \in DockerCalls,
         NEW step \in Steps \ {"none"}, GoesTo(b, step)
  PROVE  /\ Call(b) = dockerCall[b] /\ Call(b)' \in {dockerCall[b], "throw", "return"}
         /\ Call(b)' = "return" <=> step = "return"
         /\ dockerAt'[b] = step
<1>1. dockerCall[b] \notin {"none", "return", "throw"}
  BY DEF DockerCalls
<1> QED
  BY <1>1, GoesToEffect DEF Call

\* A call begins when no other one runs on the box.
LEMMA BeginsIsPromised ==
  ASSUME DockerInv, NEW b \in Box, NEW c \in DockerCalls, DockerBegins(b, c)
  PROVE  DockerPromise(b)!Begins
<1> USE DEF DockerInv, DockerTypeOK, DockerBegins, daemonVars
<1>1. dockerAt[b] \in {"none", "return", "throw"} /\ dockerCall[b] = "none"
  BY DEF CallsAreAtTheirRequests, RequestsOf
<1>2. dockerCall'[b] = c /\ dockerAt'[b] = c
  OBVIOUS
<1>3. c \notin {"none", "attach", "inspect", "compare", "stopOld", "removeOld", "create", "return", "throw"}
  BY DEF DockerCalls
<1>4. UNCHANGED <<container, network, proxied, dirs>> /\ b \notin unattached'
  OBVIOUS
<1> QED
  BY <1>1, <1>2, <1>3, <1>4 DEF DockerPromise!Begins, DockerPromise!Calls, DockerCalls

\* What happens on the host takes parts of the box away, and never adds one.
LEMMA HostIsPromised ==
  ASSUME DockerInv, NEW b \in Box, HostChanges(b)
  PROVE  DockerPromise(b)!BreaksDown
<1> USE DEF DockerInv, DockerTypeOK
<1>1. UNCHANGED <<dockerCall, dockerAt, unattached>>
  BY DEF HostChanges, dockerCallVars
<1>2. container'[b] = "running" => container[b] = "running"
  BY DEF HostChanges
<1>4. Fence(b)' => Fence(b)
  BY DEF HostChanges, Fence
<1>5. b \in dirs' => b \in dirs
  BY DEF HostChanges
<1>6. Power(b)' \in {Power(b), "off"}
  BY <1>2 DEF Power
<1>7. (network[b] # NoSubnet /\ b \in proxied)' \in {(network[b] # NoSubnet /\ b \in proxied), FALSE}
  <2>1. Fence(b)' \in {Fence(b), FALSE}
    <3>1. Fence(b) \in BOOLEAN /\ Fence(b)' \in BOOLEAN
      BY DEF Fence
    <3> QED
      BY <1>4, <3>1, Zenon
  <2> QED
    BY <2>1 DEF Fence
<1>8. (b \in dirs)' \in {(b \in dirs), FALSE}
  <2>1. CASE b \in dirs'
    BY <1>5, <2>1
  <2>2. CASE b \notin dirs'
    <3>1. (b \in dirs') = FALSE
      BY <2>2
    <3> QED
      BY <3>1, Zenon
  <2> QED
    BY <2>1, <2>2
<1> QED
  BY <1>1, <1>6, <1>7, <1>8 DEF DockerPromise!BreaksDown, Power

\* What a step leaves of the proxy on the other networks: only a proxy that is made anew
\* is gone from them.
LEMMA OtherNetworksAreSpared ==
  ASSUME NEW b \in Box, NEW c \in Box \ {b},
         (\E d \in DockerCalls : DockerBegins(b, d)) \/ CallSteps(b) \/ HostChanges(b)
  PROVE  /\ c \in proxied' => c \in proxied
         /\ c \in proxied => c \in proxied' \/ HostChanges(b)
         /\ c \in unattached' <=> c \in unattached
<1>1. CASE HostChanges(b)
  BY <1>1 DEF HostChanges
<1>2. CASE \E d \in DockerCalls : DockerBegins(b, d)
  BY <1>2 DEF DockerBegins, daemonVars
<1>3. CASE DockerFails(b) \/ DirsChange(b) \/ NetworkSteps(b)
  BY <1>3 DEF NetworkSteps, DockerFails, DirsChange, NetworkIsLookedUp, SubnetIsChosen, PoolIsFull,
     NetworkIsMade, NetworkIsRemoved, daemonVars
<1>4. CASE ContainerSteps(b)
  BY <1>4 DEF ContainerSteps, ProxyIsAttached, ProxyIsDetached, ContainerIsInspected,
     ContainerIsCompared, ContainerIsStopped, ContainerIsRemoved, ContainerIsCreated,
     ContainerIsStarted, daemonVars
<1> QED
  BY <1>1, <1>2, <1>3, <1>4 DEF CallSteps

\* Another box is left as it is, or loses the proxy.
LEMMA OthersAreSpared ==
  ASSUME DockerInv, NEW b \in Box, NEW c \in Box \ {b},
         (\E d \in DockerCalls : DockerBegins(b, d)) \/ CallSteps(b) \/ HostChanges(b)
  PROVE  UNCHANGED DockerPromise(c)!promiseVars \/ DockerPromise(c)!BreaksDown
<1>1. /\ dockerAt'[c] = dockerAt[c] /\ dockerCall'[c] = dockerCall[c]
      /\ container'[c] = container[c] /\ network'[c] = network[c] /\ (c \in dirs' <=> c \in dirs)
  BY OneBoxSteps, DaemonTypes DEF DockerInv
<1>2. (c \in proxied' => c \in proxied) /\ (c \in unattached' <=> c \in unattached)
  BY OtherNetworksAreSpared
<1>3. CASE c \in proxied' <=> c \in proxied
  BY <1>1, <1>2, <1>3 DEF DockerPromise!promiseVars
<1>4. CASE c \notin proxied'
  <2>1. (network[c] # NoSubnet /\ c \in proxied)' = FALSE
    BY <1>4
  <2>2. (c \in unattached)' = (c \in unattached) /\ (c \in dirs)' = (c \in dirs)
    BY <1>1, <1>2
  <2> QED
    BY <1>1, <2>1, <2>2 DEF DockerPromise!BreaksDown
<1> QED
  BY <1>2, <1>3, <1>4

\* createStorage and removeStorage.
LEMMA DirsArePromised ==
  ASSUME DockerInv, NEW b \in Box, dockerCall[b] \in DockerCalls, DirsChange(b)
  PROVE  DockerPromise(b)!Works
<1> USE DEF SamePower, SameFence, SameFiles, Fence
<1>1. GoesTo(b, "return") /\ UNCHANGED <<container, network, proxied, unattached>>
  BY DEF DirsChange
<1>2. \/ dockerCall[b] = "createStorage" /\ b \in dirs'
      \/ dockerCall[b] = "removeStorage" /\ b \notin dirs'
  BY DEF DirsChange, DockerInv, CallsAreAtTheirRequests, RequestsOf, DockerCalls
<1>3. DockerTypeOK /\ "return" \in Steps \ {"none"}
  BY DEF DockerInv, Steps
<1>4. /\ Call(b) = dockerCall[b] /\ Call(b)' \in {dockerCall[b], "throw", "return"}
      /\ Call(b)' = "return" /\ dockerAt'[b] = "return"
  BY <1>1, <1>3, GoesToIsPromised
<1> QED
  BY <1>1, <1>2, <1>4, WorksSuffices DEF DockerPromise!Kept

\* The requests of ensure touch neither a container that runs nor the storage, and it
\* goes on from the network only when the network is there.
LEMMA EnsureIsPromised ==
  ASSUME DockerInv, NEW b \in Box, dockerCall[b] \in DockerCalls,
         \/ NetworkIsLookedUp(b) \/ SubnetIsChosen(b) \/ PoolIsFull(b) \/ NetworkIsMade(b)
         \/ ProxyIsAttached(b) \/ ContainerIsInspected(b) \/ ContainerIsCompared(b)
         \/ ContainerIsCreated(b)
         \/ dockerAt[b] \in {"stopOld", "removeOld"} /\ (ContainerIsStopped(b) \/ ContainerIsRemoved(b))
  PROVE  DockerPromise(b)!Works
<1> USE DEF DockerInv, DockerTypeOK, SamePower, SameFence, SameFiles
<1>1. dockerCall[b] = "ensure"
  BY DEF CallsAreAtTheirRequests, RequestsOf, DockerCalls, NetworkIsLookedUp, SubnetIsChosen,
     PoolIsFull, NetworkIsMade, ProxyIsAttached, ProxyIsDetached, ContainerIsInspected, ContainerIsCompared,
     ContainerIsCreated
<1>2. dirs' = dirs
  BY DEF daemonVars, NetworkIsLookedUp, SubnetIsChosen, PoolIsFull, NetworkIsMade, ProxyIsAttached, ProxyIsDetached,
     ContainerIsInspected, ContainerIsCompared, ContainerIsCreated, ContainerIsStopped,
     ContainerIsRemoved
<1>3. SamePower(b)
  BY DEF daemonVars, NetworkIsLookedUp, SubnetIsChosen, PoolIsFull, NetworkIsMade, ProxyIsAttached, ProxyIsDetached,
     ContainerIsInspected, ContainerIsCompared, ContainerIsCreated, ContainerIsStopped,
     ContainerIsRemoved, ContainerIsDown, DownWhenNeeded, CountsOnDown
<1>4. SameFence(b) \/ Fence(b)'
  <2>1. CASE NetworkIsMade(b)
    <3>1. chosen[b] \in Subnet /\ NoSubnet \notin Subnet
      BY <2>1, PoolAssumption DEF NetworkIsMade, ChosenIsFree, NoSubnet, Subnet
    <3> QED
      BY <2>1, <3>1 DEF NetworkIsMade, Fence
  <2>2. CASE ProxyIsAttached(b)
    BY <2>2 DEF ProxyIsAttached, Fence
  <2>3. CASE ~NetworkIsMade(b) /\ ~ProxyIsAttached(b)
    BY <2>3 DEF daemonVars, NetworkIsLookedUp, SubnetIsChosen, PoolIsFull, ContainerIsInspected,
       ContainerIsCompared, ContainerIsCreated, ContainerIsStopped, ContainerIsRemoved, Fence
  <2> QED
    BY <2>1, <2>2, <2>3
<1>5. \E step \in Steps \ {"none"} :
        /\ GoesTo(b, step)
        /\ step \in {"inspect", "compare", "stopOld", "removeOld", "create", "return"} /\ b \notin unattached'
             => Repaired(b) \/ Fence(b)'
  <2> USE DEF Steps
  <2>1. CASE NetworkIsLookedUp(b) \/ SubnetIsChosen(b) \/ PoolIsFull(b)
    BY <2>1 DEF NetworkIsLookedUp, SubnetIsChosen, PoolIsFull
  <2>2. CASE NetworkIsMade(b)
    BY <2>2, DoneGoes DEF NetworkIsMade
  <2>3. CASE ProxyIsAttached(b)
    BY <2>3 DEF ProxyIsAttached, Fence
  <2>4. CASE ContainerIsInspected(b) \/ ContainerIsCompared(b)
    BY <2>4, StepGoesTo DEF ContainerIsInspected, ContainerIsCompared, Repaired
  <2>5. CASE ContainerIsCreated(b)
    BY <2>5, DoneGoes DEF ContainerIsCreated, Repaired
  <2>6. CASE dockerAt[b] \in {"stopOld", "removeOld"} /\ (ContainerIsStopped(b) \/ ContainerIsRemoved(b))
    BY <2>6, DoneGoes DEF ContainerIsStopped, ContainerIsRemoved, Repaired
  <2> QED
    BY <2>1, <2>2, <2>3, <2>4, <2>5, <2>6
<1>6. PICK step \in Steps \ {"none"} :
        /\ GoesTo(b, step)
        /\ step \in {"inspect", "compare", "stopOld", "removeOld", "create", "return"} /\ b \notin unattached'
             => Repaired(b) \/ Fence(b)'
  BY <1>5
<1>7. /\ Call(b) = "ensure" /\ Call(b)' \in {"ensure", "throw", "return"}
      /\ Call(b)' = "return" <=> step = "return"
      /\ dockerAt'[b] = step
  BY <1>1, <1>6, GoesToIsPromised
<1>8. Repaired(b)' => Repaired(b) \/ Fence(b)'
  BY <1>6, <1>7 DEF Repaired
<1>9. Call(b)' = "return" => DockerPromise(b)!Kept("ensure")'
  BY <1>7 DEF DockerPromise!Kept
<1>10. "ensure" \in DockerCalls
  BY DEF DockerCalls
<1> HIDE DEF DockerInv, DockerTypeOK, SameFence
<1> QED
  BY <1>2, <1>3, <1>4, <1>7, <1>8, <1>9, <1>10, WorksSuffices

\* A request of start, stop or remove, by what it does and where it leads.
LEMMA SwitchSuffices ==
  ASSUME DockerTypeOK, NEW b \in Box, NEW c \in DockerCalls \ {"ensure"}, dockerCall[b] = c,
         NEW step \in {"return", "throw", "removeContainer", "detach", "removeNetwork"}, GoesTo(b, step),
         SameFiles(b), unattached' = unattached,
         \/ c = "start" /\ SameFence(b)
         \/ c \in {"stop", "remove"} /\ container'[b] # "running" /\ SameFence(b)
         \/ c = "remove" /\ container[b] # "running" /\ ~Fence(b)' /\ SamePower(b)
         \/ c = "remove" /\ SamePower(b) /\ SameFence(b),
         step = "return" => DockerPromise(b)!Kept(c)'
  PROVE  DockerPromise(b)!Works
<1>1. step \in Steps \ {"none"} /\ dockerCall[b] \in DockerCalls
  BY DEF Steps
<1>2. /\ Call(b) = c /\ Call(b)' \in {c, "throw", "return"}
      /\ Call(b)' = "return" <=> step = "return"
  BY <1>1, GoesToIsPromised
<1> QED
  BY <1>2, WorksSuffices

\* start returns when the container is up.
LEMMA StartIsPromised ==
  ASSUME DockerInv, NEW b \in Box, dockerCall[b] \in DockerCalls, ContainerIsStarted(b)
  PROVE  DockerPromise(b)!Works
<1>1. DockerTypeOK /\ dockerCall[b] = "start" /\ "start" \in DockerCalls \ {"ensure"}
  BY DEF DockerInv, CallsAreAtTheirRequests, ContainerIsStarted, RequestsOf, DockerCalls
<1>2. SameFence(b) /\ SameFiles(b) /\ unattached' = unattached
  BY DEF ContainerIsStarted, SameFence, SameFiles, Fence
<1>3. GoesTo(b, "throw") \/ (GoesTo(b, "return") /\ container'[b] = "running")
  BY <1>1, DoneGoes DEF ContainerIsStarted, DockerTypeOK
<1>4. container'[b] = "running" => DockerPromise(b)!Kept("start")'
  BY DEF DockerPromise!Kept
<1> QED
  BY <1>1, <1>2, <1>3, <1>4, SwitchSuffices

\* stop and remove go on when the container is down.
LEMMA StopIsPromised ==
  ASSUME DockerInv, NEW b \in Box, dockerCall[b] \in DockerCalls,
         dockerAt[b] \notin {"stopOld", "removeOld"}, ContainerIsStopped(b) \/ ContainerIsRemoved(b)
  PROVE  DockerPromise(b)!Works
<1>1. DockerTypeOK /\ dockerCall[b] \in {"stop", "remove"} /\ {"stop", "remove"} \subseteq DockerCalls \ {"ensure"}
  BY DEF DockerInv, CallsAreAtTheirRequests, ContainerIsStopped, ContainerIsRemoved, RequestsOf, DockerCalls
<1>2. container'[b] # "running" /\ SameFence(b) /\ SameFiles(b) /\ unattached' = unattached
  BY <1>1 DEF ContainerIsStopped, ContainerIsRemoved, DockerTypeOK, SameFence, SameFiles, Fence
<1>3. \/ dockerCall[b] = "stop" /\ (GoesTo(b, "return") \/ GoesTo(b, "throw"))
      \/ GoesTo(b, "removeContainer") \/ GoesTo(b, "detach") \/ GoesTo(b, "throw")
  BY <1>1, DoneGoes DEF ContainerIsStopped, ContainerIsRemoved, DockerInv, CallsAreAtTheirRequests,
     RequestsOf
<1>4. DockerPromise(b)!Kept("stop")'
  BY <1>2 DEF DockerPromise!Kept
<1> QED
  BY <1>1, <1>2, <1>3, <1>4, SwitchSuffices

\* remove takes the proxy and the network when the container is down, and returns.
LEMMA RemovalIsPromised ==
  ASSUME DockerInv, NEW b \in Box, dockerCall[b] \in DockerCalls, ProxyIsDetached(b) \/ NetworkIsRemoved(b)
  PROVE  DockerPromise(b)!Works
<1>1. DockerTypeOK /\ dockerCall[b] = "remove" /\ "remove" \in DockerCalls \ {"ensure"}
  BY DEF DockerInv, CallsAreAtTheirRequests, ProxyIsDetached, NetworkIsRemoved, RequestsOf, DockerCalls
<1>2. /\ container[b] # "running" /\ container' = container /\ unattached' = unattached
      /\ ~Fence(b)' \/ SameFence(b)
  BY <1>1 DEF ProxyIsDetached, NetworkIsRemoved, DockerInv, ContainerIsDown, DownWhenNeeded,
     CountsOnDown, DockerTypeOK, Fence, SameFence
<1>3. SamePower(b) /\ SameFiles(b)
  BY <1>2 DEF ProxyIsDetached, NetworkIsRemoved, SamePower, SameFiles
<1>4. \/ GoesTo(b, "throw") \/ GoesTo(b, "removeNetwork")
      \/ GoesTo(b, "return") /\ network'[b] = NoSubnet
  BY <1>1, DoneGoes DEF ProxyIsDetached, NetworkIsRemoved, DockerTypeOK
<1>5. network'[b] = NoSubnet => DockerPromise(b)!Kept("remove")'
  BY <1>2 DEF DockerPromise!Kept
<1> QED
  BY <1>1, <1>2, <1>3, <1>4, <1>5, SwitchSuffices

\* A request that fails ends the call, and shows nothing else.
LEMMA FailureIsPromised ==
  ASSUME DockerInv, NEW b \in Box, DockerFails(b)
  PROVE  DockerPromise(b)!Works
<1>1. DockerTypeOK /\ "throw" \in Steps \ {"none"} /\ dockerCall[b] \in DockerCalls
  BY DEF DockerInv, DockerTypeOK, DockerFails, Steps
<1>2. GoesTo(b, "throw") /\ UNCHANGED daemonVars
  BY DEF DockerFails
<1>3. /\ Call(b) = dockerCall[b] /\ Call(b)' \in {dockerCall[b], "throw", "return"}
      /\ ~(Call(b)' = "return") /\ dockerAt'[b] = "throw"
  BY <1>1, <1>2, GoesToIsPromised
<1>4. ~Repaired(b)'
  BY <1>3 DEF Repaired
<1>5. SamePower(b) /\ SameFence(b) /\ SameFiles(b) /\ unattached' = unattached
  BY DEF DockerFails, daemonVars, SamePower, SameFence, SameFiles, Fence
<1> QED
  BY <1>1, <1>3, <1>4, <1>5, WorksSuffices

\* A step of a call is a step of the promise.
LEMMA StepIsPromised ==
  ASSUME DockerInv, NEW b \in Box,
         (\E c \in DockerCalls : DockerBegins(b, c)) \/ CallSteps(b) \/ HostChanges(b)
  PROVE  DockerPromise(b)!RuntimeNext
<1>1. CASE CallSteps(b)
  <2>1. dockerCall[b] \in DockerCalls
    <3>1. dockerAt[b] \in RequestsOf(dockerCall[b]) /\ dockerCall[b] \in DockerCalls \cup {"none"}
      BY DEF DockerInv, CallsAreAtTheirRequests, DockerTypeOK
    <3>2. dockerCall[b] # "none" \/ dockerAt[b] \notin {"none", "return", "throw"}
      BY <1>1 DEF CallSteps, NetworkSteps, ContainerSteps, DockerFails, DirsChange, NetworkIsLookedUp,
         SubnetIsChosen, PoolIsFull, NetworkIsMade, NetworkIsRemoved, ProxyIsAttached, ProxyIsDetached,
         ContainerIsInspected, ContainerIsCompared, ContainerIsStopped, ContainerIsRemoved,
         ContainerIsCreated, ContainerIsStarted
    <3> QED
      BY <3>1, <3>2 DEF RequestsOf
  <2>2. CASE DockerFails(b)
    BY <2>2, FailureIsPromised DEF DockerPromise!RuntimeNext
  <2>3. CASE DirsChange(b)
    BY <2>1, <2>3, DirsArePromised DEF DockerPromise!RuntimeNext
  <2>4. CASE ContainerIsStarted(b)
    BY <2>1, <2>4, StartIsPromised DEF DockerPromise!RuntimeNext
  <2>5. CASE ProxyIsDetached(b) \/ NetworkIsRemoved(b)
    BY <2>1, <2>5, RemovalIsPromised DEF DockerPromise!RuntimeNext
  <2>6. CASE ContainerIsStopped(b) \/ ContainerIsRemoved(b)
    <3>1. CASE dockerAt[b] \in {"stopOld", "removeOld"}
      BY <2>1, <2>6, <3>1, EnsureIsPromised DEF DockerPromise!RuntimeNext
    <3>2. CASE dockerAt[b] \notin {"stopOld", "removeOld"}
      BY <2>1, <2>6, <3>2, StopIsPromised DEF DockerPromise!RuntimeNext
    <3> QED
      BY <3>1, <3>2
  <2>7. CASE \/ NetworkIsLookedUp(b) \/ SubnetIsChosen(b) \/ PoolIsFull(b) \/ NetworkIsMade(b)
             \/ ProxyIsAttached(b) \/ ContainerIsInspected(b) \/ ContainerIsCompared(b)
             \/ ContainerIsCreated(b)
    BY <2>1, <2>7, EnsureIsPromised DEF DockerPromise!RuntimeNext
  <2> QED
    BY <1>1, <2>2, <2>3, <2>4, <2>5, <2>6, <2>7 DEF CallSteps, NetworkSteps, ContainerSteps
<1>2. CASE \E c \in DockerCalls : DockerBegins(b, c)
  BY <1>2, BeginsIsPromised DEF DockerPromise!RuntimeNext
<1>3. CASE HostChanges(b)
  BY <1>3, HostIsPromised DEF DockerPromise!RuntimeNext
<1> QED
  BY <1>1, <1>2, <1>3

\* The driver keeps the promise of the interface for each of its boxes, whatever calls
\* run on the others, whatever fails, and whatever happens on the host.
THEOREM DockerKeepsItsPromise == DockerSpec => DockerKeepsPromise
<1>1. DockerInit => \A b \in Box : DockerPromise(b)!RuntimeInit
  <2> SUFFICES ASSUME DockerInit, NEW b \in Box PROVE DockerPromise(b)!RuntimeInit
    OBVIOUS
  <2> QED
    BY DEF DockerInit, DockerPromise!RuntimeInit
<1>2. DockerInv => DockerTypeOK /\ NetworksAreApart
  BY DockerInvMeans
<1>3. DockerInv /\ [DockerNext]_dockerVars =>
        [\A b \in Box : [DockerPromise(b)!RuntimeNext]_(DockerPromise(b)!promiseVars)]_dockerVars
  <2> SUFFICES ASSUME DockerInv, DockerNext, NEW c \in Box
               PROVE  [DockerPromise(c)!RuntimeNext]_(DockerPromise(c)!promiseVars)
    OBVIOUS
  <2>1. PICK b \in Box : (\E d \in DockerCalls : DockerBegins(b, d)) \/ CallSteps(b) \/ HostChanges(b)
    BY DockerSteps
  <2>2. CASE b = c
    BY <2>1, <2>2, StepIsPromised
  <2>3. CASE b # c
    BY <2>1, <2>3, OthersAreSpared DEF DockerPromise!RuntimeNext
  <2> QED
    BY <2>2, <2>3
<1> QED
  BY <1>1, <1>2, <1>3, DockerInvariant, PTL DEF DockerSpec, DockerKeepsPromise

(***************************************************************************)
(* The output of a process.  What the connection still has to carry is the *)
(* rest of what the process wrote, in order, and then its end: so many     *)
(* pieces, and so many frames of the end.                                  *)
(***************************************************************************)

Frame == [what : {"piece", "end"}] \cup [what : {"status"}, code : {0, 1}]

Carried(w, pieces, ends, code) ==
  /\ w \in Seq(Frame) /\ Len(w) = pieces + ends
  /\ \A i \in 1..Len(w) :
       /\ i <= pieces => w[i].what = "piece"
       /\ pieces < i /\ i < Len(w) => w[i].what = "status" /\ w[i].code = code
       /\ pieces < i /\ i = Len(w) => w[i].what = "end"

\* The frames of the end that have not come yet.
EndFrames ==
  IF process # "ended" THEN 0
  ELSE IF runsOn = "kubernetes" /\ statusCode = NoCode THEN 2 ELSE 1

Connected == socket \in {"up", "closing"}
WireIsTrue == Connected => Carried(wire, wrote - arrived, EndFrames, processCode)

ExecNumbers ==
  /\ wrote \in Nat /\ arrived \in Nat /\ kept \in Nat
  /\ statusCode \in {NoCode, 0, 1} /\ processCode \in {NoCode, 0, 1}

\* What the connection has been through.
SocketIsTrue ==
  /\ execCall \in {"none", "asked"} => process = "none" /\ wrote = 0
  /\ execCall \in {"none", "asked", "refused"} <=> socket = "none"
  /\ socket = "none" => arrived = 0 /\ wire = <<>> /\ ~cut
  /\ socket # "none" => process # "none"
  /\ socket = "closing" => cut
  /\ socket = "closed" <=> finished
  /\ finished /\ ~cut => process = "ended" /\ arrived = wrote
  /\ ~finished => exited = Pending

CodesAreTrue ==
  /\ process = "ended" => processCode # NoCode
  /\ process # "ended" => statusCode = NoCode
  /\ statusCode # NoCode => statusCode = processCode /\ arrived = wrote
  /\ exited \in {0, 1} => process = "ended" /\ exited = processCode
  /\ exited # Pending /\ runsOn = "kubernetes" => exited = statusCode

KeptIsTrue ==
  /\ execWay = "run" => kept = (IF arrived <= KeptPieces THEN arrived ELSE KeptPieces)
  /\ execCall = "returned" => execWay = "run" /\ exited # Pending

ExecsInv == ExecsTypeOK /\ ExecNumbers /\ WireIsTrue /\ SocketIsTrue /\ CodesAreTrue /\ KeptIsTrue

(***************************************************************************)
(* What the connection carries.                                            *)
(***************************************************************************)

LEMMA PieceIsCarried ==
  ASSUME NEW w, NEW n \in Nat, NEW c, NEW d, Carried(w, n, 0, c)
  PROVE  Carried(w \o <<[what |-> "piece"]>>, n + 1, 0, d)
<1> DEFINE v == w \o <<[what |-> "piece"]>>
<1>1. w \in Seq(Frame) /\ Len(w) = n /\ <<[what |-> "piece"]>> \in Seq(Frame)
  BY DEF Carried, Frame
<1>2. v \in Seq(Frame) /\ Len(v) = n + 1
  BY <1>1, ConcatProperties
<1>3. ASSUME NEW i \in 1..Len(v) PROVE v[i].what = "piece"
  <2>1. v[i] = IF i <= n THEN w[i] ELSE [what |-> "piece"]
    BY <1>1, <1>2
  <2>2. i <= n => w[i].what = "piece"
    BY <1>1, <1>2 DEF Carried
  <2> QED
    BY <2>1, <2>2
<1> HIDE DEF v
<1>4. Carried(v, n + 1, 0, d)
  BY <1>2, <1>3 DEF Carried
<1> QED
  BY <1>4 DEF v

LEMMA EndIsCarried ==
  ASSUME NEW w, NEW n \in Nat, NEW c, NEW code \in {0, 1}, Carried(w, n, 0, c)
  PROVE  /\ Carried(w \o <<[what |-> "end"]>>, n, 1, code)
         /\ Carried(w \o <<[what |-> "status", code |-> code], [what |-> "end"]>>, n, 2, code)
<1> DEFINE short == <<[what |-> "end"]>>
           long == <<[what |-> "status", code |-> code], [what |-> "end"]>>
<1>1. /\ w \in Seq(Frame) /\ Len(w) = n /\ \A i \in 1..n : w[i].what = "piece"
      /\ short \in Seq(Frame) /\ Len(short) = 1 /\ long \in Seq(Frame) /\ Len(long) = 2
  BY DEF Carried, Frame
<1>2. /\ w \o short \in Seq(Frame) /\ Len(w \o short) = n + 1
      /\ w \o long \in Seq(Frame) /\ Len(w \o long) = n + 2
  BY <1>1, ConcatProperties
<1>3. /\ \A i \in 1..n : (w \o short)[i] = w[i] /\ (w \o long)[i] = w[i]
      /\ (w \o short)[n + 1] = short[1] /\ (w \o long)[n + 1] = long[1] /\ (w \o long)[n + 2] = long[2]
  BY <1>1
<1>4. short[1].what = "end" /\ long[1].what = "status" /\ long[1].code = code /\ long[2].what = "end"
  OBVIOUS
<1> HIDE DEF short, long
<1>5. Carried(w \o short, n, 1, code)
  <2>1. ASSUME NEW i \in 1..(n + 1) PROVE i \in 1..n \/ i = n + 1
    OBVIOUS
  <2> QED
    BY <1>1, <1>2, <1>3, <1>4, <2>1 DEF Carried
<1>6. Carried(w \o long, n, 2, code)
  <2>1. ASSUME NEW i \in 1..(n + 2) PROVE i \in 1..n \/ i = n + 1 \/ i = n + 2
    OBVIOUS
  <2> QED
    BY <1>1, <1>2, <1>3, <1>4, <2>1 DEF Carried
<1> QED
  BY <1>5, <1>6 DEF short, long

\* The first frame, and what is left after it.
LEMMA FrameIsTaken ==
  ASSUME NEW w, NEW n \in Nat, NEW e \in 0..2, NEW c, Carried(w, n, e, c), w # <<>>
  PROVE  /\ Head(w).what = "piece" => n > 0 /\ Carried(Tail(w), n - 1, e, c)
         /\ Head(w).what = "status" => n = 0 /\ e = 2 /\ Head(w).code = c /\ Carried(Tail(w), 0, 1, c)
         /\ Head(w).what \in {"piece", "status", "end"}
         /\ Head(w).what = "end" => n = 0 /\ e = 1
<1>1. w \in Seq(Frame) /\ Len(w) = n + e
  BY DEF Carried
<1>2. /\ Len(w) \in Nat \ {0} /\ Head(w) = w[1]
      /\ Tail(w) \in Seq(Frame) /\ Len(Tail(w)) = Len(w) - 1
      /\ \A i \in 1..Len(Tail(w)) : Tail(w)[i] = w[i + 1]
  BY <1>1, HeadTailProperties
<1>3. ASSUME NEW i \in 1..Len(w)
      PROVE  /\ i <= n => w[i].what = "piece"
             /\ n < i /\ i < Len(w) => w[i].what = "status" /\ w[i].code = c
             /\ n < i /\ i = Len(w) => w[i].what = "end"
  BY DEF Carried
<1>4. CASE n > 0
  <2>0. 1 \in 1..Len(w) /\ 1 <= n
    BY <1>2, <1>4
  <2>1. Head(w).what = "piece"
    BY <1>2, <1>3, <2>0
  <2>2. ASSUME NEW i \in 1..Len(Tail(w))
        PROVE  /\ i <= n - 1 => Tail(w)[i].what = "piece"
               /\ n - 1 < i /\ i < Len(Tail(w)) => Tail(w)[i].what = "status" /\ Tail(w)[i].code = c
               /\ n - 1 < i /\ i = Len(Tail(w)) => Tail(w)[i].what = "end"
    <3>1. PICK k \in 1..Len(w) : k = i + 1 /\ Tail(w)[i] = w[k]
      BY <1>2
    <3>2. i \in Int /\ k \in Int /\ n \in Int /\ Len(w) \in Int
      BY <1>2
    <3> DEFINE l == Len(w)
               m == Len(Tail(w))
    <3>4. m = l - 1
      BY <1>2
    <3> HIDE DEF l, m
    <3>5. i <= n - 1 => k <= n
      BY <3>1, <3>2
    <3>6. n - 1 < i => n < k
      BY <3>1, <3>2
    <3>7. (i < m => k < l) /\ (i = m => k = l)
      BY <3>1, <3>2, <3>4 DEF l
    <3>3. /\ k <= n => w[k].what = "piece"
          /\ n < k /\ k < Len(w) => w[k].what = "status" /\ w[k].code = c
          /\ n < k /\ k = Len(w) => w[k].what = "end"
      BY <1>3
    <3> QED
      BY <3>1, <3>3, <3>5, <3>6, <3>7, Zenon DEF l, m
  <2>3. Carried(Tail(w), n - 1, e, c)
    BY <1>1, <1>2, <2>2 DEF Carried
  <2> QED
    BY <2>1, <2>3, <1>4
<1>5. CASE n = 0 /\ e = 1
  <2>1. Head(w).what = "end"
    BY <1>1, <1>2, <1>3, <1>5
  <2> QED
    BY <2>1, <1>5
<1>6. CASE n = 0 /\ e = 2
  <2>1. Head(w).what = "status" /\ Head(w).code = c
    BY <1>1, <1>2, <1>3, <1>6
  <2>2. Len(Tail(w)) = 1 /\ Tail(w)[1] = w[2] /\ 2 \in 1..Len(w) /\ Len(w) = 2
    BY <1>1, <1>2, <1>6
  <2>3. Tail(w)[1].what = "end"
    BY <2>2, <1>3, <1>6
  <2>4. Carried(Tail(w), 0, 1, c)
    BY <1>2, <2>2, <2>3 DEF Carried
  <2> QED
    BY <2>1, <2>4, <1>6
<1>7. n + e > 0
  BY <1>1, <1>2
<1> QED
  BY <1>4, <1>5, <1>6, <1>7

(***************************************************************************)
(* One step.                                                               *)
(***************************************************************************)

\* The wire for a process whose end has k frames.
LEMMA PieceIsSent ==
  ASSUME ExecsInv, process = "runs"
  PROVE  /\ Connected => Carried(Sent(<<[what |-> "piece"]>>), wrote + 1 - arrived, 0, processCode)
         /\ ~Connected => Sent(<<[what |-> "piece"]>>) = wire
<1>1. wrote \in Nat /\ arrived \in Nat /\ arrived <= wrote /\ wrote - arrived \in Nat
  BY DEF ExecsInv, ExecNumbers, ExecsTypeOK
<1>2. Connected => Carried(wire, wrote - arrived, 0, processCode)
  BY DEF ExecsInv, WireIsTrue, EndFrames
<1>3. ~Connected => Sent(<<[what |-> "piece"]>>) = wire
  BY DEF Sent, Connected
<1>4. CASE Connected
  <2>1. Carried(wire \o <<[what |-> "piece"]>>, (wrote - arrived) + 1, 0, processCode)
    BY <1>1, <1>2, <1>4, PieceIsCarried
  <2>2. (wrote - arrived) + 1 = wrote + 1 - arrived
    BY <1>1
  <2>3. Sent(<<[what |-> "piece"]>>) = wire \o <<[what |-> "piece"]>>
    BY <1>4 DEF Sent, Connected
  <2> QED
    BY <1>4, <2>1, <2>2, <2>3
<1> QED
  BY <1>3, <1>4

LEMMA EndIsSent ==
  ASSUME ExecsInv, process = "runs", NEW code \in {0, 1}
  PROVE  /\ Connected => Carried(Sent(EndOf(code)), wrote - arrived, IF runsOn = "kubernetes" THEN 2 ELSE 1, code)
         /\ ~Connected => Sent(EndOf(code)) = wire
<1>1. wrote \in Nat /\ arrived \in Nat /\ arrived <= wrote /\ wrote - arrived \in Nat
  BY DEF ExecsInv, ExecNumbers, ExecsTypeOK
<1>2. Connected => Carried(wire, wrote - arrived, 0, processCode)
  BY DEF ExecsInv, WireIsTrue, EndFrames
<1>3. ~Connected => Sent(EndOf(code)) = wire
  BY DEF Sent, Connected
<1>4. CASE Connected
  <2>3. Carried(wire \o EndOf(code), wrote - arrived, IF runsOn = "kubernetes" THEN 2 ELSE 1, code)
    BY <1>1, <1>2, <1>4, EndIsCarried DEF EndOf
  <2>4. Sent(EndOf(code)) = wire \o EndOf(code)
    BY <1>4 DEF Sent, Connected
  <2> QED
    BY <1>4, <2>3, <2>4
<1> QED
  BY <1>3, <1>4

LEMMA ExecsInitInv == ExecsInit => ExecsInv
<1> SUFFICES ASSUME ExecsInit PROVE ExecsInv
  OBVIOUS
<1> USE DEF ExecsInit, NoCode, Pending
<1>1. ExecsTypeOK
  <2>1. finished \in BOOLEAN /\ cut \in BOOLEAN
    OBVIOUS
  <2>2. kept <= arrived /\ arrived <= wrote
    OBVIOUS
  <2> QED
    BY <2>1, <2>2 DEF ExecsTypeOK
<1>3. ExecNumbers
  BY DEF ExecNumbers
<1>2. WireIsTrue /\ SocketIsTrue /\ CodesAreTrue /\ KeptIsTrue
  BY DEF WireIsTrue, Connected, SocketIsTrue, CodesAreTrue, KeptIsTrue
<1> QED
  BY <1>1, <1>2, <1>3 DEF ExecsInv

\* The call begins, and returns.
LEMMA CallStepsKeepExecs ==
  ASSUME ExecsInv, (\E w \in {"run", "spawn"} : ExecIsAsked(w)) \/ ExecOpens \/ ExecIsRefused \/ RunReturns
  PROVE  ExecsInv'
<1> USE ExecsAssumption DEF ExecsInv, NoCode, Pending
<1>1. ExecsTypeOK'
  BY DEF ExecsTypeOK, ExecIsAsked, ExecOpens, ExecIsRefused, RunReturns
<1>2. ExecNumbers'
  BY DEF ExecNumbers, ExecIsAsked, ExecOpens, ExecIsRefused, RunReturns
<1>3. WireIsTrue'
  <2>1. CASE ExecOpens
    <3>1. wire' = <<>> /\ wrote' = 0 /\ arrived' = 0 /\ process' = "runs"
      BY <2>1 DEF ExecOpens, SocketIsTrue
    <3>2. Carried(<<>>, 0, 0, processCode')
      BY DEF Carried
    <3>3. EndFrames' = 0 /\ wrote' - arrived' = 0
      BY <3>1 DEF EndFrames
    <3> QED
      BY <3>1, <3>2, <3>3 DEF WireIsTrue
  <2>2. CASE (\E w \in {"run", "spawn"} : ExecIsAsked(w)) \/ ExecIsRefused
    BY <2>2 DEF ExecIsAsked, ExecIsRefused, SocketIsTrue, WireIsTrue, Connected
  <2>3. CASE RunReturns
    BY <2>3 DEF RunReturns, SocketIsTrue, WireIsTrue, Connected
  <2> QED
    BY <2>1, <2>2, <2>3
<1>4. SocketIsTrue'
  BY DEF SocketIsTrue, ExecsTypeOK, ExecIsAsked, ExecOpens, ExecIsRefused, RunReturns
<1>5. CodesAreTrue'
  BY DEF CodesAreTrue, SocketIsTrue, ExecIsAsked, ExecOpens, ExecIsRefused, RunReturns
<1>6. KeptIsTrue'
  <2>1. execCall = "none" => arrived = 0 /\ kept = 0
    BY DEF SocketIsTrue, ExecsTypeOK, ExecNumbers
  <2> QED
    BY <2>1 DEF KeptIsTrue, ExecIsAsked, ExecOpens, ExecIsRefused, RunReturns, ExecNumbers
<1> QED
  BY <1>1, <1>2, <1>3, <1>4, <1>5, <1>6

\* The process writes.
LEMMA WriteKeepsExecs ==
  ASSUME ExecsInv, ProcessWrites
  PROVE  ExecsInv'
<1> USE DEF ExecsInv, ProcessWrites, NoCode, Pending
<1>1. ExecsTypeOK' /\ ExecNumbers'
  BY DEF ExecsTypeOK, ExecNumbers
<1>2. WireIsTrue'
  <2>1. EndFrames' = 0
    BY DEF EndFrames
  <2>2. Connected' => Connected
    BY DEF Connected
  <2>3. /\ wire' = Sent(<<[what |-> "piece"]>>) /\ processCode' = processCode
        /\ wrote' - arrived' = wrote + 1 - arrived
    BY DEF ExecNumbers
  <2> HIDE DEF ExecsInv, ProcessWrites
  <2>4. Connected => Carried(wire', wrote' - arrived', 0, processCode')
    BY <2>3, PieceIsSent DEF ProcessWrites
  <2> QED
    BY <2>1, <2>2, <2>4 DEF WireIsTrue
<1>3. SocketIsTrue'
  BY PieceIsSent DEF SocketIsTrue, Connected
<1>4. CodesAreTrue' /\ KeptIsTrue'
  BY DEF CodesAreTrue, KeptIsTrue
<1> QED
  BY <1>1, <1>2, <1>3, <1>4

\* The process ends, by itself or with its container.
LEMMA EndKeepsExecs ==
  ASSUME ExecsInv, process = "runs", process' = "ended", NEW code \in {0, 1}, processCode' = code,
         wire' = Sent(EndOf(code)), boxIs' \in {"up", "down", "gone"},
         UNCHANGED <<runsOn, execWay, execCall, wrote, socket, arrived, kept, statusCode, finished, exited, cut>>
  PROVE  ExecsInv'
<1> USE DEF ExecsInv, NoCode, Pending
<1>1. ExecsTypeOK' /\ ExecNumbers'
  BY DEF ExecsTypeOK, ExecNumbers
<1>2. WireIsTrue'
  <2>1. EndFrames' = IF runsOn = "kubernetes" THEN 2 ELSE 1
    BY DEF EndFrames, CodesAreTrue
  <2>2. Connected' <=> Connected
    BY DEF Connected
  <2>3. Connected => Carried(wire', wrote' - arrived', IF runsOn = "kubernetes" THEN 2 ELSE 1, processCode')
    BY EndIsSent
  <2> QED
    BY <2>1, <2>2, <2>3 DEF WireIsTrue
<1>3. SocketIsTrue'
  BY EndIsSent DEF SocketIsTrue, Connected
<1>4. CodesAreTrue' /\ KeptIsTrue'
  BY DEF CodesAreTrue, KeptIsTrue
<1> QED
  BY <1>1, <1>2, <1>3, <1>4

LEMMA ContainerGoesKeepsExecs ==
  ASSUME ExecsInv, NEW to \in {"down", "gone"}, ContainerGoes(to)
  PROVE  ExecsInv'
<1>1. CASE process = "runs"
  BY <1>1, EndKeepsExecs DEF ContainerGoes
<1>2. CASE process # "runs"
  BY <1>2 DEF ContainerGoes, ExecsInv, ExecsTypeOK, ExecNumbers, WireIsTrue, SocketIsTrue, CodesAreTrue,
     KeptIsTrue, Connected, EndFrames
<1> QED
  BY <1>1, <1>2

\* A piece arrives.
LEMMA PieceKeepsExecs ==
  ASSUME ExecsInv, FrameArrives, Head(wire).what = "piece"
  PROVE  ExecsInv'
<1> USE DEF ExecsInv, NoCode, Pending
<1>1. /\ Connected /\ wire # <<>> /\ arrived' = arrived + 1 /\ wire' = Tail(wire)
      /\ kept' = (IF execWay = "run" /\ kept = KeptPieces THEN kept ELSE kept + 1)
      /\ UNCHANGED <<runsOn, execWay, execCall, boxIs, process, processCode, wrote, cut,
                     statusCode, socket, finished, exited>>
  BY DEF FrameArrives, Connected
<1>2. Carried(wire, wrote - arrived, EndFrames, processCode) /\ EndFrames \in 0..2
  BY <1>1 DEF WireIsTrue, EndFrames
<1>3. wrote \in Nat /\ arrived \in Nat /\ kept \in Nat /\ kept <= arrived /\ wrote - arrived \in Nat
  BY DEF ExecNumbers, ExecsTypeOK
<1>4. wrote - arrived > 0 /\ Carried(Tail(wire), wrote - arrived - 1, EndFrames, processCode)
  BY <1>1, <1>2, <1>3, FrameIsTaken
<1>5. ExecsTypeOK' /\ ExecNumbers'
  BY <1>1, <1>3, <1>4 DEF ExecsTypeOK, ExecNumbers
<1>6. WireIsTrue'
  <2>1. EndFrames' = EndFrames /\ wrote' - arrived' = wrote - arrived - 1
    BY <1>1, <1>3 DEF EndFrames
  <2> QED
    BY <1>1, <1>4, <2>1 DEF WireIsTrue
<1>7. SocketIsTrue' /\ CodesAreTrue'
  BY <1>1, <1>3, <1>4 DEF SocketIsTrue, CodesAreTrue, Connected
<1>8. KeptIsTrue'
  BY <1>1, <1>3, ExecsAssumption DEF KeptIsTrue
<1> QED
  BY <1>5, <1>6, <1>7, <1>8

\* The code arrives, which is the last but one.
LEMMA StatusKeepsExecs ==
  ASSUME ExecsInv, FrameArrives, Head(wire).what = "status"
  PROVE  ExecsInv'
<1> USE DEF ExecsInv, NoCode, Pending
<1>1. /\ Connected /\ wire # <<>> /\ statusCode' = Head(wire).code /\ wire' = Tail(wire)
      /\ UNCHANGED <<runsOn, execWay, execCall, boxIs, process, processCode, wrote, cut,
                     arrived, kept, socket, finished, exited>>
  BY DEF FrameArrives, Connected
<1>2. Carried(wire, wrote - arrived, EndFrames, processCode) /\ EndFrames \in 0..2
  BY <1>1 DEF WireIsTrue, EndFrames
<1>3. wrote \in Nat /\ arrived \in Nat /\ wrote - arrived \in Nat
  BY DEF ExecNumbers, ExecsTypeOK
<1>4. /\ wrote - arrived = 0 /\ EndFrames = 2 /\ Head(wire).code = processCode
      /\ Carried(Tail(wire), 0, 1, processCode)
  BY <1>1, <1>2, <1>3, FrameIsTaken
<1>5. /\ process = "ended" /\ runsOn = "kubernetes" /\ processCode \in {0, 1}
      /\ arrived = wrote /\ statusCode' = processCode
  BY <1>1, <1>3, <1>4 DEF EndFrames, CodesAreTrue, ExecNumbers
<1>6. ExecsTypeOK' /\ ExecNumbers'
  BY <1>1, <1>5 DEF ExecsTypeOK, ExecNumbers
<1>7. WireIsTrue'
  <2>1. EndFrames' = 1 /\ wrote' - arrived' = 0
    BY <1>1, <1>3, <1>5 DEF EndFrames
  <2> QED
    BY <1>1, <1>4, <2>1 DEF WireIsTrue
<1>8. SocketIsTrue' /\ KeptIsTrue'
  BY <1>1 DEF SocketIsTrue, KeptIsTrue, Connected
<1>9. CodesAreTrue'
  BY <1>1, <1>5 DEF CodesAreTrue, SocketIsTrue, Connected
<1> QED
  BY <1>6, <1>7, <1>8, <1>9

\* The connection is closed: its end arrived, it broke, or the process was killed.
LEMMA FinishKeepsExecs ==
  ASSUME ExecsInv, Connected, Finish(statusCode), cut' \in BOOLEAN,
         ~cut' => process = "ended" /\ arrived = wrote,
         UNCHANGED <<runsOn, execWay, execCall, boxIs, process, processCode, wrote, arrived, kept, statusCode>>
  PROVE  ExecsInv'
<1> USE DEF ExecsInv, Finish, NoCode, Pending
<1>1. ExecsTypeOK' /\ ExecNumbers'
  BY DEF ExecsTypeOK, ExecNumbers
<1>2. WireIsTrue' /\ KeptIsTrue'
  BY DEF WireIsTrue, Connected, KeptIsTrue, SocketIsTrue
<1>3. SocketIsTrue'
  BY DEF SocketIsTrue, Connected
<1>4. CodesAreTrue'
  BY DEF CodesAreTrue, ExecNumbers, ExecsTypeOK
<1> QED
  BY <1>1, <1>2, <1>3, <1>4

LEMMA FrameKeepsExecs ==
  ASSUME ExecsInv, FrameArrives
  PROVE  ExecsInv'
<1>1. Connected /\ wire # <<>>
  BY DEF FrameArrives, Connected
<1>2. Carried(wire, wrote - arrived, EndFrames, processCode) /\ EndFrames \in 0..2
  BY <1>1 DEF ExecsInv, WireIsTrue, EndFrames
<1>3. wrote \in Nat /\ arrived \in Nat /\ wrote - arrived \in Nat
  BY DEF ExecsInv, ExecNumbers, ExecsTypeOK
<1>4. CASE Head(wire).what = "end"
  <2>1. wrote - arrived = 0 /\ EndFrames = 1
    BY <1>1, <1>2, <1>3, <1>4, FrameIsTaken
  <2>2. arrived = wrote /\ process = "ended"
    BY <2>1, <1>3 DEF EndFrames
  <2>3. /\ Finish(statusCode)
        /\ UNCHANGED <<runsOn, execWay, execCall, boxIs, process, processCode, wrote, cut, arrived, kept, statusCode>>
    BY <1>4 DEF FrameArrives
  <2>4. cut' \in BOOLEAN
    BY <2>3 DEF ExecsInv, ExecsTypeOK
  <2> QED
    BY <1>1, <2>2, <2>3, <2>4, FinishKeepsExecs
<1>5. Head(wire).what \in {"piece", "status", "end"}
  BY <1>1, <1>2, <1>3, FrameIsTaken
<1> QED
  BY <1>4, <1>5, PieceKeepsExecs, StatusKeepsExecs

LEMMA LossKeepsExecs ==
  ASSUME ExecsInv, ConnectionIsLost \/ ProcessIsKilled
  PROVE  ExecsInv'
<1>1. CASE ConnectionIsLost \/ (ProcessIsKilled /\ runsOn = "docker")
  <2>1. /\ Connected /\ Finish(statusCode) /\ cut' = TRUE
        /\ UNCHANGED <<runsOn, execWay, execCall, boxIs, process, processCode, wrote, arrived, kept, statusCode>>
    BY <1>1 DEF ConnectionIsLost, ProcessIsKilled, Connected
  <2> QED
    BY <2>1, FinishKeepsExecs
<1>2. CASE ProcessIsKilled /\ runsOn # "docker"
  <2>1. /\ socket = "up" /\ socket' = "closing" /\ cut' = TRUE
        /\ UNCHANGED <<runsOn, execWay, execCall, boxIs, process, processCode, wrote, arrived, kept, statusCode,
                       wire, finished, exited>>
    BY <1>2 DEF ProcessIsKilled
  <2>2. ExecsTypeOK' /\ ExecNumbers' /\ CodesAreTrue' /\ KeptIsTrue'
    BY <2>1 DEF ExecsInv, ExecsTypeOK, ExecNumbers, CodesAreTrue, KeptIsTrue
  <2>3. WireIsTrue' /\ SocketIsTrue'
    BY <2>1 DEF ExecsInv, WireIsTrue, Connected, EndFrames, SocketIsTrue
  <2> QED
    BY <2>2, <2>3 DEF ExecsInv
<1> QED
  BY <1>1, <1>2

LEMMA InspectKeepsExecs ==
  ASSUME ExecsInv, DockerIsAsked
  PROVE  ExecsInv'
<1> USE DEF ExecsInv, DockerIsAsked, NoCode, Pending
<1>1. exited' \in {0, 1, NoCode} /\ (exited' # NoCode => process = "ended" /\ exited' = processCode)
  BY DEF InspectedCode, ExecNumbers, CodesAreTrue
<1>2. ExecsTypeOK' /\ ExecNumbers'
  BY <1>1 DEF ExecsTypeOK, ExecNumbers
<1>3. WireIsTrue' /\ SocketIsTrue'
  BY DEF WireIsTrue, Connected, EndFrames, SocketIsTrue
<1>4. CodesAreTrue' /\ KeptIsTrue'
  BY <1>1 DEF CodesAreTrue, KeptIsTrue
<1> QED
  BY <1>2, <1>3, <1>4

LEMMA ExecsStep == ExecsInv /\ [ExecsNext]_execVars => ExecsInv'
<1> SUFFICES ASSUME ExecsInv, [ExecsNext]_execVars PROVE ExecsInv'
  OBVIOUS
<1>1. CASE UNCHANGED execVars
  BY <1>1 DEF execVars, ExecsInv, ExecsTypeOK, ExecNumbers, WireIsTrue, SocketIsTrue, CodesAreTrue,
     KeptIsTrue, Connected, EndFrames
<1>2. CASE (\E w \in {"run", "spawn"} : ExecIsAsked(w)) \/ ExecOpens \/ ExecIsRefused \/ RunReturns
  BY <1>2, CallStepsKeepExecs
<1>3. CASE ProcessWrites
  BY <1>3, WriteKeepsExecs
<1>4. ASSUME NEW c \in {0, 1}, ProcessEnds(c) PROVE ExecsInv'
  <2>1. boxIs' \in {"up", "down", "gone"}
    BY <1>4 DEF ProcessEnds, ExecsInv, ExecsTypeOK
  <2> QED
    BY <1>4, <2>1, EndKeepsExecs DEF ProcessEnds
<1>5. ASSUME NEW to \in {"down", "gone"}, ContainerGoes(to) PROVE ExecsInv'
  BY <1>5, ContainerGoesKeepsExecs
<1>6. CASE FrameArrives
  BY <1>6, FrameKeepsExecs
<1>7. CASE ConnectionIsLost \/ ProcessIsKilled
  BY <1>7, LossKeepsExecs
<1>8. CASE DockerIsAsked
  BY <1>8, InspectKeepsExecs
<1> QED
  BY <1>1, <1>2, <1>3, <1>4, <1>5, <1>6, <1>7, <1>8 DEF ExecsNext

LEMMA ExecsInvTells == ExecsInv => ExecsAreTold
<1> SUFFICES ASSUME ExecsInv PROVE ExecsAreTold
  OBVIOUS
<1> USE DEF ExecsInv, NoCode, Pending
<1>1. CodeIsTrue
  BY DEF CodeIsTrue, CodesAreTrue
<1>2. CodeMeansWhole
  <2> SUFFICES ASSUME execCall = "returned", exited # NoCode, ~(runsOn = "docker" /\ cut)
               PROVE  arrived = wrote /\ kept = (IF wrote <= KeptPieces THEN wrote ELSE KeptPieces)
    BY DEF CodeMeansWhole
  <2>1. execWay = "run" /\ exited \in {0, 1}
    BY DEF KeptIsTrue, ExecsTypeOK
  <2>2. finished
    BY <2>1 DEF SocketIsTrue
  <2>3. arrived = wrote
    <3>1. CASE runsOn = "kubernetes"
      BY <3>1, <2>1 DEF CodesAreTrue
    <3>2. CASE runsOn = "docker"
      BY <3>2, <2>2 DEF SocketIsTrue
    <3> QED
      BY <3>1, <3>2 DEF ExecsTypeOK
  <2> QED
    BY <2>1, <2>3 DEF KeptIsTrue
<1> QED
  BY <1>1, <1>2 DEF ExecsAreTold

\* A caller that gets the code of a process in a box gets the code that the process ended
\* with, and with it the whole output up to its limit, however the process, its container
\* and the connection fare (execInContainer, spawnExec and the exec of Kubernetes).
THEOREM ExecsAreAlwaysTold == ExecsSpec => []ExecsAreTold
  BY ExecsInitInv, ExecsStep, ExecsInvTells, PTL DEF ExecsSpec

(***************************************************************************)
(* The containers of the logins.  One that is needed is younger than its   *)
(* login, and the sweep finds only older ones.                             *)
(***************************************************************************)

Early == {"none", "read", "policy", "create"}
Fenced == {"create", "start", "up", "remove"}

\* The steps of one login, in its own words.
LoginSteps(l) ==
  \/ LoginBegins(l) \/ PolicyIsRead(l) \/ PolicyIsMade(l)
  \/ LoginBoxIsMade(l) \/ CreateIsLost(l) \/ LoginBoxRuns(l) \/ LoginBoxDoesNotRun(l)
  \/ LoginEnds(l) \/ LoginBoxIsRemoved(l)

LEMMA LoginTypesStay ==
  ASSUME LoginBoxesTypeOK, [LoginBoxesNext]_loginBoxVars
  PROVE  LoginBoxesTypeOK'
<1> USE DEF LoginBoxesTypeOK, LoginGoesTo, OutOfTime
<1>1. CASE UNCHANGED loginBoxVars
  BY <1>1 DEF loginBoxVars
<1>2. CASE FiveMinutesPass
  <2>1. waited' \in [LoginRun -> 0..2]
    BY <1>2 DEF FiveMinutesPass
  <2>2. boxAge' \in [LoginRun -> 0..3]
    BY <1>2 DEF FiveMinutesPass
  <2> QED
    BY <1>2, <2>1, <2>2 DEF FiveMinutesPass
<1>3. CASE ManagerIsLost
  BY <1>3 DEF ManagerIsLost
<1>4. CASE SweepFindsLogins
  BY <1>4 DEF SweepFindsLogins
<1>5. ASSUME NEW l \in LoginRun, SweepRemovesLogin(l) PROVE LoginBoxesTypeOK'
  BY <1>5 DEF SweepRemovesLogin
<1>6. ASSUME NEW l \in LoginRun, LoginBegins(l) \/ PolicyIsRead(l) \/ PolicyIsMade(l) PROVE LoginBoxesTypeOK'
  BY <1>6 DEF LoginBegins, PolicyIsRead, PolicyIsMade
<1>7. ASSUME NEW l \in LoginRun, LoginBoxIsMade(l) \/ CreateIsLost(l) PROVE LoginBoxesTypeOK'
  BY <1>7 DEF LoginBoxIsMade, CreateIsLost
<1>8. ASSUME NEW l \in LoginRun, LoginBoxRuns(l) \/ LoginBoxDoesNotRun(l) PROVE LoginBoxesTypeOK'
  BY <1>8 DEF LoginBoxRuns, LoginBoxDoesNotRun
<1>9. ASSUME NEW l \in LoginRun, LoginEnds(l) \/ LoginBoxIsRemoved(l) PROVE LoginBoxesTypeOK'
  BY <1>9 DEF LoginEnds, LoginBoxIsRemoved, Active
<1> QED
  BY <1>1, <1>2, <1>3, <1>4, <1>5, <1>6, <1>7, <1>8, <1>9 DEF LoginBoxesNext

\* What is true of each login.
LoginIsFit(l) ==
  /\ loginAt[l] \in Early => loginBox[l] = "none" /\ boxAge[l] = 0
  /\ loginAt[l] \notin {"none", "over"} /\ l \notin givenUp => boxAge[l] <= waited[l]
  /\ loginAt[l] = "up" /\ l \notin givenUp => loginBox[l] = "runs"
  /\ loginAt[l] = "start" /\ l \notin givenUp => loginBox[l] # "none"
  /\ loginAt[l] = "over" /\ loginBox[l] # "none" => l \in left
  /\ l \in toSweep => boxAge[l] >= 3
  /\ platform = "kubernetes" /\ (loginAt[l] \in Fenced \/ loginBox[l] # "none") => loginPolicy
  /\ loginFaults = 0 /\ loginAt[l] = "remove" => l \in givenUp
  /\ loginFaults = 0 /\ loginAt[l] = "over" => l \in givenUp \cup raced

LoginsAreFit == LoginBoxesTypeOK /\ loginFaults \in Nat /\ \A l \in LoginRun : LoginIsFit(l)

LEMMA LoginsFitMeans == LoginsAreFit => LoginContainersGo
<1> SUFFICES ASSUME LoginsAreFit PROVE LoginContainersGo
  OBVIOUS
<1> USE DEF LoginsAreFit, LoginIsFit
<1>1. SweepSparesLogins
  BY DEF SweepSparesLogins, Active
<1>2. LoginsLeaveNothing
  BY DEF LoginsLeaveNothing, Early
<1>3. PodsAreFenced /\ LoginsStart
  BY DEF PodsAreFenced, LoginsStart
<1> QED
  BY <1>1, <1>2, <1>3 DEF LoginContainersGo

\* A step of one login leaves the others as they are.
LEMMA OneLoginSteps ==
  ASSUME LoginsAreFit, NEW l \in LoginRun, LoginSteps(l)
  PROVE  LoginIsFit(l)'
<1> USE DEF LoginsAreFit, LoginIsFit, LoginBoxesTypeOK, LoginGoesTo, LoginFault, Early, Fenced
<1>1. CASE LoginBegins(l) \/ PolicyIsRead(l)
  BY <1>1 DEF LoginBegins, PolicyIsRead
<1>2. CASE PolicyIsMade(l)
  BY <1>2 DEF PolicyIsMade
<1>3. CASE LoginBoxIsMade(l)
  BY <1>3 DEF LoginBoxIsMade, OutOfTime
<1>4. CASE CreateIsLost(l)
  BY <1>4 DEF CreateIsLost
<1>5. CASE LoginBoxRuns(l)
  BY <1>5 DEF LoginBoxRuns
<1>6. CASE LoginBoxDoesNotRun(l)
  BY <1>6 DEF LoginBoxDoesNotRun
<1>7. CASE LoginEnds(l)
  BY <1>7 DEF LoginEnds, Active
<1>8. CASE LoginBoxIsRemoved(l)
  BY <1>8 DEF LoginBoxIsRemoved
<1> QED
  BY <1>1, <1>2, <1>3, <1>4, <1>5, <1>6, <1>7, <1>8 DEF LoginSteps

LEMMA OtherLoginsStay ==
  ASSUME LoginsAreFit, NEW l \in LoginRun, LoginSteps(l), NEW m \in LoginRun, m # l
  PROVE  LoginIsFit(m)'
<1>1. /\ loginAt'[m] = loginAt[m] /\ loginBox'[m] = loginBox[m] /\ UNCHANGED <<platform, waited, boxAge, toSweep>>
      /\ (m \in givenUp' <=> m \in givenUp) /\ (m \in left' <=> m \in left) /\ (m \in raced' <=> m \in raced)
      /\ (loginPolicy => loginPolicy') /\ (loginFaults' = 0 => loginFaults = 0)
  <2> USE DEF LoginsAreFit, LoginBoxesTypeOK, LoginGoesTo, LoginFault
  <2>1. CASE LoginBegins(l) \/ PolicyIsRead(l) \/ PolicyIsMade(l)
    BY <2>1 DEF LoginBegins, PolicyIsRead, PolicyIsMade
  <2>2. CASE LoginBoxIsMade(l) \/ CreateIsLost(l)
    BY <2>2 DEF LoginBoxIsMade, CreateIsLost
  <2>3. CASE LoginBoxRuns(l) \/ LoginBoxDoesNotRun(l)
    BY <2>3 DEF LoginBoxRuns, LoginBoxDoesNotRun
  <2>4. CASE LoginEnds(l) \/ LoginBoxIsRemoved(l)
    BY <2>4 DEF LoginEnds, LoginBoxIsRemoved
  <2> QED
    BY <2>1, <2>2, <2>3, <2>4 DEF LoginSteps
<1>2. LoginIsFit(m)
  BY DEF LoginsAreFit
<1> QED
  BY <1>1, <1>2 DEF LoginIsFit

LEMMA LoginFaultsAreNat ==
  ASSUME loginFaults \in Nat, [LoginBoxesNext]_loginBoxVars
  PROVE  loginFaults' \in Nat
  BY DEF LoginBoxesNext, loginBoxVars, LoginFault, FiveMinutesPass, ManagerIsLost, SweepFindsLogins, LoginBegins,
     PolicyIsRead, PolicyIsMade, LoginBoxIsMade, CreateIsLost, LoginBoxRuns, LoginBoxDoesNotRun, LoginEnds,
     LoginBoxIsRemoved, SweepRemovesLogin

LEMMA LoginsStayFit == LoginsAreFit /\ [LoginBoxesNext]_loginBoxVars => LoginsAreFit'
<1> SUFFICES ASSUME LoginsAreFit, [LoginBoxesNext]_loginBoxVars PROVE LoginsAreFit'
  OBVIOUS
<1>1. LoginBoxesTypeOK' /\ loginFaults' \in Nat
  BY LoginTypesStay, LoginFaultsAreNat DEF LoginsAreFit
<1>2. ASSUME NEW m \in LoginRun PROVE LoginIsFit(m)'
  <2>1. LoginIsFit(m) /\ LoginBoxesTypeOK /\ loginFaults \in Nat
    BY DEF LoginsAreFit
  <2>2. CASE UNCHANGED loginBoxVars
    BY <2>1, <2>2 DEF LoginIsFit, loginBoxVars
  <2>3. CASE FiveMinutesPass
    <3>1. /\ boxAge'[m] = (IF loginBox[m] # "none" /\ boxAge[m] < 3 THEN boxAge[m] + 1 ELSE boxAge[m])
          /\ waited'[m] = (IF m \in Active /\ waited[m] < 2 THEN waited[m] + 1 ELSE waited[m])
          /\ m \in Active \ givenUp => waited[m] < 2
          /\ UNCHANGED <<platform, loginAt, givenUp, loginBox, loginPolicy, toSweep, loginFaults, left, raced>>
      BY <2>3 DEF FiveMinutesPass, OutOfTime
    <3>2. boxAge[m] \in 0..3 /\ waited[m] \in 0..2
      BY <2>1 DEF LoginBoxesTypeOK, OutOfTime
    <3> QED
      BY <2>1, <3>1, <3>2 DEF LoginIsFit, Active
  <2>4. CASE ManagerIsLost
    <3>1. /\ loginAt'[m] = (IF m \in Active THEN "over" ELSE loginAt[m]) /\ toSweep' = {}
          /\ left' = left \cup {l \in Active : loginBox[l] # "none"} /\ loginFaults' > 0
          /\ UNCHANGED <<platform, givenUp, waited, loginBox, boxAge, loginPolicy, raced>>
      BY <2>1, <2>4 DEF ManagerIsLost, LoginFault
    <3> QED
      BY <2>1, <3>1 DEF LoginIsFit, Active, Early, Fenced
  <2>5. CASE SweepFindsLogins
    BY <2>1, <2>5 DEF SweepFindsLogins, Cutoff, LoginIsFit
  <2>6. ASSUME NEW l \in LoginRun, SweepRemovesLogin(l) PROVE LoginIsFit(m)'
    <3>1. LoginIsFit(l)
      BY DEF LoginsAreFit
    <3> QED
      BY <2>1, <2>6, <3>1 DEF SweepRemovesLogin, LoginIsFit, LoginFault, LoginBoxesTypeOK, OutOfTime
  <2>7. ASSUME NEW l \in LoginRun, LoginSteps(l) PROVE LoginIsFit(m)'
    BY <2>7, OneLoginSteps, OtherLoginsStay
  <2> QED
    BY <2>2, <2>3, <2>4, <2>5, <2>6, <2>7 DEF LoginBoxesNext, LoginSteps
<1> QED
  BY <1>1, <1>2 DEF LoginsAreFit

LEMMA LoginsBeginFit == LoginBoxesInit => LoginsAreFit
  BY DEF LoginBoxesInit, LoginsAreFit, LoginIsFit, LoginBoxesTypeOK, OutOfTime, Early, Fenced

\* The sweep spares the container of a login that goes on, a login that is over leaves none
\* that nobody knows of, and every pod has its network policy, for any number of logins
\* and faults (login.ts, startLogin of both runtimes, sweepLogins).
THEOREM LoginContainersAlwaysGo == LoginBoxesSpec => []LoginContainersGo
  BY LoginsBeginFit, LoginsStayFit, LoginsFitMeans, PTL DEF LoginBoxesSpec

(***************************************************************************)
(* The processes above one, for a table of any length.                     *)
(***************************************************************************)

\* What Above computes for the first n processes.
IsUp(u, t, n) == u = [p \in 0..n |-> IF p = 0 THEN {} ELSE {p} \cup u[t.parent[p]]]

LEMMA TablesAre ==
  ASSUME NEW t \in Tables
  PROVE  /\ t.command \in [Pid -> Command] /\ t.command[InitPid] = "hold"
         /\ t.parent \in [Pid -> 0..LastPid] /\ t.parent[InitPid] = 0
         /\ \A i \in Pid : t.parent[i] \in 0..(i - 1)
         /\ \A i \in Pid : i # InitPid => t.parent[i] \in 1..(i - 1)
<1>1. PICK c \in {f \in [Pid -> Command] : f[InitPid] = "hold"},
           p \in {f \in [Pid -> 0..LastPid] :
                    f[InitPid] = 0 /\ \A i \in Pid : i # InitPid => f[i] \in 1..(i - 1)} :
        t = [command |-> c, parent |-> p]
  BY DEF Tables
<1>2. t.command = c /\ t.parent = p
  BY <1>1
<1>3. \A i \in Pid : p[i] \in 0..(i - 1)
  BY PidAssumption DEF Pid, InitPid
<1> QED
  BY <1>2, <1>3

\* A claim about the naturals up to a bound follows if there is no first one without it.
LEMMA NoFirstWithout ==
  ASSUME NEW P, P \subseteq Nat,
         \A n \in P : \E m \in P : m < n
  PROVE  P = {}
<1> SUFFICES ASSUME P # {} PROVE FALSE
  OBVIOUS
<1>1. PICK n \in P : \A m \in P : ~ (<<m, n>> \in OpToRel(<, Nat))
  BY NatLessThanWellFounded, WFMin
<1>2. PICK m \in P : m < n
  OBVIOUS
<1>3. <<m, n>> \in OpToRel(<, Nat)
  BY <1>2 DEF OpToRel
<1> QED
  BY <1>1, <1>3

LEMMA UpExists ==
  ASSUME NEW t \in Tables
  PROVE  \E u : IsUp(u, t, LastPid)
<1> DEFINE Missing == {n \in 0..LastPid : ~\E u : IsUp(u, t, n)}
<1>1. ASSUME NEW n \in Missing PROVE \E m \in Missing : m < n
  <2>1. n # 0
    <3>1. IsUp([p \in 0..0 |-> {}], t, 0)
      BY DEF IsUp
    <3> QED
      BY <3>1
  <2>2. n \in Pid /\ n - 1 \in 0..LastPid /\ n \in Nat
    BY <2>1, PidAssumption DEF Pid
  <2> SUFFICES ASSUME NEW u, IsUp(u, t, n - 1) PROVE FALSE
    BY <2>2
  <2> DEFINE v == [p \in 0..n |-> IF p = n THEN {n} \cup u[t.parent[n]] ELSE u[p]]
  <2>3. \A p \in 0..(n - 1) : u[p] = IF p = 0 THEN {} ELSE {p} \cup u[t.parent[p]]
    BY DEF IsUp
  <2>4. ASSUME NEW p \in 0..n PROVE v[p] = IF p = 0 THEN {} ELSE {p} \cup v[t.parent[p]]
    <3>1. CASE p = n
      <4>1. t.parent[n] \in 0..(n - 1)
        BY <2>2, TablesAre
      <4>2. t.parent[n] \in 0..n /\ t.parent[n] # n
        BY <4>1, <2>2
      <4> QED
        BY <3>1, <2>1, <4>2
    <3>2. CASE p # n
      <4>1. p \in 0..(n - 1)
        BY <3>2, <2>2
      <4>2. v[p] = u[p]
        BY <3>2
      <4>3. CASE p = 0
        BY <4>1, <4>2, <4>3, <2>3
      <4>4. CASE p # 0
        <5>1. p \in Pid
          BY <4>1, <4>4, <2>2, PidAssumption DEF Pid
        <5>2. t.parent[p] \in 0..(p - 1)
          BY <5>1, TablesAre
        <5>3. t.parent[p] \in 0..n /\ t.parent[p] # n
          BY <5>2, <4>1, <2>2
        <5>4. v[t.parent[p]] = u[t.parent[p]]
          BY <5>3
        <5> QED
          BY <4>1, <4>2, <4>4, <5>4, <2>3
      <4> QED
        BY <4>3, <4>4
    <3> QED
      BY <3>1, <3>2
  <2>5. IsUp(v, t, n)
    <3>1. v = [p \in 0..n |-> v[p]]
      OBVIOUS
    <3> HIDE DEF v
    <3> QED
      BY <3>1, <2>4 DEF IsUp
  <2> QED
    BY <2>5
<1>2. Missing \subseteq Nat
  BY PidAssumption
<1> HIDE DEF Missing
<1>3. Missing = {}
  BY <1>1, <1>2, NoFirstWithout
<1>4. LastPid \in 0..LastPid
  BY PidAssumption
<1> QED
  BY <1>3, <1>4 DEF Missing

\* The processes above one are its parent, and those above its parent.
LEMMA AboveIs ==
  ASSUME NEW t \in Tables, NEW pid \in Pid
  PROVE  Above(t, pid) = IF t.parent[pid] = 0 THEN {} ELSE {t.parent[pid]} \cup Above(t, t.parent[pid])
<1> DEFINE u == CHOOSE f : IsUp(f, t, LastPid)
<1>1. IsUp(u, t, LastPid)
  BY UpExists
<1>2. \A q : Above(t, q) = u[t.parent[q]]
  BY DEF Above, IsUp
<1>3. t.parent[pid] \in 0..LastPid
  BY TablesAre DEF Pid
<1> HIDE DEF u
<1>4. u[t.parent[pid]] = IF t.parent[pid] = 0 THEN {} ELSE {t.parent[pid]} \cup u[t.parent[t.parent[pid]]]
  BY <1>1, <1>3 DEF IsUp
<1>5. Above(t, pid) = u[t.parent[pid]] /\ Above(t, t.parent[pid]) = u[t.parent[t.parent[pid]]]
  BY <1>2
<1> HIDE <1>1, <1>2
<1> QED
  BY <1>4, <1>5, Zenon

\* They are older than it.
LEMMA AboveIsBelow ==
  ASSUME NEW t \in Tables, NEW pid \in Pid
  PROVE  Above(t, pid) \subseteq 1..(pid - 1)
<1> DEFINE Wrong == {n \in Pid : ~ Above(t, n) \subseteq 1..(n - 1)}
<1>1. ASSUME NEW n \in Wrong PROVE \E m \in Wrong : m < n
  <2> DEFINE m == t.parent[n]
  <2>1. n \in Pid /\ m \in 0..(n - 1) /\ n \in Nat
    BY TablesAre, PidAssumption DEF Pid
  <2>2. m # 0
    BY <2>1, AboveIs
  <2>3. m \in Pid /\ m < n
    BY <2>1, <2>2, PidAssumption DEF Pid
  <2>4. Above(t, n) = {m} \cup Above(t, m)
    BY <2>1, <2>2, AboveIs
  <2> HIDE DEF m
  <2>5. ASSUME Above(t, m) \subseteq 1..(m - 1) PROVE FALSE
    <3>1. m \in 1..(n - 1)
      BY <2>1, <2>2
    <3>2. 1..(m - 1) \subseteq 1..(n - 1)
      BY <2>1
    <3>3. Above(t, n) \subseteq 1..(n - 1)
      BY <2>4, <2>5, <3>1, <3>2
    <3> QED
      BY <3>3
  <2> QED
    BY <2>3, <2>5
<1>2. Wrong \subseteq Nat
  BY PidAssumption DEF Pid
<1> HIDE DEF Wrong
<1>3. Wrong = {}
  BY <1>1, <1>2, NoFirstWithout
<1> QED
  BY <1>3 DEF Wrong

\* What is above one of them is above it.
LEMMA AboveIsClosed ==
  ASSUME NEW t \in Tables, NEW pid \in Pid, NEW a \in Above(t, pid)
  PROVE  a \in Pid /\ Above(t, a) \subseteq Above(t, pid)
<1> DEFINE Wrong == {n \in Pid : a \in Above(t, n) /\ ~ Above(t, a) \subseteq Above(t, n)}
<1>1. ASSUME NEW n \in Wrong PROVE \E m \in Wrong : m < n
  <2> DEFINE m == t.parent[n]
  <2>1. n \in Pid /\ m \in 0..(n - 1) /\ n \in Nat
    BY TablesAre, PidAssumption DEF Pid
  <2>2. m # 0
    BY <2>1, AboveIs
  <2>3. m \in Pid /\ m < n
    BY <2>1, <2>2, PidAssumption DEF Pid
  <2>4. Above(t, n) = {m} \cup Above(t, m)
    BY <2>1, <2>2, AboveIs
  <2> HIDE DEF m
  <2>5. a \in Above(t, m) /\ ~ Above(t, a) \subseteq Above(t, m)
    BY <2>4
  <2> QED
    BY <2>3, <2>5
<1>2. Wrong \subseteq Nat
  BY PidAssumption DEF Pid
<1> HIDE DEF Wrong
<1>3. Wrong = {}
  BY <1>1, <1>2, NoFirstWithout
<1>4. a \in Pid
  BY AboveIsBelow, PidAssumption DEF Pid
<1> QED
  BY <1>3, <1>4 DEF Wrong

\* So every one of them is less deep.
LEMMA AboveIsHigher ==
  ASSUME NEW t \in Tables, NEW pid \in Pid, NEW a \in Above(t, pid)
  PROVE  Depth(t, a) < Depth(t, pid)
<1>1. a \in Pid /\ Above(t, a) \subseteq Above(t, pid)
  BY AboveIsClosed
<1>2. a \notin Above(t, a)
  BY <1>1, AboveIsBelow, PidAssumption DEF Pid
<1>3. IsFiniteSet(1..(pid - 1)) /\ IsFiniteSet(1..(a - 1))
  BY <1>1, PidAssumption, FS_Interval DEF Pid
<1>4. IsFiniteSet(Above(t, pid)) /\ IsFiniteSet(Above(t, a))
  <2>1. Above(t, pid) \in SUBSET (1..(pid - 1)) /\ Above(t, a) \in SUBSET (1..(a - 1))
    BY <1>1, AboveIsBelow
  <2> QED
    BY <2>1, <1>3, FS_Subset
<1>5. /\ Cardinality(Above(t, a)) <= Cardinality(Above(t, pid))
      /\ Cardinality(Above(t, a)) # Cardinality(Above(t, pid))
  BY <1>1, <1>2, <1>4, FS_Subset
<1>6. Cardinality(Above(t, a)) \in Nat /\ Cardinality(Above(t, pid)) \in Nat
  BY <1>4, FS_CardinalityType
<1> QED
  BY <1>5, <1>6 DEF Depth

(***************************************************************************)
(* The order in which they are ended.                                      *)
(***************************************************************************)

\* The work that comes before a process in the answer.
Earlier(t, pid) == {other \in Work(t) : Before(t, other, pid)}

LEMMA DepthIsNat ==
  ASSUME NEW t \in Tables, NEW pid \in Pid
  PROVE  Depth(t, pid) \in Nat
<1>1. IsFiniteSet(1..(pid - 1)) /\ Above(t, pid) \in SUBSET (1..(pid - 1))
  BY AboveIsBelow, PidAssumption, FS_Interval DEF Pid
<1>2. IsFiniteSet(Above(t, pid))
  BY <1>1, FS_Subset
<1> QED
  BY <1>2, FS_CardinalityType DEF Depth

LEMMA BeforeIsTotal ==
  ASSUME NEW t \in Tables
  PROVE  \A a, b, c \in Pid :
           /\ ~Before(t, a, a)
           /\ a # b => Before(t, a, b) \/ Before(t, b, a)
           /\ Before(t, a, b) /\ Before(t, b, c) => Before(t, a, c)
<1> SUFFICES ASSUME NEW a \in Pid, NEW b \in Pid, NEW c \in Pid
             PROVE  /\ ~Before(t, a, a)
                    /\ a # b => Before(t, a, b) \/ Before(t, b, a)
                    /\ Before(t, a, b) /\ Before(t, b, c) => Before(t, a, c)
  OBVIOUS
<1>1. Depth(t, a) \in Nat /\ Depth(t, b) \in Nat /\ Depth(t, c) \in Nat
  BY DepthIsNat
<1>2. a \in Nat /\ b \in Nat /\ c \in Nat
  BY PidAssumption DEF Pid
<1> QED
  BY <1>1, <1>2 DEF Before

LEMMA WorkIsFinite ==
  ASSUME NEW t
  PROVE  /\ Work(t) \in SUBSET Pid /\ IsFiniteSet(Work(t)) /\ Cardinality(Work(t)) \in Nat
         /\ \A pid : /\ Earlier(t, pid) \in SUBSET Work(t)
                     /\ IsFiniteSet(Earlier(t, pid)) /\ Cardinality(Earlier(t, pid)) \in Nat
<1>1. IsFiniteSet(Pid) /\ Work(t) \in SUBSET Pid
  BY PidAssumption, FS_Interval DEF Pid, Work
<1>2. IsFiniteSet(Work(t)) /\ Cardinality(Work(t)) \in Nat
  BY <1>1, FS_Subset, FS_CardinalityType
<1>3. ASSUME NEW pid
      PROVE  Earlier(t, pid) \in SUBSET Work(t) /\ IsFiniteSet(Earlier(t, pid))
             /\ Cardinality(Earlier(t, pid)) \in Nat
  <2>1. Earlier(t, pid) \in SUBSET Work(t)
    BY DEF Earlier
  <2> QED
    BY <2>1, <1>2, FS_Subset, FS_CardinalityType
<1> QED
  BY <1>1, <1>2, <1>3

\* The work has places, without a gap, and they follow the order.
LEMMA PlacesFollowOrder ==
  ASSUME NEW t \in Tables, NEW a \in Work(t), NEW b \in Work(t), Before(t, a, b)
  PROVE  Cardinality(Earlier(t, a)) < Cardinality(Earlier(t, b))
<1>1. a \in Pid /\ b \in Pid /\ Work(t) \subseteq Pid
  BY WorkIsFinite
<1>2. Earlier(t, a) \subseteq Earlier(t, b)
  BY <1>1, BeforeIsTotal DEF Earlier
<1>3. a \notin Earlier(t, a) /\ a \in Earlier(t, b)
  BY <1>1, BeforeIsTotal DEF Earlier
<1>4. /\ Cardinality(Earlier(t, a)) <= Cardinality(Earlier(t, b))
      /\ Cardinality(Earlier(t, a)) # Cardinality(Earlier(t, b))
  BY <1>2, <1>3, WorkIsFinite, FS_Subset
<1> QED
  BY <1>4, WorkIsFinite

LEMMA PlacesAreTaken ==
  ASSUME NEW t \in Tables, NEW i \in 1..Cardinality(Work(t))
  PROVE  \E pid \in Work(t) : Cardinality(Earlier(t, pid)) = i - 1
<1> DEFINE n == Cardinality(Work(t))
           place == [pid \in Work(t) |-> Cardinality(Earlier(t, pid))]
<1>1. n \in Nat /\ IsFiniteSet(Work(t)) /\ Work(t) \subseteq Pid
  BY WorkIsFinite
<1>2. ASSUME NEW pid \in Work(t) PROVE Cardinality(Earlier(t, pid)) \in 0..(n - 1)
  <2>1. pid \notin Earlier(t, pid)
    BY <1>1, BeforeIsTotal DEF Earlier
  <2>2. Cardinality(Earlier(t, pid)) <= n /\ Cardinality(Earlier(t, pid)) # n
    BY <2>1, WorkIsFinite, FS_Subset
  <2> QED
    BY <2>2, WorkIsFinite
<1>3. place \in [Work(t) -> 0..(n - 1)]
  BY <1>2
<1>4. ASSUME NEW a \in Work(t), NEW b \in Work(t), place[a] = place[b] PROVE a = b
  <2>1. SUFFICES ASSUME a # b PROVE FALSE
    OBVIOUS
  <2>2. Before(t, a, b) \/ Before(t, b, a)
    BY <1>1, <2>1, BeforeIsTotal
  <2>3. Cardinality(Earlier(t, a)) = Cardinality(Earlier(t, b))
    BY <1>4
  <2>4. Cardinality(Earlier(t, a)) \in Nat /\ Cardinality(Earlier(t, b)) \in Nat
    BY WorkIsFinite
  <2> QED
    BY <2>2, <2>3, <2>4, PlacesFollowOrder
<1> HIDE DEF place
<1>5. place \in Injection(Work(t), 0..(n - 1))
  BY <1>3, <1>4 DEF Injection, IsInjective
<1>6. Cardinality(0..(n - 1)) = n
  <2>1. n - 1 \in Int /\ 0 \in Int
    BY <1>1
  <2>2. Cardinality(0..(n - 1)) = IF 0 > n - 1 THEN 0 ELSE (n - 1) - 0 + 1
    BY <2>1, FS_Interval
  <2> QED
    BY <2>2, <1>1
<1>7. place \in Surjection(Work(t), 0..(n - 1))
  <2>1. IsFiniteSet(0..(n - 1))
    BY <1>1, FS_Interval
  <2> QED
    BY <2>1, <1>5, <1>6, FS_Injection
<1>8. i - 1 \in 0..(n - 1)
  BY <1>1
<1>9. PICK pid \in Work(t) : place[pid] = i - 1
  BY <1>7, <1>8 DEF Surjection
<1> QED
  BY <1>9 DEF place

LEMMA WorkPidsAre ==
  ASSUME NEW t \in Tables
  PROVE  /\ DOMAIN WorkPids(t) = 1..Cardinality(Work(t))
         /\ \A i \in 1..Cardinality(Work(t)) :
              WorkPids(t)[i] \in Work(t) /\ Cardinality(Earlier(t, WorkPids(t)[i])) = i - 1
         /\ Range(WorkPids(t)) = Work(t)
<1> DEFINE n == Cardinality(Work(t))
<1>1. DOMAIN WorkPids(t) = 1..n
  BY DEF WorkPids
<1>2. ASSUME NEW i \in 1..n
      PROVE  WorkPids(t)[i] \in Work(t) /\ Cardinality(Earlier(t, WorkPids(t)[i])) = i - 1
  <2>1. WorkPids(t)[i] = CHOOSE pid \in Work(t) : Cardinality(Earlier(t, pid)) = i - 1
    BY DEF WorkPids, Earlier
  <2> QED
    BY <2>1, PlacesAreTaken
<1>3. ASSUME NEW pid \in Work(t) PROVE \E i \in 1..n : WorkPids(t)[i] = pid
  <2> DEFINE i == Cardinality(Earlier(t, pid)) + 1
  <2>1. n \in Nat /\ Work(t) \subseteq Pid /\ Cardinality(Earlier(t, pid)) \in Nat
    BY WorkIsFinite
  <2>2. pid \notin Earlier(t, pid)
    BY <2>1, BeforeIsTotal DEF Earlier
  <2>3. Cardinality(Earlier(t, pid)) <= n /\ Cardinality(Earlier(t, pid)) # n
    BY <2>2, WorkIsFinite, FS_Subset
  <2>4. i \in 1..n
    BY <2>1, <2>3
  <2>5. WorkPids(t)[i] \in Work(t) /\ Cardinality(Earlier(t, WorkPids(t)[i])) = Cardinality(Earlier(t, pid))
    BY <1>2, <2>1, <2>4
  <2> HIDE DEF i
  <2>6. WorkPids(t)[i] = pid
    <3>1. ~Before(t, WorkPids(t)[i], pid) /\ ~Before(t, pid, WorkPids(t)[i])
      BY <2>1, <2>5, PlacesFollowOrder
    <3> QED
      BY <3>1, <2>1, <2>5, BeforeIsTotal
  <2> QED
    BY <2>4, <2>6
<1>4. Range(WorkPids(t)) = Work(t)
  BY <1>1, <1>2, <1>3 DEF Range
<1> QED
  BY <1>1, <1>2, <1>4

\* None is ended before one below it.
LEMMA WorkEndsFromBelow ==
  ASSUME NEW t \in Tables, NEW i \in DOMAIN WorkPids(t), NEW j \in DOMAIN WorkPids(t), i < j
  PROVE  WorkPids(t)[i] \notin Above(t, WorkPids(t)[j])
<1> DEFINE a == WorkPids(t)[i]
           b == WorkPids(t)[j]
<1>1. /\ i \in Nat /\ j \in Nat /\ a \in Work(t) /\ b \in Work(t)
      /\ Cardinality(Earlier(t, a)) = i - 1 /\ Cardinality(Earlier(t, b)) = j - 1
  BY WorkPidsAre, WorkIsFinite
<1>2. a \in Pid /\ b \in Pid
  BY <1>1, WorkIsFinite
<1> HIDE DEF a, b
<1> SUFFICES ASSUME a \in Above(t, b) PROVE FALSE
  BY DEF a, b
<1>3. Depth(t, a) < Depth(t, b) /\ Depth(t, a) \in Nat /\ Depth(t, b) \in Nat
  BY <1>2, AboveIsHigher, DepthIsNat
<1>4. Before(t, b, a)
  BY <1>3 DEF Before
<1>5. j - 1 < i - 1
  BY <1>1, <1>4, PlacesFollowOrder
<1> QED
  BY <1>1, <1>5

(***************************************************************************)
(* What is work.                                                           *)
(***************************************************************************)

\* Once there is an answer, it is the one of the table.
TableIsAnswered == workFound # <<>> => table \in Tables /\ workFound = WorkPids(table)

LEMMA AnswerIsRight ==
  ASSUME TableIsAnswered
  PROVE  WorkIsReadRight
<1> SUFFICES ASSUME workFound # <<>>, table \in Tables, workFound = WorkPids(table)
             PROVE  WorkIsReadRight
  BY DEF TableIsAnswered, WorkIsReadRight
<1> DEFINE Outermost(pid) == \A above \in Above(table, pid) : ~Carries(table, above)
<1>1. Range(workFound) = Work(table)
  BY WorkPidsAre
<1>2. ASSUME NEW pid \in Pid \ {InitPid}, table.command[pid] = "command", pid \notin Work(table)
      PROVE  Outermost(table.parent[pid]) /\ table.command[table.parent[pid]] = "adapter"
  <2>1. IsResident(table, pid)
    BY <1>2 DEF Work
  <2>2. ~Carries(table, pid) /\ ~Named(table, pid)
    BY <1>2 DEF Carries, Named
  <2>3. table.parent[pid] \in AdapterPids(table) /\ table.command[table.parent[pid]] = "adapter"
    BY <1>2, <2>1, <2>2 DEF IsResident, AdapterPids
  <2> QED
    BY <2>3 DEF AdapterPids
<1>3. ASSUME NEW pid \in Pid \ {InitPid}, table.command[pid] \in {"adapter", "solo"}, Outermost(pid)
      PROVE  pid \notin Work(table)
  <2>1. Carries(table, pid) /\ ~Named(table, pid)
    BY <1>3 DEF Carries, Named
  <2>2. pid \in AdapterPids(table)
    BY <1>3, <2>1 DEF AdapterPids
  <2> QED
    BY <2>2 DEF Work, IsResident
<1>4. ASSUME NEW i \in DOMAIN workFound, NEW j \in DOMAIN workFound, i < j
      PROVE  workFound[i] \notin Above(table, workFound[j])
  BY <1>4, WorkEndsFromBelow
<1> QED
  BY <1>1, <1>2, <1>3, <1>4 DEF WorkIsReadRight

\* Whoever started it, a command in a box is work, no adapter is, and none is ended before
\* one below it, for a table of any length (background.ts, processes.ts).
THEOREM WorkIsAlwaysReadRight == WorkSpec => []WorkIsReadRight
<1> DEFINE Inv == table \in Tables /\ TableIsAnswered
<1>1. WorkInit => Inv
  BY DEF WorkInit, TableIsAnswered
<1>2. Inv /\ [BoxIsRead]_workVars => Inv'
  BY DEF BoxIsRead, workVars, TableIsAnswered
<1>3. Inv => WorkIsReadRight
  BY AnswerIsRight
<1> QED
  BY <1>1, <1>2, <1>3, PTL DEF WorkSpec

(***************************************************************************)
(* The three of them, in the composition that the run checks.              *)
(***************************************************************************)

\* What the orchestrator knows of the processes in its containers is what they do.
THEOREM ProcessesAreAlwaysKnown == MCPlatformSpec => []ProcessesAreKnown
<1> DEFINE Inv == (part = "work" => table \in Tables) /\ TableIsAnswered
<1>1. MCPlatformInit => ExecsInit /\ LoginBoxesInit
  BY DEF MCPlatformInit
<1>2. [MCPlatformNext]_platformParts => [ExecsNext]_execVars /\ [LoginBoxesNext]_loginBoxVars
  BY DEF MCPlatformNext, platformParts, procVars
<1>3. MCPlatformSpec => ExecsSpec /\ LoginBoxesSpec
  BY <1>1, <1>2, PTL DEF MCPlatformSpec, ExecsSpec, LoginBoxesSpec
<1>4. MCPlatformInit => Inv
  BY DEF MCPlatformInit, WorkInit, TableIsAnswered
<1>5. Inv /\ [MCPlatformNext]_platformParts => Inv'
  <2> SUFFICES ASSUME Inv, [MCPlatformNext]_platformParts PROVE Inv'
    OBVIOUS
  <2>1. part' = part
    BY DEF MCPlatformNext, platformParts
  <2>2. UNCHANGED workVars \/ (part = "work" /\ BoxIsRead)
    BY DEF MCPlatformNext, platformParts, procVars
  <2> QED
    BY <2>1, <2>2 DEF workVars, BoxIsRead, TableIsAnswered
<1>6. Inv => WorkIsReadRight
  BY AnswerIsRight
<1>7. WorkIsReadRight /\ ExecsAreTold /\ LoginContainersGo => ProcessesAreKnown
  BY DEF ProcessesAreKnown
<1> QED
  BY <1>3, <1>4, <1>5, <1>6, <1>7, ExecsAreAlwaysTold, LoginContainersAlwaysGo, PTL DEF MCPlatformSpec
=============================================================================
