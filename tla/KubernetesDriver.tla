---------------------------- MODULE KubernetesDriver ----------------------------
(***************************************************************************)
(* KubernetesRuntime (runtime/kubernetes.ts) on one box: its pod, policy   *)
(* and claim, the calls of the orchestrator, which the slot of the box     *)
(* makes one at a time, and the cluster around them.                       *)
(*                                                                         *)
(* A call awaits the API server at each step.  A request can fail without  *)
(* effect, and a create also after it took effect.  Deadlines may pass at  *)
(* any time.                                                               *)
(***************************************************************************)
EXTENDS Naturals

VARIABLES
  \* The cluster.
  phase,      \* the phase of the pod, "none" without one
  leaving,    \* the pod has a deletionTimestamp
  stuck,      \* its container waits with a reason of FATAL_WAITING
  nodeUp,     \* the API server reaches the node of the pod
  ghost,      \* a container of a pod that is gone still runs on its node
  policy,     \* the policy of the box: "none", "good" or "other" than wanted
  claim,      \* its claim: "none", "there" or "leaving"
  \* The calls.
  kubeCall,   \* the call on the box
  kubeAt,     \* its next request
  kubeThen,   \* where it goes on after deletePod
  rival,      \* the policy has changed since it was read
  \* For the property.
  forced      \* a failed start has deleted its pod without a grace period

podVars == <<phase, leaving, stuck, nodeUp, ghost>>
kubeCallVars == <<kubeCall, kubeAt, kubeThen>>
kubeVars == <<podVars, policy, claim, kubeCallVars, rival, forced>>

KubeCalls == {"createStorage", "removeStorage", "ensure", "start", "stop", "remove"}
KubeRequests == {"none", "createClaim", "dropClaim", "claimGone", "readPolicy", "createPolicy",
             "replacePolicy", "dropPolicy", "readPod", "createPod", "wait", "deletePod", "podGone",
             "undo", "undone", "return", "throw"}

KubeTypeOK ==
  /\ phase \in {"none", "Pending", "Running", "Ended", "Unknown"}
  /\ {leaving, stuck, nodeUp, ghost, rival, forced} \subseteq BOOLEAN
  /\ policy \in {"none", "good", "other"} /\ claim \in {"none", "there", "leaving"}
  /\ kubeCall \in KubeCalls \cup {"none"} /\ kubeAt \in KubeRequests
  /\ kubeThen \in {"none", "createPod", "dropPolicy", "return"}

KubeInit ==
  /\ phase = "none" /\ leaving = FALSE /\ stuck = FALSE /\ nodeUp = TRUE /\ ghost = FALSE
  /\ policy = "none" /\ claim = "none"
  /\ kubeCall = "none" /\ kubeAt = "none" /\ kubeThen = "none" /\ rival = FALSE
  /\ forced = FALSE

(***************************************************************************)
(* The calls.                                                              *)
(***************************************************************************)

To(request) ==
  /\ kubeAt' = request
  /\ IF request \in {"return", "throw"}
       THEN kubeCall' = "none" /\ kubeThen' = "none"
       ELSE UNCHANGED <<kubeCall, kubeThen>>

FirstRequest(c) ==
  CASE c = "createStorage" -> "createClaim"
    [] c = "removeStorage" -> "dropClaim"
    [] c = "ensure"        -> "readPolicy"
    [] c = "start"         -> "readPod"
    [] OTHER               -> "deletePod"

\* stop and remove begin with deletePod, and remove goes on with the policy.
KubeBegins(c) ==
  /\ kubeCall = "none"
  /\ kubeCall' = c /\ kubeAt' = FirstRequest(c)
  /\ kubeThen' = CASE c = "stop" -> "return" [] c = "remove" -> "dropPolicy" [] OTHER -> "none"
  /\ UNCHANGED <<podVars, policy, claim, rival, forced>>

\* A request fails, or a wait for a pod or a claim takes too long: the call throws.  A
\* start that waits takes its pod back first, and what fails there is dropped.
RequestFails ==
  /\ kubeAt \notin {"none", "return", "throw"}
  /\ To(IF kubeAt = "wait" THEN "undo" ELSE "throw")
  /\ UNCHANGED <<podVars, policy, claim, rival, forced>>

ClaimCreated ==
  /\ kubeAt = "createClaim" /\ claim = "none"
  /\ claim' = "there"
  /\ \/ To("return") \/ To("throw")
  /\ UNCHANGED <<podVars, policy, rival, forced>>

\* deleteClaim.
ClaimDropped ==
  /\ kubeAt = "dropClaim"
  /\ claim' = IF claim = "none" THEN claim ELSE "leaving"
  /\ To("claimGone")
  /\ UNCHANGED <<podVars, policy, rival, forced>>

ClaimIsGone ==
  /\ kubeAt = "claimGone" /\ claim = "none"
  /\ To("return")
  /\ UNCHANGED <<podVars, policy, claim, rival, forced>>

\* ensure: the policy is read, and made or replaced when it is not as it should be.
PolicyRead ==
  /\ kubeAt = "readPolicy"
  /\ rival' = FALSE
  /\ To(CASE policy = "none" -> "createPolicy"
          [] policy = "other" -> "replacePolicy"
          [] policy = "good" -> "return")
  /\ UNCHANGED <<podVars, policy, claim, forced>>

\* A replace names the version it has read, and a create needs that there is none.
PolicyWritten ==
  /\ kubeAt \in {"createPolicy", "replacePolicy"}
  /\ ~rival
  /\ policy' = "good"
  /\ \/ To("return") \/ To("throw")
  /\ UNCHANGED <<podVars, claim, rival, forced>>

\* isLive.
Live == phase \in {"Running", "Pending"}

\* start: a pod that is live and stays is kept, any other one goes first.
PodRead ==
  /\ kubeAt = "readPod"
  /\ UNCHANGED kubeCall
  /\ IF phase # "none" /\ ~leaving /\ Live THEN kubeAt' = "wait" /\ UNCHANGED kubeThen
     ELSE IF phase = "none" THEN kubeAt' = "createPod" /\ UNCHANGED kubeThen
     ELSE kubeAt' = "deletePod" /\ kubeThen' = "createPod"
  /\ UNCHANGED <<podVars, policy, claim, rival, forced>>

\* The create is not inside the try of start: a lost answer leaves the pod there.
PodCreated ==
  /\ kubeAt = "createPod" /\ phase = "none"
  /\ phase' = "Pending" /\ leaving' = FALSE /\ stuck' = FALSE
  /\ \/ To("wait") \/ To("throw")
  /\ UNCHANGED <<nodeUp, ghost, policy, claim, rival, forced>>

\* waitUntilRunning.  A pod that is pending can also run out of time (RequestFails).
WaitEnds ==
  /\ kubeAt = "wait"
  /\ \/ phase = "Running" /\ To("return")
     \/ (phase \in {"none", "Ended"} \/ (stuck /\ phase = "Pending")) /\ To("undo")
  /\ UNCHANGED <<podVars, policy, claim, rival, forced>>

\* The pod is taken off its node, and the API server forgets it.
PodGoes == phase' = "none" /\ leaving' = FALSE /\ stuck' = FALSE

\* deletePod with its grace period: the pod stays until the kubelet has ended it.
PodDeleted ==
  /\ kubeAt = "deletePod"
  /\ leaving' = (phase # "none")
  /\ To("podGone")
  /\ UNCHANGED <<phase, stuck, nodeUp, ghost, policy, claim, rival, forced>>

\* A mutant: the end of the wait counts as the end of the pod.
PodIsGone_Early ==
  /\ kubeAt \in {"podGone", "undone"}
  /\ To(IF kubeAt = "undone" THEN "throw" ELSE kubeThen)
  /\ UNCHANGED <<podVars, policy, claim, rival, forced>>

PodIsGone ==
  /\ kubeAt \in {"podGone", "undone"} /\ phase = "none"
  /\ To(IF kubeAt = "undone" THEN "throw" ELSE kubeThen)
  /\ UNCHANGED <<podVars, policy, claim, rival, forced>>

\* deletePod without one: the API server forgets the pod at once, and the container
\* ends when the kubelet learns of it.  One that the node has not reported can run too.
PodUndone ==
  /\ kubeAt = "undo"
  /\ PodGoes
  /\ forced' = TRUE
  /\ ghost' \in IF phase \in {"Running", "Unknown"} \/ (phase = "Pending" /\ ~nodeUp)
                 THEN {TRUE} ELSE {ghost}
  /\ To("undone")
  /\ UNCHANGED <<nodeUp, policy, claim, rival>>

\* remove: the policy goes after the pod.
PolicyDropped ==
  /\ kubeAt = "dropPolicy"
  /\ policy' = "none"
  /\ rival' = TRUE
  /\ \/ To("return") \/ To("throw")
  /\ UNCHANGED <<podVars, claim, forced>>

(***************************************************************************)
(* The cluster.                                                            *)
(***************************************************************************)

Kubelet ==
  /\ nodeUp
  /\ \/ /\ phase = "Pending" /\ claim = "there" /\ ~leaving
        /\ \/ phase' = "Running" /\ stuck' = FALSE
           \/ phase' = phase /\ stuck' = TRUE
        /\ UNCHANGED <<leaving, ghost>>
     \/ phase \in {"Pending", "Running"} /\ phase' = "Ended" /\ UNCHANGED <<leaving, stuck, ghost>>
     \/ phase = "Unknown" /\ phase' = "Running" /\ UNCHANGED <<leaving, stuck, ghost>>
     \/ leaving /\ PodGoes /\ UNCHANGED ghost
     \/ ghost /\ ghost' = FALSE /\ UNCHANGED <<phase, leaving, stuck>>
  /\ UNCHANGED <<nodeUp, policy, claim, kubeCallVars, rival, forced>>

\* The node is lost with its pod, comes back, or is removed with all it runs.
NodeChanges ==
  /\ \/ /\ nodeUp /\ nodeUp' = FALSE
        /\ phase' \in IF phase = "Running" THEN {"Running", "Unknown"} ELSE {phase}
        /\ UNCHANGED <<leaving, stuck, ghost>>
     \/ ~nodeUp /\ nodeUp' = TRUE /\ UNCHANGED <<phase, leaving, stuck, ghost>>
     \/ ~nodeUp /\ nodeUp' = TRUE /\ ghost' = FALSE /\ PodGoes
  /\ UNCHANGED <<policy, claim, kubeCallVars, rival, forced>>

\* A drain of the node, or an administrator.
PodIsEvicted ==
  /\ phase # "none" /\ ~leaving
  /\ leaving' = TRUE
  /\ UNCHANGED <<phase, stuck, nodeUp, ghost, policy, claim, kubeCallVars, rival, forced>>

PolicyIsChanged ==
  /\ policy' \in {"none", "other"} \ {policy}
  /\ rival' = TRUE
  /\ UNCHANGED <<podVars, claim, kubeCallVars, forced>>

\* A claim that is deleted stays while a pod uses it.
ClaimLeaves ==
  /\ \/ claim = "there" /\ claim' = "leaving"
     \/ claim = "leaving" /\ phase \in {"none", "Ended"} /\ claim' = "none"
  /\ UNCHANGED <<podVars, policy, kubeCallVars, rival, forced>>

KubeNext ==
  \/ \E c \in KubeCalls : KubeBegins(c)
  \/ RequestFails
  \/ ClaimCreated \/ ClaimDropped \/ ClaimIsGone
  \/ PolicyRead \/ PolicyWritten \/ PolicyDropped
  \/ PodRead \/ PodCreated \/ WaitEnds \/ PodDeleted \/ PodIsGone \/ PodUndone
  \/ Kubelet \/ NodeChanges \/ PodIsEvicted \/ PolicyIsChanged \/ ClaimLeaves

KubeSpec == KubeInit /\ [][KubeNext]_kubeVars

(***************************************************************************)
(* Properties.                                                             *)
(***************************************************************************)

\* A box never has two containers on its volume, whatever happens to its node and in
\* whatever order it is started and stopped (deletePod waits for the old pod), unless a
\* start has failed: that one forgets its pod without waiting for the node.
OneContainerOnVolume == (ghost /\ phase \in {"Running", "Unknown"}) => forced

\* What the orchestrator relies on.
KubePromise == INSTANCE RuntimePromise WITH
  power <- IF phase \in {"Pending", "Running", "Unknown"} THEN "on" ELSE "off",
  fence <- policy = "good",
  files <- claim = "there",
  call  <- IF kubeCall = "none" THEN kubeAt ELSE kubeCall,
  repaired <- kubeAt = "return",
  reported <- FALSE

\* The driver keeps the promise of the interface: start and stop return only when the
\* pod is up or gone, and remove never takes the policy from a pod that can still run.
\* And the volume of the box has one container.
KubernetesKeepsPromise == KubePromise!RuntimeSpec /\ []KubeTypeOK /\ []OneContainerOnVolume
=============================================================================
