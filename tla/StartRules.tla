----------------------------- MODULE StartRules -----------------------------
(***************************************************************************)
(* The rules about Pods that do not start, and about StatefulSets          *)
(* (internal/diag/rules_scheduling.go, rules_storage.go,                   *)
(* rules_workload.go), as functions from a graph to findings.  Beside the  *)
(* fields of PodRules, a Pod has                                           *)
(*   unschedulable  as in Correlation                                      *)
(*   env            its containers' references to ConfigMaps and Secrets,  *)
(*                  [ref, container]                                       *)
(*   volumes        those of its volumes, [ref, mounts], mounts being the  *)
(*                  containers that mount the volume                       *)
(* none of them optional; a claim is [ref, phase] and a StatefulSet        *)
(* [ref, desired, available].                                              *)
(***************************************************************************)
EXTENDS WorkloadRules

PodUnschedulableFindings(g) ==
    {FindingOf("pod-unschedulable", r, NoSubject, "current") :
        r \in {p \in PodRefs(g) : ObjectOf(g, p).phase = "Pending"
                                  /\ ObjectOf(g, p).unschedulable # NoObject}}

-----------------------------------------------------------------------------
(* Storage claims. *)

ClaimsInUse(g) ==
    {r \in DOMAIN g.nodes : r.kind = "PersistentVolumeClaim"
                            /\ \E p \in PodRefs(g) : HasEdge(g, p, r, "claims-storage")}

ClaimPendingFinding(r, impact) ==
    FindingOf("persistent-volume-claim-pending", r, NoSubject, impact)

ClaimBlocksAnyPod(g, r) ==
    \E p \in PodRefs(g) :
        StorageClaimBlocksPod(g, ClaimPendingFinding(r, "risk"),
            FindingOf("pod-unschedulable", p, NoSubject, "current"))

\* Faulty variant: a Pending claim blocks whatever Pod cannot be scheduled.
AnyUnscheduledUser(g, r) ==
    IF \E p \in PodRefs(g) : HasEdge(g, p, r, "claims-storage")
                             /\ ObjectOf(g, p).unschedulable # NoObject
    THEN "current" ELSE "risk"

\* Pending is a risk, as binding may be delayed on purpose, unless it blocks a Pod.
ClaimImpact(g, r) == IF ClaimBlocksAnyPod(g, r) THEN "current" ELSE "risk"

PersistentVolumeClaimFindings(g) ==
    {FindingOf("persistent-volume-claim-missing", r, NoSubject, "current") :
        r \in {c \in ClaimsInUse(g) : Missing(g.nodes[c])}}
    \cup
    {ClaimPendingFinding(r, ClaimImpact(g, r)) :
        r \in {c \in ClaimsInUse(g) : ObjectOf(g, c) # NoObject /\ ObjectOf(g, c).phase = "Pending"}}

-----------------------------------------------------------------------------
(* Images and configuration. *)

ImagePullReasons == {"ImagePullBackOff", "ErrImagePull", "InvalidImageName"}

ImagePullFindings(g) ==
    UNION {{FindingOf("image-pull-failure", r, c, "current") :
              c \in {d \in ContainersOf(g, r) :
                       ObjectOf(g, r).statuses[d].waiting \in ImagePullReasons}} :
            r \in PodRefs(g)}

SoleVolumeConsumer(mounts) ==
    IF Cardinality(mounts) = 1 THEN CHOOSE c \in mounts : TRUE ELSE NoSubject

\* Each reference and the container it is for, once however often it is made.
ConfigRefs(pod) ==
    pod.env \cup {[ref |-> v.ref, container |-> SoleVolumeConsumer(v.mounts)] : v \in pod.volumes}

MissingConfigRefFindings(g) ==
    UNION {{FindingAbout("missing-config-reference", r, use.container, use.ref, "current") :
              use \in {u \in ConfigRefs(ObjectOf(g, r)) :
                         InGraph(g, u.ref) /\ Missing(g.nodes[u.ref])}} :
            r \in PodRefs(g)}

-----------------------------------------------------------------------------

StatefulSetUnavailableFindings(g) ==
    {FindingOf("statefulset-unavailable", r, NoSubject, "current") :
        r \in {s \in Held(g, "StatefulSet") :
                /\ ObjectOf(g, s).desired # 0
                /\ ObjectOf(g, s).available < ObjectOf(g, s).desired}}

StartFindings(g) ==
    PodUnschedulableFindings(g) \cup PersistentVolumeClaimFindings(g) \cup ImagePullFindings(g)
    \cup MissingConfigRefFindings(g) \cup StatefulSetUnavailableFindings(g)

=============================================================================
