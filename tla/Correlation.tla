----------------------------- MODULE Correlation -----------------------------
(***************************************************************************)
(* Which finding explains which (internal/diag/correlate.go), and how the  *)
(* console shows the result: root causes, the symptoms they explain, and   *)
(* findings nothing is linked to (internal/report/console.go).             *)
(*                                                                         *)
(* A finding is [type, resource, container, about, impact]; container is   *)
(* NoSubject when the finding is about the whole resource, and about is    *)
(* what its summary names beside it, NoSubject for nothing.  The code      *)
(* keeps pointers in both directions; here links is one set of             *)
(* <<cause, effect>> pairs.  The table holds every mechanism of the code;  *)
(* sorting is left out.                                                    *)
(***************************************************************************)
EXTENDS ResourceGraph, FiniteSetsExt

NoSubject == ""

FindingAbout(type, resource, container, about, impact) ==
    [type |-> type, resource |-> resource, container |-> container, about |-> about,
     impact |-> impact]

FindingOf(type, resource, container, impact) ==
    FindingAbout(type, resource, container, NoSubject, impact)

-----------------------------------------------------------------------------
(* The relations a mechanism may require, beyond the edges of the graph. *)

SameResource(c, e) == c.resource = e.resource

SamePodComponent(c, e) ==
    /\ SameResource(c, e)
    /\ c.container # NoSubject
    /\ c.container = e.container

\* A container that stopped with exit 137 while nothing says the kernel's OOM
\* killer did it.
SigkillTermination(term) == term.exit = 137 /\ term.reason # "OOMKilled"
OomTermination(term)     == term.reason = "OOMKilled"

TerminationOf(type, term) ==
    \/ type = "container-oomkilled" /\ OomTermination(term)
    \/ type = "container-sigkill" /\ SigkillTermination(term)

\* Faulty variant: an earlier termination of the container will do.
AnyTerminationMatchesFinding(g, c, e) ==
    /\ SameResource(c, e)
    /\ LET pod == ObjectOf(g, c.resource)
       IN  /\ c.container \in DOMAIN pod.statuses
           /\ ~pod.statuses[c.container].ready
           /\ pod.statuses[c.container].last # NoObject
           /\ TerminationOf(c.type, pod.statuses[c.container].last)

\* The finding's container is down now, in the way the finding says.
CurrentTerminationMatchesFinding(g, c, e) ==
    /\ SameResource(c, e)
    /\ ObjectOf(g, c.resource) # NoObject
    /\ LET pod == ObjectOf(g, c.resource)
       IN  /\ c.container \in DOMAIN pod.statuses
           /\ ~pod.statuses[c.container].ready
           /\ pod.statuses[c.container].terminated # NoObject
           /\ TerminationOf(c.type, pod.statuses[c.container].terminated)

SelectedByService(g, c, e)  == HasEdge(g, e.resource, c.resource, "selects")
\* Faulty variant: the ownership edge from the Deployment goes straight to its Pods.
DirectlyOwned(g, c, e)      == HasEdge(g, e.resource, c.resource, "owns")
OwnedByDeployment(g, c, e)  == HasTypedPath(g, e.resource, c.resource, <<"owns", "owns">>)
OwnedByStatefulSet(g, c, e) == HasEdge(g, e.resource, c.resource, "owns")
IsLatestRun(g, c, e)        == HasEdge(g, e.resource, c.resource, "latest-run")
ScheduledOnNode(g, c, e)    == HasEdge(g, e.resource, c.resource, "scheduled-on")

-----------------------------------------------------------------------------
(* A storage claim that keeps a Pod from being scheduled.  A Pod's          *)
(* unschedulable is NoObject, or what its PodScheduled condition says when  *)
(* it is False for Unschedulable: [says, names], where says is "unbound     *)
(* immediate", "unbound", "not found" or "other", and names the claims      *)
(* whose name the message holds.                                            *)

ClaimsOf(g, pod) == {e.to : e \in {f \in g.edges : f.from = pod /\ f.type = "claims-storage"}}

\* Faulty variant: a claim nobody could read is not counted.
KnownUnresolvedClaims(g, pod) ==
    {r \in ClaimsOf(g, pod) :
        /\ InGraph(g, r)
        /\ Missing(g.nodes[r]) \/ (ObjectOf(g, r) # NoObject /\ ObjectOf(g, r).phase = "Pending")}

UnresolvedClaims(g, pod) ==
    {r \in ClaimsOf(g, pod) :
        /\ InGraph(g, r)
        /\ ObjectOf(g, r) = NoObject \/ ObjectOf(g, r).phase = "Pending"}

\* Faulty variant: the message must hold the claim's name.
NamesTheClaim(g, pod, claim, type) ==
    /\ ObjectOf(g, pod) # NoObject
    /\ ObjectOf(g, pod).phase = "Pending"
    /\ ObjectOf(g, pod).unschedulable # NoObject
    /\ claim \in ObjectOf(g, pod).unschedulable.names

\* The scheduler's message names the constraint this finding is about.
NamesStorageConstraint(g, pod, claim, type) ==
    /\ ObjectOf(g, pod) # NoObject
    /\ ObjectOf(g, pod).phase = "Pending"
    /\ ObjectOf(g, pod).unschedulable # NoObject
    /\ LET condition == ObjectOf(g, pod).unschedulable
       IN  \/ /\ type = "persistent-volume-claim-missing"
              /\ condition.says = "not found" /\ claim \in condition.names
           \/ /\ type = "persistent-volume-claim-pending"
              /\ \/ condition.says = "unbound immediate"
                 \/ condition.says = "unbound" /\ claim \in condition.names

\* Faulty variant: one unresolved claim of several will do.
ClaimAmongUnresolved(g, c, e) ==
    /\ HasEdge(g, e.resource, c.resource, "claims-storage")
    /\ c.resource \in UnresolvedClaims(g, e.resource)
    /\ NamesStorageConstraint(g, e.resource, c.resource, c.type)

StorageClaimBlocksPod(g, c, e) ==
    /\ HasEdge(g, e.resource, c.resource, "claims-storage")
    /\ UnresolvedClaims(g, e.resource) = {c.resource}
    /\ NamesStorageConstraint(g, e.resource, c.resource, c.type)

-----------------------------------------------------------------------------
(* A Pod that used up the retries of its Job.  A Job's failed and target    *)
(* are the reasons of its Failed and FailureTarget conditions, "" for none; *)
(* its backoffLimit is NoLimit when the specification sets none.            *)

NoLimit == -1

FailureReason(job) == IF job.failed # "" THEN job.failed ELSE job.target

\* Faulty variant: any Pod the failed Job owns is the one that failed it.
OwnedByFailedJob(g, c, e) ==
    /\ HasEdge(g, e.resource, c.resource, "owns")
    /\ ObjectOf(g, e.resource) # NoObject
    /\ FailureReason(ObjectOf(g, e.resource)) = "BackoffLimitExceeded"

\* Faulty variant: the Job is blamed on its Pods only when it has ended.
ExhaustedInEndedJob(g, c, e) ==
    /\ HasEdge(g, e.resource, c.resource, "owns")
    /\ ObjectOf(g, e.resource) # NoObject
    /\ ObjectOf(g, e.resource).backoffLimit = 0
    /\ ObjectOf(g, e.resource).failed = "BackoffLimitExceeded"
    /\ ObjectOf(g, c.resource) # NoObject
    /\ ObjectOf(g, c.resource).phase = "Failed"

FailedPodExhaustedJobRetryBudget(g, c, e) ==
    /\ HasEdge(g, e.resource, c.resource, "owns")
    /\ ObjectOf(g, e.resource) # NoObject
    /\ ObjectOf(g, e.resource).backoffLimit = 0
    /\ FailureReason(ObjectOf(g, e.resource)) = "BackoffLimitExceeded"
    /\ ObjectOf(g, c.resource) # NoObject
    /\ ObjectOf(g, c.resource).phase = "Failed"

-----------------------------------------------------------------------------
(* The ReplicaSet a Deployment is rolling out. *)

OwnedReplicaSets(g, dep) ==
    {r \in {e.to : e \in {f \in g.edges : f.from = dep /\ f.type = "owns"}} :
        r.kind = "ReplicaSet" /\ ObjectOf(g, r) # NoObject}

\* Those made from the Deployment's present template.
CurrentTemplate(g, dep) ==
    {r \in OwnedReplicaSets(g, dep) : ObjectOf(g, r).template = ObjectOf(g, dep).template}

Younger(g, r, s) ==
    \/ ObjectOf(g, r).created > ObjectOf(g, s).created
    \/ ObjectOf(g, r).created = ObjectOf(g, s).created /\ ObjectOf(g, r).rank > ObjectOf(g, s).rank

\* Faulty variant: whatever was created last is taken for the target.
LatestReplicaSet(g, dep) ==
    {r \in OwnedReplicaSets(g, dep) : \A s \in OwnedReplicaSets(g, dep) : ~Younger(g, s, r)}

\* The oldest of them, or none.
CurrentTemplateReplicaSet(g, dep) ==
    {r \in CurrentTemplate(g, dep) : \A s \in CurrentTemplate(g, dep) : ~Younger(g, r, s)}

OwnedByDeploymentRolloutTarget(g, c, e) ==
    /\ ObjectOf(g, e.resource) # NoObject
    /\ \E target \in CurrentTemplateReplicaSet(g, e.resource) :
        HasEdge(g, target, c.resource, "owns")

-----------------------------------------------------------------------------
(* The mechanisms, by the relation each requires. *)

SamePodMechanisms ==
    {<<"readiness-probe-port-mismatch", "readiness-probe-failing">>,
     <<"missing-config-reference", "crashloop-backoff">>,
     <<"container-oomkilled", "crashloop-backoff">>,
     <<"container-sigkill", "crashloop-backoff">>}

\* Faulty variant: a Deployment that is short of replicas also explains the rollout.
CircularMechanisms ==
    {<<"readiness-probe-failing", "pod-not-ready">>,
     <<"service-selector-no-pods", "service-no-ready-endpoints">>,
     <<"pod-evicted", "pod-not-ready">>,
     <<"rollout-stuck", "deployment-unavailable">>,
     <<"deployment-unavailable", "rollout-stuck">>}

SameResourceMechanisms ==
    {<<"readiness-probe-failing", "pod-not-ready">>,
     <<"missing-config-reference", "pod-not-ready">>,
     <<"crashloop-backoff", "pod-not-ready">>,
     <<"image-pull-failure", "pod-not-ready">>,
     <<"pod-unschedulable", "pod-not-ready">>,
     <<"service-selector-no-pods", "service-no-ready-endpoints">>,
     <<"pod-evicted", "pod-not-ready">>,
     <<"rollout-stuck", "deployment-unavailable">>}

TerminationMechanisms ==
    {<<"container-oomkilled", "pod-not-ready">>, <<"container-sigkill", "pod-not-ready">>}

StorageMechanisms ==
    {<<"persistent-volume-claim-missing", "pod-unschedulable">>,
     <<"persistent-volume-claim-pending", "pod-unschedulable">>}

Explains(g, c, e) ==
    LET mechanism == <<c.type, e.type>>
    IN  \/ mechanism \in SamePodMechanisms /\ SamePodComponent(c, e)
        \/ mechanism \in SameResourceMechanisms /\ SameResource(c, e)
        \/ mechanism \in TerminationMechanisms /\ CurrentTerminationMatchesFinding(g, c, e)
        \/ mechanism \in StorageMechanisms /\ StorageClaimBlocksPod(g, c, e)
        \/ mechanism = <<"pod-not-ready", "service-no-ready-endpoints">> /\ SelectedByService(g, c, e)
        \/ mechanism = <<"pod-not-ready", "deployment-unavailable">> /\ OwnedByDeployment(g, c, e)
        \/ mechanism = <<"pod-not-ready", "rollout-stuck">> /\ OwnedByDeploymentRolloutTarget(g, c, e)
        \/ mechanism = <<"pod-not-ready", "statefulset-unavailable">> /\ OwnedByStatefulSet(g, c, e)
        \/ mechanism = <<"pod-not-ready", "job-failed">> /\ FailedPodExhaustedJobRetryBudget(g, c, e)
        \/ mechanism = <<"job-failed", "cronjob-latest-run-failed">> /\ IsLatestRun(g, c, e)
        \/ mechanism = <<"node-pressure", "pod-evicted">> /\ ScheduledOnNode(g, c, e)

Correlate(g, findings) ==
    {link \in findings \X findings : link[1] # link[2] /\ Explains(g, link[1], link[2])}

-----------------------------------------------------------------------------
(* What the console makes of the links. *)

Causes(links, f)   == {link[2] : link \in {l \in links : l[1] = f}}
CausedBy(links, f) == {link[1] : link \in {l \in links : l[2] = f}}

IsRootCandidate(links, f) == CausedBy(links, f) = {} /\ Causes(links, f) # {}
IsSymptom(links, f)       == CausedBy(links, f) # {}

RootCauses(links, findings) == {f \in findings : IsRootCandidate(links, f)}
Symptoms(links, findings)   == {f \in findings : IsSymptom(links, f)}
Standalone(links, findings) ==
    {f \in findings : Causes(links, f) = {} /\ CausedBy(links, f) = {}}

\* The length of a longest path on from a finding, at[1], past those seen, at[2].
ChainDepth(links, findings) ==
    LET depth[at \in findings \X SUBSET findings] ==
          LET onward == Causes(links, at[1]) \ at[2]
          IN  IF onward = {}
              THEN 0
              ELSE Max({1 + depth[<<c, at[2] \cup {c}>>] : c \in onward})
    IN  depth

\* Faulty variant: the path goes on with any finding that is explained.
AnyNext(links, findings, cur, seen) ==
    CHOOSE c \in Causes(links, cur) \ seen :
        \A d \in Causes(links, cur) \ seen :
            ChainDepth(links, findings)[<<c, seen>>] <= ChainDepth(links, findings)[<<d, seen>>]

\* The explained finding the path goes on with: one from which it gets longest.
NextInChain(links, findings, cur, seen) ==
    CHOOSE c \in Causes(links, cur) \ seen :
        \A d \in Causes(links, cur) \ seen :
            ChainDepth(links, findings)[<<d, seen>>] <= ChainDepth(links, findings)[<<c, seen>>]

\* The path the console draws from a root cause.
Chain(links, findings, root) ==
    LET path[n \in 1..Cardinality(findings)] ==
          IF n = 1
          THEN <<root>>
          ELSE LET before == path[n - 1]
                   cur    == before[Len(before)]
                   seen   == {before[i] : i \in DOMAIN before}
               IN  IF Causes(links, cur) \subseteq seen
                   THEN before
                   ELSE Append(before, NextInChain(links, findings, cur, seen))
    IN  path[Cardinality(findings)]

=============================================================================
