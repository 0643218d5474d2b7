------------------------ MODULE CollectorProperties ------------------------
(***************************************************************************)
(* What the graph of an inspection may be trusted for.                     *)
(***************************************************************************)
EXTENDS Collector, AutoscalerRules

Nodes(kinds) == {r \in DOMAIN graph.nodes : r.kind \in kinds}

EdgeTypes == {"owns", "selects", "references", "claims-storage", "scheduled-on", "latest-run",
              "routes-to", "scales"}

EdgeType == [from : Refs, to : Refs, type : EdgeTypes]

\* The tasks that start from an object, and those about the focus.
OfObject == {"pod", "exactOwner", "replicaSet", "deployment", "configMap", "secret",
             "claim", "node", "jobPods", "service", "podEvents"}

OfFocus == {"clusterInfo", "selectedPods", "slices", "autoscalers", "replicaSets",
            "deploymentPods", "statefulSetPods", "cronJobJobs", "services", "events",
            "finish", "link"}

TaskType == [op : OfObject \cup OfFocus, object : Object \cup {NoObject}, ref : Refs, uid : UID,
             edges : SUBSET EdgeType]

TypeOK ==
    /\ cluster \in [Refs -> Object \cup {NoObject}]
    /\ revision \in 1..MaxRevision
    /\ focus \in Foci
    /\ status \in {"running", "failed", "collected"}
    /\ \A i \in DOMAIN work : work[i] \in TaskType
    /\ IsGraph(graph)
    /\ DOMAIN graph.nodes \subseteq Refs
    /\ \A r \in DOMAIN graph.nodes :
        graph.nodes[r] \in [object : {o \in Object : o.ref = r} \cup {NoObject}, unknown : BOOLEAN]
    /\ graph.edges \subseteq EdgeType
    /\ graph.focus = focus
    /\ graph.start \in Revision \cup {NoObject}
    /\ graph.stability \in {"unknown", "stable", "changed"}
    /\ expired \in BOOLEAN /\ disturbed \in BOOLEAN
    /\ notFound \subseteq Refs

\* "Missing" is a fact: the API server answered NotFound to a read of exactly
\* that resource.  No failed or forbidden call, deadline or UID mismatch ever
\* turns into it (graph.go:60-66, collector.go:831-841 and 904-915).
MissingIsDefinite ==
    \A r \in DOMAIN graph.nodes : Missing(graph.nodes[r]) => r \in notFound

\* No silent gap: whatever could not be read is an issue on the graph, under the
\* source and the resource it was about (collector.go:6-9, graph.go:75-77).
NoSilentGap ==
    status = "collected" =>
        /\ \A f \in failed : HasCollectionIssue(graph, f.source, f.resource)
        /\ \A r \in DOMAIN graph.nodes :
            ExistenceUnknown(graph.nodes[r]) => HasCollectionIssue(graph, SourceOf(r.kind), r)

\* Ownership by UID: a Job, StatefulSet or CronJob owns only children that name
\* the incarnation in the graph, though it be recreated under the same name
\* between the read of the child and its own (collector.go:434-499, 565-602).
ExactOwners ==
    \A e \in graph.edges :
        (e.type = "owns" /\ e.from.kind \in {"Job", "StatefulSet", "CronJob"}) =>
            /\ ObjectOf(graph, e.from) # NoObject
            /\ \E i \in DOMAIN ObjectOf(graph, e.to).owners :
                ObjectOf(graph, e.to).owners[i] =
                    [ref |-> e.from, uid |-> ObjectOf(graph, e.from).uid, controller |-> TRUE]

\* The final read of the focus tells whether anyone wrote it since the first
\* one, deletion and recreation included (collector.go:669-701).
StableMeansUndisturbed ==
    status = "collected" =>
        /\ graph.stability = "stable"  => ~disturbed
        /\ graph.stability = "changed" => disturbed

Suspended(g) == HasCollectionSourceIssue(g, "temporal-integrity")

\* Rules are evaluated (Engine.Evaluate does not suspend them) only over a graph
\* whose focus was stable and whose controllers had all seen the specifications
\* they are judged by, related ones included (collector.go:708-753).
EvaluatedIsCurrent ==
    (status = "collected" /\ ~Suspended(graph)) =>
        /\ ~disturbed
        /\ \A r \in Nodes({"Deployment", "ReplicaSet", "StatefulSet"}) :
            ObjectOf(graph, r) # NoObject =>
                ObjectOf(graph, r).gen = 0 \/ ObjectOf(graph, r).obs >= ObjectOf(graph, r).gen

\* An inspection that outlived its deadline never reports a healthy focus: its
\* graph carries an issue that blocks health.
DeadlineBlocksHealth ==
    (status = "collected" /\ expired) => HasHealthBlockingIssue(graph)

\* Whatever happened, the graph handed to the engine is one it can be sure of: the
\* engine skips rules for an unknown version and suspends them for a torn graph by
\* these issues alone (collector.go:669-701, 755-802, engine.go:81-107).
HandsOverCollectedGraph == status = "collected" => CollectedGraph(graph)

\* No HPA is passed over without a word: each one in the graph is judged by the
\* rule, or an issue names it as stale.  The collector and the rule each have a
\* staleness test of their own (collector.go:957, rules_autoscaling.go:86-93).
NoHpaPassedOver ==
    \A h \in Nodes({"HorizontalPodAutoscaler"}) :
        h \in Judged(graph) \/ HasCollectionIssue(graph, "horizontalpodautoscaler", h)

\* The Jobs that exist and are controlled by the CronJob read first, by its UID.
RunsHeld ==
    {j \in OfKind(Refs, "Job") :
        /\ cluster[j] # NoObject
        /\ \E i \in DOMAIN cluster[j].owners :
            cluster[j].owners[i] = [ref |-> focus, uid |-> graph.start.uid, controller |-> TRUE]}

\* What a step may bring to the graph of a CronJob: one Job, if it is the latest run.
JoinsAsLatest ==
    focus.kind = "CronJob" =>
        \A j \in Nodes({"Job"})' \ Nodes({"Job"}) :
            /\ Nodes({"Job"})' = {j}
            /\ j \in RunsHeld /\ ObjectOf(graph', j) = cluster[j]
            /\ \A k \in RunsHeld :
                Shape[k].stamped /\ (k # j => Shape[k].at < Shape[j].at)

\* The Job that enters the graph of a CronJob is, at that moment, its latest run: every
\* other Job the CronJob controls is of an earlier schedule, and each of them says which.
\* No second Job ever joins it, whatever owners the Pods collected later name; so a
\* retained old failure is no evidence about a newer run (collector.go:253-257, 288-337).
OnlyLatestRun == [][JoinsAsLatest]_vars

\* Only Events about the incarnation of a Pod that is in the graph are kept, so
\* no Event of a deleted Pod of the same name is evidence (collector.go:969-1004).
NoForeignEvents ==
    \A e \in graph.events :
        /\ ObjectOf(graph, e.involved) # NoObject
        /\ e.uid = ObjectOf(graph, e.involved).uid

\* What the inspection comes to once the collector is done and the engine has
\* looked at the graph.
Outcome ==
    CASE status = "running" -> "pending"
      [] status = "failed"  -> "error"
      [] status = "collected" -> IF Suspended(graph) THEN "suspended" ELSE "evaluated"

Promise == INSTANCE Inspection WITH
    observing <- graph.start # NoObject, moved <- disturbed, outcome <- Outcome

\* The collector keeps the promise of module Inspection: comparing the two reads
\* of the focus tells what watching it would have told (collector.go:664-701).
PromiseKept == Promise!Spec

\* Every inspection ends: with a graph, or with the command's error.
InspectionEnds == <>(status # "running")

-----------------------------------------------------------------------------

\* What a comment of CollectDeployment says of ownership (collector.go:122-123:
\* "owner UID remains the authoritative relationship check"), of every owner
\* in the graph, ReplicaSets and Deployments included.
UIDDecidesOwnership ==
    \A e \in graph.edges :
        (e.type = "owns" /\ ObjectOf(graph, e.from) # NoObject) =>
            IsOwnedBy(ObjectOf(graph, e.to), ObjectOf(graph, e.from).uid)

=============================================================================
