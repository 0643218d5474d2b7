------------------------------- MODULE Rollout -------------------------------
(***************************************************************************)
(* A Deployment of one replica that is rolled out, back and out again      *)
(* behind a Service, while an inspection of the Deployment or of the       *)
(* Service reads the objects one call after another                        *)
(* (internal/kube/collector.go), and what the rules and the correlation    *)
(* make of what it read (WorkloadRules, PodRules, Correlation).            *)
(*                                                                         *)
(* The controllers are external to the repository, modelled from what the  *)
(* rules rely on:                                                          *)
(*   - the Deployment's status speaks of an earlier specification until    *)
(*     its controller has caught up (observedGeneration);                  *)
(*   - the controller uses the oldest ReplicaSet with the present          *)
(*     template and makes one if there is none; ReplicaSets of earlier     *)
(*     templates are kept, and their Pods until the new Pod is Ready;      *)
(*   - the controller may say that the rollout exceeded its deadline as    *)
(*     long as the new Pod is not Ready;                                   *)
(*   - a Pod that does not declare the port the Service names is no         *)
(*     endpoint of it, Ready or not.                                       *)
(***************************************************************************)
EXTENDS WorkloadRules

CONSTANTS
    Foci,       \* what the inspection may be asked about
    Declaring,  \* the templates whose Pods declare the port the Service names
    Histories,  \* the ReplicaSets there may be to begin with: [created], by template
    MaxEdits,   \* bound: how often the template is edited
    MaxLag      \* bound: what else happens once the inspection has begun

VARIABLES
    deployment,   \* [template, available, exceeded, synced]
    replicaSets,  \* for each template, when its ReplicaSet was made; Never if it was not
    pods,         \* the state of the Pod of each ReplicaSet
    edits,        \* how often the template was edited
    lag,          \* what happened since the inspection began
    focus,        \* what the inspection was asked about
    plan,         \* what it reads next, and after that
    changed,      \* the Deployment was written since the inspection read it
    graph         \* what it has collected

worldVars == <<deployment, replicaSets, pods, edits>>
vars == <<worldVars, lag, focus, plan, changed, graph>>

-----------------------------------------------------------------------------

Templates == {1, 2}
Never     == -1

DeploymentRef    == [kind |-> "Deployment", name |-> "d"]
ServiceRef       == [kind |-> "Service", name |-> "s"]
SliceRef         == [kind |-> "EndpointSlice", name |-> "s"]
ReplicaSetRef(t) == [kind |-> "ReplicaSet", name |-> t]
PodRef(t)        == [kind |-> "Pod", name |-> t]

PodStates == {"absent", "notready", "ready", "terminating"}

\* What can be read of the Service's slice.
SliceState == [ref : {SliceRef},
               endpoints : SUBSET [ready : BOOLEAN, serving : BOOLEAN, terminating : BOOLEAN]]

ASSUME RolloutAssumption ==
    /\ Foci \subseteq {DeploymentRef, ServiceRef}
    /\ Declaring \subseteq Templates
    /\ {DeploymentRef, ServiceRef, SliceRef} \cup {ReplicaSetRef(t) : t \in Templates}
        \cup {PodRef(t) : t \in Templates} \subseteq Refs
    /\ \A h \in Histories : h \in [Templates -> {Never} \cup Nat] /\ h[1] # Never
    /\ MaxEdits \in Nat
    /\ MaxLag \in Nat
    /\ NoObject \notin SliceState

Existing == {t \in Templates : replicaSets[t] # Never}

-----------------------------------------------------------------------------
(* Users and controllers. *)

Target == deployment.template

Edit ==
    /\ edits < MaxEdits
    /\ edits' = edits + 1
    /\ deployment' = [deployment EXCEPT !.template = 3 - @, !.synced = FALSE]
    /\ UNCHANGED <<replicaSets, pods>>

ReadyPods == {t \in Templates : pods[t] = "ready"}

\* The controller catches up; a new rollout has a deadline of its own.
Sync ==
    LET synced == [deployment EXCEPT
                     !.synced = TRUE, !.available = IF ReadyPods = {} THEN 0 ELSE 1,
                     !.exceeded = @ /\ deployment.synced /\ pods[Target] # "ready"]
    IN  /\ \/ synced # deployment
           \/ replicaSets[Target] = Never
        /\ deployment' = synced
        /\ replicaSets' = [replicaSets EXCEPT ![Target] =
                             IF @ = Never THEN 1 + Max({replicaSets[t] : t \in Templates}) ELSE @]
        /\ UNCHANGED <<pods, edits>>

DeadlineExceeded ==
    /\ deployment.synced
    /\ ~deployment.exceeded
    /\ pods[Target] # "ready"
    /\ deployment' = [deployment EXCEPT !.exceeded = TRUE]
    /\ UNCHANGED <<replicaSets, pods, edits>>

PodBecomes(t, state) ==
    /\ pods' = [pods EXCEPT ![t] = state]
    /\ UNCHANGED <<deployment, replicaSets, edits>>

CreatePod(t) ==
    /\ t \in Existing
    /\ pods[t] = "absent"
    /\ t = Target \/ pods[Target] # "ready"
    /\ PodBecomes(t, "notready")

Readiness(t) ==
    \/ pods[t] = "notready" /\ PodBecomes(t, "ready")
    \/ pods[t] = "ready" /\ PodBecomes(t, "notready")

Retire(t) ==
    \/ t # Target /\ pods[t] # "absent" /\ pods[Target] = "ready" /\ PodBecomes(t, "terminating")
    \/ pods[t] = "terminating" /\ PodBecomes(t, "absent")

World ==
    \/ Edit \/ Sync \/ DeadlineExceeded
    \/ \E t \in Templates : CreatePod(t) \/ Readiness(t) \/ Retire(t)

-----------------------------------------------------------------------------
(* The inspection. *)

PodObject(t) ==
    [ref |-> PodRef(t), uid |-> <<PodRef(t), 1>>, phase |-> "Running", reason |-> "",
     ready |-> pods[t] \in {"ready", "terminating"},
     limited |-> {}, probe |-> <<>>, statuses |-> <<>>, declares |-> t \in Declaring]

ReplicaSetObject(t) ==
    [ref |-> ReplicaSetRef(t), template |-> t, created |-> replicaSets[t], rank |-> t]

DeploymentObject ==
    [ref |-> DeploymentRef, template |-> deployment.template, desired |-> 1,
     available |-> deployment.available, exceeded |-> deployment.exceeded,
     synced |-> deployment.synced]

Endpoint(t) ==
    [ready |-> pods[t] = "ready", serving |-> pods[t] \in {"ready", "terminating"},
     terminating |-> pods[t] = "terminating"]

Present == {t \in Templates : pods[t] # "absent"}

\* The slice with the Service's port has no endpoint of a Pod without that port.
Routed == Present \cap Declaring

Doing(s) == plan # <<>> /\ Head(plan) = s /\ plan' = Tail(plan)

\* From a Service it is reached through the ReplicaSet of some selected Pod.
ReadDeployment ==
    /\ Doing("deployment")
    /\ graph' = IF focus = DeploymentRef \/ \E t \in Templates : InGraph(graph, ReplicaSetRef(t))
                THEN AddNode(graph, DeploymentRef, DeploymentObject)
                ELSE graph
    /\ changed' = FALSE

\* The Deployment's ReplicaSets; or those of the Pods the Service selects.
ReadReplicaSets ==
    /\ Doing("replicaSets")
    /\ LET read == {t \in Existing : focus = DeploymentRef \/ InGraph(graph, PodRef(t))}
       IN  graph' = AddEdges(AddNodes(graph, {ReplicaSetObject(t) : t \in read}),
                        {Edge(DeploymentRef, ReplicaSetRef(t), "owns") : t \in read} \cup
                        {Edge(ReplicaSetRef(t), PodRef(t), "owns") :
                            t \in {u \in read : InGraph(graph, PodRef(u))}})
    /\ UNCHANGED changed

\* The Pods of the ReplicaSets read; or those the Service selects.
ReadPods ==
    /\ Doing("pods")
    /\ LET read == {t \in Present : focus = ServiceRef \/ InGraph(graph, ReplicaSetRef(t))}
       IN  graph' = AddEdges(AddNodes(graph, {PodObject(t) : t \in read}),
                        {Edge(ServiceRef, PodRef(t), "selects") :
                            t \in {u \in read : focus = ServiceRef}} \cup
                        {Edge(ReplicaSetRef(t), PodRef(t), "owns") :
                            t \in {u \in read : InGraph(graph, ReplicaSetRef(u))}})
    /\ UNCHANGED changed

\* From a Deployment, only Services that select one of its Pods are looked at.
ReadService ==
    /\ Doing("service")
    /\ graph' = IF focus = ServiceRef \/ \E t \in Templates : InGraph(graph, PodRef(t))
                THEN AddEdges(AddNodes(graph,
                        {[ref |-> ServiceRef, selector |-> TRUE, target |-> "name"],
                         [ref |-> SliceRef, endpoints |-> {Endpoint(t) : t \in Routed}]}),
                        {Edge(ServiceRef, SliceRef, "routes-to")} \cup
                        {Edge(ServiceRef, PodRef(t), "selects") :
                            t \in {u \in Templates : InGraph(graph, PodRef(u))}})
                ELSE graph
    /\ UNCHANGED changed

\* The final read: a Deployment that was written since it was read as the focus, or whose
\* status was behind its specification, spoils the evidence.
Finish ==
    /\ Doing("finish")
    /\ graph' = IF \/ focus = DeploymentRef /\ changed
                   \/ InGraph(graph, DeploymentRef) /\ ~ObjectOf(graph, DeploymentRef).synced
                THEN AddCollectionIssue(graph, Issue("temporal-integrity", focus, TRUE))
                ELSE graph
    /\ UNCHANGED changed

Plan(ref) ==
    IF ref = DeploymentRef
    THEN <<"deployment", "replicaSets", "pods", "service", "finish">>
    ELSE <<"pods", "replicaSets", "deployment", "service", "finish">>

-----------------------------------------------------------------------------

Init ==
    /\ replicaSets \in Histories
    /\ deployment = [template |-> 1, available |-> 1, exceeded |-> FALSE, synced |-> TRUE]
    /\ pods = [t \in Templates |-> IF t = 1 THEN "ready" ELSE "absent"]
    /\ edits = 0
    /\ lag = 0
    /\ focus \in Foci
    /\ plan = Plan(focus)
    /\ changed = FALSE
    /\ graph = NewGraph(focus)

Begun == plan # Plan(focus)

WorldStep ==
    /\ plan # <<>>
    /\ Begun => lag < MaxLag
    /\ World
    /\ lag' = IF Begun THEN lag + 1 ELSE lag
    /\ changed' = (changed \/ deployment' # deployment)
    /\ UNCHANGED <<focus, plan, graph>>

InspectionStep ==
    /\ ReadDeployment \/ ReadReplicaSets \/ ReadPods \/ ReadService \/ Finish
    /\ UNCHANGED <<worldVars, lag, focus>>

Next == WorldStep \/ InspectionStep

Spec == Init /\ [][Next]_vars

=============================================================================
