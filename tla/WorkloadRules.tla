---------------------------- MODULE WorkloadRules ----------------------------
(***************************************************************************)
(* The rules that read Services and Deployments (internal/diag/            *)
(* rules_traffic.go, rules_workload.go, rules_rollout.go), as functions    *)
(* from a graph to findings.  In the graph,                                *)
(*   a Service is        [ref, selector, target]: selector is TRUE if it   *)
(*                       selects by labels, target "name" or "number", how *)
(*                       its port names the one of its Pods;               *)
(*   a Pod has declares, TRUE if some container declares that port;        *)
(*   an EndpointSlice is [ref, endpoints], a set of                        *)
(*                       [ready, serving, terminating];                    *)
(*   a Deployment is     [ref, template, desired, available, exceeded,     *)
(*                       synced]: exceeded when its Progressing condition  *)
(*                       is False for ProgressDeadlineExceeded, synced     *)
(*                       when its status is of its present generation;     *)
(*   a ReplicaSet is     [ref, template, created, rank], rank the place of *)
(*                       its name among the others'.                       *)
(* Each Service has one port, which its slices carry, and addresses that   *)
(* can be used.                                                            *)
(***************************************************************************)
EXTENDS PodRules

Held(g, kind) == {r \in DOMAIN g.nodes : r.kind = kind /\ ObjectOf(g, r) # NoObject}

Targets(g, r, type) == {e.to : e \in {f \in g.edges : f.from = r /\ f.type = type}}

-----------------------------------------------------------------------------
(* Services. *)

Selecting(g) == {r \in Held(g, "Service") : ObjectOf(g, r).selector}

\* No Pod is selected, and the list of Pods was answered.
SelectorNoPodsFindings(g) ==
    {FindingOf("service-selector-no-pods", r, NoSubject, "current") :
        r \in {s \in Selecting(g) : /\ ~HasCollectionIssue(g, "pod", s)
                                    /\ Targets(g, s, "selects") = {}}}

SelectedPods(g, r) == {p \in Targets(g, r, "selects") : ObjectOf(g, p) # NoObject}

\* Faulty variant: one Pod that declares the port is enough.
NoneDeclares(g, r) ==
    SelectedPods(g, r) # {} /\ \A p \in SelectedPods(g, r) : ~ObjectOf(g, p).declares

SomeUndeclared(g, r) == \E p \in SelectedPods(g, r) : ~ObjectOf(g, p).declares

\* A selected Pod does not declare the target port: only a number may still work.
TargetPortMismatchFindings(g) ==
    {FindingOf("service-target-port-mismatch", r, NoSubject,
        IF ObjectOf(g, r).target = "name" THEN "current" ELSE "risk") :
        r \in {s \in Held(g, "Service") : SomeUndeclared(g, s)}}

EndpointsOf(g, r) ==
    UNION {ObjectOf(g, slice).endpoints :
            slice \in {s \in Targets(g, r, "routes-to") : ObjectOf(g, s) # NoObject}}

ServingTerminating(endpoint) == endpoint.terminating /\ endpoint.serving

\* No endpoint takes regular traffic: an outage, or only a risk of one while
\* endpoints that are going away still serve.
NoReadyEndpointsFindings(g) ==
    {IF \E e \in EndpointsOf(g, r) : ServingTerminating(e)
     THEN FindingOf("service-terminating-endpoints-only", r, NoSubject, "risk")
     ELSE FindingOf("service-no-ready-endpoints", r, NoSubject, "current") :
        r \in {s \in Selecting(g) : /\ ~HasCollectionIssue(g, "endpoint-slices", s)
                                    /\ \A e \in EndpointsOf(g, s) : ~e.ready}}

-----------------------------------------------------------------------------
(* Deployments. *)

DeploymentUnavailableFindings(g) ==
    {FindingOf("deployment-unavailable", r, NoSubject, "current") :
        r \in {d \in Held(g, "Deployment") :
                /\ ObjectOf(g, d).desired # 0
                /\ ObjectOf(g, d).available < ObjectOf(g, d).desired}}

RolloutStuckFindings(g) ==
    {FindingOf("rollout-stuck", r, NoSubject, "current") :
        r \in {d \in Held(g, "Deployment") : ObjectOf(g, d).exceeded}}

WorkloadFindings(g) ==
    SelectorNoPodsFindings(g) \cup TargetPortMismatchFindings(g) \cup NoReadyEndpointsFindings(g)
    \cup DeploymentUnavailableFindings(g) \cup RolloutStuckFindings(g)

=============================================================================
