-------------------------- MODULE AutoscalerRules --------------------------
(***************************************************************************)
(* Which HorizontalPodAutoscalers the rule about them judges               *)
(* (internal/diag/rules_autoscaling.go): a second copy of the staleness    *)
(* test the collector has made.  What it then says of metrics and of the   *)
(* upper bound is read off the HPA's own conditions and left out.          *)
(***************************************************************************)
EXTENDS ResourceGraph, FiniteSets

\* Only concrete evidence that the status is stale counts against it.
HpaStatusIsCurrent(hpa) == hpa.gen <= 0 \/ hpa.obs = NilGeneration \/ hpa.obs >= hpa.gen

ScaledBy(g, r) == {e.to : e \in {f \in g.edges : f.from = r /\ f.type = "scales"}}

HpaDeploymentTarget(g, r) ==
    Cardinality(ScaledBy(g, r)) = 1 /\ \A d \in ScaledBy(g, r) : d.kind = "Deployment"

\* The HPAs a finding may be about.
Judged(g) ==
    {r \in DOMAIN g.nodes :
        /\ r.kind = "HorizontalPodAutoscaler"
        /\ ObjectOf(g, r) # NoObject
        /\ HpaStatusIsCurrent(ObjectOf(g, r))
        /\ HpaDeploymentTarget(g, r)}

=============================================================================
