-------------------------- MODULE RolloutProperties --------------------------
(***************************************************************************)
(* What may explain what in an inspection of a rollout, and what the       *)
(* console shows of it (Rollout).                                          *)
(***************************************************************************)
EXTENDS Rollout, Console

\* No rule is asked about evidence that spans a transition.
Findings ==
    IF plan # <<>> \/ HasCollectionSourceIssue(graph, "temporal-integrity")
    THEN {}
    ELSE PodFindings(graph) \cup WorkloadFindings(graph)

Links == Correlate(graph, Findings)

Linked(cause, effect) ==
    {link \in Links : link[1].type = cause /\ link[2].type = effect}

\* What a finding leads to, directly or not.  No path has more than four links:
\* each leads to a type of a higher level (LinksGoUp in Rollout_proofs).
Further(links, findings) == findings \cup UNION {Causes(links, f) : f \in findings}
Onward(links, f) ==
    Further(links, Further(links, Further(links, Further(links, {f}))))

\* The paths of links of n findings from a finding on; a reference for Chain.
Paths(links, f, n) ==
    LET paths[m \in 1..n] ==
          IF m = 1
          THEN {<<f>>}
          ELSE {Append(path[1], path[2]) :
                  path \in {p \in paths[m - 1] \X {l[2] : l \in links} :
                              <<p[1][m - 1], p[2]>> \in links}}
    IN  paths[n]

-----------------------------------------------------------------------------

\* Every variable has its type; a complete graph has a node at both ends of its edges.
TypeOK ==
    /\ deployment \in [template : Templates, available : {0, 1},
                       exceeded : BOOLEAN, synced : BOOLEAN]
    /\ replicaSets \in [Templates -> {Never} \cup Nat]
    /\ pods \in [Templates -> PodStates]
    /\ edits \in 0..MaxEdits
    /\ lag \in 0..MaxLag
    /\ focus \in Foci
    /\ changed \in BOOLEAN
    /\ plan = <<>> => \A e \in graph.edges : {e.from, e.to} \subseteq DOMAIN graph.nodes

\* A Pod is named as what blocks a rollout only if it was made from the template the
\* Deployment had when it was read, whichever ReplicaSet is older and whatever was
\* rolled out or back before and meanwhile (ownedByDeploymentRolloutTarget).
BlockerRunsCurrentTemplate ==
    \A link \in Linked("pod-not-ready", "rollout-stuck") :
        link[1].resource = PodRef(ObjectOf(graph, link[2].resource).template)

\* And a Pod of any ReplicaSet, an older one included, still explains why its
\* Deployment is short of replicas (ownedByDeployment).
OlderPodsExplainUnavailability ==
    \A f, e \in Findings :
        /\ f.type = "pod-not-ready" /\ e.type = "deployment-unavailable"
        /\ \E t \in Templates :
            /\ f.resource = PodRef(t)
            /\ HasEdge(graph, DeploymentRef, ReplicaSetRef(t), "owns")
        => <<f, e>> \in Links

\* The console lists symptoms as "explained by the causes above": following links back
\* from any symptom ends at a finding that was listed as a root cause.
EverySymptomHasARoot ==
    LET links == Links
    IN  \A f \in Symptoms(links, Findings) :
            \E root \in RootCauses(links, Findings) : f \in Onward(links, root)

\* The chain drawn for a root cause follows links, and no longer one does (Chain).
ChainIsLongest ==
    LET links == Links
    IN  \A root \in RootCauses(links, Findings) :
            LET chain == Chain(links, Findings, root)
            IN  /\ chain \in Paths(links, root, Len(chain))
                /\ Paths(links, root, Len(chain) + 1) = {}

\* HasTypedPath answers whether some walk over the edges spells exactly that path of
\* types from one resource to the other (graph.go:333-356).
TypedPathIsWalk ==
    plan = <<>> =>
        \A from \in DOMAIN graph.nodes :
            Frontier(graph, from, <<"owns", "owns">>) =
                {to \in DOMAIN graph.nodes : \E between \in DOMAIN graph.nodes :
                    HasEdge(graph, from, between, "owns") /\ HasEdge(graph, between, to, "owns")}

\* Replicas shown as one entry either all keep the rollout from finishing or none does:
\* a Pod of an old ReplicaSet is never counted among those that block the new one
\* (replicaGroupKey, causalTypeSignature).
BlockersAreNotCollapsed ==
    LET links == Links
        Blocks(f) == \E e \in Causes(links, f) : e.type = "rollout-stuck"
    IN  \A entry \in Entries(graph, links, Findings) :
            \A f, h \in entry : Blocks(f) => Blocks(h)

\* If nothing moved while the inspection read, a Service without an endpoint although
\* a Pod it selects is Ready is explained by the port it names: the rule that reads the
\* Pods' ports and the one that reads EndpointSlices do not contradict each other
\* (serviceTargetPortMismatchRule, serviceNoReadyEndpointsRule).
UnroutedPodIsExplained ==
    \A f \in Findings :
        /\ lag = 0
        /\ f.type = "service-no-ready-endpoints"
        /\ \E p \in SelectedPods(graph, f.resource) : ObjectOf(graph, p).ready
        => FindingOf("service-target-port-mismatch", f.resource, NoSubject, "current") \in Findings

=============================================================================
