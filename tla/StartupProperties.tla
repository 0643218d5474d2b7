-------------------------- MODULE StartupProperties --------------------------
(***************************************************************************)
(* What an inspection of Pods that do not start may conclude (Startup).    *)
(***************************************************************************)
EXTENDS Startup

\* No rule is asked about evidence that spans a transition.
Findings(g) ==
    IF plan # <<>> \/ HasCollectionSourceIssue(g, "temporal-integrity")
    THEN {}
    ELSE PodFindings(g) \cup StartFindings(g)

Links(g) == Correlate(g, Findings(g))

-----------------------------------------------------------------------------

\* Every variable has its type; a complete graph has a node at both ends of its edges.
TypeOK ==
    /\ claims \in [Claims -> {"absent", "Pending", "Bound"}]
    /\ {configMap, secret, changed, fresh} \subseteq BOOLEAN
    /\ pods \in [Ordinals -> {"pending", "creating", "pullError", "configError", "running"}]
    /\ available \in 0..Cardinality(Ordinals)
    /\ lag \in 0..MaxLag
    /\ failures \in 0..MaxFailures
    /\ focus \in Foci
    /\ plan = <<>> =>
        \A g \in {graph, complete} : \A e \in g.edges : {e.from, e.to} \subseteq DOMAIN g.nodes

\* "No conclusion was inferred from unavailable data" (console.go:69): what is found to
\* be a current problem and what is linked to what although some calls failed would also
\* be with their answers.
NothingInferredFromGaps ==
    /\ \A f \in Findings(graph) : f.impact = "current" => f \in Findings(complete)
    /\ Links(graph) \subseteq Links(complete)

\* The rule that reports a Pending claim and the correlation, each on its own, ask
\* whether it blocks a Pod; they agree: the claim is a current problem exactly if
\* something is explained by it (claimBlocksAnyPod, storageClaimBlocksPod).
PendingImpactMatchesLink ==
    \A f \in Findings(graph) :
        f.type = "persistent-volume-claim-pending" =>
            (f.impact = "current" <=> Causes(Links(graph), f) # {})

\* A claim whose binding waits for its Pod is no current problem, whatever else keeps the
\* Pod from being scheduled, as long as what the scheduler says of the Pod is still true
\* and nothing moves while it is inspected.
DelayedBindingIsNoOutage ==
    fresh => \A f \in Findings(graph) :
        f.resource \in Delayed /\ f.impact = "current" => ClaimObject(f.resource) = NoObject

\* And if one claim alone keeps a Pod waiting, and every call was answered, it is the
\* root of the Pod's symptoms and of the StatefulSet's.
SoleObstacleIsRoot ==
    fresh /\ graph = complete =>
        \A u \in Findings(graph) :
            \A c \in ClaimsOf(graph, u.resource) :
                /\ u.type = "pod-unschedulable"
                /\ claims[c] = "absent" \/ (claims[c] = "Pending" /\ c \notin Delayed)
                /\ \A d \in ClaimsOf(graph, u.resource) \ {c} : claims[d] = "Bound"
                => LET links    == Links(graph)
                       notReady == FindingOf("pod-not-ready", u.resource, NoSubject, "current")
                   IN  /\ \E f \in RootCauses(links, Findings(graph)) :
                            f.resource = c /\ <<f, u>> \in links
                       /\ <<u, notReady>> \in links
                       /\ \A e \in Findings(graph) :
                            e.type = "statefulset-unavailable" => <<notReady, e>> \in links

\* A Pod the kubelet cannot configure is explained by what it refers to and does not
\* exist, or the inspection says that it could not, or would not, look that up
\* (missingConfigRefRule, addConfigRefs).
ConfigErrorIsExplained ==
    fresh => \A e \in Findings(graph) :
        /\ e.type = "pod-not-ready"
        /\ \E c \in ContainersOf(graph, e.resource) :
            ObjectOf(graph, e.resource).statuses[c].waiting = "CreateContainerConfigError"
        /\ ~(\E p \in Ordinals : e.resource = PodRef(p) /\ Configured(p))
        => \/ \E f \in CausedBy(Links(graph), e) : f.type = "missing-config-reference"
           \/ \E use \in ConfigRefs(ObjectOf(graph, e.resource)) :
                \E i \in graph.issues : i.resource = use.ref

=============================================================================
