------------------------------ MODULE MCEngine ------------------------------
(***************************************************************************)
(* An instance: a rule that reads the API server's word and one that reads *)
(* the kubelet's, a Pod on two Nodes' worth of evidence, and graphs with   *)
(* every kind of gap a collector leaves.                                   *)
(***************************************************************************)
EXTENDS EngineProperties

Ref(kind, name) == [kind |-> kind, name |-> name]

pod == Ref("Pod", "web")
svc == Ref("Service", "web")
n1 == Ref("Node", "n1")
n2 == Ref("Node", "n2")

MCRefs == {pod, svc, n1, n2}

MCRules ==
    <<[id |-> "pod-not-ready", min |-> 34, max |-> 37, kubelet |-> FALSE,
       types |-> {"pod-not-ready"}],
      [id |-> "container-oomkilled", min |-> 34, max |-> 37, kubelet |-> TRUE,
       types |-> {"container-oomkilled", "container-sigkill"}]>>

MCTypes == {"pod-not-ready", "container-oomkilled", "container-sigkill"}

\* At most one finding, of the focus or of the Service that selects it.
MCEmissions ==
    {{}} \cup {{f} : f \in [type : {"pod-not-ready", "container-oomkilled"},
                            resource : {pod, svc}, impact : {"", "risk"}]}

Object1(ref) == [ref |-> ref, uid |-> <<ref, 1>>, rv |-> 1, gen |-> 0, obs |-> 0, owners |-> <<>>]

\* The focus and its Nodes; the second Node may not have been read.
Base(read) ==
    LET g == AddNodes(NewGraph(pod), {Object1(r) : r \in {pod, n1} \cup read})
    IN  IF read = {} THEN AddCollectionIssue(AddUnknownNode(g, n2), Issue("node", n2, FALSE)) ELSE g

\* What else could not be collected.
Gaps == {Issue("temporal-integrity", pod, TRUE), Issue("endpointslices", svc, FALSE),
         Issue("job", pod, TRUE)}

MCGraphs ==
    {[IF version THEN SetKubernetesVersion(Base(read))
      ELSE AddCollectionIssue(Base(read), Issue("kubernetes-version", pod, TRUE))
      EXCEPT !.issues = @ \cup gaps] :
        version \in BOOLEAN, read \in SUBSET {n2}, gaps \in SUBSET Gaps}

=============================================================================
