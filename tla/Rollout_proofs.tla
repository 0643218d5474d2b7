--------------------------- MODULE Rollout_proofs ---------------------------
(***************************************************************************)
(* What may be said of a rollout, for every history of the ReplicaSets and *)
(* every interleaving of edits, controllers and reads.                     *)
(*                                                                         *)
(* Which Pod blocks it: the property itself speaks of links between        *)
(* findings; it holds because a ReplicaSet in the graph is the one of its  *)
(* template (GraphRight).  What explains a shortage or a Service without   *)
(* endpoints: no ownership between collected resources is missed, however  *)
(* the reads fall, and until something happens what was collected is as    *)
(* the cluster is (RInv).  Roots, entries and levels: facts of the table   *)
(* of mechanisms, for every graph.  The chain of a root cause: links go    *)
(* up, there are five levels, so the depth a chain is drawn by is right    *)
(* level by level, and a chain drawn by it is as long as any.              *)
(***************************************************************************)
EXTENDS RolloutProperties, TLAPS, SequenceTheorems, FiniteSetTheorems, WellFoundedInduction

\* A ReplicaSet in the graph has the template it is named after, and owns the Pod of it.
TemplatesRight(g) ==
    \A t \in Templates :
        ObjectOf(g, ReplicaSetRef(t)) # NoObject => ObjectOf(g, ReplicaSetRef(t)).template = t

OwnersRight(edges) ==
    \A e \in edges :
        e.type = "owns" /\ e.from.kind = "ReplicaSet" =>
            \E t \in Templates : e.from = ReplicaSetRef(t) /\ e.to = PodRef(t)

Right(g) == IsGraph(g) /\ TemplatesRight(g) /\ OwnersRight(g.edges)

\* The inductive invariant: what has been collected is right.
GraphRight == Right(graph)

-----------------------------------------------------------------------------

\* A node of another kind leaves the ReplicaSets in the graph as they are.
LEMMA AddNodeStaysRight ==
    ASSUME NEW g, Right(g), NEW ref, NEW object, ref.kind # "ReplicaSet"
    PROVE  Right(AddNode(g, ref, object))
<1>1. \A t : ReplicaSetRef(t) # ref
  BY DEF ReplicaSetRef
<1>2. CASE ObjectOf(g, ref) # NoObject
  BY <1>2 DEF AddNode
<1>3. CASE ObjectOf(g, ref) = NoObject
  <2> DEFINE h == AddNode(g, ref, object)
  <2>1. h = PutNode(g, ref, [object |-> object, unknown |-> FALSE])
    BY <1>3 DEF AddNode
  <2>2. IsGraph(h) /\ h.edges = g.edges
    BY <2>1 DEF Right, PutNode, IsGraph, GraphFields
  <2>3. \A t : ObjectOf(h, ReplicaSetRef(t)) = ObjectOf(g, ReplicaSetRef(t))
    BY <1>1, <2>1 DEF Right, ObjectOf, InGraph, PutNode, IsGraph, GraphFields
  <2>4. QED BY <2>2, <2>3 DEF Right, TemplatesRight
<1>4. QED BY <1>2, <1>3

\* Objects are added under the ref they carry.
LEMMA AddNodesStaysRight ==
    ASSUME NEW g, Right(g), NEW objects,
           \A o \in objects, t \in Templates : o.ref = ReplicaSetRef(t) => o.template = t
    PROVE  Right(AddNodes(g, objects)) /\ AddNodes(g, objects).edges = g.edges
<1> DEFINE h == AddNodes(g, objects)
<1>1. IsGraph(h) /\ h.edges = g.edges
  BY DEF Right, AddNodes, IsGraph, GraphFields
<1>2. SUFFICES ASSUME NEW t \in Templates, ObjectOf(h, ReplicaSetRef(t)) # NoObject
               PROVE  ObjectOf(h, ReplicaSetRef(t)).template = t
  BY <1>1 DEF Right, TemplatesRight
<1> DEFINE r     == ReplicaSetRef(t)
           named == {o \in objects : o.ref = r}
<1>3. /\ DOMAIN h.nodes = DOMAIN g.nodes \cup {o.ref : o \in objects}
      /\ r \in DOMAIN h.nodes =>
            h.nodes[r] = IF ObjectOf(g, r) = NoObject /\ named # {}
                         THEN [object |-> CHOOSE o \in named : TRUE, unknown |-> FALSE]
                         ELSE g.nodes[r]
  BY DEF Right, AddNodes, IsGraph, GraphFields
<1>4. CASE ObjectOf(g, r) = NoObject /\ named # {}
  <2>1. ObjectOf(h, r) = CHOOSE o \in named : TRUE
    BY <1>2, <1>3, <1>4 DEF ObjectOf, InGraph
  <2>2. ObjectOf(h, r) \in named
    BY <2>1, <1>4
  <2>3. QED BY <2>2
<1>5. CASE ObjectOf(g, r) # NoObject
  <2>1. ObjectOf(h, r) = ObjectOf(g, r)
    BY <1>3, <1>5 DEF ObjectOf, InGraph
  <2>2. QED BY <1>5, <2>1 DEF Right, TemplatesRight
<1>6. CASE ObjectOf(g, r) = NoObject /\ named = {}
  <2>1. r \in DOMAIN h.nodes => r \in DOMAIN g.nodes /\ h.nodes[r] = g.nodes[r]
    BY <1>3, <1>6
  <2>2. ObjectOf(h, r) = NoObject
    BY <1>6, <2>1 DEF ObjectOf, InGraph
  <2>3. QED BY <1>2, <2>2
<1>7. QED BY <1>4, <1>5, <1>6

\* Edges that say the right owner may be added.
LEMMA AddEdgesStaysRight ==
    ASSUME NEW g, Right(g), NEW edges, OwnersRight(edges)
    PROVE  Right(AddEdges(g, edges))
<1>1. /\ IsGraph(AddEdges(g, edges))
      /\ AddEdges(g, edges).nodes = g.nodes
      /\ AddEdges(g, edges).edges = g.edges \cup edges
  BY DEF Right, AddEdges, IsGraph, GraphFields
<1>2. QED BY <1>1 DEF Right, TemplatesRight, OwnersRight, ObjectOf, InGraph

\* Issues change neither nodes nor edges.
LEMMA AddIssueStaysRight ==
    ASSUME NEW g, Right(g), NEW issue
    PROVE  Right(AddCollectionIssue(g, issue))
<1>1. /\ IsGraph(AddCollectionIssue(g, issue))
      /\ AddCollectionIssue(g, issue).nodes = g.nodes
      /\ AddCollectionIssue(g, issue).edges = g.edges
  BY DEF Right, AddCollectionIssue, IsGraph, GraphFields
<1>2. QED BY <1>1 DEF Right, TemplatesRight, ObjectOf, InGraph

-----------------------------------------------------------------------------

\* An inspection begins with nothing in the graph.
LEMMA InitRight == Init => GraphRight
<1> SUFFICES ASSUME Init PROVE Right(graph)
  BY DEF GraphRight
<1>1. graph.nodes = [r \in {} |-> NoObject] /\ graph.edges = {}
  BY DEF Init, NewGraph
<1>2. IsGraph(graph)
  BY DEF Init, NewGraph, IsGraph, GraphFields
<1>3. QED BY <1>1, <1>2 DEF Right, TemplatesRight, OwnersRight, ObjectOf, InGraph

\* Whatever is read next, the graph stays right.
LEMMA NextRight == GraphRight /\ [Next]_vars => GraphRight'
<1> SUFFICES ASSUME Right(graph), [Next]_vars PROVE Right(graph')
  BY DEF GraphRight
<1>1. CASE WorldStep \/ UNCHANGED vars
  BY <1>1 DEF WorldStep, vars
<1>2. CASE ReadDeployment
  <2>1. DeploymentRef.kind # "ReplicaSet"
    BY DEF DeploymentRef
  <2>2. QED BY <1>2, <2>1, AddNodeStaysRight DEF ReadDeployment
<1>3. CASE ReadReplicaSets
  <2>1. PICK read \in SUBSET Templates :
          graph' = AddEdges(AddNodes(graph, {ReplicaSetObject(t) : t \in read}),
                        {Edge(DeploymentRef, ReplicaSetRef(t), "owns") : t \in read} \cup
                        {Edge(ReplicaSetRef(t), PodRef(t), "owns") :
                            t \in {u \in read : InGraph(graph, PodRef(u))}})
    BY <1>3 DEF ReadReplicaSets, Existing
  <2>2. \A o \in {ReplicaSetObject(t) : t \in read}, t \in Templates :
            o.ref = ReplicaSetRef(t) => o.template = t
    BY DEF ReplicaSetObject, ReplicaSetRef
  <2>3. OwnersRight({Edge(DeploymentRef, ReplicaSetRef(t), "owns") : t \in read} \cup
                    {Edge(ReplicaSetRef(t), PodRef(t), "owns") :
                        t \in {u \in read : InGraph(graph, PodRef(u))}})
    BY DEF OwnersRight, Edge, DeploymentRef
  <2>4. QED BY <2>1, <2>2, <2>3, AddNodesStaysRight, AddEdgesStaysRight
<1>4. CASE ReadPods
  <2>1. PICK read \in SUBSET Templates :
          graph' = AddEdges(AddNodes(graph, {PodObject(t) : t \in read}),
                        {Edge(ServiceRef, PodRef(t), "selects") :
                            t \in {u \in read : focus = ServiceRef}} \cup
                        {Edge(ReplicaSetRef(t), PodRef(t), "owns") :
                            t \in {u \in read : InGraph(graph, ReplicaSetRef(u))}})
    BY <1>4 DEF ReadPods, Present
  <2>2. \A o \in {PodObject(t) : t \in read}, t \in Templates :
            o.ref = ReplicaSetRef(t) => o.template = t
    <3> SUFFICES ASSUME NEW u \in read, NEW t \in Templates
                 PROVE  PodObject(u).ref # ReplicaSetRef(t)
      OBVIOUS
    <3>1. PodObject(u).ref = PodRef(u)
      BY DEF PodObject
    <3>2. QED BY <3>1 DEF PodRef, ReplicaSetRef
  <2>3. OwnersRight({Edge(ServiceRef, PodRef(t), "selects") :
                        t \in {u \in read : focus = ServiceRef}} \cup
                    {Edge(ReplicaSetRef(t), PodRef(t), "owns") :
                        t \in {u \in read : InGraph(graph, ReplicaSetRef(u))}})
    <3> SUFFICES ASSUME NEW t \in read, NEW e, e.type = "owns",
                        \/ e = Edge(ServiceRef, PodRef(t), "selects")
                        \/ e = Edge(ReplicaSetRef(t), PodRef(t), "owns")
                 PROVE  e.from = ReplicaSetRef(t) /\ e.to = PodRef(t)
      BY DEF OwnersRight
    <3>1. QED BY DEF Edge
  <2>4. QED BY <2>1, <2>2, <2>3, AddNodesStaysRight, AddEdgesStaysRight
<1>5. CASE ReadService
  <2> DEFINE objects == {[ref |-> ServiceRef, selector |-> TRUE, target |-> "name"],
                         [ref |-> SliceRef, endpoints |-> {Endpoint(t) : t \in Routed}]}
             edges   == {Edge(ServiceRef, SliceRef, "routes-to")} \cup
                        {Edge(ServiceRef, PodRef(t), "selects") :
                            t \in {u \in Templates : InGraph(graph, PodRef(u))}}
  <2>1. graph' = AddEdges(AddNodes(graph, objects), edges) \/ graph' = graph
    BY <1>5 DEF ReadService
  <2>2. \A o \in objects, t \in Templates : o.ref = ReplicaSetRef(t) => o.template = t
    BY DEF ServiceRef, SliceRef, ReplicaSetRef
  <2>3. OwnersRight(edges)
    BY DEF OwnersRight, Edge
  <2>4. QED BY <2>1, <2>2, <2>3, AddNodesStaysRight, AddEdgesStaysRight
<1>6. CASE Finish
  BY <1>6, AddIssueStaysRight DEF Finish
<1>7. QED BY <1>1, <1>2, <1>3, <1>4, <1>5, <1>6 DEF Next, InspectionStep

\* In an inspection of a rollout the ReplicaSets in the graph are those they seem to be.
THEOREM GraphStaysRight == Spec => []GraphRight
<1>1. QED BY InitRight, NextRight, PTL DEF Spec

-----------------------------------------------------------------------------

\* The one mechanism from a Pod that is not Ready to a rollout.
LEMMA RolloutMechanism ==
    ASSUME NEW g, NEW c, NEW e, Explains(g, c, e),
           c.type = "pod-not-ready", e.type = "rollout-stuck"
    PROVE  OwnedByDeploymentRolloutTarget(g, c, e)
BY DEF Explains, SamePodMechanisms, SameResourceMechanisms, TerminationMechanisms,
    StorageMechanisms

\* If the graph is right, so are the Pods named as blocking the rollout.
LEMMA RightGraphNamesTarget == GraphRight => BlockerRunsCurrentTemplate
<1> SUFFICES ASSUME Right(graph), NEW link \in Linked("pod-not-ready", "rollout-stuck")
             PROVE  link[1].resource = PodRef(ObjectOf(graph, link[2].resource).template)
  BY DEF BlockerRunsCurrentTemplate, GraphRight
<1>1. /\ Explains(graph, link[1], link[2])
      /\ link[1].type = "pod-not-ready" /\ link[2].type = "rollout-stuck"
  BY DEF Linked, Links, Correlate
<1>2. PICK target \in CurrentTemplateReplicaSet(graph, link[2].resource) :
        Edge(target, link[1].resource, "owns") \in graph.edges
  BY <1>1, RolloutMechanism DEF OwnedByDeploymentRolloutTarget, HasEdge
<1>3. /\ target.kind = "ReplicaSet"
      /\ ObjectOf(graph, target) # NoObject
      /\ ObjectOf(graph, target).template = ObjectOf(graph, link[2].resource).template
  BY DEF CurrentTemplateReplicaSet, CurrentTemplate, OwnedReplicaSets
<1>4. PICK t \in Templates : target = ReplicaSetRef(t) /\ link[1].resource = PodRef(t)
  BY <1>2, <1>3 DEF Right, OwnersRight, Edge
<1>5. QED BY <1>3, <1>4 DEF Right, TemplatesRight

\* A Pod named as what blocks a rollout was made from the template the Deployment had
\* when it was read, for every history and interleaving.
THEOREM BlockersRunCurrentTemplate == Spec => []BlockerRunsCurrentTemplate
<1>1. QED BY GraphStaysRight, RightGraphNamesTarget, PTL

-----------------------------------------------------------------------------
(* What the console shows as one entry. *)

\* What a finding leads to, one of the same key leads to by type.
LEMMA SameKeySameTypes ==
    ASSUME NEW g, NEW links, NEW f, NEW h,
           ReplicaGroupKey(g, links, f) = ReplicaGroupKey(g, links, h),
           NEW e \in Causes(links, f)
    PROVE  \E d \in Causes(links, h) : d.type = e.type
<1>1. CausalTypeSignature(Causes(links, f)) = CausalTypeSignature(Causes(links, h))
  BY DEF ReplicaGroupKey
<1>2. /\ DOMAIN CausalTypeSignature(Causes(links, f)) = {d.type : d \in Causes(links, f)}
      /\ DOMAIN CausalTypeSignature(Causes(links, h)) = {d.type : d \in Causes(links, h)}
  BY DEF CausalTypeSignature
<1>3. e.type \in {d.type : d \in Causes(links, h)}
  BY <1>1, <1>2
<1>4. QED BY <1>3

\* The findings of one entry are the same one, or have one key.
LEMMA EntryHasOneKey ==
    ASSUME NEW g, NEW links, NEW findings, NEW entry \in Entries(g, links, findings),
           NEW f \in entry, NEW h \in entry
    PROVE  f = h \/ ReplicaGroupKey(g, links, f) = ReplicaGroupKey(g, links, h)
<1>1. PICK section : entry \in GroupReplicaFindings(g, links, section)
  BY DEF Entries
<1>2. QED BY <1>1 DEF GroupReplicaFindings

\* Whatever types of findings one finding of an entry leads to, so do the others.
LEMMA EntryLeadsAlike ==
    ASSUME NEW g, NEW links, NEW findings, NEW entry \in Entries(g, links, findings),
           NEW f \in entry, NEW h \in entry, NEW e \in Causes(links, f)
    PROVE  \E d \in Causes(links, h) : d.type = e.type
<1>1. f = h \/ ReplicaGroupKey(g, links, f) = ReplicaGroupKey(g, links, h)
  BY EntryHasOneKey
<1>2. CASE f = h
  BY <1>2
<1>3. CASE ReplicaGroupKey(g, links, f) = ReplicaGroupKey(g, links, h)
  BY <1>3, SameKeySameTypes
<1>4. QED BY <1>1, <1>2, <1>3

\* Whatever is collected and found, replicas shown as one entry either all block their
\* rollout or none does (groupReplicaFindings, replicaGroupKey).
THEOREM BlockersAreShownApart == Spec => []BlockersAreNotCollapsed
<1>1. BlockersAreNotCollapsed
  BY EntryLeadsAlike DEF BlockersAreNotCollapsed
<1>2. QED BY <1>1, PTL

-----------------------------------------------------------------------------
(* Causal links never come back: every mechanism leads from a type of       *)
(* finding to one of a higher level, so that going back from a symptom ends, *)
(* and at a root cause, for every graph and every set of findings.           *)

\* How far from a first cause the findings of a type can be.
Level(type) ==
    IF type \in {"readiness-probe-failing", "crashloop-backoff", "pod-evicted", "pod-unschedulable"} THEN 1
    ELSE IF type = "pod-not-ready" THEN 2
    ELSE IF type \in {"service-no-ready-endpoints", "rollout-stuck", "statefulset-unavailable",
                      "job-failed"} THEN 3
    ELSE IF type \in {"deployment-unavailable", "cronjob-latest-run-failed"} THEN 4
    ELSE 0

\* A link leads to a finding of a higher level, whatever the graph and the findings
\* (causalRules and Correlate).
THEOREM LinksGoUp ==
    ASSUME NEW g, NEW findings, NEW link \in Correlate(g, findings)
    PROVE  Level(link[1].type) < Level(link[2].type)
<1>1. Explains(g, link[1], link[2])
  BY DEF Correlate
<1>2. \/ <<link[1].type, link[2].type>> \in SamePodMechanisms
      \/ <<link[1].type, link[2].type>> \in SameResourceMechanisms
      \/ <<link[1].type, link[2].type>> \in TerminationMechanisms
      \/ <<link[1].type, link[2].type>> \in StorageMechanisms
      \/ <<link[1].type, link[2].type>> = <<"pod-not-ready", "service-no-ready-endpoints">>
      \/ <<link[1].type, link[2].type>> = <<"pod-not-ready", "deployment-unavailable">>
      \/ <<link[1].type, link[2].type>> = <<"pod-not-ready", "rollout-stuck">>
      \/ <<link[1].type, link[2].type>> = <<"pod-not-ready", "statefulset-unavailable">>
      \/ <<link[1].type, link[2].type>> = <<"pod-not-ready", "job-failed">>
      \/ <<link[1].type, link[2].type>> = <<"job-failed", "cronjob-latest-run-failed">>
      \/ <<link[1].type, link[2].type>> = <<"node-pressure", "pod-evicted">>
  BY <1>1 DEF Explains
<1>3. CASE <<link[1].type, link[2].type>> \in SamePodMechanisms
  BY <1>3 DEF SamePodMechanisms, Level
<1>4. CASE <<link[1].type, link[2].type>> \in SameResourceMechanisms
  BY <1>4 DEF SameResourceMechanisms, Level
<1>5. CASE <<link[1].type, link[2].type>> \in TerminationMechanisms
  BY <1>5 DEF TerminationMechanisms, Level
<1>s. CASE <<link[1].type, link[2].type>> \in StorageMechanisms
  BY <1>s DEF StorageMechanisms, Level
<1>6. CASE \/ <<link[1].type, link[2].type>> = <<"pod-not-ready", "service-no-ready-endpoints">>
           \/ <<link[1].type, link[2].type>> = <<"pod-not-ready", "deployment-unavailable">>
           \/ <<link[1].type, link[2].type>> = <<"pod-not-ready", "rollout-stuck">>
           \/ <<link[1].type, link[2].type>> = <<"pod-not-ready", "statefulset-unavailable">>
           \/ <<link[1].type, link[2].type>> = <<"pod-not-ready", "job-failed">>
           \/ <<link[1].type, link[2].type>> = <<"job-failed", "cronjob-latest-run-failed">>
           \/ <<link[1].type, link[2].type>> = <<"node-pressure", "pod-evicted">>
  BY <1>6 DEF Level
<1>7. QED BY <1>2, <1>3, <1>4, <1>5, <1>s, <1>6

\* A finding that is explained has a cause among the findings, of a lower level.
LEMMA SymptomHasLowerCause ==
    ASSUME NEW f \in Findings, CausedBy(Links, f) # {}
    PROVE  \E c \in Findings :
              /\ f \in Causes(Links, c)
              /\ Level(c.type) < Level(f.type)
<1>1. PICK link \in Links : link[2] = f
  BY DEF CausedBy
<1>2. link = <<link[1], link[2]>> /\ link[1] \in Findings
  BY DEF Links, Correlate
<1>3. f \in Causes(Links, link[1])
  BY <1>1 DEF Causes
<1>4. Level(link[1].type) < Level(f.type)
  BY <1>1, LinksGoUp DEF Links
<1>5. QED BY <1>2, <1>3, <1>4

\* What is explained by something reached is reached by one step more.
LEMMA FurtherReaches ==
    ASSUME NEW reached, NEW c \in reached, NEW f \in Causes(Links, c)
    PROVE  f \in Further(Links, reached)
BY DEF Further

\* A step further loses nothing.
LEMMA FurtherKeeps ==
    ASSUME NEW reached
    PROVE  reached \subseteq Further(Links, reached)
BY DEF Further

\* A finding that explains another and is not explained itself is a root cause.
LEMMA UnexplainedCauseIsRoot ==
    ASSUME NEW c \in Findings, NEW f \in Causes(Links, c), CausedBy(Links, c) = {}
    PROVE  c \in RootCauses(Links, Findings)
BY DEF RootCauses, IsRootCandidate

\* Every symptom is explained, step by step, from a root cause that is shown.
THEOREM SymptomsHaveRoots == EverySymptomHasARoot
<1> DEFINE Root(c) == c \in RootCauses(Links, Findings)
<1>0. \A type : Level(type) \in 0..4
  BY DEF Level
<1> SUFFICES ASSUME NEW f \in Findings, CausedBy(Links, f) # {}
             PROVE  \E root \in RootCauses(Links, Findings) : f \in Onward(Links, root)
  BY DEF EverySymptomHasARoot, Symptoms, IsSymptom
<1>1. PICK c1 \in Findings : f \in Causes(Links, c1) /\ Level(c1.type) < Level(f.type)
  BY SymptomHasLowerCause
<1>a. CASE CausedBy(Links, c1) = {}
  <2>1. Root(c1) BY <1>1, <1>a, UnexplainedCauseIsRoot
  <2>2. f \in Further(Links, {c1}) BY <1>1, FurtherReaches
  <2>3. f \in Onward(Links, c1) BY <2>2, FurtherKeeps DEF Onward
  <2>4. QED BY <2>1, <2>3
<1>b. CASE CausedBy(Links, c1) # {}
  <2>1. PICK c2 \in Findings : c1 \in Causes(Links, c2) /\ Level(c2.type) < Level(c1.type)
    BY <1>b, SymptomHasLowerCause
  <2>2. c1 \in Further(Links, {c2}) BY <2>1, FurtherReaches
  <2>3. f \in Further(Links, Further(Links, {c2})) BY <1>1, <2>2, FurtherReaches
  <2>a. CASE CausedBy(Links, c2) = {}
    <3>1. Root(c2) BY <2>1, <2>a, UnexplainedCauseIsRoot
    <3>2. f \in Onward(Links, c2) BY <2>3, FurtherKeeps DEF Onward
    <3>3. QED BY <3>1, <3>2
  <2>b. CASE CausedBy(Links, c2) # {}
    <3>1. PICK c3 \in Findings : c2 \in Causes(Links, c3) /\ Level(c3.type) < Level(c2.type)
      BY <2>b, SymptomHasLowerCause
    <3>2. c2 \in Further(Links, {c3}) BY <3>1, FurtherReaches
    <3>3. c1 \in Further(Links, Further(Links, {c3})) BY <2>1, <3>2, FurtherReaches
    <3>4. f \in Further(Links, Further(Links, Further(Links, {c3}))) BY <1>1, <3>3, FurtherReaches
    <3>a. CASE CausedBy(Links, c3) = {}
      <4>1. Root(c3) BY <3>1, <3>a, UnexplainedCauseIsRoot
      <4>2. f \in Onward(Links, c3) BY <3>4, FurtherKeeps DEF Onward
      <4>3. QED BY <4>1, <4>2
    <3>b. CASE CausedBy(Links, c3) # {}
      <4>1. PICK c4 \in Findings : c3 \in Causes(Links, c4) /\ Level(c4.type) < Level(c3.type)
        BY <3>b, SymptomHasLowerCause
      <4>2. Level(c4.type) = 0
        BY <1>0, <1>1, <2>1, <3>1, <4>1
      <4>3. CausedBy(Links, c4) = {}
        BY <1>0, <4>2, SymptomHasLowerCause
      <4>4. Root(c4) BY <4>1, <4>3, UnexplainedCauseIsRoot
      <4>5. c3 \in Further(Links, {c4}) BY <4>1, FurtherReaches
      <4>6. c2 \in Further(Links, Further(Links, {c4})) BY <3>1, <4>5, FurtherReaches
      <4>7. c1 \in Further(Links, Further(Links, Further(Links, {c4}))) BY <2>1, <4>6, FurtherReaches
      <4>8. f \in Onward(Links, c4) BY <1>1, <4>7, FurtherReaches DEF Onward
      <4>9. QED BY <4>4, <4>8
    <3>c. QED BY <3>a, <3>b
  <2>c. QED BY <2>a, <2>b
<1>c. QED BY <1>a, <1>b

\* In every inspection of a rollout, at every moment, "explained by the causes above"
\* is true of the symptoms the console lists.
THEOREM EverySymptomHasARootHolds == Spec => []EverySymptomHasARoot
<1>1. EverySymptomHasARoot BY SymptomsHaveRoots
<1>2. QED BY <1>1, SymptomsHaveRoots, PTL

-----------------------------------------------------------------------------
(* What the inspection knows at any moment: which edges there are, that a    *)
(* step still to come adds the ends that are missing, and that nothing that  *)
(* was read is out of date while nothing has happened.                       *)

Steps == {"deployment", "replicaSets", "pods", "service", "finish"}

\* The plan is what is left of the plan for the focus.
OnPlan ==
    /\ plan \in Seq(Steps) /\ Len(plan) <= 5
    /\ \A i \in 1..Len(plan) : plan[i] = Plan(focus)[5 - Len(plan) + i]

Left(s) == \E i \in 1..Len(plan) : plan[i] = s

ServiceObject == [ref |-> ServiceRef, selector |-> TRUE, target |-> "name"]
SliceObject   == [ref |-> SliceRef, endpoints |-> {Endpoint(t) : t \in Routed}]

AllRefs == {DeploymentRef, ServiceRef, SliceRef}
           \cup {ReplicaSetRef(t) : t \in Templates} \cup {PodRef(t) : t \in Templates}

AllEdges ==
    {Edge(DeploymentRef, ReplicaSetRef(t), "owns") : t \in Templates}
    \cup {Edge(ReplicaSetRef(t), PodRef(t), "owns") : t \in Templates}
    \cup {Edge(ServiceRef, PodRef(t), "selects") : t \in Templates}
    \cup {Edge(ServiceRef, SliceRef, "routes-to")}

\* Every end of an edge is there, or a step to come will add it.
Anchored ==
    \A e \in graph.edges :
        /\ e.to \in DOMAIN graph.nodes
        /\ \/ e.from \in DOMAIN graph.nodes
           \/ e.from = DeploymentRef /\ Left("deployment")
           \/ e.from = ServiceRef /\ Left("service")

\* No ownership and no route between two resources is missed.
Joined ==
    /\ \A t \in Templates :
        InGraph(graph, ReplicaSetRef(t)) /\ InGraph(graph, PodRef(t)) =>
            Edge(ReplicaSetRef(t), PodRef(t), "owns") \in graph.edges
    /\ InGraph(graph, ServiceRef) =>
        /\ InGraph(graph, SliceRef)
        /\ Edge(ServiceRef, SliceRef, "routes-to") \in graph.edges
        /\ ObjectOf(graph, ServiceRef) = ServiceObject
    /\ InGraph(graph, SliceRef) => InGraph(graph, ServiceRef)

\* What was read is as it was.
Current ==
    /\ \A t \in Templates : InGraph(graph, PodRef(t)) =>
            t \in Present /\ ObjectOf(graph, PodRef(t)) = PodObject(t)
    /\ InGraph(graph, SliceRef) => ObjectOf(graph, SliceRef) = SliceObject

\* The inductive invariant.
RInv ==
    /\ lag \in Nat /\ focus \in {DeploymentRef, ServiceRef}
    /\ OnPlan
    /\ IsGraph(graph) /\ DOMAIN graph.nodes \subseteq AllRefs /\ graph.edges \subseteq AllEdges
    /\ ~Begun => DOMAIN graph.nodes = {} /\ graph.edges = {}
    /\ focus = DeploymentRef /\ ~Left("deployment") => InGraph(graph, DeploymentRef)
    /\ Anchored
    /\ Joined
    /\ lag = 0 => Current

-----------------------------------------------------------------------------
(* The plan. *)

LEMMA PlanIs ==
    ASSUME NEW ref \in {DeploymentRef, ServiceRef}
    PROVE  Plan(ref) =
            IF ref = DeploymentRef
            THEN <<"deployment", "replicaSets", "pods", "service", "finish">>
            ELSE <<"pods", "replicaSets", "deployment", "service", "finish">>
BY DEF Plan

\* Where the steps of a plan are.
LEMMA PlanPlaces ==
    ASSUME NEW ref \in {DeploymentRef, ServiceRef}, NEW k \in 1..5, NEW j \in 1..5
    PROVE  /\ Len(Plan(ref)) = 5 /\ Plan(ref) \in Seq(Steps)
           /\ Plan(ref)[k] = Plan(ref)[j] => k = j
           /\ ref # DeploymentRef /\ Plan(ref)[k] = "replicaSets" => k = 2
           /\ ref # DeploymentRef /\ Plan(ref)[k] = "pods" => k = 1
           /\ ref # DeploymentRef => Plan(ref)[3] = "deployment"
           /\ Plan(ref)[4] = "service"
<1>1. k \in {1, 2, 3, 4, 5} /\ j \in {1, 2, 3, 4, 5}
  OBVIOUS
<1>2. CASE ref = DeploymentRef
  <2>1. Plan(ref) = <<"deployment", "replicaSets", "pods", "service", "finish">>
    BY <1>2, PlanIs
  <2>2. Len(Plan(ref)) = 5 /\ Plan(ref) \in Seq(Steps)
    BY <2>1 DEF Steps
  <2>3. Plan(ref)[k] = Plan(ref)[j] => k = j
    BY <1>1, <2>1
  <2>4. Plan(ref)[4] = "service"
    BY <2>1
  <2>5. QED BY <1>2, <2>2, <2>3, <2>4
<1>3. CASE ref # DeploymentRef
  <2>1. Plan(ref) = <<"pods", "replicaSets", "deployment", "service", "finish">>
    BY <1>3, PlanIs
  <2>2. Len(Plan(ref)) = 5 /\ Plan(ref) \in Seq(Steps)
    BY <2>1 DEF Steps
  <2>3. Plan(ref)[k] = Plan(ref)[j] => k = j
    BY <1>1, <2>1
  <2>4. Plan(ref)[k] = "replicaSets" => k = 2
    BY <1>1, <2>1
  <2>5. Plan(ref)[k] = "pods" => k = 1
    BY <1>1, <2>1
  <2>6. Plan(ref)[3] = "deployment" /\ Plan(ref)[4] = "service"
    BY <2>1
  <2>7. QED BY <2>2, <2>3, <2>4, <2>5, <2>6
<1>4. QED BY <1>2, <1>3

\* A step is due once; from a Service, the ReplicaSets come before the Deployment and the
\* Pods before the Service.
LEMMA PlanStep ==
    ASSUME focus \in {DeploymentRef, ServiceRef}, OnPlan, NEW s, Doing(s), UNCHANGED focus
    PROVE  /\ OnPlan' /\ ~Left(s)' /\ Begun'
           /\ \A t : t # s => (Left(t)' <=> Left(t))
           /\ s = "replicaSets" /\ focus # DeploymentRef => Left("deployment")
           /\ s = "pods" /\ focus # DeploymentRef => Left("service")
<1>1. /\ plan # <<>> /\ s = plan[1] /\ plan' = Tail(plan) /\ plan \in Seq(Steps)
      /\ Len(plan) <= 5
  BY DEF Doing, OnPlan
<1>2. /\ plan' \in Seq(Steps) /\ Len(plan') = Len(plan) - 1
      /\ \A i \in 1..Len(plan') : plan'[i] = plan[i + 1]
  BY <1>1, HeadTailProperties
<1> DEFINE n == Len(plan)
           m == Len(plan')
<1>3. n \in 1..5 /\ m = n - 1
  <2>1. n \in Nat /\ n # 0 /\ n <= 5
    BY <1>1, EmptySeq
  <2>2. m = n - 1
    BY <1>2
  <2> HIDE DEF n, m
  <2>3. QED BY <2>1, <2>2
<1>4. \A i \in 1..n : plan[i] = Plan(focus)[5 - n + i]
  BY DEF OnPlan
<1>5. \A i \in 1..m : plan'[i] = plan[i + 1]
  BY <1>2
<1>6. /\ \A t : Left(t) <=> \E i \in 1..n : plan[i] = t
      /\ \A t : Left(t)' <=> \E i \in 1..m : plan'[i] = t
  BY DEF Left
<1>7. Begun'
  <2>1. Len(Plan(focus)) = 5
    BY PlanPlaces
  <2>2. m # 5
    <3> HIDE DEF n, m
    <3>1. QED BY <1>3
  <2>3. QED BY <2>1, <2>2 DEF Begun
<1> HIDE DEF n, m
<1>8. OnPlan'
  <2> SUFFICES ASSUME NEW i \in 1..m
               PROVE  plan'[i] = Plan(focus)[5 - m + i]
    <3>1. m <= 5
      BY <1>3
    <3>2. QED BY <1>2, <3>1 DEF OnPlan, m
  <2>1. i + 1 \in 1..n
    BY <1>3
  <2>2. plan[i + 1] = Plan(focus)[5 - n + (i + 1)]
    BY <1>4, <2>1
  <2>3. 5 - n + (i + 1) = 5 - m + i
    BY <1>3
  <2>4. QED BY <1>5, <2>2, <2>3
<1>9. ~Left(s)'
  <2> SUFFICES ASSUME NEW i \in 1..m, plan'[i] = s
               PROVE  FALSE
    BY <1>6
  <2>1. i + 1 \in 1..n /\ 1 \in 1..n
    BY <1>3
  <2>2. Plan(focus)[5 - n + (i + 1)] = Plan(focus)[5 - n + 1]
    BY <1>1, <1>4, <1>5, <2>1
  <2>3. 5 - n + (i + 1) \in 1..5 /\ 5 - n + 1 \in 1..5
    BY <1>3
  <2>4. 5 - n + (i + 1) = 5 - n + 1
    BY <2>2, <2>3, PlanPlaces
  <2>5. QED BY <1>3, <2>4
<1>10. ASSUME NEW t, t # s
       PROVE  Left(t)' <=> Left(t)
  <2>1. ASSUME NEW i \in 1..m, plan'[i] = t
        PROVE  i + 1 \in 1..n /\ plan[i + 1] = t
    BY <1>3, <1>5, <2>1
  <2>2. ASSUME NEW i \in 1..n, plan[i] = t
        PROVE  i - 1 \in 1..m /\ plan'[i - 1] = t
    <3>1. i # 1
      BY <1>1, <1>10, <2>2
    <3>2. i - 1 \in 1..m /\ (i - 1) + 1 = i
      BY <1>3, <3>1
    <3>3. QED BY <1>5, <2>2, <3>2
  <2>3. QED BY <1>6, <2>1, <2>2
<1>11. 5 - n + 1 \in 1..5 /\ s = Plan(focus)[5 - n + 1]
  <2>1. 5 - n + 1 \in 1..5 /\ 1 \in 1..n
    BY <1>3
  <2>2. QED BY <1>1, <1>4, <2>1
<1>12. ASSUME s = "replicaSets", focus # DeploymentRef
       PROVE  Left("deployment")
  <2>1. 5 - n + 1 = 2
    BY <1>11, <1>12, PlanPlaces
  <2>2. 2 \in 1..n /\ 5 - n + 2 = 3
    BY <1>3, <2>1
  <2>3. plan[2] = "deployment"
    BY <1>4, <1>12, <2>2, PlanPlaces
  <2>4. QED BY <1>6, <2>2, <2>3
<1>13. ASSUME s = "pods", focus # DeploymentRef
       PROVE  Left("service")
  <2>1. 5 - n + 1 = 1
    BY <1>11, <1>13, PlanPlaces
  <2>2. 4 \in 1..n /\ 5 - n + 4 = 4
    BY <1>3, <2>1
  <2>3. plan[4] = "service"
    BY <1>4, <2>2, PlanPlaces
  <2>4. QED BY <1>6, <2>2, <2>3
<1>14. QED BY <1>7, <1>8, <1>9, <1>10, <1>12, <1>13

-----------------------------------------------------------------------------
(* What a read adds to a graph. *)

LEMMA RefsDiffer ==
    /\ DeploymentRef # ServiceRef /\ DeploymentRef # SliceRef /\ ServiceRef # SliceRef
    /\ \A t : ReplicaSetRef(t) \notin {DeploymentRef, ServiceRef, SliceRef}
    /\ \A t : PodRef(t) \notin {DeploymentRef, ServiceRef, SliceRef}
    /\ \A t, u : PodRef(t) # ReplicaSetRef(u)
    /\ \A t, u : PodRef(t) = PodRef(u) => t = u
    /\ \A t, u : ReplicaSetRef(t) = ReplicaSetRef(u) => t = u
BY DEF DeploymentRef, ServiceRef, SliceRef, ReplicaSetRef, PodRef

\* Objects and edges are added to g, and an object that is held is kept.
Grown(g, h, objects, edges) ==
    /\ IsGraph(h)
    /\ DOMAIN h.nodes = DOMAIN g.nodes \cup {o.ref : o \in objects}
    /\ h.edges = g.edges \cup edges
    /\ \A o \in objects :
        ObjectOf(h, o.ref) = IF ObjectOf(g, o.ref) = NoObject THEN o ELSE ObjectOf(g, o.ref)
    /\ \A r : (\A o \in objects : o.ref # r) => ObjectOf(h, r) = ObjectOf(g, r)

LEMMA NothingGrows ==
    ASSUME NEW g, IsGraph(g)
    PROVE  Grown(g, g, {}, {})
BY DEF Grown

LEMMA IssueGrows ==
    ASSUME NEW g, IsGraph(g), NEW issue
    PROVE  Grown(g, AddCollectionIssue(g, issue), {}, {})
<1>1. /\ IsGraph(AddCollectionIssue(g, issue))
      /\ AddCollectionIssue(g, issue).nodes = g.nodes
      /\ AddCollectionIssue(g, issue).edges = g.edges
  BY DEF AddCollectionIssue, IsGraph, GraphFields
<1>2. QED BY <1>1 DEF Grown, ObjectOf, InGraph

LEMMA NodesGrow ==
    ASSUME NEW g, IsGraph(g), NEW objects, \A o, q \in objects : o.ref = q.ref => o = q
    PROVE  Grown(g, AddNodes(g, objects), objects, {})
<1> DEFINE refs == {o.ref : o \in objects}
           Named(r) == {o \in objects : o.ref = r}
           h == AddNodes(g, objects)
<1>1. h = [g EXCEPT !.nodes =
            [r \in DOMAIN g.nodes \cup refs |->
                IF ObjectOf(g, r) = NoObject /\ Named(r) # {}
                THEN [object |-> CHOOSE o \in Named(r) : TRUE, unknown |-> FALSE]
                ELSE g.nodes[r]]]
  BY DEF AddNodes
<1> HIDE DEF h
<1>2. /\ IsGraph(h) /\ h.edges = g.edges
      /\ DOMAIN h.nodes = DOMAIN g.nodes \cup refs
  BY <1>1 DEF IsGraph, GraphFields
<1>3. \A r \in DOMAIN g.nodes \cup refs :
        h.nodes[r] = IF ObjectOf(g, r) = NoObject /\ Named(r) # {}
                     THEN [object |-> CHOOSE o \in Named(r) : TRUE, unknown |-> FALSE]
                     ELSE g.nodes[r]
  BY <1>1 DEF IsGraph, GraphFields
<1>4. ASSUME NEW o \in objects
      PROVE  ObjectOf(h, o.ref) = IF ObjectOf(g, o.ref) = NoObject THEN o ELSE ObjectOf(g, o.ref)
  <2>1. Named(o.ref) = {o} /\ o.ref \in refs
    OBVIOUS
  <2>2. (CHOOSE q \in {o} : TRUE) = o
    OBVIOUS
  <2>3. CASE ObjectOf(g, o.ref) = NoObject
    <3>1. h.nodes[o.ref] = [object |-> CHOOSE q \in Named(o.ref) : TRUE, unknown |-> FALSE]
      BY <1>3, <2>1, <2>3
    <3>2. h.nodes[o.ref].object = o
      BY <2>1, <2>2, <3>1
    <3>3. QED BY <1>2, <2>1, <2>3, <3>2 DEF ObjectOf, InGraph
  <2>4. CASE ObjectOf(g, o.ref) # NoObject
    <3>1. h.nodes[o.ref] = g.nodes[o.ref]
      BY <1>3, <2>1, <2>4
    <3>2. o.ref \in DOMAIN g.nodes
      BY <2>4 DEF ObjectOf, InGraph
    <3>3. QED BY <1>2, <2>1, <2>4, <3>1, <3>2 DEF ObjectOf, InGraph
  <2>5. QED BY <2>3, <2>4
<1>5. ASSUME NEW r, \A o \in objects : o.ref # r
      PROVE  ObjectOf(h, r) = ObjectOf(g, r)
  <2>1. Named(r) = {} /\ r \notin refs
    BY <1>5
  <2>2. r \in DOMAIN g.nodes => h.nodes[r] = g.nodes[r]
    BY <1>3, <2>1
  <2>3. QED BY <1>2, <2>1, <2>2 DEF ObjectOf, InGraph
<1>6. QED BY <1>2, <1>4, <1>5 DEF Grown, h, refs

LEMMA NodeGrows ==
    ASSUME NEW g, IsGraph(g), NEW object
    PROVE  Grown(g, AddNode(g, object.ref, object), {object}, {})
<1> DEFINE ref == object.ref
           h == AddNode(g, ref, object)
<1>1. CASE ObjectOf(g, ref) # NoObject
  <2>1. h = g /\ ref \in DOMAIN g.nodes
    BY <1>1 DEF AddNode, ObjectOf, InGraph
  <2>2. QED BY <1>1, <2>1 DEF Grown
<1>2. CASE ObjectOf(g, ref) = NoObject
  <2>1. h = PutNode(g, ref, [object |-> object, unknown |-> FALSE])
    BY <1>2 DEF AddNode
  <2> HIDE DEF h
  <2>2. /\ IsGraph(h) /\ h.edges = g.edges
        /\ DOMAIN h.nodes = DOMAIN g.nodes \cup {ref}
        /\ h.nodes[ref] = [object |-> object, unknown |-> FALSE]
        /\ \A r \in DOMAIN g.nodes : r # ref => h.nodes[r] = g.nodes[r]
    BY <2>1 DEF PutNode, IsGraph, GraphFields
  <2>3. ObjectOf(h, ref) = object
    BY <2>2 DEF ObjectOf, InGraph
  <2>4. \A r : r # ref => ObjectOf(h, r) = ObjectOf(g, r)
    BY <2>2 DEF ObjectOf, InGraph
  <2>5. {o.ref : o \in {object}} = {ref}
    OBVIOUS
  <2> HIDE DEF ref
  <2>6. \A o \in {object} : ObjectOf(h, o.ref) = IF ObjectOf(g, o.ref) = NoObject THEN o ELSE ObjectOf(g, o.ref)
    BY <1>2, <2>3 DEF ref
  <2>7. \A r : (\A o \in {object} : o.ref # r) => ObjectOf(h, r) = ObjectOf(g, r)
    BY <2>4 DEF ref
  <2>8. Grown(g, h, {object}, {})
    BY <2>2, <2>5, <2>6, <2>7 DEF Grown
  <2>9. QED BY <2>8 DEF h, ref
<1>3. QED BY <1>1, <1>2

LEMMA ThenEdges ==
    ASSUME NEW g, NEW h, NEW objects, Grown(g, h, objects, {}), NEW edges
    PROVE  Grown(g, AddEdges(h, edges), objects, edges)
<1>1. /\ IsGraph(AddEdges(h, edges))
      /\ AddEdges(h, edges).nodes = h.nodes
      /\ AddEdges(h, edges).edges = g.edges \cup edges
  BY DEF Grown, AddEdges, IsGraph, GraphFields
<1>2. QED BY <1>1 DEF Grown, ObjectOf, InGraph

\* Where the edges lead.
LEMMA EdgeEnds ==
    ASSUME NEW e \in AllEdges
    PROVE  /\ e.from = DeploymentRef => \E t \in Templates : e.to = ReplicaSetRef(t)
           /\ e.from = ServiceRef => e.to = SliceRef \/ \E t \in Templates : e.to = PodRef(t)
           /\ e.from \in {DeploymentRef, ServiceRef}
                \/ \E t \in Templates : e = Edge(ReplicaSetRef(t), PodRef(t), "owns")
           /\ e = Edge(e.from, e.to, e.type)
<1>1. \A from, to, type : /\ Edge(from, to, type).from = from
                          /\ Edge(from, to, type).to = to
                          /\ Edge(from, to, type).type = type
  BY DEF Edge
<1>2. CASE \E t \in Templates : e = Edge(DeploymentRef, ReplicaSetRef(t), "owns")
  BY <1>1, <1>2, RefsDiffer
<1>3. CASE \E t \in Templates : e = Edge(ReplicaSetRef(t), PodRef(t), "owns")
  BY <1>1, <1>3, RefsDiffer
<1>4. CASE \E t \in Templates : e = Edge(ServiceRef, PodRef(t), "selects")
  BY <1>1, <1>4, RefsDiffer
<1>5. CASE e = Edge(ServiceRef, SliceRef, "routes-to")
  BY <1>1, <1>5, RefsDiffer
<1>6. QED BY <1>2, <1>3, <1>4, <1>5 DEF AllEdges

-----------------------------------------------------------------------------
(* What an inspection step keeps. *)

LEMMA AnchoredKeeps ==
    ASSUME RInv, NEW s, Doing(s), UNCHANGED focus,
           NEW objects, NEW edges, Grown(graph, graph', objects, edges),
           \A e \in edges :
                /\ e.to \in DOMAIN graph'.nodes
                /\ \/ e.from \in DOMAIN graph'.nodes
                   \/ e.from = DeploymentRef /\ Left("deployment") /\ s # "deployment"
                   \/ e.from = ServiceRef /\ Left("service") /\ s # "service",
           s = "deployment" => \A e \in graph.edges : e.from = DeploymentRef => DeploymentRef \in DOMAIN graph'.nodes,
           s = "service" => \A e \in graph.edges : e.from = ServiceRef => ServiceRef \in DOMAIN graph'.nodes
    PROVE  Anchored'
<1>1. \A t : t # s => (Left(t)' <=> Left(t))
  BY PlanStep DEF RInv
<1>2. /\ DOMAIN graph.nodes \subseteq DOMAIN graph'.nodes
      /\ graph'.edges = graph.edges \cup edges
  BY DEF Grown
<1>3. ASSUME NEW e \in edges
      PROVE  /\ e.to \in DOMAIN graph'.nodes
             /\ \/ e.from \in DOMAIN graph'.nodes
                \/ e.from = DeploymentRef /\ Left("deployment")'
                \/ e.from = ServiceRef /\ Left("service")'
  BY <1>1
<1>4. ASSUME NEW e \in graph.edges
      PROVE  /\ e.to \in DOMAIN graph'.nodes
             /\ \/ e.from \in DOMAIN graph'.nodes
                \/ e.from = DeploymentRef /\ Left("deployment")'
                \/ e.from = ServiceRef /\ Left("service")'
  <2>1. /\ e.to \in DOMAIN graph.nodes
        /\ \/ e.from \in DOMAIN graph.nodes
           \/ e.from = DeploymentRef /\ Left("deployment")
           \/ e.from = ServiceRef /\ Left("service")
    BY DEF RInv, Anchored
  <2>2. CASE e.from \in DOMAIN graph.nodes
    BY <1>2, <2>1, <2>2
  <2>3. CASE e.from = DeploymentRef /\ Left("deployment")
    <3>1. CASE s = "deployment"
      BY <1>2, <2>1, <2>3, <3>1
    <3>2. CASE s # "deployment"
      BY <1>1, <1>2, <2>1, <2>3, <3>2
    <3>3. QED BY <3>1, <3>2
  <2>4. CASE e.from = ServiceRef /\ Left("service")
    <3>1. CASE s = "service"
      BY <1>2, <2>1, <2>4, <3>1
    <3>2. CASE s # "service"
      BY <1>1, <1>2, <2>1, <2>4, <3>2
    <3>3. QED BY <3>1, <3>2
  <2>5. QED BY <2>1, <2>2, <2>3, <2>4
<1>5. QED BY <1>2, <1>3, <1>4 DEF Anchored

LEMMA JoinedKeeps ==
    ASSUME Joined, NEW objects, NEW edges, Grown(graph, graph', objects, edges),
           \A o \in objects : o.ref \notin {ServiceRef, SliceRef},
           \A t \in Templates :
                /\ PodRef(t) \in DOMAIN graph'.nodes
                /\ ReplicaSetRef(t) \in DOMAIN graph'.nodes
                /\ PodRef(t) \notin DOMAIN graph.nodes \/ ReplicaSetRef(t) \notin DOMAIN graph.nodes
                => Edge(ReplicaSetRef(t), PodRef(t), "owns") \in edges
    PROVE  Joined'
<1>1. /\ graph'.edges = graph.edges \cup edges
      /\ DOMAIN graph'.nodes = DOMAIN graph.nodes \cup {o.ref : o \in objects}
  BY DEF Grown
<1>2. /\ ServiceRef \in DOMAIN graph'.nodes <=> ServiceRef \in DOMAIN graph.nodes
      /\ SliceRef \in DOMAIN graph'.nodes <=> SliceRef \in DOMAIN graph.nodes
  BY <1>1
<1>3. ObjectOf(graph', ServiceRef) = ObjectOf(graph, ServiceRef)
  BY DEF Grown
<1>4. ASSUME NEW t \in Templates, ReplicaSetRef(t) \in DOMAIN graph'.nodes,
             PodRef(t) \in DOMAIN graph'.nodes
      PROVE  Edge(ReplicaSetRef(t), PodRef(t), "owns") \in graph'.edges
  BY <1>1, <1>4 DEF Joined, InGraph
<1>5. ServiceRef \in DOMAIN graph'.nodes =>
        /\ SliceRef \in DOMAIN graph'.nodes
        /\ Edge(ServiceRef, SliceRef, "routes-to") \in graph'.edges
        /\ ObjectOf(graph', ServiceRef) = ServiceObject
  BY <1>1, <1>2, <1>3 DEF Joined, InGraph
<1>6. SliceRef \in DOMAIN graph'.nodes => ServiceRef \in DOMAIN graph'.nodes
  BY <1>2 DEF Joined, InGraph
<1>7. ServiceObject' = ServiceObject
  BY DEF ServiceObject
<1>8. QED BY <1>4, <1>5, <1>6, <1>7 DEF Joined, InGraph

LEMMA CurrentKeeps ==
    ASSUME Current, UNCHANGED worldVars,
           NEW objects, NEW edges, Grown(graph, graph', objects, edges),
           \A o \in objects, t \in Templates :
                o.ref = PodRef(t) => t \in Present /\ o = PodObject(t),
           \A o \in objects : o.ref = SliceRef => o = SliceObject
    PROVE  Current'
<1>1. /\ Present' = Present /\ \A t : PodObject(t)' = PodObject(t)
      /\ SliceObject' = SliceObject
  BY DEF worldVars, Present, PodObject, SliceObject, Endpoint, Routed
<1>2. ASSUME NEW t \in Templates, PodRef(t) \in DOMAIN graph'.nodes
      PROVE  t \in Present /\ ObjectOf(graph', PodRef(t)) = PodObject(t)
  <2>1. PodRef(t) \in DOMAIN graph.nodes => t \in Present /\ ObjectOf(graph, PodRef(t)) = PodObject(t)
    BY DEF Current, InGraph
  <2>2. PodRef(t) \notin DOMAIN graph.nodes => ObjectOf(graph, PodRef(t)) = NoObject
    BY DEF ObjectOf, InGraph
  <2>3. CASE \E o \in objects : o.ref = PodRef(t)
    BY <2>1, <2>2, <2>3 DEF Grown
  <2>4. CASE \A o \in objects : o.ref # PodRef(t)
    BY <1>2, <2>1, <2>4 DEF Grown
  <2>5. QED BY <2>3, <2>4
<1>3. ASSUME SliceRef \in DOMAIN graph'.nodes
      PROVE  ObjectOf(graph', SliceRef) = SliceObject
  <2>1. SliceRef \in DOMAIN graph.nodes => ObjectOf(graph, SliceRef) = SliceObject
    BY DEF Current, InGraph
  <2>2. SliceRef \notin DOMAIN graph.nodes => ObjectOf(graph, SliceRef) = NoObject
    BY DEF ObjectOf, InGraph
  <2>3. CASE \E o \in objects : o.ref = SliceRef
    BY <2>1, <2>2, <2>3 DEF Grown
  <2>4. CASE \A o \in objects : o.ref # SliceRef
    BY <1>3, <2>1, <2>4 DEF Grown
  <2>5. QED BY <2>3, <2>4
<1>4. QED BY <1>1, <1>2, <1>3 DEF Current, InGraph

LEMMA RestKeeps ==
    ASSUME RInv, NEW s, Doing(s), UNCHANGED <<lag, focus>>,
           NEW objects, NEW edges, Grown(graph, graph', objects, edges),
           \A o \in objects : o.ref \in AllRefs, edges \subseteq AllEdges,
           s = "deployment" /\ focus = DeploymentRef => DeploymentRef \in DOMAIN graph'.nodes,
           Anchored', Joined', lag = 0 => Current'
    PROVE  RInv'
<1>1. OnPlan' /\ Begun' /\ \A t : t # s => (Left(t)' <=> Left(t))
  BY PlanStep DEF RInv
<1>2. /\ IsGraph(graph')
      /\ DOMAIN graph'.nodes = DOMAIN graph.nodes \cup {o.ref : o \in objects}
      /\ graph'.edges = graph.edges \cup edges
  BY DEF Grown
<1>3. DOMAIN graph'.nodes \subseteq AllRefs /\ graph'.edges \subseteq AllEdges
  BY <1>2 DEF RInv
<1>4. AllRefs' = AllRefs /\ AllEdges' = AllEdges
  BY DEF AllRefs, AllEdges
<1>5. focus = DeploymentRef /\ ~Left("deployment")' => DeploymentRef \in DOMAIN graph'.nodes
  <2>1. CASE s = "deployment"
    BY <2>1
  <2>2. CASE s # "deployment"
    BY <1>1, <1>2, <2>2 DEF RInv, InGraph
  <2>3. QED BY <2>1, <2>2
<1>6. lag \in Nat /\ focus \in {DeploymentRef, ServiceRef} /\ lag' = lag /\ focus' = focus
  BY DEF RInv
<1> HIDE DEF Anchored, Joined, Current, OnPlan, Begun
<1>7. QED BY <1>1, <1>2, <1>3, <1>4, <1>5, <1>6 DEF RInv, InGraph

-----------------------------------------------------------------------------
(* The reads. *)

LEMMA DeploymentKeeps ==
    ASSUME RInv, ReadDeployment, UNCHANGED <<worldVars, lag, focus>>
    PROVE  RInv'
<1> DEFINE reached == focus = DeploymentRef \/ \E t \in Templates : InGraph(graph, ReplicaSetRef(t))
<1>1. Doing("deployment") /\ IsGraph(graph)
  BY DEF ReadDeployment, RInv
<1>2. PICK objects : /\ Grown(graph, graph', objects, {})
                     /\ \A o \in objects : o.ref = DeploymentRef
                     /\ reached => DeploymentRef \in DOMAIN graph'.nodes
  <2>1. DeploymentObject.ref = DeploymentRef
    BY DEF DeploymentObject
  <2>2. CASE reached
    <3>1. graph' = AddNode(graph, DeploymentRef, DeploymentObject)
      BY <2>2 DEF ReadDeployment
    <3>2. Grown(graph, graph', {DeploymentObject}, {})
      BY <1>1, <2>1, <3>1, NodeGrows
    <3>3. DeploymentRef \in DOMAIN graph'.nodes
      BY <2>1, <3>2 DEF Grown
    <3>4. QED BY <2>1, <3>2, <3>3
  <2>3. CASE ~reached
    <3>1. graph' = graph
      BY <2>3 DEF ReadDeployment
    <3>2. QED BY <1>1, <2>3, <3>1, NothingGrows
  <2>4. QED BY <2>2, <2>3
<1>3. \A e \in graph.edges : e.from = DeploymentRef => DeploymentRef \in DOMAIN graph'.nodes
  <2> SUFFICES ASSUME NEW e \in graph.edges, e.from = DeploymentRef
               PROVE  reached
    BY <1>2
  <2>1. PICK t \in Templates : e.to = ReplicaSetRef(t)
    BY EdgeEnds DEF RInv
  <2>2. QED BY <2>1 DEF RInv, Anchored, InGraph
<1>4. focus = DeploymentRef => DeploymentRef \in DOMAIN graph'.nodes
  BY <1>2
<1> HIDE DEF reached
<1>5. Anchored'
  BY <1>1, <1>2, <1>3, AnchoredKeeps
<1>6. Joined'
  <2>1. Joined
    BY DEF RInv
  <2>2. \A o \in objects : o.ref \notin {ServiceRef, SliceRef}
    BY <1>2, RefsDiffer
  <2>3. \A t \in Templates : /\ PodRef(t) \in DOMAIN graph'.nodes => PodRef(t) \in DOMAIN graph.nodes
                             /\ ReplicaSetRef(t) \in DOMAIN graph'.nodes => ReplicaSetRef(t) \in DOMAIN graph.nodes
    BY <1>2, RefsDiffer DEF Grown
  <2>4. QED BY <1>2, <2>1, <2>2, <2>3, JoinedKeeps
<1>7. lag = 0 => Current'
  <2> SUFFICES ASSUME Current
               PROVE  Current'
    BY DEF RInv
  <2>1. \A o \in objects : o.ref # SliceRef /\ \A t : o.ref # PodRef(t)
    BY <1>2, RefsDiffer
  <2>2. QED BY <1>2, <2>1, CurrentKeeps
<1>8. \A o \in objects : o.ref \in AllRefs
  BY <1>2 DEF AllRefs
<1>9. QED BY <1>1, <1>2, <1>4, <1>5, <1>6, <1>7, <1>8, RestKeeps

LEMMA ReplicaSetsKeep ==
    ASSUME RInv, ReadReplicaSets, UNCHANGED <<worldVars, lag, focus>>
    PROVE  RInv'
<1> DEFINE read == {t \in Existing : focus = DeploymentRef \/ InGraph(graph, PodRef(t))}
           objects == {ReplicaSetObject(t) : t \in read}
           edges == {Edge(DeploymentRef, ReplicaSetRef(t), "owns") : t \in read} \cup
                    {Edge(ReplicaSetRef(t), PodRef(t), "owns") :
                        t \in {u \in read : InGraph(graph, PodRef(u))}}
<1>1. Doing("replicaSets") /\ IsGraph(graph) /\ read \subseteq Templates
  BY DEF ReadReplicaSets, RInv, Existing
<1>2. graph' = AddEdges(AddNodes(graph, objects), edges)
  BY DEF ReadReplicaSets
<1>3. \A o \in objects : \E t \in read : o = ReplicaSetObject(t) /\ o.ref = ReplicaSetRef(t)
  BY DEF ReplicaSetObject
<1>4. \A t \in read : ReplicaSetRef(t) \in {o.ref : o \in objects}
  <2> SUFFICES ASSUME NEW t \in read
               PROVE  ReplicaSetRef(t) \in {o.ref : o \in objects}
    OBVIOUS
  <2>1. ReplicaSetObject(t) \in objects /\ ReplicaSetObject(t).ref = ReplicaSetRef(t)
    BY DEF ReplicaSetObject
  <2>2. QED BY <2>1
<1>5. \A e \in edges :
        \/ \E t \in read : e = Edge(DeploymentRef, ReplicaSetRef(t), "owns")
        \/ \E t \in read : PodRef(t) \in DOMAIN graph.nodes /\ e = Edge(ReplicaSetRef(t), PodRef(t), "owns")
  BY DEF InGraph
<1>6. \A t \in read : PodRef(t) \in DOMAIN graph.nodes => Edge(ReplicaSetRef(t), PodRef(t), "owns") \in edges
  BY DEF InGraph
<1> HIDE DEF read, objects, edges
<1>7. Grown(graph, graph', objects, edges)
  <2>1. \A o, q \in objects : o.ref = q.ref => o = q
    BY <1>3, RefsDiffer
  <2>2. Grown(graph, AddNodes(graph, objects), objects, {})
    BY <1>1, <2>1, NodesGrow
  <2>3. QED BY <1>2, <2>2, ThenEdges
<1>8. /\ DOMAIN graph.nodes \subseteq DOMAIN graph'.nodes
      /\ \A t \in read : ReplicaSetRef(t) \in DOMAIN graph'.nodes
      /\ \A r \in DOMAIN graph'.nodes : r \in DOMAIN graph.nodes \/ \E t \in read : r = ReplicaSetRef(t)
  <2>1. DOMAIN graph'.nodes = DOMAIN graph.nodes \cup {o.ref : o \in objects}
    BY <1>7 DEF Grown
  <2>2. QED BY <1>3, <1>4, <2>1
<1>9. DeploymentRef \in DOMAIN graph.nodes \/ Left("deployment")
  <2>1. focus # DeploymentRef => Left("deployment")
    BY <1>1, PlanStep DEF RInv
  <2>2. QED BY <2>1 DEF RInv, InGraph
<1>10. Anchored'
  <2>1. ASSUME NEW e \in edges
        PROVE  /\ e.to \in DOMAIN graph'.nodes
               /\ \/ e.from \in DOMAIN graph'.nodes
                  \/ e.from = DeploymentRef /\ Left("deployment")
    <3>1. \A from, to, type : Edge(from, to, type).from = from /\ Edge(from, to, type).to = to
      BY DEF Edge
    <3>2. QED BY <1>5, <1>8, <1>9, <3>1
  <2>2. QED BY <1>1, <1>7, <2>1, AnchoredKeeps
<1>11. Joined'
  <2>1. Joined
    BY DEF RInv
  <2>2. \A o \in objects : o.ref \notin {ServiceRef, SliceRef}
    BY <1>3, RefsDiffer
  <2>3. ASSUME NEW t \in Templates, PodRef(t) \in DOMAIN graph'.nodes,
               ReplicaSetRef(t) \in DOMAIN graph'.nodes,
               PodRef(t) \notin DOMAIN graph.nodes \/ ReplicaSetRef(t) \notin DOMAIN graph.nodes
        PROVE  Edge(ReplicaSetRef(t), PodRef(t), "owns") \in edges
    <3>1. PodRef(t) \in DOMAIN graph.nodes
      BY <1>8, <2>3, RefsDiffer
    <3>2. t \in read
      BY <1>8, <2>3, <3>1, RefsDiffer
    <3>3. QED BY <1>6, <3>1, <3>2
  <2>4. QED BY <1>7, <2>1, <2>2, <2>3, JoinedKeeps
<1>12. lag = 0 => Current'
  <2> SUFFICES ASSUME Current
               PROVE  Current'
    BY DEF RInv
  <2>1. \A o \in objects : o.ref # SliceRef /\ \A t : o.ref # PodRef(t)
    BY <1>3, RefsDiffer
  <2>2. QED BY <1>7, <2>1, CurrentKeeps
<1>13. \A o \in objects : o.ref \in AllRefs
  BY <1>1, <1>3 DEF AllRefs
<1>14. edges \subseteq AllEdges
  BY <1>1, <1>5 DEF AllEdges
<1>15. QED BY <1>1, <1>7, <1>10, <1>11, <1>12, <1>13, <1>14, RestKeeps

LEMMA PodsKeep ==
    ASSUME RInv, ReadPods, UNCHANGED <<worldVars, lag, focus>>
    PROVE  RInv'
<1> DEFINE read == {t \in Present : focus = ServiceRef \/ InGraph(graph, ReplicaSetRef(t))}
           objects == {PodObject(t) : t \in read}
           edges == {Edge(ServiceRef, PodRef(t), "selects") :
                        t \in {u \in read : focus = ServiceRef}} \cup
                    {Edge(ReplicaSetRef(t), PodRef(t), "owns") :
                        t \in {u \in read : InGraph(graph, ReplicaSetRef(u))}}
<1>1. Doing("pods") /\ IsGraph(graph) /\ read \subseteq Templates /\ read \subseteq Present
  BY DEF ReadPods, RInv, Present
<1>2. graph' = AddEdges(AddNodes(graph, objects), edges)
  BY DEF ReadPods
<1>3. \A o \in objects : \E t \in read : o = PodObject(t) /\ o.ref = PodRef(t)
  <2>1. \A t : PodObject(t).ref = PodRef(t)
    BY DEF PodObject
  <2>2. QED BY <2>1
<1>4. \A t \in read : PodRef(t) \in {o.ref : o \in objects}
  <2> SUFFICES ASSUME NEW t \in read
               PROVE  PodRef(t) \in {o.ref : o \in objects}
    OBVIOUS
  <2>1. PodObject(t) \in objects /\ PodObject(t).ref = PodRef(t)
    BY DEF PodObject
  <2>2. QED BY <2>1
<1>5. \A e \in edges :
        \/ focus = ServiceRef /\ \E t \in read : e = Edge(ServiceRef, PodRef(t), "selects")
        \/ \E t \in read : /\ ReplicaSetRef(t) \in DOMAIN graph.nodes
                           /\ e = Edge(ReplicaSetRef(t), PodRef(t), "owns")
  BY DEF InGraph
<1>6. \A t \in read : ReplicaSetRef(t) \in DOMAIN graph.nodes =>
        Edge(ReplicaSetRef(t), PodRef(t), "owns") \in edges
  BY DEF InGraph
<1> HIDE DEF read, objects, edges
<1>7. Grown(graph, graph', objects, edges)
  <2>1. \A o, q \in objects : o.ref = q.ref => o = q
    BY <1>3, RefsDiffer
  <2>2. Grown(graph, AddNodes(graph, objects), objects, {})
    BY <1>1, <2>1, NodesGrow
  <2>3. QED BY <1>2, <2>2, ThenEdges
<1>8. /\ DOMAIN graph.nodes \subseteq DOMAIN graph'.nodes
      /\ \A t \in read : PodRef(t) \in DOMAIN graph'.nodes
      /\ \A r \in DOMAIN graph'.nodes : r \in DOMAIN graph.nodes \/ \E t \in read : r = PodRef(t)
  <2>1. DOMAIN graph'.nodes = DOMAIN graph.nodes \cup {o.ref : o \in objects}
    BY <1>7 DEF Grown
  <2>2. QED BY <1>3, <1>4, <2>1
<1>9. focus = ServiceRef => Left("service")
  BY <1>1, PlanStep, RefsDiffer DEF RInv
<1>10. Anchored'
  <2>1. ASSUME NEW e \in edges
        PROVE  /\ e.to \in DOMAIN graph'.nodes
               /\ \/ e.from \in DOMAIN graph'.nodes
                  \/ e.from = ServiceRef /\ Left("service")
    <3>1. \A from, to, type : Edge(from, to, type).from = from /\ Edge(from, to, type).to = to
      BY DEF Edge
    <3>2. QED BY <1>5, <1>8, <1>9, <3>1
  <2>2. QED BY <1>1, <1>7, <2>1, AnchoredKeeps
<1>11. Joined'
  <2>1. Joined
    BY DEF RInv
  <2>2. \A o \in objects : o.ref \notin {ServiceRef, SliceRef}
    BY <1>3, RefsDiffer
  <2>3. ASSUME NEW t \in Templates, PodRef(t) \in DOMAIN graph'.nodes,
               ReplicaSetRef(t) \in DOMAIN graph'.nodes,
               PodRef(t) \notin DOMAIN graph.nodes \/ ReplicaSetRef(t) \notin DOMAIN graph.nodes
        PROVE  Edge(ReplicaSetRef(t), PodRef(t), "owns") \in edges
    <3>1. ReplicaSetRef(t) \in DOMAIN graph.nodes
      BY <1>8, <2>3, RefsDiffer
    <3>2. t \in read
      BY <1>8, <2>3, <3>1, RefsDiffer
    <3>3. QED BY <1>6, <3>1, <3>2
  <2>4. QED BY <1>7, <2>1, <2>2, <2>3, JoinedKeeps
<1>12. lag = 0 => Current'
  <2> SUFFICES ASSUME Current
               PROVE  Current'
    BY DEF RInv
  <2>1. \A o \in objects : o.ref # SliceRef
    BY <1>3, RefsDiffer
  <2>2. \A o \in objects, t \in Templates : o.ref = PodRef(t) => t \in Present /\ o = PodObject(t)
    BY <1>1, <1>3, RefsDiffer
  <2>3. QED BY <1>7, <2>1, <2>2, CurrentKeeps
<1>13. \A o \in objects : o.ref \in AllRefs
  BY <1>1, <1>3 DEF AllRefs
<1>14. edges \subseteq AllEdges
  BY <1>1, <1>5 DEF AllEdges
<1>15. QED BY <1>1, <1>7, <1>10, <1>11, <1>12, <1>13, <1>14, RestKeeps

LEMMA ServiceKeeps ==
    ASSUME RInv, ReadService, UNCHANGED <<worldVars, lag, focus>>
    PROVE  RInv'
<1> DEFINE reached == focus = ServiceRef \/ \E t \in Templates : InGraph(graph, PodRef(t))
           found == {ServiceObject, SliceObject}
           led == {Edge(ServiceRef, SliceRef, "routes-to")} \cup
                  {Edge(ServiceRef, PodRef(t), "selects") :
                        t \in {u \in Templates : InGraph(graph, PodRef(u))}}
           objects == IF reached THEN found ELSE {}
           edges == IF reached THEN led ELSE {}
<1>1. Doing("service") /\ IsGraph(graph) /\ Joined
  BY DEF ReadService, RInv
<1>2. graph' = IF reached THEN AddEdges(AddNodes(graph, found), led) ELSE graph
  BY DEF ReadService, ServiceObject, SliceObject
<1>3. /\ ServiceObject.ref = ServiceRef /\ SliceObject.ref = SliceRef
      /\ ServiceObject \in found /\ SliceObject \in found
      /\ \A o \in found : o = ServiceObject \/ o = SliceObject
  BY DEF ServiceObject, SliceObject
<1>4. /\ Edge(ServiceRef, SliceRef, "routes-to") \in led
      /\ \A e \in led : \/ e = Edge(ServiceRef, SliceRef, "routes-to")
                        \/ \E t \in Templates : PodRef(t) \in DOMAIN graph.nodes
                                                /\ e = Edge(ServiceRef, PodRef(t), "selects")
  BY DEF InGraph
<1> HIDE DEF found, led
<1>5. Grown(graph, graph', objects, edges)
  <2>1. CASE reached
    <3>1. \A o, q \in found : o.ref = q.ref => o = q
      BY <1>3, RefsDiffer
    <3>2. Grown(graph, AddNodes(graph, found), found, {})
      BY <1>1, <3>1, NodesGrow
    <3>3. QED BY <1>2, <2>1, <3>2, ThenEdges
  <2>2. CASE ~reached
    BY <1>1, <1>2, <2>2, NothingGrows
  <2>3. QED BY <2>1, <2>2
<1>6. /\ reached => ServiceRef \in DOMAIN graph'.nodes /\ SliceRef \in DOMAIN graph'.nodes
      /\ DOMAIN graph.nodes \subseteq DOMAIN graph'.nodes
      /\ \A r \in DOMAIN graph'.nodes : r \in DOMAIN graph.nodes \/ (reached /\ r \in {ServiceRef, SliceRef})
      /\ graph'.edges = graph.edges \cup edges
  <2>1. DOMAIN graph'.nodes = DOMAIN graph.nodes \cup {o.ref : o \in objects}
    BY <1>5 DEF Grown
  <2>2. reached => {o.ref : o \in objects} = {ServiceRef, SliceRef}
    BY <1>3
  <2>3. ~reached => {o.ref : o \in objects} = {}
    OBVIOUS
  <2>4. graph'.edges = graph.edges \cup edges
    BY <1>5 DEF Grown
  <2> HIDE DEF reached, objects, edges
  <2>5. QED BY <2>1, <2>2, <2>3, <2>4
<1>7. Anchored'
  <2>1. ASSUME NEW e \in edges
        PROVE  e.to \in DOMAIN graph'.nodes /\ e.from \in DOMAIN graph'.nodes
    <3>1. \A from, to, type : Edge(from, to, type).from = from /\ Edge(from, to, type).to = to
      BY DEF Edge
    <3>2. reached /\ e \in led
      BY <2>1
    <3> HIDE DEF reached
    <3>3. QED BY <1>4, <1>6, <3>1, <3>2
  <2>2. ASSUME NEW e \in graph.edges, e.from = ServiceRef
        PROVE  ServiceRef \in DOMAIN graph'.nodes
    <3>1. e.to \in DOMAIN graph.nodes /\ e \in AllEdges
      BY DEF RInv, Anchored
    <3>2. CASE e.to = SliceRef
      BY <1>1, <1>6, <3>1, <3>2 DEF Joined, InGraph
    <3>3. CASE \E t \in Templates : e.to = PodRef(t)
      <4>1. reached
        BY <3>1, <3>3 DEF InGraph
      <4>2. QED BY <1>6, <4>1
    <3>4. QED BY <2>2, <3>1, <3>2, <3>3, EdgeEnds
  <2> HIDE DEF reached, edges, objects
  <2>3. QED BY <1>1, <1>5, <2>1, <2>2, AnchoredKeeps
<1>8. Joined'
  <2>1. ASSUME NEW t \in Templates, ReplicaSetRef(t) \in DOMAIN graph'.nodes,
               PodRef(t) \in DOMAIN graph'.nodes
        PROVE  Edge(ReplicaSetRef(t), PodRef(t), "owns") \in graph'.edges
    <3>1. ReplicaSetRef(t) \in DOMAIN graph.nodes /\ PodRef(t) \in DOMAIN graph.nodes
      BY <1>6, <2>1, RefsDiffer
    <3>2. Edge(ReplicaSetRef(t), PodRef(t), "owns") \in graph.edges
      BY <1>1, <3>1 DEF Joined, InGraph
    <3>3. QED BY <1>6, <3>2
  <2>2. ServiceObject' = ServiceObject
    BY DEF ServiceObject
  <2>3. CASE reached
    <3>1. ServiceRef \in DOMAIN graph'.nodes /\ SliceRef \in DOMAIN graph'.nodes
      BY <1>6, <2>3
    <3>2. Edge(ServiceRef, SliceRef, "routes-to") \in graph'.edges
      BY <1>4, <1>6, <2>3
    <3>3. ObjectOf(graph', ServiceRef) =
            IF ObjectOf(graph, ServiceRef) = NoObject THEN ServiceObject ELSE ObjectOf(graph, ServiceRef)
      BY <1>3, <1>5, <2>3 DEF Grown
    <3>4. ObjectOf(graph, ServiceRef) \in {NoObject, ServiceObject}
      BY <1>1 DEF Joined, ObjectOf, InGraph
    <3>5. ObjectOf(graph', ServiceRef) = ServiceObject
      BY <3>3, <3>4
    <3> HIDE DEF reached
    <3>6. QED BY <2>1, <2>2, <3>1, <3>2, <3>5 DEF Joined, InGraph
  <2>4. CASE ~reached
    <3>1. graph' = graph
      BY <1>2, <2>4
    <3>2. QED BY <1>1, <2>2, <3>1 DEF Joined
  <2>5. QED BY <2>3, <2>4
<1>9. lag = 0 => Current'
  <2> SUFFICES ASSUME Current
               PROVE  Current'
    BY DEF RInv
  <2>1. \A o \in objects : o = ServiceObject \/ o = SliceObject
    BY <1>3
  <2>2. \A o \in objects, t \in Templates : o.ref # PodRef(t)
    BY <1>3, <2>1, RefsDiffer
  <2>3. \A o \in objects : o.ref = SliceRef => o = SliceObject
    BY <1>3, <2>1, RefsDiffer
  <2> HIDE DEF reached, edges, objects
  <2>4. QED BY <1>5, <2>2, <2>3, CurrentKeeps
<1>10. \A o \in objects : o.ref \in AllRefs
  BY <1>3 DEF AllRefs
<1>11. edges \subseteq AllEdges
  <2>1. led \subseteq AllEdges
    BY <1>4 DEF AllEdges
  <2>2. QED BY <2>1
<1> HIDE DEF reached, edges, objects
<1>12. QED BY <1>1, <1>5, <1>7, <1>8, <1>9, <1>10, <1>11, RestKeeps

LEMMA FinishKeeps ==
    ASSUME RInv, Finish, UNCHANGED <<worldVars, lag, focus>>
    PROVE  RInv'
<1>1. Doing("finish") /\ IsGraph(graph)
  BY DEF Finish, RInv
<1>2. Grown(graph, graph', {}, {})
  BY <1>1, IssueGrows, NothingGrows DEF Finish
<1>3. Anchored'
  BY <1>1, <1>2, AnchoredKeeps
<1>4. DOMAIN graph'.nodes = DOMAIN graph.nodes
  BY <1>2 DEF Grown
<1>5. Joined'
  BY <1>2, <1>4, JoinedKeeps DEF RInv
<1>6. lag = 0 => Current'
  BY <1>2, CurrentKeeps DEF RInv
<1>7. QED BY <1>1, <1>2, <1>3, <1>5, <1>6, RestKeeps

-----------------------------------------------------------------------------
(* At every moment. *)

LEMMA RInvBegins == Init => RInv
<1> SUFFICES ASSUME Init PROVE RInv
  OBVIOUS
<1>1. focus \in {DeploymentRef, ServiceRef}
  <2>1. focus \in Foci
    BY DEF Init
  <2>2. Foci \subseteq {DeploymentRef, ServiceRef}
    BY RolloutAssumption
  <2>3. QED BY <2>1, <2>2
<1>2. plan = Plan(focus) /\ Len(plan) = 5 /\ plan \in Seq(Steps)
  BY <1>1, PlanPlaces DEF Init
<1>3. OnPlan
  <2> SUFFICES ASSUME NEW i \in 1..5
               PROVE  plan[i] = Plan(focus)[5 - 5 + i]
    BY <1>2 DEF OnPlan
  <2>1. 5 - 5 + i = i
    OBVIOUS
  <2>2. QED BY <1>2, <2>1
<1>4. IsGraph(graph) /\ DOMAIN graph.nodes = {} /\ graph.edges = {} /\ lag = 0
  BY DEF Init, NewGraph, IsGraph, GraphFields
<1>5. focus = DeploymentRef => Left("deployment")
  <2> SUFFICES ASSUME focus = DeploymentRef
               PROVE  Left("deployment")
    OBVIOUS
  <2>1. plan = <<"deployment", "replicaSets", "pods", "service", "finish">>
    BY <1>1, <1>2, PlanIs
  <2>2. plan[1] = "deployment" /\ 1 \in 1..Len(plan)
    BY <2>1
  <2>3. QED BY <2>2 DEF Left
<1>6. Anchored /\ Joined /\ Current
  BY <1>4 DEF Anchored, Joined, Current, InGraph
<1>7. QED BY <1>1, <1>3, <1>4, <1>5, <1>6 DEF RInv

\* What else happens leaves the inspection as it was, and is counted once it has begun.
LEMMA WorldKeeps ==
    ASSUME RInv, WorldStep
    PROVE  RInv'
<1>1. /\ plan' = plan /\ focus' = focus /\ graph' = graph
      /\ lag' = IF Begun THEN lag + 1 ELSE lag
  BY DEF WorldStep
<1>2. /\ OnPlan' <=> OnPlan
      /\ Begun' <=> Begun
      /\ \A s : Left(s)' <=> Left(s)
      /\ AllRefs' = AllRefs /\ AllEdges' = AllEdges
  BY <1>1 DEF OnPlan, Begun, Left, AllRefs, AllEdges
<1>3. Anchored' /\ Joined'
  <2>1. Anchored /\ Joined
    BY DEF RInv
  <2>2. QED BY <1>1, <1>2, <2>1 DEF Anchored, Joined, ServiceObject
<1>4. lag' \in Nat
  BY <1>1 DEF RInv
<1>5. lag' = 0 => Current'
  <2>1. CASE Begun
    <3>1. lag' = lag + 1 /\ lag \in Nat
      BY <1>1, <2>1 DEF RInv
    <3>2. QED BY <3>1
  <2>2. CASE ~Begun
    <3>1. DOMAIN graph'.nodes = {}
      BY <1>1, <2>2 DEF RInv
    <3>2. QED BY <3>1 DEF Current, InGraph
  <2>3. QED BY <2>1, <2>2
<1> HIDE DEF Anchored, Joined, Current, OnPlan, Begun
<1>6. QED BY <1>1, <1>2, <1>3, <1>4, <1>5 DEF RInv

LEMMA RInvKeeps == RInv /\ [Next]_vars => RInv'
<1> SUFFICES ASSUME RInv, [Next]_vars PROVE RInv'
  OBVIOUS
<1>1. CASE WorldStep
  BY <1>1, WorldKeeps
<1>2. CASE InspectionStep
  <2>1. UNCHANGED <<worldVars, lag, focus>>
    BY <1>2 DEF InspectionStep
  <2>2. QED BY <1>2, <2>1, DeploymentKeeps, ReplicaSetsKeep, PodsKeep, ServiceKeeps, FinishKeeps
            DEF InspectionStep
<1>3. CASE UNCHANGED vars
  <2>1. /\ UNCHANGED <<deployment, replicaSets, pods, lag, focus, plan, graph>>
    BY <1>3 DEF vars, worldVars
  <2>2. /\ OnPlan' <=> OnPlan
        /\ Begun' <=> Begun
        /\ \A s : Left(s)' <=> Left(s)
        /\ AllRefs' = AllRefs /\ AllEdges' = AllEdges
    BY <2>1 DEF OnPlan, Begun, Left, AllRefs, AllEdges
  <2>3. Anchored' <=> Anchored
    BY <2>1, <2>2 DEF Anchored
  <2>4. Joined' <=> Joined
    BY <2>1 DEF Joined, ServiceObject
  <2>5. Current' <=> Current
    <3>1. Present' = Present /\ SliceObject' = SliceObject /\ \A t : PodObject(t)' = PodObject(t)
      BY <2>1 DEF Present, PodObject, SliceObject, Endpoint, Routed
    <3>2. QED BY <2>1, <3>1 DEF Current
  <2> HIDE DEF Anchored, Joined, Current, OnPlan, Begun
  <2>6. QED BY <2>1, <2>2, <2>3, <2>4, <2>5 DEF RInv
<1>4. QED BY <1>1, <1>2, <1>3 DEF Next

\* At every moment of an inspection of a rollout: every end of an edge is there or comes
\* with a step still to come, no ownership between two collected resources is missed, and
\* until something has happened what was collected is as the cluster is.
THEOREM WhatIsReadIsJoined == Spec => []RInv
<1>1. QED BY RInvBegins, RInvKeeps, PTL DEF Spec

-----------------------------------------------------------------------------
(* Two ownerships in a row. *)

\* What Frontier computes for the one path the rules ask for.
LEMMA TwoOwnerships ==
    ASSUME NEW g, NEW from
    PROVE  Frontier(g, from, <<"owns", "owns">>) =
            {e.to : e \in {f \in g.edges : f.type = "owns"
                            /\ \E b \in g.edges : b.from = from /\ b.type = "owns" /\ f.from = b.to}}
<1> DEFINE path == <<"owns", "owns">>
           Step(S, i) == {e.to : e \in {f \in g.edges : f.from \in S /\ f.type = path[i]}}
           Body(r) == [i \in 0..Len(path) |-> IF i = 0 THEN {from} ELSE Step(r[i - 1], i)]
           reached == CHOOSE r : r = Body(r)
           F == [i \in 0..2 |-> IF i = 0 THEN {from}
                                ELSE IF i = 1 THEN Step({from}, 1)
                                ELSE Step(Step({from}, 1), 2)]
<1>1. Len(path) = 2 /\ path[1] = "owns" /\ path[2] = "owns"
  OBVIOUS
<1>2. Frontier(g, from, path) = reached[Len(path)]
  BY DEF Frontier
<1> HIDE DEF path, Step
<1>3. F = Body(F)
  <2>1. \A i \in 0..2 : F[i] = Body(F)[i]
    <3>1. F[0] = {from} /\ F[1] = Step({from}, 1) /\ F[2] = Step(Step({from}, 1), 2)
      OBVIOUS
    <3>2. Body(F)[0] = {from} /\ Body(F)[1] = Step(F[0], 1) /\ Body(F)[2] = Step(F[1], 2)
      BY <1>1
    <3>3. \A i \in 0..2 : i = 0 \/ i = 1 \/ i = 2
      OBVIOUS
    <3>4. QED BY <3>1, <3>2, <3>3
  <2>2. QED BY <1>1, <2>1
<1> HIDE DEF F, Body
<1>4. reached = Body(reached)
  BY <1>3
<1> HIDE DEF reached
<1>5. reached[0] = {from} /\ reached[1] = Step(reached[0], 1) /\ reached[2] = Step(reached[1], 2)
  BY <1>1, <1>4 DEF Body
<1>6. reached[1] = {e.to : e \in {f \in g.edges : f.from = from /\ f.type = "owns"}}
  BY <1>1, <1>5 DEF Step
<1>7. reached[2] = {e.to : e \in {f \in g.edges : f.from \in reached[1] /\ f.type = "owns"}}
  BY <1>1, <1>5 DEF Step
<1>8. \A r : r \in reached[1] <=> \E b \in g.edges : b.from = from /\ b.type = "owns" /\ r = b.to
  BY <1>6
<1>9. Frontier(g, from, path) = reached[2]
  BY <1>1, <1>2
<1>10. QED BY <1>7, <1>8, <1>9 DEF path

\* The walk over two edges, in terms of edges that are asked for by their ends.
LEMMA TwoOwnershipsAre ==
    ASSUME NEW g, g.edges \subseteq AllEdges, NEW from, NEW to
    PROVE  to \in Frontier(g, from, <<"owns", "owns">>) <=>
            \E b \in g.edges : b.from = from /\ HasEdge(g, from, b.to, "owns") /\ HasEdge(g, b.to, to, "owns")
<1>1. to \in Frontier(g, from, <<"owns", "owns">>) <=>
        \E b, e \in g.edges : /\ b.from = from /\ b.type = "owns"
                              /\ e.from = b.to /\ e.type = "owns" /\ e.to = to
  BY TwoOwnerships
<1>2. \A e \in g.edges : e = Edge(e.from, e.to, e.type)
  BY EdgeEnds
<1>3. \A x, y, type : Edge(x, y, type).from = x /\ Edge(x, y, type).to = y /\ Edge(x, y, type).type = type
  BY DEF Edge
<1>4. ASSUME NEW b \in g.edges, NEW e \in g.edges, b.from = from, b.type = "owns",
             e.from = b.to, e.type = "owns", e.to = to
      PROVE  HasEdge(g, from, b.to, "owns") /\ HasEdge(g, b.to, to, "owns")
  BY <1>2, <1>4 DEF HasEdge
<1>5. ASSUME NEW b \in g.edges, b.from = from, HasEdge(g, from, b.to, "owns"), HasEdge(g, b.to, to, "owns")
      PROVE  \E c, e \in g.edges : /\ c.from = from /\ c.type = "owns"
                                   /\ e.from = c.to /\ e.type = "owns" /\ e.to = to
  <2> DEFINE c == Edge(from, b.to, "owns")
             e == Edge(b.to, to, "owns")
  <2>1. /\ c \in g.edges /\ e \in g.edges
        /\ c.from = from /\ c.to = b.to /\ c.type = "owns"
        /\ e.from = b.to /\ e.to = to /\ e.type = "owns"
    BY <1>3, <1>5 DEF HasEdge
  <2> HIDE DEF c, e
  <2>2. QED BY <2>1
<1>6. QED BY <1>1, <1>4, <1>5

\* When the inspection is over, HasTypedPath answers as a walk would, for every graph it
\* may have collected (graph.go:333-356).
THEOREM TypedPathsAreWalks == Spec => []TypedPathIsWalk
<1>1. RInv => TypedPathIsWalk
  <2> SUFFICES ASSUME RInv, plan = <<>>, NEW from \in DOMAIN graph.nodes
               PROVE  Frontier(graph, from, <<"owns", "owns">>) =
                        {to \in DOMAIN graph.nodes : \E between \in DOMAIN graph.nodes :
                            HasEdge(graph, from, between, "owns") /\ HasEdge(graph, between, to, "owns")}
    BY DEF TypedPathIsWalk
  <2>1. \A s : ~Left(s)
    <3>1. Len(plan) = 0
      OBVIOUS
    <3>2. QED BY <3>1 DEF Left
  <2>2. \A e \in graph.edges : e.to \in DOMAIN graph.nodes /\ e.from \in DOMAIN graph.nodes
    BY <2>1 DEF RInv, Anchored
  <2>3. graph.edges \subseteq AllEdges
    BY DEF RInv
  <2>4. \A x, y, type : HasEdge(graph, x, y, type) => x \in DOMAIN graph.nodes /\ y \in DOMAIN graph.nodes
    <3>1. \A x, y, type : Edge(x, y, type).from = x /\ Edge(x, y, type).to = y
      BY DEF Edge
    <3>2. QED BY <2>2, <3>1 DEF HasEdge
  <2>5. ASSUME NEW to
        PROVE  to \in Frontier(graph, from, <<"owns", "owns">>) <=>
                /\ to \in DOMAIN graph.nodes
                /\ \E between \in DOMAIN graph.nodes :
                    HasEdge(graph, from, between, "owns") /\ HasEdge(graph, between, to, "owns")
    <3>1. to \in Frontier(graph, from, <<"owns", "owns">>) <=>
            \E b \in graph.edges : /\ b.from = from /\ HasEdge(graph, from, b.to, "owns")
                                   /\ HasEdge(graph, b.to, to, "owns")
      BY <2>3, TwoOwnershipsAre
    <3>2. ASSUME NEW between, HasEdge(graph, from, between, "owns")
          PROVE  \E b \in graph.edges : b.from = from /\ b.to = between
      <4>1. Edge(from, between, "owns") \in graph.edges
        BY <3>2 DEF HasEdge
      <4>2. Edge(from, between, "owns").from = from /\ Edge(from, between, "owns").to = between
        BY DEF Edge
      <4>3. QED BY <4>1, <4>2
    <3>3. QED BY <2>2, <2>4, <3>1, <3>2
  <2>6. QED BY <2>5
<1>2. QED BY <1>1, WhatIsReadIsJoined, PTL

-----------------------------------------------------------------------------
(* What a finding of a type says of the graph. *)

LEMMA FindingFields ==
    \A type, resource, container, impact :
        /\ FindingOf(type, resource, container, impact).type = type
        /\ FindingOf(type, resource, container, impact).resource = resource
BY DEF FindingOf, FindingAbout

LEMMA WhatFindingsSay ==
    ASSUME NEW f \in Findings
    PROVE  /\ f.type = "pod-not-ready" => f.resource \in PodRefs(graph)
           /\ f.type = "deployment-unavailable" => f.resource \in Held(graph, "Deployment")
           /\ f.type = "service-no-ready-endpoints" =>
                /\ f.resource \in Held(graph, "Service")
                /\ \A e \in EndpointsOf(graph, f.resource) : ~e.ready /\ ~ServingTerminating(e)
<1>1. f \in PodFindings(graph) \/ f \in WorkloadFindings(graph)
  BY DEF Findings
<1>2. CASE f \in PodFindings(graph)
  <2>1. f \in CrashLoopFindings(graph) => f.type = "crashloop-backoff"
    BY FindingFields DEF CrashLoopFindings
  <2>2. f \in OomKilledFindings(graph) => f.type \in {"container-oomkilled", "container-sigkill"}
    BY FindingFields DEF OomKilledFindings, TerminationFinding
  <2>3. f \in PodNotReadyFindings(graph) => f.type = "pod-not-ready" /\ f.resource \in PodRefs(graph)
    BY FindingFields DEF PodNotReadyFindings
  <2>4. f \in ReadinessProbeFailingFindings(graph) => f.type = "readiness-probe-failing"
    BY FindingFields DEF ReadinessProbeFailingFindings
  <2>5. f \in ReadinessProbePortFindings(graph) => f.type = "readiness-probe-port-mismatch"
    BY FindingFields DEF ReadinessProbePortFindings
  <2>6. f \in NodePressureFindings(graph) => f.type = "node-pressure"
    BY FindingFields DEF NodePressureFindings
  <2>7. f \in PodEvictedFindings(graph) => f.type = "pod-evicted"
    BY FindingFields DEF PodEvictedFindings
  <2>8. QED BY <1>2, <2>1, <2>2, <2>3, <2>4, <2>5, <2>6, <2>7 DEF PodFindings
<1>3. CASE f \in WorkloadFindings(graph)
  <2>1. f \in SelectorNoPodsFindings(graph) => f.type = "service-selector-no-pods"
    BY FindingFields DEF SelectorNoPodsFindings
  <2>2. f \in TargetPortMismatchFindings(graph) => f.type = "service-target-port-mismatch"
    BY FindingFields DEF TargetPortMismatchFindings
  <2>3. ASSUME f \in NoReadyEndpointsFindings(graph), f.type = "service-no-ready-endpoints"
        PROVE  /\ f.resource \in Held(graph, "Service")
               /\ \A e \in EndpointsOf(graph, f.resource) : ~e.ready /\ ~ServingTerminating(e)
    <3>1. PICK r \in Selecting(graph) :
            /\ \A e \in EndpointsOf(graph, r) : ~e.ready
            /\ f = IF \E e \in EndpointsOf(graph, r) : ServingTerminating(e)
                   THEN FindingOf("service-terminating-endpoints-only", r, NoSubject, "risk")
                   ELSE FindingOf("service-no-ready-endpoints", r, NoSubject, "current")
      BY <2>3 DEF NoReadyEndpointsFindings
    <3>2. f.resource = r /\ ~\E e \in EndpointsOf(graph, r) : ServingTerminating(e)
      BY <2>3, <3>1, FindingFields
    <3>3. QED BY <3>1, <3>2 DEF Selecting
  <2>4. f \in NoReadyEndpointsFindings(graph) =>
            f.type \in {"service-terminating-endpoints-only", "service-no-ready-endpoints"}
    BY FindingFields DEF NoReadyEndpointsFindings
  <2>5. f \in DeploymentUnavailableFindings(graph) =>
            f.type = "deployment-unavailable" /\ f.resource \in Held(graph, "Deployment")
    BY FindingFields DEF DeploymentUnavailableFindings
  <2>6. f \in RolloutStuckFindings(graph) => f.type = "rollout-stuck"
    BY FindingFields DEF RolloutStuckFindings
  <2>7. QED BY <1>3, <2>1, <2>2, <2>3, <2>4, <2>5, <2>6 DEF WorkloadFindings
<1>4. QED BY <1>1, <1>2, <1>3

\* There is one Deployment and one Service to find anything about.
LEMMA OneOfEach ==
    ASSUME RInv
    PROVE  Held(graph, "Deployment") \subseteq {DeploymentRef} /\ Held(graph, "Service") \subseteq {ServiceRef}
<1>1. \A r \in DOMAIN graph.nodes : r \in AllRefs
  BY DEF RInv
<1>2. QED BY <1>1 DEF Held, AllRefs, DeploymentRef, ServiceRef, SliceRef, ReplicaSetRef, PodRef

-----------------------------------------------------------------------------
(* The two rules that say why a Deployment or a Service is down. *)

LEMMA JoinedExplains == RInv => OlderPodsExplainUnavailability
<1> SUFFICES ASSUME RInv, NEW f \in Findings, NEW e \in Findings, NEW t \in Templates,
                    f.type = "pod-not-ready", e.type = "deployment-unavailable",
                    f.resource = PodRef(t),
                    HasEdge(graph, DeploymentRef, ReplicaSetRef(t), "owns")
             PROVE  <<f, e>> \in Links
  BY DEF OlderPodsExplainUnavailability
<1>1. e.resource = DeploymentRef
  BY WhatFindingsSay, OneOfEach
<1>2. InGraph(graph, PodRef(t))
  <2>1. f.resource \in PodRefs(graph)
    BY WhatFindingsSay
  <2>2. QED BY <2>1 DEF PodRefs, InGraph
<1>3. /\ Edge(DeploymentRef, ReplicaSetRef(t), "owns") \in graph.edges
      /\ Edge(DeploymentRef, ReplicaSetRef(t), "owns").to = ReplicaSetRef(t)
      /\ Edge(DeploymentRef, ReplicaSetRef(t), "owns").from = DeploymentRef
  BY DEF HasEdge, Edge
<1>4. InGraph(graph, ReplicaSetRef(t))
  <2>1. Anchored
    BY DEF RInv
  <2>2. QED BY <1>3, <2>1 DEF Anchored, InGraph
<1>5. HasEdge(graph, ReplicaSetRef(t), PodRef(t), "owns")
  <2>1. Joined
    BY DEF RInv
  <2>2. QED BY <1>2, <1>4, <2>1 DEF Joined, HasEdge
<1>6. PodRef(t) \in Frontier(graph, DeploymentRef, <<"owns", "owns">>)
  <2>1. \E b \in graph.edges : /\ b.from = DeploymentRef
                               /\ HasEdge(graph, DeploymentRef, b.to, "owns")
                               /\ HasEdge(graph, b.to, PodRef(t), "owns")
    BY <1>3, <1>5
  <2>2. QED BY <2>1, TwoOwnershipsAre DEF RInv
<1>7. OwnedByDeployment(graph, f, e)
  BY <1>1, <1>6 DEF OwnedByDeployment, HasTypedPath
<1>8. Explains(graph, f, e)
  BY <1>7 DEF Explains
<1>9. QED BY <1>8 DEF Links, Correlate

\* A Pod of any ReplicaSet that is not Ready explains why its Deployment is short of
\* replicas, whatever the history and whatever moved while it was inspected
\* (ownedByDeployment).
THEOREM OlderPodsExplain == Spec => []OlderPodsExplainUnavailability
<1>1. QED BY WhatIsReadIsJoined, JoinedExplains, PTL

\* What a Service selects.
LEMMA SelectsPods ==
    ASSUME NEW p \in Targets(graph, ServiceRef, "selects"), graph.edges \subseteq AllEdges
    PROVE  \E t \in Templates : p = PodRef(t)
<1>1. PICK e \in graph.edges : e.from = ServiceRef /\ e.type = "selects" /\ e.to = p
  BY DEF Targets
<1>2. \A from, to, type : /\ Edge(from, to, type).from = from
                          /\ Edge(from, to, type).to = to
                          /\ Edge(from, to, type).type = type
  BY DEF Edge
<1>3. CASE \E t \in Templates : e = Edge(DeploymentRef, ReplicaSetRef(t), "owns")
  BY <1>1, <1>2, <1>3
<1>4. CASE \E t \in Templates : e = Edge(ReplicaSetRef(t), PodRef(t), "owns")
  BY <1>1, <1>2, <1>4
<1>5. CASE \E t \in Templates : e = Edge(ServiceRef, PodRef(t), "selects")
  BY <1>1, <1>2, <1>5
<1>6. CASE e = Edge(ServiceRef, SliceRef, "routes-to")
  BY <1>1, <1>2, <1>6
<1>7. QED BY <1>1, <1>3, <1>4, <1>5, <1>6 DEF AllEdges

LEMMA RoutesAreCurrent == RInv => UnroutedPodIsExplained
<1> SUFFICES ASSUME RInv, NEW f \in Findings, lag = 0,
                    f.type = "service-no-ready-endpoints",
                    NEW p \in SelectedPods(graph, f.resource), ObjectOf(graph, p).ready
             PROVE  FindingOf("service-target-port-mismatch", f.resource, NoSubject, "current") \in Findings
  BY DEF UnroutedPodIsExplained
<1>1. /\ f.resource = ServiceRef
      /\ ServiceRef \in Held(graph, "Service")
      /\ \A e \in EndpointsOf(graph, ServiceRef) : ~e.ready /\ ~ServingTerminating(e)
  BY WhatFindingsSay, OneOfEach
<1>2. /\ InGraph(graph, SliceRef)
      /\ Edge(ServiceRef, SliceRef, "routes-to") \in graph.edges
      /\ ObjectOf(graph, ServiceRef) = ServiceObject
  <2>1. InGraph(graph, ServiceRef)
    BY <1>1 DEF Held, InGraph
  <2>2. QED BY <2>1 DEF RInv, Joined
<1>3. PICK t \in Templates : p = PodRef(t)
  <2>1. p \in Targets(graph, ServiceRef, "selects")
    BY <1>1 DEF SelectedPods
  <2>2. QED BY <2>1, SelectsPods DEF RInv
<1>4. t \in Present /\ ObjectOf(graph, p) = PodObject(t) /\ ObjectOf(graph, SliceRef) = SliceObject
  <2>1. Current
    BY DEF RInv
  <2>2. InGraph(graph, PodRef(t))
    BY <1>3 DEF SelectedPods, ObjectOf
  <2>3. QED BY <1>2, <1>3, <2>1, <2>2 DEF Current
<1>5. pods[t] \in {"ready", "terminating"}
  <2>1. PodObject(t).ready = (pods[t] \in {"ready", "terminating"})
    BY DEF PodObject
  <2>2. PodObject(t).ready
    BY <1>4
  <2>3. QED BY <2>1, <2>2
<1>6. t \notin Declaring
  <2> SUFFICES ASSUME t \in Declaring
               PROVE  FALSE
    OBVIOUS
  <2>1. SliceObject.endpoints = {Endpoint(u) : u \in Routed}
    BY DEF SliceObject
  <2>2. Endpoint(t) \in SliceObject.endpoints
    BY <1>4, <2>1 DEF Routed
  <2>3. SliceObject # NoObject
    <3>1. \A u : Endpoint(u) \in [ready : BOOLEAN, serving : BOOLEAN, terminating : BOOLEAN]
      BY DEF Endpoint
    <3>2. SliceObject \in SliceState
      BY <3>1 DEF SliceObject, SliceState
    <3>3. QED BY <3>2, RolloutAssumption
  <2>4. SliceRef \in Targets(graph, ServiceRef, "routes-to")
    <3>1. /\ Edge(ServiceRef, SliceRef, "routes-to").from = ServiceRef
          /\ Edge(ServiceRef, SliceRef, "routes-to").to = SliceRef
          /\ Edge(ServiceRef, SliceRef, "routes-to").type = "routes-to"
      BY DEF Edge
    <3>2. QED BY <1>2, <3>1 DEF Targets
  <2>5. Endpoint(t) \in EndpointsOf(graph, ServiceRef)
    BY <1>4, <2>2, <2>3, <2>4 DEF EndpointsOf
  <2>6. ~Endpoint(t).ready /\ ~ServingTerminating(Endpoint(t))
    BY <1>1, <2>5
  <2>7. QED BY <1>5, <2>6 DEF Endpoint, ServingTerminating
<1>7. SomeUndeclared(graph, ServiceRef)
  <2>1. ~PodObject(t).declares
    BY <1>6 DEF PodObject
  <2>2. QED BY <1>1, <1>4, <2>1 DEF SomeUndeclared
<1>8. ServiceObject.target = "name"
  BY DEF ServiceObject
<1>9. FindingOf("service-target-port-mismatch", ServiceRef, NoSubject, "current")
        \in TargetPortMismatchFindings(graph)
  BY <1>1, <1>2, <1>7, <1>8 DEF TargetPortMismatchFindings
<1>10. Findings = PodFindings(graph) \cup WorkloadFindings(graph)
  BY DEF Findings
<1>11. QED BY <1>1, <1>9, <1>10 DEF WorkloadFindings

\* While nothing moves, the rule that reads the Pods' ports and the one that reads the
\* EndpointSlices agree: a Service without an endpoint although a Pod it selects is Ready
\* names a port that Pod does not declare (serviceTargetPortMismatchRule,
\* serviceNoReadyEndpointsRule).
THEOREM UnroutedPodsAreExplained == Spec => []UnroutedPodIsExplained
<1>1. QED BY WhatIsReadIsJoined, RoutesAreCurrent, PTL

-----------------------------------------------------------------------------
(* Types. *)

LEMMA TypesBegin == Init => TypeOK
<1> SUFFICES ASSUME Init PROVE TypeOK
  OBVIOUS
<1>1. replicaSets \in [Templates -> {Never} \cup Nat]
  BY RolloutAssumption DEF Init
<1>2. /\ deployment \in [template : Templates, available : {0, 1}, exceeded : BOOLEAN, synced : BOOLEAN]
      /\ pods \in [Templates -> PodStates]
  BY DEF Init, Templates, PodStates
<1>3. edits \in 0..MaxEdits /\ lag \in 0..MaxLag
  BY RolloutAssumption DEF Init
<1>4. focus \in Foci /\ changed \in BOOLEAN /\ graph.edges = {}
  BY DEF Init, NewGraph
<1>5. QED BY <1>1, <1>2, <1>3, <1>4 DEF TypeOK

\* The newest of the ReplicaSets there are.
LEMMA NewestIs ==
    ASSUME replicaSets \in [Templates -> {Never} \cup Nat]
    PROVE  1 + Max({replicaSets[t] : t \in Templates}) \in Nat
<1> DEFINE S == {replicaSets[t] : t \in Templates}
<1>1. S = {replicaSets[1], replicaSets[2]}
  BY DEF Templates
<1>2. replicaSets[1] \in {Never} \cup Nat /\ replicaSets[2] \in {Never} \cup Nat
  BY DEF Templates
<1> HIDE DEF S
<1>3. replicaSets[1] \in Int /\ replicaSets[2] \in Int
  BY <1>2 DEF Never
<1>4. \E x \in S : \A y \in S : x >= y
  BY <1>1, <1>3
<1>5. Max(S) \in S
  BY <1>4 DEF Max
<1>6. QED BY <1>1, <1>2, <1>5 DEF Never, S

LEMMA WorldTypes ==
    ASSUME TypeOK, World
    PROVE  /\ deployment' \in [template : Templates, available : {0, 1}, exceeded : BOOLEAN, synced : BOOLEAN]
           /\ replicaSets' \in [Templates -> {Never} \cup Nat]
           /\ pods' \in [Templates -> PodStates]
           /\ edits' \in 0..MaxEdits
<1> USE DEF TypeOK
<1>1. Target \in Templates
  BY DEF Target
<1>2. CASE Edit
  <2>1. 3 - deployment.template \in Templates
    BY DEF Templates
  <2>2. edits' \in 0..MaxEdits
    BY <1>2, RolloutAssumption DEF Edit
  <2>3. deployment' = [deployment EXCEPT !.template = 3 - deployment.template, !.synced = FALSE]
    BY <1>2 DEF Edit
  <2>4. deployment' \in [template : Templates, available : {0, 1}, exceeded : BOOLEAN, synced : BOOLEAN]
    BY <2>1, <2>3
  <2>5. QED BY <1>2, <2>2, <2>4 DEF Edit
<1>3. CASE Sync
  <2> DEFINE newest == 1 + Max({replicaSets[t] : t \in Templates})
             past == deployment.exceeded /\ deployment.synced /\ pods[Target] # "ready"
             now == IF ReadyPods = {} THEN 0 ELSE 1
  <2>1. newest \in Nat
    BY NewestIs
  <2>2. past \in BOOLEAN /\ now \in {0, 1}
    OBVIOUS
  <2>3. deployment' = [deployment EXCEPT !.synced = TRUE, !.available = now, !.exceeded = past]
    BY <1>3 DEF Sync
  <2>4. replicaSets' = [replicaSets EXCEPT ![Target] =
                            IF replicaSets[Target] = Never THEN newest ELSE replicaSets[Target]]
    BY <1>3 DEF Sync
  <2>5. UNCHANGED <<pods, edits>>
    BY <1>3 DEF Sync
  <2> HIDE DEF newest, past, now
  <2>6. deployment' \in [template : Templates, available : {0, 1}, exceeded : BOOLEAN, synced : BOOLEAN]
    BY <2>2, <2>3
  <2>7. replicaSets' \in [Templates -> {Never} \cup Nat]
    BY <1>1, <2>1, <2>4
  <2>8. QED BY <2>5, <2>6, <2>7
<1>4. CASE DeadlineExceeded
  BY <1>4 DEF DeadlineExceeded
<1>5. ASSUME NEW t \in Templates, CreatePod(t) \/ Readiness(t) \/ Retire(t)
      PROVE  UNCHANGED <<deployment, replicaSets, edits>> /\ pods' \in [Templates -> PodStates]
  <2>1. PICK state \in PodStates : PodBecomes(t, state)
    BY <1>5 DEF CreatePod, Readiness, Retire, PodStates
  <2>2. QED BY <2>1 DEF PodBecomes
<1>6. QED BY <1>2, <1>3, <1>4, <1>5 DEF World

\* What a step of the inspection does not touch, and what it sets.
LEMMA TypesKeep == RInv' /\ TypeOK /\ [Next]_vars => TypeOK'
<1> SUFFICES ASSUME RInv', TypeOK, [Next]_vars PROVE TypeOK'
  OBVIOUS
<1>1. plan' = <<>> => \A e \in graph'.edges : {e.from, e.to} \subseteq DOMAIN graph'.nodes
  <2> SUFFICES ASSUME plan' = <<>>
               PROVE  \A e \in graph'.edges : {e.from, e.to} \subseteq DOMAIN graph'.nodes
    OBVIOUS
  <2>1. \A s : ~Left(s)'
    <3>1. Len(plan') = 0
      OBVIOUS
    <3>2. QED BY <3>1 DEF Left
  <2>2. Anchored'
    BY DEF RInv
  <2>3. QED BY <2>1, <2>2 DEF Anchored
<1>2. CASE WorldStep
  <2>1. World /\ focus' = focus /\ changed' = (changed \/ deployment' # deployment)
    BY <1>2 DEF WorldStep
  <2>2. lag' \in 0..MaxLag
    BY <1>2, RolloutAssumption DEF WorldStep, TypeOK
  <2>3. changed' \in BOOLEAN /\ focus' \in Foci
    BY <2>1 DEF TypeOK
  <2>4. QED BY <1>1, <2>1, <2>2, <2>3, WorldTypes DEF TypeOK
<1>3. CASE InspectionStep
  <2>1. /\ UNCHANGED <<deployment, replicaSets, pods, edits, lag, focus>>
        /\ changed' \in {changed, FALSE}
    BY <1>3 DEF InspectionStep, worldVars, ReadDeployment, ReadReplicaSets, ReadPods, ReadService, Finish
  <2>2. QED BY <1>1, <2>1 DEF TypeOK
<1>4. CASE UNCHANGED vars
  BY <1>1, <1>4 DEF vars, worldVars, TypeOK
<1>5. QED BY <1>2, <1>3, <1>4 DEF Next

\* Every variable has its type, and a finished graph has a node at both ends of its edges.
THEOREM RolloutTypes == Spec => []TypeOK
<1>1. QED BY TypesBegin, TypesKeep, WhatIsReadIsJoined, PTL DEF Spec

-----------------------------------------------------------------------------
(* The chain the console draws for a root cause.  Nothing is known here of   *)
(* the graph or of the findings but that there are finitely many; the links  *)
(* may be any that lead to findings of a higher level.                       *)

Rank(f) == Level(f.type)

Ranked(links, findings) ==
    /\ links \subseteq findings \X findings
    /\ \A link \in links : Rank(link[1]) < Rank(link[2])

LEMMA RankBounds == \A f : Rank(f) \in 0..4
BY DEF Rank, Level

LEMMA CausesRank ==
    ASSUME NEW links, NEW findings, Ranked(links, findings), NEW f, NEW c
    PROVE  /\ c \in Causes(links, f) <=> <<f, c>> \in links
           /\ c \in Causes(links, f) => f \in findings /\ c \in findings /\ Rank(f) < Rank(c)
<1>1. ASSUME c \in Causes(links, f)
      PROVE  <<f, c>> \in links /\ f \in findings /\ c \in findings /\ Rank(f) < Rank(c)
  <2>1. PICK l \in links : l[1] = f /\ l[2] = c
    BY <1>1 DEF Causes
  <2>2. l = <<f, c>>
    BY <2>1 DEF Ranked
  <2>3. QED BY <2>1, <2>2 DEF Ranked
<1>2. ASSUME <<f, c>> \in links
      PROVE  c \in Causes(links, f)
  <2>1. <<f, c>>[1] = f /\ <<f, c>>[2] = c
    OBVIOUS
  <2>2. QED BY <1>2, <2>1 DEF Causes
<1>3. QED BY <1>1, <1>2

\* The walks of n findings along links, from a finding on.
Walks(links, findings, f, n) ==
    {p \in Seq(findings) : /\ Len(p) = n /\ p[1] = f
                           /\ \A i \in 1..n-1 : <<p[i], p[i + 1]>> \in links}

\* There are n links on from a finding.
Far(links, findings, f, n) == Walks(links, findings, f, n + 1) # {}

LEMMA FarNowhere ==
    ASSUME NEW links, NEW findings, NEW f \in findings
    PROVE  Far(links, findings, f, 0)
<1>1. <<f>> \in Seq(findings) /\ Len(<<f>>) = 1 /\ <<f>>[1] = f
  OBVIOUS
<1>2. <<f>> \in Walks(links, findings, f, 1)
  BY <1>1 DEF Walks
<1>3. QED BY <1>2 DEF Far

\* Going on n + 1 links is going on one, and then n.
LEMMA FarOnward ==
    ASSUME NEW links, NEW findings, Ranked(links, findings), NEW f \in findings, NEW n \in Nat
    PROVE  Far(links, findings, f, n + 1) <=> \E c \in Causes(links, f) : Far(links, findings, c, n)
<1>1. ASSUME Far(links, findings, f, n + 1)
      PROVE  \E c \in Causes(links, f) : Far(links, findings, c, n)
  <2>1. PICK p \in Seq(findings) : /\ Len(p) = n + 2 /\ p[1] = f
                                   /\ \A i \in 1..n + 1 : <<p[i], p[i + 1]>> \in links
    <3>1. (n + 1) + 1 = n + 2 /\ (n + 2) - 1 = n + 1
      OBVIOUS
    <3>2. QED BY <1>1, <3>1 DEF Far, Walks
  <2>2. p # <<>>
    BY <2>1
  <2> DEFINE q == Tail(p)
  <2>3. /\ q \in Seq(findings) /\ Len(q) = n + 1
        /\ \A i \in 1..n + 1 : q[i] = p[i + 1]
    <3>1. /\ q \in Seq(findings) /\ Len(q) = Len(p) - 1
          /\ \A i \in 1..Len(q) : q[i] = p[i + 1]
      BY <2>2, HeadTailProperties
    <3> HIDE DEF q
    <3>2. Len(q) = n + 1
      BY <2>1, <3>1
    <3>3. QED BY <3>1, <3>2
  <2> HIDE DEF q
  <2>4. 1 \in 1..n + 1 /\ 1 + 1 = 2
    OBVIOUS
  <2>5. q[1] = p[2] /\ <<f, p[2]>> \in links
    BY <2>1, <2>3, <2>4
  <2>6. ASSUME NEW i \in 1..n
        PROVE  <<q[i], q[i + 1]>> \in links
    <3>1. i \in 1..n + 1 /\ i + 1 \in 1..n + 1
      OBVIOUS
    <3>2. q[i] = p[i + 1] /\ q[i + 1] = p[i + 1 + 1]
      BY <2>3, <3>1
    <3>3. <<p[i + 1], p[i + 1 + 1]>> \in links
      BY <2>1, <3>1
    <3>4. QED BY <3>2, <3>3
  <2>7. q \in Walks(links, findings, p[2], n + 1)
    <3>1. (n + 1) - 1 = n
      OBVIOUS
    <3>2. QED BY <2>3, <2>5, <2>6, <3>1 DEF Walks
  <2>8. p[2] \in Causes(links, f)
    BY <2>5, CausesRank
  <2>9. QED BY <2>7, <2>8 DEF Far
<1>2. ASSUME NEW c \in Causes(links, f), Far(links, findings, c, n)
      PROVE  Far(links, findings, f, n + 1)
  <2>1. PICK q \in Seq(findings) : /\ Len(q) = n + 1 /\ q[1] = c
                                   /\ \A i \in 1..n : <<q[i], q[i + 1]>> \in links
    <3>1. (n + 1) - 1 = n
      OBVIOUS
    <3>2. QED BY <1>2, <3>1 DEF Far, Walks
  <2> DEFINE p == <<f>> \o q
  <2>2. <<f>> \in Seq(findings) /\ Len(<<f>>) = 1 /\ <<f>>[1] = f
    OBVIOUS
  <2>3. /\ p \in Seq(findings) /\ Len(p) = 1 + Len(q)
        /\ \A i \in 1..1 + Len(q) : p[i] = IF i <= 1 THEN <<f>>[i] ELSE q[i - 1]
    BY <2>2, ConcatProperties
  <2> HIDE DEF p
  <2>4. Len(p) = n + 2 /\ p[1] = f /\ \A i \in 1..n + 1 : p[i + 1] = q[i]
    <3>1. 1 + Len(q) = n + 2
      BY <2>1
    <3>2. 1 \in 1..n + 2 /\ 1 <= 1
      OBVIOUS
    <3>3. \A i \in 1..n + 1 : i + 1 \in 1..n + 2 /\ ~(i + 1 <= 1) /\ (i + 1) - 1 = i
      OBVIOUS
    <3>4. QED BY <2>2, <2>3, <3>1, <3>2, <3>3
  <2>5. ASSUME NEW i \in 1..n + 1
        PROVE  <<p[i], p[i + 1]>> \in links
    <3>1. CASE i = 1
      <4>1. p[i + 1] = c /\ p[i] = f
        BY <2>1, <2>4, <3>1
      <4>2. QED BY <1>2, <4>1, CausesRank
    <3>2. CASE i # 1
      <4>1. i - 1 \in 1..n /\ i - 1 \in 1..n + 1 /\ (i - 1) + 1 = i
        BY <3>2
      <4>2. p[i] = q[i - 1] /\ p[i + 1] = q[i]
        <5>1. p[(i - 1) + 1] = q[i - 1]
          BY <2>4, <4>1
        <5>2. QED BY <2>4, <4>1, <5>1
      <4>3. <<q[i - 1], q[i]>> \in links
        <5>1. <<q[i - 1], q[(i - 1) + 1]>> \in links
          BY <2>1, <4>1
        <5>2. QED BY <4>1, <5>1
      <4>4. QED BY <4>2, <4>3
    <3>3. QED BY <3>1, <3>2
  <2>6. p \in Walks(links, findings, f, n + 2)
    <3>1. (n + 2) - 1 = n + 1
      OBVIOUS
    <3>2. QED BY <2>3, <2>4, <2>5, <3>1 DEF Walks
  <2>7. (n + 1) + 1 = n + 2
    OBVIOUS
  <2>8. QED BY <2>6, <2>7 DEF Far
<1>3. QED BY <1>1, <1>2

\* Whoever can go on m links can go on fewer.
LEMMA FarNearer ==
    ASSUME NEW links, NEW findings, NEW f \in findings, NEW m \in Nat, NEW n \in Nat, n <= m,
           Far(links, findings, f, m)
    PROVE  Far(links, findings, f, n)
<1>1. PICK p \in Seq(findings) : /\ Len(p) = m + 1 /\ p[1] = f
                                 /\ \A i \in 1..m : <<p[i], p[i + 1]>> \in links
  <2>1. (m + 1) - 1 = m
    OBVIOUS
  <2>2. QED BY <2>1 DEF Far, Walks
<1> DEFINE q == SubSeq(p, 1, n + 1)
<1>2. /\ q \in Seq(findings) /\ Len(q) = n + 1
      /\ \A i \in 1..n + 1 : q[i] = p[i]
  <2>1. \A i \in 1..n + 1 : p[i] \in findings
    <3>1. \A i \in 1..n + 1 : i \in 1..Len(p)
      BY <1>1
    <3>2. QED BY <3>1, ElementOfSeq
  <2>2. /\ q \in Seq(findings)
        /\ Len(q) = IF 1 <= n + 1 THEN (n + 1) - 1 + 1 ELSE 0
        /\ \A i \in 1..(n + 1) - 1 + 1 : q[i] = p[1 + i - 1]
    BY <2>1, SubSeqProperties
  <2> HIDE DEF q
  <2>3. (n + 1) - 1 + 1 = n + 1 /\ 1 <= n + 1 /\ \A i \in 1..n + 1 : 1 + i - 1 = i
    OBVIOUS
  <2>4. QED BY <2>2, <2>3
<1> HIDE DEF q
<1>3. \A i \in 1..n : i \in 1..m /\ i \in 1..n + 1 /\ i + 1 \in 1..n + 1
  OBVIOUS
<1>4. 1 \in 1..n + 1 /\ (n + 1) - 1 = n
  OBVIOUS
<1>5. q \in Walks(links, findings, f, n + 1)
  BY <1>1, <1>2, <1>3, <1>4 DEF Walks
<1>6. QED BY <1>5 DEF Far

-----------------------------------------------------------------------------
(* The depth the chain is drawn by. *)

\* What ChainDepth is the fixpoint of.
DepthBody(links, findings, d) ==
    [at \in findings \X SUBSET findings |->
        LET onward == Causes(links, at[1]) \ at[2]
        IN  IF onward = {}
            THEN 0
            ELSE Max({1 + d[<<c, at[2] \cup {c}>>] : c \in onward})]

\* The depths of what a finding explains.
Depths(links, d, f, seen) == [c \in Causes(links, f) \ seen |-> d[<<c, seen \cup {c}>>]]

OneMore(w) == {1 + w[c] : c \in DOMAIN w}

LEMMA DepthAt ==
    ASSUME NEW links, NEW findings, NEW d, NEW f \in findings, NEW seen \in SUBSET findings
    PROVE  DepthBody(links, findings, d)[<<f, seen>>] =
            IF Causes(links, f) \ seen = {} THEN 0 ELSE Max(OneMore(Depths(links, d, f, seen)))
<1>1. DepthBody(links, findings, d)[<<f, seen>>] =
        IF Causes(links, f) \ seen = {}
        THEN 0
        ELSE Max({1 + d[<<c, seen \cup {c}>>] : c \in Causes(links, f) \ seen})
  BY DEF DepthBody
<1>2. OneMore(Depths(links, d, f, seen)) =
        {1 + d[<<c, seen \cup {c}>>] : c \in Causes(links, f) \ seen}
  BY DEF OneMore, Depths
<1>3. QED BY <1>1, <1>2

\* d and e say the same of all findings of level k or higher.
Agree(findings, d, e, k) ==
    \A f \in findings, seen \in SUBSET findings :
        Rank(f) >= k => d[<<f, seen>>] = e[<<f, seen>>]

LEMMA AgreeLower ==
    ASSUME NEW links, NEW findings, Ranked(links, findings), NEW d, NEW e, NEW k \in 0..4,
           Agree(findings, d, e, k + 1)
    PROVE  Agree(findings, DepthBody(links, findings, d), DepthBody(links, findings, e), k)
<1> SUFFICES ASSUME NEW f \in findings, NEW seen \in SUBSET findings, Rank(f) >= k
             PROVE  DepthBody(links, findings, d)[<<f, seen>>] = DepthBody(links, findings, e)[<<f, seen>>]
  BY DEF Agree
<1>1. ASSUME NEW c \in Causes(links, f) \ seen
      PROVE  d[<<c, seen \cup {c}>>] = e[<<c, seen \cup {c}>>]
  <2>1. c \in findings /\ Rank(f) < Rank(c)
    BY CausesRank
  <2>2. Rank(c) >= k + 1
    BY <2>1, RankBounds
  <2>3. seen \cup {c} \in SUBSET findings
    BY <2>1
  <2>4. QED BY <2>1, <2>2, <2>3 DEF Agree
<1>2. Depths(links, d, f, seen) = Depths(links, e, f, seen)
  BY <1>1 DEF Depths
<1>3. QED BY <1>2, DepthAt

LEMMA AgreeEverywhere ==
    ASSUME NEW links, NEW findings, NEW d, NEW e,
           Agree(findings, DepthBody(links, findings, d), DepthBody(links, findings, e), 0)
    PROVE  DepthBody(links, findings, d) = DepthBody(links, findings, e)
<1>1. ASSUME NEW at \in findings \X SUBSET findings
      PROVE  DepthBody(links, findings, d)[at] = DepthBody(links, findings, e)[at]
  <2>1. at = <<at[1], at[2]>> /\ at[1] \in findings /\ at[2] \in SUBSET findings
    OBVIOUS
  <2>2. Rank(at[1]) >= 0
    BY RankBounds
  <2>3. DepthBody(links, findings, d)[<<at[1], at[2]>>] = DepthBody(links, findings, e)[<<at[1], at[2]>>]
    BY <2>1, <2>2 DEF Agree
  <2>4. QED BY <2>1, <2>3
<1>2. QED BY <1>1 DEF DepthBody

\* Levels end, so the depth is defined.
LEMMA DepthIsDefined ==
    ASSUME NEW links, NEW findings, Ranked(links, findings)
    PROVE  ChainDepth(links, findings) = DepthBody(links, findings, ChainDepth(links, findings))
<1> DEFINE d0 == [at \in findings \X SUBSET findings |-> 0]
           d1 == DepthBody(links, findings, d0)
           d2 == DepthBody(links, findings, d1)
           d3 == DepthBody(links, findings, d2)
           d4 == DepthBody(links, findings, d3)
           d5 == DepthBody(links, findings, d4)
           d6 == DepthBody(links, findings, d5)
<1>1. Agree(findings, d0, d1, 5)
  <2>1. \A f : ~(Rank(f) >= 5)
    BY RankBounds
  <2>2. QED BY <2>1 DEF Agree
<1> HIDE DEF d0
<1>2. Agree(findings, d1, d2, 4)
  <2>1. 4 + 1 = 5 /\ 4 \in 0..4
    OBVIOUS
  <2>2. Agree(findings, d0, d1, 4 + 1)
    BY <1>1, <2>1
  <2> HIDE DEF Agree
  <2>3. QED BY <2>1, <2>2, AgreeLower
<1> HIDE DEF d1
<1>3. Agree(findings, d2, d3, 3)
  <2>1. 3 + 1 = 4 /\ 3 \in 0..4
    OBVIOUS
  <2>2. Agree(findings, d1, d2, 3 + 1)
    BY <1>2, <2>1
  <2>3. QED BY <2>1, <2>2, AgreeLower
<1> HIDE DEF d2
<1>4. Agree(findings, d3, d4, 2)
  <2>1. 2 + 1 = 3 /\ 2 \in 0..4
    OBVIOUS
  <2>2. Agree(findings, d2, d3, 2 + 1)
    BY <1>3, <2>1
  <2>3. QED BY <2>1, <2>2, AgreeLower
<1> HIDE DEF d3
<1>5. Agree(findings, d4, d5, 1)
  <2>1. 1 + 1 = 2 /\ 1 \in 0..4
    OBVIOUS
  <2>2. Agree(findings, d3, d4, 1 + 1)
    BY <1>4, <2>1
  <2>3. QED BY <2>1, <2>2, AgreeLower
<1> HIDE DEF d4
<1>6. Agree(findings, d5, d6, 0)
  <2>1. 0 + 1 = 1 /\ 0 \in 0..4
    OBVIOUS
  <2>2. Agree(findings, d4, d5, 0 + 1)
    BY <1>5, <2>1
  <2>3. QED BY <2>1, <2>2, AgreeLower
<1>7. d5 = d6
  BY <1>6, AgreeEverywhere
<1> HIDE DEF d5
<1>8. d5 = DepthBody(links, findings, d5)
  BY <1>7
<1>9. ChainDepth(links, findings) = CHOOSE d : d = DepthBody(links, findings, d)
  BY DEF ChainDepth, DepthBody
<1>10. QED BY <1>8, <1>9

\* A set of small numbers that is not empty has a greatest.
LEMMA GreatestNumber ==
    ASSUME NEW T \in SUBSET (0..4), T # {}
    PROVE  \E x \in T : \A y \in T : y <= x
<1>1. \A x \in 0..4 : x = 0 \/ x = 1 \/ x = 2 \/ x = 3 \/ x = 4
  OBVIOUS
<1>2. CASE 4 \in T
  BY <1>2
<1>3. CASE 4 \notin T /\ 3 \in T
  BY <1>1, <1>3
<1>4. CASE 4 \notin T /\ 3 \notin T /\ 2 \in T
  BY <1>1, <1>4
<1>5. CASE 4 \notin T /\ 3 \notin T /\ 2 \notin T /\ 1 \in T
  BY <1>1, <1>5
<1>6. CASE T \subseteq {0}
  <2>1. PICK x \in T : TRUE
    OBVIOUS
  <2>2. x = 0 /\ \A y \in T : y = 0
    BY <1>6
  <2>3. \A y \in T : y <= x
    BY <2>2
  <2>4. QED BY <2>3
<1>7. QED BY <1>1, <1>2, <1>3, <1>4, <1>5, <1>6

\* The greatest of numbers that are one more.
LEMMA GreatestOneMore ==
    ASSUME NEW C, C # {}, NEW w \in [C -> 0..4]
    PROVE  \E c \in C : Max(OneMore(w)) = w[c] + 1 /\ \A b \in C : w[b] <= w[c]
<1> DEFINE T == {w[c] : c \in C}
<1>1. T \in SUBSET (0..4) /\ T # {}
  OBVIOUS
<1>2. PICK x \in T : \A y \in T : y <= x
  <2> HIDE DEF T
  <2>1. QED BY <1>1, GreatestNumber
<1>3. PICK c \in C : x = w[c]
  OBVIOUS
<1>4. \A b \in C : w[b] <= w[c]
  BY <1>2, <1>3
<1> DEFINE S == OneMore(w)
<1>5. S \in SUBSET Int /\ w[c] + 1 \in S /\ \A y \in S : w[c] + 1 >= y
  <2>1. DOMAIN w = C /\ \A b \in C : w[b] \in 0..4
    OBVIOUS
  <2>2. \A b \in C : 1 + w[b] \in Int /\ w[c] + 1 >= 1 + w[b]
    BY <1>4, <2>1
  <2>3. w[c] + 1 = 1 + w[c]
    BY <2>1
  <2>4. QED BY <2>1, <2>2, <2>3 DEF OneMore
<1> HIDE DEF S
<1>6. Max(S) \in S /\ \A y \in S : Max(S) >= y
  BY <1>5 DEF Max
<1>7. Max(S) = w[c] + 1
  <2>1. Max(S) \in Int /\ w[c] + 1 \in Int
    BY <1>5, <1>6
  <2>2. Max(S) >= w[c] + 1
    BY <1>5, <1>6
  <2>3. w[c] + 1 >= Max(S)
    BY <1>5, <1>6
  <2> HIDE DEF S
  <2>4. \A m, n \in Int : m >= n /\ n >= m => m = n
    OBVIOUS
  <2>5. QED BY <2>1, <2>2, <2>3, <2>4
<1>8. QED BY <1>4, <1>7 DEF S

\* n is how far one can go on from f.
Farthest(links, findings, f, n) ==
    Far(links, findings, f, n) /\ ~Far(links, findings, f, n + 1)

\* One goes farthest over what goes farthest.
LEMMA FarthestOnward ==
    ASSUME NEW links, NEW findings, Ranked(links, findings), NEW f \in findings,
           NEW c \in Causes(links, f), NEW w \in [Causes(links, f) -> 0..4],
           \A b \in Causes(links, f) : w[b] <= w[c] /\ Farthest(links, findings, b, w[b])
    PROVE  Farthest(links, findings, f, w[c] + 1)
<1>1. w[c] \in Nat /\ \A b \in Causes(links, f) : w[b] \in Nat /\ b \in findings
  <2>1. \A b \in Causes(links, f) : w[b] \in 0..4
    OBVIOUS
  <2>2. \A b \in Causes(links, f) : w[b] \in Nat
    BY <2>1
  <2>3. \A b \in Causes(links, f) : b \in findings
    BY CausesRank
  <2>4. QED BY <2>2, <2>3
<1>2. Far(links, findings, f, w[c] + 1)
  BY <1>1, FarOnward DEF Farthest
<1>3. ASSUME NEW b \in Causes(links, f), Far(links, findings, b, w[c] + 1)
      PROVE  FALSE
  <2>1. w[b] + 1 \in Nat /\ w[c] + 1 \in Nat /\ w[b] + 1 <= w[c] + 1
    BY <1>1
  <2>2. Far(links, findings, b, w[b] + 1)
    BY <1>1, <1>3, <2>1, FarNearer
  <2>3. QED BY <2>2 DEF Farthest
<1>4. w[c] + 1 \in Nat
  BY <1>1
<1>5. ~Far(links, findings, f, (w[c] + 1) + 1)
  BY <1>3, <1>4, FarOnward
<1>6. QED BY <1>2, <1>5 DEF Farthest

\* The depth is right for findings of level k or higher, seen from a path to them.
DepthRight(links, findings, k) ==
    \A f \in findings, seen \in SUBSET findings :
        /\ Rank(f) >= k
        /\ \A s \in seen : Rank(s) <= Rank(f)
        => /\ ChainDepth(links, findings)[<<f, seen>>] \in 0..(4 - k)
           /\ Farthest(links, findings, f, ChainDepth(links, findings)[<<f, seen>>])

\* What comes after a finding is not among those of its level or lower.
LEMMA OnwardIsNew ==
    ASSUME NEW links, NEW findings, Ranked(links, findings), NEW f, NEW seen,
           \A s \in seen : Rank(s) <= Rank(f)
    PROVE  Causes(links, f) \ seen = Causes(links, f)
<1>1. ASSUME NEW c \in Causes(links, f), c \in seen
      PROVE  FALSE
  <2>1. Rank(f) < Rank(c) /\ Rank(c) <= Rank(f)
    BY <1>1, CausesRank
  <2>2. Rank(f) \in 0..4 /\ Rank(c) \in 0..4
    BY RankBounds
  <2>3. QED BY <2>1, <2>2
<1>2. QED BY <1>1

LEMMA DepthLower ==
    ASSUME NEW links, NEW findings, Ranked(links, findings), NEW k \in 0..4,
           k < 4 => DepthRight(links, findings, k + 1)
    PROVE  DepthRight(links, findings, k)
<1> DEFINE d == ChainDepth(links, findings)
<1> SUFFICES ASSUME NEW f \in findings, NEW seen \in SUBSET findings, Rank(f) >= k,
                    \A s \in seen : Rank(s) <= Rank(f)
             PROVE  d[<<f, seen>>] \in 0..(4 - k) /\ Farthest(links, findings, f, d[<<f, seen>>])
  BY DEF DepthRight
<1> DEFINE w == Depths(links, d, f, seen)
<1>1. Causes(links, f) \ seen = Causes(links, f)
  BY OnwardIsNew
<1>2. d[<<f, seen>>] = IF Causes(links, f) = {} THEN 0 ELSE Max(OneMore(w))
  BY <1>1, DepthAt, DepthIsDefined
<1>3. ASSUME NEW c \in Causes(links, f)
      PROVE  k < 4 /\ d[<<c, seen \cup {c}>>] \in 0..(4 - (k + 1))
             /\ Farthest(links, findings, c, d[<<c, seen \cup {c}>>])
  <2>1. c \in findings /\ Rank(f) < Rank(c) /\ Rank(c) \in 0..4 /\ Rank(f) \in 0..4
    BY CausesRank, RankBounds
  <2>2. Rank(c) >= k + 1 /\ k < 4
    BY <2>1
  <2>3. seen \cup {c} \in SUBSET findings
    BY <2>1
  <2>4. \A s \in seen \cup {c} : Rank(s) <= Rank(c)
    BY <2>1, RankBounds
  <2>5. QED BY <2>1, <2>2, <2>3, <2>4 DEF DepthRight
<1>4. /\ DOMAIN w = Causes(links, f)
      /\ \A c \in Causes(links, f) : /\ k < 4 /\ w[c] \in 0..(4 - (k + 1))
                                     /\ Farthest(links, findings, c, w[c])
  BY <1>1, <1>3 DEF Depths
<1>5. w = [c \in Causes(links, f) |-> w[c]]
  BY <1>1 DEF Depths
<1> HIDE DEF d, w
<1>6. CASE Causes(links, f) = {}
  <2>1. d[<<f, seen>>] = 0 /\ 0 \in 0..(4 - k)
    BY <1>2, <1>6
  <2>2. Far(links, findings, f, 0)
    BY FarNowhere
  <2>3. ~Far(links, findings, f, 0 + 1)
    BY <1>6, FarOnward
  <2>4. QED BY <2>1, <2>2, <2>3 DEF Farthest
<1>7. CASE Causes(links, f) # {}
  <2>1. \A c \in Causes(links, f) : w[c] \in 0..4
    BY <1>4
  <2>2. w \in [Causes(links, f) -> 0..4]
    BY <1>5, <2>1
  <2>3. PICK c \in Causes(links, f) :
            Max(OneMore(w)) = w[c] + 1 /\ \A b \in Causes(links, f) : w[b] <= w[c]
    BY <1>7, <2>2, GreatestOneMore
  <2>4. Farthest(links, findings, f, w[c] + 1)
    BY <1>4, <2>2, <2>3, FarthestOnward
  <2>5. w[c] + 1 \in 0..(4 - k)
    BY <1>4
  <2>6. QED BY <1>2, <1>7, <2>3, <2>4, <2>5
<1>8. QED BY <1>6, <1>7

LEMMA DepthIsFarthest ==
    ASSUME NEW links, NEW findings, Ranked(links, findings),
           NEW f \in findings, NEW seen \in SUBSET findings, \A s \in seen : Rank(s) <= Rank(f)
    PROVE  /\ ChainDepth(links, findings)[<<f, seen>>] \in 0..4
           /\ Farthest(links, findings, f, ChainDepth(links, findings)[<<f, seen>>])
<1>1. DepthRight(links, findings, 4)
  BY DepthLower
<1>2. DepthRight(links, findings, 3)
  <2>1. 3 + 1 = 4 /\ 3 \in 0..4
    OBVIOUS
  <2>2. DepthRight(links, findings, 3 + 1)
    BY <1>1, <2>1
  <2>3. QED BY <2>1, <2>2, DepthLower
<1>3. DepthRight(links, findings, 2)
  <2>1. 2 + 1 = 3 /\ 2 \in 0..4
    OBVIOUS
  <2>2. DepthRight(links, findings, 2 + 1)
    BY <1>2, <2>1
  <2>3. QED BY <2>1, <2>2, DepthLower
<1>4. DepthRight(links, findings, 1)
  <2>1. 1 + 1 = 2 /\ 1 \in 0..4
    OBVIOUS
  <2>2. DepthRight(links, findings, 1 + 1)
    BY <1>3, <2>1
  <2>3. QED BY <2>1, <2>2, DepthLower
<1>5. DepthRight(links, findings, 0)
  <2>1. 0 + 1 = 1 /\ 0 \in 0..4
    OBVIOUS
  <2>2. DepthRight(links, findings, 0 + 1)
    BY <1>4, <2>1
  <2>3. QED BY <2>1, <2>2, DepthLower
<1>6. Rank(f) >= 0
  BY RankBounds
<1>7. QED BY <1>5, <1>6 DEF DepthRight

-----------------------------------------------------------------------------
(* The chain goes on as far as one can. *)

\* How Chain goes on.
Grow(links, findings, before) ==
    IF Causes(links, before[Len(before)]) \subseteq {before[i] : i \in DOMAIN before}
    THEN before
    ELSE Append(before, NextInChain(links, findings, before[Len(before)],
                                    {before[i] : i \in DOMAIN before}))

\* A walk, ever upwards, that nothing better could have begun with.
Good(links, findings, root, q) ==
    /\ q \in Walks(links, findings, root, Len(q))
    /\ Len(q) \in 1..Rank(q[Len(q)]) + 1
    /\ \A i, j \in 1..Len(q) : i < j => Rank(q[i]) < Rank(q[j])
    /\ \A n \in Nat :
        Far(links, findings, root, (Len(q) - 1) + n) <=> Far(links, findings, q[Len(q)], n)

LEMMA GoodRoot ==
    ASSUME NEW links, NEW findings, NEW root \in findings
    PROVE  Good(links, findings, root, <<root>>)
<1> DEFINE q == <<root>>
<1>1. q \in Seq(findings) /\ Len(q) = 1 /\ q[1] = root
  OBVIOUS
<1> HIDE DEF q
<1>2. q \in Walks(links, findings, root, 1)
  <2>1. \A i \in 1..1 - 1 : FALSE
    OBVIOUS
  <2>2. QED BY <1>1, <2>1 DEF Walks
<1>3. 1 \in 1..Rank(root) + 1
  BY RankBounds
<1>4. \A i, j \in 1..1 : ~(i < j)
  OBVIOUS
<1>5. \A n \in Nat : (1 - 1) + n = n
  OBVIOUS
<1>6. Good(links, findings, root, q)
  BY <1>1, <1>2, <1>3, <1>4, <1>5 DEF Good
<1>7. QED BY <1>6 DEF q

\* What is seen on the way is of no higher level than the last.
LEMMA SeenIsLower ==
    ASSUME NEW links, NEW findings, NEW root, NEW q, Good(links, findings, root, q)
    PROVE  /\ q \in Seq(findings) /\ Len(q) \in 1..5 /\ q[Len(q)] \in findings
           /\ {q[i] : i \in DOMAIN q} \in SUBSET findings
           /\ \A s \in {q[i] : i \in DOMAIN q} : Rank(s) <= Rank(q[Len(q)])
<1>1. q \in Seq(findings) /\ Len(q) \in Nat /\ DOMAIN q = 1..Len(q)
  BY DEF Good, Walks
<1>2. Len(q) \in 1..5 /\ Len(q) \in 1..Len(q)
  <2>1. Len(q) \in 1..Rank(q[Len(q)]) + 1 /\ Rank(q[Len(q)]) \in 0..4
    BY RankBounds DEF Good
  <2>2. QED BY <1>1, <2>1
<1>3. \A i \in 1..Len(q) : q[i] \in findings
  BY <1>1, ElementOfSeq
<1>4. ASSUME NEW i \in 1..Len(q)
      PROVE  Rank(q[i]) <= Rank(q[Len(q)])
  <2>1. i < Len(q) \/ i = Len(q)
    <3>1. \A n \in Nat : \A j \in 1..n : j < n \/ j = n
      OBVIOUS
    <3>2. QED BY <1>1, <3>1
  <2>2. Rank(q[i]) \in 0..4 /\ Rank(q[Len(q)]) \in 0..4
    BY RankBounds
  <2>3. i < Len(q) => Rank(q[i]) < Rank(q[Len(q)])
    BY <1>2 DEF Good
  <2>4. QED BY <2>1, <2>2, <2>3
<1>5. QED BY <1>1, <1>2, <1>3, <1>4

\* The finding the chain goes on with is one from which it gets farthest.
LEMMA NextIsFarthest ==
    ASSUME NEW links, NEW findings, Ranked(links, findings), NEW f \in findings,
           NEW seen \in SUBSET findings, \A s \in seen : Rank(s) <= Rank(f),
           Causes(links, f) # {}
    PROVE  /\ NextInChain(links, findings, f, seen) \in Causes(links, f)
           /\ \A n \in Nat : Far(links, findings, f, n + 1)
                                <=> Far(links, findings, NextInChain(links, findings, f, seen), n)
<1> DEFINE C == Causes(links, f)
           depth(c) == ChainDepth(links, findings)[<<c, seen>>]
           next == NextInChain(links, findings, f, seen)
<1>1. Causes(links, f) \ seen = C
  BY OnwardIsNew
<1>2. ASSUME NEW c \in C
      PROVE  c \in findings /\ depth(c) \in 0..4 /\ Farthest(links, findings, c, depth(c))
  <2>1. c \in findings /\ Rank(f) < Rank(c)
    BY CausesRank
  <2>2. \A s \in seen : Rank(s) <= Rank(c)
    <3>1. Rank(c) \in 0..4 /\ Rank(f) \in 0..4 /\ \A s \in seen : Rank(s) \in 0..4
      BY RankBounds
    <3>2. QED BY <2>1, <3>1
  <2>3. QED BY <2>1, <2>2, DepthIsFarthest
<1>3. \E c \in C : \A d \in C : depth(d) <= depth(c)
  <2> DEFINE T == {depth(c) : c \in C}
  <2>1. T \in SUBSET (0..4) /\ T # {}
    BY <1>2
  <2>2. PICK x \in T : \A y \in T : y <= x
    <3> HIDE DEF T
    <3>1. QED BY <2>1, GreatestNumber
  <2>3. QED BY <2>2
<1>4. next = CHOOSE c \in C : \A d \in C : depth(d) <= depth(c)
  BY <1>1 DEF NextInChain
<1>5. next \in C /\ \A d \in C : depth(d) <= depth(next)
  <2> HIDE DEF C, depth, next
  <2>1. QED BY <1>3, <1>4
<1>6. ASSUME NEW n \in Nat, Far(links, findings, f, n + 1)
      PROVE  Far(links, findings, next, n)
  <2>1. PICK c \in C : Far(links, findings, c, n)
    BY <1>6, FarOnward
  <2>2. c \in findings /\ next \in findings /\ depth(c) \in 0..4 /\ depth(next) \in 0..4
        /\ depth(c) <= depth(next)
    BY <1>2, <1>5
  <2>3. ~Far(links, findings, c, depth(c) + 1) /\ Far(links, findings, next, depth(next))
    BY <1>2, <1>5 DEF Farthest
  <2> HIDE DEF depth, next
  <2>4. n <= depth(c)
    <3>1. SUFFICES ASSUME ~(n <= depth(c)) PROVE FALSE
      OBVIOUS
    <3>2. depth(c) + 1 \in Nat /\ depth(c) + 1 <= n
      BY <2>2, <3>1
    <3>3. QED BY <2>1, <2>2, <2>3, <3>2, FarNearer
  <2>5. depth(next) \in Nat /\ n <= depth(next)
    BY <2>2, <2>4
  <2>6. QED BY <2>2, <2>3, <2>5, FarNearer
<1>7. ASSUME NEW n \in Nat, Far(links, findings, next, n)
      PROVE  Far(links, findings, f, n + 1)
  BY <1>5, <1>7, FarOnward
<1>8. QED BY <1>5, <1>6, <1>7

\* At its end the chain stays as it is, elsewhere it gets longer by one.
LEMMA GrowKeepsGood ==
    ASSUME NEW links, NEW findings, Ranked(links, findings), NEW root, NEW q,
           Good(links, findings, root, q)
    PROVE  /\ Good(links, findings, root, Grow(links, findings, q))
           /\ IF Causes(links, q[Len(q)]) = {}
              THEN Grow(links, findings, q) = q
              ELSE Len(Grow(links, findings, q)) = Len(q) + 1
<1> DEFINE f == q[Len(q)]
           seen == {q[i] : i \in DOMAIN q}
           c == NextInChain(links, findings, f, seen)
           p == Append(q, c)
<1>1. /\ q \in Seq(findings) /\ Len(q) \in 1..5 /\ f \in findings
      /\ seen \in SUBSET findings /\ \A s \in seen : Rank(s) <= Rank(f)
  BY SeenIsLower
<1>2. Causes(links, f) \subseteq seen <=> Causes(links, f) = {}
  <2>1. Causes(links, f) \ seen = Causes(links, f)
    BY <1>1, OnwardIsNew
  <2>2. QED BY <2>1
<1>3. Grow(links, findings, q) = IF Causes(links, f) = {} THEN q ELSE p
  BY <1>2 DEF Grow
<1>4. SUFFICES ASSUME Causes(links, f) # {}
               PROVE  Good(links, findings, root, p) /\ Len(p) = Len(q) + 1
  BY <1>3
<1>5. /\ c \in Causes(links, f)
      /\ \A n \in Nat : Far(links, findings, f, n + 1) <=> Far(links, findings, c, n)
  <2> HIDE DEF f, seen
  <2>1. QED BY <1>1, <1>4, NextIsFarthest
<1> HIDE DEF c
<1>6. c \in findings /\ <<f, c>> \in links /\ Rank(f) < Rank(c)
  BY <1>5, CausesRank
<1>7. /\ p \in Seq(findings) /\ Len(p) = Len(q) + 1
      /\ \A i \in 1..Len(q) : p[i] = q[i]
      /\ p[Len(q) + 1] = c
  BY <1>1, <1>6, AppendProperties
<1> HIDE DEF p
<1>8. /\ q[1] = root
      /\ \A i \in 1..Len(q) - 1 : <<q[i], q[i + 1]>> \in links
      /\ \A i, j \in 1..Len(q) : i < j => Rank(q[i]) < Rank(q[j])
      /\ Len(q) \in 1..Rank(f) + 1
      /\ \A n \in Nat : Far(links, findings, root, (Len(q) - 1) + n) <=> Far(links, findings, f, n)
  BY DEF Good, Walks
<1>9. p \in Walks(links, findings, root, Len(q) + 1)
  <2>1. p[1] = root
    <3>1. 1 \in 1..Len(q)
      BY <1>1
    <3>2. QED BY <1>7, <1>8, <3>1
  <2>2. ASSUME NEW i \in 1..(Len(q) + 1) - 1
        PROVE  <<p[i], p[i + 1]>> \in links
    <3>1. CASE i = Len(q)
      <4>1. p[i] = f /\ p[i + 1] = c
        BY <1>1, <1>7, <3>1
      <4>2. QED BY <1>6, <4>1
    <3>2. CASE i # Len(q)
      <4>1. i \in 1..Len(q) - 1 /\ i \in 1..Len(q) /\ i + 1 \in 1..Len(q)
        BY <1>1, <3>2
      <4>2. QED BY <1>7, <1>8, <4>1
    <3>3. QED BY <3>1, <3>2
  <2>3. QED BY <1>7, <2>1, <2>2 DEF Walks
<1>10. Len(q) + 1 \in 1..Rank(c) + 1
  <2>1. Rank(f) \in 0..4 /\ Rank(c) \in 0..4
    BY RankBounds
  <2>2. \A l \in Nat, a, b \in 0..4 : l \in 1..a + 1 /\ a < b => l + 1 \in 1..b + 1
    OBVIOUS
  <2>3. Len(q) \in Nat
    BY <1>1
  <2> HIDE DEF f
  <2>4. QED BY <1>6, <1>8, <2>1, <2>2, <2>3
<1>11. ASSUME NEW i \in 1..Len(q) + 1, NEW j \in 1..Len(q) + 1, i < j
       PROVE  Rank(p[i]) < Rank(p[j])
  <2>1. i \in 1..Len(q) /\ p[i] = q[i]
    BY <1>1, <1>7, <1>11
  <2>2. CASE j = Len(q) + 1
    <3>1. p[j] = c
      BY <1>7, <2>2
    <3>2. q[i] \in seen
      BY <1>1, <2>1
    <3>3. Rank(q[i]) <= Rank(f) /\ Rank(f) < Rank(c)
      BY <1>1, <1>6, <3>2
    <3>4. Rank(q[i]) \in 0..4 /\ Rank(f) \in 0..4 /\ Rank(c) \in 0..4
      BY RankBounds
    <3> HIDE DEF f
    <3>5. QED BY <2>1, <3>1, <3>3, <3>4
  <2>3. CASE j # Len(q) + 1
    <3>1. j \in 1..Len(q) /\ p[j] = q[j]
      BY <1>1, <1>7, <2>3
    <3>2. QED BY <1>8, <1>11, <2>1, <3>1
  <2>4. QED BY <2>2, <2>3
<1>12. ASSUME NEW n \in Nat
       PROVE  Far(links, findings, root, ((Len(q) + 1) - 1) + n) <=> Far(links, findings, c, n)
  <2>1. ((Len(q) + 1) - 1) + n = (Len(q) - 1) + (n + 1) /\ n + 1 \in Nat
    BY <1>1
  <2>2. QED BY <1>5, <1>8, <2>1
<1>13. QED BY <1>7, <1>9, <1>10, <1>11, <1>12 DEF Good

\* A set of numbers that is not empty has a least one.
LEMMA LeastNumber ==
    ASSUME NEW T \in SUBSET Nat, T # {}
    PROVE  \E x \in T : \A y \in T : x <= y
<1> DEFINE R == OpToRel(<, Nat)
<1>1. IsWellFoundedOn(R, Nat)
    BY NatLessThanWellFounded
<1>2. \A x, y \in Nat : x < y => <<x, y>> \in R
    BY DEF OpToRel
<1> HIDE DEF R
<1>3. PICK x \in T : \A y \in T : <<y, x>> \notin R
    BY <1>1, WFMin
<1>4. \A y \in T : y \in Nat /\ x \in Nat /\ ~(y < x)
    BY <1>2, <1>3
<1>5. \A y \in T : x <= y
    BY <1>4
<1> QED
    BY <1>5

\* No walk upwards is longer than there are findings.
LEMMA GoodFits ==
    ASSUME NEW links, NEW findings, IsFiniteSet(findings), NEW root, NEW q,
           Good(links, findings, root, q)
    PROVE  Cardinality(findings) \in Nat /\ Len(q) <= Cardinality(findings)
<1>1. /\ q \in Seq(findings) /\ Len(q) \in 1..5
      /\ \A i, j \in 1..Len(q) : i < j => Rank(q[i]) < Rank(q[j])
  <2>1. q \in Seq(findings) /\ Len(q) \in 1..5
    BY SeenIsLower
  <2>2. QED BY <2>1 DEF Good
<1>2. q \in [1..Len(q) -> findings]
  BY <1>1
<1>3. ASSUME NEW i \in 1..Len(q), NEW j \in 1..Len(q), q[i] = q[j]
      PROVE  i = j
  <2>1. Rank(q[i]) = Rank(q[j]) /\ Rank(q[i]) \in 0..4
    BY <1>3, RankBounds
  <2>2. ~(i < j) /\ ~(j < i)
    BY <1>1, <2>1
  <2>3. QED BY <2>2
<1>4. q \in Injection(1..Len(q), findings)
  BY <1>2, <1>3 DEF Injection, IsInjective
<1>5. Cardinality(1..Len(q)) <= Cardinality(findings)
  BY <1>4, FS_Injection
<1>6. Cardinality(1..Len(q)) = Len(q)
  BY <1>1, FS_Interval
<1>7. QED BY <1>5, <1>6, FS_CardinalityType

\* What the path of Chain is the fixpoint of.
PathBody(links, findings, root, path) ==
    [n \in 1..Cardinality(findings) |->
        IF n = 1 THEN <<root>> ELSE Grow(links, findings, path[n - 1])]

LEMMA ChainOf ==
    ASSUME NEW links, NEW findings, NEW root
    PROVE  Chain(links, findings, root) =
            (CHOOSE path : path = PathBody(links, findings, root, path))[Cardinality(findings)]
BY DEF Chain, PathBody, Grow

\* Two fixpoints are the same: where they first differed they would agree.
LEMMA PathIsUnique ==
    ASSUME NEW links, NEW findings, Cardinality(findings) \in Nat, NEW root, NEW p, NEW q,
           p = PathBody(links, findings, root, p), q = PathBody(links, findings, root, q),
           NEW n \in 1..Cardinality(findings)
    PROVE  p[n] = q[n]
<1> DEFINE N == Cardinality(findings)
           Bad == {m \in 1..N : p[m] # q[m]}
<1>1. SUFFICES ASSUME Bad # {} PROVE FALSE
  OBVIOUS
<1>2. Bad \in SUBSET Nat
  OBVIOUS
<1>3. PICK m \in Bad : \A k \in Bad : m <= k
  <2> HIDE DEF Bad
  <2>1. QED BY <1>1, <1>2, LeastNumber
<1>4. /\ p[m] = IF m = 1 THEN <<root>> ELSE Grow(links, findings, p[m - 1])
      /\ q[m] = IF m = 1 THEN <<root>> ELSE Grow(links, findings, q[m - 1])
  BY DEF PathBody
<1>5. m \in 1..N /\ p[m] # q[m]
  OBVIOUS
<1>6. m # 1 /\ p[m - 1] # q[m - 1]
  BY <1>4, <1>5
<1>7. m - 1 \in 1..N
  BY <1>5, <1>6
<1>8. m - 1 \in Bad
  BY <1>6, <1>7
<1>9. QED BY <1>3, <1>5, <1>8

\* After n steps the chain has n findings, or it ended before.
Full(links, findings, root, q, n) ==
    /\ Good(links, findings, root, q)
    /\ Len(q) = n \/ Causes(links, q[Len(q)]) = {}

LEMMA GrowFills ==
    ASSUME NEW links, NEW findings, Ranked(links, findings), NEW root, NEW q, NEW n \in Nat,
           Full(links, findings, root, q, n)
    PROVE  Full(links, findings, root, Grow(links, findings, q), n + 1)
<1>1. Good(links, findings, root, q)
  BY DEF Full
<1>2. CASE Causes(links, q[Len(q)]) = {}
  BY <1>1, <1>2, GrowKeepsGood DEF Full
<1>3. CASE Causes(links, q[Len(q)]) # {}
  BY <1>1, <1>3, GrowKeepsGood DEF Full
<1>4. QED BY <1>2, <1>3

\* There are five levels.
LEMMA FiveIsAll ==
    ASSUME NEW links, NEW findings, Ranked(links, findings), NEW root, NEW q,
           Full(links, findings, root, q, 5)
    PROVE  Causes(links, q[Len(q)]) = {}
<1>1. SUFFICES ASSUME NEW c \in Causes(links, q[Len(q)]), Len(q) = 5
               PROVE  FALSE
  BY DEF Full
<1>2. Rank(q[Len(q)]) < Rank(c) /\ Len(q) \in 1..Rank(q[Len(q)]) + 1
  BY <1>1, CausesRank DEF Full, Good
<1>3. Rank(q[Len(q)]) \in 0..4 /\ Rank(c) \in 0..4
  BY RankBounds
<1>4. QED BY <1>1, <1>2, <1>3

LEMMA ChainIsGood ==
    ASSUME NEW links, NEW findings, Ranked(links, findings), IsFiniteSet(findings),
           NEW root \in findings
    PROVE  LET chain == Chain(links, findings, root)
           IN  Good(links, findings, root, chain) /\ Causes(links, chain[Len(chain)]) = {}
<1> DEFINE N == Cardinality(findings)
           q1 == <<root>>
           q2 == Grow(links, findings, q1)
           q3 == Grow(links, findings, q2)
           q4 == Grow(links, findings, q3)
           q5 == Grow(links, findings, q4)
           path == [n \in 1..N |-> IF n = 1 THEN q1 ELSE IF n = 2 THEN q2 ELSE IF n = 3 THEN q3
                                   ELSE IF n = 4 THEN q4 ELSE q5]
<1>1. Full(links, findings, root, q1, 1)
  <2>1. Len(<<root>>) = 1
    OBVIOUS
  <2>2. QED BY <2>1, GoodRoot DEF Full
<1>2. N \in Nat /\ N >= 1
  <2>1. Good(links, findings, root, q1)
    BY <1>1 DEF Full
  <2> HIDE DEF q1
  <2>2. Len(q1) \in 1..5 /\ N \in Nat /\ Len(q1) <= N
    BY <2>1, GoodFits, SeenIsLower
  <2> HIDE DEF N
  <2>3. QED BY <2>2
<1> HIDE DEF q1, N
<1>3. Full(links, findings, root, q2, 2)
  <2>1. Full(links, findings, root, q2, 1 + 1)
    BY <1>1, GrowFills
  <2>2. QED BY <2>1
<1> HIDE DEF q2
<1>4. Full(links, findings, root, q3, 3)
  <2>1. Full(links, findings, root, q3, 2 + 1)
    BY <1>3, GrowFills
  <2>2. QED BY <2>1
<1> HIDE DEF q3
<1>5. Full(links, findings, root, q4, 4)
  <2>1. Full(links, findings, root, q4, 3 + 1)
    BY <1>4, GrowFills
  <2>2. QED BY <2>1
<1> HIDE DEF q4
<1>6. Full(links, findings, root, q5, 5)
  <2>1. Full(links, findings, root, q5, 4 + 1)
    BY <1>5, GrowFills
  <2>2. QED BY <2>1
<1> HIDE DEF q5
<1>7. Causes(links, q5[Len(q5)]) = {} /\ Grow(links, findings, q5) = q5
  <2>1. Causes(links, q5[Len(q5)]) = {}
    BY <1>6, FiveIsAll
  <2>2. QED BY <1>6, <2>1, GrowKeepsGood DEF Full
<1>8. path = PathBody(links, findings, root, path)
  <2>1. ASSUME NEW n \in 1..N
        PROVE  path[n] = IF n = 1 THEN <<root>> ELSE Grow(links, findings, path[n - 1])
    <3>1. CASE n = 1
      BY <3>1 DEF q1
    <3>2. CASE n = 2
      <4>1. n - 1 = 1 /\ 1 \in 1..N /\ path[1] = q1
        BY <1>2, <3>2
      <4>2. QED BY <3>2, <4>1 DEF q2
    <3>3. CASE n = 3
      <4>1. n - 1 = 2 /\ 2 \in 1..N /\ path[2] = q2
        BY <1>2, <3>3
      <4>2. QED BY <3>3, <4>1 DEF q3
    <3>4. CASE n = 4
      <4>1. n - 1 = 3 /\ 3 \in 1..N /\ path[3] = q3
        BY <1>2, <3>4
      <4>2. QED BY <3>4, <4>1 DEF q4
    <3>5. CASE n = 5
      <4>1. n - 1 = 4 /\ 4 \in 1..N /\ path[4] = q4
        BY <1>2, <3>5
      <4>2. QED BY <3>5, <4>1 DEF q5
    <3>6. CASE n > 5
      <4>1. n - 1 \in 1..N /\ n - 1 > 4
        BY <1>2, <3>6
      <4>2. path[n - 1] = q5 /\ path[n] = q5
        BY <3>6, <4>1
      <4>3. QED BY <1>7, <3>6, <4>2
    <3>7. n = 1 \/ n = 2 \/ n = 3 \/ n = 4 \/ n = 5 \/ n > 5
      BY <1>2
    <3>8. QED BY <3>1, <3>2, <3>3, <3>4, <3>5, <3>6, <3>7
  <2>2. path = [n \in 1..N |-> path[n]]
    OBVIOUS
  <2> HIDE DEF path
  <2>3. QED BY <2>1, <2>2 DEF PathBody, N
<1>9. Chain(links, findings, root) = path[N]
  <2> DEFINE p == CHOOSE p : p = PathBody(links, findings, root, p)
  <2> HIDE DEF path
  <2>1. p = PathBody(links, findings, root, p)
    BY <1>8
  <2>2. Chain(links, findings, root) = p[N]
    BY ChainOf DEF N
  <2> HIDE DEF p
  <2>3. N \in 1..N
    BY <1>2
  <2>4. p[N] = path[N]
    BY <1>2, <1>8, <2>1, <2>3, PathIsUnique DEF N
  <2>5. QED BY <2>2, <2>4
<1>10. \/ N = 1 /\ path[N] = q1
       \/ N = 2 /\ path[N] = q2
       \/ N = 3 /\ path[N] = q3
       \/ N = 4 /\ path[N] = q4
       \/ N > 4 /\ path[N] = q5
  <2>1. N = 1 \/ N = 2 \/ N = 3 \/ N = 4 \/ N > 4
    BY <1>2
  <2>2. N \in 1..N
    BY <1>2
  <2>3. QED BY <2>1, <2>2
<1> HIDE DEF path
<1> DEFINE q == path[N]
<1>11. \/ Full(links, findings, root, q, N)
       \/ Good(links, findings, root, q) /\ Causes(links, q[Len(q)]) = {}
  <2>1. Good(links, findings, root, q5)
    BY <1>6 DEF Full
  <2>2. QED BY <1>1, <1>3, <1>4, <1>5, <1>7, <1>10, <2>1
<1> HIDE DEF q
<1>12. ASSUME Full(links, findings, root, q, N), Causes(links, q[Len(q)]) # {}
       PROVE  FALSE
  <2>1. Good(links, findings, root, q) /\ Len(q) = N
    BY <1>12 DEF Full
  <2>2. Good(links, findings, root, Grow(links, findings, q)) /\ Len(Grow(links, findings, q)) = N + 1
    BY <1>12, <2>1, GrowKeepsGood
  <2>3. N + 1 <= N
    BY <2>2, GoodFits DEF N
  <2>4. QED BY <1>2, <2>3
<1>13. Good(links, findings, root, q) /\ Causes(links, q[Len(q)]) = {}
  BY <1>11, <1>12 DEF Full
<1>14. QED BY <1>9, <1>13 DEF q

\* The chain is a walk from its root, and there is no longer one.
LEMMA ChainIsLongestWalk ==
    ASSUME NEW links, NEW findings, Ranked(links, findings), IsFiniteSet(findings),
           NEW root \in findings
    PROVE  LET chain == Chain(links, findings, root)
           IN  /\ Len(chain) \in 1..5
               /\ chain \in Walks(links, findings, root, Len(chain))
               /\ Walks(links, findings, root, Len(chain) + 1) = {}
<1> DEFINE q == Chain(links, findings, root)
<1>1. Good(links, findings, root, q) /\ Causes(links, q[Len(q)]) = {}
  BY ChainIsGood
<1> HIDE DEF q
<1>2. Len(q) \in 1..5 /\ q[Len(q)] \in findings
  BY <1>1, SeenIsLower
<1>3. ~Far(links, findings, q[Len(q)], 0 + 1)
  BY <1>1, <1>2, FarOnward
<1>4. ~Far(links, findings, root, Len(q))
  <2>1. (Len(q) - 1) + 1 = Len(q) /\ 0 + 1 = 1
    BY <1>2
  <2>2. QED BY <1>1, <1>3, <2>1 DEF Good
<1>5. QED BY <1>1, <1>2, <1>4 DEF Good, Far, q

-----------------------------------------------------------------------------
(* The walks are the paths the property speaks of. *)

\* How Paths goes on from the paths of n findings.
Longer(links, paths, n) ==
    {Append(path[1], path[2]) :
        path \in {p \in paths \X {l[2] : l \in links} : <<p[1][n], p[2]>> \in links}}

PathsBody(links, f, n, paths) ==
    [m \in 1..n |-> IF m = 1 THEN {<<f>>} ELSE Longer(links, paths[m - 1], m - 1)]

LEMMA PathsOf ==
    ASSUME NEW links, NEW f, NEW n
    PROVE  Paths(links, f, n) = (CHOOSE paths : paths = PathsBody(links, f, n, paths))[n]
BY DEF Paths, PathsBody, Longer

LEMMA WalksOfOne ==
    ASSUME NEW links, NEW findings, NEW f \in findings
    PROVE  Walks(links, findings, f, 1) = {<<f>>}
<1>1. ASSUME NEW p \in Walks(links, findings, f, 1)
      PROVE  p = <<f>>
  <2>1. p \in Seq(findings) /\ Len(p) = 1 /\ p[1] = f
    BY DEF Walks
  <2>2. <<f>> \in Seq(findings) /\ Len(<<f>>) = 1 /\ <<f>>[1] = f
    OBVIOUS
  <2>3. \A i \in 1..Len(p) : p[i] = <<f>>[i]
    BY <2>1, <2>2
  <2>4. QED BY <2>1, <2>2, <2>3, SeqEqual
<1>2. <<f>> \in Walks(links, findings, f, 1)
  BY GoodRoot DEF Good
<1>3. QED BY <1>1, <1>2

LEMMA WalksGetLonger ==
    ASSUME NEW links, NEW findings, Ranked(links, findings), NEW f \in findings, NEW n \in Nat \ {0}
    PROVE  Walks(links, findings, f, n + 1) = Longer(links, Walks(links, findings, f, n), n)
<1>1. ASSUME NEW p \in Walks(links, findings, f, n + 1)
      PROVE  p \in Longer(links, Walks(links, findings, f, n), n)
  <2>1. /\ p \in Seq(findings) /\ Len(p) = n + 1 /\ p[1] = f
        /\ \A i \in 1..n : <<p[i], p[i + 1]>> \in links
    <3>1. (n + 1) - 1 = n
      OBVIOUS
    <3>2. QED BY <3>1 DEF Walks
  <2>2. \A i \in 1..n + 1 : p[i] \in findings
    BY <2>1, ElementOfSeq
  <2> DEFINE q == SubSeq(p, 1, n)
             c == p[n + 1]
  <2>3. q \in Seq(findings) /\ Len(q) = n /\ \A i \in 1..n : q[i] = p[i]
    <3>1. \A i \in 1..n : p[i] \in findings
      BY <2>2
    <3>2. /\ q \in Seq(findings)
          /\ Len(q) = IF 1 <= n THEN n - 1 + 1 ELSE 0
          /\ \A i \in 1..n - 1 + 1 : q[i] = p[1 + i - 1]
      BY <3>1, SubSeqProperties
    <3> HIDE DEF q
    <3>3. n - 1 + 1 = n /\ 1 <= n /\ \A i \in 1..n : 1 + i - 1 = i
      OBVIOUS
    <3>4. QED BY <3>2, <3>3
  <2>4. c \in findings /\ <<p[n], c>> \in links
    BY <2>1, <2>2
  <2> HIDE DEF q, c
  <2>5. q \in Walks(links, findings, f, n)
    <3>1. 1 \in 1..n /\ \A i \in 1..n - 1 : i \in 1..n /\ i + 1 \in 1..n
      OBVIOUS
    <3>2. QED BY <2>1, <2>3, <3>1 DEF Walks
  <2>6. p = Append(q, c)
    <3>1. /\ Append(q, c) \in Seq(findings) /\ Len(Append(q, c)) = n + 1
          /\ \A i \in 1..n : Append(q, c)[i] = q[i]
          /\ Append(q, c)[n + 1] = c
      BY <2>3, <2>4, AppendProperties
    <3>2. \A i \in 1..n + 1 : i \in 1..n \/ i = n + 1
      OBVIOUS
    <3>3. \A i \in 1..n + 1 : p[i] = Append(q, c)[i]
      BY <2>3, <3>1, <3>2 DEF c
    <3>4. QED BY <2>1, <3>1, <3>3, SeqEqual
  <2>7. c \in {l[2] : l \in links} /\ q[n] = p[n]
    <3>1. <<p[n], c>>[2] = c /\ n \in 1..n
      OBVIOUS
    <3>2. QED BY <2>3, <2>4, <3>1
  <2>8. <<q, c>> \in Walks(links, findings, f, n) \X {l[2] : l \in links}
        /\ <<q, c>>[1] = q /\ <<q, c>>[2] = c
    BY <2>5, <2>7
  <2>9. QED BY <2>4, <2>6, <2>7, <2>8 DEF Longer
<1>2. ASSUME NEW p \in Longer(links, Walks(links, findings, f, n), n)
      PROVE  p \in Walks(links, findings, f, n + 1)
  <2>1. PICK q \in Walks(links, findings, f, n), c \in {l[2] : l \in links} :
            p = Append(q, c) /\ <<q[n], c>> \in links
    BY DEF Longer
  <2>2. /\ q \in Seq(findings) /\ Len(q) = n /\ q[1] = f
        /\ \A i \in 1..n - 1 : <<q[i], q[i + 1]>> \in links
    BY DEF Walks
  <2>3. c \in findings
    BY <2>1, CausesRank
  <2>4. /\ p \in Seq(findings) /\ Len(p) = n + 1
        /\ \A i \in 1..n : p[i] = q[i]
        /\ p[n + 1] = c
    BY <2>1, <2>2, <2>3, AppendProperties
  <2>5. ASSUME NEW i \in 1..n
        PROVE  <<p[i], p[i + 1]>> \in links
    <3>1. CASE i = n
      BY <2>1, <2>4, <3>1
    <3>2. CASE i # n
      <4>1. i \in 1..n - 1 /\ i + 1 \in 1..n
        BY <3>2
      <4>2. QED BY <2>2, <2>4, <4>1
    <3>3. QED BY <3>1, <3>2
  <2>6. (n + 1) - 1 = n /\ 1 \in 1..n
    OBVIOUS
  <2>7. p[1] = f
    BY <2>2, <2>4, <2>6
  <2>8. QED BY <2>4, <2>5, <2>6, <2>7 DEF Walks
<1>3. QED BY <1>1, <1>2

LEMMA PathsAreWalks ==
    ASSUME NEW links, NEW findings, Ranked(links, findings), NEW f \in findings, NEW n \in Nat \ {0}
    PROVE  Paths(links, f, n) = Walks(links, findings, f, n)
<1> DEFINE w == [m \in 1..n |-> Walks(links, findings, f, m)]
           p == CHOOSE p : p = PathsBody(links, f, n, p)
<1>1. w = PathsBody(links, f, n, w)
  <2>1. ASSUME NEW m \in 1..n
        PROVE  w[m] = IF m = 1 THEN {<<f>>} ELSE Longer(links, w[m - 1], m - 1)
    <3>1. CASE m = 1
      BY <3>1, WalksOfOne
    <3>2. CASE m # 1
      <4>1. m - 1 \in 1..n /\ m - 1 \in Nat \ {0} /\ (m - 1) + 1 = m
        BY <3>2
      <4>2. Walks(links, findings, f, (m - 1) + 1) = Longer(links, w[m - 1], m - 1)
        BY <4>1, WalksGetLonger
      <4>3. QED BY <3>2, <4>1, <4>2
    <3>3. QED BY <3>1, <3>2
  <2>2. w = [m \in 1..n |-> w[m]]
    OBVIOUS
  <2> HIDE DEF w
  <2>3. QED BY <2>1, <2>2 DEF PathsBody
<1> HIDE DEF w
<1>2. p = PathsBody(links, f, n, p)
  BY <1>1
<1> HIDE DEF p
<1> DEFINE Bad == {m \in 1..n : p[m] # w[m]}
<1>3. Bad = {}
  <2>1. SUFFICES ASSUME Bad # {} PROVE FALSE
    OBVIOUS
  <2>2. Bad \in SUBSET Nat
    OBVIOUS
  <2>3. PICK m \in Bad : \A k \in Bad : m <= k
    <3> HIDE DEF Bad
    <3>1. QED BY <2>1, <2>2, LeastNumber
  <2>4. /\ p[m] = IF m = 1 THEN {<<f>>} ELSE Longer(links, p[m - 1], m - 1)
        /\ w[m] = IF m = 1 THEN {<<f>>} ELSE Longer(links, w[m - 1], m - 1)
    BY <1>1, <1>2 DEF PathsBody
  <2>5. m \in 1..n /\ p[m] # w[m]
    OBVIOUS
  <2>6. m # 1 /\ p[m - 1] # w[m - 1]
    BY <2>4, <2>5
  <2>7. m - 1 \in 1..n
    BY <2>5, <2>6
  <2>8. m - 1 \in Bad
    BY <2>6, <2>7
  <2>9. QED BY <2>3, <2>5, <2>8
<1>4. n \in 1..n
  OBVIOUS
<1>5. p[n] = w[n]
  BY <1>3, <1>4
<1>6. Paths(links, f, n) = p[n]
  BY PathsOf DEF p
<1>7. w[n] = Walks(links, findings, f, n)
  BY <1>4 DEF w
<1>8. QED BY <1>5, <1>6, <1>7

-----------------------------------------------------------------------------
(* The findings of an inspection are finitely many. *)

\* The Pods of a rollout are looked at as a whole, without containers.
Bare(g) == \A r \in PodRefs(g) : ObjectOf(g, r).statuses = <<>> /\ ObjectOf(g, r).probe = <<>>

LEMMA BareGrows ==
    ASSUME NEW g, NEW h, NEW objects, NEW edges, Bare(g), Grown(g, h, objects, edges),
           \A o \in objects : o.ref.kind = "Pod" => o.statuses = <<>> /\ o.probe = <<>>
    PROVE  Bare(h)
<1> SUFFICES ASSUME NEW r \in PodRefs(h)
             PROVE  ObjectOf(h, r).statuses = <<>> /\ ObjectOf(h, r).probe = <<>>
  BY DEF Bare
<1>1. r.kind = "Pod" /\ ObjectOf(h, r) # NoObject
  BY DEF PodRefs
<1>2. CASE ObjectOf(h, r) = ObjectOf(g, r)
  <2>1. r \in PodRefs(g)
    BY <1>1, <1>2 DEF PodRefs, ObjectOf, InGraph
  <2>2. QED BY <1>2, <2>1 DEF Bare
<1>3. CASE ObjectOf(h, r) # ObjectOf(g, r)
  <2>1. PICK o \in objects : o.ref = r
    BY <1>3 DEF Grown
  <2>2. ObjectOf(h, r) = o
    BY <1>3, <2>1 DEF Grown
  <2>3. QED BY <1>1, <2>1, <2>2
<1>4. QED BY <1>2, <1>3

LEMMA BareKeeps ==
    ASSUME RInv, Bare(graph), [Next]_vars
    PROVE  Bare(graph')
<1>1. IsGraph(graph)
  BY DEF RInv
<1>2. /\ DeploymentRef.kind # "Pod" /\ ServiceRef.kind # "Pod" /\ SliceRef.kind # "Pod"
      /\ \A t : ReplicaSetRef(t).kind # "Pod"
  BY DEF DeploymentRef, ServiceRef, SliceRef, ReplicaSetRef
<1>3. CASE UNCHANGED graph
  BY <1>3
<1>4. CASE ReadDeployment
  <2>1. SUFFICES ASSUME graph' # graph PROVE Bare(graph')
    BY <1>3
  <2>2. graph' = AddNode(graph, DeploymentRef, DeploymentObject) /\ DeploymentObject.ref = DeploymentRef
    BY <1>4, <2>1 DEF ReadDeployment, DeploymentObject
  <2>3. Grown(graph, graph', {DeploymentObject}, {})
    BY <1>1, <2>2, NodeGrows
  <2>4. QED BY <1>2, <2>2, <2>3, BareGrows
<1>5. CASE ReadReplicaSets
  <2>1. PICK read, edges :
            graph' = AddEdges(AddNodes(graph, {ReplicaSetObject(t) : t \in read}), edges)
    BY <1>5 DEF ReadReplicaSets
  <2> DEFINE objects == {ReplicaSetObject(t) : t \in read}
  <2>2. \A o \in objects : \E t \in read : o = ReplicaSetObject(t) /\ o.ref = ReplicaSetRef(t)
    BY DEF ReplicaSetObject
  <2> HIDE DEF objects
  <2>3. \A o, q \in objects : o.ref = q.ref => o = q
    BY <2>2, RefsDiffer
  <2>4. Grown(graph, AddNodes(graph, objects), objects, {})
    BY <1>1, <2>3, NodesGrow
  <2>5. Grown(graph, graph', objects, edges)
    BY <2>1, <2>4, ThenEdges DEF objects
  <2>6. QED BY <1>2, <2>2, <2>5, BareGrows
<1>6. CASE ReadPods
  <2>1. PICK read, edges :
            graph' = AddEdges(AddNodes(graph, {PodObject(t) : t \in read}), edges)
    BY <1>6 DEF ReadPods
  <2> DEFINE objects == {PodObject(t) : t \in read}
  <2>2. \A o \in objects : /\ \E t \in read : o = PodObject(t) /\ o.ref = PodRef(t)
                           /\ o.statuses = <<>> /\ o.probe = <<>>
    <3>1. \A t : /\ PodObject(t).ref = PodRef(t)
                 /\ PodObject(t).statuses = <<>> /\ PodObject(t).probe = <<>>
      BY DEF PodObject
    <3>2. QED BY <3>1
  <2> HIDE DEF objects
  <2>3. \A o, q \in objects : o.ref = q.ref => o = q
    BY <2>2, RefsDiffer
  <2>4. Grown(graph, AddNodes(graph, objects), objects, {})
    BY <1>1, <2>3, NodesGrow
  <2>5. Grown(graph, graph', objects, edges)
    BY <2>1, <2>4, ThenEdges DEF objects
  <2>6. QED BY <2>2, <2>5, BareGrows
<1>7. CASE ReadService
  <2>1. SUFFICES ASSUME graph' # graph PROVE Bare(graph')
    BY <1>3
  <2> DEFINE objects == {[ref |-> ServiceRef, selector |-> TRUE, target |-> "name"],
                         [ref |-> SliceRef, endpoints |-> {Endpoint(t) : t \in Routed}]}
  <2>2. PICK edges : graph' = AddEdges(AddNodes(graph, objects), edges)
    BY <1>7, <2>1 DEF ReadService
  <2>3. /\ \A o \in objects : o.ref \in {ServiceRef, SliceRef}
        /\ \A o, q \in objects : o.ref = q.ref => o = q
    BY RefsDiffer
  <2> HIDE DEF objects
  <2>4. Grown(graph, AddNodes(graph, objects), objects, {})
    BY <1>1, <2>3, NodesGrow
  <2>5. Grown(graph, graph', objects, edges)
    BY <2>2, <2>4, ThenEdges
  <2>6. QED BY <1>2, <2>3, <2>5, BareGrows
<1>8. CASE Finish
  <2>1. SUFFICES ASSUME graph' # graph PROVE Bare(graph')
    BY <1>3
  <2>2. PICK issue : graph' = AddCollectionIssue(graph, issue)
    BY <1>8, <2>1 DEF Finish
  <2>3. Grown(graph, graph', {}, {})
    BY <1>1, <2>2, IssueGrows
  <2>4. QED BY <2>3, BareGrows
<1>9. WorldStep => UNCHANGED graph
  BY DEF WorldStep
<1>10. UNCHANGED vars => UNCHANGED graph
  BY DEF vars
<1>11. QED BY <1>3, <1>4, <1>5, <1>6, <1>7, <1>8, <1>9, <1>10 DEF Next, InspectionStep

LEMMA BareBegins == Init => Bare(graph)
BY DEF Init, NewGraph, Bare, PodRefs

LEMMA FiveAreFinite == \A a, b, c, d, e : IsFiniteSet({a, b, c, d, e})
<1> TAKE a, b, c, d, e
<1>1. IsFiniteSet({a})
  BY FS_Singleton
<1>2. IsFiniteSet({a} \cup {b})
  BY <1>1, FS_AddElement
<1>3. IsFiniteSet({a} \cup {b} \cup {c})
  BY <1>2, FS_AddElement
<1>4. IsFiniteSet({a} \cup {b} \cup {c} \cup {d})
  BY <1>3, FS_AddElement
<1>5. IsFiniteSet({a} \cup {b} \cup {c} \cup {d} \cup {e})
  BY <1>4, FS_AddElement
<1>6. {a, b, c, d, e} = {a} \cup {b} \cup {c} \cup {d} \cup {e}
  OBVIOUS
<1>7. QED BY <1>5, <1>6

\* The types of findings of which a rollout can be the subject.
RolloutTypesFound ==
    {"pod-not-ready", "readiness-probe-failing", "node-pressure", "pod-evicted",
     "service-selector-no-pods"}
    \cup {"service-target-port-mismatch", "service-terminating-endpoints-only",
          "service-no-ready-endpoints", "deployment-unavailable", "rollout-stuck"}

LEMMA FindingsAreFew ==
    ASSUME Bare(graph), NEW f \in Findings
    PROVE  \E type \in RolloutTypesFound, r \in DOMAIN graph.nodes, impact \in {"current", "risk"} :
                f = FindingOf(type, r, NoSubject, impact)
<1>1. \A r \in PodRefs(graph) : ContainersOf(graph, r) = {}
  BY DEF Bare, ContainersOf
<1>2. \A r \in PodRefs(graph) :
        r \in DOMAIN graph.nodes /\ SoleReadinessProbeContainer(ObjectOf(graph, r)) = NoSubject
  <2>1. \A r \in PodRefs(graph) : Probed(ObjectOf(graph, r)) = {}
    BY DEF Bare, Probed
  <2>2. QED BY <2>1 DEF PodRefs, SoleReadinessProbeContainer
<1>3. f \in PodFindings(graph) \/ f \in WorkloadFindings(graph)
  BY DEF Findings
<1>4. CASE f \in PodFindings(graph)
  <2>1. f \notin CrashLoopFindings(graph)
    BY <1>1 DEF CrashLoopFindings
  <2>2. f \notin OomKilledFindings(graph)
    BY <1>1 DEF OomKilledFindings, Terminated
  <2>3. f \notin ReadinessProbePortFindings(graph)
    BY DEF ReadinessProbePortFindings, Bare
  <2>4. f \in PodNotReadyFindings(graph) =>
            \E r \in DOMAIN graph.nodes : f = FindingOf("pod-not-ready", r, NoSubject, "current")
    BY <1>2 DEF PodNotReadyFindings
  <2>5. f \in ReadinessProbeFailingFindings(graph) =>
            \E r \in DOMAIN graph.nodes : f = FindingOf("readiness-probe-failing", r, NoSubject, "current")
    BY <1>2 DEF ReadinessProbeFailingFindings
  <2>6. f \in NodePressureFindings(graph) =>
            \E r \in DOMAIN graph.nodes : f = FindingOf("node-pressure", r, NoSubject, "current")
    BY DEF NodePressureFindings
  <2>7. f \in PodEvictedFindings(graph) =>
            \E r \in DOMAIN graph.nodes : f = FindingOf("pod-evicted", r, NoSubject, "current")
    BY <1>2 DEF PodEvictedFindings
  <2>8. QED BY <1>4, <2>1, <2>2, <2>3, <2>4, <2>5, <2>6, <2>7 DEF PodFindings, RolloutTypesFound
<1>5. CASE f \in WorkloadFindings(graph)
  <2>1. f \in SelectorNoPodsFindings(graph) =>
            \E r \in DOMAIN graph.nodes : f = FindingOf("service-selector-no-pods", r, NoSubject, "current")
    BY DEF SelectorNoPodsFindings, Selecting, Held
  <2>2. f \in TargetPortMismatchFindings(graph) =>
            \E r \in DOMAIN graph.nodes, impact \in {"current", "risk"} :
                f = FindingOf("service-target-port-mismatch", r, NoSubject, impact)
    BY DEF TargetPortMismatchFindings, Held
  <2>3. f \in NoReadyEndpointsFindings(graph) =>
            \E r \in DOMAIN graph.nodes :
                \/ f = FindingOf("service-terminating-endpoints-only", r, NoSubject, "risk")
                \/ f = FindingOf("service-no-ready-endpoints", r, NoSubject, "current")
    BY DEF NoReadyEndpointsFindings, Selecting, Held
  <2>4. f \in DeploymentUnavailableFindings(graph) =>
            \E r \in DOMAIN graph.nodes : f = FindingOf("deployment-unavailable", r, NoSubject, "current")
    BY DEF DeploymentUnavailableFindings, Held
  <2>5. f \in RolloutStuckFindings(graph) =>
            \E r \in DOMAIN graph.nodes : f = FindingOf("rollout-stuck", r, NoSubject, "current")
    BY DEF RolloutStuckFindings, Held
  <2>6. QED BY <1>5, <2>1, <2>2, <2>3, <2>4, <2>5 DEF WorkloadFindings, RolloutTypesFound
<1>6. QED BY <1>3, <1>4, <1>5

LEMMA FindingsAreFinite ==
    ASSUME RInv, Bare(graph)
    PROVE  IsFiniteSet(Findings)
<1> DEFINE S == (RolloutTypesFound \X AllRefs) \X {"current", "risk"}
           found == [x \in S |-> FindingOf(x[1][1], x[1][2], NoSubject, x[2])]
           T == {found[x] : x \in S}
<1>1. IsFiniteSet(RolloutTypesFound)
  BY FiveAreFinite, FS_Union DEF RolloutTypesFound
<1>2. IsFiniteSet(AllRefs)
  <2>1. IsFiniteSet({DeploymentRef, ServiceRef, SliceRef, ReplicaSetRef(1), ReplicaSetRef(2)}
                    \cup {PodRef(1), PodRef(1), PodRef(1), PodRef(1), PodRef(2)})
    BY FiveAreFinite, FS_Union
  <2>2. AllRefs = {DeploymentRef, ServiceRef, SliceRef, ReplicaSetRef(1), ReplicaSetRef(2)}
                  \cup {PodRef(1), PodRef(1), PodRef(1), PodRef(1), PodRef(2)}
    BY DEF AllRefs, Templates
  <2>3. QED BY <2>1, <2>2
<1>3. IsFiniteSet({"current", "risk"})
  <2>1. IsFiniteSet({"current", "current", "current", "current", "risk"})
    BY FiveAreFinite
  <2>2. {"current", "current", "current", "current", "risk"} = {"current", "risk"}
    OBVIOUS
  <2>3. QED BY <2>1, <2>2
<1>4. IsFiniteSet(S)
  BY <1>1, <1>2, <1>3, FS_Product
<1>5. found \in Surjection(S, T)
  <2> HIDE DEF S
  <2>1. found \in [S -> T] /\ \A y \in T : \E x \in S : found[x] = y
    OBVIOUS
  <2>2. QED BY <2>1 DEF Surjection
<1>6. IsFiniteSet(T)
  BY <1>4, <1>5, FS_Surjection
<1>7. Findings \subseteq T
  <2> SUFFICES ASSUME NEW f \in Findings PROVE f \in T
    OBVIOUS
  <2>1. PICK type \in RolloutTypesFound, r \in DOMAIN graph.nodes, impact \in {"current", "risk"} :
            f = FindingOf(type, r, NoSubject, impact)
    BY FindingsAreFew
  <2>2. r \in AllRefs
    BY DEF RInv
  <2> DEFINE x == <<<<type, r>>, impact>>
  <2>3. x \in S /\ x[1][1] = type /\ x[1][2] = r /\ x[2] = impact
    BY <2>2
  <2>4. found[x] = f
    BY <2>1, <2>3
  <2>5. QED BY <2>3, <2>4
<1>8. QED BY <1>6, <1>7, FS_Subset

\* At every moment of an inspection of a rollout the chain drawn for a root cause follows
\* links, and no path of links from that root has more findings.
THEOREM ChainsAreLongest == Spec => []ChainIsLongest
<1>1. RInv /\ Bare(graph) => ChainIsLongest
  <2> SUFFICES ASSUME RInv, Bare(graph), NEW root \in RootCauses(Links, Findings)
               PROVE  LET chain == Chain(Links, Findings, root)
                      IN  /\ chain \in Paths(Links, root, Len(chain))
                          /\ Paths(Links, root, Len(chain) + 1) = {}
    BY DEF ChainIsLongest
  <2> DEFINE chain == Chain(Links, Findings, root)
  <2>1. Ranked(Links, Findings)
    BY LinksGoUp DEF Ranked, Links, Rank, Correlate
  <2>2. IsFiniteSet(Findings) /\ root \in Findings
    BY FindingsAreFinite DEF RootCauses
  <2>3. /\ Len(chain) \in 1..5
        /\ chain \in Walks(Links, Findings, root, Len(chain))
        /\ Walks(Links, Findings, root, Len(chain) + 1) = {}
    BY <2>1, <2>2, ChainIsLongestWalk
  <2> HIDE DEF chain
  <2>4. Len(chain) \in Nat \ {0} /\ Len(chain) + 1 \in Nat \ {0}
    BY <2>3
  <2>5. chain \in Paths(Links, root, Len(chain)) /\ Paths(Links, root, Len(chain) + 1) = {}
    BY <2>1, <2>2, <2>3, <2>4, PathsAreWalks
  <2>6. QED BY <2>5 DEF chain
<1>2. RInv /\ Bare(graph) /\ [Next]_vars => Bare(graph)'
  BY BareKeeps
<1>3. QED BY <1>1, <1>2, BareBegins, WhatIsReadIsJoined, PTL DEF Spec

=============================================================================
