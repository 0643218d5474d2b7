-------------------------- MODULE Collector_proofs --------------------------
(***************************************************************************)
(* Two reads are enough: whatever the cluster holds, however it is written *)
(* and whichever calls fail, an inspection whose rules are evaluated had a *)
(* focus nobody wrote.  And the graph it hands over says no more than was  *)
(* read: what is missing does not exist, and what could not be read is an  *)
(* issue.                                                                  *)
(***************************************************************************)
EXTENDS CollectorProperties, TLAPS, SequenceTheorems, FiniteSetTheorems, WellFoundedInduction

-----------------------------------------------------------------------------
(* What every operator on a graph keeps.  A collection may only add to a     *)
(* graph: the first read of the focus, the verdict of the last one and the   *)
(* issues recorded so far survive whatever is added.                         *)

\* h is g with something added.
Extends(g, h) ==
    /\ IsGraph(h)
    /\ h.focus = g.focus
    /\ h.start = g.start
    /\ h.stability = g.stability
    /\ g.issues \subseteq h.issues
    /\ DOMAIN g.nodes \subseteq DOMAIN h.nodes
    /\ g.version => h.version

\* A graph extends itself.
LEMMA ExtendsReflexive ==
    ASSUME NEW g, IsGraph(g)
    PROVE  Extends(g, g)
BY DEF Extends

\* Additions to additions are additions.
LEMMA ExtendsTransitive ==
    ASSUME NEW g, NEW h, NEW k, Extends(g, h), Extends(h, k)
    PROVE  Extends(g, k)
BY DEF Extends

\* A graph begins as a graph, with nothing in it.
LEMMA NewGraphIsGraph ==
    ASSUME NEW ref
    PROVE  /\ IsGraph(NewGraph(ref))
           /\ NewGraph(ref).focus = ref
           /\ NewGraph(ref).start = NoObject
           /\ NewGraph(ref).stability = "unknown"
BY DEF NewGraph, IsGraph, GraphFields

\* Putting a node, new or in place of another, only adds refs to the graph (Graph.AddNode).
LEMMA PutNodeExtends ==
    ASSUME NEW g, IsGraph(g), NEW ref, NEW node
    PROVE  Extends(g, PutNode(g, ref, node))
BY DEF PutNode, Extends, IsGraph, GraphFields

\* Adding an object, or its definite absence, only adds (Graph.AddNode).
LEMMA AddNodeExtends ==
    ASSUME NEW g, IsGraph(g), NEW ref, NEW object
    PROVE  Extends(g, AddNode(g, ref, object))
BY PutNodeExtends, ExtendsReflexive DEF AddNode

\* Adding a node of unknown existence only adds (Graph.AddUnknownNode).
LEMMA AddUnknownNodeExtends ==
    ASSUME NEW g, IsGraph(g), NEW ref
    PROVE  Extends(g, AddUnknownNode(g, ref))
BY PutNodeExtends, ExtendsReflexive DEF AddUnknownNode

\* Adding the objects of a list only adds (Graph.AddNode in a loop).
LEMMA AddNodesExtends ==
    ASSUME NEW g, IsGraph(g), NEW objects
    PROVE  Extends(g, AddNodes(g, objects))
BY DEF AddNodes, Extends, IsGraph, GraphFields

\* Adding edges only adds (Graph.AddEdge).
LEMMA AddEdgesExtends ==
    ASSUME NEW g, IsGraph(g), NEW edges
    PROVE  Extends(g, AddEdges(g, edges))
BY DEF AddEdges, Extends, IsGraph, GraphFields

\* Adding Events only adds (Graph.AddEvents).
LEMMA AddEventsExtends ==
    ASSUME NEW g, IsGraph(g), NEW events
    PROVE  Extends(g, AddEvents(g, events))
BY DEF AddEvents, Extends, IsGraph, GraphFields

\* Adding an issue only adds (Graph.AddCollectionIssue).
LEMMA AddCollectionIssueExtends ==
    ASSUME NEW g, IsGraph(g), NEW issue
    PROVE  /\ Extends(g, AddCollectionIssue(g, issue))
           /\ issue \in AddCollectionIssue(g, issue).issues
BY DEF AddCollectionIssue, Extends, IsGraph, GraphFields

\* Recording the version only adds (Graph.SetKubernetesVersion).
LEMMA SetKubernetesVersionExtends ==
    ASSUME NEW g, IsGraph(g)
    PROVE  Extends(g, SetKubernetesVersion(g))
BY DEF SetKubernetesVersion, Extends, IsGraph, GraphFields

\* The two reads of the focus are what sets start and stability.
LEMMA BeginCollectionStarts ==
    ASSUME NEW g, IsGraph(g), NEW object
    PROVE  /\ IsGraph(BeginCollection(g, object))
           /\ BeginCollection(g, object).focus = g.focus
           /\ BeginCollection(g, object).start = FocusRevision(object)
           /\ BeginCollection(g, object).stability = "unknown"
BY DEF BeginCollection, IsGraph, GraphFields

\* The verdict of the final read compares two revisions (Graph.FinishCollection).
LEMMA FinishCollectionJudges ==
    ASSUME NEW g, IsGraph(g), NEW object
    PROVE  LET h == FinishCollection(g, object)
           IN  /\ IsGraph(h)
               /\ h.focus = g.focus
               /\ h.start = g.start
               /\ h.nodes = g.nodes
               /\ h.edges = g.edges
               /\ h.issues = g.issues
               /\ h.version = g.version
               /\ h.stability \in {"unknown", "stable", "changed"}
               /\ h.stability = "stable" <=>
                    /\ g.start # NoObject
                    /\ object # NoObject
                    /\ FocusRevision(object) = g.start
               /\ h.stability = "changed" =>
                    /\ object # NoObject
                    /\ FocusRevision(object) # g.start
BY DEF FinishCollection, IsGraph, GraphFields

-----------------------------------------------------------------------------
(* The API server, whoever writes it: every write takes the next revision,  *)
(* and an object's resourceVersion is never ahead of it.                    *)

ClusterTypeOK ==
    /\ cluster \in [Refs -> Object \cup {NoObject}]
    /\ revision \in 1..MaxRevision
    /\ recorded \subseteq Event

ClusterInv ==
    /\ ClusterTypeOK
    /\ \A r \in Refs :
        cluster[r] # NoObject => cluster[r].ref = r /\ cluster[r].rv <= revision

\* The ownerReferences of a shape are a sequence of owners by name.
LEMMA ShapeOwners ==
    ASSUME NEW r \in Refs
    PROVE  LET s == Shape[r].owners
           IN  /\ Len(s) \in Nat
               /\ DOMAIN s = 1..Len(s)
               /\ \A i \in DOMAIN s : s[i].ref \in Refs /\ s[i].controller \in BOOLEAN
<1> DEFINE S == [ref : Refs, controller : BOOLEAN]
           s == Shape[r].owners
<1>1. s \in Seq(S)
    BY ClusterAssumption
<1> HIDE DEF S, s
<1>2. Len(s) \in Nat /\ DOMAIN s = 1..Len(s) /\ s \in [1..Len(s) -> S]
    BY <1>1, LenProperties
<1>3. ASSUME NEW i \in DOMAIN s
      PROVE  s[i].ref \in Refs /\ s[i].controller \in BOOLEAN
    <2>1. PICK o \in S : o = s[i]
        BY <1>2
    <2> QED
        BY <2>1 DEF S
<1> QED
    BY <1>2, <1>3 DEF s

\* What a write creates is an object.
LEMMA NewObjectType ==
    ASSUME NEW r \in Refs, NEW n \in Nat, NEW known \in SUBSET Refs,
           NEW uids \in [known -> UID],
           \A i \in DOMAIN Shape[r].owners : Shape[r].owners[i].ref \in known
    PROVE  /\ NewObject(r, n, uids) \in Object
           /\ NewObject(r, n, uids).ref = r
           /\ NewObject(r, n, uids).rv = n
<1> DEFINE s == Shape[r].owners
           owners == [i \in DOMAIN s |->
                        [ref |-> s[i].ref, uid |-> uids[s[i].ref],
                         controller |-> s[i].controller]]
<1>3. owners \in Seq(OwnerRef)
    <2>1. PICK k \in Nat : DOMAIN s = 1..k
        BY ShapeOwners
    <2>2. \A i \in 1..k : owners[i] \in OwnerRef
        BY <2>1, ShapeOwners DEF OwnerRef
    <2>3. owners \in [1..k -> OwnerRef]
        BY <2>1, <2>2
    <2> HIDE DEF owners
    <2> QED
        BY <2>3
<1>4. <<r, n>> \in UID
    BY DEF UID
<1>5. NewObject(r, n, uids) =
        [ref |-> r, uid |-> <<r, n>>, rv |-> n,
         gen |-> IF r.kind \in Generational THEN 1 ELSE 0,
         obs |-> IF r.kind = "HorizontalPodAutoscaler" THEN NilGeneration ELSE 0,
         owners |-> owners]
    BY DEF NewObject
<1> HIDE DEF owners
<1> QED
    BY <1>3, <1>4, <1>5 DEF Object, NilGeneration

\* What a write of an object leaves is an object.
LEMMA UpdatedType ==
    ASSUME NEW o \in Object, NEW n \in Nat, NEW gen \in Nat, NEW obs \in Int
    PROVE  /\ Updated(o, n, gen, obs) \in Object
           /\ Updated(o, n, gen, obs).ref = o.ref
           /\ Updated(o, n, gen, obs).rv = n
BY DEF Updated, Object

\* An object whose controller has caught up is an object.
LEMMA SettledType ==
    ASSUME NEW o \in Object
    PROVE  Settled(o) \in Object /\ Settled(o).ref = o.ref /\ Settled(o).rv = o.rv
BY DEF Settled, Object

\* Events about an object are Events.
LEMMA EventsAboutType ==
    ASSUME NEW r \in Refs, NEW n \in Nat
    PROVE  EventsAbout(r, n) \subseteq Event
BY DEF EventsAbout, Event, UID

\* The cluster is well formed to begin with.
LEMMA ClusterInitInv == ClusterInit => ClusterInv
<1> SUFFICES ASSUME ClusterInit PROVE ClusterInv
    OBVIOUS
<1> DEFINE ones == [x \in Refs |-> <<x, 1>>]
           New(r) == NewObject(r, 1, ones)
<1>1. revision = 1 /\ 1 \in 1..MaxRevision
    <2>1. MaxRevision \in Nat \ {0}
        BY ClusterAssumption
    <2>2. 1 \in 1..MaxRevision
        BY <2>1
    <2> QED
        BY <2>2 DEF ClusterInit
<1>2. PICK present \in InitialClusters :
        /\ cluster = [r \in Refs |-> IF r \in present
                                     THEN Settled(New(r))
                                     ELSE NoObject]
        /\ recorded = UNION {EventsAbout(r, 1) : r \in present}
    BY DEF ClusterInit
<1>3. present \subseteq Refs
    BY <1>2, ClusterAssumption
<1>4. ASSUME NEW r \in Refs
      PROVE  New(r) \in Object /\ New(r).ref = r /\ New(r).rv = 1
    <2>1. ones \in [Refs -> UID]
        BY DEF UID
    <2>2. \A i \in DOMAIN Shape[r].owners : Shape[r].owners[i].ref \in Refs
        BY ShapeOwners
    <2> QED
        BY <2>1, <2>2, NewObjectType
<1> HIDE DEF New
<1>5. \A r \in Refs :
        Settled(New(r)) \in Object /\ Settled(New(r)).ref = r /\ Settled(New(r)).rv = 1
    BY <1>4, SettledType
<1>6. recorded \subseteq Event
    BY <1>2, <1>3, EventsAboutType
<1> QED
    BY <1>1, <1>2, <1>3, <1>5, <1>6 DEF ClusterInv, ClusterTypeOK

\* Any write of r: the next revision, seen in r alone.
LEMMA WriteAdvances ==
    ASSUME ClusterInv, NEW r \in Refs, ClusterWrite(r)
    PROVE  /\ ClusterInv'
           /\ revision' = revision + 1
           /\ \A x \in Refs \ {r} : cluster'[x] = cluster[x]
           /\ cluster'[r] # NoObject => cluster'[r].rv = revision'
<1>1. r \in Refs /\ revision \in Nat
    BY ClusterAssumption DEF ClusterInv, ClusterTypeOK
<1>2. revision' = revision + 1 /\ revision' \in 1..MaxRevision
    BY ClusterAssumption DEF ClusterWrite, Create, Delete, ChangeSpec, Reconcile, Touch,
        Write, CanWrite, ClusterInv, ClusterTypeOK
<1>3. PICK object \in Object \cup {NoObject} :
        /\ cluster' = [cluster EXCEPT ![r] = object]
        /\ object # NoObject => object.ref = r /\ object.rv = revision + 1
        /\ recorded' \subseteq Event
    <2>1. CASE Create(r)
        <3> DEFINE uids == [x \in Present |-> cluster[x].uid]
        <3>1. uids \in [Present -> UID] /\ Present \in SUBSET Refs
            BY DEF Present, ClusterInv, ClusterTypeOK, Object
        <3>2. \A i \in DOMAIN Shape[r].owners : Shape[r].owners[i].ref \in Present
            BY <2>1 DEF Create
        <3>3. revision + 1 \in Nat
            BY <1>1
        <3> HIDE DEF uids
        <3>4. /\ NewObject(r, revision + 1, uids) \in Object
              /\ NewObject(r, revision + 1, uids).ref = r
              /\ NewObject(r, revision + 1, uids).rv = revision + 1
            BY <1>1, <3>1, <3>2, <3>3, NewObjectType
        <3>5. recorded' \subseteq Event
            BY <2>1, <1>1, <3>3, EventsAboutType DEF Create, ClusterInv, ClusterTypeOK
        <3>6. cluster' = [cluster EXCEPT ![r] = NewObject(r, revision + 1, uids)]
            BY <2>1 DEF Create, Write, uids
        <3> QED
            BY <3>4, <3>5, <3>6
    <2>2. CASE Delete(r)
        BY <2>2 DEF Delete, Write, ClusterInv, ClusterTypeOK
    <2>6. ASSUME cluster[r] # NoObject,
                 \E gen \in Nat, obs \in Int :
                    Write(r, Updated(cluster[r], revision + 1, gen, obs)),
                 UNCHANGED recorded
          PROVE  \E object \in Object :
                    /\ cluster' = [cluster EXCEPT ![r] = object]
                    /\ object.ref = r /\ object.rv = revision + 1
                    /\ recorded' \subseteq Event
        <3>1. PICK old \in Object : old = cluster[r] /\ old.ref = r
            BY <1>1, <2>6 DEF ClusterInv, ClusterTypeOK
        <3>2. PICK gen \in Nat, obs \in Int :
                cluster' = [cluster EXCEPT ![r] = Updated(old, revision + 1, gen, obs)]
            BY <2>6, <3>1 DEF Write
        <3>3. PICK n \in Nat : n = revision + 1
            BY <1>1
        <3>4. /\ Updated(old, n, gen, obs) \in Object
              /\ Updated(old, n, gen, obs).ref = old.ref
              /\ Updated(old, n, gen, obs).rv = n
            BY UpdatedType, Zenon
        <3> QED
            BY <2>6, <3>1, <3>2, <3>3, <3>4 DEF ClusterInv, ClusterTypeOK
    <2>7. cluster[r] # NoObject => cluster[r].gen \in Nat /\ cluster[r].obs \in Int
        BY <1>1 DEF ClusterInv, ClusterTypeOK, Object
    <2>3. CASE ChangeSpec(r)
        <3>1. /\ cluster[r] # NoObject
              /\ Write(r, Updated(cluster[r], revision + 1, cluster[r].gen + 1, cluster[r].obs))
              /\ UNCHANGED recorded
            BY <2>3 DEF ChangeSpec
        <3>2. cluster[r].gen + 1 \in Nat /\ cluster[r].obs \in Int
            BY <2>7, <3>1
        <3> QED
            BY <2>6, <3>1, <3>2
    <2>4. CASE Reconcile(r)
        <3>1. /\ cluster[r] # NoObject
              /\ Write(r, Updated(cluster[r], revision + 1, cluster[r].gen, cluster[r].gen))
              /\ UNCHANGED recorded
            BY <2>4 DEF Reconcile
        <3>2. cluster[r].gen \in Nat /\ cluster[r].gen \in Int
            BY <2>7, <3>1
        <3> QED
            BY <2>6, <3>1, <3>2
    <2>5. CASE Touch(r)
        <3>1. /\ cluster[r] # NoObject
              /\ Write(r, Updated(cluster[r], revision + 1, cluster[r].gen, cluster[r].obs))
              /\ UNCHANGED recorded
            BY <2>5 DEF Touch
        <3>2. cluster[r].gen \in Nat /\ cluster[r].obs \in Int
            BY <2>7, <3>1
        <3> QED
            BY <2>6, <3>1, <3>2
    <2> QED
        BY <2>1, <2>2, <2>3, <2>4, <2>5 DEF ClusterWrite
<1>4. /\ \A x \in Refs \ {r} : cluster'[x] = cluster[x]
      /\ cluster'[r] = object
      /\ cluster' \in [Refs -> Object \cup {NoObject}]
    BY <1>1, <1>3 DEF ClusterInv, ClusterTypeOK
<1>5. \A x \in Refs : cluster[x] # NoObject => cluster[x].rv \in Nat
    BY DEF ClusterInv, ClusterTypeOK, Object
<1>6. \A x \in Refs : cluster'[x] # NoObject =>
        cluster'[x].ref = x /\ cluster'[x].rv <= revision'
    BY <1>1, <1>2, <1>3, <1>4, <1>5 DEF ClusterInv
<1> QED
    BY <1>2, <1>3, <1>4, <1>6 DEF ClusterInv, ClusterTypeOK

-----------------------------------------------------------------------------
(* The collector. *)

\* A step between the two reads: something may be added to the graph.
Gathers ==
    /\ status = "running"
    /\ work # <<>>
    /\ status' \in {"running", "failed"}
    /\ Extends(graph, graph')
    /\ UNCHANGED <<clusterVars, focus, expired, disturbed>>

\* Recording an issue only adds to the graph.
LEMMA AddIssueExtends ==
    ASSUME NEW g, IsGraph(g), NEW source, NEW ref, NEW affectsHealth
    PROVE  /\ Extends(g, AddIssue(g, source, ref, affectsHealth))
           /\ Issue(source, ref, affectsHealth) \in AddIssue(g, source, ref, affectsHealth).issues
BY AddCollectionIssueExtends DEF AddIssue

\* So does what the collector does with an owner it could not resolve.
LEMMA UnresolvedExtends ==
    ASSUME NEW g, IsGraph(g), NEW ref
    PROVE  Extends(g, Unresolved(g, ref))
<1>1. Extends(g, AddUnknownNode(g, ref)) /\ IsGraph(AddUnknownNode(g, ref))
    BY AddUnknownNodeExtends DEF Extends
<1>2. Extends(AddUnknownNode(g, ref), Unresolved(g, ref))
    BY <1>1, AddIssueExtends DEF Unresolved
<1> QED
    BY <1>1, <1>2, ExtendsTransitive

\* So does what it does with the answer of a GET, whatever the answer.
LEMMA LookedExtends ==
    ASSUME IsGraph(graph), NEW ref, NEW ok
    PROVE  Extends(graph, Looked(ref, ok))
BY AddNodeExtends, UnresolvedExtends DEF Looked

\* Adding edges to a graph that was added to.
LEMMA ThenEdges ==
    ASSUME NEW g, NEW h, Extends(g, h), NEW edges
    PROVE  Extends(g, AddEdges(h, edges))
<1>1. Extends(h, AddEdges(h, edges))
    BY AddEdgesExtends DEF Extends
<1> QED
    BY <1>1, ExtendsTransitive

\* So does adding the EndpointSlices of a Service.
LEMMA WithSlicesExtends ==
    ASSUME NEW g, IsGraph(g), NEW svc, NEW ok
    PROVE  Extends(g, WithSlices(g, svc, ok))
BY AddNodesExtends, ThenEdges, AddIssueExtends DEF WithSlices

\* So does adding the autoscalers of the Deployments collected.
LEMMA WithAutoscalersExtends ==
    ASSUME NEW g, IsGraph(g), NEW hpas
    PROVE  Extends(g, WithAutoscalers(g, hpas))
<1> DEFINE edges == UNION {{Edge(h.ref, d, "scales") : d \in Shape[h.ref].target} : h \in hpas}
           h1 == AddEdges(AddNodes(g, hpas), edges)
           new == {Issue("horizontalpodautoscaler", h.ref, FALSE) : h \in {x \in hpas : Lagging(x)}}
<1>1. Extends(g, h1)
    BY AddNodesExtends, ThenEdges
<1>2. WithAutoscalers(g, hpas) = [h1 EXCEPT !.issues = h1.issues \cup new]
    BY DEF WithAutoscalers
<1> HIDE DEF h1, new
<1>3. Extends(h1, [h1 EXCEPT !.issues = h1.issues \cup new])
    BY <1>1 DEF Extends, IsGraph, GraphFields
<1> QED
    BY <1>1, <1>2, <1>3, ExtendsTransitive

\* So does a look-up, of a reference followed now or followed before.
LEMMA LookUpExtends ==
    ASSUME IsGraph(graph), NEW ref, NEW edge, LookUp(ref, edge)
    PROVE  Extends(graph, graph')
<1>1. CASE graph' = AddEdges(graph, {edge})
    BY <1>1, AddEdgesExtends
<1>2. ASSUME NEW ok \in BOOLEAN, graph' = AddEdges(Looked(ref, ok), {edge})
      PROVE  Extends(graph, graph')
    BY <1>2, LookedExtends, ThenEdges
<1> QED
    BY <1>1, <1>2 DEF LookUp


\* Every step of the collector but its two reads of the focus.
GatheringStep ==
    \/ CollectClusterInfo
    \/ AddPod
    \/ AddLinks
    \/ ResolveExactOwner
    \/ ResolveReplicaSet
    \/ ResolveDeployment
    \/ AddConfigMapRef
    \/ AddSecretRef
    \/ AddStorageRef
    \/ AddScheduledNode
    \/ ListSelectedPods
    \/ ListReplicaSets
    \/ ListDeploymentPods
    \/ ListStatefulSetPods
    \/ ListJobPods
    \/ ListCronJobJobs
    \/ ListServices
    \/ AddService
    \/ ListEndpointSlices
    \/ CollectAutoscalers
    \/ CollectEvents
    \/ ListPodEvents

\* Every step of a collection between the two reads of the focus only adds to the graph.
LEMMA GatheringStepGathers ==
    ASSUME IsGraph(graph), GatheringStep
    PROVE  Gathers
<1>1. CASE CollectClusterInfo
    <2>1. Extends(graph, graph')
        BY <1>1, SetKubernetesVersionExtends, AddIssueExtends DEF CollectClusterInfo, VersionIssue
    <2>2. status' \in {"running", "failed"} /\ UNCHANGED focus
        BY <1>1 DEF CollectClusterInfo, Continue, Doing
    <2> QED
        BY <2>1, <2>2, <1>1 DEF CollectClusterInfo, Doing, Collecting, Gathers
<1>2. CASE AddPod
    <2>1. Extends(graph, graph')
        BY <1>2, AddNodeExtends DEF AddPod
    <2> QED
        BY <2>1, <1>2 DEF AddPod, Continue, Doing, Collecting, Gathers
<1>3. CASE AddLinks
    <2>1. Extends(graph, graph')
        BY <1>3, AddEdgesExtends DEF AddLinks
    <2> QED
        BY <2>1, <1>3 DEF AddLinks, Continue, Doing, Collecting, Gathers
<1>4. CASE ResolveExactOwner
    <2>1. Extends(graph, graph')
        BY <1>4, AddNodeExtends, UnresolvedExtends, ExtendsReflexive DEF ResolveExactOwner
    <2>2. UNCHANGED <<focus, status>>
        BY <1>4 DEF ResolveExactOwner, AcceptOwner, Continue
    <2> QED
        BY <2>1, <2>2, <1>4 DEF ResolveExactOwner, Doing, Collecting, Gathers
<1>5. CASE ResolveReplicaSet
    <2>1. Extends(graph, graph')
        BY <1>5, AddNodeExtends, AddEdgesExtends, UnresolvedExtends, ThenEdges DEF ResolveReplicaSet
    <2>2. UNCHANGED <<focus, status>>
        BY <1>5 DEF ResolveReplicaSet, Continue
    <2> QED
        BY <2>1, <2>2, <1>5 DEF ResolveReplicaSet, Doing, Collecting, Gathers
<1>6. CASE ResolveDeployment
    BY <1>6, LookUpExtends DEF ResolveDeployment, LookUp, Continue, Doing, Collecting, Gathers
<1>7. CASE AddConfigMapRef
    BY <1>7, LookUpExtends DEF AddConfigMapRef, LookUp, Continue, Doing, Collecting, Gathers
<1>8. CASE AddSecretRef
    <2>1. Extends(graph, graph')
        BY <1>8, UnresolvedExtends, ExtendsReflexive, ThenEdges DEF AddSecretRef
    <2> QED
        BY <2>1, <1>8 DEF AddSecretRef, Continue, Doing, Collecting, Gathers
<1>9. CASE AddStorageRef
    BY <1>9, LookUpExtends DEF AddStorageRef, LookUp, Continue, Doing, Collecting, Gathers
<1>10. CASE AddScheduledNode
    BY <1>10, LookUpExtends DEF AddScheduledNode, LookUp, Continue, Doing, Collecting, Gathers
<1>11. CASE ListSelectedPods
    <2>1. Extends(graph, graph')
        BY <1>11, AddIssueExtends, ExtendsReflexive DEF ListSelectedPods, AddListedPods
    <2>2. UNCHANGED <<focus, status>>
        BY <1>11 DEF ListSelectedPods, AddListedPods, Continue
    <2> QED
        BY <2>1, <2>2, <1>11 DEF ListSelectedPods, Doing, Collecting, Gathers
<1>12. CASE ListReplicaSets
    <2>1. Extends(graph, graph')
        BY <1>12, AddNodesExtends, ThenEdges, AddIssueExtends DEF ListReplicaSets
    <2>2. UNCHANGED <<focus, status>>
        BY <1>12 DEF ListReplicaSets, Continue
    <2> QED
        BY <2>1, <2>2, <1>12 DEF ListReplicaSets, Doing, Collecting, Gathers
<1>13. CASE ListDeploymentPods
    <2>1. Extends(graph, graph')
        BY <1>13, AddIssueExtends, ExtendsReflexive DEF ListDeploymentPods, AddListedPods
    <2>2. UNCHANGED <<focus, status>>
        BY <1>13 DEF ListDeploymentPods, AddListedPods, Continue
    <2> QED
        BY <2>1, <2>2, <1>13 DEF ListDeploymentPods, Doing, Collecting, Gathers
<1>14. CASE ListStatefulSetPods
    <2>1. Extends(graph, graph')
        BY <1>14, AddIssueExtends, ExtendsReflexive DEF ListStatefulSetPods, AddListedPods
    <2>2. UNCHANGED <<focus, status>>
        BY <1>14 DEF ListStatefulSetPods, AddListedPods, Continue
    <2> QED
        BY <2>1, <2>2, <1>14 DEF ListStatefulSetPods, Doing, Collecting, Gathers
<1>15. CASE ListJobPods
    <2>1. Extends(graph, graph')
        BY <1>15, AddIssueExtends, ExtendsReflexive DEF ListJobPods, AddListedPods
    <2>2. UNCHANGED <<focus, status>>
        BY <1>15 DEF ListJobPods, AddListedPods, Continue
    <2> QED
        BY <2>1, <2>2, <1>15 DEF ListJobPods, Doing, Collecting, Gathers
<1>16. CASE ListCronJobJobs
    <2>1. Extends(graph, graph')
        BY <1>16, AddNodeExtends, AddIssueExtends, ExtendsReflexive DEF ListCronJobJobs
    <2>2. UNCHANGED <<focus, status>>
        BY <1>16 DEF ListCronJobJobs, Continue
    <2> QED
        BY <2>1, <2>2, <1>16 DEF ListCronJobJobs, Doing, Collecting, Gathers
<1>17. CASE ListServices
    <2>1. Extends(graph, graph')
        BY <1>17, AddIssueExtends, ExtendsReflexive DEF ListServices
    <2> QED
        BY <2>1, <1>17 DEF ListServices, Continue, Doing, Collecting, Gathers
<1>18. CASE AddService
    <2>1. ASSUME NEW svc, NEW edges, NEW ok
          PROVE  Extends(graph, WithSlices(AddEdges(AddNode(graph, svc.ref, svc), edges), svc.ref, ok))
        <3> DEFINE h == AddEdges(AddNode(graph, svc.ref, svc), edges)
        <3>1. Extends(graph, h)
            BY AddNodeExtends, ThenEdges
        <3> HIDE DEF h
        <3>2. Extends(h, WithSlices(h, svc.ref, ok))
            BY <3>1, WithSlicesExtends DEF Extends
        <3>3. Extends(graph, WithSlices(h, svc.ref, ok))
            BY <3>1, <3>2, ExtendsTransitive
        <3> QED
            BY <3>3 DEF h
    <2>2. Extends(graph, graph')
        BY <1>18, <2>1 DEF AddService
    <2> QED
        BY <2>2, <1>18 DEF AddService, Continue, Doing, Collecting, Gathers
<1>19. CASE ListEndpointSlices
    <2>1. Extends(graph, graph')
        BY <1>19, WithSlicesExtends DEF ListEndpointSlices
    <2> QED
        BY <2>1, <1>19 DEF ListEndpointSlices, Continue, Doing, Collecting, Gathers
<1>20. CASE CollectAutoscalers
    <2>1. Extends(graph, graph')
        BY <1>20, WithAutoscalersExtends, AddIssueExtends, ExtendsReflexive DEF CollectAutoscalers
    <2> QED
        BY <2>1, <1>20 DEF CollectAutoscalers, Continue, Doing, Collecting, Gathers
<1>21. CASE CollectEvents
    <2>1. Extends(graph, graph')
        BY <1>21, ExtendsReflexive DEF CollectEvents
    <2> QED
        BY <2>1, <1>21 DEF CollectEvents, Continue, Doing, Collecting, Gathers
<1>22. CASE ListPodEvents
    <2>1. Extends(graph, graph')
        BY <1>22, AddEventsExtends, AddIssueExtends DEF ListPodEvents
    <2> QED
        BY <2>1, <1>22 DEF ListPodEvents, Continue, Doing, Collecting, Gathers
<1> QED
    BY <1>1, <1>2, <1>3, <1>4, <1>5, <1>6, <1>7, <1>8, <1>9, <1>10, <1>11, <1>12, <1>13, <1>14, <1>15, <1>16, <1>17, <1>18, <1>19, <1>20, <1>21, <1>22 DEF GatheringStep

\* A step of the collector is its first read of the focus, its last, or one in between.
LEMMA CollectorStepCases ==
    CollectorStep <=> ReadFocus \/ GatheringStep \/ FinishFocusCollection
BY Zenon DEF CollectorStep, GatheringStep

-----------------------------------------------------------------------------
(* The focus between its two reads. *)

\* The focus has the revision of its first read.
AsFirstRead == cluster[focus] # NoObject /\ FocusRevision(cluster[focus]) = graph.start

\* It is gone, or carries a later revision, whatever its name and generation.
MovedOn == cluster[focus] = NoObject \/ cluster[focus].rv > graph.start.rv

FocusWatched ==
    graph.start # NoObject =>
        /\ graph.start \in Revision
        /\ graph.start.rv <= revision
        /\ ~disturbed => AsFirstRead
        /\ disturbed => MovedOn

\* What a collection that is over recorded about itself.
Concluded ==
    status = "collected" =>
        /\ graph.start # NoObject
        /\ graph.stability = "stable"  => ~disturbed
        /\ graph.stability = "changed" => disturbed
        /\ graph.stability = "stable" => ~expired
        /\ graph.stability # "stable" =>
             Issue("temporal-integrity", focus, TRUE) \in graph.issues

IInv ==
    /\ ClusterInv
    /\ focus \in Foci /\ focus \in Refs
    /\ status \in {"running", "failed", "collected"}
    /\ expired \in BOOLEAN /\ disturbed \in BOOLEAN
    /\ IsGraph(graph)
    /\ graph.start = NoObject => work = <<>> /\ ~disturbed
    /\ FocusWatched
    /\ Concluded

\* An object of the cluster has a revision, no later than the last write.
LEMMA ObjectHasRevision ==
    ASSUME ClusterInv, NEW r \in Refs, cluster[r] # NoObject
    PROVE  /\ cluster[r].rv \in Nat /\ cluster[r].rv <= revision
           /\ FocusRevision(cluster[r]) \in Revision
           /\ FocusRevision(cluster[r]) # NoObject
           /\ FocusRevision(cluster[r]).rv = cluster[r].rv
<1>1. PICK o \in Object : o = cluster[r]
    BY DEF ClusterInv, ClusterTypeOK
<1>2. /\ o.rv \in Nat
      /\ FocusRevision(o) \in Revision
      /\ FocusRevision(o).rv = o.rv
    BY DEF Object, FocusRevision, Revision
<1>3. FocusRevision(o) # NoObject
    BY <1>2, NoObjectAssumption
<1> QED
    BY <1>1, <1>2, <1>3 DEF ClusterInv

\* The invariant holds before the first read of the focus.
LEMMA InitIInv == Init => IInv
<1> SUFFICES ASSUME Init PROVE IInv
    OBVIOUS
<1>1. ClusterInv
    BY ClusterInitInv DEF Init
<1>2. focus \in Foci /\ focus \in Refs
    BY CollectorAssumption DEF Init
<1>3. IsGraph(graph) /\ graph.start = NoObject
    BY NewGraphIsGraph DEF Init
<1> QED
    BY <1>1, <1>2, <1>3 DEF Init, IInv, FocusWatched, Concluded

\* The first read that finds the focus fixes the revision to compare with.
FocusFound ==
    \E ok \in BOOLEAN :
        /\ Got(focus, ok) # NoObject
        /\ graph' = AddNode(BeginCollection(NewGraph(focus), Got(focus, ok)), focus, Got(focus, ok))
        /\ status' = status

\* The first read of the focus remembers its revision.
LEMMA FirstRead ==
    ASSUME IInv, FocusFound
    PROVE  /\ IsGraph(graph')
           /\ cluster[focus] # NoObject
           /\ graph'.start = FocusRevision(cluster[focus])
           /\ graph'.start # NoObject
<1> DEFINE g == BeginCollection(NewGraph(focus), cluster[focus])
<1>1. PICK ok \in BOOLEAN :
        /\ Got(focus, ok) # NoObject
        /\ graph' = AddNode(BeginCollection(NewGraph(focus), Got(focus, ok)), focus, Got(focus, ok))
    BY DEF FocusFound
<1>2. Got(focus, ok) = cluster[focus] /\ cluster[focus] # NoObject
    BY <1>1 DEF Got
<1>3. IsGraph(g) /\ g.start = FocusRevision(cluster[focus])
    BY NewGraphIsGraph, BeginCollectionStarts
<1>4. graph' = AddNode(g, focus, cluster[focus])
    BY <1>1, <1>2
<1> HIDE DEF g
<1>5. IsGraph(graph') /\ graph'.start = g.start
    BY <1>3, <1>4, AddNodeExtends DEF Extends
<1> QED
    BY <1>2, <1>3, <1>5, ObjectHasRevision DEF IInv

\* The first read of the focus keeps the invariant.
LEMMA ReadFocusIInv ==
    ASSUME IInv, ReadFocus
    PROVE  IInv'
<1> USE DEF IInv
<1>1. /\ status = "running" /\ graph.start = NoObject
      /\ UNCHANGED <<clusterVars, focus, expired, disturbed>>
    BY DEF ReadFocus, Collecting
<1>2. ClusterInv'
    BY <1>1 DEF ClusterInv, ClusterTypeOK, clusterVars
<1>3. CASE status' = "failed" /\ UNCHANGED <<work, graph>>
    BY <1>1, <1>2, <1>3 DEF FocusWatched, Concluded
<1>4. CASE FocusFound
    <2>1. FocusWatched' /\ graph'.start # NoObject
        BY <1>1, <1>4, FirstRead, ObjectHasRevision
        DEF FocusWatched, AsFirstRead, clusterVars
    <2> QED
        BY <1>1, <1>2, <1>4, <2>1, FirstRead DEF FocusFound, Concluded
<1> QED
    BY <1>3, <1>4 DEF ReadFocus, FocusFound

\* Steps that only add to the graph keep the invariant.
LEMMA GathersIInv ==
    ASSUME IInv, Gathers
    PROVE  IInv'
<1> USE DEF IInv
<1>1. ClusterInv'
    BY DEF Gathers, ClusterInv, ClusterTypeOK, clusterVars
<1>2. IsGraph(graph') /\ graph'.start = graph.start /\ graph.start # NoObject
    BY DEF Gathers, Extends
<1>3. FocusWatched'
    BY <1>2 DEF Gathers, FocusWatched, AsFirstRead, MovedOn, clusterVars
<1> QED
    BY <1>1, <1>2, <1>3 DEF Gathers, Concluded

\* The check of the controllers at the end only adds issues.
LEMMA ValidateControllerFreshnessExtends ==
    ASSUME NEW g, IsGraph(g)
    PROVE  Extends(g, ValidateControllerFreshness(g))
BY DEF ValidateControllerFreshness, Extends, IsGraph, GraphFields

\* The second read, and what it records.
LEMMA FinishJudges ==
    ASSUME IInv, FinishFocusCollection
    PROVE  /\ status = "running" /\ status' = "collected"
           /\ IsGraph(graph') /\ graph.start # NoObject /\ graph'.start = graph.start
           /\ graph'.stability = "stable" => AsFirstRead /\ ~expired
           /\ graph'.stability = "changed" =>
                cluster[focus] # NoObject /\ FocusRevision(cluster[focus]) # graph.start
           /\ graph'.stability # "stable" =>
                Issue("temporal-integrity", focus, TRUE) \in graph'.issues
<1> USE DEF IInv
<1>1. /\ status = "running" /\ status' = "collected"
      /\ work # <<>>
    BY DEF FinishFocusCollection, Doing
<1>2. PICK ok \in BOOLEAN :
        /\ Get("temporal-integrity", focus, ok)
        /\ graph' = LET g == FinishCollection(graph, Got(focus, ok))
                    IN  IF g.stability = "stable"
                        THEN ValidateControllerFreshness(g)
                        ELSE AddIssue(g, "temporal-integrity", focus, TRUE)
    BY DEF FinishFocusCollection
<1> DEFINE g == FinishCollection(graph, Got(focus, ok))
<1>3. /\ IsGraph(g) /\ g.start = graph.start
      /\ g.stability = "stable" <=>
           /\ graph.start # NoObject
           /\ Got(focus, ok) # NoObject
           /\ FocusRevision(Got(focus, ok)) = graph.start
      /\ g.stability = "changed" =>
           /\ Got(focus, ok) # NoObject
           /\ FocusRevision(Got(focus, ok)) # graph.start
    BY FinishCollectionJudges
<1>4. graph' = IF g.stability = "stable"
               THEN ValidateControllerFreshness(g)
               ELSE AddIssue(g, "temporal-integrity", focus, TRUE)
    BY <1>2
<1>5. Got(focus, ok) # NoObject => ~expired /\ Got(focus, ok) = cluster[focus]
    BY <1>2 DEF Got, Get, Call
<1> HIDE DEF g
<1>6. Extends(g, graph')
    BY <1>3, <1>4, ValidateControllerFreshnessExtends, AddIssueExtends
<1>7. g.stability # "stable" => Issue("temporal-integrity", focus, TRUE) \in graph'.issues
    BY <1>3, <1>4, AddIssueExtends
<1> QED
    BY <1>1, <1>3, <1>5, <1>6, <1>7 DEF Extends, AsFirstRead

\* The final read of the focus keeps the invariant: its verdict is about writes in between.
LEMMA FinishIInv ==
    ASSUME IInv, FinishFocusCollection
    PROVE  IInv'
<1> USE DEF IInv
<1>1. UNCHANGED <<clusterVars, focus, expired, disturbed>>
    BY DEF FinishFocusCollection, Collecting
<1>2. ClusterInv'
    BY <1>1 DEF ClusterInv, ClusterTypeOK, clusterVars
<1>3. FocusWatched'
    BY <1>1, FinishJudges DEF FocusWatched, AsFirstRead, MovedOn, clusterVars
<1>4. graph'.stability = "stable" => ~disturbed
    <2>1. SUFFICES ASSUME graph'.stability = "stable", disturbed PROVE FALSE
        OBVIOUS
    <2>2. AsFirstRead /\ MovedOn /\ graph.start \in Revision
        BY <2>1, FinishJudges DEF FocusWatched
    <2>3. cluster[focus].rv = graph.start.rv /\ cluster[focus].rv \in Nat
        BY <2>2, ObjectHasRevision DEF AsFirstRead
    <2> QED
        BY <2>2, <2>3 DEF AsFirstRead, MovedOn
<1>5. graph'.stability = "changed" => disturbed
    BY FinishJudges DEF FocusWatched, AsFirstRead
<1>6. Concluded'
    BY <1>1, <1>4, <1>5, FinishJudges DEF Concluded
<1> QED
    BY <1>1, <1>2, <1>3, <1>6, FinishJudges

\* A write of the cluster keeps the invariant: it raises the revision of what it writes.
LEMMA EnvironmentIInv ==
    ASSUME IInv, Environment
    PROVE  IInv'
<1> USE DEF IInv
<1>1. PICK r \in Volatile[focus] :
        /\ ClusterWrite(r)
        /\ disturbed' = (disturbed \/ (r = focus /\ graph.start # NoObject))
    BY DEF Environment
<1>2. status = "running" /\ UNCHANGED <<focus, status, work, graph, expired>>
    BY DEF Environment
<1>3. /\ ClusterInv'
      /\ revision' = revision + 1
      /\ \A x \in Refs \ {r} : cluster'[x] = cluster[x]
      /\ cluster'[r] # NoObject => cluster'[r].rv = revision'
    BY <1>1, CollectorAssumption, WriteAdvances
<1>4. FocusWatched'
    <2>1. SUFFICES ASSUME graph.start # NoObject PROVE FocusWatched'
        BY <1>2 DEF FocusWatched
    <2>2. graph.start.rv \in Nat /\ graph.start.rv <= revision /\ revision \in Nat
        BY <2>1 DEF FocusWatched, Revision, ClusterInv, ClusterTypeOK
    <2>3. graph.start.rv < revision'
        BY <1>3, <2>2
    <2>4. CASE r = focus
        <3>1. disturbed'
            BY <1>1, <2>1, <2>4
        <3>2. MovedOn'
            BY <1>2, <1>3, <2>3, <2>4 DEF MovedOn
        <3>3. graph'.start.rv <= revision'
            BY <1>2, <1>3, <2>2
        <3> QED
            BY <1>2, <2>1, <3>1, <3>2, <3>3 DEF FocusWatched
    <2>5. CASE r # focus
        BY <1>1, <1>2, <1>3, <2>1, <2>2, <2>3, <2>5 DEF FocusWatched, MovedOn, AsFirstRead
    <2> QED
        BY <2>4, <2>5
<1>5. graph.start = NoObject => ~disturbed'
    BY <1>1
<1> QED
    BY <1>1, <1>2, <1>3, <1>4, <1>5 DEF Concluded

\* The passing of the deadline keeps the invariant.
LEMMA ExpireIInv ==
    ASSUME IInv, Expire
    PROVE  IInv'
<1>1. ClusterInv'
    BY DEF IInv, Expire, ClusterInv, ClusterTypeOK, clusterVars
<1> QED
    BY <1>1 DEF IInv, Expire, FocusWatched, AsFirstRead, MovedOn, Concluded, clusterVars

\* Nothing happening keeps the invariant.
LEMMA StutterIInv ==
    ASSUME IInv, UNCHANGED vars
    PROVE  IInv'
<1>1. ClusterInv'
    BY DEF IInv, vars, ClusterInv, ClusterTypeOK, clusterVars
<1> QED
    BY <1>1 DEF IInv, vars, collectorVars, FocusWatched, AsFirstRead, MovedOn, Concluded, clusterVars

\* Every step of an inspection keeps the invariant.
LEMMA NextIInv == IInv /\ [Next]_vars => IInv'
<1> SUFFICES ASSUME IInv, [Next]_vars PROVE IInv'
    OBVIOUS
<1>1. CASE ReadFocus
    BY <1>1, ReadFocusIInv
<1>2. CASE GatheringStep
    BY <1>2, GatheringStepGathers, GathersIInv DEF IInv
<1>3. CASE FinishFocusCollection
    BY <1>3, FinishIInv
<1>4. CASE Environment
    BY <1>4, EnvironmentIInv
<1>5. CASE Expire
    BY <1>5, ExpireIInv
<1>6. CASE UNCHANGED vars
    BY <1>6, StutterIInv
<1> QED
    BY <1>1, <1>2, <1>3, <1>4, <1>5, <1>6, CollectorStepCases DEF Next

\* What an inspection knows of its focus at every moment (BeginCollection, FinishCollection).
THEOREM Invariant == Spec => []IInv
BY InitIInv, NextIInv, PTL DEF Spec

-----------------------------------------------------------------------------
(* What follows from it. *)

\* The final read of the focus tells, for every cluster and every inspection,
\* whether the focus was written between the two reads (collector.go:669-701).
THEOREM StabilityIsRight == Spec => []StableMeansUndisturbed
<1>1. IInv => StableMeansUndisturbed
    BY DEF IInv, Concluded, StableMeansUndisturbed
<1> QED
    BY <1>1, Invariant, PTL

\* No inspection that outlived its deadline reports a healthy focus
\* (collector.go:669-701, graph.go:451-458).
THEOREM DeadlineIsSeen == Spec => []DeadlineBlocksHealth
<1>1. IInv => DeadlineBlocksHealth
    <2>1. SUFFICES ASSUME IInv, status = "collected", expired
                   PROVE  HasHealthBlockingIssue(graph)
        BY DEF DeadlineBlocksHealth
    <2>2. Issue("temporal-integrity", focus, TRUE) \in graph.issues
        BY <2>1 DEF IInv, Concluded
    <2> QED
        BY <2>2 DEF HasHealthBlockingIssue, Issue
<1> QED
    BY <1>1, Invariant, PTL

\* The cluster of an inspection is what ClusterTypeOK says, and no object's
\* resourceVersion is ahead of the revision the API server has reached.
THEOREM ClusterIsTyped == Spec => []ClusterInv
<1>1. IInv => ClusterInv
    BY DEF IInv
<1> QED
    BY <1>1, Invariant, PTL

-----------------------------------------------------------------------------
(* The collector implements module Inspection. *)

\* An inspection begins as its promise does.
LEMMA InitPromise == Init => Promise!Init
<1> SUFFICES ASSUME Init PROVE Promise!Init
    OBVIOUS
<1>1. graph.start = NoObject /\ status = "running" /\ disturbed = FALSE
    BY NewGraphIsGraph DEF Init
<1> QED
    BY <1>1 DEF Promise!Init, Outcome

\* Every step of an inspection is a step of its promise, or none.
LEMMA StepPromise == IInv /\ [Next]_vars => [Promise!Next]_(Promise!vars)
<1> SUFFICES ASSUME IInv, [Next]_vars PROVE [Promise!Next]_(Promise!vars)
    OBVIOUS
<1> USE DEF Promise!Next, Promise!vars
<1>1. CASE ReadFocus
    <2>1. status = "running" /\ graph.start = NoObject /\ UNCHANGED disturbed
        BY <1>1 DEF ReadFocus, Collecting
    <2>2. CASE status' = "failed" /\ UNCHANGED graph
        BY <2>1, <2>2 DEF Outcome, Promise!Fail
    <2>3. CASE FocusFound
        BY <2>1, <2>3, FirstRead DEF FocusFound, Outcome, Promise!Begin
    <2> QED
        BY <1>1, <2>2, <2>3 DEF ReadFocus, FocusFound
<1>2. CASE GatheringStep
    <2>1. Gathers
        BY <1>2, GatheringStepGathers DEF IInv
    <2>2. graph'.start = graph.start /\ UNCHANGED disturbed /\ status = "running"
        BY <2>1 DEF Gathers, Extends
    <2>3. CASE status' = "running"
        BY <2>2, <2>3 DEF Outcome
    <2>4. CASE status' = "failed"
        BY <2>2, <2>4 DEF Outcome, Promise!Fail
    <2> QED
        BY <2>1, <2>3, <2>4 DEF Gathers
<1>3. CASE FinishFocusCollection
    <2>1. /\ status = "running" /\ status' = "collected"
          /\ graph.start # NoObject /\ graph'.start = graph.start
          /\ UNCHANGED disturbed
        BY <1>3, FinishJudges DEF FinishFocusCollection, Collecting
    <2>2. Outcome = "pending"
        BY <2>1 DEF Outcome
    <2>3. CASE Suspended(graph')
        <3>1. Outcome' = "suspended"
            BY <2>1, <2>3 DEF Outcome
        <3> QED
            BY <2>1, <2>2, <3>1 DEF Promise!Suspend
    <2>4. CASE ~Suspended(graph')
        <3>1. Outcome' = "evaluated"
            BY <2>1, <2>4 DEF Outcome
        <3>2. graph'.stability = "stable"
            BY <1>3, <2>4, FinishJudges DEF Suspended, HasCollectionSourceIssue, Issue
        <3>3. IInv'
            BY <1>3, FinishIInv
        <3>4. ~disturbed
            BY <2>1, <3>2, <3>3 DEF IInv, Concluded
        <3> QED
            BY <2>1, <2>2, <3>1, <3>4 DEF Promise!Conclude
    <2> QED
        BY <2>3, <2>4
<1>4. CASE Environment
    <2>1. status = "running" /\ UNCHANGED <<focus, status, graph>>
        BY <1>4 DEF Environment
    <2>2. UNCHANGED Outcome /\ Outcome = "pending"
        BY <2>1 DEF Outcome
    <2>3. PICK r \in Volatile[focus] : disturbed' = (disturbed \/ (r = focus /\ graph.start # NoObject))
        BY <1>4 DEF Environment
    <2>4. CASE r = focus /\ graph.start # NoObject
        BY <2>1, <2>2, <2>3, <2>4 DEF Promise!Move
    <2>5. CASE ~(r = focus /\ graph.start # NoObject)
        BY <2>1, <2>2, <2>3, <2>5 DEF IInv
    <2> QED
        BY <2>4, <2>5
<1>5. CASE Expire
    BY <1>5 DEF Expire, Outcome
<1>6. CASE UNCHANGED vars
    BY <1>6 DEF vars, collectorVars, Outcome
<1> QED
    BY <1>1, <1>2, <1>3, <1>4, <1>5, <1>6, CollectorStepCases DEF Next

\* Rules are evaluated only if nobody wrote the focus since its first read:
\* the whole collector, over any cluster, implements module Inspection.
THEOREM CollectorKeepsPromise == Spec => PromiseKept
<1>1. IInv /\ [Next]_vars => [Promise!Next]_(Promise!vars)
    BY StepPromise
<1> QED
    BY <1>1, InitPromise, Invariant, PTL DEF Spec, PromiseKept, Promise!Spec

-----------------------------------------------------------------------------
(* Sequences of tasks. *)

\* A set of numbers that is not empty has a least one.
LEMMA LeastNumber ==
    ASSUME NEW T \in SUBSET Nat, T # {}
    PROVE  \E x \in T : \A y \in T : x <= y
<1> DEFINE R == OpToRel(<, Nat)
<1>1. IsWellFoundedOn(R, Nat)
    BY NatLessThanWellFounded
<1>2. \A x, y \in Nat : x < y => <<x, y>> \in R
    BY DEF OpToRel
<1> HIDE DEF R
<1>3. PICK x \in T : \A y \in T : <<y, x>> \notin R
    BY <1>1, WFMin
<1>4. \A y \in T : y \in Nat /\ x \in Nat /\ ~(y < x)
    BY <1>2, <1>3
<1>5. \A y \in T : x <= y
    BY <1>4
<1> QED
    BY <1>5

\* t puts the numbers of I in order.
Ascending(t, I) ==
    /\ t \in [1..Cardinality(I) -> I]
    /\ \A j, k \in 1..Cardinality(I) : j < k => t[j] < t[k]

\* Numbers can be put in order: otherwise there were a least bound of numbers that
\* cannot, and without the bound itself they could.
LEMMA AscendingExists ==
    ASSUME NEW n \in Nat
    PROVE  \A I \in SUBSET (1..n) : \E t : Ascending(t, I)
<1> DEFINE Bad == {m \in Nat : ~ \A I \in SUBSET (1..m) : \E t : Ascending(t, I)}
<1>1. SUFFICES ASSUME Bad # {} PROVE FALSE
    OBVIOUS
<1>2. PICK m \in Bad : \A k \in Bad : m <= k
    BY <1>1, LeastNumber
<1>3. PICK I \in SUBSET (1..m) : ~ \E t : Ascending(t, I)
    BY <1>2
<1>4. m \in Nat
    OBVIOUS
<1>5. IsFiniteSet(1..m)
    BY <1>4, FS_Interval
<1>6. IsFiniteSet(I) /\ Cardinality(I) \in Nat
    BY <1>5, FS_Subset, FS_CardinalityType
<1>7. I # {}
    <2>1. SUFFICES ASSUME I = {} PROVE FALSE
        OBVIOUS
    <2>2. Cardinality(I) = 0
        BY <2>1, FS_EmptySet
    <2>3. Ascending([j \in 1..0 |-> 0], I)
        BY <2>2 DEF Ascending
    <2> QED
        BY <2>3, <1>3
<1>8. m # 0
    <2>1. SUFFICES ASSUME m = 0 PROVE FALSE
        OBVIOUS
    <2>2. 1..m = {}
        BY <2>1
    <2> QED
        BY <2>2, <1>7
<1>9. m - 1 \in Nat /\ m - 1 \notin Bad
    <2>1. m - 1 \in Nat /\ ~(m <= m - 1)
        BY <1>4, <1>8
    <2> HIDE DEF Bad
    <2> QED
        BY <2>1, <1>2
<1>10. CASE m \notin I
    <2>1. I \in SUBSET (1..(m - 1))
        BY <1>10, <1>4
    <2> QED
        BY <2>1, <1>3, <1>9
<1>11. CASE m \in I
    <2> DEFINE J == I \ {m}
               c == Cardinality(I)
    <2>1. J \in SUBSET (1..(m - 1))
        BY <1>4
    <2>2. PICK t : Ascending(t, J)
        BY <2>1, <1>9
    <2> DEFINE u == [j \in 1..c |-> IF j = c THEN m ELSE t[j]]
    <2>3. Cardinality(J) = c - 1 /\ c \in Nat
        BY <1>6, <1>11, FS_RemoveElement
    <2>4. /\ \A j \in 1..(c - 1) : t[j] \in J
          /\ \A j, k \in 1..(c - 1) : j < k => t[j] < t[k]
        BY <2>2, <2>3 DEF Ascending
    <2>5. u \in [1..c -> I]
        BY <2>3, <2>4, <1>11
    <2>6. \A j \in 1..(c - 1) : t[j] \in 1..(m - 1)
        BY <2>1, <2>4
    <2>7. /\ \A j \in 1..(c - 1) : u[j] = t[j] /\ j \in 1..c
          /\ \A j \in 1..c : j = c => u[j] = m
          /\ \A j \in 1..c : j # c => j \in 1..(c - 1)
        BY <2>3
    <2> HIDE DEF u, c, J
    <2>8. ASSUME NEW j \in 1..c, NEW k \in 1..c, j < k
          PROVE  u[j] < u[k]
        <3>1. j \in 1..(c - 1)
            BY <2>8, <2>3
        <3>2. u[j] = t[j] /\ t[j] \in 1..(m - 1)
            BY <3>1, <2>6, <2>7
        <3>3. CASE k = c
            BY <3>2, <3>3, <1>4, <2>7
        <3>4. CASE k # c
            BY <3>1, <3>4, <2>4, <2>7, <2>8
        <3> QED
            BY <3>3, <3>4
    <2>9. Ascending(u, I)
        BY <2>5, <2>8 DEF Ascending, c
    <2> QED
        BY <2>9, <1>3
<1> QED
    BY <1>10, <1>11

\* What is kept of a sequence is a sequence of elements from the places kept.
LEMMA KeptIsSeq ==
    ASSUME NEW S, NEW s \in Seq(S), NEW I \in SUBSET DOMAIN s,
           NEW T, \A i \in I : s[i] \in T
    PROVE  Kept(s, I) \in Seq(T)
<1>1. Len(s) \in Nat /\ DOMAIN s = 1..Len(s)
    BY LenProperties
<1>2. IsFiniteSet(1..Len(s))
    BY <1>1, FS_Interval
<1>3. Cardinality(I) \in Nat
    BY <1>1, <1>2, FS_Subset, FS_CardinalityType
<1>4. \E t : Ascending(t, I)
    BY <1>1, AscendingExists
<1>5. InOrder(I) \in [1..Cardinality(I) -> I]
    BY <1>4 DEF Ascending, InOrder
<1>6. Kept(s, I) \in [1..Cardinality(I) -> T]
    BY <1>5 DEF Kept
<1> QED
    BY <1>3, <1>6

\* A function of a sequence's elements, taken for each of them, is a sequence.
LEMMA MappedIsSeq ==
    ASSUME NEW S, NEW s \in Seq(S), NEW T,
           NEW m, DOMAIN m = DOMAIN s, m = [i \in DOMAIN s |-> m[i]],
           \A i \in DOMAIN s : m[i] \in T
    PROVE  m \in Seq(T)
<1>1. Len(s) \in Nat /\ DOMAIN s = 1..Len(s)
    BY LenProperties
<1>2. m \in [1..Len(s) -> T]
    BY <1>1
<1> QED
    BY <1>1, <1>2

\* The elements of a finite set, one after another, are a sequence.
LEMMA SetToSeqIsSeq ==
    ASSUME NEW S, IsFiniteSet(S)
    PROVE  /\ SetToSeq(S) \in Seq(S)
           /\ SetToSeqs(S) \subseteq Seq(S)
<1>1. Cardinality(S) \in Nat /\ ExistsBijection(1..Cardinality(S), S)
    BY FS_CardinalityType
<1>2. \E f \in [1..Cardinality(S) -> S] : IsInjective(f)
    BY <1>1 DEF ExistsBijection, Bijection, Injection
<1>3. SetToSeq(S) \in [1..Cardinality(S) -> S]
    BY <1>2 DEF SetToSeq
<1>4. SetToSeqs(S) \subseteq [1..Cardinality(S) -> S]
    BY DEF SetToSeqs
<1> QED
    BY <1>1, <1>3, <1>4

\* What is looked up once, and reported under a source of its own.
Followed == {"Job", "StatefulSet", "CronJob", "ReplicaSet", "Deployment",
             "ConfigMap", "Secret", "PersistentVolumeClaim", "Node"}

\* The tasks that follow a reference of an object.
OfReference == {"exactOwner", "replicaSet", "deployment", "configMap", "secret", "claim", "node"}

GoodTask ==
    {t \in TaskType :
        /\ t.op \in OfObject => t.object \in Object
        /\ t.op \in OfReference => t.ref.kind \in Followed
        /\ t.op = "replicaSet" => t.ref.kind = "ReplicaSet"}

\* Those other than the two a collection has one of.
PlainTask == {t \in GoodTask : t.op \notin {"clusterInfo", "finish"}}

\* A task that starts from an object.
LEMMA ObjectTaskIsPlain ==
    ASSUME NEW op \in OfObject, NEW object \in Object, NEW ref \in Refs, NEW uid \in UID,
           op \in OfReference => ref.kind \in Followed,
           op = "replicaSet" => ref.kind = "ReplicaSet"
    PROVE  /\ Task(op, object, ref, uid, {}) \in PlainTask
           /\ \A edges \in SUBSET EdgeType : Task(op, object, ref, uid, edges) \in PlainTask
<1>1. op \in OfObject \cup OfFocus /\ op # "clusterInfo" /\ op # "finish"
    BY DEF OfObject
<1>2. ASSUME NEW edges \in SUBSET EdgeType
      PROVE  Task(op, object, ref, uid, edges) \in PlainTask
    <2>1. object \in Object \cup {NoObject}
        OBVIOUS
    <2>2. Task(op, object, ref, uid, edges) \in TaskType
        BY <1>1, <2>1 DEF Task, TaskType
    <2>3. /\ Task(op, object, ref, uid, edges).op = op
          /\ Task(op, object, ref, uid, edges).object = object
          /\ Task(op, object, ref, uid, edges).ref = ref
        BY DEF Task
    <2> QED
        BY <1>1, <2>2, <2>3 DEF GoodTask, PlainTask
<1>3. {} \in SUBSET EdgeType
    OBVIOUS
<1> QED
    BY <1>2, <1>3

\* A task about the focus alone.
LEMMA FocusTaskIsGood ==
    ASSUME NEW op \in OfFocus, NEW ref \in Refs, NEW uid \in UID,
           NEW edges \in SUBSET EdgeType
    PROVE  /\ Task(op, NoObject, ref, uid, edges) \in GoodTask
           /\ op \notin {"clusterInfo", "finish"} =>
                Task(op, NoObject, ref, uid, edges) \in PlainTask
<1>1. op \notin OfObject /\ op \notin OfReference /\ op # "replicaSet"
    BY DEF OfObject, OfReference, OfFocus
<1>2. Task(op, NoObject, ref, uid, edges) \in TaskType
    BY DEF Task, TaskType
<1>3. Task(op, NoObject, ref, uid, edges).op = op
    BY DEF Task
<1> QED
    BY <1>1, <1>2, <1>3 DEF GoodTask, PlainTask

\* A reference is to a resource without a uid.
LEMMA NoUIDType ==
    ASSUME NEW r \in Refs
    PROVE  NoUID(r) \in UID
BY DEF NoUID, UID

\* A step about the focus.
LEMMA StepIsGood ==
    ASSUME focus \in Refs, NEW op \in OfFocus
    PROVE  /\ Step(op) \in GoodTask
           /\ op \notin {"clusterInfo", "finish"} => Step(op) \in PlainTask
<1>1. NoUID(focus) \in UID /\ {} \in SUBSET EdgeType
    BY NoUIDType
<1> QED
    BY <1>1, FocusTaskIsGood DEF Step

\* The edges that end a sequence of tasks.
LEMMA LinkIsGood ==
    ASSUME focus \in Refs, NEW edges \in SUBSET EdgeType
    PROVE  <<Link(edges)>> \in Seq(PlainTask)
<1>1. NoUID(focus) \in UID /\ "link" \in OfFocus
    BY NoUIDType DEF OfFocus
<1>2. Task("link", NoObject, focus, NoUID(focus), edges) \in PlainTask
    BY <1>1, FocusTaskIsGood
<1>3. Link(edges) \in PlainTask
    BY <1>2 DEF Link
<1> QED
    BY <1>3

\* A task about an object.
LEMMA AboutIsGood ==
    ASSUME NEW object \in Object, NEW op \in {"jobPods", "service", "podEvents"}
    PROVE  About(op, object) \in PlainTask
<1>1. object.ref \in Refs /\ object.uid \in UID
    BY DEF Object
<1>2. op \in OfObject /\ op \notin OfReference /\ op # "replicaSet"
    BY DEF OfObject, OfReference
<1> QED
    BY <1>1, <1>2, ObjectTaskIsPlain DEF About

\* The owners a collection follows.
OwnerKinds == {"Job", "StatefulSet", "CronJob", "ReplicaSet", "Deployment"}

Follows == {o \in OwnerRef : o.ref.kind \in OwnerKinds}

\* Each of them is followed by a task of its own.
LEMMA OwnerTasksAreGood ==
    ASSUME NEW child \in Object, NEW owners \in Seq(Follows)
    PROVE  OwnerTasks(child, owners) \in Seq(PlainTask)
<1>1. ASSUME NEW o \in Follows
      PROVE  Owner(OwnerOp(o.ref.kind), child, o) \in PlainTask
    <2>1. o.ref \in Refs /\ o.uid \in UID /\ o.ref.kind \in Followed
        BY DEF Follows, OwnerKinds, OwnerRef, Followed
    <2>2. /\ OwnerOp(o.ref.kind) \in {"exactOwner", "replicaSet", "deployment"}
          /\ OwnerOp(o.ref.kind) = "replicaSet" => o.ref.kind = "ReplicaSet"
        BY DEF Follows, OwnerKinds, OwnerOp
    <2>3. OwnerOp(o.ref.kind) \in OfObject
        BY <2>2 DEF OfObject
    <2> QED
        BY <2>1, <2>2, <2>3, ObjectTaskIsPlain DEF Owner
<1>2. \A i \in DOMAIN owners : owners[i] \in Follows
    BY LenProperties
<1>3. \A i \in DOMAIN owners :
        OwnerTasks(child, owners)[i] = Owner(OwnerOp(owners[i].ref.kind), child, owners[i])
    BY DEF OwnerTasks
<1>4. \A i \in DOMAIN owners : OwnerTasks(child, owners)[i] \in PlainTask
    BY <1>1, <1>2, <1>3
<1> QED
    BY <1>4, MappedIsSeq DEF OwnerTasks

\* An object's ownerReferences are a sequence.
LEMMA KeptOwners ==
    ASSUME NEW object \in Object, NEW I \in SUBSET DOMAIN object.owners,
           \A i \in I : object.owners[i].ref.kind \in OwnerKinds
    PROVE  OwnerTasks(object, Kept(object.owners, I)) \in Seq(PlainTask)
<1>1. object.owners \in Seq(OwnerRef)
    BY DEF Object
<1>2. \A i \in I : object.owners[i] \in OwnerRef
    BY <1>1, LenProperties
<1>3. \A i \in I : object.owners[i] \in Follows
    BY <1>2 DEF Follows
<1>4. Kept(object.owners, I) \in Seq(Follows)
    BY <1>1, <1>3, KeptIsSeq
<1> QED
    BY <1>4, OwnerTasksAreGood

\* addJob follows exact CronJob controllers.
LEMMA JobTasksAreGood ==
    ASSUME NEW job \in Object
    PROVE  JobTasks(job) \in Seq(PlainTask)
BY KeptOwners DEF JobTasks, FollowFromJob, OwnerKinds

\* A ReplicaSet's Deployments are followed.
LEMMA ReplicaSetTasksAreGood ==
    ASSUME NEW rs \in Object
    PROVE  ReplicaSetTasks(rs) \in Seq(PlainTask)
BY KeptOwners DEF ReplicaSetTasks, FollowFromReplicaSet, OwnerKinds

\* A reference of a Pod.
LEMMA ReferIsPlain ==
    ASSUME NEW pod \in Object, NEW ref \in Refs, ref.kind \in Followed,
           NEW op \in {"configMap", "secret", "claim", "node"}
    PROVE  Refer(op, pod, ref) \in PlainTask
<1>1. NoUID(ref) \in UID /\ op \in OfObject /\ op # "replicaSet"
    BY NoUIDType DEF OfObject
<1> QED
    BY <1>1, ObjectTaskIsPlain DEF Refer

\* A task of one kind for each reference of a sequence.
LEMMA ReferEachIsGood ==
    ASSUME NEW pod \in Object, NEW S \in SUBSET Refs, NEW refs \in Seq(S),
           \A r \in S : r.kind \in Followed, NEW op \in {"claim", "node"}
    PROVE  [i \in DOMAIN refs |-> Refer(op, pod, refs[i])] \in Seq(PlainTask)
<1> DEFINE tasks == [i \in DOMAIN refs |-> Refer(op, pod, refs[i])]
<1>1. \A r \in S : Refer(op, pod, r) \in PlainTask
    BY ReferIsPlain
<1>2. \A i \in DOMAIN refs : refs[i] \in S
    BY LenProperties
<1>3. \A i \in DOMAIN refs : tasks[i] \in PlainTask
    BY <1>1, <1>2
<1>4. DOMAIN tasks = DOMAIN refs /\ tasks = [i \in DOMAIN refs |-> tasks[i]]
    OBVIOUS
<1> HIDE DEF tasks
<1>5. tasks \in Seq(PlainTask)
    BY <1>3, <1>4, MappedIsSeq
<1> QED
    BY <1>5 DEF tasks

\* addPod's calls.
LEMMA PodTasksAreGood ==
    ASSUME NEW pod \in Object
    PROVE  PodTasks(pod) \in Seq(PlainTask)
<1> DEFINE shape == Shape[pod.ref]
           required == Kept(shape.config, {i \in DOMAIN shape.config : ~shape.config[i].optional})
           owners == Kept(pod.owners, {i \in DOMAIN pod.owners : FollowFromPod(pod.owners[i])})
           config == [i \in DOMAIN required |->
              Refer(IF required[i].ref.kind = "Secret" THEN "secret" ELSE "configMap",
                    pod, required[i].ref)]
           claims == [i \in DOMAIN shape.claims |-> Refer("claim", pod, shape.claims[i])]
           nodes == [i \in DOMAIN shape.node |-> Refer("node", pod, shape.node[i])]
<1>1. /\ shape.config \in Seq(ConfigRef)
      /\ shape.claims \in Seq(OfKind(Refs, "PersistentVolumeClaim"))
      /\ shape.node \in Seq(OfKind(Refs, "Node"))
    <2>1. pod.ref \in Refs
        BY DEF Object
    <2> QED
        BY <2>1, CollectorAssumption DEF ShapeFields
<1>2. OwnerTasks(pod, owners) \in Seq(PlainTask)
    BY KeptOwners DEF FollowFromPod, OwnerKinds
<1>3. config \in Seq(PlainTask)
    <2>1. \A i \in DOMAIN shape.config : shape.config[i] \in ConfigRef
        BY <1>1, LenProperties
    <2>2. required \in Seq(ConfigRef)
        BY <1>1, <2>1, KeptIsSeq
    <2> HIDE DEF required
    <2>3. \A i \in DOMAIN required : required[i] \in ConfigRef
        BY <2>2, LenProperties
    <2>4. \A i \in DOMAIN required :
            required[i].ref \in Refs /\ required[i].ref.kind \in Followed
        BY <2>3 DEF ConfigRef, OfKind, Followed
    <2>5. \A i \in DOMAIN required : config[i] \in PlainTask
        BY <2>4, ReferIsPlain
    <2>6. DOMAIN config = DOMAIN required /\ config = [i \in DOMAIN required |-> config[i]]
        OBVIOUS
    <2> HIDE DEF config
    <2> QED
        BY <2>2, <2>5, <2>6, MappedIsSeq
<1>4. claims \in Seq(PlainTask)
    BY <1>1, ReferEachIsGood DEF OfKind, Followed
<1>5. nodes \in Seq(PlainTask)
    BY <1>1, ReferEachIsGood DEF OfKind, Followed
<1>6. PodTasks(pod) = OwnerTasks(pod, owners) \o config \o claims \o nodes
    BY DEF PodTasks
<1> HIDE DEF owners, config, claims, nodes
<1> QED
    BY <1>2, <1>3, <1>4, <1>5, <1>6, ConcatProperties

\* addPod for each of the Pods of a list.
LEMMA AddPodTasksAreGood ==
    ASSUME NEW S \in SUBSET Object, NEW pods \in Seq(S), NEW edgesTo \in [S -> SUBSET EdgeType]
    PROVE  AddPodTasks(pods, edgesTo) \in Seq(PlainTask)
<1>1. \A i \in DOMAIN pods : pods[i] \in S
    BY LenProperties
<1>2. ASSUME NEW pod \in S
      PROVE  Task("pod", pod, pod.ref, pod.uid, edgesTo[pod]) \in PlainTask
    <2>1. pod \in Object /\ pod.ref \in Refs /\ pod.uid \in UID
        BY DEF Object
    <2>2. edgesTo[pod] \in SUBSET EdgeType
        OBVIOUS
    <2>3. "pod" \notin OfReference
        BY DEF OfReference
    <2> QED
        BY <2>1, <2>2, <2>3, ObjectTaskIsPlain DEF OfObject
<1>3. /\ DOMAIN AddPodTasks(pods, edgesTo) = DOMAIN pods
      /\ \A i \in DOMAIN pods : AddPodTasks(pods, edgesTo)[i] =
            Task("pod", pods[i], pods[i].ref, pods[i].uid, edgesTo[pods[i]])
      /\ AddPodTasks(pods, edgesTo) = [i \in DOMAIN pods |-> AddPodTasks(pods, edgesTo)[i]]
    BY DEF AddPodTasks
<1>4. \A i \in DOMAIN pods : AddPodTasks(pods, edgesTo)[i] \in PlainTask
    BY <1>1, <1>2, <1>3
<1> QED
    BY <1>3, <1>4, MappedIsSeq

\* A task about each object of a sequence.
LEMMA AboutEachIsGood ==
    ASSUME NEW s \in Seq(Object), NEW op \in {"service", "podEvents"}
    PROVE  [i \in DOMAIN s |-> About(op, s[i])] \in Seq(PlainTask)
<1> DEFINE m == [i \in DOMAIN s |-> About(op, s[i])]
<1>1. \A i \in DOMAIN s : s[i] \in Object
    BY LenProperties
<1>2. \A i \in DOMAIN s : m[i] \in PlainTask
    BY <1>1, AboutIsGood
<1>3. DOMAIN m = DOMAIN s /\ m = [i \in DOMAIN s |-> m[i]]
    OBVIOUS
<1> HIDE DEF m
<1>4. m \in Seq(PlainTask)
    BY <1>2, <1>3, MappedIsSeq
<1> QED
    BY <1>4 DEF m


-----------------------------------------------------------------------------
(* What a graph says is what was read. *)

NodeOf(r) == [object : {o \in Object : o.ref = r} \cup {NoObject}, unknown : BOOLEAN]

\* Nodes and edges are of this instance's resources; a Pod's node holds it.
Typed(g) ==
    /\ IsGraph(g)
    /\ DOMAIN g.nodes \subseteq Refs
    /\ \A r \in DOMAIN g.nodes : g.nodes[r] \in NodeOf(r)
    /\ \A r \in DOMAIN g.nodes : r.kind = "Pod" => g.nodes[r].object # NoObject
    /\ g.edges \subseteq EdgeType

\* absent does not exist and lost could not be read: nothing else is missing, and
\* no gap goes without its issue.
Honest(g, absent, lost) ==
    /\ \A r \in DOMAIN g.nodes : Missing(g.nodes[r]) => r \in absent
    /\ \A r \in DOMAIN g.nodes :
        ExistenceUnknown(g.nodes[r]) => HasCollectionIssue(g, SourceOf(r.kind), r)
    /\ \A f \in lost : HasCollectionIssue(g, f.source, f.resource)

\* Issues that keep rules from being judged affect health.
Blocks(g) ==
    \A i \in g.issues :
        i.source \in {"kubernetes-version", "temporal-integrity"} => i.affectsHealth

Sound(g, absent, lost) == Typed(g) /\ Honest(g, absent, lost) /\ Blocks(g)

\* A graph without nodes is sound.
LEMMA NewGraphIsSound ==
    ASSUME NEW f
    PROVE  Sound(NewGraph(f), {}, {})
BY NewGraphIsGraph DEF NewGraph, Sound, Typed, Honest, Blocks

\* So is one whose first read of the focus is remembered.
LEMMA BeginIsSound ==
    ASSUME NEW g, NEW A, NEW L, Sound(g, A, L), NEW object
    PROVE  Sound(BeginCollection(g, object), A, L)
<1>1. IsGraph(g)
    BY DEF Sound, Typed
<1>2. /\ BeginCollection(g, object).nodes = g.nodes
      /\ BeginCollection(g, object).edges = g.edges
      /\ BeginCollection(g, object).issues = g.issues
      /\ IsGraph(BeginCollection(g, object))
    BY <1>1 DEF BeginCollection, IsGraph, GraphFields
<1> QED
    BY <1>2 DEF Sound, Typed, Honest, Blocks, HasCollectionIssue

\* More that does not exist, and fewer gaps, are no harm.
LEMMA SoundIsMonotone ==
    ASSUME NEW g, NEW A, NEW L, Sound(g, A, L), NEW B, NEW K, A \subseteq B, K \subseteq L
    PROVE  Sound(g, B, K)
BY DEF Sound, Honest

\* An object is put under its own name (Graph.AddNode).
LEMMA AddNodeIsSound ==
    ASSUME NEW g, NEW A, NEW L, Sound(g, A, L),
           NEW r \in Refs, NEW o \in Object, o.ref = r
    PROVE  Sound(AddNode(g, r, o), A, L)
<1> DEFINE node == [object |-> o, unknown |-> FALSE]
           h == PutNode(g, r, node)
<1>1. CASE ObjectOf(g, r) # NoObject
    BY <1>1 DEF AddNode
<1>2. CASE ObjectOf(g, r) = NoObject
    <2>1. AddNode(g, r, o) = h
        BY <1>2 DEF AddNode
    <2>2. o # NoObject
        BY NoObjectAssumption
    <2>3. node \in NodeOf(r) /\ node.object # NoObject
        BY <2>2 DEF NodeOf
    <2>4. /\ IsGraph(h) /\ h.edges = g.edges /\ h.issues = g.issues
          /\ DOMAIN h.nodes = DOMAIN g.nodes \cup {r}
          /\ h.nodes[r] = node
          /\ \A x \in DOMAIN g.nodes : x # r => h.nodes[x] = g.nodes[x]
        BY DEF PutNode, IsGraph, GraphFields, Sound, Typed
    <2> HIDE DEF h, node
    <2>5. Typed(h)
        BY <2>3, <2>4 DEF Sound, Typed
    <2>6. Honest(h, A, L)
        BY <2>3, <2>4 DEF Sound, Honest, Missing, ExistenceUnknown, HasCollectionIssue
    <2>7. Blocks(h)
        BY <2>4 DEF Sound, Blocks
    <2> QED
        BY <2>1, <2>5, <2>6, <2>7 DEF Sound
<1> QED
    BY <1>1, <1>2

\* The definite answer that there is none (Graph.AddNode).
LEMMA AddMissingIsSound ==
    ASSUME NEW g, NEW A, NEW L, Sound(g, A, L),
           NEW r \in Refs, r.kind # "Pod", r \in A
    PROVE  Sound(AddNode(g, r, NoObject), A, L)
<1> DEFINE node == [object |-> NoObject, unknown |-> FALSE]
           h == PutNode(g, r, node)
<1>1. CASE ObjectOf(g, r) # NoObject
    BY <1>1 DEF AddNode
<1>2. CASE ObjectOf(g, r) = NoObject
    <2>1. AddNode(g, r, NoObject) = h
        BY <1>2 DEF AddNode
    <2>3. node \in NodeOf(r) /\ node.unknown = FALSE
        BY DEF NodeOf
    <2>4. /\ IsGraph(h) /\ h.edges = g.edges /\ h.issues = g.issues
          /\ DOMAIN h.nodes = DOMAIN g.nodes \cup {r}
          /\ h.nodes[r] = node
          /\ \A x \in DOMAIN g.nodes : x # r => h.nodes[x] = g.nodes[x]
        BY DEF PutNode, IsGraph, GraphFields, Sound, Typed
    <2> HIDE DEF h, node
    <2>5. Typed(h)
        BY <2>3, <2>4 DEF Sound, Typed
    <2>6. Honest(h, A, L)
        BY <2>3, <2>4 DEF Sound, Honest, Missing, ExistenceUnknown, HasCollectionIssue
    <2>7. Blocks(h)
        BY <2>4 DEF Sound, Blocks
    <2> QED
        BY <2>1, <2>5, <2>6, <2>7 DEF Sound
<1> QED
    BY <1>1, <1>2

\* An issue accounts for what could not be read (Graph.AddCollectionIssue).
LEMMA AddIssueIsSound ==
    ASSUME NEW g, NEW A, NEW L, Sound(g, A, L), NEW source, NEW r, NEW affects,
           source \in {"kubernetes-version", "temporal-integrity"} => affects
    PROVE  /\ Sound(AddIssue(g, source, r, affects), A, L)
           /\ Sound(AddIssue(g, source, r, affects), A, L \cup {Unread(source, r)})
           /\ AddIssue(g, source, r, affects).nodes = g.nodes
           /\ HasCollectionIssue(AddIssue(g, source, r, affects), source, r)
<1> DEFINE i == Issue(source, r, affects)
           h == AddCollectionIssue(g, i)
<1>1. i.source = source /\ i.resource = r /\ i.affectsHealth = affects
    BY DEF Issue
<1>2. /\ IsGraph(h) /\ h.nodes = g.nodes /\ h.edges = g.edges
      /\ h.issues = g.issues \cup {i}
    BY DEF AddCollectionIssue, IsGraph, GraphFields, Sound, Typed
<1>3. AddIssue(g, source, r, affects) = h
    BY DEF AddIssue
<1> HIDE DEF h, i
<1>4. Typed(h) /\ Blocks(h)
    BY <1>1, <1>2 DEF Sound, Typed, Blocks
<1>5. HasCollectionIssue(h, source, r)
    BY <1>1, <1>2 DEF HasCollectionIssue
<1>6. \A s, x : HasCollectionIssue(g, s, x) => HasCollectionIssue(h, s, x)
    BY <1>2 DEF HasCollectionIssue
<1>7. Unread(source, r).source = source /\ Unread(source, r).resource = r
    BY DEF Unread
<1>8. Honest(h, A, L)
    BY <1>2, <1>6 DEF Sound, Honest
<1>9. Honest(h, A, L \cup {Unread(source, r)})
    BY <1>5, <1>7, <1>8 DEF Honest
<1> QED
    BY <1>2, <1>3, <1>4, <1>5, <1>8, <1>9 DEF Sound

\* A reference whose target could not be established is unknown, and says so.
LEMMA UnresolvedIsSound ==
    ASSUME NEW g, NEW A, NEW L, Sound(g, A, L), NEW r \in Refs, r.kind \in Followed
    PROVE  /\ Sound(Unresolved(g, r), A, L)
           /\ Sound(Unresolved(g, r), A, L \cup {Unread(SourceOf(r.kind), r)})
<1> DEFINE node == [object |-> NoObject, unknown |-> TRUE]
           i == Issue(SourceOf(r.kind), r, FALSE)
           h == Unresolved(g, r)
<1>1. SourceOf(r.kind) \notin {"kubernetes-version", "temporal-integrity"} /\ r.kind # "Pod"
    BY DEF Followed, SourceOf
<1>2. i.source = SourceOf(r.kind) /\ i.resource = r
    BY DEF Issue
<1>3. /\ IsGraph(h) /\ h.edges = g.edges /\ h.issues = g.issues \cup {i}
      /\ DOMAIN h.nodes = DOMAIN g.nodes \cup {r}
      /\ r \notin DOMAIN g.nodes => h.nodes[r] = node
      /\ \A x \in DOMAIN g.nodes : h.nodes[x] = g.nodes[x]
    BY DEF Unresolved, AddUnknownNode, PutNode, InGraph, AddIssue, AddCollectionIssue,
        IsGraph, GraphFields, Sound, Typed
<1>4. node \in NodeOf(r) /\ ~Missing(node)
    BY DEF NodeOf, Missing
<1>5. /\ Unread(SourceOf(r.kind), r).source = SourceOf(r.kind)
      /\ Unread(SourceOf(r.kind), r).resource = r
    BY DEF Unread
<1> HIDE DEF h, i, node
<1>6. Typed(h)
    BY <1>1, <1>3, <1>4 DEF Sound, Typed
<1>7. Blocks(h)
    BY <1>1, <1>2, <1>3 DEF Sound, Blocks
<1>8. HasCollectionIssue(h, SourceOf(r.kind), r)
    BY <1>2, <1>3 DEF HasCollectionIssue
<1>9. \A s, x : HasCollectionIssue(g, s, x) => HasCollectionIssue(h, s, x)
    BY <1>3 DEF HasCollectionIssue
<1>10. \A x \in DOMAIN h.nodes : Missing(h.nodes[x]) => x \in A
    BY <1>3, <1>4 DEF Sound, Honest
<1>11. \A x \in DOMAIN h.nodes :
        ExistenceUnknown(h.nodes[x]) => HasCollectionIssue(h, SourceOf(x.kind), x)
    BY <1>3, <1>8, <1>9 DEF Sound, Honest
<1>12. \A f \in L : HasCollectionIssue(h, f.source, f.resource)
    BY <1>9 DEF Sound, Honest
<1>13. Honest(h, A, L \cup {Unread(SourceOf(r.kind), r)}) /\ Honest(h, A, L)
    BY <1>5, <1>8, <1>10, <1>11, <1>12 DEF Honest
<1> QED
    BY <1>6, <1>7, <1>13 DEF Sound, h

\* The objects of a list are added under their own names (Graph.AddNode in a loop).
LEMMA AddNodesIsSound ==
    ASSUME NEW g, NEW A, NEW L, Sound(g, A, L), NEW objects \in SUBSET Object
    PROVE  Sound(AddNodes(g, objects), A, L)
<1> DEFINE Named(r) == {o \in objects : o.ref = r}
           Added(r) == [object |-> CHOOSE o \in Named(r) : TRUE, unknown |-> FALSE]
           D == DOMAIN g.nodes \cup {o.ref : o \in objects}
           h == AddNodes(g, objects)
<1>1. /\ IsGraph(h) /\ h.edges = g.edges /\ h.issues = g.issues
      /\ DOMAIN h.nodes = D
      /\ \A r \in D : h.nodes[r] = IF ObjectOf(g, r) = NoObject /\ Named(r) # {}
                                   THEN Added(r) ELSE g.nodes[r]
    BY DEF AddNodes, IsGraph, GraphFields, Sound, Typed
<1>2. D \subseteq Refs
    BY DEF Sound, Typed, Object
<1>3. ASSUME NEW r \in D, Named(r) # {}
      PROVE  /\ Added(r) \in NodeOf(r)
             /\ Added(r).object # NoObject
    <2>1. (CHOOSE o \in Named(r) : TRUE) \in Named(r)
        BY <1>3
    <2>2. PICK o \in Object : o = (CHOOSE x \in Named(r) : TRUE) /\ o.ref = r
        BY <2>1
    <2>3. o # NoObject
        BY NoObjectAssumption
    <2>4. [object |-> o, unknown |-> FALSE] \in NodeOf(r)
        BY <2>2 DEF NodeOf
    <2> QED
        BY <2>2, <2>3, <2>4
<1>4. ASSUME NEW r \in D
      PROVE  \/ h.nodes[r] \in NodeOf(r) /\ h.nodes[r].object # NoObject
             \/ r \in DOMAIN g.nodes /\ h.nodes[r] = g.nodes[r]
    <2>1. CASE Named(r) = {}
        <3>1. r \in DOMAIN g.nodes
            BY <2>1
        <3> QED
            BY <1>1, <2>1, <3>1
    <2>2. CASE Named(r) # {}
        <3>1. CASE ObjectOf(g, r) = NoObject
            <4>1. h.nodes[r] = Added(r)
                BY <1>1, <2>2, <3>1
            <4> QED
                BY <1>3, <2>2, <4>1
        <3>2. CASE ObjectOf(g, r) # NoObject
            <4>1. r \in DOMAIN g.nodes
                BY <3>2 DEF ObjectOf, InGraph
            <4> QED
                BY <1>1, <3>2, <4>1
        <3> QED
            BY <3>1, <3>2
    <2> QED
        BY <2>1, <2>2
<1> HIDE DEF h, D, Named, Added
<1>5. Typed(h)
    BY <1>1, <1>2, <1>4 DEF Sound, Typed
<1>6. Honest(h, A, L)
    BY <1>1, <1>4 DEF Sound, Honest, Missing, ExistenceUnknown, HasCollectionIssue
<1>7. Blocks(h)
    BY <1>1 DEF Sound, Blocks
<1> QED
    BY <1>5, <1>6, <1>7 DEF Sound, h

\* Edges, Events and the version say nothing of what exists.
LEMMA OthersAreSound ==
    ASSUME NEW g, NEW A, NEW L, Sound(g, A, L)
    PROVE  /\ \A edges \in SUBSET EdgeType : Sound(AddEdges(g, edges), A, L)
           /\ \A events : Sound(AddEvents(g, events), A, L)
           /\ Sound(SetKubernetesVersion(g), A, L)
<1>1. ASSUME NEW h, IsGraph(h), h.nodes = g.nodes, h.issues = g.issues, h.edges \subseteq EdgeType
      PROVE  Sound(h, A, L)
    BY <1>1 DEF Sound, Typed, Honest, Blocks, HasCollectionIssue
<1>2. IsGraph(g) /\ g.edges \subseteq EdgeType
    BY DEF Sound, Typed
<1>3. ASSUME NEW edges \in SUBSET EdgeType
      PROVE  Sound(AddEdges(g, edges), A, L)
    <2>1. /\ IsGraph(AddEdges(g, edges))
          /\ AddEdges(g, edges).nodes = g.nodes
          /\ AddEdges(g, edges).issues = g.issues
          /\ AddEdges(g, edges).edges = g.edges \cup edges
        BY <1>2 DEF AddEdges, IsGraph, GraphFields
    <2> QED
        BY <1>1, <1>2, <2>1
<1>4. ASSUME NEW events
      PROVE  Sound(AddEvents(g, events), A, L)
    <2>1. /\ IsGraph(AddEvents(g, events))
          /\ AddEvents(g, events).nodes = g.nodes
          /\ AddEvents(g, events).issues = g.issues
          /\ AddEvents(g, events).edges = g.edges
        BY <1>2 DEF AddEvents, IsGraph, GraphFields
    <2> QED
        BY <1>1, <1>2, <2>1
<1>5. Sound(SetKubernetesVersion(g), A, L)
    <2>1. /\ IsGraph(SetKubernetesVersion(g))
          /\ SetKubernetesVersion(g).nodes = g.nodes
          /\ SetKubernetesVersion(g).issues = g.issues
          /\ SetKubernetesVersion(g).edges = g.edges
        BY <1>2 DEF SetKubernetesVersion, IsGraph, GraphFields
    <2> QED
        BY <1>1, <1>2, <2>1
<1> QED
    BY <1>3, <1>4, <1>5

\* An edge between resources of this instance.
LEMMA EdgeIsTyped ==
    ASSUME NEW from \in Refs, NEW to \in Refs, NEW type \in EdgeTypes
    PROVE  Edge(from, to, type) \in EdgeType /\ {Edge(from, to, type)} \in SUBSET EdgeType
BY DEF Edge, EdgeType

\* What a list answers: finitely many objects, each one the cluster's under its name.
LEMMA LiveIsFinite ==
    ASSUME ClusterInv, NEW refs \in SUBSET Refs
    PROVE  /\ IsFiniteSet(Live(refs))
           /\ Live(refs) \subseteq Object
           /\ \A o \in Live(refs) : o.ref \in refs /\ o = cluster[o.ref]
<1> DEFINE S == refs \cap Present
           f == [r \in S |-> cluster[r]]
<1>1. IsFiniteSet(S)
    BY CollectorAssumption, FS_Subset
<1>2. \A r \in S : cluster[r] \in Object /\ cluster[r].ref = r /\ r \in refs
    BY DEF Present, ClusterInv, ClusterTypeOK
<1>3. f \in Surjection(S, Live(refs))
    BY Zenon DEF Surjection, Live
<1> HIDE DEF f
<1>4. IsFiniteSet(Live(refs))
    BY <1>1, <1>3, FS_Surjection
<1> QED
    BY <1>2, <1>4 DEF Live

\* The EndpointSlices of a Service, or the issue that they could not be listed.
LEMMA WithSlicesIsSound ==
    ASSUME ClusterInv, NEW g, NEW A, NEW L, Sound(g, A, L), NEW svc \in Refs, NEW ok \in BOOLEAN
    PROVE  Sound(WithSlices(g, svc, ok), A, IF ok THEN L ELSE L \cup {Unread("endpointslices", svc)})
<1> DEFINE slices == Live(Shape[svc].routes)
           edges == {Edge(svc, s.ref, "routes-to") : s \in slices}
<1>1. Shape[svc].routes \subseteq Refs
    BY CollectorAssumption DEF ShapeFields, OfKind
<1>2. slices \in SUBSET Object
    BY <1>1, LiveIsFinite
<1>3. \A s \in slices : s.ref \in Refs
    BY <1>2 DEF Object
<1>4. edges \in SUBSET EdgeType
    BY <1>3, EdgeIsTyped DEF EdgeTypes
<1> HIDE DEF slices, edges
<1>5. CASE ok
    <2>1. Sound(AddNodes(g, slices), A, L)
        BY <1>2, AddNodesIsSound
    <2>2. Sound(AddEdges(AddNodes(g, slices), edges), A, L)
        BY <1>4, <2>1, OthersAreSound
    <2>3. WithSlices(g, svc, ok) = AddEdges(AddNodes(g, slices), edges)
        BY <1>5 DEF WithSlices, slices, edges
    <2> QED
        BY <1>5, <2>2, <2>3
<1>6. CASE ~ok
    <2>1. WithSlices(g, svc, ok) = AddIssue(g, "endpointslices", svc, svc = focus)
        BY <1>6 DEF WithSlices
    <2> QED
        BY <1>6, <2>1, AddIssueIsSound
<1> QED
    BY <1>5, <1>6

\* The HPAs of the Deployments collected, and the issues of those that lag behind.
LEMMA WithAutoscalersIsSound ==
    ASSUME NEW g, NEW A, NEW L, Sound(g, A, L), NEW hpas \in SUBSET Object
    PROVE  Sound(WithAutoscalers(g, hpas), A, L)
<1> DEFINE edges == UNION {{Edge(h.ref, d, "scales") : d \in Shape[h.ref].target} : h \in hpas}
           k == AddEdges(AddNodes(g, hpas), edges)
           new == {Issue("horizontalpodautoscaler", h.ref, FALSE) : h \in {x \in hpas : Lagging(x)}}
           w == WithAutoscalers(g, hpas)
<1>1. \A h \in hpas : h.ref \in Refs /\ Shape[h.ref].target \subseteq Refs
    BY CollectorAssumption DEF Object, ShapeFields, OfKind
<1>2. edges \in SUBSET EdgeType
    BY <1>1, EdgeIsTyped DEF EdgeTypes
<1>3. \A i \in new : i.source = "horizontalpodautoscaler"
    BY DEF Issue
<1>4. w = [k EXCEPT !.issues = k.issues \cup new]
    BY DEF WithAutoscalers
<1> HIDE DEF edges, new, w
<1>5. Sound(k, A, L)
    BY <1>2, AddNodesIsSound, OthersAreSound
<1> HIDE DEF k
<1>6. /\ IsGraph(w) /\ w.nodes = k.nodes /\ w.edges = k.edges
      /\ w.issues = k.issues \cup new
    BY <1>4, <1>5 DEF Sound, Typed, IsGraph, GraphFields
<1>7. Typed(w)
    BY <1>5, <1>6 DEF Sound, Typed
<1>8. Honest(w, A, L)
    BY <1>5, <1>6 DEF Sound, Honest, HasCollectionIssue
<1>9. Blocks(w)
    BY <1>3, <1>5, <1>6 DEF Sound, Blocks
<1> QED
    BY <1>7, <1>8, <1>9 DEF Sound, w

-----------------------------------------------------------------------------
(* Every step of a collection takes a good task and leaves good tasks, and  *)
(* a sound graph.                                                           *)

\* A collection under way.
Working ==
    /\ ClusterInv
    /\ focus \in Refs
    /\ work \in Seq(GoodTask)
    /\ notFound \subseteq Refs
    /\ Sound(graph, notFound, failed)

\* What every step between the two reads comes to, but that for the version.
Advances ==
    /\ UNCHANGED status
    /\ Head(work).op \notin {"clusterInfo", "finish"}
    /\ \E tasks \in Seq(PlainTask) : work' = tasks \o Tail(work)
    /\ notFound' \subseteq Refs
    /\ Sound(graph', notFound', failed')

\* The task a step takes.
LEMMA HeadIsGood ==
    ASSUME Working, NEW op, Doing(op)
    PROVE  Head(work) \in GoodTask /\ Head(work).op = op
BY DEF Working, Doing

\* The object a task starts from, and the resource it refers to.
LEMMA HeadStartsFrom ==
    ASSUME Working, NEW op \in OfObject, Doing(op)
    PROVE  LET t == Head(work)
           IN  /\ t.object \in Object /\ t.object.ref \in Refs
               /\ t.ref \in Refs
               /\ t.edges \in SUBSET EdgeType
               /\ op \in OfReference => t.ref.kind \in Followed
               /\ op = "replicaSet" => t.ref.kind = "ReplicaSet"
<1>1. PICK t \in GoodTask : t = Head(work) /\ t.op = op
    BY HeadIsGood
<1>2. t.object \in Object /\ t.ref \in Refs /\ t.edges \in SUBSET EdgeType
    BY <1>1 DEF GoodTask, TaskType
<1>3. t.object.ref \in Refs
    BY <1>2 DEF Object
<1> QED
    BY <1>1, <1>2, <1>3 DEF GoodTask

\* A step that goes on with plain tasks and a sound graph advances.
LEMMA ContinueAdvances ==
    ASSUME NEW op, Doing(op), op \notin {"clusterInfo", "finish"},
           NEW tasks \in Seq(PlainTask), Continue(tasks),
           notFound' \subseteq Refs, Sound(graph', notFound', failed')
    PROVE  Advances
BY DEF Doing, Continue, Advances

\* So does one that goes on with nothing.
LEMMA RestAdvances ==
    ASSUME NEW op, Doing(op), op \notin {"clusterInfo", "finish"}, Continue(<<>>),
           notFound' \subseteq Refs, Sound(graph', notFound', failed')
    PROVE  Advances
<1>1. <<>> \in Seq(PlainTask)
    OBVIOUS
<1> QED
    BY <1>1, ContinueAdvances

\* What a GET answers, and what is known of a resource after it.
LEMMA GetAnswers ==
    ASSUME Working, NEW r \in Refs, NEW source, NEW ok \in BOOLEAN, Get(source, r, ok)
    PROVE  /\ notFound \subseteq notFound' /\ notFound' \subseteq Refs
           /\ failed' = IF ok THEN failed ELSE failed \cup {Unread(source, r)}
           /\ Got(r, ok) # NoObject => ok /\ Got(r, ok) \in Object /\ Got(r, ok).ref = r
           /\ Got(r, ok) = NoObject /\ ok => r \in notFound'
           /\ Sound(graph, notFound', failed)
<1>1. /\ notFound' = IF ok /\ cluster[r] = NoObject THEN notFound \cup {r} ELSE notFound
      /\ failed' = IF ok THEN failed ELSE failed \cup {Unread(source, r)}
    BY DEF Get, Call
<1>2. cluster[r] # NoObject => cluster[r] \in Object /\ cluster[r].ref = r
    BY DEF Working, ClusterInv, ClusterTypeOK
<1>3. notFound \subseteq notFound'
    BY <1>1
<1>4. Sound(graph, notFound', failed)
    BY <1>3, SoundIsMonotone DEF Working
<1> QED
    BY <1>1, <1>2, <1>3, <1>4 DEF Got, Working

\* What a LIST leaves known.
LEMMA ListAnswers ==
    ASSUME Working, NEW r, NEW source, NEW ok \in BOOLEAN, List(source, r, ok)
    PROVE  /\ notFound' = notFound /\ notFound' \subseteq Refs
           /\ failed' = IF ok THEN failed ELSE failed \cup {Unread(source, r)}
BY DEF List, Call, Working

\* What a list is reported under when it fails.
Lists == {"pod", "replicaset", "job", "service", "horizontalpodautoscaler", "events"}

\* A list that fails is a gap with an issue.
LEMMA GapIsSound ==
    ASSUME Working, NEW source \in Lists, NEW r, NEW affects
    PROVE  /\ Sound(AddIssue(graph, source, r, affects), notFound, failed)
           /\ Sound(AddIssue(graph, source, r, affects), notFound, failed \cup {Unread(source, r)})
<1>1. source \notin {"kubernetes-version", "temporal-integrity"}
    BY DEF Lists
<1> QED
    BY <1>1, AddIssueIsSound DEF Working

\* The object a node holds.
LEMMA HeldIsObject ==
    ASSUME NEW g, Typed(g), NEW r, ObjectOf(g, r) # NoObject
    PROVE  /\ r \in Refs /\ r \in DOMAIN g.nodes
           /\ ObjectOf(g, r) \in Object /\ ObjectOf(g, r).ref = r
           /\ ObjectOf(g, r) = g.nodes[r].object
<1>1. r \in DOMAIN g.nodes /\ ObjectOf(g, r) = g.nodes[r].object
    BY DEF ObjectOf, InGraph
<1>2. g.nodes[r] \in NodeOf(r)
    BY <1>1 DEF Typed
<1>3. g.nodes[r].object \in {o \in Object : o.ref = r} \cup {NoObject}
    BY <1>2 DEF NodeOf
<1> QED
    BY <1>1, <1>3 DEF Typed

\* Adding a Pod.
LEMMA AddPodAdvances ==
    ASSUME Working, AddPod
    PROVE  Advances
<1> DEFINE pod == Head(work).object
           edges == Head(work).edges
<1>1. Doing("pod")
    BY DEF AddPod
<1>2. pod \in Object /\ pod.ref \in Refs /\ edges \in SUBSET EdgeType
    BY <1>1, HeadStartsFrom DEF OfObject
<1>3. /\ graph' = AddNode(graph, pod.ref, pod)
      /\ Continue(PodTasks(pod) \o <<Link(edges)>>)
      /\ UNCHANGED <<failed, notFound>>
    BY DEF AddPod, NoCall
<1> HIDE DEF pod, edges
<1>4. PodTasks(pod) \o <<Link(edges)>> \in Seq(PlainTask)
    BY <1>2, PodTasksAreGood, LinkIsGood, ConcatProperties DEF Working
<1>5. Sound(graph', notFound', failed')
    BY <1>2, <1>3, AddNodeIsSound DEF Working
<1> QED
    BY <1>1, <1>3, <1>4, <1>5, ContinueAdvances DEF Working

\* Adding the edges that end a sequence.
LEMMA AddLinksAdvances ==
    ASSUME Working, AddLinks
    PROVE  Advances
<1>1. Doing("link") /\ Continue(<<>>) /\ UNCHANGED <<failed, notFound>>
    BY DEF AddLinks, NoCall
<1>2. Head(work).edges \in SUBSET EdgeType
    <2>1. PICK t \in GoodTask : t = Head(work)
        BY <1>1, HeadIsGood
    <2> QED
        BY <2>1 DEF GoodTask, TaskType
<1>3. Sound(AddEdges(graph, Head(work).edges), notFound, failed)
    BY <1>2, OthersAreSound DEF Working
<1> QED
    BY <1>1, <1>3, RestAdvances DEF AddLinks, Working

\* What accepting an owner leaves to do.
LEMMA AcceptedTasks ==
    ASSUME Working, NEW owner \in Object, NEW child \in Object
    PROVE  (IF owner.ref.kind = "Job" THEN JobTasks(owner) ELSE <<>>)
              \o <<Link({Edge(owner.ref, child.ref, "owns")})>> \in Seq(PlainTask)
<1>1. owner.ref \in Refs /\ child.ref \in Refs
    BY DEF Object
<1>2. {Edge(owner.ref, child.ref, "owns")} \in SUBSET EdgeType
    BY <1>1, EdgeIsTyped DEF EdgeTypes
<1>3. <<Link({Edge(owner.ref, child.ref, "owns")})>> \in Seq(PlainTask)
    BY <1>2, LinkIsGood DEF Working
<1>4. JobTasks(owner) \in Seq(PlainTask) /\ <<>> \in Seq(PlainTask)
    BY JobTasksAreGood
<1> QED
    BY <1>3, <1>4, ConcatProperties

\* An exact owner, held, read or unresolved.
LEMMA ResolveExactOwnerAdvances ==
    ASSUME Working, ResolveExactOwner
    PROVE  Advances
<1> DEFINE task == Head(work)
           held == ObjectOf(graph, task.ref)
<1>1. Doing("exactOwner")
    BY DEF ResolveExactOwner
<1>2. task.object \in Object /\ task.ref \in Refs /\ task.ref.kind \in Followed
    BY <1>1, HeadStartsFrom DEF OfObject, OfReference
<1>3. "exactOwner" \notin {"clusterInfo", "finish"}
    OBVIOUS
<1>4. ASSUME NEW owner \in Object, AcceptOwner(owner, task.object),
             notFound' \subseteq Refs, Sound(graph', notFound', failed')
      PROVE  Advances
    BY <1>1, <1>2, <1>3, <1>4, AcceptedTasks, ContinueAdvances DEF AcceptOwner
<1>5. CASE /\ NoCall
           /\ UNCHANGED graph
           /\ IF IsExactly(held, task.uid) THEN AcceptOwner(held, task.object) ELSE Continue(<<>>)
    <2>1. notFound' \subseteq Refs /\ Sound(graph', notFound', failed')
        BY <1>5 DEF NoCall, Working
    <2>2. CASE IsExactly(held, task.uid)
        <3>1. held \in Object
            BY <2>2, HeldIsObject DEF IsExactly, Working, Sound
        <3> QED
            BY <1>4, <1>5, <2>1, <2>2, <3>1
    <2>3. CASE ~IsExactly(held, task.uid)
        BY <1>1, <1>3, <1>5, <2>1, <2>3, RestAdvances
    <2> QED
        BY <2>2, <2>3
<1>6. ASSUME NEW ok \in BOOLEAN,
             Get(SourceOf(task.ref.kind), task.ref, ok),
             IF IsExactly(Got(task.ref, ok), task.uid)
             THEN /\ graph' = AddNode(graph, task.ref, Got(task.ref, ok))
                  /\ AcceptOwner(Got(task.ref, ok), task.object)
             ELSE /\ graph' = Unresolved(graph, task.ref)
                  /\ Continue(<<>>)
      PROVE  Advances
    <2> DEFINE owner == Got(task.ref, ok)
               unread == Unread(SourceOf(task.ref.kind), task.ref)
    <2>1. /\ notFound' \subseteq Refs
          /\ failed' = IF ok THEN failed ELSE failed \cup {unread}
          /\ owner # NoObject => ok /\ owner \in Object /\ owner.ref = task.ref
          /\ Sound(graph, notFound', failed)
        BY <1>2, <1>6, GetAnswers
    <2>2. CASE IsExactly(owner, task.uid)
        <3>1. owner \in Object /\ owner.ref = task.ref /\ failed' = failed
            BY <2>1, <2>2 DEF IsExactly
        <3>2. Sound(graph', notFound', failed')
            BY <1>2, <1>6, <2>1, <2>2, <3>1, AddNodeIsSound
        <3> QED
            BY <1>4, <1>6, <2>1, <2>2, <3>1, <3>2
    <2>3. CASE ~IsExactly(owner, task.uid)
        <3>1. graph' = Unresolved(graph, task.ref)
            BY <1>6, <2>3
        <3>2. Sound(graph', notFound', failed')
            BY <1>2, <2>1, <3>1, UnresolvedIsSound
        <3> QED
            BY <1>1, <1>3, <1>6, <2>1, <2>3, <3>2, RestAdvances
    <2> QED
        BY <2>2, <2>3
<1> QED
    BY <1>5, <1>6 DEF ResolveExactOwner

\* The ReplicaSet of a Pod, held, read or unresolved.
LEMMA ResolveReplicaSetAdvances ==
    ASSUME Working, ResolveReplicaSet
    PROVE  Advances
<1> DEFINE task == Head(work)
           owns == {Edge(task.ref, task.object.ref, "owns")}
<1>1. Doing("replicaSet") /\ "replicaSet" \notin {"clusterInfo", "finish"}
    BY DEF ResolveReplicaSet
<1>2. /\ task.object.ref \in Refs /\ task.ref \in Refs
      /\ task.ref.kind \in Followed /\ task.ref.kind = "ReplicaSet"
    BY <1>1, HeadStartsFrom DEF OfObject, OfReference
<1>3. owns \in SUBSET EdgeType
    BY <1>2, EdgeIsTyped DEF EdgeTypes
<1>4. CASE NoCall /\ graph' = AddEdges(graph, owns) /\ Continue(<<>>)
    <2>1. notFound' \subseteq Refs /\ Sound(graph', notFound', failed')
        BY <1>3, <1>4, OthersAreSound DEF NoCall, Working
    <2> QED
        BY <1>1, <1>4, <2>1, RestAdvances
<1>5. ASSUME NEW ok \in BOOLEAN, Get("replicaset", task.ref, ok),
             IF Got(task.ref, ok) = NoObject
             THEN /\ graph' = AddEdges(Unresolved(graph, task.ref), owns)
                  /\ Continue(<<>>)
             ELSE /\ graph' = AddNode(graph, task.ref, Got(task.ref, ok))
                  /\ Continue(ReplicaSetTasks(Got(task.ref, ok)) \o <<Link(owns)>>)
      PROVE  Advances
    <2> DEFINE owner == Got(task.ref, ok)
    <2>1. /\ notFound' \subseteq Refs
          /\ failed' = IF ok THEN failed ELSE failed \cup {Unread("replicaset", task.ref)}
          /\ owner # NoObject => ok /\ owner \in Object /\ owner.ref = task.ref
          /\ Sound(graph, notFound', failed)
        BY <1>2, <1>5, GetAnswers
    <2>2. SourceOf(task.ref.kind) = "replicaset"
        BY <1>2 DEF SourceOf
    <2>3. CASE owner = NoObject
        <3>1. Sound(Unresolved(graph, task.ref), notFound', failed')
            BY <1>2, <2>1, <2>2, UnresolvedIsSound
        <3>2. Sound(graph', notFound', failed')
            BY <1>3, <1>5, <2>3, <3>1, OthersAreSound
        <3> QED
            BY <1>1, <1>5, <2>1, <2>3, <3>2, RestAdvances
    <2>4. CASE owner # NoObject
        <3>1. owner \in Object /\ owner.ref = task.ref /\ failed' = failed
            BY <2>1, <2>4
        <3>2. Sound(graph', notFound', failed')
            BY <1>2, <1>5, <2>1, <2>4, <3>1, AddNodeIsSound
        <3>3. ReplicaSetTasks(owner) \o <<Link(owns)>> \in Seq(PlainTask)
            BY <1>3, <3>1, ReplicaSetTasksAreGood, LinkIsGood, ConcatProperties DEF Working
        <3> QED
            BY <1>1, <1>5, <2>1, <2>4, <3>2, <3>3, ContinueAdvances
    <2> QED
        BY <2>3, <2>4
<1> QED
    BY <1>4, <1>5 DEF ResolveReplicaSet

\* What a look-up adds to a graph that is sound but for it.
LEMMA LookedIsSound ==
    ASSUME Working, NEW r \in Refs, r.kind \in Followed, NEW ok \in BOOLEAN,
           Get(SourceOf(r.kind), r, ok)
    PROVE  Sound(Looked(r, ok), notFound', failed')
<1>1. /\ failed' = IF ok THEN failed ELSE failed \cup {Unread(SourceOf(r.kind), r)}
      /\ Got(r, ok) # NoObject => ok /\ Got(r, ok) \in Object /\ Got(r, ok).ref = r
      /\ Got(r, ok) = NoObject /\ ok => r \in notFound'
      /\ Sound(graph, notFound', failed)
    BY GetAnswers
<1>2. CASE Got(r, ok) # NoObject
    BY <1>1, <1>2, AddNodeIsSound DEF Looked
<1>3. CASE Got(r, ok) = NoObject /\ ok /\ r.kind \in KeepsNotFound
    <2>1. r.kind # "Pod"
        BY DEF Followed
    <2>2. Sound(AddNode(graph, r, NoObject), notFound', failed')
        BY <1>1, <1>3, <2>1, AddMissingIsSound
    <2> QED
        BY <1>3, <2>2 DEF Looked
<1>4. CASE Got(r, ok) = NoObject /\ ~(ok /\ r.kind \in KeepsNotFound)
    <2>1. Looked(r, ok) = Unresolved(graph, r)
        BY <1>4 DEF Looked
    <2> QED
        BY <1>1, <2>1, UnresolvedIsSound
<1> QED
    BY <1>2, <1>3, <1>4

\* A reference that is looked up once and linked whatever the answer.
LEMMA LookUpAdvances ==
    ASSUME Working, NEW op \in OfReference, Doing(op), NEW type \in EdgeTypes, NEW edge,
           edge \in {Edge(Head(work).ref, Head(work).object.ref, type),
                     Edge(Head(work).object.ref, Head(work).ref, type)},
           LookUp(Head(work).ref, edge)
    PROVE  Advances
<1> DEFINE r == Head(work).ref
<1>1. op \in OfObject /\ op \notin {"clusterInfo", "finish"}
    BY DEF OfReference, OfObject
<1>2. r \in Refs /\ Head(work).object.ref \in Refs /\ r.kind \in Followed
    BY <1>1, HeadStartsFrom
<1>3. {edge} \in SUBSET EdgeType
    BY <1>2, EdgeIsTyped DEF EdgeTypes
<1>4. Continue(<<>>)
    BY DEF LookUp
<1>5. CASE NoCall /\ graph' = AddEdges(graph, {edge})
    <2>1. notFound' \subseteq Refs /\ Sound(graph', notFound', failed')
        BY <1>3, <1>5, OthersAreSound DEF NoCall, Working
    <2> QED
        BY <1>1, <1>4, <2>1, RestAdvances
<1>6. ASSUME NEW ok \in BOOLEAN, Get(SourceOf(r.kind), r, ok),
             graph' = AddEdges(Looked(r, ok), {edge})
      PROVE  Advances
    <2>1. notFound' \subseteq Refs
        BY <1>2, <1>6, GetAnswers
    <2>2. Sound(graph', notFound', failed')
        BY <1>2, <1>3, <1>6, LookedIsSound, OthersAreSound
    <2> QED
        BY <1>1, <1>4, <2>1, <2>2, RestAdvances
<1> QED
    BY <1>5, <1>6 DEF LookUp

\* A Secret is linked and its existence left unknown.
LEMMA AddSecretRefAdvances ==
    ASSUME Working, AddSecretRef
    PROVE  Advances
<1> DEFINE r == Head(work).ref
           g == IF InGraph(graph, r) THEN graph ELSE Unresolved(graph, r)
           edge == FromObject("references")
<1>1. Doing("secret") /\ "secret" \notin {"clusterInfo", "finish"}
    BY DEF AddSecretRef
<1>2. r \in Refs /\ Head(work).object.ref \in Refs /\ r.kind \in Followed
    BY <1>1, HeadStartsFrom DEF OfObject, OfReference
<1>3. {edge} \in SUBSET EdgeType
    BY <1>2, EdgeIsTyped DEF FromObject, EdgeTypes
<1>4. /\ graph' = AddEdges(g, {edge}) /\ Continue(<<>>)
      /\ UNCHANGED <<failed, notFound>>
    BY DEF AddSecretRef, NoCall
<1> HIDE DEF edge
<1>5. Sound(g, notFound, failed)
    BY <1>2, UnresolvedIsSound DEF Working
<1> HIDE DEF g
<1>6. Sound(graph', notFound', failed')
    BY <1>3, <1>4, <1>5, OthersAreSound
<1> QED
    BY <1>1, <1>4, <1>6, RestAdvances DEF Working

\* The Pods of a list are added one by one, or the list is a gap.
LEMMA AddListedPodsAdvances ==
    ASSUME Working, NEW op, Doing(op), op \notin {"clusterInfo", "finish"},
           NEW resource, NEW S \in SUBSET Object, IsFiniteSet(S),
           NEW edgesTo \in [S -> SUBSET EdgeType], AddListedPods(resource, edgesTo)
    PROVE  Advances
<1>1. PICK ok \in BOOLEAN :
        /\ List("pod", resource, ok)
        /\ \/ /\ ok
              /\ UNCHANGED graph
              /\ \E pods \in SetToSeqs(DOMAIN edgesTo) : Continue(AddPodTasks(pods, edgesTo))
           \/ /\ ~ok
              /\ graph' = AddIssue(graph, "pod", resource, FALSE)
              /\ Continue(<<>>)
    BY DEF AddListedPods
<1>2. /\ notFound' = notFound /\ notFound' \subseteq Refs
      /\ failed' = IF ok THEN failed ELSE failed \cup {Unread("pod", resource)}
    BY <1>1, ListAnswers
<1>3. CASE ok
    <2>1. PICK pods \in SetToSeqs(S) : Continue(AddPodTasks(pods, edgesTo))
        BY <1>1, <1>3
    <2>2. pods \in Seq(S)
        BY SetToSeqIsSeq
    <2>3. AddPodTasks(pods, edgesTo) \in Seq(PlainTask)
        BY <2>2, AddPodTasksAreGood
    <2>4. Sound(graph', notFound', failed')
        BY <1>1, <1>2, <1>3 DEF Working
    <2> QED
        BY <1>2, <2>1, <2>3, <2>4, ContinueAdvances
<1>4. CASE ~ok
    <2>1. "pod" \in Lists
        BY DEF Lists
    <2>2. Sound(AddIssue(graph, "pod", resource, FALSE), notFound, failed \cup {Unread("pod", resource)})
        BY <2>1, GapIsSound
    <2>3. Sound(graph', notFound', failed')
        BY <1>1, <1>2, <1>4, <2>2
    <2> QED
        BY <1>1, <1>2, <1>4, <2>3, RestAdvances
<1> QED
    BY <1>3, <1>4

\* Objects kept from a list.
LEMMA KeptIsFinite ==
    ASSUME ClusterInv, NEW refs \in SUBSET Refs, NEW kept \in SUBSET Live(refs)
    PROVE  IsFiniteSet(kept) /\ kept \subseteq Object /\ \A o \in kept : o.ref \in Refs
<1>1. IsFiniteSet(kept) /\ kept \subseteq Object
    BY LiveIsFinite, FS_Subset
<1> QED
    BY <1>1 DEF Object

\* The resources of one kind, among those of the instance a shape selects.
LEMMA OfKindInRefs ==
    ASSUME NEW kind
    PROVE  /\ OfKind(Refs, kind) \in SUBSET Refs
           /\ \A r \in Refs : OfKind(Shape[r].selects, kind) \in SUBSET Refs
BY CollectorAssumption DEF OfKind, ShapeFields

\* The Pods a Service selects.
LEMMA ListSelectedPodsAdvances ==
    ASSUME Working, ListSelectedPods
    PROVE  Advances
<1> DEFINE kept == Live(OfKind(Shape[focus].selects, "Pod"))
           edgesTo == [pod \in kept |-> {Edge(focus, pod.ref, "selects")}]
<1>1. Doing("selectedPods") /\ AddListedPods(focus, edgesTo)
    BY DEF ListSelectedPods
<1>2. IsFiniteSet(kept) /\ kept \subseteq Object /\ \A o \in kept : o.ref \in Refs
    <2>1. OfKind(Shape[focus].selects, "Pod") \in SUBSET Refs
        BY OfKindInRefs DEF Working
    <2> QED
        BY <2>1, KeptIsFinite DEF Working
<1> HIDE DEF kept
<1>3. \A pod \in kept : {Edge(focus, pod.ref, "selects")} \in SUBSET EdgeType
    BY <1>2, EdgeIsTyped DEF EdgeTypes, Working
<1>4. edgesTo \in [kept -> SUBSET EdgeType]
    BY <1>3
<1> HIDE DEF edgesTo
<1> QED
    BY <1>1, <1>2, <1>4, AddListedPodsAdvances

\* The Pods of the ReplicaSets a Deployment owns.
LEMMA ListDeploymentPodsAdvances ==
    ASSUME Working, ListDeploymentPods
    PROVE  Advances
<1> DEFINE Owning(pod) == {r \in OwnedReplicaSets : IsOwnedBy(pod, ObjectOf(graph, r).uid)}
           kept == {pod \in Live(OfKind(Shape[focus].selects, "Pod")) : Owning(pod) # {}}
           edgesTo == [pod \in kept |-> {Edge(r, pod.ref, "owns") : r \in Owning(pod)}]
<1>1. Doing("deploymentPods") /\ AddListedPods(focus, edgesTo)
    BY DEF ListDeploymentPods
<1>2. IsFiniteSet(kept) /\ kept \subseteq Object /\ \A o \in kept : o.ref \in Refs
    <2> DEFINE live == Live(OfKind(Shape[focus].selects, "Pod"))
    <2>1. kept \subseteq live
        OBVIOUS
    <2> HIDE DEF kept
    <2> QED
        BY <2>1, OfKindInRefs, KeptIsFinite DEF Working
<1>3. OwnedReplicaSets \subseteq Refs
    BY DEF OwnedReplicaSets, Working, Sound, Typed, EdgeType
<1>4. \A pod : Owning(pod) \subseteq Refs
    BY <1>3
<1> HIDE DEF kept, Owning
<1>5. ASSUME NEW pod \in kept
      PROVE  {Edge(r, pod.ref, "owns") : r \in Owning(pod)} \in SUBSET EdgeType
    BY <1>2, <1>4, EdgeIsTyped DEF EdgeTypes
<1>6. edgesTo \in [kept -> SUBSET EdgeType]
    BY <1>5
<1> HIDE DEF edgesTo
<1> QED
    BY <1>1, <1>2, <1>6, AddListedPodsAdvances

\* The Pods a StatefulSet controls.
LEMMA ListStatefulSetPodsAdvances ==
    ASSUME Working, ListStatefulSetPods
    PROVE  Advances
<1> DEFINE live == Live(OfKind(Shape[focus].selects, "Pod"))
           kept == {pod \in live : IsControllerOwner(pod, "StatefulSet", graph.start.uid)}
           edgesTo == [pod \in kept |-> {Edge(focus, pod.ref, "owns")}]
<1>1. Doing("statefulSetPods") /\ AddListedPods(focus, edgesTo)
    BY DEF ListStatefulSetPods
<1>2. IsFiniteSet(kept) /\ kept \subseteq Object /\ \A o \in kept : o.ref \in Refs
    <2>1. kept \subseteq live
        OBVIOUS
    <2> HIDE DEF kept
    <2> QED
        BY <2>1, OfKindInRefs, KeptIsFinite DEF Working
<1> HIDE DEF kept
<1>3. \A pod \in kept : {Edge(focus, pod.ref, "owns")} \in SUBSET EdgeType
    BY <1>2, EdgeIsTyped DEF EdgeTypes, Working
<1>4. edgesTo \in [kept -> SUBSET EdgeType]
    BY <1>3
<1> HIDE DEF edgesTo
<1> QED
    BY <1>1, <1>2, <1>4, AddListedPodsAdvances

\* The Pods a Job controls.
LEMMA ListJobPodsAdvances ==
    ASSUME Working, ListJobPods
    PROVE  Advances
<1> DEFINE job == Head(work).object
           live == Live(OfKind(Refs, "Pod"))
           kept == {pod \in live : IsControllerOwner(pod, "Job", job.uid)}
           edgesTo == [pod \in kept |-> {Edge(job.ref, pod.ref, "owns")}]
<1>1. Doing("jobPods") /\ AddListedPods(job.ref, edgesTo)
    BY DEF ListJobPods
<1>2. IsFiniteSet(kept) /\ kept \subseteq Object /\ \A o \in kept : o.ref \in Refs
    <2>1. kept \subseteq live
        OBVIOUS
    <2> HIDE DEF kept
    <2> QED
        BY <2>1, OfKindInRefs, KeptIsFinite DEF Working
<1>3. job.ref \in Refs
    BY <1>1, HeadStartsFrom DEF OfObject
<1> HIDE DEF kept, job
<1>4. \A pod \in kept : {Edge(job.ref, pod.ref, "owns")} \in SUBSET EdgeType
    BY <1>2, <1>3, EdgeIsTyped DEF EdgeTypes
<1>5. edgesTo \in [kept -> SUBSET EdgeType]
    BY <1>4
<1> HIDE DEF edgesTo
<1> QED
    BY <1>1, <1>2, <1>5, AddListedPodsAdvances

\* The ReplicaSets a Deployment owns.
LEMMA ListReplicaSetsAdvances ==
    ASSUME Working, ListReplicaSets
    PROVE  Advances
<1> DEFINE live == Live(OfKind(Shape[focus].selects, "ReplicaSet"))
           owned == {rs \in live : IsOwnedBy(rs, graph.start.uid)}
           edges == {Edge(focus, rs.ref, "owns") : rs \in owned}
<1>1. Doing("replicaSets") /\ "replicaSets" \notin {"clusterInfo", "finish"}
    BY DEF ListReplicaSets
<1>2. PICK ok \in BOOLEAN :
        /\ List("replicaset", focus, ok)
        /\ \/ /\ ok
              /\ graph' = AddEdges(AddNodes(graph, owned), edges)
              /\ Continue(<<Step("deploymentPods")>>)
           \/ /\ ~ok
              /\ graph' = AddIssue(graph, "replicaset", focus, FALSE)
              /\ Continue(<<>>)
    BY DEF ListReplicaSets
<1>3. /\ notFound' = notFound /\ notFound' \subseteq Refs
      /\ failed' = IF ok THEN failed ELSE failed \cup {Unread("replicaset", focus)}
    BY <1>2, ListAnswers
<1>4. owned \subseteq Object /\ \A o \in owned : o.ref \in Refs
    <2>1. owned \subseteq live
        OBVIOUS
    <2> HIDE DEF owned
    <2> QED
        BY <2>1, OfKindInRefs, KeptIsFinite DEF Working
<1> HIDE DEF owned
<1>5. edges \in SUBSET EdgeType
    BY <1>4, EdgeIsTyped DEF EdgeTypes, Working
<1> HIDE DEF edges
<1>6. CASE ok
    <2>1. <<Step("deploymentPods")>> \in Seq(PlainTask)
        <3>1. Step("deploymentPods") \in PlainTask
            BY StepIsGood DEF OfFocus, Working
        <3> QED
            BY <3>1
    <2>2. Sound(AddNodes(graph, owned), notFound, failed)
        BY <1>4, AddNodesIsSound DEF Working
    <2>3. Sound(graph', notFound', failed')
        BY <1>2, <1>3, <1>5, <1>6, <2>2, OthersAreSound
    <2> QED
        BY <1>1, <1>2, <1>3, <1>6, <2>1, <2>3, ContinueAdvances
<1>7. CASE ~ok
    <2>1. Sound(graph', notFound', failed')
        BY <1>2, <1>3, <1>7, GapIsSound DEF Working, Lists
    <2> QED
        BY <1>1, <1>2, <1>3, <1>7, <2>1, RestAdvances
<1> QED
    BY <1>6, <1>7

\* The verdict on a CronJob's runs names one of the Jobs listed.
LEMMA VerdictIsListed ==
    ASSUME NEW jobs, NEW scheduled, LatestRunOf(jobs, scheduled).job # 0
    PROVE  LatestRunOf(jobs, scheduled).job \in DOMAIN jobs
<1>1. \E i \in OwnedJobs(jobs) : Newest(jobs) = {i}
    BY DEF LatestRunOf, Verdict
<1>2. (CHOOSE i \in OwnedJobs(jobs) : Newest(jobs) = {i}) \in OwnedJobs(jobs)
    BY <1>1
<1>3. LatestRunOf(jobs, scheduled).job = CHOOSE i \in OwnedJobs(jobs) : Newest(jobs) = {i}
    BY <1>1 DEF LatestRunOf, Verdict
<1> QED
    BY <1>2, <1>3 DEF OwnedJobs

\* A CronJob's latest run, or the issue that there is none to be told.
LEMMA ListCronJobJobsAdvances ==
    ASSUME Working, ListCronJobJobs
    PROVE  Advances
<1> DEFINE live == Live(OfKind(Refs, "Job"))
           jobs == SetToSeq(live)
           verdict == LatestRunOf([i \in DOMAIN jobs |-> JobViewOf(jobs[i])],
                                  Shape[focus].scheduled)
           latest == jobs[verdict.job]
           edge == Edge(focus, latest.ref, "latest-run")
           tasks == JobTasks(latest) \o <<Link({edge}), About("jobPods", latest)>>
<1>1. Doing("cronJobJobs") /\ "cronJobJobs" \notin {"clusterInfo", "finish"}
    BY DEF ListCronJobJobs
<1>2. PICK ok \in BOOLEAN :
        /\ List("job", focus, ok)
        /\ \/ /\ ok
              /\ verdict.job # 0
              /\ graph' = AddNode(graph, latest.ref, latest)
              /\ Continue(tasks)
           \/ /\ ok
              /\ verdict.job = 0
              /\ graph' = IF verdict.issue = "none" THEN graph
                          ELSE AddIssue(graph, "job", focus, TRUE)
              /\ Continue(<<>>)
           \/ /\ ~ok
              /\ graph' = AddIssue(graph, "job", focus, TRUE)
              /\ Continue(<<>>)
    BY Zenon DEF ListCronJobJobs
<1>3. /\ notFound' = notFound /\ notFound' \subseteq Refs
      /\ failed' = IF ok THEN failed ELSE failed \cup {Unread("job", focus)}
    BY <1>2, ListAnswers
<1>4. jobs \in Seq(live) /\ live \subseteq Object
    BY OfKindInRefs, LiveIsFinite, SetToSeqIsSeq DEF Working
<1>5. verdict.job # 0 => verdict.job \in DOMAIN jobs
    <2> DEFINE views == [i \in DOMAIN jobs |-> JobViewOf(jobs[i])]
    <2>1. DOMAIN views = DOMAIN jobs
        OBVIOUS
    <2> HIDE DEF views
    <2>2. LatestRunOf(views, Shape[focus].scheduled).job # 0
            => LatestRunOf(views, Shape[focus].scheduled).job \in DOMAIN jobs
        BY <2>1, VerdictIsListed
    <2> QED
        BY <2>2 DEF views
<1> HIDE DEF jobs, live, verdict
<1>6. verdict.job # 0 => latest \in Object /\ latest.ref \in Refs
    <2>1. verdict.job # 0 => latest \in live
        BY <1>4, <1>5, LenProperties
    <2> QED
        BY <1>4, <2>1 DEF Object
<1> HIDE DEF latest
<1>7. ASSUME verdict.job # 0
      PROVE  tasks \in Seq(PlainTask)
    <2>1. {edge} \in SUBSET EdgeType
        BY <1>6, <1>7, EdgeIsTyped DEF EdgeTypes, Working
    <2>2. Link({edge}) \in PlainTask
        <3>1. <<Link({edge})>> \in Seq(PlainTask)
            BY <2>1, LinkIsGood DEF Working
        <3> QED
            BY <3>1
    <2>3. About("jobPods", latest) \in PlainTask
        BY <1>6, <1>7, AboutIsGood
    <2>4. <<Link({edge}), About("jobPods", latest)>> \in Seq(PlainTask)
        BY <2>2, <2>3
    <2> QED
        BY <1>6, <1>7, <2>4, JobTasksAreGood, ConcatProperties
<1> HIDE DEF tasks
<1>8. CASE ok /\ verdict.job # 0
    <2>1. graph' = AddNode(graph, latest.ref, latest) /\ Continue(tasks) /\ failed' = failed
        BY <1>2, <1>3, <1>8
    <2>2. Sound(graph', notFound', failed')
        BY <1>3, <1>6, <1>8, <2>1, AddNodeIsSound DEF Working
    <2> QED
        BY <1>1, <1>3, <1>7, <1>8, <2>1, <2>2, ContinueAdvances
<1>9. CASE ~(ok /\ verdict.job # 0)
    <2>1. Continue(<<>>)
        BY <1>2, <1>9
    <2>2. \/ graph' = graph /\ failed' = failed
          \/ /\ graph' = AddIssue(graph, "job", focus, TRUE)
             /\ failed' \in {failed, failed \cup {Unread("job", focus)}}
        BY <1>2, <1>3, <1>9
    <2>3. /\ Sound(AddIssue(graph, "job", focus, TRUE), notFound, failed)
          /\ Sound(AddIssue(graph, "job", focus, TRUE), notFound, failed \cup {Unread("job", focus)})
        BY GapIsSound DEF Lists
    <2>4. Sound(graph', notFound', failed')
        BY <1>3, <2>2, <2>3 DEF Working
    <2> QED
        BY <1>1, <1>3, <2>1, <2>4, RestAdvances
<1> QED
    BY <1>8, <1>9

\* The Services that select the Pods collected.
LEMMA ListServicesAdvances ==
    ASSUME Working, ListServices
    PROVE  Advances
<1> DEFINE chosen == Selecting(CollectedPods)
<1>1. Doing("services") /\ "services" \notin {"clusterInfo", "finish"}
    BY DEF ListServices
<1>2. CASE NoCall /\ UNCHANGED graph /\ Continue(<<>>)
    BY <1>1, <1>2, RestAdvances DEF NoCall, Working
<1>3. ASSUME NEW ok \in BOOLEAN, List("service", focus, ok),
             \/ /\ ok
                /\ UNCHANGED graph
                /\ \E svcs \in SetToSeqs(chosen) :
                    Continue([i \in DOMAIN svcs |-> About("service", svcs[i])])
             \/ /\ ~ok
                /\ graph' = AddIssue(graph, "service", focus, FALSE)
                /\ Continue(<<>>)
      PROVE  Advances
    <2>1. /\ notFound' = notFound /\ notFound' \subseteq Refs
          /\ failed' = IF ok THEN failed ELSE failed \cup {Unread("service", focus)}
        BY <1>3, ListAnswers
    <2>2. CASE ok
        <3>1. PICK svcs \in SetToSeqs(chosen) :
                Continue([i \in DOMAIN svcs |-> About("service", svcs[i])])
            BY <1>3, <2>2
        <3>2. IsFiniteSet(chosen) /\ chosen \subseteq Object
            <4>1. chosen \subseteq Live(OfKind(Refs, "Service"))
                BY DEF Selecting
            <4> HIDE DEF chosen
            <4> QED
                BY <4>1, OfKindInRefs, KeptIsFinite DEF Working
        <3> HIDE DEF chosen
        <3>3. svcs \in Seq(chosen)
            BY <3>1, <3>2, SetToSeqIsSeq
        <3>4. svcs \in Seq(Object)
            <4>1. svcs \in [1..Len(svcs) -> chosen] /\ Len(svcs) \in Nat
                BY <3>3, LenProperties
            <4>2. svcs \in [1..Len(svcs) -> Object]
                BY <3>2, <4>1
            <4> QED
                BY <4>1, <4>2
        <3>5. [i \in DOMAIN svcs |-> About("service", svcs[i])] \in Seq(PlainTask)
            BY <3>4, AboutEachIsGood
        <3>6. Sound(graph', notFound', failed')
            BY <1>3, <2>1, <2>2 DEF Working
        <3> QED
            BY <1>1, <2>1, <3>1, <3>5, <3>6, ContinueAdvances
    <2>3. CASE ~ok
        <3>1. Sound(graph', notFound', failed')
            BY <1>3, <2>1, <2>3, GapIsSound DEF Lists
        <3> QED
            BY <1>1, <1>3, <2>1, <2>3, <3>1, RestAdvances
    <2> QED
        BY <2>2, <2>3
<1> QED
    BY <1>2, <1>3 DEF ListServices

\* A Service, the Pods it selects and its EndpointSlices.
LEMMA AddServiceAdvances ==
    ASSUME Working, AddService
    PROVE  Advances
<1> DEFINE svc == Head(work).object
           selects == {Edge(svc.ref, p, "selects") : p \in Shape[svc.ref].selects \cap CollectedPods}
           g == AddEdges(AddNode(graph, svc.ref, svc), selects)
<1>1. Doing("service") /\ "service" \notin {"clusterInfo", "finish"} /\ Continue(<<>>)
    BY DEF AddService
<1>2. svc \in Object /\ svc.ref \in Refs
    BY <1>1, HeadStartsFrom DEF OfObject
<1>3. PICK ok \in BOOLEAN :
        /\ List("endpointslices", svc.ref, ok)
        /\ graph' = WithSlices(g, svc.ref, ok)
    BY DEF AddService
<1>4. /\ notFound' = notFound /\ notFound' \subseteq Refs
      /\ failed' = IF ok THEN failed ELSE failed \cup {Unread("endpointslices", svc.ref)}
    BY <1>3, ListAnswers
<1> HIDE DEF svc
<1>5. selects \in SUBSET EdgeType
    <2>1. Shape[svc.ref].selects \subseteq Refs
        BY <1>2, CollectorAssumption DEF ShapeFields
    <2> QED
        BY <1>2, <2>1, EdgeIsTyped DEF EdgeTypes
<1> HIDE DEF selects
<1>6. Sound(g, notFound, failed)
    BY <1>2, <1>5, AddNodeIsSound, OthersAreSound DEF Working
<1> HIDE DEF g
<1>7. Sound(graph', notFound', failed')
    <2>1. Sound(WithSlices(g, svc.ref, ok), notFound,
                IF ok THEN failed ELSE failed \cup {Unread("endpointslices", svc.ref)})
        BY <1>2, <1>6, WithSlicesIsSound DEF Working
    <2> QED
        BY <1>3, <1>4, <2>1
<1> QED
    BY <1>1, <1>4, <1>7, RestAdvances

\* The EndpointSlices of the focus.
LEMMA ListEndpointSlicesAdvances ==
    ASSUME Working, ListEndpointSlices
    PROVE  Advances
<1>1. Doing("slices") /\ "slices" \notin {"clusterInfo", "finish"} /\ Continue(<<>>)
    BY DEF ListEndpointSlices
<1>2. PICK ok \in BOOLEAN :
        /\ List("endpointslices", focus, ok)
        /\ graph' = WithSlices(graph, focus, ok)
    BY DEF ListEndpointSlices
<1>3. /\ notFound' = notFound /\ notFound' \subseteq Refs
      /\ failed' = IF ok THEN failed ELSE failed \cup {Unread("endpointslices", focus)}
    BY <1>2, ListAnswers
<1>4. Sound(WithSlices(graph, focus, ok), notFound,
            IF ok THEN failed ELSE failed \cup {Unread("endpointslices", focus)})
    BY WithSlicesIsSound DEF Working
<1> QED
    BY <1>1, <1>2, <1>3, <1>4, RestAdvances

\* The autoscalers of the Deployments collected.
LEMMA CollectAutoscalersAdvances ==
    ASSUME Working, CollectAutoscalers
    PROVE  Advances
<1> DEFINE live == Live(OfKind(Refs, "HorizontalPodAutoscaler"))
           hpas == {h \in live : Shape[h.ref].target \cap CollectedDeployments # {}}
<1>1. Doing("autoscalers") /\ "autoscalers" \notin {"clusterInfo", "finish"} /\ Continue(<<>>)
    BY DEF CollectAutoscalers
<1>2. CASE NoCall /\ UNCHANGED graph
    BY <1>1, <1>2, RestAdvances DEF NoCall, Working
<1>3. ASSUME NEW ok \in BOOLEAN, List("horizontalpodautoscaler", focus, ok),
             graph' = IF ok THEN WithAutoscalers(graph, hpas)
                      ELSE AddIssue(graph, "horizontalpodautoscaler", focus, FALSE)
      PROVE  Advances
    <2>1. /\ notFound' = notFound /\ notFound' \subseteq Refs
          /\ failed' = IF ok THEN failed
                       ELSE failed \cup {Unread("horizontalpodautoscaler", focus)}
        BY <1>3, ListAnswers
    <2>2. hpas \subseteq Object
        <3>1. hpas \subseteq live
            OBVIOUS
        <3> HIDE DEF hpas
        <3> QED
            BY <3>1, OfKindInRefs, KeptIsFinite DEF Working
    <2> HIDE DEF hpas
    <2>3. Sound(WithAutoscalers(graph, hpas), notFound, failed)
        BY <2>2, WithAutoscalersIsSound DEF Working
    <2>4. Sound(AddIssue(graph, "horizontalpodautoscaler", focus, FALSE), notFound,
                failed \cup {Unread("horizontalpodautoscaler", focus)})
        BY GapIsSound DEF Lists
    <2>5. Sound(graph', notFound', failed')
        BY <1>3, <2>1, <2>3, <2>4
    <2> QED
        BY <1>1, <2>1, <2>5, RestAdvances
<1> QED
    BY <1>1, <1>2, <1>3 DEF CollectAutoscalers

\* Events are asked for of Pods the graph holds.
LEMMA CollectEventsAdvances ==
    ASSUME Working, CollectEvents
    PROVE  Advances
<1> DEFINE asked == {r \in CollectedPods : ~Shape[r].quiet}
           pods == SetToSeq(asked)
           objects == [i \in DOMAIN pods |-> ObjectOf(graph, pods[i])]
<1>1. Doing("events") /\ "events" \notin {"clusterInfo", "finish"}
    BY DEF CollectEvents
<1>2. /\ UNCHANGED <<graph, failed, notFound>>
      /\ Continue([i \in DOMAIN pods |-> About("podEvents", ObjectOf(graph, pods[i]))])
    BY DEF CollectEvents, NoCall
<1>3. \A r \in asked : r \in DOMAIN graph.nodes /\ r.kind = "Pod"
    BY DEF CollectedPods, OfKind
<1>4. \A r \in asked : ObjectOf(graph, r) \in Object
    <2>1. \A r \in asked : ObjectOf(graph, r) # NoObject
        BY <1>3 DEF Working, Sound, Typed, ObjectOf, InGraph
    <2> QED
        BY <2>1, HeldIsObject DEF Working, Sound
<1>5. IsFiniteSet(asked)
    <2>1. asked \subseteq Refs
        BY <1>3 DEF Working, Sound, Typed
    <2> HIDE DEF asked
    <2> QED
        BY <2>1, CollectorAssumption, FS_Subset
<1> HIDE DEF asked
<1>6. pods \in Seq(asked)
    BY <1>5, SetToSeqIsSeq
<1> HIDE DEF pods
<1>7. \A i \in DOMAIN pods : pods[i] \in asked
    BY <1>6, LenProperties
<1>8. \A i \in DOMAIN pods : objects[i] \in Object
    BY <1>4, <1>7
<1>9. DOMAIN objects = DOMAIN pods /\ objects = [i \in DOMAIN pods |-> objects[i]]
    OBVIOUS
<1>10. [i \in DOMAIN pods |-> About("podEvents", ObjectOf(graph, pods[i]))]
         = [i \in DOMAIN objects |-> About("podEvents", objects[i])]
    OBVIOUS
<1> HIDE DEF objects
<1>11. objects \in Seq(Object)
    BY <1>6, <1>8, <1>9, MappedIsSeq
<1>12. [i \in DOMAIN objects |-> About("podEvents", objects[i])] \in Seq(PlainTask)
    BY <1>11, AboutEachIsGood
<1> QED
    BY <1>1, <1>2, <1>10, <1>12, ContinueAdvances DEF Working

\* The Events of a Pod.
LEMMA ListPodEventsAdvances ==
    ASSUME Working, ListPodEvents
    PROVE  Advances
<1> DEFINE pod == Head(work).object
           kept == {e \in recorded : EventMatchesPod(e, pod)}
<1>1. Doing("podEvents") /\ "podEvents" \notin {"clusterInfo", "finish"} /\ Continue(<<>>)
    BY DEF ListPodEvents
<1>2. PICK ok \in BOOLEAN :
        /\ List("events", pod.ref, ok)
        /\ graph' = IF ok THEN AddEvents(graph, kept) ELSE AddIssue(graph, "events", pod.ref, FALSE)
    BY DEF ListPodEvents
<1> HIDE DEF kept, pod
<1>3. /\ notFound' = notFound /\ notFound' \subseteq Refs
      /\ failed' = IF ok THEN failed ELSE failed \cup {Unread("events", pod.ref)}
    BY <1>2, ListAnswers
<1>4. Sound(AddEvents(graph, kept), notFound, failed)
    BY OthersAreSound DEF Working
<1>5. Sound(AddIssue(graph, "events", pod.ref, FALSE), notFound,
            failed \cup {Unread("events", pod.ref)})
    BY GapIsSound DEF Lists
<1>6. Sound(graph', notFound', failed')
    BY <1>2, <1>3, <1>4, <1>5
<1> QED
    BY <1>1, <1>3, <1>6, RestAdvances

\* Every step between the two reads advances, but that for the version.
LEMMA GatheringAdvances ==
    ASSUME Working, GatheringStep, ~CollectClusterInfo
    PROVE  Advances
<1>1. ResolveDeployment => Advances
    BY LookUpAdvances DEF ResolveDeployment, OfReference, EdgeTypes
<1>2. AddConfigMapRef => Advances
    BY LookUpAdvances DEF AddConfigMapRef, OfReference, EdgeTypes, FromObject
<1>3. AddStorageRef => Advances
    BY LookUpAdvances DEF AddStorageRef, OfReference, EdgeTypes, FromObject
<1>4. AddScheduledNode => Advances
    BY LookUpAdvances DEF AddScheduledNode, OfReference, EdgeTypes, FromObject
<1> QED
    BY <1>1, <1>2, <1>3, <1>4, AddPodAdvances, AddLinksAdvances, ResolveExactOwnerAdvances,
       ResolveReplicaSetAdvances, AddSecretRefAdvances, ListSelectedPodsAdvances,
       ListReplicaSetsAdvances, ListDeploymentPodsAdvances, ListStatefulSetPodsAdvances,
       ListJobPodsAdvances, ListCronJobJobsAdvances, ListServicesAdvances, AddServiceAdvances,
       ListEndpointSlicesAdvances, CollectAutoscalersAdvances, CollectEventsAdvances,
       ListPodEventsAdvances, Zenon DEF GatheringStep

-----------------------------------------------------------------------------
(* The version is settled before the end: until it is, the task for it is   *)
(* still to come, ahead of the last one.                                    *)

VersionKnown(g) == g.version \/ HasCollectionIssue(g, "kubernetes-version", g.focus)

\* tasks has the version to ask for before anything else that ends it.
Opens(tasks) ==
    \E i \in DOMAIN tasks :
        /\ tasks[i].op = "clusterInfo"
        /\ \A j \in 1..i : tasks[j].op # "finish"

\* Tasks after it do not matter.
LEMMA OpensThen ==
    ASSUME NEW w \in Seq(GoodTask), Opens(w), NEW s \in Seq(GoodTask)
    PROVE  w \o s \in Seq(GoodTask) /\ Opens(w \o s)
<1>1. PICK i \in 1..Len(w) : w[i].op = "clusterInfo" /\ \A j \in 1..i : w[j].op # "finish"
    BY LenProperties DEF Opens
<1>2. /\ w \o s \in Seq(GoodTask) /\ Len(w \o s) = Len(w) + Len(s)
      /\ Len(w) \in Nat /\ Len(s) \in Nat
      /\ \A j \in 1..Len(w) : (w \o s)[j] = w[j]
    BY ConcatProperties, LenProperties
<1>3. i \in DOMAIN (w \o s) /\ \A j \in 1..i : j \in 1..Len(w)
    BY <1>2, LenProperties
<1> QED
    BY <1>1, <1>2, <1>3 DEF Opens

\* Neither do other tasks before it.
LEMMA PlainThenOpens ==
    ASSUME NEW p \in Seq(PlainTask), NEW w \in Seq(GoodTask), Opens(w)
    PROVE  p \o w \in Seq(GoodTask) /\ Opens(p \o w)
<1>1. PICK i \in 1..Len(w) : w[i].op = "clusterInfo" /\ \A j \in 1..i : w[j].op # "finish"
    BY LenProperties DEF Opens
<1>2. p \in Seq(GoodTask)
    <2>1. p \in [1..Len(p) -> PlainTask] /\ Len(p) \in Nat
        BY LenProperties
    <2>2. p \in [1..Len(p) -> GoodTask]
        BY <2>1 DEF PlainTask
    <2> QED
        BY <2>1, <2>2
<1>3. /\ p \o w \in Seq(GoodTask) /\ Len(p \o w) = Len(p) + Len(w)
      /\ Len(w) \in Nat /\ Len(p) \in Nat
      /\ \A j \in 1..Len(p) : (p \o w)[j] = p[j]
      /\ \A j \in (Len(p) + 1)..(Len(p) + Len(w)) : (p \o w)[j] = w[j - Len(p)]
    BY <1>2, ConcatProperties, LenProperties
<1>4. \A j \in 1..Len(p) : p[j].op # "finish"
    <2>1. \A j \in 1..Len(p) : p[j] \in PlainTask
        BY LenProperties
    <2> QED
        BY <2>1 DEF PlainTask
<1> DEFINE k == Len(p) + i
<1>5. k \in DOMAIN (p \o w)
    BY <1>3, LenProperties
<1>6. (p \o w)[k].op = "clusterInfo"
    <2>1. k \in (Len(p) + 1)..(Len(p) + Len(w)) /\ k - Len(p) = i
        BY <1>3
    <2> QED
        BY <1>1, <1>3, <2>1
<1>7. ASSUME NEW j \in 1..k
      PROVE  (p \o w)[j].op # "finish"
    <2>1. CASE j <= Len(p)
        BY <1>3, <1>4, <2>1
    <2>2. CASE j > Len(p)
        <3>1. j \in (Len(p) + 1)..(Len(p) + Len(w)) /\ j - Len(p) \in 1..i
            BY <1>3, <2>2
        <3> QED
            BY <1>1, <1>3, <3>1
    <2> QED
        BY <1>3, <2>1, <2>2
<1> QED
    BY <1>3, <1>5, <1>6, <1>7 DEF Opens

\* It is still to come after another task.
LEMMA OpensRest ==
    ASSUME NEW w \in Seq(GoodTask), w # <<>>, Opens(w), Head(w).op # "clusterInfo"
    PROVE  Tail(w) \in Seq(GoodTask) /\ Opens(Tail(w))
<1>1. PICK i \in 1..Len(w) : w[i].op = "clusterInfo" /\ \A j \in 1..i : w[j].op # "finish"
    BY LenProperties DEF Opens
<1>2. /\ Tail(w) \in Seq(GoodTask) /\ Len(Tail(w)) = Len(w) - 1 /\ Len(w) \in Nat
      /\ \A j \in 1..Len(Tail(w)) : Tail(w)[j] = w[j + 1]
      /\ Head(w) = w[1]
    BY HeadTailProperties, LenProperties
<1>3. i # 1 /\ i - 1 \in 1..Len(Tail(w))
    BY <1>1, <1>2
<1>4. i - 1 \in DOMAIN Tail(w)
    BY <1>2, <1>3, LenProperties
<1>5. Tail(w)[i - 1].op = "clusterInfo"
    <2>1. (i - 1) + 1 = i
        OBVIOUS
    <2> QED
        BY <1>1, <1>2, <1>3, <2>1
<1>6. \A j \in 1..(i - 1) : j \in 1..Len(Tail(w)) /\ j + 1 \in 1..i
    BY <1>2, <1>3
<1>7. \A j \in 1..(i - 1) : Tail(w)[j].op # "finish"
    BY <1>1, <1>2, <1>6
<1> QED
    BY <1>2, <1>4, <1>5, <1>7 DEF Opens

\* A sequence that begins with it.
LEMMA OpensFirst ==
    ASSUME focus \in Refs, NEW s \in Seq(GoodTask)
    PROVE  <<Step("clusterInfo")>> \o s \in Seq(GoodTask) /\ Opens(<<Step("clusterInfo")>> \o s)
<1> DEFINE w == <<Step("clusterInfo")>>
<1>1. Step("clusterInfo") \in GoodTask
    BY StepIsGood DEF OfFocus
<1>2. Step("clusterInfo").op = "clusterInfo"
    BY DEF Step, Task
<1>3. w \in Seq(GoodTask) /\ DOMAIN w = 1..1 /\ w[1] = Step("clusterInfo")
    BY <1>1
<1> HIDE DEF w
<1>4. Opens(w)
    BY <1>2, <1>3 DEF Opens
<1>5. w \o s \in Seq(GoodTask) /\ Opens(w \o s)
    BY <1>3, <1>4, OpensThen
<1> QED
    BY <1>5 DEF w

\* Every plan of a collection asks for the version.
LEMMA PlanOpens ==
    ASSUME focus \in Foci, focus \in Refs, NEW object \in Object
    PROVE  Plan(object) \in Seq(GoodTask) /\ Opens(Plan(object))
<1>1. \A op \in OfFocus : Step(op) \in GoodTask
    BY StepIsGood
<1>2. /\ Step("finish") \in GoodTask /\ Step("events") \in GoodTask
      /\ Step("autoscalers") \in GoodTask /\ Step("services") \in GoodTask
      /\ Step("slices") \in GoodTask /\ Step("selectedPods") \in GoodTask
      /\ Step("replicaSets") \in GoodTask /\ Step("statefulSetPods") \in GoodTask
      /\ Step("cronJobJobs") \in GoodTask
    BY <1>1 DEF OfFocus
<1> DEFINE first == <<Step("clusterInfo")>>
<1>3. focus.kind \in FocusKinds
    BY CollectorAssumption
<1>4. CASE focus.kind = "Service"
    <2> DEFINE pods == IF Shape[object.ref].selector = "none" THEN <<>> ELSE <<Step("selectedPods")>>
               rest == <<Step("slices"), Step("autoscalers"), Step("events"), Step("finish")>>
    <2>1. pods \in Seq(GoodTask) /\ rest \in Seq(GoodTask)
        BY <1>2
    <2>2. Plan(object) = first \o pods \o rest
        BY <1>4 DEF Plan
    <2> HIDE DEF pods, rest
    <2>3. first \o pods \in Seq(GoodTask) /\ Opens(first \o pods)
        BY <2>1, OpensFirst
    <2> HIDE DEF first
    <2> QED
        BY <2>1, <2>2, <2>3, OpensThen
<1>5. CASE focus.kind = "Deployment"
    <2> DEFINE rest == <<Step("replicaSets"), Step("services"), Step("autoscalers"),
                         Step("events"), Step("finish")>>
    <2>1. rest \in Seq(GoodTask)
        BY <1>2
    <2>2. Plan(object) = first \o rest
        BY <1>5 DEF Plan
    <2> HIDE DEF rest
    <2> QED
        BY <2>1, <2>2, OpensFirst
<1>6. CASE focus.kind = "StatefulSet"
    <2> DEFINE rest == <<Step("statefulSetPods"), Step("services"), Step("events"), Step("finish")>>
    <2>1. rest \in Seq(GoodTask)
        BY <1>2
    <2>2. Plan(object) = first \o rest
        BY <1>6 DEF Plan
    <2> HIDE DEF rest
    <2> QED
        BY <2>1, <2>2, OpensFirst
<1>7. CASE focus.kind = "Job"
    <2> DEFINE rest == <<About("jobPods", object), Step("events"), Step("finish")>>
               all == <<Step("clusterInfo"), About("jobPods", object), Step("events"), Step("finish")>>
    <2>1. About("jobPods", object) \in GoodTask
        BY AboutIsGood DEF PlainTask
    <2>2. rest \in Seq(GoodTask)
        BY <1>2, <2>1
    <2>3. all = first \o rest
        OBVIOUS
    <2>4. Plan(object) = JobTasks(object) \o all
        BY <1>7 DEF Plan
    <2> HIDE DEF rest, all
    <2>5. all \in Seq(GoodTask) /\ Opens(all)
        BY <2>2, <2>3, OpensFirst
    <2> QED
        BY <2>4, <2>5, JobTasksAreGood, PlainThenOpens
<1>8. CASE focus.kind = "CronJob"
    <2> DEFINE rest == <<Step("cronJobJobs"), Step("events"), Step("finish")>>
    <2>1. rest \in Seq(GoodTask)
        BY <1>2
    <2>2. Plan(object) = first \o rest
        BY <1>8 DEF Plan
    <2> HIDE DEF rest
    <2> QED
        BY <2>1, <2>2, OpensFirst
<1>9. CASE focus.kind = "Pod"
    <2> DEFINE rest == <<Step("services"), Step("autoscalers"), Step("events"), Step("finish")>>
               all == <<Step("clusterInfo"), Step("services"), Step("autoscalers"),
                        Step("events"), Step("finish")>>
    <2>1. rest \in Seq(GoodTask)
        BY <1>2
    <2>2. all = first \o rest
        OBVIOUS
    <2>3. Plan(object) = PodTasks(object) \o all
        BY <1>9 DEF Plan
    <2> HIDE DEF rest, all
    <2>4. all \in Seq(GoodTask) /\ Opens(all)
        BY <2>1, <2>2, OpensFirst
    <2> QED
        BY <2>3, <2>4, PodTasksAreGood, PlainThenOpens
<1> QED
    BY <1>3, <1>4, <1>5, <1>6, <1>7, <1>8, <1>9 DEF FocusKinds

\* The version, or why it is not known, stays with the graph.
LEMMA VersionStays ==
    ASSUME NEW g, NEW h, Extends(g, h), VersionKnown(g)
    PROVE  VersionKnown(h)
BY DEF Extends, VersionKnown, HasCollectionIssue

-----------------------------------------------------------------------------
(* The invariant of the graph. *)

\* What could not be read, until the command gives up: then there is no graph.
Lost == IF status = "failed" THEN {} ELSE failed

\* The controllers of g have all seen the specifications g holds.
IsCurrent(g) ==
    \A r \in DOMAIN g.nodes :
        (r.kind \in {"Deployment", "ReplicaSet", "StatefulSet"} /\ ObjectOf(g, r) # NoObject) =>
            ObjectOf(g, r).gen = 0 \/ ObjectOf(g, r).obs >= ObjectOf(g, r).gen

VersionDue ==
    /\ status = "running" /\ graph.start # NoObject => VersionKnown(graph) \/ Opens(work)
    /\ status = "collected" => VersionKnown(graph)

GInv ==
    /\ work \in Seq(GoodTask)
    /\ notFound \subseteq Refs
    /\ graph.focus = focus
    /\ graph.stability \in {"unknown", "stable", "changed"}
    /\ Sound(graph, notFound, Lost)
    /\ status = "running" /\ graph.start = NoObject => failed = {}
    /\ VersionDue
    /\ status = "collected" => Suspended(graph) \/ IsCurrent(graph)

\* It holds of the empty graph.
LEMMA InitGInv == Init => GInv
<1> SUFFICES ASSUME Init PROVE GInv
    OBVIOUS
<1>1. /\ graph = NewGraph(focus) /\ work = <<>> /\ status = "running"
      /\ failed = {} /\ notFound = {}
    BY DEF Init
<1>2. graph.focus = focus /\ graph.start = NoObject /\ graph.stability = "unknown"
    BY <1>1, NewGraphIsGraph
<1>3. Sound(graph, notFound, Lost)
    BY <1>1, NewGraphIsSound DEF Lost
<1>4. work \in Seq(GoodTask)
    BY <1>1
<1> QED
    BY <1>1, <1>2, <1>3, <1>4 DEF GInv, VersionDue

\* The first read of the focus keeps it: what it finds is there to plan with.
LEMMA ReadFocusGInv ==
    ASSUME IInv, GInv, ReadFocus
    PROVE  GInv'
<1>1. /\ status = "running" /\ graph.start = NoObject
      /\ UNCHANGED focus
      /\ focus \in Foci /\ focus \in Refs /\ ClusterInv
    BY DEF ReadFocus, IInv
<1>2. PICK ok \in BOOLEAN :
        /\ Get(SourceOf(focus.kind), focus, ok)
        /\ \/ /\ Got(focus, ok) = NoObject
              /\ status' = "failed"
              /\ UNCHANGED <<work, graph>>
           \/ /\ Got(focus, ok) # NoObject
              /\ graph' = AddNode(BeginCollection(NewGraph(focus), Got(focus, ok)),
                                  focus, Got(focus, ok))
              /\ work' = Plan(Got(focus, ok))
              /\ UNCHANGED status
    BY DEF ReadFocus
<1>3. failed = {} /\ Lost = {} /\ Working
    BY <1>1 DEF GInv, Lost, Working
<1>4. /\ notFound \subseteq notFound' /\ notFound' \subseteq Refs
      /\ failed' = IF ok THEN failed ELSE failed \cup {Unread(SourceOf(focus.kind), focus)}
      /\ Got(focus, ok) # NoObject =>
            ok /\ Got(focus, ok) \in Object /\ Got(focus, ok).ref = focus
    BY <1>1, <1>2, <1>3, GetAnswers
<1>5. CASE Got(focus, ok) = NoObject
    <2>1. status' = "failed" /\ UNCHANGED <<work, graph>>
        BY <1>2, <1>5
    <2>2. Lost' = {}
        BY <2>1 DEF Lost
    <2>3. Sound(graph, notFound', {})
        BY <1>3, <1>4, SoundIsMonotone DEF Working
    <2>4. Sound(graph', notFound', Lost')
        BY <2>1, <2>2, <2>3
    <2> QED
        BY <1>1, <1>4, <2>1, <2>4 DEF GInv, VersionDue
<1>6. CASE Got(focus, ok) # NoObject
    <2> DEFINE object == Got(focus, ok)
               g == BeginCollection(NewGraph(focus), object)
    <2>1. /\ graph' = AddNode(g, focus, object) /\ work' = Plan(object) /\ status' = "running"
          /\ object \in Object /\ object.ref = focus /\ failed' = {}
        BY <1>1, <1>2, <1>3, <1>4, <1>6
    <2>2. FocusFound
        BY <1>2, <1>6 DEF FocusFound
    <2>3. graph'.start # NoObject
        BY <2>2, FirstRead
    <2>4. IsGraph(g) /\ g.focus = focus /\ g.stability = "unknown"
        BY NewGraphIsGraph, BeginCollectionStarts
    <2>5. Sound(g, notFound', {})
        BY NewGraphIsSound, BeginIsSound, SoundIsMonotone
    <2> HIDE DEF object, g
    <2>6. graph'.focus = focus /\ graph'.stability = "unknown"
        BY <2>1, <2>4, AddNodeExtends DEF Extends
    <2>7. Sound(graph', notFound', Lost')
        BY <1>1, <2>1, <2>5, AddNodeIsSound DEF Lost
    <2>8. work' \in Seq(GoodTask) /\ Opens(work')
        BY <1>1, <2>1, PlanOpens
    <2>9. VersionDue'
        BY <2>1, <2>8 DEF VersionDue
    <2> QED
        BY <1>1, <1>4, <2>1, <2>3, <2>6, <2>7, <2>8, <2>9 DEF GInv
<1> QED
    BY <1>5, <1>6

\* What is left to do is good, and the version still to come if it was.
LEMMA RestOfWork ==
    ASSUME work \in Seq(GoodTask), work # <<>>, Head(work).op # "clusterInfo",
           NEW tasks \in Seq(PlainTask)
    PROVE  /\ tasks \o Tail(work) \in Seq(GoodTask)
           /\ Opens(work) => Opens(tasks \o Tail(work))
<1>1. Tail(work) \in Seq(GoodTask)
    BY HeadTailProperties
<1>2. tasks \in Seq(GoodTask)
    <2>1. tasks \in [1..Len(tasks) -> PlainTask] /\ Len(tasks) \in Nat
        BY LenProperties
    <2>2. tasks \in [1..Len(tasks) -> GoodTask]
        BY <2>1 DEF PlainTask
    <2> QED
        BY <2>1, <2>2
<1>3. tasks \o Tail(work) \in Seq(GoodTask)
    BY <1>1, <1>2, ConcatProperties
<1>4. Opens(work) => Opens(tasks \o Tail(work))
    BY OpensRest, PlainThenOpens
<1> QED
    BY <1>3, <1>4

\* Every step between the two reads keeps it.
LEMMA AdvancesGInv ==
    ASSUME IInv, GInv, Gathers, Advances
    PROVE  GInv'
<1>1. /\ status = "running" /\ status' = "running" /\ UNCHANGED focus
      /\ Extends(graph, graph') /\ work # <<>>
    BY DEF Gathers, Advances
<1>2. PICK tasks \in Seq(PlainTask) : work' = tasks \o Tail(work)
    BY DEF Advances
<1>3. Head(work).op # "clusterInfo"
    BY DEF Advances
<1>4. work' \in Seq(GoodTask) /\ (Opens(work) => Opens(work'))
    BY <1>1, <1>2, <1>3, RestOfWork DEF GInv
<1>5. graph.start # NoObject
    BY <1>1 DEF IInv
<1>6. VersionDue'
    BY <1>1, <1>4, <1>5, VersionStays DEF VersionDue, GInv
<1>7. Sound(graph', notFound', Lost') /\ notFound' \subseteq Refs
    BY <1>1 DEF Advances, Lost
<1>8. graph'.focus = focus /\ graph'.stability = graph.stability /\ graph'.start # NoObject
    BY <1>1, <1>5 DEF Extends, GInv
<1> QED
    BY <1>1, <1>4, <1>6, <1>7, <1>8 DEF GInv

\* So does the step for the version, which settles it.
LEMMA CollectClusterInfoGInv ==
    ASSUME IInv, GInv, CollectClusterInfo
    PROVE  GInv'
<1>1. PICK ok \in BOOLEAN :
        /\ Call("kubernetes-version", focus, ok)
        /\ graph' = IF ok THEN SetKubernetesVersion(graph) ELSE VersionIssue(graph)
    BY DEF CollectClusterInfo
<1>2. /\ status = "running" /\ work # <<>> /\ UNCHANGED <<focus, notFound>>
      /\ \/ work' = <<>> /\ status' = "failed"
         \/ work' = <<>> \o Tail(work) /\ status' = "running"
    BY DEF CollectClusterInfo, Doing, Continue
<1>3. Tail(work) \in Seq(GoodTask) /\ <<>> \o Tail(work) = Tail(work) /\ <<>> \in Seq(GoodTask)
    BY <1>2, HeadTailProperties DEF GInv
<1>4. work' \in Seq(GoodTask)
    BY <1>2, <1>3
<1>5. failed' = IF ok THEN failed ELSE failed \cup {Unread("kubernetes-version", focus)}
    BY <1>1 DEF Call
<1>6. Sound(graph, notFound, failed) /\ IsGraph(graph) /\ graph.focus = focus
    BY <1>2 DEF GInv, Lost, IInv
<1>7. Sound(graph', notFound', failed') /\ VersionKnown(graph')
    <2>1. CASE ok
        <3>1. graph' = SetKubernetesVersion(graph) /\ failed' = failed
            BY <1>1, <1>5, <2>1
        <3>2. SetKubernetesVersion(graph).version
            BY <1>6 DEF SetKubernetesVersion, IsGraph, GraphFields
        <3> QED
            BY <1>2, <1>6, <3>1, <3>2, OthersAreSound DEF VersionKnown
    <2>2. CASE ~ok
        <3>1. /\ graph' = AddIssue(graph, "kubernetes-version", focus, TRUE)
              /\ failed' = failed \cup {Unread("kubernetes-version", focus)}
            BY <1>1, <1>5, <2>2 DEF VersionIssue
        <3>2. /\ Sound(graph', notFound, failed')
              /\ HasCollectionIssue(graph', "kubernetes-version", focus)
            BY <1>6, <3>1, AddIssueIsSound
        <3>3. Extends(graph, graph')
            BY <1>6, <3>1, AddIssueExtends
        <3>4. graph'.focus = focus
            BY <1>6, <3>3 DEF Extends
        <3> QED
            BY <1>2, <3>2, <3>4 DEF VersionKnown
    <2> QED
        BY <2>1, <2>2
<1>8. Sound(graph', notFound', Lost')
    BY <1>7, SoundIsMonotone DEF Lost
<1>9. Extends(graph, graph')
    BY <1>1, <1>6, SetKubernetesVersionExtends, AddIssueExtends DEF VersionIssue
<1>10. graph.start # NoObject
    BY <1>2 DEF IInv
<1>11. graph'.focus = focus /\ graph'.stability = graph.stability /\ graph'.start # NoObject
    BY <1>6, <1>9, <1>10 DEF Extends
<1> QED
    BY <1>2, <1>4, <1>7, <1>8, <1>11 DEF GInv, VersionDue

\* A controller behind in the graph leaves an issue.
LEMMA FreshnessIsSound ==
    ASSUME NEW g, NEW A, NEW L, Sound(g, A, L)
    PROVE  LET h == ValidateControllerFreshness(g)
           IN  /\ Sound(h, A, L)
               /\ Suspended(h) \/ IsCurrent(h)
<1> DEFINE stale == StaleControllers(g)
           new == {Issue("temporal-integrity", r, TRUE) : r \in stale}
           h == ValidateControllerFreshness(g)
<1>1. /\ IsGraph(h) /\ h.nodes = g.nodes /\ h.edges = g.edges
      /\ h.issues = g.issues \cup new
    BY DEF ValidateControllerFreshness, Sound, Typed, IsGraph, GraphFields
<1>2. \A i \in new : i.affectsHealth
    BY DEF Issue
<1>3. Sound(h, A, L)
    <2> HIDE DEF new, h
    <2>1. Typed(h)
        BY <1>1 DEF Sound, Typed
    <2>2. Honest(h, A, L)
        BY <1>1 DEF Sound, Honest, HasCollectionIssue
    <2>3. Blocks(h)
        BY <1>1, <1>2 DEF Sound, Blocks
    <2> QED
        BY <2>1, <2>2, <2>3 DEF Sound
<1>4. CASE stale = {}
    <2>1. ASSUME NEW r \in DOMAIN g.nodes,
                 r.kind \in {"Deployment", "ReplicaSet", "StatefulSet"}, ObjectOf(g, r) # NoObject
          PROVE  ObjectOf(g, r).gen = 0 \/ ObjectOf(g, r).obs >= ObjectOf(g, r).gen
        <3>1. PICK o \in Object : o = ObjectOf(g, r)
            BY <2>1, HeldIsObject DEF Sound
        <3>2. o.gen \in Nat /\ o.obs \in Int
            BY DEF Object
        <3>3. ~(o.gen > 0 /\ o.obs < o.gen)
            BY <1>4, <2>1, <3>1 DEF StaleControllers
        <3> QED
            BY <3>1, <3>2, <3>3
    <2>2. \A r : ObjectOf(h, r) = ObjectOf(g, r)
        BY <1>1 DEF ObjectOf, InGraph
    <2> HIDE DEF h
    <2>3. IsCurrent(h)
        BY <1>1, <2>1, <2>2 DEF IsCurrent
    <2> QED
        BY <1>3, <2>3 DEF h
<1>5. CASE stale # {}
    <2>1. PICK r \in stale : Issue("temporal-integrity", r, TRUE) \in h.issues
        BY <1>1, <1>5
    <2>2. Suspended(h)
        BY <2>1 DEF Suspended, HasCollectionSourceIssue, Issue
    <2> QED
        BY <1>3, <2>2
<1> QED
    BY <1>4, <1>5

\* The last read keeps it: what it could not establish, or found moved, is an issue.
LEMMA FinishGInv ==
    ASSUME IInv, GInv, FinishFocusCollection
    PROVE  GInv'
<1> DEFINE Final(ok) == FinishCollection(graph, Got(focus, ok))
<1>1. PICK ok \in BOOLEAN :
        /\ Get("temporal-integrity", focus, ok)
        /\ graph' = IF Final(ok).stability = "stable"
                    THEN ValidateControllerFreshness(Final(ok))
                    ELSE AddIssue(Final(ok), "temporal-integrity", focus, TRUE)
    BY DEF FinishFocusCollection
<1> DEFINE g == Final(ok)
<1>2. /\ status = "running" /\ status' = "collected" /\ work' = <<>>
      /\ UNCHANGED focus /\ work # <<>> /\ Head(work).op = "finish"
    BY DEF FinishFocusCollection, Doing
<1>3. graph.start # NoObject /\ focus \in Refs /\ IsGraph(graph)
    BY <1>2 DEF IInv
<1>4. Working
    BY <1>2, <1>3 DEF Working, GInv, Lost, IInv
<1>5. /\ notFound' \subseteq Refs
      /\ failed' = IF ok THEN failed ELSE failed \cup {Unread("temporal-integrity", focus)}
      /\ Got(focus, ok) # NoObject => ok
      /\ Sound(graph, notFound', failed)
    BY <1>1, <1>3, <1>4, GetAnswers
<1>6. /\ IsGraph(g) /\ g.focus = graph.focus /\ g.nodes = graph.nodes
      /\ g.edges = graph.edges /\ g.issues = graph.issues /\ g.version = graph.version
      /\ g.stability \in {"unknown", "stable", "changed"}
      /\ g.stability = "stable" => Got(focus, ok) # NoObject
      /\ g.start = graph.start
    BY <1>3, FinishCollectionJudges
<1>7. graph' = IF g.stability = "stable" THEN ValidateControllerFreshness(g)
               ELSE AddIssue(g, "temporal-integrity", focus, TRUE)
    BY <1>1
<1> HIDE DEF g
<1>8. Sound(g, notFound', failed)
    BY <1>5, <1>6 DEF Sound, Typed, Honest, Blocks, HasCollectionIssue
<1>9. Sound(graph', notFound', failed') /\ (Suspended(graph') \/ IsCurrent(graph'))
    <2>1. CASE g.stability = "stable"
        <3>1. failed' = failed
            BY <1>5, <1>6, <2>1
        <3> QED
            BY <1>7, <1>8, <2>1, <3>1, FreshnessIsSound
    <2>2. CASE g.stability # "stable"
        <3>1. graph' = AddIssue(g, "temporal-integrity", focus, TRUE)
            BY <1>7, <2>2
        <3>2. /\ Sound(graph', notFound', failed)
              /\ Sound(graph', notFound', failed \cup {Unread("temporal-integrity", focus)})
              /\ HasCollectionIssue(graph', "temporal-integrity", focus)
            BY <1>8, <3>1, AddIssueIsSound
        <3>3. Suspended(graph')
            BY <3>2 DEF Suspended, HasCollectionSourceIssue, HasCollectionIssue
        <3> QED
            BY <1>5, <3>2, <3>3
    <2> QED
        BY <2>1, <2>2
<1>10. Extends(g, graph')
    BY <1>6, <1>7, ValidateControllerFreshnessExtends, AddIssueExtends
<1>11. VersionKnown(graph')
    <2>1. ~Opens(work)
        <3>1. DOMAIN work = 1..Len(work) /\ work[1] = Head(work)
            BY <1>2, LenProperties, HeadTailProperties DEF GInv
        <3>2. \A i \in DOMAIN work : i \in Nat /\ 1 \in 1..i
            BY <3>1
        <3> QED
            BY <1>2, <3>1, <3>2 DEF Opens
    <2>2. VersionKnown(graph)
        BY <1>2, <1>3, <2>1 DEF GInv, VersionDue
    <2>3. VersionKnown(g)
        BY <1>6, <2>2 DEF VersionKnown, HasCollectionIssue
    <2> QED
        BY <1>10, <2>3, VersionStays
<1>12. /\ graph'.focus = focus /\ graph'.stability \in {"unknown", "stable", "changed"}
       /\ graph'.start # NoObject
    BY <1>3, <1>6, <1>10 DEF Extends, GInv
<1>13. <<>> \in Seq(GoodTask)
    OBVIOUS
<1>14. Sound(graph', notFound', Lost')
    BY <1>2, <1>9 DEF Lost
<1> QED
    BY <1>2, <1>5, <1>9, <1>11, <1>12, <1>13, <1>14 DEF GInv, VersionDue

\* Every step of an inspection keeps the invariant of the graph.
LEMMA NextGInv == IInv /\ GInv /\ [Next]_vars => GInv'
<1> SUFFICES ASSUME IInv, GInv, [Next]_vars PROVE GInv'
    OBVIOUS
<1>1. CASE ReadFocus
    BY <1>1, ReadFocusGInv
<1>2. CASE CollectClusterInfo
    BY <1>2, CollectClusterInfoGInv
<1>3. CASE GatheringStep /\ ~CollectClusterInfo
    <2>1. Gathers
        BY <1>3, GatheringStepGathers DEF IInv
    <2>2. Working
        BY <2>1 DEF Gathers, Working, IInv, GInv, Lost
    <2> QED
        BY <1>3, <2>1, <2>2, GatheringAdvances, AdvancesGInv
<1>4. CASE FinishFocusCollection
    BY <1>4, FinishGInv
<1>5. CASE UNCHANGED <<focus, status, work, graph, failed, notFound>>
    BY <1>5 DEF GInv, Lost, VersionDue
<1>6. CASE Environment
    BY <1>5, <1>6 DEF Environment
<1>7. CASE Expire
    BY <1>5, <1>7 DEF Expire
<1>8. CASE UNCHANGED vars
    BY <1>5, <1>8 DEF vars, collectorVars
<1> QED
    BY <1>1, <1>2, <1>3, <1>4, <1>6, <1>7, <1>8, CollectorStepCases DEF Next

\* What a graph says is what was read, at every moment of an inspection.
THEOREM GraphInvariant == Spec => [](IInv /\ GInv)
<1>1. Init => IInv /\ GInv
    BY InitIInv, InitGInv
<1>2. IInv /\ GInv /\ [Next]_vars => IInv' /\ GInv'
    BY NextIInv, NextGInv
<1> QED
    BY <1>1, <1>2, PTL DEF Spec

-----------------------------------------------------------------------------
(* What follows from it. *)

\* The states of an inspection are well formed.
THEOREM Typing == Spec => []TypeOK
<1>1. IInv /\ GInv => TypeOK
    <2> SUFFICES ASSUME IInv, GInv PROVE TypeOK
        OBVIOUS
    <2>1. \A i \in DOMAIN work : work[i] \in TaskType
        BY LenProperties DEF GInv, GoodTask
    <2>2. graph.start \in Revision \cup {NoObject}
        BY DEF IInv, FocusWatched
    <2>3. /\ DOMAIN graph.nodes \subseteq Refs
          /\ \A r \in DOMAIN graph.nodes : graph.nodes[r] \in NodeOf(r)
          /\ graph.edges \subseteq EdgeType
        BY DEF GInv, Sound, Typed
    <2> QED
        BY <2>1, <2>2, <2>3 DEF TypeOK, IInv, GInv, ClusterInv, ClusterTypeOK, NodeOf
<1> QED
    BY <1>1, GraphInvariant, PTL

\* "Missing" is a fact, whichever calls fail and whoever writes the cluster: no
\* failed call, deadline or UID mismatch becomes one (collector.go:831-841, 904-915).
THEOREM MissingIsTold == Spec => []MissingIsDefinite
<1>1. GInv => MissingIsDefinite
    BY DEF GInv, Sound, Honest, MissingIsDefinite
<1> QED
    BY <1>1, GraphInvariant, PTL

\* Whatever could not be read is an issue on the graph, for every cluster and every
\* failure of a call (collector.go:6-9, graph.go:75-77).
THEOREM GapsAreTold == Spec => []NoSilentGap
<1>1. GInv => NoSilentGap
    BY DEF GInv, Sound, Honest, Lost, NoSilentGap
<1> QED
    BY <1>1, GraphInvariant, PTL

\* Rules are evaluated only over a stable focus, and controllers that had all seen
\* the specifications they are judged by (collector.go:669-753).
THEOREM EvaluationIsCurrent == Spec => []EvaluatedIsCurrent
<1>1. IInv /\ GInv => EvaluatedIsCurrent
    <2> SUFFICES ASSUME IInv, GInv, status = "collected", ~Suspended(graph)
                 PROVE  /\ ~disturbed
                        /\ \A r \in Nodes({"Deployment", "ReplicaSet", "StatefulSet"}) :
                            ObjectOf(graph, r) # NoObject =>
                                \/ ObjectOf(graph, r).gen = 0
                                \/ ObjectOf(graph, r).obs >= ObjectOf(graph, r).gen
        BY DEF EvaluatedIsCurrent
    <2>1. graph.stability = "stable"
        BY DEF IInv, Concluded, Suspended, HasCollectionSourceIssue, Issue
    <2>2. ~disturbed
        BY <2>1 DEF IInv, Concluded
    <2>3. IsCurrent(graph)
        BY DEF GInv
    <2> QED
        BY <2>2, <2>3 DEF IsCurrent, Nodes
<1> QED
    BY <1>1, GraphInvariant, PTL

\* The graph handed to the engine is one it can be sure of: the version or the issue
\* why not, and no issue that keeps rules from being judged leaves health alone
\* (collector.go:669-701, 755-802, engine.go:81-107).
THEOREM HandsOver == Spec => []HandsOverCollectedGraph
<1>1. GInv => HandsOverCollectedGraph
    BY DEF GInv, VersionDue, VersionKnown, Sound, Blocks, HandsOverCollectedGraph, CollectedGraph
<1> QED
    BY <1>1, GraphInvariant, PTL

-----------------------------------------------------------------------------
(* Who owns whom, and which Events, runs and HPAs are in the graph: what is  *)
(* held of an object, and what the tasks left will say of it.                *)

ExactKinds == {"Job", "StatefulSet", "CronJob"}

OwnedBy(object, ref, uid) ==
    \E i \in DOMAIN object.owners :
        object.owners[i] = [ref |-> ref, uid |-> uid, controller |-> TRUE]

\* A uid is of one resource, and an object has one controller at most.
Genuine(object) ==
    /\ object.uid[1] = object.ref
    /\ \A i \in DOMAIN object.owners : object.owners[i].uid[1] = object.owners[i].ref
    /\ OneController(object.owners)

ClusterGenuine == \A r \in Refs : cluster[r] # NoObject => Genuine(cluster[r])

\* What a write creates is genuine, if the uids it is given are.
LEMMA NewObjectIsGenuine ==
    ASSUME NEW r \in Refs, NEW n, NEW uids,
           \A i \in DOMAIN Shape[r].owners : uids[Shape[r].owners[i].ref][1] = Shape[r].owners[i].ref
    PROVE  Genuine(NewObject(r, n, uids))
<1> DEFINE s == Shape[r].owners
           o == NewObject(r, n, uids)
<1>1. /\ o.uid = <<r, n>> /\ o.ref = r
      /\ DOMAIN o.owners = DOMAIN s
      /\ \A i \in DOMAIN s : /\ o.owners[i].ref = s[i].ref
                             /\ o.owners[i].uid = uids[s[i].ref]
                             /\ o.owners[i].controller = s[i].controller
    BY DEF NewObject
<1>2. OneController(s)
    BY ClusterAssumption
<1> HIDE DEF o
<1>3. OneController(o.owners)
    BY <1>1, <1>2 DEF OneController
<1> QED
    BY <1>1, <1>3 DEF Genuine, o

\* No write of an object that exists changes its identity or its owners.
LEMMA UpdatedIsGenuine ==
    ASSUME NEW o \in Object, Genuine(o), NEW n, NEW gen, NEW obs
    PROVE  Genuine(Updated(o, n, gen, obs)) /\ Genuine(Settled(o))
<1>1. /\ Updated(o, n, gen, obs).uid = o.uid /\ Settled(o).uid = o.uid
      /\ Updated(o, n, gen, obs).ref = o.ref /\ Settled(o).ref = o.ref
      /\ Updated(o, n, gen, obs).owners = o.owners /\ Settled(o).owners = o.owners
    BY DEF Updated, Settled, Object
<1> QED
    BY <1>1 DEF Genuine

\* The cluster begins with genuine objects.
LEMMA InitGenuine == ClusterInit => ClusterGenuine
<1> SUFFICES ASSUME ClusterInit PROVE ClusterGenuine
    OBVIOUS
<1> DEFINE ones == [x \in Refs |-> <<x, 1>>]
           New(r) == NewObject(r, 1, ones)
<1>1. PICK present \in InitialClusters :
        cluster = [r \in Refs |-> IF r \in present THEN Settled(New(r)) ELSE NoObject]
    BY DEF ClusterInit
<1>2. ASSUME NEW r \in Refs
      PROVE  New(r) \in Object /\ Genuine(New(r))
    <2>1. ones \in [Refs -> UID]
        BY DEF UID
    <2>2. \A i \in DOMAIN Shape[r].owners : Shape[r].owners[i].ref \in Refs
        BY ShapeOwners
    <2>3. \A i \in DOMAIN Shape[r].owners :
            ones[Shape[r].owners[i].ref][1] = Shape[r].owners[i].ref
        BY <2>2
    <2> HIDE DEF ones
    <2> QED
        BY <2>1, <2>2, <2>3, NewObjectType, NewObjectIsGenuine
<1> HIDE DEF New
<1>3. \A r \in Refs : Genuine(Settled(New(r)))
    BY <1>2, UpdatedIsGenuine
<1> QED
    BY <1>1, <1>3 DEF ClusterGenuine

\* Whoever writes the cluster leaves genuine objects: a new one names the uids its
\* owners have at that moment.
LEMMA WriteGenuine ==
    ASSUME ClusterInv, ClusterGenuine, NEW r \in Refs, ClusterWrite(r)
    PROVE  ClusterGenuine'
<1>1. SUFFICES cluster'[r] # NoObject => Genuine(cluster'[r])
    BY WriteAdvances DEF ClusterGenuine
<1>2. cluster \in [Refs -> Object \cup {NoObject}]
    BY DEF ClusterInv, ClusterTypeOK
<1>3. CASE Create(r)
    <2> DEFINE uids == [x \in Present |-> cluster[x].uid]
    <2>1. \A i \in DOMAIN Shape[r].owners : Shape[r].owners[i].ref \in Present
        BY <1>3 DEF Create
    <2>2. \A x \in Present : x \in Refs /\ cluster[x].uid[1] = x
        BY DEF Present, ClusterGenuine, Genuine, ClusterInv
    <2>3. \A i \in DOMAIN Shape[r].owners :
            uids[Shape[r].owners[i].ref][1] = Shape[r].owners[i].ref
        BY <2>1, <2>2
    <2>4. cluster' = [cluster EXCEPT ![r] = NewObject(r, revision + 1, uids)]
        BY <1>3 DEF Create, Write
    <2> HIDE DEF uids
    <2> QED
        BY <1>2, <2>3, <2>4, NewObjectIsGenuine
<1>4. CASE Delete(r)
    BY <1>2, <1>4 DEF Delete, Write
<1>5. ASSUME cluster[r] # NoObject,
             \E gen, obs : cluster' = [cluster EXCEPT ![r] = Updated(cluster[r], revision + 1, gen, obs)]
      PROVE  Genuine(cluster'[r])
    <2>1. PICK gen, obs : cluster'[r] = Updated(cluster[r], revision + 1, gen, obs)
        BY <1>2, <1>5
    <2>2. cluster[r] \in Object /\ Genuine(cluster[r])
        BY <1>2, <1>5 DEF ClusterGenuine
    <2>3. Genuine(Updated(cluster[r], revision + 1, gen, obs))
        BY <2>2, UpdatedIsGenuine
    <2> QED
        BY <2>1, <2>3
<1>6. CASE ChangeSpec(r)
    BY <1>5, <1>6 DEF ChangeSpec, Write
<1>7. CASE Reconcile(r)
    BY <1>5, <1>7 DEF Reconcile, Write
<1>8. CASE Touch(r)
    BY <1>5, <1>8 DEF Touch, Write
<1> QED
    BY <1>3, <1>4, <1>6, <1>7, <1>8 DEF ClusterWrite

\* A Job, StatefulSet or CronJob owns what names its uid as controller; a Deployment
\* owns ReplicaSets alone; an HPA scales its target.
Proper(g, e) ==
    /\ e.type = "owns" /\ e.from.kind \in ExactKinds =>
        /\ ObjectOf(g, e.from) # NoObject
        /\ ObjectOf(g, e.to) # NoObject
        /\ OwnedBy(ObjectOf(g, e.to), e.from, ObjectOf(g, e.from).uid)
    /\ e.type = "owns" /\ e.from.kind = "Deployment" => e.to.kind = "ReplicaSet"
    /\ e.type = "scales" => e.to \in Shape[e.from].target

HpaSeen(g, h) ==
    /\ ObjectOf(g, h) # NoObject
    /\ \E e \in g.edges : e.type = "scales" /\ e.from = h
    /\ \/ HpaStatusIsCurrent(ObjectOf(g, h))
       \/ HasCollectionIssue(g, "horizontalpodautoscaler", h)

TheRun(g, j) ==
    /\ ObjectOf(g, j) # NoObject
    /\ g.start # NoObject /\ OwnedBy(ObjectOf(g, j), g.focus, g.start.uid)
    /\ Shape[j].stamped
    /\ \A k \in DOMAIN g.nodes : k.kind = "Job" => k = j

\* What may be read off a graph.
Faithful(g) ==
    /\ \A r \in DOMAIN g.nodes : ObjectOf(g, r) # NoObject => Genuine(ObjectOf(g, r))
    /\ \A e \in g.edges : Proper(g, e)
    /\ \A e \in g.events :
        ObjectOf(g, e.involved) # NoObject /\ e.uid = ObjectOf(g, e.involved).uid
    /\ \A h \in DOMAIN g.nodes : h.kind = "HorizontalPodAutoscaler" => HpaSeen(g, h)
    /\ g.start # NoObject =>
        ObjectOf(g, g.focus) # NoObject /\ ObjectOf(g, g.focus).uid = g.start.uid
    /\ g.focus.kind = "CronJob" =>
        \A j \in DOMAIN g.nodes : j.kind = "Job" => TheRun(g, j)

\* Tasks that list Pods, or lead to such a list; and all that lead to a Pod.
PodSources == {"selectedPods", "replicaSets", "deploymentPods", "statefulSetPods", "jobPods",
               "cronJobJobs"}

PodOps == PodSources \cup {"pod"}

\* Tasks about an object the graph holds.
AboutHeld == {"podEvents", "exactOwner", "jobPods"}

\* An edge that awaits the Pod it leads to.
PodEdge(g, t, e) ==
    /\ e.type # "scales"
    /\ e.type = "owns" => e.from.kind # "Deployment"
    /\ e.type = "owns" /\ e.from.kind \in ExactKinds =>
        /\ e.to = t.ref
        /\ ObjectOf(g, e.from) # NoObject
        /\ OwnedBy(t.object, e.from, ObjectOf(g, e.from).uid)

\* A Pod waits until no other incarnation of it can have been added before.
PodAwaits(g, t) ==
    /\ t.object.ref = t.ref /\ t.ref.kind = "Pod"
    /\ ObjectOf(g, t.ref) \in {NoObject, t.object}
    /\ \A e \in t.edges : PodEdge(g, t, e)

\* Below a CronJob the Job of a Pod is the run the graph already has.
RunIsKnown(g, t) ==
    /\ t.op = "exactOwner" /\ t.ref.kind = "Job" => t.ref \in DOMAIN g.nodes
    /\ t.op = "pod" =>
        \A i \in DOMAIN t.object.owners :
            t.object.owners[i].controller => t.object.owners[i].ref \in DOMAIN g.nodes

\* Which functions ask for what: each list of Pods is about a focus of one kind.
FocusFits(g, t) ==
    /\ t.op = "selectedPods" => g.focus.kind = "Service"
    /\ t.op \in {"replicaSets", "deploymentPods"} => g.focus.kind = "Deployment"
    /\ t.op = "statefulSetPods" => g.focus.kind = "StatefulSet"
    /\ t.op = "cronJobJobs" =>
        g.focus.kind = "CronJob" /\ \A r \in DOMAIN g.nodes : r.kind # "Job"
    /\ t.op \in PodSources => \A r \in DOMAIN g.nodes : r.kind # "Pod"

\* Tasks that say nothing beyond the objects they start from and lead to.
Simple == {"replicaSet", "configMap", "secret", "claim", "node"}

\* What a task left will say is true of the graph as it is.
Fits(g, t) ==
    /\ t.op \in OfObject => Genuine(t.object)
    /\ t.op \in Simple => t.ref.kind \notin ExactKinds
    /\ t.op \in AboutHeld => ObjectOf(g, t.object.ref) = t.object
    /\ t.op = "exactOwner" => t.ref.kind \in ExactKinds /\ OwnedBy(t.object, t.ref, t.uid)
    /\ t.op = "jobPods" => t.object.ref.kind = "Job"
    /\ t.op = "deployment" => t.ref.kind = "Deployment" /\ t.object.ref.kind = "ReplicaSet"
    /\ t.op = "service" => t.object.ref.kind = "Service"
    /\ t.op = "link" => \A e \in t.edges : Proper(g, e)
    /\ t.op = "pod" => PodAwaits(g, t)
    /\ FocusFits(g, t)
    /\ g.focus.kind = "CronJob" => RunIsKnown(g, t)

Fit(g) == {t \in GoodTask : Fits(g, t)}

\* Those that neither are a Pod nor lead to one.
Other(g) == {t \in Fit(g) : t.op \notin PodOps}

\* One list of Pods at a time, and no two incarnations of a Pod in it.
Apart(w) ==
    \A i, j \in DOMAIN w : i # j =>
        /\ w[i].op \in PodSources => w[j].op \notin PodOps
        /\ w[i].op = "pod" /\ w[j].op = "pod" /\ w[i].ref = w[j].ref => w[i].object = w[j].object

\* The inductive invariant of what the graph says.
OInv ==
    /\ ClusterGenuine
    /\ Faithful(graph)
    /\ work \in Seq(Fit(graph))
    /\ Apart(work)

-----------------------------------------------------------------------------

\* What any addition keeps: objects held, edges, issues, and the first read.
Grows(g, h) ==
    /\ h.focus = g.focus
    /\ h.start = g.start
    /\ DOMAIN g.nodes \subseteq DOMAIN h.nodes
    /\ \A r : ObjectOf(g, r) # NoObject => ObjectOf(h, r) = ObjectOf(g, r)
    /\ g.edges \subseteq h.edges
    /\ g.issues \subseteq h.issues

\* Kinds whose nodes are added in one place alone.
Special(g) ==
    {"Pod", "HorizontalPodAutoscaler"} \cup (IF g.focus.kind = "CronJob" THEN {"Job"} ELSE {})

\* An addition that brings none of those, no Event, and only what may be read off.
Plainly(g, h) ==
    /\ Grows(g, h)
    /\ h.events = g.events
    /\ \A r \in DOMAIN h.nodes : r.kind \in Special(g) =>
        r \in DOMAIN g.nodes /\ ObjectOf(h, r) = ObjectOf(g, r)
    /\ \A r \in DOMAIN h.nodes :
        ObjectOf(h, r) # NoObject => ObjectOf(h, r) = ObjectOf(g, r) \/ Genuine(ObjectOf(h, r))
    /\ \A e \in h.edges : e \in g.edges \/ Proper(h, e)

\* An edge that may be read off a graph may be read off what it grows into.
LEMMA ProperStays ==
    ASSUME NEW g, NEW h, Grows(g, h), NEW e, Proper(g, e)
    PROVE  Proper(h, e)
BY DEF Proper, Grows

\* Nothing is added plainly.
LEMMA PlainlyReflexive ==
    ASSUME NEW g
    PROVE  Plainly(g, g)
BY DEF Plainly, Grows

\* Plain additions to plain additions are plain additions.
LEMMA PlainlyTransitive ==
    ASSUME NEW g, NEW h, NEW k, Plainly(g, h), Plainly(h, k)
    PROVE  Plainly(g, k)
<1>1. Grows(g, k)
    BY DEF Plainly, Grows
<1>2. k.events = g.events /\ Special(h) = Special(g)
    BY DEF Plainly, Grows, Special
<1>3. \A r \in DOMAIN k.nodes : r.kind \in Special(g) =>
        r \in DOMAIN g.nodes /\ ObjectOf(k, r) = ObjectOf(g, r)
    BY <1>2 DEF Plainly
<1>4. \A e \in k.edges : e \in g.edges \/ Proper(k, e)
    BY ProperStays DEF Plainly
<1>5. ASSUME NEW r \in DOMAIN k.nodes, ObjectOf(k, r) # NoObject
      PROVE  ObjectOf(k, r) = ObjectOf(g, r) \/ Genuine(ObjectOf(k, r))
    <2>1. CASE ObjectOf(k, r) = ObjectOf(h, r)
        <3>1. r \in DOMAIN h.nodes /\ ObjectOf(h, r) # NoObject
            BY <1>5, <2>1 DEF ObjectOf, InGraph
        <3> QED
            BY <2>1, <3>1 DEF Plainly
    <2>2. CASE ObjectOf(k, r) # ObjectOf(h, r)
        BY <1>5, <2>2 DEF Plainly
    <2> QED
        BY <2>1, <2>2
<1> QED
    BY <1>1, <1>2, <1>3, <1>4, <1>5 DEF Plainly

\* A faithful graph stays faithful under plain additions.
LEMMA PlainlyFaithful ==
    ASSUME NEW g, NEW h, Faithful(g), Plainly(g, h)
    PROVE  Faithful(h)
<1>1. Grows(g, h)
    BY DEF Plainly
<1>2. ASSUME NEW r \in DOMAIN h.nodes, ObjectOf(h, r) # NoObject
      PROVE  Genuine(ObjectOf(h, r))
    <2>1. ObjectOf(h, r) = ObjectOf(g, r) => r \in DOMAIN g.nodes /\ ObjectOf(g, r) # NoObject
        BY <1>2 DEF ObjectOf, InGraph
    <2> QED
        BY <1>2, <2>1 DEF Plainly, Faithful
<1>3. \A e \in h.edges : Proper(h, e)
    BY <1>1, ProperStays DEF Plainly, Faithful
<1>4. \A e \in h.events :
        ObjectOf(h, e.involved) # NoObject /\ e.uid = ObjectOf(h, e.involved).uid
    BY DEF Plainly, Faithful, Grows
<1>5. ASSUME NEW r \in DOMAIN h.nodes, r.kind = "HorizontalPodAutoscaler"
      PROVE  HpaSeen(h, r)
    <2>1. r \in DOMAIN g.nodes
        BY <1>5 DEF Plainly, Special
    <2>2. HpaSeen(g, r)
        BY <1>5, <2>1 DEF Faithful
    <2> QED
        BY <2>2, <1>1 DEF HpaSeen, Grows, HasCollectionIssue
<1>6. h.start # NoObject =>
        ObjectOf(h, h.focus) # NoObject /\ ObjectOf(h, h.focus).uid = h.start.uid
    BY <1>1 DEF Grows, Faithful
<1>7. ASSUME h.focus.kind = "CronJob", NEW j \in DOMAIN h.nodes, j.kind = "Job"
      PROVE  TheRun(h, j)
    <2>1. \A k \in DOMAIN h.nodes : k.kind = "Job" => k \in DOMAIN g.nodes
        BY <1>1, <1>7 DEF Plainly, Special, Grows
    <2>2. TheRun(g, j)
        BY <1>1, <1>7, <2>1 DEF Faithful, Grows
    <2> QED
        BY <2>1, <2>2, <1>1 DEF TheRun, Grows
<1> QED
    BY <1>2, <1>3, <1>4, <1>5, <1>6, <1>7 DEF Faithful

\* A task that fits goes on fitting as the graph grows, unless it waits for what was
\* added.
LEMMA FitsStays ==
    ASSUME NEW g, NEW h, Grows(g, h), NEW t \in Fit(g),
           t.op \in PodSources => \A r \in DOMAIN h.nodes : r.kind = "Pod" => r \in DOMAIN g.nodes,
           t.op = "cronJobJobs" => \A r \in DOMAIN h.nodes : r.kind = "Job" => r \in DOMAIN g.nodes,
           t.op = "pod" => ObjectOf(h, t.ref) \in {ObjectOf(g, t.ref), t.object}
    PROVE  t \in Fit(h)
<1>1. t \in GoodTask /\ Fits(g, t)
    BY DEF Fit
<1>2. ASSUME t.op \in AboutHeld
      PROVE  ObjectOf(h, t.object.ref) = t.object
    <2>1. t.op \in OfObject
        BY <1>2 DEF AboutHeld, OfObject
    <2>2. t.object # NoObject
        BY <1>1, <2>1, NoObjectAssumption DEF GoodTask
    <2> QED
        BY <1>1, <1>2, <2>2 DEF Fits, Grows
<1>3. t.op = "link" => \A e \in t.edges : Proper(h, e)
    BY <1>1, ProperStays DEF Fits
<1>4. t.op = "pod" => PodAwaits(h, t)
    BY <1>1 DEF Fits, PodAwaits, PodEdge, Grows
<1>5. FocusFits(h, t)
    BY <1>1 DEF Fits, FocusFits, Grows
<1>6. h.focus.kind = "CronJob" => RunIsKnown(h, t)
    BY <1>1 DEF Fits, RunIsKnown, Grows
<1>7. Fits(h, t)
    BY <1>1, <1>2, <1>3, <1>4, <1>5, <1>6 DEF Fits
<1> QED
    BY <1>1, <1>7 DEF Fit

\* Whatever waits goes on fitting when an addition is plain.
LEMMA PlainlyFits ==
    ASSUME NEW g, NEW h, Plainly(g, h)
    PROVE  Fit(g) \subseteq Fit(h) /\ Other(g) \subseteq Other(h)
<1>1. ASSUME NEW t \in Fit(g)
      PROVE  t \in Fit(h)
    <2>1. Grows(g, h) /\ Fits(g, t)
        BY DEF Plainly, Fit
    <2>2. \A r \in DOMAIN h.nodes : r.kind = "Pod" => r \in DOMAIN g.nodes
        BY DEF Plainly, Special
    <2>3. t.op = "cronJobJobs" => g.focus.kind = "CronJob"
        BY <2>1 DEF Fits, FocusFits
    <2>4. t.op = "cronJobJobs" => \A r \in DOMAIN h.nodes : r.kind = "Job" => r \in DOMAIN g.nodes
        BY <2>3 DEF Plainly, Special
    <2>5. t.op = "pod" => ObjectOf(h, t.ref) = ObjectOf(g, t.ref)
        <3> SUFFICES ASSUME t.op = "pod" PROVE ObjectOf(h, t.ref) = ObjectOf(g, t.ref)
            OBVIOUS
        <3>1. t.ref.kind \in Special(g)
            BY <2>1 DEF Fits, PodAwaits, Special
        <3>2. t.ref \in DOMAIN h.nodes => ObjectOf(h, t.ref) = ObjectOf(g, t.ref)
            BY <3>1 DEF Plainly
        <3>3. t.ref \notin DOMAIN h.nodes => t.ref \notin DOMAIN g.nodes
            BY <2>1 DEF Grows
        <3> QED
            BY <3>2, <3>3 DEF ObjectOf, InGraph
    <2> QED
        BY <2>1, <2>2, <2>4, <2>5, FitsStays
<1> QED
    BY <1>1 DEF Other

-----------------------------------------------------------------------------
(* The operators on a graph, as additions. *)

\* Putting a node of a kind that is not special, in place of none or of one that holds
\* no object.
LEMMA PutNodePlainly ==
    ASSUME NEW g, IsGraph(g), NEW ref, ref.kind \notin Special(g), ObjectOf(g, ref) = NoObject,
           NEW node, node.object = NoObject \/ Genuine(node.object)
    PROVE  Plainly(g, PutNode(g, ref, node))
<1> DEFINE h == PutNode(g, ref, node)
<1>1. /\ h.focus = g.focus /\ h.start = g.start /\ h.edges = g.edges
      /\ h.issues = g.issues /\ h.events = g.events
      /\ DOMAIN h.nodes = DOMAIN g.nodes \cup {ref}
      /\ \A r \in DOMAIN h.nodes : h.nodes[r] = IF r = ref THEN node ELSE g.nodes[r]
    BY DEF PutNode, IsGraph, GraphFields
<1> HIDE DEF h
<1>2. \A r : r # ref => ObjectOf(h, r) = ObjectOf(g, r)
    BY <1>1 DEF ObjectOf, InGraph
<1>3. ObjectOf(h, ref) = node.object
    BY <1>1 DEF ObjectOf, InGraph
<1>4. Grows(g, h)
    BY <1>1, <1>2 DEF Grows
<1> QED
    BY <1>1, <1>2, <1>3, <1>4 DEF Plainly, h

\* Adding an object, or its definite absence.
LEMMA AddNodePlainly ==
    ASSUME NEW g, IsGraph(g), NEW ref, ref.kind \notin Special(g),
           NEW object, object = NoObject \/ Genuine(object)
    PROVE  Plainly(g, AddNode(g, ref, object))
BY PutNodePlainly, PlainlyReflexive DEF AddNode

\* Adding a node of unknown existence.
LEMMA AddUnknownNodePlainly ==
    ASSUME NEW g, IsGraph(g), NEW ref, ref.kind \notin Special(g)
    PROVE  Plainly(g, AddUnknownNode(g, ref))
<1>1. CASE InGraph(g, ref)
    BY <1>1, PlainlyReflexive DEF AddUnknownNode
<1>2. CASE ~InGraph(g, ref)
    BY <1>2, PutNodePlainly DEF AddUnknownNode, ObjectOf
<1> QED
    BY <1>1, <1>2

\* Adding the objects of a list.
LEMMA AddNodesPlainly ==
    ASSUME NEW g, IsGraph(g), NEW objects,
           \A o \in objects : Genuine(o) /\ o.ref.kind \notin Special(g)
    PROVE  Plainly(g, AddNodes(g, objects))
<1> DEFINE h == AddNodes(g, objects)
<1>1. /\ h.focus = g.focus /\ h.start = g.start /\ h.edges = g.edges
      /\ h.issues = g.issues /\ h.events = g.events
      /\ DOMAIN h.nodes = DOMAIN g.nodes \cup {o.ref : o \in objects}
    BY DEF AddNodes, IsGraph, GraphFields
<1>2. ASSUME NEW r
      PROVE  \/ ObjectOf(h, r) = ObjectOf(g, r)
             \/ ObjectOf(g, r) = NoObject /\ ObjectOf(h, r) \in {o \in objects : o.ref = r}
    <2> DEFINE named == {o \in objects : o.ref = r}
    <2>0. r \in DOMAIN h.nodes =>
            h.nodes[r] = IF ObjectOf(g, r) = NoObject /\ named # {}
                         THEN [object |-> CHOOSE o \in named : TRUE, unknown |-> FALSE]
                         ELSE g.nodes[r]
        BY <1>1 DEF AddNodes, IsGraph, GraphFields
    <2> HIDE DEF h
    <2>1. CASE r \in DOMAIN h.nodes /\ ObjectOf(g, r) = NoObject /\ named # {}
        <3>1. ObjectOf(h, r) = CHOOSE o \in named : TRUE
            BY <2>0, <2>1 DEF ObjectOf, InGraph
        <3> HIDE DEF named
        <3>2. ObjectOf(h, r) \in named
            BY <2>1, <3>1
        <3> QED
            BY <2>1, <3>2 DEF named
    <2>2. CASE r \in DOMAIN h.nodes /\ ~(ObjectOf(g, r) = NoObject /\ named # {})
        <3>1. h.nodes[r] = g.nodes[r]
            BY <2>0, <2>2
        <3>2. r \in DOMAIN g.nodes
            BY <1>1, <2>2 DEF ObjectOf, InGraph
        <3> QED
            BY <2>2, <3>1, <3>2 DEF ObjectOf, InGraph
    <2>3. CASE r \notin DOMAIN h.nodes
        BY <1>1, <2>3 DEF ObjectOf, InGraph
    <2> QED
        BY <2>1, <2>2, <2>3
<1> HIDE DEF h
<1>3. Grows(g, h)
    BY <1>1, <1>2 DEF Grows
<1>4. \A r \in DOMAIN h.nodes : r.kind \in Special(g) =>
        r \in DOMAIN g.nodes /\ ObjectOf(h, r) = ObjectOf(g, r)
    BY <1>1, <1>2
<1>5. \A r \in DOMAIN h.nodes :
        ObjectOf(h, r) # NoObject => ObjectOf(h, r) = ObjectOf(g, r) \/ Genuine(ObjectOf(h, r))
    BY <1>2
<1> QED
    BY <1>1, <1>3, <1>4, <1>5 DEF Plainly, h

\* Adding edges that may be read off the graph.
LEMMA AddEdgesPlainly ==
    ASSUME NEW g, IsGraph(g), NEW edges, \A e \in edges : Proper(g, e)
    PROVE  Plainly(g, AddEdges(g, edges))
<1> DEFINE h == AddEdges(g, edges)
<1>1. /\ h.focus = g.focus /\ h.start = g.start /\ h.edges = g.edges \cup edges
      /\ h.issues = g.issues /\ h.events = g.events /\ h.nodes = g.nodes
    BY DEF AddEdges, IsGraph, GraphFields
<1> HIDE DEF h
<1>2. \A r : ObjectOf(h, r) = ObjectOf(g, r)
    BY <1>1 DEF ObjectOf, InGraph
<1>3. Grows(g, h)
    BY <1>1, <1>2 DEF Grows
<1>4. \A e \in edges : Proper(h, e)
    BY <1>3, ProperStays
<1> QED
    BY <1>1, <1>2, <1>3, <1>4 DEF Plainly, h

\* Adding an issue, or the version.
LEMMA AddIssuePlainly ==
    ASSUME NEW g, IsGraph(g), NEW source, NEW ref, NEW affects
    PROVE  /\ Plainly(g, AddIssue(g, source, ref, affects))
           /\ Plainly(g, SetKubernetesVersion(g))
<1>1. ASSUME NEW h, h.focus = g.focus, h.start = g.start, h.edges = g.edges,
             h.events = g.events, h.nodes = g.nodes, g.issues \subseteq h.issues
      PROVE  Plainly(g, h)
    <2>1. \A r : ObjectOf(h, r) = ObjectOf(g, r)
        BY <1>1 DEF ObjectOf, InGraph
    <2> QED
        BY <1>1, <2>1 DEF Plainly, Grows
<1> DEFINE h1 == AddIssue(g, source, ref, affects)
           h2 == SetKubernetesVersion(g)
<1>2. /\ h1.focus = g.focus /\ h1.start = g.start /\ h1.edges = g.edges
      /\ h1.events = g.events /\ h1.nodes = g.nodes /\ g.issues \subseteq h1.issues
    BY DEF AddIssue, AddCollectionIssue, IsGraph, GraphFields
<1>3. /\ h2.focus = g.focus /\ h2.start = g.start /\ h2.edges = g.edges
      /\ h2.events = g.events /\ h2.nodes = g.nodes /\ g.issues \subseteq h2.issues
    BY DEF SetKubernetesVersion, IsGraph, GraphFields
<1> HIDE DEF h1, h2
<1>4. Plainly(g, h1) /\ Plainly(g, h2)
    BY <1>1, <1>2, <1>3
<1> QED
    BY <1>4 DEF h1, h2

-----------------------------------------------------------------------------
(* What is left to do, as it is taken and added to. *)

\* A sequence whose elements are all in T is a sequence of T.
LEMMA SeqOfWhat ==
    ASSUME NEW S, NEW w \in Seq(S), NEW T, \A i \in DOMAIN w : w[i] \in T
    PROVE  w \in Seq(T)
<1>1. Len(w) \in Nat /\ DOMAIN w = 1..Len(w) /\ w \in [1..Len(w) -> S]
    BY LenProperties
<1>2. w \in [1..Len(w) -> T]
    BY <1>1
<1> QED
    BY <1>1, <1>2

\* The elements of a sequence, and of what is left after its first.
LEMMA RestOf ==
    ASSUME NEW S, NEW w \in Seq(S), w # <<>>
    PROVE  /\ Head(w) \in S /\ Head(w) = w[1] /\ 1 \in DOMAIN w
           /\ Tail(w) \in Seq(S)
           /\ \A i \in DOMAIN Tail(w) :
                i + 1 \in DOMAIN w /\ i + 1 # 1 /\ Tail(w)[i] = w[i + 1]
           /\ \A i, j \in DOMAIN Tail(w) : i # j => i + 1 # j + 1
<1>1. Len(w) \in Nat /\ Len(w) # 0 /\ DOMAIN w = 1..Len(w)
    BY LenProperties, EmptySeq
<1>2. Tail(w) \in Seq(S) /\ Len(Tail(w)) = Len(w) - 1
    BY HeadTailProperties
<1>3. DOMAIN Tail(w) = 1..(Len(w) - 1)
    BY <1>1, <1>2, LenProperties
<1>4. \A i \in 1..(Len(w) - 1) : Tail(w)[i] = w[i + 1]
    BY <1>1, HeadTailProperties
<1> QED
    BY <1>1, <1>2, <1>3, <1>4, HeadTailProperties

\* What is left of tasks that are apart is apart, from the one that was taken as well.
LEMMA RestIsApart ==
    ASSUME NEW S, NEW w \in Seq(S), w # <<>>, Apart(w)
    PROVE  /\ Apart(Tail(w))
           /\ Head(w).op \in PodSources =>
                \A i \in DOMAIN Tail(w) : Tail(w)[i].op \notin PodOps
           /\ Head(w).op = "pod" =>
                \A i \in DOMAIN Tail(w) :
                    /\ Tail(w)[i].op \notin PodSources
                    /\ Tail(w)[i].op = "pod" /\ Tail(w)[i].ref = Head(w).ref =>
                        Tail(w)[i].object = Head(w).object
<1> DEFINE t == Tail(w)
<1>1. /\ Head(w) = w[1] /\ 1 \in DOMAIN w
      /\ \A i \in DOMAIN t : i + 1 \in DOMAIN w /\ i + 1 # 1 /\ t[i] = w[i + 1]
      /\ \A i, j \in DOMAIN t : i # j => i + 1 # j + 1
    BY RestOf
<1>2. \A i, j \in DOMAIN w : i # j =>
        /\ w[i].op \in PodSources => w[j].op \notin PodOps
        /\ w[i].op = "pod" /\ w[j].op = "pod" /\ w[i].ref = w[j].ref => w[i].object = w[j].object
    BY DEF Apart
<1>3. "pod" \in PodOps
    BY DEF PodOps
<1> HIDE DEF t
<1>4. ASSUME NEW i \in DOMAIN t, NEW j \in DOMAIN t, i # j
      PROVE  /\ t[i].op \in PodSources => t[j].op \notin PodOps
             /\ t[i].op = "pod" /\ t[j].op = "pod" /\ t[i].ref = t[j].ref => t[i].object = t[j].object
    BY <1>1, <1>2, <1>4
<1>5. ASSUME NEW i \in DOMAIN t
      PROVE  /\ w[1].op \in PodSources => t[i].op \notin PodOps
             /\ t[i].op \in PodSources => w[1].op \notin PodOps
             /\ w[1].op = "pod" /\ t[i].op = "pod" /\ t[i].ref = w[1].ref => t[i].object = w[1].object
    BY <1>1, <1>2
<1>6. Apart(t)
    BY <1>4 DEF Apart
<1> QED
    BY <1>1, <1>3, <1>5, <1>6 DEF t

\* Tasks that neither are Pods nor lead to any are apart.
LEMMA OthersAreApart ==
    ASSUME NEW w, \A i \in DOMAIN w : w[i].op \notin PodOps
    PROVE  Apart(w)
BY DEF Apart, PodOps

\* Tasks before others are apart from them, if one or the other lead to no Pods.
LEMMA ConcatIsApart ==
    ASSUME NEW S, NEW u \in Seq(S), NEW w \in Seq(S), Apart(u), Apart(w),
           \/ \A i \in DOMAIN u : u[i].op \notin PodOps
           \/ \A i \in DOMAIN w : w[i].op \notin PodOps
    PROVE  Apart(u \o w)
<1> DEFINE c == u \o w
<1>1. /\ Len(u) \in Nat /\ DOMAIN u = 1..Len(u)
      /\ Len(w) \in Nat /\ DOMAIN w = 1..Len(w)
      /\ c \in Seq(S) /\ Len(c) = Len(u) + Len(w)
      /\ \A i \in 1..Len(c) : c[i] = IF i <= Len(u) THEN u[i] ELSE w[i - Len(u)]
    BY LenProperties, ConcatProperties
<1>2. DOMAIN c = 1..Len(c)
    BY <1>1, LenProperties
<1> HIDE DEF c
<1>3. PodSources \subseteq PodOps /\ "pod" \in PodOps
    BY DEF PodOps
<1>4. ASSUME NEW i \in DOMAIN c
      PROVE  \/ i \in DOMAIN u /\ c[i] = u[i]
             \/ i \notin DOMAIN u /\ i - Len(u) \in DOMAIN w /\ c[i] = w[i - Len(u)]
    BY <1>1, <1>2
<1>5. ASSUME NEW i \in DOMAIN c, NEW j \in DOMAIN c, i # j
      PROVE  /\ c[i].op \in PodSources => c[j].op \notin PodOps
             /\ c[i].op = "pod" /\ c[j].op = "pod" /\ c[i].ref = c[j].ref => c[i].object = c[j].object
    <2>1. CASE i \in DOMAIN u /\ j \in DOMAIN u
        BY <1>4, <1>5, <2>1 DEF Apart
    <2>2. CASE i \notin DOMAIN u /\ j \notin DOMAIN u
        <3>1. i - Len(u) # j - Len(u)
            BY <1>1, <1>2, <1>5
        <3>2. i - Len(u) \in DOMAIN w /\ j - Len(u) \in DOMAIN w
              /\ c[i] = w[i - Len(u)] /\ c[j] = w[j - Len(u)]
            BY <1>4, <2>2
        <3> QED
            BY <3>1, <3>2 DEF Apart
    <2>3. CASE i \in DOMAIN u /\ j \notin DOMAIN u
        BY <1>3, <1>4, <2>3
    <2>4. CASE i \notin DOMAIN u /\ j \in DOMAIN u
        BY <1>3, <1>4, <2>4
    <2> QED
        BY <2>1, <2>2, <2>3, <2>4
<1>6. Apart(c)
    BY <1>5 DEF Apart
<1> QED
    BY <1>6 DEF c

\* A collection whose graph says what OInv says.
Following ==
    /\ Working
    /\ OInv
    /\ graph.focus = focus
    /\ graph.start # NoObject

\* What a step leaves of it.
FollowsOn ==
    /\ Faithful(graph')
    /\ work' \in Seq(Fit(graph'))
    /\ Apart(work')

\* A step that goes on with tasks that lead to no Pods.
LEMMA GoesOn ==
    ASSUME Following, work # <<>>, Faithful(graph'), Tail(work) \in Seq(Fit(graph')),
           NEW tasks \in Seq(Other(graph')), work' = tasks \o Tail(work)
    PROVE  FollowsOn
<1>1. Apart(Tail(work))
    BY RestIsApart DEF Following, OInv
<1>2. /\ \A i \in DOMAIN tasks : tasks[i] \in Other(graph')
      /\ Other(graph') \subseteq Fit(graph')
    BY LenProperties DEF Other
<1>3. \A i \in DOMAIN tasks : tasks[i] \in Fit(graph') /\ tasks[i].op \notin PodOps
    BY <1>2 DEF Other
<1>4. tasks \in Seq(Fit(graph'))
    BY <1>3, SeqOfWhat
<1>5. Apart(tasks)
    BY <1>3, OthersAreApart
<1>6. Apart(tasks \o Tail(work))
    BY <1>1, <1>3, <1>4, <1>5, ConcatIsApart
<1>7. tasks \o Tail(work) \in Seq(Fit(graph'))
    BY <1>4, ConcatProperties
<1> QED
    BY <1>6, <1>7 DEF FollowsOn

\* What waits goes on waiting after a plain addition.
LEMMA RestFits ==
    ASSUME Following, work # <<>>, Plainly(graph, graph')
    PROVE  Faithful(graph') /\ Tail(work) \in Seq(Fit(graph'))
<1>1. Faithful(graph')
    BY PlainlyFaithful DEF Following, OInv
<1>2. Tail(work) \in Seq(Fit(graph))
    BY RestOf DEF Following, OInv
<1>3. \A i \in DOMAIN Tail(work) : Tail(work)[i] \in Fit(graph')
    BY <1>2, PlainlyFits, LenProperties
<1> QED
    BY <1>1, <1>2, <1>3, SeqOfWhat

\* A step that adds plainly and goes on with tasks that lead to no Pods.
LEMMA PlainStep ==
    ASSUME Following, work # <<>>, Plainly(graph, graph'),
           NEW tasks \in Seq(Other(graph')), work' = tasks \o Tail(work)
    PROVE  FollowsOn
BY RestFits, GoesOn

\* A step that adds plainly and goes on with nothing more.
LEMMA PlainRest ==
    ASSUME Following, work # <<>>, Plainly(graph, graph'), Continue(<<>>)
    PROVE  FollowsOn
<1>1. <<>> \in Seq(Other(graph'))
    OBVIOUS
<1> QED
    BY <1>1, PlainStep DEF Continue

\* A step that lists Pods, or is one step nearer to it.
LEMMA ListStep ==
    ASSUME Following, work # <<>>, Head(work).op \in PodSources, Plainly(graph, graph'),
           NEW tasks \in Seq(Fit(graph')), Apart(tasks), work' = tasks \o Tail(work)
    PROVE  FollowsOn
<1>1. /\ Apart(Tail(work))
      /\ \A i \in DOMAIN Tail(work) : Tail(work)[i].op \notin PodOps
    BY RestIsApart DEF Following, OInv
<1>2. Faithful(graph') /\ Tail(work) \in Seq(Fit(graph'))
    BY RestFits
<1>3. Apart(tasks \o Tail(work))
    BY <1>1, <1>2, ConcatIsApart
<1>4. tasks \o Tail(work) \in Seq(Fit(graph'))
    BY <1>2, ConcatProperties
<1> QED
    BY <1>2, <1>3, <1>4 DEF FollowsOn

-----------------------------------------------------------------------------
(* The tasks that are added fit the graph they are added for. *)

\* Tasks about the focus that list no Pods.
Idle == {"clusterInfo", "slices", "autoscalers", "services", "events", "finish"}

\* They fit any graph, and so do those that start from a genuine object.
LEMMA SimpleFits ==
    ASSUME NEW g, NEW t \in GoodTask,
           \/ t.op \in Simple /\ Genuine(t.object) /\ t.ref.kind \notin ExactKinds
           \/ t.op \in Idle
    PROVE  t \in Other(g)
<1>1. /\ t.op \notin AboutHeld
      /\ t.op \notin {"exactOwner", "jobPods", "deployment", "service", "link", "pod"}
      /\ t.op \notin PodSources /\ t.op \notin PodOps
      /\ t.op \notin {"selectedPods", "replicaSets", "deploymentPods", "statefulSetPods", "cronJobJobs"}
    BY DEF Simple, Idle, AboutHeld, PodSources, PodOps
<1>2. /\ t.op \in OfObject => Genuine(t.object)
      /\ t.op \in Simple => t.ref.kind \notin ExactKinds
    BY DEF Idle, OfObject, Simple
<1>3. FocusFits(g, t) /\ RunIsKnown(g, t)
    BY <1>1 DEF FocusFits, RunIsKnown
<1> QED
    BY <1>1, <1>2, <1>3 DEF Other, Fit, Fits

\* A step about the focus that lists no Pods.
LEMMA IdleFits ==
    ASSUME focus \in Refs, NEW g, NEW op \in Idle
    PROVE  Step(op) \in Other(g)
<1>1. op \in OfFocus
    BY DEF Idle, OfFocus
<1>2. Step(op) \in GoodTask /\ Step(op).op = op
    BY <1>1, StepIsGood DEF Step, Task
<1> QED
    BY <1>2, SimpleFits

\* Edges that may be read off the graph already.
LEMMA LinkFits ==
    ASSUME focus \in Refs, NEW g, NEW edges \in SUBSET EdgeType, \A e \in edges : Proper(g, e)
    PROVE  <<Link(edges)>> \in Seq(Other(g))
<1>1. Link(edges) \in PlainTask
    BY LinkIsGood
<1>2. Link(edges).op = "link" /\ Link(edges).edges = edges
    BY DEF Link, Task
<1>3. "link" \notin OfObject /\ "link" \notin AboutHeld /\ "link" \notin PodOps /\ "link" \notin PodSources
      /\ "link" \notin Simple
    BY DEF OfObject, AboutHeld, PodOps, PodSources, Simple
<1>4. FocusFits(g, Link(edges)) /\ RunIsKnown(g, Link(edges))
    BY <1>2, <1>3 DEF FocusFits, RunIsKnown
<1>5. Fits(g, Link(edges))
    BY <1>2, <1>3, <1>4 DEF Fits
<1> QED
    BY <1>1, <1>2, <1>3, <1>5 DEF Other, Fit, PlainTask

\* What a Pod refers to.
Leaves == {"ConfigMap", "Secret", "PersistentVolumeClaim", "Node"}

\* A reference of a Pod.
LEMMA ReferFits ==
    ASSUME NEW g, NEW pod \in Object, Genuine(pod), NEW ref \in Refs, ref.kind \in Leaves,
           NEW op \in {"configMap", "secret", "claim", "node"}
    PROVE  Refer(op, pod, ref) \in Other(g)
<1>1. Refer(op, pod, ref) \in PlainTask
    BY ReferIsPlain DEF Leaves, Followed
<1>2. /\ Refer(op, pod, ref).op = op /\ Refer(op, pod, ref).object = pod
      /\ Refer(op, pod, ref).ref = ref
    BY DEF Refer, Task
<1>3. op \in Simple /\ ref.kind \notin ExactKinds
    BY DEF Simple, Leaves, ExactKinds
<1> QED
    BY <1>1, <1>2, <1>3, SimpleFits DEF PlainTask

\* The owners of a child that may be followed: exact ones control it, Deployments own
\* ReplicaSets, and below a CronJob the run is known.
FollowsFrom(g, child) ==
    {o \in Follows :
        /\ o.ref.kind \in ExactKinds => OwnedBy(child, o.ref, o.uid)
        /\ o.ref.kind = "Deployment" => child.ref.kind = "ReplicaSet"
        /\ g.focus.kind = "CronJob" /\ o.ref.kind = "Job" => o.ref \in DOMAIN g.nodes}

\* A child follows each of them; exact ones from the child the graph holds.
LEMMA OwnerTaskFits ==
    ASSUME NEW g, NEW child \in Object, Genuine(child), NEW o \in FollowsFrom(g, child),
           o.ref.kind \in ExactKinds => ObjectOf(g, child.ref) = child
    PROVE  Owner(OwnerOp(o.ref.kind), child, o) \in Other(g)
<1> DEFINE op == OwnerOp(o.ref.kind)
           t  == Owner(op, child, o)
<1>1. /\ o.ref \in Refs /\ o.uid \in UID /\ o.ref.kind \in Followed /\ o.ref.kind \in OwnerKinds
    BY DEF FollowsFrom, Follows, OwnerKinds, OwnerRef, Followed
<1>2. \/ op = "exactOwner" /\ o.ref.kind \in ExactKinds
      \/ op = "replicaSet" /\ o.ref.kind = "ReplicaSet"
      \/ op = "deployment" /\ o.ref.kind = "Deployment"
    BY <1>1 DEF OwnerKinds, OwnerOp, ExactKinds
<1>3. t.op = op /\ t.object = child /\ t.ref = o.ref /\ t.uid = o.uid
    BY DEF Owner, Task
<1>4. t \in GoodTask
    <2>1. op \in OfObject
        BY <1>2 DEF OfObject
    <2>2. op = "replicaSet" => o.ref.kind = "ReplicaSet"
        BY <1>2 DEF ExactKinds
    <2> HIDE DEF op
    <2> QED
        BY <1>1, <2>1, <2>2, ObjectTaskIsPlain DEF Owner, PlainTask
<1> HIDE DEF op, t
<1>5. ASSUME op = "replicaSet" PROVE t \in Other(g)
    BY <1>2, <1>3, <1>4, <1>5, SimpleFits DEF Simple, ExactKinds
<1>6. ASSUME op \in {"exactOwner", "deployment"} PROVE t \in Other(g)
    <2>1. /\ op \notin {"jobPods", "podEvents", "service", "link", "pod"}
          /\ op \notin PodSources /\ op \notin PodOps /\ op \notin Simple
          /\ op \notin {"selectedPods", "replicaSets", "deploymentPods", "statefulSetPods", "cronJobJobs"}
        BY <1>6 DEF PodSources, PodOps, Simple
    <2>2. op \in AboutHeld => op = "exactOwner"
        BY <2>1 DEF AboutHeld
    <2>3. op = "exactOwner" =>
            o.ref.kind \in ExactKinds /\ OwnedBy(child, o.ref, o.uid) /\ ObjectOf(g, child.ref) = child
        BY <1>2 DEF FollowsFrom
    <2>4. op = "deployment" => o.ref.kind = "Deployment" /\ child.ref.kind = "ReplicaSet"
        BY <1>2 DEF FollowsFrom
    <2>5. FocusFits(g, t)
        BY <1>3, <2>1 DEF FocusFits
    <2>6. g.focus.kind = "CronJob" => RunIsKnown(g, t)
        BY <1>3, <2>1 DEF FollowsFrom, RunIsKnown
    <2>7. Fits(g, t)
        BY <1>3, <2>1, <2>2, <2>3, <2>4, <2>5, <2>6 DEF Fits
    <2> QED
        BY <1>3, <1>4, <2>1, <2>7 DEF Other, Fit
<1> QED
    BY <1>2, <1>5, <1>6 DEF op, t

\* Some of a child's owners, in the order they are listed in.
LEMMA OwnersFit ==
    ASSUME NEW g, NEW child \in Object, Genuine(child),
           NEW I \in SUBSET DOMAIN child.owners,
           \A i \in I : child.owners[i] \in FollowsFrom(g, child),
           \A i \in I : child.owners[i].ref.kind \in ExactKinds => ObjectOf(g, child.ref) = child
    PROVE  OwnerTasks(child, Kept(child.owners, I)) \in Seq(Other(g))
<1> DEFINE Followable == {o \in FollowsFrom(g, child) :
                            o.ref.kind \in ExactKinds => ObjectOf(g, child.ref) = child}
           owners == Kept(child.owners, I)
<1>1. owners \in Seq(Followable)
    <2>1. child.owners \in Seq(OwnerRef)
        BY DEF Object
    <2>2. \A i \in I : child.owners[i] \in Followable
        OBVIOUS
    <2> QED
        BY <2>1, <2>2, KeptIsSeq
<1> HIDE DEF owners
<1>2. \A i \in DOMAIN owners : owners[i] \in Followable
    BY <1>1, LenProperties
<1>3. \A i \in DOMAIN owners :
        OwnerTasks(child, owners)[i] = Owner(OwnerOp(owners[i].ref.kind), child, owners[i])
    BY DEF OwnerTasks
<1>4. \A i \in DOMAIN owners : OwnerTasks(child, owners)[i] \in Other(g)
    BY <1>2, <1>3, OwnerTaskFits
<1>5. OwnerTasks(child, owners) \in Seq(Other(g))
    BY <1>1, <1>4, MappedIsSeq DEF OwnerTasks
<1> QED
    BY <1>5 DEF owners

\* A controller among an object's owners.
LEMMA ControllerOwns ==
    ASSUME NEW child \in Object, NEW i \in DOMAIN child.owners
    PROVE  /\ child.owners[i] \in OwnerRef
           /\ child.owners[i].controller =>
                /\ child.owners[i] = [ref |-> child.owners[i].ref, uid |-> child.owners[i].uid,
                                      controller |-> TRUE]
                /\ OwnedBy(child, child.owners[i].ref, child.owners[i].uid)
<1>1. child.owners \in Seq(OwnerRef)
    BY DEF Object
<1>2. child.owners[i] \in OwnerRef
    BY <1>1, LenProperties
<1>3. child.owners[i].controller =>
        child.owners[i] = [ref |-> child.owners[i].ref, uid |-> child.owners[i].uid,
                           controller |-> TRUE]
    BY <1>2 DEF OwnerRef
<1> QED
    BY <1>2, <1>3 DEF OwnedBy

\* The CronJob of a Job the graph holds.
LEMMA JobTasksFit ==
    ASSUME NEW g, NEW job \in Object, Genuine(job), ObjectOf(g, job.ref) = job
    PROVE  JobTasks(job) \in Seq(Other(g))
<1> DEFINE I == {i \in DOMAIN job.owners : FollowFromJob(job.owners[i])}
<1>1. ASSUME NEW i \in I
      PROVE  job.owners[i] \in FollowsFrom(g, job)
    <2>1. job.owners[i].ref.kind = "CronJob" /\ job.owners[i].controller
        BY DEF FollowFromJob
    <2>2. job.owners[i] \in OwnerRef /\ OwnedBy(job, job.owners[i].ref, job.owners[i].uid)
        BY <2>1, ControllerOwns
    <2> QED
        BY <2>1, <2>2 DEF FollowsFrom, Follows, OwnerKinds
<1>2. I \in SUBSET DOMAIN job.owners
    OBVIOUS
<1>3. JobTasks(job) = OwnerTasks(job, Kept(job.owners, I))
    BY DEF JobTasks
<1> HIDE DEF I
<1> QED
    BY <1>1, <1>2, <1>3, OwnersFit

\* The Deployments of a ReplicaSet.
LEMMA ReplicaSetTasksFit ==
    ASSUME NEW g, NEW rs \in Object, Genuine(rs), rs.ref.kind = "ReplicaSet"
    PROVE  ReplicaSetTasks(rs) \in Seq(Other(g))
<1> DEFINE I == {i \in DOMAIN rs.owners : FollowFromReplicaSet(rs.owners[i])}
<1>1. ASSUME NEW i \in I
      PROVE  rs.owners[i] \in FollowsFrom(g, rs) /\ rs.owners[i].ref.kind \notin ExactKinds
    <2>1. rs.owners[i].ref.kind = "Deployment" /\ "Deployment" \notin ExactKinds
        BY DEF FollowFromReplicaSet, ExactKinds
    <2>2. rs.owners[i] \in OwnerRef
        BY ControllerOwns
    <2> QED
        BY <2>1, <2>2 DEF FollowsFrom, Follows, OwnerKinds
<1>2. I \in SUBSET DOMAIN rs.owners
    OBVIOUS
<1>3. ReplicaSetTasks(rs) = OwnerTasks(rs, Kept(rs.owners, I))
    BY DEF ReplicaSetTasks
<1> HIDE DEF I
<1> QED
    BY <1>1, <1>2, <1>3, OwnersFit

\* A task of one kind for each reference of a sequence.
LEMMA ReferEachFits ==
    ASSUME NEW g, NEW pod \in Object, Genuine(pod), NEW S \in SUBSET Refs, NEW refs \in Seq(S),
           \A r \in S : r.kind \in Leaves, NEW op \in {"claim", "node"}
    PROVE  [i \in DOMAIN refs |-> Refer(op, pod, refs[i])] \in Seq(Other(g))
<1> DEFINE tasks == [i \in DOMAIN refs |-> Refer(op, pod, refs[i])]
<1>1. \A r \in S : Refer(op, pod, r) \in Other(g)
    BY ReferFits
<1>2. \A i \in DOMAIN refs : refs[i] \in S
    BY LenProperties
<1>3. \A i \in DOMAIN refs : tasks[i] \in Other(g)
    BY <1>1, <1>2
<1>4. DOMAIN tasks = DOMAIN refs /\ tasks = [i \in DOMAIN refs |-> tasks[i]]
    OBVIOUS
<1> HIDE DEF tasks
<1>5. tasks \in Seq(Other(g))
    BY <1>3, <1>4, MappedIsSeq
<1> QED
    BY <1>5 DEF tasks

\* What addPod follows from a Pod the graph holds.
LEMMA PodTasksFit ==
    ASSUME NEW g, NEW pod \in Object, Genuine(pod), ObjectOf(g, pod.ref) = pod,
           g.focus.kind = "CronJob" =>
             \A i \in DOMAIN pod.owners :
                pod.owners[i].controller => pod.owners[i].ref \in DOMAIN g.nodes
    PROVE  PodTasks(pod) \in Seq(Other(g))
<1> DEFINE shape == Shape[pod.ref]
           I == {i \in DOMAIN pod.owners : FollowFromPod(pod.owners[i])}
           required == Kept(shape.config, {i \in DOMAIN shape.config : ~shape.config[i].optional})
           owners == OwnerTasks(pod, Kept(pod.owners, I))
           config == [i \in DOMAIN required |->
              Refer(IF required[i].ref.kind = "Secret" THEN "secret" ELSE "configMap",
                    pod, required[i].ref)]
           claims == [i \in DOMAIN shape.claims |-> Refer("claim", pod, shape.claims[i])]
           nodes == [i \in DOMAIN shape.node |-> Refer("node", pod, shape.node[i])]
<1>1. /\ shape.config \in Seq(ConfigRef)
      /\ shape.claims \in Seq(OfKind(Refs, "PersistentVolumeClaim"))
      /\ shape.node \in Seq(OfKind(Refs, "Node"))
    <2>1. pod.ref \in Refs
        BY DEF Object
    <2> QED
        BY <2>1, CollectorAssumption DEF ShapeFields
<1>2. owners \in Seq(Other(g))
    <2>1. ASSUME NEW i \in I
          PROVE  pod.owners[i] \in FollowsFrom(g, pod)
        <3>1. \/ pod.owners[i].ref.kind \in {"Job", "StatefulSet"} /\ pod.owners[i].controller
              \/ pod.owners[i].ref.kind = "ReplicaSet"
            BY DEF FollowFromPod
        <3>2. pod.owners[i] \in OwnerRef
            BY ControllerOwns
        <3>3. pod.owners[i].ref.kind \in ExactKinds => pod.owners[i].controller
            BY <3>1 DEF ExactKinds
        <3>4. pod.owners[i].controller => OwnedBy(pod, pod.owners[i].ref, pod.owners[i].uid)
            BY ControllerOwns
        <3>5. pod.owners[i].ref.kind = "Job" => pod.owners[i].controller
            BY <3>3 DEF ExactKinds
        <3>6. pod.owners[i].ref.kind \in OwnerKinds /\ pod.owners[i].ref.kind # "Deployment"
            BY <3>1 DEF OwnerKinds
        <3> QED
            BY <3>2, <3>3, <3>4, <3>5, <3>6 DEF FollowsFrom, Follows
    <2>2. I \in SUBSET DOMAIN pod.owners
        OBVIOUS
    <2> HIDE DEF I
    <2> QED
        BY <2>1, <2>2, OwnersFit
<1>3. config \in Seq(Other(g))
    <2>1. \A i \in DOMAIN shape.config : shape.config[i] \in ConfigRef
        BY <1>1, LenProperties
    <2>2. required \in Seq(ConfigRef)
        BY <1>1, <2>1, KeptIsSeq
    <2> HIDE DEF required
    <2>3. \A i \in DOMAIN required : required[i] \in ConfigRef
        BY <2>2, LenProperties
    <2>4. \A i \in DOMAIN required :
            required[i].ref \in Refs /\ required[i].ref.kind \in Leaves
        BY <2>3 DEF ConfigRef, OfKind, Leaves
    <2>5. \A i \in DOMAIN required : config[i] \in Other(g)
        BY <2>4, ReferFits
    <2>6. DOMAIN config = DOMAIN required /\ config = [i \in DOMAIN required |-> config[i]]
        OBVIOUS
    <2> HIDE DEF config
    <2> QED
        BY <2>2, <2>5, <2>6, MappedIsSeq
<1>4. claims \in Seq(Other(g))
    BY <1>1, ReferEachFits DEF OfKind, Leaves
<1>5. nodes \in Seq(Other(g))
    BY <1>1, ReferEachFits DEF OfKind, Leaves
<1>6. PodTasks(pod) = owners \o config \o claims \o nodes
    BY DEF PodTasks
<1> HIDE DEF owners, config, claims, nodes
<1> QED
    BY <1>2, <1>3, <1>4, <1>5, <1>6, ConcatProperties

-----------------------------------------------------------------------------
(* Every step of a collection keeps what the graph says faithful. *)

\* The task a step takes fits the graph.
LEMMA HeadFits ==
    ASSUME Following, NEW op, Doing(op)
    PROVE  /\ work # <<>>
           /\ Head(work) \in GoodTask /\ Head(work).op = op
           /\ Fits(graph, Head(work))
           /\ IsGraph(graph) /\ Typed(graph) /\ Faithful(graph)
<1>1. work # <<>> /\ Head(work) \in Fit(graph) /\ Head(work).op = op
    BY RestOf DEF Following, OInv, Doing
<1> QED
    BY <1>1 DEF Fit, Following, OInv, Working, Sound, Typed

\* What the API server holds.
LEMMA ClusterHolds ==
    ASSUME Following, NEW r \in Refs, cluster[r] # NoObject
    PROVE  cluster[r] \in Object /\ cluster[r].ref = r /\ Genuine(cluster[r])
BY DEF Following, Working, OInv, ClusterGenuine, ClusterInv, ClusterTypeOK

\* What a list answers.
LEMMA LiveHolds ==
    ASSUME Following, NEW refs \in SUBSET Refs, NEW o \in Live(refs)
    PROVE  /\ o \in Object /\ Genuine(o)
           /\ o.ref \in refs /\ cluster[o.ref] = o
<1>1. PICK r \in refs \cap Present : o = cluster[r]
    BY DEF Live
<1>2. r \in Refs /\ cluster[r] # NoObject
    BY <1>1 DEF Present
<1> QED
    BY <1>1, <1>2, ClusterHolds

\* What a GET answers.
LEMMA GotHolds ==
    ASSUME Following, NEW r \in Refs, NEW ok \in BOOLEAN
    PROVE  /\ Got(r, ok) = NoObject \/ Genuine(Got(r, ok))
           /\ Got(r, ok) # NoObject => Got(r, ok) \in Object /\ Got(r, ok).ref = r
BY ClusterHolds DEF Got

\* The edges a collection adds without looking at what they join.
LEMMA EdgeIsProper ==
    ASSUME NEW g, NEW from, NEW to, NEW type,
           \/ type \notin {"owns", "scales"}
           \/ /\ type = "owns" /\ from.kind \notin ExactKinds
              /\ from.kind = "Deployment" => to.kind = "ReplicaSet"
    PROVE  Proper(g, Edge(from, to, type))
BY DEF Proper, Edge

\* What is followed from an object is of no special kind, but a run.
LEMMA FollowedIsPlain ==
    ASSUME NEW g, NEW r, r.kind \in Followed, r.kind # "Job" \/ g.focus.kind # "CronJob"
    PROVE  r.kind \notin Special(g)
BY DEF Followed, Special

\* A reference that could not be established is a plain addition.
LEMMA UnresolvedPlainly ==
    ASSUME NEW g, IsGraph(g), NEW ref, ref.kind \notin Special(g)
    PROVE  Plainly(g, Unresolved(g, ref))
<1> DEFINE h == AddUnknownNode(g, ref)
<1>1. Plainly(g, h) /\ IsGraph(h)
    BY AddUnknownNodePlainly, AddUnknownNodeExtends DEF Extends
<1> HIDE DEF h
<1>2. Plainly(h, AddIssue(h, SourceOf(ref.kind), ref, FALSE))
    BY <1>1, AddIssuePlainly
<1>3. Unresolved(g, ref) = AddIssue(h, SourceOf(ref.kind), ref, FALSE)
    BY DEF Unresolved, h
<1> QED
    BY <1>1, <1>2, <1>3, PlainlyTransitive

\* Edges after something else.
LEMMA ThenEdgesPlainly ==
    ASSUME NEW g, NEW h, Plainly(g, h), IsGraph(h), NEW edges, \A e \in edges : Proper(h, e)
    PROVE  Plainly(g, AddEdges(h, edges))
BY AddEdgesPlainly, PlainlyTransitive

\* The edges that end a sequence are those the task carries.
LEMMA AddLinksFollowsOn ==
    ASSUME Following, AddLinks
    PROVE  FollowsOn
<1>1. Doing("link") /\ Continue(<<>>) /\ graph' = AddEdges(graph, Head(work).edges)
    BY DEF AddLinks
<1>2. /\ work # <<>> /\ IsGraph(graph)
      /\ \A e \in Head(work).edges : Proper(graph, e)
    BY <1>1, HeadFits DEF Fits
<1>3. Plainly(graph, graph')
    BY <1>1, <1>2, AddEdgesPlainly
<1> QED
    BY <1>1, <1>2, <1>3, PlainRest

\* Accepting an owner the graph holds, of the child it holds: the Job is followed, and
\* the edge between them is exact.
LEMMA AcceptedTasksFit ==
    ASSUME focus \in Refs, NEW g, NEW owner \in Object, NEW child \in Object, Genuine(owner),
           ObjectOf(g, owner.ref) = owner, ObjectOf(g, child.ref) = child,
           owner.ref.kind \in ExactKinds, OwnedBy(child, owner.ref, owner.uid)
    PROVE  (IF owner.ref.kind = "Job" THEN JobTasks(owner) ELSE <<>>)
              \o <<Link({Edge(owner.ref, child.ref, "owns")})>> \in Seq(Other(g))
<1> DEFINE e == Edge(owner.ref, child.ref, "owns")
<1>1. owner.ref \in Refs /\ child.ref \in Refs /\ owner # NoObject /\ child # NoObject
    BY NoObjectAssumption DEF Object
<1>2. {e} \in SUBSET EdgeType
    BY <1>1, EdgeIsTyped DEF EdgeTypes
<1>3. Proper(g, e)
    BY <1>1 DEF Proper, Edge, ExactKinds
<1> HIDE DEF e
<1>4. <<Link({e})>> \in Seq(Other(g))
    BY <1>2, <1>3, LinkFits
<1>5. JobTasks(owner) \in Seq(Other(g)) /\ <<>> \in Seq(Other(g))
    BY JobTasksFit
<1> QED
    BY <1>4, <1>5, ConcatProperties DEF e

\* An exact owner is accepted only if it is the incarnation the child names.
LEMMA ResolveExactOwnerFollowsOn ==
    ASSUME Following, ResolveExactOwner
    PROVE  FollowsOn
<1> DEFINE task == Head(work)
           child == task.object
           held == ObjectOf(graph, task.ref)
<1>1. Doing("exactOwner") /\ Working
    BY DEF ResolveExactOwner, Following
<1>2. child \in Object /\ task.ref \in Refs /\ task.ref.kind \in Followed
    BY <1>1, HeadStartsFrom DEF OfObject, OfReference
<1>3. work # <<>> /\ Fits(graph, task) /\ task.op = "exactOwner"
      /\ IsGraph(graph) /\ Typed(graph) /\ Faithful(graph)
    BY <1>1, HeadFits
<1>4. /\ task.ref.kind \in ExactKinds /\ OwnedBy(child, task.ref, task.uid)
      /\ ObjectOf(graph, child.ref) = child
      /\ graph.focus.kind = "CronJob" /\ task.ref.kind = "Job" => task.ref \in DOMAIN graph.nodes
    BY <1>3 DEF Fits, AboutHeld, RunIsKnown
<1>5. focus \in Refs /\ child # NoObject
    BY <1>1, <1>2, NoObjectAssumption DEF Working
<1> HIDE DEF child
<1>6. ASSUME Plainly(graph, graph'), NEW owner \in Object, owner.ref = task.ref,
             Genuine(owner), owner.uid = task.uid, ObjectOf(graph', task.ref) = owner,
             AcceptOwner(owner, child)
      PROVE  FollowsOn
    <2>1. ObjectOf(graph', child.ref) = child
        BY <1>4, <1>5, <1>6 DEF Plainly, Grows
    <2> DEFINE tasks == (IF owner.ref.kind = "Job" THEN JobTasks(owner) ELSE <<>>)
                            \o <<Link({Edge(owner.ref, child.ref, "owns")})>>
    <2>2. tasks \in Seq(Other(graph'))
        BY <1>2, <1>4, <1>5, <1>6, <2>1, AcceptedTasksFit DEF child
    <2>3. work' = tasks \o Tail(work)
        BY <1>6 DEF AcceptOwner, Continue
    <2> HIDE DEF tasks
    <2> QED
        BY <1>3, <1>6, <2>2, <2>3, PlainStep
<1>7. CASE /\ InGraph(graph, task.ref)
           /\ UNCHANGED graph
           /\ IF IsExactly(held, task.uid) THEN AcceptOwner(held, child) ELSE Continue(<<>>)
    <2>1. Plainly(graph, graph')
        BY <1>7, PlainlyReflexive
    <2>2. CASE IsExactly(held, task.uid)
        <3>1. held # NoObject /\ held.uid = task.uid
            BY <2>2 DEF IsExactly
        <3>2. held \in Object /\ held.ref = task.ref /\ task.ref \in DOMAIN graph.nodes
            BY <1>3, <3>1, HeldIsObject
        <3>3. Genuine(held)
            BY <1>3, <3>1, <3>2 DEF Faithful
        <3>4. ObjectOf(graph', task.ref) = held /\ AcceptOwner(held, child)
            BY <1>7, <2>2
        <3> QED
            BY <1>6, <2>1, <3>1, <3>2, <3>3, <3>4
    <2>3. CASE ~IsExactly(held, task.uid)
        BY <1>3, <1>7, <2>1, <2>3, PlainRest
    <2> QED
        BY <2>2, <2>3
<1>8. ASSUME ~InGraph(graph, task.ref), NEW ok \in BOOLEAN,
             IF IsExactly(Got(task.ref, ok), task.uid)
             THEN /\ graph' = AddNode(graph, task.ref, Got(task.ref, ok))
                  /\ AcceptOwner(Got(task.ref, ok), child)
             ELSE /\ graph' = Unresolved(graph, task.ref)
                  /\ Continue(<<>>)
      PROVE  FollowsOn
    <2> DEFINE owner == Got(task.ref, ok)
    <2>1. /\ owner = NoObject \/ Genuine(owner)
          /\ owner # NoObject => owner \in Object /\ owner.ref = task.ref
        BY <1>2, GotHolds
    <2>2. task.ref.kind \notin Special(graph)
        BY <1>2, <1>4, <1>8, FollowedIsPlain DEF InGraph
    <2>3. CASE IsExactly(owner, task.uid)
        <3>1. owner # NoObject /\ owner.uid = task.uid
            BY <2>3 DEF IsExactly
        <3>2. graph' = AddNode(graph, task.ref, owner) /\ AcceptOwner(owner, child)
            BY <1>8, <2>3
        <3>3. Plainly(graph, graph')
            BY <1>3, <2>1, <2>2, <3>2, AddNodePlainly
        <3>4. ObjectOf(graph', task.ref) = owner
            BY <1>3, <1>8, <3>2 DEF AddNode, PutNode, ObjectOf, InGraph, IsGraph, GraphFields
        <3> QED
            BY <1>6, <2>1, <3>1, <3>2, <3>3, <3>4
    <2>4. CASE ~IsExactly(owner, task.uid)
        <3>1. graph' = Unresolved(graph, task.ref) /\ Continue(<<>>)
            BY <1>8, <2>4
        <3>2. Plainly(graph, graph')
            BY <1>3, <2>2, <3>1, UnresolvedPlainly
        <3> QED
            BY <1>3, <3>1, <3>2, PlainRest
    <2> QED
        BY <2>3, <2>4
<1> QED
    BY <1>7, <1>8 DEF ResolveExactOwner, child

\* A ReplicaSet is none of the kinds whose owners are exact.
LEMMA ResolveReplicaSetFollowsOn ==
    ASSUME Following, ResolveReplicaSet
    PROVE  FollowsOn
<1> DEFINE task == Head(work)
           owns == {Edge(task.ref, task.object.ref, "owns")}
<1>1. Doing("replicaSet") /\ Working /\ focus \in Refs
    BY DEF ResolveReplicaSet, Following, Working
<1>2. /\ task.object.ref \in Refs /\ task.ref \in Refs
      /\ task.ref.kind \in Followed /\ task.ref.kind = "ReplicaSet"
    BY <1>1, HeadStartsFrom DEF OfObject, OfReference
<1>3. work # <<>> /\ IsGraph(graph)
    BY <1>1, HeadFits
<1>4. /\ owns \in SUBSET EdgeType
      /\ \A g : \A e \in owns : Proper(g, e)
    BY <1>2, EdgeIsTyped, EdgeIsProper DEF EdgeTypes, ExactKinds
<1>5. task.ref.kind \notin Special(graph)
    BY <1>2, FollowedIsPlain
<1> HIDE DEF owns
<1>6. CASE graph' = AddEdges(graph, owns) /\ Continue(<<>>)
    <2>1. Plainly(graph, graph')
        BY <1>3, <1>4, <1>6, AddEdgesPlainly
    <2> QED
        BY <1>3, <1>6, <2>1, PlainRest
<1>7. ASSUME NEW ok \in BOOLEAN,
             IF Got(task.ref, ok) = NoObject
             THEN /\ graph' = AddEdges(Unresolved(graph, task.ref), owns)
                  /\ Continue(<<>>)
             ELSE /\ graph' = AddNode(graph, task.ref, Got(task.ref, ok))
                  /\ Continue(ReplicaSetTasks(Got(task.ref, ok)) \o <<Link(owns)>>)
      PROVE  FollowsOn
    <2> DEFINE owner == Got(task.ref, ok)
    <2>1. /\ owner = NoObject \/ Genuine(owner)
          /\ owner # NoObject => owner \in Object /\ owner.ref = task.ref
        BY <1>2, GotHolds
    <2>2. CASE owner = NoObject
        <3> DEFINE g == Unresolved(graph, task.ref)
        <3>1. Plainly(graph, g) /\ IsGraph(g)
            BY <1>3, <1>5, UnresolvedPlainly, UnresolvedExtends DEF Extends
        <3>2. graph' = AddEdges(g, owns) /\ Continue(<<>>)
            BY <1>7, <2>2
        <3> HIDE DEF g
        <3>3. Plainly(graph, graph')
            BY <1>4, <3>1, <3>2, ThenEdgesPlainly
        <3> QED
            BY <1>3, <3>2, <3>3, PlainRest
    <2>3. CASE owner # NoObject
        <3>1. Plainly(graph, graph')
            BY <1>3, <1>5, <1>7, <2>1, <2>3, AddNodePlainly
        <3>2. ReplicaSetTasks(owner) \in Seq(Other(graph'))
            BY <1>2, <2>1, <2>3, ReplicaSetTasksFit
        <3>3. <<Link(owns)>> \in Seq(Other(graph'))
            BY <1>1, <1>4, LinkFits
        <3>4. ReplicaSetTasks(owner) \o <<Link(owns)>> \in Seq(Other(graph'))
            BY <3>2, <3>3, ConcatProperties
        <3>5. work' = (ReplicaSetTasks(owner) \o <<Link(owns)>>) \o Tail(work)
            BY <1>7, <2>3 DEF Continue
        <3> QED
            BY <1>3, <3>1, <3>4, <3>5, PlainStep
    <2> QED
        BY <2>2, <2>3
<1> QED
    BY <1>6, <1>7 DEF ResolveReplicaSet, owns

\* Whatever a look-up answers is a plain addition.
LEMMA LookedPlainly ==
    ASSUME Following, NEW r \in Refs, r.kind \notin Special(graph), NEW ok \in BOOLEAN
    PROVE  Plainly(graph, Looked(r, ok)) /\ IsGraph(Looked(r, ok))
<1>1. IsGraph(graph) /\ (Got(r, ok) = NoObject \/ Genuine(Got(r, ok)))
    BY GotHolds DEF Following, Working, Sound, Typed
<1> QED
    BY <1>1, AddNodePlainly, UnresolvedPlainly, AddNodeExtends, UnresolvedExtends DEF Looked, Extends

\* A reference that is looked up once and linked whatever the answer.
LEMMA LookUpFollowsOn ==
    ASSUME Following, work # <<>>, NEW r \in Refs, r.kind \notin Special(graph), NEW edge,
           \A g : Proper(g, edge), LookUp(r, edge)
    PROVE  FollowsOn
<1>1. IsGraph(graph) /\ Continue(<<>>)
    BY DEF LookUp, Following, Working, Sound, Typed
<1>2. CASE graph' = AddEdges(graph, {edge})
    <2>1. Plainly(graph, graph')
        BY <1>1, <1>2, AddEdgesPlainly
    <2> QED
        BY <1>1, <2>1, PlainRest
<1>3. ASSUME NEW ok \in BOOLEAN, graph' = AddEdges(Looked(r, ok), {edge})
      PROVE  FollowsOn
    <2>1. Plainly(graph, graph')
        BY <1>3, LookedPlainly, ThenEdgesPlainly
    <2> QED
        BY <1>1, <2>1, PlainRest
<1> QED
    BY <1>2, <1>3 DEF LookUp

\* A Deployment owns ReplicaSets; what a Pod refers to owns nothing.
LEMMA ReferencesFollowOn ==
    ASSUME Following,
           ResolveDeployment \/ AddConfigMapRef \/ AddStorageRef \/ AddScheduledNode
    PROVE  FollowsOn
<1> DEFINE t == Head(work)
<1>1. Working
    BY DEF Following
<1>2. CASE ResolveDeployment
    <2>1. Doing("deployment") /\ LookUp(t.ref, Edge(t.ref, t.object.ref, "owns"))
        BY <1>2 DEF ResolveDeployment
    <2>2. t.ref \in Refs
        BY <1>1, <2>1, HeadStartsFrom DEF OfObject
    <2>3. work # <<>> /\ t.ref.kind = "Deployment" /\ t.object.ref.kind = "ReplicaSet"
        BY <2>1, HeadFits DEF Fits
    <2>4. t.ref.kind \notin Special(graph)
        BY <2>3 DEF Special
    <2>5. \A g : Proper(g, Edge(t.ref, t.object.ref, "owns"))
        BY <2>3, EdgeIsProper DEF ExactKinds
    <2> QED
        BY <2>1, <2>2, <2>3, <2>4, <2>5, LookUpFollowsOn
<1>3. ASSUME NEW op \in {"configMap", "claim", "node"}, Doing(op),
             NEW type \in {"references", "claims-storage", "scheduled-on"},
             LookUp(t.ref, FromObject(type))
      PROVE  FollowsOn
    <2>1. op \in OfObject /\ op \in OfReference /\ op \in Simple
        BY DEF OfObject, OfReference, Simple
    <2>2. t.ref \in Refs /\ t.ref.kind \in Followed
        BY <1>1, <1>3, <2>1, HeadStartsFrom
    <2>3. work # <<>> /\ t.ref.kind \notin ExactKinds
        BY <1>3, <2>1, HeadFits DEF Fits
    <2>4. t.ref.kind \notin Special(graph)
        BY <2>2, <2>3, FollowedIsPlain DEF ExactKinds
    <2>5. \A g : Proper(g, FromObject(type))
        BY EdgeIsProper DEF FromObject
    <2> QED
        BY <1>3, <2>2, <2>3, <2>4, <2>5, LookUpFollowsOn
<1>4. CASE AddConfigMapRef
    BY <1>3, <1>4 DEF AddConfigMapRef
<1>5. CASE AddStorageRef
    BY <1>3, <1>5 DEF AddStorageRef
<1>6. CASE AddScheduledNode
    BY <1>3, <1>6 DEF AddScheduledNode
<1> QED
    BY <1>2, <1>4, <1>5, <1>6

\* A Secret is linked and its existence left unknown.
LEMMA AddSecretRefFollowsOn ==
    ASSUME Following, AddSecretRef
    PROVE  FollowsOn
<1> DEFINE t == Head(work)
           g == IF InGraph(graph, t.ref) THEN graph ELSE Unresolved(graph, t.ref)
           edge == FromObject("references")
<1>1. Doing("secret") /\ Working
    BY DEF AddSecretRef, Following
<1>2. t.ref \in Refs /\ t.ref.kind \in Followed
    BY <1>1, HeadStartsFrom DEF OfObject, OfReference
<1>3. work # <<>> /\ IsGraph(graph) /\ t.ref.kind \notin ExactKinds
    BY <1>1, HeadFits DEF Fits, Simple
<1>4. t.ref.kind \notin Special(graph)
    BY <1>2, <1>3, FollowedIsPlain DEF ExactKinds
<1>5. graph' = AddEdges(g, {edge}) /\ Continue(<<>>)
    BY DEF AddSecretRef
<1>6. Proper(g, edge)
    BY EdgeIsProper DEF FromObject
<1> HIDE DEF edge
<1>7. Plainly(graph, g) /\ IsGraph(g)
    BY <1>3, <1>4, PlainlyReflexive, UnresolvedPlainly, UnresolvedExtends DEF Extends
<1> HIDE DEF g
<1>8. Plainly(graph, graph')
    BY <1>5, <1>6, <1>7, ThenEdgesPlainly
<1> QED
    BY <1>3, <1>5, <1>8, PlainRest

\* Adding a Pod: no other incarnation of it is in the graph, nothing left lists Pods,
\* and the edges that awaited it may be read off the graph that holds it.
LEMMA AddPodFollowsOn ==
    ASSUME Following, AddPod
    PROVE  FollowsOn
<1> DEFINE t == Head(work)
           pod == t.object
           h == graph'
<1>1. Doing("pod") /\ Working /\ focus \in Refs
    BY DEF AddPod, Following, Working
<1>2. pod \in Object /\ pod.ref \in Refs /\ t.edges \in SUBSET EdgeType
    BY <1>1, HeadStartsFrom DEF OfObject
<1>3. work # <<>> /\ t.op = "pod" /\ Fits(graph, t)
      /\ IsGraph(graph) /\ Typed(graph) /\ Faithful(graph)
    BY <1>1, HeadFits
<1>4. /\ Genuine(pod) /\ pod.ref = t.ref /\ t.ref.kind = "Pod"
      /\ ObjectOf(graph, pod.ref) \in {NoObject, pod}
      /\ \A e \in t.edges : PodEdge(graph, t, e)
    BY <1>3 DEF Fits, PodAwaits, OfObject
<1>5. h = AddNode(graph, pod.ref, pod) /\ work' = (PodTasks(pod) \o <<Link(t.edges)>>) \o Tail(work)
    BY DEF AddPod, Continue
<1>6. pod # NoObject
    BY <1>2, NoObjectAssumption
<1>7. /\ h.focus = graph.focus /\ h.start = graph.start /\ h.edges = graph.edges
      /\ h.issues = graph.issues /\ h.events = graph.events
      /\ DOMAIN h.nodes = DOMAIN graph.nodes \cup {pod.ref}
      /\ ObjectOf(h, pod.ref) = pod
      /\ \A r : r # pod.ref => ObjectOf(h, r) = ObjectOf(graph, r)
    <2>1. CASE ObjectOf(graph, pod.ref) # NoObject
        <3>1. h = graph /\ ObjectOf(graph, pod.ref) = pod
            BY <1>4, <1>5, <2>1 DEF AddNode
        <3>2. pod.ref \in DOMAIN graph.nodes
            BY <2>1 DEF ObjectOf, InGraph
        <3> QED
            BY <3>1, <3>2
    <2>2. CASE ObjectOf(graph, pod.ref) = NoObject
        BY <1>3, <1>5, <2>2 DEF AddNode, PutNode, ObjectOf, InGraph, IsGraph, GraphFields
    <2> QED
        BY <2>1, <2>2
<1> HIDE DEF h, pod
<1>8. Grows(graph, h)
    BY <1>4, <1>7 DEF Grows
<1>9. Faithful(h)
    <2>1. \A r \in DOMAIN h.nodes : ObjectOf(h, r) # NoObject => Genuine(ObjectOf(h, r))
        BY <1>3, <1>4, <1>7 DEF Faithful
    <2>2. \A e \in h.edges : Proper(h, e)
        BY <1>3, <1>7, <1>8, ProperStays DEF Faithful
    <2>3. \A e \in h.events :
            ObjectOf(h, e.involved) # NoObject /\ e.uid = ObjectOf(h, e.involved).uid
        BY <1>3, <1>7, <1>8 DEF Faithful, Grows
    <2>4. \A x \in DOMAIN h.nodes : x.kind = "HorizontalPodAutoscaler" => HpaSeen(h, x)
        BY <1>3, <1>4, <1>7 DEF Faithful, HpaSeen, HasCollectionIssue
    <2>5. h.start # NoObject =>
            ObjectOf(h, h.focus) # NoObject /\ ObjectOf(h, h.focus).uid = h.start.uid
        BY <1>3, <1>8 DEF Faithful, Grows
    <2>6. h.focus.kind = "CronJob" =>
            \A j \in DOMAIN h.nodes : j.kind = "Job" => TheRun(h, j)
        BY <1>3, <1>4, <1>7 DEF Faithful, TheRun
    <2> QED
        BY <2>1, <2>2, <2>3, <2>4, <2>5, <2>6 DEF Faithful
<1>10. Tail(work) \in Seq(Fit(h))
    <2>1. Tail(work) \in Seq(Fit(graph)) /\ Apart(work) /\ work \in Seq(Fit(graph))
        BY <1>3, RestOf DEF Following, OInv
    <2>2. ASSUME NEW i \in DOMAIN Tail(work)
          PROVE  Tail(work)[i] \in Fit(h)
        <3> DEFINE u == Tail(work)[i]
        <3>1. u \in Fit(graph)
            BY <2>1, LenProperties
        <3>2. /\ u.op \notin PodSources
              /\ u.op = "pod" /\ u.ref = t.ref => u.object = pod
            BY <1>3, <2>1, <2>2, RestIsApart DEF pod
        <3>3. u.op # "cronJobJobs"
            BY <3>2 DEF PodSources
        <3>4. u.op = "pod" => ObjectOf(h, u.ref) \in {ObjectOf(graph, u.ref), u.object}
            BY <1>4, <1>7, <3>2
        <3> HIDE DEF u
        <3>5. u \in Fit(h)
            BY <1>8, <3>1, <3>2, <3>3, <3>4, FitsStays
        <3> QED
            BY <3>5 DEF u
    <2> QED
        BY <2>1, <2>2, SeqOfWhat
<1>11. PodTasks(pod) \in Seq(Other(h))
    <2>1. h.focus.kind = "CronJob" =>
            \A i \in DOMAIN pod.owners : pod.owners[i].controller => pod.owners[i].ref \in DOMAIN h.nodes
        BY <1>3, <1>7 DEF Fits, RunIsKnown, pod
    <2> QED
        BY <1>2, <1>4, <1>7, <2>1, PodTasksFit
<1>12. <<Link(t.edges)>> \in Seq(Other(h))
    <2>1. ASSUME NEW e \in t.edges
          PROVE  Proper(h, e)
        <3>1. PodEdge(graph, t, e)
            BY <1>4
        <3>2. e.type = "owns" /\ e.from.kind \in ExactKinds =>
                /\ e.to = pod.ref /\ ObjectOf(graph, e.from) # NoObject
                /\ OwnedBy(pod, e.from, ObjectOf(graph, e.from).uid)
            BY <1>4, <3>1 DEF PodEdge, pod
        <3>3. e.type = "owns" /\ e.from.kind \in ExactKinds =>
                /\ ObjectOf(h, e.from) # NoObject
                /\ ObjectOf(h, e.to) # NoObject
                /\ OwnedBy(ObjectOf(h, e.to), e.from, ObjectOf(h, e.from).uid)
            BY <1>6, <1>7, <1>8, <3>2 DEF Grows
        <3> QED
            BY <3>1, <3>3 DEF PodEdge, Proper
    <2> QED
        BY <1>1, <1>2, <2>1, LinkFits
<1>13. PodTasks(pod) \o <<Link(t.edges)>> \in Seq(Other(h))
    BY <1>11, <1>12, ConcatProperties
<1> QED
    BY <1>3, <1>5, <1>9, <1>10, <1>13, GoesOn DEF h


\* An object's controller is the one that was asked for, and it has no other.
LEMMA ControllerIsOwner ==
    ASSUME NEW child \in Object, Genuine(child), NEW owner, Genuine(owner), NEW kind,
           IsControllerOwner(child, kind, owner.uid)
    PROVE  /\ OwnedBy(child, owner.ref, owner.uid)
           /\ \A i \in DOMAIN child.owners :
                child.owners[i].controller => child.owners[i].ref = owner.ref
<1>1. PICK j \in DOMAIN child.owners :
        child.owners[j].uid = owner.uid /\ child.owners[j].controller
    BY DEF IsControllerOwner
<1>2. child.owners[j].ref = owner.ref
    BY <1>1 DEF Genuine
<1>3. OwnedBy(child, owner.ref, owner.uid)
    BY <1>1, <1>2, ControllerOwns
<1>4. \A i \in DOMAIN child.owners : child.owners[i].controller => i = j
    BY <1>1 DEF Genuine, OneController
<1> QED
    BY <1>2, <1>3, <1>4

\* The edges a Pod of a list awaits it with.
Awaiting(g, pod, edges) ==
    \A e \in edges :
        /\ e.type # "scales"
        /\ e.type = "owns" => e.from.kind # "Deployment"
        /\ e.type = "owns" /\ e.from.kind \in ExactKinds =>
            /\ e.to = pod.ref
            /\ ObjectOf(g, e.from) # NoObject
            /\ OwnedBy(pod, e.from, ObjectOf(g, e.from).uid)

\* The controllers of a Pod below a CronJob are in the graph.
Controlled(g, pod) ==
    g.focus.kind = "CronJob" =>
        \A i \in DOMAIN pod.owners :
            pod.owners[i].controller => pod.owners[i].ref \in DOMAIN g.nodes

\* A Pod of a list, while the graph has none.
LEMMA PodTaskFits ==
    ASSUME NEW g, \A r \in DOMAIN g.nodes : r.kind # "Pod",
           NEW pod \in Object, Genuine(pod), pod.ref.kind = "Pod", Controlled(g, pod),
           NEW edges \in SUBSET EdgeType, Awaiting(g, pod, edges)
    PROVE  Task("pod", pod, pod.ref, pod.uid, edges) \in Fit(g)
<1> DEFINE t == Task("pod", pod, pod.ref, pod.uid, edges)
<1>1. t.op = "pod" /\ t.object = pod /\ t.ref = pod.ref /\ t.edges = edges
    BY DEF Task
<1>2. t \in GoodTask
    <2>1. pod.ref \in Refs /\ pod.uid \in UID
        BY DEF Object
    <2>2. "pod" \in OfObject /\ "pod" \notin OfReference
        BY DEF OfObject, OfReference
    <2> QED
        BY <2>1, <2>2, ObjectTaskIsPlain DEF PlainTask
<1> HIDE DEF t
<1>3. ObjectOf(g, pod.ref) = NoObject
    BY DEF ObjectOf, InGraph
<1>4. PodAwaits(g, t)
    BY <1>1, <1>3 DEF PodAwaits, PodEdge, Awaiting
<1>5. /\ t.op \notin AboutHeld /\ t.op \notin PodSources /\ t.op \notin Simple
      /\ t.op \notin {"exactOwner", "jobPods", "deployment", "service", "link"}
    BY <1>1 DEF AboutHeld, PodSources, Simple
<1>6. FocusFits(g, t)
    BY <1>1, <1>5 DEF FocusFits, PodSources
<1>7. g.focus.kind = "CronJob" => RunIsKnown(g, t)
    BY <1>1 DEF RunIsKnown, Controlled
<1>8. Fits(g, t)
    BY <1>1, <1>4, <1>5, <1>6, <1>7 DEF Fits
<1> QED
    BY <1>2, <1>8 DEF Fit, t

\* A list of Pods brings them one by one; the same name is the same Pod.
LEMMA AddListedPodsFollowsOn ==
    ASSUME Following, NEW op \in PodSources, Doing(op), NEW resource,
           NEW refs \in SUBSET OfKind(Refs, "Pod"), NEW S \in SUBSET Live(refs),
           NEW edgesTo \in [S -> SUBSET EdgeType],
           \A pod \in S : Awaiting(graph, pod, edgesTo[pod]) /\ Controlled(graph, pod),
           AddListedPods(resource, edgesTo)
    PROVE  FollowsOn
<1>1. PICK ok \in BOOLEAN :
        \/ /\ graph' = graph
           /\ \E pods \in SetToSeqs(DOMAIN edgesTo) : Continue(AddPodTasks(pods, edgesTo))
        \/ /\ graph' = AddIssue(graph, "pod", resource, FALSE)
           /\ Continue(<<>>)
    BY DEF AddListedPods
<1>2. /\ work # <<>> /\ Head(work).op \in PodSources
      /\ IsGraph(graph) /\ \A r \in DOMAIN graph.nodes : r.kind # "Pod"
    BY HeadFits DEF Fits, FocusFits
<1>3. refs \in SUBSET Refs /\ \A r \in refs : r.kind = "Pod"
    BY DEF OfKind
<1>4. IsFiniteSet(S)
    BY <1>3, KeptIsFinite DEF Following, Working
<1>5. \A pod \in S : pod \in Object /\ Genuine(pod) /\ pod.ref.kind = "Pod" /\ cluster[pod.ref] = pod
    BY <1>3, LiveHolds
<1>6. CASE graph' = AddIssue(graph, "pod", resource, FALSE) /\ Continue(<<>>)
    <2>1. Plainly(graph, graph')
        BY <1>2, <1>6, AddIssuePlainly
    <2> QED
        BY <1>2, <1>6, <2>1, PlainRest
<1>7. ASSUME graph' = graph, NEW pods \in SetToSeqs(S), Continue(AddPodTasks(pods, edgesTo))
      PROVE  FollowsOn
    <2> DEFINE tasks == AddPodTasks(pods, edgesTo)
    <2>1. pods \in Seq(S)
        BY <1>4, SetToSeqIsSeq
    <2>2. \A i \in DOMAIN pods : pods[i] \in S
        BY <2>1, LenProperties
    <2>3. /\ DOMAIN tasks = DOMAIN pods
          /\ \A i \in DOMAIN pods :
                tasks[i] = Task("pod", pods[i], pods[i].ref, pods[i].uid, edgesTo[pods[i]])
          /\ tasks = [i \in DOMAIN pods |-> tasks[i]]
        BY DEF AddPodTasks
    <2>4. work' = tasks \o Tail(work)
        BY <1>7 DEF Continue
    <2> HIDE DEF tasks
    <2>5. ASSUME NEW pod \in S
          PROVE  Task("pod", pod, pod.ref, pod.uid, edgesTo[pod]) \in Fit(graph)
        BY <1>2, <1>5, PodTaskFits
    <2>6. tasks \in Seq(Fit(graph))
        BY <2>1, <2>2, <2>3, <2>5, MappedIsSeq
    <2>7. Apart(tasks)
        <3>1. \A i \in DOMAIN tasks :
                tasks[i].op = "pod" /\ tasks[i].object \in S /\ tasks[i].ref = tasks[i].object.ref
            BY <2>2, <2>3 DEF Task
        <3>2. "pod" \notin PodSources
            BY DEF PodSources
        <3> QED
            BY <1>5, <3>1, <3>2 DEF Apart
    <2>8. Plainly(graph, graph')
        BY <1>7, PlainlyReflexive
    <2> QED
        BY <1>2, <1>7, <2>4, <2>6, <2>7, <2>8, ListStep
<1> QED
    BY <1>1, <1>6, <1>7

\* The Pods a Service selects are owned by nothing on that account.
LEMMA ListSelectedPodsFollowsOn ==
    ASSUME Following, ListSelectedPods
    PROVE  FollowsOn
<1> DEFINE refs == OfKind(Shape[focus].selects, "Pod")
           kept == Live(refs)
           edgesTo == [pod \in kept |-> {Edge(focus, pod.ref, "selects")}]
<1>1. Doing("selectedPods") /\ AddListedPods(focus, edgesTo)
    BY DEF ListSelectedPods
<1>2. Working /\ focus \in Refs /\ graph.focus.kind = "Service" /\ "selectedPods" \in PodSources
    BY <1>1, HeadFits DEF Fits, FocusFits, Following, Working, PodSources
<1>3. refs \in SUBSET OfKind(Refs, "Pod") /\ refs \in SUBSET Refs
    BY <1>2, OfKindInRefs DEF OfKind
<1> HIDE DEF refs
<1>4. \A pod \in kept : pod.ref \in Refs
    BY <1>3, LiveHolds
<1>5. ASSUME NEW pod \in kept
      PROVE  /\ {Edge(focus, pod.ref, "selects")} \in SUBSET EdgeType
             /\ Awaiting(graph, pod, {Edge(focus, pod.ref, "selects")})
             /\ Controlled(graph, pod)
    <2>1. {Edge(focus, pod.ref, "selects")} \in SUBSET EdgeType
        BY <1>2, <1>4, EdgeIsTyped DEF EdgeTypes
    <2>2. Awaiting(graph, pod, {Edge(focus, pod.ref, "selects")})
        BY DEF Awaiting, Edge
    <2> QED
        BY <1>2, <2>1, <2>2 DEF Controlled
<1> HIDE DEF kept
<1>6. /\ edgesTo \in [kept -> SUBSET EdgeType]
      /\ \A pod \in kept : Awaiting(graph, pod, edgesTo[pod]) /\ Controlled(graph, pod)
    BY <1>5
<1>7. kept \in SUBSET Live(refs)
    BY DEF kept
<1> HIDE DEF edgesTo
<1> QED
    BY <1>1, <1>2, <1>3, <1>6, <1>7, AddListedPodsFollowsOn

\* The Pods of a Deployment's ReplicaSets: those are all that it owns.
LEMMA ListDeploymentPodsFollowsOn ==
    ASSUME Following, ListDeploymentPods
    PROVE  FollowsOn
<1> DEFINE refs == OfKind(Shape[focus].selects, "Pod")
           Owning(pod) == {r \in OwnedReplicaSets : IsOwnedBy(pod, ObjectOf(graph, r).uid)}
           kept == {pod \in Live(refs) : Owning(pod) # {}}
           edgesTo == [pod \in kept |-> {Edge(r, pod.ref, "owns") : r \in Owning(pod)}]
<1>1. Doing("deploymentPods") /\ AddListedPods(focus, edgesTo)
    BY DEF ListDeploymentPods
<1>2. Working /\ focus \in Refs /\ graph.focus = focus /\ focus.kind = "Deployment"
      /\ "deploymentPods" \in PodSources /\ Faithful(graph) /\ Typed(graph)
    BY <1>1, HeadFits DEF Fits, FocusFits, Following, Working, PodSources
<1>3. refs \in SUBSET OfKind(Refs, "Pod") /\ refs \in SUBSET Refs
    BY <1>2, OfKindInRefs DEF OfKind
<1>4. \A r \in OwnedReplicaSets : r \in Refs /\ r.kind = "ReplicaSet"
    BY <1>2 DEF OwnedReplicaSets, Faithful, Proper, Typed, EdgeType
<1> HIDE DEF refs
<1>5. kept \in SUBSET Live(refs) /\ \A pod \in kept : pod.ref \in Refs
    BY <1>3, LiveHolds
<1>6. \A pod : \A r \in Owning(pod) : r \in Refs /\ r.kind = "ReplicaSet"
    BY <1>4
<1> HIDE DEF Owning
<1>7. ASSUME NEW pod \in kept
      PROVE  /\ {Edge(r, pod.ref, "owns") : r \in Owning(pod)} \in SUBSET EdgeType
             /\ Awaiting(graph, pod, {Edge(r, pod.ref, "owns") : r \in Owning(pod)})
             /\ Controlled(graph, pod)
    <2>1. {Edge(r, pod.ref, "owns") : r \in Owning(pod)} \in SUBSET EdgeType
        BY <1>5, <1>6, EdgeIsTyped DEF EdgeTypes
    <2>2. Awaiting(graph, pod, {Edge(r, pod.ref, "owns") : r \in Owning(pod)})
        BY <1>6 DEF Awaiting, Edge, ExactKinds
    <2> QED
        BY <1>2, <2>1, <2>2 DEF Controlled
<1> HIDE DEF kept
<1>8. /\ edgesTo \in [kept -> SUBSET EdgeType]
      /\ \A pod \in kept : Awaiting(graph, pod, edgesTo[pod]) /\ Controlled(graph, pod)
    BY <1>7
<1> HIDE DEF edgesTo
<1> QED
    BY <1>1, <1>2, <1>3, <1>5, <1>8, AddListedPodsFollowsOn

\* The focus as the graph holds it: genuine, and the incarnation of the first read.
LEMMA FocusIsHeld ==
    ASSUME Following
    PROVE  /\ ObjectOf(graph, focus) \in Object /\ ObjectOf(graph, focus) # NoObject
           /\ ObjectOf(graph, focus).ref = focus
           /\ ObjectOf(graph, focus).uid = graph.start.uid
           /\ Genuine(ObjectOf(graph, focus))
<1>1. /\ Faithful(graph) /\ Typed(graph)
      /\ ObjectOf(graph, focus) # NoObject /\ ObjectOf(graph, focus).uid = graph.start.uid
    BY DEF Following, OInv, Faithful, Working, Sound
<1>2. /\ focus \in DOMAIN graph.nodes
      /\ ObjectOf(graph, focus) \in Object /\ ObjectOf(graph, focus).ref = focus
    BY <1>1, HeldIsObject
<1> QED
    BY <1>1, <1>2 DEF Faithful

\* The edges to what an owner controls.
LEMMA ControllerAwaits ==
    ASSUME Following, NEW owner \in Object, ObjectOf(graph, owner.ref) = owner,
           Genuine(owner), NEW kind, NEW pod \in Object, Genuine(pod),
           IsControllerOwner(pod, kind, owner.uid), owner.ref.kind # "Deployment"
    PROVE  /\ {Edge(owner.ref, pod.ref, "owns")} \in SUBSET EdgeType
           /\ Awaiting(graph, pod, {Edge(owner.ref, pod.ref, "owns")})
           /\ Controlled(graph, pod)
<1>1. owner.ref \in Refs /\ pod.ref \in Refs /\ owner # NoObject
    BY NoObjectAssumption DEF Object
<1>2. /\ OwnedBy(pod, owner.ref, owner.uid)
      /\ \A i \in DOMAIN pod.owners : pod.owners[i].controller => pod.owners[i].ref = owner.ref
    BY ControllerIsOwner
<1>3. owner.ref \in DOMAIN graph.nodes
    BY <1>1 DEF ObjectOf, InGraph
<1>4. {Edge(owner.ref, pod.ref, "owns")} \in SUBSET EdgeType
    BY <1>1, EdgeIsTyped DEF EdgeTypes
<1>5. Awaiting(graph, pod, {Edge(owner.ref, pod.ref, "owns")})
    BY <1>1, <1>2 DEF Awaiting, Edge
<1>6. Controlled(graph, pod)
    BY <1>2, <1>3 DEF Controlled
<1> QED
    BY <1>4, <1>5, <1>6

\* The Pods a StatefulSet controls name the incarnation of the first read.
LEMMA ListStatefulSetPodsFollowsOn ==
    ASSUME Following, ListStatefulSetPods
    PROVE  FollowsOn
<1> DEFINE refs == OfKind(Shape[focus].selects, "Pod")
           kept == {pod \in Live(refs) : IsControllerOwner(pod, "StatefulSet", graph.start.uid)}
           edgesTo == [pod \in kept |-> {Edge(focus, pod.ref, "owns")}]
           owner == ObjectOf(graph, focus)
<1>1. Doing("statefulSetPods") /\ AddListedPods(focus, edgesTo)
    BY DEF ListStatefulSetPods
<1>2. Working /\ focus \in Refs /\ focus.kind = "StatefulSet" /\ "statefulSetPods" \in PodSources
    BY <1>1, HeadFits DEF Fits, FocusFits, Following, Working, PodSources
<1>3. refs \in SUBSET OfKind(Refs, "Pod") /\ refs \in SUBSET Refs
    BY <1>2, OfKindInRefs DEF OfKind
<1> HIDE DEF refs
<1>4. owner \in Object /\ owner.ref = focus /\ Genuine(owner) /\ owner.uid = graph.start.uid
    BY FocusIsHeld
<1>5. ObjectOf(graph, owner.ref) = owner
    BY <1>4
<1>6. kept \in SUBSET Live(refs)
    OBVIOUS
<1>7. ASSUME NEW pod \in kept
      PROVE  /\ {Edge(focus, pod.ref, "owns")} \in SUBSET EdgeType
             /\ Awaiting(graph, pod, {Edge(focus, pod.ref, "owns")})
             /\ Controlled(graph, pod)
    <2>1. pod \in Object /\ Genuine(pod) /\ IsControllerOwner(pod, "StatefulSet", owner.uid)
        BY <1>3, <1>4, LiveHolds
    <2> HIDE DEF owner
    <2> QED
        BY <1>2, <1>4, <1>5, <2>1, ControllerAwaits
<1> HIDE DEF kept
<1>8. /\ edgesTo \in [kept -> SUBSET EdgeType]
      /\ \A pod \in kept : Awaiting(graph, pod, edgesTo[pod]) /\ Controlled(graph, pod)
    BY <1>7
<1> HIDE DEF edgesTo
<1> QED
    BY <1>1, <1>2, <1>3, <1>6, <1>8, AddListedPodsFollowsOn

\* The Pods a Job controls name the incarnation the graph holds.
LEMMA ListJobPodsFollowsOn ==
    ASSUME Following, ListJobPods
    PROVE  FollowsOn
<1> DEFINE refs == OfKind(Refs, "Pod")
           job == Head(work).object
           kept == {pod \in Live(refs) : IsControllerOwner(pod, "Job", job.uid)}
           edgesTo == [pod \in kept |-> {Edge(job.ref, pod.ref, "owns")}]
<1>1. Doing("jobPods") /\ AddListedPods(job.ref, edgesTo)
    BY DEF ListJobPods
<1>2. Working /\ "jobPods" \in PodSources
    BY DEF Following, PodSources
<1>3. refs \in SUBSET OfKind(Refs, "Pod") /\ refs \in SUBSET Refs
    BY DEF OfKind
<1> HIDE DEF refs
<1>4. job \in Object
    BY <1>1, <1>2, HeadStartsFrom DEF OfObject
<1>5. job.ref.kind = "Job" /\ Genuine(job) /\ ObjectOf(graph, job.ref) = job
    BY <1>1, HeadFits DEF Fits, AboutHeld, OfObject
<1> HIDE DEF job
<1>6. kept \in SUBSET Live(refs)
    OBVIOUS
<1>7. ASSUME NEW pod \in kept
      PROVE  /\ {Edge(job.ref, pod.ref, "owns")} \in SUBSET EdgeType
             /\ Awaiting(graph, pod, {Edge(job.ref, pod.ref, "owns")})
             /\ Controlled(graph, pod)
    <2>1. pod \in Object /\ Genuine(pod) /\ IsControllerOwner(pod, "Job", job.uid)
        BY <1>3, LiveHolds
    <2> QED
        BY <1>4, <1>5, <2>1, ControllerAwaits
<1> HIDE DEF kept
<1>8. /\ edgesTo \in [kept -> SUBSET EdgeType]
      /\ \A pod \in kept : Awaiting(graph, pod, edgesTo[pod]) /\ Controlled(graph, pod)
    BY <1>7
<1> HIDE DEF edgesTo
<1> QED
    BY <1>1, <1>2, <1>3, <1>6, <1>8, AddListedPodsFollowsOn

\* A Deployment owns the ReplicaSets of the list; their Pods come next.
LEMMA ListReplicaSetsFollowsOn ==
    ASSUME Following, ListReplicaSets
    PROVE  FollowsOn
<1> DEFINE refs == OfKind(Shape[focus].selects, "ReplicaSet")
           owned == {rs \in Live(refs) : IsOwnedBy(rs, graph.start.uid)}
           edges == {Edge(focus, rs.ref, "owns") : rs \in owned}
           next == <<Step("deploymentPods")>>
<1>1. Doing("replicaSets")
    BY DEF ListReplicaSets, refs
<1>2. /\ work # <<>> /\ Head(work).op \in PodSources
      /\ focus.kind = "Deployment" /\ graph.focus = focus /\ focus \in Refs
      /\ IsGraph(graph) /\ \A r \in DOMAIN graph.nodes : r.kind # "Pod"
    BY <1>1, HeadFits DEF Fits, FocusFits, PodSources, Following, Working
<1>3. refs \in SUBSET Refs /\ \A r \in refs : r.kind = "ReplicaSet"
    BY <1>2, OfKindInRefs DEF OfKind
<1> HIDE DEF refs
<1>4. \A o \in owned : Genuine(o) /\ o.ref.kind = "ReplicaSet"
    BY <1>3, LiveHolds
<1>5. PICK ok \in BOOLEAN :
        /\ List("replicaset", focus, ok)
        /\ \/ /\ ok
              /\ graph' = AddEdges(AddNodes(graph, owned), edges)
              /\ Continue(next)
           \/ /\ ~ok
              /\ graph' = AddIssue(graph, "replicaset", focus, FALSE)
              /\ Continue(<<>>)
    BY DEF ListReplicaSets, refs
<1> HIDE DEF owned
<1>6. CASE graph' = AddIssue(graph, "replicaset", focus, FALSE) /\ Continue(<<>>)
    <2>1. Plainly(graph, graph')
        BY <1>2, <1>6, AddIssuePlainly
    <2> QED
        BY <1>2, <1>6, <2>1, PlainRest
<1>7. CASE graph' = AddEdges(AddNodes(graph, owned), edges) /\ Continue(next)
    <2> DEFINE g == AddNodes(graph, owned)
    <2>1. Plainly(graph, g) /\ IsGraph(g)
        BY <1>2, <1>4, AddNodesPlainly, AddNodesExtends DEF Special, Extends
    <2>2. \A h : \A e \in edges : Proper(h, e)
        BY <1>2, <1>4, EdgeIsProper DEF ExactKinds
    <2>3. graph' = AddEdges(g, edges)
        BY <1>7
    <2> HIDE DEF g, edges
    <2>4. Plainly(graph, graph')
        BY <2>1, <2>2, <2>3, ThenEdgesPlainly
    <2>5. next \in Seq(Fit(graph'))
        <3> DEFINE t == Step("deploymentPods")
        <3>1. t \in GoodTask
            BY <1>2, StepIsGood DEF OfFocus
        <3>2. t.op = "deploymentPods"
            BY DEF Step, Task
        <3>3. \A r \in DOMAIN graph'.nodes : r.kind # "Pod"
            BY <1>2, <2>4 DEF Plainly, Special
        <3>4. graph'.focus = focus
            BY <1>2, <2>4 DEF Plainly, Grows
        <3>5. /\ t.op \notin OfObject /\ t.op \notin AboutHeld /\ t.op \notin Simple
              /\ t.op \notin {"exactOwner", "jobPods", "deployment", "service", "link", "pod",
                              "selectedPods", "statefulSetPods", "cronJobJobs"}
            BY <3>2 DEF OfObject, AboutHeld, Simple
        <3> HIDE DEF t
        <3>6. FocusFits(graph', t)
            BY <1>2, <3>3, <3>4, <3>5 DEF FocusFits
        <3>7. RunIsKnown(graph', t)
            BY <3>5 DEF RunIsKnown
        <3>8. t \in Fit(graph')
            BY <3>1, <3>5, <3>6, <3>7 DEF Fit, Fits
        <3> QED
            BY <3>8 DEF t
    <2>6. Apart(next)
        <3>1. DOMAIN next = {1}
            OBVIOUS
        <3> QED
            BY <3>1 DEF Apart
    <2>7. work' = next \o Tail(work)
        BY <1>7 DEF Continue
    <2> HIDE DEF next
    <2> QED
        BY <1>2, <2>4, <2>5, <2>6, <2>7, ListStep
<1> QED
    BY <1>5, <1>6, <1>7


\* The verdict on a CronJob's runs names a Job that is owned and stamped.
LEMMA VerdictIsRun ==
    ASSUME NEW jobs, NEW scheduled, LatestRunOf(jobs, scheduled).job # 0
    PROVE  LET v == LatestRunOf(jobs, scheduled)
           IN  v.job \in DOMAIN jobs /\ jobs[v.job].owned /\ jobs[v.job].stamped
<1> DEFINE v == LatestRunOf(jobs, scheduled)
           one == CHOOSE i \in OwnedJobs(jobs) : Newest(jobs) = {i}
<1>1. /\ \E i \in OwnedJobs(jobs) : Newest(jobs) = {i}
      /\ \A i \in OwnedJobs(jobs) : jobs[i].stamped
    BY DEF LatestRunOf, Verdict
<1>2. one \in OwnedJobs(jobs)
    BY <1>1
<1>3. v.job = one
    BY <1>1 DEF LatestRunOf, Verdict
<1> HIDE DEF one, v
<1>4. v.job \in DOMAIN jobs /\ jobs[v.job].owned /\ jobs[v.job].stamped
    BY <1>1, <1>2, <1>3 DEF OwnedJobs
<1> QED
    BY <1>4 DEF v

\* The Pods of a Job the graph holds, while it has none.
LEMMA JobPodsFits ==
    ASSUME NEW g, \A r \in DOMAIN g.nodes : r.kind # "Pod",
           NEW job \in Object, Genuine(job), job.ref.kind = "Job", ObjectOf(g, job.ref) = job
    PROVE  About("jobPods", job) \in Fit(g) /\ About("jobPods", job).op = "jobPods"
<1> DEFINE t == About("jobPods", job)
<1>1. t \in GoodTask
    BY AboutIsGood DEF PlainTask
<1>2. t.op = "jobPods" /\ t.object = job
    BY DEF About, Task
<1> HIDE DEF t
<1>3. /\ t.op \notin Simple
      /\ t.op \notin {"exactOwner", "deployment", "service", "link", "pod", "selectedPods",
                      "replicaSets", "deploymentPods", "statefulSetPods", "cronJobJobs"}
    BY <1>2 DEF Simple
<1>4. FocusFits(g, t)
    BY <1>3 DEF FocusFits
<1>5. RunIsKnown(g, t)
    BY <1>3 DEF RunIsKnown
<1>6. t \in Fit(g)
    BY <1>1, <1>2, <1>3, <1>4, <1>5 DEF Fit, Fits
<1> QED
    BY <1>2, <1>6 DEF t

\* A CronJob's latest run is the first Job of the graph, and its Pods come next.
LEMMA AddRunFollowsOn ==
    ASSUME Following, Doing("cronJobJobs"), NEW run \in Object, Genuine(run),
           run.ref.kind = "Job", IsControllerOwner(run, "CronJob", graph.start.uid),
           Shape[run.ref].stamped, graph' = AddNode(graph, run.ref, run),
           Continue(JobTasks(run) \o <<Link({Edge(focus, run.ref, "latest-run")}),
                                       About("jobPods", run)>>)
    PROVE  FollowsOn
<1> DEFINE h == graph'
           edge == Edge(focus, run.ref, "latest-run")
           about == About("jobPods", run)
           owner == ObjectOf(graph, focus)
           next == <<Link({edge}), about>>
           tasks == JobTasks(run) \o next
<1>1. /\ work # <<>> /\ Head(work).op \in PodSources
      /\ focus.kind = "CronJob" /\ graph.focus = focus /\ focus \in Refs
      /\ IsGraph(graph) /\ Typed(graph) /\ Faithful(graph)
      /\ \A r \in DOMAIN graph.nodes : r.kind # "Pod" /\ r.kind # "Job"
    BY HeadFits DEF Fits, FocusFits, PodSources, Following, Working
<1>2. run.ref \in Refs /\ run # NoObject
    BY NoObjectAssumption DEF Object
<1>3. /\ h.focus = graph.focus /\ h.start = graph.start /\ h.edges = graph.edges
      /\ h.issues = graph.issues /\ h.events = graph.events
      /\ DOMAIN h.nodes = DOMAIN graph.nodes \cup {run.ref}
      /\ ObjectOf(h, run.ref) = run
      /\ \A r : r # run.ref => ObjectOf(h, r) = ObjectOf(graph, r)
    BY <1>1 DEF AddNode, PutNode, ObjectOf, InGraph, IsGraph, GraphFields
<1>4. work' = tasks \o Tail(work)
    BY DEF Continue
<1> HIDE DEF h, tasks, next
<1>5. ObjectOf(graph, run.ref) = NoObject
    BY <1>1 DEF ObjectOf, InGraph
<1>6. Grows(graph, h)
    BY <1>3, <1>5 DEF Grows
<1>7. TheRun(h, run.ref)
    <2>1. Genuine(owner) /\ owner.ref = focus /\ owner.uid = graph.start.uid
        BY FocusIsHeld
    <2> HIDE DEF owner
    <2>2. OwnedBy(run, focus, graph.start.uid)
        BY <2>1, ControllerIsOwner
    <2> QED
        BY <1>1, <1>2, <1>3, <2>2 DEF TheRun, Following
<1>8. Faithful(h)
    <2>1. \A r \in DOMAIN h.nodes : ObjectOf(h, r) # NoObject => Genuine(ObjectOf(h, r))
        BY <1>1, <1>3 DEF Faithful
    <2>2. \A e \in h.edges : Proper(h, e)
        BY <1>1, <1>3, <1>6, ProperStays DEF Faithful
    <2>3. \A e \in h.events :
            ObjectOf(h, e.involved) # NoObject /\ e.uid = ObjectOf(h, e.involved).uid
        BY <1>1, <1>3, <1>6 DEF Faithful, Grows
    <2>4. \A x \in DOMAIN h.nodes : x.kind = "HorizontalPodAutoscaler" => HpaSeen(h, x)
        BY <1>1, <1>3 DEF Faithful, HpaSeen, HasCollectionIssue
    <2>5. h.start # NoObject =>
            ObjectOf(h, h.focus) # NoObject /\ ObjectOf(h, h.focus).uid = h.start.uid
        BY <1>1, <1>6 DEF Faithful, Grows
    <2>6. \A j \in DOMAIN h.nodes : j.kind = "Job" => TheRun(h, j)
        BY <1>1, <1>3, <1>7
    <2> QED
        BY <2>1, <2>2, <2>3, <2>4, <2>5, <2>6 DEF Faithful
<1>9. /\ Tail(work) \in Seq(Fit(graph)) /\ Apart(Tail(work))
      /\ \A i \in DOMAIN Tail(work) : Tail(work)[i].op \notin PodOps
    BY <1>1, RestOf, RestIsApart DEF Following, OInv
<1>10. Tail(work) \in Seq(Fit(h))
    <2>1. ASSUME NEW i \in DOMAIN Tail(work)
          PROVE  Tail(work)[i] \in Fit(h)
        <3> DEFINE u == Tail(work)[i]
        <3>1. u \in Fit(graph) /\ u.op \notin PodOps
            BY <1>9, LenProperties
        <3> HIDE DEF u
        <3>2. u.op \notin PodSources /\ u.op # "cronJobJobs" /\ u.op # "pod"
            BY <3>1 DEF PodOps, PodSources
        <3>3. u \in Fit(h)
            BY <1>6, <3>1, <3>2, FitsStays
        <3> QED
            BY <3>3 DEF u
    <2> QED
        BY <1>9, <2>1, SeqOfWhat
<1>11. /\ JobTasks(run) \in Seq(Fit(h)) /\ Apart(JobTasks(run))
       /\ \A i \in DOMAIN JobTasks(run) : JobTasks(run)[i].op \notin PodOps
    <2>1. JobTasks(run) \in Seq(Other(h))
        BY <1>3, JobTasksFit
    <2>2. \A i \in DOMAIN JobTasks(run) :
            JobTasks(run)[i] \in Fit(h) /\ JobTasks(run)[i].op \notin PodOps
        BY <2>1, LenProperties DEF Other
    <2> QED
        BY <2>1, <2>2, SeqOfWhat, OthersAreApart
<1>12. Link({edge}) \in Other(h)
    <2>1. {edge} \in SUBSET EdgeType /\ Proper(h, edge)
        BY <1>1, <1>2, EdgeIsTyped, EdgeIsProper DEF EdgeTypes
    <2> HIDE DEF edge
    <2>2. <<Link({edge})>> \in Seq(Other(h))
        BY <1>1, <2>1, LinkFits
    <2> QED
        BY <2>2
<1>13. about \in Fit(h) /\ about.op = "jobPods"
    BY <1>1, <1>3, JobPodsFits
<1> HIDE DEF about, edge
<1>14. next \in Seq(Fit(h)) /\ Apart(next)
    <2>1. Link({edge}) \in Fit(h) /\ Link({edge}).op \notin PodOps
        BY <1>12 DEF Other
    <2>2. next \in Seq(Fit(h)) /\ DOMAIN next = {1, 2}
          /\ next[1] = Link({edge}) /\ next[2] = about
        BY <1>13, <2>1 DEF next
    <2>3. "pod" \in PodOps /\ PodSources \subseteq PodOps
        BY DEF PodOps
    <2> QED
        BY <1>13, <2>1, <2>2, <2>3 DEF Apart
<1>15. tasks \in Seq(Fit(h)) /\ Apart(tasks)
    BY <1>11, <1>14, ConcatIsApart, ConcatProperties DEF tasks
<1>16. tasks \o Tail(work) \in Seq(Fit(h)) /\ Apart(tasks \o Tail(work))
    BY <1>9, <1>10, <1>15, ConcatIsApart, ConcatProperties
<1> QED
    BY <1>4, <1>8, <1>16 DEF FollowsOn, h

\* A CronJob's latest run, or an issue.
LEMMA ListCronJobJobsFollowsOn ==
    ASSUME Following, ListCronJobJobs
    PROVE  FollowsOn
<1> DEFINE live == Live(OfKind(Refs, "Job"))
           jobs == SetToSeq(live)
           views == [i \in DOMAIN jobs |-> JobViewOf(jobs[i])]
           verdict == LatestRunOf(views, Shape[focus].scheduled)
           latest == jobs[verdict.job]
           tasks == JobTasks(latest) \o <<Link({Edge(focus, latest.ref, "latest-run")}),
                                          About("jobPods", latest)>>
<1>1. Doing("cronJobJobs") /\ work # <<>> /\ IsGraph(graph)
    BY HeadFits DEF ListCronJobJobs
<1>2. PICK ok \in BOOLEAN :
        /\ List("job", focus, ok)
        /\ \/ /\ ok
              /\ verdict.job # 0
              /\ graph' = AddNode(graph, latest.ref, latest)
              /\ Continue(tasks)
           \/ /\ ok
              /\ verdict.job = 0
              /\ graph' = IF verdict.issue = "none" THEN graph
                          ELSE AddIssue(graph, "job", focus, TRUE)
              /\ Continue(<<>>)
           \/ /\ ~ok
              /\ graph' = AddIssue(graph, "job", focus, TRUE)
              /\ Continue(<<>>)
    BY Zenon DEF ListCronJobJobs
<1>3. jobs \in Seq(live)
    BY OfKindInRefs, LiveIsFinite, SetToSeqIsSeq DEF Following, Working
<1>4. verdict.job # 0 =>
        verdict.job \in DOMAIN views /\ views[verdict.job].owned /\ views[verdict.job].stamped
    <2> HIDE DEF views
    <2> QED
        BY VerdictIsRun
<1> HIDE DEF jobs, verdict, tasks
<1>5. CASE ok /\ verdict.job # 0
    <2>1. verdict.job \in DOMAIN jobs /\ JobViewOf(latest).owned /\ JobViewOf(latest).stamped
        BY <1>4, <1>5
    <2>2. latest \in live
        BY <1>3, <2>1, LenProperties
    <2> HIDE DEF latest, views
    <2>3. graph' = AddNode(graph, latest.ref, latest) /\ Continue(tasks)
        BY <1>2, <1>5
    <2>4. latest \in Object /\ Genuine(latest) /\ latest.ref.kind = "Job"
        BY <2>2, LiveHolds DEF OfKind
    <2>5. IsControllerOwner(latest, "CronJob", graph.start.uid) /\ Shape[latest.ref].stamped
        BY <2>1 DEF JobViewOf
    <2> QED
        BY <1>1, <2>3, <2>4, <2>5, AddRunFollowsOn DEF tasks
<1>6. CASE ~(ok /\ verdict.job # 0)
    <2>1. graph' \in {graph, AddIssue(graph, "job", focus, TRUE)} /\ Continue(<<>>)
        BY <1>2, <1>6
    <2>2. Plainly(graph, graph')
        BY <1>1, <2>1, AddIssuePlainly, PlainlyReflexive
    <2> QED
        BY <1>1, <2>1, <2>2, PlainRest
<1> QED
    BY <1>5, <1>6

\* A Service, or the Events of a Pod, about an object the cluster or the graph holds.
LEMMA AboutFits ==
    ASSUME NEW g, NEW o \in Object, Genuine(o), NEW op \in {"service", "podEvents"},
           op = "service" => o.ref.kind = "Service",
           op = "podEvents" => ObjectOf(g, o.ref) = o
    PROVE  About(op, o) \in Other(g)
<1> DEFINE t == About(op, o)
<1>1. t \in GoodTask
    BY AboutIsGood DEF PlainTask
<1>2. t.op = op /\ t.object = o
    BY DEF About, Task
<1> HIDE DEF t
<1>3. /\ t.op \notin Simple /\ t.op \notin PodOps /\ t.op \notin PodSources
      /\ t.op \notin {"exactOwner", "jobPods", "deployment", "link", "pod", "selectedPods",
                      "replicaSets", "deploymentPods", "statefulSetPods", "cronJobJobs"}
      /\ t.op \in AboutHeld => t.op = "podEvents"
    BY <1>2 DEF Simple, PodOps, PodSources, AboutHeld
<1>4. FocusFits(g, t) /\ RunIsKnown(g, t)
    BY <1>3 DEF FocusFits, RunIsKnown
<1>5. t \in Other(g)
    BY <1>1, <1>2, <1>3, <1>4 DEF Other, Fit, Fits
<1> QED
    BY <1>5 DEF t

\* One such task for each object of a sequence.
LEMMA AboutEachFits ==
    ASSUME NEW g, NEW S, NEW s \in Seq(S), NEW op, \A o \in S : About(op, o) \in Other(g)
    PROVE  [i \in DOMAIN s |-> About(op, s[i])] \in Seq(Other(g))
<1> DEFINE m == [i \in DOMAIN s |-> About(op, s[i])]
<1>1. \A i \in DOMAIN s : s[i] \in S
    BY LenProperties
<1>2. \A i \in DOMAIN s : m[i] \in Other(g)
    BY <1>1
<1>3. DOMAIN m = DOMAIN s /\ m = [i \in DOMAIN s |-> m[i]]
    OBVIOUS
<1> HIDE DEF m
<1>4. m \in Seq(Other(g))
    BY <1>2, <1>3, MappedIsSeq
<1> QED
    BY <1>4 DEF m

\* The Services that select the Pods collected are looked at one by one.
LEMMA ListServicesFollowsOn ==
    ASSUME Following, ListServices
    PROVE  FollowsOn
<1> DEFINE chosen == Selecting(CollectedPods)
<1>1. Doing("services") /\ work # <<>> /\ IsGraph(graph) /\ Working
    BY HeadFits DEF ListServices, Following
<1>2. CASE UNCHANGED graph /\ Continue(<<>>)
    <2>1. Plainly(graph, graph')
        BY <1>2, PlainlyReflexive
    <2> QED
        BY <1>1, <1>2, <2>1, PlainRest
<1>3. CASE graph' = AddIssue(graph, "service", focus, FALSE) /\ Continue(<<>>)
    <2>1. Plainly(graph, graph')
        BY <1>1, <1>3, AddIssuePlainly
    <2> QED
        BY <1>1, <1>3, <2>1, PlainRest
<1>4. ASSUME UNCHANGED graph, NEW svcs \in SetToSeqs(chosen),
             Continue([i \in DOMAIN svcs |-> About("service", svcs[i])])
      PROVE  FollowsOn
    <2>1. chosen \subseteq Live(OfKind(Refs, "Service"))
        BY DEF Selecting
    <2> HIDE DEF chosen
    <2>2. IsFiniteSet(chosen)
        BY <1>1, <2>1, OfKindInRefs, KeptIsFinite DEF Working
    <2>3. \A o \in chosen : o \in Object /\ Genuine(o) /\ o.ref.kind = "Service"
        <3> DEFINE refs == OfKind(Refs, "Service")
        <3>1. refs \in SUBSET Refs /\ \A r \in refs : r.kind = "Service"
            BY DEF OfKind
        <3> HIDE DEF refs
        <3>2. \A o \in Live(refs) : o \in Object /\ Genuine(o) /\ o.ref.kind = "Service"
            BY <3>1, LiveHolds
        <3> QED
            BY <2>1, <3>2 DEF refs
    <2>4. \A o \in chosen : About("service", o) \in Other(graph)
        BY <2>3, AboutFits
    <2>5. [i \in DOMAIN svcs |-> About("service", svcs[i])] \in Seq(Other(graph))
        BY <2>2, <2>4, SetToSeqIsSeq, AboutEachFits
    <2>6. Plainly(graph, graph')
        BY <1>4, PlainlyReflexive
    <2> QED
        BY <1>1, <1>4, <2>5, <2>6, PlainStep DEF Continue
<1> QED
    BY <1>2, <1>3, <1>4 DEF ListServices

\* The EndpointSlices of a Service are plain.
LEMMA WithSlicesPlainly ==
    ASSUME Following, NEW g, IsGraph(g), NEW svc \in Refs, NEW ok \in BOOLEAN
    PROVE  Plainly(g, WithSlices(g, svc, ok))
<1> DEFINE refs == Shape[svc].routes
           slices == Live(refs)
           edges == {Edge(svc, s.ref, "routes-to") : s \in slices}
           k == AddNodes(g, slices)
<1>1. refs \in SUBSET Refs /\ \A r \in refs : r.kind = "EndpointSlice"
    BY CollectorAssumption DEF ShapeFields, OfKind
<1> HIDE DEF refs
<1>2. \A s \in slices : Genuine(s) /\ s.ref.kind \notin Special(g)
    BY <1>1, LiveHolds DEF Special
<1>3. WithSlices(g, svc, ok) \in {AddEdges(k, edges), AddIssue(g, "endpointslices", svc, svc = focus)}
    BY DEF WithSlices, refs
<1>4. \A h : \A e \in edges : Proper(h, e)
    BY EdgeIsProper
<1> HIDE DEF slices, edges
<1>5. Plainly(g, k) /\ IsGraph(k)
    BY <1>2, AddNodesPlainly, AddNodesExtends DEF Extends
<1> HIDE DEF k
<1>6. Plainly(g, AddEdges(k, edges))
    BY <1>4, <1>5, ThenEdgesPlainly
<1> QED
    BY <1>3, <1>6, AddIssuePlainly

\* A Service, the Pods it selects and its EndpointSlices are plain.
LEMMA AddServiceFollowsOn ==
    ASSUME Following, AddService
    PROVE  FollowsOn
<1> DEFINE svc == Head(work).object
           selects == {Edge(svc.ref, p, "selects") : p \in Shape[svc.ref].selects \cap CollectedPods}
           k == AddNode(graph, svc.ref, svc)
           g == AddEdges(k, selects)
<1>1. Doing("service") /\ Continue(<<>>) /\ Working
    BY DEF AddService, Following
<1>2. svc \in Object /\ svc.ref \in Refs
    BY <1>1, HeadStartsFrom DEF OfObject
<1>3. work # <<>> /\ IsGraph(graph) /\ Genuine(svc) /\ svc.ref.kind = "Service"
    BY <1>1, HeadFits DEF Fits, OfObject
<1>4. PICK ok \in BOOLEAN : graph' = WithSlices(g, svc.ref, ok)
    BY DEF AddService
<1> HIDE DEF svc
<1>5. Plainly(graph, k) /\ IsGraph(k)
    BY <1>3, AddNodePlainly, AddNodeExtends DEF Special, Extends
<1> HIDE DEF k
<1>6. \A e \in selects : Proper(k, e)
    BY EdgeIsProper
<1> HIDE DEF selects
<1>7. Plainly(graph, g) /\ IsGraph(g)
    BY <1>5, <1>6, ThenEdgesPlainly, AddEdgesExtends DEF Extends
<1> HIDE DEF g
<1>8. Plainly(graph, graph')
    BY <1>2, <1>4, <1>7, WithSlicesPlainly, PlainlyTransitive
<1> QED
    BY <1>1, <1>3, <1>8, PlainRest

\* So are the EndpointSlices of the focus.
LEMMA ListEndpointSlicesFollowsOn ==
    ASSUME Following, ListEndpointSlices
    PROVE  FollowsOn
<1>1. Doing("slices") /\ Continue(<<>>)
    BY DEF ListEndpointSlices
<1>2. work # <<>> /\ IsGraph(graph) /\ focus \in Refs
    BY <1>1, HeadFits DEF Following, Working
<1>3. PICK ok \in BOOLEAN : graph' = WithSlices(graph, focus, ok)
    BY DEF ListEndpointSlices
<1> QED
    BY <1>1, <1>2, <1>3, WithSlicesPlainly, PlainRest


\* The HPAs of the Deployments collected: each has its target, and an issue if it lags.
LEMMA WithAutoscalersGrows ==
    ASSUME NEW g, IsGraph(g), Faithful(g), NEW hpas \in SUBSET Object,
           \A a \in hpas : /\ Genuine(a) /\ a.ref.kind = "HorizontalPodAutoscaler"
                           /\ Shape[a.ref].target # {}
                           /\ cluster[a.ref] = a
    PROVE  LET h == WithAutoscalers(g, hpas)
           IN  /\ Grows(g, h)
               /\ Faithful(h)
               /\ \A r \in DOMAIN h.nodes :
                    r.kind # "HorizontalPodAutoscaler" => r \in DOMAIN g.nodes
               /\ \A r : r.kind # "HorizontalPodAutoscaler" => ObjectOf(h, r) = ObjectOf(g, r)
<1> DEFINE edges == UNION {{Edge(a.ref, d, "scales") : d \in Shape[a.ref].target} : a \in hpas}
           lags == {Issue("horizontalpodautoscaler", a.ref, FALSE) : a \in {x \in hpas : Lagging(x)}}
           k == AddNodes(g, hpas)
           h == WithAutoscalers(g, hpas)
<1>1. /\ IsGraph(k) /\ k.focus = g.focus /\ k.start = g.start /\ k.edges = g.edges
      /\ k.issues = g.issues /\ k.events = g.events
      /\ DOMAIN k.nodes = DOMAIN g.nodes \cup {a.ref : a \in hpas}
    BY DEF AddNodes, IsGraph, GraphFields
<1>2. ASSUME NEW a \in hpas, ObjectOf(g, a.ref) = NoObject
      PROVE  ObjectOf(k, a.ref) = a
    <2> DEFINE named == {o \in hpas : o.ref = a.ref}
    <2>1. named = {a}
        OBVIOUS
    <2>2. a.ref \in DOMAIN k.nodes
        BY <1>1
    <2>3. k.nodes[a.ref] = IF ObjectOf(g, a.ref) = NoObject /\ named # {}
                           THEN [object |-> CHOOSE o \in named : TRUE, unknown |-> FALSE]
                           ELSE g.nodes[a.ref]
        BY <2>2 DEF AddNodes, IsGraph, GraphFields
    <2> HIDE DEF k, named
    <2>4. (CHOOSE o \in named : TRUE) = a
        BY <2>1
    <2>5. k.nodes[a.ref].object = a
        BY <1>2, <2>1, <2>3, <2>4
    <2> QED
        BY <2>2, <2>5 DEF ObjectOf, InGraph
<1>3. ASSUME NEW r, ObjectOf(g, r) # NoObject \/ r \notin {a.ref : a \in hpas}
      PROVE  ObjectOf(k, r) = ObjectOf(g, r)
    <2>1. r \in DOMAIN k.nodes => k.nodes[r] = g.nodes[r] /\ r \in DOMAIN g.nodes
        BY <1>1, <1>3 DEF AddNodes, IsGraph, GraphFields, ObjectOf, InGraph
    <2> HIDE DEF k
    <2> QED
        BY <1>1, <2>1 DEF ObjectOf, InGraph
<1>4. /\ h.focus = k.focus /\ h.start = k.start /\ h.events = k.events /\ h.nodes = k.nodes
      /\ h.edges = k.edges \cup edges /\ h.issues = k.issues \cup lags
    BY <1>1 DEF WithAutoscalers, AddEdges, IsGraph, GraphFields
<1> HIDE DEF h, k
<1>5. \A r : ObjectOf(h, r) = ObjectOf(k, r)
    BY <1>4 DEF ObjectOf, InGraph
<1>6. \A e \in edges : /\ e.type = "scales" /\ e.to \in Shape[e.from].target
                       /\ \E a \in hpas : e.from = a.ref
    BY DEF Edge
<1>7. \A a \in hpas : \E e \in edges : e.type = "scales" /\ e.from = a.ref
    <2> SUFFICES ASSUME NEW a \in hpas PROVE \E e \in edges : e.type = "scales" /\ e.from = a.ref
        OBVIOUS
    <2>1. PICK d : d \in Shape[a.ref].target
        OBVIOUS
    <2>2. Edge(a.ref, d, "scales") \in edges
        BY <2>1
    <2> QED
        BY <2>2 DEF Edge
<1>8. \A a \in hpas : Lagging(a) => Issue("horizontalpodautoscaler", a.ref, FALSE) \in lags
    OBVIOUS
<1> HIDE DEF edges, lags
<1>9. Grows(g, h)
    BY <1>1, <1>3, <1>4, <1>5 DEF Grows
<1>10. /\ \A r \in DOMAIN h.nodes :
            r.kind # "HorizontalPodAutoscaler" => r \in DOMAIN g.nodes
       /\ \A r : r.kind # "HorizontalPodAutoscaler" => ObjectOf(h, r) = ObjectOf(g, r)
    BY <1>1, <1>3, <1>4, <1>5
<1>11. ASSUME NEW a \in hpas, ObjectOf(g, a.ref) = NoObject
       PROVE  HpaSeen(h, a.ref)
    <2>1. ObjectOf(h, a.ref) = a /\ a # NoObject
        BY <1>2, <1>5, <1>11, NoObjectAssumption
    <2>2. a.gen \in Nat /\ a.obs \in Int
        BY DEF Object
    <2>3. HpaStatusIsCurrent(a) \/ Lagging(a)
        BY <2>2 DEF HpaStatusIsCurrent, Lagging
    <2>4. Lagging(a) => HasCollectionIssue(h, "horizontalpodautoscaler", a.ref)
        <3> DEFINE i == Issue("horizontalpodautoscaler", a.ref, FALSE)
        <3>1. i.source = "horizontalpodautoscaler" /\ i.resource = a.ref
            BY DEF Issue
        <3>2. Lagging(a) => i \in lags
            BY <1>8
        <3> HIDE DEF i
        <3> QED
            BY <1>4, <3>1, <3>2 DEF HasCollectionIssue
    <2> QED
        BY <1>4, <1>7, <2>1, <2>3, <2>4 DEF HpaSeen
<1>12. Faithful(h)
    <2>1. ASSUME NEW r \in DOMAIN h.nodes, ObjectOf(h, r) # NoObject
          PROVE  Genuine(ObjectOf(h, r))
        <3>1. CASE ObjectOf(g, r) # NoObject
            <4>1. r \in DOMAIN g.nodes
                BY <3>1 DEF ObjectOf, InGraph
            <4> QED
                BY <3>1, <4>1, <1>9 DEF Faithful, Grows
        <3>2. CASE ObjectOf(g, r) = NoObject
            <4>1. PICK a \in hpas : r = a.ref
                BY <1>3, <1>5, <2>1, <3>2
            <4> QED
                BY <1>2, <1>5, <3>2, <4>1
        <3> QED
            BY <3>1, <3>2
    <2>2. \A e \in h.edges : Proper(h, e)
        <3>1. \A e \in g.edges : Proper(h, e)
            BY <1>9, ProperStays DEF Faithful
        <3>2. \A e \in edges : Proper(h, e)
            BY <1>6 DEF Proper
        <3> QED
            BY <1>1, <1>4, <3>1, <3>2
    <2>3. \A e \in h.events :
            ObjectOf(h, e.involved) # NoObject /\ e.uid = ObjectOf(h, e.involved).uid
        BY <1>1, <1>4, <1>9 DEF Faithful, Grows
    <2>4. ASSUME NEW r \in DOMAIN h.nodes, r.kind = "HorizontalPodAutoscaler"
          PROVE  HpaSeen(h, r)
        <3>1. CASE r \in DOMAIN g.nodes
            <4>1. HpaSeen(g, r)
                BY <2>4, <3>1 DEF Faithful
            <4> QED
                BY <1>9, <4>1 DEF HpaSeen, Grows, HasCollectionIssue
        <3>2. CASE r \notin DOMAIN g.nodes
            <4>1. PICK a \in hpas : r = a.ref
                BY <1>1, <1>4, <3>2
            <4> QED
                BY <1>11, <3>2, <4>1 DEF ObjectOf, InGraph
        <3> QED
            BY <3>1, <3>2
    <2>5. h.start # NoObject =>
            ObjectOf(h, h.focus) # NoObject /\ ObjectOf(h, h.focus).uid = h.start.uid
        BY <1>9 DEF Faithful, Grows
    <2>6. h.focus.kind = "CronJob" =>
            \A j \in DOMAIN h.nodes : j.kind = "Job" => TheRun(h, j)
        <3>1. \A j \in DOMAIN h.nodes : j.kind = "Job" =>
                j \in DOMAIN g.nodes /\ ObjectOf(h, j) = ObjectOf(g, j)
            BY <1>10
        <3> QED
            BY <1>9, <3>1 DEF Faithful, TheRun, Grows
    <2> QED
        BY <2>1, <2>2, <2>3, <2>4, <2>5, <2>6 DEF Faithful
<1> QED
    BY <1>9, <1>10, <1>12 DEF h

\* The autoscalers of the Deployments collected, or an issue that they are unknown.
LEMMA CollectAutoscalersFollowsOn ==
    ASSUME Following, CollectAutoscalers
    PROVE  FollowsOn
<1> DEFINE refs == OfKind(Refs, "HorizontalPodAutoscaler")
           hpas == {a \in Live(refs) : Shape[a.ref].target \cap CollectedDeployments # {}}
           h == WithAutoscalers(graph, hpas)
<1>1. Doing("autoscalers") /\ Continue(<<>>)
    BY DEF CollectAutoscalers
<1>2. work # <<>> /\ IsGraph(graph) /\ Faithful(graph)
    BY <1>1, HeadFits
<1>3. graph' \in {graph, h, AddIssue(graph, "horizontalpodautoscaler", focus, FALSE)}
    BY Zenon DEF CollectAutoscalers
<1>4. /\ hpas \in SUBSET Object
      /\ \A a \in hpas : /\ Genuine(a) /\ a.ref.kind = "HorizontalPodAutoscaler"
                         /\ Shape[a.ref].target # {}
                         /\ cluster[a.ref] = a
    <2>1. refs \in SUBSET Refs /\ \A r \in refs : r.kind = "HorizontalPodAutoscaler"
        BY DEF OfKind
    <2> HIDE DEF refs
    <2> QED
        BY <2>1, LiveHolds
<1> HIDE DEF hpas
<1>5. CASE graph' = h
    <2>1. /\ Grows(graph, h)
          /\ Faithful(h)
          /\ \A r \in DOMAIN h.nodes :
                r.kind # "HorizontalPodAutoscaler" => r \in DOMAIN graph.nodes
          /\ \A r : r.kind # "HorizontalPodAutoscaler" => ObjectOf(h, r) = ObjectOf(graph, r)
        BY <1>2, <1>4, WithAutoscalersGrows
    <2> HIDE DEF h
    <2>2. Tail(work) \in Seq(Fit(graph))
        BY <1>2, RestOf DEF Following, OInv
    <2>3. ASSUME NEW t \in Fit(graph)
          PROVE  t \in Fit(h)
        <3>1. t.op = "pod" => ObjectOf(h, t.ref) = ObjectOf(graph, t.ref)
            BY <2>1 DEF Fit, Fits, PodAwaits
        <3> QED
            BY <2>1, <3>1, FitsStays
    <2>4. Tail(work) \in Seq(Fit(h))
        BY <2>2, <2>3, SeqOfWhat, LenProperties
    <2>5. <<>> \in Seq(Other(h))
        OBVIOUS
    <2> QED
        BY <1>1, <1>2, <1>5, <2>1, <2>4, <2>5, GoesOn DEF Continue
<1>6. CASE graph' # h
    <2>1. Plainly(graph, graph')
        BY <1>2, <1>3, <1>6, AddIssuePlainly, PlainlyReflexive
    <2> QED
        BY <1>1, <1>2, <2>1, PlainRest
<1> QED
    BY <1>5, <1>6

\* Events are asked for of Pods the graph holds.
LEMMA CollectEventsFollowsOn ==
    ASSUME Following, CollectEvents
    PROVE  FollowsOn
<1> DEFINE asked == {r \in CollectedPods : ~Shape[r].quiet}
           pods == SetToSeq(asked)
           tasks == [i \in DOMAIN pods |-> About("podEvents", ObjectOf(graph, pods[i]))]
<1>1. Doing("events") /\ UNCHANGED graph /\ Continue(tasks)
    BY DEF CollectEvents
<1>2. work # <<>> /\ Typed(graph) /\ Faithful(graph)
    BY <1>1, HeadFits
<1>3. \A r \in asked : r \in DOMAIN graph.nodes /\ r.kind = "Pod"
    BY DEF CollectedPods, OfKind
<1>4. ASSUME NEW r \in asked
      PROVE  About("podEvents", ObjectOf(graph, r)) \in Other(graph)
    <2>1. ObjectOf(graph, r) # NoObject
        BY <1>2, <1>3 DEF Typed, ObjectOf, InGraph
    <2>2. ObjectOf(graph, r) \in Object /\ ObjectOf(graph, r).ref = r /\ Genuine(ObjectOf(graph, r))
        BY <1>2, <1>3, <2>1, HeldIsObject DEF Faithful
    <2> QED
        BY <2>2, AboutFits
<1>5. IsFiniteSet(asked)
    <2>1. asked \subseteq Refs
        BY <1>2, <1>3 DEF Typed
    <2> HIDE DEF asked
    <2> QED
        BY <2>1, CollectorAssumption, FS_Subset
<1> HIDE DEF asked
<1>6. pods \in Seq(asked)
    BY <1>5, SetToSeqIsSeq
<1> HIDE DEF pods
<1>7. \A i \in DOMAIN pods : tasks[i] \in Other(graph)
    BY <1>4, <1>6, LenProperties
<1>8. DOMAIN tasks = DOMAIN pods /\ tasks = [i \in DOMAIN pods |-> tasks[i]]
    OBVIOUS
<1> HIDE DEF tasks
<1>9. tasks \in Seq(Other(graph))
    BY <1>6, <1>7, <1>8, MappedIsSeq
<1>10. Plainly(graph, graph')
    BY <1>1, PlainlyReflexive
<1> QED
    BY <1>1, <1>2, <1>9, <1>10, PlainStep DEF Continue

\* Events kept about a Pod name the incarnation the graph holds.
LEMMA ListPodEventsFollowsOn ==
    ASSUME Following, ListPodEvents
    PROVE  FollowsOn
<1> DEFINE pod == Head(work).object
           kept == {e \in recorded : EventMatchesPod(e, pod)}
           h == AddEvents(graph, kept)
<1>1. Doing("podEvents") /\ Continue(<<>>) /\ Working
    BY DEF ListPodEvents, Following
<1>2. pod \in Object
    BY <1>1, HeadStartsFrom DEF OfObject
<1>3. work # <<>> /\ IsGraph(graph) /\ Faithful(graph) /\ ObjectOf(graph, pod.ref) = pod
    BY <1>1, HeadFits DEF Fits, AboutHeld
<1>4. graph' \in {h, AddIssue(graph, "events", pod.ref, FALSE)}
    BY DEF ListPodEvents
<1>5. \A e \in kept : e.involved = pod.ref /\ e.uid = pod.uid
    BY DEF EventMatchesPod
<1> HIDE DEF kept, pod
<1>6. CASE graph' = h
    <2>1. /\ h.focus = graph.focus /\ h.start = graph.start /\ h.nodes = graph.nodes
          /\ h.edges = graph.edges /\ h.issues = graph.issues
          /\ h.events = graph.events \cup kept
        BY <1>3 DEF AddEvents, IsGraph, GraphFields
    <2> HIDE DEF h
    <2>2. \A r : ObjectOf(h, r) = ObjectOf(graph, r)
        BY <2>1 DEF ObjectOf, InGraph
    <2>3. Grows(graph, h)
        BY <2>1, <2>2 DEF Grows
    <2>4. pod # NoObject
        BY <1>2, NoObjectAssumption
    <2>5. \A e \in h.events :
            ObjectOf(h, e.involved) # NoObject /\ e.uid = ObjectOf(h, e.involved).uid
        BY <1>3, <1>5, <2>1, <2>2, <2>4 DEF Faithful
    <2>6. \A e \in h.edges : Proper(h, e)
        BY <1>3, <2>1, <2>3, ProperStays DEF Faithful
    <2>7. Faithful(h)
        BY <1>3, <2>1, <2>2, <2>5, <2>6 DEF Faithful, HpaSeen, HasCollectionIssue, TheRun
    <2>8. Tail(work) \in Seq(Fit(graph))
        BY <1>3, RestOf DEF Following, OInv
    <2>9. \A t \in Fit(graph) : t \in Fit(h)
        BY <2>1, <2>2, <2>3, FitsStays
    <2>10. Tail(work) \in Seq(Fit(h)) /\ <<>> \in Seq(Other(h))
        BY <2>8, <2>9, SeqOfWhat, LenProperties
    <2> QED
        BY <1>1, <1>3, <1>6, <2>7, <2>10, GoesOn DEF Continue
<1>7. CASE graph' = AddIssue(graph, "events", pod.ref, FALSE)
    <2>1. Plainly(graph, graph')
        BY <1>3, <1>7, AddIssuePlainly
    <2> QED
        BY <1>1, <1>3, <2>1, PlainRest
<1> QED
    BY <1>4, <1>6, <1>7

\* The version, or the issue that nobody knows it; an invalid selector ends it all.
LEMMA CollectClusterInfoFollowsOn ==
    ASSUME Following, CollectClusterInfo
    PROVE  FollowsOn
<1>1. Doing("clusterInfo")
    BY DEF CollectClusterInfo
<1>2. work # <<>> /\ IsGraph(graph) /\ Faithful(graph)
    BY <1>1, HeadFits
<1>3. graph' \in {SetKubernetesVersion(graph), AddIssue(graph, "kubernetes-version", focus, TRUE)}
    BY DEF CollectClusterInfo, VersionIssue
<1>4. Plainly(graph, graph')
    BY <1>2, <1>3, AddIssuePlainly
<1>5. CASE work' = <<>>
    <2>1. Faithful(graph')
        BY <1>2, <1>4, PlainlyFaithful
    <2>2. Apart(work') /\ work' \in Seq(Fit(graph'))
        BY <1>5 DEF Apart
    <2> QED
        BY <2>1, <2>2 DEF FollowsOn
<1>6. CASE Continue(<<>>)
    BY <1>2, <1>4, <1>6, PlainRest
<1> QED
    BY <1>5, <1>6 DEF CollectClusterInfo

\* The last read judges the graph and adds issues to it.
LEMMA FinishFollowsOn ==
    ASSUME Following, FinishFocusCollection
    PROVE  FollowsOn
<1>1. Doing("finish") /\ work' = <<>>
    BY DEF FinishFocusCollection
<1>2. IsGraph(graph) /\ Faithful(graph)
    BY <1>1, HeadFits
<1>3. PICK ok \in BOOLEAN :
        LET g == FinishCollection(graph, Got(focus, ok))
        IN  graph' = IF g.stability = "stable" THEN ValidateControllerFreshness(g)
                     ELSE AddIssue(g, "temporal-integrity", focus, TRUE)
    BY DEF FinishFocusCollection
<1> DEFINE g == FinishCollection(graph, Got(focus, ok))
<1>4. /\ IsGraph(g) /\ g.focus = graph.focus /\ g.start = graph.start /\ g.nodes = graph.nodes
      /\ g.edges = graph.edges /\ g.issues = graph.issues /\ g.events = graph.events
    BY <1>2 DEF FinishCollection, IsGraph, GraphFields
<1>5. graph' \in {ValidateControllerFreshness(g), AddIssue(g, "temporal-integrity", focus, TRUE)}
    BY <1>3
<1> HIDE DEF g
<1>6. /\ graph'.focus = g.focus /\ graph'.start = g.start /\ graph'.nodes = g.nodes
      /\ graph'.edges = g.edges /\ g.issues \subseteq graph'.issues /\ graph'.events = g.events
    BY <1>4, <1>5 DEF ValidateControllerFreshness, AddIssue, AddCollectionIssue, IsGraph, GraphFields
<1>7. \A r : ObjectOf(graph', r) = ObjectOf(graph, r)
    BY <1>4, <1>6 DEF ObjectOf, InGraph
<1>8. Plainly(graph, graph')
    BY <1>4, <1>6, <1>7 DEF Plainly, Grows
<1>9. Faithful(graph')
    BY <1>2, <1>8, PlainlyFaithful
<1>10. Apart(work') /\ work' \in Seq(Fit(graph'))
    BY <1>1 DEF Apart
<1> QED
    BY <1>9, <1>10 DEF FollowsOn


-----------------------------------------------------------------------------
(* The first read, and every step of an inspection. *)

\* One task that leads to Pods among others that do not.
LEMMA SourceAmongOthers ==
    ASSUME NEW g, NEW u \in Seq(Other(g)), NEW v \in Seq(Other(g)),
           NEW s \in Fit(g), s.op \in PodSources
    PROVE  /\ (u \o <<s>>) \o v \in Seq(Fit(g)) /\ Apart((u \o <<s>>) \o v)
           /\ u \o v \in Seq(Fit(g)) /\ Apart(u \o v)
<1>1. ASSUME NEW w \in Seq(Other(g))
      PROVE  /\ w \in Seq(Fit(g)) /\ Apart(w)
             /\ \A i \in DOMAIN w : w[i].op \notin PodOps
    <2>1. \A i \in DOMAIN w : w[i] \in Fit(g) /\ w[i].op \notin PodOps
        BY LenProperties DEF Other
    <2> QED
        BY <2>1, SeqOfWhat, OthersAreApart
<1>2. <<s>> \in Seq(Fit(g)) /\ Apart(<<s>>)
    <2>1. DOMAIN <<s>> = {1}
        OBVIOUS
    <2> QED
        BY <2>1 DEF Apart
<1>3. u \o <<s>> \in Seq(Fit(g)) /\ Apart(u \o <<s>>)
    BY <1>1, <1>2, ConcatIsApart, ConcatProperties
<1>4. (u \o <<s>>) \o v \in Seq(Fit(g)) /\ Apart((u \o <<s>>) \o v)
    BY <1>1, <1>3, ConcatIsApart, ConcatProperties
<1>5. u \o v \in Seq(Fit(g)) /\ Apart(u \o v)
    BY <1>1, ConcatIsApart, ConcatProperties
<1> QED
    BY <1>4, <1>5

\* Which list of Pods a focus begins with.
Source(kind) ==
    CASE kind = "Service" -> "selectedPods"       [] kind = "Deployment" -> "replicaSets"
      [] kind = "StatefulSet" -> "statefulSetPods" [] kind = "CronJob" -> "cronJobJobs"

\* A graph that holds the focus alone.
OnlyFocus(g, object) ==
    /\ object \in Object /\ object # NoObject /\ Genuine(object) /\ object.ref = focus
    /\ g.focus = focus
    /\ DOMAIN g.nodes = {focus}
    /\ ObjectOf(g, focus) = object

\* That list fits a graph that holds the focus alone.
LEMMA SourceFits ==
    ASSUME focus \in Refs, NEW g, NEW object, OnlyFocus(g, object),
           focus.kind \in {"Service", "Deployment", "StatefulSet", "CronJob"}
    PROVE  Step(Source(focus.kind)) \in Fit(g) /\ Step(Source(focus.kind)).op \in PodSources
<1> DEFINE op == Source(focus.kind)
           t == Step(op)
<1>1. op \in {"selectedPods", "replicaSets", "statefulSetPods", "cronJobJobs"}
    BY DEF Source
<1>2. /\ op = "selectedPods" => focus.kind = "Service"
      /\ op = "replicaSets" => focus.kind = "Deployment"
      /\ op = "statefulSetPods" => focus.kind = "StatefulSet"
      /\ op = "cronJobJobs" => focus.kind = "CronJob"
    BY DEF Source
<1> HIDE DEF op
<1>3. t.op = op
    BY DEF Step, Task
<1>4. t \in GoodTask
    BY <1>1, StepIsGood DEF OfFocus
<1> HIDE DEF t
<1>5. /\ t.op \in PodSources /\ t.op \notin Simple /\ t.op \notin AboutHeld /\ t.op \notin OfObject
      /\ t.op \notin {"exactOwner", "jobPods", "deployment", "service", "link", "pod", "deploymentPods"}
    BY <1>1, <1>3 DEF PodSources, Simple, AboutHeld, OfObject
<1>6. \A r \in DOMAIN g.nodes : r.kind # "Pod" /\ (focus.kind = "CronJob" => r.kind # "Job")
    BY DEF OnlyFocus
<1>7. FocusFits(g, t)
    BY <1>2, <1>3, <1>5, <1>6 DEF FocusFits, OnlyFocus
<1>8. RunIsKnown(g, t)
    BY <1>5 DEF RunIsKnown
<1>9. t \in Fit(g)
    BY <1>4, <1>5, <1>7, <1>8 DEF Fit, Fits
<1> QED
    BY <1>5, <1>9 DEF t, op

\* What a Collect function plans fits the graph of its first read.
LEMMA PlanFits ==
    ASSUME focus \in Foci, focus \in Refs, NEW g, NEW object, OnlyFocus(g, object)
    PROVE  Plan(object) \in Seq(Fit(g)) /\ Apart(Plan(object))
<1>1. /\ Step("clusterInfo") \in Other(g) /\ Step("slices") \in Other(g)
      /\ Step("autoscalers") \in Other(g) /\ Step("services") \in Other(g)
      /\ Step("events") \in Other(g) /\ Step("finish") \in Other(g)
    BY IdleFits DEF Idle
<1>2. /\ object \in Object /\ object # NoObject /\ Genuine(object) /\ object.ref = focus
      /\ g.focus = focus /\ ObjectOf(g, object.ref) = object
    BY DEF OnlyFocus
<1>3. focus.kind \in FocusKinds
    BY CollectorAssumption
<1> DEFINE info == <<Step("clusterInfo")>>
<1>4. info \in Seq(Other(g))
    BY <1>1
<1>5. CASE focus.kind = "Service"
    <2> DEFINE rest == <<Step("slices"), Step("autoscalers"), Step("events"), Step("finish")>>
               s == Step("selectedPods")
    <2>1. rest \in Seq(Other(g))
        BY <1>1
    <2>2. s \in Fit(g) /\ s.op \in PodSources
        BY <1>5, SourceFits DEF Source
    <2>3. Plan(object) \in {(info \o <<s>>) \o rest, (info \o <<>>) \o rest}
        BY <1>5 DEF Plan
    <2> HIDE DEF info, rest, s
    <2>4. info \o <<>> = info
        BY <1>4
    <2> QED
        BY <1>4, <2>1, <2>2, <2>3, <2>4, SourceAmongOthers
<1>6. CASE focus.kind = "Deployment"
    <2> DEFINE rest == <<Step("services"), Step("autoscalers"), Step("events"), Step("finish")>>
               s == Step("replicaSets")
    <2>1. rest \in Seq(Other(g))
        BY <1>1
    <2>2. s \in Fit(g) /\ s.op \in PodSources
        BY <1>6, SourceFits DEF Source
    <2>3. Plan(object) = (info \o <<s>>) \o rest
        BY <1>6 DEF Plan
    <2> HIDE DEF info, rest, s
    <2> QED
        BY <1>4, <2>1, <2>2, <2>3, SourceAmongOthers
<1>7. CASE focus.kind = "StatefulSet"
    <2> DEFINE rest == <<Step("services"), Step("events"), Step("finish")>>
               s == Step("statefulSetPods")
    <2>1. rest \in Seq(Other(g))
        BY <1>1
    <2>2. s \in Fit(g) /\ s.op \in PodSources
        BY <1>7, SourceFits DEF Source
    <2>3. Plan(object) = (info \o <<s>>) \o rest
        BY <1>7 DEF Plan
    <2> HIDE DEF info, rest, s
    <2> QED
        BY <1>4, <2>1, <2>2, <2>3, SourceAmongOthers
<1>8. CASE focus.kind = "CronJob"
    <2> DEFINE rest == <<Step("events"), Step("finish")>>
               s == Step("cronJobJobs")
    <2>1. rest \in Seq(Other(g))
        BY <1>1
    <2>2. s \in Fit(g) /\ s.op \in PodSources
        BY <1>8, SourceFits DEF Source
    <2>3. Plan(object) = (info \o <<s>>) \o rest
        BY <1>8 DEF Plan
    <2> HIDE DEF info, rest, s
    <2> QED
        BY <1>4, <2>1, <2>2, <2>3, SourceAmongOthers
<1>9. CASE focus.kind = "Job"
    <2> DEFINE rest == <<Step("events"), Step("finish")>>
               s == About("jobPods", object)
               first == JobTasks(object)
    <2>1. rest \in Seq(Other(g))
        BY <1>1
    <2>2. first \in Seq(Other(g))
        BY <1>2, JobTasksFit
    <2>3. s \in Fit(g) /\ s.op \in PodSources
        <3>1. \A r \in DOMAIN g.nodes : r.kind # "Pod"
            BY <1>9 DEF OnlyFocus
        <3> QED
            BY <1>2, <1>9, <3>1, JobPodsFits DEF PodSources
    <2>4. Plan(object) = first \o <<Step("clusterInfo"), s, Step("events"), Step("finish")>>
        BY <1>9 DEF Plan
    <2>5. <<Step("clusterInfo"), s, Step("events"), Step("finish")>> = (info \o <<s>>) \o rest
        OBVIOUS
    <2> HIDE DEF info, rest, s, first
    <2>6. /\ first \o info \in Seq(Other(g))
          /\ Plan(object) = first \o ((info \o <<s>>) \o rest)
        BY <1>4, <2>2, <2>4, <2>5, ConcatProperties
    <2>7. first \o ((info \o <<s>>) \o rest) = ((first \o info) \o <<s>>) \o rest
        <3> DEFINE All == Fit(g) \cup Other(g)
        <3>1. first \in Seq(All) /\ info \in Seq(All) /\ rest \in Seq(All) /\ <<s>> \in Seq(All)
            BY <1>4, <2>1, <2>2, <2>3, SeqOfWhat, LenProperties
        <3> HIDE DEF All
        <3>2. info \o <<s>> \in Seq(All)
            BY <3>1, ConcatProperties
        <3>3. first \o ((info \o <<s>>) \o rest) = (first \o (info \o <<s>>)) \o rest
            BY <3>1, <3>2, ConcatAssociative
        <3>4. first \o (info \o <<s>>) = (first \o info) \o <<s>>
            BY <3>1, ConcatAssociative
        <3> QED
            BY <3>3, <3>4
    <2> QED
        BY <2>1, <2>3, <2>6, <2>7, SourceAmongOthers
<1>10. CASE focus.kind = "Pod"
    <2> DEFINE rest == <<Step("clusterInfo"), Step("services"), Step("autoscalers"),
                         Step("events"), Step("finish")>>
               all == PodTasks(object) \o rest
    <2>1. rest \in Seq(Other(g))
        BY <1>1
    <2>2. PodTasks(object) \in Seq(Other(g))
        BY <1>2, <1>10, PodTasksFit
    <2>3. Plan(object) = all
        BY <1>10 DEF Plan
    <2> HIDE DEF rest
    <2>4. all \in Seq(Other(g))
        BY <2>1, <2>2, ConcatProperties
    <2> HIDE DEF all
    <2>5. \A i \in DOMAIN all : all[i] \in Fit(g) /\ all[i].op \notin PodOps
        BY <2>4, LenProperties DEF Other
    <2> QED
        BY <2>3, <2>4, <2>5, SeqOfWhat, OthersAreApart
<1> QED
    BY <1>3, <1>5, <1>6, <1>7, <1>8, <1>9, <1>10 DEF FocusKinds

\* What the first read finds is faithful.
LEMMA ReadFocusOInv ==
    ASSUME IInv, OInv, ReadFocus
    PROVE  OInv'
<1>1. /\ focus \in Foci /\ focus \in Refs /\ UNCHANGED cluster
      /\ ClusterInv
    BY DEF ReadFocus, IInv, Collecting, clusterVars
<1>2. ClusterGenuine'
    BY <1>1 DEF OInv, ClusterGenuine
<1>3. CASE UNCHANGED <<work, graph>>
    BY <1>2, <1>3 DEF OInv
<1>4. ASSUME NEW object, object = cluster[focus], object # NoObject,
             graph' = AddNode(BeginCollection(NewGraph(focus), object), focus, object),
             work' = Plan(object)
      PROVE  OInv'
    <2> DEFINE g == BeginCollection(NewGraph(focus), object)
               h == AddNode(g, focus, object)
    <2>1. object \in Object /\ object.ref = focus /\ Genuine(object)
        BY <1>1, <1>4 DEF ClusterInv, ClusterTypeOK, OInv, ClusterGenuine
    <2>2. /\ IsGraph(g) /\ g.focus = focus /\ g.start = FocusRevision(object)
          /\ g.edges = {} /\ g.events = {} /\ DOMAIN g.nodes = {}
        BY DEF BeginCollection, NewGraph, IsGraph, GraphFields
    <2> HIDE DEF g
    <2>3. ObjectOf(g, focus) = NoObject
        BY <2>2 DEF ObjectOf, InGraph
    <2>4. /\ h.focus = focus /\ h.start = FocusRevision(object)
          /\ h.edges = {} /\ h.events = {}
          /\ DOMAIN h.nodes = {focus} /\ h.nodes[focus].object = object
        BY <2>2, <2>3 DEF AddNode, PutNode, IsGraph, GraphFields
    <2> HIDE DEF h
    <2>5. ObjectOf(h, focus) = object
        BY <2>4 DEF ObjectOf, InGraph
    <2>6. focus.kind \in FocusKinds
        BY <1>1, CollectorAssumption
    <2>7. Faithful(h)
        <3>1. \A r \in DOMAIN h.nodes : ObjectOf(h, r) # NoObject => Genuine(ObjectOf(h, r))
            BY <2>1, <2>4, <2>5
        <3>2. \A r \in DOMAIN h.nodes : r.kind # "HorizontalPodAutoscaler"
            BY <2>4, <2>6 DEF FocusKinds
        <3>3. ObjectOf(h, h.focus) # NoObject /\ ObjectOf(h, h.focus).uid = h.start.uid
            BY <1>4, <2>4, <2>5 DEF FocusRevision
        <3>4. h.focus.kind = "CronJob" => \A j \in DOMAIN h.nodes : j.kind # "Job"
            BY <2>4
        <3> QED
            BY <2>4, <3>1, <3>2, <3>3, <3>4 DEF Faithful
    <2>8. OnlyFocus(h, object)
        BY <1>4, <2>1, <2>4, <2>5 DEF OnlyFocus
    <2>9. Plan(object) \in Seq(Fit(h)) /\ Apart(Plan(object))
        BY <1>1, <2>8, PlanFits
    <2>10. graph' = h
        BY <1>4 DEF h, g
    <2> QED
        BY <1>2, <1>4, <2>7, <2>9, <2>10 DEF OInv
<1>5. PICK ok \in BOOLEAN :
        \/ UNCHANGED <<work, graph>>
        \/ /\ Got(focus, ok) # NoObject
           /\ graph' = AddNode(BeginCollection(NewGraph(focus), Got(focus, ok)), focus, Got(focus, ok))
           /\ work' = Plan(Got(focus, ok))
    BY DEF ReadFocus
<1>6. Got(focus, ok) # NoObject => Got(focus, ok) = cluster[focus]
    BY DEF Got
<1> QED
    BY <1>3, <1>4, <1>5, <1>6

\* The graph is empty to begin with.
LEMMA InitOInv == Init => OInv
<1> SUFFICES ASSUME Init PROVE OInv
    OBVIOUS
<1>1. ClusterGenuine
    BY InitGenuine DEF Init
<1>2. /\ graph.start = NoObject /\ graph.edges = {} /\ graph.events = {}
      /\ DOMAIN graph.nodes = {} /\ work = <<>>
    BY DEF Init, NewGraph
<1>3. Faithful(graph)
    BY <1>2 DEF Faithful
<1>4. Apart(work) /\ work \in Seq(Fit(graph))
    BY <1>2 DEF Apart
<1> QED
    BY <1>1, <1>3, <1>4 DEF OInv

\* A step between the two reads takes a task of a collection that follows what it holds.
LEMMA WorkingIsFollowing ==
    ASSUME IInv, GInv, OInv, NEW op, Doing(op)
    PROVE  Following
<1>1. status = "running" /\ work # <<>>
    BY DEF Doing
<1>2. graph.start # NoObject
    BY <1>1 DEF IInv
<1>3. Working
    BY <1>1 DEF Working, IInv, GInv, Lost
<1> QED
    BY <1>2, <1>3 DEF Following, GInv

\* Every step between the two reads keeps what the graph says faithful.
LEMMA GatheringFollowsOn ==
    ASSUME Following, GatheringStep \/ FinishFocusCollection
    PROVE  FollowsOn
BY CollectClusterInfoFollowsOn, AddPodFollowsOn, AddLinksFollowsOn, ResolveExactOwnerFollowsOn,
   ResolveReplicaSetFollowsOn, ReferencesFollowOn, AddSecretRefFollowsOn,
   ListSelectedPodsFollowsOn, ListReplicaSetsFollowsOn, ListDeploymentPodsFollowsOn,
   ListStatefulSetPodsFollowsOn, ListJobPodsFollowsOn, ListCronJobJobsFollowsOn,
   ListServicesFollowsOn, AddServiceFollowsOn, ListEndpointSlicesFollowsOn,
   CollectAutoscalersFollowsOn, CollectEventsFollowsOn, ListPodEventsFollowsOn,
   FinishFollowsOn, Zenon DEF GatheringStep

\* Every step of an inspection keeps it.
LEMMA NextOInv == IInv /\ GInv /\ OInv /\ [Next]_vars => OInv'
<1> SUFFICES ASSUME IInv, GInv, OInv, [Next]_vars PROVE OInv'
    OBVIOUS
<1>1. CASE ReadFocus
    BY <1>1, ReadFocusOInv
<1>2. ASSUME Following, GatheringStep \/ FinishFocusCollection, UNCHANGED cluster
      PROVE  OInv'
    <2>1. FollowsOn
        BY <1>2, GatheringFollowsOn
    <2>2. ClusterGenuine'
        BY <1>2 DEF OInv, ClusterGenuine
    <2> QED
        BY <2>1, <2>2 DEF FollowsOn, OInv
<1>3. CASE GatheringStep
    <2>1. Gathers
        BY <1>3, GatheringStepGathers DEF IInv
    <2>2. Doing(Head(work).op) /\ UNCHANGED cluster
        BY <2>1 DEF Gathers, Doing, clusterVars
    <2> QED
        BY <1>2, <1>3, <2>2, WorkingIsFollowing
<1>4. CASE FinishFocusCollection
    <2>1. Doing("finish") /\ UNCHANGED cluster
        BY <1>4 DEF FinishFocusCollection, Collecting, clusterVars
    <2> QED
        BY <1>2, <1>4, <2>1, WorkingIsFollowing
<1>5. CASE Environment
    <2>1. PICK r \in Volatile[focus] : ClusterWrite(r)
        BY <1>5 DEF Environment
    <2>2. r \in Refs
        BY <2>1, CollectorAssumption DEF IInv
    <2>3. ClusterGenuine'
        BY <2>1, <2>2, WriteGenuine DEF IInv, OInv
    <2>4. UNCHANGED <<graph, work>>
        BY <1>5 DEF Environment
    <2> QED
        BY <2>3, <2>4 DEF OInv
<1>6. CASE UNCHANGED <<cluster, graph, work>>
    BY <1>6 DEF OInv, ClusterGenuine
<1>7. CASE Expire
    BY <1>6, <1>7 DEF Expire, clusterVars
<1>8. CASE UNCHANGED vars
    BY <1>6, <1>8 DEF vars, collectorVars, clusterVars
<1> QED
    BY <1>1, <1>3, <1>4, <1>5, <1>7, <1>8, CollectorStepCases DEF Next

\* Whatever is in the graph, and whatever is left to add, is about objects that are what
\* they are held to be, at every moment of an inspection.
THEOREM GraphIsFaithful == Spec => [](IInv /\ GInv /\ OInv)
<1>1. Init => IInv /\ GInv /\ OInv
    BY InitIInv, InitGInv, InitOInv
<1>2. IInv /\ GInv /\ OInv /\ [Next]_vars => IInv' /\ GInv' /\ OInv'
    BY NextIInv, NextGInv, NextOInv
<1> QED
    BY <1>1, <1>2, PTL DEF Spec

\* Ownership by UID, whatever is recreated under the same name meanwhile (resolveExactJob
\* and its like, addJob, collectJobPods).
THEOREM OwnersAreExact == Spec => []ExactOwners
<1>1. OInv => ExactOwners
    BY DEF OInv, Faithful, Proper, ExactOwners, ExactKinds, OwnedBy
<1> QED
    BY <1>1, GraphIsFaithful, PTL

-----------------------------------------------------------------------------
(* The latest run of a CronJob: only the scan of its Jobs brings a Job into   *)
(* the graph, and what it chooses is the latest of what the API server holds. *)

\* The nodes an addition may bring, by what is added.
LEMMA NodesBrought ==
    ASSUME NEW g, IsGraph(g)
    PROVE  /\ \A edges : AddEdges(g, edges).nodes = g.nodes
           /\ \A events : AddEvents(g, events).nodes = g.nodes
           /\ \A issue : AddCollectionIssue(g, issue).nodes = g.nodes
           /\ SetKubernetesVersion(g).nodes = g.nodes
           /\ \A r, o : DOMAIN AddNode(g, r, o).nodes \subseteq DOMAIN g.nodes \cup {r}
           /\ \A os : DOMAIN AddNodes(g, os).nodes = DOMAIN g.nodes \cup {o.ref : o \in os}
           /\ \A r : DOMAIN Unresolved(g, r).nodes \subseteq DOMAIN g.nodes \cup {r}
<1>1. /\ \A edges : AddEdges(g, edges).nodes = g.nodes
      /\ \A events : AddEvents(g, events).nodes = g.nodes
      /\ SetKubernetesVersion(g).nodes = g.nodes
    BY DEF AddEdges, AddEvents, SetKubernetesVersion, IsGraph, GraphFields
<1>2. ASSUME NEW h, IsGraph(h), NEW issue
      PROVE  AddCollectionIssue(h, issue).nodes = h.nodes
    BY <1>2 DEF AddCollectionIssue, IsGraph, GraphFields
<1>3. ASSUME NEW r, NEW node
      PROVE  DOMAIN PutNode(g, r, node).nodes = DOMAIN g.nodes \cup {r}
    BY DEF PutNode, IsGraph, GraphFields
<1>4. \A r, o : DOMAIN AddNode(g, r, o).nodes \subseteq DOMAIN g.nodes \cup {r}
    BY <1>3 DEF AddNode
<1>5. \A os : DOMAIN AddNodes(g, os).nodes = DOMAIN g.nodes \cup {o.ref : o \in os}
    BY DEF AddNodes, IsGraph, GraphFields
<1>6. ASSUME NEW r
      PROVE  DOMAIN Unresolved(g, r).nodes \subseteq DOMAIN g.nodes \cup {r}
    <2>1. /\ IsGraph(AddUnknownNode(g, r))
          /\ DOMAIN AddUnknownNode(g, r).nodes \subseteq DOMAIN g.nodes \cup {r}
        BY <1>3, AddUnknownNodeExtends DEF AddUnknownNode, Extends
    <2> QED
        BY <1>2, <2>1 DEF Unresolved, AddIssue
<1> QED
    BY <1>1, <1>2, <1>4, <1>5, <1>6

\* Every Job the graph holds after a step it held before.
BringsNoJob ==
    \A r \in DOMAIN graph'.nodes : r.kind = "Job" => r \in DOMAIN graph.nodes

\* A step that looks up no more than one resource.
LEMMA OneLookUpBringsNoJob ==
    ASSUME Following, focus.kind = "CronJob",
           \/ AddPod \/ ResolveExactOwner \/ ResolveReplicaSet \/ ResolveDeployment
           \/ AddConfigMapRef \/ AddSecretRef \/ AddStorageRef \/ AddScheduledNode
    PROVE  BringsNoJob
<1> DEFINE t == Head(work)
<1>1. IsGraph(graph) /\ Working /\ graph.focus = focus
    BY DEF Following, Working, Sound, Typed
<1>2. ASSUME NEW g, IsGraph(g), g.nodes = graph.nodes \/ DOMAIN g.nodes \subseteq DOMAIN graph.nodes \cup {t.ref},
             t.ref.kind # "Job", NEW edges,
             graph' = g \/ graph' = AddEdges(g, edges)
      PROVE  BringsNoJob
    BY <1>2, NodesBrought DEF BringsNoJob
<1>3. ASSUME NEW r \in Refs, r = t.ref, r.kind # "Job", NEW edge, LookUp(r, edge)
      PROVE  BringsNoJob
    <2>1. CASE graph' = AddEdges(graph, {edge})
        BY <1>1, <1>2, <1>3, <2>1
    <2>2. ASSUME NEW ok \in BOOLEAN, graph' = AddEdges(Looked(r, ok), {edge})
          PROVE  BringsNoJob
        <3>1. Looked(r, ok) \in {AddNode(graph, r, Got(r, ok)), Unresolved(graph, r)}
            BY DEF Looked
        <3>2. IsGraph(Looked(r, ok)) /\ DOMAIN Looked(r, ok).nodes \subseteq DOMAIN graph.nodes \cup {r}
            BY <1>1, <3>1, NodesBrought, AddNodeExtends, UnresolvedExtends DEF Extends
        <3> QED
            BY <1>2, <1>3, <2>2, <3>2
    <2> QED
        BY <1>3, <2>1, <2>2 DEF LookUp
<1>4. CASE AddPod
    <2>1. Doing("pod") /\ graph' = AddNode(graph, t.object.ref, t.object)
        BY <1>4 DEF AddPod
    <2>2. t.object.ref = t.ref /\ t.ref.kind = "Pod"
        BY <2>1, HeadFits DEF Fits, PodAwaits
    <2> QED
        BY <1>1, <2>1, <2>2, NodesBrought DEF BringsNoJob
<1>5. CASE ResolveExactOwner
    <2>1. Doing("exactOwner")
        BY <1>5 DEF ResolveExactOwner
    <2>2. t.ref.kind = "Job" => t.ref \in DOMAIN graph.nodes
        BY <1>1, <2>1, HeadFits DEF Fits, RunIsKnown
    <2>3. \/ graph' = graph
          \/ graph' = Unresolved(graph, t.ref)
          \/ \E ok \in BOOLEAN : graph' = AddNode(graph, t.ref, Got(t.ref, ok))
        BY <1>5, Zenon DEF ResolveExactOwner
    <2>4. DOMAIN graph'.nodes \subseteq DOMAIN graph.nodes \cup {t.ref}
        BY <1>1, <2>3, NodesBrought
    <2> QED
        BY <2>2, <2>4 DEF BringsNoJob
<1>6. CASE ResolveReplicaSet
    <2> DEFINE owns == {Edge(t.ref, t.object.ref, "owns")}
    <2>1. Doing("replicaSet")
        BY <1>6 DEF ResolveReplicaSet
    <2>2. t.ref.kind # "Job"
        BY <2>1, HeadFits DEF GoodTask
    <2>3. \/ graph' = AddEdges(graph, owns)
          \/ graph' = AddEdges(Unresolved(graph, t.ref), owns)
          \/ \E ok \in BOOLEAN : graph' = AddNode(graph, t.ref, Got(t.ref, ok))
        BY <1>6, Zenon DEF ResolveReplicaSet
    <2> HIDE DEF owns
    <2>4. IsGraph(Unresolved(graph, t.ref))
        BY <1>1, UnresolvedExtends DEF Extends
    <2>5. DOMAIN graph'.nodes \subseteq DOMAIN graph.nodes \cup {t.ref}
        BY <1>1, <2>3, <2>4, NodesBrought
    <2> QED
        BY <2>2, <2>5 DEF BringsNoJob
<1>7. CASE ResolveDeployment
    <2>1. Doing("deployment") /\ LookUp(t.ref, Edge(t.ref, t.object.ref, "owns"))
        BY <1>7 DEF ResolveDeployment
    <2>2. t.ref \in Refs /\ t.ref.kind # "Job"
        BY <1>1, <2>1, HeadStartsFrom, HeadFits DEF OfObject, Fits
    <2> QED
        BY <1>3, <2>1, <2>2
<1>8. ASSUME NEW op \in Simple, Doing(op)
      PROVE  t.ref \in Refs /\ t.ref.kind # "Job"
    <2>1. op \in OfObject
        BY DEF OfObject, Simple
    <2> QED
        BY <1>1, <1>8, <2>1, HeadStartsFrom, HeadFits DEF Fits, ExactKinds
<1>9. CASE AddConfigMapRef
    BY <1>3, <1>8, <1>9 DEF AddConfigMapRef, Simple
<1>10. CASE AddStorageRef
    BY <1>3, <1>8, <1>10 DEF AddStorageRef, Simple
<1>11. CASE AddScheduledNode
    BY <1>3, <1>8, <1>11 DEF AddScheduledNode, Simple
<1>12. CASE AddSecretRef
    <2> DEFINE g == IF InGraph(graph, t.ref) THEN graph ELSE Unresolved(graph, t.ref)
    <2>1. Doing("secret") /\ graph' = AddEdges(g, {FromObject("references")})
        BY <1>12 DEF AddSecretRef
    <2>2. IsGraph(g) /\ DOMAIN g.nodes \subseteq DOMAIN graph.nodes \cup {t.ref}
        BY <1>1, NodesBrought, UnresolvedExtends DEF Extends
    <2>3. t.ref.kind # "Job"
        BY <1>8, <2>1 DEF Simple
    <2> QED
        BY <1>2, <2>1, <2>2, <2>3
<1> QED
    BY <1>4, <1>5, <1>6, <1>7, <1>9, <1>10, <1>11, <1>12

\* EndpointSlices are no Jobs.
LEMMA WithSlicesNodes ==
    ASSUME NEW g, IsGraph(g), NEW svc \in Refs, NEW ok \in BOOLEAN, Working,
           NEW r \in DOMAIN WithSlices(g, svc, ok).nodes, r.kind = "Job"
    PROVE  r \in DOMAIN g.nodes
<1> DEFINE slices == Live(Shape[svc].routes)
           edges == {Edge(svc, s.ref, "routes-to") : s \in slices}
<1>1. \A s \in slices : s.ref.kind = "EndpointSlice"
    <2>1. /\ Shape[svc].routes \subseteq Refs
          /\ \A x \in Shape[svc].routes : x.kind = "EndpointSlice"
        BY CollectorAssumption DEF ShapeFields, OfKind
    <2> QED
        BY <2>1 DEF Live, Present, Working, ClusterInv, ClusterTypeOK
<1>2. WithSlices(g, svc, ok) = IF ok THEN AddEdges(AddNodes(g, slices), edges)
                               ELSE AddIssue(g, "endpointslices", svc, svc = focus)
    BY DEF WithSlices
<1> HIDE DEF slices, edges
<1>3. IsGraph(AddNodes(g, slices))
    BY AddNodesExtends DEF Extends
<1> QED
    BY <1>1, <1>2, <1>3, NodesBrought DEF AddIssue

\* A step that lists, but for the list of the CronJob's Jobs.
LEMMA ListsBringNoJob ==
    ASSUME Following, focus.kind = "CronJob",
           \/ CollectClusterInfo \/ AddLinks
           \/ ListSelectedPods \/ ListReplicaSets \/ ListDeploymentPods \/ ListStatefulSetPods
           \/ ListJobPods \/ ListServices \/ AddService \/ ListEndpointSlices
           \/ CollectAutoscalers \/ CollectEvents \/ ListPodEvents
    PROVE  BringsNoJob
<1>1. IsGraph(graph) /\ Working /\ focus \in Refs /\ graph.focus = focus
    BY DEF Following, Working, Sound, Typed
<1>2. ASSUME graph'.nodes = graph.nodes
      PROVE  BringsNoJob
    BY <1>2 DEF BringsNoJob
<1>0. ASSUME NEW source, NEW ref, NEW affects, graph' = AddIssue(graph, source, ref, affects)
      PROVE  BringsNoJob
    <2>1. AddIssue(graph, source, ref, affects).nodes = graph.nodes
        BY <1>1, NodesBrought DEF AddIssue
    <2> QED
        BY <1>0, <1>2, <2>1
<1>3. CASE CollectClusterInfo
    <2>1. graph' = SetKubernetesVersion(graph) \/ graph' = AddIssue(graph, "kubernetes-version", focus, TRUE)
        BY <1>3 DEF CollectClusterInfo, VersionIssue
    <2>2. SetKubernetesVersion(graph).nodes = graph.nodes
        BY <1>1, NodesBrought
    <2> QED
        BY <1>0, <1>2, <2>1, <2>2
<1>4. CASE AddLinks
    BY <1>1, <1>2, <1>4, NodesBrought DEF AddLinks
<1>5. ASSUME NEW resource, NEW edgesTo, AddListedPods(resource, edgesTo)
      PROVE  BringsNoJob
    <2>1. graph' \in {graph, AddIssue(graph, "pod", resource, FALSE)}
        BY <1>5, Zenon DEF AddListedPods
    <2> QED
        BY <1>0, <1>2, <2>1
<1>6. CASE ListSelectedPods
    BY <1>5, <1>6, Zenon DEF ListSelectedPods
<1>7. CASE ListDeploymentPods
    BY <1>5, <1>7, Zenon DEF ListDeploymentPods
<1>8. CASE ListStatefulSetPods
    BY <1>5, <1>8, Zenon DEF ListStatefulSetPods
<1>9. CASE ListJobPods
    BY <1>5, <1>9, Zenon DEF ListJobPods
<1>10. CASE ListReplicaSets
    BY <1>1, <1>10, HeadFits DEF ListReplicaSets, Fits, FocusFits
<1>11. CASE ListServices
    <2>1. graph' \in {graph, AddIssue(graph, "service", focus, FALSE)}
        BY <1>11, Zenon DEF ListServices
    <2> QED
        BY <1>0, <1>2, <2>1
<1>12. CASE AddService
    <2> DEFINE svc == Head(work).object
               edges == {Edge(svc.ref, p, "selects") : p \in Shape[svc.ref].selects \cap CollectedPods}
               g == AddNode(graph, svc.ref, svc)
               h == AddEdges(g, edges)
    <2>1. Doing("service") /\ \E ok \in BOOLEAN : graph' = WithSlices(h, svc.ref, ok)
        BY <1>12, Zenon DEF AddService
    <2>2. svc.ref \in Refs /\ svc.ref.kind = "Service"
        BY <1>1, <2>1, HeadStartsFrom, HeadFits DEF OfObject, Fits
    <2> HIDE DEF svc, edges
    <2>3. IsGraph(g) /\ DOMAIN g.nodes \subseteq DOMAIN graph.nodes \cup {svc.ref}
        BY <1>1, NodesBrought, AddNodeExtends DEF Extends
    <2> HIDE DEF g
    <2>4. IsGraph(h) /\ h.nodes = g.nodes
        BY <2>3, NodesBrought, AddEdgesExtends DEF Extends
    <2> HIDE DEF h
    <2>5. \A r \in DOMAIN graph'.nodes : r.kind = "Job" => r \in DOMAIN h.nodes
        BY <1>1, <2>1, <2>2, <2>4, WithSlicesNodes
    <2> QED
        BY <2>2, <2>3, <2>4, <2>5 DEF BringsNoJob
<1>13. CASE ListEndpointSlices
    <2>1. \E ok \in BOOLEAN : graph' = WithSlices(graph, focus, ok)
        BY <1>13, Zenon DEF ListEndpointSlices
    <2> QED
        BY <1>1, <2>1, WithSlicesNodes DEF BringsNoJob
<1>14. CASE CollectAutoscalers
    <2> DEFINE hpas == {a \in Live(OfKind(Refs, "HorizontalPodAutoscaler")) :
                           Shape[a.ref].target \cap CollectedDeployments # {}}
    <2>1. graph' \in {graph, WithAutoscalers(graph, hpas),
                      AddIssue(graph, "horizontalpodautoscaler", focus, FALSE)}
        BY <1>14, Zenon DEF CollectAutoscalers
    <2>2. \A a \in hpas : a.ref.kind = "HorizontalPodAutoscaler"
        BY <1>1 DEF OfKind, Live, Present, Working, ClusterInv, ClusterTypeOK
    <2> HIDE DEF hpas
    <2> DEFINE edges == UNION {{Edge(a.ref, d, "scales") : d \in Shape[a.ref].target} : a \in hpas}
               k == AddEdges(AddNodes(graph, hpas), edges)
    <2>3. IsGraph(AddNodes(graph, hpas))
        BY <1>1, AddNodesExtends DEF Extends
    <2> HIDE DEF edges
    <2>4. IsGraph(k) /\ DOMAIN k.nodes = DOMAIN graph.nodes \cup {a.ref : a \in hpas}
        BY <1>1, <2>3, NodesBrought, AddEdgesExtends DEF Extends
    <2> HIDE DEF k
    <2>5. WithAutoscalers(graph, hpas).nodes = k.nodes
        BY <2>4 DEF WithAutoscalers, k, edges, IsGraph, GraphFields
    <2>6. ASSUME graph' = WithAutoscalers(graph, hpas)
          PROVE  BringsNoJob
        BY <2>2, <2>4, <2>5, <2>6 DEF BringsNoJob
    <2> QED
        BY <1>0, <1>2, <2>1, <2>6
<1>15. CASE CollectEvents
    BY <1>2, <1>15 DEF CollectEvents
<1>16. CASE ListPodEvents
    <2>1. \/ \E events : graph' = AddEvents(graph, events)
          \/ graph' = AddIssue(graph, "events", Head(work).object.ref, FALSE)
        BY <1>16, Zenon DEF ListPodEvents
    <2>2. \A events : AddEvents(graph, events).nodes = graph.nodes
        BY <1>1, NodesBrought
    <2> QED
        BY <1>0, <1>2, <2>1, <2>2
<1> QED
    BY <1>3, <1>4, <1>6, <1>7, <1>8, <1>9, <1>10, <1>11, <1>12, <1>13, <1>14, <1>15, <1>16

\* The run chosen is newer than every other owned Job, and each of those says when it was.
LEMMA VerdictIsNewest ==
    ASSUME NEW jobs, NEW scheduled, \A i \in DOMAIN jobs : jobs[i].at \in Int,
           LatestRunOf(jobs, scheduled).job # 0
    PROVE  \A i \in OwnedJobs(jobs) :
            /\ jobs[i].stamped
            /\ i # LatestRunOf(jobs, scheduled).job =>
                jobs[i].at < jobs[LatestRunOf(jobs, scheduled).job].at
<1> DEFINE one == CHOOSE i \in OwnedJobs(jobs) : Newest(jobs) = {i}
<1>1. /\ \E i \in OwnedJobs(jobs) : Newest(jobs) = {i}
      /\ \A i \in OwnedJobs(jobs) : jobs[i].stamped
    BY DEF LatestRunOf, Verdict
<1>2. one \in OwnedJobs(jobs) /\ Newest(jobs) = {one}
    BY <1>1
<1>3. LatestRunOf(jobs, scheduled).job = one
    BY <1>1 DEF LatestRunOf, Verdict
<1> HIDE DEF one
<1>4. ASSUME NEW i \in OwnedJobs(jobs), i # one
      PROVE  jobs[i].at < jobs[one].at
    <2>1. PICK k \in OwnedJobs(jobs) : ~(jobs[k].at <= jobs[i].at)
        BY <1>2, <1>4 DEF Newest
    <2>2. jobs[k].at <= jobs[one].at
        BY <1>2 DEF Newest
    <2> QED
        BY <1>2, <2>1, <2>2 DEF OwnedJobs
<1> QED
    BY <1>1, <1>3, <1>4

\* A finite set in the order of a sequence has all its elements in it.
LEMMA SetToSeqCovers ==
    ASSUME NEW S, IsFiniteSet(S), NEW x \in S
    PROVE  \E i \in DOMAIN SetToSeq(S) : SetToSeq(S)[i] = x
<1> DEFINE n == Cardinality(S)
<1>1. n \in Nat /\ ExistsBijection(1..n, S)
    BY FS_CardinalityType
<1>2. \E f \in [1..n -> S] : IsInjective(f)
    BY <1>1 DEF ExistsBijection, Bijection, Injection, IsInjective
<1>3. SetToSeq(S) \in [1..n -> S] /\ IsInjective(SetToSeq(S))
    BY <1>2 DEF SetToSeq
<1> HIDE DEF n
<1>4. SetToSeq(S) \in Injection(1..n, S)
    BY <1>3 DEF Injection, IsInjective
<1>5. Cardinality(1..n) = n
    BY <1>1, FS_Interval
<1>6. SetToSeq(S) \in Surjection(1..n, S)
    BY <1>4, <1>5, FS_Injection DEF n
<1> QED
    BY <1>3, <1>6 DEF Surjection

\* What the scan of a CronJob's Jobs brings is the latest of those it controls.
LEMMA ScanBringsLatest ==
    ASSUME Following, focus.kind = "CronJob", ListCronJobJobs,
           NEW j \in DOMAIN graph'.nodes, j.kind = "Job", j \notin DOMAIN graph.nodes
    PROVE  /\ j \in RunsHeld /\ ObjectOf(graph', j) = cluster[j]
           /\ \A k \in RunsHeld : Shape[k].stamped /\ (k # j => Shape[k].at < Shape[j].at)
<1> DEFINE live == Live(OfKind(Refs, "Job"))
           jobs == SetToSeq(live)
           views == [i \in DOMAIN jobs |-> JobViewOf(jobs[i])]
           verdict == LatestRunOf(views, Shape[focus].scheduled)
           latest == jobs[verdict.job]
           uid == graph.start.uid
<1>1. IsGraph(graph) /\ focus \in Refs
    BY DEF Following, Working, Sound, Typed
<1>2. PICK ok \in BOOLEAN :
        \/ ok /\ verdict.job # 0 /\ graph' = AddNode(graph, latest.ref, latest)
        \/ graph' \in {graph, AddIssue(graph, "job", focus, TRUE)}
    BY Zenon DEF ListCronJobJobs
<1>3. /\ IsFiniteSet(live) /\ jobs \in Seq(live)
    BY OfKindInRefs, LiveIsFinite, SetToSeqIsSeq DEF Following, Working
<1>4. \A o \in live : /\ o \in Object /\ Genuine(o)
                      /\ o.ref \in Refs /\ o.ref.kind = "Job" /\ cluster[o.ref] = o
    BY LiveHolds DEF OfKind
<1>5. DOMAIN views = DOMAIN jobs /\ \A i \in DOMAIN views : views[i] = JobViewOf(jobs[i])
    OBVIOUS
<1>6. \A o \in live : Shape[o.ref].at \in Int
    BY <1>4, CollectorAssumption DEF ShapeFields
<1>7. \A i \in DOMAIN jobs : jobs[i] \in live
    BY <1>3, LenProperties
<1>8. \A k \in RunsHeld : \E i \in DOMAIN jobs : jobs[i] = cluster[k] /\ cluster[k].ref = k
    <2> SUFFICES ASSUME NEW k \in RunsHeld
                 PROVE  \E i \in DOMAIN jobs : jobs[i] = cluster[k] /\ cluster[k].ref = k
        OBVIOUS
    <2>1. k \in Refs /\ k.kind = "Job" /\ cluster[k] # NoObject
        BY DEF RunsHeld, OfKind
    <2>2. cluster[k] \in live /\ cluster[k].ref = k
        BY <2>1, ClusterHolds DEF Live, Present, OfKind
    <2> QED
        BY <1>3, <2>2, SetToSeqCovers
<1> HIDE DEF live, jobs, views
<1>9. graph' # graph /\ graph' # AddIssue(graph, "job", focus, TRUE)
    <2>1. AddIssue(graph, "job", focus, TRUE).nodes = graph.nodes
        BY <1>1, NodesBrought DEF AddIssue
    <2> QED
        BY <2>1
<1>10. verdict.job # 0 /\ graph' = AddNode(graph, latest.ref, latest)
    BY <1>2, <1>9
<1>11. /\ verdict.job \in DOMAIN jobs /\ views[verdict.job].owned
       /\ \A i \in OwnedJobs(views) :
            /\ views[i].stamped
            /\ i # verdict.job => views[i].at < views[verdict.job].at
    <2>1. \A i \in DOMAIN views : views[i].at \in Int
        BY <1>5, <1>6, <1>7 DEF JobViewOf
    <2> QED
        BY <1>5, <1>10, <2>1, VerdictIsRun, VerdictIsNewest
<1>12. j = latest.ref /\ latest \in live /\ cluster[j] = latest /\ latest # NoObject
    BY <1>1, <1>4, <1>7, <1>10, <1>11, NodesBrought, NoObjectAssumption DEF Object
<1> HIDE DEF verdict
<1>13. IsControllerOwner(latest, "CronJob", uid)
    BY <1>5, <1>11 DEF JobViewOf
<1> HIDE DEF latest
<1>14. ObjectOf(graph', j) = cluster[j]
    BY <1>1, <1>10, <1>12 DEF AddNode, PutNode, ObjectOf, InGraph, IsGraph, GraphFields
<1>15. j \in RunsHeld
    <2> DEFINE owner == ObjectOf(graph, focus)
    <2>1. Genuine(owner) /\ owner.ref = focus /\ owner.uid = uid
        BY FocusIsHeld DEF Following
    <2> HIDE DEF owner
    <2>2. OwnedBy(latest, focus, uid)
        BY <1>4, <1>12, <1>13, <2>1, ControllerIsOwner
    <2> QED
        BY <1>4, <1>12, <2>2 DEF RunsHeld, OwnedBy, OfKind
<1>16. ASSUME NEW k \in RunsHeld
       PROVE  Shape[k].stamped /\ (k # j => Shape[k].at < Shape[j].at)
    <2>1. PICK i \in DOMAIN jobs : jobs[i] = cluster[k] /\ cluster[k].ref = k
        BY <1>8
    <2>2. IsControllerOwner(jobs[i], "CronJob", uid)
        BY <2>1 DEF RunsHeld, IsControllerOwner
    <2>3. i \in OwnedJobs(views) /\ views[i].stamped = Shape[k].stamped /\ views[i].at = Shape[k].at
        BY <1>5, <2>1, <2>2 DEF OwnedJobs, JobViewOf
    <2>4. views[verdict.job].at = Shape[j].at
        BY <1>5, <1>11, <1>12 DEF JobViewOf, latest
    <2>5. k # j => i # verdict.job
        BY <1>12, <2>1 DEF latest
    <2> QED
        BY <1>11, <2>3, <2>4, <2>5
<1> QED
    BY <1>14, <1>15, <1>16

\* An inspection has one focus.
LEMMA FocusStays ==
    ASSUME IsGraph(graph), [Next]_vars
    PROVE  UNCHANGED focus
BY GatheringStepGathers, CollectorStepCases
    DEF Next, Gathers, ReadFocus, FinishFocusCollection, Environment, Expire, vars, collectorVars

\* The Job that enters a CronJob's graph is its latest run, and no other ever does
\* (CollectCronJob, latestOwnedCronJobJob).
THEOREM LatestRunOnly == Spec => OnlyLatestRun
<1> DEFINE Latest(j) ==
            /\ j \in RunsHeld /\ ObjectOf(graph', j) = cluster[j]
            /\ \A k \in RunsHeld : Shape[k].stamped /\ (k # j => Shape[k].at < Shape[j].at)
<1>1. ASSUME IInv, GInv, OInv, GInv', OInv', [Next]_vars, focus.kind = "CronJob",
             NEW j \in DOMAIN graph'.nodes, j.kind = "Job", j \notin DOMAIN graph.nodes
      PROVE  Latest(j)
    <2>1. CASE GatheringStep
        <3>1. Gathers
            BY <1>1, <2>1, GatheringStepGathers DEF IInv
        <3>2. Following
            BY <1>1, <3>1, WorkingIsFollowing DEF Gathers, Doing
        <3>3. ~BringsNoJob
            BY <1>1 DEF BringsNoJob
        <3>4. ListCronJobJobs
            BY <1>1, <2>1, <3>2, <3>3, OneLookUpBringsNoJob, ListsBringNoJob, Zenon DEF GatheringStep
        <3> QED
            BY <1>1, <3>2, <3>4, ScanBringsLatest
    <2>2. CASE ReadFocus
        <3>1. \/ graph' = graph
              \/ \E object : graph' = AddNode(BeginCollection(NewGraph(focus), object), focus, object)
            BY <2>2 DEF ReadFocus
        <3>2. ASSUME NEW object
              PROVE  DOMAIN AddNode(BeginCollection(NewGraph(focus), object), focus, object).nodes
                        \subseteq {focus}
            <4> DEFINE g == BeginCollection(NewGraph(focus), object)
            <4>1. IsGraph(g) /\ DOMAIN g.nodes = {}
                BY DEF BeginCollection, NewGraph, IsGraph, GraphFields
            <4> HIDE DEF g
            <4> QED
                BY <4>1, NodesBrought DEF g
        <3> QED
            BY <1>1, <3>1, <3>2
    <2>3. CASE FinishFocusCollection
        <3>1. IsGraph(graph)
            BY <1>1 DEF IInv
        <3>2. graph'.nodes = graph.nodes
            BY <2>3, <3>1 DEF FinishFocusCollection, FinishCollection, ValidateControllerFreshness,
                AddIssue, AddCollectionIssue, IsGraph, GraphFields
        <3> QED
            BY <1>1, <3>2
    <2>4. CASE UNCHANGED graph
        BY <1>1, <2>4
    <2>5. CASE Environment \/ Expire \/ UNCHANGED vars
        BY <2>4, <2>5 DEF Environment, Expire, vars, collectorVars
    <2> QED
        BY <1>1, <2>1, <2>2, <2>3, <2>5, CollectorStepCases DEF Next
<1>2. ASSUME IInv, GInv, OInv, GInv', OInv', [Next]_vars
      PROVE  JoinsAsLatest
    <2> SUFFICES ASSUME focus.kind = "CronJob", NEW j \in DOMAIN graph'.nodes, j.kind = "Job",
                        j \notin DOMAIN graph.nodes
                 PROVE  {r \in DOMAIN graph'.nodes : r.kind \in {"Job"}} = {j} /\ Latest(j)
        BY DEF JoinsAsLatest, Nodes
    <2>1. Latest(j)
        BY <1>1, <1>2
    <2>2. graph'.focus = focus
        BY <1>2, FocusStays DEF IInv, GInv
    <2>3. TheRun(graph', j)
        BY <1>2, <2>2 DEF OInv, Faithful
    <2> HIDE DEF Latest
    <2> QED
        BY <2>1, <2>3 DEF TheRun
<1>3. IInv /\ GInv /\ OInv /\ (IInv /\ GInv /\ OInv)' /\ [Next]_vars => [JoinsAsLatest]_vars
    BY <1>2
<1> QED
    BY <1>3, GraphIsFaithful, PTL DEF Spec, OnlyLatestRun

\* No Event of another incarnation of a Pod (eventMatchesPod).
THEOREM EventsAreOfTheirPods == Spec => []NoForeignEvents
<1>1. OInv => NoForeignEvents
    BY DEF OInv, Faithful, NoForeignEvents
<1> QED
    BY <1>1, GraphIsFaithful, PTL

\* The collector's staleness test and the rule's agree: each HPA is judged by the one, or
\* reported by the other (collectRelatedAutoscalers, hpaStatusIsCurrent).
THEOREM EveryHpaIsSeen == Spec => []NoHpaPassedOver
<1>1. ASSUME GInv, OInv PROVE NoHpaPassedOver
    <2> SUFFICES ASSUME NEW r \in DOMAIN graph.nodes, r.kind = "HorizontalPodAutoscaler"
                 PROVE  r \in Judged(graph)
                        \/ HasCollectionIssue(graph, "horizontalpodautoscaler", r)
        BY DEF NoHpaPassedOver, Nodes
    <2>1. HpaSeen(graph, r) /\ r \in Refs
        BY <1>1 DEF OInv, Faithful, GInv, Sound, Typed
    <2>2. PICK e \in graph.edges : e.type = "scales" /\ e.from = r
        BY <2>1 DEF HpaSeen
    <2>3. \A d \in ScaledBy(graph, r) : d \in Shape[r].target
        BY <1>1 DEF ScaledBy, OInv, Faithful, Proper
    <2>4. e.to \in ScaledBy(graph, r)
        BY <2>2 DEF ScaledBy
    <2>5. /\ \A d, c \in Shape[r].target : d = c
          /\ \A d \in Shape[r].target : d.kind = "Deployment"
        BY <2>1, CollectorAssumption DEF ShapeFields, OfKind
    <2>6. ScaledBy(graph, r) = {e.to}
        BY <2>3, <2>4, <2>5
    <2>7. HpaDeploymentTarget(graph, r)
        BY <2>3, <2>5, <2>6, FS_Singleton DEF HpaDeploymentTarget
    <2> QED
        BY <2>1, <2>7 DEF HpaSeen, Judged
<1>2. IInv /\ GInv /\ OInv => NoHpaPassedOver
    BY <1>1
<1> QED
    BY <1>2, GraphIsFaithful, PTL

=============================================================================
