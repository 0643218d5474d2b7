--------------------------- MODULE Startup_proofs ---------------------------
(***************************************************************************)
(* What is proved of an inspection of Pods that do not start (Startup).    *)
(*                                                                         *)
(* The argument follows the two graphs of the model, the one collected and *)
(* the one that would have been had no call failed.  A resource is read    *)
(* once, so a step only ever adds to both; what it adds to the first it    *)
(* adds to the second, with the same object if the first holds one, and    *)
(* whatever it passes over in the first is recorded there as an issue.     *)
(* SInv says so of every moment, and that a graph whose Pods were read     *)
(* when the scheduler's words were true, with nothing having happened      *)
(* since, is as the world is.  The rest is about one state: what the rules *)
(* find in such graphs.                                                    *)
(*                                                                         *)
(* Two places of the code ask whether a claim blocks a Pod: the rule that  *)
(* reports the claim, to tell an outage from a risk, and the correlation.  *)
(* They answer alike for every graph, though the correlation also needs    *)
(* the finding of another rule.                                            *)
(***************************************************************************)
EXTENDS StartupProperties, TLAPS, FiniteSetTheorems, SequenceTheorems

-----------------------------------------------------------------------------
(* What the graph knows at any moment, beside what it would know had no call *)
(* failed.                                                                   *)

\* The scheduler has nothing more to say of a Pod it has placed.
WorldInv ==
    /\ TypeOK
    /\ DOMAIN verdict = Ordinals
    /\ \A p \in Ordinals : Scheduled(p) => verdict[p] = NoObject

Steps == {"statefulSet", "pods", "configMap", "own", "shared", "secret", "finish"}

\* The plan is what is left of the plan for the focus.
OnPlan ==
    /\ plan \in Seq(Steps) /\ Len(plan) <= 7
    /\ \A i \in 1..Len(plan) : plan[i] = Plan(focus)[7 - Len(plan) + i]

Left(s) == \E i \in 1..Len(plan) : plan[i] = s

\* The resources a step of the plan reads.
RefsOf(s) ==
    CASE s = "statefulSet" -> {StatefulSetRef}
      [] s = "pods"        -> {PodRef(p) : p \in Ordinals}
      [] s = "configMap"   -> {ConfigMapRef}
      [] s = "own"         -> {OwnClaim}
      [] s = "shared"      -> {SharedClaim}
      [] s = "secret"      -> {SecretRef}
      [] s = "finish"      -> {}

\* What is still to be read is in neither graph.
Unread == \A s \in Steps : Left(s) => RefsOf(s) \cap DOMAIN complete.nodes = {}

WellFormed(g) ==
    /\ IsGraph(g) /\ g.events = {}
    /\ DOMAIN g.nodes \subseteq UNION {RefsOf(s) : s \in Steps}
    /\ \A e \in g.edges : {e.from, e.to} \subseteq DOMAIN g.nodes
    /\ \A e \in g.edges : e.type = "claims-storage" =>
        \E p \in Ordinals : e.from = PodRef(p) /\ e.to \in ClaimsUsed(p)

\* What is known of a resource although a call failed is known without it.
NodeRelated(node, whole) ==
    /\ node.object # NoObject => whole.object = node.object
    /\ Missing(node) => Missing(whole)

Related(g, h) ==
    /\ \A r \in DOMAIN g.nodes : r \in DOMAIN h.nodes /\ NodeRelated(g.nodes[r], h.nodes[r])
    /\ g.edges \subseteq h.edges
    /\ \A e \in h.edges : e.type = "claims-storage" /\ e.from \in PodRefs(g) => e \in g.edges
    /\ HasCollectionSourceIssue(h, "temporal-integrity") => HasCollectionSourceIssue(g, "temporal-integrity")
    /\ ~HasCollectionSourceIssue(h, "events")

\* What a finished step has left in the graph.
Recorded ==
    /\ \A p \in Ordinals : PodRef(p) \in PodRefs(graph) =>
        /\ ~Left("own") /\ OwnClaim \in ClaimsUsed(p) =>
                Edge(PodRef(p), OwnClaim, "claims-storage") \in graph.edges
        /\ ~Left("shared") => Edge(PodRef(p), SharedClaim, "claims-storage") \in graph.edges
        /\ ~Left("configMap") => InGraph(graph, ConfigMapRef)
        /\ ObjectOf(graph, StatefulSetRef) # NoObject =>
                Edge(StatefulSetRef, PodRef(p), "owns") \in graph.edges
    /\ ~Left("secret") /\ InGraph(graph, PodRef(2)) => Issue("secret", SecretRef, FALSE) \in graph.issues
    /\ InGraph(graph, ConfigMapRef) /\ graph.nodes[ConfigMapRef].unknown =>
            Issue("configmap", ConfigMapRef, FALSE) \in graph.issues
    /\ \A c \in Claims : InGraph(complete, c) => ~complete.nodes[c].unknown

Is(node, object) == node.object = object /\ ~node.unknown

\* What the graph says is so, as long as nothing has happened since the Pods were read.
UpToDate ==
    /\ \A p \in Ordinals :
        /\ Scheduled(p) \/ verdict[p] \in Obstacles(p)
        /\ InGraph(graph, PodRef(p)) => ObjectOf(graph, PodRef(p)) = PodObject(p)
    /\ \A c \in Claims : InGraph(graph, c) =>
        ExistenceUnknown(graph.nodes[c]) \/ Is(graph.nodes[c], ClaimObject(c))
    /\ InGraph(graph, ConfigMapRef) =>
        ExistenceUnknown(graph.nodes[ConfigMapRef]) \/ Is(graph.nodes[ConfigMapRef], ConfigMapObject)

\* The inductive invariant.
SInv ==
    /\ WorldInv
    /\ OnPlan
    /\ Unread
    /\ WellFormed(graph) /\ WellFormed(complete)
    /\ Related(graph, complete)
    /\ Recorded
    /\ fresh => UpToDate /\ ~Left("pods")

-----------------------------------------------------------------------------
(* The world keeps to it. *)

Phases == {"absent", "Pending", "Bound"}
States == {"pending", "creating", "pullError", "configError", "running"}

\* There are two Pods.
LEMMA TwoPods == IsFiniteSet(Ordinals) /\ Cardinality(Ordinals) = 2
<1>1. IsFiniteSet({}) /\ Cardinality({}) = 0
  BY FS_EmptySet
<1>2. IsFiniteSet({1}) /\ Cardinality({1}) = 1
  BY <1>1, FS_Singleton
<1>3. {1} \cup {2} = Ordinals /\ 2 \notin {1}
  BY DEF Ordinals
<1>4. IsFiniteSet({1} \cup {2}) /\ Cardinality({1} \cup {2}) = Cardinality({1}) + 1
  BY <1>2, <1>3, FS_AddElement
<1>5. QED BY <1>2, <1>3, <1>4

\* The types of the variables one by one.
LEMMA Types ==
    ASSUME WorldInv
    PROVE  /\ claims \in [Claims -> Phases] /\ pods \in [Ordinals -> States]
           /\ configMap \in BOOLEAN /\ secret \in BOOLEAN
           /\ changed \in BOOLEAN /\ fresh \in BOOLEAN
           /\ available \in 0..2 /\ lag \in 0..MaxLag /\ failures \in 0..MaxFailures
           /\ focus \in {StatefulSetRef, PodRef(1)}
<1>1. Cardinality(Ordinals) = 2
  BY TwoPods
<1>2. focus \in {StatefulSetRef, PodRef(1)}
  BY StartupAssumption DEF WorldInv, TypeOK
<1>3. /\ claims \in [Claims -> Phases] /\ pods \in [Ordinals -> States]
      /\ configMap \in BOOLEAN /\ secret \in BOOLEAN
      /\ changed \in BOOLEAN /\ fresh \in BOOLEAN
  BY DEF WorldInv, TypeOK, Phases, States
<1>4. available \in 0..2 /\ lag \in 0..MaxLag /\ failures \in 0..MaxFailures
  BY <1>1 DEF WorldInv, TypeOK
<1>5. QED BY <1>2, <1>3, <1>4

\* Refs of different resources differ.
LEMMA RefsDiffer ==
    /\ StatefulSetRef # ConfigMapRef /\ StatefulSetRef # SecretRef /\ ConfigMapRef # SecretRef
    /\ OwnClaim # SharedClaim
    /\ \A c \in Claims : c # StatefulSetRef /\ c # ConfigMapRef /\ c # SecretRef
    /\ \A p : /\ PodRef(p) # StatefulSetRef /\ PodRef(p) # ConfigMapRef /\ PodRef(p) # SecretRef
              /\ PodRef(p) \notin Claims
    /\ \A p, q : PodRef(p) = PodRef(q) => p = q
    /\ StatefulSetRef.kind = "StatefulSet" /\ ConfigMapRef.kind = "ConfigMap"
    /\ SecretRef.kind = "Secret"
    /\ \A c \in Claims : c.kind = "PersistentVolumeClaim"
    /\ \A p : PodRef(p).kind = "Pod"
BY DEF StatefulSetRef, ConfigMapRef, SecretRef, Claims, OwnClaim, SharedClaim, PodRef

\* What the world does while an inspection is not over.
Meanwhile ==
    /\ plan # <<>> /\ UNCHANGED <<failures, focus, plan, graph, complete>>
    /\ lag' \in 0..MaxLag /\ changed' \in BOOLEAN /\ fresh' \in BOOLEAN

\* It is enough to look at what the world wrote.
LEMMA WorldWritesKeep ==
    ASSUME WorldInv, Meanwhile,
           claims' \in [Claims -> Phases], configMap' \in BOOLEAN, secret' \in BOOLEAN,
           pods' \in [Ordinals -> States], available' \in 0..2,
           DOMAIN verdict' = Ordinals,
           \A p \in Ordinals : pods'[p] # "pending" => verdict'[p] = NoObject
    PROVE  WorldInv'
<1>1. Cardinality(Ordinals) = 2
  BY TwoPods
<1>2. available' \in 0..Cardinality(Ordinals)
  BY <1>1
<1>3. failures' \in 0..MaxFailures /\ focus' \in Foci /\ plan' # <<>>
  BY DEF Meanwhile, WorldInv, TypeOK
<1>4. TypeOK'
  BY <1>2, <1>3 DEF TypeOK, Meanwhile, Phases, States
<1>5. QED BY <1>4 DEF WorldInv, Scheduled

LEMMA StorageKeeps ==
    ASSUME WorldInv, Meanwhile, NEW c \in Claims, Storage(c)
    PROVE  WorldInv'
<1>1. PICK phase \in Phases : ClaimBecomes(c, phase)
  BY DEF Storage, Phases
<1>2. claims' \in [Claims -> Phases] /\ UNCHANGED <<configMap, secret, pods, verdict, available>>
  BY <1>1, Types DEF ClaimBecomes
<1>3. QED BY <1>2, Types, WorldWritesKeep DEF WorldInv, Scheduled

LEMMA EditConfigKeeps ==
    ASSUME WorldInv, Meanwhile, EditConfig
    PROVE  WorldInv'
<1>1. configMap' \in BOOLEAN /\ UNCHANGED <<claims, secret, pods, verdict, available>>
  BY Types DEF EditConfig
<1>2. QED BY <1>1, Types, WorldWritesKeep DEF WorldInv, Scheduled

LEMMA RejectKeeps ==
    ASSUME WorldInv, Meanwhile, NEW p \in Ordinals, Reject(p)
    PROVE  WorldInv'
<1>1. /\ pods[p] = "pending" /\ UNCHANGED <<claims, configMap, secret, pods, available>>
      /\ \E obstacle : verdict' = [verdict EXCEPT ![p] = obstacle]
  BY DEF Reject, Scheduled
<1>2. DOMAIN verdict' = Ordinals
  BY <1>1 DEF WorldInv
<1>3. \A q \in Ordinals : q # p => verdict'[q] = verdict[q]
  BY <1>1 DEF WorldInv
<1>4. \A q \in Ordinals : pods'[q] # "pending" => verdict'[q] = NoObject
  BY <1>1, <1>3 DEF WorldInv, Scheduled
<1>5. QED BY <1>1, <1>2, <1>4, Types, WorldWritesKeep

LEMMA PlaceKeeps ==
    ASSUME WorldInv, Meanwhile, NEW p \in Ordinals, Place(p)
    PROVE  WorldInv'
<1>1. /\ pods' = [pods EXCEPT ![p] = "creating"]
      /\ verdict' = [verdict EXCEPT ![p] = NoObject]
      /\ claims' = [c \in Claims |-> IF c \in ClaimsUsed(p) THEN "Bound" ELSE claims[c]]
      /\ UNCHANGED <<configMap, secret, available>>
  BY DEF Place
<1>2. claims' \in [Claims -> Phases]
  BY <1>1, Types DEF Phases
<1>3. pods' \in [Ordinals -> States] /\ \A q \in Ordinals : q # p => pods'[q] = pods[q]
  BY <1>1, Types DEF States
<1>4. /\ DOMAIN verdict' = Ordinals /\ verdict'[p] = NoObject
      /\ \A q \in Ordinals : q # p => verdict'[q] = verdict[q]
  BY <1>1 DEF WorldInv
<1>5. \A q \in Ordinals : pods'[q] # "pending" => verdict'[q] = NoObject
  BY <1>3, <1>4 DEF WorldInv, Scheduled
<1>6. QED BY <1>1, <1>2, <1>3, <1>4, <1>5, Types, WorldWritesKeep

LEMMA StartKeeps ==
    ASSUME WorldInv, Meanwhile, NEW p \in Ordinals, Start(p)
    PROVE  WorldInv'
<1>1. PICK state \in States : pods' = [pods EXCEPT ![p] = state]
  BY DEF Start, States
<1>2. pods[p] # "pending" /\ UNCHANGED <<claims, configMap, secret, verdict, available>>
  BY DEF Start
<1>3. pods' \in [Ordinals -> States] /\ \A q \in Ordinals : q # p => pods'[q] = pods[q]
  BY <1>1, Types
<1>4. \A q \in Ordinals : pods'[q] # "pending" => verdict'[q] = NoObject
  BY <1>2, <1>3 DEF WorldInv, Scheduled
<1>5. QED BY <1>2, <1>3, <1>4, Types, WorldWritesKeep DEF WorldInv

LEMMA SyncKeeps ==
    ASSUME WorldInv, Meanwhile, Sync
    PROVE  WorldInv'
<1>1. available' = Cardinality(Running) /\ UNCHANGED <<claims, configMap, secret, pods, verdict>>
  BY DEF Sync
<1>2. Cardinality(Running) \in 0..2
  <2>1. Running \subseteq Ordinals
    BY DEF Running
  <2>2. IsFiniteSet(Ordinals) /\ Cardinality(Ordinals) = 2
    BY TwoPods
  <2>3. IsFiniteSet(Running) /\ Cardinality(Running) <= 2
    BY <2>1, <2>2, FS_Subset
  <2>4. Cardinality(Running) \in Nat
    BY <2>3, FS_CardinalityType
  <2>5. \A k \in Nat : k <= 2 => k \in 0..2
    OBVIOUS
  <2>6. QED BY <2>3, <2>4, <2>5
<1>3. available' \in 0..2
  BY <1>1, <1>2
<1>4. QED BY <1>1, <1>3, Types, WorldWritesKeep DEF WorldInv, Scheduled

LEMMA WorldKeeps ==
    ASSUME WorldInv, Meanwhile, World
    PROVE  WorldInv'
BY StorageKeeps, EditConfigKeeps, RejectKeeps, PlaceKeeps, StartKeeps, SyncKeeps DEF World

LEMMA WorldStepKeeps ==
    ASSUME SInv, WorldStep
    PROVE  SInv'
<1>1. /\ plan # <<>> /\ World /\ UNCHANGED <<failures, focus, plan, graph, complete>>
      /\ changed' = (Begun /\ (changed \/ FocusObject' # FocusObject)) /\ fresh' = FALSE
  BY DEF WorldStep
<1>2. lag' \in 0..MaxLag
  <2>1. lag \in 0..MaxLag /\ MaxLag \in Nat
    BY Types, StartupAssumption DEF SInv
  <2>2. QED BY <2>1 DEF WorldStep
<1>3. changed' \in BOOLEAN
  BY <1>1, Types DEF SInv, Begun
<1>4. WorldInv'
  BY <1>1, <1>2, <1>3, WorldKeeps DEF SInv, Meanwhile
<1>5. OnPlan' /\ \A s : Left(s)' = Left(s)
  BY <1>1 DEF SInv, OnPlan, Left
<1>6. WellFormed(graph') /\ WellFormed(complete') /\ Related(graph', complete')
  BY <1>1 DEF SInv
<1>7. Recorded'
  BY <1>1, <1>5 DEF SInv, Recorded
<1>8. QED BY <1>1, <1>4, <1>5, <1>6, <1>7 DEF SInv, Unread, RefsOf

-----------------------------------------------------------------------------
(* The plan. *)

LEMMA PlanIs ==
    ASSUME NEW ref \in {StatefulSetRef, PodRef(1)}
    PROVE  Plan(ref) =
            IF ref = StatefulSetRef
            THEN <<"statefulSet", "pods", "configMap", "own", "shared", "secret", "finish">>
            ELSE <<"pods", "statefulSet", "configMap", "own", "shared", "secret", "finish">>
BY DEF Plan

\* Where the steps of a plan are.
LEMMA PlanPlaces ==
    ASSUME NEW ref \in {StatefulSetRef, PodRef(1)}, NEW k \in 1..7, NEW j \in 1..7
    PROVE  /\ Len(Plan(ref)) = 7 /\ Plan(ref) \in Seq(Steps)
           /\ Plan(ref)[k] = Plan(ref)[j] => k = j
           /\ k > 2 => Plan(ref)[k] \notin {"pods", "statefulSet"}
           /\ k <= 2 => Plan(ref)[k] \in {"pods", "statefulSet"}
<1>1. k \in {1, 2, 3, 4, 5, 6, 7} /\ j \in {1, 2, 3, 4, 5, 6, 7}
  OBVIOUS
<1>2. CASE ref = StatefulSetRef
  <2>1. Plan(ref) = <<"statefulSet", "pods", "configMap", "own", "shared", "secret", "finish">>
    BY <1>2, PlanIs
  <2>2. Len(Plan(ref)) = 7 /\ Plan(ref) \in Seq(Steps)
    BY <2>1 DEF Steps
  <2>3. Plan(ref)[k] = Plan(ref)[j] => k = j
    BY <1>1, <2>1
  <2>4. k > 2 => Plan(ref)[k] \notin {"pods", "statefulSet"}
    BY <1>1, <2>1
  <2>5. k <= 2 => Plan(ref)[k] \in {"pods", "statefulSet"}
    BY <1>1, <2>1
  <2>6. QED BY <2>2, <2>3, <2>4, <2>5
<1>3. CASE ref # StatefulSetRef
  <2>1. Plan(ref) = <<"pods", "statefulSet", "configMap", "own", "shared", "secret", "finish">>
    BY <1>3, PlanIs
  <2>2. Len(Plan(ref)) = 7 /\ Plan(ref) \in Seq(Steps)
    BY <2>1 DEF Steps
  <2>3. Plan(ref)[k] = Plan(ref)[j] => k = j
    BY <1>1, <2>1
  <2>4. k > 2 => Plan(ref)[k] \notin {"pods", "statefulSet"}
    BY <1>1, <2>1
  <2>5. k <= 2 => Plan(ref)[k] \in {"pods", "statefulSet"}
    BY <1>1, <2>1
  <2>6. QED BY <2>2, <2>3, <2>4, <2>5
<1>4. QED BY <1>2, <1>3

\* A step is due once, and the Pods and the StatefulSet come before all else.
LEMMA PlanStep ==
    ASSUME focus \in {StatefulSetRef, PodRef(1)}, OnPlan, NEW s, Doing(s), UNCHANGED focus
    PROVE  /\ OnPlan' /\ Left(s) /\ ~Left(s)' /\ s \in Steps
           /\ \A t : t # s => (Left(t)' <=> Left(t))
           /\ s \notin {"pods", "statefulSet"} => ~Left("pods") /\ ~Left("statefulSet")
<1>1. /\ plan # <<>> /\ s = plan[1] /\ plan' = Tail(plan) /\ plan \in Seq(Steps)
      /\ Len(plan) <= 7
  BY DEF Doing, OnPlan
<1>2. /\ plan' \in Seq(Steps) /\ Len(plan') = Len(plan) - 1
      /\ \A i \in 1..Len(plan') : plan'[i] = plan[i + 1]
  BY <1>1, HeadTailProperties
<1> DEFINE n == Len(plan)
           m == Len(plan')
<1>3. n \in 1..7 /\ m = n - 1
  <2>1. n \in Nat /\ n # 0 /\ n <= 7
    BY <1>1, EmptySeq
  <2>2. m = n - 1
    BY <1>2
  <2> HIDE DEF n, m
  <2>3. QED BY <2>1, <2>2
<1>4. \A i \in 1..n : plan[i] = Plan(focus)[7 - n + i]
  BY DEF OnPlan
<1>5. \A i \in 1..m : plan'[i] = plan[i + 1]
  BY <1>2
<1>6. /\ \A t : Left(t) <=> \E i \in 1..n : plan[i] = t
      /\ \A t : Left(t)' <=> \E i \in 1..m : plan'[i] = t
  BY DEF Left
<1>7. s \in Steps
  <2>1. plan[1] \in Steps
    BY <1>1, <1>3 DEF n
  <2>2. QED BY <1>1, <2>1
<1> HIDE DEF n, m
<1>8. OnPlan'
  <2> SUFFICES ASSUME NEW i \in 1..m
               PROVE  plan'[i] = Plan(focus)[7 - m + i]
    <3>1. m <= 7
      BY <1>3
    <3>2. QED BY <1>2, <3>1 DEF OnPlan, m
  <2>1. i + 1 \in 1..n
    BY <1>3
  <2>2. plan[i + 1] = Plan(focus)[7 - n + (i + 1)]
    BY <1>4, <2>1
  <2>3. 7 - n + (i + 1) = 7 - m + i
    BY <1>3
  <2>4. QED BY <1>5, <2>2, <2>3
<1>9. Left(s)
  BY <1>1, <1>3, <1>6
<1>10. ~Left(s)'
  <2> SUFFICES ASSUME NEW i \in 1..m, plan'[i] = s
               PROVE  FALSE
    BY <1>6
  <2>1. i + 1 \in 1..n /\ 1 \in 1..n
    BY <1>3
  <2>2. Plan(focus)[7 - n + (i + 1)] = Plan(focus)[7 - n + 1]
    BY <1>1, <1>4, <1>5, <2>1
  <2>3. 7 - n + (i + 1) \in 1..7 /\ 7 - n + 1 \in 1..7
    BY <1>3
  <2>4. 7 - n + (i + 1) = 7 - n + 1
    BY <2>2, <2>3, PlanPlaces
  <2>5. QED BY <1>3, <2>4
<1>11. ASSUME NEW t, t # s
       PROVE  Left(t)' <=> Left(t)
  <2>1. ASSUME NEW i \in 1..m, plan'[i] = t
        PROVE  i + 1 \in 1..n /\ plan[i + 1] = t
    BY <1>3, <1>5, <2>1
  <2>2. ASSUME NEW i \in 1..n, plan[i] = t
        PROVE  i - 1 \in 1..m /\ plan'[i - 1] = t
    <3>1. i # 1
      BY <1>1, <1>11, <2>2
    <3>2. i - 1 \in 1..m /\ (i - 1) + 1 = i
      BY <1>3, <3>1
    <3>3. QED BY <1>5, <2>2, <3>2
  <2>3. QED BY <1>6, <2>1, <2>2
<1>12. ASSUME s \notin {"pods", "statefulSet"}, NEW t \in {"pods", "statefulSet"}, Left(t)
       PROVE  FALSE
  <2>1. PICK i \in 1..n : plan[i] = t
    BY <1>6, <1>12
  <2>2. 1 \in 1..n /\ 7 - n + 1 \in 1..7 /\ 7 - n + i \in 1..7 /\ 7 - n + 1 <= 7 - n + i
    BY <1>3
  <2>3. s = Plan(focus)[7 - n + 1] /\ t = Plan(focus)[7 - n + i]
    BY <1>1, <1>4, <2>1, <2>2
  <2>4. ~(7 - n + 1 <= 2)
    BY <1>12, <2>2, <2>3, PlanPlaces
  <2>5. 7 - n + i > 2
    BY <1>3, <2>2, <2>4
  <2>6. QED BY <1>12, <2>2, <2>3, <2>5, PlanPlaces
<1>13. QED BY <1>7, <1>8, <1>9, <1>10, <1>11, <1>12

-----------------------------------------------------------------------------
(* What a read adds to a graph that has not read the resource before. *)

\* Nodes, edges and issues are added to g, and nothing else.
Grown(g, h, new, edges, issues) ==
    /\ IsGraph(h) /\ h.events = g.events
    /\ DOMAIN h.nodes = DOMAIN g.nodes \cup DOMAIN new
    /\ \A r \in DOMAIN g.nodes : h.nodes[r] = g.nodes[r]
    /\ \A r \in DOMAIN new : h.nodes[r] = new[r]
    /\ h.edges = g.edges \cup edges
    /\ h.issues = g.issues \cup issues

Answer(object, ok) ==
    IF ok THEN [object |-> object, unknown |-> FALSE] ELSE [object |-> NoObject, unknown |-> TRUE]

One(ref, node) == [r \in {ref} |-> node]
None           == [r \in {} |-> NoObject]

LEMMA PutNodeGrows ==
    ASSUME NEW g, IsGraph(g), NEW ref, ref \notin DOMAIN g.nodes, NEW node
    PROVE  Grown(g, PutNode(g, ref, node), One(ref, node), {}, {})
<1>1. DOMAIN One(ref, node) = {ref} /\ One(ref, node)[ref] = node
  BY DEF One
<1>2. QED BY <1>1 DEF PutNode, Grown, IsGraph, GraphFields

LEMMA AddNodeGrows ==
    ASSUME NEW g, IsGraph(g), NEW ref, ref \notin DOMAIN g.nodes, NEW object
    PROVE  Grown(g, AddNode(g, ref, object), One(ref, Answer(object, TRUE)), {}, {})
<1>1. AddNode(g, ref, object) = PutNode(g, ref, Answer(object, TRUE))
  BY DEF AddNode, ObjectOf, InGraph, Answer
<1>2. QED BY <1>1, PutNodeGrows

LEMMA UnresolvedGrows ==
    ASSUME NEW g, IsGraph(g), NEW ref, ref \notin DOMAIN g.nodes, NEW source
    PROVE  Grown(g, Unresolved(g, source, ref), One(ref, Answer(NoObject, FALSE)), {},
                 {Issue(source, ref, FALSE)})
<1> DEFINE h == PutNode(g, ref, Answer(NoObject, FALSE))
<1>1. Unresolved(g, source, ref) = AddCollectionIssue(h, Issue(source, ref, FALSE))
  BY DEF Unresolved, AddUnknownNode, InGraph, Answer
<1>2. Grown(g, h, One(ref, Answer(NoObject, FALSE)), {}, {})
  BY PutNodeGrows
<1> HIDE DEF h
<1>3. QED BY <1>1, <1>2 DEF Grown, AddCollectionIssue, IsGraph, GraphFields

LEMMA IssueGrows ==
    ASSUME NEW g, IsGraph(g), NEW issue
    PROVE  Grown(g, AddCollectionIssue(g, issue), None, {}, {issue})
<1>1. DOMAIN None = {}
  BY DEF None
<1>2. QED BY <1>1 DEF Grown, AddCollectionIssue, IsGraph, GraphFields

LEMMA NothingGrows ==
    ASSUME NEW g, IsGraph(g)
    PROVE  Grown(g, g, None, {}, {})
<1>1. DOMAIN None = {}
  BY DEF None
<1>2. QED BY <1>1 DEF Grown

LEMMA ThenEdges ==
    ASSUME NEW g, NEW h, NEW new, NEW issues, Grown(g, h, new, {}, issues), NEW edges
    PROVE  Grown(g, AddEdges(h, edges), new, edges, issues)
BY DEF Grown, AddEdges, IsGraph, GraphFields

PodNodes(read) == [r \in {PodRef(p) : p \in read} |-> Answer(PodObject(r.name), TRUE)]

LEMMA PodsGrow ==
    ASSUME NEW g, IsGraph(g), NEW read \in SUBSET Ordinals,
           \A p \in read : PodRef(p) \notin DOMAIN g.nodes
    PROVE  Grown(g, AddNodes(g, {PodObject(p) : p \in read}), PodNodes(read), {}, {})
<1> DEFINE objects == {PodObject(p) : p \in read}
           refs == {PodRef(p) : p \in read}
           h == AddNodes(g, objects)
<1>1. {o.ref : o \in objects} = refs
  <2>1. \A p : PodObject(p).ref = PodRef(p)
    BY DEF PodObject
  <2>2. QED BY <2>1
<1>2. /\ \A o \in objects : \E p \in read : o = PodObject(p) /\ o.ref = PodRef(p)
      /\ \A p \in read : PodObject(p) \in objects /\ PodObject(p).ref = PodRef(p)
  <2>1. \A p : PodObject(p).ref = PodRef(p)
    BY DEF PodObject
  <2>2. QED BY <2>1
<1> HIDE DEF objects
<1>11. ASSUME NEW p \in read
       PROVE  {o \in objects : o.ref = PodRef(p)} = {PodObject(p)}
  <2>1. \A o \in objects : o.ref = PodRef(p) => o = PodObject(p)
    BY <1>2, RefsDiffer
  <2>2. QED BY <1>2, <2>1
<1>12. ASSUME NEW r \in DOMAIN g.nodes
       PROVE  {o \in objects : o.ref = r} = {}
  BY <1>2
<1>4. h = [g EXCEPT !.nodes =
            [r \in DOMAIN g.nodes \cup refs |->
                IF ObjectOf(g, r) = NoObject /\ {o \in objects : o.ref = r} # {}
                THEN [object |-> CHOOSE o \in {o \in objects : o.ref = r} : TRUE, unknown |-> FALSE]
                ELSE g.nodes[r]]]
  BY <1>1 DEF AddNodes
<1> HIDE DEF h
<1>5. /\ IsGraph(h) /\ h.events = g.events /\ h.edges = g.edges /\ h.issues = g.issues
      /\ DOMAIN h.nodes = DOMAIN g.nodes \cup refs
  BY <1>4 DEF IsGraph, GraphFields
<1>6. \A r \in DOMAIN g.nodes : h.nodes[r] = g.nodes[r]
  BY <1>4, <1>12 DEF IsGraph, GraphFields
<1>7. ASSUME NEW p \in read
      PROVE  h.nodes[PodRef(p)] = Answer(PodObject(p), TRUE)
  <2>1. ObjectOf(g, PodRef(p)) = NoObject
    BY DEF ObjectOf, InGraph
  <2>2. (CHOOSE o \in {PodObject(p)} : TRUE) = PodObject(p)
    OBVIOUS
  <2>3. PodRef(p) \in DOMAIN g.nodes \cup refs
    OBVIOUS
  <2>4. h.nodes[PodRef(p)] = [object |-> CHOOSE o \in {o \in objects : o.ref = PodRef(p)} : TRUE,
                              unknown |-> FALSE]
    BY <1>4, <1>11, <2>1, <2>3 DEF IsGraph, GraphFields
  <2>5. QED BY <1>11, <2>2, <2>4 DEF Answer
<1>8. /\ DOMAIN PodNodes(read) = refs
      /\ \A p \in read : PodNodes(read)[PodRef(p)] = Answer(PodObject(p), TRUE)
  BY DEF PodNodes, PodRef
<1>9. QED BY <1>5, <1>6, <1>7, <1>8 DEF Grown, h, objects

\* What is known of a graph that has grown.
LEMMA GrownNodes ==
    ASSUME NEW g, NEW h, NEW new, NEW edges, NEW issues, Grown(g, h, new, edges, issues),
           DOMAIN new \cap DOMAIN g.nodes = {}
    PROVE  /\ \A r : ObjectOf(h, r) = IF r \in DOMAIN new THEN new[r].object ELSE ObjectOf(g, r)
           /\ PodRefs(h) = PodRefs(g)
                \cup {r \in DOMAIN new : r.kind = "Pod" /\ new[r].object # NoObject}
           /\ \A source : HasCollectionSourceIssue(h, source) <=>
                HasCollectionSourceIssue(g, source) \/ \E i \in issues : i.source = source
<1>1. \A r : ObjectOf(h, r) = IF r \in DOMAIN new THEN new[r].object ELSE ObjectOf(g, r)
  BY DEF Grown, ObjectOf, InGraph
<1>2. PodRefs(h) = PodRefs(g) \cup {r \in DOMAIN new : r.kind = "Pod" /\ new[r].object # NoObject}
  BY <1>1 DEF Grown, PodRefs, ObjectOf, InGraph
<1>3. \A source : HasCollectionSourceIssue(h, source) <=>
        HasCollectionSourceIssue(g, source) \/ \E i \in issues : i.source = source
  BY DEF Grown, HasCollectionSourceIssue
<1>4. QED BY <1>1, <1>2, <1>3

LEMMA WellFormedKeeps ==
    ASSUME NEW g, WellFormed(g), NEW h, NEW new, NEW edges, NEW issues,
           Grown(g, h, new, edges, issues),
           NEW s \in Steps, DOMAIN new \subseteq RefsOf(s),
           \A e \in edges : {e.from, e.to} \subseteq DOMAIN h.nodes,
           \A e \in edges : e.type = "claims-storage" =>
                \E p \in Ordinals : e.from = PodRef(p) /\ e.to \in ClaimsUsed(p)
    PROVE  WellFormed(h)
<1>1. IsGraph(h) /\ h.events = {}
  BY DEF WellFormed, Grown
<1>2. DOMAIN h.nodes \subseteq UNION {RefsOf(t) : t \in Steps}
  BY DEF WellFormed, Grown
<1>3. \A e \in h.edges : {e.from, e.to} \subseteq DOMAIN h.nodes
  BY DEF WellFormed, Grown
<1>4. \A e \in h.edges : e.type = "claims-storage" =>
        \E p \in Ordinals : e.from = PodRef(p) /\ e.to \in ClaimsUsed(p)
  BY DEF WellFormed, Grown
<1>5. QED BY <1>1, <1>2, <1>3, <1>4 DEF WellFormed

LEMMA RelatedKeeps ==
    ASSUME NEW g, NEW h, Related(g, h), WellFormed(h),
           NEW g1, NEW new, NEW edges, NEW issues, Grown(g, g1, new, edges, issues),
           NEW h1, NEW new2, NEW edges2, NEW issues2, Grown(h, h1, new2, edges2, issues2),
           DOMAIN new2 \cap DOMAIN h.nodes = {},
           \A r \in DOMAIN new : r \in DOMAIN new2 /\ NodeRelated(new[r], new2[r]),
           edges \subseteq edges2,
           \A e \in edges2 : e.type = "claims-storage" =>
                e.from \in DOMAIN h.nodes /\ (e.from \in PodRefs(g) => e \in edges),
           \A i \in issues2 : /\ i.source # "events"
                              /\ i.source = "temporal-integrity" =>
                                    \E j \in issues : j.source = "temporal-integrity"
    PROVE  Related(g1, h1)
<1>1. DOMAIN new \cap DOMAIN g.nodes = {}
  BY DEF Related
<1>2. \A r \in DOMAIN g1.nodes : r \in DOMAIN h1.nodes /\ NodeRelated(g1.nodes[r], h1.nodes[r])
  BY DEF Related, Grown
<1>3. g1.edges \subseteq h1.edges
  BY DEF Related, Grown
<1>4. ASSUME NEW e \in h1.edges, e.type = "claims-storage", e.from \in PodRefs(g1)
      PROVE  e \in g1.edges
  <2>1. e.from \in DOMAIN h.nodes
    BY <1>4 DEF Grown, WellFormed
  <2>2. e.from \notin DOMAIN new
    BY <2>1
  <2>3. e.from \in PodRefs(g)
    BY <1>1, <1>4, <2>2, GrownNodes
  <2>4. QED BY <1>4, <2>3 DEF Related, Grown
<1>5. HasCollectionSourceIssue(h1, "temporal-integrity") => HasCollectionSourceIssue(g1, "temporal-integrity")
  <2>1. HasCollectionSourceIssue(h1, "temporal-integrity") <=>
            HasCollectionSourceIssue(h, "temporal-integrity")
                \/ \E i \in issues2 : i.source = "temporal-integrity"
    BY GrownNodes
  <2>2. HasCollectionSourceIssue(g1, "temporal-integrity") <=>
            HasCollectionSourceIssue(g, "temporal-integrity")
                \/ \E i \in issues : i.source = "temporal-integrity"
    BY <1>1, GrownNodes
  <2>3. QED BY <2>1, <2>2 DEF Related
<1>6. ~HasCollectionSourceIssue(h1, "events")
  BY GrownNodes DEF Related
<1>7. QED BY <1>2, <1>3, <1>4, <1>5, <1>6 DEF Related

-----------------------------------------------------------------------------
(* What a step of the plan has to show to keep the invariant. *)

\* While the Pods or the StatefulSet are to be read, so is all else.
LEMMA FirstStepsFirst ==
    ASSUME focus \in {StatefulSetRef, PodRef(1)}, OnPlan,
           NEW s \in {"pods", "statefulSet"}, Left(s),
           NEW t \in {"configMap", "own", "shared", "secret", "finish"}
    PROVE  Left(t)
<1> DEFINE n == Len(plan)
<1>1. PICK i \in 1..n : plan[i] = s
  BY DEF Left
<1>2. n \in Nat /\ n <= 7 /\ \A j \in 1..n : plan[j] = Plan(focus)[7 - n + j]
  BY LenProperties DEF OnPlan
<1>3. PICK k \in 3..7 : Plan(focus)[k] = t
  <2>1. 3 \in 3..7 /\ 4 \in 3..7 /\ 5 \in 3..7 /\ 6 \in 3..7 /\ 7 \in 3..7
    OBVIOUS
  <2>2. /\ Plan(focus)[3] = "configMap" /\ Plan(focus)[4] = "own" /\ Plan(focus)[5] = "shared"
        /\ Plan(focus)[6] = "secret" /\ Plan(focus)[7] = "finish"
    BY PlanIs
  <2>3. QED BY <2>1, <2>2
<1>4. Left(t) <=> \E j \in 1..n : plan[j] = t
  BY DEF Left
<1> HIDE DEF n
<1>5. 7 - n + i \in 1..7 /\ plan[i] = Plan(focus)[7 - n + i]
  BY <1>2
<1>6. ~(7 - n + i > 2)
  BY <1>1, <1>5, PlanPlaces
<1>7. k - 7 + n \in 1..n /\ 7 - n + (k - 7 + n) = k
  BY <1>2, <1>5, <1>6
<1>8. plan[k - 7 + n] = t
  BY <1>2, <1>3, <1>7
<1>9. QED BY <1>4, <1>7, <1>8

LEMMA RefsOfDiffer ==
    /\ \A s \in Steps, t \in Steps : s # t => RefsOf(s) \cap RefsOf(t) = {}
    /\ \A r \in UNION {RefsOf(s) : s \in Steps} :
        \/ r \in {StatefulSetRef, ConfigMapRef, SecretRef} \cup Claims
        \/ \E p \in Ordinals : r = PodRef(p)
<1>1. /\ RefsOf("statefulSet") = {StatefulSetRef}
      /\ RefsOf("pods") = {PodRef(p) : p \in Ordinals}
      /\ RefsOf("configMap") = {ConfigMapRef} /\ RefsOf("own") = {OwnClaim}
      /\ RefsOf("shared") = {SharedClaim} /\ RefsOf("secret") = {SecretRef} /\ RefsOf("finish") = {}
  BY DEF RefsOf
<1>2. OwnClaim \in Claims /\ SharedClaim \in Claims
  BY DEF Claims
<1>3. ASSUME NEW s \in Steps, NEW t \in Steps, s # t
      PROVE  RefsOf(s) \cap RefsOf(t) = {}
  BY <1>1, <1>2, <1>3, RefsDiffer DEF Steps
<1>4. ASSUME NEW s \in Steps, NEW r \in RefsOf(s)
      PROVE  \/ r \in {StatefulSetRef, ConfigMapRef, SecretRef} \cup Claims
             \/ \E p \in Ordinals : r = PodRef(p)
  BY <1>1, <1>2, <1>4 DEF Steps
<1>5. QED BY <1>3, <1>4

\* A step adds what it may to both graphs.
Adds(s, new, edges, issues, new2, edges2, issues2) ==
    /\ Grown(graph, graph', new, edges, issues)
    /\ Grown(complete, complete', new2, edges2, issues2)
    /\ DOMAIN new2 \subseteq RefsOf(s)
    /\ \A r \in DOMAIN new : r \in DOMAIN new2 /\ NodeRelated(new[r], new2[r])
    /\ edges \subseteq edges2
    /\ \A e \in edges : {e.from, e.to} \subseteq DOMAIN graph'.nodes
    /\ \A e \in edges2 : {e.from, e.to} \subseteq DOMAIN complete'.nodes
    /\ \A e \in edges2 : e.type = "claims-storage" =>
        /\ \E p \in Ordinals : e.from = PodRef(p) /\ e.to \in ClaimsUsed(p)
        /\ e.from \in DOMAIN complete.nodes
        /\ e.from \in PodRefs(graph) => e \in edges
    /\ \A i \in issues2 :
        /\ i.source # "events"
        /\ i.source = "temporal-integrity" => \E j \in issues : j.source = "temporal-integrity"

Read(s) ==
    /\ Doing(s) /\ UNCHANGED <<worldVars, lag, focus>>
    /\ failures' \in 0..MaxFailures /\ changed' \in BOOLEAN /\ fresh' \in BOOLEAN

LEMMA AddsKeeps ==
    ASSUME SInv, NEW s \in Steps, Read(s),
           NEW new, NEW edges, NEW issues, NEW new2, NEW edges2, NEW issues2,
           Adds(s, new, edges, issues, new2, edges2, issues2)
    PROVE  /\ WorldInv' /\ OnPlan' /\ Unread'
           /\ WellFormed(graph') /\ WellFormed(complete') /\ Related(graph', complete')
           /\ ~Left(s)' /\ \A t : t # s => (Left(t)' <=> Left(t))
           /\ s \notin {"pods", "statefulSet"} => ~Left("pods")
           /\ DOMAIN new \cap DOMAIN graph.nodes = {}
           /\ DOMAIN new2 \cap DOMAIN complete.nodes = {}
<1>1. UNCHANGED <<claims, configMap, secret, pods, verdict, available, lag, focus>>
  BY DEF Read, worldVars
<1>2. focus \in {StatefulSetRef, PodRef(1)} /\ OnPlan
  BY Types DEF SInv
<1>3. /\ OnPlan' /\ Left(s) /\ ~Left(s)'
      /\ \A t : t # s => (Left(t)' <=> Left(t))
      /\ s \notin {"pods", "statefulSet"} => ~Left("pods")
  BY <1>1, <1>2, PlanStep DEF Read
<1>4. RefsOf(s) \cap DOMAIN complete.nodes = {}
  BY <1>3 DEF SInv, Unread
<1>5. DOMAIN new2 \cap DOMAIN complete.nodes = {}
  BY <1>4 DEF Adds
<1>6. DOMAIN new \cap DOMAIN graph.nodes = {}
  BY <1>5 DEF Adds, SInv, Related
<1>7. DOMAIN new \subseteq RefsOf(s)
  BY DEF Adds
<1>8. WellFormed(graph')
  <2>1. \A e \in edges : e.type = "claims-storage" =>
            \E p \in Ordinals : e.from = PodRef(p) /\ e.to \in ClaimsUsed(p)
    BY DEF Adds
  <2>2. /\ WellFormed(graph) /\ Grown(graph, graph', new, edges, issues)
        /\ \A e \in edges : {e.from, e.to} \subseteq DOMAIN graph'.nodes
    BY DEF Adds, SInv
  <2>3. QED BY <1>7, <2>1, <2>2, WellFormedKeeps
<1>9. WellFormed(complete')
  <2>1. /\ \A e \in edges2 : e.type = "claims-storage" =>
            \E p \in Ordinals : e.from = PodRef(p) /\ e.to \in ClaimsUsed(p)
        /\ DOMAIN new2 \subseteq RefsOf(s)
    BY DEF Adds
  <2>2. /\ WellFormed(complete) /\ Grown(complete, complete', new2, edges2, issues2)
        /\ \A e \in edges2 : {e.from, e.to} \subseteq DOMAIN complete'.nodes
    BY DEF Adds, SInv
  <2>3. QED BY <2>1, <2>2, WellFormedKeeps
<1>10. Related(graph', complete')
  <2>1. Related(graph, complete) /\ WellFormed(complete)
    BY DEF SInv
  <2>2. /\ Grown(graph, graph', new, edges, issues)
        /\ Grown(complete, complete', new2, edges2, issues2)
        /\ \A r \in DOMAIN new : r \in DOMAIN new2 /\ NodeRelated(new[r], new2[r])
        /\ edges \subseteq edges2
    BY DEF Adds
  <2>3. \A e \in edges2 : e.type = "claims-storage" =>
            e.from \in DOMAIN complete.nodes /\ (e.from \in PodRefs(graph) => e \in edges)
    BY DEF Adds
  <2>4. \A i \in issues2 : /\ i.source # "events"
                           /\ i.source = "temporal-integrity" =>
                                \E j \in issues : j.source = "temporal-integrity"
    BY DEF Adds
  <2>5. QED BY <1>5, <2>1, <2>2, <2>3, <2>4, RelatedKeeps
<1>11. Unread'
  <2> SUFFICES ASSUME NEW t \in Steps, Left(t)'
               PROVE  RefsOf(t) \cap DOMAIN complete'.nodes = {}
    BY DEF Unread, RefsOf
  <2>1. t # s /\ Left(t)
    BY <1>3
  <2>2. RefsOf(t) \cap DOMAIN complete.nodes = {} /\ RefsOf(t) \cap RefsOf(s) = {}
    BY <2>1, RefsOfDiffer DEF SInv, Unread
  <2>3. DOMAIN complete'.nodes = DOMAIN complete.nodes \cup DOMAIN new2
    BY DEF Adds, Grown
  <2>4. QED BY <2>2, <2>3 DEF Adds
<1>12. WorldInv'
  <2>1. \A e \in graph'.edges : {e.from, e.to} \subseteq DOMAIN graph'.nodes
    BY <1>8 DEF WellFormed
  <2>2. \A e \in complete'.edges : {e.from, e.to} \subseteq DOMAIN complete'.nodes
    BY <1>9 DEF WellFormed
  <2>3. TypeOK'
    BY <1>1, <2>1, <2>2 DEF SInv, WorldInv, TypeOK, Read
  <2>4. QED BY <1>1, <2>3 DEF SInv, WorldInv, Scheduled
<1>13. QED BY <1>3, <1>5, <1>6, <1>8, <1>9, <1>10, <1>11, <1>12

\* Nothing that was recorded is lost, if a step adds no Pods and leaves its own record.
LEMMA RecordedKeeps ==
    ASSUME Recorded, NEW s \in Steps, s # "pods",
           NEW new, NEW edges, NEW issues, NEW new2, NEW edges2, NEW issues2,
           Adds(s, new, edges, issues, new2, edges2, issues2),
           DOMAIN new \cap DOMAIN graph.nodes = {}, DOMAIN new2 \cap DOMAIN complete.nodes = {},
           \A t : t # s => (Left(t)' <=> Left(t)),
           s \in {"own", "shared"} =>
                \A p \in Ordinals : \A c \in RefsOf(s) \cap ClaimsUsed(p) :
                    PodRef(p) \in PodRefs(graph) => Edge(PodRef(p), c, "claims-storage") \in edges,
           s = "configMap" /\ PodRefs(graph) # {} => ConfigMapRef \in DOMAIN new,
           StatefulSetRef \in DOMAIN new /\ new[StatefulSetRef].object # NoObject =>
                \A r \in PodRefs(graph) : Edge(StatefulSetRef, r, "owns") \in edges,
           s = "secret" /\ InGraph(graph, PodRef(2)) => Issue("secret", SecretRef, FALSE) \in issues,
           ConfigMapRef \in DOMAIN new /\ new[ConfigMapRef].unknown =>
                Issue("configmap", ConfigMapRef, FALSE) \in issues,
           \A c \in Claims \cap DOMAIN new2 : ~new2[c].unknown
    PROVE  Recorded'
<1>1. Grown(graph, graph', new, edges, issues) /\ Grown(complete, complete', new2, edges2, issues2)
  BY DEF Adds
<1>2. \A p \in Ordinals : PodRef(p) \notin DOMAIN new
  <2>1. DOMAIN new \subseteq RefsOf(s)
    BY DEF Adds
  <2>2. RefsOf(s) \cap RefsOf("pods") = {} /\ RefsOf("pods") = {PodRef(p) : p \in Ordinals}
    BY RefsOfDiffer DEF Steps, RefsOf
  <2>3. QED BY <2>1, <2>2
<1>3. \A p \in Ordinals : PodRef(p) \in PodRefs(graph') => PodRef(p) \in PodRefs(graph)
  BY <1>1, <1>2, GrownNodes
<1>4. InGraph(graph', PodRef(2)) => InGraph(graph, PodRef(2))
  BY <1>1, <1>2 DEF Grown, InGraph, Ordinals
<1>5. ASSUME NEW p \in Ordinals, PodRef(p) \in PodRefs(graph')
      PROVE  /\ ~Left("own")' /\ OwnClaim \in ClaimsUsed(p) =>
                    Edge(PodRef(p), OwnClaim, "claims-storage") \in graph'.edges
             /\ ~Left("shared")' => Edge(PodRef(p), SharedClaim, "claims-storage") \in graph'.edges
             /\ ~Left("configMap")' => InGraph(graph', ConfigMapRef)
             /\ ObjectOf(graph', StatefulSetRef) # NoObject =>
                    Edge(StatefulSetRef, PodRef(p), "owns") \in graph'.edges
  <2>1. PodRef(p) \in PodRefs(graph)
    BY <1>3, <1>5
  <2>2. graph'.edges = graph.edges \cup edges
    BY <1>1 DEF Grown
  <2>3. ~Left("own")' /\ OwnClaim \in ClaimsUsed(p) =>
                    Edge(PodRef(p), OwnClaim, "claims-storage") \in graph'.edges
    <3>1. CASE s = "own"
      <4>1. OwnClaim \in RefsOf(s)
        BY <3>1 DEF RefsOf
      <4>2. QED BY <2>1, <2>2, <3>1, <4>1
    <3>2. CASE s # "own"
      BY <2>1, <2>2, <3>2 DEF Recorded
    <3>3. QED BY <3>1, <3>2
  <2>4. ~Left("shared")' => Edge(PodRef(p), SharedClaim, "claims-storage") \in graph'.edges
    <3>1. CASE s = "shared"
      <4>1. SharedClaim \in RefsOf(s) /\ SharedClaim \in ClaimsUsed(p)
        BY <3>1 DEF RefsOf, ClaimsUsed, Claims
      <4>2. QED BY <2>1, <2>2, <3>1, <4>1
    <3>2. CASE s # "shared"
      BY <2>1, <2>2, <3>2 DEF Recorded
    <3>3. QED BY <3>1, <3>2
  <2>5. ~Left("configMap")' => InGraph(graph', ConfigMapRef)
    BY <1>1, <2>1 DEF Grown, InGraph, Recorded
  <2>6. ObjectOf(graph', StatefulSetRef) # NoObject =>
                    Edge(StatefulSetRef, PodRef(p), "owns") \in graph'.edges
    <3>1. ObjectOf(graph', StatefulSetRef) =
            IF StatefulSetRef \in DOMAIN new THEN new[StatefulSetRef].object
            ELSE ObjectOf(graph, StatefulSetRef)
      BY <1>1, GrownNodes
    <3>2. QED BY <2>1, <2>2, <3>1 DEF Recorded
  <2>7. QED BY <2>3, <2>4, <2>5, <2>6
<1>6. ~Left("secret")' /\ InGraph(graph', PodRef(2)) => Issue("secret", SecretRef, FALSE) \in graph'.issues
  <2>1. graph'.issues = graph.issues \cup issues
    BY <1>1 DEF Grown
  <2>2. CASE s = "secret"
    BY <1>4, <2>1, <2>2
  <2>3. CASE s # "secret"
    BY <1>4, <2>1, <2>3 DEF Recorded
  <2>4. QED BY <2>2, <2>3
<1>7. InGraph(graph', ConfigMapRef) /\ graph'.nodes[ConfigMapRef].unknown =>
            Issue("configmap", ConfigMapRef, FALSE) \in graph'.issues
  <2>1. CASE ConfigMapRef \in DOMAIN new
    BY <1>1, <2>1 DEF Grown
  <2>2. CASE ConfigMapRef \notin DOMAIN new
    BY <1>1, <2>2 DEF Grown, Recorded, InGraph
  <2>3. QED BY <2>1, <2>2
<1>8. \A c \in Claims : InGraph(complete', c) => ~complete'.nodes[c].unknown
  BY <1>1 DEF Grown, Recorded, InGraph
<1>9. QED BY <1>5, <1>6, <1>7, <1>8 DEF Recorded, ClaimsUsed, Claims

\* An inspection reads what the world wrote.
LEMMA SameWorld ==
    ASSUME UNCHANGED worldVars
    PROVE  /\ \A p : Scheduled(p)' = Scheduled(p) /\ Obstacles(p)' = Obstacles(p) /\ PodObject(p)' = PodObject(p)
           /\ \A c \in Claims : ClaimObject(c)' = ClaimObject(c)
           /\ ConfigMapObject' = ConfigMapObject
<1>1. UNCHANGED <<claims, configMap, secret, pods, verdict, available>>
  BY DEF worldVars
<1>2. QED BY <1>1 DEF Scheduled, Obstacles, ClaimsUsed, Says, Delayed, PodObject, WaitingReason,
                      ClaimObject, ConfigMapObject, Status

LEMMA UpToDateKeeps ==
    ASSUME UpToDate, UNCHANGED worldVars,
           NEW new, NEW edges, NEW issues, Grown(graph, graph', new, edges, issues),
           DOMAIN new \cap DOMAIN graph.nodes = {},
           \A p \in Ordinals : PodRef(p) \notin DOMAIN new,
           \A c \in Claims \cap DOMAIN new : ExistenceUnknown(new[c]) \/ Is(new[c], ClaimObject(c)),
           ConfigMapRef \in DOMAIN new =>
                ExistenceUnknown(new[ConfigMapRef]) \/ Is(new[ConfigMapRef], ConfigMapObject)
    PROVE  UpToDate'
<1>1. UNCHANGED <<claims, configMap, secret, pods, verdict, available>>
  BY DEF worldVars
<1>2. /\ \A p : Scheduled(p)' = Scheduled(p) /\ Obstacles(p)' = Obstacles(p) /\ PodObject(p)' = PodObject(p)
      /\ \A c \in Claims : ClaimObject(c)' = ClaimObject(c)
      /\ ConfigMapObject' = ConfigMapObject
  BY SameWorld
<1>3. \A p \in Ordinals : /\ InGraph(graph', PodRef(p)) => InGraph(graph, PodRef(p))
                          /\ ObjectOf(graph', PodRef(p)) = ObjectOf(graph, PodRef(p))
  <2>1. \A r : ObjectOf(graph', r) = IF r \in DOMAIN new THEN new[r].object ELSE ObjectOf(graph, r)
    BY GrownNodes
  <2>2. DOMAIN graph'.nodes = DOMAIN graph.nodes \cup DOMAIN new
    BY DEF Grown
  <2>3. QED BY <2>1, <2>2 DEF InGraph
<1>4. ASSUME NEW p \in Ordinals
      PROVE  /\ Scheduled(p)' \/ verdict'[p] \in Obstacles(p)'
             /\ InGraph(graph', PodRef(p)) => ObjectOf(graph', PodRef(p)) = PodObject(p)'
  BY <1>1, <1>2, <1>3 DEF UpToDate
<1>5. ASSUME NEW c \in Claims, InGraph(graph', c)
      PROVE  ExistenceUnknown(graph'.nodes[c]) \/ Is(graph'.nodes[c], ClaimObject(c)')
  <2>1. CASE c \in DOMAIN new
    BY <1>2, <2>1 DEF Grown
  <2>2. CASE c \notin DOMAIN new
    <3>1. InGraph(graph, c) /\ graph'.nodes[c] = graph.nodes[c]
      BY <1>5, <2>2 DEF Grown, InGraph
    <3>2. QED BY <1>2, <3>1 DEF UpToDate
  <2>3. QED BY <2>1, <2>2
<1>6. InGraph(graph', ConfigMapRef) =>
        \/ ExistenceUnknown(graph'.nodes[ConfigMapRef])
        \/ Is(graph'.nodes[ConfigMapRef], ConfigMapObject')
  <2>1. CASE ConfigMapRef \in DOMAIN new
    BY <1>2, <2>1 DEF Grown
  <2>2. CASE ConfigMapRef \notin DOMAIN new
    BY <1>2, <2>2 DEF Grown, InGraph, UpToDate
  <2>3. QED BY <2>1, <2>2
<1>7. QED BY <1>4, <1>5, <1>6 DEF UpToDate, Is, PodRef

-----------------------------------------------------------------------------
(* The steps of the plan, one by one. *)

Said(source, ref, ok) == IF ok THEN {} ELSE {Issue(source, ref, FALSE)}

Owns(refs)         == {Edge(StatefulSetRef, r, "owns") : r \in refs}
Uses(refs, c)      == {Edge(r, c, "claims-storage") : r \in refs}
References(refs, c) == {Edge(r, c, "references") : r \in refs}

\* The node of a resource somebody refers to.
IfAny(refs, new) == IF refs = {} THEN None ELSE new

LEMMA StatefulSetGrows ==
    ASSUME NEW g, IsGraph(g), StatefulSetRef \notin DOMAIN g.nodes, NEW ok \in BOOLEAN
    PROVE  Grown(g, WithStatefulSet(g, ok), One(StatefulSetRef, Answer(StatefulSetObject, ok)),
                 IF ok THEN Owns(PodRefs(g)) ELSE {}, Said("statefulset", StatefulSetRef, ok))
<1>1. CASE ok
  BY <1>1, AddNodeGrows, ThenEdges DEF WithStatefulSet, Owns, Said
<1>2. CASE ~ok
  BY <1>2, UnresolvedGrows DEF WithStatefulSet, Said, Answer
<1>3. QED BY <1>1, <1>2

Reads == IF focus = StatefulSetRef THEN Ordinals ELSE {1}

LEMMA WithPodsGrows ==
    ASSUME NEW g, IsGraph(g), \A p \in Ordinals : PodRef(p) \notin DOMAIN g.nodes,
           NEW ok \in BOOLEAN
    PROVE  Grown(g, WithPods(g, ok), IF ok THEN PodNodes(Reads) ELSE None,
                 IF ok /\ InGraph(g, StatefulSetRef) THEN Owns({PodRef(p) : p \in Reads}) ELSE {},
                 Said("pod", focus, ok))
<1>1. CASE ok
  <2>1. Reads \in SUBSET Ordinals
    BY DEF Reads, Ordinals
  <2>2. Grown(g, AddNodes(g, {PodObject(p) : p \in Reads}), PodNodes(Reads), {}, {})
    BY <2>1, PodsGrow
  <2> DEFINE edges == {Edge(StatefulSetRef, PodRef(p), "owns") :
                        p \in {q \in Reads : InGraph(g, StatefulSetRef)}}
  <2>3. edges = IF InGraph(g, StatefulSetRef) THEN Owns({PodRef(p) : p \in Reads}) ELSE {}
    <3>1. Owns({PodRef(p) : p \in Reads}) = {Edge(StatefulSetRef, PodRef(p), "owns") : p \in Reads}
      BY DEF Owns
    <3>2. QED BY <3>1
  <2>4. WithPods(g, ok) = AddEdges(AddNodes(g, {PodObject(p) : p \in Reads}), edges)
    BY <1>1 DEF WithPods, Reads
  <2> HIDE DEF edges
  <2>5. Grown(g, WithPods(g, ok), PodNodes(Reads), edges, {})
    BY <2>2, <2>4, ThenEdges
  <2>6. QED BY <1>1, <2>3, <2>5 DEF Said
<1>2. CASE ~ok
  BY <1>2, IssueGrows DEF WithPods, Said
<1>3. QED BY <1>1, <1>2

LEMMA ClaimGrows ==
    ASSUME NEW g, IsGraph(g), NEW c, c \notin DOMAIN g.nodes, NEW ok \in BOOLEAN
    PROVE  Grown(g, WithClaim(g, c, ok), IfAny(UsersOf(g, c), One(c, Answer(ClaimObject(c), ok))),
                 Uses(UsersOf(g, c), c),
                 IF UsersOf(g, c) = {} THEN {} ELSE Said("persistentvolumeclaim", c, ok))
<1>1. CASE UsersOf(g, c) = {}
  BY <1>1, NothingGrows DEF WithClaim, IfAny, Uses
<1>2. CASE UsersOf(g, c) # {} /\ ok
  BY <1>2, AddNodeGrows, ThenEdges DEF WithClaim, IfAny, Uses, Said
<1>3. CASE UsersOf(g, c) # {} /\ ~ok
  BY <1>3, UnresolvedGrows, ThenEdges DEF WithClaim, IfAny, Uses, Said, Answer
<1>4. QED BY <1>1, <1>2, <1>3

LEMMA ConfigMapGrows ==
    ASSUME NEW g, IsGraph(g), ConfigMapRef \notin DOMAIN g.nodes, NEW ok \in BOOLEAN
    PROVE  Grown(g, WithConfigMap(g, ok),
                 IfAny(PodRefs(g), One(ConfigMapRef, Answer(ConfigMapObject, ok))),
                 References(PodRefs(g), ConfigMapRef),
                 IF PodRefs(g) = {} THEN {} ELSE Said("configmap", ConfigMapRef, ok))
<1>1. CASE PodRefs(g) = {}
  BY <1>1, NothingGrows DEF WithConfigMap, IfAny, References
<1>2. CASE PodRefs(g) # {} /\ ok
  BY <1>2, AddNodeGrows, ThenEdges DEF WithConfigMap, IfAny, References, Said
<1>3. CASE PodRefs(g) # {} /\ ~ok
  BY <1>3, UnresolvedGrows, ThenEdges DEF WithConfigMap, IfAny, References, Said, Answer
<1>4. QED BY <1>1, <1>2, <1>3

\* The Pod that takes a Secret, if it is in the graph.
SecretUsers(g) == {PodRef(2)} \cap DOMAIN g.nodes

LEMMA SecretGrows ==
    ASSUME NEW g, IsGraph(g), SecretRef \notin DOMAIN g.nodes
    PROVE  Grown(g, WithSecret(g), IfAny(SecretUsers(g), One(SecretRef, Answer(NoObject, FALSE))),
                 References(SecretUsers(g), SecretRef),
                 IF SecretUsers(g) = {} THEN {} ELSE {Issue("secret", SecretRef, FALSE)})
<1>1. CASE PodRef(2) \notin DOMAIN g.nodes
  <2>1. SecretUsers(g) = {}
    BY <1>1 DEF SecretUsers
  <2>2. QED BY <1>1, <2>1, NothingGrows DEF WithSecret, InGraph, IfAny, References
<1>2. CASE PodRef(2) \in DOMAIN g.nodes
  <2>1. SecretUsers(g) = {PodRef(2)}
    BY <1>2 DEF SecretUsers
  <2>2. References(SecretUsers(g), SecretRef) = {Edge(PodRef(2), SecretRef, "references")}
    BY <2>1 DEF References
  <2>3. QED BY <1>2, <2>1, <2>2, UnresolvedGrows, ThenEdges DEF WithSecret, InGraph, IfAny
<1>3. QED BY <1>1, <1>2

LEMMA VerdictGrows ==
    ASSUME NEW g, IsGraph(g), NEW ok \in BOOLEAN
    PROVE  Grown(g, WithVerdict(g, ok), None, {},
                 IF changed \/ ~ok THEN {Issue("temporal-integrity", focus, TRUE)} ELSE {})
<1>1. CASE changed \/ ~ok
  BY <1>1, IssueGrows DEF WithVerdict
<1>2. CASE ~(changed \/ ~ok)
  BY <1>2, NothingGrows DEF WithVerdict
<1>3. QED BY <1>1, <1>2

-----------------------------------------------------------------------------
(* Every step keeps the invariant. *)

LEMMA AnswersRelated ==
    ASSUME NEW object, NEW ok \in BOOLEAN
    PROVE  /\ NodeRelated(Answer(object, ok), Answer(object, TRUE))
           /\ ExistenceUnknown(Answer(object, ok)) \/ Is(Answer(object, ok), object)
           /\ ~Answer(object, TRUE).unknown
           /\ Answer(object, ok).unknown => ~ok
           /\ ok => Answer(object, ok).object = object
           /\ ~ok => Answer(object, ok).object = NoObject
BY DEF NodeRelated, Answer, Missing, ExistenceUnknown, Is

\* New nodes of one resource, if anybody refers to it.
LEMMA OneNode ==
    ASSUME NEW refs, NEW ref, NEW node
    PROVE  /\ DOMAIN One(ref, node) = {ref} /\ One(ref, node)[ref] = node
           /\ DOMAIN None = {}
           /\ DOMAIN IfAny(refs, One(ref, node)) = IF refs = {} THEN {} ELSE {ref}
           /\ refs # {} => IfAny(refs, One(ref, node))[ref] = node
BY DEF One, None, IfAny

\* A step reads, if it is next.
LEMMA ReadsAre ==
    ASSUME SInv, NEW s, Doing(s), UNCHANGED <<worldVars, lag, focus>>,
           changed' \in BOOLEAN, fresh' \in BOOLEAN,
           UNCHANGED failures \/ \E ok \in BOOLEAN : Answered(ok)
    PROVE  Read(s) /\ s \in Steps
<1>1. focus \in {StatefulSetRef, PodRef(1)} /\ failures \in 0..MaxFailures
  BY Types DEF SInv
<1>2. s \in Steps
  BY <1>1, PlanStep DEF SInv
<1>3. failures' \in 0..MaxFailures
  BY <1>1, StartupAssumption DEF Answered
<1>4. QED BY <1>2, <1>3 DEF Read

\* What is in the graph is in the complete one, and what is known of it is known there.
LEMMA GraphsAgree ==
    ASSUME SInv
    PROVE  /\ IsGraph(graph) /\ IsGraph(complete)
           /\ DOMAIN graph.nodes \subseteq DOMAIN complete.nodes
           /\ PodRefs(graph) \subseteq PodRefs(complete)
           /\ PodRefs(complete) \subseteq DOMAIN complete.nodes
           /\ \A r \in PodRefs(complete) : \E p \in Ordinals : r = PodRef(p)
<1>1. /\ IsGraph(graph) /\ IsGraph(complete)
      /\ DOMAIN graph.nodes \subseteq DOMAIN complete.nodes
  BY DEF SInv, WellFormed, Related
<1>2. PodRefs(graph) \subseteq PodRefs(complete)
  BY DEF SInv, Related, PodRefs, ObjectOf, InGraph, NodeRelated
<1>3. PodRefs(complete) \subseteq DOMAIN complete.nodes
  BY DEF PodRefs
<1>4. ASSUME NEW r \in PodRefs(complete)
      PROVE  \E p \in Ordinals : r = PodRef(p)
  <2>1. r.kind = "Pod" /\ r \in UNION {RefsOf(s) : s \in Steps}
    BY DEF PodRefs, SInv, WellFormed
  <2>2. r \notin {StatefulSetRef, ConfigMapRef, SecretRef} \cup Claims
    BY <2>1, RefsDiffer
  <2>3. QED BY <2>1, <2>2, RefsOfDiffer
<1>5. QED BY <1>1, <1>2, <1>3, <1>4

\* A step that adds no Pods keeps the invariant if it records what it did.
LEMMA ReadKeeps ==
    ASSUME SInv, NEW s \in Steps, s # "pods", Read(s), UNCHANGED fresh,
           NEW new, NEW edges, NEW issues, NEW new2, NEW edges2, NEW issues2,
           Adds(s, new, edges, issues, new2, edges2, issues2),
           s \in {"own", "shared"} =>
                \A p \in Ordinals : \A c \in RefsOf(s) \cap ClaimsUsed(p) :
                    PodRef(p) \in PodRefs(graph) => Edge(PodRef(p), c, "claims-storage") \in edges,
           s = "configMap" /\ PodRefs(graph) # {} => ConfigMapRef \in DOMAIN new,
           StatefulSetRef \in DOMAIN new /\ new[StatefulSetRef].object # NoObject =>
                \A r \in PodRefs(graph) : Edge(StatefulSetRef, r, "owns") \in edges,
           s = "secret" /\ InGraph(graph, PodRef(2)) => Issue("secret", SecretRef, FALSE) \in issues,
           ConfigMapRef \in DOMAIN new /\ new[ConfigMapRef].unknown =>
                Issue("configmap", ConfigMapRef, FALSE) \in issues,
           \A c \in Claims \cap DOMAIN new2 : ~new2[c].unknown,
           \A c \in Claims \cap DOMAIN new : ExistenceUnknown(new[c]) \/ Is(new[c], ClaimObject(c)),
           ConfigMapRef \in DOMAIN new =>
                ExistenceUnknown(new[ConfigMapRef]) \/ Is(new[ConfigMapRef], ConfigMapObject)
    PROVE  SInv'
<1>1. /\ WorldInv' /\ OnPlan' /\ Unread'
      /\ WellFormed(graph') /\ WellFormed(complete') /\ Related(graph', complete')
      /\ \A t : t # s => (Left(t)' <=> Left(t))
      /\ DOMAIN new \cap DOMAIN graph.nodes = {}
      /\ DOMAIN new2 \cap DOMAIN complete.nodes = {}
  BY AddsKeeps
<1>2. Recorded'
  BY <1>1, RecordedKeeps DEF SInv
<1>3. ASSUME fresh'
      PROVE  UpToDate' /\ ~Left("pods")'
  <2>1. UpToDate /\ ~Left("pods") /\ UNCHANGED worldVars
    BY <1>3 DEF SInv, Read
  <2>2. \A p \in Ordinals : PodRef(p) \notin DOMAIN new
    <3>1. DOMAIN new \subseteq RefsOf(s)
      BY DEF Adds
    <3>2. RefsOf(s) \cap RefsOf("pods") = {} /\ RefsOf("pods") = {PodRef(p) : p \in Ordinals}
      BY RefsOfDiffer DEF Steps, RefsOf
    <3>3. QED BY <3>1, <3>2
  <2>3. Grown(graph, graph', new, edges, issues)
    BY DEF Adds
  <2>4. UpToDate'
    BY <1>1, <2>1, <2>2, <2>3, UpToDateKeeps
  <2>5. QED BY <1>1, <2>1, <2>4
<1>4. QED BY <1>1, <1>2, <1>3 DEF SInv

LEMMA ReadStatefulSetKeeps ==
    ASSUME SInv, ReadStatefulSet, UNCHANGED <<worldVars, lag, focus>>
    PROVE  SInv'
<1>1. PICK ok \in BOOLEAN : Answered(ok) /\ graph' = WithStatefulSet(graph, ok)
  BY DEF ReadStatefulSet
<1>2. Doing("statefulSet") /\ complete' = WithStatefulSet(complete, TRUE) /\ UNCHANGED fresh
  BY DEF ReadStatefulSet
<1>3. Read("statefulSet") /\ "statefulSet" \in Steps
  BY <1>1, <1>2, ReadsAre, Types DEF SInv, ReadStatefulSet
<1>4. RefsOf("statefulSet") = {StatefulSetRef} /\ StatefulSetRef \notin DOMAIN complete.nodes
  <2>1. Left("statefulSet")
    BY <1>3, PlanStep, Types DEF SInv, Read
  <2>2. QED BY <1>3, <2>1 DEF SInv, Unread, RefsOf
<1>5. StatefulSetRef \notin DOMAIN graph.nodes
  BY <1>4, GraphsAgree
<1> DEFINE new == One(StatefulSetRef, Answer(StatefulSetObject, ok))
           new2 == One(StatefulSetRef, Answer(StatefulSetObject, TRUE))
           edges == IF ok THEN Owns(PodRefs(graph)) ELSE {}
           edges2 == Owns(PodRefs(complete))
           issues == Said("statefulset", StatefulSetRef, ok)
<1>6. Grown(graph, graph', new, edges, issues)
  BY <1>1, <1>5, StatefulSetGrows, GraphsAgree
<1>7. Grown(complete, complete', new2, edges2, {})
  <2>1. Said("statefulset", StatefulSetRef, TRUE) = {}
    BY DEF Said
  <2>2. QED BY <1>2, <1>4, <2>1, StatefulSetGrows, GraphsAgree
<1>8. /\ DOMAIN new = {StatefulSetRef} /\ DOMAIN new2 = {StatefulSetRef}
      /\ NodeRelated(new[StatefulSetRef], new2[StatefulSetRef])
      /\ new[StatefulSetRef].object # NoObject => ok
  <2>1. /\ DOMAIN new = {StatefulSetRef} /\ new[StatefulSetRef] = Answer(StatefulSetObject, ok)
        /\ DOMAIN new2 = {StatefulSetRef} /\ new2[StatefulSetRef] = Answer(StatefulSetObject, TRUE)
    BY OneNode
  <2> HIDE DEF new, new2
  <2>2. QED BY <2>1, AnswersRelated
<1>9. /\ \A refs : \A e \in Owns(refs) : e.from = StatefulSetRef /\ e.to \in refs /\ e.type = "owns"
      /\ edges \subseteq edges2
  BY GraphsAgree DEF Owns, Edge
<1>10. /\ \A e \in edges : {e.from, e.to} \subseteq DOMAIN graph'.nodes
       /\ \A e \in edges2 : {e.from, e.to} \subseteq DOMAIN complete'.nodes
       /\ \A e \in edges2 : e.type # "claims-storage"
  <2>1. PodRefs(graph) \subseteq DOMAIN graph.nodes /\ PodRefs(complete) \subseteq DOMAIN complete.nodes
    BY DEF PodRefs
  <2>2. /\ DOMAIN graph'.nodes = DOMAIN graph.nodes \cup {StatefulSetRef}
        /\ DOMAIN complete'.nodes = DOMAIN complete.nodes \cup {StatefulSetRef}
    BY <1>6, <1>7, <1>8 DEF Grown
  <2>3. QED BY <1>9, <2>1, <2>2
<1>11. ok => \A r \in PodRefs(graph) : Edge(StatefulSetRef, r, "owns") \in edges
  BY DEF Owns
<1> HIDE DEF new, new2, edges, edges2, issues
<1>12. Adds("statefulSet", new, edges, issues, new2, edges2, {})
  BY <1>4, <1>6, <1>7, <1>8, <1>9, <1>10 DEF Adds
<1>13. StatefulSetRef # ConfigMapRef /\ StatefulSetRef \notin Claims
  BY RefsDiffer
<1>14. QED BY <1>2, <1>3, <1>8, <1>11, <1>12, <1>13, ReadKeeps

LEMMA ReadConfigMapKeeps ==
    ASSUME SInv, ReadConfigMap, UNCHANGED <<worldVars, lag, focus>>
    PROVE  SInv'
<1>1. PICK ok \in BOOLEAN : Answered(ok) /\ graph' = WithConfigMap(graph, ok)
  BY DEF ReadConfigMap
<1>2. /\ Doing("configMap") /\ complete' = WithConfigMap(complete, TRUE)
      /\ UNCHANGED <<fresh, changed>>
  BY DEF ReadConfigMap, AsRead
<1>3. Read("configMap") /\ "configMap" \in Steps
  BY <1>1, <1>2, ReadsAre, Types DEF SInv
<1>4. RefsOf("configMap") = {ConfigMapRef} /\ ConfigMapRef \notin DOMAIN complete.nodes
  <2>1. Left("configMap")
    BY <1>3, PlanStep, Types DEF SInv, Read
  <2>2. QED BY <1>3, <2>1 DEF SInv, Unread, RefsOf
<1>5. ConfigMapRef \notin DOMAIN graph.nodes
  BY <1>4, GraphsAgree
<1> DEFINE new == IfAny(PodRefs(graph), One(ConfigMapRef, Answer(ConfigMapObject, ok)))
           new2 == IfAny(PodRefs(complete), One(ConfigMapRef, Answer(ConfigMapObject, TRUE)))
           edges == References(PodRefs(graph), ConfigMapRef)
           edges2 == References(PodRefs(complete), ConfigMapRef)
           issues == IF PodRefs(graph) = {} THEN {} ELSE Said("configmap", ConfigMapRef, ok)
<1>6. Grown(graph, graph', new, edges, issues)
  BY <1>1, <1>5, ConfigMapGrows, GraphsAgree
<1>7. Grown(complete, complete', new2, edges2, {})
  <2>1. Said("configmap", ConfigMapRef, TRUE) = {}
    BY DEF Said
  <2>2. QED BY <1>2, <1>4, <2>1, ConfigMapGrows, GraphsAgree
<1>8. /\ DOMAIN new \subseteq {ConfigMapRef} /\ DOMAIN new2 \subseteq {ConfigMapRef}
      /\ PodRefs(graph) # {} => DOMAIN new = {ConfigMapRef}
      /\ PodRefs(complete) # {} => DOMAIN new2 = {ConfigMapRef}
      /\ ConfigMapRef \in DOMAIN new => /\ PodRefs(graph) # {}
                                        /\ new[ConfigMapRef] = Answer(ConfigMapObject, ok)
      /\ ConfigMapRef \in DOMAIN new2 => new2[ConfigMapRef] = Answer(ConfigMapObject, TRUE)
  <2>1. /\ DOMAIN new = IF PodRefs(graph) = {} THEN {} ELSE {ConfigMapRef}
        /\ PodRefs(graph) # {} => new[ConfigMapRef] = Answer(ConfigMapObject, ok)
    BY OneNode
  <2>2. /\ DOMAIN new2 = IF PodRefs(complete) = {} THEN {} ELSE {ConfigMapRef}
        /\ PodRefs(complete) # {} => new2[ConfigMapRef] = Answer(ConfigMapObject, TRUE)
    BY OneNode
  <2> HIDE DEF new, new2
  <2>3. QED BY <2>1, <2>2
<1>9. /\ \A refs : \A e \in References(refs, ConfigMapRef) :
            e.from \in refs /\ e.to = ConfigMapRef /\ e.type = "references"
      /\ edges \subseteq edges2
  BY GraphsAgree DEF References, Edge
<1>10. issues = IF PodRefs(graph) = {} \/ ok THEN {} ELSE {Issue("configmap", ConfigMapRef, FALSE)}
  BY DEF Said
<1>11. /\ \A e \in edges : e.from \in PodRefs(graph) /\ e.to = ConfigMapRef
       /\ \A e \in edges2 : e.from \in PodRefs(complete) /\ e.to = ConfigMapRef
       /\ \A e \in edges2 : e.type # "claims-storage"
  BY <1>9
<1> HIDE DEF new, new2, edges, edges2, issues
<1>12. /\ \A e \in edges : {e.from, e.to} \subseteq DOMAIN graph'.nodes
       /\ \A e \in edges2 : {e.from, e.to} \subseteq DOMAIN complete'.nodes
  <2>1. PodRefs(graph) \subseteq DOMAIN graph.nodes /\ PodRefs(complete) \subseteq DOMAIN complete.nodes
    BY DEF PodRefs
  <2>2. /\ DOMAIN graph'.nodes = DOMAIN graph.nodes \cup DOMAIN new
        /\ DOMAIN complete'.nodes = DOMAIN complete.nodes \cup DOMAIN new2
    BY <1>6, <1>7 DEF Grown
  <2>3. QED BY <1>8, <1>11, <2>1, <2>2
<1>13. \A r \in DOMAIN new : r \in DOMAIN new2 /\ NodeRelated(new[r], new2[r])
  BY <1>8, GraphsAgree, AnswersRelated
<1>14. Adds("configMap", new, edges, issues, new2, edges2, {})
  BY <1>4, <1>6, <1>7, <1>8, <1>9, <1>11, <1>12, <1>13 DEF Adds
<1>15. StatefulSetRef # ConfigMapRef /\ ConfigMapRef \notin Claims
  BY RefsDiffer
<1>16. ConfigMapRef \in DOMAIN new =>
          /\ ExistenceUnknown(new[ConfigMapRef]) \/ Is(new[ConfigMapRef], ConfigMapObject)
          /\ new[ConfigMapRef].unknown => Issue("configmap", ConfigMapRef, FALSE) \in issues
  BY <1>8, <1>10, AnswersRelated
<1>17. QED BY <1>2, <1>3, <1>8, <1>14, <1>15, <1>16, ReadKeeps

LEMMA ReadClaimKeeps ==
    ASSUME SInv, NEW s \in {"own", "shared"}, NEW c \in Claims, RefsOf(s) = {c},
           ReadClaim(s, c), UNCHANGED <<worldVars, lag, focus>>
    PROVE  SInv'
<1>1. PICK ok \in BOOLEAN : Answered(ok) /\ graph' = WithClaim(graph, c, ok)
  BY DEF ReadClaim
<1>2. /\ Doing(s) /\ complete' = WithClaim(complete, c, TRUE)
      /\ UNCHANGED <<fresh, changed>>
  BY DEF ReadClaim, AsRead
<1>3. Read(s) /\ s \in Steps
  BY <1>1, <1>2, ReadsAre, Types DEF SInv
<1>4. c \notin DOMAIN complete.nodes
  <2>1. Left(s)
    BY <1>3, PlanStep, Types DEF SInv, Read
  <2>2. QED BY <1>3, <2>1 DEF SInv, Unread
<1>5. c \notin DOMAIN graph.nodes
  BY <1>4, GraphsAgree
<1> DEFINE users == UsersOf(graph, c)
           users2 == UsersOf(complete, c)
           new == IfAny(users, One(c, Answer(ClaimObject(c), ok)))
           new2 == IfAny(users2, One(c, Answer(ClaimObject(c), TRUE)))
           edges == Uses(users, c)
           edges2 == Uses(users2, c)
           issues == IF users = {} THEN {} ELSE Said("persistentvolumeclaim", c, ok)
<1>6. Grown(graph, graph', new, edges, issues)
  BY <1>1, <1>5, ClaimGrows, GraphsAgree
<1>7. Grown(complete, complete', new2, edges2, {})
  <2>1. (IF users2 = {} THEN {} ELSE Said("persistentvolumeclaim", c, TRUE)) = {}
    BY DEF Said
  <2>2. IsGraph(complete) /\ TRUE \in BOOLEAN
    BY GraphsAgree
  <2>3. Grown(complete, WithClaim(complete, c, TRUE), new2, edges2,
              IF users2 = {} THEN {} ELSE Said("persistentvolumeclaim", c, TRUE))
    BY <1>4, <2>2, ClaimGrows
  <2> HIDE DEF users2, new2, edges2
  <2>4. QED BY <1>2, <2>1, <2>3
<1>8. /\ DOMAIN new = IF users = {} THEN {} ELSE {c}
      /\ users # {} => new[c] = Answer(ClaimObject(c), ok)
      /\ DOMAIN new2 = IF users2 = {} THEN {} ELSE {c}
      /\ users2 # {} => new2[c] = Answer(ClaimObject(c), TRUE)
  <2> HIDE DEF users, users2
  <2>1. /\ DOMAIN new = IF users = {} THEN {} ELSE {c}
        /\ users # {} => new[c] = Answer(ClaimObject(c), ok)
    BY OneNode
  <2>2. /\ DOMAIN new2 = IF users2 = {} THEN {} ELSE {c}
        /\ users2 # {} => new2[c] = Answer(ClaimObject(c), TRUE)
    BY OneNode
  <2>3. QED BY <2>1, <2>2
<1>9. /\ users \subseteq users2 /\ users \subseteq PodRefs(graph) /\ users2 \subseteq PodRefs(complete)
      /\ \A r \in users2 : \E p \in Ordinals : r = PodRef(p) /\ c \in ClaimsUsed(p)
      /\ \A r \in users2 : r \in PodRefs(graph) => r \in users
      /\ \A p \in Ordinals : c \in ClaimsUsed(p) /\ PodRef(p) \in PodRefs(graph) => PodRef(p) \in users
  BY GraphsAgree DEF UsersOf
<1> HIDE DEF users, users2
<1>10. /\ \A r \in users : Edge(r, c, "claims-storage") \in edges
       /\ \A e \in edges2 : \E r \in users2 : e = Edge(r, c, "claims-storage")
       /\ \A e \in edges : \E r \in users : e = Edge(r, c, "claims-storage")
       /\ \A r : Edge(r, c, "claims-storage").from = r /\ Edge(r, c, "claims-storage").to = c
       /\ edges \subseteq edges2
  BY <1>9 DEF Uses, Edge
<1> HIDE DEF new, new2, edges, edges2, issues
<1>11. /\ \A e \in edges : {e.from, e.to} \subseteq DOMAIN graph'.nodes
       /\ \A e \in edges2 : {e.from, e.to} \subseteq DOMAIN complete'.nodes
  <2>1. PodRefs(graph) \subseteq DOMAIN graph.nodes /\ PodRefs(complete) \subseteq DOMAIN complete.nodes
    BY DEF PodRefs
  <2>2. /\ DOMAIN graph'.nodes = DOMAIN graph.nodes \cup DOMAIN new
        /\ DOMAIN complete'.nodes = DOMAIN complete.nodes \cup DOMAIN new2
    BY <1>6, <1>7 DEF Grown
  <2>3. ASSUME NEW e \in edges
        PROVE  {e.from, e.to} \subseteq DOMAIN graph'.nodes
    BY <1>8, <1>9, <1>10, <2>1, <2>2, <2>3
  <2>4. ASSUME NEW e \in edges2
        PROVE  {e.from, e.to} \subseteq DOMAIN complete'.nodes
    BY <1>8, <1>9, <1>10, <2>1, <2>2, <2>4
  <2>5. QED BY <2>3, <2>4
<1>12. ASSUME NEW e \in edges2
       PROVE  /\ \E p \in Ordinals : e.from = PodRef(p) /\ e.to \in ClaimsUsed(p)
              /\ e.from \in DOMAIN complete.nodes
              /\ e.from \in PodRefs(graph) => e \in edges
  <2>1. PICK r \in users2 : e = Edge(r, c, "claims-storage") /\ e.from = r /\ e.to = c
    BY <1>10
  <2>2. r \in PodRefs(complete) /\ PodRefs(complete) \subseteq DOMAIN complete.nodes
    BY <1>9, GraphsAgree
  <2>3. r \in PodRefs(graph) => e \in edges
    BY <1>9, <1>10, <2>1
  <2>4. QED BY <1>9, <2>1, <2>2, <2>3
<1>13. \A r \in DOMAIN new : r \in DOMAIN new2 /\ NodeRelated(new[r], new2[r])
  BY <1>8, <1>9, AnswersRelated
<1>14. Adds(s, new, edges, issues, new2, edges2, {})
  BY <1>6, <1>7, <1>8, <1>10, <1>11, <1>12, <1>13 DEF Adds
<1>15. StatefulSetRef \notin DOMAIN new /\ ConfigMapRef \notin DOMAIN new
  BY <1>8, RefsDiffer
<1>16. \A p \in Ordinals : \A d \in RefsOf(s) \cap ClaimsUsed(p) :
            PodRef(p) \in PodRefs(graph) => Edge(PodRef(p), d, "claims-storage") \in edges
  BY <1>9, <1>10
<1>17. /\ \A d \in Claims \cap DOMAIN new : ExistenceUnknown(new[d]) \/ Is(new[d], ClaimObject(d))
       /\ \A d \in Claims \cap DOMAIN new2 : ~new2[d].unknown
  <2>1. /\ \A d \in DOMAIN new : d = c /\ new[d] = Answer(ClaimObject(c), ok)
        /\ \A d \in DOMAIN new2 : d = c /\ new2[d] = Answer(ClaimObject(c), TRUE)
    BY <1>8
  <2>2. /\ ExistenceUnknown(Answer(ClaimObject(c), ok)) \/ Is(Answer(ClaimObject(c), ok), ClaimObject(c))
        /\ ~Answer(ClaimObject(c), TRUE).unknown
    BY AnswersRelated
  <2>3. QED BY <2>1, <2>2
<1>18. QED BY <1>2, <1>3, <1>14, <1>15, <1>16, <1>17, ReadKeeps

LEMMA AddSecretKeeps ==
    ASSUME SInv, AddSecret, UNCHANGED <<worldVars, lag, focus>>
    PROVE  SInv'
<1>1. /\ Doing("secret") /\ graph' = WithSecret(graph) /\ complete' = WithSecret(complete)
      /\ UNCHANGED <<failures, fresh, changed>>
  BY DEF AddSecret, AsRead
<1>2. Read("secret") /\ "secret" \in Steps
  BY <1>1, ReadsAre, Types DEF SInv
<1>3. RefsOf("secret") = {SecretRef} /\ SecretRef \notin DOMAIN complete.nodes
  <2>1. Left("secret")
    BY <1>2, PlanStep, Types DEF SInv, Read
  <2>2. QED BY <1>2, <2>1 DEF SInv, Unread, RefsOf
<1>4. SecretRef \notin DOMAIN graph.nodes
  BY <1>3, GraphsAgree
<1> DEFINE users == SecretUsers(graph)
           users2 == SecretUsers(complete)
           new == IfAny(users, One(SecretRef, Answer(NoObject, FALSE)))
           new2 == IfAny(users2, One(SecretRef, Answer(NoObject, FALSE)))
           edges == References(users, SecretRef)
           edges2 == References(users2, SecretRef)
           issues == IF users = {} THEN {} ELSE {Issue("secret", SecretRef, FALSE)}
           issues2 == IF users2 = {} THEN {} ELSE {Issue("secret", SecretRef, FALSE)}
<1>5. Grown(graph, graph', new, edges, issues) /\ Grown(complete, complete', new2, edges2, issues2)
  BY <1>1, <1>3, <1>4, SecretGrows, GraphsAgree
<1>6. /\ users \subseteq users2 /\ users \subseteq DOMAIN graph.nodes /\ users2 \subseteq DOMAIN complete.nodes
      /\ InGraph(graph, PodRef(2)) => users # {}
  BY GraphsAgree DEF SecretUsers, InGraph
<1> HIDE DEF users, users2
<1>7. /\ DOMAIN new = IF users = {} THEN {} ELSE {SecretRef}
      /\ users # {} => new[SecretRef] = Answer(NoObject, FALSE)
      /\ DOMAIN new2 = IF users2 = {} THEN {} ELSE {SecretRef}
      /\ users2 # {} => new2[SecretRef] = Answer(NoObject, FALSE)
  <2>1. /\ DOMAIN new = IF users = {} THEN {} ELSE {SecretRef}
        /\ users # {} => new[SecretRef] = Answer(NoObject, FALSE)
    BY OneNode
  <2>2. /\ DOMAIN new2 = IF users2 = {} THEN {} ELSE {SecretRef}
        /\ users2 # {} => new2[SecretRef] = Answer(NoObject, FALSE)
    BY OneNode
  <2>3. QED BY <2>1, <2>2
<1>8. /\ \A e \in edges : e.from \in users /\ e.to = SecretRef
      /\ \A e \in edges2 : e.from \in users2 /\ e.to = SecretRef /\ e.type # "claims-storage"
      /\ edges \subseteq edges2
  BY <1>6 DEF References, Edge
<1>9. /\ \A i \in issues2 : i.source # "events" /\ i.source # "temporal-integrity"
      /\ InGraph(graph, PodRef(2)) => Issue("secret", SecretRef, FALSE) \in issues
  BY <1>6 DEF Issue
<1> HIDE DEF new, new2, edges, edges2, issues, issues2
<1>10. /\ \A e \in edges : {e.from, e.to} \subseteq DOMAIN graph'.nodes
       /\ \A e \in edges2 : {e.from, e.to} \subseteq DOMAIN complete'.nodes
  <2>1. /\ DOMAIN graph'.nodes = DOMAIN graph.nodes \cup DOMAIN new
        /\ DOMAIN complete'.nodes = DOMAIN complete.nodes \cup DOMAIN new2
    BY <1>5 DEF Grown
  <2>2. ASSUME NEW e \in edges
        PROVE  {e.from, e.to} \subseteq DOMAIN graph'.nodes
    BY <1>6, <1>7, <1>8, <2>1, <2>2
  <2>3. ASSUME NEW e \in edges2
        PROVE  {e.from, e.to} \subseteq DOMAIN complete'.nodes
    BY <1>6, <1>7, <1>8, <2>1, <2>3
  <2>4. QED BY <2>2, <2>3
<1>11. \A r \in DOMAIN new : r \in DOMAIN new2 /\ NodeRelated(new[r], new2[r])
  BY <1>6, <1>7 DEF NodeRelated
<1>12. Adds("secret", new, edges, issues, new2, edges2, issues2)
  BY <1>3, <1>5, <1>7, <1>8, <1>9, <1>10, <1>11 DEF Adds
<1>13. /\ StatefulSetRef \notin DOMAIN new /\ ConfigMapRef \notin DOMAIN new
       /\ Claims \cap DOMAIN new = {} /\ Claims \cap DOMAIN new2 = {}
  BY <1>7, RefsDiffer
<1>14. QED BY <1>1, <1>2, <1>9, <1>12, <1>13, ReadKeeps

LEMMA FinishKeeps ==
    ASSUME SInv, Finish, UNCHANGED <<worldVars, lag, focus>>
    PROVE  SInv'
<1>1. PICK ok \in BOOLEAN : Answered(ok) /\ graph' = WithVerdict(graph, ok)
  BY DEF Finish
<1>2. Doing("finish") /\ complete' = WithVerdict(complete, TRUE) /\ UNCHANGED <<fresh, changed>>
  BY DEF Finish, AsRead
<1>3. Read("finish") /\ "finish" \in Steps
  BY <1>1, <1>2, ReadsAre, Types DEF SInv
<1> DEFINE issue == Issue("temporal-integrity", focus, TRUE)
           issues == IF changed \/ ~ok THEN {issue} ELSE {}
           issues2 == IF changed \/ ~TRUE THEN {issue} ELSE {}
<1>4. Grown(graph, graph', None, {}, issues) /\ Grown(complete, complete', None, {}, issues2)
  <2>1. TRUE \in BOOLEAN
    OBVIOUS
  <2>2. Grown(graph, graph', None, {}, issues)
    BY <1>1, VerdictGrows, GraphsAgree
  <2>3. Grown(complete, complete', None, {}, issues2)
    BY <1>2, <2>1, VerdictGrows, GraphsAgree
  <2>4. QED BY <2>2, <2>3
<1>5. issues2 \subseteq issues /\ \A i \in issues2 : i.source = "temporal-integrity"
  BY DEF Issue
<1>6. DOMAIN None = {}
  BY OneNode
<1> HIDE DEF issues, issues2, issue
<1>7. Adds("finish", None, {}, issues, None, {}, issues2)
  BY <1>4, <1>5, <1>6 DEF Adds
<1>8. QED BY <1>2, <1>3, <1>6, <1>7, ReadKeeps

LEMMA ReadPodsKeeps ==
    ASSUME SInv, ReadPods, UNCHANGED <<worldVars, lag, focus>>
    PROVE  SInv'
<1>1. PICK ok \in BOOLEAN : Answered(ok) /\ graph' = WithPods(graph, ok)
  BY DEF ReadPods
<1>2. /\ Doing("pods") /\ complete' = WithPods(complete, TRUE)
      /\ changed' \in BOOLEAN /\ fresh' \in BOOLEAN
      /\ fresh' => \A p \in Ordinals : Scheduled(p) \/ verdict[p] \in Obstacles(p)
  BY Types DEF ReadPods, SInv
<1>3. Read("pods") /\ "pods" \in Steps
  BY <1>1, <1>2, ReadsAre
<1>4. /\ Left("pods") /\ Left("configMap") /\ Left("own") /\ Left("shared") /\ Left("secret")
      /\ "configMap" \in Steps /\ "own" \in Steps /\ "shared" \in Steps
  <2>1. Left("pods")
    BY <1>3, PlanStep, Types DEF SInv, Read
  <2>2. QED BY <2>1, FirstStepsFirst, Types DEF SInv, Steps
<1>5. /\ \A p \in Ordinals : PodRef(p) \notin DOMAIN complete.nodes
      /\ ConfigMapRef \notin DOMAIN complete.nodes
      /\ Claims \cap DOMAIN complete.nodes = {}
  <2>1. RefsOf("pods") = {PodRef(p) : p \in Ordinals} /\ RefsOf("configMap") = {ConfigMapRef}
        /\ RefsOf("own") = {OwnClaim} /\ RefsOf("shared") = {SharedClaim}
    BY DEF RefsOf
  <2>2. RefsOf("pods") \cap DOMAIN complete.nodes = {} /\ RefsOf("configMap") \cap DOMAIN complete.nodes = {}
        /\ RefsOf("own") \cap DOMAIN complete.nodes = {} /\ RefsOf("shared") \cap DOMAIN complete.nodes = {}
    BY <1>3, <1>4 DEF SInv, Unread
  <2>3. QED BY <2>1, <2>2 DEF Claims
<1>6. /\ \A p \in Ordinals : PodRef(p) \notin DOMAIN graph.nodes
      /\ ConfigMapRef \notin DOMAIN graph.nodes /\ PodRefs(graph) = {}
      /\ InGraph(graph, StatefulSetRef) => InGraph(complete, StatefulSetRef)
  <2>1. \A r \in PodRefs(graph) : \E p \in Ordinals : r = PodRef(p)
    BY GraphsAgree
  <2>2. PodRefs(graph) \subseteq DOMAIN graph.nodes
    BY DEF PodRefs
  <2>3. QED BY <1>5, <2>1, <2>2, GraphsAgree DEF InGraph
<1> DEFINE refs == {PodRef(p) : p \in Reads}
           new == IF ok THEN PodNodes(Reads) ELSE None
           new2 == PodNodes(Reads)
           edges == IF ok /\ InGraph(graph, StatefulSetRef) THEN Owns(refs) ELSE {}
           edges2 == IF InGraph(complete, StatefulSetRef) THEN Owns(refs) ELSE {}
           issues == Said("pod", focus, ok)
<1>7. Grown(graph, graph', new, edges, issues)
  BY <1>1, <1>6, WithPodsGrows, GraphsAgree
<1>8. Grown(complete, complete', new2, edges2, {})
  <2>1. Said("pod", focus, TRUE) = {}
    BY DEF Said
  <2>2. QED BY <1>2, <1>5, <2>1, WithPodsGrows, GraphsAgree
<1>9. /\ DOMAIN new2 = refs
      /\ \A p \in Reads : new2[PodRef(p)] = Answer(PodObject(p), TRUE)
      /\ DOMAIN new = IF ok THEN refs ELSE {}
      /\ ok => new = new2
  <2>1. DOMAIN PodNodes(Reads) = refs
    BY DEF PodNodes
  <2>2. \A p \in Reads : PodNodes(Reads)[PodRef(p)] = Answer(PodObject(p), TRUE)
    BY DEF PodNodes, PodRef
  <2>3. DOMAIN None = {}
    BY OneNode
  <2>4. QED BY <2>1, <2>2, <2>3
<1>10. /\ \A e \in Owns(refs) : e.from = StatefulSetRef /\ e.to \in refs /\ e.type = "owns"
       /\ \A r \in refs : Edge(StatefulSetRef, r, "owns") \in Owns(refs)
  <2> HIDE DEF refs
  <2>1. QED BY DEF Owns, Edge
<1>11. Reads \subseteq Ordinals
  BY DEF Reads, Ordinals
<1>12. refs \subseteq RefsOf("pods")
  <2>1. RefsOf("pods") = {PodRef(p) : p \in Ordinals}
    BY DEF RefsOf
  <2>2. QED BY <1>11, <2>1
<1>13. \A p \in Ordinals : PodRef(p) \in refs => p \in Reads
  BY RefsDiffer
<1>14. StatefulSetRef \notin refs /\ ConfigMapRef \notin refs /\ Claims \cap refs = {}
  BY RefsDiffer
<1>15. /\ edges \subseteq edges2
       /\ \A e \in edges2 : e \in Owns(refs) /\ InGraph(complete, StatefulSetRef)
       /\ \A e \in edges : e \in Owns(refs) /\ InGraph(graph, StatefulSetRef) /\ ok
       /\ ok /\ InGraph(graph, StatefulSetRef) => edges = Owns(refs)
  BY <1>6
<1> HIDE DEF new, new2, edges, edges2, issues, refs
<1>16. /\ \A e \in edges : {e.from, e.to} \subseteq DOMAIN graph'.nodes
       /\ \A e \in edges2 : {e.from, e.to} \subseteq DOMAIN complete'.nodes
  <2>1. /\ DOMAIN graph'.nodes = DOMAIN graph.nodes \cup DOMAIN new
        /\ DOMAIN complete'.nodes = DOMAIN complete.nodes \cup DOMAIN new2
    BY <1>7, <1>8 DEF Grown
  <2>2. QED BY <1>9, <1>10, <1>15, <2>1 DEF InGraph
<1>17. \A e \in edges2 : e.type # "claims-storage"
  BY <1>10, <1>15
<1>18. \A r \in DOMAIN new : r \in DOMAIN new2 /\ NodeRelated(new[r], new2[r])
  BY <1>9 DEF NodeRelated
<1>19. Adds("pods", new, edges, issues, new2, edges2, {})
  BY <1>7, <1>8, <1>9, <1>12, <1>15, <1>16, <1>17, <1>18 DEF Adds
<1>20. /\ WorldInv' /\ OnPlan' /\ Unread'
       /\ WellFormed(graph') /\ WellFormed(complete') /\ Related(graph', complete')
       /\ ~Left("pods")' /\ \A t : t # "pods" => (Left(t)' <=> Left(t))
       /\ DOMAIN new \cap DOMAIN graph.nodes = {}
  BY <1>3, <1>19, AddsKeeps
<1>21. /\ DOMAIN graph'.nodes = DOMAIN graph.nodes \cup DOMAIN new
       /\ DOMAIN complete'.nodes = DOMAIN complete.nodes \cup DOMAIN new2
       /\ graph'.edges = graph.edges \cup edges
       /\ \A r : ObjectOf(graph', r) = IF r \in DOMAIN new THEN new[r].object ELSE ObjectOf(graph, r)
  <2>1. \A r : ObjectOf(graph', r) = IF r \in DOMAIN new THEN new[r].object ELSE ObjectOf(graph, r)
    BY <1>7, <1>20, GrownNodes
  <2>2. QED BY <1>7, <1>8, <2>1 DEF Grown
<1>22. /\ ~InGraph(graph', ConfigMapRef)
       /\ \A c \in Claims : ~InGraph(graph', c) /\ ~InGraph(complete', c)
  BY <1>5, <1>6, <1>9, <1>14, <1>21, GraphsAgree DEF InGraph
<1>23. \A p \in Ordinals : InGraph(graph', PodRef(p)) => p \in Reads /\ ok
  BY <1>6, <1>9, <1>13, <1>21 DEF InGraph
<1>24. ASSUME NEW p \in Ordinals, PodRef(p) \in PodRefs(graph'),
              ObjectOf(graph', StatefulSetRef) # NoObject
       PROVE  Edge(StatefulSetRef, PodRef(p), "owns") \in graph'.edges
  <2>1. InGraph(graph', PodRef(p))
    BY <1>24 DEF PodRefs, InGraph
  <2>2. PodRef(p) \in refs /\ ok
    BY <1>23, <2>1 DEF refs
  <2>3. ObjectOf(graph, StatefulSetRef) # NoObject
    BY <1>9, <1>14, <1>21, <1>24
  <2>4. InGraph(graph, StatefulSetRef)
    BY <2>3 DEF ObjectOf
  <2>5. QED BY <1>10, <1>15, <1>21, <2>2, <2>4
<1>25. Recorded'
  <2>1. Left("own")' /\ Left("shared")' /\ Left("configMap")' /\ Left("secret")'
    BY <1>4, <1>20
  <2>2. QED BY <1>22, <1>24, <2>1 DEF Recorded
<1>26. ASSUME fresh'
       PROVE  UpToDate'
  <2>1. UNCHANGED <<claims, configMap, secret, pods, verdict, available>>
    BY DEF worldVars
  <2>2. \A p : Scheduled(p)' = Scheduled(p) /\ Obstacles(p)' = Obstacles(p) /\ PodObject(p)' = PodObject(p)
    BY SameWorld
  <2>3. ASSUME NEW p \in Ordinals, InGraph(graph', PodRef(p))
        PROVE  ObjectOf(graph', PodRef(p)) = PodObject(p)
    <3>1. p \in Reads /\ ok
      BY <1>23, <2>3
    <3>2. PodRef(p) \in DOMAIN new /\ new[PodRef(p)] = Answer(PodObject(p), TRUE)
      BY <1>9, <3>1 DEF refs
    <3>3. QED BY <1>21, <3>2 DEF Answer
  <2>4. \A p \in Ordinals : Scheduled(p)' \/ verdict'[p] \in Obstacles(p)'
    BY <1>2, <1>26, <2>1, <2>2
  <2>5. \A p \in Ordinals : InGraph(graph', PodRef(p)) => ObjectOf(graph', PodRef(p)) = PodObject(p)'
    BY <2>2, <2>3
  <2>6. QED BY <1>22, <2>4, <2>5 DEF UpToDate
<1>27. QED BY <1>20, <1>25, <1>26 DEF SInv

-----------------------------------------------------------------------------
(* The invariant. *)

LEMMA InitHolds ==
    ASSUME Init
    PROVE  SInv
<1>1. focus \in {StatefulSetRef, PodRef(1)} /\ focus \in Foci /\ plan = Plan(focus)
  BY StartupAssumption DEF Init
<1>2. /\ graph = NewGraph(focus) /\ complete = NewGraph(focus) /\ fresh = FALSE
  BY DEF Init
<1>3. /\ IsGraph(graph) /\ DOMAIN graph.nodes = {} /\ graph.edges = {} /\ graph.issues = {}
      /\ graph.events = {}
  BY <1>2 DEF NewGraph, IsGraph, GraphFields
<1>4. 1 \in 1..7
  OBVIOUS
<1>5. Len(plan) = 7 /\ plan \in Seq(Steps)
  BY <1>1, <1>4, PlanPlaces
<1>6. OnPlan
  <2>1. \A i \in 1..7 : 7 - 7 + i = i
    OBVIOUS
  <2>2. QED BY <1>1, <1>5, <2>1 DEF OnPlan
<1>7. WorldInv
  <2>1. /\ claims \in [Claims -> Phases] /\ pods = [p \in Ordinals |-> "pending"]
        /\ verdict = [p \in Ordinals |-> NoObject]
    BY DEF Init, Phases
  <2>2. lag \in 0..MaxLag /\ failures \in 0..MaxFailures /\ available \in 0..Cardinality(Ordinals)
    BY StartupAssumption, TwoPods DEF Init
  <2>3. plan # <<>>
    BY <1>5, EmptySeq
  <2>4. TypeOK
    BY <1>1, <2>1, <2>2, <2>3 DEF TypeOK, Init, Phases
  <2>5. QED BY <2>1, <2>4 DEF WorldInv, Scheduled
<1>8. WellFormed(graph) /\ WellFormed(complete) /\ complete = graph
  BY <1>2, <1>3 DEF WellFormed
<1>9. Related(graph, complete)
  BY <1>3, <1>8 DEF Related, HasCollectionSourceIssue
<1>10. Recorded
  BY <1>3, <1>8 DEF Recorded, PodRefs, InGraph
<1>11. \A s \in Steps : RefsOf(s) \cap DOMAIN complete.nodes = {}
  BY <1>3, <1>8
<1>12. QED BY <1>2, <1>6, <1>7, <1>8, <1>9, <1>10, <1>11 DEF SInv, Unread

LEMMA InspectionStepKeeps ==
    ASSUME SInv, InspectionStep
    PROVE  SInv'
<1>1. UNCHANGED <<worldVars, lag, focus>>
  BY DEF InspectionStep
<1>2. /\ RefsOf("own") = {OwnClaim} /\ RefsOf("shared") = {SharedClaim}
      /\ OwnClaim \in Claims /\ SharedClaim \in Claims
  BY DEF RefsOf, Claims
<1>3. CASE ReadStatefulSet
  BY <1>1, <1>3, ReadStatefulSetKeeps
<1>4. CASE ReadPods
  BY <1>1, <1>4, ReadPodsKeeps
<1>5. CASE ReadConfigMap
  BY <1>1, <1>5, ReadConfigMapKeeps
<1>6. CASE ReadClaim("own", OwnClaim)
  BY <1>1, <1>2, <1>6, ReadClaimKeeps
<1>7. CASE ReadClaim("shared", SharedClaim)
  BY <1>1, <1>2, <1>7, ReadClaimKeeps
<1>8. CASE AddSecret
  BY <1>1, <1>8, AddSecretKeeps
<1>9. CASE Finish
  BY <1>1, <1>9, FinishKeeps
<1>10. QED BY <1>3, <1>4, <1>5, <1>6, <1>7, <1>8, <1>9 DEF InspectionStep

LEMMA StutterKeeps ==
    ASSUME SInv, UNCHANGED vars
    PROVE  SInv'
<1>1. /\ UNCHANGED <<claims, configMap, secret, pods, verdict, available, lag, failures, focus>>
      /\ UNCHANGED <<plan, changed, fresh, graph, complete>>
  BY DEF vars, worldVars
<1>2. WorldInv'
  BY <1>1 DEF SInv, WorldInv, TypeOK, Scheduled
<1>3. OnPlan' /\ \A s : Left(s)' = Left(s)
  BY <1>1 DEF SInv, OnPlan, Left
<1>4. WellFormed(graph') /\ WellFormed(complete') /\ Related(graph', complete')
  BY <1>1 DEF SInv
<1>5. Recorded'
  BY <1>1, <1>3 DEF SInv, Recorded
<1>6. UpToDate => UpToDate'
  <2>1. UNCHANGED worldVars
    BY <1>1 DEF worldVars
  <2>2. QED BY <1>1, <2>1, SameWorld DEF UpToDate
<1>7. QED BY <1>1, <1>2, <1>3, <1>4, <1>5, <1>6 DEF SInv, Unread, RefsOf

\* Whatever happens while Pods wait and an inspection of them reads on, what the graph
\* lacks for the failed calls is all it lacks, and what a finished step read is recorded.
THEOREM WhatIsReadIsRecorded == Spec => []SInv
<1>1. Init => SInv
  BY InitHolds
<1>2. SInv /\ [Next]_vars => SInv'
  BY WorldStepKeeps, InspectionStepKeeps, StutterKeeps DEF Next
<1>3. QED BY <1>1, <1>2, PTL DEF Spec

\* Every variable keeps its type, and no edge of a finished graph leads nowhere.
THEOREM StartupTypes == Spec => []TypeOK
<1>1. SInv => TypeOK
  BY DEF SInv, WorldInv
<1>2. QED BY <1>1, WhatIsReadIsRecorded, PTL

-----------------------------------------------------------------------------
(* What the rules find in a graph. *)

\* What each rule finds, and of what.
LEMMA FindingsAre ==
    ASSUME NEW g
    PROVE  /\ \A f \in CrashLoopFindings(g) : f.type = "crashloop-backoff" /\ f.resource \in PodRefs(g)
           /\ \A f \in OomKilledFindings(g) :
                f.type \in {"container-oomkilled", "container-sigkill"} /\ f.resource \in PodRefs(g)
           /\ \A f \in PodNotReadyFindings(g) : f.type = "pod-not-ready" /\ f.resource \in PodRefs(g)
           /\ \A f \in ReadinessProbeFailingFindings(g) :
                f.type = "readiness-probe-failing" /\ f.resource \in PodRefs(g)
           /\ \A f \in ReadinessProbePortFindings(g) :
                f.type = "readiness-probe-port-mismatch" /\ f.resource \in PodRefs(g)
           /\ \A f \in NodePressureFindings(g) : f.type = "node-pressure" /\ f.resource.kind = "Node"
           /\ \A f \in PodEvictedFindings(g) : f.type = "pod-evicted" /\ f.resource \in PodRefs(g)
           /\ \A f \in PodUnschedulableFindings(g) :
                f.type = "pod-unschedulable" /\ f.resource \in PodRefs(g)
           /\ \A f \in ImagePullFindings(g) : f.type = "image-pull-failure" /\ f.resource \in PodRefs(g)
           /\ \A f \in MissingConfigRefFindings(g) :
                f.type = "missing-config-reference" /\ f.resource \in PodRefs(g)
           /\ \A f \in StatefulSetUnavailableFindings(g) :
                f.type = "statefulset-unavailable" /\ f.resource \in Held(g, "StatefulSet")
<1>1. \A f \in CrashLoopFindings(g) : f.type = "crashloop-backoff" /\ f.resource \in PodRefs(g)
  BY DEF CrashLoopFindings, FindingOf, FindingAbout
<1>2. \A f \in OomKilledFindings(g) :
        f.type \in {"container-oomkilled", "container-sigkill"} /\ f.resource \in PodRefs(g)
  BY DEF OomKilledFindings, TerminationFinding, FindingOf, FindingAbout
<1>3. \A f \in PodNotReadyFindings(g) : f.type = "pod-not-ready" /\ f.resource \in PodRefs(g)
  BY DEF PodNotReadyFindings, FindingOf, FindingAbout
<1>4. \A f \in ReadinessProbeFailingFindings(g) :
        f.type = "readiness-probe-failing" /\ f.resource \in PodRefs(g)
  BY DEF ReadinessProbeFailingFindings, FindingOf, FindingAbout
<1>5. \A f \in ReadinessProbePortFindings(g) :
        f.type = "readiness-probe-port-mismatch" /\ f.resource \in PodRefs(g)
  BY DEF ReadinessProbePortFindings, FindingOf, FindingAbout
<1>6. \A f \in NodePressureFindings(g) : f.type = "node-pressure" /\ f.resource.kind = "Node"
  BY DEF NodePressureFindings, FindingOf, FindingAbout
<1>7. \A f \in PodEvictedFindings(g) : f.type = "pod-evicted" /\ f.resource \in PodRefs(g)
  BY DEF PodEvictedFindings, FindingOf, FindingAbout
<1>8. \A f \in PodUnschedulableFindings(g) : f.type = "pod-unschedulable" /\ f.resource \in PodRefs(g)
  BY DEF PodUnschedulableFindings, FindingOf, FindingAbout
<1>9. \A f \in ImagePullFindings(g) : f.type = "image-pull-failure" /\ f.resource \in PodRefs(g)
  BY DEF ImagePullFindings, FindingOf, FindingAbout
<1>10. \A f \in MissingConfigRefFindings(g) :
        f.type = "missing-config-reference" /\ f.resource \in PodRefs(g)
  BY DEF MissingConfigRefFindings, FindingAbout
<1>11. \A f \in StatefulSetUnavailableFindings(g) :
        f.type = "statefulset-unavailable" /\ f.resource \in Held(g, "StatefulSet")
  BY DEF StatefulSetUnavailableFindings, FindingOf, FindingAbout
<1>12. QED BY <1>1, <1>2, <1>3, <1>4, <1>5, <1>6, <1>7, <1>8, <1>9, <1>10, <1>11

\* A claim is reported as missing or as Pending.
LEMMA ClaimFindingsAre ==
    ASSUME NEW g, NEW f \in PersistentVolumeClaimFindings(g)
    PROVE  /\ f.resource \in ClaimsInUse(g)
           /\ \/ /\ f = FindingOf("persistent-volume-claim-missing", f.resource, NoSubject, "current")
                 /\ f.type = "persistent-volume-claim-missing"
                 /\ Missing(g.nodes[f.resource])
              \/ /\ f = ClaimPendingFinding(f.resource, ClaimImpact(g, f.resource))
                 /\ f.type = "persistent-volume-claim-pending"
                 /\ f.impact = ClaimImpact(g, f.resource)
                 /\ ObjectOf(g, f.resource) # NoObject /\ ObjectOf(g, f.resource).phase = "Pending"
BY DEF PersistentVolumeClaimFindings, ClaimPendingFinding, FindingOf, FindingAbout

\* Whatever is found is about a Pod, a Node, a StatefulSet or a claim.
LEMMA FindingCases ==
    ASSUME NEW g, NEW f \in PodFindings(g) \cup StartFindings(g)
    PROVE  \/ f \in PersistentVolumeClaimFindings(g)
           \/ /\ f.resource \in PodRefs(g)
              /\ f.type \in {"crashloop-backoff", "container-oomkilled", "container-sigkill",
                    "pod-not-ready", "readiness-probe-failing", "readiness-probe-port-mismatch",
                    "pod-evicted", "pod-unschedulable", "image-pull-failure",
                    "missing-config-reference"}
           \/ f.type = "node-pressure" /\ f.resource.kind = "Node"
           \/ f.type = "statefulset-unavailable" /\ f.resource \in Held(g, "StatefulSet")
BY FindingsAre DEF PodFindings, StartFindings

\* Which rule a finding is from shows in its type.
LEMMA FindingsByType ==
    ASSUME NEW g, NEW f \in PodFindings(g) \cup StartFindings(g)
    PROVE  /\ f.type \in {"persistent-volume-claim-missing", "persistent-volume-claim-pending"} <=>
                f \in PersistentVolumeClaimFindings(g)
           /\ f.type = "pod-unschedulable" => f \in PodUnschedulableFindings(g)
           /\ f.type = "pod-not-ready" => f \in PodNotReadyFindings(g)
           /\ f.type = "statefulset-unavailable" => f \in StatefulSetUnavailableFindings(g)
BY FindingsAre, ClaimFindingsAre DEF PodFindings, StartFindings

\* A Pending claim is reported by one rule only, with the impact that rule gives it.
LEMMA PendingFindings ==
    ASSUME NEW g, NEW f \in PodFindings(g) \cup StartFindings(g),
           f.type = "persistent-volume-claim-pending"
    PROVE  f = ClaimPendingFinding(f.resource, ClaimImpact(g, f.resource))
BY FindingsByType, ClaimFindingsAre

\* So is a Pod that cannot be scheduled.
LEMMA UnschedulableFindings ==
    ASSUME NEW g, NEW f \in PodFindings(g) \cup StartFindings(g), f.type = "pod-unschedulable"
    PROVE  f.resource \in PodRefs(g)
BY FindingsByType, FindingsAre

\* The relation looks at the finding's resource and type, and at the Pod, only.
LEMMA BlocksByResource ==
    ASSUME NEW g, NEW c, NEW d, NEW e, NEW u,
           c.resource = d.resource, c.type = d.type, e.resource = u.resource
    PROVE  StorageClaimBlocksPod(g, c, e) <=> StorageClaimBlocksPod(g, d, u)
BY DEF StorageClaimBlocksPod

\* A claim that blocks a Pod explains a finding of another rule.
LEMMA BlockerExplains ==
    ASSUME NEW g, NEW f \in PodFindings(g) \cup StartFindings(g),
           f.type = "persistent-volume-claim-pending", ClaimBlocksAnyPod(g, f.resource)
    PROVE  Causes(Correlate(g, PodFindings(g) \cup StartFindings(g)), f) # {}
<1>1. PICK p \in PodRefs(g) :
        StorageClaimBlocksPod(g, ClaimPendingFinding(f.resource, "risk"),
            FindingOf("pod-unschedulable", p, NoSubject, "current"))
  BY DEF ClaimBlocksAnyPod
<1> DEFINE u == FindingOf("pod-unschedulable", p, NoSubject, "current")
<1>2. ObjectOf(g, p).phase = "Pending" /\ ObjectOf(g, p).unschedulable # NoObject
  BY <1>1 DEF StorageClaimBlocksPod, NamesStorageConstraint, FindingOf, FindingAbout
<1>3. u \in PodFindings(g) \cup StartFindings(g)
  BY <1>2 DEF StartFindings, PodUnschedulableFindings
<1>4. u.type = "pod-unschedulable" /\ u.resource = p
  BY DEF FindingOf, FindingAbout
<1>5. StorageClaimBlocksPod(g, f, u)
  BY <1>1, BlocksByResource DEF ClaimPendingFinding, FindingOf, FindingAbout
<1>6. Explains(g, f, u)
  BY <1>4, <1>5 DEF Explains, StorageMechanisms
<1> HIDE DEF u
<1>7. <<f, u>> \in Correlate(g, PodFindings(g) \cup StartFindings(g))
  BY <1>3, <1>4, <1>6 DEF Correlate
<1>8. QED BY <1>7 DEF Causes

\* And a finding explained by a Pending claim is about a Pod it blocks.
LEMMA ExplainedIsBlocked ==
    ASSUME NEW g, NEW f, f.type = "persistent-volume-claim-pending",
           Causes(Correlate(g, PodFindings(g) \cup StartFindings(g)), f) # {}
    PROVE  ClaimBlocksAnyPod(g, f.resource)
<1>1. PICK link \in Correlate(g, PodFindings(g) \cup StartFindings(g)) : link[1] = f
  BY DEF Causes
<1>2. /\ link[2] \in PodFindings(g) \cup StartFindings(g)
      /\ Explains(g, f, link[2])
  BY <1>1 DEF Correlate
<1>3. link[2].type = "pod-unschedulable" /\ StorageClaimBlocksPod(g, f, link[2])
  BY <1>2 DEF Explains, SamePodMechanisms, SameResourceMechanisms, TerminationMechanisms,
      StorageMechanisms
<1>4. link[2].resource \in PodRefs(g)
  BY <1>2, <1>3, UnschedulableFindings
<1>5. StorageClaimBlocksPod(g, ClaimPendingFinding(f.resource, "risk"),
        FindingOf("pod-unschedulable", link[2].resource, NoSubject, "current"))
  BY <1>3, BlocksByResource DEF ClaimPendingFinding, FindingOf, FindingAbout
<1>6. QED BY <1>4, <1>5 DEF ClaimBlocksAnyPod

\* A Pending claim has the impact of an outage exactly if it blocks a Pod.
LEMMA ImpactIsBlocking ==
    ASSUME NEW g, NEW f \in PodFindings(g) \cup StartFindings(g),
           f.type = "persistent-volume-claim-pending"
    PROVE  f.impact = "current" <=> ClaimBlocksAnyPod(g, f.resource)
<1>1. f.impact = ClaimImpact(g, f.resource)
  BY PendingFindings DEF ClaimPendingFinding, FindingOf, FindingAbout
<1>2. QED BY <1>1 DEF ClaimImpact

\* The two answers agree, for every graph.
LEMMA AnswersAgree ==
    ASSUME NEW g, NEW f \in PodFindings(g) \cup StartFindings(g),
           f.type = "persistent-volume-claim-pending"
    PROVE  f.impact = "current"
            <=> Causes(Correlate(g, PodFindings(g) \cup StartFindings(g)), f) # {}
BY ImpactIsBlocking, BlockerExplains, ExplainedIsBlocked

\* In every inspection, whatever was read and whatever failed, a Pending claim is shown
\* as a current problem exactly if it is shown to explain something
\* (persistentVolumeClaimRule, storageClaimBlocksPod).
THEOREM PendingImpactAgrees == Spec => []PendingImpactMatchesLink
<1>1. PendingImpactMatchesLink
  <2> SUFFICES ASSUME NEW f \in Findings(graph), f.type = "persistent-volume-claim-pending"
               PROVE  f.impact = "current" <=> Causes(Links(graph), f) # {}
    BY DEF PendingImpactMatchesLink
  <2>1. Findings(graph) = PodFindings(graph) \cup StartFindings(graph)
    BY DEF Findings
  <2>2. Links(graph) = Correlate(graph, PodFindings(graph) \cup StartFindings(graph))
    BY <2>1 DEF Links
  <2>3. QED BY <2>1, <2>2, AnswersAgree
<1>2. QED BY <1>1, PTL

-----------------------------------------------------------------------------
(* What the inspection may conclude. *)

\* What is found when the inspection is over.
LEMMA Found ==
    ASSUME SInv, NEW f \in Findings(graph)
    PROVE  /\ f \in PodFindings(graph) \cup StartFindings(graph)
           /\ Findings(graph) = PodFindings(graph) \cup StartFindings(graph)
           /\ Links(graph) = Correlate(graph, Findings(graph))
           /\ \A s : ~Left(s)
<1>1. plan = <<>> /\ Findings(graph) = PodFindings(graph) \cup StartFindings(graph)
  BY DEF Findings
<1>2. \A s : ~Left(s)
  BY <1>1 DEF Left
<1>3. QED BY <1>1, <1>2 DEF Links

\* A Pod in an up to date graph is as it is.
LEMMA PodIsUpToDate ==
    ASSUME SInv, fresh, NEW r \in PodRefs(graph)
    PROVE  \E p \in Ordinals :
            /\ r = PodRef(p) /\ ObjectOf(graph, r) = PodObject(p)
            /\ verdict[p] # NoObject => ~Scheduled(p) /\ verdict[p] \in Obstacles(p)
            /\ ObjectOf(graph, r).unschedulable = verdict[p]
<1>1. PICK p \in Ordinals : r = PodRef(p)
  BY GraphsAgree
<1>2. InGraph(graph, PodRef(p))
  BY <1>1 DEF PodRefs, InGraph
<1>3. ObjectOf(graph, r) = PodObject(p) /\ (Scheduled(p) \/ verdict[p] \in Obstacles(p))
  BY <1>1, <1>2 DEF SInv, UpToDate
<1>4. Scheduled(p) => verdict[p] = NoObject
  BY DEF SInv, WorldInv
<1>5. PodObject(p).unschedulable = verdict[p]
  BY DEF PodObject
<1>6. QED BY <1>1, <1>3, <1>4, <1>5

\* The claims of a Pod in a finished graph are those it uses.
LEMMA ClaimsAreUsed ==
    ASSUME SInv, \A s : ~Left(s), NEW p \in Ordinals, PodRef(p) \in PodRefs(graph)
    PROVE  /\ ClaimsOf(graph, PodRef(p)) = ClaimsUsed(p)
           /\ \A c \in ClaimsUsed(p) : /\ HasEdge(graph, PodRef(p), c, "claims-storage")
                                       /\ InGraph(graph, c)
<1>1. ASSUME NEW c \in ClaimsUsed(p)
      PROVE  Edge(PodRef(p), c, "claims-storage") \in graph.edges
  <2>1. c = OwnClaim \/ c = SharedClaim
    BY DEF ClaimsUsed, Claims
  <2>2. QED BY <2>1 DEF SInv, Recorded
<1>2. \A c : /\ Edge(PodRef(p), c, "claims-storage").from = PodRef(p)
             /\ Edge(PodRef(p), c, "claims-storage").to = c
             /\ Edge(PodRef(p), c, "claims-storage").type = "claims-storage"
  BY DEF Edge
<1>3. ClaimsUsed(p) \subseteq ClaimsOf(graph, PodRef(p))
  BY <1>1, <1>2 DEF ClaimsOf
<1>4. ASSUME NEW c \in ClaimsOf(graph, PodRef(p))
      PROVE  c \in ClaimsUsed(p)
  <2>1. PICK e \in graph.edges : e.from = PodRef(p) /\ e.type = "claims-storage" /\ c = e.to
    BY <1>4 DEF ClaimsOf
  <2>2. PICK q \in Ordinals : e.from = PodRef(q) /\ e.to \in ClaimsUsed(q)
    BY <2>1 DEF SInv, WellFormed
  <2>3. QED BY <2>1, <2>2, RefsDiffer
<1>5. \A c \in ClaimsUsed(p) : HasEdge(graph, PodRef(p), c, "claims-storage") /\ InGraph(graph, c)
  <2>1. \A e \in graph.edges : {e.from, e.to} \subseteq DOMAIN graph.nodes
    BY DEF SInv, WellFormed
  <2>2. QED BY <1>1, <1>2, <2>1 DEF HasEdge, InGraph
<1>6. QED BY <1>3, <1>4, <1>5

\* A claim that exists can be told from nothing.
LEMMA ClaimObjects ==
    ASSUME SInv, NEW c \in Claims
    PROVE  /\ claims[c] = "absent" => ClaimObject(c) = NoObject
           /\ claims[c] # "absent" => ClaimObject(c) # NoObject /\ ClaimObject(c).phase = claims[c]
<1>1. claims[c] \in Phases
  BY Types DEF SInv
<1>2. ASSUME claims[c] # "absent"
      PROVE  ClaimObject(c) = [ref |-> c, phase |-> claims[c]] /\ ClaimObject(c) \in ClaimState
  <2>1. ClaimObject(c) = [ref |-> c, phase |-> claims[c]]
    BY <1>2 DEF ClaimObject
  <2>2. claims[c] \in {"Pending", "Bound"}
    BY <1>1, <1>2 DEF Phases
  <2>3. QED BY <2>1, <2>2 DEF ClaimState
<1>3. NoObject \notin ClaimState
  BY StartupAssumption
<1>4. QED BY <1>2, <1>3 DEF ClaimObject

LEMMA ClaimsUsedAreClaims ==
    /\ \A p : ClaimsUsed(p) \subseteq Claims /\ SharedClaim \in ClaimsUsed(p)
    /\ \A c \in Claims : c \notin Delayed <=> c = SharedClaim
BY RefsDiffer DEF ClaimsUsed, Claims, Delayed

LEMMA DelayedBindingHolds ==
    ASSUME SInv
    PROVE  DelayedBindingIsNoOutage
<1> SUFFICES ASSUME fresh, NEW f \in Findings(graph), f.resource \in Delayed, f.impact = "current"
             PROVE  ClaimObject(f.resource) = NoObject
  BY DEF DelayedBindingIsNoOutage
<1>1. /\ f \in PodFindings(graph) \cup StartFindings(graph) /\ \A s : ~Left(s)
  BY Found
<1>2. f.resource = OwnClaim /\ OwnClaim \in Claims /\ OwnClaim.kind = "PersistentVolumeClaim"
  BY RefsDiffer DEF Delayed, Claims
<1>3. f \in PersistentVolumeClaimFindings(graph)
  <2>1. f.resource \notin PodRefs(graph)
    BY <1>2 DEF PodRefs
  <2>2. f.resource \notin Held(graph, "StatefulSet")
    BY <1>2 DEF Held
  <2>3. QED BY <1>1, <1>2, <2>1, <2>2, FindingCases
<1>4. InGraph(graph, OwnClaim)
  BY <1>2, <1>3, ClaimFindingsAre DEF ClaimsInUse, InGraph
<1>5. ExistenceUnknown(graph.nodes[OwnClaim]) \/ Is(graph.nodes[OwnClaim], ClaimObject(OwnClaim))
  BY <1>2, <1>4 DEF SInv, UpToDate
<1>6. CASE Missing(graph.nodes[OwnClaim])
  BY <1>2, <1>5, <1>6 DEF Missing, ExistenceUnknown, Is
<1>7. CASE f.type = "persistent-volume-claim-pending"
  <2>1. ClaimBlocksAnyPod(graph, OwnClaim)
    BY <1>1, <1>2, <1>7, ImpactIsBlocking
  <2> DEFINE c == ClaimPendingFinding(OwnClaim, "risk")
             u(r) == FindingOf("pod-unschedulable", r, NoSubject, "current")
  <2>2. PICK r \in PodRefs(graph) : StorageClaimBlocksPod(graph, c, u(r))
    BY <2>1 DEF ClaimBlocksAnyPod
  <2>3. c.resource = OwnClaim /\ c.type = "persistent-volume-claim-pending" /\ u(r).resource = r
    BY DEF ClaimPendingFinding, FindingOf, FindingAbout
  <2> HIDE DEF c, u
  <2>4. /\ UnresolvedClaims(graph, r) = {OwnClaim}
        /\ NamesStorageConstraint(graph, r, OwnClaim, "persistent-volume-claim-pending")
    BY <2>2, <2>3 DEF StorageClaimBlocksPod
  <2>5. /\ ObjectOf(graph, r).unschedulable # NoObject
        /\ ObjectOf(graph, r).unschedulable.says \in {"unbound immediate", "unbound"}
    BY <2>4 DEF NamesStorageConstraint
  <2>6. PICK p \in Ordinals : /\ r = PodRef(p) /\ verdict[p] \in Obstacles(p)
                              /\ verdict[p].says \in {"unbound immediate", "unbound"}
    BY <2>5, PodIsUpToDate
  <2>7. \E d \in ClaimsUsed(p) \ Delayed : claims[d] = "Pending"
    <3>1. \A n : /\ Says("not found", n).says = "not found" /\ Says("other", n).says = "other"
      BY DEF Says
    <3> DEFINE In(phase) == {d \in ClaimsUsed(p) : claims[d] = phase}
    <3>2. Obstacles(p) =
            IF In("absent") # {} THEN {Says("not found", {d}) : d \in In("absent")}
            ELSE IF In("Pending") \ Delayed # {} THEN {Says("unbound immediate", {})}
            ELSE {Says("other", {})}
      BY DEF Obstacles
    <3> HIDE DEF In
    <3>3. In("absent") = {}
      BY <2>6, <3>1, <3>2
    <3>4. In("Pending") \ Delayed # {}
      BY <2>6, <3>1, <3>2, <3>3
    <3>5. QED BY <3>4 DEF In
  <2>8. claims[SharedClaim] = "Pending" /\ SharedClaim \in ClaimsUsed(p) /\ SharedClaim \in Claims
    BY <2>7, ClaimsUsedAreClaims
  <2>9. /\ SharedClaim \in ClaimsOf(graph, r) /\ InGraph(graph, SharedClaim)
    BY <1>1, <2>6, <2>8, ClaimsAreUsed
  <2>10. ObjectOf(graph, SharedClaim) = NoObject \/ ObjectOf(graph, SharedClaim).phase = "Pending"
    <3>1. \/ ExistenceUnknown(graph.nodes[SharedClaim])
          \/ Is(graph.nodes[SharedClaim], ClaimObject(SharedClaim))
      BY <2>8, <2>9 DEF SInv, UpToDate
    <3>2. ClaimObject(SharedClaim).phase = "Pending"
      BY <2>8, ClaimObjects
    <3>3. QED BY <2>9, <3>1, <3>2 DEF ObjectOf, ExistenceUnknown, Is
  <2>11. SharedClaim \in UnresolvedClaims(graph, r)
    BY <2>9, <2>10 DEF UnresolvedClaims
  <2>12. QED BY <2>4, <2>11, RefsDiffer
<1>8. QED BY <1>2, <1>3, <1>6, <1>7, ClaimFindingsAre

LEMMA ConfigErrorHolds ==
    ASSUME SInv
    PROVE  ConfigErrorIsExplained
<1> SUFFICES ASSUME fresh, NEW e \in Findings(graph), e.type = "pod-not-ready",
                    ~(\E p \in Ordinals : e.resource = PodRef(p) /\ Configured(p))
             PROVE  \/ \E f \in CausedBy(Links(graph), e) : f.type = "missing-config-reference"
                    \/ \E use \in ConfigRefs(ObjectOf(graph, e.resource)) :
                        \E i \in graph.issues : i.resource = use.ref
  BY DEF ConfigErrorIsExplained
<1>1. /\ e \in PodFindings(graph) \cup StartFindings(graph) /\ \A s : ~Left(s)
      /\ Findings(graph) = PodFindings(graph) \cup StartFindings(graph)
      /\ Links(graph) = Correlate(graph, Findings(graph))
  BY Found
<1>2. e.resource \in PodRefs(graph)
  BY <1>1, FindingsByType, FindingsAre
<1>3. PICK p \in Ordinals : e.resource = PodRef(p) /\ ObjectOf(graph, e.resource) = PodObject(p)
  BY <1>2, PodIsUpToDate
<1> DEFINE ref == IF p = 1 THEN ConfigMapRef ELSE SecretRef
           use == [ref |-> ref, container |-> "app"]
<1>4. use \in ConfigRefs(PodObject(p)) /\ use.ref = ref /\ use.container = "app"
  <2>1. PodObject(p).env = {use}
    BY DEF PodObject
  <2>2. QED BY <2>1 DEF ConfigRefs
<1>5. ~Configured(p) /\ p \in {1, 2}
  BY <1>3 DEF Ordinals
<1>6. \A source : LET i == Issue(source, ref, FALSE) IN i.resource = ref
  BY DEF Issue
<1> HIDE DEF ref, use
<1>7. CASE p = 2
  <2>1. ref = SecretRef /\ InGraph(graph, PodRef(2))
    BY <1>2, <1>3, <1>7 DEF ref, PodRefs, InGraph
  <2>2. Issue("secret", ref, FALSE) \in graph.issues
    BY <1>1, <2>1 DEF SInv, Recorded
  <2>3. QED BY <1>3, <1>4, <1>6, <2>2
<1>8. CASE p = 1
  <2>1. ref = ConfigMapRef /\ ~configMap
    BY <1>5, <1>8 DEF ref, Configured
  <2>2. InGraph(graph, ConfigMapRef)
    BY <1>1, <1>2, <1>3 DEF SInv, Recorded
  <2>3. \/ ExistenceUnknown(graph.nodes[ConfigMapRef])
        \/ Is(graph.nodes[ConfigMapRef], ConfigMapObject)
    BY <2>2 DEF SInv, UpToDate
  <2>4. CASE ExistenceUnknown(graph.nodes[ConfigMapRef])
    <3>1. Issue("configmap", ref, FALSE) \in graph.issues
      BY <2>1, <2>2, <2>4 DEF SInv, Recorded, ExistenceUnknown
    <3>2. QED BY <1>3, <1>4, <1>6, <3>1
  <2>5. CASE Is(graph.nodes[ConfigMapRef], ConfigMapObject)
    <3>1. ConfigMapObject = NoObject
      BY <2>1 DEF ConfigMapObject
    <3>2. Missing(graph.nodes[ConfigMapRef])
      BY <2>5, <3>1 DEF Is, Missing
    <3> DEFINE f == FindingAbout("missing-config-reference", e.resource, "app", ref, "current")
    <3>3. f \in MissingConfigRefFindings(graph)
      BY <1>2, <1>3, <1>4, <2>1, <2>2, <3>2 DEF MissingConfigRefFindings
    <3>4. f.type = "missing-config-reference" /\ f.resource = e.resource
      BY DEF FindingAbout
    <3>5. f \in Findings(graph)
      BY <1>1, <3>3 DEF StartFindings
    <3> HIDE DEF f
    <3>6. Explains(graph, f, e)
      BY <3>4 DEF Explains, SameResourceMechanisms, SameResource
    <3>7. <<f, e>> \in Links(graph)
      BY <1>1, <3>4, <3>5, <3>6 DEF Correlate
    <3>8. QED BY <3>4, <3>7 DEF CausedBy
  <2>6. QED BY <2>3, <2>4, <2>5
<1>9. QED BY <1>5, <1>7, <1>8

\* One claim alone keeps a Pod waiting.
LEMMA SoleObstacle ==
    ASSUME SInv, fresh, graph = complete, NEW u \in Findings(graph), u.type = "pod-unschedulable",
           NEW c \in ClaimsOf(graph, u.resource),
           claims[c] = "absent" \/ (claims[c] = "Pending" /\ c \notin Delayed),
           \A d \in ClaimsOf(graph, u.resource) \ {c} : claims[d] = "Bound"
    PROVE  \E f \in RootCauses(Links(graph), Findings(graph)) :
                f.resource = c /\ <<f, u>> \in Links(graph)
<1>1. /\ u \in PodFindings(graph) \cup StartFindings(graph) /\ \A s : ~Left(s)
      /\ Findings(graph) = PodFindings(graph) \cup StartFindings(graph)
      /\ Links(graph) = Correlate(graph, Findings(graph))
  BY Found
<1>2. /\ u.resource \in PodRefs(graph) /\ ObjectOf(graph, u.resource).phase = "Pending"
      /\ ObjectOf(graph, u.resource).unschedulable # NoObject
  BY <1>1, FindingsByType DEF PodUnschedulableFindings, FindingOf, FindingAbout
<1>3. PICK p \in Ordinals :
        /\ u.resource = PodRef(p) /\ verdict[p] \in Obstacles(p)
        /\ ObjectOf(graph, u.resource).unschedulable = verdict[p]
  BY <1>2, PodIsUpToDate
<1>4. /\ ClaimsOf(graph, PodRef(p)) = ClaimsUsed(p)
      /\ \A d \in ClaimsUsed(p) : HasEdge(graph, PodRef(p), d, "claims-storage") /\ InGraph(graph, d)
  BY <1>1, <1>2, <1>3, ClaimsAreUsed
<1>5. c \in ClaimsUsed(p) /\ \A d \in ClaimsUsed(p) : d \in Claims
  BY <1>3, <1>4, ClaimsUsedAreClaims
<1>6. \A d \in ClaimsUsed(p) \ {c} : claims[d] = "Bound"
  BY <1>3, <1>4
\* What is known of the claims.
<1>7. \A d \in ClaimsUsed(p) : Is(graph.nodes[d], ClaimObject(d)) /\ ObjectOf(graph, d) = ClaimObject(d)
  <2>1. \A d \in ClaimsUsed(p) : ~graph.nodes[d].unknown
    BY <1>4, <1>5 DEF SInv, Recorded
  <2>2. \A d \in ClaimsUsed(p) : ExistenceUnknown(graph.nodes[d]) \/ Is(graph.nodes[d], ClaimObject(d))
    BY <1>4, <1>5 DEF SInv, UpToDate
  <2>3. QED BY <1>4, <2>1, <2>2 DEF ExistenceUnknown, Is, ObjectOf
<1>8. UnresolvedClaims(graph, PodRef(p)) = {c}
  <2>1. ASSUME NEW d \in ClaimsUsed(p) \ {c}
        PROVE  ObjectOf(graph, d) # NoObject /\ ObjectOf(graph, d).phase # "Pending"
    BY <1>5, <1>6, <1>7, ClaimObjects
  <2>2. ObjectOf(graph, c) = NoObject \/ ObjectOf(graph, c).phase = "Pending"
    BY <1>5, <1>7, ClaimObjects
  <2>3. QED BY <1>4, <1>5, <2>1, <2>2 DEF UnresolvedClaims
\* What the scheduler says of it.
<1>9. /\ claims[c] = "absent" => verdict[p] = Says("not found", {c})
      /\ claims[c] = "Pending" => verdict[p] = Says("unbound immediate", {})
  <2> DEFINE In(phase) == {d \in ClaimsUsed(p) : claims[d] = phase}
  <2>1. Obstacles(p) =
          IF In("absent") # {} THEN {Says("not found", {d}) : d \in In("absent")}
          ELSE IF In("Pending") \ Delayed # {} THEN {Says("unbound immediate", {})}
          ELSE {Says("other", {})}
    BY DEF Obstacles
  <2>2. claims[c] = "absent" => In("absent") = {c}
    BY <1>5, <1>6
  <2>3. claims[c] = "Pending" => In("absent") = {} /\ c \in In("Pending") \ Delayed
    BY <1>5, <1>6
  <2> HIDE DEF In
  <2>4. QED BY <1>3, <2>1, <2>2, <2>3
\* Its finding.
<1>10. c \in ClaimsInUse(graph)
  <2>1. c.kind = "PersistentVolumeClaim"
    BY <1>5, RefsDiffer
  <2>2. QED BY <1>2, <1>3, <1>4, <1>5, <2>1 DEF ClaimsInUse, InGraph
<1>11. PICK f \in PersistentVolumeClaimFindings(graph) :
        /\ f.resource = c
        /\ f.type = IF claims[c] = "absent" THEN "persistent-volume-claim-missing"
                    ELSE "persistent-volume-claim-pending"
  <2>1. CASE claims[c] = "absent"
    <3> DEFINE f == FindingOf("persistent-volume-claim-missing", c, NoSubject, "current")
    <3>1. Missing(graph.nodes[c])
      BY <1>5, <1>7, <2>1, ClaimObjects DEF Missing, Is
    <3>2. f \in PersistentVolumeClaimFindings(graph)
      BY <1>10, <3>1 DEF PersistentVolumeClaimFindings
    <3>3. f.resource = c /\ f.type = "persistent-volume-claim-missing"
      BY DEF FindingOf, FindingAbout
    <3>4. QED BY <2>1, <3>2, <3>3
  <2>2. CASE claims[c] = "Pending"
    <3> DEFINE f == ClaimPendingFinding(c, ClaimImpact(graph, c))
    <3>1. ObjectOf(graph, c) # NoObject /\ ObjectOf(graph, c).phase = "Pending"
      BY <1>5, <1>7, <2>2, ClaimObjects
    <3>2. f \in PersistentVolumeClaimFindings(graph)
      BY <1>10, <3>1 DEF PersistentVolumeClaimFindings
    <3>3. f.resource = c /\ f.type = "persistent-volume-claim-pending"
      BY DEF ClaimPendingFinding, FindingOf, FindingAbout
    <3>4. QED BY <2>2, <3>2, <3>3
  <2>3. QED BY <2>1, <2>2
<1>12. NamesStorageConstraint(graph, PodRef(p), c, f.type)
  <2>1. /\ Says("not found", {c}).says = "not found" /\ Says("not found", {c}).names = {c}
        /\ Says("unbound immediate", {}).says = "unbound immediate"
    BY DEF Says
  <2>2. ObjectOf(graph, PodRef(p)) # NoObject
    BY <1>2, <1>3 DEF PodRefs
  <2>3. CASE claims[c] = "absent"
    BY <1>2, <1>3, <1>9, <1>11, <2>1, <2>2, <2>3 DEF NamesStorageConstraint
  <2>4. CASE claims[c] = "Pending"
    BY <1>2, <1>3, <1>9, <1>11, <2>1, <2>2, <2>4 DEF NamesStorageConstraint
  <2>5. QED BY <2>3, <2>4
<1>13. StorageClaimBlocksPod(graph, f, u)
  BY <1>3, <1>4, <1>5, <1>8, <1>11, <1>12 DEF StorageClaimBlocksPod
<1>14. f \in Findings(graph) /\ f.type # u.type
  BY <1>1, <1>11 DEF StartFindings
<1>15. <<f, u>> \in Links(graph)
  <2>1. Explains(graph, f, u)
    BY <1>11, <1>13 DEF Explains, StorageMechanisms
  <2>2. QED BY <1>1, <1>14, <2>1 DEF Correlate
<1>16. CausedBy(Links(graph), f) = {}
  <2> SUFFICES ASSUME NEW link \in Links(graph), link[2] = f
               PROVE  FALSE
    BY DEF CausedBy
  <2>1. Explains(graph, link[1], f)
    BY <1>1 DEF Correlate
  <2>2. QED BY <1>11, <2>1 DEF Explains, SamePodMechanisms, SameResourceMechanisms,
                              TerminationMechanisms, StorageMechanisms
<1>17. Causes(Links(graph), f) # {}
  BY <1>15 DEF Causes
<1>18. QED BY <1>11, <1>14, <1>15, <1>16, <1>17 DEF RootCauses, IsRootCandidate

LEMMA SoleObstacleHolds ==
    ASSUME SInv
    PROVE  SoleObstacleIsRoot
<1> DEFINE notReady(r) == FindingOf("pod-not-ready", r, NoSubject, "current")
<1> SUFFICES ASSUME fresh, graph = complete, NEW u \in Findings(graph),
                    NEW c \in ClaimsOf(graph, u.resource), u.type = "pod-unschedulable",
                    claims[c] = "absent" \/ (claims[c] = "Pending" /\ c \notin Delayed),
                    \A d \in ClaimsOf(graph, u.resource) \ {c} : claims[d] = "Bound"
             PROVE  /\ \E f \in RootCauses(Links(graph), Findings(graph)) :
                            f.resource = c /\ <<f, u>> \in Links(graph)
                    /\ <<u, notReady(u.resource)>> \in Links(graph)
                    /\ \A e \in Findings(graph) :
                        e.type = "statefulset-unavailable" =>
                            <<notReady(u.resource), e>> \in Links(graph)
  BY DEF SoleObstacleIsRoot
<1>1. /\ u \in PodFindings(graph) \cup StartFindings(graph)
      /\ Findings(graph) = PodFindings(graph) \cup StartFindings(graph)
      /\ Links(graph) = Correlate(graph, Findings(graph))
  BY Found
<1>2. /\ u.resource \in PodRefs(graph) /\ ObjectOf(graph, u.resource).phase = "Pending"
      /\ ObjectOf(graph, u.resource).unschedulable # NoObject
  BY <1>1, FindingsByType DEF PodUnschedulableFindings, FindingOf, FindingAbout
<1>3. PICK p \in Ordinals :
        /\ u.resource = PodRef(p) /\ ObjectOf(graph, u.resource) = PodObject(p) /\ ~Scheduled(p)
  BY <1>2, PodIsUpToDate
<1> DEFINE n == notReady(u.resource)
<1>4. n.type = "pod-not-ready" /\ n.resource = u.resource
  BY DEF FindingOf, FindingAbout
<1>5. n \in Findings(graph)
  <2>1. ~ObjectOf(graph, u.resource).ready
    <3>1. PodObject(p).ready = (pods[p] = "running")
      BY DEF PodObject
    <3>2. pods[p] = "pending"
      BY <1>3 DEF Scheduled
    <3>3. QED BY <1>3, <3>1, <3>2
  <2>2. n \in PodNotReadyFindings(graph)
    BY <1>2, <2>1 DEF PodNotReadyFindings
  <2>3. QED BY <1>1, <2>2 DEF PodFindings
<1> HIDE DEF n
<1>6. <<u, n>> \in Links(graph)
  <2>1. Explains(graph, u, n)
    BY <1>4 DEF Explains, SameResourceMechanisms, SameResource
  <2>2. QED BY <1>1, <1>4, <1>5, <2>1 DEF Correlate
<1>7. ASSUME NEW e \in Findings(graph), e.type = "statefulset-unavailable"
      PROVE  <<n, e>> \in Links(graph)
  <2>1. e.resource \in Held(graph, "StatefulSet")
    BY <1>1, <1>7, FindingsByType, FindingsAre
  <2>2. e.resource = StatefulSetRef
    <3>1. e.resource.kind = "StatefulSet" /\ e.resource \in UNION {RefsOf(s) : s \in Steps}
      BY <2>1 DEF Held, SInv, WellFormed
    <3>2. \/ e.resource \in {StatefulSetRef, ConfigMapRef, SecretRef} \cup Claims
          \/ \E q \in Ordinals : e.resource = PodRef(q)
      BY <3>1, RefsOfDiffer
    <3>3. QED BY <3>1, <3>2, RefsDiffer
  <2>3. ObjectOf(graph, StatefulSetRef) # NoObject
    BY <2>1, <2>2 DEF Held
  <2>4. HasEdge(graph, e.resource, n.resource, "owns")
    BY <1>2, <1>3, <1>4, <2>2, <2>3 DEF SInv, Recorded, HasEdge
  <2>5. Explains(graph, n, e)
    BY <1>4, <1>7, <2>4 DEF Explains, OwnedByStatefulSet
  <2>6. QED BY <1>1, <1>4, <1>5, <1>7, <2>5 DEF Correlate
<1>8. QED BY <1>6, <1>7, SoleObstacle DEF n

-----------------------------------------------------------------------------
(* A graph that some calls left incomplete, and the complete one. *)

\* What is held is the same, and so is what is missing.
LEMMA WhatIsHeldIsThere ==
    ASSUME NEW g, NEW h, Related(g, h), WellFormed(g), WellFormed(h)
    PROVE  /\ \A r : ObjectOf(g, r) # NoObject => ObjectOf(h, r) = ObjectOf(g, r)
           /\ \A r : InGraph(g, r) => InGraph(h, r) /\ (Missing(g.nodes[r]) => Missing(h.nodes[r]))
           /\ \A r \in PodRefs(g) : r \in PodRefs(h) /\ ObjectOf(h, r) = ObjectOf(g, r)
           /\ \A kind : \A r \in Held(g, kind) : r \in Held(h, kind) /\ ObjectOf(h, r) = ObjectOf(g, r)
           /\ \A from, to, type : HasEdge(g, from, to, type) => HasEdge(h, from, to, type)
           /\ \A r \in PodRefs(g) : ClaimsOf(h, r) = ClaimsOf(g, r)
           /\ \A r, reason : EventsMatching(g, r, reason) = {} /\ EventsMatching(h, r, reason) = {}
<1>1. \A r : ObjectOf(g, r) # NoObject => ObjectOf(h, r) = ObjectOf(g, r)
  BY DEF Related, NodeRelated, ObjectOf, InGraph
<1>2. \A r : InGraph(g, r) => InGraph(h, r) /\ (Missing(g.nodes[r]) => Missing(h.nodes[r]))
  BY DEF Related, NodeRelated, InGraph
<1>3. \A r \in PodRefs(g) : r \in PodRefs(h) /\ ObjectOf(h, r) = ObjectOf(g, r)
  BY <1>1, <1>2 DEF PodRefs, InGraph
<1>4. \A kind : \A r \in Held(g, kind) : r \in Held(h, kind) /\ ObjectOf(h, r) = ObjectOf(g, r)
  BY <1>1, <1>2 DEF Held, InGraph
<1>5. \A from, to, type : HasEdge(g, from, to, type) => HasEdge(h, from, to, type)
  BY DEF Related, HasEdge
<1>6. \A r \in PodRefs(g) : ClaimsOf(h, r) = ClaimsOf(g, r)
  BY DEF Related, ClaimsOf
<1>7. \A r, reason : EventsMatching(g, r, reason) = {} /\ EventsMatching(h, r, reason) = {}
  BY DEF WellFormed, EventsMatching, EventsFor
<1>8. QED BY <1>1, <1>2, <1>3, <1>4, <1>5, <1>6, <1>7

\* A claim that blocks a Pod, for all that is known, also does when all is known.
LEMMA BlockersStay ==
    ASSUME NEW g, NEW h, Related(g, h), WellFormed(g), WellFormed(h),
           NEW c, NEW e, e.resource \in PodRefs(g), StorageClaimBlocksPod(g, c, e),
           \/ ObjectOf(g, c.resource) # NoObject
           \/ InGraph(g, c.resource) /\ Missing(g.nodes[c.resource])
    PROVE  StorageClaimBlocksPod(h, c, e)
<1>1. /\ HasEdge(h, e.resource, c.resource, "claims-storage")
      /\ NamesStorageConstraint(h, e.resource, c.resource, c.type)
      /\ ClaimsOf(h, e.resource) = ClaimsOf(g, e.resource)
  <2>1. /\ HasEdge(g, e.resource, c.resource, "claims-storage")
        /\ NamesStorageConstraint(g, e.resource, c.resource, c.type)
    BY DEF StorageClaimBlocksPod
  <2>2. ObjectOf(h, e.resource) = ObjectOf(g, e.resource)
    BY WhatIsHeldIsThere
  <2>3. NamesStorageConstraint(h, e.resource, c.resource, c.type)
    BY <2>1, <2>2 DEF NamesStorageConstraint
  <2>4. QED BY <2>1, <2>3, WhatIsHeldIsThere
<1>2. ASSUME NEW d \in UnresolvedClaims(h, e.resource)
      PROVE  d = c.resource
  <2>1. d \in ClaimsOf(g, e.resource) /\ InGraph(g, d)
    BY <1>1 DEF UnresolvedClaims, ClaimsOf, WellFormed, InGraph
  <2>2. ObjectOf(g, d) = NoObject \/ ObjectOf(g, d).phase = "Pending"
    BY WhatIsHeldIsThere DEF UnresolvedClaims
  <2>3. d \in UnresolvedClaims(g, e.resource)
    BY <2>1, <2>2 DEF UnresolvedClaims
  <2>4. QED BY <2>3 DEF StorageClaimBlocksPod
<1>3. c.resource \in UnresolvedClaims(h, e.resource)
  <2>1. /\ c.resource \in ClaimsOf(g, e.resource) /\ InGraph(g, c.resource)
        /\ ObjectOf(g, c.resource) = NoObject \/ ObjectOf(g, c.resource).phase = "Pending"
    BY DEF StorageClaimBlocksPod, UnresolvedClaims
  <2>2. InGraph(h, c.resource)
    BY <2>1, WhatIsHeldIsThere
  <2>3. ObjectOf(h, c.resource) = NoObject \/ ObjectOf(h, c.resource).phase = "Pending"
    <3>1. CASE ObjectOf(g, c.resource) # NoObject
      BY <2>1, <3>1, WhatIsHeldIsThere
    <3>2. CASE InGraph(g, c.resource) /\ Missing(g.nodes[c.resource])
      BY <3>2, WhatIsHeldIsThere DEF Missing, ObjectOf
    <3>3. QED BY <3>1, <3>2
  <2>4. QED BY <1>1, <2>1, <2>2, <2>3 DEF UnresolvedClaims
<1>4. QED BY <1>1, <1>2, <1>3 DEF StorageClaimBlocksPod

\* Whatever is found, but for what a Pending claim is no more than a risk of, is also
\* found when all is known.
LEMMA FindingsStay ==
    ASSUME NEW g, NEW h, Related(g, h), WellFormed(g), WellFormed(h),
           NEW f \in PodFindings(g) \cup StartFindings(g),
           f.type = "persistent-volume-claim-pending" => f.impact = "current"
    PROVE  f \in PodFindings(h) \cup StartFindings(h)
<1>1. \A r \in PodRefs(g) : /\ r \in PodRefs(h) /\ ObjectOf(h, r) = ObjectOf(g, r)
                            /\ ContainersOf(h, r) = ContainersOf(g, r)
  BY WhatIsHeldIsThere DEF ContainersOf
<1>2. \A r, reason : EventsMatching(g, r, reason) = {} /\ EventsMatching(h, r, reason) = {}
  BY WhatIsHeldIsThere
<1>3. CrashLoopFindings(g) \subseteq CrashLoopFindings(h)
  BY <1>1 DEF CrashLoopFindings
<1>4. OomKilledFindings(g) \subseteq OomKilledFindings(h)
  <2>1. \A r \in PodRefs(g) : Terminated(h, r) = Terminated(g, r)
    BY <1>1 DEF Terminated
  <2>2. \A r \in PodRefs(g) : \A term : Explicit(h, r, term) <=> Explicit(g, r, term)
    BY <1>2 DEF Explicit
  <2>3. \A r \in PodRefs(g) : \A c : AmbiguousSigkill(g, r, c) => AmbiguousSigkill(h, r, c)
    BY <1>1, <1>2, <2>2 DEF AmbiguousSigkill, Related
  <2>4. \A r \in PodRefs(g) : \A c, type :
            TerminationFinding(h, r, c, type) = TerminationFinding(g, r, c, type)
    BY <1>1 DEF TerminationFinding
  <2>5. QED BY <1>1, <2>1, <2>2, <2>3, <2>4 DEF OomKilledFindings
<1>5. PodNotReadyFindings(g) \subseteq PodNotReadyFindings(h)
  BY <1>1 DEF PodNotReadyFindings
<1>6. ReadinessProbeFailingFindings(g) = {}
  BY <1>2 DEF ReadinessProbeFailingFindings
<1>7. ReadinessProbePortFindings(g) \subseteq ReadinessProbePortFindings(h)
  <2>1. \A r \in PodRefs(g) : \A c : ProbePortImpact(h, r, c) = ProbePortImpact(g, r, c)
    BY <1>1, <1>2 DEF ProbePortImpact
  <2>2. QED BY <1>1, <2>1 DEF ReadinessProbePortFindings
<1>8. NodePressureFindings(g) \subseteq NodePressureFindings(h)
  BY WhatIsHeldIsThere DEF NodePressureFindings, InGraph
<1>9. PodEvictedFindings(g) \subseteq PodEvictedFindings(h)
  BY <1>1, <1>2 DEF PodEvictedFindings
<1>10. PodUnschedulableFindings(g) \subseteq PodUnschedulableFindings(h)
  BY <1>1 DEF PodUnschedulableFindings
<1>11. ImagePullFindings(g) \subseteq ImagePullFindings(h)
  BY <1>1 DEF ImagePullFindings
<1>12. MissingConfigRefFindings(g) \subseteq MissingConfigRefFindings(h)
  BY <1>1, WhatIsHeldIsThere DEF MissingConfigRefFindings
<1>13. StatefulSetUnavailableFindings(g) \subseteq StatefulSetUnavailableFindings(h)
  BY WhatIsHeldIsThere DEF StatefulSetUnavailableFindings
<1>14. ASSUME f \in PersistentVolumeClaimFindings(g)
       PROVE  f \in PersistentVolumeClaimFindings(h)
  <2>1. f.resource \in ClaimsInUse(g) /\ InGraph(g, f.resource)
    BY <1>14, ClaimFindingsAre DEF ClaimsInUse, InGraph
  <2>2. f.resource \in ClaimsInUse(h)
    BY <1>1, <2>1, WhatIsHeldIsThere DEF ClaimsInUse, InGraph
  <2>3. CASE f.type = "persistent-volume-claim-missing"
    <3>1. /\ f = FindingOf("persistent-volume-claim-missing", f.resource, NoSubject, "current")
          /\ Missing(g.nodes[f.resource])
      BY <1>14, <2>3, ClaimFindingsAre
    <3>2. Missing(h.nodes[f.resource])
      BY <2>1, <3>1, WhatIsHeldIsThere
    <3>3. QED BY <2>2, <3>1, <3>2 DEF PersistentVolumeClaimFindings
  <2>4. CASE f.type = "persistent-volume-claim-pending"
    <3>1. /\ f = ClaimPendingFinding(f.resource, ClaimImpact(g, f.resource))
          /\ f.impact = ClaimImpact(g, f.resource)
          /\ ObjectOf(g, f.resource) # NoObject /\ ObjectOf(g, f.resource).phase = "Pending"
      BY <1>14, <2>4, ClaimFindingsAre
    <3>2. ClaimBlocksAnyPod(g, f.resource)
      BY <2>4, <3>1 DEF ClaimImpact
    <3> DEFINE c == ClaimPendingFinding(f.resource, "risk")
               u(p) == FindingOf("pod-unschedulable", p, NoSubject, "current")
    <3>3. PICK p \in PodRefs(g) : StorageClaimBlocksPod(g, c, u(p))
      BY <3>2 DEF ClaimBlocksAnyPod
    <3>4. c.resource = f.resource /\ u(p).resource = p
      BY DEF ClaimPendingFinding, FindingOf, FindingAbout
    <3>5. StorageClaimBlocksPod(h, c, u(p))
      <4> HIDE DEF c, u
      <4>1. QED BY <3>1, <3>3, <3>4, BlockersStay
    <3>6. ClaimBlocksAnyPod(h, f.resource)
      BY <1>1, <3>5 DEF ClaimBlocksAnyPod
    <3>7. ClaimImpact(h, f.resource) = ClaimImpact(g, f.resource)
      BY <3>2, <3>6 DEF ClaimImpact
    <3>8. ObjectOf(h, f.resource) # NoObject /\ ObjectOf(h, f.resource).phase = "Pending"
      BY <3>1, WhatIsHeldIsThere
    <3>9. f = ClaimPendingFinding(f.resource, ClaimImpact(h, f.resource))
      BY <3>1, <3>7
    <3>10. QED BY <2>2, <3>8, <3>9 DEF PersistentVolumeClaimFindings
  <2>5. QED BY <1>14, <2>3, <2>4, ClaimFindingsAre
<1>15. QED BY <1>3, <1>4, <1>5, <1>6, <1>7, <1>8, <1>9, <1>10, <1>11, <1>12, <1>13, <1>14
           DEF PodFindings, StartFindings

\* What explains what, for all that is known, also does when all is known.
LEMMA ExplanationsStay ==
    ASSUME NEW g, NEW h, Related(g, h), WellFormed(g), WellFormed(h),
           NEW c \in PodFindings(g) \cup StartFindings(g),
           NEW e \in PodFindings(g) \cup StartFindings(g), Explains(g, c, e)
    PROVE  Explains(h, c, e)
<1>1. e.type \notin {"deployment-unavailable", "rollout-stuck", "job-failed"}
  BY FindingCases, ClaimFindingsAre
<1> DEFINE mechanism == <<c.type, e.type>>
<1>2. CASE mechanism \in SamePodMechanisms /\ SamePodComponent(c, e)
  BY <1>2 DEF Explains
<1>3. CASE mechanism \in SameResourceMechanisms /\ SameResource(c, e)
  BY <1>3 DEF Explains
<1>4. CASE mechanism \in TerminationMechanisms /\ CurrentTerminationMatchesFinding(g, c, e)
  <2>1. CurrentTerminationMatchesFinding(h, c, e)
    BY <1>4, WhatIsHeldIsThere DEF CurrentTerminationMatchesFinding
  <2>2. QED BY <1>4, <2>1 DEF Explains
<1>5. CASE mechanism \in StorageMechanisms /\ StorageClaimBlocksPod(g, c, e)
  <2>1. /\ e.type = "pod-unschedulable"
        /\ c.type \in {"persistent-volume-claim-missing", "persistent-volume-claim-pending"}
    BY <1>5 DEF StorageMechanisms
  <2>2. e.resource \in PodRefs(g)
    BY <2>1, UnschedulableFindings
  <2>3. c \in PersistentVolumeClaimFindings(g)
    BY <2>1, FindingsByType
  <2>4. \/ ObjectOf(g, c.resource) # NoObject
        \/ InGraph(g, c.resource) /\ Missing(g.nodes[c.resource])
    BY <2>3, ClaimFindingsAre DEF ClaimsInUse, InGraph
  <2>5. StorageClaimBlocksPod(h, c, e)
    BY <1>5, <2>2, <2>4, BlockersStay
  <2>6. QED BY <1>5, <2>5 DEF Explains
<1>6. CASE mechanism = <<"pod-not-ready", "service-no-ready-endpoints">> /\ SelectedByService(g, c, e)
  BY <1>6, WhatIsHeldIsThere DEF Explains, SelectedByService
<1>7. CASE mechanism = <<"pod-not-ready", "statefulset-unavailable">> /\ OwnedByStatefulSet(g, c, e)
  BY <1>7, WhatIsHeldIsThere DEF Explains, OwnedByStatefulSet
<1>8. CASE mechanism = <<"job-failed", "cronjob-latest-run-failed">> /\ IsLatestRun(g, c, e)
  BY <1>8, WhatIsHeldIsThere DEF Explains, IsLatestRun
<1>9. CASE mechanism = <<"node-pressure", "pod-evicted">> /\ ScheduledOnNode(g, c, e)
  BY <1>9, WhatIsHeldIsThere DEF Explains, ScheduledOnNode
<1>10. QED BY <1>1, <1>2, <1>3, <1>4, <1>5, <1>6, <1>7, <1>8, <1>9 DEF Explains

\* Only a Pending claim that blocks a Pod is linked to anything.
LEMMA LinkedIsCurrent ==
    ASSUME NEW g, NEW link \in Correlate(g, PodFindings(g) \cup StartFindings(g))
    PROVE  /\ link[1].type = "persistent-volume-claim-pending" => link[1].impact = "current"
           /\ link[2].type # "persistent-volume-claim-pending"
<1> DEFINE c == link[1]
           e == link[2]
<1>1. /\ c \in PodFindings(g) \cup StartFindings(g) /\ e \in PodFindings(g) \cup StartFindings(g)
      /\ Explains(g, c, e)
  BY DEF Correlate
<1>2. c.type = "persistent-volume-claim-pending" => c.impact = "current"
  <2>1. Causes(Correlate(g, PodFindings(g) \cup StartFindings(g)), c) # {}
    BY DEF Causes
  <2>2. QED BY <1>1, <2>1, AnswersAgree
<1> HIDE DEF c, e
<1>3. e.type # "persistent-volume-claim-pending"
  BY <1>1 DEF Explains, SamePodMechanisms, SameResourceMechanisms, TerminationMechanisms, StorageMechanisms
<1>4. QED BY <1>2, <1>3 DEF c, e

LEMMA GapsHold ==
    ASSUME SInv
    PROVE  NothingInferredFromGaps
<1>1. CASE Findings(graph) = {}
  BY <1>1 DEF NothingInferredFromGaps, Links, Correlate
<1>2. CASE Findings(graph) # {}
  <2>1. plan = <<>> /\ ~HasCollectionSourceIssue(graph, "temporal-integrity")
    BY <1>2 DEF Findings
  <2>2. ~HasCollectionSourceIssue(complete, "temporal-integrity")
    BY <2>1 DEF SInv, Related
  <2>3. /\ Findings(graph) = PodFindings(graph) \cup StartFindings(graph)
        /\ Findings(complete) = PodFindings(complete) \cup StartFindings(complete)
    BY <2>1, <2>2 DEF Findings
  <2>4. Related(graph, complete) /\ WellFormed(graph) /\ WellFormed(complete)
    BY DEF SInv
  <2>5. \A f \in Findings(graph) : f.impact = "current" => f \in Findings(complete)
    BY <2>3, <2>4, FindingsStay
  <2>6. ASSUME NEW link \in Links(graph)
        PROVE  link \in Links(complete)
    <3>1. link \in Correlate(graph, PodFindings(graph) \cup StartFindings(graph))
      BY <2>3 DEF Links
    <3>2. PICK c \in Findings(graph), e \in Findings(graph) :
            link = <<c, e>> /\ c # e /\ Explains(graph, c, e)
      BY <2>3, <3>1 DEF Correlate
    <3>3. /\ c.type = "persistent-volume-claim-pending" => c.impact = "current"
          /\ e.type # "persistent-volume-claim-pending"
      BY <3>1, <3>2, LinkedIsCurrent
    <3>4. c \in Findings(complete) /\ e \in Findings(complete)
      BY <2>3, <2>4, <3>3, FindingsStay
    <3>5. Explains(complete, c, e)
      BY <2>3, <2>4, <3>2, ExplanationsStay
    <3>6. QED BY <3>2, <3>4, <3>5 DEF Links, Correlate
  <2>7. QED BY <2>5, <2>6 DEF NothingInferredFromGaps
<1>3. QED BY <1>1, <1>2

-----------------------------------------------------------------------------
(* The theorems. *)

\* Whichever calls fail, nothing is found to be a current problem, and nothing is
\* explained by anything, that would not be with their answers (console.go:69).
THEOREM GapsProveNothing == Spec => []NothingInferredFromGaps
<1>1. SInv => NothingInferredFromGaps
  BY GapsHold
<1>2. QED BY <1>1, WhatIsReadIsRecorded, PTL

\* A claim that waits for its Pod is no outage, whatever keeps the Pod waiting
\* (persistentVolumeClaimRule, claimBlocksAnyPod).
THEOREM WaitingForConsumerIsNoOutage == Spec => []DelayedBindingIsNoOutage
<1>1. SInv => DelayedBindingIsNoOutage
  BY DelayedBindingHolds
<1>2. QED BY <1>1, WhatIsReadIsRecorded, PTL

\* The one claim that keeps a Pod waiting is the root of its symptoms and of the
\* StatefulSet's (storageClaimBlocksPod, unresolvedClaims).
THEOREM TheObstacleIsTheRoot == Spec => []SoleObstacleIsRoot
<1>1. SInv => SoleObstacleIsRoot
  BY SoleObstacleHolds
<1>2. QED BY <1>1, WhatIsReadIsRecorded, PTL

\* What keeps the kubelet from configuring a Pod is found, or it is said that nobody
\* looked (missingConfigRefRule, addConfigRefs).
THEOREM ConfigErrorsAreExplained == Spec => []ConfigErrorIsExplained
<1>1. SInv => ConfigErrorIsExplained
  BY ConfigErrorHolds
<1>2. QED BY <1>1, WhatIsReadIsRecorded, PTL

=============================================================================
