------------------------------ MODULE Cluster ------------------------------
(***************************************************************************)
(* The Kubernetes API server as the collector observes it: a store of      *)
(* objects that controllers and users write while an inspection reads it.  *)
(* External to the repository; modelled from what the collector relies on: *)
(*   - one revision counter; every persisted write gives the object a new  *)
(*     resourceVersion, a write of the specification a new generation;     *)
(*   - a controller reports the generation it has processed in             *)
(*     status.observedGeneration, some time after the specification;       *)
(*   - a deleted object may be created again under the same name: it has   *)
(*     a new UID, and children keep the ownerReference UID they were       *)
(*     created with;                                                       *)
(*   - Events outlive the object they are about.                           *)
(*                                                                         *)
(* Shape gives the fields of an object that no write changes here: its     *)
(* ownerReferences by name, what its selector matches, what it refers to.  *)
(***************************************************************************)
EXTENDS Objects

CONSTANTS
    Shape,            \* Shape[r]: the immutable fields of the object r names
    InitialClusters,  \* sets of resources that may exist to begin with
    MaxRevision       \* bound: the revision at which writes stop

VARIABLES
    cluster,     \* the object each ref names now, NoObject if there is none
    revision,    \* the revision of the last write
    recorded     \* the Events the API server keeps

clusterVars == <<cluster, revision, recorded>>

-----------------------------------------------------------------------------

\* The API server admits one controller at most among an object's owners.
OneController(owners) ==
    \A i, j \in DOMAIN owners : owners[i].controller /\ owners[j].controller => i = j

ASSUME ClusterAssumption ==
    /\ MaxRevision \in Nat \ {0}
    /\ \A present \in InitialClusters : present \subseteq Refs
    /\ \A r \in Refs : Shape[r].owners \in Seq([ref : Refs, controller : BOOLEAN])
    /\ \A r \in Refs : OneController(Shape[r].owners)

\* Kinds whose controllers report an observedGeneration the collector reads.
Generational == {"Deployment", "ReplicaSet", "StatefulSet", "HorizontalPodAutoscaler"}

\* The object a write at revision n creates, its ownerReferences naming the
\* incarnations of the owners given by uids.
NewObject(r, n, uids) ==
    [ref |-> r, uid |-> <<r, n>>, rv |-> n,
     gen |-> IF r.kind \in Generational THEN 1 ELSE 0,
     obs |-> IF r.kind = "HorizontalPodAutoscaler" THEN NilGeneration ELSE 0,
     owners |-> [i \in DOMAIN Shape[r].owners |->
                    [ref |-> Shape[r].owners[i].ref,
                     uid |-> uids[Shape[r].owners[i].ref],
                     controller |-> Shape[r].owners[i].controller]]]

\* The object once its controller has seen all of its specification.
Settled(object) == [object EXCEPT !.obs = object.gen]

Present == {r \in Refs : cluster[r] # NoObject}

\* The kubelet records an Event about each incarnation of a Pod; an Event
\* without a UID (a number no incarnation has) may come from anyone.
EventsAbout(r, n) ==
    IF r.kind = "Pod" THEN {[involved |-> r, uid |-> <<r, k>>] : k \in {0, n}} ELSE {}

ClusterInit ==
    /\ revision = 1
    /\ \E present \in InitialClusters :
        /\ cluster = [r \in Refs |->
              IF r \in present
              THEN Settled(NewObject(r, 1, [x \in Refs |-> <<x, 1>>]))
              ELSE NoObject]
        /\ recorded = UNION {EventsAbout(r, 1) : r \in present}

-----------------------------------------------------------------------------

CanWrite == revision < MaxRevision

\* The object after a write at revision n that leaves it these generations.
Updated(object, n, gen, obs) ==
    [object EXCEPT !.rv = n, !.gen = gen, !.obs = obs]

Write(r, object) ==
    /\ revision' = revision + 1
    /\ cluster' = [cluster EXCEPT ![r] = object]

\* A controller or a user creates r, under owners that exist.
Create(r) ==
    /\ CanWrite
    /\ cluster[r] = NoObject
    /\ \A i \in DOMAIN Shape[r].owners : Shape[r].owners[i].ref \in Present
    /\ Write(r, NewObject(r, revision + 1, [x \in Present |-> cluster[x].uid]))
    /\ recorded' = recorded \cup EventsAbout(r, revision + 1)

Delete(r) ==
    /\ CanWrite
    /\ cluster[r] # NoObject
    /\ Write(r, NoObject)
    /\ UNCHANGED recorded

\* The desired specification changes; the controller has not seen it yet.
ChangeSpec(r) ==
    /\ CanWrite
    /\ cluster[r] # NoObject
    /\ r.kind \in Generational
    /\ Write(r, Updated(cluster[r], revision + 1, cluster[r].gen + 1, cluster[r].obs))
    /\ UNCHANGED recorded

\* The controller reports the generation it has caught up with.
Reconcile(r) ==
    /\ CanWrite
    /\ cluster[r] # NoObject
    /\ r.kind \in Generational
    /\ cluster[r].obs < cluster[r].gen
    /\ Write(r, Updated(cluster[r], revision + 1, cluster[r].gen, cluster[r].gen))
    /\ UNCHANGED recorded

\* Any other persisted update: labels, annotations, status of other kinds.
Touch(r) ==
    /\ CanWrite
    /\ cluster[r] # NoObject
    /\ Write(r, Updated(cluster[r], revision + 1, cluster[r].gen, cluster[r].obs))
    /\ UNCHANGED recorded

ClusterWrite(r) == Create(r) \/ Delete(r) \/ ChangeSpec(r) \/ Reconcile(r) \/ Touch(r)

=============================================================================
