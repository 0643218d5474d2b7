------------------------------ MODULE Objects ------------------------------
(***************************************************************************)
(* Kubernetes objects, as far as the collector and the rules look at them. *)
(* A ref is [kind, name]: one namespace is inspected, and only Nodes live   *)
(* outside it.  kind stands for the API version and the kind together.     *)
(***************************************************************************)
EXTENDS Integers, Sequences

CONSTANTS
    Refs,       \* the resources of an instance
    NoObject    \* no such object; Go's nil

UID      == Refs \X Nat
OwnerRef == [ref : Refs, uid : UID, controller : BOOLEAN]

\* metadata.uid, resourceVersion, generation, status.observedGeneration and
\* ownerReferences of one incarnation of the object ref names.
Object == [ref : Refs, uid : UID, rv : Nat, gen : Nat, obs : Int,
           owners : Seq(OwnerRef)]
Event  == [involved : Refs, uid : UID]

\* status.observedGeneration is a pointer on an HPA, and nil at first.
NilGeneration == -1

\* Which revision of which incarnation an object is (graph.ObjectRevision).
Revision == [uid : UID, rv : Nat, gen : Nat]

ASSUME NoObjectAssumption == NoObject \notin Object \cup Revision

=============================================================================
