------------------------------- MODULE Startup -------------------------------
(***************************************************************************)
(* The two Pods of a StatefulSet that wait for storage, configuration or   *)
(* an image while an inspection of the StatefulSet or of the first Pod     *)
(* reads them one call after another, any of which may fail                *)
(* (internal/kube/collector.go).                                           *)
(*                                                                         *)
(* The first Pod uses a claim of its own, which is bound only when the Pod *)
(* is scheduled (WaitForFirstConsumer), and both share one that is bound   *)
(* at once.  The first takes its configuration from the environment; the   *)
(* second mounts it in two containers and also takes a Secret.             *)
(*                                                                         *)
(* External, modelled from what the rules rely on: the scheduler says what *)
(* kept it from placing a Pod and its word stands until it tries again; a  *)
(* claim in use by a scheduled Pod is not deleted; the kubelet waits for   *)
(* volumes before it starts a container and does not stop one whose        *)
(* configuration is deleted.                                               *)
(***************************************************************************)
EXTENDS StartRules

CONSTANTS
    Foci,         \* what the inspection may be asked about
    MaxLag,       \* bound: what else happens once the inspection has begun
    MaxFailures   \* bound: the calls that fail

VARIABLES
    claims,      \* the phase of each claim, or "absent"
    configMap,   \* the ConfigMap exists
    secret,      \* the Secret exists
    pods,        \* how far each Pod got
    verdict,     \* what the scheduler last said of each Pod, NoObject for nothing
    available,   \* the StatefulSet's availableReplicas
    lag,         \* what happened since the inspection began
    failures,    \* the calls that failed
    focus,       \* what the inspection was asked about
    plan,        \* what it reads next, and after that
    changed,     \* the focus was written since it was read
    fresh,       \* history: when the Pods were read the scheduler's words were true, and
                 \* nothing has happened since
    graph,       \* what it has collected
    complete     \* history: what it would have collected had no call failed

worldVars == <<claims, configMap, secret, pods, verdict, available>>
vars == <<worldVars, lag, failures, focus, plan, changed, fresh, graph, complete>>

-----------------------------------------------------------------------------

Ordinals == {1, 2}
PodRef(p)      == [kind |-> "Pod", name |-> p]
StatefulSetRef == [kind |-> "StatefulSet", name |-> "s"]
OwnClaim       == [kind |-> "PersistentVolumeClaim", name |-> "own"]
SharedClaim    == [kind |-> "PersistentVolumeClaim", name |-> "shared"]
ConfigMapRef   == [kind |-> "ConfigMap", name |-> "c"]
SecretRef      == [kind |-> "Secret", name |-> "x"]

Claims       == {OwnClaim, SharedClaim}
ClaimsUsed(p) == IF p = 1 THEN Claims ELSE {SharedClaim}
Delayed      == {OwnClaim}

\* What can be read of a claim that exists.
ClaimState == [ref : Claims, phase : {"Pending", "Bound"}]

ASSUME StartupAssumption ==
    /\ Foci \subseteq {StatefulSetRef, PodRef(1)}
    /\ Claims \cup {StatefulSetRef, ConfigMapRef, SecretRef}
        \cup {PodRef(p) : p \in Ordinals} \subseteq Refs
    /\ MaxLag \in Nat
    /\ MaxFailures \in Nat
    /\ NoObject \notin ClaimState

-----------------------------------------------------------------------------
(* Users, the scheduler, the kubelet and the StatefulSet controller. *)

Scheduled(p) == pods[p] # "pending"

ClaimBecomes(c, phase) ==
    /\ claims' = [claims EXCEPT ![c] = phase]
    /\ UNCHANGED <<configMap, secret, pods, verdict, available>>

Storage(c) ==
    \/ claims[c] = "absent" /\ ClaimBecomes(c, "Pending")
    \/ claims[c] = "Pending" /\ c \notin Delayed /\ ClaimBecomes(c, "Bound")
    \/ /\ claims[c] # "absent"
       /\ \A p \in Ordinals : Scheduled(p) => c \notin ClaimsUsed(p)
       /\ ClaimBecomes(c, "absent")

EditConfig ==
    /\ configMap' = ~configMap
    /\ UNCHANGED <<claims, secret, pods, verdict, available>>

Says(says, names) == [says |-> says, names |-> names]

\* What the scheduler may say of a Pod it cannot place now.
Obstacles(p) ==
    LET In(phase) == {c \in ClaimsUsed(p) : claims[c] = phase}
    IN  IF In("absent") # {} THEN {Says("not found", {c}) : c \in In("absent")}
        ELSE IF In("Pending") \ Delayed # {} THEN {Says("unbound immediate", {})}
        ELSE {Says("other", {})}

Reject(p) ==
    /\ ~Scheduled(p)
    /\ \E obstacle \in Obstacles(p) \ {verdict[p]} :
        verdict' = [verdict EXCEPT ![p] = obstacle]
    /\ UNCHANGED <<claims, configMap, secret, pods, available>>

\* Claims that waited for their consumer are bound with it.
Place(p) ==
    /\ ~Scheduled(p)
    /\ Obstacles(p) = {Says("other", {})}
    /\ pods' = [pods EXCEPT ![p] = "creating"]
    /\ verdict' = [verdict EXCEPT ![p] = NoObject]
    /\ claims' = [c \in Claims |-> IF c \in ClaimsUsed(p) THEN "Bound" ELSE claims[c]]
    /\ UNCHANGED <<configMap, secret, available>>

Mounted(p) == p = 1 \/ configMap \/ pods[p] # "creating"

Configured(p) == IF p = 1 THEN configMap ELSE secret

Start(p) ==
    /\ pods[p] \in {"creating", "pullError", "configError"}
    /\ Mounted(p)
    /\ \E state \in {"pullError", IF Configured(p) THEN "running" ELSE "configError"} :
        pods' = [pods EXCEPT ![p] = state]
    /\ pods' # pods
    /\ UNCHANGED <<claims, configMap, secret, verdict, available>>

Running == {p \in Ordinals : pods[p] = "running"}

Sync ==
    /\ available # Cardinality(Running)
    /\ available' = Cardinality(Running)
    /\ UNCHANGED <<claims, configMap, secret, pods, verdict>>

World ==
    \/ EditConfig \/ Sync
    \/ \E c \in Claims : Storage(c)
    \/ \E p \in Ordinals : Reject(p) \/ Place(p) \/ Start(p)

-----------------------------------------------------------------------------
(* The objects the API server answers. *)

Status(waiting, ready) ==
    [waiting |-> waiting, terminated |-> NoObject, last |-> NoObject,
     restarts |-> 0, ready |-> ready]

WaitingReason(p) ==
    CASE pods[p] = "creating"    -> "ContainerCreating"
      [] pods[p] = "pullError"   -> "ImagePullBackOff"
      [] pods[p] = "configError" -> "CreateContainerConfigError"
      [] pods[p] = "running"     -> ""

PodObject(p) ==
    [ref |-> PodRef(p), uid |-> <<PodRef(p), 1>>, reason |-> "", limited |-> {},
     probe |-> [c \in {"app"} |-> "none"],
     phase |-> IF pods[p] = "running" THEN "Running" ELSE "Pending",
     ready |-> pods[p] = "running",
     unschedulable |-> verdict[p],
     statuses |-> IF Scheduled(p)
                  THEN [c \in {"app"} |-> Status(WaitingReason(p), pods[p] = "running")]
                  ELSE <<>>,
     env |-> {[ref |-> IF p = 1 THEN ConfigMapRef ELSE SecretRef, container |-> "app"]},
     volumes |-> IF p = 1 THEN {} ELSE {[ref |-> ConfigMapRef, mounts |-> {"app", "side"}]}]

StatefulSetObject == [ref |-> StatefulSetRef, desired |-> 2, available |-> available]

ClaimObject(c) ==
    IF claims[c] = "absent" THEN NoObject ELSE [ref |-> c, phase |-> claims[c]]

ConfigMapObject == IF configMap THEN [ref |-> ConfigMapRef] ELSE NoObject

-----------------------------------------------------------------------------
(* What one call adds to a graph, if it is answered and if it fails. *)

Unresolved(g, source, ref) == AddCollectionIssue(AddUnknownNode(g, ref), Issue(source, ref, FALSE))

\* The focus; or the exact owner of the Pod in focus.
WithStatefulSet(g, ok) ==
    IF ~ok THEN Unresolved(g, "statefulset", StatefulSetRef)
    ELSE AddEdges(AddNode(g, StatefulSetRef, StatefulSetObject),
            {Edge(StatefulSetRef, r, "owns") : r \in PodRefs(g)})

\* The Pod in focus; or the StatefulSet's.
WithPods(g, ok) ==
    LET read == IF focus = StatefulSetRef THEN Ordinals ELSE {1}
    IN  IF ~ok THEN AddCollectionIssue(g, Issue("pod", focus, FALSE))
        ELSE AddEdges(AddNodes(g, {PodObject(p) : p \in read}),
                {Edge(StatefulSetRef, PodRef(p), "owns") :
                    p \in {q \in read : InGraph(g, StatefulSetRef)}})

UsersOf(g, c) == {PodRef(p) : p \in {q \in Ordinals : c \in ClaimsUsed(q)}} \cap PodRefs(g)

WithClaim(g, c, ok) ==
    IF UsersOf(g, c) = {} THEN g
    ELSE AddEdges(IF ok THEN AddNode(g, c, ClaimObject(c))
                  ELSE Unresolved(g, "persistentvolumeclaim", c),
            {Edge(r, c, "claims-storage") : r \in UsersOf(g, c)})

WithConfigMap(g, ok) ==
    IF PodRefs(g) = {} THEN g
    ELSE AddEdges(IF ok THEN AddNode(g, ConfigMapRef, ConfigMapObject)
                  ELSE Unresolved(g, "configmap", ConfigMapRef),
            {Edge(r, ConfigMapRef, "references") : r \in PodRefs(g)})

\* Faulty variant: nothing says that nobody looked.
WithQuietSecret(g) ==
    IF ~InGraph(g, PodRef(2)) THEN g
    ELSE AddEdges(AddUnknownNode(g, SecretRef), {Edge(PodRef(2), SecretRef, "references")})

\* A Secret is not read.
WithSecret(g) ==
    IF ~InGraph(g, PodRef(2)) THEN g
    ELSE AddEdges(Unresolved(g, "secret", SecretRef),
            {Edge(PodRef(2), SecretRef, "references")})

\* A focus that was written, or cannot be read again, spoils the evidence.
WithVerdict(g, ok) ==
    IF changed \/ ~ok
    THEN AddCollectionIssue(g, Issue("temporal-integrity", focus, TRUE))
    ELSE g

-----------------------------------------------------------------------------
(* The inspection. *)

Plan(ref) ==
    (IF ref = StatefulSetRef THEN <<"statefulSet", "pods">> ELSE <<"pods", "statefulSet">>)
    \o <<"configMap", "own", "shared", "secret", "finish">>

Doing(s) == plan # <<>> /\ Head(plan) = s /\ plan' = Tail(plan)

\* Only the first read of the focus must be answered.
Answered(ok) ==
    /\ ok \/ (failures < MaxFailures /\ plan # Plan(focus))
    /\ failures' = IF ok THEN failures ELSE failures + 1

AsRead == UNCHANGED <<changed, fresh>>

\* The focus is read first, and what was written before that does not count.
ReadStatefulSet ==
    /\ Doing("statefulSet")
    /\ \E ok \in BOOLEAN : Answered(ok) /\ graph' = WithStatefulSet(graph, ok)
    /\ complete' = WithStatefulSet(complete, TRUE)
    /\ changed' = (focus # StatefulSetRef /\ changed)
    /\ UNCHANGED fresh

ReadPods ==
    /\ Doing("pods")
    /\ \E ok \in BOOLEAN : Answered(ok) /\ graph' = WithPods(graph, ok)
    /\ complete' = WithPods(complete, TRUE)
    /\ changed' = (focus = StatefulSetRef /\ changed)
    /\ fresh' = \A p \in Ordinals : Scheduled(p) \/ verdict[p] \in Obstacles(p)

ReadConfigMap ==
    /\ Doing("configMap")
    /\ \E ok \in BOOLEAN : Answered(ok) /\ graph' = WithConfigMap(graph, ok)
    /\ complete' = WithConfigMap(complete, TRUE)
    /\ AsRead

ReadClaim(s, c) ==
    /\ Doing(s)
    /\ \E ok \in BOOLEAN : Answered(ok) /\ graph' = WithClaim(graph, c, ok)
    /\ complete' = WithClaim(complete, c, TRUE)
    /\ AsRead

AddSecret ==
    /\ Doing("secret")
    /\ graph' = WithSecret(graph)
    /\ complete' = WithSecret(complete)
    /\ UNCHANGED failures
    /\ AsRead

Finish ==
    /\ Doing("finish")
    /\ \E ok \in BOOLEAN : Answered(ok) /\ graph' = WithVerdict(graph, ok)
    /\ complete' = WithVerdict(complete, TRUE)
    /\ AsRead

-----------------------------------------------------------------------------

Init ==
    /\ claims = [c \in Claims |-> "absent"]
    /\ configMap \in BOOLEAN
    /\ secret \in BOOLEAN
    /\ pods = [p \in Ordinals |-> "pending"]
    /\ verdict = [p \in Ordinals |-> NoObject]
    /\ available = 0
    /\ lag = 0
    /\ failures = 0
    /\ focus \in Foci
    /\ plan = Plan(focus)
    /\ changed = FALSE
    /\ fresh = FALSE
    /\ graph = NewGraph(focus)
    /\ complete = NewGraph(focus)

Begun == plan # Plan(focus)

FocusObject == IF focus = StatefulSetRef THEN StatefulSetObject ELSE PodObject(1)

WorldStep ==
    /\ plan # <<>>
    /\ Begun => lag < MaxLag
    /\ World
    /\ UNCHANGED <<failures, focus, plan, graph, complete>>
    /\ lag' = IF Begun THEN lag + 1 ELSE lag
    /\ changed' = (Begun /\ (changed \/ FocusObject' # FocusObject))
    /\ fresh' = FALSE

InspectionStep ==
    /\ \/ ReadStatefulSet \/ ReadPods \/ ReadConfigMap
       \/ ReadClaim("own", OwnClaim) \/ ReadClaim("shared", SharedClaim)
       \/ AddSecret \/ Finish
    /\ UNCHANGED <<worldVars, lag, focus>>

Next == WorldStep \/ InspectionStep

Spec == Init /\ [][Next]_vars

=============================================================================
