----------------------------- MODULE Collector -----------------------------
(***************************************************************************)
(* One inspection's collector (internal/kube/collector.go) building a      *)
(* resource graph from a cluster that others keep writing.                 *)
(*                                                                         *)
(* The collector is sequential: its control state is the stack of what is  *)
(* left to do, and each action below is the code between two API calls.    *)
(* A call reads the cluster once, atomically; between calls the cluster     *)
(* may change and the context may expire, after which every call fails.    *)
(***************************************************************************)
EXTENDS Cluster, ResourceGraph, LatestRun, SequencesExt

CONSTANTS
    Foci,         \* the resources the user may ask about
    Volatile,     \* bound: what is written while Tuna looks at each of them
    MaxFailures   \* bound: calls that fail while the context is live

VARIABLES
    focus,     \* the resource the user asked about
    status,    \* "running", "failed" (an error and no graph) or "collected"
    work,      \* the tasks left, first one first
    graph,     \* the graph built so far
    expired,   \* the context's deadline has passed
    failed,    \* history: what could not be read, as [source, resource]
    notFound,  \* history: what the API server said does not exist
    disturbed  \* history: the focus was written after its first read

collectorVars == <<focus, status, work, graph, expired, failed, notFound, disturbed>>
vars == <<clusterVars, collectorVars>>

-----------------------------------------------------------------------------
(* The fields of objects the collector looks at, beside those of Object.   *)
(*   selector    "none", "labels" or "invalid"                             *)
(*   selects     what the selector's labels match                          *)
(*   routes      (Service) the EndpointSlices labelled with its name       *)
(*   config      (Pod) ConfigMap and Secret references in container order  *)
(*   claims      (Pod) PersistentVolumeClaims of its volumes               *)
(*   node        (Pod) the Node it is scheduled on, none or one            *)
(*   quiet       (Pod) Succeeded or Ready: no Events are asked for         *)
(*   target      (HPA) the exact apps/v1 Deployment it scales, if any      *)
(*   stamped, at (Job) its scheduled-timestamp annotation                  *)
(*   scheduled   (CronJob) status.lastScheduleTime is set                  *)

OfKind(refs, kind) == {r \in refs : r.kind = kind}

ConfigRef == [ref : OfKind(Refs, "ConfigMap") \cup OfKind(Refs, "Secret"), optional : BOOLEAN]

ShapeFields(s) ==
    /\ s.selector \in {"none", "labels", "invalid"}
    /\ s.selects \subseteq Refs /\ s.routes \subseteq OfKind(Refs, "EndpointSlice")
    /\ s.target \subseteq OfKind(Refs, "Deployment") /\ \A d, e \in s.target : d = e
    /\ s.config \in Seq(ConfigRef)
    /\ s.claims \in Seq(OfKind(Refs, "PersistentVolumeClaim"))
    /\ s.node \in Seq(OfKind(Refs, "Node"))
    /\ s.quiet \in BOOLEAN /\ s.stamped \in BOOLEAN /\ s.scheduled \in BOOLEAN
    /\ s.at \in Int

\* The kinds a command can name.
FocusKinds == {"Pod", "Service", "Deployment", "StatefulSet", "Job", "CronJob"}

ASSUME CollectorAssumption ==
    /\ IsFiniteSet(Refs)
    /\ Foci \subseteq Refs
    /\ \A r \in Foci : r.kind \in FocusKinds
    /\ Volatile \in [Foci -> SUBSET Refs]
    /\ MaxFailures \in Nat
    /\ \A r \in Refs : ShapeFields(Shape[r])

\* The issue source a resource is reported under.
SourceOf(kind) ==
    CASE kind = "Pod" -> "pod"                 [] kind = "Service" -> "service"
      [] kind = "ReplicaSet" -> "replicaset"   [] kind = "Deployment" -> "deployment"
      [] kind = "StatefulSet" -> "statefulset" [] kind = "Job" -> "job"
      [] kind = "CronJob" -> "cronjob"         [] kind = "Node" -> "node"
      [] kind = "ConfigMap" -> "configmap"     [] kind = "Secret" -> "secret"
      [] kind = "PersistentVolumeClaim" -> "persistentvolumeclaim"

Live(refs) == {cluster[r] : r \in refs \cap Present}

IsOwnedBy(object, uid) ==
    \E i \in DOMAIN object.owners : object.owners[i].uid = uid

IsControllerOwner(object, kind, uid) ==
    \E i \in DOMAIN object.owners :
        /\ object.owners[i].ref.kind = kind
        /\ object.owners[i].uid = uid
        /\ object.owners[i].controller

-----------------------------------------------------------------------------
(* Tasks. *)

\* op says which action takes the task; object is the object it starts from, ref
\* and uid what that object refers to; edges are added when it is done.
Task(op, object, ref, uid, edges) ==
    [op |-> op, object |-> object, ref |-> ref, uid |-> uid, edges |-> edges]

NoUID(ref) == <<ref, 0>>

\* A task about the focus, about an object, and the edges that end a sequence.
Step(op)            == Task(op, NoObject, focus, NoUID(focus), {})
About(op, object)   == Task(op, object, object.ref, object.uid, {})
Link(edges)         == Task("link", NoObject, focus, NoUID(focus), edges)
Refer(op, from, to) == Task(op, from, to, NoUID(to), {})
Owner(op, child, owner) == Task(op, child, owner.ref, owner.uid, {})

OwnerOp(kind) ==
    CASE kind \in {"Job", "StatefulSet", "CronJob"} -> "exactOwner"
      [] kind = "ReplicaSet" -> "replicaSet"
      [] kind = "Deployment" -> "deployment"

\* The elements of s at the places in I, in the order of s: SelectSeq for a set of
\* places in place of a test.
InOrder(I) ==
    CHOOSE t \in [1..Cardinality(I) -> I] :
        \A j, k \in 1..Cardinality(I) : j < k => t[j] < t[k]

Kept(s, I) == [k \in 1..Cardinality(I) |-> s[InOrder(I)[k]]]

OwnerTasks(child, owners) ==
    [i \in DOMAIN owners |-> Owner(OwnerOp(owners[i].ref.kind), child, owners[i])]

\* addPod: the owner chain, then configuration, storage and the Node.
FollowFromPod(owner) ==
    \/ owner.ref.kind \in {"Job", "StatefulSet"} /\ owner.controller
    \/ owner.ref.kind = "ReplicaSet"

PodTasks(pod) ==
    LET shape    == Shape[pod.ref]
        required == Kept(shape.config, {i \in DOMAIN shape.config : ~shape.config[i].optional})
        owners   == Kept(pod.owners, {i \in DOMAIN pod.owners : FollowFromPod(pod.owners[i])})
    IN  OwnerTasks(pod, owners)
        \o [i \in DOMAIN required |->
              Refer(IF required[i].ref.kind = "Secret" THEN "secret" ELSE "configMap",
                    pod, required[i].ref)]
        \o [i \in DOMAIN shape.claims |-> Refer("claim", pod, shape.claims[i])]
        \o [i \in DOMAIN shape.node |-> Refer("node", pod, shape.node[i])]

\* addJob: an exact CronJob controller.
FollowFromJob(owner) == owner.ref.kind = "CronJob" /\ owner.controller

JobTasks(job) ==
    OwnerTasks(job, Kept(job.owners, {i \in DOMAIN job.owners : FollowFromJob(job.owners[i])}))

\* A ReplicaSet's Deployments.
FollowFromReplicaSet(owner) == owner.ref.kind = "Deployment"

ReplicaSetTasks(rs) ==
    OwnerTasks(rs, Kept(rs.owners, {i \in DOMAIN rs.owners : FollowFromReplicaSet(rs.owners[i])}))

\* addPod for each of pods, in the order of the list, then the edges to it.
AddPodTasks(pods, edgesTo) ==
    [i \in DOMAIN pods |->
        Task("pod", pods[i], pods[i].ref, pods[i].uid, edgesTo[pods[i]])]

\* What a Collect function does after its first read of the focus.
Plan(object) ==
    LET shape == Shape[object.ref]
    IN  CASE focus.kind = "Service" ->
               <<Step("clusterInfo")>>
               \o (IF shape.selector = "none" THEN <<>> ELSE <<Step("selectedPods")>>)
               \o <<Step("slices"), Step("autoscalers"), Step("events"), Step("finish")>>
          [] focus.kind = "Deployment" ->
               <<Step("clusterInfo"), Step("replicaSets"), Step("services"),
                 Step("autoscalers"), Step("events"), Step("finish")>>
          [] focus.kind = "StatefulSet" ->
               <<Step("clusterInfo"), Step("statefulSetPods"), Step("services"),
                 Step("events"), Step("finish")>>
          [] focus.kind = "Job" ->
               JobTasks(object)
               \o <<Step("clusterInfo"), About("jobPods", object),
                    Step("events"), Step("finish")>>
          [] focus.kind = "CronJob" ->
               <<Step("clusterInfo"), Step("cronJobJobs"), Step("events"), Step("finish")>>
          [] focus.kind = "Pod" ->
               PodTasks(object)
               \o <<Step("clusterInfo"), Step("services"), Step("autoscalers"),
                    Step("events"), Step("finish")>>

-----------------------------------------------------------------------------
(* Calls. *)

Doing(op) == status = "running" /\ work # <<>> /\ Head(work).op = op

Continue(tasks) == work' = tasks \o Tail(work) /\ UNCHANGED <<focus, status>>

Unread(source, ref) == [source |-> source, resource |-> ref]

\* One call about ref, reported under source if it fails.  Any call may fail; a
\* call under an expired context always does.
Call(source, ref, ok) ==
    /\ ok => ~expired
    /\ ~ok => expired \/ Cardinality(failed) < MaxFailures
    /\ failed' = IF ok THEN failed ELSE failed \cup {Unread(source, ref)}

\* A GET answers the object, or NoObject: an error if ~ok, NotFound if ok.
Get(source, ref, ok) ==
    /\ Call(source, ref, ok)
    /\ notFound' = IF ok /\ cluster[ref] = NoObject THEN notFound \cup {ref} ELSE notFound

\* Faulty variant: every GET is built from the name of the focus.
GotFocus(ref, ok) == IF ok THEN cluster[focus] ELSE NoObject

Got(ref, ok) == IF ok THEN cluster[ref] ELSE NoObject

List(source, ref, ok) == Call(source, ref, ok) /\ UNCHANGED notFound

NoCall == UNCHANGED <<failed, notFound>>

\* What every step of the collector leaves alone.
Collecting == UNCHANGED <<clusterVars, expired, disturbed>>

AddIssue(g, source, ref, affectsHealth) ==
    AddCollectionIssue(g, Issue(source, ref, affectsHealth))

\* A reference whose target could not be established.
Unresolved(g, ref) == AddIssue(AddUnknownNode(g, ref), SourceOf(ref.kind), ref, FALSE)

-----------------------------------------------------------------------------
(* The first read of the focus: an error of any kind is the command's. *)

ReadFocus ==
    /\ status = "running"
    /\ graph.start = NoObject
    /\ Collecting
    /\ UNCHANGED focus
    /\ \E ok \in BOOLEAN :
        /\ Get(SourceOf(focus.kind), focus, ok)
        /\ LET object == Got(focus, ok)
           IN  \/ /\ object = NoObject
                  /\ status' = "failed"
                  /\ UNCHANGED <<work, graph>>
               \/ /\ object # NoObject
                  /\ graph' = AddNode(BeginCollection(NewGraph(focus), object), focus, object)
                  /\ work' = Plan(object)
                  /\ UNCHANGED status

\* Faulty variant: a version nobody knows is a gap like any other.
QuietVersionIssue(g) == AddIssue(g, "kubernetes-version", focus, FALSE)

VersionIssue(g) == AddIssue(g, "kubernetes-version", focus, TRUE)

\* The version is one step here; module VersionDiscovery has its interleavings.
CollectClusterInfo ==
    /\ Doing("clusterInfo")
    /\ Collecting
    /\ \E ok \in BOOLEAN :
        /\ Call("kubernetes-version", focus, ok)
        /\ UNCHANGED notFound
        /\ graph' = IF ok THEN SetKubernetesVersion(graph)
                    ELSE VersionIssue(graph)
    /\ IF focus.kind \in {"Deployment", "StatefulSet"} /\ Shape[focus].selector = "invalid"
       THEN status' = "failed" /\ work' = <<>> /\ UNCHANGED focus
       ELSE Continue(<<>>)

-----------------------------------------------------------------------------
(* Pods, and what addPod follows from each of them. *)

AddPod ==
    /\ Doing("pod")
    /\ Collecting /\ NoCall
    /\ LET pod == Head(work).object
       IN  /\ graph' = AddNode(graph, pod.ref, pod)
           /\ Continue(PodTasks(pod) \o <<Link(Head(work).edges)>>)

\* Faulty variant: the loop does not move on.
AddLinksAgain ==
    /\ Doing("link")
    /\ Collecting /\ NoCall
    /\ graph' = AddEdges(graph, Head(work).edges)
    /\ UNCHANGED <<work, focus, status>>

AddLinks ==
    /\ Doing("link")
    /\ Collecting /\ NoCall
    /\ graph' = AddEdges(graph, Head(work).edges)
    /\ Continue(<<>>)

\* A Job or StatefulSet of a Pod, or the CronJob of a Job: an owner is accepted
\* only if its UID is the ownerReference's.  Accepting a Job adds it (addJob).
AcceptOwner(owner, child) ==
    Continue((IF owner.ref.kind = "Job" THEN JobTasks(owner) ELSE <<>>) \o <<Link({Edge(owner.ref, child.ref, "owns")})>>)

\* Faulty variant: the owner is known by its name.
IsNamed(owner, uid) == owner # NoObject

IsExactly(owner, uid) == owner # NoObject /\ owner.uid = uid

ResolveExactOwner ==
    /\ Doing("exactOwner")
    /\ Collecting
    /\ LET task == Head(work)
           held == ObjectOf(graph, task.ref)
       IN  \/ /\ InGraph(graph, task.ref)
              /\ NoCall
              /\ UNCHANGED graph
              /\ IF IsExactly(held, task.uid)
                 THEN AcceptOwner(held, task.object)
                 ELSE Continue(<<>>)
           \/ /\ ~InGraph(graph, task.ref)
              /\ \E ok \in BOOLEAN :
                  /\ Get(SourceOf(task.ref.kind), task.ref, ok)
                  /\ LET owner == Got(task.ref, ok)
                     IN  IF IsExactly(owner, task.uid)
                         THEN /\ graph' = AddNode(graph, task.ref, owner)
                              /\ AcceptOwner(owner, task.object)
                         ELSE /\ graph' = Unresolved(graph, task.ref)
                              /\ Continue(<<>>)

\* The ReplicaSet of a Pod, by name.
ResolveReplicaSet ==
    /\ Doing("replicaSet")
    /\ Collecting
    /\ LET task == Head(work)
           owns == {Edge(task.ref, task.object.ref, "owns")}
       IN  \/ /\ InGraph(graph, task.ref)
              /\ NoCall
              /\ graph' = AddEdges(graph, owns)
              /\ Continue(<<>>)
           \/ /\ ~InGraph(graph, task.ref)
              /\ \E ok \in BOOLEAN :
                  /\ Get("replicaset", task.ref, ok)
                  /\ LET owner == Got(task.ref, ok)
                     IN  IF owner = NoObject
                         THEN /\ graph' = AddEdges(Unresolved(graph, task.ref), owns)
                              /\ Continue(<<>>)
                         ELSE /\ graph' = AddNode(graph, task.ref, owner)
                              /\ Continue(ReplicaSetTasks(owner) \o <<Link(owns)>>)

\* A reference that is looked up once and linked whatever the answer.  Only of a
\* ConfigMap or a PersistentVolumeClaim is NotFound kept as a fact.
KeepsNotFound == {"ConfigMap", "PersistentVolumeClaim"}

\* Faulty variant: any error of such a GET counts as NotFound.
LookedOnce(ref, ok) ==
    IF Got(ref, ok) # NoObject \/ ref.kind \in KeepsNotFound
    THEN AddNode(graph, ref, Got(ref, ok))
    ELSE Unresolved(graph, ref)

Looked(ref, ok) ==
    IF Got(ref, ok) # NoObject \/ (ok /\ ref.kind \in KeepsNotFound)
    THEN AddNode(graph, ref, Got(ref, ok))
    ELSE Unresolved(graph, ref)

LookUp(ref, edge) ==
    /\ Collecting
    /\ Continue(<<>>)
    /\ \/ /\ InGraph(graph, ref)
          /\ NoCall
          /\ graph' = AddEdges(graph, {edge})
       \/ /\ ~InGraph(graph, ref)
          /\ \E ok \in BOOLEAN :
              /\ Get(SourceOf(ref.kind), ref, ok)
              /\ graph' = AddEdges(Looked(ref, ok), {edge})

FromObject(type) == Edge(Head(work).object.ref, Head(work).ref, type)

\* The Deployment of a ReplicaSet, by name.
ResolveDeployment ==
    /\ Doing("deployment")
    /\ LookUp(Head(work).ref, Edge(Head(work).ref, Head(work).object.ref, "owns"))

AddConfigMapRef ==
    /\ Doing("configMap")
    /\ LookUp(Head(work).ref, FromObject("references"))

AddStorageRef ==
    /\ Doing("claim")
    /\ LookUp(Head(work).ref, FromObject("claims-storage"))

AddScheduledNode ==
    /\ Doing("node")
    /\ LookUp(Head(work).ref, FromObject("scheduled-on"))

\* A Secret is never read: its existence stays unknown.
AddSecretRef ==
    /\ Doing("secret")
    /\ Collecting /\ NoCall
    /\ LET ref == Head(work).ref
       IN  graph' = AddEdges(IF InGraph(graph, ref) THEN graph ELSE Unresolved(graph, ref),
                             {FromObject("references")})
    /\ Continue(<<>>)

-----------------------------------------------------------------------------
(* Lists.  The items come in some order; only matching ones are modelled.   *)

\* The Pods the list answers that are kept, each with the edges it gets, or the
\* issue that it failed.
AddListedPods(resource, edgesTo) ==
    \E ok \in BOOLEAN :
        /\ List("pod", resource, ok)
        /\ \/ /\ ok
              /\ UNCHANGED graph
              /\ \E pods \in SetToSeqs(DOMAIN edgesTo) : Continue(AddPodTasks(pods, edgesTo))
           \/ /\ ~ok
              /\ graph' = AddIssue(graph, "pod", resource, FALSE)
              /\ Continue(<<>>)

ListSelectedPods ==
    /\ Doing("selectedPods")
    /\ Collecting
    /\ AddListedPods(focus,
         [pod \in Live(OfKind(Shape[focus].selects, "Pod")) |-> {Edge(focus, pod.ref, "selects")}])

\* ReplicaSets are kept by owner UID.  If they cannot be listed, nor are Pods.
ListReplicaSets ==
    /\ Doing("replicaSets")
    /\ Collecting
    /\ \E ok \in BOOLEAN :
        /\ List("replicaset", focus, ok)
        /\ \/ /\ ok
              /\ LET owned == {rs \in Live(OfKind(Shape[focus].selects, "ReplicaSet")) :
                                  IsOwnedBy(rs, graph.start.uid)}
                 IN  graph' = AddEdges(AddNodes(graph, owned),
                                       {Edge(focus, rs.ref, "owns") : rs \in owned})
              /\ Continue(<<Step("deploymentPods")>>)
           \/ /\ ~ok
              /\ graph' = AddIssue(graph, "replicaset", focus, FALSE)
              /\ Continue(<<>>)

OwnedReplicaSets == {e.to : e \in {f \in graph.edges : f.from = focus /\ f.type = "owns"}}

ListDeploymentPods ==
    /\ Doing("deploymentPods")
    /\ Collecting
    /\ LET Owning(pod) == {r \in OwnedReplicaSets : IsOwnedBy(pod, ObjectOf(graph, r).uid)}
           kept == {pod \in Live(OfKind(Shape[focus].selects, "Pod")) : Owning(pod) # {}}
       IN  AddListedPods(focus, [pod \in kept |-> {Edge(r, pod.ref, "owns") : r \in Owning(pod)}])

ListStatefulSetPods ==
    /\ Doing("statefulSetPods")
    /\ Collecting
    /\ LET kept == {pod \in Live(OfKind(Shape[focus].selects, "Pod")) :
                       IsControllerOwner(pod, "StatefulSet", graph.start.uid)}
       IN  AddListedPods(focus, [pod \in kept |-> {Edge(focus, pod.ref, "owns")}])

\* collectJobPods.  The label selector the list carries is the Job's UID too.
ListJobPods ==
    /\ Doing("jobPods")
    /\ Collecting
    /\ LET job == Head(work).object
           kept == {pod \in Live(OfKind(Refs, "Pod")) : IsControllerOwner(pod, "Job", job.uid)}
       IN  AddListedPods(job.ref, [pod \in kept |-> {Edge(job.ref, pod.ref, "owns")}])

\* What the scan for a CronJob's latest run sees of a Job.
JobViewOf(job) ==
    [owned |-> IsControllerOwner(job, "CronJob", graph.start.uid),
     stamped |-> Shape[job.ref].stamped, at |-> Shape[job.ref].at]

\* The latest run, as module CronJobLatest shows the scan to find it.
ListCronJobJobs ==
    /\ Doing("cronJobJobs")
    /\ Collecting
    /\ \E ok \in BOOLEAN :
        /\ List("job", focus, ok)
        /\ \/ /\ ok
              /\ LET jobs == SetToSeq(Live(OfKind(Refs, "Job")))
                     verdict == LatestRunOf([i \in DOMAIN jobs |-> JobViewOf(jobs[i])],
                                            Shape[focus].scheduled)
                     latest == jobs[verdict.job]
                 IN  \/ /\ verdict.job # 0
                        /\ graph' = AddNode(graph, latest.ref, latest)
                        /\ Continue(JobTasks(latest)
                                    \o <<Link({Edge(focus, latest.ref, "latest-run")}),
                                         About("jobPods", latest)>>)
                     \/ /\ verdict.job = 0
                        /\ graph' = IF verdict.issue = "none" THEN graph
                                    ELSE AddIssue(graph, "job", focus, TRUE)
                        /\ Continue(<<>>)
           \/ /\ ~ok
              /\ graph' = AddIssue(graph, "job", focus, TRUE)
              /\ Continue(<<>>)

\* collectServicesSelectingPods, and the same of CollectPod: at this point the
\* graph's Pods are the workload's own, or the focus.
CollectedPods == OfKind(DOMAIN graph.nodes, "Pod")

Selecting(pods) ==
    {svc \in Live(OfKind(Refs, "Service")) :
        /\ Shape[svc.ref].selector # "none"
        /\ Shape[svc.ref].selects \cap pods # {}}

ListServices ==
    /\ Doing("services")
    /\ Collecting
    /\ \/ /\ CollectedPods = {}
          /\ NoCall
          /\ UNCHANGED graph
          /\ Continue(<<>>)
       \/ /\ CollectedPods # {}
          /\ \E ok \in BOOLEAN :
              /\ List("service", focus, ok)
              /\ \/ /\ ok
                    /\ UNCHANGED graph
                    /\ \E svcs \in SetToSeqs(Selecting(CollectedPods)) :
                        Continue([i \in DOMAIN svcs |-> About("service", svcs[i])])
                 \/ /\ ~ok
                    /\ graph' = AddIssue(graph, "service", focus, FALSE)
                    /\ Continue(<<>>)

\* Faulty variant: a failed list is a Service without EndpointSlices.
WithSlicesIfAny(g, svc, ok) ==
    LET slices == IF ok THEN Live(Shape[svc].routes) ELSE {}
    IN  AddEdges(AddNodes(g, slices), {Edge(svc, s.ref, "routes-to") : s \in slices})

\* The EndpointSlices of a Service.  Failing to list them blocks health only if
\* the Service is the focus.
WithSlices(g, svc, ok) ==
    LET slices == Live(Shape[svc].routes)
    IN  IF ok
        THEN AddEdges(AddNodes(g, slices), {Edge(svc, s.ref, "routes-to") : s \in slices})
        ELSE AddIssue(g, "endpointslices", svc, svc = focus)

AddService ==
    /\ Doing("service")
    /\ Collecting
    /\ LET svc == Head(work).object
           selects == {Edge(svc.ref, p, "selects") : p \in Shape[svc.ref].selects \cap CollectedPods}
       IN  \E ok \in BOOLEAN :
            /\ List("endpointslices", svc.ref, ok)
            /\ graph' = WithSlices(AddEdges(AddNode(graph, svc.ref, svc), selects), svc.ref, ok)
    /\ Continue(<<>>)

ListEndpointSlices ==
    /\ Doing("slices")
    /\ Collecting
    /\ \E ok \in BOOLEAN :
        /\ List("endpointslices", focus, ok)
        /\ graph' = WithSlices(graph, focus, ok)
    /\ Continue(<<>>)

\* Only HPAs that scale a collected Deployment, and only if there is one.
CollectedDeployments ==
    {r \in OfKind(DOMAIN graph.nodes, "Deployment") : ObjectOf(graph, r) # NoObject}

\* Faulty variant: one generation behind is close enough.
LaggingTwice(hpa) == hpa.gen > 0 /\ hpa.obs # NilGeneration /\ hpa.obs + 1 < hpa.gen

Lagging(hpa) == hpa.gen > 0 /\ hpa.obs # NilGeneration /\ hpa.obs < hpa.gen

WithAutoscalers(g, hpas) ==
    [AddEdges(AddNodes(g, hpas),
              UNION {{Edge(h.ref, d, "scales") : d \in Shape[h.ref].target} : h \in hpas})
     EXCEPT !.issues = @ \cup
        {Issue("horizontalpodautoscaler", h.ref, FALSE) : h \in {x \in hpas : Lagging(x)}}]

CollectAutoscalers ==
    /\ Doing("autoscalers")
    /\ Collecting
    /\ Continue(<<>>)
    /\ \/ /\ CollectedDeployments = {}
          /\ NoCall
          /\ UNCHANGED graph
       \/ /\ CollectedDeployments # {}
          /\ \E ok \in BOOLEAN :
              /\ List("horizontalpodautoscaler", focus, ok)
              /\ graph' =
                   IF ok
                   THEN WithAutoscalers(graph,
                          {h \in Live(OfKind(Refs, "HorizontalPodAutoscaler")) :
                              Shape[h.ref].target \cap CollectedDeployments # {}})
                   ELSE AddIssue(graph, "horizontalpodautoscaler", focus, FALSE)

\* One list of Events for each Pod that is not Ready (podNeedsEvents).
CollectEvents ==
    /\ Doing("events")
    /\ Collecting /\ NoCall
    /\ UNCHANGED graph
    /\ LET pods == SetToSeq({r \in CollectedPods : ~Shape[r].quiet})
       IN  Continue([i \in DOMAIN pods |-> About("podEvents", ObjectOf(graph, pods[i]))])

\* Faulty variant: an Event of any incarnation of the Pod's name.
EventNamesPod(event, pod) == event.involved = pod.ref

\* The field selector and eventMatchesPod: this Pod by name and by UID.
EventMatchesPod(event, pod) == event.involved = pod.ref /\ event.uid = pod.uid

ListPodEvents ==
    /\ Doing("podEvents")
    /\ Collecting
    /\ LET pod == Head(work).object
       IN  \E ok \in BOOLEAN :
            /\ List("events", pod.ref, ok)
            /\ graph' = IF ok
                        THEN AddEvents(graph, {e \in recorded : EventMatchesPod(e, pod)})
                        ELSE AddIssue(graph, "events", pod.ref, FALSE)
    /\ Continue(<<>>)

-----------------------------------------------------------------------------
(* The end of a collection: the focus is read again, and the controllers in *)
(* the graph must have seen the specifications it holds.                    *)

\* Faulty variant: only the focus is looked at.
StaleFocus(g) ==
    {r \in {g.focus} : /\ ObjectOf(g, r).gen > 0
                       /\ ObjectOf(g, r).obs < ObjectOf(g, r).gen}

StaleControllers(g) ==
    {r \in DOMAIN g.nodes :
        /\ r.kind \in {"Deployment", "ReplicaSet", "StatefulSet"}
        /\ ObjectOf(g, r) # NoObject
        /\ ObjectOf(g, r).gen > 0
        /\ ObjectOf(g, r).obs < ObjectOf(g, r).gen}

ValidateControllerFreshness(g) ==
    [g EXCEPT !.issues = @ \cup {Issue("temporal-integrity", r, TRUE) : r \in StaleControllers(g)}]

FinishFocusCollection ==
    /\ Doing("finish")
    /\ Collecting
    /\ \E ok \in BOOLEAN :
        /\ Get("temporal-integrity", focus, ok)
        /\ LET g == FinishCollection(graph, Got(focus, ok))
           IN  graph' = IF g.stability = "stable"
                        THEN ValidateControllerFreshness(g)
                        ELSE AddIssue(g, "temporal-integrity", focus, TRUE)
    /\ status' = "collected"
    /\ work' = <<>>
    /\ UNCHANGED focus

-----------------------------------------------------------------------------

Init ==
    /\ ClusterInit
    /\ focus \in Foci
    /\ status = "running"
    /\ work = <<>>
    /\ graph = NewGraph(focus)
    /\ expired = FALSE
    /\ failed = {}
    /\ notFound = {}
    /\ disturbed = FALSE

CollectorStep ==
    \/ ReadFocus \/ CollectClusterInfo
    \/ AddPod \/ AddLinks \/ ResolveExactOwner \/ ResolveReplicaSet \/ ResolveDeployment
    \/ AddConfigMapRef \/ AddSecretRef \/ AddStorageRef \/ AddScheduledNode
    \/ ListSelectedPods \/ ListReplicaSets \/ ListDeploymentPods \/ ListStatefulSetPods
    \/ ListJobPods \/ ListCronJobJobs \/ ListServices \/ AddService \/ ListEndpointSlices
    \/ CollectAutoscalers \/ CollectEvents \/ ListPodEvents
    \/ FinishFocusCollection

\* Others write the cluster while the inspection runs.
Environment ==
    /\ status = "running"
    /\ \E r \in Volatile[focus] :
        /\ ClusterWrite(r)
        /\ disturbed' = (disturbed \/ (r = focus /\ graph.start # NoObject))
    /\ UNCHANGED <<focus, status, work, graph, expired, failed, notFound>>

Expire ==
    /\ status = "running"
    /\ ~expired
    /\ expired' = TRUE
    /\ UNCHANGED <<clusterVars, focus, status, work, graph, failed, notFound, disturbed>>

Next == CollectorStep \/ Environment \/ Expire

Spec == Init /\ [][Next]_vars

\* The API server may leave any call unanswered; but the context of an inspection
\* has a deadline, and under an expired context every call returns.
FairSpec == Spec /\ WF_vars(Expire) /\ WF_vars(expired /\ CollectorStep)

=============================================================================
