------------------------------- MODULE Kubelet -------------------------------
(***************************************************************************)
(* A Pod whose containers crash, are killed and are restarted while an     *)
(* inspection reads the Pod, then its Node, then the Events about it, each *)
(* by a call of its own (internal/kube/collector.go); and what the rules   *)
(* make of the three together (PodRules, Correlation).                     *)
(*                                                                         *)
(* The kubelet, the runtime and the node are external to the repository,   *)
(* modelled from what the rules rely on:                                   *)
(*   - a container's status holds its present state and its previous       *)
(*     termination; a container that stops is restarted (restartPolicy     *)
(*     Always), from the second time on after CrashLoopBackOff;            *)
(*   - the runtime reports OOMKilled when the kernel killed the container, *)
(*     Error and exit 137 for any other SIGKILL;                           *)
(*   - Events are best effort: an Event may never be recorded, and the API *)
(*     server forgets it after a while;                                    *)
(*   - an evicted Pod is Failed for good.                                  *)
(* Init containers have the same kind of status and are not told apart.    *)
(***************************************************************************)
EXTENDS PodRules

CONSTANTS
    Containers,       \* the containers of the Pod
    Specs,            \* the Pod specifications: [limited, probe]
    MaxTerminations,  \* bound: how often a container of the Pod stops
    MaxLag            \* bound: what else happens once the Pod has been read

VARIABLES
    pod,       \* the Pod as the API server has it
    pressure,  \* the Node reports memory pressure
    recorded,  \* the Events the API server has
    missed,    \* history: an Event that told of a kill by the kubelet was lost or forgotten
    stopped,   \* how often a container has stopped
    oomed,     \* history: the containers the kernel has OOM-killed
    lag,       \* what happened since the Pod was read
    step,      \* what the inspection reads next
    graph      \* what it has collected

podVars == <<pod, pressure, recorded, missed, stopped, oomed>>
vars == <<podVars, lag, step, graph>>

-----------------------------------------------------------------------------

PodRef  == [kind |-> "Pod", name |-> "p"]
NodeRef == [kind |-> "Node", name |-> "n"]
Focus   == [kind |-> "Deployment", name |-> "d"]   \* the inspection was asked about

\* by (history) is who ended the container; no rule can see it.
TerminationBy(reason, exit, by) == [reason |-> reason, exit |-> exit, by |-> by]

OomKill    == TerminationBy("OOMKilled", 137, "kernel")
Crash      == TerminationBy("Error", 1, "app")
OtherKill  == TerminationBy("Error", 137, "outside")
KubeletKill == TerminationBy("Error", 137, "kubelet")

Terminations == {OomKill, Crash, OtherKill, KubeletKill}

PodUID == <<PodRef, 1>>

ProbePorts == {"none", "declared", "name", "number"}

Status == [waiting : {"", "ContainerCreating", "CrashLoopBackOff"},
           terminated : Terminations \cup {NoObject}, last : Terminations \cup {NoObject},
           restarts : 0..MaxTerminations, ready : BOOLEAN]

PodState == [ref : {PodRef}, uid : {PodUID}, phase : {"Running", "Failed"},
             reason : {"", "Evicted"}, ready : BOOLEAN, limited : SUBSET Containers,
             probe : [Containers -> ProbePorts], statuses : [Containers -> Status]]

ASSUME KubeletAssumption ==
    /\ NoSubject \notin Containers
    /\ {PodRef, NodeRef, Focus} \subseteq Refs
    /\ \A spec \in Specs : spec.limited \subseteq Containers
                           /\ spec.probe \in [Containers -> ProbePorts]
    /\ MaxTerminations \in Nat
    /\ MaxLag \in Nat
    /\ NoObject \notin Terminations \cup PodState

Running(status) == status.waiting = "" /\ status.terminated = NoObject

EventAbout(reason, about) ==
    [involved |-> PodRef, uid |-> pod.uid, reason |-> reason, about |-> about]

\* The Pod with one container's status changed: Ready when all containers are.
WithStatus(c, status) ==
    LET statuses == [pod.statuses EXCEPT ![c] = status]
    IN  [pod EXCEPT !.statuses = statuses,
                    !.ready = \A d \in Containers : statuses[d].ready]

TellsOfKill(event) == event.reason \in {"Killing", "Evicted"}

\* The Event is recorded, or is lost.
Record(event) ==
    \/ recorded' = recorded \cup {event} /\ UNCHANGED missed
    \/ missed' = (missed \/ TellsOfKill(event)) /\ UNCHANGED recorded

-----------------------------------------------------------------------------
(* The kubelet and its surroundings. *)

Alive == pod.phase = "Running"

\* A container whose probe port is wrong is never Ready; one without a probe is at once.
Start(c) ==
    LET status == pod.statuses[c]
    IN  /\ Alive
        /\ ~Running(status)
        /\ status.waiting = "" => status.last = NoObject   \* the first restart is immediate
        /\ pod' = WithStatus(c,
              [waiting |-> "", terminated |-> NoObject,
               last |-> IF status.terminated # NoObject THEN status.terminated ELSE status.last,
               restarts |-> IF status.waiting = "ContainerCreating" THEN 0 ELSE status.restarts + 1,
               ready |-> pod.probe[c] = "none"])
        /\ UNCHANGED <<pressure, recorded, missed, stopped, oomed>>

BackOff(c) ==
    LET status == pod.statuses[c]
    IN  /\ Alive
        /\ status.terminated # NoObject
        /\ status.last # NoObject
        /\ pod' = WithStatus(c, [status EXCEPT !.waiting = "CrashLoopBackOff",
                                    !.last = status.terminated, !.terminated = NoObject])
        /\ UNCHANGED <<pressure, recorded, missed, stopped, oomed>>

Stop(c, termination) ==
    /\ Alive
    /\ Running(pod.statuses[c])
    /\ stopped < MaxTerminations
    /\ stopped' = stopped + 1
    /\ pod' = WithStatus(c, [pod.statuses[c] EXCEPT !.terminated = termination, !.ready = FALSE])
    /\ UNCHANGED pressure

Fail(c) ==
    /\ \E termination \in {Crash, OtherKill} : Stop(c, termination)
    /\ UNCHANGED <<recorded, missed, oomed>>

\* The kernel kills the container; the node reports it as an Event about the Pod.
OomKills(c) ==
    /\ Stop(c, OomKill)
    /\ Record(EventAbout("OOMKilling", NoSubject))
    /\ oomed' = oomed \cup {c}

\* The kubelet announces that it kills the container, for a failed liveness probe.
KubeletKills(c) ==
    /\ Stop(c, KubeletKill)
    /\ Record(EventAbout("Killing", NoSubject))
    /\ UNCHANGED oomed

ProbeSucceeds(c) ==
    /\ Alive
    /\ Running(pod.statuses[c])
    /\ pod.probe[c] = "declared"
    /\ ~pod.statuses[c].ready
    /\ pod' = WithStatus(c, [pod.statuses[c] EXCEPT !.ready = TRUE])
    /\ UNCHANGED <<pressure, recorded, missed, stopped, oomed>>

ProbeFails(c) ==
    /\ Alive
    /\ Running(pod.statuses[c])
    /\ pod.probe[c] # "none"
    /\ EventAbout("Unhealthy", c) \notin recorded
    /\ pod' = WithStatus(c, [pod.statuses[c] EXCEPT !.ready = FALSE])
    /\ Record(EventAbout("Unhealthy", c))
    /\ UNCHANGED <<pressure, stopped, oomed>>

PressureChanges ==
    /\ pressure' = ~pressure
    /\ UNCHANGED <<pod, recorded, missed, stopped, oomed>>

\* The Pod has failed; what still ran was killed.
Evict ==
    /\ Alive
    /\ pressure
    /\ pod' = [pod EXCEPT !.phase = "Failed", !.reason = "Evicted", !.ready = FALSE,
                 !.statuses = [c \in Containers |->
                    IF Running(pod.statuses[c])
                    THEN [pod.statuses[c] EXCEPT !.terminated = KubeletKill, !.ready = FALSE]
                    ELSE pod.statuses[c]]]
    /\ Record(EventAbout("Evicted", NoSubject))
    /\ UNCHANGED <<pressure, stopped, oomed>>

Forget ==
    /\ \E event \in recorded :
        /\ recorded' = recorded \ {event}
        /\ missed' = (missed \/ TellsOfKill(event))
    /\ UNCHANGED <<pod, pressure, stopped, oomed>>

World ==
    \/ \E c \in Containers :
        \/ Start(c) \/ BackOff(c) \/ Fail(c) \/ OomKills(c) \/ KubeletKills(c)
        \/ ProbeSucceeds(c) \/ ProbeFails(c)
    \/ PressureChanges \/ Evict \/ Forget

-----------------------------------------------------------------------------
(* The inspection. *)

Inspecting(s) == step = s /\ UNCHANGED podVars /\ UNCHANGED lag

ReadPod ==
    /\ Inspecting("pod")
    /\ step' = "node"
    /\ graph' = AddNode(graph, PodRef, pod)

ReadNode ==
    /\ Inspecting("node")
    /\ step' = "events"
    /\ graph' = AddEdges(AddNode(graph, NodeRef, [ref |-> NodeRef, pressure |-> pressure]),
                         {Edge(PodRef, NodeRef, "scheduled-on")})

NeedsEvents == ObjectOf(graph, PodRef).phase # "Succeeded" /\ ~ObjectOf(graph, PodRef).ready

\* The list of Events is asked for if the Pod as read needs it, and may fail.
ReadEvents ==
    /\ Inspecting("events")
    /\ step' = "done"
    /\ \/ ~NeedsEvents /\ graph' = graph
       \/ NeedsEvents /\ graph' = AddEvents(graph, recorded)
       \/ NeedsEvents /\ graph' = AddCollectionIssue(graph, Issue("events", PodRef, FALSE))

-----------------------------------------------------------------------------

Init ==
    /\ \E spec \in Specs :
        pod = [ref |-> PodRef, uid |-> PodUID, phase |-> "Running", reason |-> "",
               ready |-> FALSE, limited |-> spec.limited, probe |-> spec.probe,
               statuses |-> [c \in Containers |->
                    [waiting |-> "ContainerCreating", terminated |-> NoObject,
                     last |-> NoObject, restarts |-> 0, ready |-> FALSE]]]
    /\ pressure = FALSE
    /\ recorded = {}
    /\ missed = FALSE
    /\ stopped = 0
    /\ oomed = {}
    /\ lag = 0
    /\ step = "pod"
    /\ graph = NewGraph(Focus)

WorldStep ==
    /\ step # "done"
    /\ step # "pod" => lag < MaxLag
    /\ World
    /\ lag' = IF step = "pod" THEN lag ELSE lag + 1
    /\ UNCHANGED <<step, graph>>

Next == WorldStep \/ ReadPod \/ ReadNode \/ ReadEvents

Spec == Init /\ [][Next]_vars

=============================================================================
