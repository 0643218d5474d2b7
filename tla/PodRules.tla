------------------------------ MODULE PodRules ------------------------------
(***************************************************************************)
(* The rules that read a Pod, the Events about it and its Node             *)
(* (internal/diag/rules_workload.go, rules_traffic.go, rules_node.go), as  *)
(* functions from a graph to findings.                                     *)
(*                                                                         *)
(* A Pod in the graph is                                                   *)
(*   [ref, uid, phase, reason, ready, limited, probe, statuses]            *)
(*     ready     its Ready condition is True                               *)
(*     limited   the containers with a memory limit                        *)
(*     probe     for each container of its spec, the port of its readiness *)
(*               probe: "none" (no such probe), "declared", or one the     *)
(*               container does not declare, by "name" or by "number"      *)
(*     statuses  for each container [waiting, terminated, last, restarts,  *)
(*               ready]: the reason it waits ("" if it does not), its      *)
(*               present and its previous termination, NoObject for none   *)
(* and an Event [involved, uid, reason, about], about being the container   *)
(* whose probed port the message names, NoSubject for any other message.   *)
(* Summaries, evidence and recommendations are left out.  An impact no     *)
(* rule sets is written "current", what the engine makes of it.            *)
(***************************************************************************)
EXTENDS Correlation

PodRefs(g) == {r \in DOMAIN g.nodes : r.kind = "Pod" /\ ObjectOf(g, r) # NoObject}

EventsMatching(g, r, reason) == {e \in EventsFor(g, r) : e.reason = reason}

\* The containers of a Pod in the graph that have a status.
ContainersOf(g, r) == DOMAIN ObjectOf(g, r).statuses

-----------------------------------------------------------------------------
(* Containers that stop. *)

CrashLoopFindings(g) ==
    UNION {{FindingOf("crashloop-backoff", r, c, "current") :
              c \in {d \in ContainersOf(g, r) :
                       ObjectOf(g, r).statuses[d].waiting = "CrashLoopBackOff"}} :
            r \in PodRefs(g)}

\* The termination the rule looks at: the previous one if there is one.
Termination(status) == IF status.last # NoObject THEN status.last ELSE status.terminated

\* Faulty variant: exit 137 is as good as the runtime's word.
ExplicitOrKilled(g, r, term) ==
    term.exit = 137 \/ EventsMatching(g, r, "OOMKilling") # {}

Explicit(g, r, term) ==
    OomTermination(term) \/ EventsMatching(g, r, "OOMKilling") # {}

\* Faulty variant: an unanswered list of Events counts as an empty one.
SigkillWithoutEvents(g, r, c) ==
    LET pod == ObjectOf(g, r)
    IN  /\ ~Explicit(g, r, Termination(pod.statuses[c]))
        /\ Termination(pod.statuses[c]).exit = 137
        /\ c \in pod.limited
        /\ pod.statuses[c].restarts >= 1
        /\ EventsMatching(g, r, "Evicted") = {}
        /\ EventsMatching(g, r, "Killing") = {}

\* Exit 137 that nothing collected explains.
AmbiguousSigkill(g, r, c) ==
    LET pod == ObjectOf(g, r)
    IN  /\ ~Explicit(g, r, Termination(pod.statuses[c]))
        /\ Termination(pod.statuses[c]).exit = 137
        /\ c \in pod.limited
        /\ pod.statuses[c].restarts >= 1
        /\ ~HasCollectionSourceIssue(g, "events")
        /\ EventsMatching(g, r, "Evicted") = {}
        /\ EventsMatching(g, r, "Killing") = {}

\* Faulty variant: a container that is not Ready is still down.
DisruptingWhileNotReady(status, type) == ~status.ready

\* Faulty variant: a container that waits to be restarted has recovered.
DisruptingWhileTerminated(status, type) ==
    status.terminated # NoObject /\ TerminationOf(type, status.terminated)

TerminationStillDisrupting(status, type) ==
    \/ status.terminated # NoObject /\ TerminationOf(type, status.terminated)
    \/ /\ status.waiting = "CrashLoopBackOff"
       /\ status.last # NoObject
       /\ TerminationOf(type, status.last)

TerminationFinding(g, r, c, type) ==
    FindingOf(type, r, c,
        IF TerminationStillDisrupting(ObjectOf(g, r).statuses[c], type)
        THEN "current" ELSE "historical")

Terminated(g, r) ==
    {c \in ContainersOf(g, r) : Termination(ObjectOf(g, r).statuses[c]) # NoObject}

OomKilledFindings(g) ==
    UNION {
        {TerminationFinding(g, r, c, "container-oomkilled") :
            c \in {d \in Terminated(g, r) : Explicit(g, r, Termination(ObjectOf(g, r).statuses[d]))}}
        \cup
        {TerminationFinding(g, r, c, "container-sigkill") :
            c \in {d \in Terminated(g, r) : AmbiguousSigkill(g, r, d)}} :
        r \in PodRefs(g)}

-----------------------------------------------------------------------------
(* Pods that are not Ready, and their probes. *)

\* A Pod whose Ready condition is absent is not Ready either.
PodNotReadyFindings(g) ==
    {FindingOf("pod-not-ready", r, NoSubject, "current") :
        r \in {p \in PodRefs(g) : ObjectOf(g, p).phase # "Succeeded" /\ ~ObjectOf(g, p).ready}}

Probed(pod) == {c \in DOMAIN pod.probe : pod.probe[c] # "none"}

SoleReadinessProbeContainer(pod) ==
    IF \E c \in Probed(pod) : Probed(pod) = {c}
    THEN CHOOSE c \in Probed(pod) : TRUE
    ELSE NoSubject

\* Every Unhealthy Event here is about a readiness probe.
ReadinessProbeFailingFindings(g) ==
    {FindingOf("readiness-probe-failing", r, SoleReadinessProbeContainer(ObjectOf(g, r)), "current") :
        r \in {p \in PodRefs(g) : ~ObjectOf(g, p).ready /\ EventsMatching(g, p, "Unhealthy") # {}}}

\* An undeclared number proves nothing unless a failure names that port.
ProbePortImpact(g, r, c) ==
    IF \/ ObjectOf(g, r).probe[c] = "name"
       \/ \E e \in EventsMatching(g, r, "Unhealthy") : e.about = c
    THEN "current"
    ELSE "risk"

ReadinessProbePortFindings(g) ==
    UNION {{FindingOf("readiness-probe-port-mismatch", r, c, ProbePortImpact(g, r, c)) :
              c \in {d \in DOMAIN ObjectOf(g, r).probe :
                       ObjectOf(g, r).probe[d] \in {"name", "number"}}} :
            r \in PodRefs(g)}

-----------------------------------------------------------------------------
(* Nodes under pressure, and the Pods evicted from them. *)

NodePressureFindings(g) ==
    {FindingOf("node-pressure", r, NoSubject, "current") :
        r \in {n \in DOMAIN g.nodes :
                n.kind = "Node" /\ ObjectOf(g, n) # NoObject /\ ObjectOf(g, n).pressure}}

EvictedByStatus(pod) == pod.phase = "Failed" /\ pod.reason = "Evicted"

PodEvictedFindings(g) ==
    {FindingOf("pod-evicted", r, NoSubject, "current") :
        r \in {p \in PodRefs(g) :
                EvictedByStatus(ObjectOf(g, p)) \/ EventsMatching(g, p, "Evicted") # {}}}

-----------------------------------------------------------------------------

PodFindings(g) ==
    CrashLoopFindings(g) \cup OomKilledFindings(g) \cup PodNotReadyFindings(g)
    \cup ReadinessProbeFailingFindings(g) \cup ReadinessProbePortFindings(g)
    \cup NodePressureFindings(g) \cup PodEvictedFindings(g)

=============================================================================
