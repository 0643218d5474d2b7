-------------------------- MODULE KubeletProperties --------------------------
(***************************************************************************)
(* What an inspection may say of containers that stopped (Kubelet).        *)
(***************************************************************************)
EXTENDS Kubelet

Done == step = "done"

Findings == PodFindings(graph)
Links    == Correlate(graph, Findings)

\* Those of the only rule that reports terminations.
TerminationFindings == OomKilledFindings(graph)

ReadStatus(c) == ObjectOf(graph, PodRef).statuses[c]

-----------------------------------------------------------------------------

\* Every variable has its type; a complete graph has a node at both ends of its edges.
TypeOK ==
    /\ pod \in PodState
    /\ pressure \in BOOLEAN
    /\ recorded \subseteq {EventAbout(reason, about) :
                            reason \in {"OOMKilling", "Killing", "Unhealthy", "Evicted"},
                            about \in Containers \cup {NoSubject}}
    /\ missed \in BOOLEAN
    /\ stopped \in 0..MaxTerminations
    /\ oomed \subseteq Containers
    /\ lag \in 0..MaxLag
    /\ step \in {"pod", "node", "events", "done"}
    /\ Done => \A e \in graph.edges : {e.from, e.to} \subseteq DOMAIN graph.nodes

\* A container is not called OOM-killed in a Pod none of whose containers the kernel
\* killed, however often they exited with 137 (oomKilledRule: no OOM fact).
OomWasAKill ==
    Done => \A f \in TerminationFindings : f.type = "container-oomkilled" => oomed # {}

\* While a Pod is not Ready, a container the kubelet itself stopped, to evict the Pod or
\* to restart the container, is not reported as killed for reasons unknown, unless the
\* Event that says so was lost: Events are read after the Pod, and if they could not be
\* read there is no such finding.  (A Ready Pod's Events are not read: podNeedsEvents.)
KubeletKillIsNoMystery ==
    Done /\ NeedsEvents => \A f \in TerminationFindings :
        f.type = "container-sigkill" /\ Termination(ReadStatus(f.container)) = KubeletKill =>
            missed

\* What explains that a Pod is not Ready is going on now: the engine's judgement of a
\* finding's impact (terminationStillDisrupting) and the correlation's own reading of
\* the container's state (currentTerminationMatchesFinding) never contradict each other.
OnlyCurrentTerminationsExplainNotReady ==
    \A link \in IF Done THEN Links ELSE {} :
        link[2].type = "pod-not-ready" /\ link[1].type \in {"container-oomkilled", "container-sigkill"}
            => link[1].impact = "current"

\* A recovered container degrades nothing: a termination finding with a current impact
\* is about a container that was not running when the Pod was read.
CurrentTerminationIsDown ==
    Done => \A f \in TerminationFindings :
        f.impact = "current" => ~Running(ReadStatus(f.container))

\* A Pod that is not Ready because a container loops after an OOM kill is explained from
\* the kill, also while the container only waits to be restarted: the kill, the loop and
\* the Pod's state are one chain of links, all of them current (samePodComponent).
OomLoopIsExplained ==
    Done => \A c \in Containers :
        ReadStatus(c).waiting = "CrashLoopBackOff" /\ OomTermination(ReadStatus(c).last) =>
            LET loop == FindingOf("crashloop-backoff", PodRef, c, "current")
            IN  /\ <<FindingOf("container-oomkilled", PodRef, c, "current"), loop>> \in Links
                /\ <<loop, FindingOf("pod-not-ready", PodRef, NoSubject, "current")>> \in Links

-----------------------------------------------------------------------------
(* What the documentation says, and the code does otherwise. *)

\* docs/how-it-works.md: "an OOM in one container cannot explain a CrashLoop in
\* another container".  (oomKilledRule takes any OOMKilling Event about the Pod for
\* a statement about each of its containers that ever stopped.)
OomExplainsItsOwnContainer ==
    \A link \in IF Done THEN Links ELSE {} :
        link[1].type = "container-oomkilled" /\ link[2].type = "crashloop-backoff" =>
            link[2].container \in oomed

\* rules_workload.go: "oomKilledRule fires when a container was terminated by the
\* kernel OOM killer".  (The rule looks at the previous termination if there is one,
\* and then not at the present one.)
OomKillIsReported ==
    Done => \A c \in Containers :
        ReadStatus(c).terminated = OomKill =>
            \E f \in TerminationFindings : f.type = "container-oomkilled" /\ f.container = c

=============================================================================
