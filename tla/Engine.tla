------------------------------- MODULE Engine -------------------------------
(***************************************************************************)
(* The engine (internal/diag/engine.go) running the registered rules over  *)
(* a collected graph, one rule a step, and the exit status the command     *)
(* ends with (internal/cli/cli.go).                                        *)
(*                                                                         *)
(* What a rule says of the graph is arbitrary here: any rule may emit any  *)
(* finding, one of a type it does not declare included.  What is modelled  *)
(* is which rules are asked, what becomes of their answers, and what an    *)
(* answer nobody got does to the verdict.  The order and the ids of        *)
(* findings, and the text of warnings, are left out.                       *)
(***************************************************************************)
EXTENDS ResourceGraph, FiniteSets

CONSTANTS
    Rules,       \* the registrations, in order: [id, min, max, kubelet, types]
    Types,       \* finding types, those no rule declares included
    Emissions,   \* bound: what one rule may say of a graph, sets of findings
    Graphs,      \* bound: the graphs a collector may hand over
    Minors       \* bound: the Kubernetes minors servers and kubelets report

VARIABLES
    graph,      \* the collected graph; no step changes it
    server,     \* the API server's minor; the major is 1 throughout
    kubelets,   \* the minor each Node in the graph reports
    next,       \* the registration looked at next
    evaluated,  \* how many rules were evaluated
    skipped,    \* the ids of the rules skipped for their compatibility
    findings,   \* the findings accepted, each with the rule that made it
    warnings,   \* evaluationWarnings: the types discarded, each with the rule
    said,       \* history: all findings, discarded ones included
    result,     \* the outcome, Pending while rules run
    exit        \* the exit status, Running until the command ends

answers == <<findings, warnings, said>>
vars == <<graph, server, kubelets, next, evaluated, skipped, answers, result, exit>>

-----------------------------------------------------------------------------

Impacts == {"", "current", "risk", "historical"}

Finding == [type : Types, resource : Refs, impact : Impacts]

\* A kubelet or a server that does not report a version anyone can read.
NoMinor == 0

\* NewRegistry: one rule an id, one owner a finding type, a range that is one.
RegistryOf(rules) ==
    /\ rules # <<>>
    /\ \A i \in DOMAIN rules : rules[i].types # {} /\ rules[i].min <= rules[i].max
    /\ \A i, j \in DOMAIN rules :
        i # j => rules[i].id # rules[j].id /\ rules[i].types \cap rules[j].types = {}

ASSUME EngineAssumption ==
    /\ Rules \in Seq([id : STRING, min : Nat, max : Nat, kubelet : BOOLEAN, types : SUBSET Types])
    /\ RegistryOf(Rules)
    /\ Emissions \subseteq SUBSET Finding
    /\ \A g \in Graphs : CollectedGraph(g)
    /\ Minors \subseteq Nat \ {NoMinor}

-----------------------------------------------------------------------------
(* Which rules may be asked. *)

Supports(rule, minor) == rule.min <= minor /\ minor <= rule.max

NodeRefs == {r \in DOMAIN graph.nodes : r.kind = "Node"}

\* A Node whose kubelet a rule's reading of its evidence was reviewed for.
ReviewedKubelet(rule, r) ==
    /\ ObjectOf(graph, r) # NoObject
    /\ kubelets[r] # NoMinor
    /\ kubelets[r] <= server
    /\ Supports(rule, kubelets[r])

\* Faulty variant: Nodes that could not be read are passed over.
CompatibleIfSeen(rule) ==
    /\ Supports(rule, server)
    /\ rule.kubelet =>
        \A r \in NodeRefs : ObjectOf(graph, r) = NoObject \/ ReviewedKubelet(rule, r)

Compatible(rule) ==
    /\ Supports(rule, server)
    /\ rule.kubelet => \A r \in NodeRefs : ReviewedKubelet(rule, r)

VersionUnavailable == HasCollectionIssue(graph, "kubernetes-version", graph.focus)

Suspended == HasCollectionSourceIssue(graph, "temporal-integrity")

Skips(rule) == VersionUnavailable \/ (graph.version /\ ~Compatible(rule))

-----------------------------------------------------------------------------
(* One registration a step. *)

Pending == [health |-> "pending", partial |-> FALSE]
Running == -1

Looking == result = Pending /\ next <= Len(Rules)

Advance ==
    /\ next' = next + 1
    /\ UNCHANGED <<graph, server, kubelets, result, exit>>

\* The graph spans a transition: no rule is asked, and none is listed as skipped.
PassOver ==
    /\ Looking
    /\ Suspended
    /\ Advance
    /\ UNCHANGED <<evaluated, skipped, answers>>

SkipRule ==
    /\ Looking
    /\ ~Suspended
    /\ Skips(Rules[next])
    /\ Advance
    /\ skipped' = skipped \cup {Rules[next].id}
    /\ UNCHANGED <<evaluated, answers>>

\* The finding as it is kept: an impact nobody set is a current one.
Accepted(rule, finding) ==
    [rule |-> rule.id, type |-> finding.type, resource |-> finding.resource,
     impact |-> IF finding.impact = "" THEN "current" ELSE finding.impact]

Declared(rule, emitted) == {f \in emitted : f.type \in rule.types}

\* Faulty variant: a finding of an undeclared type goes without a word.
NoWarnings(rule, emitted) == {}

\* One warning for each finding discarded, which blocks health.
Warnings(rule, emitted) ==
    {[rule |-> rule.id, type |-> f.type] : f \in emitted \ Declared(rule, emitted)}

EvaluateRule ==
    /\ Looking
    /\ ~Suspended
    /\ ~Skips(Rules[next])
    /\ Advance
    /\ evaluated' = evaluated + 1
    /\ \E emitted \in Emissions :
        LET rule == Rules[next]
        IN  /\ findings' = findings \cup {Accepted(rule, f) : f \in Declared(rule, emitted)}
            /\ warnings' = warnings \cup Warnings(rule, emitted)
            /\ said' = said \cup {Accepted(rule, f) : f \in emitted}
    /\ UNCHANGED skipped

-----------------------------------------------------------------------------
(* The verdict. *)

CurrentOnFocus(f) == f.impact = "current" /\ f.resource = graph.focus

\* Skipped rules are a warning of their own unless the version's issue is there.
SkipWarning == skipped # {} /\ ~VersionUnavailable

\* Faulty variant: rules that were not asked are not missed.
HealthWithoutSkips ==
    IF \E f \in findings : CurrentOnFocus(f) THEN "degraded"
    ELSE IF HasHealthBlockingIssue(graph) \/ warnings # {} THEN "unknown"
    ELSE "healthy"

Health ==
    IF \E f \in findings : CurrentOnFocus(f) THEN "degraded"
    ELSE IF HasHealthBlockingIssue(graph) \/ warnings # {} \/ SkipWarning THEN "unknown"
    ELSE "healthy"

Partial == graph.issues # {} \/ warnings # {} \/ SkipWarning

Conclude ==
    /\ result = Pending
    /\ next > Len(Rules)
    /\ result' = [health |-> Health, partial |-> Partial]
    /\ UNCHANGED <<graph, server, kubelets, next, evaluated, skipped, answers, exit>>

ExitCode(health) ==
    CASE health = "degraded" -> 2
      [] health = "unknown"  -> 1
      [] health = "healthy"  -> 0

\* The report is written before the status is decided; if it cannot be (an unknown
\* format, a JSON encoding or write error) that is the command's error.
Exit ==
    /\ result # Pending
    /\ exit = Running
    /\ \E rendered \in BOOLEAN : exit' = IF rendered THEN ExitCode(result.health) ELSE 1
    /\ UNCHANGED <<graph, server, kubelets, next, evaluated, skipped, answers, result>>

-----------------------------------------------------------------------------

Init ==
    /\ graph \in Graphs
    /\ server \in IF graph.version THEN Minors ELSE {NoMinor}
    /\ kubelets \in [NodeRefs -> Minors \cup {NoMinor}]
    /\ next = 1
    /\ evaluated = 0
    /\ skipped = {}
    /\ findings = {}
    /\ warnings = {}
    /\ said = {}
    /\ result = Pending
    /\ exit = Running

Next == PassOver \/ SkipRule \/ EvaluateRule \/ Conclude \/ Exit

Spec == Init /\ [][Next]_vars

=============================================================================
