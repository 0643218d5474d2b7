-------------------------- MODULE EngineProperties --------------------------
(***************************************************************************)
(* What the exit status of the command may be trusted for.                 *)
(***************************************************************************)
EXTENDS Engine

RuleIds == {Rules[i].id : i \in DOMAIN Rules}

TypeOK ==
    /\ graph \in Graphs
    /\ server \in Minors \cup {NoMinor}
    /\ kubelets \in [NodeRefs -> Minors \cup {NoMinor}]
    /\ next \in 1..(Len(Rules) + 1)
    /\ evaluated \in 0..Len(Rules)
    /\ skipped \subseteq RuleIds
    /\ result.health \in {"pending", "healthy", "unknown", "degraded"}
    /\ exit \in {Running, 0, 1, 2}

\* Exit status 0 is earned: the graph was not torn, every rule of the registry
\* was evaluated over a server and kubelets it was reviewed for, nothing that
\* blocks health was left uncollected, and no rule said anything current of the
\* focus, in a type it declares or not (engine.go:76-185, README.md:114-118).
HealthyIsEarned ==
    exit = 0 =>
        /\ ~Suspended /\ ~HasHealthBlockingIssue(graph)
        /\ evaluated = Len(Rules)
        /\ \A i \in DOMAIN Rules : Compatible(Rules[i])
        /\ ~\E f \in said : CurrentOnFocus(f)

\* Exit status 2 is proved: a rule that declares the finding's type said so of
\* the focus, over a graph that was not torn, and was reviewed for the version
\* of the server and of every related Node it depends on (engine.go:187-237).
DegradedIsProved ==
    exit = 2 =>
        /\ ~Suspended
        /\ \E f \in findings : \E i \in DOMAIN Rules :
            /\ CurrentOnFocus(f)
            /\ f.rule = Rules[i].id /\ f.type \in Rules[i].types
            /\ server # NoMinor /\ Supports(Rules[i], server)
            /\ Rules[i].kubelet =>
                \A r \in NodeRefs :
                    /\ ObjectOf(graph, r) # NoObject
                    /\ kubelets[r] # NoMinor /\ kubelets[r] <= server
                    /\ Supports(Rules[i], kubelets[r])

\* A result that is not marked partial is whole: nothing went uncollected, every
\* rule was evaluated and all it said was kept (how-it-works.md:265-274).
WholeUnlessPartial ==
    (result # Pending /\ ~result.partial) =>
        /\ graph.issues = {}
        /\ evaluated = Len(Rules)
        /\ findings = said

=============================================================================
