--------------------------- MODULE ResourceGraph ---------------------------
(***************************************************************************)
(* The resource graph one inspection builds around its focus               *)
(* (internal/graph/graph.go), as a value with operators on it: the code's  *)
(* Graph has no behaviour of its own, its methods are called by the        *)
(* collector and by the rules.                                             *)
(*                                                                         *)
(* A graph is a record:                                                    *)
(*   focus      the resource the user asked about                          *)
(*   nodes      a function from the refs in the graph to their nodes       *)
(*   edges      a set of typed, directed edges                             *)
(*   issues     the evidence the collector could not obtain                *)
(*   events     the Events attached to the graph                           *)
(*   version    whether the API server's version was recorded              *)
(*   start      uid and revision of the focus at its first read            *)
(*   stability  the verdict of the final read of the focus                 *)
(* Messages, timestamps and the sorting of results are left out.           *)
(***************************************************************************)
EXTENDS Objects

GraphFields == {"focus", "nodes", "edges", "issues", "events", "version", "start", "stability"}

IsGraph(g) == DOMAIN g = GraphFields

-----------------------------------------------------------------------------

Missing(node)          == node.object = NoObject /\ ~node.unknown
ExistenceUnknown(node) == node.object = NoObject /\ node.unknown

Edge(from, to, type) == [from |-> from, to |-> to, type |-> type]

NewGraph(focus) ==
    [focus |-> focus, nodes |-> [r \in {} |-> NoObject], edges |-> {},
     issues |-> {}, events |-> {}, version |-> FALSE,
     start |-> NoObject, stability |-> "unknown"]

-----------------------------------------------------------------------------
(* Nodes and edges. *)

InGraph(g, ref) == ref \in DOMAIN g.nodes

ObjectOf(g, ref) == IF InGraph(g, ref) THEN g.nodes[ref].object ELSE NoObject

PutNode(g, ref, node) ==
    [g EXCEPT !.nodes = [r \in DOMAIN g.nodes \cup {ref} |->
                            IF r = ref THEN node ELSE g.nodes[r]]]

\* A held object is never replaced.  Otherwise the node takes what is offered:
\* an object, or (NoObject) the definite answer that there is none.
AddNode(g, ref, object) ==
    IF ObjectOf(g, ref) # NoObject
    THEN g
    ELSE PutNode(g, ref, [object |-> object, unknown |-> FALSE])

\* AddNode for each of a set of objects that name different refs.
AddNodes(g, objects) ==
    LET Named(r) == {o \in objects : o.ref = r}
    IN  [g EXCEPT !.nodes =
            [r \in DOMAIN g.nodes \cup {o.ref : o \in objects} |->
                IF ObjectOf(g, r) = NoObject /\ Named(r) # {}
                THEN [object |-> CHOOSE o \in Named(r) : TRUE, unknown |-> FALSE]
                ELSE g.nodes[r]]]

AddUnknownNode(g, ref) ==
    IF InGraph(g, ref)
    THEN g
    ELSE PutNode(g, ref, [object |-> NoObject, unknown |-> TRUE])

AddEdges(g, edges) == [g EXCEPT !.edges = @ \cup edges]

HasEdge(g, from, to, type) == Edge(from, to, type) \in g.edges

\* Faulty variant: nodes reached earlier stay in the frontier.
GrowingFrontier(g, from, path) ==
    LET reached[i \in 0..Len(path)] ==
          IF i = 0
          THEN {from}
          ELSE reached[i - 1] \cup
               {e.to : e \in {f \in g.edges : f.from \in reached[i - 1]
                                              /\ f.type = path[i]}}
    IN  reached[Len(path)]

\* The frontier reached from a node along the first i types of a path.
Frontier(g, from, path) ==
    LET reached[i \in 0..Len(path)] ==
          IF i = 0
          THEN {from}
          ELSE {e.to : e \in {f \in g.edges : f.from \in reached[i - 1]
                                              /\ f.type = path[i]}}
    IN  reached[Len(path)]

HasTypedPath(g, from, to, path) == to \in Frontier(g, from, path)

-----------------------------------------------------------------------------
(* Events.  A node with an object has a UID, and only Events that name that *)
(* UID are evidence about it.                                               *)

AddEvents(g, events) == [g EXCEPT !.events = @ \cup events]

EventsFor(g, ref) ==
    {e \in g.events : /\ e.involved = ref
                      /\ ObjectOf(g, ref) # NoObject => e.uid = ObjectOf(g, ref).uid}

-----------------------------------------------------------------------------
(* Collection issues. *)

Issue(source, resource, affectsHealth) ==
    [source |-> source, resource |-> resource, affectsHealth |-> affectsHealth]

AddCollectionIssue(g, issue) == [g EXCEPT !.issues = @ \cup {issue}]

HasCollectionIssue(g, source, ref) ==
    \E i \in g.issues : i.source = source /\ i.resource = ref

HasCollectionSourceIssue(g, source) == \E i \in g.issues : i.source = source

HasHealthBlockingIssue(g) == \E i \in g.issues : i.affectsHealth

\* What the engine relies on in any graph: the server's version, or an issue that
\* says why not; and neither that nor a temporal issue leaves health alone.
CollectedGraph(g) ==
    /\ g.version \/ HasCollectionIssue(g, "kubernetes-version", g.focus)
    /\ \A i \in g.issues :
        i.source \in {"kubernetes-version", "temporal-integrity"} => i.affectsHealth

-----------------------------------------------------------------------------
(* The two reads of the focus that bound a collection. *)

\* Faulty variant: only the desired specification counts.
SpecRevision(object) == [uid |-> object.uid, rv |-> 0, gen |-> object.gen]

FocusRevision(object) ==
    [uid |-> object.uid, rv |-> object.rv, gen |-> object.gen]

BeginCollection(g, object) ==
    [g EXCEPT !.start = FocusRevision(object), !.stability = "unknown"]

\* Faulty variant: without a final read there is no change to report.
FinishUnlessChanged(g, object) ==
    [g EXCEPT !.stability =
        IF object # NoObject /\ FocusRevision(object) # g.start THEN "changed" ELSE "stable"]

\* NoObject: the final read could not establish anything.
FinishCollection(g, object) ==
    [g EXCEPT !.stability =
        IF g.start = NoObject \/ object = NoObject THEN "unknown"
        ELSE IF FocusRevision(object) = g.start THEN "stable"
        ELSE "changed"]

SetKubernetesVersion(g) == [g EXCEPT !.version = TRUE]

=============================================================================
