------------------------------- MODULE Console -------------------------------
(***************************************************************************)
(* Which findings the console shows as one entry                           *)
(* (internal/report/console.go), and the owner it takes their Pods to be   *)
(* replicas of (internal/diag/engine.go).  JSON keeps every finding apart. *)
(* A finding's rule, severity and confidence follow from its type and      *)
(* impact for findings about Pods, and are left out of the key.            *)
(***************************************************************************)
EXTENDS Correlation

\* The Deployments that own the Pod through a ReplicaSet, or else the
\* StatefulSets that own it.
ReplicaOwners(g, f) ==
    LET OfKind(kind) == {r \in DOMAIN g.nodes : r.kind = kind}
        deployments  == {d \in OfKind("Deployment") :
                            HasTypedPath(g, d, f.resource, <<"owns", "owns">>)}
    IN  IF f.resource.kind # "Pod" THEN {}
        ELSE IF deployments # {} THEN deployments
        ELSE {s \in OfKind("StatefulSet") : HasEdge(g, s, f.resource, "owns")}

\* Which types of findings, and how many of each.
CausalTypeSignature(findings) ==
    [type \in {f.type : f \in findings} |-> Cardinality({f \in findings : f.type = type})]

\* Faulty variant: replicas with the same causes, whatever they lead to.
KeyWithoutCauses(g, links, f) ==
    <<CHOOSE owner \in ReplicaOwners(g, f) : TRUE,
      f.type, f.impact, f.container, CausalTypeSignature(CausedBy(links, f))>>

\* Two findings of one key are shown as one; the first owner stands for all.
ReplicaGroupKey(g, links, f) ==
    <<CHOOSE owner \in ReplicaOwners(g, f) : TRUE,
      f.type, f.impact, f.container,
      CausalTypeSignature(CausedBy(links, f)), CausalTypeSignature(Causes(links, f))>>

GroupReplicaFindings(g, links, findings) ==
    LET owned == {f \in findings : ReplicaOwners(g, f) # {}}
    IN  {{f} : f \in findings \ owned} \cup
        {{h \in owned : ReplicaGroupKey(g, links, h) = ReplicaGroupKey(g, links, f)} : f \in owned}

\* The entries of the three sections of a report.
Entries(g, links, findings) ==
    UNION {GroupReplicaFindings(g, links, section) :
            section \in {RootCauses(links, findings), Symptoms(links, findings),
                         Standalone(links, findings)}}

=============================================================================
