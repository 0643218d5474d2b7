--------------------------- MODULE JobsProperties ---------------------------
(***************************************************************************)
(* Which Pods a failed Job is blamed on, and what a failed run of a        *)
(* CronJob is explained by (Jobs).                                         *)
(***************************************************************************)
EXTENDS Jobs

\* No rule is asked about evidence that spans a transition.
Findings ==
    IF plan # <<>> \/ HasCollectionSourceIssue(graph, "temporal-integrity")
    THEN {}
    ELSE PodFindings(graph) \cup JobFindings(graph)

Links == Correlate(graph, Findings)

Blamed == {p \in PodIds : \E link \in Links :
                            link[1].resource = PodRef(p) /\ link[2].type = "job-failed"}

-----------------------------------------------------------------------------

\* Every variable has its type; a complete graph has a node at both ends of its edges.
TypeOK ==
    /\ job \in [limit : Limits, target : {"", "BackoffLimitExceeded", "DeadlineExceeded"},
                failed : {"", "BackoffLimitExceeded", "DeadlineExceeded"}]
    /\ pods \in [PodIds -> {"absent", "starting", "running", "failed", "stopped", "succeeded"}]
    /\ culprits \subseteq PodIds
    /\ {active, changed} \subseteq BOOLEAN
    /\ lag \in 0..MaxLag
    /\ focus \in Foci
    /\ plan = <<>> => \A e \in graph.edges : {e.from, e.to} \subseteq DOMAIN graph.nodes

\* Whatever moved meanwhile, a CronJob whose latest run is said to have failed is
\* explained by that run's own finding: two rules read the Job's conditions alike
\* (jobFailedRule, cronJobLatestRunFailedRule, failedJobIsLatestCronJobRun).
LatestRunFailureIsExplained ==
    \A e \in Findings :
        e.type = "cronjob-latest-run-failed" =>
            \E link \in Links : link[1].type = "job-failed" /\ link[2] = e

\* The Pods that spent a retry budget of zero are blamed, from the moment the controller
\* says that the budget is spent: every one of them that was collected, while the Job's
\* other Pods are still being stopped and after (failedPodExhaustedJobRetryBudget).
CulpritIsBlamed ==
    \A e \in Findings :
        e.type = "job-failed" /\ job.limit = 0 =>
            {p \in culprits : InGraph(graph, PodRef(p))} \subseteq Blamed

\* A Job whose deadline passed, or that was allowed a retry, is blamed on no Pod,
\* although its Pods end Failed; and no Pod is blamed that may still succeed.
OnlySpentBudgetIsBlamed ==
    \A p \in Blamed :
        /\ culprits # {} /\ job.limit = 0
        /\ pods[p] \notin {"starting", "running", "succeeded"}

=============================================================================
