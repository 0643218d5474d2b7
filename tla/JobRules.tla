------------------------------ MODULE JobRules ------------------------------
(***************************************************************************)
(* The rules that read Jobs and CronJobs (internal/diag/rules_job.go), as  *)
(* functions from a graph to findings.  A Job in the graph is              *)
(* [ref, backoffLimit, failed, target] as in Correlation: failed and       *)
(* target are the reasons of the Failed and FailureTarget conditions that  *)
(* are True.                                                               *)
(***************************************************************************)
EXTENDS PodRules

RefsHeld(g, kind) == {r \in DOMAIN g.nodes : r.kind = kind /\ ObjectOf(g, r) # NoObject}

\* The Job has failed, or will have once its Pods are gone.
MetFailureCriteria(job) == FailureReason(job) # ""

JobFailedFindings(g) ==
    {FindingOf("job-failed", r, NoSubject, "current") :
        r \in {j \in RefsHeld(g, "Job") : MetFailureCriteria(ObjectOf(g, j))}}

\* Faulty variant: any Job of the CronJob is taken for its latest run.
RunsOwned(g, r) == {e.to : e \in {f \in g.edges : f.from = r /\ f.type = "owns"}}

LatestRuns(g, r) == {e.to : e \in {f \in g.edges : f.from = r /\ f.type = "latest-run"}}

CronJobLatestRunFailedFindings(g) ==
    {FindingOf("cronjob-latest-run-failed", r, NoSubject, "current") :
        r \in {c \in RefsHeld(g, "CronJob") :
                \E j \in LatestRuns(g, c) :
                    ObjectOf(g, j) # NoObject /\ MetFailureCriteria(ObjectOf(g, j))}}

JobFindings(g) == JobFailedFindings(g) \cup CronJobLatestRunFailedFindings(g)

=============================================================================
