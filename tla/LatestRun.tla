----------------------------- MODULE LatestRun -----------------------------
(***************************************************************************)
(* What "the latest run of a CronJob" means.  jobs is the list of Jobs of  *)
(* the namespace in the order the API server returned it, each Job reduced *)
(* to a record                                                             *)
(*   owned    its controller ownerReference names this CronJob's UID       *)
(*   stamped  it has a valid batch.kubernetes.io/cronjob-scheduled-timestamp *)
(*   at       the time of that annotation                                  *)
(* Evidence that cannot single out one Job fails closed: no run is chosen  *)
(* and an issue that blocks health says why.                               *)
(***************************************************************************)
EXTENDS Integers, Sequences

JobView(stamps) == [owned : BOOLEAN, stamped : BOOLEAN, at : stamps]

OwnedJobs(jobs) == {i \in DOMAIN jobs : jobs[i].owned}

\* Faulty variant: the comparison is the wrong way round.
Oldest(jobs) ==
    {i \in OwnedJobs(jobs) : \A j \in OwnedJobs(jobs) : jobs[i].at <= jobs[j].at}

Newest(jobs) ==
    {i \in OwnedJobs(jobs) : \A j \in OwnedJobs(jobs) : jobs[j].at <= jobs[i].at}

Verdict(job, issue) == [job |-> job, issue |-> issue]

\* The index of the latest run, 0 if there is none, and the issue recorded.
LatestRunOf(jobs, scheduledBefore) ==
    IF \E i \in OwnedJobs(jobs) : ~jobs[i].stamped
    THEN Verdict(0, "unordered")
    ELSE IF OwnedJobs(jobs) = {}
    THEN Verdict(0, IF scheduledBefore THEN "removed" ELSE "none")
    ELSE IF \E i \in OwnedJobs(jobs) : Newest(jobs) = {i}
    THEN Verdict(CHOOSE i \in OwnedJobs(jobs) : Newest(jobs) = {i}, "none")
    ELSE Verdict(0, "tied")

=============================================================================
