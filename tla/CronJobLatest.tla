--------------------------- MODULE CronJobLatest ---------------------------
(***************************************************************************)
(* latestOwnedCronJobJob (internal/kube/collector.go): the scan that picks  *)
(* the latest run of a CronJob from the Jobs of its namespace, one step per *)
(* iteration.  The API server promises no order of creation or schedule in  *)
(* a list, so the scan keeps the best Job so far and whether it is tied.   *)
(***************************************************************************)
EXTENDS LatestRun

CONSTANTS
    MaxJobs,   \* bound: the length of a list
    Stamps     \* the times an annotation may hold

ASSUME CronJobLatestAssumption == MaxJobs \in Nat /\ Stamps \subseteq Int

VARIABLES
    jobs,            \* the list
    scheduledBefore, \* status.lastScheduleTime is set
    i,               \* the Job the next iteration looks at
    latest,          \* index of the best Job so far, 0 for nil
    latestAt,        \* its scheduled time
    ambiguous,       \* another Job has the same time
    ownedCount,      \* owned Jobs seen
    outcome          \* what the function returned, Pending while it runs

vars == <<jobs, scheduledBefore, i, latest, latestAt, ambiguous, ownedCount, outcome>>

Pending == Verdict(0, "pending")

JobLists == UNION {[1..n -> JobView(Stamps)] : n \in 0..MaxJobs}

Issues == {"pending", "none", "unordered", "removed", "tied"}

TypeOK ==
    /\ jobs \in JobLists
    /\ scheduledBefore \in BOOLEAN
    /\ i \in 1..(Len(jobs) + 1)
    /\ latest \in 0..Len(jobs)
    /\ latestAt \in Int
    /\ ambiguous \in BOOLEAN
    /\ ownedCount \in Nat
    /\ outcome \in [job : 0..Len(jobs), issue : Issues]

Init ==
    /\ jobs \in JobLists
    /\ scheduledBefore \in BOOLEAN
    /\ i = 1
    /\ latest = 0
    /\ latestAt = 0
    /\ ambiguous = FALSE
    /\ ownedCount = 0
    /\ outcome = Pending

Return(job, issue) == outcome' = Verdict(job, issue)

Looking == outcome = Pending /\ i <= Len(jobs)

\* isControllerOwner is false.
SkipForeign ==
    /\ Looking
    /\ ~jobs[i].owned
    /\ i' = i + 1
    /\ UNCHANGED <<jobs, scheduledBefore, latest, latestAt, ambiguous, ownedCount, outcome>>

\* One Job that cannot be ordered ends the scan, wherever it is in the list.
RejectUnordered ==
    /\ Looking
    /\ jobs[i].owned
    /\ ~jobs[i].stamped
    /\ ownedCount' = ownedCount + 1
    /\ Return(0, "unordered")
    /\ UNCHANGED <<jobs, scheduledBefore, i, latest, latestAt, ambiguous>>

Newer == latest = 0 \/ jobs[i].at > latestAt

\* Faulty variant: a tie is remembered past a strictly newer Job.
ConsiderKeepingTie ==
    /\ Looking
    /\ jobs[i].owned
    /\ jobs[i].stamped
    /\ ownedCount' = ownedCount + 1
    /\ latest' = IF Newer THEN i ELSE latest
    /\ latestAt' = IF Newer THEN jobs[i].at ELSE latestAt
    /\ ambiguous' = (ambiguous \/ (latest # 0 /\ jobs[i].at = latestAt))
    /\ i' = i + 1
    /\ UNCHANGED <<jobs, scheduledBefore, outcome>>

Consider ==
    /\ Looking
    /\ jobs[i].owned
    /\ jobs[i].stamped
    /\ ownedCount' = ownedCount + 1
    /\ latest' = IF Newer THEN i ELSE latest
    /\ latestAt' = IF Newer THEN jobs[i].at ELSE latestAt
    /\ ambiguous' = IF Newer THEN FALSE ELSE ambiguous \/ jobs[i].at = latestAt
    /\ i' = i + 1
    /\ UNCHANGED <<jobs, scheduledBefore, outcome>>

\* The list is exhausted: removed history, a tie, or the latest (perhaps nil).
Finish ==
    /\ outcome = Pending
    /\ i > Len(jobs)
    /\ IF ownedCount = 0 /\ scheduledBefore THEN Return(0, "removed")
       ELSE IF ambiguous THEN Return(0, "tied")
       ELSE Return(latest, "none")
    /\ UNCHANGED <<jobs, scheduledBefore, i, latest, latestAt, ambiguous, ownedCount>>

Next == SkipForeign \/ RejectUnordered \/ Consider \/ Finish

Spec == Init /\ [][Next]_vars

-----------------------------------------------------------------------------

\* Whatever the order of the list, the scan returns what LatestRunOf defines:
\* the one owned Job no other owned Job is as new as, or nothing and the issue
\* that says why (collector.go:289-337).
ScanFindsLatestRun == outcome # Pending => outcome = LatestRunOf(jobs, scheduledBefore)

\* What the scan has established about the part of the list it has seen.
Seen == {j \in OwnedJobs(jobs) : j < i}

ScanInvariant ==
    /\ TypeOK
    /\ outcome.issue # "unordered" => \A j \in Seen : jobs[j].stamped
    /\ outcome.issue # "unordered" => (ownedCount = 0 <=> Seen = {})
    /\ latest = 0 <=> Seen = {}
    /\ latest # 0 => /\ latest \in Seen
                     /\ latestAt = jobs[latest].at
                     /\ \A j \in Seen : jobs[j].at <= latestAt
    /\ ambiguous <=> \E j \in Seen : j # latest /\ jobs[j].at = latestAt
    /\ ScanFindsLatestRun

=============================================================================
