------------------------ MODULE CronJobLatest_proofs ------------------------
(***************************************************************************)
(* The scan for the latest run is right for every list of Jobs, whatever   *)
(* its length and its times.                                               *)
(***************************************************************************)
EXTENDS CronJobLatest, TLAPS

\* What stands in the list is a Job.
LEMMA JobsInList ==
    ASSUME TypeOK
    PROVE  /\ Len(jobs) \in Nat
           /\ DOMAIN jobs = 1..Len(jobs)
           /\ \A j \in 1..Len(jobs) : jobs[j] \in JobView(Int)
           /\ Seen \subseteq OwnedJobs(jobs)
           /\ \A j : j \in Seen <=> j \in 1..Len(jobs) /\ jobs[j].owned /\ j < i
<1>1. PICK n \in 0..MaxJobs : jobs \in [1..n -> JobView(Stamps)]
    BY DEF TypeOK, JobLists
<1>2. n \in Nat /\ Len(jobs) = n /\ DOMAIN jobs = 1..n
    BY <1>1, CronJobLatestAssumption
<1>3. JobView(Stamps) \subseteq JobView(Int)
    BY CronJobLatestAssumption DEF JobView
<1> QED
    BY <1>1, <1>2, <1>3 DEF Seen, OwnedJobs

\* What the loop knows at its end decides the verdict.
LEMMA VerdictAtEnd ==
    ASSUME ScanInvariant, outcome = Pending, i > Len(jobs)
    PROVE  LatestRunOf(jobs, scheduledBefore) =
              IF ownedCount = 0 /\ scheduledBefore THEN Verdict(0, "removed")
              ELSE IF ambiguous THEN Verdict(0, "tied")
              ELSE Verdict(latest, "none")
<1> USE DEF ScanInvariant
<1>1. Seen = OwnedJobs(jobs)
    BY JobsInList DEF OwnedJobs, TypeOK
<1>2. /\ \A j \in OwnedJobs(jobs) : jobs[j].stamped
      /\ ownedCount = 0 <=> OwnedJobs(jobs) = {}
    BY <1>1 DEF Pending, Verdict
<1>3. CASE OwnedJobs(jobs) = {}
    <2>1. latest = 0 /\ ~ambiguous /\ ownedCount = 0
        BY <1>1, <1>2, <1>3
    <2> QED
        BY <2>1, <1>2, <1>3 DEF LatestRunOf
<1>4. CASE OwnedJobs(jobs) # {}
    <2>1. /\ latest \in OwnedJobs(jobs)
          /\ \A j \in OwnedJobs(jobs) : jobs[j].at <= jobs[latest].at
          /\ \A j \in OwnedJobs(jobs) : jobs[j].at \in Int
          /\ ambiguous <=> \E j \in OwnedJobs(jobs) : j # latest /\ jobs[j].at = jobs[latest].at
        BY <1>1, <1>4, JobsInList DEF JobView
    <2>2. latest \in Newest(jobs)
        BY <2>1 DEF Newest
    <2>3. \A j \in Newest(jobs) : jobs[j].at = jobs[latest].at
        BY <2>1 DEF Newest
    <2>4. \A j \in OwnedJobs(jobs) : jobs[j].at = jobs[latest].at => j \in Newest(jobs)
        BY <2>1 DEF Newest
    <2>5. CASE ambiguous
        <3>1. PICK j \in OwnedJobs(jobs) : j # latest /\ j \in Newest(jobs)
            BY <2>1, <2>4, <2>5
        <3>2. ~ \E k \in OwnedJobs(jobs) : Newest(jobs) = {k}
            BY <3>1, <2>2
        <3> QED
            BY <3>2, <1>2, <1>4, <2>5 DEF LatestRunOf
    <2>6. CASE ~ambiguous
        <3>1. Newest(jobs) = {latest}
            BY <2>1, <2>2, <2>3, <2>6 DEF Newest
        <3>2. (CHOOSE k \in OwnedJobs(jobs) : Newest(jobs) = {k}) = latest
            BY <2>1, <3>1
        <3> QED
            BY <3>1, <3>2, <2>1, <1>2, <1>4, <2>6 DEF LatestRunOf
    <2> QED
        BY <2>5, <2>6
<1> QED
    BY <1>3, <1>4

\* The loop invariant holds before the loop.
LEMMA InitScan == Init => ScanInvariant
<1> SUFFICES ASSUME Init PROVE ScanInvariant
    OBVIOUS
<1>1. TypeOK
    <2>1. PICK n \in 0..MaxJobs : jobs \in [1..n -> JobView(Stamps)]
        BY DEF Init, JobLists
    <2>2. Len(jobs) \in Nat
        BY <2>1, CronJobLatestAssumption
    <2>3. outcome \in [job : 0..Len(jobs), issue : Issues]
        BY <2>2 DEF Init, Pending, Verdict, Issues
    <2>4. /\ i \in 1..(Len(jobs) + 1) /\ latest \in 0..Len(jobs)
          /\ latestAt \in Int /\ ownedCount \in Nat
        BY <2>2 DEF Init
    <2>5. jobs \in JobLists /\ scheduledBefore \in BOOLEAN /\ ambiguous \in BOOLEAN
        BY DEF Init
    <2> QED
        BY <2>3, <2>4, <2>5 DEF TypeOK
<1>2. Seen = {}
    BY <1>1, JobsInList DEF Init
<1> QED
    BY <1>1, <1>2 DEF Init, ScanInvariant, ScanFindsLatestRun, Pending, Verdict

\* One iteration over a Job that is not owned adds nothing to what is seen.
LEMMA SeenSkip ==
    ASSUME TypeOK, SkipForeign
    PROVE  Seen' = Seen
<1>1. Seen = {j \in OwnedJobs(jobs) : j < i} /\ Seen' = {j \in OwnedJobs(jobs) : j < i + 1}
    BY DEF Seen, SkipForeign, OwnedJobs
<1> QED
    BY <1>1, JobsInList DEF OwnedJobs, SkipForeign, Looking, TypeOK

\* The Jobs seen after one more are those seen before, and that one.
LEMMA SeenConsider ==
    ASSUME TypeOK, Consider
    PROVE  Seen' = Seen \cup {i} /\ i \notin Seen
<1>1. Seen = {j \in OwnedJobs(jobs) : j < i} /\ Seen' = {j \in OwnedJobs(jobs) : j < i + 1}
    BY DEF Seen, Consider, OwnedJobs
<1>2. i \in OwnedJobs(jobs)
    BY JobsInList DEF OwnedJobs, Consider, Looking, TypeOK
<1> QED
    BY <1>1, <1>2, JobsInList DEF OwnedJobs, TypeOK

\* Every iteration keeps the loop invariant.
LEMMA NextScan == ScanInvariant /\ [Next]_vars => ScanInvariant'
<1> SUFFICES ASSUME ScanInvariant, [Next]_vars PROVE ScanInvariant'
    OBVIOUS
<1> USE DEF ScanInvariant
<1>0. TypeOK /\ Len(jobs) \in Nat
    BY JobsInList
<1>1. CASE SkipForeign
    <2>1. TypeOK'
        BY <1>0, <1>1 DEF SkipForeign, Looking, TypeOK
    <2> QED
        BY <1>1, <2>1, SeenSkip DEF SkipForeign, Looking, ScanFindsLatestRun
<1>2. CASE RejectUnordered
    <2>1. TypeOK'
        BY <1>0, <1>2 DEF RejectUnordered, Looking, TypeOK, Return, Verdict, Issues
    <2>2. Seen' = Seen
        BY <1>2 DEF RejectUnordered, Seen, OwnedJobs
    <2>3. LatestRunOf(jobs, scheduledBefore) = Verdict(0, "unordered")
        BY <1>0, <1>2, JobsInList DEF RejectUnordered, Looking, LatestRunOf, OwnedJobs, TypeOK
    <2>4. outcome'.issue = "unordered"
        BY <1>2 DEF RejectUnordered, Return, Verdict
    <2> QED
        BY <1>2, <2>1, <2>2, <2>3, <2>4 DEF RejectUnordered, ScanFindsLatestRun, Return
<1>3. CASE Consider
    <2>1. i \in 1..Len(jobs) /\ jobs[i] \in JobView(Int)
        BY <1>0, <1>3, JobsInList DEF Consider, Looking, TypeOK
    <2>2. TypeOK'
        <3>1. jobs' = jobs /\ scheduledBefore' = scheduledBefore /\ outcome' = outcome
            BY <1>3 DEF Consider
        <3>2. /\ i' \in 1..(Len(jobs) + 1) /\ latest' \in 0..Len(jobs)
              /\ latestAt' \in Int /\ ownedCount' \in Nat
            BY <1>0, <1>3, <2>1 DEF Consider, TypeOK, JobView
        <3>3. ambiguous' \in BOOLEAN
            BY <1>0, <1>3 DEF Consider, TypeOK
        <3> QED
            BY <1>0, <3>1, <3>2, <3>3 DEF TypeOK
    <2>3. Seen' = Seen \cup {i} /\ i \notin Seen
        BY <1>0, <1>3, SeenConsider
    <2>4. \A j \in Seen : jobs[j].at \in Int
        BY JobsInList DEF JobView
    <2>5. outcome' = outcome /\ outcome = Pending /\ jobs' = jobs /\ jobs[i].stamped
          /\ outcome.issue = "pending"
        BY <1>3 DEF Consider, Looking, Pending, Verdict
    <2>6. (\A j \in Seen' : jobs'[j].stamped) /\ (ownedCount' = 0 <=> Seen' = {})
        BY <1>3, <2>3, <2>5 DEF Consider, TypeOK
    <2>7. CASE Newer
        <3>1. latest' = i /\ latestAt' = jobs[i].at /\ ambiguous' = FALSE
            BY <1>3, <2>7 DEF Consider
        <3>2. \A j \in Seen : jobs[j].at < jobs[i].at
            BY <2>1, <2>4, <2>7 DEF Newer, TypeOK, JobView
        <3> QED
            BY <2>1, <2>2, <2>3, <2>4, <2>5, <2>6, <3>1, <3>2 DEF ScanFindsLatestRun, JobView
    <2>8. CASE ~Newer
        <3>1. latest' = latest /\ latestAt' = latestAt
              /\ ambiguous' = (ambiguous \/ jobs[i].at = latestAt)
            BY <1>3, <2>8 DEF Consider
        <3>2. latest # 0 /\ jobs[i].at <= latestAt /\ latest # i
            BY <2>1, <2>3, <2>8 DEF Newer, TypeOK, JobView
        <3>3. ambiguous' <=> \E j \in Seen' : j # latest' /\ jobs'[j].at = latestAt'
            BY <2>3, <2>5, <3>1, <3>2
        <3>4. \A j \in Seen' : jobs'[j].at <= latestAt'
            BY <2>3, <2>5, <3>1, <3>2
        <3> QED
            BY <2>2, <2>3, <2>5, <2>6, <3>1, <3>2, <3>3, <3>4 DEF ScanFindsLatestRun
    <2> QED
        BY <2>7, <2>8
<1>4. CASE Finish
    <2>1. TypeOK'
        BY <1>0, <1>4 DEF Finish, TypeOK, Return, Verdict, Issues
    <2>2. Seen' = Seen /\ outcome = Pending /\ outcome.issue # "unordered"
        BY <1>4 DEF Finish, Seen, OwnedJobs, Pending, Verdict
    <2>3. outcome' = LatestRunOf(jobs, scheduledBefore)
        BY <1>4, VerdictAtEnd DEF Finish, Return
    <2> QED
        BY <1>4, <2>1, <2>2, <2>3 DEF Finish, ScanFindsLatestRun
<1>5. CASE UNCHANGED vars
    BY <1>5 DEF vars, TypeOK, Seen, OwnedJobs, ScanFindsLatestRun
<1> QED
    BY <1>1, <1>2, <1>3, <1>4, <1>5 DEF Next

\* The scan returns the unique latest run, or nothing and the reason, for
\* every list of Jobs (latestOwnedCronJobJob, collector.go:289-337).
THEOREM ScanCorrect == Spec => []ScanFindsLatestRun
<1>1. ScanInvariant => ScanFindsLatestRun
    BY DEF ScanInvariant
<1> QED
    BY <1>1, InitScan, NextScan, PTL DEF Spec

\* The loop's invariant itself, the argument the scan rests on.
THEOREM ScanInvariantHolds == Spec => []ScanInvariant
    BY InitScan, NextScan, PTL DEF Spec

=============================================================================
