------------------------------- MODULE MCJobs -------------------------------
(***************************************************************************)
(* A Job without retries or with one, inspected from any of its levels.    *)
(***************************************************************************)
EXTENDS JobsProperties

MCFoci == {CronJobRef, JobRef, PodRef(1)}

MCRefs == {CronJobRef, JobRef} \cup {PodRef(p) : p \in PodIds}

=============================================================================
