-------------------------------- MODULE Jobs --------------------------------
(***************************************************************************)
(* The run of a CronJob: a Job of two parallel Pods that fail, succeed or  *)
(* are stopped, while an inspection of the CronJob, of the Job or of one   *)
(* of the Pods reads them one call after another                           *)
(* (internal/kube/collector.go).                                           *)
(*                                                                         *)
(* External, modelled from what the rules rely on: the Job controller      *)
(* replaces a failed Pod as long as the retry budget allows it; when the   *)
(* budget is spent, or the Job's deadline has passed, it first says so     *)
(* (FailureTarget), then stops the Pods that are left, which end Failed    *)
(* like those that failed of themselves, and only then calls the Job       *)
(* Failed.                                                                 *)
(***************************************************************************)
EXTENDS JobRules

CONSTANTS
    Foci,     \* what the inspection may be asked about
    Limits,   \* the backoffLimit of the Job
    MaxPods,  \* bound: the Pods the Job ever has
    MaxLag    \* bound: what else happens once the inspection has begun

VARIABLES
    job,       \* [limit, target, failed]
    pods,      \* the state of each Pod
    active,    \* the CronJob's status lists the Job as running
    culprits,  \* history: the Pods that had failed when the retry budget was spent
    lag,       \* what happened since the inspection began
    focus,     \* what the inspection was asked about
    plan,      \* what it reads next, and after that
    changed,   \* the focus was written since it was read
    graph      \* what it has collected

worldVars == <<job, pods, active, culprits>>
vars == <<worldVars, lag, focus, plan, changed, graph>>

-----------------------------------------------------------------------------

PodIds     == 1..MaxPods
PodRef(p)  == [kind |-> "Pod", name |-> p]
JobRef     == [kind |-> "Job", name |-> "j"]
CronJobRef == [kind |-> "CronJob", name |-> "c"]

Parallelism == 2

PodState == [ref : {PodRef(p) : p \in PodIds}, uid : {<<PodRef(p), 1>> : p \in PodIds},
             phase : {"Pending", "Running", "Succeeded", "Failed"}, reason : {""},
             ready : BOOLEAN, limited : {{}}, probe : {<<>>}, statuses : {<<>>}]

ASSUME JobsAssumption ==
    /\ MaxPods \in Nat \ {0}
    /\ MaxLag \in Nat
    /\ Limits \subseteq Nat
    /\ Foci \subseteq {CronJobRef, JobRef, PodRef(1)}
    /\ {CronJobRef, JobRef} \cup {PodRef(p) : p \in PodIds} \subseteq Refs
    /\ NoObject \notin PodState

-----------------------------------------------------------------------------
(* The Pods and the controllers. *)

In(states) == {p \in PodIds : pods[p] \in states}

PodBecomes(p, state) ==
    /\ pods' = [pods EXCEPT ![p] = state]
    /\ UNCHANGED <<job, active, culprits>>

CreatePod(p) ==
    /\ pods[p] = "absent"
    /\ job.target = ""
    /\ Cardinality(In({"starting", "running", "succeeded"})) < Parallelism
    /\ PodBecomes(p, "starting")

RunPod(p) ==
    \/ pods[p] = "starting" /\ PodBecomes(p, "running")
    \/ pods[p] = "running" /\ \E end \in {"failed", "succeeded"} : PodBecomes(p, end)

StopPod(p) ==
    \/ job.target # "" /\ pods[p] \in {"starting", "running"} /\ PodBecomes(p, "stopped")
    \/ pods[p] = "stopped" /\ PodBecomes(p, "absent")

SpendBudget ==
    /\ job.target = ""
    /\ Cardinality(In({"failed"})) > job.limit
    /\ job' = [job EXCEPT !.target = "BackoffLimitExceeded"]
    /\ culprits' = In({"failed"})
    /\ UNCHANGED <<pods, active>>

MeetDeadline ==
    /\ job.target = ""
    /\ Cardinality(In({"succeeded"})) < Parallelism
    /\ job' = [job EXCEPT !.target = "DeadlineExceeded"]
    /\ UNCHANGED <<pods, active, culprits>>

FailJob ==
    /\ job.target # "" /\ job.failed = ""
    /\ In({"starting", "running"}) = {}
    /\ job' = [job EXCEPT !.failed = job.target]
    /\ UNCHANGED <<pods, active, culprits>>

SyncCronJob ==
    /\ active
    /\ job.failed # "" \/ Cardinality(In({"succeeded"})) = Parallelism
    /\ active' = FALSE
    /\ UNCHANGED <<job, pods, culprits>>

World ==
    \/ SpendBudget \/ MeetDeadline \/ FailJob \/ SyncCronJob
    \/ \E p \in PodIds : CreatePod(p) \/ RunPod(p) \/ StopPod(p)

-----------------------------------------------------------------------------
(* The inspection. *)

Phase(p) ==
    CASE pods[p] = "starting" -> "Pending"
      [] pods[p] = "running" -> "Running"
      [] pods[p] = "succeeded" -> "Succeeded"
      [] pods[p] \in {"failed", "stopped"} -> "Failed"

PodObject(p) ==
    [ref |-> PodRef(p), uid |-> <<PodRef(p), 1>>, phase |-> Phase(p), reason |-> "",
     ready |-> pods[p] = "running", limited |-> {}, probe |-> <<>>, statuses |-> <<>>]

JobObject ==
    [ref |-> JobRef, backoffLimit |-> job.limit, failed |-> job.failed, target |-> job.target]

CronJobObject == [ref |-> CronJobRef, active |-> active]

PodsIn(g) == {r \in DOMAIN g.nodes : r.kind = "Pod"}

Doing(s) == plan # <<>> /\ Head(plan) = s /\ plan' = Tail(plan)

\* Reading the focus starts the time in which it must not be written.
Reading(ref) == changed' = (focus # ref /\ changed)

ReadCronJob ==
    /\ Doing("cronJob")
    /\ graph' = AddEdges(AddNode(graph, CronJobRef, CronJobObject),
                    {Edge(CronJobRef, r, "owns") : r \in {JobRef} \cap DOMAIN graph.nodes})
    /\ Reading(CronJobRef)

\* By the list of the CronJob's Jobs, as the latest of them; by name; or as the
\* exact owner of the Pod.
ReadJob ==
    /\ Doing("job")
    /\ graph' = AddEdges(AddNode(graph, JobRef, JobObject),
                    {Edge(CronJobRef, JobRef, type) :
                        type \in IF focus = CronJobRef THEN {"owns", "latest-run"} ELSE {}}
                    \cup {Edge(JobRef, r, "owns") : r \in PodsIn(graph)})
    /\ Reading(JobRef)

\* The Pod in focus; or those of the Job.
ReadPods ==
    /\ Doing("pods")
    /\ LET read == {p \in PodIds : pods[p] # "absent" /\ (focus.kind = "Pod" => PodRef(p) = focus)}
       IN  graph' = AddEdges(AddNodes(graph, {PodObject(p) : p \in read}),
                        {Edge(JobRef, PodRef(p), "owns") :
                            p \in {q \in read : InGraph(graph, JobRef)}})
    /\ focus.kind = "Pod" => pods[1] # "absent"
    /\ Reading(PodRef(1))

Finish ==
    /\ Doing("finish")
    /\ graph' = IF changed
                THEN AddCollectionIssue(graph, Issue("temporal-integrity", focus, TRUE))
                ELSE graph
    /\ UNCHANGED changed

Plan(ref) ==
    CASE ref = CronJobRef -> <<"cronJob", "job", "pods", "finish">>
      [] ref = JobRef     -> <<"job", "cronJob", "pods", "finish">>
      [] ref = PodRef(1)  -> <<"pods", "job", "cronJob", "finish">>

-----------------------------------------------------------------------------

Init ==
    /\ job \in [limit : Limits, target : {""}, failed : {""}]
    /\ pods = [p \in PodIds |-> "absent"]
    /\ active = TRUE
    /\ culprits = {}
    /\ lag = 0
    /\ focus \in Foci
    /\ plan = Plan(focus)
    /\ changed = FALSE
    /\ graph = NewGraph(focus)

Begun == plan # Plan(focus)

FocusWritten ==
    \/ focus = CronJobRef /\ active' # active
    \/ focus = JobRef /\ (job' # job \/ pods' # pods)
    \/ focus = PodRef(1) /\ pods'[1] # pods[1]

WorldStep ==
    /\ plan # <<>>
    /\ Begun => lag < MaxLag
    /\ World
    /\ lag' = IF Begun THEN lag + 1 ELSE lag
    /\ changed' = (Begun /\ (changed \/ FocusWritten))
    /\ UNCHANGED <<focus, plan, graph>>

InspectionStep ==
    /\ ReadCronJob \/ ReadJob \/ ReadPods \/ Finish
    /\ UNCHANGED <<worldVars, lag, focus>>

Next == WorldStep \/ InspectionStep

Spec == Init /\ [][Next]_vars

=============================================================================
