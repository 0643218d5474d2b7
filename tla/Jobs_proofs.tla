----------------------------- MODULE Jobs_proofs -----------------------------
(***************************************************************************)
(* Whom a failed Job is blamed on, and by what a failed run of a CronJob   *)
(* is explained: for any number of Pods, any retry budget, every order in  *)
(* which the controllers act and every moment the inspection reads them.   *)
(***************************************************************************)
EXTENDS JobsProperties, TLAPS, FiniteSetTheorems, SequenceTheorems

-----------------------------------------------------------------------------
(* What the Job, its Pods and the history have to do with each other, and    *)
(* what the graph still knows of them.                                       *)

\* A Pod is stopped only for a Job that will fail; a spent budget has its culprits, which
\* stay failed.
WorldInv ==
    /\ TypeOK
    /\ job.failed \in {"", job.target}
    /\ job.target = "BackoffLimitExceeded" <=> culprits # {}
    /\ \A p \in culprits : pods[p] = "failed"
    /\ \A p \in PodIds : pods[p] = "stopped" => job.target # ""

Steps == {"cronJob", "job", "pods", "finish"}

\* The plan is what is left of the plan for the focus.
OnPlan ==
    /\ plan \in Seq(Steps) /\ Len(plan) <= 4
    /\ \A i \in 1..Len(plan) : plan[i] = Plan(focus)[4 - Len(plan) + i]

Left(s) == \E i \in 1..Len(plan) : plan[i] = s

JobSeen    == ObjectOf(graph, JobRef)
PodSeen(p) == ObjectOf(graph, PodRef(p))

\* A reason a Job was read with stays its reason.
JobIsSeen ==
    InGraph(graph, JobRef) =>
        /\ JobSeen.backoffLimit = job.limit
        /\ FailureReason(JobSeen) \in {"", job.target}

\* A Pod that was read as Failed is gone only with its Job.
PodsAreSeen ==
    \A p \in PodIds : InGraph(graph, PodRef(p)) =>
        /\ PodSeen(p) \in PodState
        /\ PodSeen(p).ready => PodSeen(p).phase = "Running"
        /\ PodSeen(p).phase = "Failed" =>
            pods[p] \in {"failed", "stopped"} \/ (pods[p] = "absent" /\ job.target # "")
        /\ InGraph(graph, JobRef) => Edge(JobRef, PodRef(p), "owns") \in graph.edges

\* Whoever spent the budget is seen as Failed: the Pods are read after the Job, or the Pod
\* in focus has not changed since.
CulpritsAreSeen ==
    \A p \in PodIds : InGraph(graph, PodRef(p)) =>
        IF focus = PodRef(1)
        THEN p = 1 /\ Len(plan) < 4 /\ (~changed => PodSeen(p).phase = Phase(p))
        ELSE /\ Len(plan) <= 1
             /\ InGraph(graph, JobRef) /\ FailureReason(JobSeen) # "" /\ p \in culprits =>
                    PodSeen(p).phase = "Failed"

GraphInv ==
    /\ IsGraph(graph)
    /\ DOMAIN graph.nodes \subseteq {CronJobRef, JobRef} \cup {PodRef(p) : p \in PodIds}
    /\ \A e \in graph.edges :
        /\ e.type = "latest-run" => e = Edge(CronJobRef, JobRef, "latest-run")
        /\ e.from \in {CronJobRef, JobRef} /\ e.to \in {JobRef} \cup DOMAIN graph.nodes
    /\ OnPlan
    /\ Left("cronJob") \/ InGraph(graph, CronJobRef)
    /\ Left("job") \/ InGraph(graph, JobRef)
    /\ JobIsSeen
    /\ PodsAreSeen
    /\ CulpritsAreSeen
    /\ plan = <<>> /\ changed => HasCollectionSourceIssue(graph, "temporal-integrity")

\* The inductive invariant.
JInv == WorldInv /\ GraphInv

-----------------------------------------------------------------------------
(* The controllers keep them. *)

States == {"absent", "starting", "running", "failed", "stopped", "succeeded"}
Reasons == {"", "BackoffLimitExceeded", "DeadlineExceeded"}

\* The types of the variables one by one.
LEMMA Types ==
    ASSUME WorldInv
    PROVE  /\ job \in [limit : Limits, target : Reasons, failed : Reasons]
           /\ job.limit \in Limits /\ job.target \in Reasons /\ job.failed \in Reasons
           /\ pods \in [PodIds -> States]
           /\ culprits \subseteq PodIds
           /\ active \in BOOLEAN /\ changed \in BOOLEAN
           /\ lag \in 0..MaxLag
           /\ focus \in {CronJobRef, JobRef, PodRef(1)}
<1>1. /\ job \in [limit : Limits, target : Reasons, failed : Reasons]
      /\ pods \in [PodIds -> States] /\ culprits \subseteq PodIds
      /\ active \in BOOLEAN /\ changed \in BOOLEAN /\ lag \in 0..MaxLag
  BY DEF WorldInv, TypeOK, Reasons, States
<1>2. focus \in {CronJobRef, JobRef, PodRef(1)}
  BY JobsAssumption DEF WorldInv, TypeOK
<1>3. QED BY <1>1, <1>2

\* Refs of different resources differ.
LEMMA RefsDiffer ==
    /\ CronJobRef # JobRef
    /\ \A p : PodRef(p) # CronJobRef /\ PodRef(p) # JobRef
    /\ \A p, q : PodRef(p) = PodRef(q) => p = q
    /\ CronJobRef.kind = "CronJob" /\ JobRef.kind = "Job"
    /\ \A p : PodRef(p).kind = "Pod"
BY DEF CronJobRef, JobRef, PodRef

\* What the world does while an inspection is not over.
Meanwhile ==
    /\ plan # <<>> /\ UNCHANGED <<focus, plan, graph>>
    /\ lag' \in 0..MaxLag /\ changed' \in BOOLEAN

\* What a step of the world leaves of the history: a Job that will fail does, a Pod that
\* failed stays so, and one that was stopped is not made anew.
Lasting ==
    /\ job'.limit = job.limit
    /\ job.target # "" => job'.target = job.target
    /\ job.target # "" => culprits' = culprits
    /\ \A p \in PodIds :
        /\ pods[p] = "failed" => pods'[p] = "failed"
        /\ pods[p] = "stopped" => pods'[p] \in {"stopped", "absent"}
        /\ pods[p] = "absent" /\ job.target # "" => pods'[p] = "absent"

\* A Pod changes its state.
LEMMA PodBecomesKeeps ==
    ASSUME WorldInv, Meanwhile, NEW p \in PodIds, NEW state \in States, PodBecomes(p, state),
           pods[p] # "failed",
           pods[p] = "stopped" => state \in {"stopped", "absent"},
           pods[p] = "absent" => job.target = "",
           state = "stopped" => job.target # ""
    PROVE  WorldInv' /\ Lasting
<1>1. /\ pods' = [pods EXCEPT ![p] = state] /\ UNCHANGED <<job, active, culprits>>
      /\ UNCHANGED <<focus, plan, graph>> /\ lag' \in 0..MaxLag /\ changed' \in BOOLEAN
      /\ plan # <<>>
  BY DEF PodBecomes, Meanwhile
<1>2. pods' \in [PodIds -> States] /\ \A q \in PodIds : pods'[q] = IF q = p THEN state ELSE pods[q]
  BY <1>1, Types
<1>3. TypeOK'
  BY <1>1, <1>2 DEF WorldInv, TypeOK, States
<1>4. \A q \in culprits : pods'[q] = "failed"
  BY <1>2, Types DEF WorldInv
<1>5. \A q \in PodIds : pods'[q] = "stopped" => job'.target # ""
  BY <1>1, <1>2 DEF WorldInv
<1>6. WorldInv'
  BY <1>1, <1>3, <1>4, <1>5 DEF WorldInv
<1>7. Lasting
  BY <1>1, <1>2 DEF Lasting
<1>8. QED BY <1>6, <1>7

LEMMA CreatePodKeeps ==
    ASSUME WorldInv, Meanwhile, NEW p \in PodIds, CreatePod(p)
    PROVE  WorldInv' /\ Lasting
BY PodBecomesKeeps DEF CreatePod, States

LEMMA RunPodKeeps ==
    ASSUME WorldInv, Meanwhile, NEW p \in PodIds, RunPod(p)
    PROVE  WorldInv' /\ Lasting
<1>1. PICK state \in {"running", "failed", "succeeded"} :
        pods[p] \in {"starting", "running"} /\ PodBecomes(p, state)
  BY DEF RunPod
<1>2. state \in States /\ state # "stopped"
  BY DEF States
<1>3. QED BY <1>1, <1>2, PodBecomesKeeps

LEMMA StopPodKeeps ==
    ASSUME WorldInv, Meanwhile, NEW p \in PodIds, StopPod(p)
    PROVE  WorldInv' /\ Lasting
<1>1. "stopped" \in States /\ "absent" \in States
  BY DEF States
<1>2. CASE job.target # "" /\ pods[p] \in {"starting", "running"} /\ PodBecomes(p, "stopped")
  BY <1>1, <1>2, PodBecomesKeeps
<1>3. CASE pods[p] = "stopped" /\ PodBecomes(p, "absent")
  BY <1>1, <1>3, PodBecomesKeeps
<1>4. QED BY <1>2, <1>3 DEF StopPod

\* The Job is updated, its Pods are as they were.
LEMMA JobChangeKeeps ==
    ASSUME WorldInv, Meanwhile, pods' = pods,
           job' \in [limit : Limits, target : Reasons, failed : Reasons],
           active' \in BOOLEAN, culprits' \subseteq PodIds,
           job'.limit = job.limit, job.target # "" => job'.target = job.target,
           job.target # "" => culprits' = culprits,
           job'.failed \in {"", job'.target},
           job'.target = "BackoffLimitExceeded" <=> culprits' # {},
           \A p \in culprits' : pods[p] = "failed"
    PROVE  WorldInv' /\ Lasting
<1>1. TypeOK'
  BY Types DEF WorldInv, TypeOK, Meanwhile, Reasons, States
<1>2. \A p \in PodIds : pods'[p] = "stopped" => job'.target # ""
  BY Types DEF WorldInv
<1>3. WorldInv'
  BY <1>1, <1>2 DEF WorldInv
<1>4. Lasting
  BY DEF Lasting
<1>5. QED BY <1>3, <1>4

LEMMA SpendBudgetKeeps ==
    ASSUME WorldInv, Meanwhile, SpendBudget
    PROVE  WorldInv' /\ Lasting
<1>1. /\ job.target = "" /\ Cardinality(In({"failed"})) > job.limit
      /\ job' = [job EXCEPT !.target = "BackoffLimitExceeded"]
      /\ culprits' = In({"failed"}) /\ UNCHANGED <<pods, active>>
  BY DEF SpendBudget
<1>2. /\ job'.limit = job.limit /\ job'.failed = job.failed
      /\ job'.target = "BackoffLimitExceeded"
      /\ job' \in [limit : Limits, target : Reasons, failed : Reasons]
  BY <1>1, Types DEF Reasons
<1>3. culprits' # {}
  <2>1. job.limit \in Nat
    BY Types, JobsAssumption
  <2>2. Cardinality({}) = 0
    BY FS_EmptySet
  <2> DEFINE n == Cardinality(In({"failed"}))
  <2>3. n > job.limit
    BY <1>1
  <2>4. In({"failed"}) = {} => n = 0
    BY <2>2
  <2> HIDE DEF n
  <2>5. In({"failed"}) # {}
    BY <2>1, <2>3, <2>4
  <2>6. QED BY <1>1, <2>5
<1>4. culprits' \subseteq PodIds /\ \A p \in culprits' : pods[p] = "failed"
  BY <1>1 DEF In
<1>5. job'.failed \in {"", job'.target}
  BY <1>1, <1>2 DEF WorldInv
<1>6. active' \in BOOLEAN
  BY <1>1, Types
<1>7. QED BY <1>1, <1>2, <1>3, <1>4, <1>5, <1>6, JobChangeKeeps

LEMMA MeetDeadlineKeeps ==
    ASSUME WorldInv, Meanwhile, MeetDeadline
    PROVE  WorldInv' /\ Lasting
<1>1. /\ job.target = "" /\ job' = [job EXCEPT !.target = "DeadlineExceeded"]
      /\ UNCHANGED <<pods, active, culprits>>
  BY DEF MeetDeadline
<1>2. /\ job'.limit = job.limit /\ job'.failed = job.failed
      /\ job'.target = "DeadlineExceeded"
      /\ job' \in [limit : Limits, target : Reasons, failed : Reasons]
  BY <1>1, Types DEF Reasons
<1>3. culprits = {} /\ job.failed = ""
  BY <1>1 DEF WorldInv
<1>4. active' \in BOOLEAN
  BY <1>1, Types
<1>5. QED BY <1>1, <1>2, <1>3, <1>4, JobChangeKeeps

LEMMA FailJobKeeps ==
    ASSUME WorldInv, Meanwhile, FailJob
    PROVE  WorldInv' /\ Lasting
<1>1. /\ job' = [job EXCEPT !.failed = job.target] /\ UNCHANGED <<pods, active, culprits>>
  BY DEF FailJob
<1>2. /\ job'.limit = job.limit /\ job'.failed = job.target /\ job'.target = job.target
      /\ job' \in [limit : Limits, target : Reasons, failed : Reasons]
  BY <1>1, Types
<1>3. active' \in BOOLEAN /\ culprits' \subseteq PodIds
  BY <1>1, Types
<1>4. QED BY <1>1, <1>2, <1>3, JobChangeKeeps DEF WorldInv

LEMMA SyncCronJobKeeps ==
    ASSUME WorldInv, Meanwhile, SyncCronJob
    PROVE  WorldInv' /\ Lasting
<1>1. active' = FALSE /\ UNCHANGED <<job, pods, culprits>>
  BY DEF SyncCronJob
<1>2. active' \in BOOLEAN
  BY <1>1
<1>3. culprits' \subseteq PodIds /\ job' \in [limit : Limits, target : Reasons, failed : Reasons]
  BY <1>1, Types
<1>4. QED BY <1>1, <1>2, <1>3, JobChangeKeeps DEF WorldInv

LEMMA WorldKeeps ==
    ASSUME WorldInv, Meanwhile, World
    PROVE  WorldInv' /\ Lasting
BY CreatePodKeeps, RunPodKeeps, StopPodKeeps, SpendBudgetKeeps, MeetDeadlineKeeps, FailJobKeeps,
   SyncCronJobKeeps DEF World

-----------------------------------------------------------------------------
(* The inspection keeps them. *)

\* Where the steps of a plan are.
LEMMA PlanPlaces ==
    ASSUME NEW ref \in {CronJobRef, JobRef, PodRef(1)}, NEW k \in 1..4
    PROVE  /\ Len(Plan(ref)) = 4 /\ Plan(ref) \in Seq(Steps)
           /\ Plan(ref)[k] = "finish" <=> k = 4
           /\ Plan(ref)[k] = "pods" => k = IF ref = PodRef(1) THEN 1 ELSE 3
           /\ Plan(ref)[k] = "job" => k <= IF ref = PodRef(1) THEN 4 ELSE 2
<1>1. k \in {1, 2, 3, 4}
  OBVIOUS
<1>2. CASE ref = CronJobRef
  <2>1. Plan(ref) = <<"cronJob", "job", "pods", "finish">> /\ ref # PodRef(1)
    BY <1>2, RefsDiffer DEF Plan
  <2>2. QED BY <1>1, <2>1 DEF Steps
<1>3. CASE ref = JobRef
  <2>1. Plan(ref) = <<"job", "cronJob", "pods", "finish">> /\ ref # PodRef(1)
    BY <1>3, RefsDiffer DEF Plan
  <2>2. QED BY <1>1, <2>1 DEF Steps
<1>4. CASE ref = PodRef(1)
  <2>1. Plan(ref) = <<"pods", "job", "cronJob", "finish">>
    BY <1>4, RefsDiffer DEF Plan
  <2>2. /\ Len(Plan(ref)) = 4 /\ Plan(ref) \in Seq(Steps)
        /\ Plan(ref)[k] = "finish" <=> k = 4
        /\ Plan(ref)[k] = "pods" => k = 1
    BY <1>1, <2>1 DEF Steps
  <2>3. k <= 4
    BY <1>1
  <2>4. QED BY <1>4, <2>2, <2>3
<1>5. QED BY <1>2, <1>3, <1>4

\* A step of the plan, when it is due, and what it leaves.
LEMMA PlanStep ==
    ASSUME focus \in {CronJobRef, JobRef, PodRef(1)}, OnPlan, NEW s, Doing(s), UNCHANGED focus
    PROVE  /\ OnPlan' /\ Len(plan') = Len(plan) - 1 /\ Len(plan) \in 1..4
           /\ s = "finish" <=> Len(plan) = 1
           /\ s = "pods" => Len(plan) = IF focus = PodRef(1) THEN 4 ELSE 2
           /\ s = "job" => Len(plan) >= IF focus = PodRef(1) THEN 1 ELSE 3
           /\ \A t : t # s /\ Left(t) => Left(t)'
<1>1. /\ plan # <<>> /\ s = plan[1] /\ plan' = Tail(plan) /\ plan \in Seq(Steps)
      /\ Len(plan) <= 4
  BY DEF Doing, OnPlan
<1>2. /\ Len(plan) \in 1..4 /\ plan' \in Seq(Steps) /\ Len(plan') = Len(plan) - 1
      /\ \A i \in 1..Len(plan') : plan'[i] = plan[i + 1]
  <2>1. /\ plan' \in Seq(Steps) /\ Len(plan') = Len(plan) - 1
        /\ \A i \in 1..Len(plan') : plan'[i] = plan[i + 1]
    BY <1>1, HeadTailProperties
  <2>2. Len(plan) \in Nat /\ Len(plan) # 0
    BY <1>1, EmptySeq
  <2>3. \A m \in Nat : m # 0 /\ m <= 4 => m \in 1..4
    OBVIOUS
  <2>4. Len(plan) <= 4
    BY <1>1
  <2>5. Len(plan) \in 1..4
    BY <2>2, <2>3, <2>4
  <2>6. QED BY <2>1, <2>5
<1> DEFINE n == Len(plan)
<1>3. s = Plan(focus)[5 - n]
  <2>1. plan[1] = Plan(focus)[4 - n + 1]
    BY <1>2 DEF OnPlan
  <2>2. 4 - n + 1 = 5 - n
    BY <1>2
  <2>3. QED BY <1>1, <2>1, <2>2
<1>4. OnPlan'
  <2> SUFFICES ASSUME NEW i \in 1..Len(plan')
               PROVE  plan'[i] = Plan(focus)[4 - Len(plan') + i]
    BY <1>2 DEF OnPlan
  <2>1. i + 1 \in 1..n
    BY <1>2
  <2>2. plan[i + 1] = Plan(focus)[4 - n + (i + 1)]
    BY <2>1 DEF OnPlan
  <2>3. 4 - n + (i + 1) = 4 - Len(plan') + i
    BY <1>2
  <2>4. QED BY <1>2, <2>2, <2>3
<1>5. \A t : t # s /\ Left(t) => Left(t)'
  <2> SUFFICES ASSUME NEW t, t # s, NEW i \in 1..n, plan[i] = t
               PROVE  \E j \in 1..Len(plan') : plan'[j] = t
    BY DEF Left
  <2>1. i # 1
    BY <1>1
  <2>2. i - 1 \in 1..Len(plan') /\ (i - 1) + 1 = i
    BY <1>2, <2>1
  <2>3. QED BY <1>2, <2>2
<1>6. 5 - n \in 1..4
  <2>1. n \in 1..4
    BY <1>2
  <2> HIDE DEF n
  <2>2. QED BY <2>1
<1>7. /\ s = "finish" <=> 5 - n = 4
      /\ s = "pods" => 5 - n = IF focus = PodRef(1) THEN 1 ELSE 3
      /\ s = "job" => 5 - n <= IF focus = PodRef(1) THEN 4 ELSE 2
  BY <1>3, <1>6, PlanPlaces
<1>8. QED BY <1>2, <1>4, <1>5, <1>7

\* Adding a node of one ref leaves the others.
LEMMA AddNodeFields ==
    ASSUME NEW g, IsGraph(g), NEW ref, NEW object
    PROVE  /\ IsGraph(AddNode(g, ref, object))
           /\ DOMAIN AddNode(g, ref, object).nodes = DOMAIN g.nodes \cup {ref}
           /\ AddNode(g, ref, object).edges = g.edges
           /\ AddNode(g, ref, object).issues = g.issues
           /\ \A r : r # ref => ObjectOf(AddNode(g, ref, object), r) = ObjectOf(g, r)
           /\ ObjectOf(AddNode(g, ref, object), ref) =
                IF ObjectOf(g, ref) # NoObject THEN ObjectOf(g, ref) ELSE object
<1> DEFINE h == AddNode(g, ref, object)
<1>1. CASE ObjectOf(g, ref) # NoObject
  <2>1. h = g /\ ref \in DOMAIN g.nodes
    BY <1>1 DEF AddNode, ObjectOf, InGraph
  <2>2. QED BY <1>1, <2>1
<1>2. CASE ObjectOf(g, ref) = NoObject
  <2>1. h = PutNode(g, ref, [object |-> object, unknown |-> FALSE])
    BY <1>2 DEF AddNode
  <2> HIDE DEF h
  <2>2. /\ IsGraph(h) /\ h.edges = g.edges /\ h.issues = g.issues
        /\ DOMAIN h.nodes = DOMAIN g.nodes \cup {ref}
        /\ \A r \in DOMAIN h.nodes :
            h.nodes[r] = IF r = ref THEN [object |-> object, unknown |-> FALSE] ELSE g.nodes[r]
    BY <2>1 DEF PutNode, IsGraph, GraphFields
  <2>3. \A r : r # ref => ObjectOf(h, r) = ObjectOf(g, r)
    BY <2>2 DEF ObjectOf, InGraph
  <2>4. ObjectOf(h, ref) = object
    BY <2>2 DEF ObjectOf, InGraph
  <2>5. QED BY <1>2, <2>2, <2>3, <2>4 DEF h
<1>3. QED BY <1>1, <1>2

\* Edges leave the nodes.
LEMMA AddEdgesFields ==
    ASSUME NEW g, IsGraph(g), NEW edges
    PROVE  /\ IsGraph(AddEdges(g, edges))
           /\ AddEdges(g, edges).nodes = g.nodes
           /\ AddEdges(g, edges).edges = g.edges \cup edges
           /\ AddEdges(g, edges).issues = g.issues
           /\ \A r : ObjectOf(AddEdges(g, edges), r) = ObjectOf(g, r)
<1>1. /\ IsGraph(AddEdges(g, edges))
      /\ AddEdges(g, edges).nodes = g.nodes
      /\ AddEdges(g, edges).edges = g.edges \cup edges
      /\ AddEdges(g, edges).issues = g.issues
  BY DEF AddEdges, IsGraph, GraphFields
<1>2. QED BY <1>1 DEF ObjectOf, InGraph

LEMMA InitJInv == Init => JInv
<1> SUFFICES ASSUME Init PROVE JInv
  OBVIOUS
<1>1. /\ job \in [limit : Limits, target : {""}, failed : {""}]
      /\ pods = [p \in PodIds |-> "absent"]
      /\ active = TRUE /\ changed = FALSE
      /\ culprits = {} /\ lag = 0 /\ focus \in Foci
      /\ plan = Plan(focus) /\ graph = NewGraph(focus)
  BY DEF Init
<1>2. focus \in {CronJobRef, JobRef, PodRef(1)} /\ MaxLag \in Nat
  BY <1>1, JobsAssumption
<1>3. /\ Len(plan) = 4 /\ plan \in Seq(Steps)
      /\ \E k \in 1..4 : plan[k] = "cronJob"
      /\ \E k \in 1..4 : plan[k] = "job"
  <2>1. 1 \in 1..4 /\ 2 \in 1..4 /\ 3 \in 1..4
    OBVIOUS
  <2>2. Len(plan) = 4 /\ plan \in Seq(Steps)
    BY <1>1, <1>2, <2>1, PlanPlaces
  <2>3. CASE focus = CronJobRef
    <3>1. plan[1] = "cronJob" /\ plan[2] = "job"
      BY <1>1, <2>3, RefsDiffer DEF Plan
    <3>2. QED BY <2>1, <2>2, <3>1
  <2>4. CASE focus = JobRef
    <3>1. plan[2] = "cronJob" /\ plan[1] = "job"
      BY <1>1, <2>4, RefsDiffer DEF Plan
    <3>2. QED BY <2>1, <2>2, <3>1
  <2>5. CASE focus = PodRef(1)
    <3>1. plan[3] = "cronJob" /\ plan[2] = "job"
      BY <1>1, <2>5, RefsDiffer DEF Plan
    <3>2. QED BY <2>1, <2>2, <3>1
  <2>6. QED BY <1>2, <2>3, <2>4, <2>5
<1>4. OnPlan
  <2> SUFFICES ASSUME NEW i \in 1..4
               PROVE  plan[i] = Plan(focus)[4 - 4 + i]
    BY <1>3 DEF OnPlan
  <2>1. 4 - 4 + i = i
    OBVIOUS
  <2>2. plan = Plan(focus)
    BY <1>1
  <2>3. QED BY <2>1, <2>2
<1>5. plan # <<>>
  BY <1>3, EmptySeq
<1>6. active \in BOOLEAN /\ changed \in BOOLEAN
  BY <1>1
<1>7. lag \in 0..MaxLag
  <2>1. lag = 0
    BY <1>1
  <2>2. QED BY <1>2, <2>1
<1>8. /\ job \in [limit : Limits, target : {"", "BackoffLimitExceeded", "DeadlineExceeded"},
                  failed : {"", "BackoffLimitExceeded", "DeadlineExceeded"}]
      /\ job.target = "" /\ job.failed = ""
  BY <1>1
<1>9. pods \in [PodIds -> {"absent", "starting", "running", "failed", "stopped", "succeeded"}]
  BY <1>1
<1>10. TypeOK
  BY <1>1, <1>5, <1>6, <1>7, <1>8, <1>9 DEF TypeOK
<1>11. WorldInv
  BY <1>1, <1>8, <1>10 DEF WorldInv
<1>12. IsGraph(graph) /\ DOMAIN graph.nodes = {} /\ graph.edges = {}
  BY <1>1 DEF NewGraph, IsGraph, GraphFields
<1>13. GraphInv
  BY <1>1, <1>3, <1>4, <1>12 DEF GraphInv, JobIsSeen, PodsAreSeen, CulpritsAreSeen, InGraph, Left
<1>14. QED BY <1>11, <1>13 DEF JInv

\* What was read stays true while the world moves.
LEMMA WorldStepKeeps ==
    ASSUME JInv, WorldStep
    PROVE  JInv'
<1>1. /\ plan # <<>> /\ World /\ UNCHANGED <<focus, plan, graph>>
      /\ changed' = (Begun /\ (changed \/ FocusWritten))
  BY DEF WorldStep
<1>2. lag' \in 0..MaxLag
  <2>1. lag \in 0..MaxLag /\ MaxLag \in Nat
    BY Types, JobsAssumption DEF JInv
  <2>2. QED BY <2>1 DEF WorldStep
<1>3. changed' \in BOOLEAN
  BY <1>1, Types DEF JInv, Begun
<1>4. WorldInv' /\ Lasting
  BY <1>1, <1>2, <1>3, WorldKeeps DEF JInv, Meanwhile
<1>5. /\ GraphInv /\ WorldInv
      /\ JobSeen' = JobSeen /\ \A p : PodSeen(p)' = PodSeen(p)
  BY <1>1 DEF JInv, JobSeen, PodSeen
<1>6. JobIsSeen'
  BY <1>1, <1>4, <1>5 DEF GraphInv, JobIsSeen, Lasting
<1>7. PodsAreSeen'
  <2> SUFFICES ASSUME NEW p \in PodIds, InGraph(graph, PodRef(p)), PodSeen(p).phase = "Failed"
               PROVE  pods'[p] \in {"failed", "stopped"} \/ (pods'[p] = "absent" /\ job'.target # "")
    BY <1>1, <1>5 DEF GraphInv, PodsAreSeen
  <2>1. pods[p] \in {"failed", "stopped"} \/ (pods[p] = "absent" /\ job.target # "")
    BY <1>5 DEF GraphInv, PodsAreSeen
  <2>2. CASE pods[p] = "failed"
    BY <1>4, <2>2 DEF Lasting
  <2>3. CASE pods[p] = "stopped"
    BY <1>4, <1>5, <2>3 DEF Lasting, WorldInv
  <2>4. CASE pods[p] = "absent" /\ job.target # ""
    BY <1>4, <2>4 DEF Lasting
  <2>5. QED BY <2>1, <2>2, <2>3, <2>4
<1>8. CulpritsAreSeen'
  <2> SUFFICES ASSUME NEW p \in PodIds, InGraph(graph, PodRef(p))
               PROVE  IF focus = PodRef(1)
                      THEN p = 1 /\ Len(plan) < 4 /\ (~changed' => PodSeen(p).phase = Phase(p)')
                      ELSE /\ Len(plan) <= 1
                           /\ InGraph(graph, JobRef) /\ FailureReason(JobSeen) # "" /\ p \in culprits' =>
                                PodSeen(p).phase = "Failed"
    BY <1>1, <1>5 DEF CulpritsAreSeen
  <2>1. CASE focus = PodRef(1)
    <3>1. p = 1 /\ Len(plan) < 4 /\ (~changed => PodSeen(p).phase = Phase(p))
      BY <1>5, <2>1 DEF GraphInv, CulpritsAreSeen
    <3>2. Begun
      <4>1. 1 \in 1..4
        OBVIOUS
      <4>2. Len(Plan(focus)) = 4
        BY <2>1, <4>1, PlanPlaces
      <4>3. plan = Plan(focus) => Len(plan) = 4
        BY <4>2
      <4>4. plan # Plan(focus)
        <5> DEFINE n == Len(plan)
        <5>1. n < 4 /\ (plan = Plan(focus) => n = 4)
          BY <3>1, <4>3
        <5> HIDE DEF n
        <5>2. QED BY <5>1
      <4>5. QED BY <4>4 DEF Begun
    <3>3. ~changed' => ~changed /\ pods'[1] = pods[1]
      BY <1>1, <2>1, <3>2, RefsDiffer DEF FocusWritten
    <3>4. pods'[1] = pods[1] => Phase(p)' = Phase(p)
      BY <3>1 DEF Phase
    <3>5. QED BY <2>1, <3>1, <3>3, <3>4
  <2>2. CASE focus # PodRef(1)
    <3>1. Len(plan) <= 1
      BY <1>5, <2>2 DEF GraphInv, CulpritsAreSeen
    <3>2. ASSUME InGraph(graph, JobRef), FailureReason(JobSeen) # "", p \in culprits'
          PROVE  PodSeen(p).phase = "Failed"
      <4>1. job.target # ""
        BY <1>5, <3>2 DEF GraphInv, JobIsSeen
      <4>2. p \in culprits
        BY <1>4, <3>2, <4>1 DEF Lasting
      <4>3. QED BY <1>5, <2>2, <3>2, <4>2 DEF GraphInv, CulpritsAreSeen
    <3>3. QED BY <2>2, <3>1, <3>2
  <2>3. QED BY <2>1, <2>2
<1>9. GraphInv'
  BY <1>1, <1>5, <1>6, <1>7, <1>8 DEF GraphInv, OnPlan, Left
<1>10. QED BY <1>4, <1>9 DEF JInv

\* A read moves the plan on and leaves the world.
LEMMA ReadingKeepsWorld ==
    ASSUME JInv, NEW s, Doing(s), UNCHANGED <<worldVars, lag, focus>>, changed' \in BOOLEAN,
           s = "finish" =>
                \A e \in graph'.edges : {e.from, e.to} \subseteq DOMAIN graph'.nodes
    PROVE  /\ WorldInv'
           /\ OnPlan' /\ Len(plan') = Len(plan) - 1 /\ Len(plan) \in 1..4
           /\ s = "finish" <=> plan' = <<>>
           /\ s = "finish" <=> Len(plan) = 1
           /\ s = "pods" => Len(plan) = IF focus = PodRef(1) THEN 4 ELSE 2
           /\ s = "job" => Len(plan) >= IF focus = PodRef(1) THEN 1 ELSE 3
           /\ \A t : t # s /\ Left(t) => Left(t)'
<1>1. focus \in {CronJobRef, JobRef, PodRef(1)} /\ OnPlan
  BY Types DEF JInv, GraphInv
<1>2. UNCHANGED <<job, pods, active, culprits, lag, focus>>
  BY DEF worldVars
<1>3. /\ OnPlan' /\ Len(plan') = Len(plan) - 1 /\ Len(plan) \in 1..4
      /\ s = "finish" <=> Len(plan) = 1
      /\ s = "pods" => Len(plan) = IF focus = PodRef(1) THEN 4 ELSE 2
      /\ s = "job" => Len(plan) >= IF focus = PodRef(1) THEN 1 ELSE 3
      /\ \A t : t # s /\ Left(t) => Left(t)'
  BY <1>1, <1>2, PlanStep
<1>4. s = "finish" <=> plan' = <<>>
  <2>1. plan' = <<>> <=> Len(plan') = 0
    BY <1>3, EmptySeq DEF OnPlan
  <2> DEFINE n == Len(plan)
  <2>2. n \in 1..4 /\ Len(plan') = n - 1 /\ (s = "finish" <=> n = 1)
    BY <1>3
  <2> HIDE DEF n
  <2>3. Len(plan') = 0 <=> n = 1
    BY <2>2
  <2>4. QED BY <2>1, <2>2, <2>3
<1>5. TypeOK'
  BY <1>2, <1>4 DEF JInv, WorldInv, TypeOK
<1>6. WorldInv'
  BY <1>2, <1>5 DEF JInv, WorldInv
<1>7. QED BY <1>3, <1>4, <1>6

LEMMA ReadCronJobKeeps ==
    ASSUME JInv, ReadCronJob, UNCHANGED <<worldVars, lag, focus>>
    PROVE  JInv'
<1> DEFINE g == AddNode(graph, CronJobRef, CronJobObject)
           edges == {Edge(CronJobRef, r, "owns") : r \in {JobRef} \cap DOMAIN graph.nodes}
<1>1. /\ Doing("cronJob") /\ graph' = AddEdges(g, edges)
      /\ changed' = (focus # CronJobRef /\ changed)
  BY DEF ReadCronJob, Reading
<1>2. UNCHANGED <<job, pods, active, culprits, lag, focus>> /\ GraphInv /\ WorldInv
  BY DEF worldVars, JInv
<1>3. changed \in BOOLEAN /\ changed' \in BOOLEAN
  BY <1>1, <1>2, Types
<1>4. "cronJob" # "finish" /\ "cronJob" # "job"
  OBVIOUS
<1>5. /\ WorldInv' /\ OnPlan' /\ Len(plan') = Len(plan) - 1 /\ Len(plan) \in 1..4
      /\ plan' # <<>> /\ (Left("job") => Left("job")')
  BY <1>1, <1>3, <1>4, ReadingKeepsWorld
<1>6. \A e \in edges : e = Edge(CronJobRef, JobRef, "owns")
  OBVIOUS
<1>7. /\ IsGraph(graph') /\ DOMAIN graph'.nodes = DOMAIN graph.nodes \cup {CronJobRef}
      /\ graph'.edges = graph.edges \cup edges
      /\ \A r : r # CronJobRef => ObjectOf(graph', r) = ObjectOf(graph, r)
      /\ \A r : r # CronJobRef => (InGraph(graph', r) <=> InGraph(graph, r))
  <2>1. IsGraph(graph)
    BY <1>2 DEF GraphInv
  <2>2. /\ IsGraph(g) /\ DOMAIN g.nodes = DOMAIN graph.nodes \cup {CronJobRef}
        /\ g.edges = graph.edges
        /\ \A r : r # CronJobRef => ObjectOf(g, r) = ObjectOf(graph, r)
    BY <2>1, AddNodeFields
  <2> HIDE DEF g, edges
  <2>3. /\ IsGraph(graph') /\ graph'.nodes = g.nodes /\ graph'.edges = g.edges \cup edges
        /\ \A r : ObjectOf(graph', r) = ObjectOf(g, r)
    BY <1>1, <2>2, AddEdgesFields
  <2>4. QED BY <2>2, <2>3 DEF InGraph
<1> HIDE DEF g, edges
<1>8. CronJobRef # JobRef /\ \A p : PodRef(p) # CronJobRef
  BY RefsDiffer
<1>9. JobIsSeen'
  BY <1>2, <1>7, <1>8 DEF GraphInv, JobIsSeen, JobSeen
<1>10. \A p : PodSeen(p)' = PodSeen(p) /\ (InGraph(graph', PodRef(p)) <=> InGraph(graph, PodRef(p)))
  BY <1>7, <1>8 DEF PodSeen
<1>11. PodsAreSeen'
  BY <1>2, <1>7, <1>8, <1>10 DEF GraphInv, PodsAreSeen
<1>12. CulpritsAreSeen'
  <2> DEFINE n == Len(plan)
             m == Len(plan')
  <2>1. n \in 1..4 /\ m = n - 1
    BY <1>5
  <2> HIDE DEF n, m
  <2>2. (n < 4 => m < 4) /\ (n <= 1 => m <= 1)
    BY <2>1
  <2>3. \A p : Phase(p)' = Phase(p)
    BY <1>2 DEF Phase
  <2>4. focus = PodRef(1) => changed' = changed
    BY <1>1, <1>3, <1>8
  <2>5. JobSeen' = JobSeen /\ (InGraph(graph', JobRef) <=> InGraph(graph, JobRef))
    BY <1>7, <1>8 DEF JobSeen
  <2>6. UNCHANGED <<focus, culprits>>
    BY <1>2
  <2>7. SUFFICES ASSUME NEW p \in PodIds, InGraph(graph, PodRef(p))
                 PROVE  IF focus = PodRef(1)
                        THEN p = 1 /\ m < 4 /\ (~changed' => PodSeen(p).phase = Phase(p))
                        ELSE /\ m <= 1
                             /\ InGraph(graph, JobRef) /\ FailureReason(JobSeen) # ""
                                /\ p \in culprits => PodSeen(p).phase = "Failed"
    BY <1>10, <2>3, <2>5, <2>6 DEF CulpritsAreSeen, m
  <2>8. IF focus = PodRef(1)
        THEN p = 1 /\ n < 4 /\ (~changed => PodSeen(p).phase = Phase(p))
        ELSE /\ n <= 1
             /\ InGraph(graph, JobRef) /\ FailureReason(JobSeen) # ""
                /\ p \in culprits => PodSeen(p).phase = "Failed"
    BY <1>2, <2>7 DEF GraphInv, CulpritsAreSeen, n
  <2>9. CASE focus = PodRef(1)
    BY <2>2, <2>4, <2>8, <2>9
  <2>10. CASE focus # PodRef(1)
    BY <2>2, <2>8, <2>10
  <2>11. QED BY <2>9, <2>10
<1>13. \A e \in graph'.edges :
        /\ e.type = "latest-run" => e = Edge(CronJobRef, JobRef, "latest-run")
        /\ e.from \in {CronJobRef, JobRef} /\ e.to \in {JobRef} \cup DOMAIN graph'.nodes
  BY <1>2, <1>6, <1>7 DEF GraphInv, Edge
<1>14. GraphInv'
  BY <1>2, <1>5, <1>7, <1>9, <1>11, <1>12, <1>13 DEF GraphInv, InGraph
<1>15. QED BY <1>5, <1>14 DEF JInv

LEMMA ReadJobKeeps ==
    ASSUME JInv, ReadJob, UNCHANGED <<worldVars, lag, focus>>
    PROVE  JInv'
<1> DEFINE g == AddNode(graph, JobRef, JobObject)
           edges == {Edge(CronJobRef, JobRef, type) :
                        type \in IF focus = CronJobRef THEN {"owns", "latest-run"} ELSE {}}
                    \cup {Edge(JobRef, r, "owns") : r \in PodsIn(graph)}
<1>1. /\ Doing("job") /\ graph' = AddEdges(g, edges)
      /\ changed' = (focus # JobRef /\ changed)
  BY DEF ReadJob, Reading
<1>2. UNCHANGED <<job, pods, active, culprits, lag, focus>> /\ GraphInv /\ WorldInv
  BY DEF worldVars, JInv
<1>3. changed \in BOOLEAN /\ changed' \in BOOLEAN
  BY <1>1, <1>2, Types
<1>4. "job" # "finish" /\ "job" # "cronJob"
  OBVIOUS
<1>5. /\ WorldInv' /\ OnPlan' /\ Len(plan') = Len(plan) - 1 /\ Len(plan) \in 1..4
      /\ plan' # <<>> /\ (Left("cronJob") => Left("cronJob")')
      /\ Len(plan) >= IF focus = PodRef(1) THEN 1 ELSE 3
  BY <1>1, <1>3, <1>4, ReadingKeepsWorld
<1>6. \A e \in edges :
        \/ e = Edge(CronJobRef, JobRef, "owns") \/ e = Edge(CronJobRef, JobRef, "latest-run")
        \/ \E r \in DOMAIN graph.nodes : e = Edge(JobRef, r, "owns")
  BY DEF PodsIn
<1>7. \A p : InGraph(graph, PodRef(p)) => Edge(JobRef, PodRef(p), "owns") \in edges
  BY RefsDiffer DEF PodsIn, InGraph
<1>8. /\ IsGraph(graph') /\ DOMAIN graph'.nodes = DOMAIN graph.nodes \cup {JobRef}
      /\ graph'.edges = graph.edges \cup edges
      /\ \A r : r # JobRef => ObjectOf(graph', r) = ObjectOf(graph, r)
      /\ \A r : r # JobRef => (InGraph(graph', r) <=> InGraph(graph, r))
      /\ JobSeen' = IF JobSeen # NoObject THEN JobSeen ELSE JobObject
  <2>1. IsGraph(graph)
    BY <1>2 DEF GraphInv
  <2>2. /\ IsGraph(g) /\ DOMAIN g.nodes = DOMAIN graph.nodes \cup {JobRef}
        /\ g.edges = graph.edges
        /\ \A r : r # JobRef => ObjectOf(g, r) = ObjectOf(graph, r)
        /\ ObjectOf(g, JobRef) = IF JobSeen # NoObject THEN JobSeen ELSE JobObject
    BY <2>1, AddNodeFields DEF JobSeen
  <2> HIDE DEF g, edges
  <2>3. /\ IsGraph(graph') /\ graph'.nodes = g.nodes /\ graph'.edges = g.edges \cup edges
        /\ \A r : ObjectOf(graph', r) = ObjectOf(g, r)
    BY <1>1, <2>2, AddEdgesFields
  <2>4. QED BY <2>2, <2>3 DEF InGraph, JobSeen
<1> HIDE DEF g, edges
<1>9. CronJobRef # JobRef /\ \A p : PodRef(p) # JobRef
  BY RefsDiffer
<1>10. JobIsSeen'
  <2>1. CASE JobSeen # NoObject
    <3>1. InGraph(graph, JobRef) /\ JobSeen' = JobSeen
      BY <1>8, <2>1 DEF JobSeen, ObjectOf
    <3>2. QED BY <1>2, <3>1 DEF GraphInv, JobIsSeen
  <2>2. CASE JobSeen = NoObject
    <3>1. JobSeen' = JobObject
      BY <1>8, <2>2
    <3>2. /\ JobObject.backoffLimit = job.limit
          /\ JobObject.failed = job.failed /\ JobObject.target = job.target
      BY DEF JobObject
    <3>3. FailureReason(JobObject) \in {"", job.target}
      BY <1>2, <3>2 DEF FailureReason, WorldInv
    <3>4. QED BY <1>2, <3>1, <3>2, <3>3 DEF JobIsSeen
  <2>3. QED BY <2>1, <2>2
<1>11. \A p : PodSeen(p)' = PodSeen(p) /\ (InGraph(graph', PodRef(p)) <=> InGraph(graph, PodRef(p)))
  BY <1>8, <1>9 DEF PodSeen
<1>12. PodsAreSeen'
  BY <1>2, <1>7, <1>8, <1>11 DEF GraphInv, PodsAreSeen
<1>13. CulpritsAreSeen'
  <2> SUFFICES ASSUME NEW p \in PodIds, InGraph(graph, PodRef(p))
               PROVE  focus = PodRef(1) /\ p = 1 /\ Len(plan') < 4
                      /\ (~changed' => PodSeen(p).phase = Phase(p)')
    BY <1>2, <1>11 DEF CulpritsAreSeen
  <2> DEFINE n == Len(plan)
             m == Len(plan')
  <2>1. n \in 1..4 /\ m = n - 1 /\ n >= IF focus = PodRef(1) THEN 1 ELSE 3
    BY <1>5
  <2>2. IF focus = PodRef(1) THEN p = 1 /\ (~changed => PodSeen(p).phase = Phase(p)) ELSE n <= 1
    BY <1>2 DEF GraphInv, CulpritsAreSeen
  <2> HIDE DEF n, m
  <2>3. focus = PodRef(1) /\ m < 4
    BY <2>1, <2>2
  <2>4. changed' = changed
    BY <1>1, <1>3, <1>9, <2>3
  <2>5. Phase(p)' = Phase(p)
    BY <1>2 DEF Phase
  <2>6. QED BY <2>2, <2>3, <2>4, <2>5 DEF m
<1>14. \A e \in graph'.edges :
        /\ e.type = "latest-run" => e = Edge(CronJobRef, JobRef, "latest-run")
        /\ e.from \in {CronJobRef, JobRef} /\ e.to \in {JobRef} \cup DOMAIN graph'.nodes
  <2>1. \A e \in graph.edges :
        /\ e.type = "latest-run" => e = Edge(CronJobRef, JobRef, "latest-run")
        /\ e.from \in {CronJobRef, JobRef} /\ e.to \in {JobRef} \cup DOMAIN graph'.nodes
    BY <1>2, <1>8 DEF GraphInv
  <2>2. \A e \in edges :
        /\ e.type = "latest-run" => e = Edge(CronJobRef, JobRef, "latest-run")
        /\ e.from \in {CronJobRef, JobRef} /\ e.to \in {JobRef} \cup DOMAIN graph'.nodes
    BY <1>6, <1>8 DEF Edge
  <2>3. QED BY <1>8, <2>1, <2>2
<1>15. GraphInv'
  BY <1>2, <1>5, <1>8, <1>10, <1>12, <1>13, <1>14 DEF GraphInv, InGraph
<1>16. QED BY <1>5, <1>15 DEF JInv

Pick(S) == CHOOSE o \in S : TRUE

LEMMA PickIsIn ==
    ASSUME NEW S, S # {}
    PROVE  Pick(S) \in S
BY DEF Pick

\* Adding nodes for several objects: a ref some object names takes one that names it,
\* unless it holds an object; the others stay.
LEMMA AddNodesFields ==
    ASSUME NEW g, IsGraph(g), NEW objects
    PROVE  /\ IsGraph(AddNodes(g, objects))
           /\ AddNodes(g, objects).edges = g.edges
           /\ AddNodes(g, objects).issues = g.issues
           /\ DOMAIN AddNodes(g, objects).nodes = DOMAIN g.nodes \cup {o.ref : o \in objects}
           /\ \A r : IF ObjectOf(g, r) = NoObject /\ \E o \in objects : o.ref = r
                     THEN \E o \in objects : o.ref = r /\ ObjectOf(AddNodes(g, objects), r) = o
                     ELSE ObjectOf(AddNodes(g, objects), r) = ObjectOf(g, r)
<1> DEFINE Named(r) == {o \in objects : o.ref = r}
           h == AddNodes(g, objects)
<1>1. h = [g EXCEPT !.nodes =
            [r \in DOMAIN g.nodes \cup {o.ref : o \in objects} |->
                IF ObjectOf(g, r) = NoObject /\ Named(r) # {}
                THEN [object |-> Pick(Named(r)), unknown |-> FALSE]
                ELSE g.nodes[r]]]
  BY DEF AddNodes, Pick
<1> HIDE DEF h
<1>2. /\ IsGraph(h) /\ h.edges = g.edges /\ h.issues = g.issues
      /\ DOMAIN h.nodes = DOMAIN g.nodes \cup {o.ref : o \in objects}
      /\ \A r \in DOMAIN h.nodes :
            h.nodes[r] = IF ObjectOf(g, r) = NoObject /\ Named(r) # {}
                         THEN [object |-> Pick(Named(r)), unknown |-> FALSE]
                         ELSE g.nodes[r]
  BY <1>1 DEF IsGraph, GraphFields
<1>3. ASSUME NEW r
      PROVE  IF ObjectOf(g, r) = NoObject /\ \E o \in objects : o.ref = r
             THEN \E o \in objects : o.ref = r /\ ObjectOf(h, r) = o
             ELSE ObjectOf(h, r) = ObjectOf(g, r)
  <2>1. CASE ObjectOf(g, r) = NoObject /\ \E o \in objects : o.ref = r
    <3>1. Named(r) # {} /\ r \in DOMAIN h.nodes
      BY <1>2, <2>1
    <3>2. ObjectOf(h, r) = Pick(Named(r))
      <4> HIDE DEF Named, Pick
      <4>1. h.nodes[r] = [object |-> Pick(Named(r)), unknown |-> FALSE]
        BY <1>2, <2>1, <3>1
      <4>2. ObjectOf(h, r) = h.nodes[r].object
        BY <3>1 DEF ObjectOf, InGraph
      <4>3. QED BY <4>1, <4>2
    <3>3. Pick(Named(r)) \in Named(r)
      BY <3>1, PickIsIn
    <3>4. QED BY <2>1, <3>2, <3>3
  <2>2. CASE ~(ObjectOf(g, r) = NoObject /\ \E o \in objects : o.ref = r)
    <3>1. CASE r \in DOMAIN h.nodes
      <4>1. h.nodes[r] = g.nodes[r]
        BY <1>2, <2>2, <3>1
      <4>2. r \in DOMAIN g.nodes
        BY <1>2, <2>2, <3>1 DEF ObjectOf, InGraph
      <4>3. ObjectOf(h, r) = ObjectOf(g, r)
        BY <3>1, <4>1, <4>2 DEF ObjectOf, InGraph
      <4>4. QED BY <2>2, <4>3
    <3>2. CASE r \notin DOMAIN h.nodes
      <4>1. r \notin DOMAIN g.nodes
        BY <1>2, <3>2
      <4>2. ObjectOf(h, r) = ObjectOf(g, r)
        BY <3>2, <4>1 DEF ObjectOf, InGraph
      <4>3. QED BY <2>2, <4>2
    <3>3. QED BY <3>1, <3>2
  <2>3. QED BY <2>1, <2>2
<1>4. QED BY <1>2, <1>3 DEF h

\* What a Pod that exists is seen as.
LEMMA PodObjectFields ==
    ASSUME WorldInv, NEW p \in PodIds, pods[p] # "absent"
    PROVE  /\ PodObject(p) \in PodState /\ PodObject(p).ref = PodRef(p)
           /\ PodObject(p).phase = Phase(p)
           /\ PodObject(p).ready => Phase(p) = "Running"
           /\ Phase(p) = "Failed" <=> pods[p] \in {"failed", "stopped"}
<1>1. pods[p] \in {"starting", "running", "failed", "stopped", "succeeded"}
  BY Types DEF States
<1>2. /\ Phase(p) \in {"Pending", "Running", "Succeeded", "Failed"}
      /\ pods[p] = "running" => Phase(p) = "Running"
      /\ Phase(p) = "Failed" <=> pods[p] \in {"failed", "stopped"}
  BY <1>1 DEF Phase
<1>3. /\ PodObject(p).ref = PodRef(p) /\ PodObject(p).phase = Phase(p)
      /\ PodObject(p).ready = (pods[p] = "running")
  BY DEF PodObject
<1>4. PodObject(p) \in PodState
  BY <1>2 DEF PodObject, PodState
<1>5. QED BY <1>2, <1>3, <1>4

LEMMA ReadPodsKeeps ==
    ASSUME JInv, ReadPods, UNCHANGED <<worldVars, lag, focus>>
    PROVE  JInv'
<1> DEFINE read  == {p \in PodIds : pods[p] # "absent" /\ (focus.kind = "Pod" => PodRef(p) = focus)}
           objects == {PodObject(p) : p \in read}
           g     == AddNodes(graph, objects)
           edges == {Edge(JobRef, PodRef(p), "owns") : p \in {q \in read : InGraph(graph, JobRef)}}
<1>1. /\ Doing("pods") /\ graph' = AddEdges(g, edges)
      /\ changed' = (focus # PodRef(1) /\ changed)
  BY DEF ReadPods, Reading
<1>2. UNCHANGED <<job, pods, active, culprits, lag, focus>> /\ GraphInv /\ WorldInv
  BY DEF worldVars, JInv
<1>3. changed \in BOOLEAN /\ changed' \in BOOLEAN
  BY <1>1, <1>2, Types
<1>4. "pods" # "finish" /\ "pods" # "cronJob" /\ "pods" # "job"
  OBVIOUS
<1>5. /\ WorldInv' /\ OnPlan' /\ Len(plan') = Len(plan) - 1
      /\ plan' # <<>> /\ (Left("cronJob") => Left("cronJob")') /\ (Left("job") => Left("job")')
      /\ Len(plan) = IF focus = PodRef(1) THEN 4 ELSE 2
  BY <1>1, <1>3, <1>4, ReadingKeepsWorld
<1>6. \A p \in PodIds : ~InGraph(graph, PodRef(p))
  <2> SUFFICES ASSUME NEW p \in PodIds, InGraph(graph, PodRef(p))
               PROVE  FALSE
    OBVIOUS
  <2> DEFINE n == Len(plan)
  <2>1. IF focus = PodRef(1) THEN n < 4 ELSE n <= 1
    BY <1>2 DEF GraphInv, CulpritsAreSeen
  <2>2. n = IF focus = PodRef(1) THEN 4 ELSE 2
    BY <1>5
  <2> HIDE DEF n
  <2>3. QED BY <2>1, <2>2
<1>7. \A p \in read : p \in PodIds /\ pods[p] # "absent" /\ PodObject(p).ref = PodRef(p)
  BY DEF PodObject
<1>8. \A e \in edges : \E p \in read : InGraph(graph, JobRef) /\ e = Edge(JobRef, PodRef(p), "owns")
  OBVIOUS
<1>9. \A p \in read : InGraph(graph, JobRef) => Edge(JobRef, PodRef(p), "owns") \in edges
  OBVIOUS
<1>10. focus = PodRef(1) => \A p \in read : p = 1
  BY RefsDiffer
<1>11. \A o \in objects : \E p \in read : o = PodObject(p)
  OBVIOUS
<1>12. \A p \in read : PodObject(p) \in objects
  OBVIOUS
<1> HIDE DEF read, objects
<1>13. /\ IsGraph(graph') /\ graph'.edges = graph.edges \cup edges
       /\ DOMAIN graph'.nodes = DOMAIN graph.nodes \cup {o.ref : o \in objects}
       /\ \A r : ObjectOf(graph', r) = ObjectOf(g, r)
  <2>1. IsGraph(graph)
    BY <1>2 DEF GraphInv
  <2>2. /\ IsGraph(g) /\ g.edges = graph.edges
        /\ DOMAIN g.nodes = DOMAIN graph.nodes \cup {o.ref : o \in objects}
    BY <2>1, AddNodesFields
  <2> HIDE DEF g, edges
  <2>3. /\ IsGraph(graph') /\ graph'.nodes = g.nodes /\ graph'.edges = g.edges \cup edges
        /\ \A r : ObjectOf(graph', r) = ObjectOf(g, r)
    BY <1>1, <2>2, AddEdgesFields
  <2>4. QED BY <2>2, <2>3
<1>14. \A r : IF ObjectOf(graph, r) = NoObject /\ \E o \in objects : o.ref = r
              THEN \E o \in objects : o.ref = r /\ ObjectOf(g, r) = o
              ELSE ObjectOf(g, r) = ObjectOf(graph, r)
  BY <1>2, AddNodesFields DEF GraphInv
<1> HIDE DEF g, edges
<1>15. /\ JobSeen' = JobSeen
       /\ \A r \in {CronJobRef, JobRef} : InGraph(graph', r) <=> InGraph(graph, r)
  <2>1. \A o \in objects : o.ref # JobRef /\ o.ref # CronJobRef
    BY <1>7, <1>11, RefsDiffer
  <2>2. ObjectOf(graph', JobRef) = ObjectOf(graph, JobRef)
    BY <1>13, <1>14, <2>1
  <2>3. QED BY <1>13, <2>1, <2>2 DEF JobSeen, InGraph
<1>16. ASSUME NEW p \in PodIds, InGraph(graph', PodRef(p))
       PROVE  p \in read /\ PodSeen(p)' = PodObject(p)
  <2>1. PICK o \in objects : o.ref = PodRef(p)
    BY <1>6, <1>13, <1>16 DEF InGraph
  <2>2. ObjectOf(graph, PodRef(p)) = NoObject
    BY <1>6 DEF ObjectOf
  <2>3. PICK v \in objects : v.ref = PodRef(p) /\ ObjectOf(g, PodRef(p)) = v
    BY <1>14, <2>1, <2>2
  <2>4. PICK q \in read : v = PodObject(q)
    BY <1>11
  <2>5. q = p
    BY <1>7, <2>3, <2>4, RefsDiffer
  <2>6. QED BY <1>13, <2>3, <2>4, <2>5 DEF PodSeen
<1>17. JobIsSeen'
  BY <1>2, <1>15 DEF GraphInv, JobIsSeen
<1>18. PodsAreSeen'
  <2> SUFFICES ASSUME NEW p \in PodIds, InGraph(graph', PodRef(p))
               PROVE  /\ PodSeen(p)' \in PodState
                      /\ PodSeen(p)'.ready => PodSeen(p)'.phase = "Running"
                      /\ PodSeen(p)'.phase = "Failed" =>
                            pods[p] \in {"failed", "stopped"} \/ (pods[p] = "absent" /\ job.target # "")
                      /\ InGraph(graph', JobRef) => Edge(JobRef, PodRef(p), "owns") \in graph'.edges
    BY <1>2 DEF PodsAreSeen
  <2>1. p \in read /\ PodSeen(p)' = PodObject(p) /\ pods[p] # "absent"
    BY <1>7, <1>16
  <2>2. /\ PodSeen(p)' \in PodState
        /\ PodSeen(p)'.ready => PodSeen(p)'.phase = "Running"
        /\ PodSeen(p)'.phase = "Failed" => pods[p] \in {"failed", "stopped"}
    BY <1>2, <2>1, PodObjectFields
  <2>3. InGraph(graph', JobRef) => Edge(JobRef, PodRef(p), "owns") \in graph'.edges
    BY <1>9, <1>13, <1>15, <2>1
  <2>4. QED BY <2>2, <2>3
<1>19. CulpritsAreSeen'
  <2> DEFINE m == Len(plan')
  <2>1. m = IF focus = PodRef(1) THEN 3 ELSE 1
    <3> DEFINE n == Len(plan)
    <3>1. m = n - 1 /\ n = IF focus = PodRef(1) THEN 4 ELSE 2
      BY <1>5
    <3> HIDE DEF n, m
    <3>2. QED BY <3>1
  <2> SUFFICES ASSUME NEW p \in PodIds, InGraph(graph', PodRef(p))
               PROVE  IF focus = PodRef(1)
                      THEN p = 1 /\ m < 4 /\ (~changed' => PodSeen(p)'.phase = Phase(p))
                      ELSE m <= 1 /\ (p \in culprits => PodSeen(p)'.phase = "Failed")
    <3>1. \A p : Phase(p)' = Phase(p)
      BY <1>2 DEF Phase
    <3>2. QED BY <1>2, <3>1 DEF CulpritsAreSeen
  <2>2. p \in read /\ PodSeen(p)' = PodObject(p) /\ pods[p] # "absent"
    BY <1>7, <1>16
  <2>3. PodSeen(p)'.phase = Phase(p) /\ (pods[p] = "failed" => Phase(p) = "Failed")
    BY <1>2, <2>2, PodObjectFields
  <2>4. p \in culprits => pods[p] = "failed"
    BY <1>2 DEF WorldInv
  <2>5. (focus = PodRef(1) => m < 4) /\ (focus # PodRef(1) => m <= 1)
    <3> HIDE DEF m
    <3>1. QED BY <2>1
  <2> HIDE DEF m
  <2>6. focus = PodRef(1) => p = 1
    BY <1>10, <2>2
  <2>7. QED BY <2>3, <2>4, <2>5, <2>6
<1>20. \A e \in graph'.edges :
        /\ e.type = "latest-run" => e = Edge(CronJobRef, JobRef, "latest-run")
        /\ e.from \in {CronJobRef, JobRef} /\ e.to \in {JobRef} \cup DOMAIN graph'.nodes
  <2>1. \A e \in graph.edges :
        /\ e.type = "latest-run" => e = Edge(CronJobRef, JobRef, "latest-run")
        /\ e.from \in {CronJobRef, JobRef} /\ e.to \in {JobRef} \cup DOMAIN graph'.nodes
    BY <1>2, <1>13 DEF GraphInv
  <2>2. ASSUME NEW e \in edges
        PROVE  /\ e.type = "owns" /\ e.from = JobRef /\ e.to \in DOMAIN graph'.nodes
    <3>1. PICK p \in read : e = Edge(JobRef, PodRef(p), "owns")
      BY <1>8
    <3>2. e.type = "owns" /\ e.from = JobRef /\ e.to = PodRef(p)
      BY <3>1 DEF Edge
    <3>3. PodRef(p) \in DOMAIN graph'.nodes
      BY <1>7, <1>12, <1>13
    <3>4. QED BY <3>2, <3>3
  <2>3. QED BY <1>13, <2>1, <2>2
<1>21. DOMAIN graph'.nodes \subseteq {CronJobRef, JobRef} \cup {PodRef(p) : p \in PodIds}
  <2>1. \A o \in objects : o.ref \in {PodRef(p) : p \in PodIds}
    BY <1>7, <1>11
  <2>2. QED BY <1>2, <1>13, <2>1 DEF GraphInv
<1>22. GraphInv'
  BY <1>2, <1>5, <1>13, <1>15, <1>17, <1>18, <1>19, <1>20, <1>21 DEF GraphInv
<1>23. QED BY <1>5, <1>22 DEF JInv

LEMMA FinishKeeps ==
    ASSUME JInv, Finish, UNCHANGED <<worldVars, lag, focus>>
    PROVE  JInv'
<1>1. /\ Doing("finish") /\ changed' = changed
      /\ graph' = IF changed
                  THEN AddCollectionIssue(graph, Issue("temporal-integrity", focus, TRUE))
                  ELSE graph
  BY DEF Finish
<1>2. UNCHANGED <<job, pods, active, culprits, lag, focus>> /\ GraphInv /\ WorldInv
  BY DEF worldVars, JInv
<1>3. changed \in BOOLEAN /\ changed' \in BOOLEAN
  BY <1>1, <1>2, Types
<1>4. /\ IsGraph(graph') /\ graph'.nodes = graph.nodes /\ graph'.edges = graph.edges
      /\ changed => Issue("temporal-integrity", focus, TRUE) \in graph'.issues
  BY <1>1, <1>2 DEF AddCollectionIssue, GraphInv, IsGraph, GraphFields
<1>5. /\ \A r : ObjectOf(graph', r) = ObjectOf(graph, r)
      /\ \A r : InGraph(graph', r) <=> InGraph(graph, r)
  BY <1>4 DEF ObjectOf, InGraph
<1>6. "finish" # "pods" /\ "finish" # "cronJob" /\ "finish" # "job"
  OBVIOUS
<1>7. InGraph(graph, CronJobRef) /\ InGraph(graph, JobRef)
  <2>1. Len(plan) = 1 /\ plan[1] = "finish"
    <3>1. focus \in {CronJobRef, JobRef, PodRef(1)} /\ OnPlan
      BY <1>2, Types DEF GraphInv
    <3>2. QED BY <1>1, <1>2, <3>1, PlanStep DEF Doing
  <2>2. ~Left("cronJob") /\ ~Left("job")
    <3>1. \A i \in 1..1 : plan[i] = "finish"
      BY <2>1
    <3>2. QED BY <1>6, <2>1, <3>1 DEF Left
  <2>3. QED BY <1>2, <2>2 DEF GraphInv
<1>8. \A e \in graph'.edges : {e.from, e.to} \subseteq DOMAIN graph'.nodes
  BY <1>2, <1>4, <1>7 DEF GraphInv, InGraph
<1>9. /\ WorldInv' /\ OnPlan' /\ Len(plan') = Len(plan) - 1 /\ Len(plan) = 1
  BY <1>1, <1>3, <1>8, ReadingKeepsWorld
<1>10. JobSeen' = JobSeen /\ \A p : PodSeen(p)' = PodSeen(p)
  BY <1>5 DEF JobSeen, PodSeen
<1>11. JobIsSeen'
  BY <1>2, <1>5, <1>10 DEF GraphInv, JobIsSeen
<1>12. PodsAreSeen'
  BY <1>2, <1>4, <1>5, <1>10 DEF GraphInv, PodsAreSeen
<1>13. CulpritsAreSeen'
  <2> DEFINE n == Len(plan)
             m == Len(plan')
  <2>1. n = 1 /\ m = n - 1
    BY <1>9
  <2> HIDE DEF n, m
  <2>2. m < 4 /\ m <= 1
    BY <2>1
  <2>3. \A p : Phase(p)' = Phase(p)
    BY <1>2 DEF Phase
  <2> SUFFICES ASSUME NEW p \in PodIds, InGraph(graph, PodRef(p))
               PROVE  IF focus = PodRef(1)
                      THEN p = 1 /\ (~changed => PodSeen(p).phase = Phase(p))
                      ELSE InGraph(graph, JobRef) /\ FailureReason(JobSeen) # "" /\ p \in culprits =>
                                PodSeen(p).phase = "Failed"
    BY <1>1, <1>2, <1>5, <1>10, <2>2, <2>3 DEF CulpritsAreSeen, m
  <2>4. QED BY <1>2 DEF GraphInv, CulpritsAreSeen
<1>14. changed' => HasCollectionSourceIssue(graph', "temporal-integrity")
  BY <1>1, <1>4 DEF HasCollectionSourceIssue, Issue
<1>15. GraphInv'
  BY <1>2, <1>4, <1>5, <1>7, <1>9, <1>11, <1>12, <1>13, <1>14 DEF GraphInv
<1>16. QED BY <1>9, <1>15 DEF JInv

LEMMA NextJInv == JInv /\ [Next]_vars => JInv'
<1> SUFFICES ASSUME JInv, [Next]_vars PROVE JInv'
  OBVIOUS
<1>1. CASE WorldStep
  BY <1>1, WorldStepKeeps
<1>2. CASE InspectionStep
  BY <1>2, ReadCronJobKeeps, ReadJobKeeps, ReadPodsKeeps, FinishKeeps DEF InspectionStep
<1>3. CASE UNCHANGED vars
  <2>1. UNCHANGED <<job, pods, active, culprits, lag, focus, plan, changed, graph>>
    BY <1>3 DEF vars, worldVars
  <2>2. WorldInv'
    BY <2>1 DEF JInv, WorldInv, TypeOK
  <2>3. JobSeen' = JobSeen /\ \A p : PodSeen(p)' = PodSeen(p) /\ Phase(p)' = Phase(p)
    BY <2>1 DEF JobSeen, PodSeen, Phase
  <2>4. JobIsSeen' /\ PodsAreSeen'
    BY <2>1, <2>3 DEF JInv, GraphInv, JobIsSeen, PodsAreSeen
  <2>5. CulpritsAreSeen'
    BY <2>1, <2>3 DEF JInv, GraphInv, CulpritsAreSeen
  <2>6. OnPlan' /\ \A s : Left(s)' = Left(s)
    BY <2>1 DEF JInv, GraphInv, OnPlan, Left
  <2>7. GraphInv'
    BY <2>1, <2>4, <2>5, <2>6 DEF JInv, GraphInv
  <2>8. QED BY <2>2, <2>7 DEF JInv
<1>4. QED BY <1>1, <1>2, <1>3 DEF Next

\* What was read of the Job and of its Pods is true of them, or was when they were read,
\* in every order of reads and of steps of the controllers.
THEOREM ReadsAreAccountable == Spec => []JInv
BY InitJInv, NextJInv, PTL DEF Spec

\* Every variable has its type, and a complete graph has a node at both ends of its edges.
THEOREM JobsTypes == Spec => []TypeOK
<1>1. JInv => TypeOK
  BY DEF JInv, WorldInv
<1>2. QED BY <1>1, ReadsAreAccountable, PTL

-----------------------------------------------------------------------------
(* What the findings are about. *)

\* The types of the findings of each rule.
LEMMA FindingTypes ==
    /\ \A f \in PodFindings(graph) :
        f.type \in {"crashloop-backoff", "container-oomkilled", "container-sigkill", "pod-not-ready",
                    "readiness-probe-failing", "readiness-probe-port-mismatch", "node-pressure",
                    "pod-evicted"}
    /\ \A f \in JobFailedFindings(graph) :
        /\ f.type = "job-failed"
        /\ f.resource \in RefsHeld(graph, "Job") /\ MetFailureCriteria(ObjectOf(graph, f.resource))
    /\ \A f \in CronJobLatestRunFailedFindings(graph) :
        /\ f.type = "cronjob-latest-run-failed"
        /\ f.resource \in RefsHeld(graph, "CronJob")
        /\ \E j \in LatestRuns(graph, f.resource) :
                ObjectOf(graph, j) # NoObject /\ MetFailureCriteria(ObjectOf(graph, j))
<1>1. \A f \in CrashLoopFindings(graph) : f.type = "crashloop-backoff"
  BY DEF CrashLoopFindings, FindingOf, FindingAbout
<1>2. \A f \in OomKilledFindings(graph) : f.type \in {"container-oomkilled", "container-sigkill"}
  BY DEF OomKilledFindings, TerminationFinding, FindingOf, FindingAbout
<1>3. \A f \in PodNotReadyFindings(graph) : f.type = "pod-not-ready"
  BY DEF PodNotReadyFindings, FindingOf, FindingAbout
<1>4. \A f \in ReadinessProbeFailingFindings(graph) : f.type = "readiness-probe-failing"
  BY DEF ReadinessProbeFailingFindings, FindingOf, FindingAbout
<1>5. \A f \in ReadinessProbePortFindings(graph) : f.type = "readiness-probe-port-mismatch"
  BY DEF ReadinessProbePortFindings, FindingOf, FindingAbout
<1>6. \A f \in NodePressureFindings(graph) : f.type = "node-pressure"
  BY DEF NodePressureFindings, FindingOf, FindingAbout
<1>7. \A f \in PodEvictedFindings(graph) : f.type = "pod-evicted"
  BY DEF PodEvictedFindings, FindingOf, FindingAbout
<1>8. \A f \in PodFindings(graph) :
        f.type \in {"crashloop-backoff", "container-oomkilled", "container-sigkill", "pod-not-ready",
                    "readiness-probe-failing", "readiness-probe-port-mismatch", "node-pressure",
                    "pod-evicted"}
  BY <1>1, <1>2, <1>3, <1>4, <1>5, <1>6, <1>7 DEF PodFindings
<1>9. \A f \in JobFailedFindings(graph) :
        /\ f.type = "job-failed"
        /\ f.resource \in RefsHeld(graph, "Job") /\ MetFailureCriteria(ObjectOf(graph, f.resource))
  BY DEF JobFailedFindings, FindingOf, FindingAbout
<1>10. \A f \in CronJobLatestRunFailedFindings(graph) :
        /\ f.type = "cronjob-latest-run-failed"
        /\ f.resource \in RefsHeld(graph, "CronJob")
        /\ \E j \in LatestRuns(graph, f.resource) :
                ObjectOf(graph, j) # NoObject /\ MetFailureCriteria(ObjectOf(graph, j))
  BY DEF CronJobLatestRunFailedFindings, FindingOf, FindingAbout
<1>11. QED BY <1>8, <1>9, <1>10

\* A Job that is said to have failed is the one that was read, and why.
LEMMA JobFailedMeans ==
    ASSUME JInv, NEW e \in Findings, e.type = "job-failed"
    PROVE  /\ e.resource = JobRef /\ InGraph(graph, JobRef) /\ JobSeen # NoObject
           /\ FailureReason(JobSeen) # "" /\ FailureReason(JobSeen) = job.target
           /\ JobSeen.backoffLimit = job.limit
<1>1. e \in PodFindings(graph) \cup JobFindings(graph)
  BY DEF Findings
<1>2. e \in JobFailedFindings(graph)
  BY <1>1, FindingTypes DEF JobFindings
<1>3. /\ e.resource \in DOMAIN graph.nodes /\ e.resource.kind = "Job"
      /\ ObjectOf(graph, e.resource) # NoObject
      /\ FailureReason(ObjectOf(graph, e.resource)) # ""
  BY <1>2, FindingTypes DEF RefsHeld, MetFailureCriteria
<1>4. DOMAIN graph.nodes \subseteq {CronJobRef, JobRef} \cup {PodRef(p) : p \in PodIds}
  BY DEF JInv, GraphInv
<1>5. e.resource = JobRef
  BY <1>3, <1>4, RefsDiffer
<1>6. InGraph(graph, JobRef) /\ JobSeen # NoObject /\ FailureReason(JobSeen) # ""
  BY <1>3, <1>5 DEF InGraph, JobSeen
<1>7. FailureReason(JobSeen) = job.target /\ JobSeen.backoffLimit = job.limit
  BY <1>6 DEF JInv, GraphInv, JobIsSeen
<1>8. QED BY <1>5, <1>6, <1>7

\* Only one relation links a finding to a failed Job.
LEMMA BlameIsByRetryBudget ==
    ASSUME NEW c, NEW e, e.type = "job-failed", Explains(graph, c, e)
    PROVE  FailedPodExhaustedJobRetryBudget(graph, c, e)
<1>1. \A a, b : <<c.type, e.type>> = <<a, b>> => c.type = a /\ e.type = b
  OBVIOUS
<1> DEFINE mechanism == <<c.type, e.type>>
<1>2. mechanism \notin SamePodMechanisms
  BY <1>1 DEF SamePodMechanisms
<1>3. mechanism \notin SameResourceMechanisms
  BY <1>1 DEF SameResourceMechanisms
<1>4. mechanism \notin TerminationMechanisms
  BY <1>1 DEF TerminationMechanisms
<1>5. mechanism \notin StorageMechanisms
  BY <1>1 DEF StorageMechanisms
<1>6. /\ mechanism # <<"pod-not-ready", "service-no-ready-endpoints">>
      /\ mechanism # <<"pod-not-ready", "deployment-unavailable">>
      /\ mechanism # <<"pod-not-ready", "rollout-stuck">>
      /\ mechanism # <<"pod-not-ready", "statefulset-unavailable">>
      /\ mechanism # <<"job-failed", "cronjob-latest-run-failed">>
      /\ mechanism # <<"node-pressure", "pod-evicted">>
  BY <1>1
<1>7. QED BY <1>2, <1>3, <1>4, <1>5, <1>6 DEF Explains

-----------------------------------------------------------------------------
(* The properties. *)

LEMMA BlameIsJust == JInv => OnlySpentBudgetIsBlamed
<1> SUFFICES ASSUME JInv, NEW p \in Blamed
             PROVE  culprits # {} /\ job.limit = 0 /\ pods[p] \notin {"starting", "running", "succeeded"}
  BY DEF OnlySpentBudgetIsBlamed
<1>1. p \in PodIds
  BY DEF Blamed
<1>2. PICK link \in Links : link[1].resource = PodRef(p) /\ link[2].type = "job-failed"
  BY DEF Blamed
<1> DEFINE c == link[1]
           e == link[2]
<1>3. e \in Findings /\ Explains(graph, c, e)
  BY DEF Links, Correlate
<1>4. c.resource = PodRef(p) /\ e.type = "job-failed"
  BY <1>2
<1> HIDE DEF c, e
<1>5. FailedPodExhaustedJobRetryBudget(graph, c, e)
  BY <1>3, <1>4, BlameIsByRetryBudget
<1>6. /\ e.resource = JobRef /\ FailureReason(JobSeen) = job.target
      /\ JobSeen.backoffLimit = job.limit
  BY <1>3, <1>4, JobFailedMeans
<1>7. /\ job.target = "BackoffLimitExceeded" /\ job.limit = 0
      /\ PodSeen(p) # NoObject /\ PodSeen(p).phase = "Failed"
  BY <1>4, <1>5, <1>6 DEF FailedPodExhaustedJobRetryBudget, JobSeen, PodSeen
<1>8. InGraph(graph, PodRef(p))
  BY <1>7 DEF PodSeen, ObjectOf
<1>9. pods[p] \in {"failed", "stopped", "absent"}
  BY <1>1, <1>7, <1>8 DEF JInv, GraphInv, PodsAreSeen
<1>10. culprits # {}
  BY <1>7 DEF JInv, WorldInv
<1>11. QED BY <1>7, <1>9, <1>10

LEMMA CulpritsAreBlamed == JInv => CulpritIsBlamed
<1> SUFFICES ASSUME JInv, NEW e \in Findings, e.type = "job-failed", job.limit = 0,
                    NEW p \in culprits, InGraph(graph, PodRef(p))
             PROVE  p \in Blamed
  BY DEF CulpritIsBlamed
<1>1. /\ plan = <<>> /\ ~HasCollectionSourceIssue(graph, "temporal-integrity")
      /\ Findings = PodFindings(graph) \cup JobFindings(graph)
  BY DEF Findings
<1>2. p \in PodIds /\ pods[p] = "failed"
  BY Types DEF JInv, WorldInv
<1>3. ~changed
  BY <1>1 DEF JInv, GraphInv
<1>4. /\ e.resource = JobRef /\ InGraph(graph, JobRef) /\ JobSeen # NoObject
      /\ FailureReason(JobSeen) # "" /\ FailureReason(JobSeen) = "BackoffLimitExceeded"
      /\ JobSeen.backoffLimit = 0
  <2>1. job.target = "BackoffLimitExceeded"
    BY DEF JInv, WorldInv
  <2>2. QED BY <2>1, JobFailedMeans
<1>5. PodSeen(p).phase = "Failed"
  <2>1. CASE focus = PodRef(1)
    <3>1. PodSeen(p).phase = Phase(p)
      BY <1>2, <1>3, <2>1 DEF JInv, GraphInv, CulpritsAreSeen
    <3>2. QED BY <1>2, <3>1 DEF Phase
  <2>2. CASE focus # PodRef(1)
    BY <1>2, <1>4, <2>2 DEF JInv, GraphInv, CulpritsAreSeen
  <2>3. QED BY <2>1, <2>2
<1>6. /\ PodSeen(p) # NoObject /\ ~PodSeen(p).ready
      /\ Edge(JobRef, PodRef(p), "owns") \in graph.edges
  <2>1. /\ PodSeen(p) \in PodState /\ (PodSeen(p).ready => PodSeen(p).phase = "Running")
        /\ Edge(JobRef, PodRef(p), "owns") \in graph.edges
    BY <1>2, <1>4 DEF JInv, GraphInv, PodsAreSeen
  <2>2. PodSeen(p) # NoObject
    BY <2>1, JobsAssumption
  <2>3. QED BY <1>5, <2>1, <2>2
<1> DEFINE c == FindingOf("pod-not-ready", PodRef(p), NoSubject, "current")
<1>7. c \in Findings
  <2>1. PodRef(p) \in PodRefs(graph)
    BY <1>6, RefsDiffer DEF PodRefs, PodSeen, InGraph
  <2>2. c \in PodNotReadyFindings(graph)
    BY <1>5, <1>6, <2>1 DEF PodNotReadyFindings, PodSeen
  <2>3. QED BY <1>1, <2>2 DEF PodFindings
<1>8. c.type = "pod-not-ready" /\ c.resource = PodRef(p)
  BY DEF FindingOf, FindingAbout
<1> HIDE DEF c
<1>9. FailedPodExhaustedJobRetryBudget(graph, c, e)
  BY <1>4, <1>5, <1>6, <1>8 DEF FailedPodExhaustedJobRetryBudget, HasEdge, JobSeen, PodSeen
<1>10. Explains(graph, c, e)
  BY <1>8, <1>9 DEF Explains
<1>11. <<c, e>> \in Links
  BY <1>7, <1>8, <1>10 DEF Links, Correlate
<1>12. <<c, e>>[1].resource = PodRef(p) /\ <<c, e>>[2].type = "job-failed"
  BY <1>8
<1>13. QED BY <1>2, <1>11, <1>12 DEF Blamed

LEMMA FailedRunsAreExplained == JInv => LatestRunFailureIsExplained
<1> SUFFICES ASSUME JInv, NEW e \in Findings, e.type = "cronjob-latest-run-failed"
             PROVE  \E link \in Links : link[1].type = "job-failed" /\ link[2] = e
  BY DEF LatestRunFailureIsExplained
<1>1. Findings = PodFindings(graph) \cup JobFindings(graph)
  BY DEF Findings
<1>2. e \in CronJobLatestRunFailedFindings(graph)
  BY <1>1, FindingTypes DEF JobFindings
<1>3. PICK j \in LatestRuns(graph, e.resource) :
        ObjectOf(graph, j) # NoObject /\ MetFailureCriteria(ObjectOf(graph, j))
  BY <1>2, FindingTypes
<1>4. PICK edge \in graph.edges : edge.from = e.resource /\ edge.type = "latest-run" /\ edge.to = j
  BY <1>3 DEF LatestRuns
<1>5. edge = Edge(CronJobRef, JobRef, "latest-run")
  BY <1>4 DEF JInv, GraphInv
<1>6. j = JobRef /\ e.resource = CronJobRef /\ HasEdge(graph, e.resource, JobRef, "latest-run")
  BY <1>4, <1>5 DEF Edge, HasEdge
<1> DEFINE c == FindingOf("job-failed", JobRef, NoSubject, "current")
<1>7. c \in Findings
  <2>1. JobRef \in RefsHeld(graph, "Job")
    BY <1>3, <1>6, RefsDiffer DEF RefsHeld, ObjectOf, InGraph
  <2>2. c \in JobFailedFindings(graph)
    BY <1>3, <1>6, <2>1 DEF JobFailedFindings
  <2>3. QED BY <1>1, <2>2 DEF JobFindings
<1>8. c.type = "job-failed" /\ c.resource = JobRef
  BY DEF FindingOf, FindingAbout
<1> HIDE DEF c
<1>9. Explains(graph, c, e)
  BY <1>6, <1>8 DEF Explains, IsLatestRun
<1>10. <<c, e>> \in Links
  BY <1>7, <1>8, <1>9 DEF Links, Correlate
<1>11. <<c, e>>[1].type = "job-failed" /\ <<c, e>>[2] = e
  BY <1>8
<1>12. QED BY <1>10, <1>11

\* No Pod is blamed for a Job that met its deadline or had a retry left, and none that may
\* still succeed.
THEOREM BlameIsForSpentBudgets == Spec => []OnlySpentBudgetIsBlamed
BY BlameIsJust, ReadsAreAccountable, PTL

\* Every collected Pod that spent a budget of zero is blamed.
THEOREM EveryCulpritIsBlamed == Spec => []CulpritIsBlamed
BY CulpritsAreBlamed, ReadsAreAccountable, PTL

\* A failed latest run is explained by the finding of the Job it ran.
THEOREM FailedRunIsExplained == Spec => []LatestRunFailureIsExplained
BY FailedRunsAreExplained, ReadsAreAccountable, PTL

=============================================================================
