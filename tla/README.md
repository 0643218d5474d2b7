# Tuna, specified

`kubectl tuna inspect KIND NAME` reads a small graph of Kubernetes resources
around one focus, runs deterministic rules over it, links findings by typed
causal relationships, and ends with an exit status somebody may act on. The
program writes nothing and keeps nothing. What is hard about it is honesty: the
graph is put together from twenty or more API calls, any of which may fail, be
cut off by the deadline, or answer about a cluster that has moved on since the
call before; and the answer must never claim more than was seen.

## 1. The system

| Part | Source | State | Operations | Modelled in |
|---|---|---|---|---|
| Resource graph | `internal/graph/graph.go` | nodes (object, missing or unknown), typed edges, Events, issues, version, two focus revisions | `AddNode`, `AddUnknownNode`, `AddEdge`, `AddEvents`, `AddCollectionIssue`, `BeginCollection`, `FinishCollection`, `SetKubernetesVersion`, queries | `Objects`, `ResourceGraph` |
| Collector | `internal/kube/collector.go` | none but the graph, and where it is in the call sequence | six `Collect` functions, `addPod`, `addJob`, references, HPAs, Events, the final read | `Collector`, `CollectorProperties` |
| Latest run of a CronJob | `collector.go:289-337` | a scan's best Job, its time, a tie flag | one loop | `LatestRun`, `CronJobLatest` |
| Version discovery | `collector.go:755-802` | a goroutine, a buffered channel | ask, answer, give up | `VersionDiscovery` |
| API server, controllers, users | external | the objects | create, delete, change a specification, reconcile, touch | `Cluster` |
| Registry and engine | `internal/diag/registry.go`, `engine.go` | findings, skipped rules, warnings | one registration at a time, then the verdict | `Engine`, `EngineProperties` |
| Command | `internal/cli/cli.go` | the context's deadline, the exit status | `runInspect` | `Collector` (deadline), `Engine` (exit) |
| Rules | `internal/diag/rules_*.go` | none | one graph to findings | `PodRules`, `WorkloadRules`, `StartRules`, `JobRules` (19 of the 20 rules), `AutoscalerRules` (which HPAs the last one judges) |
| Correlation | `internal/diag/correlate.go` | links between findings | `Correlate`, `RootCauses`, `Standalone`, `Chain` | `Correlation` |
| Kubelet, scheduler, controllers | external | container states, Events, a rollout, claims, a Job | start, stop, kill, evict; edit, sync, replace; bind, schedule, pull; retry, give up | `Kubelet`, `Rollout`, `Startup`, `Jobs` |
| Reports | `internal/report` | none | sections, grouping of replicas, JSON | `Correlation` (sections, chain), `Console` (groups) |

How they interact. The command makes a context with a deadline and calls the
collector, which is sequential: each API call reads the cluster once, and
everything between two calls is local. The one exception is version discovery,
whose request runs on a goroutine of its own because the client takes no
context. The collector hands the finished graph to the engine, which runs over
it without further calls; the report and the exit status come from its result.

What makes each part right, and what is hard about it:

* **Graph.** Each method only adds, and a later one never takes back what an
  earlier one recorded; a typed path is a walk of exactly those types, cycles or
  not.
* **Collector.** No failed call turns into an absence; each failure leaves an
  issue; an owner is the incarnation its child names; Events are about the
  incarnation in the graph; a collection that overlapped a write of its focus,
  or that read a controller behind its own specification, is known to have.
  Hard: all of this with writes between any two calls, one call failing, and
  the deadline passing anywhere.
* **Latest run.** One Job, or a reason; independent of the order of the list.
* **Version discovery.** The collector always gets past it; the goroutine never
  blocks in its send; only what the server said is recorded.
* **Rules.** A finding says what happened to the resource it names. Hard:
  a container's status holds two terminations of different restarts, Events are
  about the whole Pod, get lost and expire, and Pod, Node and Events are three
  reads of a Pod that goes on.
  Several rules ask the same question in code of their own: whether a claim
  blocks a Pod, whether a Job failed, whether an HPA's status is stale.
* **Correlation.** A cause is linked to an effect only by a mechanism that was at
  work when the objects were read; no finding is lost between the sections of
  the report; links have no cycles. Hard: rollouts back and forth, where the
  target ReplicaSet is neither the oldest nor the youngest; a scheduler's word
  that stands until it tries again; a Job that stops its Pods because it failed.
* **Console.** Findings shown as one entry are alike in what they explain, too.
* **Engine.** Exit 0 is earned by a complete evaluation; exit 2 by a finding of
  a rule that was applicable; a result not marked partial is whole.

## 2. Modules

`Objects` declares the resources and what an object is. `ResourceGraph` makes
the graph a value with one operator for each method of `Graph`. `Cluster` has
the store and its writes. `Collector` extends both and `LatestRun`, with one
action for the code between two API calls:

| Action | Code |
|---|---|
| `ReadFocus` | the first GET, `BeginCollection`, `AddNode` |
| `CollectClusterInfo` | `collectClusterInfo` as one step, and the error of a selector that does not parse |
| `AddPod`, `AddLinks` | `addPod` up to its first call; the edges that follow a sequence of calls |
| `ResolveExactOwner`, `ResolveReplicaSet`, `ResolveDeployment` | the owner chain of `addPod` and `addJob` |
| `AddConfigMapRef`, `AddSecretRef`, `AddStorageRef`, `AddScheduledNode` | `addConfigRefs`, `addStorageRefs`, the Node |
| `ListSelectedPods`, `ListReplicaSets`, `ListDeploymentPods`, `ListStatefulSetPods`, `ListJobPods`, `ListCronJobJobs` | the LIST of each `Collect` function |
| `ListServices`, `AddService`, `ListEndpointSlices` | `collectServicesSelectingPods` and its copies |
| `CollectAutoscalers`, `CollectEvents`, `ListPodEvents` | `collectHorizontalPodAutoscalers`, `collectEvents` |
| `FinishFocusCollection` | the second GET of the focus, `FinishCollection`, `validateControllerFreshness` |

The control state is `work`, the stack of what is left to do: what in the code
is a position in nested loops and calls. A task holds the *object* the loop has
in its hand, not its name, so what is stale in the code is stale in the model.
`failed`, `notFound` and `disturbed` are histories no action of the collector
reads, except that `MaxFailures` bounds the first. `Volatile` names, for each
focus, the objects others write while it is inspected.

`Inspection` is the abstract specification: observe, move, and then fail,
suspend or conclude, the last only if nothing moved. `CollectorProperties`
instantiates it (`Promise`) with a refinement mapping and states the invariants.

`CronJobLatest` is the loop, one Job a step, against the definition in
`LatestRun`; `Collector` uses the definition. `VersionDiscovery` has the
interleavings of the two goroutines that `Collector` takes in one step.

`Engine` runs one registration a step: `PassOver` (suspended), `SkipRule`,
`EvaluateRule`, then `Conclude` and `Exit`. What a rule says is arbitrary, of
types it does not declare included, so whatever is shown holds of all rules.
`Graphs` is any set of graphs that keep the collector's promise
(`CollectedGraph`). The same operator, of `ResourceGraph`, is what
`HandsOverCollectedGraph` says of the collector: the two halves of an inspection
meet in one definition.

`Correlation` is the table of the 23 causal mechanisms by the relation each
requires, the links, and the sections the console makes of them; `Console` is
which findings it shows as one entry. `PodRules`, `WorkloadRules`, `StartRules`
and `JobRules` are rules as functions from a graph to findings. Four modules
give them graphs to read, each a changing piece of a cluster and one inspection
of it, the reads as separate actions:

* `Kubelet`: a Pod. `Start`, `BackOff`, `Fail`, `OomKills`, `KubeletKills`,
  `ProbeSucceeds`, `ProbeFails`, `PressureChanges`, `Evict`, `Forget` are the
  surroundings; `ReadPod`, `ReadNode`, `ReadEvents` are `addPod`, its Node and
  `collectEvents`. The histories `oomed` and `missed`, and the `by` of a
  termination, are the truth no rule can see.
* `Rollout`: a Deployment of one replica with two templates, behind a Service
  that names its port; only the Pods of the templates in `Declaring` have one of
  that name, and what the EndpointSlices hold follows from it (`Routed`). `Edit`,
  `Sync`, `DeadlineExceeded`, `CreatePod`, `Readiness`, `Retire`; the reads
  follow `CollectDeployment` or `CollectService`, in the order of each (`Plan`).
* `Startup`: the two Pods of a StatefulSet that wait for a claim bound only when
  its Pod is scheduled, one bound at once that both share, a ConfigMap, a Secret,
  or an image. Each read may fail: the operators `With...` are one call each,
  answered or not, and every action applies them twice, to `graph` with the answer
  it got and to `complete` as if no call had failed. `fresh` is the history that
  the scheduler's words were true when the Pods were read and nothing moved since.
* `Jobs`: the run of a CronJob, two Pods at a time. The controller says that the
  budget is spent or the deadline has passed (`FailureTarget`), stops the Pods
  that are left, and then says `Failed`. `culprits` is the history of the Pods
  that had failed when the budget was spent.

Their graphs are values of `ResourceGraph`, as the collector's are; failing
calls, deadlines and incarnations, which `Collector` has, are left out of
them, except the list of Events that fails in `Kubelet` and the calls of
`Startup`.

`Instance` and the `MC*` modules are instances for TLC.

## 3. Runs

| Run | What it shows | Bounds |
|---|---|---|
| `web` | absence, gaps, staleness, deadline, what the engine is handed, which HPAs are passed over, for Service, Deployment and Pod foci | eleven resources; writes of the Deployment and the ReplicaSet, and of an HPA or a Pod by focus (`MCVolatile`), up to revision 3; one failing call; any deadline |
| `batch` | exact owners, the latest run, the two reads of the focus, Events of the right incarnation, refinement of `Inspection`, for CronJob, Job, Pod and StatefulSet foci; that every inspection ends | two runs with a Pod each and a third without its annotation, a StatefulSet's Pods; revision 4; one failing call |
| `cronjob_latest` | the scan | every list of up to three Jobs, three time stamps |
| `version_discovery` | goroutine, channel and select | none: the state is finite |
| `engine` | what the exit status is worth | two rules, two Nodes, a minor below, at each bound of and above the reviewed range, every set of gaps |
| `kubelet` | what may be said of containers that stopped, and what they explain | two containers, one with a memory limit; three stops; any Event lost or forgotten; one step of the world after the Pod was read |
| `rollout` | target of a rollout, shortage of replicas, roots, chains and entries, typed paths, a port one of two templates declares | two templates, two edits, the second ReplicaSet absent or older than the first; three steps of the world after the first read |
| `startup` | what missing or pending claims, configuration and images explain; that nothing follows from a call that failed | two Pods, two claims, a ConfigMap and a Secret; one failing call; one step of the world after the first read |
| `jobs` | which Pods a failed Job is blamed on; the failed latest run of a CronJob | a retry budget of none or one, three Pods, two at a time; two steps of the world after the first read |
| `neighbour_oom`, `restarted_oom` | divergences, see 6 | as `kubelet` |
| `owners_by_name` | a divergence, see 6 | as `web`, no failing call, revision 4 |

Why the bounds are enough. The cluster starts at revision 1, so revision 4
allows three writes: a deletion, a creation under the same name, and one more
between them or around them, which is the longest race a check in the code has
to see through (read, delete, create, read). In `web` two writes reach every
pair of a change of a specification and its reconciliation. One failing call
meets every call site, since each may be the one; under an expired context all
later calls fail as well. Two Pods are enough for a reference to be looked up
from one and found held from the other. In the scan, a tie needs two Jobs and a
third that breaks it.

Three stops of two containers reach a previous and a present termination of one
container that differ, and one of its neighbour. After the Pod was read only its
Node and the Events are, so one step reaches each way the three reads can
disagree in one respect. Two edits are a rollout and a rollback; with three
steps between five reads a Pod can be made, fail and be replaced meanwhile.

The two Pods of `startup` share one claim and differ in all else, so a rule that
takes one Pod's evidence for the other's is seen, and one claim of each binding
mode suffices for one to hide behind the other. What happens before the first
read is not bounded, so every combination of what is missing is met, and one step
after it separates any two reads. A budget of one in `jobs` is the smallest that
allows a retry, and takes three Pods to spend with two running at a time; two
steps after the first read are the controller's first word and what follows it.

`TypeOK` is an invariant of `web`; that of every other module but `Engine` is
proved, as a theorem (`RolloutTypes`, `StartupTypes`) or as part of the inductive
invariant of the module. All can be added to a cfg.

`CHECK_DEADLOCK FALSE` is in each cfg because the program stops when it is done.

Fairness. Only liveness needs any. `FairSpec` in `batch` assumes that
the timer of `context.WithTimeout` fires (`WF_vars(Expire)`, `cli.go:111`) and
that a call under an expired context returns, which client-go does
(`WF_vars(expired /\ CollectorStep)`); the server owes no answer, and the
cluster no write. `VersionDiscovery` assumes that, and that Go schedules both
goroutines; nothing makes the server answer.

## 4. Proofs

The theorems hold for every value of the constants: any finite set of
resources, any shape, focus, interleaving of writes and number of failures; any
registry and any rules.

* `CronJobLatest_proofs`: `ScanInvariantHolds`, `ScanCorrect`. The loop
  invariant says what the scan knows of the Jobs it has seen: whether there was
  one, the newest, its time, and whether another has that time. At the end,
  that *is* the definition.
* `Collector_proofs`: `ClusterIsTyped` (any write takes the next revision and is
  seen in one resource alone, so an object whose revision is unchanged was not
  written); `Invariant`, and from it `StabilityIsRight`,
  `DeadlineIsSeen`, `CollectorKeepsPromise`. The inductive invariant `IInv` has,
  beside types, `FocusWatched` (while a collection runs, the focus is
  as it was first read if and only if nobody wrote it; otherwise its revision is
  a later one) and `Concluded` (what a finished collection recorded). The
  properties alone are not inductive: they say nothing of a collection that
  still runs. The twenty-two actions that only gather evidence are taken
  together by `GatheringStepGathers`.

  `GraphInvariant` adds `GInv`, and from it follow `Typing`, `MissingIsTold`,
  `GapsAreTold`, `EvaluationIsCurrent` and `HandsOver`. What makes it inductive:
  the tasks left hold objects of the kind their actions take for granted
  (`GoodTask`, so no action adds a Pod that is not there); the graph is `Sound`
  for what was `notFound` and what `failed` *so far*, not only at the end; and
  until the version is settled the task for it is ahead of the last one
  (`Opens`). Each action is shown to keep the graph sound and to go on with plain
  tasks (`Advances`). That what a list keeps is a sequence needs an induction over
  its length, which is done on a least counterexample (`AscendingExists`).

  `GraphIsFaithful` adds `OInv`, for the properties that say that two things in
  the graph belong together: `OwnersAreExact`, `LatestRunOnly`,
  `EventsAreOfTheirPods`, `EveryHpaIsSeen`. None is inductive, because the code
  holds an object in its hand across API calls and compares UIDs only once. `OInv`
  says that the graph is `Faithful` (each object is one the cluster can have had,
  an edge of an exact owner leads between the incarnations that name each other,
  an Event is about the incarnation that is held), that each task left `Fits` the
  graph (what it will say is true of the graph as it is now, and stays so while
  others add to it, since `AddNode` keeps the object that is there), and that no
  two tasks hold two incarnations of one Pod (`Apart`: a `Collect` function lists
  Pods once, and a list answers from one revision). Below a CronJob the Job of a
  Pod is in the graph before the Pod (`RunIsKnown`), so the owner chain adds no
  second run. `OnlyLatestRun` is an action property: the Job that enters the graph
  is compared with the Jobs the API server holds in that very step, which a later
  state no longer shows. `BringsNoJob` holds of every other step (one that looks
  up, one that lists), and `ScanBringsLatest` says what the list of the Jobs
  brings; `SetToSeqCovers` is why no Job is left out of the scan.
* `VersionDiscovery_proofs`: `VersionIsDiscoveredHolds`, from `DiscoveryInvariant`:
  the channel holds at most the one answer and only after the goroutine sent it,
  and the outcome is settled once, by the answer received or by the deadline.
* `Engine_proofs`: `HealthIsEarned`, `DegradationIsProved`, `ResultIsWhole`,
  from `IInv == LoopInv /\ VerdictInv`: what the registrations passed so far came
  to, and that the verdict was taken from the state the loop ended in.
* `Kubelet_proofs`: `OnlyCurrentTerminationsExplain`: the correlation's reading
  of a container's state implies the rule's (`TerminationsAgree`); no invariant
  is needed, for any containers and any Events. `OomFollowsAKill`,
  `KubeletKillsAreExplained`, `CurrentTerminationsAreDown` and
  `OomLoopsAreExplained` follow from `SeenIsAccountable`. Its invariant `KInv` has
  two halves. What the kubelet writes is lawful: a container that waits has no
  present termination, a kill by the kernel is in the history `oomed`, one by the
  kubelet is told by an Event or one was lost. And what was read stays lawful
  after the Pod has moved on: between the read of the Pod and that of the Events
  no Event that explained it can go without `missed` saying so.
* `Jobs_proofs`: `EveryCulpritIsBlamed`, `BlameIsForSpentBudgets` and
  `FailedRunIsExplained` from `ReadsAreAccountable`. `JInv` relates the verdict,
  the history `culprits` and the Pods (a Pod is stopped only for a Job that will
  fail; a spent budget has its culprits, and they stay failed), and says why a
  graph read piece by piece still shows it: a reason a Job was read with stays its
  reason, a Pod read as Failed is gone only with its Job, and Pods are read after
  the Job, or the Pod in focus has not changed since.
* `Rollout_proofs`: `BlockersRunCurrentTemplate`, from the inductive invariant
  `GraphRight` of what the graph may hold at any moment (`GraphStaysRight`). The
  property speaks only of finished inspections with findings of two types, and
  says nothing of the graph in between. `BlockersAreShownApart`: an entry of
  the console never mixes Pods that block a rollout with Pods that do not, since
  findings of one key lead to findings of the same types.

  `OlderPodsExplain`, `UnroutedPodsAreExplained` and `TypedPathsAreWalks` need
  `RInv` (`WhatIsReadIsJoined`): every edge has its ends in the graph, or a step
  still in the plan adds them; whichever of a ReplicaSet and its Pod is read
  second adds the edge between them, so no ownership is missed in either order of
  the reads; and while nothing has happened since the first read, what was
  collected is as the cluster is. The path of types in `TypedPathIsWalk` has two
  edges, as every path the rules ask for, so its frontier unfolds. The
  graphs of `rollout` are trees of ownership, so neither the run nor the theorem
  says anything of cycles and diamonds; the lemma `TwoOwnerships` does, of any
  set of edges.

  Causal links: each link of the table leads to a type of a higher level
  (`LinksGoUp`). Following links back from a symptom therefore ends, after at most
  four steps, at a finding nothing explains (`EverySymptomHasARootHolds`).
  `ChainsAreLongest` says that the greedy search of the console (`Chain`,
  which goes on with a finding of greatest depth) draws a longest path. The
  recursion is over sets of findings; that it has a value at all is shown from the
  five levels (`DepthIsDefined`: functions that agree on a level and above agree
  one level lower after one step), then that the depth is how far one can go,
  level by level from the top (`DepthIsFarthest`), then that each step of the chain
  keeps what could be reached (`GrowKeepsGood`). It holds of any links that lead up
  and of any finite set of findings; that the findings of a rollout are finitely
  many is proved of its graphs (`FindingsAreFinite`).
* `Startup_proofs`: `PendingImpactAgrees`. The rule that reports a Pending claim
  calls it a current problem exactly if the correlation links it to a Pod; no
  invariant is needed, for any graph a read can produce. `GapsProveNothing`,
  `WaitingForConsumerIsNoOutage`, `TheObstacleIsTheRoot` and
  `ConfigErrorsAreExplained` follow from `WhatIsReadIsRecorded`. Its invariant
  `SInv` compares the graph that was collected with the one of an inspection none
  of whose calls failed: they are `Related` at every moment, since a resource is
  read once and a step only adds to both; what a failed call left out is
  `Recorded` as an issue; and a graph whose words are still true is `UpToDate`.
  `GapsProveNothing` then is that findings and links only grow with the graph.

Induction. The library's induction theorems take an operator, which the provers
cannot instantiate. Where a proof needs one over a number, it takes the least
counterexample instead (`LeastNumber`, from the well-foundedness of `<`); where it
needs one over the causal table, it goes through the five levels.

Assumptions: those named `...Assumption` in the modules, which say what the
constants are, and TLC evaluates them. `EngineAssumption` takes from the collector
that a graph has a version or an issue that blocks health (`CollectedGraph`); that
the collector hands over nothing else is checked in `web` (`HandsOverCollectedGraph`)
and proved (`HandsOver`). `CollectorAssumption` says of which kinds references can
be, and that the focus is of one a command can name (`FocusKinds`).
`ClusterAssumption` says that an object has at most one owner with `controller:
true` (`OneController`), which the API server enforces; without it
`OwnersAreExact` could not be stated of *the* controller. `KubeletAssumption`,
`RolloutAssumption`, `StartupAssumption` and `JobsAssumption` say that the
references of their objects are among `Refs`, and that `NoObject`, the model value
for "there is none", is not itself a Pod, a claim, a slice or a termination.

Only model-checked: liveness (`InspectionEnds`, `CollectorReturns`,
`ProbeNeverStuck`), which needs fairness and so `ENABLED`. Every other property of
a passing run is proved. The divergences of 6 are counterexamples, and TLC's.

## 5. What is left out

* Contents of labels, selectors, annotations: `Shape` says what matches what,
  and no write changes it. `podNeedsEvents` is a field of it too.
* Messages, timestamps, sorting, the wording of reports.
* Pagination and watch caches: the collector issues plain GETs and LISTs.
* A LIST answers from one revision. So does the API server.
* Flags, kubeconfig, client construction.
* Scripts, examples, corpus: release engineering and end-to-end fixtures.
* What the rule about HPAs says: it reads conditions off the HPA itself. Which
  HPAs it judges is modelled (`Judged`).
* Init containers are not told apart from others; a Service has one port; two
  ReplicaSets never have one template, so the order among equal ones (`Younger`)
  is not exercised; references are never optional, and a ConfigMap that exists
  has the keys asked for.
* In `Rollout`, a Service has one EndpointSlice, with a Pod an address.

## 6. Where documents and code disagree

* `owners_by_name`: ReplicaSets and Deployments are taken by name
  (`collector.go:500-536`), where a comment (`122-123`) and the documents
  promise UIDs. A ReplicaSet deleted and created again between the LIST of the
  Pods and the GET is linked to Pods it does not own. Job, StatefulSet and
  CronJob owners are compared by UID (`ExactOwners`).
* `neighbour_oom`: an OOMKilling Event about the Pod is taken for a statement
  about each of its containers that ever stopped (`rules_workload.go:293`), so a
  container that crashed by itself is explained by its neighbour's OOM kill,
  which the documents rule out (`docs/how-it-works.md:328-330`).
* `restarted_oom`: the rule looks at the previous termination first and then not
  at the present one (`rules_workload.go:270`), so a container that is
  OOM-killed now, after an earlier exit of another kind, is not reported unless
  the Event was collected.

Worth knowing, though no run is about it:

* An owner already in the graph that does not match its next child
  (`collector.go:438-442`, `472-475`) is passed over with neither an edge nor an
  issue.
* Events of a Ready Pod are not read (`podNeedsEvents`), and no issue says so; a
  container the kubelet restarted and that recovered is reported, as historical,
  as killed for unknown reasons. `KubeletKillIsNoMystery` is about Pods that are
  not Ready.
* What the scheduler said of a Pod stands until it tries again. If it named
  unbound claims and the claim to blame has been bound since, a claim that waits
  for its Pod can be called a current problem; `DelayedBindingIsNoOutage` is
  about words that are still true.
* A Pod the controller stopped because its Job failed ends Failed as well, and
  is among the Pods the Job is blamed on (`correlate.go:142-155`); cause and effect
  are reversed for it. `CulpritIsBlamed` says that the Pods that did spend the
  budget are among them, and `OnlySpentBudgetIsBlamed` that a Job that failed for
  another reason is blamed on none.
* The key of a group has neither the Pod nor what a finding is about: two missing
  references of one container are shown as "2 replicas".
* A missing reference of a Pod that runs is a current problem to the rule.

## 7. Plan

1. Done: graph, cluster, collector, latest run, version discovery, engine,
   correlation, all rules but the conditions of HPAs, the console's groups;
   containers, rollouts, starting Pods, Jobs.
2. `Inspect`: collector and engine composed over `CollectedGraph`, so that the
   exit status is related to the cluster directly.
3. Proofs: every safety property that a run checks is proved, and the refinement
   of `Inspection`. Left is `Inspect`, once it is written: what the exit status says
   of the cluster, from `HandsOver` and `HealthIsEarned`.
