--------------------------- MODULE Kubelet_proofs ---------------------------
(***************************************************************************)
(* What an inspection may say of containers that stopped: for any          *)
(* containers, any order in which the kernel, the kubelet and the API      *)
(* server act, any Events lost, and every moment the Pod, its Node and its *)
(* Events are read at.                                                     *)
(*                                                                         *)
(* The rules and the correlation read a container's status separately and  *)
(* agree on whether its termination is current (TerminationsAgree).  That  *)
(* what is said of a kill is true needs KInv: statuses are as a kubelet    *)
(* writes them, a kill is in the history or told by an Event unless one    *)
(* was lost, and what was read stays accounted for while the Pod moves on. *)
(***************************************************************************)
EXTENDS KubeletProperties, TLAPS

\* A finding about a termination is one of oomKilledRule's.
LEMMA TerminationFindingShape ==
    ASSUME NEW g, NEW f \in PodFindings(g),
           f.type \in {"container-oomkilled", "container-sigkill"}
    PROVE  f = TerminationFinding(g, f.resource, f.container, f.type)
<1>1. f \in OomKilledFindings(g)
  BY DEF PodFindings, CrashLoopFindings, PodNotReadyFindings, ReadinessProbeFailingFindings,
         ReadinessProbePortFindings, NodePressureFindings, PodEvictedFindings, FindingOf, FindingAbout
<1>2. PICK r, c, type : f = TerminationFinding(g, r, c, type)
  BY <1>1 DEF OomKilledFindings
<1>3. f.resource = r /\ f.container = c /\ f.type = type
  BY <1>2 DEF TerminationFinding, FindingOf, FindingAbout
<1>4. QED BY <1>2, <1>3

\* What the correlation takes for the present termination still disrupts the container.
LEMMA MatchingTerminationDisrupts ==
    ASSUME NEW g, NEW c, NEW e, CurrentTerminationMatchesFinding(g, c, e)
    PROVE  TerminationStillDisrupting(ObjectOf(g, c.resource).statuses[c.container], c.type)
BY DEF CurrentTerminationMatchesFinding, TerminationStillDisrupting

\* A termination and a Pod that is not Ready are linked by no other mechanism.
LEMMA TerminationMechanism ==
    ASSUME NEW g, NEW c, NEW e, Explains(g, c, e), e.type = "pod-not-ready",
           c.type \in {"container-oomkilled", "container-sigkill"}
    PROVE  CurrentTerminationMatchesFinding(g, c, e)
BY DEF Explains, SamePodMechanisms, SameResourceMechanisms, StorageMechanisms

\* A container's termination explains that its Pod is not Ready only when the rule that
\* found it calls it current (terminationStillDisrupting, currentTerminationMatchesFinding).
THEOREM TerminationsAgree == OnlyCurrentTerminationsExplainNotReady
<1> SUFFICES ASSUME Done, NEW link \in Links, link[2].type = "pod-not-ready",
                    link[1].type \in {"container-oomkilled", "container-sigkill"}
             PROVE  link[1].impact = "current"
  BY DEF OnlyCurrentTerminationsExplainNotReady
<1>1. link[1] \in PodFindings(graph) /\ Explains(graph, link[1], link[2])
  BY DEF Links, Correlate, Findings
<1>2. link[1] = TerminationFinding(graph, link[1].resource, link[1].container, link[1].type)
  BY <1>1, TerminationFindingShape
<1>3. TerminationStillDisrupting(
        ObjectOf(graph, link[1].resource).statuses[link[1].container], link[1].type)
  BY <1>1, TerminationMechanism, MatchingTerminationDisrupts
<1>4. QED BY <1>2, <1>3 DEF TerminationFinding, FindingOf, FindingAbout

\* The two readings agree in every inspection, at every moment.
THEOREM OnlyCurrentTerminationsExplain == Spec => []OnlyCurrentTerminationsExplainNotReady
<1>1. OnlyCurrentTerminationsExplainNotReady BY TerminationsAgree
<1>2. QED BY <1>1, TerminationsAgree, PTL

-----------------------------------------------------------------------------
(* What the Pod's statuses, the Events and the history have to do with each  *)
(* other, and what of it is left in what an inspection has read.             *)

\* Neither running nor new.
Down(status) == status.terminated # NoObject \/ status.waiting = "CrashLoopBackOff"

\* A status as the kubelet writes it: a container that waits has no present
\* termination and one that loops has a previous one; only one that runs is ready.
WellFormed(status) ==
    /\ status.waiting # "" => status.terminated = NoObject
    /\ status.waiting = "ContainerCreating" => status.last = NoObject
    /\ status.waiting = "CrashLoopBackOff" => status.last # NoObject
    /\ status.ready => Running(status)

Ended(state, c, termination) ==
    termination \in {state.statuses[c].terminated, state.statuses[c].last}

\* A Pod is Ready when its containers are, and the kernel's kills are the recorded ones.
Lawful(state) ==
    \A c \in Containers :
        /\ WellFormed(state.statuses[c])
        /\ state.ready => state.statuses[c].ready
        /\ Ended(state, c, OomKill) => c \in oomed

\* If the kubelet killed a container of the Pod, an Event says so or was lost.
Told(state, events) ==
    (\E c \in Containers : Ended(state, c, KubeletKill)) =>
        missed \/ \E e \in events : TellsOfKill(e)

\* No container was restarted more often than containers stopped.
RestartsCounted ==
    Alive => \A c \in Containers :
        pod.statuses[c].restarts + (IF Down(pod.statuses[c]) THEN 1 ELSE 0) <= stopped

\* Events are about this Pod, and one that tells of an OOM kill follows one.
Genuine(events) ==
    \A e \in events :
        /\ e.involved = PodRef /\ e.uid = PodUID
        /\ e.reason = "OOMKilling" => oomed # {}

WorldInv ==
    /\ TypeOK
    /\ Lawful(pod)
    /\ Told(pod, recorded)
    /\ RestartsCounted
    /\ Genuine(recorded)

\* The Pod as it was read.
Seen == ObjectOf(graph, PodRef)

\* From the read of the Pod on the graph holds that Pod; in the end, if it was not Ready,
\* also what Events the API server had left, or an issue.
GraphInv ==
    /\ IsGraph(graph)
    /\ DOMAIN graph.nodes \subseteq {PodRef, NodeRef}
    /\ graph.edges \subseteq {Edge(PodRef, NodeRef, "scheduled-on")}
    /\ Genuine(graph.events)
    /\ step = "pod" => DOMAIN graph.nodes = {}
    /\ step # "pod" => Seen \in PodState /\ Lawful(Seen)
    /\ step \in {"node", "events"} => Told(Seen, recorded)
    /\ step \in {"events", "done"} => NodeRef \in DOMAIN graph.nodes
    /\ Done /\ NeedsEvents =>
        HasCollectionSourceIssue(graph, "events") \/ Told(Seen, graph.events)

\* The inductive invariant.
KInv == WorldInv /\ GraphInv

-----------------------------------------------------------------------------
(* The kubelet keeps them. *)

\* What a step may do to the Events and the history: nothing told is taken back,
\* but that an Event may be lost.
Remembered ==
    /\ missed' \in BOOLEAN
    /\ missed => missed'
    /\ (\E e \in recorded : TellsOfKill(e)) => missed' \/ \E e \in recorded' : TellsOfKill(e)
    /\ oomed \subseteq oomed'

EventTypes == {"OOMKilling", "Killing", "Unhealthy", "Evicted"}

\* The types of the variables one by one.
LEMMA Types ==
    ASSUME WorldInv
    PROVE  /\ pod \in PodState
           /\ stopped \in 0..MaxTerminations /\ lag \in 0..MaxLag
           /\ missed \in BOOLEAN /\ pressure \in BOOLEAN
           /\ oomed \subseteq Containers
           /\ step \in {"pod", "node", "events", "done"}
BY DEF WorldInv, TypeOK

\* The fields of a Pod.
LEMMA PodFields ==
    ASSUME NEW state \in PodState
    PROVE  /\ state.ref = PodRef /\ state.uid = PodUID /\ state.phase \in {"Running", "Failed"}
           /\ state.ready \in BOOLEAN /\ state.statuses \in [Containers -> Status]
           /\ state.limited \subseteq Containers /\ state.probe \in [Containers -> ProbePorts]
BY DEF PodState

\* An Event is recorded or lost.
LEMMA RecordRemembers ==
    ASSUME WorldInv, NEW reason \in EventTypes, NEW about \in Containers \cup {NoSubject},
           Record(EventAbout(reason, about)), oomed \subseteq oomed',
           reason = "OOMKilling" => oomed' # {},
           pod' \in PodState
    PROVE  /\ Remembered
           /\ recorded' \subseteq {EventAbout(r, a)' : r \in EventTypes, a \in Containers \cup {NoSubject}}
           /\ Genuine(recorded)'
           /\ reason \in {"Killing", "Evicted"} => missed' \/ \E e \in recorded' : TellsOfKill(e)
<1> DEFINE e == EventAbout(reason, about)
<1>1. pod.uid = PodUID /\ pod'.uid = PodUID
  BY Types, PodFields
<1>2. e = [involved |-> PodRef, uid |-> PodUID, reason |-> reason, about |-> about]
  BY <1>1 DEF EventAbout
<1>3. e.involved = PodRef /\ e.uid = PodUID /\ e.reason = reason
  BY <1>2
<1>4. \A r, a : EventAbout(r, a)' = EventAbout(r, a)
  BY <1>1 DEF EventAbout
<1>5. recorded \subseteq {EventAbout(r, a) : r \in EventTypes, a \in Containers \cup {NoSubject}}
  BY DEF WorldInv, TypeOK, EventTypes
<1>6. missed \in BOOLEAN
  BY DEF WorldInv, TypeOK
<1>7. \/ recorded' = recorded \cup {e} /\ missed' = missed
      \/ recorded' = recorded /\ missed' = (missed \/ TellsOfKill(e))
  BY DEF Record
<1>8. e \in {EventAbout(r, a) : r \in EventTypes, a \in Containers \cup {NoSubject}}
  OBVIOUS
<1>9. TellsOfKill(e) = (reason \in {"Killing", "Evicted"})
  BY <1>3 DEF TellsOfKill
<1> HIDE DEF e
<1>10. Remembered
  BY <1>6, <1>7 DEF Remembered, TellsOfKill
<1>11. recorded' \subseteq {EventAbout(r, a)' : r \in EventTypes, a \in Containers \cup {NoSubject}}
  BY <1>4, <1>5, <1>7, <1>8
<1>12. Genuine(recorded)'
  BY <1>3, <1>7 DEF WorldInv, Genuine
<1>13. reason \in {"Killing", "Evicted"} => missed' \/ \E x \in recorded' : TellsOfKill(x)
  BY <1>6, <1>7, <1>9
<1>14. QED BY <1>10, <1>11, <1>12, <1>13

\* Without an Event nothing is forgotten.
LEMMA NothingRecorded ==
    ASSUME WorldInv, UNCHANGED <<recorded, missed>>, oomed \subseteq oomed', pod' \in PodState
    PROVE  /\ Remembered
           /\ recorded' \subseteq {EventAbout(r, a)' : r \in EventTypes, a \in Containers \cup {NoSubject}}
           /\ Genuine(recorded)'
<1>1. pod.uid = PodUID /\ pod'.uid = PodUID
  BY Types, PodFields
<1>2. \A r, a : EventAbout(r, a)' = EventAbout(r, a)
  BY <1>1 DEF EventAbout
<1>3. QED BY <1>2 DEF WorldInv, TypeOK, EventTypes, Remembered, Genuine

\* The Pod with another status of one container.
LEMMA WithStatusFields ==
    ASSUME pod \in PodState, NEW c \in Containers, NEW s \in Status
    PROVE  /\ WithStatus(c, s) \in PodState
           /\ WithStatus(c, s).phase = pod.phase
           /\ WithStatus(c, s).statuses = [pod.statuses EXCEPT ![c] = s]
           /\ WithStatus(c, s).ready = \A d \in Containers : [pod.statuses EXCEPT ![c] = s][d].ready
<1> DEFINE t == [pod.statuses EXCEPT ![c] = s]
           allReady == \A d \in Containers : t[d].ready
<1>1. t \in [Containers -> Status]
  BY DEF PodState
<1>2. allReady \in BOOLEAN
  OBVIOUS
<1>3. WithStatus(c, s) = [pod EXCEPT !.statuses = t, !.ready = allReady]
  BY DEF WithStatus
<1> HIDE DEF t, allReady
<1>4. /\ WithStatus(c, s) \in PodState
      /\ WithStatus(c, s).phase = pod.phase
      /\ WithStatus(c, s).statuses = t
      /\ WithStatus(c, s).ready = allReady
  BY <1>1, <1>2, <1>3 DEF PodState
<1>5. QED BY <1>4 DEF t, allReady

\* A status as good as the others, and told of as they are.
LEMMA StatusStep ==
    ASSUME WorldInv, Alive, NEW c \in Containers, NEW s \in Status, WellFormed(s),
           pod' = WithStatus(c, s),
           Remembered,
           recorded' \subseteq {EventAbout(r, a)' : r \in EventTypes, a \in Containers \cup {NoSubject}},
           Genuine(recorded)',
           pressure' \in BOOLEAN, oomed' \subseteq Containers,
           OomKill \in {s.terminated, s.last} => c \in oomed',
           KubeletKill \in {s.terminated, s.last} => missed' \/ \E e \in recorded' : TellsOfKill(e),
           stopped' \in 0..MaxTerminations, stopped <= stopped',
           s.restarts + (IF Down(s) THEN 1 ELSE 0) <= stopped',
           step' = step, ~Done, lag' \in 0..MaxLag
    PROVE  WorldInv'
<1> DEFINE t == [pod.statuses EXCEPT ![c] = s]
<1>1. /\ pod \in PodState /\ pod.statuses \in [Containers -> Status]
      /\ stopped \in 0..MaxTerminations
      /\ missed \in BOOLEAN
      /\ step \in {"pod", "node", "events", "done"}
  BY Types, PodFields
<1>2. /\ pod' \in PodState /\ pod'.phase = pod.phase /\ pod'.statuses = t
      /\ pod'.ready = \A d \in Containers : t[d].ready
  BY <1>1, WithStatusFields
<1>3. \A d \in Containers : t[d] = IF d = c THEN s ELSE pod.statuses[d]
  BY <1>1
<1> HIDE DEF t
<1>4. TypeOK'
  BY <1>1, <1>2 DEF TypeOK, Remembered, EventTypes, Done
<1>5. Lawful(pod)'
  <2> SUFFICES ASSUME NEW d \in Containers
               PROVE  /\ WellFormed(t[d])
                      /\ pod'.ready => t[d].ready
                      /\ OomKill \in {t[d].terminated, t[d].last} => d \in oomed'
    BY <1>2 DEF Lawful, Ended, WellFormed, Running
  <2>1. CASE d = c
    BY <1>2, <1>3, <2>1
  <2>2. CASE d # c
    BY <1>2, <1>3, <2>2 DEF WorldInv, Lawful, Ended, Remembered
  <2>3. QED BY <2>1, <2>2
<1>6. Told(pod, recorded)'
  <2> SUFFICES ASSUME NEW d \in Containers, KubeletKill \in {t[d].terminated, t[d].last}
               PROVE  missed' \/ \E e \in recorded' : TellsOfKill(e)
    BY <1>2 DEF Told, Ended, TellsOfKill
  <2>1. CASE d = c
    BY <1>3, <2>1
  <2>2. CASE d # c
    <3>1. Ended(pod, d, KubeletKill)
      BY <1>3, <2>2 DEF Ended
    <3>2. missed \/ \E e \in recorded : TellsOfKill(e)
      BY <3>1 DEF WorldInv, Told
    <3>3. QED BY <3>2 DEF Remembered
  <2>3. QED BY <2>1, <2>2
<1>7. RestartsCounted'
  <2> SUFFICES ASSUME NEW d \in Containers
               PROVE  t[d].restarts + (IF Down(t[d]) THEN 1 ELSE 0) <= stopped'
    BY <1>2 DEF RestartsCounted, Down
  <2>1. CASE d = c
    BY <1>3, <2>1
  <2>2. CASE d # c
    <3>1. /\ pod.statuses[d].restarts + (IF Down(pod.statuses[d]) THEN 1 ELSE 0) <= stopped
          /\ pod.statuses[d].restarts \in Int
      <4>1. pod.statuses[d] \in Status
        BY <1>1
      <4>2. pod.statuses[d].restarts \in 0..MaxTerminations
        BY <4>1 DEF Status
      <4>3. QED BY <4>2 DEF WorldInv, RestartsCounted
    <3>2. stopped \in Int /\ stopped' \in Int
      BY <1>1
    <3> DEFINE n == pod.statuses[d].restarts + (IF Down(pod.statuses[d]) THEN 1 ELSE 0)
    <3>3. n \in Int
      BY <3>1
    <3> HIDE DEF n
    <3>4. n <= stopped
      BY <3>1 DEF n
    <3>5. n <= stopped'
      BY <3>2, <3>3, <3>4
    <3>6. QED BY <1>3, <2>2, <3>5 DEF n
  <2>3. QED BY <2>1, <2>2
<1>8. QED BY <1>4, <1>5, <1>6, <1>7 DEF WorldInv

\* The four ways to end differ, and none is NoObject.
LEMMA Endings ==
    /\ NoObject \notin Terminations
    /\ OomKill # KubeletKill /\ Crash # KubeletKill /\ OtherKill # KubeletKill
    /\ Crash # OomKill /\ OtherKill # OomKill
BY KubeletAssumption DEF Terminations, OomKill, Crash, OtherKill, KubeletKill, TerminationBy

\* What is known of a container before a step of the kubelet.
LEMMA StatusBefore ==
    ASSUME WorldInv, NEW c \in Containers
    PROVE  /\ pod.statuses[c] \in Status
           /\ pod.statuses[c].waiting \in {"", "ContainerCreating", "CrashLoopBackOff"}
           /\ pod.statuses[c].terminated \in Terminations \cup {NoObject}
           /\ pod.statuses[c].last \in Terminations \cup {NoObject}
           /\ pod.statuses[c].restarts \in 0..MaxTerminations
           /\ pod.statuses[c].ready \in BOOLEAN
           /\ WellFormed(pod.statuses[c])
           /\ OomKill \in {pod.statuses[c].terminated, pod.statuses[c].last} => c \in oomed
           /\ KubeletKill \in {pod.statuses[c].terminated, pod.statuses[c].last} =>
                missed \/ \E e \in recorded : TellsOfKill(e)
           /\ Alive => pod.statuses[c].restarts + (IF Down(pod.statuses[c]) THEN 1 ELSE 0) <= stopped
<1>1. pod.statuses[c] \in Status
  BY Types, PodFields
<1>2. /\ pod.statuses[c].waiting \in {"", "ContainerCreating", "CrashLoopBackOff"}
      /\ pod.statuses[c].terminated \in Terminations \cup {NoObject}
      /\ pod.statuses[c].last \in Terminations \cup {NoObject}
      /\ pod.statuses[c].restarts \in 0..MaxTerminations
      /\ pod.statuses[c].ready \in BOOLEAN
  BY <1>1 DEF Status
<1>3. /\ WellFormed(pod.statuses[c])
      /\ OomKill \in {pod.statuses[c].terminated, pod.statuses[c].last} => c \in oomed
  BY DEF WorldInv, Lawful, Ended
<1>4. KubeletKill \in {pod.statuses[c].terminated, pod.statuses[c].last} =>
                missed \/ \E e \in recorded : TellsOfKill(e)
  BY DEF WorldInv, Told, Ended
<1>5. Alive => pod.statuses[c].restarts + (IF Down(pod.statuses[c]) THEN 1 ELSE 0) <= stopped
  BY DEF WorldInv, RestartsCounted
<1>6. QED BY <1>1, <1>2, <1>3, <1>4, <1>5

\* The world moves while an inspection is going on.
Meanwhile == ~Done /\ step' = step /\ lag' \in 0..MaxLag

\* A step that records nothing and in which nothing stops leaves its container's kills
\* told of as they were.
LEMMA QuietStatusStep ==
    ASSUME WorldInv, Meanwhile, Alive, NEW c \in Containers, NEW s \in Status, WellFormed(s),
           pod' = WithStatus(c, s), UNCHANGED <<pressure, recorded, missed, stopped, oomed>>,
           \A termination \in {s.terminated, s.last} :
                termination \in {pod.statuses[c].terminated, pod.statuses[c].last, NoObject},
           s.restarts + (IF Down(s) THEN 1 ELSE 0) <= stopped
    PROVE  WorldInv'
<1>1. /\ pod \in PodState /\ stopped \in 0..MaxTerminations /\ missed \in BOOLEAN
      /\ pressure \in BOOLEAN /\ oomed \subseteq Containers
  BY Types
<1>2. pod' \in PodState
  BY <1>1, WithStatusFields
<1>3. /\ Remembered
      /\ recorded' \subseteq {EventAbout(r, a)' : r \in EventTypes, a \in Containers \cup {NoSubject}}
      /\ Genuine(recorded)'
  BY <1>2, NothingRecorded
<1>4. OomKill # NoObject /\ KubeletKill # NoObject
  BY Endings DEF Terminations
<1>5. OomKill \in {s.terminated, s.last} => c \in oomed'
  BY <1>4, StatusBefore
<1>6. KubeletKill \in {s.terminated, s.last} => missed' \/ \E e \in recorded' : TellsOfKill(e)
  <2>1. KubeletKill \in {s.terminated, s.last} => missed \/ \E e \in recorded : TellsOfKill(e)
    BY <1>4, StatusBefore
  <2>2. QED BY <2>1, <1>3 DEF Remembered
<1>7. stopped \in Int /\ stopped' = stopped /\ step' = step /\ ~Done /\ lag' \in 0..MaxLag
  BY <1>1 DEF Meanwhile
<1>8. pressure' \in BOOLEAN /\ oomed' \subseteq Containers /\ stopped' \in 0..MaxTerminations
      /\ stopped <= stopped' /\ s.restarts + (IF Down(s) THEN 1 ELSE 0) <= stopped'
  BY <1>1, <1>7
<1>9. QED BY <1>3, <1>5, <1>6, <1>7, <1>8, StatusStep

LEMMA StartKeeps ==
    ASSUME WorldInv, Meanwhile, NEW c \in Containers, Start(c)
    PROVE  WorldInv'
<1> DEFINE st == pod.statuses[c]
           again == st.waiting # "ContainerCreating"
           s == [waiting |-> "", terminated |-> NoObject,
                 last |-> IF st.terminated # NoObject THEN st.terminated ELSE st.last,
                 restarts |-> IF st.waiting = "ContainerCreating" THEN 0 ELSE st.restarts + 1,
                 ready |-> pod.probe[c] = "none"]
<1>1. /\ Alive /\ ~Running(st)
      /\ pod' = WithStatus(c, s)
      /\ UNCHANGED <<pressure, recorded, missed, stopped, oomed>>
  BY DEF Start
<1>2. again => Down(st)
  BY <1>1, StatusBefore DEF Running, Down
<1>3. /\ stopped \in Nat /\ stopped <= MaxTerminations /\ MaxTerminations \in Nat
      /\ st.restarts \in Nat
  <2>1. MaxTerminations \in Nat
    BY KubeletAssumption
  <2>2. stopped \in 0..MaxTerminations /\ st.restarts \in 0..MaxTerminations
    BY Types, StatusBefore
  <2> HIDE DEF st
  <2>3. QED BY <2>1, <2>2
<1>4. again => st.restarts + 1 <= stopped
  BY <1>1, <1>2, StatusBefore
<1>5. s.restarts \in 0..MaxTerminations /\ s.restarts <= stopped
  BY <1>3, <1>4
<1>6. s.terminated = NoObject /\ s.waiting = ""
      /\ s.last \in {st.terminated, st.last} /\ s.ready \in BOOLEAN
  OBVIOUS
<1>7. s \in Status
  BY <1>5, StatusBefore DEF Status
<1>8. WellFormed(s) /\ ~Down(s)
  BY <1>6 DEF WellFormed, Running, Down
<1> HIDE DEF s
<1>9. s.restarts + (IF Down(s) THEN 1 ELSE 0) <= stopped
  BY <1>3, <1>5, <1>8
<1>10. \A termination \in {s.terminated, s.last} :
        termination \in {st.terminated, st.last, NoObject}
  BY <1>6
<1>11. QED BY <1>1, <1>7, <1>8, <1>9, <1>10, QuietStatusStep

LEMMA BackOffKeeps ==
    ASSUME WorldInv, Meanwhile, NEW c \in Containers, BackOff(c)
    PROVE  WorldInv'
<1> DEFINE st == pod.statuses[c]
           s == [st EXCEPT !.waiting = "CrashLoopBackOff", !.last = st.terminated,
                           !.terminated = NoObject]
<1>1. /\ Alive /\ st.terminated # NoObject
      /\ pod' = WithStatus(c, s)
      /\ UNCHANGED <<pressure, recorded, missed, stopped, oomed>>
  BY DEF BackOff
<1>2. /\ st \in Status /\ WellFormed(st) /\ st.terminated \in Terminations \cup {NoObject}
      /\ Alive => st.restarts + (IF Down(st) THEN 1 ELSE 0) <= stopped
  BY StatusBefore
<1> HIDE DEF st
<1>3. /\ s.waiting = "CrashLoopBackOff" /\ s.last = st.terminated /\ s.terminated = NoObject
      /\ s.restarts = st.restarts /\ s.ready = st.ready
      /\ s \in Status
  BY <1>2 DEF Status
<1>4. ~st.ready
  BY <1>1, <1>2 DEF WellFormed, Running
<1> HIDE DEF s
<1>5. WellFormed(s) /\ Down(s) /\ Down(st)
  BY <1>1, <1>3, <1>4 DEF WellFormed, Down
<1>6. s.restarts + (IF Down(s) THEN 1 ELSE 0) <= stopped
  BY <1>1, <1>2, <1>3, <1>5
<1>7. \A termination \in {s.terminated, s.last} :
        termination \in {pod.statuses[c].terminated, pod.statuses[c].last, NoObject}
  BY <1>3 DEF st
<1>8. QED BY <1>1, <1>3, <1>5, <1>6, <1>7, QuietStatusStep DEF s, st

LEMMA ProbeSucceedsKeeps ==
    ASSUME WorldInv, Meanwhile, NEW c \in Containers, ProbeSucceeds(c)
    PROVE  WorldInv'
<1> DEFINE st == pod.statuses[c]
           s == [st EXCEPT !.ready = TRUE]
<1>1. /\ Alive /\ Running(st)
      /\ pod' = WithStatus(c, s)
      /\ UNCHANGED <<pressure, recorded, missed, stopped, oomed>>
  BY DEF ProbeSucceeds
<1>2. /\ st \in Status /\ WellFormed(st)
      /\ Alive => st.restarts + (IF Down(st) THEN 1 ELSE 0) <= stopped
  BY StatusBefore
<1> HIDE DEF st
<1>3. /\ s.waiting = st.waiting /\ s.last = st.last /\ s.terminated = st.terminated
      /\ s.restarts = st.restarts /\ s \in Status
  BY <1>2 DEF Status
<1> HIDE DEF s
<1>4. WellFormed(s) /\ Down(s) = Down(st)
  BY <1>1, <1>2, <1>3 DEF WellFormed, Running, Down
<1>5. s.restarts + (IF Down(s) THEN 1 ELSE 0) <= stopped
  BY <1>1, <1>2, <1>3, <1>4
<1>6. \A termination \in {s.terminated, s.last} :
        termination \in {pod.statuses[c].terminated, pod.statuses[c].last, NoObject}
  BY <1>3 DEF st
<1>7. QED BY <1>1, <1>3, <1>4, <1>5, <1>6, QuietStatusStep DEF s, st

LEMMA ProbeFailsKeeps ==
    ASSUME WorldInv, Meanwhile, NEW c \in Containers, ProbeFails(c)
    PROVE  WorldInv'
<1> DEFINE st == pod.statuses[c]
           s == [st EXCEPT !.ready = FALSE]
<1>1. /\ Alive /\ Running(st)
      /\ pod' = WithStatus(c, s)
      /\ Record(EventAbout("Unhealthy", c))
      /\ UNCHANGED <<pressure, stopped, oomed>>
  BY DEF ProbeFails
<1>2. /\ st \in Status /\ WellFormed(st)
      /\ Alive => st.restarts + (IF Down(st) THEN 1 ELSE 0) <= stopped
      /\ OomKill \in {st.terminated, st.last} => c \in oomed
      /\ KubeletKill \in {st.terminated, st.last} => missed \/ \E e \in recorded : TellsOfKill(e)
  BY StatusBefore
<1> HIDE DEF st
<1>3. /\ s.waiting = st.waiting /\ s.last = st.last /\ s.terminated = st.terminated
      /\ s.restarts = st.restarts /\ s \in Status /\ ~s.ready
  BY <1>2 DEF Status
<1> HIDE DEF s
<1>4. WellFormed(s) /\ Down(s) = Down(st)
  BY <1>1, <1>2, <1>3 DEF WellFormed, Running, Down
<1>5. s.restarts + (IF Down(s) THEN 1 ELSE 0) <= stopped
  BY <1>1, <1>2, <1>3, <1>4
<1>6. pod \in PodState /\ pod' \in PodState
  BY <1>1, <1>3, Types, WithStatusFields
<1>7. "Unhealthy" \in EventTypes /\ "Unhealthy" # "OOMKilling"
  BY DEF EventTypes
<1>8. /\ Remembered
      /\ recorded' \subseteq {EventAbout(r, a)' : r \in EventTypes, a \in Containers \cup {NoSubject}}
      /\ Genuine(recorded)'
  BY <1>1, <1>6, <1>7, RecordRemembers
<1>9. KubeletKill \in {s.terminated, s.last} => missed' \/ \E e \in recorded' : TellsOfKill(e)
  BY <1>2, <1>3, <1>8 DEF Remembered
<1>10. /\ pressure' \in BOOLEAN /\ oomed' \subseteq Containers /\ stopped' \in 0..MaxTerminations
       /\ stopped <= stopped' /\ stopped' = stopped /\ oomed' = oomed
  BY <1>1, Types
<1>11. step' = step /\ ~Done /\ lag' \in 0..MaxLag
  BY DEF Meanwhile
<1>12. OomKill \in {s.terminated, s.last} => c \in oomed'
  BY <1>2, <1>3, <1>10
<1>13. s.restarts + (IF Down(s) THEN 1 ELSE 0) <= stopped'
  BY <1>5, <1>10
<1>14. QED BY <1>1, <1>3, <1>4, <1>8, <1>9, <1>10, <1>11, <1>12, <1>13, StatusStep

\* A container that ran stops, and the Events tell what they must.
LEMMA StopKeeps ==
    ASSUME WorldInv, Meanwhile, NEW c \in Containers, NEW termination \in Terminations,
           Stop(c, termination), Remembered,
           recorded' \subseteq {EventAbout(r, a)' : r \in EventTypes, a \in Containers \cup {NoSubject}},
           Genuine(recorded)', oomed' \subseteq Containers,
           termination = OomKill => c \in oomed',
           termination = KubeletKill => missed' \/ \E e \in recorded' : TellsOfKill(e)
    PROVE  WorldInv'
<1> DEFINE st == pod.statuses[c]
           s == [st EXCEPT !.terminated = termination, !.ready = FALSE]
<1>1. /\ Alive /\ Running(st) /\ stopped < MaxTerminations /\ stopped' = stopped + 1
      /\ pod' = WithStatus(c, s) /\ pressure' = pressure
  BY DEF Stop
<1>2. /\ st \in Status /\ WellFormed(st)
      /\ Alive => st.restarts + (IF Down(st) THEN 1 ELSE 0) <= stopped
      /\ st.restarts \in 0..MaxTerminations
      /\ OomKill \in {st.terminated, st.last} => c \in oomed
      /\ KubeletKill \in {st.terminated, st.last} => missed \/ \E e \in recorded : TellsOfKill(e)
  BY StatusBefore
<1>3. stopped \in 0..MaxTerminations /\ MaxTerminations \in Nat /\ pressure \in BOOLEAN
  BY Types, KubeletAssumption
<1> HIDE DEF st
<1>4. /\ s.waiting = st.waiting /\ s.last = st.last /\ s.terminated = termination
      /\ s.restarts = st.restarts /\ s \in Status /\ ~s.ready
  BY <1>2 DEF Status
<1> HIDE DEF s
<1>5. WellFormed(s)
  BY <1>1, <1>2, <1>4 DEF WellFormed, Running
<1>6. ~Down(st)
  BY <1>1 DEF Running, Down
<1>7. st.restarts \in Int /\ st.restarts <= stopped /\ stopped \in Int
  BY <1>1, <1>2, <1>3, <1>6
<1>8. s.restarts + (IF Down(s) THEN 1 ELSE 0) <= stopped'
  BY <1>1, <1>4, <1>7
<1>9. stopped' \in 0..MaxTerminations /\ stopped <= stopped'
  BY <1>1, <1>3
<1>10. OomKill \in {s.terminated, s.last} => c \in oomed'
  BY <1>2, <1>4 DEF Remembered
<1>11. KubeletKill \in {s.terminated, s.last} => missed' \/ \E e \in recorded' : TellsOfKill(e)
  BY <1>2, <1>4 DEF Remembered
<1>12. step' = step /\ ~Done /\ lag' \in 0..MaxLag /\ pressure' \in BOOLEAN
  BY <1>1, <1>3 DEF Meanwhile
<1>13. QED BY <1>1, <1>4, <1>5, <1>8, <1>9, <1>10, <1>11, <1>12, StatusStep

\* The Pod of a container that stopped has its type.
LEMMA StopTyped ==
    ASSUME WorldInv, NEW c \in Containers, NEW termination \in Terminations, Stop(c, termination)
    PROVE  pod' \in PodState
<1> DEFINE st == pod.statuses[c]
           s == [st EXCEPT !.terminated = termination, !.ready = FALSE]
<1>1. pod' = WithStatus(c, s)
  BY DEF Stop
<1>2. st \in Status
  BY StatusBefore
<1> HIDE DEF st
<1>3. s \in Status
  BY <1>2 DEF Status
<1> HIDE DEF s
<1>4. QED BY <1>1, <1>3, Types, WithStatusFields

LEMMA FailKeeps ==
    ASSUME WorldInv, Meanwhile, NEW c \in Containers, Fail(c)
    PROVE  WorldInv'
<1>1. PICK termination \in {Crash, OtherKill} : Stop(c, termination)
  BY DEF Fail
<1>2. UNCHANGED <<recorded, missed, oomed>>
  BY DEF Fail
<1>3. /\ termination \in Terminations /\ termination # OomKill /\ termination # KubeletKill
  BY Endings DEF Terminations
<1>4. pod' \in PodState
  BY <1>1, <1>3, StopTyped
<1>5. /\ Remembered
      /\ recorded' \subseteq {EventAbout(r, a)' : r \in EventTypes, a \in Containers \cup {NoSubject}}
      /\ Genuine(recorded)'
  BY <1>2, <1>4, NothingRecorded
<1>6. oomed' \subseteq Containers
  BY <1>2, Types
<1>7. QED BY <1>1, <1>3, <1>5, <1>6, StopKeeps

LEMMA OomKillsKeeps ==
    ASSUME WorldInv, Meanwhile, NEW c \in Containers, OomKills(c)
    PROVE  WorldInv'
<1>1. /\ Stop(c, OomKill) /\ Record(EventAbout("OOMKilling", NoSubject)) /\ oomed' = oomed \cup {c}
  BY DEF OomKills
<1>2. OomKill \in Terminations /\ OomKill # KubeletKill
  BY Endings DEF Terminations
<1>3. pod' \in PodState
  BY <1>1, <1>2, StopTyped
<1>4. "OOMKilling" \in EventTypes
  BY DEF EventTypes
<1>5. /\ Remembered
      /\ recorded' \subseteq {EventAbout(r, a)' : r \in EventTypes, a \in Containers \cup {NoSubject}}
      /\ Genuine(recorded)'
  BY <1>1, <1>3, <1>4, RecordRemembers
<1>6. oomed' \subseteq Containers /\ c \in oomed'
  BY <1>1, Types
<1>7. QED BY <1>1, <1>2, <1>5, <1>6, StopKeeps

LEMMA KubeletKillsKeeps ==
    ASSUME WorldInv, Meanwhile, NEW c \in Containers, KubeletKills(c)
    PROVE  WorldInv'
<1>1. /\ Stop(c, KubeletKill) /\ Record(EventAbout("Killing", NoSubject)) /\ oomed' = oomed
  BY DEF KubeletKills
<1>2. KubeletKill \in Terminations /\ OomKill # KubeletKill
  BY Endings DEF Terminations
<1>3. pod' \in PodState
  BY <1>1, <1>2, StopTyped
<1>4. "Killing" \in EventTypes /\ "Killing" # "OOMKilling"
  BY DEF EventTypes
<1>5. /\ Remembered
      /\ recorded' \subseteq {EventAbout(r, a)' : r \in EventTypes, a \in Containers \cup {NoSubject}}
      /\ Genuine(recorded)'
      /\ missed' \/ \E e \in recorded' : TellsOfKill(e)
  BY <1>1, <1>3, <1>4, RecordRemembers
<1>6. oomed' \subseteq Containers
  BY <1>1, Types
<1>7. QED BY <1>1, <1>2, <1>5, <1>6, StopKeeps

LEMMA PressureChangesKeeps ==
    ASSUME WorldInv, Meanwhile, PressureChanges
    PROVE  WorldInv'
<1>1. pressure' = ~pressure /\ UNCHANGED <<pod, recorded, missed, stopped, oomed>>
  BY DEF PressureChanges
<1>2. pod' \in PodState
  BY <1>1, Types
<1>3. recorded' \subseteq {EventAbout(r, a)' : r \in EventTypes, a \in Containers \cup {NoSubject}}
  BY <1>1, <1>2, NothingRecorded
<1>4. /\ stopped' \in 0..MaxTerminations /\ missed' \in BOOLEAN /\ oomed' \subseteq Containers
      /\ step' \in {"pod", "node", "events", "done"} /\ pressure' \in BOOLEAN
  BY <1>1, Types DEF Meanwhile
<1>5. TypeOK'
  BY <1>2, <1>3, <1>4 DEF TypeOK, Meanwhile, EventTypes, Done
<1>6. /\ Lawful(pod)' /\ Told(pod, recorded)' /\ Genuine(recorded)'
  BY <1>1 DEF WorldInv, Lawful, Told, Genuine, Ended
<1>7. RestartsCounted'
  BY <1>1 DEF WorldInv, RestartsCounted, Alive
<1>8. QED BY <1>5, <1>6, <1>7 DEF WorldInv

\* The containers of an evicted Pod: those that ran were killed.
LEMMA EvictKeeps ==
    ASSUME WorldInv, Meanwhile, Evict
    PROVE  WorldInv'
<1> DEFINE t == [c \in Containers |->
                    IF Running(pod.statuses[c])
                    THEN [pod.statuses[c] EXCEPT !.terminated = KubeletKill, !.ready = FALSE]
                    ELSE pod.statuses[c]]
<1>1. /\ pod' = [pod EXCEPT !.phase = "Failed", !.reason = "Evicted", !.ready = FALSE,
                            !.statuses = t]
      /\ Record(EventAbout("Evicted", NoSubject))
      /\ UNCHANGED <<pressure, stopped, oomed>>
  BY DEF Evict
<1>2. \A c \in Containers :
        /\ t[c] \in Status
        /\ WellFormed(t[c])
        /\ t[c].last = pod.statuses[c].last
        /\ t[c].terminated \in {pod.statuses[c].terminated, KubeletKill}
  <2> SUFFICES ASSUME NEW c \in Containers
               PROVE  /\ t[c] \in Status
                      /\ WellFormed(t[c])
                      /\ t[c].last = pod.statuses[c].last
                      /\ t[c].terminated \in {pod.statuses[c].terminated, KubeletKill}
    OBVIOUS
  <2> DEFINE st == pod.statuses[c]
             s == [st EXCEPT !.terminated = KubeletKill, !.ready = FALSE]
  <2>1. t[c] = IF Running(st) THEN s ELSE st
    OBVIOUS
  <2>2. st \in Status /\ WellFormed(st)
    BY StatusBefore
  <2> HIDE DEF t, st
  <2>3. KubeletKill \in Terminations
    BY DEF Terminations
  <2>4. /\ s.waiting = st.waiting /\ s.last = st.last /\ s.terminated = KubeletKill
        /\ s \in Status /\ ~s.ready
    BY <2>2, <2>3 DEF Status
  <2> HIDE DEF s
  <2>5. Running(st) => WellFormed(s)
    BY <2>2, <2>4 DEF WellFormed, Running
  <2>6. QED BY <2>1, <2>2, <2>4, <2>5 DEF st
<1> HIDE DEF t
<1>3. t \in [Containers -> Status]
  BY <1>2 DEF t
<1>4. /\ pod' \in PodState /\ pod'.statuses = t /\ pod'.ready = FALSE /\ pod'.phase = "Failed"
  BY <1>1, <1>3, Types DEF PodState
<1>5. "Evicted" \in EventTypes /\ "Evicted" # "OOMKilling"
  BY DEF EventTypes
<1>6. /\ Remembered
      /\ recorded' \subseteq {EventAbout(r, a)' : r \in EventTypes, a \in Containers \cup {NoSubject}}
      /\ Genuine(recorded)'
      /\ missed' \/ \E e \in recorded' : TellsOfKill(e)
  BY <1>1, <1>4, <1>5, RecordRemembers
<1>7. /\ stopped' \in 0..MaxTerminations /\ oomed' \subseteq Containers
      /\ step' \in {"pod", "node", "events", "done"} /\ pressure' \in BOOLEAN
  BY <1>1, Types DEF Meanwhile
<1>8. TypeOK'
  BY <1>4, <1>6, <1>7 DEF TypeOK, Meanwhile, EventTypes, Done, Remembered
<1>9. Lawful(pod)'
  <2> SUFFICES ASSUME NEW c \in Containers
               PROVE  OomKill \in {t[c].terminated, t[c].last} => c \in oomed'
    BY <1>2, <1>4 DEF Lawful, Ended, WellFormed, Running
  <2>1. QED BY <1>1, <1>2, Endings, StatusBefore
<1>10. Told(pod, recorded)'
  BY <1>6 DEF Told, TellsOfKill
<1>11. RestartsCounted'
  BY <1>4 DEF RestartsCounted, Alive
<1>12. QED BY <1>6, <1>8, <1>9, <1>10, <1>11 DEF WorldInv

LEMMA ForgetKeeps ==
    ASSUME WorldInv, Meanwhile, Forget
    PROVE  WorldInv' /\ Remembered
<1>1. PICK event \in recorded :
        recorded' = recorded \ {event} /\ missed' = (missed \/ TellsOfKill(event))
  BY DEF Forget
<1>2. UNCHANGED <<pod, pressure, stopped, oomed>>
  BY DEF Forget
<1>3. missed \in BOOLEAN
  BY Types
<1>4. Remembered
  BY <1>1, <1>2, <1>3 DEF Remembered, TellsOfKill
<1>5. /\ pod' \in PodState /\ pod.uid = pod'.uid
  BY <1>2, Types
<1>6. recorded' \subseteq {EventAbout(r, a)' : r \in EventTypes, a \in Containers \cup {NoSubject}}
  <2>1. \A r, a : EventAbout(r, a)' = EventAbout(r, a)
    BY <1>5 DEF EventAbout
  <2>2. QED BY <1>1, <2>1 DEF WorldInv, TypeOK, EventTypes
<1>7. /\ stopped' \in 0..MaxTerminations /\ oomed' \subseteq Containers
      /\ step' \in {"pod", "node", "events", "done"} /\ pressure' \in BOOLEAN
  BY <1>2, Types DEF Meanwhile
<1>8. TypeOK'
  BY <1>4, <1>5, <1>6, <1>7 DEF TypeOK, Meanwhile, EventTypes, Done, Remembered
<1>9. Lawful(pod)' /\ Genuine(recorded)'
  BY <1>1, <1>2 DEF WorldInv, Lawful, Genuine, Ended
<1>10. Told(pod, recorded)'
  <2> SUFFICES ASSUME NEW c \in Containers, Ended(pod, c, KubeletKill)
               PROVE  missed' \/ \E e \in recorded' : TellsOfKill(e)
    BY <1>2 DEF Told, TellsOfKill, Ended
  <2>1. missed \/ \E e \in recorded : TellsOfKill(e)
    BY DEF WorldInv, Told
  <2>2. QED BY <1>4, <2>1 DEF Remembered
<1>11. RestartsCounted'
  BY <1>2 DEF WorldInv, RestartsCounted, Alive
<1>12. QED BY <1>4, <1>8, <1>9, <1>10, <1>11 DEF WorldInv

LEMMA RecordOnlyAdds ==
    ASSUME WorldInv, NEW event, Record(event), oomed \subseteq oomed'
    PROVE  Remembered
<1>1. missed \in BOOLEAN /\ TellsOfKill(event) \in BOOLEAN
  BY Types DEF TellsOfKill
<1>2. QED BY <1>1 DEF Record, Remembered

\* Whatever the kubelet does, nothing told is taken back but by an Event lost.
LEMMA WorldRemembers ==
    ASSUME WorldInv, World, Meanwhile
    PROVE  Remembered
<1>1. UNCHANGED <<recorded, missed, oomed>> => Remembered
  BY Types DEF Remembered
<1>2. ASSUME NEW c \in Containers,
             Start(c) \/ BackOff(c) \/ Fail(c) \/ ProbeSucceeds(c)
      PROVE  Remembered
  BY <1>1, <1>2 DEF Start, BackOff, Fail, ProbeSucceeds
<1>3. ASSUME NEW c \in Containers, OomKills(c) PROVE Remembered
  BY <1>3, RecordOnlyAdds DEF OomKills
<1>4. ASSUME NEW c \in Containers, KubeletKills(c) PROVE Remembered
  BY <1>4, RecordOnlyAdds DEF KubeletKills
<1>5. ASSUME NEW c \in Containers, ProbeFails(c) PROVE Remembered
  BY <1>5, RecordOnlyAdds DEF ProbeFails
<1>6. CASE PressureChanges
  BY <1>1, <1>6 DEF PressureChanges
<1>7. CASE Evict
  BY <1>7, RecordOnlyAdds DEF Evict
<1>8. CASE Forget
  BY <1>8, ForgetKeeps
<1>9. QED BY <1>2, <1>3, <1>4, <1>5, <1>6, <1>7, <1>8 DEF World

LEMMA WorldKeeps ==
    ASSUME WorldInv, Meanwhile, World
    PROVE  WorldInv'
<1>1. ASSUME NEW c \in Containers,
             \/ Start(c) \/ BackOff(c) \/ Fail(c) \/ OomKills(c) \/ KubeletKills(c)
             \/ ProbeSucceeds(c) \/ ProbeFails(c)
      PROVE  WorldInv'
  BY <1>1, StartKeeps, BackOffKeeps, FailKeeps, OomKillsKeeps, KubeletKillsKeeps,
     ProbeSucceedsKeeps, ProbeFailsKeeps
<1>2. CASE PressureChanges
  BY <1>2, PressureChangesKeeps
<1>3. CASE Evict
  BY <1>3, EvictKeeps
<1>4. CASE Forget
  BY <1>4, ForgetKeeps
<1>5. QED BY <1>1, <1>2, <1>3, <1>4 DEF World

-----------------------------------------------------------------------------
(* The inspection keeps them. *)

LEMMA InitKInv == Init => KInv
<1> SUFFICES ASSUME Init PROVE KInv
  OBVIOUS
<1> DEFINE new == [waiting |-> "ContainerCreating", terminated |-> NoObject,
                   last |-> NoObject, restarts |-> 0, ready |-> FALSE]
<1>1. PICK spec \in Specs :
        pod = [ref |-> PodRef, uid |-> PodUID, phase |-> "Running", reason |-> "",
               ready |-> FALSE, limited |-> spec.limited, probe |-> spec.probe,
               statuses |-> [c \in Containers |-> new]]
  BY DEF Init
<1>2. /\ pressure = FALSE /\ recorded = {} /\ missed = FALSE /\ stopped = 0 /\ oomed = {}
      /\ lag = 0 /\ step = "pod" /\ graph = NewGraph(Focus)
  BY DEF Init
<1>3. spec.limited \subseteq Containers /\ spec.probe \in [Containers -> ProbePorts]
      /\ MaxTerminations \in Nat /\ MaxLag \in Nat
  BY KubeletAssumption
<1>4. new \in Status
  BY <1>3 DEF Status
<1>5. pod \in PodState
  BY <1>1, <1>3, <1>4 DEF PodState
<1>6. TypeOK
  <2>0. missed \in BOOLEAN /\ pressure \in BOOLEAN
    BY <1>2
  <2>1. /\ stopped \in 0..MaxTerminations /\ lag \in 0..MaxLag
        /\ step \in {"pod", "node", "events", "done"} /\ ~Done
    <3>1. stopped = 0 /\ lag = 0 /\ step = "pod"
      BY <1>2
    <3>2. QED BY <3>1, <1>3 DEF Done
  <2>2. recorded = {} /\ oomed = {}
    BY <1>2
  <2>3. QED BY <1>5, <2>0, <2>1, <2>2 DEF TypeOK
<1>7. /\ \A c \in Containers : pod.statuses[c] = new
      /\ pod.ready = FALSE
  BY <1>1
<1>8. /\ new.waiting = "ContainerCreating" /\ new.terminated = NoObject /\ new.last = NoObject
      /\ new.restarts = 0 /\ ~new.ready
  OBVIOUS
<1> HIDE DEF new
<1>9. OomKill # NoObject /\ KubeletKill # NoObject
  BY Endings DEF Terminations
<1>10. Lawful(pod)
  BY <1>7, <1>8, <1>9 DEF Lawful, WellFormed, Ended
<1>11. Told(pod, recorded)
  BY <1>7, <1>8, <1>9 DEF Told, Ended
<1>12. RestartsCounted
  BY <1>2, <1>7, <1>8 DEF RestartsCounted, Down
<1>13. Genuine(recorded)
  BY <1>2 DEF Genuine
<1>14. GraphInv
  BY <1>2 DEF GraphInv, NewGraph, IsGraph, GraphFields, Genuine, Done
<1>15. QED BY <1>6, <1>10, <1>11, <1>12, <1>13, <1>14 DEF KInv, WorldInv

\* The Pod in the graph stays as lawful, and as told of, as it was when it was read.
LEMMA WorldStepKeeps ==
    ASSUME KInv, WorldStep
    PROVE  KInv'
<1>1. World /\ UNCHANGED <<step, graph>> /\ ~Done
  BY DEF WorldStep, Done
<1>2. lag' \in 0..MaxLag
  <2>1. lag \in 0..MaxLag /\ MaxLag \in Nat
    BY Types, KubeletAssumption DEF KInv
  <2>2. QED BY <2>1 DEF WorldStep
<1>3. Meanwhile
  BY <1>1, <1>2 DEF Meanwhile
<1>4. WorldInv' /\ Remembered
  BY <1>1, <1>3, WorldKeeps, WorldRemembers DEF KInv
<1>5. Seen' = Seen /\ Done' = Done
  BY <1>1 DEF Seen, Done
<1>6. Lawful(Seen) => Lawful(Seen)'
  BY <1>4, <1>5 DEF Lawful, Remembered, Ended
<1>7. Told(Seen, recorded) => Told(Seen, recorded)'
  BY <1>4, <1>5 DEF Told, Remembered, Ended, TellsOfKill
<1>8. Genuine(graph.events) => Genuine(graph.events)'
  BY <1>1, <1>4 DEF Genuine, Remembered
<1>9. GraphInv'
  BY <1>1, <1>5, <1>6, <1>7, <1>8 DEF KInv, GraphInv
<1>10. QED BY <1>4, <1>9 DEF KInv

\* An inspection changes nothing in the world.
LEMMA ReadingKeepsWorld ==
    ASSUME KInv, UNCHANGED podVars, UNCHANGED lag,
           step' \in {"node", "events", "done"},
           step' = "done" => \A e \in graph'.edges : {e.from, e.to} \subseteq DOMAIN graph'.nodes
    PROVE  WorldInv'
<1>1. UNCHANGED <<pod, pressure, recorded, missed, stopped, oomed, lag>>
  BY DEF podVars
<1>2. \A r, a : EventAbout(r, a)' = EventAbout(r, a)
  BY <1>1 DEF EventAbout
<1>3. TypeOK'
  BY <1>1, <1>2 DEF KInv, WorldInv, TypeOK, Done
<1>4. /\ Lawful(pod)' /\ Told(pod, recorded)' /\ Genuine(recorded)'
  BY <1>1 DEF KInv, WorldInv, Lawful, Told, Genuine, Ended
<1>5. RestartsCounted'
  BY <1>1 DEF KInv, WorldInv, RestartsCounted, Alive
<1>6. QED BY <1>3, <1>4, <1>5 DEF WorldInv

LEMMA ReadPodKeeps ==
    ASSUME KInv, ReadPod
    PROVE  KInv'
<1>1. /\ step = "pod" /\ UNCHANGED podVars /\ UNCHANGED lag /\ step' = "node"
      /\ graph' = AddNode(graph, PodRef, pod)
  BY DEF ReadPod, Inspecting
<1>2. WorldInv'
  <2>1. step' \in {"node", "events", "done"} /\ step' # "done"
    BY <1>1
  <2>2. QED BY <1>1, <2>1, ReadingKeepsWorld
<1>3. UNCHANGED <<pod, recorded, missed, oomed>>
  BY <1>1 DEF podVars
<1>4. pod \in PodState /\ pod # NoObject
  BY Types, KubeletAssumption DEF KInv
<1>5. IsGraph(graph) /\ DOMAIN graph.nodes \subseteq {PodRef, NodeRef}
      /\ graph.edges \subseteq {Edge(PodRef, NodeRef, "scheduled-on")} /\ Genuine(graph.events)
  BY DEF KInv, GraphInv
<1>6. DOMAIN graph.nodes = {} /\ ObjectOf(graph, PodRef) = NoObject
  BY <1>1 DEF KInv, GraphInv, ObjectOf, InGraph
<1> DEFINE node == [object |-> pod, unknown |-> FALSE]
<1>7. graph' = PutNode(graph, PodRef, node)
  BY <1>1, <1>6 DEF AddNode
<1>8. /\ IsGraph(graph') /\ DOMAIN graph'.nodes = {PodRef}
      /\ graph'.edges = graph.edges /\ graph'.events = graph.events
      /\ graph'.nodes[PodRef] = node
  BY <1>5, <1>6, <1>7 DEF PutNode, IsGraph, GraphFields
<1>9. Seen' = pod
  BY <1>8 DEF Seen, ObjectOf, InGraph
<1>10. Lawful(Seen)' /\ Told(Seen, recorded)' /\ Genuine(graph.events)'
  BY <1>3, <1>5, <1>8, <1>9 DEF KInv, WorldInv, Lawful, Told, Genuine, Ended
<1>11. GraphInv'
  BY <1>1, <1>4, <1>5, <1>8, <1>9, <1>10 DEF GraphInv, Done
<1>12. QED BY <1>2, <1>11 DEF KInv

\* What is read after the Pod leaves the Pod in the graph.
LEMMA SeenStays ==
    ASSUME KInv, UNCHANGED podVars, Seen' = Seen, step # "pod"
    PROVE  /\ Seen' \in PodState /\ Lawful(Seen)'
           /\ Told(Seen, recorded) => Told(Seen, recorded)'
<1>1. UNCHANGED <<recorded, missed, oomed>>
  BY DEF podVars
<1>2. QED BY <1>1 DEF KInv, GraphInv, Lawful, Told, Ended

LEMMA ReadNodeKeeps ==
    ASSUME KInv, ReadNode
    PROVE  KInv'
<1> DEFINE object == [ref |-> NodeRef, pressure |-> pressure]
           node == [object |-> object, unknown |-> FALSE]
           edge == Edge(PodRef, NodeRef, "scheduled-on")
           g == AddNode(graph, NodeRef, object)
<1>1. /\ step = "node" /\ UNCHANGED podVars /\ UNCHANGED lag /\ step' = "events"
      /\ graph' = AddEdges(g, {edge})
  BY DEF ReadNode, Inspecting
<1>2. WorldInv'
  <2>1. step' \in {"node", "events", "done"} /\ step' # "done"
    BY <1>1
  <2>2. QED BY <1>1, <2>1, ReadingKeepsWorld
<1>3. UNCHANGED <<pod, recorded, missed, oomed>>
  BY <1>1 DEF podVars
<1>4. IsGraph(graph) /\ DOMAIN graph.nodes \subseteq {PodRef, NodeRef}
      /\ graph.edges \subseteq {edge} /\ Genuine(graph.events)
  BY DEF KInv, GraphInv
<1> HIDE DEF object, edge
<1>5. /\ IsGraph(g) /\ DOMAIN g.nodes = DOMAIN graph.nodes \cup {NodeRef}
      /\ g.edges = graph.edges /\ g.events = graph.events
      /\ \A r \in DOMAIN graph.nodes : r # NodeRef => g.nodes[r] = graph.nodes[r]
  <2>1. CASE ObjectOf(graph, NodeRef) # NoObject
    <3>1. NodeRef \in DOMAIN graph.nodes
      BY <2>1 DEF ObjectOf, InGraph
    <3>2. QED BY <1>4, <2>1, <3>1 DEF AddNode
  <2>2. CASE ObjectOf(graph, NodeRef) = NoObject
    <3>1. g = PutNode(graph, NodeRef, node)
      BY <2>2 DEF AddNode
    <3>2. QED BY <1>4, <3>1 DEF PutNode, IsGraph, GraphFields
  <2>3. QED BY <2>1, <2>2
<1> HIDE DEF g
<1>6. /\ IsGraph(graph') /\ graph'.nodes = g.nodes
      /\ graph'.edges = g.edges \cup {edge} /\ graph'.events = g.events
  BY <1>1, <1>5 DEF AddEdges, IsGraph, GraphFields
<1>7. PodRef # NodeRef
  BY DEF PodRef, NodeRef
<1>8. Seen' = Seen
  BY <1>5, <1>6, <1>7 DEF Seen, ObjectOf, InGraph
<1>9. Seen' \in PodState /\ Lawful(Seen)' /\ Told(Seen, recorded)'
  <2>1. step # "pod" /\ Told(Seen, recorded)
    BY <1>1 DEF KInv, GraphInv
  <2>2. QED BY <1>1, <1>8, <2>1, SeenStays
<1>10. Genuine(graph.events)'
  BY <1>3, <1>4, <1>5, <1>6 DEF Genuine
<1>11. GraphInv'
  BY <1>1, <1>4, <1>5, <1>6, <1>9, <1>10 DEF GraphInv, Done, edge
<1>12. QED BY <1>2, <1>11 DEF KInv

LEMMA ReadEventsKeeps ==
    ASSUME KInv, ReadEvents
    PROVE  KInv'
<1> DEFINE issue == Issue("events", PodRef, FALSE)
<1>1. /\ step = "events" /\ UNCHANGED podVars /\ UNCHANGED lag /\ step' = "done"
      /\ \/ ~NeedsEvents /\ graph' = graph
         \/ graph' = AddEvents(graph, recorded)
         \/ graph' = AddCollectionIssue(graph, issue)
  BY DEF ReadEvents, Inspecting
<1>2. /\ IsGraph(graph) /\ DOMAIN graph.nodes \subseteq {PodRef, NodeRef}
      /\ graph.edges \subseteq {Edge(PodRef, NodeRef, "scheduled-on")} /\ Genuine(graph.events)
      /\ NodeRef \in DOMAIN graph.nodes /\ Told(Seen, recorded)
      /\ Seen \in PodState
  BY <1>1 DEF KInv, GraphInv
<1>3. /\ IsGraph(graph') /\ graph'.nodes = graph.nodes /\ graph'.edges = graph.edges
      /\ \/ ~NeedsEvents /\ graph'.events = graph.events
         \/ graph'.events = graph.events \cup recorded
         \/ graph'.events = graph.events /\ graph'.issues = graph.issues \cup {issue}
  BY <1>1, <1>2 DEF AddEvents, AddCollectionIssue, IsGraph, GraphFields
<1>4. Seen' = Seen /\ NeedsEvents' = NeedsEvents
  BY <1>3 DEF Seen, NeedsEvents, ObjectOf, InGraph
<1>5. PodRef \in DOMAIN graph.nodes
  BY <1>2, KubeletAssumption DEF Seen, ObjectOf, InGraph
<1>6. WorldInv'
  <2>1. \A e \in graph'.edges : {e.from, e.to} \subseteq DOMAIN graph'.nodes
    BY <1>2, <1>3, <1>5 DEF Edge
  <2>2. QED BY <1>1, <2>1, ReadingKeepsWorld
<1>7. UNCHANGED <<pod, recorded, missed, oomed>>
  BY <1>1 DEF podVars
<1>8. Seen' \in PodState /\ Lawful(Seen)' /\ Told(Seen, recorded)'
  BY <1>1, <1>2, <1>4, SeenStays
<1>9. Genuine(graph.events)'
  <2>1. \A e \in graph'.events : e \in graph.events \cup recorded
    BY <1>3
  <2>2. Genuine(recorded)
    BY DEF KInv, WorldInv
  <2>3. QED BY <1>2, <1>7, <2>1, <2>2 DEF Genuine
<1>10. NeedsEvents => HasCollectionSourceIssue(graph', "events") \/ Told(Seen, graph.events)'
  <2>1. CASE graph'.events = graph.events \cup recorded
    BY <1>2, <1>4, <1>7, <2>1 DEF Told, Ended, TellsOfKill
  <2>2. CASE graph'.issues = graph.issues \cup {issue}
    <3>1. issue.source = "events"
      BY DEF Issue
    <3>2. QED BY <2>2, <3>1 DEF HasCollectionSourceIssue
  <2>3. QED BY <1>3, <2>1, <2>2
<1>11. GraphInv'
  BY <1>1, <1>2, <1>3, <1>4, <1>8, <1>9, <1>10 DEF GraphInv, Done, HasCollectionSourceIssue
<1>12. QED BY <1>6, <1>11 DEF KInv

LEMMA StutterKeeps ==
    ASSUME KInv, UNCHANGED vars
    PROVE  KInv'
<1>1. UNCHANGED <<pod, pressure, recorded, missed, stopped, oomed, lag, step, graph>>
  BY DEF vars, podVars
<1>2. \A r, a : EventAbout(r, a)' = EventAbout(r, a)
  BY <1>1 DEF EventAbout
<1>3. TypeOK'
  BY <1>1, <1>2 DEF KInv, WorldInv, TypeOK, Done
<1>4. /\ Lawful(pod)' /\ Told(pod, recorded)' /\ Genuine(recorded)'
  BY <1>1 DEF KInv, WorldInv, Lawful, Told, Genuine, Ended
<1>5. RestartsCounted'
  BY <1>1 DEF KInv, WorldInv, RestartsCounted, Alive
<1>6. GraphInv'
  BY <1>1 DEF KInv, GraphInv, Seen, NeedsEvents, Done, Lawful, Told, Genuine, Ended
<1>7. QED BY <1>3, <1>4, <1>5, <1>6 DEF KInv, WorldInv

\* Whatever happens in the cluster and whenever the inspection reads it, the Pod it holds
\* is one the kubelet reported, with the Events that were left.
THEOREM SeenIsAccountable == Spec => []KInv
<1>1. KInv /\ [Next]_vars => KInv'
  BY WorldStepKeeps, ReadPodKeeps, ReadNodeKeeps, ReadEventsKeeps, StutterKeeps DEF Next
<1>2. QED BY <1>1, InitKInv, PTL DEF Spec

\* Types, and with them the bound: no container is restarted more often than containers
\* may stop; and in a finished inspection both ends of every edge are in the graph.
THEOREM KubeletTypes == Spec => []TypeOK
<1>1. KInv => TypeOK
  BY DEF KInv, WorldInv
<1>2. QED BY <1>1, SeenIsAccountable, PTL

-----------------------------------------------------------------------------
(* What the rules make of a container that stopped. *)

\* In a finished inspection the Pod is the only one, and its containers' terminations are
\* the kernel's, the application's, the kubelet's or somebody else's.
LEMMA PodInGraph ==
    ASSUME KInv, Done
    PROVE  /\ PodRefs(graph) = {PodRef}
           /\ Seen \in PodState /\ Lawful(Seen)
           /\ \A c \in Containers : Seen.statuses[c] \in Status
<1>1. /\ DOMAIN graph.nodes \subseteq {PodRef, NodeRef}
      /\ Seen \in PodState /\ Lawful(Seen)
  BY DEF KInv, GraphInv, Done
<1>2. Seen # NoObject
  BY <1>1, KubeletAssumption
<1>3. PodRef \in DOMAIN graph.nodes
  BY <1>2 DEF Seen, ObjectOf, InGraph
<1>4. PodRef.kind = "Pod" /\ NodeRef.kind # "Pod"
  BY DEF PodRef, NodeRef
<1>5. PodRefs(graph) = {PodRef}
  BY <1>1, <1>2, <1>3, <1>4 DEF PodRefs, Seen
<1>6. \A c \in Containers : Seen.statuses[c] \in Status
  BY <1>1, PodFields
<1>7. QED BY <1>1, <1>5, <1>6

\* Where a finding about a termination comes from.
LEMMA TerminationFindingOrigin ==
    ASSUME KInv, Done, NEW f \in TerminationFindings
    PROVE  /\ f.container \in Containers
           /\ Termination(ReadStatus(f.container)) # NoObject
           /\ f = TerminationFinding(graph, PodRef, f.container, f.type)
           /\ \/ /\ f.type = "container-oomkilled"
                 /\ Explicit(graph, PodRef, Termination(ReadStatus(f.container)))
              \/ /\ f.type = "container-sigkill"
                 /\ AmbiguousSigkill(graph, PodRef, f.container)
<1>1. PodRefs(graph) = {PodRef} /\ DOMAIN Seen.statuses = Containers
  BY PodInGraph, PodFields
<1>2. PICK c \in Terminated(graph, PodRef),
             type \in {"container-oomkilled", "container-sigkill"} :
        /\ f = TerminationFinding(graph, PodRef, c, type)
        /\ \/ /\ type = "container-oomkilled"
              /\ Explicit(graph, PodRef, Termination(ObjectOf(graph, PodRef).statuses[c]))
           \/ type = "container-sigkill" /\ AmbiguousSigkill(graph, PodRef, c)
  BY <1>1 DEF TerminationFindings, OomKilledFindings
<1>3. f.container = c /\ f.type = type
  BY <1>2 DEF TerminationFinding, FindingOf, FindingAbout
<1>4. c \in Containers /\ Termination(ReadStatus(c)) # NoObject
  BY <1>1, <1>2 DEF Terminated, ContainersOf, ReadStatus, Seen
<1>5. QED BY <1>2, <1>3, <1>4 DEF ReadStatus

\* The termination the rule looks at is one of the container's.
LEMMA TerminationSeen ==
    ASSUME KInv, Done, NEW c \in Containers, Termination(ReadStatus(c)) # NoObject
    PROVE  /\ Termination(ReadStatus(c)) \in Terminations
           /\ Ended(Seen, c, Termination(ReadStatus(c)))
<1>1. ReadStatus(c) = Seen.statuses[c] /\ Seen.statuses[c] \in Status
  BY PodInGraph DEF ReadStatus, Seen
<1>2. Termination(ReadStatus(c)) \in {Seen.statuses[c].last, Seen.statuses[c].terminated}
  BY <1>1 DEF Termination
<1>3. QED BY <1>1, <1>2 DEF Status, Ended

\* A container is called OOM-killed only in a Pod in which the kernel killed one, for
\* every number of containers, every history and every moment of the reads.
THEOREM OomFollowsAKill == Spec => []OomWasAKill
<1>1. KInv => OomWasAKill
  <2> SUFFICES ASSUME KInv, Done, NEW f \in TerminationFindings, f.type = "container-oomkilled"
               PROVE  oomed # {}
    BY DEF OomWasAKill
  <2> DEFINE c == f.container
             term == Termination(ReadStatus(c))
  <2>1. c \in Containers /\ term # NoObject /\ Explicit(graph, PodRef, term)
    BY TerminationFindingOrigin
  <2>2. term \in Terminations /\ Ended(Seen, c, term)
    BY <2>1, TerminationSeen
  <2> HIDE DEF c, term
  <2>3. CASE OomTermination(term)
    <3>1. term = OomKill
      BY <2>2, <2>3 DEF Terminations, OomTermination, OomKill, Crash, OtherKill, KubeletKill,
                        TerminationBy
    <3>2. c \in oomed
      BY <2>1, <2>2, <3>1, PodInGraph DEF Lawful
    <3>3. QED BY <3>2
  <2>4. CASE EventsMatching(graph, PodRef, "OOMKilling") # {}
    <3>1. \E e \in graph.events : e.reason = "OOMKilling"
      BY <2>4 DEF EventsMatching, EventsFor
    <3>2. QED BY <3>1 DEF KInv, GraphInv, Genuine
  <2>5. QED BY <2>1, <2>3, <2>4 DEF Explicit
<1>2. QED BY <1>1, SeenIsAccountable, PTL

\* A kill by the kubelet of a container of a Pod that is not Ready is never called one
\* nobody explains, unless the Event about it was lost.
THEOREM KubeletKillsAreExplained == Spec => []KubeletKillIsNoMystery
<1>1. KInv => KubeletKillIsNoMystery
  <2> SUFFICES ASSUME KInv, Done, NeedsEvents, NEW f \in TerminationFindings,
                      f.type = "container-sigkill",
                      Termination(ReadStatus(f.container)) = KubeletKill
               PROVE  missed
    BY DEF KubeletKillIsNoMystery
  <2>1. /\ f.container \in Containers /\ AmbiguousSigkill(graph, PodRef, f.container)
        /\ Termination(ReadStatus(f.container)) # NoObject
    BY TerminationFindingOrigin
  <2>2. Ended(Seen, f.container, KubeletKill)
    BY <2>1, TerminationSeen
  <2>3. Told(Seen, graph.events)
    BY <2>1 DEF KInv, GraphInv, AmbiguousSigkill
  <2>4. \A e \in graph.events : ~TellsOfKill(e)
    <3> SUFFICES ASSUME NEW e \in graph.events, TellsOfKill(e)
                 PROVE  FALSE
      OBVIOUS
    <3>1. e \in EventsFor(graph, PodRef)
      <4>1. e.involved = PodRef /\ e.uid = PodUID
        BY DEF KInv, GraphInv, Genuine
      <4>2. ObjectOf(graph, PodRef).uid = PodUID
        BY PodInGraph, PodFields DEF Seen
      <4>3. QED BY <4>1, <4>2 DEF EventsFor
    <3>2. e \in EventsMatching(graph, PodRef, "Killing") \cup EventsMatching(graph, PodRef, "Evicted")
      BY <3>1 DEF EventsMatching, TellsOfKill
    <3>3. QED BY <2>1, <3>2 DEF AmbiguousSigkill
  <2>5. QED BY <2>1, <2>2, <2>3, <2>4 DEF Told
<1>2. QED BY <1>1, SeenIsAccountable, PTL

\* What is called a current termination is of a container that did not run when the Pod
\* was read.
THEOREM CurrentTerminationsAreDown == Spec => []CurrentTerminationIsDown
<1>1. KInv => CurrentTerminationIsDown
  <2> SUFFICES ASSUME KInv, Done, NEW f \in TerminationFindings, f.impact = "current"
               PROVE  ~Running(ReadStatus(f.container))
    BY DEF CurrentTerminationIsDown
  <2>1. f = TerminationFinding(graph, PodRef, f.container, f.type)
    BY TerminationFindingOrigin
  <2>2. TerminationStillDisrupting(ReadStatus(f.container), f.type)
    BY <2>1 DEF TerminationFinding, FindingOf, FindingAbout, ReadStatus
  <2>3. QED BY <2>2 DEF TerminationStillDisrupting, Running
<1>2. QED BY <1>1, SeenIsAccountable, PTL

\* A loop that an OOM kill began is explained by the kill, and explains that the Pod is
\* not Ready.
THEOREM OomLoopsAreExplained == Spec => []OomLoopIsExplained
<1>1. KInv => OomLoopIsExplained
  <2> SUFFICES ASSUME KInv, Done, NEW c \in Containers,
                      ReadStatus(c).waiting = "CrashLoopBackOff", OomTermination(ReadStatus(c).last)
               PROVE  /\ <<FindingOf("container-oomkilled", PodRef, c, "current"),
                           FindingOf("crashloop-backoff", PodRef, c, "current")>> \in Links
                      /\ <<FindingOf("crashloop-backoff", PodRef, c, "current"),
                           FindingOf("pod-not-ready", PodRef, NoSubject, "current")>> \in Links
    BY DEF OomLoopIsExplained
  <2> DEFINE kill == FindingOf("container-oomkilled", PodRef, c, "current")
             loop == FindingOf("crashloop-backoff", PodRef, c, "current")
             down == FindingOf("pod-not-ready", PodRef, NoSubject, "current")
             st == ReadStatus(c)
  <2>1. /\ st = ObjectOf(graph, PodRef).statuses[c]
        /\ st = Seen.statuses[c] /\ st \in Status /\ WellFormed(st)
        /\ Seen.ready => st.ready
        /\ DOMAIN ObjectOf(graph, PodRef).statuses = Containers
        /\ Seen.phase \in {"Running", "Failed"}
    BY PodInGraph, PodFields DEF ReadStatus, Seen, Lawful
  <2>2. c # NoSubject
    BY KubeletAssumption
  <2> HIDE DEF st
  <2>3. st.last # NoObject /\ ~st.ready /\ ~Seen.ready
    BY <2>1 DEF WellFormed, Running, st
  <2>4. Termination(st) = st.last /\ Termination(st) # NoObject
    BY <2>3 DEF Termination
  <2>5. kill \in Findings
    <3>1. c \in Terminated(graph, PodRef) /\ Explicit(graph, PodRef, Termination(st))
      BY <2>1, <2>4 DEF Terminated, ContainersOf, Explicit, st
    <3>2. TerminationStillDisrupting(st, "container-oomkilled")
      BY <2>3 DEF TerminationStillDisrupting, TerminationOf, st
    <3>3. TerminationFinding(graph, PodRef, c, "container-oomkilled") = kill
      BY <2>1, <3>2 DEF TerminationFinding
    <3>4. TerminationFinding(graph, PodRef, c, "container-oomkilled") \in OomKilledFindings(graph)
      <4> DEFINE ofPod == {TerminationFinding(graph, PodRef, d, "container-oomkilled") :
                            d \in {e \in Terminated(graph, PodRef) :
                                    Explicit(graph, PodRef, Termination(ObjectOf(graph, PodRef).statuses[e]))}}
      <4>1. TerminationFinding(graph, PodRef, c, "container-oomkilled") \in ofPod
        BY <2>1, <3>1
      <4>2. PodRef \in PodRefs(graph)
        BY PodInGraph
      <4> HIDE DEF ofPod
      <4>3. ofPod \subseteq OomKilledFindings(graph)
        BY <4>2 DEF OomKilledFindings, ofPod
      <4>4. QED BY <4>1, <4>3
    <3>5. QED BY <3>3, <3>4 DEF Findings, PodFindings
  <2>6. loop \in Findings
    <3>1. loop \in CrashLoopFindings(graph)
      <4>1. c \in {d \in ContainersOf(graph, PodRef) :
                    ObjectOf(graph, PodRef).statuses[d].waiting = "CrashLoopBackOff"}
        BY <2>1 DEF ContainersOf, st
      <4>2. PodRef \in PodRefs(graph)
        BY PodInGraph
      <4> HIDE DEF loop
      <4>3. QED BY <4>1, <4>2 DEF CrashLoopFindings, loop
    <3>2. QED BY <3>1 DEF Findings, PodFindings
  <2>7. down \in Findings
    <3>1. PodRef \in PodRefs(graph) /\ Seen.phase # "Succeeded"
      BY <2>1, PodInGraph
    <3>2. down \in PodNotReadyFindings(graph)
      BY <2>3, <3>1 DEF PodNotReadyFindings, Seen
    <3>3. QED BY <3>2 DEF Findings, PodFindings
  <2>8. /\ kill.type = "container-oomkilled" /\ loop.type = "crashloop-backoff"
        /\ down.type = "pod-not-ready"
        /\ kill.container = c /\ loop.container = c
        /\ kill.resource = PodRef /\ loop.resource = PodRef /\ down.resource = PodRef
    BY DEF FindingOf, FindingAbout
  <2> HIDE DEF kill, loop, down
  <2>9. Explains(graph, kill, loop)
    BY <2>2, <2>8 DEF Explains, SamePodMechanisms, SamePodComponent, SameResource
  <2>10. Explains(graph, loop, down)
    BY <2>8 DEF Explains, SameResourceMechanisms, SameResource
  <2>11. kill # loop /\ loop # down
    BY <2>8
  <2>12. <<kill, loop>> \in Links /\ <<loop, down>> \in Links
    BY <2>5, <2>6, <2>7, <2>9, <2>10, <2>11 DEF Links, Correlate
  <2>13. QED BY <2>12 DEF kill, loop, down
<1>2. QED BY <1>1, SeenIsAccountable, PTL
=============================================================================
