---------------------------- MODULE Engine_proofs ----------------------------
(***************************************************************************)
(* The exit status is earned, for every registry, every graph a collector  *)
(* may hand over and whatever the rules say of it.                         *)
(***************************************************************************)
EXTENDS EngineProperties, TLAPS

-----------------------------------------------------------------------------
(* The inductive invariant.  The exit status follows from the verdict, the *)
(* verdict from what the loop has gathered, and that is known rule by rule. *)

\* What the rules before next came to.
LoopInv ==
    /\ graph \in Graphs
    /\ server \in IF graph.version THEN Minors ELSE {NoMinor}
    /\ next \in 1..(Len(Rules) + 1)
    /\ (skipped = {} /\ ~Suspended) =>
        /\ evaluated = next - 1
        /\ \A i \in 1..(next - 1) : ~Skips(Rules[i])
    /\ findings \subseteq said
    /\ warnings = {} => said \subseteq findings
    /\ \A f \in findings :
        /\ ~Suspended
        /\ \E i \in DOMAIN Rules :
            f.rule = Rules[i].id /\ f.type \in Rules[i].types /\ ~Skips(Rules[i])

VerdictInv ==
    /\ result # Pending =>
        /\ next = Len(Rules) + 1
        /\ result = [health |-> Health, partial |-> Partial]
    /\ exit \in {0, 2} => result # Pending
    /\ exit = 0 => result.health = "healthy"
    /\ exit = 2 => result.health = "degraded"

IInv == LoopInv /\ VerdictInv

-----------------------------------------------------------------------------

\* The registrations are numbered from one.
LEMMA RulesAreASequence ==
    Len(Rules) \in Nat /\ DOMAIN Rules = 1..Len(Rules)
BY EngineAssumption

\* What a verdict is worth, once it is there.
LEMMA VerdictIsWorth ==
    ASSUME IInv, result # Pending
    PROVE  /\ result.health = "healthy" =>
                /\ ~HasHealthBlockingIssue(graph)
                /\ warnings = {}
                /\ ~SkipWarning
                /\ ~\E f \in findings : CurrentOnFocus(f)
           /\ result.health = "degraded" => \E f \in findings : CurrentOnFocus(f)
<1>1. result.health = Health
  BY DEF IInv, VerdictInv
<1> QED
  BY <1>1 DEF Health

\* The invariant holds before the first rule is looked at.
LEMMA InitInv == Init => IInv
BY RulesAreASequence DEF Init, IInv, LoopInv, VerdictInv, Running, Pending

\* What the graph says does not depend on the loop.
LEMMA StepInv == IInv /\ [Next]_vars => IInv'
<1> SUFFICES ASSUME IInv, [Next]_vars PROVE IInv'
  OBVIOUS
<1> USE RulesAreASequence
<1>same. (UNCHANGED <<graph, server, kubelets>>) =>
           /\ Suspended' = Suspended
           /\ \A i : Skips(Rules[i])' = Skips(Rules[i])
           /\ VersionUnavailable' = VersionUnavailable
  BY DEF Suspended, Skips, VersionUnavailable, Compatible, ReviewedKubelet, NodeRefs
<1>1. CASE PassOver
  <2>1. LoopInv'
    BY <1>1, <1>same DEF PassOver, Advance, Looking, IInv, LoopInv, answers
  <2>2. VerdictInv'
    BY <1>1 DEF PassOver, Advance, Looking, IInv, VerdictInv
  <2> QED BY <2>1, <2>2 DEF IInv
<1>2. CASE SkipRule
  <2>1. LoopInv'
    BY <1>2, <1>same DEF SkipRule, Advance, Looking, IInv, LoopInv, answers
  <2>2. VerdictInv'
    BY <1>2 DEF SkipRule, Advance, Looking, IInv, VerdictInv
  <2> QED BY <2>1, <2>2 DEF IInv
<1>3. CASE EvaluateRule
  <2> DEFINE rule == Rules[next]
  <2>1. PICK emitted \in Emissions :
          /\ findings' = findings \cup {Accepted(rule, f) : f \in Declared(rule, emitted)}
          /\ warnings' = warnings \cup Warnings(rule, emitted)
          /\ said' = said \cup {Accepted(rule, f) : f \in emitted}
    BY <1>3 DEF EvaluateRule
  <2>2. /\ Looking /\ ~Suspended /\ ~Skips(rule) /\ Advance
        /\ evaluated' = evaluated + 1 /\ skipped' = skipped
        /\ next \in DOMAIN Rules
    BY <1>3 DEF EvaluateRule, Looking, IInv, LoopInv
  <2>3. /\ UNCHANGED <<graph, server, kubelets>> /\ next' = next + 1
        /\ next \in 1..Len(Rules)
    BY <2>2 DEF Advance
  <2>4. (warnings' = {}) => said' \subseteq findings'
    <3> SUFFICES ASSUME warnings' = {} PROVE said' \subseteq findings'
      OBVIOUS
    <3>1. warnings = {} /\ Warnings(rule, emitted) = {}
      BY <2>1
    <3>2. emitted \subseteq Declared(rule, emitted)
      BY <3>1 DEF Warnings
    <3> QED
      BY <2>1, <3>1, <3>2 DEF IInv, LoopInv
  <2>5. \A f \in findings' :
          /\ ~Suspended'
          /\ \E i \in DOMAIN Rules :
              f.rule = Rules[i].id /\ f.type \in Rules[i].types /\ ~Skips(Rules[i])'
    <3> SUFFICES ASSUME NEW f \in findings'
                 PROVE  \E i \in DOMAIN Rules :
                          f.rule = Rules[i].id /\ f.type \in Rules[i].types /\ ~Skips(Rules[i])
      BY <1>same, <2>2, <2>3
    <3>1. CASE f \in findings
      BY <3>1 DEF IInv, LoopInv
    <3>2. CASE f \in {Accepted(rule, x) : x \in Declared(rule, emitted)}
      <4>1. PICK x \in Declared(rule, emitted) : f = Accepted(rule, x)
        BY <3>2
      <4>2. f.rule = rule.id /\ f.type = x.type
        BY <4>1 DEF Accepted
      <4>3. x.type \in rule.types
        BY <4>1 DEF Declared
      <4> QED
        BY <4>2, <4>3, <2>2
    <3> QED
      BY <2>1, <3>1, <3>2
  <2>6. (skipped' = {} /\ ~Suspended') =>
          /\ evaluated' = next' - 1
          /\ \A i \in 1..(next' - 1) : ~Skips(Rules[i])'
    BY <1>same, <2>2, <2>3 DEF IInv, LoopInv
  <2>7. findings' \subseteq said'
    BY <2>1 DEF IInv, LoopInv, Declared
  <2>8. LoopInv'
    BY <2>3, <2>4, <2>5, <2>6, <2>7 DEF IInv, LoopInv
  <2>9. VerdictInv'
    BY <2>2 DEF Advance, Looking, IInv, VerdictInv
  <2> QED BY <2>8, <2>9 DEF IInv
<1>4. CASE Conclude
  <2>1. LoopInv'
    BY <1>4, <1>same DEF Conclude, IInv, LoopInv, answers
  <2>2. result' = [health |-> Health', partial |-> Partial']
    BY <1>4 DEF Conclude, answers, Health, Partial, SkipWarning, VersionUnavailable, CurrentOnFocus
  <2>3. next' = Len(Rules) + 1
    BY <1>4 DEF Conclude, IInv, LoopInv
  <2>4. exit' \notin {0, 2}
    BY <1>4 DEF Conclude, IInv, VerdictInv
  <2>5. VerdictInv'
    BY <2>2, <2>3, <2>4 DEF VerdictInv
  <2> QED BY <2>1, <2>5 DEF IInv
<1>5. CASE Exit
  <2>1. LoopInv'
    BY <1>5, <1>same DEF Exit, IInv, LoopInv, answers
  <2>2. Health' = Health /\ Partial' = Partial
    BY <1>5 DEF Exit, answers, Health, Partial, SkipWarning, VersionUnavailable, CurrentOnFocus
  <2>3. PICK rendered \in BOOLEAN : exit' = IF rendered THEN ExitCode(result.health) ELSE 1
    BY <1>5 DEF Exit
  <2>4. result.health \in {"healthy", "unknown", "degraded"}
    BY <1>5 DEF Exit, IInv, VerdictInv, Health
  <2>5. /\ exit' = 0 => result.health = "healthy"
        /\ exit' = 2 => result.health = "degraded"
    BY <2>3, <2>4 DEF ExitCode
  <2>6. VerdictInv'
    BY <1>5, <2>2, <2>5 DEF Exit, IInv, VerdictInv
  <2> QED BY <2>1, <2>6 DEF IInv
<1>6. CASE UNCHANGED vars
  <2>1. LoopInv'
    BY <1>6, <1>same DEF vars, IInv, LoopInv, answers
  <2>2. Health' = Health /\ Partial' = Partial
    BY <1>6 DEF vars, answers, Health, Partial, SkipWarning, VersionUnavailable, CurrentOnFocus
  <2>3. VerdictInv'
    BY <1>6, <2>2 DEF vars, IInv, VerdictInv
  <2> QED BY <2>1, <2>3 DEF IInv
<1> QED
  BY <1>1, <1>2, <1>3, <1>4, <1>5, <1>6 DEF Next

-----------------------------------------------------------------------------

\* What the collector's promise about issues makes of a graph without a blocking
\* one: it is not torn, and the version of its server is known.
LEMMA NothingBlocks ==
    ASSUME graph \in Graphs, ~HasHealthBlockingIssue(graph)
    PROVE  ~Suspended /\ ~VersionUnavailable /\ graph.version
<1>1. CollectedGraph(graph)
  BY EngineAssumption
<1> QED
  BY <1>1 DEF CollectedGraph, HasHealthBlockingIssue, Suspended, VersionUnavailable,
              HasCollectionIssue, HasCollectionSourceIssue

\* The invariant makes a healthy verdict earned.
LEMMA HealthyFromInv == IInv => HealthyIsEarned
<1> SUFFICES ASSUME IInv, exit = 0
             PROVE  /\ ~Suspended /\ ~HasHealthBlockingIssue(graph)
                    /\ evaluated = Len(Rules)
                    /\ \A i \in DOMAIN Rules : Compatible(Rules[i])
                    /\ ~\E f \in said : CurrentOnFocus(f)
  BY DEF HealthyIsEarned
<1> USE RulesAreASequence
<1>1. result # Pending /\ result.health = "healthy" /\ next = Len(Rules) + 1
  BY DEF IInv, VerdictInv
<1>2. /\ ~HasHealthBlockingIssue(graph) /\ warnings = {} /\ ~SkipWarning
      /\ ~\E f \in findings : CurrentOnFocus(f)
  BY <1>1, VerdictIsWorth
<1>3. ~Suspended /\ ~VersionUnavailable /\ graph.version
  BY <1>2, NothingBlocks DEF IInv, LoopInv
<1>4. skipped = {}
  BY <1>2, <1>3 DEF SkipWarning
<1>5. evaluated = Len(Rules) /\ \A i \in 1..Len(Rules) : ~Skips(Rules[i])
  BY <1>1, <1>3, <1>4 DEF IInv, LoopInv
<1>6. \A i \in DOMAIN Rules : Compatible(Rules[i])
  BY <1>3, <1>5 DEF Skips
<1>7. ~\E f \in said : CurrentOnFocus(f)
  BY <1>2 DEF IInv, LoopInv
<1> QED
  BY <1>2, <1>3, <1>5, <1>6, <1>7

\* The invariant makes a degraded verdict proved.
LEMMA DegradedFromInv == IInv => DegradedIsProved
<1> SUFFICES ASSUME IInv, exit = 2
             PROVE  DegradedIsProved
  BY DEF DegradedIsProved
<1> USE RulesAreASequence
<1>1. result # Pending /\ result.health = "degraded"
  BY DEF IInv, VerdictInv
<1>2. PICK f \in findings : CurrentOnFocus(f)
  BY <1>1, VerdictIsWorth
<1>3. PICK i \in DOMAIN Rules :
        f.rule = Rules[i].id /\ f.type \in Rules[i].types /\ ~Skips(Rules[i])
  BY DEF IInv, LoopInv
<1>4. ~Suspended
  BY <1>2 DEF IInv, LoopInv
<1>5. graph.version /\ Compatible(Rules[i])
  BY <1>3, EngineAssumption DEF IInv, LoopInv, Skips, CollectedGraph, VersionUnavailable
<1>6. server # NoMinor
  BY <1>5, EngineAssumption DEF IInv, LoopInv
<1> QED
  BY <1>2, <1>3, <1>4, <1>5, <1>6 DEF DegradedIsProved, Compatible, ReviewedKubelet

\* The invariant makes a result that is not partial a whole one.
LEMMA WholeFromInv == IInv => WholeUnlessPartial
<1> SUFFICES ASSUME IInv, result # Pending, ~result.partial
             PROVE  graph.issues = {} /\ evaluated = Len(Rules) /\ findings = said
  BY DEF WholeUnlessPartial
<1> USE RulesAreASequence
<1>1. ~Partial /\ next = Len(Rules) + 1
  BY DEF IInv, VerdictInv
<1>2. graph.issues = {} /\ warnings = {} /\ ~SkipWarning
  BY <1>1 DEF Partial
<1>3. ~Suspended /\ ~VersionUnavailable
  BY <1>2, NothingBlocks DEF IInv, LoopInv, HasHealthBlockingIssue
<1>4. skipped = {}
  BY <1>2, <1>3 DEF SkipWarning
<1> QED
  BY <1>1, <1>2, <1>3, <1>4 DEF IInv, LoopInv

\* The invariant of the loop over the registry (Engine.Evaluate) and of the exit
\* status derived from it.
THEOREM EngineInvariant == Spec => []IInv
<1>1. Init => IInv
  BY InitInv
<1>2. IInv /\ [Next]_vars => IInv'
  BY StepInv
<1> QED
  BY <1>1, <1>2, PTL DEF Spec

\* Whatever rules are registered and whatever they say, the command exits 0 only
\* when nothing stood in the way of saying otherwise.
THEOREM HealthIsEarned == Spec => []HealthyIsEarned
BY EngineInvariant, HealthyFromInv, PTL

\* And it exits 2 only on the word of a rule that was reviewed for every version
\* it depends on.
THEOREM DegradationIsProved == Spec => []DegradedIsProved
BY EngineInvariant, DegradedFromInv, PTL

\* A result not marked partial left nothing out, of the graph or of the rules.
THEOREM ResultIsWhole == Spec => []WholeUnlessPartial
BY EngineInvariant, WholeFromInv, PTL

=============================================================================
