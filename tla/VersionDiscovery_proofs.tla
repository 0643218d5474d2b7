---------------------- MODULE VersionDiscovery_proofs ----------------------
(***************************************************************************)
(* However the goroutine, the server and the deadline interleave, what the  *)
(* collector records of the version is what the server said, or an issue.   *)
(***************************************************************************)
EXTENDS VersionDiscovery, TLAPS

\* The channel holds at most the one answer, and only after the goroutine sent it.
ChannelInv ==
    /\ probe # "ended" => result = <<>>
    /\ probe = "ended" => result \in {<<>>, <<answer>>}
    /\ probe \in {"sending", "ended"} => answer \in Answers
    /\ caller \in {"entering", "starting"} => probe = "none"

\* The outcome is settled once, by the answer that was received or by the deadline.
OutcomeInv ==
    /\ caller # "returned" => outcome = "pending"
    /\ caller = "returned" => outcome \in {"version", "issue"}
    /\ outcome = "version" => probe = "ended" /\ Identifies(answer)
    /\ outcome = "issue"   => ctx = "done" \/ (probe = "ended" /\ ~Identifies(answer))

DInv == TypeOK /\ ChannelInv /\ OutcomeInv

\* The parser accepts exactly the answers that identify a release: the version
\* string that is put together of Major and Minor included (collector.go:778-793).
LEMMA ParsesWhatIdentifies ==
    ASSUME NEW info \in Answers
    PROVE  Parses(Raw(info)) <=> Identifies(info)
BY DEF Parses, Raw, Identifies, Answers, Infos, Failed, GitVersions

\* A channel of one place: what is sent into it empty is its only element.
LEMMA OneAnswer ==
    ASSUME NEW a \in Answers
    PROVE  /\ Append(<<>>, a) = <<a>>
           /\ <<a>> # <<>> /\ Head(<<a>>) = a /\ Tail(<<a>>) = <<>>
           /\ <<>> \in Seq(Answers) /\ Len(<<>>) = 0
           /\ <<a>> \in Seq(Answers) /\ Len(<<a>>) = 1
OBVIOUS

\* The collector begins with nothing asked and nothing recorded.
LEMMA InitDInv == Init => DInv
BY DEF Init, DInv, TypeOK, ChannelInv, OutcomeInv, ResultCapacity

\* No step of the collector, the goroutine, the server or the clock breaks it.
LEMMA NextDInv == DInv /\ [Next]_vars => DInv'
<1> SUFFICES ASSUME DInv, [Next]_vars PROVE DInv'
    OBVIOUS
<1> USE DEF DInv, TypeOK, ChannelInv, OutcomeInv, ResultCapacity
<1>1. CASE Expire
    BY <1>1 DEF Expire
<1>2. CASE Enter
    BY <1>2 DEF Enter
<1>3. CASE Start
    BY <1>3 DEF Start
<1>4. CASE ServerAnswers
    BY <1>4 DEF ServerAnswers
<1>5. CASE Send
    <2>1. /\ probe = "sending" /\ probe' = "ended" /\ result = <<>>
          /\ answer \in Answers /\ answer' = answer
        BY <1>5 DEF Send
    <2>2. result' = <<answer>>
        BY <1>5, <2>1, OneAnswer DEF Send
    <2> QED
        BY <1>5, <2>1, <2>2, OneAnswer DEF Send
<1>6. CASE GiveUp
    BY <1>6 DEF GiveUp
<1>7. CASE Receive
    <2>1. probe = "ended" /\ result = <<answer>> /\ answer \in Answers
        BY <1>7 DEF Receive
    <2>2. Head(result) = answer /\ result' = <<>>
        BY <1>7, <2>1, OneAnswer DEF Receive
    <2>3. outcome' = IF Identifies(answer) THEN "version" ELSE "issue"
        BY <1>7, <2>1, <2>2, ParsesWhatIdentifies DEF Receive
    <2> QED
        BY <1>7, <2>1, <2>2, <2>3, OneAnswer DEF Receive
<1>8. CASE UNCHANGED vars
    BY <1>8 DEF vars
<1> QED
    BY <1>1, <1>2, <1>3, <1>4, <1>5, <1>6, <1>7, <1>8 DEF Next, Return

\* The states of the version discovery are well formed, and the channel never holds
\* more than it has room for.
THEOREM DiscoveryInvariant == Spec => []DInv
BY InitDInv, NextDInv, PTL DEF Spec

\* A version is recorded only if the server's answer identifies one, and an issue
\* only if it does not or the deadline has passed (collector.go:755-802).
THEOREM VersionIsDiscoveredHolds == Spec => []VersionIsDiscovered
<1>1. DInv => VersionIsDiscovered
    BY DEF DInv, OutcomeInv, VersionIsDiscovered
<1> QED
    BY <1>1, DiscoveryInvariant, PTL

=============================================================================
