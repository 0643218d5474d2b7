-------------------------- MODULE VersionDiscovery --------------------------
(***************************************************************************)
(* collectClusterInfo (internal/kube/collector.go): the API server's       *)
(* version is asked for on a goroutine, because Discovery().ServerVersion  *)
(* takes no context; the collector waits in a select for the answer or for *)
(* its deadline, whichever it sees first.  The request is not cancelled    *)
(* with the context: its answer may come late, or never.                   *)
(***************************************************************************)
EXTENDS Integers, Sequences

VARIABLES
    ctx,      \* the inspection's context: "live", then "done"
    caller,   \* the collector: "entering", "starting", "waiting", "returned"
    probe,    \* the goroutine: "none", "asking", "sending", "ended"
    answer,   \* what it has to send
    result,   \* the channel's buffer
    outcome   \* what the collector recorded: "pending", "version", "issue"

vars == <<ctx, caller, probe, answer, result, outcome>>

\* ServerVersion returns an error, or an Info whose GitVersion is a release, a
\* vendor build of one (v1.33.1+k3s1), version 0 (a client build's placeholder),
\* no version at all, or empty; Major, or Major and Minor, may be filled in besides.
GitVersions == {"release", "vendor", "placeholder", "garbage", ""}
Infos       == [git : GitVersions, numbers : {"none", "major", "both"}]
Failed      == [git |-> "error", numbers |-> "none"]
Answers     == Infos \cup {Failed}

\* The version string sent, and whether SetKubernetesVersion accepts it.
Raw(info) == IF info.git = "" /\ info.numbers = "both" THEN "release" ELSE info.git
ParsesPlaceholder(raw) == raw \in {"release", "vendor", "placeholder"}
Parses(raw) == raw \in {"release", "vendor"}

NoAnswer == [git |-> "unasked", numbers |-> "none"]

\* Faulty variant: an unbuffered channel, whose sender needs a receiver.
SendUnbuffered ==
    /\ probe = "sending"
    /\ caller = "waiting"
    /\ result' = Append(result, answer)
    /\ probe' = "ended"
    /\ UNCHANGED <<ctx, caller, answer, outcome>>

\* make(chan versionResult, 1)
ResultCapacity == 1

TypeOK ==
    /\ ctx \in {"live", "done"}
    /\ caller \in {"entering", "starting", "waiting", "returned"}
    /\ probe \in {"none", "asking", "sending", "ended"}
    /\ answer \in Answers \cup {NoAnswer}
    /\ result \in Seq(Answers) /\ Len(result) <= ResultCapacity
    /\ outcome \in {"pending", "version", "issue"}

Init ==
    /\ ctx \in {"live", "done"}
    /\ caller = "entering"
    /\ probe = "none"
    /\ answer = NoAnswer
    /\ result = <<>>
    /\ outcome = "pending"

Expire ==
    /\ ctx = "live"
    /\ ctx' = "done"
    /\ UNCHANGED <<caller, probe, answer, result, outcome>>

\* if err := ctx.Err(); err == nil
Enter ==
    /\ caller = "entering"
    /\ caller' = IF ctx = "live" THEN "starting" ELSE "waiting"
    /\ UNCHANGED <<ctx, probe, answer, result, outcome>>

\* go func(): the deadline may have passed since the context was looked at.
Start ==
    /\ caller = "starting"
    /\ caller' = "waiting"
    /\ probe' = "asking"
    /\ UNCHANGED <<ctx, answer, result, outcome>>

\* The API server answers: after the deadline, perhaps, or not at all.
ServerAnswers ==
    /\ probe = "asking"
    /\ probe' = "sending"
    /\ answer' \in Answers
    /\ UNCHANGED <<ctx, caller, result, outcome>>

Send ==
    /\ probe = "sending"
    /\ Len(result) < ResultCapacity
    /\ result' = Append(result, answer)
    /\ probe' = "ended"
    /\ UNCHANGED <<ctx, caller, answer, outcome>>

\* Faulty variant: the select waits for the answer alone.
GiveUpNever ==
    /\ caller = "waiting"
    /\ FALSE
    /\ UNCHANGED vars

\* select: case <-ctx.Done()
GiveUp ==
    /\ caller = "waiting"
    /\ ctx = "done"
    /\ caller' = "returned"
    /\ outcome' = "issue"
    /\ UNCHANGED <<ctx, probe, answer, result>>

\* select: case discovered := <-result
Receive ==
    /\ caller = "waiting"
    /\ result # <<>>
    /\ caller' = "returned"
    /\ outcome' = IF Parses(Raw(Head(result))) THEN "version" ELSE "issue"
    /\ result' = Tail(result)
    /\ UNCHANGED <<ctx, probe, answer>>

Return == GiveUp \/ Receive

Next == Expire \/ Enter \/ Start \/ ServerAnswers \/ Send \/ Return

\* Go schedules both goroutines and the timer of context.WithTimeout fires;
\* nothing makes the server answer.
Spec ==
    /\ Init /\ [][Next]_vars
    /\ WF_vars(Expire)
    /\ WF_vars(Enter) /\ WF_vars(Start) /\ WF_vars(Return)
    /\ WF_vars(Send)

-----------------------------------------------------------------------------

\* However late or silent the server, the collector gets past the version.
CollectorReturns == <>(caller = "returned")

\* An answer that comes after the collector has gone does not block the
\* goroutine for ever: the buffered channel takes it (collector.go:764-771).
ProbeNeverStuck == (probe = "sending") ~> (probe = "ended")

\* An answer that tells which Kubernetes release the server runs.
Identifies(info) ==
    info.git \in {"release", "vendor"} \/ (info.git = "" /\ info.numbers = "both")

\* A version is recorded exactly when the collector took a usable answer of the
\* server: a deadline, an error or a version 0 is an issue, never a default.
VersionIsDiscovered ==
    caller = "returned" =>
        /\ outcome = "version" => probe = "ended" /\ Identifies(answer)
        /\ outcome = "issue"   => ctx = "done" \/ ~Identifies(answer)
        /\ outcome # "pending"

=============================================================================
