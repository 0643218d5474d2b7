----------------------------- MODULE Inspection -----------------------------
(***************************************************************************)
(* What an inspection promises about its focus, and nothing else: rules    *)
(* are evaluated only if nobody wrote the focus since its first read, and  *)
(* whatever goes wrong instead is an error or a suspended evaluation       *)
(* (docs/temporal-integrity.md:8-17, collector.go:664-701,                  *)
(* engine.go:81-89).  An inspection that is suspended may have been         *)
(* disturbed or not: it promises nothing.                                   *)
(***************************************************************************)

VARIABLES
    observing,  \* the focus was read a first time
    moved,      \* the focus was written, deleted or created again since
    outcome     \* "pending", then "error", "suspended" or "evaluated"

vars == <<observing, moved, outcome>>

Init ==
    /\ observing = FALSE
    /\ moved = FALSE
    /\ outcome = "pending"

Begin ==
    /\ outcome = "pending"
    /\ ~observing
    /\ observing' = TRUE
    /\ UNCHANGED <<moved, outcome>>

Move ==
    /\ outcome = "pending"
    /\ observing
    /\ moved' = TRUE
    /\ UNCHANGED <<observing, outcome>>

Fail ==
    /\ outcome = "pending"
    /\ outcome' = "error"
    /\ UNCHANGED <<observing, moved>>

Suspend ==
    /\ outcome = "pending"
    /\ observing
    /\ outcome' = "suspended"
    /\ UNCHANGED <<observing, moved>>

Conclude ==
    /\ outcome = "pending"
    /\ observing
    /\ ~moved
    /\ outcome' = "evaluated"
    /\ UNCHANGED <<observing, moved>>

Next == Begin \/ Move \/ Fail \/ Suspend \/ Conclude

Spec == Init /\ [][Next]_vars

=============================================================================
