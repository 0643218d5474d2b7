------------------------------ MODULE Instance ------------------------------
(***************************************************************************)
(* Shorthands the instances of the collector for TLC are written with.     *)
(***************************************************************************)
EXTENDS CollectorProperties

R(kind, name) == [kind |-> kind, name |-> name]

\* An object that selects, owns and refers to nothing.
Plain == [owners |-> <<>>, selector |-> "none", selects |-> {}, routes |-> {},
          config |-> <<>>, claims |-> <<>>, node |-> <<>>, quiet |-> TRUE,
          target |-> {}, stamped |-> FALSE, at |-> 0, scheduled |-> FALSE]

By(owner) == <<[ref |-> owner, controller |-> TRUE]>>
Config(ref, optional) == [ref |-> ref, optional |-> optional]
WithSelector(shape, refs) == [shape EXCEPT !.selector = "labels", !.selects = refs]

=============================================================================
