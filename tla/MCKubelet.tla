------------------------------ MODULE MCKubelet ------------------------------
(***************************************************************************)
(* A Pod with an application container, which has a memory limit, and a    *)
(* sidecar without; the application's probe is right, or names a port the  *)
(* container does not declare.                                             *)
(***************************************************************************)
EXTENDS KubeletProperties

MCContainers == {"app", "sidecar"}

MCRefs == {PodRef, NodeRef, Focus}

WithProbe(port) ==
    [limited |-> {"app"}, probe |-> [c \in MCContainers |-> IF c = "app" THEN port ELSE "none"]]

MCSpecs == {WithProbe("declared"), WithProbe("number")}

=============================================================================
