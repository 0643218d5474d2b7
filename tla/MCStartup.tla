------------------------------ MODULE MCStartup ------------------------------
(***************************************************************************)
(* The StatefulSet and its two Pods, inspected from either end.            *)
(***************************************************************************)
EXTENDS StartupProperties

MCFoci == {StatefulSetRef, PodRef(1)}

MCRefs == Claims \cup {StatefulSetRef, ConfigMapRef, SecretRef} \cup {PodRef(p) : p \in Ordinals}

=============================================================================
