------------------------------ MODULE MCRollout ------------------------------
(***************************************************************************)
(* Two templates, rolled out and back.  The ReplicaSet of the second one   *)
(* does not exist to begin with, or is a retained one that is older than   *)
(* the first one's: the oldest, the newest and the present are different.  *)
(***************************************************************************)
EXTENDS RolloutProperties

MCFoci == {DeploymentRef, ServiceRef}

MCRefs == {DeploymentRef, ServiceRef, SliceRef}
          \cup {ReplicaSetRef(t) : t \in Templates} \cup {PodRef(t) : t \in Templates}

MCHistories == {<<2, Never>>, <<2, 1>>}

=============================================================================
