------------------------------- MODULE MCWeb -------------------------------
(***************************************************************************)
(* An instance: a Service and the Deployment behind it, one ReplicaSet and *)
(* two Pods that share configuration, storage and a Node.                  *)
(***************************************************************************)
EXTENDS Instance

svc == R("Service", "web")
slice == R("EndpointSlice", "web-1")
dep == R("Deployment", "web")
rs == R("ReplicaSet", "web-1")
podA == R("Pod", "web-1-a")
podB == R("Pod", "web-1-b")
settings == R("ConfigMap", "settings")
token == R("Secret", "token")
data == R("PersistentVolumeClaim", "data")
node == R("Node", "n1")
hpa == R("HorizontalPodAutoscaler", "web")

MCRefs == {svc, slice, dep, rs, podA, podB, settings, token, data, node, hpa}

MCShape ==
    [r \in MCRefs |->
        CASE r = svc  -> [WithSelector(Plain, {podA, podB}) EXCEPT !.routes = {slice}]
          [] r = dep  -> WithSelector(Plain, {rs, podA, podB})
          [] r = rs   -> [Plain EXCEPT !.owners = By(dep)]
          [] r = podA -> [Plain EXCEPT !.owners = By(rs), !.quiet = FALSE,
                                       !.config = <<Config(settings, FALSE), Config(token, FALSE)>>,
                                       !.claims = <<data>>, !.node = <<node>>]
          [] r = podB -> [Plain EXCEPT !.owners = By(rs),
                                       !.config = <<Config(settings, TRUE), Config(token, FALSE)>>,
                                       !.claims = <<data>>]
          [] r = hpa  -> [Plain EXCEPT !.target = {dep}]
          [] OTHER    -> Plain]

MCFoci == {svc, dep, podA}
MCInitialClusters == {MCRefs, MCRefs \ {settings, node}, MCRefs \ {podB, data}}
MCVolatile == [f \in MCFoci |-> IF f = svc THEN {dep, rs, hpa} ELSE {dep, rs, podA}]

=============================================================================
