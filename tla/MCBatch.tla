------------------------------ MODULE MCBatch ------------------------------
(***************************************************************************)
(* An instance: a CronJob with two runs, each with a Pod, and perhaps a   *)
(* third whose annotation was edited away, which makes the latest unknown; *)
(* a Service and the StatefulSet behind it, whose Pods keep their names    *)
(* when they are deleted and created again; a Service without a selector;  *)
(* and a StatefulSet whose selector does not parse.                        *)
(***************************************************************************)
EXTENDS Instance

cron == R("CronJob", "nightly")
older == R("Job", "nightly-1")
newer == R("Job", "nightly-2")
edited == R("Job", "nightly-3")
podOld == R("Pod", "nightly-1-x")
podNew == R("Pod", "nightly-2-x")

svc == R("Service", "db")
slice == R("EndpointSlice", "db-1")
sts == R("StatefulSet", "db")
bare == R("Service", "bare")
odd == R("StatefulSet", "odd")
pod0 == R("Pod", "db-0")
pod1 == R("Pod", "db-1")

Batch == {cron, older, newer, edited, podOld, podNew}
Stateful == {svc, slice, sts, bare, odd, pod0, pod1}
MCRefs == Batch \cup Stateful

MCShape ==
    [r \in MCRefs |->
        CASE r = cron   -> [Plain EXCEPT !.scheduled = TRUE]
          [] r = older  -> [Plain EXCEPT !.owners = By(cron), !.stamped = TRUE, !.at = 1]
          [] r = newer  -> [Plain EXCEPT !.owners = By(cron), !.stamped = TRUE, !.at = 2]
          [] r = edited -> [Plain EXCEPT !.owners = By(cron)]
          [] r = podOld -> [Plain EXCEPT !.owners = By(older), !.quiet = FALSE]
          [] r = podNew -> [Plain EXCEPT !.owners = By(newer), !.quiet = FALSE]
          [] r = svc    -> [WithSelector(Plain, {pod0, pod1}) EXCEPT !.routes = {slice}]
          [] r = sts    -> WithSelector(Plain, {pod0, pod1})
          [] r = odd    -> [Plain EXCEPT !.selector = "invalid"]
          [] r \in {pod0, pod1} -> [Plain EXCEPT !.owners = By(sts), !.quiet = (r = pod1)]
          [] OTHER      -> Plain]

MCFoci == {cron, newer, podNew, svc, sts, pod0, bare, odd}
MCInitialClusters ==
    {MCRefs, Batch \ {edited}, MCRefs \ {older, edited, pod0}, {cron}}
MCVolatile ==
    [f \in MCFoci |-> CASE f \in {cron, newer} -> {cron, newer}
                        [] f = podNew -> {newer, podNew}
                        [] OTHER -> {sts, pod0}]

=============================================================================
