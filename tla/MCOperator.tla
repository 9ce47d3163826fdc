----------------------------- MODULE MCOperator -----------------------------
(***************************************************************************)
(* The operator on small instances: without the monitor plugin, with one   *)
(* pod, and with it.  Two runs start in a cluster whose operands are up, a *)
(* state that Spec reaches, or in an empty one in which nothing disturbs   *)
(* the first deployment: the states in which it meets edits and faults are *)
(* left to the other runs.                                                 *)
(***************************************************************************)
EXTENDS Operator

CONSTANT p1

OnePod == {p1}
NoPods == {}
WithoutPlugin == {FALSE}
WithOrWithoutPlugin == BOOLEAN
All == {"all"}
SomeOrAll == {"some", "all"}

Ready == [NoDeployment EXCEPT !.owner = 1, !.replicas = "all"]
Locked == [Ready EXCEPT !.fin = TRUE]

\* The operands of a CPPC are up, with the monitor if there may be one.
Monitored == TRUE \in PluginChoices

Deployed ==
    /\ cppc = [NoCPPC EXCEPT
                 !.uid = 1, !.plugin = Monitored, !.status.available = TRUE,
                 !.fins = {PodPlacementFinalizerName}
                            \cup (IF Monitored THEN {ExecFormatErrorFinalizerName} ELSE {})]
    /\ ds = (IF Monitored THEN 1 ELSE 0) /\ sa = (IF Monitored THEN "ready" ELSE "none")
    /\ exDep = IF Monitored THEN Locked ELSE NoDeployment
    /\ lastUID = 1 /\ ppc = "none"
    /\ mwc = 1 /\ whSvc = 1 /\ whDep = Ready
    /\ ctlDep = Locked /\ ctlRest = 1
    /\ event = "none" /\ pods = [p \in Pods |-> "new"]
    /\ cached = cppc /\ fresh = {"cache"} /\ wakeup = FALSE
    /\ ppcSeen = FALSE /\ eventSeen = "unlisted" /\ seen = Live /\ changed = FALSE
    /\ queued = FALSE
    /\ pc = "idle" /\ w = NoCPPC /\ built = NotBuilt
    /\ late = {}
    /\ edits = 0 /\ removals = 0 /\ faults = 0

Undisturbed == Empty /\ edits = MaxEdits /\ removals = MaxRemovals /\ faults = MaxFaults

DeployedOperatorFairSpec == (Deployed \/ Undisturbed) /\ [][Next]_vars /\ OperatorFairness
DeployedFairSpec == DeployedOperatorFairSpec /\ ClusterFairness
=============================================================================
