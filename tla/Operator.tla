------------------------------ MODULE Operator ------------------------------
(***************************************************************************)
(* The operator: the controller that reconciles the singleton              *)
(* ClusterPodPlacementConfig (cppc), deploys the operands it asks for and  *)
(* removes them in order when it is deleted.                               *)
(*                                                                         *)
(* The API server holds cppc, the operands and the pods.  The operator     *)
(* reads copies of them in its informer caches (cached, ppcSeen, eventSeen *)
(* and seen), which events bring up to date later.  A worker runs one      *)
(* Reconcile at a time; pc is the API call it makes next and w its copy of *)
(* cppc.  Copies that hold the current version of cppc are in fresh: an    *)
(* update of any other copy is a conflict.                                 *)
(*                                                                         *)
(* An operand is represented by its owner, the uid of a cppc, with 0 for   *)
(* an object that does not exist.                                          *)
(***************************************************************************)
EXTENDS Naturals, FiniteSets

CONSTANTS
    Pods,           \* pods that users submit
    PluginChoices,  \* values of "the ExecFormatErrorMonitor plugin is enabled"
    RollOuts,       \* the replicas a roll-out shows: "some", "all"
    MaxUID,         \* bound: how often users create the ClusterPodPlacementConfig
    MaxEdits,       \* bound: other edits by users
    MaxRemovals,    \* bound: deletions of the controller's Deployment by users
    MaxFaults       \* bound: failed API calls, restarts and operands going down

ASSUME OperatorAssumption ==
    /\ PluginChoices \subseteq BOOLEAN /\ PluginChoices # {}
    /\ "all" \in RollOuts /\ RollOuts \subseteq {"some", "all"}
    /\ MaxUID \in Nat /\ MaxEdits \in Nat /\ MaxRemovals \in Nat /\ MaxFaults \in Nat

PodPlacementFinalizerName    == "pod-placement"
CPPCNoPPCObjectFinalizer     == "no-pod-placement-config"
ExecFormatErrorFinalizerName == "enoexec-events"
Finalizers ==
    {PodPlacementFinalizerName, CPPCNoPPCObjectFinalizer, ExecFormatErrorFinalizerName}

Owner == 0 .. MaxUID
Status == [available : BOOLEAN, progressing : BOOLEAN, deprovisioning : BOOLEAN]
CPPC == [uid : Owner, deleting : BOOLEAN, plugin : BOOLEAN, fins : SUBSET Finalizers,
         status : Status]
NoStatus == [available |-> FALSE, progressing |-> FALSE, deprovisioning |-> FALSE]
NoCPPC == [uid |-> 0, deleting |-> FALSE, plugin |-> FALSE, fins |-> {}, status |-> NoStatus]

\* A Deployment: how many of its replicas are up, and its finalizer.
Deployment == [owner : Owner, replicas : {"none", "some", "all"}, fin : BOOLEAN,
               deleting : BOOLEAN]
NoDeployment == [owner |-> 0, replicas |-> "none", fin |-> FALSE, deleting |-> FALSE]

Built == [canDeploy : BOOLEAN, mwcFound : BOOLEAN, progressing : BOOLEAN]
NotBuilt == [canDeploy |-> FALSE, mwcFound |-> FALSE, progressing |-> FALSE]

Steps == {"idle", "update", "deployment", "dependents", "apply", "status",
          "exDaemon", "exDrain", "exDelete", "exUpdate",
          "delPPC", "delWebhook", "listPods", "ctlFin", "cppcFin", "delRest"}

VARIABLES
    \* API server
    cppc, lastUID,
    ppc,       \* a PodPlacementConfig: "none", "admitted" by its webhook, "stored"
    mwc,       \* MutatingWebhookConfiguration
    whSvc,     \* Service of the webhook
    whDep,     \* Deployment of the webhook
    ctlDep,    \* Deployment of the pod placement controller
    ctlRest,   \* its Service, its roles and its service account
    ds, sa,    \* DaemonSet of the monitor, and its service account
    exDep,     \* Deployment of the ENoExecEvent handler
    event,     \* an ENoExecEvent: "none", "sent" by the daemon, "pending", "errored"
    pods,      \* "new", "admitted" with a gate, "gated", "free"
    \* operator process
    cached, fresh, wakeup, ppcSeen, seen, changed, queued,
    eventSeen, \* the event in the cache, "unlisted" before the first list makes that cache
    pc, w,
    built,     \* fields of the status that Build computes and the API server never stores
    late,      \* pods in admission when the operator last listed pods
    edits, removals, faults

cppcVars == <<cppc, lastUID>>
hookVars == <<mwc, whSvc, whDep>>
ctlObjs == <<ctlDep, ctlRest>>
exObjs == <<ds, sa, exDep>>
cacheVars == <<cached, ppcSeen, eventSeen, seen>>
workVars == <<pc, w, built>>
bounds == <<edits, removals, faults>>
vars == <<cppcVars, ppc, hookVars, ctlObjs, exObjs, event, pods, cacheVars, fresh, wakeup,
          changed, queued, workVars, late, bounds>>

objects == <<hookVars, ctlObjs, exObjs>>
Live == [ctlDep |-> ctlDep, exDep |-> exDep, ds |-> ds, sa |-> sa]

\* A cluster without a ClusterPodPlacementConfig, and the operator just started.
Empty ==
    /\ cppc = NoCPPC /\ lastUID = 0
    /\ ppc = "none"
    /\ mwc = 0 /\ whSvc = 0 /\ whDep = NoDeployment
    /\ ctlDep = NoDeployment /\ ctlRest = 0
    /\ ds = 0 /\ sa = "none" /\ exDep = NoDeployment
    /\ event = "none" /\ pods = [p \in Pods |-> "new"]
    /\ cached = NoCPPC /\ fresh = {"cache"} /\ wakeup = FALSE
    /\ ppcSeen = FALSE /\ eventSeen = "unlisted" /\ seen = Live /\ changed = FALSE
    /\ queued = FALSE
    /\ pc = "idle" /\ w = NoCPPC /\ built = NotBuilt
    /\ late = {}

Init == Empty /\ edits = 0 /\ removals = 0 /\ faults = 0

Fault == faults < MaxFaults /\ faults' = faults + 1
Edit == edits < MaxEdits /\ edits' = edits + 1

\* Calls on the elements of a set of objects, of which some may fail.
Failing(all, failed) ==
    /\ failed \subseteq all
    /\ faults + Cardinality(failed) <= MaxFaults
    /\ faults' = faults + Cardinality(failed)

-----------------------------------------------------------------------------
\* The API server

\* A mutant, for the model checker only: changes of the finalizers do not wake the operator.
finalizersIgnored(old, new) ==
    old.uid # new.uid \/ old.plugin # new.plugin \/ old.deleting # new.deleting

\* A mutant, for the model checker only: neither does the deletion.
deletionIgnored(old, new) ==
    old.uid # new.uid \/ old.plugin # new.plugin \/ old.fins # new.fins

\* cppcUpdatePredicate: the changes of cppc that wake the operator.
cppcUpdatePredicate(old, new) ==
    \/ old.uid # new.uid
    \/ old.plugin # new.plugin
    \/ old.deleting # new.deleting
    \/ old.fins # new.fins

\* An object in deletion disappears with its last finalizer.
Settled(c) == IF c.deleting /\ c.fins = {} THEN NoCPPC ELSE c

\* A write of cppc, after which the given copies hold the new version; one that
\* changes nothing makes no new version.
WriteCPPC(new, holders) ==
    /\ cppc' = Settled(new)
    /\ fresh' = IF cppc' = cppc THEN (fresh \cap {"cache"}) \cup holders ELSE holders
    /\ wakeup' = (wakeup \/ cppcUpdatePredicate(cppc, cppc'))

DeleteDeployment(d) == IF d.owner # 0 /\ d.fin THEN [d EXCEPT !.deleting = TRUE] ELSE NoDeployment

RemoveFinalizer(d) == IF d.deleting THEN NoDeployment ELSE [d EXCEPT !.fin = FALSE]

\* How a step of the worker ends: it goes on, or the Reconcile returns, in error
\* (or with a delay) to run again.
Finish == pc' = "idle" /\ w' = NoCPPC /\ built' = NotBuilt
Goto(step) == pc' = step /\ UNCHANGED <<w, built, fresh, queued>>
Return == Finish /\ fresh' = fresh \ {"worker"} /\ UNCHANGED queued
Requeue == Finish /\ fresh' = fresh \ {"worker"} /\ queued' = TRUE

Objects(set) == UNCHANGED set /\ changed' = (changed \/ objects' # objects)

-----------------------------------------------------------------------------
\* Users

CreateCPPC ==
    /\ cppc.uid = 0 /\ lastUID < MaxUID
    /\ lastUID' = lastUID + 1
    /\ \E plugin \in PluginChoices :
         WriteCPPC([NoCPPC EXCEPT !.uid = lastUID', !.plugin = plugin], {})
    /\ UNCHANGED <<ppc, hookVars, ctlObjs, exObjs, event, pods, cacheVars, changed, queued,
                   workVars, late, bounds>>

\* ValidateDelete refuses the deletion while the operator's cache holds a PodPlacementConfig.
DeleteCPPC ==
    /\ cppc.uid # 0 /\ ~cppc.deleting
    /\ ~ppcSeen
    /\ Edit
    /\ WriteCPPC([cppc EXCEPT !.deleting = TRUE], {})
    /\ UNCHANGED <<lastUID, ppc, hookVars, ctlObjs, exObjs, event, pods, cacheVars, changed,
                   queued, workVars, late, removals, faults>>

ChangePlugin ==
    /\ cppc.uid # 0 /\ ~cppc.deleting
    /\ Edit
    /\ \E plugin \in PluginChoices \ {cppc.plugin} :
         WriteCPPC([cppc EXCEPT !.plugin = plugin], {})
    /\ UNCHANGED <<lastUID, ppc, hookVars, ctlObjs, exObjs, event, pods, cacheVars, changed,
                   queued, workVars, late, removals, faults>>

\* The webhook of the PodPlacementConfigs reads cppc from the API server, and
\* admits the object if it exists, in deletion or not; then the object is stored.
CreatePPC ==
    /\ ppc = "none" /\ cppc.uid # 0
    /\ Edit
    /\ ppc' = "admitted"
    /\ UNCHANGED <<cppcVars, fresh, wakeup, hookVars, ctlObjs, exObjs, event, pods, cacheVars,
                   changed, queued, workVars, late, removals, faults>>

StorePPC ==
    /\ ppc = "admitted"
    /\ ppc' = "stored"
    /\ UNCHANGED <<cppcVars, fresh, wakeup, hookVars, ctlObjs, exObjs, event, pods, cacheVars,
                   changed, queued, workVars, late, bounds>>

DeletePPC ==
    /\ ppc = "stored"
    /\ Edit
    /\ ppc' = "none"
    /\ UNCHANGED <<cppcVars, fresh, wakeup, hookVars, ctlObjs, exObjs, event, pods, cacheVars,
                   changed, queued, workVars, late, removals, faults>>

DeleteController ==
    /\ ctlDep.owner # 0 /\ ~ctlDep.deleting
    /\ removals < MaxRemovals /\ removals' = removals + 1
    /\ ctlDep' = DeleteDeployment(ctlDep) /\ changed' = TRUE
    /\ UNCHANGED <<cppcVars, ppc, fresh, wakeup, hookVars, ctlRest, exObjs, event, pods,
                   cacheVars, queued, workVars, late, edits, faults>>

-----------------------------------------------------------------------------
\* The cluster: pods, roll-outs, garbage collection, the monitor

\* The API server calls the webhook, if it is configured and up.
AdmitPod(p) ==
    /\ pods[p] = "new"
    /\ \/ mwc # 0 /\ whSvc # 0 /\ whDep.replicas # "none" /\ pods' = [pods EXCEPT ![p] = "admitted"]
       \/ pods' = [pods EXCEPT ![p] = "free"]
    /\ UNCHANGED <<cppcVars, ppc, fresh, wakeup, hookVars, ctlObjs, exObjs, event, cacheVars,
                   changed, queued, workVars, late, bounds>>

StorePod(p) ==
    /\ pods[p] = "admitted"
    /\ pods' = [pods EXCEPT ![p] = "gated"]
    /\ UNCHANGED <<cppcVars, ppc, fresh, wakeup, hookVars, ctlObjs, exObjs, event, cacheVars,
                   changed, queued, workVars, late, bounds>>

\* The pod placement controller removes the gate.
ReleasePod(p) ==
    /\ pods[p] = "gated"
    /\ ctlDep.replicas # "none" /\ ctlRest # 0
    /\ pods' = [pods EXCEPT ![p] = "free"]
    /\ UNCHANGED <<cppcVars, ppc, fresh, wakeup, hookVars, ctlObjs, exObjs, event, cacheVars,
                   changed, queued, workVars, late, bounds>>

Up(d, e) == d.owner # 0 /\ d.replicas # "all" /\ \E n \in RollOuts \ {d.replicas} :
              e = [d EXCEPT !.replicas = n]

RollOut ==
    /\ \/ Up(whDep, whDep') /\ UNCHANGED <<ctlDep, exDep>>
       \/ Up(ctlDep, ctlDep') /\ UNCHANGED <<whDep, exDep>>
       \/ /\ exDep.owner # 0 /\ exDep.replicas = "none"
          /\ exDep' = [exDep EXCEPT !.replicas = "all"] /\ UNCHANGED <<whDep, ctlDep>>
    /\ changed' = TRUE
    /\ UNCHANGED <<cppcVars, ppc, fresh, wakeup, mwc, whSvc, ctlRest, ds, sa, event, pods,
                   cacheVars, queued, workVars, late, bounds>>

OperandsDown ==
    /\ Fault
    /\ \/ whDep.replicas # "none" /\ whDep' = [whDep EXCEPT !.replicas = "none"] /\ UNCHANGED ctlDep
       \/ ctlDep.replicas # "none" /\ ctlDep' = [ctlDep EXCEPT !.replicas = "none"] /\ UNCHANGED whDep
    /\ changed' = TRUE
    /\ UNCHANGED <<cppcVars, ppc, fresh, wakeup, mwc, whSvc, ctlRest, exObjs, event, pods,
                   cacheVars, queued, workVars, late, edits, removals>>

Orphan(owner) == owner # 0 /\ owner # cppc.uid

Collected(owner) == IF Orphan(owner) THEN {0, owner} ELSE {owner}
CollectedDeployment(d) == IF Orphan(d.owner) THEN {DeleteDeployment(d), d} ELSE {d}

\* Objects whose owner is gone are collected, in any order.
CollectGarbage ==
    /\ mwc' \in Collected(mwc)
    /\ whSvc' \in Collected(whSvc) /\ whDep' \in CollectedDeployment(whDep)
    /\ ctlRest' \in Collected(ctlRest) /\ ctlDep' \in CollectedDeployment(ctlDep)
    /\ ds' \in Collected(ds) /\ exDep' \in CollectedDeployment(exDep)
    /\ UNCHANGED sa
    /\ objects' # objects
    /\ changed' = TRUE
    /\ UNCHANGED <<cppcVars, ppc, fresh, wakeup, event, pods, cacheVars, queued, workVars,
                   late, bounds>>

\* OpenShift provides the pull secrets of the monitor's service account.
ProvisionServiceAccount ==
    /\ sa = "bare"
    /\ sa' = "ready" /\ changed' = TRUE
    /\ UNCHANGED <<cppcVars, ppc, fresh, wakeup, hookVars, ctlObjs, ds, exDep, event, pods,
                   cacheVars, queued, workVars, late, bounds>>

\* A daemon sends an event.  Its pod may outlive the DaemonSet, and the event be
\* stored, or given up, at any time after; it sends no new one, since the roles of the
\* daemon go with the DaemonSet.
DaemonReports ==
    /\ ds # 0 /\ event = "none"
    /\ event' = "sent"
    /\ UNCHANGED <<cppcVars, ppc, fresh, wakeup, hookVars, ctlObjs, exObjs, pods, cacheVars,
                   changed, queued, workVars, late, bounds>>

StoreEvent ==
    /\ event = "sent"
    /\ event' \in {"pending", "none"}
    /\ UNCHANGED <<cppcVars, ppc, fresh, wakeup, hookVars, ctlObjs, exObjs, pods, cacheVars,
                   changed, queued, workVars, late, bounds>>

HandlerReconciles ==
    /\ exDep.replicas # "none" /\ event = "pending"
    /\ event' \in {"none", "errored"}
    /\ UNCHANGED <<cppcVars, ppc, fresh, wakeup, hookVars, ctlObjs, exObjs, pods, cacheVars,
                   changed, queued, workVars, late, bounds>>

-----------------------------------------------------------------------------
\* The operator's informers

CPPCEvent ==
    /\ "cache" \notin fresh
    /\ cached' = cppc /\ fresh' = fresh \cup {"cache"}
    /\ queued' = (queued \/ wakeup) /\ wakeup' = FALSE
    /\ UNCHANGED <<cppcVars, ppc, hookVars, ctlObjs, exObjs, event, pods, ppcSeen, eventSeen,
                   seen, changed, workVars, late, bounds>>

PPCEvent ==
    /\ ppcSeen # (ppc = "stored")
    /\ ppcSeen' = (ppc = "stored") /\ queued' = TRUE
    /\ UNCHANGED <<cppcVars, ppc, fresh, wakeup, hookVars, ctlObjs, exObjs, event, pods, cached,
                   eventSeen, seen, changed, workVars, late, bounds>>

OwnedEvent ==
    /\ changed
    /\ changed' = FALSE /\ seen' = Live /\ queued' = TRUE
    /\ UNCHANGED <<cppcVars, ppc, fresh, wakeup, hookVars, ctlObjs, exObjs, event, pods, cached,
                   ppcSeen, eventSeen, workVars, late, bounds>>

\* The event as the API server lists it.
StoredEvent == IF event = "sent" THEN "none" ELSE event

ENoExecEventEvent ==
    /\ eventSeen \notin {"unlisted", StoredEvent}
    /\ eventSeen' = StoredEvent
    /\ UNCHANGED <<cppcVars, ppc, fresh, wakeup, hookVars, ctlObjs, exObjs, event, pods, cached,
                   ppcSeen, seen, changed, queued, workVars, late, bounds>>

OperatorRestart ==
    /\ Fault
    /\ Finish /\ queued' = TRUE
    /\ cached' = cppc /\ fresh' = {"cache"} /\ wakeup' = FALSE
    /\ ppcSeen' = (ppc = "stored") /\ eventSeen' = "unlisted" /\ seen' = Live /\ changed' = FALSE
    /\ UNCHANGED <<cppcVars, ppc, hookVars, ctlObjs, exObjs, event, pods, late, edits,
                   removals>>

-----------------------------------------------------------------------------
\* The operator's worker

\* getCacheWithAPIFallback: the copy in the cache; without one, the stored object.
Fetched == IF cached.uid # 0 THEN cached ELSE cppc
FetchedDeployment(copy, stored) == IF copy.owner # 0 THEN copy ELSE stored

\* Reconcile, up to its first call that may change something: it goes on with
\* the given step and copy of cppc.
Begin(step, copy) ==
    /\ pc = "idle" /\ queued
    /\ queued' = FALSE
    /\ pc' = step /\ w' = copy
    /\ fresh' = IF cached.uid = 0 \/ "cache" \in fresh THEN fresh \cup {"worker"} ELSE fresh
    /\ UNCHANGED <<cppcVars, ppc, objects, event, pods, cacheVars, wakeup, changed,
                   built, late, bounds>>

\* cppc is gone, or its deletion is complete.
ReconcileGone ==
    /\ \/ Fetched.uid = 0
       \/ Fetched.deleting /\ PodPlacementFinalizerName \notin Fetched.fins
    /\ pc = "idle" /\ queued
    /\ queued' = FALSE
    /\ UNCHANGED <<cppcVars, ppc, objects, event, pods, cacheVars, fresh, wakeup, changed,
                   workVars, late, bounds>>

ReconcileDeletion ==
    /\ Fetched.deleting /\ PodPlacementFinalizerName \in Fetched.fins
    /\ Begin(IF ExecFormatErrorFinalizerName \in Fetched.fins THEN "exDaemon" ELSE "delPPC",
             Fetched)

\* A mutant, for the model checker only: an object that is not found is taken for one.
notFoundIgnored == ~Fetched.deleting

\* Reconcile found cppc, and it is not in deletion.
Active == Fetched.uid # 0 /\ ~Fetched.deleting

AddPodPlacementFinalizer ==
    /\ Active /\ PodPlacementFinalizerName \notin Fetched.fins
    /\ Begin("update", [Fetched EXCEPT !.fins = @ \cup {PodPlacementFinalizerName}])

\* The finalizer follows the PodPlacementConfigs in the cache.
FollowPPCs ==
    /\ Active /\ PodPlacementFinalizerName \in Fetched.fins
    /\ ppcSeen # (CPPCNoPPCObjectFinalizer \in Fetched.fins)
    /\ Begin("update", [Fetched EXCEPT
                          !.fins = IF ppcSeen THEN @ \cup {CPPCNoPPCObjectFinalizer}
                                              ELSE @ \ {CPPCNoPPCObjectFinalizer}])

HasFinalizers ==
    /\ Active /\ PodPlacementFinalizerName \in Fetched.fins
    /\ ppcSeen = (CPPCNoPPCObjectFinalizer \in Fetched.fins)

AddExecFormatErrorFinalizer ==
    /\ HasFinalizers /\ Fetched.plugin /\ ExecFormatErrorFinalizerName \notin Fetched.fins
    /\ Begin("update", [Fetched EXCEPT !.fins = @ \cup {ExecFormatErrorFinalizerName}])

\* A mutant, for the model checker only: the monitor is deployed before its finalizer is stored.
finalizerNotRequired ==
    /\ HasFinalizers
    /\ Begin("dependents", Fetched)

ReconcileOperands ==
    /\ HasFinalizers
    /\ Fetched.plugin => ExecFormatErrorFinalizerName \in Fetched.fins
    /\ Begin(IF Fetched.plugin /\ seen.exDep.owner # 0 /\ ~seen.exDep.fin
             THEN "deployment" ELSE "dependents", Fetched)

IsCurrent == "worker" \in fresh /\ cppc.uid = w.uid

\* An update of the finalizers in the worker's copy of cppc, after which the
\* Reconcile returns or goes on with the answer.  The answer has the stored
\* status, which only the status subresource writes.
UpdateCPPC(step, fins, next) ==
    /\ pc = step
    /\ IF IsCurrent
       THEN /\ WriteCPPC([cppc EXCEPT !.fins = fins], IF next = "idle" THEN {} ELSE {"worker"})
            /\ IF next = "idle"
               THEN Finish
               ELSE /\ pc' = next
                    /\ w' = [w EXCEPT !.fins = fins, !.status = cppc.status]
                    /\ UNCHANGED built
            /\ UNCHANGED queued
       ELSE Requeue /\ UNCHANGED <<cppc, wakeup>>
    /\ UNCHANGED <<lastUID, ppc, objects, event, pods, cacheVars, changed, late, bounds>>

UpdateFinalizers == UpdateCPPC("update", w.fins, "idle")

\* A write of a Deployment succeeds if the copy it starts from is the stored one.
AddDeploymentFinalizer ==
    /\ pc = "deployment"
    /\ IF seen.exDep = exDep
       THEN exDep' = [exDep EXCEPT !.fin = TRUE] /\ Return
       ELSE Requeue /\ UNCHANGED exDep
    /\ Objects(<<hookVars, ctlObjs, ds, sa>>)
    /\ UNCHANGED <<cppcVars, wakeup, ppc, event, pods, cacheVars, late, bounds>>

isDeploymentAvailable(d) == d.replicas # "none"
isDeploymentUpToDate(d) == d.replicas = "all"

\* Build: the conditions that are stored, and the private fields that reconcile reads.
Build(available, upToDate, mwcFound, deprovisioning) ==
    LET progressing == (~upToDate \/ ~mwcFound) /\ ~deprovisioning
    IN  [status |-> [available |-> available /\ mwcFound, progressing |-> progressing,
                     deprovisioning |-> deprovisioning],
         built  |-> [canDeploy |-> available /\ ~deprovisioning, mwcFound |-> mwcFound,
                     progressing |-> progressing]]

\* dependentsStatusToClusterPodPlacementConfig: a controller in deletion is let
\* go, to be deployed again, and Build derives the status from the operands.
DependentsStatus ==
    /\ pc = "dependents"
    /\ ctlDep' = IF ~w.deleting /\ ctlDep.deleting THEN RemoveFinalizer(ctlDep) ELSE ctlDep
    /\ LET result == Build(isDeploymentAvailable(ctlDep) /\ isDeploymentAvailable(whDep),
                           isDeploymentUpToDate(ctlDep) /\ isDeploymentUpToDate(whDep),
                           mwc # 0, w.deleting)
       IN  w' = [w EXCEPT !.status = result.status] /\ built' = result.built
    /\ pc' = IF ~w.plugin /\ ExecFormatErrorFinalizerName \in w.fins THEN "exDaemon" ELSE "apply"
    /\ Objects(<<hookVars, ctlRest, exObjs>>)
    /\ UNCHANGED <<cppcVars, fresh, wakeup, ppc, event, pods, cacheVars, queued, late, bounds>>

\* What ApplyResource leaves of a Deployment: a new one, created with its
\* finalizer if it is built with one, or the old one with a new owner.
Applied(d, fin) ==
    IF d.owner = 0 THEN [NoDeployment EXCEPT !.owner = w.uid, !.fin = fin]
                   ELSE [d EXCEPT !.owner = w.uid]

\* applyService leaves the owner of a Service alone.
AppliedService(owner) == IF owner = 0 THEN w.uid ELSE owner

\* A mutant, for the model checker only: the configuration stays when the operands are down.
webhookKept(m) == IF built.canDeploy THEN w.uid ELSE m

AppliedWebhookConfiguration(m) ==
    CASE built.canDeploy -> w.uid
      [] ~built.canDeploy /\ built.mwcFound -> 0
      [] OTHER -> m

\* reconcile: the MutatingWebhookConfiguration is applied last, if the operands
\* could serve it, and removed otherwise; the DaemonSet waits for its service account.
Apply ==
    /\ pc = "apply"
    /\ LET deferred == w.plugin /\ seen.ds = 0 /\ seen.sa # "ready"
           todo == {"whSvc", "whDep", "ctlRest", "ctlDep", "mwc"}
                     \cup (IF w.plugin THEN {"sa", "exDep"} ELSE {})
                     \cup (IF w.plugin /\ ~deferred THEN {"ds"} ELSE {})
       IN \E failed \in SUBSET todo :
            LET done(o) == o \in todo \ failed
            IN  /\ Failing(todo, failed)
                /\ whSvc' = IF done("whSvc") THEN AppliedService(whSvc) ELSE whSvc
                /\ whDep' = IF done("whDep") THEN Applied(whDep, FALSE) ELSE whDep
                /\ ctlRest' = IF done("ctlRest") THEN w.uid ELSE ctlRest
                /\ ctlDep' = IF done("ctlDep") THEN Applied(ctlDep, TRUE) ELSE ctlDep
                /\ mwc' = IF done("mwc") THEN AppliedWebhookConfiguration(mwc) ELSE mwc
                /\ sa' = IF done("sa") /\ sa = "none" THEN "bare" ELSE sa
                /\ exDep' = IF done("exDep") THEN Applied(exDep, FALSE) ELSE exDep
                /\ ds' = IF done("ds") THEN w.uid ELSE ds
                /\ queued' = (queued \/ deferred
                               \/ failed \ (IF built.canDeploy THEN {} ELSE {"mwc"}) # {})
    /\ pc' = "status"
    /\ Objects(<<>>)
    /\ UNCHANGED <<cppcVars, fresh, wakeup, ppc, event, pods, cacheVars, w, built, late, edits,
                   removals>>

updateStatus ==
    /\ pc = "status"
    /\ IF IsCurrent
       THEN /\ WriteCPPC([cppc EXCEPT !.status = w.status], {})
            /\ queued' = (queued \/ built.progressing)
            /\ Finish
       ELSE Requeue /\ UNCHANGED <<cppc, wakeup>>
    /\ UNCHANGED <<lastUID, ppc, objects, event, pods, cacheVars, changed, late, bounds>>

-----------------------------------------------------------------------------
\* handleEnoexecDelete

\* The DaemonSet and its service account go first.
DeleteDaemon ==
    /\ pc = "exDaemon"
    /\ \E failed \in SUBSET {"ds", "sa"} :
         /\ Failing({"ds", "sa"}, failed)
         /\ ds' = IF "ds" \in failed THEN ds ELSE 0
         /\ sa' = IF "sa" \in failed THEN sa ELSE "none"
         /\ IF failed = {} THEN Goto("exDrain") ELSE Requeue
    /\ Objects(<<hookVars, ctlObjs, exDep>>)
    /\ UNCHANGED <<cppcVars, wakeup, ppc, event, pods, cacheVars, late, edits,
                   removals>>

\* The events that handleEnoexecDelete lists.  Its first list starts the informer and
\* waits until it is synced; later ones read what it has seen since.
Listed == IF eventSeen = "unlisted" THEN StoredEvent ELSE eventSeen

\* A mutant, for the model checker only: events in error are left to the handler, which ignores them.
erroredEventsBlock ==
    /\ pc = "exDrain"
    /\ IF seen.ds # 0 \/ ds # 0
       THEN Requeue /\ UNCHANGED eventSeen
       ELSE /\ eventSeen' = Listed
            /\ IF Listed # "none" THEN Requeue ELSE Goto("exDelete")
    /\ UNCHANGED <<cppcVars, wakeup, ppc, objects, changed, event, pods, cached, ppcSeen, seen,
                   late, bounds>>

\* Then the operator waits until it sees neither the DaemonSet nor an event that
\* the handler has yet to process; deleteErroredENoExecEvents removes the others.
DrainEvents ==
    /\ pc = "exDrain"
    /\ IF seen.ds # 0 \/ ds # 0
       THEN Requeue /\ UNCHANGED <<event, eventSeen>>
       ELSE /\ eventSeen' = Listed
            /\ event' = IF Listed = "errored" /\ event = "errored" THEN "none" ELSE event
            /\ IF Listed = "pending" THEN Requeue ELSE Goto("exDelete")
    /\ UNCHANGED <<cppcVars, wakeup, ppc, objects, changed, pods, cached, ppcSeen, seen, late,
                   bounds>>

\* The finalizer of the handler's Deployment goes, and then the Deployment.
DeleteHandler ==
    /\ pc = "exDelete"
    /\ LET copy == FetchedDeployment(seen.exDep, exDep)
           unlocked == IF copy.fin THEN RemoveFinalizer(exDep) ELSE exDep
       IN  \/ /\ copy.fin /\ copy # exDep
              /\ Requeue /\ UNCHANGED <<exDep, sa, faults>>
           \/ /\ copy.fin => copy = exDep
              /\ exDep' = DeleteDeployment(unlocked) /\ sa' = "none"
              /\ Goto("exUpdate") /\ UNCHANGED faults
           \/ /\ copy.fin => copy = exDep
              /\ exDep' = unlocked
              /\ Fault /\ Requeue /\ UNCHANGED sa
    /\ Objects(<<hookVars, ctlObjs, ds>>)
    /\ UNCHANGED <<cppcVars, wakeup, ppc, event, pods, cacheVars, late, edits, removals>>

RemoveExecFormatErrorFinalizer ==
    UpdateCPPC("exUpdate", w.fins \ {ExecFormatErrorFinalizerName},
               IF w.deleting THEN "delPPC" ELSE "apply")

-----------------------------------------------------------------------------
\* handleDelete

WaitForPPCs ==
    /\ pc = "delPPC"
    /\ \/ CPPCNoPPCObjectFinalizer \in w.fins /\ ppcSeen /\ Requeue
       \/ CPPCNoPPCObjectFinalizer \notin w.fins /\ Goto("delWebhook")
    /\ UNCHANGED <<cppcVars, wakeup, ppc, objects, changed, event, pods, cacheVars,
                   late, bounds>>

RemoveNoPPCFinalizer ==
    /\ CPPCNoPPCObjectFinalizer \in w.fins /\ ~ppcSeen
    /\ UpdateCPPC("delPPC", w.fins \ {CPPCNoPPCObjectFinalizer}, "idle")

\* A mutant, for the model checker only: the deletion goes on when a call failed.
deleteErrorsIgnored ==
    /\ pc = "delWebhook"
    /\ \E failed \in SUBSET {"mwc"} :
         /\ Failing({"mwc"}, failed)
         /\ mwc' = IF "mwc" \in failed THEN mwc ELSE 0
    /\ whSvc' = 0 /\ whDep' = DeleteDeployment(whDep)
    /\ Goto("listPods")
    /\ Objects(<<ctlObjs, exObjs>>)
    /\ UNCHANGED <<cppcVars, wakeup, ppc, event, pods, cacheVars, late, edits, removals>>

\* The webhook's objects go before the controller's.
DeleteWebhook ==
    /\ pc = "delWebhook"
    /\ LET todo == {"mwc", "whSvc", "whDep"}
       IN \E failed \in SUBSET todo :
            /\ Failing(todo, failed)
            /\ mwc' = IF "mwc" \in failed THEN mwc ELSE 0
            /\ whSvc' = IF "whSvc" \in failed THEN whSvc ELSE 0
            /\ whDep' = IF "whDep" \in failed THEN whDep ELSE DeleteDeployment(whDep)
            /\ IF failed = {} THEN Goto("listPods") ELSE Requeue
    /\ Objects(<<ctlObjs, exObjs>>)
    /\ UNCHANGED <<cppcVars, wakeup, ppc, event, pods, cacheVars, late, edits,
                   removals>>

\* A mutant, for the model checker only: only the Service is looked for.
podsNotListed ==
    /\ pc = "listPods"
    /\ IF whSvc # 0 THEN Requeue ELSE Goto("ctlFin")
    /\ late' = late \cup {p \in Pods : pods[p] = "admitted"}
    /\ UNCHANGED <<cppcVars, wakeup, ppc, objects, changed, event, pods, cacheVars, bounds>>

\* No Service of the webhook, and no gated pod among the stored ones.
CheckPods ==
    /\ pc = "listPods"
    /\ IF whSvc # 0 \/ \E p \in Pods : pods[p] = "gated"
       THEN Requeue /\ UNCHANGED late
       ELSE /\ late' = late \cup {p \in Pods : pods[p] = "admitted"}
            /\ Goto("ctlFin")
    /\ UNCHANGED <<cppcVars, wakeup, ppc, objects, changed, event, pods, cacheVars,
                   bounds>>

RemoveControllerFinalizer ==
    /\ pc = "ctlFin"
    /\ LET copy == FetchedDeployment(seen.ctlDep, ctlDep)
       IN  IF copy.fin /\ copy # ctlDep
           THEN Requeue /\ UNCHANGED ctlDep
           ELSE /\ ctlDep' = IF copy.fin THEN RemoveFinalizer(ctlDep) ELSE ctlDep
                /\ Goto("cppcFin")
    /\ Objects(<<hookVars, ctlRest, exObjs>>)
    /\ UNCHANGED <<cppcVars, wakeup, ppc, event, pods, cacheVars, late, bounds>>

RemovePodPlacementFinalizer ==
    UpdateCPPC("cppcFin", w.fins \ {PodPlacementFinalizerName}, "delRest")

DeleteControllerObjects ==
    /\ pc = "delRest"
    /\ \E failed \in SUBSET {"ctlDep", "ctlRest"} :
         /\ Failing({"ctlDep", "ctlRest"}, failed)
         /\ ctlDep' = IF "ctlDep" \in failed THEN ctlDep ELSE DeleteDeployment(ctlDep)
         /\ ctlRest' = IF "ctlRest" \in failed THEN ctlRest ELSE 0
         /\ IF failed = {} THEN Return ELSE Requeue
    /\ Objects(<<hookVars, exObjs>>)
    /\ UNCHANGED <<cppcVars, wakeup, ppc, event, pods, cacheVars, late, edits,
                   removals>>

\* Any other call of a step fails: the Reconcile ends in error, the one of the
\* operands with an update of the status.
CallFails ==
    /\ pc # "idle"
    /\ Fault
    /\ IF pc = "apply"
       THEN pc' = "status" /\ queued' = TRUE /\ UNCHANGED <<w, built, fresh>>
       ELSE Requeue
    /\ UNCHANGED <<cppcVars, wakeup, ppc, objects, changed, event, pods, cacheVars, late, edits,
                   removals>>

-----------------------------------------------------------------------------
Worker ==
    \/ ReconcileGone \/ ReconcileDeletion
    \/ AddPodPlacementFinalizer \/ FollowPPCs \/ AddExecFormatErrorFinalizer
    \/ ReconcileOperands
    \/ UpdateFinalizers \/ AddDeploymentFinalizer \/ DependentsStatus \/ Apply \/ updateStatus
    \/ DeleteDaemon \/ DrainEvents \/ DeleteHandler \/ RemoveExecFormatErrorFinalizer
    \/ WaitForPPCs \/ RemoveNoPPCFinalizer \/ DeleteWebhook \/ CheckPods
    \/ RemoveControllerFinalizer \/ RemovePodPlacementFinalizer \/ DeleteControllerObjects

Informers == CPPCEvent \/ PPCEvent \/ OwnedEvent \/ ENoExecEventEvent

Users ==
    \/ CreateCPPC \/ DeleteCPPC \/ ChangePlugin
    \/ CreatePPC \/ StorePPC \/ DeletePPC
    \/ DeleteController
    \/ \E p \in Pods : AdmitPod(p) \/ StorePod(p)

Cluster ==
    \/ \E p \in Pods : ReleasePod(p)
    \/ RollOut \/ CollectGarbage \/ ProvisionServiceAccount
    \/ DaemonReports \/ StoreEvent \/ HandlerReconciles

Faults == OperandsDown \/ OperatorRestart \/ CallFails

Next == Worker \/ Informers \/ Users \/ Cluster \/ Faults

Spec == Init /\ [][Next]_vars

\* The operator's worker and its watches make progress.
OperatorFairness ==
    /\ WF_vars(Worker)
    /\ WF_vars(CPPCEvent) /\ WF_vars(PPCEvent) /\ WF_vars(OwnedEvent) /\ WF_vars(ENoExecEventEvent)

\* So do the control plane and the operands.
ClusterFairness ==
    /\ \A p \in Pods : WF_vars(StorePod(p)) /\ WF_vars(ReleasePod(p))
    /\ WF_vars(StorePPC) /\ WF_vars(RollOut) /\ WF_vars(CollectGarbage)
    /\ WF_vars(ProvisionServiceAccount) /\ WF_vars(StoreEvent) /\ WF_vars(HandlerReconciles)

FairSpec == Spec /\ OperatorFairness /\ ClusterFairness
OperatorFairSpec == Spec /\ OperatorFairness

-----------------------------------------------------------------------------
\* The types of the variables.  The worker holds a copy of a CPPC exactly while
\* Reconcile runs, a fresh cache holds the stored one, and an object in deletion
\* still has a finalizer.
TypeOK ==
    /\ cppc \in CPPC /\ cached \in CPPC /\ w \in CPPC /\ lastUID \in Owner
    /\ (w.uid # 0) = (pc # "idle") /\ ("cache" \in fresh => cached = cppc)
    /\ cppc.deleting => cppc.fins # {}
    /\ ppc \in {"none", "admitted", "stored"} /\ ppcSeen \in BOOLEAN
    /\ mwc \in Owner /\ whSvc \in Owner /\ ctlRest \in Owner /\ ds \in Owner
    /\ whDep \in Deployment /\ ctlDep \in Deployment /\ exDep \in Deployment
    /\ \A d \in {whDep, ctlDep, exDep} : d.deleting => d.owner # 0 /\ d.fin
    /\ sa \in {"none", "bare", "ready"}
    /\ event \in {"none", "sent", "pending", "errored"}
    /\ eventSeen \in {"unlisted", "none", "pending", "errored"}
    /\ pods \in [Pods -> {"new", "admitted", "gated", "free"}]
    /\ seen \in [ctlDep : Deployment, exDep : Deployment, ds : Owner, sa : {"none", "bare", "ready"}]
    /\ fresh \subseteq {"cache", "worker"}
    /\ wakeup \in BOOLEAN /\ changed \in BOOLEAN /\ queued \in BOOLEAN
    /\ pc \in Steps /\ built \in Built /\ late \subseteq Pods
    /\ edits \in 0 .. MaxEdits /\ removals \in 0 .. MaxRemovals /\ faults \in 0 .. MaxFaults

\* The webhook configuration belongs to the CPPC that is stored, and that CPPC
\* still has the finalizer under which handleDelete removes it: pods are never
\* gated on behalf of a CPPC that is gone (clusterpodplacementconfig_controller.go:435-466
\* deletes it, 777-786 applies it, 194-206 and 523-531 add and remove the finalizer).
WebhookNeverOutlivesCPPC ==
    mwc # 0 => mwc = cppc.uid /\ PodPlacementFinalizerName \in cppc.fins

\* handleDelete removes the controller only after the gated pods: once the CPPC
\* is gone, a gated pod was still in admission when handleDelete listed the pods
\* (clusterpodplacementconfig_controller.go:467-500).
OnlyLatePodsAreOrphaned ==
    \A p \in Pods : pods[p] = "gated" /\ cppc.uid = 0 => p \in late

\* What the comment at clusterpodplacementconfig_controller.go:468-476 says of the
\* order of the deletion: no pod is left gated when the CPPC is gone.  It is refuted.
NoOrphanedPods ==
    \A p \in Pods : pods[p] = "gated" => cppc.uid # 0

\* The monitor never runs without the finalizer under which handleEnoexecDelete
\* removes it: without it there is neither a DaemonSet nor its service account
\* (clusterpodplacementconfig_controller.go:231-241 and 585-743).
MonitorIsRemoved ==
    ExecFormatErrorFinalizerName \notin cppc.fins => ds = 0 /\ sa = "none"

\* The handler's Deployment does not stay in deletion once nobody is left to
\* remove its finalizer (clusterpodplacementconfig_controller.go:661-690, and the
\* comment at 1123).  It is refuted.
HandlerIsNotStuck == exDep.deleting => ExecFormatErrorFinalizerName \in cppc.fins

\* While the cleanup waits for an event, the handler that is to process it is still
\* there, as the comment of handleEnoexecDelete says
\* (clusterpodplacementconfig_controller.go:653-655).
NoStrandedEvents ==
    pc = "exDrain" /\ seen.ds = 0 /\ ds = 0 /\ Listed = "pending" => exDep.owner # 0

\* The finalizer blocks the deletion of the CPPC while a PodPlacementConfig exists
\* (ai-docs/ARCHITECTURE.md:76, clusterpodplacementconfig_controller.go:394-433).
\* It is refuted.
NoPPCWithoutCPPC == ppc = "stored" => cppc.uid # 0

\* The conditions are updated throughout the deletion: when handleDelete removes
\* the webhook, the CPPC it works on reports that it is being deprovisioned
\* (the comment at clusterpodplacementconfig_controller.go:407).  It is refuted.
DeprovisioningIsReported ==
    pc = "delWebhook" /\ IsCurrent => cppc.status.deprovisioning

\* An event that no handler is left to process.
Stranded == event = "pending" /\ exDep.owner = 0

\* A pod that waits for a controller that is gone, while handleDelete waits for it.
Deadlocked == cppc.deleting /\ ctlDep.owner = 0 /\ \E p \in Pods : pods[p] = "gated"

\* A deletion of a CPPC that never ends is in the way of a PodPlacementConfig, a
\* stranded event or a gated pod without a controller, again and again: every other
\* early return of handleDelete is followed by another reconcile
\* (clusterpodplacementconfig_controller.go:394-583).
DeletionCompletes ==
    \A u \in 1 .. MaxUID :
        <>[](cppc.uid = u /\ cppc.deleting) => []<>(ppc = "stored" \/ Stranded \/ Deadlocked)

\* Reconcile never goes to sleep on an unfinished job: a CPPC that stays has its
\* finalizers, its operands and its condition Available, although the early returns
\* after an update rely on its event (clusterpodplacementconfig_controller.go:194-285
\* and the predicate at 1149-1172).  A stranded event is in the way of the cleanup here too.
OperandsConverge ==
    cppc.uid # 0 ~>
        \/ cppc.uid = 0 \/ cppc.deleting \/ Stranded
        \/ /\ cppc.status.available /\ ~cppc.status.progressing
           /\ PodPlacementFinalizerName \in cppc.fins
           /\ (CPPCNoPPCObjectFinalizer \in cppc.fins) = (ppc = "stored")
           /\ (ExecFormatErrorFinalizerName \in cppc.fins) = cppc.plugin
           /\ IF cppc.plugin THEN ds # 0 /\ exDep.owner # 0 /\ exDep.fin
                             ELSE ds = 0 /\ (exDep.owner = 0 \/ exDep.deleting)

\* The early returns of Reconcile that come before the webhook configuration is seen to:
\* a PodPlacementConfig in the way of the deletion, an event in the way of the cleanup.
Waiting ==
    \/ cppc.deleting /\ ppc = "stored"
    \/ (cppc.deleting \/ ~cppc.plugin) /\ ExecFormatErrorFinalizerName \in cppc.fins
       /\ event = "pending"

\* If the controller stays down, the operator removes the webhook configuration, so
\* that pods are no longer gated, unless it waits for something else again and again
\* (clusterpodplacementconfig_controller.go:777-786; 412-424 and 653-659 wait).
WebhookFollowsController ==
    <>[](ctlDep.replicas = "none") => <>[](mwc = 0) \/ []<>Waiting

\* The same without the exception.  It is refuted: see Waiting.
WebhookAlwaysFollowsController == <>[](ctlDep.replicas = "none") => <>[](mwc = 0)

\* A pod that stays gated was still in admission when handleDelete listed the pods, or
\* its controller was gone before the deletion could see to it: until then, a controller
\* that users remove is deployed again, and the gated pods are released
\* (clusterpodplacementconfig_controller.go:363-376 and 467-522).
GatedPodsAreReleased ==
    \A p \in Pods : <>[](pods[p] = "gated") => <>(p \in late) \/ <>[]Deadlocked

\* The deletion is ordered so that the controller releases the pods before it goes
\* (ai-docs/ARCHITECTURE.md:197).  It is refuted: see Deadlocked.
EveryGatedPodIsReleased ==
    \A p \in Pods : pods[p] = "gated" ~> pods[p] = "free" \/ p \in late

=============================================================================
