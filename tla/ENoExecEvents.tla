--------------------------- MODULE ENoExecEvents ---------------------------
(***************************************************************************)
(* The ENoExecEvent objects, from the daemon that creates them to the      *)
(* handler that labels the pod and deletes them.                           *)
(*                                                                         *)
(* All events are about pods of one name, of which users run one after the *)
(* other: the i-th runs on the node placed[i], and events carry the name   *)
(* and the node only.  stored[e] is the object of the event e in the API   *)
(* server, seen[e] the handler's cached copy, and fresh[e] the set of the  *)
(* copies that hold its current version: "cache", and the ones the daemon  *)
(* and the worker of the handler have in hand.  The updates of other       *)
(* copies are conflicts.                                                   *)
(*                                                                         *)
(* markAsError is an API call of its own in the code; here it is part of   *)
(* the step of the call whose failure it records, which it commutes with.  *)
(* An outage that makes the call fail may make the mark fail too.          *)
(***************************************************************************)
EXTENDS Naturals, Sequences, FiniteSets

CONSTANTS
    Events,
    Nodes,
    MaxPods,     \* bound: pods of the name, one after the other
    Attempts,    \* steps of retry.DefaultRetry
    MaxEdits,    \* bound: changes of the pod and of the nodes
    MaxFaults    \* bound: failed API calls, lost answers and restarts

ASSUME ENoExecAssumption ==
    /\ Nodes # {}
    /\ MaxPods \in Nat \ {0} /\ Attempts \in Nat \ {0} /\ MaxEdits \in Nat /\ MaxFaults \in Nat

ErrorReason == {"none", "PodNotFound", "NodeNotFound", "Reconciliation"}

\* An ENoExecEvent: whether its status names the pod, and its error label.
ENoExecEvent == [there : BOOLEAN, status : BOOLEAN, err : ErrorReason]
Absent == [there |-> FALSE, status |-> FALSE, err |-> "none"]

VARIABLES
    placed, up,    \* the pods of the name, and whether the last one exists
    labelled,      \* those with the label that reports the error
    nodes,         \* the nodes that exist
    failed,        \* the pod whose exec failed; 0 before it does
    daemon, tries, \* where processEvent is, and its conflicts
    stored, fresh, seen,
    fate,          \* who deleted the event
    queued, pc,    \* handler: work queue, and next call of the reconcile
    podFresh,      \* reconciles whose copy of the pod is current
    counted,       \* metrics.EnoexecCounter, by event
    cleaning,      \* the operator removes the monitor
    edits, faults

podVars == <<placed, up, labelled, nodes>>
daemonVars == <<failed, daemon, tries>>
eventVars == <<stored, fresh, seen, fate>>
handlerVars == <<queued, pc, podFresh, counted>>
vars == <<podVars, daemonVars, eventVars, handlerVars, cleaning, edits, faults>>

Init ==
    /\ placed \in {<<n>> : n \in Nodes} /\ up = TRUE /\ labelled = {} /\ nodes = Nodes
    /\ failed = [e \in Events |-> 0]
    /\ daemon = [e \in Events |-> "idle"] /\ tries = [e \in Events |-> 0]
    /\ stored = [e \in Events |-> Absent] /\ seen = stored
    /\ fresh = [e \in Events |-> {"cache"}]
    /\ fate = [e \in Events |-> "none"]
    /\ queued = [e \in Events |-> FALSE] /\ pc = [e \in Events |-> "idle"]
    /\ podFresh = {}
    /\ counted = [e \in Events |-> 0]
    /\ cleaning = FALSE
    /\ edits = 0 /\ faults = 0

Fault == faults < MaxFaults /\ faults' = faults + 1
Edit == edits < MaxEdits /\ edits' = edits + 1

\* An event names the pod that failed, and its node.
NodeOf(e) == placed[failed[e]]

\* A write of an event, after which only the given copies are current.
Write(e, new, holders) ==
    stored' = [stored EXCEPT ![e] = new] /\ fresh' = [fresh EXCEPT ![e] = holders]

Delete(e, who) ==
    /\ Write(e, Absent, {})
    /\ fate' = [fate EXCEPT ![e] = who]

-----------------------------------------------------------------------------
\* Pods and nodes

DeletePod ==
    /\ up /\ Edit
    /\ up' = FALSE /\ podFresh' = {}
    /\ UNCHANGED <<placed, labelled, nodes, daemonVars, eventVars, queued, pc, counted, cleaning,
                   faults>>

CreatePod ==
    /\ ~up /\ Len(placed) < MaxPods
    /\ \E n \in nodes : placed' = Append(placed, n)
    /\ up' = TRUE
    /\ UNCHANGED <<labelled, nodes, daemonVars, eventVars, handlerVars, cleaning, edits, faults>>

ChangePod ==
    /\ up /\ podFresh # {} /\ Edit
    /\ podFresh' = {}
    /\ UNCHANGED <<podVars, daemonVars, eventVars, queued, pc, counted, cleaning, faults>>

RemoveNode ==
    /\ Edit
    /\ \E n \in nodes : nodes' = nodes \ {n}
    /\ UNCHANGED <<placed, up, labelled, daemonVars, eventVars, handlerVars, cleaning, faults>>

-----------------------------------------------------------------------------
\* The daemon: processEvent

\* processEvent goes on, leaving the objects alone.
DaemonGoto(e, step) ==
    /\ daemon' = [daemon EXCEPT ![e] = step]
    /\ UNCHANGED <<podVars, handlerVars, seen, cleaning, edits>>

Detect(e) ==
    /\ daemon[e] = "idle" /\ up
    /\ failed' = [failed EXCEPT ![e] = Len(placed)]
    /\ DaemonGoto(e, "create")
    /\ UNCHANGED <<tries, stored, fresh, fate, faults>>

\* The limiter does not let the event through in time, or the call fails.
Drop(e) ==
    /\ daemon[e] = "create"
    /\ DaemonGoto(e, "dropped")
    /\ UNCHANGED <<failed, tries, stored, fresh, fate, faults>>

\* Create clears the status; if its answer is lost, processEvent gives up.
Create(e) ==
    /\ daemon[e] = "create"
    /\ Write(e, [Absent EXCEPT !.there = TRUE], {"daemon"})
    /\ \/ DaemonGoto(e, "update") /\ UNCHANGED faults
       \/ DaemonGoto(e, "dropped") /\ Fault
    /\ UNCHANGED <<failed, tries, fate>>

UpdateStatus(e) ==
    /\ daemon[e] = "update"
    /\ "daemon" \in fresh[e] /\ stored[e].there
    /\ Write(e, [stored[e] EXCEPT !.status = TRUE], {})
    /\ \/ DaemonGoto(e, "returned") /\ UNCHANGED faults
       \/ DaemonGoto(e, "rollback") /\ Fault
    /\ UNCHANGED <<failed, tries, fate>>

\* RetryOnConflict tries again; any other error, and the last conflict, end it.
UpdateFails(e) ==
    /\ daemon[e] = "update"
    /\ LET conflict == stored[e].there /\ "daemon" \notin fresh[e]
       IN  \/ /\ conflict /\ tries[e] + 1 < Attempts
              /\ tries' = [tries EXCEPT ![e] = @ + 1]
              /\ DaemonGoto(e, "get") /\ UNCHANGED faults
           \/ /\ conflict => tries[e] + 1 = Attempts
              /\ IF stored[e].there /\ ~conflict THEN Fault ELSE UNCHANGED faults
              /\ DaemonGoto(e, "rollback") /\ UNCHANGED tries
    /\ UNCHANGED <<failed, stored, fresh, fate>>

\* A mutant, for the model checker only: the retry starts from the same copy.
getSkipped(e) ==
    /\ daemon[e] = "get"
    /\ DaemonGoto(e, "update") /\ UNCHANGED <<fresh, faults>>
    /\ UNCHANGED <<failed, tries, stored, fate>>

Get(e) ==
    /\ daemon[e] = "get"
    /\ \/ /\ stored[e].there
          /\ fresh' = [fresh EXCEPT ![e] = @ \cup {"daemon"}]
          /\ DaemonGoto(e, "update") /\ UNCHANGED faults
       \/ /\ IF stored[e].there THEN Fault ELSE UNCHANGED faults
          /\ DaemonGoto(e, "rollback") /\ UNCHANGED fresh
    /\ UNCHANGED <<failed, tries, stored, fate>>

rollbackFn(e) ==
    /\ daemon[e] = "rollback"
    /\ \/ stored[e].there /\ Delete(e, "daemon") /\ UNCHANGED faults
       \/ ~stored[e].there /\ UNCHANGED <<stored, fresh, fate, faults>>
       \/ Fault /\ UNCHANGED <<stored, fresh, fate>>
    /\ DaemonGoto(e, "failed")
    /\ UNCHANGED <<failed, tries>>

\* The context of the daemon is cancelled, or the daemon killed, after Create: the
\* call in progress fails, and so does the rollback, which uses the same context.
Shutdown(e) ==
    /\ daemon[e] \in {"update", "get", "rollback"}
    /\ Fault
    /\ DaemonGoto(e, "failed")
    /\ UNCHANGED <<failed, tries, stored, fresh, fate>>

-----------------------------------------------------------------------------
\* The handler

HandlerEvent(e) ==
    /\ "cache" \notin fresh[e]
    /\ seen' = [seen EXCEPT ![e] = stored[e]]
    /\ fresh' = [fresh EXCEPT ![e] = @ \cup {"cache"}]
    /\ queued' = [queued EXCEPT ![e] = TRUE]
    /\ UNCHANGED <<podVars, daemonVars, stored, fate, pc, podFresh, counted, cleaning, edits,
                   faults>>

HandlerRestart ==
    /\ Fault
    /\ seen' = stored /\ fresh' = [e \in Events |-> {"cache"} \cup (fresh[e] \cap {"daemon"})]
    /\ queued' = [e \in Events |-> stored[e].there] /\ pc' = [e \in Events |-> "idle"]
    /\ podFresh' = {}
    /\ UNCHANGED <<podVars, daemonVars, stored, fate, counted, cleaning, edits>>

\* A mutant, for the model checker only: the label is written whatever is stored.
markStale(e, holder, reason) ==
    Write(e, [stored[e] EXCEPT !.err = reason], {holder} \ {"cache"})

\* markAsError: the copy in hand, if it is still current, gets the label.
markAsError(e, holder, reason) ==
    IF holder \in fresh[e] /\ stored[e].there /\ stored[e].err # reason
    THEN Write(e, [stored[e] EXCEPT !.err = reason], {holder} \ {"cache"})
    ELSE UNCHANGED <<stored, fresh>>

\* The reconcile goes on with another call.
Goto(e, step) == pc' = [pc EXCEPT ![e] = step] /\ UNCHANGED <<queued, counted>>

Return(e, requeue) == pc' = [pc EXCEPT ![e] = "idle"] /\ queued' = [queued EXCEPT ![e] = @ \/ requeue]

Forget(e) == podFresh' = podFresh \ {e}

\* A mark that fails, before or after the label is stored, is only logged.
Mark(e, holder, reason) ==
    \/ markAsError(e, holder, reason) /\ UNCHANGED faults
    \/ Fault /\ UNCHANGED <<stored, fresh>>
    \/ /\ holder \in fresh[e] /\ stored[e].there /\ stored[e].err # reason
       /\ Fault /\ Write(e, [stored[e] EXCEPT !.err = reason], {})

\* An error: the event is marked and the key is queued again.  reconcile has
\* marked it with another reason before, so that it does change; Delete has not.
Fail(e) ==
    /\ IF pc[e] = "delete" \/ "worker" \notin fresh[e] \/ ~stored[e].there
       THEN markAsError(e, "worker", "Reconciliation")
       ELSE Write(e, [stored[e] EXCEPT !.err = "Reconciliation"], {})
    /\ Return(e, TRUE)

\* The same if a mark, or both, fail.
ReasonFor(step) ==
    CASE step \in {"pod", "label"} -> "PodNotFound"
      [] step = "node" -> "NodeNotFound"
      [] OTHER -> "Reconciliation"

FailUnmarked(e) ==
    /\ \/ UNCHANGED <<stored, fresh>>
       \/ \E reason \in {ReasonFor(pc[e]), "Reconciliation"} : markAsError(e, "worker", reason)
    /\ Return(e, TRUE)

\* Reconcile: the event is gone, or has no pod name yet, which marks it.
ReconcileIncomplete(e) ==
    /\ pc[e] = "idle" /\ queued[e]
    /\ ~seen[e].there \/ ~seen[e].status
    /\ queued' = [queued EXCEPT ![e] = FALSE]
    /\ IF seen[e].there THEN Mark(e, "cache", "PodNotFound") ELSE UNCHANGED <<stored, fresh, faults>>
    /\ UNCHANGED <<podVars, daemonVars, seen, fate, pc, podFresh, counted, cleaning, edits>>

Reconcile(e) ==
    /\ pc[e] = "idle" /\ queued[e]
    /\ seen[e].there /\ seen[e].status
    /\ queued' = [queued EXCEPT ![e] = FALSE]
    /\ pc' = [pc EXCEPT ![e] = "pod"]
    /\ fresh' = [fresh EXCEPT ![e] = IF "cache" \in @ THEN @ \cup {"worker"} ELSE @ \ {"worker"}]
    /\ UNCHANGED <<podVars, daemonVars, stored, seen, fate, podFresh, counted, cleaning, edits,
                   faults>>

\* A mutant, for the model checker only: the node of the pod is not compared.
nodeNotCompared(e) ==
    /\ pc[e] = "pod"
    /\ IF ~up
       THEN markAsError(e, "worker", "PodNotFound") /\ Goto(e, "delete") /\ UNCHANGED podFresh
       ELSE Goto(e, "node") /\ podFresh' = podFresh \cup {e} /\ UNCHANGED <<stored, fresh>>
    /\ UNCHANGED <<podVars, daemonVars, seen, fate, cleaning, edits, faults>>

\* The pod is gone, or on another node than the event: the event is dropped.
GetPod(e) ==
    /\ pc[e] = "pod"
    /\ \/ /\ ~up
          /\ Mark(e, "worker", "PodNotFound") /\ Goto(e, "delete") /\ UNCHANGED podFresh
       \/ /\ up /\ placed[Len(placed)] # NodeOf(e)
          /\ Mark(e, "worker", "NodeNotFound") /\ Goto(e, "delete") /\ UNCHANGED podFresh
       \/ /\ up /\ placed[Len(placed)] = NodeOf(e)
          /\ Goto(e, "node") /\ podFresh' = podFresh \cup {e} /\ UNCHANGED <<stored, fresh, faults>>
    /\ UNCHANGED <<podVars, daemonVars, seen, fate, cleaning, edits>>

GetNode(e) ==
    /\ pc[e] = "node"
    /\ IF NodeOf(e) \in nodes
       THEN Goto(e, "label") /\ UNCHANGED <<stored, fresh, faults>>
       ELSE Mark(e, "worker", "NodeNotFound") /\ Goto(e, "delete")
    /\ UNCHANGED <<podVars, daemonVars, seen, fate, podFresh, cleaning, edits>>

\* The update of the pod with the label; one that has it already does not change.
Label(e) ==
    /\ up /\ e \in podFresh
    /\ labelled' = labelled \cup {Len(placed)}
    /\ podFresh' = IF Len(placed) \in labelled THEN podFresh \ {e} ELSE {}

\* A mutant, for the model checker only: every refusal is taken for a deleted pod.
conflictIgnored(e) ==
    /\ pc[e] = "label"
    /\ Label(e) \/ ((~up \/ e \notin podFresh) /\ UNCHANGED <<labelled, podFresh>>)
    /\ Goto(e, "delete")
    /\ UNCHANGED <<placed, up, nodes, daemonVars, stored, fresh, seen, fate, cleaning, edits, faults>>

LabelPod(e) ==
    /\ pc[e] = "label"
    /\ \/ Label(e) /\ Goto(e, "delete") /\ UNCHANGED <<stored, fresh, faults>>
       \/ /\ ~up
          /\ Mark(e, "worker", "PodNotFound") /\ Goto(e, "delete")
          /\ UNCHANGED <<labelled, podFresh>>
       \/ /\ up /\ e \notin podFresh
          /\ (Fail(e) /\ UNCHANGED faults) \/ (FailUnmarked(e) /\ Fault)
          /\ Forget(e) /\ UNCHANGED <<labelled, counted>>
    /\ UNCHANGED <<placed, up, nodes, daemonVars, seen, fate, cleaning, edits>>

\* A mutant, for the model checker only: an event that is gone counts too.
goneCounts(e) ==
    /\ pc[e] = "delete"
    /\ IF stored[e].there THEN Delete(e, "handler") ELSE UNCHANGED <<stored, fresh, fate>>
    /\ counted' = [counted EXCEPT ![e] = @ + 1]
    /\ Return(e, FALSE) /\ Forget(e)
    /\ UNCHANGED <<podVars, daemonVars, seen, cleaning, edits, faults>>

DeleteEvent(e) ==
    /\ pc[e] = "delete"
    /\ IF stored[e].there
       THEN Delete(e, "handler") /\ counted' = [counted EXCEPT ![e] = @ + 1]
       ELSE UNCHANGED <<stored, fresh, fate, counted>>
    /\ Return(e, FALSE) /\ Forget(e)
    /\ UNCHANGED <<podVars, daemonVars, seen, cleaning, edits, faults>>

\* A mutant, for the model checker only: the error of the call is not returned.
errorSwallowed(e) ==
    /\ pc[e] # "idle" /\ Fault
    /\ markAsError(e, "worker", "Reconciliation") /\ Return(e, FALSE) /\ Forget(e)
    /\ UNCHANGED <<podVars, daemonVars, seen, fate, counted, cleaning, edits>>

\* Any call of the reconcile fails, before or after it had its effect.
CallFails(e) ==
    /\ pc[e] # "idle" /\ Fault
    /\ \/ (Fail(e) \/ FailUnmarked(e)) /\ Forget(e) /\ UNCHANGED <<labelled, fate>>
       \/ pc[e] = "label" /\ (Fail(e) \/ FailUnmarked(e)) /\ Label(e) /\ UNCHANGED fate
       \/ /\ pc[e] = "delete" /\ stored[e].there
          /\ Delete(e, "handler") /\ Return(e, TRUE) /\ Forget(e) /\ UNCHANGED labelled
    /\ UNCHANGED <<placed, up, nodes, daemonVars, seen, counted, cleaning, edits>>

-----------------------------------------------------------------------------
\* The operator removes the monitor, and the events in error with it.

Disable ==
    /\ ~cleaning
    /\ cleaning' = TRUE
    /\ UNCHANGED <<podVars, daemonVars, eventVars, handlerVars, edits, faults>>

deleteErroredENoExecEvents(e) ==
    /\ cleaning /\ stored[e].there /\ stored[e].err # "none"
    /\ Delete(e, "operator")
    /\ UNCHANGED <<podVars, daemonVars, seen, handlerVars, cleaning, edits, faults>>

-----------------------------------------------------------------------------
Users == DeletePod \/ CreatePod \/ ChangePod \/ RemoveNode
ProcessEvent(e) ==
    Create(e) \/ UpdateStatus(e) \/ UpdateFails(e) \/ Get(e) \/ rollbackFn(e)
Handler(e) ==
    ReconcileIncomplete(e) \/ Reconcile(e) \/ GetPod(e) \/ GetNode(e) \/ LabelPod(e) \/ DeleteEvent(e)

Next ==
    \/ Users \/ HandlerRestart \/ Disable
    \/ \E e \in Events : \/ Detect(e) \/ Drop(e) \/ ProcessEvent(e) \/ Shutdown(e)
                         \/ HandlerEvent(e) \/ Handler(e) \/ CallFails(e)
                         \/ deleteErroredENoExecEvents(e)

Spec == Init /\ [][Next]_vars

\* The watch of the handler delivers, and its queue is served.
FairSpec == Spec /\ \A e \in Events : WF_vars(HandlerEvent(e)) /\ WF_vars(Handler(e))

-----------------------------------------------------------------------------
\* The types of the variables; a current cache agrees with the API server, and
\* only an event that is in hand or stored has a status.
TypeOK ==
    /\ placed \in Seq(Nodes) /\ Len(placed) \in 1 .. MaxPods /\ up \in BOOLEAN
    /\ labelled \subseteq DOMAIN placed /\ nodes \subseteq Nodes
    /\ failed \in [Events -> 0 .. Len(placed)]
    /\ daemon \in [Events -> {"idle", "create", "update", "get", "rollback", "returned", "dropped",
                           "failed"}]
    /\ tries \in [Events -> 0 .. Attempts - 1]
    /\ stored \in [Events -> ENoExecEvent] /\ seen \in [Events -> ENoExecEvent]
    /\ fresh \in [Events -> SUBSET {"cache", "daemon", "worker"}]
    /\ \A e \in Events : "cache" \in fresh[e] => seen[e] = stored[e]
    /\ \A e \in Events : ~stored[e].there => stored[e] = Absent
    /\ fate \in [Events -> {"none", "daemon", "handler", "operator"}]
    /\ queued \in [Events -> BOOLEAN]
    /\ pc \in [Events -> {"idle", "pod", "node", "label", "delete"}]
    /\ podFresh \subseteq {e \in Events : pc[e] # "idle"}
    /\ counted \in [Events -> Nat] /\ cleaning \in BOOLEAN
    /\ edits \in 0 .. MaxEdits /\ faults \in 0 .. MaxFaults

\* The label is only put on pods of the node that reported the error: a later
\* pod of the same name on another node is left alone (reconcile,
\* enoexecevent_controller.go:131-138, and the versions of the update).
OnlyPodsOfTheNode ==
    \A i \in labelled : \E e \in Events : failed[e] \in 1 .. i /\ NodeOf(e) = placed[i]

\* The handler deletes an event only when the pod is labelled, or can no longer
\* be: it is gone, was replaced, or its node is gone (Reconcile,
\* enoexecevent_controller.go:96-108).
HandledForAReason ==
    \A e \in Events : fate[e] = "handler" =>
        \/ failed[e] \in labelled
        \/ failed[e] < Len(placed) \/ ~up
        \/ NodeOf(e) \notin nodes

\* No event is counted twice, however often it is reconciled: from stale copies,
\* after lost answers or restarts (enoexecevent_controller.go:99-107).
CountedOnce == \A e \in Events : counted[e] <= 1 /\ (counted[e] = 1 => fate[e] = "handler")

\* The handler marks an event that still waits for its status, which is a
\* conflict for the daemon; that happens at most once, so that the retries of
\* the daemon are never used up (k8s_enoexecevent.go:161-172).
OneConflictAtMost == \A e \in Events : tries[e] <= 1

\* Every event with a status is deleted in the end, after whatever errors
\* (enoexecevent_controller.go:97-113).
EventsAreHandled == \A e \in Events : stored[e].status ~> ~stored[e].there

\* Commented: the rollback is there "to avoid leaving an orphan that the handler
\* controller will immediately mark as errored" (k8s_enoexecevent.go:149-150).  It
\* is refuted: the rollback uses the context whose cancellation made the update fail.
NoOrphanEvents ==
    \A e \in Events : daemon[e] = "failed" => ~stored[e].there

\* Documented: the counter is the "total number of exec format error detected and
\* reported" (docs/metrics.md:37).  It is refuted: events of pods that are gone count.
CountedIsReported == \A e \in Events : counted[e] > 0 => failed[e] \in labelled

=============================================================================
