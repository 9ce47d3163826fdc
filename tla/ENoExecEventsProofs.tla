------------------------ MODULE ENoExecEventsProofs ------------------------
(***************************************************************************)
(* Proofs about ENoExecEvents for any number of events, nodes, pods,       *)
(* changes and faults.                                                     *)
(***************************************************************************)
EXTENDS ENoExecEvents, TLAPS

DaemonSteps == {"idle", "create", "update", "get", "rollback", "returned", "dropped", "failed"}
Deleters == {"none", "daemon", "handler", "operator"}
Calls == {"idle", "pod", "node", "label", "delete"}
Copies == {"cache", "daemon", "worker"}

(***************************************************************************)
(* The types, in groups.                                                   *)
(***************************************************************************)

PodTypes ==
    /\ placed \in Seq(Nodes) /\ Len(placed) \in 1 .. MaxPods
    /\ labelled \subseteq 1 .. Len(placed) /\ nodes \subseteq Nodes
    /\ failed \in [Events -> 0 .. Len(placed)]

StepTypes ==
    /\ daemon \in [Events -> DaemonSteps] /\ tries \in [Events -> 0 .. Attempts - 1]
    /\ fate \in [Events -> Deleters] /\ pc \in [Events -> Calls]
    /\ counted \in [Events -> Nat]
    /\ edits \in 0 .. MaxEdits /\ faults \in 0 .. MaxFaults

FlagTypes == up \in BOOLEAN /\ cleaning \in BOOLEAN /\ queued \in [Events -> BOOLEAN]

ObjectTypes ==
    /\ stored \in [Events -> ENoExecEvent] /\ seen \in [Events -> ENoExecEvent]
    /\ fresh \in [Events -> SUBSET Copies]
    /\ \A e \in Events : "cache" \in fresh[e] => seen[e] = stored[e]
    /\ \A e \in Events : ~stored[e].there => stored[e] = Absent

CopyTypes == podFresh \subseteq {e \in Events : pc[e] # "idle"}

Types == PodTypes /\ StepTypes /\ FlagTypes /\ ObjectTypes /\ CopyTypes

LEMMA TypesOK == Types => TypeOK
<1>1. SUFFICES ASSUME Types
               PROVE  TypeOK
  OBVIOUS
<1>2. labelled \subseteq DOMAIN placed
  BY <1>1 DEF Types, PodTypes
<1> QED
  BY <1>1, <1>2, Zenon DEF Types, PodTypes, StepTypes, FlagTypes, ObjectTypes, CopyTypes, TypeOK,
     DaemonSteps, Deleters, Calls, Copies

-----------------------------------------------------------------------------
\* Pods, and the pod that failed.
LEMMA PodTypesStep ==
  ASSUME Types, [Next]_vars
  PROVE  PodTypes'
<1> USE DEF PodTypes
<1>1. PodTypes
  BY DEF Types
<1>2. ASSUME UNCHANGED <<placed, labelled, failed>>, nodes' \subseteq nodes
      PROVE  PodTypes'
  BY <1>1, <1>2
<1>3. ASSUME CreatePod
      PROVE  PodTypes'
  <2>1. PICK n \in nodes : placed' = Append(placed, n)
    BY <1>3 DEF CreatePod
  <2>2. placed' \in Seq(Nodes) /\ Len(placed') = Len(placed) + 1
    BY <1>1, <2>1
  <2>3. Len(placed) < MaxPods /\ UNCHANGED <<labelled, nodes, failed>>
    BY <1>3 DEF CreatePod, daemonVars
  <2> QED
    BY <1>1, <2>2, <2>3, ENoExecAssumption
<1>4. ASSUME Users
      PROVE  PodTypes'
  BY <1>1, <1>2, <1>3, <1>4 DEF Users, DeletePod, ChangePod, RemoveNode, daemonVars, podVars
<1>5. ASSUME NEW e \in Events, Detect(e)
      PROVE  PodTypes'
  BY <1>1, <1>5 DEF Detect, DaemonGoto, podVars
<1>6. ASSUME UNCHANGED <<placed, failed>>, UNCHANGED nodes,
             labelled' \subseteq labelled \cup {Len(placed)}
      PROVE  PodTypes'
  BY <1>1, <1>6
<1>7. ASSUME NEW e \in Events,
             \/ Drop(e) \/ ProcessEvent(e) \/ Shutdown(e)
             \/ HandlerEvent(e) \/ ReconcileIncomplete(e) \/ Reconcile(e) \/ GetPod(e) \/ GetNode(e)
             \/ DeleteEvent(e) \/ deleteErroredENoExecEvents(e)
      PROVE  PodTypes'
  BY <1>2, <1>7, Zenon DEF Drop, ProcessEvent, Shutdown, HandlerEvent, ReconcileIncomplete, Reconcile,
     GetPod, GetNode, DeleteEvent, deleteErroredENoExecEvents, Create, UpdateStatus, UpdateFails,
     Get, rollbackFn, DaemonGoto, podVars, daemonVars
<1>8. ASSUME NEW e \in Events, LabelPod(e) \/ CallFails(e)
      PROVE  PodTypes'
  BY <1>6, <1>8, Zenon DEF LabelPod, CallFails, Label, daemonVars
<1>9. ASSUME HandlerRestart \/ Disable \/ UNCHANGED vars
      PROVE  PodTypes'
  BY <1>2, <1>9 DEF HandlerRestart, Disable, vars, podVars, daemonVars
<1> QED
  BY <1>4, <1>5, <1>7, <1>8, <1>9, Zenon DEF Next, Handler

\* Where the daemon and the handler are, and the counters.
LEMMA StepTypesStep ==
  ASSUME Types, [Next]_vars
  PROVE  StepTypes'
<1> USE DEF StepTypes
<1>1. StepTypes
  BY DEF Types
<1>2. faults \in Nat /\ edits \in Nat /\ MaxFaults \in Nat /\ MaxEdits \in Nat /\ Attempts \in Nat \ {0}
  BY <1>1, ENoExecAssumption
<1>3. Fault => faults' \in 0 .. MaxFaults
  BY <1>1, <1>2 DEF Fault
<1>4. Edit => edits' \in 0 .. MaxEdits
  BY <1>1, <1>2 DEF Edit
<1>5. ASSUME Users
      PROVE  StepTypes'
  BY <1>1, <1>4, <1>5
     DEF Users, DeletePod, CreatePod, ChangePod, RemoveNode, daemonVars, eventVars, handlerVars
<1>6. ASSUME NEW e \in Events, NEW step \in DaemonSteps, DaemonGoto(e, step),
             tries' \in [Events -> 0 .. Attempts - 1], fate' \in [Events -> Deleters],
             faults' \in 0 .. MaxFaults
      PROVE  StepTypes'
  BY <1>1, <1>6 DEF DaemonGoto, handlerVars
<1>7. ASSUME NEW e \in Events, NEW who \in Deleters, Delete(e, who)
      PROVE  fate' \in [Events -> Deleters]
  BY <1>1, <1>7 DEF Delete
<1>8. ASSUME NEW e \in Events, Detect(e) \/ Drop(e) \/ Create(e) \/ UpdateStatus(e) \/ Get(e) \/ Shutdown(e)
      PROVE  StepTypes'
  <2>1. UNCHANGED <<tries, fate>> /\ (UNCHANGED faults \/ Fault)
    BY <1>8, Zenon DEF Detect, Drop, Create, UpdateStatus, Get, Shutdown
  <2>2. \E step \in DaemonSteps : DaemonGoto(e, step)
    BY <1>8, Zenon DEF Detect, Drop, Create, UpdateStatus, Get, Shutdown, DaemonSteps
  <2> QED
    BY <1>1, <1>3, <1>6, <2>1, <2>2
<1>9. ASSUME NEW e \in Events, UpdateFails(e)
      PROVE  StepTypes'
  <2>1. UNCHANGED fate /\ (UNCHANGED faults \/ Fault)
    BY <1>9, Zenon DEF UpdateFails
  <2>2. \E step \in DaemonSteps : DaemonGoto(e, step)
    BY <1>9, Zenon DEF UpdateFails, DaemonSteps
  <2>3. \/ tries' = tries
        \/ tries[e] + 1 < Attempts /\ tries' = [tries EXCEPT ![e] = @ + 1]
    BY <1>9, Zenon DEF UpdateFails
  <2>4. tries' \in [Events -> 0 .. Attempts - 1]
    BY <1>1, <1>2, <2>3
  <2> QED
    BY <1>1, <1>3, <1>6, <2>1, <2>2, <2>4
<1>10. ASSUME NEW e \in Events, rollbackFn(e)
       PROVE  StepTypes'
  <2>1. UNCHANGED tries /\ (UNCHANGED faults \/ Fault) /\ DaemonGoto(e, "failed")
        /\ (UNCHANGED fate \/ Delete(e, "daemon"))
    BY <1>10, Zenon DEF rollbackFn
  <2> QED
    BY <1>1, <1>3, <1>6, <1>7, <2>1 DEF DaemonSteps, Deleters
<1>11. ASSUME NEW e \in Events, NEW step \in Calls, pc' = [pc EXCEPT ![e] = step],
              UNCHANGED <<daemonVars, edits>>, fate' \in [Events -> Deleters],
              counted' \in [Events -> Nat], faults' \in 0 .. MaxFaults
       PROVE  StepTypes'
  BY <1>1, <1>11 DEF daemonVars
<1>12. ASSUME NEW e \in Events, Reconcile(e) \/ GetPod(e) \/ GetNode(e) \/ LabelPod(e)
       PROVE  StepTypes'
  <2>1. UNCHANGED <<daemonVars, edits>> /\ UNCHANGED <<fate, counted>>
    BY <1>12, Zenon DEF Reconcile, GetPod, GetNode, LabelPod, Goto
  <2>2. \E step \in Calls : pc' = [pc EXCEPT ![e] = step]
    BY <1>12, Zenon DEF Reconcile, GetPod, GetNode, LabelPod, Goto, Fail, FailUnmarked, Return, Calls
  <2>3. UNCHANGED faults \/ Fault
    BY <1>12, Zenon DEF Reconcile, GetPod, GetNode, LabelPod, Mark
  <2>4. faults' \in 0 .. MaxFaults
    BY <1>1, <1>3, <2>3, Zenon
  <2> QED
    BY <1>1, <1>11, <2>1, <2>2, <2>4, Zenon
<1>13. ASSUME NEW e \in Events, DeleteEvent(e)
       PROVE  StepTypes'
  <2>1. /\ UNCHANGED <<daemonVars, edits>> /\ UNCHANGED faults
        /\ pc' = [pc EXCEPT ![e] = "idle"]
        /\ UNCHANGED fate \/ Delete(e, "handler")
        /\ counted' = counted \/ counted' = [counted EXCEPT ![e] = @ + 1]
    BY <1>13, Zenon DEF DeleteEvent, Return
  <2>2. counted' \in [Events -> Nat]
    BY <1>1, <2>1
  <2>3. fate' \in [Events -> Deleters]
    BY <1>1, <1>7, <2>1 DEF Deleters
  <2>4. "idle" \in Calls /\ faults' \in 0 .. MaxFaults
    BY <1>1, <2>1 DEF Calls
  <2> HIDE DEF StepTypes
  <2> QED
    BY <1>11, <2>1, <2>2, <2>3, <2>4, Zenon
<1>14. ASSUME NEW e \in Events, CallFails(e)
       PROVE  StepTypes'
  <2>1. /\ UNCHANGED <<daemonVars, edits>> /\ UNCHANGED counted /\ Fault
        /\ pc' = [pc EXCEPT ![e] = "idle"]
        /\ UNCHANGED fate \/ Delete(e, "handler")
    BY <1>14, Zenon DEF CallFails, Fail, FailUnmarked, Return
  <2> QED
    BY <1>1, <1>3, <1>7, <1>11, <2>1, Zenon DEF Calls, Deleters
<1>15. ASSUME NEW e \in Events, HandlerEvent(e) \/ ReconcileIncomplete(e)
       PROVE  StepTypes'
  <2>1. UNCHANGED <<daemon, tries, fate, pc, counted, edits>>
    BY <1>15, Zenon DEF HandlerEvent, ReconcileIncomplete, daemonVars
  <2>2. UNCHANGED faults \/ Fault
    BY <1>15, Zenon DEF HandlerEvent, ReconcileIncomplete, Mark
  <2>3. faults' \in 0 .. MaxFaults
    BY <1>1, <1>3, <2>2, Zenon
  <2> QED
    BY <1>1, <2>1, <2>3
<1>16. ASSUME NEW e \in Events, deleteErroredENoExecEvents(e)
       PROVE  StepTypes'
  <2>1. UNCHANGED <<daemon, tries, pc, counted, edits, faults>> /\ Delete(e, "operator")
    BY <1>16 DEF deleteErroredENoExecEvents, daemonVars, handlerVars
  <2> QED
    BY <1>1, <1>7, <2>1 DEF Deleters
<1>17. ASSUME HandlerRestart
       PROVE  StepTypes'
  BY <1>1, <1>3, <1>17 DEF HandlerRestart, daemonVars, Calls
<1>18. ASSUME Disable \/ UNCHANGED vars
       PROVE  StepTypes'
  BY <1>1, <1>18 DEF Disable, vars, daemonVars, eventVars, handlerVars
<1> QED
  BY <1>5, <1>8, <1>9, <1>10, <1>12, <1>13, <1>14, <1>15, <1>16, <1>17, <1>18, Zenon
     DEF Next, ProcessEvent, Handler

\* Flags, and the copies of the pod.
LEMMA FlagTypesStep ==
  ASSUME Types, [Next]_vars
  PROVE  FlagTypes'
<1>1. FlagTypes
  BY DEF Types
<1>2. ASSUME NEW e \in Events,
             Detect(e) \/ Drop(e) \/ ProcessEvent(e) \/ Shutdown(e) \/ HandlerEvent(e) \/ Handler(e)
               \/ CallFails(e) \/ deleteErroredENoExecEvents(e)
      PROVE  UNCHANGED <<up, cleaning>>
  <2>1. CASE Detect(e) \/ Drop(e) \/ ProcessEvent(e) \/ Shutdown(e)
    BY <2>1, Zenon DEF Detect, Drop, ProcessEvent, Shutdown, Create, UpdateStatus, UpdateFails, Get,
       rollbackFn, DaemonGoto, podVars
  <2>2. CASE HandlerEvent(e) \/ Handler(e)
    BY <2>2, Zenon DEF HandlerEvent, Handler, ReconcileIncomplete, Reconcile, GetPod, GetNode,
       LabelPod, DeleteEvent, podVars
  <2>3. CASE CallFails(e) \/ deleteErroredENoExecEvents(e)
    BY <2>3, Zenon DEF CallFails, deleteErroredENoExecEvents, podVars
  <2> QED
    BY <1>2, <2>1, <2>2, <2>3, Zenon
<1>3. up' \in BOOLEAN /\ cleaning' \in BOOLEAN
  <2>1. CASE Users \/ HandlerRestart
    BY <1>1, <2>1, Zenon DEF FlagTypes, Users, DeletePod, CreatePod, ChangePod, RemoveNode,
       HandlerRestart, podVars
  <2>2. CASE Disable \/ UNCHANGED vars
    BY <1>1, <2>2, Zenon DEF FlagTypes, Disable, vars, podVars
  <2>3. CASE \E e \in Events : UNCHANGED <<up, cleaning>>
    BY <1>1, <2>3, Zenon DEF FlagTypes
  <2> QED
    BY <1>2, <2>1, <2>2, <2>3, Zenon DEF Next
<1>4. \/ queued' = queued
      \/ \E e \in Events, b \in BOOLEAN : queued' = [queued EXCEPT ![e] = b]
      \/ queued' = [e \in Events |-> stored[e].there]
  <2>1. ASSUME NEW e \in Events, NEW b \in BOOLEAN, Return(e, b)
        PROVE  \E c \in BOOLEAN : queued' = [queued EXCEPT ![e] = c]
    <3>1. queued' = [queued EXCEPT ![e] = queued[e] \/ b]
      BY <2>1, Zenon DEF Return
    <3>2. (queued[e] \/ b) \in BOOLEAN
      BY Zenon
    <3> QED
      BY <3>1, <3>2, Zenon
  <2>2. ASSUME NEW e \in Events, DeleteEvent(e) \/ CallFails(e) \/ LabelPod(e)
        PROVE  UNCHANGED queued \/ Return(e, TRUE) \/ Return(e, FALSE)
    BY <2>2, Zenon DEF DeleteEvent, CallFails, LabelPod, Fail, FailUnmarked, Goto
  <2>3. ASSUME NEW e \in Events, HandlerEvent(e) \/ ReconcileIncomplete(e) \/ Reconcile(e)
        PROVE  \E b \in BOOLEAN : queued' = [queued EXCEPT ![e] = b]
    BY <2>3, Zenon DEF HandlerEvent, ReconcileIncomplete, Reconcile
  <2>4. ASSUME NEW e \in Events,
               \/ Detect(e) \/ Drop(e) \/ ProcessEvent(e) \/ Shutdown(e) \/ GetPod(e) \/ GetNode(e)
               \/ deleteErroredENoExecEvents(e)
        PROVE  UNCHANGED queued
    BY <2>4, Zenon DEF Detect, Drop, ProcessEvent, Shutdown, Create, UpdateStatus, UpdateFails, Get,
       rollbackFn, DaemonGoto, GetPod, GetNode, Goto, deleteErroredENoExecEvents, handlerVars
  <2>5. ASSUME Users \/ Disable \/ UNCHANGED vars
        PROVE  UNCHANGED queued
    BY <2>5, Zenon DEF Users, DeletePod, CreatePod, ChangePod, RemoveNode, Disable, vars, handlerVars
  <2>6. ASSUME HandlerRestart
        PROVE  queued' = [e \in Events |-> stored[e].there]
    BY <2>6, Zenon DEF HandlerRestart
  <2> QED
    BY <2>1, <2>2, <2>3, <2>4, <2>5, <2>6, Zenon DEF Next, Handler
<1>5. \A e \in Events : stored[e].there \in BOOLEAN
  BY DEF Types, ObjectTypes, ENoExecEvent
<1>6. queued' \in [Events -> BOOLEAN]
  <2>1. CASE queued' = queued
    BY <1>1, <2>1 DEF FlagTypes
  <2>2. ASSUME NEW e \in Events, NEW b \in BOOLEAN, queued' = [queued EXCEPT ![e] = b]
        PROVE  queued' \in [Events -> BOOLEAN]
    BY <1>1, <2>2, Zenon DEF FlagTypes
  <2>3. CASE queued' = [e \in Events |-> stored[e].there]
    BY <1>5, <2>3, Zenon
  <2> QED
    BY <1>4, <2>1, <2>2, <2>3
<1> QED
  BY <1>3, <1>6, Zenon DEF FlagTypes

-----------------------------------------------------------------------------
(***************************************************************************)
(* The objects.  A write is a creation, the status of the daemon, a label  *)
(* of the handler or a deletion.                                           *)
(***************************************************************************)

Created == [Absent EXCEPT !.there = TRUE]
WithStatus(r) == [r EXCEPT !.status = TRUE]
Marked(r, reason) == [r EXCEPT !.err = reason]

LEMMA MarkFacts ==
  ASSUME NEW r \in ENoExecEvent, NEW reason \in ErrorReason
  PROVE  /\ Marked(r, reason) \in ENoExecEvent
         /\ Marked(r, reason).there = r.there /\ Marked(r, reason).status = r.status
         /\ Marked(r, reason).err = reason
<1>1. ASSUME NEW Flag, NEW q \in [there : Flag, status : Flag, err : ErrorReason]
      PROVE  /\ [q EXCEPT !.err = reason] \in [there : Flag, status : Flag, err : ErrorReason]
             /\ [q EXCEPT !.err = reason].there = q.there
             /\ [q EXCEPT !.err = reason].status = q.status
             /\ [q EXCEPT !.err = reason].err = reason
  OBVIOUS
<1> QED
  BY <1>1, Zenon DEF Marked, ENoExecEvent

LEMMA RecordFacts ==
  /\ Absent \in ENoExecEvent /\ ~Absent.there /\ ~Absent.status /\ Absent.err = "none"
  /\ Created \in ENoExecEvent /\ Created.there /\ ~Created.status /\ Created.err = "none"
  /\ \A r \in ENoExecEvent :
       /\ r.there \in BOOLEAN /\ r.status \in BOOLEAN /\ r.err \in ErrorReason
       /\ WithStatus(r) \in ENoExecEvent
       /\ WithStatus(r).there = r.there /\ WithStatus(r).status /\ WithStatus(r).err = r.err
       /\ \A reason \in ErrorReason :
            /\ Marked(r, reason) \in ENoExecEvent
            /\ Marked(r, reason).there = r.there /\ Marked(r, reason).status = r.status
            /\ Marked(r, reason).err = reason
<1>1. Absent \in ENoExecEvent /\ ~Absent.there /\ ~Absent.status /\ Absent.err = "none"
  BY DEF Absent, ENoExecEvent, ErrorReason
<1>2. Created \in ENoExecEvent /\ Created.there /\ ~Created.status /\ Created.err = "none"
  <2>1. ASSUME NEW Flag, NEW q \in [there : Flag, status : Flag, err : ErrorReason], NEW b \in Flag
        PROVE  /\ [q EXCEPT !.there = b] \in [there : Flag, status : Flag, err : ErrorReason]
               /\ [q EXCEPT !.there = b].there = b /\ [q EXCEPT !.there = b].status = q.status
               /\ [q EXCEPT !.there = b].err = q.err
    OBVIOUS
  <2> QED
    BY <1>1, <2>1, Zenon DEF Created, ENoExecEvent
<1>3. ASSUME NEW r \in ENoExecEvent
      PROVE  /\ r.there \in BOOLEAN /\ r.status \in BOOLEAN /\ r.err \in ErrorReason
             /\ r = [there |-> r.there, status |-> r.status, err |-> r.err]
  BY DEF ENoExecEvent
<1>4. ASSUME NEW r \in ENoExecEvent
      PROVE  /\ WithStatus(r) \in ENoExecEvent
             /\ WithStatus(r).there = r.there /\ WithStatus(r).status /\ WithStatus(r).err = r.err
  <2>1. ASSUME NEW Flag, NEW q \in [there : Flag, status : Flag, err : ErrorReason], NEW b \in Flag
        PROVE  /\ [q EXCEPT !.status = b] \in [there : Flag, status : Flag, err : ErrorReason]
               /\ [q EXCEPT !.status = b].there = q.there /\ [q EXCEPT !.status = b].status = b
               /\ [q EXCEPT !.status = b].err = q.err
    OBVIOUS
  <2> QED
    BY <2>1, Zenon DEF WithStatus, ENoExecEvent
<1>5. ASSUME NEW r \in ENoExecEvent, NEW reason \in ErrorReason
      PROVE  /\ Marked(r, reason) \in ENoExecEvent
             /\ Marked(r, reason).there = r.there /\ Marked(r, reason).status = r.status
             /\ Marked(r, reason).err = reason
  BY MarkFacts
<1> QED
  BY <1>1, <1>2, <1>3, <1>4, <1>5, Zenon

LEMMA StatusFacts ==
  ASSUME NEW r \in ENoExecEvent
  PROVE  WithStatus(r).there = r.there
BY RecordFacts

Deletes(e) == stored[e].there /\ Write(e, Absent, {})
Creates(e) == Write(e, Created, {"daemon"})
Completes(e) == stored[e].there /\ Write(e, WithStatus(stored[e]), {})
Marks(e) ==
    \E reason \in ErrorReason, holders \in SUBSET {"worker"} :
      stored[e].there /\ Write(e, Marked(stored[e], reason), holders)
Refreshes(e) ==
    /\ UNCHANGED stored
    /\ \E copies \in SUBSET Copies :
         /\ "cache" \in copies => "cache" \in fresh[e]
         /\ fresh' = [fresh EXCEPT ![e] = copies]

LEMMA MarkOrNot ==
  ASSUME NEW e \in Events, NEW holder \in {"cache", "worker"}, NEW reason \in ErrorReason,
         markAsError(e, holder, reason)
  PROVE  Marks(e) \/ UNCHANGED <<stored, fresh>>
<1>1. {holder} \ {"cache"} \in SUBSET {"worker"}
  OBVIOUS
<1> QED
  BY <1>1, Zenon DEF markAsError, Marks, Marked

LEMMA MarkWrites ==
  ASSUME NEW e \in Events, NEW holder \in {"cache", "worker"}, NEW reason \in ErrorReason,
         Mark(e, holder, reason)
  PROVE  Marks(e) \/ UNCHANGED <<stored, fresh>>
<1>1. {} \in SUBSET {"worker"}
  OBVIOUS
<1> QED
  BY <1>1, MarkOrNot, Zenon DEF Mark, Marks, Marked

LEMMA FailMarks ==
  ASSUME NEW e \in Events, Fail(e) \/ FailUnmarked(e)
  PROVE  Marks(e) \/ UNCHANGED <<stored, fresh>>
<1>1. "Reconciliation" \in ErrorReason /\ "worker" \in {"cache", "worker"}
  BY DEF ErrorReason
<1>2. CASE Fail(e) /\ (pc[e] = "delete" \/ "worker" \notin fresh[e] \/ ~stored[e].there)
  BY <1>1, <1>2, MarkOrNot, Zenon DEF Fail
<1>3. CASE Fail(e) /\ ~(pc[e] = "delete" \/ "worker" \notin fresh[e] \/ ~stored[e].there)
  BY <1>1, <1>3, Zenon DEF Fail, Marks, Marked
<1>4. CASE FailUnmarked(e)
  <2>1. ReasonFor(pc[e]) \in ErrorReason
    BY DEF ReasonFor, ErrorReason
  <2> QED
    BY <1>1, <1>4, <2>1, MarkOrNot, Zenon DEF FailUnmarked
<1> QED
  BY <1>2, <1>3, <1>4

\* What the daemon, the handler and the operator do to an object.
LEMMA DaemonWrites ==
  ASSUME Types, NEW e \in Events, ProcessEvent(e) \/ Detect(e) \/ Drop(e) \/ Shutdown(e)
  PROVE  /\ UNCHANGED seen
         /\ \/ UNCHANGED <<stored, fresh>>
            \/ Creates(e) \/ Completes(e) \/ Refreshes(e) \/ Deletes(e)
<1>1. UNCHANGED seen
  BY Zenon DEF ProcessEvent, Detect, Drop, Shutdown, Create, UpdateStatus, UpdateFails, Get,
     rollbackFn, DaemonGoto
<1>2. CASE Get(e)
  <2>1. \/ UNCHANGED <<stored, fresh>>
        \/ UNCHANGED stored /\ fresh' = [fresh EXCEPT ![e] = fresh[e] \cup {"daemon"}]
    BY <1>2, Zenon DEF Get
  <2>2. /\ fresh[e] \cup {"daemon"} \in SUBSET Copies
        /\ "cache" \in fresh[e] \cup {"daemon"} => "cache" \in fresh[e]
    BY DEF Types, ObjectTypes, Copies
  <2> QED
    BY <1>1, <2>1, <2>2, Zenon DEF Refreshes
<1>3. CASE Create(e) \/ UpdateStatus(e) \/ UpdateFails(e) \/ rollbackFn(e) \/ Detect(e) \/ Drop(e)
           \/ Shutdown(e)
  <2>1. \/ UNCHANGED <<stored, fresh>>
        \/ Creates(e) \/ Completes(e) \/ Deletes(e)
    BY <1>3, Zenon DEF Create, UpdateStatus, UpdateFails, rollbackFn, Detect, Drop, Shutdown, Delete,
       Creates, Completes, Deletes, Created, WithStatus
  <2> QED
    BY <1>1, <2>1, Zenon
<1> QED
  BY <1>2, <1>3, Zenon DEF ProcessEvent

LEMMA HandlerWrites ==
  ASSUME Types, NEW e \in Events, Handler(e) \/ CallFails(e) \/ deleteErroredENoExecEvents(e)
  PROVE  /\ UNCHANGED seen
         /\ \/ UNCHANGED <<stored, fresh>>
            \/ Marks(e) \/ Refreshes(e) \/ Deletes(e)
<1>1. UNCHANGED seen
  BY Zenon DEF Handler, CallFails, deleteErroredENoExecEvents, ReconcileIncomplete, Reconcile, GetPod,
     GetNode, LabelPod, DeleteEvent
<1>2. /\ "worker" \in {"cache", "worker"} /\ "cache" \in {"cache", "worker"}
      /\ {"PodNotFound", "NodeNotFound"} \subseteq ErrorReason
  BY DEF ErrorReason
<1>3. CASE Reconcile(e)
  <2> DEFINE copies == IF "cache" \in fresh[e] THEN fresh[e] \cup {"worker"} ELSE fresh[e] \ {"worker"}
  <2>1. UNCHANGED stored /\ fresh' = [fresh EXCEPT ![e] = copies]
    BY <1>3, Zenon DEF Reconcile
  <2>2. copies \in SUBSET Copies /\ ("cache" \in copies => "cache" \in fresh[e])
    BY DEF Types, ObjectTypes, Copies
  <2> QED
    BY <1>1, <2>1, <2>2, Zenon DEF Refreshes
<1>4. CASE DeleteEvent(e) \/ deleteErroredENoExecEvents(e)
  <2>1. UNCHANGED <<stored, fresh>> \/ Deletes(e)
    BY <1>4, Zenon DEF DeleteEvent, deleteErroredENoExecEvents, Delete, Deletes
  <2> QED
    BY <1>1, <2>1, Zenon
<1>5. CASE ReconcileIncomplete(e) \/ GetPod(e) \/ GetNode(e)
  <2>1. \/ UNCHANGED <<stored, fresh>>
        \/ \E holder \in {"cache", "worker"}, reason \in ErrorReason : Mark(e, holder, reason)
    BY <1>2, <1>5, Zenon DEF ReconcileIncomplete, GetPod, GetNode, ErrorReason
  <2> QED
    BY <1>1, <2>1, MarkWrites, Zenon
<1>6. CASE LabelPod(e)
  <2>1. \/ UNCHANGED <<stored, fresh>> \/ Fail(e) \/ FailUnmarked(e)
        \/ \E holder \in {"cache", "worker"}, reason \in ErrorReason : Mark(e, holder, reason)
    BY <1>2, <1>6, Zenon DEF LabelPod, ErrorReason
  <2> QED
    BY <1>1, <2>1, MarkWrites, FailMarks, Zenon
<1>7. CASE CallFails(e)
  <2>1. Fail(e) \/ FailUnmarked(e) \/ Deletes(e)
    BY <1>7, Zenon DEF CallFails, Delete, Deletes
  <2> QED
    BY <1>1, <2>1, FailMarks, Zenon
<1> QED
  BY <1>3, <1>4, <1>5, <1>6, <1>7, Zenon DEF Handler

LEMMA ObjectTypesStep ==
  ASSUME Types, [Next]_vars
  PROVE  ObjectTypes'
<1>1. /\ stored \in [Events -> ENoExecEvent] /\ seen \in [Events -> ENoExecEvent]
      /\ fresh \in [Events -> SUBSET Copies]
      /\ \A e \in Events : "cache" \in fresh[e] => seen[e] = stored[e]
      /\ \A e \in Events : ~stored[e].there => stored[e] = Absent
  BY DEF Types, ObjectTypes
<1>2. CASE UNCHANGED <<stored, fresh, seen>>
  BY <1>1, <1>2 DEF ObjectTypes
<1>3. ASSUME NEW e \in Events, NEW new \in ENoExecEvent, NEW holders \in SUBSET {"worker", "daemon"},
             Write(e, new, holders), new.there \/ new = Absent, UNCHANGED seen
      PROVE  ObjectTypes'
  <2>1. /\ stored' \in [Events -> ENoExecEvent] /\ fresh' \in [Events -> SUBSET Copies]
        /\ stored'[e] = new /\ fresh'[e] = holders
        /\ \A d \in Events \ {e} : stored'[d] = stored[d] /\ fresh'[d] = fresh[d]
    BY <1>1, <1>3 DEF Write, Copies
  <2>2. "cache" \notin holders
    OBVIOUS
  <2>3. \A d \in Events : "cache" \in fresh'[d] => seen'[d] = stored'[d]
    BY <1>1, <1>3, <2>1, <2>2
  <2>4. \A d \in Events : ~stored'[d].there => stored'[d] = Absent
    BY <1>1, <1>3, <2>1, Zenon
  <2> QED
    BY <1>1, <1>3, <2>1, <2>3, <2>4, Zenon DEF ObjectTypes
<1>4. ASSUME NEW e \in Events, UNCHANGED seen,
             Creates(e) \/ Completes(e) \/ Marks(e) \/ Deletes(e)
      PROVE  ObjectTypes'
  <2>1. stored[e] \in ENoExecEvent
    BY <1>1
  <2>2. /\ {"daemon"} \in SUBSET {"worker", "daemon"} /\ {} \in SUBSET {"worker", "daemon"}
        /\ \A h \in SUBSET {"worker"} : h \in SUBSET {"worker", "daemon"}
    OBVIOUS
  <2>3. CASE Creates(e)
    BY <1>3, <1>4, <2>2, <2>3, RecordFacts, Zenon DEF Creates
  <2>4. CASE Completes(e)
    BY <1>3, <1>4, <2>1, <2>2, <2>4, RecordFacts, Zenon DEF Completes
  <2>5. CASE Marks(e)
    BY <1>3, <1>4, <2>1, <2>2, <2>5, RecordFacts, ZenonT(30) DEF Marks
  <2>6. CASE Deletes(e)
    BY <1>3, <1>4, <2>2, <2>6, RecordFacts, Zenon DEF Deletes
  <2> QED
    BY <1>4, <2>3, <2>4, <2>5, <2>6
<1>5. ASSUME NEW e \in Events, UNCHANGED seen, Refreshes(e)
      PROVE  ObjectTypes'
  BY <1>1, <1>5 DEF ObjectTypes, Refreshes
<1>6. ASSUME NEW e \in Events, HandlerEvent(e)
      PROVE  ObjectTypes'
  BY <1>1, <1>6 DEF HandlerEvent, ObjectTypes, Copies
<1>7. ASSUME HandlerRestart
      PROVE  ObjectTypes'
  BY <1>1, <1>7 DEF HandlerRestart, ObjectTypes, Copies
<1>8. ASSUME Users \/ Disable \/ UNCHANGED vars
      PROVE  ObjectTypes'
  BY <1>2, <1>8, Zenon DEF Users, DeletePod, CreatePod, ChangePod, RemoveNode, Disable, vars, eventVars
<1>9. ASSUME NEW e \in Events, ProcessEvent(e) \/ Detect(e) \/ Drop(e) \/ Shutdown(e)
      PROVE  ObjectTypes'
  BY <1>2, <1>4, <1>5, <1>9, DaemonWrites, Zenon
<1>10. ASSUME NEW e \in Events, Handler(e) \/ CallFails(e) \/ deleteErroredENoExecEvents(e)
       PROVE  ObjectTypes'
  BY <1>2, <1>4, <1>5, <1>10, HandlerWrites, Zenon
<1> QED
  BY <1>6, <1>7, <1>8, <1>9, <1>10, Zenon DEF Next

\* The copies of the pod that are current belong to reconciles in progress.
LEMMA CopyTypesStep ==
  ASSUME Types, [Next]_vars
  PROVE  CopyTypes'
<1>1. pc \in [Events -> Calls] /\ podFresh \subseteq {e \in Events : pc[e] # "idle"}
  BY DEF Types, StepTypes, CopyTypes
<1>2. CASE UNCHANGED pc /\ podFresh' \subseteq podFresh
  BY <1>1, <1>2 DEF CopyTypes
<1>3. ASSUME NEW e \in Events, NEW step, step # "idle", pc' = [pc EXCEPT ![e] = step],
             podFresh' \subseteq podFresh \cup {e}
      PROVE  CopyTypes'
  BY <1>1, <1>3 DEF CopyTypes
<1>4. ASSUME NEW e \in Events, pc' = [pc EXCEPT ![e] = "idle"], podFresh' \subseteq podFresh \ {e}
      PROVE  CopyTypes'
  BY <1>1, <1>4 DEF CopyTypes
<1>5. ASSUME NEW e \in Events, Reconcile(e) \/ GetPod(e) \/ GetNode(e)
      PROVE  CopyTypes'
  <2>1. podFresh' = podFresh \/ podFresh' = podFresh \cup {e}
    BY <1>5, Zenon DEF Reconcile, GetPod, GetNode
  <2>2. \E step \in {"pod", "delete", "node", "label"} : pc' = [pc EXCEPT ![e] = step]
    BY <1>5, Zenon DEF Reconcile, GetPod, GetNode, Goto
  <2> QED
    BY <1>3, <2>1, <2>2, Zenon
<1>6. ASSUME NEW e \in Events, LabelPod(e)
      PROVE  CopyTypes'
  <2>1. \/ /\ pc' = [pc EXCEPT ![e] = "delete"]
           /\ podFresh' = podFresh \/ podFresh' = podFresh \ {e} \/ podFresh' = {}
        \/ pc' = [pc EXCEPT ![e] = "idle"] /\ podFresh' = podFresh \ {e}
    BY <1>6, Zenon DEF LabelPod, Label, Goto, Fail, FailUnmarked, Return, Forget
  <2>2. podFresh \ {e} \subseteq podFresh \cup {e} /\ {} \subseteq podFresh \cup {e}
    OBVIOUS
  <2>3. CASE pc' = [pc EXCEPT ![e] = "idle"] /\ podFresh' = podFresh \ {e}
    BY <1>4, <2>3, Zenon
  <2>4. CASE /\ pc' = [pc EXCEPT ![e] = "delete"]
             /\ podFresh' = podFresh \/ podFresh' = podFresh \ {e} \/ podFresh' = {}
    <3>1. podFresh' \subseteq podFresh \cup {e} /\ "delete" # "idle"
      BY <2>4
    <3> QED
      BY <1>3, <2>4, <3>1, Zenon
  <2> QED
    BY <2>1, <2>3, <2>4
<1>7. ASSUME NEW e \in Events, DeleteEvent(e) \/ CallFails(e)
      PROVE  CopyTypes'
  <2>1. /\ pc' = [pc EXCEPT ![e] = "idle"]
        /\ podFresh' = podFresh \ {e} \/ podFresh' = {}
    BY <1>7, Zenon DEF DeleteEvent, CallFails, Fail, FailUnmarked, Return, Forget, Label
  <2>2. podFresh' \subseteq podFresh \ {e}
    BY <2>1
  <2> QED
    BY <1>4, <2>1, <2>2, Zenon
<1>8. ASSUME NEW e \in Events,
             \/ Detect(e) \/ Drop(e) \/ ProcessEvent(e) \/ Shutdown(e) \/ HandlerEvent(e)
             \/ ReconcileIncomplete(e) \/ deleteErroredENoExecEvents(e)
      PROVE  CopyTypes'
  <2>1. UNCHANGED <<pc, podFresh>>
    BY <1>8, Zenon DEF Detect, Drop, ProcessEvent, Shutdown, HandlerEvent, ReconcileIncomplete,
       deleteErroredENoExecEvents, Create, UpdateStatus, UpdateFails, Get, rollbackFn, DaemonGoto,
       handlerVars
  <2> QED
    BY <1>2, <2>1
<1>9. ASSUME Users \/ Disable \/ UNCHANGED vars
      PROVE  CopyTypes'
  <2>1. UNCHANGED pc /\ (podFresh' = podFresh \/ podFresh' = {})
    BY <1>9, Zenon DEF Users, DeletePod, CreatePod, ChangePod, RemoveNode, Disable, vars, handlerVars
  <2> QED
    BY <1>2, <2>1
<1>10. ASSUME HandlerRestart
       PROVE  CopyTypes'
  BY <1>10 DEF HandlerRestart, CopyTypes
<1> QED
  BY <1>5, <1>6, <1>7, <1>8, <1>9, <1>10, Zenon DEF Next, Handler

LEMMA TypesInit == Init => Types
<1>1. SUFFICES ASSUME Init
               PROVE  Types
  OBVIOUS
<1>2. PICK n \in Nodes : placed = <<n>>
  BY <1>1 DEF Init
<1>3. placed \in Seq(Nodes) /\ Len(placed) = 1
  BY <1>2
<1>4. PodTypes
  BY <1>1, <1>3, ENoExecAssumption DEF Init, PodTypes
<1>5. StepTypes
  BY <1>1, ENoExecAssumption DEF Init, StepTypes, DaemonSteps, Deleters, Calls
<1>6. FlagTypes
  BY <1>1, Zenon DEF Init, FlagTypes
<1>7. ObjectTypes
  BY <1>1, RecordFacts DEF Init, ObjectTypes, Copies
<1>8. CopyTypes
  BY <1>1 DEF Init, CopyTypes
<1> QED
  BY <1>4, <1>5, <1>6, <1>7, <1>8 DEF Types

LEMMA TypesHold == Spec => []Types
<1>1. Types /\ [Next]_vars => Types'
  BY PodTypesStep, StepTypesStep, FlagTypesStep, ObjectTypesStep, CopyTypesStep, Zenon DEF Types
<1> QED
  BY <1>1, TypesInit, PTL DEF Spec

\* The copy of an event in the handler's cache agrees with the API server unless a
\* watch event is on its way, and a deleted event leaves nothing behind
\* (enoexecevent_controller.go:96-113, k8s_enoexecevent.go:117-172).
THEOREM TypeTheorem == Spec => []TypeOK
BY TypesHold, TypesOK, PTL

-----------------------------------------------------------------------------
(***************************************************************************)
(* The life of an event.  Until the daemon has written its status, the     *)
(* handler does no more than to mark it, once, as an event without a pod.  *)
(***************************************************************************)

Waiting == {"update", "get"}
Before == {"idle", "create"}

EventOK(step, conflicts, object, copy, copies, call, deleter, count) ==
    /\ step \in Before =>
         /\ ~object.there /\ ~copy.there /\ ~copy.status
         /\ call = "idle" /\ conflicts = 0 /\ count = 0 /\ deleter = "none"
    /\ object.there => deleter = "none" /\ count = 0
    /\ count = 0 \/ (count = 1 /\ deleter = "handler")
    /\ conflicts \in {0, 1}
    /\ step \in Waiting =>
         /\ ~object.status /\ ~copy.status /\ call = "idle"
         /\ object.err \in {"none", "PodNotFound"}
    /\ step = "update" /\ object.there =>
         /\ object.err = "none" => "daemon" \in copies
         /\ conflicts = 1 => "daemon" \in copies /\ object.err = "PodNotFound"
    /\ step = "get" /\ object.there => object.err = "PodNotFound"

Life(e) ==
    EventOK(daemon[e], tries[e], stored[e], seen[e], fresh[e], pc[e], fate[e], counted[e])

Lives == \A e \in Events : Life(e)

\* The step of one event leaves the others alone.
Others(e) ==
    \A d \in Events \ {e} :
      /\ daemon'[d] = daemon[d] /\ tries'[d] = tries[d] /\ stored'[d] = stored[d]
      /\ seen'[d] = seen[d] /\ fresh'[d] = fresh[d] /\ pc'[d] = pc[d] /\ fate'[d] = fate[d]
      /\ counted'[d] = counted[d]

LEMMA OneLife ==
  ASSUME Lives, NEW e \in Events, Others(e), Life(e)'
  PROVE  Lives'
<1>1. ASSUME NEW d \in Events, d # e
      PROVE  Life(d)'
  <2>1. Life(d)
    BY DEF Lives
  <2> QED
    BY <1>1, <2>1, Zenon DEF Life, Others
<1> QED
  BY <1>1, Zenon DEF Lives

LEMMA WriteAt ==
  ASSUME Types, NEW e \in Events, NEW new, NEW holders, Write(e, new, holders)
  PROVE  /\ stored'[e] = new /\ fresh'[e] = holders
         /\ \A d \in Events \ {e} : stored'[d] = stored[d] /\ fresh'[d] = fresh[d]
BY DEF Write, Types, ObjectTypes

LEMMA EffectsAt ==
  ASSUME Types, NEW e \in Events,
         \/ UNCHANGED <<stored, fresh>> \/ Creates(e) \/ Completes(e) \/ Marks(e) \/ Deletes(e)
         \/ Refreshes(e)
  PROVE  \A d \in Events \ {e} : stored'[d] = stored[d] /\ fresh'[d] = fresh[d]
<1>1. ASSUME Refreshes(e)
      PROVE  \A d \in Events \ {e} : stored'[d] = stored[d] /\ fresh'[d] = fresh[d]
  BY <1>1 DEF Refreshes, Types, ObjectTypes
<1>2. ASSUME Marks(e)
      PROVE  \A d \in Events \ {e} : stored'[d] = stored[d] /\ fresh'[d] = fresh[d]
  <2>1. PICK reason \in ErrorReason, holders \in SUBSET {"worker"} :
          Write(e, Marked(stored[e], reason), holders)
    BY <1>2, Zenon DEF Marks
  <2> QED
    BY <2>1, WriteAt
<1> QED
  BY <1>1, <1>2, WriteAt DEF Creates, Completes, Deletes

\* processEvent goes on.
LEMMA DaemonAt ==
  ASSUME Types, NEW e \in Events, NEW step, DaemonGoto(e, step)
  PROVE  /\ daemon'[e] = step /\ \A d \in Events \ {e} : daemon'[d] = daemon[d]
         /\ UNCHANGED <<seen, pc, counted>>
BY DEF DaemonGoto, handlerVars, Types, StepTypes

LEMMA DaemonLife ==
  ASSUME Types, Lives, NEW e \in Events, ProcessEvent(e) \/ Detect(e) \/ Drop(e) \/ Shutdown(e)
  PROVE  Lives'
<1>1. Life(e)
  BY DEF Lives
<1>2. stored[e] \in ENoExecEvent /\ seen[e] \in ENoExecEvent /\ tries[e] \in Nat
  BY ENoExecAssumption DEF Types, ObjectTypes, StepTypes
<1>3. PICK step \in DaemonSteps : DaemonGoto(e, step)
  BY Zenon DEF ProcessEvent, Detect, Drop, Shutdown, Create, UpdateStatus, UpdateFails, Get,
     rollbackFn, DaemonSteps
<1>4. /\ daemon'[e] = step /\ \A d \in Events \ {e} : daemon'[d] = daemon[d]
      /\ UNCHANGED <<seen, pc, counted>>
  BY <1>3, DaemonAt
<1>5. \A d \in Events \ {e} : stored'[d] = stored[d] /\ fresh'[d] = fresh[d]
  BY DaemonWrites, EffectsAt, Zenon
<1>6. \A d \in Events \ {e} : tries'[d] = tries[d]
  <2>1. UNCHANGED tries \/ tries' = [tries EXCEPT ![e] = @ + 1]
    BY Zenon DEF ProcessEvent, Detect, Drop, Shutdown, Create, UpdateStatus, UpdateFails, Get,
       rollbackFn
  <2> QED
    BY <2>1 DEF Types, StepTypes
<1>7. \A d \in Events \ {e} : fate'[d] = fate[d]
  <2>1. UNCHANGED fate \/ fate' = [fate EXCEPT ![e] = "daemon"]
    BY Zenon DEF ProcessEvent, Detect, Drop, Shutdown, Create, UpdateStatus, UpdateFails, Get,
       rollbackFn, Delete
  <2> QED
    BY <2>1 DEF Types, StepTypes
<1>8. Others(e)
  BY <1>4, <1>5, <1>6, <1>7 DEF Others
<1>9. CASE Detect(e)
  <2>1. UNCHANGED <<stored, fresh, tries, fate>> /\ daemon[e] = "idle" /\ DaemonGoto(e, "create")
    BY <1>9 DEF Detect
  <2>2. daemon'[e] = "create" /\ daemon[e] \in Before /\ daemon'[e] \in Before
        /\ daemon'[e] \notin Waiting /\ daemon'[e] # "update" /\ daemon'[e] # "get"
    BY <2>1, DaemonAt DEF Before, Waiting
  <2>3. Life(e)'
    BY <1>1, <1>4, <2>1, <2>2, Zenon DEF Life, EventOK
  <2> QED
    BY <1>8, <2>3, OneLife
<1>10. CASE Drop(e) \/ Shutdown(e)
  <2>1. UNCHANGED <<stored, fresh, tries, fate>>
    BY <1>10, Zenon DEF Drop, Shutdown
  <2>2. daemon'[e] = "dropped" \/ daemon'[e] = "failed"
    BY <1>10, DaemonAt, Zenon DEF Drop, Shutdown
  <2>3. daemon'[e] \notin Before /\ daemon'[e] \notin Waiting /\ daemon'[e] # "update"
        /\ daemon'[e] # "get"
    BY <2>2 DEF Before, Waiting
  <2>4. Life(e)'
    BY <1>1, <1>4, <2>1, <2>3, Zenon DEF Life, EventOK
  <2> QED
    BY <1>8, <2>4, OneLife
<1>11. CASE Create(e)
  <2>1. UNCHANGED <<tries, fate>> /\ daemon[e] = "create" /\ Write(e, Created, {"daemon"})
        /\ (DaemonGoto(e, "update") \/ DaemonGoto(e, "dropped"))
    BY <1>11, Zenon DEF Create, Created
  <2>2. stored'[e] = Created /\ fresh'[e] = {"daemon"} /\ daemon[e] \in Before
    BY <2>1, WriteAt DEF Before
  <2>3. daemon'[e] = "update" \/ daemon'[e] = "dropped"
    BY <2>1, DaemonAt
  <2>4. daemon'[e] \notin Before /\ daemon'[e] # "get" /\ "daemon" \in fresh'[e]
    BY <2>2, <2>3 DEF Before
  <2>5. /\ tries[e] = 0 /\ ~seen[e].status /\ pc[e] = "idle" /\ counted[e] = 0 /\ fate[e] = "none"
    BY <1>1, <2>2, Zenon DEF Life, EventOK
  <2>6. /\ tries'[e] # 1 /\ tries'[e] \in {0, 1} /\ stored'[e].err \in {"none", "PodNotFound"}
        /\ ~stored'[e].status
    BY <2>1, <2>2, <2>5, RecordFacts, SMTT(20)
  <2>7. Life(e)'
    BY <1>4, <2>1, <2>2, <2>4, <2>5, <2>6, Zenon DEF Life, EventOK
  <2> QED
    BY <1>8, <2>7, OneLife
<1>12. CASE UpdateStatus(e)
  <2>1. /\ UNCHANGED <<tries, fate>> /\ stored[e].there /\ Write(e, WithStatus(stored[e]), {})
        /\ (DaemonGoto(e, "returned") \/ DaemonGoto(e, "rollback"))
    BY <1>12, Zenon DEF UpdateStatus, WithStatus
  <2>2. stored'[e].there = stored[e].there
    <3>1. stored'[e] = WithStatus(stored[e])
      BY <2>1, WriteAt
    <3> QED
      BY <1>2, <3>1, StatusFacts, Zenon
  <2>3. daemon'[e] = "returned" \/ daemon'[e] = "rollback"
    BY <2>1, DaemonAt
  <2>4. daemon'[e] \notin Before /\ daemon'[e] \notin Waiting /\ daemon'[e] # "update"
        /\ daemon'[e] # "get"
    BY <2>3 DEF Before, Waiting
  <2>5. Life(e)'
    BY <1>1, <1>4, <2>1, <2>2, <2>4, Zenon DEF Life, EventOK
  <2> QED
    BY <1>8, <2>5, OneLife
<1>13. CASE UpdateFails(e)
  <2>1. UNCHANGED <<stored, fresh, fate>> /\ daemon[e] = "update"
    BY <1>13, Zenon DEF UpdateFails
  <2>2. CASE /\ stored[e].there /\ "daemon" \notin fresh[e]
             /\ tries' = [tries EXCEPT ![e] = @ + 1] /\ DaemonGoto(e, "get")
    <3>1. daemon'[e] = "get" /\ daemon'[e] \in Waiting /\ daemon'[e] \notin Before
          /\ daemon[e] \in Waiting /\ daemon'[e] # "update"
      BY <2>1, <2>2, DaemonAt DEF Waiting, Before
    <3>2. stored[e].err # "none" /\ tries[e] # 1 /\ tries[e] \in {0, 1}
      BY <1>1, <2>1, <2>2, Zenon DEF Life, EventOK
    <3>3. stored[e].err = "PodNotFound"
      <4>1. stored[e].err \in {"none", "PodNotFound"}
        BY <1>1, <3>1, Zenon DEF Life, EventOK
      <4> QED
        BY <3>2, <4>1
    <3>4. tries'[e] \in {0, 1}
      BY <2>2, <3>2 DEF Types, StepTypes
    <3>5. Life(e)'
      BY <1>1, <1>4, <2>1, <3>1, <3>3, <3>4, Zenon DEF Life, EventOK
    <3> QED
      BY <1>8, <3>5, OneLife
  <2>3. CASE UNCHANGED tries /\ DaemonGoto(e, "rollback")
    <3>1. daemon'[e] \notin Before /\ daemon'[e] \notin Waiting /\ daemon'[e] # "update"
          /\ daemon'[e] # "get"
      BY <2>3, DaemonAt DEF Before, Waiting
    <3>2. Life(e)'
      BY <1>1, <1>4, <2>1, <2>3, <3>1, Zenon DEF Life, EventOK
    <3> QED
      BY <1>8, <3>2, OneLife
  <2> QED
    BY <1>13, <2>2, <2>3, Zenon DEF UpdateFails
<1>14. CASE Get(e)
  <2>1. UNCHANGED <<stored, tries, fate>> /\ daemon[e] = "get"
    BY <1>14, Zenon DEF Get
  <2>2. CASE fresh' = [fresh EXCEPT ![e] = @ \cup {"daemon"}] /\ DaemonGoto(e, "update")
    <3>1. daemon'[e] = "update" /\ daemon'[e] \in Waiting /\ daemon'[e] \notin Before
          /\ daemon[e] \in Waiting /\ daemon'[e] # "get"
      BY <2>1, <2>2, DaemonAt DEF Waiting, Before
    <3>2. "daemon" \in fresh'[e]
      BY <2>2 DEF Types, ObjectTypes
    <3>3. Life(e)'
      BY <1>1, <1>4, <2>1, <3>1, <3>2, Zenon DEF Life, EventOK
    <3> QED
      BY <1>8, <3>3, OneLife
  <2>3. CASE DaemonGoto(e, "rollback")
    <3>1. daemon'[e] \notin Before /\ daemon'[e] \notin Waiting /\ daemon'[e] # "update"
          /\ daemon'[e] # "get"
      BY <2>3, DaemonAt DEF Before, Waiting
    <3>2. Life(e)'
      BY <1>1, <1>4, <2>1, <3>1, Zenon DEF Life, EventOK
    <3> QED
      BY <1>8, <3>2, OneLife
  <2> QED
    BY <1>14, <2>2, <2>3, Zenon DEF Get
<1>15. CASE rollbackFn(e)
  <2>1. UNCHANGED tries /\ daemon'[e] = "failed"
    BY <1>15, DaemonAt, Zenon DEF rollbackFn
  <2>2. daemon'[e] \notin Before /\ daemon'[e] \notin Waiting /\ daemon'[e] # "update"
        /\ daemon'[e] # "get"
    BY <2>1 DEF Before, Waiting
  <2>3. CASE UNCHANGED <<stored, fresh, fate>>
    <3>1. Life(e)'
      BY <1>1, <1>4, <2>1, <2>2, <2>3, Zenon DEF Life, EventOK
    <3> QED
      BY <1>8, <3>1, OneLife
  <2>4. CASE stored[e].there /\ Delete(e, "daemon")
    <3>1. stored'[e] = Absent /\ ~stored'[e].there
      BY <2>4, WriteAt, RecordFacts DEF Delete
    <3>2. counted[e] = 0
      BY <1>1, <2>4, Zenon DEF Life, EventOK
    <3>3. Life(e)'
      BY <1>1, <1>4, <2>1, <2>2, <3>1, <3>2, Zenon DEF Life, EventOK
    <3> QED
      BY <1>8, <3>3, OneLife
  <2> QED
    BY <1>15, <2>3, <2>4, Zenon DEF rollbackFn
<1> QED
  BY <1>9, <1>10, <1>11, <1>12, <1>13, <1>14, <1>15, Zenon DEF ProcessEvent

LEMMA HandlerLife ==
  ASSUME Types, Lives, NEW e \in Events,
         HandlerEvent(e) \/ Handler(e) \/ CallFails(e) \/ deleteErroredENoExecEvents(e)
  PROVE  Lives'
<1>1. Life(e)
  BY DEF Lives
<1>2. stored[e] \in ENoExecEvent /\ seen[e] \in ENoExecEvent /\ pc[e] \in Calls /\ counted[e] \in Nat
  BY DEF Types, ObjectTypes, StepTypes
<1>3. UNCHANGED <<daemon, tries>>
  BY Zenon DEF HandlerEvent, Handler, CallFails, deleteErroredENoExecEvents, ReconcileIncomplete,
     Reconcile, GetPod, GetNode, LabelPod, DeleteEvent, daemonVars
<1>4. \A d \in Events \ {e} : pc'[d] = pc[d]
  <2>1. UNCHANGED pc \/ \E step \in Calls : pc' = [pc EXCEPT ![e] = step]
    BY Zenon DEF HandlerEvent, Handler, CallFails, deleteErroredENoExecEvents, ReconcileIncomplete,
       Reconcile, GetPod, GetNode, LabelPod, DeleteEvent, Goto, Fail, FailUnmarked, Return, handlerVars,
       Calls
  <2> QED
    BY <2>1 DEF Types, StepTypes
<1>5. \A d \in Events \ {e} : fate'[d] = fate[d]
  <2>1. UNCHANGED fate \/ \E who \in Deleters : fate' = [fate EXCEPT ![e] = who]
    BY Zenon DEF HandlerEvent, Handler, CallFails, deleteErroredENoExecEvents, ReconcileIncomplete,
       Reconcile, GetPod, GetNode, LabelPod, DeleteEvent, Delete, Deleters
  <2> QED
    BY <2>1 DEF Types, StepTypes
<1>6. \A d \in Events \ {e} : counted'[d] = counted[d]
  <2>1. UNCHANGED counted \/ counted' = [counted EXCEPT ![e] = @ + 1]
    BY Zenon DEF HandlerEvent, Handler, CallFails, deleteErroredENoExecEvents, ReconcileIncomplete,
       Reconcile, GetPod, GetNode, LabelPod, DeleteEvent, Goto, handlerVars
  <2> QED
    BY <2>1 DEF Types, StepTypes
<1>7. ASSUME UNCHANGED seen, Life(e)',
             \/ UNCHANGED <<stored, fresh>> \/ Marks(e) \/ Refreshes(e) \/ Deletes(e)
      PROVE  Lives'
  <2>1. Others(e)
    BY <1>3, <1>4, <1>5, <1>6, <1>7, EffectsAt DEF Others
  <2> QED
    BY <1>7, <2>1, OneLife
\* The last steps of processEvent are behind an event that is reconciled or deleted.
<1>8. ASSUME daemon[e] \notin Before, daemon[e] \notin Waiting,
             stored'[e].there => stored[e].there, UNCHANGED <<fate, counted>>
      PROVE  Life(e)'
  <2>1. daemon'[e] \notin Before /\ daemon'[e] \notin Waiting
        /\ daemon'[e] # "update" /\ daemon'[e] # "get"
    BY <1>3, <1>8 DEF Waiting
  <2> QED
    BY <1>1, <1>3, <1>8, <2>1, Zenon DEF Life, EventOK
<1>9. ASSUME Marks(e)
      PROVE  stored'[e].there => stored[e].there
  BY <1>9, Zenon DEF Marks
<1>10. pc[e] # "idle" => daemon[e] \notin Before /\ daemon[e] \notin Waiting
  BY <1>1, Zenon DEF Life, EventOK
<1>11. CASE HandlerEvent(e)
  <2>1. /\ UNCHANGED <<stored, fate, pc, counted>>
        /\ seen' = [seen EXCEPT ![e] = stored[e]]
        /\ fresh' = [fresh EXCEPT ![e] = @ \cup {"cache"}]
    BY <1>11 DEF HandlerEvent
  <2>2. /\ seen'[e] = stored[e]
        /\ "daemon" \in fresh[e] => "daemon" \in fresh'[e]
        /\ \A d \in Events \ {e} : seen'[d] = seen[d] /\ fresh'[d] = fresh[d]
    BY <2>1 DEF Types, ObjectTypes
  <2>3. Others(e)
    BY <1>3, <2>1, <2>2 DEF Others
  <2>4. ~stored[e].there => ~stored[e].status
    BY RecordFacts, ZenonT(30) DEF Types, ObjectTypes
  <2>5. Life(e)'
    BY <1>1, <1>3, <2>1, <2>2, <2>4, Zenon DEF Life, EventOK
  <2> QED
    BY <2>3, <2>5, OneLife
<1>12. CASE ReconcileIncomplete(e)
  <2>1. UNCHANGED <<seen, fate, pc, counted>>
        /\ (UNCHANGED <<stored, fresh>> \/ (seen[e].there /\ Mark(e, "cache", "PodNotFound")))
    BY <1>12, Zenon DEF ReconcileIncomplete
  <2>2. CASE UNCHANGED <<stored, fresh>>
    <3>1. Life(e)'
      BY <1>1, <1>3, <2>1, <2>2, Zenon DEF Life, EventOK
    <3> QED
      BY <1>7, <2>1, <2>2, <3>1
  <2>3. CASE seen[e].there /\ Mark(e, "cache", "PodNotFound") /\ ~UNCHANGED <<stored, fresh>>
    <3>1. /\ stored[e].there /\ stored[e].err # "PodNotFound"
          /\ Write(e, Marked(stored[e], "PodNotFound"), {})
      <4>1. {"cache"} \ {"cache"} = {}
        OBVIOUS
      <4> QED
        BY <2>3, <4>1, Zenon DEF Mark, markAsError, Marked
    <3>2. /\ stored'[e] = Marked(stored[e], "PodNotFound") /\ "PodNotFound" \in ErrorReason
          /\ {} \in SUBSET {"worker"}
      BY <3>1, WriteAt DEF ErrorReason
    <3>3. /\ stored'[e].there = stored[e].there /\ stored'[e].status = stored[e].status
          /\ stored'[e].err = "PodNotFound"
      <4>1. LET m == Marked(stored[e], "PodNotFound")
            IN  m.there = stored[e].there /\ m.status = stored[e].status /\ m.err = "PodNotFound"
        BY <1>2, <3>2, MarkFacts
      <4> QED
        BY <3>2, <4>1, Zenon
    <3>4. daemon[e] = "update" => tries[e] # 1
      BY <1>1, <3>1, Zenon DEF Life, EventOK
    <3>5. "PodNotFound" # "none" /\ "PodNotFound" \in {"none", "PodNotFound"}
      OBVIOUS
    <3>6. daemon[e] \notin Before
      BY <1>1, <3>1, Zenon DEF Life, EventOK
    <3>7. Life(e)'
      BY <1>1, <1>3, <2>1, <3>1, <3>3, <3>4, <3>5, <3>6, Zenon DEF Life, EventOK
    <3>8. Marks(e)
      BY <3>1, <3>2, Zenon DEF Marks
    <3> QED
      BY <1>7, <2>1, <3>7, <3>8
  <2> QED
    BY <2>1, <2>2, <2>3
<1>13. CASE Reconcile(e)
  <2>1. seen[e].there /\ seen[e].status /\ UNCHANGED <<stored, fate, counted>>
    BY <1>13 DEF Reconcile
  <2>2. daemon[e] \notin Before /\ daemon[e] \notin Waiting
    BY <1>1, <2>1, Zenon DEF Life, EventOK
  <2>3. Life(e)'
    BY <1>8, <2>1, <2>2, Zenon
  <2>4. Handler(e)
    BY <1>13 DEF Handler
  <2> QED
    BY <1>7, <2>3, <2>4, HandlerWrites
<1>14. CASE GetPod(e) \/ GetNode(e) \/ LabelPod(e)
  <2>1. pc[e] # "idle" /\ UNCHANGED <<fate, counted>>
    BY <1>14, Zenon DEF GetPod, GetNode, LabelPod, Goto
  <2>2. Handler(e)
    BY <1>14, Zenon DEF Handler
  <2>3. /\ UNCHANGED seen
        /\ UNCHANGED <<stored, fresh>> \/ Marks(e) \/ Refreshes(e) \/ Deletes(e)
    BY <2>2, HandlerWrites
  <2>4. stored'[e].there => stored[e].there
    BY <1>9, <2>3, Zenon DEF Refreshes, Deletes
  <2>5. Life(e)'
    BY <1>8, <1>10, <2>1, <2>4, Zenon
  <2> QED
    BY <1>7, <2>3, <2>5
\* The deletion of an event, which may count.
<1>15. ASSUME stored[e].there, NEW who \in Deleters, Delete(e, who), UNCHANGED seen,
              \/ UNCHANGED counted /\ (UNCHANGED pc \/ pc[e] # "idle")
              \/ who = "handler" /\ counted' = [counted EXCEPT ![e] = @ + 1] /\ pc[e] # "idle"
       PROVE  Lives'
  <2>1. /\ stored'[e] = Absent /\ fate'[e] = who /\ Deletes(e)
    BY <1>15, WriteAt DEF Delete, Deletes, Types, StepTypes
  <2>2. ~stored'[e].there /\ ~stored'[e].status /\ stored'[e].err \in {"none", "PodNotFound"}
    BY <2>1, RecordFacts
  <2>3. counted[e] = 0 /\ daemon[e] \notin Before
    BY <1>1, <1>15, Zenon DEF Life, EventOK
  <2>4. counted'[e] = 0 \/ (counted'[e] = 1 /\ fate'[e] = "handler")
    <3>1. CASE UNCHANGED counted
      BY <2>3, <3>1
    <3>2. CASE who = "handler" /\ counted' = [counted EXCEPT ![e] = @ + 1]
      <4>1. DOMAIN counted = Events
        BY Zenon DEF Types, StepTypes
      <4>2. counted'[e] = counted[e] + 1
        BY <3>2, <4>1, Zenon
      <4> QED
        BY <2>1, <2>3, <3>2, <4>2
    <3> QED
      BY <1>15, <3>1, <3>2, Zenon
  <2>5. daemon'[e] \in Waiting => pc'[e] = pc[e]
    BY <1>3, <1>10, <1>15, Zenon
  <2>6. Life(e)'
    BY <1>1, <1>3, <1>15, <2>2, <2>3, <2>4, <2>5, Zenon DEF Life, EventOK
  <2> QED
    BY <1>7, <1>15, <2>1, <2>6
<1>16. "handler" \in Deleters /\ "operator" \in Deleters
  BY DEF Deleters
<1>17. CASE DeleteEvent(e)
  <2>1. pc[e] = "delete" /\ UNCHANGED seen
    BY <1>17 DEF DeleteEvent
  <2>2. pc[e] # "idle"
    BY <2>1
  <2>3. CASE stored[e].there
    <3>1. Delete(e, "handler") /\ counted' = [counted EXCEPT ![e] = @ + 1]
      BY <1>17, <2>3, Zenon DEF DeleteEvent
    <3> QED
      BY <1>15, <1>16, <2>1, <2>2, <2>3, <3>1
  <2>4. CASE ~stored[e].there
    <3>1. UNCHANGED <<stored, fresh, fate, counted>>
      BY <1>17, <2>4, Zenon DEF DeleteEvent
    <3>2. Life(e)'
      BY <1>8, <1>10, <2>2, <3>1, Zenon
    <3> QED
      BY <1>7, <2>1, <3>1, <3>2
  <2> QED
    BY <2>3, <2>4
<1>18. CASE CallFails(e)
  <2>1. pc[e] # "idle" /\ UNCHANGED <<seen, counted>>
    BY <1>18, Zenon DEF CallFails
  <2>2. CASE (Fail(e) \/ FailUnmarked(e)) /\ UNCHANGED fate
    <3>1. Marks(e) \/ UNCHANGED <<stored, fresh>>
      BY <2>2, FailMarks
    <3>2. stored'[e].there => stored[e].there
      BY <1>9, <3>1, Zenon
    <3>3. Life(e)'
      BY <1>8, <1>10, <2>1, <2>2, <3>2, Zenon
    <3> QED
      BY <1>7, <2>1, <3>1, <3>3
  <2>3. CASE stored[e].there /\ Delete(e, "handler")
    BY <1>15, <1>16, <2>1, <2>3
  <2> QED
    BY <1>18, <2>2, <2>3, Zenon DEF CallFails
<1>19. CASE deleteErroredENoExecEvents(e)
  <2>1. stored[e].there /\ Delete(e, "operator") /\ UNCHANGED <<seen, pc, counted>>
    BY <1>19, Zenon DEF deleteErroredENoExecEvents, handlerVars
  <2> QED
    BY <1>15, <1>16, <2>1
<1> QED
  BY <1>11, <1>12, <1>13, <1>14, <1>17, <1>18, <1>19, Zenon DEF Handler

LEMMA LivesStep ==
  ASSUME Types, Lives, [Next]_vars
  PROVE  Lives'
<1>1. CASE HandlerRestart
  <2>1. ASSUME NEW e \in Events
        PROVE  Life(e)'
    <3>1. Life(e)
      BY DEF Lives
    <3>2. /\ UNCHANGED <<daemon, tries, stored, fate, counted>>
          /\ seen'[e] = stored[e] /\ pc'[e] = "idle"
      BY <1>1 DEF HandlerRestart, daemonVars
    <3>3. "daemon" \in fresh[e] => "daemon" \in fresh'[e]
      BY <1>1 DEF HandlerRestart
    <3>4. ~stored[e].there => ~stored[e].status
      BY RecordFacts, ZenonT(30) DEF Types, ObjectTypes
    <3> QED
      BY <3>1, <3>2, <3>3, <3>4, Zenon DEF Life, EventOK
  <2> QED
    BY <2>1, Zenon DEF Lives
<1>2. CASE Users \/ Disable \/ UNCHANGED vars
  <2>1. UNCHANGED <<daemon, tries, stored, seen, fresh, pc, fate, counted>>
    BY <1>2, Zenon DEF Users, DeletePod, CreatePod, ChangePod, RemoveNode, Disable, vars, daemonVars,
       eventVars, handlerVars
  <2> QED
    BY <2>1, Zenon DEF Lives, Life
<1> QED
  BY <1>1, <1>2, DaemonLife, HandlerLife, Zenon DEF Next

-----------------------------------------------------------------------------
(***************************************************************************)
(* Why an event is handled.  A copy of the pod that is current is one of   *)
(* the event's node; once there is a reason to drop an event, there is one *)
(* for good.                                                               *)
(***************************************************************************)

Reason(e) ==
    \/ failed[e] \in labelled
    \/ failed[e] < Len(placed) \/ ~up
    \/ NodeOf(e) \notin nodes

ToDelete(e) == pc[e] = "delete" \/ fate[e] = "handler"

Detected == \A e \in Events : IF daemon[e] = "idle" THEN failed[e] = 0 ELSE failed[e] >= 1
PodCopies == \A e \in podFresh : up /\ placed[Len(placed)] = NodeOf(e)
Handled == \A e \in Events : ToDelete(e) => Reason(e)

Reasons == Detected /\ PodCopies /\ OnlyPodsOfTheNode /\ Handled

\* Steps that do not touch the pods.
LEMMA ReasonsKept ==
  ASSUME Types, Reasons, UNCHANGED <<placed, up, labelled, nodes, failed>>,
         podFresh' \subseteq podFresh,
         \A e \in Events : /\ daemon'[e] = "idle" <=> daemon[e] = "idle"
                           /\ ToDelete(e)' => ToDelete(e)
  PROVE  Reasons'
<1>1. Detected'
  BY DEF Reasons, Detected
<1>2. PodCopies'
  <2>1. ASSUME NEW e \in podFresh'
        PROVE  up' /\ (placed[Len(placed)] = NodeOf(e))'
    <3>1. up /\ placed[Len(placed)] = NodeOf(e)
      BY <2>1, Zenon DEF Reasons, PodCopies
    <3> QED
      BY <3>1, Zenon DEF NodeOf
  <2> QED
    BY <2>1, Zenon DEF PodCopies
<1>3. OnlyPodsOfTheNode'
  BY DEF Reasons, OnlyPodsOfTheNode, NodeOf
<1>4. Handled'
  <2>1. ASSUME NEW e \in Events, ToDelete(e)'
        PROVE  Reason(e)'
    <3>1. Reason(e)
      BY <2>1, Zenon DEF Reasons, Handled
    <3> QED
      BY <3>1, Zenon DEF Reason, NodeOf
  <2> QED
    BY <2>1, Zenon DEF Handled
<1> QED
  BY <1>1, <1>2, <1>3, <1>4, Zenon DEF Reasons

LEMMA UsersReasons ==
  ASSUME Types, Lives, Reasons, Users
  PROVE  Reasons'
<1>1. UNCHANGED <<failed, daemon, pc, fate, labelled>>
  BY Zenon DEF Users, DeletePod, CreatePod, ChangePod, RemoveNode, daemonVars, eventVars, handlerVars,
     podVars
<1>2. Detected'
  BY <1>1 DEF Reasons, Detected
<1>3. placed \in Seq(Nodes) /\ Len(placed) \in Nat /\ failed \in [Events -> 0 .. Len(placed)]
      /\ labelled \subseteq 1 .. Len(placed)
  BY DEF Types, PodTypes
<1>4. CASE DeletePod
  <2>1. ~up' /\ podFresh' = {} /\ UNCHANGED <<placed, nodes>>
    BY <1>4 DEF DeletePod
  <2>2. PodCopies' /\ Handled'
    BY <2>1, Zenon DEF PodCopies, Handled, Reason
  <2>3. OnlyPodsOfTheNode'
    BY <1>1, <2>1 DEF Reasons, OnlyPodsOfTheNode, NodeOf
  <2> QED
    BY <1>2, <2>2, <2>3 DEF Reasons
<1>5. CASE CreatePod
  <2>1. PICK n \in nodes : placed' = Append(placed, n)
    BY <1>5 DEF CreatePod
  <2>2. ~up /\ UNCHANGED <<nodes, podFresh>>
    BY <1>5, Zenon DEF CreatePod, handlerVars
  <2>3. podFresh = {}
    BY <2>2, Zenon DEF Reasons, PodCopies
  <2>4. n \in Nodes
    BY DEF Types, PodTypes
  <2>5. Len(placed') = Len(placed) + 1 /\ \A i \in 1 .. Len(placed) : placed'[i] = placed[i]
    BY <1>3, <2>1, <2>4
  <2>6. PodCopies'
    BY <2>2, <2>3, Zenon DEF PodCopies
  <2>7. OnlyPodsOfTheNode'
    <3>1. SUFFICES ASSUME NEW i \in labelled
                   PROVE  \E e \in Events : failed[e] \in 1 .. i /\ placed'[failed[e]] = placed'[i]
      BY <1>1 DEF OnlyPodsOfTheNode, NodeOf
    <3>2. PICK e \in Events : failed[e] \in 1 .. i /\ placed[failed[e]] = placed[i]
      BY DEF Reasons, OnlyPodsOfTheNode, NodeOf
    <3>3. i \in 1 .. Len(placed) /\ failed[e] \in 1 .. Len(placed)
      BY <1>3, <3>2
    <3> QED
      BY <2>5, <3>2, <3>3
  <2>8. \A e \in Events : failed'[e] < Len(placed')
    BY <1>1, <1>3, <2>5
  <2>9. Handled'
    BY <2>8, Zenon DEF Handled, Reason
  <2> QED
    BY <1>2, <2>6, <2>7, <2>9 DEF Reasons
<1>6. CASE ChangePod
  <2>1. podFresh' = {} /\ UNCHANGED <<placed, up, nodes>>
    BY <1>6 DEF ChangePod, podVars
  <2> QED
    BY <1>1, <2>1, ReasonsKept DEF ToDelete
<1>7. CASE RemoveNode
  <2>1. nodes' \subseteq nodes /\ UNCHANGED <<placed, up, podFresh>>
    BY <1>7 DEF RemoveNode, handlerVars
  <2>2. PodCopies'
    BY <1>1, <2>1, Zenon DEF Reasons, PodCopies, NodeOf
  <2>3. OnlyPodsOfTheNode'
    BY <1>1, <2>1 DEF Reasons, OnlyPodsOfTheNode, NodeOf
  <2>4. ASSUME NEW e \in Events, ToDelete(e)'
        PROVE  Reason(e)'
    <3>1. Reason(e)
      BY <1>1, <2>4, Zenon DEF Reasons, Handled, ToDelete
    <3>2. NodeOf(e) \notin nodes => NodeOf(e) \notin nodes'
      BY <2>1
    <3> QED
      BY <1>1, <2>1, <3>1, <3>2, Zenon DEF Reason, NodeOf
  <2>5. Handled'
    BY <2>4, Zenon DEF Handled
  <2> QED
    BY <1>2, <2>2, <2>3, <2>5 DEF Reasons
<1> QED
  BY <1>4, <1>5, <1>6, <1>7 DEF Users

LEMMA DaemonReasons ==
  ASSUME Types, Lives, Reasons, NEW e \in Events,
         ProcessEvent(e) \/ Detect(e) \/ Drop(e) \/ Shutdown(e)
  PROVE  Reasons'
<1>1. UNCHANGED <<placed, up, labelled, nodes, podFresh, pc>>
  BY Zenon DEF ProcessEvent, Detect, Drop, Shutdown, Create, UpdateStatus, UpdateFails, Get,
     rollbackFn, DaemonGoto, podVars, handlerVars
<1>2. Life(e)
  BY DEF Lives
<1>3. \A d \in Events : fate'[d] = "handler" => fate[d] = "handler"
  <2>1. UNCHANGED fate \/ fate' = [fate EXCEPT ![e] = "daemon"]
    BY Zenon DEF ProcessEvent, Detect, Drop, Shutdown, Create, UpdateStatus, UpdateFails, Get,
       rollbackFn, Delete
  <2> QED
    BY <2>1 DEF Types, StepTypes
<1>4. CASE Detect(e)
  <2>1. /\ daemon[e] = "idle" /\ failed' = [failed EXCEPT ![e] = Len(placed)]
        /\ DaemonGoto(e, "create")
    BY <1>4 DEF Detect
  <2>2. daemon[e] \in Before
    BY <2>1 DEF Before
  <2>3. pc[e] = "idle" /\ fate[e] = "none"
    BY <1>2, <2>2, Zenon DEF Life, EventOK
  <2>4. failed \in [Events -> 0 .. Len(placed)] /\ Len(placed) \in Nat /\ Len(placed) >= 1
    BY DEF Types, PodTypes
  <2>5. /\ failed'[e] = Len(placed) /\ failed[e] = 0 /\ daemon'[e] = "create"
        /\ \A d \in Events \ {e} : failed'[d] = failed[d] /\ daemon'[d] = daemon[d]
    BY <2>1, <2>4, DaemonAt DEF Reasons, Detected
  <2>6. Detected'
    BY <2>4, <2>5 DEF Reasons, Detected
  <2>7. e \notin podFresh /\ podFresh \subseteq Events
    BY <2>3 DEF Types, CopyTypes
  <2>8. PodCopies'
    <3>1. ASSUME NEW d \in podFresh'
          PROVE  up' /\ placed'[Len(placed')] = placed'[failed'[d]]
      <4>1. d \in podFresh /\ d \in Events \ {e}
        BY <1>1, <2>7, <3>1
      <4>2. up /\ placed[Len(placed)] = placed[failed[d]]
        BY <4>1, Zenon DEF Reasons, PodCopies, NodeOf
      <4> QED
        BY <1>1, <2>5, <4>1, <4>2, Zenon
    <3> QED
      BY <3>1, Zenon DEF PodCopies, NodeOf
  <2>9. OnlyPodsOfTheNode'
    <3>1. SUFFICES ASSUME NEW i \in labelled
                   PROVE  \E d \in Events : failed'[d] \in 1 .. i /\ placed[failed'[d]] = placed[i]
      BY <1>1 DEF OnlyPodsOfTheNode, NodeOf
    <3>2. PICK d \in Events : failed[d] \in 1 .. i /\ placed[failed[d]] = placed[i]
      BY DEF Reasons, OnlyPodsOfTheNode, NodeOf
    <3>3. d # e
      BY <2>5, <3>2
    <3> QED
      BY <2>5, <3>2, <3>3
  <2>10. ASSUME NEW d \in Events, ToDelete(d)'
         PROVE  Reason(d)'
    <3>1. ToDelete(d)
      BY <1>1, <1>3, <2>10, Zenon DEF ToDelete
    <3>2. d # e
      BY <2>3, <3>1 DEF ToDelete
    <3>3. Reason(d)
      BY <3>1, Zenon DEF Reasons, Handled
    <3>4. failed'[d] = failed[d]
      BY <2>5, <3>2
    <3> QED
      BY <1>1, <3>3, <3>4, Zenon DEF Reason, NodeOf
  <2>11. Handled'
    BY <2>10, Zenon DEF Handled
  <2> QED
    BY <2>6, <2>8, <2>9, <2>11 DEF Reasons
<1>5. CASE ProcessEvent(e) \/ Drop(e) \/ Shutdown(e)
  <2>1. UNCHANGED failed
    BY <1>5, Zenon DEF ProcessEvent, Drop, Shutdown, Create, UpdateStatus, UpdateFails, Get, rollbackFn
  <2>2. daemon[e] # "idle" /\ \E step \in DaemonSteps \ {"idle"} : DaemonGoto(e, step)
    <3>1. daemon[e] \in {"create", "update", "get", "rollback"}
      BY <1>5, Zenon DEF ProcessEvent, Drop, Shutdown, Create, UpdateStatus, UpdateFails, Get,
         rollbackFn
    <3>2. \E step \in {"update", "dropped", "returned", "rollback", "get", "failed"} :
            DaemonGoto(e, step)
      BY <1>5, Zenon DEF ProcessEvent, Drop, Shutdown, Create, UpdateStatus, UpdateFails, Get,
         rollbackFn
    <3> QED
      BY <3>1, <3>2 DEF DaemonSteps
  <2>3. \A d \in Events : daemon'[d] = "idle" <=> daemon[d] = "idle"
    BY <2>2, DaemonAt
  <2>4. \A d \in Events : ToDelete(d)' => ToDelete(d)
    BY <1>1, <1>3, Zenon DEF ToDelete
  <2> QED
    BY <1>1, <2>1, <2>3, <2>4, ReasonsKept
<1> QED
  BY <1>4, <1>5

\* The label goes to the pod whose copy is current.
LEMMA LabelReasons ==
  ASSUME Types, Lives, Reasons, NEW e \in Events, e \in podFresh, pc[e] # "idle",
         UNCHANGED <<placed, up, nodes, failed, daemon, fate>>,
         labelled' = labelled \cup {Len(placed)}, podFresh' \subseteq podFresh,
         \A d \in Events \ {e} : pc'[d] = pc[d]
  PROVE  Reasons'
<1>1. failed \in [Events -> 0 .. Len(placed)] /\ Len(placed) \in Nat /\ Len(placed) >= 1
  BY DEF Types, PodTypes
<1>2. Life(e)
  BY DEF Lives
<1>3. daemon[e] # "idle"
  <2>1. daemon[e] \notin Before
    BY <1>2, Zenon DEF Life, EventOK
  <2> QED
    BY <2>1 DEF Before
<1>4. failed[e] \in 1 .. Len(placed)
  BY <1>1, <1>3 DEF Reasons, Detected
<1>5. placed[Len(placed)] = placed[failed[e]]
  BY Zenon DEF Reasons, PodCopies, NodeOf
<1>6. OnlyPodsOfTheNode'
  <2>1. SUFFICES ASSUME NEW i \in labelled'
                 PROVE  \E d \in Events : failed[d] \in 1 .. i /\ placed[failed[d]] = placed[i]
    BY DEF OnlyPodsOfTheNode, NodeOf
  <2>2. CASE i = Len(placed)
    BY <1>4, <1>5, <2>2
  <2>3. CASE i \in labelled
    BY <2>3 DEF Reasons, OnlyPodsOfTheNode, NodeOf
  <2> QED
    BY <2>1, <2>2, <2>3
<1>7. PodCopies' /\ Detected'
  BY Zenon DEF Reasons, PodCopies, Detected, NodeOf
<1>8. ASSUME NEW d \in Events, ToDelete(d)'
      PROVE  Reason(d)'
  <2>1. CASE d = e
    <3>1. failed[e] \in labelled' \/ failed[e] < Len(placed)
      BY <1>1, <1>4
    <3> QED
      BY <2>1, <3>1, Zenon DEF Reason
  <2>2. CASE d # e
    <3>1. Reason(d)
      BY <1>8, <2>2, Zenon DEF Reasons, Handled, ToDelete
    <3>2. failed[d] \in labelled => failed[d] \in labelled'
      OBVIOUS
    <3> QED
      BY <3>1, <3>2, Zenon DEF Reason, NodeOf
  <2> QED
    BY <2>1, <2>2
<1>9. Handled'
  BY <1>8, Zenon DEF Handled
<1> QED
  BY <1>6, <1>7, <1>9 DEF Reasons

LEMMA HandlerReasons ==
  ASSUME Types, Lives, Reasons, NEW e \in Events,
         HandlerEvent(e) \/ Handler(e) \/ CallFails(e) \/ deleteErroredENoExecEvents(e)
  PROVE  Reasons'
<1>1. UNCHANGED <<placed, up, nodes, failed, daemon>>
  BY Zenon DEF HandlerEvent, Handler, CallFails, deleteErroredENoExecEvents, ReconcileIncomplete,
     Reconcile, GetPod, GetNode, LabelPod, DeleteEvent, daemonVars, podVars
<1>2. pc \in [Events -> Calls] /\ fate \in [Events -> Deleters]
  BY DEF Types, StepTypes
\* A call that ends with the reconcile or goes on, without a reason to delete.
<1>3. ASSUME UNCHANGED <<labelled, fate>>, podFresh' \subseteq podFresh,
             UNCHANGED pc \/ \E step \in Calls \ {"delete"} : pc' = [pc EXCEPT ![e] = step]
      PROVE  Reasons'
  <2>1. \A d \in Events : ToDelete(d)' => ToDelete(d)
    BY <1>2, <1>3 DEF ToDelete
  <2> QED
    BY <1>1, <1>3, <2>1, ReasonsKept
\* A call that finds a reason.
<1>4. ASSUME Reason(e), UNCHANGED <<labelled, fate, podFresh>>, pc' = [pc EXCEPT ![e] = "delete"]
      PROVE  Reasons'
  <2>1. ASSUME NEW d \in Events, ToDelete(d)'
        PROVE  Reason(d)'
    <3>1. d = e \/ ToDelete(d)
      BY <1>2, <1>4, <2>1 DEF ToDelete
    <3>2. Reason(d)
      BY <1>4, <3>1, Zenon DEF Reasons, Handled
    <3> QED
      BY <1>1, <1>4, <3>2, Zenon DEF Reason, NodeOf
  <2>2. Handled'
    BY <2>1, Zenon DEF Handled
  <2>3. PodCopies' /\ Detected'
    BY <1>1, <1>4, Zenon DEF Reasons, PodCopies, Detected, NodeOf
  <2>4. OnlyPodsOfTheNode'
    BY <1>1, <1>4 DEF Reasons, OnlyPodsOfTheNode, NodeOf
  <2> QED
    BY <2>2, <2>3, <2>4 DEF Reasons
<1>5. failed[e] \in 0 .. Len(placed) /\ Len(placed) \in Nat
  BY DEF Types, PodTypes
<1>6. CASE HandlerEvent(e) \/ ReconcileIncomplete(e) \/ Reconcile(e)
  <2>1. /\ UNCHANGED <<labelled, fate, podFresh>>
        /\ UNCHANGED pc \/ pc' = [pc EXCEPT ![e] = "pod"]
    BY <1>6, Zenon DEF HandlerEvent, ReconcileIncomplete, Reconcile, podVars
  <2>2. "pod" \in Calls \ {"delete"}
    BY DEF Calls
  <2> QED
    BY <1>3, <2>1, <2>2
<1>7. CASE GetPod(e)
  <2>1. UNCHANGED <<labelled, fate>>
    BY <1>7, Zenon DEF GetPod, podVars
  <2>2. CASE UNCHANGED podFresh /\ pc' = [pc EXCEPT ![e] = "delete"]
             /\ (~up \/ placed[Len(placed)] # NodeOf(e))
    <3>1. ~up \/ failed[e] < Len(placed)
      BY <1>5, <2>2 DEF NodeOf
    <3>2. Reason(e)
      BY <3>1, Zenon DEF Reason
    <3> QED
      BY <1>4, <2>1, <2>2, <3>2
  <2>3. CASE /\ up /\ placed[Len(placed)] = NodeOf(e) /\ pc' = [pc EXCEPT ![e] = "node"]
             /\ podFresh' = podFresh \cup {e}
    <3>1. PodCopies'
      <4>1. ASSUME NEW d \in podFresh'
            PROVE  up' /\ placed'[Len(placed')] = placed'[failed'[d]]
        <5>1. up /\ placed[Len(placed)] = placed[failed[d]]
          BY <2>3, <4>1 DEF Reasons, PodCopies, NodeOf
        <5> QED
          BY <1>1, <5>1, Zenon
      <4> QED
        BY <4>1, Zenon DEF PodCopies, NodeOf
    <3>2. \A d \in Events : ToDelete(d)' => ToDelete(d)
      BY <1>2, <2>1, <2>3 DEF ToDelete
    <3>3. Handled'
      BY <1>1, <2>1, <3>2, Zenon DEF Reasons, Handled, Reason, NodeOf
    <3>4. Detected'
      BY <1>1, Zenon DEF Reasons, Detected
    <3>5. OnlyPodsOfTheNode'
      BY <1>1, <2>1 DEF Reasons, OnlyPodsOfTheNode, NodeOf
    <3> QED
      BY <3>1, <3>3, <3>4, <3>5 DEF Reasons
  <2> QED
    BY <1>7, <2>2, <2>3, Zenon DEF GetPod, Goto
<1>8. CASE GetNode(e)
  <2>1. UNCHANGED <<labelled, fate, podFresh>>
    BY <1>8, Zenon DEF GetNode, podVars
  <2>2. CASE NodeOf(e) \in nodes
    <3>1. pc' = [pc EXCEPT ![e] = "label"] /\ "label" \in Calls \ {"delete"}
      BY <1>8, <2>2 DEF GetNode, Goto, Calls
    <3> QED
      BY <1>3, <2>1, <3>1, Zenon
  <2>3. CASE NodeOf(e) \notin nodes
    <3>1. pc' = [pc EXCEPT ![e] = "delete"]
      BY <1>8, <2>3, Zenon DEF GetNode, Goto
    <3>2. Reason(e)
      BY <2>3, Zenon DEF Reason
    <3> QED
      BY <1>4, <2>1, <3>1, <3>2
  <2> QED
    BY <2>2, <2>3
<1>9. "idle" \in Calls \ {"delete"}
  BY DEF Calls
<1>10. CASE LabelPod(e)
  <2>1. pc[e] = "label" /\ UNCHANGED fate
    BY <1>10, Zenon DEF LabelPod
  <2>2. CASE Label(e) /\ Goto(e, "delete")
    <3>1. e \in podFresh /\ labelled' = labelled \cup {Len(placed)}
      BY <2>2, Zenon DEF Label
    <3>2. podFresh' \subseteq podFresh
      <4>1. podFresh' = podFresh \ {e} \/ podFresh' = {}
        BY <2>2, Zenon DEF Label
      <4> QED
        BY <4>1
    <3>3. pc[e] # "idle" /\ \A d \in Events \ {e} : pc'[d] = pc[d]
      BY <1>2, <2>1, <2>2 DEF Goto
    <3> QED
      BY <1>1, <2>1, <3>1, <3>2, <3>3, LabelReasons
  <2>3. CASE ~up /\ Goto(e, "delete") /\ UNCHANGED <<labelled, podFresh>>
    <3>1. Reason(e)
      BY <2>3, Zenon DEF Reason
    <3> QED
      BY <1>4, <2>1, <2>3, <3>1 DEF Goto
  <2>4. CASE (Fail(e) \/ FailUnmarked(e)) /\ Forget(e) /\ UNCHANGED labelled
    <3>1. podFresh' = podFresh \ {e} /\ pc' = [pc EXCEPT ![e] = "idle"]
      BY <2>4, Zenon DEF Fail, FailUnmarked, Return, Forget
    <3> QED
      BY <1>3, <1>9, <2>1, <2>4, <3>1, Zenon
  <2> QED
    BY <1>10, <2>2, <2>3, <2>4, Zenon DEF LabelPod
\* The deletion of an event that there is a reason to delete.
<1>11. ASSUME ToDelete(e) \/ fate'[e] # "handler", UNCHANGED labelled, podFresh' \subseteq podFresh,
              UNCHANGED pc \/ pc' = [pc EXCEPT ![e] = "idle"],
              \A d \in Events \ {e} : fate'[d] = fate[d]
       PROVE  Reasons'
  <2>1. \A d \in Events : ToDelete(d)' => ToDelete(d)
    BY <1>2, <1>11 DEF ToDelete
  <2> QED
    BY <1>1, <1>11, <2>1, ReasonsKept
<1>12. CASE DeleteEvent(e)
  <2>1. /\ pc[e] = "delete" /\ UNCHANGED labelled /\ podFresh' = podFresh \ {e}
        /\ pc' = [pc EXCEPT ![e] = "idle"]
        /\ UNCHANGED fate \/ fate' = [fate EXCEPT ![e] = "handler"]
    BY <1>12, Zenon DEF DeleteEvent, Return, Forget, Delete, podVars
  <2> QED
    BY <1>2, <1>11, <2>1 DEF ToDelete
<1>13. CASE CallFails(e)
  <2>1. /\ pc' = [pc EXCEPT ![e] = "idle"] /\ pc[e] # "idle"
        /\ podFresh' = podFresh \ {e} \/ podFresh' = {}
    BY <1>13, Zenon DEF CallFails, Fail, FailUnmarked, Return, Forget, Label
  <2>2. podFresh' \subseteq podFresh
    BY <2>1
  <2>3. CASE UNCHANGED <<labelled, fate>>
    BY <1>3, <1>9, <2>1, <2>2, <2>3, Zenon
  <2>4. CASE e \in podFresh /\ labelled' = labelled \cup {Len(placed)} /\ UNCHANGED fate
    <3>1. \A d \in Events \ {e} : pc'[d] = pc[d]
      BY <1>2, <2>1
    <3> QED
      BY <1>1, <2>1, <2>2, <2>4, <3>1, LabelReasons
  <2>5. CASE pc[e] = "delete" /\ Delete(e, "handler") /\ UNCHANGED labelled
    BY <1>2, <1>11, <2>1, <2>2, <2>5 DEF Delete, ToDelete
  <2> QED
    BY <1>13, <2>3, <2>4, <2>5, Zenon DEF CallFails, Label
<1>14. CASE deleteErroredENoExecEvents(e)
  <2>1. UNCHANGED <<labelled, podFresh, pc>> /\ fate' = [fate EXCEPT ![e] = "operator"]
    BY <1>14, Zenon DEF deleteErroredENoExecEvents, Delete, podVars, handlerVars
  <2> QED
    BY <1>2, <1>11, <2>1
<1> QED
  BY <1>6, <1>7, <1>8, <1>10, <1>12, <1>13, <1>14, Zenon DEF Handler

-----------------------------------------------------------------------------
Inv == Types /\ Lives /\ Reasons

LEMMA InvHolds == Spec => []Inv
<1>1. Init => Inv
  <2>1. SUFFICES ASSUME Init
                 PROVE  Lives /\ Reasons
    BY TypesInit DEF Inv
  <2>2. ASSUME NEW e \in Events
        PROVE  Life(e)
    <3>1. /\ daemon[e] = "idle" /\ tries[e] = 0 /\ stored[e] = Absent /\ seen[e] = Absent
          /\ pc[e] = "idle" /\ fate[e] = "none" /\ counted[e] = 0
      BY <2>1 DEF Init
    <3>2. daemon[e] \notin Waiting /\ daemon[e] # "update" /\ daemon[e] # "get" /\ tries[e] \in {0, 1}
      BY <3>1 DEF Waiting
    <3>3. ~stored[e].there /\ ~seen[e].there /\ ~seen[e].status
      BY <3>1, RecordFacts
    <3> QED
      BY <3>1, <3>2, <3>3, Zenon DEF Life, EventOK
  <2>3. Lives
    BY <2>2, Zenon DEF Lives
  <2>4. Detected /\ PodCopies /\ OnlyPodsOfTheNode
    BY <2>1 DEF Init, Detected, PodCopies, OnlyPodsOfTheNode
  <2>5. Handled
    BY <2>1 DEF Init, Handled, ToDelete
  <2> QED
    BY <2>3, <2>4, <2>5 DEF Reasons
<1>2. Inv /\ [Next]_vars => Inv'
  <2>1. SUFFICES ASSUME Inv, [Next]_vars
                 PROVE  Inv'
    OBVIOUS
  <2>2. Types /\ Lives /\ Reasons
    BY <2>1 DEF Inv
  <2>3. Types'
    BY <2>1, <2>2, PodTypesStep, StepTypesStep, FlagTypesStep, ObjectTypesStep, CopyTypesStep, Zenon
       DEF Types
  <2>4. Lives'
    BY <2>1, <2>2, LivesStep
  <2>5. ASSUME HandlerRestart \/ Disable \/ UNCHANGED vars
        PROVE  Reasons'
    <3>1. UNCHANGED <<placed, up, labelled, nodes, failed, daemon, fate>>
      BY <2>5, Zenon DEF HandlerRestart, Disable, vars, podVars, daemonVars, eventVars
    <3>2. podFresh' = podFresh \/ podFresh' = {}
      BY <2>5, Zenon DEF HandlerRestart, Disable, vars, handlerVars
    <3>3. pc' = pc \/ pc' = [e \in Events |-> "idle"]
      BY <2>5, Zenon DEF HandlerRestart, Disable, vars, handlerVars
    <3>4. \A e \in Events : ToDelete(e)' => ToDelete(e)
      BY <3>1, <3>3 DEF ToDelete
    <3> QED
      BY <2>2, <3>1, <3>2, <3>4, ReasonsKept
  <2>6. Reasons'
    BY <2>1, <2>2, <2>5, UsersReasons, DaemonReasons, HandlerReasons, Zenon DEF Next
  <2> QED
    BY <2>3, <2>4, <2>6 DEF Inv
<1> QED
  BY <1>1, <1>2, PTL DEF Spec

\* The label is only put on pods of the node that reported the error: for any
\* number of events, pods, faults and restarts (reconcile,
\* enoexecevent_controller.go:131-138).
THEOREM LabelTheorem == Spec => []OnlyPodsOfTheNode
<1>1. Inv => OnlyPodsOfTheNode
  BY DEF Inv, Reasons
<1> QED
  BY <1>1, InvHolds, PTL

\* The handler deletes an event only when the pod is labelled or can no longer be
\* (Reconcile, enoexecevent_controller.go:96-108).
THEOREM ReasonTheorem == Spec => []HandledForAReason
<1>1. Inv => HandledForAReason
  BY Zenon DEF Inv, Reasons, Handled, ToDelete, Reason, HandledForAReason
<1> QED
  BY <1>1, InvHolds, PTL

\* No event is counted twice (Reconcile, enoexecevent_controller.go:99-107).
THEOREM CountTheorem == Spec => []CountedOnce
<1>1. ASSUME Inv, NEW e \in Events
      PROVE  counted[e] <= 1 /\ (counted[e] = 1 => fate[e] = "handler")
  <2>1. counted[e] = 0 \/ (counted[e] = 1 /\ fate[e] = "handler")
    BY <1>1, Zenon DEF Inv, Lives, Life, EventOK
  <2> QED
    BY <2>1
<1>2. Inv => CountedOnce
  BY <1>1, Zenon DEF CountedOnce
<1> QED
  BY <1>2, InvHolds, PTL

\* The status update of the daemon meets at most one conflict, so that its
\* retries are never used up (k8s_enoexecevent.go:161-172).
THEOREM ConflictTheorem == Spec => []OneConflictAtMost
<1>1. ASSUME Inv, NEW e \in Events
      PROVE  tries[e] <= 1
  <2>1. tries[e] \in {0, 1}
    BY <1>1, Zenon DEF Inv, Lives, Life, EventOK
  <2> QED
    BY <2>1
<1>2. Inv => OneConflictAtMost
  BY <1>1, Zenon DEF OneConflictAtMost
<1> QED
  BY <1>2, InvHolds, PTL

=============================================================================
