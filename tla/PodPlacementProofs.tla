------------------------- MODULE PodPlacementProofs -------------------------
(***************************************************************************)
(* Proofs about PodPlacement for every set of pods, images and             *)
(* configurations and every bound.  First types and the reasons for which  *)
(* a pod is released; then, from these, how the stored pod, the cached one *)
(* and the one a reconcile works on are related.                           *)
(***************************************************************************)
EXTENDS PodPlacement, PodModelProofs

-----------------------------------------------------------------------------
(***************************************************************************)
(* Types, and why a pod is released.  Justified holds of the stored pod    *)
(* because it holds of every copy of it and of whatever processPod makes   *)
(* of a copy.                                                              *)
(***************************************************************************)

Justified(p) ==
    p.gateLabel = "removed" => p.excluded \/ Constrained(p) \/ p.errs >= MaxRetryCount

JustifiedCopies ==
    Justified(pod) /\ Justified(cached.pod) /\ Justified(worker.pod) /\ Justified(spec)

\* The configurations in any order, the cluster-wide one last.
LEMMA ConfigsType ==
  ASSUME NEW m \in SUBSET PPCObjects, NEW order \in Orders(m),
         NEW c \in CPPCObjects \cup {NoCPPC}
  PROVE  \A i \in DOMAIN Append(order, c) : IsConfig(Append(order, c)[i])
<1>1. IsConfig(c)
  BY ConfigAssumption DEF IsConfig, NoCPPC, ClusterPodPlacementConfig
<1>2. Cardinality(m) \in Nat
  BY ConfigAssumption, FS_Subset, FS_CardinalityType
<1>3. order \in [1 .. Cardinality(m) -> m]
  BY DEF Orders
<1>4. order \in Seq(m) /\ Len(order) = Cardinality(m)
  BY <1>2, <1>3
<1>5. \A d \in m : IsConfig(d)
  BY ConfigAssumption DEF IsConfig, PodPlacementConfig
<1>6. \A i \in DOMAIN Append(order, c) : Append(order, c)[i] \in m \/ Append(order, c)[i] = c
  BY <1>4
<1> QED
  BY <1>1, <1>5, <1>6

\* Applying the configurations gives a pod; it is constrained if CEL selects an
\* architecture, and keeps its terms, counter and gate label if it does not.
LEMMA ApplyConfigurationsProperties ==
  ASSUME NEW p \in Pod, NEW m \in SUBSET PPCObjects, NEW order \in Orders(m),
         NEW cel \in SUBSET Arch, ctlCPPC \in CPPCObjects \cup {NoCPPC}
  PROVE  LET q == applyConfigurations(p, order, cel)
         IN /\ q \in Pod
            /\ cel # {} => Constrained(q)
            /\ cel = {} /\ Justified(p) => Justified(q)
            /\ cel = {} => q.errs = p.errs
<1> DEFINE configs == Append(order, ctlCPPC)
           placed == applyCELArchitecturePlacement(p, cel)
           q == applyConfigurations(p, order, cel)
<1>1. \A i \in DOMAIN configs : IsConfig(configs[i])
  BY ConfigsType
<1>2. placed \in Pod /\ (cel # {} => Constrained(placed)) /\ (cel = {} => placed = p)
  BY CELProperties
<1>3. q \in {SetPreferredArchNodeAffinity(placed, configs),
             trackSkippedMatchingConfigs(placed, configs)}
  BY DEF applyConfigurations
<1> HIDE DEF configs, placed, q
<1>4. /\ q \in Pod
      /\ q.nodeSelector = placed.nodeSelector /\ q.required = placed.required
      /\ q.excluded = placed.excluded /\ q.errs = placed.errs
      /\ q.gateLabel = placed.gateLabel
  BY <1>1, <1>2, <1>3, PreferenceProperties
<1>5. Constrained(placed) => Constrained(q)
  BY <1>4 DEF Constrained
<1>6. cel = {} /\ Justified(p) => Justified(q)
  BY <1>2, <1>4, <1>5, Zenon DEF Justified
<1>7. cel = {} => q.errs = p.errs
  BY <1>2, <1>4
<1> QED
  BY <1>2, <1>4, <1>5, <1>6, <1>7 DEF q

\* Counting an error keeps a pod justified.
LEMMA HandleErrorJustified ==
  ASSUME NEW p \in Pod, Justified(p)
  PROVE  Justified(handleError(p)) /\ handleError(p).errs = p.errs + 1
<1> DEFINE q == handleError(p)
<1>1. /\ q.nodeSelector = p.nodeSelector /\ q.required = p.required
      /\ q.excluded = p.excluded /\ q.gateLabel = p.gateLabel /\ q.errs = p.errs + 1
  BY DEF handleError, Pod
<1>2. p.errs \in Nat /\ MaxRetryCount \in Nat
  BY MaxRetryAssumption DEF Pod
<1> HIDE DEF q
<1>3. Constrained(p) => Constrained(q)
  BY <1>1 DEF Constrained
<1>4. Justified(q)
  BY <1>1, <1>2, <1>3 DEF Justified
<1> QED
  BY <1>1, <1>4 DEF q

\* Removing the gate is justified by any of the three reasons.
LEMMA RemoveGateJustified ==
  ASSUME NEW p \in Pod, p.excluded \/ Constrained(p) \/ p.errs >= MaxRetryCount
  PROVE  Justified(RemoveSchedulingGate(p)) /\ ~RemoveSchedulingGate(p).gate
<1> DEFINE q == RemoveSchedulingGate(p)
<1>1. /\ q.nodeSelector = p.nodeSelector /\ q.required = p.required
      /\ q.excluded = p.excluded /\ q.errs = p.errs
  BY DEF RemoveSchedulingGate, Pod
<1>2. ~q.gate
  BY DEF RemoveSchedulingGate, Pod
<1> HIDE DEF q
<1>3. Constrained(p) => Constrained(q)
  BY <1>1 DEF Constrained
<1>4. Justified(q)
  BY <1>1, <1>3 DEF Justified
<1> QED
  BY <1>2, <1>4 DEF q

\* What a reconcile makes of a pod with n errors is another pod: it has no gate, or
\* one more error, and the error was not the last one allowed.
Moves(q, n) == ~q.gate \/ (q.errs = n + 1 /\ q.errs < MaxRetryCount)

\* Inspecting the images releases a pod only for one of the reasons, and counts an
\* error in a pod that it does not release.
LEMMA InspectProperties ==
  ASSUME NEW p \in Pod, Justified(p), NEW fails \in BOOLEAN,
         ctlCPPC \in CPPCObjects \cup {NoCPPC}
  PROVE  /\ inspectImages(p, fails) \in Pod
         /\ Justified(inspectImages(p, fails))
         /\ Moves(inspectImages(p, fails), p.errs)
<1>1. CASE ~fails \/ isNodeSelectorConfiguredForArchitecture(p)
  <2>1. inspectImages(p, fails) = RemoveSchedulingGate(SetNodeAffinityArchRequirement(p, images))
    BY <1>1 DEF inspectImages
  <2> QED
    BY <2>1, SetNodeAffinityProperties, PodUpdates, RemoveGateJustified DEF Moves
<1>2. CASE fails /\ ~isNodeSelectorConfiguredForArchitecture(p)
  <2> DEFINE failed == handleError(p)
             back == setRequiredNodeAffinityToFallbackArchitecture(failed, ctlCPPC.fallback)
  <2>1. failed \in Pod /\ Justified(failed) /\ failed.errs = p.errs + 1
    BY PodUpdates, HandleErrorJustified
  <2>2. inspectImages(p, fails) = IF ~maxRetries(failed) THEN failed
           ELSE RemoveSchedulingGate(IF ctlCPPC.fallback = {} THEN failed ELSE back)
    BY <1>2 DEF inspectImages
  <2>3. ctlCPPC.fallback \in SUBSET Arch
    BY ConfigAssumption DEF NoCPPC, ClusterPodPlacementConfig
  <2>4. maxRetries(failed) <=> failed.errs >= MaxRetryCount
    BY <2>1 DEF maxRetries, Pod
  <2> HIDE DEF failed
  <2>5. back \in Pod /\ Constrained(back)
    BY <2>1, <2>3, FallbackProperties
  <2> HIDE DEF back
  <2>6. CASE ~maxRetries(failed)
    <3>1. failed.errs < MaxRetryCount
      BY <2>1, <2>4, <2>6, MaxRetryAssumption DEF Pod
    <3> QED
      BY <2>1, <2>2, <2>6, <3>1 DEF Moves
  <2>7. CASE maxRetries(failed) /\ ctlCPPC.fallback = {}
    <3>1. inspectImages(p, fails) = RemoveSchedulingGate(failed)
      BY <2>2, <2>7
    <3> QED
      BY <2>1, <2>4, <2>7, <3>1, PodUpdates, RemoveGateJustified DEF Moves
  <2>8. CASE maxRetries(failed) /\ ctlCPPC.fallback # {}
    <3>1. inspectImages(p, fails) = RemoveSchedulingGate(back)
      BY <2>2, <2>8
    <3> QED
      BY <2>5, <3>1, PodUpdates, RemoveGateJustified DEF Moves
  <2> QED
    BY <2>6, <2>7, <2>8
<1> QED
  BY <1>1, <1>2

WorkerType == [busy : BOOLEAN, rv : Nat, pod : Pod, cel : SUBSET Arch]

\* processPod on a justified pod leaves the worker with a justified, different pod.
LEMMA ProcessListedProperties ==
  ASSUME NEW p \in Pod, Justified(p), NEW list \in SUBSET PPCObjects, cached.rv \in Nat,
         ctlCPPC \in CPPCObjects \cup {NoCPPC}, processListed(p, list)
  PROVE  /\ worker' \in WorkerType
         /\ Justified(worker'.pod)
         /\ Moves(worker'.pod, p.errs)
<1> DEFINE matching == filterMatchingPPCs(list)
           seen == IF p.excluded THEN p ELSE publishIgnorePodIfSelected(p)
<1>1. matching \in SUBSET PPCObjects
  BY DEF filterMatchingPPCs
<1>2. /\ seen \in Pod
      /\ seen.nodeSelector = p.nodeSelector /\ seen.required = p.required
      /\ seen.excluded = p.excluded /\ seen.errs = p.errs /\ seen.gateLabel = p.gateLabel
  <2>1. seen \in Pod
    BY PodUpdates
  <2> QED
    BY <2>1, Zenon DEF publishIgnorePodIfSelected, Pod
<1>3. (Constrained(p) => Constrained(seen)) /\ Justified(seen)
  <2> HIDE DEF seen
  <2> QED
    BY <1>2 DEF Constrained, Justified
<1>4. CASE shouldIgnorePod(p, ctlCPPC, matching)
  <2>1. worker' = [busy |-> TRUE, rv |-> cached.rv, cel |-> {}, pod |-> RemoveSchedulingGate(seen)]
    BY <1>4 DEF processListed
  <2>2. seen.excluded \/ Constrained(seen)
    <3>1. p.excluded \/ isNodeSelectorConfiguredForArchitecture(p)
      BY <1>4 DEF shouldIgnorePod
    <3>2. isNodeSelectorConfiguredForArchitecture(p) => Constrained(p)
      BY DEF isNodeSelectorConfiguredForArchitecture, Constrained
    <3> HIDE DEF seen
    <3> QED
      BY <1>2, <1>3, <3>1, <3>2
  <2> HIDE DEF seen
  <2>3. /\ RemoveSchedulingGate(seen) \in Pod
        /\ Justified(RemoveSchedulingGate(seen)) /\ Moves(RemoveSchedulingGate(seen), p.errs)
    BY <1>2, <2>2, PodUpdates, RemoveGateJustified DEF Moves
  <2> QED
    BY <2>1, <2>3 DEF WorkerType
<1>5. CASE ~shouldIgnorePod(p, ctlCPPC, matching)
  <2>1. PICK order \in Orders(matching), fails \in BOOLEAN :
          LET cel == celArchitectures(order, "stored")
              configured == applyConfigurations(seen, order, cel)
          IN worker' = [busy |-> TRUE, rv |-> cached.rv, cel |-> cel,
                        pod |-> IF cel # {} THEN RemoveSchedulingGate(configured)
                                ELSE inspectImages(configured, fails)]
    BY <1>5 DEF processListed
  <2> DEFINE cel == celArchitectures(order, "stored")
             configured == applyConfigurations(seen, order, cel)
             result == IF cel # {} THEN RemoveSchedulingGate(configured)
                       ELSE inspectImages(configured, fails)
  <2>2. cel \in SUBSET Arch
    BY DEF celArchitectures
  <2>3. worker' = [busy |-> TRUE, rv |-> cached.rv, cel |-> cel, pod |-> result]
    BY <2>1
  <2> HIDE DEF seen, cel, matching
  <2>4. /\ configured \in Pod
        /\ cel # {} => Constrained(configured)
        /\ cel = {} => Justified(configured) /\ configured.errs = p.errs
    BY <1>1, <1>2, <1>3, <2>2, ApplyConfigurationsProperties
  <2> HIDE DEF configured
  <2>5. result \in Pod /\ Justified(result) /\ Moves(result, p.errs)
    <3>1. CASE cel # {}
      BY <2>4, <3>1, PodUpdates, RemoveGateJustified DEF Moves
    <3>2. CASE cel = {}
      BY <2>4, <3>2, InspectProperties
    <3> QED
      BY <3>1, <3>2
  <2> HIDE DEF result
  <2> QED
    BY <2>2, <2>3, <2>5 DEF WorkerType
<1> QED
  BY <1>4, <1>5

CachedType == [live : BOOLEAN, rv : Nat, pod : Pod]

TypedAndJustified == TypeOK /\ JustifiedCopies

\* The informers' copy of the stored pod is well typed.
LEMMA SnapshotType ==
  ASSUME pod \in Pod, rv \in Nat
  PROVE  /\ [live |-> phase = "live", rv |-> rv, pod |-> pod] \in CachedType
         /\ [live |-> phase = "live", rv |-> rv, pod |-> pod].pod = pod
<1> DEFINE l == phase = "live"
<1>1. l \in BOOLEAN
  OBVIOUS
<1> HIDE DEF l
<1>2. [live |-> l, rv |-> rv, pod |-> pod] \in CachedType
  BY <1>1 DEF CachedType
<1> QED
  BY <1>2 DEF l

\* The worker between two reconciles is well typed.
LEMMA IdleType ==
  ASSUME NEW p \in Pod
  PROVE  Idle(p) \in WorkerType /\ Idle(p).pod = p
BY DEF Idle, WorkerType

\* What the webhook returns is a pod that is not marked as released.
LEMMA HandleProperties ==
  ASSUME TypeOK, Handle
  PROVE  pod' \in Pod /\ celAtAdmission' \subseteq Arch /\ Justified(pod')
<1>1. PICK list \in SUBSET PPCObjects :
        LET matching == filterMatchingPPCs(list)
            labelled == webhookLabels(pod, matching)
        IN IF shouldIgnorePod(labelled, whCPPC, matching)
           THEN pod' = labelled /\ UNCHANGED celAtAdmission
           ELSE \E order \in Orders(matching) :
                  /\ celAtAdmission' = celArchitectures(order, "admission")
                  /\ pod' = [ensureSchedulingGate(
                               applyCELArchitecturePlacement(labelled, celAtAdmission'))
                             EXCEPT !.gateLabel = "gated"]
  BY DEF Handle
<1> DEFINE matching == filterMatchingPPCs(list)
           labelled == webhookLabels(pod, matching)
<1>2. labelled \in Pod /\ labelled.gateLabel = "not-set"
  <2> DEFINE pref == IF whCPPC.platforms # {} \/ hasMatchingPPCWithPlugin(matching)
                     THEN "not-set" ELSE pod.prefLabel
  <2>1. pod \in Pod /\ pref \in {"absent", "not-set", "set"}
    BY DEF TypeOK, Pod
  <2>2. labelled = [pod EXCEPT !.prefLabel = pref, !.affLabel = "not-set", !.gateLabel = "not-set"]
    BY DEF webhookLabels
  <2> HIDE DEF pref, labelled
  <2> QED
    BY <2>1, <2>2, Zenon DEF Pod
<1>3. CASE shouldIgnorePod(labelled, whCPPC, matching)
  BY <1>1, <1>2, <1>3 DEF Justified, TypeOK
<1>4. CASE ~shouldIgnorePod(labelled, whCPPC, matching)
  <2>1. PICK order \in Orders(matching) :
          /\ celAtAdmission' = celArchitectures(order, "admission")
          /\ pod' = [ensureSchedulingGate(
                       applyCELArchitecturePlacement(labelled, celAtAdmission'))
                     EXCEPT !.gateLabel = "gated"]
    BY <1>1, <1>4
  <2>2. celAtAdmission' \in SUBSET Arch
    BY <2>1 DEF celArchitectures
  <2> DEFINE q == ensureSchedulingGate(applyCELArchitecturePlacement(labelled, celAtAdmission'))
  <2> HIDE DEF labelled
  <2>3. q \in Pod
    BY <1>2, <2>2, CELProperties, PodUpdates
  <2> HIDE DEF q
  <2>4. pod' = [q EXCEPT !.gateLabel = "gated"]
    BY <2>1 DEF q
  <2>5. pod' \in Pod /\ pod'.gateLabel = "gated"
    BY <2>3, <2>4 DEF Pod
  <2> QED
    BY <2>2, <2>5 DEF Justified
<1> QED
  BY <1>3, <1>4

\* Pods submitted by users are well typed and not marked as released.
LEMMA TypedInit == Init => TypedAndJustified
<1> SUFFICES ASSUME Init PROVE TypedAndJustified
  OBVIOUS
<1>1. spec \in Pod /\ Justified(spec) /\ pod = spec
  BY ConfigAssumption DEF Init, Justified
<1>2. cached \in CachedType /\ cached.pod = spec
  BY <1>1 DEF Init, CachedType
<1>3. worker \in WorkerType /\ worker.pod = spec
  BY <1>1, IdleType DEF Init
<1>4. /\ {cppc, whCPPC, ctlCPPC} \subseteq CPPCObjects \cup {NoCPPC}
      /\ ppcs \subseteq PPCObjects /\ whPPCs \subseteq PPCObjects /\ ctlPPCs \subseteq PPCObjects
      /\ phase = "new" /\ rv \in Nat /\ images \in ImageChoices /\ celAtAdmission \subseteq Arch
      /\ changes \in 0 .. MaxChanges /\ faults \in 0 .. MaxFaults
  BY ConfigAssumption DEF Init
<1>5. whSynced \in BOOLEAN /\ queued \in BOOLEAN
  BY Zenon DEF Init
<1>6. TypeOK
  BY <1>1, <1>2, <1>3, <1>4, <1>5 DEF TypeOK, CachedType, WorkerType
<1> QED
  BY <1>1, <1>2, <1>3, <1>6 DEF TypedAndJustified, JustifiedCopies

\* Every step keeps the types and the justification of every copy of the pod.
LEMMA TypedStep == TypedAndJustified /\ [Next]_vars => TypedAndJustified'
<1> SUFFICES ASSUME TypedAndJustified, [Next]_vars
             PROVE  TypedAndJustified'
  OBVIOUS
<1> USE ConfigAssumption DEF apiVars, configVars, whVars, ctlVars, worldVars, Fault, NoFault, Change
<1>1. CASE ChangePPC
  BY <1>1 DEF ChangePPC, TypedAndJustified, TypeOK, JustifiedCopies
<1>2. CASE ChangeCPPC
  BY <1>2 DEF ChangeCPPC, TypedAndJustified, TypeOK, JustifiedCopies
<1>3. CASE PinPod
  <2>1. pod \in Pod /\ Justified(pod) /\ pod' = [pod EXCEPT !.nodeSelector = TRUE]
    BY <1>3 DEF PinPod, TypedAndJustified, TypeOK, JustifiedCopies
  <2>2. pod' \in Pod /\ pod'.nodeSelector
    BY <2>1, Zenon DEF Pod
  <2>3. Justified(pod')
    BY <2>2 DEF Justified, Constrained
  <2> QED
    BY <1>3, <2>2, <2>3 DEF PinPod, TypedAndJustified, TypeOK, JustifiedCopies
<1>4. CASE DeletePod
  BY <1>4 DEF DeletePod, TypedAndJustified, TypeOK, JustifiedCopies
<1>5. CASE WebhookPPCEvent
  BY <1>5 DEF WebhookPPCEvent, TypedAndJustified, TypeOK, JustifiedCopies
<1>6. CASE WebhookCPPCEvent
  BY <1>6 DEF WebhookCPPCEvent, TypedAndJustified, TypeOK, JustifiedCopies
<1>7. CASE Handle
  <2>1. pod' \in Pod /\ celAtAdmission' \subseteq Arch /\ Justified(pod')
    BY <1>7, HandleProperties DEF TypedAndJustified
  <2>2. faults' \in 0 .. MaxFaults
    BY <1>7 DEF Handle, WebhookLists, TypedAndJustified, TypeOK, JustifiedCopies
  <2> QED
    BY <1>7, <2>1, <2>2 DEF Handle, TypedAndJustified, TypeOK, JustifiedCopies
<1>8. CASE WebhookUnavailable
  BY <1>8 DEF WebhookUnavailable, TypedAndJustified, TypeOK, JustifiedCopies
<1>9. CASE Persist
  BY <1>9 DEF Persist, TypedAndJustified, TypeOK, JustifiedCopies
<1>10. CASE PodEvent
  <2>1. cached' \in CachedType /\ cached'.pod = pod
    BY <1>10, SnapshotType DEF PodEvent, TypedAndJustified, TypeOK
  <2> QED
    BY <1>10, <2>1 DEF PodEvent, CachedType, TypedAndJustified, TypeOK, JustifiedCopies
<1>11. CASE PPCEvent
  <2>1. queued' \in BOOLEAN
    BY <1>11 DEF PPCEvent
  <2> QED
    BY <1>11, <2>1 DEF PPCEvent, TypedAndJustified, TypeOK, JustifiedCopies
<1>12. CASE CPPCEvent
  BY <1>12 DEF CPPCEvent, TypedAndJustified, TypeOK, JustifiedCopies
<1>13. CASE ReconcileNothing
  BY <1>13, Zenon DEF ReconcileNothing, TypedAndJustified, TypeOK, JustifiedCopies
<1>14. CASE Reconcile
  <2>1. cached.pod \in Pod /\ Justified(cached.pod) /\ cached.rv \in Nat
    BY DEF TypedAndJustified, TypeOK, JustifiedCopies
  <2>2. ReconcilerLists \in SUBSET PPCObjects /\ ctlCPPC \in CPPCObjects \cup {NoCPPC}
    BY DEF ReconcilerLists, TypedAndJustified, TypeOK
  <2>3. worker' \in WorkerType /\ Justified(worker'.pod)
    BY <1>14, <2>1, <2>2, ProcessListedProperties DEF Reconcile
  <2> QED
    BY <1>14, <2>3, Zenon DEF Reconcile, WorkerType, TypedAndJustified, TypeOK, JustifiedCopies
<1>15. CASE ReconcileListError
  <2>1. cached.pod \in Pod /\ Justified(cached.pod) /\ cached.rv \in Nat
    BY DEF TypedAndJustified, TypeOK, JustifiedCopies
  <2>2. handleError(cached.pod) \in Pod /\ Justified(handleError(cached.pod))
    BY <2>1, PodUpdates, HandleErrorJustified
  <2>3. worker' \in WorkerType /\ worker'.pod = handleError(cached.pod)
    BY <1>15, <2>1, <2>2 DEF ReconcileListError, WorkerType
  <2>4. Justified(worker'.pod)
    BY <2>2, <2>3
  <2>5. faults' \in 0 .. MaxFaults
    <3>1. faults < MaxFaults /\ faults' = faults + 1
      BY <1>15, Zenon DEF ReconcileListError, Fault
    <3>2. faults \in 0 .. MaxFaults
      BY Zenon DEF TypedAndJustified, TypeOK
    <3> QED
      BY <3>1, <3>2, ConfigAssumption
  <2>6. TypeOK'
    BY <1>15, <2>3, <2>5, Zenon DEF ReconcileListError, WorkerType, TypedAndJustified, TypeOK
  <2> QED
    BY <1>15, <2>4, <2>6 DEF ReconcileListError, TypedAndJustified, JustifiedCopies
<1>16. CASE UpdateSucceeds
  <2>1. spec \in Pod
    BY DEF TypedAndJustified, TypeOK
  <2>2. worker' \in WorkerType /\ worker'.pod = spec
    BY <1>16, <2>1, IdleType DEF UpdateSucceeds, Finish
  <2> QED
    BY <1>16, <2>2 DEF UpdateSucceeds, Store, WorkerType, TypedAndJustified, TypeOK, JustifiedCopies
<1>17. CASE UpdateRefused
  <2>1. spec \in Pod
    BY DEF TypedAndJustified, TypeOK
  <2>2. worker' \in WorkerType /\ worker'.pod = spec
    BY <1>17, <2>1, IdleType DEF UpdateRefused, Finish
  <2> QED
    BY <1>17, <2>2 DEF UpdateRefused, WorkerType, TypedAndJustified, TypeOK, JustifiedCopies
<1>18. CASE UpdateFails
  <2>1. spec \in Pod
    BY DEF TypedAndJustified, TypeOK
  <2>2. worker' \in WorkerType /\ worker'.pod = spec
    BY <1>18, <2>1, IdleType DEF UpdateFails, Finish
  <2> QED
    BY <1>18, <2>2 DEF UpdateFails, Store, WorkerType, TypedAndJustified, TypeOK, JustifiedCopies
<1>19. CASE ControllerRestart
  <2>1. spec \in Pod
    BY DEF TypedAndJustified, TypeOK
  <2>2. worker' \in WorkerType /\ worker'.pod = spec
    BY <1>19, <2>1, IdleType, Zenon DEF ControllerRestart, Finish
  <2>3. cached' \in CachedType /\ cached'.pod = pod
    BY <1>19, SnapshotType, Zenon DEF ControllerRestart, TypedAndJustified, TypeOK
  <2>4. queued' \in BOOLEAN
    BY <1>19, Zenon DEF ControllerRestart
  <2> QED
    BY <1>19, <2>2, <2>3, <2>4 DEF ControllerRestart, WorkerType, CachedType, TypedAndJustified, TypeOK, JustifiedCopies
<1>20. CASE UNCHANGED vars
  BY <1>20 DEF vars, TypedAndJustified, TypeOK, JustifiedCopies
<1> QED
  BY <1>1, <1>2, <1>3, <1>4, <1>5, <1>6, <1>7, <1>8, <1>9, <1>10, <1>11, <1>12, <1>13, <1>14, <1>15, <1>16, <1>17, <1>18, <1>19, <1>20
     DEF Next, Users, Webhook, Controller, Reconciler, UpdateCall, Done

\* Every copy of the pod stays well typed and justified.
THEOREM TypedInvariant == Spec => []TypedAndJustified
<1>1. TypedAndJustified /\ [Next]_vars => TypedAndJustified'
  BY TypedStep
<1> QED
  BY TypedInit, <1>1, PTL DEF Spec

\* Type correctness of the state machine, for every instance.
THEOREM TypeTheorem == Spec => []TypeOK
<1>1. TypedAndJustified => TypeOK
  BY DEF TypedAndJustified
<1> QED
  BY TypedInvariant, <1>1, PTL

\* A pod is released only constrained, excluded or after MaxRetryCount errors
\* (processPod, pod_reconciler.go:124-233).
THEOREM JustifiedTheorem == Spec => []ReleaseIsJustified
<1>1. TypedAndJustified => ReleaseIsJustified
  BY DEF TypedAndJustified, JustifiedCopies, Justified, ReleaseIsJustified
<1> QED
  BY TypedInvariant, <1>1, PTL

-----------------------------------------------------------------------------
(***************************************************************************)
(* The inductive invariant Coherent relates the three copies of the pod:   *)
(* resource versions only grow, a cached copy with the current version is  *)
(* the stored pod, and a reconcile that started from the current version   *)
(* started from a gated pod and holds a different one, so that storing it  *)
(* makes a new version and an event.                                       *)
(***************************************************************************)

Coherent ==
    /\ rv \in Nat /\ cached.rv \in Nat /\ worker.rv \in Nat
    /\ cached.rv <= rv /\ worker.rv <= rv
    /\ phase \in {"new", "admitted"} => rv = 0 /\ ~worker.busy
    /\ phase = "live" => rv > 0
    /\ phase = "live" /\ cached.rv = rv => cached.live /\ cached.pod = pod
    /\ cached.live => cached.rv > 0
    /\ phase = "live" /\ worker.busy /\ worker.rv = rv =>
         pod.gate /\ (~worker.pod.gate \/ worker.pod.errs = pod.errs + 1)
    /\ NoLostWakeup

\* The initial state is coherent.
LEMMA CoherentInit == Init => Coherent
BY DEF Init, Coherent, NoLostWakeup, Idle

\* The pod a reconcile ends with differs from the cached pod it began with.
LEMMA ReconcileMoves ==
  ASSUME TypedAndJustified, Reconcile \/ ReconcileListError
  PROVE  /\ worker'.busy /\ worker'.rv = cached.rv
         /\ ~worker'.pod.gate \/ worker'.pod.errs = cached.pod.errs + 1
<1>1. cached.pod \in Pod /\ Justified(cached.pod) /\ cached.rv \in Nat
  BY DEF TypedAndJustified, TypeOK, JustifiedCopies
<1>2. CASE Reconcile
  <2>1. ReconcilerLists \in SUBSET PPCObjects /\ ctlCPPC \in CPPCObjects \cup {NoCPPC}
    BY DEF ReconcilerLists, TypedAndJustified, TypeOK
  <2>2. Moves(worker'.pod, cached.pod.errs)
    BY <1>1, <1>2, <2>1, ProcessListedProperties DEF Reconcile
  <2>3. worker'.busy /\ worker'.rv = cached.rv
    <3>1. \E c, q : worker' = [busy |-> TRUE, rv |-> cached.rv, cel |-> c, pod |-> q]
      BY <1>2, Zenon DEF Reconcile, processListed
    <3> QED
      BY <3>1
  <2> QED
    BY <2>2, <2>3 DEF Moves
<1>3. CASE ReconcileListError
  BY <1>1, <1>3, HandleErrorJustified DEF ReconcileListError
<1> QED
  BY <1>2, <1>3

\* Storing the result of a reconcile makes a new version.
LEMMA StoreIsAChange ==
  ASSUME TypedAndJustified, Coherent, worker.busy, Store
  PROVE  rv' = rv + 1 /\ pod' = worker.pod
<1>1. pod.errs \in Nat
  BY DEF TypedAndJustified, TypeOK, Pod
<1>2. worker.pod # pod
  BY <1>1 DEF Coherent, Store, Accepts
<1> QED
  BY <1>2 DEF Store

\* Every step keeps the copies of the pod coherent.
LEMMA CoherentStep == TypedAndJustified /\ Coherent /\ [Next]_vars => Coherent'
<1> SUFFICES ASSUME TypedAndJustified, Coherent, [Next]_vars
             PROVE  Coherent'
  OBVIOUS
<1> USE DEF apiVars, configVars, whVars, ctlVars, worldVars, Fault, NoFault, Change,
            Finish, Idle, Accepts
<1>1. CASE ChangePPC
  BY <1>1 DEF ChangePPC, Coherent, NoLostWakeup
<1>2. CASE ChangeCPPC
  BY <1>2 DEF ChangeCPPC, Coherent, NoLostWakeup
<1>3. CASE PinPod
  BY <1>3 DEF PinPod, Coherent, NoLostWakeup
<1>4. CASE DeletePod
  BY <1>4 DEF DeletePod, Coherent, NoLostWakeup
<1>5. CASE WebhookPPCEvent
  BY <1>5 DEF WebhookPPCEvent, Coherent, NoLostWakeup
<1>6. CASE WebhookCPPCEvent
  BY <1>6 DEF WebhookCPPCEvent, Coherent, NoLostWakeup
<1>7. CASE Handle
  BY <1>7 DEF Handle, Coherent, NoLostWakeup
<1>8. CASE WebhookUnavailable
  BY <1>8 DEF WebhookUnavailable, Coherent, NoLostWakeup
<1>9. CASE Persist
  BY <1>9 DEF Persist, Coherent, NoLostWakeup
<1>10. CASE PodEvent
  <2>1. cached'.rv = rv /\ cached'.pod = pod /\ (cached'.live <=> phase = "live")
    BY <1>10, Zenon DEF PodEvent
  <2>2. UNCHANGED <<phase, pod, rv>> /\ (queued' \/ ~(phase = "live"))
    BY <1>10 DEF PodEvent
  <2>3. UNCHANGED worker \/ (~worker'.busy /\ worker'.rv = 0)
    BY <1>10 DEF PodEvent
  <2> QED
    BY <2>1, <2>2, <2>3 DEF Coherent, NoLostWakeup
<1>11. CASE PPCEvent
  BY <1>11, Zenon DEF PPCEvent, Coherent, NoLostWakeup
<1>12. CASE CPPCEvent
  BY <1>12 DEF CPPCEvent, Coherent, NoLostWakeup
<1>13. CASE ReconcileNothing
  BY <1>13 DEF ReconcileNothing, Coherent, NoLostWakeup
<1>14. CASE Reconcile
  <2>1. /\ worker'.busy /\ worker'.rv = cached.rv
        /\ ~worker'.pod.gate \/ worker'.pod.errs = cached.pod.errs + 1
    BY <1>14, ReconcileMoves
  <2>2. UNCHANGED <<phase, pod, rv, cached>> /\ cached.live /\ cached.pod.gate
    BY <1>14 DEF Reconcile
  <2> QED
    BY <2>1, <2>2 DEF Coherent, NoLostWakeup
<1>15. CASE ReconcileListError
  <2>1. /\ worker'.busy /\ worker'.rv = cached.rv
        /\ ~worker'.pod.gate \/ worker'.pod.errs = cached.pod.errs + 1
    BY <1>15, ReconcileMoves
  <2>2. UNCHANGED <<phase, pod, rv, cached>> /\ cached.live /\ cached.pod.gate
    BY <1>15 DEF ReconcileListError
  <2> QED
    BY <2>1, <2>2 DEF Coherent, NoLostWakeup
<1>16. CASE UpdateSucceeds
  <2>1. UNCHANGED <<phase, cached, queued>> /\ worker.busy /\ Store /\ worker' = Idle(spec)
    BY <1>16, Zenon DEF UpdateSucceeds
  <2>2. rv' = rv + 1 /\ phase = "live"
    BY <2>1, StoreIsAChange DEF Store
  <2>3. ~worker'.busy /\ worker'.rv = 0
    BY <2>1
  <2> QED
    BY <2>1, <2>2, <2>3 DEF Coherent, NoLostWakeup
<1>17. CASE UpdateRefused
  <2>1. UNCHANGED <<phase, pod, rv, cached>> /\ queued' = TRUE /\ worker' = Idle(spec)
    BY <1>17, Zenon DEF UpdateRefused
  <2>2. ~worker'.busy /\ worker'.rv = 0
    BY <2>1
  <2> QED
    BY <2>1, <2>2 DEF Coherent, NoLostWakeup
<1>18. CASE UpdateFails
  <2>1. /\ UNCHANGED <<phase, cached>> /\ worker.busy /\ queued' = TRUE /\ worker' = Idle(spec)
        /\ UNCHANGED <<pod, rv>> \/ Store
    BY <1>18, Zenon DEF UpdateFails
  <2>2. UNCHANGED <<pod, rv>> \/ (rv' = rv + 1 /\ phase = "live")
    BY <2>1, StoreIsAChange DEF Store
  <2>3. ~worker'.busy /\ worker'.rv = 0
    BY <2>1
  <2> QED
    BY <2>1, <2>2, <2>3 DEF Coherent, NoLostWakeup
<1>19. CASE ControllerRestart
  <2>1. cached'.rv = rv /\ cached'.pod = pod /\ (cached'.live <=> phase = "live")
    BY <1>19, Zenon DEF ControllerRestart
  <2>2. UNCHANGED <<phase, pod, rv>> /\ (queued' \/ ~(phase = "live"))
    BY <1>19, Zenon DEF ControllerRestart
  <2>3. UNCHANGED worker \/ (~worker'.busy /\ worker'.rv = 0)
    BY <1>19 DEF ControllerRestart
  <2> QED
    BY <2>1, <2>2, <2>3 DEF Coherent, NoLostWakeup
<1>20. CASE UNCHANGED vars
  BY <1>20 DEF vars, Coherent, NoLostWakeup
<1> QED
  BY <1>1, <1>2, <1>3, <1>4, <1>5, <1>6, <1>7, <1>8, <1>9, <1>10, <1>11, <1>12, <1>13, <1>14, <1>15, <1>16, <1>17, <1>18, <1>19, <1>20
     DEF Next, Users, Webhook, Controller, Reconciler, UpdateCall, Done

\* The copies of the pod are coherent in every reachable state.
THEOREM CoherentInvariant == Spec => []Coherent
<1>1. TypedAndJustified /\ Coherent /\ [Next]_vars => Coherent'
  BY CoherentStep
<1> QED
  BY CoherentInit, TypedInvariant, <1>1, PTL DEF Spec

\* A stored pod that still has the gate is queued, in work, or about to be queued
\* by an event (pod_reconciler.go:104-121).
THEOREM WakeupTheorem == Spec => []NoLostWakeup
<1>1. Coherent => NoLostWakeup
  BY DEF Coherent
<1> QED
  BY CoherentInvariant, <1>1, PTL

\* Once its gate is gone the pod is never written again (pod_reconciler.go:80-111).
THEOREM ReleaseIsFinalTheorem == Spec => ReleaseIsFinal
<1>1. Coherent /\ [Next]_vars => [phase = "live" /\ ~pod.gate => pod' = pod]_vars
  <2> SUFFICES ASSUME Coherent, [Next]_vars, phase = "live", ~pod.gate
               PROVE  pod' = pod
    OBVIOUS
  <2> USE DEF apiVars, configVars, whVars, ctlVars, worldVars, Accepts
  <2>1. CASE UNCHANGED vars
    BY <2>1 DEF vars
  <2>2. CASE Users
    BY <2>2 DEF Users, ChangePPC, ChangeCPPC, PinPod, DeletePod
  <2>3. CASE Webhook
    BY <2>3 DEF Webhook, WebhookPPCEvent, WebhookCPPCEvent, Handle, WebhookUnavailable, Persist
  <2>4. CASE UpdateCall
    BY <2>4 DEF UpdateCall, UpdateSucceeds, UpdateRefused, UpdateFails, Store, Coherent
  <2>5. CASE PodEvent \/ PPCEvent \/ CPPCEvent \/ ControllerRestart \/ Reconciler
    BY <2>5 DEF PodEvent, PPCEvent, CPPCEvent, ControllerRestart, Reconciler,
                ReconcileNothing, Reconcile, ReconcileListError
  <2> QED
    BY <2>1, <2>2, <2>3, <2>4, <2>5 DEF Next, Controller, Done
<1> QED
  BY CoherentInvariant, <1>1, PTL DEF Spec, ReleaseIsFinal

-----------------------------------------------------------------------------
(***************************************************************************)
(* The retry bound.  Every gated copy of the pod has fewer than            *)
(* MaxRetryCount errors, failed List calls not counted.                    *)
(***************************************************************************)

Bounded(p) == p.gate => p.errs < MaxRetryCount + faults

BoundedCopies ==
    /\ Bounded(pod) /\ Bounded(cached.pod) /\ Bounded(worker.pod)
    /\ ~spec.gate
    /\ phase = "new" => pod.errs = 0

\* The CEL plugin leaves the error counter alone.
LEMMA CELKeepsErrors ==
  ASSUME NEW p \in Pod, NEW archs \in SUBSET Arch
  PROVE  applyCELArchitecturePlacement(p, archs).errs = p.errs
BY DEF applyCELArchitecturePlacement, applyArchitectureNodeAffinity,
       removeArchitectureFromNodeSelector, Pod

\* The webhook leaves the error counter alone.
LEMMA HandleKeepsErrors ==
  ASSUME TypeOK, Handle
  PROVE  pod'.errs = pod.errs
<1>1. PICK list \in SUBSET PPCObjects :
        LET matching == filterMatchingPPCs(list)
            labelled == webhookLabels(pod, matching)
        IN \/ pod' = labelled
           \/ \E order \in Orders(matching) :
                /\ celAtAdmission' = celArchitectures(order, "admission")
                /\ pod' = [ensureSchedulingGate(
                             applyCELArchitecturePlacement(labelled, celAtAdmission'))
                           EXCEPT !.gateLabel = "gated"]
  BY DEF Handle
<1> DEFINE matching == filterMatchingPPCs(list)
           labelled == webhookLabels(pod, matching)
           placed == applyCELArchitecturePlacement(labelled, celAtAdmission')
<1>2. labelled \in Pod /\ labelled.errs = pod.errs
  <2> DEFINE pref == IF whCPPC.platforms # {} \/ hasMatchingPPCWithPlugin(matching)
                     THEN "not-set" ELSE pod.prefLabel
  <2>1. pod \in Pod /\ pref \in {"absent", "not-set", "set"}
    BY Zenon DEF TypeOK, Pod
  <2>2. labelled = [pod EXCEPT !.prefLabel = pref, !.affLabel = "not-set", !.gateLabel = "not-set"]
    BY DEF webhookLabels
  <2> HIDE DEF pref, labelled
  <2> QED
    BY <2>1, <2>2, Zenon DEF Pod
<1>3. CASE pod' = labelled
  BY <1>2, <1>3
<1>4. CASE pod' # labelled
  <2>1. /\ celAtAdmission' \in SUBSET Arch
        /\ pod' = [ensureSchedulingGate(placed) EXCEPT !.gateLabel = "gated"]
    BY <1>1, <1>4 DEF celArchitectures
  <2> HIDE DEF labelled
  <2>2. placed \in Pod /\ placed.errs = pod.errs
    BY <1>2, <2>1, CELKeepsErrors, CELProperties
  <2> HIDE DEF placed
  <2> QED
    BY <2>1, <2>2 DEF ensureSchedulingGate, Pod
<1> QED
  BY <1>3, <1>4

\* The nodeSelector an author adds leaves the gate and the errors alone.
LEMMA PinKeeps ==
  ASSUME TypedAndJustified, PinPod
  PROVE  pod'.gate = pod.gate /\ pod'.errs = pod.errs
<1>1. pod \in Pod
  BY Zenon DEF TypedAndJustified, TypeOK
<1>2. pod' = [pod EXCEPT !.nodeSelector = TRUE]
  BY Zenon DEF PinPod
<1> QED
  BY <1>1, <1>2 DEF Pod

\* Every step keeps the bound on every copy.
LEMMA BoundedStep == TypedAndJustified /\ BoundedCopies /\ [Next]_vars => BoundedCopies'
<1> SUFFICES ASSUME TypedAndJustified, BoundedCopies, [Next]_vars
             PROVE  BoundedCopies'
  OBVIOUS
<1> USE DEF apiVars, configVars, whVars, ctlVars, worldVars, Fault, NoFault, Change
<1>1. /\ faults \in Nat /\ faults' \in Nat /\ faults <= faults'
      /\ MaxRetryCount \in Nat /\ MaxRetryCount > 0
      /\ pod.errs \in Nat /\ cached.pod.errs \in Nat /\ worker.pod.errs \in Nat
  <2>1. faults' = faults \/ faults' = faults + 1
    BY Zenon DEF Next, Users, Webhook, Controller, Reconciler, UpdateCall, Done, vars,
           ChangePPC, ChangeCPPC, PinPod, DeletePod, WebhookPPCEvent, WebhookCPPCEvent,
           Handle, WebhookLists, WebhookUnavailable, Persist, PodEvent, PPCEvent, CPPCEvent,
           ReconcileNothing, Reconcile, ReconcileListError, UpdateSucceeds, UpdateRefused,
           UpdateFails, ControllerRestart
  <2>2. faults \in Nat
    <3>1. faults \in 0 .. MaxFaults
      BY Zenon DEF TypedAndJustified, TypeOK
    <3> QED
      BY <3>1, ConfigAssumption
  <2>3. pod.errs \in Nat /\ cached.pod.errs \in Nat /\ worker.pod.errs \in Nat
    BY DEF TypedAndJustified, TypeOK, Pod
  <2> QED
    BY <2>1, <2>2, <2>3, MaxRetryAssumption
<1>2. CASE PinPod
  <2>1. pod'.gate = pod.gate /\ pod'.errs = pod.errs
    BY <1>2, PinKeeps
  <2> QED
    BY <1>1, <1>2, <2>1 DEF PinPod, BoundedCopies, Bounded
<1>3. CASE Handle
  <2>1. pod'.errs = 0
    BY <1>3, HandleKeepsErrors DEF TypedAndJustified, BoundedCopies, Handle
  <2> QED
    BY <1>1, <1>3, <2>1 DEF Handle, BoundedCopies, Bounded
<1>4. CASE PodEvent \/ ControllerRestart
  <2> DEFINE l == phase = "live"
  <2>1. UNCHANGED <<phase, pod, spec>> /\ cached' = [live |-> l, rv |-> rv, pod |-> pod]
    BY <1>4, Zenon DEF PodEvent, ControllerRestart
  <2> HIDE DEF l
  <2>2. cached'.pod = pod
    BY <2>1
  <2>3. worker' = worker \/ worker' = Idle(spec)
    BY <1>4, Zenon DEF PodEvent, ControllerRestart, Finish
  <2>4. worker' = worker \/ worker'.pod = spec
    BY <2>3 DEF Idle
  <2>5. Bounded(pod)' /\ Bounded(cached.pod)'
    BY <1>1, <2>1, <2>2 DEF BoundedCopies, Bounded
  <2>6. Bounded(worker.pod)'
    BY <1>1, <2>1, <2>4 DEF BoundedCopies, Bounded
  <2> QED
    BY <2>1, <2>5, <2>6 DEF BoundedCopies
<1>5. CASE Reconcile
  <2>1. cached.pod \in Pod /\ Justified(cached.pod) /\ cached.rv \in Nat
    BY DEF TypedAndJustified, TypeOK, JustifiedCopies
  <2>2. ReconcilerLists \in SUBSET PPCObjects /\ ctlCPPC \in CPPCObjects \cup {NoCPPC}
    BY DEF ReconcilerLists, TypedAndJustified, TypeOK
  <2>3. worker' \in WorkerType /\ Moves(worker'.pod, cached.pod.errs)
    BY <1>5, <2>1, <2>2, ProcessListedProperties DEF Reconcile
  <2>4. worker'.pod.errs \in Nat
    BY <2>3 DEF WorkerType, Pod
  <2>5. Bounded(worker.pod)'
    BY <1>1, <2>3, <2>4 DEF Moves, Bounded
  <2> QED
    BY <1>1, <1>5, <2>5 DEF Reconcile, BoundedCopies, Bounded
<1>6. CASE ReconcileListError
  <2>1. cached.pod \in Pod /\ Justified(cached.pod)
    BY DEF TypedAndJustified, TypeOK, JustifiedCopies
  <2>2. worker'.pod = handleError(cached.pod) /\ faults' = faults + 1 /\ cached.pod.gate
    BY <1>6 DEF ReconcileListError
  <2>3. worker'.pod.errs = cached.pod.errs + 1
    BY <2>1, <2>2, HandleErrorJustified
  <2>4. Bounded(worker.pod)'
    BY <1>1, <2>2, <2>3 DEF BoundedCopies, Bounded
  <2>5. UNCHANGED <<phase, pod, cached, spec>>
    BY <1>6, Zenon DEF ReconcileListError
  <2> QED
    BY <1>1, <2>4, <2>5 DEF BoundedCopies, Bounded
<1>7. CASE UpdateCall
  <2>1. UNCHANGED <<phase, cached, spec>> /\ worker' = Idle(spec)
    BY <1>7 DEF UpdateCall, UpdateSucceeds, UpdateRefused, UpdateFails, Finish
  <2>2. pod' = pod \/ (phase = "live" /\ pod' = worker.pod)
    BY <1>7 DEF UpdateCall, UpdateSucceeds, UpdateRefused, UpdateFails, Store, Accepts
  <2>3. worker'.pod = spec
    BY <2>1 DEF Idle
  <2>4. Bounded(pod)' /\ (phase' = "new" => pod'.errs = 0)
    BY <1>1, <2>1, <2>2 DEF BoundedCopies, Bounded
  <2>5. Bounded(cached.pod)' /\ Bounded(worker.pod)'
    BY <1>1, <2>1, <2>3 DEF BoundedCopies, Bounded
  <2> QED
    BY <2>1, <2>4, <2>5 DEF BoundedCopies
<1>8. CASE ChangePPC \/ ChangeCPPC \/ DeletePod \/ WebhookPPCEvent \/ WebhookCPPCEvent
           \/ WebhookUnavailable \/ Persist \/ PPCEvent \/ CPPCEvent \/ ReconcileNothing
           \/ UNCHANGED vars
  <2>1. UNCHANGED <<pod, cached, worker, spec>> /\ (phase' = "new" => phase = "new")
    BY <1>8, Zenon DEF ChangePPC, ChangeCPPC, DeletePod, WebhookPPCEvent, WebhookCPPCEvent,
                WebhookUnavailable, Persist, PPCEvent, CPPCEvent, ReconcileNothing, vars
  <2> QED
    BY <1>1, <2>1 DEF BoundedCopies, Bounded
<1> QED
  BY <1>2, <1>3, <1>4, <1>5, <1>6, <1>7, <1>8
     DEF Next, Users, Webhook, Controller, Reconciler, Done

\* The retry loop is bounded for every MaxRetryCount (pod_model.go:423-432 and
\* pod_reconciler.go:131-146, 207-232).
THEOREM RetriesTheorem == Spec => []RetriesAreBounded
<1>1. Init => BoundedCopies
  <2> SUFFICES ASSUME Init PROVE BoundedCopies
    OBVIOUS
  <2>1. ~spec.gate /\ spec.errs = 0
    BY ConfigAssumption, Zenon DEF Init
  <2>2. pod = spec /\ cached.pod = spec /\ worker.pod = spec
    BY DEF Init, Idle
  <2> QED
    BY <2>1, <2>2 DEF BoundedCopies, Bounded
<1>2. TypedAndJustified /\ BoundedCopies /\ [Next]_vars => BoundedCopies'
  BY BoundedStep
<1>3. BoundedCopies => RetriesAreBounded
  BY DEF BoundedCopies, Bounded, RetriesAreBounded
<1> QED
  BY TypedInvariant, <1>1, <1>2, <1>3, PTL DEF Spec

-----------------------------------------------------------------------------
(***************************************************************************)
(* PodPlacement implements SchedulingGate.  Besides Coherent, the mapping  *)
(* needs that the gate and its label agree: no pod is marked as released   *)
(* before it is stored, and a reconcile that removes the gate sets the     *)
(* label too.                                                              *)
(***************************************************************************)

Labelled(p) == p.gate \/ p.gateLabel = "removed"

LabelsAgree ==
    /\ phase \in {"new", "admitted"} => pod.gateLabel # "removed"
    /\ worker.busy => Labelled(worker.pod)

\* Configurations without CEL leave the gate alone.
LEMMA ConfigurationsKeepGate ==
  ASSUME NEW p \in Pod, NEW order
  PROVE  applyConfigurations(p, order, {}).gate = p.gate
<1>1. applyCELArchitecturePlacement(p, {}) = p
  BY DEF applyCELArchitecturePlacement
<1>2. applyConfigurations(p, order, {}) \in
        {SetPreferredArchNodeAffinity(p, Append(order, ctlCPPC)),
         trackSkippedMatchingConfigs(p, Append(order, ctlCPPC))}
  BY <1>1 DEF applyConfigurations
<1>3. \A c : /\ SetPreferredArchNodeAffinity(p, c).gate = p.gate
             /\ trackSkippedMatchingConfigs(p, c).gate = p.gate
  BY DEF SetPreferredArchNodeAffinity, trackSkippedMatchingConfigs, Pod
<1> QED
  BY <1>2, <1>3

\* A pod without its gate has been given the label.
LEMMA RemoveGateLabels ==
  ASSUME NEW p \in Pod
  PROVE  Labelled(RemoveSchedulingGate(p))
BY DEF RemoveSchedulingGate, Labelled, Pod

\* An inspection keeps the gate or labels the pod as released.
LEMMA InspectLabels ==
  ASSUME NEW p \in Pod, p.gate, NEW fails \in BOOLEAN,
         ctlCPPC \in CPPCObjects \cup {NoCPPC}
  PROVE  Labelled(inspectImages(p, fails))
<1> DEFINE failed == handleError(p)
           back == setRequiredNodeAffinityToFallbackArchitecture(failed, ctlCPPC.fallback)
<1>1. failed \in Pod /\ failed.gate
  <2>1. failed \in Pod
    BY PodUpdates
  <2> QED
    BY <2>1 DEF handleError, Pod
<1>2. SetNodeAffinityArchRequirement(p, images) \in Pod
  BY SetNodeAffinityProperties
<1>3. ctlCPPC.fallback \in SUBSET Arch
  BY ConfigAssumption DEF NoCPPC, ClusterPodPlacementConfig
<1>4. inspectImages(p, fails) \in
        {RemoveSchedulingGate(SetNodeAffinityArchRequirement(p, images)), failed,
         RemoveSchedulingGate(failed)}
      \/ (ctlCPPC.fallback # {} /\ inspectImages(p, fails) = RemoveSchedulingGate(back))
  BY DEF inspectImages
<1> HIDE DEF failed
<1>5. ctlCPPC.fallback # {} => back \in Pod
  BY <1>1, <1>3, FallbackProperties
<1> HIDE DEF back
<1>6. Labelled(failed)
  BY <1>1 DEF Labelled
<1> QED
  BY <1>1, <1>2, <1>4, <1>5, <1>6, RemoveGateLabels

\* processPod keeps the gate of a gated pod or labels the pod as released.
LEMMA ProcessListedLabels ==
  ASSUME NEW p \in Pod, Justified(p), p.gate, NEW list \in SUBSET PPCObjects,
         ctlCPPC \in CPPCObjects \cup {NoCPPC}, processListed(p, list)
  PROVE  Labelled(worker'.pod)
<1> DEFINE matching == filterMatchingPPCs(list)
           seen == IF p.excluded THEN p ELSE publishIgnorePodIfSelected(p)
<1>1. matching \in SUBSET PPCObjects
  BY DEF filterMatchingPPCs
<1>2. seen \in Pod /\ seen.gate
  <2>1. seen \in Pod
    BY PodUpdates
  <2> QED
    BY <2>1, Zenon DEF publishIgnorePodIfSelected, Pod
<1>3. CASE shouldIgnorePod(p, ctlCPPC, matching)
  <2>1. worker' = [busy |-> TRUE, rv |-> cached.rv, cel |-> {}, pod |-> RemoveSchedulingGate(seen)]
    BY <1>3, Zenon DEF processListed
  <2> HIDE DEF seen, matching
  <2>2. worker'.pod = RemoveSchedulingGate(seen)
    BY <2>1
  <2> QED
    BY <1>2, <2>2, RemoveGateLabels
<1>4. CASE ~shouldIgnorePod(p, ctlCPPC, matching)
  <2>1. PICK order \in Orders(matching), fails \in BOOLEAN :
          LET cel == celArchitectures(order, "stored")
              configured == applyConfigurations(seen, order, cel)
          IN worker' = [busy |-> TRUE, rv |-> cached.rv, cel |-> cel,
                        pod |-> IF cel # {} THEN RemoveSchedulingGate(configured)
                                ELSE inspectImages(configured, fails)]
    BY <1>4, Zenon DEF processListed
  <2> DEFINE cel == celArchitectures(order, "stored")
             configured == applyConfigurations(seen, order, cel)
  <2>2. cel \in SUBSET Arch
    BY DEF celArchitectures
  <2>3. worker'.pod = IF cel # {} THEN RemoveSchedulingGate(configured)
                      ELSE inspectImages(configured, fails)
    BY <2>1
  <2> HIDE DEF seen, cel, matching
  <2>4. configured \in Pod /\ (cel = {} => configured.gate)
    BY <1>1, <1>2, <2>2, ApplyConfigurationsProperties, ConfigurationsKeepGate, Zenon
  <2> HIDE DEF configured
  <2>5. CASE cel # {}
    BY <2>3, <2>4, <2>5, RemoveGateLabels
  <2>6. CASE cel = {}
    BY <2>3, <2>4, <2>6, InspectLabels
  <2> QED
    BY <2>5, <2>6
<1> QED
  BY <1>3, <1>4

\* The webhook does not mark a pod as released.
LEMMA HandleLabels ==
  ASSUME TypeOK, Handle
  PROVE  pod'.gateLabel # "removed"
<1>1. PICK list \in SUBSET PPCObjects :
        LET matching == filterMatchingPPCs(list)
            labelled == webhookLabels(pod, matching)
        IN \/ pod' = labelled
           \/ \E order \in Orders(matching) :
                /\ celAtAdmission' = celArchitectures(order, "admission")
                /\ pod' = [ensureSchedulingGate(
                             applyCELArchitecturePlacement(labelled, celAtAdmission'))
                           EXCEPT !.gateLabel = "gated"]
  BY DEF Handle
<1> DEFINE labelled == webhookLabels(pod, filterMatchingPPCs(list))
           placed == applyCELArchitecturePlacement(labelled, celAtAdmission')
<1>2. labelled \in Pod /\ labelled.gateLabel = "not-set"
  <2> DEFINE pref == IF whCPPC.platforms # {} \/ hasMatchingPPCWithPlugin(filterMatchingPPCs(list))
                     THEN "not-set" ELSE pod.prefLabel
  <2>1. pod \in Pod /\ pref \in {"absent", "not-set", "set"}
    BY DEF TypeOK, Pod
  <2>2. labelled = [pod EXCEPT !.prefLabel = pref, !.affLabel = "not-set", !.gateLabel = "not-set"]
    BY DEF webhookLabels
  <2> HIDE DEF pref, labelled
  <2> QED
    BY <2>1, <2>2, Zenon DEF Pod
<1>3. CASE pod' = labelled
  BY <1>2, <1>3
<1>4. CASE pod' # labelled
  <2>1. /\ celAtAdmission' \in SUBSET Arch
        /\ pod' = [ensureSchedulingGate(placed) EXCEPT !.gateLabel = "gated"]
    BY <1>1, <1>4 DEF celArchitectures
  <2> HIDE DEF labelled
  <2>2. placed \in Pod
    BY <1>2, <2>1, CELProperties
  <2> HIDE DEF placed
  <2> QED
    BY <2>1, <2>2 DEF ensureSchedulingGate, Pod
<1> QED
  BY <1>3, <1>4

\* Every step keeps the gate and its label in agreement.
LEMMA LabelsStep == TypedAndJustified /\ Coherent /\ LabelsAgree /\ [Next]_vars => LabelsAgree'
<1> SUFFICES ASSUME TypedAndJustified, Coherent, LabelsAgree, [Next]_vars
             PROVE  LabelsAgree'
  OBVIOUS
<1> USE DEF apiVars, configVars, whVars, ctlVars, worldVars
<1>1. CASE Handle
  BY <1>1, HandleLabels DEF Handle, TypedAndJustified, LabelsAgree
<1>2. CASE Reconcile
  <2>1. cached.pod \in Pod /\ Justified(cached.pod)
    BY DEF TypedAndJustified, TypeOK, JustifiedCopies
  <2>2. ReconcilerLists \in SUBSET PPCObjects /\ ctlCPPC \in CPPCObjects \cup {NoCPPC}
    BY DEF ReconcilerLists, TypedAndJustified, TypeOK
  <2>3. Labelled(worker'.pod)
    BY <1>2, <2>1, <2>2, ProcessListedLabels DEF Reconcile
  <2> QED
    BY <1>2, <2>3 DEF Reconcile, LabelsAgree
<1>3. CASE ReconcileListError
  <2>1. cached.pod \in Pod /\ cached.pod.gate /\ worker'.pod = handleError(cached.pod)
    BY <1>3 DEF ReconcileListError, TypedAndJustified, TypeOK
  <2>2. Labelled(worker'.pod)
    BY <2>1 DEF handleError, Labelled, Pod
  <2> QED
    BY <1>3, <2>2 DEF ReconcileListError, LabelsAgree
<1>4. CASE UpdateCall
  <2>1. worker' = Idle(spec) /\ UNCHANGED phase /\ (pod' = pod \/ phase = "live")
    BY <1>4, Zenon DEF UpdateCall, UpdateSucceeds, UpdateRefused, UpdateFails, Finish, Store, Accepts
  <2>2. ~worker'.busy
    BY <2>1 DEF Idle
  <2> QED
    BY <2>1, <2>2 DEF LabelsAgree
<1>5. CASE ControllerRestart
  <2>1. ~worker'.busy /\ UNCHANGED <<phase, pod>>
    BY <1>5, Zenon DEF ControllerRestart, Finish, Idle
  <2> QED
    BY <2>1 DEF LabelsAgree
<1>6. CASE Users
  <2>1. UNCHANGED worker /\ (phase' \in {"new", "admitted"} => UNCHANGED <<phase, pod>>)
    BY <1>6 DEF Users, ChangePPC, ChangeCPPC, PinPod, DeletePod
  <2> QED
    BY <2>1 DEF LabelsAgree
<1>7. CASE \/ WebhookPPCEvent \/ WebhookCPPCEvent \/ WebhookUnavailable \/ Persist
           \/ PodEvent \/ PPCEvent \/ CPPCEvent \/ ReconcileNothing \/ UNCHANGED vars
  <2>1. UNCHANGED <<worker, pod>> /\ (phase' \in {"new", "admitted"} => phase \in {"new", "admitted"})
    BY <1>7, Zenon DEF WebhookPPCEvent, WebhookCPPCEvent, WebhookUnavailable, Persist, PodEvent,
                PPCEvent, CPPCEvent, ReconcileNothing, vars
  <2> QED
    BY <2>1 DEF LabelsAgree
<1> QED
  BY <1>1, <1>2, <1>3, <1>4, <1>5, <1>6, <1>7
     DEF Next, Webhook, Controller, Reconciler, Done

\* Storing the result of a reconcile writes or releases a gated pod.
LEMMA StoreImplements ==
  ASSUME TypedAndJustified, Coherent, LabelsAgree, worker.busy, Store, UNCHANGED phase, pod' \in Pod
  PROVE  Gate!Next
<1>1. phase = "live" /\ pod.gate /\ pod' = worker.pod /\ worker.pod \in Pod
  BY DEF Store, Accepts, Coherent, TypedAndJustified, TypeOK
<1>2. Justified(pod') /\ Labelled(pod')
  BY <1>1 DEF TypedAndJustified, JustifiedCopies, LabelsAgree
<1>3. GateState = "gated"
  BY <1>1 DEF GateState
<1>4. CASE pod'.gate
  <2>1. GateState' = "gated"
    BY <1>1, <1>4 DEF GateState
  <2> QED
    BY <1>3, <2>1 DEF Gate!Next, Gate!Write
<1>5. CASE ~pod'.gate
  <2>1. GateState' = "released"
    BY <1>1, <1>2, <1>5 DEF GateState, Labelled
  <2>2. MayBeScheduled(pod')
    BY <1>2, <1>5 DEF MayBeScheduled, Justified, Labelled
  <2> QED
    BY <1>3, <2>1, <2>2 DEF Gate!Next, Gate!Release
<1> QED
  BY <1>4, <1>5

\* Every step of PodPlacement is a step of SchedulingGate or leaves its state alone.
LEMMA GateStep ==
  TypedAndJustified /\ TypedAndJustified' /\ Coherent /\ LabelsAgree /\ [Next]_vars
    => [Gate!Next]_Gate!vars
<1> SUFFICES ASSUME TypedAndJustified, TypedAndJustified', Coherent, LabelsAgree, [Next]_vars
             PROVE  Gate!Next \/ UNCHANGED <<GateState, pod>>
  BY DEF Gate!vars
<1> USE DEF apiVars, configVars, whVars, ctlVars, worldVars
<1>1. pod' \in Pod /\ phase \in {"new", "admitted", "live", "deleted"}
  BY DEF TypedAndJustified, TypeOK
<1>2. UNCHANGED <<phase, pod>> => UNCHANGED <<GateState, pod>>
  BY DEF GateState
<1>3. CASE Handle \/ WebhookUnavailable
  <2>1. phase = "new" /\ phase' = "admitted"
    BY <1>3 DEF Handle, WebhookUnavailable
  <2>2. GateState = "submitted" /\ GateState' = "submitted"
    BY <2>1 DEF GateState
  <2> QED
    BY <1>1, <2>2 DEF Gate!Next, Gate!Mutate
<1>4. CASE Persist
  <2>1. phase = "admitted" /\ phase' = "live" /\ pod' = pod /\ pod.gateLabel # "removed"
    BY <1>4 DEF Persist, LabelsAgree
  <2>2. GateState = "submitted" /\ GateState' \in {"open", "gated"}
    BY <2>1 DEF GateState
  <2> QED
    BY <2>1, <2>2 DEF Gate!Next, Gate!Persist
<1>5. CASE PinPod
  <2>1. phase = "live" /\ pod.gate /\ phase' = phase /\ pod'.gate = pod.gate
    BY <1>5, PinKeeps, Zenon DEF PinPod
  <2>2. GateState = "gated" /\ GateState' = "gated"
    BY <2>1 DEF GateState
  <2> QED
    BY <1>1, <2>2 DEF Gate!Next, Gate!Write
<1>6. CASE DeletePod
  <2>1. phase = "live" /\ phase' = "deleted" /\ pod' = pod
    BY <1>6 DEF DeletePod
  <2>2. GateState \in {"open", "gated", "released"} /\ GateState' = "gone"
    BY <2>1 DEF GateState
  <2> QED
    BY <2>1, <2>2 DEF Gate!Next, Gate!Delete
<1>7. CASE UpdateCall
  <2>1. worker.busy /\ UNCHANGED phase /\ (pod' = pod \/ Store)
    BY <1>7 DEF UpdateCall, UpdateSucceeds, UpdateRefused, UpdateFails
  <2> QED
    BY <1>1, <1>2, <2>1, StoreImplements
<1>8. CASE \/ ChangePPC \/ ChangeCPPC \/ WebhookPPCEvent \/ WebhookCPPCEvent \/ PodEvent
           \/ PPCEvent \/ CPPCEvent \/ Reconciler \/ ControllerRestart \/ UNCHANGED vars
  <2>1. UNCHANGED <<phase, pod>>
    BY <1>8, Zenon DEF ChangePPC, ChangeCPPC, WebhookPPCEvent, WebhookCPPCEvent, PodEvent,
                PPCEvent, CPPCEvent, Reconciler, ReconcileNothing, Reconcile,
                ReconcileListError, ControllerRestart, vars
  <2> QED
    BY <1>2, <2>1
<1> QED
  BY <1>3, <1>4, <1>5, <1>6, <1>7, <1>8
     DEF Next, Users, Webhook, Controller, Done

\* The webhook, the reconciler and their caches implement the scheduling gate, for
\* all pods, images and configurations (pod_reconciler.go:70-233).
THEOREM GateTheorem == Spec => ImplementsGate
<1>1. Init => LabelsAgree /\ Gate!Init
  <2> SUFFICES ASSUME Init PROVE LabelsAgree /\ Gate!Init
    OBVIOUS
  <2>1. pod \in Pod /\ pod.gateLabel = "absent" /\ phase = "new" /\ ~worker.busy
    BY ConfigAssumption DEF Init, Idle
  <2> QED
    BY <2>1 DEF LabelsAgree, Gate!Init, GateState
<1>2. TypedAndJustified /\ Coherent /\ LabelsAgree /\ [Next]_vars => LabelsAgree'
  BY LabelsStep
<1>3. TypedAndJustified /\ TypedAndJustified' /\ Coherent /\ LabelsAgree /\ [Next]_vars
        => [Gate!Next]_Gate!vars
  BY GateStep
<1> QED
  BY TypedInvariant, CoherentInvariant, <1>1, <1>2, <1>3, PTL DEF Spec, ImplementsGate, Gate!Spec

=============================================================================
