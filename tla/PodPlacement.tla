---------------------------- MODULE PodPlacement ----------------------------
(***************************************************************************)
(* One pod, from its submission to the removal of its scheduling gate: the *)
(* mutating webhook, the API server, and the pod reconciler with the       *)
(* informer caches both processes read.                                    *)
(*                                                                         *)
(* The API server holds the pod (pod, rv, phase) and the configurations    *)
(* (ppcs, cppc).  The webhook process reads whPPCs and whCPPC, the         *)
(* controller process reads cached, ctlPPCs and ctlCPPC: copies that an    *)
(* event action brings up to date at any later time, so each may be stale. *)
(* A watch delivers the versions of an object in order; an event action    *)
(* that jumps to the current version loses no behaviour, because it may    *)
(* also be taken right after the version is written.                       *)
(*                                                                         *)
(* Reconcile is two steps: reading the caches, processing and inspecting   *)
(* (Reconcile), and the Update call (Update...).  The pods of a namespace  *)
(* share nothing but the configurations, so one pod is enough.             *)
(***************************************************************************)
EXTENDS PodModel

CONSTANTS
    PodSpecs,      \* the pods users submit
    ImageChoices,  \* for each pod, the set of the architecture sets of its images
    PPCObjects,    \* the PodPlacementConfigs users create
    CPPCObjects,   \* the ClusterPodPlacementConfigs users create
    MaxChanges,    \* bound: edits of configurations and of the pod by users
    MaxFaults      \* bound: failed API calls, lost answers and restarts

ASSUME ConfigAssumption ==
    /\ PodSpecs \subseteq Pod
    /\ \A s \in PodSpecs :
         /\ ~s.gate /\ s.gateLabel = "absent" /\ s.affLabel = "absent"
         /\ s.sources = {} /\ s.errs = 0 /\ s.fallback = {}
         /\ \A i \in DOMAIN s.required : s.required[i] # <<>>
    /\ ImageChoices \subseteq (SUBSET SUBSET Arch) \ {{}}
    /\ PPCObjects \subseteq PodPlacementConfig /\ IsFiniteSet(PPCObjects)
    /\ \A c \in PPCObjects :
         (c.platforms # {} \/ \E m \in CELMoment : c.cel[m] # {}) => c.plugins
    /\ CPPCObjects \subseteq ClusterPodPlacementConfig
    /\ MaxChanges \in Nat /\ MaxFaults \in Nat

VARIABLES
    \* API server
    phase,    \* "new", "admitted" (webhook answered), "live", "deleted"
    pod,      \* the stored pod
    rv,       \* its resource version
    ppcs,     \* the stored PodPlacementConfigs
    cppc,     \* the stored ClusterPodPlacementConfig
    \* webhook process
    whPPCs, whSynced, whCPPC,
    \* controller process
    cached,   \* informer copy of the pod: [live, rv, pod]
    queued,   \* the pod's key is in the work queue
    worker,   \* reconcile in progress: [busy, rv, pod, cel]
    ctlPPCs, ctlCPPC,
    \* the world
    images,   \* what the registry holds for the pod's images
    spec,     \* the pod as the user submitted it
    celAtAdmission, \* architectures the webhook's CEL evaluation applied
    changes, faults

apiVars == <<phase, pod, rv>>
configVars == <<ppcs, cppc>>
whVars == <<whPPCs, whSynced, whCPPC>>
ctlVars == <<cached, queued, worker, ctlPPCs, ctlCPPC>>
worldVars == <<images, spec, celAtAdmission>>
vars == <<apiVars, configVars, whVars, ctlVars, worldVars, changes, faults>>

Idle(p) == [busy |-> FALSE, rv |-> 0, pod |-> p, cel |-> {}]

Init ==
    /\ spec \in PodSpecs /\ pod = spec
    /\ images \in ImageChoices
    /\ phase = "new" /\ rv = 0
    /\ ppcs = {} /\ cppc \in CPPCObjects \cup {NoCPPC}
    /\ whPPCs = {} /\ whSynced = FALSE /\ whCPPC = NoCPPC
    /\ cached = [live |-> FALSE, rv |-> 0, pod |-> spec]
    /\ queued = FALSE
    /\ worker = Idle(spec)
    /\ ctlPPCs = {} /\ ctlCPPC = NoCPPC
    /\ celAtAdmission = {}
    /\ changes = 0 /\ faults = 0

Fault == faults < MaxFaults /\ faults' = faults + 1
NoFault == faults' = faults
Change == changes < MaxChanges /\ changes' = changes + 1

-----------------------------------------------------------------------------
\* Users

\* Create, update or delete a PodPlacementConfig (one object per name).
ChangePPC ==
    /\ Change
    /\ \/ \E c \in PPCObjects \ ppcs : ppcs' = {d \in ppcs : d.name # c.name} \cup {c}
       \/ \E c \in ppcs : ppcs' = ppcs \ {c}
    /\ UNCHANGED <<apiVars, cppc, whVars, ctlVars, worldVars, faults>>

ChangeCPPC ==
    /\ Change
    /\ cppc' \in (CPPCObjects \cup {NoCPPC}) \ {cppc}
    /\ UNCHANGED <<apiVars, ppcs, whVars, ctlVars, worldVars, faults>>

\* A user pins a gated pod to an architecture; the API server allows additions.
PinPod ==
    /\ phase = "live" /\ pod.gate /\ ~pod.nodeSelector
    /\ Change
    /\ pod' = [pod EXCEPT !.nodeSelector = TRUE]
    /\ rv' = rv + 1
    /\ UNCHANGED <<phase, configVars, whVars, ctlVars, worldVars, faults>>

DeletePod ==
    /\ phase = "live"
    /\ Change
    /\ phase' = "deleted" /\ rv' = rv + 1
    /\ UNCHANGED <<pod, configVars, whVars, ctlVars, worldVars, faults>>

-----------------------------------------------------------------------------
\* The webhook process

WebhookPPCEvent ==
    /\ ~whSynced \/ whPPCs # ppcs
    /\ whPPCs' = ppcs /\ whSynced' = TRUE
    /\ UNCHANGED <<apiVars, configVars, whCPPC, ctlVars, worldVars, changes, faults>>

WebhookCPPCEvent ==
    /\ whCPPC # cppc
    /\ whCPPC' = cppc
    /\ UNCHANGED <<apiVars, configVars, whPPCs, whSynced, ctlVars, worldVars, changes, faults>>

\* The configurations Handle works with: the cache; the API server's answer when
\* the cache is empty and not synced yet; nothing when the read it needs fails.
WebhookLists(list) ==
    \/ list = (IF whPPCs = {} /\ ~whSynced THEN ppcs ELSE whPPCs) /\ NoFault
    \/ list = {} /\ Fault

webhookLabels(p, matching) ==
    [p EXCEPT !.prefLabel = IF whCPPC.platforms # {} \/ hasMatchingPPCWithPlugin(matching)
                            THEN "not-set" ELSE @,
              !.affLabel = "not-set", !.gateLabel = "not-set"]

Handle ==
    /\ phase = "new"
    /\ \E list \in SUBSET PPCObjects :
         /\ WebhookLists(list)
         /\ LET matching == filterMatchingPPCs(list)
                labelled == webhookLabels(pod, matching)
            IN IF shouldIgnorePod(labelled, whCPPC, matching)
               THEN pod' = labelled /\ UNCHANGED celAtAdmission
               ELSE \E order \in Orders(matching) :
                      /\ celAtAdmission' = celArchitectures(order, "admission")
                      /\ pod' = [ensureSchedulingGate(
                                   applyCELArchitecturePlacement(labelled, celAtAdmission'))
                                 EXCEPT !.gateLabel = "gated"]
    /\ phase' = "admitted"
    /\ UNCHANGED <<rv, configVars, whVars, ctlVars, images, spec, changes>>

\* failurePolicy: Ignore.  The pod is admitted as submitted.
WebhookUnavailable ==
    /\ phase = "new"
    /\ Fault
    /\ phase' = "admitted"
    /\ UNCHANGED <<pod, rv, configVars, whVars, ctlVars, worldVars, changes>>

\* The API server stores the admitted pod.
Persist ==
    /\ phase = "admitted"
    /\ phase' = "live" /\ rv' = 1
    /\ UNCHANGED <<pod, configVars, whVars, ctlVars, worldVars, changes, faults>>

-----------------------------------------------------------------------------
\* The controller process: watch events

PodEvent ==
    /\ cached.rv # rv
    /\ cached' = [live |-> phase = "live", rv |-> rv, pod |-> pod]
    /\ queued' = TRUE
    /\ UNCHANGED <<apiVars, configVars, whVars, worker, ctlPPCs, ctlCPPC, worldVars,
                   changes, faults>>

\* mapPPCToPods: the cached pods labelled as gated are queued again.
mapPPCToPods == cached.live /\ cached.pod.gateLabel = "gated"

PPCEvent ==
    /\ ctlPPCs # ppcs
    /\ ctlPPCs' = ppcs
    /\ queued' = (queued \/ mapPPCToPods)
    /\ UNCHANGED <<apiVars, configVars, whVars, cached, worker, ctlCPPC, worldVars,
                   changes, faults>>

CPPCEvent ==
    /\ ctlCPPC # cppc
    /\ ctlCPPC' = cppc
    /\ UNCHANGED <<apiVars, configVars, whVars, cached, queued, worker, ctlPPCs, worldVars,
                   changes, faults>>

-----------------------------------------------------------------------------
\* The controller process: Reconcile

\* Reading the image-based requirement after the configurations are applied.
\* The inspection succeeds or fails; a failure is persisted with the pod and
\* retried by the event of that very update.
inspectImages(p, fails) ==
    IF ~fails \/ isNodeSelectorConfiguredForArchitecture(p)
    THEN RemoveSchedulingGate(SetNodeAffinityArchRequirement(p, images))
    ELSE LET failed == handleError(p)
         IN IF ~maxRetries(failed) THEN failed
            ELSE RemoveSchedulingGate(
                   IF ctlCPPC.fallback = {} THEN failed
                   ELSE setRequiredNodeAffinityToFallbackArchitecture(failed, ctlCPPC.fallback))

\* applyMatchingPPCs and the cluster-wide configuration: CEL always, preferences
\* only when the pod came without any on the architecture.
applyConfigurations(p, order, cel) ==
    LET configs == Append(order, ctlCPPC)
        placed == applyCELArchitecturePlacement(p, cel)
    IN IF isPreferredAffinityConfiguredForArchitecture(p)
       THEN trackSkippedMatchingConfigs(placed, configs)
       ELSE SetPreferredArchNodeAffinity(placed, configs)

\* processPod once the configurations are listed; the result is worker'.
processListed(p, list) ==
    LET matching == filterMatchingPPCs(list)
        seen == IF p.excluded THEN p ELSE publishIgnorePodIfSelected(p)
    IN IF shouldIgnorePod(p, ctlCPPC, matching)
       THEN worker' = [busy |-> TRUE, rv |-> cached.rv, cel |-> {},
                       pod |-> RemoveSchedulingGate(seen)]
       ELSE \E order \in Orders(matching), fails \in BOOLEAN :
              LET cel == celArchitectures(order, "stored")
                  configured == applyConfigurations(seen, order, cel)
              IN worker' = [busy |-> TRUE, rv |-> cached.rv, cel |-> cel,
                            pod |-> IF cel # {} THEN RemoveSchedulingGate(configured)
                                    ELSE inspectImages(configured, fails)]

\* An empty cache is verified with a read of the API server.
ReconcilerLists == IF ctlPPCs = {} THEN ppcs ELSE ctlPPCs

\* A key whose pod is gone, or has no gate, is dropped.
ReconcileNothing ==
    /\ queued /\ ~worker.busy
    /\ ~cached.live \/ ~cached.pod.gate
    /\ queued' = FALSE
    /\ UNCHANGED <<apiVars, configVars, whVars, cached, worker, ctlPPCs, ctlCPPC, worldVars,
                   changes, faults>>

\* Mutant: the gate of the cached pod is not looked at.
reconcileAnyPod ==
    /\ queued /\ ~worker.busy
    /\ cached.live
    /\ queued' = FALSE
    /\ processListed(cached.pod, ReconcilerLists)
    /\ UNCHANGED <<apiVars, configVars, whVars, cached, ctlPPCs, ctlCPPC, worldVars,
                   changes, faults>>

Reconcile ==
    /\ queued /\ ~worker.busy
    /\ cached.live /\ cached.pod.gate
    /\ queued' = FALSE
    /\ processListed(cached.pod, ReconcilerLists)
    /\ UNCHANGED <<apiVars, configVars, whVars, cached, ctlPPCs, ctlCPPC, worldVars,
                   changes, faults>>

\* Listing the configurations fails: counted as an inspection error, gate kept.
ReconcileListError ==
    /\ queued /\ ~worker.busy
    /\ cached.live /\ cached.pod.gate
    /\ Fault
    /\ queued' = FALSE
    /\ worker' = [busy |-> TRUE, rv |-> cached.rv, cel |-> {}, pod |-> handleError(cached.pod)]
    /\ UNCHANGED <<apiVars, configVars, whVars, cached, ctlPPCs, ctlCPPC, worldVars, changes>>

\* The API server stores an update of the version it holds, if it is valid.
Accepts == phase = "live" /\ worker.rv = rv /\ UpdateAccepted(pod, worker.pod)

\* An update that changes nothing gets no new version, and causes no event.
Store ==
    /\ Accepts
    /\ pod' = worker.pod
    /\ rv' = IF worker.pod = pod THEN rv ELSE rv + 1

Finish == worker' = Idle(spec)

UpdateSucceeds ==
    /\ worker.busy
    /\ Store
    /\ Finish
    /\ UNCHANGED <<phase, configVars, whVars, cached, queued, ctlPPCs, ctlCPPC, worldVars,
                   changes, faults>>

\* Not found, conflict or invalid: the error requeues the key.
UpdateRefused ==
    /\ worker.busy /\ ~Accepts
    /\ queued' = TRUE
    /\ Finish
    /\ UNCHANGED <<apiVars, configVars, whVars, cached, ctlPPCs, ctlCPPC, worldVars,
                   changes, faults>>

\* Mutant: the error of the call is swallowed.
updateErrorSwallowed ==
    /\ worker.busy
    /\ Fault
    /\ UNCHANGED <<pod, rv>>
    /\ Finish
    /\ UNCHANGED <<phase, queued, configVars, whVars, cached, ctlPPCs, ctlCPPC, worldVars, changes>>

\* The call fails, before or after the API server has stored the update.
UpdateFails ==
    /\ worker.busy
    /\ Fault
    /\ \/ UNCHANGED <<pod, rv>>
       \/ Store
    /\ queued' = TRUE
    /\ Finish
    /\ UNCHANGED <<phase, configVars, whVars, cached, ctlPPCs, ctlCPPC, worldVars, changes>>

\* The controller restarts, or another replica becomes leader: the informers
\* list the pods and the PodPlacementConfigs before any reconcile starts, the
\* cluster-wide configuration is unknown until its own informer delivers it.
ControllerRestart ==
    /\ Fault
    /\ cached' = [live |-> phase = "live", rv |-> rv, pod |-> pod]
    /\ queued' = (phase = "live")
    /\ Finish
    /\ ctlPPCs' = ppcs /\ ctlCPPC' = NoCPPC
    /\ UNCHANGED <<apiVars, configVars, whVars, worldVars, changes>>

-----------------------------------------------------------------------------
Users == ChangePPC \/ ChangeCPPC \/ PinPod \/ DeletePod
Webhook == WebhookPPCEvent \/ WebhookCPPCEvent \/ Handle \/ WebhookUnavailable \/ Persist
Reconciler == ReconcileNothing \/ Reconcile \/ ReconcileListError
UpdateCall == UpdateSucceeds \/ UpdateRefused \/ UpdateFails
Controller == PodEvent \/ PPCEvent \/ CPPCEvent \/ Reconciler \/ UpdateCall \/ ControllerRestart

\* A pod that is deleted, or released and fully observed, needs nothing more.
Done ==
    /\ phase = "deleted" \/ (phase = "live" /\ ~pod.gate)
    /\ cached.rv = rv /\ ~queued /\ ~worker.busy
    /\ UNCHANGED vars

Next == Users \/ Webhook \/ Controller \/ Done

Spec == Init /\ [][Next]_vars

\* The informers deliver, the work queue is served and calls return.
Fairness ==
    /\ WF_vars(Persist)
    /\ WF_vars(PodEvent)
    /\ WF_vars(PPCEvent)
    /\ WF_vars(Reconciler)
    /\ WF_vars(UpdateCall)

FairSpec == Spec /\ Fairness

-----------------------------------------------------------------------------
\* Properties

\* Every variable has its type; every copy of the pod is a pod the API accepts,
\* labels included, and every cached configuration is one that users created.
TypeOK ==
    /\ phase \in {"new", "admitted", "live", "deleted"}
    /\ pod \in Pod /\ spec \in Pod
    /\ rv \in Nat
    /\ ppcs \subseteq PPCObjects /\ whPPCs \subseteq PPCObjects /\ ctlPPCs \subseteq PPCObjects
    /\ {cppc, whCPPC, ctlCPPC} \subseteq CPPCObjects \cup {NoCPPC}
    /\ whSynced \in BOOLEAN /\ queued \in BOOLEAN
    /\ cached \in [live : BOOLEAN, rv : Nat, pod : Pod]
    /\ worker \in [busy : BOOLEAN, rv : Nat, pod : Pod, cel : SUBSET Arch]
    /\ images \in ImageChoices
    /\ celAtAdmission \subseteq Arch
    /\ changes \in 0 .. MaxChanges /\ faults \in 0 .. MaxFaults

\* No gated pod is forgotten: a stored pod that still has the gate has its key
\* in the work queue, or a reconcile of it in progress, or an event of it not yet
\* delivered.  The retries after an inspection error rest on this alone: Reconcile
\* returns no error for them and counts on the event of its own update, which
\* exists only because the update changes the pod (pod_reconciler.go:104-121).
NoLostWakeup ==
    phase = "live" /\ pod.gate => queued \/ worker.busy \/ cached.rv # rv

\* The reconciler releases a pod only with an architecture constraint in every
\* term, or after MaxRetryCount errors, or when the pod is one to leave alone
\* (processPod, pod_reconciler.go:124-233).
ReleaseIsJustified ==
    phase = "live" /\ pod.gateLabel = "removed" =>
        pod.excluded \/ Constrained(pod) \/ pod.errs >= MaxRetryCount

\* What becomes of the user's terms, whatever was retried on the way.  The
\* architectures of the images, or of the fallback, join exactly the terms in which
\* the user chose none.  When the images share no architecture, the label that no
\* node has joins every term, also where the user chose an architecture
\* (setRequiredArchNodeAffinity, pod_model.go:135-169).
UserTermsRespected ==
    LET archs == IF pod.fallback = {} THEN intersectImagesArchitecture(images) ELSE pod.fallback
        user == IF spec.required = <<>> THEN << <<>> >> ELSE spec.required
        Joins(label) ==
          \A i \in DOMAIN user :
            pod.required[i] = IF HasKey(user[i], label) THEN user[i]
                              ELSE Append(user[i], [key |-> label, values |-> archs])
    IN phase = "live" /\ pod.affLabel = "set" =>
         /\ DOMAIN pod.required = DOMAIN user
         /\ archs # {} => Joins(ArchLabel)
         /\ archs = {} => Joins(NoSupportedArchLabel)

\* Commented: "Check if the nodeSelectorTerm already has a matchExpression for the
\* kubernetes.io/arch label. if yes, we ignore to add it" (pod_model.go:153-154).  It
\* is refuted by images that share no architecture.
ChosenTermsAreLeftAlone ==
    phase = "live" /\ pod.affLabel = "set" =>
        \A i \in DOMAIN spec.required :
            HasArchLabel(spec.required[i]) => pod.required[i] = spec.required[i]

\* The API server refuses an update of the current version of the pod.
Refused ==
    worker.busy /\ phase = "live" /\ worker.rv = rv /\ ~UpdateAccepted(pod, worker.pod)

\* The CEL evaluation of the reconciler undoes something the webhook's did not: it
\* selects other architectures, or finds a nodeSelector added since.
LateCEL == worker.cel # {} /\ (worker.cel # celAtAdmission \/ pod.nodeSelector)

\* An update of the current version is refused for no other reason
\* (cel_integration.go:80-97).
RejectedOnlyByLateCEL == Refused => LateCEL

\* The annotation tells where each preference comes from: the preferences of the
\* stored pod are the user's and, for every other architecture, exactly the one
\* of the single entry recorded as applied (SetPreferredArchNodeAffinity and
\* trackAffinitySource, pod_model.go:173-297).
PreferencesAreAttributed ==
    LET applied == {s \in pod.sources : s.applied}
    IN /\ pod.preferred = spec.preferred \cup {[arch |-> s.arch, weight |-> s.weight] : s \in applied}
       /\ \A s, t \in applied : s.arch = t.arch => s = t
       /\ spec.preferred # {} => applied = {}

\* Release is one-shot: after the gate is gone no stale cache, retried call,
\* lost answer or restart changes the pod again, and the gate never comes back
\* (Reconcile, pod_reconciler.go:80-111).
ReleaseIsFinal ==
    [][phase = "live" /\ ~pod.gate => pod' = pod]_vars

\* The life of the pod, as SchedulingGate tells it, and the reasons for which it may
\* be scheduled.
GateState ==
    CASE phase \in {"new", "admitted"} -> "submitted"
      [] phase = "deleted" -> "gone"
      [] phase = "live" /\ pod.gate -> "gated"
      [] phase = "live" /\ ~pod.gate /\ pod.gateLabel = "removed" -> "released"
      [] OTHER -> "open"

MayBeScheduled(p) ==
    /\ ~p.gate /\ p.gateLabel = "removed"
    /\ p.excluded \/ Constrained(p) \/ p.errs >= MaxRetryCount

Gate == INSTANCE SchedulingGate
          WITH Pods <- Pod, Settled <- MayBeScheduled, state <- GateState, pod <- pod

\* The webhook, the reconciler and their caches implement the scheduling gate: a pod
\* is written only before it is stored and while it is gated, and its gate and the
\* label of the gate go together, in one update that leaves it constrained, excluded
\* or out of retries (pod_reconciler.go:70-233, pod_model.go:70-76).
ImplementsGate == Gate!Spec

\* The retry loop is bounded: a pod that keeps its gate has fewer than
\* MaxRetryCount errors, not counting those of failed List calls, which are
\* counted like inspection errors but keep the gate (pod_reconciler.go:131-146).
RetriesAreBounded ==
    phase = "live" /\ pod.gate => pod.errs < MaxRetryCount + faults

\* A gated pod is eventually released or deleted, unless its update is refused again
\* and again for a late CEL evaluation: every other way Reconcile and processPod end
\* short of it is followed by another reconcile, and the retries are finite
\* (pod_reconciler.go:70-233).
GatedPodIsReleased ==
    <>[](phase = "live" /\ pod.gate) => []<>(Refused /\ LateCEL)

\* The same without the exception.  It is refuted: the update that a late CEL
\* evaluation spoils is refused at every retry, and no error is counted for it.
EveryGatedPodIsReleased ==
    phase = "live" /\ pod.gate ~> phase = "deleted" \/ ~pod.gate

\* Documented: "Max retries exceeded: uses fallbackArchitecture if set; else pod
\* stays gated" (ai-docs/ARCHITECTURE.md:115).  It is refuted.
StaysGatedWithoutFallback ==
    phase = "live" /\ pod.errs >= MaxRetryCount /\ pod.errLabel /\ pod.fallback = {} =>
        pod.gate \/ Constrained(pod)

\* Commented: applying CEL at admission avoids the rejection of the reconciler's
\* updates (scheduling_gate_mutating_webhook.go:203-206).  It is refuted.
UpdateIsNeverInvalid ==
    worker.busy /\ phase = "live" /\ worker.rv = rv => UpdateAccepted(pod, worker.pod)

\* Documented: a "skipped" entry means that the architecture was already set by a
\* higher-priority configuration (pkg/utils/const.go:39-40), so no configuration
\* is both applied and skipped for one architecture.  It is refuted.
SkippedIsNotApplied ==
    \A s, t \in pod.sources :
        s.applied /\ ~t.applied => <<s.arch, s.source>> # <<t.arch, t.source>>

\* Commented: a pod whose images share no architecture gets the
\* no-supported-arch label (pod_model.go:444-446).
UnsupportedPodIsLabelled ==
    phase = "live" /\ pod.affLabel = "set" /\ intersectImagesArchitecture(images) = {}
      /\ pod.fallback = {} => pod.archLabel = "no-supported-arch"
=============================================================================
