# A TLA+ model of the Multiarch Tuning Operator

The operator makes pods of a mixed-architecture Kubernetes cluster land on nodes
that can run their images. This directory models its controllers as state machines,
checks them with TLC on small instances, and proves most of their safety properties
with TLAPS for every instance. `PROJECT.json` maps every definition to the
lines it translates.

## The system

| Part | Where | Module |
|---|---|---|
| Mutating webhook: gates new pods, applies CEL rules at admission | `internal/controller/podplacement/scheduling_gate_mutating_webhook.go` | PodModel, PodPlacement |
| Pod reconciler: inspects images, sets affinities, removes the gate | `podplacement/pod_reconciler.go`, `pod_model.go`, `architecture_*.go`, `cel_integration.go` | PodModel, PodPlacement |
| ClusterPodPlacementConfig (CPPC) syncer | `pkg/informers/clusterpodplacementconfig` | PodPlacement |
| Operator: deploys the operands, reports status, ordered deletion | `operator/clusterpodplacementconfig_controller.go`, `*_objects.go`, `pkg/utils/resource.go` | Operator |
| CPPC types and webhook | `api/v1beta1/clusterpodplacementconfig_*.go` | Operator |
| PodPlacementConfig (PPC) types and admission | `podplacementconfig/podplacementconfig_webhook.go`, `api/v1beta1/podplacementconfig_types.go`, `api/common/plugins` | PPCAdmission (Operator: existence of the CPPC) |
| CEL evaluator and its cache of programs | `podplacement/cel_evaluator.go` | CELEvaluator |
| Image inspector, its cache, credentials, global pull secret syncer | `pkg/image`, `podplacement/global_pull_secret.go` | ImageInspection |
| ENoExecEvent daemon: eBPF tracepoint, channel, storage | `enoexecevent/daemon` | Daemon, ENoExecEvents |
| ENoExecEvent handler: labels pods, deletes events | `enoexecevent/handler` | ENoExecEvents |

The parts meet only in API objects. A CPPC makes the operator deploy the webhook and
the pod placement controller. The webhook adds a scheduling gate to new pods, the
controller removes it, after it has inspected the images with the pull secrets of the
pod and of the cluster. A PPC adds namespaced rules, which webhook and controller
evaluate. The ExecFormatErrorMonitor
plugin of the CPPC adds a daemon on each node, which creates an ENoExecEvent for an
exec that failed with ENOEXEC, and a handler that reports it on the pod.

## Modules

**PodModel** is the pod as the placement sees it and the operations on it, as pure
operators with the names of the Go functions. Label values and requirements are kept;
requirements on other labels than the architecture are one kind; affinity terms are
sequences, because the API server compares them by position. `UpdateAccepted` is the
API server's rule for updates of gated pods (external).

**PodPlacement** is one pod from submission to release: the webhook process, the API
server and the controller process. Informer copies (`cached`, `ctlPPCs`, `ctlCPPC`,
`whPPCs`, `whCPPC`) are brought up to date by event actions, at any time. An event
action jumps to the current version: it loses no behaviour, since it may also be
taken after every write. `Reconcile` reads the caches and computes the pod; `Update...`
is the API call, which may succeed, be refused as a conflict or as invalid, fail, or
succeed with its answer lost. The pods of a namespace share only the configurations,
so one pod is enough. CEL rules answer at two moments, since the stored pod has
metadata the pod under admission has not. Pods with an empty selector term, which the
API server never matches, are excluded by `ConfigAssumption`.

**Operator** is the CPPC controller with its cluster: `pc` is the step of the
reconcile in progress, `w` its copy of the CPPC, `fresh` the copies that are current
(so that stale ones conflict), `seen` its cached operands. A `uid` tells generations
of the CPPC apart, and owners are uids, so that the garbage collector is exact.
Applying the operands is one step with any subset of failing calls. A call that was
done but whose answer is lost is a crash right after it (`OperatorRestart`).
`wakeup` accumulates what the watch predicate let through since the last event. The
fields of the status that `Build` computes but the API never stores are in `built`.
An event of the monitor is first `sent` by a daemon, whose pod may outlive the DaemonSet,
and stored at any time after. The cache of events exists only from the first list on,
which reads the API server; later lists read what the informer has brought.
Leader election overlap is not modelled.

**Daemon** is the process on a node: the goroutines of the tracepoint, of its monitor,
of the storage and of `RunDaemon`, the ring buffer, the bounded channel, the context
and the unprotected field `tp.ctx`, whose use after it became nil is a panic.

**ENoExecEvents** is the life of events about the pods of one name, which may be
replaced by others on other nodes. `processEvent` of the daemon (Create, status
update with retries on conflict, rollback) runs against the handler's reconciles, one
per event key and concurrent across keys. `markAsError` is part of the step of the call
whose failure it records; it may fail too, in `Mark` by a fault of its own and in
`FailUnmarked` by the one that made the call fail. An event without a status whose mark
fails waits for the resync of the informer, which is not modelled. Events outside the
operator's namespace, which no daemon creates, are left out.

**SchedulingGate** is the abstract specification of what the placement promises for one
pod: it is stored with the gate or without, written only before that and while it is
gated, leaves the gate once in a state in which it may be scheduled, and is left alone
afterwards. PodPlacement implements it under the mapping `GateState` (the phase, the gate
and its label) and `MayBeScheduled` (constrained, excluded, or out of retries).

**PPCAdmission** is the set of PPCs of a namespace and the requests for them. The
webhook's list and the API server's store are two steps, so that requests overlap;
`unseen` records which writes the list of an object has missed. Refused requests leave
no state behind.

**CELEvaluator** extends it with the evaluations of webhook calls and reconciles, one
rule at a time: list, sort, look-up, compilation without the lock, insertion. Which
expressions compile in which environment, and what they say of a pod, are constants
(cel-go is external). An evaluation lists what is stored; stale lists are in
PodPlacement. A program is represented by the expression it was compiled from, so that
serving the wrong one is visible.

**ImageInspection** is `GetCompatibleArchitecturesSet` by concurrent reconciles: look-up
in the cache, read of the global pull secret, inspection, insertion; against the syncer,
whose store and purge are two steps, and registries that change contents and credentials.
A container of the model has the pull secrets that `pullSecretDataList` returned for it.
A secret maps patterns to credentials; the iteration order of Go maps and the choice of
the LRU cache are left open. Expiry may come at any time, within the bound on faults.
`late`, `served`, `by` and `source` are history variables for the properties.

`MC*` modules give the constants their small values. OperatorMonitorLive and
OperatorWebhook start from `Deployed`, a cluster whose operands are up (a state that TLC
reaches from `Init`), or from an empty one in which the first deployment is undisturbed:
edits and faults during the first deployment are in the other two Operator runs. Definitions introduced as mutants
are used by no specification: each is a plausible bug, substituted for the definition
after it to see the property fail.

## Runs

| Run | Checks | Instance |
|---|---|---|
| PodPlacement | TypeOK, NoLostWakeup, ReleaseIsJustified, UserTermsRespected, ReleaseIsFinal, RetriesAreBounded, RejectedOnlyByLateCEL, PreferencesAreAttributed, ImplementsGate | 6 kinds of pods, 3 PPCs under two names, 2 edits, 1 fault, 2 retries |
| PodPlacementLive | GatedPodIsReleased | 2 kinds of pods, a configuration whose CEL rules answer late, 2 edits, 2 faults |
| Operator | TypeOK, WebhookNeverOutlivesCPPC, OnlyLatePodsAreOrphaned | 2 generations of the CPPC, 1 pod, 2 edits, 1 fault |
| OperatorLive | OperandsConverge, DeletionCompletes, GatedPodsAreReleased | 1 CPPC, 1 pod, 1 edit, 1 deletion of the controller Deployment, 1 fault |
| OperatorMonitorLive | MonitorIsRemoved, OperandsConverge, DeletionCompletes | monitor plugin on or off, 2 edits, 1 fault, from `Deployed` |
| OperatorWebhook | WebhookFollowsController | 1 deletion of the controller Deployment, 4 edits, 1 fault, from `Deployed` |
| Daemon | TypeOK, NoSendOnClosedChannel, ReleasedOnReturn, ShutdownEnds | channel and ring of 2, 4 records |
| ENoExecEvents | TypeOK, OnlyPodsOfTheNode, HandledForAReason, OneConflictAtMost, CountedOnce, EventsAreHandled | 1 event, 2 pods of its name, 2 nodes, 2 edits, 2 faults |
| ImageInspection | TypeOK, OnlyLateAnswersAreStale, AnswersAreOwn, AlwaysIsFresh, InspectionsRecover | 2 workers, 2 images, 2 registries, a cache of 1, 1 change, 1 fault |
| CELEvaluator | TypeOK, OutcomeIsReference, EvaluationsAgree, EqualOnlyIfUnseen | 2 clients, 2 workers, 6 configurations under 2 names, 2 pods, a cache of 1, 3 requests |
| PodPlacementUnsupported | UnsupportedPodIsLabelled: refuted | |
| OperatorStrandedEvents | NoStrandedEvents: refuted | monitor plugin, 2 edits, no faults |

*Bounds.* One fault is enough for every single interruption of a sequence of calls at
every point, which is what the recovery code is about; two generations are needed for
stale copies of an earlier object of the same name; a channel and a ring of two can be
full, empty and in between; a cache of one entry is full after the first answer and
evicts at the second; two retries tell the last one from the others (the code has
five). An edit is a change by a user. One event is enough for
the liveness of the handler, since events meet only in their pod, whose edits are
modelled; two events with one edit and one fault, which `MCENoExecEvents` also defines,
satisfy TypeOK, OnlyPodsOfTheNode, HandledForAReason, OneConflictAtMost and CountedOnce
too, and the proofs hold for any number. Deadlock is checked in PodPlacement,
ImageInspection and CELEvaluator; the other systems may rightly stop, when the bounds on
what users do are used up.

*Fairness.* Weak fairness of informers (watches are resumed), of workers (the work
queue is served and calls return or time out) and, in OperatorLive and
OperatorMonitorLive, of the control plane (admitted objects are stored, Deployments
roll out, garbage is collected). OperatorWebhook assumes only the operator's own
fairness. The Daemon assumes that the Go scheduler runs what can run, and no fairness of
reads that fail. In ImageInspection the
informer delivers, the purge follows the store and a call that has its answer returns;
nobody is forced to inspect. Users, faults and restarts have none.

*Liveness with exceptions.* Some promises fail in known situations. Their properties say
that these are the only ones: whoever waits for ever is, again and again, in one of them.
GatedPodIsReleased excepts updates refused for a late CEL evaluation. DeletionCompletes
excepts a PodPlacementConfig that stays, an event that lost its handler (`Stranded`) and a
gated pod that lost its controller (`Deadlocked`); OperandsConverge excepts the second,
GatedPodsAreReleased the third. WebhookFollowsController excepts the waits that come before
the operator looks at the webhook (`Waiting`). Without the exceptions they are refuted: see
the table below.

## Where code and text disagree

Two runs show a statement of the repository refuted.

* **PodPlacementUnsupported.** `pod_model.go:444` says a requirement without values
  sets the no-supported-arch label; `ensureArchitectureLabels` has returned before,
  because `getArchitecturePredicate` leaves the values nil.
* **OperatorStrandedEvents.** `handleEnoexecDelete` lists the events from its cache and
  goes on to delete the handler while an event it has not seen is pending
  (`clusterpodplacementconfig_controller.go:653-655` says the handler is still running).
  If the update that removes its finalizer is then refused, because a user edited or
  deleted the CPPC meanwhile, the next reconcile sees the event and waits for a handler
  that is gone; neither the cleanup nor the deletion ends. Two edits are enough.

More statements are refuted by the same models. Each is defined in its module, marked as
refuted, and reproduced by making it the only property of the configuration named.

| Definition | Configuration | Behaviour |
|---|---|---|
| StaysGatedWithoutFallback | PodPlacement | the gate goes when the retries are spent, fallback or not (`ai-docs/ARCHITECTURE.md:115` says the pod stays gated) |
| UpdateIsNeverInvalid | PodPlacement | a CEL rule that matches only the stored pod asks for an update the API server refuses (`scheduling_gate_mutating_webhook.go:203`) |
| SkippedIsNotApplied | PodPlacement | after a failed inspection a configuration is recorded as applied and as skipped (`pkg/utils/const.go:39`) |
| ChosenTermsAreLeftAlone | PodPlacement | when the images share no architecture, the unsatisfiable label joins also the terms in which the user chose one (`pod_model.go:153-154`) |
| EveryGatedPodIsReleased | PodPlacementLive | an update that a late CEL evaluation spoils is refused at every retry, and no error is counted, so that the retries never end |
| NoOrphanedPods | Operator | a pod admitted before the webhook went and stored after the pod list stays gated (`clusterpodplacementconfig_controller.go:470`) |
| NoPPCWithoutCPPC | Operator | a PPC the operator has not seen does not block the deletion (`ai-docs/ARCHITECTURE.md:76`) |
| DeprovisioningIsReported | Operator | the deletion never recomputes the conditions (`clusterpodplacementconfig_controller.go:407`) |
| HandlerIsNotStuck | OperatorStrandedEvents | a stale copy hides the handler's finalizer, and the Deployment stays in deletion (`clusterpodplacementconfig_controller.go:1123`) |
| EveryGatedPodIsReleased | OperatorLive | with the controller Deployment gone, the deletion and the gated pods wait for each other (`ai-docs/ARCHITECTURE.md:197`) |
| WebhookAlwaysFollowsController | OperatorWebhook | a PodPlacementConfig holds up the deletion before the webhook is removed (`clusterpodplacementconfig_controller.go:412-424`) |
| ShutdownIsGraceful | Daemon | the tracepoint is blocked sending on the full channel after the storage returned (`tracepoint.go:199`) |
| NoPanic | Daemon | `processRecord` uses the context that the monitor has set to nil (`tracepoint.go:116` and `204`) |
| NoOrphanEvents | ENoExecEvents | the rollback uses the cancelled context, or fails itself (`k8s_enoexecevent.go:149`) |
| NoStaleAnswers | ImageInspection | an inspection that read the old global pull secret adds its answer after the purge (`facade.go:42-45`, `cache.go:63`) |
| NoPlatformIsSkipped | ImageInspection, Manifests <- AllManifests | the message for an entry without a platform dereferences it (`inspector.go:169-171`) |
| NoEqualPriorities | CELEvaluator | overlapping requests are checked against lists that miss each other (`docs/enhancements/MTO-0002-local-pod-placement.md:277`) |
| FallbackIfRulesFail | CELEvaluator | a configuration all of whose rules fail says nothing, and its fallback is not applied (`docs/enhancements/MTO-0005-architecture-rules-plugin.md:732`) |
| OnlyTheWinnerIsEvaluated | CELEvaluator | when the configuration of the highest priority says nothing, the next one is evaluated (the same, 838) |
| TiesAreBroken | CELEvaluator | of equal priorities either may come first (the same, 835-837) |
| CountedIsReported | ENoExecEvents | events of pods that are gone are counted as reported (`docs/metrics.md:37`) |

## Proofs

Eight modules hold theorems; each `XProofs` extends `X`, and PodAffinityProofs extends
PodPlacementProofs. They hold for every value of the
constants that satisfies the assumptions named in `X`: sets of any size, any bounds.

PodModelProofs has the lemmas about the operators of PodModel (what they preserve and
what they establish). PodPlacementProofs rests on `MaxRetryAssumption` and
`ConfigAssumption`: users submit pods without the operator's own gate and labels, with
non-empty terms, and a configuration that has platforms or CEL answers has a plugin
enabled. The other assumptions only say that bounds and capacities are numbers, and
what the constants are functions of.

| Module, theorem | Proves | Argument |
|---|---|---|
| PodPlacementProofs TypeTheorem | TypeOK | inductive together with the next |
| JustifiedTheorem | ReleaseIsJustified | TypedAndJustified: the property must hold of every *copy* of the pod (stored, cached, in work, submitted), because any may be stored later |
| WakeupTheorem | NoLostWakeup | Coherent: a cached copy with the current version equals the stored pod, and a worker's result from it differs from it (gate gone, or one more error), so storing it makes an event |
| ReleaseIsFinalTheorem | ReleaseIsFinal | from Coherent: an accepted update started from a gated pod |
| RetriesTheorem | RetriesAreBounded | BoundedCopies, again over all copies |
| GateTheorem | ImplementsGate | initial states map to initial states; each action maps to Mutate, Persist, Write, Release, Delete or a stutter; an update that is stored comes from a gated copy, by Coherent |
| PodAffinityProofs UserTermsTheorem | UserTermsRespected | CopiesKnown: a gated copy has the terms the webhook left, whatever happened to it since, and a copy with the affinity label `set` has the user's terms, those that chose no architecture with the one requirement on top, and all of them when it is the unsatisfiable one |
| AttributionTheorem | PreferencesAreAttributed | CopiesKnown: every copy accounts for its preferences; an architecture is applied from the first configuration that names it, and a retry finds its own entries |
| RejectionTheorem | RejectedOnlyByLateCEL | the reconciler starts from the terms the webhook left; the same CEL placement again changes no term, and a requirement added to terms that are not empty is accepted |
| DaemonProofs TypeTheorem | TypeOK | neither buffer overflows |
| NoSendTheorem, ReleasedTheorem | NoSendOnClosedChannel, ReleasedOnReturn | Shutdown: the reader is closed and the context nil from certain steps of the tracepoint on, and the channel is closed only after the join |
| ENoExecEventsProofs TypeTheorem | TypeOK | Types |
| CountTheorem, ConflictTheorem | CountedOnce, OneConflictAtMost | Lives: for each event, what the copies of the cache, the daemon and the worker can be, given where the daemon is and who deleted it; a marked copy is one the handler made before the status was set |
| LabelTheorem, ReasonTheorem | OnlyPodsOfTheNode, HandledForAReason | Reasons: a current copy of the pod is on the node of the event, and an event about to be deleted already has its reason |
| CELEvaluatorProofs TypeTheorem | TypeOK | CacheOK: a program is the one of its key, one for a key, no more than the size |
| PriorityTheorem | EqualOnlyIfUnseen | RequestsMiss: a request on its way has in `unseen` every stored object of its priority that its list did not show, or inherits it from the object it replaces |
| OutcomeTheorem | OutcomeIsReference | Evaluations: in the middle of a configuration none of the rules so far matched and `evaluated` says whether one could be evaluated; configurations already passed over say nothing |
| AgreementTheorem | EvaluationsAgree | from the two above |
| ImageInspectionProofs StalenessTheorem | OnlyLateAnswersAreStale | Staleness: an entry of another secret, or a call about to add one, belongs to a worker in `late`, and not both for one worker |
| OwnTheorem | AnswersAreOwn | every entry and call keeps a key that its image and secrets can have |
| FreshTheorem | AlwaysIsFresh | the contents of all candidates are in `served` until the call ends |
| TypeTheorem | TypeOK | Typed: the cache is finite, an insertion evicts first when it is full, and drops the entry of its key; a notification is pending only for a secret that exists, so that the syncer stores one |
| OperatorProofs WebhookTheorem, MonitorTheorem, OrphanTheorem | WebhookNeverOutlivesCPPC, MonitorIsRemoved, OnlyLatePodsAreOrphaned | Inv says what a stale copy of the CPPC is worth: one that is not in deletion and has the finalizer of the pod placement (or a plugin and its finalizer) is one of the stored object, which still has it, since only the worker removes finalizers, from the current version and after the objects that depend on them |
| TypeTheorem | TypeOK | AllTyped, which adds to Inv the objects, flags and other copies: an object in deletion goes with its last finalizer, and a copy of the worker lives from the read to the end of Reconcile |

None of the properties is inductive as it stands: each speaks of stored objects, while
the steps that could break it act on copies read earlier. The strengthenings are about
the copies.

Each step proof has one step per action. Every invariant and action property of the
passing runs has a theorem. Liveness (GatedPodIsReleased, OperandsConverge,
DeletionCompletes, GatedPodsAreReleased, WebhookFollowsController, ShutdownEnds,
EventsAreHandled, InspectionsRecover) is only model-checked: fairness is outside the
prover's reach. The two refuted properties are refuted by TLC.

## Not modelled

* Registry I/O, signatures and the parsing of references, URLs and globs
  (`parseImageReference`, `helpers_glob.go`): strings and a library. The paths in
  `systemconfig.go` are read once from the environment.
* What cel-go makes of an expression: constants of CELEvaluator.
* Conversion of v1alpha1: a copy without state. An object written back as v1alpha1 loses
  its plugins (only the fallback architecture is kept in an annotation); Operator and
  PodPlacement take such a change as an edit of the CPPC at any time.
* Contents of the operand manifests and the comparison of specs when they are applied.
* Metrics other than the event counter, and events published for users.
* The instructions of the eBPF program and the lookups of cgroups and of the container
  runtime: a record belongs to a pod or not.
* Flags, certificates and leader election; tests and packaging.
