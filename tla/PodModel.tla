------------------------------ MODULE PodModel ------------------------------
(***************************************************************************)
(* The pod as the pod placement operand sees it, and the operations that   *)
(* pod_model.go, architecture_application.go and architecture_removal.go   *)
(* define on it.  No operation here has a side effect outside the pod: the *)
(* state machines PodPlacement and its model-checking modules use them.    *)
(*                                                                         *)
(* A node selector requirement keeps its key and its set of values.  The   *)
(* label map is the record fields gateLabel, affLabel, prefLabel,          *)
(* archLabel, errLabel, errs and fallback; the value "absent" (0, {},      *)
(* FALSE) is a missing key.                                                *)
(***************************************************************************)
EXTENDS Naturals, Sequences, FiniteSets

CONSTANTS
    Arch,           \* the architectures that a label, an image or a config names
    Names,          \* the names of the PodPlacementConfigs of the namespace
    MaxRetryCount   \* failed inspections after which the gate goes regardless

ASSUME MaxRetryAssumption == MaxRetryCount \in Nat \ {0}

ArchLabel            == "kubernetes.io/arch"
NoSupportedArchLabel == "multiarch.openshift.io/no-supported-arch"
UserLabel            == "any other node label"

Requirement == [key    : {ArchLabel, NoSupportedArchLabel, UserLabel},
                values : SUBSET Arch]

CPPCKind == "ClusterPodPlacementConfig"

\* A preferred scheduling term on the architecture label, and one entry of the
\* annotation that records which configuration asked for it.
Preference == [arch : Arch, weight : Nat]
AffinitySource == [arch : Arch, weight : Nat, source : Names \cup {CPPCKind},
                   applied : BOOLEAN]

Pod == [excluded     : BOOLEAN,
        nodeSelector : BOOLEAN,
        required     : Seq(Seq(Requirement)),
        preferred    : SUBSET Preference,
        sources      : SUBSET AffinitySource,
        gate         : BOOLEAN,
        gateLabel    : {"absent", "not-set", "gated", "removed"},
        affLabel     : {"absent", "not-set", "set", "overriden"},
        prefLabel    : {"absent", "not-set", "set"},
        archLabel    : {"absent", "no-supported-arch", "single-arch", "multi-arch"},
        errLabel     : BOOLEAN,
        errs         : Nat,
        fallback     : SUBSET Arch]

\* A PodPlacementConfig, reduced to what it does to the pod: whether its
\* selector matches, its priority, whether a plugin that needs the gate is
\* enabled, the architectures its CEL plugin selects for the pod ({} when
\* disabled, malformed or without a result) and the platforms of its
\* NodeAffinityScoring plugin ({} when disabled), all of one weight.  CEL reads
\* the pod's metadata, and the stored pod has labels, annotations and (with
\* generateName) a name that the pod under admission has not.
CELMoment == {"admission", "stored"}
PodPlacementConfig == [name : Names, matches : BOOLEAN, priority : Nat,
                       plugins : BOOLEAN, cel : [CELMoment -> SUBSET Arch],
                       platforms : SUBSET Arch, weight : Nat]

ClusterPodPlacementConfig == [name : {CPPCKind}, platforms : SUBSET Arch,
                              weight : Nat, fallback : SUBSET Arch]

\* GetClusterPodPlacementConfig() = nil: every use of cppc is guarded by
\* "cppc != nil &&", so nil behaves as a configuration that enables nothing.
NoCPPC == [name |-> CPPCKind, platforms |-> {}, weight |-> 0, fallback |-> {}]

-----------------------------------------------------------------------------
\* Architecture predicates on the pod

HasKey(term, key) == \E i \in DOMAIN term : term[i].key = key

HasArchLabel(term) == HasKey(term, ArchLabel)

isNodeSelectorConfiguredForArchitecture(pod) ==
    \/ pod.nodeSelector
    \/ /\ pod.required # <<>>
       /\ \A i \in DOMAIN pod.required : HasArchLabel(pod.required[i])

isPreferredAffinityConfiguredForArchitecture(pod) == pod.preferred # {}

\* The side effect of evaluating the predicate on a pod whose nodeSelector
\* names an architecture.
publishIgnorePodIfSelected(pod) ==
    IF pod.nodeSelector THEN [pod EXCEPT !.affLabel = "not-set"] ELSE pod

filterMatchingPPCs(ppcs) == {c \in ppcs : c.matches}

hasMatchingPPCWithPlugin(ppcs) == \E c \in ppcs : c.plugins

shouldIgnorePod(pod, cppc, matching) ==
    \/ pod.excluded
    \/ /\ isNodeSelectorConfiguredForArchitecture(pod)
       /\ \/ isPreferredAffinityConfiguredForArchitecture(pod)
          \/ cppc.platforms = {} /\ ~hasMatchingPPCWithPlugin(matching)

\* Every way the pod may be scheduled is constrained to an architecture, or
\* excluded because its images share none.
Constrained(pod) ==
    \/ pod.nodeSelector
    \/ /\ pod.required # <<>>
       /\ \A i \in DOMAIN pod.required :
            HasArchLabel(pod.required[i]) \/ HasKey(pod.required[i], NoSupportedArchLabel)

-----------------------------------------------------------------------------
\* Required node affinity

\* Mutants of the next operator: the terms that already choose an architecture
\* are not skipped; the requirement is put first.
requirementInEveryTerm(pod, requirement) ==
    LET terms == IF pod.required = <<>> THEN << <<>> >> ELSE pod.required
    IN [pod EXCEPT !.affLabel = "set",
                   !.required = [i \in DOMAIN terms |-> Append(terms[i], requirement)]]

requirementFirst(pod, requirement) ==
    LET terms == IF pod.required = <<>> THEN << <<>> >> ELSE pod.required
    IN [pod EXCEPT !.affLabel = "set",
                   !.required = [i \in DOMAIN terms |->
                                   IF HasKey(terms[i], requirement.key) THEN terms[i]
                                   ELSE <<requirement>> \o terms[i]]]

\* The terms are ORed: the requirement joins every term that does not already
\* constrain the same key; a pod without terms gets a single new one.
setRequiredArchNodeAffinity(pod, requirement) ==
    LET terms == IF pod.required = <<>> THEN << <<>> >> ELSE pod.required
    IN [pod EXCEPT
          !.affLabel = "set",
          !.required = [i \in DOMAIN terms |->
                          IF HasKey(terms[i], requirement.key) THEN terms[i]
                          ELSE Append(terms[i], requirement)]]

\* images is the set of the architecture sets of the pod's images.
intersectImagesArchitecture(images) == {a \in Arch : \A m \in images : a \in m}

getArchitecturePredicate(images) ==
    LET archs == intersectImagesArchitecture(images)
    IN IF archs = {} THEN [key |-> NoSupportedArchLabel, values |-> {}]
                     ELSE [key |-> ArchLabel, values |-> archs]

\* The values of the NoSupportedArchLabel requirement are nil, for which the
\* function returns before it looks at their number.
ensureArchitectureLabels(pod, requirement) ==
    IF requirement.values = {} THEN pod
    ELSE [pod EXCEPT !.archLabel = IF \E a \in Arch : requirement.values = {a}
                                   THEN "single-arch" ELSE "multi-arch"]

SetNodeAffinityArchRequirement(pod, images) ==
    LET requirement == getArchitecturePredicate(images)
    IN IF isNodeSelectorConfiguredForArchitecture(pod)
       THEN [pod EXCEPT !.affLabel = "not-set"]
       ELSE setRequiredArchNodeAffinity(
              ensureArchitectureLabels([pod EXCEPT !.errLabel = FALSE], requirement),
              requirement)

setRequiredNodeAffinityToFallbackArchitecture(pod, archs) ==
    [setRequiredArchNodeAffinity(pod, [key |-> ArchLabel, values |-> archs])
       EXCEPT !.fallback = archs]

removeArchitectureFromNodeSelector(pod) == [pod EXCEPT !.nodeSelector = FALSE]

\* The requirements of a term on other labels, in their order: the k-th of them
\* is the one that has k of them up to its position.
withoutArch(term) ==
    LET kept == {i \in DOMAIN term : term[i].key # ArchLabel}
        place == [i \in kept |-> Cardinality({j \in kept : j <= i})]
    IN [k \in 1 .. Cardinality(kept) |-> term[CHOOSE i \in kept : place[i] = k]]

\* Mutant: the architectures become one more term.
oneMoreTerm(pod, archs) ==
    [pod EXCEPT !.required = Append(@, <<[key |-> ArchLabel, values |-> archs]>>)]

\* Every term loses its architecture requirements and gets the new one last.
applyArchitectureNodeAffinity(pod, archs) ==
    LET requirement == [key |-> ArchLabel, values |-> archs]
        terms == IF pod.required = <<>> THEN << <<>> >> ELSE pod.required
    IN [pod EXCEPT !.required = [i \in DOMAIN terms |->
                                   Append(withoutArch(terms[i]), requirement)]]

-----------------------------------------------------------------------------
\* Configurations in priority order.  sort.Slice is not stable: configurations
\* of equal priority come in any order.

Orders(ppcs) ==
    {o \in [1 .. Cardinality(ppcs) -> ppcs] :
        /\ \A c \in ppcs : \E i \in DOMAIN o : o[i] = c
        /\ \A i, j \in DOMAIN o : i < j => o[i].priority >= o[j].priority}

\* The architectures of the first configuration whose CEL plugin yields some.
celArchitectures(order, moment) ==
    LET claims == {i \in DOMAIN order : order[i].cel[moment] # {}}
    IN {a \in Arch : \E i \in claims : a \in order[i].cel[moment] /\ \A j \in claims : i <= j}

applyCELArchitecturePlacement(pod, archs) ==
    IF archs = {} THEN pod
    ELSE [applyArchitectureNodeAffinity(removeArchitectureFromNodeSelector(pod), archs)
            EXCEPT !.affLabel = "overriden"]

getExistingPreferredArchitectures(pod) == {p.arch : p \in pod.preferred}

\* What the configurations ask for: pairs of an index and an architecture.
Platforms(configs) ==
    {p \in (DOMAIN configs) \X Arch : p[2] \in configs[p[1]].platforms}

\* Mutant: the priority order of the configurations is not looked at.
anyoneNames(configs, p) == p[2] \in configs[p[1]].platforms

FirstToName(configs, p) == \A j \in DOMAIN configs : j < p[1] => p[2] \notin configs[j].platforms

trackAffinitySource(configs, p, applied) ==
    [arch |-> p[2], weight |-> configs[p[1]].weight, source |-> configs[p[1]].name,
     applied |-> applied]

\* SetPreferredArchNodeAffinity for each configuration in turn: an architecture
\* takes its weight from the first configuration that names it, and every
\* configuration is recorded as applied or skipped.
SetPreferredArchNodeAffinity(pod, configs) ==
    LET new == {p \in Platforms(configs) :
                  p[2] \notin getExistingPreferredArchitectures(pod) /\ FirstToName(configs, p)}
    IN [pod EXCEPT
          !.preferred = @ \cup {[arch |-> p[2], weight |-> configs[p[1]].weight] : p \in new},
          !.prefLabel = IF new = {} THEN @ ELSE "set",
          !.sources = @ \cup {trackAffinitySource(configs, p, p \in new) :
                                p \in Platforms(configs)}]

trackSkippedMatchingConfigs(pod, configs) ==
    [pod EXCEPT !.sources = @ \cup {trackAffinitySource(configs, p, FALSE) :
                                       p \in Platforms(configs)}]

-----------------------------------------------------------------------------
\* Scheduling gate and inspection errors

\* Mutants: the label stays; the value of the neighbouring label.
labelKept(pod) == [pod EXCEPT !.gate = FALSE]

wrongGateLabel(pod) == [pod EXCEPT !.gate = FALSE, !.gateLabel = "set"]

RemoveSchedulingGate(pod) == [pod EXCEPT !.gate = FALSE, !.gateLabel = "removed"]

ensureSchedulingGate(pod) == [pod EXCEPT !.gate = TRUE]

handleError(pod) == [pod EXCEPT !.errLabel = TRUE, !.errs = @ + 1]

\* Mutants: the limit is off by one, either way.
retriesOneEarly(pod) == pod.errs = 0 \/ pod.errs >= MaxRetryCount - 1

retriesOneLate(pod) == pod.errs = 0 \/ pod.errs > MaxRetryCount

\* ParseInt fails on a missing counter, and the code takes that for the limit.
maxRetries(pod) == pod.errs = 0 \/ pod.errs >= MaxRetryCount

-----------------------------------------------------------------------------
\* What the API server accepts as an update of a gated pod (KEP-3838): the
\* nodeSelector only grows; a non-empty list of terms keeps its length, and each
\* non-empty term keeps its requirements as a prefix; an empty term stays empty.

IsPrefixOf(s, t) == Len(s) <= Len(t) /\ \A i \in DOMAIN s : t[i] = s[i]

TermAccepts(old, new) == IF old = <<>> THEN new = <<>> ELSE IsPrefixOf(old, new)

UpdateAccepted(old, new) ==
    /\ old.nodeSelector => new.nodeSelector
    /\ old.required # <<>> =>
         /\ Len(new.required) = Len(old.required)
         /\ \A i \in DOMAIN old.required : TermAccepts(old.required[i], new.required[i])
=============================================================================
