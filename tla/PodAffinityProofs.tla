------------------------- MODULE PodAffinityProofs -------------------------
(***************************************************************************)
(* Proofs about the affinities PodPlacement gives a pod, for every set of  *)
(* pods, images and configurations and every bound: what becomes of the    *)
(* user's terms, which updates the API server refuses, and where the       *)
(* preferences come from.                                                  *)
(***************************************************************************)
EXTENDS PodPlacementProofs

-----------------------------------------------------------------------------
(***************************************************************************)
(* What every copy of the pod has in common with the pod s the user        *)
(* submitted.  A gated copy has the terms that the webhook left, given the *)
(* architectures cel that its CEL evaluation selected; a copy whose terms  *)
(* were set has the user's terms and one requirement on top, that of the   *)
(* images im or of the fallback; and the preferences of any copy are       *)
(* accounted for.                                                          *)
(***************************************************************************)

Terms(s) == IF s.required = <<>> THEN << <<>> >> ELSE s.required

AdmittedTerms(s, cel) ==
    IF cel = {} THEN s.required ELSE applyArchitectureNodeAffinity(s, cel).required

Extends(terms, user, r) ==
    /\ DOMAIN terms = DOMAIN user
    /\ \A i \in DOMAIN user :
         \/ terms[i] = user[i] /\ HasKey(user[i], r.key)
         \/ terms[i] = Append(user[i], r) /\ ~HasKey(user[i], r.key)

ChosenFor(p, im) ==
    IF p.fallback = {} THEN getArchitecturePredicate(im)
                       ELSE [key |-> ArchLabel, values |-> p.fallback]

Traced(p, s, cel, im) ==
    /\ p.gate => p.required = AdmittedTerms(s, cel) /\ p.affLabel # "set" /\ p.fallback = {}
    /\ p.affLabel = "set" => Extends(p.required, Terms(s), ChosenFor(p, im))

AppliedSources(p) == {e \in p.sources : e.applied}

Attributed(p, s) ==
    /\ p.preferred = s.preferred \cup {[arch |-> e.arch, weight |-> e.weight] : e \in AppliedSources(p)}
    /\ \A e, f \in AppliedSources(p) : e.arch = f.arch => e = f
    /\ s.preferred # {} => AppliedSources(p) = {}

\* The API server takes q for p, or the CEL evaluation that gave q is to blame: it
\* selected cel, and the one at admission selected admitted.
AcceptedUnlessCEL(p, q, cel, admitted) ==
    ~UpdateAccepted(p, q) => cel # {} /\ (cel # admitted \/ p.nodeSelector)

-----------------------------------------------------------------------------
\* A term grows, unless it is empty.
LEMMA TermKept ==
  ASSUME NEW t \in Seq(Requirement), NEW r \in Requirement
  PROVE  TermAccepts(t, t) /\ (t # <<>> => TermAccepts(t, Append(t, r)))
BY DEF TermAccepts, IsPrefixOf

\* An update that leaves the terms alone, and does not take a nodeSelector away, is
\* accepted.
LEMMA SameTermsAccepted ==
  ASSUME NEW p \in Pod, NEW q, q.required = p.required, p.nodeSelector => q.nodeSelector
  PROVE  UpdateAccepted(p, q)
<1>1. p.required \in Seq(Seq(Requirement))
  BY DEF Pod
<1>2. \A i \in DOMAIN p.required : TermAccepts(p.required[i], p.required[i])
  <2> TAKE i \in DOMAIN p.required
  <2>1. p.required[i] \in Seq(Requirement)
    BY <1>1
  <2> QED
    BY <2>1 DEF TermAccepts, IsPrefixOf
<1> QED
  BY <1>1, <1>2 DEF UpdateAccepted

\* setRequiredArchNodeAffinity adds the requirement to the terms that do not have its
\* key; it makes one term if there is none.
LEMMA SetRequiredExtends ==
  ASSUME NEW p \in Pod, NEW r \in Requirement
  PROVE  LET q == setRequiredArchNodeAffinity(p, r)
         IN /\ q.affLabel = "set" /\ Extends(q.required, Terms(p), r)
            /\ q.fallback = p.fallback /\ q.gate = p.gate /\ q.nodeSelector = p.nodeSelector
            /\ q.preferred = p.preferred /\ q.sources = p.sources
<1> DEFINE terms == Terms(p)
           new == [i \in DOMAIN terms |-> IF HasKey(terms[i], r.key) THEN terms[i]
                                         ELSE Append(terms[i], r)]
           q == setRequiredArchNodeAffinity(p, r)
<1>1. q = [p EXCEPT !.affLabel = "set", !.required = new]
  BY DEF setRequiredArchNodeAffinity, Terms
<1>2. Extends(new, terms, r)
  BY DEF Extends
<1> HIDE DEF new, terms, q
<1>3. /\ q.required = new /\ q.affLabel = "set"
      /\ q.fallback = p.fallback /\ q.gate = p.gate /\ q.nodeSelector = p.nodeSelector
      /\ q.preferred = p.preferred /\ q.sources = p.sources
  BY <1>1 DEF Pod
<1> QED
  BY <1>2, <1>3 DEF q, terms

\* It is accepted for a pod none of whose terms is empty.
LEMMA ExtendedAccepted ==
  ASSUME NEW p \in Pod, NEW q, NEW r \in Requirement,
         q.required \in Seq(Seq(Requirement)),
         \A i \in DOMAIN p.required : p.required[i] # <<>>,
         Extends(q.required, Terms(p), r), p.nodeSelector => q.nodeSelector
  PROVE  UpdateAccepted(p, q)
<1>1. SUFFICES ASSUME p.required # <<>>
               PROVE  /\ Len(q.required) = Len(p.required)
                      /\ \A i \in DOMAIN p.required : TermAccepts(p.required[i], q.required[i])
  BY DEF UpdateAccepted
<1>2. p.required \in Seq(Seq(Requirement)) /\ Terms(p) = p.required
  BY <1>1 DEF Pod, Terms
<1>3. Len(q.required) = Len(p.required)
  BY <1>2 DEF Extends
<1>4. \A i \in DOMAIN p.required : TermAccepts(p.required[i], q.required[i])
  <2> TAKE i \in DOMAIN p.required
  <2>1. p.required[i] \in Seq(Requirement) /\ p.required[i] # <<>>
    BY <1>2
  <2>2. q.required[i] = p.required[i] \/ q.required[i] = Append(p.required[i], r)
    BY <1>2 DEF Extends
  <2> QED
    BY <2>1, <2>2, TermKept
<1> QED
  BY <1>3, <1>4

-----------------------------------------------------------------------------
\* CEL placement: the terms it writes follow from the terms it reads.
LEMMA CELTerms ==
  ASSUME NEW p \in Pod, NEW archs \in SUBSET Arch
  PROVE  LET r == [key |-> ArchLabel, values |-> archs]
         IN /\ r \in Requirement
            /\ applyArchitectureNodeAffinity(p, archs).required =
                 [i \in DOMAIN Terms(p) |-> Append(withoutArch(Terms(p)[i]), r)]
            /\ Terms(p) \in Seq(Seq(Requirement)) /\ Terms(p) # <<>>
<1> DEFINE r == [key |-> ArchLabel, values |-> archs]
           new == [i \in DOMAIN Terms(p) |-> Append(withoutArch(Terms(p)[i]), r)]
<1>1. applyArchitectureNodeAffinity(p, archs) = [p EXCEPT !.required = new]
  BY DEF applyArchitectureNodeAffinity, Terms
<1> HIDE DEF new
<1>2. applyArchitectureNodeAffinity(p, archs).required = new
  BY <1>1 DEF Pod
<1>3. Terms(p) \in Seq(Seq(Requirement)) /\ Terms(p) # <<>>
  BY TermsType DEF Terms
<1>4. r \in Requirement
  BY DEF Requirement
<1> QED
  BY <1>2, <1>3, <1>4 DEF new

\* The terms that CEL placement wrote name an architecture, each of them.
LEMMA CELTermsConfigured ==
  ASSUME NEW s \in Pod, NEW archs \in SUBSET Arch, NEW p \in Pod,
         p.required = applyArchitectureNodeAffinity(s, archs).required
  PROVE  isNodeSelectorConfiguredForArchitecture(p)
<1> DEFINE r == [key |-> ArchLabel, values |-> archs]
           terms == Terms(s)
<1>1. /\ r \in Requirement /\ r.key = ArchLabel
      /\ p.required = [i \in DOMAIN terms |-> Append(withoutArch(terms[i]), r)]
      /\ terms \in Seq(Seq(Requirement)) /\ terms # <<>>
  BY CELTerms
<1> HIDE DEF r, terms
<1>2. \A i \in DOMAIN p.required : HasArchLabel(p.required[i])
  BY <1>1, WithoutArchType, AppendHasKey DEF HasArchLabel
<1>3. p.required # <<>>
  BY <1>1
<1> QED
  BY <1>2, <1>3 DEF isNodeSelectorConfiguredForArchitecture

\* CEL placement of the same architectures again changes no term.
LEMMA CELTermsAgain ==
  ASSUME NEW s \in Pod, NEW archs \in SUBSET Arch, NEW p \in Pod,
         p.required = applyArchitectureNodeAffinity(s, archs).required
  PROVE  applyArchitectureNodeAffinity(p, archs).required = p.required
<1> DEFINE r == [key |-> ArchLabel, values |-> archs]
           terms == Terms(s)
<1>1. /\ r \in Requirement /\ r.key = ArchLabel
      /\ p.required = [i \in DOMAIN terms |-> Append(withoutArch(terms[i]), r)]
      /\ terms \in Seq(Seq(Requirement)) /\ terms # <<>>
      /\ applyArchitectureNodeAffinity(p, archs).required =
           [i \in DOMAIN Terms(p) |-> Append(withoutArch(Terms(p)[i]), r)]
  BY CELTerms
<1> HIDE DEF r, terms
<1>2. Terms(p) = p.required /\ DOMAIN p.required = DOMAIN terms
  BY <1>1 DEF Terms
<1>3. \A i \in DOMAIN terms : withoutArch(p.required[i]) = withoutArch(terms[i])
  <2> TAKE i \in DOMAIN terms
  <2>1. terms[i] \in Seq(Requirement) /\ p.required[i] = Append(withoutArch(terms[i]), r)
    BY <1>1
  <2>2. withoutArch(terms[i]) \in Seq(Requirement) /\ ~HasArchLabel(withoutArch(terms[i]))
    BY <2>1, WithoutArchType
  <2> QED
    BY <1>1, <2>1, <2>2, WithoutArchLast, Zenon
<1> QED
  BY <1>1, <1>2, <1>3

\* What CEL placement does to a pod.
LEMMA CELPlacement ==
  ASSUME NEW p \in Pod, NEW archs \in SUBSET Arch
  PROVE  LET q == applyCELArchitecturePlacement(p, archs)
         IN /\ q \in Pod
            /\ q.gate = p.gate /\ q.fallback = p.fallback
            /\ q.preferred = p.preferred /\ q.sources = p.sources
            /\ q.required = IF archs = {} THEN p.required
                            ELSE applyArchitectureNodeAffinity(p, archs).required
            /\ q.affLabel = IF archs = {} THEN p.affLabel ELSE "overriden"
            /\ archs = {} => q.nodeSelector = p.nodeSelector
<1>1. CASE archs = {}
  BY <1>1 DEF applyCELArchitecturePlacement
<1>2. CASE archs # {}
  <2> DEFINE r == [key |-> ArchLabel, values |-> archs]
             new == [i \in DOMAIN Terms(p) |-> Append(withoutArch(Terms(p)[i]), r)]
             n == removeArchitectureFromNodeSelector(p)
             q == applyCELArchitecturePlacement(p, archs)
  <2>1. applyArchitectureNodeAffinity(p, archs).required = new
    BY CELTerms
  <2>2. n \in Pod /\ n.required = p.required /\ n = [p EXCEPT !.nodeSelector = FALSE]
    <3>1. n = [p EXCEPT !.nodeSelector = FALSE]
      BY DEF removeArchitectureFromNodeSelector
    <3>2. n \in Pod
      BY PodUpdates
    <3> HIDE DEF n
    <3> QED
      BY <3>1, <3>2 DEF Pod
  <2>3. Terms(n) = Terms(p)
    BY <2>2 DEF Terms
  <2>4. q = [[n EXCEPT !.required = new] EXCEPT !.affLabel = "overriden"]
    BY <1>2, <2>3, Zenon DEF applyCELArchitecturePlacement, applyArchitectureNodeAffinity, Terms
  <2>5. q \in Pod
    BY CELProperties
  <2> HIDE DEF new, n, q
  <2>6. /\ q.required = new /\ q.affLabel = "overriden"
        /\ q.gate = p.gate /\ q.fallback = p.fallback
        /\ q.preferred = p.preferred /\ q.sources = p.sources
    BY <2>2, <2>4 DEF Pod
  <2> QED
    BY <1>2, <2>1, <2>5, <2>6 DEF q
<1> QED
  BY <1>1, <1>2

-----------------------------------------------------------------------------
\* Recording configurations as skipped adds no preference.
LEMMA SkippedAttributed ==
  ASSUME NEW p \in Pod, NEW s, Attributed(p, s), NEW configs
  PROVE  Attributed(trackSkippedMatchingConfigs(p, configs), s)
<1> DEFINE skipped == {trackAffinitySource(configs, c, FALSE) : c \in Platforms(configs)}
           q == trackSkippedMatchingConfigs(p, configs)
<1>1. \A e \in skipped : ~e.applied
  BY DEF trackAffinitySource
<1>2. q = [p EXCEPT !.sources = p.sources \cup skipped]
  BY DEF trackSkippedMatchingConfigs
<1> HIDE DEF skipped, q
<1>3. q.preferred = p.preferred /\ q.sources = p.sources \cup skipped
  BY <1>2 DEF Pod
<1>4. AppliedSources(q) = AppliedSources(p)
  BY <1>1, <1>3, Zenon DEF AppliedSources
<1> QED
  BY <1>3, <1>4, Zenon DEF Attributed, q

\* The preferences of a pod that had none are the applied entries: an architecture is
\* applied from the first configuration that names it, and from no other.
LEMMA FirstAttributed ==
  ASSUME NEW p \in Pod, NEW s, Attributed(p, s), p.preferred = {},
         NEW configs, DOMAIN configs \subseteq Nat
  PROVE  Attributed(SetPreferredArchNodeAffinity(p, configs), s)
<1> DEFINE new == {c \in Platforms(configs) :
                     c[2] \notin getExistingPreferredArchitectures(p) /\ FirstToName(configs, c)}
           prefs == {[arch |-> c[2], weight |-> configs[c[1]].weight] : c \in new}
           label == IF new = {} THEN p.prefLabel ELSE "set"
           srcs == {trackAffinitySource(configs, c, c \in new) : c \in Platforms(configs)}
           q == SetPreferredArchNodeAffinity(p, configs)
<1>1. q = [p EXCEPT !.preferred = p.preferred \cup prefs, !.prefLabel = label,
                    !.sources = p.sources \cup srcs]
  BY DEF SetPreferredArchNodeAffinity
<1>2. \A c \in Platforms(configs) :
        LET e == trackAffinitySource(configs, c, c \in new)
        IN e.arch = c[2] /\ e.weight = configs[c[1]].weight /\ e.source = configs[c[1]].name
           /\ (e.applied <=> c \in new)
  BY Zenon DEF trackAffinitySource
<1>3. ASSUME NEW c \in new, NEW d \in new, c[2] = d[2]
      PROVE  c = d
  <2>1. c \in (DOMAIN configs) \X Arch /\ d \in (DOMAIN configs) \X Arch
    BY Zenon DEF Platforms
  <2>2. /\ c[2] \in configs[c[1]].platforms /\ d[2] \in configs[d[1]].platforms
        /\ FirstToName(configs, c) /\ FirstToName(configs, d)
    BY Zenon DEF Platforms
  <2>3. ~(c[1] < d[1]) /\ ~(d[1] < c[1])
    BY <1>3, <2>1, <2>2 DEF FirstToName
  <2>4. c[1] = d[1]
    BY <2>1, <2>3
  <2> QED
    BY <1>3, <2>1, <2>4
<1>4. new \subseteq Platforms(configs)
  OBVIOUS
<1>5. p.preferred \cup prefs = prefs /\ s.preferred = {} /\ AppliedSources(p) = {}
  BY Zenon DEF Attributed
<1> HIDE DEF new
<1>6. \A e : e \in srcs /\ e.applied <=>
               \E c \in new : e = trackAffinitySource(configs, c, TRUE)
  <2>1. \A c \in new : trackAffinitySource(configs, c, c \in new) = trackAffinitySource(configs, c, TRUE)
    BY DEF trackAffinitySource
  <2> QED
    BY <1>2, <1>4, <2>1, Zenon
<1>7. q.preferred = prefs /\ q.sources = p.sources \cup srcs
  <2> HIDE DEF prefs, srcs, label, q
  <2> QED
    BY <1>1, <1>5 DEF Pod
<1> HIDE DEF srcs, q
<1>8. AppliedSources(q) = {trackAffinitySource(configs, c, TRUE) : c \in new}
  BY <1>5, <1>6, <1>7 DEF AppliedSources
<1> DEFINE entry(c) == trackAffinitySource(configs, c, TRUE)
<1>9. \A c : entry(c).arch = c[2] /\ entry(c).weight = configs[c[1]].weight
  BY DEF trackAffinitySource
<1>10. AppliedSources(q) = {entry(c) : c \in new}
  BY <1>8
<1> HIDE DEF entry
<1>11. q.preferred = {[arch |-> e.arch, weight |-> e.weight] : e \in AppliedSources(q)}
  <2>1. \A c \in new : [arch |-> c[2], weight |-> configs[c[1]].weight] =
                       [arch |-> entry(c).arch, weight |-> entry(c).weight]
    BY <1>9
  <2>2. prefs = {[arch |-> e.arch, weight |-> e.weight] : e \in {entry(c) : c \in new}}
    BY <2>1, Zenon
  <2> QED
    BY <1>7, <1>10, <2>2
<1>12. \A e, f \in AppliedSources(q) : e.arch = f.arch => e = f
  BY <1>3, <1>9, <1>10
<1> QED
  BY <1>5, <1>11, <1>12 DEF Attributed, q

\* The preferences are all the configurations change besides the CEL placement.
LEMMA PreferencesKeep ==
  ASSUME NEW p \in Pod, NEW configs,
         NEW q \in {SetPreferredArchNodeAffinity(p, configs),
                    trackSkippedMatchingConfigs(p, configs)}
  PROVE  /\ q.required = p.required /\ q.nodeSelector = p.nodeSelector
         /\ q.gate = p.gate /\ q.affLabel = p.affLabel /\ q.fallback = p.fallback
BY DEF SetPreferredArchNodeAffinity, trackSkippedMatchingConfigs, Pod

\* What the configurations make of a pod.
LEMMA ConfiguredPod ==
  ASSUME NEW p \in Pod, NEW s, Attributed(p, s), NEW m \in SUBSET PPCObjects,
         NEW order \in Orders(m), NEW cel \in SUBSET Arch, ctlCPPC \in CPPCObjects \cup {NoCPPC}
  PROVE  LET q == applyConfigurations(p, order, cel)
         IN /\ q \in Pod /\ Attributed(q, s)
            /\ q.gate = p.gate /\ q.fallback = p.fallback
            /\ q.required = IF cel = {} THEN p.required
                            ELSE applyArchitectureNodeAffinity(p, cel).required
            /\ q.affLabel = IF cel = {} THEN p.affLabel ELSE "overriden"
            /\ cel = {} => q.nodeSelector = p.nodeSelector
<1> DEFINE configs == Append(order, ctlCPPC)
           placed == applyCELArchitecturePlacement(p, cel)
           q == applyConfigurations(p, order, cel)
<1>1. DOMAIN configs \subseteq Nat
  <2>1. Cardinality(m) \in Nat
    BY ConfigAssumption, FS_Subset, FS_CardinalityType
  <2>2. order \in Seq(m)
    BY <2>1 DEF Orders
  <2> QED
    BY <2>2
<1>2. /\ placed \in Pod
      /\ placed.gate = p.gate /\ placed.fallback = p.fallback
      /\ placed.preferred = p.preferred /\ placed.sources = p.sources
      /\ placed.required = IF cel = {} THEN p.required
                           ELSE applyArchitectureNodeAffinity(p, cel).required
      /\ placed.affLabel = IF cel = {} THEN p.affLabel ELSE "overriden"
      /\ cel = {} => placed.nodeSelector = p.nodeSelector
  BY CELPlacement
<1>3. q = IF p.preferred # {} THEN trackSkippedMatchingConfigs(placed, configs)
          ELSE SetPreferredArchNodeAffinity(placed, configs)
  BY DEF applyConfigurations, isPreferredAffinityConfiguredForArchitecture
<1>4. q \in Pod
  BY ApplyConfigurationsProperties
<1> HIDE DEF configs, placed, q
<1>5. Attributed(placed, s)
  BY <1>2, Zenon DEF Attributed, AppliedSources
<1>6. Attributed(q, s)
  BY <1>1, <1>2, <1>3, <1>5, SkippedAttributed, FirstAttributed, Zenon
<1>7. /\ q.required = placed.required /\ q.nodeSelector = placed.nodeSelector
      /\ q.gate = placed.gate /\ q.affLabel = placed.affLabel /\ q.fallback = placed.fallback
  BY <1>2, <1>3, PreferencesKeep
<1> QED
  BY <1>2, <1>4, <1>6, <1>7 DEF q

-----------------------------------------------------------------------------
\* Removing the gate leaves the affinities alone.
LEMMA RemoveGateKeeps ==
  ASSUME NEW p \in Pod
  PROVE  LET q == RemoveSchedulingGate(p)
         IN /\ q \in Pod /\ ~q.gate
            /\ q.required = p.required /\ q.nodeSelector = p.nodeSelector
            /\ q.affLabel = p.affLabel /\ q.fallback = p.fallback
            /\ q.preferred = p.preferred /\ q.sources = p.sources
<1>1. RemoveSchedulingGate(p) \in Pod
  BY PodUpdates
<1> QED
  BY <1>1 DEF RemoveSchedulingGate, Pod

\* A copy with the webhook's terms, before its constraint is decided.
Undecided(p, s, cel) ==
    p.required = AdmittedTerms(s, cel) /\ p.affLabel # "set" /\ p.fallback = {}

\* A pod that has no architecture in some term is as its user wrote it.
LEMMA UnconfiguredIsUsers ==
  ASSUME NEW s \in Pod, NEW cel \in SUBSET Arch, NEW p \in Pod, Undecided(p, s, cel),
         ~isNodeSelectorConfiguredForArchitecture(p)
  PROVE  p.required = s.required /\ Terms(p) = Terms(s)
<1>1. cel = {}
  BY CELTermsConfigured DEF Undecided, AdmittedTerms
<1> QED
  BY <1>1 DEF Undecided, AdmittedTerms, Terms

\* The constraint of the images, or of the fallback, on a pod with the user's terms.
LEMMA SetRequiredTraced ==
  ASSUME NEW s \in Pod, \A i \in DOMAIN s.required : s.required[i] # <<>>,
         NEW p \in Pod, p.required = s.required, Terms(p) = Terms(s), NEW r \in Requirement,
         NEW q \in Pod, q.required = setRequiredArchNodeAffinity(p, r).required,
         ~q.gate, q.nodeSelector = p.nodeSelector, NEW im, r = ChosenFor(q, im), NEW cel
  PROVE  Traced(q, s, cel, im) /\ UpdateAccepted(p, q)
<1>1. Extends(q.required, Terms(s), r)
  BY SetRequiredExtends
<1>2. q.required \in Seq(Seq(Requirement))
  BY DEF Pod
<1>3. UpdateAccepted(p, q)
  BY <1>1, <1>2, ExtendedAccepted, Zenon
<1> QED
  BY <1>1, <1>3 DEF Traced

\* Inspecting the images keeps a pod traceable, and what it makes of it is accepted.
LEMMA InspectedPod ==
  ASSUME NEW s \in Pod, \A i \in DOMAIN s.required : s.required[i] # <<>>,
         NEW cel \in SUBSET Arch, NEW p \in Pod, Undecided(p, s, cel), Attributed(p, s),
         NEW fails \in BOOLEAN, ctlCPPC \in CPPCObjects \cup {NoCPPC}
  PROVE  LET q == inspectImages(p, fails)
         IN Traced(q, s, cel, images) /\ Attributed(q, s) /\ UpdateAccepted(p, q)
<1> DEFINE q == inspectImages(p, fails)
<1>1. CASE isNodeSelectorConfiguredForArchitecture(p)
  <2>1. q = RemoveSchedulingGate([p EXCEPT !.affLabel = "not-set"])
    BY <1>1 DEF inspectImages, SetNodeAffinityArchRequirement
  <2>2. /\ ~q.gate /\ q.affLabel = "not-set" /\ q.required = p.required
        /\ q.nodeSelector = p.nodeSelector /\ q.preferred = p.preferred /\ q.sources = p.sources
    BY <2>1 DEF RemoveSchedulingGate, Pod
  <2> HIDE DEF q
  <2>3. Traced(q, s, cel, images)
    BY <2>2 DEF Traced
  <2>4. Attributed(q, s)
    BY <2>2, Zenon DEF Attributed, AppliedSources
  <2>5. UpdateAccepted(p, q)
    BY <2>2, SameTermsAccepted
  <2> QED
    BY <2>3, <2>4, <2>5 DEF q
<1>2. CASE ~isNodeSelectorConfiguredForArchitecture(p) /\ ~fails
  <2> DEFINE r == getArchitecturePredicate(images)
             l == ensureArchitectureLabels([p EXCEPT !.errLabel = FALSE], r)
             a == setRequiredArchNodeAffinity(l, r)
  <2>1. q = RemoveSchedulingGate(a)
    BY <1>2 DEF inspectImages, SetNodeAffinityArchRequirement
  <2>2. r \in Requirement
    BY PredicateType
  <2> HIDE DEF r
  <2>3. /\ l \in Pod /\ l.required = p.required /\ l.fallback = {}
        /\ l.nodeSelector = p.nodeSelector /\ l.preferred = p.preferred /\ l.sources = p.sources
    <3> DEFINE e == [p EXCEPT !.errLabel = FALSE]
    <3>1. /\ e \in Pod /\ e.required = p.required /\ e.fallback = {}
          /\ e.nodeSelector = p.nodeSelector /\ e.preferred = p.preferred /\ e.sources = p.sources
      BY Zenon DEF Pod, Undecided
    <3> HIDE DEF e
    <3>2. l = ensureArchitectureLabels(e, r)
      BY DEF e
    <3> HIDE DEF l
    <3> QED
      BY <3>1, <3>2 DEF ensureArchitectureLabels, Pod
  <2> HIDE DEF l
  <2>4. /\ a \in Pod /\ a.fallback = {} /\ a.nodeSelector = p.nodeSelector
        /\ a.preferred = p.preferred /\ a.sources = p.sources
    BY <2>2, <2>3, SetRequiredProperties, SetRequiredExtends, Zenon
  <2>5. a.required = setRequiredArchNodeAffinity(p, r).required
    BY <2>3 DEF setRequiredArchNodeAffinity, Pod
  <2> HIDE DEF a
  <2>6. /\ q \in Pod /\ ~q.gate /\ q.required = a.required /\ q.fallback = {}
        /\ q.nodeSelector = p.nodeSelector /\ q.preferred = p.preferred /\ q.sources = p.sources
    <3> HIDE DEF q
    <3> QED
      BY <2>1, <2>4, RemoveGateKeeps, Zenon
  <2> HIDE DEF q
  <2>7. r = ChosenFor(q, images)
    BY <2>6 DEF ChosenFor, r
  <2>8. p.required = s.required /\ Terms(p) = Terms(s)
    BY <1>2, UnconfiguredIsUsers
  <2>9. Traced(q, s, cel, images) /\ UpdateAccepted(p, q)
    BY <2>2, <2>5, <2>6, <2>7, <2>8, SetRequiredTraced, Zenon
  <2>10. Attributed(q, s)
    BY <2>6, Zenon DEF Attributed, AppliedSources
  <2> QED
    BY <2>9, <2>10 DEF q
<1>3. CASE ~isNodeSelectorConfiguredForArchitecture(p) /\ fails
  <2> DEFINE failed == handleError(p)
             archs == ctlCPPC.fallback
             r == [key |-> ArchLabel, values |-> archs]
             a == setRequiredArchNodeAffinity(failed, r)
             back == setRequiredNodeAffinityToFallbackArchitecture(failed, archs)
  <2>1. q = IF ~maxRetries(failed) THEN failed
            ELSE RemoveSchedulingGate(IF archs = {} THEN failed ELSE back)
    BY <1>3 DEF inspectImages
  <2>2. archs \in SUBSET Arch
    BY ConfigAssumption DEF NoCPPC, ClusterPodPlacementConfig
  <2>3. /\ failed \in Pod /\ failed.required = p.required /\ failed.fallback = {}
        /\ failed.affLabel # "set" /\ failed.gate = p.gate
        /\ failed.nodeSelector = p.nodeSelector
        /\ failed.preferred = p.preferred /\ failed.sources = p.sources
    <3>1. failed \in Pod
      BY PodUpdates
    <3>2. /\ failed.required = p.required /\ failed.fallback = p.fallback
          /\ failed.affLabel = p.affLabel /\ failed.gate = p.gate
          /\ failed.nodeSelector = p.nodeSelector
          /\ failed.preferred = p.preferred /\ failed.sources = p.sources
      BY DEF handleError, Pod
    <3> HIDE DEF failed
    <3> QED
      BY <3>1, <3>2 DEF Undecided
  <2> HIDE DEF failed, archs
  <2>4. CASE ~maxRetries(failed) \/ archs = {}
    <3>1. q = failed \/ q = RemoveSchedulingGate(failed)
      BY <2>1, <2>4
    <3>2. /\ q.required = p.required /\ q.fallback = {} /\ q.affLabel # "set"
          /\ q.nodeSelector = p.nodeSelector /\ q.preferred = p.preferred /\ q.sources = p.sources
      <4> HIDE DEF q
      <4>1. CASE q = failed
        BY <2>3, <4>1
      <4>2. CASE q = RemoveSchedulingGate(failed)
        BY <2>3, <4>2, RemoveGateKeeps
      <4> QED
        BY <3>1, <4>1, <4>2
    <3> HIDE DEF q
    <3>3. Traced(q, s, cel, images)
      BY <3>2, Zenon DEF Traced, Undecided
    <3>4. Attributed(q, s)
      BY <3>2, Zenon DEF Attributed, AppliedSources
    <3>5. UpdateAccepted(p, q)
      BY <3>2, SameTermsAccepted
    <3> QED
      BY <3>3, <3>4, <3>5 DEF q
  <2>5. CASE maxRetries(failed) /\ archs # {}
    <3>1. q = RemoveSchedulingGate(back) /\ back = [a EXCEPT !.fallback = archs]
      BY <2>1, <2>5 DEF setRequiredNodeAffinityToFallbackArchitecture
    <3>2. r \in Requirement
      BY <2>2 DEF Requirement
    <3> HIDE DEF r, back
    <3>3. /\ a \in Pod /\ a.nodeSelector = p.nodeSelector
          /\ a.preferred = p.preferred /\ a.sources = p.sources
      BY <2>3, <3>2, SetRequiredProperties, SetRequiredExtends, Zenon
    <3>4. a.required = setRequiredArchNodeAffinity(p, r).required
      BY <2>3 DEF setRequiredArchNodeAffinity, Pod
    <3> HIDE DEF a, q
    <3>5. back \in Pod
      BY <2>2, <3>1, <3>3, Zenon DEF Pod
    <3>6. q \in Pod
      BY <3>1, <3>5, PodUpdates
    <3>7. /\ ~q.gate /\ q.required = a.required /\ q.fallback = archs
          /\ q.nodeSelector = p.nodeSelector /\ q.preferred = p.preferred /\ q.sources = p.sources
      BY <3>1, <3>3 DEF RemoveSchedulingGate, Pod
    <3>8. r = ChosenFor(q, images)
      BY <2>5, <3>7 DEF ChosenFor, r
    <3>9. p.required = s.required /\ Terms(p) = Terms(s)
      BY <1>3, UnconfiguredIsUsers
    <3>10. Traced(q, s, cel, images) /\ UpdateAccepted(p, q)
      BY <3>2, <3>4, <3>6, <3>7, <3>8, <3>9, SetRequiredTraced, Zenon
    <3>11. Attributed(q, s)
      BY <3>7, Zenon DEF Attributed, AppliedSources
    <3> QED
      BY <3>10, <3>11 DEF q
  <2> QED
    BY <2>4, <2>5
<1> QED
  BY <1>1, <1>2, <1>3

-----------------------------------------------------------------------------
(***************************************************************************)
(* The invariant: all three copies of the pod are traced and attributed.   *)
(***************************************************************************)

Known(p, s, cel, im) == Traced(p, s, cel, im) /\ Attributed(p, s)

CopiesKnown ==
    /\ spec \in PodSpecs
    /\ Known(pod, spec, celAtAdmission, images)
    /\ Known(cached.pod, spec, celAtAdmission, images)
    /\ Known(worker.pod, spec, celAtAdmission, images)
    /\ phase = "new" =>
         pod = spec /\ cached.pod = spec /\ worker.pod = spec /\ celAtAdmission = {}

\* The pod that the user submits has no terms or sources but the user's.
LEMMA SpecKnown ==
  ASSUME NEW s \in PodSpecs, NEW cel, NEW im
  PROVE  /\ s \in Pod /\ Known(s, s, cel, im) /\ ~s.gate /\ s.fallback = {}
         /\ \A i \in DOMAIN s.required : s.required[i] # <<>>
<1>1. /\ s \in Pod /\ ~s.gate /\ s.affLabel # "set" /\ s.sources = {} /\ s.fallback = {}
      /\ \A i \in DOMAIN s.required : s.required[i] # <<>>
  BY ConfigAssumption
<1>2. AppliedSources(s) = {}
  BY <1>1 DEF AppliedSources
<1>3. Traced(s, s, cel, im)
  BY <1>1 DEF Traced
<1>4. Attributed(s, s)
  BY <1>2 DEF Attributed
<1> QED
  BY <1>1, <1>3, <1>4 DEF Known

\* A change of the error counter, or of the nodeSelector, leaves a gated pod known.
LEMMA GatedKnown ==
  ASSUME NEW p \in Pod, p.gate, NEW s, NEW cel, NEW im, Known(p, s, cel, im),
         NEW q, q = handleError(p) \/ q = [p EXCEPT !.nodeSelector = TRUE]
  PROVE  /\ Known(q, s, cel, im) /\ q.required = p.required
         /\ p.nodeSelector => q.nodeSelector
<1>1. /\ q.required = p.required /\ q.affLabel = p.affLabel /\ q.fallback = p.fallback
      /\ q.gate = p.gate /\ q.preferred = p.preferred /\ q.sources = p.sources
      /\ p.nodeSelector => q.nodeSelector
  BY DEF handleError, Pod
<1>2. Traced(q, s, cel, im)
  BY <1>1, Zenon DEF Known, Traced
<1>3. Attributed(q, s)
  BY <1>1, Zenon DEF Known, Attributed, AppliedSources
<1> QED
  BY <1>1, <1>2, <1>3, Zenon DEF Known

\* processPod keeps a gated pod known, and only its CEL evaluation makes an update
\* that the API server refuses.
LEMMA ProcessedPod ==
  ASSUME NEW s \in PodSpecs, NEW admitted \in SUBSET Arch,
         NEW p \in Pod, p.gate, Known(p, s, admitted, images),
         NEW list \in SUBSET PPCObjects, ctlCPPC \in CPPCObjects \cup {NoCPPC},
         processListed(p, list)
  PROVE  /\ Known(worker'.pod, s, admitted, images)
         /\ AcceptedUnlessCEL(p, worker'.pod, worker'.cel, admitted)
<1> DEFINE matching == filterMatchingPPCs(list)
           seen == IF p.excluded THEN p ELSE publishIgnorePodIfSelected(p)
<1>1. matching \in SUBSET PPCObjects
  BY DEF filterMatchingPPCs
<1>2. s \in Pod /\ \A i \in DOMAIN s.required : s.required[i] # <<>>
  BY SpecKnown
<1>3. /\ seen \in Pod
      /\ seen.required = p.required /\ seen.nodeSelector = p.nodeSelector
      /\ seen.fallback = p.fallback /\ (seen.affLabel = p.affLabel \/ seen.affLabel = "not-set")
      /\ seen.preferred = p.preferred /\ seen.sources = p.sources
  <2>1. seen \in Pod
    BY PodUpdates
  <2> QED
    BY <2>1, Zenon DEF publishIgnorePodIfSelected, Pod
<1>4. Undecided(seen, s, admitted)
  <2> HIDE DEF seen
  <2> QED
    BY <1>3, Zenon DEF Known, Traced, Undecided
<1>5. Attributed(seen, s)
  <2> HIDE DEF seen
  <2> QED
    BY <1>3, Zenon DEF Known, Attributed, AppliedSources
<1>6. CASE shouldIgnorePod(p, ctlCPPC, matching)
  <2>1. worker' = [busy |-> TRUE, rv |-> cached.rv, cel |-> {}, pod |-> RemoveSchedulingGate(seen)]
    BY <1>6, Zenon DEF processListed
  <2> HIDE DEF seen, matching
  <2> DEFINE q == RemoveSchedulingGate(seen)
  <2>2. /\ ~q.gate /\ q.required = seen.required /\ q.nodeSelector = seen.nodeSelector
        /\ q.affLabel = seen.affLabel /\ q.preferred = seen.preferred /\ q.sources = seen.sources
    BY <1>3, RemoveGateKeeps
  <2> HIDE DEF q
  <2>3. worker'.pod = q
    BY <2>1 DEF q
  <2>4. Traced(q, s, admitted, images)
    BY <1>4, <2>2 DEF Traced, Undecided
  <2>5. Attributed(q, s)
    BY <1>5, <2>2, Zenon DEF Attributed, AppliedSources
  <2>6. UpdateAccepted(p, q)
    BY <1>3, <2>2, SameTermsAccepted
  <2> QED
    BY <2>3, <2>4, <2>5, <2>6, Zenon DEF Known, AcceptedUnlessCEL
<1>7. CASE ~shouldIgnorePod(p, ctlCPPC, matching)
  <2>1. PICK order \in Orders(matching), fails \in BOOLEAN :
          LET cel == celArchitectures(order, "stored")
              configured == applyConfigurations(seen, order, cel)
          IN worker' = [busy |-> TRUE, rv |-> cached.rv, cel |-> cel,
                        pod |-> IF cel # {} THEN RemoveSchedulingGate(configured)
                                ELSE inspectImages(configured, fails)]
    BY <1>7, Zenon DEF processListed
  <2> DEFINE cel == celArchitectures(order, "stored")
             c == applyConfigurations(seen, order, cel)
  <2>2. cel \in SUBSET Arch
    BY DEF celArchitectures
  <2>3. /\ worker'.pod = IF cel # {} THEN RemoveSchedulingGate(c) ELSE inspectImages(c, fails)
        /\ worker'.cel = cel
    BY <2>1
  <2> HIDE DEF seen, cel, matching
  <2>4. /\ c \in Pod /\ Attributed(c, s)
        /\ c.gate = seen.gate /\ c.fallback = seen.fallback
        /\ c.required = IF cel = {} THEN seen.required
                        ELSE applyArchitectureNodeAffinity(seen, cel).required
        /\ c.affLabel = IF cel = {} THEN seen.affLabel ELSE "overriden"
        /\ cel = {} => c.nodeSelector = seen.nodeSelector
    BY <1>1, <1>3, <1>5, <2>2, ConfiguredPod, SMTT(20)
  <2> HIDE DEF c
  <2>5. CASE cel # {}
    <3> DEFINE q == RemoveSchedulingGate(c)
    <3>1. /\ ~q.gate /\ q.required = c.required /\ q.affLabel = "overriden"
          /\ q.preferred = c.preferred /\ q.sources = c.sources
      BY <2>4, <2>5, RemoveGateKeeps
    <3> HIDE DEF q
    <3>2. worker'.pod = q
      BY <2>3, <2>5 DEF q
    <3>3. Traced(q, s, admitted, images)
      BY <3>1 DEF Traced
    <3>4. Attributed(q, s)
      BY <2>4, <3>1, Zenon DEF Attributed, AppliedSources
    <3>5. ASSUME cel = admitted, ~p.nodeSelector
          PROVE  UpdateAccepted(p, q)
      <4>1. seen.required = applyArchitectureNodeAffinity(s, cel).required
        BY <1>4, <2>5, <3>5 DEF Undecided, AdmittedTerms
      <4>2. applyArchitectureNodeAffinity(seen, cel).required = seen.required
        BY <1>2, <1>3, <2>2, <4>1, CELTermsAgain
      <4>3. q.required = p.required
        BY <1>3, <2>4, <2>5, <3>1, <4>2
      <4> QED
        BY <3>5, <4>3, SameTermsAccepted
    <3> QED
      BY <2>3, <2>5, <3>2, <3>3, <3>4, <3>5, Zenon DEF Known, AcceptedUnlessCEL
  <2>6. CASE cel = {}
    <3> DEFINE q == inspectImages(c, fails)
    <3>1. worker'.pod = q
      BY <2>3, <2>6
    <3>2. Undecided(c, s, admitted)
      BY <1>4, <2>4, <2>6 DEF Undecided
    <3>3. Traced(q, s, admitted, images) /\ Attributed(q, s) /\ UpdateAccepted(c, q)
      BY <1>2, <2>4, <3>2, InspectedPod
    <3> HIDE DEF q
    <3>4. c.required = p.required /\ c.nodeSelector = p.nodeSelector
      BY <1>3, <2>4, <2>6
    <3>5. UpdateAccepted(p, q)
      BY <3>3, <3>4, Zenon DEF UpdateAccepted
    <3> QED
      BY <3>1, <3>3, <3>5, Zenon DEF Known, AcceptedUnlessCEL
  <2> QED
    BY <2>5, <2>6
<1> QED
  BY <1>6, <1>7

\* The webhook gates a pod with the terms its CEL evaluation leaves, or does not gate it.
LEMMA HandledPod ==
  ASSUME TypeOK, spec \in PodSpecs, pod = spec, celAtAdmission = {}, Handle
  PROVE  Known(pod', spec, celAtAdmission', images)
<1>1. PICK list \in SUBSET PPCObjects :
        LET matching == filterMatchingPPCs(list)
            labelled == webhookLabels(pod, matching)
        IN \/ pod' = labelled /\ celAtAdmission' = celAtAdmission
           \/ \E order \in Orders(matching) :
                /\ celAtAdmission' = celArchitectures(order, "admission")
                /\ pod' = [ensureSchedulingGate(
                             applyCELArchitecturePlacement(labelled, celAtAdmission'))
                           EXCEPT !.gateLabel = "gated"]
  BY DEF Handle
<1> DEFINE labelled == webhookLabels(pod, filterMatchingPPCs(list))
           placed == applyCELArchitecturePlacement(labelled, celAtAdmission')
<1>2. spec \in Pod /\ Known(spec, spec, {}, images) /\ ~spec.gate /\ spec.fallback = {}
  BY SpecKnown
<1>3. /\ labelled \in Pod /\ labelled.affLabel = "not-set" /\ ~labelled.gate
      /\ labelled.required = spec.required /\ labelled.fallback = {}
      /\ labelled.preferred = spec.preferred /\ labelled.sources = spec.sources
  <2> DEFINE pref == IF whCPPC.platforms # {} \/ hasMatchingPPCWithPlugin(filterMatchingPPCs(list))
                     THEN "not-set" ELSE pod.prefLabel
  <2>1. pref \in {"absent", "not-set", "set"}
    BY Zenon DEF TypeOK, Pod
  <2>2. labelled = [spec EXCEPT !.prefLabel = pref, !.affLabel = "not-set", !.gateLabel = "not-set"]
    BY DEF webhookLabels
  <2> HIDE DEF pref, labelled
  <2> QED
    BY <1>2, <2>1, <2>2, Zenon DEF Pod
<1> HIDE DEF labelled
<1>4. CASE pod' = labelled
  <2>1. Traced(pod', spec, celAtAdmission', images)
    BY <1>3, <1>4 DEF Traced
  <2>2. Attributed(pod', spec)
    BY <1>2, <1>3, <1>4, Zenon DEF Known, Attributed, AppliedSources
  <2> QED
    BY <2>1, <2>2 DEF Known
<1>5. CASE pod' # labelled
  <2>1. /\ celAtAdmission' \in SUBSET Arch
        /\ pod' = [ensureSchedulingGate(placed) EXCEPT !.gateLabel = "gated"]
    BY <1>1, <1>5 DEF celArchitectures, labelled
  <2>2. /\ placed \in Pod /\ placed.fallback = {} /\ placed.affLabel # "set"
        /\ placed.preferred = spec.preferred /\ placed.sources = spec.sources
        /\ placed.required = IF celAtAdmission' = {} THEN spec.required
                             ELSE applyArchitectureNodeAffinity(labelled, celAtAdmission').required
    BY <1>3, <2>1, CELPlacement
  <2>3. placed.required = AdmittedTerms(spec, celAtAdmission')
    <3>1. Terms(labelled) = Terms(spec)
      BY <1>3 DEF Terms
    <3>2. applyArchitectureNodeAffinity(labelled, celAtAdmission').required =
            applyArchitectureNodeAffinity(spec, celAtAdmission').required
      <4> DEFINE terms(p) == [i \in DOMAIN Terms(p) |->
                      Append(withoutArch(Terms(p)[i]), [key |-> ArchLabel, values |-> celAtAdmission'])]
      <4>1. applyArchitectureNodeAffinity(labelled, celAtAdmission').required = terms(labelled)
        BY <1>3, <2>1, CELTerms
      <4>2. applyArchitectureNodeAffinity(spec, celAtAdmission').required = terms(spec)
        BY <1>2, <2>1, CELTerms
      <4> QED
        BY <3>1, <4>1, <4>2, Zenon
    <3> HIDE DEF placed
    <3> QED
      BY <2>2, <3>2 DEF AdmittedTerms
  <2> HIDE DEF placed
  <2>4. /\ pod'.required = placed.required /\ pod'.affLabel = placed.affLabel
        /\ pod'.fallback = placed.fallback
        /\ pod'.preferred = placed.preferred /\ pod'.sources = placed.sources
    BY <2>1, <2>2 DEF ensureSchedulingGate, Pod
  <2>5. Traced(pod', spec, celAtAdmission', images)
    BY <2>2, <2>3, <2>4 DEF Traced
  <2>6. Attributed(pod', spec)
    BY <1>2, <2>2, <2>4, Zenon DEF Known, Attributed, AppliedSources
  <2> QED
    BY <2>5, <2>6 DEF Known
<1> QED
  BY <1>4, <1>5

\* A reconcile that ends with an update began with a gated pod that was stored.
LEMMA ReconciledPod ==
  ASSUME TypedAndJustified, Coherent, CopiesKnown, Reconcile \/ ReconcileListError
  PROVE  /\ phase # "new" /\ worker'.rv = cached.rv
         /\ UNCHANGED <<phase, pod, rv, cached, spec, celAtAdmission, images>>
         /\ Known(worker'.pod, spec, celAtAdmission, images)
         /\ AcceptedUnlessCEL(cached.pod, worker'.pod, worker'.cel, celAtAdmission)
<1>1. /\ cached.pod \in Pod /\ ctlCPPC \in CPPCObjects \cup {NoCPPC}
      /\ celAtAdmission \in SUBSET Arch /\ ReconcilerLists \in SUBSET PPCObjects
  BY DEF TypedAndJustified, TypeOK, ReconcilerLists
<1>2. cached.live /\ cached.pod.gate /\ UNCHANGED <<phase, pod, rv, cached, spec, celAtAdmission, images>>
  BY Zenon DEF Reconcile, ReconcileListError, apiVars, worldVars
<1>3. phase # "new"
  BY <1>2 DEF Coherent
<1>4. worker'.rv = cached.rv
  BY ReconcileMoves
<1>5. spec \in PodSpecs /\ Known(cached.pod, spec, celAtAdmission, images)
  BY Zenon DEF CopiesKnown
<1>6. CASE Reconcile
  <2>1. processListed(cached.pod, ReconcilerLists)
    BY <1>6, Zenon DEF Reconcile
  <2>2. cached.pod.gate
    BY <1>2
  <2>3. /\ Known(worker'.pod, spec, celAtAdmission, images)
        /\ AcceptedUnlessCEL(cached.pod, worker'.pod, worker'.cel, celAtAdmission)
    BY <1>1, <1>5, <2>1, <2>2, ProcessedPod, Zenon
  <2> QED
    BY <1>2, <1>3, <1>4, <2>3
<1>7. CASE ReconcileListError
  <2>1. worker'.pod = handleError(cached.pod)
    BY <1>7 DEF ReconcileListError
  <2>2. /\ Known(worker'.pod, spec, celAtAdmission, images)
        /\ worker'.pod.required = cached.pod.required
        /\ cached.pod.nodeSelector => worker'.pod.nodeSelector
    <3> DEFINE p == cached.pod
               q == worker'.pod
    <3>1. q = handleError(p)
      BY <2>1
    <3>2. p \in Pod /\ p.gate /\ Known(p, spec, celAtAdmission, images)
      BY <1>1, <1>2, <1>5
    <3> HIDE DEF p, q
    <3>3. /\ Known(q, spec, celAtAdmission, images) /\ q.required = p.required
          /\ p.nodeSelector => q.nodeSelector
      BY <3>1, <3>2, GatedKnown, Zenon
    <3> QED
      BY <3>3 DEF p, q
  <2>3. UpdateAccepted(cached.pod, worker'.pod)
    BY <1>1, <2>2, SameTermsAccepted
  <2> QED
    BY <1>2, <1>3, <1>4, <2>2, <2>3 DEF AcceptedUnlessCEL
<1> QED
  BY <1>6, <1>7

\* Every step keeps every copy known.
LEMMA KnownStep == TypedAndJustified /\ Coherent /\ CopiesKnown /\ [Next]_vars => CopiesKnown'
<1> SUFFICES ASSUME TypedAndJustified, Coherent, CopiesKnown, [Next]_vars
             PROVE  CopiesKnown'
  OBVIOUS
<1> USE DEF apiVars, configVars, whVars, ctlVars, worldVars
<1>1. spec \in PodSpecs /\ Known(spec, spec, celAtAdmission, images)
  BY SpecKnown, Zenon DEF CopiesKnown
<1>2. CASE Handle
  <2>1. /\ phase = "new" /\ phase' = "admitted" /\ UNCHANGED <<spec, images, cached, worker>>
    BY <1>2, Zenon DEF Handle
  <2>2. Known(pod', spec, celAtAdmission', images)
    BY <1>1, <1>2, <2>1, HandledPod, Zenon DEF CopiesKnown, TypedAndJustified
  <2>3. cached.pod = spec /\ worker.pod = spec /\ Known(spec, spec, celAtAdmission', images)
    BY <1>1, <2>1, SpecKnown, Zenon DEF CopiesKnown
  <2> QED
    BY <1>1, <2>1, <2>2, <2>3 DEF CopiesKnown
<1>3. CASE PinPod
  <2>1. /\ pod \in Pod /\ pod.gate /\ pod' = [pod EXCEPT !.nodeSelector = TRUE]
        /\ phase' = "live" /\ UNCHANGED <<spec, celAtAdmission, images, cached, worker>>
    BY <1>3, Zenon DEF PinPod, TypedAndJustified, TypeOK
  <2>2. Known(pod', spec, celAtAdmission, images)
    BY <2>1, GatedKnown, Zenon DEF CopiesKnown
  <2> QED
    BY <2>1, <2>2 DEF CopiesKnown
<1>4. CASE Reconcile \/ ReconcileListError
  <2>1. /\ phase # "new" /\ UNCHANGED <<phase, pod, cached, spec, celAtAdmission, images>>
        /\ Known(worker'.pod, spec, celAtAdmission, images)
    BY <1>4, ReconciledPod, Zenon
  <2> QED
    BY <2>1 DEF CopiesKnown
<1>5. CASE PodEvent \/ ControllerRestart
  <2> DEFINE l == phase = "live"
  <2>1. /\ UNCHANGED <<phase, pod, spec, celAtAdmission, images>>
        /\ cached' = [live |-> l, rv |-> rv, pod |-> pod]
        /\ worker' = worker \/ worker' = Idle(spec)
    BY <1>5, Zenon DEF PodEvent, ControllerRestart, Finish
  <2> HIDE DEF l
  <2>2. cached'.pod = pod
    BY <2>1
  <2>3. worker'.pod = worker.pod \/ worker'.pod = spec
    BY <2>1 DEF Idle
  <2> QED
    BY <1>1, <2>1, <2>2, <2>3 DEF CopiesKnown
<1>6. CASE UpdateCall
  <2>1. /\ UNCHANGED <<phase, cached, spec, celAtAdmission, images>> /\ worker.busy
        /\ worker' = Idle(spec) /\ (pod' = pod \/ pod' = worker.pod)
    BY <1>6, Zenon DEF UpdateCall, UpdateSucceeds, UpdateRefused, UpdateFails, Finish, Store
  <2>2. worker'.pod = spec
    BY <2>1 DEF Idle
  <2>3. phase # "new"
    BY <2>1 DEF Coherent
  <2> QED
    BY <1>1, <2>1, <2>2, <2>3 DEF CopiesKnown
<1>7. CASE ChangePPC \/ ChangeCPPC \/ DeletePod \/ WebhookPPCEvent \/ WebhookCPPCEvent
           \/ WebhookUnavailable \/ Persist \/ PPCEvent \/ CPPCEvent \/ ReconcileNothing
           \/ UNCHANGED vars
  <2>1. /\ UNCHANGED <<pod, cached, worker, spec, celAtAdmission, images>>
        /\ phase' = "new" => phase = "new"
    BY <1>7, Zenon DEF ChangePPC, ChangeCPPC, DeletePod, WebhookPPCEvent, WebhookCPPCEvent,
                WebhookUnavailable, Persist, PPCEvent, CPPCEvent, ReconcileNothing, vars
  <2> QED
    BY <2>1 DEF CopiesKnown
<1> QED
  BY <1>2, <1>3, <1>4, <1>5, <1>6, <1>7
     DEF Next, Users, Webhook, Controller, Reconciler, Done

\* Every copy of the pod is known in every reachable state.
THEOREM KnownInvariant == Spec => []CopiesKnown
<1>1. Init => CopiesKnown
  <2> SUFFICES ASSUME Init PROVE CopiesKnown
    OBVIOUS
  <2>1. /\ spec \in PodSpecs /\ celAtAdmission = {}
        /\ pod = spec /\ cached.pod = spec /\ worker.pod = spec
    BY DEF Init, Idle
  <2>2. Known(spec, spec, celAtAdmission, images)
    BY <2>1, SpecKnown
  <2> QED
    BY <2>1, <2>2 DEF CopiesKnown
<1>2. TypedAndJustified /\ Coherent /\ CopiesKnown /\ [Next]_vars => CopiesKnown'
  BY KnownStep
<1> QED
  BY TypedInvariant, CoherentInvariant, <1>1, <1>2, PTL DEF Spec

\* The architectures of the images, or of the fallback, join exactly the terms in
\* which the user chose none; if there are none, the label that no node has joins all
\* of them (setRequiredArchNodeAffinity, pod_model.go:135-169).
THEOREM UserTermsTheorem == Spec => []UserTermsRespected
<1>1. CopiesKnown => UserTermsRespected
  <2> DEFINE archs == IF pod.fallback = {} THEN intersectImagesArchitecture(images)
                                           ELSE pod.fallback
             label == IF archs = {} THEN NoSupportedArchLabel ELSE ArchLabel
  <2> SUFFICES ASSUME CopiesKnown, phase = "live", pod.affLabel = "set"
               PROVE  /\ DOMAIN pod.required = DOMAIN Terms(spec)
                      /\ \A i \in DOMAIN Terms(spec) :
                           pod.required[i] =
                             IF HasKey(Terms(spec)[i], label) THEN Terms(spec)[i]
                             ELSE Append(Terms(spec)[i], [key |-> label, values |-> archs])
    BY Zenon DEF UserTermsRespected, Terms
  <2>1. Extends(pod.required, Terms(spec), ChosenFor(pod, images))
    BY Zenon DEF CopiesKnown, Known, Traced
  <2>2. ChosenFor(pod, images) = [key |-> label, values |-> archs]
    BY DEF ChosenFor, getArchitecturePredicate
  <2>3. ChosenFor(pod, images).key = label
    BY <2>2
  <2> QED
    BY <2>1, <2>2, <2>3, Zenon DEF Extends
<1> QED
  BY KnownInvariant, <1>1, PTL

\* The annotation tells where every preference comes from
\* (SetPreferredArchNodeAffinity and trackAffinitySource, pod_model.go:173-297).
THEOREM AttributionTheorem == Spec => []PreferencesAreAttributed
<1>1. CopiesKnown => PreferencesAreAttributed
  BY Zenon DEF CopiesKnown, Known, Attributed, AppliedSources, PreferencesAreAttributed
<1> QED
  BY KnownInvariant, <1>1, PTL

\* An update of the current version is refused only for what the reconciler's CEL
\* evaluation does after that of the webhook (cel_integration.go:80-97).
THEOREM RejectionTheorem == Spec => []RejectedOnlyByLateCEL
<1>1. Init => RejectedOnlyByLateCEL
  BY DEF Init, Idle, RejectedOnlyByLateCEL, Refused
<1>2. TypedAndJustified /\ Coherent /\ CopiesKnown /\ RejectedOnlyByLateCEL /\ [Next]_vars
        => RejectedOnlyByLateCEL'
  <2> SUFFICES ASSUME TypedAndJustified, Coherent, CopiesKnown, RejectedOnlyByLateCEL, [Next]_vars,
                      worker'.busy, phase' = "live", worker'.rv = rv',
                      ~UpdateAccepted(pod', worker'.pod)
               PROVE  worker'.cel # {} /\ (worker'.cel # celAtAdmission' \/ pod'.nodeSelector)
    BY Zenon DEF RejectedOnlyByLateCEL, Refused, LateCEL
  <2> USE DEF apiVars, configVars, whVars, ctlVars, worldVars
  <2>1. CASE Reconcile \/ ReconcileListError
    <3>1. /\ worker'.rv = cached.rv /\ UNCHANGED <<phase, pod, rv, celAtAdmission>>
          /\ AcceptedUnlessCEL(cached.pod, worker'.pod, worker'.cel, celAtAdmission)
      BY <2>1, ReconciledPod, Zenon
    <3>2. cached.pod = pod
      BY <3>1 DEF Coherent
    <3> QED
      BY <3>1, <3>2 DEF AcceptedUnlessCEL
  <2>2. CASE UpdateCall \/ ControllerRestart
    <3>1. worker' = Idle(spec)
      BY <2>2, Zenon DEF UpdateCall, UpdateSucceeds, UpdateRefused, UpdateFails, ControllerRestart, Finish
    <3> QED
      BY <3>1 DEF Idle
  <2>3. CASE PinPod \/ DeletePod
    <3>1. UNCHANGED worker /\ rv' = rv + 1
      BY <2>3, Zenon DEF PinPod, DeletePod
    <3> QED
      BY <3>1 DEF Coherent
  <2>4. CASE Handle \/ WebhookUnavailable \/ Persist
    <3>1. UNCHANGED worker /\ phase \in {"new", "admitted"}
      BY <2>4, Zenon DEF Handle, WebhookUnavailable, Persist
    <3> QED
      BY <3>1 DEF Coherent
  <2>5. CASE ChangePPC \/ ChangeCPPC \/ WebhookPPCEvent \/ WebhookCPPCEvent \/ PodEvent
             \/ PPCEvent \/ CPPCEvent \/ ReconcileNothing \/ UNCHANGED vars
    <3>1. UNCHANGED <<phase, pod, rv, worker, celAtAdmission>>
      BY <2>5, Zenon DEF ChangePPC, ChangeCPPC, WebhookPPCEvent, WebhookCPPCEvent, PodEvent,
                  PPCEvent, CPPCEvent, ReconcileNothing, vars
    <3> QED
      BY <3>1 DEF RejectedOnlyByLateCEL, Refused, LateCEL
  <2> QED
    BY <2>1, <2>2, <2>3, <2>4, <2>5
       DEF Next, Users, Webhook, Controller, Reconciler, Done
<1> QED
  BY TypedInvariant, CoherentInvariant, KnownInvariant, <1>1, <1>2, PTL DEF Spec

=============================================================================
