--------------------------- MODULE PodModelProofs ---------------------------
(***************************************************************************)
(* Lemmas about the operations of PodModel: each returns a pod, and the    *)
(* ones that constrain the architecture constrain every term.              *)
(***************************************************************************)
EXTENDS PodModel, FiniteSetTheorems, TLAPS

\* A position among the kept ones exists for every rank: the rank function is
\* an injection between finite sets of the same size, hence onto.
LEMMA RankExists ==
  ASSUME NEW n \in Nat, NEW kept \in SUBSET (1 .. n),
         NEW k \in 1 .. Cardinality(kept)
  PROVE  \E i \in kept : Cardinality({j \in kept : j <= i}) = k
<1> DEFINE below(i) == {j \in kept : j <= i}
           place == [i \in kept |-> Cardinality(below(i))]
           N == Cardinality(kept)
<1>1. IsFiniteSet(kept) /\ N \in Nat
  <2>1. IsFiniteSet(1 .. n)
    BY 1 \in Int, n \in Int, FS_Interval
  <2> QED
    BY <2>1, FS_Subset, FS_CardinalityType, Zenon
<1>2. ASSUME NEW i \in kept
      PROVE  IsFiniteSet(below(i)) /\ Cardinality(below(i)) \in 1 .. N
  <2>1. below(i) \in SUBSET kept /\ i \in below(i)
    OBVIOUS
  <2>2. IsFiniteSet(below(i)) /\ Cardinality(below(i)) <= N /\ Cardinality(below(i)) \in Nat
    BY <1>1, <2>1, FS_Subset, FS_CardinalityType
  <2>3. Cardinality(below(i)) # 0
    BY <2>1, <2>2, FS_EmptySet
  <2> QED
    BY <1>1, <2>2, <2>3
<1>3. ASSUME NEW i \in kept, NEW j \in kept, i < j
      PROVE  Cardinality(below(i)) # Cardinality(below(j))
  <2>1. i \in Nat /\ j \in Nat /\ \A m \in kept : m \in Nat
    OBVIOUS
  <2>2. below(i) \in SUBSET below(j) /\ j \in below(j) /\ j \notin below(i)
    <3>1. \A m \in kept : m <= i => m <= j
      BY <1>3, <2>1
    <3>2. j <= j /\ ~(j <= i)
      BY <1>3, <2>1
    <3> QED
      BY <3>1, <3>2, Zenon
  <2>3. below(i) # below(j)
    BY <2>2
  <2> HIDE DEF below
  <2> QED
    BY <1>2, <2>2, <2>3, FS_Subset
<1>4. place \in Injection(kept, 1 .. N)
  <2>1. place \in [kept -> 1 .. N]
    BY <1>2
  <2>2. \A i, j \in kept : place[i] = place[j] => i = j
    <3> SUFFICES ASSUME NEW i \in kept, NEW j \in kept, i # j
                 PROVE  place[i] # place[j]
      OBVIOUS
    <3>1. i < j \/ j < i
      OBVIOUS
    <3> QED
      BY <1>3, <3>1
  <2> QED
    BY <2>1, <2>2, Zenon DEF Injection, IsInjective
<1>5. IsFiniteSet(1 .. N) /\ Cardinality(1 .. N) = N
  BY <1>1, FS_Interval
<1>6. place \in Surjection(kept, 1 .. N)
  BY <1>4, <1>5, FS_Injection
<1> QED
  BY <1>6, Zenon DEF Surjection

\* Removing the architecture requirements of a term leaves a term without any.
LEMMA WithoutArchType ==
  ASSUME NEW term \in Seq(Requirement)
  PROVE  withoutArch(term) \in Seq(Requirement) /\ ~HasArchLabel(withoutArch(term))
<1> DEFINE kept == {i \in DOMAIN term : term[i].key # ArchLabel}
           place == [i \in kept |-> Cardinality({j \in kept : j <= i})]
           at(k) == CHOOSE i \in kept : place[i] = k
<1>1. Len(term) \in Nat /\ kept \in SUBSET (1 .. Len(term))
  OBVIOUS
<1>2. Cardinality(kept) \in Nat
  <2>1. IsFiniteSet(1 .. Len(term))
    BY <1>1, 1 \in Int, Len(term) \in Int, FS_Interval
  <2> QED
    BY <1>1, <2>1, FS_Subset, FS_CardinalityType
<1>3. ASSUME NEW k \in 1 .. Cardinality(kept)
      PROVE  at(k) \in kept
  <2>1. \E i \in kept : Cardinality({j \in kept : j <= i}) = k
    <3> HIDE DEF kept
    <3> QED BY <1>1, RankExists, Zenon
  <2>2. \E i \in kept : place[i] = k
    BY <2>1, Zenon
  <2> HIDE DEF place, kept
  <2> QED
    BY <2>2
<1>4. \A k \in 1 .. Cardinality(kept) :
        term[at(k)] \in Requirement /\ term[at(k)].key # ArchLabel
  <2>1. \A i \in kept : term[i] \in Requirement /\ term[i].key # ArchLabel
    OBVIOUS
  <2> HIDE DEF at, kept
  <2> QED
    BY <1>3, <2>1
<1>5. withoutArch(term) = [k \in 1 .. Cardinality(kept) |-> term[at(k)]]
  BY DEF withoutArch
<1> HIDE DEF kept, place, at
<1>6. withoutArch(term) \in Seq(Requirement)
  BY <1>2, <1>4, <1>5
<1>7. ~HasArchLabel(withoutArch(term))
  BY <1>4, <1>5 DEF HasArchLabel, HasKey
<1> QED
  BY <1>6, <1>7

\* Nothing else is removed: an architecture requirement at the end of a term without
\* any goes, and the rest stays as it is.
LEMMA WithoutArchLast ==
  ASSUME NEW term \in Seq(Requirement), ~HasArchLabel(term),
         NEW r \in Requirement, r.key = ArchLabel
  PROVE  withoutArch(Append(term, r)) = term
<1> DEFINE n == Len(term)
           longer == Append(term, r)
           kept == {i \in DOMAIN longer : longer[i].key # ArchLabel}
           place == [i \in kept |-> Cardinality({j \in kept : j <= i})]
           at(k) == CHOOSE i \in kept : place[i] = k
<1>1. /\ n \in Nat /\ DOMAIN longer = 1 .. (n + 1) /\ longer[n + 1] = r
      /\ \A i \in 1 .. n : longer[i] = term[i] /\ term[i].key # ArchLabel
  BY DEF HasArchLabel, HasKey
<1>2. withoutArch(longer) = [k \in 1 .. Cardinality(kept) |-> longer[at(k)]]
  BY DEF withoutArch
<1> HIDE DEF longer, n
<1>3. kept = 1 .. n
  BY <1>1
<1>4. \A i \in 1 .. n : Cardinality(1 .. i) = i
  BY <1>1, FS_Interval
<1>5. Cardinality(kept) = n
  <2>1. Cardinality(1 .. n) = n
    BY <1>1, FS_Interval
  <2> HIDE DEF kept
  <2> QED
    BY <1>3, <2>1
<1>6. \A i \in 1 .. n : place[i] = i
  <2> TAKE i \in 1 .. n
  <2>1. {j \in kept : j <= i} = 1 .. i
    BY <1>1, <1>3
  <2> QED
    BY <1>3, <1>4, <2>1
<1> HIDE DEF kept, place
<1>7. \A k \in 1 .. n : at(k) = k
  BY <1>3, <1>6
<1> HIDE DEF at
<1>8. withoutArch(longer) = [k \in 1 .. n |-> term[k]]
  BY <1>1, <1>2, <1>5, <1>7
<1>9. term = [k \in 1 .. n |-> term[k]]
  BY DEF n
<1> QED
  BY <1>8, <1>9 DEF longer

\* A term extended by a requirement names its key.
LEMMA AppendHasKey ==
  ASSUME NEW term \in Seq(Requirement), NEW r \in Requirement
  PROVE  /\ Append(term, r) \in Seq(Requirement)
         /\ HasKey(Append(term, r), r.key)
<1>1. Append(term, r)[Len(term) + 1] = r /\ Len(term) + 1 \in DOMAIN Append(term, r)
  OBVIOUS
<1> QED
  BY <1>1 DEF HasKey

\* Changing a label, the error counter, the gate or the nodeSelector of a pod
\* gives a pod.
LEMMA PodUpdates ==
  ASSUME NEW p \in Pod
  PROVE  /\ publishIgnorePodIfSelected(p) \in Pod
         /\ RemoveSchedulingGate(p) \in Pod
         /\ ensureSchedulingGate(p) \in Pod
         /\ handleError(p) \in Pod
         /\ removeArchitectureFromNodeSelector(p) \in Pod
<1>1. publishIgnorePodIfSelected(p) \in Pod
  <2>1. [p EXCEPT !.affLabel = "not-set"] \in Pod
    BY Zenon DEF Pod
  <2> QED
    BY <2>1, Zenon DEF publishIgnorePodIfSelected
<1>2. RemoveSchedulingGate(p) \in Pod
  BY Zenon DEF Pod, RemoveSchedulingGate
<1>3. ensureSchedulingGate(p) \in Pod
  BY Zenon DEF Pod, ensureSchedulingGate
<1>4. handleError(p) \in Pod
  <2>1. p.errs + 1 \in Nat
    BY DEF Pod
  <2> DEFINE e == p.errs + 1
  <2> HIDE DEF e
  <2>2. [p EXCEPT !.errLabel = TRUE, !.errs = e] \in Pod
    BY <2>1, Zenon DEF Pod, e
  <2> QED
    BY <2>2 DEF handleError, e
<1>5. removeArchitectureFromNodeSelector(p) \in Pod
  BY Zenon DEF Pod, removeArchitectureFromNodeSelector
<1> QED
  BY <1>1, <1>2, <1>3, <1>4, <1>5

\* The terms setRequiredArchNodeAffinity and applyArchitectureNodeAffinity start
\* from: never none.
LEMMA TermsType ==
  ASSUME NEW p \in Pod
  PROVE  LET terms == IF p.required = <<>> THEN << <<>> >> ELSE p.required
         IN terms \in Seq(Seq(Requirement)) /\ terms # <<>>
<1>1. p.required \in Seq(Seq(Requirement))
  BY DEF Pod
<1>2. << <<>> >> \in Seq(Seq(Requirement)) /\ << <<>> >> # <<>>
  OBVIOUS
<1> QED
  BY <1>1, <1>2

\* Replacing the terms of a pod.
LEMMA NewTermsType ==
  ASSUME NEW p \in Pod, NEW terms \in Seq(Seq(Requirement)),
         NEW label \in {"set", "overriden"}
  PROVE  [p EXCEPT !.affLabel = label, !.required = terms] \in Pod
BY Zenon DEF Pod

\* setRequiredArchNodeAffinity leaves no term without the requirement's key.
LEMMA SetRequiredProperties ==
  ASSUME NEW p \in Pod, NEW r \in Requirement
  PROVE  LET q == setRequiredArchNodeAffinity(p, r)
         IN /\ q \in Pod
            /\ q.required # <<>>
            /\ \A i \in DOMAIN q.required : HasKey(q.required[i], r.key)
<1> DEFINE terms == IF p.required = <<>> THEN << <<>> >> ELSE p.required
           new == [i \in DOMAIN terms |-> IF HasKey(terms[i], r.key) THEN terms[i]
                                         ELSE Append(terms[i], r)]
<1>1. terms \in Seq(Seq(Requirement)) /\ terms # <<>>
  BY TermsType
<1> HIDE DEF terms
<1>2. Len(terms) \in Nat /\ DOMAIN terms = 1 .. Len(terms) /\ Len(terms) # 0
  BY <1>1
<1>3. \A i \in 1 .. Len(terms) : new[i] \in Seq(Requirement) /\ HasKey(new[i], r.key)
  BY <1>1, <1>2, AppendHasKey
<1>4. new \in Seq(Seq(Requirement)) /\ new # <<>> /\ DOMAIN new = 1 .. Len(terms)
  <2>1. new \in [1 .. Len(terms) -> Seq(Requirement)]
    BY <1>2, <1>3
  <2> HIDE DEF new
  <2>2. new \in Seq(Seq(Requirement)) /\ Len(new) = Len(terms)
    BY <1>2, <2>1
  <2> QED
    BY <1>2, <2>1, <2>2
<1> HIDE DEF new
<1>5. setRequiredArchNodeAffinity(p, r) = [p EXCEPT !.affLabel = "set", !.required = new]
  BY DEF setRequiredArchNodeAffinity, terms, new
<1>6. setRequiredArchNodeAffinity(p, r).required = new
  BY <1>5 DEF Pod
<1>7. setRequiredArchNodeAffinity(p, r) \in Pod
  <2>1. [p EXCEPT !.affLabel = "set", !.required = new] \in Pod
    BY <1>4, NewTermsType, Zenon
  <2> QED
    BY <1>5, <2>1, Zenon
<1> QED
  BY <1>3, <1>4, <1>6, <1>7

\* The requirement computed from the images is one on the architecture label or
\* on the label no node has.
LEMMA PredicateType ==
  ASSUME NEW images
  PROVE  /\ getArchitecturePredicate(images) \in Requirement
         /\ getArchitecturePredicate(images).key \in {ArchLabel, NoSupportedArchLabel}
BY DEF getArchitecturePredicate, intersectImagesArchitecture, Requirement

\* A pod whose terms all carry one of the two keys is constrained.
LEMMA KeyedIsConstrained ==
  ASSUME NEW p, NEW key \in {ArchLabel, NoSupportedArchLabel}, p.required # <<>>,
         \A i \in DOMAIN p.required : HasKey(p.required[i], key)
  PROVE  Constrained(p)
BY DEF Constrained, HasArchLabel

\* What SetNodeAffinityArchRequirement returns is a constrained pod.
LEMMA SetNodeAffinityProperties ==
  ASSUME NEW p \in Pod, NEW images
  PROVE  /\ SetNodeAffinityArchRequirement(p, images) \in Pod
         /\ Constrained(SetNodeAffinityArchRequirement(p, images))
<1> DEFINE r == getArchitecturePredicate(images)
           labelled == ensureArchitectureLabels([p EXCEPT !.errLabel = FALSE], r)
<1>1. r \in Requirement /\ r.key \in {ArchLabel, NoSupportedArchLabel}
  BY PredicateType
<1>2. CASE isNodeSelectorConfiguredForArchitecture(p)
  <2>1. SetNodeAffinityArchRequirement(p, images) = [p EXCEPT !.affLabel = "not-set"]
    BY <1>2 DEF SetNodeAffinityArchRequirement
  <2>2. [p EXCEPT !.affLabel = "not-set"] \in Pod
    BY DEF Pod
  <2>3. Constrained([p EXCEPT !.affLabel = "not-set"])
    BY <1>2 DEF Constrained, isNodeSelectorConfiguredForArchitecture, Pod
  <2> QED
    BY <2>1, <2>2, <2>3
<1>3. CASE ~isNodeSelectorConfiguredForArchitecture(p)
  <2>1. [p EXCEPT !.errLabel = FALSE] \in Pod
    BY Zenon DEF Pod
  <2>2. labelled \in Pod
    <3> DEFINE q == [p EXCEPT !.errLabel = FALSE]
    <3> HIDE DEF q, r
    <3>1. q \in Pod
      BY <2>1 DEF q
    <3>2. ensureArchitectureLabels(q, r) \in Pod
      BY <3>1 DEF Pod, ensureArchitectureLabels
    <3> QED
      BY <3>2 DEF q, r
  <2>3. SetNodeAffinityArchRequirement(p, images) = setRequiredArchNodeAffinity(labelled, r)
    BY <1>3 DEF SetNodeAffinityArchRequirement
  <2> HIDE DEF labelled, r
  <2> QED
    BY <1>1, <2>2, <2>3, SetRequiredProperties, KeyedIsConstrained
<1> QED
  BY <1>2, <1>3

\* The fallback architecture constrains the pod.
LEMMA FallbackProperties ==
  ASSUME NEW p \in Pod, NEW archs \in SUBSET Arch
  PROVE  /\ setRequiredNodeAffinityToFallbackArchitecture(p, archs) \in Pod
         /\ Constrained(setRequiredNodeAffinityToFallbackArchitecture(p, archs))
<1> DEFINE r == [key |-> ArchLabel, values |-> archs]
           q == setRequiredArchNodeAffinity(p, r)
<1>1. r \in Requirement /\ r.key = ArchLabel
  BY DEF Requirement
<1> HIDE DEF r
<1>2. q \in Pod /\ q.required # <<>> /\ \A i \in DOMAIN q.required : HasKey(q.required[i], ArchLabel)
  BY <1>1, SetRequiredProperties
<1> HIDE DEF q
<1>3. [q EXCEPT !.fallback = archs] \in Pod
  BY <1>2, Zenon DEF Pod
<1>4. Constrained([q EXCEPT !.fallback = archs])
  BY <1>2 DEF Constrained, HasArchLabel, Pod
<1> QED
  BY <1>3, <1>4 DEF setRequiredNodeAffinityToFallbackArchitecture, q, r

\* CEL placement gives a pod, constrained when it selects an architecture, and
\* changes nothing when it selects none.
LEMMA CELProperties ==
  ASSUME NEW p \in Pod, NEW archs \in SUBSET Arch
  PROVE  /\ applyCELArchitecturePlacement(p, archs) \in Pod
         /\ archs # {} => Constrained(applyCELArchitecturePlacement(p, archs))
         /\ archs = {} => applyCELArchitecturePlacement(p, archs) = p
<1>1. CASE archs = {}
  BY <1>1 DEF applyCELArchitecturePlacement
<1>2. CASE archs # {}
  <2> DEFINE r == [key |-> ArchLabel, values |-> archs]
             q == removeArchitectureFromNodeSelector(p)
             terms == IF q.required = <<>> THEN << <<>> >> ELSE q.required
             new == [i \in DOMAIN terms |-> Append(withoutArch(terms[i]), r)]
  <2>1. r \in Requirement /\ r.key = ArchLabel
    BY DEF Requirement
  <2>2. q \in Pod
    BY PodUpdates
  <2>3. applyCELArchitecturePlacement(p, archs) =
           [[q EXCEPT !.required = new] EXCEPT !.affLabel = "overriden"]
    BY <1>2 DEF applyCELArchitecturePlacement, applyArchitectureNodeAffinity
  <2> HIDE DEF r, q
  <2>4. terms \in Seq(Seq(Requirement)) /\ terms # <<>>
    BY <2>2, TermsType
  <2> HIDE DEF terms
  <2>5. Len(terms) \in Nat /\ DOMAIN terms = 1 .. Len(terms) /\ Len(terms) # 0
    BY <2>4
  <2>6. \A i \in 1 .. Len(terms) : new[i] \in Seq(Requirement) /\ HasKey(new[i], ArchLabel)
    BY <2>1, <2>4, <2>5, WithoutArchType, AppendHasKey
  <2>7. new \in [1 .. Len(terms) -> Seq(Requirement)]
    BY <2>5, <2>6
  <2> HIDE DEF new
  <2>8. new \in Seq(Seq(Requirement)) /\ Len(new) = Len(terms)
    BY <2>5, <2>7
  <2>9. new # <<>> /\ DOMAIN new = 1 .. Len(terms)
    BY <2>5, <2>7, <2>8
  <2> DEFINE c == [[q EXCEPT !.required = new] EXCEPT !.affLabel = "overriden"]
  <2>10. c \in Pod
    BY <2>2, <2>8, Zenon DEF Pod
  <2>11. c.required = new
    BY <2>2 DEF Pod
  <2> HIDE DEF c
  <2>12. Constrained(c)
    BY <2>6, <2>9, <2>11, KeyedIsConstrained
  <2> QED
    BY <1>2, <2>3, <2>10, <2>12 DEF c
<1> QED
  BY <1>1, <1>2

\* A configuration as the scoring operations see it.
IsConfig(c) == c.platforms \subseteq Arch /\ c.weight \in Nat /\ c.name \in Names \cup {CPPCKind}

\* An entry of the sources annotation.
LEMMA SourceType ==
  ASSUME NEW configs, \A i \in DOMAIN configs : IsConfig(configs[i]),
         NEW pair \in Platforms(configs), NEW applied \in BOOLEAN
  PROVE  trackAffinitySource(configs, pair, applied) \in AffinitySource
BY DEF Platforms, IsConfig, trackAffinitySource, AffinitySource

\* The preferences of the configurations leave everything but the preferences,
\* their label and the annotation as it is.
LEMMA PreferenceProperties ==
  ASSUME NEW p \in Pod, NEW configs, \A i \in DOMAIN configs : IsConfig(configs[i]),
         NEW q \in {SetPreferredArchNodeAffinity(p, configs),
                    trackSkippedMatchingConfigs(p, configs)}
  PROVE  /\ q \in Pod
         /\ q.nodeSelector = p.nodeSelector /\ q.required = p.required
         /\ q.excluded = p.excluded /\ q.errs = p.errs /\ q.gateLabel = p.gateLabel
<1>1. CASE q = SetPreferredArchNodeAffinity(p, configs)
  <2> DEFINE new == {c \in Platforms(configs) :
                       /\ c[2] \notin getExistingPreferredArchitectures(p)
                       /\ FirstToName(configs, c)}
             prefs == p.preferred \cup {[arch |-> c[2], weight |-> configs[c[1]].weight] : c \in new}
             label == IF new = {} THEN p.prefLabel ELSE "set"
             srcs == p.sources \cup {trackAffinitySource(configs, c, c \in new) :
                                       c \in Platforms(configs)}
  <2>1. q = [p EXCEPT !.preferred = prefs, !.prefLabel = label, !.sources = srcs]
    BY <1>1 DEF SetPreferredArchNodeAffinity
  <2>2. prefs \in SUBSET Preference
    <3>1. p.preferred \in SUBSET Preference
      BY DEF Pod
    <3>2. \A c \in new : [arch |-> c[2], weight |-> configs[c[1]].weight] \in Preference
      BY DEF Platforms, IsConfig, Preference
    <3> HIDE DEF new
    <3> QED
      BY <3>1, <3>2
  <2>3. srcs \in SUBSET AffinitySource
    <3>1. p.sources \in SUBSET AffinitySource
      BY DEF Pod
    <3>2. \A c \in Platforms(configs) : (c \in new) \in BOOLEAN
      OBVIOUS
    <3>3. \A c \in Platforms(configs) : trackAffinitySource(configs, c, c \in new) \in AffinitySource
      <4> HIDE DEF new
      <4> QED BY <3>2, SourceType, Zenon
    <3> HIDE DEF new
    <3> QED
      BY <3>1, <3>3
  <2>4. label \in {"absent", "not-set", "set"}
    BY DEF Pod
  <2> HIDE DEF prefs, srcs, label
  <2> QED
    BY <2>1, <2>2, <2>3, <2>4, Zenon DEF Pod
<1>2. CASE q = trackSkippedMatchingConfigs(p, configs)
  <2> DEFINE srcs == p.sources \cup {trackAffinitySource(configs, c, FALSE) :
                                       c \in Platforms(configs)}
  <2>1. q = [p EXCEPT !.sources = srcs]
    BY <1>2 DEF trackSkippedMatchingConfigs
  <2>2. srcs \in SUBSET AffinitySource
    <3>1. p.sources \in SUBSET AffinitySource
      BY DEF Pod
    <3>2. \A c \in Platforms(configs) : trackAffinitySource(configs, c, FALSE) \in AffinitySource
      BY FALSE \in BOOLEAN, SourceType, Zenon
    <3> QED
      BY <3>1, <3>2, Zenon
  <2> HIDE DEF srcs
  <2> QED
    BY <2>1, <2>2 DEF Pod
<1> QED
  BY <1>1, <1>2

=============================================================================
