------------------------- MODULE CELEvaluatorProofs -------------------------
(***************************************************************************)
(* Proofs about PPCAdmission and CELEvaluator for any number of clients,   *)
(* workers, configurations, rules and pods.                                *)
(***************************************************************************)
EXTENDS CELEvaluator, FiniteSetTheorems, TLAPS

-----------------------------------------------------------------------------
(***************************************************************************)
(* The stored configurations.  A request that is on its way knows of every *)
(* configuration of its priority that it did not list, or inherits what    *)
(* the object it replaces did not.                                         *)
(***************************************************************************)

Names == {o.name : o \in Objects}
Entries == [object : Objects, unseen : SUBSET Names]
Requests == [busy : {TRUE}, object : Objects, old : SUBSET Entries, unseen : SUBSET Names]

AdmissionTyped ==
    /\ stored \in SUBSET Entries
    /\ DOMAIN request = Clients
    /\ \A c \in Clients : request[c] = NoRequest \/ request[c] \in Requests

\* The two configurations were given one priority without seeing each other.
Unseen(s, t) == t.object.name \in s.unseen \/ s.object.name \in t.unseen

\* The request r has missed the configuration s, or the object it replaces has.
Missed(r, s) ==
    \/ s.object.name \in r.unseen
    \/ \E o \in r.old : /\ o.object.priority = r.object.priority
                        /\ s.object.name \in o.unseen \/ r.object.name \in s.unseen

OneOfAName == \A s, t \in stored : s.object.name = t.object.name => s = t

RequestsMiss ==
    \A c \in Clients : request[c].busy =>
      \A s \in stored :
        /\ s.object.priority = request[c].object.priority
        /\ s.object.name # request[c].object.name
        => Missed(request[c], s)

AdmissionInv == AdmissionTyped /\ OneOfAName /\ EqualOnlyIfUnseen /\ RequestsMiss

\* A client without a request is not one of those with a request.
LEMMA BusyRequests ==
  ASSUME AdmissionTyped, NEW c \in Clients
  PROVE  /\ ~NoRequest.busy
         /\ request[c].busy => request[c] \in Requests
         /\ ~request[c].busy => request[c] = NoRequest
<1>1. ~NoRequest.busy
  BY DEF NoRequest
<1>2. \A r \in Requests : r.busy
  BY Zenon DEF Requests
<1> QED
  BY <1>1, <1>2 DEF AdmissionTyped

\* An admitted request, for an object that is new or replaces old.
LEMMA AdmittedInv ==
  ASSUME AdmissionInv, NEW c \in Clients, NEW o \in Objects, NEW old \in SUBSET stored,
         Admitted(c, o, old), UNCHANGED stored,
         \A s \in stored : s.object.priority = o.priority /\ s.object.name # o.name
           => \E d \in old : d.object.priority = o.priority /\ d.object.name = o.name
  PROVE  AdmissionInv'
<1> DEFINE r == [busy |-> TRUE, object |-> o, old |-> old, unseen |-> {}]
<1>1. r \in Requests /\ r.busy /\ r.object = o /\ r.old = old /\ r.unseen = {}
  BY DEF Requests, AdmissionInv, AdmissionTyped
<1>2. request' = [request EXCEPT ![c] = r]
  BY DEF Admitted
<1> HIDE DEF r
<1>3. request'[c] = r /\ DOMAIN request' = Clients /\ \A d \in Clients \ {c} : request'[d] = request[d]
  BY <1>2 DEF AdmissionInv, AdmissionTyped
<1>4. AdmissionTyped'
  BY <1>1, <1>3 DEF AdmissionInv, AdmissionTyped
<1>5. OneOfAName' /\ EqualOnlyIfUnseen'
  BY DEF AdmissionInv, OneOfAName, EqualOnlyIfUnseen
<1>6. ASSUME NEW d \in Clients, request'[d].busy, NEW s \in stored,
             s.object.priority = request'[d].object.priority,
             s.object.name # request'[d].object.name
      PROVE  Missed(request'[d], s)
  <2>1. CASE d # c
    BY <1>3, <1>6, <2>1 DEF AdmissionInv, RequestsMiss
  <2>2. CASE d = c
    <3>1. PICK e \in old : e.object.priority = o.priority /\ e.object.name = o.name
      BY <1>1, <1>3, <1>6, <2>2
    <3>2. s.object.name \in e.unseen \/ o.name \in s.unseen
      BY <1>1, <1>3, <1>6, <2>2, <3>1 DEF AdmissionInv, EqualOnlyIfUnseen
    <3> QED
      BY <1>1, <1>3, <2>2, <3>1, <3>2 DEF Missed
  <2> QED
    BY <2>1, <2>2
<1>7. RequestsMiss'
  BY <1>6 DEF RequestsMiss
<1> QED
  BY <1>4, <1>5, <1>7 DEF AdmissionInv

LEMMA StoredInv ==
  ASSUME AdmissionInv, NEW c \in Clients, Store(c)
  PROVE  AdmissionInv'
<1> DEFINE r == request[c]
           name == r.object.name
           kept == {s.unseen : s \in {s \in r.old : s.object.priority = r.object.priority}}
           new == [object |-> r.object, unseen |-> r.unseen \cup UNION kept]
<1>1. r.busy /\ r \in Requests
  BY BusyRequests DEF Store, AdmissionInv
<1>2. /\ r.object \in Objects /\ name \in Names
      /\ r.old \in SUBSET Entries /\ r.unseen \in SUBSET Names
  BY <1>1, Zenon DEF Requests, Names
<1>3. new \in Entries /\ new.object = r.object /\ new.unseen = r.unseen \cup UNION kept
  BY <1>2 DEF Entries
<1>4. CASE Named(name) # r.old
  <2>1. /\ stored' = stored
        /\ request' = [request EXCEPT ![c] = NoRequest]
    BY <1>4 DEF Store
  <2>2. AdmissionTyped'
    BY <2>1 DEF AdmissionInv, AdmissionTyped
  <2>3. OneOfAName' /\ EqualOnlyIfUnseen'
    BY <2>1 DEF AdmissionInv, OneOfAName, EqualOnlyIfUnseen
  <2>4. \A d \in Clients : request'[d].busy => request'[d] = request[d]
    BY <2>1, BusyRequests DEF AdmissionInv, AdmissionTyped
  <2>5. RequestsMiss'
    BY <2>1, <2>4 DEF AdmissionInv, RequestsMiss
  <2> QED
    BY <2>2, <2>3, <2>5 DEF AdmissionInv
<1>5. CASE Named(name) = r.old
  <2>1. /\ stored' = (stored \ r.old) \cup {new}
        /\ request' = Written(name, Clients \ {c})
    BY <1>5 DEF Store
  <2>2. \A s \in stored \ r.old : s.object.name # name
    BY <1>5 DEF Named
  <2> HIDE DEF new
  <2>3. DOMAIN request' = Clients
    BY <2>1 DEF Written
  <2>4. ASSUME NEW d \in Clients
        PROVE  \/ request'[d] = NoRequest
               \/ /\ request[d].busy /\ request[d] \in Requests
                  /\ request'[d] = [request[d] EXCEPT !.unseen = @ \cup {name}]
    BY <2>1, BusyRequests DEF Written, AdmissionInv
  <2>5. AdmissionTyped'
    <3>1. stored' \in SUBSET Entries
      BY <1>3, <2>1 DEF AdmissionInv, AdmissionTyped
    <3>2. ASSUME NEW d \in Clients, request'[d] # NoRequest
          PROVE  request'[d] \in Requests
      <4>1. ASSUME NEW q \in Requests, NEW unseen \in SUBSET Names
            PROVE  [q EXCEPT !.unseen = unseen] \in Requests
        BY Zenon DEF Requests
      <4>2. request[d].unseen \cup {name} \in SUBSET Names
        BY <1>2, <2>4, <3>2, Zenon DEF Requests
      <4>3. /\ request[d] \in Requests
            /\ request'[d] = [request[d] EXCEPT !.unseen = request[d].unseen \cup {name}]
        BY <2>4, <3>2
      <4> QED
        BY <4>1, <4>2, <4>3
    <3> QED
      BY <2>3, <3>1, <3>2 DEF AdmissionTyped
  <2>6. OneOfAName'
    BY <1>3, <2>1, <2>2 DEF AdmissionInv, OneOfAName
  <2>7. ASSUME NEW s \in stored \ r.old, s.object.priority = r.object.priority
        PROVE  Unseen(s, new)
    <3>1. Missed(r, s)
      BY <1>1, <2>2, <2>7 DEF AdmissionInv, RequestsMiss
    <3>2. CASE s.object.name \in r.unseen
      BY <1>3, <3>2 DEF Unseen
    <3>3. ASSUME NEW o \in r.old, o.object.priority = r.object.priority,
                 s.object.name \in o.unseen \/ r.object.name \in s.unseen
          PROVE  Unseen(s, new)
      <4>1. o.unseen \in kept
        BY <3>3
      <4> QED
        BY <1>3, <3>3, <4>1 DEF Unseen
    <3> QED
      BY <3>1, <3>2, <3>3 DEF Missed
  <2>8. EqualOnlyIfUnseen'
    BY <1>3, <2>1, <2>7 DEF AdmissionInv, EqualOnlyIfUnseen, Unseen
  <2>9. RequestsMiss'
    <3>1. SUFFICES ASSUME NEW d \in Clients, request'[d].busy, NEW s \in stored',
                          s.object.priority = request'[d].object.priority,
                          s.object.name # request'[d].object.name
                   PROVE  Missed(request'[d], s)
      BY DEF RequestsMiss
    <3>2. /\ request[d].busy /\ request[d] \in Requests
          /\ request'[d] = [request[d] EXCEPT !.unseen = @ \cup {name}]
      BY <2>4, <3>1, BusyRequests DEF AdmissionInv
    <3>3. /\ request'[d].object = request[d].object
          /\ request'[d].old = request[d].old
          /\ request'[d].unseen = request[d].unseen \cup {name}
      BY <3>2 DEF Requests
    <3>4. CASE s = new
      BY <1>3, <3>3, <3>4 DEF Missed
    <3>5. CASE s \in stored \ r.old
      <4>1. Missed(request[d], s)
        BY <3>1, <3>2, <3>3, <3>5 DEF AdmissionInv, RequestsMiss
      <4> QED
        BY <3>3, <4>1 DEF Missed
    <3> QED
      BY <2>1, <3>1, <3>4, <3>5
  <2> QED
    BY <2>5, <2>6, <2>8, <2>9 DEF AdmissionInv
<1> QED
  BY <1>4, <1>5

LEMMA AdmissionStep ==
  ASSUME AdmissionInv, AdmissionNext
  PROVE  AdmissionInv'
<1>1. PICK c \in Clients : \/ \E o \in Objects : Create(c, o) \/ Update(c, o)
                           \/ \E s \in stored : Delete(c, s)
                           \/ Store(c)
  BY DEF AdmissionNext
<1>2. ASSUME NEW o \in Objects, Create(c, o)
      PROVE  AdmissionInv'
  <2>1. /\ Admitted(c, o, {}) /\ UNCHANGED stored
        /\ \A s \in stored : s.object.priority # o.priority
    BY <1>2 DEF Create, ValidatePriorityNew
  <2> QED
    BY <2>1, AdmittedInv
<1>3. ASSUME NEW o \in Objects, Update(c, o)
      PROVE  AdmissionInv'
  <2>1. PICK old \in stored : /\ old.object.name = o.name
                              /\ ValidatePriorityUpdate(o, old) /\ Admitted(c, o, {old})
    BY <1>3, Zenon DEF Update, Named
  <2>2. \A s \in stored : s.object.priority = o.priority /\ s.object.name # o.name
          => old.object.priority = o.priority
    BY <2>1 DEF ValidatePriorityUpdate
  <2>3. UNCHANGED stored
    BY <1>3 DEF Update
  <2>4. \A s \in stored : s.object.priority = o.priority /\ s.object.name # o.name
          => \E d \in {old} : d.object.priority = o.priority /\ d.object.name = o.name
    BY <2>1, <2>2
  <2> QED
    BY <2>1, <2>3, <2>4, AdmittedInv
<1>4. ASSUME NEW s \in stored, Delete(c, s)
      PROVE  AdmissionInv'
  BY <1>4 DEF Delete, AdmissionInv, AdmissionTyped, OneOfAName, EqualOnlyIfUnseen, RequestsMiss
<1> QED
  BY <1>1, <1>2, <1>3, <1>4, StoredInv

-----------------------------------------------------------------------------
(***************************************************************************)
(* What a configuration says, in terms of the rules seen so far.           *)
(***************************************************************************)

ValidAt(o, i, pod) == o.rules[i].expr \in Compiles /\ Verdict[o.rules[i].expr][pod] # "error"
MatchAt(o, i, pod) == o.rules[i].expr \in Compiles /\ Verdict[o.rules[i].expr][pod] = "true"

\* The first rule that matches decides.
LEMMA FirstMatch ==
  ASSUME NEW o \in Objects, NEW pod \in Pods, NEW i \in 1 .. Len(o.rules),
         MatchAt(o, i, pod), \A j \in 1 .. i - 1 : ~MatchAt(o, j, pod)
  PROVE  Says(o, pod) = o.rules[i].archs
<1> DEFINE valid == {j \in DOMAIN o.rules : ValidAt(o, j, pod)}
           matching == {j \in valid : Verdict[o.rules[j].expr][pod] = "true"}
<1>1. DOMAIN o.rules = 1 .. Len(o.rules) /\ Len(o.rules) \in Nat
  BY AdmissionAssumption
<1>2. i \in matching
  BY <1>1 DEF MatchAt, ValidAt
<1>3. \A j \in matching : i <= j
  BY <1>1 DEF MatchAt, ValidAt
<1>4. matching \subseteq Nat
  BY <1>1
<1> HIDE DEF matching
<1>5. (CHOOSE k \in matching : \A j \in matching : k <= j) = i
  <2>1. \A k \in matching : (\A j \in matching : k <= j) => k = i
    BY <1>2, <1>3, <1>4
  <2>2. \E k \in matching : \A j \in matching : k <= j
    BY <1>2, <1>3
  <2> QED
    BY <2>1, <2>2, Zenon
<1>6. Says(o, pod) = IF matching # {}
                     THEN o.rules[CHOOSE k \in matching : \A j \in matching : k <= j].archs
                     ELSE IF valid = {} /\ o.rules # <<>> THEN {} ELSE o.fallback
  BY Zenon DEF Says, matching, ValidAt
<1> QED
  BY <1>2, <1>5, <1>6, Zenon

\* No rule matches: the fallback, or nothing when every rule failed.
LEMMA NoMatch ==
  ASSUME NEW o \in Objects, NEW pod \in Pods,
         \A j \in 1 .. Len(o.rules) : ~MatchAt(o, j, pod)
  PROVE  /\ (\E j \in 1 .. Len(o.rules) : ValidAt(o, j, pod)) => Says(o, pod) = o.fallback
         /\ o.rules = <<>> => Says(o, pod) = o.fallback
         /\ o.rules # <<>> /\ (\A j \in 1 .. Len(o.rules) : ~ValidAt(o, j, pod))
              => Says(o, pod) = {}
<1> DEFINE valid == {j \in DOMAIN o.rules : ValidAt(o, j, pod)}
           matching == {j \in valid : Verdict[o.rules[j].expr][pod] = "true"}
<1>1. DOMAIN o.rules = 1 .. Len(o.rules)
  BY AdmissionAssumption
<1>2. matching = {}
  BY <1>1 DEF MatchAt, ValidAt
<1>3. Says(o, pod) = IF matching # {}
                     THEN o.rules[CHOOSE k \in matching : \A j \in matching : k <= j].archs
                     ELSE IF valid = {} /\ o.rules # <<>> THEN {} ELSE o.fallback
  BY Zenon DEF Says, ValidAt
<1>4. Says(o, pod) = IF valid = {} /\ o.rules # <<>> THEN {} ELSE o.fallback
  BY <1>2, <1>3
<1>5. (\E j \in 1 .. Len(o.rules) : ValidAt(o, j, pod)) => valid # {}
  BY <1>1
<1>6. (\A j \in 1 .. Len(o.rules) : ~ValidAt(o, j, pod)) => valid = {}
  BY <1>1
<1> HIDE DEF valid
<1> QED
  BY <1>4, <1>5, <1>6

-----------------------------------------------------------------------------
(***************************************************************************)
(* An evaluation.  The configurations it has passed over say nothing, the  *)
(* one it is at has the highest priority of those that are left, and the   *)
(* rules it has passed over do not match.                                  *)
(***************************************************************************)

ObjectsOf(listed) == {s.object : s \in listed}

\* The list is one the store was in.
Snapshot(listed) ==
    /\ listed \in SUBSET Entries
    /\ \A s, t \in listed :
         /\ s.object.name = t.object.name => s = t
         /\ s.object.priority = t.object.priority /\ s.object.name # t.object.name => Unseen(s, t)

Picks == [pc : {"pick"}, pod : Pods, listed : SUBSET Entries, todo : SUBSET Objects]
Runs == [pc : {"rule", "compile"}, pod : Pods, listed : SUBSET Entries, todo : SUBSET Objects,
         ppc : Objects, i : Nat, evaluated : BOOLEAN]

Picking(ev, e) ==
    /\ e \in Picks
    /\ Snapshot(e.listed)
    /\ e.todo \subseteq ObjectsOf(e.listed)
    /\ ev # "broken" => \A o \in ObjectsOf(e.listed) \ e.todo : Says(o, e.pod) = {}

\* The configuration that the evaluation is at.
AtConfiguration(e) ==
    /\ Snapshot(e.listed)
    /\ e.todo \subseteq ObjectsOf(e.listed)
    /\ e.ppc \in ObjectsOf(e.listed)
    /\ \A o \in ObjectsOf(e.listed) \ e.todo : o # e.ppc => Says(o, e.pod) = {}
    /\ \A o \in e.todo \cup {e.ppc} : o.priority <= e.ppc.priority

\* The rule that it is at.
AtRule(e) ==
    /\ e.i \in 1 .. Len(e.ppc.rules) + 1
    /\ e.pc = "compile" => e.i <= Len(e.ppc.rules)
    /\ \A j \in 1 .. e.i - 1 : ~MatchAt(e.ppc, j, e.pod)
    /\ e.evaluated <=> \E j \in 1 .. e.i - 1 : ValidAt(e.ppc, j, e.pod)

Running(ev, e) == ev = "ready" /\ e \in Runs /\ AtConfiguration(e) /\ AtRule(e)

Speaking(e) == {o \in ObjectsOf(e.listed) : Says(o, e.pod) # {}}

Ended(ev, e) ==
    /\ e.pc = "done"
    /\ Snapshot(e.listed)
    /\ ev # "ready" => e.outcome = NoOutcome
    /\ ev # "broken" =>
         IF Speaking(e) = {} THEN e.outcome = NoOutcome
         ELSE \E o \in Highest(Speaking(e)) :
                e.outcome = [name |-> o.name, archs |-> Says(o, e.pod)]

EvalOK(ev, e) == e = Resting \/ Picking(ev, e) \/ Running(ev, e) \/ Ended(ev, e)

\* The states tell the kinds of evaluation apart.
LEMMA Kinds ==
  ASSUME NEW ev, NEW e, EvalOK(ev, e)
  PROVE  /\ e.pc = "idle" => e = Resting
         /\ e.pc = "pick" => Picking(ev, e)
         /\ e.pc \in {"rule", "compile"} => Running(ev, e)
         /\ e.pc = "done" => Ended(ev, e)
<1>1. Resting.pc = "idle"
  BY DEF Resting
<1>2. Picking(ev, e) => e.pc = "pick"
  BY DEF Picking, Picks
<1>3. Running(ev, e) => e.pc \in {"rule", "compile"}
  BY DEF Running, Runs
<1>4. Ended(ev, e) => e.pc = "done"
  BY DEF Ended
<1> QED
  BY <1>1, <1>2, <1>3, <1>4 DEF EvalOK

\* The result of a configuration ends the evaluation, or lets it go on.
LEMMA AppliedOK ==
  ASSUME NEW e \in Runs, AtConfiguration(e), NEW archs, archs = Says(e.ppc, e.pod)
  PROVE  EvalOK("ready", Applied(e, archs))
<1>1. /\ e.pod \in Pods /\ e.listed \in SUBSET Entries
      /\ e.todo \in SUBSET Objects /\ e.ppc \in Objects
  BY DEF Runs
<1>2. CASE archs = {}
  <2> DEFINE f == [pc |-> "pick", pod |-> e.pod, listed |-> e.listed, todo |-> e.todo]
  <2>1. Applied(e, archs) = f
    BY <1>2 DEF Applied
  <2>2. f \in Picks /\ f.listed = e.listed /\ f.todo = e.todo /\ f.pod = e.pod
    BY <1>1 DEF Picks
  <2> HIDE DEF f
  <2>3. Picking("ready", f)
    BY <1>2, <2>2, Zenon DEF AtConfiguration, Picking
  <2> QED
    BY <2>1, <2>3 DEF EvalOK
<1>3. CASE archs # {}
  <2> DEFINE out == [name |-> e.ppc.name, archs |-> archs]
             f == [pc |-> "done", pod |-> e.pod, listed |-> e.listed, outcome |-> out]
  <2>1. Applied(e, archs) = f
    BY <1>3 DEF Applied, Done
  <2>2. f.pc = "done" /\ f.listed = e.listed /\ f.pod = e.pod /\ f.outcome = out
    OBVIOUS
  <2>3. out = [name |-> e.ppc.name, archs |-> Says(e.ppc, e.pod)]
    OBVIOUS
  <2> HIDE DEF f, out
  <2>4. e.ppc \in Speaking(e) /\ Speaking(e) \subseteq e.todo \cup {e.ppc}
    BY <1>3 DEF AtConfiguration, Speaking
  <2>5. e.ppc \in Highest(Speaking(e))
    BY <2>4 DEF AtConfiguration, Highest
  <2>6. Speaking(f) = Speaking(e)
    BY <2>2 DEF Speaking
  <2>7. Ended("ready", f)
    BY <2>2, <2>3, <2>4, <2>5, <2>6 DEF Ended, AtConfiguration
  <2> QED
    BY <2>1, <2>7 DEF EvalOK
<1> QED
  BY <1>2, <1>3

\* A rule that does not match is passed over.
LEMMA NextRuleOK ==
  ASSUME NEW e \in Runs, AtConfiguration(e), AtRule(e), e.i <= Len(e.ppc.rules),
         ~MatchAt(e.ppc, e.i, e.pod), NEW evaluated \in BOOLEAN,
         evaluated <=> ValidAt(e.ppc, e.i, e.pod)
  PROVE  EvalOK("ready", NextRule(e, evaluated))
<1> DEFINE b == e.evaluated \/ evaluated
           f == [e EXCEPT !.pc = "rule", !.i = @ + 1, !.evaluated = b]
<1>1. b \in BOOLEAN
  OBVIOUS
<1>2. b <=> (e.evaluated \/ evaluated)
  OBVIOUS
<1>3. NextRule(e, evaluated) = f
  BY Zenon DEF NextRule
<1> HIDE DEF b
<1>4. f \in Runs
  <2>1. ASSUME NEW n \in Nat, NEW Flag, NEW flag \in Flag, NEW q,
               q \in [pc : {"rule", "compile"}, pod : Pods, listed : SUBSET Entries,
                      todo : SUBSET Objects, ppc : Objects, i : Nat, evaluated : Flag]
        PROVE  [q EXCEPT !.pc = "rule", !.i = n, !.evaluated = flag]
                 \in [pc : {"rule", "compile"}, pod : Pods, listed : SUBSET Entries,
                      todo : SUBSET Objects, ppc : Objects, i : Nat, evaluated : Flag]
    BY <2>1, Zenon
  <2>2. e.i + 1 \in Nat
    BY DEF Runs
  <2>3. f = [e EXCEPT !.pc = "rule", !.i = e.i + 1, !.evaluated = b]
    BY Zenon
  <2> QED
    BY <1>1, <2>1, <2>2, <2>3, Zenon DEF Runs
<1>5. /\ f.pod = e.pod /\ f.listed = e.listed /\ f.todo = e.todo /\ f.ppc = e.ppc
      /\ f.pc = "rule" /\ f.i = e.i + 1 /\ f.evaluated = b
  BY <1>1 DEF Runs
<1> HIDE DEF f
<1>6. AtConfiguration(f)
  BY <1>5, Zenon DEF AtConfiguration
<1>7. e.i \in Nat /\ e.i \in 1 .. Len(e.ppc.rules) /\ Len(e.ppc.rules) \in Nat
  BY AdmissionAssumption DEF Runs, AtRule
<1>8. \A j \in 1 .. f.i - 1 : j \in 1 .. e.i - 1 \/ j = e.i
  BY <1>5, <1>7
<1>9. \A j : j \in 1 .. e.i - 1 \/ j = e.i => j \in 1 .. f.i - 1
  BY <1>5, <1>7
<1>10. \A j \in 1 .. f.i - 1 : ~MatchAt(f.ppc, j, f.pod)
  BY <1>5, <1>8 DEF AtRule
<1>11. e.evaluated <=> \E j \in 1 .. e.i - 1 : ValidAt(e.ppc, j, e.pod)
  BY DEF AtRule
<1>12. b <=> \E j \in 1 .. f.i - 1 : ValidAt(f.ppc, j, f.pod)
  BY <1>2, <1>5, <1>8, <1>9, <1>11, Zenon
<1>13. f.evaluated <=> \E j \in 1 .. f.i - 1 : ValidAt(f.ppc, j, f.pod)
  BY <1>5, <1>12, Zenon
<1>14. f.i \in 1 .. Len(f.ppc.rules) + 1 /\ f.pc # "compile"
  BY <1>5, <1>7
<1>15. AtRule(f)
  BY <1>10, <1>13, <1>14, Zenon DEF AtRule
<1> QED
  BY <1>3, <1>4, <1>6, <1>15, Zenon DEF EvalOK, Running

\* A rule that was evaluated with its own program decides, or is passed over.
LEMMA AfterRuleOK ==
  ASSUME NEW e \in Runs, AtConfiguration(e), AtRule(e), e.i <= Len(e.ppc.rules),
         NEW prog, prog = e.ppc.rules[e.i].expr, prog \in Compiles
  PROVE  EvalOK("ready", AfterRule(e, prog))
<1>1. e.ppc \in Objects /\ e.pod \in Pods /\ e.i \in 1 .. Len(e.ppc.rules)
  BY AdmissionAssumption DEF Runs, AtRule
<1>2. CASE Matches(prog, e.pod)
  <2>1. MatchAt(e.ppc, e.i, e.pod)
    BY <1>2 DEF MatchAt, Matches
  <2>2. Says(e.ppc, e.pod) = e.ppc.rules[e.i].archs
    BY <1>1, <2>1, FirstMatch DEF AtRule
  <2> QED
    BY <1>2, <2>2, AppliedOK DEF AfterRule
<1>3. CASE ~Matches(prog, e.pod)
  <2> DEFINE b == Evaluates(prog, e.pod)
  <2>1. ~MatchAt(e.ppc, e.i, e.pod)
    BY <1>3 DEF MatchAt, Matches
  <2>2. b \in BOOLEAN
    BY DEF Evaluates
  <2>3. b <=> ValidAt(e.ppc, e.i, e.pod)
    BY DEF Evaluates, ValidAt
  <2>4. AfterRule(e, prog) = NextRule(e, b)
    BY <1>3, Zenon DEF AfterRule
  <2> HIDE DEF b
  <2>5. EvalOK("ready", NextRule(e, b))
    BY <2>1, <2>2, <2>3, NextRuleOK
  <2> QED
    BY <2>4, <2>5, Zenon
<1> QED
  BY <1>2, <1>3

\* After the last rule the configuration gives its fallback or nothing.
LEMMA AfterRulesOK ==
  ASSUME NEW e \in Runs, AtConfiguration(e), AtRule(e), e.i > Len(e.ppc.rules)
  PROVE  EvalOK("ready", AfterRules(e))
<1>1. /\ e.ppc \in Objects /\ e.pod \in Pods
      /\ \A j : j \in 1 .. Len(e.ppc.rules) <=> j \in 1 .. e.i - 1
  BY AdmissionAssumption DEF Runs, AtRule
<1>2. \A j \in 1 .. Len(e.ppc.rules) : ~MatchAt(e.ppc, j, e.pod)
  BY <1>1 DEF AtRule
<1>3. e.evaluated <=> \E j \in 1 .. Len(e.ppc.rules) : ValidAt(e.ppc, j, e.pod)
  <2>1. e.evaluated <=> \E j \in 1 .. e.i - 1 : ValidAt(e.ppc, j, e.pod)
    BY DEF AtRule
  <2> QED
    BY <1>1, <2>1, Zenon
<1>4. CASE e.ppc.rules # <<>> /\ ~e.evaluated
  <2>1. Says(e.ppc, e.pod) = {}
    BY <1>1, <1>2, <1>3, <1>4, NoMatch
  <2> QED
    BY <1>4, <2>1, AppliedOK DEF AfterRules
<1>5. CASE ~(e.ppc.rules # <<>> /\ ~e.evaluated)
  <2>1. Says(e.ppc, e.pod) = e.ppc.fallback
    BY <1>1, <1>2, <1>3, <1>5, NoMatch
  <2>2. AfterRules(e) = Applied(e, e.ppc.fallback)
    BY <1>5, Zenon DEF AfterRules
  <2> QED
    BY <2>1, <2>2, AppliedOK
<1> QED
  BY <1>4, <1>5

-----------------------------------------------------------------------------
\* The inductive invariant.

CacheOK ==
    /\ IsFiniteSet(cache) /\ Cardinality(cache) <= CacheSize
    /\ \A c \in cache : c.key \in Compiles /\ c.prog = c.key

Evaluations ==
    /\ evaluator \in {"none", "ready", "broken"}
    /\ DOMAIN eval = Workers
    /\ \A w \in Workers : EvalOK(evaluator, eval[w])

Inv == AdmissionInv /\ CacheOK /\ Evaluations

\* One more program in place of the others.
LEMMA CacheStep ==
  ASSUME CacheOK, NEW expr \in Compiles, NEW others \in Evict({c \in cache : c.key # expr}),
         cache' = others \cup {[key |-> expr, prog |-> expr]}
  PROVE  CacheOK'
<1> DEFINE rest == {c \in cache : c.key # expr}
           new == [key |-> expr, prog |-> expr]
<1>1. CacheSize \in Nat \ {0}
  BY EvaluatorAssumption
<1>2. IsFiniteSet(rest) /\ Cardinality(rest) <= Cardinality(cache) /\ new \notin rest
  BY FS_Subset DEF CacheOK
<1>3. Cardinality(rest) \in Nat /\ Cardinality(cache) \in Nat
  BY <1>2, FS_CardinalityType DEF CacheOK
<1>4. others \subseteq rest /\ (Cardinality(rest) < CacheSize \/ \E c \in rest : others = rest \ {c})
  BY DEF Evict
<1> HIDE DEF rest
<1>5. IsFiniteSet(others) /\ Cardinality(others) \in Nat /\ Cardinality(others) <= Cardinality(rest)
  BY <1>2, <1>4, FS_Subset, FS_CardinalityType
<1>6. Cardinality(others) < CacheSize
  <2>1. CASE Cardinality(rest) < CacheSize
    BY <1>1, <1>3, <1>5, <2>1
  <2>2. ASSUME NEW c \in rest, others = rest \ {c}
        PROVE  Cardinality(others) < CacheSize
    <3>1. Cardinality(others) = Cardinality(rest) - 1
      BY <1>2, <2>2, FS_RemoveElement
    <3> QED
      BY <1>1, <1>2, <1>3, <1>5, <3>1 DEF CacheOK
  <2> QED
    BY <1>4, <2>1, <2>2
<1>7. new \notin others
  BY <1>2, <1>4
<1>8. IsFiniteSet(cache') /\ Cardinality(cache') = Cardinality(others) + 1
  BY <1>5, <1>7, FS_AddElement, Zenon
<1>9. \A c \in cache' : c.key \in Compiles /\ c.prog = c.key
  BY <1>4 DEF CacheOK, rest
<1> QED
  BY <1>1, <1>5, <1>6, <1>8, <1>9 DEF CacheOK

\* A step of one evaluation, with the evaluator as it is.
LEMMA OneEvaluation ==
  ASSUME Evaluations, NEW w \in Workers, NEW e, EvalOK(evaluator, e),
         eval' = [eval EXCEPT ![w] = e], UNCHANGED evaluator
  PROVE  Evaluations'
BY DEF Evaluations

LEMMA StartStep ==
  ASSUME Inv, NEW w \in Workers, NEW pod \in Pods, Start(w, pod)
  PROVE  Evaluations'
<1> DEFINE e == [pc |-> "pick", pod |-> pod, listed |-> Listed(pod),
                 todo |-> {s.object : s \in Listed(pod)}]
<1>1. Listed(pod) \subseteq stored /\ stored \in SUBSET Entries
  BY DEF Listed, Inv, AdmissionInv, AdmissionTyped
<1>2. Snapshot(Listed(pod))
  BY <1>1 DEF Snapshot, Inv, AdmissionInv, OneOfAName, EqualOnlyIfUnseen, Unseen
<1>3. ObjectsOf(Listed(pod)) \in SUBSET Objects
  BY <1>1 DEF ObjectsOf, Entries
<1>4. e \in Picks /\ e.listed = Listed(pod) /\ e.todo = ObjectsOf(Listed(pod))
  BY <1>1, <1>3 DEF Picks, ObjectsOf
<1> HIDE DEF e
<1>5. Picking(evaluator, e)
  BY <1>2, <1>4 DEF Picking
<1>6. eval' = [eval EXCEPT ![w] = e] /\ UNCHANGED evaluator
  BY DEF Start, e
<1>7. EvalOK(evaluator, e)
  BY <1>5 DEF EvalOK
<1> QED
  BY <1>6, <1>7, OneEvaluation, Zenon DEF Inv

\* The evaluator comes into being for all evaluations at the first Pick.
LEMMA PickStep ==
  ASSUME Inv, NEW w \in Workers, Pick(w)
  PROVE  Evaluations'
<1> DEFINE e == eval[w]
<1>1. Picking(evaluator, e)
  BY Kinds DEF Inv, Evaluations, Pick
<1>2. PICK o \in Highest(e.todo) :
        /\ evaluator' \in Created
        /\ eval' = [eval EXCEPT ![w] = IF evaluator' = "ready" THEN Begun(@, o) ELSE Skipped(@, o)]
  BY Zenon DEF Pick
<1>3. /\ e \in Picks /\ Snapshot(e.listed) /\ e.todo \subseteq ObjectsOf(e.listed)
      /\ o \in e.todo /\ \A p \in e.todo : p.priority <= o.priority
  BY <1>1 DEF Picking, Highest
<1>4. /\ e.pod \in Pods /\ e.listed \in SUBSET Entries /\ e.todo \in SUBSET Objects /\ o \in Objects
  BY <1>3 DEF Picks
<1>5. /\ evaluator' \in {"none", "ready", "broken"} /\ evaluator' # "none"
      /\ evaluator # "none" => evaluator' = evaluator
  BY <1>2 DEF Created, Inv, Evaluations
<1>6. ASSUME NEW v \in Workers, v # w
      PROVE  EvalOK(evaluator', eval'[v])
  <2>1. eval'[v] = eval[v] /\ EvalOK(evaluator, eval[v])
    BY <1>2, <1>6 DEF Inv, Evaluations
  <2>2. Picking(evaluator, eval[v]) => Picking(evaluator', eval[v])
    BY <1>5 DEF Picking
  <2>3. Running(evaluator, eval[v]) => Running(evaluator', eval[v])
    BY <1>5 DEF Running
  <2>4. Ended(evaluator, eval[v]) => Ended(evaluator', eval[v])
    BY <1>5 DEF Ended
  <2> QED
    BY <2>1, <2>2, <2>3, <2>4 DEF EvalOK
<1>7. EvalOK(evaluator', eval'[w])
  <2>1. CASE evaluator' = "ready"
    <3> DEFINE f == [pc |-> "rule", pod |-> e.pod, listed |-> e.listed, todo |-> e.todo \ {o},
                     ppc |-> o, i |-> 1, evaluated |-> FALSE]
    <3>1. eval'[w] = f
      BY <1>2, <2>1, Zenon DEF Begun, Inv, Evaluations
    <3>2. f \in Runs
      BY <1>4 DEF Runs
    <3>3. /\ f.pod = e.pod /\ f.listed = e.listed /\ f.todo = e.todo \ {o} /\ f.ppc = o
          /\ f.pc = "rule" /\ f.pc # "compile" /\ f.i = 1 /\ ~f.evaluated
      OBVIOUS
    <3> HIDE DEF f
    <3>4. evaluator # "broken"
      BY <1>5, <2>1
    <3>5. AtConfiguration(f)
      BY <1>1, <1>3, <3>3, <3>4 DEF AtConfiguration, Picking
    <3>6. Len(f.ppc.rules) \in Nat
      BY <1>4, <3>3, AdmissionAssumption
    <3>7. f.i \in 1 .. Len(f.ppc.rules) + 1 /\ \A j : j \notin 1 .. f.i - 1
      BY <3>3, <3>6
    <3>8. AtRule(f)
      BY <3>3, <3>7, Zenon DEF AtRule
    <3> QED
      BY <2>1, <3>1, <3>2, <3>5, <3>8 DEF EvalOK, Running
  <2>2. CASE evaluator' = "broken"
    <3>1. eval'[w] = [e EXCEPT !.todo = e.todo \ {o}]
      <4>1. evaluator' # "ready" /\ DOMAIN eval = Workers
        BY <2>2 DEF Inv, Evaluations
      <4> QED
        BY <1>2, <4>1 DEF Skipped
    <3>2. /\ eval'[w] \in Picks /\ eval'[w].listed = e.listed /\ eval'[w].todo = e.todo \ {o}
      BY <1>3, <3>1 DEF Picks
    <3> QED
      BY <1>3, <2>2, <3>2 DEF EvalOK, Picking
  <2> QED
    BY <1>5, <2>1, <2>2
<1> QED
  BY <1>2, <1>5, <1>6, <1>7 DEF Evaluations, Inv

LEMMA GiveUpStep ==
  ASSUME Inv, NEW w \in Workers, GiveUp(w)
  PROVE  Evaluations'
<1> DEFINE e == eval[w]
           f == [pc |-> "done", pod |-> e.pod, listed |-> e.listed, outcome |-> NoOutcome]
<1>1. Picking(evaluator, e) /\ e.todo = {}
  BY Kinds DEF Inv, Evaluations, GiveUp
<1>2. eval' = [eval EXCEPT ![w] = f] /\ UNCHANGED evaluator
  BY DEF GiveUp, Done
<1>3. f.pc = "done" /\ f.pod = e.pod /\ f.listed = e.listed /\ f.outcome = NoOutcome
  OBVIOUS
<1> HIDE DEF f
<1>4. evaluator # "broken" => Speaking(f) = {}
  BY <1>1, <1>3 DEF Picking, Speaking
<1>5. Ended(evaluator, f)
  BY <1>1, <1>3, <1>4 DEF Ended, Picking
<1>6. EvalOK(evaluator, f)
  BY <1>5 DEF EvalOK
<1> QED
  BY <1>2, <1>6, OneEvaluation, Zenon DEF Inv

LEMMA LookupStep ==
  ASSUME Inv, NEW w \in Workers, Lookup(w)
  PROVE  Evaluations'
<1> DEFINE e == eval[w]
           programs == {c \in cache : c.key = CacheKey(e.ppc.rules[e.i])}
           f == IF e.i > Len(e.ppc.rules) THEN AfterRules(e)
                ELSE IF programs = {} THEN [e EXCEPT !.pc = "compile"]
                ELSE AfterRule(e, (CHOOSE c \in programs : TRUE).prog)
<1>1. Running(evaluator, e) /\ e.pc = "rule"
  BY Kinds DEF Inv, Evaluations, Lookup
<1>2. evaluator = "ready" /\ e \in Runs /\ AtConfiguration(e) /\ AtRule(e)
  BY <1>1 DEF Running
<1>3. Len(e.ppc.rules) \in Nat /\ e.i \in Nat
  BY <1>2, AdmissionAssumption DEF Runs
<1>4. eval' = [eval EXCEPT ![w] = f] /\ UNCHANGED evaluator
  BY Zenon DEF Lookup
<1>5. EvalOK("ready", f)
  <2>1. CASE e.i > Len(e.ppc.rules)
    BY <1>2, <2>1, AfterRulesOK
  <2>2. CASE e.i <= Len(e.ppc.rules) /\ programs = {}
    <3> DEFINE g == [e EXCEPT !.pc = "compile"]
    <3>1. f = g
      BY <1>3, <2>2
    <3>2. g \in Runs
      BY <1>2 DEF Runs
    <3>3. /\ g.pod = e.pod /\ g.listed = e.listed /\ g.todo = e.todo /\ g.ppc = e.ppc
          /\ g.i = e.i /\ g.evaluated = e.evaluated
      BY <1>2 DEF Runs
    <3> HIDE DEF g
    <3>4. AtConfiguration(g)
      BY <1>2, <3>3, Zenon DEF AtConfiguration
    <3>5. g.i <= Len(g.ppc.rules)
      BY <2>2, <3>3
    <3>6. AtRule(g)
      BY <1>2, <3>3, <3>5, Zenon DEF AtRule
    <3> QED
      BY <3>1, <3>2, <3>4, <3>6, Zenon DEF EvalOK, Running
  <2>3. CASE e.i <= Len(e.ppc.rules) /\ programs # {}
    <3> DEFINE prog == (CHOOSE c \in programs : TRUE).prog
    <3>1. (CHOOSE c \in programs : TRUE) \in programs
      BY <2>3
    <3>2. prog \in Compiles /\ prog = e.ppc.rules[e.i].expr
      BY <3>1, Zenon DEF Inv, CacheOK, CacheKey
    <3>3. f = AfterRule(e, prog)
      BY <1>3, <2>3
    <3> HIDE DEF prog, programs, f
    <3> QED
      BY <1>2, <2>3, <3>2, <3>3, AfterRuleOK
  <2> QED
    BY <1>3, <2>1, <2>2, <2>3
<1> HIDE DEF f
<1> QED
  BY <1>2, <1>4, <1>5, OneEvaluation, Zenon DEF Inv

LEMMA CompileStep ==
  ASSUME Inv, NEW w \in Workers, Compile(w)
  PROVE  Evaluations' /\ CacheOK'
<1> DEFINE e == eval[w]
           expr == e.ppc.rules[e.i].expr
<1>1. Running(evaluator, e) /\ e.pc = "compile"
  BY Kinds DEF Inv, Evaluations, Compile
<1>2. evaluator = "ready" /\ e \in Runs /\ AtConfiguration(e) /\ AtRule(e) /\ e.i <= Len(e.ppc.rules)
  BY <1>1 DEF Running, AtRule
<1>3. CASE expr \in Compiles
  <2>1. /\ \E others \in Evict({c \in cache : c.key # expr}) :
             cache' = others \cup {[key |-> expr, prog |-> expr]}
        /\ eval' = [eval EXCEPT ![w] = AfterRule(e, expr)]
        /\ UNCHANGED evaluator
    BY <1>3, Zenon DEF Compile, CacheKey
  <2>2. EvalOK("ready", AfterRule(e, expr))
    BY <1>2, <1>3, AfterRuleOK
  <2> HIDE DEF expr
  <2>3. CacheOK'
    BY <1>3, <2>1, CacheStep DEF Inv
  <2> QED
    BY <1>2, <2>1, <2>2, <2>3, OneEvaluation, Zenon DEF Inv
<1>4. CASE expr \notin Compiles
  <2>1. /\ eval' = [eval EXCEPT ![w] = NextRule(e, FALSE)]
        /\ UNCHANGED <<cache, evaluator>>
    BY <1>4, Zenon DEF Compile
  <2>2. ~MatchAt(e.ppc, e.i, e.pod) /\ ~ValidAt(e.ppc, e.i, e.pod)
    BY <1>4, Zenon DEF MatchAt, ValidAt
  <2>3. EvalOK("ready", NextRule(e, FALSE))
    BY <1>2, <2>2, NextRuleOK, Zenon
  <2> QED
    BY <1>2, <2>1, <2>3, OneEvaluation, Zenon DEF Inv, CacheOK
<1> QED
  BY <1>3, <1>4

LEMMA FinishStep ==
  ASSUME Inv, NEW w \in Workers, Finish(w)
  PROVE  Evaluations'
<1>1. EvalOK(evaluator, Resting)
  BY DEF EvalOK
<1> QED
  BY <1>1, OneEvaluation, Zenon DEF Inv, Finish

LEMMA InvStep == Inv /\ [Next]_vars => Inv'
<1>1. SUFFICES ASSUME Inv, [Next]_vars
               PROVE  Inv'
  OBVIOUS
<1>2. ASSUME UNCHANGED admissionVars
      PROVE  AdmissionInv'
  BY <1>1, <1>2 DEF admissionVars, Inv, AdmissionInv, AdmissionTyped, OneOfAName, EqualOnlyIfUnseen,
     RequestsMiss
<1>3. ASSUME UNCHANGED cache
      PROVE  CacheOK'
  BY <1>1, <1>3 DEF Inv, CacheOK
<1>4. ASSUME UNCHANGED <<evaluator, eval>>
      PROVE  Evaluations'
  BY <1>1, <1>4 DEF Inv, Evaluations
<1>5. ASSUME NEW w \in Workers, NEW pod \in Pods, Start(w, pod)
      PROVE  Inv'
  BY <1>1, <1>2, <1>3, <1>5, StartStep DEF Start, Inv
<1>6. ASSUME NEW w \in Workers, Pick(w)
      PROVE  Inv'
  BY <1>1, <1>2, <1>3, <1>6, PickStep, Zenon DEF Pick, Inv
<1>7. ASSUME NEW w \in Workers, GiveUp(w)
      PROVE  Inv'
  BY <1>1, <1>2, <1>3, <1>7, GiveUpStep, Zenon DEF GiveUp, Inv
<1>8. ASSUME NEW w \in Workers, Lookup(w)
      PROVE  Inv'
  <2>1. UNCHANGED admissionVars /\ UNCHANGED cache
    BY <1>8, Zenon DEF Lookup
  <2> QED
    BY <1>1, <1>2, <1>3, <1>8, <2>1, LookupStep DEF Inv
<1>9. ASSUME NEW w \in Workers, Compile(w)
      PROVE  Inv'
  <2>1. UNCHANGED admissionVars
    BY <1>9, Zenon DEF Compile
  <2> QED
    BY <1>1, <1>2, <1>9, <2>1, CompileStep DEF Inv
<1>10. ASSUME NEW w \in Workers, Finish(w)
       PROVE  Inv'
  BY <1>1, <1>2, <1>3, <1>10, FinishStep, Zenon DEF Finish, Inv
<1>11. ASSUME AdmissionNext, UNCHANGED celVars
       PROVE  Inv'
  BY <1>1, <1>3, <1>4, <1>11, AdmissionStep DEF celVars, Inv
<1>12. ASSUME UNCHANGED vars
       PROVE  Inv'
  BY <1>2, <1>3, <1>4, <1>12 DEF vars, celVars, Inv
<1> QED
  BY <1>1, <1>5, <1>6, <1>7, <1>8, <1>9, <1>10, <1>11, <1>12 DEF Next, CELNext

LEMMA InvHolds == Spec => []Inv
<1>1. Init => Inv
  <2>1. SUFFICES ASSUME Init
                 PROVE  Inv
    OBVIOUS
  <2>2. AdmissionTyped
    BY <2>1 DEF Init, AdmissionInit, AdmissionTyped
  <2>3. AdmissionInv
    BY <2>1, <2>2, BusyRequests
       DEF Init, AdmissionInit, AdmissionInv, OneOfAName, EqualOnlyIfUnseen, RequestsMiss
  <2>4. CacheOK
    BY <2>1, FS_EmptySet, EvaluatorAssumption DEF Init, CacheOK
  <2>5. Evaluations
    BY <2>1 DEF Init, Evaluations, EvalOK
  <2> QED
    BY <2>3, <2>4, <2>5 DEF Inv
<1> QED
  BY <1>1, InvStep, PTL DEF Spec

-----------------------------------------------------------------------------
\* The cache of programs never exceeds its size and holds for an expression the
\* program that was compiled from it, whatever the workers compile and evict at the
\* same time (cel_evaluator.go:89-121).
THEOREM TypeTheorem == Spec => []TypeOK
<1>1. Inv => TypeOK
  <2>1. SUFFICES ASSUME Inv
                 PROVE  TypeOK
    OBVIOUS
  <2>2. \A s \in stored : s.object \in Objects
    BY <2>1 DEF Inv, AdmissionInv, AdmissionTyped, Entries
  <2>3. ASSUME NEW w \in Workers, eval[w].pc = "rule"
        PROVE  eval[w].i \in 1 .. Len(eval[w].ppc.rules) + 1
    BY <2>1, <2>3, Kinds DEF Inv, Evaluations, Running, AtRule
  <2> QED
    BY <2>1, <2>2, <2>3 DEF TypeOK, Inv, Evaluations, CacheOK
<1> QED
  BY <1>1, InvHolds, PTL

\* Two PodPlacementConfigs only have the same priority if the webhook call of one did
\* not list the other, for any number of requests on their way at the same time
\* (podplacementconfig_webhook.go:84-104, podplacementconfig_types.go:81-119).
THEOREM PriorityTheorem == Spec => []EqualOnlyIfUnseen
<1>1. Inv => EqualOnlyIfUnseen
  BY DEF Inv, AdmissionInv
<1> QED
  BY <1>1, InvHolds, PTL

\* An evaluation ends with what a configuration says that has the highest priority of
\* those that say something, for any configurations, rules and workers that share the
\* cache (cel_evaluator.go:227-324, scheduling_gate_mutating_webhook.go:210-286).
THEOREM OutcomeTheorem == Spec => []OutcomeIsReference
<1>1. Inv => OutcomeIsReference
  <2>1. SUFFICES ASSUME Inv, NEW w \in Workers, eval[w].pc = "done"
                 PROVE  IF evaluator = "broken" \/ Speaking(eval[w]) = {}
                        THEN eval[w].outcome = NoOutcome
                        ELSE \E o \in Highest(Speaking(eval[w])) :
                               eval[w].outcome = [name |-> o.name, archs |-> Says(o, eval[w].pod)]
    BY Zenon DEF OutcomeIsReference, Speaking, ObjectsOf
  <2>2. Ended(evaluator, eval[w])
    BY <2>1, Kinds DEF Inv, Evaluations
  <2>3. CASE evaluator = "broken"
    BY <2>2, <2>3 DEF Ended
  <2>4. CASE evaluator # "broken"
    BY <2>2, <2>4, Zenon DEF Ended
  <2> QED
    BY <2>3, <2>4
<1> QED
  BY <1>1, InvHolds, PTL

\* Evaluations of one pod with the same configurations decide alike, unless two of
\* the configurations have the same priority because their requests overlapped: the
\* webhook, which sets the pod's node affinity, and the reconciler, which checks it
\* (sort.Slice at scheduling_gate_mutating_webhook.go:214).
THEOREM AgreementTheorem == Spec => []EvaluationsAgree
<1>1. Inv => EvaluationsAgree
  <2>1. SUFFICES ASSUME Inv, NEW v \in Workers, NEW w \in Workers,
                        eval[v].pc = "done", eval[w].pc = "done",
                        eval[v].pod = eval[w].pod, eval[v].listed = eval[w].listed,
                        eval[v].outcome # eval[w].outcome
                 PROVE  \E s, t \in eval[w].listed :
                          s.object.priority = t.object.priority /\ t.object.name \in s.unseen
    BY Zenon DEF EvaluationsAgree
  <2>2. Ended(evaluator, eval[v]) /\ Ended(evaluator, eval[w])
    BY <2>1, Kinds DEF Inv, Evaluations
  <2> DEFINE S == Speaking(eval[w])
  <2>3. Speaking(eval[v]) = S
    BY <2>1 DEF Speaking
  <2>4. evaluator # "broken" /\ S # {}
    BY <2>1, <2>2, <2>3, Zenon DEF Ended
  <2>5. PICK o \in Highest(S) : eval[v].outcome = [name |-> o.name, archs |-> Says(o, eval[w].pod)]
    BY <2>1, <2>2, <2>3, <2>4 DEF Ended
  <2>6. PICK p \in Highest(S) : eval[w].outcome = [name |-> p.name, archs |-> Says(p, eval[w].pod)]
    BY <2>2, <2>4 DEF Ended
  <2>7. o # p
    BY <2>1, <2>5, <2>6
  <2>8. PICK s, t \in eval[w].listed : s.object = o /\ t.object = p
    BY DEF Highest, Speaking, ObjectsOf
  <2>9. Snapshot(eval[w].listed)
    BY <2>2 DEF Ended
  <2>10. o \in Objects /\ p \in Objects /\ o.priority <= p.priority /\ p.priority <= o.priority
    BY <2>8, <2>9 DEF Highest, Snapshot, Entries
  <2>11. o.priority = p.priority
    BY <2>10, AdmissionAssumption
  <2>12. Unseen(s, t)
    BY <2>7, <2>8, <2>9, <2>11 DEF Snapshot
  <2> QED
    BY <2>8, <2>11, <2>12 DEF Unseen
<1> QED
  BY <1>1, InvHolds, PTL

=============================================================================
