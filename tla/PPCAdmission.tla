---------------------------- MODULE PPCAdmission ----------------------------
(***************************************************************************)
(* The PodPlacementConfigs of a namespace and the webhook that validates   *)
(* them.                                                                   *)
(*                                                                         *)
(* The API server serves several requests at a time.  For each it calls    *)
(* the webhook, which lists the PodPlacementConfigs that are stored, and   *)
(* stores the object afterwards: requests on their way at the same time    *)
(* are validated against lists that miss each other.  unseen holds the     *)
(* names of the objects that were written between the list and the store.  *)
(***************************************************************************)
EXTENDS Naturals, Sequences, FiniteSets

CONSTANTS
    Clients,      \* concurrent requests
    Objects,      \* the PodPlacementConfigs that users write
    Supported,    \* the architectures that ValidateArchitectures knows
    Admissible,   \* expressions that pass the typed CEL environment
    MaxRequests   \* bound: requests of users

ASSUME AdmissionAssumption ==
    /\ \A o \in Objects : /\ o.priority \in Nat
                          /\ Len(o.rules) \in Nat /\ DOMAIN o.rules = 1 .. Len(o.rules)
    /\ MaxRequests \in Nat

VARIABLES
    stored,     \* the objects, with the names that their webhook call missed
    request,    \* the admitted request of each client
    requests

admissionVars == <<stored, request, requests>>

NoRequest == [busy |-> FALSE]

AdmissionInit ==
    /\ stored = {}
    /\ request = [c \in Clients |-> NoRequest]
    /\ requests = 0

-----------------------------------------------------------------------------
\* Validation

\* No architecture is scored twice.
ValidateArchitecturesSet(platforms) ==
    \A i, j \in DOMAIN platforms : platforms[i] = platforms[j] => i = j

ValidateArchitectures(o) ==
    /\ o.fallback \subseteq Supported
    /\ \A i \in DOMAIN o.rules : o.rules[i].archs \subseteq Supported

ValidateCELExpressions(o) == \A i \in DOMAIN o.rules : o.rules[i].expr \in Admissible

\* Plugins are validated when they are enabled.
ValidPlugins(o) ==
    /\ o.scoring => ValidateArchitecturesSet(o.platforms)
    /\ o.cel => ValidateArchitectures(o) /\ ValidateCELExpressions(o)

Named(name) == {s \in stored : s.object.name = name}

\* A mutant, for the model checker only: a new priority is not looked for.
priorityNotListed(o) == TRUE

ValidatePriorityNew(o) == \A s \in stored : s.object.priority # o.priority

\* A mutant, for the model checker only: an update is only compared with itself.
comparedWithItself(o, old) ==
    \/ o.priority = old.object.priority
    \/ \A s \in stored : s.object.name = o.name => s.object.priority # o.priority

\* A priority that stays is not looked for again.
ValidatePriorityUpdate(o, old) ==
    \/ o.priority = old.object.priority
    \/ \A s \in stored : s.object.name # o.name => s.object.priority # o.priority

-----------------------------------------------------------------------------
\* Requests

Send(c) ==
    /\ ~request[c].busy
    /\ requests < MaxRequests /\ requests' = requests + 1

Admitted(c, o, old) ==
    request' = [request EXCEPT ![c] = [busy |-> TRUE, object |-> o, old |-> old, unseen |-> {}]]

\* Handle of the webhook, for an object that is new and for one that is stored.
\* Requests it refuses leave no trace, like those without a ClusterPodPlacementConfig.
Create(c, o) ==
    /\ Send(c)
    /\ Named(o.name) = {}
    /\ ValidPlugins(o) /\ ValidatePriorityNew(o)
    /\ Admitted(c, o, {})
    /\ UNCHANGED stored

Update(c, o) ==
    /\ Send(c)
    /\ \E old \in Named(o.name) :
         /\ ValidPlugins(o) /\ ValidatePriorityUpdate(o, old)
         /\ Admitted(c, o, {old})
    /\ UNCHANGED stored

\* A write is new to the requests whose webhook has listed before.
Written(name, others) ==
    [d \in Clients |-> IF d \in others /\ request[d].busy
                       THEN [request[d] EXCEPT !.unseen = @ \cup {name}] ELSE NoRequest]

\* The API server stores the object if it is still the one the webhook was shown.
\* An object whose priority stays has still not been compared with the ones it missed.
Store(c) ==
    /\ request[c].busy
    /\ LET r == request[c]
           name == r.object.name
           kept == {s.unseen : s \in {s \in r.old : s.object.priority = r.object.priority}}
           new == [object |-> r.object, unseen |-> r.unseen \cup UNION kept]
       IN  IF Named(name) = r.old
           THEN /\ stored' = (stored \ r.old) \cup {new}
                /\ request' = Written(name, Clients \ {c})
           ELSE /\ request' = [request EXCEPT ![c] = NoRequest]
                /\ UNCHANGED stored
    /\ UNCHANGED requests

Delete(c, s) ==
    /\ Send(c)
    /\ stored' = stored \ {s}
    /\ UNCHANGED request

AdmissionNext ==
    \E c \in Clients :
      \/ \E o \in Objects : Create(c, o) \/ Update(c, o)
      \/ \E s \in stored : Delete(c, s)
      \/ Store(c)

-----------------------------------------------------------------------------
\* The same priority is only given to two PodPlacementConfigs whose requests
\* overlapped: the webhook call of one did not list the other
\* (podplacementconfig_webhook.go:84-104, podplacementconfig_types.go:81-119).
EqualOnlyIfUnseen ==
    \A s, t \in stored :
        s.object.priority = t.object.priority /\ s.object.name # t.object.name
          => t.object.name \in s.unseen \/ s.object.name \in t.unseen

\* No two PodPlacementConfigs of a namespace have the same priority
\* (docs/enhancements/MTO-0002-local-pod-placement.md:277).  It is refuted.
NoEqualPriorities ==
    \A s, t \in stored :
        s.object.priority = t.object.priority => s.object.name = t.object.name

=============================================================================
