--------------------------- MODULE SchedulingGate ---------------------------
(***************************************************************************)
(* What the pod placement operand promises for one pod, whatever webhook,  *)
(* reconciler, informers and API server do to keep it: a pod is stored     *)
(* with the gate or without; it is only written while it has the gate; it  *)
(* leaves the gate once, in a state in which it may be scheduled, and is   *)
(* left alone from then on.                                                *)
(***************************************************************************)
CONSTANTS
    Pods,
    Settled(_)   \* the pod may be scheduled

VARIABLES
    state,   \* "submitted", "open" (stored without a gate), "gated", "released", "gone"
    pod

vars == <<state, pod>>

Init == state = "submitted" /\ pod \in Pods

\* Admission, before the pod is stored.
Mutate ==
    /\ state = "submitted"
    /\ pod' \in Pods
    /\ UNCHANGED state

Persist ==
    /\ state = "submitted"
    /\ state' \in {"open", "gated"}
    /\ UNCHANGED pod

\* Users and retries write a pod that waits.
Write ==
    /\ state = "gated"
    /\ pod' \in Pods
    /\ UNCHANGED state

Release ==
    /\ state = "gated"
    /\ state' = "released"
    /\ pod' \in Pods /\ Settled(pod')

Delete ==
    /\ state \in {"open", "gated", "released"}
    /\ state' = "gone"
    /\ UNCHANGED pod

Next == Mutate \/ Persist \/ Write \/ Release \/ Delete

Spec == Init /\ [][Next]_vars

=============================================================================
