-------------------------- MODULE MCENoExecEvents --------------------------
(* Instances of ENoExecEvents for the model checker. *)
EXTENDS ENoExecEvents, TLC

CONSTANTS e1, e2, n1, n2

TwoEvents == {e1, e2}
OneEvent == {e1}
TwoNodes == {n1, n2}

\* Events and nodes are interchangeable.
Symmetry == Permutations({e1, e2}) \cup Permutations({n1, n2})
NodeSymmetry == Permutations({n1, n2})

=============================================================================
