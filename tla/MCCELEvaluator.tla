--------------------------- MODULE MCCELEvaluator ---------------------------
(***************************************************************************)
(* An instance of CELEvaluator: two names, one of them with a second       *)
(* revision that keeps the name of its rule, three expressions.            *)
(***************************************************************************)
EXTENDS CELEvaluator, TLC

CONSTANTS
    a, b,        \* names
    p1, p2,      \* pods
    team, tier,  \* expressions that compile, of which one fails on a pod
    typed,       \* compiles only in the environment of the webhook
    unknown,     \* an expression that the webhook refuses
    r1, r2,      \* names of rules
    amd64, arm64, riscv64,
    c1, c2, w1, w2

MCSupported == {amd64, arm64}
MCPods == {p1, p2}
MCCompiles == {team, tier}
MCAdmissible == {team, tier, typed}
MCVerdict == (team :> (p1 :> "true" @@ p2 :> "false")) @@ (tier :> (p1 :> "absent" @@ p2 :> "error"))

Config(name, priority, rules, fallback) ==
    [name |-> name, priority |-> priority, selects |-> MCPods,
     scoring |-> FALSE, platforms |-> <<>>, cel |-> TRUE,
     rules |-> rules, fallback |-> fallback]

Rule(name, expr, archs) == [name |-> name, expr |-> expr, archs |-> archs]

\* The fourth and the fifth are refused by the validation.
MCObjects ==
    {Config(a, 1, <<Rule(r1, team, {amd64})>>, {arm64}),
     Config(a, 2, <<Rule(r1, tier, {amd64}), Rule(r2, team, {arm64})>>, {amd64}),
     Config(b, 2, <<Rule(r1, typed, {arm64}), Rule(r2, tier, {arm64})>>, {arm64, amd64}),
     Config(b, 2, <<>>, {riscv64}),
     Config(b, 2, <<Rule(r1, unknown, {amd64})>>, {amd64}),
     [Config(b, 2, <<>>, {amd64}) EXCEPT !.scoring = TRUE, !.platforms = <<amd64, arm64>>,
                                         !.selects = {p1}]}

Symmetry == Permutations({c1, c2}) \cup Permutations({w1, w2})

=============================================================================
