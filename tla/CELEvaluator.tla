---------------------------- MODULE CELEvaluator ----------------------------
(***************************************************************************)
(* The celArchitecturePlacement plugin: how the PodPlacementConfigs that   *)
(* select a pod are evaluated, one rule at a time, by the reconciles and   *)
(* webhook calls that share the evaluator and its cache of programs.       *)
(*                                                                         *)
(* An evaluation lists the configurations and goes through them by         *)
(* priority; sort.Slice is not stable, so that those of one priority come  *)
(* in any order.  A rule costs a look-up in the cache and, on a miss, a    *)
(* compilation without the lock.  A program is represented by the          *)
(* expression it was compiled from, and which program the cache evicts is  *)
(* left open.                                                              *)
(***************************************************************************)
EXTENDS PPCAdmission

CONSTANTS
    Workers,     \* concurrent evaluations
    Pods,
    Compiles,    \* expressions that compile to a boolean in the evaluator's environment
    Verdict,     \* [Compiles -> [Pods -> {"true", "false", "absent", "error"}]]
    CacheSize    \* celExpressionCacheSize

ASSUME EvaluatorAssumption ==
    /\ Verdict \in [Compiles -> [Pods -> {"true", "false", "absent", "error"}]]
    /\ CacheSize \in Nat \ {0}

VARIABLES
    evaluator,   \* packageEvaluator: "none", "ready", or "broken" for good
    cache,       \* [key, prog]: the programs
    eval         \* the evaluation of each worker

celVars == <<evaluator, cache, eval>>
vars == <<admissionVars, celVars>>

Resting == [pc |-> "idle"]
NoOutcome == [name |-> "none", archs |-> {}]

Init ==
    /\ AdmissionInit
    /\ evaluator = "none" /\ cache = {}
    /\ eval = [w \in Workers |-> Resting]

-----------------------------------------------------------------------------
\* What a rule and a configuration say of a pod

\* evaluateWithMap: a missing key is no match, other errors are reported.
Matches(prog, pod) == Verdict[prog][pod] = "true"
Evaluates(prog, pod) == Verdict[prog][pod] # "error"

\* The configurations that come next: all of the highest priority that is left.
Highest(todo) == {o \in todo : \A p \in todo : p.priority <= o.priority}

-----------------------------------------------------------------------------
\* Evaluations

\* filterMatchingPPCs, and the plugin is enabled.
Listed(pod) == {s \in stored : pod \in s.object.selects /\ s.object.cel}

Start(w, pod) ==
    /\ eval[w].pc = "idle"
    /\ eval' = [eval EXCEPT ![w] =
                  [pc |-> "pick", pod |-> pod, listed |-> Listed(pod),
                   todo |-> {s.object : s \in Listed(pod)}]]
    /\ UNCHANGED <<admissionVars, evaluator, cache>>

Done(e, outcome) == [pc |-> "done", pod |-> e.pod, listed |-> e.listed, outcome |-> outcome]

\* getOrCreateEvaluator: the evaluator is created at the first use, and a failure
\* stays.
Created == IF evaluator = "none" THEN {"ready", "broken"} ELSE {evaluator}

Begun(e, o) ==
    [pc |-> "rule", pod |-> e.pod, listed |-> e.listed, todo |-> e.todo \ {o},
     ppc |-> o, i |-> 1, evaluated |-> FALSE]

Skipped(e, o) == [e EXCEPT !.todo = @ \ {o}]

\* The next configuration, by priority.
Pick(w) ==
    /\ eval[w].pc = "pick"
    /\ \E o \in Highest(eval[w].todo) :
         /\ evaluator' \in Created
         /\ eval' = [eval EXCEPT ![w] =
                       IF evaluator' = "ready" THEN Begun(@, o) ELSE Skipped(@, o)]
    /\ UNCHANGED <<admissionVars, cache>>

\* No configuration is left: the plugin does not apply.
GiveUp(w) ==
    /\ eval[w].pc = "pick" /\ eval[w].todo = {}
    /\ eval' = [eval EXCEPT ![w] = Done(@, NoOutcome)]
    /\ UNCHANGED <<admissionVars, evaluator, cache>>

\* applyCELArchitecturePlacement: a configuration that gives no architecture is
\* passed over.
Applied(e, archs) ==
    IF archs = {}
    THEN [pc |-> "pick", pod |-> e.pod, listed |-> e.listed, todo |-> e.todo]
    ELSE Done(e, [name |-> e.ppc.name, archs |-> archs])

\* evaluateRules after its loop: when every rule failed the configuration is
\* skipped, otherwise none matched and the fallback is applied.
AfterRules(e) ==
    IF e.ppc.rules # <<>> /\ ~e.evaluated THEN Applied(e, {}) ELSE Applied(e, e.ppc.fallback)

NextRule(e, evaluated) == [e EXCEPT !.pc = "rule", !.i = @ + 1, !.evaluated = @ \/ evaluated]

\* The first match wins; a rule that cannot be evaluated is skipped.
AfterRule(e, prog) ==
    IF Matches(prog, e.pod) THEN Applied(e, e.ppc.rules[e.i].archs)
                            ELSE NextRule(e, Evaluates(prog, e.pod))

\* A mutant, for the model checker only: programs are cached by the name of the rule.
cachedByName(rule) == rule.name

CacheKey(rule) == rule.expr

\* compile, up to the look-up in the cache.
Lookup(w) ==
    /\ eval[w].pc = "rule"
    /\ LET e == eval[w]
           programs == {c \in cache : c.key = CacheKey(e.ppc.rules[e.i])}
       IN  eval' = [eval EXCEPT ![w] =
             IF e.i > Len(e.ppc.rules) THEN AfterRules(e)
             ELSE IF programs = {} THEN [e EXCEPT !.pc = "compile"]
             ELSE AfterRule(e, (CHOOSE c \in programs : TRUE).prog)]
    /\ UNCHANGED <<admissionVars, evaluator, cache>>

\* A mutant, for the model checker only: nothing is evicted.
cacheWithoutBound(others) == {others}

\* What is left of the other programs to make room for one more.
Evict(others) ==
    IF Cardinality(others) < CacheSize THEN {others} ELSE {others \ {c} : c \in others}

\* compile after a miss.  Errors are not cached; a program that another worker has
\* compiled meanwhile is replaced.
Compile(w) ==
    /\ eval[w].pc = "compile"
    /\ LET e == eval[w]
           rule == e.ppc.rules[e.i]
       IN  IF rule.expr \in Compiles
           THEN /\ \E others \in Evict({c \in cache : c.key # CacheKey(rule)}) :
                     cache' = others \cup {[key |-> CacheKey(rule), prog |-> rule.expr]}
                /\ eval' = [eval EXCEPT ![w] = AfterRule(e, rule.expr)]
           ELSE /\ eval' = [eval EXCEPT ![w] = NextRule(e, FALSE)]
                /\ UNCHANGED cache
    /\ UNCHANGED <<admissionVars, evaluator>>

Finish(w) ==
    /\ eval[w].pc = "done"
    /\ eval' = [eval EXCEPT ![w] = Resting]
    /\ UNCHANGED <<admissionVars, evaluator, cache>>

CELNext ==
    \E w \in Workers :
      \/ \E pod \in Pods : Start(w, pod)
      \/ Pick(w) \/ GiveUp(w) \/ Lookup(w) \/ Compile(w) \/ Finish(w)

Next == CELNext \/ (AdmissionNext /\ UNCHANGED celVars)

Spec == Init /\ [][Next]_vars

-----------------------------------------------------------------------------
\* The values of the variables; the cache holds one program for an expression, the
\* one compiled from it, and never more than its size
\* (cel_evaluator.go:89-121, simplelru).
TypeOK ==
    /\ \A s \in stored : s.object \in Objects
    /\ evaluator \in {"none", "ready", "broken"}
    /\ \A c \in cache : c.key \in Compiles /\ c.prog = c.key
    /\ Cardinality(cache) <= CacheSize
    /\ \A w \in Workers :
         eval[w].pc = "rule" => eval[w].i \in 1..Len(eval[w].ppc.rules) + 1

\* What a configuration says of a pod, as the comments of the evaluator define it: the
\* architectures of the first rule that matches, the fallback if none does, and nothing
\* if every rule fails (cel_evaluator.go:217-272).
Says(o, pod) ==
    LET Valid(i) == o.rules[i].expr \in Compiles /\ Verdict[o.rules[i].expr][pod] # "error"
        valid == {i \in DOMAIN o.rules : Valid(i)}
        matching == {i \in valid : Verdict[o.rules[i].expr][pod] = "true"}
    IN  IF matching # {}
        THEN o.rules[CHOOSE i \in matching : \A j \in matching : i <= j].archs
        ELSE IF valid = {} /\ o.rules # <<>> THEN {} ELSE o.fallback

\* Whatever the other workers compile, cache and evict, an evaluation ends with what
\* a configuration says that has the highest priority of those that say something
\* (cel_evaluator.go:227-324, scheduling_gate_mutating_webhook.go:210-286).
OutcomeIsReference ==
    \A w \in Workers : eval[w].pc = "done" =>
      LET e == eval[w]
          speaking == {o \in {s.object : s \in e.listed} : Says(o, e.pod) # {}}
      IN  IF evaluator = "broken" \/ speaking = {} THEN e.outcome = NoOutcome
          ELSE \E o \in Highest(speaking) : e.outcome = [name |-> o.name, archs |-> Says(o, e.pod)]

\* The webhook and the reconciler, given the same configurations, decide alike for a
\* pod unless two of the configurations have the same priority because their
\* requests overlapped (sort.Slice at scheduling_gate_mutating_webhook.go:214 and in
\* applyMatchingPPCs is not stable; podplacementconfig_types.go:81-119).
EvaluationsAgree ==
    \A v, w \in Workers :
      LET d == eval[v]
          e == eval[w]
      IN  d.pc = "done" /\ e.pc = "done" /\ d.pod = e.pod /\ d.listed = e.listed
            => \/ d.outcome = e.outcome
               \/ \E s, t \in e.listed :
                    /\ s.object.priority = t.object.priority
                    /\ t.object.name \in s.unseen

-----------------------------------------------------------------------------
\* What the enhancement says of the selection of a configuration
\* (docs/enhancements/MTO-0005-architecture-rules-plugin.md).  The three are refuted.

Winners(e) == Highest({s.object : s \in e.listed})

\* "If all rules error or no rules match, the fallbackArchitectures are applied" (732).
FallbackIfRulesFail ==
    \A w \in Workers : eval[w].pc = "done" /\ evaluator = "ready" =>
      \A o \in Winners(eval[w]) :
        o.fallback # {} /\ Winners(eval[w]) = {o} => eval[w].outcome.name = o.name

\* "Only the winning config's rules are evaluated" (838).
OnlyTheWinnerIsEvaluated ==
    \A w \in Workers : eval[w].pc = "done" =>
      eval[w].outcome.name \in {"none"} \cup {o.name : o \in Winners(eval[w])}

\* "Tie-breakers (deterministic)" (835-837): equal priorities make no difference.
TiesAreBroken ==
    \A v, w \in Workers :
      LET d == eval[v]
          e == eval[w]
      IN  d.pc = "done" /\ e.pc = "done" /\ d.pod = e.pod /\ d.listed = e.listed
            => d.outcome = e.outcome

=============================================================================
