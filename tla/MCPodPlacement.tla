--------------------------- MODULE MCPodPlacement ---------------------------
(***************************************************************************)
(* Instances of PodPlacement for TLC: two architectures, two names of      *)
(* PodPlacementConfigs, and pods and configurations chosen so that every   *)
(* branch of processPod and of the webhook is taken.                       *)
(***************************************************************************)
EXTENDS PodPlacement

CONSTANTS amd64, arm64, ppc1, ppc2

MCArch == {amd64, arm64}
MCNames == {ppc1, ppc2}

Req(key, archs) == [key |-> key, values |-> archs]

Plain == [excluded |-> FALSE, nodeSelector |-> FALSE, required |-> <<>>,
          preferred |-> {}, sources |-> {}, gate |-> FALSE,
          gateLabel |-> "absent", affLabel |-> "absent", prefLabel |-> "absent",
          archLabel |-> "absent", errLabel |-> FALSE, errs |-> 0, fallback |-> {}]

\* One term names an architecture before another requirement, the other none.
MixedTerms == [Plain EXCEPT !.required =
    << <<Req(ArchLabel, {amd64}), Req(UserLabel, {})>>, <<Req(UserLabel, {})>> >>]
OneArchTerm == [Plain EXCEPT !.required = << <<Req(ArchLabel, {amd64})>> >>]
Selected == [Plain EXCEPT !.nodeSelector = TRUE]
Preferring == [Plain EXCEPT !.preferred = {[arch |-> amd64, weight |-> 1]}]
Excluded == [Plain EXCEPT !.excluded = TRUE]

AllPods == {Plain, MixedTerms, OneArchTerm, Selected, Preferring, Excluded}
PlainPods == {Plain, Preferring}
RetriedPods == {Plain, MixedTerms}

\* Images that share both architectures or none, and images that share one.
AllOrNone == { {MCArch}, {{amd64}, {arm64}} }
OneInCommon == { {MCArch, {arm64}} }

PPC(name, priority, cel, celStored, platforms, weight) ==
    [name |-> name, matches |-> TRUE, priority |-> priority,
     plugins |-> cel \cup celStored \cup platforms # {},
     cel |-> [m \in CELMoment |-> IF m = "admission" THEN cel ELSE celStored],
     platforms |-> platforms, weight |-> weight]

CELAndScoring == PPC(ppc1, 2, {amd64}, {amd64}, {amd64}, 2)
LateCELAndScoring == PPC(ppc2, 2, {}, {arm64}, MCArch, 3)
Unrelated == [PPC(ppc2, 1, {}, {}, {arm64}, 5) EXCEPT !.matches = FALSE]

MixedConfigs == {CELAndScoring, LateCELAndScoring, Unrelated}
OneLate == {LateCELAndScoring}
NoConfigs == {}

CPPC(platforms, fallback) ==
    [name |-> CPPCKind, platforms |-> platforms, weight |-> 4, fallback |-> fallback]

FullCPPC == {CPPC({arm64}, {arm64})}
FallbackCPPC == {CPPC({}, {arm64})}
PlainCPPC == {CPPC({}, {})}
=============================================================================
