------------------------- MODULE MCImageInspection -------------------------
(***************************************************************************)
(* The inspection of two images: app, by a short name that two registries  *)
(* may resolve, and tool, in the first of them, whose credentials a pod    *)
(* may bring under a glob.                                                 *)
(***************************************************************************)
EXTENDS ImageInspection, TLC

CONSTANTS w1, w2, app, tool, r1, r2, host1, host2, short, glob, amd64, arm64, old, new

TwoWorkers == {w1, w2}
OneWorker == {w1}
BothImages == {app, tool}
TwoRepos == {r1, r2}
MCCandidates == (app :> <<r1, r2>>) @@ (tool :> <<r1>>)
MCHost == (app :> short) @@ (tool :> host1) @@ (r1 :> host1) @@ (r2 :> host2)
MCGlobHosts == glob :> {host1}
MCArch == {amd64, arm64}

Image(arch) == [arch |-> arch, reference |-> FALSE, bundle |-> FALSE]
Attestation == [arch |-> amd64, reference |-> TRUE, bundle |-> FALSE]
Index(entries) == [index |-> TRUE, entries |-> entries]
MultiArch == Index(<<Attestation, Image(amd64), Image(arm64)>>)
SingleArch == [index |-> FALSE, entries |-> <<Image(amd64)>>]
Bundle == [index |-> FALSE, entries |-> <<[Image(amd64) EXCEPT !.bundle = TRUE]>>]
Nothing == Index(<<Attestation>>)
Incomplete == Index(<<Image(NoPlatform), Image(amd64)>>)

MCManifests == (r1 :> {MultiArch, SingleArch}) @@ (r2 :> {Bundle})
MultiArchFirst == (r1 :> MultiArch) @@ (r2 :> Bundle)
AllManifests == [r \in TwoRepos |-> {MultiArch, SingleArch, Bundle, Nothing, Incomplete}]

\* The first registry rotates its credentials, the second one is public.
MCAccepted == (r1 :> {{old}, {new}}) @@ (r2 :> {{Anonymous}})
Container(image, secrets, skip) == [image |-> image, secrets |-> secrets, skipCache |-> skip]
MCContainers ==
    {Container(tool, <<>>, FALSE), Container(tool, <<glob :> new>>, FALSE),
     Container(tool, <<>>, TRUE), Container(app, <<>>, FALSE)}
MCGlobalSecrets == {host1 :> old, host1 :> new, Malformed}

Symmetry == Permutations({w1, w2})
=============================================================================
