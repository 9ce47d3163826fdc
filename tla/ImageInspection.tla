-------------------------- MODULE ImageInspection --------------------------
(***************************************************************************)
(* The inspection of images: the cache in front of the registry inspector, *)
(* the credentials it assembles, and the syncer that brings it the global  *)
(* pull secret.                                                            *)
(*                                                                         *)
(* The workers are the reconciles of the pod placement controller that     *)
(* call GetCompatibleArchitecturesSet concurrently.  A call looks its key  *)
(* up in the cache, reads the global pull secret, inspects the image, and  *)
(* adds the answer to the cache; between two of these steps the syncer may *)
(* store another secret and purge the cache, and the registry may change.  *)
(*                                                                         *)
(* A secret is a function from patterns, the hosts and globs of a          *)
(* registry, to credentials.  Which entry the LRU cache evicts is left     *)
(* open, and so is the time after which an entry expires.                  *)
(***************************************************************************)
EXTENDS Naturals, Sequences, FiniteSets

CONSTANTS
    Workers,       \* concurrent reconciles
    Images,        \* image references of the containers
    Repos,         \* the fully-qualified repositories they resolve to
    Candidates,    \* [Images -> Seq(Repos)]: what shortnames.Resolve tries, in order
    Host,          \* host of a repository, and the part of an image that is read as one
    GlobHosts,     \* [globs -> sets of the hosts they match]
    Arch, Supported,
    Manifests,     \* [Repos -> sets]: what the repository may serve
    FirstContent,  \* [Repos -> manifests]: what it serves first
    Accepted,      \* [Repos -> sets]: the sets of credentials it may accept
    Containers,    \* [image, secrets, skipCache]: what reconciles ask for
    GlobalSecrets, \* contents of the global pull secret
    Anonymous, Unparsable, Malformed, Absent, NoPlatform,
    CacheSize,     \* entries of the LRU cache
    MaxChanges,    \* bound: changes of secrets and of the registry
    MaxFaults      \* bound: unreachable registries, failed calls, expiries and restarts

\* The choices of a value for each repository.
Choices(sets) == {f \in [Repos -> UNION {sets[r] : r \in Repos}] : \A r \in Repos : f[r] \in sets[r]}

ASSUME InspectionAssumption ==
    /\ Candidates \in [Images -> Seq(Repos)] /\ Supported \subseteq Arch
    /\ NoPlatform \notin Arch /\ FirstContent \in Choices(Manifests)
    /\ \A c \in Containers : c.image \in Images /\ c.skipCache \in BOOLEAN
    /\ CacheSize \in Nat \ {0} /\ MaxChanges \in Nat /\ MaxFaults \in Nat

VARIABLES
    \* the registry and the API server
    content,          \* the manifest in each repository
    accepted,         \* the credentials that may read it
    apiSecret,        \* the global pull secret, or Absent
    \* the pod placement controller
    notified,         \* the syncer's informer has an event for it
    syncer,           \* "idle", or "stored" between the two calls of the facade
    globalPullSecret, \* the inspector's copy; Unparsable before the first event
    imageRefsCache,
    work,             \* the call of each worker
    late,             \* workers that had read a secret when the cache was last purged
    changes, faults

worldVars == <<content, accepted, apiSecret>>
syncVars == <<notified, syncer, globalPullSecret>>
bounds == <<changes, faults>>
vars == <<worldVars, syncVars, imageRefsCache, work, late, bounds>>

Change == changes < MaxChanges /\ changes' = changes + 1 /\ UNCHANGED faults
Fault == faults < MaxFaults /\ faults' = faults + 1 /\ UNCHANGED changes

-----------------------------------------------------------------------------
\* Credentials

\* unmarshallAuthsDataAndStore of every secret: the last entry of a pattern is
\* kept, and secrets that cannot be parsed are skipped.
Merged(secrets) ==
    LET holders(p) == {i \in DOMAIN secrets : secrets[i] # Unparsable /\ p \in DOMAIN secrets[i]}
        last(p) == CHOOSE i \in holders(p) : \A j \in holders(p) : j <= i
        parsed == {i \in DOMAIN secrets : secrets[i] # Unparsable}
    IN  [p \in UNION {DOMAIN secrets[i] : i \in parsed} |-> secrets[last(p)][p]]

\* expandGlobs: the globs that match the image give its host a credential, if it
\* has none; the order in which the map is iterated decides which one.
expandGlobs(image, auths) ==
    LET globs == {g \in DOMAIN auths \cap DOMAIN GlobHosts : Host[image] \in GlobHosts[g]}
    IN  IF Host[image] \in DOMAIN auths \/ globs = {}
        THEN {auths}
        ELSE {[p \in DOMAIN auths \cup {Host[image]} |->
                  IF p = Host[image] THEN auths[g] ELSE auths[p]] : g \in globs}

marshaledImagePullSecrets(image, secrets) == expandGlobs(image, Merged(secrets))

\* The registry lets the inspector read a repository.
Opens(repo, auths) ==
    (IF Host[repo] \in DOMAIN auths THEN auths[Host[repo]] ELSE Anonymous) \in accepted[repo]

-----------------------------------------------------------------------------
\* The architectures of an image

NoAnswer == [kind |-> "none", archs |-> {}]
Failed == [kind |-> "error", archs |-> {}]
Panic == [kind |-> "panic", archs |-> {}]
Archs(set) == [kind |-> "archs", archs |-> set]

Runnable(entry) == ~entry.reference /\ entry.arch \in Arch

\* A bundle is for all architectures, whatever its manifest says.
Compatible(config, archs) == Archs(IF config.bundle THEN Supported ELSE archs)

\* The answers to an index: the log line of an entry without a platform
\* dereferences it; the architectures are those of the entries that can run, of
\* which the first is the one whose configuration is read.  Without one the library
\* chooses an entry, or finds none.
InspectedIndex(entries) ==
    LET runnable == {i \in DOMAIN entries : Runnable(entries[i])}
        first == CHOOSE i \in runnable : \A j \in runnable : i <= j
        archs == {entries[i].arch : i \in runnable}
    IN  IF \E i \in DOMAIN entries : ~entries[i].reference /\ entries[i].arch = NoPlatform
        THEN {Panic}
        ELSE IF runnable # {}
             THEN {Compatible(entries[first], archs)}
             ELSE {Failed} \cup {Compatible(entries[i], {}) : i \in DOMAIN entries}

Inspected(m) ==
    IF m.index THEN InspectedIndex(m.entries)
               ELSE {Compatible(m.entries[1], {m.entries[1].arch})}

-----------------------------------------------------------------------------
Sources(image) == {Candidates[image][i] : i \in DOMAIN Candidates[image]}

NoCall == [pc |-> "idle"]

Init ==
    /\ content = FirstContent /\ accepted \in Choices(Accepted)
    /\ apiSecret \in (GlobalSecrets \ {Malformed}) \cup {Absent}
    /\ notified = (apiSecret # Absent) /\ syncer = "idle" /\ globalPullSecret = Unparsable
    /\ imageRefsCache = {}
    /\ work = [w \in Workers |-> NoCall]
    /\ late = {}
    /\ changes = 0 /\ faults = 0

\* The registry and the API server.  served collects what the registry has served
\* since a call that bypasses the cache began.
Push(repo) ==
    /\ Change
    /\ \E m \in Manifests[repo] \ {content[repo]} :
         /\ content' = [content EXCEPT ![repo] = m]
         /\ work' = [w \in Workers |->
                       IF work[w].pc # "idle" /\ work[w].skipCache /\ repo \in Sources(work[w].image)
                       THEN [work[w] EXCEPT !.served = @ \cup {m}] ELSE work[w]]
    /\ UNCHANGED <<accepted, apiSecret, syncVars, imageRefsCache, late>>

Rotate(repo) ==
    /\ Change
    /\ \E creds \in Accepted[repo] \ {accepted[repo]} : accepted' = [accepted EXCEPT ![repo] = creds]
    /\ UNCHANGED <<content, apiSecret, syncVars, imageRefsCache, work, late>>

WriteSecret ==
    /\ Change
    /\ apiSecret' \in (GlobalSecrets \cup {Absent}) \ {apiSecret}
    /\ notified' = (apiSecret' # Absent)
    /\ UNCHANGED <<content, accepted, syncer, globalPullSecret, imageRefsCache, work, late>>

-----------------------------------------------------------------------------
\* The global pull secret

\* A mutant, for the model checker only: updates are compared with the secret in use.
firstSecretKept ==
    /\ notified /\ syncer = "idle"
    /\ notified' = FALSE
    /\ IF apiSecret = Malformed \/ globalPullSecret # Unparsable
       THEN UNCHANGED <<syncer, globalPullSecret>>
       ELSE globalPullSecret' = apiSecret /\ syncer' = "stored"
    /\ UNCHANGED <<worldVars, imageRefsCache, work, late, bounds>>

\* The informer calls the handler with the latest object; there is no handler of
\* deletions.  A secret that cannot be extracted leaves the last one in place.
onAddOrUpdate ==
    /\ notified /\ syncer = "idle"
    /\ notified' = FALSE
    /\ IF apiSecret = Malformed
       THEN UNCHANGED <<syncer, globalPullSecret>>
       ELSE globalPullSecret' = apiSecret /\ syncer' = "stored"
    /\ UNCHANGED <<worldVars, imageRefsCache, work, late, bounds>>

\* A mutant, for the model checker only: the cache outlives the secret.
cacheNotPurged ==
    /\ syncer = "stored"
    /\ syncer' = "idle"
    /\ late' = {}
    /\ UNCHANGED <<worldVars, notified, globalPullSecret, imageRefsCache, work, bounds>>

clearCache ==
    /\ syncer = "stored"
    /\ syncer' = "idle"
    /\ imageRefsCache' = {}
    /\ late' = {w \in Workers : work[w].pc \in {"inspect", "add"}}
    /\ UNCHANGED <<worldVars, notified, globalPullSecret, work, bounds>>

-----------------------------------------------------------------------------
\* GetCompatibleArchitecturesSet

Finished(call, answer) ==
    [pc |-> "done", image |-> call.image, secrets |-> call.secrets, skipCache |-> call.skipCache,
     answer |-> answer, source |-> call.source, served |-> call.served]

\* A mutant, for the model checker only: the key is the image.
secretsNotHashed(image, auths) == [image |-> image, auths |-> {}]

computeHash(image, auths) == [image |-> image, auths |-> auths]

\* A mutant, for the model checker only: the answer in the cache always serves.
skipCacheIgnored(key, skipCache) == {e \in imageRefsCache : e.key = key}

\* The answer in the cache, unless the image is to be pulled anyway.
Hits(key, skipCache) == {e \in imageRefsCache : e.key = key /\ ~skipCache}

\* A call computes its key and looks it up.
Lookup(w) ==
    /\ work[w].pc = "idle"
    /\ \E c \in Containers : \E auths \in marshaledImagePullSecrets(c.image, c.secrets) :
         LET key == computeHash(c.image, auths)
             hits == Hits(key, c.skipCache)
             call == [pc |-> "secret", image |-> c.image, secrets |-> c.secrets,
                      skipCache |-> c.skipCache, key |-> key, auths |-> auths,
                      secret |-> Unparsable, answer |-> NoAnswer,
                      source |-> [image |-> c.image, secrets |-> c.secrets],
                      served |-> IF c.skipCache THEN {content[r] : r \in Sources(c.image)} ELSE {}]
         IN  work' = [work EXCEPT ![w] =
                        IF hits = {} THEN call
                        ELSE LET hit == CHOOSE e \in hits : TRUE
                             IN  [Finished(call, Archs(hit.archs)) EXCEPT !.source = hit.source]]
    /\ UNCHANGED <<worldVars, syncVars, imageRefsCache, late, bounds>>

\* The inspector reads the global pull secret, which the pod's own override.
ReadGlobalPullSecret(w) ==
    /\ work[w].pc = "secret"
    /\ \E auths \in marshaledImagePullSecrets(work[w].image,
                                              <<globalPullSecret>> \o work[w].secrets) :
         work' = [work EXCEPT ![w] = [@ EXCEPT !.pc = "inspect", !.auths = auths,
                                               !.secret = globalPullSecret]]
    /\ UNCHANGED <<worldVars, syncVars, imageRefsCache, late, bounds>>

\* The first candidate that can be opened is inspected; some may be unreachable.
Inspect(w) ==
    /\ work[w].pc = "inspect"
    /\ LET candidates == Candidates[work[w].image]
           open == {i \in DOMAIN candidates : Opens(candidates[i], work[w].auths)}
       IN \E down \in SUBSET open :
            LET left == open \ down
                answers == IF left = {} THEN {Failed}
                           ELSE LET first == CHOOSE i \in left : \A j \in left : i <= j
                                IN  Inspected(content[candidates[first]])
            IN  /\ faults + Cardinality(down) <= MaxFaults
                /\ faults' = faults + Cardinality(down)
                /\ \E answer \in answers :
                     work' = [work EXCEPT ![w] =
                                IF answer.kind = "archs" /\ ~work[w].skipCache
                                THEN [@ EXCEPT !.pc = "add", !.answer = answer]
                                ELSE Finished(@, answer)]
    /\ UNCHANGED <<worldVars, syncVars, imageRefsCache, late, changes>>

\* Any other step of the inspection fails: the auth file, the manifest, the
\* signature policy, the configuration of the image.
InspectionFails(w) ==
    /\ work[w].pc \in {"secret", "inspect"}
    /\ Fault
    /\ work' = [work EXCEPT ![w] = Finished(@, Failed)]
    /\ UNCHANGED <<worldVars, syncVars, imageRefsCache, late>>

\* A mutant, for the model checker only: nothing is evicted.
cacheWithoutBound(others) == {others}

\* What is left of the other entries to make room for one more.
Evict(others) ==
    IF Cardinality(others) < CacheSize THEN {others} ELSE {others \ {e} : e \in others}

Add(w) ==
    /\ work[w].pc = "add"
    /\ \E others \in Evict({e \in imageRefsCache : e.key # work[w].key}) :
         imageRefsCache' = others \cup
           {[key |-> work[w].key, archs |-> work[w].answer.archs, secret |-> work[w].secret,
             source |-> work[w].source, by |-> w]}
    /\ work' = [work EXCEPT ![w] = Finished(@, @.answer)]
    /\ UNCHANGED <<worldVars, syncVars, late, bounds>>

Return(w) ==
    /\ work[w].pc = "done"
    /\ work' = [work EXCEPT ![w] = NoCall]
    /\ UNCHANGED <<worldVars, syncVars, imageRefsCache, late, bounds>>

Expire ==
    /\ Fault
    /\ \E e \in imageRefsCache : imageRefsCache' = imageRefsCache \ {e}
    /\ UNCHANGED <<worldVars, syncVars, work, late>>

Restart ==
    /\ Fault
    /\ notified' = (apiSecret # Absent) /\ syncer' = "idle" /\ globalPullSecret' = Unparsable
    /\ imageRefsCache' = {} /\ work' = [w \in Workers |-> NoCall] /\ late' = {}
    /\ UNCHANGED worldVars

-----------------------------------------------------------------------------
Next ==
    \/ onAddOrUpdate \/ clearCache
    \/ \E w \in Workers :
         \/ Lookup(w) \/ ReadGlobalPullSecret(w) \/ Inspect(w) \/ InspectionFails(w)
         \/ Add(w) \/ Return(w)
    \/ \E repo \in Repos : Push(repo) \/ Rotate(repo)
    \/ WriteSecret
    \/ Expire \/ Restart

Spec == Init /\ [][Next]_vars

\* The informer delivers, and a call that has its answer returns.
FairSpec ==
    /\ Spec
    /\ WF_vars(onAddOrUpdate) /\ WF_vars(clearCache)
    /\ \A w \in Workers : WF_vars(Return(w))

-----------------------------------------------------------------------------
Source == {[image |-> c.image, secrets |-> c.secrets] : c \in Containers}
Keys == UNION {[image : {c.image}, auths : marshaledImagePullSecrets(c.image, c.secrets)] :
                 c \in Containers}
\* The architectures an answer may hold: those of an index, and the ones that the
\* configurations of single images report, which are returned as they are.
Reported == Arch \cup {m.entries[1].arch : m \in {n \in UNION {Manifests[r] : r \in Repos} : ~n.index}}
Entry == [key : Keys, archs : SUBSET Reported, secret : GlobalSecrets \cup {Unparsable},
          source : Source, by : Workers]

\* The types of the variables; the cache has one entry for a key and at most CacheSize.
TypeOK ==
    /\ content \in Choices(Manifests) /\ accepted \in Choices(Accepted)
    /\ apiSecret \in GlobalSecrets \cup {Absent}
    /\ notified \in BOOLEAN /\ syncer \in {"idle", "stored"}
    /\ globalPullSecret \in GlobalSecrets \cup {Unparsable}
    /\ imageRefsCache \subseteq Entry /\ Cardinality(imageRefsCache) <= CacheSize
    /\ \A d, e \in imageRefsCache : d.key = e.key => d = e
    /\ DOMAIN work = Workers
    /\ \A w \in Workers : work[w].pc # "idle" =>
         /\ work[w].pc \in {"secret", "inspect", "add", "done"}
         /\ work[w].pc # "done" => work[w].key \in Keys
         /\ work[w].source \in Source
         /\ work[w].answer.kind \in {"none", "archs", "error", "panic"}
         /\ work[w].answer.archs \subseteq Reported
    /\ late \subseteq Workers
    /\ changes \in 0 .. MaxChanges /\ faults \in 0 .. MaxFaults

\* StoreGlobalPullSecret purges the cache of the answers of the last secret: those
\* that come back were on their way when it did, at most one for each such reconcile
\* (facade.go:42-45, cache.go:56-64).
OnlyLateAnswersAreStale ==
    syncer = "idle" =>
        LET stale == {e \in imageRefsCache : e.secret # globalPullSecret}
        IN  /\ \A e \in stale : e.by \in late
            /\ \A d, e \in stale : d.by = e.by => d = e

\* The global pull secret is not part of the key of an answer, and the answers of
\* the last one are gone once it is stored (facade.go:42-45).  It is refuted.
NoStaleAnswers ==
    syncer = "idle" => \A e \in imageRefsCache : e.secret = globalPullSecret

\* A pod never gets the answer to another image, or one that was obtained with pull
\* secrets its own could not stand for: the key holds both (cache.go:44-55 and 85-91).
AnswersAreOwn ==
    \A w \in Workers : work[w].pc = "done" /\ work[w].answer.kind = "archs" =>
        /\ work[w].source.image = work[w].image
        /\ marshaledImagePullSecrets(work[w].image, work[w].source.secrets)
             \cap marshaledImagePullSecrets(work[w].image, work[w].secrets) # {}

\* A container with imagePullPolicy Always is placed by what the registry served
\* while its pod was reconciled, never by an older answer (pod_model.go:350, cache.go:51).
AlwaysIsFresh ==
    \A w \in Workers : work[w].pc = "done" /\ work[w].skipCache /\ work[w].answer.kind = "archs" =>
        \E m \in work[w].served : work[w].answer \in Inspected(m)

\* An entry whose platform is missing is skipped like one whose architecture is
\* unknown, as the comment at inspector.go:169 says.  It is refuted.
NoPlatformIsSkipped ==
    \A w \in Workers : work[w].pc = "done" => work[w].answer.kind # "panic"

\* The images of the containers, each with the credentials a global pull secret gives it.
Requests == [secret \in GlobalSecrets \ {Malformed} |->
    UNION {[image : {c.image},
            auths : marshaledImagePullSecrets(c.image, <<secret>> \o c.secrets)] : c \in Containers}]

\* The manifests that always have an answer.
Answered == {m \in UNION {Manifests[r] : r \in Repos} : \A a \in Inspected(m) : a.kind = "archs"}

\* Every image can be inspected with the global pull secret that is stored.
Readable ==
    \A request \in Requests[apiSecret] :
      /\ \E repo \in Sources(request.image) : Opens(repo, request.auths)
      /\ \A repo \in Sources(request.image) : content[repo] \in Answered

\* Failures are not remembered: once the images can be inspected with the stored
\* global pull secret, inspections stop failing, whatever the cache and the syncer
\* have been through (cache.go:56-64, global_pull_secret.go:77-112).
InspectionsRecover ==
    <>[](apiSecret \notin {Absent, Malformed} /\ Readable)
      => <>[](\A w \in Workers : work[w].pc = "done" => work[w].answer.kind = "archs")

=============================================================================
