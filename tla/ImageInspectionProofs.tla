----------------------- MODULE ImageInspectionProofs -----------------------
(***************************************************************************)
(* Proofs about ImageInspection for any number of workers, images,         *)
(* secrets, changes and faults, and any size of the cache.                 *)
(***************************************************************************)
EXTENDS ImageInspection, WellFoundedInduction, FiniteSetTheorems, TLAPS

-----------------------------------------------------------------------------
(***************************************************************************)
(* The calls and the entries of the cache.                                 *)
(***************************************************************************)

InFlight == {"secret", "inspect", "add"}
DoneFields == {"pc", "image", "secrets", "skipCache", "answer", "source", "served"}
Fields == DoneFields \cup {"key", "auths", "secret"}

\* A key stands for an image and for pull secrets.
KeyOf(key, image, secrets) ==
    key.image = image /\ key.auths \in marshaledImagePullSecrets(image, secrets)

\* The registry has served its content to the call.
Fresh(c, registry) == \A r \in Sources(c.image) : registry[r] \in c.served

CallOK(c, registry) ==
    /\ DOMAIN c = Fields /\ c.image \in Images /\ c.skipCache \in BOOLEAN
    /\ KeyOf(c.key, c.image, c.secrets)
    /\ c.source.image = c.image /\ c.source.secrets = c.secrets
    /\ c.skipCache => c.pc # "add" /\ Fresh(c, registry)

Own(c) ==
    /\ c.source.image = c.image
    /\ marshaledImagePullSecrets(c.image, c.source.secrets)
         \cap marshaledImagePullSecrets(c.image, c.secrets) # {}

DoneOK(c) ==
    /\ DOMAIN c = DoneFields /\ c.skipCache \in BOOLEAN
    /\ c.answer.kind = "archs" => Own(c)
    /\ c.answer.kind = "archs" /\ c.skipCache => \E m \in c.served : c.answer \in Inspected(m)

Calls ==
    /\ DOMAIN work = Workers
    /\ \A w \in Workers : \/ work[w].pc = "idle"
                          \/ work[w].pc \in InFlight /\ CallOK(work[w], content)
                          \/ work[w].pc = "done" /\ DoneOK(work[w])

Entries == \A e \in imageRefsCache : KeyOf(e.key, e.source.image, e.source.secrets)

(***************************************************************************)
(* The answers and calls of the last secret, while the syncer is idle.     *)
(***************************************************************************)

StaleCall(c) == c.pc \in {"inspect", "add"} /\ c.secret # globalPullSecret
StaleEntries == {e \in imageRefsCache : e.secret # globalPullSecret}

Staleness ==
    syncer = "idle" =>
      /\ \A e \in StaleEntries : e.by \in late /\ ~StaleCall(work[e.by])
      /\ \A d, e \in StaleEntries : d.by = e.by => d = e
      /\ \A w \in Workers : StaleCall(work[w]) => w \in late

Inv ==
    /\ DOMAIN content = Repos
    /\ Calls /\ Entries /\ Staleness
    /\ \A e \in imageRefsCache : e.by \in Workers

-----------------------------------------------------------------------------
\* A call that ends.
LEMMA FinishedFields ==
  ASSUME NEW c, NEW answer
  PROVE  /\ DOMAIN Finished(c, answer) = DoneFields
         /\ Finished(c, answer).pc = "done"
         /\ Finished(c, answer).image = c.image
         /\ Finished(c, answer).secrets = c.secrets
         /\ Finished(c, answer).skipCache = c.skipCache
         /\ Finished(c, answer).answer = answer
         /\ Finished(c, answer).source = c.source
         /\ Finished(c, answer).served = c.served
BY DEF Finished, DoneFields

\* It has its own answer.
LEMMA FinishedOK ==
  ASSUME NEW c, NEW registry, CallOK(c, registry), NEW answer,
         answer.kind = "archs" /\ c.skipCache => \E m \in c.served : answer \in Inspected(m)
  PROVE  DoneOK(Finished(c, answer))
<1> DEFINE f == Finished(c, answer)
<1>1. /\ DOMAIN f = DoneFields /\ f.image = c.image /\ f.secrets = c.secrets
      /\ f.skipCache = c.skipCache /\ f.answer = answer /\ f.source = c.source
      /\ f.served = c.served
  BY FinishedFields
<1> HIDE DEF f
<1>2. Own(f)
  <2>1. /\ c.source.image = c.image /\ c.source.secrets = c.secrets
        /\ c.key.auths \in marshaledImagePullSecrets(c.image, c.secrets)
    BY Zenon DEF CallOK, KeyOf
  <2> QED
    BY <1>1, <2>1 DEF Own
<1>3. f.skipCache \in BOOLEAN
  BY <1>1, Zenon DEF CallOK
<1>4. f.answer.kind = "archs" /\ f.skipCache => \E m \in f.served : f.answer \in Inspected(m)
  BY <1>1, Zenon
<1>5. DOMAIN f = DoneFields
  BY <1>1
<1>6. DoneOK(f)
  BY <1>2, <1>3, <1>4, <1>5, Zenon DEF DoneOK
<1> QED
  BY <1>6 DEF f

\* The step of one call.
LEMMA OneCall ==
  ASSUME Calls, NEW w \in Workers, NEW c, work' = [work EXCEPT ![w] = c],
         \/ c.pc = "idle"
         \/ c.pc \in InFlight /\ CallOK(c, content)
         \/ c.pc = "done" /\ DoneOK(c),
         UNCHANGED content
  PROVE  Calls'
<1>1. /\ DOMAIN work' = Workers /\ work'[w] = c
      /\ \A v \in Workers \ {w} : work'[v] = work[v]
  BY DEF Calls
<1>2. ASSUME NEW v \in Workers
      PROVE  \/ work'[v].pc = "idle"
             \/ work'[v].pc \in InFlight /\ CallOK(work'[v], content)
             \/ work'[v].pc = "done" /\ DoneOK(work'[v])
  BY <1>1 DEF Calls
<1> QED
  BY <1>1, <1>2 DEF Calls

\* A step that makes no call or entry stale.
LEMMA StalenessKept ==
  ASSUME Inv, UNCHANGED <<syncer, globalPullSecret, late>>, imageRefsCache' \subseteq imageRefsCache,
         \A w \in Workers : StaleCall(work[w])' => StaleCall(work[w])
  PROVE  Staleness'
<1>1. StaleEntries' \subseteq StaleEntries
  BY DEF StaleEntries
<1>2. \A e \in StaleEntries : e.by \in Workers
  BY DEF StaleEntries, Inv
<1>3. SUFFICES ASSUME syncer' = "idle"
               PROVE  Staleness'
  BY DEF Staleness
<1>4. /\ \A e \in StaleEntries : e.by \in late /\ ~StaleCall(work[e.by])
      /\ \A d, e \in StaleEntries : d.by = e.by => d = e
      /\ \A w \in Workers : StaleCall(work[w]) => w \in late
  BY <1>3, Zenon DEF Inv, Staleness
<1>5. ASSUME NEW e \in StaleEntries'
      PROVE  e.by \in late' /\ ~StaleCall(work[e.by])'
  <2>1. e \in StaleEntries /\ e.by \in Workers
    BY <1>1, <1>2, <1>5
  <2> QED
    BY <1>4, <2>1
<1>6. \A d, e \in StaleEntries' : d.by = e.by => d = e
  BY <1>1, <1>4
<1>7. \A w \in Workers : StaleCall(work[w])' => w \in late'
  BY <1>4
<1> QED
  BY <1>5, <1>6, <1>7, Zenon DEF Staleness

LEMMA LookupStep ==
  ASSUME Inv, NEW w \in Workers, Lookup(w)
  PROVE  Inv'
<1>1. PICK c \in Containers : \E auths \in marshaledImagePullSecrets(c.image, c.secrets) :
         LET key == computeHash(c.image, auths)
             hits == Hits(key, c.skipCache)
             call == [pc |-> "secret", image |-> c.image, secrets |-> c.secrets,
                      skipCache |-> c.skipCache, key |-> key, auths |-> auths,
                      secret |-> Unparsable, answer |-> NoAnswer,
                      source |-> [image |-> c.image, secrets |-> c.secrets],
                      served |-> IF c.skipCache THEN {content[r] : r \in Sources(c.image)} ELSE {}]
         IN  work' = [work EXCEPT ![w] =
                        IF hits = {} THEN call
                        ELSE LET hit == CHOOSE e \in hits : TRUE
                             IN  [Finished(call, Archs(hit.archs)) EXCEPT !.source = hit.source]]
  BY Zenon DEF Lookup
<1>2. PICK auths \in marshaledImagePullSecrets(c.image, c.secrets) :
         LET key == computeHash(c.image, auths)
             hits == Hits(key, c.skipCache)
             call == [pc |-> "secret", image |-> c.image, secrets |-> c.secrets,
                      skipCache |-> c.skipCache, key |-> key, auths |-> auths,
                      secret |-> Unparsable, answer |-> NoAnswer,
                      source |-> [image |-> c.image, secrets |-> c.secrets],
                      served |-> IF c.skipCache THEN {content[r] : r \in Sources(c.image)} ELSE {}]
         IN  work' = [work EXCEPT ![w] =
                        IF hits = {} THEN call
                        ELSE LET hit == CHOOSE e \in hits : TRUE
                             IN  [Finished(call, Archs(hit.archs)) EXCEPT !.source = hit.source]]
  BY <1>1, Zenon
<1> DEFINE key == computeHash(c.image, auths)
           hits == Hits(key, c.skipCache)
           served == IF c.skipCache THEN {content[r] : r \in Sources(c.image)} ELSE {}
           source == [image |-> c.image, secrets |-> c.secrets]
           call == [pc |-> "secret", image |-> c.image, secrets |-> c.secrets,
                    skipCache |-> c.skipCache, key |-> key, auths |-> auths,
                    secret |-> Unparsable, answer |-> NoAnswer,
                    source |-> source, served |-> served]
           hit == CHOOSE e \in hits : TRUE
           found == [Finished(call, Archs(hit.archs)) EXCEPT !.source = hit.source]
<1>3. work' = [work EXCEPT ![w] = IF hits = {} THEN call ELSE found]
  BY <1>2, Zenon
<1>4. UNCHANGED <<content, syncer, globalPullSecret, imageRefsCache, late>>
  BY Zenon DEF Lookup, worldVars, syncVars
<1>5. c.image \in Images /\ c.skipCache \in BOOLEAN
  BY InspectionAssumption
<1>6. KeyOf(key, c.image, c.secrets)
  BY DEF KeyOf, computeHash
<1>7. c.skipCache => \A r \in Sources(c.image) : content[r] \in served
  OBVIOUS
<1>8. source.image = c.image /\ source.secrets = c.secrets
  OBVIOUS
<1>9. \A e \in hits : e \in imageRefsCache /\ e.key = key /\ ~c.skipCache
  BY Zenon DEF Hits
<1> HIDE DEF key, hits, served, source
<1>10. /\ DOMAIN call = Fields /\ call.pc = "secret" /\ call.image = c.image
       /\ call.secrets = c.secrets /\ call.skipCache = c.skipCache /\ call.key = key
       /\ call.source = source /\ call.served = served
  BY Zenon DEF Fields, DoneFields
<1> HIDE DEF call
<1>11. call.pc \in InFlight /\ call.pc # "add"
  BY <1>10 DEF InFlight
<1>12. Fresh(call, content) \/ ~call.skipCache
  BY <1>7, <1>10, Zenon DEF Fresh
<1>13. CallOK(call, content)
  BY <1>5, <1>6, <1>8, <1>10, <1>11, <1>12, Zenon DEF CallOK
<1>14. ASSUME hits # {}
       PROVE  found.pc = "done" /\ DoneOK(found)
  <2>1. hit \in imageRefsCache /\ hit.key = key /\ ~c.skipCache
    BY <1>9, <1>14, Zenon
  <2>2. KeyOf(key, hit.source.image, hit.source.secrets)
    BY <2>1 DEF Inv, Entries
  <2> HIDE DEF hit
  <2> DEFINE f == Finished(call, Archs(hit.archs))
  <2>3. /\ DOMAIN f = DoneFields /\ f.pc = "done" /\ f.image = c.image /\ f.secrets = c.secrets
        /\ f.skipCache = c.skipCache
    <3>1. /\ DOMAIN f = DoneFields /\ f.pc = "done" /\ f.image = call.image
          /\ f.secrets = call.secrets /\ f.skipCache = call.skipCache
      BY FinishedFields
    <3> QED
      BY <1>10, <3>1, Zenon
  <2> HIDE DEF f
  <2>4. /\ DOMAIN found = DoneFields /\ found.pc = "done" /\ found.image = c.image
        /\ found.secrets = c.secrets /\ found.skipCache = f.skipCache
        /\ found.source = hit.source
    BY <2>3 DEF f, DoneFields
  <2> HIDE DEF found
  <2>5. Own(found)
    BY <1>6, <2>2, <2>4, Zenon DEF Own, KeyOf
  <2>6. ~found.skipCache /\ found.skipCache \in BOOLEAN
    BY <1>5, <2>1, <2>3, <2>4, Zenon
  <2> QED
    BY <2>4, <2>5, <2>6, Zenon DEF DoneOK
<1> HIDE DEF found
<1>15. Calls'
  <2>1. CASE hits = {}
    BY <1>3, <1>4, <1>11, <1>13, <2>1, OneCall, Zenon DEF Inv
  <2>2. CASE hits # {}
    BY <1>3, <1>4, <1>14, <2>2, OneCall DEF Inv
  <2> QED
    BY <2>1, <2>2
<1>16. work'[w].pc \notin {"inspect", "add"} /\ \A v \in Workers \ {w} : work'[v] = work[v]
  <2>1. work'[w] = call \/ (hits # {} /\ work'[w] = found)
    BY <1>3 DEF Inv, Calls
  <2> QED
    BY <1>3, <1>10, <1>14, <2>1 DEF Inv, Calls
<1>17. Staleness'
  BY <1>4, <1>16, StalenessKept DEF StaleCall
<1> QED
  BY <1>4, <1>15, <1>17 DEF Inv, Entries

LEMMA ReadStep ==
  ASSUME Inv, NEW w \in Workers, ReadGlobalPullSecret(w)
  PROVE  Inv'
<1> DEFINE c == work[w]
<1>1. PICK auths : work' = [work EXCEPT ![w] = [@ EXCEPT !.pc = "inspect", !.auths = auths,
                                                        !.secret = globalPullSecret]]
  BY Zenon DEF ReadGlobalPullSecret
<1> DEFINE d == [c EXCEPT !.pc = "inspect", !.auths = auths, !.secret = globalPullSecret]
<1>2. work' = [work EXCEPT ![w] = d]
  BY <1>1, Zenon
<1>3. UNCHANGED <<content, syncer, globalPullSecret, imageRefsCache, late>>
  BY DEF ReadGlobalPullSecret, worldVars, syncVars
<1>4. c.pc = "secret" /\ CallOK(c, content)
  BY DEF ReadGlobalPullSecret, Inv, Calls, InFlight
<1>5. DOMAIN c = Fields
  BY <1>4, Zenon DEF CallOK
<1>6. /\ DOMAIN d = Fields /\ d.pc = "inspect" /\ d.image = c.image /\ d.secrets = c.secrets
      /\ d.skipCache = c.skipCache /\ d.key = c.key /\ d.secret = globalPullSecret
      /\ d.source = c.source /\ d.served = c.served
  BY <1>5 DEF Fields, DoneFields
<1> HIDE DEF d
<1>7. d.pc \in InFlight /\ d.pc # "add"
  BY <1>6 DEF InFlight
<1>8. CallOK(d, content)
  BY <1>4, <1>6, <1>7, Zenon DEF CallOK, Fresh
<1>9. Calls'
  BY <1>2, <1>3, <1>7, <1>8, OneCall, Zenon DEF Inv
<1>10. work'[w] = d /\ \A v \in Workers \ {w} : work'[v] = work[v]
  BY <1>2 DEF Inv, Calls
<1>11. Staleness'
  BY <1>3, <1>6, <1>10, StalenessKept DEF StaleCall
<1> QED
  BY <1>3, <1>9, <1>11 DEF Inv, Entries

\* The first candidate that is left is one of the image's.
LEMMA FirstIsSource ==
  ASSUME NEW image \in Images, NEW left, left \subseteq DOMAIN Candidates[image], left # {}
  PROVE  Candidates[image][CHOOSE i \in left : \A j \in left : i <= j] \in Sources(image)
<1>1. DOMAIN Candidates[image] \subseteq Nat
  BY InspectionAssumption
<1>2. left \subseteq Nat
  BY <1>1
<1>3. PICK i \in left : \A j \in left : ~(<<j, i>> \in OpToRel(<, Nat))
  BY <1>2, NatLessThanWellFounded, WFMin, Zenon
<1>4. \A j \in left : i <= j
  <2>1. \A j \in Nat : j < i => <<j, i>> \in OpToRel(<, Nat)
    <3>1. ASSUME NEW j \in Nat, j < i
          PROVE  <<j, i>> \in Nat \X Nat /\ <<j, i>>[1] < <<j, i>>[2]
      BY <1>2, <3>1
    <3> QED
      BY <3>1, Zenon DEF OpToRel
  <2>2. \A j \in left : ~(j < i)
    BY <1>2, <1>3, <2>1, Zenon
  <2> QED
    BY <1>2, <2>2
<1>5. (CHOOSE k \in left : \A j \in left : k <= j) \in left
  BY <1>4, Zenon
<1> QED
  BY <1>5, Zenon DEF Sources

LEMMA InspectStep ==
  ASSUME Inv, NEW w \in Workers, Inspect(w)
  PROVE  Inv'
<1> DEFINE c == work[w]
           candidates == Candidates[c.image]
           open == {i \in DOMAIN candidates : Opens(candidates[i], c.auths)}
           Answers(left) == IF left = {} THEN {Failed}
                            ELSE LET first == CHOOSE i \in left : \A j \in left : i <= j
                                 IN  Inspected(content[candidates[first]])
<1>1. PICK down \in SUBSET open : \E answer \in Answers(open \ down) :
        work' = [work EXCEPT ![w] = IF answer.kind = "archs" /\ ~work[w].skipCache
                                    THEN [@ EXCEPT !.pc = "add", !.answer = answer]
                                    ELSE Finished(@, answer)]
  BY Zenon DEF Inspect
<1> DEFINE left == open \ down
<1>2. PICK answer \in Answers(left) :
        work' = [work EXCEPT ![w] = IF answer.kind = "archs" /\ ~work[w].skipCache
                                    THEN [@ EXCEPT !.pc = "add", !.answer = answer]
                                    ELSE Finished(@, answer)]
  BY <1>1, Zenon
<1>3. UNCHANGED <<content, syncer, globalPullSecret, imageRefsCache, late>>
  BY Zenon DEF Inspect, worldVars, syncVars
<1>4. c.pc = "inspect"
  BY Zenon DEF Inspect
<1>5. CallOK(c, content)
  BY <1>4 DEF Inv, Calls, InFlight
<1>6. left \subseteq DOMAIN candidates
  OBVIOUS
<1>7. c.image \in Images /\ DOMAIN c = Fields
  BY <1>5, Zenon DEF CallOK
<1> HIDE DEF open, left
<1>8. answer.kind = "archs" /\ c.skipCache => \E m \in c.served : answer \in Inspected(m)
  <2>1. SUFFICES ASSUME answer.kind = "archs", c.skipCache
                 PROVE  \E m \in c.served : answer \in Inspected(m)
    OBVIOUS
  <2>2. left # {}
    BY <1>2, <2>1 DEF Failed
  <2> DEFINE repo == candidates[CHOOSE i \in left : \A j \in left : i <= j]
  <2>3. answer \in Inspected(content[repo])
    BY <1>2, <2>2, Zenon
  <2>4. repo \in Sources(c.image)
    BY <1>6, <1>7, <2>2, FirstIsSource
  <2> HIDE DEF repo
  <2>5. content[repo] \in c.served
    BY <1>5, <2>1, <2>4, Zenon DEF CallOK, Fresh
  <2> QED
    BY <2>3, <2>5
<1> HIDE DEF Answers
<1>9. CASE answer.kind = "archs" /\ ~c.skipCache
  <2> DEFINE d == [c EXCEPT !.pc = "add", !.answer = answer]
  <2>1. work' = [work EXCEPT ![w] = d]
    BY <1>2, <1>9, Zenon
  <2>2. /\ DOMAIN d = Fields /\ d.pc = "add" /\ d.image = c.image /\ d.secrets = c.secrets
        /\ d.skipCache = c.skipCache /\ d.key = c.key /\ d.secret = c.secret
        /\ d.source = c.source /\ d.served = c.served
    BY <1>7 DEF Fields, DoneFields
  <2> HIDE DEF d
  <2>3. d.pc \in InFlight
    BY <2>2 DEF InFlight
  <2>4. CallOK(d, content)
    BY <1>5, <1>9, <2>2, Zenon DEF CallOK
  <2>5. Calls'
    BY <1>3, <2>1, <2>3, <2>4, OneCall, Zenon DEF Inv
  <2>6. work'[w] = d /\ \A v \in Workers \ {w} : work'[v] = work[v]
    BY <2>1 DEF Inv, Calls
  <2>7. Staleness'
    BY <1>3, <1>4, <2>2, <2>6, StalenessKept DEF StaleCall
  <2> QED
    BY <1>3, <2>5, <2>7 DEF Inv, Entries
<1>10. CASE ~(answer.kind = "archs" /\ ~c.skipCache)
  <2> DEFINE d == Finished(c, answer)
  <2>1. work' = [work EXCEPT ![w] = d]
    BY <1>2, <1>10, Zenon
  <2>2. d.pc = "done"
    BY FinishedFields
  <2>3. DoneOK(d)
    BY <1>5, <1>8, FinishedOK
  <2> HIDE DEF d
  <2>4. Calls'
    BY <1>3, <2>1, <2>2, <2>3, OneCall, Zenon DEF Inv
  <2>5. work'[w] = d /\ \A v \in Workers \ {w} : work'[v] = work[v]
    BY <2>1 DEF Inv, Calls
  <2>6. Staleness'
    BY <1>3, <2>2, <2>5, StalenessKept DEF StaleCall
  <2> QED
    BY <1>3, <2>4, <2>6 DEF Inv, Entries
<1> QED
  BY <1>9, <1>10, Zenon

LEMMA FailsStep ==
  ASSUME Inv, NEW w \in Workers, InspectionFails(w)
  PROVE  Inv'
<1> DEFINE c == work[w]
           d == Finished(c, Failed)
<1>1. work' = [work EXCEPT ![w] = d]
  BY Zenon DEF InspectionFails
<1>2. UNCHANGED <<content, syncer, globalPullSecret, imageRefsCache, late>>
  BY DEF InspectionFails, worldVars, syncVars
<1>3. c.pc \in {"secret", "inspect"}
  BY Zenon DEF InspectionFails
<1>4. CallOK(c, content)
  BY <1>3 DEF Inv, Calls, InFlight
<1>5. d.pc = "done"
  BY FinishedFields
<1>6. Failed.kind # "archs"
  BY DEF Failed
<1>7. DoneOK(d)
  BY <1>4, <1>6, FinishedOK
<1> HIDE DEF d
<1>8. Calls'
  BY <1>1, <1>2, <1>5, <1>7, OneCall, Zenon DEF Inv
<1>9. work'[w] = d /\ \A v \in Workers \ {w} : work'[v] = work[v]
  BY <1>1 DEF Inv, Calls
<1>10. Staleness'
  BY <1>2, <1>5, <1>9, StalenessKept DEF StaleCall
<1> QED
  BY <1>2, <1>8, <1>10 DEF Inv, Entries

\* The answer of a call that was late becomes the one stale entry of its worker.
LEMMA AddStep ==
  ASSUME Inv, NEW w \in Workers, Add(w)
  PROVE  Inv'
<1> DEFINE c == work[w]
           d == Finished(c, c.answer)
           new == [key |-> c.key, archs |-> c.answer.archs, secret |-> c.secret,
                   source |-> c.source, by |-> w]
<1>1. work' = [work EXCEPT ![w] = d]
  BY Zenon DEF Add
<1>2. PICK others \in Evict({e \in imageRefsCache : e.key # c.key}) :
        imageRefsCache' = others \cup {new}
  BY Zenon DEF Add
<1>3. others \subseteq imageRefsCache
  BY DEF Evict
<1>4. UNCHANGED <<content, syncer, globalPullSecret, late>>
  BY DEF Add, worldVars, syncVars
<1>5. c.pc = "add"
  BY DEF Add
<1>6. CallOK(c, content)
  BY <1>5 DEF Inv, Calls, InFlight
<1>7. d.pc = "done"
  BY FinishedFields
<1>8. ~c.skipCache
  BY <1>5, <1>6, Zenon DEF CallOK
<1>9. DoneOK(d)
  BY <1>6, <1>8, FinishedOK
<1>10. KeyOf(c.key, c.source.image, c.source.secrets)
  BY <1>6, Zenon DEF CallOK
<1>11. new.key = c.key /\ new.secret = c.secret /\ new.source = c.source /\ new.by = w
  OBVIOUS
<1> HIDE DEF d, new
<1>12. Calls'
  BY <1>1, <1>4, <1>7, <1>9, OneCall, Zenon DEF Inv
<1>13. work'[w] = d /\ \A v \in Workers \ {w} : work'[v] = work[v]
  BY <1>1 DEF Inv, Calls
<1>14. Entries' /\ \A e \in imageRefsCache' : e.by \in Workers
  BY <1>2, <1>3, <1>10, <1>11 DEF Inv, Entries
<1>15. Staleness'
  <2>1. SUFFICES ASSUME syncer' = "idle"
                 PROVE  Staleness'
    BY DEF Staleness
  <2>2. /\ \A e \in StaleEntries : e.by \in late /\ ~StaleCall(work[e.by])
        /\ \A a, e \in StaleEntries : a.by = e.by => a = e
        /\ \A v \in Workers : StaleCall(work[v]) => v \in late
    BY <1>4, <2>1 DEF Inv, Staleness
  <2>3. StaleEntries' \subseteq StaleEntries \cup {new}
    BY <1>2, <1>3, <1>4 DEF StaleEntries
  <2>4. new \in StaleEntries' => StaleCall(c)
    BY <1>4, <1>5, <1>11 DEF StaleEntries, StaleCall
  <2>5. \A v \in Workers : StaleCall(work[v])' => StaleCall(work[v])
    BY <1>4, <1>7, <1>13 DEF StaleCall
  <2>6. ~StaleCall(work[w])'
    BY <1>7, <1>13 DEF StaleCall
  <2>7. ASSUME NEW e \in StaleEntries'
        PROVE  e.by \in late' /\ ~StaleCall(work[e.by])'
    <3>1. CASE e = new
      BY <1>4, <1>11, <2>2, <2>4, <2>6, <2>7, <3>1
    <3>2. CASE e \in StaleEntries
      <4>1. e.by \in Workers
        BY <3>2 DEF StaleEntries, Inv
      <4> QED
        BY <1>4, <2>2, <2>5, <3>2, <4>1
    <3> QED
      BY <2>3, <2>7, <3>1, <3>2
  <2>8. ASSUME NEW a \in StaleEntries', NEW e \in StaleEntries', a.by = e.by
        PROVE  a = e
    <3>1. CASE a \in StaleEntries /\ e \in StaleEntries
      BY <2>2, <2>8, <3>1
    <3>2. CASE a = new /\ e # new
      BY <1>11, <2>2, <2>3, <2>4, <2>8, <3>2
    <3>3. CASE a # new /\ e = new
      BY <1>11, <2>2, <2>3, <2>4, <2>8, <3>3
    <3> QED
      BY <2>3, <3>1, <3>2, <3>3
  <2>9. \A v \in Workers : StaleCall(work[v])' => v \in late'
    BY <1>4, <2>2, <2>5
  <2> QED
    BY <2>7, <2>8, <2>9, Zenon DEF Staleness
<1> QED
  BY <1>4, <1>12, <1>14, <1>15 DEF Inv

LEMMA ReturnStep ==
  ASSUME Inv, NEW w \in Workers, Return(w)
  PROVE  Inv'
<1>1. work' = [work EXCEPT ![w] = NoCall] /\ NoCall.pc = "idle"
  BY DEF Return, NoCall
<1>2. UNCHANGED <<content, syncer, globalPullSecret, imageRefsCache, late>>
  BY DEF Return, worldVars, syncVars
<1>3. Calls'
  BY <1>1, <1>2, OneCall, Zenon DEF Inv
<1>4. work'[w] = NoCall /\ \A v \in Workers \ {w} : work'[v] = work[v]
  BY <1>1 DEF Inv, Calls
<1>5. Staleness'
  BY <1>1, <1>2, <1>4, StalenessKept DEF StaleCall
<1> QED
  BY <1>2, <1>3, <1>5 DEF Inv, Entries

\* A manifest that is pushed is served to the calls that bypass the cache.
LEMMA PushStep ==
  ASSUME Inv, NEW repo \in Repos, Push(repo)
  PROVE  Inv'
<1>1. PICK m : /\ content' = [content EXCEPT ![repo] = m]
               /\ work' = [w \in Workers |->
                    IF work[w].pc # "idle" /\ work[w].skipCache /\ repo \in Sources(work[w].image)
                    THEN [work[w] EXCEPT !.served = @ \cup {m}] ELSE work[w]]
  BY Zenon DEF Push
<1>2. UNCHANGED <<syncer, globalPullSecret, imageRefsCache, late>>
  BY DEF Push, syncVars
<1>3. /\ DOMAIN content' = Repos /\ content'[repo] = m
      /\ \A r \in Repos \ {repo} : content'[r] = content[r]
  BY <1>1 DEF Inv
<1>4. \A image \in Images : Sources(image) \subseteq Repos
  BY InspectionAssumption DEF Sources
<1>5. ASSUME NEW w \in Workers
      PROVE  /\ work'[w].pc = work[w].pc
             /\ work[w].pc \in {"inspect", "add"} => work'[w].secret = work[w].secret
             /\ \/ work'[w].pc = "idle"
                \/ work'[w].pc \in InFlight /\ CallOK(work'[w], content')
                \/ work'[w].pc = "done" /\ DoneOK(work'[w])
  <2> DEFINE c == work[w]
             d == [c EXCEPT !.served = c.served \cup {m}]
  <2>1. \/ c.pc = "idle"
        \/ c.pc \in InFlight /\ CallOK(c, content)
        \/ c.pc = "done" /\ DoneOK(c)
    BY DEF Inv, Calls
  <2>2. CASE c.pc # "idle" /\ c.skipCache /\ repo \in Sources(c.image)
    <3>1. work'[w] = d
      BY <1>1, <2>2, Zenon
    <3>2. CASE c.pc \in InFlight /\ CallOK(c, content)
      <4>1. DOMAIN c = Fields
        BY <3>2, Zenon DEF CallOK
      <4>2. /\ DOMAIN d = Fields /\ d.pc = c.pc /\ d.image = c.image /\ d.secrets = c.secrets
            /\ d.skipCache = c.skipCache /\ d.key = c.key /\ d.secret = c.secret
            /\ d.source = c.source /\ d.served = c.served \cup {m}
        BY <4>1 DEF Fields, DoneFields
      <4> HIDE DEF d
      <4>3. c.image \in Images /\ Fresh(c, content)
        BY <2>2, <3>2, Zenon DEF CallOK
      <4>4. Fresh(d, content')
        BY <1>3, <1>4, <4>2, <4>3 DEF Fresh
      <4>5. CallOK(d, content')
        BY <3>2, <4>2, <4>4, Zenon DEF CallOK
      <4> QED
        BY <3>1, <3>2, <4>2, <4>5, Zenon
    <3>3. CASE c.pc = "done" /\ DoneOK(c)
      <4>1. DOMAIN c = DoneFields
        BY <3>3, Zenon DEF DoneOK
      <4>2. /\ DOMAIN d = DoneFields /\ d.pc = c.pc /\ d.image = c.image /\ d.secrets = c.secrets
            /\ d.skipCache = c.skipCache /\ d.answer = c.answer
            /\ d.source = c.source /\ d.served = c.served \cup {m}
        BY <4>1 DEF DoneFields
      <4> HIDE DEF d
      <4>3. \A n \in c.served : n \in d.served
        BY <4>2
      <4>4. DoneOK(d)
        BY <3>3, <4>2, <4>3, Zenon DEF DoneOK, Own
      <4>5. c.pc \notin {"inspect", "add"}
        BY <3>3
      <4> QED
        BY <3>1, <3>3, <4>2, <4>4, <4>5, Zenon
    <3> QED
      BY <2>1, <2>2, <3>2, <3>3, Zenon
  <2>3. CASE ~(c.pc # "idle" /\ c.skipCache /\ repo \in Sources(c.image))
    <3>1. work'[w] = c
      BY <1>1, <2>3, Zenon
    <3>2. ASSUME c.pc \in InFlight, CallOK(c, content)
          PROVE  CallOK(c, content')
      <4>1. c.image \in Images
        BY <3>2, Zenon DEF CallOK
      <4>2. c.pc # "idle"
        BY <3>2 DEF InFlight
      <4>3. c.skipCache => repo \notin Sources(c.image)
        BY <2>3, <4>2, Zenon
      <4>4. repo \notin Sources(c.image) /\ Fresh(c, content) => Fresh(c, content')
        BY <1>3, <1>4, <4>1 DEF Fresh
      <4> QED
        BY <3>2, <4>3, <4>4, Zenon DEF CallOK
    <3> QED
      BY <2>1, <3>1, <3>2, Zenon
  <2> QED
    BY <2>2, <2>3, Zenon
<1>6. DOMAIN work' = Workers
  BY <1>1
<1>7. Calls'
  BY <1>5, <1>6, Zenon DEF Calls
<1>8. \A w \in Workers : StaleCall(work[w])' => StaleCall(work[w])
  BY <1>2, <1>5 DEF StaleCall
<1>9. Staleness'
  BY <1>2, <1>8, StalenessKept
<1> QED
  BY <1>2, <1>3, <1>7, <1>9 DEF Inv, Entries

\* The syncer: between its two calls nothing is said of the answers, and after the
\* second the calls in flight are the late ones.
LEMMA SyncerStep ==
  ASSUME Inv, onAddOrUpdate \/ clearCache
  PROVE  Inv'
<1>1. UNCHANGED <<content, work>>
  BY DEF onAddOrUpdate, clearCache, worldVars
<1>2. Calls' /\ (DOMAIN content = Repos)'
  BY <1>1 DEF Inv, Calls
<1>3. imageRefsCache' \subseteq imageRefsCache
  BY DEF onAddOrUpdate, clearCache
<1>4. Entries' /\ \A e \in imageRefsCache' : e.by \in Workers
  BY <1>3 DEF Inv, Entries
<1>5. Staleness'
  <2>1. CASE onAddOrUpdate
    <3>1. CASE UNCHANGED <<syncer, globalPullSecret>>
      BY <1>1, <2>1, <3>1, StalenessKept DEF onAddOrUpdate, StaleCall
    <3>2. CASE syncer' = "stored"
      BY <3>2 DEF Staleness
    <3> QED
      BY <2>1, <3>1, <3>2 DEF onAddOrUpdate
  <2>2. CASE clearCache
    <3>1. StaleEntries' = {}
      BY <2>2 DEF clearCache, StaleEntries
    <3>2. \A w \in Workers : StaleCall(work[w])' => w \in late'
      BY <2>2 DEF clearCache, StaleCall
    <3> QED
      BY <3>1, <3>2 DEF Staleness
  <2> QED
    BY <2>1, <2>2
<1> QED
  BY <1>2, <1>4, <1>5 DEF Inv

LEMMA InvStep == Inv /\ [Next]_vars => Inv'
<1>1. SUFFICES ASSUME Inv, [Next]_vars
               PROVE  Inv'
  OBVIOUS
<1>2. ASSUME UNCHANGED <<content, work, syncer, globalPullSecret, late>>,
             imageRefsCache' \subseteq imageRefsCache
      PROVE  Inv'
  <2>1. Calls' /\ (DOMAIN content = Repos)'
    BY <1>1, <1>2 DEF Inv, Calls
  <2>2. Entries' /\ \A e \in imageRefsCache' : e.by \in Workers
    BY <1>1, <1>2 DEF Inv, Entries
  <2>3. Staleness'
    BY <1>1, <1>2, StalenessKept DEF StaleCall
  <2> QED
    BY <2>1, <2>2, <2>3 DEF Inv
<1>3. ASSUME NEW repo \in Repos, Rotate(repo)
      PROVE  Inv'
  BY <1>2, <1>3 DEF Rotate, syncVars
<1>4. ASSUME WriteSecret
      PROVE  Inv'
  BY <1>2, <1>4 DEF WriteSecret
<1>5. ASSUME Expire
      PROVE  Inv'
  BY <1>2, <1>5 DEF Expire, worldVars, syncVars
<1>6. ASSUME Restart
      PROVE  Inv'
  <2>1. /\ UNCHANGED content /\ imageRefsCache' = {} /\ work' = [w \in Workers |-> NoCall]
        /\ NoCall.pc = "idle"
    BY <1>6 DEF Restart, worldVars, NoCall
  <2>2. Calls' /\ Entries'
    BY <2>1 DEF Calls, Entries
  <2>3. Staleness'
    BY <2>1 DEF Staleness, StaleEntries, StaleCall
  <2> QED
    BY <1>1, <2>1, <2>2, <2>3 DEF Inv
<1>7. ASSUME UNCHANGED vars
      PROVE  Inv'
  BY <1>2, <1>7 DEF vars, worldVars, syncVars
<1> QED
  BY <1>1, <1>3, <1>4, <1>5, <1>6, <1>7, SyncerStep, LookupStep, ReadStep, InspectStep, FailsStep,
     AddStep, ReturnStep, PushStep DEF Next

LEMMA InvHolds == Spec => []Inv
<1>1. Init => Inv
  <2>1. SUFFICES ASSUME Init
                 PROVE  Inv
    OBVIOUS
  <2>2. /\ content = FirstContent /\ imageRefsCache = {} /\ work = [w \in Workers |-> NoCall]
        /\ NoCall.pc = "idle"
    BY <2>1 DEF Init, NoCall
  <2>3. DOMAIN content = Repos
    BY <2>2, InspectionAssumption DEF Choices
  <2>4. Calls /\ Entries
    BY <2>2 DEF Calls, Entries
  <2>5. Staleness
    BY <2>2 DEF Staleness, StaleEntries, StaleCall
  <2> QED
    BY <2>2, <2>3, <2>4, <2>5 DEF Inv
<1> QED
  BY <1>1, InvStep, PTL DEF Spec

-----------------------------------------------------------------------------
\* Once the syncer has purged the cache, the answers of the last global pull secret
\* are at most one for each reconcile that had read it by then
\* (facade.go:42-45, cache.go:56-64).
THEOREM StalenessTheorem == Spec => []OnlyLateAnswersAreStale
<1>1. Inv => OnlyLateAnswersAreStale
  BY DEF Inv, Staleness, StaleEntries, OnlyLateAnswersAreStale
<1> QED
  BY <1>1, InvHolds, PTL

\* A pod gets answers to its own image, obtained with pull secrets that its own could
\* stand for, whatever the cache holds (cache.go:44-55 and 85-91).
THEOREM OwnTheorem == Spec => []AnswersAreOwn
<1>1. Inv => AnswersAreOwn
  <2>1. SUFFICES ASSUME Inv, NEW w \in Workers, work[w].pc = "done", work[w].answer.kind = "archs"
                 PROVE  Own(work[w])
    BY Zenon DEF AnswersAreOwn, Own
  <2>2. DoneOK(work[w])
    BY <2>1 DEF Inv, Calls, InFlight
  <2> QED
    BY <2>1, <2>2, Zenon DEF DoneOK
<1> QED
  BY <1>1, InvHolds, PTL

\* A container with imagePullPolicy Always is placed by a manifest that the registry
\* served while its pod was reconciled (pod_model.go:350, cache.go:51).
THEOREM FreshTheorem == Spec => []AlwaysIsFresh
<1>1. Inv => AlwaysIsFresh
  <2>1. SUFFICES ASSUME Inv, NEW w \in Workers, work[w].pc = "done", work[w].skipCache,
                        work[w].answer.kind = "archs"
                 PROVE  \E m \in work[w].served : work[w].answer \in Inspected(m)
    BY Zenon DEF AlwaysIsFresh
  <2>2. DoneOK(work[w])
    BY <2>1 DEF Inv, Calls, InFlight
  <2> QED
    BY <2>1, <2>2, Zenon DEF DoneOK
<1> QED
  BY <1>1, InvHolds, PTL

-----------------------------------------------------------------------------
(***************************************************************************)
(* The types of the variables.  The cache is typed by the calls that fill  *)
(* it, the calls by the registry and by the entries they find, and the     *)
(* secret of the inspector by that of the API server: the syncer has an    *)
(* event only while the secret exists.                                     *)
(***************************************************************************)

Secrets == GlobalSecrets \cup {Unparsable}

AnswerTyped(a) == a.kind \in {"none", "archs", "error", "panic"} /\ a.archs \subseteq Reported

CallTyped(c) ==
    /\ c.pc \in InFlight => c.key \in Keys /\ c.secret \in Secrets
    /\ c.source \in Source /\ AnswerTyped(c.answer)

WorldTyped ==
    /\ content \in Choices(Manifests) /\ accepted \in Choices(Accepted)
    /\ apiSecret \in GlobalSecrets \cup {Absent}

SyncTyped ==
    /\ notified \in BOOLEAN /\ (notified => apiSecret # Absent)
    /\ syncer \in {"idle", "stored"} /\ globalPullSecret \in Secrets
    /\ late \subseteq Workers

CacheTyped ==
    /\ imageRefsCache \subseteq Entry
    /\ IsFiniteSet(imageRefsCache) /\ Cardinality(imageRefsCache) <= CacheSize
    /\ \A d, e \in imageRefsCache : d.key = e.key => d = e

CallsTyped == \A w \in Workers : work[w].pc # "idle" => CallTyped(work[w])

Bounded == changes \in 0 .. MaxChanges /\ faults \in 0 .. MaxFaults

Typed == WorldTyped /\ SyncTyped /\ CacheTyped /\ CallsTyped /\ Bounded

-----------------------------------------------------------------------------
\* The registry, the API server and the syncer.

LEMMA ChoiceChanged ==
  ASSUME NEW sets, NEW f \in Choices(sets), NEW r \in Repos, NEW x \in sets[r]
  PROVE  [f EXCEPT ![r] = x] \in Choices(sets)
BY DEF Choices

LEMMA WorldStep ==
  ASSUME WorldTyped, Next
  PROVE  WorldTyped'
<1>1. ASSUME NEW repo \in Repos, Push(repo)
      PROVE  WorldTyped'
  <2>1. PICK m \in Manifests[repo] : content' = [content EXCEPT ![repo] = m]
    BY <1>1, Zenon DEF Push
  <2>2. UNCHANGED <<accepted, apiSecret>>
    BY <1>1, Zenon DEF Push
  <2>3. content' \in Choices(Manifests)
    BY <2>1, ChoiceChanged DEF WorldTyped
  <2> QED
    BY <2>2, <2>3, Zenon DEF WorldTyped
<1>2. ASSUME NEW repo \in Repos, Rotate(repo)
      PROVE  WorldTyped'
  <2>1. PICK creds \in Accepted[repo] : accepted' = [accepted EXCEPT ![repo] = creds]
    BY <1>2, Zenon DEF Rotate
  <2>2. UNCHANGED <<content, apiSecret>>
    BY <1>2, Zenon DEF Rotate
  <2>3. accepted' \in Choices(Accepted)
    BY <2>1, ChoiceChanged DEF WorldTyped
  <2> QED
    BY <2>2, <2>3, Zenon DEF WorldTyped
<1>3. CASE WriteSecret
  BY <1>3, Zenon DEF WriteSecret, WorldTyped
<1>4. CASE UNCHANGED worldVars
  BY <1>4, Zenon DEF worldVars, WorldTyped
<1>5. ASSUME NEW w \in Workers,
             \/ Lookup(w) \/ ReadGlobalPullSecret(w) \/ Inspect(w) \/ InspectionFails(w)
             \/ Add(w) \/ Return(w)
      PROVE  UNCHANGED worldVars
  BY <1>5, Zenon DEF Lookup, ReadGlobalPullSecret, Inspect, InspectionFails, Add, Return
<1>6. onAddOrUpdate \/ clearCache \/ Expire \/ Restart => UNCHANGED worldVars
  BY Zenon DEF onAddOrUpdate, clearCache, Expire, Restart
<1> QED
  BY <1>1, <1>2, <1>3, <1>4, <1>5, <1>6, Zenon DEF Next

LEMMA SyncStep ==
  ASSUME WorldTyped, SyncTyped, Next
  PROVE  SyncTyped'
<1>1. CASE onAddOrUpdate
  <2>1. apiSecret \in GlobalSecrets
    BY <1>1, Zenon DEF onAddOrUpdate, WorldTyped, SyncTyped
  <2>2. /\ notified' = FALSE /\ UNCHANGED <<apiSecret, late>>
        /\ \/ UNCHANGED <<syncer, globalPullSecret>>
           \/ syncer' = "stored" /\ globalPullSecret' = apiSecret
    BY <1>1, Zenon DEF onAddOrUpdate, worldVars
  <2>3. syncer' \in {"idle", "stored"} /\ globalPullSecret' \in Secrets
    BY <2>1, <2>2, Zenon DEF SyncTyped, Secrets
  <2> QED
    BY <2>2, <2>3, Zenon DEF SyncTyped
<1>2. CASE clearCache
  <2>1. /\ syncer' = "idle" /\ UNCHANGED <<apiSecret, notified, globalPullSecret>>
        /\ late' = {w \in Workers : work[w].pc \in {"inspect", "add"}}
    BY <1>2, Zenon DEF clearCache, worldVars
  <2>2. late' \subseteq Workers
    BY <2>1
  <2> QED
    BY <2>1, <2>2, Zenon DEF SyncTyped
<1>3. CASE WriteSecret
  BY <1>3, Zenon DEF WriteSecret, SyncTyped
<1>4. CASE Restart
  <2>1. /\ notified' = (apiSecret # Absent) /\ syncer' = "idle" /\ globalPullSecret' = Unparsable
        /\ late' = {} /\ UNCHANGED apiSecret
    BY <1>4, Zenon DEF Restart, worldVars
  <2>2. late' \subseteq Workers
    BY <2>1
  <2> QED
    BY <2>1, <2>2, Zenon DEF SyncTyped, Secrets
<1>5. CASE UNCHANGED <<apiSecret, syncVars, late>>
  BY <1>5, Zenon DEF syncVars, SyncTyped
<1>6. ASSUME NEW w \in Workers,
             \/ Lookup(w) \/ ReadGlobalPullSecret(w) \/ Inspect(w) \/ InspectionFails(w)
             \/ Add(w) \/ Return(w)
      PROVE  UNCHANGED <<apiSecret, syncVars, late>>
  BY <1>6, Zenon DEF Lookup, ReadGlobalPullSecret, Inspect, InspectionFails, Add, Return, worldVars
<1>7. ASSUME NEW repo \in Repos, Push(repo) \/ Rotate(repo)
      PROVE  UNCHANGED <<apiSecret, syncVars, late>>
  BY <1>7, Zenon DEF Push, Rotate
<1>8. Expire => UNCHANGED <<apiSecret, syncVars, late>>
  BY Zenon DEF Expire, worldVars
<1> QED
  BY <1>1, <1>2, <1>3, <1>4, <1>5, <1>6, <1>7, <1>8, Zenon DEF Next

LEMMA BoundedStep ==
  ASSUME Inv, Bounded, Next
  PROVE  Bounded'
<1>1. CASE Change \/ Fault \/ UNCHANGED bounds
  BY <1>1, InspectionAssumption DEF Change, Fault, bounds, Bounded
<1>2. ASSUME NEW w \in Workers, Inspect(w)
      PROVE  Bounded'
  <2> DEFINE candidates == Candidates[work[w].image]
             open == {i \in DOMAIN candidates : Opens(candidates[i], work[w].auths)}
  <2>1. PICK down \in SUBSET open : /\ faults + Cardinality(down) <= MaxFaults
                                    /\ faults' = faults + Cardinality(down)
    BY <1>2, Zenon DEF Inspect
  <2>2. UNCHANGED changes /\ work[w].pc = "inspect"
    BY <1>2, Zenon DEF Inspect
  <2>3. CallOK(work[w], content)
    BY <2>2 DEF Inv, Calls, InFlight
  <2>4. work[w].image \in Images
    BY <2>3, Zenon DEF CallOK
  <2>5. candidates \in Seq(Repos)
    BY <2>4, InspectionAssumption
  <2>6. DOMAIN candidates = 1 .. Len(candidates) /\ Len(candidates) \in Nat
    BY <2>5
  <2>7. IsFiniteSet(DOMAIN candidates)
    BY <2>6, FS_Interval
  <2>8. down \in SUBSET (DOMAIN candidates)
    BY <2>1
  <2>9. Cardinality(down) \in Nat
    BY <2>7, <2>8, FS_Subset, FS_CardinalityType
  <2> QED
    BY <2>1, <2>2, <2>9, InspectionAssumption DEF Bounded
<1>3. ASSUME NEW w \in Workers,
             Lookup(w) \/ ReadGlobalPullSecret(w) \/ InspectionFails(w) \/ Add(w) \/ Return(w)
      PROVE  Change \/ Fault \/ UNCHANGED bounds
  BY <1>3, Zenon DEF Lookup, ReadGlobalPullSecret, InspectionFails, Add, Return
<1>4. ASSUME NEW repo \in Repos, Push(repo) \/ Rotate(repo)
      PROVE  Change
  BY <1>4, Zenon DEF Push, Rotate
<1>5. onAddOrUpdate \/ clearCache \/ WriteSecret \/ Expire \/ Restart => Change \/ Fault \/ UNCHANGED bounds
  BY Zenon DEF onAddOrUpdate, clearCache, WriteSecret, Expire, Restart
<1> QED
  BY <1>1, <1>2, <1>3, <1>4, <1>5, Zenon DEF Next

-----------------------------------------------------------------------------
\* The answers of the registry.

LEMMA ConstantAnswers == AnswerTyped(NoAnswer) /\ AnswerTyped(Failed) /\ AnswerTyped(Panic)
BY DEF AnswerTyped, NoAnswer, Failed, Panic

LEMMA ArchsTyped ==
  ASSUME NEW set, set \subseteq Reported
  PROVE  AnswerTyped(Archs(set))
BY DEF AnswerTyped, Archs

LEMMA CompatibleTyped ==
  ASSUME NEW config, NEW set, set \subseteq Reported
  PROVE  AnswerTyped(Compatible(config, set))
<1>1. Supported \subseteq Reported
  BY InspectionAssumption DEF Reported
<1>2. CASE config.bundle
  BY <1>1, <1>2, ArchsTyped, Zenon DEF Compatible
<1>3. CASE ~config.bundle
  BY <1>3, ArchsTyped, Zenon DEF Compatible
<1> QED
  BY <1>2, <1>3

LEMMA InspectedTyped ==
  ASSUME NEW r \in Repos, NEW m \in Manifests[r], NEW a \in Inspected(m)
  PROVE  AnswerTyped(a)
<1>1. CASE m.index
  <2> DEFINE entries == m.entries
             runnable == {i \in DOMAIN entries : Runnable(entries[i])}
             first == CHOOSE i \in runnable : \A j \in runnable : i <= j
             archs == {entries[i].arch : i \in runnable}
  <2>1. \/ a = Panic \/ a = Failed \/ a = Compatible(entries[first], archs)
        \/ \E i \in DOMAIN entries : a = Compatible(entries[i], {})
    BY <1>1, Zenon DEF Inspected, InspectedIndex
  <2>2. archs \subseteq Reported
    BY DEF Runnable, Reported
  <2>3. {} \subseteq Reported
    OBVIOUS
  <2> HIDE DEF entries, first, archs
  <2> QED
    BY <2>1, <2>2, <2>3, ConstantAnswers, CompatibleTyped, Zenon
<1>2. CASE ~m.index
  <2>1. a = Compatible(m.entries[1], {m.entries[1].arch})
    BY <1>2, Zenon DEF Inspected
  <2>2. m.entries[1].arch \in Reported
    BY <1>2, Zenon DEF Reported
  <2>3. {m.entries[1].arch} \subseteq Reported
    BY <2>2
  <2> QED
    BY <2>1, <2>3, CompatibleTyped, Zenon
<1> QED
  BY <1>1, <1>2

\* What the registry serves is one of the manifests of the repository.
LEMMA ServedTyped ==
  ASSUME WorldTyped, NEW r \in Repos, NEW a \in Inspected(content[r])
  PROVE  AnswerTyped(a)
<1>1. content[r] \in Manifests[r]
  BY DEF WorldTyped, Choices
<1> QED
  BY <1>1, InspectedTyped

-----------------------------------------------------------------------------
\* The calls.

LEMMA OneCallTyped ==
  ASSUME Calls, CallsTyped, NEW w \in Workers, NEW c, work' = [work EXCEPT ![w] = c],
         c.pc = "idle" \/ CallTyped(c)
  PROVE  CallsTyped'
<1>1. work'[w] = c /\ \A v \in Workers \ {w} : work'[v] = work[v]
  BY DEF Calls
<1>2. ASSUME NEW v \in Workers, work'[v].pc # "idle"
      PROVE  CallTyped(work'[v])
  <2>1. CASE v = w
    BY <1>1, <1>2, <2>1, Zenon
  <2>2. CASE v # w
    <3>1. work'[v] = work[v]
      BY <1>1, <2>2
    <3> QED
      BY <1>2, <3>1, Zenon DEF CallsTyped
  <2> QED
    BY <2>1, <2>2
<1> QED
  BY <1>2, Zenon DEF CallsTyped, CallTyped, AnswerTyped

LEMMA FinishedTyped ==
  ASSUME NEW c, c.source \in Source, NEW answer, AnswerTyped(answer)
  PROVE  CallTyped(Finished(c, answer)) /\ Finished(c, answer).pc = "done"
<1> DEFINE f == Finished(c, answer)
<1>1. f.pc = "done" /\ f.source = c.source /\ f.answer = answer
  BY FinishedFields
<1> HIDE DEF f
<1>2. f.pc \notin InFlight
  BY <1>1 DEF InFlight
<1>3. CallTyped(f) /\ f.pc = "done"
  BY <1>1, <1>2, Zenon DEF CallTyped
<1> QED
  BY <1>3 DEF f

\* The key that a container asks for.
LEMMA KeyTyped ==
  ASSUME NEW c \in Containers, NEW auths \in marshaledImagePullSecrets(c.image, c.secrets)
  PROVE  computeHash(c.image, auths) \in Keys
<1>1. computeHash(c.image, auths) \in [image : {c.image}, auths : marshaledImagePullSecrets(c.image, c.secrets)]
  BY DEF computeHash
<1> QED
  BY <1>1, Zenon DEF Keys

LEMMA LookupTyped ==
  ASSUME Inv, Typed, NEW w \in Workers, Lookup(w)
  PROVE  CallsTyped'
<1> DEFINE Key(c, auths) == computeHash(c.image, auths)
           Served(c) == IF c.skipCache THEN {content[r] : r \in Sources(c.image)} ELSE {}
           From(c) == [image |-> c.image, secrets |-> c.secrets]
           Call(c, auths) ==
             [pc |-> "secret", image |-> c.image, secrets |-> c.secrets,
              skipCache |-> c.skipCache, key |-> Key(c, auths), auths |-> auths,
              secret |-> Unparsable, answer |-> NoAnswer, source |-> From(c), served |-> Served(c)]
           Hit(c, auths) == CHOOSE e \in Hits(Key(c, auths), c.skipCache) : TRUE
           Found(c, auths) == [Finished(Call(c, auths), Archs(Hit(c, auths).archs))
                                 EXCEPT !.source = Hit(c, auths).source]
<1>1. PICK c \in Containers : \E auths \in marshaledImagePullSecrets(c.image, c.secrets) :
        work' = [work EXCEPT ![w] = IF Hits(Key(c, auths), c.skipCache) = {} THEN Call(c, auths)
                                    ELSE Found(c, auths)]
  BY Zenon DEF Lookup
<1>2. PICK auths \in marshaledImagePullSecrets(c.image, c.secrets) :
        work' = [work EXCEPT ![w] = IF Hits(Key(c, auths), c.skipCache) = {} THEN Call(c, auths)
                                    ELSE Found(c, auths)]
  BY <1>1, Zenon
<1>3. Key(c, auths) \in Keys
  BY KeyTyped
<1>4. From(c) \in Source
  BY Zenon DEF Source
<1> HIDE DEF Key, Served, From
<1> DEFINE call == Call(c, auths)
           hit == Hit(c, auths)
           found == [Finished(call, Archs(hit.archs)) EXCEPT !.source = hit.source]
<1>5. /\ call.pc = "secret" /\ call.key = Key(c, auths) /\ call.secret = Unparsable
      /\ call.answer = NoAnswer /\ call.source = From(c)
  BY Zenon
<1>6. work' = [work EXCEPT ![w] = IF Hits(Key(c, auths), c.skipCache) = {} THEN call ELSE found]
  BY <1>2, Zenon
<1> HIDE DEF call
<1>7. CallTyped(call)
  BY <1>3, <1>4, <1>5, ConstantAnswers, Zenon DEF CallTyped, Secrets
<1>8. ASSUME Hits(Key(c, auths), c.skipCache) # {}
      PROVE  CallTyped(found)
  <2>1. hit \in imageRefsCache
    BY <1>8, Zenon DEF Hits
  <2> HIDE DEF hit
  <2>2. hit \in Entry
    BY <2>1, Zenon DEF Typed, CacheTyped
  <2>3. hit.source \in Source /\ hit.archs \subseteq Reported
    BY <2>2 DEF Entry
  <2> DEFINE f == Finished(call, Archs(hit.archs))
  <2>4. DOMAIN f = DoneFields /\ f.pc = "done" /\ f.answer = Archs(hit.archs)
    BY FinishedFields
  <2> HIDE DEF f
  <2>5. found.pc = "done" /\ found.answer = Archs(hit.archs) /\ found.source = hit.source
    BY <2>4 DEF f, DoneFields
  <2> HIDE DEF found
  <2>6. found.pc \notin InFlight
    BY <2>5 DEF InFlight
  <2>7. AnswerTyped(found.answer)
    BY <2>3, <2>5, ArchsTyped
  <2> QED
    BY <2>3, <2>5, <2>6, <2>7, Zenon DEF CallTyped
<1> HIDE DEF found
<1>9. Calls /\ CallsTyped
  BY Zenon DEF Inv, Typed
<1>10. CASE Hits(Key(c, auths), c.skipCache) = {}
  <2>1. work' = [work EXCEPT ![w] = call]
    BY <1>6, <1>10, Zenon
  <2> QED
    BY <1>7, <1>9, <2>1, OneCallTyped
<1>11. CASE Hits(Key(c, auths), c.skipCache) # {}
  <2>1. work' = [work EXCEPT ![w] = found]
    BY <1>6, <1>11, Zenon
  <2> QED
    BY <1>8, <1>9, <1>11, <2>1, OneCallTyped
<1> QED
  BY <1>10, <1>11

LEMMA ReadTyped ==
  ASSUME Inv, Typed, NEW w \in Workers, ReadGlobalPullSecret(w)
  PROVE  CallsTyped'
<1> DEFINE c == work[w]
<1>1. PICK auths : work' = [work EXCEPT ![w] = [c EXCEPT !.pc = "inspect", !.auths = auths,
                                                        !.secret = globalPullSecret]]
  BY Zenon DEF ReadGlobalPullSecret
<1> DEFINE d == [c EXCEPT !.pc = "inspect", !.auths = auths, !.secret = globalPullSecret]
<1>2. c.pc = "secret" /\ CallOK(c, content)
  BY DEF ReadGlobalPullSecret, Inv, Calls, InFlight
<1>3. DOMAIN c = Fields
  BY <1>2, Zenon DEF CallOK
<1>4. /\ d.key = c.key /\ d.secret = globalPullSecret /\ d.source = c.source /\ d.answer = c.answer
  BY <1>3 DEF Fields, DoneFields
<1>5. c.pc # "idle" /\ c.pc \in InFlight
  BY <1>2 DEF InFlight
<1>6. CallTyped(c) /\ globalPullSecret \in Secrets /\ Calls /\ CallsTyped
  BY <1>5, Zenon DEF Typed, CallsTyped, SyncTyped, Inv
<1>7. work' = [work EXCEPT ![w] = d]
  BY <1>1, Zenon
<1> HIDE DEF d
<1>8. CallTyped(d)
  BY <1>4, <1>5, <1>6, Zenon DEF CallTyped
<1> QED
  BY <1>6, <1>7, <1>8, OneCallTyped

LEMMA InspectTyped ==
  ASSUME Inv, Typed, NEW w \in Workers, Inspect(w)
  PROVE  CallsTyped'
<1> DEFINE c == work[w]
           candidates == Candidates[c.image]
           open == {i \in DOMAIN candidates : Opens(candidates[i], c.auths)}
           Answers(left) == IF left = {} THEN {Failed}
                            ELSE LET first == CHOOSE i \in left : \A j \in left : i <= j
                                 IN  Inspected(content[candidates[first]])
<1>1. PICK down \in SUBSET open : \E answer \in Answers(open \ down) :
        work' = [work EXCEPT ![w] = IF answer.kind = "archs" /\ ~c.skipCache
                                    THEN [c EXCEPT !.pc = "add", !.answer = answer]
                                    ELSE Finished(c, answer)]
  BY Zenon DEF Inspect
<1> DEFINE left == open \ down
<1>2. PICK answer \in Answers(left) :
        work' = [work EXCEPT ![w] = IF answer.kind = "archs" /\ ~c.skipCache
                                    THEN [c EXCEPT !.pc = "add", !.answer = answer]
                                    ELSE Finished(c, answer)]
  BY <1>1, Zenon
<1>3. c.pc = "inspect"
  BY Zenon DEF Inspect
<1>4. CallOK(c, content)
  BY <1>3 DEF Inv, Calls, InFlight
<1>5. c.image \in Images /\ DOMAIN c = Fields
  BY <1>4, Zenon DEF CallOK
<1>6. left \subseteq DOMAIN candidates
  OBVIOUS
<1>7. c.pc # "idle" /\ c.pc \in InFlight
  BY <1>3 DEF InFlight
<1>8. CallTyped(c) /\ Calls /\ CallsTyped
  BY <1>7, Zenon DEF Typed, CallsTyped, Inv
<1> HIDE DEF open, left
<1>9. AnswerTyped(answer)
  <2>1. CASE left = {}
    BY <1>2, <2>1, ConstantAnswers, Zenon
  <2>2. CASE left # {}
    <3> DEFINE repo == candidates[CHOOSE i \in left : \A j \in left : i <= j]
    <3>1. answer \in Inspected(content[repo])
      BY <1>2, <2>2, Zenon
    <3>2. repo \in Sources(c.image)
      BY <1>5, <1>6, <2>2, FirstIsSource
    <3>3. Sources(c.image) \subseteq Repos
      BY <1>5, InspectionAssumption DEF Sources
    <3> HIDE DEF repo
    <3> QED
      BY <3>1, <3>2, <3>3, ServedTyped DEF Typed
  <2> QED
    BY <2>1, <2>2
<1> HIDE DEF Answers
<1>10. CASE answer.kind = "archs" /\ ~c.skipCache
  <2> DEFINE d == [c EXCEPT !.pc = "add", !.answer = answer]
  <2>1. work' = [work EXCEPT ![w] = d]
    BY <1>2, <1>10, Zenon
  <2>2. d.key = c.key /\ d.secret = c.secret /\ d.source = c.source /\ d.answer = answer
    BY <1>5 DEF Fields, DoneFields
  <2> HIDE DEF d
  <2>3. CallTyped(d)
    BY <1>7, <1>8, <1>9, <2>2, Zenon DEF CallTyped
  <2> QED
    BY <1>8, <2>1, <2>3, OneCallTyped
<1>11. CASE ~(answer.kind = "archs" /\ ~c.skipCache)
  <2>1. work' = [work EXCEPT ![w] = Finished(c, answer)]
    BY <1>2, <1>11, Zenon
  <2>2. c.source \in Source
    BY <1>8, Zenon DEF CallTyped
  <2>3. CallTyped(Finished(c, answer))
    BY <1>9, <2>2, FinishedTyped
  <2> QED
    BY <1>8, <2>1, <2>3, OneCallTyped
<1> QED
  BY <1>10, <1>11

LEMMA EndTyped ==
  ASSUME Inv, Typed, NEW w \in Workers, InspectionFails(w) \/ Add(w) \/ Return(w)
  PROVE  CallsTyped'
<1> DEFINE c == work[w]
<1>1. Calls /\ CallsTyped /\ NoCall.pc = "idle"
  BY DEF Typed, Inv, NoCall
<1>2. CASE Return(w)
  <2>1. work' = [work EXCEPT ![w] = NoCall]
    BY <1>2, Zenon DEF Return
  <2> QED
    BY <1>1, <2>1, OneCallTyped
<1>3. CASE InspectionFails(w) \/ Add(w)
  <2>1. /\ c.pc \in {"secret", "inspect"} \/ c.pc = "add"
        /\ \/ work' = [work EXCEPT ![w] = Finished(c, Failed)]
           \/ work' = [work EXCEPT ![w] = Finished(c, c.answer)]
    BY <1>3, Zenon DEF InspectionFails, Add
  <2>2. c.pc # "idle"
    BY <2>1
  <2>3. c.source \in Source /\ AnswerTyped(c.answer)
    BY <1>1, <2>2, Zenon DEF CallsTyped, CallTyped
  <2>4. CallTyped(Finished(c, Failed)) /\ CallTyped(Finished(c, c.answer))
    BY <2>3, FinishedTyped, ConstantAnswers, Zenon
  <2> QED
    BY <1>1, <2>1, <2>4, OneCallTyped
<1> QED
  BY <1>2, <1>3

LEMMA PushTyped ==
  ASSUME Inv, Typed, NEW repo \in Repos, Push(repo)
  PROVE  CallsTyped'
<1>1. PICK m : work' = [w \in Workers |->
                 IF work[w].pc # "idle" /\ work[w].skipCache /\ repo \in Sources(work[w].image)
                 THEN [work[w] EXCEPT !.served = @ \cup {m}] ELSE work[w]]
  BY Zenon DEF Push
<1>2. ASSUME NEW w \in Workers, work'[w].pc # "idle"
      PROVE  CallTyped(work'[w])
  <2> DEFINE c == work[w]
             d == [c EXCEPT !.served = c.served \cup {m}]
  <2>1. CASE work'[w] = c
    BY <1>2, <2>1, Zenon DEF Typed, CallsTyped
  <2>2. CASE work'[w] = d /\ c.pc # "idle"
    <3>1. CallTyped(c)
      BY <2>2, Zenon DEF Typed, CallsTyped
    <3>2. \/ c.pc \in InFlight /\ DOMAIN c = Fields
          \/ c.pc = "done" /\ DOMAIN c = DoneFields
      BY <2>2, Zenon DEF Inv, Calls, CallOK, DoneOK
    <3>3. CASE c.pc \in InFlight /\ DOMAIN c = Fields
      <4>1. d.key = c.key /\ d.secret = c.secret /\ d.source = c.source /\ d.answer = c.answer
        BY <3>3 DEF Fields, DoneFields
      <4> HIDE DEF d
      <4>2. CallTyped(d)
        BY <3>1, <3>3, <4>1, Zenon DEF CallTyped
      <4> QED
        BY <2>2, <4>2
    <3>4. CASE c.pc = "done" /\ DOMAIN c = DoneFields
      <4>1. d.pc = "done" /\ d.source = c.source /\ d.answer = c.answer
        BY <3>4 DEF DoneFields
      <4> HIDE DEF d
      <4>2. d.pc \notin InFlight
        BY <4>1 DEF InFlight
      <4>3. CallTyped(d)
        BY <3>1, <4>1, <4>2, Zenon DEF CallTyped
      <4> QED
        BY <2>2, <4>3
    <3> QED
      BY <3>2, <3>3, <3>4
  <2>3. work'[w] = c \/ (work'[w] = d /\ c.pc # "idle")
    BY <1>1, Zenon
  <2> QED
    BY <2>1, <2>2, <2>3
<1> QED
  BY <1>2, Zenon DEF CallsTyped, CallTyped, AnswerTyped

LEMMA CallsStep ==
  ASSUME Inv, Typed, Next
  PROVE  CallsTyped'
<1>1. CASE UNCHANGED work
  BY <1>1, Zenon DEF Typed, CallsTyped, CallTyped, AnswerTyped
<1>2. CASE Restart
  <2>1. work' = [w \in Workers |-> NoCall] /\ NoCall.pc = "idle"
    BY <1>2 DEF Restart, NoCall
  <2>2. \A w \in Workers : work'[w].pc = "idle"
    BY <2>1
  <2> QED
    BY <2>2, Zenon DEF CallsTyped
<1>3. onAddOrUpdate \/ clearCache \/ WriteSecret \/ Expire => UNCHANGED work
  BY Zenon DEF onAddOrUpdate, clearCache, WriteSecret, Expire
<1>4. \A repo \in Repos : Rotate(repo) => UNCHANGED work
  BY Zenon DEF Rotate
<1> QED
  BY <1>1, <1>2, <1>3, <1>4, LookupTyped, ReadTyped, InspectTyped, EndTyped, PushTyped, Zenon DEF Next

-----------------------------------------------------------------------------
\* The cache.

LEMMA CacheShrinks ==
  ASSUME CacheTyped, imageRefsCache' \subseteq imageRefsCache
  PROVE  CacheTyped'
<1>1. /\ imageRefsCache \subseteq Entry
      /\ IsFiniteSet(imageRefsCache) /\ Cardinality(imageRefsCache) <= CacheSize
      /\ \A d, e \in imageRefsCache : d.key = e.key => d = e
  BY Zenon DEF CacheTyped
<1>2. /\ IsFiniteSet(imageRefsCache') /\ Cardinality(imageRefsCache') <= Cardinality(imageRefsCache)
      /\ Cardinality(imageRefsCache') \in Nat /\ Cardinality(imageRefsCache) \in Nat
  BY <1>1, FS_Subset, FS_CardinalityType
<1>3. Cardinality(imageRefsCache') <= CacheSize
  BY <1>1, <1>2, InspectionAssumption
<1>4. imageRefsCache' \subseteq Entry /\ \A d, e \in imageRefsCache' : d.key = e.key => d = e
  BY <1>1
<1> QED
  BY <1>2, <1>3, <1>4, Zenon DEF CacheTyped

\* An entry is evicted when there is no room for one more.
LEMMA EvictBound ==
  ASSUME NEW all, IsFiniteSet(all), Cardinality(all) <= CacheSize, NEW others \in Evict(all)
  PROVE  others \subseteq all /\ IsFiniteSet(others) /\ Cardinality(others) < CacheSize
<1>1. Cardinality(all) \in Nat /\ CacheSize \in Nat \ {0}
  BY FS_CardinalityType, InspectionAssumption
<1>2. CASE Cardinality(all) < CacheSize
  BY <1>2 DEF Evict
<1>3. CASE ~(Cardinality(all) < CacheSize)
  <2>1. PICK e \in all : others = all \ {e}
    BY <1>3, Zenon DEF Evict
  <2>2. IsFiniteSet(all \ {e}) /\ Cardinality(all \ {e}) = Cardinality(all) - 1
    BY FS_RemoveElement
  <2> QED
    BY <1>1, <2>1, <2>2
<1> QED
  BY <1>2, <1>3

LEMMA AddTyped ==
  ASSUME Inv, Typed, NEW w \in Workers, Add(w)
  PROVE  CacheTyped'
<1> DEFINE c == work[w]
           all == {e \in imageRefsCache : e.key # c.key}
           new == [key |-> c.key, archs |-> c.answer.archs, secret |-> c.secret,
                   source |-> c.source, by |-> w]
<1>1. PICK others \in Evict(all) : imageRefsCache' = others \cup {new}
  BY Zenon DEF Add
<1>2. c.pc = "add"
  BY Zenon DEF Add
<1>3. c.pc \in InFlight /\ c.pc # "idle"
  BY <1>2 DEF InFlight
<1>4. CallTyped(c) /\ CacheTyped
  BY <1>3, Zenon DEF Typed, CallsTyped
<1>5. /\ c.key \in Keys /\ c.secret \in Secrets /\ c.source \in Source
      /\ c.answer.archs \in SUBSET Reported
  BY <1>3, <1>4, Zenon DEF CallTyped, AnswerTyped
<1>6. new \in Entry /\ new.key = c.key
  BY <1>5 DEF Entry, Secrets
<1> HIDE DEF new
<1>7. /\ imageRefsCache \subseteq Entry
      /\ IsFiniteSet(imageRefsCache) /\ Cardinality(imageRefsCache) <= CacheSize
      /\ \A d, e \in imageRefsCache : d.key = e.key => d = e
  BY <1>4, Zenon DEF CacheTyped
<1>8. all \in SUBSET imageRefsCache /\ \A e \in all : e.key # c.key
  OBVIOUS
<1> HIDE DEF all
<1>9. IsFiniteSet(all) /\ Cardinality(all) <= CacheSize
  <2>1. IsFiniteSet(all) /\ Cardinality(all) <= Cardinality(imageRefsCache)
    BY <1>7, <1>8, FS_Subset
  <2>2. Cardinality(all) \in Nat /\ Cardinality(imageRefsCache) \in Nat
    BY <1>7, <2>1, FS_CardinalityType
  <2> QED
    BY <1>7, <2>1, <2>2, InspectionAssumption
<1>10. others \subseteq all /\ IsFiniteSet(others) /\ Cardinality(others) < CacheSize
  BY <1>1, <1>9, EvictBound
<1>11. IsFiniteSet(imageRefsCache') /\ Cardinality(imageRefsCache') <= CacheSize
  <2>1. /\ IsFiniteSet(others \cup {new})
        /\ Cardinality(others \cup {new}) = IF new \in others THEN Cardinality(others)
                                                              ELSE Cardinality(others) + 1
    BY <1>10, FS_AddElement
  <2>2. Cardinality(others) \in Nat
    BY <1>10, FS_CardinalityType
  <2> QED
    BY <1>1, <1>10, <2>1, <2>2, InspectionAssumption
<1>12. imageRefsCache' \subseteq Entry
  BY <1>1, <1>6, <1>7, <1>8, <1>10
<1>13. ASSUME NEW d \in imageRefsCache', NEW e \in imageRefsCache', d.key = e.key
       PROVE  d = e
  BY <1>1, <1>6, <1>7, <1>8, <1>10, <1>13
<1> QED
  BY <1>11, <1>12, <1>13, Zenon DEF CacheTyped

LEMMA CacheStep ==
  ASSUME Inv, Typed, Next
  PROVE  CacheTyped'
<1>1. CacheTyped
  BY Zenon DEF Typed
<1>2. CASE imageRefsCache' \subseteq imageRefsCache
  BY <1>1, <1>2, CacheShrinks
<1>3. CASE UNCHANGED imageRefsCache \/ imageRefsCache' = {}
  BY <1>2, <1>3
<1>4. onAddOrUpdate \/ clearCache \/ WriteSecret \/ Restart => UNCHANGED imageRefsCache \/ imageRefsCache' = {}
  BY Zenon DEF onAddOrUpdate, clearCache, WriteSecret, Restart
<1>5. ASSUME NEW w \in Workers,
             Lookup(w) \/ ReadGlobalPullSecret(w) \/ Inspect(w) \/ InspectionFails(w) \/ Return(w)
      PROVE  UNCHANGED imageRefsCache
  BY <1>5, Zenon DEF Lookup, ReadGlobalPullSecret, Inspect, InspectionFails, Return
<1>6. ASSUME NEW repo \in Repos, Push(repo) \/ Rotate(repo)
      PROVE  UNCHANGED imageRefsCache
  BY <1>6, Zenon DEF Push, Rotate
<1>7. Expire => imageRefsCache' \subseteq imageRefsCache
  BY DEF Expire
<1> QED
  BY <1>2, <1>3, <1>4, <1>5, <1>6, <1>7, AddTyped, Zenon DEF Next

-----------------------------------------------------------------------------
LEMMA TypedInit == Init => Typed
<1>1. SUFFICES ASSUME Init
               PROVE  Typed
  OBVIOUS
<1>2. /\ content = FirstContent /\ accepted \in Choices(Accepted)
      /\ apiSecret \in (GlobalSecrets \ {Malformed}) \cup {Absent}
      /\ notified = (apiSecret # Absent) /\ syncer = "idle" /\ globalPullSecret = Unparsable
      /\ imageRefsCache = {} /\ work = [w \in Workers |-> NoCall] /\ late = {}
      /\ changes = 0 /\ faults = 0
  BY <1>1, Zenon DEF Init
<1>3. WorldTyped
  BY <1>2, InspectionAssumption, Zenon DEF WorldTyped
<1>4. late \subseteq Workers
  BY <1>2
<1>5. SyncTyped
  BY <1>2, <1>4, Zenon DEF SyncTyped, Secrets
<1>6. CacheTyped
  BY <1>2, FS_EmptySet, InspectionAssumption DEF CacheTyped
<1>7. \A w \in Workers : work[w].pc = "idle"
  BY <1>2 DEF NoCall
<1>8. CallsTyped
  BY <1>7, Zenon DEF CallsTyped
<1>9. Bounded
  BY <1>2, InspectionAssumption DEF Bounded
<1> QED
  BY <1>3, <1>5, <1>6, <1>8, <1>9, Zenon DEF Typed

LEMMA TypedStep == Inv /\ Typed /\ [Next]_vars => Typed'
<1>1. SUFFICES ASSUME Inv, Typed, [Next]_vars
               PROVE  Typed'
  OBVIOUS
<1>2. CASE Next
  <2>1. WorldTyped' /\ SyncTyped' /\ Bounded'
    BY <1>1, <1>2, WorldStep, SyncStep, BoundedStep, Zenon DEF Typed
  <2>2. CacheTyped' /\ CallsTyped'
    BY <1>1, <1>2, CacheStep, CallsStep, Zenon
  <2> QED
    BY <2>1, <2>2, Zenon DEF Typed
<1>3. CASE UNCHANGED vars
  <2>1. UNCHANGED <<content, accepted, apiSecret, notified, syncer, globalPullSecret, imageRefsCache,
                    work, late, changes, faults>>
    BY <1>3, Zenon DEF vars, worldVars, syncVars, bounds
  <2>2. WorldTyped' /\ SyncTyped' /\ Bounded'
    BY <1>1, <2>1, Zenon DEF Typed, WorldTyped, SyncTyped, Bounded
  <2>3. CacheTyped' /\ CallsTyped'
    BY <1>1, <2>1, Zenon DEF Typed, CacheTyped, CallsTyped, CallTyped, AnswerTyped
  <2> QED
    BY <2>2, <2>3, Zenon DEF Typed
<1> QED
  BY <1>1, <1>2, <1>3

\* The cache has one entry for a key and never more than CacheSize, whatever the
\* calls, the evictions and the purges do at the same time; a call holds a key that
\* some container asks for, and its answer only architectures that an index or a
\* configuration reports (cache.go:39-83, inspector.go:145-232).
THEOREM TypeTheorem == Spec => []TypeOK
<1>1. Inv /\ Typed => TypeOK
  <2>1. SUFFICES ASSUME Inv, Typed
                 PROVE  TypeOK
    OBVIOUS
  <2>2. DOMAIN work = Workers
    BY <2>1, Zenon DEF Inv, Calls
  <2>3. ASSUME NEW w \in Workers, work[w].pc # "idle"
        PROVE  /\ work[w].pc \in {"secret", "inspect", "add", "done"}
               /\ work[w].pc # "done" => work[w].key \in Keys
               /\ work[w].source \in Source
               /\ work[w].answer.kind \in {"none", "archs", "error", "panic"}
               /\ work[w].answer.archs \subseteq Reported
    <3>1. work[w].pc \in InFlight \/ work[w].pc = "done"
      BY <2>1, <2>3, Zenon DEF Inv, Calls
    <3>2. CallTyped(work[w])
      BY <2>1, <2>3, Zenon DEF Typed, CallsTyped
    <3>3. work[w].pc \in {"secret", "inspect", "add", "done"}
      BY <3>1 DEF InFlight
    <3> QED
      BY <3>1, <3>2, <3>3, Zenon DEF CallTyped, AnswerTyped
  <2> QED
    BY <2>1, <2>2, <2>3, Zenon DEF TypeOK, Typed, WorldTyped, SyncTyped, CacheTyped, Bounded, Secrets
<1> QED
  BY <1>1, TypedInit, TypedStep, InvHolds, PTL DEF Spec

=============================================================================
