--------------------------- MODULE OperatorProofs ---------------------------
(***************************************************************************)
(* The safety properties of Operator, for any pods, users, bounds and      *)
(* faults.                                                                 *)
(*                                                                         *)
(* The inductive invariant says what the copies of cppc are worth: a copy  *)
(* that is not in deletion and has the finalizer of the pod placement, or  *)
(* that of a plugin it enables, is one of the stored object, which still   *)
(* has it, because only the worker removes finalizers, and it does so from *)
(* the current version and after the objects that depend on them.          *)
(* The type invariant comes last, since it needs that much.                *)
(***************************************************************************)
EXTENDS Operator, FiniteSetTheorems, TLAPS

PodPlacement == PodPlacementFinalizerName
NoPPC == CPPCNoPPCObjectFinalizer
ExecFormatError == ExecFormatErrorFinalizerName

Deploying == {"deployment", "dependents", "apply", "status"}
Cleaning == {"exDaemon", "exDrain", "exDelete", "exUpdate"}
Deleting == {"delPPC", "delWebhook", "listPods", "ctlFin", "cppcFin", "delRest"}

Typed ==
    /\ cppc \in CPPC /\ cached \in CPPC /\ w \in CPPC /\ lastUID \in Owner
    /\ pc \in Steps /\ pods \in [Pods -> {"new", "admitted", "gated", "free"}]

Stored ==
    /\ cppc.uid = 0 => cppc.fins = {} /\ ~cppc.deleting
    /\ cppc.deleting => cppc.fins # {}
    /\ cppc.uid <= lastUID /\ cached.uid <= lastUID /\ w.uid <= lastUID

Cache ==
    /\ "cache" \in fresh => cached = cppc
    /\ cached.uid = 0 => ~cached.deleting
    /\ cached.uid = cppc.uid /\ cached.deleting => cppc.deleting
    /\ cached.uid # 0 /\ ~cached.deleting /\ PodPlacement \in cached.fins =>
         cppc.uid = cached.uid /\ PodPlacement \in cppc.fins
    /\ cached.uid # 0 /\ ~cached.deleting /\ cached.plugin /\ ExecFormatError \in cached.fins =>
         cppc.uid = cached.uid /\ ExecFormatError \in cppc.fins

\* The steps of the worker, and what its copy of cppc says of the other ones.
Working ==
    /\ (w.uid # 0) = (pc # "idle")
    /\ "worker" \in fresh => pc # "idle"
    /\ pc \in Deploying \cup {"update"} => ~w.deleting
    /\ pc \in Deleting => w.deleting
    /\ pc \in Cleaning => w.deleting \/ ~w.plugin
    /\ pc = "update" => PodPlacement \in w.fins

Copy ==
    /\ pc \in Deploying \cup Cleaning /\ ~w.deleting =>
         cppc.uid = w.uid /\ PodPlacement \in cppc.fins
    /\ pc \in Deploying \ {"status"} /\ w.plugin => ExecFormatError \in cppc.fins
    /\ pc # "idle" /\ w.deleting /\ cppc.uid = w.uid => cppc.deleting
    /\ pc # "idle" /\ w.deleting /\ cached.uid = w.uid => cached.deleting

Current ==
    /\ pc # "idle" /\ IsCurrent =>
         /\ w.deleting = cppc.deleting /\ w.plugin = cppc.plugin
         /\ IF pc = "update" THEN cppc.fins \ {NoPPC} \subseteq w.fins ELSE w.fins = cppc.fins
    /\ "worker" \in fresh /\ pc \in Cleaning \cup {"dependents"} =>
         cached.uid = 0 \/ "cache" \in fresh

Operands ==
    /\ WebhookNeverOutlivesCPPC /\ MonitorIsRemoved
    /\ pc \in {"listPods", "ctlFin", "cppcFin"} => mwc = 0
    /\ pc \in {"exDrain", "exDelete", "exUpdate"} => ds = 0 /\ sa = "none"
    /\ pc \in {"ctlFin", "cppcFin"} \/ PodPlacement \notin cppc.fins =>
         \A p \in Pods : pods[p] \in {"admitted", "gated"} => p \in late

Inv == Typed /\ Stored /\ Cache /\ Working /\ Copy /\ Current /\ Operands

-----------------------------------------------------------------------------
\* The records of a ClusterPodPlacementConfig.

LEMMA Names ==
  /\ PodPlacement \in Finalizers /\ NoPPC \in Finalizers /\ ExecFormatError \in Finalizers
  /\ PodPlacement # NoPPC /\ PodPlacement # ExecFormatError /\ NoPPC # ExecFormatError
BY DEF PodPlacement, NoPPC, ExecFormatError, Finalizers, PodPlacementFinalizerName,
       CPPCNoPPCObjectFinalizer, ExecFormatErrorFinalizerName

CPPCOf(Flag) == [uid : Owner, deleting : Flag, plugin : Flag, fins : SUBSET Finalizers,
                 status : Status]

LEMMA Fields ==
  ASSUME NEW c \in CPPC
  PROVE  c.uid \in Owner /\ c.deleting \in BOOLEAN /\ c.plugin \in BOOLEAN
         /\ c.fins \in SUBSET Finalizers /\ c.status \in Status
<1>1. ASSUME NEW Flag, NEW q \in CPPCOf(Flag)
      PROVE  q.uid \in Owner /\ q.deleting \in Flag /\ q.plugin \in Flag
             /\ q.fins \in SUBSET Finalizers /\ q.status \in Status
  BY DEF CPPCOf
<1> QED
  BY <1>1, Zenon DEF CPPC, CPPCOf

LEMMA SetFins ==
  ASSUME NEW c \in CPPC, NEW f \in SUBSET Finalizers
  PROVE  LET d == [c EXCEPT !.fins = f]
         IN  /\ d \in CPPC /\ d.uid = c.uid /\ d.deleting = c.deleting /\ d.plugin = c.plugin
             /\ d.fins = f
<1>1. ASSUME NEW Flag, NEW q \in CPPCOf(Flag)
      PROVE  LET d == [q EXCEPT !.fins = f]
             IN  /\ d \in CPPCOf(Flag) /\ d.uid = q.uid /\ d.deleting = q.deleting
                 /\ d.plugin = q.plugin /\ d.fins = f
  BY DEF CPPCOf
<1> QED
  BY <1>1, Zenon DEF CPPC, CPPCOf

LEMMA SetStatus ==
  ASSUME NEW c \in CPPC, NEW s \in Status
  PROVE  LET d == [c EXCEPT !.status = s]
         IN  /\ d \in CPPC /\ d.uid = c.uid /\ d.deleting = c.deleting /\ d.plugin = c.plugin
             /\ d.fins = c.fins
<1>1. ASSUME NEW Flag, NEW q \in CPPCOf(Flag)
      PROVE  LET d == [q EXCEPT !.status = s]
             IN  /\ d \in CPPCOf(Flag) /\ d.uid = q.uid /\ d.deleting = q.deleting
                 /\ d.plugin = q.plugin /\ d.fins = q.fins
  BY DEF CPPCOf
<1> QED
  BY <1>1, Zenon DEF CPPC, CPPCOf

LEMMA SetDeleting ==
  ASSUME NEW c \in CPPC
  PROVE  LET d == [c EXCEPT !.deleting = TRUE]
         IN  /\ d \in CPPC /\ d.uid = c.uid /\ d.deleting /\ d.plugin = c.plugin
             /\ d.fins = c.fins
<1>1. ASSUME NEW Flag, NEW q \in CPPCOf(Flag), NEW b \in Flag
      PROVE  LET d == [q EXCEPT !.deleting = b]
             IN  /\ d \in CPPCOf(Flag) /\ d.uid = q.uid /\ d.deleting = b
                 /\ d.plugin = q.plugin /\ d.fins = q.fins
  BY DEF CPPCOf
<1> QED
  BY <1>1, Zenon DEF CPPC, CPPCOf

LEMMA SetPlugin ==
  ASSUME NEW c \in CPPC, NEW p \in BOOLEAN
  PROVE  LET d == [c EXCEPT !.plugin = p]
         IN  /\ d \in CPPC /\ d.uid = c.uid /\ d.deleting = c.deleting /\ d.plugin = p
             /\ d.fins = c.fins
<1>1. ASSUME NEW Flag, NEW q \in CPPCOf(Flag), NEW b \in Flag
      PROVE  LET d == [q EXCEPT !.plugin = b]
             IN  /\ d \in CPPCOf(Flag) /\ d.uid = q.uid /\ d.deleting = q.deleting
                 /\ d.plugin = b /\ d.fins = q.fins
  BY DEF CPPCOf
<1> QED
  BY <1>1, Zenon DEF CPPC, CPPCOf

LEMMA None ==
  /\ NoCPPC \in CPPC /\ NoCPPC.uid = 0 /\ ~NoCPPC.deleting /\ ~NoCPPC.plugin /\ NoCPPC.fins = {}
<1>1. NoStatus \in Status
  BY DEF NoStatus, Status
<1>2. 0 \in Owner
  BY OperatorAssumption DEF Owner
<1>3. ASSUME NEW Flag, NEW b \in Flag
      PROVE  LET d == [uid |-> 0, deleting |-> b, plugin |-> b, fins |-> {}, status |-> NoStatus]
             IN  /\ d \in CPPCOf(Flag) /\ d.uid = 0 /\ d.deleting = b /\ d.plugin = b
                 /\ d.fins = {}
  BY <1>1, <1>2 DEF CPPCOf
<1> QED
  BY <1>3, Zenon DEF NoCPPC, CPPC, CPPCOf

LEMMA NewCPPC ==
  ASSUME NEW u \in Owner, NEW p \in BOOLEAN
  PROVE  LET d == [NoCPPC EXCEPT !.uid = u, !.plugin = p]
         IN  /\ d \in CPPC /\ d.uid = u /\ ~d.deleting /\ d.plugin = p /\ d.fins = {}
<1>1. ASSUME NEW Flag, NEW q \in CPPCOf(Flag), NEW b \in Flag
      PROVE  LET d == [q EXCEPT !.uid = u, !.plugin = b]
             IN  /\ d \in CPPCOf(Flag) /\ d.uid = u /\ d.deleting = q.deleting
                 /\ d.plugin = b /\ d.fins = q.fins
  BY Zenon DEF CPPCOf
<1> QED
  BY <1>1, None, Zenon DEF CPPC, CPPCOf

-----------------------------------------------------------------------------
\* The steps that change cppc, by what they do to the copies of it.

\* A write that keeps the finalizers in question, by a user, or by the worker as
\* the last step of a Reconcile.
LEMMA Written ==
  ASSUME Inv, cppc' \in CPPC, lastUID' \in Owner, lastUID <= lastUID', cppc'.uid <= lastUID',
         cppc'.uid = 0 => cppc'.fins = {} /\ ~cppc'.deleting,
         cppc'.deleting => cppc'.fins # {},
         cppc'.uid = cppc.uid /\ cppc.deleting => cppc'.deleting,
         cppc'.uid \in {0, cppc.uid} \/ cppc'.uid > lastUID,
         PodPlacement \in cppc.fins => cppc'.uid = cppc.uid /\ PodPlacement \in cppc'.fins,
         ExecFormatError \in cppc.fins => cppc'.uid = cppc.uid /\ ExecFormatError \in cppc'.fins,
         "worker" \notin fresh', "cache" \in fresh' => "cache" \in fresh /\ cppc' = cppc,
         UNCHANGED <<pc, w>> \/ (pc' = "idle" /\ w' = NoCPPC),
         UNCHANGED <<cached, mwc, ds, sa, pods, late>>
  PROVE  Inv'
<1>1. Typed /\ Stored /\ Cache /\ Working /\ Copy /\ Current /\ Operands
  BY DEF Inv
<1>2. /\ cppc.uid \in Owner /\ cached.uid \in Owner /\ w.uid \in Owner /\ cppc'.uid \in Owner
      /\ lastUID \in Owner /\ pc \in Steps
  BY <1>1, Fields DEF Typed
<1>3. Typed'
  <2>1. "idle" \in Steps
    BY DEF Steps
  <2>2. w' \in CPPC /\ pc' \in Steps
    BY <1>1, <2>1, None, Zenon DEF Typed
  <2> QED
    BY <1>1, <2>2, Zenon DEF Typed
<1>4. Stored'
  <2>1. w'.uid \in {0, w.uid}
    BY None
  <2>2. cached'.uid = cached.uid
    OBVIOUS
  <2>3. cppc'.uid <= lastUID' /\ cached'.uid <= lastUID' /\ w'.uid <= lastUID'
    BY <1>1, <1>2, <2>1, <2>2, OperatorAssumption DEF Stored, Owner
  <2> QED
    BY <2>3, Zenon DEF Stored
<1>5. cppc'.uid \notin {0, cppc.uid} => cached.uid # cppc'.uid /\ w.uid # cppc'.uid
  BY <1>1, <1>2, OperatorAssumption DEF Stored, Owner
<1>6. cached.uid = cppc'.uid /\ cached.deleting => cppc'.deleting
  <2>1. SUFFICES ASSUME cached.uid = cppc'.uid, cached.deleting
                 PROVE  cppc'.deleting
    OBVIOUS
  <2>2. cppc'.uid = 0 \/ cppc'.uid = cppc.uid
    BY <1>5, <2>1
  <2>3. cppc'.uid # 0
    BY <1>1, <2>1, Zenon DEF Cache
  <2> QED
    BY <1>1, <2>1, <2>2, <2>3, Zenon DEF Cache
<1>7. Cache'
  BY <1>1, <1>6, Zenon DEF Cache
<1>8. CASE pc' = "idle" /\ w' = NoCPPC
  <2>1. /\ pc' \notin Deploying \cup {"update"} /\ pc' \notin Deploying \cup Cleaning
        /\ pc' \notin Deploying \ {"status"} /\ pc' \notin Deleting /\ pc' \notin Cleaning
        /\ pc' \notin {"listPods", "ctlFin", "cppcFin"} /\ pc' \notin {"ctlFin", "cppcFin"}
        /\ pc' \notin {"exDrain", "exDelete", "exUpdate"} /\ pc' # "update"
    BY <1>8 DEF Deploying, Cleaning, Deleting
  <2>2. w'.uid = 0
    BY <1>8, None
  <2>3. Working' /\ Copy' /\ Current'
    BY <1>8, <2>1, <2>2, Zenon DEF Working, Copy, Current
  <2>4. Operands'
    BY <1>1, <2>1, Zenon DEF Operands, WebhookNeverOutlivesCPPC, MonitorIsRemoved, PodPlacement,
       ExecFormatError
  <2> QED
    BY <1>3, <1>4, <1>7, <2>3, <2>4, Zenon DEF Inv
<1>9. CASE UNCHANGED <<pc, w>>
  <2>1. Working'
    BY <1>1, <1>9, Zenon DEF Working
  <2>2. w.uid # 0 => pc # "idle"
    BY <1>1, Zenon DEF Working
  <2>3. pc # "idle" /\ w.deleting /\ cppc'.uid = w.uid => cppc'.deleting
    <3>1. SUFFICES ASSUME pc # "idle", w.deleting, cppc'.uid = w.uid
                   PROVE  cppc'.deleting
      OBVIOUS
    <3>2. w.uid # 0
      BY <1>1, <3>1, Zenon DEF Working
    <3>3. cppc'.uid = cppc.uid
      BY <1>5, <3>1, <3>2
    <3> QED
      BY <1>1, <3>1, <3>3, Zenon DEF Copy
  <2>4. Copy'
    BY <1>1, <1>9, <2>3, Zenon DEF Copy
  <2>5. Current'
    BY <1>9, Zenon DEF Current, IsCurrent
  <2>6. Operands'
    BY <1>1, <1>9, Zenon DEF Operands, WebhookNeverOutlivesCPPC, MonitorIsRemoved, PodPlacement,
       ExecFormatError
  <2> QED
    BY <1>3, <1>4, <1>7, <2>1, <2>4, <2>5, <2>6, Zenon DEF Inv
<1> QED
  BY <1>8, <1>9

\* The worker returns; the informer, or a restart, may bring the cache up to date.
LEMMA Ended ==
  ASSUME Inv, UNCHANGED <<cppc, lastUID, pods>>, pc' = "idle", w' = NoCPPC, "worker" \notin fresh',
         cached' = cached \/ cached' = cppc, "cache" \in fresh' => cached' = cppc,
         mwc' \in {0, mwc}, ds' \in {0, ds}, sa' \in {"none", sa}, late \subseteq late'
  PROVE  Inv'
<1>1. Typed /\ Stored /\ Cache /\ Working /\ Copy /\ Current /\ Operands
  BY DEF Inv
<1>2. /\ pc' \notin Deploying \cup {"update"} /\ pc' \notin Deploying \cup Cleaning
      /\ pc' \notin Deploying \ {"status"} /\ pc' \notin Deleting /\ pc' \notin Cleaning
      /\ pc' \notin {"listPods", "ctlFin", "cppcFin"} /\ pc' \notin {"ctlFin", "cppcFin"}
      /\ pc' \notin {"exDrain", "exDelete", "exUpdate"} /\ pc' # "update"
      /\ pc' \in Steps
  BY DEF Deploying, Cleaning, Deleting, Steps
<1>3. w'.uid = 0 /\ w' \in CPPC
  BY None
<1>4. Typed'
  BY <1>1, <1>2, <1>3, Zenon DEF Typed
<1>5. Stored'
  <2>1. cppc.uid \in Owner /\ cached.uid \in Owner /\ lastUID \in Owner
    BY <1>1, Fields DEF Typed
  <2>2. cached'.uid = cached.uid \/ cached'.uid = cppc.uid
    OBVIOUS
  <2>3. cppc'.uid <= lastUID' /\ cached'.uid <= lastUID' /\ w'.uid <= lastUID'
    BY <1>1, <1>3, <2>1, <2>2, OperatorAssumption DEF Stored, Owner
  <2> QED
    BY <1>1, <2>3, Zenon DEF Stored
<1>6. Cache'
  <2>1. CASE cached' = cached
    BY <1>1, <2>1, Zenon DEF Cache
  <2>2. CASE cached' = cppc
    BY <1>1, <2>2, Zenon DEF Cache, Stored
  <2> QED
    BY <2>1, <2>2
<1>7. Working' /\ Copy' /\ Current'
  BY <1>2, <1>3, Zenon DEF Working, Copy, Current
<1>8. Operands'
  <2>1. WebhookNeverOutlivesCPPC'
    BY <1>1 DEF Operands, WebhookNeverOutlivesCPPC
  <2>2. MonitorIsRemoved'
    BY <1>1 DEF Operands, MonitorIsRemoved
  <2>3. PodPlacement \notin cppc'.fins => \A p \in Pods : pods'[p] \in {"admitted", "gated"} => p \in late'
    BY <1>1 DEF Operands
  <2> QED
    BY <1>2, <2>1, <2>2, <2>3, Zenon DEF Operands
<1> QED
  BY <1>4, <1>5, <1>6, <1>7, <1>8, Zenon DEF Inv

\* The informer brings the cache up to date.
LEMMA CacheUpdated ==
  ASSUME Inv, CPPCEvent
  PROVE  Inv'
<1>1. Typed /\ Stored /\ Cache /\ Working /\ Copy /\ Current /\ Operands
  BY DEF Inv
<1>2. /\ cached' = cppc /\ UNCHANGED <<cppc, lastUID, pc, w, mwc, ds, sa, pods, late>>
      /\ fresh' = fresh \cup {"cache"}
  BY Zenon DEF CPPCEvent, cppcVars, hookVars, exObjs, workVars
<1>3. "cache" \in fresh' /\ ("worker" \in fresh' <=> "worker" \in fresh)
  BY <1>2
<1>4. Typed' /\ Stored'
  BY <1>1, <1>2, Zenon DEF Typed, Stored
<1>5. Cache'
  BY <1>1, <1>2, Zenon DEF Cache, Stored
<1>6. Working' /\ Copy' /\ Current'
  <2>1. Working'
    BY <1>1, <1>2, <1>3, Zenon DEF Working
  <2>2. Copy'
    BY <1>1, <1>2, Zenon DEF Copy
  <2>3. Current'
    BY <1>1, <1>2, <1>3, Zenon DEF Current, IsCurrent
  <2> QED
    BY <2>1, <2>2, <2>3
<1>7. Operands'
  BY <1>1, <1>2, Zenon DEF Operands, WebhookNeverOutlivesCPPC, MonitorIsRemoved
<1> QED
  BY <1>4, <1>5, <1>6, <1>7, Zenon DEF Inv

\* Steps of the cluster: nothing changes for the worker.
LEMMA Quiet ==
  ASSUME Inv, UNCHANGED <<cppc, lastUID, cached, fresh, pc, w, late>>,
         mwc' \in {0, mwc}, ds' \in {0, ds}, sa' = "none" <=> sa = "none",
         pods' \in [Pods -> {"new", "admitted", "gated", "free"}],
         \A p \in Pods : pods'[p] \in {"admitted", "gated"} =>
           pods[p] \in {"admitted", "gated"} \/ mwc # 0
  PROVE  Inv'
<1>1. Typed /\ Stored /\ Cache /\ Working /\ Copy /\ Current /\ Operands
  BY DEF Inv
<1>2. Typed' /\ Stored' /\ Cache' /\ Working'
  BY <1>1, ZenonT(30) DEF Typed, Stored, Cache, Working
<1>3. Copy' /\ Current'
  BY <1>1, Zenon DEF Copy, Current, IsCurrent
<1>4. WebhookNeverOutlivesCPPC' /\ MonitorIsRemoved'
  BY <1>1 DEF Operands, WebhookNeverOutlivesCPPC, MonitorIsRemoved
<1>5. /\ pc \in {"listPods", "ctlFin", "cppcFin"} => mwc' = 0
      /\ pc \in {"exDrain", "exDelete", "exUpdate"} => ds' = 0 /\ sa' = "none"
  BY <1>1 DEF Operands
<1>6. ASSUME pc \in {"ctlFin", "cppcFin"} \/ PodPlacement \notin cppc.fins,
             NEW p \in Pods, pods'[p] \in {"admitted", "gated"}
      PROVE  p \in late
  <2>1. mwc = 0
    BY <1>1, <1>6 DEF Operands, WebhookNeverOutlivesCPPC, PodPlacement
  <2> QED
    BY <1>1, <1>6, <2>1, Zenon DEF Operands
<1>7. Operands'
  BY <1>4, <1>5, <1>6, Zenon DEF Operands
<1> QED
  BY <1>2, <1>3, <1>7, Zenon DEF Inv

\* The worker goes on from a step with its copy, whose status may change.
LEMMA Moved ==
  ASSUME Inv, UNCHANGED <<cppc, lastUID, cached, fresh, pods>>,
         w' \in CPPC, w'.uid = w.uid, w'.deleting = w.deleting, w'.plugin = w.plugin, w'.fins = w.fins,
         pc \notin {"idle", "update"}, pc' \in Steps \ {"idle", "update"},
         pc' \in Deploying => pc \in Deploying,
         pc' \in Deploying \ {"status"} => pc \in Deploying \ {"status"},
         pc' \in Deleting => pc \in Deleting,
         pc' \in Cleaning => pc \in Cleaning \/ (pc = "dependents" /\ ~w.plugin),
         pc' # "dependents",
         WebhookNeverOutlivesCPPC', MonitorIsRemoved',
         pc' \in {"listPods", "ctlFin", "cppcFin"} => mwc' = 0,
         pc' \in {"exDrain", "exDelete", "exUpdate"} => ds' = 0 /\ sa' = "none",
         late \subseteq late',
         pc' \in {"ctlFin", "cppcFin"} =>
           \A p \in Pods : pods[p] \in {"admitted", "gated"} => p \in late'
  PROVE  Inv'
<1>1. Typed /\ Stored /\ Cache /\ Working /\ Copy /\ Current /\ Operands
  BY DEF Inv
<1>2. Typed' /\ Stored' /\ Cache'
  BY <1>1, Zenon DEF Typed, Stored, Cache
<1>3. /\ "dependents" \in Deploying
      /\ pc' \in Deploying \cup {"update"} => pc \in Deploying \cup {"update"}
      /\ pc' \in Deploying \cup Cleaning => pc \in Deploying \cup Cleaning
      /\ pc' \in Cleaning \cup {"dependents"} => pc \in Cleaning \cup {"dependents"}
      /\ pc' # "idle" /\ pc' # "update" /\ pc # "idle" /\ pc # "update"
  BY DEF Deploying
<1>4. Working'
  BY <1>1, <1>3, Zenon DEF Working
<1>5. Copy'
  BY <1>1, <1>3, Zenon DEF Copy
<1>6. Current'
  BY <1>1, <1>3, Zenon DEF Current, IsCurrent
<1>7. PodPlacement \notin cppc.fins => \A p \in Pods : pods[p] \in {"admitted", "gated"} => p \in late'
  BY <1>1 DEF Operands
<1>8. Operands'
  BY <1>7, Zenon DEF Operands
<1> QED
  BY <1>2, <1>4, <1>5, <1>6, <1>8, Zenon DEF Inv

\* Reconcile begins with a copy of cppc, to which it may add a finalizer.
LEMMA Begun ==
  ASSUME Inv, NEW step \in {"update", "exDaemon", "delPPC", "deployment", "dependents"},
         NEW copy \in CPPC, Begin(step, copy), Fetched.uid # 0,
         copy.uid = Fetched.uid, copy.deleting = Fetched.deleting, copy.plugin = Fetched.plugin,
         IF step = "update"
         THEN Fetched.fins \ {NoPPC} \subseteq copy.fins /\ PodPlacement \in copy.fins
         ELSE copy.fins = Fetched.fins,
         IF step \in {"exDaemon", "delPPC"} THEN Fetched.deleting ELSE ~Fetched.deleting,
         step \in Deploying =>
           /\ PodPlacement \in Fetched.fins
           /\ Fetched.plugin => ExecFormatError \in Fetched.fins
  PROVE  Inv'
<1>1. Typed /\ Stored /\ Cache /\ Working /\ Copy /\ Current /\ Operands
  BY DEF Inv
<1>2. /\ pc = "idle" /\ pc' = step /\ w' = copy
      /\ UNCHANGED <<cppc, lastUID, cached, mwc, ds, sa, pods, late>>
      /\ fresh' = IF cached.uid = 0 \/ "cache" \in fresh THEN fresh \cup {"worker"} ELSE fresh
  BY Zenon DEF Begin, cppcVars, objects, hookVars, exObjs, cacheVars
<1>3. /\ pc' # "idle" /\ pc' \in Steps /\ pc' # "status"
      /\ pc' \in Deploying \cup {"update"} => step \notin {"exDaemon", "delPPC"}
      /\ pc' \in Deleting => step \in {"exDaemon", "delPPC"}
      /\ pc' \in Cleaning => step \in {"exDaemon", "delPPC"}
      /\ pc' \in Deploying \cup Cleaning => step \in Deploying \/ step \in {"exDaemon", "delPPC"}
      /\ pc' \in Deploying \ {"status"} => step \in Deploying
      /\ pc' \notin {"listPods", "ctlFin", "cppcFin"} /\ pc' \notin {"exDrain", "exDelete", "exUpdate"}
      /\ pc' \notin {"ctlFin", "cppcFin"}
  BY <1>2 DEF Steps, Deploying, Deleting, Cleaning
<1>4. (cached.uid # 0 /\ Fetched = cached) \/ (cached.uid = 0 /\ Fetched = cppc)
  BY DEF Fetched
<1>5. "worker" \notin fresh
  BY <1>1, <1>2, Zenon DEF Working
<1>6. /\ "worker" \in fresh' => Fetched = cppc
      /\ "worker" \in fresh' => cached'.uid = 0 \/ "cache" \in fresh'
      /\ "cache" \in fresh' => "cache" \in fresh
  BY <1>1, <1>2, <1>4, <1>5 DEF Cache
<1>7. Typed' /\ Cache'
  BY <1>1, <1>2, <1>3, <1>6, Zenon DEF Typed, Cache
<1>8. Stored'
  <2>1. w'.uid <= lastUID
    BY <1>1, <1>2, <1>4 DEF Stored
  <2> QED
    BY <1>1, <1>2, <2>1, Zenon DEF Stored
<1>9. Working'
  <2>1. w'.uid # 0 /\ w'.deleting = Fetched.deleting
    BY <1>2
  <2> QED
    BY <1>2, <1>3, <2>1, Zenon DEF Working
<1>10. Copy'
  <2>1. w'.uid = Fetched.uid /\ w'.deleting = Fetched.deleting /\ w'.plugin = Fetched.plugin
    BY <1>2
  <2>2. CASE cached.uid # 0 /\ Fetched = cached
    BY <1>1, <1>2, <1>3, <2>1, <2>2, Zenon DEF Copy, Cache
  <2>3. CASE cached.uid = 0 /\ Fetched = cppc
    BY <1>1, <1>2, <1>3, <2>1, <2>3, Zenon DEF Copy, Cache
  <2> QED
    BY <1>4, <2>2, <2>3
<1>11. Current'
  BY <1>2, <1>6, Zenon DEF Current, IsCurrent
<1>12. Operands'
  BY <1>1, <1>2, <1>3, Zenon DEF Operands, WebhookNeverOutlivesCPPC, MonitorIsRemoved
<1> QED
  BY <1>7, <1>8, <1>9, <1>10, <1>11, <1>12, Zenon DEF Inv

-----------------------------------------------------------------------------
\* Updates of the finalizers by the worker.

\* What a write stores.
LEMMA Settling ==
  ASSUME NEW new \in CPPC, NEW holders, WriteCPPC(new, holders)
  PROVE  /\ cppc' \in CPPC
         /\ \/ new.deleting /\ new.fins = {} /\ cppc' = NoCPPC
            \/ ~(new.deleting /\ new.fins = {}) /\ cppc' = new
         /\ "worker" \in fresh' <=> "worker" \in holders
         /\ "cache" \in fresh' /\ "cache" \notin holders => "cache" \in fresh /\ cppc' = cppc
<1>1. cppc' = Settled(new)
  BY Zenon DEF WriteCPPC
<1>2. fresh' = IF cppc' = cppc THEN (fresh \cap {"cache"}) \cup holders ELSE holders
  BY Zenon DEF WriteCPPC
<1>3. /\ "worker" \in fresh' <=> "worker" \in holders
      /\ "cache" \in fresh' /\ "cache" \notin holders => "cache" \in fresh /\ cppc' = cppc
  BY <1>2
<1>4. CASE new.deleting /\ new.fins = {}
  BY <1>1, <1>3, <1>4, None, Zenon DEF Settled
<1>5. CASE ~(new.deleting /\ new.fins = {})
  BY <1>1, <1>3, <1>5, Zenon DEF Settled
<1> QED
  BY <1>4, <1>5

\* The write of new finalizers to the current version.
LEMMA NewFinalizers ==
  ASSUME Inv, NEW fins \in SUBSET Finalizers, NEW holders \in SUBSET {"worker"},
         WriteCPPC([cppc EXCEPT !.fins = fins], holders)
  PROVE  /\ cppc' \in CPPC
         /\ \/ cppc.deleting /\ fins = {} /\ cppc'.uid = 0 /\ ~cppc'.deleting /\ cppc'.fins = {}
            \/ /\ cppc.deleting => fins # {}
               /\ cppc'.uid = cppc.uid /\ cppc'.deleting = cppc.deleting
               /\ cppc'.plugin = cppc.plugin /\ cppc'.fins = fins
         /\ "worker" \in fresh' <=> "worker" \in holders
         /\ "cache" \in fresh' => "cache" \in fresh /\ cppc' = cppc
<1>1. cppc \in CPPC
  BY DEF Inv, Typed
<1> DEFINE new == [cppc EXCEPT !.fins = fins]
<1>2. /\ new \in CPPC /\ new.uid = cppc.uid /\ new.deleting = cppc.deleting
      /\ new.plugin = cppc.plugin /\ new.fins = fins
  BY <1>1, SetFins
<1>3. WriteCPPC(new, holders)
  OBVIOUS
<1>4. "cache" \notin holders
  OBVIOUS
<1> HIDE DEF new
<1> QED
  BY <1>2, <1>3, <1>4, Settling, None, Zenon

\* An update that is refused ends the Reconcile.
LEMMA UpdateRefused ==
  ASSUME Inv, NEW step, NEW fins, NEW next, UpdateCPPC(step, fins, next), ~IsCurrent
  PROVE  Inv'
<1>1. Requeue /\ UNCHANGED <<cppc, lastUID, cached, mwc, ds, sa, pods, late>>
  BY Zenon DEF UpdateCPPC, objects, hookVars, exObjs, cacheVars
<1>2. pc' = "idle" /\ w' = NoCPPC /\ fresh' = fresh \ {"worker"}
  BY <1>1, Zenon DEF Requeue, Finish
<1>3. "cache" \in fresh => cached = cppc
  BY Zenon DEF Inv, Cache
<1>4. /\ "worker" \notin fresh' /\ ("cache" \in fresh' => cached' = cppc) /\ late \subseteq late'
      /\ mwc' \in {0, mwc} /\ ds' \in {0, ds} /\ sa' \in {"none", sa} /\ cached' = cached
  BY <1>1, <1>2, <1>3
<1> QED
  BY <1>1, <1>2, <1>4, Ended, Zenon

\* An update of the finalizers that is the last step of a Reconcile.
LEMMA LastUpdate ==
  ASSUME Inv, NEW step, NEW fins \in SUBSET Finalizers, UpdateCPPC(step, fins, "idle"),
         IsCurrent => cppc.fins \ {NoPPC} \subseteq fins
  PROVE  Inv'
<1>1. SUFFICES ASSUME IsCurrent
               PROVE  Inv'
  BY UpdateRefused
<1>2. Typed /\ Stored
  BY DEF Inv
<1>3. /\ UNCHANGED <<lastUID, cached, mwc, ds, sa, pods, late>> /\ Finish
      /\ WriteCPPC([cppc EXCEPT !.fins = fins], {})
  BY <1>1, Zenon DEF UpdateCPPC, objects, hookVars, exObjs, cacheVars
<1>4. /\ cppc' \in CPPC
      /\ \/ cppc.deleting /\ fins = {} /\ cppc'.uid = 0 /\ ~cppc'.deleting /\ cppc'.fins = {}
         \/ /\ cppc.deleting => fins # {}
            /\ cppc'.uid = cppc.uid /\ cppc'.deleting = cppc.deleting
            /\ cppc'.plugin = cppc.plugin /\ cppc'.fins = fins
      /\ "worker" \notin fresh'
      /\ "cache" \in fresh' => "cache" \in fresh /\ cppc' = cppc
  <2>1. {} \in SUBSET {"worker"} /\ "worker" \notin {}
    OBVIOUS
  <2> QED
    BY <1>3, <2>1, NewFinalizers, Zenon
<1>5. cppc.uid # 0
  <2>1. pc # "idle" => w.uid # 0
    BY Zenon DEF Inv, Working
  <2>2. "worker" \in fresh => pc # "idle"
    BY Zenon DEF Inv, Working
  <2> QED
    BY <1>1, <2>1, <2>2, Zenon DEF IsCurrent
<1>6. /\ PodPlacement \in cppc.fins => PodPlacement \in fins
      /\ ExecFormatError \in cppc.fins => ExecFormatError \in fins
      /\ PodPlacement \in fins => fins # {}
      /\ ExecFormatError \in fins => fins # {}
  BY <1>1, Names
<1>7. /\ PodPlacement \in cppc.fins => cppc'.uid = cppc.uid /\ PodPlacement \in cppc'.fins
      /\ ExecFormatError \in cppc.fins => cppc'.uid = cppc.uid /\ ExecFormatError \in cppc'.fins
  BY <1>4, <1>6, Zenon
<1>8. /\ cppc'.uid = 0 => cppc'.fins = {} /\ ~cppc'.deleting
      /\ cppc'.deleting => cppc'.fins # {}
      /\ cppc'.uid = cppc.uid /\ cppc.deleting => cppc'.deleting
  BY <1>4, <1>5, Zenon
<1>9. /\ lastUID' \in Owner /\ lastUID <= lastUID' /\ cppc'.uid <= lastUID'
      /\ cppc'.uid \in {0, cppc.uid}
  <2>1. lastUID \in Owner /\ cppc.uid \in Owner /\ cppc.uid <= lastUID
    BY <1>2, Fields DEF Typed, Stored
  <2>2. cppc'.uid = 0 \/ cppc'.uid = cppc.uid
    BY <1>4, Zenon
  <2> QED
    BY <1>3, <2>1, <2>2, OperatorAssumption DEF Owner
<1> QED
  BY <1>3, <1>4, <1>7, <1>8, <1>9, Written DEF Finish

\* An update after which the Reconcile goes on with the answer, without one of
\* the finalizers.
Dropped(f) ==
    /\ cppc' \in CPPC /\ w' \in CPPC
    /\ w'.uid = w.uid /\ w'.deleting = w.deleting /\ w'.plugin = w.plugin
    /\ w'.fins = cppc.fins \ {f}
    /\ w.deleting = cppc.deleting /\ w.plugin = cppc.plugin /\ cppc.uid = w.uid /\ w.uid # 0
    /\ \/ /\ cppc.deleting /\ cppc.fins \subseteq {f}
          /\ cppc'.uid = 0 /\ ~cppc'.deleting /\ cppc'.fins = {}
       \/ /\ cppc.deleting => cppc.fins \ {f} # {}
          /\ cppc'.uid = cppc.uid /\ cppc'.deleting = cppc.deleting
          /\ cppc'.plugin = cppc.plugin /\ cppc'.fins = cppc.fins \ {f}
    /\ "cache" \in fresh' => "cache" \in fresh /\ cppc' = cppc
    /\ UNCHANGED <<lastUID, cached, mwc, ds, sa, pods, late>>

LEMMA Dropping ==
  ASSUME Inv, NEW step \in {"exUpdate", "cppcFin"}, NEW f \in Finalizers,
         NEW next \in {"delPPC", "apply", "delRest"}, UpdateCPPC(step, w.fins \ {f}, next), IsCurrent
  PROVE  Dropped(f) /\ pc = step /\ pc' = next
<1>1. Typed
  BY DEF Inv
<1>2. pc = step /\ pc # "idle" /\ pc # "update" /\ next # "idle"
  <2>1. pc = step
    BY Zenon DEF UpdateCPPC
  <2> QED
    BY <2>1
<1>3. /\ WriteCPPC([cppc EXCEPT !.fins = w.fins \ {f}], {"worker"})
      /\ pc' = next /\ w' = [w EXCEPT !.fins = w.fins \ {f}, !.status = cppc.status]
      /\ UNCHANGED <<lastUID, cached, mwc, ds, sa, pods, late>>
  BY <1>2, Zenon DEF UpdateCPPC, objects, hookVars, exObjs, cacheVars
<1>4. w.deleting = cppc.deleting /\ w.plugin = cppc.plugin /\ w.fins = cppc.fins
  BY <1>2, Zenon DEF Inv, Current
<1>5. cppc.uid = w.uid /\ w.uid # 0
  BY <1>2, Zenon DEF Inv, Working, IsCurrent
<1> DEFINE fins == w.fins \ {f}
<1>6. fins \in SUBSET Finalizers
  BY <1>1, Fields DEF Typed
<1>7. /\ w' \in CPPC /\ w'.uid = w.uid /\ w'.deleting = w.deleting /\ w'.plugin = w.plugin
      /\ w'.fins = fins
  <2>1. ASSUME NEW Flag, NEW q \in CPPCOf(Flag), NEW s \in Status, NEW g \in SUBSET Finalizers
        PROVE  LET d == [q EXCEPT !.fins = g, !.status = s]
               IN  /\ d \in CPPCOf(Flag) /\ d.uid = q.uid /\ d.deleting = q.deleting
                   /\ d.plugin = q.plugin /\ d.fins = g
    BY Zenon DEF CPPCOf
  <2>2. cppc.status \in Status /\ w \in CPPC
    BY <1>1, Fields DEF Typed
  <2> QED
    BY <1>3, <1>6, <2>1, <2>2, Zenon DEF CPPC, CPPCOf
<1>8. /\ cppc' \in CPPC
      /\ \/ cppc.deleting /\ fins = {} /\ cppc'.uid = 0 /\ ~cppc'.deleting /\ cppc'.fins = {}
         \/ /\ cppc.deleting => fins # {}
            /\ cppc'.uid = cppc.uid /\ cppc'.deleting = cppc.deleting
            /\ cppc'.plugin = cppc.plugin /\ cppc'.fins = fins
      /\ "cache" \in fresh' => "cache" \in fresh /\ cppc' = cppc
  <2>1. {"worker"} \in SUBSET {"worker"}
    OBVIOUS
  <2>2. WriteCPPC([cppc EXCEPT !.fins = fins], {"worker"})
    BY <1>3
  <2> HIDE DEF fins
  <2> QED
    BY <1>6, <2>1, <2>2, NewFinalizers, Zenon
<1>9. fins = cppc.fins \ {f} /\ (fins = {} => cppc.fins \subseteq {f})
  BY <1>4
<1> HIDE DEF fins
<1> QED
  BY <1>2, <1>3, <1>4, <1>5, <1>7, <1>8, <1>9, Zenon DEF Dropped

\* What the two removals have in common.
LEMMA DroppedFacts ==
  ASSUME Inv, NEW f \in Finalizers, Dropped(f), pc' \in Steps
  PROVE  /\ Typed' /\ Stored'
         /\ "cache" \in fresh' => cached' = cppc'
         /\ cached'.uid = 0 => ~cached'.deleting
         /\ cached'.uid = cppc'.uid /\ cached'.deleting => cppc'.deleting
         /\ w'.uid # 0 /\ (cppc'.uid = w'.uid =>
                             w'.deleting = cppc'.deleting /\ w'.plugin = cppc'.plugin
                             /\ w'.fins = cppc'.fins)
<1>1. Typed /\ Stored /\ Cache
  BY DEF Inv
<1>2. Typed'
  BY <1>1, Zenon DEF Typed, Dropped
<1>3. cppc'.uid = 0 \/ cppc'.uid = cppc.uid
  BY Zenon DEF Dropped
<1>4. cppc'.uid <= lastUID' /\ cached'.uid <= lastUID' /\ w'.uid <= lastUID'
  <2>1. cppc.uid \in Owner /\ lastUID \in Owner
    BY <1>1, Fields DEF Typed
  <2>2. w'.uid = w.uid /\ cached' = cached /\ lastUID' = lastUID
    BY Zenon DEF Dropped
  <2> QED
    BY <1>1, <1>3, <2>1, <2>2, OperatorAssumption DEF Stored, Owner
<1>5. Stored'
  <2>1. cppc.uid # 0
    BY Zenon DEF Dropped
  <2> QED
    BY <1>4, <2>1, Zenon DEF Stored, Dropped
<1>6. cached' = cached /\ ("cache" \in fresh' => "cache" \in fresh /\ cppc' = cppc)
  BY Zenon DEF Dropped
<1>7. "cache" \in fresh' => cached' = cppc'
  BY <1>1, <1>6, Zenon DEF Cache
<1>8. cached'.uid = cppc'.uid /\ cached'.deleting => cppc'.deleting
  <2>1. cppc.uid # 0
    BY Zenon DEF Dropped
  <2> QED
    BY <1>1, <1>6, <2>1, Zenon DEF Cache, Dropped
<1>9. w'.uid # 0 /\ (cppc'.uid = w'.uid =>
                       w'.deleting = cppc'.deleting /\ w'.plugin = cppc'.plugin
                       /\ w'.fins = cppc'.fins)
  BY Zenon DEF Dropped
<1> QED
  BY <1>1, <1>2, <1>5, <1>6, <1>7, <1>8, <1>9, Zenon DEF Cache

LEMMA ExecFormatErrorRemoved ==
  ASSUME Inv, RemoveExecFormatErrorFinalizer
  PROVE  Inv'
<1>1. SUFFICES ASSUME IsCurrent
               PROVE  Inv'
  BY UpdateRefused DEF RemoveExecFormatErrorFinalizer
<1>2. Typed /\ Stored /\ Cache /\ Working /\ Copy /\ Current /\ Operands
  BY DEF Inv
<1>3. /\ Dropped(ExecFormatError) /\ pc = "exUpdate"
      /\ pc' = IF w.deleting THEN "delPPC" ELSE "apply"
  <2> DEFINE next == IF w.deleting THEN "delPPC" ELSE "apply"
  <2>1. UpdateCPPC("exUpdate", w.fins \ {ExecFormatError}, next)
    BY Zenon DEF RemoveExecFormatErrorFinalizer, ExecFormatError
  <2>2. next \in {"delPPC", "apply", "delRest"} /\ "exUpdate" \in {"exUpdate", "cppcFin"}
    OBVIOUS
  <2> HIDE DEF next
  <2>3. Dropped(ExecFormatError) /\ pc = "exUpdate" /\ pc' = next
    BY <1>1, <2>1, <2>2, Dropping, Names, Zenon
  <2> QED
    BY <2>3, Zenon DEF next
<1>4. (w.deleting /\ pc' = "delPPC") \/ (~w.deleting /\ pc' = "apply")
  BY <1>3, Zenon
<1>5. pc' \in Steps
  BY <1>4 DEF Steps
<1>6. /\ Typed' /\ Stored'
      /\ "cache" \in fresh' => cached' = cppc'
      /\ cached'.uid = 0 => ~cached'.deleting
      /\ cached'.uid = cppc'.uid /\ cached'.deleting => cppc'.deleting
      /\ w'.uid # 0 /\ (cppc'.uid = w'.uid =>
                          w'.deleting = cppc'.deleting /\ w'.plugin = cppc'.plugin
                          /\ w'.fins = cppc'.fins)
  BY <1>3, <1>5, Names, DroppedFacts
<1>7. /\ pc \in Cleaning /\ pc \in Cleaning \cup {"dependents"} /\ pc \in Deploying \cup Cleaning
      /\ pc # "idle"
  BY <1>3 DEF Cleaning
<1>8. PodPlacement \in cppc.fins => cppc'.uid = cppc.uid /\ PodPlacement \in cppc'.fins
  <2>1. /\ PodPlacement \in cppc.fins => PodPlacement \in cppc.fins \ {ExecFormatError}
        /\ PodPlacement \in cppc.fins => ~(cppc.fins \subseteq {ExecFormatError})
    BY Names
  <2> QED
    BY <1>3, <2>1, Zenon DEF Dropped
<1>9. cached.uid = 0 \/ cached = cppc
  BY <1>1, <1>2, <1>7, Zenon DEF Current, Cache, IsCurrent
<1>10. w.deleting \/ ~w.plugin
  BY <1>2, <1>7, Zenon DEF Working
<1>11. Cache'
  BY <1>3, <1>6, <1>8, <1>9, <1>10, Zenon DEF Cache, Dropped
<1>12. /\ pc' # "idle" /\ pc' # "update" /\ pc' \notin Cleaning /\ pc' \notin Cleaning \cup {"dependents"}
       /\ pc' \notin {"exDrain", "exDelete", "exUpdate"} /\ pc' \notin {"ctlFin", "cppcFin"}
       /\ pc' \notin {"listPods", "ctlFin", "cppcFin"}
       /\ pc' \in Deleting <=> pc' = "delPPC"
       /\ pc' \in Deploying \cup {"update"} => pc' = "apply"
       /\ pc' \in Deploying \cup Cleaning => pc' = "apply"
       /\ pc' \in Deploying \ {"status"} => pc' = "apply"
  BY <1>4 DEF Deploying, Cleaning, Deleting
<1>13. w'.deleting = w.deleting /\ w'.plugin = w.plugin /\ w'.uid = w.uid /\ cached' = cached
  BY <1>3, Zenon DEF Dropped
<1>14. Working'
  BY <1>4, <1>6, <1>12, <1>13, Zenon DEF Working
<1>15. Copy'
  <2>1. ~w.deleting => cppc.uid = w.uid /\ PodPlacement \in cppc.fins
    BY <1>2, <1>7, Zenon DEF Copy
  <2>2. w.deleting /\ cached.uid = w.uid => cached.deleting
    BY <1>2, <1>7, Zenon DEF Copy
  <2>3. pc' = "apply" => ~w.deleting /\ ~w.plugin
    BY <1>4, <1>10
  <2> QED
    BY <1>6, <1>8, <1>12, <1>13, <2>1, <2>2, <2>3, Zenon DEF Copy
<1>16. Current'
  BY <1>6, <1>12, Zenon DEF Current, IsCurrent
<1>17. Operands'
  <2>1. ds = 0 /\ sa = "none"
    BY <1>2, <1>3 DEF Operands
  <2>2. UNCHANGED <<mwc, ds, sa, pods, late>>
    BY <1>3, Zenon DEF Dropped
  <2>3. WebhookNeverOutlivesCPPC'
    BY <1>2, <1>8, <2>2, Zenon DEF Operands, WebhookNeverOutlivesCPPC, PodPlacement
  <2> QED
    BY <1>2, <1>8, <1>12, <2>1, <2>2, <2>3, Zenon DEF Operands, MonitorIsRemoved
<1> QED
  BY <1>6, <1>11, <1>14, <1>15, <1>16, <1>17, Zenon DEF Inv

LEMMA PodPlacementRemoved ==
  ASSUME Inv, RemovePodPlacementFinalizer
  PROVE  Inv'
<1>1. SUFFICES ASSUME IsCurrent
               PROVE  Inv'
  BY UpdateRefused DEF RemovePodPlacementFinalizer
<1>2. Typed /\ Stored /\ Cache /\ Working /\ Copy /\ Current /\ Operands
  BY DEF Inv
<1>3. Dropped(PodPlacement) /\ pc = "cppcFin" /\ pc' = "delRest"
  <2>1. UpdateCPPC("cppcFin", w.fins \ {PodPlacement}, "delRest")
    BY Zenon DEF RemovePodPlacementFinalizer, PodPlacement
  <2>2. "delRest" \in {"delPPC", "apply", "delRest"} /\ "cppcFin" \in {"exUpdate", "cppcFin"}
    OBVIOUS
  <2> QED
    BY <1>1, <2>1, <2>2, Dropping, Names, Zenon
<1>4. pc' \in Steps /\ pc \in Deleting /\ pc # "idle"
  BY <1>3 DEF Steps, Deleting
<1>5. /\ Typed' /\ Stored'
      /\ "cache" \in fresh' => cached' = cppc'
      /\ cached'.uid = 0 => ~cached'.deleting
      /\ cached'.uid = cppc'.uid /\ cached'.deleting => cppc'.deleting
      /\ w'.uid # 0 /\ (cppc'.uid = w'.uid =>
                          w'.deleting = cppc'.deleting /\ w'.plugin = cppc'.plugin
                          /\ w'.fins = cppc'.fins)
  BY <1>3, <1>4, Names, DroppedFacts
<1>6. /\ w'.deleting = w.deleting /\ w'.plugin = w.plugin /\ w'.uid = w.uid /\ cached' = cached
      /\ w.uid = cppc.uid /\ UNCHANGED <<mwc, ds, sa, pods, late>>
  BY <1>3, Zenon DEF Dropped
<1>7. w.deleting /\ (cached.uid = cppc.uid => cached.deleting)
  BY <1>2, <1>4, <1>6, Zenon DEF Working, Copy
<1>8. Cache'
  BY <1>2, <1>5, <1>6, <1>7, Zenon DEF Cache
<1>9. /\ pc' # "idle" /\ pc' # "update" /\ pc' \notin Cleaning /\ pc' \notin Cleaning \cup {"dependents"}
      /\ pc' \notin {"exDrain", "exDelete", "exUpdate"} /\ pc' \notin {"ctlFin", "cppcFin"}
      /\ pc' \notin {"listPods", "ctlFin", "cppcFin"}
      /\ pc' \notin Deploying \cup {"update"} /\ pc' \notin Deploying \cup Cleaning
      /\ pc' \notin Deploying \ {"status"}
  BY <1>3 DEF Deploying, Cleaning
<1>10. Working'
  BY <1>5, <1>6, <1>7, <1>9, Zenon DEF Working
<1>11. Copy'
  BY <1>5, <1>6, <1>7, <1>9, Zenon DEF Copy
<1>12. Current'
  BY <1>5, <1>9, Zenon DEF Current, IsCurrent
<1>13. Operands'
  <2>1. /\ mwc = 0
        /\ \A p \in Pods : pods[p] \in {"admitted", "gated"} => p \in late
    BY <1>2, <1>3 DEF Operands
  <2>2. ExecFormatError \in cppc.fins => ExecFormatError \in cppc'.fins
    <3>1. /\ ExecFormatError \in cppc.fins => ExecFormatError \in cppc.fins \ {PodPlacement}
          /\ ExecFormatError \in cppc.fins => ~(cppc.fins \subseteq {PodPlacement})
      BY Names
    <3> QED
      BY <1>3, <3>1, Zenon DEF Dropped
  <2>3. WebhookNeverOutlivesCPPC' /\ MonitorIsRemoved'
    BY <1>2, <1>6, <2>1, <2>2, Zenon DEF Operands, WebhookNeverOutlivesCPPC, MonitorIsRemoved,
       ExecFormatError
  <2> QED
    BY <1>6, <1>9, <2>1, <2>3, Zenon DEF Operands
<1> QED
  BY <1>5, <1>8, <1>10, <1>11, <1>12, <1>13, Zenon DEF Inv

-----------------------------------------------------------------------------
\* The actions.

LEMMA WriteOfUser ==
  ASSUME NEW new \in CPPC, WriteCPPC(new, {})
  PROVE  /\ cppc' \in CPPC
         /\ new.deleting /\ new.fins = {} => cppc' = NoCPPC
         /\ ~(new.deleting /\ new.fins = {}) => cppc' = new
         /\ "worker" \notin fresh'
         /\ "cache" \in fresh' => "cache" \in fresh /\ cppc' = cppc
<1>1. cppc' = Settled(new)
  BY Zenon DEF WriteCPPC
<1>2. fresh' = IF cppc' = cppc THEN (fresh \cap {"cache"}) \cup {} ELSE {}
  BY Zenon DEF WriteCPPC
<1>3. /\ "worker" \notin fresh'
      /\ "cache" \in fresh' => "cache" \in fresh /\ cppc' = cppc
  BY <1>2
<1>4. CASE new.deleting /\ new.fins = {}
  BY <1>1, <1>3, <1>4, None, Zenon DEF Settled
<1>5. CASE ~(new.deleting /\ new.fins = {})
  BY <1>1, <1>3, <1>5, Zenon DEF Settled
<1> QED
  BY <1>4, <1>5

LEMMA CPPCWritten ==
  ASSUME Inv, CreateCPPC \/ DeleteCPPC \/ ChangePlugin
  PROVE  Inv'
<1>1. Typed /\ Stored
  BY DEF Inv
<1>2. UNCHANGED <<cached, pc, w, mwc, ds, sa, pods, late>>
  BY Zenon DEF CreateCPPC, DeleteCPPC, ChangePlugin, hookVars, exObjs, cacheVars, workVars
<1>3. /\ cppc \in CPPC /\ lastUID \in Owner /\ cppc.uid \in Owner /\ cppc.uid <= lastUID
      /\ 0 \in Owner
  BY <1>1, Fields, None DEF Typed, Stored
<1>5. CASE CreateCPPC
  <2>1. /\ cppc.uid = 0 /\ lastUID < MaxUID /\ lastUID' = lastUID + 1
        /\ \E plugin \in PluginChoices :
             WriteCPPC([NoCPPC EXCEPT !.uid = lastUID', !.plugin = plugin], {})
    BY <1>5, Zenon DEF CreateCPPC
  <2>2. lastUID' \in Owner /\ lastUID <= lastUID' /\ lastUID' > lastUID /\ lastUID' # 0
    BY <1>3, <2>1, OperatorAssumption DEF Owner
  <2>3. PICK plugin \in PluginChoices :
          WriteCPPC([NoCPPC EXCEPT !.uid = lastUID', !.plugin = plugin], {})
    BY <2>1, Zenon
  <2>4. plugin \in BOOLEAN
    BY OperatorAssumption
  <2> DEFINE new == [NoCPPC EXCEPT !.uid = lastUID', !.plugin = plugin]
  <2>5. new \in CPPC /\ new.uid = lastUID' /\ ~new.deleting /\ new.fins = {}
    BY <2>2, <2>4, NewCPPC, Zenon
  <2>6. WriteCPPC(new, {})
    BY <2>3
  <2> HIDE DEF new
  <2>7. /\ cppc' = new /\ "worker" \notin fresh'
        /\ "cache" \in fresh' => "cache" \in fresh /\ cppc' = cppc
    BY <2>5, <2>6, WriteOfUser, Zenon
  <2>8. PodPlacement \notin cppc.fins /\ ExecFormatError \notin cppc.fins
    BY <1>1, <2>1 DEF Stored
  <2>9. cppc' \in CPPC /\ cppc'.uid = lastUID' /\ ~cppc'.deleting /\ cppc'.fins = {}
    BY <2>5, <2>7, Zenon
  <2>10. cppc'.uid <= lastUID' /\ cppc'.uid > lastUID /\ cppc'.uid # 0 /\ cppc'.uid # cppc.uid
    BY <1>3, <2>1, <2>2, <2>9, OperatorAssumption DEF Owner
  <2> QED
    BY <1>2, <2>2, <2>7, <2>8, <2>9, <2>10, Written
<1>6. CASE DeleteCPPC
  <2>1. /\ cppc.uid # 0 /\ ~cppc.deleting /\ UNCHANGED lastUID
        /\ WriteCPPC([cppc EXCEPT !.deleting = TRUE], {})
    BY <1>6, Zenon DEF DeleteCPPC
  <2> DEFINE new == [cppc EXCEPT !.deleting = TRUE]
  <2>2. new \in CPPC /\ new.uid = cppc.uid /\ new.deleting /\ new.fins = cppc.fins
    BY <1>3, SetDeleting
  <2>3. WriteCPPC(new, {})
    BY <2>1
  <2> HIDE DEF new
  <2>4. /\ cppc' \in CPPC
        /\ new.deleting /\ new.fins = {} => cppc' = NoCPPC
        /\ ~(new.deleting /\ new.fins = {}) => cppc' = new
        /\ "worker" \notin fresh'
        /\ "cache" \in fresh' => "cache" \in fresh /\ cppc' = cppc
    BY <2>2, <2>3, WriteOfUser, Zenon
  <2>5. CASE cppc.fins = {}
    <3>1. cppc'.uid = 0 /\ cppc'.fins = {} /\ ~cppc'.deleting
      BY <2>2, <2>4, <2>5, None, Zenon
    <3>2. /\ lastUID' \in Owner /\ lastUID <= lastUID' /\ cppc'.uid <= lastUID'
          /\ cppc'.uid \in {0, cppc.uid}
      BY <1>3, <2>1, <3>1, OperatorAssumption DEF Owner
    <3>3. PodPlacement \notin cppc.fins /\ ExecFormatError \notin cppc.fins
      BY <2>5
    <3>4. /\ cppc'.uid = 0 => cppc'.fins = {} /\ ~cppc'.deleting
          /\ cppc'.deleting => cppc'.fins # {}
          /\ cppc'.uid = cppc.uid /\ cppc.deleting => cppc'.deleting
      BY <2>1, <3>1, Zenon
    <3> QED
      BY <1>2, <2>4, <3>2, <3>3, <3>4, Written
  <2>6. CASE cppc.fins # {}
    <3>1. cppc'.uid = cppc.uid /\ cppc'.fins = cppc.fins /\ cppc'.deleting
      BY <2>2, <2>4, <2>6, Zenon
    <3>2. /\ lastUID' \in Owner /\ lastUID <= lastUID' /\ cppc'.uid <= lastUID'
          /\ cppc'.uid \in {0, cppc.uid}
      BY <1>3, <2>1, <3>1, OperatorAssumption DEF Owner
    <3>3. /\ cppc'.uid = 0 => cppc'.fins = {} /\ ~cppc'.deleting
          /\ cppc'.deleting => cppc'.fins # {}
          /\ cppc'.uid = cppc.uid /\ cppc.deleting => cppc'.deleting
          /\ PodPlacement \in cppc.fins => cppc'.uid = cppc.uid /\ PodPlacement \in cppc'.fins
          /\ ExecFormatError \in cppc.fins => cppc'.uid = cppc.uid /\ ExecFormatError \in cppc'.fins
      BY <2>1, <2>6, <3>1, Zenon
    <3> QED
      BY <1>2, <2>4, <3>2, <3>3, Written
  <2> QED
    BY <2>5, <2>6
<1>7. CASE ChangePlugin
  <2>1. /\ cppc.uid # 0 /\ ~cppc.deleting /\ UNCHANGED lastUID
        /\ \E plugin \in PluginChoices \ {cppc.plugin} : WriteCPPC([cppc EXCEPT !.plugin = plugin], {})
    BY <1>7, Zenon DEF ChangePlugin
  <2>2. PICK plugin \in PluginChoices \ {cppc.plugin} : WriteCPPC([cppc EXCEPT !.plugin = plugin], {})
    BY <2>1, Zenon
  <2>3. plugin \in BOOLEAN
    BY OperatorAssumption
  <2> DEFINE new == [cppc EXCEPT !.plugin = plugin]
  <2>4. new \in CPPC /\ new.uid = cppc.uid /\ new.deleting = cppc.deleting /\ new.fins = cppc.fins
    BY <1>3, <2>3, SetPlugin
  <2>5. WriteCPPC(new, {})
    BY <2>2
  <2> HIDE DEF new
  <2>6. /\ cppc' = new /\ "worker" \notin fresh'
        /\ "cache" \in fresh' => "cache" \in fresh /\ cppc' = cppc
    BY <2>1, <2>4, <2>5, WriteOfUser, Zenon
  <2>7. cppc' \in CPPC /\ cppc'.uid = cppc.uid /\ ~cppc'.deleting /\ cppc'.fins = cppc.fins
    BY <2>1, <2>4, <2>6, Zenon
  <2>8. /\ lastUID' \in Owner /\ lastUID <= lastUID' /\ cppc'.uid <= lastUID'
        /\ cppc'.uid \in {0, cppc.uid} /\ cppc'.uid # 0
    BY <1>3, <2>1, <2>7, OperatorAssumption DEF Owner
  <2>9. /\ cppc'.uid = 0 => cppc'.fins = {} /\ ~cppc'.deleting
        /\ cppc'.deleting => cppc'.fins # {}
        /\ cppc'.uid = cppc.uid /\ cppc.deleting => cppc'.deleting
        /\ PodPlacement \in cppc.fins => cppc'.uid = cppc.uid /\ PodPlacement \in cppc'.fins
        /\ ExecFormatError \in cppc.fins => cppc'.uid = cppc.uid /\ ExecFormatError \in cppc'.fins
    BY <2>1, <2>7, <2>8, Zenon
  <2> QED
    BY <1>2, <2>6, <2>7, <2>8, <2>9, Written
<1> QED
  BY <1>5, <1>6, <1>7

LEMMA UserSteps ==
  ASSUME Inv, Users \/ Cluster \/ OperandsDown \/ UNCHANGED vars
               \/ PPCEvent \/ OwnedEvent \/ ENoExecEventEvent \/ ReconcileGone
  PROVE  Inv'
<1>1. pods \in [Pods -> {"new", "admitted", "gated", "free"}]
  BY DEF Inv, Typed
<1>2. CASE \E p \in Pods : AdmitPod(p) \/ StorePod(p) \/ ReleasePod(p)
  <2>1. PICK p \in Pods : AdmitPod(p) \/ StorePod(p) \/ ReleasePod(p)
    BY <1>2
  <2>2. UNCHANGED <<cppc, lastUID, cached, fresh, pc, w, late, mwc, ds, sa>>
    BY <2>1, Zenon DEF AdmitPod, StorePod, ReleasePod, cppcVars, cacheVars, workVars, hookVars,
       exObjs
  <2>3. \/ mwc # 0 /\ pods' = [pods EXCEPT ![p] = "admitted"]
        \/ pods[p] = "admitted" /\ pods' = [pods EXCEPT ![p] = "gated"]
        \/ pods' = [pods EXCEPT ![p] = "free"]
    BY <2>1, Zenon DEF AdmitPod, StorePod, ReleasePod
  <2>4. pods' \in [Pods -> {"new", "admitted", "gated", "free"}]
    BY <1>1, <2>3
  <2>5. \A q \in Pods : pods'[q] \in {"admitted", "gated"} =>
          pods[q] \in {"admitted", "gated"} \/ mwc # 0
    BY <1>1, <2>3
  <2>6. mwc' \in {0, mwc} /\ ds' \in {0, ds} /\ (sa' = "none" <=> sa = "none")
    BY <2>2
  <2> QED
    BY <2>2, <2>4, <2>5, <2>6, Quiet
<1>3. CASE UNCHANGED <<cppc, lastUID, cached, fresh, pc, w, late, pods>>
           /\ mwc' \in {0, mwc} /\ ds' \in {0, ds} /\ (sa' = "none" <=> sa = "none")
  BY <1>1, <1>3, Quiet
<1>4. CASE CollectGarbage
  <2>1. /\ mwc' \in Collected(mwc) /\ ds' \in Collected(ds)
        /\ UNCHANGED <<cppc, lastUID, cached, fresh, pc, w, late, pods, sa>>
    BY <1>4, Zenon DEF CollectGarbage, cppcVars, cacheVars, workVars
  <2>2. mwc' \in {0, mwc} /\ ds' \in {0, ds} /\ (sa' = "none" <=> sa = "none")
    BY <2>1 DEF Collected
  <2> QED
    BY <1>3, <2>1, <2>2
<1>5. CASE ProvisionServiceAccount
  <2>1. /\ UNCHANGED <<cppc, lastUID, cached, fresh, pc, w, late, pods, mwc, ds>>
        /\ sa = "bare" /\ sa' = "ready"
    BY <1>5, Zenon DEF ProvisionServiceAccount, cppcVars, cacheVars, workVars, hookVars
  <2>2. mwc' \in {0, mwc} /\ ds' \in {0, ds} /\ (sa' = "none" <=> sa = "none")
    BY <2>1
  <2> QED
    BY <1>3, <2>1, <2>2
<1>6. CASE \/ CreatePPC \/ StorePPC \/ DeletePPC \/ DeleteController
           \/ RollOut \/ DaemonReports \/ StoreEvent \/ HandlerReconciles \/ OperandsDown
           \/ UNCHANGED vars \/ PPCEvent \/ OwnedEvent \/ ENoExecEventEvent \/ ReconcileGone
  <2>1. UNCHANGED <<cppc, lastUID, cached, fresh, pc, w, late, pods, mwc, ds, sa>>
    BY <1>6, Zenon DEF CreatePPC, StorePPC, DeletePPC, DeleteController, RollOut, DaemonReports,
       StoreEvent, HandlerReconciles, OperandsDown, vars, PPCEvent, OwnedEvent, ENoExecEventEvent,
       ReconcileGone, cppcVars, cacheVars, workVars, hookVars, exObjs, objects
  <2> QED
    BY <1>3, <2>1
<1> QED
  BY <1>2, <1>4, <1>5, <1>6, CPPCWritten, Zenon DEF Users, Cluster

LEMMA BegunUpdate ==
  ASSUME Inv, Active, NEW fins \in SUBSET Finalizers, Fetched.fins \ {NoPPC} \subseteq fins,
         PodPlacement \in fins, Begin("update", [Fetched EXCEPT !.fins = fins])
  PROVE  Inv'
<1>1. Fetched \in CPPC /\ Fetched.uid # 0 /\ ~Fetched.deleting
  BY Zenon DEF Active, Fetched, Inv, Typed
<1> DEFINE copy == [Fetched EXCEPT !.fins = fins]
<1>2. /\ copy \in CPPC /\ copy.uid = Fetched.uid /\ copy.deleting = Fetched.deleting
      /\ copy.plugin = Fetched.plugin /\ copy.fins = fins
  BY <1>1, SetFins
<1>3. Begin("update", copy)
  OBVIOUS
<1> HIDE DEF copy
<1>4. /\ "update" \in {"update", "exDaemon", "delPPC", "deployment", "dependents"}
      /\ "update" \notin {"exDaemon", "delPPC"} /\ "update" \notin Deploying
  BY DEF Deploying
<1>5. Fetched.fins \ {NoPPC} \subseteq copy.fins /\ PodPlacement \in copy.fins
  BY <1>2
<1> QED
  BY <1>1, <1>2, <1>3, <1>4, <1>5, Begun, Zenon

LEMMA ReconcileBegins ==
  ASSUME Inv, \/ ReconcileDeletion \/ AddPodPlacementFinalizer \/ FollowPPCs
              \/ AddExecFormatErrorFinalizer \/ ReconcileOperands
  PROVE  Inv'
<1>1. Fetched \in CPPC
  BY Zenon DEF Fetched, Inv, Typed
<1>2. Fetched.fins \in SUBSET Finalizers
  BY <1>1, Fields
<1>3. CASE ReconcileDeletion
  <2> DEFINE step == IF ExecFormatError \in Fetched.fins THEN "exDaemon" ELSE "delPPC"
  <2>1. Fetched.deleting /\ Begin(step, Fetched)
    BY <1>3, Zenon DEF ReconcileDeletion, ExecFormatError
  <2>2. Fetched.uid # 0
    BY <2>1, Zenon DEF Fetched, Inv, Stored
  <2>3. /\ step \in {"update", "exDaemon", "delPPC", "deployment", "dependents"}
        /\ step \in {"exDaemon", "delPPC"} /\ step # "update" /\ step \notin Deploying
    BY DEF Deploying
  <2> HIDE DEF step
  <2> QED
    BY <1>1, <2>1, <2>2, <2>3, Begun, Zenon
<1>4. CASE AddPodPlacementFinalizer
  <2>1. Active /\ Begin("update", [Fetched EXCEPT !.fins = Fetched.fins \cup {PodPlacement}])
    BY <1>4, Zenon DEF AddPodPlacementFinalizer, PodPlacement
  <2>2. /\ Fetched.fins \cup {PodPlacement} \in SUBSET Finalizers
        /\ Fetched.fins \ {NoPPC} \subseteq Fetched.fins \cup {PodPlacement}
        /\ PodPlacement \in Fetched.fins \cup {PodPlacement}
    BY <1>2, Names
  <2> QED
    BY <2>1, <2>2, BegunUpdate
<1>5. CASE FollowPPCs
  <2> DEFINE fins == IF ppcSeen THEN Fetched.fins \cup {NoPPC} ELSE Fetched.fins \ {NoPPC}
  <2>1. /\ Active /\ PodPlacement \in Fetched.fins
        /\ Begin("update", [Fetched EXCEPT !.fins = fins])
    BY <1>5, Zenon DEF FollowPPCs, PodPlacement, NoPPC
  <2>2. /\ fins \in SUBSET Finalizers /\ Fetched.fins \ {NoPPC} \subseteq fins
        /\ PodPlacement \in fins
    BY <1>2, <2>1, Names
  <2> HIDE DEF fins
  <2> QED
    BY <2>1, <2>2, BegunUpdate
<1>6. CASE AddExecFormatErrorFinalizer
  <2>1. /\ Active /\ PodPlacement \in Fetched.fins
        /\ Begin("update", [Fetched EXCEPT !.fins = Fetched.fins \cup {ExecFormatError}])
    BY <1>6, Zenon DEF AddExecFormatErrorFinalizer, HasFinalizers, PodPlacement, ExecFormatError
  <2>2. /\ Fetched.fins \cup {ExecFormatError} \in SUBSET Finalizers
        /\ Fetched.fins \ {NoPPC} \subseteq Fetched.fins \cup {ExecFormatError}
        /\ PodPlacement \in Fetched.fins \cup {ExecFormatError}
    BY <1>2, <2>1, Names
  <2> QED
    BY <2>1, <2>2, BegunUpdate
<1>7. CASE ReconcileOperands
  <2> DEFINE step == IF Fetched.plugin /\ seen.exDep.owner # 0 /\ ~seen.exDep.fin
                     THEN "deployment" ELSE "dependents"
  <2>1. /\ Active /\ PodPlacement \in Fetched.fins
        /\ Fetched.plugin => ExecFormatError \in Fetched.fins
        /\ Begin(step, Fetched)
    BY <1>7, Zenon DEF ReconcileOperands, HasFinalizers, PodPlacement, ExecFormatError
  <2>2. Fetched.uid # 0 /\ ~Fetched.deleting
    BY <2>1, Zenon DEF Active
  <2>3. /\ step \in {"update", "exDaemon", "delPPC", "deployment", "dependents"}
        /\ step \notin {"exDaemon", "delPPC"} /\ step # "update"
    OBVIOUS
  <2> HIDE DEF step
  <2> QED
    BY <1>1, <2>1, <2>2, <2>3, Begun, Zenon
<1> QED
  BY <1>3, <1>4, <1>5, <1>6, <1>7

LEMMA StepEnds ==
  ASSUME Inv, Return \/ Requeue, UNCHANGED <<cppc, lastUID, cached, pods, late>>,
         mwc' \in {0, mwc}, ds' \in {0, ds}, sa' \in {"none", sa}
  PROVE  Inv'
<1>1. pc' = "idle" /\ w' = NoCPPC /\ fresh' = fresh \ {"worker"}
  BY Zenon DEF Requeue, Return, Finish
<1>2. "cache" \in fresh => cached = cppc
  BY Zenon DEF Inv, Cache
<1>3. /\ "worker" \notin fresh' /\ ("cache" \in fresh' => cached' = cppc) /\ late \subseteq late'
      /\ cached' = cached
  BY <1>1, <1>2
<1> QED
  BY <1>1, <1>3, Ended, Zenon

LEMMA StepGoesOn ==
  ASSUME Inv, NEW next, Goto(next), UNCHANGED <<cppc, lastUID, cached, pods>>,
         \/ pc \in Cleaning /\ next \in {"exDrain", "exDelete", "exUpdate"} /\ ds' = 0 /\ sa' = "none"
         \/ pc = "delPPC" /\ next = "delWebhook"
         \/ pc \in Deleting /\ next = "listPods" /\ mwc' = 0
         \/ /\ pc \in Deleting /\ next \in {"ctlFin", "cppcFin"} /\ mwc' = 0
            /\ \A p \in Pods : pods[p] \in {"admitted", "gated"} => p \in late',
         mwc' \in {0, mwc}, ds' \in {0, ds}, sa' \in {"none", sa}, late \subseteq late'
  PROVE  Inv'
<1>1. pc' = next /\ UNCHANGED <<w, fresh>>
  BY Zenon DEF Goto
<1>2. w' \in CPPC
  BY <1>1, Zenon DEF Inv, Typed
<1>3. /\ pc \notin {"idle", "update"} /\ pc' \in Steps \ {"idle", "update"}
      /\ pc' \notin Deploying /\ pc' # "dependents"
      /\ pc' \in Deleting => pc \in Deleting
      /\ pc' \in Cleaning => pc \in Cleaning
      /\ pc' \in {"listPods", "ctlFin", "cppcFin"} => mwc' = 0
      /\ pc' \in {"exDrain", "exDelete", "exUpdate"} => ds' = 0 /\ sa' = "none"
      /\ pc' \in {"ctlFin", "cppcFin"} =>
           \A p \in Pods : pods[p] \in {"admitted", "gated"} => p \in late'
  BY <1>1 DEF Steps, Deploying, Deleting, Cleaning
<1>4. WebhookNeverOutlivesCPPC' /\ MonitorIsRemoved'
  BY DEF Inv, Operands, WebhookNeverOutlivesCPPC, MonitorIsRemoved
<1> QED
  BY <1>1, <1>2, <1>3, <1>4, Moved

LEMMA CleaningSteps ==
  ASSUME Inv, DeleteDaemon \/ DrainEvents \/ DeleteHandler
  PROVE  Inv'
<1>1. UNCHANGED <<cppc, lastUID, cached, pods, late, mwc>>
  BY Zenon DEF DeleteDaemon, DrainEvents, DeleteHandler, Objects, cppcVars, cacheVars, objects,
     hookVars
<1>2. mwc' \in {0, mwc} /\ late \subseteq late'
  BY <1>1
<1>3. pc \in {"exDrain", "exDelete", "exUpdate"} => ds = 0 /\ sa = "none"
  BY DEF Inv, Operands
<1>4. CASE DeleteDaemon
  <2>1. PICK failed \in SUBSET {"ds", "sa"} :
          /\ ds' = IF "ds" \in failed THEN ds ELSE 0
          /\ sa' = IF "sa" \in failed THEN sa ELSE "none"
          /\ IF failed = {} THEN Goto("exDrain") ELSE Requeue
    BY <1>4, Zenon DEF DeleteDaemon
  <2>2. pc = "exDaemon"
    BY <1>4, Zenon DEF DeleteDaemon
  <2>3. ds' \in {0, ds} /\ sa' \in {"none", sa}
    BY <2>1
  <2>4. CASE failed = {}
    <3>1. ds' = 0 /\ sa' = "none" /\ pc \in Cleaning
      BY <2>1, <2>2, <2>4 DEF Cleaning
    <3>2. Goto("exDrain")
      BY <2>1, <2>4, Zenon
    <3> QED
      BY <1>1, <1>2, <2>3, <3>1, <3>2, StepGoesOn
  <2>5. CASE failed # {}
    <3>1. Requeue
      BY <2>1, <2>5, Zenon
    <3> QED
      BY <1>1, <1>2, <2>3, <3>1, StepEnds
  <2> QED
    BY <2>4, <2>5
<1>5. CASE DrainEvents
  <2>1. /\ pc = "exDrain" /\ UNCHANGED <<ds, sa>>
        /\ Requeue \/ Goto("exDelete")
    BY <1>5, Zenon DEF DrainEvents, objects, exObjs
  <2>2. ds' \in {0, ds} /\ sa' \in {"none", sa} /\ ds' = 0 /\ sa' = "none" /\ pc \in Cleaning
    BY <1>3, <2>1 DEF Cleaning
  <2>3. CASE Requeue
    BY <1>1, <1>2, <2>2, <2>3, StepEnds
  <2>4. CASE Goto("exDelete")
    BY <1>1, <1>2, <2>2, <2>4, StepGoesOn
  <2> QED
    BY <2>1, <2>3, <2>4
<1>6. CASE DeleteHandler
  <2>1. /\ pc = "exDelete" /\ UNCHANGED ds
        /\ (Requeue /\ UNCHANGED sa) \/ (Goto("exUpdate") /\ sa' = "none")
    BY <1>6, Zenon DEF DeleteHandler, Objects
  <2>2. ds' \in {0, ds} /\ sa' \in {"none", sa} /\ ds' = 0 /\ sa' = "none" /\ pc \in Cleaning
    BY <1>3, <2>1 DEF Cleaning
  <2>3. CASE Requeue
    BY <1>1, <1>2, <2>2, <2>3, StepEnds
  <2>4. CASE Goto("exUpdate")
    BY <1>1, <1>2, <2>2, <2>4, StepGoesOn
  <2> QED
    BY <2>1, <2>3, <2>4
<1> QED
  BY <1>4, <1>5, <1>6

LEMMA DeletingSteps ==
  ASSUME Inv, \/ WaitForPPCs \/ DeleteWebhook \/ CheckPods \/ RemoveControllerFinalizer
              \/ DeleteControllerObjects \/ AddDeploymentFinalizer
  PROVE  Inv'
<1>1. UNCHANGED <<cppc, lastUID, cached, pods, ds, sa>>
  BY Zenon DEF WaitForPPCs, DeleteWebhook, CheckPods, RemoveControllerFinalizer,
     DeleteControllerObjects, AddDeploymentFinalizer, Objects, cppcVars, cacheVars, objects, exObjs
<1>2. ds' \in {0, ds} /\ sa' \in {"none", sa}
  BY <1>1
<1>3. /\ pc \in {"listPods", "ctlFin", "cppcFin"} => mwc = 0
      /\ pc \in {"ctlFin", "cppcFin"} =>
           \A p \in Pods : pods[p] \in {"admitted", "gated"} => p \in late
  BY Zenon DEF Inv, Operands
<1>4. CASE WaitForPPCs
  <2>1. /\ pc = "delPPC" /\ UNCHANGED <<mwc, late>>
        /\ Requeue \/ Goto("delWebhook")
    BY <1>4, Zenon DEF WaitForPPCs, objects, hookVars
  <2>2. mwc' \in {0, mwc} /\ late \subseteq late'
    BY <2>1
  <2> QED
    BY <1>1, <1>2, <2>1, <2>2, StepEnds, StepGoesOn
<1>5. CASE DeleteWebhook
  <2>1. PICK failed \in SUBSET {"mwc", "whSvc", "whDep"} :
          /\ mwc' = IF "mwc" \in failed THEN mwc ELSE 0
          /\ IF failed = {} THEN Goto("listPods") ELSE Requeue
    BY <1>5, Zenon DEF DeleteWebhook
  <2>2. pc = "delWebhook" /\ UNCHANGED late
    BY <1>5, Zenon DEF DeleteWebhook
  <2>3. mwc' \in {0, mwc} /\ late \subseteq late'
    BY <2>1, <2>2
  <2>4. CASE failed = {}
    <3>1. mwc' = 0 /\ pc \in Deleting
      BY <2>1, <2>2, <2>4 DEF Deleting
    <3>2. Goto("listPods")
      BY <2>1, <2>4, Zenon
    <3> QED
      BY <1>1, <1>2, <2>3, <3>1, <3>2, StepGoesOn
  <2>5. CASE failed # {}
    <3>1. Requeue
      BY <2>1, <2>5, Zenon
    <3> QED
      BY <1>1, <1>2, <2>2, <2>3, <3>1, StepEnds
  <2> QED
    BY <2>4, <2>5
<1>6. CASE CheckPods
  <2>1. /\ pc = "listPods" /\ UNCHANGED mwc
        /\ \/ Requeue /\ UNCHANGED late
           \/ /\ ~\E p \in Pods : pods[p] = "gated"
              /\ late' = late \cup {p \in Pods : pods[p] = "admitted"}
              /\ Goto("ctlFin")
    BY <1>6, Zenon DEF CheckPods, objects, hookVars
  <2>2. mwc' = 0 /\ mwc' \in {0, mwc} /\ pc \in Deleting /\ late \subseteq late'
    BY <1>3, <2>1 DEF Deleting
  <2>3. CASE Requeue /\ UNCHANGED late
    BY <1>1, <1>2, <2>2, <2>3, StepEnds
  <2>4. CASE /\ ~\E p \in Pods : pods[p] = "gated"
             /\ late' = late \cup {p \in Pods : pods[p] = "admitted"}
             /\ Goto("ctlFin")
    <3>1. \A p \in Pods : pods[p] \in {"admitted", "gated"} => p \in late'
      BY <2>4
    <3> QED
      BY <1>1, <1>2, <2>2, <2>4, <3>1, StepGoesOn
  <2> QED
    BY <2>1, <2>3, <2>4
<1>7. CASE RemoveControllerFinalizer
  <2>1. /\ pc = "ctlFin" /\ UNCHANGED <<mwc, late>>
        /\ Requeue \/ Goto("cppcFin")
    BY <1>7, Zenon DEF RemoveControllerFinalizer, Objects, hookVars
  <2>2. /\ mwc' = 0 /\ mwc' \in {0, mwc} /\ pc \in Deleting /\ late \subseteq late'
        /\ \A p \in Pods : pods[p] \in {"admitted", "gated"} => p \in late'
    BY <1>3, <2>1 DEF Deleting
  <2>3. CASE Requeue
    BY <1>1, <1>2, <2>1, <2>2, <2>3, StepEnds
  <2>4. CASE Goto("cppcFin")
    BY <1>1, <1>2, <2>2, <2>4, StepGoesOn
  <2> QED
    BY <2>1, <2>3, <2>4
<1>8. CASE DeleteControllerObjects \/ AddDeploymentFinalizer
  <2>1. (Return \/ Requeue) /\ UNCHANGED <<mwc, late>>
    BY <1>8, Zenon DEF DeleteControllerObjects, AddDeploymentFinalizer, Objects, hookVars
  <2>2. mwc' \in {0, mwc}
    BY <2>1
  <2> QED
    BY <1>1, <1>2, <2>1, <2>2, StepEnds
<1> QED
  BY <1>4, <1>5, <1>6, <1>7, <1>8

LEMMA FinalizerSteps ==
  ASSUME Inv, UpdateFinalizers \/ RemoveNoPPCFinalizer
  PROVE  Inv'
<1>1. w.fins \in SUBSET Finalizers
  BY Fields DEF Inv, Typed
<1>2. IsCurrent /\ pc # "idle" =>
        IF pc = "update" THEN cppc.fins \ {NoPPC} \subseteq w.fins ELSE w.fins = cppc.fins
  BY Zenon DEF Inv, Current
<1>3. CASE UpdateFinalizers
  <2>1. UpdateCPPC("update", w.fins, "idle")
    BY <1>3, Zenon DEF UpdateFinalizers
  <2>2. pc = "update"
    BY <2>1, Zenon DEF UpdateCPPC
  <2>3. IsCurrent => cppc.fins \ {NoPPC} \subseteq w.fins
    BY <1>2, <2>2
  <2> QED
    BY <1>1, <2>1, <2>3, LastUpdate
<1>4. CASE RemoveNoPPCFinalizer
  <2> DEFINE fins == w.fins \ {NoPPC}
  <2>1. UpdateCPPC("delPPC", fins, "idle")
    BY <1>4, Zenon DEF RemoveNoPPCFinalizer, NoPPC
  <2>2. pc = "delPPC"
    BY <2>1, Zenon DEF UpdateCPPC
  <2>3. fins \in SUBSET Finalizers /\ (IsCurrent => cppc.fins \ {NoPPC} \subseteq fins)
    BY <1>1, <1>2, <2>2
  <2> HIDE DEF fins
  <2> QED
    BY <2>1, <2>3, LastUpdate
<1> QED
  BY <1>3, <1>4

LEMMA DeployingSteps ==
  ASSUME Inv, DependentsStatus \/ Apply
  PROVE  Inv'
<1>1. Typed /\ Working /\ Copy /\ Operands
  BY DEF Inv
<1>2. UNCHANGED <<cppc, lastUID, cached, fresh, pods, late>>
  BY Zenon DEF DependentsStatus, Apply, cppcVars, cacheVars
<1>3. w \in CPPC /\ late \subseteq late'
  BY <1>1, <1>2 DEF Typed
<1>4. CASE DependentsStatus
  <2>1. pc = "dependents" /\ UNCHANGED <<mwc, ds, sa>>
    BY <1>4, Zenon DEF DependentsStatus, Objects, hookVars, exObjs
  <2>2. \E s \in Status : w' = [w EXCEPT !.status = s]
    <3>1. ASSUME NEW a, NEW u, NEW m, NEW d \in BOOLEAN
          PROVE  Build(a, u, m, d).status \in Status
      <4>1. ASSUME NEW Flag, NEW x \in Flag, NEW y \in Flag, NEW z \in Flag, NEW b
            PROVE  [status |-> [available |-> x, progressing |-> y, deprovisioning |-> z],
                    built |-> b].status
                     \in [available : Flag, progressing : Flag, deprovisioning : Flag]
        OBVIOUS
      <4>2. (a /\ m) \in BOOLEAN /\ ((~u \/ ~m) /\ ~d) \in BOOLEAN
        BY Zenon
      <4> QED
        BY <4>1, <4>2, Zenon DEF Build, Status
    <3>2. w.deleting \in BOOLEAN
      BY <1>3, Fields
    <3> QED
      BY <1>4, <3>1, <3>2, Zenon DEF DependentsStatus
  <2>3. PICK s \in Status : w' = [w EXCEPT !.status = s]
    BY <2>2
  <2>4. /\ w' \in CPPC /\ w'.uid = w.uid /\ w'.deleting = w.deleting /\ w'.plugin = w.plugin
        /\ w'.fins = w.fins
    BY <1>3, <2>3, SetStatus
  <2>5. pc' = "apply" \/ (pc' = "exDaemon" /\ ~w.plugin)
    BY <1>4, Zenon DEF DependentsStatus
  <2>6. /\ pc \notin {"idle", "update"} /\ pc \in Deploying /\ pc \in Deploying \ {"status"}
        /\ pc' \in Steps \ {"idle", "update"} /\ pc' # "dependents" /\ pc' \notin Deleting
        /\ pc' \notin {"listPods", "ctlFin", "cppcFin"} /\ pc' \notin {"exDrain", "exDelete", "exUpdate"}
        /\ pc' \notin {"ctlFin", "cppcFin"}
        /\ pc' \in Cleaning => pc' # "apply"
    BY <2>1, <2>5 DEF Steps, Deploying, Deleting, Cleaning
  <2>7. pc' \in Cleaning => pc = "dependents" /\ ~w.plugin
    BY <2>1, <2>5, <2>6, Zenon
  <2>8. WebhookNeverOutlivesCPPC' /\ MonitorIsRemoved'
    BY <1>1, <1>2, <2>1 DEF Operands, WebhookNeverOutlivesCPPC, MonitorIsRemoved
  <2> QED
    BY <1>2, <1>3, <2>4, <2>6, <2>7, <2>8, Moved, Zenon
<1>5. CASE Apply
  <2>1. pc = "apply" /\ pc' = "status" /\ UNCHANGED w
    BY <1>5, Zenon DEF Apply
  <2>2. /\ pc \in Deploying /\ pc \in Deploying \ {"status"} /\ pc \in Deploying \cup {"update"}
        /\ pc \in Deploying \cup Cleaning
        /\ pc \notin {"idle", "update"} /\ pc' \in Steps \ {"idle", "update"} /\ pc' # "dependents"
        /\ pc' \notin Deploying \ {"status"} /\ pc' \notin Deleting /\ pc' \notin Cleaning
        /\ pc' \notin {"listPods", "ctlFin", "cppcFin"} /\ pc' \notin {"exDrain", "exDelete", "exUpdate"}
        /\ pc' \notin {"ctlFin", "cppcFin"}
    BY <2>1 DEF Steps, Deploying, Deleting, Cleaning
  <2>3. ~w.deleting /\ cppc.uid = w.uid /\ PodPlacement \in cppc.fins
        /\ (w.plugin => ExecFormatError \in cppc.fins)
    BY <1>1, <2>2, Zenon DEF Working, Copy
  <2>4. mwc' = mwc \/ mwc' = AppliedWebhookConfiguration(mwc)
    BY <1>5, Zenon DEF Apply
  <2>5. AppliedWebhookConfiguration(mwc) \in {w.uid, 0, mwc}
    <3>1. CASE built.canDeploy
      BY <3>1 DEF AppliedWebhookConfiguration
    <3>2. CASE ~built.canDeploy /\ built.mwcFound
      BY <3>2 DEF AppliedWebhookConfiguration
    <3>3. CASE ~built.canDeploy /\ ~built.mwcFound
      BY <3>3 DEF AppliedWebhookConfiguration
    <3> QED
      BY <3>1, <3>2, <3>3
  <2>6. WebhookNeverOutlivesCPPC'
    BY <1>1, <1>2, <2>3, <2>4, <2>5 DEF Operands, WebhookNeverOutlivesCPPC, PodPlacement
  <2>7. ~w.plugin => UNCHANGED <<ds, sa>>
    <3>1. SUFFICES ASSUME ~w.plugin
                   PROVE  UNCHANGED <<ds, sa>>
      OBVIOUS
    <3> DEFINE todo == {"whSvc", "whDep", "ctlRest", "ctlDep", "mwc"} \cup {} \cup {}
    <3>2. \E failed \in SUBSET todo :
            /\ sa' = IF "sa" \in todo \ failed /\ sa = "none" THEN "bare" ELSE sa
            /\ ds' = IF "ds" \in todo \ failed THEN w.uid ELSE ds
      BY <1>5, <3>1, Zenon DEF Apply
    <3>3. "sa" \notin todo /\ "ds" \notin todo
      OBVIOUS
    <3> QED
      BY <3>2, <3>3
  <2>8. MonitorIsRemoved'
    BY <1>1, <1>2, <2>3, <2>7, Zenon DEF Operands, MonitorIsRemoved, ExecFormatError
  <2> QED
    BY <1>2, <1>3, <2>1, <2>2, <2>6, <2>8, Moved, Zenon
<1> QED
  BY <1>4, <1>5

LEMMA StatusStep ==
  ASSUME Inv, updateStatus
  PROVE  Inv'
<1>1. Typed /\ Stored /\ Working
  BY DEF Inv
<1>2. UNCHANGED <<lastUID, cached, mwc, ds, sa, pods, late>> /\ pc = "status"
  BY Zenon DEF updateStatus, objects, hookVars, exObjs, cacheVars
<1>3. CASE ~IsCurrent
  <2>1. Requeue /\ UNCHANGED cppc
    BY <1>3, Zenon DEF updateStatus
  <2>2. mwc' \in {0, mwc} /\ ds' \in {0, ds} /\ sa' \in {"none", sa}
    BY <1>2
  <2> QED
    BY <1>2, <2>1, <2>2, StepEnds
<1>4. CASE IsCurrent
  <2> DEFINE new == [cppc EXCEPT !.status = w.status]
  <2>1. WriteCPPC(new, {}) /\ Finish
    BY <1>4, Zenon DEF updateStatus
  <2>2. /\ cppc \in CPPC /\ w \in CPPC /\ lastUID \in Owner /\ cppc.uid \in Owner
        /\ cppc.uid <= lastUID /\ w.status \in Status
    BY <1>1, Fields DEF Typed, Stored
  <2>3. /\ new \in CPPC /\ new.uid = cppc.uid /\ new.deleting = cppc.deleting
        /\ new.fins = cppc.fins
    BY <2>2, SetStatus
  <2> HIDE DEF new
  <2>4. ~(cppc.deleting /\ cppc.fins = {})
    BY <1>1, Zenon DEF Stored
  <2>5. /\ cppc' = new /\ "worker" \notin fresh'
        /\ "cache" \in fresh' => "cache" \in fresh /\ cppc' = cppc
    BY <2>1, <2>3, <2>4, WriteOfUser, Zenon
  <2>6. /\ cppc' \in CPPC /\ cppc'.uid = cppc.uid /\ cppc'.deleting = cppc.deleting
        /\ cppc'.fins = cppc.fins
    BY <2>3, <2>5, Zenon
  <2>7. /\ cppc'.uid = 0 => cppc'.fins = {} /\ ~cppc'.deleting
        /\ cppc'.deleting => cppc'.fins # {}
        /\ cppc'.uid = cppc.uid /\ cppc.deleting => cppc'.deleting
        /\ PodPlacement \in cppc.fins => cppc'.uid = cppc.uid /\ PodPlacement \in cppc'.fins
        /\ ExecFormatError \in cppc.fins => cppc'.uid = cppc.uid /\ ExecFormatError \in cppc'.fins
    BY <1>1, <2>6, Zenon DEF Stored
  <2>8. /\ lastUID' \in Owner /\ lastUID <= lastUID' /\ cppc'.uid <= lastUID'
        /\ cppc'.uid \in {0, cppc.uid}
    BY <1>2, <2>2, <2>6, OperatorAssumption DEF Owner
  <2>9. pc' = "idle" /\ w' = NoCPPC
    BY <2>1, Zenon DEF Finish
  <2> QED
    BY <1>2, <2>5, <2>6, <2>7, <2>8, <2>9, Written
<1> QED
  BY <1>3, <1>4

LEMMA FaultSteps ==
  ASSUME Inv, CallFails \/ OperatorRestart
  PROVE  Inv'
<1>1. UNCHANGED <<cppc, lastUID, pods, late, mwc, ds, sa>>
  BY Zenon DEF CallFails, OperatorRestart, cppcVars, objects, hookVars, exObjs
<1>2. mwc' \in {0, mwc} /\ ds' \in {0, ds} /\ sa' \in {"none", sa} /\ late \subseteq late'
  BY <1>1
<1>3. CASE OperatorRestart
  <2>1. /\ pc' = "idle" /\ w' = NoCPPC /\ cached' = cppc /\ fresh' = {"cache"}
    BY <1>3, Zenon DEF OperatorRestart, Finish
  <2>2. "worker" \notin fresh'
    BY <2>1
  <2> QED
    BY <1>1, <1>2, <2>1, <2>2, Ended
<1>4. CASE CallFails
  <2>1. UNCHANGED cached
    BY <1>4, Zenon DEF CallFails, cacheVars
  <2>2. CASE Requeue
    BY <1>1, <1>2, <2>1, <2>2, StepEnds
  <2>3. CASE pc = "apply" /\ pc' = "status" /\ UNCHANGED <<w, fresh>>
    <3>1. /\ pc \in Deploying /\ pc \notin {"idle", "update"} /\ pc' \in Steps \ {"idle", "update"}
          /\ pc' # "dependents" /\ pc' \notin Deploying \ {"status"} /\ pc' \notin Deleting
          /\ pc' \notin Cleaning /\ pc' \notin {"listPods", "ctlFin", "cppcFin"}
          /\ pc' \notin {"exDrain", "exDelete", "exUpdate"} /\ pc' \notin {"ctlFin", "cppcFin"}
      BY <2>3 DEF Steps, Deploying, Deleting, Cleaning
    <3>2. WebhookNeverOutlivesCPPC' /\ MonitorIsRemoved'
      BY <1>1 DEF Inv, Operands, WebhookNeverOutlivesCPPC, MonitorIsRemoved
    <3>3. w' \in CPPC
      BY <2>3, Zenon DEF Inv, Typed
    <3> QED
      BY <1>1, <1>2, <2>1, <2>3, <3>1, <3>2, <3>3, Moved, Zenon
  <2> QED
    BY <1>4, <2>2, <2>3, Zenon DEF CallFails
<1> QED
  BY <1>3, <1>4

-----------------------------------------------------------------------------
LEMMA InvInit == Init => Inv
<1>1. SUFFICES ASSUME Init
               PROVE  Inv
  OBVIOUS
<1>2. /\ cppc = NoCPPC /\ lastUID = 0 /\ mwc = 0 /\ ds = 0 /\ sa = "none"
      /\ pods = [p \in Pods |-> "new"] /\ cached = NoCPPC /\ fresh = {"cache"}
      /\ pc = "idle" /\ w = NoCPPC
  BY <1>1, Zenon DEF Init, Empty
<1>3. 0 \in Owner
  BY OperatorAssumption DEF Owner
<1>4. Typed
  BY <1>2, <1>3, None DEF Typed, Steps
<1>5. cppc.uid <= lastUID /\ cached.uid <= lastUID /\ w.uid <= lastUID
  BY <1>2, None
<1>6. Stored /\ Cache
  BY <1>2, <1>5, None, Zenon DEF Stored, Cache
<1>7. /\ "worker" \notin fresh
      /\ pc \notin Deploying \cup {"update"} /\ pc \notin Deploying \cup Cleaning
      /\ pc \notin Deploying \ {"status"} /\ pc \notin Deleting /\ pc \notin Cleaning
      /\ pc \notin {"listPods", "ctlFin", "cppcFin"} /\ pc # "update"
      /\ pc \notin {"exDrain", "exDelete", "exUpdate"}
      /\ \A p \in Pods : pods[p] \notin {"admitted", "gated"}
  BY <1>2 DEF Deploying, Cleaning, Deleting
<1>8. w.uid = 0
  BY <1>2, None
<1>9. Working /\ Copy /\ Current
  BY <1>2, <1>7, <1>8, Zenon DEF Working, Copy, Current
<1>10. Operands
  BY <1>2, <1>7, Zenon DEF Operands, WebhookNeverOutlivesCPPC, MonitorIsRemoved
<1> QED
  BY <1>4, <1>6, <1>9, <1>10, Zenon DEF Inv

LEMMA InvHolds == Spec => []Inv
<1>1. Inv /\ [Next]_vars => Inv'
  BY UserSteps, ReconcileBegins, FinalizerSteps, DeployingSteps, StatusStep, CleaningSteps,
     ExecFormatErrorRemoved, DeletingSteps, PodPlacementRemoved, FaultSteps, CacheUpdated, Zenon
     DEF Next, Worker, Informers, Faults
<1> QED
  BY <1>1, InvInit, PTL DEF Spec

\* The webhook configuration belongs to the stored ClusterPodPlacementConfig,
\* which has the finalizer under which handleDelete removes it: over any number
\* of creations, faults, restarts and stale copies
\* (clusterpodplacementconfig_controller.go:435-466 and 777-786).
THEOREM WebhookTheorem == Spec => []WebhookNeverOutlivesCPPC
<1>1. Inv => WebhookNeverOutlivesCPPC
  BY DEF Inv, Operands
<1> QED
  BY <1>1, InvHolds, PTL

\* The DaemonSet of the monitor and its service account only exist under the
\* finalizer with which handleEnoexecDelete removes them
\* (clusterpodplacementconfig_controller.go:231-241 and 585-743).
THEOREM MonitorTheorem == Spec => []MonitorIsRemoved
<1>1. Inv => MonitorIsRemoved
  BY DEF Inv, Operands
<1> QED
  BY <1>1, InvHolds, PTL

\* handleDelete leaves only pods gated that were in admission when it listed the
\* pods (clusterpodplacementconfig_controller.go:467-500).
THEOREM OrphanTheorem == Spec => []OnlyLatePodsAreOrphaned
<1>1. ASSUME Inv, NEW p \in Pods, pods[p] = "gated", cppc.uid = 0
      PROVE  p \in late
  <2>1. cppc.fins = {}
    BY <1>1, Zenon DEF Inv, Stored
  <2>2. PodPlacement \notin cppc.fins /\ pods[p] \in {"admitted", "gated"}
    BY <1>1, <2>1
  <2> QED
    BY <1>1, <2>2, Zenon DEF Inv, Operands
<1>2. Inv => OnlyLatePodsAreOrphaned
  BY <1>1, Zenon DEF OnlyLatePodsAreOrphaned
<1> QED
  BY <1>2, InvHolds, PTL

-----------------------------------------------------------------------------
\* The types of all variables: the ones of Typed, those of the objects, in which
\* a Deployment in deletion is held by its finalizer, those of the operator's
\* flags, those of its other copies, and the bounds.

Held(d) == d \in Deployment /\ (d.deleting => d.owner # 0 /\ d.fin)

ObjectsTyped ==
    /\ mwc \in Owner /\ whSvc \in Owner /\ ctlRest \in Owner /\ ds \in Owner
    /\ Held(whDep) /\ Held(ctlDep) /\ Held(exDep)
    /\ sa \in {"none", "bare", "ready"}

FlagsTyped ==
    ppcSeen \in BOOLEAN /\ wakeup \in BOOLEAN /\ changed \in BOOLEAN /\ queued \in BOOLEAN

CopiesTyped ==
    /\ ppc \in {"none", "admitted", "stored"}
    /\ event \in {"none", "sent", "pending", "errored"}
    /\ eventSeen \in {"unlisted", "none", "pending", "errored"}
    /\ seen \in [ctlDep : Deployment, exDep : Deployment, ds : Owner, sa : {"none", "bare", "ready"}]
    /\ fresh \subseteq {"cache", "worker"} /\ built \in Built /\ late \subseteq Pods

Bounded ==
    edits \in 0 .. MaxEdits /\ removals \in 0 .. MaxRemovals /\ faults \in 0 .. MaxFaults

AllTyped == Inv /\ ObjectsTyped /\ FlagsTyped /\ CopiesTyped /\ Bounded

DeploymentOf(Flag) == [owner : Owner, replicas : {"none", "some", "all"}, fin : Flag, deleting : Flag]

LEMMA DeploymentFields ==
  ASSUME NEW d \in Deployment
  PROVE  d.owner \in Owner /\ d.fin \in BOOLEAN /\ d.deleting \in BOOLEAN
<1>1. ASSUME NEW Flag, NEW x \in DeploymentOf(Flag)
      PROVE  x.owner \in Owner /\ x.fin \in Flag /\ x.deleting \in Flag
  BY DEF DeploymentOf
<1> QED
  BY <1>1, Zenon DEF Deployment, DeploymentOf

LEMMA SetOwner ==
  ASSUME NEW d \in Deployment, NEW v \in Owner
  PROVE  LET e == [d EXCEPT !.owner = v]
         IN  e \in Deployment /\ e.owner = v /\ e.fin = d.fin /\ e.deleting = d.deleting
<1>1. ASSUME NEW Flag, NEW x \in DeploymentOf(Flag), NEW y \in Owner
      PROVE  LET e == [x EXCEPT !.owner = y]
             IN  /\ e \in DeploymentOf(Flag) /\ e.owner = y
                 /\ e.fin = x.fin /\ e.deleting = x.deleting
  BY DEF DeploymentOf
<1> QED
  BY <1>1, Zenon DEF Deployment, DeploymentOf

LEMMA SetReplicas ==
  ASSUME NEW d \in Deployment, NEW v \in {"none", "some", "all"}
  PROVE  LET e == [d EXCEPT !.replicas = v]
         IN  e \in Deployment /\ e.owner = d.owner /\ e.fin = d.fin /\ e.deleting = d.deleting
<1>1. ASSUME NEW Flag, NEW x \in DeploymentOf(Flag), NEW y \in {"none", "some", "all"}
      PROVE  LET e == [x EXCEPT !.replicas = y]
             IN  /\ e \in DeploymentOf(Flag) /\ e.owner = x.owner
                 /\ e.fin = x.fin /\ e.deleting = x.deleting
  BY DEF DeploymentOf
<1> QED
  BY <1>1, Zenon DEF Deployment, DeploymentOf

LEMMA SetFin ==
  ASSUME NEW d \in Deployment, NEW v \in BOOLEAN
  PROVE  LET e == [d EXCEPT !.fin = v]
         IN  e \in Deployment /\ e.owner = d.owner /\ e.fin = v /\ e.deleting = d.deleting
<1>1. ASSUME NEW Flag, NEW x \in DeploymentOf(Flag), NEW y \in Flag
      PROVE  LET e == [x EXCEPT !.fin = y]
             IN  /\ e \in DeploymentOf(Flag) /\ e.owner = x.owner
                 /\ e.fin = y /\ e.deleting = x.deleting
  BY DEF DeploymentOf
<1> QED
  BY <1>1, Zenon DEF Deployment, DeploymentOf

LEMMA SetDeploymentDeleting ==
  ASSUME NEW d \in Deployment, NEW v \in BOOLEAN
  PROVE  LET e == [d EXCEPT !.deleting = v]
         IN  e \in Deployment /\ e.owner = d.owner /\ e.fin = d.fin /\ e.deleting = v
<1>1. ASSUME NEW Flag, NEW x \in DeploymentOf(Flag), NEW y \in Flag
      PROVE  LET e == [x EXCEPT !.deleting = y]
             IN  /\ e \in DeploymentOf(Flag) /\ e.owner = x.owner
                 /\ e.fin = x.fin /\ e.deleting = y
  BY DEF DeploymentOf
<1> QED
  BY <1>1, Zenon DEF Deployment, DeploymentOf

LEMMA NoneHeld ==
  /\ Held(NoDeployment) /\ NoDeployment \in Deployment /\ ~NoDeployment.deleting
<1>1. 0 \in Owner
  BY OperatorAssumption DEF Owner
<1>2. ASSUME NEW Flag, NEW b \in Flag
      PROVE  LET d == [owner |-> 0, replicas |-> "none", fin |-> b, deleting |-> b]
             IN  d \in DeploymentOf(Flag) /\ d.deleting = b
  BY <1>1 DEF DeploymentOf
<1>3. NoDeployment \in Deployment /\ NoDeployment.deleting = FALSE
  BY <1>2, Zenon DEF NoDeployment, Deployment, DeploymentOf
<1> QED
  BY <1>3, Zenon DEF Held

\* What the operations on a Deployment leave: a deletion waits for the finalizer.
LEMMA DeploymentHeld ==
  ASSUME NEW d, Held(d), NEW r \in {"none", "some", "all"}
  PROVE  /\ Held(DeleteDeployment(d)) /\ Held(RemoveFinalizer(d))
         /\ Held([d EXCEPT !.fin = TRUE]) /\ Held([d EXCEPT !.replicas = r])
<1>1. d \in Deployment /\ (d.deleting => d.owner # 0 /\ d.fin) /\ 0 \in Owner
  BY OperatorAssumption DEF Held, Owner
<1>2. Held(DeleteDeployment(d))
  <2>1. CASE d.owner # 0 /\ d.fin
    <3>1. DeleteDeployment(d) = [d EXCEPT !.deleting = TRUE]
      BY <2>1, Zenon DEF DeleteDeployment
    <3>2. LET e == [d EXCEPT !.deleting = TRUE]
          IN  e \in Deployment /\ e.owner = d.owner /\ e.fin = d.fin
      BY <1>1, SetDeploymentDeleting, Zenon
    <3> QED
      BY <2>1, <3>1, <3>2, Zenon DEF Held
  <2>2. CASE ~(d.owner # 0 /\ d.fin)
    BY <2>2, NoneHeld, Zenon DEF DeleteDeployment
  <2> QED
    BY <2>1, <2>2
<1>3. Held(RemoveFinalizer(d))
  <2>1. CASE d.deleting
    BY <2>1, NoneHeld, Zenon DEF RemoveFinalizer
  <2>2. CASE ~d.deleting
    BY <1>1, <2>2, SetFin, Zenon DEF Held, RemoveFinalizer
  <2> QED
    BY <2>1, <2>2
<1>4. Held([d EXCEPT !.fin = TRUE])
  <2>1. LET e == [d EXCEPT !.fin = TRUE]
        IN  e \in Deployment /\ e.owner = d.owner /\ e.fin = TRUE /\ e.deleting = d.deleting
    BY <1>1, SetFin, Zenon
  <2> QED
    BY <1>1, <2>1, Zenon DEF Held
<1>5. Held([d EXCEPT !.replicas = r])
  <2>1. LET e == [d EXCEPT !.replicas = r]
        IN  e \in Deployment /\ e.owner = d.owner /\ e.fin = d.fin /\ e.deleting = d.deleting
    BY <1>1, SetReplicas
  <2> QED
    BY <1>1, <2>1, Zenon DEF Held
<1> QED
  BY <1>2, <1>3, <1>4, <1>5

LEMMA AppliedHeld ==
  ASSUME NEW d, Held(d), NEW fin \in BOOLEAN, w.uid \in Owner, w.uid # 0
  PROVE  Held(Applied(d, fin))
<1>1. d \in Deployment /\ (d.deleting => d.owner # 0 /\ d.fin)
  BY Zenon DEF Held
<1>2. CASE d.owner = 0
  <2> DEFINE new == [NoDeployment EXCEPT !.owner = w.uid, !.fin = fin]
  <2>1. new = [[NoDeployment EXCEPT !.owner = w.uid] EXCEPT !.fin = fin]
    OBVIOUS
  <2>2. LET e == [NoDeployment EXCEPT !.owner = w.uid]
        IN  e \in Deployment /\ ~e.deleting
    BY NoneHeld, SetOwner, Zenon
  <2>3. new \in Deployment /\ ~new.deleting
    BY <2>1, <2>2, SetFin, Zenon
  <2>4. Applied(d, fin) = new
    BY <1>2, Zenon DEF Applied
  <2> QED
    BY <2>3, <2>4, Zenon DEF Held
<1>3. CASE d.owner # 0
  <2>1. Applied(d, fin) = [d EXCEPT !.owner = w.uid]
    BY <1>3, Zenon DEF Applied
  <2>2. LET e == [d EXCEPT !.owner = w.uid]
        IN  e \in Deployment /\ e.owner = w.uid /\ e.fin = d.fin /\ e.deleting = d.deleting
    BY <1>1, SetOwner, Zenon
  <2> QED
    BY <1>1, <2>1, <2>2, Zenon DEF Held
<1> QED
  BY <1>2, <1>3

-----------------------------------------------------------------------------
\* The flags of the operator.

LEMMA WriteFlags ==
  ASSUME FlagsTyped, NEW new, NEW holders, WriteCPPC(new, holders)
  PROVE  wakeup' \in BOOLEAN
<1>1. wakeup' = (wakeup \/ cppcUpdatePredicate(cppc, cppc'))
  BY Zenon DEF WriteCPPC
<1> QED
  BY <1>1, Zenon

LEMMA ObjectFlags ==
  ASSUME NEW set, Objects(set)
  PROVE  changed' \in BOOLEAN
<1>1. changed' = (changed \/ objects' # objects)
  BY Zenon DEF Objects
<1> QED
  BY <1>1, Zenon

LEMMA WorkerFlags ==
  ASSUME FlagsTyped, Return \/ Requeue \/ \E step : Goto(step)
  PROVE  queued' \in BOOLEAN
BY Zenon DEF FlagsTyped, Return, Requeue, Goto

LEMMA UserFlags ==
  ASSUME FlagsTyped, Users \/ Cluster
  PROVE  FlagsTyped'
<1>1. CASE CreateCPPC
  BY <1>1, WriteFlags, Zenon DEF CreateCPPC, FlagsTyped, cacheVars
<1>2. CASE DeleteCPPC
  BY <1>2, WriteFlags, Zenon DEF DeleteCPPC, FlagsTyped, cacheVars
<1>3. CASE ChangePlugin
  BY <1>3, WriteFlags, Zenon DEF ChangePlugin, FlagsTyped, cacheVars
<1>4. CASE CreatePPC \/ StorePPC \/ DeletePPC
  BY <1>4, Zenon DEF CreatePPC, StorePPC, DeletePPC, FlagsTyped, cacheVars
<1>5. CASE DeleteController \/ RollOut \/ CollectGarbage \/ ProvisionServiceAccount
  BY <1>5, Zenon DEF DeleteController, RollOut, CollectGarbage, ProvisionServiceAccount, FlagsTyped,
     cacheVars
<1>6. ASSUME NEW p \in Pods, AdmitPod(p) \/ StorePod(p) \/ ReleasePod(p)
      PROVE  FlagsTyped'
  BY <1>6, Zenon DEF AdmitPod, StorePod, ReleasePod, FlagsTyped, cacheVars
<1>7. CASE DaemonReports \/ StoreEvent \/ HandlerReconciles
  BY <1>7, Zenon DEF DaemonReports, StoreEvent, HandlerReconciles, FlagsTyped, cacheVars
<1> QED
  BY <1>1, <1>2, <1>3, <1>4, <1>5, <1>6, <1>7, Zenon DEF Users, Cluster

LEMMA InformerFlags ==
  ASSUME FlagsTyped, Informers \/ Faults
  PROVE  FlagsTyped'
<1>1. CASE CPPCEvent
  BY <1>1, Zenon DEF CPPCEvent, FlagsTyped
<1>2. CASE PPCEvent
  BY <1>2, Zenon DEF PPCEvent, FlagsTyped
<1>3. CASE OwnedEvent \/ ENoExecEventEvent
  BY <1>3, Zenon DEF OwnedEvent, ENoExecEventEvent, FlagsTyped
<1>4. CASE OperandsDown
  BY <1>4, Zenon DEF OperandsDown, FlagsTyped, cacheVars
<1>5. CASE OperatorRestart
  BY <1>5, Zenon DEF OperatorRestart, FlagsTyped
<1>6. CASE CallFails
  <2>1. UNCHANGED <<wakeup, changed, ppcSeen>> /\ (queued' = TRUE \/ Requeue)
    BY <1>6, Zenon DEF CallFails, cacheVars
  <2> QED
    BY <2>1, Zenon DEF FlagsTyped, Requeue
<1> QED
  BY <1>1, <1>2, <1>3, <1>4, <1>5, <1>6, Zenon DEF Informers, Faults

LEMMA WorkerStepFlags ==
  ASSUME FlagsTyped, Worker
  PROVE  FlagsTyped'
<1>1. ASSUME NEW step, NEW copy, Begin(step, copy)
      PROVE  FlagsTyped'
  BY <1>1, Zenon DEF Begin, FlagsTyped, cacheVars
<1>2. CASE ReconcileGone
  BY <1>2, Zenon DEF ReconcileGone, FlagsTyped, cacheVars
<1>3. CASE ReconcileDeletion \/ AddPodPlacementFinalizer \/ FollowPPCs \/ AddExecFormatErrorFinalizer
           \/ ReconcileOperands
  BY <1>1, <1>3, Zenon DEF ReconcileDeletion, AddPodPlacementFinalizer, FollowPPCs,
     AddExecFormatErrorFinalizer, ReconcileOperands
<1>4. ASSUME NEW step, NEW fins, NEW next, UpdateCPPC(step, fins, next)
      PROVE  FlagsTyped'
  <2>1. UNCHANGED <<changed, ppcSeen>>
    BY <1>4, Zenon DEF UpdateCPPC, cacheVars
  <2>2. CASE IsCurrent
    BY <1>4, <2>1, <2>2, WriteFlags, Zenon DEF UpdateCPPC, FlagsTyped
  <2>3. CASE ~IsCurrent
    BY <1>4, <2>1, <2>3, Zenon DEF UpdateCPPC, Requeue, FlagsTyped
  <2> QED
    BY <2>2, <2>3
<1>5. CASE UpdateFinalizers \/ RemoveExecFormatErrorFinalizer \/ RemoveNoPPCFinalizer
           \/ RemovePodPlacementFinalizer
  BY <1>4, <1>5, Zenon DEF UpdateFinalizers, RemoveExecFormatErrorFinalizer, RemoveNoPPCFinalizer,
     RemovePodPlacementFinalizer
<1>6. CASE AddDeploymentFinalizer
  BY <1>6, ObjectFlags, WorkerFlags, Zenon DEF AddDeploymentFinalizer, FlagsTyped, cacheVars
<1>7. CASE DependentsStatus
  BY <1>7, ObjectFlags, Zenon DEF DependentsStatus, FlagsTyped, cacheVars
<1>8. CASE Apply
  <2>1. UNCHANGED <<wakeup, ppcSeen>> /\ Objects(<<>>)
    BY <1>8, Zenon DEF Apply, cacheVars
  <2>2. \E a, b : queued' = (queued \/ a \/ b)
    BY <1>8, Zenon DEF Apply
  <2> QED
    BY <2>1, <2>2, ObjectFlags, Zenon DEF FlagsTyped
<1>9. CASE updateStatus
  <2>1. UNCHANGED <<changed, ppcSeen>>
    BY <1>9, Zenon DEF updateStatus, cacheVars
  <2>2. CASE IsCurrent
    BY <1>9, <2>1, <2>2, WriteFlags, Zenon DEF updateStatus, FlagsTyped
  <2>3. CASE ~IsCurrent
    BY <1>9, <2>1, <2>3, Zenon DEF updateStatus, Requeue, FlagsTyped
  <2> QED
    BY <2>2, <2>3
<1>10. CASE DeleteDaemon
  BY <1>10, ObjectFlags, WorkerFlags, Zenon DEF DeleteDaemon, FlagsTyped, cacheVars
<1>11. CASE DrainEvents
  BY <1>11, WorkerFlags, Zenon DEF DrainEvents, FlagsTyped, cacheVars
<1>12. CASE DeleteHandler
  BY <1>12, ObjectFlags, WorkerFlags, Zenon DEF DeleteHandler, FlagsTyped, cacheVars
<1>13. CASE WaitForPPCs
  BY <1>13, WorkerFlags, Zenon DEF WaitForPPCs, FlagsTyped, cacheVars
<1>14. CASE DeleteWebhook
  BY <1>14, ObjectFlags, WorkerFlags, Zenon DEF DeleteWebhook, FlagsTyped, cacheVars
<1>15. CASE CheckPods
  BY <1>15, WorkerFlags, Zenon DEF CheckPods, FlagsTyped, cacheVars
<1>16. CASE RemoveControllerFinalizer
  BY <1>16, ObjectFlags, WorkerFlags, Zenon DEF RemoveControllerFinalizer, FlagsTyped, cacheVars
<1>17. CASE DeleteControllerObjects
  BY <1>17, ObjectFlags, WorkerFlags, Zenon DEF DeleteControllerObjects, FlagsTyped, cacheVars
<1> QED
  BY <1>2, <1>3, <1>5, <1>6, <1>7, <1>8, <1>9, <1>10, <1>11, <1>12, <1>13, <1>14, <1>15, <1>16,
     <1>17, Zenon DEF Worker

-----------------------------------------------------------------------------
\* The bounds.

LEMMA FaultBounded ==
  ASSUME Bounded, UNCHANGED <<edits, removals>>, Fault \/ UNCHANGED faults
  PROVE  Bounded'
BY OperatorAssumption DEF Bounded, Fault

LEMMA EditBounded ==
  ASSUME Bounded, UNCHANGED <<removals, faults>>, Edit
  PROVE  Bounded'
BY OperatorAssumption DEF Bounded, Edit

LEMMA FailingBounded ==
  ASSUME Bounded, UNCHANGED <<edits, removals>>, NEW all, IsFiniteSet(all), NEW failed,
         Failing(all, failed)
  PROVE  Bounded'
<1>1. IsFiniteSet(failed)
  BY FS_Subset DEF Failing
<1>2. Cardinality(failed) \in Nat
  BY <1>1, FS_CardinalityType
<1> QED
  BY <1>2, OperatorAssumption DEF Bounded, Failing

\* The objects of a step are finitely many.
LEMMA FewObjects ==
  ASSUME NEW all, all \subseteq {"whSvc", "whDep", "ctlRest", "ctlDep", "mwc", "sa", "exDep", "ds"}
  PROVE  IsFiniteSet(all)
<1>1. /\ IsFiniteSet({"whSvc"}) /\ IsFiniteSet({"whDep"}) /\ IsFiniteSet({"ctlRest"})
      /\ IsFiniteSet({"ctlDep"}) /\ IsFiniteSet({"mwc"}) /\ IsFiniteSet({"sa"})
      /\ IsFiniteSet({"exDep"}) /\ IsFiniteSet({"ds"})
  BY FS_Singleton
<1>2. IsFiniteSet({"whSvc"} \cup {"whDep"}) /\ IsFiniteSet({"ctlRest"} \cup {"ctlDep"})
  BY <1>1, FS_Union
<1>3. IsFiniteSet({"mwc"} \cup {"sa"}) /\ IsFiniteSet({"exDep"} \cup {"ds"})
  BY <1>1, FS_Union
<1>4. /\ IsFiniteSet(({"whSvc"} \cup {"whDep"}) \cup ({"ctlRest"} \cup {"ctlDep"}))
      /\ IsFiniteSet(({"mwc"} \cup {"sa"}) \cup ({"exDep"} \cup {"ds"}))
  BY <1>2, <1>3, FS_Union
<1> DEFINE names == (({"whSvc"} \cup {"whDep"}) \cup ({"ctlRest"} \cup {"ctlDep"}))
                      \cup (({"mwc"} \cup {"sa"}) \cup ({"exDep"} \cup {"ds"}))
<1>5. IsFiniteSet(names)
  BY <1>4, FS_Union
<1>6. all \in SUBSET names
  OBVIOUS
<1> QED
  BY <1>5, <1>6, FS_Subset

LEMMA BoundedStep ==
  ASSUME Bounded, Next
  PROVE  Bounded'
<1>1. CASE DeleteCPPC \/ ChangePlugin \/ CreatePPC \/ DeletePPC
  BY <1>1, EditBounded, Zenon DEF DeleteCPPC, ChangePlugin, CreatePPC, DeletePPC
<1>2. CASE CreateCPPC \/ StorePPC \/ \E p \in Pods : AdmitPod(p) \/ StorePod(p) \/ ReleasePod(p)
  BY <1>2, Zenon DEF CreateCPPC, StorePPC, AdmitPod, StorePod, ReleasePod, bounds, Bounded
<1>3. CASE DeleteController
  <2>1. removals < MaxRemovals /\ removals' = removals + 1 /\ UNCHANGED <<edits, faults>>
    BY <1>3, Zenon DEF DeleteController
  <2> QED
    BY <2>1, OperatorAssumption DEF Bounded
<1>4. CASE \/ RollOut \/ CollectGarbage \/ ProvisionServiceAccount
           \/ DaemonReports \/ StoreEvent \/ HandlerReconciles
  BY <1>4, Zenon DEF RollOut, CollectGarbage, ProvisionServiceAccount, DaemonReports, StoreEvent,
     HandlerReconciles, bounds, Bounded
<1>5. CASE Informers
  BY <1>5, Zenon DEF Informers, CPPCEvent, PPCEvent, OwnedEvent, ENoExecEventEvent, bounds, Bounded
<1>6. CASE OperandsDown \/ OperatorRestart \/ CallFails
  BY <1>6, FaultBounded, Zenon DEF OperandsDown, OperatorRestart, CallFails
<1>7. CASE ReconcileGone \/ ReconcileDeletion \/ AddPodPlacementFinalizer \/ FollowPPCs
           \/ AddExecFormatErrorFinalizer \/ ReconcileOperands
  BY <1>7, Zenon DEF ReconcileGone, ReconcileDeletion, AddPodPlacementFinalizer, FollowPPCs,
     AddExecFormatErrorFinalizer, ReconcileOperands, Begin, bounds, Bounded
<1>8. CASE UpdateFinalizers \/ RemoveExecFormatErrorFinalizer \/ RemoveNoPPCFinalizer
           \/ RemovePodPlacementFinalizer \/ updateStatus
  BY <1>8, Zenon DEF UpdateFinalizers, RemoveExecFormatErrorFinalizer, RemoveNoPPCFinalizer,
     RemovePodPlacementFinalizer, updateStatus, UpdateCPPC, bounds, Bounded
<1>9. CASE AddDeploymentFinalizer \/ DependentsStatus \/ DrainEvents \/ WaitForPPCs \/ CheckPods
           \/ RemoveControllerFinalizer
  BY <1>9, Zenon DEF AddDeploymentFinalizer, DependentsStatus, DrainEvents, WaitForPPCs, CheckPods,
     RemoveControllerFinalizer, bounds, Bounded
<1>10. CASE DeleteHandler
  <2>1. UNCHANGED <<edits, removals>> /\ (Fault \/ UNCHANGED faults)
    BY <1>10, Zenon DEF DeleteHandler
  <2> QED
    BY <2>1, FaultBounded
<1>11. CASE DeleteDaemon \/ DeleteWebhook \/ DeleteControllerObjects
  <2>1. IsFiniteSet({"ds", "sa"}) /\ IsFiniteSet({"mwc", "whSvc", "whDep"})
        /\ IsFiniteSet({"ctlDep", "ctlRest"})
    BY FewObjects
  <2>2. /\ UNCHANGED <<edits, removals>>
        /\ \E failed : \/ Failing({"ds", "sa"}, failed) \/ Failing({"mwc", "whSvc", "whDep"}, failed)
                       \/ Failing({"ctlDep", "ctlRest"}, failed)
    BY <1>11, Zenon DEF DeleteDaemon, DeleteWebhook, DeleteControllerObjects
  <2> QED
    BY <2>1, <2>2, FailingBounded
<1>12. CASE Apply
  <2> DEFINE deferred == w.plugin /\ seen.ds = 0 /\ seen.sa # "ready"
             todo == {"whSvc", "whDep", "ctlRest", "ctlDep", "mwc"}
                       \cup (IF w.plugin THEN {"sa", "exDep"} ELSE {})
                       \cup (IF w.plugin /\ ~deferred THEN {"ds"} ELSE {})
  <2>1. todo \subseteq {"whSvc", "whDep", "ctlRest", "ctlDep", "mwc", "sa", "exDep", "ds"}
    OBVIOUS
  <2>2. UNCHANGED <<edits, removals>> /\ \E failed : Failing(todo, failed)
    BY <1>12, Zenon DEF Apply
  <2> HIDE DEF todo
  <2> QED
    BY <2>1, <2>2, FewObjects, FailingBounded
<1> QED
  BY <1>1, <1>2, <1>3, <1>4, <1>5, <1>6, <1>7, <1>8, <1>9, <1>10, <1>11, <1>12, Zenon
     DEF Next, Worker, Users, Cluster, Faults

-----------------------------------------------------------------------------
\* The objects.

LEMMA ObjectsKept ==
  ASSUME ObjectsTyped, UNCHANGED objects
  PROVE  ObjectsTyped'
BY Zenon DEF ObjectsTyped, objects, hookVars, ctlObjs, exObjs, Held

LEMMA ClusterObjects ==
  ASSUME ObjectsTyped, DeleteController \/ RollOut \/ OperandsDown \/ ProvisionServiceAccount
  PROVE  ObjectsTyped'
<1>1. CASE DeleteController
  <2>1. ctlDep' = DeleteDeployment(ctlDep) /\ UNCHANGED <<mwc, whSvc, whDep, ctlRest, ds, sa, exDep>>
    BY <1>1, Zenon DEF DeleteController, hookVars, exObjs
  <2>2. Held(DeleteDeployment(ctlDep))
    BY DeploymentHeld DEF ObjectsTyped
  <2> QED
    BY <2>1, <2>2, Zenon DEF ObjectsTyped, Held
<1>2. CASE RollOut
  <2>1. UNCHANGED <<mwc, whSvc, ctlRest, ds, sa>>
    BY <1>2, Zenon DEF RollOut
  <2>2. RollOuts \subseteq {"none", "some", "all"}
    BY OperatorAssumption
  <2>3. ASSUME NEW d, NEW e, Held(d), Up(d, e)
        PROVE  Held(e)
    <3>1. PICK n \in RollOuts : e = [d EXCEPT !.replicas = n]
      BY <2>3, Zenon DEF Up
    <3>2. n \in {"none", "some", "all"}
      BY <2>2
    <3>3. Held([d EXCEPT !.replicas = n])
      BY <2>3, <3>2, DeploymentHeld
    <3> QED
      BY <3>1, <3>3
  <2>4. Held([exDep EXCEPT !.replicas = "all"])
    BY DeploymentHeld DEF ObjectsTyped
  <2>5. Held(whDep') /\ Held(ctlDep') /\ Held(exDep')
    BY <1>2, <2>3, <2>4, Zenon DEF RollOut, ObjectsTyped
  <2> QED
    BY <2>1, <2>5, Zenon DEF ObjectsTyped, Held
<1>3. CASE OperandsDown
  <2>1. UNCHANGED <<mwc, whSvc, ctlRest, ds, sa, exDep>>
    BY <1>3, Zenon DEF OperandsDown, exObjs
  <2>2. Held([whDep EXCEPT !.replicas = "none"]) /\ Held([ctlDep EXCEPT !.replicas = "none"])
    BY DeploymentHeld DEF ObjectsTyped
  <2>3. Held(whDep') /\ Held(ctlDep')
    BY <1>3, <2>2, Zenon DEF OperandsDown, ObjectsTyped
  <2> QED
    BY <2>1, <2>3, Zenon DEF ObjectsTyped, Held
<1>4. CASE ProvisionServiceAccount
  <2>1. sa' = "ready" /\ UNCHANGED <<mwc, whSvc, whDep, ctlDep, ctlRest, ds, exDep>>
    BY <1>4, Zenon DEF ProvisionServiceAccount, hookVars, ctlObjs
  <2> QED
    BY <2>1, Zenon DEF ObjectsTyped, Held
<1> QED
  BY <1>1, <1>2, <1>3, <1>4

LEMMA GarbageObjects ==
  ASSUME ObjectsTyped, CollectGarbage
  PROVE  ObjectsTyped'
<1>1. 0 \in Owner
  BY OperatorAssumption DEF Owner
<1>2. ASSUME NEW o \in Owner, NEW n \in Collected(o)
      PROVE  n \in Owner
  BY <1>1, <1>2 DEF Collected
<1>3. ASSUME NEW d, Held(d), NEW n \in CollectedDeployment(d)
      PROVE  Held(n)
  <2>1. n = d \/ n = DeleteDeployment(d)
    BY <1>3, Zenon DEF CollectedDeployment
  <2>2. Held(DeleteDeployment(d))
    BY <1>3, DeploymentHeld
  <2> QED
    BY <1>3, <2>1, <2>2
<1>4. UNCHANGED sa /\ mwc' \in Owner /\ whSvc' \in Owner /\ ctlRest' \in Owner /\ ds' \in Owner
  BY <1>2, Zenon DEF CollectGarbage, ObjectsTyped
<1>5. Held(whDep') /\ Held(ctlDep') /\ Held(exDep')
  BY <1>3, Zenon DEF CollectGarbage, ObjectsTyped
<1> QED
  BY <1>4, <1>5, Zenon DEF ObjectsTyped, Held

LEMMA AppliedObjects ==
  ASSUME Inv, ObjectsTyped, Apply
  PROVE  ObjectsTyped'
<1>1. w.uid \in Owner /\ w.uid # 0 /\ 0 \in Owner
  <2>1. pc = "apply"
    BY Zenon DEF Apply
  <2>2. pc # "idle"
    BY <2>1
  <2>3. w.uid # 0
    BY <2>2, Zenon DEF Inv, Working
  <2>4. w.uid \in Owner
    BY Fields DEF Inv, Typed
  <2> QED
    BY <2>3, <2>4, OperatorAssumption DEF Owner
<1>2. /\ Held(Applied(whDep, FALSE)) /\ Held(Applied(ctlDep, TRUE)) /\ Held(Applied(exDep, FALSE))
  BY <1>1, AppliedHeld, Zenon DEF ObjectsTyped
<1>3. AppliedService(whSvc) \in Owner
  BY <1>1, Zenon DEF AppliedService, ObjectsTyped
<1>4. AppliedWebhookConfiguration(mwc) \in Owner
  <2>1. CASE built.canDeploy
    BY <1>1, <2>1 DEF AppliedWebhookConfiguration
  <2>2. CASE ~built.canDeploy /\ built.mwcFound
    BY <1>1, <2>2 DEF AppliedWebhookConfiguration
  <2>3. CASE ~built.canDeploy /\ ~built.mwcFound
    BY <2>3 DEF AppliedWebhookConfiguration, ObjectsTyped
  <2> QED
    BY <2>1, <2>2, <2>3
<1>5. /\ whSvc' = AppliedService(whSvc) \/ whSvc' = whSvc
      /\ whDep' = Applied(whDep, FALSE) \/ whDep' = whDep
      /\ ctlRest' = w.uid \/ ctlRest' = ctlRest
      /\ ctlDep' = Applied(ctlDep, TRUE) \/ ctlDep' = ctlDep
      /\ mwc' = AppliedWebhookConfiguration(mwc) \/ mwc' = mwc
      /\ sa' = "bare" \/ sa' = sa
      /\ exDep' = Applied(exDep, FALSE) \/ exDep' = exDep
      /\ ds' = w.uid \/ ds' = ds
  BY Zenon DEF Apply
<1>6. mwc' \in Owner /\ whSvc' \in Owner /\ ctlRest' \in Owner /\ ds' \in Owner
  BY <1>1, <1>3, <1>4, <1>5, Zenon DEF ObjectsTyped
<1>7. Held(whDep') /\ Held(ctlDep') /\ Held(exDep')
  BY <1>2, <1>5, Zenon DEF ObjectsTyped
<1>8. sa' \in {"none", "bare", "ready"}
  BY <1>5, Zenon DEF ObjectsTyped
<1> QED
  BY <1>6, <1>7, <1>8, Zenon DEF ObjectsTyped, Held

LEMMA WorkerObjects ==
  ASSUME ObjectsTyped,
         \/ AddDeploymentFinalizer \/ DependentsStatus \/ DeleteDaemon \/ DeleteHandler
         \/ DeleteWebhook \/ RemoveControllerFinalizer \/ DeleteControllerObjects
  PROVE  ObjectsTyped'
<1>1. 0 \in Owner
  BY OperatorAssumption DEF Owner
<1>2. "all" \in {"none", "some", "all"}
  OBVIOUS
<1>3. ASSUME NEW d, Held(d)
      PROVE  /\ Held(DeleteDeployment(d)) /\ Held(RemoveFinalizer(d)) /\ Held([d EXCEPT !.fin = TRUE])
             /\ Held(DeleteDeployment(RemoveFinalizer(d)))
  BY <1>2, <1>3, DeploymentHeld, Zenon
<1>4. CASE AddDeploymentFinalizer
  <2>1. UNCHANGED <<mwc, whSvc, whDep, ctlDep, ctlRest, ds, sa>>
    BY <1>4, Zenon DEF AddDeploymentFinalizer, Objects, hookVars, ctlObjs
  <2>2. exDep' = exDep \/ exDep' = [exDep EXCEPT !.fin = TRUE]
    BY <1>4, Zenon DEF AddDeploymentFinalizer
  <2> QED
    BY <1>3, <2>1, <2>2, Zenon DEF ObjectsTyped, Held
<1>5. CASE DependentsStatus \/ RemoveControllerFinalizer
  <2>1. UNCHANGED <<mwc, whSvc, whDep, ctlRest, ds, sa, exDep>>
    BY <1>5, Zenon DEF DependentsStatus, RemoveControllerFinalizer, Objects, hookVars, exObjs
  <2>2. ctlDep' = ctlDep \/ ctlDep' = RemoveFinalizer(ctlDep)
    BY <1>5, Zenon DEF DependentsStatus, RemoveControllerFinalizer
  <2>3. Held(ctlDep')
    BY <1>3, <2>2, Zenon DEF ObjectsTyped
  <2> QED
    BY <2>1, <2>3, Zenon DEF ObjectsTyped, Held
<1>6. CASE DeleteDaemon
  <2>1. UNCHANGED <<mwc, whSvc, whDep, ctlDep, ctlRest, exDep>>
    BY <1>6, Zenon DEF DeleteDaemon, Objects, hookVars, ctlObjs
  <2>2. (ds' = ds \/ ds' = 0) /\ (sa' = sa \/ sa' = "none")
    BY <1>6, Zenon DEF DeleteDaemon
  <2> QED
    BY <1>1, <2>1, <2>2, Zenon DEF ObjectsTyped, Held
<1>7. CASE DeleteHandler
  <2>1. UNCHANGED <<mwc, whSvc, whDep, ctlDep, ctlRest, ds>>
    BY <1>7, Zenon DEF DeleteHandler, Objects, hookVars, ctlObjs
  <2>2. /\ \/ exDep' = exDep \/ exDep' = RemoveFinalizer(exDep) \/ exDep' = DeleteDeployment(exDep)
           \/ exDep' = DeleteDeployment(RemoveFinalizer(exDep))
        /\ sa' = sa \/ sa' = "none"
    BY <1>7, Zenon DEF DeleteHandler
  <2>3. Held(exDep')
    BY <1>3, <2>2, Zenon DEF ObjectsTyped
  <2> QED
    BY <2>1, <2>2, <2>3, Zenon DEF ObjectsTyped, Held
<1>8. CASE DeleteWebhook
  <2>1. UNCHANGED <<ctlDep, ctlRest, ds, sa, exDep>>
    BY <1>8, Zenon DEF DeleteWebhook, Objects, ctlObjs, exObjs
  <2>2. /\ mwc' = mwc \/ mwc' = 0
        /\ whSvc' = whSvc \/ whSvc' = 0
        /\ whDep' = whDep \/ whDep' = DeleteDeployment(whDep)
    BY <1>8, Zenon DEF DeleteWebhook
  <2>3. Held(whDep')
    BY <1>3, <2>2, Zenon DEF ObjectsTyped
  <2> QED
    BY <1>1, <2>1, <2>2, <2>3, Zenon DEF ObjectsTyped, Held
<1>9. CASE DeleteControllerObjects
  <2>1. UNCHANGED <<mwc, whSvc, whDep, ds, sa, exDep>>
    BY <1>9, Zenon DEF DeleteControllerObjects, Objects, hookVars, exObjs
  <2>2. /\ ctlRest' = ctlRest \/ ctlRest' = 0
        /\ ctlDep' = ctlDep \/ ctlDep' = DeleteDeployment(ctlDep)
    BY <1>9, Zenon DEF DeleteControllerObjects
  <2>3. Held(ctlDep')
    BY <1>3, <2>2, Zenon DEF ObjectsTyped
  <2> QED
    BY <1>1, <2>1, <2>2, <2>3, Zenon DEF ObjectsTyped, Held
<1> QED
  BY <1>4, <1>5, <1>6, <1>7, <1>8, <1>9

LEMMA ObjectsStep ==
  ASSUME Inv, ObjectsTyped, Next
  PROVE  ObjectsTyped'
<1>1. CASE \/ CreateCPPC \/ DeleteCPPC \/ ChangePlugin \/ CreatePPC \/ StorePPC \/ DeletePPC
  BY <1>1, ObjectsKept, Zenon DEF CreateCPPC, DeleteCPPC, ChangePlugin, CreatePPC, StorePPC,
     DeletePPC, objects
<1>2. CASE \E p \in Pods : AdmitPod(p) \/ StorePod(p) \/ ReleasePod(p)
  BY <1>2, ObjectsKept, Zenon DEF AdmitPod, StorePod, ReleasePod, objects
<1>3. CASE DaemonReports \/ StoreEvent \/ HandlerReconciles \/ Informers
  BY <1>3, ObjectsKept, Zenon DEF DaemonReports, StoreEvent, HandlerReconciles, Informers, CPPCEvent,
     PPCEvent, OwnedEvent, ENoExecEventEvent, objects
<1>4. CASE OperatorRestart \/ CallFails
  BY <1>4, ObjectsKept, Zenon DEF OperatorRestart, CallFails, objects
<1>5. CASE ReconcileGone \/ ReconcileDeletion \/ AddPodPlacementFinalizer \/ FollowPPCs
           \/ AddExecFormatErrorFinalizer \/ ReconcileOperands
  BY <1>5, ObjectsKept, Zenon DEF ReconcileGone, ReconcileDeletion, AddPodPlacementFinalizer,
     FollowPPCs, AddExecFormatErrorFinalizer, ReconcileOperands, Begin
<1>6. CASE UpdateFinalizers \/ RemoveExecFormatErrorFinalizer \/ RemoveNoPPCFinalizer
           \/ RemovePodPlacementFinalizer \/ updateStatus
  BY <1>6, ObjectsKept, Zenon DEF UpdateFinalizers, RemoveExecFormatErrorFinalizer,
     RemoveNoPPCFinalizer, RemovePodPlacementFinalizer, updateStatus, UpdateCPPC
<1>7. CASE DrainEvents \/ WaitForPPCs \/ CheckPods
  BY <1>7, ObjectsKept, Zenon DEF DrainEvents, WaitForPPCs, CheckPods
<1> QED
  BY <1>1, <1>2, <1>3, <1>4, <1>5, <1>6, <1>7, ClusterObjects, GarbageObjects, AppliedObjects,
     WorkerObjects, Zenon DEF Next, Worker, Users, Cluster, Faults

-----------------------------------------------------------------------------
\* The other copies, and the steps of the worker.

LEMMA LiveTyped ==
  ASSUME ObjectsTyped
  PROVE  Live \in [ctlDep : Deployment, exDep : Deployment, ds : Owner, sa : {"none", "bare", "ready"}]
<1>1. /\ ctlDep \in Deployment /\ exDep \in Deployment /\ ds \in Owner
      /\ sa \in {"none", "bare", "ready"}
  BY Zenon DEF ObjectsTyped, Held
<1> QED
  BY <1>1 DEF Live

LEMMA BuiltFields ==
  ASSUME NEW x \in BOOLEAN, NEW y \in BOOLEAN, NEW z \in BOOLEAN, NEW s
  PROVE  LET b == [canDeploy |-> x, mwcFound |-> y, progressing |-> z]
         IN  b \in Built /\ [status |-> s, built |-> b].built \in Built
<1>1. ASSUME NEW Flag, NEW f \in Flag, NEW g \in Flag, NEW h \in Flag
      PROVE  LET b == [canDeploy |-> f, mwcFound |-> g, progressing |-> h]
             IN  /\ b \in [canDeploy : Flag, mwcFound : Flag, progressing : Flag]
                 /\ [status |-> s, built |-> b].built
                      \in [canDeploy : Flag, mwcFound : Flag, progressing : Flag]
  OBVIOUS
<1> QED
  BY <1>1, Zenon DEF Built

LEMMA BuiltTyped ==
  ASSUME NEW a \in BOOLEAN, NEW u \in BOOLEAN, NEW m \in BOOLEAN, NEW d \in BOOLEAN
  PROVE  NotBuilt \in Built /\ Build(a, u, m, d).built \in Built
<1>1. (a /\ ~d) \in BOOLEAN /\ ((~u \/ ~m) /\ ~d) \in BOOLEAN /\ FALSE \in BOOLEAN
  BY Zenon
<1>2. NotBuilt \in Built
  BY <1>1, BuiltFields, Zenon DEF NotBuilt
<1>3. Build(a, u, m, d).built \in Built
  BY <1>1, BuiltFields, Zenon DEF Build
<1> QED
  BY <1>2, <1>3

LEMMA WrittenCopies ==
  ASSUME CopiesTyped, NEW new, NEW holders \in SUBSET {"cache", "worker"}, WriteCPPC(new, holders)
  PROVE  fresh' \subseteq {"cache", "worker"}
<1>1. fresh' = holders \/ fresh' = (fresh \cap {"cache"}) \cup holders
  BY Zenon DEF WriteCPPC
<1> QED
  BY <1>1 DEF CopiesTyped

\* How a step of the worker ends.
LEMMA EndedCopies ==
  ASSUME CopiesTyped, Return \/ Requeue \/ \E step : Goto(step)
  PROVE  fresh' \subseteq {"cache", "worker"} /\ built' \in Built
<1>1. /\ fresh' = fresh \/ fresh' = fresh \ {"worker"}
      /\ built' = built \/ built' = NotBuilt
  BY Zenon DEF Return, Requeue, Goto, Finish
<1>2. built' \in Built
  BY <1>1, BuiltTyped, Zenon DEF CopiesTyped
<1> QED
  BY <1>1, <1>2 DEF CopiesTyped

LEMMA EventCopies ==
  ASSUME CopiesTyped
  PROVE  /\ StoredEvent \in {"unlisted", "none", "pending", "errored"}
         /\ Listed \in {"unlisted", "none", "pending", "errored"}
<1>1. StoredEvent \in {"unlisted", "none", "pending", "errored"}
  BY DEF CopiesTyped, StoredEvent
<1> QED
  BY <1>1 DEF CopiesTyped, Listed

LEMMA UserCopies ==
  ASSUME CopiesTyped, Users \/ Cluster
  PROVE  CopiesTyped'
<1>1. CASE CreateCPPC \/ DeleteCPPC \/ ChangePlugin
  <2>1. /\ UNCHANGED <<ppc, event, eventSeen, seen, built, late>>
        /\ \E new : WriteCPPC(new, {})
    BY <1>1, Zenon DEF CreateCPPC, DeleteCPPC, ChangePlugin, cacheVars, workVars
  <2>2. fresh' \subseteq {"cache", "worker"}
    BY <2>1, WrittenCopies
  <2> QED
    BY <2>1, <2>2, Zenon DEF CopiesTyped
<1>2. CASE CreatePPC \/ StorePPC \/ DeletePPC
  <2>1. /\ UNCHANGED <<event, eventSeen, seen, fresh, built, late>>
        /\ ppc' = "none" \/ ppc' = "admitted" \/ ppc' = "stored"
    BY <1>2, Zenon DEF CreatePPC, StorePPC, DeletePPC, cacheVars, workVars
  <2> QED
    BY <2>1, Zenon DEF CopiesTyped
<1>3. CASE DeleteController \/ RollOut \/ CollectGarbage \/ ProvisionServiceAccount
  BY <1>3, Zenon DEF DeleteController, RollOut, CollectGarbage, ProvisionServiceAccount, CopiesTyped,
     cacheVars, workVars
<1>4. ASSUME NEW p \in Pods, AdmitPod(p) \/ StorePod(p) \/ ReleasePod(p)
      PROVE  CopiesTyped'
  BY <1>4, Zenon DEF AdmitPod, StorePod, ReleasePod, CopiesTyped, cacheVars, workVars
<1>5. CASE DaemonReports \/ StoreEvent \/ HandlerReconciles
  <2>1. /\ UNCHANGED <<ppc, eventSeen, seen, fresh, built, late>>
        /\ event' = "sent" \/ event' \in {"pending", "none"} \/ event' \in {"none", "errored"}
    BY <1>5, Zenon DEF DaemonReports, StoreEvent, HandlerReconciles, cacheVars, workVars
  <2>2. event' \in {"none", "sent", "pending", "errored"}
    BY <2>1
  <2> QED
    BY <2>1, <2>2, Zenon DEF CopiesTyped
<1> QED
  BY <1>1, <1>2, <1>3, <1>4, <1>5, Zenon DEF Users, Cluster

LEMMA InformerCopies ==
  ASSUME ObjectsTyped, CopiesTyped, Informers \/ Faults
  PROVE  CopiesTyped'
<1>1. CASE CPPCEvent
  <2>1. /\ UNCHANGED <<ppc, event, eventSeen, seen, built, late>>
        /\ fresh' = fresh \cup {"cache"}
    BY <1>1, Zenon DEF CPPCEvent, workVars
  <2>2. fresh' \subseteq {"cache", "worker"}
    BY <2>1 DEF CopiesTyped
  <2> QED
    BY <2>1, <2>2, Zenon DEF CopiesTyped
<1>2. CASE PPCEvent
  BY <1>2, Zenon DEF PPCEvent, CopiesTyped, workVars
<1>3. CASE OwnedEvent \/ ENoExecEventEvent
  <2>1. /\ UNCHANGED <<ppc, event, fresh, built, late>>
        /\ eventSeen' = eventSeen \/ eventSeen' = StoredEvent
        /\ seen' = seen \/ seen' = Live
    BY <1>3, Zenon DEF OwnedEvent, ENoExecEventEvent, workVars
  <2> QED
    BY <2>1, EventCopies, LiveTyped, Zenon DEF CopiesTyped
<1>4. CASE OperandsDown
  BY <1>4, Zenon DEF OperandsDown, CopiesTyped, cacheVars, workVars
<1>5. CASE OperatorRestart
  <2>1. /\ UNCHANGED <<ppc, event, late>> /\ eventSeen' = "unlisted" /\ seen' = Live
        /\ fresh' = {"cache"} /\ built' = NotBuilt
    BY <1>5, Zenon DEF OperatorRestart, Finish
  <2>2. fresh' \subseteq {"cache", "worker"} /\ built' \in Built
    BY <2>1, BuiltTyped
  <2> QED
    BY <2>1, <2>2, LiveTyped, Zenon DEF CopiesTyped
<1>6. CASE CallFails
  <2>1. /\ UNCHANGED <<ppc, event, eventSeen, seen, late>>
        /\ Requeue \/ UNCHANGED <<fresh, built>>
    BY <1>6, Zenon DEF CallFails, cacheVars
  <2>2. fresh' \subseteq {"cache", "worker"} /\ built' \in Built
    BY <2>1, EndedCopies, Zenon DEF CopiesTyped
  <2> QED
    BY <2>1, <2>2, Zenon DEF CopiesTyped
<1> QED
  BY <1>1, <1>2, <1>3, <1>4, <1>5, <1>6, Zenon DEF Informers, Faults

LEMMA WorkerCopies ==
  ASSUME Inv, CopiesTyped, Worker
  PROVE  CopiesTyped'
<1>1. ASSUME NEW step, NEW copy, Begin(step, copy)
      PROVE  CopiesTyped'
  <2>1. /\ UNCHANGED <<ppc, event, eventSeen, seen, built, late>>
        /\ fresh' = fresh \/ fresh' = fresh \cup {"worker"}
    BY <1>1, Zenon DEF Begin, cacheVars
  <2>2. fresh' \subseteq {"cache", "worker"}
    BY <2>1 DEF CopiesTyped
  <2> QED
    BY <2>1, <2>2, Zenon DEF CopiesTyped
<1>2. CASE ReconcileGone
  BY <1>2, Zenon DEF ReconcileGone, CopiesTyped, cacheVars, workVars
<1>3. CASE ReconcileDeletion \/ AddPodPlacementFinalizer \/ FollowPPCs \/ AddExecFormatErrorFinalizer
           \/ ReconcileOperands
  BY <1>1, <1>3, Zenon DEF ReconcileDeletion, AddPodPlacementFinalizer, FollowPPCs,
     AddExecFormatErrorFinalizer, ReconcileOperands
<1>4. CASE updateStatus \/ \E step, fins, next : UpdateCPPC(step, fins, next)
  <2>1. UNCHANGED <<ppc, event, eventSeen, seen, late>>
    BY <1>4, Zenon DEF updateStatus, UpdateCPPC, cacheVars
  <2>2. \/ Requeue
        \/ /\ \E new : WriteCPPC(new, {}) \/ WriteCPPC(new, {"worker"})
           /\ built' = built \/ built' = NotBuilt
    BY <1>4, Zenon DEF updateStatus, UpdateCPPC, Finish
  <2>3. {} \in SUBSET {"cache", "worker"} /\ {"worker"} \in SUBSET {"cache", "worker"}
    OBVIOUS
  <2>4. fresh' \subseteq {"cache", "worker"}
    BY <2>2, <2>3, WrittenCopies, EndedCopies, Zenon
  <2>5. NotBuilt \in Built
    BY BuiltTyped
  <2>6. built' \in Built
    BY <2>2, <2>5, EndedCopies, Zenon DEF CopiesTyped
  <2> QED
    BY <2>1, <2>4, <2>6, Zenon DEF CopiesTyped
<1>5. CASE UpdateFinalizers \/ RemoveExecFormatErrorFinalizer \/ RemoveNoPPCFinalizer
           \/ RemovePodPlacementFinalizer
  BY <1>4, <1>5, Zenon DEF UpdateFinalizers, RemoveExecFormatErrorFinalizer, RemoveNoPPCFinalizer,
     RemovePodPlacementFinalizer
<1>6. CASE DependentsStatus
  <2> DEFINE available == isDeploymentAvailable(ctlDep) /\ isDeploymentAvailable(whDep)
             upToDate == isDeploymentUpToDate(ctlDep) /\ isDeploymentUpToDate(whDep)
  <2>1. /\ UNCHANGED <<ppc, event, eventSeen, seen, fresh, late>>
        /\ built' = Build(available, upToDate, mwc # 0, w.deleting).built
    BY <1>6, Zenon DEF DependentsStatus, cacheVars
  <2>2. w.deleting \in BOOLEAN
    BY Fields DEF Inv, Typed
  <2>3. available \in BOOLEAN /\ upToDate \in BOOLEAN /\ (mwc # 0) \in BOOLEAN
    BY Zenon
  <2> HIDE DEF available, upToDate
  <2>4. built' \in Built
    BY <2>1, <2>2, <2>3, BuiltTyped, Zenon
  <2> QED
    BY <2>1, <2>4, Zenon DEF CopiesTyped
<1>7. CASE Apply
  BY <1>7, Zenon DEF Apply, CopiesTyped, cacheVars
<1>8. CASE AddDeploymentFinalizer \/ DeleteDaemon \/ DeleteHandler \/ WaitForPPCs \/ DeleteWebhook
           \/ RemoveControllerFinalizer \/ DeleteControllerObjects
  <2>1. UNCHANGED <<ppc, event, eventSeen, seen, late>>
    BY <1>8, Zenon DEF AddDeploymentFinalizer, DeleteDaemon, DeleteHandler, WaitForPPCs, DeleteWebhook,
       RemoveControllerFinalizer, DeleteControllerObjects, cacheVars
  <2>2. Return \/ Requeue \/ \E step : Goto(step)
    BY <1>8, Zenon DEF AddDeploymentFinalizer, DeleteDaemon, DeleteHandler, WaitForPPCs, DeleteWebhook,
       RemoveControllerFinalizer, DeleteControllerObjects
  <2> QED
    BY <2>1, <2>2, EndedCopies, Zenon DEF CopiesTyped
<1>9. CASE DrainEvents
  <2>1. /\ UNCHANGED <<ppc, seen, late>> /\ (event' = "none" \/ event' = event)
        /\ eventSeen' = eventSeen \/ eventSeen' = Listed
        /\ Requeue \/ \E step : Goto(step)
    BY <1>9, Zenon DEF DrainEvents
  <2> QED
    BY <2>1, EventCopies, EndedCopies, Zenon DEF CopiesTyped
<1>10. CASE CheckPods
  <2>1. /\ UNCHANGED <<ppc, event, eventSeen, seen>>
        /\ late' = late \/ late' = late \cup {p \in Pods : pods[p] = "admitted"}
        /\ Requeue \/ \E step : Goto(step)
    BY <1>10, Zenon DEF CheckPods, cacheVars
  <2>2. late' \subseteq Pods
    BY <2>1 DEF CopiesTyped
  <2> QED
    BY <2>1, <2>2, EndedCopies, Zenon DEF CopiesTyped
<1> QED
  BY <1>2, <1>3, <1>4, <1>5, <1>6, <1>7, <1>8, <1>9, <1>10, Zenon DEF Worker

-----------------------------------------------------------------------------
LEMMA AllTypedInit == Init => AllTyped
<1>1. SUFFICES ASSUME Init
               PROVE  ObjectsTyped /\ FlagsTyped /\ CopiesTyped /\ Bounded
  BY InvInit DEF AllTyped
<1>2. 0 \in Owner
  BY OperatorAssumption DEF Owner
<1>3. /\ mwc = 0 /\ whSvc = 0 /\ whDep = NoDeployment /\ ctlDep = NoDeployment /\ ctlRest = 0
      /\ ds = 0 /\ sa = "none" /\ exDep = NoDeployment
  BY <1>1, Zenon DEF Init, Empty
<1>4. ObjectsTyped
  BY <1>2, <1>3, NoneHeld, Zenon DEF ObjectsTyped
<1>5. FlagsTyped
  BY <1>1, Zenon DEF Init, Empty, FlagsTyped
<1>6. /\ ppc = "none" /\ event = "none" /\ eventSeen = "unlisted" /\ seen = Live /\ fresh = {"cache"}
      /\ built = NotBuilt /\ late = {}
  BY <1>1, Zenon DEF Init, Empty
<1>7. fresh \subseteq {"cache", "worker"} /\ late \subseteq Pods /\ NotBuilt \in Built
  BY <1>6, BuiltTyped
<1>8. CopiesTyped
  BY <1>4, <1>6, <1>7, LiveTyped, Zenon DEF CopiesTyped
<1>9. edits = 0 /\ removals = 0 /\ faults = 0
  BY <1>1, Zenon DEF Init, Empty
<1>10. Bounded
  BY <1>9, OperatorAssumption DEF Bounded
<1> QED
  BY <1>4, <1>5, <1>8, <1>10

LEMMA AllTypedStep == AllTyped /\ Inv' /\ [Next]_vars => AllTyped'
<1>1. SUFFICES ASSUME AllTyped, Inv', [Next]_vars
               PROVE  ObjectsTyped' /\ FlagsTyped' /\ CopiesTyped' /\ Bounded'
  BY Zenon DEF AllTyped
<1>2. Inv /\ ObjectsTyped /\ FlagsTyped /\ CopiesTyped /\ Bounded
  BY <1>1, Zenon DEF AllTyped
<1>3. CASE UNCHANGED vars
  <2>1. UNCHANGED <<hookVars, ctlObjs, exObjs, cacheVars, workVars, bounds>>
        /\ UNCHANGED <<ppc, event, fresh, wakeup, changed, queued, late>>
    BY <1>3, Zenon DEF vars
  <2>2. UNCHANGED objects
    BY <2>1, Zenon DEF objects
  <2>3. ObjectsTyped'
    BY <1>2, <2>2, ObjectsKept
  <2>4. FlagsTyped' /\ Bounded'
    BY <1>2, <2>1, Zenon DEF FlagsTyped, Bounded, cacheVars, bounds
  <2>5. CopiesTyped'
    BY <1>2, <2>1, Zenon DEF CopiesTyped, cacheVars, workVars
  <2> QED
    BY <2>3, <2>4, <2>5
<1>4. CASE Next
  <2>1. FlagsTyped'
    BY <1>2, <1>4, UserFlags, InformerFlags, WorkerStepFlags, Zenon DEF Next
  <2>2. CopiesTyped'
    BY <1>2, <1>4, UserCopies, InformerCopies, WorkerCopies, Zenon DEF Next
  <2> QED
    BY <1>2, <1>4, <2>1, <2>2, ObjectsStep, BoundedStep
<1> QED
  BY <1>1, <1>3, <1>4

\* The variables have their types, for any users, faults and bounds: in
\* particular the worker has a copy of a ClusterPodPlacementConfig exactly while
\* Reconcile runs, a cache without an event on the way holds the stored object,
\* and an object in deletion is one that a finalizer holds
\* (clusterpodplacementconfig_controller.go:163-285).
THEOREM TypeTheorem == Spec => []TypeOK
<1>1. AllTyped => TypeOK
  <2>1. SUFFICES ASSUME AllTyped
                 PROVE  TypeOK
    OBVIOUS
  <2>2. Inv /\ ObjectsTyped /\ FlagsTyped /\ CopiesTyped /\ Bounded
    BY <2>1, Zenon DEF AllTyped
  <2>3. /\ cppc \in CPPC /\ cached \in CPPC /\ w \in CPPC /\ lastUID \in Owner
        /\ (w.uid # 0) = (pc # "idle") /\ ("cache" \in fresh => cached = cppc)
        /\ cppc.deleting => cppc.fins # {}
        /\ pc \in Steps /\ pods \in [Pods -> {"new", "admitted", "gated", "free"}]
    BY <2>2, Zenon DEF Inv, Typed, Stored, Cache, Working
  <2>4. /\ whDep \in Deployment /\ ctlDep \in Deployment /\ exDep \in Deployment
        /\ \A d \in {whDep, ctlDep, exDep} : d.deleting => d.owner # 0 /\ d.fin
    BY <2>2, Zenon DEF ObjectsTyped, Held
  <2> QED
    BY <2>2, <2>3, <2>4, Zenon DEF TypeOK, ObjectsTyped, FlagsTyped, CopiesTyped, Bounded
<1> QED
  BY <1>1, AllTypedInit, AllTypedStep, InvHolds, PTL DEF Spec

=============================================================================
