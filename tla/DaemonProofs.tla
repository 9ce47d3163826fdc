---------------------------- MODULE DaemonProofs ----------------------------
(***************************************************************************)
(* Proofs about the daemon, for every capacity of the channel and of the   *)
(* ring buffer and every number of records.                                *)
(***************************************************************************)
EXTENDS Daemon, TLAPS

-----------------------------------------------------------------------------
(***************************************************************************)
(* Types.  Only the sequences need their own steps.                        *)
(***************************************************************************)

\* The goroutines are where they can be, and the records are numbers.
States ==
    /\ detected \in 0 .. MaxRecords
    /\ held \in 0 .. MaxRecords
    /\ tp = "send" \/ tp = "process" => held \in 1 .. MaxRecords
    /\ reader \in {"none", "open", "closed"}
    /\ chClosed \in BOOLEAN /\ done \in BOOLEAN /\ tpCtx \in BOOLEAN /\ alive \in BOOLEAN
    /\ tp \in {"attach", "read", "process", "send", "closeReader", "close", "cancel", "return", "returned"}
    /\ mon \in {"none", "start", "wait", "cancel", "closeReader", "returned"}
    /\ st \in {"select", "store", "returned"}
    /\ main \in {"wait", "join", "returned"}

Buffers ==
    /\ ring \in Seq(1 .. MaxRecords) /\ Len(ring) <= RingSize
    /\ ch \in Seq(1 .. MaxRecords) /\ Len(ch) <= maxEvents

Typed == States /\ Buffers

\* Every step keeps the types.
LEMMA TypedStep == Typed /\ [Next]_vars => Typed'
<1> SUFFICES ASSUME Typed, [Next]_vars
             PROVE  Typed'
  OBVIOUS
<1> USE DaemonAssumption DEF Typed, States, Buffers
<1>1. CASE Detect
  <2>1. detected' \in 1 .. MaxRecords
    <3>1. detected < MaxRecords /\ detected' = detected + 1
      BY <1>1, Zenon DEF Detect
    <3> QED
      BY <3>1
  <2>2. ring' = IF Len(ring) < RingSize THEN Append(ring, detected') ELSE ring
    BY <1>1, Zenon DEF Detect
  <2>3. ring' \in Seq(1 .. MaxRecords) /\ Len(ring') <= RingSize
    <3>1. ring \in Seq(1 .. MaxRecords) /\ Len(ring) <= RingSize /\ RingSize \in Nat
      OBVIOUS
    <3>2. CASE Len(ring) < RingSize
      <4>1. ring' = Append(ring, detected')
        BY <2>2, <3>2
      <4> HIDE DEF Typed, States, Buffers
      <4> QED
        BY <2>1, <3>1, <3>2, <4>1
    <3>3. CASE ~(Len(ring) < RingSize)
      BY <2>2, <3>1, <3>3
    <3> QED
      BY <3>2, <3>3
  <2> QED
    BY <1>1, <2>1, <2>3 DEF Detect
<1>2. CASE Signal
  BY <1>2 DEF Signal
<1>3. CASE Attach
  <2>1. UNCHANGED <<detected, ring, ch, chClosed, done, held, st, main, alive>>
    BY <1>3, Zenon DEF Attach
  <2>2. /\ tp' = "read" \/ tp' = "return"
        /\ reader' = "open" \/ reader' = reader
        /\ mon' = "start" \/ mon' = mon
    BY <1>3, Zenon DEF Attach
  <2>3. tpCtx' \in BOOLEAN
    BY <1>3, Zenon DEF Attach
  <2> QED
    BY <2>1, <2>2, <2>3
<1>4. CASE Read
  <2>1. held' \in 1 .. MaxRecords /\ ring' \in Seq(1 .. MaxRecords) /\ Len(ring') <= RingSize
    BY <1>4 DEF Read
  <2> QED
    BY <1>4, <2>1 DEF Read
<1>5. CASE ReadClosed \/ ReadFails
  BY <1>5 DEF ReadClosed, ReadFails, ReadEnds
<1>6. CASE processRecord
  <2>1. UNCHANGED <<detected, ring, reader, ch, chClosed, done, st, main, mon, tpCtx>>
    BY <1>6, Zenon DEF processRecord, UsesCtx
  <2>2. alive' \in BOOLEAN
    BY <1>6, Zenon DEF processRecord, UsesCtx
  <2>3. tp = "process"
    BY <1>6, Zenon DEF processRecord
  <2>4. \/ tp' = "send" /\ UNCHANGED held
        \/ tp' = "read" /\ held' = 0
        \/ UNCHANGED <<tp, held>>
    BY <1>6, Zenon DEF processRecord, UsesCtx
  <2> QED
    BY <2>1, <2>2, <2>3, <2>4
<1>7. CASE Send
  <2>1. CASE chClosed
    <3>1. UNCHANGED <<detected, ring, reader, ch, chClosed, done, tpCtx, tp, held, mon, st, main>>
      BY <1>7, <2>1, Zenon DEF Send
    <3>2. alive' \in BOOLEAN
      BY <1>7, <2>1, Zenon DEF Send
    <3> QED
      BY <3>1, <3>2
  <2>2. CASE ~chClosed
    <3>1. held \in 1 .. MaxRecords /\ Len(ch) < maxEvents /\ ch' = Append(ch, held)
      BY <1>7, <2>2 DEF Send
    <3>2. ch' \in Seq(1 .. MaxRecords) /\ Len(ch') <= maxEvents
      BY <3>1
    <3> QED
      BY <1>7, <2>2, <3>2 DEF Send
  <2> QED
    BY <2>1, <2>2
<1>8. CASE CloseReader
  BY <1>8 DEF CloseReader
<1>9. CASE Close
  <2>1. UNCHANGED <<detected, ring, reader, ch, chClosed, done, held, mon, st, main>>
    BY <1>9, Zenon DEF Close
  <2>2. tp' \in {tp, "cancel", "return"}
    BY <1>9, Zenon DEF Close, UsesCtx
  <2>3. tpCtx' \in BOOLEAN /\ alive' \in BOOLEAN
    BY <1>9, Zenon DEF Close, UsesCtx
  <2> QED
    BY <2>1, <2>2, <2>3
<1>10. CASE TracepointReturns
  BY <1>10 DEF TracepointReturns
<1>11. CASE Monitor
  <2>1. UNCHANGED <<detected, ring, ch, chClosed, done, st, main, tp, held>>
    BY <1>11, Zenon DEF Monitor, MonitorStarts, MonitorCloses, MonitorClosesReader, UsesCtx
  <2>2. /\ mon' \in {"none", "start", "wait", "cancel", "closeReader", "returned"}
        /\ reader' \in {"none", "open", "closed"}
    BY <1>11 DEF Monitor, MonitorStarts, MonitorCloses, MonitorClosesReader, UsesCtx
  <2>3. tpCtx' \in BOOLEAN /\ alive' \in BOOLEAN
    BY <1>11, Zenon DEF Monitor, MonitorStarts, MonitorCloses, MonitorClosesReader, UsesCtx
  <2> QED
    BY <2>1, <2>2, <2>3
<1>12. CASE Receive
  <2>1. ch' \in Seq(1 .. MaxRecords) /\ Len(ch') <= maxEvents
    BY <1>12 DEF Receive
  <2> QED
    BY <1>12, <2>1 DEF Receive
<1>13. CASE Stored \/ StorageReturns
  BY <1>13 DEF Stored, StorageReturns
<1>14. CASE RunDaemon
  <2>1. UNCHANGED <<detected, ring, reader, ch, done, tpCtx, tp, held, mon, st, alive>>
    BY <1>14, Zenon DEF RunDaemon
  <2>2. main' = "join" \/ main' = "returned"
    BY <1>14, Zenon DEF RunDaemon
  <2>3. chClosed' \in BOOLEAN
    BY <1>14, Zenon DEF RunDaemon
  <2> QED
    BY <2>1, <2>2, <2>3
<1>15. CASE UNCHANGED vars
  BY <1>15 DEF vars
<1> QED
  BY <1>1, <1>2, <1>3, <1>4, <1>5, <1>6, <1>7, <1>8, <1>9, <1>10, <1>11, <1>12, <1>13, <1>14, <1>15
     DEF Next, Tracepoint, Storage

\* Type correctness; neither the ring buffer nor the channel overflows
\* (daemon.go:24-31, tracepoint.go:124-135).
THEOREM TypeTheorem == Spec => []TypeOK
<1>1. Init => Typed
  <2>1. Init => /\ chClosed \in BOOLEAN /\ done \in BOOLEAN
                /\ tpCtx \in BOOLEAN /\ alive \in BOOLEAN
    BY Zenon DEF Init
  <2>2. Init => /\ detected = 0 /\ held = 0 /\ tp = "attach" /\ reader = "none"
                /\ mon = "none" /\ st = "select" /\ main = "wait"
    BY Zenon DEF Init
  <2>3. Init => States
    BY <2>1, <2>2, DaemonAssumption DEF States
  <2>4. Init => Buffers
    BY DaemonAssumption DEF Init, Buffers
  <2> QED
    BY <2>3, <2>4 DEF Typed
<1>2. Typed /\ [Next]_vars => Typed'
  BY TypedStep
<1>3. Typed => TypeOK
  BY DEF Typed, States, Buffers, TypeOK
<1> QED
  BY <1>1, <1>2, <1>3, PTL DEF Spec

-----------------------------------------------------------------------------
(***************************************************************************)
(* The order of the shutdown.  The tracepoint closes its reader before it  *)
(* closes itself, and has neither when it returns, whatever the monitor    *)
(* did first; RunDaemon closes the channel after both workers.             *)
(***************************************************************************)

Shutdown ==
    /\ tp \in {"attach", "close", "cancel", "return", "returned"} => reader # "open"
    /\ tp \in {"return", "returned"} => ~tpCtx
    /\ chClosed => main = "returned"
    /\ main = "returned" => tp = "returned" /\ st = "returned"

\* Every step keeps the order of the shutdown.
LEMMA ShutdownStep == Shutdown /\ [Next]_vars => Shutdown'
<1> SUFFICES ASSUME Shutdown, [Next]_vars
             PROVE  Shutdown'
  OBVIOUS
<1> USE DEF Shutdown
<1>1. CASE Detect \/ Signal
  BY <1>1 DEF Detect, Signal
<1>2. CASE Attach
  BY <1>2 DEF Attach
<1>3. CASE Read \/ ReadClosed \/ ReadFails
  BY <1>3 DEF Read, ReadClosed, ReadFails, ReadEnds
<1>4. CASE processRecord
  BY <1>4, Zenon DEF processRecord, UsesCtx
<1>5. CASE Send
  BY <1>5, Zenon DEF Send
<1>6. CASE CloseReader
  BY <1>6 DEF CloseReader
<1>7. CASE Close
  <2>1. UNCHANGED <<reader, chClosed, main, st>> /\ tp \in {"close", "cancel"}
    BY <1>7, Zenon DEF Close
  <2>2. \/ tp' = "cancel" /\ UNCHANGED tpCtx
        \/ tp' = "return" /\ ~tpCtx'
        \/ UNCHANGED <<tp, tpCtx>>
    BY <1>7, Zenon DEF Close, UsesCtx
  <2> QED
    BY <2>1, <2>2
<1>8. CASE TracepointReturns
  BY <1>8 DEF TracepointReturns
<1>9. CASE Monitor
  BY <1>9 DEF Monitor, MonitorStarts, MonitorCloses, MonitorClosesReader, UsesCtx
<1>10. CASE Storage
  BY <1>10 DEF Storage, Receive, Stored, StorageReturns
<1>11. CASE RunDaemon
  BY <1>11 DEF RunDaemon
<1>12. CASE UNCHANGED vars
  BY <1>12 DEF vars
<1> QED
  BY <1>1, <1>2, <1>3, <1>4, <1>5, <1>6, <1>7, <1>8, <1>9, <1>10, <1>11, <1>12
     DEF Next, Tracepoint

\* The shutdown is in order in every reachable state.
THEOREM ShutdownInvariant == Spec => []Shutdown
<1>1. Init => Shutdown
  BY DEF Init, Shutdown
<1>2. Shutdown /\ [Next]_vars => Shutdown'
  BY ShutdownStep
<1> QED
  BY <1>1, <1>2, PTL DEF Spec

\* No goroutine can send on the channel once it is closed (daemon.go:58-62).
THEOREM NoSendTheorem == Spec => []NoSendOnClosedChannel
<1>1. Shutdown => NoSendOnClosedChannel
  BY DEF Shutdown, NoSendOnClosedChannel
<1> QED
  BY ShutdownInvariant, <1>1, PTL

\* Reader and tracepoint are closed when RunDaemon returns, whichever of the
\* goroutines came to it first (tracepoint.go:166-173).
THEOREM ReleasedTheorem == Spec => []ReleasedOnReturn
<1>1. Shutdown => ReleasedOnReturn
  BY DEF Shutdown, ReleasedOnReturn
<1> QED
  BY ShutdownInvariant, <1>1, PTL
=============================================================================
