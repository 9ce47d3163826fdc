------------------------------- MODULE Daemon -------------------------------
(***************************************************************************)
(* The process of the ENoExecEvent daemon, which runs on every node: the   *)
(* goroutine of the tracepoint reads records from the kernel's ring buffer *)
(* and sends them over a bounded channel to the goroutine of the storage;  *)
(* a third goroutine, the monitor, unblocks the tracepoint when the        *)
(* context is cancelled; RunDaemon waits for the first two.                *)
(*                                                                         *)
(* tpCtx is the field tp.ctx, which close sets to nil while other          *)
(* goroutines read it: a method call on the nil context is a panic, which  *)
(* ends the process (alive = FALSE).                                       *)
(***************************************************************************)
EXTENDS Naturals, Sequences

CONSTANTS
    maxEvents,     \* capacity of the channel
    RingSize,      \* records the ring buffer holds
    MaxRecords     \* bound: failing execs on the node

ASSUME DaemonAssumption ==
    maxEvents \in Nat \ {0} /\ RingSize \in Nat \ {0} /\ MaxRecords \in Nat

VARIABLES
    detected,   \* records the kernel has produced
    ring,       \* ring buffer
    reader,     \* its reader: "none", "open", "closed"
    ch, chClosed,
    done,       \* the context is cancelled
    tpCtx,      \* tp.ctx is not nil
    tp, held,   \* tracepoint goroutine: where it is, and the event in its hand
    mon,        \* monitor goroutine
    st,         \* storage goroutine
    main,       \* RunDaemon
    alive       \* the process has not panicked

vars == <<detected, ring, reader, ch, chClosed, done, tpCtx, tp, held, mon, st, main, alive>>

Init ==
    /\ detected = 0 /\ ring = <<>> /\ reader = "none"
    /\ ch = <<>> /\ chClosed = FALSE
    /\ done = FALSE /\ tpCtx = TRUE
    /\ tp = "attach" /\ held = 0 /\ mon = "none" /\ st = "select" /\ main = "wait"
    /\ alive = TRUE

\* A call on tp.ctx panics if it is nil; otherwise the goroutine goes on.
UsesCtx(goesOn) ==
    IF tpCtx THEN goesOn /\ UNCHANGED alive
             ELSE alive' = FALSE /\ UNCHANGED <<tp, held, mon, tpCtx>>

-----------------------------------------------------------------------------
\* The kernel and the kubelet

\* The tracepoint is attached until close detaches it, before it gets to the context.
Attached == reader = "open" /\ tpCtx /\ mon # "cancel" /\ tp # "cancel"

\* A mutant, for the model checker only: the size of the buffer is not looked at.
bufferOverrun ==
    /\ alive /\ Attached /\ detected < MaxRecords
    /\ detected' = detected + 1
    /\ ring' = Append(ring, detected')
    /\ UNCHANGED <<reader, ch, chClosed, done, tpCtx, tp, held, mon, st, main, alive>>

\* The eBPF program reserves a record, or drops it when the buffer is full.
Detect ==
    /\ alive /\ Attached /\ detected < MaxRecords
    /\ detected' = detected + 1
    /\ ring' = IF Len(ring) < RingSize THEN Append(ring, detected') ELSE ring
    /\ UNCHANGED <<reader, ch, chClosed, done, tpCtx, tp, held, mon, st, main, alive>>

Signal ==
    /\ alive /\ ~done
    /\ done' = TRUE
    /\ UNCHANGED <<detected, ring, reader, ch, chClosed, tpCtx, tp, held, mon, st, main, alive>>

-----------------------------------------------------------------------------
\* Tracepoint.Run

Attach ==
    /\ alive /\ tp = "attach"
    /\ \/ reader' = "open" /\ mon' = "start" /\ tp' = "read" /\ UNCHANGED tpCtx
       \/ tpCtx' = FALSE /\ tp' = "return" /\ UNCHANGED <<reader, mon>>
    /\ UNCHANGED <<detected, ring, ch, chClosed, done, held, st, main, alive>>

\* rd.Read returns a record, that the reader is closed, or another error.
Read ==
    /\ alive /\ tp = "read" /\ reader = "open" /\ ring # <<>>
    /\ held' = Head(ring) /\ ring' = Tail(ring) /\ tp' = "process"
    /\ UNCHANGED <<detected, reader, ch, chClosed, done, tpCtx, mon, st, main, alive>>

ReadEnds ==
    /\ alive /\ tp = "read"
    /\ tp' = "closeReader"
    /\ UNCHANGED <<detected, ring, reader, ch, chClosed, done, tpCtx, held, mon, st, main, alive>>

ReadClosed == reader = "closed" /\ ReadEnds
ReadFails == reader = "open" /\ ReadEnds

\* processRecord finds the pod of the record, or fails and the record is dropped.
processRecord ==
    /\ alive /\ tp = "process"
    /\ UsesCtx(/\ \/ tp' = "send" /\ UNCHANGED held
                  \/ tp' = "read" /\ held' = 0
               /\ UNCHANGED <<mon, tpCtx>>)
    /\ UNCHANGED <<detected, ring, reader, ch, chClosed, done, st, main>>

Send ==
    /\ alive /\ tp = "send"
    /\ IF chClosed
       THEN alive' = FALSE /\ UNCHANGED <<ch, held, tp>>
       ELSE /\ Len(ch) < maxEvents
            /\ ch' = Append(ch, held) /\ held' = 0 /\ tp' = "read" /\ UNCHANGED alive
    /\ UNCHANGED <<detected, ring, reader, chClosed, done, tpCtx, mon, st, main>>

\* A mutant, for the model checker only: the reader is left to the monitor.
readerLeftOpen ==
    /\ alive /\ tp = "closeReader"
    /\ tp' = "close"
    /\ UNCHANGED <<detected, ring, reader, ch, chClosed, done, tpCtx, held, mon, st, main, alive>>

\* The deferred calls: the reader, then the tracepoint.
CloseReader ==
    /\ alive /\ tp = "closeReader"
    /\ reader' = "closed" /\ tp' = "close"
    /\ UNCHANGED <<detected, ring, ch, chClosed, done, tpCtx, held, mon, st, main, alive>>

\* close checks tp.ctx, and then uses it before it sets it to nil.
Close ==
    /\ alive
    /\ \/ tp = "close" /\ tp' = (IF tpCtx THEN "cancel" ELSE "return") /\ UNCHANGED <<tpCtx, alive>>
       \/ tp = "cancel" /\ UsesCtx(tp' = "return" /\ tpCtx' = FALSE /\ UNCHANGED <<held, mon>>)
    /\ UNCHANGED <<detected, ring, reader, ch, chClosed, done, held, mon, st, main>>

\* runWorker: whichever worker ends cancels the context of both.
TracepointReturns ==
    /\ alive /\ tp = "return"
    /\ tp' = "returned" /\ done' = TRUE
    /\ UNCHANGED <<detected, ring, reader, ch, chClosed, tpCtx, held, mon, st, main, alive>>

-----------------------------------------------------------------------------
\* Tracepoint.monitor

MonitorStarts ==
    /\ alive /\ mon = "start"
    /\ UsesCtx(mon' = "wait" /\ UNCHANGED <<tp, held, tpCtx>>)
    /\ UNCHANGED <<detected, ring, reader, ch, chClosed, done, st, main>>

MonitorCloses ==
    /\ alive
    /\ \/ mon = "wait" /\ done /\ mon' = (IF tpCtx THEN "cancel" ELSE "closeReader")
          /\ UNCHANGED <<tpCtx, alive>>
       \/ mon = "cancel" /\ UsesCtx(mon' = "closeReader" /\ tpCtx' = FALSE /\ UNCHANGED <<tp, held>>)
    /\ UNCHANGED <<detected, ring, reader, ch, chClosed, done, tp, held, st, main>>

\* A mutant, for the model checker only: only the tracepoint is closed.
readerForgotten ==
    /\ alive /\ mon = "closeReader"
    /\ mon' = "returned"
    /\ UNCHANGED <<detected, ring, reader, ch, chClosed, done, tpCtx, tp, held, st, main, alive>>

MonitorClosesReader ==
    /\ alive /\ mon = "closeReader"
    /\ mon' = "returned" /\ reader' = "closed"
    /\ UNCHANGED <<detected, ring, ch, chClosed, done, tpCtx, tp, held, st, main, alive>>

-----------------------------------------------------------------------------
\* K8sENOExecEventStorage.Run: a select over the channel and the context

Receive ==
    /\ alive /\ st = "select" /\ ch # <<>>
    /\ ch' = Tail(ch) /\ st' = "store"
    /\ UNCHANGED <<detected, ring, reader, chClosed, done, tpCtx, tp, held, mon, main, alive>>

\* processEvent, which module ENoExecEvents models.
Stored ==
    /\ alive /\ st = "store"
    /\ st' = "select"
    /\ UNCHANGED <<detected, ring, reader, ch, chClosed, done, tpCtx, tp, held, mon, main, alive>>

StorageReturns ==
    /\ alive /\ st = "select" /\ done
    /\ st' = "returned"
    /\ UNCHANGED <<detected, ring, reader, ch, chClosed, done, tpCtx, tp, held, mon, main, alive>>

-----------------------------------------------------------------------------
\* RunDaemon

\* A mutant, for the model checker only: the channel is closed before the workers have ended.
closedEarly ==
    /\ alive
    /\ \/ main = "wait" /\ done /\ main' = "join" /\ chClosed' = TRUE
       \/ main = "join" /\ tp = "returned" /\ st = "returned"
          /\ main' = "returned" /\ UNCHANGED chClosed
    /\ UNCHANGED <<detected, ring, reader, ch, done, tpCtx, tp, held, mon, st, alive>>

RunDaemon ==
    /\ alive
    /\ \/ main = "wait" /\ done /\ main' = "join" /\ UNCHANGED chClosed
       \/ main = "join" /\ tp = "returned" /\ st = "returned"
          /\ main' = "returned" /\ chClosed' = TRUE
    /\ UNCHANGED <<detected, ring, reader, ch, done, tpCtx, tp, held, mon, st, alive>>

Tracepoint ==
    Attach \/ Read \/ ReadClosed \/ processRecord \/ Send \/ CloseReader \/ Close \/ TracepointReturns
Monitor == MonitorStarts \/ MonitorCloses \/ MonitorClosesReader
Storage == Receive \/ Stored \/ StorageReturns

Next == Detect \/ Signal \/ Tracepoint \/ ReadFails \/ Monitor \/ Storage \/ RunDaemon

Spec == Init /\ [][Next]_vars

\* The Go scheduler runs every goroutine that can run.
FairSpec ==
    Spec /\ WF_vars(Tracepoint) /\ WF_vars(Monitor) /\ WF_vars(Storage) /\ WF_vars(RunDaemon)

-----------------------------------------------------------------------------
\* The types of the variables, and the bounds of the ring buffer and of the channel.
TypeOK ==
    /\ detected \in 0 .. MaxRecords
    /\ ring \in Seq(1 .. MaxRecords) /\ Len(ring) <= RingSize
    /\ ch \in Seq(1 .. MaxRecords) /\ Len(ch) <= maxEvents
    /\ held \in 0 .. MaxRecords
    /\ reader \in {"none", "open", "closed"}
    /\ {chClosed, done, tpCtx, alive} \subseteq BOOLEAN
    /\ tp \in {"attach", "read", "process", "send", "closeReader", "close", "cancel", "return", "returned"}
    /\ mon \in {"none", "start", "wait", "cancel", "closeReader", "returned"}
    /\ st \in {"select", "store", "returned"}
    /\ main \in {"wait", "join", "returned"}

\* RunDaemon closes the channel only when no goroutine can send on it any more
\* (daemon.go:58-62): a send on a closed channel would be a panic.
NoSendOnClosedChannel == chClosed => tp = "returned" /\ st = "returned"

\* When RunDaemon returns, the reader of the ring buffer and the tracepoint are
\* closed, whichever of the goroutines came to it first (tracepoint.go:166-173).
ReleasedOnReturn == main = "returned" => reader # "open" /\ ~tpCtx

\* The tracepoint waits for room in the channel, and nobody receives any more.
BlockedInSend == tp = "send" /\ Len(ch) = maxEvents /\ st = "returned"

\* The end of one worker, or a signal, ends the daemon, unless it panics or the
\* tracepoint is blocked in a send (daemon.go:58-80, tracepoint.go:242-255).
ShutdownEnds ==
    done \/ tp = "returned" \/ st = "returned" ~> main = "returned" \/ ~alive \/ BlockedInSend

\* Commented: the monitor is "useful for graceful shutdowns and to unblock the main
\* loop" (tracepoint.go:175-177): a daemon that does not panic stops.
\* It is refuted: it may be blocked in a send (tracepoint.go:199).
ShutdownIsGraceful == done ~> main = "returned" \/ ~alive

\* Commented, in the same place: closing the tracepoint on the cancellation of
\* the context is a graceful shutdown; it never makes the process panic.  It
\* is refuted: processRecord uses the context that close sets to nil.
NoPanic == alive

=============================================================================
