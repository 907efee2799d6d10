---------------------------- MODULE LogStreamer ----------------------------
(***************************************************************************)
(* The log streamer of kube/logs.go together with its only consumer, the   *)
(* waitForLogs pump of tui/app.go.                                         *)
(*                                                                         *)
(* Four kinds of thread meet on one stream:                                *)
(*   - the reader goroutine (run): scans lines, appends them to a buffer,  *)
(*     and on the way out flushes the buffer and closes the stream;        *)
(*   - the timerFire goroutines, one per expiry of the debounce timer.     *)
(*     The mutex is released between taking the buffer and sending it, so  *)
(*     several of them can be in flight at once;                           *)
(*   - the consumer, which selects on the batches and on done;             *)
(*   - whoever cancels the stream's context (LogService).                  *)
(*                                                                         *)
(* A line is its number in the upstream log.  shown and dropped are        *)
(* history variables: the lines the consumer was given, in the order it    *)
(* was given them, and the lines some step of the code threw away.         *)
(***************************************************************************)
EXTENDS Naturals, Sequences, FiniteSets, Functions

CONSTANTS
  Lines,   \* bound: the upstream log holds lines 1..Lines
  Cap,     \* LogStreamerSnapshotCap, the capacity of the batch channel
  Fires    \* bound: the timerFire goroutines that can be in flight at once

ASSUME LinesAssumption == Lines \in Nat
ASSUME CapAssumption   == Cap \in Nat \ {0}

VARIABLES
  next,       \* number of the next line the scanner returns
  reader,     \* where run() is
  tail,       \* run's local snapshot while flush sends it
  cancelled,  \* ctx.Err() # nil
  buffer,     \* lines appended and not yet taken
  debounce,   \* "nil", "armed" (pending) or "fired" (expired, not reset)
  closed,     \* the flag under the mutex
  errCh,      \* whether the error channel holds the scanner's error
  fire,       \* where each timerFire goroutine is
  snap,       \* the snapshot each timerFire goroutine holds
  snapshots,  \* the batch channel
  done,       \* the done channel is closed
  consumer,   \* the waitForLogs pump
  shown,      \* history: lines handed to the view
  dropped     \* history: lines discarded

readerVars   == <<next, reader, tail, errCh, done>>
lockVars     == <<buffer, debounce, closed>>
fireVars     == <<fire, snap>>
consumerVars == <<consumer, shown>>
vars == <<readerVars, cancelled, lockVars, fireVars, snapshots, consumerVars, dropped>>

ReadLines == 1..(next - 1)

TypeOK ==
  /\ next \in 1..(Lines + 1)
  /\ reader \in {"scan", "flush", "send", "close", "closing", "ended"}
  /\ tail \in Seq(ReadLines)
  /\ cancelled \in BOOLEAN
  /\ buffer \in Seq(ReadLines)
  /\ debounce \in {"nil", "armed", "fired"}
  /\ closed \in BOOLEAN
  /\ errCh \in BOOLEAN
  /\ fire \in [Fires -> {"free", "due", "sending", "full"}]
  /\ snap \in [Fires -> Seq(ReadLines)]
  /\ snapshots \in Seq(Seq(ReadLines))
  /\ Len(snapshots) <= Cap
  /\ done \in BOOLEAN
  /\ consumer \in {"waiting", "handling", "gone"}
  /\ shown \in Seq(ReadLines)
  /\ dropped \in SUBSET ReadLines

Init ==
  /\ next = 1
  /\ reader = "scan"
  /\ tail = <<>>
  /\ cancelled = FALSE
  /\ buffer = <<>>
  /\ debounce = "nil"
  /\ closed = FALSE
  /\ errCh = FALSE
  /\ fire = [f \in Fires |-> "free"]
  /\ snap = [f \in Fires |-> <<>>]
  /\ snapshots = <<>>
  /\ done = FALSE
  /\ consumer = "waiting"
  /\ shown = <<>>
  /\ dropped = {}

-----------------------------------------------------------------------------
(* What the actions below share.  Next to a helper or an action, the form a *)
(* plausible slip in the code would give it.                               *)

\* Room in the batch channel, make(chan []string, LogStreamerSnapshotCap).
HasRoomForOneMore == Len(snapshots) <= Cap
HasRoom           == Len(snapshots) < Cap

\* Taking the buffer leaves nil behind.
TakeBufferForgetsNil == buffer' = buffer
TakeBuffer           == buffer' = <<>>

\* append() creates the timer on the first line, Reset()s it on the others.
TimerWithoutReset == IF debounce = "nil" THEN "armed" ELSE debounce
TimerAfterAppend  == "armed"

\* What timerFire puts back: its snapshot, then what was appended meanwhile.
RebufferOverwrites(f) == snap[f]
Rebuffered(f)         == snap[f] \o buffer

\* timerFire looks at closed again before it puts its snapshot back.
NeverRebuffers  == FALSE
AlwaysRebuffers == TRUE
MayRebuffer     == ~closed

-----------------------------------------------------------------------------
(* The reader goroutine.                                                   *)

\* scanner.Scan() returned a line, ctx was live, append() took the mutex:
\* the timer is created on the first line and pushed back on every other.
AppendLine ==
  /\ reader = "scan"
  /\ next <= Lines
  /\ ~cancelled
  /\ next' = next + 1
  /\ IF closed
       THEN UNCHANGED lockVars
       ELSE /\ buffer' = Append(buffer, next)
            /\ debounce' = TimerAfterAppend
            /\ UNCHANGED closed
  /\ UNCHANGED <<reader, tail, errCh, done, cancelled, fireVars, snapshots, consumerVars, dropped>>

\* scanner.Scan() returned a line but ctx is cancelled: run() returns.
AbandonLine ==
  /\ reader = "scan"
  /\ next <= Lines
  /\ cancelled
  /\ next' = next + 1
  /\ reader' = "flush"
  /\ dropped' = dropped \union {next}
  /\ UNCHANGED <<tail, errCh, done, cancelled, lockVars, fireVars, snapshots, consumerVars>>

\* scanner.Scan() returned false: EOF, a read error, or the read that the
\* cancelled context interrupted.  The error is kept only if ctx is live.
EndScan ==
  /\ reader = "scan"
  /\ reader' = "flush"
  /\ errCh' \in {errCh} \union (IF cancelled THEN {} ELSE {TRUE})
  /\ UNCHANGED <<next, tail, done, cancelled, lockVars, fireVars, snapshots, consumerVars, dropped>>

\* flush(): take the buffer and stop the timer under the mutex.  A
\* timerFire whose timer has already expired is not stopped by this.
Flush ==
  /\ reader = "flush"
  /\ tail' = buffer
  /\ TakeBuffer
  /\ debounce' = "nil"
  /\ reader' = IF buffer = <<>> THEN "close" ELSE "send"
  /\ UNCHANGED <<next, errCh, done, cancelled, closed, fireVars, snapshots, consumerVars, dropped>>

\* flush(): the blocking send, first case of its select.
FlushSend ==
  /\ reader = "send"
  /\ HasRoom
  /\ snapshots' = Append(snapshots, tail)
  /\ tail' = <<>>
  /\ reader' = "close"
  /\ UNCHANGED <<next, errCh, done, cancelled, lockVars, fireVars, consumerVars, dropped>>

\* flush(): the ctx.Done() case of its select.
FlushIgnoresCtx == FALSE

FlushAbandon ==
  /\ reader = "send"
  /\ cancelled
  /\ dropped' = dropped \union Range(tail)
  /\ tail' = <<>>
  /\ reader' = "close"
  /\ UNCHANGED <<next, errCh, done, cancelled, lockVars, fireVars, snapshots, consumerVars>>

\* run()'s deferred function: closed = true under the mutex.
Close ==
  /\ reader = "close"
  /\ closed' = TRUE
  /\ debounce' = "nil"
  /\ reader' = "closing"
  /\ UNCHANGED <<next, tail, errCh, done, cancelled, buffer, fireVars, snapshots, consumerVars, dropped>>

\* run()'s deferred function: close(done), close(errCh).
CloseDone ==
  /\ reader = "closing"
  /\ done' = TRUE
  /\ reader' = "ended"
  /\ UNCHANGED <<next, tail, errCh, cancelled, lockVars, fireVars, snapshots, consumerVars, dropped>>

-----------------------------------------------------------------------------
(* The debounce timer and its goroutines.                                  *)

\* The timer expires: time.AfterFunc starts timerFire in a new goroutine.
TimerExpires(f) ==
  /\ debounce = "armed"
  /\ fire[f] = "free"
  /\ debounce' = "fired"
  /\ fire' = [fire EXCEPT ![f] = "due"]
  /\ UNCHANGED <<readerVars, cancelled, buffer, closed, snap, snapshots, consumerVars, dropped>>

\* timerFire() takes the buffer under the mutex, unless there is nothing to
\* send or the stream is closed.
FireTake(f) ==
  /\ fire[f] = "due"
  /\ IF closed \/ buffer = <<>>
       THEN /\ fire' = [fire EXCEPT ![f] = "free"]
            /\ UNCHANGED <<snap, buffer>>
       ELSE /\ fire' = [fire EXCEPT ![f] = "sending"]
            /\ snap' = [snap EXCEPT ![f] = buffer]
            /\ TakeBuffer
  /\ UNCHANGED <<readerVars, cancelled, debounce, closed, snapshots, consumerVars, dropped>>

\* The non-blocking send succeeds.
FireSend(f) ==
  /\ fire[f] = "sending"
  /\ HasRoom
  /\ snapshots' = Append(snapshots, snap[f])
  /\ snap' = [snap EXCEPT ![f] = <<>>]
  /\ fire' = [fire EXCEPT ![f] = "free"]
  /\ UNCHANGED <<readerVars, cancelled, lockVars, consumerVars, dropped>>

\* The non-blocking send finds the channel full and takes the default case.
FireFull(f) ==
  /\ fire[f] = "sending"
  /\ ~HasRoom
  /\ fire' = [fire EXCEPT ![f] = "full"]
  /\ UNCHANGED <<readerVars, cancelled, lockVars, snap, snapshots, consumerVars, dropped>>

\* The default case, under the mutex again: put the snapshot back in front
\* of what was appended meanwhile, unless the stream was closed.  The timer
\* is not armed.
FireRebuffer(f) ==
  /\ fire[f] = "full"
  /\ fire' = [fire EXCEPT ![f] = "free"]
  /\ snap' = [snap EXCEPT ![f] = <<>>]
  /\ IF MayRebuffer
       THEN /\ buffer' = Rebuffered(f)
            /\ UNCHANGED dropped
       ELSE /\ dropped' = dropped \union Range(snap[f])
            /\ UNCHANGED buffer
  /\ UNCHANGED <<readerVars, cancelled, debounce, closed, snapshots, consumerVars>>

-----------------------------------------------------------------------------
(* The consumer and the canceller.                                         *)

\* waitForLogs selects a batch; LogsBatchMsg carries it to the view.
ReceiveBatch ==
  /\ consumer = "waiting"
  /\ snapshots # <<>>
  /\ shown' = shown \o Head(snapshots)
  /\ snapshots' = Tail(snapshots)
  /\ consumer' = "handling"
  /\ UNCHANGED <<readerVars, cancelled, lockVars, fireVars, dropped>>

\* Update handles LogsBatchMsg and starts waitForLogs again.  Whoever
\* cancelled the stream has replaced m.logsCh: this stream gets no pump.
Rearm ==
  /\ consumer = "handling"
  /\ consumer' = IF cancelled THEN "gone" ELSE "waiting"
  /\ UNCHANGED <<readerVars, cancelled, lockVars, fireVars, snapshots, shown, dropped>>

NothingSelectsDone == FALSE

\* waitForLogs selects done, even if batches are waiting: LogsEndMsg.
ReceiveDone ==
  /\ consumer = "waiting"
  /\ done
  /\ consumer' = "gone"
  /\ UNCHANGED <<readerVars, cancelled, lockVars, fireVars, snapshots, shown, dropped>>

\* LogService.Stop, or LogService.Stream for another pod, cancels ctx.
Cancel ==
  /\ ~cancelled
  /\ cancelled' = TRUE
  /\ UNCHANGED <<readerVars, lockVars, fireVars, snapshots, consumerVars, dropped>>

-----------------------------------------------------------------------------
Reader   == AppendLine \/ AbandonLine \/ EndScan \/ Flush \/ FlushSend
              \/ FlushAbandon \/ Close \/ CloseDone
FireRuns(f) == FireTake(f) \/ FireSend(f) \/ FireFull(f) \/ FireRebuffer(f)
Fire(f)  == TimerExpires(f) \/ FireRuns(f)
Consumer == ReceiveBatch \/ Rearm \/ ReceiveDone

Next == Reader \/ (\E f \in Fires : Fire(f)) \/ Consumer \/ Cancel

Spec == Init /\ [][Next]_vars

(* What the Go scheduler and the runtime timers guarantee without the      *)
(* upstream or the user doing anything: a runnable goroutine runs, and a    *)
(* read on a cancelled request returns.  An armed timer expires unless      *)
(* lines keep coming, each of which puts it off: LogWindow has that case.   *)
StreamerFairness ==
  /\ WF_vars(AbandonLine \/ (cancelled /\ EndScan))
  /\ WF_vars(Flush)
  /\ WF_vars(FlushSend \/ FlushAbandon)
  /\ WF_vars(Close)
  /\ WF_vars(CloseDone)
  /\ \A f \in Fires : WF_vars(FireRuns(f))
  /\ []<><<AppendLine>>_vars \/ WF_vars(\E f \in Fires : TimerExpires(f))

StreamerSpec == Spec /\ StreamerFairness

(* The Bubble Tea loop keeps handling messages while the program runs.     *)
ConsumerFairness == WF_vars(Consumer)

-----------------------------------------------------------------------------
(* Safety.                                                                 *)

\* The places a line can be in: three single sequences, one snapshot per
\* timerFire goroutine and the batches of the channel.
Singles == [p \in {"buffer", "tail", "shown"} |->
               CASE p = "buffer" -> buffer [] p = "tail" -> tail [] p = "shown" -> shown]

HeldIn(F, l)  == \E x \in DOMAIN F : l \in Range(F[x])
Apart(s, t)   == Range(s) \cap Range(t) = {}
DistinctIn(F) == /\ \A x \in DOMAIN F : IsInjective(F[x])
                 /\ \A x, y \in DOMAIN F : x # y => Apart(F[x], F[y])
ApartFrom(F, G) == \A x \in DOMAIN F, y \in DOMAIN G : Apart(F[x], G[y])

\* No line is in two places, or twice in one: releasing the mutex between
\* taking a snapshot and sending or re-buffering it duplicates nothing, in
\* any interleaving of reader, timers, flush and consumer.
NoLineTwice ==
  /\ DistinctIn(Singles) /\ DistinctIn(snap) /\ DistinctIn(snapshots)
  /\ ApartFrom(Singles, snap) /\ ApartFrom(Singles, snapshots) /\ ApartFrom(snap, snapshots)
  /\ \A l \in dropped : ~HeldIn(Singles, l) /\ ~HeldIn(snap, l) /\ ~HeldIn(snapshots, l)

\* Every line read is still somewhere, shown, or was discarded by one of the
\* three steps that discard lines: none is forgotten between two steps.
NoLineForgotten ==
  \A l \in ReadLines : l \in dropped \/ HeldIn(Singles, l) \/ HeldIn(snap, l) \/ HeldIn(snapshots, l)

\* Once closed, the buffer is never touched again: append, timerFire and its
\* re-buffering all look at the flag after taking the mutex.
ClosedBufferFrozen == [][closed => UNCHANGED buffer]_vars

-----------------------------------------------------------------------------
(* Liveness.                                                               *)

\* A cancelled stream closes done even if nobody reads its batches any more,
\* so the goroutine and the API connection do not leak.
CancelClosesDone == cancelled ~> done

\* Once the upstream has ended, a consumer that keeps reading is told so.
EndReachesConsumer == ConsumerFairness => ((reader # "scan") ~> (consumer = "gone"))

\* A log that goes quiet is shown to its last line while it is open: an append
\* that finds an expired timer restarts it, a timer that fires on a buffer
\* another one took strands nothing, and what a full channel sent back goes out
\* with the next line.  Only of a send that finds the channel full after the
\* last line nothing is promised, and of a log that does not go quiet: LogWindow
\* has both.
Full          == \E f \in Fires : fire[f] = "full"
NeverFull     == []~Full
LineAfterFull == WF_vars(AppendLine) /\ [](Full => next <= Lines)
LinesReachView ==
  ConsumerFairness /\ (NeverFull \/ LineAfterFull) =>
    \A l \in 1..Lines : (l \in ReadLines) ~> (l \in Range(shown) \/ reader # "scan")

-----------------------------------------------------------------------------
(* The abstract feed this streamer implements.                             *)

Feed == INSTANCE LogFeed WITH received <- next - 1, delivered <- shown,
                              lost <- dropped, over <- closed \/ cancelled

\* What the view relies on: batches only add lines, no line comes twice or
\* after it was given up, and none is given up while the stream is open.
ImplementsLogFeed == Feed!Spec

-----------------------------------------------------------------------------
(* What the comments of kube/logs.go say.                                  *)

\* logs.go:26, "no log lines are dropped": as long as nobody cancels.
NoLineDropped == ~cancelled => dropped = {}
=============================================================================
