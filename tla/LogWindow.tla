----------------------------- MODULE LogWindow -----------------------------
(***************************************************************************)
(* The debounce timer of kube/logs.go in time.  LogStreamer interleaves    *)
(* the goroutines of a log of a few lines; here the log never ends, and    *)
(* what counts is when its lines come.  A tick is the least time told      *)
(* apart, Window of them are LogBatchWindow.  A timer that is due runs     *)
(* timerFire before the next tick, undivided: the interleavings of its two *)
(* critical sections, the empty buffer one may find, and the end of the    *)
(* log are LogStreamer's.                                                  *)
(***************************************************************************)
EXTENDS Naturals

CONSTANTS
  Window,  \* LogBatchWindow in ticks, one at least
  Cap      \* LogStreamerSnapshotCap, one at least

VARIABLES
  buffered,  \* the buffer holds lines
  debounce,  \* 0..Window ticks until the timer expires, or Stopped
  batches,   \* how many batches the channel holds, 0..Cap
  returned   \* history: a full channel sent the buffer back and no line came since

vars == <<buffered, debounce, batches, returned>>

\* Not created yet, or expired and not reset.
Stopped == Window + 1

Init ==
  /\ buffered = FALSE
  /\ debounce = Stopped
  /\ batches = 0
  /\ returned = FALSE

\* append() creates the timer or resets it: either way a window from now.
AppendLine ==
  /\ buffered' = TRUE
  /\ debounce' = Window
  /\ returned' = FALSE
  /\ UNCHANGED batches

\* timerFire() sends the buffer.
FireSend ==
  /\ debounce = 0 /\ buffered /\ batches < Cap
  /\ debounce' = Stopped
  /\ buffered' = FALSE
  /\ batches' = batches + 1
  /\ UNCHANGED returned

\* timerFire() finds the channel full: the lines go back into the buffer, "for
\* the next tick", and no timer is armed.
FireFull ==
  /\ debounce = 0 /\ buffered /\ batches = Cap
  /\ debounce' = Stopped
  /\ returned' = TRUE
  /\ UNCHANGED <<buffered, batches>>

\* waitForLogs takes a batch.
ReceiveBatch ==
  /\ batches > 0
  /\ batches' = batches - 1
  /\ UNCHANGED <<buffered, debounce, returned>>

\* Time passes, but not beyond a timer that is due.
Tick ==
  /\ debounce # 0
  /\ debounce' = IF debounce = Stopped THEN Stopped ELSE debounce - 1
  /\ UNCHANGED <<buffered, batches, returned>>

Fire == FireSend \/ FireFull
Next == AppendLine \/ Fire \/ ReceiveBatch \/ Tick

Spec == Init /\ [][Next]_vars

\* Time passes, a timer that is due runs, the consumer keeps reading.  Nothing
\* is asked of the log.
FairSpec == Spec /\ WF_vars(Tick) /\ WF_vars(Fire) /\ WF_vars(ReceiveBatch)

-----------------------------------------------------------------------------
(* What the comments of kube/logs.go say.                                  *)

\* logs.go:18-19, "Bursts (10k lines/sec is the design target) flatten into
\* ~10 snapshots/sec": whatever comes, and with room in the channel, the lines
\* in the buffer are sent.
BurstsAreSent == []~returned => (buffered ~> ~buffered)

\* logs.go:24-25, "When the cap is reached, new batches are re-buffered and
\* retried on the next tick": there is a tick to come.
RetriedOnNextTick == returned => debounce # Stopped
=============================================================================
