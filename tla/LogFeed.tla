------------------------------ MODULE LogFeed ------------------------------
(***************************************************************************)
(* What a log stream promises to the view that appends its batches, with   *)
(* no buffer, timer or goroutine in it: the upstream produces lines 1, 2,  *)
(* ... ; the view is handed each of them at most once, in batches whose    *)
(* order is not promised; and a line is given up only once the stream is   *)
(* over (closed by its reader, or cancelled).                              *)
(***************************************************************************)
EXTENDS Naturals, Sequences, Functions

CONSTANT Lines      \* bound: lines the upstream can produce

VARIABLES
  received,   \* how many lines the upstream has produced
  delivered,  \* the lines the view was handed, in that order
  lost,       \* the lines given up
  over        \* the stream is closed or cancelled

vars == <<received, delivered, lost, over>>

Init ==
  /\ received = 0
  /\ delivered = <<>>
  /\ lost = {}
  /\ over = FALSE

Receive ==
  /\ received < Lines
  /\ received' = received + 1
  /\ UNCHANGED <<delivered, lost, over>>

\* The view appends a batch of outstanding lines.
Deliver ==
  /\ Len(delivered') > Len(delivered)
  /\ SubSeq(delivered', 1, Len(delivered)) = delivered
  /\ IsInjective(delivered')
  /\ Range(delivered') \subseteq (1..received) \ lost
  /\ UNCHANGED <<received, lost, over>>

\* Outstanding lines, or one that is just being read, are given up.
GiveUp ==
  /\ over
  /\ received' \in received..Lines
  /\ lost \subseteq lost'
  /\ lost' \subseteq (1..received') \ Range(delivered)
  /\ UNCHANGED <<delivered, over>>

End ==
  /\ over' = TRUE
  /\ UNCHANGED <<received, delivered, lost>>

Next == Receive \/ Deliver \/ GiveUp \/ End

Spec == Init /\ [][Next]_vars
=============================================================================
