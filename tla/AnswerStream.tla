---------------------------- MODULE AnswerStream ----------------------------
(***************************************************************************)
(* What ai.Provider promises of the channel Stream returns (ai/provider.go *)
(* 16-24, 101-113): deltas and calls, then one done or error event, then   *)
(* the channel is closed; without that event only once ctx is done.        *)
(***************************************************************************)
EXTENDS Naturals

VARIABLES
  state,      \* "none" before Stream, "open", "over" after the last event, "closed"
  delivered,  \* events put on the channel
  ctxDone     \* ctx is cancelled or its deadline has passed

avars == <<state, delivered, ctxDone>>

AInit == state = "none" /\ delivered = 0 /\ ctxDone = FALSE

\* Stream is called, for the first time or again, with a ctx of that turn.
Stream  == state \in {"none", "closed"} /\ state' = "open" /\ delivered' = 0 /\ ctxDone' \in BOOLEAN

Deliver == state = "open" /\ delivered' = delivered + 1 /\ UNCHANGED <<state, ctxDone>>

Finish  == state = "open" /\ state' = "over" /\ delivered' = delivered + 1 /\ UNCHANGED ctxDone

Close   == (state = "over" \/ (state = "open" /\ ctxDone))
             /\ state' = "closed" /\ UNCHANGED <<delivered, ctxDone>>

CtxDone == ~ctxDone /\ ctxDone' = TRUE /\ UNCHANGED <<state, delivered>>

ANext == Stream \/ Deliver \/ Finish \/ Close \/ CtxDone

ASpec == AInit /\ [][ANext]_avars
=============================================================================
