------------------------------ MODULE Session ------------------------------
(***************************************************************************)
(* One diagnosis session: runLoop and runTurn of diagnose/session.go, the  *)
(* provider goroutine behind ai.Provider.Stream, the two bounded event     *)
(* channels, the per-turn deadline, Cancel() and the consumer.             *)
(*                                                                         *)
(* A session asks the provider at most MaxToolTurns times.  Each turn      *)
(* forwards the provider's events to the consumer; a turn that ended with  *)
(* tool calls has them dispatched and their results appended to the        *)
(* conversation, and the provider is asked again.                          *)
(*                                                                         *)
(* An event is [kind, arg, turn]: arg is the call's ID, or the stop reason *)
(* of a done event, "none" for none; turn is the turn it came              *)
(* from and exists for the properties only.  Text is left out of the       *)
(* conversation: no step looks at it.                                      *)
(***************************************************************************)
EXTENDS Naturals, Sequences, SequencesExt

CONSTANTS
  MaxToolTurns,  \* the cap on the tool loop
  OutCap,        \* capacity of the session's event channel
  InnerCap,      \* capacity of the provider's event channel
  CallIds,       \* the IDs a model gives its tool calls
  MaxEvents      \* bound: deltas and calls of one response

ASSUME TurnsAssumption  == MaxToolTurns \in Nat \ {0}
ASSUME CapsAssumption   == OutCap \in Nat \ {0} /\ InnerCap \in Nat \ {0}
ASSUME EventsAssumption == MaxEvents \in Nat

VARIABLES
  dispatcher,  \* the session was started with tools
  loop,        \* where runLoop / runTurn is
  turn,        \* turns begun
  held,        \* the event runTurn is sending
  stopReason,  \* stop reason of this turn's done event
  pending,     \* tool calls of this turn
  results,     \* results of the calls dispatched so far
  messages,    \* the conversation
  turnErr,     \* turnCtx.Err(): "none", "deadline" or "cancelled"
  cancelled,   \* the session's ctx is cancelled
  provider,    \* where this turn's provider goroutine is
  produced,    \* deltas and calls it has sent
  inner,       \* its event channel
  emitted,     \* history: every event put on the session's channel
  taken        \* how many of them the consumer has received

loopVars     == <<loop, turn, held, stopReason, pending, results, messages>>
providerVars == <<provider, produced, inner>>
outVars      == <<emitted, taken>>
vars == <<dispatcher, loopVars, turnErr, cancelled, providerVars, outVars>>

Event(k, a)  == [kind |-> k, arg |-> a, turn |-> turn]
StopReasons  == {"none", "end_turn"}
Events       == [kind : {"delta", "call", "done", "error"}, arg : CallIds \union StopReasons,
                 turn : 0..MaxToolTurns]
Terminal     == {"done", "error"}
Results      == [call : CallIds, isError : BOOLEAN]
Messages     == [role : {"user"}, uses : {<<>>}, results : Seq(Results)]
                  \union [role : {"assistant"}, uses : Seq(CallIds), results : {<<>>}]

TypeOK ==
  /\ dispatcher \in BOOLEAN
  /\ loop \in {"open", "stream", "forward", "dispatch", "terminal", "close", "ended"}
  /\ turn \in 0..MaxToolTurns
  /\ held \in Events
  /\ stopReason \in StopReasons
  /\ pending \in Seq(CallIds)
  /\ results \in Seq(Results)
  /\ messages \in Seq(Messages)
  /\ turnErr \in {"none", "deadline", "cancelled"}
  /\ cancelled \in BOOLEAN
  /\ provider \in {"reads", "finished", "closed"}
  /\ produced \in 0..MaxEvents
  /\ inner \in Seq(Events)
  /\ Len(inner) <= InnerCap
  /\ emitted \in Seq(Events)
  /\ taken \in 0..Len(emitted)
  /\ Len(emitted) - taken <= OutCap

Init ==
  /\ dispatcher \in BOOLEAN
  /\ loop = "open"
  /\ turn = 0
  /\ held = Event("delta", "none")
  /\ stopReason = "none"
  /\ pending = <<>>
  /\ results = <<>>
  /\ messages = <<[role |-> "user", uses |-> <<>>, results |-> <<>>]>>
  /\ turnErr = "none"
  /\ cancelled = FALSE
  /\ provider = "closed"
  /\ produced = 0
  /\ inner = <<>>
  /\ emitted = <<>>
  /\ taken = 0

-----------------------------------------------------------------------------
(* What the actions share.                                                 *)

\* make(chan ai.Event, 8), as long as the consumer is behind.
OutHasRoomForOneMore == Len(emitted) - taken <= OutCap
OutHasRoom           == Len(emitted) - taken < OutCap
Emit(e)              == emitted' = Append(emitted, e)

\* runTurn declares pending, so every turn starts with none.
KeepsPending == UNCHANGED pending
NoPendingYet == pending' = <<>>

\* runTurn returns after it has forwarded an error event.
EndsTurn(e) == e.kind = "error"

\* The result of a dispatched call names the call it answers.
ResultForFirst(call, failed) == [call |-> pending[1], isError |-> failed]
ResultFor(call, failed)      == [call |-> call, isError |-> failed]

\* The ways out of runTurn: an error that runLoop sends as an ErrorEvent, or
\* (false, nil).
FailTurn    == loop' = "terminal" /\ held' = Event("error", "none")
ReturnClean == loop' = "close" /\ UNCHANGED held

\* The turn's stream is being read.  Afterwards nobody reads the provider's
\* channel again, and its goroutine touches nothing else.
InTurn == loop \in {"stream", "forward"}

-----------------------------------------------------------------------------
(* runLoop and runTurn.                                                    *)

\* The turns are used up: ErrMaxToolTurnsExceeded.
TooManyTurns ==
  /\ loop = "open"
  /\ turn = MaxToolTurns
  /\ loop' = "terminal"
  /\ held' = Event("error", "none")
  /\ UNCHANGED <<dispatcher, turn, stopReason, pending, results, messages, turnErr,
                 cancelled, providerVars, outVars>>

\* A new turn: turnCtx is derived from ctx, provider.Stream starts its
\* goroutine.
OpenStream ==
  /\ loop = "open"
  /\ turn < MaxToolTurns
  /\ loop' = "stream"
  /\ turn' = turn + 1
  /\ stopReason' = "none"
  /\ NoPendingYet
  /\ results' = <<>>
  /\ turnErr' = IF cancelled THEN "cancelled" ELSE "none"
  /\ provider' = "reads"
  /\ produced' = 0
  /\ inner' = <<>>
  /\ UNCHANGED <<dispatcher, held, messages, cancelled, outVars>>

\* provider.Stream returns an error.
OpenFails ==
  /\ loop = "open"
  /\ turn < MaxToolTurns
  /\ turn' = turn + 1
  /\ loop' = "terminal"
  /\ held' = Event("error", "none")
  /\ UNCHANGED <<dispatcher, stopReason, pending, results, messages, turnErr,
                 cancelled, providerVars, outVars>>

\* The select takes an event of the provider.  A call joins pending before
\* it is forwarded; a done event only leaves its stop reason.
TakeEvent ==
  /\ loop = "stream"
  /\ inner # <<>>
  /\ LET e == Head(inner)
     IN  IF e.kind = "done"
           THEN /\ stopReason' = e.arg
                /\ UNCHANGED <<loop, held, pending>>
           ELSE /\ loop' = "forward"
                /\ held' = e
                /\ pending' = IF e.kind = "call" THEN Append(pending, e.arg) ELSE pending
                /\ UNCHANGED stopReason
  /\ inner' = Tail(inner)
  /\ UNCHANGED <<dispatcher, turn, results, messages, turnErr, cancelled, provider,
                 produced, outVars>>

ReadsForRange == FALSE

\* The select takes turnCtx.Done().
TurnCtxDone ==
  /\ loop = "stream"
  /\ turnErr # "none"
  /\ IF turnErr = "deadline" THEN FailTurn ELSE ReturnClean
  /\ UNCHANGED <<dispatcher, turn, stopReason, pending, results, messages, turnErr,
                 cancelled, providerVars, outVars>>

\* forwardEvent sends.  After an error event runTurn returns (false, nil).
Forward ==
  /\ loop = "forward"
  /\ OutHasRoom
  /\ Emit(held)
  /\ loop' = IF EndsTurn(held) THEN "close" ELSE "stream"
  /\ UNCHANGED <<dispatcher, turn, held, stopReason, pending, results, messages, turnErr,
                 cancelled, providerVars, taken>>

\* forwardEvent gives up because turnCtx is done.  Only for a text delta does
\* runTurn look whether it was the deadline.
NeverLooksWhy == FALSE
LooksWhy      == held.kind = "delta"
ForwardGivesUp ==
  /\ loop = "forward"
  /\ turnErr # "none"
  /\ IF LooksWhy /\ turnErr = "deadline" THEN FailTurn ELSE ReturnClean
  /\ UNCHANGED <<dispatcher, turn, stopReason, pending, results, messages, turnErr,
                 cancelled, providerVars, outVars>>

\* The provider closed its channel: with no calls, or no dispatcher, that was
\* the answer.
StreamClosed ==
  /\ loop = "stream"
  /\ inner = <<>>
  /\ provider = "closed"
  /\ IF pending = <<>> \/ ~dispatcher
       THEN loop' = "terminal" /\ held' = Event("done", stopReason)
       ELSE loop' = "dispatch" /\ UNCHANGED held
  /\ UNCHANGED <<dispatcher, turn, stopReason, pending, results, messages, turnErr,
                 cancelled, providerVars, outVars>>

\* dispatcher.Dispatch returns for the next pending call; its error becomes
\* the result.
Dispatch ==
  /\ loop = "dispatch"
  /\ Len(results) < Len(pending)
  /\ \E failed \in BOOLEAN :
       results' = Append(results, ResultFor(pending[Len(results) + 1], failed))
  /\ UNCHANGED <<dispatcher, loop, turn, held, stopReason, pending, messages, turnErr,
                 cancelled, providerVars, outVars>>

\* All calls are answered: the assistant's and the user's message are
\* appended and runTurn returns (true, nil).
AppendTurn ==
  /\ loop = "dispatch"
  /\ Len(results) = Len(pending)
  /\ messages' = messages \o <<[role |-> "assistant", uses |-> pending, results |-> <<>>],
                               [role |-> "user", uses |-> <<>>, results |-> results]>>
  /\ loop' = "open"
  /\ UNCHANGED <<dispatcher, turn, held, stopReason, pending, results, turnErr,
                 cancelled, providerVars, outVars>>

\* sendSessionEvent: the terminal event is sent, ...
SendTerminal ==
  /\ loop = "terminal"
  /\ OutHasRoom
  /\ Emit(held)
  /\ loop' = "close"
  /\ UNCHANGED <<dispatcher, turn, held, stopReason, pending, results, messages, turnErr,
                 cancelled, providerVars, taken>>

TerminalIgnoresCtx == FALSE

\* ... or dropped because the session was cancelled.
DropTerminal ==
  /\ loop = "terminal"
  /\ cancelled
  /\ loop' = "close"
  /\ UNCHANGED <<dispatcher, turn, held, stopReason, pending, results, messages, turnErr,
                 cancelled, providerVars, outVars>>

\* runLoop's deferred close(out).
CloseOut ==
  /\ loop = "close"
  /\ loop' = "ended"
  /\ UNCHANGED <<dispatcher, turn, held, stopReason, pending, results, messages, turnErr,
                 cancelled, providerVars, outVars>>

-----------------------------------------------------------------------------
(* The provider goroutine of the current turn.  Its sendEvent also selects  *)
(* on turnCtx.                                                             *)

ProviderSends(e, next) ==
  /\ InTurn
  /\ Len(inner) < InnerCap
  /\ inner' = Append(inner, e)
  /\ provider' = next
  /\ UNCHANGED <<dispatcher, loopVars, turnErr, cancelled, outVars>>

\* Text, also after a tool call: OpenAI's goroutine sends a call as soon as its
\* last fragment is read, and the response may go on.
ProvideDelta ==
  /\ provider = "reads"
  /\ produced < MaxEvents
  /\ produced' = produced + 1
  /\ ProviderSends(Event("delta", "none"), "reads")

\* A tool call: Anthropic's come last, from the assembled response.
ProvideCall ==
  /\ provider = "reads"
  /\ produced < MaxEvents
  /\ produced' = produced + 1
  /\ \E id \in CallIds : ProviderSends(Event("call", id), "reads")

ProvideDone ==
  /\ provider = "reads"
  /\ ProviderSends(Event("done", "end_turn"), "finished")
  /\ UNCHANGED produced

\* The response breaks off: before, between or after tool calls that were sent.
ProvideError ==
  /\ provider = "reads"
  /\ ProviderSends(Event("error", "none"), "finished")
  /\ UNCHANGED produced

\* The deferred close(out), after a done or error event.
ProviderCloses ==
  /\ InTurn
  /\ provider = "finished"
  /\ provider' = "closed"
  /\ UNCHANGED <<dispatcher, loopVars, turnErr, cancelled, produced, inner, outVars>>

\* turnCtx is done: the goroutine returns without an event.
ProviderQuits ==
  /\ InTurn
  /\ provider = "reads"
  /\ turnErr # "none"
  /\ provider' = "closed"
  /\ UNCHANGED <<dispatcher, loopVars, turnErr, cancelled, produced, inner, outVars>>

-----------------------------------------------------------------------------
(* The clock, the user and the consumer.                                   *)

NoTurnTimeout == FALSE

\* TurnTimeout passes while the turn's stream is being read.
DeadlinePasses ==
  /\ InTurn
  /\ turnErr = "none"
  /\ turnErr' = "deadline"
  /\ UNCHANGED <<dispatcher, loopVars, cancelled, providerVars, outVars>>

\* Session.Cancel, or the parent ctx; turnCtx inherits it.
Cancel ==
  /\ ~cancelled
  /\ cancelled' = TRUE
  /\ turnErr' = IF turnErr = "none" THEN "cancelled" ELSE turnErr
  /\ UNCHANGED <<dispatcher, loopVars, providerVars, outVars>>

\* The waitForDiagnoseEvent pump receives an event.
Receive ==
  /\ taken < Len(emitted)
  /\ taken' = taken + 1
  /\ UNCHANGED <<dispatcher, loopVars, turnErr, cancelled, providerVars, emitted>>

-----------------------------------------------------------------------------
Loop == TooManyTurns \/ OpenStream \/ OpenFails \/ TakeEvent \/ TurnCtxDone \/ Forward
          \/ ForwardGivesUp \/ StreamClosed \/ Dispatch \/ AppendTurn \/ SendTerminal
          \/ DropTerminal \/ CloseOut
Provider == ProvideDelta \/ ProvideCall \/ ProvideDone \/ ProvideError \/ ProviderCloses
              \/ ProviderQuits

Next == Loop \/ Provider \/ DeadlinePasses \/ Cancel \/ Receive

Spec == Init /\ [][Next]_vars

(* The session's goroutine runs whenever it can, Kubernetes calls return   *)
(* and the turn's timer expires.  Nothing is assumed of the provider, which *)
(* may stall for ever, nor of the consumer.                                *)
SessionSpec == Spec /\ WF_vars(Loop) /\ WF_vars(DeadlinePasses)

-----------------------------------------------------------------------------
(* Safety.                                                                 *)

\* A terminal event is sent at most once and nothing follows it, although
\* runTurn (three places), runLoop (two places) and the provider can each
\* end the session: "final completion as a single DoneEvent".
OneTerminal ==
  \A i \in DOMAIN emitted : emitted[i].kind \in Terminal => i = Len(emitted)

\* The conversation every request carries alternates between user and
\* assistant, and each assistant message with tool uses is followed by a user
\* message that answers exactly these calls, in order.  Providers reject
\* anything else.
ConversationWellFormed ==
  \A i \in DOMAIN messages :
    /\ messages[i].role = IF i % 2 = 1 THEN "user" ELSE "assistant"
    /\ messages[i].role = "assistant" =>
         /\ messages[i].uses # <<>>
         /\ i + 1 \in DOMAIN messages
         /\ Len(messages[i + 1].results) = Len(messages[i].uses)
         /\ \A k \in DOMAIN messages[i].uses :
              messages[i + 1].results[k].call = messages[i].uses[k]

\* The calls the conversation records for a turn are the calls the consumer
\* was shown in that turn: a call that could not be forwarded ends the
\* session instead of being dispatched unseen.
CallsShown(t) ==
  FlattenSeq([i \in DOMAIN emitted |->
                IF emitted[i].kind = "call" /\ emitted[i].turn = t THEN <<emitted[i].arg>>
                ELSE <<>>])
CallsSurfaced ==
  \A t \in 1..((Len(messages) - 1) \div 2) : messages[2 * t].uses = CallsShown(t)

\* A session closes without a terminal event only if it was cancelled, or if
\* its turn ran into the deadline while a call or the provider's error waited
\* for room: the two returns of runTurn that do not ask turnCtx why it is done
\* (session.go 261, 268).
ClosesForCause ==
  /\ loop \in {"close", "ended"}
  /\ emitted = <<>> \/ emitted[Len(emitted)].kind \notin Terminal
  => cancelled \/ (turnErr = "deadline" /\ held.kind \in {"call", "error"})

\* Towards its consumer a session keeps the contract its provider keeps towards
\* it, over all its turns: events, then one done or error event, then close; an
\* early close only once it was cancelled, or gave up because of the deadline.
\* That stream begins with the first request.  OneTerminal and ClosesForCause
\* are what it takes: nothing but a close may follow the last event, and a
\* close without one has its cause.
Ended   == emitted # <<>> /\ emitted[Len(emitted)].kind \in Terminal
GivenUp == /\ loop \in {"close", "ended"} /\ ~Ended
           /\ turnErr = "deadline" /\ held.kind \in {"call", "error"}
Surfaced == INSTANCE AnswerStream WITH
  state     <- IF loop = "open" /\ turn = 0 THEN "none"
               ELSE IF loop = "ended" THEN "closed" ELSE IF Ended THEN "over" ELSE "open",
  delivered <- Len(emitted),
  ctxDone   <- cancelled \/ GivenUp
ImplementsAnswerStream == Surfaced!ASpec

-----------------------------------------------------------------------------
(* Liveness.                                                               *)

\* TurnTimeout bounds a turn whatever the provider and the consumer do: a
\* stalled stream or a full event channel does not hold runTurn for ever.
TurnEnds == InTurn ~> ~InTurn

\* Cancel() ends the session even if the consumer has stopped reading.
CancelEnds == cancelled ~> (loop = "ended")

\* A session whose consumer keeps reading ends, with a provider that stalls
\* and a model that never stops calling tools.
SessionEnds == WF_vars(Receive) => <>(loop = "ended")

-----------------------------------------------------------------------------
(* What the comments of diagnose/session.go say.                           *)

\* session.go:151-152, "Closes when the conversation is over (DoneEvent or
\* ErrorEvent emitted then close)": as long as nobody cancels.
EndsWithTerminal ==
  loop = "ended" /\ ~cancelled =>
    emitted # <<>> /\ emitted[Len(emitted)].kind \in Terminal
=============================================================================
