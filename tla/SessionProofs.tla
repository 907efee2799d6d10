---------------------------- MODULE SessionProofs ----------------------------
(***************************************************************************)
(* Theorems about a diagnosis session, for every cap on turns, capacity of *)
(* its channels and set of call IDs: its types, at most one terminal       *)
(* event, an end without one only for a cause, a conversation every        *)
(* request of which is well-formed, and no call in it unseen.              *)
(***************************************************************************)
EXTENDS Session, SeqLemmas

-----------------------------------------------------------------------------
(* Type correctness.                                                       *)

\* TypeOK is not inductive: runTurn stores the argument of a done event as a
\* stop reason and that of a call among the pending calls, so what the
\* provider's channel holds must match its kind.
InnerArgs ==
  \A i \in DOMAIN inner : /\ inner[i].kind = "done" => inner[i].arg \in StopReasons
                          /\ inner[i].kind = "call" => inner[i].arg \in CallIds
TypeInv == TypeOK /\ InnerArgs

\* Appending an event to the provider's channel keeps what is said of it.
LEMMA AppendEvent ==
  ASSUME NEW s \in Seq(Events), NEW e \in Events
  PROVE  /\ Append(s, e) \in Seq(Events)
         /\ Len(Append(s, e)) = Len(s) + 1
         /\ Append(s, e)[Len(s) + 1] = e
         /\ \A i \in DOMAIN Append(s, e) : Append(s, e)[i] = IF i \in DOMAIN s THEN s[i] ELSE e
OBVIOUS

\* What is left of a channel after a receive was in it before.
LEMMA TailOfEvents ==
  ASSUME NEW s \in Seq(Events), s # <<>>
  PROVE  /\ Head(s) \in Events
         /\ Head(s) = s[1]
         /\ 1 \in DOMAIN s
         /\ Tail(s) \in Seq(Events)
         /\ Len(Tail(s)) = Len(s) - 1
         /\ \A i \in DOMAIN Tail(s) : i + 1 \in DOMAIN s /\ Tail(s)[i] = s[i + 1]
OBVIOUS

\* An event of this turn is an event.
LEMMA EventIsEvent ==
  ASSUME turn \in 0..MaxToolTurns,
         NEW k \in {"delta", "call", "done", "error"}, NEW a \in CallIds \union StopReasons
  PROVE  Event(k, a) \in Events /\ Event(k, a).kind = k /\ Event(k, a).arg = a
BY DEF Event, Events

\* The conversation starts with one message.
LEMMA FirstMessage == <<[role |-> "user", uses |-> <<>>, results |-> <<>>]>> \in Seq(Messages)
<1>1. [role |-> "user", uses |-> <<>>, results |-> <<>>] \in Messages
  BY DEF Messages
<1> QED
  BY <1>1

\* The session that diagnose.Start builds has the types.
LEMMA TypeInit == Init => TypeInv
<1> SUFFICES ASSUME Init PROVE TypeInv
  OBVIOUS
<1>1. turn \in 0..MaxToolTurns
  BY TurnsAssumption DEF Init
<1>2. held \in Events
  BY <1>1, EventIsEvent DEF Init, StopReasons
<1>3. messages \in Seq(Messages)
  BY FirstMessage DEF Init
<1>4. /\ inner \in Seq(Events) /\ Len(inner) <= InnerCap /\ InnerArgs
      /\ emitted \in Seq(Events) /\ taken \in 0..Len(emitted) /\ Len(emitted) - taken <= OutCap
  BY CapsAssumption DEF Init, InnerArgs
<1>5. /\ stopReason \in StopReasons /\ pending \in Seq(CallIds) /\ results \in Seq(Results)
      /\ produced \in 0..MaxEvents
  BY EventsAssumption DEF Init, StopReasons
<1>6. /\ dispatcher \in BOOLEAN /\ loop = "open" /\ turnErr = "none" /\ cancelled \in BOOLEAN
      /\ provider = "closed"
  BY DEF Init
<1> QED
  BY <1>1, <1>2, <1>3, <1>4, <1>5, <1>6 DEF TypeInv, TypeOK

\* Every step of runLoop, runTurn, the provider and the consumer keeps them.
LEMMA TypeStep == TypeInv /\ [Next]_vars => TypeInv'
<1> SUFFICES ASSUME TypeInv, [Next]_vars PROVE TypeInv'
  OBVIOUS
<1> USE DEF TypeInv, TypeOK
<1> USE TurnsAssumption, CapsAssumption, EventsAssumption
<1>1. CASE TooManyTurns
  <2>1. held' \in Events
    BY <1>1, EventIsEvent DEF TooManyTurns, StopReasons
  <2> QED
    BY <1>1, <2>1 DEF TooManyTurns, InnerArgs, providerVars, outVars
<1>2. CASE OpenStream
  BY <1>2 DEF OpenStream, NoPendingYet, InnerArgs, StopReasons, outVars
<1>3. CASE OpenFails
  <2>1. held' \in Events
    BY <1>3, EventIsEvent DEF OpenFails, StopReasons
  <2> QED
    BY <1>3, <2>1 DEF OpenFails, InnerArgs, providerVars, outVars
<1>4. CASE TakeEvent
  <2>1. /\ inner \in Seq(Events) /\ inner # <<>> /\ inner' = Tail(inner)
    BY <1>4 DEF TakeEvent
  <2>2. /\ inner' \in Seq(Events) /\ Len(inner') <= InnerCap /\ InnerArgs'
    BY <2>1, TailOfEvents DEF InnerArgs
  <2>3. /\ Head(inner) \in Events
        /\ Head(inner).kind = "done" => Head(inner).arg \in StopReasons
        /\ Head(inner).kind = "call" => Head(inner).arg \in CallIds
    BY <2>1, TailOfEvents DEF InnerArgs
  <2>4. /\ stopReason' \in StopReasons /\ pending' \in Seq(CallIds) /\ held' \in Events
        /\ loop' \in {"stream", "forward"}
    <3>1. CASE Head(inner).kind = "done"
      BY <1>4, <2>3, <3>1 DEF TakeEvent
    <3>2. CASE Head(inner).kind # "done"
      <4>1. /\ held' = Head(inner) /\ loop' = "forward" /\ stopReason' = stopReason
            /\ pending' = IF Head(inner).kind = "call" THEN Append(pending, Head(inner).arg)
                          ELSE pending
        BY <1>4, <3>2 DEF TakeEvent
      <4> QED
        BY <2>3, <4>1
    <3> QED
      BY <3>1, <3>2
  <2> QED
    BY <1>4, <2>2, <2>4 DEF TakeEvent, outVars
<1>5. CASE TurnCtxDone
  <2>1. held' \in Events /\ loop' \in {"terminal", "close"}
    BY <1>5, EventIsEvent DEF TurnCtxDone, FailTurn, ReturnClean, StopReasons
  <2> QED
    BY <1>5, <2>1 DEF TurnCtxDone, InnerArgs, providerVars, outVars
<1>6. CASE Forward
  <2>1. /\ emitted' \in Seq(Events) /\ Len(emitted') = Len(emitted) + 1
    BY <1>6, AppendEvent DEF Forward, Emit
  <2> QED
    BY <1>6, <2>1 DEF Forward, OutHasRoom, InnerArgs, providerVars
<1>7. CASE ForwardGivesUp
  <2>1. held' \in Events /\ loop' \in {"terminal", "close"}
    BY <1>7, EventIsEvent DEF ForwardGivesUp, LooksWhy, FailTurn, ReturnClean, StopReasons
  <2> QED
    BY <1>7, <2>1 DEF ForwardGivesUp, InnerArgs, providerVars, outVars
<1>8. CASE StreamClosed
  <2>1. held' \in Events /\ loop' \in {"terminal", "dispatch"}
    BY <1>8, EventIsEvent DEF StreamClosed
  <2> QED
    BY <1>8, <2>1 DEF StreamClosed, InnerArgs, providerVars, outVars
<1>9. CASE Dispatch
  <2>1. results' \in Seq(Results)
    BY <1>9 DEF Dispatch, ResultFor, Results
  <2> QED
    BY <1>9, <2>1 DEF Dispatch, InnerArgs, providerVars, outVars
<1>10. CASE AppendTurn
  <2>1. messages' \in Seq(Messages)
    BY <1>10 DEF AppendTurn, Messages
  <2> QED
    BY <1>10, <2>1 DEF AppendTurn, InnerArgs, providerVars, outVars
<1>11. CASE SendTerminal
  <2>1. /\ emitted' \in Seq(Events) /\ Len(emitted') = Len(emitted) + 1
    BY <1>11, AppendEvent DEF SendTerminal, Emit
  <2> QED
    BY <1>11, <2>1 DEF SendTerminal, OutHasRoom, InnerArgs, providerVars
<1>12. CASE DropTerminal
  BY <1>12 DEF DropTerminal, InnerArgs, providerVars, outVars
<1>13. CASE CloseOut
  BY <1>13 DEF CloseOut, InnerArgs, providerVars, outVars
<1>14. ASSUME NEW k \in {"delta", "call", "done", "error"}, NEW a \in CallIds \union StopReasons,
              NEW next \in {"reads", "finished"},
              k = "done" => a \in StopReasons, k = "call" => a \in CallIds,
              ProviderSends(Event(k, a), next), produced' \in 0..MaxEvents
       PROVE  TypeInv'
  <2>1. Event(k, a) \in Events /\ Event(k, a).kind = k /\ Event(k, a).arg = a
    BY EventIsEvent
  <2>2. inner' = Append(inner, Event(k, a)) /\ Len(inner) < InnerCap
    BY <1>14 DEF ProviderSends
  <2>3. inner' \in Seq(Events) /\ Len(inner') <= InnerCap
    BY <2>1, <2>2, AppendEvent
  <2>4. InnerArgs'
    BY <1>14, <2>1, <2>2, AppendEvent DEF InnerArgs
  <2> QED
    BY <1>14, <2>3, <2>4 DEF ProviderSends, loopVars, outVars
<1>15. CASE ProvideDelta
  BY <1>15, <1>14 DEF ProvideDelta, StopReasons
<1>16. CASE ProvideCall
  BY <1>16, <1>14 DEF ProvideCall
<1>17. CASE ProvideDone
  BY <1>17, <1>14 DEF ProvideDone, StopReasons
<1>18. CASE ProvideError
  BY <1>18, <1>14 DEF ProvideError, StopReasons
<1>19. CASE ProviderCloses \/ ProviderQuits
  BY <1>19 DEF ProviderCloses, ProviderQuits, InnerArgs, loopVars, outVars
<1>20. CASE DeadlinePasses
  BY <1>20 DEF DeadlinePasses, InnerArgs, loopVars, providerVars, outVars
<1>21. CASE Cancel
  BY <1>21 DEF Cancel, InnerArgs, loopVars, providerVars, outVars
<1>22. CASE Receive
  BY <1>22 DEF Receive, InnerArgs, loopVars, providerVars
<1>23. CASE UNCHANGED vars
  BY <1>23 DEF vars, InnerArgs, loopVars, providerVars, outVars
<1> QED
  BY <1>1, <1>2, <1>3, <1>4, <1>5, <1>6, <1>7, <1>8, <1>9, <1>10, <1>11, <1>12, <1>13, <1>15,
     <1>16, <1>17, <1>18, <1>19, <1>20, <1>21, <1>22, <1>23 DEF Next, Loop, Provider

\* Every variable of a session keeps its type, whatever the cap on turns, the
\* capacities of the two channels and the IDs the model gives its calls; so
\* neither channel ever holds more than its capacity.
THEOREM SessionTypeOK == Spec => []TypeOK
<1>1. TypeInv => TypeOK
  BY DEF TypeInv
<1> QED
  BY TypeInit, TypeStep, <1>1, PTL DEF Spec

\* What the provider says stays consistent too: the strengthened invariant the
\* other theorems rest on.
THEOREM SessionTypeInv == Spec => []TypeInv
  BY TypeInit, TypeStep, PTL DEF Spec

-----------------------------------------------------------------------------
(* One terminal event.                                                     *)

\* Nothing terminal has been sent while the session can still send something;
\* a done event is never forwarded, runTurn only keeps its stop reason.
NoTerminalYet ==
  loop \notin {"close", "ended"} => \A i \in DOMAIN emitted : emitted[i].kind \notin Terminal
DoneNotForwarded == loop = "forward" => held.kind # "done"
TerminalInv == OneTerminal /\ NoTerminalYet /\ DoneNotForwarded

\* A session starts with nothing sent.
LEMMA TerminalInit == Init => TerminalInv
BY DEF Init, TerminalInv, OneTerminal, NoTerminalYet, DoneNotForwarded

\* A step that sends nothing and does not reopen the session keeps the part
\* about what has been sent.
LEMMA SilentStep ==
  ASSUME TerminalInv, emitted' = emitted,
         loop \in {"close", "ended"} => loop' \in {"close", "ended"}
  PROVE  OneTerminal' /\ NoTerminalYet'
BY DEF TerminalInv, OneTerminal, NoTerminalYet

\* A step that sends an event from an open session, and closes it if the event
\* is terminal, keeps it too.
LEMMA SendingStep ==
  ASSUME TypeOK, TerminalInv, loop \notin {"close", "ended"}, Emit(held),
         held.kind \in Terminal => loop' = "close"
  PROVE  OneTerminal' /\ NoTerminalYet'
<1>1. /\ emitted' \in Seq(Events) /\ Len(emitted') = Len(emitted) + 1
      /\ \A i \in DOMAIN emitted' : emitted'[i] = IF i \in DOMAIN emitted THEN emitted[i] ELSE held
  BY AppendEvent DEF Emit, TypeOK
<1>2. \A i \in DOMAIN emitted : emitted[i].kind \notin Terminal
  BY DEF TerminalInv, NoTerminalYet
<1>3. \A i \in DOMAIN emitted' : i \notin DOMAIN emitted => i = Len(emitted')
  BY <1>1 DEF TypeOK
<1> QED
  BY <1>1, <1>2, <1>3 DEF OneTerminal, NoTerminalYet

\* No step of the session sends a second terminal event.
LEMMA TerminalStep == TypeInv /\ TerminalInv /\ [Next]_vars => TerminalInv'
<1> SUFFICES ASSUME TypeInv, TerminalInv, [Next]_vars PROVE TerminalInv'
  OBVIOUS
<1>1. CASE TooManyTurns
  BY <1>1, SilentStep DEF TooManyTurns, outVars, TerminalInv, DoneNotForwarded
<1>2. CASE OpenStream
  BY <1>2, SilentStep DEF OpenStream, outVars, TerminalInv, DoneNotForwarded
<1>3. CASE OpenFails
  BY <1>3, SilentStep DEF OpenFails, outVars, TerminalInv, DoneNotForwarded
<1>4. CASE TakeEvent
  <2>1. OneTerminal' /\ NoTerminalYet'
    BY <1>4, SilentStep DEF TakeEvent, outVars
  <2>2. DoneNotForwarded'
    BY <1>4 DEF TakeEvent, DoneNotForwarded
  <2> QED
    BY <2>1, <2>2 DEF TerminalInv
<1>5. CASE TurnCtxDone \/ ForwardGivesUp
  <2>1. emitted' = emitted /\ loop \in {"stream", "forward"} /\ loop' \in {"terminal", "close"}
    BY <1>5 DEF TurnCtxDone, ForwardGivesUp, LooksWhy, FailTurn, ReturnClean, outVars
  <2> QED
    BY <2>1, SilentStep DEF TerminalInv, DoneNotForwarded
<1>6. CASE Forward
  <2>1. held.kind \in {"delta", "call", "error"}
    BY <1>6 DEF Forward, TerminalInv, DoneNotForwarded, TypeInv, TypeOK, Events
  <2>2. held.kind \in Terminal => loop' = "close"
    BY <1>6, <2>1 DEF Forward, EndsTurn, Terminal
  <2>3. OneTerminal' /\ NoTerminalYet'
    BY <1>6, <2>2, SendingStep DEF Forward, TypeInv
  <2> QED
    BY <1>6, <2>3 DEF Forward, TerminalInv, DoneNotForwarded
<1>7. CASE StreamClosed
  <2>1. emitted' = emitted /\ loop = "stream" /\ loop' \in {"terminal", "dispatch"}
    BY <1>7 DEF StreamClosed, outVars
  <2> QED
    BY <2>1, SilentStep DEF TerminalInv, DoneNotForwarded
<1>8. CASE Dispatch
  BY <1>8, SilentStep DEF Dispatch, outVars, TerminalInv, DoneNotForwarded
<1>9. CASE AppendTurn
  BY <1>9, SilentStep DEF AppendTurn, outVars, TerminalInv, DoneNotForwarded
<1>10. CASE SendTerminal
  BY <1>10, SendingStep DEF SendTerminal, TypeInv, TerminalInv, DoneNotForwarded
<1>11. CASE DropTerminal \/ CloseOut
  BY <1>11, SilentStep DEF DropTerminal, CloseOut, outVars, TerminalInv, DoneNotForwarded
<1>12. ASSUME UNCHANGED <<loopVars, emitted>> PROVE TerminalInv'
  BY <1>12, SilentStep DEF loopVars, TerminalInv, DoneNotForwarded
<1>13. CASE Provider
  BY <1>13, <1>12 DEF Provider, ProvideDelta, ProvideCall, ProvideDone, ProvideError,
     ProviderCloses, ProviderQuits, ProviderSends, outVars
<1>14. CASE DeadlinePasses \/ Cancel \/ Receive \/ UNCHANGED vars
  BY <1>14, <1>12 DEF DeadlinePasses, Cancel, Receive, vars, outVars
<1> QED
  BY <1>1, <1>2, <1>3, <1>4, <1>5, <1>6, <1>7, <1>8, <1>9, <1>10, <1>11, <1>13, <1>14 DEF Next, Loop

\* A session sends at most one terminal event and nothing after it, however
\* runTurn, runLoop, the provider, the deadline and Cancel interleave.
THEOREM SessionOneTerminal == Spec => []OneTerminal
<1>1. TerminalInv => OneTerminal
  BY DEF TerminalInv
<1> QED
  BY SessionTypeInv, TerminalInit, TerminalStep, <1>1, PTL DEF Spec

-----------------------------------------------------------------------------
(* The conversation.                                                       *)

\* While a turn is read no call of it has been answered; while its calls are
\* dispatched, there is one, and the results so far answer the first of them.
ResultsFollowCalls ==
  /\ loop \in {"stream", "forward"} => results = <<>>
  /\ loop = "dispatch" =>
       /\ pending # <<>>
       /\ Len(results) <= Len(pending)
       /\ \A k \in DOMAIN results : results[k].call = pending[k]
UsersTurn == Len(messages) % 2 = 1
ConversationInv == ConversationWellFormed /\ UsersTurn /\ ResultsFollowCalls

\* Adding an assistant message and its answer to a conversation of odd length
\* keeps it odd.
LEMMA Parity ==
  ASSUME NEW n \in Nat, n % 2 = 1
  PROVE  (n + 1) % 2 # 1 /\ (n + 2) % 2 = 1
OBVIOUS

\* A conversation starts as the payload alone, a user's message.
LEMMA ConversationInit == Init => ConversationInv
<1> SUFFICES ASSUME Init PROVE ConversationInv
  OBVIOUS
<1>1. /\ Len(messages) = 1 /\ DOMAIN messages = {1} /\ messages[1].role = "user"
  BY DEF Init
<1>2. ResultsFollowCalls
  BY DEF Init, ResultsFollowCalls
<1> QED
  BY <1>1, <1>2 DEF ConversationInv, UsersTurn, ConversationWellFormed

\* A step that leaves the conversation alone keeps it well-formed.
LEMMA SameConversation ==
  ASSUME ConversationInv, messages' = messages
  PROVE  ConversationWellFormed' /\ UsersTurn'
BY DEF ConversationInv, ConversationWellFormed, UsersTurn

\* Appending a turn's calls and their answers keeps it well-formed.
LEMMA AppendedTurn ==
  ASSUME TypeOK, ConversationInv, AppendTurn
  PROVE  ConversationWellFormed' /\ UsersTurn'
<1> DEFINE n == Len(messages)
           asked    == [role |-> "assistant", uses |-> pending, results |-> <<>>]
           answered == [role |-> "user", uses |-> <<>>, results |-> results]
<1>1. messages \in Seq(Messages) /\ n \in Nat /\ n % 2 = 1
  <2>1. messages \in Seq(Messages) /\ Len(messages) % 2 = 1
    BY DEF TypeOK, ConversationInv, UsersTurn
  <2> QED
    BY <2>1
<1>2. asked \in Messages /\ answered \in Messages
  BY DEF TypeOK, Messages
<1>3. /\ messages' = messages \o <<asked, answered>>
      /\ pending # <<>> /\ Len(results) = Len(pending)
      /\ \A k \in DOMAIN results : results[k].call = pending[k]
  BY DEF AppendTurn, ConversationInv, ResultsFollowCalls
<1>4. /\ Len(messages') = n + 2
      /\ \A i \in 1..n : messages'[i] = messages[i]
      /\ messages'[n + 1] = asked /\ messages'[n + 2] = answered
      /\ DOMAIN messages' = 1..(n + 2)
  BY <1>1, <1>2, <1>3
<1>5. (n + 1) % 2 # 1 /\ (n + 2) % 2 = 1
  BY <1>1, Parity
<1>6. UsersTurn'
  BY <1>4, <1>5 DEF UsersTurn
<1>7. ASSUME NEW i \in DOMAIN messages'
      PROVE  /\ messages'[i].role = IF i % 2 = 1 THEN "user" ELSE "assistant"
             /\ messages'[i].role = "assistant" =>
                  /\ messages'[i].uses # <<>>
                  /\ i + 1 \in DOMAIN messages'
                  /\ Len(messages'[i + 1].results) = Len(messages'[i].uses)
                  /\ \A k \in DOMAIN messages'[i].uses :
                       messages'[i + 1].results[k].call = messages'[i].uses[k]
  <2>1. CASE i \in 1..n
    <3>1. i \in DOMAIN messages /\ messages'[i] = messages[i]
      BY <1>1, <1>4, <2>1
    <3>2. messages[i].role = "assistant" => i + 1 \in 1..n /\ messages'[i + 1] = messages[i + 1]
      BY <1>1, <1>4, <3>1 DEF ConversationInv, ConversationWellFormed
    <3> QED
      BY <1>1, <1>4, <3>1, <3>2 DEF ConversationInv, ConversationWellFormed
  <2>2. CASE i = n + 1
    <3>1. messages'[i] = asked /\ messages'[i + 1] = answered /\ i + 1 \in DOMAIN messages'
      BY <1>1, <1>4, <2>2
    <3>2. DOMAIN pending = DOMAIN results
      BY <1>3 DEF TypeOK
    <3> QED
      BY <1>3, <1>5, <2>2, <3>1, <3>2
  <2>3. CASE i = n + 2
    BY <1>4, <1>5, <2>3
  <2>4. i \in 1..n \/ i = n + 1 \/ i = n + 2
    <3>1. n \in Nat /\ i \in 1..(n + 2)
      BY <1>1, <1>4
    <3> HIDE DEF n
    <3> QED
      BY ONLY <3>1, SMT
  <2> QED
    BY ONLY <2>1, <2>2, <2>3, <2>4, Zenon
<1> QED
  BY <1>6, <1>7 DEF ConversationWellFormed

\* Every step of the session keeps the conversation well-formed.
LEMMA ConversationStep == TypeInv /\ ConversationInv /\ [Next]_vars => ConversationInv'
<1> SUFFICES ASSUME TypeInv, ConversationInv, [Next]_vars PROVE ConversationInv'
  OBVIOUS
<1> USE DEF TypeInv
<1>1. ASSUME messages' = messages, loop' \notin {"stream", "forward", "dispatch"}
      PROVE  ConversationInv'
  BY <1>1, SameConversation DEF ConversationInv, ResultsFollowCalls
<1>2. CASE TooManyTurns \/ OpenFails \/ TurnCtxDone \/ ForwardGivesUp \/ SendTerminal
             \/ DropTerminal \/ CloseOut
  BY <1>1, <1>2 DEF TooManyTurns, OpenFails, TurnCtxDone, ForwardGivesUp, LooksWhy, FailTurn, ReturnClean,
     SendTerminal, DropTerminal, CloseOut
<1>3. CASE OpenStream
  BY <1>3, SameConversation DEF OpenStream, ConversationInv, ResultsFollowCalls
<1>4. CASE TakeEvent \/ Forward
  <2>1. /\ messages' = messages /\ results' = results
        /\ loop \in {"stream", "forward"} /\ loop' # "dispatch"
    BY <1>4 DEF TakeEvent, Forward
  <2> QED
    BY <2>1, SameConversation DEF ConversationInv, ResultsFollowCalls
<1>5. CASE StreamClosed
  <2>1. /\ messages' = messages /\ results' = results /\ pending' = pending /\ loop = "stream"
        /\ loop' = "terminal" \/ (loop' = "dispatch" /\ pending # <<>>)
    BY <1>5 DEF StreamClosed
  <2> QED
    BY <2>1, SameConversation DEF ConversationInv, ResultsFollowCalls, TypeOK
<1>6. CASE Dispatch
  <2>1. PICK failed \in BOOLEAN :
          results' = Append(results, ResultFor(pending[Len(results) + 1], failed))
    BY <1>6 DEF Dispatch
  <2>2. /\ loop = "dispatch" /\ loop' = loop /\ pending' = pending /\ messages' = messages
        /\ Len(results) < Len(pending)
    BY <1>6 DEF Dispatch
  <2>3. /\ Len(results') = Len(results) + 1
        /\ \A k \in DOMAIN results : results'[k] = results[k]
        /\ results'[Len(results) + 1].call = pending[Len(results) + 1]
        /\ \A k \in DOMAIN results' : k \in DOMAIN results \/ k = Len(results) + 1
    <3> DEFINE answer == ResultFor(pending[Len(results) + 1], failed)
    <3>1. pending[Len(results) + 1] \in CallIds
      BY <2>2 DEF TypeOK
    <3>2. answer \in Results /\ answer.call = pending[Len(results) + 1]
      BY <3>1 DEF ResultFor, Results
    <3>3. results \in Seq(Results) /\ results' = Append(results, answer)
      BY <2>1 DEF TypeOK
    <3> HIDE DEF answer
    <3> QED
      BY <3>2, <3>3
  <2>4. \A k \in DOMAIN results' : results'[k].call = pending[k]
    BY <2>2, <2>3 DEF ConversationInv, ResultsFollowCalls
  <2>5. pending # <<>> /\ Len(results') <= Len(pending)
    BY <2>2, <2>3 DEF TypeOK, ConversationInv, ResultsFollowCalls
  <2>6. ResultsFollowCalls'
    BY <2>2, <2>4, <2>5 DEF ResultsFollowCalls
  <2> QED
    BY <2>2, <2>6, SameConversation DEF ConversationInv
<1>7. CASE AppendTurn
  BY <1>7, AppendedTurn DEF AppendTurn, ConversationInv, ResultsFollowCalls
<1>8. ASSUME UNCHANGED loopVars PROVE ConversationInv'
  BY <1>8, SameConversation DEF loopVars, ConversationInv, ResultsFollowCalls
<1>9. CASE Provider
  BY <1>9, <1>8 DEF Provider, ProvideDelta, ProvideCall, ProvideDone, ProvideError,
     ProviderCloses, ProviderQuits, ProviderSends
<1>10. CASE DeadlinePasses \/ Cancel \/ Receive \/ UNCHANGED vars
  BY <1>10, <1>8 DEF DeadlinePasses, Cancel, Receive, vars
<1> QED
  BY <1>2, <1>3, <1>4, <1>5, <1>6, <1>7, <1>9, <1>10 DEF Next, Loop

\* Every request of a session carries an alternating conversation in which
\* each assistant message with calls is answered call by call, in order, for
\* any number of turns and calls and wherever a turn is cut short.
THEOREM SessionConversation == Spec => []ConversationWellFormed
<1>1. ConversationInv => ConversationWellFormed
  BY DEF ConversationInv
<1> QED
  BY SessionTypeInv, ConversationInit, ConversationStep, <1>1, PTL DEF Spec

-----------------------------------------------------------------------------
(* The calls that were shown.                                              *)

\* The calls of turn t among some events.
CallIn(e, t)  == IF e.kind = "call" /\ e.turn = t THEN <<e.arg>> ELSE <<>>
Shown(evs, t) == FlattenSeq([i \in DOMAIN evs |-> CallIn(evs[i], t)])

LEMMA CallsShownIsShown == \A t : CallsShown(t) = Shown(emitted, t)
BY DEF CallsShown, Shown, CallIn

\* What an event may say, and what the calls in it are a sequence of.
Args == CallIds \union StopReasons
LEMMA CallInType ==
  ASSUME NEW e \in Events, NEW t
  PROVE  CallIn(e, t) \in Seq(Args)
<1>1. e.arg \in Args
  BY DEF Events, Args
<1> QED
  BY <1>1 DEF CallIn

\* One more event shows the call in it.
LEMMA ShownAppend ==
  ASSUME NEW evs \in Seq(Events), NEW e \in Events, NEW t
  PROVE  Shown(Append(evs, e), t) = Shown(evs, t) \o CallIn(e, t)
<1> DEFINE calls == [i \in DOMAIN evs |-> CallIn(evs[i], t)]
<1>1. calls \in Seq(Seq(Args)) /\ CallIn(e, t) \in Seq(Args)
  <2>1. \A i \in DOMAIN evs : CallIn(evs[i], t) \in Seq(Args)
    BY CallInType
  <2>2. DOMAIN evs = 1..Len(evs) /\ Len(evs) \in Nat
    OBVIOUS
  <2> QED
    BY <2>1, <2>2, CallInType
<1>2. [i \in DOMAIN Append(evs, e) |-> CallIn(Append(evs, e)[i], t)] = Append(calls, CallIn(e, t))
  OBVIOUS
<1> HIDE DEF calls
<1>3. FlattenSeq(Append(calls, CallIn(e, t))) = FlattenSeq(calls) \o CallIn(e, t)
  BY <1>1, FlattenAppend
<1> QED
  BY <1>2, <1>3 DEF Shown, calls

\* Events without a call of turn t show none.
LEMMA ShownNone ==
  ASSUME NEW evs \in Seq(Events), NEW t, \A i \in DOMAIN evs : evs[i].turn # t
  PROVE  Shown(evs, t) = <<>>
<1> DEFINE calls == [i \in DOMAIN evs |-> CallIn(evs[i], t)]
<1>1. calls \in Seq(Seq(Args)) /\ \A i \in DOMAIN calls : calls[i] = <<>>
  <2>1. \A i \in DOMAIN evs : CallIn(evs[i], t) = <<>>
    BY DEF CallIn
  <2>2. DOMAIN evs = 1..Len(evs) /\ Len(evs) \in Nat
    OBVIOUS
  <2>3. \A i \in DOMAIN evs : CallIn(evs[i], t) \in Seq(Args)
    BY CallInType
  <2>4. calls \in Seq(Seq(Args))
    BY <2>2, <2>3
  <2> QED
    BY <2>1, <2>4
<1> HIDE DEF calls
<1>2. FlattenSeq(calls) = <<>>
  BY <1>1, FlattenNone
<1> QED
  BY <1>2 DEF Shown, calls

\* Which turn the session and its events are in.
TurnsInv ==
  /\ loop = "open" => Len(messages) = 2 * turn + 1
  /\ loop \in {"stream", "forward", "dispatch"} => Len(messages) = 2 * turn - 1
  /\ loop \in {"stream", "forward"} => \A i \in DOMAIN inner : inner[i].turn = turn
  /\ loop = "forward" => held.turn = turn
  /\ loop = "terminal" => held.kind # "call" /\ held.turn <= turn
  /\ \A i \in DOMAIN emitted : emitted[i].turn <= turn

\* The pending calls are those of this turn that were shown, and the one that
\* is being forwarded.
PendingShown ==
  /\ loop \in {"stream", "dispatch"} => pending = CallsShown(turn)
  /\ loop = "forward" => pending = CallsShown(turn) \o CallIn(held, turn)
PastShown ==
  \A t \in Nat \ {0} : 2 * t < Len(messages) => messages[2 * t].uses = CallsShown(t)
ShownInv == TurnsInv /\ PendingShown /\ PastShown

\* It says that the calls of the conversation surfaced.
LEMMA ShownImplies == TypeInv /\ ShownInv => CallsSurfaced
<1> SUFFICES ASSUME TypeInv, ShownInv, NEW t \in 1..((Len(messages) - 1) \div 2)
             PROVE  messages[2 * t].uses = CallsShown(t)
  BY DEF CallsSurfaced
<1>1. Len(messages) \in Nat
  BY DEF TypeInv, TypeOK
<1>2. t \in Nat \ {0} /\ 2 * t < Len(messages)
  BY <1>1
<1> QED
  BY <1>2 DEF ShownInv, PastShown

LEMMA ShownInit == Init => ShownInv
BY DEF Init, ShownInv, TurnsInv, PendingShown, PastShown

\* Turns are numbers.
LEMMA TurnsAreNumbers ==
  ASSUME TypeOK
  PROVE  held.turn \in Nat /\ \A i \in DOMAIN emitted : emitted[i].turn \in Nat
<1>1. \A e \in Events : e.turn \in Nat
  BY TurnsAssumption DEF Events
<1> QED
  BY <1>1 DEF TypeOK

\* A step that leaves the conversation and what was emitted alone keeps what
\* is said of the past.
LEMMA PastUnchanged ==
  ASSUME UNCHANGED <<messages, emitted>>
  PROVE  (PastShown <=> PastShown') /\ \A t : CallsShown(t)' = CallsShown(t)
BY DEF PastShown, CallsShown

\* An event that is sent shows the call in it.
LEMMA EmitShows ==
  ASSUME TypeOK, Emit(held)
  PROVE  \A t : CallsShown(t)' = CallsShown(t) \o CallIn(held, t)
<1>1. emitted \in Seq(Events) /\ held \in Events /\ emitted' = Append(emitted, held)
  BY DEF TypeOK, Emit
<1>2. \A t : CallsShown(t)' = Shown(emitted', t)
  BY CallsShownIsShown DEF CallsShown, Shown, CallIn
<1> QED
  BY <1>1, <1>2, ShownAppend, CallsShownIsShown

\* The calls shown are a sequence.
LEMMA CallsShownType ==
  ASSUME TypeOK
  PROVE  \A t : CallsShown(t) \in Seq(Args)
<1> SUFFICES ASSUME NEW t PROVE Shown(emitted, t) \in Seq(Args)
  BY CallsShownIsShown
<1> DEFINE calls == [i \in DOMAIN emitted |-> CallIn(emitted[i], t)]
<1>1. calls \in Seq(Seq(Args))
  <2>1. DOMAIN emitted = 1..Len(emitted) /\ Len(emitted) \in Nat
        /\ \A i \in DOMAIN emitted : CallIn(emitted[i], t) \in Seq(Args)
    BY CallInType DEF TypeOK
  <2> QED
    BY <2>1
<1> HIDE DEF calls
<1>2. FlattenSeq(calls) \in Seq(Args)
  BY <1>1, FlattenType
<1> QED
  BY <1>2 DEF Shown, calls

\* Every step keeps the calls of the conversation those that were shown.
LEMMA ShownStep == TypeInv /\ ShownInv /\ [Next]_vars => ShownInv'
<1> SUFFICES ASSUME TypeInv, ShownInv, [Next]_vars PROVE ShownInv'
  OBVIOUS
<1> USE DEF TypeInv
<1>0. turn \in Nat /\ Len(messages) \in Nat /\ \A t : CallsShown(t) \in Seq(Args)
  BY TurnsAssumption, CallsShownType DEF TypeOK
<1>1. ASSUME UNCHANGED <<messages, emitted, turn>>, loop' \in {"terminal", "close", "ended"},
             loop' = "terminal" => held'.kind # "call" /\ held'.turn <= turn
      PROVE  ShownInv'
  BY <1>1, PastUnchanged DEF ShownInv, TurnsInv, PendingShown
<1>2. ASSUME NEW k \in {"done", "error"}, NEW a PROVE  Event(k, a).kind # "call" /\ Event(k, a).turn <= turn
  BY <1>0, <1>2 DEF Event
<1>3. CASE TooManyTurns
  BY <1>1, <1>2, <1>3 DEF TooManyTurns, outVars
<1>4. CASE OpenStream
  <2>1. /\ UNCHANGED <<messages, emitted>> /\ loop = "open" /\ loop' = "stream"
        /\ turn' = turn + 1 /\ pending' = <<>> /\ inner' = <<>>
    BY <1>4 DEF OpenStream, NoPendingYet, outVars
  <2>2. CallsShown(turn + 1) = <<>>
    <3>1. \A i \in DOMAIN emitted : emitted[i].turn # turn + 1
      <4>1. \A i \in DOMAIN emitted : emitted[i].turn <= turn /\ emitted[i].turn \in Nat
        BY TurnsAreNumbers DEF ShownInv, TurnsInv
      <4> QED
        BY <1>0, <4>1
    <3>2. emitted \in Seq(Events)
      BY DEF TypeOK
    <3> QED
      BY <3>1, <3>2, ShownNone, CallsShownIsShown
  <2>3. PendingShown'
    <3>1. CallsShown(turn)' = CallsShown(turn + 1)
      BY <2>1 DEF CallsShown
    <3> QED
      BY <2>1, <2>2, <3>1 DEF PendingShown
  <2>4. TurnsInv'
    <3>1. Len(messages) = 2 * turn + 1 /\ \A i \in DOMAIN emitted : emitted[i].turn <= turn
      BY <2>1 DEF ShownInv, TurnsInv
    <3>2. \A i \in DOMAIN emitted : emitted[i].turn <= turn + 1
      <4>1. \A i \in DOMAIN emitted : emitted[i].turn \in Nat
        BY TurnsAreNumbers
      <4> QED
        BY <1>0, <3>1, <4>1
    <3> QED
      BY <1>0, <2>1, <3>1, <3>2 DEF TurnsInv
  <2> QED
    BY <2>1, <2>3, <2>4, PastUnchanged DEF ShownInv
<1>5. CASE OpenFails
  <2>1. /\ UNCHANGED <<messages, emitted>> /\ loop' = "terminal" /\ turn' = turn + 1
        /\ held'.kind # "call" /\ held'.turn <= turn
    BY <1>2, <1>5 DEF OpenFails, outVars
  <2>2. \A i \in DOMAIN emitted : emitted[i].turn <= turn + 1
    <3>1. \A i \in DOMAIN emitted : emitted[i].turn <= turn /\ emitted[i].turn \in Nat
      BY TurnsAreNumbers DEF ShownInv, TurnsInv
    <3> QED
      BY <1>0, <3>1
  <2>3. held'.turn <= turn + 1
    <3>1. held'.turn \in Nat
      <4>1. held' = Event("error", "none")
        BY <1>5 DEF OpenFails
      <4> QED
        BY <1>0, <4>1 DEF Event
    <3> QED
      BY <1>0, <2>1, <3>1
  <2> QED
    BY <2>1, <2>2, <2>3, PastUnchanged DEF ShownInv, TurnsInv, PendingShown
<1>6. CASE TakeEvent
  <2> DEFINE e == Head(inner)
  <2>1. /\ loop = "stream" /\ inner # <<>> /\ inner' = Tail(inner)
        /\ UNCHANGED <<turn, messages, emitted>>
    BY <1>6 DEF TakeEvent, outVars
  <2>2. /\ e.turn = turn
        /\ \A i \in DOMAIN inner' : inner'[i].turn = turn
    BY <2>1, TailOfEvents DEF TypeOK, ShownInv, TurnsInv
  <2>3. pending = CallsShown(turn) /\ CallsShown(turn)' = CallsShown(turn)
    BY <2>1, PastUnchanged DEF ShownInv, PendingShown, CallsShown
  <2>4. CASE e.kind = "done"
    <3>1. loop' = "stream" /\ pending' = pending
      BY <1>6, <2>1, <2>4 DEF TakeEvent
    <3> QED
      BY <2>1, <2>2, <2>3, <3>1, PastUnchanged DEF ShownInv, TurnsInv, PendingShown
  <2>5. CASE e.kind # "done"
    <3>1. /\ loop' = "forward" /\ held' = e
          /\ pending' = IF e.kind = "call" THEN Append(pending, e.arg) ELSE pending
      BY <1>6, <2>5 DEF TakeEvent
    <3>2. pending' = pending \o CallIn(e, turn)
      BY <2>2, <3>1 DEF CallIn, TypeOK
    <3>3. PendingShown'
      BY <2>1, <2>3, <3>1, <3>2 DEF PendingShown
    <3>4. TurnsInv'
      BY <2>1, <2>2, <3>1 DEF ShownInv, TurnsInv
    <3> QED
      BY <2>1, <3>3, <3>4, PastUnchanged DEF ShownInv
  <2> QED
    BY <2>4, <2>5
<1>7. CASE TurnCtxDone \/ ForwardGivesUp
  BY <1>1, <1>2, <1>7 DEF TurnCtxDone, ForwardGivesUp, LooksWhy, FailTurn, ReturnClean, outVars
<1>8. ASSUME Emit(held), UNCHANGED <<turn, messages, inner, pending>>,
             loop \in {"forward", "terminal"}, loop' \in {"stream", "close"},
             loop = "terminal" => loop' = "close"
      PROVE  ShownInv'
  <2>1. \A t : CallsShown(t)' = CallsShown(t) \o CallIn(held, t)
    BY <1>8, EmitShows
  <2>2. held.turn <= turn
    BY <1>0, <1>8 DEF ShownInv, TurnsInv
  <2>3. \A i \in DOMAIN emitted' : emitted'[i].turn <= turn
    <3>1. \A i \in DOMAIN emitted' : emitted'[i] = IF i \in DOMAIN emitted THEN emitted[i] ELSE held
      BY <1>8, AppendEvent DEF Emit, TypeOK
    <3>2. \A i \in DOMAIN emitted : emitted[i].turn <= turn
      BY DEF ShownInv, TurnsInv
    <3> QED
      BY <2>2, <3>1, <3>2
  <2>4. TurnsInv'
    BY <1>8, <2>3 DEF ShownInv, TurnsInv
  <2>5. PendingShown'
    BY <1>8, <2>1 DEF ShownInv, PendingShown, TurnsInv
  <2>6. ASSUME NEW t \in Nat \ {0}, 2 * t < Len(messages) PROVE messages[2 * t].uses = CallsShown(t)'
    <3>1. CallIn(held, t) = <<>>
      <4>1. CASE loop = "terminal"
        BY <4>1 DEF CallIn, ShownInv, TurnsInv
      <4>2. CASE loop = "forward"
        <5>1. held.turn = turn /\ Len(messages) = 2 * turn - 1
          BY <4>2 DEF ShownInv, TurnsInv
        <5>2. held.turn # t
          BY <1>0, <2>6, <5>1
        <5> QED
          BY <5>2 DEF CallIn
      <4> QED
        BY <1>8, <4>1, <4>2
    <3>2. CallsShown(t) \o <<>> = CallsShown(t)
      BY <1>0, ConcatEmptySeq
    <3> QED
      BY <2>1, <2>6, <3>1, <3>2 DEF ShownInv, PastShown
  <2>7. PastShown'
    <3>1. \A t \in Nat \ {0} : 2 * t < Len(messages') => messages'[2 * t].uses = CallsShown(t)'
      BY <1>8, <2>6
    <3> QED
      BY <3>1 DEF PastShown
  <2> QED
    BY <2>4, <2>5, <2>7 DEF ShownInv
<1>9. CASE Forward
  BY <1>8, <1>9 DEF Forward, providerVars
<1>10. CASE SendTerminal
  BY <1>8, <1>10 DEF SendTerminal, providerVars
<1>11. CASE StreamClosed
  <2>1. /\ loop = "stream" /\ UNCHANGED <<messages, emitted, turn, pending>>
        /\ \/ loop' = "dispatch"
           \/ loop' = "terminal" /\ held' = Event("done", stopReason)
    BY <1>11 DEF StreamClosed, outVars
  <2>2. CASE loop' = "terminal"
    BY <1>1, <1>2, <2>1, <2>2
  <2>3. CASE loop' = "dispatch"
    BY <2>1, <2>3, PastUnchanged DEF ShownInv, TurnsInv, PendingShown, CallsShown
  <2> QED
    BY <2>1, <2>2, <2>3
<1>12. CASE Dispatch
  <2>1. loop = "dispatch" /\ loop' = "dispatch" /\ UNCHANGED <<messages, emitted, turn, pending>>
    BY <1>12 DEF Dispatch, outVars
  <2> QED
    BY <2>1, PastUnchanged DEF ShownInv, TurnsInv, PendingShown, CallsShown
<1>13. CASE AppendTurn
  <2> DEFINE n        == Len(messages)
             asked    == [role |-> "assistant", uses |-> pending, results |-> <<>>]
             answered == [role |-> "user", uses |-> <<>>, results |-> results]
  <2>1. /\ loop = "dispatch" /\ loop' = "open" /\ UNCHANGED <<emitted, turn>>
        /\ messages' = messages \o <<asked, answered>>
    BY <1>13 DEF AppendTurn, outVars
  <2>2. n = 2 * turn - 1 /\ pending = CallsShown(turn) /\ \A t : CallsShown(t)' = CallsShown(t)
    BY <2>1 DEF ShownInv, TurnsInv, PendingShown, CallsShown
  <2>3. Len(messages') = n + 2 /\ messages'[n + 1] = asked /\ \A i \in 1..n : messages'[i] = messages[i]
    <3>1. messages \in Seq(Messages)
      BY DEF TypeOK
    <3> QED
      BY <2>1, <3>1
  <2>4. TurnsInv'
    BY <1>0, <2>1, <2>2, <2>3 DEF ShownInv, TurnsInv
  <2>5. ASSUME NEW t \in Nat \ {0}, 2 * t < Len(messages')
        PROVE  messages'[2 * t].uses = CallsShown(t)
    <3> HIDE DEF asked, answered, n
    <3>1. CASE 2 * t < n
      <4>1. 2 * t \in 1..n
        BY <1>0, <3>1 DEF n
      <4> QED
        BY <2>3, <3>1, <4>1 DEF n, ShownInv, PastShown
    <3>2. CASE ~(2 * t < n)
      <4>1. t = turn /\ 2 * t = n + 1
        BY <1>0, <2>2, <2>3, <2>5, <3>2 DEF n
      <4>2. asked.uses = pending
        BY DEF asked
      <4> QED
        BY <2>2, <2>3, <4>1, <4>2
    <3> QED
      BY <3>1, <3>2
  <2>6. PastShown'
    BY <2>2, <2>5 DEF PastShown
  <2> QED
    BY <2>1, <2>4, <2>6 DEF ShownInv, PendingShown
<1>14. CASE DropTerminal \/ CloseOut
  BY <1>1, <1>14 DEF DropTerminal, CloseOut, outVars
<1>15. ASSUME UNCHANGED <<loopVars, emitted>>,
              loop \in {"stream", "forward"} => \A i \in DOMAIN inner' : inner'[i].turn = turn
       PROVE  ShownInv'
  BY <1>15, PastUnchanged DEF loopVars, ShownInv, TurnsInv, PendingShown, CallsShown
<1>16. ASSUME NEW k, NEW a, NEW next, ProviderSends(Event(k, a), next), Event(k, a) \in Events
       PROVE  ShownInv'
  <2>1. /\ inner' = Append(inner, Event(k, a)) /\ UNCHANGED <<loopVars, emitted>>
        /\ loop \in {"stream", "forward"}
    BY <1>16 DEF ProviderSends, InTurn, outVars
  <2>2. Event(k, a).turn = turn
    BY DEF Event
  <2>3. \A i \in DOMAIN inner' : inner'[i].turn = turn
    BY <1>16, <2>1, <2>2, AppendEvent DEF TypeOK, ShownInv, TurnsInv
  <2> QED
    BY <1>15, <2>1, <2>3
<1>17. ASSUME NEW k \in {"delta", "call", "done", "error"}, NEW a \in CallIds \union StopReasons
       PROVE  Event(k, a) \in Events
  BY <1>17, EventIsEvent DEF TypeOK
<1>18. CASE ProvideDelta
  BY <1>16, <1>17, <1>18 DEF ProvideDelta, StopReasons
<1>19. CASE ProvideCall
  BY <1>16, <1>17, <1>19 DEF ProvideCall
<1>20. CASE ProvideDone
  BY <1>16, <1>17, <1>20 DEF ProvideDone, StopReasons
<1>21. CASE ProvideError
  BY <1>16, <1>17, <1>21 DEF ProvideError, StopReasons
<1>22. CASE \/ ProviderCloses \/ ProviderQuits \/ DeadlinePasses \/ Cancel \/ Receive
            \/ UNCHANGED vars
  <2>1. UNCHANGED <<loopVars, emitted, inner>>
    BY <1>22 DEF ProviderCloses, ProviderQuits, DeadlinePasses, Cancel, Receive, vars,
       providerVars, outVars
  <2> QED
    BY <1>15, <2>1 DEF loopVars, ShownInv, TurnsInv
<1> QED
  BY <1>3, <1>4, <1>5, <1>6, <1>7, <1>9, <1>10, <1>11, <1>12, <1>13, <1>14, <1>18, <1>19, <1>20,
     <1>21, <1>22 DEF Next, Loop, Provider

\* The conversation a provider is sent records for each turn the calls the
\* consumer saw in that turn, all of them and in order: one that could not be
\* forwarded is never dispatched, for any number of turns and calls.
THEOREM SessionCallsSurfaced == Spec => []CallsSurfaced
  BY SessionTypeInv, ShownInit, ShownStep, ShownImplies, PTL DEF Spec

-----------------------------------------------------------------------------
(* The end.                                                                *)

\* A cancelled turn is one of a cancelled session, and a session that has
\* closed without a terminal event was told to.
TerminalHeld == loop = "terminal" => held.kind \in Terminal
CauseInv == ClosesForCause /\ TerminalHeld /\ (turnErr = "cancelled" => cancelled)

\* A step that emits nothing and does not close keeps it.
LEMMA CauseKept ==
  ASSUME CauseInv, UNCHANGED <<emitted, turnErr, held>>, cancelled => cancelled',
         loop' \in {"close", "ended"} => loop \in {"close", "ended"},
         loop' = "terminal" => loop = "terminal"
  PROVE  CauseInv'
BY DEF CauseInv, ClosesForCause, TerminalHeld

LEMMA CauseStep == TypeInv /\ TerminalInv /\ CauseInv /\ [Next]_vars => CauseInv'
<1> SUFFICES ASSUME TypeInv, TerminalInv, CauseInv, [Next]_vars PROVE CauseInv'
  OBVIOUS
<1>1. ASSUME turnErr' = "cancelled" => cancelled', loop' \notin {"close", "ended"},
             loop' = "terminal" => held'.kind \in Terminal
      PROVE  CauseInv'
  BY <1>1 DEF CauseInv, ClosesForCause, TerminalHeld
<1>2. CASE TooManyTurns \/ OpenStream \/ OpenFails \/ TakeEvent \/ StreamClosed \/ Dispatch
             \/ AppendTurn
  BY <1>1, <1>2 DEF TooManyTurns, OpenStream, OpenFails, TakeEvent, StreamClosed, Dispatch,
     AppendTurn, CauseInv, Event, Terminal
<1>3. CASE TurnCtxDone \/ ForwardGivesUp
  <2>1. turnErr \in {"deadline", "cancelled"}
    BY <1>3 DEF TurnCtxDone, ForwardGivesUp, TypeInv, TypeOK
  <2>2. /\ UNCHANGED <<turnErr, cancelled, emitted>>
        /\ \/ loop' = "terminal"
           \/ /\ loop' = "close" /\ held' = held
              /\ turnErr = "cancelled" \/ (loop = "forward" /\ held.kind # "delta")
    BY <1>3, <2>1 DEF TurnCtxDone, ForwardGivesUp, LooksWhy, FailTurn, ReturnClean, outVars
  <2>3. CASE loop' = "terminal"
    <3>1. held'.kind \in Terminal
      BY <1>3, <2>3 DEF TurnCtxDone, ForwardGivesUp, LooksWhy, FailTurn, ReturnClean, Event, Terminal
    <3> QED
      BY <1>1, <2>2, <2>3, <3>1 DEF CauseInv
  <2>4. CASE loop' = "close"
    <3>1. turnErr = "cancelled" => cancelled
      BY DEF CauseInv
    <3>2. loop = "forward" => held.kind \in {"delta", "call", "error"}
      BY DEF TypeInv, TypeOK, Events, TerminalInv, DoneNotForwarded
    <3>3. cancelled' \/ (turnErr' = "deadline" /\ held'.kind \in {"call", "error"})
      BY <2>1, <2>2, <2>4, <3>1, <3>2
    <3> QED
      BY <2>2, <2>4, <3>1, <3>3 DEF CauseInv, ClosesForCause, TerminalHeld
  <2> QED
    BY <2>2, <2>3, <2>4
<1>4. CASE Forward \/ SendTerminal
  <2>1. /\ UNCHANGED <<turnErr, cancelled, held>> /\ emitted' = Append(emitted, held)
        /\ loop' = "close" => held.kind = "error" \/ loop = "terminal"
        /\ loop' \in {"stream", "close"}
    BY <1>4 DEF Forward, SendTerminal, Emit, EndsTurn
  <2>2. CASE loop' = "stream"
    BY <1>1, <2>1, <2>2 DEF CauseInv
  <2>3. CASE loop' = "close"
    <3>1. emitted \in Seq(Events) /\ held \in Events
      BY DEF TypeInv, TypeOK
    <3>2. emitted' # <<>> /\ emitted'[Len(emitted')] = held
      BY <2>1, <3>1
    <3>3. held.kind \in Terminal
      BY <2>1, <2>3 DEF Terminal, CauseInv, TerminalHeld
    <3> QED
      BY <2>1, <2>3, <3>2, <3>3 DEF CauseInv, ClosesForCause, TerminalHeld
  <2> QED
    BY <2>1, <2>2, <2>3
<1>5. CASE DropTerminal
  BY <1>5 DEF DropTerminal, CauseInv, ClosesForCause, TerminalHeld
<1>6. CASE CloseOut \/ Receive \/ UNCHANGED vars
  BY <1>6, CauseKept DEF CloseOut, Receive, vars, loopVars, outVars
<1>7. CASE Provider
  BY <1>7, CauseKept DEF Provider, ProvideDelta, ProvideCall, ProvideDone, ProvideError,
     ProviderCloses, ProviderQuits, ProviderSends, loopVars, outVars
<1>8. CASE DeadlinePasses
  BY <1>8, <1>1 DEF DeadlinePasses, InTurn, loopVars
<1>9. CASE Cancel
  BY <1>9 DEF Cancel, loopVars, outVars, CauseInv, ClosesForCause, TerminalHeld
<1> QED
  BY <1>2, <1>3, <1>4, <1>5, <1>6, <1>7, <1>8, <1>9 DEF Next, Loop

\* A session that closes without a done or error event was cancelled, or its
\* turn ran into the deadline while a call or the provider's error waited for
\* room; for every cap, capacity and provider.
THEOREM SessionClosesForCause == Spec => []ClosesForCause
<1>1. Init => CauseInv
  BY DEF Init, CauseInv, ClosesForCause, TerminalHeld
<1>2. CauseInv => ClosesForCause
  BY DEF CauseInv
<1> QED
  BY SessionTypeInv, TerminalInit, TerminalStep, CauseStep, <1>1, <1>2, PTL DEF Spec

-----------------------------------------------------------------------------
(* The contract of a stream.                                               *)

\* Before its first request a session has sent nothing.
BegunInv == turn = 0 => loop = "open" /\ emitted = <<>>

LEMMA BegunStep == TypeInv /\ BegunInv /\ [Next]_vars => BegunInv'
<1> SUFFICES ASSUME TypeInv, BegunInv, [Next]_vars PROVE BegunInv'
  OBVIOUS
<1>t. turn \in Nat /\ MaxToolTurns # 0
  BY TurnsAssumption DEF TypeInv, TypeOK
<1> USE DEF BegunInv
<1>1. CASE TooManyTurns
  BY <1>1, <1>t DEF TooManyTurns
<1>2. CASE OpenStream \/ OpenFails
  BY <1>2, <1>t DEF OpenStream, OpenFails
<1>3. CASE TakeEvent \/ TurnCtxDone \/ Forward \/ ForwardGivesUp \/ StreamClosed \/ Dispatch
             \/ AppendTurn \/ SendTerminal \/ DropTerminal \/ CloseOut
  BY <1>3 DEF TakeEvent, TurnCtxDone, Forward, ForwardGivesUp, StreamClosed, Dispatch,
     AppendTurn, SendTerminal, DropTerminal, CloseOut
<1>4. CASE Provider \/ DeadlinePasses \/ Cancel \/ Receive \/ UNCHANGED vars
  BY <1>4 DEF Provider, ProvideDelta, ProvideCall, ProvideDone, ProvideError, ProviderCloses,
     ProviderQuits, ProviderSends, DeadlinePasses, Cancel, Receive, vars, loopVars, outVars
<1> QED
  BY <1>1, <1>2, <1>3, <1>4 DEF Next, Loop

\* What a consumer has been sent and whether that is over.
LEMMA SentSoFar ==
  ASSUME TypeInv, TerminalInv
  PROVE  /\ Len(emitted) \in Nat /\ (emitted = <<>> => Len(emitted) = 0 /\ ~Ended)
         /\ loop \notin {"close", "ended"} => ~Ended
<1>1. emitted \in Seq(Events)
  BY DEF TypeInv, TypeOK
<1>2. emitted # <<>> => Len(emitted) \in DOMAIN emitted
  BY <1>1
<1> QED
  BY <1>1, <1>2 DEF Ended, TerminalInv, NoTerminalYet

\* Nothing goes out, and the session neither begins nor closes: at most its ctx
\* is done now.
LEMMA SurfacedQuiet ==
  ASSUME emitted' = emitted, cancelled \in BOOLEAN, cancelled' \in BOOLEAN, cancelled => cancelled',
         (loop' = "open" /\ turn' = 0) <=> (loop = "open" /\ turn = 0),
         loop' = "ended" <=> loop = "ended",
         GivenUp => GivenUp' \/ cancelled'
  PROVE  [Surfaced!ANext]_(Surfaced!avars)
<1>1. Ended' <=> Ended
  BY DEF Ended
<1> DEFINE state == IF loop = "open" /\ turn = 0 THEN "none"
                    ELSE IF loop = "ended" THEN "closed" ELSE IF Ended THEN "over" ELSE "open"
           done  == cancelled \/ GivenUp
<1>2. state' = state /\ Len(emitted)' = Len(emitted)
  BY <1>1
<1>3. done => done'
  OBVIOUS
<1>4. CASE done <=> done'
  <2>1. done' = done
    BY <1>4
  <2> HIDE DEF state, done
  <2>2. UNCHANGED <<state, Len(emitted), done>>
    BY <1>2, <2>1
  <2> QED
    BY <2>2 DEF Surfaced!avars, state, done
<1>5. CASE ~done /\ done'
  BY <1>2, <1>5 DEF Surfaced!ANext, Surfaced!CtxDone
<1> QED
  BY <1>3, <1>4, <1>5

\* The first request goes out, or fails to.
LEMMA SurfacedBegins ==
  ASSUME TypeInv, TerminalInv, BegunInv, loop = "open", turn = 0,
         turn' # 0, loop' \in {"stream", "terminal"}, emitted' = emitted, cancelled' \in BOOLEAN
  PROVE  Surfaced!ANext
<1>1. emitted' = <<>> /\ Len(emitted') = 0
  BY SentSoFar DEF BegunInv
<1>2. ~Ended'
  BY <1>1 DEF Ended
<1>3. (cancelled \/ GivenUp)' \in BOOLEAN
  OBVIOUS
<1> QED
  BY <1>1, <1>2, <1>3 DEF Surfaced!ANext, Surfaced!Stream

\* An event goes out, the last or not.
LEMMA SurfacedSends ==
  ASSUME TypeInv, TerminalInv, CauseInv, Forward \/ SendTerminal
  PROVE  Surfaced!ANext
<1>1. /\ loop \in {"forward", "terminal"} /\ loop' \in {"stream", "close"}
      /\ emitted' = Append(emitted, held) /\ UNCHANGED <<cancelled, turn, held>>
      /\ loop' = "close" <=> (loop = "terminal" \/ held.kind = "error")
  BY DEF Forward, SendTerminal, Emit, EndsTurn
<1>2. emitted \in Seq(Events) /\ held \in Events
  BY DEF TypeInv, TypeOK
<1>3. /\ Len(emitted') = Len(emitted) + 1 /\ emitted' # <<>> /\ emitted'[Len(emitted')] = held
  BY <1>1, <1>2
<1>4. ~Ended /\ (Ended' <=> held.kind \in Terminal)
  BY <1>1, <1>3, SentSoFar DEF Ended
<1>5. held.kind \in Terminal <=> loop' = "close"
  <2>1. loop = "forward" => held.kind # "done"
    BY DEF TerminalInv, DoneNotForwarded
  <2>2. loop = "terminal" => held.kind \in Terminal
    BY DEF CauseInv, TerminalHeld
  <2> QED
    BY <1>1, <2>1, <2>2 DEF Terminal
<1>6. ~GivenUp /\ ~GivenUp'
  BY <1>1, <1>4, <1>5 DEF GivenUp
<1>7. (cancelled \/ GivenUp)' = (cancelled \/ GivenUp)
  BY <1>1, <1>6
<1>8. CASE held.kind \in Terminal
  BY <1>1, <1>3, <1>4, <1>7, <1>8 DEF Surfaced!ANext, Surfaced!Finish
<1>9. CASE held.kind \notin Terminal
  BY <1>1, <1>3, <1>4, <1>7, <1>9 DEF Surfaced!ANext, Surfaced!Deliver
<1> QED
  BY <1>8, <1>9

\* The channel is closed: after the last event, or for cause.
LEMMA SurfacedCloses ==
  ASSUME CauseInv, CloseOut
  PROVE  Surfaced!ANext
<1>1. loop = "close" /\ loop' = "ended" /\ UNCHANGED <<emitted, cancelled, turnErr, held>>
  BY DEF CloseOut, outVars
<1>2. Ended' = Ended /\ (GivenUp' = GivenUp)
  BY <1>1 DEF Ended, GivenUp
<1>3. ~Ended => cancelled \/ GivenUp
  BY <1>1 DEF CauseInv, ClosesForCause, Ended, GivenUp
<1>4. (cancelled \/ GivenUp)' = (cancelled \/ GivenUp) /\ Len(emitted') = Len(emitted)
  BY <1>1, <1>2
<1> QED
  BY <1>1, <1>3, <1>4 DEF Surfaced!ANext, Surfaced!Close

\* Every step is one of the stream's, or none.
LEMMA SurfacedStep ==
  TypeInv /\ TypeInv' /\ TerminalInv /\ CauseInv /\ BegunInv /\ [Next]_vars
    => [Surfaced!ANext]_(Surfaced!avars)
<1> SUFFICES ASSUME TypeInv, TypeInv', TerminalInv, CauseInv, BegunInv, [Next]_vars
             PROVE  [Surfaced!ANext]_(Surfaced!avars)
  OBVIOUS
<1>t. /\ cancelled \in BOOLEAN /\ cancelled' \in BOOLEAN /\ turn \in Nat /\ MaxToolTurns # 0
  BY TurnsAssumption DEF TypeInv, TypeOK
<1>1. CASE OpenStream \/ OpenFails
  <2>1. /\ loop = "open" /\ turn' = turn + 1 /\ loop' \in {"stream", "terminal"}
        /\ UNCHANGED <<emitted, cancelled>>
    BY <1>1 DEF OpenStream, OpenFails, outVars
  <2>2. CASE turn = 0
    BY <1>t, <2>1, <2>2, SurfacedBegins
  <2>3. CASE turn # 0
    <3>1. ~GivenUp
      BY <2>1 DEF GivenUp
    <3> QED
      BY <1>t, <2>1, <2>3, <3>1, SurfacedQuiet
  <2> QED
    BY <2>2, <2>3
<1>2. CASE Forward \/ SendTerminal
  BY <1>2, SurfacedSends
<1>3. CASE CloseOut
  BY <1>3, SurfacedCloses
<1>4. CASE TooManyTurns \/ TakeEvent \/ TurnCtxDone \/ ForwardGivesUp \/ StreamClosed \/ Dispatch
             \/ AppendTurn \/ DropTerminal
  <2>1. /\ loop \notin {"close", "ended"} /\ UNCHANGED <<emitted, cancelled, turn>>
        /\ loop = "open" => turn # 0
        /\ loop' # "ended" /\ (loop' = "open" => turn # 0)
    <3>1. loop # "open" => turn # 0
      BY DEF BegunInv
    <3> QED
      BY <1>4, <1>t, <3>1 DEF TooManyTurns, TakeEvent, TurnCtxDone, ForwardGivesUp, StreamClosed, Dispatch,
         AppendTurn, DropTerminal, FailTurn, ReturnClean, outVars
  <2>2. ~GivenUp
    BY <2>1 DEF GivenUp
  <2> QED
    BY <1>t, <2>1, <2>2, SurfacedQuiet
<1>5. CASE Provider \/ DeadlinePasses
  <2>1. /\ loop \notin {"close", "ended"} /\ UNCHANGED <<emitted, cancelled, turn, loop>>
    BY <1>5 DEF Provider, ProvideDelta, ProvideCall, ProvideDone, ProvideError, ProviderCloses,
       ProviderQuits, ProviderSends, DeadlinePasses, InTurn, loopVars, outVars
  <2>2. ~GivenUp
    BY <2>1 DEF GivenUp
  <2> QED
    BY <1>t, <2>1, <2>2, SurfacedQuiet
<1>6. CASE Cancel
  <2>1. cancelled' /\ UNCHANGED <<emitted, turn, loop>>
    BY <1>6 DEF Cancel, loopVars, outVars
  <2> QED
    BY <1>t, <2>1, SurfacedQuiet
<1>7. CASE Receive \/ UNCHANGED vars
  <2>1. UNCHANGED <<emitted, cancelled, turn, loop, turnErr, held>>
    BY <1>7 DEF Receive, vars, loopVars, outVars
  <2>2. GivenUp' <=> GivenUp
    BY <2>1 DEF GivenUp, Ended
  <2> QED
    BY <1>t, <2>1, <2>2, SurfacedQuiet
<1> QED
  BY <1>1, <1>2, <1>3, <1>4, <1>5, <1>6, <1>7 DEF Next, Loop

\* A session keeps towards its consumer the contract ai.Provider keeps towards
\* it, over all turns of its conversation.
THEOREM SessionImplementsStream == Spec => ImplementsAnswerStream
<1>1. Init => Surfaced!AInit
  BY DEF Init, Surfaced!AInit, GivenUp
<1>2. Init => CauseInv /\ BegunInv
  BY DEF Init, CauseInv, ClosesForCause, TerminalHeld, BegunInv
<1> QED
  BY <1>1, <1>2, TypeInit, TypeStep, TerminalInit, TerminalStep, CauseStep, BegunStep, SurfacedStep, PTL
     DEF Spec, ImplementsAnswerStream, Surfaced!ASpec
=============================================================================
