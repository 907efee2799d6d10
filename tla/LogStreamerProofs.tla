-------------------------- MODULE LogStreamerProofs --------------------------
(***************************************************************************)
(* Theorems about a log stream, for any number of lines, any capacity of   *)
(* the batch channel and any number of timerFire goroutines in flight: its *)
(* types, that a closed buffer stays as it is, that no line is duplicated  *)
(* or forgotten, and that the stream implements LogFeed.                   *)
(***************************************************************************)
EXTENDS LogStreamer, TLAPS

-----------------------------------------------------------------------------
(* Sequences of lines.                                                     *)

\* What was read is still read when another line is.
LEMMA SeqGrows ==
  ASSUME NEW S, NEW T, S \subseteq T, NEW s \in Seq(S) PROVE s \in Seq(T)
OBVIOUS

LEMMA SeqsGrow ==
  ASSUME NEW S, NEW T, S \subseteq T, NEW s \in Seq(Seq(S)) PROVE s \in Seq(Seq(T))
<1>1. \A x \in Seq(S) : x \in Seq(T)
  BY SeqGrows
<1>2. Seq(S) \subseteq Seq(T)
  BY <1>1
<1> QED
  BY <1>2, SeqGrows

LEMMA RangeOfEmpty == Range(<<>>) = {} /\ IsInjective(<<>>)
BY DEF Range, IsInjective

LEMMA RangeOfSeq ==
  ASSUME NEW S, NEW s \in Seq(S) PROVE Range(s) \subseteq S
BY DEF Range

LEMMA AppendLineTo ==
  ASSUME NEW S, NEW s \in Seq(S), NEW x \in S
  PROVE  /\ Range(Append(s, x)) = Range(s) \union {x}
         /\ IsInjective(s) /\ x \notin Range(s) => IsInjective(Append(s, x))
<1>1. /\ DOMAIN Append(s, x) = 1..(Len(s) + 1) /\ DOMAIN s = 1..Len(s) /\ Len(s) \in Nat
      /\ \A i \in 1..Len(s) : Append(s, x)[i] = s[i]
      /\ Append(s, x)[Len(s) + 1] = x
  OBVIOUS
<1>2. Range(Append(s, x)) = Range(s) \union {x}
  <2>1. ASSUME NEW y \in Range(Append(s, x)) PROVE y \in Range(s) \union {x}
    BY <1>1, <2>1 DEF Range
  <2>2. ASSUME NEW y \in Range(s) PROVE y \in Range(Append(s, x))
    BY <1>1, <2>2 DEF Range
  <2>3. x \in Range(Append(s, x))
    BY <1>1 DEF Range
  <2> QED
    BY <2>1, <2>2, <2>3
<1>3. ASSUME IsInjective(s), x \notin Range(s) PROVE IsInjective(Append(s, x))
  BY <1>1, <1>3 DEF Range, IsInjective
<1> QED
  BY <1>2, <1>3

LEMMA Concatenated ==
  ASSUME NEW S, NEW s \in Seq(S), NEW t \in Seq(S)
  PROVE  /\ Range(s \o t) = Range(s) \union Range(t)
         /\ IsInjective(s) /\ IsInjective(t) /\ Apart(s, t) => IsInjective(s \o t)
<1>1. /\ DOMAIN (s \o t) = 1..(Len(s) + Len(t)) /\ DOMAIN s = 1..Len(s) /\ DOMAIN t = 1..Len(t)
      /\ Len(s) \in Nat /\ Len(t) \in Nat
      /\ \A i \in 1..Len(s) : (s \o t)[i] = s[i]
      /\ \A i \in 1..(Len(s) + Len(t)) : i > Len(s) => (s \o t)[i] = t[i - Len(s)]
  OBVIOUS
<1>2. \A i \in 1..Len(t) : i + Len(s) \in 1..(Len(s) + Len(t)) /\ (s \o t)[i + Len(s)] = t[i]
  BY <1>1
<1>3. Range(s \o t) = Range(s) \union Range(t)
  <2>1. ASSUME NEW y \in Range(s \o t) PROVE y \in Range(s) \union Range(t)
    <3>1. PICK i \in 1..(Len(s) + Len(t)) : (s \o t)[i] = y
      BY <1>1 DEF Range
    <3>2. CASE i \in 1..Len(s)
      BY <1>1, <3>1, <3>2 DEF Range
    <3>3. CASE i \notin 1..Len(s)
      <4>1. i - Len(s) \in 1..Len(t) /\ y = t[i - Len(s)]
        BY <1>1, <3>1, <3>3
      <4> QED
        BY <1>1, <4>1 DEF Range
    <3> QED
      BY <3>2, <3>3
  <2>2. ASSUME NEW y \in Range(s) PROVE y \in Range(s \o t)
    BY <1>1 DEF Range
  <2>3. ASSUME NEW y \in Range(t) PROVE y \in Range(s \o t)
    BY <1>1, <1>2 DEF Range
  <2> QED
    BY <2>1, <2>2, <2>3
<1>4. ASSUME IsInjective(s), IsInjective(t), Apart(s, t) PROVE IsInjective(s \o t)
  <2> SUFFICES ASSUME NEW i \in 1..(Len(s) + Len(t)), NEW j \in 1..(Len(s) + Len(t)),
                      (s \o t)[i] = (s \o t)[j]
               PROVE  i = j
    BY <1>1 DEF IsInjective
  <2>0. \A a \in 1..Len(s), b \in 1..Len(t) : s[a] # t[b]
    BY <1>1, <1>4 DEF Apart, Range
  <2>1. CASE i \in 1..Len(s) /\ j \in 1..Len(s)
    BY <1>1, <1>4, <2>1 DEF IsInjective
  <2>2. CASE i \in 1..Len(s) /\ j \notin 1..Len(s)
    <3>1. j - Len(s) \in 1..Len(t) /\ (s \o t)[j] = t[j - Len(s)] /\ (s \o t)[i] = s[i]
      BY <1>1, <2>2
    <3> QED
      BY <2>0, <2>2, <3>1
  <2>3. CASE i \notin 1..Len(s) /\ j \in 1..Len(s)
    <3>1. i - Len(s) \in 1..Len(t) /\ (s \o t)[i] = t[i - Len(s)] /\ (s \o t)[j] = s[j]
      BY <1>1, <2>3
    <3> QED
      BY <2>0, <2>3, <3>1
  <2>4. CASE i \notin 1..Len(s) /\ j \notin 1..Len(s)
    <3>1. /\ i - Len(s) \in 1..Len(t) /\ (s \o t)[i] = t[i - Len(s)]
          /\ j - Len(s) \in 1..Len(t) /\ (s \o t)[j] = t[j - Len(s)]
      BY <1>1, <2>4
    <3>2. i - Len(s) = j - Len(s)
      BY <1>1, <1>4, <3>1 DEF IsInjective
    <3> QED
      BY <1>1, <3>2
  <2> QED
    BY <2>1, <2>2, <2>3, <2>4
<1> QED
  BY <1>3, <1>4

\* A batch is sent to the channel, and the first one is received from it.
LEMMA BatchSent ==
  ASSUME NEW S, NEW s \in Seq(S), NEW b \in S
  PROVE  /\ Append(s, b) \in Seq(S) /\ Len(Append(s, b)) = Len(s) + 1
         /\ DOMAIN Append(s, b) = 1..(Len(s) + 1) /\ DOMAIN s = 1..Len(s) /\ Len(s) \in Nat
         /\ \A i \in DOMAIN s : Append(s, b)[i] = s[i]
         /\ Append(s, b)[Len(s) + 1] = b
OBVIOUS

LEMMA BatchReceived ==
  ASSUME NEW S, NEW s \in Seq(S), s # <<>>
  PROVE  /\ Head(s) \in S /\ Head(s) = s[1] /\ 1 \in DOMAIN s
         /\ Tail(s) \in Seq(S) /\ Len(Tail(s)) = Len(s) - 1 /\ Len(s) \in Nat
         /\ DOMAIN s = 1..Len(s) /\ DOMAIN Tail(s) = 1..(Len(s) - 1)
         /\ \A i \in DOMAIN Tail(s) : i + 1 \in DOMAIN s /\ Tail(s)[i] = s[i + 1]
OBVIOUS

-----------------------------------------------------------------------------
(* Type correctness.                                                       *)

\* TypeOK without what a step of the reader alone can change.
LineTypes ==
  /\ tail \in Seq(ReadLines) /\ buffer \in Seq(ReadLines) /\ shown \in Seq(ReadLines)
  /\ snap \in [Fires -> Seq(ReadLines)]
  /\ snapshots \in Seq(Seq(ReadLines)) /\ Len(snapshots) <= Cap
  /\ dropped \in SUBSET ReadLines
OtherTypes ==
  /\ next \in 1..(Lines + 1)
  /\ reader \in {"scan", "flush", "send", "close", "closing", "ended"}
  /\ cancelled \in BOOLEAN /\ closed \in BOOLEAN /\ errCh \in BOOLEAN /\ done \in BOOLEAN
  /\ debounce \in {"nil", "armed", "fired"}
  /\ fire \in [Fires -> {"free", "due", "sending", "full"}]
  /\ consumer \in {"waiting", "handling", "gone"}

LEMMA TypeParts == TypeOK <=> LineTypes /\ OtherTypes
BY DEF TypeOK, LineTypes, OtherTypes

LEMMA TypeInit == Init => TypeOK
<1> SUFFICES ASSUME Init PROVE TypeOK
  OBVIOUS
<1>1. OtherTypes
  <2>1. next \in 1..(Lines + 1)
    BY LinesAssumption DEF Init
  <2>2. cancelled \in BOOLEAN /\ closed \in BOOLEAN /\ errCh \in BOOLEAN /\ done \in BOOLEAN
    BY DEF Init
  <2> QED
    BY <2>1, <2>2 DEF Init, OtherTypes
<1>2. LineTypes
  BY CapAssumption DEF Init, LineTypes
<1> QED
  BY <1>1, <1>2, TypeParts

\* Every step keeps the flags and positions in their types.
LEMMA OtherStep == OtherTypes /\ [Next]_vars => OtherTypes'
<1> SUFFICES ASSUME OtherTypes, [Next]_vars PROVE OtherTypes'
  OBVIOUS
<1> USE DEF OtherTypes
<1> USE LinesAssumption
<1>1. CASE Reader
  <2>1. CASE AppendLine
    BY <2>1 DEF AppendLine, TimerAfterAppend, lockVars, fireVars, consumerVars
  <2>2. CASE AbandonLine
    BY <2>2 DEF AbandonLine, lockVars, fireVars, consumerVars
  <2>3. CASE EndScan
    BY <2>3 DEF EndScan, lockVars, fireVars, consumerVars
  <2>4. CASE Flush
    BY <2>4 DEF Flush, fireVars, consumerVars
  <2>5. CASE FlushSend \/ FlushAbandon
    BY <2>5 DEF FlushSend, FlushAbandon, lockVars, fireVars, consumerVars
  <2>6. CASE Close \/ CloseDone
    BY <2>6 DEF Close, CloseDone, lockVars, fireVars, consumerVars
  <2> QED
    BY <1>1, <2>1, <2>2, <2>3, <2>4, <2>5, <2>6 DEF Reader
<1>2. ASSUME NEW f \in Fires, Fire(f) PROVE OtherTypes'
  BY <1>2 DEF Fire, FireRuns, TimerExpires, FireTake, FireSend, FireFull, FireRebuffer, readerVars, lockVars,
     consumerVars
<1>3. CASE Consumer \/ Cancel
  BY <1>3 DEF Consumer, ReceiveBatch, Rearm, ReceiveDone, Cancel, readerVars, lockVars, fireVars,
     consumerVars
<1>4. CASE UNCHANGED vars
  BY <1>4 DEF vars, readerVars, lockVars, fireVars, consumerVars
<1> QED
  BY <1>1, <1>2, <1>3, <1>4 DEF Next

\* Lines only move between sequences; only what is scanned is new.
LEMMA LineStep == TypeOK /\ [Next]_vars => LineTypes'
<1> SUFFICES ASSUME LineTypes, OtherTypes, [Next]_vars PROVE LineTypes'
  BY TypeParts
<1> USE DEF LineTypes
<1>e. <<>> \in Seq(ReadLines)
  OBVIOUS
<1>1. CASE AppendLine \/ AbandonLine
  <2>1. next' = next + 1 /\ next \in Nat
    BY <1>1, LinesAssumption DEF OtherTypes, AppendLine, AbandonLine
  <2>2. ReadLines \subseteq ReadLines' /\ next \in ReadLines'
    BY <2>1, LinesAssumption DEF ReadLines, OtherTypes
  <2>3. /\ tail \in Seq(ReadLines') /\ buffer \in Seq(ReadLines') /\ shown \in Seq(ReadLines')
        /\ snapshots \in Seq(Seq(ReadLines'))
    BY <2>2, SeqGrows, SeqsGrow
  <2>4. \A f \in Fires : snap[f] \in Seq(ReadLines')
    BY <2>2, SeqGrows
  <2>5. Append(buffer, next) \in Seq(ReadLines')
    BY <2>2, <2>3
  <2>6. snap \in [Fires -> Seq(ReadLines')]
    BY <2>4
  <2>7. /\ tail' = tail /\ shown' = shown /\ snap' = snap /\ snapshots' = snapshots
        /\ buffer' \in {buffer, Append(buffer, next)} /\ dropped' \in {dropped, dropped \union {next}}
    BY <1>1 DEF AppendLine, AbandonLine, lockVars, fireVars, consumerVars
  <2> QED
    BY <2>2, <2>3, <2>5, <2>6, <2>7
<1>2. ASSUME next' = next PROVE ReadLines' = ReadLines
  BY <1>2 DEF ReadLines
<1>3. CASE EndScan
  BY <1>2, <1>3 DEF EndScan, lockVars, fireVars, consumerVars
<1>4. CASE Flush
  BY <1>2, <1>4, <1>e DEF Flush, TakeBuffer, fireVars, consumerVars
<1>5. CASE FlushSend
  <2>1. snapshots' = Append(snapshots, tail) /\ Len(snapshots) < Cap
    BY <1>5 DEF FlushSend, HasRoom
  <2>2. snapshots' \in Seq(Seq(ReadLines)) /\ Len(snapshots') <= Cap
    BY <2>1, BatchSent, CapAssumption
  <2> QED
    BY <1>2, <1>5, <1>e, <2>2 DEF FlushSend, lockVars, fireVars, consumerVars
<1>6. CASE FlushAbandon
  <2>1. Range(tail) \subseteq ReadLines
    BY RangeOfSeq
  <2> QED
    BY <1>2, <1>6, <1>e, <2>1 DEF FlushAbandon, lockVars, fireVars, consumerVars
<1>7. CASE Close \/ CloseDone
  BY <1>2, <1>7 DEF Close, CloseDone, lockVars, fireVars, consumerVars
<1>8. ASSUME NEW f \in Fires, Fire(f) PROVE LineTypes'
  <2>1. CASE TimerExpires(f)
    BY <1>2, <2>1 DEF TimerExpires, readerVars, consumerVars
  <2>2. CASE FireTake(f)
    BY <1>2, <1>e, <2>2 DEF FireTake, TakeBuffer, readerVars, consumerVars
  <2>3. CASE FireSend(f)
    <3>1. snapshots' = Append(snapshots, snap[f]) /\ Len(snapshots) < Cap
      BY <2>3 DEF FireSend, HasRoom
    <3>2. snapshots' \in Seq(Seq(ReadLines)) /\ Len(snapshots') <= Cap
      BY <3>1, BatchSent, CapAssumption
    <3> QED
      BY <1>2, <1>e, <2>3, <3>2 DEF FireSend, readerVars, lockVars, consumerVars
  <2>4. CASE FireFull(f)
    BY <1>2, <2>4 DEF FireFull, readerVars, lockVars, consumerVars
  <2>5. CASE FireRebuffer(f)
    <3>1. Range(snap[f]) \subseteq ReadLines /\ snap[f] \o buffer \in Seq(ReadLines)
      BY RangeOfSeq
    <3>2. buffer' \in {buffer, snap[f] \o buffer} /\ dropped' \in {dropped, dropped \union Range(snap[f])}
      BY <2>5 DEF FireRebuffer, Rebuffered
    <3> QED
      BY <1>2, <1>e, <2>5, <3>1, <3>2 DEF FireRebuffer, readerVars, consumerVars
  <2> QED
    BY <1>8, <2>1, <2>2, <2>3, <2>4, <2>5 DEF Fire, FireRuns
<1>9. CASE ReceiveBatch
  <2>1. snapshots # <<>> /\ snapshots' = Tail(snapshots) /\ shown' = shown \o Head(snapshots)
    BY <1>9 DEF ReceiveBatch
  <2>2. snapshots' \in Seq(Seq(ReadLines)) /\ Len(snapshots') <= Cap /\ Head(snapshots) \in Seq(ReadLines)
    BY <2>1, BatchReceived, CapAssumption
  <2> QED
    BY <1>2, <1>9, <2>1, <2>2 DEF ReceiveBatch, readerVars, lockVars, fireVars
<1>10. CASE Rearm \/ ReceiveDone \/ Cancel
  BY <1>2, <1>10 DEF Rearm, ReceiveDone, Cancel, readerVars, lockVars, fireVars, consumerVars
<1>11. CASE UNCHANGED vars
  BY <1>2, <1>11 DEF vars, readerVars, lockVars, fireVars, consumerVars
<1> QED
  BY <1>1, <1>3, <1>4, <1>5, <1>6, <1>7, <1>8, <1>9, <1>10, <1>11 DEF Next, Reader, Consumer

LEMMA TypeStep == TypeOK /\ [Next]_vars => TypeOK'
<1>1. TypeOK => OtherTypes
  BY TypeParts
<1>2. LineTypes' /\ OtherTypes' => TypeOK'
  BY TypeParts, PTL
<1> QED
  BY <1>1, <1>2, OtherStep, LineStep

\* A stream keeps its types, and its channel holds at most Cap batches.
THEOREM StreamerTypeOK == Spec => []TypeOK
BY TypeInit, TypeStep, PTL DEF Spec

-----------------------------------------------------------------------------
(* The closed buffer.                                                      *)

\* Only run's deferred function sets the flag, and it runs after flush.
ClosedLast == closed => reader \in {"closing", "ended"}

LEMMA ClosedInit == Init => ClosedLast
BY DEF Init, ClosedLast

LEMMA ClosedStep == ClosedLast /\ [Next]_vars => ClosedLast'
<1> SUFFICES ASSUME ClosedLast, [Next]_vars PROVE ClosedLast'
  OBVIOUS
<1>1. CASE Reader
  BY <1>1 DEF ClosedLast, Reader, AppendLine, AbandonLine, EndScan, Flush, FlushSend, FlushAbandon, Close,
     CloseDone, lockVars
<1>2. ASSUME NEW f \in Fires, Fire(f) PROVE ClosedLast'
  BY <1>2 DEF ClosedLast, Fire, FireRuns, TimerExpires, FireTake, FireSend, FireFull, FireRebuffer, readerVars, lockVars
<1>3. CASE Consumer \/ Cancel
  BY <1>3 DEF ClosedLast, Consumer, ReceiveBatch, Rearm, ReceiveDone, Cancel, readerVars, lockVars
<1>4. CASE UNCHANGED vars
  BY <1>4 DEF ClosedLast, vars, readerVars, lockVars
<1> QED
  BY <1>1, <1>2, <1>3, <1>4 DEF Next

\* Once the stream is closed no thread touches its buffer: append, timerFire
\* and re-buffering look at the flag under the mutex, and flush is over.
THEOREM StreamerClosedBufferFrozen == Spec => ClosedBufferFrozen
<1>1. ClosedLast /\ [Next]_vars => [closed => UNCHANGED buffer]_vars
  <2> SUFFICES ASSUME ClosedLast, [Next]_vars, closed PROVE buffer' = buffer
    OBVIOUS
  <2>1. CASE Reader
    BY <2>1 DEF ClosedLast, Reader, AppendLine, AbandonLine, EndScan, Flush, FlushSend, FlushAbandon, Close,
       CloseDone, lockVars
  <2>2. ASSUME NEW f \in Fires, Fire(f) PROVE buffer' = buffer
    BY <2>2 DEF Fire, FireRuns, TimerExpires, FireTake, FireSend, FireFull, FireRebuffer, MayRebuffer, lockVars
  <2>3. CASE Consumer \/ Cancel
    BY <2>3 DEF Consumer, ReceiveBatch, Rearm, ReceiveDone, Cancel, lockVars
  <2>4. CASE UNCHANGED vars
    BY <2>4 DEF vars, lockVars
  <2> QED
    BY <2>1, <2>2, <2>3, <2>4 DEF Next
<1> QED
  BY ClosedInit, ClosedStep, <1>1, PTL DEF Spec, ClosedBufferFrozen

-----------------------------------------------------------------------------
(* No line twice, no line forgotten.                                       *)

\* NoLineTwice, spelled out for each pair of places.
ApartFromAll(l) ==
  /\ \A f \in Fires : l \notin Range(snap[f])
  /\ \A i \in DOMAIN snapshots : l \notin Range(snapshots[i])

SinglesOnce ==
  /\ IsInjective(buffer) /\ IsInjective(tail) /\ IsInjective(shown)
  /\ Apart(buffer, tail) /\ Apart(buffer, shown) /\ Apart(tail, shown)
SnapOnce ==
  /\ \A f \in Fires : IsInjective(snap[f])
  /\ \A f, g \in Fires : f # g => Apart(snap[f], snap[g])
BatchesOnce ==
  /\ \A i \in DOMAIN snapshots : IsInjective(snapshots[i])
  /\ \A i, j \in DOMAIN snapshots : i # j => Apart(snapshots[i], snapshots[j])
FamiliesApart ==
  /\ \A f \in Fires, i \in DOMAIN snapshots : Apart(snap[f], snapshots[i])
  /\ \A l \in Range(buffer) \union Range(tail) \union Range(shown) \union dropped : ApartFromAll(l)
  /\ \A l \in dropped : l \notin Range(buffer) /\ l \notin Range(tail) /\ l \notin Range(shown)
LinesOnce == SinglesOnce /\ SnapOnce /\ BatchesOnce /\ FamiliesApart

LEMMA OnceIsNotTwice == TypeOK => (LinesOnce <=> NoLineTwice)
<1> SUFFICES ASSUME TypeOK PROVE LinesOnce <=> NoLineTwice
  OBVIOUS
<1>1. DOMAIN snap = Fires
  BY DEF TypeOK
<1>2. /\ DOMAIN Singles = {"buffer", "tail", "shown"}
      /\ Singles["buffer"] = buffer /\ Singles["tail"] = tail /\ Singles["shown"] = shown
  BY DEF Singles
<1>3. DistinctIn(Singles) <=>
        /\ IsInjective(buffer) /\ IsInjective(tail) /\ IsInjective(shown)
        /\ Apart(buffer, tail) /\ Apart(buffer, shown) /\ Apart(tail, shown)
  BY <1>2 DEF DistinctIn, Apart
<1>4. DistinctIn(snap) <=> /\ \A f \in Fires : IsInjective(snap[f])
                           /\ \A f, g \in Fires : f # g => Apart(snap[f], snap[g])
  BY <1>1 DEF DistinctIn
<1>5. ApartFrom(snap, snapshots) <=> \A f \in Fires, i \in DOMAIN snapshots : Apart(snap[f], snapshots[i])
  BY <1>1 DEF ApartFrom
<1>6. \A l : (~HeldIn(snap, l) /\ ~HeldIn(snapshots, l)) <=> ApartFromAll(l)
  BY <1>1 DEF HeldIn, ApartFromAll
<1>7. \A l : HeldIn(Singles, l) <=> l \in Range(buffer) \union Range(tail) \union Range(shown)
  BY <1>2 DEF HeldIn
<1>8. ApartFrom(Singles, snap) /\ ApartFrom(Singles, snapshots) <=>
        \A l \in Range(buffer) \union Range(tail) \union Range(shown) : ApartFromAll(l)
  <2>1. ApartFrom(Singles, snap) <=>
          \A l \in Range(buffer) \union Range(tail) \union Range(shown), f \in Fires : l \notin Range(snap[f])
    BY <1>1, <1>2 DEF ApartFrom, Apart
  <2>2. ApartFrom(Singles, snapshots) <=>
          \A l \in Range(buffer) \union Range(tail) \union Range(shown), i \in DOMAIN snapshots :
            l \notin Range(snapshots[i])
    BY <1>2 DEF ApartFrom, Apart
  <2> QED
    BY <2>1, <2>2 DEF ApartFromAll
<1>9. DistinctIn(snapshots) <=> /\ \A i \in DOMAIN snapshots : IsInjective(snapshots[i])
                                /\ \A i, j \in DOMAIN snapshots : i # j => Apart(snapshots[i], snapshots[j])
  BY DEF DistinctIn
<1> QED
  BY <1>3, <1>4, <1>5, <1>6, <1>7, <1>8, <1>9 DEF LinesOnce, SinglesOnce, SnapOnce, BatchesOnce, FamiliesApart, NoLineTwice

\* A place whose lines have gone on is empty: run holds a tail only while it
\* sends it, a timerFire a snapshot only once it has taken one.
EmptyHanded ==
  /\ reader # "send" => tail = <<>>
  /\ \A f \in Fires : fire[f] \in {"free", "due"} => snap[f] = <<>>

\* No line is anywhere before it is read.
LEMMA UnreadNowhere ==
  ASSUME LineTypes, NEW l, l \notin ReadLines
  PROVE  /\ l \notin Range(buffer) /\ l \notin Range(tail) /\ l \notin Range(shown) /\ l \notin dropped
         /\ ApartFromAll(l)
<1>1. /\ Range(buffer) \subseteq ReadLines /\ Range(tail) \subseteq ReadLines
      /\ Range(shown) \subseteq ReadLines /\ dropped \subseteq ReadLines
  BY RangeOfSeq DEF LineTypes
<1>2. \A f \in Fires : Range(snap[f]) \subseteq ReadLines
  <2> TAKE f \in Fires
  <2>1. snap[f] \in Seq(ReadLines)
    BY DEF LineTypes
  <2> QED
    BY <2>1, RangeOfSeq
<1>3. \A i \in DOMAIN snapshots : Range(snapshots[i]) \subseteq ReadLines
  <2> TAKE i \in DOMAIN snapshots
  <2>1. snapshots[i] \in Seq(ReadLines)
    BY DEF LineTypes
  <2> QED
    BY <2>1, RangeOfSeq
<1> QED
  BY <1>1, <1>2, <1>3 DEF ApartFromAll

\* The lines of one place move to the end of the channel.
LEMMA SendKeepsOnce ==
  ASSUME LineTypes, LinesOnce, NEW b \in Seq(ReadLines), snapshots' = Append(snapshots, b),
         IsInjective(b), IsInjective(<<>>), Range(<<>>) = {},
         \A i \in DOMAIN snapshots : Apart(b, snapshots[i])
  PROVE  /\ BatchesOnce'
         /\ \A l : ApartFromAll(l) /\ l \notin Range(b) =>
              \A i \in DOMAIN snapshots' : l \notin Range(snapshots'[i])
<1>1. /\ DOMAIN snapshots' = 1..(Len(snapshots) + 1) /\ DOMAIN snapshots = 1..Len(snapshots)
      /\ Len(snapshots) \in Nat /\ snapshots'[Len(snapshots) + 1] = b
      /\ \A i \in DOMAIN snapshots : snapshots'[i] = snapshots[i]
  BY BatchSent DEF LineTypes
<1>2. \A i \in DOMAIN snapshots' : i \in DOMAIN snapshots \/ (i = Len(snapshots) + 1 /\ i \notin DOMAIN snapshots)
  BY <1>1
<1>3. BatchesOnce
  BY DEF LinesOnce
<1>4. \A i, j \in DOMAIN snapshots' : i # j => Apart(snapshots'[i], snapshots'[j])
  BY <1>1, <1>2, <1>3 DEF BatchesOnce, Apart
<1>5. \A i \in DOMAIN snapshots' : IsInjective(snapshots'[i])
  BY <1>1, <1>2, <1>3 DEF BatchesOnce
<1>6. BatchesOnce'
  BY <1>4, <1>5 DEF BatchesOnce
<1> QED
  BY <1>1, <1>2, <1>6 DEF ApartFromAll

\* Each step moves lines without copying one.
LEMMA OnceStep == TypeOK /\ LinesOnce /\ [Next]_vars => LinesOnce'
<1> SUFFICES ASSUME LineTypes, OtherTypes, LinesOnce, [Next]_vars PROVE LinesOnce'
  BY TypeParts
<1>e. Range(<<>>) = {} /\ IsInjective(<<>>)
  BY RangeOfEmpty
<1> USE DEF LinesOnce
<1>1. CASE AppendLine
  <2>1. buffer' \in {buffer, Append(buffer, next)}
    BY <1>1 DEF AppendLine, lockVars
  <2>2. next \notin ReadLines /\ next \in Nat /\ buffer \in Seq(Nat)
    <3>1. next \in Nat /\ next \notin ReadLines /\ ReadLines \subseteq Nat
      BY LinesAssumption DEF OtherTypes, ReadLines
    <3> QED
      BY <3>1, SeqGrows DEF LineTypes
  <2>3. next \notin Range(buffer) /\ next \notin Range(tail) /\ next \notin Range(shown)
        /\ next \notin dropped /\ ApartFromAll(next)
    BY <2>2, UnreadNowhere
  <2>4. /\ Range(buffer') \subseteq Range(buffer) \union {next} /\ IsInjective(buffer')
    <3>1. /\ Range(Append(buffer, next)) = Range(buffer) \union {next}
          /\ IsInjective(buffer) /\ next \notin Range(buffer) => IsInjective(Append(buffer, next))
      BY <2>2, AppendLineTo
    <3>2. IsInjective(buffer)
      BY DEF SinglesOnce
    <3> QED
      BY <2>1, <2>3, <3>1, <3>2
  <2>5. tail' = tail /\ shown' = shown /\ snap' = snap /\ snapshots' = snapshots /\ dropped' = dropped
    BY <1>1 DEF AppendLine, fireVars, consumerVars
  <2>6. SinglesOnce'
    BY <2>3, <2>4, <2>5 DEF SinglesOnce, Apart
  <2>7. FamiliesApart'
    BY <2>3, <2>4, <2>5 DEF FamiliesApart, ApartFromAll
  <2> QED
    BY <2>5, <2>6, <2>7 DEF SnapOnce, BatchesOnce
<1>2. CASE AbandonLine
  <2>1. next \notin ReadLines
    BY LinesAssumption DEF OtherTypes, ReadLines
  <2>2. next \notin Range(buffer) /\ next \notin Range(tail) /\ next \notin Range(shown) /\ ApartFromAll(next)
    BY <2>1, UnreadNowhere
  <2>3. /\ dropped' = dropped \union {next}
        /\ buffer' = buffer /\ tail' = tail /\ shown' = shown /\ snap' = snap /\ snapshots' = snapshots
    BY <1>2 DEF AbandonLine, lockVars, fireVars, consumerVars
  <2> QED
    BY <2>2, <2>3 DEF SinglesOnce, SnapOnce, BatchesOnce, FamiliesApart, ApartFromAll
<1>3. ASSUME UNCHANGED <<buffer, tail, shown, snap, snapshots, dropped>> PROVE LinesOnce'
  BY <1>3 DEF SinglesOnce, SnapOnce, BatchesOnce, FamiliesApart, ApartFromAll
<1>4. CASE Flush
  <2>1. /\ tail' = buffer /\ buffer' = <<>>
        /\ shown' = shown /\ snap' = snap /\ snapshots' = snapshots /\ dropped' = dropped
    BY <1>4 DEF Flush, TakeBuffer, fireVars, consumerVars
  <2> QED
    BY <1>e, <2>1 DEF SinglesOnce, SnapOnce, BatchesOnce, FamiliesApart, ApartFromAll, Apart
<1>5. CASE FlushSend
  <2>1. /\ snapshots' = Append(snapshots, tail) /\ tail' = <<>>
        /\ buffer' = buffer /\ shown' = shown /\ snap' = snap /\ dropped' = dropped
    BY <1>5 DEF FlushSend, lockVars, fireVars, consumerVars
  <2>2. /\ BatchesOnce'
        /\ \A l : ApartFromAll(l) /\ l \notin Range(tail) =>
             \A i \in DOMAIN snapshots' : l \notin Range(snapshots'[i])
    <3>1. \A i \in DOMAIN snapshots : Apart(tail, snapshots[i])
      BY DEF FamiliesApart, ApartFromAll, Apart
    <3> QED
      BY <1>e, <2>1, <3>1, SendKeepsOnce DEF LineTypes, SinglesOnce
  <2>3. SinglesOnce' /\ SnapOnce'
    BY <1>e, <2>1 DEF SinglesOnce, SnapOnce, Apart
  <2>4. \A l \in Range(buffer') \union Range(tail') \union Range(shown') \union dropped' : ApartFromAll(l)'
    BY <1>e, <2>1, <2>2 DEF FamiliesApart, ApartFromAll, SinglesOnce, Apart
  <2>5. \A f \in Fires, i \in DOMAIN snapshots' : Apart(snap'[f], snapshots'[i])
    <3> SUFFICES ASSUME NEW f \in Fires, NEW l \in Range(snap[f])
                 PROVE  \A i \in DOMAIN snapshots' : l \notin Range(snapshots'[i])
      BY <2>1 DEF Apart
    <3>1. l \notin Range(tail) /\ \A i \in DOMAIN snapshots : l \notin Range(snapshots[i])
      BY DEF FamiliesApart, ApartFromAll, Apart
    <3> QED
      BY <2>1, <3>1, BatchSent DEF LineTypes
  <2>6. \A l \in dropped' : l \notin Range(buffer') /\ l \notin Range(tail') /\ l \notin Range(shown')
    BY <1>e, <2>1 DEF FamiliesApart
  <2> QED
    BY <2>2, <2>3, <2>4, <2>5, <2>6 DEF FamiliesApart
<1>6. CASE FlushAbandon
  <2>1. /\ dropped' = dropped \union Range(tail) /\ tail' = <<>>
        /\ buffer' = buffer /\ shown' = shown /\ snap' = snap /\ snapshots' = snapshots
    BY <1>6 DEF FlushAbandon, lockVars, fireVars, consumerVars
  <2> QED
    BY <1>e, <2>1 DEF SinglesOnce, SnapOnce, BatchesOnce, FamiliesApart, ApartFromAll, Apart
<1>7. ASSUME NEW f \in Fires, Fire(f) PROVE LinesOnce'
  <2>t. snap \in [Fires -> Seq(ReadLines)] /\ snap[f] \in Seq(ReadLines)
    BY DEF LineTypes
  <2>1. CASE TimerExpires(f) \/ FireFull(f)
    BY <1>3, <2>1 DEF TimerExpires, FireFull, readerVars, lockVars, consumerVars
  <2>2. CASE FireTake(f)
    <3>1. CASE UNCHANGED <<snap, buffer>>
      BY <1>3, <2>2, <3>1 DEF FireTake, readerVars, consumerVars
    <3>2. CASE snap' = [snap EXCEPT ![f] = buffer] /\ buffer' = <<>>
      <4>1. tail' = tail /\ shown' = shown /\ snapshots' = snapshots /\ dropped' = dropped
        BY <2>2 DEF FireTake, readerVars, consumerVars
      <4>2. snap'[f] = buffer /\ \A g \in Fires : g # f => snap'[g] = snap[g]
        BY <2>t, <3>2
      <4>3. SinglesOnce' /\ BatchesOnce'
        BY <1>e, <3>2, <4>1 DEF SinglesOnce, BatchesOnce, Apart
      <4>4. SnapOnce'
        BY <4>2 DEF SinglesOnce, SnapOnce, FamiliesApart, ApartFromAll, Apart
      <4>5. FamiliesApart'
        BY <1>e, <3>2, <4>1, <4>2 DEF SinglesOnce, FamiliesApart, ApartFromAll, Apart
      <4> QED
        BY <4>3, <4>4, <4>5
    <3> QED
      BY <2>2, <3>1, <3>2 DEF FireTake, TakeBuffer
  <2>3. CASE FireSend(f)
    <3>1. /\ snapshots' = Append(snapshots, snap[f])
          /\ buffer' = buffer /\ tail' = tail /\ shown' = shown /\ dropped' = dropped
      BY <2>3 DEF FireSend, readerVars, lockVars, consumerVars
    <3>2. snap'[f] = <<>> /\ \A g \in Fires : g # f => snap'[g] = snap[g]
      BY <2>3, <2>t DEF FireSend
    <3>3. /\ BatchesOnce'
          /\ \A l : ApartFromAll(l) /\ l \notin Range(snap[f]) =>
               \A i \in DOMAIN snapshots' : l \notin Range(snapshots'[i])
      <4>1. (\A i \in DOMAIN snapshots : Apart(snap[f], snapshots[i])) /\ IsInjective(snap[f])
        BY DEF FamiliesApart, SnapOnce
      <4> QED
        BY <1>e, <2>t, <3>1, <4>1, SendKeepsOnce
    <3>4. SinglesOnce' /\ SnapOnce'
      BY <1>e, <3>1, <3>2 DEF SinglesOnce, SnapOnce, Apart
    <3>5. \A l \in Range(buffer') \union Range(tail') \union Range(shown') \union dropped' : ApartFromAll(l)'
      BY <1>e, <3>1, <3>2, <3>3 DEF FamiliesApart, ApartFromAll
    <3>6. \A g \in Fires, i \in DOMAIN snapshots' : Apart(snap'[g], snapshots'[i])
      <4> SUFFICES ASSUME NEW g \in Fires, NEW l \in Range(snap'[g])
                   PROVE  \A i \in DOMAIN snapshots' : l \notin Range(snapshots'[i])
        BY DEF Apart
      <4>1. g # f /\ l \in Range(snap[g])
        BY <1>e, <3>2
      <4>2. l \notin Range(snap[f]) /\ \A i \in DOMAIN snapshots : l \notin Range(snapshots[i])
        BY <4>1 DEF FamiliesApart, SnapOnce, Apart
      <4> QED
        BY <3>1, <4>2, <2>t, BatchSent DEF LineTypes
    <3>7. \A l \in dropped' : l \notin Range(buffer') /\ l \notin Range(tail') /\ l \notin Range(shown')
      BY <3>1 DEF FamiliesApart
    <3> QED
      BY <3>3, <3>4, <3>5, <3>6, <3>7 DEF FamiliesApart
  <2>4. CASE FireRebuffer(f)
    <3>1. snapshots' = snapshots /\ tail' = tail /\ shown' = shown
      BY <2>4 DEF FireRebuffer, readerVars, consumerVars
    <3>2. snap'[f] = <<>> /\ \A g \in Fires : g # f => snap'[g] = snap[g]
      BY <2>4, <2>t DEF FireRebuffer
    <3>3. Apart(snap[f], buffer) /\ IsInjective(snap[f]) /\ IsInjective(buffer)
      BY DEF FamiliesApart, ApartFromAll, Apart, SnapOnce, SinglesOnce
    <3>4. /\ Range(snap[f] \o buffer) = Range(snap[f]) \union Range(buffer)
          /\ IsInjective(snap[f] \o buffer)
      BY <2>t, <3>3, Concatenated DEF LineTypes
    <3>5. SnapOnce' /\ BatchesOnce'
      BY <1>e, <3>1, <3>2 DEF SnapOnce, BatchesOnce, Apart
    <3>6. CASE buffer' = snap[f] \o buffer /\ dropped' = dropped
      <4>1. SinglesOnce'
        BY <3>1, <3>4, <3>6 DEF SinglesOnce, FamiliesApart, ApartFromAll, Apart
      <4>2. FamiliesApart'
        BY <1>e, <3>1, <3>2, <3>4, <3>6 DEF SnapOnce, FamiliesApart, ApartFromAll, Apart
      <4> QED
        BY <3>5, <4>1, <4>2
    <3>7. CASE buffer' = buffer /\ dropped' = dropped \union Range(snap[f])
      BY <1>e, <3>1, <3>2, <3>5, <3>7 DEF SinglesOnce, SnapOnce, FamiliesApart, ApartFromAll, Apart
    <3> QED
      BY <2>4, <3>6, <3>7 DEF FireRebuffer, Rebuffered
  <2> QED
    BY <1>7, <2>1, <2>2, <2>3, <2>4 DEF Fire, FireRuns
<1>8. CASE ReceiveBatch
  <2>1. /\ snapshots # <<>> /\ snapshots' = Tail(snapshots) /\ shown' = shown \o Head(snapshots)
        /\ buffer' = buffer /\ tail' = tail /\ snap' = snap /\ dropped' = dropped
    BY <1>8 DEF ReceiveBatch, readerVars, lockVars, fireVars
  <2>2. /\ Head(snapshots) \in Seq(ReadLines) /\ Head(snapshots) = snapshots[1] /\ 1 \in DOMAIN snapshots
        /\ \A i \in DOMAIN snapshots' : /\ i + 1 \in DOMAIN snapshots /\ i + 1 # 1
                                        /\ snapshots'[i] = snapshots[i + 1]
        /\ \A i, j \in DOMAIN snapshots' : i # j => i + 1 # j + 1
    <3>1. snapshots \in Seq(Seq(ReadLines))
      BY DEF LineTypes
    <3>2. /\ Head(snapshots) \in Seq(ReadLines) /\ Head(snapshots) = snapshots[1] /\ 1 \in DOMAIN snapshots
          /\ DOMAIN snapshots' = 1..(Len(snapshots) - 1) /\ Len(snapshots) \in Nat
          /\ \A i \in DOMAIN snapshots' : i + 1 \in DOMAIN snapshots /\ snapshots'[i] = snapshots[i + 1]
      BY <2>1, <3>1, BatchReceived
    <3> QED
      BY <3>2
  <2>3. Apart(shown, Head(snapshots)) /\ IsInjective(shown) /\ IsInjective(Head(snapshots))
    BY <2>2 DEF FamiliesApart, ApartFromAll, Apart, BatchesOnce, SinglesOnce
  <2>4. Range(shown') = Range(shown) \union Range(Head(snapshots)) /\ IsInjective(shown')
    BY <2>1, <2>2, <2>3, Concatenated DEF LineTypes
  <2>5. BatchesOnce' /\ SnapOnce'
    BY <2>1, <2>2 DEF BatchesOnce, SnapOnce
  <2>6. SinglesOnce'
    BY <2>1, <2>2, <2>4 DEF SinglesOnce, FamiliesApart, ApartFromAll, Apart
  <2>7. \A l \in Range(Head(snapshots)) : ApartFromAll(l)'
    BY <2>1, <2>2 DEF FamiliesApart, ApartFromAll, BatchesOnce, Apart
  <2>8. FamiliesApart'
    BY <2>1, <2>2, <2>4, <2>7 DEF FamiliesApart, ApartFromAll
  <2> QED
    BY <2>5, <2>6, <2>8
<1>9. CASE EndScan \/ Close \/ CloseDone \/ Rearm \/ ReceiveDone \/ Cancel
  BY <1>3, <1>9 DEF EndScan, Close, CloseDone, Rearm, ReceiveDone, Cancel, readerVars, lockVars, fireVars,
     consumerVars
<1>10. CASE UNCHANGED vars
  BY <1>3, <1>10 DEF vars, readerVars, lockVars, fireVars, consumerVars
<1> QED
  BY <1>1, <1>2, <1>4, <1>5, <1>6, <1>7, <1>8, <1>9, <1>10 DEF Next, Reader, Consumer

\* Where a line that was read can be.
Somewhere(l) ==
  \/ l \in dropped \/ l \in Range(buffer) \/ l \in Range(tail) \/ l \in Range(shown)
  \/ \E f \in Fires : l \in Range(snap[f])
  \/ \E i \in DOMAIN snapshots : l \in Range(snapshots[i])
NoneForgotten == EmptyHanded /\ ClosedLast /\ \A l \in ReadLines : Somewhere(l)

LEMMA EmptyHandedStep == OtherTypes /\ LineTypes /\ EmptyHanded /\ [Next]_vars => EmptyHanded'
<1> SUFFICES ASSUME OtherTypes, LineTypes, EmptyHanded, [Next]_vars PROVE EmptyHanded'
  OBVIOUS
<1> USE DEF EmptyHanded, OtherTypes, LineTypes
<1>1. CASE Reader
  BY <1>1 DEF Reader, AppendLine, AbandonLine, EndScan, Flush, FlushSend, FlushAbandon, Close, CloseDone,
     fireVars
<1>2. ASSUME NEW f \in Fires, Fire(f) PROVE EmptyHanded'
  BY <1>2 DEF Fire, FireRuns, TimerExpires, FireTake, FireSend, FireFull, FireRebuffer, readerVars
<1>3. CASE Consumer \/ Cancel
  BY <1>3 DEF Consumer, ReceiveBatch, Rearm, ReceiveDone, Cancel, readerVars, fireVars
<1>4. CASE UNCHANGED vars
  BY <1>4 DEF vars, readerVars, fireVars
<1> QED
  BY <1>1, <1>2, <1>3, <1>4 DEF Next

\* Each step moves lines without losing one.
LEMMA ForgottenStep == TypeOK /\ NoneForgotten /\ [Next]_vars => NoneForgotten'
<1> SUFFICES ASSUME LineTypes, OtherTypes, EmptyHanded, ClosedLast, \A l \in ReadLines : Somewhere(l),
                    [Next]_vars, NEW l \in ReadLines'
             PROVE  Somewhere(l)'
  BY TypeParts, EmptyHandedStep, ClosedStep DEF NoneForgotten
<1>e. Range(<<>>) = {}
  BY RangeOfEmpty
<1>t. snap \in [Fires -> Seq(ReadLines)] /\ \A f \in Fires : snap[f] \in Seq(ReadLines)
  BY DEF LineTypes
<1>n. l \in ReadLines \/ (l = next /\ (AppendLine \/ AbandonLine))
  <2>1. next' = next \/ (next' = next + 1 /\ (AppendLine \/ AbandonLine))
    BY DEF Next, Reader, Fire, FireRuns, Consumer, AppendLine, AbandonLine, EndScan, Flush, FlushSend, FlushAbandon,
       Close, CloseDone, TimerExpires, FireTake, FireSend, FireFull, FireRebuffer, ReceiveBatch, Rearm,
       ReceiveDone, Cancel, readerVars, vars
  <2> QED
    BY <2>1, LinesAssumption DEF ReadLines, OtherTypes
<1>s. l \in ReadLines => Somewhere(l)
  OBVIOUS
<1>1. CASE AppendLine
  <2>1. buffer' = Append(buffer, next)
    BY <1>1 DEF AppendLine, ClosedLast
  <2>2. next \in Nat /\ buffer \in Seq(Nat)
    <3>1. next \in Nat /\ ReadLines \subseteq Nat
      BY LinesAssumption DEF OtherTypes, ReadLines
    <3> QED
      BY <3>1, SeqGrows DEF LineTypes
  <2>3. Range(buffer') = Range(buffer) \union {next}
    BY <2>1, <2>2, AppendLineTo
  <2>4. tail' = tail /\ shown' = shown /\ snap' = snap /\ snapshots' = snapshots /\ dropped' = dropped
    BY <1>1 DEF AppendLine, fireVars, consumerVars
  <2> QED
    BY <1>n, <1>s, <2>3, <2>4 DEF Somewhere
<1>2. CASE AbandonLine
  <2>1. /\ dropped' = dropped \union {next}
        /\ buffer' = buffer /\ tail' = tail /\ shown' = shown /\ snap' = snap /\ snapshots' = snapshots
    BY <1>2 DEF AbandonLine, lockVars, fireVars, consumerVars
  <2> QED
    BY <1>n, <1>s, <2>1 DEF Somewhere
<1>3. ASSUME UNCHANGED <<buffer, tail, shown, snap, snapshots, dropped>>, Somewhere(l) PROVE Somewhere(l)'
  BY <1>3 DEF Somewhere
<1>4. CASE Flush
  <2>1. /\ tail' = buffer /\ buffer' = <<>> /\ tail = <<>>
        /\ shown' = shown /\ snap' = snap /\ snapshots' = snapshots /\ dropped' = dropped
    BY <1>4 DEF Flush, TakeBuffer, EmptyHanded, fireVars, consumerVars
  <2>2. Somewhere(l)
    BY <1>n, <1>s, <1>4 DEF Flush, AppendLine, AbandonLine
  <2> QED
    BY <1>e, <2>1, <2>2 DEF Somewhere
<1>b. ASSUME NEW b \in Seq(ReadLines), snapshots' = Append(snapshots, b)
      PROVE  /\ l \in Range(b) => \E i \in DOMAIN snapshots' : l \in Range(snapshots'[i])
             /\ (\E i \in DOMAIN snapshots : l \in Range(snapshots[i]))
                  => \E i \in DOMAIN snapshots' : l \in Range(snapshots'[i])
  <2>1. /\ DOMAIN snapshots' = 1..(Len(snapshots) + 1) /\ DOMAIN snapshots = 1..Len(snapshots)
        /\ Len(snapshots) \in Nat /\ snapshots'[Len(snapshots) + 1] = b
        /\ \A i \in DOMAIN snapshots : snapshots'[i] = snapshots[i]
    BY <1>b, BatchSent DEF LineTypes
  <2>2. Len(snapshots) + 1 \in DOMAIN snapshots' /\ \A i \in DOMAIN snapshots : i \in DOMAIN snapshots'
    BY <2>1
  <2> QED
    BY <2>1, <2>2
<1>5. CASE FlushSend
  <2>1. /\ snapshots' = Append(snapshots, tail) /\ tail' = <<>>
        /\ buffer' = buffer /\ shown' = shown /\ snap' = snap /\ dropped' = dropped
    BY <1>5 DEF FlushSend, lockVars, fireVars, consumerVars
  <2>2. Somewhere(l)
    BY <1>n, <1>s, <1>5 DEF FlushSend, AppendLine, AbandonLine
  <2>3. tail \in Seq(ReadLines)
    BY DEF LineTypes
  <2>4. \/ l \in Range(tail) \/ \E i \in DOMAIN snapshots : l \in Range(snapshots[i])
        => \E i \in DOMAIN snapshots' : l \in Range(snapshots'[i])
    BY <1>b, <2>1, <2>3
  <2> QED
    BY <2>1, <2>2, <2>4 DEF Somewhere
<1>6. CASE FlushAbandon
  <2>1. /\ dropped' = dropped \union Range(tail)
        /\ buffer' = buffer /\ shown' = shown /\ snap' = snap /\ snapshots' = snapshots
    BY <1>6 DEF FlushAbandon, lockVars, fireVars, consumerVars
  <2>2. Somewhere(l)
    BY <1>n, <1>s, <1>6 DEF FlushAbandon, AppendLine, AbandonLine
  <2> QED
    BY <2>1, <2>2 DEF Somewhere
<1>7. ASSUME NEW f \in Fires, Fire(f) PROVE Somewhere(l)'
  <2>0. Somewhere(l)
    <3>1. reader' = reader /\ next' = next
      BY <1>7 DEF Fire, FireRuns, TimerExpires, FireTake, FireSend, FireFull, FireRebuffer, readerVars
    <3> QED
      BY <1>s, <3>1 DEF ReadLines
  <2>1. CASE TimerExpires(f) \/ FireFull(f)
    BY <1>3, <2>0, <2>1 DEF TimerExpires, FireFull, readerVars, lockVars, consumerVars
  <2>2. CASE FireTake(f)
    <3>1. CASE UNCHANGED <<snap, buffer>>
      BY <1>3, <2>0, <2>2, <3>1 DEF FireTake, readerVars, consumerVars
    <3>2. CASE snap' = [snap EXCEPT ![f] = buffer] /\ buffer' = <<>>
      <4>1. tail' = tail /\ shown' = shown /\ snapshots' = snapshots /\ dropped' = dropped
        BY <2>2 DEF FireTake, readerVars, consumerVars
      <4>2. snap'[f] = buffer /\ snap[f] = <<>> /\ \A g \in Fires : g # f => snap'[g] = snap[g]
        BY <2>2, <1>t, <3>2 DEF FireTake, EmptyHanded
      <4> QED
        BY <1>e, <2>0, <4>1, <4>2 DEF Somewhere
    <3> QED
      BY <2>2, <3>1, <3>2 DEF FireTake, TakeBuffer
  <2>3. CASE FireSend(f)
    <3>1. /\ snapshots' = Append(snapshots, snap[f])
          /\ buffer' = buffer /\ tail' = tail /\ shown' = shown /\ dropped' = dropped
      BY <2>3 DEF FireSend, readerVars, lockVars, consumerVars
    <3>2. \A g \in Fires : g # f => snap'[g] = snap[g]
      BY <2>3, <1>t DEF FireSend
    <3>3. \/ l \in Range(snap[f]) \/ \E i \in DOMAIN snapshots : l \in Range(snapshots[i])
          => \E i \in DOMAIN snapshots' : l \in Range(snapshots'[i])
      BY <1>b, <1>t, <3>1
    <3> QED
      BY <2>0, <3>1, <3>2, <3>3 DEF Somewhere
  <2>4. CASE FireRebuffer(f)
    <3>1. snapshots' = snapshots /\ tail' = tail /\ shown' = shown
      BY <2>4 DEF FireRebuffer, readerVars, consumerVars
    <3>2. \A g \in Fires : g # f => snap'[g] = snap[g]
      BY <2>4, <1>t DEF FireRebuffer
    <3>3. Range(snap[f] \o buffer) = Range(snap[f]) \union Range(buffer)
      BY <1>t, Concatenated DEF LineTypes
    <3>4. \/ buffer' = snap[f] \o buffer /\ dropped' = dropped
          \/ buffer' = buffer /\ dropped' = dropped \union Range(snap[f])
      BY <2>4 DEF FireRebuffer, Rebuffered
    <3> QED
      BY <2>0, <3>1, <3>2, <3>3, <3>4 DEF Somewhere
  <2> QED
    BY <1>7, <2>1, <2>2, <2>3, <2>4 DEF Fire, FireRuns
<1>8. CASE ReceiveBatch
  <2>1. /\ snapshots # <<>> /\ snapshots' = Tail(snapshots) /\ shown' = shown \o Head(snapshots)
        /\ buffer' = buffer /\ tail' = tail /\ snap' = snap /\ dropped' = dropped
    BY <1>8 DEF ReceiveBatch, readerVars, lockVars, fireVars
  <2>2. Somewhere(l)
    BY <1>n, <1>s, <1>8 DEF ReceiveBatch, AppendLine, AbandonLine, readerVars, ReadLines
  <2>3. snapshots \in Seq(Seq(ReadLines))
    BY DEF LineTypes
  <2>4. /\ Head(snapshots) \in Seq(ReadLines) /\ Head(snapshots) = snapshots[1]
        /\ \A i \in DOMAIN snapshots : i = 1 \/ (i - 1 \in DOMAIN snapshots' /\ snapshots'[i - 1] = snapshots[i])
    <3>1. /\ Head(snapshots) \in Seq(ReadLines) /\ Head(snapshots) = snapshots[1]
          /\ DOMAIN snapshots = 1..Len(snapshots)
          /\ DOMAIN snapshots' = 1..(Len(snapshots) - 1) /\ Len(snapshots) \in Nat
          /\ \A i \in DOMAIN snapshots' : snapshots'[i] = snapshots[i + 1]
      BY <2>1, <2>3, BatchReceived
    <3>2. \A i \in DOMAIN snapshots : i # 1 => i - 1 \in DOMAIN snapshots' /\ (i - 1) + 1 = i
      BY <3>1
    <3> QED
      BY <3>1, <3>2
  <2>5. Range(shown') = Range(shown) \union Range(Head(snapshots))
    BY <2>1, <2>4, Concatenated DEF LineTypes
  <2>6. (\E i \in DOMAIN snapshots : l \in Range(snapshots[i]))
        => l \in Range(shown') \/ \E i \in DOMAIN snapshots' : l \in Range(snapshots'[i])
    BY <2>4, <2>5
  <2> QED
    BY <2>1, <2>2, <2>5, <2>6 DEF Somewhere
<1>9. CASE EndScan \/ Close \/ CloseDone \/ Rearm \/ ReceiveDone \/ Cancel \/ UNCHANGED vars
  <2>1. UNCHANGED <<next, buffer, tail, shown, snap, snapshots, dropped>>
    BY <1>9 DEF EndScan, Close, CloseDone, Rearm, ReceiveDone, Cancel, vars, readerVars, lockVars, fireVars,
       consumerVars
  <2>2. Somewhere(l)
    BY <1>s, <2>1 DEF ReadLines
  <2> QED
    BY <1>3, <2>1, <2>2
<1> QED
  BY <1>1, <1>2, <1>4, <1>5, <1>6, <1>7, <1>8, <1>9 DEF Next, Reader, Consumer

LEMMA LineInit == Init => LinesOnce /\ NoneForgotten
<1> SUFFICES ASSUME Init PROVE LinesOnce /\ NoneForgotten
  OBVIOUS
<1>1. LinesOnce
  BY RangeOfEmpty DEF Init, LinesOnce, SinglesOnce, SnapOnce, BatchesOnce, FamiliesApart, ApartFromAll, Apart
<1>2. ReadLines = {}
  BY DEF Init, ReadLines
<1>3. EmptyHanded /\ ClosedLast
  BY DEF Init, EmptyHanded, ClosedLast
<1> QED
  BY <1>1, <1>2, <1>3 DEF NoneForgotten

LineInv == TypeOK /\ LinesOnce /\ NoneForgotten
LEMMA StreamerLineInv == Spec => []LineInv
<1>1. Init => LineInv
  BY TypeInit, LineInit DEF LineInv
<1>2. LineInv /\ [Next]_vars => LineInv'
  BY TypeStep, OnceStep, ForgottenStep DEF LineInv
<1> QED
  BY <1>1, <1>2, PTL DEF Spec

\* Releasing the mutex between taking a snapshot and sending or re-buffering
\* it duplicates no line.
THEOREM StreamerNoLineTwice == Spec => []NoLineTwice
<1>1. LineInv => NoLineTwice
  BY OnceIsNotTwice DEF LineInv
<1> QED
  BY StreamerLineInv, <1>1, PTL

\* A line that was read is buffered, on its way, shown or discarded on purpose.
THEOREM StreamerNoLineForgotten == Spec => []NoLineForgotten
<1>1. LineInv => NoLineForgotten
  <2> SUFFICES ASSUME LineInv, NEW l \in ReadLines
               PROVE  l \in dropped \/ HeldIn(Singles, l) \/ HeldIn(snap, l) \/ HeldIn(snapshots, l)
    BY DEF NoLineForgotten
  <2>1. Somewhere(l) /\ DOMAIN snap = Fires
    BY DEF LineInv, NoneForgotten, TypeOK
  <2>2. /\ DOMAIN Singles = {"buffer", "tail", "shown"}
        /\ Singles["buffer"] = buffer /\ Singles["tail"] = tail /\ Singles["shown"] = shown
    BY DEF Singles
  <2>3. l \in Range(buffer) \/ l \in Range(tail) \/ l \in Range(shown) => HeldIn(Singles, l)
    BY <2>2 DEF HeldIn
  <2> QED
    BY <2>1, <2>3 DEF Somewhere, HeldIn
<1> QED
  BY StreamerLineInv, <1>1, PTL

-----------------------------------------------------------------------------
(* The stream implements the abstract feed.                                *)

LEMMA PrefixKept ==
  ASSUME NEW S, NEW s \in Seq(S), NEW t \in Seq(S), t # <<>>
  PROVE  Len(s \o t) > Len(s) /\ SubSeq(s \o t, 1, Len(s)) = s
<1>1. Len(s \o t) = Len(s) + Len(t) /\ Len(s) \in Nat /\ Len(t) \in Nat /\ Len(t) # 0
  OBVIOUS
<1>2. /\ SubSeq(s \o t, 1, Len(s)) \in Seq(S) /\ Len(SubSeq(s \o t, 1, Len(s))) = Len(s)
      /\ \A i \in 1..Len(s) : SubSeq(s \o t, 1, Len(s))[i] = s[i]
  BY <1>1
<1> QED
  BY <1>1, <1>2

\* A line that was shown was read and not given up.
Outstanding ==
  Range(shown) \subseteq ReadLines \ dropped /\ dropped \subseteq ReadLines /\ IsInjective(shown)

LEMMA ShownOutstanding == LineInv => Outstanding
<1> SUFFICES ASSUME LineInv PROVE Outstanding
  OBVIOUS
<1>1. LineTypes /\ LinesOnce
  BY TypeParts DEF LineInv
<1>2. Range(shown) \subseteq ReadLines
  BY <1>1, RangeOfSeq DEF LineTypes
<1> QED
  BY <1>1, <1>2 DEF Outstanding, LineTypes, LinesOnce, FamiliesApart, SinglesOnce

\* Lines counted from one, and from zero.
LEMMA OneLess ==
  \A L \in Nat : \A a, b \in 1..(L + 1) : a <= b => b - 1 \in (a - 1)..L
OBVIOUS

\* Every step of the streamer is one of the feed, or none.
LEMMA FeedStep == LineInv /\ LineInv' /\ [Next]_vars => [Feed!Next]_(Feed!vars)
<1> SUFFICES ASSUME LineInv, LineInv', [Next]_vars PROVE [Feed!Next]_(Feed!vars)
  OBVIOUS
<1>t. LineTypes /\ OtherTypes /\ LineTypes' /\ OtherTypes'
  BY TypeParts, PTL DEF LineInv
<1>n. next \in 1..(Lines + 1) /\ next \in Nat /\ next' \in 1..(Lines + 1)
  BY <1>t, LinesAssumption DEF OtherTypes
<1>s. /\ Range(shown) \subseteq ReadLines \ dropped /\ dropped \subseteq ReadLines /\ IsInjective(shown)
      /\ Range(shown') \subseteq ReadLines' \ dropped' /\ dropped' \subseteq ReadLines' /\ IsInjective(shown')
  <2>1. Outstanding /\ Outstanding'
    BY ShownOutstanding, PTL
  <2> QED
    BY <2>1 DEF Outstanding
<1>r. ReadLines = 1..(next - 1) /\ ReadLines' = 1..(next' - 1)
  BY DEF ReadLines
<1>1. CASE AppendLine
  <2>1. /\ next' = next + 1 /\ next <= Lines
        /\ shown' = shown /\ dropped' = dropped /\ closed' = closed /\ cancelled' = cancelled
    BY <1>1 DEF AppendLine, lockVars, consumerVars
  <2>2. next - 1 < Lines /\ next' - 1 = (next - 1) + 1
    BY <1>n, <2>1, LinesAssumption
  <2> QED
    BY <2>1, <2>2 DEF Feed!Next, Feed!Receive
<1>2. ASSUME closed \/ cancelled, closed' = closed, cancelled' = cancelled, shown' = shown,
             dropped \subseteq dropped', next' \in {next, next + 1}
      PROVE  Feed!GiveUp
  <2>0. next' = next \/ next' = next + 1
    BY <1>2
  <2>1. next' - 1 \in (next - 1)..Lines
    <3>1. next' \in Nat /\ next' <= Lines + 1 /\ next <= next'
      BY <2>0, <1>n, LinesAssumption
    <3> QED
      BY <3>1, <1>n, LinesAssumption, OneLess
  <2>2. dropped' \subseteq (1..(next' - 1)) \ Range(shown)
    BY <1>2, <1>s, <1>r
  <2>3. (closed \/ cancelled)' = (closed \/ cancelled)
    BY <1>2
  <2>4. dropped \subseteq dropped' /\ shown' = shown /\ (closed \/ cancelled)
    BY <1>2
  <2> QED
    BY <2>1, <2>2, <2>3, <2>4 DEF Feed!GiveUp, Feed!Range, Range
<1>3. CASE AbandonLine
  BY <1>2, <1>3 DEF AbandonLine, lockVars, consumerVars, Feed!Next
<1>4. CASE FlushAbandon
  BY <1>2, <1>4 DEF FlushAbandon, lockVars, consumerVars, Feed!Next
<1>5. ASSUME UNCHANGED <<next, shown, dropped, closed, cancelled>> PROVE UNCHANGED Feed!vars
  BY <1>5 DEF Feed!vars
<1>6. CASE EndScan \/ Flush \/ FlushSend \/ CloseDone
  BY <1>5, <1>6 DEF EndScan, Flush, FlushSend, CloseDone, lockVars, consumerVars
<1>7. CASE Close \/ Cancel
  <2>1. next' = next /\ shown' = shown /\ dropped' = dropped /\ (closed' \/ cancelled')
    BY <1>7 DEF Close, Cancel, readerVars, consumerVars
  <2>2. (closed \/ cancelled)' = TRUE
    BY <2>1
  <2> QED
    BY <2>1, <2>2 DEF Feed!Next, Feed!End
<1>8. ASSUME NEW f \in Fires, Fire(f) PROVE [Feed!Next]_(Feed!vars)
  <2>1. CASE TimerExpires(f) \/ FireTake(f) \/ FireSend(f) \/ FireFull(f)
    BY <1>5, <2>1 DEF TimerExpires, FireTake, FireSend, FireFull, readerVars, lockVars, consumerVars
  <2>2. CASE FireRebuffer(f)
    <3>1. next' = next /\ shown' = shown /\ closed' = closed /\ cancelled' = cancelled
      BY <2>2 DEF FireRebuffer, readerVars, consumerVars
    <3>2. CASE MayRebuffer
      BY <1>5, <2>2, <3>1, <3>2 DEF FireRebuffer
    <3>3. CASE ~MayRebuffer
      <4>1. closed /\ dropped \subseteq dropped'
        BY <2>2, <3>3 DEF FireRebuffer, MayRebuffer
      <4> QED
        BY <1>2, <3>1, <4>1 DEF Feed!Next
    <3> QED
      BY <3>2, <3>3
  <2> QED
    BY <1>8, <2>1, <2>2 DEF Fire, FireRuns
<1>9. CASE ReceiveBatch
  <2>1. /\ snapshots # <<>> /\ shown' = shown \o Head(snapshots) /\ next' = next /\ dropped' = dropped
        /\ closed' = closed /\ cancelled' = cancelled
    BY <1>9 DEF ReceiveBatch, readerVars, lockVars
  <2>2. shown \in Seq(ReadLines) /\ Head(snapshots) \in Seq(ReadLines)
    BY <1>t, <2>1, BatchReceived DEF LineTypes
  <2>3. CASE Head(snapshots) = <<>>
    <3>1. shown' = shown
      BY <2>1, <2>2, <2>3
    <3> QED
      BY <1>5, <2>1, <3>1
  <2>4. CASE Head(snapshots) # <<>>
    <3>1. Len(shown') > Len(shown) /\ SubSeq(shown', 1, Len(shown)) = shown
      BY <2>1, <2>2, <2>4, PrefixKept
    <3>2. Range(shown') \subseteq (1..(next - 1)) \ dropped /\ IsInjective(shown')
      BY <1>s, <1>r, <2>1
    <3>3. (closed \/ cancelled)' = (closed \/ cancelled) /\ (next - 1)' = next - 1 /\ dropped' = dropped
      BY <2>1
    <3> QED
      BY <3>1, <3>2, <3>3 DEF Feed!Next, Feed!Deliver, Feed!Range, Feed!IsInjective, Range, IsInjective
  <2> QED
    BY <2>3, <2>4
<1>10. CASE Rearm \/ ReceiveDone \/ UNCHANGED vars
  BY <1>5, <1>10 DEF Rearm, ReceiveDone, vars, readerVars, lockVars, consumerVars
<1> QED
  BY <1>1, <1>3, <1>4, <1>6, <1>7, <1>8, <1>9, <1>10 DEF Next, Reader, Consumer

\* With all its threads the streamer is a feed: batches only add lines, no
\* line comes twice or after it was given up, and none is given up while the
\* stream is open.
THEOREM StreamerImplementsFeed == Spec => ImplementsLogFeed
<1>1. Init => Feed!Init
  BY DEF Init, Feed!Init
<1> QED
  BY StreamerLineInv, FeedStep, <1>1, PTL DEF Spec, ImplementsLogFeed, Feed!Spec
=============================================================================
