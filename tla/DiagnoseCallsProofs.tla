------------------------ MODULE DiagnoseCallsProofs ------------------------
(***************************************************************************)
(* The calls of a diagnosis, from the server to the session and back: for  *)
(* every response and every cancellation the session gets the calls the    *)
(* model made, and for every conversation the request that follows is one  *)
(* the provider's API accepts.                                             *)
(***************************************************************************)
EXTENDS DiagnoseProofs, FiniteSetTheorems

-----------------------------------------------------------------------------
(* Calls among events.                                                     *)

AnyCall == {NoCall} \union Sayable

CallOf == [e \in Events |-> IF e.kind = "call" THEN <<e.call>> ELSE <<>>]

\* What an event gives, and CallsOf as a flattening of it.
LEMMA CallOfTyped ==
  /\ CallOf \in Listings(Events, AnyCall)
  /\ \A evs \in Seq(Events) : CallsOf(evs) = FlattenSeq(Mapped(CallOf, evs))
<1>1. ASSUME NEW e \in Events
      PROVE  (IF e.kind = "call" THEN <<e.call>> ELSE <<>>) \in Seq(AnyCall)
  <2>1. e.call \in AnyCall
    BY DEF Events, AnyCall
  <2> QED
    BY <2>1
<1>2. ASSUME NEW evs \in Seq(Events) PROVE CallsOf(evs) = FlattenSeq(Mapped(CallOf, evs))
  <2>1. \A i \in DOMAIN evs : evs[i] \in Events
    OBVIOUS
  <2>2. Mapped(CallOf, evs)
          = [i \in DOMAIN evs |-> IF evs[i].kind = "call" THEN <<evs[i].call>> ELSE <<>>]
    BY <2>1 DEF Mapped, CallOf
  <2> QED
    BY <2>2 DEF CallsOf
<1> QED
  BY <1>1, <1>2 DEF CallOf, Listings

\* The calls of some events and then of others.
LEMMA CallsOfConcat ==
  ASSUME NEW evs \in Seq(Events), NEW more \in Seq(Events)
  PROVE  CallsOf(evs) \in Seq(AnyCall) /\ CallsOf(evs \o more) = CallsOf(evs) \o CallsOf(more)
<1>1. evs \o more \in Seq(Events)
  OBVIOUS
<1>2. /\ FlattenSeq(Mapped(CallOf, evs)) \in Seq(AnyCall)
      /\ FlattenSeq(Mapped(CallOf, evs \o more))
           = FlattenSeq(Mapped(CallOf, evs)) \o FlattenSeq(Mapped(CallOf, more))
  <2>1. CallOf \in Listings(Events, AnyCall)
    BY CallOfTyped
  <2> HIDE DEF CallOf, Events, AnyCall
  <2> QED
    BY <2>1, FlatMapConcat
<1> QED
  BY <1>1, <1>2, CallOfTyped

\* Those of no event, of one, and of one that is a call.
LEMMA CallsOfFew ==
  /\ CallsOf(<<>>) = <<>>
  /\ \A e \in Events : e.kind # "call" => CallsOf(<<e>>) = <<>>
  /\ \A c \in AnyCall : Event("call", c) \in Events /\ CallsOf(<<Event("call", c)>>) = <<c>>
<1>1. CallsOf(<<>>) = <<>>
  <2>1. <<>> \in Seq(Events)
    OBVIOUS
  <2> QED
    BY <2>1, CallOfTyped, FlatMapNone
<1>2. ASSUME NEW e \in Events PROVE CallsOf(<<e>>) = CallOf[e]
  <2>1. <<e>> \in Seq(Events)
    OBVIOUS
  <2> QED
    BY <2>1, CallOfTyped, FlatMapOne
<1>3. ASSUME NEW c \in AnyCall
      PROVE  Event("call", c) \in Events /\ CallOf[Event("call", c)] = <<c>>
  <2>1. Event("call", c) \in Events
    BY DEF Event, Events, AnyCall
  <2>2. Event("call", c).kind = "call" /\ Event("call", c).call = c
    BY DEF Event
  <2> QED
    BY <2>1, <2>2 DEF CallOf
<1>4. ASSUME NEW e \in Events, e.kind # "call" PROVE CallsOf(<<e>>) = <<>>
  BY <1>2, <1>4 DEF CallOf
<1> QED
  BY <1>1, <1>2, <1>3, <1>4

\* Those of events that are calls.
LEMMA CallsOfCalls ==
  ASSUME NEW calls \in Seq(AnyCall)
  PROVE  LET evs == [i \in DOMAIN calls |-> Event("call", calls[i])]
         IN  evs \in Seq(Events) /\ CallsOf(evs) = calls
<1> DEFINE evs == [i \in DOMAIN calls |-> Event("call", calls[i])]
<1>0. DOMAIN calls = 1..Len(calls) /\ Len(calls) \in Nat /\ \A i \in 1..Len(calls) : calls[i] \in AnyCall
  OBVIOUS
<1>1. \A i \in 1..Len(calls) : Event("call", calls[i]) \in Events
  BY <1>0, CallsOfFew
<1>2. evs \in Seq(Events)
  BY <1>0, <1>1
<1>3. [i \in DOMAIN evs |-> IF evs[i].kind = "call" THEN <<evs[i].call>> ELSE <<>>]
        = [i \in DOMAIN calls |-> <<calls[i]>>]
  BY DEF Event
<1>4. CallsOf(evs) = FlattenSeq([i \in DOMAIN evs |-> IF evs[i].kind = "call" THEN <<evs[i].call>> ELSE <<>>])
  BY DEF CallsOf
<1> HIDE DEF evs
<1>5. CallsOf(evs) = calls
  BY <1>3, <1>4, FlattenSingles
<1> QED
  BY <1>2, <1>5 DEF evs

\* A call the server made is a record with an ID.
LEMMA ServedRecord == \A c \in Served : "id" \in DOMAIN c /\ c = [f \in DOMAIN c |-> c[f]]
<1> TAKE c \in Served
<1>1. PICK t \in Nat, n \in Nat, call \in Calls : c = WithId(call, <<t, n>>)
  BY DEF Served
<1> QED
  BY <1>1 DEF WithId

-----------------------------------------------------------------------------
(* IDs.                                                                    *)

\* Of calls that all have a name and an ID, the k-th is number k.
LEMMA RankOfAll ==
  ASSUME NEW calls, NEW k \in Nat, \A j \in 1..k : Identified(calls[j])
  PROVE  Rank(calls, k) = k
<1>1. {j \in 1..k : Identified(calls[j])} = 1..k
  OBVIOUS
<1>2. Cardinality(1..k) = k
  BY FS_Interval
<1> QED
  BY <1>1, <1>2 DEF Rank

\* The ID of the i-th call as OpenAI's accumulator gives it: that of the i-th
\* call that has a name and an ID, or none when one up to the i-th lacks them.
Labelled(calls, i, id) ==
  \/ id = NoId /\ \E k \in 1..i : ~Identified(calls[k])
  \/ \E k \in DOMAIN calls : Identified(calls[k]) /\ Rank(calls, k) = i /\ id = calls[k].id

\* toolCallIDFor finds such an ID.
LEMMA FoundLabelled ==
  ASSUME NEW calls \in Seq(Served), NEW i \in DOMAIN calls
  PROVE  Labelled(calls, i, IdAt(calls, i))
<1> DEFINE found == {k \in DOMAIN calls : Identified(calls[k]) /\ Rank(calls, k) = i}
<1>1. CASE found # {}
  <2>1. (CHOOSE k \in found : TRUE) \in found
    BY <1>1
  <2>2. PICK k \in found : IdAt(calls, i) = calls[k].id
    BY <1>1, <2>1 DEF IdAt
  <2> QED
    BY <2>2 DEF Labelled
<1>2. CASE found = {}
  <2>1. IdAt(calls, i) = NoId
    BY <1>2 DEF IdAt
  <2>2. \E k \in 1..i : ~Identified(calls[k])
    <3>1. SUFFICES ASSUME \A k \in 1..i : Identified(calls[k]) PROVE FALSE
      OBVIOUS
    <3>2. i \in Nat /\ i \in 1..i
      OBVIOUS
    <3>3. i \in found
      BY <3>1, <3>2, RankOfAll
    <3> QED
      BY <1>2, <3>3
  <2> QED
    BY <2>1, <2>2 DEF Labelled
<1> QED
  BY <1>1, <1>2

\* A call that comes later does not change it.
LEMMA LabelKept ==
  ASSUME NEW calls \in Seq(Served), NEW x \in Served, NEW i \in DOMAIN calls, NEW id,
         Labelled(calls, i, id)
  PROVE  Labelled(Append(calls, x), i, id)
<1> DEFINE more == Append(calls, x)
<1>1. /\ DOMAIN calls = 1..Len(calls) /\ DOMAIN more = 1..(Len(calls) + 1) /\ Len(calls) \in Nat
      /\ \A k \in 1..Len(calls) : more[k] = calls[k]
  OBVIOUS
<1> HIDE DEF more
<1>2. \A k \in 1..Len(calls) : Rank(more, k) = Rank(calls, k)
  <2> TAKE k \in 1..Len(calls)
  <2>1. \A j \in 1..k : more[j] = calls[j]
    BY <1>1
  <2>2. {j \in 1..k : Identified(more[j])} = {j \in 1..k : Identified(calls[j])}
    BY <2>1
  <2> QED
    BY <2>2 DEF Rank
<1>3. CASE id = NoId /\ \E k \in 1..i : ~Identified(calls[k])
  <2>1. PICK k \in 1..i : ~Identified(calls[k])
    BY <1>3
  <2>2. more[k] = calls[k]
    BY <1>1
  <2> QED
    BY <1>3, <2>1, <2>2 DEF Labelled, more
<1>4. CASE \E k \in DOMAIN calls : Identified(calls[k]) /\ Rank(calls, k) = i /\ id = calls[k].id
  <2>1. PICK k \in DOMAIN calls : Identified(calls[k]) /\ Rank(calls, k) = i /\ id = calls[k].id
    BY <1>4
  <2>2. k \in DOMAIN more /\ more[k] = calls[k] /\ Rank(more, k) = i
    BY <1>1, <1>2, <2>1
  <2> QED
    BY <2>1, <2>2 DEF Labelled, more
<1> QED
  BY <1>3, <1>4 DEF Labelled

\* The call d stands for the i-th of these calls, of which the b-th, if there
\* is one, is broken off.
Gives(calls, b, vendor, i, d) ==
  /\ i \in DOMAIN calls
  /\ d = [calls[i] EXCEPT !.id = d.id] \/ i = b
  /\ IF vendor = "openai" THEN Labelled(calls, i, d.id) ELSE d.id = calls[i].id
AllGiven(calls, b, vendor, got) == \A i \in DOMAIN got : Gives(calls, b, vendor, i, got[i])

\* What was given stays given when another call begins or one breaks off.
LEMMA GivenKept ==
  ASSUME NEW calls \in Seq(Served), NEW x \in Served, NEW vendor, NEW got, NEW b,
         AllGiven(calls, 0, vendor, got)
  PROVE  AllGiven(calls, b, vendor, got) /\ AllGiven(Append(calls, x), b, vendor, got)
<1> SUFFICES ASSUME NEW i \in DOMAIN got
             PROVE  /\ Gives(calls, b, vendor, i, got[i])
                    /\ Gives(Append(calls, x), b, vendor, i, got[i])
  BY DEF AllGiven
<1>1. Gives(calls, 0, vendor, i, got[i])
  BY DEF AllGiven
<1>2. i \in DOMAIN calls /\ i # 0 /\ i \in DOMAIN Append(calls, x) /\ Append(calls, x)[i] = calls[i]
  BY <1>1 DEF Gives
<1>3. got[i] = [calls[i] EXCEPT !.id = got[i].id]
  BY <1>1, <1>2 DEF Gives
<1>4. vendor = "openai" => Labelled(calls, i, got[i].id) /\ Labelled(Append(calls, x), i, got[i].id)
  BY <1>1, <1>2, LabelKept DEF Gives
<1>5. vendor # "openai" => got[i].id = calls[i].id
  BY <1>1 DEF Gives
<1> QED
  BY <1>2, <1>3, <1>4, <1>5 DEF Gives

\* More calls are given.
LEMMA GivenMore ==
  ASSUME NEW calls, NEW b, NEW vendor, NEW got \in Seq(AnyCall), NEW more \in Seq(AnyCall),
         AllGiven(calls, b, vendor, got),
         \A j \in DOMAIN more : Gives(calls, b, vendor, Len(got) + j, more[j])
  PROVE  AllGiven(calls, b, vendor, got \o more)
<1> SUFFICES ASSUME NEW i \in DOMAIN (got \o more) PROVE Gives(calls, b, vendor, i, (got \o more)[i])
  BY DEF AllGiven
<1>1. CASE i <= Len(got)
  <2>1. i \in DOMAIN got /\ (got \o more)[i] = got[i]
    BY <1>1
  <2> QED
    BY <2>1 DEF AllGiven
<1>2. CASE ~(i <= Len(got))
  <2>1. i - Len(got) \in DOMAIN more /\ (got \o more)[i] = more[i - Len(got)]
    BY <1>2
  <2>2. Len(got) + (i - Len(got)) = i
    OBVIOUS
  <2> QED
    BY <2>1, <2>2
<1> QED
  BY <1>1, <1>2

-----------------------------------------------------------------------------
(* The calls the session gets.                                             *)

\* What the goroutine has decided to say, whether it is sent already or not,
\* and how many calls it still owes: Anthropic's all that were made, OpenAI's
\* the one the accumulator is in.
Said == sent \o queue
Owed == IF Vendor = "anthropic" THEN Len(served) ELSE IF current = 0 THEN 0 ELSE 1

\* The call that broke off, once the reading is over.
BrokenAt == IF partial /\ goroutine # "reading" THEN Len(served) ELSE 0

\* A request goes to the vendor of the session; so does the goroutine.
VendorInv ==
  /\ profile.provider \in Vendors \union {"nil"}
  /\ phase # "idle" => session.provider \in Vendors
  /\ goroutine # "none" => Vendor \in Vendors

\* Which calls a vendor may have made, and be in, and the IDs they have.
VendorCalls ==
  /\ goroutine = "opening" => served = <<>> /\ current = 0
  /\ Vendor # "openai" => current = 0
  /\ Vendor = "ollama" => served = <<>>
  /\ current # 0 => current = Len(served)
  /\ \A k \in DOMAIN served : served[k].id \in {NoId, <<turn, k>>}

\* What the goroutine said are the first calls the model made.  While it
\* reads, it owes the others; once it has decided to say done, it owes none,
\* but for a call the accumulator is still in.
Accounted ==
  /\ goroutine = "reading" => Len(CallsOf(Said)) + Owed = Len(served)
  /\ Done \in ToSet(Said) => Len(CallsOf(Said)) = Len(served) - (IF current = 0 THEN 0 ELSE 1)
  /\ AllGiven(served, BrokenAt, Vendor, CallsOf(Said))

CallsInv == VendorInv /\ VendorCalls /\ Accounted

\* What is said is events.
LEMMA SaidTyped == StreamInv => Said \in Seq(Events) /\ CallsOf(Said) \in Seq(AnyCall)
<1> SUFFICES ASSUME StreamInv PROVE Said \in Seq(Events) /\ CallsOf(Said) \in Seq(AnyCall)
  OBVIOUS
<1>1. Said \in Seq(Events)
  <2>1. sent \in Seq(Events) /\ queue \in Seq(Events)
    BY DEF StreamInv, StreamTypes
  <2> QED
    BY <2>1 DEF Said
<1> QED
  BY <1>1, CallsOfConcat

\* Once done is sent there is nothing left to send: the session gets it all,
\* and no ID twice.
LEMMA AccountedComplete == StreamInv /\ VendorCalls /\ Accounted => CallsComplete
<1> SUFFICES ASSUME StreamInv, VendorCalls, Accounted, Done \in ToSet(sent) PROVE CallsComplete
  BY DEF CallsComplete
<1> DEFINE got == CallsOf(sent)
<1>1. queue = <<>> /\ sent \in Seq(Events) /\ served \in Seq(Served) /\ DOMAIN served = 1..Len(served)
  BY DEF StreamInv, StreamTypes, LastFirst, Over, Terminals
<1>2. Said = sent
  BY <1>1 DEF Said
<1>3. Len(got) = Len(served) - (IF current = 0 THEN 0 ELSE 1)
  BY <1>2 DEF Accounted
<1>4. \A i \in DOMAIN got : Gives(served, BrokenAt, Vendor, i, got[i])
  BY <1>2 DEF Accounted, AllGiven
<1> HIDE DEF got
<1>5. ASSUME NEW i \in DOMAIN got
      PROVE  got[i] = [served[i] EXCEPT !.id = got[i].id] \/ (partial /\ i = Len(served))
  <2>1. i \in DOMAIN served /\ i # 0
    BY <1>1, <1>4 DEF Gives
  <2>2. got[i] = [served[i] EXCEPT !.id = got[i].id] \/ i = BrokenAt
    BY <1>4 DEF Gives
  <2>3. i = BrokenAt => partial /\ i = Len(served)
    BY <2>1 DEF BrokenAt
  <2> QED
    BY <2>2, <2>3
<1>6. ASSUME NEW i \in DOMAIN got, Vendor # "openai" \/ \A c \in ToSet(served) : Identified(c)
      PROVE  got[i].id = served[i].id
  <2>1. i \in DOMAIN served
    BY <1>4 DEF Gives
  <2>2. CASE Vendor # "openai"
    BY <1>4, <2>2 DEF Gives
  <2>3. CASE Vendor = "openai"
    <3>1. \A k \in DOMAIN served : Identified(served[k])
      BY <1>6, <2>3 DEF ToSet
    <3>2. Labelled(served, i, got[i].id)
      BY <1>4, <2>3 DEF Gives
    <3>3. \A k \in 1..i : k \in DOMAIN served
      BY <1>1, <2>1
    <3>4. PICK k \in DOMAIN served : Rank(served, k) = i /\ got[i].id = served[k].id
      BY <3>1, <3>2, <3>3 DEF Labelled
    <3>5. k \in Nat /\ \A j \in 1..k : Identified(served[j])
      BY <1>1, <3>1
    <3>6. Rank(served, k) = k
      BY <3>5, RankOfAll
    <3> QED
      BY <3>4, <3>6
  <2> QED
    BY <2>2, <2>3
<1>7. ASSUME NEW i \in DOMAIN got, NEW j \in DOMAIN got, got[i].id = got[j].id, got[i].id # NoId
      PROVE  i = j
  <2>1. i \in DOMAIN served /\ j \in DOMAIN served
    BY <1>4 DEF Gives
  <2>2. \A k \in DOMAIN served : served[k].id # NoId => served[k].id = <<turn, k>>
    BY DEF VendorCalls
  <2>3. CASE Vendor # "openai"
    <3>1. served[i].id = got[i].id /\ served[j].id = got[j].id
      BY <1>4, <2>3 DEF Gives
    <3>2. <<turn, i>> = <<turn, j>>
      BY <1>7, <2>1, <2>2, <3>1
    <3> QED
      BY <3>2
  <2>4. CASE Vendor = "openai"
    <3>1. Labelled(served, i, got[i].id) /\ Labelled(served, j, got[j].id)
      BY <1>4, <2>4 DEF Gives
    <3>2. PICK k \in DOMAIN served : Rank(served, k) = i /\ got[i].id = served[k].id
      BY <1>7, <3>1 DEF Labelled
    <3>3. PICK m \in DOMAIN served : Rank(served, m) = j /\ got[j].id = served[m].id
      BY <1>7, <3>1 DEF Labelled
    <3>4. <<turn, k>> = <<turn, m>>
      BY <1>7, <2>2, <3>2, <3>3
    <3> QED
      BY <3>2, <3>3, <3>4
  <2> QED
    BY <2>3, <2>4
<1> QED
  BY <1>3, <1>5, <1>6, <1>7 DEF CallsComplete, got

\* The goroutine decides to say q.
LEMMA Says ==
  ASSUME StreamInv, queue = <<>>, sent' = sent, NEW q \in Seq(Events), queue' = q
  PROVE  /\ CallsOf(Said') = CallsOf(Said) \o CallsOf(q) /\ CallsOf(Said) \in Seq(AnyCall)
         /\ CallsOf(q) \in Seq(AnyCall)
         /\ q = <<>> => Said' = Said
         /\ \A e : e \in ToSet(Said') => e \in ToSet(Said) \/ e \in ToSet(q)
<1>1. sent \in Seq(Events)
  BY DEF StreamInv, StreamTypes
<1>2. Said = sent /\ Said' = sent \o q
  BY <1>1 DEF Said
<1>3. ASSUME NEW e, e \in ToSet(sent \o q) PROVE e \in ToSet(sent) \/ e \in ToSet(q)
  <2>1. PICK i \in DOMAIN (sent \o q) : e = (sent \o q)[i]
    BY <1>3 DEF ToSet
  <2>2. CASE i <= Len(sent)
    <3>1. i \in DOMAIN sent /\ e = sent[i]
      BY <1>1, <2>1, <2>2
    <3> QED
      BY <3>1 DEF ToSet
  <2>3. CASE ~(i <= Len(sent))
    <3>1. i - Len(sent) \in DOMAIN q /\ e = q[i - Len(sent)]
      BY <1>1, <2>1, <2>3
    <3> QED
      BY <3>1 DEF ToSet
  <2> QED
    BY <2>2, <2>3
<1>4. /\ CallsOf(sent \o q) = CallsOf(sent) \o CallsOf(q)
      /\ CallsOf(sent) \in Seq(AnyCall) /\ CallsOf(q) \in Seq(AnyCall)
  BY <1>1, CallsOfConcat
<1>5. q = <<>> => sent \o q = sent
  BY <1>1
<1> QED
  BY <1>2, <1>3, <1>4, <1>5

\* While it reads, it has not said done.
LEMMA ReadingNotDone == StreamInv => (goroutine \in {"opening", "reading"} => Done \notin ToSet(Said))
<1> SUFFICES ASSUME StreamInv, goroutine \in {"opening", "reading"}, Done \in ToSet(Said) PROVE FALSE
  OBVIOUS
<1>1. sent \in Seq(Events) /\ queue \in Seq(Events) /\ ~Over /\ \A i \in 1..Len(queue) : queue[i] # Done
  BY DEF StreamInv, StreamTypes, LastFirst, Terminals
<1>2. PICK i \in DOMAIN Said : Done = Said[i]
  BY DEF ToSet
<1>3. CASE i <= Len(sent)
  <2>1. i \in DOMAIN sent /\ Done = sent[i]
    BY <1>1, <1>2, <1>3 DEF Said
  <2> QED
    BY <1>1, <2>1 DEF Over, ToSet, Terminals
<1>4. CASE ~(i <= Len(sent))
  <2>1. i - Len(sent) \in 1..Len(queue) /\ Done = queue[i - Len(sent)]
    BY <1>1, <1>2, <1>4 DEF Said
  <2> QED
    BY <1>1, <2>1
<1> QED
  BY <1>3, <1>4
\* The call the accumulator leaves stands for the one it was in, whatever
\* began after it.
LEMMA FinishedGives ==
  ASSUME StreamInv, VendorCalls, NEW calls \in Seq(Served), Len(calls) >= Len(served),
         \A k \in DOMAIN served : calls[k] = served[k]
  PROVE  /\ Finished(calls) \in Seq(Events) /\ CallsOf(Finished(calls)) \in Seq(AnyCall)
         /\ current = 0 => CallsOf(Finished(calls)) = <<>>
         /\ current # 0 => /\ Len(CallsOf(Finished(calls))) = 1
                           /\ \A b : Gives(calls, b, Vendor, current, CallsOf(Finished(calls))[1])
<1>1. served \in Seq(Served) /\ current \in 0..Len(served) /\ Len(served) \in Nat /\ Len(calls) \in Nat
  BY DEF StreamInv, StreamTypes
<1>2. Finished(calls) \in Seq(Events)
  BY FinishedOpen, QueueOpen DEF StreamInv
<1>3. CallsOf(Finished(calls)) \in Seq(AnyCall)
  BY <1>2, CallsOfConcat
<1>4. CASE current = 0
  BY <1>2, <1>3, <1>4, CallsOfFew DEF Finished
<1>5. CASE current # 0
  <2> DEFINE d == [served[current] EXCEPT !.id = IdAt(calls, current)]
  <2>1. /\ Vendor = "openai" /\ Finished(calls) = <<Event("call", d)>>
        /\ current \in DOMAIN served /\ current \in DOMAIN calls /\ calls[current] = served[current]
        /\ served[current] \in Served
    BY <1>1, <1>5 DEF VendorCalls, Finished
  <2>2. d.id = IdAt(calls, current) /\ d = [calls[current] EXCEPT !.id = d.id]
    <3>2. "id" \in DOMAIN served[current]
      BY <2>1, ServedRecord
    <3>3. d.id = IdAt(calls, current)
      BY <3>2
    <3> QED
      BY <2>1, <3>3
  <2>3. Finished(calls)[1] = Event("call", d) /\ Len(Finished(calls)) = 1
    BY <2>1
  <2>4. d \in AnyCall
    <3>1. Event("call", d) \in Events
      <4>1. \A i \in 1..Len(Finished(calls)) : Finished(calls)[i] \in Events
        BY <1>2
      <4> HIDE DEF d
      <4> QED
        BY <2>3, <4>1
    <3>2. Event("call", d).call = d
      BY DEF Event
    <3> HIDE DEF d
    <3> QED
      BY <3>1, <3>2 DEF Events, AnyCall
  <2>5. CallsOf(Finished(calls)) = <<d>>
    BY <2>1, <2>4, CallsOfFew
  <2>6. Labelled(calls, current, d.id)
    BY <2>1, <2>2, FoundLabelled
  <2> HIDE DEF d
  <2>7. \A b : Gives(calls, b, Vendor, current, d)
    BY <2>1, <2>2, <2>6 DEF Gives
  <2> QED
    BY <1>2, <1>3, <1>5, <2>5, <2>7
<1> QED
  BY <1>4, <1>5

\* Of a message that is over, finished or broken off, every call is given.
LEMMA AtEndGives ==
  ASSUME StreamInv, NEW calls, calls = served \/ calls \in Assembled
  PROVE  /\ AtEnd(calls) \in Seq(Events) /\ CallsOf(AtEnd(calls)) \in Seq(AnyCall)
         /\ Vendor # "anthropic" => CallsOf(AtEnd(calls)) = <<>>
         /\ Vendor = "anthropic" =>
              /\ CallsOf(AtEnd(calls)) = calls /\ Len(calls) = Len(served)
              /\ DOMAIN calls = DOMAIN served
              /\ \A j \in DOMAIN served :
                   Gives(served, IF partial THEN Len(served) ELSE 0, Vendor, j, calls[j])
<1>1. /\ served \in Seq(Served) /\ Len(served) \in Nat /\ DOMAIN served = 1..Len(served)
      /\ served \in Seq(Sayable) /\ StreamTypes
  <2>1. Assembled # {} /\ StreamTypes
    BY DEF Assembled, BrokenOff, StreamInv
  <2>2. served \in Seq(Sayable)
    BY <2>1, AssembledCalls
  <2> QED
    BY <2>1, <2>2 DEF StreamTypes
<1>2. /\ calls \in Seq(Sayable) /\ Len(calls) = Len(served)
      /\ \A i \in DOMAIN served :
           calls[i] = served[i] \/ (partial /\ i = Len(served) /\ calls[i] \in BrokenOff(served[i]))
  BY <1>1, AssembledCalls
<1>3. calls \in Seq(AnyCall) /\ DOMAIN calls = DOMAIN served
  <2>1. Sayable \subseteq AnyCall
    BY DEF AnyCall
  <2> HIDE DEF AnyCall
  <2>2. calls = [i \in 1..Len(calls) |-> calls[i]] /\ \A i \in 1..Len(calls) : calls[i] \in AnyCall
    BY <1>2, <2>1
  <2> QED
    BY <1>1, <1>2, <2>2
<1>4. AtEnd(calls) \in Seq(Events) /\ CallsOf(AtEnd(calls)) = IF Vendor = "anthropic" THEN calls ELSE <<>>
  BY <1>3, CallsOfCalls, CallsOfFew DEF AtEnd
<1>5. ASSUME Vendor = "anthropic", NEW j \in DOMAIN served
      PROVE  Gives(served, IF partial THEN Len(served) ELSE 0, Vendor, j, calls[j])
  <2>1. served[j] \in Served
    BY <1>1
  <2>2. "id" \in DOMAIN served[j] /\ served[j] = [f \in DOMAIN served[j] |-> served[j][f]]
    BY <2>1, ServedRecord
  <2>3. served[j] = [served[j] EXCEPT !.id = served[j].id]
    BY <2>2
  <2>4. CASE calls[j] = served[j]
    BY <1>5, <2>3, <2>4 DEF Gives
  <2>5. CASE partial /\ j = Len(served) /\ calls[j] \in BrokenOff(served[j])
    <3>1. calls[j].id = served[j].id
      BY <2>2, <2>5 DEF BrokenOff
    <3> QED
      BY <1>5, <2>5, <3>1 DEF Gives
  <2> QED
    BY <1>2, <2>4, <2>5
<1> QED
  BY <1>2, <1>3, <1>4, <1>5, CallsOfFew

\* The goroutine reads: nothing it said is broken off, and what it says next
\* joins what it said.
LEMMA SaysGiven ==
  ASSUME StreamInv, Accounted, queue = <<>>, sent' = sent, request' = request,
         goroutine \in {"opening", "reading"}, goroutine = "opening" => sent = <<>>,
         \/ served' = served
         \/ \E x \in Served : served' = Append(served, x),
         NEW q \in Seq(Events), queue' = q,
         \A j \in DOMAIN CallsOf(q) :
           Gives(served', BrokenAt', Vendor, Len(CallsOf(Said)) + j, CallsOf(q)[j])
  PROVE  AllGiven(served', BrokenAt', Vendor', CallsOf(Said'))
<1>1. /\ CallsOf(Said') = CallsOf(Said) \o CallsOf(q) /\ CallsOf(Said) \in Seq(AnyCall)
      /\ CallsOf(q) \in Seq(AnyCall) /\ Vendor' = Vendor /\ served \in Seq(Served)
  BY Says DEF Vendor, StreamInv, StreamTypes
<1>2. AllGiven(served, 0, Vendor, CallsOf(Said))
  <2>1. CASE goroutine = "reading"
    BY <2>1 DEF Accounted, BrokenAt
  <2>2. CASE goroutine = "opening"
    <3>1. Said = <<>>
      BY <2>2 DEF Said
    <3>2. CallsOf(Said) = <<>> /\ DOMAIN <<>> = {}
      BY <3>1, CallsOfFew
    <3> QED
      BY <3>2 DEF AllGiven
  <2> QED
    BY <2>1, <2>2
<1>3. AllGiven(served', BrokenAt', Vendor, CallsOf(Said))
  <2>1. CASE \E x \in Served : served' = Append(served, x)
    BY <1>1, <1>2, <2>1, GivenKept
  <2>2. CASE served' = served
    <3>1. ASSUME NEW i \in DOMAIN CallsOf(Said) PROVE Gives(served, BrokenAt', Vendor, i, CallsOf(Said)[i])
      <4>1. Gives(served, 0, Vendor, i, CallsOf(Said)[i])
        BY <1>2 DEF AllGiven
      <4>2. i # 0
        BY <1>1, <4>1 DEF Gives
      <4> QED
        BY <4>1, <4>2 DEF Gives
    <3> QED
      BY <2>2, <3>1 DEF AllGiven
  <2> QED
    BY <2>1, <2>2
<1> QED
  BY <1>1, <1>3, GivenMore

\* One that ends without saying done owes nobody anything.
LEMMA EndsSilent ==
  ASSUME StreamInv, Accounted, queue = <<>>, sent' = sent, request' = request,
         goroutine \in {"opening", "reading"}, goroutine = "opening" => sent = <<>>,
         \/ served' = served
         \/ \E x \in Served : served' = Append(served, x),
         goroutine' = "ending", queue' \in {<<>>, <<Error>>}
  PROVE  Accounted'
<1>1. queue' \in Seq(Events) /\ Done \notin ToSet(queue') /\ CallsOf(queue') = <<>>
  <2>1. Error \in Events /\ Error # Done /\ Error.kind # "call"
    BY EventKinds DEF Error, Done, Event
  <2>2. ToSet(<<>>) = {} /\ ToSet(<<Error>>) = {Error}
    BY DEF ToSet
  <2>3. <<>> \in Seq(Events) /\ <<Error>> \in Seq(Events)
    BY <2>1
  <2>4. CASE queue' = <<>>
    BY <2>2, <2>3, <2>4, CallsOfFew
  <2>5. CASE queue' = <<Error>>
    BY <2>1, <2>2, <2>3, <2>5, CallsOfFew
  <2> QED
    BY <2>4, <2>5
<1>2. Done \notin ToSet(Said')
  BY <1>1, Says, ReadingNotDone
<1>3. DOMAIN CallsOf(queue') = {}
  BY <1>1
<1>4. AllGiven(served', BrokenAt', Vendor', CallsOf(Said'))
  BY <1>1, <1>3, SaysGiven
<1> QED
  BY <1>2, <1>4 DEF Accounted

\* One that goes on reading has said the calls it does not owe any more.
LEMMA ReadsOn ==
  ASSUME StreamInv, StreamInv', Accounted, queue = <<>>, sent' = sent, request' = request,
         goroutine \in {"opening", "reading"}, goroutine = "opening" => sent = <<>>,
         \/ served' = served
         \/ \E x \in Served : served' = Append(served, x),
         goroutine' = "reading", NEW q \in Seq(Events), queue' = q,
         \A j \in DOMAIN CallsOf(q) :
           \A b : Gives(served', b, Vendor, Len(CallsOf(Said)) + j, CallsOf(q)[j]),
         Len(CallsOf(Said)) + Len(CallsOf(q)) + Owed' = Len(served')
  PROVE  Accounted'
<1>1. AllGiven(served', BrokenAt', Vendor', CallsOf(Said'))
  BY SaysGiven
<1>2. Len(CallsOf(Said')) = Len(CallsOf(Said)) + Len(CallsOf(q))
  BY Says
<1>3. Done \notin ToSet(Said')
  <2>1. (StreamInv => (goroutine \in {"opening", "reading"} => Done \notin ToSet(Said)))'
    BY ReadingNotDone, PTL
  <2> QED
    BY <2>1
<1> QED
  BY <1>1, <1>2, <1>3 DEF Accounted

\* A chunk: the goroutine has seen that ctx is done, or reads on.
LEMMA ChunkAccounted ==
  ASSUME StreamInv, StreamInv', Accounted, NEW q \in Seq(Events), Chunk(q),
         \/ served' = served
         \/ \E x \in Served : served' = Append(served, x),
         \A j \in DOMAIN CallsOf(q) :
           \A b : Gives(served', b, Vendor, Len(CallsOf(Said)) + j, CallsOf(q)[j]),
         Len(CallsOf(Said)) + Len(CallsOf(q)) + Owed' = Len(served')
  PROVE  Accounted'
<1>1. goroutine = "reading" /\ queue = <<>> /\ sent' = sent /\ request' = request
  BY DEF Chunk, Reads, GoesOn, channel, diagnosis
<1>2. CASE CtxChecked
  <2>1. goroutine' = "ending" /\ queue' = <<>>
    BY <1>2 DEF Chunk, GoesOn
  <2> QED
    BY <1>1, <2>1, EndsSilent
<1>3. CASE ~CtxChecked
  <2>1. goroutine' = "reading" /\ queue' = q
    BY <1>3 DEF Chunk, GoesOn
  <2> QED
    BY <1>1, <2>1, ReadsOn
<1> QED
  BY <1>2, <1>3

\* Text: the accumulator leaves its call, which is said.
LEMMA TextAccounted ==
  ASSUME StreamInv, StreamInv', VendorCalls, Accounted, TextChunk
  PROVE  Accounted'
<1> DEFINE f == CallsOf(Finished(served))
           q == <<Delta>> \o Finished(served)
<1>1. /\ Chunk(q) /\ current' = 0 /\ served' = served /\ request' = request
      /\ goroutine = "reading" /\ served \in Seq(Served) /\ Len(served) \in Nat
      /\ current \in 0..Len(served)
  BY DEF TextChunk, Chunk, Reads, GoesOn, diagnosis, StreamInv, StreamTypes
<1>2. /\ Finished(served) \in Seq(Events) /\ f \in Seq(AnyCall)
      /\ current = 0 => f = <<>>
      /\ current # 0 => Len(f) = 1 /\ \A b : Gives(served, b, Vendor, current, f[1])
  BY <1>1, FinishedGives
<1>3. q \in Seq(Events) /\ CallsOf(q) = f
  <2>1. Delta \in Events /\ Delta.kind # "call"
    BY EventKinds DEF Delta, Event, Open
  <2>2. <<Delta>> \in Seq(Events) /\ CallsOf(<<Delta>>) = <<>>
    BY <2>1, CallsOfFew
  <2>3. CallsOf(q) = CallsOf(<<Delta>>) \o f
    BY <1>2, <2>2, CallsOfConcat
  <2>4. q \in Seq(Events)
    BY <1>2, <2>2
  <2> QED
    BY <1>2, <2>2, <2>3, <2>4, ConcatEmptySeq
<1>4. Len(CallsOf(Said)) \in Nat /\ Len(CallsOf(Said)) + Owed = Len(served)
  BY <1>1, SaidTyped DEF Accounted
<1> HIDE DEF f, q
<1>5. Owed' = IF Vendor = "anthropic" THEN Len(served) ELSE 0
  BY <1>1 DEF Owed, Vendor
<1>6. current # 0 => Vendor # "anthropic" /\ current = Len(served)
  BY DEF VendorCalls
<1>7. Len(CallsOf(Said)) + Len(f) + Owed' = Len(served)
  <2>1. CASE current = 0
    <3>1. Owed = Owed' /\ Len(f) = 0
      BY <1>2, <1>5, <2>1 DEF Owed
    <3> QED
      BY <1>4, <3>1
  <2>2. CASE current # 0
    <3>1. Owed' = 0 /\ Owed = 1 /\ Len(f) = 1
      BY <1>2, <1>5, <1>6, <2>2 DEF Owed
    <3> QED
      BY <1>4, <3>1
  <2> QED
    BY <2>1, <2>2
<1>8. ASSUME NEW j \in DOMAIN f, NEW b PROVE Gives(served, b, Vendor, Len(CallsOf(Said)) + j, f[j])
  <2>1. current # 0 /\ j = 1
    <3>1. f # <<>>
      BY <1>8
    <3> QED
      BY <1>2, <1>8, <3>1
  <2>2. Len(CallsOf(Said)) + 1 = current
    BY <1>1, <1>4, <1>6, <2>1 DEF Owed
  <2> QED
    BY <1>2, <2>1, <2>2
<1> QED
  BY <1>1, <1>3, <1>7, <1>8, ChunkAccounted

\* A call starts: OpenAI's accumulator leaves the one before.
LEMMA CallAccounted ==
  ASSUME StreamInv, StreamInv', VendorInv, VendorCalls, Accounted, NEW call \in Calls,
         NEW id \in {<<turn, Len(served) + 1>>, NoId}, CallChunk(call, id)
  PROVE  Accounted'
<1> DEFINE x     == WithId(call, id)
           calls == Append(served, x)
           f     == CallsOf(Finished(calls))
<1>1. /\ Chunk(Finished(calls)) /\ served' = calls /\ request' = request /\ Vendor # "ollama"
      /\ goroutine = "reading" /\ current' = IF Vendor = "openai" THEN Len(calls) ELSE 0
  BY DEF CallChunk, Chunk, Reads, GoesOn, diagnosis
<1>2. /\ served \in Seq(Served) /\ Len(served) \in Nat /\ current \in 0..Len(served) /\ turn \in Nat
      /\ Vendor \in {"openai", "anthropic"} /\ DOMAIN served = 1..Len(served)
  BY <1>1, LimitsAssumption DEF StreamInv, StreamTypes, PhaseInv, VendorInv, Vendors
<1>3. x \in Served
  <2>1. \A t, n \in Nat : WithId(call, <<t, n>>) \in Served
    BY DEF Served
  <2>2. Len(served) + 1 \in Nat
    BY <1>2
  <2> QED
    BY <1>2, <2>1, <2>2 DEF NoId
<1> HIDE DEF x
<1>4. /\ calls \in Seq(Served) /\ Len(calls) = Len(served) + 1
      /\ \A k \in DOMAIN served : calls[k] = served[k]
  BY <1>2, <1>3
<1> HIDE DEF calls
<1>5. /\ Finished(calls) \in Seq(Events) /\ f \in Seq(AnyCall)
      /\ current = 0 => f = <<>>
      /\ current # 0 => Len(f) = 1 /\ \A b : Gives(calls, b, Vendor, current, f[1])
  <2>1. Len(calls) >= Len(served)
    BY <1>2, <1>4
  <2>2. /\ Finished(calls) \in Seq(Events) /\ f \in Seq(AnyCall)
        /\ current = 0 => f = <<>>
        /\ current # 0 => Len(f) = 1
    BY <1>4, <2>1, FinishedGives
  <2>3. current # 0 => \A b : Gives(calls, b, Vendor, current, f[1])
    BY <1>4, <2>1, FinishedGives
  <2> QED
    BY <2>2, <2>3
<1>6. Len(CallsOf(Said)) \in Nat /\ Len(CallsOf(Said)) + Owed = Len(served)
  BY <1>1, SaidTyped DEF Accounted
<1>7. /\ Owed' = IF Vendor = "anthropic" THEN Len(calls) ELSE 1
      /\ current # 0 => Vendor = "openai" /\ current = Len(served)
  <2>1. Vendor' = Vendor /\ Len(calls) # 0 /\ "openai" # "anthropic"
    BY <1>1, <1>2, <1>4 DEF Vendor
  <2>2. current' # 0 <=> Vendor = "openai"
    BY <1>1, <2>1
  <2>3. Owed' = IF Vendor = "anthropic" THEN Len(calls) ELSE 1
    <3>1. CASE Vendor = "anthropic"
      BY <1>1, <2>1, <3>1 DEF Owed
    <3>2. CASE Vendor = "openai"
      BY <2>1, <2>2, <3>2 DEF Owed
    <3> QED
      BY <1>2, <2>1, <3>1, <3>2
  <2>4. current # 0 => Vendor = "openai" /\ current = Len(served)
    BY DEF VendorCalls
  <2> QED
    BY <2>3, <2>4
<1> HIDE DEF f
<1>8. Len(CallsOf(Said)) + Len(f) + Owed' = Len(calls)
  <2>1. CASE current = 0
    <3>1. Len(f) = 0
      BY <1>5, <2>1
    <3>2. CASE Vendor = "anthropic"
      BY <1>2, <1>4, <1>6, <1>7, <3>1, <3>2 DEF Owed
    <3>3. CASE Vendor = "openai"
      BY <1>2, <1>4, <1>6, <1>7, <2>1, <3>1, <3>3 DEF Owed
    <3> QED
      BY <1>2, <3>2, <3>3
  <2>2. CASE current # 0
    BY <1>2, <1>4, <1>5, <1>6, <1>7, <2>2 DEF Owed
  <2> QED
    BY <2>1, <2>2
<1>9. ASSUME NEW j \in DOMAIN f, NEW b PROVE Gives(calls, b, Vendor, Len(CallsOf(Said)) + j, f[j])
  <2>1. current # 0 /\ j = 1
    <3>1. f # <<>>
      BY <1>9
    <3> QED
      BY <1>5, <1>9, <3>1
  <2>2. Len(CallsOf(Said)) + 1 = current
    BY <1>2, <1>6, <1>7, <2>1 DEF Owed
  <2> QED
    BY <1>5, <2>1, <2>2
<1> QED
  BY <1>1, <1>3, <1>5, <1>8, <1>9, ChunkAccounted DEF f, calls

\* One that ends has said all the calls it has to.
LEMMA EndsDone ==
  ASSUME StreamInv, Accounted, goroutine = "reading", queue = <<>>, sent' = sent,
         request' = request, goroutine' = "ending", served' = served,
         NEW q \in Seq(Events), queue' = q,
         Len(CallsOf(Said)) + Len(CallsOf(q)) = Len(served) - (IF current' = 0 THEN 0 ELSE 1),
         \A j \in DOMAIN CallsOf(q) :
           Gives(served, BrokenAt', Vendor, Len(CallsOf(Said)) + j, CallsOf(q)[j])
  PROVE  Accounted'
<1>1. AllGiven(served', BrokenAt', Vendor', CallsOf(Said'))
  BY SaysGiven
<1>2. Len(CallsOf(Said')) = Len(CallsOf(Said)) + Len(CallsOf(q))
  BY Says
<1> QED
  BY <1>1, <1>2 DEF Accounted

\* Done after some events.
LEMMA ThenDone ==
  ASSUME NEW q \in Seq(Events)
  PROVE  q \o <<Done>> \in Seq(Events) /\ CallsOf(q \o <<Done>>) = CallsOf(q)
<1>1. Done \in Events /\ Done.kind # "call"
  BY EventKinds DEF Done, Event
<1>2. <<Done>> \in Seq(Events) /\ CallsOf(<<Done>>) = <<>>
  BY <1>1, CallsOfFew
<1>3. CallsOf(q \o <<Done>>) = CallsOf(q) \o <<>> /\ CallsOf(q) \in Seq(AnyCall)
  BY <1>2, CallsOfConcat
<1>4. q \o <<Done>> \in Seq(Events)
  BY <1>2
<1> QED
  BY <1>3, <1>4, ConcatEmptySeq

\* The end of a response: all that is owed is said before done.
LEMMA FinishAccounted ==
  ASSUME StreamInv, VendorCalls, Accounted, ServerFinishes
  PROVE  Accounted'
<1> DEFINE f == CallsOf(Finished(served))
           a == CallsOf(AtEnd(served))
           q == Finished(served) \o AtEnd(served)
<1>0. /\ goroutine = "reading" /\ queue = <<>> /\ sent' = sent /\ served' = served
      /\ goroutine' = "ending" /\ request' = request /\ current' = 0 /\ ~partial /\ partial' = partial
      /\ served \in Seq(Served) /\ Len(served) \in Nat /\ current \in 0..Len(served)
      /\ DOMAIN served = 1..Len(served)
  BY DEF ServerFinishes, Reads, GoesOn, channel, diagnosis, StreamInv, StreamTypes
<1>1. CASE CtxChecked
  <2>1. queue' = <<>>
    BY <1>1 DEF ServerFinishes, GoesOn
  <2> QED
    BY <1>0, <2>1, EndsSilent
<1>2. CASE ~CtxChecked
  <2>1. queue' = q \o <<Done>>
    BY <1>2 DEF ServerFinishes, GoesOn
  <2>2. /\ Finished(served) \in Seq(Events) /\ f \in Seq(AnyCall)
        /\ current = 0 => f = <<>>
        /\ current # 0 => Len(f) = 1 /\ \A b : Gives(served, b, Vendor, current, f[1])
    BY <1>0, FinishedGives
  <2>3. /\ AtEnd(served) \in Seq(Events) /\ a \in Seq(AnyCall)
        /\ Vendor # "anthropic" => a = <<>>
        /\ Vendor = "anthropic" => /\ a = served
                                   /\ \A j \in DOMAIN served : Gives(served, 0, Vendor, j, a[j])
    BY <1>0, AtEndGives
  <2>4. q \in Seq(Events) /\ CallsOf(q) = f \o a
    BY <2>2, <2>3, CallsOfConcat, ConcatProperties
  <2>5. q \o <<Done>> \in Seq(Events) /\ CallsOf(q \o <<Done>>) = f \o a
    BY <2>4, ThenDone
  <2>6. Len(CallsOf(Said)) \in Nat /\ Len(CallsOf(Said)) + Owed = Len(served)
    BY <1>0, SaidTyped DEF Accounted
  <2>7. BrokenAt' = 0
    BY <1>0 DEF BrokenAt
  <2> HIDE DEF f, a, q
  <2>8. CASE Vendor = "anthropic"
    <3>1. f = <<>> /\ a = served /\ f \o a = served /\ Len(CallsOf(Said)) = 0
      BY <1>0, <2>2, <2>3, <2>6, <2>8, ConcatEmptySeq DEF VendorCalls, Owed
    <3>2. \A j \in DOMAIN served : 0 + j = j
      BY <1>0
    <3>3. \A j \in DOMAIN (f \o a) : Gives(served, BrokenAt', Vendor, Len(CallsOf(Said)) + j, (f \o a)[j])
      BY <2>3, <2>7, <2>8, <3>1, <3>2
    <3>4. Len(CallsOf(Said)) + Len(f \o a) = Len(served) - (IF current' = 0 THEN 0 ELSE 1)
      BY <1>0, <3>1
    <3> QED
      BY <1>0, <2>1, <2>5, <3>3, <3>4, EndsDone
  <2>9. CASE Vendor # "anthropic"
    <3>1. a = <<>> /\ f \o a = f
      BY <2>2, <2>3, <2>9, ConcatEmptySeq
    <3>2. CASE current = 0
      <4>1. f = <<>> /\ Owed = 0 /\ DOMAIN f = {} /\ Len(f) = 0
        BY <2>2, <2>9, <3>2 DEF Owed
      <4>2. Len(CallsOf(Said)) + Len(f) = Len(served) - 0
        BY <1>0, <2>6, <4>1
      <4> QED
        BY <1>0, <2>1, <2>5, <3>1, <4>1, <4>2, EndsDone
    <3>3. CASE current # 0
      <4>1. Owed = 1 /\ Len(f) = 1 /\ current = Len(served) /\ DOMAIN f = {1}
        BY <2>2, <2>9, <3>3 DEF Owed, VendorCalls
      <4>2. Len(CallsOf(Said)) + 1 = current /\ Len(CallsOf(Said)) + Len(f) = Len(served) - 0
        <5>1. Len(served) \in Nat
          BY <1>0
        <5> QED
          BY <2>6, <4>1, <5>1
      <4>3. \A j \in DOMAIN f : Gives(served, BrokenAt', Vendor, Len(CallsOf(Said)) + j, f[j])
        BY <2>2, <3>3, <4>1, <4>2
      <4> QED
        BY <1>0, <2>1, <2>5, <3>1, <4>2, <4>3, EndsDone
    <3> QED
      BY <3>2, <3>3
  <2> QED
    BY <2>8, <2>9
<1> QED
  BY <1>1, <1>2

\* A connection that is closed: Anthropic's calls are said, the last one maybe
\* broken off; OpenAI's accumulator keeps the one it is in.
LEMMA DropAccounted ==
  ASSUME StreamInv, VendorCalls, Accounted, ServerDrops
  PROVE  Accounted'
<1>0. /\ goroutine = "reading" /\ queue = <<>> /\ sent' = sent /\ served' = served
      /\ goroutine' = "ending" /\ request' = request /\ current' = current /\ partial' = partial
      /\ served \in Seq(Served) /\ Len(served) \in Nat /\ current \in 0..Len(served)
      /\ DOMAIN served = 1..Len(served)
  BY DEF ServerDrops, Reads, GoesOn, channel, diagnosis, response, StreamInv, StreamTypes
<1>1. PICK calls \in Assembled : queue' = AtEnd(calls) \o <<Done>>
  BY DEF ServerDrops, GoesOn
<1> DEFINE a == CallsOf(AtEnd(calls))
           b == IF partial THEN Len(served) ELSE 0
<1>2. /\ AtEnd(calls) \in Seq(Events) /\ a \in Seq(AnyCall)
      /\ Vendor # "anthropic" => a = <<>>
      /\ Vendor = "anthropic" =>
           /\ a = calls /\ Len(calls) = Len(served) /\ DOMAIN calls = DOMAIN served
           /\ \A j \in DOMAIN served : Gives(served, b, Vendor, j, calls[j])
  BY AtEndGives
<1>3. AtEnd(calls) \o <<Done>> \in Seq(Events) /\ CallsOf(AtEnd(calls) \o <<Done>>) = a
  BY <1>2, ThenDone
<1>4. Len(CallsOf(Said)) \in Nat /\ Len(CallsOf(Said)) + Owed = Len(served)
  BY <1>0, SaidTyped DEF Accounted
<1>5. BrokenAt' = b
  BY <1>0 DEF BrokenAt
<1> HIDE DEF a, b
<1>6. CASE Vendor = "anthropic"
  <2>1. /\ Len(CallsOf(Said)) = 0 /\ current = 0 /\ a = calls /\ DOMAIN a = DOMAIN served
        /\ Len(a) = Len(served)
    BY <1>0, <1>2, <1>4, <1>6 DEF Owed, VendorCalls
  <2>2. \A j \in DOMAIN served : 0 + j = j
    BY <1>0
  <2>3. \A j \in DOMAIN a : Gives(served, BrokenAt', Vendor, Len(CallsOf(Said)) + j, a[j])
    BY <1>2, <1>5, <1>6, <2>1, <2>2
  <2>4. Len(CallsOf(Said)) + Len(a) = Len(served) - (IF current' = 0 THEN 0 ELSE 1)
    BY <1>0, <2>1
  <2> QED
    BY <1>0, <1>1, <1>3, <2>3, <2>4, EndsDone
<1>7. CASE Vendor # "anthropic"
  <2>1. a = <<>> /\ DOMAIN a = {} /\ Len(a) = 0
    BY <1>2, <1>7
  <2>2. Len(CallsOf(Said)) + Len(a) = Len(served) - (IF current' = 0 THEN 0 ELSE 1)
    <3>1. current' = current /\ Len(served) \in Nat
      BY <1>0
    <3>2. CASE current = 0
      <4>1. Owed = 0
        BY <1>7, <3>2 DEF Owed
      <4> QED
        BY <1>4, <2>1, <3>1, <3>2, <4>1
    <3>3. CASE current # 0
      <4>1. Owed = 1
        BY <1>7, <3>3 DEF Owed
      <4> QED
        BY <1>4, <2>1, <3>1, <3>3, <4>1
    <3> QED
      BY <3>2, <3>3
  <2> QED
    BY <1>0, <1>1, <1>3, <2>1, <2>2, EndsDone
<1> QED
  BY <1>6, <1>7

\* A read that fails: only Ollama says done, and it has no calls.
LEMMA FailAccounted ==
  ASSUME StreamInv, VendorCalls, Accounted, ReadFails
  PROVE  Accounted'
<1>0. /\ goroutine = "reading" /\ queue = <<>> /\ sent' = sent /\ goroutine' = "ending"
      /\ served' = served /\ current' = current /\ request' = request
  BY DEF ReadFails, Reads, GoesOn, channel, response, diagnosis
<1>1. CASE queue' = <<Error>>
  BY <1>0, <1>1, EndsSilent
<1>2. CASE queue' # <<Error>>
  <2>1. queue' = <<Done>> /\ Vendor = "ollama"
    BY <1>2 DEF ReadFails, GoesOn
  <2>2. current = 0 /\ Owed = 0 /\ served = <<>>
    BY <2>1 DEF VendorCalls, Owed
  <2>3. Done \in Events /\ Done.kind # "call" /\ <<Done>> \in Seq(Events)
    BY EventKinds DEF Done, Event
  <2>4. CallsOf(<<Done>>) = <<>> /\ DOMAIN <<>> = {} /\ Len(<<>>) = 0
    BY <2>3, CallsOfFew
  <2>5. Len(CallsOf(Said)) \in Nat /\ Len(CallsOf(Said)) + Owed = Len(served)
    BY <1>0, SaidTyped DEF Accounted
  <2>6. Len(CallsOf(Said)) + Len(CallsOf(<<Done>>)) = Len(served) - (IF current' = 0 THEN 0 ELSE 1)
    BY <1>0, <2>2, <2>4, <2>5
  <2> QED
    BY <1>0, <2>1, <2>3, <2>4, <2>6, EndsDone
<1> QED
  BY <1>1, <1>2

\* Every step of the server keeps the account.
LEMMA ServerAccounted ==
  ASSUME StreamInv, StreamInv', VendorInv, VendorCalls, Accounted, Server
  PROVE  Accounted'
<1>e. <<>> \in Seq(Events) /\ CallsOf(<<>>) = <<>> /\ DOMAIN <<>> = {} /\ Len(<<>>) = 0
  BY CallsOfFew
<1>t. CallsOf(Said) \in Seq(AnyCall) /\ Len(CallsOf(Said)) \in Nat
  BY SaidTyped
<1>1. CASE Accept
  <2>1. /\ goroutine = "opening" /\ goroutine' = "reading" /\ queue' = <<>> /\ sent' = sent
        /\ served' = served /\ current' = current /\ request' = request
    BY <1>1 DEF Accept, GoesOn, channel, response, diagnosis
  <2>2. queue = <<>> /\ sent = <<>> /\ served = <<>> /\ current = 0
    BY <2>1 DEF StreamInv, LastFirst, VendorCalls
  <2>3. Said = <<>> /\ Len(served) = 0
    BY <2>2 DEF Said
  <2>4. Owed' = 0
    BY <2>1, <2>2, <2>3 DEF Owed
  <2>5. Len(CallsOf(Said)) + Len(CallsOf(<<>>)) + Owed' = Len(served')
    BY <1>e, <2>1, <2>3, <2>4
  <2> QED
    BY <1>e, <2>1, <2>2, <2>5, ReadsOn
<1>2. CASE Refuse
  <2>1. /\ goroutine = "opening" /\ goroutine' = "ending" /\ queue' = <<Error>> /\ sent' = sent
        /\ served' = served /\ request' = request
    BY <1>2 DEF Refuse, GoesOn, channel, response, diagnosis
  <2>2. queue = <<>> /\ sent = <<>>
    BY <2>1 DEF StreamInv, LastFirst
  <2> QED
    BY <2>1, <2>2, EndsSilent
<1>3. CASE Ping \/ ArgsChunk
  <2>1. /\ goroutine = "reading" /\ queue = <<>> /\ sent' = sent /\ queue' = <<>>
        /\ served' = served /\ current' = current /\ request' = request
        /\ goroutine' \in {"reading", "ending"}
    BY <1>3 DEF Ping, ArgsChunk, Reads, GoesOn, channel, response, diagnosis
  <2>2. CASE goroutine' = "ending"
    BY <2>1, <2>2, EndsSilent
  <2>3. CASE goroutine' = "reading"
    <3>1. Owed' = Owed /\ Len(CallsOf(Said)) + Owed = Len(served)
      BY <2>1 DEF Owed, Vendor, Accounted
    <3>2. Len(CallsOf(Said)) + Len(CallsOf(<<>>)) + Owed' = Len(served')
      BY <1>e, <1>t, <2>1, <3>1
    <3> QED
      BY <1>e, <2>1, <2>3, <3>2, ReadsOn
  <2> QED
    BY <2>1, <2>2, <2>3
<1>4. ASSUME NEW call \in Calls, NEW id \in {<<turn, Len(served) + 1>>, NoId},
             CallChunk(call, id)
      PROVE  Accounted'
  BY <1>4, CallAccounted
<1> QED
  BY <1>1, <1>2, <1>3, <1>4, TextAccounted, FinishAccounted, DropAccounted, FailAccounted DEF Server

\* An event is sent: nothing is said that was not.
LEMMA SendAccounted ==
  ASSUME StreamInv, Accounted, Send
  PROVE  Accounted'
<1>1. /\ sent' = Append(sent, Head(queue)) /\ queue' = Tail(queue) /\ queue # <<>>
      /\ sent \in Seq(Events) /\ queue \in Seq(Events)
      /\ goroutine' = goroutine /\ served' = served /\ current' = current /\ request' = request
      /\ partial' = partial
  BY DEF Send, response, diagnosis, StreamInv, StreamTypes
<1>2. Said' = Said
  <2>1. Append(sent, Head(queue)) \o Tail(queue) = sent \o queue
    BY <1>1
  <2> QED
    BY <1>1, <2>1 DEF Said
<1>3. BrokenAt' = BrokenAt /\ Vendor' = Vendor /\ Owed' = Owed
  BY <1>1 DEF BrokenAt, Vendor, Owed
<1> QED
  BY <1>1, <1>2, <1>3 DEF Accounted

\* A send given up and a channel closed: done is not among what is left.
LEMMA StopAccounted ==
  ASSUME StreamInv, Accounted, SendGivesUp \/ CloseOut
  PROVE  Accounted'
<1>0. /\ sent' = sent /\ served' = served /\ current' = current /\ request' = request
      /\ partial' = partial /\ goroutine' # "reading" /\ Vendor' = Vendor
      /\ sent \in Seq(Events) /\ queue \in Seq(Events) /\ served \in Seq(Served)
  BY DEF SendGivesUp, CloseOut, GoesOn, channel, response, diagnosis, Vendor, StreamInv, StreamTypes
<1>1. CASE SendGivesUp
  <2>1. queue' = <<>> /\ ~Over
    BY <1>1, SendGivesUpStep DEF SendGivesUp, GoesOn
  <2>2. Said' = sent
    BY <1>0, <2>1 DEF Said
  <2>3. Done \notin ToSet(Said')
    BY <2>1, <2>2 DEF Over, Terminals
  <2>4. /\ CallsOf(Said) = CallsOf(sent) \o CallsOf(queue)
        /\ CallsOf(sent) \in Seq(AnyCall) /\ CallsOf(queue) \in Seq(AnyCall)
    BY <1>0, CallsOfConcat DEF Said
  <2>5. \A i \in DOMAIN CallsOf(sent) : i \in DOMAIN CallsOf(Said) /\ CallsOf(Said)[i] = CallsOf(sent)[i]
    BY <2>4
  <2>6. AllGiven(served', BrokenAt', Vendor', CallsOf(sent))
    <3> SUFFICES ASSUME NEW i \in DOMAIN CallsOf(sent)
                 PROVE  Gives(served', BrokenAt', Vendor', i, CallsOf(sent)[i])
      BY DEF AllGiven
    <3>1. Gives(served, BrokenAt, Vendor, i, CallsOf(sent)[i])
      BY <2>5 DEF Accounted, AllGiven
    <3>2. i \in DOMAIN served /\ i # 0
      BY <1>0, <3>1 DEF Gives
    <3>3. i = BrokenAt => i = BrokenAt'
      BY <1>0, <3>2 DEF BrokenAt
    <3> QED
      BY <1>0, <3>1, <3>3 DEF Gives
  <2> QED
    BY <1>0, <2>2, <2>3, <2>6 DEF Accounted
<1>2. CASE CloseOut
  <2>1. queue' = queue /\ goroutine = "ending"
    BY <1>2 DEF CloseOut, GoesOn
  <2>2. Said' = Said /\ BrokenAt' = BrokenAt
    BY <1>0, <2>1 DEF Said, BrokenAt
  <2> QED
    BY <1>0, <2>2 DEF Accounted
<1> QED
  BY <1>1, <1>2

\* A new request: nothing is said yet, and nothing was called.
LEMMA StreamAccounted ==
  ASSUME NEW c, Stream(c)
  PROVE  VendorCalls' /\ Accounted'
<1>1. /\ goroutine' = "opening" /\ served' = <<>> /\ current' = 0 /\ queue' = <<>> /\ sent' = <<>>
  BY DEF Stream
<1>2. Said' = <<>> /\ ToSet(Said') = {} /\ DOMAIN served' = {}
  BY <1>1 DEF Said, ToSet
<1>3. CallsOf(Said') = <<>> /\ DOMAIN CallsOf(Said') = {}
  BY <1>2, CallsOfFew
<1> QED
  BY <1>1, <1>2, <1>3 DEF VendorCalls, Accounted, AllGiven

\* Every step keeps the account.
LEMMA AccountedStep ==
  StreamInv /\ StreamInv' /\ CallsInv /\ [Next]_vars => Accounted'
<1> SUFFICES ASSUME StreamInv, StreamInv', CallsInv, [Next]_vars PROVE Accounted'
  OBVIOUS
<1>0. VendorInv /\ VendorCalls /\ Accounted
  BY DEF CallsInv
<1>1. ASSUME UNCHANGED <<request, served, partial, current, goroutine, sent, queue>> PROVE Accounted'
  <2>1. Said' = Said /\ Owed' = Owed /\ Vendor' = Vendor /\ BrokenAt' = BrokenAt
    BY <1>1 DEF Said, Owed, Vendor, BrokenAt
  <2> QED
    BY <1>0, <1>1, <2>1 DEF Accounted
<1>2. CASE Moves \/ UNCHANGED vars
  BY <1>1, <1>2 DEF Moves, StartUp, SwitchProfile, Unselected, Ask, Receive, EndSession, Cancel,
                    vars, diagnosis, response, channel
<1>3. CASE NextTurn
  BY <1>3, StreamAccounted DEF NextTurn
<1>4. ASSUME NEW o, NEW c, Begin(o, c) PROVE Accounted'
  BY <1>1, <1>4, StreamAccounted DEF Begin, response, channel
<1>5. CASE Goroutine
  BY <1>0, <1>5, SendAccounted, StopAccounted DEF Goroutine
<1> QED
  BY <1>0, <1>2, <1>3, <1>4, <1>5, ServerAccounted, NextParts

\* Every step keeps to the calls a vendor may make, and to their IDs.
LEMMA VendorCallsStep == StreamInv /\ VendorCalls /\ [Next]_vars => VendorCalls'
<1> SUFFICES ASSUME StreamInv, VendorCalls, [Next]_vars PROVE VendorCalls'
  OBVIOUS
<1>1. ASSUME UNCHANGED <<request, turn, served>>, current' \in {0, current},
             goroutine' = goroutine \/ goroutine' # "opening"
      PROVE  VendorCalls'
  BY <1>1 DEF VendorCalls, Vendor
<1>2. CASE Moves \/ UNCHANGED vars
  BY <1>1, <1>2 DEF Moves, StartUp, SwitchProfile, Unselected, Ask, Receive, EndSession, Cancel,
                    vars, diagnosis, response
<1>3. CASE NextTurn
  BY <1>3, StreamAccounted DEF NextTurn
<1>4. ASSUME NEW o, NEW c, Begin(o, c) PROVE VendorCalls'
  <2>1. CASE \E conv : Stream(conv)
    BY <2>1, StreamAccounted
  <2>2. CASE UNCHANGED <<messages, turn, request, goroutine, response, queue, channel>>
    BY <1>1, <2>2 DEF response
  <2> QED
    BY <1>4, <2>1, <2>2 DEF Begin
<1>5. CASE Goroutine
  BY <1>1, <1>5 DEF Goroutine, Send, SendGivesUp, CloseOut, GoesOn, response, diagnosis
<1>6. CASE Accept \/ Refuse \/ ArgsChunk \/ Ping \/ ServerDrops \/ ReadFails
  BY <1>1, <1>6 DEF Accept, Refuse, ArgsChunk, Ping, ServerDrops, ReadFails, GoesOn, response, diagnosis
<1>7. CASE ServerFinishes \/ TextChunk
  BY <1>1, <1>7 DEF ServerFinishes, TextChunk, Chunk, GoesOn, diagnosis
<1>8. ASSUME NEW call \in Calls, NEW id \in {<<turn, Len(served) + 1>>, NoId},
             CallChunk(call, id)
      PROVE  VendorCalls'
  <2> DEFINE x == WithId(call, id)
  <2>1. /\ Vendor # "ollama" /\ UNCHANGED <<request, turn>> /\ goroutine' # "opening"
        /\ served' = Append(served, x)
        /\ current' = IF Vendor = "openai" THEN Len(served') ELSE 0
    BY <1>8 DEF CallChunk, Chunk, GoesOn, diagnosis
  <2>2. x.id = id /\ id \in {<<turn, Len(served) + 1>>, NoId}
    BY DEF WithId
  <2> HIDE DEF x
  <2>3. /\ Len(served') = Len(served) + 1 /\ Len(served) \in Nat
        /\ \A k \in DOMAIN served' : \/ k \in DOMAIN served /\ served'[k] = served[k]
                                     \/ k = Len(served) + 1 /\ served'[k] = x
    <3>1. served \in Seq(Served)
      BY DEF StreamInv, StreamTypes
    <3> HIDE DEF Served
    <3> QED
      BY <2>1, <3>1
  <2>4. \A k \in DOMAIN served' : served'[k].id \in {NoId, <<turn', k>>}
    BY <2>1, <2>2, <2>3 DEF VendorCalls
  <2>5. Vendor' = Vendor
    BY <2>1 DEF Vendor
  <2> QED
    BY <2>1, <2>3, <2>4, <2>5 DEF VendorCalls
<1> QED
  BY <1>2, <1>3, <1>4, <1>5, <1>6, <1>7, <1>8, NextParts DEF Server

\* Every step keeps requests and goroutines with a vendor.
LEMMA VendorStep == StreamInv /\ VendorInv /\ [Next]_vars => VendorInv'
<1> SUFFICES ASSUME StreamInv, VendorInv, [Next]_vars PROVE VendorInv'
  OBVIOUS
<1>1. ASSUME UNCHANGED <<profile, session, request>>, phase = "idle" => phase' = "idle",
             goroutine = "none" => goroutine' = "none"
      PROVE  VendorInv'
  BY <1>1 DEF VendorInv, Vendor
<1>2. ASSUME profile'.provider \in Vendors \union {"nil"},
             UNCHANGED <<session, phase, request, goroutine>>
      PROVE  VendorInv'
  BY <1>2 DEF VendorInv, Vendor
<1>3. CASE StartUp
  <2>1. profile' = profile \/ \E n, p : profile' = Selected(n, p)
    BY <1>3 DEF StartUp
  <2>2. profile'.provider \in Vendors \union {"nil"}
    BY <2>1, ProviderMade DEF Selected, VendorInv
  <2> QED
    BY <1>2, <1>3, <2>2 DEF StartUp, Unselected, diagnosis
<1>4. ASSUME NEW name, SwitchProfile(name) PROVE VendorInv'
  <2>1. profile'.provider \in Vendors \union {"nil"}
    BY <1>4, ProviderMade DEF SwitchProfile, Selected
  <2> QED
    BY <1>2, <1>4, <2>1 DEF SwitchProfile, Unselected, diagnosis
<1>5. CASE Ask
  <2>1. /\ session'.provider \in Vendors /\ UNCHANGED <<profile, request, goroutine>>
    BY <1>5 DEF Ask, VendorInv
  <2> QED
    BY <2>1 DEF VendorInv, Vendor
<1>6. ASSUME NEW c, Stream(c), UNCHANGED <<profile, session>>, phase' \in {phase, "turn"},
             phase # "idle"
      PROVE  VendorInv'
  <2>1. request'.provider = session.provider
    BY <1>6 DEF Stream, ProviderAsked
  <2> QED
    BY <1>6, <2>1 DEF VendorInv, Vendor
<1>7. CASE NextTurn
  <2>1. /\ \E c : Stream(c)
        /\ UNCHANGED <<profile, session, phase>> /\ phase # "idle"
    BY <1>7 DEF NextTurn, Drained
  <2> QED
    BY <1>6, <2>1
<1>8. ASSUME NEW o, NEW c, Begin(o, c) PROVE VendorInv'
  BY <1>1, <1>6, <1>8 DEF Begin
<1>9. CASE Receive \/ EndSession \/ UNCHANGED vars
  BY <1>1, <1>9 DEF Receive, EndSession, vars, diagnosis
<1>10. ASSUME NEW how, Cancel(how) PROVE VendorInv'
  BY <1>1, <1>10 DEF Cancel, diagnosis
<1>11. CASE Goroutine
  <2>1. goroutine # "none"
    BY <1>11 DEF Goroutine, Send, SendGivesUp, CloseOut, StreamInv, LastFirst
  <2>2. UNCHANGED <<profile, session, phase, request>>
    BY <1>11 DEF Goroutine, Send, SendGivesUp, CloseOut, GoesOn, diagnosis
  <2> QED
    BY <1>1, <2>1, <2>2
<1>12. CASE Server
  <2>1. CASE Accept \/ Refuse \/ ArgsChunk \/ Ping \/ ServerFinishes \/ ServerDrops \/ ReadFails
    BY <1>1, <2>1 DEF Accept, Refuse, ArgsChunk, Ping, ServerFinishes, ServerDrops, ReadFails, Reads, GoesOn,
                      diagnosis
  <2>2. CASE TextChunk
    BY <1>1, <2>2 DEF TextChunk, Chunk, Reads, GoesOn, diagnosis
  <2>3. ASSUME NEW call, NEW id, CallChunk(call, id) PROVE VendorInv'
    BY <1>1, <2>3 DEF CallChunk, Chunk, Reads, GoesOn, diagnosis
  <2> QED
    BY <1>12, <2>1, <2>2, <2>3 DEF Server
<1> QED
  BY <1>3, <1>4, <1>5, <1>7, <1>8, <1>9, <1>10, <1>11, <1>12 DEF Next

\* Nothing is called before the first request.
LEMMA InitCallsInv == Init => CallsInv
<1> SUFFICES ASSUME Init PROVE CallsInv
  OBVIOUS
<1>1. /\ profile.provider = "nil" /\ phase = "idle" /\ goroutine = "none"
      /\ served = <<>> /\ current = 0 /\ Said = <<>>
  BY DEF Init, Said
<1>2. ToSet(Said) = {} /\ DOMAIN served = {}
  BY <1>1 DEF ToSet
<1>3. CallsOf(Said) = <<>> /\ DOMAIN CallsOf(Said) = {}
  BY <1>1, CallsOfFew
<1> QED
  BY <1>1, <1>2, <1>3 DEF CallsInv, VendorInv, VendorCalls, Accounted, AllGiven

\* What the goroutine said are the first calls the model made.
LEMMA DiagnoseCallsInv == Spec => [](StreamInv /\ CallsInv)
<1>1. StreamInv /\ StreamInv' /\ CallsInv /\ [Next]_vars => CallsInv'
  BY VendorStep, VendorCallsStep, AccountedStep DEF CallsInv
<1> QED
  BY <1>1, InitCallsInv, DiagnoseStreamInv, PTL DEF Spec

\* Once a response was announced done, the calls the session got are those the
\* model made, in order: none is lost but the one OpenAI's accumulator was in
\* when the connection closed, none is altered but one of Anthropic's that
\* broke off there.  They have their own IDs whenever the server gave them all
\* a name and an ID, and no two the same ID even if it did not, whatever
\* fragments they arrive in and whenever ctx is cancelled (runStream of
\* anthropic.go, openai.go and ollama.go, toolCallIDFor, sendEvent).
THEOREM DiagnoseCallsComplete == Spec => []CallsComplete
<1>1. StreamInv /\ CallsInv => CallsComplete
  BY AccountedComplete DEF CallsInv
<1> QED
  BY <1>1, DiagnoseCallsInv, PTL
-----------------------------------------------------------------------------
(* Requests.                                                               *)

ID    == {c.id : c \in AnyCall}
Roles == {"system", "user", "assistant", "tool"}
Wires == [role : Roles, calls : Seq(ID), answers : Seq(ID)]

CallsIn   == [m \in Wires |-> m.calls]
AnswersIn == [m \in Wires |-> m.answers]

\* The two sides CallsAnswered compares.
LEMMA WireSides ==
  /\ CallsIn \in Listings(Wires, ID) /\ AnswersIn \in Listings(Wires, ID)
  /\ \A wire \in Seq(Wires) :
       /\ FlattenSeq([i \in DOMAIN wire |-> wire[i].calls]) = FlattenSeq(Mapped(CallsIn, wire))
       /\ FlattenSeq([i \in DOMAIN wire |-> wire[i].answers]) = FlattenSeq(Mapped(AnswersIn, wire))
<1>1. CallsIn \in Listings(Wires, ID) /\ AnswersIn \in Listings(Wires, ID)
  BY DEF CallsIn, AnswersIn, Listings, Wires
<1>2. ASSUME NEW wire \in Seq(Wires)
      PROVE  /\ [i \in DOMAIN wire |-> wire[i].calls] = Mapped(CallsIn, wire)
             /\ [i \in DOMAIN wire |-> wire[i].answers] = Mapped(AnswersIn, wire)
  <2>1. \A i \in DOMAIN wire : wire[i] \in Wires
    OBVIOUS
  <2> HIDE DEF Wires
  <2> QED
    BY <2>1 DEF Mapped, CallsIn, AnswersIn
<1> QED
  BY <1>1, <1>2

\* Where the answers that follow message i end.
Later(wire, i) == {j \in (i + 1)..Len(wire) : wire[j].answers = <<>>}
EndAfter(wire, i) ==
  IF Later(wire, i) = {} THEN Len(wire)
  ELSE (CHOOSE j \in Later(wire, i) : \A k \in Later(wire, i) : j <= k) - 1

LEMMA AnswersAfterIs ==
  ASSUME NEW wire, NEW i
  PROVE  AnswersAfter(wire, i) = FlattenSeq([k \in 1..(EndAfter(wire, i) - i) |-> wire[i + k].answers])
BY DEF AnswersAfter, EndAfter, Later

\* The end is that of the smallest.
LEMMA EndAfterIs ==
  ASSUME NEW wire \in Seq(Wires), NEW i \in 1..Len(wire), NEW j \in Later(wire, i),
         \A k \in Later(wire, i) : j <= k
  PROVE  EndAfter(wire, i) = j - 1
<1> DEFINE c == CHOOSE m \in Later(wire, i) : \A k \in Later(wire, i) : m <= k
<1>1. c \in Later(wire, i) /\ \A k \in Later(wire, i) : c <= k
  OBVIOUS
<1>2. Later(wire, i) \subseteq Nat
  BY DEF Later
<1> HIDE DEF c
<1>3. c = j
  BY <1>1, <1>2
<1> QED
  BY <1>3 DEF EndAfter, c
\* What follows a message that answers nothing does not change what was
\* answered before it.
LEMMA EarlierKept ==
  ASSUME NEW w \in Seq(Wires), NEW ext \in Seq(Wires), ext # <<>>, ext[1].answers = <<>>,
         NEW i \in 1..Len(w)
  PROVE  AnswersAfter(w \o ext, i) = AnswersAfter(w, i)
<1> DEFINE v == w \o ext
           n == Len(w)
<1>1. /\ v \in Seq(Wires) /\ Len(v) = n + Len(ext) /\ n \in Nat /\ Len(ext) \in Nat /\ Len(ext) > 0
      /\ (\A j \in 1..n : v[j] = w[j]) /\ v[n + 1] = ext[1]
  BY EmptySeq
<1> HIDE DEF v
<1>2. n + 1 \in Later(v, i) /\ Later(w, i) \subseteq Later(v, i)
      /\ \A j \in Later(v, i) : j \in Later(w, i) \/ j >= n + 1
  BY <1>1 DEF Later
<1>3. EndAfter(v, i) = EndAfter(w, i) /\ EndAfter(w, i) \in i..n
  <2>1. CASE Later(w, i) = {}
    <3>1. \A j \in Later(v, i) : n + 1 <= j
      BY <1>1, <1>2, <2>1 DEF Later
    <3>2. EndAfter(v, i) = (n + 1) - 1
      <4>1. i \in 1..Len(v)
        BY <1>1
      <4> QED
        BY <1>1, <1>2, <3>1, <4>1, EndAfterIs
    <3> QED
      BY <1>1, <2>1, <3>2 DEF EndAfter
  <2>2. CASE Later(w, i) # {}
    <3>1. PICK j \in Later(w, i) : \A k \in Later(w, i) : j <= k
      <4>1. Later(w, i) \subseteq Nat
        BY DEF Later
      <4> QED
        BY <2>2, <4>1, SmallestExists
    <3>2. j \in (i + 1)..n
      BY <3>1 DEF Later
    <3>3. j \in Later(v, i) /\ \A k \in Later(v, i) : j <= k
      <4>1. \A k \in Later(v, i) : k \in Nat
        BY <1>1 DEF Later
      <4> QED
        BY <1>1, <1>2, <3>1, <3>2, <4>1
    <3>4. EndAfter(w, i) = j - 1
      BY <3>1, EndAfterIs
    <3>5. EndAfter(v, i) = j - 1
      <4>1. i \in 1..Len(v)
        BY <1>1
      <4> QED
        BY <1>1, <3>3, <4>1, EndAfterIs
    <3> QED
      BY <1>1, <3>2, <3>4, <3>5
  <2> QED
    BY <2>1, <2>2
<1>4. [k \in 1..(EndAfter(v, i) - i) |-> v[i + k].answers]
        = [k \in 1..(EndAfter(w, i) - i) |-> w[i + k].answers]
  <2>1. \A k \in 1..(EndAfter(w, i) - i) : i + k \in 1..n
    BY <1>1, <1>3
  <2> QED
    BY <1>1, <1>3, <2>1
<1> QED
  BY <1>4, AnswersAfterIs DEF v

\* A request that gets a turn of calls and then their answers.
LEMMA TurnAnswered ==
  ASSUME NEW w \in Seq(Wires), CallsAnswered(w), NEW ids \in Seq(ID), NEW a \in Wires,
         a.calls = ids, a.answers = <<>>, NEW r \in Seq(Wires),
         \A i \in 1..Len(r) : r[i].calls = <<>> /\ r[i].answers # <<>>,
         FlattenSeq([i \in DOMAIN r |-> r[i].answers]) = ids
  PROVE  CallsAnswered(w \o (<<a>> \o r))
<1> DEFINE ext == <<a>> \o r
           v   == w \o ext
           n   == Len(w)
<1>1. /\ ext \in Seq(Wires) /\ Len(ext) = 1 + Len(r) /\ Len(r) \in Nat /\ ext[1] = a /\ ext # <<>>
      /\ \A i \in 1..Len(r) : ext[1 + i] = r[i]
  OBVIOUS
<1> HIDE DEF ext
<1>2. /\ v \in Seq(Wires) /\ Len(v) = n + 1 + Len(r) /\ n \in Nat
      /\ (\A i \in 1..n : v[i] = w[i]) /\ v[n + 1] = a
      /\ \A i \in 1..Len(r) : v[n + 1 + i] = r[i]
  <2>1. /\ v \in Seq(Wires) /\ Len(v) = n + Len(ext) /\ n \in Nat
        /\ \A i \in 1..(n + Len(ext)) : v[i] = IF i <= n THEN w[i] ELSE ext[i - n]
    <3>1. w \in Seq(Wires) /\ ext \in Seq(Wires)
      BY <1>1
    <3> HIDE DEF Wires
    <3> QED
      BY ONLY <3>1, ConcatProperties, LenProperties
  <2> HIDE DEF v
  <2>2. v[n + 1] = ext[1] /\ \A i \in 1..n : v[i] = w[i]
    <3>1. n + 1 \in 1..(n + Len(ext)) /\ ~(n + 1 <= n) /\ (n + 1) - n = 1
      BY <1>1, <2>1
    <3>2. v[n + 1] = ext[1]
      BY <2>1, <3>1
    <3>3. \A i \in 1..n : i \in 1..(n + Len(ext)) /\ i <= n
      BY <1>1, <2>1
    <3> QED
      BY <2>1, <3>2, <3>3
  <2>3. ASSUME NEW i \in 1..Len(r) PROVE v[n + 1 + i] = r[i]
    <3>1. n + 1 + i \in 1..(n + Len(ext)) /\ ~(n + 1 + i <= n) /\ (n + 1 + i) - n = 1 + i
      BY <1>1, <2>1
    <3>2. v[n + 1 + i] = ext[1 + i]
      BY <2>1, <3>1
    <3> QED
      BY <1>1, <3>2
  <2> QED
    BY <1>1, <2>1, <2>2, <2>3
<1> HIDE DEF v
<1>3. ASSUME NEW i \in DOMAIN v, v[i].calls # <<>> PROVE AnswersAfter(v, i) = v[i].calls
  <2>1. CASE i \in 1..n
    <3>1. AnswersAfter(v, i) = AnswersAfter(w, i)
      BY <1>1, <2>1, EarlierKept DEF v
    <3>2. AnswersAfter(w, i) = w[i].calls
      BY <1>2, <1>3, <2>1 DEF CallsAnswered
    <3> QED
      BY <1>2, <2>1, <3>1, <3>2
  <2>2. CASE i = n + 1
    <3>1. Later(v, i) = {}
      <4> SUFFICES ASSUME NEW j \in (i + 1)..Len(v), v[j].answers = <<>> PROVE FALSE
        BY DEF Later
      <4>1. j - (n + 1) \in 1..Len(r) /\ j = n + 1 + (j - (n + 1))
        BY <1>2, <2>2
      <4>2. v[j] = r[j - (n + 1)]
        BY <1>2, <4>1
      <4> QED
        BY <4>1, <4>2
    <3>2. EndAfter(v, i) - i = Len(r)
      BY <1>1, <1>2, <2>2, <3>1 DEF EndAfter
    <3>3. [k \in 1..Len(r) |-> v[i + k].answers] = [k \in DOMAIN r |-> r[k].answers]
      <4>1. DOMAIN r = 1..Len(r)
        OBVIOUS
      <4> QED
        BY <1>2, <2>2, <4>1
    <3> QED
      BY <1>2, <2>2, <3>2, <3>3, AnswersAfterIs
  <2>3. CASE ~(i \in 1..n \/ i = n + 1)
    <3>1. i - (n + 1) \in 1..Len(r) /\ i = n + 1 + (i - (n + 1))
      BY <1>1, <1>2, <2>3
    <3>2. v[i] = r[i - (n + 1)]
      BY <1>2, <3>1
    <3> QED
      BY <1>3, <3>1, <3>2
  <2> QED
    BY <2>1, <2>2, <2>3
<1>4. FlattenSeq(Mapped(AnswersIn, v)) = FlattenSeq(Mapped(CallsIn, v))
  <2> DEFINE A(u) == FlattenSeq(Mapped(AnswersIn, u))
             C(u) == FlattenSeq(Mapped(CallsIn, u))
  <2>0. AnswersIn \in Listings(Wires, ID) /\ CallsIn \in Listings(Wires, ID) /\ <<a>> \in Seq(Wires)
    BY WireSides
  <2>s. ASSUME NEW m \in Listings(Wires, ID)
        PROVE  /\ FlattenSeq(Mapped(m, w)) \in Seq(ID)
               /\ FlattenSeq(Mapped(m, v)) = FlattenSeq(Mapped(m, w)) \o FlattenSeq(Mapped(m, ext))
               /\ FlattenSeq(Mapped(m, ext)) = FlattenSeq(Mapped(m, <<a>>)) \o FlattenSeq(Mapped(m, r))
    <3>1. /\ FlattenSeq(Mapped(m, w)) \in Seq(ID)
          /\ FlattenSeq(Mapped(m, w \o ext)) = FlattenSeq(Mapped(m, w)) \o FlattenSeq(Mapped(m, ext))
      BY <1>1, FlatMapConcat
    <3>2. FlattenSeq(Mapped(m, <<a>> \o r)) = FlattenSeq(Mapped(m, <<a>>)) \o FlattenSeq(Mapped(m, r))
      <4> DEFINE one == <<a>>
      <4>1. one \in Seq(Wires)
        BY <2>0
      <4> HIDE DEF one
      <4>2. FlattenSeq(Mapped(m, one \o r)) = FlattenSeq(Mapped(m, one)) \o FlattenSeq(Mapped(m, r))
        BY <4>1, FlatMapConcat
      <4> QED
        BY <4>2 DEF one
    <3> QED
      BY <3>1, <3>2 DEF v, ext
  <2>1. A(v) = A(w) \o A(ext) /\ A(ext) = A(<<a>>) \o A(r) /\ A(w) \in Seq(ID)
    BY <2>0, <2>s
  <2>2. C(v) = C(w) \o C(ext) /\ C(ext) = C(<<a>>) \o C(r) /\ C(w) \in Seq(ID)
    BY <2>0, <2>s
  <2>3. A(<<a>>) = <<>> /\ C(<<a>>) = ids
    BY <2>0, FlatMapOne DEF AnswersIn, CallsIn
  <2>4. A(r) = ids
    BY WireSides
  <2>5. C(r) = <<>>
    <3>1. Mapped(CallsIn, r) \in Seq(Seq(ID))
      BY <2>0, MappedType DEF Listings
    <3>2. \A i \in DOMAIN Mapped(CallsIn, r) : Mapped(CallsIn, r)[i] = <<>>
      <4>1. \A i \in 1..Len(r) : CallsIn[r[i]] = <<>>
        BY DEF CallsIn
      <4> QED
        BY <4>1, MappedValues
    <3> QED
      BY <3>1, <3>2, FlattenNone
  <2>6. A(w) = C(w)
    BY WireSides DEF CallsAnswered
  <2> HIDE DEF A, C
  <2>7. A(v) = C(v)
    BY <2>1, <2>2, <2>3, <2>4, <2>5, <2>6, ConcatEmptySeq
  <2> QED
    BY <2>7 DEF A, C
<1>5. CallsAnswered(v)
  BY <1>2, <1>3, <1>4, WireSides DEF CallsAnswered
<1> QED
  BY <1>5 DEF v, ext

\* A request without calls and answers.
LEMMA PlainAnswered ==
  ASSUME NEW wire, \A i \in DOMAIN wire : wire[i].calls = <<>> /\ wire[i].answers = <<>>
  PROVE  CallsAnswered(wire)
<1>1. [i \in DOMAIN wire |-> wire[i].answers] = [i \in DOMAIN wire |-> wire[i].calls]
  OBVIOUS
<1> QED
  BY <1>1 DEF CallsAnswered
-----------------------------------------------------------------------------
(* Conversations.                                                          *)

\* What the messages of a request need of a message of the conversation.
MessageOK(m) ==
  /\ m.role \in {"user", "assistant"}
  /\ Ids(m.uses) \in Seq(ID) /\ Ids(m.results) \in Seq(ID)

openAIMessage(m) == IF m.role = "user" THEN openAIUser(m)
                    ELSE <<WireMessage("assistant", Ids(m.uses), <<>>)>>

\* The messages of the request are typed.
LEMMA MessageTyped ==
  ASSUME NEW m, MessageOK(m)
  PROVE  openAIMessage(m) \in Seq(Wires) /\ anthropicMessage(m) \in Seq(Wires)
<1>1. /\ DOMAIN Ids(m.results) = DOMAIN m.results
      /\ \A i \in DOMAIN m.results : Ids(m.results)[i] = m.results[i].id
  BY DEF Ids
<1>2. ToolMessages(m) \in Seq(Wires)
  <2>1. DOMAIN m.results = 1..Len(Ids(m.results)) /\ Len(Ids(m.results)) \in Nat
    BY <1>1 DEF MessageOK
  <2>2. \A i \in DOMAIN m.results : m.results[i].id \in ID
    BY <1>1, <2>1 DEF MessageOK
  <2>3. \A i \in DOMAIN m.results : WireMessage("tool", <<>>, <<m.results[i].id>>) \in Wires
    BY <2>2 DEF WireMessage, Wires, Roles
  <2> QED
    BY <2>1, <2>3 DEF ToolMessages
<1>3. UserText(m) \in Seq(Wires)
  <2>1. Plain("user") \in Wires
    BY DEF Plain, WireMessage, Wires, Roles
  <2> QED
    BY <2>1 DEF UserText
<1>4. WireMessage("assistant", Ids(m.uses), <<>>) \in Wires
  BY DEF MessageOK, WireMessage, Wires, Roles
<1>5. WireMessage(m.role, Ids(m.uses), Ids(m.results)) \in Wires
  BY DEF MessageOK, WireMessage, Wires, Roles
<1>6. openAIUser(m) \in Seq(Wires)
  BY <1>2, <1>3 DEF openAIUser
<1> QED
  BY <1>4, <1>5, <1>6 DEF openAIMessage, anthropicMessage

\* The requests of a conversation, as flattenings.
LEMMA RequestsAre ==
  ASSUME NEW M, \A m \in M : MessageOK(m)
  PROVE  LET O == [m \in M |-> openAIMessage(m)]
             A == [m \in M |-> anthropicMessage(m)]
         IN  /\ O \in Listings(M, Wires) /\ A \in Listings(M, Wires)
             /\ \A c \in Seq(M) :
                  /\ OpenAIMessages(c) = <<Plain("system")>> \o FlattenSeq(Mapped(O, c))
                  /\ AnthropicMessages(c) = FlattenSeq(Mapped(A, c))
<1> DEFINE O == [m \in M |-> openAIMessage(m)]
           A == [m \in M |-> anthropicMessage(m)]
<1>1. O \in Listings(M, Wires) /\ A \in Listings(M, Wires)
  BY MessageTyped DEF Listings
<1>2. ASSUME NEW c \in Seq(M)
      PROVE  /\ OpenAIMessages(c) = <<Plain("system")>> \o FlattenSeq(Mapped(O, c))
             /\ AnthropicMessages(c) = FlattenSeq(Mapped(A, c))
  <2>0. \A i \in DOMAIN c : c[i] \in M
    OBVIOUS
  <2>1. Mapped(O, c) = [i \in DOMAIN c |->
                          IF c[i].role = "user" THEN openAIUser(c[i])
                          ELSE <<WireMessage("assistant", Ids(c[i].uses), <<>>)>>]
    BY <2>0 DEF Mapped, openAIMessage
  <2>2. Mapped(A, c) = [i \in DOMAIN c |-> anthropicMessage(c[i])]
    BY <2>0 DEF Mapped
  <2> QED
    BY <2>1, <2>2 DEF OpenAIMessages, AnthropicMessages
<1> QED
  BY <1>1, <1>2

\* One turn more in a conversation is so in its requests.
LEMMA RequestsGrow ==
  ASSUME NEW M, \A m \in M : MessageOK(m), NEW c \in Seq(M), NEW x \in M, NEW y \in M
  PROVE  /\ OpenAIMessages(c) \in Seq(Wires) /\ AnthropicMessages(c) \in Seq(Wires)
         /\ OpenAIMessages(c \o <<x, y>>) = OpenAIMessages(c) \o (openAIMessage(x) \o openAIMessage(y))
         /\ AnthropicMessages(c \o <<x, y>>)
              = AnthropicMessages(c) \o (anthropicMessage(x) \o anthropicMessage(y))
<1> DEFINE O == [m \in M |-> openAIMessage(m)]
           A == [m \in M |-> anthropicMessage(m)]
           two == <<x, y>>
           sys == <<Plain("system")>>
<1>1. /\ O \in Listings(M, Wires) /\ A \in Listings(M, Wires)
      /\ \A d \in Seq(M) : /\ OpenAIMessages(d) = sys \o FlattenSeq(Mapped(O, d))
                           /\ AnthropicMessages(d) = FlattenSeq(Mapped(A, d))
  BY RequestsAre
<1>2. O[x] = openAIMessage(x) /\ O[y] = openAIMessage(y) /\ A[x] = anthropicMessage(x) /\ A[y] = anthropicMessage(y)
  OBVIOUS
<1>3. two \in Seq(M) /\ c \o two \in Seq(M) /\ sys \in Seq(Wires)
  BY DEF Plain, WireMessage, Wires, Roles
<1> HIDE DEF O, A, sys
<1>4. ASSUME NEW m \in Listings(M, Wires)
      PROVE  /\ FlattenSeq(Mapped(m, c)) \in Seq(Wires) /\ FlattenSeq(Mapped(m, two)) \in Seq(Wires)
             /\ FlattenSeq(Mapped(m, c \o two)) = FlattenSeq(Mapped(m, c)) \o (m[x] \o m[y])
  <2> DEFINE a == <<x>>
             b == <<y>>
  <2>1. a \in Seq(M) /\ b \in Seq(M) /\ two = a \o b
    <3>1. a \in Seq(M) /\ b \in Seq(M)
      OBVIOUS
    <3>2. <<x, y>> = <<x>> \o <<y>>
      <4>1. /\ a \o b \in Seq(M) /\ Len(a \o b) = 2
            /\ (a \o b)[1] = x /\ (a \o b)[2] = y
        BY <3>1
      <4>2. two \in Seq(M) /\ Len(two) = 2 /\ two[1] = x /\ two[2] = y
        OBVIOUS
      <4> HIDE DEF two, a, b
      <4>3. \A i \in 1..Len(two) : two[i] = (a \o b)[i]
        BY <4>1, <4>2
      <4>4. two = a \o b
        BY <4>1, <4>2, <4>3, SeqEqual
      <4> QED
        BY <4>4 DEF two, a, b
    <3> QED
      BY <3>1, <3>2
  <2>2. FlattenSeq(Mapped(m, a)) = m[x] /\ FlattenSeq(Mapped(m, b)) = m[y]
    BY FlatMapOne
  <2> HIDE DEF a, b, two
  <2>3. FlattenSeq(Mapped(m, a \o b)) = FlattenSeq(Mapped(m, a)) \o FlattenSeq(Mapped(m, b))
    BY <2>1, FlatMapConcat
  <2>4. /\ FlattenSeq(Mapped(m, c)) \in Seq(Wires) /\ FlattenSeq(Mapped(m, two)) \in Seq(Wires)
        /\ FlattenSeq(Mapped(m, c \o two)) = FlattenSeq(Mapped(m, c)) \o FlattenSeq(Mapped(m, two))
    BY <1>3, FlatMapConcat
  <2> QED
    BY <2>1, <2>2, <2>3, <2>4
<1> HIDE DEF two
<1>5. AnthropicMessages(c \o two) = AnthropicMessages(c) \o (anthropicMessage(x) \o anthropicMessage(y))
  BY <1>1, <1>2, <1>3, <1>4
<1>6. OpenAIMessages(c) \in Seq(Wires) /\ AnthropicMessages(c) \in Seq(Wires)
  <2>1. FlattenSeq(Mapped(O, c)) \in Seq(Wires) /\ FlattenSeq(Mapped(A, c)) \in Seq(Wires)
    BY <1>1, <1>4
  <2>2. sys \o FlattenSeq(Mapped(O, c)) \in Seq(Wires)
    BY <1>3, <2>1, ConcatProperties
  <2> QED
    BY <1>1, <2>1, <2>2
<1>7. OpenAIMessages(c \o two) = OpenAIMessages(c) \o (openAIMessage(x) \o openAIMessage(y))
  <2> DEFINE f == FlattenSeq(Mapped(O, c))
             g == openAIMessage(x) \o openAIMessage(y)
  <2>1. f \in Seq(Wires) /\ g \in Seq(Wires)
    <3>1. openAIMessage(x) \in Seq(Wires) /\ openAIMessage(y) \in Seq(Wires)
      BY MessageTyped
    <3> QED
      BY <1>1, <1>4, <3>1, ConcatProperties
  <2>2. OpenAIMessages(c \o two) = sys \o (f \o g) /\ OpenAIMessages(c) = sys \o f
    BY <1>1, <1>2, <1>3, <1>4
  <2> HIDE DEF f, g
  <2>3. sys \o (f \o g) = (sys \o f) \o g
    BY <1>3, <2>1, ConcatAssociative
  <2> QED
    BY <2>2, <2>3 DEF g
<1> QED
  BY <1>5, <1>6, <1>7 DEF two

\* A conversation whose requests are accepted, and that is the user's turn to
\* have spoken.
Acceptable(c) ==
  /\ CallsAnswered(OpenAIMessages(c)) /\ CallsAnswered(AnthropicMessages(c))
  /\ Alternates(AnthropicMessages(c)) /\ Len(AnthropicMessages(c)) % 2 = 1

\* The first message is one.
LEMMA FirstAcceptable ==
  ASSUME NEW m, m = [role |-> "user", text |-> TRUE, uses |-> <<>>, results |-> <<>>]
  PROVE  MessageOK(m) /\ Acceptable(<<m>>)
<1>1. Ids(m.uses) = <<>> /\ Ids(m.results) = <<>>
  BY DEF Ids
<1>2. MessageOK(m)
  <2>1. m.role = "user" /\ <<>> \in Seq(ID)
    OBVIOUS
  <2> QED
    BY <1>1, <2>1 DEF MessageOK
<1>3. openAIMessage(m) = <<Plain("user")>>
  <2>1. ToolMessages(m) = <<>> /\ UserText(m) = <<Plain("user")>>
    BY DEF ToolMessages, UserText
  <2>2. m.role = "user"
    OBVIOUS
  <2>3. openAIMessage(m) = ToolMessages(m) \o UserText(m)
    BY <2>2 DEF openAIMessage, openAIUser
  <2>4. <<>> \o <<Plain("user")>> = <<Plain("user")>>
    OBVIOUS
  <2> QED
    BY <2>1, <2>3, <2>4
<1>4. anthropicMessage(m) = <<Plain("user")>>
  <2>1. Blocks(m) = 1
    BY DEF Blocks
  <2> QED
    BY <1>1, <2>1 DEF anthropicMessage, Plain
<1>5. /\ OpenAIMessages(<<m>>) = <<Plain("system")>> \o <<Plain("user")>>
      /\ AnthropicMessages(<<m>>) = <<Plain("user")>>
  <2> DEFINE M == {m}
             O == [n \in M |-> openAIMessage(n)]
             A == [n \in M |-> anthropicMessage(n)]
             c == <<m>>
  <2>1. c \in Seq(M) /\ m \in M /\ \A n \in M : MessageOK(n)
    BY <1>2
  <2>2. O[m] = <<Plain("user")>> /\ A[m] = <<Plain("user")>>
    BY <1>3, <1>4
  <2> HIDE DEF M
  <2>3. /\ O \in Listings(M, Wires) /\ A \in Listings(M, Wires)
        /\ OpenAIMessages(c) = <<Plain("system")>> \o FlattenSeq(Mapped(O, c))
        /\ AnthropicMessages(c) = FlattenSeq(Mapped(A, c))
    BY <2>1, RequestsAre
  <2> HIDE DEF O, A
  <2>4. FlattenSeq(Mapped(O, c)) = O[m] /\ FlattenSeq(Mapped(A, c)) = A[m]
    BY <2>1, <2>3, FlatMapOne
  <2> QED
    BY <2>2, <2>3, <2>4
<1>6. CallsAnswered(OpenAIMessages(<<m>>)) /\ CallsAnswered(AnthropicMessages(<<m>>))
  <2>1. \A role : Plain(role).calls = <<>> /\ Plain(role).answers = <<>>
    BY DEF Plain, WireMessage
  <2> DEFINE both == <<Plain("system")>> \o <<Plain("user")>>
             one  == <<Plain("user")>>
  <2>2. \A i \in DOMAIN both : both[i] = Plain("system") \/ both[i] = Plain("user")
    OBVIOUS
  <2>3. \A i \in DOMAIN one : one[i] = Plain("user")
    OBVIOUS
  <2> HIDE DEF both, one
  <2>4. CallsAnswered(both) /\ CallsAnswered(one)
    BY <2>1, <2>2, <2>3, PlainAnswered
  <2> QED
    BY <1>5, <2>4 DEF both, one
<1>7. Alternates(AnthropicMessages(<<m>>)) /\ Len(AnthropicMessages(<<m>>)) % 2 = 1
  <2>1. Plain("user").role = "user"
    BY DEF Plain, WireMessage
  <2> QED
    BY <1>5, <2>1 DEF Alternates
<1> QED
  BY <1>2, <1>6, <1>7 DEF Acceptable

\* Roles go on to alternate.
LEMMA AlternatesOn ==
  ASSUME NEW w \in Seq(Wires), Alternates(w), Len(w) % 2 = 1,
         NEW a \in Wires, a.role = "assistant", NEW u \in Wires, u.role = "user"
  PROVE  LET v == w \o (<<a>> \o <<u>>) IN Alternates(v) /\ Len(v) % 2 = 1
<1> DEFINE v == w \o (<<a>> \o <<u>>)
           n == Len(w)
<1>1. /\ Len(v) = n + 2 /\ DOMAIN v = 1..(n + 2) /\ n \in Nat
      /\ (\A i \in 1..n : v[i] = w[i]) /\ v[n + 1] = a /\ v[n + 2] = u
  OBVIOUS
<1> HIDE DEF v
<1>2. (n + 1) % 2 = 0 /\ (n + 2) % 2 = 1
  BY <1>1
<1>3. ASSUME NEW i \in DOMAIN v PROVE v[i].role = IF i % 2 = 1 THEN "user" ELSE "assistant"
  <2>1. CASE i \in 1..n
    BY <1>1, <2>1 DEF Alternates
  <2>2. CASE i = n + 1
    BY <1>1, <1>2, <2>2
  <2>3. CASE i = n + 2
    BY <1>1, <1>2, <2>3
  <2> QED
    BY <1>1, <2>1, <2>2, <2>3
<1> QED
  BY <1>1, <1>2, <1>3 DEF Alternates, v

\* A turn of calls and their answers keeps it acceptable.
LEMMA TurnAcceptable ==
  ASSUME NEW M, \A m \in M : MessageOK(m), NEW c \in Seq(M), NEW x \in M, NEW y \in M,
         Acceptable(c), NEW ids \in Seq(ID), ids # <<>>,
         x.role = "assistant", x.text \in BOOLEAN, Len(x.uses) \in Nat \ {0}, Ids(x.uses) = ids,
         x.results = <<>>,
         y.role = "user", y.text = FALSE, y.uses = <<>>, Len(y.results) \in Nat \ {0},
         Ids(y.results) = ids
  PROVE  Acceptable(c \o <<x, y>>)
<1> DEFINE a == WireMessage("assistant", ids, <<>>)
           u == WireMessage("user", <<>>, ids)
           t == ToolMessages(y)
<1>1. openAIMessage(x) = <<a>> /\ openAIMessage(y) = t
  <2>1. t \in Seq(Wires) /\ UserText(y) = <<>>
    <3>1. openAIMessage(y) = t \o <<>> /\ openAIMessage(y) \in Seq(Wires) /\ UserText(y) = <<>>
      BY MessageTyped DEF openAIMessage, openAIUser, UserText
    <3>2. DOMAIN t = DOMAIN ids /\ \A i \in DOMAIN ids : t[i] = WireMessage("tool", <<>>, <<ids[i]>>)
      BY DEF ToolMessages, Ids
    <3>3. \A i \in DOMAIN ids : WireMessage("tool", <<>>, <<ids[i]>>) \in Wires
      BY DEF WireMessage, Wires, Roles
    <3>4. t = [i \in 1..Len(ids) |-> t[i]]
      BY <3>2 DEF ToolMessages
    <3> QED
      BY <3>1, <3>2, <3>3, <3>4
  <2>2. openAIMessage(y) = t
    BY <2>1, ConcatEmptySeq DEF openAIMessage, openAIUser
  <2>3. openAIMessage(x) = <<a>>
    BY DEF openAIMessage
  <2> QED
    BY <2>2, <2>3
<1>2. anthropicMessage(x) = <<a>> /\ anthropicMessage(y) = <<u>>
  <2>1. Ids(<<>>) = <<>>
    BY DEF Ids
  <2>2. Blocks(x) > 0 /\ Blocks(y) > 0
    <3>1. Len(x.results) = 0 /\ Len(y.uses) = 0
      OBVIOUS
    <3>2. Blocks(x) \in {1 + Len(x.uses) + 0, 0 + Len(x.uses) + 0}
      <4>1. CASE x.text
        BY <3>1, <4>1 DEF Blocks
      <4>2. CASE ~x.text
        BY <3>1, <4>2 DEF Blocks
      <4> QED
        BY <4>1, <4>2
    <3>3. Blocks(y) = 0 + 0 + Len(y.results)
      BY <3>1 DEF Blocks
    <3>4. Len(x.uses) > 0 /\ Len(y.results) > 0 /\ Len(x.uses) \in Nat /\ Len(y.results) \in Nat
      OBVIOUS
    <3> QED
      BY ONLY <3>2, <3>3, <3>4
  <2> QED
    BY <2>1, <2>2 DEF anthropicMessage
<1>3. a \in Wires /\ u \in Wires /\ t \in Seq(Wires)
  <2>1. a \in Wires /\ u \in Wires
    BY DEF WireMessage, Wires, Roles
  <2>2. openAIMessage(y) \in Seq(Wires)
    BY MessageTyped
  <2> QED
    BY <1>1, <2>1, <2>2
<1>4. /\ a.calls = ids /\ a.answers = <<>> /\ a.role = "assistant"
      /\ u.calls = <<>> /\ u.answers = ids /\ u.role = "user"
  BY DEF WireMessage
<1>5. /\ \A i \in 1..Len(t) : t[i].calls = <<>> /\ t[i].answers # <<>>
      /\ FlattenSeq([i \in DOMAIN t |-> t[i].answers]) = ids
  <2>1. DOMAIN t = DOMAIN ids /\ \A i \in DOMAIN ids : t[i] = WireMessage("tool", <<>>, <<ids[i]>>)
    BY DEF ToolMessages, Ids
  <2>2. \A i \in DOMAIN t : t[i].calls = <<>> /\ t[i].answers = <<ids[i]>>
    BY <2>1 DEF WireMessage
  <2>3. [i \in DOMAIN t |-> t[i].answers] = [i \in DOMAIN ids |-> <<ids[i]>>]
    BY <2>1, <2>2
  <2>4. DOMAIN t = 1..Len(t)
    BY <1>3
  <2>5. FlattenSeq([i \in DOMAIN t |-> t[i].answers]) = ids
    BY <2>3, FlattenSingles
  <2>6. \A i \in DOMAIN t : <<ids[i]>> # <<>>
    OBVIOUS
  <2> HIDE DEF t
  <2> QED
    BY <2>2, <2>4, <2>5, <2>6
<1>6. /\ \A i \in 1..Len(<<u>>) : <<u>>[i].calls = <<>> /\ <<u>>[i].answers # <<>>
      /\ FlattenSeq([i \in DOMAIN <<u>> |-> <<u>>[i].answers]) = ids /\ <<u>> \in Seq(Wires)
  <2>1. [i \in DOMAIN <<u>> |-> <<u>>[i].answers] = <<ids>>
    BY <1>4
  <2>2. FlattenSeq(<<ids>>) = ids
    BY FlattenOne
  <2> HIDE DEF u
  <2> QED
    BY <1>3, <1>4, <2>1, <2>2
<1> HIDE DEF a, u, t
<1>7. /\ OpenAIMessages(c) \in Seq(Wires) /\ AnthropicMessages(c) \in Seq(Wires)
      /\ OpenAIMessages(c \o <<x, y>>) = OpenAIMessages(c) \o (<<a>> \o t)
      /\ AnthropicMessages(c \o <<x, y>>) = AnthropicMessages(c) \o (<<a>> \o <<u>>)
  <2>1. /\ OpenAIMessages(c) \in Seq(Wires) /\ AnthropicMessages(c) \in Seq(Wires)
        /\ OpenAIMessages(c \o <<x, y>>) = OpenAIMessages(c) \o (openAIMessage(x) \o openAIMessage(y))
        /\ AnthropicMessages(c \o <<x, y>>)
             = AnthropicMessages(c) \o (anthropicMessage(x) \o anthropicMessage(y))
    <3>1. (\A m \in M : MessageOK(m)) /\ c \in Seq(M) /\ x \in M /\ y \in M
      OBVIOUS
    <3> QED
      BY ONLY <3>1, RequestsGrow
  <2> QED
    BY <1>1, <1>2, <2>1
<1>8. CallsAnswered(OpenAIMessages(c) \o (<<a>> \o t))
  BY <1>3, <1>4, <1>5, <1>7, TurnAnswered DEF Acceptable
<1>9. CallsAnswered(AnthropicMessages(c) \o (<<a>> \o <<u>>))
  <2> DEFINE r == <<u>>
  <2>1. r \in Seq(Wires) /\ (\A i \in 1..Len(r) : r[i].calls = <<>> /\ r[i].answers # <<>>)
        /\ FlattenSeq([i \in DOMAIN r |-> r[i].answers]) = ids
    BY <1>6
  <2> HIDE DEF r
  <2>2. CallsAnswered(AnthropicMessages(c) \o (<<a>> \o r))
    BY <1>3, <1>4, <1>7, <2>1, TurnAnswered DEF Acceptable
  <2> QED
    BY <2>2 DEF r
<1>10. LET v == AnthropicMessages(c) \o (<<a>> \o <<u>>) IN Alternates(v) /\ Len(v) % 2 = 1
  BY <1>3, <1>4, <1>7, AlternatesOn DEF Acceptable
<1> QED
  BY <1>7, <1>8, <1>9, <1>10 DEF Acceptable

-----------------------------------------------------------------------------
(* The requests of a diagnosis.                                            *)

\* The last request is that of the conversation, to a vendor; a conversation
\* that has begun is acceptable to each, whichever the session asks.
RequestInv ==
  /\ \E M : messages \in Seq(M) /\ \A m \in M : MessageOK(m)
  /\ messages = <<>> \/ Acceptable(messages)
  /\ phase = "turn" => messages # <<>>
  /\ request # NoRequest =>
       /\ request.provider \in Vendors /\ messages # <<>>
       /\ request.wire = WireMessages(request.provider, messages)

\* Ollama's has neither calls nor answers.
LEMMA OllamaAnswered ==
  ASSUME NEW M, NEW c \in Seq(M)
  PROVE  CallsAnswered(OllamaMessages(c))
<1> DEFINE P == {Plain(r) : r \in {"system"} \union {c[i].role : i \in DOMAIN c}}
           tail == [i \in DOMAIN c |-> Plain(c[i].role)]
           sys  == <<Plain("system")>>
<1>1. sys \in Seq(P) /\ tail \in Seq(P)
  <2>1. Len(c) \in Nat /\ DOMAIN c = 1..Len(c)
    OBVIOUS
  <2>2. Plain("system") \in P /\ \A i \in DOMAIN c : Plain(c[i].role) \in P
    OBVIOUS
  <2> HIDE DEF P
  <2> QED
    BY <2>1, <2>2
<1>2. \A p \in P : p.calls = <<>> /\ p.answers = <<>>
  BY DEF Plain, WireMessage
<1> HIDE DEF P, tail, sys
<1>3. \A i \in DOMAIN (sys \o tail) : (sys \o tail)[i] \in P
  <2>1. sys \o tail \in Seq(P)
    BY <1>1, ConcatProperties
  <2> QED
    BY <2>1
<1>4. CallsAnswered(sys \o tail)
  BY <1>2, <1>3, PlainAnswered
<1> QED
  BY <1>4 DEF OllamaMessages, sys, tail

\* The wire of an acceptable conversation is well formed.
LEMMA AcceptableWellFormed == RequestInv => RequestWellFormed
<1> SUFFICES ASSUME RequestInv PROVE RequestWellFormed
  OBVIOUS
<1>1. CASE request = NoRequest
  <2>1. request.wire = <<>> /\ request.provider # "anthropic"
    BY <1>1 DEF NoRequest
  <2>2. CallsAnswered(<<>>)
    BY PlainAnswered
  <2> QED
    BY <2>1, <2>2 DEF RequestWellFormed
<1>2. CASE request # NoRequest
  <2>1. /\ request.provider \in {"openai", "anthropic", "ollama"} /\ Acceptable(messages)
        /\ request.wire = WireMessages(request.provider, messages)
        /\ CallsAnswered(OllamaMessages(messages))
    BY <1>2, OllamaAnswered DEF RequestInv, Vendors
  <2> QED
    BY <2>1 DEF WireMessages, Acceptable, RequestWellFormed
<1> QED
  BY <1>1, <1>2

\* A request of an acceptable conversation.
LEMMA StreamRequests ==
  ASSUME VendorInv, phase # "idle", NEW c, Stream(c), NEW M, c \in Seq(M),
         \A m \in M : MessageOK(m), c # <<>>, Acceptable(c)
  PROVE  RequestInv'
<1>1. /\ messages' = c /\ request'.provider = session.provider
      /\ request'.wire = WireMessages(session.provider, c)
  BY DEF Stream, ProviderAsked
<1>2. session.provider \in Vendors
  BY DEF VendorInv
<1>3. \E N : messages' \in Seq(N) /\ \A m \in N : MessageOK(m)
  BY <1>1
<1> QED
  BY <1>1, <1>2, <1>3 DEF RequestInv

\* The next turn answers the calls it was asked to.
LEMMA NextTurnRequests ==
  ASSUME StreamInv, VendorInv, RequestInv, NextTurn
  PROVE  RequestInv'
<1>1. PICK answers \in [DOMAIN CallsOf(sent) -> Answers] :
        LET calls     == CallsOf(sent)
            result(i) == Dispatch(calls[i], TRUE, answers[i])
        IN  Stream(messages \o
              <<[role |-> "assistant", text |-> Delta \in ToSet(sent), uses |-> calls,
                 results |-> <<>>],
                [role |-> "user", text |-> FALSE, uses |-> <<>>,
                 results |-> [i \in DOMAIN calls |->
                                [id |-> calls[i].id, isError |-> result(i).isError,
                                 text |-> result(i).text]]]>>)
  BY DEF NextTurn
<1> DEFINE calls     == CallsOf(sent)
           result(i) == Dispatch(calls[i], TRUE, answers[i])
           results   == [i \in DOMAIN calls |-> [id |-> calls[i].id, isError |-> result(i).isError,
                                                 text |-> result(i).text]]
           x == [role |-> "assistant", text |-> Delta \in ToSet(sent), uses |-> calls,
                 results |-> <<>>]
           y == [role |-> "user", text |-> FALSE, uses |-> <<>>, results |-> results]
           ids == Ids(calls)
<1>2. Stream(messages \o <<x, y>>)
  BY <1>1
<1>3. calls \in Seq(AnyCall) /\ calls # <<>> /\ phase = "turn"
  <2>1. sent \in Seq(Events)
    BY DEF StreamInv, StreamTypes
  <2>2. CallsOf(sent) \in Seq(AnyCall)
    BY <2>1, CallsOfConcat
  <2> QED
    BY <2>2 DEF NextTurn, Drained
<1>4. PICK M : messages \in Seq(M) /\ \A m \in M : MessageOK(m)
  BY DEF RequestInv
<1>5. messages # <<>> /\ Acceptable(messages)
  BY <1>3 DEF RequestInv
<1>6. Ids(results) = ids
  BY DEF Ids
<1>7. ids \in Seq(ID) /\ ids # <<>> /\ Len(calls) \in Nat \ {0} /\ Len(results) \in Nat \ {0}
  <2> HIDE DEF calls, result
  <2>1. Len(calls) \in Nat \ {0} /\ DOMAIN calls = 1..Len(calls) /\ \A i \in 1..Len(calls) : calls[i] \in AnyCall
    BY <1>3
  <2>2. \A i \in 1..Len(calls) : calls[i].id \in ID
    BY <2>1 DEF ID
  <2>3. ids \in Seq(ID) /\ Len(ids) = Len(calls)
    BY <2>1, <2>2 DEF Ids
  <2>4. Len(results) = Len(calls)
    BY <2>1
  <2> QED
    BY <2>1, <2>3, <2>4
<1>8. /\ x.role = "assistant" /\ x.text \in BOOLEAN /\ x.uses = calls /\ x.results = <<>>
      /\ y.role = "user" /\ y.text = FALSE /\ y.uses = <<>> /\ y.results = results
      /\ Ids(<<>>) = <<>> /\ <<>> \in Seq(ID)
  BY DEF Ids
<1> HIDE DEF x, y, results, result, calls
<1>9. MessageOK(x) /\ MessageOK(y)
  BY <1>6, <1>7, <1>8 DEF MessageOK
<1> DEFINE N == M \union {x, y}
<1>10. (\A m \in N : MessageOK(m)) /\ messages \in Seq(N) /\ x \in N /\ y \in N
  <2>1. messages = [i \in 1..Len(messages) |-> messages[i]] /\ Len(messages) \in Nat
        /\ \A i \in 1..Len(messages) : messages[i] \in N
    BY <1>4
  <2>2. \A m \in N : MessageOK(m)
    BY <1>4, <1>9
  <2> HIDE DEF N
  <2>3. messages \in Seq(N)
    BY <2>1
  <2> QED
    BY <2>2, <2>3 DEF N
<1> HIDE DEF N, ids
<1>11. Acceptable(messages \o <<x, y>>)
  BY <1>5, <1>6, <1>7, <1>8, <1>10, TurnAcceptable DEF ids
<1>12. messages \o <<x, y>> \in Seq(N) /\ messages \o <<x, y>> # <<>>
  <2>1. <<x, y>> \in Seq(N) /\ Len(<<x, y>>) = 2
    BY <1>10
  <2>2. messages \o <<x, y>> \in Seq(N) /\ Len(messages \o <<x, y>>) = Len(messages) + 2
        /\ Len(messages) \in Nat
    BY <1>10, <2>1
  <2> QED
    BY <2>2
<1> QED
  BY <1>2, <1>3, <1>10, <1>11, <1>12, StreamRequests

\* Every step keeps the conversation acceptable and the request its.
LEMMA RequestInvStep == StreamInv /\ VendorInv /\ RequestInv /\ [Next]_vars => RequestInv'
<1> SUFFICES ASSUME StreamInv, VendorInv, RequestInv, [Next]_vars PROVE RequestInv'
  OBVIOUS
<1>1. ASSUME UNCHANGED <<messages, request>>, phase' = "turn" => phase = "turn" PROVE RequestInv'
  BY <1>1 DEF RequestInv
<1>2. CASE Moves \/ UNCHANGED vars
  BY <1>1, <1>2 DEF Moves, StartUp, SwitchProfile, Unselected, Ask, Receive, EndSession, Cancel,
                    vars, diagnosis
<1>3. ASSUME NEW o, NEW c, Begin(o, c) PROVE RequestInv'
  <2> DEFINE m == [role |-> "user", text |-> TRUE, uses |-> <<>>, results |-> <<>>]
  <2>1. CASE Stream(<<m>>) /\ phase = "building"
    <3> DEFINE first == <<m>>
               M     == {m}
    <3>1. MessageOK(m) /\ Acceptable(first)
      BY FirstAcceptable
    <3>2. first \in Seq(M) /\ first # <<>>
      OBVIOUS
    <3>3. \A n \in M : MessageOK(n)
      BY <3>1
    <3>4. Stream(first) /\ phase # "idle"
      BY <2>1
    <3> HIDE DEF m, first, M
    <3> QED
      BY <3>1, <3>2, <3>3, <3>4, StreamRequests
  <2>2. CASE phase' = "ended" /\ UNCHANGED <<messages, request>>
    BY <1>1, <2>2
  <2> QED
    BY <1>3, <2>1, <2>2 DEF Begin
<1>4. CASE Goroutine
  BY <1>1, <1>4 DEF Goroutine, Send, SendGivesUp, CloseOut, GoesOn, diagnosis
<1>5. CASE Server
  <2>1. CASE Accept \/ Refuse \/ ArgsChunk \/ Ping \/ ServerFinishes \/ ServerDrops \/ ReadFails
    BY <1>1, <2>1 DEF Accept, Refuse, ArgsChunk, Ping, ServerFinishes, ServerDrops, ReadFails, GoesOn, diagnosis
  <2>2. CASE TextChunk
    BY <1>1, <2>2 DEF TextChunk, Chunk, GoesOn, diagnosis
  <2>3. ASSUME NEW call, NEW id, CallChunk(call, id) PROVE RequestInv'
    BY <1>1, <2>3 DEF CallChunk, Chunk, GoesOn, diagnosis
  <2> QED
    BY <1>5, <2>1, <2>2, <2>3 DEF Server
<1> QED
  BY <1>2, <1>3, <1>4, <1>5, NextTurnRequests, NextParts

\* No conversation yet, and no request.
LEMMA InitRequestInv == Init => RequestInv
<1> SUFFICES ASSUME Init PROVE RequestInv
  OBVIOUS
<1>1. messages = <<>> /\ request = NoRequest /\ phase = "idle" /\ messages \in Seq({})
  BY DEF Init
<1>2. \E M : messages \in Seq(M) /\ \A m \in M : MessageOK(m)
  BY <1>1
<1> QED
  BY <1>1, <1>2 DEF RequestInv

\* Every request is one its provider's API accepts, for every conversation and
\* every response: each call of a turn is answered right after it, in order,
\* and nothing else is; for Anthropic the roles alternate (buildOpenAIMessages,
\* buildAnthropicMessages, buildOllamaMessages; the turn loop of session.go).
THEOREM DiagnoseRequestWellFormed == Spec => []RequestWellFormed
BY InitRequestInv, RequestInvStep, AcceptableWellFormed, DiagnoseCallsInv, PTL DEF Spec, CallsInv
=============================================================================
