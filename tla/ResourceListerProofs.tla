------------------------ MODULE ResourceListerProofs ------------------------
(***************************************************************************)
(* Theorems about a resource lister, for any number of versions, of queued *)
(* handler calls and of emits in flight: its types, and that no event is   *)
(* lost between the store and the table while no emit outlasts a window.   *)
(***************************************************************************)
EXTENDS ResourceLister, TLAPS

-----------------------------------------------------------------------------
(* Type correctness.                                                       *)

\* TypeOK is not inductive: what emit sends must have been listed before, and
\* 0 is no list.
Listing == {"send", "drain", "resend"}
ListTaken == \A e \in Emits : emit[e] \in Listing => objs[e] \in Versions
TypeInv   == TypeOK /\ ListTaken

\* The channel of one: what a receive takes out of it, and what a send leaves.
LEMMA ChannelEmpty ==
  ASSUME NEW V, NEW s \in Seq(V), Len(s) = 0 PROVE s = <<>>
OBVIOUS

LEMMA ChannelFull ==
  ASSUME NEW V, NEW s \in Seq(V), Len(s) <= 1, s # <<>>
  PROVE  Head(s) \in V /\ Tail(s) = <<>> /\ Tail(s) \in Seq(V) /\ Len(Tail(s)) = 0
<1>1. Head(s) \in V /\ Tail(s) \in Seq(V) /\ Len(Tail(s)) = Len(s) - 1
  OBVIOUS
<1>2. Len(s) \in Nat
  OBVIOUS
<1>3. Len(s) # 0
  BY ChannelEmpty
<1>4. Len(Tail(s)) = 0
  BY <1>1, <1>2, <1>3
<1>5. Tail(s) = <<>>
  BY <1>1, <1>4, ChannelEmpty
<1> QED
  BY <1>1, <1>4, <1>5

LEMMA ChannelSent ==
  ASSUME NEW V, NEW v \in V
  PROVE  /\ Append(<<>>, v) \in Seq(V) /\ Len(Append(<<>>, v)) = 1
         /\ Head(Append(<<>>, v)) = v /\ Append(<<>>, v) # <<>>
OBVIOUS

LEMMA TypeInit == Init => TypeInv
<1> SUFFICES ASSUME Init PROVE TypeInv
  OBVIOUS
<1>1. store \in Versions /\ notices \in 0..MaxNotices
  BY VersionAssumption, NoticesAssumption DEF Init, Versions
<1>5. held \in Lists /\ table \in Lists
  BY DEF Init, Lists
<1>6. empty \in BOOLEAN /\ done \in BOOLEAN /\ overlapped \in BOOLEAN
  BY DEF Init
<1>2. snapshot \in Seq(Versions) /\ Len(snapshot) <= 1
  BY DEF Init
<1>3. /\ emit \in [Emits -> {"free", "due", "send", "drain", "resend"}] /\ objs \in [Emits -> Lists]
      /\ ListTaken
  BY DEF Init, Lists, ListTaken, Listing
<1>4. /\ start \in {"syncing", "done", "failed"} /\ debounce \in {"nil", "armed", "fired"}
      /\ consumer \in {"none", "waiting", "handling", "gone"}
  BY DEF Init
<1> QED
  BY <1>1, <1>2, <1>3, <1>4, <1>5, <1>6 DEF TypeInv, TypeOK

\* Every step of the informer, Switch, an emit and the pump keeps them.
LEMMA TypeStep == TypeInv /\ [Next]_vars => TypeInv'
<1> SUFFICES ASSUME TypeInv, [Next]_vars PROVE TypeInv'
  OBVIOUS
<1> USE VersionAssumption, NoticesAssumption
<1> USE DEF TypeInv, TypeOK, Lists
<1>1. CASE Informer
  <2>1. CASE StoreEvent
    BY <2>1 DEF StoreEvent, ListTaken, Versions, emitVars, consumerVars
  <2>2. CASE Resync
    BY <2>2 DEF Resync, ListTaken, emitVars, consumerVars
  <2>3. CASE Notified
    BY <2>3 DEF Notified, Bump, ListTaken, emitVars, consumerVars
  <2> QED
    BY <1>1, <2>1, <2>2, <2>3 DEF Informer
<1>2. CASE Switch
  <2>1. CASE Synced
    BY <2>1 DEF Synced, FirstBump, Bump, ListTaken, storeVars, emitVars
  <2>2. CASE SyncTimesOut
    BY <2>2 DEF SyncTimesOut, ListTaken, storeVars, emitVars, consumerVars
  <2>3. CASE TearDown
    BY <2>3 DEF TearDown, ListTaken, storeVars, emitVars, consumerVars
  <2> QED
    BY <1>2, <2>1, <2>2, <2>3 DEF Switch
<1>3. ASSUME NEW e \in Emits, Emit(e) PROVE TypeInv'
  <2>1. CASE TimerExpires(e)
    <3>1. overlapped' \in BOOLEAN
      BY <2>1 DEF TimerExpires
    <3> QED
      BY <2>1, <3>1 DEF TimerExpires, ListTaken, Listing, storeVars, consumerVars
  <2>2. CASE ListStore(e)
    BY <2>2 DEF ListStore, ListTaken, Listing, storeVars, consumerVars
  <2>3. CASE Send(e)
    <3>1. objs[e] \in Versions
      BY <2>3 DEF Send, ListTaken, Listing
    <3>2. snapshot' \in Seq(Versions) /\ Len(snapshot') <= 1
      <4>1. CASE HasRoom
        BY <2>3, <3>1, <4>1, ChannelSent DEF Send, SendOr, HasRoom
      <4>2. CASE ~HasRoom
        BY <2>3, <4>2 DEF Send, SendOr
      <4> QED
        BY <4>1, <4>2
    <3> QED
      BY <2>3, <3>2 DEF Send, SendOr, ListTaken, Listing, storeVars, consumerVars
  <2>4. CASE Drain(e)
    <3>1. snapshot' \in Seq(Versions) /\ Len(snapshot') <= 1
      <4>1. CASE snapshot = <<>>
        BY <2>4, <4>1 DEF Drain, Drained
      <4>2. CASE snapshot # <<>>
        <5>1. snapshot' = Tail(snapshot)
          BY <2>4, <4>2 DEF Drain, Drained
        <5> QED
          BY <4>2, <5>1, ChannelFull
      <4> QED
        BY <4>1, <4>2
    <3> QED
      BY <2>4, <3>1 DEF Drain, ListTaken, Listing, storeVars, consumerVars
  <2>5. CASE Resend(e)
    <3>1. objs[e] \in Versions
      BY <2>5 DEF Resend, ListTaken, Listing
    <3>2. snapshot' \in Seq(Versions) /\ Len(snapshot') <= 1
      <4>1. CASE HasRoom
        BY <2>5, <3>1, <4>1, ChannelSent DEF Resend, SendOr, HasRoom
      <4>2. CASE ~HasRoom
        BY <2>5, <4>2 DEF Resend, SendOr
      <4> QED
        BY <4>1, <4>2
    <3> QED
      BY <2>5, <3>2 DEF Resend, SendOr, ListTaken, Listing, storeVars, consumerVars
  <2> QED
    BY <1>3, <2>1, <2>2, <2>3, <2>4, <2>5 DEF Emit
<1>4. CASE Pump
  <2>1. CASE Receive
    <3>1. snapshot' \in Seq(Versions) /\ Len(snapshot') <= 1 /\ held' \in Versions
      BY <2>1, ChannelFull DEF Receive
    <3> QED
      BY <2>1, <3>1 DEF Receive, ListTaken, storeVars, emitVars
  <2>2. CASE Show
    BY <2>2 DEF Show, ListTaken, storeVars, emitVars
  <2>3. CASE SeeDone
    BY <2>3 DEF SeeDone, ListTaken, storeVars, emitVars
  <2> QED
    BY <1>4, <2>1, <2>2, <2>3 DEF Pump
<1>5. CASE UNCHANGED vars
  BY <1>5 DEF vars, storeVars, emitVars, consumerVars, ListTaken
<1> QED
  BY <1>1, <1>2, <1>3, <1>4, <1>5 DEF Next

\* The variables of a lister, its channel of one included, keep their types.
THEOREM ListerTypeOK == Spec => []TypeOK
<1>1. TypeInv => TypeOK
  BY DEF TypeInv
<1> QED
  BY TypeInit, TypeStep, <1>1, PTL DEF Spec

LEMMA ListerTypeInv == Spec => []TypeInv
BY TypeInit, TypeStep, PTL DEF Spec

-----------------------------------------------------------------------------
(* No event is lost.                                                       *)

\* While no emit has started before another was over, there is one at most.
OneEmit == ~overlapped => \A e, f \in Emits : emit[e] # "free" /\ emit[f] # "free" => e = f

\* What that one took out of the channel nobody has put back since.
StillEmpty == ~overlapped => \A e \in Emits : emit[e] = "resend" => snapshot = <<>>

\* A list in a message is one.
HeldIsList == consumer = "handling" => held \in Versions

\* Once no handler call and no timer is pending, the newest list is on its
\* way: an emit is about to take it, has taken it, or it has gone out.
OnItsWay ==
  start = "done" /\ ~overlapped /\ notices = 0 /\ debounce # "armed" =>
    \/ \E e \in Emits : emit[e] = "due"
    \/ \E e \in Emits : emit[e] \in Listing /\ objs[e] = store
    \/ (\A e \in Emits : emit[e] = "free") /\ Newest = store

EventInv == OneEmit /\ StillEmpty /\ HeldIsList /\ OnItsWay

LEMMA EventInit == Init => EventInv
BY DEF Init, EventInv, OneEmit, StillEmpty, HeldIsList, OnItsWay

\* Every step keeps the newest list on its way.
LEMMA EventStep == TypeInv /\ EventInv /\ [Next]_vars => EventInv'
<1> SUFFICES ASSUME TypeInv, EventInv, [Next]_vars PROVE EventInv'
  OBVIOUS
<1>t. /\ emit \in [Emits -> {"free", "due", "send", "drain", "resend"}] /\ objs \in [Emits -> Lists]
      /\ snapshot \in Seq(Versions) /\ Len(snapshot) <= 1 /\ notices \in Nat
      /\ overlapped \in BOOLEAN
  BY NoticesAssumption DEF TypeInv, TypeOK
<1> USE DEF EventInv
<1>1. CASE Informer
  BY <1>1, <1>t DEF Informer, StoreEvent, Resync, Notified, Bump, OneEmit, StillEmpty, HeldIsList,
     OnItsWay, Newest, emitVars, consumerVars
<1>2. CASE Switch
  BY <1>2, <1>t DEF Switch, Synced, SyncTimesOut, TearDown, FirstBump, Bump, OneEmit, StillEmpty,
     HeldIsList, OnItsWay, Newest, storeVars, emitVars, consumerVars
<1>3. ASSUME NEW e \in Emits, Emit(e) PROVE EventInv'
  <2>0. HeldIsList'
    BY <1>3 DEF Emit, TimerExpires, ListStore, Send, Drain, Resend, HeldIsList, consumerVars
  <2>1. CASE TimerExpires(e)
    <3>1. overlapped' => overlapped \/ \E f \in Emits \ {e} : emit[f] # "free"
      BY <2>1 DEF TimerExpires
    <3>2. ~overlapped' => ~overlapped /\ \A f \in Emits \ {e} : emit[f] = "free"
      BY <2>1 DEF TimerExpires
    <3> QED
      BY <2>0, <2>1, <3>2, <1>t DEF TimerExpires, OneEmit, StillEmpty, OnItsWay
  <2>2. CASE ListStore(e)
    BY <2>0, <2>2, <1>t DEF ListStore, OneEmit, StillEmpty, OnItsWay, Listing, storeVars
  <2>3. CASE Send(e)
    <3>1. objs[e] \in Versions
      BY <2>3 DEF Send, TypeInv, ListTaken, Listing
    <3> QED
      <4>1. OneEmit' /\ StillEmpty'
        BY <2>3, <1>t DEF Send, SendOr, OneEmit, StillEmpty
      <4>2. CASE HasRoom
        <5>1. snapshot' = Append(snapshot, objs[e]) /\ snapshot' # <<>> /\ Head(snapshot') = objs[e]
          BY <2>3, <3>1, <4>2, <1>t, ChannelSent DEF Send, SendOr, HasRoom
        <5>2. emit' = [emit EXCEPT ![e] = "free"]
          BY <2>3, <4>2 DEF Send, SendOr
        <5>3. ASSUME start = "done", ~overlapped, notices = 0, debounce # "armed"
              PROVE  (\A f \in Emits : emit'[f] = "free") /\ objs[e] = store
          BY <2>3, <5>2, <5>3, <1>t DEF Send, OneEmit, OnItsWay, Listing
        <5>4. OnItsWay'
          BY <2>3, <5>1, <5>3 DEF Send, OnItsWay, Newest, storeVars
        <5> QED
          BY <2>0, <4>1, <5>4
      <4>3. CASE ~HasRoom
        BY <2>0, <2>3, <4>1, <4>3, <1>t DEF Send, SendOr, OneEmit, OnItsWay, Listing, storeVars
      <4> QED
        BY <4>2, <4>3
  <2>4. CASE Drain(e)
    <3>1. snapshot' = <<>>
      BY <2>4, <1>t, ChannelFull DEF Drain, Drained
    <3> QED
      BY <2>0, <2>4, <3>1, <1>t DEF Drain, OneEmit, StillEmpty, OnItsWay, Listing, storeVars
  <2>5. CASE Resend(e)
    <3>1. objs[e] \in Versions
      BY <2>5 DEF Resend, TypeInv, ListTaken, Listing
    <3>2. OneEmit' /\ StillEmpty'
      BY <2>5, <1>t DEF Resend, SendOr, OneEmit, StillEmpty
    <3>3. ASSUME start = "done", ~overlapped, notices = 0, debounce # "armed"
          PROVE  /\ (\A f \in Emits : emit'[f] = "free") /\ objs[e] = store
                 /\ snapshot' # <<>> /\ Head(snapshot') = store
      <4>1. snapshot = <<>>
        BY <2>5, <3>3 DEF Resend, StillEmpty
      <4>2. emit' = [emit EXCEPT ![e] = "free"] /\ snapshot' = Append(snapshot, objs[e])
        BY <2>5, <4>1 DEF Resend, SendOr, HasRoom
      <4>3. (\A f \in Emits : emit'[f] = "free") /\ objs[e] = store
        BY <2>5, <3>3, <4>2, <1>t DEF Resend, OneEmit, OnItsWay, Listing
      <4> QED
        BY <3>1, <4>1, <4>2, <4>3, <1>t, ChannelSent
    <3>4. OnItsWay'
      BY <2>5, <3>3 DEF Resend, OnItsWay, Newest, storeVars
    <3> QED
      BY <2>0, <3>2, <3>4
  <2> QED
    BY <1>3, <2>1, <2>2, <2>3, <2>4, <2>5 DEF Emit
<1>4. CASE Pump
  <2>1. CASE Receive
    <3>1. snapshot' = <<>> /\ held' = Head(snapshot) /\ held' \in Versions /\ held' # 0
      <4>1. snapshot # <<>> /\ snapshot' = Tail(snapshot) /\ held' = Head(snapshot)
        BY <2>1 DEF Receive
      <4>2. snapshot' = <<>> /\ held' \in Versions
        BY <4>1, <1>t, ChannelFull
      <4> QED
        BY <4>1, <4>2, VersionAssumption DEF Versions
    <3> QED
      BY <2>1, <3>1 DEF Receive, OneEmit, StillEmpty, HeldIsList, OnItsWay, Newest, storeVars, emitVars
  <2>2. CASE Show
    <3>1. held # 0
      BY <2>2 DEF Show, HeldIsList, Versions
    <3> QED
      BY <2>2, <3>1 DEF Show, OneEmit, StillEmpty, HeldIsList, OnItsWay, Newest, storeVars, emitVars
  <2>3. CASE SeeDone
    BY <2>3 DEF SeeDone, OneEmit, StillEmpty, HeldIsList, OnItsWay, Newest, storeVars, emitVars
  <2> QED
    BY <1>4, <2>1, <2>2, <2>3 DEF Pump
<1>5. CASE UNCHANGED vars
  BY <1>5 DEF vars, storeVars, emitVars, consumerVars, OneEmit, StillEmpty, HeldIsList, OnItsWay, Newest
<1> QED
  BY <1>1, <1>2, <1>3, <1>4, <1>5 DEF Next

\* No event is lost between store, timer, emit and channel while no emit
\* outlasts a window.
THEOREM ListerNoEventLost == Spec => []NoEventLost
<1>1. TypeInv /\ EventInv => NoEventLost
  BY DEF EventInv, OnItsWay, NoEventLost, AtRest, Listing
<1> QED
  BY ListerTypeInv, EventInit, EventStep, <1>1, PTL DEF Spec

-----------------------------------------------------------------------------
(* No list gives way to an older one.                                      *)

\* While no emit has started before another was over, the table never goes
\* back, and what emit drains is no newer than what it puts in: the comment at
\* resource_lister.go:131 holds as long as an emit fits in the window.
StepForward ==
  ~overlapped' =>
    /\ table' >= table
    /\ \A e \in Emits : emit[e] = "drain" /\ emit'[e] = "resend" /\ snapshot # <<>>
         => Head(snapshot) <= objs[e]
MovesForward == [][StepForward]_vars

\* The lists on their way are as old as they are far: the table, then the
\* message, the channel, the emit and the store.
InOrder(older, newer) == ~overlapped => older <= newer
InMessage  == consumer = "handling" => InOrder(table, held) /\ held <= store
InChannel  == snapshot # <<>> =>
                /\ Head(snapshot) <= store
                /\ InOrder(table, Head(snapshot))
                /\ consumer = "handling" => InOrder(held, Head(snapshot))
InEmit(e)  == emit[e] \in Listing =>
                /\ objs[e] <= store
                /\ InOrder(table, objs[e])
                /\ consumer = "handling" => InOrder(held, objs[e])
                /\ snapshot # <<>> => InOrder(Head(snapshot), objs[e])
OrderInv == table <= store /\ InMessage /\ InChannel /\ \A e \in Emits : InEmit(e)

LEMMA OrderInit == Init => OrderInv
BY DEF Init, OrderInv, InMessage, InChannel, InEmit, InOrder, Listing

\* The numbers that are compared are numbers.
LEMMA ListsAreNumbers ==
  ASSUME TypeInv
  PROVE  /\ store \in Nat /\ held \in Nat /\ table \in Nat
         /\ \A e \in Emits : objs[e] \in Nat
         /\ snapshot # <<>> => Head(snapshot) \in Nat
<1>1. snapshot \in Seq(Versions) /\ Len(snapshot) <= 1
  BY DEF TypeInv, TypeOK
<1>2. snapshot # <<>> => Head(snapshot) \in Versions
  BY <1>1, ChannelFull
<1> QED
  BY <1>2, VersionAssumption DEF TypeInv, TypeOK, Versions, Lists

\* Every step keeps them in order.
LEMMA OrderStep == TypeInv /\ EventInv /\ OrderInv /\ TypeInv' /\ [Next]_vars => OrderInv'
<1> SUFFICES ASSUME TypeInv, EventInv, OrderInv, TypeInv', [Next]_vars PROVE OrderInv'
  OBVIOUS
<1>n. /\ store \in Nat /\ held \in Nat /\ table \in Nat
      /\ \A e \in Emits : objs[e] \in Nat
      /\ snapshot # <<>> => Head(snapshot) \in Nat
  BY ListsAreNumbers
<1>t. /\ emit \in [Emits -> {"free", "due", "send", "drain", "resend"}] /\ objs \in [Emits -> Lists]
      /\ snapshot \in Seq(Versions) /\ Len(snapshot) <= 1 /\ overlapped \in BOOLEAN
  BY DEF TypeInv, TypeOK
<1> USE DEF OrderInv, InMessage, InChannel, InEmit, InOrder
<1>1. CASE Informer
  BY <1>1, <1>n DEF Informer, StoreEvent, Resync, Notified, Bump, emitVars, consumerVars
<1>2. CASE Switch
  BY <1>2, <1>n DEF Switch, Synced, SyncTimesOut, TearDown, storeVars, emitVars, consumerVars
<1>3. ASSUME NEW e \in Emits, Emit(e) PROVE OrderInv'
  <2>1. CASE TimerExpires(e)
    <3>1. ~overlapped' => ~overlapped
      BY <2>1 DEF TimerExpires
    <3> QED
      BY <2>1, <3>1, <1>n, <1>t DEF TimerExpires, Listing, storeVars, consumerVars
  <2>2. CASE ListStore(e)
    <3>1. objs' = [objs EXCEPT ![e] = store] /\ emit' = [emit EXCEPT ![e] = "send"]
      BY <2>2 DEF ListStore
    <3>2. \A f \in Emits \ {e} : InEmit(f)'
      BY <2>2, <3>1, <1>n, <1>t DEF ListStore, Listing, storeVars, consumerVars
    <3>3. objs'[e] = store
      BY <3>1, <1>t
    <3>4. InOrder(table, store) /\ (consumer = "handling" => InOrder(held, store))
          /\ (snapshot # <<>> => InOrder(Head(snapshot), store))
      OBVIOUS
    <3>5. UNCHANGED <<store, overlapped, snapshot, consumer, held, table>>
      BY <2>2 DEF ListStore, storeVars, consumerVars
    <3>6. InEmit(e)'
      BY <3>3, <3>4, <3>5, <1>n
    <3> QED
      BY <3>2, <3>5, <3>6
  <2>3. ASSUME Send(e) \/ Resend(e) PROVE OrderInv'
    <3>0. /\ emit[e] \in Listing /\ objs[e] \in Versions
          /\ UNCHANGED <<store, objs, overlapped, consumer, held, table>>
      BY <2>3 DEF Send, Resend, Listing, TypeInv, ListTaken, storeVars, consumerVars
    <3>1. \A f \in Emits \ {e} : emit'[f] = emit[f]
      BY <2>3, <1>t DEF Send, Resend, SendOr
    <3>2. CASE HasRoom
      <4>1. snapshot' # <<>> /\ Head(snapshot') = objs[e] /\ emit'[e] = "free"
        BY <2>3, <3>0, <3>2, <1>t, ChannelSent DEF Send, Resend, SendOr, HasRoom
      <4>2. ASSUME NEW f \in Emits \ {e}, emit[f] \in Listing PROVE overlapped
        BY <3>0, <4>2 DEF EventInv, OneEmit, Listing
      <4>3. \A f \in Emits : InEmit(f)'
        BY <3>0, <3>1, <4>1, <4>2, <1>n DEF Listing
      <4>4. InChannel'
        BY <3>0, <4>1
      <4> QED
        BY <3>0, <4>3, <4>4
    <3>3. CASE ~HasRoom
      <4>1. snapshot' = snapshot
        BY <2>3, <3>3 DEF Send, Resend, SendOr
      <4>2. emit'[e] \in Listing => emit[e] \in Listing
        BY <3>0
      <4>3. \A f \in Emits : InEmit(f)'
        BY <3>0, <3>1, <4>1, <4>2
      <4> QED
        BY <3>0, <4>1, <4>3
    <3> QED
      BY <3>2, <3>3
  <2>4. CASE Drain(e)
    <3>1. snapshot' = <<>>
      BY <2>4, <1>t, ChannelFull DEF Drain, Drained
    <3> QED
      BY <2>4, <3>1, <1>t DEF Drain, Listing, storeVars, consumerVars
  <2> QED
    BY <1>3, <2>1, <2>2, <2>3, <2>4 DEF Emit
<1>4. CASE Pump
  <2>1. CASE Receive
    <3>1. /\ snapshot # <<>> /\ snapshot' = <<>> /\ held' = Head(snapshot) /\ consumer' = "handling"
          /\ UNCHANGED <<store, objs, emit, overlapped, table>>
      BY <2>1, <1>t, ChannelFull DEF Receive, storeVars, emitVars
    <3> QED
      BY <3>1, <1>n
  <2>2. CASE Show
    BY <2>2, <1>n DEF Show, storeVars, emitVars
  <2>3. CASE SeeDone
    BY <2>3, <1>n DEF SeeDone, storeVars, emitVars
  <2> QED
    BY <1>4, <2>1, <2>2, <2>3 DEF Pump
<1>5. CASE UNCHANGED vars
  BY <1>5 DEF vars, storeVars, emitVars, consumerVars
<1> QED
  BY <1>1, <1>2, <1>3, <1>4, <1>5 DEF Next

\* A list in the right place steps forward.
LEMMA ForwardStep == TypeInv /\ OrderInv /\ [Next]_vars => [StepForward]_vars
<1> SUFFICES ASSUME TypeInv, OrderInv, Next PROVE StepForward
  OBVIOUS
<1>n. held \in Nat /\ table \in Nat
  BY ListsAreNumbers
<1>o. ~overlapped' => ~overlapped
  BY DEF Next, Informer, StoreEvent, Resync, Notified, Switch, Synced, SyncTimesOut, TearDown, Emit,
     TimerExpires, ListStore, Send, Drain, Resend, Pump, Receive, Show, SeeDone, emitVars
<1>1. ~overlapped => \A e \in Emits : emit[e] = "drain" /\ snapshot # <<>> => Head(snapshot) <= objs[e]
  BY DEF OrderInv, InEmit, InOrder, Listing
<1>2. table' = table \/ (consumer = "handling" /\ table' = held)
  BY DEF Next, Informer, StoreEvent, Resync, Notified, Switch, Synced, SyncTimesOut, TearDown, Emit,
     TimerExpires, ListStore, Send, Drain, Resend, Pump, Receive, Show, SeeDone, consumerVars
<1>3. ~overlapped => table' >= table
  BY <1>2, <1>n DEF OrderInv, InMessage, InOrder
<1> QED
  BY <1>o, <1>1, <1>3 DEF StepForward

\* The table never goes back and no fresh list is dropped in favour of a stale
\* one, unless an emit outlasts a window.
THEOREM ListerMovesForward == Spec => MovesForward
BY ListerTypeInv, EventInit, EventStep, OrderInit, OrderStep, ForwardStep, TypeStep, PTL DEF Spec, MovesForward
=============================================================================
