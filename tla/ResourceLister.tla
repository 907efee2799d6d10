--------------------------- MODULE ResourceLister ---------------------------
(***************************************************************************)
(* One lister of kube/resource_lister.go, from its start by                *)
(* ResourceService.Switch to its tear-down by the next one, and the        *)
(* waitForResource pump that reads it.                                     *)
(*                                                                         *)
(* The informer applies events to its store and then runs the handlers,    *)
(* which only restart a debounce timer; when the timer expires, emit runs  *)
(* in a goroutine of its own: it lists the store, and sends the list on a  *)
(* channel of one, after taking out what is in the way.  emit holds no     *)
(* lock, so an emit that is slower than the debounce window meets the next *)
(* one.                                                                    *)
(*                                                                         *)
(* A list is the version of the store it was taken from; 0 is none.  The   *)
(* sort is left out: it changes nothing between two lists.                 *)
(***************************************************************************)
EXTENDS Naturals, Sequences, FiniteSets

CONSTANTS
  Emits,       \* bound: the emit goroutines that can be in flight at once
  MaxVersion,  \* bound: versions of the store
  MaxNotices   \* bound: handler calls the informer has queued

ASSUME VersionAssumption == MaxVersion \in Nat \ {0}
ASSUME NoticesAssumption == MaxNotices \in Nat \ {0}

VARIABLES
  store,       \* version of the informer's store
  empty,       \* it holds no object
  notices,     \* handler calls not yet run
  start,       \* Start: "syncing", "done" or "failed"
  debounce,    \* "nil", "armed" or "fired"
  emit,        \* where each emit goroutine is
  objs,        \* the list it holds
  snapshot,    \* the snapshot channel
  done,        \* the done channel of ResourceService is closed
  consumer,    \* the pump: "none" before Switch has returned
  held,        \* the list in its message
  table,       \* the list shown
  overlapped   \* history: an emit has started before another one was over

storeVars    == <<store, empty, notices>>
emitVars     == <<emit, objs, overlapped>>
consumerVars == <<consumer, held, table>>
vars == <<storeVars, start, debounce, emitVars, snapshot, done, consumerVars>>

Versions == 1..MaxVersion
Lists    == Versions \union {0}

TypeOK ==
  /\ store \in Versions
  /\ empty \in BOOLEAN
  /\ notices \in 0..MaxNotices
  /\ start \in {"syncing", "done", "failed"}
  /\ debounce \in {"nil", "armed", "fired"}
  /\ emit \in [Emits -> {"free", "due", "send", "drain", "resend"}]
  /\ objs \in [Emits -> Lists]
  /\ snapshot \in Seq(Versions)
  /\ Len(snapshot) <= 1
  /\ done \in BOOLEAN
  /\ consumer \in {"none", "waiting", "handling", "gone"}
  /\ held \in Lists
  /\ table \in Lists
  /\ overlapped \in BOOLEAN

\* The lister is built and its factory started; the store is still empty.
Init ==
  /\ store = 1 /\ empty = TRUE /\ notices = 0
  /\ start = "syncing"
  /\ debounce = "nil"
  /\ emit = [e \in Emits |-> "free"]
  /\ objs = [e \in Emits |-> 0]
  /\ snapshot = <<>>
  /\ done = FALSE
  /\ consumer = "none" /\ held = 0 /\ table = 0
  /\ overlapped = FALSE

-----------------------------------------------------------------------------
(* The informer.                                                           *)

\* An add, update or delete reaches the store; its handler is yet to run.
\* An informer that was cancelled may still be at it.
StoreEvent ==
  /\ store < MaxVersion
  /\ notices < MaxNotices
  /\ store' = store + 1
  /\ empty' \in BOOLEAN
  /\ notices' = notices + 1
  /\ UNCHANGED <<start, debounce, emitVars, snapshot, done, consumerVars>>

NoResync == FALSE

\* Every resync interval each object gets a synthetic update.
Resync ==
  /\ start = "done"
  /\ ~done
  /\ ~empty
  /\ notices < MaxNotices
  /\ notices' = notices + 1
  /\ UNCHANGED <<store, empty, start, debounce, emitVars, snapshot, done, consumerVars>>

\* time.AfterFunc the first time, Reset ever after.
AfterFuncOnly == debounce' = IF debounce = "nil" THEN "armed" ELSE debounce
Bump          == debounce' = "armed"

\* A handler runs.
Notified ==
  /\ notices > 0
  /\ notices' = notices - 1
  /\ Bump
  /\ UNCHANGED <<store, empty, start, emitVars, snapshot, done, consumerVars>>

-----------------------------------------------------------------------------
(* Switch.                                                                 *)

NoFirstBump == UNCHANGED debounce
FirstBump   == Bump

\* The cache is synced: Start forces a first snapshot, Switch returns the
\* channels and the model pumps them.
Synced ==
  /\ start = "syncing"
  /\ start' = "done"
  /\ FirstBump
  /\ consumer' = "waiting"
  /\ UNCHANGED <<storeVars, emitVars, snapshot, done, held, table>>

\* SyncTimeout has passed: Switch cancels the lister and returns an error.
SyncTimesOut ==
  /\ start = "syncing"
  /\ start' = "failed"
  /\ UNCHANGED <<storeVars, debounce, emitVars, snapshot, done, consumerVars>>

\* The next Switch.  The debounce timer is not stopped.
TearDown ==
  /\ start = "done"
  /\ ~done
  /\ done' = TRUE
  /\ UNCHANGED <<storeVars, start, debounce, emitVars, snapshot, consumerVars>>

-----------------------------------------------------------------------------
(* emit.                                                                   *)

\* The timer expires: an emit starts, whether or not one is under way.
TimerExpires(e) ==
  /\ debounce = "armed"
  /\ emit[e] = "free"
  /\ debounce' = "fired"
  /\ emit' = [emit EXCEPT ![e] = "due"]
  /\ overlapped' = (overlapped \/ \E f \in Emits \ {e} : emit[f] # "free")
  /\ UNCHANGED <<storeVars, start, objs, snapshot, done, consumerVars>>

ListStore(e) ==
  /\ emit[e] = "due"
  /\ emit' = [emit EXCEPT ![e] = "send"]
  /\ objs' = [objs EXCEPT ![e] = store]
  /\ UNCHANGED <<storeVars, start, debounce, overlapped, snapshot, done, consumerVars>>

\* A send on the channel of one, or the default of its select.
HasRoomForOneMore == Len(snapshot) <= 1
HasRoom           == snapshot = <<>>
SendOr(e, otherwise) ==
  /\ snapshot' = IF HasRoom THEN Append(snapshot, objs[e]) ELSE snapshot
  /\ emit' = [emit EXCEPT ![e] = IF HasRoom THEN "free" ELSE otherwise]

Send(e) ==
  /\ emit[e] = "send"
  /\ SendOr(e, "drain")
  /\ UNCHANGED <<storeVars, start, debounce, objs, overlapped, done, consumerVars>>

\* What is in the way is taken out, unless it is gone by now.
NothingDrained == snapshot
Drained == IF snapshot = <<>> THEN snapshot ELSE Tail(snapshot)
Drain(e) ==
  /\ emit[e] = "drain"
  /\ snapshot' = Drained
  /\ emit' = [emit EXCEPT ![e] = "resend"]
  /\ UNCHANGED <<storeVars, start, debounce, objs, overlapped, done, consumerVars>>

\* If another emit was faster, this list is dropped.
Resend(e) ==
  /\ emit[e] = "resend"
  /\ SendOr(e, "free")
  /\ UNCHANGED <<storeVars, start, debounce, objs, overlapped, done, consumerVars>>

-----------------------------------------------------------------------------
(* The pump.                                                               *)

\* waitForResource receives a list, even if done is closed too.
Receive ==
  /\ consumer = "waiting"
  /\ snapshot # <<>>
  /\ snapshot' = Tail(snapshot)
  /\ held' = Head(snapshot)
  /\ consumer' = "handling"
  /\ UNCHANGED <<storeVars, start, debounce, emitVars, done, table>>

\* Update shows it and pumps again.
Show ==
  /\ consumer = "handling"
  /\ table' = held
  /\ held' = 0
  /\ consumer' = "waiting"
  /\ UNCHANGED <<storeVars, start, debounce, emitVars, snapshot, done>>

\* waitForResource sees done, even if a list is waiting.
DoneIgnored == FALSE
SeeDone ==
  /\ consumer = "waiting"
  /\ done
  /\ consumer' = "gone"
  /\ UNCHANGED <<storeVars, start, debounce, emitVars, snapshot, done, held, table>>

-----------------------------------------------------------------------------
Informer == StoreEvent \/ Resync \/ Notified
Switch   == Synced \/ SyncTimesOut \/ TearDown
Emit(e)  == TimerExpires(e) \/ ListStore(e) \/ Send(e) \/ Drain(e) \/ Resend(e)
Pump     == Receive \/ Show \/ SeeDone

Next == Informer \/ Switch \/ (\E e \in Emits : Emit(e)) \/ Pump

Spec == Init /\ [][Next]_vars

(* The informer runs its handlers and resyncs, goroutines run, an armed     *)
(* timer expires, Start returns within SyncTimeout, and the Bubble Tea loop *)
(* goes on.  Receive is strongly fair: Go hands a value that is sent to the *)
(* receiver that waits, so no drain can come between for ever.  Nothing is  *)
(* assumed of the cluster or the user.                                      *)
ListerSpec ==
  /\ Spec
  /\ WF_vars(Notified) /\ WF_vars(Resync)
  /\ WF_vars(Synced \/ SyncTimesOut)
  /\ \A e \in Emits : WF_vars(Emit(e))
  /\ WF_vars(Show) /\ WF_vars(SeeDone) /\ SF_vars(Receive)

-----------------------------------------------------------------------------
(* Properties.                                                             *)

\* No event is lost between the store, the timer, emit and the channel: when
\* nothing is under way any more, the newest list there is is the store's, as
\* long as no emit outlasted a window.
Newest == IF snapshot # <<>> THEN Head(snapshot) ELSE IF held # 0 THEN held ELSE table
AtRest == notices = 0 /\ debounce # "armed" /\ \A e \in Emits : emit[e] = "free"
NoEventLost == start = "done" /\ AtRest /\ ~overlapped => Newest = store

\* Once the cluster is quiet, the table comes to show the store and stays so.
\* Lists lost to overlapping emits are made up for by the resync, of which
\* informers.go says "so a slow consumer eventually re-reads stale state"; a
\* store without objects has none.
TableCatchesUp ==
  <>[](start = "failed" \/ done \/ table = store \/ (empty /\ overlapped))

\* A namespace with nothing in it shows its empty table: the first list comes
\* without any event.
FirstListShown == (start = "done") ~> (table # 0 \/ done)

\* A pump whose stream is torn down ends, even if lists keep coming for a
\* while, and does not leak its goroutine.
PumpEnds == done ~> (consumer = "gone")

-----------------------------------------------------------------------------
(* What the comments of kube/resource_lister.go say.                       *)

\* resource_lister.go:131, "Drop the stale snapshot in favour of the fresh
\* one": what an emit takes out is no newer than what it puts in.
StaleGivesWay ==
  [][\A e \in Emits : emit[e] = "drain" /\ emit'[e] = "resend" /\ snapshot # <<>>
       => Head(snapshot) <= objs[e]]_vars
=============================================================================
