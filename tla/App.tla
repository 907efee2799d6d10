-------------------------------- MODULE App --------------------------------
(***************************************************************************)
(* The Bubble Tea model of tui/app.go: its key and message handlers, the   *)
(* commands they start, and the streams behind them (one ResourceService   *)
(* per kind, one LogService, the diagnosis sessions).                      *)
(*                                                                         *)
(* Update handles one message at a time, but every command runs in a       *)
(* goroutine of its own: commands finish in any order, and the messages    *)
(* they return reach Update in any order, after whatever keys the user     *)
(* pressed meanwhile.  cmds and msgs are bags because two identical pumps  *)
(* can wait on one channel.                                                *)
(*                                                                         *)
(* Streams, sessions and modals are numbered in the order of their         *)
(* creation; 0 is Go's nil.  A channel and its done channel are always     *)
(* assigned together and are one number.  A streamer, a lister and a       *)
(* session appear here only as what their own modules show of them.        *)
(***************************************************************************)
EXTENDS Naturals, Sequences, Bags

CONSTANTS
  Kinds, HomeKind, PodKind,  \* resource kinds; the one shown first; "po"
  ClusterKinds,              \* the cluster-scoped ones
  Namespaces, HomeNamespace, \* namespaces; the one kbark starts in
  Names,                     \* names of the rows of a table
  Inputs,                    \* bound: what the user and the cluster do in a run
  MaxStreams,                \* bound: resource streams opened
  MaxVersion,                \* bound: snapshots a resource stream emits
  MaxLogs, MaxBatches,       \* bound: log streams opened, batches of each
  MaxModals, MaxEvents,      \* bound: diagnoses opened, deltas and calls of each
  MaxInFlight,               \* bound: commands and messages pending when a key is pressed
  AIConfigured               \* an AI provider and the context builders are wired

ASSUME KindsAssumption == HomeKind \in Kinds /\ HomeNamespace \in Namespaces
ASSUME InputsAssumption ==
  Inputs \subseteq {"kind", "ns", "home", "help", "logs", "diagnose", "describe",
             "failSwitch", "failLogs", "failDescribe"}
ASSUME BoundsAssumption ==
  {MaxStreams, MaxVersion, MaxLogs, MaxBatches, MaxModals, MaxEvents} \subseteq Nat

VARIABLES
  \* the model's own fields
  active, helpPrev, origin, cmdbar, namespace,
  resourceKind, resourceCh, table,
  logsCh, logsPod, logsView,
  diagnoseSession, diagnoseCh, diagnoseView, recorder,
  saved,           \* the transcripts on disk, one for each modal
  describeView,
  \* the services and what they have opened
  resSvc, res,     \* stream of each kind's ResourceService; every stream
  logSvc, logs,    \* stream of the LogService; every stream
  sess, modals,    \* every session; number of diagnoses opened
  \* the Bubble Tea runtime
  cmds, msgs

screenVars   == <<active, helpPrev, cmdbar>>
resourceVars == <<resourceKind, resourceCh, table, resSvc, res>>
logVars      == <<logsCh, logsPod, logsView, logSvc, logs>>
transcriptVars == <<recorder, saved>>
diagnoseVars == <<origin, diagnoseSession, diagnoseCh, diagnoseView, transcriptVars, sess, modals>>
vars == <<screenVars, namespace, resourceVars, logVars, diagnoseVars, describeView, cmds, msgs>>

\* No row is selected, no pod is followed; not a name an object has.
None  == "none"
ASSUME NamesAssumption == None \notin Names
AllNamespaces == "all"
Views == {"resource", "logs", "diagnose", "describe", "help"}

\* How many channels there are for each kind of pump.
Opened == [resource |-> Len(res), logs |-> Len(logs), diagnose |-> Len(sess)]

TypeOK ==
  /\ active \in Views /\ helpPrev \in Views /\ origin \in {"resource", "logs"}
  /\ cmdbar \in BOOLEAN
  /\ namespace \in Namespaces
  /\ resourceKind \in Kinds
  /\ res \in Seq([kind : Kinds, ns : Namespaces \union {AllNamespaces}, live : BOOLEAN, version : 0..MaxVersion,
                  unread : BOOLEAN])
  /\ resSvc \in [Kinds -> 0..Len(res)]
  /\ resourceCh \in 0..Len(res)
  /\ table \in [stream : 0..Len(res), version : 0..MaxVersion]
  /\ logs \in Seq([pod : Names, cancelled : BOOLEAN, done : BOOLEAN, produced : 0..MaxBatches,
                   unread : 0..MaxBatches])
  /\ logSvc \in 0..Len(logs)
  /\ logsCh \in 0..Len(logs)
  /\ logsPod \in Names \union {None}
  /\ logsView \in [pod : Names \union {None}, from : SUBSET (1..Len(logs))]
  /\ sess \in Seq([modal : 1..MaxModals, cancelled : BOOLEAN, closed : BOOLEAN,
                   produced : 0..MaxEvents, queue : Seq({"text", "done", "error"})])
  /\ modals \in 0..MaxModals
  /\ diagnoseSession \in 0..Len(sess)
  /\ diagnoseCh \in 0..Len(sess)
  /\ diagnoseView \in [modal : 0..MaxModals, state : {"streaming", "done", "error"},
                       text : Seq(1..Len(sess)), ended : SUBSET (1..MaxModals)]
  /\ recorder \in [modal : 0..MaxModals, payload : BOOLEAN, text : Seq(1..Len(sess))]
  /\ saved \subseteq [modal : 1..MaxModals, text : Seq(1..Len(sess))]
  /\ \A c \in BagToSet(cmds) :
       c.run \in DOMAIN Opened => c.ch \in 1..Opened[c.run]
  /\ describeView \in [name : Names \union {None}, text : Names \union {None}, failed : BOOLEAN,
                       mode : {"describe", "yaml"}]

-----------------------------------------------------------------------------
(* Commands in flight and messages on their way to Update.                 *)

One(x)  == SetToBag({x})
PumpOfNil(c, ch) == One([run |-> c, ch |-> ch])
Pump(c, ch) == IF ch = 0 THEN EmptyBag ELSE One([run |-> c, ch |-> ch])

\* waitForResource carries the kind it was started with.
ResourcePumpOfNil(ch, kind) == One([run |-> "resource", ch |-> ch, kind |-> kind])
ResourcePump(ch, kind) ==
  IF ch = 0 THEN EmptyBag ELSE One([run |-> "resource", ch |-> ch, kind |-> kind])

\* A message is handled: it leaves msgs, and the handler's commands start.
Handle(msg, started) ==
  /\ BagIn(msg, msgs)
  /\ msgs' = msgs (-) One(msg)
  /\ cmds' = cmds (+) started

\* The run lets the user do this now.
Calm == BagCardinality(cmds (+) msgs) < MaxInFlight
UserMay(input) == input \in Inputs /\ Calm

\* A key is handled.
Press(input, started) ==
  /\ UserMay(input)
  /\ cmds' = cmds (+) started
  /\ UNCHANGED msgs

\* A command returns its message.
Return(cmd, msg) ==
  /\ BagIn(cmd, cmds)
  /\ cmds' = cmds (-) One(cmd)
  /\ msgs' = msgs (+) One(msg)

-----------------------------------------------------------------------------
(* The services.                                                           *)

\* ResourceService.Switch first tears the previous lister down ...
NotTornDown(kind) == res
TornDown(kind) == [i \in DOMAIN res |-> IF i = resSvc[kind] THEN [res[i] EXCEPT !.live = FALSE]
                                        ELSE res[i]]

\* A cluster-scoped kind is watched in all namespaces.
Watched(kind, ns) == IF kind \in ClusterKinds THEN AllNamespaces ELSE ns

\* ... then starts a lister on the namespace, whose first snapshot comes
\* once the cache has synced, or fails and leaves the service with none.
SwitchOpens(kind, ns) ==
  /\ Len(res) < MaxStreams
  /\ res' = Append(TornDown(kind), [kind |-> kind, ns |-> Watched(kind, ns), live |-> TRUE,
                                    version |-> 0, unread |-> FALSE])
  /\ resSvc' = [resSvc EXCEPT ![kind] = Len(res) + 1]
SwitchFails(kind) ==
  /\ "failSwitch" \in Inputs
  /\ res' = TornDown(kind)
  /\ resSvc' = [resSvc EXCEPT ![kind] = 0]

\* LogService cancels its stream, if it has one.
LogsKeptOpen   == logs
LogsCancelled  == IF logSvc = 0 THEN logs ELSE [logs EXCEPT ![logSvc].cancelled = TRUE]
LogServiceStop == logs' = LogsCancelled /\ logSvc' = 0

\* The stashed session, if any, is cancelled and dropped with its channel.
SessionCancelled == IF diagnoseSession = 0 THEN sess
                    ELSE [sess EXCEPT ![diagnoseSession].cancelled = TRUE]
DropKeepsChannel ==
  /\ sess' = SessionCancelled
  /\ diagnoseSession' = 0
  /\ UNCHANGED diagnoseCh
DropSession ==
  /\ sess' = SessionCancelled
  /\ diagnoseSession' = 0
  /\ diagnoseCh' = 0

-----------------------------------------------------------------------------
(* The views and the recorder: what their methods return.                  *)

\* DiagnoseView, reset for a modal.  Which modals' diagnoses ended in it is
\* history: the messages of an end do not say.
NewDiagnoseView(modal) == [modal |-> modal, state |-> "streaming", text |-> <<>>, ended |-> {}]
AppendText(view, ch)   == [view EXCEPT !.text = Append(@, ch)]
Mark(view, what, n)    == [view EXCEPT !.state = what, !.ended = @ \union {n}]

\* DescribeView, reset for an object, whose YAML it holds from the start.
NewDescribeView(name) == [name |-> name, text |-> None, failed |-> FALSE, mode |-> "describe"]
SetDescribe(view, text) == [view EXCEPT !.text = text]
MarkError(view)         == [view EXCEPT !.failed = TRUE]
ToggleMode(view) == [view EXCEPT !.mode = IF @ = "yaml" THEN "describe" ELSE "yaml"]

\* Recorder: a new one, and one that is told the payload of the modal n, or
\* an event.  One of another modal is left alone: its own is out of reach.
New(modal)          == [modal |-> modal, payload |-> FALSE, text |-> <<>>]
SetPayload(rec, n)  == IF rec.modal = n THEN [rec EXCEPT !.payload = TRUE] ELSE rec
AppendDelta(rec, ch) == [rec EXCEPT !.text = Append(@, ch)]

\* Recorder.Save writes nothing before there is a payload.  A recorder has one
\* file, which a later Save writes again.
Save(rec) ==
  IF rec.payload
  THEN {t \in saved : t.modal # rec.modal} \union {[modal |-> rec.modal, text |-> rec.text]}
  ELSE saved

-----------------------------------------------------------------------------
(* Start-up: the home kind is switched by a command.                       *)

EmptyTable == [stream |-> 0, version |-> 0]

Init ==
  /\ active = "resource" /\ helpPrev = "resource" /\ origin = "resource"
  /\ cmdbar = FALSE
  /\ namespace = HomeNamespace
  /\ resourceKind = HomeKind /\ resourceCh = 0 /\ table = EmptyTable
  /\ logsCh = 0 /\ logsPod = None /\ logsView = [pod |-> None, from |-> {}]
  /\ diagnoseSession = 0 /\ diagnoseCh = 0
  /\ diagnoseView = NewDiagnoseView(0)
  /\ recorder = New(0) /\ saved = {}
  /\ describeView = NewDescribeView(None)
  /\ resSvc = [k \in Kinds |-> 0] /\ res = <<>>
  /\ logSvc = 0 /\ logs = <<>>
  /\ sess = <<>> /\ modals = 0
  /\ cmds = One([run |-> "home"]) /\ msgs = EmptyBag

\* Init's command: Switch(home namespace), then HomeReadyMsg or HomeFailedMsg.
HomeSwitched ==
  /\ \/ /\ SwitchOpens(HomeKind, HomeNamespace)
        /\ Return([run |-> "home"], [msg |-> "homeReady", kind |-> HomeKind, ch |-> Len(res) + 1])
     \/ /\ SwitchFails(HomeKind)
        /\ Return([run |-> "home"], [msg |-> "homeFailed"])
  /\ UNCHANGED <<screenVars, namespace, resourceKind, resourceCh, table, logVars, diagnoseVars,
                 describeView>>

HomeReady(kind, ch) ==
  /\ Handle([msg |-> "homeReady", kind |-> kind, ch |-> ch],
            IF kind = resourceKind THEN ResourcePump(ch, kind) ELSE EmptyBag)
  /\ resourceCh' = IF kind = resourceKind THEN ch ELSE resourceCh
  /\ UNCHANGED <<screenVars, namespace, resourceKind, table, resSvc, res, logVars, diagnoseVars,
                 describeView>>

HomeFailed ==
  /\ Handle([msg |-> "homeFailed"], EmptyBag)
  /\ cmdbar' = TRUE
  /\ UNCHANGED <<active, helpPrev, namespace, resourceVars, logVars, diagnoseVars, describeView>>

-----------------------------------------------------------------------------
(* The resource view: kinds, namespaces, snapshots.                        *)

\* switchToResource, up to and including a successful Switch; what it drops
\* besides is left to DropModals.
Mount(kind, ns) ==
  /\ SwitchOpens(kind, ns)
  /\ table' = EmptyTable
  /\ resourceCh' = Len(res) + 1
  /\ resourceKind' = kind
  /\ active' = "resource"

\* What switchToResource drops: the channels of logs and diagnosis and the
\* session.  The log stream itself is not stopped.
DropModals ==
  /\ logsCh' = 0
  /\ DropSession
  /\ UNCHANGED <<logsPod, logsView, logSvc, logs>>

\* switchToResource from a key: both outcomes of Switch.
SwitchToResource(input, kind) ==
  \/ /\ Mount(kind, namespace)
     /\ DropModals
     /\ Press(input, ResourcePump(Len(res) + 1, kind))
     /\ cmdbar' = FALSE
     /\ UNCHANGED <<origin, diagnoseView, transcriptVars, modals>>
  \/ /\ SwitchFails(kind)
     /\ Press(input, EmptyBag)
     /\ cmdbar' = TRUE
     /\ UNCHANGED <<active, resourceKind, resourceCh, table, logVars, diagnoseVars>>

\* ":" opens the command bar in any view; keys then go to it.
OpenCmdbar ==
  /\ ~cmdbar
  /\ Calm
  /\ cmdbar' = TRUE
  /\ UNCHANGED <<active, helpPrev, namespace, resourceVars, logVars, diagnoseVars, describeView,
                 cmds, msgs>>

\* esc closes it.  So do its commands, unless they end in an error.
EscCmdbar ==
  /\ cmdbar
  /\ cmdbar' = FALSE
  /\ UNCHANGED <<active, helpPrev, namespace, resourceVars, logVars, diagnoseVars, describeView,
                 cmds, msgs>>

\* :<kind>
KindCommand(kind) ==
  /\ cmdbar
  /\ SwitchToResource("kind", kind)
  /\ UNCHANGED <<helpPrev, namespace, describeView>>

\* esc in the resource view returns to the home kind.
EscHome ==
  /\ ~cmdbar
  /\ active = "resource"
  /\ resourceKind # HomeKind
  /\ SwitchToResource("home", HomeKind)
  /\ UNCHANGED <<helpPrev, namespace, describeView>>

\* :ns <ns> starts a command that at once returns NamespaceChangedMsg.
NamespaceCommand(ns) ==
  /\ cmdbar
  /\ UserMay("ns")
  /\ msgs' = msgs (+) One([msg |-> "ns", ns |-> ns])
  /\ cmdbar' = FALSE
  /\ UNCHANGED <<active, helpPrev, namespace, resourceVars, logVars, diagnoseVars, describeView,
                 cmds>>

\* handleNamespaceChange: logs are stopped and the session is cancelled
\* first, then the home kind is switched in the new namespace.
NamespaceChanged(ns) ==
  /\ namespace' = ns
  /\ LogServiceStop
  /\ DropSession
  /\ logsCh' = 0
  /\ \/ /\ Mount(HomeKind, ns)
        /\ Handle([msg |-> "ns", ns |-> ns], ResourcePump(Len(res) + 1, HomeKind))
        /\ UNCHANGED cmdbar
     \/ /\ SwitchFails(HomeKind)
        /\ Handle([msg |-> "ns", ns |-> ns], EmptyBag)
        /\ cmdbar' = TRUE
        /\ UNCHANGED <<active, resourceKind, resourceCh, table>>
  /\ UNCHANGED <<helpPrev, logsPod, logsView, origin, diagnoseView, transcriptVars, modals,
                 describeView>>

\* A lister emits: a stale unread snapshot is replaced.  A lister that was
\* torn down may still emit, its debounce timer is not stopped.
ListerEmits(s) ==
  /\ res[s].version < MaxVersion
  /\ res' = [res EXCEPT ![s].version = @ + 1, ![s].unread = TRUE]
  /\ UNCHANGED <<screenVars, namespace, resourceKind, resourceCh, table, resSvc, logVars,
                 diagnoseVars, describeView, cmds, msgs>>

\* waitForResource: select over the snapshots and done.
PumpSnapshot(ch, kind) ==
  /\ res[ch].unread
  /\ res' = [res EXCEPT ![ch].unread = FALSE]
  /\ Return([run |-> "resource", ch |-> ch, kind |-> kind],
            [msg |-> "snapshot", kind |-> kind, ch |-> ch, version |-> res[ch].version])
  /\ UNCHANGED <<screenVars, namespace, resourceKind, resourceCh, table, resSvc, logVars,
                 diagnoseVars, describeView>>

PumpStreamEnd(ch, kind) ==
  /\ ~res[ch].live
  /\ Return([run |-> "resource", ch |-> ch, kind |-> kind], [msg |-> "streamEnd", kind |-> kind])
  /\ UNCHANGED <<screenVars, namespace, resourceVars, logVars, diagnoseVars, describeView>>

\* ResourceSnapshotMsg: the guard compares kinds.  The message carries no
\* stream; ch is its history.
AnyKind(kind)  == TRUE
SameKind(kind) == kind = resourceKind

Snapshot(kind, ch, version) ==
  /\ Handle([msg |-> "snapshot", kind |-> kind, ch |-> ch, version |-> version],
            IF SameKind(kind) THEN ResourcePump(resourceCh, resourceKind) ELSE EmptyBag)
  /\ table' = IF SameKind(kind) THEN [stream |-> ch, version |-> version] ELSE table
  /\ UNCHANGED <<screenVars, namespace, resourceKind, resourceCh, resSvc, res, logVars,
                 diagnoseVars, describeView>>

\* ResourceStreamEndMsg: likewise.
StreamEnd(kind) ==
  /\ Handle([msg |-> "streamEnd", kind |-> kind], EmptyBag)
  /\ resourceCh' = IF SameKind(kind) THEN 0 ELSE resourceCh
  /\ UNCHANGED <<screenVars, namespace, resourceKind, table, resSvc, res, logVars, diagnoseVars,
                 describeView>>

-----------------------------------------------------------------------------
(* Logs.                                                                   *)

\* The row under the cursor; nil while the table is empty.
Selected(name) == ~cmdbar /\ active = "resource" /\ table.stream # 0 /\ name \in Names

\* l on a pod: LogService.Stream cancels its stream and opens one, or fails.
OpenLogs(pod) ==
  /\ Selected(pod)
  /\ resourceKind = PodKind
  /\ \/ /\ Len(logs) < MaxLogs
        /\ logs' = Append(LogsCancelled, [pod |-> pod, cancelled |-> FALSE, done |-> FALSE,
                                          produced |-> 0, unread |-> 0])
        /\ logSvc' = Len(logs) + 1
        /\ logsCh' = Len(logs) + 1
        /\ active' = "logs"
        /\ logsView' = [pod |-> pod, from |-> {}]
        /\ logsPod' = pod
        /\ Press("logs", Pump("logs", Len(logs) + 1))
        /\ UNCHANGED cmdbar
     \/ /\ "failLogs" \in Inputs
        /\ LogServiceStop
        /\ cmdbar' = TRUE
        /\ Press("logs", EmptyBag)
        /\ UNCHANGED <<logsCh, active, logsView, logsPod>>
  /\ UNCHANGED <<helpPrev, namespace, resourceVars, diagnoseVars, describeView>>

\* esc in the logs view.
CloseLogs ==
  /\ ~cmdbar
  /\ active = "logs"
  /\ LogServiceStop
  /\ active' = "resource"
  /\ logsCh' = 0
  /\ logsPod' = None
  /\ UNCHANGED <<helpPrev, cmdbar, namespace, resourceVars, logsView, diagnoseVars, describeView,
                 cmds, msgs>>

\* The streamer sends a batch, at times one of a timer goroutine that outlives
\* it; it closes done at the end of the log or once it is cancelled.
StreamerSends(s) ==
  /\ logs[s].produced < MaxBatches
  /\ logs' = [logs EXCEPT ![s].produced = @ + 1, ![s].unread = @ + 1]
  /\ UNCHANGED <<screenVars, namespace, resourceVars, logsCh, logsPod, logsView, logSvc,
                 diagnoseVars, describeView, cmds, msgs>>

StreamerEnds(s) ==
  /\ ~logs[s].done
  /\ logs' = [logs EXCEPT ![s].done = TRUE]
  /\ UNCHANGED <<screenVars, namespace, resourceVars, logsCh, logsPod, logsView, logSvc,
                 diagnoseVars, describeView, cmds, msgs>>

\* waitForLogs: select over the batches and done.
PumpBatch(ch) ==
  /\ logs[ch].unread > 0
  /\ logs' = [logs EXCEPT ![ch].unread = @ - 1]
  /\ Return([run |-> "logs", ch |-> ch], [msg |-> "logsBatch", ch |-> ch])
  /\ UNCHANGED <<screenVars, namespace, resourceVars, logsCh, logsPod, logsView, logSvc,
                 diagnoseVars, describeView>>

PumpLogsEnd(ch) ==
  /\ logs[ch].done
  /\ Return([run |-> "logs", ch |-> ch], [msg |-> "logsEnd"])
  /\ UNCHANGED <<screenVars, namespace, resourceVars, logVars, diagnoseVars, describeView>>

\* LogsBatchMsg is appended to whatever log is shown.  The message carries no
\* stream; ch is its history.
LogsBatch(ch) ==
  /\ Handle([msg |-> "logsBatch", ch |-> ch], Pump("logs", logsCh))
  /\ logsView' = [logsView EXCEPT !.from = @ \union {ch}]
  /\ UNCHANGED <<screenVars, namespace, resourceVars, logsCh, logsPod, logSvc, logs, diagnoseVars,
                 describeView>>

LogsEnd ==
  /\ Handle([msg |-> "logsEnd"], EmptyBag)
  /\ logsCh' = 0
  /\ UNCHANGED <<screenVars, namespace, resourceVars, logsPod, logsView, logSvc, logs,
                 diagnoseVars, describeView>>

-----------------------------------------------------------------------------
(* Diagnosis.                                                              *)

OldRecorder == UNCHANGED recorder
NewRecorder == recorder' = New(modals + 1)

\* What the three openDiagnose handlers share: the view is reset, a recorder
\* is made and a command builds the context.
OpenModal(input, from) ==
  /\ modals < MaxModals
  /\ modals' = modals + 1
  /\ origin' = from
  /\ active' = "diagnose"
  /\ NewRecorder
  /\ diagnoseView' = LET view == NewDiagnoseView(modals + 1)
                     IN  IF AIConfigured THEN view ELSE Mark(view, "error", modals + 1)
  /\ Press(input, IF AIConfigured THEN One([run |-> "start", modal |-> modals + 1]) ELSE EmptyBag)
  /\ UNCHANGED <<helpPrev, cmdbar, namespace, resourceVars, logVars, diagnoseSession, diagnoseCh,
                 sess, saved, describeView>>

\* ? on a row, of a pod or of any other kind.
OpenDiagnose(name) ==
  /\ Selected(name)
  /\ OpenModal("diagnose", "resource")

\* ? on a log line.
OpenDiagnoseForLog ==
  /\ ~cmdbar
  /\ active = "logs"
  /\ logsPod # None
  /\ logsView.from # {}
  /\ OpenModal("diagnose", "logs")

\* esc in the modal: the session is cancelled, the view below returns.
CloseDiagnose ==
  /\ ~cmdbar
  /\ active = "diagnose"
  /\ DropSession
  /\ active' = origin
  /\ origin' = "resource"
  /\ UNCHANGED <<helpPrev, cmdbar, namespace, resourceVars, logVars, diagnoseView, transcriptVars, modals,
                 describeView, cmds, msgs>>

\* The start command has built the payload and told the recorder.  Over the
\* token budget it returns an error; else it starts a session, which nobody but
\* its message knows.
StartSession(n) ==
  /\ sess' = Append(sess, [modal |-> n, cancelled |-> FALSE, closed |-> FALSE, produced |-> 0,
                           queue |-> <<>>])
  /\ recorder' = SetPayload(recorder, n)
  /\ Return([run |-> "start", modal |-> n], [msg |-> "started", ch |-> Len(sess) + 1])
  /\ UNCHANGED <<screenVars, namespace, resourceVars, logVars, origin, diagnoseSession, diagnoseCh,
                 diagnoseView, saved, modals, describeView>>

OverBudget(n) ==
  /\ recorder' = SetPayload(recorder, n)
  /\ Return([run |-> "start", modal |-> n], [msg |-> "error", modal |-> n])
  /\ UNCHANGED <<screenVars, namespace, resourceVars, logVars, origin, diagnoseSession, diagnoseCh,
                 diagnoseView, saved, sess, modals, describeView>>

Started(ch) ==
  /\ Handle([msg |-> "started", ch |-> ch], Pump("diagnose", ch))
  /\ diagnoseSession' = ch
  /\ diagnoseCh' = ch
  /\ UNCHANGED <<screenVars, namespace, resourceVars, logVars, origin, diagnoseView, transcriptVars,
                 sess, modals, describeView>>

\* A session emits deltas and tool calls, then a terminal event, then closes
\* (Session.tla); cancelled or at a deadline it may close without one.
SessionEmits(s) ==
  /\ ~sess[s].closed
  /\ sess[s].produced < MaxEvents
  /\ sess' = [sess EXCEPT ![s].produced = @ + 1, ![s].queue = Append(@, "text")]
  /\ UNCHANGED <<screenVars, namespace, resourceVars, logVars, origin, diagnoseSession, diagnoseCh,
                 diagnoseView, transcriptVars, modals, describeView, cmds, msgs>>

SessionEnds(s) ==
  /\ ~sess[s].closed
  /\ \E last \in {<<>>, <<"done">>, <<"error">>} :
       sess' = [sess EXCEPT ![s].closed = TRUE, ![s].queue = @ \o last]
  /\ UNCHANGED <<screenVars, namespace, resourceVars, logVars, origin, diagnoseSession, diagnoseCh,
                 diagnoseView, transcriptVars, modals, describeView, cmds, msgs>>

\* waitForDiagnoseEvent.  The message carries no session; ch and modal are its
\* history.
EventMessage(what, ch) == IF what = "text" THEN [msg |-> "text", ch |-> ch]
                          ELSE [msg |-> what, modal |-> sess[ch].modal]
PumpEvent(ch) ==
  /\ sess[ch].queue # <<>>
  /\ sess' = [sess EXCEPT ![ch].queue = Tail(@)]
  /\ Return([run |-> "diagnose", ch |-> ch], EventMessage(Head(sess[ch].queue), ch))
  /\ UNCHANGED <<screenVars, namespace, resourceVars, logVars, origin, diagnoseSession, diagnoseCh,
                 diagnoseView, transcriptVars, modals, describeView>>

\* A closed channel reads as a DiagnosisDoneMsg.
NothingOnClose(ch) == FALSE
PumpClosed(ch) ==
  /\ sess[ch].queue = <<>>
  /\ sess[ch].closed
  /\ Return([run |-> "diagnose", ch |-> ch], EventMessage("done", ch))
  /\ UNCHANGED <<screenVars, namespace, resourceVars, logVars, diagnoseVars, describeView>>

\* DiagnosisDeltaMsg and DiagnosisToolCallMsg: view and recorder each append.
Text(ch) ==
  /\ Handle([msg |-> "text", ch |-> ch], Pump("diagnose", diagnoseCh))
  /\ diagnoseView' = AppendText(diagnoseView, ch)
  /\ recorder' = AppendDelta(recorder, ch)
  /\ UNCHANGED <<screenVars, namespace, resourceVars, logVars, origin, diagnoseSession, diagnoseCh,
                 saved, sess, modals, describeView>>

\* DiagnosisDoneMsg and DiagnosisErrorMsg; both save the transcript.
SavedWhenDone(what) == saved' = IF what = "done" THEN Save(recorder) ELSE saved
Saved(what)         == saved' = Save(recorder)
Finished(what, n) ==
  /\ Handle([msg |-> what, modal |-> n], EmptyBag)
  /\ diagnoseView' = Mark(diagnoseView, what, n)
  /\ diagnoseCh' = 0
  /\ Saved(what)
  /\ UNCHANGED <<screenVars, namespace, resourceVars, logVars, origin, diagnoseSession, recorder,
                 sess, modals, describeView>>

-----------------------------------------------------------------------------
(* Describe and help.                                                      *)

\* enter on a row: the YAML is there at once, the description comes later.
OpenDescribe(name) ==
  /\ Selected(name)
  /\ describeView' = NewDescribeView(name)
  /\ active' = "describe"
  /\ Press("describe", One([run |-> "describe", name |-> name]))
  /\ UNCHANGED <<helpPrev, cmdbar, namespace, resourceVars, logVars, diagnoseVars>>

DescribeReturns(name) ==
  /\ \E text \in IF "failDescribe" \in Inputs THEN {name, None} ELSE {name} :
       Return([run |-> "describe", name |-> name], [msg |-> "described", text |-> text])
  /\ UNCHANGED <<screenVars, namespace, resourceVars, logVars, diagnoseVars, describeView>>

\* DescribeReadyMsg; without a text, DescribeErrorMsg.
Described(text) ==
  /\ Handle([msg |-> "described", text |-> text], EmptyBag)
  /\ describeView' = IF text = None THEN MarkError(describeView) ELSE SetDescribe(describeView, text)
  /\ UNCHANGED <<screenVars, namespace, resourceVars, logVars, diagnoseVars>>

\* y in the modal.
ToggleYAML ==
  /\ ~cmdbar
  /\ active = "describe"
  /\ describeView' = ToggleMode(describeView)
  /\ UNCHANGED <<screenVars, namespace, resourceVars, logVars, diagnoseVars, cmds, msgs>>

CloseDescribe ==
  /\ ~cmdbar
  /\ active = "describe"
  /\ active' = "resource"
  /\ UNCHANGED <<helpPrev, cmdbar, namespace, resourceVars, logVars, diagnoseVars, describeView, cmds,
                 msgs>>

\* :help
HelpCommand ==
  /\ cmdbar
  /\ Press("help", EmptyBag)
  /\ cmdbar' = FALSE
  /\ helpPrev' = active
  /\ active' = "help"
  /\ UNCHANGED <<namespace, resourceVars, logVars, diagnoseVars, describeView>>

CloseHelp ==
  /\ ~cmdbar
  /\ active = "help"
  /\ active' = helpPrev
  /\ UNCHANGED <<helpPrev, cmdbar, namespace, resourceVars, logVars, diagnoseVars, describeView, cmds,
                 msgs>>

-----------------------------------------------------------------------------
Pending  == BagToSet(cmds)
Arriving == BagToSet(msgs)

Key ==
  \/ OpenCmdbar \/ EscCmdbar \/ EscHome \/ CloseLogs \/ CloseDiagnose \/ CloseDescribe \/ ToggleYAML
  \/ HelpCommand \/ CloseHelp \/ OpenDiagnoseForLog
  \/ \E k \in Kinds : KindCommand(k)
  \/ \E ns \in Namespaces : NamespaceCommand(ns)
  \/ \E n \in Names : OpenLogs(n) \/ OpenDiagnose(n) \/ OpenDescribe(n)

Update ==
  \/ HomeFailed \/ LogsEnd
  \/ \E m \in {x \in Arriving : x.msg = "homeReady"} : HomeReady(m.kind, m.ch)
  \/ \E m \in {x \in Arriving : x.msg = "ns"}        : NamespaceChanged(m.ns)
  \/ \E m \in {x \in Arriving : x.msg = "snapshot"}  : Snapshot(m.kind, m.ch, m.version)
  \/ \E m \in {x \in Arriving : x.msg = "streamEnd"} : StreamEnd(m.kind)
  \/ \E m \in {x \in Arriving : x.msg = "logsBatch"} : LogsBatch(m.ch)
  \/ \E m \in {x \in Arriving : x.msg = "started"}   : Started(m.ch)
  \/ \E m \in {x \in Arriving : x.msg = "text"}      : Text(m.ch)
  \/ \E m \in {x \in Arriving : x.msg \in {"done", "error"}} : Finished(m.msg, m.modal)
  \/ \E m \in {x \in Arriving : x.msg = "described"} : Described(m.text)

Command ==
  \/ HomeSwitched
  \/ \E c \in {x \in Pending : x.run = "resource"} :
       PumpSnapshot(c.ch, c.kind) \/ PumpStreamEnd(c.ch, c.kind)
  \/ \E c \in {x \in Pending : x.run = "logs"}     : PumpBatch(c.ch) \/ PumpLogsEnd(c.ch)
  \/ \E c \in {x \in Pending : x.run = "start"}    : StartSession(c.modal) \/ OverBudget(c.modal)
  \/ \E c \in {x \in Pending : x.run = "diagnose"} : PumpEvent(c.ch) \/ PumpClosed(c.ch)
  \/ \E c \in {x \in Pending : x.run = "describe"} : DescribeReturns(c.name)

Source ==
  \/ \E s \in DOMAIN res  : ListerEmits(s)
  \/ \E s \in DOMAIN logs : StreamerSends(s) \/ StreamerEnds(s)
  \/ \E s \in DOMAIN sess : SessionEmits(s) \/ SessionEnds(s)

Next == Key \/ Update \/ Command \/ Source

Spec == Init /\ [][Next]_vars

\* Of diagnosis n (there are no more sessions than modals): its messages, its
\* commands, and its session's end.  Every message waits in a goroutine of its
\* own for the loop to receive it, every command runs in one, so no key and no
\* other message keeps them back; a session ends by itself (SessionEnds of
\* Session.tla).
DiagnosisGoesOn(n) ==
  \/ Started(n) \/ Text(n) \/ \E what \in {"done", "error"} : Finished(what, n)
  \/ StartSession(n) \/ OverBudget(n)
  \/ n \in DOMAIN sess /\ (PumpEvent(n) \/ PumpClosed(n) \/ SessionEnds(n))

FairSpec == Spec /\ \A n \in 1..MaxModals : WF_vars(DiagnosisGoesOn(n))
-----------------------------------------------------------------------------
(* Properties.                                                             *)

\* Whatever stale snapshots and stream ends come in, the table shows objects
\* of the kind the model is on, and only a stream of that kind is pumped.
ShownKind ==
  /\ table.stream # 0 => res[table.stream].kind = resourceKind
  /\ resourceCh # 0   => res[resourceCh].kind = resourceKind

\* No lister is leaked by switches of kind and namespace, failed ones and the
\* start-up one included: a live stream is its kind's service's.
ServiceOwnsLive ==
  \A s \in DOMAIN res : res[s].live => resSvc[res[s].kind] = s

\* Nor is a log stream, by whatever way the logs view is left: the one that is
\* not cancelled is LogService's, which cancels it before it opens another.
ServiceOwnsLogs ==
  \A s \in DOMAIN logs : ~logs[s].cancelled => logSvc = s

\* The transcript holds what the modal showed, no more and no less, whichever
\* session the text came from.
TranscriptMatchesView ==
  diagnoseView.modal = recorder.modal /\ diagnoseView.text = recorder.text

\* A diagnosis that was started is on screen.  To get to the next one it has to
\* be left.
Shown == AIConfigured /\ active = "diagnose"

\* A failing namespace change dropped the session of the modal and left the
\* modal on screen: its session was handed over, and the model has none.
Abandoned ==
  /\ diagnoseSession = 0
  /\ \E s \in DOMAIN sess : /\ sess[s].modal = diagnoseView.modal
                           /\ ~BagIn([msg |-> "started", ch |-> s], msgs)

\* The modal has had no text and no end but of its own diagnosis.
Undisturbed ==
  /\ diagnoseView.ended \subseteq {diagnoseView.modal}
  /\ \A i \in DOMAIN diagnoseView.text : sess[diagnoseView.text[i]].modal = diagnoseView.modal

\* Its transcript is on disk with all that its session said.
TranscriptWhole ==
  \E t \in saved :
    /\ t.modal = diagnoseView.modal
    /\ \A s \in DOMAIN sess :
         sess[s].modal = t.modal
           => sess[s].closed /\ Len(SelectSeq(t.text, LAMBDA ch : ch = s)) = sess[s].produced

\* A diagnosis that is not left gets its transcript on disk with the whole
\* answer, whether it ends well, fails or is over budget ("the transcript still
\* saves so the user can see what happened", transcript.go 123-125); but for
\* the two ways this code cuts one short, which have findings of their own: a
\* namespace change that fails, and events of an earlier diagnosis.
CutShort        == Abandoned \/ ~Undisturbed
TranscriptSaved == Shown ~> (~Shown \/ TranscriptWhole \/ CutShort)

\* transcript.go on Recorder: "buffers everything that happens during a
\* diagnose session and emits a markdown transcript on Finalize": without the
\* exception for events of an earlier diagnosis.
EverythingSaved == Shown ~> (~Shown \/ TranscriptWhole \/ Abandoned)

\* The session whose events are pumped is the one esc cancels.
PumpedSessionIsStashed == diagnoseCh # 0 => diagnoseSession = diagnoseCh

\* A diagnosis on screen does not stay "streaming" for ever: it ends, fails or
\* is left, whatever starts, events and ends of another come in; unless a
\* failing namespace change has dropped its session.
Streaming == active = "diagnose" /\ diagnoseView.state = "streaming"
StreamingEnds == Streaming ~> (~Streaming \/ Abandoned)

\* waitForDiagnoseEvent: it "must surface a real message: a nil return ... stalls
\* the pump and wedges the session".  Without the exception.
NothingWedges == Streaming ~> ~Streaming

\* messages.go on ResourceStreamEndMsg: "The Model stops issuing
\* waitForResource Cmds for that stream", the one that ended.  So the channel
\* of a live stream is only ever replaced, never dropped.
LiveStreamKept ==
  [][resourceCh # 0 /\ resourceCh' = 0 => ~res[resourceCh].live]_vars

\* messages.go on NamespaceChangedMsg: "The TUI rebinds its informer to the
\* new namespace": the stream pumped is one of the namespace in the footer.
BoundToNamespace ==
  resourceCh # 0 => res[resourceCh].ns = Watched(resourceKind, namespace)

\* transcript.go on Recorder: "Use one per session; the app creates a fresh
\* Recorder on each `?` press": a transcript holds its own session's text.
OneRecorderPerSession ==
  \A i \in DOMAIN recorder.text : sess[recorder.text[i]].modal = recorder.modal

\* messages.go on LogsBatchMsg: it "carries a debounced batch of log lines from
\* the active log streamer": the log on screen has lines of the pod in its title
\* only, which is the pod `?` asks about.
LogsOfPod == \A i \in logsView.from : logs[i].pod = logsView.pod
=============================================================================
