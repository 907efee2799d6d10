# kbark: TLA+ models, checks and proofs

kbark is a terminal UI for Kubernetes with an AI diagnosis modal. This directory models the parts of
it where several goroutines meet – the log streamer, the resource lister, the diagnosis session, the
providers' streaming goroutines, and the Bubble Tea model that owns the views, the streams and the
sessions – and the algorithms between them: the ring of log lines, the conversation on each vendor's
wire, the results of tools, the resolution of profiles. TLC checks the models on small instances;
TLAPS proves the safety properties the passing runs check, three refinements among them, for every
value of the constants (section 4 names what is only model-checked).

All paths below are relative to `src/internal/` unless they start with `cmd/`.

## 1. Inventory

### Components, their state and operations

| component | state it keeps | operations | where |
|---|---|---|---|
| log streamer | line buffer, debounce timer, `closed` (under a mutex); batch channel of 10, error channel, `done` | `run` (scan, flush, close), `append`, `timerFire`, `flush` | `kube/logs.go` |
| log service | the current stream's cancel function | `Stream` (cancels the previous one), `Stop` | `kube/log_service.go` |
| diagnosis session | conversation, pending calls, turn counter, per-turn deadline, event channel of 8 | `Start`, `Cancel`, `runLoop`, `runTurn`, `forwardEvent`, `sendSessionEvent` | `diagnose/session.go` |
| AI providers | the goroutine that reads one response, its accumulator, its event channel of 8 | `Stream`, `runStream`, `sendEvent`, the messages of a request | `ai/*.go` |
| tool dispatcher, payload builders | none (reads the cluster) | `Dispatch`, `BuildContext` and its siblings | `diagnose/tools.go`, `diagnose/*context.go` |
| Bubble Tea model | active view, help's predecessor, modal's origin, namespace, kind; one channel of each kind it pumps; the session; the recorder | `Init`, `Update`, `handleKey`, the `wait…`, `start…` commands | `tui/app.go`, `tui/messages.go` |
| resource service | the lister of one kind | `Switch` (tears down, starts, waits for the cache) | `kube/resource_service.go` |
| resource lister | informer, debounce timer, snapshot channel of one, `done` | `bump`, `emit` | `kube/resource_lister.go` |
| transcript recorder | the text, payload, error and end of one diagnosis | `New`, `AppendDelta`, `AppendToolCall`, `MarkDone`, `Save` | `transcript/transcript.go` |
| logs view | lines, cursor, follow mode, viewport offset | `AppendLines`, `Reset`, `ToggleFollow`, cursor keys, `SetSize`, the focus of `?` | `tui/views/logs.go`, `diagnose/log_context.go` |
| configuration, doctor | none (read at start, and by `:profile`) | `Load`, `Resolve`, `ai.New`, the rows of `kbark doctor` | `config/`, `doctor/`, `cmd/kbark/` |
| other views, command bar | what is on screen | setters, keys | `tui/views/`, `tui/components/` |
| describe service, redaction, token estimate, kinds, clients, command line, themes | none that outlives a call | pure functions, I/O, wiring | see `PROJECT.json` |

### How they interact

- `Update` is sequential: one message at a time. Every command it returns runs in a goroutine of its
  own and sends one message back, in no particular order.
- A stream is *pumped*: a command receives one value from a channel, its message's handler uses the
  value and starts the command again on the channel the model holds **then**. A handler that finds no
  channel ends the pump. Most messages do not say which stream they came from.
- `ResourceService` and `LogService` own at most one live stream each; opening the next one ends the
  previous one. Sessions are owned by whoever handles `DiagnosisStartedMsg`.
- A session forwards what its provider's goroutine sends; both channels are bounded, and the turn's
  deadline and `Cancel` are the ways out of a blocked send.
- The log streamer's timer goroutines release the mutex between taking the buffer and sending it.

### What is hard here

Overlapping timer goroutines and a flush; a full channel; a reader that closes while a timer
goroutine still holds lines; deadlines that race answers and blocked sends; `(false, nil)` returned
both for "done" and for "gave up"; a slow start-up command overtaken by the user; messages of a
stream that has been replaced, which look like those of its successor; four handlers that must each
drop a session together with its channel; switches that fail half-way. `PROJECT.json`'s hazards list
each of them at its line, with the properties that cover it or the reason none does.

### What makes each component correct

- *log streamer*: no line is duplicated or forgotten; nothing touches the buffer of a closed stream;
  cancelled or ended streams close `done`; lines of an open stream reach the view once the log has
  been quiet for a window (a log that is never quiet is a finding).
- *session*: at most one terminal event, and last; every request's conversation is one a provider
  accepts; no call is executed that the user was not shown; a turn, a cancelled session and a session
  whose events are read all end.
- *Bubble Tea model*: the table shows the kind it says; no lister or log stream is leaked; the logs
  view shows the log of its pod; esc cancels the session that is pumped; the transcript is what the
  modal showed; a modal does not stream for ever and its transcript reaches the disk. The code keeps
  the last of these only with exceptions, and not the third: sections 3 and 4 say which.
- *resource lister*: no event is lost between the store and the table; the first list comes without
  any event; the table catches up once the cluster is quiet; the pump of a torn-down lister ends.
- *logs view*: a followed log shows its newest line; otherwise the cursor stays on its line while
  lines are evicted; the line marked in a diagnosis is the one under the cursor.
- *providers*: every call the model made reaches the session, under its own ID if
  the server gives each one; every request is one
  the vendor accepts; one terminal event, last; a goroutine whose context is done ends.
- *tools and payloads*: results are redacted and bounded; a payload over budget is not sent.
- *configuration and doctor*: a diagnosis runs on one profile; the doctor says what the program does.

## 2. Modules

| module | models | state and actions |
|---|---|---|
| `LogFeed` | the abstract promise of a log stream | four variables: lines produced, delivered, given up, whether it is over |
| `LogStreamer` | `kube/logs.go` and the `waitForLogs` consumer | one variable per field and per goroutine position; one action per critical section or channel operation. The mutex is not a variable: what happens under it is one step |
| `LogWindow` | the debounce timer of `kube/logs.go` in time | an endless log, a timer in ticks, the number of batches in the channel; one action per line, expiry, receive and tick. It complements `LogStreamer`, which has the goroutines but a log of a few lines and no clock |
| `Session` | `diagnose/session.go` and a provider | `loop` is the program position of `runLoop`/`runTurn`; `inner` and `emitted`/`taken` are the two channels; one action per `select` branch, call or append. The provider sends texts, calls and an end or an error in any order: OpenAI's goroutine goes on with text, or fails, after calls it has sent |
| `AnswerStream` | the abstract promise of `ai.Provider.Stream`, and of a session | is it open, how much was delivered, is ctx done |
| `Config` | `config/`, `ai/registry.go`, `tokens/`, `doctor/` | operators on an environment: file, flag, keys, endpoints, cluster |
| `Tools` | `diagnose/tools.go`, the payload builders, `redact/` | operators: what a tool returns on good, missing and malformed arguments and on each answer of the API server |
| `Wire` | the request builders of `ai/*.go` | operators: the conversation as each vendor's messages, and what a vendor accepts |
| `Diagnose` | the above composed: start, `:profile`, `?`, the turns, and the vendors' `runStream` goroutines with the server | `phase` is where the diagnosis is, `goroutine` where `runStream` is; `queue` holds the events it has yet to send before it goes on, `partial` the call whose fragments are still arriving; one action per chunk, send, close and step of the session. A server may leave out a call's name or ID (`Forgets`), and a connection may close inside a call; `IdAt` looks for an ID as `toolCallIDFor` does |
| `MCDiagnose` | – | environments, clusters, calls and answers for TLC, and two checks of pure operators by `ASSUME` |
| `LogsView` | `tui/views/logs.go`, the key handlers of `app.go` that reach it, `diagnose/log_context.go` | a line is its number in the stream; one action per key, batch, resize, reopening and `?` |
| `ResourceLister` | `kube/resource_lister.go`, its start and tear-down by `ResourceService.Switch`, and the `waitForResource` pump | a list is the version of the informer's store; one action per handler call, timer expiry, step of `emit`, channel operation |
| `App` | `tui/app.go` with the two services, the listers' channels, recorder (its payload and what is saved), modal and describe view | one action per key and message handler (`Key`, `Update`), per command (`Command`), per event of a stream or session (`Source`); `cmds` and `msgs` are the bags of running commands and undelivered messages |
| `SessionProofs`, `LogStreamerProofs`, `ResourceListerProofs`, `LogsViewProofs`, `AppProofs`, `DiagnoseProofs` | – | theorems about the module each is named after |
| `DiagnoseCallsProofs` | – | theorems about the calls of `Diagnose`: from the server to the session, and back in the next request |
| `SeqLemmas` | – | lemmas about sequences of any length: induction, flattening, sorting |

`LogStreamer` implements `LogFeed` through `INSTANCE LogFeed WITH received <- next - 1,
delivered <- shown, lost <- dropped, over <- closed \/ cancelled`, and `Diagnose` implements
`AnswerStream` with the number of events sent as `delivered` and the terminal event as the end of
`open`. `Session` implements the same `AnswerStream` towards its consumer: its stream begins with the
first request and runs over all turns, and `ctxDone` stands for a cancelled session or one that gave up
because of the deadline. `Session` and `Diagnose` look at the same loop from its two sides: `Session`
has every branch of `runLoop` and an arbitrary provider, `Diagnose` every branch of the providers and
a short session.

`App` sees a streamer, a lister and a session through what their own modules show of them: a streamer
sends batches and closes `done`; a session emits texts and tool calls and ends with one terminal
event or none (`session_close` shows why *none* is needed). Streams, sessions and modals are
numbered; 0 is Go's `nil`. A channel and its `done` channel are always assigned together and are one
number. Messages carry the fields their Go types have, plus the number of the stream they came from
where a property speaks of it; handlers do not look at that number.

History variables, which no code has: `served` and `sent` with `taken` (Diagnose), `shown`, `dropped`
(LogStreamer), `returned` (LogWindow), `emitted` with `taken` (Session; their difference is
the channel), an event's `turn`, `logsView.from`, `diagnoseView.ended`, the modal a session and its
messages belong to, the session numbers in the texts of modal and recorder, and `saved`, the
transcripts on disk.

## 3. Runs

| run | question | result |
|---|---|---|
| `log_streamer` | reader, two overlapping timer goroutines, slow consumer, cancellation: are lines kept, is `LogFeed` implemented, does the stream close? | holds |
| `log_window_burst` | "Bursts (10k lines/sec is the design target) flatten into ~10 snapshots/sec" (logs.go:18-19) | violated: every line resets the timer (logs.go:156); a log that is never quiet for a window is never sent |
| `session` | one terminal event, a well-formed conversation, calls shown before they run, `AnswerStream` implemented with the two causes of an end without a terminal event, ends in every case – with a provider that may fail or go on with text after a call | holds |
| `session_close` | "DoneEvent or ErrorEvent emitted then close" (session.go:151-152) | violated: the deadline passes while a call waits for room, and the channel closes with neither |
| `resource_lister` | two emits that may overlap, resyncs, a start that fails, a tear-down: are events lost, does the table catch up, does the pump end? | holds |
| `app_resource` | kinds, namespace changes, failing switches, start-up, descriptions, help over any view, stale snapshots and stream ends: right kind shown, no lister leaked | holds |
| `app_logs` | logs, a diagnosis of a line, `:kind`, `:ns`, failing streams: types and no pump on no channel, no stream leaked by the service | holds |
| `app_diagnosis` | two modals, their start commands, sessions and events, namespace changes that may fail: esc cancels what is pumped; streaming ends; the whole answer is saved | holds, with the two exceptions below |
| `app_stream_end` | "stops issuing waitForResource Cmds for that stream" (messages.go:37-39) | violated: the old stream's end, which names only the kind, drops the new stream's channel |
| `app_namespace` | "rebinds its informer to the new namespace" (messages.go:12-13) | violated: the start-up switch, overtaken by `:ns`, binds the table to the old namespace |
| `logs_view` | batches with eviction, keys, sizes, a reopened view, `?`: newest line followed and in sight, cursor on its line, the right line marked | holds |
| `diagnose` | every way to start, three profiles, two turns on each vendor, responses of text and fragments of calls, names and IDs that may be missing, that finish, drop inside a call or outside, fail or are cancelled anywhere: one profile per diagnosis, requests the vendor accepts, the calls the model made, each under its own ID if all have one, and no ID twice, bounded results, an honest doctor, `AnswerStream` implemented, the goroutine ends | holds |

The two exceptions of `app_diagnosis` are in its properties by name. `StreamingEnds` excuses a modal
whose session a failed namespace change dropped (`Abandoned`); `TranscriptSaved` excuses that, and a
modal ended by an event of the diagnosis before it (`CutShort`), where *saved* means the whole text
the session sent, in a file of that modal, so a truncated transcript does not count.

In the violated runs the property is the quoted sentence; each has an entry under `findings`. More
sentences of the code are stated in the modules and fail in the model. They have no run of their own;
each is seen by adding it to a configuration:

| property | add it to | what TLC shows |
|---|---|---|
| `NothingWedges` ("a nil return … stalls the pump and wedges the session", app.go:1152-1154) | `AppDiagnosis.cfg`, `PROPERTY` | a `:ns` whose switch fails cancels the open modal's session and leaves the modal (app.go:943-957); the delta in flight ends the pump (1137-1138), and the modal streams for ever |
| `EverythingSaved` ("buffers everything that happens during a diagnose session", transcript.go:37-38) | `AppDiagnosis.cfg`, `PROPERTY` | the end of a diagnosis that was left, which carries no session, ends the next one's modal |
| `OneRecorderPerSession` ("Use one per session", transcript.go:38-39) | `AppDiagnosis.cfg`, `INVARIANT` | a session that starts after its modal was left writes into the next modal's transcript |
| `LogsOfPod` ("from the active log streamer", messages.go:18-19) | `AppLogs.cfg` with two `Names`, `INVARIANT` | a batch does not say whose it is (app.go:273-275); one still on its way joins another pod's lines |
| `NoLineDropped` ("no log lines are dropped", logs.go:26) | `LogStreamer.cfg`, `INVARIANT` | a timer goroutine that found the channel full puts its lines back only if the stream is still open; if the log ends in between, they are gone |
| `RetriedOnNextTick` ("retried on the next tick", logs.go:24-25) | `LogWindowBurst.cfg`, `INVARIANT` | no timer is armed after a failed send; the lines wait for the next line of the log |
| `CallsFinished` ("holds the finished text and tool_use blocks", anthropic.go:60-61) | `Diagnose.cfg`, `INVARIANT` | Anthropic's goroutine assembles what has come when the connection closes, and says done (anthropic.go:99-110) |
| `StaleGivesWay` ("Drop the stale snapshot in favour of the fresh one", resource_lister.go:131) | `ResourceLister.cfg`, `PROPERTY` | an emit that outlasts the debounce window takes out the next one's list and puts its older one in; as long as none does it is true, which is the theorem `ListerMovesForward` |

The other findings were met while translating: the model has what the code does, and the entry quotes
what is said elsewhere.

Each property of a passing run is also checked to *fail* for a plausible bug (`mutants`): a dropped
flag test, a mutex released too early, a channel not reset, a missing `select` branch.

### Bounds, and why they are enough

- `LogStreamer`: 3 lines, a channel of 1, 2 timer goroutines. Overlap needs two goroutines and lines
  in each; a full channel needs one batch in it and one more; re-buffering in front of newer lines
  needs a third line. The timer is `armed`/`fired`/`nil`: no durations.
- `LogWindow`: the code's own window and capacity, in ticks of 10 ms (10 of them, 10 batches). The log
  has no end.
- `Session`: 2 turns (a turn after a turn, and the cap), 2 deltas or calls a turn in any order (order of
  results; a text or an error after a call), both channels of capacity 1 (always full after one
  send). In the code the streamer's is 10, a session's and a provider's are 8.
- `App`: `Inputs` says what the user and the cluster do in a run, so that the state space stays small
  while each run asks its own question; `MaxInFlight` = 3 bounds the commands and messages pending
  when a key is pressed – a pump, a stale message and a start command – not those that follow.
  `MaxStreams` 1–3, `MaxLogs` 1–2, `MaxModals` 1–2: a stream and the ones it is mistaken for.
  `MaxVersion`, `MaxBatches`, `MaxEvents` ≤ 1: one value already on its way when its stream is
  replaced. One cluster-scoped and one namespaced kind in `app_resource`; one namespace where no property
  compares namespaces (`:ns` switches all the same), two in `app_namespace`; one name: only `LogsOfPod`
  compares pods. A description that fails (`failDescribe`) is modelled but no run has it: no property
  looks at what a description says. `app_diagnosis` leaves out the logs (`MaxLogs` = 0), which
  share no state with sessions but the cancel at app.go:943-957, which its `:ns` is there for.
- `LogsView`: a ring of 4 that 9 lines go through in batches of up to 3: the ring wraps twice and a
  batch may evict the cursor's line; heights 0, 1, less than the ring and the whole ring; a window of
  one line either side of the focus, so that both its ends are clamped and neither is.
- `Diagnose`: two turns, so that one request carries answers; two chunks in the first response – two
  calls, or a call and text in either order – and one in the second; a call's arguments come in the
  chunk of its name or later. The server leaves out names and IDs in the first response, where two
  calls can be mistaken for each other. A channel of 1; one profile per vendor, on no budget, one that
  is enough and one that is not; Ollama's, whose models get no tools, in an environment of its own.
  Only these two environments get past the budget, the others differ in how the program starts.
- `ResourceLister`: 3 versions and 2 emits: an old list, a newer one that it replaces, and the next.

Deadlock is not checked where a run really stops: a log that ended, a session that closed, bounds
used up with nothing pending.

### Fairness

- `StreamerSpec`: goroutines that can run do, a read on a cancelled request returns, and an armed
  timer expires *unless lines keep coming*: every line resets it (logs.go:156). Not assumed: that the
  upstream produces lines or ends. `ConsumerFairness` – the Bubble Tea loop goes on – is a hypothesis of
  the two properties that need it, not of `CancelClosesDone`.
- `LinesReachView` is stated for behaviours in which no send finds the channel full, or a line comes
  after the last one that did: after a failed send nothing arms the timer again (logs.go:175-182).
  Its log has finitely many lines; what a log without end does to the timer is `LogWindow`'s question,
  and it refutes two sentences of the code.
- `FairSpec` of `LogWindow`: time passes, a timer that is due runs, the consumer reads. Nothing is asked
  of the log: it may fall silent or never pause.
- `SessionSpec`: the session's own goroutine runs and the turn's timer expires (context.WithTimeout).
  Nothing is assumed of the provider, which may stall inside an SDK, nor of the consumer;
  `SessionEnds` has the consumer's fairness as its hypothesis. A tool call returns: it is under the
  session's context and the client's timeouts.
- `ListerSpec`: handlers, goroutines and the resync run, an armed timer expires, `Start` returns within
  its time-out. `Receive` is *strongly* fair: Go hands a value that is sent to the receiver that waits,
  so `emit` cannot for ever take it out again first. An armed timer expires although every event
  postpones it: starvation by a steady stream of events needs durations and is not seen.
- `FairSpec` of `Diagnose`: the provider's goroutine runs, and once ctx is done the client's read
  returns or the server's next ping does (`Interrupted`). Nothing is asked of a server while ctx is
  live, nor of the session: it may never receive again.
- `FairSpec` of `App`: for each diagnosis, its start command, its session, its pump and its messages go
  on (`DiagnosisGoesOn`): each is a goroutine, or waits in the queue of the Bubble Tea loop, so neither
  keys nor other messages keep it back for ever. That a session whose events are read ends by itself is
  `SessionEnds` of `Session`. No key is ever fair.

## 4. Proofs

Everything below holds for every value of the constants that satisfies the assumptions next to them:
positive caps on turns, lines, versions and channels, natural bounds, `None` not a pod's name, the
home kind and namespace among those of the cluster, profiles with natural models and budgets, answers
with a size and a flag. TLC evaluates each assumption in the runs. Every proof has the same shape: an
inductive invariant, one step per action of `Next`, the temporal conclusion by `PTL`.

**`SessionProofs`**
- `SessionTypeOK`. `TypeOK` is not inductive: `runTurn` keeps a done event's argument as stop reason
  and a call's among the pending calls, so `InnerArgs` (the argument of each event in the provider's
  channel matches its kind) is added: `TypeInv == TypeOK /\ InnerArgs`.
- `SessionOneTerminal`. A terminal event may only be sent while none has been, so `TerminalInv` adds
  that nothing terminal was sent while the loop can still send (`NoTerminalYet`) and that a done event
  is never the one being forwarded (`DoneNotForwarded`).
- `SessionConversation`. The only step that extends the conversation appends two messages at once;
  `ConversationInv` adds that its length is odd before it (`UsersTurn`) and that the results collected
  so far answer a prefix of the pending calls in order (`ResultsFollowCalls`).
- `SessionCallsSurfaced`. The property speaks of turns that are over. `ShownInv` says of the turn that
  is not that its pending calls are those sent so far, and the one being forwarded (`PendingShown`),
  and that no event is of a later turn (`TurnsInv`), so that what is sent does not change what an
  earlier turn has shown (`PastShown`). The calls of a turn are picked out of the events by
  flattening, which `SeqLemmas` reasons about.
- `SessionClosesForCause`. A turn is `cancelled` only in a cancelled session, and what `runLoop`
  holds when it sends a terminal event is one (`TerminalHeld`).
- `SessionImplementsStream`: `Spec => Surfaced!ASpec`, which the run checks. It rests on
  `SessionOneTerminal` and `SessionClosesForCause`, and on that nothing is sent before the first
  request (`BegunInv`).

**`LogStreamerProofs`**
- `StreamerTypeOK`, `StreamerClosedBufferFrozen`.
- `StreamerNoLineTwice`, `StreamerNoLineForgotten`: each line read is in exactly one place – shown, in
  the channel, in the consumer's, the reader's or a timer goroutine's hand, in the buffer, or given
  up. The lemmas say what moving one sequence from one place to the next, or appending two, does to
  that partition; each action is one such move.
- `StreamerImplementsFeed`: `Spec => Feed!Spec`. It needs the partition: what the consumer is shown is
  new to it, and what is given up was neither shown nor given up before.

**`ResourceListerProofs`**: `ListerTypeOK`; `ListerNoEventLost`, whose invariant says that a store the
newest list does not show has a notice under way, an armed timer or an emit that has yet to list;
`ListerMovesForward`: while no emit has outlasted a window the table never goes back and emit drops no
list for an older one. Its invariant orders the lists by how far they have come – table, message,
channel, emit, store (`OrderInv`) – and needs that there is one emit at most (`OneEmit`). It is what
the comment at resource_lister.go:131 promises, with the condition it leaves unsaid.

**`LogsViewProofs`**: `LogsViewTypeOK`, `LogsViewFollows`, `LogsViewFocus`, `LogsViewCursor`. The
arithmetic of eviction, clamping and scrolling is in lemmas of its own.

**`AppProofs`**: `AppInvariant` (`Spec => []IInv`) and from it `AppTypeOK`, `AppShownKind`,
`AppOwnsLive`, `AppOwnsLogs`, `AppSessionStashed` and `AppTranscript` (transcript and
modal hold the same text). Messages and commands outlive the state they were made in, so the
invariant says of every command in flight (`CmdInv`) and every message on its way (`MsgInv`) what it
may carry: a pump's and a snapshot's kind is that of its stream, streams, sessions and modals are ones
there have been.

**`DiagnoseProofs`**: `DiagnoseProfileWhole`, `DiagnoseDoctorAgrees`, `DiagnoseResultsBounded`,
`DiagnoseTypeOK`, and the refinement `DiagnoseImplementsStream`. `StreamInv` says where a terminal
event may be: last in the queue of a goroutine that is ending, or last of what was sent, with nothing
left to send; and that a goroutine ending without one was told to stop. `RecentEventsNewest`
and `LogTailClamped` are about the operators of `Tools`: the events shown are the most recent of those
listed, whatever order an unstable sort gives equal ones, for any list of events.

**`DiagnoseCallsProofs`**
- `DiagnoseCallsComplete`. What the goroutine has said – sent, or in its queue – and what it still owes
  (Anthropic's calls until the message is assembled, the call OpenAI's accumulator is in) are together
  the calls the model made, in order and under their IDs (`Accounted`); the one exception is the call
  whose arguments were still arriving when the response broke off (`BrokenAt`). An ID is
  looked for by position among the calls that have a name and an ID, so a call before a nameless one
  may get its successor's; the lemmas (`FoundLabelled`, `LabelKept`, `GivenKept`) show that what is
  found is the ID of the call of that rank, which is the call itself when all are named, that no two
  calls get the same, and that it stays what it was as more fragments come. The rest needs which calls
  a vendor may have made, and be in (`VendorCalls`), that the vendor is a known one (`VendorInv`),
  and from `StreamInv` that nothing is said after a done event.
- `DiagnoseRequestWellFormed`. The last request is the conversation as its vendor is told it, and the
  conversation is one *each* vendor would accept, with an odd number of messages (`Acceptable`,
  `RequestInv`): the property alone is not inductive, since it says nothing of what the next request
  is made from. The lemmas show that the messages of a turn – any number of calls, answered in order –
  keep that when they are appended (`TurnAnswered`, `EarlierKept`, `TurnAcceptable`).

**`SeqLemmas`**. Some operators are defined by recursion or by choice over sequences of any length,
so their equations need induction. The library states induction for a predicate, which the provers
cannot instantiate; `SetInduction` and `SeqInduction` say the same of a *set* of numbers or sequences,
and follow from the library's `WFMin`. From them come how flattening distributes over concatenation,
what picking and mapping elements by flattening gives, and that every sequence can be sorted. These
say nothing of kbark by themselves; the models filter by flattening so that the theorems above can
rest on them.

Only model-checked:

- all liveness (`StreamingEnds`, `TranscriptSaved`, `CancelCloses`, `TableCatchesUp`, `FirstListShown`,
  `PumpEnds`, `CancelClosesDone`, `EndReachesConsumer`, `LinesReachView`, `TurnEnds`, `CancelEnds`,
  `SessionEnds`): fairness and ENABLED are out of the proof system's reach;
- the sentences the model refutes, for which TLC has the counterexample.

## 5. Not modelled

- Durations, but for the log's debounce window (`LogWindow`): the lister's 100 ms, the turn's 60 s, the
  up to 10 s `Switch` waits under its mutex. A steady stream of events that postpones a list for ever
  (resource_lister.go:102) is therefore not seen.
- Text: rendering, titles, prompts, the patterns redaction looks for, the wording of results.
- The columns of the twelve resource kinds, the construction of client-go clients, themes, versions:
  pure functions into strings, or constants.
- YAML parsing, flag parsing, `kbark transcripts` and `kbark ai test`: I/O around what `Config` models.
- In `App`: quitting, the table's filter, models built without services (tests). Window sizes and
  cursor keys are in `LogsView`, `:profile` in `Diagnose`.
- The data race on the recorder (transcript.go:41-44 against app.go:1044): the start command and
  `Update` touch different fields but for the payload, which `App` sets in one step.

## 6. What could follow

1. `LogWindow`'s counterpart for the lister's debounce, to bound how long a list is postponed.
2. A version of `App` whose messages carry their stream, to show that `LiveStreamKept`,
   `BoundToNamespace`, `LogsOfPod`, `EverythingSaved` and `OneRecorderPerSession` hold of a repaired
   program.
3. A composition of `App` with `Session` in place of the events a session may send, through `AnswerStream`.
