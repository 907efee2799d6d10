------------------------------ MODULE Diagnose ------------------------------
(***************************************************************************)
(* One diagnosis from the configuration to the model and back: kbark       *)
(* starts with a profile, :profile changes it, `?` builds a payload and    *)
(* starts a session, and the session asks a provider turn by turn.  Here   *)
(* the provider is the part in detail: the goroutine that turns what the   *)
(* server sends into events (runStream of ai/anthropic.go, openai.go and   *)
(* ollama.go).  Session has the session in detail; here it receives the    *)
(* events, has the calls dispatched and asks again.                        *)
(*                                                                         *)
(* A server sends chunks: text, a fragment of a tool call, or noise (a     *)
(* ping, a usage chunk, a line that does not parse), until it finishes,    *)
(* drops the connection, maybe inside a call, or fails.                    *)
(***************************************************************************)
EXTENDS Config, Tools, Wire, FiniteSets, TLC

CONSTANTS
  Envs,      \* environments kbark is started in
  Clusters,  \* what the cluster answers to the payload's builder
  Calls,     \* the tool calls a model makes, without their IDs
  Answers,   \* what the API server answers to a tool call
  Origins,   \* the kinds of diagnosis: "pod", "resource", "log"
  OutCap,    \* capacity of the provider's event channel
  MaxTurns,  \* MaxToolTurns
  MaxChunks, \* bound: chunks of the response of each turn
  Forgets    \* the turns in which the server may leave a call without a name or an ID

ASSUME LimitsAssumption ==
  OutCap \in Nat /\ MaxTurns \in Nat \ {0} /\ MaxChunks \in [1..MaxTurns -> Nat]
ASSUME EnvsAssumption ==
  \A e \in Envs : \A n \in DOMAIN e.profiles :
    n \in Nat /\ e.profiles[n].model \in Nat /\ e.profiles[n].budget \in Nat
ASSUME ForgetsAssumption == Forgets \subseteq 1..MaxTurns
ASSUME AnswersAssumption == \A a \in Answers : a.size \in Nat /\ a.secret \in BOOLEAN

VARIABLES
  env,      \* the environment, which does not change
  app,      \* "starting", "up" or "exited"
  profile,  \* [name, provider, model, budget] of the Model
  session,  \* [provider, model, budget] `?` captured
  phase,    \* "idle", "building", "turn", "ended": where the diagnosis is
  messages, \* the conversation
  turn,     \* turns begun
  request,  \* [provider, model, wire] of the last Stream
  goroutine, \* "none", "opening", "reading", "ending" or "closed"
  chunks,   \* chunks the server has sent
  served,   \* the SDK's accumulator: the tool calls begun in this response
  partial,  \* the arguments of the last of them are still arriving
  current,  \* OpenAI's accumulator: the call it is in, 0 for none
  queue,    \* events the goroutine has yet to send before it goes on
  sent,     \* history: the events of this response on the channel
  taken,    \* how many of them the session has received
  ctx       \* the turn's: "live", "expired" or "cancelled"

diagnosis == <<session, phase, messages, turn, request>>
response  == <<chunks, served, partial, current>>
channel   == <<sent, taken>>
vars == <<env, app, profile, diagnosis, goroutine, response, queue, channel, ctx>>

NoSession == [provider |-> "nil", model |-> NoModel, budget |-> 0]
NoRequest == [provider |-> "nil", model |-> NoModel, wire |-> <<>>]
NoCall    == [tool |-> "none"]

\* A call the server gave no name, or no ID.
NoTool == ""
NoId   == <<0, 0>>

Event(kind, call) == [kind |-> kind, call |-> call]
Delta == Event("delta", NoCall)
Done  == Event("done", NoCall)
Error == Event("error", NoCall)

CallsOf(evs) ==
  FlattenSeq([i \in DOMAIN evs |-> IF evs[i].kind = "call" THEN <<evs[i].call>> ELSE <<>>])

Init ==
  /\ env \in Envs
  /\ app = "starting"
  /\ profile = [name |-> NoName, provider |-> "nil", model |-> NoModel, budget |-> 0]
  /\ session = NoSession /\ phase = "idle" /\ messages = <<>> /\ turn = 0
  /\ request = NoRequest
  /\ goroutine = "none"
  /\ chunks = 0 /\ served = <<>> /\ partial = FALSE /\ current = 0
  /\ queue = <<>> /\ sent = <<>> /\ taken = 0
  /\ ctx = "live"

-----------------------------------------------------------------------------
(* kbark and its profile.                                                  *)

Unselected == UNCHANGED <<env, diagnosis, goroutine, response, queue, channel, ctx>>

\* The profile p of name n: provider, model and budget change together.
Selected(n, p) == [name |-> n, provider |-> NewProvider(p.provider, env.keys),
                   model |-> p.model, budget |-> p.budget]

\* runTUI.  A profile whose provider has no key still starts, without one.
StartUp ==
  LET cfg == Load(env)
      p   == Resolve(cfg, env.flag)
  IN  /\ app = "starting"
      /\ IF cfg = NoConfig \/ p = NoProfile \/ env.kube = "bad"
           THEN app' = "exited" /\ UNCHANGED profile
           ELSE app' = "up" /\ profile' = Selected(Named(cfg, env.flag), p)
      /\ Unselected

\* switchProfile: on any error the profile stays.
SwitchProfile(name) ==
  LET p == Resolve(Load(env), name)
  IN  /\ app = "up"
      /\ p # NoProfile
      /\ NewProvider(p.provider, env.keys) # "nil"
      /\ profile' = Selected(name, p)
      /\ UNCHANGED app
      /\ Unselected

-----------------------------------------------------------------------------
(* The session.                                                            *)

\* `?` with a provider: the start command takes what the Model has now.
Ask ==
  /\ app = "up" /\ phase = "idle"
  /\ profile.provider # "nil"
  /\ phase' = "building"
  /\ session' = [provider |-> profile.provider, model |-> profile.model,
                 budget |-> profile.budget]
  /\ UNCHANGED <<env, app, profile, messages, turn, request, goroutine, response, queue,
                 channel, ctx>>

\* What the session sends to.
ProviderOfNow  == profile
ProviderAsked  == session

\* provider.Stream: a request of the conversation, a goroutine, a channel.
Stream(conversation) ==
  /\ messages' = conversation
  /\ turn' = turn + 1
  /\ request' = [provider |-> ProviderAsked.provider, model |-> ProviderAsked.model,
                 wire |-> WireMessages(ProviderAsked.provider, conversation)]
  /\ goroutine' = "opening"
  /\ chunks' = 0 /\ served' = <<>> /\ partial' = FALSE /\ current' = 0
  /\ queue' = <<>> /\ sent' = <<>> /\ taken' = 0

\* startDiagnosis and its siblings: the payload is built, a section being four
\* characters and the system prompt another four, and checked.
Begin(origin, cluster) ==
  /\ phase = "building"
  /\ IF WithinBudget(session.budget, 4 * Cardinality(Build(origin, cluster)), 4)
       THEN /\ phase' = "turn"
            /\ Stream(<<[role |-> "user", text |-> TRUE, uses |-> <<>>, results |-> <<>>]>>)
       ELSE /\ phase' = "ended"
            /\ UNCHANGED <<messages, turn, request, goroutine, response, queue, channel>>
  /\ UNCHANGED <<env, app, profile, session, ctx>>

Receive ==
  /\ phase = "turn" /\ taken < Len(sent)
  /\ taken' = taken + 1
  /\ UNCHANGED <<env, app, profile, diagnosis, goroutine, response, queue, sent, ctx>>

\* The channel is closed and drained.
Drained == phase = "turn" /\ goroutine = "closed" /\ taken = Len(sent)

\* The turn ended with calls: each is dispatched and answered, and the next
\* turn begins.  It has a deadline of its own; a cancelled session stays so.
NextTurn ==
  /\ Drained
  /\ CallsOf(sent) # <<>> /\ Last(sent) # Error /\ turn < MaxTurns
  /\ ctx' = IF ctx = "cancelled" THEN "cancelled" ELSE "live"
  /\ \E answers \in [DOMAIN CallsOf(sent) -> Answers] :
       LET calls     == CallsOf(sent)
           result(i) == Dispatch(calls[i], TRUE, answers[i])
       IN  Stream(messages \o
             <<[role |-> "assistant", text |-> Delta \in ToSet(sent), uses |-> calls,
                results |-> <<>>],
               [role |-> "user", text |-> FALSE, uses |-> <<>>,
                results |-> [i \in DOMAIN calls |->
                               [id |-> calls[i].id, isError |-> result(i).isError,
                                text |-> result(i).text]]]>>)
  /\ UNCHANGED <<env, app, profile, session, phase>>

\* The session is over: ctx is done, an error was received, or the last turn
\* is.  turnCancel, deferred, ends what the goroutine may still be doing.
EndSession ==
  /\ phase = "turn"
  /\ \/ ctx # "live"
     \/ taken > 0 /\ sent[taken] = Error
     \/ Drained /\ (CallsOf(sent) = <<>> \/ turn = MaxTurns)
  /\ phase' = "ended"
  /\ ctx' = "cancelled"
  /\ UNCHANGED <<env, app, profile, session, messages, turn, request, goroutine, response,
                 queue, channel>>

\* Cancel(), or the turn's deadline.
Cancel(how) ==
  /\ phase = "turn" /\ ctx = "live"
  /\ ctx' = how
  /\ UNCHANGED <<env, app, profile, diagnosis, goroutine, response, queue, channel>>

-----------------------------------------------------------------------------
(* The goroutine and the server.                                           *)

Vendor == request.provider

\* The goroutine goes on to g with the events q to send.
GoesOn(g, q) ==
  /\ goroutine' = g
  /\ queue' = q
  /\ UNCHANGED <<env, app, profile, diagnosis, channel, ctx>>

\* The server accepts the request, or refuses it: a dial error, an HTTP status.
Accept == goroutine = "opening" /\ GoesOn("reading", <<>>) /\ UNCHANGED response
Refuse == goroutine = "opening" /\ GoesOn("ending", <<Error>>) /\ UNCHANGED response

\* toolCallIDFor: the ID of the index-th of the calls that have a name and an
\* ID, "" when there are not so many.
Identified(c)   == c.tool # NoTool /\ c.id # NoId
Rank(calls, k)  == Cardinality({j \in 1..k : Identified(calls[j])})
FirstId(calls, index) == calls[1].id
IdAt(calls, index) ==
  LET found == {k \in DOMAIN calls : Identified(calls[k]) /\ Rank(calls, k) = index}
  IN  IF found = {} THEN NoId ELSE calls[CHOOSE k \in found : TRUE].id

\* OpenAI: the call the accumulator leaves (JustFinishedToolCall), with the ID
\* found in what it has by then.
Finished(calls) ==
  IF Vendor = "openai" /\ current # 0
    THEN <<Event("call", [served[current] EXCEPT !.id = IdAt(calls, current)])>> ELSE <<>>

\* ctx.Err() after every chunk.
CtxUnchecked == FALSE
CtxChecked   == ctx # "live"

\* The goroutine is at Next or Scan.  On a chunk it returns when ctx is done,
\* else sends what the chunk brings.
Reads == goroutine = "reading" /\ queue = <<>>
Chunk(q) ==
  /\ Reads /\ chunks < MaxChunks[turn]
  /\ chunks' = chunks + 1
  /\ IF CtxChecked THEN GoesOn("ending", <<>>) ELSE GoesOn("reading", q)

\* A text delta, sent at once.  OpenAI's accumulator leaves the call it was
\* in, which is sent after the text.
TextChunk ==
  /\ ~partial
  /\ Chunk(<<Delta>> \o Finished(served))
  /\ current' = 0
  /\ UNCHANGED <<served, partial>>

\* A call with the ID the server gives it.
WithId(call, id) == [f \in DOMAIN call \union {"id"} |-> IF f = "id" THEN id ELSE call[f]]

\* The first fragment of a call: its name and its ID, if it gets one, and
\* maybe all of its arguments.  The request of an Ollama model has no tools.
CallChunk(call, id) ==
  LET calls == Append(served, WithId(call, id))
  IN  /\ Vendor # "ollama" /\ ~partial
      /\ Chunk(Finished(calls))
      /\ served' = calls
      /\ partial' \in BOOLEAN
      /\ current' = IF Vendor = "openai" THEN Len(calls) ELSE 0

\* The fragments that complete its arguments.  They stop where the model did:
\* arguments that do not parse may be all there is.
ArgsChunk ==
  /\ Reads /\ partial
  /\ IF CtxChecked THEN GoesOn("ending", <<>>) ELSE GoesOn("reading", <<>>)
  /\ partial' = FALSE
  /\ UNCHANGED <<chunks, served, current>>

\* A chunk that brings nothing.  It is not counted: pings go on and on.
Ping ==
  /\ Reads
  /\ IF CtxChecked THEN GoesOn("ending", <<>>) ELSE GoesOn("reading", <<>>)
  /\ UNCHANGED response

\* What is still to send when the response is over: Anthropic's calls, which
\* wait for the assembled message.
AtEnd(calls) == IF Vendor = "anthropic"
                  THEN [i \in DOMAIN calls |-> Event("call", calls[i])] ELSE <<>>

\* finish_reason, message_stop or done.  OpenAI's comes in a chunk of its own,
\* which ends the last call; Ollama's stops the reading.
ServerFinishes ==
  /\ Reads /\ ~partial
  /\ IF CtxChecked THEN GoesOn("ending", <<>>)
     ELSE GoesOn("ending", Finished(served) \o AtEnd(served) \o <<Done>>)
  /\ current' = 0
  /\ UNCHANGED <<chunks, served, partial>>

\* The calls of a message that breaks off: arguments that were still arriving
\* are the part that came, which does not parse, or the {} the block began with.
BrokenOff(c) == {[c EXCEPT !.args = "malformed"], [c EXCEPT !.args = "json", !.fields = FALSE]}
Assembled ==
  IF partial THEN {[served EXCEPT ![Len(served)] = c] : c \in BrokenOff(served[Len(served)])}
  ELSE {served}

\* The connection is closed before the end, in order: nobody notices.
ServerDrops ==
  /\ Reads
  /\ \E calls \in Assembled : GoesOn("ending", AtEnd(calls) \o <<Done>>)
  /\ UNCHANGED response

\* A read error, which a cancellation causes as well.  Ollama then says done.
ReadFailsFallsThrough == Reads /\ GoesOn("ending", <<Error, Done>>) /\ UNCHANGED response
ReadFails ==
  /\ Reads
  /\ GoesOn("ending", IF Vendor = "ollama" /\ ctx # "live" THEN <<Done>> ELSE <<Error>>)
  /\ UNCHANGED response

HasRoomForOneMore == Len(sent) - taken <= OutCap
HasRoom           == Len(sent) - taken < OutCap

\* sendEvent.
Send ==
  /\ queue # <<>> /\ HasRoom
  /\ sent' = Append(sent, Head(queue))
  /\ queue' = Tail(queue)
  /\ UNCHANGED <<env, app, profile, diagnosis, goroutine, response, taken, ctx>>

SendGivesUp ==
  /\ queue # <<>> /\ ctx # "live"
  /\ GoesOn("ending", <<>>)
  /\ UNCHANGED response

\* close(out), which is deferred.
CloseOut == goroutine = "ending" /\ queue = <<>> /\ GoesOn("closed", <<>>) /\ UNCHANGED response

Goroutine == Send \/ SendGivesUp \/ CloseOut

Server ==
  \/ Accept \/ Refuse \/ TextChunk \/ ArgsChunk \/ Ping \/ ServerFinishes \/ ServerDrops \/ ReadFails
  \/ \E call \in Calls, id \in {<<turn, Len(served) + 1>>, NoId} :
       /\ turn \in Forgets \/ Identified(WithId(call, id))
       /\ CallChunk(call, id)

Next ==
  \/ StartUp
  \/ \E name \in DOMAIN Load(env).profiles : SwitchProfile(name)
  \/ Ask
  \/ \E origin \in Origins, cluster \in Clusters : Begin(origin, cluster)
  \/ Receive \/ NextTurn \/ EndSession
  \/ \E how \in {"expired", "cancelled"} : Cancel(how)
  \/ Goroutine \/ Server

Spec == Init /\ [][Next]_vars

\* Once ctx is done the client gives up a request not yet answered.  Of a
\* response, Ollama's reader fails; the SDKs of the others read on and see
\* what comes next, a ping at least.
Interrupted ==
  ctx # "live" /\ (Refuse \/ IF Vendor = "ollama" THEN ReadFails ELSE Ping)

\* The goroutine runs.  Nothing is asked of the server while ctx is live.
Fairness == WF_vars(Goroutine) /\ WF_vars(Interrupted)
FairSpec == Spec /\ Fairness

-----------------------------------------------------------------------------
(* Properties.                                                             *)

Profiles   == DOMAIN Load(env).profiles
Texts      == [kind : {"note", "text", "cut"}, size : Nat, secret : BOOLEAN]
Selections == [provider : Vendors \union {"nil"}, model : Nat, budget : Nat]

\* The type of every variable; the provider's channel holds at most OutCap
\* events, so a send that finds it full waits (make(chan Event, 8) of Stream).
TypeOK ==
  /\ env \in Envs
  /\ app \in {"starting", "up", "exited"}
  /\ profile.name \in Nat /\ profile.provider \in Vendors \union {"nil"}
  /\ session \in Selections
  /\ phase \in {"idle", "building", "turn", "ended"}
  /\ goroutine \in {"none", "opening", "reading", "ending", "closed"}
  /\ ctx \in {"live", "expired", "cancelled"}
  /\ turn \in 0..MaxTurns /\ chunks \in Nat
  /\ current \in 0..Len(served) /\ partial \in BOOLEAN
  /\ \A m \in ToSet(messages) : \A r \in ToSet(m.results) : r.text \in Texts
  /\ taken \in 0..Len(sent) /\ Len(sent) - taken \in 0..OutCap

\* Whatever :profile did before, during and after, a diagnosis runs on one
\* profile of the configuration: the provider and the model of every request
\* and the budget its payload was checked against belong together, and so do
\* those the next `?` will take (switchProfile, the start command).
ProfileWhole ==
  LET Of(c) == \E n \in Profiles : LET p == Load(env).profiles[n] IN
                 /\ c.provider \in {p.provider, "nil"}
                 /\ c.model = p.model /\ c.budget = p.budget
  IN  /\ app = "up" => Of(profile)
      /\ session # NoSession => Of(session)
      /\ request # NoRequest =>
           request.provider = session.provider /\ request.model = session.model

\* Once a response was announced done, the calls the session got are those
\* the model made, whichever way the provider assembled them: all of them, in
\* order, as they were made, but for one the connection was closed in, which
\* OpenAI's accumulator keeps and Anthropic's hands over with the arguments
\* broken off.  Each has the ID its result has to carry, if the server gave
\* every call a name and an ID; even if it did not, no two get the same.
CallsComplete ==
  LET got == CallsOf(sent)
  IN  Done \in ToSet(sent) =>
        /\ Len(got) = Len(served) - (IF current = 0 THEN 0 ELSE 1)
        /\ \A i \in DOMAIN got :
             \/ got[i] = [served[i] EXCEPT !.id = got[i].id]
             \/ partial /\ i = Len(served)
        /\ Vendor # "openai" \/ (\A c \in ToSet(served) : Identified(c)) =>
             \A i \in DOMAIN got : got[i].id = served[i].id
        /\ \A i, j \in DOMAIN got : got[i].id = got[j].id => i = j \/ got[i].id = NoId

\* Every request is one the provider's API accepts: each call of a turn is
\* answered right after it, in order, and nothing else is (buildOpenAIMessages
\* splits the results); for Anthropic the roles alternate.
RequestWellFormed ==
  /\ CallsAnswered(request.wire)
  /\ request.provider = "anthropic" => Alternates(request.wire)

\* What a tool puts into the conversation is bounded and redacted, whatever
\* the API server answered (Dispatch redacts before it truncates).
ResultsBounded ==
  \A m \in ToSet(messages) : \A r \in ToSet(m.results) :
    ~r.isError => r.text.size <= MaxToolResultBytes + Suffix /\ ~r.text.secret

\* The doctor and the program agree: a red profile or kubeconfig row is a
\* program that exits at once, and only then; a provider marked active is one
\* `?` can use; a yellow config row is a program on the built-in profile; an
\* exit code of zero means that the program starts unless the profile row is
\* red.
DoctorAgrees ==
  /\ app = "up" => ProfileRow(env) = "green" /\ KubeconfigRow(env) = "green"
  /\ app = "exited" => ProfileRow(env) = "red" \/ KubeconfigRow(env) = "red"
  /\ app = "up" /\ MarkedActive(env) # {} => profile.provider # "nil"
  /\ app = "up" /\ ConfigRow(env) = "yellow" => profile.name = Dev
  /\ app = "exited" /\ ~ClusterFatal(env) => ProfileRow(env) = "red"

\* The provider's goroutine delivers what ai.Provider promises: events, then
\* one done or error, then close; an early close only once ctx is done.
Promised == INSTANCE AnswerStream WITH
  state     <- IF goroutine \in {"none", "closed"} THEN goroutine
               ELSE IF {Done, Error} \intersect ToSet(sent) # {} THEN "over" ELSE "open",
  delivered <- Len(sent),
  ctxDone   <- ctx # "live"
ImplementsAnswerStream == Promised!ASpec

\* Once ctx is done, by Cancel, the deadline or the end of the session, the
\* goroutine closes its channel although the SDK reads on, pings never stop
\* and nobody may be receiving any more (anthropic.go 70-77, sendEvent).
CancelCloses == (goroutine # "none" /\ ctx # "live") ~> (goroutine = "closed")

-----------------------------------------------------------------------------
(* What the comments of ai/anthropic.go say.                               *)

\* anthropic.go:60-61, "After the stream closes, message.Content holds the
\* finished text and tool_use blocks": no call has other arguments than the
\* server finished.
CallsFinished ==
  LET got == CallsOf(sent)
  IN  \A i \in DOMAIN got : got[i] = [served[i] EXCEPT !.id = got[i].id]
=============================================================================
