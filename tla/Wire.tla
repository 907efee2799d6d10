-------------------------------- MODULE Wire --------------------------------
(***************************************************************************)
(* The request each provider makes of a conversation: buildOpenAIMessages, *)
(* buildAnthropicMessages and buildOllamaMessages of internal/ai.  No      *)
(* state: operators on conversations.                                      *)
(*                                                                         *)
(* A message of the conversation is [role, text, uses, results]: text      *)
(* whether Content is not empty, uses the tool calls of an assistant turn, *)
(* results the answers to calls a user turn carries.  A message of the     *)
(* request is [role, calls, answers]: the IDs of the calls it makes and of *)
(* those it answers.                                                       *)
(***************************************************************************)
EXTENDS Naturals, Sequences, SequencesExt

Ids(calls) == [i \in DOMAIN calls |-> calls[i].id]

WireMessage(role, calls, answers) == [role |-> role, calls |-> calls, answers |-> answers]
Plain(role) == WireMessage(role, <<>>, <<>>)

\* OpenAI: the results of a user turn are messages of their own, ahead of its
\* text; the system prompt is the first message.
ToolMessages(m) == [i \in DOMAIN m.results |-> WireMessage("tool", <<>>, <<m.results[i].id>>)]
UserText(m)     == IF m.text THEN <<Plain("user")>> ELSE <<>>

openAIUserDropsFirst(m) == IF m.results = <<>> THEN UserText(m) ELSE Tail(ToolMessages(m))
openAIUser(m) == ToolMessages(m) \o UserText(m)

OpenAIMessages(conversation) ==
  <<Plain("system")>> \o
  FlattenSeq([i \in DOMAIN conversation |->
                IF conversation[i].role = "user" THEN openAIUser(conversation[i])
                ELSE <<WireMessage("assistant", Ids(conversation[i].uses), <<>>)>>])

\* Anthropic: a message is one list of blocks, one without blocks is left
\* out.  Arguments that do not parse go as {}.
Blocks(m) == (IF m.text THEN 1 ELSE 0) + Len(m.uses) + Len(m.results)

anthropicMessage(m) ==
  IF Blocks(m) > 0 THEN <<WireMessage(m.role, Ids(m.uses), Ids(m.results))>> ELSE <<>>
AnthropicMessages(conversation) ==
  FlattenSeq([i \in DOMAIN conversation |-> anthropicMessage(conversation[i])])

\* Ollama: text only.
OllamaMessages(conversation) ==
  <<Plain("system")>> \o [i \in DOMAIN conversation |-> Plain(conversation[i].role)]

\* The messages of the request Stream makes.
WireMessages(vendor, conversation) ==
  CASE vendor = "openai"    -> OpenAIMessages(conversation)
    [] vendor = "anthropic" -> AnthropicMessages(conversation)
    [] vendor = "ollama"    -> OllamaMessages(conversation)

-----------------------------------------------------------------------------
(* What the APIs ask of a request.                                         *)

\* The IDs answered right after message i, before anything else.
AnswersAfter(wire, i) ==
  LET later == {j \in (i + 1)..Len(wire) : wire[j].answers = <<>>}
      end   == IF later = {} THEN Len(wire) ELSE (CHOOSE j \in later : \A k \in later : j <= k) - 1
  IN  FlattenSeq([k \in 1..(end - i) |-> wire[i + k].answers])

\* Every call is answered at once, in order and once, and nothing else is
\* answered.
CallsAnswered(wire) ==
  /\ \A i \in DOMAIN wire : wire[i].calls # <<>> => AnswersAfter(wire, i) = wire[i].calls
  /\ FlattenSeq([i \in DOMAIN wire |-> wire[i].answers])
       = FlattenSeq([i \in DOMAIN wire |-> wire[i].calls])

\* User and assistant take turns, the user first.
Alternates(wire) ==
  \A i \in DOMAIN wire : wire[i].role = IF i % 2 = 1 THEN "user" ELSE "assistant"
=============================================================================
