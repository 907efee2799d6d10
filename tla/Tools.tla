------------------------------- MODULE Tools -------------------------------
(***************************************************************************)
(* What the model is told of the cluster: the payload a diagnosis starts   *)
(* with (diagnose/context.go, resource_context.go, log_context.go) and the *)
(* result of a tool call (diagnose/tools.go).  No state: operators on what *)
(* the API server answers.                                                 *)
(*                                                                         *)
(* A text is abstracted to a record: kind is what it says, size its length *)
(* and secret whether a value that redaction looks for is in it.           *)
(***************************************************************************)
EXTENDS Integers, Sequences, SequencesExt

CONSTANTS
  MaxToolResultBytes,  \* cap on the result of a tool call
  Suffix,              \* length of the truncation notice
  LogTailLines,        \* log lines read by default
  ToolLogTailLines,    \* log lines a call may ask for
  EventListLimit,      \* events asked of the API server
  EventsInPayload      \* events shown

ASSUME ToolsAssumption ==
  /\ {MaxToolResultBytes, Suffix, EventListLimit, EventsInPayload} \subseteq Nat
  /\ LogTailLines \in 1..ToolLogTailLines /\ ToolLogTailLines \in Nat

Text(kind, size) == [kind |-> kind, size |-> size, secret |-> FALSE]

\* A note takes the place of what could not be read.
Note == Text("note", 1)

\* redact.Redact: no such value is left, and a short one has become longer.
Redact(t) == IF t.secret THEN [t EXCEPT !.secret = FALSE, !.size = @ + 1] ELSE t

truncateResult(t) ==
  IF t.size <= MaxToolResultBytes THEN t
  ELSE [t EXCEPT !.kind = "cut", !.size = MaxToolResultBytes + Suffix]

FinishCutsFirst(t) == Redact(truncateResult(t))
Finish(t)          == truncateResult(Redact(t))

-----------------------------------------------------------------------------
(* Events: a list of [name, last, time]; the server returns the first ones *)
(* in the order of their names.                                            *)

mostRecent(e) == IF e.last # 0 THEN e.last ELSE e.time

Listed(events) == SubSeq(events, 1, IF Len(events) > EventListLimit THEN EventListLimit ELSE Len(events))

\* sort.Slice: the newest first; which of two of the same time comes first is
\* not said.
NewestFirst(events) ==
  LET order == CHOOSE p \in Bijection(DOMAIN events, DOMAIN events) :
                 \A i, j \in DOMAIN events : i < j => mostRecent(events[p[i]]) >= mostRecent(events[p[j]])
  IN  [i \in DOMAIN events |-> events[order[i]]]

\* The most recent of those listed, the newest first.
recentEvents(events) ==
  LET sorted == NewestFirst(Listed(events))
  IN  SubSeq(sorted, 1, IF Len(sorted) > EventsInPayload THEN EventsInPayload ELSE Len(sorted))

\* How many of the last log lines a call that asks for n gets.
LogTail(n) ==
  LET asked == IF n <= 0 THEN LogTailLines ELSE n
  IN  IF asked > ToolLogTailLines THEN ToolLogTailLines ELSE asked

-----------------------------------------------------------------------------
(* The payload of a diagnosis.  The cluster answers with a record          *)
(*   statuses   the pod has container statuses                             *)
(*   eventsOK   the events can be listed                                   *)
(*   events     the events of the pod                                      *)
(*   logs       "read", "empty" or "failed"                                *)
(*   describe   "none" without the describe service, "failed" or "read"    *)
(* A payload is the set of its sections.                                   *)

PodSections(cluster) ==
  {"header", "status"}
    \union {s \in {"containers"} : cluster.statuses}
    \union {s \in {"events"} : cluster.eventsOK /\ recentEvents(cluster.events) # <<>>}
    \union {s \in {"logs"} : cluster.logs = "read"}

ResourceSections(cluster) ==
  {"header"} \union {IF cluster.describe = "read" THEN "describe" ELSE "note"}

LogSections(cluster) == PodSections(cluster) \union {"focus"}

\* The builder of each kind of diagnosis.
Build(origin, cluster) ==
  CASE origin = "pod"      -> PodSections(cluster)
    [] origin = "resource" -> ResourceSections(cluster)
    [] origin = "log"      -> LogSections(cluster)

-----------------------------------------------------------------------------
(* Tool calls.  A call has                                                 *)
(*   tool    its name, "other" for one that no tool has                    *)
(*   args    how its arguments parse: "json", "none" or "malformed"        *)
(*   fields  the required ones are there                                   *)
(*   kind    what get_resource asks for                                    *)
(* answer is the API server's: status "ok", "empty" or "failed", size and  *)
(* secret of the text.                                                     *)

PodTools == {"get_events", "get_logs", "get_previous_logs", "describe_pod"}

\* gvrForKind.
SupportedKinds == {"ConfigMap", "Secret", "Service", "Endpoints", "PersistentVolumeClaim", "Pod",
  "Deployment", "ReplicaSet", "StatefulSet", "DaemonSet", "Job", "CronJob", "Ingress"}

\* unmarshalArgs: no arguments are {}, which lacks every field.
HasFields(call) == call.args = "json" /\ call.fields

Answered(answer) == [kind |-> "text", size |-> answer.size, secret |-> answer.secret]

\* getEvents, getLogs and describePod: whatever the model can be told in
\* words is a note.
podTool(call, answer) ==
  IF HasFields(call) /\ answer.status = "ok" THEN Answered(answer) ELSE Note

\* getResource.  Only the data of a Secret is blanked: its annotations may repeat
\* it, so what a Secret is marshalled to may hold a secret like any other text.
getResource(call, dynamic, answer) ==
  IF dynamic /\ HasFields(call) /\ call.kind \in SupportedKinds /\ answer.status # "failed"
    THEN Answered(answer)
    ELSE Note

\* Dispatch: an error only for an unknown tool or arguments that do not parse.
Dispatch(call, dynamic, answer) ==
  IF call.tool \notin PodTools \union {"get_resource"} \/ call.args = "malformed"
    THEN [isError |-> TRUE, text |-> Note]
    ELSE [isError |-> FALSE,
          text |-> Finish(IF call.tool = "get_resource" THEN getResource(call, dynamic, answer)
                          ELSE podTool(call, answer))]
=============================================================================
