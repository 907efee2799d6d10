----------------------------- MODULE MCDiagnose -----------------------------
(* Instances of Diagnose for TLC.                                          *)
EXTENDS Diagnose

\* Three profiles, one per vendor, two of them on a budget: 9 characters of
\* payload and prompt are too many for 4 tokens of them, not for 6.  The
\* vendors whose models call tools are the profiles of one program, which
\* switches between them; the local one is all there is without a key.
Three ==
  1 :> [provider |-> "anthropic", model |-> 1, budget |-> 0] @@
  2 :> [provider |-> "openai",    model |-> 2, budget |-> 6] @@
  3 :> [provider |-> "ollama",    model |-> 3, budget |-> 4]

Hosted == [n \in 1..2 |-> Three[n]]
AllOK   == [v \in Vendors |-> "ok"]
Working == [path |-> TRUE, file |-> "parsed", default |-> NoName, profiles |-> Hosted,
            flag |-> NoName, keys |-> {"anthropic", "openai"}, hostSet |-> FALSE,
            ping |-> AllOK, kube |-> "ok"]

\* A start that works; ones where only the start matters, no payload being
\* within budget: without the default's key, with a key that is refused,
\* without a file, with a flag; and ones that fail.
Tight == [Working EXCEPT !.profiles = [n \in 1..3 |-> [Three[n] EXCEPT !.budget = 1]]]
MCEnvs ==
  {Working,
   [Working EXCEPT !.profiles = Three, !.default = 3, !.keys = {}],
   [Tight EXCEPT !.keys = {"openai"}],
   [Tight EXCEPT !.ping["anthropic"] = "auth", !.kube = "down"],
   [Tight EXCEPT !.file = "missing", !.keys = {}],
   [Tight EXCEPT !.flag = 3, !.ping["ollama"] = "unreachable", !.keys = {}]}
  \union
  {[Tight EXCEPT !.path = p, !.file = f, !.default = d, !.flag = n, !.kube = k,
                   !.profiles[2].model = NoModel] :
     p \in BOOLEAN, f \in {"missing", "unreadable", "malformed", "parsed"}, d \in {NoName, 2, 4},
     n \in {2, 4}, k \in {"ok", "bad"}}

Good == [statuses |-> TRUE, eventsOK |-> TRUE, logs |-> "read", describe |-> "read",
         events |-> <<[name |-> 1, last |-> 0, time |-> 2]>>]
Poor == [statuses |-> FALSE, eventsOK |-> FALSE, logs |-> "failed", describe |-> "failed",
         events |-> <<>>]
MCClusters == {Good, Poor}

\* Two calls, and one whose name the server leaves out.  A response has two
\* chunks at most, the one after the results of the first one.
Call(tool, args, kind) == [tool |-> tool, args |-> args, fields |-> TRUE, kind |-> kind]
MCCalls == {Call("get_logs", "json", "none"), Call("get_resource", "malformed", "Secret"),
            Call(NoTool, "json", "none")}
MCChunks == <<2, 1>>

\* A result that fits, and one that is too long and holds a secret.
MCAnswers == {[status |-> "ok", size |-> 1, secret |-> FALSE],
              [status |-> "ok", size |-> 9, secret |-> TRUE]}

\* What the pure operators return, against the wording of the code: a call
\* gets between one and ToolLogTailLines lines; of a list that fits, the events
\* shown are as recent as any left out.
ASSUME LogTailClamps == \A n \in -2..4 : LogTail(n) \in 1..ToolLogTailLines
ASSUME NewestShown ==
  \A times \in [1..EventListLimit -> 0..2] :
    LET events == [i \in DOMAIN times |-> [name |-> i, last |-> times[i], time |-> 1]]
        shown  == recentEvents(events)
    IN  \A e \in ToSet(shown), f \in ToSet(events) \ ToSet(shown) : mostRecent(e) >= mostRecent(f)
=============================================================================
