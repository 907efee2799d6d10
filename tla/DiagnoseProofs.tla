--------------------------- MODULE DiagnoseProofs ---------------------------
(***************************************************************************)
(* What Diagnose promises, for every configuration, every cluster and      *)
(* every server: a diagnosis runs on one profile, the doctor agrees with   *)
(* the program, the results of tool calls are bounded and redacted, and    *)
(* the provider's goroutine implements AnswerStream.                       *)
(***************************************************************************)
EXTENDS Diagnose, SeqLemmas

-----------------------------------------------------------------------------
(* The configuration.                                                      *)

\* A profile that resolves is one of the configuration, under the name the
\* flag or the argument stands for.
LEMMA ResolveFinds ==
  ASSUME NEW cfg, NEW name, Resolve(cfg, name) # NoProfile
  PROVE  /\ Named(cfg, name) \in DOMAIN cfg.profiles
         /\ Resolve(cfg, name) = cfg.profiles[Named(cfg, name)]
BY DEF Resolve, NoProfile

\* A provider that was made is a vendor's; one of another name is not.
LEMMA ProviderMade ==
  \A name, keys : /\ NewProvider(name, keys) \in Vendors \union {"nil"}
                  /\ NewProvider(name, keys) \in {name, "nil"}
BY DEF NewProvider, Vendors

\* What a configuration that loads holds.
LEMMA LoadHolds ==
  ASSUME NEW e \in Envs, Load(e) # NoConfig
  PROVE  \A n \in DOMAIN Load(e).profiles :
           /\ n \in Nat
           /\ Load(e).profiles[n].model \in Nat /\ Load(e).profiles[n].budget \in Nat
<1>1. CASE Load(e) = builtinDefaults
  BY <1>1 DEF builtinDefaults, Dev, Sonnet
<1>2. CASE Load(e).profiles = e.profiles
  BY <1>2, EnvsAssumption
<1> QED
  BY <1>1, <1>2 DEF Load

-----------------------------------------------------------------------------
(* The profile.                                                            *)

\* A selection is one profile's.
OfProfile(c) ==
  \E n \in Profiles : /\ c.provider \in {Load(env).profiles[n].provider, "nil"}
                      /\ c.model = Load(env).profiles[n].model
                      /\ c.budget = Load(env).profiles[n].budget

\* Before the start command ran there is no request, before `?` no session.
ProfileInv ==
  /\ env \in Envs
  /\ app = "up" => OfProfile(profile) /\ Load(env) # NoConfig
  /\ session # NoSession => OfProfile(session)
  /\ request # NoRequest => request.provider = session.provider /\ request.model = session.model
  /\ phase = "idle" => session = NoSession
  /\ phase \in {"idle", "building"} => request = NoRequest

\* The selection of a profile that resolves is that profile's.
LEMMA SelectedOf ==
  ASSUME NEW n, NEW name, Resolve(Load(env), name) # NoProfile
  PROVE  OfProfile(Selected(n, Resolve(Load(env), name)))
<1>1. /\ Named(Load(env), name) \in Profiles
      /\ Resolve(Load(env), name) = Load(env).profiles[Named(Load(env), name)]
  BY ResolveFinds DEF Profiles
<1> DEFINE p == Resolve(Load(env), name)
<1>2. Selected(n, p).provider \in {p.provider, "nil"}
  BY ProviderMade DEF Selected
<1>3. Selected(n, p).model = p.model /\ Selected(n, p).budget = p.budget
  BY DEF Selected
<1> QED
  BY <1>1, <1>2, <1>3 DEF OfProfile

\* The steps that have no part in it.
Elsewhere == UNCHANGED <<env, app, profile, session, phase, request>>

\* Every step keeps the selections whole.
LEMMA ProfileStep == ProfileInv /\ [Next]_vars => ProfileInv'
<1> SUFFICES ASSUME ProfileInv, [Next]_vars PROVE ProfileInv'
  OBVIOUS
<1>1. ASSUME Elsewhere PROVE ProfileInv'
  BY <1>1 DEF Elsewhere, ProfileInv, OfProfile, Profiles
<1>2. CASE StartUp
  <2>1. UNCHANGED <<env, session, phase, request>>
    BY <1>2 DEF StartUp, Unselected, diagnosis
  <2>2. CASE app' = "exited"
    BY <2>1, <2>2 DEF ProfileInv, OfProfile, Profiles
  <2>3. CASE app' # "exited"
    <3>1. /\ Load(env) # NoConfig /\ Resolve(Load(env), env.flag) # NoProfile
          /\ profile' = Selected(Named(Load(env), env.flag), Resolve(Load(env), env.flag))
      BY <1>2, <2>3 DEF StartUp
    <3>2. OfProfile(Selected(Named(Load(env), env.flag), Resolve(Load(env), env.flag)))
      BY <3>1, SelectedOf
    <3> QED
      BY <2>1, <3>1, <3>2 DEF ProfileInv, OfProfile, Profiles
  <2> QED
    BY <2>2, <2>3
<1>3. ASSUME NEW name, SwitchProfile(name) PROVE ProfileInv'
  <2>1. UNCHANGED <<env, app, session, phase, request>>
    BY <1>3 DEF SwitchProfile, Unselected, diagnosis
  <2>2. /\ Resolve(Load(env), name) # NoProfile
        /\ profile' = Selected(name, Resolve(Load(env), name)) /\ app = "up"
    BY <1>3 DEF SwitchProfile
  <2>3. OfProfile(Selected(name, Resolve(Load(env), name)))
    BY <2>2, SelectedOf
  <2> QED
    BY <2>1, <2>2, <2>3 DEF ProfileInv, OfProfile, Profiles
<1>4. CASE Ask
  <2>1. /\ app = "up" /\ phase = "idle" /\ phase' = "building" /\ UNCHANGED <<env, app, profile, request>>
        /\ session' = [provider |-> profile.provider, model |-> profile.model, budget |-> profile.budget]
    BY <1>4 DEF Ask
  <2>2. request = NoRequest /\ OfProfile(profile)
    BY <2>1 DEF ProfileInv
  <2> QED
    BY <2>1, <2>2 DEF ProfileInv, OfProfile, Profiles
<1>5. ASSUME NEW c, Stream(c), UNCHANGED <<env, app, profile, session>>, phase' = "turn"
      PROVE  ProfileInv'
  <2>1. request'.provider = session.provider /\ request'.model = session.model
    BY <1>5 DEF Stream, ProviderAsked
  <2> QED
    BY <1>5, <2>1 DEF ProfileInv, OfProfile, Profiles
<1>6. ASSUME UNCHANGED <<env, app, profile, session, request>>, phase' = "ended" PROVE ProfileInv'
  BY <1>6 DEF ProfileInv, OfProfile, Profiles
<1>7. ASSUME NEW o, NEW c, Begin(o, c) PROVE ProfileInv'
  BY <1>5, <1>6, <1>7 DEF Begin
<1>8. CASE NextTurn
  <2>1. phase' = "turn" /\ UNCHANGED <<env, app, profile, session>> /\ \E c : Stream(c)
    BY <1>8 DEF NextTurn, Drained
  <2> QED
    BY <1>5, <2>1
<1>9. CASE EndSession
  BY <1>6, <1>9 DEF EndSession
<1>10. CASE Receive \/ Goroutine \/ UNCHANGED vars
  BY <1>1, <1>10 DEF Receive, Goroutine, Send, SendGivesUp, CloseOut, GoesOn, vars, diagnosis, Elsewhere
<1>11. ASSUME NEW how, Cancel(how) PROVE ProfileInv'
  BY <1>1, <1>11 DEF Cancel, diagnosis, Elsewhere
<1>12. CASE Server
  <2>1. CASE Accept \/ Refuse \/ ArgsChunk \/ Ping \/ ServerFinishes \/ ServerDrops \/ ReadFails
    BY <1>1, <2>1 DEF Accept, Refuse, ArgsChunk, Ping, ServerFinishes, ServerDrops, ReadFails, GoesOn, diagnosis,
                      Elsewhere
  <2>2. CASE TextChunk
    BY <1>1, <2>2 DEF TextChunk, Chunk, GoesOn, diagnosis, Elsewhere
  <2>3. ASSUME NEW call, NEW id, CallChunk(call, id) PROVE Elsewhere
    BY <2>3 DEF CallChunk, Chunk, GoesOn, diagnosis, Elsewhere
  <2> QED
    BY <1>1, <1>12, <2>1, <2>2, <2>3 DEF Server
<1> QED
  BY <1>2, <1>3, <1>4, <1>7, <1>8, <1>9, <1>10, <1>11, <1>12 DEF Next

\* Nothing is selected before the program started.
LEMMA InitProfileInv == Init => ProfileInv
BY DEF Init, ProfileInv

\* Whatever :profile does, a diagnosis runs on one profile (switchProfile,
\* the start command, provider.Stream).
THEOREM DiagnoseProfileWhole == Spec => []ProfileWhole
<1>1. Init => ProfileInv
  BY InitProfileInv
<1>2. ProfileInv => ProfileWhole
  BY DEF ProfileInv, ProfileWhole, OfProfile
<1> QED
  BY <1>1, <1>2, ProfileStep, PTL DEF Spec

-----------------------------------------------------------------------------
(* The doctor.                                                             *)

\* A provider marked active is one the program can make.
LEMMA MarkedIsMade ==
  ASSUME NEW e, MarkedActive(e) # {} PROVE NewProvider(DoctorProfile(e).provider, e.keys) # "nil"
<1>1. PICK v \in Vendors : v = DoctorProfile(e).provider /\ ProviderRow(e, v) = "green"
  BY DEF MarkedActive
<1>2. CASE v = "ollama"
  BY <1>1, <1>2 DEF NewProvider
<1>3. CASE v # "ollama"
  <2>1. v \in e.keys
    BY <1>1, <1>3 DEF ProviderRow
  <2> QED
    BY <1>1, <1>3, <2>1 DEF NewProvider, Vendors
<1> QED
  BY <1>2, <1>3

\* Without a configuration directory there is the built-in profile only.
LEMMA BuiltinOnly ==
  ASSUME NEW e, ConfigRow(e) = "yellow" PROVE DOMAIN Load(e).profiles = {Dev}
BY DEF ConfigRow, Load, builtinDefaults

\* Every step keeps the doctor and the program in agreement.
LEMMA DoctorStep == DoctorAgrees /\ [Next]_vars => DoctorAgrees'
<1> SUFFICES ASSUME DoctorAgrees, [Next]_vars PROVE DoctorAgrees'
  OBVIOUS
<1>1. ASSUME UNCHANGED <<env, app, profile>> PROVE DoctorAgrees'
  BY <1>1 DEF DoctorAgrees
<1>2. CASE StartUp
  <2> DEFINE cfg == Load(env)
             p   == Resolve(cfg, env.flag)
  <2>0. env' = env
    BY <1>2 DEF StartUp, Unselected
  <2>1. CASE cfg = NoConfig \/ p = NoProfile \/ env.kube = "bad"
    <3>1. app' = "exited"
      BY <1>2, <2>1 DEF StartUp
    <3>2. ProfileRow(env) = "red" \/ KubeconfigRow(env) = "red"
      BY <2>1 DEF ProfileRow, DoctorProfile, KubeconfigRow
    <3>3. ~ClusterFatal(env) => ProfileRow(env) = "red"
      BY <3>2 DEF ClusterFatal
    <3> QED
      BY <2>0, <3>1, <3>2, <3>3 DEF DoctorAgrees
  <2>2. CASE ~(cfg = NoConfig \/ p = NoProfile \/ env.kube = "bad")
    <3>1. app' = "up" /\ profile' = Selected(Named(cfg, env.flag), p)
      BY <1>2, <2>2 DEF StartUp
    <3>2. DoctorProfile(env) = p
      BY <2>2 DEF DoctorProfile
    <3>3. ProfileRow(env) = "green" /\ KubeconfigRow(env) = "green"
      BY <2>2, <3>2 DEF ProfileRow, KubeconfigRow
    <3>4. MarkedActive(env) # {} => profile'.provider # "nil"
      BY <3>1, <3>2, MarkedIsMade DEF Selected
    <3>5. ConfigRow(env) = "yellow" => profile'.name = Dev
      BY <2>2, <3>1, ResolveFinds, BuiltinOnly DEF Selected
    <3> QED
      BY <2>0, <3>1, <3>3, <3>4, <3>5 DEF DoctorAgrees
  <2> QED
    BY <2>1, <2>2
<1>3. ASSUME NEW name \in DOMAIN Load(env).profiles, SwitchProfile(name) PROVE DoctorAgrees'
  <2>1. app = "up" /\ UNCHANGED <<env, app>>
    BY <1>3 DEF SwitchProfile, Unselected
  <2>2. profile'.provider # "nil" /\ profile'.name = name
    BY <1>3 DEF SwitchProfile, Selected
  <2>3. ConfigRow(env) = "yellow" => name = Dev
    BY <1>3, BuiltinOnly
  <2> QED
    BY <2>1, <2>2, <2>3 DEF DoctorAgrees
<1>4. CASE Ask \/ Receive \/ NextTurn \/ EndSession \/ Goroutine \/ UNCHANGED vars
  BY <1>1, <1>4 DEF Ask, Receive, NextTurn, EndSession, Goroutine, Send, SendGivesUp, CloseOut, GoesOn,
                    vars
<1>5. ASSUME NEW o, NEW c, Begin(o, c) PROVE DoctorAgrees'
  BY <1>1, <1>5 DEF Begin
<1>6. ASSUME NEW how, Cancel(how) PROVE DoctorAgrees'
  BY <1>1, <1>6 DEF Cancel
<1>7. CASE Server
  <2>1. CASE Accept \/ Refuse \/ ArgsChunk \/ Ping \/ ServerFinishes \/ ServerDrops \/ ReadFails
    BY <1>1, <2>1 DEF Accept, Refuse, ArgsChunk, Ping, ServerFinishes, ServerDrops, ReadFails, GoesOn
  <2>2. CASE TextChunk
    BY <1>1, <2>2 DEF TextChunk, Chunk, GoesOn
  <2>3. ASSUME NEW call, NEW id, CallChunk(call, id) PROVE UNCHANGED <<env, app, profile>>
    BY <2>3 DEF CallChunk, Chunk, GoesOn
  <2> QED
    BY <1>1, <1>7, <2>1, <2>2, <2>3 DEF Server
<1> QED
  BY <1>2, <1>3, <1>4, <1>5, <1>6, <1>7 DEF Next

\* The rows of `kbark doctor` say what the program does in the same
\* environment, for every configuration file, flag and set of keys (doctor.go,
\* buildDoctorOptions, runTUI).
THEOREM DiagnoseDoctorAgrees == Spec => []DoctorAgrees
<1>1. Init => DoctorAgrees
  BY DEF Init, DoctorAgrees
<1> QED
  BY <1>1, DoctorStep, PTL DEF Spec

-----------------------------------------------------------------------------
(* What a payload or a tool shows of a cluster.                            *)

\* What a call may ask for of a log: the default if it asks for none, and
\* never more than the cap.
LEMMA LogTailClamped ==
  ASSUME NEW n \in Int
  PROVE  /\ LogTail(n) \in 1..ToolLogTailLines
         /\ n \in 1..ToolLogTailLines => LogTail(n) = n
BY ToolsAssumption DEF LogTail

\* Of the events the API server lists, those shown are the most recent, the
\* newest first, and as many as there is room for: no event listed and left
\* out is newer than one that is shown, whatever order sort.Slice gives equal
\* ones.
THEOREM RecentEventsNewest ==
  ASSUME NEW E, \A e \in E : mostRecent(e) \in Int, NEW events \in Seq(E)
  PROVE  LET shown == recentEvents(events)
         IN  /\ shown \in Seq(E) /\ ToSet(shown) \subseteq ToSet(Listed(events))
             /\ Len(shown) = IF Len(Listed(events)) > EventsInPayload
                                THEN EventsInPayload ELSE Len(Listed(events))
             /\ \A i, j \in DOMAIN shown : i < j => mostRecent(shown[i]) >= mostRecent(shown[j])
             /\ \A e \in ToSet(shown), f \in ToSet(Listed(events)) \ ToSet(shown) :
                  mostRecent(e) >= mostRecent(f)
<1> DEFINE listed == Listed(events)
           rank   == [e \in E |-> mostRecent(e)]
           order  == CHOOSE p \in Bijection(DOMAIN listed, DOMAIN listed) :
                       \A i, j \in DOMAIN listed :
                         i < j => mostRecent(listed[p[i]]) >= mostRecent(listed[p[j]])
           sorted == [i \in DOMAIN listed |-> listed[order[i]]]
           n      == Len(listed)
           m      == IF n > EventsInPayload THEN EventsInPayload ELSE n
           shown  == SubSeq(sorted, 1, m)
<1>a. EventListLimit \in Nat /\ EventsInPayload \in Nat
  BY ToolsAssumption
<1>1. listed \in Seq(E) /\ n \in Nat /\ DOMAIN listed = 1..n
  BY <1>a DEF Listed
<1> HIDE DEF listed, n
<1>2. rank \in [E -> Int] /\ \A i \in 1..n : listed[i] \in E /\ rank[listed[i]] = mostRecent(listed[i])
  BY <1>1
<1>3. /\ order \in Bijection(DOMAIN listed, DOMAIN listed)
      /\ \A i, j \in DOMAIN listed : i < j => mostRecent(listed[order[i]]) >= mostRecent(listed[order[j]])
  <2>1. PICK p : Sorts(p, rank, listed)
    BY <1>1, <1>2, SortExists
  <2>2. \A i \in 1..n : p[i] \in 1..n
    BY <1>1, <2>1 DEF Sorts, Bijection, Injection
  <2>3. /\ p \in Bijection(DOMAIN listed, DOMAIN listed)
        /\ \A i, j \in DOMAIN listed : i < j => mostRecent(listed[p[i]]) >= mostRecent(listed[p[j]])
    BY <1>1, <1>2, <2>1, <2>2 DEF Sorts
  <2> QED
    BY <2>3
<1>4. NewestFirst(listed) = sorted
  BY DEF NewestFirst
<1> HIDE DEF rank, order
<1>5. /\ \A i \in 1..n : order[i] \in 1..n
      /\ \A k \in 1..n : \E i \in 1..n : order[i] = k
  BY <1>1, <1>3 DEF Bijection, Injection, Surjection
<1>6. sorted \in Seq(E) /\ Len(sorted) = n /\ \A i \in 1..n : sorted[i] = listed[order[i]]
  <2>1. \A i \in 1..n : listed[order[i]] \in E
    BY <1>2, <1>5
  <2>2. sorted = [i \in 1..n |-> listed[order[i]]]
    BY <1>1
  <2> HIDE DEF sorted
  <2> QED
    BY <1>1, <2>1, <2>2
<1> HIDE DEF sorted
<1>s. recentEvents(events) = shown
  BY <1>4, <1>6 DEF recentEvents, listed
<1>7. m \in 0..n
  BY <1>a, <1>1
<1> HIDE DEF m
<1>8. /\ shown \in Seq(E) /\ Len(shown) = m /\ DOMAIN shown = 1..m
      /\ \A i \in 1..m : i \in 1..n /\ shown[i] = sorted[i]
  BY <1>1, <1>6, <1>7
<1> HIDE DEF shown
<1>9. \A i, j \in 1..n : i < j => mostRecent(sorted[i]) >= mostRecent(sorted[j])
  BY <1>1, <1>3, <1>6
<1>10. ASSUME NEW e \in ToSet(shown) PROVE e \in ToSet(listed) /\ \E i \in 1..m : e = sorted[i]
  <2>1. PICK i \in 1..m : e = shown[i]
    BY <1>8 DEF ToSet
  <2>2. i \in 1..n /\ e = sorted[i] /\ e = listed[order[i]] /\ order[i] \in 1..n
    BY <1>5, <1>6, <1>8, <2>1
  <2> QED
    BY <1>1, <2>2 DEF ToSet
<1>11. ASSUME NEW f \in ToSet(listed), f \notin ToSet(shown)
       PROVE  \E j \in 1..n : j > m /\ f = sorted[j]
  <2>1. PICK k \in 1..n : f = listed[k]
    BY <1>1 DEF ToSet
  <2>2. PICK j \in 1..n : order[j] = k
    BY <1>5
  <2>3. f = sorted[j]
    BY <1>6, <2>1, <2>2
  <2>4. j \notin 1..m
    BY <1>8, <1>11, <2>3 DEF ToSet
  <2> QED
    BY <1>7, <2>3, <2>4
<1>12. ASSUME NEW e \in ToSet(shown), NEW f \in ToSet(listed) \ ToSet(shown)
       PROVE  mostRecent(e) >= mostRecent(f)
  <2>1. PICK i \in 1..m : e = sorted[i]
    BY <1>10
  <2>2. PICK j \in 1..n : j > m /\ f = sorted[j]
    BY <1>11
  <2>3. i \in 1..n /\ i < j
    BY <1>1, <1>7, <2>2
  <2> QED
    BY <1>9, <2>1, <2>2, <2>3
<1>13. \A i, j \in DOMAIN shown : i < j => mostRecent(shown[i]) >= mostRecent(shown[j])
  BY <1>8, <1>9
<1>14. ToSet(shown) \subseteq ToSet(listed)
  BY <1>10
<1> QED
  BY <1>s, <1>8, <1>12, <1>13, <1>14 DEF listed, n, m

-----------------------------------------------------------------------------
(* Results of tool calls.                                                  *)

\* Redaction comes before truncation: what is finished is bounded, and no
\* value that redaction looks for is left.
LEMMA FinishBounds ==
  ASSUME NEW t \in Texts
  PROVE  /\ Finish(t) \in Texts /\ ~Finish(t).secret
         /\ Finish(t).size <= MaxToolResultBytes + Suffix
<1>1. MaxToolResultBytes \in Nat /\ Suffix \in Nat
  BY ToolsAssumption
<1>2. Redact(t) \in Texts /\ ~Redact(t).secret
  <2>1. CASE t.secret
    <3> DEFINE u == [t EXCEPT !.secret = FALSE, !.size = @ + 1]
    <3>1. t.size + 1 \in Nat
      BY DEF Texts
    <3>2. u \in Texts
      BY <3>1 DEF Texts
    <3>3. u.secret = FALSE
      BY DEF Texts
    <3> QED
      BY <2>1, <3>2, <3>3 DEF Redact
  <2>2. CASE ~t.secret
    BY <2>2 DEF Redact
  <2> QED
    BY <2>1, <2>2
<1>3. ASSUME NEW u \in Texts, ~u.secret
      PROVE  /\ truncateResult(u) \in Texts /\ ~truncateResult(u).secret
             /\ truncateResult(u).size <= MaxToolResultBytes + Suffix
  <2>1. CASE u.size <= MaxToolResultBytes
    BY <1>1, <1>3, <2>1 DEF truncateResult, Texts
  <2>2. CASE ~(u.size <= MaxToolResultBytes)
    <3> DEFINE v == [u EXCEPT !.kind = "cut", !.size = MaxToolResultBytes + Suffix]
    <3>1. v \in Texts
      <4>1. MaxToolResultBytes + Suffix \in Nat
        BY <1>1
      <4> QED
        BY <4>1 DEF Texts
    <3>2. v.secret = u.secret
      BY DEF Texts
    <3>3. v.size = MaxToolResultBytes + Suffix
      BY DEF Texts
    <3> QED
      BY <1>1, <1>3, <2>2, <3>1, <3>2, <3>3 DEF truncateResult
  <2> QED
    BY <2>1, <2>2
<1> QED
  BY <1>2, <1>3 DEF Finish

\* A note is short, and what is answered is as the API server sent it.
LEMMA DispatchBounds ==
  ASSUME NEW call, NEW dynamic, NEW a \in Answers
  PROVE  LET result == Dispatch(call, dynamic, a)
         IN  /\ result.text \in Texts
             /\ ~result.isError => /\ ~result.text.secret
                                   /\ result.text.size <= MaxToolResultBytes + Suffix
<1>1. Note \in Texts
  BY DEF Note, Text, Texts
<1>2. Answered(a) \in Texts
  BY AnswersAssumption DEF Answered, Texts
<1>3. podTool(call, a) \in Texts
  BY <1>1, <1>2 DEF podTool
<1>4. getResource(call, dynamic, a) \in Texts
  BY <1>1, <1>2 DEF getResource
<1> QED
  BY <1>1, <1>3, <1>4, FinishBounds DEF Dispatch

\* A result of the conversation is bounded, and an error's is a text.
ResultOK(r) ==
  /\ r.text \in Texts
  /\ ~r.isError => r.text.size <= MaxToolResultBytes + Suffix /\ ~r.text.secret

\* A sequence of whatever elements, and what appending two does.
IsSeq(s) == \E S : s \in Seq(S)
LEMMA TwoAppended ==
  ASSUME NEW s, NEW x, NEW y, IsSeq(s)
  PROVE  /\ IsSeq(s \o <<x, y>>)
         /\ \A i \in DOMAIN (s \o <<x, y>>) :
              \/ i \in DOMAIN s /\ (s \o <<x, y>>)[i] = s[i]
              \/ (s \o <<x, y>>)[i] \in {x, y}
<1>1. PICK S : s \in Seq(S)
  BY DEF IsSeq
<1> DEFINE T == S \union {x, y}
<1>2. s \in Seq(T)
  <2>1. s = [i \in 1..Len(s) |-> s[i]] /\ Len(s) \in Nat /\ \A i \in 1..Len(s) : s[i] \in S
    BY <1>1
  <2> QED
    BY <2>1
<1>3. <<x, y>> \in Seq(T)
  OBVIOUS
<1>4. s \o <<x, y>> \in Seq(T)
  BY <1>2, <1>3
<1>5. \A i \in DOMAIN (s \o <<x, y>>) :
        \/ i \in DOMAIN s /\ (s \o <<x, y>>)[i] = s[i]
        \/ (s \o <<x, y>>)[i] \in {x, y}
  <2> HIDE DEF T
  <2> QED
    BY <1>2, <1>3
<1> QED
  BY <1>4, <1>5 DEF IsSeq

\* The conversation so far.
MessagesInv ==
  /\ IsSeq(messages)
  /\ \A i \in DOMAIN messages : \A j \in DOMAIN messages[i].results : ResultOK(messages[i].results[j])

\* What NextTurn puts into the conversation.
LEMMA AnswersAreResults ==
  ASSUME NEW calls, NEW answers \in [DOMAIN calls -> Answers], NEW j \in DOMAIN calls
  PROVE  LET result(i) == Dispatch(calls[i], TRUE, answers[i])
         IN  ResultOK([id |-> calls[j].id, isError |-> result(j).isError, text |-> result(j).text])
BY DispatchBounds DEF ResultOK

\* Every step keeps the results bounded.
LEMMA MessagesStep == MessagesInv /\ [Next]_vars => MessagesInv'
<1> SUFFICES ASSUME MessagesInv, [Next]_vars PROVE MessagesInv'
  OBVIOUS
<1>1. ASSUME UNCHANGED messages PROVE MessagesInv'
  BY <1>1 DEF MessagesInv
<1>2. ASSUME NEW o, NEW c, Begin(o, c) PROVE MessagesInv'
  <2>1. CASE messages' = <<[role |-> "user", text |-> TRUE, uses |-> <<>>, results |-> <<>>]>>
    <3>1. messages' \in Seq({[role |-> "user", text |-> TRUE, uses |-> <<>>, results |-> <<>>]})
      BY <2>1
    <3>2. \A i \in DOMAIN messages' : DOMAIN messages'[i].results = {}
      BY <2>1
    <3> QED
      BY <3>1, <3>2 DEF MessagesInv, IsSeq
  <2> QED
    BY <1>1, <1>2, <2>1 DEF Begin, Stream
<1>3. CASE NextTurn
  <2>1. PICK answers \in [DOMAIN CallsOf(sent) -> Answers] :
          LET calls     == CallsOf(sent)
              result(i) == Dispatch(calls[i], TRUE, answers[i])
          IN  Stream(messages \o
                <<[role |-> "assistant", text |-> Delta \in ToSet(sent), uses |-> calls,
                   results |-> <<>>],
                  [role |-> "user", text |-> FALSE, uses |-> <<>>,
                   results |-> [i \in DOMAIN calls |->
                                  [id |-> calls[i].id, isError |-> result(i).isError,
                                   text |-> result(i).text]]]>>)
    BY <1>3 DEF NextTurn
  <2> DEFINE calls     == CallsOf(sent)
             result(i) == Dispatch(calls[i], TRUE, answers[i])
             results   == [i \in DOMAIN calls |-> [id |-> calls[i].id, isError |-> result(i).isError,
                                                   text |-> result(i).text]]
             x == [role |-> "assistant", text |-> Delta \in ToSet(sent), uses |-> calls,
                   results |-> <<>>]
             y == [role |-> "user", text |-> FALSE, uses |-> <<>>, results |-> results]
  <2>2. messages' = messages \o <<x, y>>
    BY <2>1 DEF Stream
  <2>3. \A j \in DOMAIN results : ResultOK(results[j])
    BY AnswersAreResults
  <2>4. x.results = <<>> /\ y.results = results
    OBVIOUS
  <2> HIDE DEF x, y, results, calls, result
  <2>5. /\ IsSeq(messages')
        /\ \A i \in DOMAIN messages' : \/ i \in DOMAIN messages /\ messages'[i] = messages[i]
                                       \/ messages'[i] \in {x, y}
    BY <2>2, TwoAppended DEF MessagesInv
  <2>6. ASSUME NEW i \in DOMAIN messages', NEW j \in DOMAIN messages'[i].results
        PROVE  ResultOK(messages'[i].results[j])
    <3>1. CASE i \in DOMAIN messages /\ messages'[i] = messages[i]
      BY <2>6, <3>1 DEF MessagesInv
    <3>2. CASE messages'[i] = x
      BY <2>4, <2>6, <3>2
    <3>3. CASE messages'[i] = y
      BY <2>3, <2>4, <2>6, <3>3
    <3> QED
      BY <2>5, <3>1, <3>2, <3>3
  <2> QED
    BY <2>5, <2>6 DEF MessagesInv, ResultOK
<1>4. CASE StartUp \/ Ask \/ Receive \/ EndSession \/ Goroutine \/ UNCHANGED vars
  BY <1>1, <1>4 DEF StartUp, Unselected, Ask, Receive, EndSession, Goroutine, Send, SendGivesUp,
                    CloseOut, GoesOn, diagnosis, vars
<1>5. ASSUME NEW x, SwitchProfile(x) \/ Cancel(x) PROVE MessagesInv'
  BY <1>1, <1>5 DEF SwitchProfile, Cancel, Unselected, diagnosis
<1>6. CASE Server
  <2>1. CASE Accept \/ Refuse \/ ArgsChunk \/ Ping \/ ServerFinishes \/ ServerDrops \/ ReadFails
    BY <1>1, <2>1 DEF Accept, Refuse, ArgsChunk, Ping, ServerFinishes, ServerDrops, ReadFails, GoesOn, diagnosis
  <2>2. CASE TextChunk
    BY <1>1, <2>2 DEF TextChunk, Chunk, GoesOn, diagnosis
  <2>3. ASSUME NEW call, NEW id, CallChunk(call, id) PROVE UNCHANGED messages
    BY <2>3 DEF CallChunk, Chunk, GoesOn, diagnosis
  <2> QED
    BY <1>1, <1>6, <2>1, <2>2, <2>3 DEF Server
<1> QED
  BY <1>2, <1>3, <1>4, <1>5, <1>6 DEF Next

\* The conversation is empty at first.
LEMMA InitMessagesInv == Init => MessagesInv
<1> SUFFICES ASSUME Init PROVE MessagesInv
  OBVIOUS
<1>1. messages = <<>> /\ messages \in Seq({})
  BY DEF Init
<1> QED
  BY <1>1 DEF MessagesInv, IsSeq

\* What a tool puts into the conversation is bounded and redacted, whatever
\* the model asks and the API server answers (Dispatch).
THEOREM DiagnoseResultsBounded == Spec => []ResultsBounded
<1>1. Init => MessagesInv
  BY InitMessagesInv
<1>2. MessagesInv => ResultsBounded
  BY DEF MessagesInv, ResultOK, ResultsBounded, ToSet
<1> QED
  BY <1>1, <1>2, MessagesStep, PTL DEF Spec

-----------------------------------------------------------------------------
(* The provider's goroutine.                                               *)

\* What it may have to send: a call is one of the server's, one with an ID
\* found in OpenAI's accumulator, or one of Anthropic's that broke off.
Served     == {WithId(c, <<t, n>>) : t \in Nat, n \in Nat, c \in Calls}
Labels     == Nat \X Nat
Relabelled == {[c EXCEPT !.id = id] : c \in Served, id \in Labels}
Broken     == UNION {BrokenOff(c) : c \in Served}
Sayable    == Served \union Relabelled \union Broken
Events     == [kind : {"delta", "call", "done", "error"}, call : {NoCall} \union Sayable]
Terminals  == {Done, Error}
Open       == Events \ Terminals

StreamTypes ==
  /\ goroutine \in {"none", "opening", "reading", "ending", "closed"}
  /\ ctx \in {"live", "expired", "cancelled"}
  /\ chunks \in Nat
  /\ served \in Seq(Served) /\ current \in 0..Len(served) /\ partial \in BOOLEAN
  /\ queue \in Seq(Events) /\ sent \in Seq(Events)
  /\ taken \in 0..Len(sent) /\ Len(sent) - taken \in 0..OutCap

\* A terminal event comes last, and only from a goroutine that is ending; one
\* that is ending without one to send has sent it or been told to stop.
Over == Terminals \intersect ToSet(sent) # {}
LastFirst ==
  /\ goroutine \in {"none", "opening", "closed"} => queue = <<>>
  /\ goroutine \in {"none", "opening"} => sent = <<>>
  /\ \A i \in 1..Len(queue) : queue[i] \in Terminals => i = Len(queue) /\ goroutine = "ending"
  /\ Over => queue = <<>> /\ goroutine \in {"ending", "closed"}
  /\ goroutine = "ending" /\ ctx = "live" /\ ~Over =>
       queue # <<>> /\ queue[Len(queue)] \in Terminals

\* No goroutine before the first request; turns are counted from it.
PhaseInv ==
  /\ app \in {"starting", "up", "exited"}
  /\ phase \in {"idle", "building", "turn", "ended"}
  /\ turn \in 0..MaxTurns
  /\ phase \in {"idle", "building"} => turn = 0 /\ goroutine = "none"

StreamInv == StreamTypes /\ LastFirst /\ PhaseInv

\* Events and their kinds.
LEMMA EventKinds ==
  /\ Delta \in Open /\ Done \in Events /\ Error \in Events
  /\ \A c \in Sayable : Event("call", c) \in Open
BY DEF Open, Events, Terminals, Delta, Done, Error, Event

\* The ID toolCallIDFor finds is one the server gave, or none.
LEMMA IdFound ==
  ASSUME NEW calls \in Seq(Served), NEW index
  PROVE  \/ IdAt(calls, index) = NoId
         \/ \E k \in DOMAIN calls :
              Identified(calls[k]) /\ Rank(calls, k) = index /\ IdAt(calls, index) = calls[k].id
BY DEF IdAt

\* What is left to send of calls is open.
LEMMA FinishedOpen ==
  ASSUME StreamTypes, NEW calls \in Seq(Served)
  PROVE  Finished(calls) \in Seq(Open)
<1>1. served \in Seq(Served) /\ current \in 0..Len(served) /\ Len(served) \in Nat
  BY DEF StreamTypes
<1>2. CASE current # 0
  <2>1. served[current] \in Served
    BY <1>1, <1>2
  <2>2. \E t, n \in Nat : IdAt(calls, current) = <<t, n>>
    <3>1. CASE IdAt(calls, current) = NoId
      BY <3>1 DEF NoId
    <3>2. CASE \E k \in DOMAIN calls : IdAt(calls, current) = calls[k].id
      <4>1. PICK k \in DOMAIN calls : IdAt(calls, current) = calls[k].id
        BY <3>2
      <4>2. calls[k] \in Served
        BY <4>1
      <4>3. PICK t \in Nat, n \in Nat, c \in Calls : calls[k] = WithId(c, <<t, n>>)
        BY <4>2 DEF Served
      <4> QED
        BY <4>1, <4>3 DEF WithId
    <3> QED
      BY <3>1, <3>2, IdFound
  <2>3. [served[current] EXCEPT !.id = IdAt(calls, current)] \in Relabelled
    <3>1. IdAt(calls, current) \in Labels
      BY <2>2 DEF Labels
    <3> QED
      BY <2>1, <3>1 DEF Relabelled
  <2>4. Event("call", [served[current] EXCEPT !.id = IdAt(calls, current)]) \in Open
    BY <2>3, EventKinds DEF Sayable
  <2> QED
    BY <2>4 DEF Finished
<1>3. CASE current = 0
  BY <1>3 DEF Finished
<1> QED
  BY <1>2, <1>3, <1>1

LEMMA AtEndOpen ==
  ASSUME NEW calls \in Seq(Sayable)
  PROVE  AtEnd(calls) \in Seq(Open)
<1>1. Len(calls) \in Nat /\ DOMAIN calls = 1..Len(calls) /\ \A i \in 1..Len(calls) : calls[i] \in Sayable
  OBVIOUS
<1>2. \A i \in 1..Len(calls) : Event("call", calls[i]) \in Open
  BY <1>1, EventKinds
<1> QED
  BY <1>1, <1>2 DEF AtEnd

\* A message as it is assembled: the calls that were made, the last of them
\* maybe broken off.
LEMMA AssembledCalls ==
  ASSUME StreamTypes, NEW calls \in Assembled
  PROVE  /\ calls \in Seq(Sayable) /\ Len(calls) = Len(served)
         /\ \A i \in DOMAIN served :
              \/ calls[i] = served[i]
              \/ (partial /\ i = Len(served) /\ calls[i] \in BrokenOff(served[i]))
         /\ served \in Seq(Sayable) /\ (~partial => calls = served)
<1>1. /\ served \in Seq(Served) /\ Len(served) \in Nat /\ DOMAIN served = 1..Len(served)
      /\ \A i \in 1..Len(served) : served[i] \in Served
      /\ partial \in BOOLEAN
  BY DEF StreamTypes
<1>2. Served \subseteq Sayable /\ \A c \in Served : BrokenOff(c) \subseteq Sayable
  BY DEF Sayable, Broken
<1>3. served \in Seq(Sayable)
  <2>1. served = [i \in 1..Len(served) |-> served[i]] /\ \A i \in 1..Len(served) : served[i] \in Sayable
    BY <1>1, <1>2
  <2> HIDE DEF Sayable
  <2> QED
    BY <1>1, <2>1
<1>4. CASE ~partial
  <2>1. calls = served
    BY <1>4 DEF Assembled
  <2> QED
    BY <1>1, <1>3, <2>1
<1>5. CASE partial
  <2>1. PICK c \in BrokenOff(served[Len(served)]) : calls = [served EXCEPT ![Len(served)] = c]
    BY <1>5 DEF Assembled
  <2>2. calls = [i \in 1..Len(served) |-> IF i = Len(served) THEN c ELSE served[i]]
    BY <1>1, <2>1
  <2>3. \A i \in 1..Len(served) : calls[i] = (IF i = Len(served) THEN c ELSE served[i]) /\ calls[i] \in Sayable
    <3>1. ASSUME NEW i \in 1..Len(served) PROVE (IF i = Len(served) THEN c ELSE served[i]) \in Sayable
      BY <1>1, <1>2, <2>1
    <3> QED
      BY <2>2, <3>1
  <2>4. calls = [i \in 1..Len(served) |-> calls[i]]
    BY <2>2
  <2>5. calls \in Seq(Sayable) /\ Len(calls) = Len(served)
    BY <1>1, <2>3, <2>4
  <2>6. \A i \in DOMAIN served :
          calls[i] = served[i] \/ (i = Len(served) /\ calls[i] \in BrokenOff(served[i]))
    BY <1>1, <2>1, <2>3
  <2>7. \A i \in DOMAIN served :
          \/ calls[i] = served[i]
          \/ (partial /\ i = Len(served) /\ calls[i] \in BrokenOff(served[i]))
    BY <1>5, <2>6
  <2> QED
    BY <1>3, <1>5, <2>5, <2>7
<1> QED
  BY <1>1, <1>4, <1>5

\* A queue that ends with a terminal event, and one without.
LEMMA QueueEnds ==
  ASSUME NEW p \in Seq(Open), NEW e \in Terminals
  PROVE  LET q == p \o <<e>>
         IN  /\ q \in Seq(Events) /\ q # <<>> /\ q[Len(q)] \in Terminals
             /\ \A i \in 1..Len(q) : q[i] \in Terminals => i = Len(q)
<1>1. e \in Events /\ Open \subseteq Events /\ p \in Seq(Events)
  <2>1. Open \subseteq Events /\ e \in Events
    BY EventKinds DEF Open, Terminals
  <2>2. p = [i \in 1..Len(p) |-> p[i]] /\ Len(p) \in Nat /\ \A i \in 1..Len(p) : p[i] \in Open
    OBVIOUS
  <2> QED
    BY <2>1, <2>2
<1>2. \A i \in 1..Len(p) : p[i] \notin Terminals
  BY DEF Open
<1> DEFINE q == p \o <<e>>
<1>3. /\ q \in Seq(Events) /\ Len(q) = Len(p) + 1 /\ Len(p) \in Nat /\ q[Len(p) + 1] = e
      /\ \A i \in 1..Len(p) : q[i] = p[i]
  BY <1>1
<1> HIDE DEF q
<1>4. \A i \in 1..Len(q) : q[i] \in Terminals => i = Len(q)
  BY <1>2, <1>3
<1>5. q # <<>> /\ q[Len(q)] \in Terminals
  BY <1>3
<1> QED
  BY <1>3, <1>4, <1>5 DEF q

\* A queue without a terminal event.
LEMMA QueueOpen ==
  ASSUME NEW p \in Seq(Open)
  PROVE  p \in Seq(Events) /\ \A i \in 1..Len(p) : p[i] \notin Terminals
<1>1. Open \subseteq Events
  BY DEF Open
<1>2. p = [i \in 1..Len(p) |-> p[i]] /\ Len(p) \in Nat /\ \A i \in 1..Len(p) : p[i] \in Open
  OBVIOUS
<1> QED
  BY <1>1, <1>2 DEF Open

\* What is sent stays sent.
LEMMA SentAppended ==
  ASSUME NEW s \in Seq(Events), NEW e \in Events
  PROVE  ToSet(Append(s, e)) = ToSet(s) \union {e}
<1>1. /\ Append(s, e) \in Seq(Events) /\ Len(Append(s, e)) = Len(s) + 1 /\ Len(s) \in Nat
      /\ Append(s, e)[Len(s) + 1] = e
      /\ \A i \in 1..Len(s) : Append(s, e)[i] = s[i]
      /\ DOMAIN s = 1..Len(s) /\ DOMAIN Append(s, e) = 1..(Len(s) + 1)
  OBVIOUS
<1>2. \A i \in 1..(Len(s) + 1) : i \in 1..Len(s) \/ i = Len(s) + 1
  BY <1>1
<1>3. \A i \in 1..Len(s) : i \in 1..(Len(s) + 1)
  BY <1>1
<1>4. Len(s) + 1 \in 1..(Len(s) + 1)
  BY <1>1
<1>5. ToSet(Append(s, e)) \subseteq ToSet(s) \union {e}
  BY <1>1, <1>2 DEF ToSet
<1>6. ToSet(s) \subseteq ToSet(Append(s, e)) /\ e \in ToSet(Append(s, e))
  BY <1>1, <1>3, <1>4 DEF ToSet
<1> QED
  BY <1>5, <1>6

\* What the server's chunks leave behind.
ResponseTypes == /\ chunks \in Nat /\ served \in Seq(Served) /\ current \in 0..Len(served)
                 /\ partial \in BOOLEAN

\* The goroutine goes on reading, with open events to send.
LEMMA GoesReading ==
  ASSUME StreamInv, NEW q \in Seq(Open), goroutine \in {"opening", "reading"}, queue = <<>>,
         GoesOn("reading", q), ResponseTypes'
  PROVE  StreamInv'
<1>1. /\ goroutine' = "reading" /\ queue' = q
      /\ UNCHANGED <<app, phase, turn, sent, taken, ctx>>
  BY DEF GoesOn, diagnosis, channel
<1>2. q \in Seq(Events) /\ \A i \in 1..Len(q) : q[i] \notin Terminals
  BY QueueOpen
<1>3. ~Over
  BY DEF StreamInv, LastFirst
<1>4. StreamTypes'
  BY <1>1, <1>2 DEF StreamInv, StreamTypes, ResponseTypes
<1>5. LastFirst'
  BY <1>1, <1>2, <1>3 DEF LastFirst, Over
<1>6. PhaseInv'
  BY <1>1 DEF StreamInv, PhaseInv
<1> QED
  BY <1>4, <1>5, <1>6 DEF StreamInv

\* It ends, with open events and a terminal one to send.
LEMMA GoesEnding ==
  ASSUME StreamInv, NEW p \in Seq(Open), NEW e \in Terminals, goroutine \in {"opening", "reading"},
         queue = <<>>, GoesOn("ending", p \o <<e>>), ResponseTypes'
  PROVE  StreamInv'
<1> DEFINE q == p \o <<e>>
<1>1. /\ goroutine' = "ending" /\ queue' = q
      /\ UNCHANGED <<app, phase, turn, sent, taken, ctx>>
  BY DEF GoesOn, diagnosis, channel
<1>2. /\ q \in Seq(Events) /\ q # <<>> /\ q[Len(q)] \in Terminals
      /\ \A i \in 1..Len(q) : q[i] \in Terminals => i = Len(q)
  BY QueueEnds
<1> HIDE DEF q
<1>3. ~Over
  BY DEF StreamInv, LastFirst
<1>4. StreamTypes'
  BY <1>1, <1>2 DEF StreamInv, StreamTypes, ResponseTypes
<1>5. LastFirst'
  BY <1>1, <1>2, <1>3 DEF LastFirst, Over
<1>6. PhaseInv'
  BY <1>1 DEF StreamInv, PhaseInv
<1> QED
  BY <1>4, <1>5, <1>6 DEF StreamInv

\* Once ctx is done, it ends with nothing to send.
LEMMA GivesUp ==
  ASSUME StreamInv, ~Over, ctx # "live", goroutine # "none", GoesOn("ending", <<>>), ResponseTypes'
  PROVE  StreamInv'
<1>1. /\ goroutine' = "ending" /\ queue' = <<>>
      /\ UNCHANGED <<app, phase, turn, sent, taken, ctx>>
  BY DEF GoesOn, diagnosis, channel
<1>4. StreamTypes'
  BY <1>1 DEF StreamInv, StreamTypes, ResponseTypes
<1>5. LastFirst'
  BY <1>1 DEF LastFirst, Over
<1>6. PhaseInv'
  BY <1>1 DEF StreamInv, PhaseInv
<1> QED
  BY <1>4, <1>5, <1>6 DEF StreamInv

\* A chunk that brings open events.
LEMMA ChunkStep ==
  ASSUME StreamInv, NEW q \in Seq(Open), Chunk(q), served' \in Seq(Served), current' \in 0..Len(served'),
         partial' \in BOOLEAN
  PROVE  StreamInv'
<1>1. goroutine = "reading" /\ queue = <<>> /\ chunks < MaxChunks[turn] /\ chunks' = chunks + 1
  BY DEF Chunk, Reads
<1>2. ResponseTypes' /\ ~Over
  BY <1>1, LimitsAssumption DEF StreamInv, StreamTypes, LastFirst, ResponseTypes
<1>3. CASE CtxChecked
  BY <1>1, <1>2, <1>3, GivesUp DEF Chunk, CtxChecked
<1>4. CASE ~CtxChecked
  BY <1>1, <1>2, <1>4, GoesReading DEF Chunk
<1> QED
  BY <1>3, <1>4

\* The server's steps.
LEMMA ServerStep == StreamInv /\ Server => StreamInv'
<1> SUFFICES ASSUME StreamInv, Server PROVE StreamInv'
  OBVIOUS
<1>0. /\ StreamTypes /\ ResponseTypes /\ served \in Seq(Served) /\ current \in 0..Len(served)
      /\ Len(served) \in Nat /\ partial \in BOOLEAN
  BY DEF StreamInv, StreamTypes, ResponseTypes
<1>q. /\ \A calls \in Seq(Served) : Finished(calls) \in Seq(Open)
      /\ \A calls \in Assembled : AtEnd(calls) \in Seq(Open) /\ AtEnd(served) \in Seq(Open)
      /\ Assembled # {} /\ <<>> \in Seq(Open)
  <2>1. \A calls \in Seq(Served) : Finished(calls) \in Seq(Open)
    BY <1>0, FinishedOpen
  <2>2. \A calls \in Assembled : calls \in Seq(Sayable) /\ served \in Seq(Sayable)
    BY <1>0, AssembledCalls
  <2>3. Assembled # {}
    BY DEF Assembled, BrokenOff
  <2>4. <<>> \in Seq(Open)
    OBVIOUS
  <2> QED
    BY <2>1, <2>2, <2>3, <2>4, AtEndOpen
<1>r. ASSUME UNCHANGED response PROVE ResponseTypes'
  BY <1>0, <1>r DEF response, ResponseTypes
<1>t. Done \in Terminals /\ Error \in Terminals
  BY DEF Terminals
<1>s. <<Done>> = <<>> \o <<Done>> /\ <<Error>> = <<>> \o <<Error>>
  OBVIOUS
<1>n. goroutine \in {"opening", "reading"} => queue = <<>> \/ goroutine = "reading"
  BY DEF StreamInv, LastFirst
<1>1. CASE Accept
  BY <1>1, <1>q, <1>r, <1>n, GoesReading DEF Accept
<1>2. CASE Refuse
  <2>1. GoesOn("ending", <<>> \o <<Error>>) /\ goroutine = "opening" /\ queue = <<>> /\ ResponseTypes'
    BY <1>2, <1>r, <1>s, <1>n DEF Refuse
  <2> QED
    BY <1>q, <1>t, <2>1, GoesEnding
<1>3. CASE TextChunk
  <2>1. <<Delta>> \o Finished(served) \in Seq(Open)
    BY <1>0, <1>q, EventKinds
  <2>2. /\ served' \in Seq(Served) /\ current' \in 0..Len(served') /\ partial' \in BOOLEAN
        /\ Chunk(<<Delta>> \o Finished(served))
    BY <1>0, <1>3 DEF TextChunk
  <2> QED
    BY <2>1, <2>2, ChunkStep
<1>9. CASE ArgsChunk
  <2>1. goroutine = "reading" /\ queue = <<>> /\ ~Over /\ ResponseTypes'
    BY <1>0, <1>9 DEF ArgsChunk, Reads, StreamInv, LastFirst, ResponseTypes
  <2>2. CASE CtxChecked
    BY <1>9, <2>1, <2>2, GivesUp DEF ArgsChunk, CtxChecked
  <2>3. CASE ~CtxChecked
    BY <1>9, <1>q, <2>1, <2>3, GoesReading DEF ArgsChunk
  <2> QED
    BY <2>2, <2>3
<1>4. CASE Ping
  <2>1. goroutine = "reading" /\ queue = <<>> /\ ~Over /\ ResponseTypes'
    BY <1>4, <1>r DEF Ping, Reads, StreamInv, LastFirst
  <2>2. CASE CtxChecked
    BY <1>4, <2>1, <2>2, GivesUp DEF Ping, CtxChecked
  <2>3. CASE ~CtxChecked
    BY <1>4, <1>q, <2>1, <2>3, GoesReading DEF Ping
  <2> QED
    BY <2>2, <2>3
<1>5. CASE ServerFinishes
  <2>1. goroutine = "reading" /\ queue = <<>> /\ ~Over
    BY <1>5 DEF ServerFinishes, Reads, StreamInv, LastFirst
  <2>2. ResponseTypes'
    BY <1>0, <1>5 DEF ServerFinishes, ResponseTypes
  <2>3. CASE CtxChecked
    BY <1>5, <2>1, <2>2, <2>3, GivesUp DEF ServerFinishes, CtxChecked
  <2>4. CASE ~CtxChecked
    <3>1. Finished(served) \o AtEnd(served) \in Seq(Open)
      BY <1>0, <1>q
    <3>2. GoesOn("ending", (Finished(served) \o AtEnd(served)) \o <<Done>>)
      BY <1>5, <2>4 DEF ServerFinishes
    <3> QED
      BY <1>t, <2>1, <2>2, <3>1, <3>2, GoesEnding
  <2> QED
    BY <2>3, <2>4
<1>6. CASE ServerDrops
  <2>1. goroutine = "reading" /\ queue = <<>> /\ ResponseTypes'
    BY <1>6, <1>r DEF ServerDrops, Reads
  <2>2. PICK calls \in Assembled : GoesOn("ending", AtEnd(calls) \o <<Done>>)
    BY <1>6 DEF ServerDrops
  <2> QED
    BY <1>q, <1>t, <2>1, <2>2, GoesEnding
<1>7. CASE ReadFails
  <2>1. goroutine = "reading" /\ queue = <<>> /\ ResponseTypes'
    BY <1>7, <1>r DEF ReadFails, Reads
  <2>2. PICK e \in Terminals : GoesOn("ending", <<e>>)
    BY <1>7, <1>t DEF ReadFails
  <2>3. <<e>> = <<>> \o <<e>>
    OBVIOUS
  <2>4. GoesOn("ending", <<>> \o <<e>>)
    BY <2>2, <2>3
  <2> QED
    BY <1>q, <2>1, <2>4, GoesEnding
<1>8. ASSUME NEW call \in Calls, NEW id \in {<<turn, Len(served) + 1>>, NoId}, CallChunk(call, id)
      PROVE  StreamInv'
  <2> DEFINE ided  == WithId(call, id)
             calls == Append(served, ided)
  <2>1. turn \in Nat
    BY LimitsAssumption DEF StreamInv, PhaseInv
  <2>2. ided \in Served
    <3>1. Len(served) + 1 \in Nat
      BY <1>0
    <3>2. \A t, n \in Nat : WithId(call, <<t, n>>) \in Served
      BY DEF Served
    <3> QED
      BY <2>1, <3>1, <3>2 DEF NoId
  <2>3. /\ served' = calls /\ current' \in {0, Len(calls)} /\ Chunk(Finished(calls))
        /\ partial' \in BOOLEAN
    BY <1>8 DEF CallChunk
  <2> HIDE DEF ided
  <2>4. calls \in Seq(Served) /\ current' \in 0..Len(calls)
    BY <1>0, <2>2, <2>3
  <2> HIDE DEF calls
  <2> QED
    BY <1>q, <2>3, <2>4, ChunkStep
<1> QED
  BY <1>1, <1>2, <1>3, <1>4, <1>5, <1>6, <1>7, <1>8, <1>9 DEF Server

\* A new request: a goroutine that has sent nothing yet.
LEMMA StreamBegins ==
  ASSUME StreamInv, NEW c, Stream(c), phase' = "turn", turn < MaxTurns, UNCHANGED app,
         ctx' \in {"live", "expired", "cancelled"}
  PROVE  StreamInv'
<1>1. /\ turn' = turn + 1 /\ goroutine' = "opening" /\ chunks' = 0 /\ served' = <<>> /\ current' = 0
      /\ queue' = <<>> /\ sent' = <<>> /\ taken' = 0
  BY DEF Stream
<1>p. partial' \in BOOLEAN
  BY DEF Stream
<1>2. ~Over'
  BY <1>1 DEF Over, ToSet
<1>3. StreamTypes'
  BY <1>1, <1>p, LimitsAssumption DEF StreamTypes
<1>4. LastFirst'
  BY <1>1, <1>2 DEF LastFirst
<1>5. PhaseInv'
  BY <1>1, LimitsAssumption DEF StreamInv, PhaseInv
<1> QED
  BY <1>3, <1>4, <1>5 DEF StreamInv

\* The session's steps that leave the goroutine alone.
LEMMA SessionMoves ==
  ASSUME StreamInv, UNCHANGED <<goroutine, response, queue, sent>>,
         taken' \in {taken, taken + 1}, taken' \in 0..Len(sent), UNCHANGED turn,
         ctx' \in {"live", "expired", "cancelled"}, ctx' # "live" \/ ctx' = ctx,
         app' \in {"starting", "up", "exited"}, phase' \in {"idle", "building", "turn", "ended"},
         phase' = phase \/ phase' = "ended" \/ phase = "idle"
  PROVE  StreamInv'
<1>1. StreamTypes'
  BY LimitsAssumption DEF StreamInv, StreamTypes, response
<1>2. LastFirst'
  BY DEF StreamInv, LastFirst, Over
<1>3. PhaseInv'
  BY DEF StreamInv, PhaseInv
<1> QED
  BY <1>1, <1>2, <1>3 DEF StreamInv

\* An event is sent: the terminal one is the last.
LEMMA SendStep ==
  ASSUME StreamInv, Send
  PROVE  /\ StreamInv' /\ ~Over /\ Len(sent') = Len(sent) + 1
         /\ goroutine \in {"reading", "ending"}
<1>0. /\ queue \in Seq(Events) /\ queue # <<>> /\ sent \in Seq(Events)
      /\ taken \in 0..Len(sent) /\ Len(sent) \in Nat
      /\ Len(sent) - taken < OutCap
      /\ sent' = Append(sent, Head(queue)) /\ queue' = Tail(queue)
      /\ UNCHANGED <<app, phase, turn, goroutine, response, taken, ctx>>
  BY DEF StreamInv, StreamTypes, Send, HasRoom, diagnosis
<1>1. /\ Head(queue) \in Events /\ Tail(queue) \in Seq(Events) /\ Len(queue) \in Nat /\ Len(queue) > 0
      /\ Len(Tail(queue)) = Len(queue) - 1 /\ Head(queue) = queue[1]
      /\ \A i \in 1..Len(Tail(queue)) : Tail(queue)[i] = queue[i + 1]
  BY <1>0
<1>2. sent' \in Seq(Events) /\ Len(sent') = Len(sent) + 1 /\ ToSet(sent') = ToSet(sent) \union {queue[1]}
  BY <1>0, <1>1, SentAppended
<1>3. ~Over /\ goroutine \in {"reading", "ending"}
  BY <1>0 DEF StreamInv, StreamTypes, LastFirst
<1>4. StreamTypes'
  BY <1>0, <1>1, <1>2, LimitsAssumption DEF StreamInv, StreamTypes, response
<1>5. \A i \in 1..Len(queue') : queue'[i] \in Terminals => i = Len(queue') /\ goroutine' = "ending"
  <2> TAKE i \in 1..Len(queue')
  <2>1. i + 1 \in 1..Len(queue) /\ queue'[i] = queue[i + 1] /\ Len(queue') = Len(queue) - 1
    BY <1>0, <1>1
  <2>2. queue[i + 1] \in Terminals => i + 1 = Len(queue) /\ goroutine = "ending"
    BY <2>1 DEF StreamInv, LastFirst
  <2>3. Len(queue) \in Nat /\ i \in Int /\ goroutine' = goroutine
    BY <1>0, <1>1
  <2>4. i + 1 = Len(queue) => i = Len(queue')
    BY <2>1, <2>3
  <2> QED
    BY <2>1, <2>2, <2>3, <2>4
<1>6. Over' => queue' = <<>> /\ goroutine' \in {"ending", "closed"}
  <2> SUFFICES ASSUME Over' PROVE queue' = <<>> /\ goroutine' \in {"ending", "closed"}
    OBVIOUS
  <2>1. queue[1] \in Terminals
    BY <1>2, <1>3 DEF Over
  <2>2. 1 = Len(queue) /\ goroutine = "ending"
    <3>1. 1 \in 1..Len(queue)
      BY <1>1
    <3> QED
      BY <2>1, <3>1 DEF StreamInv, LastFirst
  <2>3. Len(queue') = 0
    BY <1>0, <1>1, <2>2
  <2> QED
    BY <1>0, <1>1, <2>2, <2>3
<1>7. goroutine' = "ending" /\ ctx' = "live" /\ ~Over' => queue' # <<>> /\ queue'[Len(queue')] \in Terminals
  <2> SUFFICES ASSUME goroutine' = "ending", ctx' = "live", ~Over'
               PROVE  queue' # <<>> /\ queue'[Len(queue')] \in Terminals
    OBVIOUS
  <2>1. queue[Len(queue)] \in Terminals
    BY <1>0, <1>3 DEF StreamInv, LastFirst
  <2>2. queue[1] \notin Terminals
    BY <1>2 DEF Over
  <2>3. Len(queue) > 1
    BY <1>1, <2>1, <2>2
  <2>4. Len(queue') = Len(queue) - 1 /\ Len(queue') \in 1..Len(queue') /\ queue'[Len(queue')] = queue[Len(queue)]
    BY <1>0, <1>1, <2>3
  <2> QED
    BY <2>1, <2>4, <1>0, <1>1
<1>8. LastFirst'
  BY <1>0, <1>3, <1>5, <1>6, <1>7 DEF LastFirst
<1>9. PhaseInv'
  BY <1>0 DEF StreamInv, PhaseInv
<1> QED
  BY <1>2, <1>3, <1>4, <1>8, <1>9 DEF StreamInv

\* The channel is closed once the last event is sent, or ctx is done.
LEMMA CloseStep ==
  ASSUME StreamInv, CloseOut
  PROVE  StreamInv' /\ (Over \/ ctx # "live")
<1>1. /\ goroutine = "ending" /\ queue = <<>> /\ goroutine' = "closed" /\ queue' = <<>>
      /\ UNCHANGED <<app, phase, turn, response, sent, taken, ctx>>
  BY DEF CloseOut, GoesOn, diagnosis, channel
<1>2. Over \/ ctx # "live"
  BY <1>1 DEF StreamInv, LastFirst
<1>3. StreamTypes'
  BY <1>1 DEF StreamInv, StreamTypes, response
<1>4. LastFirst'
  BY <1>1 DEF LastFirst, StreamInv, Over
<1>5. PhaseInv'
  BY <1>1 DEF StreamInv, PhaseInv
<1> QED
  BY <1>2, <1>3, <1>4, <1>5 DEF StreamInv

\* A send that is given up: ctx is done, and nothing terminal was sent.
LEMMA SendGivesUpStep ==
  ASSUME StreamInv, SendGivesUp
  PROVE  StreamInv' /\ ~Over /\ goroutine \in {"reading", "ending"}
<1>1. queue # <<>> /\ ctx # "live" /\ GoesOn("ending", <<>>) /\ UNCHANGED response
  BY DEF SendGivesUp
<1>2. ~Over /\ goroutine \in {"reading", "ending"}
  BY <1>1 DEF StreamInv, StreamTypes, LastFirst
<1>3. ResponseTypes'
  BY <1>1 DEF StreamInv, StreamTypes, ResponseTypes, response
<1> QED
  BY <1>1, <1>2, <1>3, GivesUp

\* The steps that only move the program or the session on.
Moves ==
  \/ StartUp \/ Ask \/ Receive \/ EndSession
  \/ \E name : SwitchProfile(name)
  \/ \E how \in {"expired", "cancelled"} : Cancel(how)

\* They leave the goroutine and what it sent alone.
LEMMA MovesStep ==
  ASSUME StreamInv, Moves
  PROVE  /\ StreamInv' /\ UNCHANGED <<goroutine, sent>>
         /\ ctx' = ctx \/ ctx' # "live"
<1>0. /\ app \in {"starting", "up", "exited"} /\ phase \in {"idle", "building", "turn", "ended"}
      /\ ctx \in {"live", "expired", "cancelled"} /\ taken \in 0..Len(sent) /\ Len(sent) \in Nat
  BY DEF StreamInv, StreamTypes, PhaseInv
<1>1. CASE StartUp
  BY <1>0, <1>1, SessionMoves DEF StartUp, Unselected, diagnosis, channel
<1>2. CASE Ask
  BY <1>0, <1>2, SessionMoves DEF Ask, channel
<1>3. CASE Receive
  <2>1. taken' \in 0..Len(sent)
    BY <1>0, <1>3 DEF Receive
  <2> QED
    BY <1>0, <1>3, <2>1, SessionMoves DEF Receive, diagnosis
<1>4. CASE EndSession
  BY <1>0, <1>4, SessionMoves DEF EndSession, channel
<1>5. ASSUME NEW name, SwitchProfile(name) PROVE StreamInv' /\ UNCHANGED <<goroutine, sent, ctx>>
  BY <1>0, <1>5, SessionMoves DEF SwitchProfile, Unselected, diagnosis, channel
<1>6. ASSUME NEW how \in {"expired", "cancelled"}, Cancel(how)
      PROVE  StreamInv' /\ UNCHANGED <<goroutine, sent>> /\ ctx' # "live"
  BY <1>0, <1>6, SessionMoves DEF Cancel, diagnosis, channel
<1>7. ctx' = ctx \/ ctx' # "live"
  BY <1>5, <1>6 DEF Moves, StartUp, Unselected, Ask, Receive, EndSession
<1>8. UNCHANGED <<goroutine, sent>>
  BY <1>5, <1>6 DEF Moves, StartUp, Unselected, Ask, Receive, EndSession, channel
<1> QED
  BY <1>1, <1>2, <1>3, <1>4, <1>5, <1>6, <1>7, <1>8 DEF Moves

\* A session that has a request to make: its goroutine, if any, is closed.
LEMMA RequestStep ==
  ASSUME StreamInv, NextTurn \/ \E o \in Origins, c \in Clusters : Begin(o, c)
  PROVE  /\ StreamInv'
         /\ \/ goroutine \in {"none", "closed"} /\ goroutine' = "opening" /\ sent' = <<>>
            \/ UNCHANGED <<goroutine, sent, ctx>>
<1>0. /\ app \in {"starting", "up", "exited"} /\ phase \in {"idle", "building", "turn", "ended"}
      /\ ctx \in {"live", "expired", "cancelled"} /\ taken \in 0..Len(sent) /\ Len(sent) \in Nat
      /\ turn \in 0..MaxTurns /\ (phase = "building" => turn = 0 /\ goroutine = "none")
  BY DEF StreamInv, StreamTypes, PhaseInv
<1>1. CASE NextTurn
  <2>1. /\ \E c : Stream(c)
        /\ phase' = "turn" /\ turn < MaxTurns /\ UNCHANGED app /\ goroutine = "closed"
        /\ ctx' \in {"live", "expired", "cancelled"}
    BY <1>1 DEF NextTurn, Drained
  <2>2. goroutine' = "opening" /\ sent' = <<>>
    BY <2>1 DEF Stream
  <2> QED
    BY <2>1, <2>2, StreamBegins
<1>2. ASSUME NEW o, NEW c, Begin(o, c)
      PROVE  /\ StreamInv'
             /\ \/ goroutine \in {"none", "closed"} /\ goroutine' = "opening" /\ sent' = <<>>
                \/ UNCHANGED <<goroutine, sent, ctx>>
  <2>1. phase = "building" /\ UNCHANGED <<app, ctx>> /\ turn < MaxTurns
    BY <1>0, <1>2, LimitsAssumption DEF Begin
  <2>2. ASSUME NEW conversation, Stream(conversation), phase' = "turn"
        PROVE  StreamInv' /\ goroutine' = "opening" /\ sent' = <<>>
    BY <1>0, <2>1, <2>2, StreamBegins DEF Stream
  <2>3. CASE phase' = "ended" /\ UNCHANGED <<messages, turn, request, goroutine, response, queue, channel>>
    BY <1>0, <2>1, <2>3, SessionMoves DEF channel
  <2> QED
    BY <1>0, <1>2, <2>1, <2>2, <2>3 DEF Begin, channel
<1> QED
  BY <1>1, <1>2

\* Next, by what it does to the goroutine.
LEMMA NextParts ==
  [Next]_vars => \/ Moves \/ Server \/ Goroutine \/ UNCHANGED vars
                 \/ NextTurn \/ \E o \in Origins, c \in Clusters : Begin(o, c)
BY DEF Next, Moves

\* Every step keeps the goroutine in order.
LEMMA StreamStep == StreamInv /\ [Next]_vars => StreamInv'
<1> SUFFICES ASSUME StreamInv, [Next]_vars PROVE StreamInv'
  OBVIOUS
<1>1. CASE UNCHANGED vars
  BY <1>1, SessionMoves DEF vars, diagnosis, channel, StreamInv, StreamTypes, PhaseInv
<1>2. CASE Goroutine
  BY <1>2, SendStep, SendGivesUpStep, CloseStep DEF Goroutine
<1> QED
  BY <1>1, <1>2, NextParts, MovesStep, ServerStep, RequestStep

\* Every step is one of the promised stream, or none.
LEMMA PromisedStep == StreamInv /\ StreamInv' /\ [Next]_vars => [Promised!ANext]_(Promised!avars)
<1> SUFFICES ASSUME StreamInv, StreamInv', [Next]_vars PROVE [Promised!ANext]_(Promised!avars)
  OBVIOUS
<1> DEFINE state == IF goroutine \in {"none", "closed"} THEN goroutine
                    ELSE IF {Done, Error} \intersect ToSet(sent) # {} THEN "over" ELSE "open"
           done  == ctx # "live"
<1>0. /\ goroutine \in {"none", "opening", "reading", "ending", "closed"} /\ Len(sent) \in Nat
      /\ goroutine' \in {"none", "opening", "reading", "ending", "closed"} /\ Len(sent') \in Nat
      /\ (Over => goroutine \in {"ending", "closed"}) /\ (Over' => goroutine' \in {"ending", "closed"})
      /\ Over = ({Done, Error} \intersect ToSet(sent) # {})
      /\ Over' = ({Done, Error} \intersect ToSet(sent') # {})
  <2>1. /\ goroutine \in {"none", "opening", "reading", "ending", "closed"}
        /\ goroutine' \in {"none", "opening", "reading", "ending", "closed"}
    BY DEF StreamInv, StreamTypes
  <2>2. Len(sent) \in Nat
    <3>1. sent \in Seq(Events)
      BY DEF StreamInv, StreamTypes
    <3> QED
      BY ONLY <3>1
  <2>3. Len(sent') \in Nat
    <3>1. sent' \in Seq(Events)
      BY DEF StreamInv, StreamTypes
    <3> QED
      BY ONLY <3>1
  <2>4. (Over => goroutine \in {"ending", "closed"}) /\ (Over' => goroutine' \in {"ending", "closed"})
    BY DEF StreamInv, LastFirst
  <2>5. /\ Over = ({Done, Error} \intersect ToSet(sent) # {})
        /\ Over' = ({Done, Error} \intersect ToSet(sent') # {})
    BY Zenon DEF Over, Terminals
  <2> QED
    BY ONLY <2>1, <2>2, <2>3, <2>4, <2>5
<1>1. ASSUME state' = state, sent' = sent, done' = done PROVE UNCHANGED Promised!avars
  BY <1>1 DEF Promised!avars
<1>2. ASSUME UNCHANGED <<goroutine, sent>>, ctx' = ctx \/ ctx' # "live"
      PROVE  [Promised!ANext]_(Promised!avars)
  <2>1. state' = state
    BY <1>2
  <2>2. CASE done' = done
    BY <1>1, <1>2, <2>1, <2>2
  <2>3. CASE done' # done
    <3>1. ~done /\ done'
      BY <1>2, <2>3
    <3> QED
      BY <1>2, <2>1, <3>1 DEF Promised!ANext, Promised!CtxDone
  <2> QED
    BY <2>2, <2>3
<1>3. CASE Moves \/ UNCHANGED vars
  BY <1>2, <1>3, MovesStep DEF vars, channel
<1>4. CASE NextTurn \/ \E o \in Origins, c \in Clusters : Begin(o, c)
  <2>1. CASE goroutine \in {"none", "closed"} /\ goroutine' = "opening" /\ sent' = <<>>
    <3>1. state \in {"none", "closed"} /\ state' = "open" /\ Len(sent') = 0
      BY <1>0, <2>1
    <3>2. done' \in BOOLEAN
      OBVIOUS
    <3> QED
      BY <3>1, <3>2 DEF Promised!ANext, Promised!Stream
  <2>2. CASE UNCHANGED <<goroutine, sent, ctx>>
    BY <1>2, <2>2
  <2> QED
    BY <1>4, <2>1, <2>2, RequestStep
<1>5. CASE Server
  <2>1. /\ goroutine \in {"opening", "reading"} /\ goroutine' \in {"reading", "ending"}
        /\ UNCHANGED <<sent, ctx>>
    <3>1. ASSUME NEW call, NEW id, CallChunk(call, id)
          PROVE  /\ goroutine \in {"opening", "reading"} /\ goroutine' \in {"reading", "ending"}
                 /\ UNCHANGED <<sent, ctx>>
      BY <3>1 DEF CallChunk, Chunk, Reads, GoesOn, channel
    <3>2. CASE Accept \/ Refuse \/ ArgsChunk \/ Ping \/ ServerFinishes \/ ServerDrops \/ ReadFails
      BY <3>2 DEF Accept, Refuse, ArgsChunk, Ping, ServerFinishes, ServerDrops, ReadFails, Reads, GoesOn, channel
    <3>3. CASE TextChunk
      BY <3>3 DEF TextChunk, Chunk, Reads, GoesOn, channel
    <3> QED
      BY <1>5, <3>1, <3>2, <3>3 DEF Server
  <2>2. ~Over /\ ~Over'
    BY <1>0, <2>1 DEF Over
  <2>3. state = "open" /\ state' = "open"
    BY <1>0, <2>1, <2>2
  <2> QED
    BY <1>1, <2>1, <2>3
<1>6. CASE Send
  <2>1. ~Over /\ Len(sent') = Len(sent) + 1 /\ goroutine \in {"reading", "ending"}
        /\ UNCHANGED <<goroutine, ctx>>
    BY <1>6, SendStep DEF Send
  <2>2. state = "open" /\ state' \in {"open", "over"} /\ done' = done
    BY <1>0, <2>1
  <2> QED
    BY <2>1, <2>2 DEF Promised!ANext, Promised!Deliver, Promised!Finish
<1>7. CASE SendGivesUp
  <2>1. ~Over /\ goroutine \in {"reading", "ending"} /\ goroutine' = "ending" /\ UNCHANGED <<sent, ctx>>
    BY <1>7, SendGivesUpStep DEF SendGivesUp, GoesOn, channel
  <2>2. ~Over'
    BY <2>1 DEF Over
  <2>3. state = "open" /\ state' = "open"
    BY <1>0, <2>1, <2>2
  <2> QED
    BY <1>1, <2>1, <2>3
<1>8. CASE CloseOut
  <2>1. /\ goroutine = "ending" /\ goroutine' = "closed" /\ UNCHANGED <<sent, ctx>>
        /\ (Over \/ ctx # "live")
    BY <1>8, CloseStep DEF CloseOut, GoesOn, channel
  <2>2. state = "over" \/ (state = "open" /\ done)
    BY <1>0, <2>1
  <2>3. state' = "closed"
    BY <2>1
  <2> QED
    BY <2>1, <2>2, <2>3 DEF Promised!ANext, Promised!Close
<1> QED
  BY <1>3, <1>4, <1>5, <1>6, <1>7, <1>8, NextParts DEF Goroutine

\* The goroutine is in order from the start.
LEMMA InitStreamInv == Init => StreamInv
<1> SUFFICES ASSUME Init PROVE StreamInv
  OBVIOUS
<1>1. /\ queue = <<>> /\ sent = <<>> /\ served = <<>> /\ goroutine = "none" /\ ctx = "live"
      /\ chunks = 0 /\ current = 0 /\ taken = 0 /\ turn = 0 /\ app = "starting" /\ phase = "idle"
  BY DEF Init
<1>p. partial \in BOOLEAN
  BY DEF Init
<1>2. StreamTypes
  BY <1>1, <1>p, LimitsAssumption DEF StreamTypes
<1>3. LastFirst
  BY <1>1 DEF LastFirst, Over, ToSet
<1>4. PhaseInv
  BY <1>1, LimitsAssumption DEF PhaseInv
<1> QED
  BY <1>2, <1>3, <1>4 DEF StreamInv

\* The inductive invariant of the goroutine: what it has still to send, what
\* it sent, and that a terminal event comes last (runStream, sendEvent).
THEOREM DiagnoseStreamInv == Spec => []StreamInv
BY InitStreamInv, StreamStep, PTL DEF Spec

\* The provider's goroutine delivers what ai.Provider promises (provider.go
\* 16-24): events, one done or error, then close; an early close only once
\* ctx is done.  This holds for every server, every mix of cancellations and
\* every capacity of the channel.
THEOREM DiagnoseImplementsStream == Spec => ImplementsAnswerStream
<1>1. Init => Promised!AInit
  BY DEF Init, Promised!AInit
<1> QED
  BY <1>1, DiagnoseStreamInv, PromisedStep, PTL DEF Spec, ImplementsAnswerStream, Promised!ASpec
-----------------------------------------------------------------------------
(* Types.                                                                  *)

\* What a profile selects has its type.
SelectionTypes ==
  /\ profile \in [name : Nat, provider : Vendors \union {"nil"}, model : Nat, budget : Nat]
  /\ session \in Selections

\* A profile that resolves selects a provider, a model and a budget.
LEMMA SelectedTypes ==
  ASSUME env \in Envs, NEW n \in Nat, NEW name,
         Load(env) # NoConfig, Resolve(Load(env), name) # NoProfile
  PROVE  Selected(n, Resolve(Load(env), name)) \in
           [name : Nat, provider : Vendors \union {"nil"}, model : Nat, budget : Nat]
<1> DEFINE p == Resolve(Load(env), name)
<1>1. p.model \in Nat /\ p.budget \in Nat
  BY ResolveFinds, LoadHolds
<1>2. NewProvider(p.provider, env.keys) \in Vendors \union {"nil"}
  BY ProviderMade
<1> HIDE DEF p
<1> QED
  BY <1>1, <1>2 DEF Selected, p

\* Every step keeps them.
LEMMA SelectionStep == ProfileInv /\ SelectionTypes /\ [Next]_vars => SelectionTypes'
<1> SUFFICES ASSUME ProfileInv, SelectionTypes, [Next]_vars PROVE SelectionTypes'
  OBVIOUS
<1>1. ASSUME UNCHANGED <<profile, session>> PROVE SelectionTypes'
  BY <1>1 DEF SelectionTypes, Selections
<1>2. CASE StartUp
  <2>1. UNCHANGED session
    BY <1>2 DEF StartUp, Unselected, diagnosis
  <2>2. CASE profile' # profile
    <3>1. /\ Load(env) # NoConfig /\ Resolve(Load(env), env.flag) # NoProfile
          /\ profile' = Selected(Named(Load(env), env.flag), Resolve(Load(env), env.flag))
      BY <1>2, <2>2 DEF StartUp
    <3>2. Named(Load(env), env.flag) \in Nat
      BY <3>1, ResolveFinds, LoadHolds DEF ProfileInv
    <3> QED
      BY <2>1, <3>1, <3>2, SelectedTypes DEF SelectionTypes, ProfileInv, Selections
  <2> QED
    BY <1>1, <2>1, <2>2
<1>3. ASSUME NEW name \in DOMAIN Load(env).profiles, SwitchProfile(name) PROVE SelectionTypes'
  <2>1. /\ Load(env) # NoConfig /\ Resolve(Load(env), name) # NoProfile /\ UNCHANGED session
        /\ profile' = Selected(name, Resolve(Load(env), name))
    BY <1>3 DEF SwitchProfile, Unselected, diagnosis, ProfileInv
  <2>2. name \in Nat
    BY <2>1, LoadHolds DEF ProfileInv
  <2> QED
    BY <2>1, <2>2, SelectedTypes DEF SelectionTypes, ProfileInv, Selections
<1>4. CASE Ask
  BY <1>4 DEF Ask, SelectionTypes, Selections
<1>5. ASSUME NEW o, NEW c, Begin(o, c) PROVE SelectionTypes'
  BY <1>1, <1>5 DEF Begin
<1>6. CASE Receive \/ NextTurn \/ EndSession \/ Goroutine \/ UNCHANGED vars
  BY <1>1, <1>6 DEF Receive, NextTurn, EndSession, Goroutine, Send, SendGivesUp, CloseOut, GoesOn,
                    vars, diagnosis
<1>7. ASSUME NEW how, Cancel(how) PROVE SelectionTypes'
  BY <1>1, <1>7 DEF Cancel, diagnosis
<1>8. CASE Server
  <2>1. CASE Accept \/ Refuse \/ ArgsChunk \/ Ping \/ ServerFinishes \/ ServerDrops \/ ReadFails
    BY <1>1, <2>1 DEF Accept, Refuse, ArgsChunk, Ping, ServerFinishes, ServerDrops, ReadFails, GoesOn, diagnosis
  <2>2. CASE TextChunk
    BY <1>1, <2>2 DEF TextChunk, Chunk, GoesOn, diagnosis
  <2>3. ASSUME NEW call, NEW id, CallChunk(call, id) PROVE UNCHANGED <<profile, session>>
    BY <2>3 DEF CallChunk, Chunk, GoesOn, diagnosis
  <2> QED
    BY <1>1, <1>8, <2>1, <2>2, <2>3 DEF Server
<1> QED
  BY <1>2, <1>3, <1>4, <1>5, <1>6, <1>7, <1>8 DEF Next

\* Every variable keeps its type and the provider's channel its capacity,
\* whatever the server and the session do (make(chan Event, 8), sendEvent).
THEOREM DiagnoseTypeOK == Spec => []TypeOK
<1>1. Init => SelectionTypes
  BY DEF Init, SelectionTypes, Selections, NoSession, NoName, NoModel
<1>2. ProfileInv /\ SelectionTypes /\ MessagesInv /\ StreamInv => TypeOK
  <2> SUFFICES ASSUME ProfileInv, SelectionTypes, MessagesInv, StreamInv PROVE TypeOK
    OBVIOUS
  <2>1. \A m \in ToSet(messages) : \A r \in ToSet(m.results) : r.text \in Texts
    BY DEF MessagesInv, ResultOK, ToSet
  <2>2. /\ profile.name \in Nat /\ profile.provider \in Vendors \union {"nil"}
        /\ session \in Selections
    BY DEF SelectionTypes
  <2> QED
    BY <2>1, <2>2 DEF TypeOK, ProfileInv, StreamInv, StreamTypes, PhaseInv
<1>3. Spec => []ProfileInv
  BY InitProfileInv, ProfileStep, PTL DEF Spec
<1>4. Spec => []MessagesInv
  BY InitMessagesInv, MessagesStep, PTL DEF Spec
<1> QED
  BY <1>1, <1>2, <1>3, <1>4, SelectionStep, DiagnoseStreamInv, PTL DEF Spec
=============================================================================
