----------------------------- MODULE AppProofs -----------------------------
(***************************************************************************)
(* The safety properties of App, for every value of its constants.         *)
(*                                                                         *)
(* Each handler touches few groups of variables; the inductive invariant   *)
(* has a part per group, and a lemma per part says that every step keeps   *)
(* it.  What ties them together is the content of the commands in flight   *)
(* and of the messages on their way: a channel exists and a snapshot is of *)
(* its stream's kind, however late it arrives.                             *)
(***************************************************************************)
EXTENDS App, TLAPS

-----------------------------------------------------------------------------
(* The inductive invariant.                                                *)

ScreenTypes ==
  /\ active \in Views /\ helpPrev \in Views /\ origin \in {"resource", "logs"}
  /\ cmdbar \in BOOLEAN

Streams == [kind : Kinds, ns : Namespaces \union {AllNamespaces}, live : BOOLEAN,
            version : 0..MaxVersion, unread : BOOLEAN]
ResourceTypes ==
  /\ namespace \in Namespaces
  /\ resourceKind \in Kinds
  /\ res \in Seq(Streams)
  /\ resSvc \in [Kinds -> 0..Len(res)]
  /\ resourceCh \in 0..Len(res)
  /\ table \in [stream : 0..Len(res), version : 0..MaxVersion]
ResourceInv == ResourceTypes /\ ServiceOwnsLive /\ ShownKind

LogStreams == [pod : Names, cancelled : BOOLEAN, done : BOOLEAN, produced : 0..MaxBatches,
               unread : 0..MaxBatches]
LogTypes ==
  /\ logs \in Seq(LogStreams)
  /\ \A s \in DOMAIN logs : logs[s].unread <= logs[s].produced
  /\ logSvc \in 0..Len(logs)
  /\ logsCh \in 0..Len(logs)
  /\ logsPod \in Names \union {None}
  /\ logsView \in [pod : Names \union {None}, from : SUBSET (1..Len(logs))]
LogInv == LogTypes /\ ServiceOwnsLogs

Events   == {"text", "done", "error"}
Sessions == [modal : 1..MaxModals, cancelled : BOOLEAN, closed : BOOLEAN,
             produced : 0..MaxEvents, queue : Seq(Events)]
SessionTypes ==
  /\ sess \in Seq(Sessions)
  /\ modals \in 0..MaxModals
  /\ diagnoseSession \in 0..Len(sess)
  /\ diagnoseCh \in 0..Len(sess)
ModalTypes ==
  /\ diagnoseView \in [modal : 0..MaxModals, state : {"streaming", "done", "error"},
                       text : Seq(1..Len(sess)), ended : SUBSET (1..MaxModals)]
  /\ recorder \in [modal : 0..MaxModals, payload : BOOLEAN, text : Seq(1..Len(sess))]
  /\ saved \subseteq [modal : 1..MaxModals, text : Seq(1..Len(sess))]

\* A payload is that of a diagnosis: the first recorder never gets one.
PayloadOfModal == recorder.payload => recorder.modal \in 1..MaxModals

SessionInv == SessionTypes /\ PumpedSessionIsStashed
ModalInv   == ModalTypes /\ PayloadOfModal /\ TranscriptMatchesView

DescribeTypes ==
  describeView \in [name : Names \union {None}, text : Names \union {None}, failed : BOOLEAN,
                    mode : {"describe", "yaml"}]

\* What a command in flight carries.
InFlight(c) ==
  /\ c.run = "resource" => c.ch \in 1..Len(res) /\ c.kind = res[c.ch].kind
  /\ c.run = "logs"     => c.ch \in 1..Len(logs)
  /\ c.run = "diagnose" => c.ch \in 1..Len(sess)
  /\ c.run = "start"    => c.modal \in 1..modals
  /\ c.run = "describe" => c.name \in Names

\* What a message on its way carries.
OnItsWay(m) ==
  /\ m.msg \in {"homeReady", "snapshot"} => m.ch \in 1..Len(res) /\ m.kind = res[m.ch].kind
  /\ m.msg = "snapshot"  => m.version \in 0..MaxVersion
  /\ m.msg = "ns"        => m.ns \in Namespaces
  /\ m.msg = "logsBatch" => m.ch \in 1..Len(logs)
  /\ m.msg \in {"started", "text"} => m.ch \in 1..Len(sess)
  /\ m.msg \in {"done", "error"}   => m.modal \in 1..MaxModals
  /\ m.msg = "described" => m.text \in Names \union {None}

CmdInv == \A c \in BagToSet(cmds) : InFlight(c)
MsgInv == \A m \in BagToSet(msgs) : OnItsWay(m)

IInv ==
  /\ ScreenTypes /\ ResourceInv /\ LogInv /\ SessionInv /\ ModalInv /\ DescribeTypes
  /\ CmdInv /\ MsgInv

-----------------------------------------------------------------------------
(* Bags of commands and messages.                                          *)

\* What the operators on bags do to the elements.
LEMMA BagElements ==
  /\ BagToSet(EmptyBag) = {}
  /\ \A x : BagToSet(One(x)) = {x}
  /\ \A b, c : BagToSet(b (+) c) = BagToSet(b) \union BagToSet(c)
  /\ \A b, c : BagToSet(b (-) c) \subseteq BagToSet(b)
<1>1. BagToSet(EmptyBag) = {}
  BY DEF BagToSet, EmptyBag, SetToBag
<1>2. ASSUME NEW x PROVE BagToSet(One(x)) = {x}
  BY DEF BagToSet, One, SetToBag
<1>3. ASSUME NEW b, NEW c PROVE BagToSet(b (+) c) = BagToSet(b) \union BagToSet(c)
  BY DEF BagToSet, (+)
<1>4. ASSUME NEW b, NEW c PROVE BagToSet(b (-) c) \subseteq BagToSet(b)
  BY DEF BagToSet, (-)
<1> QED
  BY <1>1, <1>2, <1>3, <1>4

\* A message that is handled had been on its way.
LEMMA HandleElements ==
  ASSUME NEW m, NEW started, Handle(m, started)
  PROVE  /\ m \in BagToSet(msgs)
         /\ BagToSet(msgs') \subseteq BagToSet(msgs)
         /\ BagToSet(cmds') = BagToSet(cmds) \union BagToSet(started)
<1>1. BagToSet(msgs') \subseteq BagToSet(msgs)
  BY BagElements DEF Handle
<1>2. BagToSet(cmds') = BagToSet(cmds) \union BagToSet(started)
  BY BagElements DEF Handle
<1> QED
  BY <1>1, <1>2 DEF Handle, BagIn

\* A command that returns had been in flight.
LEMMA ReturnElements ==
  ASSUME NEW c, NEW m, Return(c, m)
  PROVE  /\ c \in BagToSet(cmds)
         /\ BagToSet(cmds') \subseteq BagToSet(cmds)
         /\ BagToSet(msgs') = BagToSet(msgs) \union {m}
<1>1. BagToSet(cmds') \subseteq BagToSet(cmds)
  BY BagElements DEF Return
<1>2. BagToSet(msgs') = BagToSet(msgs) \union {m}
  BY BagElements DEF Return
<1> QED
  BY <1>1, <1>2 DEF Return, BagIn

\* A key adds commands only.
LEMMA PressElements ==
  ASSUME NEW input, NEW started, Press(input, started)
  PROVE  /\ msgs' = msgs
         /\ BagToSet(cmds') = BagToSet(cmds) \union BagToSet(started)
BY BagElements DEF Press

-----------------------------------------------------------------------------
(* The resource streams.                                                   *)

\* Streams are only ever added, and keep their kind.
StreamsKept == /\ Len(res) <= Len(res')
               /\ \A i \in 1..Len(res) : res'[i].kind = res[i].kind

\* A lister that is torn down is the same stream, no longer live.
LEMMA TornDownStreams ==
  ASSUME ResourceTypes, NEW k \in Kinds
  PROVE  /\ TornDown(k) \in Seq(Streams) /\ Len(TornDown(k)) = Len(res)
         /\ \A i \in 1..Len(res) :
              /\ TornDown(k)[i] \in Streams
              /\ TornDown(k)[i].kind = res[i].kind
              /\ TornDown(k)[i].live = (res[i].live /\ i # resSvc[k])
<1>1. res \in Seq(Streams) /\ DOMAIN res = 1..Len(res) /\ Len(res) \in Nat
  BY DEF ResourceTypes
<1>2. ASSUME NEW i \in 1..Len(res)
      PROVE  /\ TornDown(k)[i] \in Streams
             /\ TornDown(k)[i].kind = res[i].kind
             /\ TornDown(k)[i].live = (res[i].live /\ i # resSvc[k])
  <2>1. res[i] \in Streams
    BY <1>1
  <2>2. TornDown(k)[i] = IF i = resSvc[k] THEN [res[i] EXCEPT !.live = FALSE] ELSE res[i]
    BY <1>1 DEF TornDown
  <2>3. CASE i = resSvc[k]
    BY <2>1, <2>2, <2>3 DEF Streams
  <2>4. CASE i # resSvc[k]
    BY <2>1, <2>2, <2>4 DEF Streams
  <2> QED
    BY <2>3, <2>4
<1>3. TornDown(k) = [i \in 1..Len(res) |-> TornDown(k)[i]]
  BY <1>1 DEF TornDown
<1>4. TornDown(k) \in Seq(Streams) /\ Len(TornDown(k)) = Len(res)
  BY <1>1, <1>2, <1>3
<1> QED
  BY <1>2, <1>4

\* Switch replaces the stream of its kind by a new one ...
LEMMA SwitchOpened ==
  ASSUME ResourceTypes, ServiceOwnsLive, NEW k \in Kinds, NEW n \in Namespaces, SwitchOpens(k, n)
  PROVE  /\ res' \in Seq(Streams) /\ Len(res') = Len(res) + 1
         /\ resSvc' \in [Kinds -> 0..Len(res')]
         /\ StreamsKept /\ res'[Len(res) + 1].kind = k
         /\ ServiceOwnsLive'
<1> DEFINE new == [kind |-> k, ns |-> Watched(k, n), live |-> TRUE, version |-> 0, unread |-> FALSE]
<1>1. new \in Streams
  BY BoundsAssumption DEF Streams, Watched
<1>2. /\ TornDown(k) \in Seq(Streams) /\ Len(TornDown(k)) = Len(res) /\ Len(res) \in Nat
      /\ \A i \in 1..Len(res) : TornDown(k)[i] \in Streams /\ TornDown(k)[i].kind = res[i].kind
                                /\ TornDown(k)[i].live = (res[i].live /\ i # resSvc[k])
  BY TornDownStreams DEF ResourceTypes
<1>3. res' = Append(TornDown(k), new)
  BY DEF SwitchOpens
<1> HIDE DEF new
<1>4. /\ res' \in Seq(Streams) /\ Len(res') = Len(res) + 1 /\ res'[Len(res) + 1] = new
      /\ \A i \in 1..Len(res) : res'[i] = TornDown(k)[i]
  BY <1>1, <1>2, <1>3
<1>5. StreamsKept /\ res'[Len(res) + 1].kind = k
  BY <1>2, <1>4 DEF new, StreamsKept
<1>6. /\ resSvc \in [Kinds -> 0..Len(res)] /\ resSvc' = [resSvc EXCEPT ![k] = Len(res) + 1]
      /\ resSvc' \in [Kinds -> 0..Len(res')]
  BY <1>2, <1>4 DEF ResourceTypes, SwitchOpens
<1>7. ASSUME NEW s \in DOMAIN res', res'[s].live PROVE resSvc'[res'[s].kind] = s
  <2>1. s \in 1..(Len(res) + 1)
    BY <1>4
  <2>2. CASE s = Len(res) + 1
    BY <1>5, <1>6, <2>2
  <2>3. CASE s \in 1..Len(res)
    <3>1. res[s].live /\ s # resSvc[k] /\ res'[s].kind = res[s].kind
      BY <1>2, <1>4, <1>7, <2>3
    <3>2. res[s] \in Streams /\ s \in DOMAIN res
      BY <2>3 DEF ResourceTypes
    <3>3. resSvc[res[s].kind] = s
      BY <3>1, <3>2 DEF ServiceOwnsLive
    <3> QED
      BY <1>6, <3>1, <3>2, <3>3 DEF Streams
  <2> QED
    BY <1>2, <2>1, <2>2, <2>3
<1> QED
  BY <1>4, <1>5, <1>6, <1>7 DEF ServiceOwnsLive

\* ... or leaves its kind without one.
LEMMA SwitchFailed ==
  ASSUME ResourceTypes, ServiceOwnsLive, NEW k \in Kinds, SwitchFails(k)
  PROVE  /\ res' \in Seq(Streams) /\ Len(res') = Len(res)
         /\ resSvc' \in [Kinds -> 0..Len(res')]
         /\ StreamsKept
         /\ ServiceOwnsLive'
<1>2. /\ TornDown(k) \in Seq(Streams) /\ Len(TornDown(k)) = Len(res) /\ Len(res) \in Nat
      /\ \A i \in 1..Len(res) : TornDown(k)[i] \in Streams /\ TornDown(k)[i].kind = res[i].kind
                                /\ TornDown(k)[i].live = (res[i].live /\ i # resSvc[k])
  BY TornDownStreams DEF ResourceTypes
<1>3. res' = TornDown(k)
  BY DEF SwitchFails
<1>5. StreamsKept
  BY <1>2, <1>3 DEF StreamsKept
<1>6. /\ resSvc \in [Kinds -> 0..Len(res)] /\ resSvc' = [resSvc EXCEPT ![k] = 0]
      /\ resSvc' \in [Kinds -> 0..Len(res')]
  BY <1>2, <1>3 DEF ResourceTypes, SwitchFails
<1>7. ASSUME NEW s \in DOMAIN res', res'[s].live PROVE resSvc'[res'[s].kind] = s
  <2>1. s \in 1..Len(res)
    BY <1>2, <1>3
  <2>2. res[s].live /\ s # resSvc[k] /\ res'[s].kind = res[s].kind
    BY <1>2, <1>3, <1>7, <2>1
  <2>3. res[s] \in Streams /\ s \in DOMAIN res
    BY <2>1 DEF ResourceTypes
  <2>4. resSvc[res[s].kind] = s
    BY <2>2, <2>3 DEF ServiceOwnsLive
  <2> QED
    BY <1>6, <2>2, <2>3, <2>4 DEF Streams
<1> QED
  BY <1>2, <1>3, <1>5, <1>6, <1>7 DEF ServiceOwnsLive

\* What a stream emits or has read changes neither its kind nor its owner.
LEMMA StreamUpdated ==
  ASSUME ResourceInv, NEW s \in 1..Len(res), NEW r \in Streams,
         r.kind = res[s].kind, r.live = res[s].live, res' = [res EXCEPT ![s] = r],
         UNCHANGED <<namespace, resourceKind, resourceCh, table, resSvc>>
  PROVE  ResourceInv' /\ StreamsKept
<1>1. res \in Seq(Streams) /\ DOMAIN res = 1..Len(res) /\ Len(res) \in Nat
  BY DEF ResourceInv, ResourceTypes
<1>2. res' \in Seq(Streams) /\ Len(res') = Len(res)
  BY <1>1
<1>3. \A i \in 1..Len(res) : res'[i].kind = res[i].kind /\ res'[i].live = res[i].live
  BY <1>1
<1>4. ResourceTypes'
  BY <1>2 DEF ResourceInv, ResourceTypes
<1>5. ServiceOwnsLive' /\ ShownKind'
  BY <1>1, <1>2, <1>3 DEF ResourceInv, ResourceTypes, ServiceOwnsLive, ShownKind
<1> QED
  BY <1>1, <1>2, <1>3, <1>4, <1>5 DEF ResourceInv, StreamsKept

\* Switching what is shown, and failing to.
LEMMA MountSteps ==
  ASSUME ResourceInv, NEW k \in Kinds, NEW n \in Namespaces, namespace' \in Namespaces
  PROVE  /\ Mount(k, n) => ResourceInv' /\ StreamsKept
         /\ SwitchFails(k) /\ UNCHANGED <<resourceKind, resourceCh, table>>
              => ResourceInv' /\ StreamsKept
<1>0. ResourceTypes /\ ServiceOwnsLive /\ ShownKind /\ Len(res) \in Nat
  BY DEF ResourceInv, ResourceTypes
<1>1. ASSUME Mount(k, n) PROVE ResourceInv' /\ StreamsKept
  <2>1. /\ res' \in Seq(Streams) /\ Len(res') = Len(res) + 1
        /\ resSvc' \in [Kinds -> 0..Len(res')]
        /\ StreamsKept /\ res'[Len(res) + 1].kind = k
        /\ ServiceOwnsLive'
    BY <1>0, <1>1, SwitchOpened DEF Mount
  <2>2. table' = EmptyTable /\ resourceCh' = Len(res) + 1 /\ resourceKind' = k
    BY <1>1 DEF Mount
  <2>3. ResourceTypes'
    BY <1>0, <2>1, <2>2, BoundsAssumption DEF ResourceTypes, EmptyTable
  <2>4. ShownKind'
    BY <2>1, <2>2 DEF ShownKind, EmptyTable
  <2> QED
    BY <2>1, <2>3, <2>4 DEF ResourceInv
<1>2. ASSUME SwitchFails(k), UNCHANGED <<resourceKind, resourceCh, table>>
      PROVE  ResourceInv' /\ StreamsKept
  <2>1. /\ res' \in Seq(Streams) /\ Len(res') = Len(res)
        /\ resSvc' \in [Kinds -> 0..Len(res')]
        /\ StreamsKept
        /\ ServiceOwnsLive'
    BY <1>0, <1>2, SwitchFailed
  <2>2. ResourceTypes'
    BY <1>0, <1>2, <2>1 DEF ResourceTypes
  <2>3. ShownKind'
    BY <1>0, <1>2, <2>1 DEF ShownKind, StreamsKept, ResourceTypes
  <2> QED
    BY <2>1, <2>2, <2>3 DEF ResourceInv
<1> QED
  BY <1>1, <1>2

\* Every step keeps the streams and what is shown of them.
LEMMA ResourceStep == IInv /\ [Next]_vars => ResourceInv' /\ StreamsKept
<1> SUFFICES ASSUME IInv, [Next]_vars PROVE ResourceInv' /\ StreamsKept
  OBVIOUS
<1> USE DEF IInv
<1>0. ResourceTypes /\ ServiceOwnsLive /\ ShownKind /\ Len(res) \in Nat
  BY DEF ResourceInv, ResourceTypes
<1>1. ASSUME UNCHANGED <<namespace, resourceVars>> PROVE ResourceInv' /\ StreamsKept
  BY <1>0, <1>1 DEF resourceVars, ResourceInv, ResourceTypes, ServiceOwnsLive, ShownKind, StreamsKept
<1>2. CASE HomeSwitched
  <2>1. CASE SwitchOpens(HomeKind, HomeNamespace)
    <3>1. /\ res' \in Seq(Streams) /\ Len(res') = Len(res) + 1
          /\ resSvc' \in [Kinds -> 0..Len(res')]
          /\ StreamsKept
          /\ ServiceOwnsLive'
      BY <1>0, <2>1, SwitchOpened, KindsAssumption
    <3>2. UNCHANGED <<namespace, resourceKind, resourceCh, table>>
      BY <1>2 DEF HomeSwitched
    <3>3. ResourceTypes'
      BY <1>0, <3>1, <3>2 DEF ResourceTypes
    <3>4. ShownKind'
      BY <1>0, <3>1, <3>2 DEF ShownKind, StreamsKept, ResourceTypes
    <3> QED
      BY <3>1, <3>3, <3>4 DEF ResourceInv
  <2>2. CASE SwitchFails(HomeKind)
    BY <1>2, <2>2, MountSteps, KindsAssumption DEF HomeSwitched, ResourceInv, ResourceTypes
  <2> QED
    BY <1>2, <2>1, <2>2 DEF HomeSwitched
<1>3. ASSUME NEW k, NEW ch, HomeReady(k, ch) PROVE ResourceInv' /\ StreamsKept
  <2>1. ch \in 1..Len(res) /\ res[ch].kind = k
    <3>1. [msg |-> "homeReady", kind |-> k, ch |-> ch] \in BagToSet(msgs)
      BY <1>3, HandleElements DEF HomeReady
    <3> QED
      BY <3>1 DEF MsgInv, OnItsWay
  <2>2. UNCHANGED <<namespace, resourceKind, table, resSvc, res>>
        /\ resourceCh' = IF k = resourceKind THEN ch ELSE resourceCh
    BY <1>3 DEF HomeReady
  <2> QED
    BY <1>0, <2>1, <2>2 DEF ResourceInv, ResourceTypes, ServiceOwnsLive, ShownKind, StreamsKept
<1>4. ASSUME NEW k \in Kinds, NEW input, SwitchToResource(input, k), UNCHANGED namespace
      PROVE  ResourceInv' /\ StreamsKept
  BY <1>0, <1>4, MountSteps DEF SwitchToResource, ResourceInv, ResourceTypes
<1>5. ASSUME NEW k \in Kinds, KindCommand(k) PROVE ResourceInv' /\ StreamsKept
  BY <1>4, <1>5 DEF KindCommand
<1>6. CASE EscHome
  BY <1>4, <1>6, KindsAssumption DEF EscHome
<1>7. ASSUME NEW n, NamespaceChanged(n) PROVE ResourceInv' /\ StreamsKept
  <2>1. n \in Namespaces
    <3>1. [msg |-> "ns", ns |-> n] \in BagToSet(msgs)
      BY <1>7, HandleElements DEF NamespaceChanged
    <3> QED
      BY <3>1 DEF MsgInv, OnItsWay
  <2> QED
    BY <1>0, <1>7, <2>1, MountSteps, KindsAssumption DEF NamespaceChanged, ResourceInv
<1>8. ASSUME NEW s \in DOMAIN res, ListerEmits(s) PROVE ResourceInv' /\ StreamsKept
  <2> DEFINE r == [res[s] EXCEPT !.version = @ + 1, !.unread = TRUE]
  <2>1. s \in 1..Len(res) /\ res[s] \in Streams
    BY <1>0 DEF ResourceTypes
  <2>2. r \in Streams /\ r.kind = res[s].kind /\ r.live = res[s].live
    BY <1>8, <2>1, BoundsAssumption DEF Streams, ListerEmits
  <2>3. res' = [res EXCEPT ![s] = r]
    BY <1>8 DEF ListerEmits
  <2>4. UNCHANGED <<namespace, resourceKind, resourceCh, table, resSvc>>
    BY <1>8 DEF ListerEmits
  <2> QED
    BY <2>1, <2>2, <2>3, <2>4, StreamUpdated
<1>9. ASSUME NEW ch, NEW k, PumpSnapshot(ch, k) PROVE ResourceInv' /\ StreamsKept
  <2> DEFINE r == [res[ch] EXCEPT !.unread = FALSE]
  <2>0. [run |-> "resource", ch |-> ch, kind |-> k] \in BagToSet(cmds)
    BY <1>9, ReturnElements DEF PumpSnapshot
  <2>1. ch \in 1..Len(res) /\ res[ch] \in Streams
    BY <1>0, <2>0 DEF ResourceTypes, CmdInv, InFlight
  <2>2. r \in Streams /\ r.kind = res[ch].kind /\ r.live = res[ch].live
    BY <2>1 DEF Streams
  <2>3. res' = [res EXCEPT ![ch] = r]
    BY <1>9 DEF PumpSnapshot
  <2>4. UNCHANGED <<namespace, resourceKind, resourceCh, table, resSvc>>
    BY <1>9 DEF PumpSnapshot
  <2> QED
    BY <2>1, <2>2, <2>3, <2>4, StreamUpdated
<1>10. ASSUME NEW k, NEW ch, NEW v, Snapshot(k, ch, v) PROVE ResourceInv' /\ StreamsKept
  <2>1. ch \in 1..Len(res) /\ res[ch].kind = k /\ v \in 0..MaxVersion
    <3>1. [msg |-> "snapshot", kind |-> k, ch |-> ch, version |-> v] \in BagToSet(msgs)
      BY <1>10, HandleElements DEF Snapshot
    <3> QED
      BY <3>1 DEF MsgInv, OnItsWay
  <2>2. UNCHANGED <<namespace, resourceKind, resourceCh, resSvc, res>>
        /\ table' = IF k = resourceKind THEN [stream |-> ch, version |-> v] ELSE table
    BY <1>10 DEF Snapshot, SameKind
  <2> QED
    BY <1>0, <2>1, <2>2 DEF ResourceInv, ResourceTypes, ServiceOwnsLive, ShownKind, StreamsKept
<1>11. ASSUME NEW k, StreamEnd(k) PROVE ResourceInv' /\ StreamsKept
  <2>1. UNCHANGED <<namespace, resourceKind, table, resSvc, res>> /\ resourceCh' \in {0, resourceCh}
    BY <1>11 DEF StreamEnd
  <2> QED
    BY <1>0, <2>1 DEF ResourceInv, ResourceTypes, ServiceOwnsLive, ShownKind, StreamsKept
<1>12. CASE Key
  <2>1. CASE OpenCmdbar \/ EscCmdbar \/ CloseLogs \/ CloseDiagnose \/ CloseDescribe \/ ToggleYAML
             \/ HelpCommand \/ CloseHelp
    BY <1>1, <2>1 DEF OpenCmdbar, EscCmdbar, CloseLogs, CloseDiagnose, CloseDescribe, ToggleYAML,
                      HelpCommand, CloseHelp
  <2>2. CASE OpenDiagnoseForLog
    BY <1>1, <2>2 DEF OpenDiagnoseForLog, OpenModal
  <2>3. ASSUME NEW n \in Namespaces, NamespaceCommand(n) PROVE UNCHANGED <<namespace, resourceVars>>
    BY <2>3 DEF NamespaceCommand
  <2>4. ASSUME NEW n \in Names, OpenLogs(n) \/ OpenDiagnose(n) \/ OpenDescribe(n)
        PROVE  UNCHANGED <<namespace, resourceVars>>
    BY <2>4 DEF OpenLogs, OpenDiagnose, OpenModal, OpenDescribe
  <2> QED
    BY <1>1, <1>5, <1>6, <1>12, <2>1, <2>2, <2>3, <2>4 DEF Key
<1>13. CASE Update
  <2>1. CASE HomeFailed \/ LogsEnd
    BY <1>1, <2>1 DEF HomeFailed, LogsEnd
  <2>2. ASSUME NEW x, LogsBatch(x) \/ Started(x) \/ Text(x) \/ Described(x)
        PROVE  UNCHANGED <<namespace, resourceVars>>
    BY <2>2 DEF LogsBatch, Started, Text, Described
  <2>3. ASSUME NEW x, NEW y, Finished(x, y) PROVE UNCHANGED <<namespace, resourceVars>>
    BY <2>3 DEF Finished
  <2> QED
    BY <1>1, <1>3, <1>7, <1>10, <1>11, <1>13, <2>1, <2>2, <2>3 DEF Update
<1>14. CASE Command
  <2>1. ASSUME NEW x, \/ PumpBatch(x) \/ PumpLogsEnd(x) \/ StartSession(x) \/ OverBudget(x)
                      \/ PumpEvent(x) \/ PumpClosed(x) \/ DescribeReturns(x)
        PROVE  UNCHANGED <<namespace, resourceVars>>
    BY <2>1 DEF PumpBatch, PumpLogsEnd, StartSession, OverBudget, PumpEvent, PumpClosed,
                DescribeReturns
  <2>2. ASSUME NEW x, NEW y, PumpStreamEnd(x, y) PROVE UNCHANGED <<namespace, resourceVars>>
    BY <2>2 DEF PumpStreamEnd
  <2> QED
    BY <1>1, <1>2, <1>9, <1>14, <2>1, <2>2 DEF Command
<1>15. CASE Source
  <2>1. ASSUME NEW x, StreamerSends(x) \/ StreamerEnds(x) \/ SessionEmits(x) \/ SessionEnds(x)
        PROVE  UNCHANGED <<namespace, resourceVars>>
    BY <2>1 DEF StreamerSends, StreamerEnds, SessionEmits, SessionEnds
  <2> QED
    BY <1>1, <1>8, <1>15, <2>1 DEF Source
<1>16. CASE UNCHANGED vars
  BY <1>1, <1>16 DEF vars, resourceVars
<1> QED
  BY <1>12, <1>13, <1>14, <1>15, <1>16 DEF Next

-----------------------------------------------------------------------------
(* The log streams.                                                        *)

\* A log stream changed in place: the service's, if it is not cancelled,
\* stays the service's.
LEMMA LogUpdated ==
  ASSUME LogInv, NEW s \in 1..Len(logs), NEW r \in LogStreams,
         r.unread <= r.produced, r.cancelled = logs[s].cancelled,
         logs' = [logs EXCEPT ![s] = r], UNCHANGED <<logsCh, logsPod, logsView, logSvc>>
  PROVE  LogInv' /\ Len(logs) <= Len(logs')
<1>1. logs \in Seq(LogStreams) /\ DOMAIN logs = 1..Len(logs) /\ Len(logs) \in Nat
  BY DEF LogInv, LogTypes
<1>2. logs' \in Seq(LogStreams) /\ Len(logs') = Len(logs) /\ DOMAIN logs' = DOMAIN logs
  BY <1>1
<1>3. \A i \in DOMAIN logs : logs'[i] = IF i = s THEN r ELSE logs[i]
  BY <1>1
<1>4. LogTypes'
  BY <1>1, <1>2, <1>3 DEF LogInv, LogTypes
<1>5. ServiceOwnsLogs'
  BY <1>1, <1>2, <1>3 DEF LogInv, LogTypes, ServiceOwnsLogs
<1> QED
  BY <1>1, <1>2, <1>4, <1>5 DEF LogInv

\* Once LogService has cancelled its stream, every stream is cancelled.
LEMMA AllCancelled ==
  ASSUME LogInv
  PROVE  /\ LogsCancelled \in Seq(LogStreams) /\ Len(LogsCancelled) = Len(logs)
         /\ \A i \in 1..Len(logs) : /\ LogsCancelled[i].cancelled
                                    /\ LogsCancelled[i].unread <= LogsCancelled[i].produced
<1>1. /\ logs \in Seq(LogStreams) /\ DOMAIN logs = 1..Len(logs) /\ Len(logs) \in Nat
      /\ logSvc \in 0..Len(logs)
      /\ \A i \in 1..Len(logs) : logs[i] \in LogStreams /\ logs[i].unread <= logs[i].produced
                                 /\ (logs[i].cancelled \/ logSvc = i)
  BY DEF LogInv, LogTypes, ServiceOwnsLogs
<1>2. CASE logSvc = 0
  BY <1>1, <1>2 DEF LogsCancelled
<1>3. CASE logSvc # 0
  <2> DEFINE r == [logs[logSvc] EXCEPT !.cancelled = TRUE]
  <2>1. r \in LogStreams /\ r.cancelled /\ r.unread <= r.produced
    <3>1. logs[logSvc] \in LogStreams /\ logs[logSvc].unread <= logs[logSvc].produced
      BY <1>1, <1>3
    <3>2. r \in LogStreams
      BY <3>1 DEF LogStreams
    <3>3. r.cancelled /\ r.unread <= r.produced
      BY <3>1 DEF LogStreams
    <3> QED
      BY <3>2, <3>3
  <2>2. LogsCancelled = [logs EXCEPT ![logSvc] = r]
    BY <1>3 DEF LogsCancelled
  <2> HIDE DEF r
  <2> QED
    BY <1>1, <1>3, <2>1, <2>2
<1> QED
  BY <1>2, <1>3

\* LogService stops.
LEMMA LogsStopped ==
  ASSUME LogInv, LogServiceStop, logsCh' \in {0, logsCh}, logsPod' \in {None, logsPod},
         UNCHANGED logsView
  PROVE  LogInv' /\ Len(logs) <= Len(logs')
<1>1. /\ LogsCancelled \in Seq(LogStreams) /\ Len(LogsCancelled) = Len(logs) /\ Len(logs) \in Nat
      /\ \A i \in 1..Len(logs) : /\ LogsCancelled[i].cancelled
                                 /\ LogsCancelled[i].unread <= LogsCancelled[i].produced
  BY AllCancelled DEF LogInv, LogTypes
<1>2. logs' = LogsCancelled /\ logSvc' = 0
  BY DEF LogServiceStop
<1> HIDE DEF LogsCancelled
<1>3. LogTypes'
  BY <1>1, <1>2 DEF LogInv, LogTypes
<1>4. ServiceOwnsLogs'
  BY <1>1, <1>2 DEF ServiceOwnsLogs
<1> QED
  BY <1>1, <1>2, <1>3, <1>4 DEF LogInv

\* l: the stream that is opened is the only one that is not cancelled.
LEMMA LogsOpened ==
  ASSUME LogInv, NEW pod \in Names, OpenLogs(pod)
  PROVE  LogInv' /\ Len(logs) <= Len(logs')
<1>1. /\ LogsCancelled \in Seq(LogStreams) /\ Len(LogsCancelled) = Len(logs) /\ Len(logs) \in Nat
      /\ \A i \in 1..Len(logs) : /\ LogsCancelled[i].cancelled
                                 /\ LogsCancelled[i].unread <= LogsCancelled[i].produced
  BY AllCancelled DEF LogInv, LogTypes
<1> DEFINE new == [pod |-> pod, cancelled |-> FALSE, done |-> FALSE, produced |-> 0, unread |-> 0]
<1>2. CASE LogServiceStop /\ UNCHANGED <<logsCh, logsPod, logsView>>
  BY <1>2, LogsStopped
<1>3. CASE logs' = Append(LogsCancelled, new) /\ logSvc' = Len(logs) + 1 /\ logsCh' = Len(logs) + 1
           /\ logsView' = [pod |-> pod, from |-> {}] /\ logsPod' = pod
  <2>1. new \in LogStreams /\ new.unread <= new.produced
    BY BoundsAssumption DEF LogStreams
  <2> HIDE DEF new
  <2>2. /\ logs' \in Seq(LogStreams) /\ Len(logs') = Len(logs) + 1 /\ logs'[Len(logs) + 1] = new
        /\ \A i \in 1..Len(logs) : logs'[i] = LogsCancelled[i]
    BY <1>1, <1>3, <2>1
  <2>3. \A i \in DOMAIN logs' : i \in 1..Len(logs) \/ i = Len(logs) + 1
    BY <1>1, <2>2
  <2>4. LogTypes'
    BY <1>1, <1>3, <2>1, <2>2, <2>3 DEF LogTypes
  <2>5. ServiceOwnsLogs'
    BY <1>1, <1>3, <2>2, <2>3 DEF ServiceOwnsLogs
  <2> QED
    BY <1>1, <2>2, <2>4, <2>5 DEF LogInv
<1> QED
  BY <1>2, <1>3 DEF OpenLogs

\* Every step keeps the log streams.
LEMMA LogStep == IInv /\ [Next]_vars => LogInv' /\ Len(logs) <= Len(logs')
<1> SUFFICES ASSUME IInv, [Next]_vars PROVE LogInv' /\ Len(logs) <= Len(logs')
  OBVIOUS
<1> USE DEF IInv
<1>0. /\ LogTypes /\ ServiceOwnsLogs /\ Len(logs) \in Nat /\ logs \in Seq(LogStreams)
      /\ \A s \in 1..Len(logs) : logs[s] \in LogStreams /\ logs[s].unread <= logs[s].produced
  BY DEF LogInv, LogTypes
<1>1. ASSUME UNCHANGED logVars PROVE LogInv' /\ Len(logs) <= Len(logs')
  BY <1>0, <1>1 DEF logVars, LogInv, LogTypes, ServiceOwnsLogs
<1>2. ASSUME logsCh' = 0, UNCHANGED <<logsPod, logsView, logSvc, logs>>
      PROVE  LogInv' /\ Len(logs) <= Len(logs')
  BY <1>0, <1>2 DEF LogInv, LogTypes, ServiceOwnsLogs
<1>3. ASSUME NEW k \in Kinds, NEW input, SwitchToResource(input, k)
      PROVE  LogInv' /\ Len(logs) <= Len(logs')
  BY <1>1, <1>2, <1>3 DEF SwitchToResource, DropModals
<1>4. ASSUME NEW k \in Kinds, KindCommand(k) PROVE LogInv' /\ Len(logs) <= Len(logs')
  BY <1>3, <1>4 DEF KindCommand
<1>5. CASE EscHome
  BY <1>3, <1>5, KindsAssumption DEF EscHome
<1>6. ASSUME NEW n, NamespaceChanged(n) PROVE LogInv' /\ Len(logs) <= Len(logs')
  BY <1>6, LogsStopped DEF NamespaceChanged
<1>7. ASSUME NEW n \in Names, OpenLogs(n) PROVE LogInv' /\ Len(logs) <= Len(logs')
  BY <1>7, LogsOpened
<1>8. CASE CloseLogs
  BY <1>8, LogsStopped DEF CloseLogs
<1>9. ASSUME NEW s \in DOMAIN logs, StreamerSends(s) PROVE LogInv' /\ Len(logs) <= Len(logs')
  <2> DEFINE r == [logs[s] EXCEPT !.produced = @ + 1, !.unread = @ + 1]
  <2>1. s \in 1..Len(logs) /\ logs[s].produced < MaxBatches
    BY <1>0, <1>9 DEF StreamerSends
  <2>2. r \in LogStreams /\ r.unread <= r.produced /\ r.cancelled = logs[s].cancelled
    <3>1. logs[s] \in LogStreams /\ logs[s].unread <= logs[s].produced
      BY <1>0, <2>1
    <3>2. logs[s].produced + 1 \in 0..MaxBatches /\ logs[s].unread + 1 \in 0..MaxBatches
          /\ logs[s].unread + 1 <= logs[s].produced + 1
      BY <3>1, <2>1, BoundsAssumption DEF LogStreams
    <3>3. r \in LogStreams
      BY <3>1, <3>2 DEF LogStreams
    <3>4. r.unread <= r.produced
      BY <3>1, <3>2 DEF LogStreams
    <3>5. r.cancelled = logs[s].cancelled
      BY <3>1 DEF LogStreams
    <3> QED
      BY <3>3, <3>4, <3>5
  <2>3. logs' = [logs EXCEPT ![s] = r] /\ UNCHANGED <<logsCh, logsPod, logsView, logSvc>>
    BY <1>9 DEF StreamerSends
  <2> QED
    BY <2>1, <2>2, <2>3, LogUpdated
<1>10. ASSUME NEW s \in DOMAIN logs, StreamerEnds(s) PROVE LogInv' /\ Len(logs) <= Len(logs')
  <2> DEFINE r == [logs[s] EXCEPT !.done = TRUE]
  <2>1. s \in 1..Len(logs)
    BY <1>0
  <2>2. r \in LogStreams /\ r.unread <= r.produced /\ r.cancelled = logs[s].cancelled
    <3>1. logs[s] \in LogStreams /\ logs[s].unread <= logs[s].produced
      BY <1>0, <2>1
    <3>2. r \in LogStreams
      BY <3>1, <2>1 DEF LogStreams
    <3>3. r.unread <= r.produced
      BY <3>1, <2>1 DEF LogStreams
    <3>4. r.cancelled = logs[s].cancelled
      BY <3>1 DEF LogStreams
    <3> QED
      BY <3>2, <3>3, <3>4
  <2>3. logs' = [logs EXCEPT ![s] = r] /\ UNCHANGED <<logsCh, logsPod, logsView, logSvc>>
    BY <1>10 DEF StreamerEnds
  <2> QED
    BY <2>1, <2>2, <2>3, LogUpdated
<1>11. ASSUME NEW ch, PumpBatch(ch) PROVE LogInv' /\ Len(logs) <= Len(logs')
  <2> DEFINE r == [logs[ch] EXCEPT !.unread = @ - 1]
  <2>0. [run |-> "logs", ch |-> ch] \in BagToSet(cmds)
    BY <1>11, ReturnElements DEF PumpBatch
  <2>1. ch \in 1..Len(logs) /\ logs[ch].unread > 0
    BY <1>11, <2>0 DEF CmdInv, InFlight, PumpBatch
  <2>2. r \in LogStreams /\ r.unread <= r.produced /\ r.cancelled = logs[ch].cancelled
    <3>1. logs[ch] \in LogStreams /\ logs[ch].unread <= logs[ch].produced
      BY <1>0, <2>1
    <3>2. r \in LogStreams
      BY <3>1, <2>1, BoundsAssumption DEF LogStreams
    <3>3. r.unread <= r.produced
      BY <3>1, <2>1, BoundsAssumption DEF LogStreams
    <3>4. r.cancelled = logs[ch].cancelled
      BY <3>1 DEF LogStreams
    <3> QED
      BY <3>2, <3>3, <3>4
  <2>3. logs' = [logs EXCEPT ![ch] = r] /\ UNCHANGED <<logsCh, logsPod, logsView, logSvc>>
    BY <1>11 DEF PumpBatch
  <2> QED
    BY <2>1, <2>2, <2>3, LogUpdated
<1>12. ASSUME NEW ch, LogsBatch(ch) PROVE LogInv' /\ Len(logs) <= Len(logs')
  <2>1. ch \in 1..Len(logs)
    <3>1. [msg |-> "logsBatch", ch |-> ch] \in BagToSet(msgs)
      BY <1>12, HandleElements DEF LogsBatch
    <3> QED
      BY <3>1 DEF MsgInv, OnItsWay
  <2>2. logsView' = [logsView EXCEPT !.from = @ \union {ch}] /\ UNCHANGED <<logsCh, logsPod, logSvc, logs>>
    BY <1>12 DEF LogsBatch
  <2>3. logsView' \in [pod : Names \union {None}, from : SUBSET (1..Len(logs))]
    BY <1>0, <2>1, <2>2 DEF LogTypes
  <2> QED
    BY <1>0, <2>2, <2>3 DEF LogInv, LogTypes, ServiceOwnsLogs
<1>13. CASE LogsEnd
  BY <1>2, <1>13 DEF LogsEnd
<1>14. CASE Key
  <2>1. CASE OpenCmdbar \/ EscCmdbar \/ CloseDiagnose \/ CloseDescribe \/ ToggleYAML
             \/ HelpCommand \/ CloseHelp
    BY <1>1, <2>1 DEF OpenCmdbar, EscCmdbar, CloseDiagnose, CloseDescribe, ToggleYAML,
                      HelpCommand, CloseHelp
  <2>2. CASE OpenDiagnoseForLog
    BY <1>1, <2>2 DEF OpenDiagnoseForLog, OpenModal
  <2>3. ASSUME NEW n \in Namespaces, NamespaceCommand(n) PROVE UNCHANGED logVars
    BY <2>3 DEF NamespaceCommand
  <2>4. ASSUME NEW n \in Names, OpenDiagnose(n) \/ OpenDescribe(n) PROVE UNCHANGED logVars
    BY <2>4 DEF OpenDiagnose, OpenModal, OpenDescribe
  <2> QED
    BY <1>1, <1>4, <1>5, <1>7, <1>8, <1>14, <2>1, <2>2, <2>3, <2>4 DEF Key
<1>15. CASE Update
  <2>1. CASE HomeFailed
    BY <1>1, <2>1 DEF HomeFailed
  <2>2. ASSUME NEW x, Started(x) \/ Text(x) \/ Described(x) \/ StreamEnd(x)
        PROVE  UNCHANGED logVars
    BY <2>2 DEF Started, Text, Described, StreamEnd
  <2>3. ASSUME NEW x, NEW y, HomeReady(x, y) \/ Finished(x, y) PROVE UNCHANGED logVars
    BY <2>3 DEF HomeReady, Finished
  <2>4. ASSUME NEW x, NEW y, NEW z, Snapshot(x, y, z) PROVE UNCHANGED logVars
    BY <2>4 DEF Snapshot
  <2> QED
    BY <1>1, <1>6, <1>12, <1>13, <1>15, <2>1, <2>2, <2>3, <2>4 DEF Update
<1>16. CASE Command
  <2>1. ASSUME NEW x, \/ PumpLogsEnd(x) \/ StartSession(x) \/ OverBudget(x)
                      \/ PumpEvent(x) \/ PumpClosed(x) \/ DescribeReturns(x)
        PROVE  UNCHANGED logVars
    BY <2>1 DEF PumpLogsEnd, StartSession, OverBudget, PumpEvent, PumpClosed, DescribeReturns
  <2>2. ASSUME NEW x, NEW y, PumpSnapshot(x, y) \/ PumpStreamEnd(x, y) PROVE UNCHANGED logVars
    BY <2>2 DEF PumpSnapshot, PumpStreamEnd
  <2>3. CASE HomeSwitched
    BY <1>1, <2>3 DEF HomeSwitched
  <2> QED
    BY <1>1, <1>11, <1>16, <2>1, <2>2, <2>3 DEF Command
<1>17. CASE Source
  <2>1. ASSUME NEW x, ListerEmits(x) \/ SessionEmits(x) \/ SessionEnds(x) PROVE UNCHANGED logVars
    BY <2>1 DEF ListerEmits, SessionEmits, SessionEnds
  <2> QED
    BY <1>1, <1>9, <1>10, <1>17, <2>1 DEF Source
<1>18. CASE UNCHANGED vars
  BY <1>1, <1>18 DEF vars, logVars
<1> QED
  BY <1>14, <1>15, <1>16, <1>17, <1>18 DEF Next

-----------------------------------------------------------------------------
(* The sessions.                                                           *)

\* Sessions and modals are only ever added.
SessionsKept == Len(sess) <= Len(sess') /\ modals <= modals'

\* A session changed in place, whatever else is assigned.
LEMMA SessionUpdated ==
  ASSUME SessionTypes, NEW s \in 1..Len(sess), NEW r \in Sessions, sess' = [sess EXCEPT ![s] = r]
  PROVE  sess' \in Seq(Sessions) /\ Len(sess') = Len(sess)
BY DEF SessionTypes

\* Dropping the stashed session drops its channel with it.
LEMMA SessionDropped ==
  ASSUME SessionInv, DropSession, UNCHANGED modals PROVE SessionInv' /\ SessionsKept
<1>1. /\ sess \in Seq(Sessions) /\ Len(sess) \in Nat /\ modals \in 0..MaxModals
      /\ diagnoseSession \in 0..Len(sess)
      /\ \A i \in 1..Len(sess) : sess[i] \in Sessions
  BY DEF SessionInv, SessionTypes
<1>2. sess' \in Seq(Sessions) /\ Len(sess') = Len(sess)
  <2>1. CASE diagnoseSession = 0
    BY <1>1, <2>1 DEF DropSession, SessionCancelled
  <2>2. CASE diagnoseSession # 0
    <3> DEFINE r == [sess[diagnoseSession] EXCEPT !.cancelled = TRUE]
    <3>1. diagnoseSession \in 1..Len(sess)
      BY <1>1, <2>2
    <3>2. r \in Sessions
      BY <1>1, <3>1 DEF Sessions
    <3>3. sess' = [sess EXCEPT ![diagnoseSession] = r]
      BY <2>2 DEF DropSession, SessionCancelled
    <3> QED
      BY <3>1, <3>2, <3>3, SessionUpdated DEF SessionInv
  <2> QED
    BY <2>1, <2>2
<1> QED
  BY <1>1, <1>2, BoundsAssumption
     DEF SessionInv, SessionTypes, PumpedSessionIsStashed, DropSession, SessionsKept

\* A session that emits, ends or is read from.
LEMMA SessionProgress ==
  ASSUME SessionInv, NEW s \in 1..Len(sess), NEW r \in Sessions, sess' = [sess EXCEPT ![s] = r],
         UNCHANGED <<modals, diagnoseSession, diagnoseCh>>
  PROVE  SessionInv' /\ SessionsKept
<1>1. sess' \in Seq(Sessions) /\ Len(sess') = Len(sess)
  BY SessionUpdated DEF SessionInv
<1> QED
  BY <1>1, BoundsAssumption DEF SessionInv, SessionTypes, PumpedSessionIsStashed, SessionsKept

\* Every step keeps the sessions.
LEMMA SessionStep == IInv /\ [Next]_vars => SessionInv' /\ SessionsKept
<1> SUFFICES ASSUME IInv, [Next]_vars PROVE SessionInv' /\ SessionsKept
  OBVIOUS
<1> USE DEF IInv
<1> DEFINE sessionVars == <<sess, modals, diagnoseSession, diagnoseCh>>
<1>0. /\ SessionTypes /\ PumpedSessionIsStashed /\ Len(sess) \in Nat /\ modals \in 0..MaxModals
      /\ \A s \in 1..Len(sess) : sess[s] \in Sessions
  BY DEF SessionInv, SessionTypes
<1>1. ASSUME UNCHANGED sessionVars PROVE SessionInv' /\ SessionsKept
  BY <1>0, <1>1, BoundsAssumption DEF SessionInv, SessionTypes, PumpedSessionIsStashed, SessionsKept
<1>2. ASSUME NEW k \in Kinds, NEW input, SwitchToResource(input, k) PROVE SessionInv' /\ SessionsKept
  BY <1>1, <1>2, SessionDropped DEF SwitchToResource, DropModals, diagnoseVars
<1>3. ASSUME NEW k \in Kinds, KindCommand(k) PROVE SessionInv' /\ SessionsKept
  BY <1>2, <1>3 DEF KindCommand
<1>4. CASE EscHome
  BY <1>2, <1>4, KindsAssumption DEF EscHome
<1>5. ASSUME NEW n, NamespaceChanged(n) PROVE SessionInv' /\ SessionsKept
  BY <1>5, SessionDropped DEF NamespaceChanged
<1>6. CASE CloseDiagnose
  BY <1>6, SessionDropped DEF CloseDiagnose
<1>7. ASSUME NEW input, NEW from, OpenModal(input, from) PROVE SessionInv' /\ SessionsKept
  <2>1. modals' = modals + 1 /\ modals < MaxModals /\ UNCHANGED <<sess, diagnoseSession, diagnoseCh>>
    BY <1>7 DEF OpenModal
  <2> QED
    BY <1>0, <2>1, BoundsAssumption
       DEF SessionInv, SessionTypes, PumpedSessionIsStashed, SessionsKept
<1>8. ASSUME NEW n, StartSession(n) PROVE SessionInv' /\ SessionsKept
  <2> DEFINE new == [modal |-> n, cancelled |-> FALSE, closed |-> FALSE, produced |-> 0, queue |-> <<>>]
  <2>1. [run |-> "start", modal |-> n] \in BagToSet(cmds)
    BY <1>8, ReturnElements DEF StartSession
  <2>2. n \in 1..MaxModals
    BY <1>0, <2>1, BoundsAssumption DEF CmdInv, InFlight
  <2>3. new \in Sessions
    BY <2>2, BoundsAssumption DEF Sessions
  <2>4. sess' = Append(sess, new) /\ UNCHANGED <<modals, diagnoseSession, diagnoseCh>>
    BY <1>8 DEF StartSession
  <2> HIDE DEF new
  <2>5. sess' \in Seq(Sessions) /\ Len(sess') = Len(sess) + 1
    BY <1>0, <2>3, <2>4 DEF SessionTypes
  <2> QED
    BY <1>0, <2>4, <2>5, BoundsAssumption
       DEF SessionInv, SessionTypes, PumpedSessionIsStashed, SessionsKept
<1>9. ASSUME NEW ch, Started(ch) PROVE SessionInv' /\ SessionsKept
  <2>1. [msg |-> "started", ch |-> ch] \in BagToSet(msgs)
    BY <1>9, HandleElements DEF Started
  <2>2. ch \in 1..Len(sess)
    BY <2>1 DEF MsgInv, OnItsWay
  <2>3. diagnoseSession' = ch /\ diagnoseCh' = ch /\ UNCHANGED <<sess, modals>>
    BY <1>9 DEF Started
  <2> QED
    BY <1>0, <2>2, <2>3, BoundsAssumption
       DEF SessionInv, SessionTypes, PumpedSessionIsStashed, SessionsKept
<1>10. ASSUME NEW what, NEW n, Finished(what, n) PROVE SessionInv' /\ SessionsKept
  <2>1. diagnoseCh' = 0 /\ UNCHANGED <<sess, modals, diagnoseSession>>
    BY <1>10 DEF Finished
  <2> QED
    BY <1>0, <2>1, BoundsAssumption
       DEF SessionInv, SessionTypes, PumpedSessionIsStashed, SessionsKept
<1>11. ASSUME NEW s \in DOMAIN sess, SessionEmits(s) PROVE SessionInv' /\ SessionsKept
  <2> DEFINE r == [sess[s] EXCEPT !.produced = @ + 1, !.queue = Append(@, "text")]
  <2>1. s \in 1..Len(sess) /\ sess[s] \in Sessions /\ sess[s].produced < MaxEvents
    BY <1>0, <1>11 DEF SessionTypes, SessionEmits
  <2>2. sess[s].produced + 1 \in 0..MaxEvents /\ Append(sess[s].queue, "text") \in Seq(Events)
    BY <2>1, BoundsAssumption DEF Sessions, Events
  <2>3. r \in Sessions
    BY <2>1, <2>2 DEF Sessions
  <2>4. sess' = [sess EXCEPT ![s] = r] /\ UNCHANGED <<modals, diagnoseSession, diagnoseCh>>
    BY <1>11 DEF SessionEmits
  <2> QED
    BY <2>1, <2>3, <2>4, SessionProgress
<1>12. ASSUME NEW s \in DOMAIN sess, SessionEnds(s) PROVE SessionInv' /\ SessionsKept
  <2>1. s \in 1..Len(sess) /\ sess[s] \in Sessions
    BY <1>0 DEF SessionTypes
  <2>2. PICK last \in {<<>>, <<"done">>, <<"error">>} :
          sess' = [sess EXCEPT ![s].closed = TRUE, ![s].queue = @ \o last]
    BY <1>12 DEF SessionEnds
  <2> DEFINE r == [sess[s] EXCEPT !.closed = TRUE, !.queue = @ \o last]
  <2>3. last \in Seq(Events)
    <3>1. <<>> \in Seq(Events)
      OBVIOUS
    <3>2. <<"done">> \in Seq(Events) /\ <<"error">> \in Seq(Events)
      BY DEF Events
    <3> QED
      BY <2>2, <3>1, <3>2
  <2>4. sess[s].queue \o last \in Seq(Events)
    BY <2>1, <2>3 DEF Sessions
  <2>5. r \in Sessions
    BY <2>1, <2>4 DEF Sessions
  <2>6. sess' = [sess EXCEPT ![s] = r] /\ UNCHANGED <<modals, diagnoseSession, diagnoseCh>>
    BY <1>12, <2>2 DEF SessionEnds
  <2> QED
    BY <2>1, <2>5, <2>6, SessionProgress
<1>13. ASSUME NEW ch, PumpEvent(ch) PROVE SessionInv' /\ SessionsKept
  <2> DEFINE r == [sess[ch] EXCEPT !.queue = Tail(@)]
  <2>1. [run |-> "diagnose", ch |-> ch] \in BagToSet(cmds) /\ sess[ch].queue # <<>>
    BY <1>13, ReturnElements DEF PumpEvent
  <2>2. ch \in 1..Len(sess) /\ sess[ch] \in Sessions
    BY <1>0, <2>1 DEF CmdInv, InFlight
  <2>3. Tail(sess[ch].queue) \in Seq(Events)
    BY <2>1, <2>2 DEF Sessions
  <2>4. r \in Sessions
    BY <2>2, <2>3 DEF Sessions
  <2>5. sess' = [sess EXCEPT ![ch] = r] /\ UNCHANGED <<modals, diagnoseSession, diagnoseCh>>
    BY <1>13 DEF PumpEvent
  <2> QED
    BY <2>2, <2>4, <2>5, SessionProgress
<1>14. CASE Key
  <2>1. CASE OpenCmdbar \/ EscCmdbar \/ CloseLogs \/ CloseDescribe \/ ToggleYAML
             \/ HelpCommand \/ CloseHelp
    BY <1>1, <2>1 DEF OpenCmdbar, EscCmdbar, CloseLogs, CloseDescribe, ToggleYAML,
                      HelpCommand, CloseHelp, diagnoseVars
  <2>2. CASE OpenDiagnoseForLog
    BY <1>7, <2>2 DEF OpenDiagnoseForLog
  <2>3. ASSUME NEW n \in Namespaces, NamespaceCommand(n) PROVE UNCHANGED sessionVars
    BY <2>3 DEF NamespaceCommand, diagnoseVars
  <2>4. ASSUME NEW n \in Names, OpenLogs(n) \/ OpenDescribe(n) PROVE UNCHANGED sessionVars
    BY <2>4 DEF OpenLogs, OpenDescribe, diagnoseVars
  <2>5. ASSUME NEW n \in Names, OpenDiagnose(n) PROVE SessionInv' /\ SessionsKept
    BY <1>7, <2>5 DEF OpenDiagnose
  <2> QED
    BY <1>1, <1>3, <1>4, <1>6, <1>14, <2>1, <2>2, <2>3, <2>4, <2>5 DEF Key
<1>15. CASE Update
  <2>1. CASE HomeFailed \/ LogsEnd
    BY <1>1, <2>1 DEF HomeFailed, LogsEnd, diagnoseVars
  <2>2. ASSUME NEW x, Text(x) \/ LogsBatch(x) \/ Described(x) \/ StreamEnd(x)
        PROVE  UNCHANGED sessionVars
    BY <2>2 DEF Text, LogsBatch, Described, StreamEnd, diagnoseVars
  <2>3. ASSUME NEW x, NEW y, HomeReady(x, y) PROVE UNCHANGED sessionVars
    BY <2>3 DEF HomeReady, diagnoseVars
  <2>4. ASSUME NEW x, NEW y, NEW z, Snapshot(x, y, z) PROVE UNCHANGED sessionVars
    BY <2>4 DEF Snapshot, diagnoseVars
  <2> QED
    BY <1>1, <1>5, <1>9, <1>10, <1>15, <2>1, <2>2, <2>3, <2>4 DEF Update
<1>16. CASE Command
  <2>1. ASSUME NEW x, \/ PumpBatch(x) \/ PumpLogsEnd(x) \/ OverBudget(x)
                      \/ PumpClosed(x) \/ DescribeReturns(x)
        PROVE  UNCHANGED sessionVars
    BY <2>1 DEF PumpBatch, PumpLogsEnd, OverBudget, PumpClosed, DescribeReturns, diagnoseVars
  <2>2. ASSUME NEW x, NEW y, PumpSnapshot(x, y) \/ PumpStreamEnd(x, y) PROVE UNCHANGED sessionVars
    BY <2>2 DEF PumpSnapshot, PumpStreamEnd, diagnoseVars
  <2>3. CASE HomeSwitched
    BY <1>1, <2>3 DEF HomeSwitched, diagnoseVars
  <2> QED
    BY <1>1, <1>8, <1>13, <1>16, <2>1, <2>2, <2>3 DEF Command
<1>17. CASE Source
  <2>1. ASSUME NEW x, ListerEmits(x) \/ StreamerSends(x) \/ StreamerEnds(x)
        PROVE  UNCHANGED sessionVars
    BY <2>1 DEF ListerEmits, StreamerSends, StreamerEnds, diagnoseVars
  <2> QED
    BY <1>1, <1>11, <1>12, <1>17, <2>1 DEF Source
<1>18. CASE UNCHANGED vars
  BY <1>1, <1>18 DEF vars, diagnoseVars
<1> QED
  BY <1>14, <1>15, <1>16, <1>17, <1>18 DEF Next

-----------------------------------------------------------------------------
(* The modal and its transcript.                                           *)

\* What came from one of the sessions still does when there are more.
LEMMA TextsKept ==
  \A a, b \in Nat : a <= b => \A t \in Seq(1..a) : t \in Seq(1..b)
<1> SUFFICES ASSUME NEW a \in Nat, NEW b \in Nat, a <= b, NEW t \in Seq(1..a) PROVE t \in Seq(1..b)
  OBVIOUS
<1>1. t = [i \in 1..Len(t) |-> t[i]] /\ Len(t) \in Nat
  OBVIOUS
<1>2. \A i \in 1..Len(t) : t[i] \in 1..b
  <2> TAKE i \in 1..Len(t)
  <2>1. t[i] \in 1..a
    OBVIOUS
  <2> QED
    BY <2>1
<1> QED
  BY <1>1, <1>2

\* Every step keeps the modal and the transcript in agreement.
LEMMA ModalStep == IInv /\ [Next]_vars => ModalInv'
<1> SUFFICES ASSUME IInv, [Next]_vars PROVE ModalInv'
  OBVIOUS
<1> USE DEF IInv
<1> DEFINE modalVars == <<diagnoseView, recorder, saved>>
<1>s. SessionTypes /\ Len(sess) \in Nat /\ Len(sess') \in Nat /\ modals \in 0..MaxModals
      /\ Len(sess) <= Len(sess')
  BY SessionStep DEF SessionInv, SessionTypes, SessionsKept
<1>0. /\ diagnoseView \in [modal : 0..MaxModals, state : {"streaming", "done", "error"},
                           text : Seq(1..Len(sess)), ended : SUBSET (1..MaxModals)]
      /\ recorder \in [modal : 0..MaxModals, payload : BOOLEAN, text : Seq(1..Len(sess))]
      /\ saved \subseteq [modal : 1..MaxModals, text : Seq(1..Len(sess))]
      /\ PayloadOfModal /\ TranscriptMatchesView
  BY DEF ModalInv, ModalTypes
<1>t. diagnoseView.text \in Seq(1..Len(sess')) /\ recorder.text \in Seq(1..Len(sess'))
  <2>1. diagnoseView.text \in Seq(1..Len(sess)) /\ recorder.text \in Seq(1..Len(sess))
    BY <1>0
  <2> QED
    BY <1>s, <2>1, TextsKept
<1>k. /\ diagnoseView \in [modal : 0..MaxModals, state : {"streaming", "done", "error"},
                           text : Seq(1..Len(sess')), ended : SUBSET (1..MaxModals)]
      /\ recorder \in [modal : 0..MaxModals, payload : BOOLEAN, text : Seq(1..Len(sess'))]
  BY <1>0, <1>t
<1>w. saved \subseteq [modal : 1..MaxModals, text : Seq(1..Len(sess'))]
  <2> SUFFICES ASSUME NEW t \in saved PROVE t \in [modal : 1..MaxModals, text : Seq(1..Len(sess'))]
    OBVIOUS
  <2>1. t \in [modal : 1..MaxModals, text : Seq(1..Len(sess))]
    BY <1>0
  <2>2. t.text \in Seq(1..Len(sess'))
    BY <1>s, <2>1, TextsKept
  <2> QED
    BY <2>1, <2>2
<1>1. ASSUME UNCHANGED modalVars PROVE ModalInv'
  <2>1. ModalTypes'
    BY <1>1, <1>k, <1>w DEF ModalTypes
  <2> QED
    BY <1>0, <1>1, <2>1 DEF ModalInv, PayloadOfModal, TranscriptMatchesView
<1>2. ASSUME NEW input, NEW from, OpenModal(input, from) PROVE ModalInv'
  <2>1. /\ modals + 1 \in 0..MaxModals
        /\ recorder' = [modal |-> modals + 1, payload |-> FALSE, text |-> <<>>]
        /\ \E st \in {"streaming", "error"} :
             \E ended \in SUBSET (1..MaxModals) :
               diagnoseView' = [modal |-> modals + 1, state |-> st, text |-> <<>>, ended |-> ended]
        /\ saved' = saved
    <3>1. modals < MaxModals /\ NewRecorder /\ saved' = saved
          /\ diagnoseView' = IF AIConfigured THEN NewDiagnoseView(modals + 1)
                             ELSE Mark(NewDiagnoseView(modals + 1), "error", modals + 1)
      BY <1>2 DEF OpenModal
    <3>2. Mark(NewDiagnoseView(modals + 1), "error", modals + 1)
            = [modal |-> modals + 1, state |-> "error", text |-> <<>>, ended |-> {modals + 1}]
      <4> DEFINE view == NewDiagnoseView(modals + 1)
      <4>1. /\ view = [modal |-> modals + 1, state |-> "streaming", text |-> <<>>, ended |-> {}]
            /\ view.ended \union {modals + 1} = {modals + 1}
        BY DEF NewDiagnoseView
      <4>2. Mark(view, "error", modals + 1)
              = [view EXCEPT !.state = "error", !.ended = view.ended \union {modals + 1}]
        BY <4>1 DEF Mark
      <4> HIDE DEF view
      <4>3. Mark(view, "error", modals + 1) = [view EXCEPT !.state = "error", !.ended = {modals + 1}]
        BY <4>1, <4>2
      <4>4. Mark(view, "error", modals + 1)
              = [modal |-> modals + 1, state |-> "error", text |-> <<>>, ended |-> {modals + 1}]
        BY <4>1, <4>3
      <4> QED
        BY <4>4 DEF view
    <3>3. modals + 1 \in 0..MaxModals /\ {modals + 1} \subseteq 1..MaxModals
      BY <1>s, <3>1, BoundsAssumption
    <3> QED
      BY <3>1, <3>2, <3>3 DEF NewDiagnoseView, NewRecorder, New
  <2>2. ModalTypes'
    BY <1>s, <1>w, <2>1 DEF ModalTypes
  <2> QED
    BY <2>1, <2>2 DEF ModalInv, PayloadOfModal, TranscriptMatchesView
<1>3. ASSUME NEW n \in 1..MaxModals, recorder' = SetPayload(recorder, n),
             UNCHANGED <<diagnoseView, saved>>
      PROVE  ModalInv'
  <2>1. CASE recorder.modal = n
    <3>1. recorder' = [recorder EXCEPT !.payload = TRUE]
      BY <1>3, <2>1 DEF SetPayload
    <3>2. recorder' \in [modal : 0..MaxModals, payload : BOOLEAN, text : Seq(1..Len(sess'))]
          /\ recorder'.modal = recorder.modal /\ recorder'.text = recorder.text
      BY <1>k, <3>1
    <3>3. ModalTypes'
      BY <1>3, <1>k, <1>w, <3>2 DEF ModalTypes
    <3> QED
      BY <1>0, <1>3, <2>1, <3>2, <3>3 DEF ModalInv, PayloadOfModal, TranscriptMatchesView
  <2>2. CASE recorder.modal # n
    BY <1>1, <1>3, <2>2 DEF SetPayload
  <2> QED
    BY <2>1, <2>2
<1>4. ASSUME NEW n, StartSession(n) \/ OverBudget(n) PROVE ModalInv'
  <2>1. [run |-> "start", modal |-> n] \in BagToSet(cmds)
    BY <1>4, ReturnElements DEF StartSession, OverBudget
  <2>2. n \in 1..MaxModals
    BY <1>s, <2>1, BoundsAssumption DEF CmdInv, InFlight
  <2> QED
    BY <1>3, <1>4, <2>2 DEF StartSession, OverBudget
<1>5. ASSUME NEW ch, Text(ch) PROVE ModalInv'
  <2>1. [msg |-> "text", ch |-> ch] \in BagToSet(msgs)
    BY <1>5, HandleElements DEF Text
  <2>2. ch \in 1..Len(sess')
    BY <1>s, <2>1 DEF MsgInv, OnItsWay
  <2>3. /\ diagnoseView' = [diagnoseView EXCEPT !.text = Append(@, ch)]
        /\ recorder' = [recorder EXCEPT !.text = Append(@, ch)] /\ saved' = saved
    BY <1>5 DEF Text, AppendText, AppendDelta
  <2>4. Append(diagnoseView.text, ch) \in Seq(1..Len(sess'))
        /\ Append(recorder.text, ch) \in Seq(1..Len(sess'))
    BY <1>t, <2>2
  <2>5. /\ diagnoseView' \in [modal : 0..MaxModals, state : {"streaming", "done", "error"},
                              text : Seq(1..Len(sess')), ended : SUBSET (1..MaxModals)]
        /\ diagnoseView'.modal = diagnoseView.modal
        /\ diagnoseView'.text = Append(diagnoseView.text, ch)
    BY <1>k, <2>3, <2>4
  <2>6. /\ recorder' \in [modal : 0..MaxModals, payload : BOOLEAN, text : Seq(1..Len(sess'))]
        /\ recorder'.modal = recorder.modal /\ recorder'.text = Append(recorder.text, ch)
        /\ recorder'.payload = recorder.payload
    BY <1>k, <2>3, <2>4
  <2>7. ModalTypes'
    BY <1>w, <2>3, <2>5, <2>6 DEF ModalTypes
  <2> QED
    BY <1>0, <2>5, <2>6, <2>7 DEF ModalInv, PayloadOfModal, TranscriptMatchesView
<1>6. ASSUME NEW what \in {"done", "error"}, NEW n, Finished(what, n) PROVE ModalInv'
  <2>1. /\ diagnoseView' = [diagnoseView EXCEPT !.state = what, !.ended = @ \union {n}]
        /\ recorder' = recorder /\ saved' = Save(recorder)
    BY <1>6 DEF Finished, Mark, Saved
  <2>2. n \in 1..MaxModals
    <3>1. [msg |-> what, modal |-> n] \in BagToSet(msgs)
      BY <1>6, HandleElements DEF Finished
    <3> QED
      BY <3>1 DEF MsgInv, OnItsWay
  <2>3. diagnoseView.ended \union {n} \subseteq 1..MaxModals
    BY <1>k, <2>2
  <2>4. /\ diagnoseView' \in [modal : 0..MaxModals, state : {"streaming", "done", "error"},
                              text : Seq(1..Len(sess')), ended : SUBSET (1..MaxModals)]
        /\ diagnoseView'.modal = diagnoseView.modal /\ diagnoseView'.text = diagnoseView.text
    BY <1>6, <1>k, <2>1, <2>3
  <2>5. saved' \subseteq [modal : 1..MaxModals, text : Seq(1..Len(sess'))]
    <3>1. recorder.payload
            => [modal |-> recorder.modal, text |-> recorder.text]
                 \in [modal : 1..MaxModals, text : Seq(1..Len(sess'))]
      BY <1>0, <1>t DEF PayloadOfModal
    <3> QED
      BY <1>w, <2>1, <3>1 DEF Save
  <2>6. ModalTypes'
    BY <1>k, <2>1, <2>4, <2>5 DEF ModalTypes
  <2> QED
    BY <1>0, <2>1, <2>4, <2>6 DEF ModalInv, PayloadOfModal, TranscriptMatchesView
<1>14. CASE Key
  <2>1. CASE OpenCmdbar \/ EscCmdbar \/ CloseLogs \/ CloseDescribe \/ ToggleYAML
             \/ HelpCommand \/ CloseHelp
    BY <1>1, <2>1 DEF OpenCmdbar, EscCmdbar, CloseLogs, CloseDescribe, ToggleYAML,
                      HelpCommand, CloseHelp, diagnoseVars, transcriptVars
  <2>2. CASE CloseDiagnose
    BY <1>1, <2>2 DEF CloseDiagnose, transcriptVars
  <2>3. ASSUME NEW n \in Namespaces, NamespaceCommand(n) PROVE UNCHANGED modalVars
    BY <2>3 DEF NamespaceCommand, diagnoseVars, transcriptVars
  <2>4. ASSUME NEW n \in Names, OpenLogs(n) \/ OpenDescribe(n) PROVE UNCHANGED modalVars
    BY <2>4 DEF OpenLogs, OpenDescribe, diagnoseVars, transcriptVars
  <2>5. ASSUME NEW n \in Names, OpenDiagnose(n) PROVE ModalInv'
    BY <1>2, <2>5 DEF OpenDiagnose
  <2>6. CASE OpenDiagnoseForLog
    BY <1>2, <2>6 DEF OpenDiagnoseForLog
  <2>7. ASSUME NEW k, NEW input, SwitchToResource(input, k) PROVE UNCHANGED modalVars
    BY <2>7 DEF SwitchToResource, diagnoseVars, transcriptVars
  <2>8. ASSUME NEW k \in Kinds, KindCommand(k) PROVE UNCHANGED modalVars
    BY <2>7, <2>8 DEF KindCommand
  <2>9. CASE EscHome
    BY <1>1, <2>7, <2>9 DEF EscHome
  <2> QED
    BY <1>1, <1>14, <2>1, <2>2, <2>3, <2>4, <2>5, <2>6, <2>8, <2>9 DEF Key
<1>15. CASE Update
  <2>1. CASE HomeFailed \/ LogsEnd
    BY <1>1, <2>1 DEF HomeFailed, LogsEnd, diagnoseVars, transcriptVars
  <2>2. ASSUME NEW x, LogsBatch(x) \/ Described(x) \/ StreamEnd(x) PROVE UNCHANGED modalVars
    BY <2>2 DEF LogsBatch, Described, StreamEnd, diagnoseVars, transcriptVars
  <2>3. ASSUME NEW x, NEW y, HomeReady(x, y) PROVE UNCHANGED modalVars
    BY <2>3 DEF HomeReady, diagnoseVars, transcriptVars
  <2>4. ASSUME NEW x, NEW y, NEW z, Snapshot(x, y, z) PROVE UNCHANGED modalVars
    BY <2>4 DEF Snapshot, diagnoseVars, transcriptVars
  <2>5. ASSUME NEW x, NamespaceChanged(x) \/ Started(x) PROVE UNCHANGED modalVars
    BY <2>5 DEF NamespaceChanged, Started, transcriptVars
  <2> QED
    BY <1>1, <1>5, <1>6, <1>15, <2>1, <2>2, <2>3, <2>4, <2>5 DEF Update
<1>16. CASE Command
  <2>1. ASSUME NEW x, PumpBatch(x) \/ PumpLogsEnd(x) \/ PumpClosed(x) \/ DescribeReturns(x)
        PROVE  UNCHANGED modalVars
    BY <2>1 DEF PumpBatch, PumpLogsEnd, PumpClosed, DescribeReturns, diagnoseVars, transcriptVars
  <2>2. ASSUME NEW x, NEW y, PumpSnapshot(x, y) \/ PumpStreamEnd(x, y) PROVE UNCHANGED modalVars
    BY <2>2 DEF PumpSnapshot, PumpStreamEnd, diagnoseVars, transcriptVars
  <2>3. CASE HomeSwitched
    BY <1>1, <2>3 DEF HomeSwitched, diagnoseVars, transcriptVars
  <2>4. ASSUME NEW x, PumpEvent(x) PROVE UNCHANGED modalVars
    BY <2>4 DEF PumpEvent, transcriptVars
  <2> QED
    BY <1>1, <1>4, <1>16, <2>1, <2>2, <2>3, <2>4 DEF Command
<1>17. CASE Source
  <2>1. ASSUME NEW x, ListerEmits(x) \/ StreamerSends(x) \/ StreamerEnds(x)
        PROVE  UNCHANGED modalVars
    BY <2>1 DEF ListerEmits, StreamerSends, StreamerEnds, diagnoseVars, transcriptVars
  <2>2. ASSUME NEW x, SessionEmits(x) \/ SessionEnds(x) PROVE UNCHANGED modalVars
    BY <2>2 DEF SessionEmits, SessionEnds, transcriptVars
  <2> QED
    BY <1>1, <1>17, <2>1, <2>2 DEF Source
<1>18. CASE UNCHANGED vars
  BY <1>1, <1>18 DEF vars, diagnoseVars, transcriptVars
<1> QED
  BY <1>14, <1>15, <1>16, <1>17, <1>18 DEF Next

-----------------------------------------------------------------------------
(* The screen.                                                             *)

\* Every step keeps the views' types.
LEMMA ScreenStep == IInv /\ [Next]_vars => ScreenTypes'
<1> SUFFICES ASSUME IInv, [Next]_vars PROVE ScreenTypes'
  OBVIOUS
<1> USE DEF IInv, ScreenTypes, Views
<1>1. CASE Key
  <2>1. CASE OpenCmdbar \/ EscCmdbar \/ CloseLogs \/ CloseDescribe \/ ToggleYAML
             \/ HelpCommand \/ CloseHelp
    BY <2>1 DEF OpenCmdbar, EscCmdbar, CloseLogs, CloseDescribe, ToggleYAML, HelpCommand, CloseHelp,
                diagnoseVars, screenVars
  <2>2. CASE CloseDiagnose
    BY <2>2 DEF CloseDiagnose
  <2>3. ASSUME NEW n \in Namespaces, NamespaceCommand(n) PROVE ScreenTypes'
    BY <2>3 DEF NamespaceCommand, diagnoseVars
  <2>4. ASSUME NEW n \in Names, OpenLogs(n) \/ OpenDescribe(n) PROVE ScreenTypes'
    BY <2>4 DEF OpenLogs, OpenDescribe, diagnoseVars
  <2>5. ASSUME NEW n \in Names, OpenDiagnose(n) PROVE ScreenTypes'
    BY <2>5 DEF OpenDiagnose, OpenModal
  <2>6. CASE OpenDiagnoseForLog
    BY <2>6 DEF OpenDiagnoseForLog, OpenModal
  <2>7. ASSUME NEW k, NEW input, SwitchToResource(input, k), UNCHANGED helpPrev PROVE ScreenTypes'
    BY <2>7 DEF SwitchToResource, Mount, DropModals, diagnoseVars
  <2>8. ASSUME NEW k \in Kinds, KindCommand(k) PROVE ScreenTypes'
    BY <2>7, <2>8 DEF KindCommand
  <2>9. CASE EscHome
    BY <2>7, <2>9 DEF EscHome
  <2> QED
    BY <1>1, <2>1, <2>2, <2>3, <2>4, <2>5, <2>6, <2>8, <2>9 DEF Key
<1>2. CASE Update
  <2>1. CASE HomeFailed \/ LogsEnd
    BY <2>1 DEF HomeFailed, LogsEnd, screenVars, diagnoseVars
  <2>2. ASSUME NEW x, LogsBatch(x) \/ Described(x) \/ StreamEnd(x) \/ Started(x) \/ Text(x)
        PROVE  UNCHANGED <<screenVars, origin>>
    BY <2>2 DEF LogsBatch, Described, StreamEnd, Started, Text, diagnoseVars
  <2>3. ASSUME NEW x, NEW y, HomeReady(x, y) \/ Finished(x, y)
        PROVE  UNCHANGED <<screenVars, origin>>
    BY <2>3 DEF HomeReady, Finished, diagnoseVars
  <2>4. ASSUME NEW x, NEW y, NEW z, Snapshot(x, y, z) PROVE UNCHANGED <<screenVars, origin>>
    BY <2>4 DEF Snapshot, diagnoseVars
  <2>5. ASSUME NEW x, NamespaceChanged(x) PROVE ScreenTypes'
    BY <2>5 DEF NamespaceChanged, Mount
  <2>6. ASSUME UNCHANGED <<screenVars, origin>> PROVE ScreenTypes'
    BY <2>6 DEF screenVars
  <2> QED
    BY <1>2, <2>1, <2>2, <2>3, <2>4, <2>5, <2>6 DEF Update
<1>3. ASSUME Command \/ Source \/ UNCHANGED vars PROVE UNCHANGED <<screenVars, origin>>
  <2>1. ASSUME NEW x, \/ PumpBatch(x) \/ PumpLogsEnd(x) \/ PumpClosed(x) \/ DescribeReturns(x)
                      \/ PumpEvent(x) \/ StartSession(x) \/ OverBudget(x)
        PROVE  UNCHANGED <<screenVars, origin>>
    BY <2>1 DEF PumpBatch, PumpLogsEnd, PumpClosed, DescribeReturns, PumpEvent, StartSession,
                OverBudget, diagnoseVars
  <2>2. ASSUME NEW x, NEW y, PumpSnapshot(x, y) \/ PumpStreamEnd(x, y)
        PROVE  UNCHANGED <<screenVars, origin>>
    BY <2>2 DEF PumpSnapshot, PumpStreamEnd, diagnoseVars
  <2>3. CASE HomeSwitched
    BY <2>3 DEF HomeSwitched, diagnoseVars
  <2>4. ASSUME NEW x, \/ ListerEmits(x) \/ StreamerSends(x) \/ StreamerEnds(x) \/ SessionEmits(x)
                      \/ SessionEnds(x)
        PROVE  UNCHANGED <<screenVars, origin>>
    BY <2>4 DEF ListerEmits, StreamerSends, StreamerEnds, SessionEmits, SessionEnds, diagnoseVars
  <2>5. CASE UNCHANGED vars
    BY <2>5 DEF vars, diagnoseVars
  <2> QED
    BY <1>3, <2>1, <2>2, <2>3, <2>4, <2>5 DEF Command, Source
<1> QED
  BY <1>1, <1>2, <1>3 DEF Next, screenVars

\* Every step keeps the description's types.
LEMMA DescribeStep == IInv /\ [Next]_vars => DescribeTypes'
<1> SUFFICES ASSUME IInv, [Next]_vars PROVE DescribeTypes'
  OBVIOUS
<1> USE DEF IInv, DescribeTypes
<1>0. ASSUME UNCHANGED describeView PROVE DescribeTypes'
  BY <1>0
<1>1. CASE Key
  <2>1. CASE OpenCmdbar \/ EscCmdbar \/ CloseLogs \/ CloseDescribe \/ HelpCommand \/ CloseHelp
             \/ CloseDiagnose \/ EscHome \/ OpenDiagnoseForLog
    BY <2>1 DEF OpenCmdbar, EscCmdbar, CloseLogs, CloseDescribe, HelpCommand, CloseHelp,
                CloseDiagnose, EscHome, OpenDiagnoseForLog, OpenModal
  <2>2. CASE ToggleYAML
    BY <2>2 DEF ToggleYAML, ToggleMode
  <2>3. ASSUME NEW n \in Names, OpenDescribe(n) PROVE DescribeTypes'
    BY <2>3 DEF OpenDescribe, NewDescribeView
  <2>4. ASSUME NEW x, KindCommand(x) \/ NamespaceCommand(x) \/ OpenLogs(x) \/ OpenDiagnose(x)
        PROVE  UNCHANGED describeView
    BY <2>4 DEF KindCommand, NamespaceCommand, OpenLogs, OpenDiagnose, OpenModal
  <2> QED
    BY <1>0, <1>1, <2>1, <2>2, <2>3, <2>4 DEF Key
<1>2. CASE Update
  <2>1. CASE HomeFailed \/ LogsEnd
    BY <2>1 DEF HomeFailed, LogsEnd
  <2>2. ASSUME NEW x, \/ StreamEnd(x) \/ Started(x) \/ Text(x) \/ LogsBatch(x)
                      \/ NamespaceChanged(x)
        PROVE  UNCHANGED describeView
    BY <2>2 DEF StreamEnd, Started, Text, LogsBatch, NamespaceChanged
  <2>3. ASSUME NEW x, NEW y, HomeReady(x, y) \/ Finished(x, y) PROVE UNCHANGED describeView
    BY <2>3 DEF HomeReady, Finished
  <2>4. ASSUME NEW x, NEW y, NEW z, Snapshot(x, y, z) PROVE UNCHANGED describeView
    BY <2>4 DEF Snapshot
  <2>5. ASSUME NEW x, Described(x) PROVE DescribeTypes'
    <3>1. [msg |-> "described", text |-> x] \in BagToSet(msgs)
      BY <2>5, HandleElements DEF Described
    <3>2. x \in Names \union {None}
      BY <3>1 DEF MsgInv, OnItsWay
    <3> QED
      BY <2>5, <3>2 DEF Described, MarkError, SetDescribe
  <2> QED
    BY <1>0, <1>2, <2>1, <2>2, <2>3, <2>4, <2>5 DEF Update
<1>3. ASSUME Command \/ Source \/ UNCHANGED vars PROVE UNCHANGED describeView
  <2>1. ASSUME NEW x, \/ PumpBatch(x) \/ PumpLogsEnd(x) \/ PumpClosed(x) \/ DescribeReturns(x)
                      \/ PumpEvent(x) \/ StartSession(x) \/ OverBudget(x)
        PROVE  UNCHANGED describeView
    BY <2>1 DEF PumpBatch, PumpLogsEnd, PumpClosed, DescribeReturns, PumpEvent, StartSession,
                OverBudget
  <2>2. ASSUME NEW x, NEW y, PumpSnapshot(x, y) \/ PumpStreamEnd(x, y) PROVE UNCHANGED describeView
    BY <2>2 DEF PumpSnapshot, PumpStreamEnd
  <2>3. CASE HomeSwitched
    BY <2>3 DEF HomeSwitched
  <2>4. ASSUME NEW x, \/ ListerEmits(x) \/ StreamerSends(x) \/ StreamerEnds(x) \/ SessionEmits(x)
                      \/ SessionEnds(x)
        PROVE  UNCHANGED describeView
    BY <2>4 DEF ListerEmits, StreamerSends, StreamerEnds, SessionEmits, SessionEnds
  <2>5. CASE UNCHANGED vars
    BY <2>5 DEF vars
  <2> QED
    BY <1>3, <2>1, <2>2, <2>3, <2>4, <2>5 DEF Command, Source
<1> QED
  BY <1>0, <1>1, <1>2, <1>3 DEF Next

-----------------------------------------------------------------------------
(* Commands in flight and messages on their way.                           *)

\* What a pump that is started carries.
LEMMA PumpElements ==
  /\ \A c, ch : \A x \in BagToSet(Pump(c, ch)) : ch # 0 /\ x = [run |-> c, ch |-> ch]
  /\ \A ch, k : \A x \in BagToSet(ResourcePump(ch, k)) :
       ch # 0 /\ x = [run |-> "resource", ch |-> ch, kind |-> k]
BY BagElements DEF Pump, ResourcePump

\* Lengths and counts, before and after a step.
LEMMA Lengths ==
  IInv /\ [Next]_vars =>
    /\ StreamsKept /\ Len(logs) <= Len(logs') /\ SessionsKept
    /\ Len(res) \in Nat /\ Len(res') \in Nat /\ Len(logs) \in Nat /\ Len(logs') \in Nat
    /\ Len(sess) \in Nat /\ Len(sess') \in Nat /\ modals \in Nat /\ modals' \in Nat
<1> SUFFICES ASSUME IInv, [Next]_vars
             PROVE  /\ StreamsKept /\ Len(logs) <= Len(logs') /\ SessionsKept
                    /\ Len(res) \in Nat /\ Len(res') \in Nat /\ Len(logs) \in Nat /\ Len(logs') \in Nat
                    /\ Len(sess) \in Nat /\ Len(sess') \in Nat /\ modals \in Nat /\ modals' \in Nat
  OBVIOUS
<1>1. ResourceInv' /\ StreamsKept /\ LogInv' /\ Len(logs) <= Len(logs') /\ SessionInv' /\ SessionsKept
  BY ResourceStep, LogStep, SessionStep
<1>2. Len(res) \in Nat /\ Len(res') \in Nat
  BY <1>1 DEF IInv, ResourceInv, ResourceTypes
<1>3. Len(logs) \in Nat /\ Len(logs') \in Nat
  BY <1>1 DEF IInv, LogInv, LogTypes
<1>4. Len(sess) \in Nat /\ Len(sess') \in Nat /\ modals \in Nat /\ modals' \in Nat
  BY <1>1, BoundsAssumption DEF IInv, SessionInv, SessionTypes
<1> QED
  BY <1>1, <1>2, <1>3, <1>4

\* What was true of them stays so.
LEMMA FlightKept ==
  IInv /\ [Next]_vars =>
    /\ \A c : InFlight(c) => InFlight(c)'
    /\ \A m : OnItsWay(m) => OnItsWay(m)'
<1> SUFFICES ASSUME IInv, [Next]_vars
             PROVE  /\ \A c : InFlight(c) => InFlight(c)'
                    /\ \A m : OnItsWay(m) => OnItsWay(m)'
  OBVIOUS
<1>1. /\ StreamsKept /\ Len(logs) <= Len(logs') /\ SessionsKept
      /\ Len(res) \in Nat /\ Len(res') \in Nat /\ Len(logs) \in Nat /\ Len(logs') \in Nat
      /\ Len(sess) \in Nat /\ Len(sess') \in Nat /\ modals \in Nat /\ modals' \in Nat
  BY Lengths
<1>2. ASSUME NEW c, InFlight(c) PROVE InFlight(c)'
  BY <1>1, <1>2 DEF InFlight, StreamsKept, SessionsKept
<1>3. ASSUME NEW m, OnItsWay(m) PROVE OnItsWay(m)'
  BY <1>1, <1>3 DEF OnItsWay, StreamsKept, SessionsKept
<1> QED
  BY <1>2, <1>3

\* The steps that change neither.
LEMMA FlightSame == IInv /\ [Next]_vars /\ UNCHANGED <<cmds, msgs>> => CmdInv' /\ MsgInv'
BY FlightKept DEF IInv, CmdInv, MsgInv

\* A key that starts the commands of a set.
LEMMA PressKeeps ==
  ASSUME IInv, [Next]_vars, NEW input, NEW started, Press(input, started),
         \A c \in BagToSet(started) : InFlight(c)'
  PROVE  CmdInv' /\ MsgInv'
<1>1. msgs' = msgs /\ BagToSet(cmds') = BagToSet(cmds) \union BagToSet(started)
  BY PressElements
<1>2. CmdInv'
  BY <1>1, FlightKept DEF IInv, CmdInv
<1>3. MsgInv'
  BY <1>1, FlightKept DEF IInv, MsgInv
<1> QED
  BY <1>2, <1>3

\* A message that is handled, likewise.
LEMMA HandleKeeps ==
  ASSUME IInv, [Next]_vars, NEW m, NEW started, Handle(m, started),
         \A c \in BagToSet(started) : InFlight(c)'
  PROVE  CmdInv' /\ MsgInv'
<1>1. BagToSet(msgs') \subseteq BagToSet(msgs)
      /\ BagToSet(cmds') = BagToSet(cmds) \union BagToSet(started)
  BY HandleElements
<1>2. CmdInv'
  BY <1>1, FlightKept DEF IInv, CmdInv
<1>3. MsgInv'
  BY <1>1, FlightKept DEF IInv, MsgInv
<1> QED
  BY <1>2, <1>3

\* A command that returns a message in order.
LEMMA ReturnKeeps ==
  ASSUME IInv, [Next]_vars, NEW c, NEW m, Return(c, m), OnItsWay(m)'
  PROVE  CmdInv' /\ MsgInv'
<1>1. BagToSet(cmds') \subseteq BagToSet(cmds) /\ BagToSet(msgs') = BagToSet(msgs) \union {m}
  BY ReturnElements
<1>2. CmdInv'
  BY <1>1, FlightKept DEF IInv, CmdInv
<1>3. MsgInv'
  BY <1>1, FlightKept DEF IInv, MsgInv
<1> QED
  BY <1>2, <1>3

\* A stream that was opened is the last one, of its kind.
LEMMA OpenedLast ==
  ASSUME IInv, NEW k \in Kinds, NEW n \in Namespaces, SwitchOpens(k, n)
  PROVE  Len(res) + 1 \in 1..Len(res') /\ res'[Len(res) + 1].kind = k
<1>1. ResourceTypes /\ ServiceOwnsLive /\ Len(res) \in Nat
  BY DEF IInv, ResourceInv, ResourceTypes
<1>2. Len(res') = Len(res) + 1 /\ res'[Len(res) + 1].kind = k
  BY <1>1, SwitchOpened
<1> QED
  BY <1>1, <1>2

\* Every step keeps what is in flight and on its way.
LEMMA FlightStep == IInv /\ [Next]_vars => CmdInv' /\ MsgInv'
<1> SUFFICES ASSUME IInv, [Next]_vars PROVE CmdInv' /\ MsgInv'
  OBVIOUS
<1>0. /\ namespace \in Namespaces /\ resourceKind \in Kinds /\ HomeKind \in Kinds
      /\ HomeNamespace \in Namespaces
      /\ Len(res) \in Nat /\ Len(res') \in Nat /\ Len(logs) \in Nat /\ Len(logs') \in Nat
      /\ Len(sess) \in Nat /\ Len(sess') \in Nat /\ modals \in Nat /\ modals' \in Nat
      /\ StreamsKept /\ Len(logs) <= Len(logs') /\ SessionsKept
      /\ resourceCh \in 0..Len(res) /\ (resourceCh # 0 => res[resourceCh].kind = resourceKind)
      /\ logsCh \in 0..Len(logs) /\ diagnoseCh \in 0..Len(sess)
  <2>1. /\ namespace \in Namespaces /\ resourceKind \in Kinds /\ resourceCh \in 0..Len(res)
        /\ (resourceCh # 0 => res[resourceCh].kind = resourceKind)
    BY DEF IInv, ResourceInv, ResourceTypes, ShownKind
  <2>2. logsCh \in 0..Len(logs) /\ diagnoseCh \in 0..Len(sess)
    BY DEF IInv, LogInv, LogTypes, SessionInv, SessionTypes
  <2> QED
    BY <2>1, <2>2, Lengths, KindsAssumption
<1>e. \A c \in BagToSet(EmptyBag) : InFlight(c)'
  BY BagElements
<1>k. \A c : InFlight(c) => InFlight(c)'
  BY FlightKept
<1>1. ASSUME NEW k \in Kinds, NEW input, SwitchToResource(input, k) PROVE CmdInv' /\ MsgInv'
  <2>1. CASE Mount(k, namespace) /\ Press(input, ResourcePump(Len(res) + 1, k))
    <3>1. Len(res) + 1 \in 1..Len(res') /\ res'[Len(res) + 1].kind = k
      BY <1>0, <2>1, OpenedLast DEF Mount
    <3>2. \A c \in BagToSet(ResourcePump(Len(res) + 1, k)) : InFlight(c)'
      BY <3>1, PumpElements DEF InFlight
    <3> QED
      BY <2>1, <3>2, PressKeeps
  <2>2. CASE Press(input, EmptyBag)
    BY <1>e, <2>2, PressKeeps
  <2> QED
    BY <1>1, <2>1, <2>2 DEF SwitchToResource
<1>2. ASSUME NEW input, NEW from, OpenModal(input, from) PROVE CmdInv' /\ MsgInv'
  <2>1. CASE Press(input, One([run |-> "start", modal |-> modals + 1]))
    <3>1. modals' = modals + 1
      BY <1>2 DEF OpenModal
    <3>2. \A c \in BagToSet(One([run |-> "start", modal |-> modals + 1])) : InFlight(c)'
      BY <1>0, <3>1, BagElements DEF InFlight
    <3> QED
      BY <2>1, <3>2, PressKeeps
  <2>2. CASE Press(input, EmptyBag)
    BY <1>e, <2>2, PressKeeps
  <2> QED
    BY <1>2, <2>1, <2>2 DEF OpenModal
<1>3. CASE Key
  <2>1. CASE OpenCmdbar \/ EscCmdbar \/ CloseLogs \/ CloseDescribe \/ ToggleYAML \/ CloseHelp
             \/ CloseDiagnose
    BY <2>1, FlightSame DEF OpenCmdbar, EscCmdbar, CloseLogs, CloseDescribe, ToggleYAML, CloseHelp,
                            CloseDiagnose
  <2>2. CASE HelpCommand
    BY <1>e, <2>2, PressKeeps DEF HelpCommand
  <2>3. ASSUME NEW n \in Namespaces, NamespaceCommand(n) PROVE CmdInv' /\ MsgInv'
    <3>1. cmds' = cmds /\ BagToSet(msgs') = BagToSet(msgs) \union {[msg |-> "ns", ns |-> n]}
      BY <2>3, BagElements DEF NamespaceCommand
    <3>2. OnItsWay([msg |-> "ns", ns |-> n])'
      BY DEF OnItsWay
    <3>3. MsgInv'
      BY <3>1, <3>2, FlightKept DEF IInv, MsgInv
    <3>4. CmdInv'
      BY <1>k, <3>1 DEF IInv, CmdInv
    <3> QED
      BY <3>3, <3>4
  <2>4. ASSUME NEW n \in Names, OpenLogs(n) PROVE CmdInv' /\ MsgInv'
    <3>1. CASE Press("logs", Pump("logs", Len(logs) + 1)) /\ logs' = Append(LogsCancelled,
                 [pod |-> n, cancelled |-> FALSE, done |-> FALSE, produced |-> 0, unread |-> 0])
      <4>1. Len(logs') = Len(logs) + 1
        BY <3>1, AllCancelled DEF IInv
      <4>2. \A c \in BagToSet(Pump("logs", Len(logs) + 1)) : InFlight(c)'
        BY <1>0, <4>1, PumpElements DEF InFlight
      <4> QED
        BY <3>1, <4>2, PressKeeps
    <3>2. CASE Press("logs", EmptyBag)
      BY <1>e, <3>2, PressKeeps
    <3> QED
      BY <2>4, <3>1, <3>2 DEF OpenLogs
  <2>5. ASSUME NEW n \in Names, OpenDescribe(n) PROVE CmdInv' /\ MsgInv'
    <3>1. \A c \in BagToSet(One([run |-> "describe", name |-> n])) : InFlight(c)'
      BY BagElements DEF InFlight
    <3> QED
      BY <2>5, <3>1, PressKeeps DEF OpenDescribe
  <2>6. ASSUME NEW n \in Names, OpenDiagnose(n) PROVE CmdInv' /\ MsgInv'
    BY <1>2, <2>6 DEF OpenDiagnose
  <2>7. CASE OpenDiagnoseForLog
    BY <1>2, <2>7 DEF OpenDiagnoseForLog
  <2>8. ASSUME NEW k \in Kinds, KindCommand(k) PROVE CmdInv' /\ MsgInv'
    BY <1>1, <2>8 DEF KindCommand
  <2>9. CASE EscHome
    BY <1>0, <1>1, <2>9 DEF EscHome
  <2> QED
    BY <1>3, <2>1, <2>2, <2>3, <2>4, <2>5, <2>6, <2>7, <2>8, <2>9 DEF Key
<1>4. CASE Update
  <2>1. CASE HomeFailed \/ LogsEnd
    BY <1>e, <2>1, HandleKeeps DEF HomeFailed, LogsEnd
  <2>2. ASSUME NEW x, NEW y, Described(x) \/ StreamEnd(x) \/ Finished(x, y)
        PROVE  CmdInv' /\ MsgInv'
    BY <1>e, <2>2, HandleKeeps DEF Described, StreamEnd, Finished
  <2>3. ASSUME NEW x, LogsBatch(x) PROVE CmdInv' /\ MsgInv'
    <3>1. \A c \in BagToSet(Pump("logs", logsCh)) : InFlight(c)'
      BY <1>0, <1>k, PumpElements DEF InFlight
    <3> QED
      BY <2>3, <3>1, HandleKeeps DEF LogsBatch
  <2>4. ASSUME NEW x, Text(x) PROVE CmdInv' /\ MsgInv'
    <3>1. \A c \in BagToSet(Pump("diagnose", diagnoseCh)) : InFlight(c)'
      BY <1>0, PumpElements DEF InFlight, SessionsKept
    <3> QED
      BY <2>4, <3>1, HandleKeeps DEF Text
  <2>5. ASSUME NEW x, Started(x) PROVE CmdInv' /\ MsgInv'
    <3>1. x \in 1..Len(sess)
      <4>1. [msg |-> "started", ch |-> x] \in BagToSet(msgs)
        BY <2>5, HandleElements DEF Started
      <4> QED
        BY <4>1 DEF IInv, MsgInv, OnItsWay
    <3>2. \A c \in BagToSet(Pump("diagnose", x)) : InFlight(c)'
      BY <1>0, <3>1, PumpElements DEF InFlight, SessionsKept
    <3> QED
      BY <2>5, <3>2, HandleKeeps DEF Started
  <2>6. ASSUME NEW k, NEW ch, HomeReady(k, ch) PROVE CmdInv' /\ MsgInv'
    <3>1. ch \in 1..Len(res) /\ res[ch].kind = k
      <4>1. [msg |-> "homeReady", kind |-> k, ch |-> ch] \in BagToSet(msgs)
        BY <2>6, HandleElements DEF HomeReady
      <4> QED
        BY <4>1 DEF IInv, MsgInv, OnItsWay
    <3>2. \A c \in BagToSet(IF k = resourceKind THEN ResourcePump(ch, k) ELSE EmptyBag) : InFlight(c)'
      <4>1. \A c \in BagToSet(ResourcePump(ch, k)) : InFlight(c)'
        BY <1>0, <3>1, PumpElements DEF InFlight, StreamsKept
      <4> QED
        BY <1>e, <4>1
    <3> QED
      BY <2>6, <3>2, HandleKeeps DEF HomeReady
  <2>7. ASSUME NEW k, NEW ch, NEW v, Snapshot(k, ch, v) PROVE CmdInv' /\ MsgInv'
    <3>1. \A c \in BagToSet(ResourcePump(resourceCh, resourceKind)) : InFlight(c)'
      BY <1>0, PumpElements DEF InFlight, StreamsKept
    <3>2. \A c \in BagToSet(IF SameKind(k) THEN ResourcePump(resourceCh, resourceKind) ELSE EmptyBag) :
            InFlight(c)'
      BY <1>e, <3>1
    <3> QED
      BY <2>7, <3>2, HandleKeeps DEF Snapshot
  <2>8. ASSUME NEW n, NamespaceChanged(n) PROVE CmdInv' /\ MsgInv'
    <3>1. n \in Namespaces
      <4>1. [msg |-> "ns", ns |-> n] \in BagToSet(msgs)
        BY <2>8, HandleElements DEF NamespaceChanged
      <4> QED
        BY <4>1 DEF IInv, MsgInv, OnItsWay
    <3>2. CASE Mount(HomeKind, n)
               /\ Handle([msg |-> "ns", ns |-> n], ResourcePump(Len(res) + 1, HomeKind))
      <4>1. Len(res) + 1 \in 1..Len(res') /\ res'[Len(res) + 1].kind = HomeKind
        BY <1>0, <3>1, <3>2, OpenedLast DEF Mount
      <4>2. \A c \in BagToSet(ResourcePump(Len(res) + 1, HomeKind)) : InFlight(c)'
        BY <4>1, PumpElements DEF InFlight
      <4> QED
        BY <3>2, <4>2, HandleKeeps
    <3>3. CASE Handle([msg |-> "ns", ns |-> n], EmptyBag)
      BY <1>e, <3>3, HandleKeeps
    <3> QED
      BY <2>8, <3>2, <3>3 DEF NamespaceChanged
  <2> QED
    BY <1>4, <2>1, <2>2, <2>3, <2>4, <2>5, <2>6, <2>7, <2>8 DEF Update
<1>5. CASE Command
  <2>1. CASE HomeSwitched
    <3>1. CASE SwitchOpens(HomeKind, HomeNamespace)
               /\ Return([run |-> "home"], [msg |-> "homeReady", kind |-> HomeKind, ch |-> Len(res) + 1])
      <4>1. Len(res) + 1 \in 1..Len(res') /\ res'[Len(res) + 1].kind = HomeKind
        BY <1>0, <3>1, OpenedLast
      <4>2. ASSUME NEW ch, ch = Len(res) + 1,
                   Return([run |-> "home"], [msg |-> "homeReady", kind |-> HomeKind, ch |-> ch])
            PROVE  CmdInv' /\ MsgInv'
        <5>1. OnItsWay([msg |-> "homeReady", kind |-> HomeKind, ch |-> ch])'
          BY <4>1, <4>2 DEF OnItsWay
        <5> QED
          BY <4>2, <5>1, ReturnKeeps
      <4> QED
        BY <3>1, <4>2
    <3>2. CASE Return([run |-> "home"], [msg |-> "homeFailed"])
      <4>1. OnItsWay([msg |-> "homeFailed"])'
        BY DEF OnItsWay
      <4> QED
        BY <3>2, <4>1, ReturnKeeps
    <3> QED
      BY <2>1, <3>1, <3>2 DEF HomeSwitched
  <2>2. ASSUME NEW ch, NEW k, PumpSnapshot(ch, k) PROVE CmdInv' /\ MsgInv'
    <3>1. [run |-> "resource", ch |-> ch, kind |-> k] \in BagToSet(cmds)
      BY <2>2, ReturnElements DEF PumpSnapshot
    <3>2. ch \in 1..Len(res) /\ k = res[ch].kind
      BY <3>1 DEF IInv, CmdInv, InFlight
    <3>3. res[ch].version \in 0..MaxVersion
      <4>1. res[ch] \in Streams
        BY <3>2 DEF IInv, ResourceInv, ResourceTypes
      <4> QED
        BY <4>1 DEF Streams
    <3>4. OnItsWay([msg |-> "snapshot", kind |-> k, ch |-> ch, version |-> res[ch].version])
      BY <3>2, <3>3 DEF OnItsWay
    <3>5. ASSUME NEW v, v = res[ch].version,
                 Return([run |-> "resource", ch |-> ch, kind |-> k],
                        [msg |-> "snapshot", kind |-> k, ch |-> ch, version |-> v])
          PROVE  CmdInv' /\ MsgInv'
      <4>1. OnItsWay([msg |-> "snapshot", kind |-> k, ch |-> ch, version |-> v])
        BY <3>4, <3>5
      <4> QED
        BY <3>5, <4>1, FlightKept, ReturnKeeps
    <3> QED
      BY <2>2, <3>5 DEF PumpSnapshot
  <2>3. ASSUME NEW ch, NEW k, PumpStreamEnd(ch, k) PROVE CmdInv' /\ MsgInv'
    <3>1. OnItsWay([msg |-> "streamEnd", kind |-> k])'
      BY DEF OnItsWay
    <3> QED
      BY <2>3, <3>1, ReturnKeeps DEF PumpStreamEnd
  <2>4. ASSUME NEW ch, PumpBatch(ch) PROVE CmdInv' /\ MsgInv'
    <3>1. [run |-> "logs", ch |-> ch] \in BagToSet(cmds)
      BY <2>4, ReturnElements DEF PumpBatch
    <3>2. OnItsWay([msg |-> "logsBatch", ch |-> ch])
      BY <3>1 DEF IInv, CmdInv, InFlight, OnItsWay
    <3> QED
      BY <2>4, <3>2, FlightKept, ReturnKeeps DEF PumpBatch
  <2>5. ASSUME NEW ch, PumpLogsEnd(ch) PROVE CmdInv' /\ MsgInv'
    <3>1. OnItsWay([msg |-> "logsEnd"])'
      BY DEF OnItsWay
    <3> QED
      BY <2>5, <3>1, ReturnKeeps DEF PumpLogsEnd
  <2>6. ASSUME NEW n, StartSession(n) PROVE CmdInv' /\ MsgInv'
    <3>1. Len(sess') = Len(sess) + 1
      BY <2>6 DEF StartSession, IInv, SessionInv, SessionTypes
    <3>2. ASSUME NEW ch, ch = Len(sess) + 1,
                 Return([run |-> "start", modal |-> n], [msg |-> "started", ch |-> ch])
          PROVE  CmdInv' /\ MsgInv'
      <4>1. OnItsWay([msg |-> "started", ch |-> ch])'
        BY <1>0, <3>1, <3>2 DEF OnItsWay
      <4> QED
        BY <3>2, <4>1, ReturnKeeps
    <3> QED
      BY <2>6, <3>2 DEF StartSession
  <2>7. ASSUME NEW n, OverBudget(n) PROVE CmdInv' /\ MsgInv'
    <3>1. [run |-> "start", modal |-> n] \in BagToSet(cmds)
      BY <2>7, ReturnElements DEF OverBudget
    <3>2. n \in 1..MaxModals
      BY <3>1, BoundsAssumption DEF IInv, CmdInv, InFlight, SessionInv, SessionTypes
    <3>3. OnItsWay([msg |-> "error", modal |-> n])'
      BY <3>2 DEF OnItsWay
    <3> QED
      BY <2>7, <3>3, ReturnKeeps DEF OverBudget
  <2>8. ASSUME NEW ch, PumpEvent(ch) PROVE CmdInv' /\ MsgInv'
    <3>1. [run |-> "diagnose", ch |-> ch] \in BagToSet(cmds)
      BY <2>8, ReturnElements DEF PumpEvent
    <3>2. ch \in 1..Len(sess) /\ sess[ch] \in Sessions /\ sess[ch].queue # <<>>
      BY <2>8, <3>1 DEF IInv, CmdInv, InFlight, SessionInv, SessionTypes, PumpEvent
    <3>3. ASSUME NEW what \in Events PROVE OnItsWay(EventMessage(what, ch))
      BY <3>2 DEF OnItsWay, EventMessage, Events, Sessions
    <3>4. Head(sess[ch].queue) \in Events
      BY <3>2 DEF Sessions
    <3>5. ASSUME NEW what, what = Head(sess[ch].queue),
                 Return([run |-> "diagnose", ch |-> ch], EventMessage(what, ch))
          PROVE  CmdInv' /\ MsgInv'
      <4>1. OnItsWay(EventMessage(what, ch))
        BY <3>3, <3>4, <3>5
      <4> QED
        BY <3>5, <4>1, FlightKept, ReturnKeeps
    <3> QED
      BY <2>8, <3>5 DEF PumpEvent
  <2>9. ASSUME NEW ch, PumpClosed(ch) PROVE CmdInv' /\ MsgInv'
    <3>1. [run |-> "diagnose", ch |-> ch] \in BagToSet(cmds)
      BY <2>9, ReturnElements DEF PumpClosed
    <3>2. ch \in 1..Len(sess) /\ sess[ch] \in Sessions
      BY <3>1 DEF IInv, CmdInv, InFlight, SessionInv, SessionTypes
    <3>3. OnItsWay(EventMessage("done", ch))
      BY <3>2 DEF OnItsWay, EventMessage, Sessions
    <3> QED
      BY <2>9, <3>3, FlightKept, ReturnKeeps DEF PumpClosed
  <2>10. ASSUME NEW n, DescribeReturns(n) PROVE CmdInv' /\ MsgInv'
    <3>1. PICK text \in {n, None} : Return([run |-> "describe", name |-> n],
                                           [msg |-> "described", text |-> text])
      BY <2>10 DEF DescribeReturns
    <3>2. [run |-> "describe", name |-> n] \in BagToSet(cmds)
      BY <3>1, ReturnElements
    <3>3. OnItsWay([msg |-> "described", text |-> text])'
      BY <3>1, <3>2 DEF IInv, CmdInv, InFlight, OnItsWay
    <3> QED
      BY <3>1, <3>3, ReturnKeeps
  <2> QED
    BY <1>5, <2>1, <2>2, <2>3, <2>4, <2>5, <2>6, <2>7, <2>8, <2>9, <2>10 DEF Command
<1>6. CASE Source
  <2>1. ASSUME NEW x, \/ ListerEmits(x) \/ StreamerSends(x) \/ StreamerEnds(x) \/ SessionEmits(x)
                      \/ SessionEnds(x)
        PROVE  UNCHANGED <<cmds, msgs>>
    BY <2>1 DEF ListerEmits, StreamerSends, StreamerEnds, SessionEmits, SessionEnds
  <2> QED
    BY <1>6, <2>1, FlightSame DEF Source
<1>7. CASE UNCHANGED vars
  BY <1>7, FlightSame DEF vars
<1> QED
  BY <1>3, <1>4, <1>5, <1>6, <1>7 DEF Next

-----------------------------------------------------------------------------
(* The theorems.                                                           *)

\* The program starts in the invariant.
LEMMA InitInv == Init => IInv
<1> SUFFICES ASSUME Init PROVE IInv
  OBVIOUS
<1> USE DEF Init
<1>1. ScreenTypes
  BY DEF ScreenTypes, Views
<1>2. ResourceInv
  <2>1. res = <<>> /\ Len(res) = 0 /\ res \in Seq(Streams)
    OBVIOUS
  <2>2. ResourceTypes
    BY <2>1, KindsAssumption, BoundsAssumption DEF ResourceTypes, EmptyTable
  <2> QED
    BY <2>1, <2>2 DEF ResourceInv, ServiceOwnsLive, ShownKind, EmptyTable
<1>3. LogInv
  <2>1. logs = <<>> /\ Len(logs) = 0 /\ logs \in Seq(LogStreams)
    OBVIOUS
  <2> QED
    BY <2>1 DEF LogInv, LogTypes, ServiceOwnsLogs
<1>4. SessionInv
  <2>1. sess = <<>> /\ Len(sess) = 0 /\ sess \in Seq(Sessions)
    OBVIOUS
  <2> QED
    BY <2>1, BoundsAssumption DEF SessionInv, SessionTypes, PumpedSessionIsStashed
<1>5. ModalInv
  <2>1. ModalTypes
    BY BoundsAssumption DEF ModalTypes, NewDiagnoseView, New
  <2> QED
    BY <2>1 DEF ModalInv, PayloadOfModal, TranscriptMatchesView, NewDiagnoseView, New
<1>6. DescribeTypes
  BY DEF DescribeTypes, NewDescribeView
<1>7. CmdInv /\ MsgInv
  <2>1. InFlight([run |-> "home"])
    BY DEF InFlight
  <2> QED
    BY <2>1, BagElements DEF CmdInv, MsgInv
<1> QED
  BY <1>1, <1>2, <1>3, <1>4, <1>5, <1>6, <1>7 DEF IInv

\* The parts of the invariant together: it is inductive.
LEMMA NextInv == IInv /\ [Next]_vars => IInv'
BY ResourceStep, LogStep, SessionStep, ModalStep, ScreenStep, DescribeStep, FlightStep
   DEF IInv

\* Every behaviour of the program stays in the invariant.
THEOREM AppInvariant == Spec => []IInv
BY InitInv, NextInv, PTL DEF Spec

\* Every variable of the model keeps its type, and every pump in flight waits
\* on a channel that exists.
THEOREM AppTypeOK == Spec => []TypeOK
<1>1. IInv => TypeOK
  <2> SUFFICES ASSUME IInv PROVE TypeOK
    OBVIOUS
  <2>1. \A c \in BagToSet(cmds) : c.run \in DOMAIN Opened => c.ch \in 1..Opened[c.run]
    BY DEF IInv, CmdInv, InFlight, Opened
  <2> QED
    BY <2>1 DEF IInv, TypeOK, ScreenTypes, ResourceInv, ResourceTypes, Streams, LogInv, LogTypes,
       LogStreams, SessionInv, SessionTypes, Sessions, Events, ModalInv, ModalTypes, DescribeTypes
<1> QED
  BY <1>1, AppInvariant, PTL

\* Whatever snapshots and stream ends arrive late, the table shows objects of
\* the kind the model is on (the guards on ResourceSnapshotMsg and
\* HomeReadyMsg in Update).
THEOREM AppShownKind == Spec => []ShownKind
<1>1. IInv => ShownKind
  BY DEF IInv, ResourceInv
<1> QED
  BY <1>1, AppInvariant, PTL

\* No lister is leaked: a live one is its kind's service's (Switch).
THEOREM AppOwnsLive == Spec => []ServiceOwnsLive
<1>1. IInv => ServiceOwnsLive
  BY DEF IInv, ResourceInv
<1> QED
  BY <1>1, AppInvariant, PTL

\* No log stream is leaked: one that is not cancelled is LogService's
\* (Stream, Stop).
THEOREM AppOwnsLogs == Spec => []ServiceOwnsLogs
<1>1. IInv => ServiceOwnsLogs
  BY DEF IInv, LogInv
<1> QED
  BY <1>1, AppInvariant, PTL

\* The session that is pumped is the one esc cancels (closeDiagnose).
THEOREM AppSessionStashed == Spec => []PumpedSessionIsStashed
<1>1. IInv => PumpedSessionIsStashed
  BY DEF IInv, SessionInv
<1> QED
  BY <1>1, AppInvariant, PTL

\* The transcript holds what the modal showed, no more and no less.
THEOREM AppTranscript == Spec => []TranscriptMatchesView
<1>1. IInv => TranscriptMatchesView
  BY DEF IInv, ModalInv
<1> QED
  BY <1>1, AppInvariant, PTL
=============================================================================
