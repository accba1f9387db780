--------------------------- MODULE SessionProofs ---------------------------
(***************************************************************************)
(* Machine-checked proofs about Session: its types; that set-up implements *)
(* Barrier; that the two ends do not lose step by themselves; that         *)
(* reconciliation is a union, and converges when nobody edits meanwhile;   *)
(* and that two ends at rest agree on every version, whoever edits.        *)
(***************************************************************************)
EXTENDS Session, TLAPS

-----------------------------------------------------------------------------
\* What the helpers of the actions do.

LEMMA EndsAreNodes ==
    /\ Initiator \in Node /\ Responder \in Node
    /\ \A n \in Node : Peer(n) \in Node /\ Node = {n, Peer(n)}
BY SessionAssumption DEF Peer

LEMMA VectorOps ==
    ASSUME NEW a \in Vector, NEW b \in Vector, NEW m \in Node
    PROVE  /\ Bumped(a, m) \in Vector
           /\ Reconciled(a, b) \in Vector
BY DEF Vector, Bumped, Merged, Reconciled

LEMMA PathsAreFiles == Path \subseteq File /\ ConflictFile \subseteq File
BY DEF File

\* n's position after a publish.
Moved(n, next) ==
    /\ phase' \in [Node -> Phase]
    /\ phase'[n] = next
    /\ \A m \in Node \ {n} : phase'[m] = phase[m]

LEMMA GotoType ==
    ASSUME phase \in [Node -> Phase], NEW n \in Node, NEW next \in Phase,
           Goto(n, next)
    PROVE  Moved(n, next)
BY DEF Goto, Moved

LEMMA PublisherEndsType ==
    ASSUME phase \in [Node -> Phase], NEW n \in Node, PublisherEnds(n)
    PROVE  \/ Moved(n, "ended")
           \/ Moved(n, "receiverOnly") /\ phase[n] = "live"
<1>1. "ended" \in Phase /\ "receiverOnly" \in Phase
  BY DEF Phase
<1> QED BY <1>1, GotoType DEF PublisherEnds

LEMMA PublishType ==
    ASSUME TypeOK, NEW n \in Node, NEW ev \in Event, NEW next \in Phase,
           Publish(n, ev, next)
    PROVE  /\ \/ Moved(n, next) /\ log' = Append(log, ev)
              \/ Moved(n, "ended") /\ log' \in {log, Append(log, ev)}
              \/ /\ Moved(n, "receiverOnly") /\ phase[n] = "live"
                 /\ log' \in {log, Append(log, ev)}
           /\ phase' \in [Node -> Phase]
           /\ log' \in Seq(Event)
           /\ \A m \in Node : acked[m] <= Len(log')
           /\ failures' \in Nat
<1>1. log \in Seq(Event) /\ phase \in [Node -> Phase] /\ "ended" \in Phase
      /\ failures \in Nat /\ acked \in [Node -> Nat]
      /\ \A m \in Node : acked[m] <= Len(log)
  BY DEF TypeOK, Phase
<1>2. /\ Append(log, ev) \in Seq(Event)
      /\ Len(log) \in Nat
      /\ Len(Append(log, ev)) = Len(log) + 1
  BY <1>1
<1>3. ASSUME NEW m \in Node
      PROVE  acked[m] <= Len(log) + 1
  <2>1. Len(log) \in Nat /\ acked[m] \in Nat /\ acked[m] <= Len(log)
    BY <1>1, <1>2
  <2> QED BY <2>1
<1>4. /\ log' \in {log, Append(log, ev)} /\ failures' \in {failures, failures + 1}
      /\ \/ Goto(n, next) /\ log' = Append(log, ev)
         \/ PublisherEnds(n)
  BY DEF Publish
<1>5. log' \in Seq(Event) /\ \A m \in Node : acked[m] <= Len(log')
  BY <1>1, <1>2, <1>3, <1>4
<1>6. \/ Moved(n, next) /\ log' = Append(log, ev)
      \/ Moved(n, "ended")
      \/ Moved(n, "receiverOnly") /\ phase[n] = "live"
  BY <1>1, <1>4, GotoType, PublisherEndsType
<1>7. phase' \in [Node -> Phase]
  BY <1>6 DEF Moved
<1> QED BY <1>1, <1>4, <1>5, <1>6, <1>7

LEMMA ReceiverEndsType ==
    ASSUME phase \in [Node -> Phase], NEW n \in Node, ReceiverEnds(n)
    PROVE  \/ Moved(n, "ended")
           \/ Moved(n, "publisherOnly") /\ phase[n] = "live"
<1>1. "ended" \in Phase /\ "publisherOnly" \in Phase
  BY DEF Phase
<1> QED BY <1>1, GotoType DEF ReceiverEnds

LEMMA IncomingType ==
    ASSUME TypeOK, NEW n \in Node, HasIncoming(n)
    PROVE  Incoming(n) \in Event
BY DEF TypeOK, HasIncoming, Incoming

LEMMA AckType ==
    ASSUME TypeOK, NEW n \in Node, \/ HasIncoming(n) /\ Ack(n)
                                   \/ Nak
    PROVE  /\ acked' \in [Node -> Nat]
           /\ \A m \in Node : acked'[m] <= Len(log)
           /\ lostAcks' \in Nat
<1>1. /\ acked \in [Node -> Nat] /\ Len(log) \in Nat /\ lostAcks \in Nat
      /\ \A m \in Node : acked[m] <= Len(log)
  BY DEF TypeOK
<1>2. CASE Nak
  BY <1>1, <1>2 DEF Nak
<1>3. CASE HasIncoming(n) /\ acked' = [acked EXCEPT ![n] = @ + 1] /\ lostAcks' = lostAcks
  <2>1. \A m \in Node : acked'[m] = IF m = n THEN acked[m] + 1 ELSE acked[m]
    BY <1>1, <1>3
  <2> QED BY <1>1, <1>3, <2>1 DEF HasIncoming
<1>4. CASE lostAcks' = lostAcks + 1 /\ acked' = acked
  BY <1>1, <1>4
<1> QED BY <1>2, <1>3, <1>4 DEF Ack

LEMMA EventFields ==
    ASSUME NEW ev \in Event
    PROVE  /\ ev.origin \in Node
           /\ ev.op = "write" => ev \in WriteEvent
           /\ ev.op = "remove" => ev \in RemoveEvent
           /\ ev.op = "manifest" => ev \in ManifestEvent
BY DEF Event, ControlEvent, ManifestEvent, WriteEvent, RemoveEvent

\* What n publishes.
LEMMA PublishedEvents ==
    ASSUME TypeOK, NEW n \in Node
    PROVE  /\ \A op \in {"bootstrap", "bootstrapAck", "done"} :
                 [op |-> op, origin |-> n] \in Event
           /\ [op |-> "manifest", origin |-> n, files |-> manifest[n]] \in Event
           /\ \A f \in File : /\ [op |-> "remove", origin |-> n, file |-> f] \in Event
                              /\ disk[n][f] # Absent => WriteOf(n, f) \in Event
<1>1. \A op \in {"bootstrap", "bootstrapAck", "done"} :
          [op |-> op, origin |-> n] \in Event
  BY DEF Event, ControlEvent
<1>2. [op |-> "manifest", origin |-> n, files |-> manifest[n]] \in Event
  BY DEF Event, ManifestEvent, TypeOK
<1>3. ASSUME NEW f \in File
      PROVE  /\ [op |-> "remove", origin |-> n, file |-> f] \in Event
             /\ disk[n][f] # Absent => WriteOf(n, f) \in Event
  <2>1. [op |-> "remove", origin |-> n, file |-> f] \in Event
    BY DEF Event, RemoveEvent
  <2>2. ASSUME disk[n][f] # Absent
        PROVE  WriteOf(n, f) \in Event
    <3>1. versions \in [Node -> [File -> Vector]]
      BY DEF TypeOK
    <3>2. versions[n][f] \in Vector
      BY <3>1
    <3>3. Bumped(versions[n][f], n) \in Vector
      BY <3>2, VectorOps
    <3>4. disk[n][f] \in Content /\ sendSeq[n] \in Nat
      BY <2>2 DEF TypeOK, Manifest
    <3> QED BY <3>3, <3>4 DEF WriteOf, Event, WriteEvent
  <2> QED BY <2>1, <2>2
<1> QED BY <1>1, <1>2, <1>3

LEMMA StampType ==
    ASSUME TypeOK, NEW n \in Node, NEW f \in File, StampAndSeal(n, f)
    PROVE  versions' \in [Node -> [File -> Vector]] /\ sendSeq' \in [Node -> Nat]
<1>1. versions \in [Node -> [File -> Vector]] /\ sendSeq \in [Node -> Nat]
  BY DEF TypeOK
<1>2. versions[n][f] \in Vector
  BY <1>1
<1>3. Bumped(versions[n][f], n) \in Vector
  BY <1>2, VectorOps
<1>4. versions' = [versions EXCEPT ![n][f] = Bumped(versions[n][f], n)]
  BY DEF StampAndSeal
<1>5. versions' \in [Node -> [File -> Vector]]
  BY <1>1, <1>3, <1>4
<1>6. sendSeq' \in [Node -> Nat]
  BY <1>1 DEF StampAndSeal
<1> QED BY <1>5, <1>6

-----------------------------------------------------------------------------
\* Type correctness.

LEMMA InitType == Init => TypeOK
<1> SUFFICES ASSUME Init PROVE TypeOK
  OBVIOUS
<1>1. disk \in [Node -> Manifest]
  BY SessionAssumption DEF Init, Manifest
<1>2. phase \in [Node -> Phase] /\ manifest \in [Node -> Manifest]
  BY DEF Init, Phase, SetUp, Manifest, NoManifest
<1>3. versions \in [Node -> [File -> Vector]]
  BY DEF Init, ZeroVector, Vector
<1>4. log \in Seq(Event) /\ acked \in [Node -> Nat] /\ \A n \in Node : acked[n] <= Len(log)
  BY DEF Init
<1>5. enc \in BOOLEAN
  BY SessionAssumption DEF Init
<1> QED BY <1>1, <1>2, <1>3, <1>4, <1>5 DEF Init, TypeOK

\* Steps that publish one event and wait for nothing.
LEMMA PublishingType ==
    ASSUME TypeOK, NEW n \in Node,
           PublishBootstrap(n) \/ PublishBootstrapAck(n) \/ PublishManifest(n)
             \/ PublishReconcileDone(n)
    PROVE  TypeOK'
<1>1. PICK ev \in Event, next \in Phase : Publish(n, ev, next)
  BY PublishedEvents DEF PublishBootstrap, PublishBootstrapAck, PublishManifest,
     PublishReconcileDone, Phase, SetUp
<1>2. /\ phase' \in [Node -> Phase] /\ log' \in Seq(Event) /\ failures' \in Nat
      /\ \A m \in Node : acked[m] <= Len(log')
  BY <1>1, PublishType
<1>3. UNCHANGED <<controlUnchanged, scanVars, acked, lostAcks>>
  BY DEF PublishBootstrap, PublishBootstrapAck, PublishManifest, PublishReconcileDone
<1> QED BY <1>2, <1>3 DEF TypeOK, controlUnchanged, scanVars, guardVars, chainVars

LEMMA AwaitType ==
    ASSUME TypeOK, NEW n \in Node, NEW op, NEW next \in Phase,
           AwaitControl(n, op, next)
    PROVE  /\ phase' \in [Node -> Phase]
           /\ acked' \in [Node -> Nat] /\ \A m \in Node : acked'[m] <= Len(log)
           /\ lostAcks' \in Nat
           /\ \/ Moved(n, next) /\ Incoming(n).op = op
              \/ Moved(n, "ended")
              \/ Moved(n, "publisherOnly") /\ phase[n] = "live"
<1>1. phase \in [Node -> Phase]
  BY DEF TypeOK
<1>2. HasIncoming(n) /\ (Ack(n) \/ Nak)
  BY DEF AwaitControl
<1>3. \/ Moved(n, next) /\ Incoming(n).op = op
      \/ Moved(n, "ended")
      \/ Moved(n, "publisherOnly") /\ phase[n] = "live"
  BY <1>1, GotoType, ReceiverEndsType DEF AwaitControl
<1>4. phase' \in [Node -> Phase]
  BY <1>3 DEF Moved
<1> QED BY <1>2, <1>3, <1>4, AckType

LEMMA AwaitingType ==
    ASSUME TypeOK, NEW n \in Node,
           ReceiveBootstrap(n) \/ ReceiveBootstrapAck(n) \/ ReceiveManifest(n)
    PROVE  TypeOK'
<1>0. {"answer", "scan", "push"} \subseteq Phase
  BY DEF Phase, SetUp
<1>1. \/ AwaitControl(n, "bootstrap", "answer")
      \/ AwaitControl(n, "bootstrapAck", "scan")
      \/ AwaitControl(n, "manifest", "push")
  BY DEF ReceiveBootstrap, ReceiveBootstrapAck, ReceiveManifest
<1>2. /\ phase' \in [Node -> Phase] /\ lostAcks' \in Nat
      /\ acked' \in [Node -> Nat] /\ \A m \in Node : acked'[m] <= Len(log)
  BY <1>0, <1>1, AwaitType
<1>3. toPush' \in [Node -> SUBSET File]
  BY DEF ReceiveBootstrap, ReceiveBootstrapAck, ReceiveManifest, scanVars, TypeOK,
     DiffPaths
<1>4. UNCHANGED <<controlUnchanged, manifest, log, failures>>
  BY DEF ReceiveBootstrap, ReceiveBootstrapAck, ReceiveManifest, scanVars
<1> QED BY <1>2, <1>3, <1>4 DEF TypeOK, controlUnchanged, guardVars, chainVars

\* Steps that leave the stream and the stores alone.
LEMMA QuietType ==
    ASSUME TypeOK, NEW n \in Node,
           \/ SkipOwn(n) \/ Fails(n) \/ BootstrapTimesOut(n) \/ ScanManifest(n)
           \/ \E f \in Path, c \in Content \cup {Absent} : UserEdit(n, f, c)
    PROVE  TypeOK'
<1>0. phase \in [Node -> Phase] /\ failures \in Nat /\ disk \in [Node -> Manifest]
      /\ manifest \in [Node -> Manifest]
  BY DEF TypeOK
<1>1. CASE SkipOwn(n)
  <2>1. acked' \in [Node -> Nat] /\ \A m \in Node : acked'[m] <= Len(log)
        /\ lostAcks' \in Nat
    BY <1>1, AckType DEF SkipOwn
  <2> QED BY <1>1, <2>1 DEF SkipOwn, TypeOK, scanVars, guardVars, chainVars
<1>2. CASE Fails(n)
  <2>1. phase' \in [Node -> Phase]
    BY <1>0, <1>2, ReceiverEndsType DEF Fails, Moved
  <2> QED BY <1>0, <1>2, <2>1 DEF Fails, TypeOK, scanVars, guardVars, chainVars
<1>3. CASE BootstrapTimesOut(n)
  <2>1. phase' \in [Node -> Phase] /\ failures' \in Nat
    BY <1>0, <1>3, GotoType DEF BootstrapTimesOut, Moved, Phase
  <2> QED BY <1>3, <2>1
      DEF BootstrapTimesOut, TypeOK, controlUnchanged, scanVars, guardVars, chainVars
<1>4. CASE ScanManifest(n)
  <2>1. phase' \in [Node -> Phase]
    BY <1>0, <1>4, GotoType DEF ScanManifest, Moved, Phase, SetUp
  <2>2. manifest' \in [Node -> Manifest]
    BY <1>0, <1>4 DEF ScanManifest
  <2> QED BY <1>4, <2>1, <2>2
      DEF ScanManifest, TypeOK, controlUnchanged, guardVars, chainVars
<1>5. ASSUME NEW f \in Path, NEW c \in Content \cup {Absent}, UserEdit(n, f, c)
      PROVE  TypeOK'
  <2>1. f \in File
    BY PathsAreFiles
  <2>2. disk' \in [Node -> Manifest]
    BY <1>0, <1>5, <2>1 DEF UserEdit, Manifest
  <2>3. pending' \in [Node -> SUBSET File]
    BY <1>5, <2>1 DEF UserEdit, Observed, TypeOK
  <2>4. touched' \subseteq File /\ edits' \in Nat
    BY <1>5, <2>1 DEF UserEdit, TypeOK
  <2> QED BY <1>5, <2>2, <2>3, <2>4 DEF UserEdit, TypeOK, scanVars, guardVars, chainVars
<1> QED BY <1>1, <1>2, <1>3, <1>4, <1>5

LEMMA PushType ==
    ASSUME TypeOK, NEW n \in Node, NEW f \in File, Push(n, f)
    PROVE  TypeOK'
<1>1. toPush' \in [Node -> SUBSET File]
  BY DEF Push, TypeOK
<1>2. CASE disk[n][f] = Absent
  BY <1>1, <1>2 DEF Push, TypeOK
<1>3. CASE disk[n][f] # Absent
  <2>1. WriteOf(n, f) \in Event /\ "push" \in Phase
    BY <1>3, PublishedEvents DEF Phase, SetUp
  <2>2. Publish(n, WriteOf(n, f), "push") /\ StampAndSeal(n, f)
    BY <1>3 DEF Push
  <2>3. /\ phase' \in [Node -> Phase] /\ log' \in Seq(Event) /\ failures' \in Nat
        /\ \A m \in Node : acked[m] <= Len(log')
    BY <2>1, <2>2, PublishType
  <2>4. versions' \in [Node -> [File -> Vector]] /\ sendSeq' \in [Node -> Nat]
    BY <2>2, StampType
  <2> QED BY <1>1, <2>3, <2>4 DEF Push, TypeOK
<1> QED BY <1>2, <1>3

LEMMA PublishChangeType ==
    ASSUME TypeOK, NEW n \in Node, NEW f \in File, PublishChange(n, f)
    PROVE  TypeOK'
<1>1. pending' \in [Node -> SUBSET File]
  BY DEF PublishChange, TypeOK
<1>2. CASE /\ echo' = [echo EXCEPT ![n][f] = NoMark]
           /\ UNCHANGED <<phase, log, failures, versions, sendSeq>>
  <2>1. echo' \in [Node -> [File -> Content \cup {NoMark, RemovedMark}]]
    BY <1>2 DEF TypeOK
  <2> QED BY <1>1, <1>2, <2>1 DEF PublishChange, TypeOK, scanVars
<1>3. CASE /\ Publish(n, [op |-> "remove", origin |-> n, file |-> f], phase[n])
           /\ UNCHANGED <<echo, versions, sendSeq>>
  <2>1. /\ [op |-> "remove", origin |-> n, file |-> f] \in Event
        /\ phase[n] \in Phase
    BY PublishedEvents DEF TypeOK
  <2>2. /\ phase' \in [Node -> Phase] /\ log' \in Seq(Event) /\ failures' \in Nat
        /\ \A m \in Node : acked[m] <= Len(log')
    BY <1>3, <2>1, PublishType
  <2> QED BY <1>1, <1>3, <2>2 DEF PublishChange, TypeOK, scanVars
<1>4. CASE /\ disk[n][f] # Absent
           /\ Publish(n, WriteOf(n, f), phase[n])
           /\ StampAndSeal(n, f)
           /\ echo' = echo
  <2>1. WriteOf(n, f) \in Event /\ phase[n] \in Phase
    BY <1>4, PublishedEvents DEF TypeOK
  <2>2. /\ phase' \in [Node -> Phase] /\ log' \in Seq(Event) /\ failures' \in Nat
        /\ \A m \in Node : acked[m] <= Len(log')
    BY <1>4, <2>1, PublishType
  <2>3. versions' \in [Node -> [File -> Vector]] /\ sendSeq' \in [Node -> Nat]
    BY <1>4, StampType
  <2> QED BY <1>1, <1>4, <2>2, <2>3 DEF PublishChange, TypeOK, scanVars
<1> QED BY <1>2, <1>3, <1>4 DEF PublishChange

\* What handling an incoming write leaves typed.
LEMMA ReceiveWriteType ==
    ASSUME TypeOK, NEW n \in Node, HasIncoming(n), ReceiveWrite(n)
    PROVE  /\ disk' \in [Node -> Manifest] /\ phase' \in [Node -> Phase]
           /\ acked' \in [Node -> Nat] /\ \A m \in Node : acked'[m] <= Len(log)
           /\ versions' \in [Node -> [File -> Vector]]
           /\ echo' \in [Node -> [File -> Content \cup {NoMark, RemovedMark}]]
           /\ recvSeq' \in [Node -> Nat] /\ pending' \in [Node -> SUBSET File]
           /\ lostAcks' \in Nat
<1> DEFINE ev == Incoming(n)
           f == ev.file
           aside == [of |-> f, from |-> ev.origin]
<1>1. ev \in WriteEvent
  BY IncomingType, EventFields DEF ReceiveWrite
<1>2. /\ f \in File /\ ev.data \in Content /\ ev.version \in Vector
      /\ ev.origin \in Node
  BY <1>1 DEF WriteEvent
<1>3. /\ phase \in [Node -> Phase] /\ disk \in [Node -> Manifest]
      /\ versions \in [Node -> [File -> Vector]] /\ recvSeq \in [Node -> Nat]
      /\ echo \in [Node -> [File -> Content \cup {NoMark, RemovedMark}]]
      /\ pending \in [Node -> SUBSET File]
  BY DEF TypeOK
<1>4. acked' \in [Node -> Nat] /\ (\A m \in Node : acked'[m] <= Len(log))
      /\ lostAcks' \in Nat
  BY AckType DEF ReceiveWrite
<1>5. CASE Opens(n, ev) /\ ApplyWrite(n, ev) /\ phase' = phase
           /\ recvSeq' = IF enc THEN [recvSeq EXCEPT ![n] = @ + 1] ELSE recvSeq
  <2>1. versions' \in [Node -> [File -> Vector]]
    <3>1. versions[n][f] \in Vector
      BY <1>2, <1>3
    <3>2. Reconciled(versions[n][f], ev.version) \in Vector
      BY <1>2, <3>1, VectorOps
    <3>3. versions' = [versions EXCEPT ![n][f] = Reconciled(versions[n][f], ev.version)]
      BY <1>5 DEF ApplyWrite
    <3> QED BY <1>2, <1>3, <3>2, <3>3
  <2>2. recvSeq' \in [Node -> Nat]
    BY <1>3, <1>5
  <2>3. CASE /\ disk' = [disk EXCEPT ![n][f] = ev.data]
             /\ echo' = [echo EXCEPT ![n][f] = ev.data]
             /\ pending' = Observed(n, f)
    <3>1. disk' \in [Node -> Manifest]
      BY <1>2, <1>3, <2>3 DEF Manifest
    <3>2. echo' \in [Node -> [File -> Content \cup {NoMark, RemovedMark}]]
      BY <1>2, <1>3, <2>3
    <3>3. pending' \in [Node -> SUBSET File]
      BY <1>2, <1>3, <2>3 DEF Observed
    <3> QED BY <1>3, <1>4, <1>5, <2>1, <2>2, <3>1, <3>2, <3>3
  <2>4. CASE /\ f \in Path
             /\ disk' = PutAside(n, ev, aside)
             /\ pending' = Observed(n, aside)
             /\ echo' = echo
    <3>0. aside \in File
      BY <1>2, <2>4, PathsAreFiles DEF ConflictFile
    <3>1. disk' \in [Node -> Manifest]
      BY <1>2, <1>3, <2>4, <3>0 DEF Manifest, PutAside
    <3>3. pending' \in [Node -> SUBSET File]
      BY <1>3, <2>4, <3>0 DEF Observed
    <3> QED BY <1>3, <1>4, <1>5, <2>1, <2>2, <2>4, <3>1, <3>3
  <2>5. CASE UNCHANGED <<disk, echo, pending>>
    BY <1>3, <1>4, <1>5, <2>1, <2>2, <2>5
  <2> QED BY <1>5, <2>3, <2>4, <2>5 DEF ApplyWrite
<1>6. CASE ReceiverEnds(n) /\ UNCHANGED <<recvSeq, versions, disk, echo, pending>>
  <2>1. phase' \in [Node -> Phase]
    BY <1>3, <1>6, ReceiverEndsType DEF Moved
  <2> QED BY <1>3, <1>4, <1>6, <2>1
<1> QED BY <1>5, <1>6 DEF ReceiveWrite

LEMMA ReceivingType ==
    ASSUME TypeOK, NEW n \in Node, Drain(n) \/ ReceiveLive(n)
    PROVE  TypeOK'
<1> DEFINE ev == Incoming(n)
<1>1. /\ HasIncoming(n) /\ ev \in Event
      /\ UNCHANGED <<enc, scanVars, log, sendSeq, touched, edits, failures>>
  BY IncomingType DEF Drain, ReceiveLive
<1>2. /\ phase \in [Node -> Phase] /\ disk \in [Node -> Manifest]
      /\ echo \in [Node -> [File -> Content \cup {NoMark, RemovedMark}]]
      /\ pending \in [Node -> SUBSET File]
  BY DEF TypeOK
<1>3. CASE ReceiveWrite(n)
  BY <1>1, <1>3, ReceiveWriteType DEF TypeOK, scanVars
<1>4. CASE /\ ev.op = "remove"
           /\ disk' = [disk EXCEPT ![n][ev.file] = Absent]
           /\ echo' = [echo EXCEPT ![n][ev.file] = RemovedMark]
           /\ pending' = IF disk[n][ev.file] = Absent THEN pending
                         ELSE Observed(n, ev.file)
           /\ Ack(n)
           /\ UNCHANGED <<phase, recvSeq, versions>>
  <2>1. ev.file \in File
    BY <1>1, <1>4, EventFields DEF RemoveEvent
  <2>2. disk' \in [Node -> Manifest]
    BY <1>2, <1>4, <2>1 DEF Manifest
  <2>3. echo' \in [Node -> [File -> Content \cup {NoMark, RemovedMark}]]
    BY <1>2, <1>4, <2>1
  <2>4. pending' \in [Node -> SUBSET File]
    BY <1>2, <1>4, <2>1 DEF Observed
  <2>5. acked' \in [Node -> Nat] /\ (\A m \in Node : acked'[m] <= Len(log))
        /\ lostAcks' \in Nat
    BY <1>1, <1>4, AckType
  <2> QED BY <1>1, <1>4, <2>2, <2>3, <2>4, <2>5 DEF TypeOK, scanVars
<1>5. CASE /\ Ack(n) \/ Nak
           /\ phase' = phase \/ Goto(n, "live") \/ ReceiverEnds(n)
           /\ UNCHANGED <<recvSeq, versions, disk, echo, pending>>
  <2>1. acked' \in [Node -> Nat] /\ (\A m \in Node : acked'[m] <= Len(log))
        /\ lostAcks' \in Nat
    BY <1>1, <1>5, AckType
  <2>2. phase' \in [Node -> Phase]
    BY <1>2, <1>5, GotoType, ReceiverEndsType DEF Moved, Phase
  <2> QED BY <1>1, <1>5, <2>1, <2>2 DEF TypeOK, scanVars
<1> QED BY <1>3, <1>4, <1>5 DEF Drain, ReceiveLive

LEMMA TypeStep == TypeOK /\ [Next]_vars => TypeOK'
<1> SUFFICES ASSUME TypeOK, [Next]_vars PROVE TypeOK'
  OBVIOUS
<1>1. CASE UNCHANGED vars
  BY <1>1 DEF TypeOK, vars, scanVars, guardVars, chainVars
<1>2. ASSUME NEW n \in Node, Step(n)
      PROVE  TypeOK'
  BY <1>2, PublishingType, AwaitingType, QuietType, PushType, PublishChangeType,
     ReceivingType DEF Step
<1>3. ASSUME NEW n \in Node,
             \/ Fails(n) \/ BootstrapTimesOut(n)
             \/ \E f \in Path, c \in Content \cup {Absent} : UserEdit(n, f, c)
      PROVE  TypeOK'
  BY <1>3, QuietType
<1> QED BY <1>1, <1>2, <1>3 DEF Next

\* Every variable keeps its type; an acknowledgement never runs ahead of the
\* stream.
THEOREM SessionTypeCorrect == Spec => []TypeOK
<1> QED BY InitType, TypeStep, PTL DEF Spec

-----------------------------------------------------------------------------
\* Set-up is a barrier.

\* A node in front of its own "done" has not said it, one behind it has, and
\* one that watches has read its peer's.
DoneInStep ==
    \A n \in Node :
        /\ phase[n] \in SetUp \ {"drain"} => ~Done(n)
        /\ phase[n] = "drain" => Done(n)
        /\ Watching(n) => Done(n) /\ Done(Peer(n))

BarrierInv == TypeOK /\ DoneInStep /\ LiveAfterBothDone

\* The same of any sequence of events.
SaidIn(s, m, i) == s[i].op = "done" /\ s[i].origin = m
DoneIn(s, m) == \E i \in 1..Len(s) : SaidIn(s, m, i)
LiveIn(s) == {i \in 1..Len(s) : \E k \in 1..(i - 1) : SaidIn(s, s[i].origin, k)}

\* One more event: who has said "done", and what is live.
LEMMA OneMoreEvent ==
    ASSUME NEW s \in Seq(Event), NEW ev \in Event, NEW t, t = Append(s, ev)
    PROVE  /\ \A m \in Node : DoneIn(t, m) <=> DoneIn(s, m) \/ (ev.op = "done" /\ ev.origin = m)
           /\ DoneIn(s, ev.origin) => LiveIn(t) = LiveIn(s) \cup {Len(s) + 1}
           /\ ~DoneIn(s, ev.origin) => LiveIn(t) = LiveIn(s)
           /\ \A m \in Node, i \in 1..Len(s) : SaidIn(t, m, i) <=> SaidIn(s, m, i)
<1> DEFINE len == Len(s)
<1>1. /\ len \in Nat /\ Len(t) = len + 1 /\ t[len + 1] = ev
      /\ \A i \in 1..len : t[i] = s[i]
  OBVIOUS
<1>2. DoneIn(s, ev.origin) <=> \E k \in 1..len : SaidIn(s, ev.origin, k)
  BY DEF DoneIn
<1>3. LiveIn(s) = {i \in 1..len : \E k \in 1..(i - 1) : SaidIn(s, s[i].origin, k)}
  BY DEF LiveIn
<1>4. \A m \in Node : DoneIn(s, m) <=> \E i \in 1..len : SaidIn(s, m, i)
  BY DEF DoneIn
<1> HIDE DEF len
<1>5. /\ 1..(len + 1) = 1..len \cup {len + 1}
      /\ len + 1 \notin 1..len
      /\ (len + 1) - 1 = len
      /\ \A i \in 1..len : 1..(i - 1) \subseteq 1..len
  BY <1>1
<1>6. \A m, i : i \in 1..len => (SaidIn(t, m, i) <=> SaidIn(s, m, i))
  BY <1>1 DEF SaidIn
<1>7. \A m : SaidIn(t, m, len + 1) <=> ev.op = "done" /\ ev.origin = m
  BY <1>1 DEF SaidIn
<1>8. \A m \in Node : DoneIn(t, m) <=> DoneIn(s, m) \/ (ev.op = "done" /\ ev.origin = m)
  BY <1>1, <1>4, <1>5, <1>6, <1>7 DEF DoneIn
<1>9. LiveIn(t) = {i \in 1..(len + 1) : \E k \in 1..(i - 1) : SaidIn(t, t[i].origin, k)}
  BY <1>1 DEF LiveIn
<1>10. ASSUME NEW i \in 1..len
       PROVE  (\E k \in 1..(i - 1) : SaidIn(t, t[i].origin, k))
                <=> (\E k \in 1..(i - 1) : SaidIn(s, s[i].origin, k))
  BY <1>1, <1>5, <1>6
<1>11. (\E k \in 1..((len + 1) - 1) : SaidIn(t, t[len + 1].origin, k))
          <=> DoneIn(s, ev.origin)
  BY <1>1, <1>2, <1>5, <1>6
<1>12. \A i : i \in LiveIn(t) <=> i \in LiveIn(s) \/ (i = len + 1 /\ DoneIn(s, ev.origin))
  <2>1. ASSUME NEW i \in 1..len
        PROVE  i \in LiveIn(t) <=> i \in LiveIn(s)
    BY <1>3, <1>5, <1>9, <1>10
  <2>2. len + 1 \in LiveIn(t) <=> DoneIn(s, ev.origin)
    BY <1>5, <1>9, <1>11
  <2>3. /\ LiveIn(t) \subseteq 1..len \cup {len + 1}
        /\ LiveIn(s) \subseteq 1..len
    BY <1>3, <1>5, <1>9
  <2>4. len + 1 \notin LiveIn(s)
    BY <2>3, <1>5
  <2> QED BY <2>1, <2>2, <2>3, <2>4
<1>13. DoneIn(s, ev.origin) => LiveIn(t) = LiveIn(s) \cup {len + 1}
  BY <1>12
<1>14. ~DoneIn(s, ev.origin) => LiveIn(t) = LiveIn(s)
  BY <1>12
<1> QED BY <1>6, <1>8, <1>13, <1>14 DEF len

\* A stream that did not move.
LEMMA SameStream ==
    ASSUME log' = log
    PROVE  /\ \A m \in Node : Done(m)' <=> Done(m)
           /\ LiveChanges' = LiveChanges
           /\ LiveAfterBothDone' <=> LiveAfterBothDone
BY DEF Done, SaidDone, LiveChanges, LiveAfterBothDone

\* ... of the session's stream.
LEMMA StreamIsOne ==
    /\ \A m, i : SaidDone(m, i) <=> SaidIn(log, m, i)
    /\ \A m : Done(m) <=> DoneIn(log, m)
    /\ LiveChanges = LiveIn(log)
BY DEF SaidDone, SaidIn, Done, DoneIn, LiveChanges, LiveIn

LEMMA NextStreamIsOne ==
    /\ \A m : Done(m)' <=> DoneIn(log', m)
    /\ LiveChanges' = LiveIn(log')
BY DEF SaidDone, SaidIn, Done, DoneIn, LiveChanges, LiveIn

BeforeDone == SetUp \ {"drain"}

\* All that a step of n may do to its phase and to the stream.
StaysPut(n) == log' = log /\ phase' = phase
MovesOn(n) ==
    /\ phase[n] \in BeforeDone
    /\ \E next \in BeforeDone : Moved(n, next)
    /\ log' = log
Ends(n) ==
    /\ \/ Moved(n, "ended")
       \/ phase[n] = "live" /\ (Moved(n, "publisherOnly") \/ Moved(n, "receiverOnly"))
    /\ log' = log
Speaks(n, ev) ==
    /\ phase[n] \in BeforeDone /\ ev.op # "done"
    /\ \/ (\E next \in BeforeDone : Moved(n, next)) /\ log' = Append(log, ev)
       \/ Moved(n, "ended") /\ log' \in {log, Append(log, ev)}
SaysDone(n, ev) ==
    /\ phase[n] = "push" /\ ev.op = "done"
    /\ \/ Moved(n, "drain") /\ log' = Append(log, ev)
       \/ Moved(n, "ended") /\ log' \in {log, Append(log, ev)}
StartsWatching(n) ==
    /\ phase[n] = "drain" /\ Moved(n, "live") /\ log' = log
    /\ Done(Peer(n))
PublishesLive(n, ev) ==
    /\ Watching(n) /\ ev.op # "done"
    /\ \/ Moved(n, phase[n]) /\ log' = Append(log, ev)
       \/ Moved(n, "ended") /\ log' \in {log, Append(log, ev)}
       \/ /\ phase[n] = "live" /\ Moved(n, "receiverOnly")
          /\ log' \in {log, Append(log, ev)}

StepOf(n) ==
    \/ StaysPut(n) \/ MovesOn(n) \/ Ends(n) \/ StartsWatching(n)
    \/ \E ev \in Event : /\ ev.origin = n
                         /\ Speaks(n, ev) \/ SaysDone(n, ev) \/ PublishesLive(n, ev)

\* Phases that rule each other out.
LEMMA PhasesApart ==
    /\ \A p \in BeforeDone :
         p \in SetUp /\ p \notin {"drain", "live", "publisherOnly", "receiverOnly", "ended"}
    /\ \A p \in {"live", "publisherOnly", "receiverOnly", "ended"} : p \notin SetUp
    /\ "drain" \in SetUp /\ "push" \in BeforeDone
BY DEF BeforeDone, SetUp

LEMMA SetUpStepKinds ==
    ASSUME TypeOK, NEW n \in Node,
           \/ PublishBootstrap(n) \/ ReceiveBootstrap(n)
           \/ PublishBootstrapAck(n) \/ ReceiveBootstrapAck(n)
           \/ ScanManifest(n) \/ PublishManifest(n) \/ ReceiveManifest(n)
           \/ PublishReconcileDone(n)
    PROVE  StepOf(n)
<1>0. /\ phase \in [Node -> Phase]
      /\ BeforeDone \subseteq Phase /\ "drain" \in Phase
  BY DEF TypeOK, Phase, SetUp, BeforeDone
<1>1. ASSUME NEW ev \in Event, NEW next \in BeforeDone, ev.origin = n, ev.op # "done",
             phase[n] \in BeforeDone, Publish(n, ev, next)
      PROVE  StepOf(n)
  <2>1. \/ Moved(n, next) /\ log' = Append(log, ev)
        \/ Moved(n, "ended") /\ log' \in {log, Append(log, ev)}
    BY <1>0, <1>1, PublishType, PhasesApart
  <2> QED BY <1>1, <2>1 DEF StepOf, Speaks
<1>2. ASSUME NEW op, NEW next \in BeforeDone, phase[n] \in BeforeDone,
             AwaitControl(n, op, next), log' = log
      PROVE  StepOf(n)
  <2>1. \/ Moved(n, next)
        \/ Moved(n, "ended")
        \/ Moved(n, "publisherOnly") /\ phase[n] = "live"
    BY <1>0, <1>2, AwaitType
  <2> QED BY <1>2, <2>1 DEF StepOf, MovesOn, Ends
<1>3. /\ {"bootstrap", "awaitBootstrap", "awaitBootstrapAck", "answer", "scan",
          "publishManifest", "awaitManifest", "push"} \subseteq BeforeDone
  BY DEF BeforeDone, SetUp
<1>4. CASE PublishBootstrap(n)
  <2> DEFINE ev == [op |-> "bootstrap", origin |-> n]
  <2>1. ev \in Event
    BY PublishedEvents
  <2> QED BY <1>1, <1>3, <1>4, <2>1 DEF PublishBootstrap
<1>5. CASE PublishBootstrapAck(n)
  <2> DEFINE ev == [op |-> "bootstrapAck", origin |-> n]
  <2>1. ev \in Event
    BY PublishedEvents
  <2> QED BY <1>1, <1>3, <1>5, <2>1 DEF PublishBootstrapAck
<1>6. CASE PublishManifest(n)
  <2> DEFINE ev == [op |-> "manifest", origin |-> n, files |-> manifest[n]]
  <2>1. ev \in Event
    BY PublishedEvents
  <2> QED BY <1>1, <1>3, <1>6, <2>1 DEF PublishManifest
<1>7. CASE ReceiveBootstrap(n) \/ ReceiveBootstrapAck(n) \/ ReceiveManifest(n)
  BY <1>2, <1>3, <1>7 DEF ReceiveBootstrap, ReceiveBootstrapAck, ReceiveManifest
<1>8. CASE ScanManifest(n)
  <2>1. Moved(n, "publishManifest") /\ log' = log
    BY <1>0, <1>3, <1>8, GotoType DEF ScanManifest
  <2> QED BY <1>3, <1>8, <2>1 DEF ScanManifest, StepOf, MovesOn
<1>9. CASE PublishReconcileDone(n)
  <2> DEFINE ev == [op |-> "done", origin |-> n]
  <2>1. ev \in Event /\ ev.origin = n /\ ev.op = "done"
    BY PublishedEvents
  <2>2. phase[n] = "push" /\ Publish(n, ev, "drain")
    BY <1>9 DEF PublishReconcileDone
  <2>3. \/ Moved(n, "drain") /\ log' = Append(log, ev)
        \/ Moved(n, "ended") /\ log' \in {log, Append(log, ev)}
    BY <1>0, <2>1, <2>2, PublishType, PhasesApart
  <2> QED BY <2>1, <2>2, <2>3 DEF StepOf, SaysDone
<1> QED BY <1>4, <1>5, <1>6, <1>7, <1>8, <1>9

LEMMA OtherStepKinds ==
    ASSUME TypeOK, NEW n \in Node,
           \/ SkipOwn(n) \/ Fails(n) \/ BootstrapTimesOut(n)
           \/ \E f \in Path, c \in Content \cup {Absent} : UserEdit(n, f, c)
           \/ \E f \in File : Push(n, f)
           \/ \E f \in File : PublishChange(n, f)
           \/ Drain(n) \/ ReceiveLive(n)
    PROVE  StepOf(n)
<1>0. phase \in [Node -> Phase] /\ {"push", "live", "ended"} \subseteq Phase
  BY DEF TypeOK, Phase, SetUp
<1>1. CASE SkipOwn(n) \/ \E f \in Path, c \in Content \cup {Absent} : UserEdit(n, f, c)
  BY <1>1 DEF SkipOwn, UserEdit, StepOf, StaysPut
<1>2. CASE Fails(n) \/ BootstrapTimesOut(n)
  BY <1>0, <1>2, ReceiverEndsType, GotoType DEF Fails, BootstrapTimesOut, StepOf, Ends
<1>3. ASSUME NEW f \in File, Push(n, f)
      PROVE  StepOf(n)
  <2>1. CASE UNCHANGED <<phase, log>>
    BY <2>1 DEF StepOf, StaysPut
  <2>2. CASE disk[n][f] # Absent /\ Publish(n, WriteOf(n, f), "push")
    <3>1. /\ WriteOf(n, f) \in Event
          /\ WriteOf(n, f).origin = n /\ WriteOf(n, f).op # "done"
      BY <2>2, PublishedEvents DEF WriteOf
    <3>2. \/ Moved(n, "push") /\ log' = Append(log, WriteOf(n, f))
          \/ Moved(n, "ended") /\ log' \in {log, Append(log, WriteOf(n, f))}
      BY <1>0, <1>3, <2>2, <3>1, PublishType, PhasesApart DEF Push
    <3>3. phase[n] = "push" /\ "push" \in BeforeDone
      BY <1>3 DEF Push, BeforeDone, SetUp
    <3> QED BY <3>1, <3>2, <3>3 DEF StepOf, Speaks
  <2> QED BY <1>3, <2>1, <2>2 DEF Push
<1>4. ASSUME NEW f \in File, PublishChange(n, f)
      PROVE  StepOf(n)
  <2>1. CASE UNCHANGED <<phase, log>>
    BY <2>1 DEF StepOf, StaysPut
  <2>2. ASSUME NEW ev \in Event, ev.origin = n, ev.op # "done", Publish(n, ev, phase[n])
        PROVE  StepOf(n)
    <3>1. \/ Moved(n, phase[n]) /\ log' = Append(log, ev)
          \/ Moved(n, "ended") /\ log' \in {log, Append(log, ev)}
          \/ /\ Moved(n, "receiverOnly") /\ phase[n] = "live"
             /\ log' \in {log, Append(log, ev)}
      BY <1>0, <2>2, PublishType
    <3> QED BY <1>4, <2>2, <3>1 DEF StepOf, PublishesLive, PublishChange, Watching
  <2>3. CASE Publish(n, [op |-> "remove", origin |-> n, file |-> f], phase[n])
    <3> DEFINE ev == [op |-> "remove", origin |-> n, file |-> f]
    <3>1. ev \in Event /\ ev.origin = n /\ ev.op # "done"
      BY PublishedEvents
    <3> QED BY <2>2, <2>3, <3>1
  <2>4. CASE disk[n][f] # Absent /\ Publish(n, WriteOf(n, f), phase[n])
    <3>1. /\ WriteOf(n, f) \in Event
          /\ WriteOf(n, f).origin = n /\ WriteOf(n, f).op # "done"
      BY <2>4, PublishedEvents DEF WriteOf
    <3> QED BY <2>2, <2>4, <3>1
  <2> QED BY <1>4, <2>1, <2>3, <2>4 DEF PublishChange
<1>5. CASE Drain(n) \/ ReceiveLive(n)
  <2>1. log' = log
    BY <1>5 DEF Drain, ReceiveLive
  <2>2. CASE phase' = phase
    BY <2>1, <2>2 DEF StepOf, StaysPut
  <2>3. CASE ReceiverEnds(n)
    BY <1>0, <2>1, <2>3, ReceiverEndsType DEF StepOf, Ends
  <2>4. CASE /\ phase[n] = "drain" /\ HasIncoming(n) /\ Incoming(n).origin # n
             /\ Incoming(n).op = "done" /\ Goto(n, "live")
    <3>1. Moved(n, "live")
      BY <1>0, <2>4, GotoType
    <3>2. Incoming(n).origin \in Node
      BY <2>4, IncomingType, EventFields
    <3>3. Incoming(n).origin = Peer(n)
      BY <2>4, <3>2, EndsAreNodes
    <3>4. acked[n] + 1 \in 1..Len(log)
      BY <2>4 DEF HasIncoming, TypeOK
    <3>5. Done(Peer(n))
      BY <2>4, <3>3, <3>4 DEF Done, SaidDone, Incoming
    <3> QED BY <2>1, <2>4, <3>1, <3>5 DEF StepOf, StartsWatching
  <2> QED BY <1>5, <2>2, <2>3, <2>4 DEF Drain, ReceiveLive, ReceiveWrite
<1> QED BY <1>1, <1>2, <1>3, <1>4, <1>5

LEMMA StepKinds ==
    ASSUME TypeOK, Next
    PROVE  \E n \in Node : StepOf(n)
BY SetUpStepKinds, OtherStepKinds DEF Next, Step

LEMMA BarrierInit == Init => DoneInStep /\ LiveAfterBothDone
<1> SUFFICES ASSUME Init PROVE DoneInStep /\ LiveAfterBothDone
  OBVIOUS
<1>1. log = <<>> /\ Len(log) = 0 /\ 1..Len(log) = {}
  BY DEF Init
<1>2. \A n \in Node : phase[n] \in {"scan", "bootstrap", "awaitBootstrap"}
  BY DEF Init
<1> QED BY <1>1, <1>2 DEF DoneInStep, LiveAfterBothDone, LiveChanges, Done, Watching

\* A step that stores nothing.
LEMMA SilentStep ==
    ASSUME BarrierInv, NEW n \in Node, log' = log,
           StaysPut(n) \/ MovesOn(n) \/ Ends(n) \/ StartsWatching(n)
    PROVE  DoneInStep' /\ LiveAfterBothDone'
<1>1. /\ \A m \in Node : Done(m)' <=> Done(m)
      /\ LiveChanges' = LiveChanges
      /\ LiveAfterBothDone'
  BY SameStream DEF BarrierInv
<1>2. \A m \in Node : Peer(m) \in Node
  BY EndsAreNodes
<1>3. \A m \in Node \ {n} : phase'[m] = phase[m]
  BY DEF StaysPut, MovesOn, Ends, StartsWatching, Moved
<1> QED BY <1>1, <1>2, <1>3, PhasesApart
    DEF DoneInStep, Watching, BarrierInv, StaysPut, MovesOn, Ends, StartsWatching,
        Moved, BeforeDone

\* A step that stores an event.
LEMMA StoringStep ==
    ASSUME BarrierInv, NEW n \in Node, NEW ev \in Event, ev.origin = n,
           log' = Append(log, ev),
           Speaks(n, ev) \/ SaysDone(n, ev) \/ PublishesLive(n, ev)
    PROVE  /\ DoneInStep' /\ LiveAfterBothDone'
           /\ \A m \in Node : Done(m)' <=> Done(m) \/ (m = n /\ SaysDone(n, ev))
           /\ PublishesLive(n, ev) => LiveChanges' = LiveChanges \cup {Len(log) + 1}
           /\ ~PublishesLive(n, ev) => LiveChanges' = LiveChanges
<1>1. /\ log \in Seq(Event) /\ Len(log) \in Nat
      /\ DoneInStep /\ LiveAfterBothDone
  BY DEF BarrierInv, TypeOK
<1>2. /\ \A m \in Node : Done(m)' <=> Done(m) \/ (ev.op = "done" /\ m = n)
      /\ Done(n) => LiveChanges' = LiveChanges \cup {Len(log) + 1}
      /\ ~Done(n) => LiveChanges' = LiveChanges
      /\ \A m \in Node, i \in 1..Len(log) : SaidIn(log', m, i) <=> SaidIn(log, m, i)
  BY <1>1, OneMoreEvent, StreamIsOne, NextStreamIsOne
<1>3. /\ SaysDone(n, ev) <=> ev.op = "done"
      /\ PublishesLive(n, ev) => Watching(n)
      /\ ~PublishesLive(n, ev) => phase[n] \in BeforeDone
  BY PhasesApart DEF Speaks, SaysDone, PublishesLive
<1>4. /\ PublishesLive(n, ev) => \A m \in Node : Done(m)
      /\ ~PublishesLive(n, ev) => ~Done(n)
  BY <1>1, <1>3, EndsAreNodes DEF DoneInStep, BeforeDone
<1>5. /\ \A m \in Node \ {n} : phase'[m] = phase[m]
      /\ Speaks(n, ev) => phase'[n] \in BeforeDone \cup {"ended"}
      /\ SaysDone(n, ev) => phase'[n] \in {"drain", "ended"}
      /\ PublishesLive(n, ev) => phase'[n] \in {phase[n], "receiverOnly", "ended"}
  BY DEF Speaks, SaysDone, PublishesLive, Moved
<1>6. DoneInStep'
  <2> SUFFICES ASSUME NEW m \in Node
               PROVE  /\ phase'[m] \in SetUp \ {"drain"} => ~Done(m)'
                      /\ phase'[m] = "drain" => Done(m)'
                      /\ Watching(m)' => Done(m)' /\ Done(Peer(m))'
    BY DEF DoneInStep
  <2>1. Peer(m) \in Node
    BY EndsAreNodes
  <2>2. CASE m # n
    BY <1>1, <1>2, <1>5, <2>1, <2>2 DEF DoneInStep, Watching
  <2>3. CASE m = n /\ Speaks(n, ev)
    <3>1. ev.op # "done" /\ phase[n] \in BeforeDone /\ ~Done(n)
      BY <1>1, <2>3 DEF Speaks, DoneInStep, BeforeDone
    <3> QED BY <1>2, <1>5, <2>3, <3>1, PhasesApart DEF Watching
  <2>4. CASE m = n /\ SaysDone(n, ev)
    BY <1>2, <1>3, <1>5, <2>4, PhasesApart DEF Watching
  <2>5. CASE m = n /\ PublishesLive(n, ev)
    BY <1>2, <1>3, <1>4, <1>5, <2>1, <2>5, PhasesApart DEF Watching
  <2> QED BY <2>2, <2>3, <2>4, <2>5
<1>7. LiveAfterBothDone'
  <2> SUFFICES ASSUME NEW i \in LiveIn(log'), NEW m \in Node
               PROVE  \E k \in 1..(i - 1) : SaidIn(log', m, k)
    BY NextStreamIsOne DEF LiveAfterBothDone, SaidDone, SaidIn
  <2>1. CASE i \in LiveIn(log)
    <3>1. PICK k \in 1..(i - 1) : SaidIn(log, m, k)
      BY <1>1, <2>1, StreamIsOne DEF LiveAfterBothDone
    <3>2. k \in 1..Len(log)
      BY <1>1, <2>1, <3>1 DEF LiveIn
    <3> QED BY <1>2, <3>1, <3>2
  <2>2. CASE i \notin LiveIn(log)
    <3>1. i = Len(log) + 1 /\ Done(n)
      BY <1>2, <2>2, StreamIsOne, NextStreamIsOne
    <3>2. Done(m)
      BY <1>4, <3>1
    <3>3. PICK k \in 1..Len(log) : SaidIn(log, m, k)
      BY <3>2, StreamIsOne DEF DoneIn
    <3>4. k \in 1..(i - 1)
      BY <1>1, <3>1, <3>3
    <3> QED BY <1>2, <3>3, <3>4
  <2> QED BY <2>1, <2>2
<1> QED BY <1>2, <1>3, <1>4, <1>6, <1>7

LEMMA BarrierStep == BarrierInv /\ [Next]_vars => BarrierInv'
<1> SUFFICES ASSUME BarrierInv, [Next]_vars PROVE BarrierInv'
  OBVIOUS
<1>1. TypeOK'
  BY TypeStep DEF BarrierInv
<1>2. CASE UNCHANGED vars
  BY <1>1, <1>2, SilentStep, EndsAreNodes DEF vars, StaysPut, BarrierInv
<1>3. CASE Next
  <2>1. PICK n \in Node : StepOf(n)
    BY <1>3, StepKinds DEF BarrierInv
  <2>2. CASE StaysPut(n) \/ MovesOn(n) \/ Ends(n) \/ StartsWatching(n)
    BY <1>1, <2>2, SilentStep DEF BarrierInv, StaysPut, MovesOn, Ends, StartsWatching
  <2>3. ASSUME NEW ev \in Event, ev.origin = n,
               Speaks(n, ev) \/ SaysDone(n, ev) \/ PublishesLive(n, ev)
        PROVE  BarrierInv'
    <3>1. CASE log' = Append(log, ev)
      BY <1>1, <2>3, <3>1, StoringStep DEF BarrierInv
    <3>2. CASE log' # Append(log, ev)
      <4>1. log' = log /\ Ends(n)
        BY <2>3, <3>2 DEF Speaks, SaysDone, PublishesLive, Ends
      <4> QED BY <1>1, <4>1, SilentStep DEF BarrierInv
    <3> QED BY <3>1, <3>2
  <2> QED BY <2>1, <2>2, <2>3 DEF StepOf
<1> QED BY <1>2, <1>3

LEMMA BarrierHolds == Spec => []BarrierInv
<1>1. Init => BarrierInv
  BY InitType, BarrierInit DEF BarrierInv
<1> QED BY <1>1, BarrierStep, PTL DEF Spec

\* No live change is in the stream before both nodes have said "done".
THEOREM LiveChangesWait == Spec => []LiveAfterBothDone
<1>1. BarrierInv => LiveAfterBothDone
  BY DEF BarrierInv
<1> QED BY <1>1, BarrierHolds, PTL

-----------------------------------------------------------------------------
\* Set-up implements Barrier.

LEMMA GateInit == Init => Gate!Init
<1> SUFFICES ASSUME Init PROVE Gate!Init
  OBVIOUS
<1>1. log = <<>> /\ Len(log) = 0 /\ 1..Len(log) = {}
  BY DEF Init
<1>2. \A n \in Node : phase[n] \in {"scan", "bootstrap", "awaitBootstrap"}
  BY DEF Init
<1> QED BY <1>1, <1>2 DEF Gate!Init, LiveChanges, Done, Watching

\* A step that stores nothing moves at most one node in or out.
LEMMA SilentGate ==
    ASSUME BarrierInv, NEW n \in Node, log' = log,
           StaysPut(n) \/ MovesOn(n) \/ Ends(n) \/ StartsWatching(n)
    PROVE  [Gate!Next]_(Gate!barrierVars)
<1> DEFINE told == {m \in Node : Done(m)}
           watching == {m \in Node : Watching(m)}
<1>1. told' = told /\ LiveChanges' = LiveChanges
  BY SameStream
<1>2. CASE StaysPut(n)
  BY <1>1, <1>2 DEF StaysPut, Watching, Gate!barrierVars
<1>3. \A m \in Node \ {n} : phase'[m] = phase[m]
  BY DEF StaysPut, MovesOn, Ends, StartsWatching, Moved
<1>4. CASE MovesOn(n)
  <2>1. ~Watching(n) /\ ~Watching(n)'
    BY <1>4, PhasesApart DEF MovesOn, Moved, Watching
  <2>2. watching' = watching
    BY <1>3, <2>1 DEF Watching
  <2> QED BY <1>1, <2>2 DEF Gate!barrierVars
<1>5. CASE Ends(n)
  <2>1. watching' = watching \/ watching' = watching \ {n}
    BY <1>3, <1>5 DEF Ends, Moved, Watching
  <2> QED BY <1>1, <2>1 DEF Gate!barrierVars, Gate!Next, Gate!Leave
<1>6. CASE StartsWatching(n)
  <2>1. Done(n) /\ Done(Peer(n))
    BY <1>6 DEF StartsWatching, BarrierInv, DoneInStep
  <2>2. told = Node
    BY <2>1, EndsAreNodes
  <2>3. watching' = watching \cup {n}
    BY <1>3, <1>6 DEF StartsWatching, Moved, Watching
  <2> QED BY <1>1, <2>2, <2>3 DEF Gate!Next, Gate!Enter
<1> QED BY <1>2, <1>4, <1>5, <1>6

LEMMA StoringGate ==
    ASSUME BarrierInv, NEW n \in Node, NEW ev \in Event, ev.origin = n,
           log' = Append(log, ev),
           Speaks(n, ev) \/ SaysDone(n, ev) \/ PublishesLive(n, ev)
    PROVE  [Gate!Next]_(Gate!barrierVars)
<1> DEFINE told == {m \in Node : Done(m)}
           watching == {m \in Node : Watching(m)}
<1>1. /\ \A m \in Node : Done(m)' <=> Done(m) \/ (m = n /\ SaysDone(n, ev))
      /\ PublishesLive(n, ev) => LiveChanges' = LiveChanges \cup {Len(log) + 1}
      /\ ~PublishesLive(n, ev) => LiveChanges' = LiveChanges
  BY StoringStep
<1>2. \A m \in Node \ {n} : phase'[m] = phase[m]
  BY DEF Speaks, SaysDone, PublishesLive, Moved
<1>3. CASE Speaks(n, ev)
  <2>1. ~Watching(n) /\ ~Watching(n)'
    BY <1>3, PhasesApart DEF Speaks, Moved, Watching
  <2>2. watching' = watching
    BY <1>2, <2>1 DEF Watching
  <2>3. ~SaysDone(n, ev) /\ ~PublishesLive(n, ev)
    BY <1>3, <2>1 DEF Speaks, SaysDone, PublishesLive
  <2> QED BY <1>1, <2>2, <2>3 DEF Gate!barrierVars
<1>4. CASE SaysDone(n, ev)
  <2>1. ~Watching(n) /\ ~Watching(n)'
    BY <1>4 DEF SaysDone, Moved, Watching
  <2>2. watching' = watching /\ n \notin watching
    BY <1>2, <2>1 DEF Watching
  <2>3. ~PublishesLive(n, ev)
    BY <2>1 DEF PublishesLive
  <2>4. told' = told \cup {n}
    BY <1>1, <1>4
  <2> QED BY <1>1, <2>2, <2>3, <2>4 DEF Gate!Next, Gate!Tell
<1>5. CASE PublishesLive(n, ev)
  <2>1. ~SaysDone(n, ev) /\ n \in watching
    BY <1>5 DEF SaysDone, PublishesLive
  <2>2. told' = told
    BY <1>1, <2>1
  <2>3. LiveChanges' = LiveChanges \cup {Len(log) + 1} /\ Len(log) + 1 \in LiveChanges'
    BY <1>1, <1>5
  <2>4. CASE Moved(n, phase[n])
    <3>1. watching' = watching
      BY <1>2, <2>4 DEF Moved, Watching
    <3> QED BY <2>1, <2>2, <2>3, <3>1 DEF Gate!Next, Gate!Change
  <2>5. CASE Moved(n, "ended") \/ Moved(n, "receiverOnly")
    <3>1. watching' = watching \ {n}
      BY <1>2, <2>5 DEF Moved, Watching
    <3> QED BY <2>1, <2>2, <2>3, <3>1 DEF Gate!Next, Gate!Leave
  <2> QED BY <1>5, <2>4, <2>5 DEF PublishesLive
<1> QED BY <1>3, <1>4, <1>5

LEMMA GateStep == BarrierInv /\ [Next]_vars => [Gate!Next]_(Gate!barrierVars)
<1> SUFFICES ASSUME BarrierInv, [Next]_vars PROVE [Gate!Next]_(Gate!barrierVars)
  OBVIOUS
<1>1. CASE UNCHANGED vars
  BY <1>1, SilentGate, EndsAreNodes DEF vars, StaysPut
<1>2. CASE Next
  <2>1. PICK n \in Node : StepOf(n)
    BY <1>2, StepKinds DEF BarrierInv
  <2>2. CASE StaysPut(n) \/ MovesOn(n) \/ Ends(n) \/ StartsWatching(n)
    BY <2>2, SilentGate DEF StaysPut, MovesOn, Ends, StartsWatching
  <2>3. ASSUME NEW ev \in Event, ev.origin = n,
               Speaks(n, ev) \/ SaysDone(n, ev) \/ PublishesLive(n, ev)
        PROVE  [Gate!Next]_(Gate!barrierVars)
    <3>1. CASE log' = Append(log, ev)
      BY <2>3, <3>1, StoringGate
    <3>2. CASE log' # Append(log, ev)
      <4>1. log' = log /\ Ends(n)
        BY <2>3, <3>2 DEF Speaks, SaysDone, PublishesLive, Ends
      <4> QED BY <4>1, SilentGate
    <3> QED BY <3>1, <3>2
  <2> QED BY <2>1, <2>2, <2>3 DEF StepOf
<1> QED BY <1>1, <1>2

\* Whatever fails, is lost or is delivered again, nobody watches its tree or
\* publishes a live change before both ends have pushed their half.
THEOREM SetUpImplementsBarrier == Spec => ImplementsBarrier
<1> QED BY GateInit, GateStep, BarrierHolds, PTL
        DEF Spec, ImplementsBarrier, Gate!Spec

-----------------------------------------------------------------------------
\* The two ends stay in step.

\* The message n introduces itself with; what it has said, and what it has read
\* of its peer.
Hello(n) == IF n = Initiator THEN "bootstrap" ELSE "bootstrapAck"
Says(s, m, i, op) == s[i].origin = m /\ s[i].op = op
HasSaid(n, op) == \E i \in 1..Len(log) : Says(log, n, i, op)
HasRead(n, op) == \E i \in 1..acked[n] : Says(log, Peer(n), i, op)

Roles ==
    \A n \in Node :
        /\ ~Over(n)
        /\ phase[n] \in {"bootstrap", "awaitBootstrapAck"} => enc /\ n = Initiator
        /\ phase[n] \in {"awaitBootstrap", "answer"} => enc /\ n = Responder

\* A node's phase tells what it has said and read.
SaidSoFar ==
    \A n \in Node :
        /\ enc => (HasSaid(n, Hello(n))
                     <=> phase[n] \notin {"bootstrap", "awaitBootstrap", "answer"})
        /\ HasSaid(n, "manifest") <=> phase[n] \in {"awaitManifest", "push", "drain", "live"}
        /\ HasSaid(n, "done") <=> phase[n] \in {"drain", "live"}
ReadSoFar ==
    \A n \in Node :
        /\ enc => (HasRead(n, Hello(Peer(n)))
                     <=> phase[n] \notin {"bootstrap", "awaitBootstrap", "awaitBootstrapAck"})
        /\ HasRead(n, "manifest") <=> phase[n] \in {"push", "drain", "live"}
        /\ HasRead(n, "done") <=> phase[n] = "live"

\* The order of each author's events in the stream.
Once == {"bootstrap", "bootstrapAck", "manifest", "done"}
Earlier(i, op) == \E k \in 1..(i - 1) : Says(log, log[i].origin, k, op)
PlacedWell(i) ==
    /\ log[i].op \in {"bootstrap", "bootstrapAck"} => enc /\ log[i].op = Hello(log[i].origin)
    /\ log[i].op = "manifest" /\ enc => Earlier(i, Hello(log[i].origin))
    /\ log[i].op \in {"write", "remove", "done"} => Earlier(i, "manifest")
    /\ log[i].op = "remove" => Earlier(i, "done")
    /\ log[i].op \in Once => ~Earlier(i, log[i].op)
InOrder == \A i \in 1..Len(log) : PlacedWell(i)

\* The writes of m, sealed by its chain one after the other: what n has read of
\* them is what its own chain has opened.
Sealed(m) == {i \in 1..Len(log) : Says(log, m, i, "write")}
SealedBySeq(m) ==
    /\ \A i \in Sealed(m) : log[i].seq < sendSeq[m]
    /\ \A i, j \in Sealed(m) : i < j => log[i].seq < log[j].seq
    /\ \A s \in Nat : s < sendSeq[m] => \E i \in Sealed(m) : log[i].seq = s
OpenedSoFar(n) ==
    /\ \A i \in Sealed(Peer(n)) : i <= acked[n] <=> log[i].seq < recvSeq[n]
    /\ recvSeq[n] <= sendSeq[Peer(n)]
ChainsMeet == enc => \A n \in Node : SealedBySeq(n) /\ OpenedSoFar(n)

InStep == Roles /\ SaidSoFar /\ ReadSoFar /\ InOrder /\ ChainsMeet

\* Nothing has failed and no acknowledgement was lost.
Calmly == failures = 0 /\ lostAcks = 0
StepInv == TypeOK /\ (Calmly => InStep)

LEMMA OpsOfEvents ==
    ASSUME NEW ev \in Event
    PROVE  /\ ev.op \in {"bootstrap", "bootstrapAck", "manifest", "done", "write", "remove"}
           /\ ev.op = "write" => ev.seq \in Nat
BY DEF Event, ControlEvent, ManifestEvent, WriteEvent, RemoveEvent

\* The next event of the peer is one n's phase has a place for.
Fits(n, op) ==
    \/ phase[n] = "awaitBootstrap" /\ op = "bootstrap"
    \/ phase[n] = "awaitBootstrapAck" /\ op = "bootstrapAck"
    \/ phase[n] = "awaitManifest" /\ op = "manifest"
    \/ phase[n] = "drain" /\ op \in {"write", "done"}
    \/ phase[n] = "live" /\ op \in {"write", "remove", "bootstrap", "bootstrapAck"}

LEMMA NextFits ==
    ASSUME TypeOK, InStep, NEW n \in Node, HasIncoming(n), Incoming(n).origin # n,
           phase[n] \in {"awaitBootstrap", "awaitBootstrapAck", "awaitManifest",
                         "drain", "live"}
    PROVE  Fits(n, Incoming(n).op)
<1> DEFINE i == acked[n] + 1
           op == Incoming(n).op
<1>0. /\ acked[n] \in Nat /\ Len(log) \in Nat /\ log \in Seq(Event)
      /\ acked[n] < Len(log) /\ Incoming(n) = log[i]
  BY DEF TypeOK, HasIncoming, Incoming
<1>1. /\ i \in 1..Len(log) /\ i - 1 = acked[n]
      /\ log[i] \in Event /\ Incoming(n) = log[i]
  BY <1>0
<1>2. log[i].origin = Peer(n)
  BY <1>1, EventFields, EndsAreNodes
<1>3. \A o : Earlier(i, o) <=> HasRead(n, o)
  BY <1>1, <1>2 DEF Earlier, HasRead
<1>4. PlacedWell(i)
  BY <1>1 DEF InStep, InOrder
<1>5. /\ op \in {"bootstrap", "bootstrapAck"} => enc /\ op = Hello(Peer(n))
      /\ op = "manifest" /\ enc => HasRead(n, Hello(Peer(n)))
      /\ op \in {"write", "remove", "done"} => HasRead(n, "manifest")
      /\ op = "remove" => HasRead(n, "done")
      /\ op \in Once => ~HasRead(n, op)
  BY <1>1, <1>2, <1>3, <1>4 DEF PlacedWell
<1>6. op \in {"bootstrap", "bootstrapAck", "manifest", "done", "write", "remove"}
  BY <1>1, OpsOfEvents
<1>7. /\ enc => (HasRead(n, Hello(Peer(n)))
                   <=> phase[n] \notin {"bootstrap", "awaitBootstrap", "awaitBootstrapAck"})
      /\ HasRead(n, "manifest") <=> phase[n] \in {"push", "drain", "live"}
      /\ HasRead(n, "done") <=> phase[n] = "live"
  BY DEF InStep, ReadSoFar
<1>8. /\ phase[n] \in {"bootstrap", "awaitBootstrapAck"} => enc /\ n = Initiator
      /\ phase[n] \in {"awaitBootstrap", "answer"} => enc /\ n = Responder
  BY DEF InStep, Roles
<1>9. /\ n = Initiator => Hello(Peer(n)) = "bootstrapAck"
      /\ n = Responder => Hello(Peer(n)) = "bootstrap"
  BY SessionAssumption DEF Hello, Peer
<1> HIDE DEF op
<1>10. CASE phase[n] \in {"awaitBootstrap", "awaitBootstrapAck"}
  <2>1. ~HasRead(n, Hello(Peer(n))) /\ ~HasRead(n, "manifest") /\ enc
    BY <1>7, <1>8, <1>10
  <2>2. op \in {"bootstrap", "bootstrapAck"} /\ op = Hello(Peer(n))
    BY <1>5, <1>6, <2>1
  <2> QED BY <1>8, <1>9, <1>10, <2>2 DEF Fits, op
<1>11. CASE phase[n] = "awaitManifest"
  BY <1>5, <1>6, <1>7, <1>11 DEF Fits, Once, op
<1>12. CASE phase[n] = "drain"
  BY <1>5, <1>6, <1>7, <1>12 DEF Fits, Once, op
<1>13. CASE phase[n] = "live"
  BY <1>5, <1>6, <1>7, <1>13 DEF Fits, Once, op
<1> QED BY <1>10, <1>11, <1>12, <1>13

\* ... and a write opens.
LEMMA NextOpens ==
    ASSUME TypeOK, InStep, NEW n \in Node, HasIncoming(n), Incoming(n).origin # n,
           Incoming(n).op = "write"
    PROVE  Opens(n, Incoming(n))
<1> SUFFICES ASSUME enc PROVE Incoming(n).seq = recvSeq[n]
  BY DEF Opens
<1> DEFINE i == acked[n] + 1
           m == Peer(n)
<1>1. /\ i \in 1..Len(log) /\ acked[n] \in Nat /\ ~(i <= acked[n])
      /\ log[i] \in Event /\ Incoming(n) = log[i]
  BY DEF TypeOK, HasIncoming, Incoming
<1>2. log[i].origin = m /\ m \in Node
  BY <1>1, EventFields, EndsAreNodes
<1>3. i \in Sealed(m)
  BY <1>1, <1>2 DEF Sealed, Says
<1>4. SealedBySeq(m) /\ OpenedSoFar(n)
  BY <1>2 DEF InStep, ChainsMeet
<1>5. /\ log[i].seq \in Nat /\ recvSeq[n] \in Nat /\ sendSeq[m] \in Nat
  BY <1>1, <1>2, OpsOfEvents DEF TypeOK
<1>6. ~(log[i].seq < recvSeq[n]) /\ log[i].seq < sendSeq[m]
  BY <1>1, <1>3, <1>4 DEF SealedBySeq, OpenedSoFar
<1>7. CASE recvSeq[n] < log[i].seq
  <2>1. recvSeq[n] < sendSeq[m]
    BY <1>5, <1>6, <1>7
  <2>2. PICK j \in Sealed(m) : log[j].seq = recvSeq[n]
    BY <1>4, <1>5, <2>1 DEF SealedBySeq
  <2>3. ~(j <= acked[n]) /\ j \in Nat
    BY <1>4, <1>5, <2>2 DEF OpenedSoFar, Sealed
  <2>4. j # i
    BY <1>5, <1>7, <2>2
  <2>5. i < j
    BY <1>1, <2>3, <2>4
  <2>6. log[i].seq < log[j].seq
    BY <1>3, <1>4, <2>5 DEF SealedBySeq
  <2> QED BY <1>5, <1>7, <2>2, <2>6
<1> QED BY <1>1, <1>5, <1>6, <1>7

\* All that a step of n may do to what InStep is about.
ChainsStay == sendSeq' = sendSeq /\ recvSeq' = recvSeq

\* What n may say in its phase, and where that takes it.
Line(n, op, next) ==
    \/ phase[n] = "bootstrap" /\ op = "bootstrap" /\ next = "awaitBootstrapAck"
    \/ phase[n] = "answer" /\ op = "bootstrapAck" /\ next = "scan"
    \/ phase[n] = "publishManifest" /\ op = "manifest" /\ next = "awaitManifest"
    \/ phase[n] = "push" /\ op = "done" /\ next = "drain"
    \/ phase[n] \in {"push", "live"} /\ op = "write" /\ next = phase[n]
    \/ phase[n] = "live" /\ op = "remove" /\ next = phase[n]
Utters(n, ev, next) ==
    /\ ev.origin = n /\ Line(n, ev.op, next)
    /\ log' = Append(log, ev) /\ Moved(n, next) /\ acked' = acked /\ recvSeq' = recvSeq
    /\ ev.op = "write" => ev.seq = sendSeq[n]
    /\ sendSeq' = IF enc /\ ev.op = "write" THEN [sendSeq EXCEPT ![n] = @ + 1] ELSE sendSeq

\* What n may hear of its peer, and where that takes it.
Cue(n, op, next) ==
    \/ phase[n] = "awaitBootstrap" /\ op = "bootstrap" /\ next = "answer"
    \/ phase[n] = "awaitBootstrapAck" /\ op = "bootstrapAck" /\ next = "scan"
    \/ phase[n] = "awaitManifest" /\ op = "manifest" /\ next = "push"
    \/ phase[n] = "drain" /\ op = "done" /\ next = "live"
    \/ phase[n] \in {"drain", "live"} /\ op = "write" /\ next = phase[n]
    \/ phase[n] = "live" /\ op \in {"remove", "bootstrap", "bootstrapAck"} /\ next = phase[n]
Hears(n, next) ==
    /\ HasIncoming(n)
    /\ acked' = [acked EXCEPT ![n] = @ + 1]
    /\ log' = log /\ Moved(n, next) /\ sendSeq' = sendSeq
    /\ \/ Incoming(n).origin = n /\ next = phase[n] /\ recvSeq' = recvSeq
       \/ /\ Incoming(n).origin # n /\ Cue(n, Incoming(n).op, next)
          /\ Incoming(n).op = "write" => Opens(n, Incoming(n))
          /\ recvSeq' = IF enc /\ Incoming(n).op = "write"
                        THEN [recvSeq EXCEPT ![n] = @ + 1] ELSE recvSeq

Idles == log' = log /\ acked' = acked /\ phase' = phase /\ ChainsStay
Looks(n) ==
    /\ phase[n] = "scan" /\ Moved(n, "publishManifest")
    /\ log' = log /\ acked' = acked /\ ChainsStay
\* n meets an event its phase has no place for, or one of the two is gone already.
LosesStep(n) ==
    \/ /\ HasIncoming(n) /\ Incoming(n).origin # n
       /\ phase[n] \in {"awaitBootstrap", "awaitBootstrapAck", "awaitManifest",
                        "drain", "live"}
       /\ \/ ~Fits(n, Incoming(n).op)
          \/ Incoming(n).op = "write" /\ ~Opens(n, Incoming(n))
    \/ \E m \in Node : Over(m)

CalmKind(n) ==
    \/ \E ev \in Event : \E next \in Phase : Utters(n, ev, next)
    \/ \E next \in Phase : Hears(n, next)
    \/ Idles \/ Looks(n) \/ LosesStep(n)

LEMMA PublishCalm ==
    ASSUME TypeOK, Calmly, Calmly', NEW n \in Node, NEW ev \in Event, NEW next \in Phase,
           Publish(n, ev, next)
    PROVE  log' = Append(log, ev) /\ Moved(n, next)
<1>1. failures' # failures + 1
  BY DEF Calmly
<1>2. log' = Append(log, ev) /\ Goto(n, next) /\ phase \in [Node -> Phase]
  BY <1>1 DEF Publish, TypeOK
<1> QED BY <1>2, GotoType

LEMMA AckCalm ==
    ASSUME Calmly, Calmly', NEW n \in Node, Ack(n)
    PROVE  acked' = [acked EXCEPT ![n] = @ + 1]
<1>1. lostAcks' # lostAcks + 1
  BY DEF Calmly
<1> QED BY <1>1 DEF Ack

LEMMA AwaitCalm ==
    ASSUME TypeOK, Calmly, Calmly', NEW n \in Node, NEW op, NEW next \in Phase,
           AwaitControl(n, op, next), log' = log, ChainsStay,
           phase[n] \in {"awaitBootstrap", "awaitBootstrapAck", "awaitManifest"},
           op # "write", Cue(n, op, next), \A o : Fits(n, o) => o = op
    PROVE  CalmKind(n)
<1>1. CASE Incoming(n).op = op /\ Ack(n) /\ Goto(n, next)
  <2>1. Moved(n, next)
    BY <1>1, GotoType DEF TypeOK
  <2> QED BY <1>1, <2>1, AckCalm DEF AwaitControl, Hears, CalmKind, ChainsStay
<1>2. CASE Incoming(n).op # op
  BY <1>2 DEF AwaitControl, LosesStep, CalmKind
<1> QED BY <1>1, <1>2 DEF AwaitControl

LEMMA SetUpCalm ==
    ASSUME TypeOK, Calmly, Calmly', NEW n \in Node,
           \/ PublishBootstrap(n) \/ ReceiveBootstrap(n)
           \/ PublishBootstrapAck(n) \/ ReceiveBootstrapAck(n)
           \/ ScanManifest(n) \/ PublishManifest(n) \/ ReceiveManifest(n)
           \/ PublishReconcileDone(n)
    PROVE  CalmKind(n)
<1>0. /\ phase \in [Node -> Phase]
      /\ SetUp \subseteq Phase
      /\ {"bootstrap", "awaitBootstrap", "awaitBootstrapAck", "answer", "scan",
          "publishManifest", "awaitManifest", "push", "drain"} \subseteq Phase
  BY DEF TypeOK, Phase, SetUp
<1>1. ASSUME NEW ev \in Event, NEW next \in Phase, ev.origin = n, ev.op # "write",
             Line(n, ev.op, next), Publish(n, ev, next), acked' = acked, ChainsStay
      PROVE  CalmKind(n)
  BY <1>1, PublishCalm DEF CalmKind, Utters, ChainsStay
<1>2. CASE PublishBootstrap(n)
  <2> DEFINE ev == [op |-> "bootstrap", origin |-> n]
  <2>1. ev \in Event /\ ev.origin = n /\ ev.op = "bootstrap"
    BY PublishedEvents
  <2>2. /\ Publish(n, ev, "awaitBootstrapAck") /\ acked' = acked /\ ChainsStay
        /\ Line(n, "bootstrap", "awaitBootstrapAck")
    BY <1>2 DEF PublishBootstrap, controlUnchanged, chainVars, ChainsStay, Line
  <2> QED BY <1>0, <1>1, <2>1, <2>2
<1>3. CASE PublishBootstrapAck(n)
  <2> DEFINE ev == [op |-> "bootstrapAck", origin |-> n]
  <2>1. ev \in Event /\ ev.origin = n /\ ev.op = "bootstrapAck"
    BY PublishedEvents
  <2>2. /\ Publish(n, ev, "scan") /\ acked' = acked /\ ChainsStay
        /\ Line(n, "bootstrapAck", "scan")
    BY <1>3 DEF PublishBootstrapAck, controlUnchanged, chainVars, ChainsStay, Line
  <2> QED BY <1>0, <1>1, <2>1, <2>2
<1>4. CASE PublishManifest(n)
  <2> DEFINE ev == [op |-> "manifest", origin |-> n, files |-> manifest[n]]
  <2>1. ev \in Event /\ ev.origin = n /\ ev.op = "manifest"
    BY PublishedEvents
  <2>2. /\ Publish(n, ev, "awaitManifest") /\ acked' = acked /\ ChainsStay
        /\ Line(n, "manifest", "awaitManifest")
    BY <1>4 DEF PublishManifest, controlUnchanged, chainVars, ChainsStay, Line
  <2> QED BY <1>0, <1>1, <2>1, <2>2
<1>5. CASE PublishReconcileDone(n)
  <2> DEFINE ev == [op |-> "done", origin |-> n]
  <2>1. ev \in Event /\ ev.origin = n /\ ev.op = "done"
    BY PublishedEvents
  <2>2. /\ Publish(n, ev, "drain") /\ acked' = acked /\ ChainsStay
        /\ Line(n, "done", "drain")
    BY <1>5 DEF PublishReconcileDone, controlUnchanged, chainVars, ChainsStay, Line
  <2> QED BY <1>0, <1>1, <2>1, <2>2
<1>6. CASE ReceiveBootstrap(n)
  <2>1. /\ phase[n] = "awaitBootstrap" /\ AwaitControl(n, "bootstrap", "answer")
        /\ log' = log /\ ChainsStay
    BY <1>6 DEF ReceiveBootstrap, controlUnchanged, chainVars, ChainsStay
  <2>2. Cue(n, "bootstrap", "answer") /\ \A o : Fits(n, o) => o = "bootstrap"
    BY <2>1 DEF Cue, Fits
  <2> QED BY <1>0, <2>1, <2>2, AwaitCalm
<1>7. CASE ReceiveBootstrapAck(n)
  <2>1. /\ phase[n] = "awaitBootstrapAck" /\ AwaitControl(n, "bootstrapAck", "scan")
        /\ log' = log /\ ChainsStay
    BY <1>7 DEF ReceiveBootstrapAck, controlUnchanged, chainVars, ChainsStay
  <2>2. Cue(n, "bootstrapAck", "scan") /\ \A o : Fits(n, o) => o = "bootstrapAck"
    BY <2>1 DEF Cue, Fits
  <2> QED BY <1>0, <2>1, <2>2, AwaitCalm
<1>8. CASE ReceiveManifest(n)
  <2>1. /\ phase[n] = "awaitManifest" /\ AwaitControl(n, "manifest", "push")
        /\ log' = log /\ ChainsStay
    BY <1>8 DEF ReceiveManifest, controlUnchanged, chainVars, ChainsStay
  <2>2. Cue(n, "manifest", "push") /\ \A o : Fits(n, o) => o = "manifest"
    BY <2>1 DEF Cue, Fits
  <2> QED BY <1>0, <2>1, <2>2, AwaitCalm
<1>9. CASE ScanManifest(n)
  BY <1>0, <1>9, GotoType
     DEF ScanManifest, controlUnchanged, chainVars, ChainsStay, CalmKind, Looks
<1> QED BY <1>2, <1>3, <1>4, <1>5, <1>6, <1>7, <1>8, <1>9

LEMMA ReceiveWriteCalm ==
    ASSUME TypeOK, Calmly, Calmly', NEW n \in Node, phase[n] \in {"drain", "live"},
           HasIncoming(n), Incoming(n).origin # n, ReceiveWrite(n), log' = log,
           sendSeq' = sendSeq
    PROVE  CalmKind(n)
<1>1. CASE ~Opens(n, Incoming(n))
  BY <1>1 DEF ReceiveWrite, LosesStep, CalmKind
<1>2. CASE Opens(n, Incoming(n))
  <2>1. /\ Incoming(n).op = "write" /\ Ack(n) /\ phase' = phase
        /\ recvSeq' = IF enc THEN [recvSeq EXCEPT ![n] = @ + 1] ELSE recvSeq
    BY <1>2 DEF ReceiveWrite
  <2>2. Moved(n, phase[n]) /\ phase[n] \in Phase
    BY <2>1 DEF Moved, TypeOK
  <2>3. Cue(n, "write", phase[n])
    BY DEF Cue
  <2> QED BY <1>2, <2>1, <2>2, <2>3, AckCalm DEF CalmKind, Hears
<1> QED BY <1>1, <1>2

LEMMA ReceivingCalm ==
    ASSUME TypeOK, Calmly, Calmly', NEW n \in Node, ~Over(n), Drain(n) \/ ReceiveLive(n)
    PROVE  CalmKind(n)
<1>0. /\ phase \in [Node -> Phase] /\ "live" \in Phase /\ phase[n] \in Phase
      /\ log' = log /\ sendSeq' = sendSeq
      /\ phase[n] \in {"drain", "live"} /\ HasIncoming(n) /\ Incoming(n).origin # n
  BY DEF Drain, ReceiveLive, TypeOK, Phase, Over
<1>1. CASE ReceiveWrite(n)
  BY <1>0, <1>1, ReceiveWriteCalm
<1>2. CASE /\ phase[n] = "drain" /\ Incoming(n).op = "done" /\ Ack(n)
           /\ Goto(n, "live") /\ recvSeq' = recvSeq
  <2>1. Moved(n, "live") /\ Cue(n, "done", "live")
    BY <1>0, <1>2, GotoType DEF Cue
  <2> QED BY <1>0, <1>2, <2>1, AckCalm DEF CalmKind, Hears
<1>3. CASE /\ phase[n] = "live" /\ Incoming(n).op \in {"remove", "bootstrap", "bootstrapAck"}
           /\ Ack(n) /\ phase' = phase /\ recvSeq' = recvSeq
  <2>1. Moved(n, phase[n]) /\ Cue(n, Incoming(n).op, phase[n]) /\ Incoming(n).op # "write"
    BY <1>0, <1>3 DEF Cue, Moved
  <2> QED BY <1>0, <1>3, <2>1, AckCalm DEF CalmKind, Hears
<1>4. CASE ~Fits(n, Incoming(n).op)
  BY <1>0, <1>4 DEF CalmKind, LosesStep
<1> QED BY <1>1, <1>2, <1>3, <1>4 DEF Drain, ReceiveLive, Fits

LEMMA OtherCalm ==
    ASSUME TypeOK, Calmly, Calmly', NEW n \in Node,
           \/ SkipOwn(n) \/ Fails(n) \/ BootstrapTimesOut(n)
           \/ \E f \in Path, c \in Content \cup {Absent} : UserEdit(n, f, c)
           \/ \E f \in File : Push(n, f)
           \/ \E f \in File : PublishChange(n, f)
    PROVE  CalmKind(n)
<1>0. /\ phase \in [Node -> Phase] /\ phase[n] \in Phase
      /\ failures' = failures /\ failures' # failures + 1
  BY DEF TypeOK, Calmly
<1>1. CASE SkipOwn(n)
  <2>1. Moved(n, phase[n])
    BY <1>0, <1>1 DEF SkipOwn, Moved
  <2> QED BY <1>0, <1>1, <2>1, AckCalm DEF SkipOwn, CalmKind, Hears, chainVars
<1>2. CASE Fails(n)
  BY <1>0, <1>2 DEF Fails
<1>3. CASE BootstrapTimesOut(n)
  BY <1>0, <1>3, EndsAreNodes DEF BootstrapTimesOut, CalmKind, LosesStep
<1>4. CASE \E f \in Path, c \in Content \cup {Absent} : UserEdit(n, f, c)
  BY <1>4 DEF UserEdit, CalmKind, Idles, ChainsStay, chainVars
<1>5. ASSUME NEW f \in File, NEW next \in Phase, next = phase[n],
             phase[n] \in {"push", "live"}, disk[n][f] # Absent,
             Publish(n, WriteOf(n, f), next), StampAndSeal(n, f),
             acked' = acked, recvSeq' = recvSeq
      PROVE  CalmKind(n)
  <2>1. /\ WriteOf(n, f) \in Event /\ WriteOf(n, f).origin = n
        /\ WriteOf(n, f).op = "write" /\ WriteOf(n, f).seq = sendSeq[n]
    BY <1>5, PublishedEvents DEF WriteOf
  <2>2. log' = Append(log, WriteOf(n, f)) /\ Moved(n, next)
    BY <1>5, <2>1, PublishCalm
  <2>3. Line(n, "write", next)
    BY <1>5 DEF Line
  <2> QED BY <1>5, <2>1, <2>2, <2>3 DEF CalmKind, Utters, StampAndSeal
<1>6. ASSUME NEW f \in File, Push(n, f)
      PROVE  CalmKind(n)
  <2>1. CASE UNCHANGED <<phase, log, failures, versions, sendSeq>>
    BY <1>6, <2>1 DEF Push, CalmKind, Idles, ChainsStay
  <2>2. CASE disk[n][f] # Absent /\ Publish(n, WriteOf(n, f), "push") /\ StampAndSeal(n, f)
    BY <1>0, <1>5, <1>6, <2>2 DEF Push
  <2> QED BY <1>6, <2>1, <2>2 DEF Push
<1>7. ASSUME NEW f \in File, PublishChange(n, f), ~Over(n)
      PROVE  CalmKind(n)
  <2>0. phase[n] = "live"
    BY <1>7 DEF PublishChange, Over
  <2>1. CASE UNCHANGED <<phase, log, failures, versions, sendSeq>>
    BY <1>7, <2>1 DEF PublishChange, CalmKind, Idles, ChainsStay
  <2>2. CASE /\ Publish(n, [op |-> "remove", origin |-> n, file |-> f], phase[n])
             /\ UNCHANGED <<echo, versions, sendSeq>>
    <3> DEFINE ev == [op |-> "remove", origin |-> n, file |-> f]
    <3>1. ev \in Event /\ ev.origin = n /\ ev.op = "remove"
      BY PublishedEvents
    <3>2. log' = Append(log, ev) /\ Moved(n, phase[n])
      BY <1>0, <2>2, <3>1, PublishCalm
    <3>3. Line(n, "remove", phase[n])
      BY <2>0 DEF Line
    <3> QED BY <1>0, <1>7, <2>2, <3>1, <3>2, <3>3 DEF PublishChange, CalmKind, Utters
  <2>3. CASE disk[n][f] # Absent /\ Publish(n, WriteOf(n, f), phase[n]) /\ StampAndSeal(n, f)
    BY <1>0, <1>5, <1>7, <2>0, <2>3 DEF PublishChange
  <2> QED BY <1>7, <2>1, <2>2, <2>3 DEF PublishChange
<1>8. CASE Over(n)
  BY <1>8 DEF CalmKind, LosesStep
<1> QED BY <1>1, <1>2, <1>3, <1>4, <1>6, <1>7, <1>8

LEMMA CalmKinds ==
    ASSUME TypeOK, [Next]_vars, Calmly'
    PROVE  Calmly /\ enc' = enc /\ \E n \in Node : CalmKind(n)
<1>1. failures \in Nat /\ lostAcks \in Nat
  BY DEF TypeOK
<1>2. CASE UNCHANGED vars
  <2>1. Calmly /\ enc' = enc /\ Idles
    BY <1>2 DEF vars, chainVars, Calmly, Idles, ChainsStay
  <2> QED BY <2>1, EndsAreNodes DEF CalmKind
<1>3. ASSUME NEW n \in Node,
             \/ Step(n) \/ Fails(n) \/ BootstrapTimesOut(n)
             \/ \E f \in Path, c \in Content \cup {Absent} : UserEdit(n, f, c)
      PROVE  Calmly /\ enc' = enc
  <2>1. /\ failures' \in {failures, failures + 1}
        /\ lostAcks' \in {lostAcks, lostAcks + 1}
        /\ enc' = enc
    BY <1>3 DEF Step, SkipOwn, Fails, BootstrapTimesOut, UserEdit, PublishBootstrap,
       ReceiveBootstrap, PublishBootstrapAck, ReceiveBootstrapAck, ScanManifest,
       PublishManifest, ReceiveManifest, Push, PublishReconcileDone, Drain, ReceiveLive,
       PublishChange, Publish, AwaitControl, ReceiveWrite, Ack, Nak, controlUnchanged
  <2> QED BY <1>1, <2>1 DEF Calmly
<1>4. ASSUME NEW n \in Node, Calmly,
             \/ Step(n) \/ Fails(n) \/ BootstrapTimesOut(n)
             \/ \E f \in Path, c \in Content \cup {Absent} : UserEdit(n, f, c)
      PROVE  CalmKind(n)
  <2>1. CASE Over(n)
    BY <2>1 DEF CalmKind, LosesStep
  <2> QED BY <1>4, <2>1, SetUpCalm, ReceivingCalm, OtherCalm DEF Step
<1> QED BY <1>2, <1>3, <1>4 DEF Next

LEMMA InStepInit == Init => InStep
<1> SUFFICES ASSUME Init PROVE InStep
  OBVIOUS
<1>1. /\ log = <<>> /\ Len(log) = 0 /\ 1..Len(log) = {}
      /\ \A n \in Node : acked[n] = 0 /\ 1..acked[n] = {}
      /\ \A n \in Node : sendSeq[n] = 0 /\ recvSeq[n] = 0
  BY DEF Init
<1>2. \A n \in Node : phase[n] = IF ~enc THEN "scan"
                                 ELSE IF n = Initiator THEN "bootstrap" ELSE "awaitBootstrap"
  BY DEF Init
<1>3. Roles
  BY <1>2, EndsAreNodes DEF Roles, Over, Peer
<1>4. \A n \in Node : \A op : ~HasSaid(n, op) /\ ~HasRead(n, op)
  BY <1>1 DEF HasSaid, HasRead
<1>5. SaidSoFar /\ ReadSoFar
  BY <1>2, <1>4 DEF SaidSoFar, ReadSoFar
<1>6. InOrder
  BY <1>1 DEF InOrder
<1>7. ASSUME NEW n \in Node
      PROVE  SealedBySeq(n) /\ OpenedSoFar(n)
  <2>1. Sealed(n) = {} /\ Sealed(Peer(n)) = {} /\ Peer(n) \in Node
    BY <1>1, EndsAreNodes DEF Sealed
  <2> QED BY <1>1, <2>1 DEF SealedBySeq, OpenedSoFar
<1> QED BY <1>3, <1>5, <1>6, <1>7 DEF InStep, ChainsMeet

\* A stream that did not move keeps its order and its seals.
LEMMA SameOrder ==
    ASSUME log' = log, enc' = enc
    PROVE  /\ \A n \in Node : \A op : HasSaid(n, op)' <=> HasSaid(n, op)
           /\ InOrder => InOrder'
           /\ \A m \in Node : Sealed(m)' = Sealed(m)
<1>1. \A n \in Node : \A op : HasSaid(n, op)' <=> HasSaid(n, op)
  BY DEF HasSaid, Says
<1>2. InOrder => InOrder'
  BY DEF InOrder, PlacedWell, Earlier, Says
<1>3. \A m \in Node : Sealed(m)' = Sealed(m)
  BY DEF Sealed, Says
<1> QED BY <1>1, <1>2, <1>3

\* One more event at its end.
LEMMA LongerOrder ==
    ASSUME TypeOK, NEW ev \in Event, log' = Append(log, ev), enc' = enc
    PROVE  /\ Len(log') = Len(log) + 1 /\ Len(log) \in Nat
           /\ log'[Len(log) + 1] = ev
           /\ \A i \in 1..Len(log) : log'[i] = log[i]
           /\ \A n \in Node : \A op :
                HasSaid(n, op)' <=> HasSaid(n, op) \/ (ev.origin = n /\ ev.op = op)
           /\ \A i \in 1..Len(log) : PlacedWell(i) => PlacedWell(i)'
           /\ \A m \in Node : \A i : i \in Sealed(m)' <=>
                \/ i \in Sealed(m)
                \/ i = Len(log) + 1 /\ ev.origin = m /\ ev.op = "write"
<1>1. /\ log \in Seq(Event) /\ Len(log) \in Nat
  BY DEF TypeOK
<1>2. /\ Len(log') = Len(log) + 1 /\ log'[Len(log) + 1] = ev
      /\ \A i \in 1..Len(log) : log'[i] = log[i]
  BY <1>1
<1>3. /\ 1..Len(log') = 1..Len(log) \cup {Len(log) + 1}
      /\ \A i \in 1..Len(log) : 1..(i - 1) \subseteq 1..Len(log)
  BY <1>1, <1>2
<1>4. \A n \in Node : \A op :
        HasSaid(n, op)' <=> HasSaid(n, op) \/ (ev.origin = n /\ ev.op = op)
  BY <1>2, <1>3 DEF HasSaid, Says
<1>5. ASSUME NEW i \in 1..Len(log), PlacedWell(i)
      PROVE  PlacedWell(i)'
  <2>1. log'[i] = log[i]
    BY <1>2
  <2>2. \A op : Earlier(i, op)' <=> Earlier(i, op)
    BY <1>2, <1>3, <2>1 DEF Earlier, Says
  <2> QED BY <1>5, <2>1, <2>2 DEF PlacedWell
<1>6. \A m \in Node : \A i : i \in Sealed(m)' <=>
        \/ i \in Sealed(m)
        \/ i = Len(log) + 1 /\ ev.origin = m /\ ev.op = "write"
  <2>1. Len(log) + 1 \notin 1..Len(log)
    BY <1>1
  <2> QED BY <1>2, <1>3, <2>1 DEF Sealed, Says
<1> QED BY <1>1, <1>2, <1>4, <1>5, <1>6

\* What a step says and reads in terms of the phases it connects.
LEMMA UttersOrder ==
    ASSUME TypeOK, InStep, NEW n \in Node, NEW ev \in Event, NEW next \in Phase,
           Utters(n, ev, next), enc' = enc
    PROVE  Roles' /\ SaidSoFar' /\ ReadSoFar' /\ InOrder'
<1>1. /\ Len(log') = Len(log) + 1 /\ Len(log) \in Nat
      /\ log'[Len(log) + 1] = ev
      /\ \A i \in 1..Len(log) : log'[i] = log[i]
      /\ \A m \in Node : \A op :
           HasSaid(m, op)' <=> HasSaid(m, op) \/ (ev.origin = m /\ ev.op = op)
      /\ \A i \in 1..Len(log) : PlacedWell(i) => PlacedWell(i)'
  BY LongerOrder DEF Utters
<1>2. /\ ev.origin = n /\ Line(n, ev.op, next)
      /\ phase'[n] = next /\ \A m \in Node \ {n} : phase'[m] = phase[m]
      /\ acked' = acked
  BY DEF Utters, Moved
<1>3. Roles /\ SaidSoFar /\ ReadSoFar /\ InOrder
  BY DEF InStep
<1>4. /\ Hello(Initiator) = "bootstrap" /\ Hello(Responder) = "bootstrapAck"
      /\ \A m \in Node : m = Initiator \/ m = Responder
  BY SessionAssumption DEF Hello
<1>5. Roles'
  <2> SUFFICES ASSUME NEW m \in Node
               PROVE  /\ phase'[m] \notin {"publisherOnly", "receiverOnly", "ended"}
                      /\ phase'[m] \in {"bootstrap", "awaitBootstrapAck"} => enc /\ m = Initiator
                      /\ phase'[m] \in {"awaitBootstrap", "answer"} => enc /\ m = Responder
    BY DEF Roles, Over
  <2>1. /\ phase[m] \notin {"publisherOnly", "receiverOnly", "ended"}
        /\ phase[m] \in {"bootstrap", "awaitBootstrapAck"} => enc /\ m = Initiator
        /\ phase[m] \in {"awaitBootstrap", "answer"} => enc /\ m = Responder
    BY <1>3 DEF Roles, Over
  <2> QED BY <1>2, <2>1 DEF Line
<1>6. SaidSoFar'
  <2> SUFFICES ASSUME NEW m \in Node
               PROVE  /\ enc => (HasSaid(m, Hello(m))'
                            <=> phase'[m] \notin {"bootstrap", "awaitBootstrap", "answer"})
                      /\ HasSaid(m, "manifest")'
                            <=> phase'[m] \in {"awaitManifest", "push", "drain", "live"}
                      /\ HasSaid(m, "done")' <=> phase'[m] \in {"drain", "live"}
    BY DEF SaidSoFar, Hello
  <2>1. /\ enc => (HasSaid(m, Hello(m))
                     <=> phase[m] \notin {"bootstrap", "awaitBootstrap", "answer"})
        /\ HasSaid(m, "manifest") <=> phase[m] \in {"awaitManifest", "push", "drain", "live"}
        /\ HasSaid(m, "done") <=> phase[m] \in {"drain", "live"}
    BY <1>3 DEF SaidSoFar
  <2>2. \A op : HasSaid(m, op)' <=> HasSaid(m, op) \/ (n = m /\ ev.op = op)
    BY <1>1, <1>2
  <2>3. CASE m # n
    BY <1>2, <2>1, <2>2, <2>3
  <2>4. CASE m = n
    <3>1. \/ phase[n] = "bootstrap" /\ ev.op = "bootstrap" /\ phase'[n] = "awaitBootstrapAck"
             /\ Hello(n) = "bootstrap"
          \/ phase[n] = "answer" /\ ev.op = "bootstrapAck" /\ phase'[n] = "scan"
             /\ Hello(n) = "bootstrapAck"
          \/ phase[n] = "publishManifest" /\ ev.op = "manifest" /\ phase'[n] = "awaitManifest"
          \/ phase[n] = "push" /\ ev.op = "done" /\ phase'[n] = "drain"
          \/ phase[n] \in {"push", "live"} /\ ev.op \in {"write", "remove"}
             /\ phase'[n] = phase[n]
      BY <1>2, <1>3, <1>4 DEF Line, Roles
    <3>2. Hello(n) \in {"bootstrap", "bootstrapAck"}
      BY DEF Hello
    <3>3. \A op : HasSaid(n, op)' <=> HasSaid(n, op) \/ ev.op = op
      BY <2>2, <2>4
    <3> QED BY <2>1, <2>4, <3>1, <3>2, <3>3
  <2> QED BY <2>3, <2>4
<1>7. ReadSoFar'
  <2>1. ASSUME NEW m \in Node
        PROVE  \A op : HasRead(m, op)' <=> HasRead(m, op)
    <3>1. acked[m] \in Nat /\ acked[m] <= Len(log) /\ acked'[m] = acked[m]
      BY <1>2 DEF TypeOK
    <3>2. 1..acked[m] \subseteq 1..Len(log)
      BY <1>1, <3>1
    <3> QED BY <1>1, <3>1, <3>2 DEF HasRead, Says
  <2> SUFFICES ASSUME NEW m \in Node
               PROVE  /\ enc => (HasRead(m, Hello(Peer(m))) <=> phase'[m] \notin
                                   {"bootstrap", "awaitBootstrap", "awaitBootstrapAck"})
                      /\ HasRead(m, "manifest") <=> phase'[m] \in {"push", "drain", "live"}
                      /\ HasRead(m, "done") <=> phase'[m] = "live"
    BY <2>1 DEF ReadSoFar, Hello, Peer
  <2>2. /\ enc => (HasRead(m, Hello(Peer(m)))
                     <=> phase[m] \notin {"bootstrap", "awaitBootstrap", "awaitBootstrapAck"})
        /\ HasRead(m, "manifest") <=> phase[m] \in {"push", "drain", "live"}
        /\ HasRead(m, "done") <=> phase[m] = "live"
    BY <1>3 DEF ReadSoFar
  <2> QED BY <1>2, <2>2 DEF Line
<1>8. ASSUME NEW i, i = Len(log) + 1
      PROVE  PlacedWell(i)'
  <2>1. ASSUME NEW op
        PROVE  Earlier(i, op)' <=> HasSaid(n, op)
    <3>1. 1..(i - 1) = 1..Len(log)
      BY <1>1, <1>8
    <3> QED BY <1>1, <1>2, <1>8, <3>1 DEF Earlier, HasSaid, Says
  <2>2. /\ enc => (HasSaid(n, Hello(n))
                     <=> phase[n] \notin {"bootstrap", "awaitBootstrap", "answer"})
        /\ HasSaid(n, "manifest") <=> phase[n] \in {"awaitManifest", "push", "drain", "live"}
        /\ HasSaid(n, "done") <=> phase[n] \in {"drain", "live"}
    BY <1>3 DEF SaidSoFar
  <2>3. /\ phase[n] = "bootstrap" => enc /\ Hello(n) = "bootstrap"
        /\ phase[n] = "answer" => enc /\ Hello(n) = "bootstrapAck"
    BY <1>3, <1>4 DEF Roles
  <2>4. \A op : Earlier(i, op)' <=> HasSaid(n, op)
    BY <2>1
  <2>5. log'[i] = ev /\ ev.origin = n
    BY <1>1, <1>2, <1>8
  <2>6. /\ ev.op \in {"bootstrap", "bootstrapAck"} => enc /\ ev.op = Hello(n)
        /\ ev.op = "manifest" /\ enc => HasSaid(n, Hello(n))
        /\ ev.op \in {"write", "remove", "done"} => HasSaid(n, "manifest")
        /\ ev.op = "remove" => HasSaid(n, "done")
        /\ ev.op \in Once => ~HasSaid(n, ev.op)
    BY <1>2, <2>2, <2>3 DEF Line, Once
  <2> QED BY <2>4, <2>5, <2>6 DEF PlacedWell, Hello, Once
<1>9. InOrder'
  <2>1. \A i \in 1..Len(log') : i \in 1..Len(log) \/ i = Len(log) + 1
    BY <1>1
  <2>2. \A i \in 1..Len(log') : PlacedWell(i)'
    BY <1>1, <1>3, <1>8, <2>1 DEF InOrder
  <2> QED BY <2>2 DEF InOrder
<1> QED BY <1>5, <1>6, <1>7, <1>9

\* Reading moves the phase on as what was read says.
LEMMA HearsOrder ==
    ASSUME TypeOK, InStep, NEW n \in Node, NEW next \in Phase, Hears(n, next), enc' = enc
    PROVE  Roles' /\ SaidSoFar' /\ ReadSoFar' /\ InOrder'
<1> DEFINE i == acked[n] + 1
           ev == Incoming(n)
<1>1. /\ i \in 1..Len(log) /\ acked[n] \in Nat /\ ev = log[i] /\ ev \in Event
      /\ 1..i = 1..acked[n] \cup {i}
  <2>1. /\ acked[n] \in Nat /\ Len(log) \in Nat /\ log \in Seq(Event)
        /\ acked[n] < Len(log) /\ ev = log[i]
    BY DEF TypeOK, HasIncoming, Incoming, Hears
  <2> QED BY <2>1
<1>2. /\ log' = log /\ phase'[n] = next /\ \A m \in Node \ {n} : phase'[m] = phase[m]
      /\ acked'[n] = i /\ \A m \in Node \ {n} : acked'[m] = acked[m]
  BY DEF Hears, Moved, TypeOK
<1>3. Roles /\ SaidSoFar /\ ReadSoFar /\ InOrder
  BY DEF InStep
<1>4. /\ \A m \in Node : \A op : HasSaid(m, op)' <=> HasSaid(m, op)
      /\ InOrder'
  BY <1>2, <1>3, SameOrder
<1>5. \/ ev.origin = n /\ next = phase[n]
      \/ ev.origin = Peer(n) /\ ev.origin # n /\ Cue(n, ev.op, next)
  BY <1>1, EventFields, EndsAreNodes DEF Hears
<1>6. Peer(n) # n /\ (n = Initiator \/ n = Responder)
  BY SessionAssumption DEF Peer
<1>7. \A op : HasRead(n, op)' <=> HasRead(n, op) \/ (ev.origin = Peer(n) /\ ev.op = op)
  BY <1>1, <1>2 DEF HasRead, Says, Peer
<1>8. \A m \in Node \ {n} : \A op : HasRead(m, op)' <=> HasRead(m, op)
  BY <1>2 DEF HasRead, Says, Peer
<1>9. \/ phase'[n] = phase[n]
      \/ phase[n] = "awaitBootstrap" /\ phase'[n] = "answer"
      \/ phase[n] = "awaitBootstrapAck" /\ phase'[n] = "scan"
      \/ phase[n] = "awaitManifest" /\ phase'[n] = "push"
      \/ phase[n] = "drain" /\ phase'[n] = "live"
  BY <1>2, <1>5 DEF Cue
<1> HIDE DEF i, ev
<1>10. Roles'
  <2> SUFFICES ASSUME NEW m \in Node
               PROVE  /\ phase'[m] \notin {"publisherOnly", "receiverOnly", "ended"}
                      /\ phase'[m] \in {"bootstrap", "awaitBootstrapAck"} => enc /\ m = Initiator
                      /\ phase'[m] \in {"awaitBootstrap", "answer"} => enc /\ m = Responder
    BY DEF Roles, Over
  <2>1. /\ phase[m] \notin {"publisherOnly", "receiverOnly", "ended"}
        /\ phase[m] \in {"bootstrap", "awaitBootstrapAck"} => enc /\ m = Initiator
        /\ phase[m] \in {"awaitBootstrap", "answer"} => enc /\ m = Responder
    BY <1>3 DEF Roles, Over
  <2> QED BY <1>2, <1>9, <2>1
<1>11. SaidSoFar'
  <2> SUFFICES ASSUME NEW m \in Node
               PROVE  /\ enc => (HasSaid(m, Hello(m))
                            <=> phase'[m] \notin {"bootstrap", "awaitBootstrap", "answer"})
                      /\ HasSaid(m, "manifest")
                            <=> phase'[m] \in {"awaitManifest", "push", "drain", "live"}
                      /\ HasSaid(m, "done") <=> phase'[m] \in {"drain", "live"}
    BY <1>4 DEF SaidSoFar, Hello
  <2>1. /\ enc => (HasSaid(m, Hello(m))
                     <=> phase[m] \notin {"bootstrap", "awaitBootstrap", "answer"})
        /\ HasSaid(m, "manifest") <=> phase[m] \in {"awaitManifest", "push", "drain", "live"}
        /\ HasSaid(m, "done") <=> phase[m] \in {"drain", "live"}
    BY <1>3 DEF SaidSoFar
  <2> QED BY <1>2, <1>9, <2>1
<1>12. ReadSoFar'
  <2> SUFFICES ASSUME NEW m \in Node
               PROVE  /\ enc => (HasRead(m, Hello(Peer(m)))' <=> phase'[m] \notin
                                   {"bootstrap", "awaitBootstrap", "awaitBootstrapAck"})
                      /\ HasRead(m, "manifest")' <=> phase'[m] \in {"push", "drain", "live"}
                      /\ HasRead(m, "done")' <=> phase'[m] = "live"
    BY DEF ReadSoFar, Hello, Peer
  <2>1. /\ enc => (HasRead(m, Hello(Peer(m)))
                     <=> phase[m] \notin {"bootstrap", "awaitBootstrap", "awaitBootstrapAck"})
        /\ HasRead(m, "manifest") <=> phase[m] \in {"push", "drain", "live"}
        /\ HasRead(m, "done") <=> phase[m] = "live"
    BY <1>3 DEF ReadSoFar
  <2>2. CASE m # n
    BY <1>2, <1>8, <2>1, <2>2 DEF Hello, Peer
  <2>3. ASSUME m = n, ev.origin = n
        PROVE  \A op : HasRead(m, op)' <=> HasRead(m, op)
    BY <1>6, <1>7, <2>3
  <2>4. CASE m = n /\ ev.origin = n
    <3>1. phase'[m] = phase[m]
      BY <1>2, <1>5, <2>4
    <3> QED BY <2>1, <2>3, <2>4, <3>1 DEF Hello, Peer
  <2>5. CASE m = n /\ ev.origin # n
    <3>1. \A op : HasRead(m, op)' <=> HasRead(m, op) \/ ev.op = op
      BY <1>5, <1>7, <2>5
    <3>2. \/ phase[m] = "awaitBootstrap" /\ ev.op = "bootstrap" /\ phase'[m] = "answer"
             /\ Hello(Peer(m)) = "bootstrap"
          \/ phase[m] = "awaitBootstrapAck" /\ ev.op = "bootstrapAck" /\ phase'[m] = "scan"
             /\ Hello(Peer(m)) = "bootstrapAck"
          \/ phase[m] = "awaitManifest" /\ ev.op = "manifest" /\ phase'[m] = "push"
          \/ phase[m] = "drain" /\ ev.op = "done" /\ phase'[m] = "live"
          \/ phase[m] \in {"drain", "live"} /\ ev.op \in {"write", "remove"}
             /\ phase'[m] = phase[m]
          \/ phase[m] = "live" /\ ev.op \in {"bootstrap", "bootstrapAck"}
             /\ phase'[m] = phase[m]
      BY <1>2, <1>3, <1>5, <2>5, SessionAssumption DEF Cue, Roles, Hello, Peer
    <3>3. Hello(Peer(m)) \in {"bootstrap", "bootstrapAck"}
      BY DEF Hello
    <3>4. HasRead(m, Hello(Peer(m)))' <=> HasRead(m, Hello(Peer(m))) \/ ev.op = Hello(Peer(m))
      BY <3>1 DEF Hello, Peer
    <3> QED BY <2>1, <3>1, <3>2, <3>3, <3>4
  <2> QED BY <2>2, <2>4, <2>5
<1> QED BY <1>4, <1>10, <1>11, <1>12

LEMMA QuietOrder ==
    ASSUME TypeOK, InStep, NEW n \in Node, Idles \/ Looks(n), enc' = enc
    PROVE  InStep'
<1>1. /\ log' = log /\ acked' = acked /\ ChainsStay
      /\ \A m \in Node \ {n} : phase'[m] = phase[m]
      /\ \/ phase'[n] = phase[n]
         \/ phase[n] = "scan" /\ phase'[n] = "publishManifest"
  BY DEF Idles, Looks, Moved
<1>2. Roles /\ SaidSoFar /\ ReadSoFar /\ InOrder /\ ChainsMeet
  BY DEF InStep
<1>3. /\ \A m \in Node : \A op : HasSaid(m, op)' <=> HasSaid(m, op)
      /\ InOrder'
      /\ \A m \in Node : Sealed(m)' = Sealed(m)
  BY <1>1, <1>2, SameOrder
<1>4. \A m \in Node : \A op : HasRead(m, op)' <=> HasRead(m, op)
  BY <1>1 DEF HasRead, Says, Peer
<1>5. \A m \in Node :
        \/ phase'[m] = phase[m]
        \/ phase[m] = "scan" /\ phase'[m] = "publishManifest"
  BY <1>1
<1>6. Roles'
  BY <1>2, <1>5 DEF Roles, Over
<1>7. SaidSoFar'
  BY <1>2, <1>3, <1>5 DEF SaidSoFar, Hello
<1>8. ReadSoFar'
  BY <1>2, <1>4, <1>5 DEF ReadSoFar, Hello, Peer
<1>9. ChainsMeet'
  BY <1>1, <1>2 DEF ChainsMeet, SealedBySeq, OpenedSoFar, Sealed, Says, Peer, ChainsStay
<1> QED BY <1>3, <1>6, <1>7, <1>8, <1>9 DEF InStep

\* One more event at the end of the stream is what its author's chain sealed last.
LEMMA UttersChains ==
    ASSUME TypeOK, InStep, NEW n \in Node, NEW ev \in Event, NEW next \in Phase,
           Utters(n, ev, next), enc' = enc
    PROVE  ChainsMeet'
<1> SUFFICES ASSUME enc, NEW m \in Node
             PROVE  SealedBySeq(m)' /\ OpenedSoFar(m)'
  BY DEF ChainsMeet
<1> DEFINE len == Len(log)
<1>1. /\ len \in Nat /\ log'[len + 1] = ev
      /\ \A i \in 1..len : log'[i] = log[i]
      /\ \A k \in Node : \A i : i \in Sealed(k)' <=>
                \/ i \in Sealed(k)
                \/ i = len + 1 /\ ev.origin = k /\ ev.op = "write"
  BY LongerOrder DEF Utters
<1>2. /\ ev.origin = n /\ acked' = acked /\ recvSeq' = recvSeq
      /\ ev.op = "write" => ev.seq = sendSeq[n]
      /\ sendSeq' = IF ev.op = "write" THEN [sendSeq EXCEPT ![n] = @ + 1] ELSE sendSeq
  BY DEF Utters
<1>3. /\ sendSeq \in [Node -> Nat] /\ recvSeq \in [Node -> Nat] /\ acked \in [Node -> Nat]
      /\ \A k \in Node : acked[k] <= len
  BY DEF TypeOK
<1>4. /\ \A k \in Node : Peer(k) \in Node
      /\ \A k \in Node : SealedBySeq(k) /\ OpenedSoFar(k)
  BY EndsAreNodes DEF InStep, ChainsMeet
<1>5. \A k \in Node : \A i \in Sealed(k) : i \in 1..len /\ log'[i] = log[i] /\ log[i].seq \in Nat
  <2>1. \A i \in 1..len : log[i] \in Event
    BY <1>1 DEF TypeOK
  <2> QED BY <1>1, <2>1, OpsOfEvents DEF Sealed, Says
<1> HIDE DEF len
<1>6. ASSUME NEW k \in Node, k = n, ev.op = "write"
      PROVE  /\ sendSeq'[k] = sendSeq[k] + 1 /\ ev.seq = sendSeq[k]
             /\ \A i : i \in Sealed(k)' <=> i \in Sealed(k) \/ i = len + 1
  BY <1>1, <1>2, <1>3, <1>6
<1>7. ASSUME NEW k \in Node, ~(k = n /\ ev.op = "write")
      PROVE  /\ sendSeq'[k] = sendSeq[k]
             /\ \A i : i \in Sealed(k)' <=> i \in Sealed(k)
  BY <1>1, <1>2, <1>3, <1>7
<1>8. SealedBySeq(m)'
  <2>1. CASE ~(m = n /\ ev.op = "write")
    <3>1. /\ sendSeq'[m] = sendSeq[m]
          /\ \A i : i \in Sealed(m)' <=> i \in Sealed(m)
      BY <1>7, <2>1
    <3> QED BY <1>4, <1>5, <3>1 DEF SealedBySeq
  <2>2. CASE m = n /\ ev.op = "write"
    <3>1. /\ sendSeq'[m] = sendSeq[m] + 1 /\ ev.seq = sendSeq[m] /\ sendSeq[m] \in Nat
          /\ \A i : i \in Sealed(m)' <=> i \in Sealed(m) \/ i = len + 1
      BY <1>3, <1>6, <2>2
    <3>2. \A i \in Sealed(m) : /\ i \in 1..len /\ log'[i] = log[i] /\ log[i].seq \in Nat
                               /\ log[i].seq < sendSeq[m]
      BY <1>4, <1>5 DEF SealedBySeq
    <3>3. \A i, j \in Sealed(m) : i < j => log[i].seq < log[j].seq
      BY <1>4 DEF SealedBySeq
    <3>4. \A i \in Sealed(m)' : log'[i].seq < sendSeq'[m]
      BY <1>1, <3>1, <3>2
    <3>5. ASSUME NEW i \in Sealed(m)', NEW j \in Sealed(m)', i < j
          PROVE  log'[i].seq < log'[j].seq
      <4>1. i \in Sealed(m)
        BY <1>1, <3>1, <3>2, <3>5
      <4>2. CASE j \in Sealed(m)
        BY <3>2, <3>3, <3>5, <4>1, <4>2
      <4>3. CASE j = len + 1
        BY <1>1, <3>1, <3>2, <4>1, <4>3
      <4> QED BY <3>1, <4>2, <4>3
    <3>6. ASSUME NEW s \in Nat, s < sendSeq'[m]
          PROVE  \E i \in Sealed(m)' : log'[i].seq = s
      <4>1. CASE s < sendSeq[m]
        <5>1. PICK i \in Sealed(m) : log[i].seq = s
          BY <1>4, <4>1 DEF SealedBySeq
        <5> QED BY <3>1, <3>2, <5>1
      <4>2. CASE s = sendSeq[m]
        BY <1>1, <3>1, <4>2
      <4> QED BY <3>1, <3>6, <4>1, <4>2
    <3> QED BY <3>4, <3>5, <3>6 DEF SealedBySeq
  <2> QED BY <2>1, <2>2
<1>9. OpenedSoFar(m)'
  <2> SUFFICES /\ \A i \in Sealed(Peer(m))' : i <= acked[m] <=> log'[i].seq < recvSeq[m]
               /\ recvSeq[m] <= sendSeq'[Peer(m)]
    BY <1>2 DEF OpenedSoFar, Sealed, Peer
  <2> DEFINE p == Peer(m)
  <2>1. /\ p \in Node /\ recvSeq[m] \in Nat /\ sendSeq[p] \in Nat /\ acked[m] \in Nat
        /\ acked[m] <= len /\ recvSeq[m] <= sendSeq[p]
        /\ \A i \in Sealed(p) : i <= acked[m] <=> log[i].seq < recvSeq[m]
    BY <1>3, <1>4 DEF OpenedSoFar
  <2>2. \A i \in Sealed(p) : log'[i] = log[i]
    BY <1>5, <2>1
  <2>3. \A k \in Node : \A i : i \in Sealed(Peer(k))' <=> \E q \in Node : q = Peer(k) /\ i \in Sealed(q)'
    BY <1>4 DEF Sealed, Peer
  <2> HIDE DEF p
  <2>4. CASE p = n /\ ev.op = "write"
    <3>1. /\ sendSeq'[p] = sendSeq[p] + 1 /\ ev.seq = sendSeq[p]
          /\ \A i : i \in Sealed(p)' <=> i \in Sealed(p) \/ i = len + 1
      BY <1>6, <2>1, <2>4
    <3>2. ~(len + 1 <= acked[m]) /\ ~(ev.seq < recvSeq[m])
      BY <1>1, <2>1, <3>1
    <3>3. \A i \in Sealed(p)' : i <= acked[m] <=> log'[i].seq < recvSeq[m]
      BY <1>1, <2>1, <2>2, <3>1, <3>2
    <3>4. recvSeq[m] <= sendSeq'[p]
      BY <2>1, <3>1
    <3> QED BY <3>3, <3>4, <2>3 DEF p
  <2>5. CASE ~(p = n /\ ev.op = "write")
    <3>1. /\ sendSeq'[p] = sendSeq[p]
          /\ \A i : i \in Sealed(p)' <=> i \in Sealed(p)
      BY <1>7, <2>1, <2>5
    <3>2. \A i \in Sealed(p)' : i <= acked[m] <=> log'[i].seq < recvSeq[m]
      BY <2>1, <2>2, <3>1
    <3> QED BY <2>1, <2>3, <3>1, <3>2 DEF p
  <2> QED BY <2>4, <2>5
<1> QED BY <1>8, <1>9

\* A read write is the one n's chain opens next.
LEMMA HearsChains ==
    ASSUME TypeOK, InStep, NEW n \in Node, NEW next \in Phase, Hears(n, next), enc' = enc
    PROVE  ChainsMeet'
<1> SUFFICES ASSUME enc PROVE \A m \in Node : SealedBySeq(m)' /\ OpenedSoFar(m)'
  BY DEF ChainsMeet
<1>1. /\ log' = log /\ sendSeq' = sendSeq
      /\ \A m \in Node : Sealed(m)' = Sealed(m)
  BY SameOrder DEF Hears
<1>2. /\ \A k \in Node : Peer(k) \in Node
      /\ \A k \in Node : SealedBySeq(k) /\ OpenedSoFar(k)
  BY EndsAreNodes DEF InStep, ChainsMeet
<1>3. \A m \in Node : SealedBySeq(m)'
  BY <1>1, <1>2 DEF SealedBySeq
<1>4. ASSUME NEW m \in Node
      PROVE  OpenedSoFar(m)'
  <2> DEFINE p == Peer(m)
             i == acked[n] + 1
  <2>1. /\ p \in Node /\ recvSeq[m] \in Nat /\ sendSeq[p] \in Nat /\ acked[m] \in Nat
        /\ recvSeq[m] <= sendSeq[p]
        /\ \A k \in Sealed(p) : k <= acked[m] <=> log[k].seq < recvSeq[m]
    BY <1>2 DEF OpenedSoFar, TypeOK
  <2>2. \A k : k \in Sealed(p) => k \in 1..Len(log) /\ log[k] \in Event /\ log[k].op = "write"
                                  /\ log[k].origin = p /\ log[k].seq \in Nat
    <3>1. \A k \in 1..Len(log) : log[k] \in Event
      BY DEF TypeOK
    <3> QED BY <3>1, OpsOfEvents DEF Sealed, Says
  <2> SUFFICES /\ \A k \in Sealed(p) : k <= acked'[m] <=> log[k].seq < recvSeq'[m]
               /\ recvSeq'[m] <= sendSeq[p]
    BY <1>1 DEF OpenedSoFar, Sealed, Says, Peer
  <2>3. CASE m # n
    <3>1. acked'[m] = acked[m] /\ recvSeq'[m] = recvSeq[m]
      BY <2>3 DEF Hears, TypeOK
    <3> QED BY <2>1, <3>1
  <2>4. CASE m = n
    <3>1. /\ acked[n] \in Nat /\ i \in 1..Len(log) /\ Incoming(n) = log[i]
          /\ acked'[n] = i /\ log[i] \in Event
      <4>1. /\ acked[n] \in Nat /\ Len(log) \in Nat /\ log \in Seq(Event)
            /\ acked[n] < Len(log) /\ Incoming(n) = log[i] /\ acked'[n] = i
        BY DEF TypeOK, HasIncoming, Incoming, Hears
      <4> QED BY <4>1
    <3>2. CASE log[i].origin = p /\ log[i].op = "write"
      <4>1. i \in Sealed(p)
        BY <3>1, <3>2 DEF Sealed, Says
      <4>2. p # n
        BY <2>4, SessionAssumption DEF Peer
      <4>3. recvSeq'[n] = recvSeq[n] + 1 /\ log[i].seq = recvSeq[n]
        BY <2>1, <2>4, <3>1, <3>2, <4>2 DEF Hears, Opens, TypeOK
      <4>4. \A k \in Sealed(p) : k < i => log[k].seq < log[i].seq
        BY <1>2, <2>1, <4>1 DEF SealedBySeq
      <4>5. \A k \in Sealed(p) : i < k => log[i].seq < log[k].seq
        BY <1>2, <2>1, <4>1 DEF SealedBySeq
      <4>6. ASSUME NEW k \in Sealed(p)
            PROVE  k <= i <=> log[k].seq < recvSeq[n] + 1
        <5>1. log[k].seq \in Nat /\ k \in Nat /\ i \in Nat
          BY <2>2, <3>1
        <5>2. CASE k < i
          BY <2>1, <2>4, <4>3, <4>4, <5>1, <5>2
        <5>3. CASE k >= i
          BY <2>1, <2>4, <4>3, <4>5, <5>1, <5>3
        <5> QED BY <5>1, <5>2, <5>3
      <4>7. recvSeq[n] + 1 <= sendSeq[p]
        BY <1>2, <2>1, <2>4, <4>1, <4>3 DEF SealedBySeq
      <4> QED BY <2>4, <3>1, <4>3, <4>6, <4>7
    <3>3. CASE ~(log[i].origin = p /\ log[i].op = "write")
      <4>1. recvSeq'[n] = recvSeq[n]
        <5>1. log[i].origin \in Node
          BY <3>1, EventFields
        <5>2. log[i].origin = n \/ log[i].op # "write"
          BY <2>4, <3>3, <5>1, EndsAreNodes
        <5> QED BY <3>1, <5>2 DEF Hears
      <4>2. i \notin Sealed(p)
        BY <2>2, <3>3
      <4>3. \A k \in Sealed(p) : k <= i <=> k <= acked[n]
        BY <2>2, <3>1, <4>2
      <4> QED BY <2>1, <2>4, <3>1, <4>1, <4>3
    <3> QED BY <3>2, <3>3
  <2> QED BY <2>3, <2>4
<1> QED BY <1>3, <1>4

LEMMA InStepStep == StepInv /\ [Next]_vars => StepInv'
<1> SUFFICES ASSUME StepInv, [Next]_vars PROVE StepInv'
  OBVIOUS
<1>1. TypeOK'
  BY TypeStep DEF StepInv
<1> SUFFICES ASSUME Calmly' PROVE InStep'
  BY <1>1 DEF StepInv
<1>2. /\ TypeOK /\ Calmly /\ InStep /\ enc' = enc
      /\ \E n \in Node : CalmKind(n)
  BY CalmKinds DEF StepInv
<1>3. PICK n \in Node : CalmKind(n)
  BY <1>2
<1>4. ~LosesStep(n)
  BY <1>2, NextFits, NextOpens DEF LosesStep, InStep, Roles
<1>5. CASE Idles \/ Looks(n)
  BY <1>2, <1>5, QuietOrder
<1>6. ASSUME NEW ev \in Event, NEW next \in Phase, Utters(n, ev, next)
      PROVE  InStep'
  BY <1>2, <1>6, UttersOrder, UttersChains DEF InStep
<1>7. ASSUME NEW next \in Phase, Hears(n, next)
      PROVE  InStep'
  BY <1>2, <1>7, HearsOrder, HearsChains DEF InStep
<1> QED BY <1>3, <1>4, <1>5, <1>6, <1>7 DEF CalmKind

\* Without a failure or a lost acknowledgement no session ends: every event that
\* reaches a node is one its phase has a place for, and every write opens.
THEOREM NeverLosesStep == Spec => []StaysInStep
<1>1. Init => StepInv
  BY InitType, InStepInit DEF StepInv
<1>2. StepInv => StaysInStep
  <2> SUFFICES ASSUME StepInv, failures = 0, lostAcks = 0
               PROVE  \A n \in Node : ~Over(n)
    BY DEF StaysInStep, StepInv, TypeOK
  <2> QED BY DEF StepInv, Calmly, InStep, Roles
<1> QED BY <1>1, <1>2, InStepStep, PTL DEF Spec

-----------------------------------------------------------------------------
\* Reconciliation is a union.

\* The phases before a node's scan is done, and those after it has read its
\* peer's manifest.
Behind == {"bootstrap", "awaitBootstrap", "awaitBootstrapAck", "answer", "scan"}
Ahead == {"push", "drain", "live"}

Diff(n, m) == DiffPaths(manifest[n], manifest[m])
Solo(m) == [k \in Node |-> IF k = m THEN 1 ELSE 0]
Pushed(n, f) == \E i \in 1..Len(log) : Says(log, n, i, "write") /\ log[i].file = f
Beside(f, m) == [of |-> f, from |-> m]

\* As long as no user acts.  n's disk is what n scanned until it drains, ...
ScanKept(n) ==
    /\ pending[n] = {}
    /\ \A c \in ConflictFile : manifest[n][c] = Absent
    /\ \A c \in ConflictFile : phase[n] \notin {"drain", "live"} => disk[n][c] = Absent
    /\ phase[n] \in {"publishManifest", "awaitManifest", "push"} => disk[n] = manifest[n]
    /\ phase[n] \notin Ahead => versions[n] = [f \in File |-> ZeroVector]
\* ... its own counter says what of the difference n has pushed, ...
PushKept(n, m) ==
    phase[n] \in Ahead =>
        /\ phase[m] \notin Behind
        /\ toPush[n] \subseteq Diff(n, m)
        /\ phase[n] # "push" => toPush[n] = {}
        /\ \A f \in Path : versions[n][f][n] = IF f \in Diff(n, m) \ toPush[n] THEN 1 ELSE 0
        /\ \A f \in Diff(n, m) \ toPush[n] : Pushed(n, f)
        /\ phase[n] = "push" => \A f \in Path : versions[n][f][m] = 0
\* ... its peer's counter what n has handled of m's half, and where that is.
Landed(n, m, f) ==
    /\ versions[n][f][m] \in {0, 1}
    /\ versions[n][f][m] = 1 => f \in Diff(m, n)
    /\ versions[n][f][m] = 0 \/ versions[n][f][n] = 1 => disk[n][f] = manifest[n][f]
    /\ versions[n][f][m] = 1 /\ versions[n][f][n] = 0 => disk[n][f] = manifest[m][f]
    /\ versions[n][f][m] = 1 /\ versions[n][f][n] = 1 => disk[n][Beside(f, m)] = manifest[m][f]
LandKept(n, m) == phase[n] \in {"drain", "live"} => \A f \in Path : Landed(n, m, f)
\* n's events tell of its scan, its writes come before its "done", ...
EventKept(i, n, m) ==
    log[i].origin = n =>
        /\ log[i].op # "remove"
        /\ log[i].op = "manifest" => log[i].files = manifest[n] /\ phase[n] \notin Behind
        /\ log[i].op = "write" => /\ phase[n] \in Ahead /\ log[i].file \in Diff(n, m)
                                  /\ log[i].data = manifest[n][log[i].file]
                                  /\ log[i].version = Solo(n)
DoneLast(n) ==
    \A i, j \in 1..Len(log) : i < j /\ Says(log, n, i, "done") => ~Says(log, n, j, "write")
\* ... and those of m that n has read, all of them once n is live, have landed.
Handled(n, m, i) == Says(log, m, i, "write") => versions[n][log[i].file][m] = 1
ReadKept(n, m) == \A i \in 1..acked[n] : Handled(n, m, i)
LiveKept(n, m) == phase[n] = "live" => \A i \in 1..Len(log) : Handled(n, m, i)

UnionOf(n, m) ==
    /\ ScanKept(n) /\ PushKept(n, m) /\ LandKept(n, m)
    /\ \A i \in 1..Len(log) : EventKept(i, n, m)
    /\ DoneLast(n) /\ ReadKept(n, m) /\ LiveKept(n, m)
Union == \A n, m \in Node : n # m => UnionOf(n, m)

NobodyOver == \A n \in Node : ~Over(n)
UnionInv == BarrierInv /\ (edits = 0 /\ NobodyOver => Union)

LEMMA TwoNodes ==
    ASSUME NEW n \in Node, NEW m \in Node, n # m
    PROVE  /\ m = Peer(n) /\ n = Peer(m)
           /\ \A k \in Node : k = n \/ k = m
BY SessionAssumption DEF Peer

LEMMA DiffIsPaths ==
    ASSUME NEW n \in Node, NEW m \in Node, manifest \in [Node -> Manifest],
           \A c \in ConflictFile : manifest[n][c] = Absent
    PROVE  /\ Diff(n, m) \subseteq Path
           /\ \A f \in Path : f \in Diff(n, m)
                <=> manifest[n][f] # Absent /\ manifest[m][f] # manifest[n][f]
BY PathsAreFiles DEF Diff, DiffPaths, File

\* The peer's first write of a file, against what is stored here.
LEMMA SoloCompared ==
    ASSUME NEW n \in Node, NEW m \in Node, n # m, NEW v \in Vector, NEW w, w = Solo(m),
           v[m] \in {0, 1}, v[n] \in {0, 1}
    PROVE  /\ v[m] = 0 /\ v[n] = 0 => After(w, v) /\ ~Concurrent(w, v)
           /\ v[m] = 0 /\ v[n] = 1 => ~After(w, v) /\ Concurrent(w, v)
           /\ v[m] = 1 => ~After(w, v) /\ ~Concurrent(w, v)
           /\ v[m] = 0 => ~Same(w, v) /\ ~Before(w, v)
           /\ Reconciled(v, w)[m] = 1 /\ Reconciled(v, w)[n] = v[n]
           /\ v[m] = 1 => Reconciled(v, w) = v
<1>1. /\ w[m] = 1 /\ w[n] = 0 /\ \A k \in Node : k = n \/ k = m
  BY TwoNodes DEF Solo
<1>2. KnowsMore(w, v) <=> v[m] = 0
  BY <1>1 DEF KnowsMore
<1>3. KnowsMore(v, w) <=> v[n] = 1
  BY <1>1 DEF KnowsMore
<1>4. /\ v[m] = 0 /\ v[n] = 0 => After(w, v) /\ ~Concurrent(w, v)
      /\ v[m] = 0 /\ v[n] = 1 => ~After(w, v) /\ Concurrent(w, v)
      /\ v[m] = 1 => ~After(w, v) /\ ~Concurrent(w, v)
      /\ v[m] = 0 => ~Same(w, v) /\ ~Before(w, v)
  BY <1>2, <1>3 DEF After, Concurrent, Same, Before
<1>5. Reconciled(v, w)[m] = 1 /\ Reconciled(v, w)[n] = v[n]
  <2>1. CASE v[m] = 1
    BY <1>4, <2>1 DEF Reconciled
  <2>2. CASE v[m] = 0 /\ v[n] = 0
    BY <1>1, <1>4, <2>2 DEF Reconciled
  <2>3. CASE v[m] = 0 /\ v[n] = 1
    <3>1. Reconciled(v, w) = Merged(v, w)
      BY <1>4, <2>3 DEF Reconciled
    <3> QED BY <1>1, <2>3, <3>1 DEF Merged
  <2> QED BY <2>1, <2>2, <2>3
<1>6. v[m] = 1 => Reconciled(v, w) = v
  BY <1>4 DEF Reconciled
<1> QED BY <1>4, <1>5, <1>6

\* A step of n as m's side of the union sees it.
MateSame(m) ==
    /\ phase'[m] = phase[m] /\ acked'[m] = acked[m] /\ manifest'[m] = manifest[m]
    /\ toPush'[m] = toPush[m] /\ versions'[m] = versions[m] /\ disk'[m] = disk[m]
    /\ pending'[m] = pending[m]

\* What n's events promise survives while the stream grows at its end.
LEMMA PushedStays ==
    ASSUME TypeOK, NEW n \in Node, NEW f, Pushed(n, f),
           \/ log' = log
           \/ \E ev \in Event : log' = Append(log, ev)
    PROVE  Pushed(n, f)'
<1>1. log \in Seq(Event) /\ Len(log) \in Nat
  BY DEF TypeOK
<1>2. PICK i \in 1..Len(log) : log[i].origin = n /\ log[i].op = "write" /\ log[i].file = f
  BY DEF Pushed, Says
<1>3. i \in 1..Len(log') /\ log'[i] = log[i]
  BY <1>1, <1>2
<1> QED BY <1>2, <1>3 DEF Pushed, Says

LEMMA MateKeeps ==
    ASSUME TypeOK, NEW n \in Node, NEW m \in Node, n # m, UnionOf(m, n), MateSame(m),
           phase[n] \notin Behind => phase'[n] \notin Behind /\ manifest'[n] = manifest[n],
           \/ log' = log
           \/ \E ev \in Event : /\ log' = Append(log, ev) /\ ev.origin = n
                                /\ ev.op = "write" => phase[m] # "live"
    PROVE  UnionOf(m, n)'
<1>1. /\ log \in Seq(Event) /\ Len(log) \in Nat /\ Len(log') \in Nat
      /\ Len(log) <= Len(log')
      /\ \A i \in 1..Len(log) : log'[i] = log[i] /\ i \in 1..Len(log')
      /\ \A i \in 1..Len(log') : i \in 1..Len(log) \/ (log'[i].origin = n
                                   /\ (log'[i].op = "write" => phase[m] # "live"))
  <2>1. log \in Seq(Event) /\ Len(log) \in Nat
    BY DEF TypeOK
  <2>2. CASE log' = log
    BY <2>1, <2>2
  <2>3. ASSUME NEW ev \in Event, log' = Append(log, ev), ev.origin = n,
               ev.op = "write" => phase[m] # "live"
        PROVE  /\ Len(log') \in Nat /\ Len(log) <= Len(log')
               /\ \A i \in 1..Len(log) : log'[i] = log[i] /\ i \in 1..Len(log')
               /\ \A i \in 1..Len(log') : i \in 1..Len(log) \/ (log'[i].origin = n
                                   /\ (log'[i].op = "write" => phase[m] # "live"))
    BY <2>1, <2>3
  <2> QED BY <2>1, <2>2, <2>3
<1>2. /\ ScanKept(m) /\ PushKept(m, n) /\ LandKept(m, n) /\ DoneLast(m)
      /\ \A i \in 1..Len(log) : EventKept(i, m, n)
      /\ ReadKept(m, n) /\ LiveKept(m, n)
  BY DEF UnionOf
<1>3. ScanKept(m)'
  BY <1>2 DEF ScanKept, MateSame
<1>4. phase[m] \in Ahead => /\ phase[n] \notin Behind /\ phase'[n] \notin Behind
                            /\ Diff(m, n)' = Diff(m, n) /\ Diff(n, m)' = Diff(n, m)
                            /\ manifest'[n] = manifest[n]
  BY <1>2 DEF PushKept, Diff, MateSame
<1>5. PushKept(m, n)'
  <2> SUFFICES ASSUME phase[m] \in Ahead
               PROVE  /\ phase'[n] \notin Behind
                      /\ toPush'[m] \subseteq Diff(m, n)'
                      /\ phase'[m] # "push" => toPush'[m] = {}
                      /\ \A f \in Path : versions'[m][f][m] =
                           IF f \in Diff(m, n)' \ toPush'[m] THEN 1 ELSE 0
                      /\ \A f \in Diff(m, n)' \ toPush'[m] : Pushed(m, f)'
                      /\ phase'[m] = "push" => \A f \in Path : versions'[m][f][n] = 0
    BY DEF PushKept, MateSame
  <2>1. \A f \in Diff(m, n) \ toPush[m] : Pushed(m, f)'
    BY <1>2, PushedStays DEF PushKept
  <2> QED BY <1>2, <1>4, <2>1 DEF PushKept, MateSame
<1>6. LandKept(m, n)'
  <2> SUFFICES ASSUME phase[m] \in {"drain", "live"}, NEW f \in Path
               PROVE  Landed(m, n, f)'
    BY DEF LandKept, MateSame
  <2>1. Landed(m, n, f) /\ phase[m] \in Ahead
    BY <1>2 DEF LandKept, Ahead
  <2> QED BY <1>4, <2>1 DEF Landed, MateSame, Beside
<1>7. ASSUME NEW i \in 1..Len(log')
      PROVE  EventKept(i, m, n)'
  <2>1. CASE i \in 1..Len(log)
    <3>1. EventKept(i, m, n) /\ log'[i] = log[i]
      BY <1>1, <1>2, <2>1
    <3> QED BY <1>4, <3>1 DEF EventKept, MateSame, Solo
  <2>2. CASE i \notin 1..Len(log)
    <3>1. log'[i].origin = n
      BY <1>1, <2>2
    <3> QED BY <3>1 DEF EventKept
  <2> QED BY <2>1, <2>2
<1>8. DoneLast(m)'
  BY <1>1, <1>2 DEF DoneLast, Says
<1>9. ReadKept(m, n)'
  <2>1. acked[m] \in Nat /\ acked[m] <= Len(log)
    BY DEF TypeOK
  <2>2. \A i \in 1..acked[m] : i \in 1..Len(log)
    BY <1>1, <2>1
  <2> QED BY <1>1, <1>2, <2>2 DEF ReadKept, Handled, Says, MateSame
<1>10. LiveKept(m, n)'
  BY <1>1, <1>2 DEF LiveKept, Handled, Says, MateSame
<1> QED BY <1>3, <1>5, <1>6, <1>7, <1>8, <1>9, <1>10 DEF UnionOf

\* All that a step of n may do to what Union is about, if it ends no session and
\* no user acts.
StoresStay(n) ==
    /\ manifest'[n] = manifest[n] /\ versions'[n] = versions[n]
    /\ disk'[n] = disk[n] /\ pending'[n] = pending[n]
Acks(n) == acked'[n] \in {acked[n], acked[n] + 1}

Talks(n, ev, next) ==
    /\ log' = Append(log, ev) /\ ev.origin = n
    /\ phase'[n] = next /\ acked'[n] = acked[n] /\ toPush'[n] = toPush[n] /\ StoresStay(n)
    /\ \/ /\ phase[n] \in Behind /\ ev.op \in {"bootstrap", "bootstrapAck"}
          /\ next \in {"awaitBootstrapAck", "scan"}
       \/ /\ phase[n] = "publishManifest" /\ ev.op = "manifest" /\ ev.files = manifest[n]
          /\ next = "awaitManifest"
       \/ phase[n] = "push" /\ ev.op = "done" /\ toPush[n] = {} /\ next = "drain"
Scans(n) ==
    /\ phase[n] = "scan" /\ phase'[n] = "publishManifest" /\ manifest'[n] = disk[n]
    /\ log' = log /\ acked'[n] = acked[n] /\ toPush'[n] = toPush[n]
    /\ versions'[n] = versions[n] /\ disk'[n] = disk[n] /\ pending'[n] = pending[n]
Listens(n, next) ==
    /\ HasIncoming(n) /\ Acks(n)
    /\ Incoming(n).origin = n \/ Incoming(n).op # "write"
    /\ log' = log /\ phase'[n] = next /\ toPush'[n] = toPush[n] /\ StoresStay(n)
    /\ \/ next = phase[n]
       \/ phase[n] \in Behind /\ next \in {"answer", "scan"}
       \/ /\ phase[n] = "drain" /\ next = "live"
          /\ Incoming(n).origin # n /\ Incoming(n).op = "done"
Compares(n) ==
    /\ HasIncoming(n) /\ Acks(n)
    /\ Incoming(n).origin # n /\ Incoming(n).op = "manifest"
    /\ log' = log /\ phase[n] = "awaitManifest" /\ phase'[n] = "push" /\ StoresStay(n)
    /\ toPush'[n] = DiffPaths(manifest[n], Incoming(n).files)
Pushes(n, f) ==
    /\ phase[n] = "push" /\ phase'[n] = "push" /\ f \in toPush[n]
    /\ toPush'[n] = toPush[n] \ {f}
    /\ \/ disk[n][f] = Absent
       \/ /\ log' = Append(log, WriteOf(n, f)) /\ disk[n][f] # Absent
          /\ versions'[n] = [versions[n] EXCEPT ![f] = Bumped(versions[n][f], n)]
    /\ manifest'[n] = manifest[n] /\ disk'[n] = disk[n] /\ pending'[n] = pending[n]
    /\ acked'[n] = acked[n]
Lands(n) ==
    /\ HasIncoming(n) /\ Acks(n)
    /\ Incoming(n).origin # n /\ Incoming(n).op = "write" /\ ApplyWrite(n, Incoming(n))
    /\ phase[n] \in {"drain", "live"} /\ phase'[n] = phase[n] /\ log' = log
    /\ toPush'[n] = toPush[n] /\ manifest'[n] = manifest[n]
Removes(n) ==
    /\ HasIncoming(n) /\ Incoming(n).origin # n /\ Incoming(n).op = "remove"
Rests(n) ==
    /\ log' = log /\ phase'[n] = phase[n] /\ acked'[n] = acked[n]
    /\ toPush'[n] = toPush[n] /\ StoresStay(n)

UnionKind(n) ==
    \/ \E ev \in Event, next \in Phase : Talks(n, ev, next)
    \/ \E next \in Phase : Listens(n, next)
    \/ \E f \in File : Pushes(n, f)
    \/ Scans(n) \/ Compares(n) \/ Lands(n) \/ Removes(n) \/ Rests(n)
    \/ pending[n] # {}

\* A node whose session is over does not come back.
LEMMA OverStays ==
    ASSUME TypeOK, Next, NEW n \in Node, Over(n)
    PROVE  Over(n)'
<1>1. PICK m \in Node : StepOf(m)
  BY StepKinds
<1>2. \/ phase'[n] = phase[n]
      \/ phase'[n] \in {"publisherOnly", "receiverOnly", "ended"}
  BY <1>1, PhasesApart DEF Over, StepOf, StaysPut, MovesOn, Ends, StartsWatching, Speaks,
     SaysDone, PublishesLive, Moved
<1> QED BY <1>2 DEF Over

LEMMA PublishGoesOn ==
    ASSUME TypeOK, NEW n \in Node, NEW ev \in Event, NEW next \in Phase,
           Publish(n, ev, next), ~Over(n)'
    PROVE  /\ log' = Append(log, ev) /\ phase'[n] = next
           /\ \A k \in Node \ {n} : phase'[k] = phase[k]
<1>1. \/ Moved(n, next) /\ log' = Append(log, ev)
      \/ Moved(n, "ended") \/ Moved(n, "receiverOnly")
  BY PublishType
<1> QED BY <1>1 DEF Moved, Over

LEMMA AwaitGoesOn ==
    ASSUME TypeOK, NEW n \in Node, NEW op, NEW next \in Phase,
           AwaitControl(n, op, next), ~Over(n)'
    PROVE  /\ HasIncoming(n) /\ Incoming(n).origin # n /\ Incoming(n).op = op
           /\ Acks(n) /\ phase'[n] = next
           /\ \A k \in Node \ {n} : phase'[k] = phase[k] /\ acked'[k] = acked[k]
<1>1. phase \in [Node -> Phase] /\ acked \in [Node -> Nat]
  BY DEF TypeOK
<1>2. CASE ReceiverEnds(n)
  <2>1. Moved(n, "ended") \/ Moved(n, "publisherOnly")
    BY <1>1, <1>2, ReceiverEndsType
  <2> QED BY <2>1 DEF Moved, Over
<1>3. CASE Incoming(n).op = op /\ Ack(n) /\ Goto(n, next)
  <2>1. Moved(n, next)
    BY <1>1, <1>3, GotoType
  <2> QED BY <1>1, <1>3, <2>1 DEF AwaitControl, Moved, Ack, Acks
<1> QED BY <1>2, <1>3 DEF AwaitControl

LEMMA SetUpUnion ==
    ASSUME TypeOK, NEW n \in Node, ~Over(n)',
           \/ PublishBootstrap(n) \/ ReceiveBootstrap(n)
           \/ PublishBootstrapAck(n) \/ ReceiveBootstrapAck(n)
           \/ ScanManifest(n) \/ PublishManifest(n) \/ ReceiveManifest(n)
           \/ PublishReconcileDone(n)
    PROVE  UnionKind(n) /\ \A k \in Node \ {n} : MateSame(k)
<1>0. /\ phase \in [Node -> Phase] /\ acked \in [Node -> Nat]
      /\ toPush \in [Node -> SUBSET File] /\ manifest \in [Node -> Manifest]
      /\ {"bootstrap", "awaitBootstrap", "awaitBootstrapAck", "answer", "scan",
          "publishManifest", "awaitManifest", "push", "drain"} \subseteq Phase
  BY DEF TypeOK, Phase, SetUp
<1>1. ASSUME NEW ev \in Event, NEW next \in Phase, ev.origin = n, Publish(n, ev, next),
             UNCHANGED <<controlUnchanged, scanVars, acked, lostAcks>>,
             \/ /\ phase[n] \in Behind /\ ev.op \in {"bootstrap", "bootstrapAck"}
                /\ next \in {"awaitBootstrapAck", "scan"}
             \/ /\ phase[n] = "publishManifest" /\ ev.op = "manifest" /\ ev.files = manifest[n]
                /\ next = "awaitManifest"
             \/ phase[n] = "push" /\ ev.op = "done" /\ toPush[n] = {} /\ next = "drain"
      PROVE  UnionKind(n) /\ \A k \in Node \ {n} : MateSame(k)
  <2>1. /\ log' = Append(log, ev) /\ phase'[n] = next
        /\ \A k \in Node \ {n} : phase'[k] = phase[k]
    BY <1>1, PublishGoesOn
  <2>2. /\ disk' = disk /\ versions' = versions /\ pending' = pending
        /\ manifest' = manifest /\ toPush' = toPush /\ acked' = acked
    BY <1>1 DEF controlUnchanged, scanVars, guardVars
  <2> QED BY <1>1, <2>1, <2>2 DEF UnionKind, Talks, StoresStay, MateSame
<1>2. CASE PublishBootstrap(n)
  <2> DEFINE ev == [op |-> "bootstrap", origin |-> n]
  <2>1. ev \in Event
    BY PublishedEvents
  <2> QED BY <1>0, <1>1, <1>2, <2>1 DEF PublishBootstrap, Behind
<1>3. CASE PublishBootstrapAck(n)
  <2> DEFINE ev == [op |-> "bootstrapAck", origin |-> n]
  <2>1. ev \in Event
    BY PublishedEvents
  <2> QED BY <1>0, <1>1, <1>3, <2>1 DEF PublishBootstrapAck, Behind
<1>4. CASE PublishManifest(n)
  <2> DEFINE ev == [op |-> "manifest", origin |-> n, files |-> manifest[n]]
  <2>1. ev \in Event
    BY PublishedEvents
  <2> QED BY <1>0, <1>1, <1>4, <2>1 DEF PublishManifest
<1>5. CASE PublishReconcileDone(n)
  <2> DEFINE ev == [op |-> "done", origin |-> n]
  <2>1. ev \in Event
    BY PublishedEvents
  <2> QED BY <1>0, <1>1, <1>5, <2>1 DEF PublishReconcileDone
<1>6. CASE ReceiveBootstrap(n) \/ ReceiveBootstrapAck(n)
  <2>1. /\ phase[n] \in Behind
        /\ UNCHANGED <<controlUnchanged, scanVars, log, failures>>
        /\ \E op \in {"bootstrap", "bootstrapAck"}, next \in {"answer", "scan"} :
             AwaitControl(n, op, next)
    BY <1>6 DEF ReceiveBootstrap, ReceiveBootstrapAck, Behind
  <2>2. PICK op \in {"bootstrap", "bootstrapAck"}, next \in {"answer", "scan"} :
             AwaitControl(n, op, next)
    BY <2>1
  <2>3. /\ HasIncoming(n) /\ Incoming(n).op = op /\ Acks(n) /\ phase'[n] = next
        /\ \A k \in Node \ {n} : phase'[k] = phase[k] /\ acked'[k] = acked[k]
    BY <1>0, <2>2, AwaitGoesOn
  <2>4. /\ disk' = disk /\ versions' = versions /\ pending' = pending
        /\ manifest' = manifest /\ toPush' = toPush /\ log' = log
    BY <2>1 DEF controlUnchanged, scanVars, guardVars
  <2>5. Listens(n, next) /\ next \in Phase
    BY <1>0, <2>1, <2>2, <2>3, <2>4 DEF Listens, StoresStay
  <2> QED BY <2>3, <2>4, <2>5 DEF UnionKind, MateSame
<1>7. CASE ReceiveManifest(n)
  <2>1. /\ phase[n] = "awaitManifest" /\ AwaitControl(n, "manifest", "push")
        /\ UNCHANGED <<controlUnchanged, manifest, log, failures>>
    BY <1>7 DEF ReceiveManifest
  <2>2. /\ HasIncoming(n) /\ Incoming(n).op = "manifest" /\ Acks(n) /\ phase'[n] = "push"
        /\ Incoming(n).origin # n
        /\ \A k \in Node \ {n} : phase'[k] = phase[k] /\ acked'[k] = acked[k]
    BY <1>0, <2>1, AwaitGoesOn
  <2>3. toPush' = [toPush EXCEPT ![n] = DiffPaths(manifest[n], Incoming(n).files)]
    BY <1>7, <2>2 DEF ReceiveManifest
  <2>4. /\ toPush'[n] = DiffPaths(manifest[n], Incoming(n).files)
        /\ \A k \in Node \ {n} : toPush'[k] = toPush[k]
    BY <1>0, <2>3
  <2>5. /\ disk' = disk /\ versions' = versions /\ pending' = pending
        /\ manifest' = manifest /\ log' = log
    BY <2>1 DEF controlUnchanged, guardVars
  <2> QED BY <2>1, <2>2, <2>4, <2>5 DEF UnionKind, Compares, StoresStay, MateSame
<1>8. CASE ScanManifest(n)
  <2>1. Moved(n, "publishManifest")
    BY <1>0, <1>8, GotoType DEF ScanManifest
  <2> QED BY <1>0, <1>8, <2>1
      DEF ScanManifest, controlUnchanged, guardVars, Moved, UnionKind, Scans, MateSame
<1> QED BY <1>2, <1>3, <1>4, <1>5, <1>6, <1>7, <1>8

LEMMA ReceivingUnion ==
    ASSUME TypeOK, NEW n \in Node, ~Over(n)', Drain(n) \/ ReceiveLive(n)
    PROVE  UnionKind(n) /\ \A k \in Node \ {n} : MateSame(k)
<1>0. /\ phase \in [Node -> Phase] /\ acked \in [Node -> Nat]
      /\ disk \in [Node -> Manifest] /\ versions \in [Node -> [File -> Vector]]
      /\ pending \in [Node -> SUBSET File] /\ "live" \in Phase
  BY DEF TypeOK, Phase
<1>1. ~Over(n)
  BY OverStays DEF Next, Step
<1>2. /\ phase[n] \in {"drain", "live"} /\ HasIncoming(n) /\ Incoming(n).origin # n
      /\ manifest' = manifest /\ toPush' = toPush /\ log' = log
  BY <1>1 DEF Drain, ReceiveLive, scanVars, Over
<1>3. CASE ReceiverEnds(n)
  <2>1. Moved(n, "ended") \/ Moved(n, "publisherOnly")
    BY <1>0, <1>3, ReceiverEndsType
  <2> QED BY <2>1 DEF Moved, Over
<1>4. ASSUME Ack(n) PROVE Acks(n) /\ \A k \in Node \ {n} : acked'[k] = acked[k]
  BY <1>0, <1>4 DEF Ack, Acks
<1>5. CASE /\ Incoming(n).op = "write" /\ ApplyWrite(n, Incoming(n)) /\ Ack(n)
           /\ phase' = phase
  <2>1. Lands(n)
    BY <1>2, <1>4, <1>5 DEF Lands
  <2>2. \A k \in Node \ {n} : /\ versions'[k] = versions[k] /\ disk'[k] = disk[k]
                              /\ pending'[k] = pending[k]
    BY <1>0, <1>5 DEF ApplyWrite, PutAside, Observed
  <2> QED BY <1>2, <1>4, <1>5, <2>1, <2>2 DEF UnionKind, MateSame
<1>6. CASE /\ Incoming(n).op = "remove" /\ Ack(n) /\ phase' = phase /\ versions' = versions
           /\ disk' = [disk EXCEPT ![n][Incoming(n).file] = Absent]
           /\ pending' = IF disk[n][Incoming(n).file] = Absent THEN pending
                         ELSE Observed(n, Incoming(n).file)
  <2>1. \A k \in Node \ {n} : disk'[k] = disk[k] /\ pending'[k] = pending[k]
    BY <1>0, <1>6 DEF Observed
  <2> QED BY <1>2, <1>4, <1>6, <2>1 DEF UnionKind, Removes, MateSame
<1>7. CASE /\ Incoming(n).op \in {"bootstrap", "bootstrapAck", "done"} /\ Ack(n)
           /\ UNCHANGED <<versions, disk, pending>>
           /\ \/ phase' = phase
              \/ phase[n] = "drain" /\ Incoming(n).op = "done" /\ Goto(n, "live")
  <2>1. \/ Moved(n, phase[n])
        \/ phase[n] = "drain" /\ Incoming(n).op = "done" /\ Moved(n, "live")
    BY <1>0, <1>7, GotoType DEF Moved
  <2>2. \E next \in Phase : Listens(n, next)
    BY <1>0, <1>2, <1>4, <1>7, <2>1 DEF Listens, Moved, StoresStay
  <2>3. \A k \in Node \ {n} : phase'[k] = phase[k]
    BY <2>1 DEF Moved
  <2> QED BY <1>2, <1>4, <1>7, <2>2, <2>3 DEF UnionKind, MateSame
<1> QED BY <1>3, <1>5, <1>6, <1>7 DEF Drain, ReceiveLive, ReceiveWrite

LEMMA OtherUnion ==
    ASSUME TypeOK, NEW n \in Node, ~Over(n)', edits' = 0,
           \/ SkipOwn(n) \/ Fails(n) \/ BootstrapTimesOut(n)
           \/ \E f \in Path, c \in Content \cup {Absent} : UserEdit(n, f, c)
           \/ \E f \in File : Push(n, f)
           \/ \E f \in File : PublishChange(n, f)
    PROVE  UnionKind(n) /\ (pending[n] = {} => \A k \in Node \ {n} : MateSame(k))
<1>0. /\ phase \in [Node -> Phase] /\ acked \in [Node -> Nat]
      /\ toPush \in [Node -> SUBSET File] /\ versions \in [Node -> [File -> Vector]]
      /\ edits \in Nat /\ {"push", "ended"} \subseteq Phase
  BY DEF TypeOK, Phase, SetUp
<1>1. CASE SkipOwn(n)
  <2>1. Acks(n) /\ \A k \in Node \ {n} : acked'[k] = acked[k]
    BY <1>0, <1>1 DEF SkipOwn, Ack, Acks
  <2>2. Listens(n, phase[n]) /\ phase[n] \in Phase
    BY <1>0, <1>1, <2>1 DEF SkipOwn, Listens, StoresStay, scanVars, guardVars
  <2> QED BY <1>1, <2>1, <2>2 DEF SkipOwn, UnionKind, MateSame, scanVars, guardVars
<1>2. CASE Fails(n) \/ BootstrapTimesOut(n)
  <2>1. Moved(n, "ended") \/ Moved(n, "publisherOnly")
    BY <1>0, <1>2, ReceiverEndsType, GotoType DEF Fails, BootstrapTimesOut
  <2> QED BY <2>1 DEF Moved, Over
<1>3. CASE \E f \in Path, c \in Content \cup {Absent} : UserEdit(n, f, c)
  BY <1>0, <1>3 DEF UserEdit
<1>4. ASSUME NEW f \in File, Push(n, f)
      PROVE  UnionKind(n) /\ \A k \in Node \ {n} : MateSame(k)
  <2>1. /\ phase[n] = "push" /\ f \in toPush[n]
        /\ toPush' = [toPush EXCEPT ![n] = @ \ {f}]
        /\ disk' = disk /\ manifest' = manifest /\ acked' = acked /\ pending' = pending
    BY <1>4 DEF Push
  <2>2. toPush'[n] = toPush[n] \ {f} /\ \A k \in Node \ {n} : toPush'[k] = toPush[k]
    BY <1>0, <2>1
  <2>3. CASE disk[n][f] = Absent /\ UNCHANGED <<phase, log, failures, versions, sendSeq>>
    BY <2>1, <2>2, <2>3 DEF UnionKind, Pushes, MateSame
  <2>4. CASE disk[n][f] # Absent /\ Publish(n, WriteOf(n, f), "push") /\ StampAndSeal(n, f)
    <3>1. WriteOf(n, f) \in Event
      BY <2>4, PublishedEvents
    <3>2. /\ log' = Append(log, WriteOf(n, f)) /\ phase'[n] = "push"
          /\ \A k \in Node \ {n} : phase'[k] = phase[k]
      BY <1>0, <2>4, <3>1, PublishGoesOn
    <3>3. versions' = [versions EXCEPT ![n][f] = Bumped(versions[n][f], n)]
      BY <2>4 DEF StampAndSeal
    <3>4. /\ versions'[n] = [versions[n] EXCEPT ![f] = Bumped(versions[n][f], n)]
          /\ \A k \in Node \ {n} : versions'[k] = versions[k]
      BY <1>0, <3>3
    <3> QED BY <2>1, <2>2, <2>4, <3>2, <3>4 DEF UnionKind, Pushes, MateSame
  <2> QED BY <1>4, <2>3, <2>4 DEF Push
<1>5. CASE \E f \in File : PublishChange(n, f)
  BY <1>5 DEF PublishChange, UnionKind
<1> QED BY <1>1, <1>2, <1>3, <1>4, <1>5

LEMMA OverIsForGood ==
    ASSUME TypeOK, [Next]_vars, NobodyOver'
    PROVE  NobodyOver
<1>1. CASE UNCHANGED vars
  BY <1>1 DEF vars, NobodyOver, Over
<1>2. CASE Next
  BY <1>2, OverStays DEF NobodyOver
<1> QED BY <1>1, <1>2

LEMMA UnionKinds ==
    ASSUME TypeOK, [Next]_vars, NobodyOver', edits' = 0
    PROVE  /\ edits = 0 /\ NobodyOver
           /\ \E n \in Node : /\ UnionKind(n)
                              /\ pending[n] = {} => \A k \in Node \ {n} : MateSame(k)
<1>1. NobodyOver /\ edits \in Nat
  BY OverIsForGood DEF TypeOK
<1>2. CASE UNCHANGED vars
  <2>1. /\ Rests(Initiator) /\ edits = 0
        /\ \A k \in Node \ {Initiator} : MateSame(k)
    BY <1>2 DEF vars, scanVars, guardVars, Rests, StoresStay, MateSame
  <2> QED BY <1>1, <2>1, EndsAreNodes DEF UnionKind
<1>3. ASSUME NEW n \in Node,
             \/ Step(n) \/ Fails(n) \/ BootstrapTimesOut(n)
             \/ \E f \in Path, c \in Content \cup {Absent} : UserEdit(n, f, c)
      PROVE  /\ edits = 0
             /\ UnionKind(n) /\ (pending[n] = {} => \A k \in Node \ {n} : MateSame(k))
  <2>1. edits' \in {edits, edits + 1}
    BY <1>3 DEF Step, SkipOwn, Fails, BootstrapTimesOut, UserEdit, PublishBootstrap,
       ReceiveBootstrap, PublishBootstrapAck, ReceiveBootstrapAck, ScanManifest,
       PublishManifest, ReceiveManifest, Push, PublishReconcileDone, Drain, ReceiveLive,
       PublishChange, controlUnchanged
  <2>2. ~Over(n)'
    BY DEF NobodyOver, Over
  <2> QED BY <1>1, <1>3, <2>1, <2>2, SetUpUnion, ReceivingUnion, OtherUnion DEF Step
<1> QED BY <1>1, <1>2, <1>3 DEF Next

\* The event a node has next is one of the stream's.
LEMMA IncomingPlace ==
    ASSUME TypeOK, NEW n \in Node, HasIncoming(n)
    PROVE  /\ acked[n] \in Nat /\ acked[n] + 1 \in 1..Len(log)
           /\ Incoming(n) = log[acked[n] + 1] /\ Incoming(n) \in Event
           /\ \A i \in 1..(acked[n] + 1) : i \in 1..acked[n] \/ i = acked[n] + 1
<1>1. /\ acked[n] \in Nat /\ Len(log) \in Nat /\ log \in Seq(Event)
      /\ acked[n] < Len(log) /\ Incoming(n) = log[acked[n] + 1]
  BY DEF TypeOK, HasIncoming, Incoming
<1> QED BY <1>1

LEMMA RestsOwn ==
    ASSUME TypeOK, NEW n \in Node, NEW m \in Node, n # m, UnionOf(n, m), MateSame(m), Rests(n)
    PROVE  UnionOf(n, m)'
<1>1. ScanKept(n)' /\ PushKept(n, m)' /\ LandKept(n, m)'
  BY DEF UnionOf, ScanKept, PushKept, LandKept, Landed, Rests, StoresStay, MateSame, Diff,
     Pushed, Says, Beside
<1>2. \A i \in 1..Len(log') : EventKept(i, n, m)'
  BY DEF UnionOf, EventKept, Rests, StoresStay, MateSame, Diff, Solo
<1>3. DoneLast(n)' /\ ReadKept(n, m)' /\ LiveKept(n, m)'
  BY DEF UnionOf, DoneLast, ReadKept, LiveKept, Handled, Says, Rests, StoresStay
<1> QED BY <1>1, <1>2, <1>3 DEF UnionOf

\* The scan: nobody has told of this tree yet.
LEMMA ScansOwn ==
    ASSUME TypeOK, NEW n \in Node, NEW m \in Node, n # m, UnionOf(n, m), MateSame(m), Scans(n)
    PROVE  UnionOf(n, m)'
<1>1. phase[n] \in Behind /\ phase[n] \notin Ahead /\ phase[n] # "live"
      /\ phase'[n] = "publishManifest" /\ phase'[n] \notin Ahead /\ phase'[n] \notin Behind
  BY DEF Scans, Behind, Ahead
<1>2. ScanKept(n)'
  BY <1>1 DEF UnionOf, ScanKept, Scans, Ahead
<1>3. PushKept(n, m)' /\ LandKept(n, m)' /\ LiveKept(n, m)'
  BY <1>1 DEF PushKept, LandKept, LiveKept, Ahead
<1>4. ASSUME NEW i \in 1..Len(log')
      PROVE  EventKept(i, n, m)'
  <2>1. i \in 1..Len(log) /\ log' = log /\ EventKept(i, n, m)
    BY DEF Scans, UnionOf
  <2>2. log[i].origin = n => log[i].op \notin {"remove", "manifest", "write"}
    BY <1>1, <2>1 DEF EventKept
  <2> QED BY <2>1, <2>2 DEF EventKept
<1>5. DoneLast(n)' /\ ReadKept(n, m)'
  BY DEF UnionOf, DoneLast, ReadKept, Handled, Says, Scans
<1> QED BY <1>2, <1>3, <1>4, <1>5 DEF UnionOf

LEMMA TalksOwn ==
    ASSUME TypeOK, NEW n \in Node, NEW m \in Node, n # m, UnionOf(n, m), MateSame(m),
           NEW ev \in Event, NEW next \in Phase, Talks(n, ev, next)
    PROVE  UnionOf(n, m)'
<1>0. /\ ScanKept(n) /\ PushKept(n, m) /\ DoneLast(n) /\ ReadKept(n, m)
      /\ \A i \in 1..Len(log) : EventKept(i, n, m)
  BY DEF UnionOf
<1>1. /\ Len(log) \in Nat /\ Len(log') = Len(log) + 1 /\ log'[Len(log) + 1] = ev
      /\ \A i \in 1..Len(log) : log'[i] = log[i]
      /\ \A i \in 1..Len(log') : i \in 1..Len(log) \/ i = Len(log) + 1
  <2>1. log \in Seq(Event) /\ log' = Append(log, ev)
    BY DEF TypeOK, Talks
  <2> QED BY <2>1
<1>2. /\ ev.origin = n /\ ev.op \notin {"write", "remove"}
      /\ phase'[n] = next /\ acked'[n] = acked[n] /\ toPush'[n] = toPush[n]
      /\ manifest'[n] = manifest[n] /\ versions'[n] = versions[n]
      /\ disk'[n] = disk[n] /\ pending'[n] = pending[n]
  BY DEF Talks, StoresStay
<1>3. /\ phase[n] \notin Behind => phase'[n] \notin Behind
      /\ phase'[n] \in Ahead <=> phase[n] \in Ahead
      /\ phase'[n] \in Ahead => phase[n] = "push" /\ phase'[n] = "drain" /\ toPush[n] = {}
      /\ phase'[n] # "live"
      /\ ev.op = "manifest" => ev.files = manifest[n] /\ phase'[n] \notin Behind
      /\ phase'[n] \in {"publishManifest", "awaitManifest", "push"}
           => phase[n] = "publishManifest"
      /\ phase'[n] \notin {"drain", "live"} => phase[n] \notin {"drain", "live"}
  BY DEF Talks, Behind, Ahead
<1>4. ScanKept(n)'
  BY <1>0, <1>2, <1>3 DEF ScanKept
<1>5. Diff(n, m)' = Diff(n, m) /\ Diff(m, n)' = Diff(m, n)
  BY <1>2 DEF Diff, MateSame
<1>6. PushKept(n, m)'
  <2> SUFFICES ASSUME phase'[n] \in Ahead
               PROVE  /\ phase'[m] \notin Behind
                      /\ toPush'[n] \subseteq Diff(n, m)'
                      /\ phase'[n] # "push" => toPush'[n] = {}
                      /\ \A f \in Path : versions'[n][f][n] =
                           IF f \in Diff(n, m)' \ toPush'[n] THEN 1 ELSE 0
                      /\ \A f \in Diff(n, m)' \ toPush'[n] : Pushed(n, f)'
                      /\ phase'[n] = "push" => \A f \in Path : versions'[n][f][m] = 0
    BY DEF PushKept
  <2>1. \A f \in Diff(n, m) \ toPush[n] : Pushed(n, f)'
    BY <1>0, <1>3, PushedStays DEF PushKept, Talks
  <2> QED BY <1>0, <1>2, <1>3, <1>5, <2>1 DEF PushKept, MateSame
<1>7. LandKept(n, m)'
  <2> SUFFICES ASSUME phase'[n] \in {"drain", "live"}, NEW f \in Path
               PROVE  Landed(n, m, f)'
    BY DEF LandKept
  <2>1. phase[n] = "push" /\ disk[n] = manifest[n] /\ versions[n][f][m] = 0
    BY <1>0, <1>3 DEF PushKept, ScanKept, Ahead
  <2> QED BY <1>2, <2>1 DEF Landed
<1>8. ASSUME NEW i \in 1..Len(log')
      PROVE  EventKept(i, n, m)'
  <2>1. CASE i \in 1..Len(log)
    <3>1. EventKept(i, n, m) /\ log'[i] = log[i]
      BY <1>0, <1>1, <2>1
    <3> QED BY <1>2, <1>3, <1>5, <3>1 DEF EventKept, Solo
  <2>2. CASE i = Len(log) + 1
    <3>1. log'[i] = ev
      BY <1>1, <2>2
    <3> QED BY <1>2, <1>3, <3>1 DEF EventKept
  <2> QED BY <1>1, <2>1, <2>2
<1>9. DoneLast(n)'
  <2> SUFFICES ASSUME NEW i \in 1..Len(log'), NEW j \in 1..Len(log'), i < j,
                      log'[i].op = "done" /\ log'[i].origin = n,
                      log'[j].op = "write" /\ log'[j].origin = n
               PROVE  FALSE
    BY DEF DoneLast, Says
  <2>1. j # Len(log) + 1
    BY <1>1, <1>2
  <2>2. j \in 1..Len(log) /\ i \in 1..Len(log)
    BY <1>1, <2>1
  <2> QED BY <1>0, <1>1, <2>2 DEF DoneLast, Says
<1>10. ReadKept(n, m)'
  <2>1. acked[n] \in Nat /\ acked[n] <= Len(log)
    BY DEF TypeOK
  <2>2. \A i \in 1..acked[n] : i \in 1..Len(log) /\ log'[i] = log[i]
    BY <1>1, <2>1
  <2> QED BY <1>0, <1>2, <2>2 DEF ReadKept, Handled, Says
<1>11. LiveKept(n, m)'
  BY <1>3 DEF LiveKept
<1> QED BY <1>4, <1>6, <1>7, <1>8, <1>9, <1>10, <1>11 DEF UnionOf

LEMMA ListensOwn ==
    ASSUME TypeOK, NEW n \in Node, NEW m \in Node, n # m, UnionOf(n, m), DoneLast(m),
           MateSame(m), NEW next \in Phase, Listens(n, next)
    PROVE  UnionOf(n, m)'
<1> DEFINE i == acked[n] + 1
           ev == Incoming(n)
<1>0. /\ ScanKept(n) /\ PushKept(n, m) /\ LandKept(n, m) /\ DoneLast(n)
      /\ ReadKept(n, m) /\ LiveKept(n, m)
      /\ \A k \in 1..Len(log) : EventKept(k, n, m)
  BY DEF UnionOf
<1>1. /\ i \in 1..Len(log) /\ ev = log[i] /\ ev \in Event /\ acked[n] \in Nat
      /\ \A k \in 1..i : k \in 1..acked[n] \/ k = i
  BY IncomingPlace DEF Listens
<1>2. /\ log' = log /\ phase'[n] = next /\ toPush'[n] = toPush[n]
      /\ manifest'[n] = manifest[n] /\ versions'[n] = versions[n]
      /\ disk'[n] = disk[n] /\ pending'[n] = pending[n]
      /\ acked'[n] = acked[n] \/ acked'[n] = i
      /\ ev.origin = n \/ ev.op # "write"
  BY DEF Listens, StoresStay, Acks
<1>3. /\ Diff(n, m)' = Diff(n, m) /\ Diff(m, n)' = Diff(m, n)
      /\ \A f : Pushed(n, f)' <=> Pushed(n, f)
  BY <1>2 DEF Diff, MateSame, Pushed, Says
<1>4. \/ phase'[n] = phase[n]
      \/ phase[n] \in Behind /\ phase'[n] \in {"answer", "scan"}
      \/ phase[n] = "drain" /\ phase'[n] = "live" /\ ev.origin # n /\ ev.op = "done"
  BY DEF Listens
<1> HIDE DEF i, ev
<1>5. ScanKept(n)'
  BY <1>0, <1>2, <1>4 DEF ScanKept, Behind, Ahead
<1>6. PushKept(n, m)'
  BY <1>0, <1>2, <1>3, <1>4 DEF PushKept, MateSame, Behind, Ahead
<1>7. LandKept(n, m)'
  <2> SUFFICES ASSUME phase'[n] \in {"drain", "live"}, NEW f \in Path
               PROVE  Landed(n, m, f)'
    BY DEF LandKept
  <2>1. Landed(n, m, f)
    BY <1>0, <1>4 DEF LandKept, Behind
  <2> QED BY <1>2, <1>3, <2>1 DEF Landed, MateSame, Beside
<1>8. ASSUME NEW k \in 1..Len(log')
      PROVE  EventKept(k, n, m)'
  <2>1. EventKept(k, n, m) /\ log' = log
    BY <1>0, <1>2
  <2>2. /\ phase[n] \notin Behind => phase'[n] \notin Behind
        /\ phase[n] \in Ahead => phase'[n] \in Ahead
    BY <1>4 DEF Behind, Ahead
  <2> QED BY <1>2, <1>3, <2>1, <2>2 DEF EventKept, Solo
<1>9. DoneLast(n)'
  BY <1>0, <1>2 DEF DoneLast, Says
<1>10. \A k : Handled(n, m, k)' <=> Handled(n, m, k)
  BY <1>2 DEF Handled, Says
<1>11. Handled(n, m, i)
  BY <1>1, <1>2 DEF Handled, Says
<1>12. ReadKept(n, m)'
  BY <1>0, <1>1, <1>2, <1>10, <1>11 DEF ReadKept
<1>13. LiveKept(n, m)'
  <2>1. CASE phase[n] = "live"
    BY <1>0, <1>2, <1>10, <2>1 DEF LiveKept
  <2>2. CASE phase[n] = "drain" /\ ev.origin # n /\ ev.op = "done"
    <3>1. ev.origin = m
      BY <1>1, <2>2, EventFields, TwoNodes
    <3>2. ASSUME NEW k \in 1..Len(log), log[k].origin = m, log[k].op = "write"
          PROVE  versions[n][log[k].file][m] = 1
      <4>1. ~(i < k)
        BY <1>1, <2>2, <3>1, <3>2 DEF DoneLast, Says
      <4>2. k # i
        BY <1>1, <2>2, <3>2
      <4>3. k \in 1..acked[n]
        BY <1>1, <4>1, <4>2 DEF i
      <4> QED BY <1>0, <3>2, <4>3 DEF ReadKept, Handled, Says
    <3>3. \A k \in 1..Len(log) : Handled(n, m, k)
      BY <3>2 DEF Handled, Says
    <3> QED BY <1>2, <1>10, <3>3 DEF LiveKept
  <2> QED BY <1>4, <2>1, <2>2 DEF LiveKept, Behind
<1> QED BY <1>5, <1>6, <1>7, <1>8, <1>9, <1>12, <1>13 DEF UnionOf

\* The difference is taken against what m scanned.
LEMMA ComparesOwn ==
    ASSUME TypeOK, NEW n \in Node, NEW m \in Node, n # m, UnionOf(n, m), UnionOf(m, n),
           MateSame(m), Compares(n)
    PROVE  UnionOf(n, m)'
<1> DEFINE i == acked[n] + 1
           ev == Incoming(n)
<1>0. /\ ScanKept(n) /\ DoneLast(n) /\ ReadKept(n, m)
      /\ \A k \in 1..Len(log) : EventKept(k, n, m) /\ EventKept(k, m, n)
  BY DEF UnionOf
<1>1. /\ i \in 1..Len(log) /\ ev = log[i] /\ ev \in Event /\ acked[n] \in Nat
      /\ \A k \in 1..i : k \in 1..acked[n] \/ k = i
  BY IncomingPlace DEF Compares
<1>2. /\ log' = log /\ phase[n] = "awaitManifest" /\ phase'[n] = "push"
      /\ toPush'[n] = DiffPaths(manifest[n], ev.files)
      /\ manifest'[n] = manifest[n] /\ versions'[n] = versions[n]
      /\ disk'[n] = disk[n] /\ pending'[n] = pending[n]
      /\ acked'[n] = acked[n] \/ acked'[n] = i
      /\ ev.origin # n /\ ev.op = "manifest"
  BY DEF Compares, StoresStay, Acks
<1>3. ev.origin = m
  BY <1>1, <1>2, EventFields, TwoNodes
<1>4. ev.files = manifest[m] /\ phase[m] \notin Behind
  BY <1>0, <1>1, <1>2, <1>3 DEF EventKept
<1>5. /\ Diff(n, m)' = Diff(n, m) /\ toPush'[n] = Diff(n, m)
  BY <1>2, <1>4 DEF Diff, MateSame
<1>6. phase[n] \notin Ahead /\ phase[n] \notin Behind /\ versions[n] = [f \in File |-> ZeroVector]
  BY <1>0, <1>2 DEF ScanKept, Ahead, Behind
<1> HIDE DEF i, ev
<1>7. ScanKept(n)'
  BY <1>0, <1>2 DEF ScanKept, Ahead
<1>8. PushKept(n, m)'
  <2>1. \A f \in Path : versions[n][f][n] = 0 /\ versions[n][f][m] = 0
    BY <1>6, PathsAreFiles DEF ZeroVector
  <2> QED BY <1>2, <1>4, <1>5, <2>1 DEF PushKept, MateSame
<1>9. LandKept(n, m)' /\ LiveKept(n, m)'
  BY <1>2 DEF LandKept, LiveKept
<1>10. ASSUME NEW k \in 1..Len(log')
       PROVE  EventKept(k, n, m)'
  <2>1. EventKept(k, n, m) /\ log' = log
    BY <1>0, <1>2
  <2> QED BY <1>2, <1>5, <1>6, <2>1 DEF EventKept, Solo, Ahead, Behind
<1>11. DoneLast(n)'
  BY <1>0, <1>2 DEF DoneLast, Says
<1>12. \A k : Handled(n, m, k)' <=> Handled(n, m, k)
  BY <1>2 DEF Handled, Says
<1>13. Handled(n, m, i)
  BY <1>1, <1>2 DEF Handled, Says
<1>14. ReadKept(n, m)'
  BY <1>0, <1>1, <1>2, <1>12, <1>13 DEF ReadKept
<1> QED BY <1>7, <1>8, <1>9, <1>10, <1>11, <1>14 DEF UnionOf

\* A push: the disk still is what was scanned, the write the first of its file.
LEMMA PushesOwn ==
    ASSUME TypeOK, NEW n \in Node, NEW m \in Node, n # m, UnionOf(n, m), UnionOf(m, n),
           MateSame(m), ~Done(n), NEW f \in File, Pushes(n, f)
    PROVE  /\ UnionOf(n, m)'
           /\ WriteOf(n, f) \in Event /\ log' = Append(log, WriteOf(n, f))
<1> DEFINE ev == WriteOf(n, f)
<1>0. /\ ScanKept(n) /\ PushKept(n, m) /\ ReadKept(n, m)
      /\ \A i \in 1..Len(log) : EventKept(i, n, m)
  BY DEF UnionOf
<1>1. /\ phase[n] = "push" /\ phase'[n] = "push" /\ f \in toPush[n]
      /\ phase[n] \in Ahead /\ phase[n] \notin Behind
      /\ toPush'[n] = toPush[n] \ {f} /\ toPush[n] \subseteq Diff(n, m)
      /\ manifest'[n] = manifest[n] /\ disk'[n] = disk[n] /\ pending'[n] = pending[n]
      /\ acked'[n] = acked[n] /\ disk[n] = manifest[n]
  BY <1>0 DEF Pushes, Ahead, Behind, PushKept, ScanKept
<1>2. /\ manifest \in [Node -> Manifest] /\ versions \in [Node -> [File -> Vector]]
      /\ log \in Seq(Event)
  BY DEF TypeOK
<1>3. f \in Path /\ manifest[n][f] # Absent
  BY <1>0, <1>1, <1>2, DiffIsPaths DEF ScanKept
<1>4. /\ ev \in Event /\ log' = Append(log, ev)
      /\ versions'[n] = [versions[n] EXCEPT ![f] = Bumped(versions[n][f], n)]
  BY <1>1, <1>3, PublishedEvents DEF Pushes
<1>5. /\ Len(log) \in Nat /\ Len(log') = Len(log) + 1 /\ log'[Len(log) + 1] = ev
      /\ \A i \in 1..Len(log) : log'[i] = log[i]
      /\ \A i \in 1..Len(log') : i \in 1..Len(log) \/ i = Len(log) + 1
  BY <1>2, <1>4
<1>6. /\ versions[n][f] \in Vector /\ versions[n][f][n] = 0 /\ versions[n][f][m] = 0
  BY <1>0, <1>1, <1>2, <1>3 DEF PushKept
<1>7. \A k \in Node : k = n \/ k = m
  BY TwoNodes
<1>8. /\ Bumped(versions[n][f], n) = Solo(n)
  BY <1>6, <1>7 DEF Bumped, Solo, Vector
<1>9. /\ ev.origin = n /\ ev.op = "write" /\ ev.file = f /\ ev.data = manifest[n][f]
      /\ ev.version = Solo(n)
  BY <1>1, <1>8 DEF WriteOf
<1> HIDE DEF ev
<1>10. Diff(n, m)' = Diff(n, m)
  BY <1>1 DEF Diff, MateSame
<1>11. ScanKept(n)'
  BY <1>0, <1>1 DEF ScanKept
<1>12. \A g \in Path : /\ g # f => versions'[n][g] = versions[n][g]
                       /\ g = f => versions'[n][g][n] = 1 /\ versions'[n][g][m] = 0
  BY <1>2, <1>3, <1>4, <1>8, PathsAreFiles DEF Solo
<1>13. PushKept(n, m)'
  <2>1. \A g \in Path : versions'[n][g][n] =
          IF g \in Diff(n, m) \ (toPush[n] \ {f}) THEN 1 ELSE 0
    BY <1>0, <1>1, <1>12 DEF PushKept
  <2>2. \A g \in Path : versions'[n][g][m] = 0
    BY <1>0, <1>1, <1>12 DEF PushKept
  <2>3. ASSUME NEW g \in Diff(n, m) \ (toPush[n] \ {f})
        PROVE  Pushed(n, g)'
    <3>1. CASE g = f
      <4>1. Len(log) + 1 \in 1..Len(log')
        BY <1>5
      <4> QED BY <1>5, <1>9, <3>1, <4>1 DEF Pushed, Says
    <3>2. CASE g # f
      <4>1. Pushed(n, g)
        BY <1>0, <1>1, <2>3, <3>2 DEF PushKept
      <4> QED BY <1>4, <4>1, PushedStays
    <3> QED BY <3>1, <3>2
  <2>4. phase'[m] \notin Behind
    BY <1>0, <1>1 DEF PushKept, MateSame
  <2> QED BY <1>1, <1>10, <2>1, <2>2, <2>3, <2>4 DEF PushKept
<1>14. LandKept(n, m)' /\ LiveKept(n, m)'
  BY <1>1 DEF LandKept, LiveKept
<1>15. ASSUME NEW i \in 1..Len(log')
       PROVE  EventKept(i, n, m)'
  <2>1. CASE i \in 1..Len(log)
    <3>1. EventKept(i, n, m) /\ log'[i] = log[i]
      BY <1>0, <1>5, <2>1
    <3> QED BY <1>1, <1>10, <3>1 DEF EventKept, Solo
  <2>2. CASE i = Len(log) + 1
    <3>1. log'[i] = ev
      BY <1>5, <2>2
    <3> QED BY <1>1, <1>9, <1>10, <3>1 DEF EventKept, Solo
  <2> QED BY <1>5, <2>1, <2>2
<1>16. DoneLast(n)'
  <2> SUFFICES ASSUME NEW i \in 1..Len(log'), log'[i].op = "done" /\ log'[i].origin = n
               PROVE  FALSE
    BY DEF DoneLast, Says
  <2>1. i # Len(log) + 1
    BY <1>5, <1>9
  <2>2. i \in 1..Len(log)
    BY <1>5, <2>1
  <2> QED BY <1>5, <2>2 DEF Done, SaidDone
<1>17. ReadKept(n, m)'
  <2>1. acked[n] \in Nat /\ acked[n] <= Len(log)
    BY DEF TypeOK
  <2>2. \A i \in 1..acked[n] : i \in 1..Len(log) /\ log'[i] = log[i]
    BY <1>5, <2>1
  <2>3. ASSUME NEW i \in 1..acked[n], log[i].origin = m, log[i].op = "write"
        PROVE  FALSE
    <3>1. i \in 1..Len(log) /\ EventKept(i, m, n) /\ ScanKept(m)
      BY <2>2, <2>3 DEF UnionOf
    <3>2. log[i].file \in Path
      BY <1>2, <2>3, <3>1, DiffIsPaths DEF EventKept, ScanKept
    <3>3. versions[n][log[i].file][m] = 1
      BY <1>0, <2>3 DEF ReadKept, Handled, Says
    <3> QED BY <1>0, <1>1, <3>2, <3>3 DEF PushKept
  <2> QED BY <1>1, <2>2, <2>3 DEF ReadKept, Handled, Says
<1> QED BY <1>4, <1>11, <1>13, <1>14, <1>15, <1>16, <1>17 DEF UnionOf, ev

\* A write of the peer lands: at its path, beside it, or it did already.
LEMMA LandsOwn ==
    ASSUME TypeOK, NEW n \in Node, NEW m \in Node, n # m, UnionOf(n, m), UnionOf(m, n),
           MateSame(m), Lands(n)
    PROVE  UnionOf(n, m)'
<1> DEFINE ev == Incoming(n)
<1>a. PICK i : i = acked[n] + 1
  OBVIOUS
<1>b. PICK f : f = ev.file
  OBVIOUS
<1> DEFINE old == versions[n][f]
<1>0. /\ ScanKept(n) /\ PushKept(n, m) /\ LandKept(n, m) /\ DoneLast(n)
      /\ ReadKept(n, m) /\ LiveKept(n, m) /\ ScanKept(m)
      /\ \A k \in 1..Len(log) : EventKept(k, n, m) /\ EventKept(k, m, n)
  BY DEF UnionOf
<1>1. /\ i \in 1..Len(log) /\ ev = log[i] /\ ev \in Event /\ acked[n] \in Nat
      /\ \A k \in 1..i : k \in 1..acked[n] \/ k = i
  BY <1>a, IncomingPlace DEF Lands
<1>2. /\ log' = log /\ phase[n] \in {"drain", "live"} /\ phase'[n] = phase[n]
      /\ toPush'[n] = toPush[n] /\ manifest'[n] = manifest[n]
      /\ acked'[n] = acked[n] \/ acked'[n] = i
      /\ ev.origin # n /\ ev.op = "write" /\ ApplyWrite(n, ev)
  BY <1>a DEF Lands, Acks
<1>3. ev.origin = m
  BY <1>1, <1>2, EventFields, TwoNodes
<1>4. /\ f \in Diff(m, n) /\ ev.data = manifest[m][f] /\ ev.version = Solo(m)
  BY <1>0, <1>1, <1>2, <1>3, <1>b DEF EventKept
<1>5. /\ manifest \in [Node -> Manifest] /\ versions \in [Node -> [File -> Vector]]
      /\ disk \in [Node -> Manifest]
  BY DEF TypeOK
<1>6. /\ f \in Path /\ f \in File
      /\ manifest[m][f] # Absent /\ manifest[n][f] # manifest[m][f]
  BY <1>0, <1>4, <1>5, DiffIsPaths, PathsAreFiles DEF ScanKept
<1>7. Beside(f, m) \in ConflictFile /\ Beside(f, m) \in File /\ Beside(f, m) \notin Path
  BY <1>6, PathsAreFiles, NamesApart DEF Beside, ConflictFile
<1>8. Landed(n, m, f) /\ toPush[n] = {} /\ phase[n] \in Ahead
  BY <1>0, <1>2, <1>6 DEF LandKept, PushKept, Ahead
<1>9. old \in Vector /\ old[m] \in {0, 1} /\ old[n] \in {0, 1}
  BY <1>0, <1>5, <1>6, <1>8 DEF Landed, PushKept
<1>10. /\ old[m] = 0 /\ old[n] = 0 => After(ev.version, old) /\ ~Concurrent(ev.version, old)
       /\ old[m] = 0 /\ old[n] = 1 => ~After(ev.version, old) /\ Concurrent(ev.version, old)
       /\ old[m] = 1 => ~After(ev.version, old) /\ ~Concurrent(ev.version, old)
       /\ old[m] = 0 => ~Same(ev.version, old) /\ ~Before(ev.version, old)
       /\ Reconciled(old, ev.version)[m] = 1 /\ Reconciled(old, ev.version)[n] = old[n]
       /\ old[m] = 1 => Reconciled(old, ev.version) = old
  BY <1>4, <1>9, SoloCompared
<1>11. /\ versions'[n] = [versions[n] EXCEPT ![f] = Reconciled(old, ev.version)]
       /\ \/ /\ After(ev.version, old)
             /\ disk'[n] = [disk[n] EXCEPT ![f] = ev.data]
             /\ pending' = Observed(n, f)
          \/ /\ Concurrent(ev.version, old)
             /\ disk'[n] = [disk[n] EXCEPT ![Beside(f, m)] = ev.data]
             /\ pending' = Observed(n, Beside(f, m))
          \/ /\ Same(ev.version, old) \/ Before(ev.version, old)
             /\ disk' = disk /\ pending' = pending
  BY <1>2, <1>3, <1>5, <1>b DEF ApplyWrite, PutAside, Beside
<1>12. phase[n] = "live" => old[m] = 1
  BY <1>0, <1>1, <1>2, <1>3, <1>b DEF LiveKept, Handled, Says
<1> HIDE DEF ev, old
<1>13. pending'[n] = {}
  BY <1>0, <1>10, <1>11, <1>12 DEF Observed, ScanKept
<1>14. /\ \A g \in Path : g # f => versions'[n][g] = versions[n][g] /\ disk'[n][g] = disk[n][g]
       /\ versions'[n][f][m] = 1 /\ versions'[n][f][n] = old[n]
       /\ \A g \in Path : g # f => disk'[n][Beside(g, m)] = disk[n][Beside(g, m)]
  <2>1. \A g \in Path : g \in File /\ g # Beside(f, m)
    BY <1>7, PathsAreFiles
  <2>2. \A g \in Path : Beside(g, m) \in File /\ Beside(g, m) # f
                        /\ (g # f => Beside(g, m) # Beside(f, m))
    BY <1>6, PathsAreFiles, NamesApart DEF Beside, ConflictFile
  <2>3. versions[n] \in [File -> Vector] /\ disk[n] \in [File -> Content \cup {Absent}]
    BY <1>5 DEF Manifest
  <2>4. /\ \A g \in Path : g # f => versions'[n][g] = versions[n][g]
        /\ versions'[n][f][m] = 1 /\ versions'[n][f][n] = old[n]
    BY <1>6, <1>10, <1>11, <2>1, <2>3
  <2>5. \A g \in Path : g # f => /\ disk'[n][g] = disk[n][g]
                                 /\ disk'[n][Beside(g, m)] = disk[n][Beside(g, m)]
    BY <1>11, <2>1, <2>2, <2>3
  <2> QED BY <2>4, <2>5
<1>15. Diff(n, m)' = Diff(n, m) /\ Diff(m, n)' = Diff(m, n)
  BY <1>2 DEF Diff, MateSame
<1>16. Landed(n, m, f)'
  <2>1. disk[n] \in [File -> Content \cup {Absent}]
    BY <1>5 DEF Manifest
  <2>2. old = versions[n][f]
    BY DEF old
  <2>3. CASE old[m] = 0 /\ old[n] = 0
    <3>1. disk'[n][f] = manifest[m][f]
      BY <1>4, <1>6, <1>10, <1>11, <2>1, <2>3
    <3> QED BY <1>2, <1>4, <1>14, <1>15, <2>3, <3>1 DEF Landed, MateSame
  <2>4. CASE old[m] = 0 /\ old[n] = 1
    <3>1. disk'[n] = [disk[n] EXCEPT ![Beside(f, m)] = manifest[m][f]]
      BY <1>4, <1>10, <1>11, <2>4
    <3>2. disk'[n][Beside(f, m)] = manifest[m][f] /\ disk'[n][f] = disk[n][f]
      BY <1>6, <1>7, <2>1, <3>1
    <3>3. disk[n][f] = manifest[n][f]
      BY <1>8, <2>2, <2>4 DEF Landed
    <3>4. f \in Diff(m, n)
      BY <1>4
    <3> QED BY <1>2, <1>14, <1>15, <2>4, <3>2, <3>3, <3>4 DEF Landed, MateSame, Beside
  <2>5. CASE old[m] = 1
    <3>1. disk' = disk
      BY <1>10, <1>11, <2>5
    <3> QED BY <1>2, <1>8, <1>14, <1>15, <2>2, <2>5, <3>1 DEF Landed, MateSame, Beside
  <2> QED BY <1>9, <2>3, <2>4, <2>5
<1>17. LandKept(n, m)'
  <2> SUFFICES ASSUME NEW g \in Path, g # f
               PROVE  Landed(n, m, g)'
    BY <1>16 DEF LandKept
  <2>1. Landed(n, m, g)
    BY <1>0, <1>2 DEF LandKept
  <2> QED BY <1>2, <1>14, <1>15, <2>1 DEF Landed, MateSame, Beside
<1>18. ScanKept(n)'
  BY <1>0, <1>2, <1>8, <1>13 DEF ScanKept, Ahead
<1>19. PushKept(n, m)'
  <2>1. \A g : Pushed(n, g)' <=> Pushed(n, g)
    BY <1>2 DEF Pushed, Says
  <2>2. \A g \in Path : versions'[n][g][n] = versions[n][g][n]
    BY <1>14 DEF old
  <2> QED BY <1>0, <1>2, <1>15, <2>1, <2>2 DEF PushKept, MateSame
<1>20. ASSUME NEW k \in 1..Len(log')
       PROVE  EventKept(k, n, m)'
  <2>1. EventKept(k, n, m) /\ log' = log
    BY <1>0, <1>2
  <2> QED BY <1>2, <1>15, <2>1 DEF EventKept, Solo
<1>21. DoneLast(n)'
  BY <1>0, <1>2 DEF DoneLast, Says
<1>22. \A k \in 1..Len(log) : Handled(n, m, k) => Handled(n, m, k)'
  <2> SUFFICES ASSUME NEW k \in 1..Len(log), log[k].origin = m, log[k].op = "write",
                      versions[n][log[k].file][m] = 1
               PROVE  versions'[n][log[k].file][m] = 1
    BY <1>2 DEF Handled, Says
  <2>1. log[k].file \in Diff(m, n)
    BY <1>0 DEF EventKept
  <2>2. log[k].file \in Path
    BY <1>0, <1>5, <2>1, DiffIsPaths DEF ScanKept
  <2> QED BY <1>14, <2>2
<1>23. Handled(n, m, i)'
  BY <1>1, <1>2, <1>14, <1>b DEF Handled, Says
<1>24. ReadKept(n, m)'
  <2>1. ASSUME NEW k \in 1..acked'[n]
        PROVE  Handled(n, m, k)'
    <3>1. CASE k \in 1..acked[n]
      <4>1. k \in 1..Len(log)
        BY <1>1, <1>a, <3>1
      <4> QED BY <1>0, <1>22, <3>1, <4>1 DEF ReadKept
    <3>2. CASE k = i
      BY <1>23, <3>2
    <3> QED BY <1>1, <1>2, <1>a, <2>1, <3>1, <3>2
  <2> QED BY <2>1 DEF ReadKept
<1>25. LiveKept(n, m)'
  BY <1>0, <1>2, <1>22 DEF LiveKept
<1> QED BY <1>17, <1>18, <1>19, <1>20, <1>21, <1>24, <1>25 DEF UnionOf

LEMMA UnionInit == Init => Union
<1> SUFFICES ASSUME Init, NEW n \in Node, NEW m \in Node, n # m
             PROVE  UnionOf(n, m)
  BY DEF Union
<1>1. /\ log = <<>> /\ Len(log) = 0 /\ 1..Len(log) = {} /\ 1..acked[n] = {}
      /\ pending[n] = {} /\ versions[n] = [f \in File |-> ZeroVector]
      /\ phase[n] \in {"scan", "bootstrap", "awaitBootstrap"}
      /\ manifest[n] = NoManifest
  BY DEF Init
<1>2. \A c \in ConflictFile : disk[n][c] = Absent /\ manifest[n][c] = Absent
  <2>1. ConflictFile \subseteq File /\ \A c \in ConflictFile : c \notin Path
    BY PathsAreFiles, NamesApart
  <2> QED BY <1>1, <2>1 DEF Init, NoManifest
<1>3. ScanKept(n) /\ PushKept(n, m) /\ LandKept(n, m) /\ LiveKept(n, m)
  BY <1>1, <1>2 DEF ScanKept, PushKept, LandKept, LiveKept, Ahead
<1>4. DoneLast(n) /\ ReadKept(n, m) /\ \A i \in 1..Len(log) : EventKept(i, n, m)
  BY <1>1 DEF DoneLast, ReadKept
<1> QED BY <1>3, <1>4 DEF UnionOf

\* What m's side asks of a step of n.
LEMMA ActorIsFair ==
    ASSUME TypeOK, BarrierInv, NEW n \in Node, NEW m \in Node, n # m, UnionOf(n, m),
           UnionOf(m, n), MateSame(m), UnionKind(n)
    PROVE  /\ phase[n] \notin Behind => phase'[n] \notin Behind /\ manifest'[n] = manifest[n]
           /\ \/ log' = log
              \/ \E ev \in Event : /\ log' = Append(log, ev) /\ ev.origin = n
                                   /\ ev.op = "write" => phase[m] # "live"
           /\ UnionOf(n, m)'
<1>0. ScanKept(n) /\ \A i \in 1..Len(log) : EventKept(i, m, n)
  BY DEF UnionOf
<1>1. ASSUME NEW ev \in Event, NEW next \in Phase, Talks(n, ev, next)
      PROVE  /\ phase[n] \notin Behind => phase'[n] \notin Behind /\ manifest'[n] = manifest[n]
             /\ log' = Append(log, ev) /\ ev.origin = n /\ ev.op # "write"
             /\ UnionOf(n, m)'
  BY <1>1, TalksOwn DEF Talks, StoresStay, Behind
<1>2. ASSUME NEW next \in Phase, Listens(n, next)
      PROVE  /\ phase[n] \notin Behind => phase'[n] \notin Behind /\ manifest'[n] = manifest[n]
             /\ log' = log
             /\ UnionOf(n, m)'
  <2>1. DoneLast(m)
    BY DEF UnionOf
  <2>2. UnionOf(n, m)'
    BY <1>2, <2>1, ListensOwn
  <2> QED BY <1>2, <2>2 DEF Listens, StoresStay, Behind
<1>3. ASSUME NEW f \in File, Pushes(n, f)
      PROVE  /\ phase'[n] \notin Behind /\ manifest'[n] = manifest[n]
             /\ UnionOf(n, m)'
             /\ \E ev \in Event : /\ log' = Append(log, ev) /\ ev.origin = n
             /\ phase[m] # "live"
  <2>1. phase[n] = "push" /\ phase'[n] = "push" /\ manifest'[n] = manifest[n]
    BY <1>3 DEF Pushes
  <2>2. ~Done(n)
    BY <2>1, PhasesApart DEF BarrierInv, DoneInStep, SetUp
  <2>3. phase[m] # "live"
    BY <2>2, TwoNodes DEF BarrierInv, DoneInStep, Watching
  <2>4. /\ UnionOf(n, m)'
        /\ WriteOf(n, f) \in Event /\ log' = Append(log, WriteOf(n, f))
    BY <1>3, <2>2, PushesOwn
  <2>5. WriteOf(n, f).origin = n
    BY DEF WriteOf
  <2> QED BY <2>1, <2>3, <2>4, <2>5 DEF Behind
<1>4. CASE Scans(n)
  BY <1>4, ScansOwn DEF Scans, Behind
<1>5. CASE Compares(n)
  BY <1>5, ComparesOwn DEF Compares, StoresStay, Behind
<1>6. CASE Lands(n)
  BY <1>6, LandsOwn DEF Lands
<1>7. CASE Rests(n)
  BY <1>7, RestsOwn DEF Rests, StoresStay
<1>8. ~Removes(n)
  <2> SUFFICES ASSUME Removes(n) PROVE FALSE
    OBVIOUS
  <2>1. /\ acked[n] + 1 \in 1..Len(log) /\ Incoming(n) = log[acked[n] + 1]
        /\ Incoming(n) \in Event
    BY IncomingPlace DEF Removes
  <2>2. Incoming(n).origin = m
    BY <2>1, EventFields, TwoNodes DEF Removes
  <2> QED BY <1>0, <2>1, <2>2 DEF Removes, EventKept
<1>9. pending[n] = {}
  BY <1>0 DEF ScanKept
<1> QED BY <1>1, <1>2, <1>3, <1>4, <1>5, <1>6, <1>7, <1>8, <1>9 DEF UnionKind

LEMMA UnionStep == UnionInv /\ [Next]_vars => UnionInv'
<1> SUFFICES ASSUME UnionInv, [Next]_vars PROVE UnionInv'
  OBVIOUS
<1>1. BarrierInv' /\ BarrierInv /\ TypeOK
  BY BarrierStep DEF UnionInv, BarrierInv
<1> SUFFICES ASSUME edits' = 0, NobodyOver' PROVE Union'
  BY <1>1 DEF UnionInv
<1>2. /\ Union
      /\ \E n \in Node : /\ UnionKind(n)
                         /\ pending[n] = {} => \A k \in Node \ {n} : MateSame(k)
  BY <1>1, UnionKinds DEF UnionInv
<1>3. PICK n \in Node : /\ UnionKind(n)
                        /\ pending[n] = {} => \A k \in Node \ {n} : MateSame(k)
  BY <1>2
<1>4. PICK m \in Node : m # n /\ \A k \in Node : k = n \/ k = m
  BY SessionAssumption
<1>5. UnionOf(n, m) /\ UnionOf(m, n)
  BY <1>2, <1>4 DEF Union
<1>6. MateSame(m)
  BY <1>3, <1>4, <1>5 DEF UnionOf, ScanKept
<1>7. /\ phase[n] \notin Behind => phase'[n] \notin Behind /\ manifest'[n] = manifest[n]
      /\ \/ log' = log
         \/ \E ev \in Event : /\ log' = Append(log, ev) /\ ev.origin = n
                              /\ ev.op = "write" => phase[m] # "live"
      /\ UnionOf(n, m)'
  BY <1>1, <1>3, <1>4, <1>5, <1>6, ActorIsFair
<1>8. UnionOf(m, n)'
  BY <1>1, <1>4, <1>5, <1>6, <1>7, MateKeeps
<1> QED BY <1>4, <1>7, <1>8 DEF Union

LEMMA UnionHolds == Spec => []UnionInv
<1>1. Init => UnionInv
  BY InitType, BarrierInit, UnionInit DEF UnionInv, BarrierInv
<1> QED BY <1>1, UnionStep, PTL DEF Spec

\* Once the two are live and settled, everything has been read.
LEMMA SettledUnion ==
    ASSUME UnionInv, edits = 0, Settled, NEW n \in Node, NEW m \in Node, n # m
    PROVE  /\ UnionOf(n, m) /\ UnionOf(m, n)
           /\ toPush[m] = {} /\ toPush[n] = {}
           /\ \A f \in Path : /\ versions[n][f][n] = IF f \in Diff(n, m) THEN 1 ELSE 0
                              /\ versions[n][f][m] = IF f \in Diff(m, n) THEN 1 ELSE 0
                              /\ Landed(n, m, f)
<1>1. /\ \A k \in Node : phase[k] = "live"
      /\ \A k \in Node : acked[k] = Len(log)
  BY DEF Settled
<1>2. NobodyOver
  BY <1>1 DEF NobodyOver, Over
<1>3. UnionOf(n, m) /\ UnionOf(m, n)
  BY <1>2 DEF UnionInv, Union
<1>4. /\ toPush[m] = {} /\ toPush[n] = {}
      /\ \A f \in Path : versions[n][f][n] = IF f \in Diff(n, m) THEN 1 ELSE 0
      /\ \A f \in Diff(m, n) : Pushed(m, f)
      /\ \A f \in Path : Landed(n, m, f)
  BY <1>1, <1>3 DEF UnionOf, PushKept, LandKept, Ahead
<1>5. ASSUME NEW f \in Path
      PROVE  versions[n][f][m] = IF f \in Diff(m, n) THEN 1 ELSE 0
  <2>1. ASSUME f \in Diff(m, n)
        PROVE  versions[n][f][m] = 1
    <3>1. PICK i \in 1..Len(log) : Says(log, m, i, "write") /\ log[i].file = f
      BY <1>4, <2>1 DEF Pushed
    <3>2. i \in 1..acked[n]
      BY <1>1
    <3> QED BY <1>3, <3>1, <3>2 DEF UnionOf, ReadKept, Handled
  <2> QED BY <1>4, <2>1 DEF Landed
<1> QED BY <1>3, <1>4, <1>5

\* Reconciliation loses nothing: whatever fails, is lost or comes twice, two
\* nodes that get to watch have both scans' files, at their path or beside it.
THEOREM ReconciliationIsUnion == Spec => []UnionReached
<1>1. UnionInv => UnionReached
  <2> SUFFICES ASSUME UnionInv, edits = 0, Settled,
                      NEW m \in Node, NEW n \in Node, NEW f \in Path,
                      manifest[m][f] # Absent
               PROVE  \/ disk[n][f] = manifest[m][f]
                      \/ disk[n][[of |-> f, from |-> m]] = manifest[m][f]
    BY DEF UnionReached
  <2>1. PICK k \in Node : k # n
    BY SessionAssumption
  <2>2. /\ UnionOf(n, k) /\ UnionOf(k, n) /\ Landed(n, k, f)
        /\ versions[n][f][n] = IF f \in Diff(n, k) THEN 1 ELSE 0
        /\ versions[n][f][k] = IF f \in Diff(k, n) THEN 1 ELSE 0
    BY <2>1, SettledUnion
  <2>3. manifest \in [Node -> Manifest]
    BY DEF UnionInv, BarrierInv, TypeOK
  <2>4. /\ f \in Diff(n, k) <=> manifest[n][f] # Absent /\ manifest[k][f] # manifest[n][f]
        /\ f \in Diff(k, n) <=> manifest[k][f] # Absent /\ manifest[n][f] # manifest[k][f]
    BY <2>2, <2>3, DiffIsPaths DEF UnionOf, ScanKept
  <2>5. CASE m = n
    BY <2>2, <2>4, <2>5 DEF Landed
  <2>6. CASE m = k
    BY <2>2, <2>4, <2>6 DEF Landed, Beside
  <2> QED BY <2>1, <2>5, <2>6, TwoNodes
<1> QED BY <1>1, UnionHolds, PTL

IdleInv == UnionInv /\ edits = 0

LEMMA NobodyEdits ==
    ASSUME MaxEdits = 0, edits = 0, [Next]_vars
    PROVE  edits' = 0
<1>1. ASSUME NEW n \in Node, Step(n)
      PROVE  edits' = edits
  BY <1>1 DEF Step, SkipOwn, PublishBootstrap, ReceiveBootstrap, PublishBootstrapAck,
     ReceiveBootstrapAck, ScanManifest, PublishManifest, ReceiveManifest, Push,
     PublishReconcileDone, Drain, ReceiveLive, PublishChange, controlUnchanged
<1>2. ASSUME NEW n \in Node, Fails(n) \/ BootstrapTimesOut(n)
      PROVE  edits' = edits
  BY <1>2 DEF Fails, BootstrapTimesOut, controlUnchanged
<1>3. ASSUME NEW n \in Node, NEW f \in Path, NEW c \in Content \cup {Absent},
             UserEdit(n, f, c)
      PROVE  FALSE
  <2>1. edits < MaxEdits
    BY <1>3 DEF UserEdit
  <2> QED BY <2>1
<1> QED BY <1>1, <1>2, <1>3 DEF Next, vars

LEMMA IdleStep ==
    ASSUME MaxEdits = 0
    PROVE  IdleInv /\ [Next]_vars => IdleInv'
BY NobodyEdits, UnionStep DEF IdleInv

\* While the users leave both trees alone, reconciliation leaves them equal on
\* every path the scans do not disagree on, and the version vectors on all.
THEOREM ReconciliationConverges ==
    ASSUME MaxEdits = 0
    PROVE  Spec => [](Converged /\ VersionsAgree)
<1>1. Init => IdleInv
  BY InitType, BarrierInit, UnionInit DEF IdleInv, UnionInv, BarrierInv, Init
<1>2. IdleInv /\ [Next]_vars => IdleInv'
  BY IdleStep
<1>3. IdleInv => Converged /\ VersionsAgree
  <2> SUFFICES ASSUME UnionInv, edits = 0, Settled, NEW f \in Path
               PROVE  /\ ~InConflict(f) => disk[Initiator][f] = disk[Responder][f]
                      /\ versions[Initiator][f] = versions[Responder][f]
    BY DEF IdleInv, Converged, VersionsAgree
  <2> DEFINE n == Initiator
             m == Responder
  <2>1. n \in Node /\ m \in Node /\ n # m /\ \A k \in Node : k = n \/ k = m
    BY SessionAssumption
  <2>2. /\ UnionOf(n, m) /\ UnionOf(m, n) /\ Landed(n, m, f) /\ Landed(m, n, f)
        /\ versions[n][f][n] = IF f \in Diff(n, m) THEN 1 ELSE 0
        /\ versions[n][f][m] = IF f \in Diff(m, n) THEN 1 ELSE 0
        /\ versions[m][f][m] = IF f \in Diff(m, n) THEN 1 ELSE 0
        /\ versions[m][f][n] = IF f \in Diff(n, m) THEN 1 ELSE 0
    BY <2>1, SettledUnion
  <2>3. /\ manifest \in [Node -> Manifest]
        /\ versions[n][f] \in Vector /\ versions[m][f] \in Vector
    BY <2>1, PathsAreFiles DEF UnionInv, BarrierInv, TypeOK
  <2>4. /\ f \in Diff(n, m) <=> manifest[n][f] # Absent /\ manifest[m][f] # manifest[n][f]
        /\ f \in Diff(m, n) <=> manifest[m][f] # Absent /\ manifest[n][f] # manifest[m][f]
    BY <2>1, <2>2, <2>3, DiffIsPaths DEF UnionOf, ScanKept
  <2> HIDE DEF n, m
  <2>5. versions[n][f] = versions[m][f]
    BY <2>1, <2>2, <2>3 DEF Vector
  <2>6. ASSUME ~InConflict(f) PROVE disk[n][f] = disk[m][f]
    <3>1. \/ manifest[n][f] = Absent \/ manifest[m][f] = Absent
          \/ manifest[n][f] = manifest[m][f]
      BY <2>1, <2>6 DEF InConflict, n, m
    <3> QED BY <2>1, <2>2, <2>4, <3>1 DEF Landed
  <2> QED BY <2>5, <2>6 DEF n, m
<1> QED BY <1>1, <1>2, <1>3, PTL DEF Spec

-----------------------------------------------------------------------------
\* The version vectors.  Whatever users do meanwhile, and however often an event
\* is delivered: a machine's counter, wherever it is stored, was published by
\* that machine, and who has met a write, as its author or its reader, has counted
\* it.

IsPublished(k, f, count) ==
    \E i \in 1..Len(log) : /\ Says(log, k, i, "write") /\ log[i].file = f
                           /\ log[i].version[k] >= count
OnlyPublished(n) ==
    \A f \in File, k \in Node :
        versions[n][f][k] = 0 \/ IsPublished(k, f, versions[n][f][k])
MetIsCounted(n) ==
    \A i \in 1..Len(log) :
        log[i].op = "write" /\ (log[i].origin = n \/ i <= acked[n]) =>
            \A k \in Node : log[i].version[k] <= versions[n][log[i].file][k]
Counts == \A n \in Node : OnlyPublished(n) /\ MetIsCounted(n)
CountInv == TypeOK /\ (NobodyOver => Counts)

\* What a step does to the counters.
CountsNothing(n) ==
    /\ versions' = versions
    /\ \/ log' = log
       \/ \E ev \in Event : ev.op # "write" /\ log' = Append(log, ev)
    /\ \A m \in Node \ {n} : acked'[m] = acked[m]
    /\ \/ acked'[n] = acked[n]
       \/ /\ acked'[n] = acked[n] + 1 /\ HasIncoming(n)
          /\ Incoming(n).origin = n \/ Incoming(n).op # "write"
CountsOwn(n, f) ==
    /\ WriteOf(n, f) \in Event /\ log' = Append(log, WriteOf(n, f))
    /\ versions' = [versions EXCEPT ![n][f] = Bumped(versions[n][f], n)]
    /\ acked' = acked
CountsPeers(n) ==
    /\ HasIncoming(n) /\ Incoming(n).origin # n /\ Incoming(n).op = "write"
    /\ log' = log
    /\ versions' = [versions EXCEPT ![n][Incoming(n).file] =
                        Reconciled(versions[n][Incoming(n).file], Incoming(n).version)]
    /\ \A m \in Node \ {n} : acked'[m] = acked[m]
    /\ acked'[n] \in {acked[n], acked[n] + 1}
CountKind(n) == CountsNothing(n) \/ CountsPeers(n) \/ \E f \in File : CountsOwn(n, f)

LEMMA AckCounts ==
    ASSUME TypeOK, NEW n \in Node, Ack(n) \/ Nak
    PROVE  /\ \A m \in Node \ {n} : acked'[m] = acked[m]
           /\ acked'[n] \in {acked[n], acked[n] + 1}
<1>1. acked \in [Node -> Nat]
  BY DEF TypeOK
<1> QED BY <1>1 DEF Ack, Nak

\* A publish after which the node is not over stored its event.
LEMMA PublishStores ==
    ASSUME TypeOK, NEW n \in Node, NEW ev \in Event, NEW next \in Phase,
           Publish(n, ev, next), ~Over(n)'
    PROVE  log' = Append(log, ev)
BY PublishGoesOn

LEMMA SetUpCounts ==
    ASSUME TypeOK, NEW n \in Node, ~Over(n)',
           \/ PublishBootstrap(n) \/ ReceiveBootstrap(n)
           \/ PublishBootstrapAck(n) \/ ReceiveBootstrapAck(n)
           \/ ScanManifest(n) \/ PublishManifest(n) \/ ReceiveManifest(n)
           \/ PublishReconcileDone(n)
    PROVE  CountKind(n)
<1>1. CASE \/ PublishBootstrap(n) \/ PublishBootstrapAck(n) \/ PublishManifest(n)
           \/ PublishReconcileDone(n)
  <2>1. /\ \E ev \in Event, next \in Phase : ev.op # "write" /\ Publish(n, ev, next)
        /\ UNCHANGED <<controlUnchanged, acked>>
    BY <1>1, PublishedEvents DEF PublishBootstrap, PublishBootstrapAck, PublishManifest,
       PublishReconcileDone, Phase, SetUp
  <2> QED BY <2>1, PublishStores DEF CountKind, CountsNothing, controlUnchanged, guardVars
<1>2. CASE ReceiveBootstrap(n) \/ ReceiveBootstrapAck(n) \/ ReceiveManifest(n)
  <2>1. /\ \E op \in {"bootstrap", "bootstrapAck", "manifest"}, next \in Phase :
             AwaitControl(n, op, next)
        /\ UNCHANGED <<controlUnchanged, log>>
    BY <1>2 DEF ReceiveBootstrap, ReceiveBootstrapAck, ReceiveManifest, Phase, SetUp
  <2>2. PICK op \in {"bootstrap", "bootstrapAck", "manifest"}, next \in Phase :
             AwaitControl(n, op, next)
    BY <2>1
  <2>3. HasIncoming(n) /\ Incoming(n).op = op /\ Acks(n)
        /\ \A k \in Node \ {n} : acked'[k] = acked[k]
    BY <2>2, AwaitGoesOn
  <2> QED BY <2>1, <2>3 DEF CountKind, CountsNothing, controlUnchanged, guardVars, Acks
<1>3. CASE ScanManifest(n)
  BY <1>3 DEF ScanManifest, CountKind, CountsNothing, controlUnchanged, guardVars
<1> QED BY <1>1, <1>2, <1>3

LEMMA ReceivingCounts ==
    ASSUME TypeOK, NEW n \in Node, ~Over(n)', Drain(n) \/ ReceiveLive(n)
    PROVE  CountKind(n)
<1>1. HasIncoming(n) /\ Incoming(n).origin # n /\ log' = log /\ phase \in [Node -> Phase]
  BY DEF Drain, ReceiveLive, TypeOK
<1>2. CASE ReceiverEnds(n)
  <2>1. Moved(n, "ended") \/ Moved(n, "publisherOnly")
    BY <1>1, <1>2, ReceiverEndsType
  <2> QED BY <2>1 DEF Moved, Over
<1>3. CASE Incoming(n).op = "write" /\ ApplyWrite(n, Incoming(n)) /\ Ack(n)
  BY <1>1, <1>3, AckCounts DEF CountKind, CountsPeers, ApplyWrite
<1>4. CASE Incoming(n).op # "write" /\ versions' = versions /\ Ack(n)
  BY <1>1, <1>4, AckCounts DEF CountKind, CountsNothing
<1> QED BY <1>2, <1>3, <1>4 DEF Drain, ReceiveLive, ReceiveWrite

LEMMA OtherCounts ==
    ASSUME TypeOK, NEW n \in Node, ~Over(n)',
           \/ SkipOwn(n) \/ Fails(n) \/ BootstrapTimesOut(n)
           \/ \E f \in Path, c \in Content \cup {Absent} : UserEdit(n, f, c)
           \/ \E f \in File : Push(n, f)
           \/ \E f \in File : PublishChange(n, f)
    PROVE  CountKind(n)
<1>0. phase[n] \in Phase /\ "push" \in Phase
  BY DEF TypeOK, Phase, SetUp
<1>1. CASE SkipOwn(n)
  BY <1>1, AckCounts DEF SkipOwn, CountKind, CountsNothing, guardVars
<1>2. CASE Fails(n) \/ BootstrapTimesOut(n)
  BY <1>2 DEF Fails, BootstrapTimesOut, CountKind, CountsNothing, controlUnchanged, guardVars
<1>3. CASE \E f \in Path, c \in Content \cup {Absent} : UserEdit(n, f, c)
  BY <1>3 DEF UserEdit, CountKind, CountsNothing, guardVars
<1>4. ASSUME NEW f \in File, NEW next \in Phase, disk[n][f] # Absent,
             Publish(n, WriteOf(n, f), next), StampAndSeal(n, f), acked' = acked
      PROVE  CountKind(n)
  <2>1. WriteOf(n, f) \in Event
    BY <1>4, PublishedEvents
  <2>2. log' = Append(log, WriteOf(n, f))
    BY <1>4, <2>1, PublishStores
  <2> QED BY <1>4, <2>1, <2>2 DEF CountKind, CountsOwn, StampAndSeal
<1>5. ASSUME NEW f \in File, Push(n, f) PROVE CountKind(n)
  <2>1. CASE log' = log /\ versions' = versions
    BY <1>5, <2>1 DEF Push, CountKind, CountsNothing
  <2> QED BY <1>0, <1>4, <1>5, <2>1 DEF Push
<1>6. ASSUME NEW f \in File, PublishChange(n, f) PROVE CountKind(n)
  <2>1. CASE log' = log /\ versions' = versions
    BY <1>6, <2>1 DEF PublishChange, CountKind, CountsNothing
  <2>2. CASE /\ Publish(n, [op |-> "remove", origin |-> n, file |-> f], phase[n])
             /\ versions' = versions
    <3>1. [op |-> "remove", origin |-> n, file |-> f] \in Event
      BY PublishedEvents
    <3>2. log' = Append(log, [op |-> "remove", origin |-> n, file |-> f])
      BY <1>0, <2>2, <3>1, PublishStores
    <3> QED BY <1>6, <2>2, <3>1, <3>2 DEF PublishChange, CountKind, CountsNothing
  <2>3. acked' = acked
    BY <1>6 DEF PublishChange
  <2> QED BY <1>0, <1>4, <1>6, <2>1, <2>2, <2>3 DEF PublishChange
<1> QED BY <1>1, <1>2, <1>3, <1>5, <1>6

\* The stored vector is at least both, and no count in it is new.
LEMMA ReconciledCounts ==
    ASSUME NEW v \in Vector, NEW w \in Vector
    PROVE  /\ Reconciled(v, w) \in Vector
           /\ \A k \in Node : /\ v[k] <= Reconciled(v, w)[k] /\ w[k] <= Reconciled(v, w)[k]
                              /\ Reconciled(v, w)[k] \in {v[k], w[k]}
<1>1. \A k \in Node : v[k] \in Nat /\ w[k] \in Nat
  BY DEF Vector
<1>2. CASE After(w, v)
  <2>1. Reconciled(v, w) = w /\ \A k \in Node : v[k] <= w[k]
    BY <1>1, <1>2 DEF Reconciled, After, KnowsMore
  <2> QED BY <1>1, <2>1
<1>3. CASE Concurrent(w, v)
  <2>1. Reconciled(v, w) = Merged(v, w)
    BY <1>3 DEF Reconciled, After, Concurrent
  <2> QED BY <1>1, <2>1 DEF Merged, Vector
<1>4. CASE ~After(w, v) /\ ~Concurrent(w, v)
  <2>1. Reconciled(v, w) = v /\ \A k \in Node : w[k] <= v[k]
    BY <1>1, <1>4 DEF Reconciled, After, Concurrent, KnowsMore
  <2> QED BY <1>1, <2>1
<1> QED BY <1>2, <1>3, <1>4

LEMMA CountKinds ==
    ASSUME TypeOK, [Next]_vars, NobodyOver'
    PROVE  \E n \in Node : CountKind(n)
<1>1. CASE UNCHANGED vars
  <2>1. CountsNothing(Initiator)
    BY <1>1 DEF vars, guardVars, CountsNothing
  <2> QED BY <2>1, EndsAreNodes DEF CountKind
<1>2. ASSUME NEW n \in Node,
             \/ Step(n) \/ Fails(n) \/ BootstrapTimesOut(n)
             \/ \E f \in Path, c \in Content \cup {Absent} : UserEdit(n, f, c)
      PROVE  CountKind(n)
  <2>1. ~Over(n)'
    BY DEF NobodyOver, Over
  <2> QED BY <1>2, <2>1, SetUpCounts, ReceivingCounts, OtherCounts DEF Step
<1> QED BY <1>1, <1>2 DEF Next

LEMMA LongerStream ==
    ASSUME NEW s \in Seq(Event), NEW ev
    PROVE  /\ Len(s) \in Nat /\ Len(Append(s, ev)) = Len(s) + 1
           /\ Append(s, ev)[Len(s) + 1] = ev
           /\ \A i \in 1..Len(s) : Append(s, ev)[i] = s[i]
           /\ \A i \in 1..Len(Append(s, ev)) : i \in 1..Len(s) \/ i = Len(s) + 1
OBVIOUS

\* What has been published stays so.
LEMMA StreamStays ==
    ASSUME log \in Seq(Event), NEW ev, log' = log \/ log' = Append(log, ev)
    PROVE  \A i \in 1..Len(log) : i \in 1..Len(log') /\ log'[i] = log[i]
BY LongerStream

LEMMA NothingCounted ==
    ASSUME TypeOK, Counts, NEW n \in Node, CountsNothing(n)
    PROVE  Counts'
<1>1. log \in Seq(Event) /\ acked \in [Node -> Nat] /\ \A m \in Node : acked[m] <= Len(log)
  BY DEF TypeOK
<1>2. PICK ev : log' = log \/ (log' = Append(log, ev) /\ ev.op # "write")
  BY DEF CountsNothing
<1>3. /\ Len(log) \in Nat
      /\ \A i \in 1..Len(log) : log'[i] = log[i]
      /\ \A i \in 1..Len(log') : \/ i \in 1..Len(log)
                                 \/ i = Len(log) + 1 /\ log'[i].op # "write"
  BY <1>1, <1>2, LongerStream
<1>4. ASSUME NEW m \in Node PROVE OnlyPublished(m)'
  <2>1. OnlyPublished(m) /\ versions' = versions
    BY DEF Counts, CountsNothing
  <2> SUFFICES ASSUME NEW f \in File, NEW k \in Node, versions[m][f][k] # 0
               PROVE  \E i \in 1..Len(log') :
                         /\ Says(log', k, i, "write") /\ log'[i].file = f
                         /\ log'[i].version[k] >= versions[m][f][k]
    BY <2>1 DEF OnlyPublished, IsPublished
  <2>2. IsPublished(k, f, versions[m][f][k])
    BY <2>1 DEF OnlyPublished
  <2>3. \A i \in 1..Len(log) : i \in 1..Len(log') /\ log'[i] = log[i]
    BY <1>1, <1>2, StreamStays
  <2> QED BY <2>2, <2>3 DEF IsPublished, Says
<1>5. ASSUME NEW m \in Node PROVE MetIsCounted(m)'
  <2> SUFFICES ASSUME NEW i \in 1..Len(log'), log'[i].op = "write",
                      log'[i].origin = m \/ i <= acked'[m], NEW k \in Node
               PROVE  log'[i].version[k] <= versions'[m][log'[i].file][k]
    BY DEF MetIsCounted
  <2>1. i \in 1..Len(log) /\ log'[i] = log[i] /\ log[i].op = "write"
    BY <1>3
  <2>2. log[i].origin = m \/ i <= acked[m]
    <3>1. CASE acked'[m] = acked[m]
      BY <2>1, <3>1
    <3>2. CASE /\ m = n /\ acked'[n] = acked[n] + 1 /\ HasIncoming(n)
               /\ Incoming(n).origin = n \/ Incoming(n).op # "write"
      <4>1. i <= acked[n] \/ i = acked[n] + 1 \/ log[i].origin = m
        BY <1>1, <2>1, <3>2
      <4>2. i = acked[n] + 1 => log[i].origin = n
        BY <2>1, <3>2 DEF Incoming
      <4> QED BY <3>2, <4>1, <4>2
    <3> QED BY <3>1, <3>2 DEF CountsNothing
  <2>3. MetIsCounted(m) /\ versions' = versions
    BY DEF Counts, CountsNothing
  <2> QED BY <2>1, <2>2, <2>3 DEF MetIsCounted
<1> QED BY <1>4, <1>5 DEF Counts

LEMMA OwnCounted ==
    ASSUME TypeOK, Counts, NEW n \in Node, NEW f \in File, CountsOwn(n, f)
    PROVE  Counts'
<1> DEFINE ev == WriteOf(n, f)
<1>1. /\ log \in Seq(Event) /\ acked \in [Node -> Nat] /\ acked' = acked
      /\ versions \in [Node -> [File -> Vector]]
      /\ \A m \in Node : acked[m] <= Len(log)
  BY DEF TypeOK, CountsOwn
<1>2. PICK w : w = Bumped(versions[n][f], n)
  OBVIOUS
<1>3. /\ log' = Append(log, ev) /\ ev \in Event
      /\ ev.op = "write" /\ ev.origin = n /\ ev.file = f /\ ev.version = w
      /\ versions' = [versions EXCEPT ![n][f] = w]
  BY <1>2 DEF CountsOwn, WriteOf
<1>4. /\ w \in Vector /\ versions[n][f] \in Vector
      /\ \A k \in Node : w[k] \in Nat /\ versions[n][f][k] \in Nat /\ versions[n][f][k] <= w[k]
      /\ \A k \in Node \ {n} : w[k] = versions[n][f][k]
  BY <1>1, <1>2 DEF Bumped, Vector
<1> HIDE DEF ev
<1>5. /\ Len(log) \in Nat /\ Len(log) + 1 \in 1..Len(log') /\ log'[Len(log) + 1] = ev
      /\ \A i \in 1..Len(log) : log'[i] = log[i]
      /\ \A i \in 1..Len(log') : i \in 1..Len(log) \/ i = Len(log) + 1
  BY <1>1, <1>3, LongerStream
<1>6. \A m \in Node, g \in File : versions'[m][g] = IF m = n /\ g = f THEN w ELSE versions[m][g]
  BY <1>1, <1>3
<1>7. ASSUME NEW m \in Node PROVE OnlyPublished(m)'
  <2> SUFFICES ASSUME NEW g \in File, NEW k \in Node, versions'[m][g][k] # 0
               PROVE  \E i \in 1..Len(log') :
                         /\ Says(log', k, i, "write") /\ log'[i].file = g
                         /\ log'[i].version[k] >= versions'[m][g][k]
    BY DEF OnlyPublished, IsPublished
  <2>1. CASE m = n /\ g = f /\ k = n
    BY <1>3, <1>4, <1>5, <1>6, <2>1 DEF Says
  <2>2. CASE ~(m = n /\ g = f /\ k = n)
    <3>1. versions'[m][g][k] = versions[m][g][k]
      BY <1>4, <1>6, <2>2
    <3>2. IsPublished(k, g, versions[m][g][k])
      BY <3>1 DEF Counts, OnlyPublished
    <3>3. \A i \in 1..Len(log) : i \in 1..Len(log') /\ log'[i] = log[i]
      BY <1>1, <1>3, StreamStays
    <3> QED BY <3>1, <3>2, <3>3 DEF IsPublished, Says
  <2> QED BY <2>1, <2>2
<1>8. ASSUME NEW m \in Node PROVE MetIsCounted(m)'
  <2> SUFFICES ASSUME NEW i \in 1..Len(log'), log'[i].op = "write",
                      log'[i].origin = m \/ i <= acked[m], NEW k \in Node
               PROVE  log'[i].version[k] <= versions'[m][log'[i].file][k]
    BY <1>1 DEF MetIsCounted
  <2>1. CASE i \in 1..Len(log)
    <3>1. log'[i] = log[i] /\ log[i] \in Event
      BY <1>1, <1>5, <2>1
    <3>2. log[i].version[k] <= versions[m][log[i].file][k]
      BY <2>1, <3>1 DEF Counts, MetIsCounted
    <3>3. log[i].file \in File /\ log[i].version[k] \in Nat
      BY <3>1, EventFields DEF WriteEvent, Vector
    <3>4. versions[m][log[i].file] \in Vector
      BY <1>1, <3>3
    <3>5. \/ versions'[m][log[i].file] = versions[m][log[i].file]
          \/ versions'[m][log[i].file] = w /\ m = n /\ log[i].file = f
      BY <1>6, <3>3
    <3>6. CASE versions'[m][log[i].file] = versions[m][log[i].file]
      BY <3>1, <3>2, <3>6
    <3>7. CASE versions'[m][log[i].file] = w /\ m = n /\ log[i].file = f
      <4>1. /\ log[i].version[k] <= versions[n][f][k] /\ versions[n][f][k] <= w[k]
            /\ log[i].version[k] \in Nat /\ versions[n][f][k] \in Nat /\ w[k] \in Nat
        BY <1>4, <3>2, <3>3, <3>7
      <4> QED BY <3>1, <3>7, <4>1
    <3> QED BY <3>5, <3>6, <3>7
  <2>2. CASE i = Len(log) + 1
    <3>1. log'[i] = ev /\ ~(i <= acked[m])
      BY <1>1, <1>5, <2>2
    <3>2. m = n
      BY <1>3, <3>1
    <3> QED BY <1>3, <1>4, <1>6, <3>1, <3>2
  <2> QED BY <1>5, <2>1, <2>2
<1> QED BY <1>7, <1>8 DEF Counts

LEMMA PeersCounted ==
    ASSUME TypeOK, Counts, NEW n \in Node, CountsPeers(n)
    PROVE  Counts'
<1>1. /\ log \in Seq(Event) /\ acked \in [Node -> Nat] /\ log' = log
      /\ versions \in [Node -> [File -> Vector]]
  BY DEF TypeOK, CountsPeers
<1> DEFINE ev == Incoming(n)
<1>2. PICK at : at = acked[n] + 1
  OBVIOUS
<1>3. /\ at \in 1..Len(log) /\ ev = log[at] /\ ev \in WriteEvent
      /\ ev.op = "write" /\ ev.origin \in Node
  BY <1>2, IncomingPlace, EventFields DEF CountsPeers
<1>4. PICK f \in File : f = ev.file
  BY <1>3 DEF WriteEvent
<1>5. PICK w : w = Reconciled(versions[n][f], ev.version)
  OBVIOUS
<1>6. /\ w \in Vector /\ versions[n][f] \in Vector /\ ev.version \in Vector
      /\ \A k \in Node : /\ versions[n][f][k] <= w[k] /\ ev.version[k] <= w[k]
                         /\ w[k] \in {versions[n][f][k], ev.version[k]}
  <2>1. versions[n][f] \in Vector /\ ev.version \in Vector
    BY <1>1, <1>3 DEF WriteEvent
  <2> QED BY <1>5, <2>1, ReconciledCounts
<1>7. versions' = [versions EXCEPT ![n][f] = w]
  BY <1>4, <1>5 DEF CountsPeers
<1> HIDE DEF ev
<1>8. \A m \in Node, g \in File : versions'[m][g] = IF m = n /\ g = f THEN w ELSE versions[m][g]
  BY <1>1, <1>7
<1>9. \A k \in Node : ev.version[k] = 0 \/ IsPublished(k, f, ev.version[k])
  <2> SUFFICES ASSUME NEW k \in Node, ev.version[k] # 0
               PROVE  IsPublished(k, f, ev.version[k])
    OBVIOUS
  <2>1. ev.version[k] <= versions[ev.origin][f][k]
    BY <1>3, <1>4 DEF Counts, MetIsCounted
  <2>2. ev.version[k] \in Nat /\ versions[ev.origin][f][k] \in Nat
    <3>1. versions[ev.origin][f] \in Vector
      BY <1>1, <1>3
    <3> QED BY <1>6, <3>1 DEF Vector
  <2>3. PICK i \in 1..Len(log) : /\ Says(log, k, i, "write") /\ log[i].file = f
                                 /\ log[i].version[k] >= versions[ev.origin][f][k]
    BY <1>3, <2>1, <2>2 DEF Counts, OnlyPublished, IsPublished
  <2>4. log[i] \in WriteEvent
    BY <1>1, <2>3, EventFields DEF Says
  <2>5. log[i].version[k] \in Nat
    BY <2>4 DEF WriteEvent, Vector
  <2> QED BY <2>1, <2>2, <2>3, <2>5 DEF IsPublished
<1>10. ASSUME NEW m \in Node PROVE OnlyPublished(m)'
  <2> SUFFICES ASSUME NEW g \in File, NEW k \in Node, versions'[m][g][k] # 0
               PROVE  \E i \in 1..Len(log) :
                         /\ Says(log, k, i, "write") /\ log[i].file = g
                         /\ log[i].version[k] >= versions'[m][g][k]
    BY <1>1 DEF OnlyPublished, IsPublished
  <2>1. CASE versions'[m][g][k] = versions[m][g][k]
    BY <2>1 DEF Counts, OnlyPublished, IsPublished
  <2>2. CASE g = f /\ versions'[m][g][k] = ev.version[k]
    BY <1>9, <2>2 DEF IsPublished
  <2> QED BY <1>6, <1>8, <2>1, <2>2
<1>11. ASSUME NEW m \in Node PROVE MetIsCounted(m)'
  <2> SUFFICES ASSUME NEW i \in 1..Len(log), log[i].op = "write",
                      log[i].origin = m \/ i <= acked'[m], NEW k \in Node
               PROVE  log[i].version[k] <= versions'[m][log[i].file][k]
    BY <1>1 DEF MetIsCounted
  <2>1. log[i] \in WriteEvent
    BY <1>1, EventFields
  <2>2. log[i].file \in File /\ log[i].version[k] \in Nat
    BY <2>1 DEF WriteEvent, Vector
  <2>3. versions[m][log[i].file] \in Vector
    BY <1>1, <2>2
  <2>4. CASE m = n /\ i = at
    BY <1>3, <1>4, <1>6, <1>8, <2>4
  <2>5. CASE log[i].origin = m \/ i <= acked[m]
    <3>1. log[i].version[k] <= versions[m][log[i].file][k]
      BY <2>5 DEF Counts, MetIsCounted
    <3>2. \/ versions'[m][log[i].file] = versions[m][log[i].file]
          \/ versions'[m][log[i].file] = w /\ m = n /\ log[i].file = f
      BY <1>8, <2>2
    <3>3. CASE versions'[m][log[i].file] = versions[m][log[i].file]
      BY <3>1, <3>3
    <3>4. CASE versions'[m][log[i].file] = w /\ m = n /\ log[i].file = f
      BY <1>6, <2>2, <2>3, <3>1, <3>4 DEF Vector
    <3> QED BY <3>2, <3>3, <3>4
  <2>6. \/ acked'[m] = acked[m]
        \/ m = n /\ acked'[m] = at
    BY <1>2 DEF CountsPeers
  <2>7. \/ m = n /\ i = at
        \/ log[i].origin = m \/ i <= acked[m]
    BY <1>1, <1>2, <2>6
  <2> QED BY <2>4, <2>5, <2>7
<1> QED BY <1>10, <1>11 DEF Counts

LEMMA CountStep == CountInv /\ [Next]_vars => CountInv'
<1> SUFFICES ASSUME CountInv, [Next]_vars PROVE CountInv'
  OBVIOUS
<1>1. TypeOK /\ TypeOK'
  BY TypeStep DEF CountInv
<1> SUFFICES ASSUME NobodyOver' PROVE Counts'
  BY <1>1 DEF CountInv
<1>2. Counts
  BY <1>1, OverIsForGood DEF CountInv
<1>3. PICK n \in Node : CountKind(n)
  BY <1>1, CountKinds
<1> QED BY <1>1, <1>2, <1>3, NothingCounted, OwnCounted, PeersCounted DEF CountKind

\* The next live edit of either side is newer than anything the other stored: two
\* settled nodes hold the same vector of every path, whatever users, failures and
\* lost acknowledgements did before.
THEOREM VectorsAgree == Spec => []VersionsAgree
<1>1. Init => CountInv
  <2> SUFFICES ASSUME Init PROVE Counts
    BY InitType DEF CountInv
  <2>1. /\ 1..Len(log) = {}
        /\ \A n \in Node, f \in File, k \in Node : versions[n][f][k] = 0
    BY DEF Init, ZeroVector
  <2> QED BY <2>1 DEF Counts, OnlyPublished, MetIsCounted
<1>2. CountInv => VersionsAgree
  <2> SUFFICES ASSUME CountInv, Settled, NEW f \in Path
               PROVE  versions[Initiator][f] = versions[Responder][f]
    BY DEF VersionsAgree
  <2>1. TypeOK /\ Counts /\ \A n \in Node : acked[n] = Len(log)
    BY DEF CountInv, Settled, NobodyOver, Over
  <2>2. log \in Seq(Event) /\ versions \in [Node -> [File -> Vector]] /\ f \in File
    BY <2>1, PathsAreFiles DEF TypeOK
  <2>3. ASSUME NEW m \in Node, NEW n \in Node, NEW k \in Node
        PROVE  versions[m][f][k] <= versions[n][f][k]
    <3>1. versions[m][f][k] \in Nat /\ versions[n][f][k] \in Nat
      BY <2>2 DEF Vector
    <3>2. CASE versions[m][f][k] = 0
      BY <3>1, <3>2
    <3>3. CASE IsPublished(k, f, versions[m][f][k])
      <4>1. PICK i \in 1..Len(log) : /\ log[i].op = "write" /\ log[i].file = f
                                     /\ log[i].version[k] >= versions[m][f][k]
        BY <3>3 DEF IsPublished, Says
      <4>2. i <= acked[n]
        BY <2>1, <2>2
      <4>3. log[i].version[k] <= versions[n][f][k]
        BY <2>1, <4>1, <4>2 DEF Counts, MetIsCounted
      <4>4. log[i] \in WriteEvent
        BY <2>2, <4>1, EventFields
      <4>5. log[i].version[k] \in Nat
        BY <4>4 DEF WriteEvent, Vector
      <4> QED BY <3>1, <4>1, <4>3, <4>5
    <3> QED BY <2>1, <2>2, <3>2, <3>3 DEF Counts, OnlyPublished
  <2>4. /\ versions[Initiator][f] \in Vector /\ versions[Responder][f] \in Vector
        /\ \A k \in Node : versions[Initiator][f][k] = versions[Responder][f][k]
    <3>1. versions[Initiator][f] \in Vector /\ versions[Responder][f] \in Vector
      BY <2>2, EndsAreNodes
    <3>2. ASSUME NEW k \in Node
          PROVE  versions[Initiator][f][k] = versions[Responder][f][k]
      <4>1. /\ versions[Initiator][f][k] <= versions[Responder][f][k]
            /\ versions[Responder][f][k] <= versions[Initiator][f][k]
        BY <2>3, EndsAreNodes
      <4> QED BY <3>1, <4>1 DEF Vector
    <3> QED BY <3>1, <3>2
  <2> QED BY <2>4 DEF Vector
<1> QED BY <1>1, <1>2, CountStep, PTL DEF Spec

=============================================================================
