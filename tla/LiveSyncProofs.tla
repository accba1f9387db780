--------------------------- MODULE LiveSyncProofs ---------------------------
(***************************************************************************)
(* Machine-checked proofs about LiveSync: its types; and that two nodes    *)
(* whose users wait for the last change to settle have the same trees each *)
(* time it has, with and without correlated renames, and that no change    *)
(* they apply comes back as one of their own.                              *)
(***************************************************************************)
EXTENDS LiveSync, TLAPS

-----------------------------------------------------------------------------
\* What the fields of an event and of a publisher state range over.

LEMMA EventFields ==
    ASSUME NEW ev \in Event
    PROVE  /\ ev.op \in {"write", "remove", "rename"}
           /\ ev.origin \in Node
           /\ ev.file \in File
           /\ ev.op = "write" => ev \in WriteEvent
           /\ ev.op = "rename" => ev.old \in File
BY DEF Event, WriteEvent, RemoveEvent, RenameEvent

LEMMA WriteFields ==
    ASSUME NEW ev \in WriteEvent
    PROVE  /\ ev.origin \in Node /\ ev.file \in File /\ ev.data \in Data
           /\ ev.version \in Vector /\ ev.seq \in Nat /\ ev.op = "write"
BY DEF WriteEvent

LEMMA PubFields ==
    ASSUME NEW p \in PubState
    PROVE  /\ p.at = "took" => p.change \in Change
           /\ p.at \in {"hashed", "bump"} => p.file \in File /\ p.data \in Data
           /\ p.at = "publish" => p.event \in Event
BY DEF PubState

LEMMA IdleIsPubState == Idle \in PubState /\ [at |-> "returned"] \in PubState
BY DEF Idle, PubState

LEMMA ChangeFields ==
    ASSUME NEW c \in Change
    PROVE  /\ c.file \in File
           /\ c.kind = "renamed" => c.old \in File
BY DEF Change

LEMMA VectorOps ==
    ASSUME NEW a \in Vector, NEW b \in Vector, NEW m \in Node
    PROVE  /\ Bumped(a, m) \in Vector
           /\ Merged(a, b) \in Vector
           /\ Reconciled(a, b) \in Vector
BY DEF Vector, Bumped, Merged, Reconciled

LEMMA AppendType ==
    ASSUME NEW S, NEW s \in Seq(S), NEW e \in S
    PROVE  /\ Append(s, e) \in Seq(S)
           /\ Len(Append(s, e)) = Len(s) + 1
           /\ Len(s) \in Nat
OBVIOUS

-----------------------------------------------------------------------------
\* Type correctness.

LEMMA ObserveType ==
    ASSUME pending \in [Node -> SUBSET Change], NEW n \in Node,
           NEW c \in Change, Observe(n, c)
    PROVE  pending' \in [Node -> SUBSET Change]
BY DEF Observe, Scheduled

LEMMA ObserveMoveType ==
    ASSUME pending \in [Node -> SUBSET Change], NEW n \in Node,
           NEW old \in File, NEW new \in File, ObserveMove(n, old, new)
    PROVE  pending' \in [Node -> SUBSET Change]
<1>1. /\ [kind |-> "renamed", file |-> new, old |-> old] \in Change
      /\ [kind |-> "removed", file |-> old] \in Change
      /\ [kind |-> "modified", file |-> new] \in Change
  BY DEF Change
<1>2. CASE n \in Renamer
  BY <1>1, <1>2, ObserveType DEF ObserveMove
<1>3. CASE n \notin Renamer
  BY <1>1, <1>3 DEF ObserveMove, Scheduled
<1> QED BY <1>2, <1>3

LEMMA EndSessionType ==
    ASSUME TypeOK, NEW n \in Node, NEW side, EndSession(n, side)
    PROVE  /\ session' \in [Node -> {"running", "ended"}]
           /\ pub' \in [Node -> PubState]
           /\ rx' \in [Node -> RxState]
           /\ \A m \in Node : rx'[m] \in {rx[m], "returned"}
<1>1. session' \in [Node -> {"running", "ended"}]
  BY DEF TypeOK, EndSession
<1>2. pub' \in [Node -> PubState]
  <2>1. pub \in [Node -> PubState] /\ [at |-> "returned"] \in PubState
    BY IdleIsPubState DEF TypeOK
  <2>2. pub' = pub \/ pub' = [pub EXCEPT ![n] = [at |-> "returned"]]
    BY DEF EndSession
  <2> QED BY <2>1, <2>2
<1>3. /\ rx' \in [Node -> RxState]
      /\ \A m \in Node : rx'[m] \in {rx[m], "returned"}
  <2>1. rx \in [Node -> RxState] /\ "returned" \in RxState
    BY DEF TypeOK, RxState
  <2>2. rx' = rx \/ rx' = [rx EXCEPT ![n] = "returned"]
    BY DEF EndSession
  <2> QED BY <2>1, <2>2
<1> QED BY <1>1, <1>2, <1>3

LEMMA PathsAreFiles == Path \subseteq File /\ ConflictFile \subseteq File
BY DEF File

LEMMA IncomingType ==
    ASSUME TypeOK, NEW n \in Node, rx[n] \notin {"fetch", "returned"}
    PROVE  /\ Incoming(n) \in Event /\ acked[n] < Len(log)
           /\ rx[n] \in StepsFor(Incoming(n).op)
BY DEF TypeOK, InHand, Incoming

LEMMA ReceiverStream ==
    ASSUME TypeOK
    PROVE  /\ log \in Seq(Event) /\ Len(log) \in Nat /\ acked \in [Node -> Nat]
           /\ \A m \in Node : acked[m] <= Len(log)
           /\ \A m \in Node : rx[m] \notin {"fetch", "returned"} => InHand(m)
BY DEF TypeOK

\* A longer stream leaves the event in hand where it is.
LEMMA LongerStream ==
    ASSUME TypeOK, NEW ev \in Event, log' \in {log, Append(log, ev)},
           acked' = acked, \A m \in Node : rx'[m] \in {rx[m], "returned"}
    PROVE  /\ log' \in Seq(Event)
           /\ \A m \in Node : acked'[m] <= Len(log')
           /\ \A m \in Node : rx'[m] \notin {"fetch", "returned"} => InHand(m)'
<1>1. /\ log' \in Seq(Event) /\ Len(log') >= Len(log) /\ Len(log') \in Nat
      /\ \A i \in 1..Len(log) : log'[i] = log[i]
  <2>1. log \in Seq(Event) /\ Len(log) \in Nat
    BY ReceiverStream
  <2>2. CASE log' = log
    BY <2>1, <2>2
  <2>3. CASE log' = Append(log, ev)
    BY <2>1, <2>3, AppendType
  <2> QED BY <2>2, <2>3
<1>2. \A m \in Node : acked[m] \in Nat /\ acked[m] <= Len(log) /\ Len(log) \in Nat
  BY ReceiverStream
<1>3. ASSUME NEW m \in Node, rx'[m] \notin {"fetch", "returned"}
      PROVE  InHand(m)'
  <2>1. rx'[m] = rx[m] /\ InHand(m)
    BY <1>3, ReceiverStream
  <2>2. acked[m] + 1 \in 1..Len(log)
    BY <1>2, <2>1 DEF InHand
  <2> QED BY <1>1, <1>2, <2>1, <2>2 DEF InHand
<1> QED BY <1>1, <1>2, <1>3

LEMMA InitType == Init => TypeOK
<1> SUFFICES ASSUME Init PROVE TypeOK
  OBVIOUS
<1>1. disk \in [Node -> [File -> Data \cup {Absent}]]
  BY ConstantsOK DEF Init, Data
<1>2. /\ pub \in [Node -> PubState] /\ rx \in [Node -> RxState]
      /\ pending \in [Node -> SUBSET Change]
      /\ session \in [Node -> {"running", "ended"}]
  BY IdleIsPubState DEF Init, RxState
<1>3. versions \in [Node -> [File -> Vector]]
  BY DEF Init, ZeroVector, Vector
<1>4. /\ log \in Seq(Event) /\ audit \in [Node -> Seq(AuditRecord)]
      /\ acked \in [Node -> Nat]
      /\ \A n \in Node : acked[n] <= Len(log)
      /\ \A n \in Node : rx[n] = "fetch"
  BY DEF Init
<1> QED
  BY <1>1, <1>2, <1>3, <1>4 DEF Init, TypeOK

LEMMA UserType ==
    ASSUME TypeOK, NEW n \in Node, UserStep(n)
    PROVE  TypeOK'
<1>1. ASSUME NEW f \in Path, NEW c \in Content, UserWrite(n, f, c)
      PROVE  TypeOK'
  <2>1. [kind |-> "modified", file |-> f] \in Change
    BY PathsAreFiles DEF Change
  <2>2. pending' \in [Node -> SUBSET Change]
    BY <1>1, <2>1, ObserveType DEF UserWrite, TypeOK
  <2>3. disk' \in [Node -> [File -> Data \cup {Absent}]]
    BY <1>1, PathsAreFiles DEF UserWrite, TypeOK, Data
  <2> QED
    BY <1>1, <2>2, <2>3 DEF UserWrite, Acts, TypeOK, InHand, guardVars, chainVars, streamVars
<1>2. ASSUME NEW f \in Path, UserRemove(n, f)
      PROVE  TypeOK'
  <2>1. [kind |-> "removed", file |-> f] \in Change
    BY PathsAreFiles DEF Change
  <2>2. pending' \in [Node -> SUBSET Change]
    BY <1>2, <2>1, ObserveType DEF UserRemove, TypeOK
  <2>3. disk' \in [Node -> [File -> Data \cup {Absent}]]
    BY <1>2, PathsAreFiles DEF UserRemove, TypeOK
  <2> QED
    BY <1>2, <2>2, <2>3 DEF UserRemove, Acts, TypeOK, InHand, guardVars, chainVars, streamVars
<1>3. ASSUME NEW old \in Path, NEW new \in Path, UserRename(n, old, new)
      PROVE  TypeOK'
  <2>1. pending' \in [Node -> SUBSET Change]
    BY <1>3, PathsAreFiles, ObserveMoveType DEF UserRename, TypeOK
  <2>2. disk' \in [Node -> [File -> Data \cup {Absent}]]
    BY <1>3, PathsAreFiles DEF UserRename, TypeOK
  <2> QED
    BY <1>3, <2>1, <2>2 DEF UserRename, Acts, TypeOK, InHand, guardVars, chainVars, streamVars
<1> QED
  BY <1>1, <1>2, <1>3 DEF UserStep

\* The publisher leaves the receiver's variables alone.
LEMMA PublisherType ==
    ASSUME TypeOK, NEW n \in Node, PublisherStep(n) \/ PublishFails(n)
    PROVE  TypeOK'
<1>1. ASSUME NEW change \in pending[n], Fire(n, change)
      PROVE  TypeOK'
  <2>1. change \in Change
    BY DEF TypeOK
  <2>2. [at |-> "took", change |-> change] \in PubState
    BY <2>1 DEF PubState
  <2>3. pending' \in [Node -> SUBSET Change]
    BY <1>1 DEF Fire, TypeOK
  <2>4. pub' \in [Node -> PubState]
    BY <1>1, <2>2 DEF Fire, TypeOK
  <2> QED
    BY <1>1, <2>3, <2>4 DEF Fire, TypeOK, InHand, guardVars, chainVars, streamVars, budgets
<1>2. ASSUME ReadFile(n)
      PROVE  TypeOK'
  <2>1. pub[n] \in PubState /\ pub[n].at = "took"
    BY <1>2 DEF ReadFile, Took, TypeOK
  <2>2. pub[n].change.file \in File
    BY <2>1, PubFields, ChangeFields
  <2> DEFINE f == pub[n].change.file
             p == IF disk[n][f] = Absent THEN Idle
                  ELSE [at |-> "hashed", file |-> f, data |-> disk[n][f]]
  <2>3. p \in PubState
    BY <2>2, IdleIsPubState DEF TypeOK, PubState
  <2>4. pub' = [pub EXCEPT ![n] = p]
    BY <1>2 DEF ReadFile
  <2>5. pub' \in [Node -> PubState]
    BY <2>3, <2>4 DEF TypeOK
  <2> QED
    BY <1>2, <2>5 DEF ReadFile, TypeOK, InHand, fsVars, guardVars, chainVars, streamVars, budgets
<1>3. ASSUME IsEcho(n)
      PROVE  TypeOK'
  <2>1. pub[n] \in PubState /\ pub[n].at = "hashed"
    BY <1>3 DEF IsEcho, TypeOK
  <2>2. pub[n].file \in File /\ pub[n].data \in Data
    BY <2>1, PubFields
  <2>3. [at |-> "bump", file |-> pub[n].file, data |-> pub[n].data] \in PubState
    BY <2>2 DEF PubState
  <2>4. pub' \in [Node -> PubState]
    BY <1>3, <2>3, IdleIsPubState DEF IsEcho, TypeOK
  <2>5. echo' \in [Node -> [File -> Data \cup {NoMark, RemovedMark}]]
    <3>1. echo' = echo \/ echo' = [echo EXCEPT ![n][pub[n].file] = NoMark]
      BY <1>3 DEF IsEcho, Consume
    <3>2. echo \in [Node -> [File -> Data \cup {NoMark, RemovedMark}]]
      BY DEF TypeOK
    <3> QED BY <3>1, <3>2, <2>2
  <2> QED
    BY <1>3, <2>4, <2>5 DEF IsEcho, TypeOK, InHand, fsVars, chainVars, streamVars, budgets
<1>4. ASSUME Bump(n)
      PROVE  TypeOK'
  <2>1. pub[n] \in PubState /\ pub[n].at = "bump"
    BY <1>4 DEF Bump, TypeOK
  <2>2. pub[n].file \in File /\ pub[n].data \in Data
    BY <2>1, PubFields
  <2> DEFINE v == Bumped(versions[n][pub[n].file], n)
  <2>3. v \in Vector
    <3>1. versions \in [Node -> [File -> Vector]]
      BY DEF TypeOK
    <3>2. versions[n][pub[n].file] \in Vector
      BY <3>1, <2>2
    <3> QED BY <3>2, VectorOps
  <2> DEFINE ev == [op |-> "write", origin |-> n, file |-> pub[n].file,
                    data |-> pub[n].data, version |-> v, seq |-> sendSeq[n]]
  <2>4. ev \in Event
    BY <2>2, <2>3 DEF Event, WriteEvent, TypeOK
  <2>5. [at |-> "publish", event |-> ev] \in PubState
    BY <2>4 DEF PubState
  <2>6. pub' = [pub EXCEPT ![n] = [at |-> "publish", event |-> ev]]
    BY <1>4 DEF Bump, StoreVersion
  <2>7. pub' \in [Node -> PubState]
    BY <2>5, <2>6 DEF TypeOK
  <2>8. versions' = [versions EXCEPT ![n][pub[n].file] = v]
    BY <1>4 DEF Bump, StoreVersion
  <2>9. versions' \in [Node -> [File -> Vector]]
    BY <2>2, <2>3, <2>8 DEF TypeOK
  <2>10. sendSeq' \in [Node -> Nat]
    BY <1>4 DEF Bump, AdvanceSendChain, TypeOK
  <2> QED
    BY <1>4, <2>7, <2>9, <2>10 DEF Bump, TypeOK, InHand, fsVars, streamVars, budgets
<1>5. ASSUME IsEchoRemove(n)
      PROVE  TypeOK'
  <2>1. pub[n] \in PubState /\ pub[n].at = "took"
    BY <1>5 DEF IsEchoRemove, Took, TypeOK
  <2>2. pub[n].change.file \in File
    BY <2>1, PubFields, ChangeFields
  <2> DEFINE p == [at |-> "publish", event |-> [op |-> "remove", origin |-> n,
                                                file |-> pub[n].change.file]]
  <2>3. p \in PubState
    BY <2>2 DEF PubState, Event, RemoveEvent
  <2>4. pub' = [pub EXCEPT ![n] = Idle] \/ pub' = [pub EXCEPT ![n] = p]
    BY <1>5 DEF IsEchoRemove
  <2>5. pub' \in [Node -> PubState]
    BY <2>3, <2>4, IdleIsPubState DEF TypeOK
  <2>6. echo' \in [Node -> [File -> Data \cup {NoMark, RemovedMark}]]
    <3>1. \/ echo' = echo
          \/ echo' = [echo EXCEPT ![n][pub[n].change.file] = NoMark]
      BY <1>5 DEF IsEchoRemove, Consume
    <3>2. echo \in [Node -> [File -> Data \cup {NoMark, RemovedMark}]]
      BY DEF TypeOK
    <3> QED BY <3>1, <3>2, <2>2
  <2> QED
    BY <1>5, <2>5, <2>6 DEF IsEchoRemove, TypeOK, InHand, fsVars, chainVars, streamVars, budgets
<1>6. ASSUME IsEchoRename(n)
      PROVE  TypeOK'
  <2>1. pub[n] \in PubState /\ pub[n].at = "took" /\ pub[n].change.kind = "renamed"
    BY <1>6 DEF IsEchoRename, Took, TypeOK
  <2>2. pub[n].change.file \in File /\ pub[n].change.old \in File
    BY <2>1, PubFields, ChangeFields
  <2> DEFINE p == [at |-> "publish", event |-> [op |-> "rename", origin |-> n,
                       file |-> pub[n].change.file, old |-> pub[n].change.old]]
  <2>3. p \in PubState
    BY <2>2 DEF PubState, Event, RenameEvent
  <2>4. pub' = [pub EXCEPT ![n] = Idle] \/ pub' = [pub EXCEPT ![n] = p]
    BY <1>6 DEF IsEchoRename
  <2>5. pub' \in [Node -> PubState]
    BY <2>3, <2>4, IdleIsPubState DEF TypeOK
  <2>6. renamed' \in [Node -> [File -> File \cup {NoMark}]]
    <3>1. \/ renamed' = renamed
          \/ renamed' = [renamed EXCEPT ![n][pub[n].change.file] = NoMark]
      BY <1>6 DEF IsEchoRename
    <3>2. renamed \in [Node -> [File -> File \cup {NoMark}]]
      BY DEF TypeOK
    <3> QED BY <3>1, <3>2, <2>2
  <2> QED
    BY <1>6, <2>5, <2>6 DEF IsEchoRename, TypeOK, InHand, fsVars, chainVars, streamVars, budgets
<1>7. ASSUME Publish(n)
      PROVE  TypeOK'
  <2>1. pub[n].event \in Event
    BY <1>7, PubFields DEF Publish, TypeOK
  <2>2. pub' \in [Node -> PubState]
    BY <1>7, IdleIsPubState DEF Publish, TypeOK
  <2>3. /\ log' \in Seq(Event)
        /\ \A m \in Node : acked'[m] <= Len(log')
        /\ \A m \in Node : rx'[m] \notin {"fetch", "returned"} => InHand(m)'
    BY <1>7, <2>1, LongerStream DEF Publish
  <2> QED
    BY <1>7, <2>2, <2>3
    DEF Publish, TypeOK, InHand, fsVars, guardVars, chainVars, budgets
<1>8. ASSUME PublishFails(n)
      PROVE  TypeOK'
  <2>1. pub[n].event \in Event
    BY <1>8, PubFields DEF PublishFails, TypeOK
  <2>2. /\ session' \in [Node -> {"running", "ended"}]
        /\ pub' \in [Node -> PubState]
        /\ rx' \in [Node -> RxState]
        /\ \A m \in Node : rx'[m] \in {rx[m], "returned"}
    BY <1>8, EndSessionType DEF PublishFails
  <2>3. /\ log' \in Seq(Event)
        /\ \A m \in Node : acked'[m] <= Len(log')
        /\ \A m \in Node : rx'[m] \notin {"fetch", "returned"} => InHand(m)'
    BY <1>8, <2>1, <2>2, LongerStream DEF PublishFails
  <2> QED
    BY <1>8, <2>2, <2>3
    DEF PublishFails, TypeOK, InHand, fsVars, guardVars, chainVars
<1> QED
  BY <1>1, <1>2, <1>3, <1>4, <1>5, <1>6, <1>7, <1>8 DEF PublisherStep


\* The receiver moves on to another step of the event it holds.
LEMMA AdvanceType ==
    ASSUME TypeOK, NEW n \in Node, NEW step \in StepsFor(Incoming(n).op),
           acked[n] < Len(log), Advance(n, step), UNCHANGED streamVars
    PROVE  /\ rx' \in [Node -> RxState]
           /\ acked' = acked /\ log' = log
           /\ \A m \in Node : rx'[m] \notin {"fetch", "returned"} => InHand(m)'
<1>1. rx \in [Node -> RxState] /\ rx' = [rx EXCEPT ![n] = step] /\ step \in RxState
  BY DEF TypeOK, Advance, StepsFor, RxState
<1>2. acked' = acked /\ log' = log
  BY DEF streamVars
<1>3. \A m \in Node : rx'[m] = IF m = n THEN step ELSE rx[m]
  BY <1>1
<1>4. \A m \in Node : rx[m] \notin {"fetch", "returned"} => InHand(m)
  BY DEF TypeOK
<1> QED BY <1>1, <1>2, <1>3, <1>4 DEF InHand, Incoming

LEMMA RecordedType ==
    ASSUME TypeOK, NEW n \in Node, NEW outcome \in Outcome, Recorded(n, outcome)
    PROVE  audit' \in [Node -> Seq(AuditRecord)]
<1>1. audit \in [Node -> Seq(AuditRecord)] /\ acked[n] + 1 \in Nat
  BY DEF TypeOK
<1> DEFINE r == [id |-> acked[n] + 1, outcome |-> outcome]
<1>2. r \in AuditRecord
  BY <1>1 DEF AuditRecord
<1>3. Append(audit[n], r) \in Seq(AuditRecord)
  BY <1>1, <1>2, AppendType
<1>4. audit' = [audit EXCEPT ![n] = Append(audit[n], r)]
  BY DEF Recorded
<1> HIDE DEF r
<1> QED BY <1>1, <1>3, <1>4

\* An acknowledgement stays within the stream.
LEMMA AckedType ==
    ASSUME TypeOK, NEW n \in Node, acked[n] < Len(log), log' = log,
           acked' = [acked EXCEPT ![n] = acked[n] + 1],
           rx'[n] \in {"fetch", "returned"}, \A m \in Node \ {n} : rx'[m] = rx[m]
    PROVE  /\ acked' \in [Node -> Nat]
           /\ \A m \in Node : acked'[m] <= Len(log')
           /\ \A m \in Node : rx'[m] \notin {"fetch", "returned"} => InHand(m)'
<1>1. /\ acked \in [Node -> Nat] /\ Len(log) \in Nat
      /\ \A m \in Node : acked[m] <= Len(log)
      /\ \A m \in Node : rx[m] \notin {"fetch", "returned"} => InHand(m)
  BY DEF TypeOK
<1>2. \A m \in Node : acked'[m] = IF m = n THEN acked[m] + 1 ELSE acked[m]
  BY <1>1
<1> QED BY <1>1, <1>2 DEF InHand

\* An effect on n's disk that its watcher observes.
LEMMA EffectType ==
    ASSUME TypeOK, NEW n \in Node, NEW f \in File, NEW d \in Data \cup {Absent},
           NEW kind \in {"modified", "removed"},
           disk' = [disk EXCEPT ![n][f] = d],
           \/ pending' = pending
           \/ Observe(n, [kind |-> kind, file |-> f])
    PROVE  /\ disk' \in [Node -> [File -> Data \cup {Absent}]]
           /\ pending' \in [Node -> SUBSET Change]
<1>1. disk \in [Node -> [File -> Data \cup {Absent}]]
      /\ pending \in [Node -> SUBSET Change]
  BY DEF TypeOK
<1>2. [kind |-> kind, file |-> f] \in Change
  BY DEF Change
<1>3. disk' \in [Node -> [File -> Data \cup {Absent}]]
  BY <1>1
<1> QED BY <1>1, <1>2, <1>3, ObserveType

LEMMA FetchType ==
    ASSUME TypeOK, NEW n \in Node, Fetch(n)
    PROVE  TypeOK'
<1>1. Incoming(n) \in Event /\ acked[n] < Len(log) /\ UNCHANGED streamVars
  BY DEF Fetch, Incoming, TypeOK
<1>2. ASSUME Incoming(n).op # "write", Advance(n, Incoming(n).op),
             UNCHANGED <<session, pub, recvSeq>>
      PROVE  TypeOK'
  <2>1. Incoming(n).op \in StepsFor(Incoming(n).op)
    BY <1>1, <1>2, EventFields DEF StepsFor
  <2>2. /\ rx' \in [Node -> RxState]
        /\ acked' = acked /\ log' = log
        /\ \A m \in Node : rx'[m] \notin {"fetch", "returned"} => InHand(m)'
    BY <1>1, <1>2, <2>1, AdvanceType
  <2> QED
    BY <1>2, <2>2 DEF Fetch, TypeOK, fsVars, guardVars, budgets
<1>3. ASSUME Incoming(n).op = "write", Advance(n, "reconcile"), UNCHANGED <<session, pub>>,
             recvSeq' = IF enc THEN [recvSeq EXCEPT ![n] = @ + 1] ELSE recvSeq
      PROVE  TypeOK'
  <2>1. recvSeq' \in [Node -> Nat]
    BY <1>3 DEF TypeOK
  <2>2. "reconcile" \in StepsFor(Incoming(n).op)
    BY <1>3 DEF StepsFor
  <2>3. /\ rx' \in [Node -> RxState]
        /\ acked' = acked /\ log' = log
        /\ \A m \in Node : rx'[m] \notin {"fetch", "returned"} => InHand(m)'
    BY <1>1, <1>3, <2>2, AdvanceType
  <2> QED
    BY <1>3, <2>1, <2>3 DEF Fetch, TypeOK, fsVars, guardVars, budgets
<1>4. ASSUME EndSession(n, "rx"), recvSeq' = recvSeq
      PROVE  TypeOK'
  <2>1. /\ session' \in [Node -> {"running", "ended"}]
        /\ pub' \in [Node -> PubState]
        /\ rx' \in [Node -> RxState]
        /\ \A m \in Node : rx'[m] \in {rx[m], "returned"}
    BY <1>4, EndSessionType
  <2>2. acked' = acked /\ log' = log
    BY <1>1 DEF streamVars
  <2>3. \A m \in Node : rx'[m] \notin {"fetch", "returned"} => InHand(m)'
    BY <2>1, <2>2 DEF TypeOK, InHand
  <2> QED
    BY <1>4, <2>1, <2>2, <2>3 DEF Fetch, TypeOK, fsVars, guardVars, budgets
<1> QED
  BY <1>2, <1>3, <1>4 DEF Fetch

\* The steps that handle an incoming write.
LEMMA WriteHandlerType ==
    ASSUME TypeOK, NEW n \in Node,
           \/ Reconcile(n) \/ ApplyConflict(n)
           \/ Truncate(n) \/ ApplyWrite(n) \/ MarkApplied(n)
    PROVE  TypeOK'
<1> DEFINE ev == Incoming(n)
<1>1. rx[n] \in {"reconcile", "conflict", "apply", "write", "markApplied"}
  BY DEF Reconcile, ApplyConflict, Truncate, ApplyWrite, MarkApplied
<1>2. ev \in Event /\ acked[n] < Len(log) /\ rx[n] \in StepsFor(ev.op)
  BY <1>1, IncomingType
<1>3. ev.op = "write" /\ ev \in WriteEvent
  BY <1>1, <1>2, EventFields DEF StepsFor
<1>4. /\ ev.origin \in Node /\ ev.file \in File /\ ev.data \in Data
      /\ ev.version \in Vector
  BY <1>3, WriteFields
<1>5. {"ack", "apply", "write", "markApplied", "conflict"} \subseteq StepsFor(ev.op)
  BY <1>3 DEF StepsFor
<1> HIDE DEF ev
<1>6. ASSUME Reconcile(n)
      PROVE  TypeOK'
  <2>1. UNCHANGED streamVars
    BY <1>6 DEF Reconcile
  <2>2. \E step \in StepsFor(ev.op) : Advance(n, step)
    BY <1>5, <1>6 DEF Reconcile
  <2>3. /\ rx' \in [Node -> RxState] /\ acked' = acked /\ log' = log
        /\ \A m \in Node : rx'[m] \notin {"fetch", "returned"} => InHand(m)'
    BY <1>2, <2>1, <2>2, AdvanceType DEF ev
  <2>4. versions' \in [Node -> [File -> Vector]]
    <3>1. versions \in [Node -> [File -> Vector]]
      BY DEF TypeOK
    <3>2. versions[n][ev.file] \in Vector
      BY <1>4, <3>1
    <3>3. Reconciled(versions[n][ev.file], ev.version) \in Vector
      BY <1>4, <3>2, VectorOps
    <3>4. versions' = [versions EXCEPT ![n][ev.file] =
                           Reconciled(versions[n][ev.file], ev.version)]
      BY <1>6 DEF Reconcile, StoreVersion, ev
    <3> QED BY <1>4, <3>1, <3>3, <3>4
  <2>5. audit' \in [Node -> Seq(AuditRecord)]
    <3>1. audit' = audit \/ Recorded(n, "stale")
      BY <1>6 DEF Reconcile
    <3> QED BY <3>1, RecordedType DEF TypeOK, Outcome
  <2> QED
    BY <1>6, <2>3, <2>4, <2>5
    DEF Reconcile, TypeOK, fsVars, chainVars, budgets
<1>7. ASSUME ApplyConflict(n)
      PROVE  TypeOK'
  <2>1. PICK at \in Stamp :
          LET aside == [of |-> ev.file, from |-> ev.origin, at |-> at]
          IN /\ aside \in ConflictFile
             /\ disk' = [disk EXCEPT ![n][aside] = ev.data]
             /\ Observe(n, [kind |-> "modified", file |-> aside])
    BY <1>7 DEF ApplyConflict, ev
  <2> DEFINE aside == [of |-> ev.file, from |-> ev.origin, at |-> at]
  <2>2. aside \in File /\ disk' = [disk EXCEPT ![n][aside] = ev.data]
        /\ Observe(n, [kind |-> "modified", file |-> aside])
    BY <2>1, PathsAreFiles
  <2> HIDE DEF aside
  <2>3. /\ disk' \in [Node -> [File -> Data \cup {Absent}]]
        /\ pending' \in [Node -> SUBSET Change]
    BY <1>4, <2>2, EffectType
  <2>4. Advance(n, "ack") /\ Recorded(n, "conflict") /\ UNCHANGED streamVars
    BY <1>7 DEF ApplyConflict
  <2>5. /\ rx' \in [Node -> RxState] /\ acked' = acked /\ log' = log
        /\ \A m \in Node : rx'[m] \notin {"fetch", "returned"} => InHand(m)'
    BY <1>2, <1>5, <2>4, AdvanceType DEF ev
  <2>6. audit' \in [Node -> Seq(AuditRecord)]
    BY <2>4, RecordedType DEF Outcome
  <2> QED
    BY <1>7, <2>3, <2>5, <2>6 DEF ApplyConflict, TypeOK, guardVars, chainVars, budgets
<1>8. ASSUME Truncate(n) \/ ApplyWrite(n)
      PROVE  TypeOK'
  <2>1. \E d \in Data : /\ disk' = [disk EXCEPT ![n][ev.file] = d]
                        /\ Observe(n, [kind |-> "modified", file |-> ev.file])
    BY <1>4, <1>8 DEF Truncate, ApplyWrite, ev, Data
  <2>2. /\ disk' \in [Node -> [File -> Data \cup {Absent}]]
        /\ pending' \in [Node -> SUBSET Change]
    BY <1>4, <2>1, EffectType
  <2>3. \E step \in StepsFor(ev.op) : Advance(n, step)
    BY <1>5, <1>8 DEF Truncate, ApplyWrite
  <2>4. UNCHANGED streamVars
    BY <1>8 DEF Truncate, ApplyWrite
  <2>5. /\ rx' \in [Node -> RxState] /\ acked' = acked /\ log' = log
        /\ \A m \in Node : rx'[m] \notin {"fetch", "returned"} => InHand(m)'
    BY <1>2, <2>3, <2>4, AdvanceType DEF ev
  <2> QED
    BY <1>8, <2>2, <2>5
    DEF Truncate, ApplyWrite, TypeOK, guardVars, chainVars, budgets
<1>9. ASSUME MarkApplied(n)
      PROVE  TypeOK'
  <2>1. Advance(n, "ack") /\ Recorded(n, "applied") /\ UNCHANGED streamVars
    BY <1>9 DEF MarkApplied
  <2>2. /\ rx' \in [Node -> RxState] /\ acked' = acked /\ log' = log
        /\ \A m \in Node : rx'[m] \notin {"fetch", "returned"} => InHand(m)'
    BY <1>2, <1>5, <2>1, AdvanceType DEF ev
  <2>3. audit' \in [Node -> Seq(AuditRecord)]
    BY <2>1, RecordedType DEF Outcome
  <2>4. echo' \in [Node -> [File -> Data \cup {NoMark, RemovedMark}]]
    <3>1. echo \in [Node -> [File -> Data \cup {NoMark, RemovedMark}]]
      BY DEF TypeOK
    <3>2. echo' = [echo EXCEPT ![n][ev.file] = ev.data]
      BY <1>9 DEF MarkApplied, ev
    <3> QED BY <1>4, <3>1, <3>2
  <2> QED
    BY <1>9, <2>2, <2>3, <2>4 DEF MarkApplied, TypeOK, fsVars, chainVars, budgets
<1> QED
  BY <1>6, <1>7, <1>8, <1>9

\* The steps that handle an incoming removal.
LEMMA RemoveHandlerType ==
    ASSUME TypeOK, NEW n \in Node, ApplyRemove(n) \/ MarkRemoved(n)
    PROVE  TypeOK'
<1> DEFINE ev == Incoming(n)
<1>1. rx[n] \in {"remove", "markRemoved"} /\ UNCHANGED streamVars
  BY DEF ApplyRemove, MarkRemoved
<1>2. ev \in Event /\ acked[n] < Len(log) /\ rx[n] \in StepsFor(ev.op)
  BY <1>1, IncomingType
<1>3. ev.file \in File /\ {"ack", "markRemoved"} \subseteq StepsFor(ev.op)
  BY <1>1, <1>2, EventFields DEF StepsFor
<1> HIDE DEF ev
<1>4. \E step \in StepsFor(ev.op) : Advance(n, step)
  BY <1>3 DEF ApplyRemove, MarkRemoved
<1>5. /\ rx' \in [Node -> RxState] /\ acked' = acked /\ log' = log
      /\ \A m \in Node : rx'[m] \notin {"fetch", "returned"} => InHand(m)'
  BY <1>1, <1>2, <1>4, AdvanceType DEF ev
<1>6. ASSUME ApplyRemove(n)
      PROVE  TypeOK'
  <2>1. /\ disk' = [disk EXCEPT ![n][ev.file] = Absent]
        /\ \/ pending' = pending
           \/ Observe(n, [kind |-> "removed", file |-> ev.file])
    BY <1>6 DEF ApplyRemove, ev
  <2>2. /\ disk' \in [Node -> [File -> Data \cup {Absent}]]
        /\ pending' \in [Node -> SUBSET Change]
    BY <1>3, <2>1, EffectType
  <2> QED
    BY <1>5, <1>6, <2>2 DEF ApplyRemove, TypeOK, guardVars, chainVars, budgets
<1>7. ASSUME MarkRemoved(n)
      PROVE  TypeOK'
  <2>1. echo' \in [Node -> [File -> Data \cup {NoMark, RemovedMark}]]
    <3>1. echo \in [Node -> [File -> Data \cup {NoMark, RemovedMark}]]
      BY DEF TypeOK
    <3>2. echo' = [echo EXCEPT ![n][ev.file] = RemovedMark]
      BY <1>7 DEF MarkRemoved, ev
    <3> QED BY <1>3, <3>1, <3>2
  <2> QED
    BY <1>5, <1>7, <2>1 DEF MarkRemoved, TypeOK, fsVars, chainVars, budgets
<1> QED
  BY <1>6, <1>7

\* The steps that handle an incoming rename.
LEMMA RenameHandlerType ==
    ASSUME TypeOK, NEW n \in Node, ApplyRename(n) \/ MarkRenamed(n)
    PROVE  TypeOK'
<1> DEFINE ev == Incoming(n)
<1>1. rx[n] \in {"rename", "markRenamed"} /\ UNCHANGED streamVars
  BY DEF ApplyRename, MarkRenamed
<1>2. ev \in Event /\ acked[n] < Len(log) /\ rx[n] \in StepsFor(ev.op)
  BY <1>1, IncomingType
<1>3. /\ ev.file \in File /\ ev.old \in File
      /\ {"ack", "markRenamed"} \subseteq StepsFor(ev.op)
  BY <1>1, <1>2, EventFields DEF StepsFor
<1> HIDE DEF ev
<1>4. acked' = acked /\ log' = log
  BY <1>1 DEF streamVars
<1>5. ASSUME ApplyRename(n), disk[n][ev.old] = Absent
      PROVE  TypeOK'
  <2>1. EndSession(n, "rx") /\ UNCHANGED fsVars
    BY <1>5 DEF ApplyRename, ev
  <2>2. /\ session' \in [Node -> {"running", "ended"}]
        /\ pub' \in [Node -> PubState]
        /\ rx' \in [Node -> RxState]
        /\ \A m \in Node : rx'[m] \in {rx[m], "returned"}
    BY <2>1, EndSessionType
  <2>3. \A m \in Node : rx'[m] \notin {"fetch", "returned"} => InHand(m)'
    BY <1>4, <2>2 DEF TypeOK, InHand
  <2> QED
    BY <1>4, <1>5, <2>1, <2>2, <2>3
    DEF ApplyRename, TypeOK, fsVars, guardVars, chainVars, budgets
<1>6. ASSUME ApplyRename(n), disk[n][ev.old] # Absent
      PROVE  TypeOK'
  <2>1. /\ disk' = [disk EXCEPT ![n][ev.file] = disk[n][ev.old], ![n][ev.old] = Absent]
        /\ ObserveMove(n, ev.old, ev.file)
        /\ Advance(n, "markRenamed")
        /\ UNCHANGED <<session, pub>>
    BY <1>6 DEF ApplyRename, ev
  <2>2. disk' \in [Node -> [File -> Data \cup {Absent}]]
    <3>1. disk \in [Node -> [File -> Data \cup {Absent}]]
      BY DEF TypeOK
    <3>2. disk[n][ev.old] \in Data \cup {Absent}
      BY <1>3, <3>1
    <3> QED BY <1>3, <2>1, <3>1, <3>2
  <2>3. pending' \in [Node -> SUBSET Change]
    BY <1>3, <2>1, ObserveMoveType DEF TypeOK
  <2>4. /\ rx' \in [Node -> RxState]
        /\ \A m \in Node : rx'[m] \notin {"fetch", "returned"} => InHand(m)'
    BY <1>1, <1>2, <1>3, <2>1, AdvanceType DEF ev
  <2> QED
    BY <1>4, <1>6, <2>1, <2>2, <2>3, <2>4
    DEF ApplyRename, TypeOK, guardVars, chainVars, budgets
<1>7. ASSUME MarkRenamed(n)
      PROVE  TypeOK'
  <2>1. Advance(n, "ack")
    BY <1>7 DEF MarkRenamed
  <2>2. /\ rx' \in [Node -> RxState]
        /\ \A m \in Node : rx'[m] \notin {"fetch", "returned"} => InHand(m)'
    BY <1>1, <1>2, <1>3, <2>1, AdvanceType DEF ev
  <2>3. renamed' \in [Node -> [File -> File \cup {NoMark}]]
    <3>1. renamed \in [Node -> [File -> File \cup {NoMark}]]
      BY DEF TypeOK
    <3>2. renamed' = [renamed EXCEPT ![n][ev.file] = ev.old]
      BY <1>7 DEF MarkRenamed, ev
    <3> QED BY <1>3, <3>1, <3>2
  <2> QED
    BY <1>4, <1>7, <2>2, <2>3 DEF MarkRenamed, TypeOK, fsVars, chainVars, budgets
<1> QED
  BY <1>5, <1>6, <1>7

\* The steps that take an event or let go of it.
LEMMA DeliveryType ==
    ASSUME TypeOK, NEW n \in Node,
           SkipOwn(n) \/ Ack(n) \/ AckLost(n) \/ ReceiverFails(n)
    PROVE  TypeOK'
<1>1. ASSUME SkipOwn(n)
      PROVE  TypeOK'
  <2>1. /\ acked' \in [Node -> Nat]
        /\ \A m \in Node : acked'[m] <= Len(log')
        /\ \A m \in Node : rx'[m] \notin {"fetch", "returned"} => InHand(m)'
    BY <1>1, AckedType DEF SkipOwn
  <2> QED
    BY <1>1, <2>1 DEF SkipOwn, TypeOK, fsVars, guardVars, chainVars, budgets
<1>2. ASSUME Ack(n)
      PROVE  TypeOK'
  <2>1. acked[n] < Len(log)
    BY <1>2, IncomingType DEF Ack
  <2>2. /\ rx' \in [Node -> RxState] /\ rx'[n] = "fetch"
        /\ \A m \in Node \ {n} : rx'[m] = rx[m]
    BY <1>2 DEF Ack, Advance, TypeOK, RxState
  <2>3. /\ acked' \in [Node -> Nat]
        /\ \A m \in Node : acked'[m] <= Len(log')
        /\ \A m \in Node : rx'[m] \notin {"fetch", "returned"} => InHand(m)'
    BY <1>2, <2>1, <2>2, AckedType DEF Ack
  <2> QED
    BY <1>2, <2>2, <2>3 DEF Ack, TypeOK, fsVars, guardVars, chainVars, budgets
<1>3. ASSUME AckLost(n)
      PROVE  TypeOK'
  <2>1. /\ rx' \in [Node -> RxState] /\ rx'[n] = "fetch"
        /\ \A m \in Node \ {n} : rx'[m] = rx[m]
    BY <1>3 DEF AckLost, Advance, TypeOK, RxState
  <2>2. acked' = acked /\ log' = log
    BY <1>3 DEF AckLost, streamVars
  <2>3. \A m \in Node : rx'[m] \notin {"fetch", "returned"} => InHand(m)'
    BY <2>1, <2>2 DEF TypeOK, InHand
  <2> QED
    BY <1>3, <2>1, <2>2, <2>3 DEF AckLost, TypeOK, fsVars, guardVars, chainVars
<1>4. ASSUME ReceiverFails(n)
      PROVE  TypeOK'
  <2>1. /\ session' \in [Node -> {"running", "ended"}]
        /\ pub' \in [Node -> PubState]
        /\ rx' \in [Node -> RxState]
        /\ \A m \in Node : rx'[m] \in {rx[m], "returned"}
    BY <1>4, EndSessionType DEF ReceiverFails
  <2>2. rx'[n] = "returned"
    BY <1>4 DEF ReceiverFails, EndSession, TypeOK
  <2>3. CASE acked' = acked
    <3>1. \A m \in Node : rx'[m] \notin {"fetch", "returned"} => InHand(m)'
      BY <1>4, <2>1, <2>3 DEF ReceiverFails, TypeOK, InHand
    <3> QED
      BY <1>4, <2>1, <2>3, <3>1 DEF ReceiverFails, TypeOK, fsVars, guardVars, chainVars
  <2>4. CASE rx[n] = "ack" /\ acked' = [acked EXCEPT ![n] = acked[n] + 1]
    <3>1. acked[n] < Len(log)
      BY <2>4, IncomingType
    <3>2. \A m \in Node \ {n} : rx'[m] = rx[m]
      BY <1>4 DEF ReceiverFails, EndSession, TypeOK
    <3>3. /\ acked' \in [Node -> Nat]
          /\ \A m \in Node : acked'[m] <= Len(log')
          /\ \A m \in Node : rx'[m] \notin {"fetch", "returned"} => InHand(m)'
      BY <1>4, <2>2, <2>4, <3>1, <3>2, AckedType DEF ReceiverFails
    <3> QED
      BY <1>4, <2>1, <3>3 DEF ReceiverFails, TypeOK, fsVars, guardVars, chainVars
  <2> QED
    BY <1>4, <2>3, <2>4 DEF ReceiverFails
<1> QED
  BY <1>1, <1>2, <1>3, <1>4

\* A receiver that fails to apply what it holds.
LEMMA ApplyFailsType ==
    ASSUME TypeOK, NEW n \in Node, ApplyFails(n)
    PROVE  TypeOK'
<1>1. EndSession(n, "rx") /\ UNCHANGED streamVars
  BY DEF ApplyFails
<1>2. /\ session' \in [Node -> {"running", "ended"}]
      /\ pub' \in [Node -> PubState]
      /\ rx' \in [Node -> RxState]
      /\ \A m \in Node : rx'[m] \in {rx[m], "returned"}
  BY <1>1, EndSessionType
<1>3. \A m \in Node : rx'[m] \notin {"fetch", "returned"} => InHand(m)'
  BY <1>1, <1>2 DEF TypeOK, InHand, streamVars
<1>4. /\ disk' \in [Node -> [File -> Data \cup {Absent}]]
      /\ pending' \in [Node -> SUBSET Change]
  <2>1. CASE UNCHANGED fsVars
    BY <2>1 DEF TypeOK, fsVars
  <2>2. CASE \E aside \in ConflictFile :
                /\ disk' = [disk EXCEPT ![n][aside] = Torn]
                /\ Observe(n, [kind |-> "modified", file |-> aside])
    <3>1. Torn \in Data \cup {Absent}
      BY DEF Data
    <3> QED BY <2>2, <3>1, PathsAreFiles, EffectType
  <2> QED BY <2>1, <2>2 DEF ApplyFails
<1> QED
  BY <1>1, <1>2, <1>3, <1>4
  DEF ApplyFails, TypeOK, guardVars, chainVars, streamVars

LEMMA TypeStep == TypeOK /\ [Next]_vars => TypeOK'
<1> SUFFICES ASSUME TypeOK, [Next]_vars PROVE TypeOK'
  OBVIOUS
<1>1. CASE Next
  <2>1. PICK n \in Node : \/ UserStep(n) \/ PublisherStep(n) \/ ReceiverStep(n)
                          \/ PublishFails(n) \/ ReceiverFails(n) \/ ApplyFails(n)
                          \/ AckLost(n)
    BY <1>1 DEF Next
  <2>2. ReceiverStep(n) =>
          \/ SkipOwn(n) \/ Ack(n) \/ Fetch(n)
          \/ Reconcile(n) \/ ApplyConflict(n) \/ Truncate(n) \/ ApplyWrite(n)
          \/ MarkApplied(n) \/ ApplyRemove(n) \/ MarkRemoved(n)
          \/ ApplyRename(n) \/ MarkRenamed(n)
    BY DEF ReceiverStep
  <2> QED
    BY <2>1, <2>2, UserType, PublisherType, DeliveryType, FetchType,
       WriteHandlerType, RemoveHandlerType, RenameHandlerType, ApplyFailsType
<1>2. CASE UNCHANGED vars
  BY <1>2 DEF vars, fsVars, guardVars, chainVars, streamVars, budgets, TypeOK, InHand
<1> QED
  BY <1>1, <1>2

\* Every variable keeps its type, the acknowledged prefix stays within the
\* stream, and a receiver at work holds an event of the stream whose Op its step
\* belongs to: no interleaving sends applyEvent past the end of the stream or
\* mixes up the handlers.
THEOREM TypeCorrect == Spec => []TypeOK
<1>1. Init => TypeOK
  BY InitType
<1>2. TypeOK /\ [Next]_vars => TypeOK'
  BY TypeStep
<1> QED
  BY <1>1, <1>2, PTL DEF Spec

-----------------------------------------------------------------------------
(***************************************************************************)
(* Convergence of the calm session: users act only once the previous       *)
(* change has settled, every watcher correlates renames, no file comes     *)
(* with its directory, and no publish, fetch or acknowledgement fails.     *)
(*                                                                         *)
(* At most one change is then under way.  The session is at rest; or one   *)
(* node, whose tree is ahead of the other's by that change, is about to    *)
(* tell; or the change is the stream's last event, and the other node is   *)
(* somewhere between reading it and dropping its own watcher's echo.       *)
(***************************************************************************)

\* A session connects two nodes.
TwoNodes == \A n \in Node : \A m, p \in Node \ {n} : m = p

\* n's watcher and publisher have nothing in hand, its guard no entry, its
\* receiver nothing to read; or exactly the last event of the stream.
Silent(n) == pending[n] = {} /\ pub[n] = Idle
Unmarked(n) == \A f \in File : echo[n][f] = NoMark /\ renamed[n][f] = NoMark
UpToDate(n) == rx[n] = "fetch" /\ acked[n] = Len(log)
LastIsNext(n) == acked[n] + 1 = Len(log)

SameTree(m, n) == \A f \in File : disk[m][f] = disk[n][f]
SameVersions(m, n) == \A f \in File : versions[m][f] = versions[n][f]
\* n opens what m seals next.
ChainLevel(m, n) == enc => sendSeq[m] = recvSeq[n]

\* n's tree is a's, as it was before the change c.
Behind(n, a, c) ==
    /\ c.kind = "removed" => disk[a][c.file] = Absent /\ disk[n][c.file] # Absent
    /\ c.kind = "renamed" => /\ c.old # c.file /\ disk[n][c.old] # Absent
                             /\ disk[a][c.file] = disk[n][c.old] /\ disk[a][c.old] = Absent
    /\ \A f \in File : f # c.file /\ (c.kind = "renamed" => f # c.old)
                          => disk[a][f] = disk[n][f]

\* a's event for the change c of its tree.
Carries(ev, a, c) ==
    /\ ev.origin = a /\ ev.file = c.file
    /\ \/ c.kind = "modified" /\ ev.op = "write" /\ ev.data = disk[a][c.file]
       \/ c.kind = "removed" /\ ev.op = "remove"
       \/ c.kind = "renamed" /\ ev.op = "rename" /\ ev.old = c.old

\* a's event is the one write, and the one seal, that n does not know of yet.
VersionIsNew(n, a, ev) ==
    IF ev.op = "write"
    THEN /\ ev.version = Bumped(versions[n][ev.file], a)
         /\ \A f \in File :
               versions[a][f] = IF f = ev.file THEN ev.version ELSE versions[n][f]
    ELSE SameVersions(a, n)
SealIsNew(n, a, ev) ==
    IF ev.op = "write"
    THEN enc => ev.seq = recvSeq[n] /\ sendSeq[a] = recvSeq[n] + 1
    ELSE ChainLevel(a, n)

\* The change c is on its way through n's watcher and publisher.
Reports(n, c) ==
    \/ pending[n] = {c} /\ pub[n] = Idle
    \/ pending[n] = {} /\ pub[n] = [at |-> "took", change |-> c]
    \/ /\ pending[n] = {} /\ c.kind = "modified"
       /\ pub[n] = [at |-> "hashed", file |-> c.file, data |-> disk[n][c.file]]
Bumps(n, c) ==
    /\ pending[n] = {} /\ c.kind = "modified"
    /\ pub[n] = [at |-> "bump", file |-> c.file, data |-> disk[n][c.file]]

AtRest ==
    /\ \A n \in Node : Silent(n) /\ Unmarked(n) /\ UpToDate(n)
    /\ \A m, n \in Node : m # n => SameTree(m, n) /\ SameVersions(m, n) /\ ChainLevel(m, n)
    /\ Len(log) <= edits

\* A user of a has made the change c, and nobody else knows.
Leads(a, c) ==
    /\ \A n \in Node : Unmarked(n) /\ UpToDate(n)
    /\ \A n \in Node \ {a} : Silent(n) /\ Behind(n, a, c) /\ ChainLevel(n, a)
    /\ c.kind = "modified" => disk[a][c.file] # Absent
    /\ Len(log) < edits
Telling(a, c) ==
    /\ Leads(a, c)
    /\ Reports(a, c) \/ Bumps(a, c)
    /\ \A n \in Node \ {a} : SameVersions(a, n) /\ ChainLevel(a, n)
Sending(a, c, ev) ==
    /\ Leads(a, c)
    /\ pending[a] = {} /\ pub[a] = [at |-> "publish", event |-> ev]
    /\ Carries(ev, a, c)
    /\ \A n \in Node \ {a} : VersionIsNew(n, a, ev) /\ SealIsNew(n, a, ev)

\* n's guard holds the mark of the change c, and no other.
MarkedFor(n, c) ==
    \A f \in File :
        /\ echo[n][f] = IF f # c.file \/ c.kind = "renamed" THEN NoMark
                        ELSE IF c.kind = "removed" THEN RemovedMark ELSE disk[n][f]
        /\ renamed[n][f] = IF f = c.file /\ c.kind = "renamed" THEN c.old ELSE NoMark

StartOf(kind) == IF kind = "modified" THEN "apply"
                 ELSE IF kind = "removed" THEN "remove" ELSE "rename"
MarkOf(kind) == IF kind = "modified" THEN "markApplied"
                ELSE IF kind = "removed" THEN "markRemoved" ELSE "markRenamed"

\* n has yet to fetch the event, to store its version, to touch its disk, to write
\* what it truncated, to mark what it did, to drop the echo of it.
Waits(n, a, c, ev) ==
    /\ rx[n] = "fetch" /\ LastIsNext(n) /\ Silent(n) /\ Unmarked(n)
    /\ Behind(n, a, c) /\ VersionIsNew(n, a, ev) /\ SealIsNew(n, a, ev)
Unstored(n, a, c, ev) ==
    /\ rx[n] = "reconcile" /\ LastIsNext(n) /\ Silent(n) /\ Unmarked(n)
    /\ c.kind = "modified" /\ Behind(n, a, c) /\ VersionIsNew(n, a, ev)
Starts(n, a, c) ==
    /\ rx[n] = StartOf(c.kind) /\ LastIsNext(n) /\ Silent(n) /\ Unmarked(n)
    /\ Behind(n, a, c) /\ SameVersions(a, n)
Halfway(n, a, c) ==
    /\ rx[n] = "write" /\ LastIsNext(n) /\ c.kind = "modified"
    /\ pending[n] = {c} /\ pub[n] = Idle /\ Unmarked(n) /\ SameVersions(a, n)
    /\ \A f \in File : f # c.file => disk[a][f] = disk[n][f]
Finishes(n, a, c) ==
    /\ rx[n] = MarkOf(c.kind) /\ LastIsNext(n)
    /\ pending[n] = {c} /\ pub[n] = Idle /\ Unmarked(n)
    /\ SameVersions(a, n) /\ SameTree(a, n)
Echoes(n, a, c) ==
    /\ \/ rx[n] = "ack" /\ LastIsNext(n)
       \/ UpToDate(n)
    /\ SameVersions(a, n) /\ SameTree(a, n)
    /\ \/ Reports(n, c) /\ MarkedFor(n, c)
       \/ Silent(n) /\ Unmarked(n)
Hears(n, a, c, ev) ==
    \/ Waits(n, a, c, ev)
    \/ /\ ChainLevel(a, n)
       /\ \/ Unstored(n, a, c, ev) \/ Starts(n, a, c) \/ Halfway(n, a, c)
          \/ Finishes(n, a, c) \/ Echoes(n, a, c)
Heard(a, c, ev) ==
    /\ Len(log) > 0 /\ log[Len(log)] = ev /\ Carries(ev, a, c)
    /\ c.kind = "modified" => disk[a][c.file] # Absent
    /\ Silent(a) /\ Unmarked(a) /\ rx[a] = "fetch" /\ (UpToDate(a) \/ LastIsNext(a))
    /\ \A n \in Node \ {a} : Hears(n, a, c, ev) /\ ChainLevel(n, a)
    /\ Len(log) <= edits

OneChange ==
    \/ AtRest
    \/ \E a \in Node, c \in Change : Telling(a, c)
    \/ \E a \in Node, c \in Change, ev \in Event : Sending(a, c, ev)
    \/ \E a \in Node, c \in Change, ev \in Event : Heard(a, c, ev)
CalmInv == TypeOK /\ (\A n \in Node : session[n] = "running") /\ OneChange

LEMMA ChangeShape ==
    ASSUME NEW c \in Change
    PROVE  /\ c.kind \in {"modified", "removed", "renamed"}
           /\ c.kind # "renamed" => c = [kind |-> c.kind, file |-> c.file]
           /\ c.kind = "renamed" => c = [kind |-> "renamed", file |-> c.file, old |-> c.old]
BY DEF Change

\* What the debounce table of a node that has nothing else to report becomes.
LEMMA ObservedAlone ==
    ASSUME TypeOK, NEW n \in Node, session[n] = "running", NEW c,
           Observe(n, c), pending[n] \in {{}, {c}}
    PROVE  /\ pending'[n] = {c}
           /\ \A m \in Node \ {n} : pending'[m] = pending[m]
<1>1. pending \in [Node -> SUBSET Change] /\ pending' = [pending EXCEPT ![n] = Scheduled(@, c)]
  BY DEF TypeOK, Observe
<1>2. Scheduled({}, c) = {c} /\ Scheduled({c}, c) = {c}
  BY DEF Scheduled, SameKey
<1> QED BY <1>1, <1>2

LEMMA SilentStays ==
    ASSUME NEW n \in Node, Silent(n)
    PROVE  ~PublisherStep(n)
BY DEF Silent, Idle, PublisherStep, Fire, ReadFile, IsEcho, Bump, IsEchoRemove,
   IsEchoRename, Publish, Took

LEMMA UpToDateStays ==
    ASSUME TypeOK, NEW n \in Node, UpToDate(n)
    PROVE  ~ReceiverStep(n)
<1>1. acked[n] \in Nat /\ Len(log) \in Nat
  BY DEF TypeOK
<1> QED BY <1>1 DEF UpToDate, ReceiverStep, SkipOwn, Fetch, Reconcile, ApplyConflict,
     Truncate, ApplyWrite, MarkApplied, ApplyRemove, MarkRemoved, ApplyRename,
     MarkRenamed, Ack

LEMMA NothingFails ==
    ASSUME TypeOK, MaxFailures = 0, NEW n \in Node
    PROVE  ~PublishFails(n) /\ ~ReceiverFails(n) /\ ~ApplyFails(n)
<1>1. failures \in Nat
  BY DEF TypeOK
<1> QED BY <1>1 DEF PublishFails, ReceiverFails, ApplyFails

LEMMA NoAckIsLost ==
    ASSUME TypeOK, MaxLostAcks = 0, NEW n \in Node
    PROVE  ~AckLost(n)
<1>1. lostAcks \in Nat
  BY DEF TypeOK
<1> QED BY <1>1 DEF AckLost

-----------------------------------------------------------------------------
\* From rest to the stream.

LEMMA BeginsToTell ==
    ASSUME TypeOK, AtRest, NEW n \in Node, NEW c \in Change, Acts(n),
           pending'[n] = {c}, \A m \in Node \ {n} : pending'[m] = pending[m],
           \A m \in Node \ {n} : Behind(m, n, c)',
           c.kind = "modified" => disk'[n][c.file] # Absent
    PROVE  Telling(n, c)'
<1>1. /\ \A m \in Node : Silent(m) /\ Unmarked(m) /\ UpToDate(m)
      /\ \A m, k \in Node : m # k => SameVersions(m, k) /\ ChainLevel(m, k)
      /\ Len(log) <= edits /\ Len(log) \in Nat /\ edits \in Nat
  BY DEF AtRest, TypeOK
<1>2. UNCHANGED <<pub, rx, versions, echo, renamed, enc, sendSeq, recvSeq, log, acked>>
      /\ edits' = edits + 1
  BY DEF Acts, guardVars, chainVars, streamVars
<1>3. \A m \in Node : Unmarked(m)' /\ UpToDate(m)'
  BY <1>1, <1>2 DEF Unmarked, UpToDate
<1>4. \A m \in Node \ {n} : Silent(m)' /\ SameVersions(n, m)' /\ ChainLevel(n, m)'
                            /\ ChainLevel(m, n)'
  BY <1>1, <1>2 DEF Silent, SameVersions, ChainLevel
<1>5. Len(log') < edits'
  BY <1>1, <1>2
<1>6. Reports(n, c)'
  BY <1>1, <1>2 DEF Silent, Reports
<1> QED BY <1>3, <1>4, <1>5, <1>6 DEF Telling, Leads

LEMMA UserTells ==
    ASSUME TypeOK, AtRest, NEW n \in Node, session[n] = "running", n \in Renamer,
           UserStep(n)
    PROVE  \E c \in Change : Telling(n, c)'
<1>0. /\ disk \in [Node -> [File -> Data \cup {Absent}]] /\ Path \subseteq File
      /\ pending[n] = {} /\ \A m \in Node \ {n} : SameTree(n, m)
  BY PathsAreFiles DEF TypeOK, AtRest, Silent
<1>1. ASSUME NEW f \in Path, NEW d \in Content, UserWrite(n, f, d)
      PROVE  \E c \in Change : Telling(n, c)'
  <2>1. PICK c \in Change : c = [kind |-> "modified", file |-> f]
    BY <1>0 DEF Change
  <2>2. Acts(n) /\ Observe(n, c) /\ disk' = [disk EXCEPT ![n][f] = d]
    BY <1>1, <2>1 DEF UserWrite
  <2>3. pending'[n] = {c} /\ \A m \in Node \ {n} : pending'[m] = pending[m]
    BY <1>0, <2>2, ObservedAlone
  <2>4. /\ disk'[n][f] = d /\ \A g \in File : g # f => disk'[n][g] = disk[n][g]
        /\ \A m \in Node \ {n} : disk'[m] = disk[m]
    BY <1>0, <2>2
  <2>5. d # Absent
    BY ConstantsOK
  <2>6. \A m \in Node \ {n} : Behind(m, n, c)'
    BY <1>0, <2>1, <2>4, <2>5 DEF Behind, SameTree
  <2> QED BY <2>1, <2>2, <2>3, <2>4, <2>5, <2>6, BeginsToTell
<1>2. ASSUME NEW f \in Path, UserRemove(n, f)
      PROVE  \E c \in Change : Telling(n, c)'
  <2>1. PICK c \in Change : c = [kind |-> "removed", file |-> f]
    BY <1>0 DEF Change
  <2>2. /\ Acts(n) /\ Observe(n, c) /\ disk' = [disk EXCEPT ![n][f] = Absent]
        /\ disk[n][f] # Absent
    BY <1>2, <2>1 DEF UserRemove
  <2>3. pending'[n] = {c} /\ \A m \in Node \ {n} : pending'[m] = pending[m]
    BY <1>0, <2>2, ObservedAlone
  <2>4. /\ disk'[n][f] = Absent /\ \A g \in File : g # f => disk'[n][g] = disk[n][g]
        /\ \A m \in Node \ {n} : disk'[m] = disk[m]
    BY <1>0, <2>2
  <2>5. \A m \in Node \ {n} : Behind(m, n, c)'
    BY <1>0, <2>1, <2>2, <2>4 DEF Behind, SameTree
  <2> QED BY <2>1, <2>2, <2>3, <2>5, BeginsToTell
<1>3. ASSUME NEW old \in Path, NEW new \in Path, UserRename(n, old, new)
      PROVE  \E c \in Change : Telling(n, c)'
  <2>1. PICK c \in Change : c = [kind |-> "renamed", file |-> new, old |-> old]
    BY <1>0 DEF Change
  <2>2. /\ Acts(n) /\ Observe(n, c)
        /\ disk' = [disk EXCEPT ![n][new] = disk[n][old], ![n][old] = Absent]
        /\ disk[n][old] # Absent /\ old # new
    BY <1>3, <2>1 DEF UserRename, ObserveMove
  <2>3. pending'[n] = {c} /\ \A m \in Node \ {n} : pending'[m] = pending[m]
    BY <1>0, <2>2, ObservedAlone
  <2>4. /\ disk'[n][old] = Absent /\ disk'[n][new] = disk[n][old]
        /\ \A g \in File : g # old /\ g # new => disk'[n][g] = disk[n][g]
        /\ \A m \in Node \ {n} : disk'[m] = disk[m]
    BY <1>0, <2>2
  <2>5. \A m \in Node \ {n} : Behind(m, n, c)'
    BY <1>0, <2>1, <2>2, <2>4 DEF Behind, SameTree
  <2> QED BY <2>1, <2>2, <2>3, <2>5, BeginsToTell
<1> QED BY <1>1, <1>2, <1>3 DEF UserStep

\* What a publisher with one change on its way does next.
LEMMA PublisherMoves ==
    ASSUME NEW n \in Node, NEW c \in Change, Reports(n, c) \/ Bumps(n, c), PublisherStep(n)
    PROVE  \/ pending[n] = {c} /\ pub[n] = Idle /\ Fire(n, c)
           \/ /\ pending[n] = {} /\ pub[n] = [at |-> "took", change |-> c]
              /\ \/ c.kind = "modified" /\ ReadFile(n)
                 \/ c.kind = "removed" /\ IsEchoRemove(n)
                 \/ c.kind = "renamed" /\ IsEchoRename(n)
           \/ /\ pending[n] = {} /\ c.kind = "modified" /\ IsEcho(n)
              /\ pub[n] = [at |-> "hashed", file |-> c.file, data |-> disk[n][c.file]]
           \/ Bumps(n, c) /\ Bump(n)
<1>1. CASE pending[n] = {c} /\ pub[n] = Idle
  BY <1>1 DEF Idle, PublisherStep, ReadFile, IsEcho, Bump, IsEchoRemove, IsEchoRename,
     Publish, Took
<1>2. CASE pending[n] = {} /\ pub[n] = [at |-> "took", change |-> c]
  BY <1>2 DEF PublisherStep, ReadFile, IsEcho, Bump, IsEchoRemove, IsEchoRename,
     Publish, Took
<1>3. CASE /\ pending[n] = {} /\ c.kind = "modified"
           /\ pub[n] = [at |-> "hashed", file |-> c.file, data |-> disk[n][c.file]]
  BY <1>3 DEF PublisherStep, ReadFile, IsEcho, Bump, IsEchoRemove, IsEchoRename,
     Publish, Took
<1>4. CASE Bumps(n, c)
  BY <1>4 DEF Bumps, PublisherStep, ReadFile, IsEcho, Bump, IsEchoRemove, IsEchoRename,
     Publish, Took
<1> QED BY <1>1, <1>2, <1>3, <1>4 DEF Reports

\* A step of the teller's publisher that stores no version.
LEMMA StillLeads ==
    ASSUME TypeOK, NEW a \in Node, NEW c \in Change, Leads(a, c),
           UNCHANGED <<disk, rx, echo, renamed, enc, recvSeq, log, acked, edits>>,
           \A n \in Node \ {a} : /\ pending'[n] = pending[n] /\ pub'[n] = pub[n]
                                 /\ sendSeq'[n] = sendSeq[n]
    PROVE  Leads(a, c)'
BY DEF Leads, Unmarked, UpToDate, Silent, Behind, ChainLevel

LEMMA TellsOn ==
    ASSUME TypeOK, NEW a \in Node, NEW c \in Change, Telling(a, c), PublisherStep(a)
    PROVE  \/ Telling(a, c)'
           \/ \E ev \in Event : Sending(a, c, ev)'
<1>0. /\ pub \in [Node -> PubState] /\ pending \in [Node -> SUBSET Change]
      /\ c.file \in File /\ (c.kind = "renamed" => c.old \in File)
  BY ChangeFields DEF TypeOK
<1>1. /\ Leads(a, c)
      /\ \A f \in File : echo[a][f] = NoMark /\ renamed[a][f] = NoMark
      /\ \A n \in Node \ {a} : SameVersions(a, n) /\ ChainLevel(a, n)
      /\ c.kind = "modified" => disk[a][c.file] # Absent
  BY DEF Telling, Leads, Unmarked
<1>2. ASSUME UNCHANGED <<disk, rx, versions, echo, renamed, enc, sendSeq, recvSeq, log,
                         acked, edits>>,
             \A n \in Node \ {a} : pending'[n] = pending[n] /\ pub'[n] = pub[n]
      PROVE  /\ Leads(a, c)'
             /\ \A n \in Node \ {a} : SameVersions(a, n)' /\ ChainLevel(a, n)'
  <2>1. Leads(a, c)'
    BY <1>1, <1>2, StillLeads
  <2> QED BY <1>1, <1>2, <2>1 DEF SameVersions, ChainLevel
<1>3. ASSUME NEW ev \in Event, ev.op # "write", Carries(ev, a, c),
             UNCHANGED <<disk, rx, versions, echo, renamed, enc, sendSeq, recvSeq, log,
                         acked, edits, pending>>,
             pending[a] = {}, pub' = [pub EXCEPT ![a] = [at |-> "publish", event |-> ev]]
      PROVE  Sending(a, c, ev)'
  <2>1. /\ pub'[a] = [at |-> "publish", event |-> ev] /\ pending'[a] = {}
        /\ \A n \in Node \ {a} : pending'[n] = pending[n] /\ pub'[n] = pub[n]
    BY <1>0, <1>3
  <2>2. /\ Leads(a, c)'
        /\ \A n \in Node \ {a} : SameVersions(a, n)' /\ ChainLevel(a, n)'
    BY <1>2, <1>3, <2>1
  <2>3. Carries(ev, a, c)'
    BY <1>3 DEF Carries
  <2> QED BY <1>3, <2>1, <2>2, <2>3 DEF Sending, VersionIsNew, SealIsNew
<1>4. CASE pending[a] = {c} /\ pub[a] = Idle /\ Fire(a, c)
  <2>1. /\ pending'[a] = {} /\ pub'[a] = [at |-> "took", change |-> c]
        /\ \A n \in Node \ {a} : pending'[n] = pending[n] /\ pub'[n] = pub[n]
    BY <1>0, <1>4 DEF Fire
  <2>2. UNCHANGED <<disk, rx, versions, echo, renamed, enc, sendSeq, recvSeq, log,
                    acked, edits>>
    BY <1>4 DEF Fire, guardVars, chainVars, streamVars, budgets
  <2> QED BY <1>2, <2>1, <2>2 DEF Telling, Reports
<1>5. CASE /\ pending[a] = {} /\ pub[a] = [at |-> "took", change |-> c]
           /\ c.kind = "modified" /\ ReadFile(a)
  <2>1. /\ pub'[a] = [at |-> "hashed", file |-> c.file, data |-> disk[a][c.file]]
        /\ \A n \in Node \ {a} : pub'[n] = pub[n]
    BY <1>0, <1>1, <1>5 DEF ReadFile
  <2>2. UNCHANGED <<disk, rx, versions, echo, renamed, enc, sendSeq, recvSeq, log,
                    acked, edits, pending>>
    BY <1>5 DEF ReadFile, fsVars, guardVars, chainVars, streamVars, budgets
  <2> QED BY <1>2, <1>5, <2>1, <2>2 DEF Telling, Reports
<1>6. CASE /\ pending[a] = {} /\ pub[a] = [at |-> "took", change |-> c]
           /\ c.kind = "removed" /\ IsEchoRemove(a)
  <2>1. PICK ev \in Event : ev = [op |-> "remove", origin |-> a, file |-> c.file]
    BY <1>0 DEF Event, RemoveEvent
  <2>2. ~Matches(a, c.file, RemovedMark)
    BY <1>0, <1>1, ConstantsOK DEF Matches
  <2>3. /\ pub' = [pub EXCEPT ![a] = [at |-> "publish", event |-> ev]]
        /\ UNCHANGED <<disk, rx, versions, echo, renamed, enc, sendSeq, recvSeq, log,
                       acked, edits, pending>>
    BY <1>6, <2>1, <2>2 DEF IsEchoRemove, fsVars, chainVars, streamVars, budgets
  <2>4. ev.op # "write" /\ Carries(ev, a, c)
    BY <1>6, <2>1 DEF Carries
  <2> QED BY <1>3, <1>6, <2>3, <2>4
<1>7. CASE /\ pending[a] = {} /\ pub[a] = [at |-> "took", change |-> c]
           /\ c.kind = "renamed" /\ IsEchoRename(a)
  <2>1. PICK ev \in Event : ev = [op |-> "rename", origin |-> a, file |-> c.file, old |-> c.old]
    BY <1>0, <1>7 DEF Event, RenameEvent
  <2>2. NoMark \notin File
    BY PathsAreNoMarks DEF File, ConflictFile
  <2>3. renamed[a][c.file] # c.old
    BY <1>0, <1>1, <1>7, <2>2
  <2>4. /\ pub' = [pub EXCEPT ![a] = [at |-> "publish", event |-> ev]]
        /\ UNCHANGED <<disk, rx, versions, echo, renamed, enc, sendSeq, recvSeq, log,
                       acked, edits, pending>>
    BY <1>7, <2>1, <2>3 DEF IsEchoRename, fsVars, chainVars, streamVars, budgets
  <2>5. ev.op # "write" /\ Carries(ev, a, c)
    BY <1>7, <2>1 DEF Carries
  <2> QED BY <1>3, <1>7, <2>4, <2>5
<1>8. CASE /\ pending[a] = {} /\ c.kind = "modified" /\ IsEcho(a)
           /\ pub[a] = [at |-> "hashed", file |-> c.file, data |-> disk[a][c.file]]
  <2>1. pub[a].data \in Data /\ pub[a].data = disk[a][c.file] /\ pub[a].file = c.file
    BY <1>0, <1>8, PubFields
  <2>2. ~Matches(a, pub[a].file, pub[a].data)
    BY <1>0, <1>1, <2>1, ConstantsOK DEF Matches, Data
  <2>3. pub' = [pub EXCEPT ![a] = [at |-> "bump", file |-> c.file, data |-> disk[a][c.file]]]
    BY <1>8, <2>1, <2>2 DEF IsEcho
  <2>4. UNCHANGED <<disk, rx, versions, echo, renamed, enc, sendSeq, recvSeq, log,
                    acked, edits, pending>>
    BY <1>8, <2>2 DEF IsEcho, fsVars, chainVars, streamVars, budgets
  <2>5. /\ pub'[a] = [at |-> "bump", file |-> c.file, data |-> disk[a][c.file]]
        /\ \A n \in Node \ {a} : pub'[n] = pub[n]
    BY <1>0, <2>3
  <2> QED BY <1>2, <1>8, <2>4, <2>5 DEF Telling, Bumps
<1>9. CASE Bumps(a, c) /\ Bump(a)
  <2>0. /\ pub[a].file = c.file /\ pub[a].data = disk[a][c.file] /\ pub[a].data \in Data
        /\ c.kind = "modified" /\ pending[a] = {}
    BY <1>0, <1>9, PubFields DEF Bumps
  <2>1. /\ versions \in [Node -> [File -> Vector]] /\ sendSeq \in [Node -> Nat]
        /\ recvSeq \in [Node -> Nat]
    BY DEF TypeOK
  <2>2. PICK v \in Vector : v = Bumped(versions[a][c.file], a)
    <3>1. versions[a][c.file] \in Vector
      BY <1>0, <2>1
    <3> QED BY <3>1, VectorOps
  <2>3. PICK ev \in Event : ev = [op |-> "write", origin |-> a, file |-> c.file,
                                  data |-> disk[a][c.file], version |-> v, seq |-> sendSeq[a]]
    BY <1>0, <2>0, <2>1, <2>2 DEF Event, WriteEvent
  <2>4. /\ versions' = [versions EXCEPT ![a][c.file] = v]
        /\ pub' = [pub EXCEPT ![a] = [at |-> "publish", event |-> ev]]
        /\ sendSeq' = IF enc THEN [sendSeq EXCEPT ![a] = @ + 1] ELSE sendSeq
        /\ UNCHANGED <<disk, rx, echo, renamed, enc, recvSeq, log, acked, edits, pending>>
    BY <1>9, <2>0, <2>2, <2>3
    DEF Bump, StoreVersion, AdvanceSendChain, fsVars, streamVars, budgets
  <2>5. /\ pub'[a] = [at |-> "publish", event |-> ev] /\ pending'[a] = {}
        /\ \A n \in Node \ {a} : /\ pending'[n] = pending[n] /\ pub'[n] = pub[n]
                                 /\ sendSeq'[n] = sendSeq[n]
        /\ enc => sendSeq'[a] = sendSeq[a] + 1
    BY <1>0, <2>0, <2>1, <2>4
  <2>6. Leads(a, c)'
    BY <1>1, <2>4, <2>5, StillLeads
  <2>7. Carries(ev, a, c)'
    BY <2>0, <2>3, <2>4 DEF Carries
  <2>8. ASSUME NEW n \in Node \ {a}
        PROVE  VersionIsNew(n, a, ev)' /\ SealIsNew(n, a, ev)'
    <3>1. /\ \A f \in File : versions'[a][f] = IF f = c.file THEN v ELSE versions[a][f]
          /\ versions'[n] = versions[n]
      BY <1>0, <2>1, <2>4
    <3>2. /\ \A f \in File : versions[a][f] = versions[n][f]
          /\ enc => sendSeq[a] = recvSeq[n]
      BY <1>1 DEF SameVersions, ChainLevel
    <3>3. ev.op = "write" /\ ev.file = c.file /\ ev.version = v /\ ev.seq = sendSeq[a]
      BY <2>3
    <3>4. v = Bumped(versions[n][c.file], a)
      BY <1>0, <2>2, <3>2
    <3>5. VersionIsNew(n, a, ev)'
      BY <3>1, <3>2, <3>3, <3>4 DEF VersionIsNew
    <3>6. SealIsNew(n, a, ev)'
      BY <2>4, <2>5, <3>2, <3>3 DEF SealIsNew
    <3> QED BY <3>5, <3>6
  <2> QED BY <2>5, <2>6, <2>7, <2>8 DEF Sending
<1>10. Reports(a, c) \/ Bumps(a, c)
  BY DEF Telling
<1> QED BY <1>4, <1>5, <1>6, <1>7, <1>8, <1>9, <1>10, PublisherMoves

LEMMA Sends ==
    ASSUME TypeOK, NEW a \in Node, NEW c \in Change, NEW ev \in Event, Sending(a, c, ev),
           PublisherStep(a)
    PROVE  Heard(a, c, ev)'
<1>1. pub[a] = [at |-> "publish", event |-> ev] /\ Leads(a, c) /\ pending[a] = {}
  BY DEF Sending
<1>2. Publish(a)
  BY <1>1 DEF PublisherStep, Fire, ReadFile, IsEcho, Bump, IsEchoRemove, IsEchoRename,
     Took, Idle
<1>3. /\ log \in Seq(Event) /\ Len(log) \in Nat /\ edits \in Nat
      /\ pub \in [Node -> PubState]
  BY DEF TypeOK
<1>4. /\ log' = Append(log, ev) /\ pub' = [pub EXCEPT ![a] = Idle]
      /\ UNCHANGED <<disk, pending, rx, versions, echo, renamed, enc, sendSeq, recvSeq,
                     acked, edits>>
  BY <1>1, <1>2 DEF Publish, fsVars, guardVars, chainVars, budgets
<1>5. Len(log') = Len(log) + 1 /\ log'[Len(log) + 1] = ev
  BY <1>3, <1>4
<1>6. Len(log') > 0 /\ log'[Len(log')] = ev /\ Len(log') <= edits'
  BY <1>1, <1>3, <1>4, <1>5 DEF Leads
<1>7. ASSUME NEW n \in Node
      PROVE  Unmarked(n)' /\ rx'[n] = "fetch" /\ LastIsNext(n)'
  BY <1>1, <1>4, <1>5 DEF Leads, Unmarked, UpToDate, LastIsNext
<1>8. Silent(a)'
  BY <1>1, <1>3, <1>4 DEF Silent
<1>9. Carries(ev, a, c)' /\ (c.kind = "modified" => disk'[a][c.file] # Absent)
  BY <1>1, <1>4 DEF Sending, Carries, Leads
<1>10. ASSUME NEW n \in Node \ {a}
       PROVE  Waits(n, a, c, ev)' /\ ChainLevel(n, a)'
  <2>1. /\ Silent(n) /\ Behind(n, a, c) /\ ChainLevel(n, a)
        /\ VersionIsNew(n, a, ev) /\ SealIsNew(n, a, ev)
    BY <1>1 DEF Sending, Leads
  <2>2. Silent(n)'
    BY <1>3, <1>4, <2>1 DEF Silent
  <2>3. Behind(n, a, c)' /\ ChainLevel(n, a)'
    BY <1>4, <2>1 DEF Behind, ChainLevel
  <2>4. VersionIsNew(n, a, ev)' /\ SealIsNew(n, a, ev)'
    BY <1>4, <2>1 DEF VersionIsNew, SealIsNew, SameVersions, ChainLevel
  <2> QED BY <1>7, <2>2, <2>3, <2>4 DEF Waits
<1> QED BY <1>6, <1>7, <1>8, <1>9, <1>10 DEF Heard, Hears

-----------------------------------------------------------------------------
\* From the stream back to rest.

\* While somebody tells, nobody else acts: something is under way.
LEMMA NotSettledYet ==
    ASSUME NEW a \in Node, NEW c \in Change
    PROVE  /\ Telling(a, c) => ~Settled
           /\ \A ev \in Event : Sending(a, c, ev) => ~Settled
BY DEF Telling, Sending, Reports, Bumps, Settled, SettledAt, Idle

LEMMA HeardByAll ==
    ASSUME TypeOK, TwoNodes, NEW a \in Node, NEW c \in Change, NEW ev \in Event,
           Heard(a, c, ev), Settled
    PROVE  AtRest
<1>1. \A n \in Node : SettledAt(n) /\ acked[n] \in Nat /\ Len(log) \in Nat
  <2>1. \A n \in Node : SettledAt(n)
    BY DEF Settled
  <2>2. \A n \in Node : acked[n] \in Nat /\ Len(log) \in Nat
    BY ReceiverStream
  <2> QED BY <2>1, <2>2
<1>2. ASSUME NEW n \in Node \ {a}
      PROVE  /\ Unmarked(n) /\ SameVersions(a, n) /\ SameTree(a, n)
             /\ ChainLevel(a, n) /\ ChainLevel(n, a)
  <2>1. Hears(n, a, c, ev) /\ ChainLevel(n, a)
    BY DEF Heard
  <2>2. ChainLevel(a, n) /\ Echoes(n, a, c)
    BY <1>1, <2>1 DEF SettledAt, Hears, Waits, Unstored, Starts, Halfway, Finishes,
       StartOf, MarkOf, LastIsNext
  <2>3. ~Reports(n, c)
    <3>1. pending[n] = {} /\ pub[n] = [at |-> "select"]
      BY <1>1 DEF SettledAt, Idle
    <3>2. pending[n] # {c}
      BY <3>1
    <3>3. pub[n].at = "select"
      BY <3>1
    <3> QED BY <3>2, <3>3 DEF Reports
  <2> QED BY <2>1, <2>2, <2>3 DEF Echoes
<1>3. Unmarked(a) /\ Len(log) <= edits
  BY DEF Heard
<1>4. \A n \in Node : Silent(n) /\ UpToDate(n) /\ Unmarked(n)
  BY <1>1, <1>2, <1>3 DEF SettledAt, Silent, UpToDate
<1>5. ASSUME NEW m \in Node, NEW n \in Node, m # n
      PROVE  SameTree(m, n) /\ SameVersions(m, n) /\ ChainLevel(m, n)
  <2>1. m = a \/ n = a
    BY <1>5 DEF TwoNodes
  <2> QED BY <1>2, <1>5, <2>1 DEF SameTree, SameVersions
<1> QED BY <1>3, <1>4, <1>5 DEF AtRest

\* A step that is n's alone.
OnlyAt(n) ==
    /\ UNCHANGED <<log, enc, sendSeq, edits>>
    /\ \A m \in Node \ {n} : /\ disk'[m] = disk[m] /\ pending'[m] = pending[m]
                             /\ pub'[m] = pub[m] /\ rx'[m] = rx[m]
                             /\ versions'[m] = versions[m] /\ echo'[m] = echo[m]
                             /\ renamed'[m] = renamed[m] /\ recvSeq'[m] = recvSeq[m]
                             /\ acked'[m] = acked[m]

LEMMA HearerMoves ==
    ASSUME TwoNodes, NEW a \in Node, NEW c \in Change, NEW ev \in Event,
           Heard(a, c, ev), NEW n \in Node \ {a}, OnlyAt(n), Hears(n, a, c, ev)'
    PROVE  Heard(a, c, ev)'
<1>1. /\ Len(log) > 0 /\ log[Len(log)] = ev /\ Carries(ev, a, c)
      /\ c.kind = "modified" => disk[a][c.file] # Absent
      /\ Silent(a) /\ Unmarked(a) /\ rx[a] = "fetch" /\ (UpToDate(a) \/ LastIsNext(a))
      /\ ChainLevel(n, a) /\ Len(log) <= edits
  BY DEF Heard
<1>2. /\ Silent(a)' /\ Unmarked(a)' /\ rx'[a] = "fetch" /\ (UpToDate(a)' \/ LastIsNext(a)')
      /\ Carries(ev, a, c)' /\ ChainLevel(n, a)'
  BY <1>1 DEF OnlyAt, Silent, Unmarked, UpToDate, LastIsNext, Carries, ChainLevel
<1>3. \A m \in Node \ {a} : m = n
  BY DEF TwoNodes
<1>4. /\ Len(log') > 0 /\ log'[Len(log')] = ev /\ Len(log') <= edits'
      /\ c.kind = "modified" => disk'[a][c.file] # Absent
  BY <1>1 DEF OnlyAt
<1> QED BY <1>2, <1>3, <1>4 DEF Heard

\* The author skips its own event.
LEMMA AuthorSkips ==
    ASSUME TypeOK, NEW a \in Node, NEW c \in Change, NEW ev \in Event,
           Heard(a, c, ev), ReceiverStep(a)
    PROVE  Heard(a, c, ev)' /\ session' = session
<1>1. /\ Len(log) > 0 /\ log[Len(log)] = ev /\ ev.origin = a /\ rx[a] = "fetch"
      /\ UpToDate(a) \/ LastIsNext(a)
  BY DEF Heard, Carries
<1>2. LastIsNext(a)
  BY <1>1, UpToDateStays
<1>3. acked \in [Node -> Nat] /\ Len(log) \in Nat
  BY DEF TypeOK
<1>4. Incoming(a) = ev
  BY <1>1, <1>2 DEF Incoming, LastIsNext
<1>5. SkipOwn(a)
  BY <1>1, <1>4 DEF ReceiverStep, Fetch, Reconcile, ApplyConflict, Truncate, ApplyWrite,
     MarkApplied, ApplyRemove, MarkRemoved, ApplyRename, MarkRenamed, Ack
<1>6. /\ acked' = [acked EXCEPT ![a] = @ + 1]
      /\ UNCHANGED <<disk, pending, session, pub, rx, versions, echo, renamed, enc, sendSeq,
                     recvSeq, log, edits>>
  BY <1>5 DEF SkipOwn, fsVars, guardVars, chainVars, budgets
<1>7. acked'[a] = Len(log) /\ \A n \in Node \ {a} : acked'[n] = acked[n]
  BY <1>2, <1>3, <1>6 DEF LastIsNext
<1>8. UpToDate(a)' /\ Silent(a)' /\ Unmarked(a)' /\ Carries(ev, a, c)'
  BY <1>1, <1>6, <1>7 DEF Heard, UpToDate, Silent, Unmarked, Carries
<1>9. ASSUME NEW n \in Node \ {a}
      PROVE  Hears(n, a, c, ev)' /\ ChainLevel(n, a)'
  <2>1. Hears(n, a, c, ev) /\ ChainLevel(n, a)
    BY DEF Heard
  <2>2. /\ Silent(n)' <=> Silent(n)
        /\ Unmarked(n)' <=> Unmarked(n)
        /\ LastIsNext(n)' <=> LastIsNext(n)
        /\ UpToDate(n)' <=> UpToDate(n)
        /\ Behind(n, a, c)' <=> Behind(n, a, c)
        /\ SameTree(a, n)' <=> SameTree(a, n)
        /\ SameVersions(a, n)' <=> SameVersions(a, n)
        /\ Reports(n, c)' <=> Reports(n, c)
        /\ MarkedFor(n, c)' <=> MarkedFor(n, c)
    BY <1>6, <1>7 DEF Silent, Unmarked, LastIsNext, UpToDate, Behind, SameTree,
       SameVersions, Reports, MarkedFor
  <2>3. /\ ChainLevel(a, n)' <=> ChainLevel(a, n)
        /\ ChainLevel(n, a)' <=> ChainLevel(n, a)
        /\ VersionIsNew(n, a, ev)' <=> VersionIsNew(n, a, ev)
        /\ SealIsNew(n, a, ev)' <=> SealIsNew(n, a, ev)
    BY <1>6 DEF ChainLevel, VersionIsNew, SealIsNew, SameVersions
  <2>4. rx'[n] = rx[n] /\ pending'[n] = pending[n] /\ pub'[n] = pub[n] /\ disk' = disk
    BY <1>6
  <2> QED BY <2>1, <2>2, <2>3, <2>4 DEF Hears, Waits, Unstored, Starts, Halfway, Finishes,
       Echoes
<1> QED BY <1>1, <1>6, <1>8, <1>9 DEF Heard

\* What a node that is neither acting nor telling holds of the event under way.
LEMMA HeardEvent ==
    ASSUME TypeOK, NEW a \in Node, NEW c \in Change, NEW ev \in Event,
           Heard(a, c, ev), NEW n \in Node, LastIsNext(n)
    PROVE  /\ acked[n] < Len(log) /\ Incoming(n) = ev /\ Carries(ev, a, c)
           /\ ev.file = c.file /\ ev.origin = a
<1>1. /\ log[Len(log)] = ev /\ Carries(ev, a, c) /\ acked[n] + 1 = Len(log)
  BY DEF Heard, LastIsNext
<1>2. acked[n] \in Nat /\ Len(log) \in Nat
  BY ReceiverStream
<1> QED BY <1>1, <1>2 DEF Incoming, Carries

\* The echo of the event is dropped: the mark is the one its report looks for.
LEMMA HearerPublishes ==
    ASSUME TypeOK, TwoNodes, FreshDir = {}, NEW a \in Node, NEW c \in Change,
           NEW ev \in Event, Heard(a, c, ev), NEW n \in Node \ {a}, PublisherStep(n)
    PROVE  Heard(a, c, ev)'
<1>0. /\ pub \in [Node -> PubState] /\ pending \in [Node -> SUBSET Change]
      /\ echo \in [Node -> [File -> Data \cup {NoMark, RemovedMark}]]
      /\ renamed \in [Node -> [File -> File \cup {NoMark}]]
      /\ c.file \in File /\ (c.kind = "renamed" => c.old \in File)
  BY ChangeFields DEF TypeOK
<1>1. ~Silent(n)
  BY SilentStays
<1>2. ~Halfway(n, a, c) /\ ~Finishes(n, a, c)
  <2>1. SUFFICES ASSUME \/ rx[n] = "write"
                        \/ rx[n] = MarkOf(c.kind),
                        LastIsNext(n), pending[n] = {c}, pub[n] = Idle
                 PROVE  FALSE
    BY DEF Halfway, Finishes
  <2>2. Applying(n, c.file)
    <3>1. Incoming(n).file = c.file
      BY <2>1, HeardEvent
    <3>2. rx[n] \in {"write", "markApplied", "markRemoved", "markRenamed"}
      BY <2>1 DEF MarkOf
    <3> QED BY <3>1, <3>2 DEF Applying, Incoming
  <2>3. Reports(n, c)
    BY <2>1 DEF Reports
  <2>4. ~Fire(n, c)
    BY <2>2 DEF Fire
  <2>5. pending[n] # {} /\ ~Bumps(n, c)
    BY <2>1 DEF Bumps
  <2> QED BY <2>3, <2>4, <2>5, PublisherMoves
<1>3. /\ Echoes(n, a, c) /\ ChainLevel(a, n)
  BY <1>1, <1>2 DEF Heard, Hears, Waits, Unstored, Starts
<1>4. /\ (rx[n] = "ack" /\ LastIsNext(n)) \/ UpToDate(n)
      /\ SameVersions(a, n) /\ SameTree(a, n) /\ Reports(n, c) /\ MarkedFor(n, c)
  BY <1>1, <1>3 DEF Echoes
<1>5. ASSUME UNCHANGED <<disk, rx, versions, enc, sendSeq, recvSeq, log, acked, edits>>,
             \A m \in Node \ {n} : /\ pending'[m] = pending[m] /\ pub'[m] = pub[m]
                                   /\ echo'[m] = echo[m] /\ renamed'[m] = renamed[m],
             \/ Reports(n, c)' /\ echo' = echo /\ renamed' = renamed
             \/ Silent(n)' /\ Unmarked(n)'
      PROVE  Heard(a, c, ev)'
  <2>1. OnlyAt(n)
    BY <1>5 DEF OnlyAt
  <2>2. ChainLevel(a, n)'
    BY <1>3, <1>5 DEF ChainLevel
  <2>3. (rx'[n] = "ack" /\ LastIsNext(n)') \/ UpToDate(n)'
    BY <1>4, <1>5 DEF LastIsNext, UpToDate
  <2>4. SameVersions(a, n)' /\ SameTree(a, n)'
    BY <1>4, <1>5 DEF SameVersions, SameTree
  <2>5. \/ Reports(n, c)' /\ MarkedFor(n, c)'
        \/ Silent(n)' /\ Unmarked(n)'
    <3>1. echo' = echo /\ renamed' = renamed => MarkedFor(n, c)'
      BY <1>4, <1>5 DEF MarkedFor
    <3> QED BY <1>5, <3>1
  <2>6. Hears(n, a, c, ev)'
    BY <2>2, <2>3, <2>4, <2>5 DEF Hears, Echoes
  <2> QED BY <2>1, <2>6, HearerMoves
<1>6. CASE pending[n] = {c} /\ pub[n] = Idle /\ Fire(n, c)
  <2>1. /\ pending'[n] = {} /\ pub'[n] = [at |-> "took", change |-> c]
        /\ \A m \in Node \ {n} : pending'[m] = pending[m] /\ pub'[m] = pub[m]
    BY <1>0, <1>6 DEF Fire
  <2>2. UNCHANGED <<disk, rx, versions, echo, renamed, enc, sendSeq, recvSeq, log,
                    acked, edits>>
    BY <1>6 DEF Fire, guardVars, chainVars, streamVars, budgets
  <2> QED BY <1>5, <2>1, <2>2 DEF Reports
<1>7. CASE /\ pending[n] = {} /\ pub[n] = [at |-> "took", change |-> c]
           /\ c.kind = "modified" /\ ReadFile(n)
  <2>1. disk[n][c.file] # Absent
    BY <1>0, <1>4, <1>7 DEF Heard, SameTree
  <2>2. /\ pub'[n] = [at |-> "hashed", file |-> c.file, data |-> disk[n][c.file]]
        /\ \A m \in Node \ {n} : pub'[m] = pub[m]
    BY <1>0, <1>7, <2>1 DEF ReadFile
  <2>3. UNCHANGED <<disk, rx, versions, echo, renamed, enc, sendSeq, recvSeq, log,
                    acked, edits, pending>>
    BY <1>7 DEF ReadFile, fsVars, guardVars, chainVars, streamVars, budgets
  <2> QED BY <1>5, <1>7, <2>2, <2>3 DEF Reports
<1>8. ASSUME c.kind # "renamed", pending[n] = {},
             echo' = [echo EXCEPT ![n][c.file] = NoMark], pub' = [pub EXCEPT ![n] = Idle],
             UNCHANGED <<disk, rx, versions, renamed, enc, sendSeq, recvSeq, log, acked,
                         edits, pending>>
      PROVE  Heard(a, c, ev)'
  <2>1. /\ \A f \in File : echo'[n][f] = IF f = c.file THEN NoMark ELSE echo[n][f]
        /\ \A m \in Node \ {n} : echo'[m] = echo[m]
    BY <1>0, <1>8
  <2>2. Unmarked(n)'
    BY <1>4, <1>8, <2>1 DEF MarkedFor, Unmarked
  <2>3. pub'[n] = Idle /\ \A m \in Node \ {n} : pub'[m] = pub[m]
    BY <1>0, <1>8
  <2> QED BY <1>5, <1>8, <2>1, <2>2, <2>3 DEF Silent
<1>9. CASE /\ pending[n] = {} /\ pub[n] = [at |-> "took", change |-> c]
           /\ c.kind = "removed" /\ IsEchoRemove(n)
  <2>1. Matches(n, c.file, RemovedMark)
    BY <1>0, <1>4, <1>9 DEF Matches, MarkedFor
  <2>2. /\ echo' = [echo EXCEPT ![n][c.file] = NoMark] /\ pub' = [pub EXCEPT ![n] = Idle]
        /\ UNCHANGED <<disk, rx, versions, renamed, enc, sendSeq, recvSeq, log, acked,
                       edits, pending>>
    BY <1>9, <2>1 DEF IsEchoRemove, Consume, fsVars, chainVars, streamVars, budgets
  <2> QED BY <1>8, <1>9, <2>2
<1>10. CASE /\ pending[n] = {} /\ pub[n] = [at |-> "took", change |-> c]
            /\ c.kind = "renamed" /\ IsEchoRename(n)
  <2>1. renamed[n][c.file] = c.old
    BY <1>0, <1>4, <1>10 DEF MarkedFor
  <2>2. /\ renamed' = [renamed EXCEPT ![n][c.file] = NoMark] /\ pub' = [pub EXCEPT ![n] = Idle]
        /\ UNCHANGED <<disk, rx, versions, echo, enc, sendSeq, recvSeq, log, acked,
                       edits, pending>>
    BY <1>10, <2>1 DEF IsEchoRename, fsVars, chainVars, streamVars, budgets
  <2>3. /\ \A f \in File : renamed'[n][f] = IF f = c.file THEN NoMark ELSE renamed[n][f]
        /\ \A m \in Node \ {n} : renamed'[m] = renamed[m]
    BY <1>0, <2>2
  <2>4. Unmarked(n)'
    BY <1>4, <1>10, <2>2, <2>3 DEF MarkedFor, Unmarked
  <2>5. pub'[n] = Idle /\ \A m \in Node \ {n} : pub'[m] = pub[m]
    BY <1>0, <2>2
  <2> QED BY <1>5, <1>10, <2>2, <2>3, <2>4, <2>5 DEF Silent
<1>11. CASE /\ pending[n] = {} /\ c.kind = "modified" /\ IsEcho(n)
            /\ pub[n] = [at |-> "hashed", file |-> c.file, data |-> disk[n][c.file]]
  <2>1. pub[n].file = c.file /\ pub[n].data = disk[n][c.file]
    BY <1>11
  <2>2. Matches(n, pub[n].file, pub[n].data)
    BY <1>0, <1>4, <1>11, <2>1 DEF Matches, MarkedFor
  <2>3. /\ echo' = [echo EXCEPT ![n][c.file] = NoMark] /\ pub' = [pub EXCEPT ![n] = Idle]
        /\ UNCHANGED <<disk, rx, versions, renamed, enc, sendSeq, recvSeq, log, acked,
                       edits, pending>>
    BY <1>11, <2>1, <2>2 DEF IsEcho, Consume, fsVars, chainVars, streamVars, budgets
  <2> QED BY <1>8, <1>11, <2>3
<1>12. ~Bumps(n, c)
  BY <1>4 DEF Reports, Bumps, Idle
<1> QED BY <1>4, <1>6, <1>7, <1>9, <1>10, <1>11, <1>12, PublisherMoves

\* Which steps a receiver can take, by where it is.
LEMMA ReceiverMoves ==
    ASSUME NEW n \in Node, ReceiverStep(n)
    PROVE  /\ rx[n] = "fetch" => SkipOwn(n) \/ Fetch(n)
           /\ rx[n] = "reconcile" => Reconcile(n)
           /\ rx[n] = "apply" => Truncate(n)
           /\ rx[n] = "write" => ApplyWrite(n)
           /\ rx[n] = "markApplied" => MarkApplied(n)
           /\ rx[n] = "remove" => ApplyRemove(n)
           /\ rx[n] = "markRemoved" => MarkRemoved(n)
           /\ rx[n] = "rename" => ApplyRename(n)
           /\ rx[n] = "markRenamed" => MarkRenamed(n)
           /\ rx[n] = "ack" => Ack(n)
BY DEF ReceiverStep, SkipOwn, Fetch, Reconcile, ApplyConflict, Truncate, ApplyWrite,
   MarkApplied, ApplyRemove, MarkRemoved, ApplyRename, MarkRenamed, Ack

LEMMA CalmTypes ==
    ASSUME TypeOK
    PROVE  /\ disk \in [Node -> [File -> Data \cup {Absent}]]
           /\ pending \in [Node -> SUBSET Change]
           /\ rx \in [Node -> RxState]
           /\ versions \in [Node -> [File -> Vector]]
           /\ echo \in [Node -> [File -> Data \cup {NoMark, RemovedMark}]]
           /\ renamed \in [Node -> [File -> File \cup {NoMark}]]
           /\ sendSeq \in [Node -> Nat] /\ recvSeq \in [Node -> Nat]
           /\ acked \in [Node -> Nat] /\ Len(log) \in Nat
BY DEF TypeOK

\* The receiver takes the event: a write opens, being its author's next seal.
LEMMA HearerFetches ==
    ASSUME TypeOK, NEW a \in Node, NEW c \in Change, NEW ev \in Event,
           Heard(a, c, ev), NEW n \in Node \ {a}, Waits(n, a, c, ev), ReceiverStep(n)
    PROVE  OnlyAt(n) /\ session' = session /\ Hears(n, a, c, ev)'
<1>1. /\ rx[n] = "fetch" /\ LastIsNext(n) /\ Silent(n) /\ Unmarked(n)
      /\ Behind(n, a, c) /\ VersionIsNew(n, a, ev) /\ SealIsNew(n, a, ev)
  BY DEF Waits
<1>2. Incoming(n) = ev /\ Carries(ev, a, c) /\ ev.origin = a
  BY <1>1, HeardEvent
<1>3. Fetch(n)
  BY <1>1, <1>2, ReceiverMoves DEF SkipOwn
<1>4. UNCHANGED <<disk, pending, versions, echo, renamed, enc, sendSeq, log, acked, edits>>
  BY <1>3 DEF Fetch, fsVars, guardVars, streamVars, budgets
<1>5. /\ Unmarked(n)' /\ LastIsNext(n)' /\ Behind(n, a, c)'
      /\ VersionIsNew(n, a, ev) => VersionIsNew(n, a, ev)'
      /\ SameVersions(a, n) => SameVersions(a, n)'
      /\ pub' = pub => Silent(n)'
  BY <1>1, <1>4 DEF Unmarked, LastIsNext, Behind, VersionIsNew, SameVersions, Silent
<1>6. ASSUME NEW step \in RxState, Advance(n, step), UNCHANGED <<session, pub>>,
             \A m \in Node \ {n} : recvSeq'[m] = recvSeq[m]
      PROVE  OnlyAt(n) /\ rx'[n] = step
  BY <1>4, <1>6, CalmTypes DEF Advance, OnlyAt
<1>7. CASE ev.op # "write"
  <2>1. Advance(n, ev.op) /\ UNCHANGED <<session, pub, recvSeq>>
    BY <1>2, <1>3, <1>7 DEF Fetch
  <2>2. ev.op = StartOf(c.kind) /\ ev.op \in RxState
    BY <1>2, <1>7 DEF Carries, StartOf, RxState
  <2>3. OnlyAt(n) /\ rx'[n] = StartOf(c.kind)
    BY <1>6, <2>1, <2>2
  <2>4. SameVersions(a, n) /\ ChainLevel(a, n)
    BY <1>1, <1>7 DEF VersionIsNew, SealIsNew
  <2>5. ChainLevel(a, n)'
    BY <1>4, <2>1, <2>4 DEF ChainLevel
  <2> QED BY <1>5, <2>1, <2>3, <2>4, <2>5 DEF Hears, Starts
<1>8. CASE ev.op = "write"
  <2>1. Opens(n, ev)
    BY <1>1, <1>8 DEF SealIsNew, Opens
  <2>2. /\ Advance(n, "reconcile") /\ UNCHANGED <<session, pub>>
        /\ recvSeq' = IF enc THEN [recvSeq EXCEPT ![n] = @ + 1] ELSE recvSeq
    BY <1>2, <1>3, <1>8, <2>1 DEF Fetch
  <2>3. /\ \A m \in Node \ {n} : recvSeq'[m] = recvSeq[m]
        /\ enc => recvSeq'[n] = recvSeq[n] + 1
    BY <2>2, CalmTypes
  <2>4. OnlyAt(n) /\ rx'[n] = "reconcile"
    BY <1>6, <2>2, <2>3 DEF RxState
  <2>5. ChainLevel(a, n)'
    BY <1>1, <1>4, <1>8, <2>3 DEF SealIsNew, ChainLevel
  <2>6. c.kind = "modified"
    BY <1>2, <1>8 DEF Carries
  <2> QED BY <1>1, <1>5, <2>2, <2>4, <2>5, <2>6 DEF Hears, Unstored
<1> QED BY <1>7, <1>8

\* Its version is new, so it is stored and applied, never put aside.
LEMMA HearerStores ==
    ASSUME TypeOK, NEW a \in Node, NEW c \in Change, NEW ev \in Event,
           Heard(a, c, ev), NEW n \in Node \ {a}, Unstored(n, a, c, ev),
           ChainLevel(a, n), ReceiverStep(n)
    PROVE  OnlyAt(n) /\ session' = session /\ Hears(n, a, c, ev)'
<1>1. /\ rx[n] = "reconcile" /\ LastIsNext(n) /\ Silent(n) /\ Unmarked(n)
      /\ c.kind = "modified" /\ Behind(n, a, c) /\ VersionIsNew(n, a, ev)
  BY DEF Unstored
<1>2. Incoming(n) = ev /\ Carries(ev, a, c) /\ ev.file \in File
  BY <1>1, HeardEvent, EventFields
<1>3. Reconcile(n)
  BY <1>1, ReceiverMoves
<1>4. PICK v \in Vector : v = versions[n][ev.file]
  BY <1>2, CalmTypes
<1>5. ev.op = "write" /\ ev.version = Bumped(v, a)
  BY <1>1, <1>2, <1>4 DEF Carries, VersionIsNew
<1>6. After(Bumped(v, a), v)
  BY DEF Vector, Bumped, After, KnowsMore
<1>7. /\ After(ev.version, v) /\ Reconciled(v, ev.version) = ev.version
      /\ ~Concurrent(ev.version, v) /\ ~Same(ev.version, v) /\ ~Before(ev.version, v)
  BY <1>5, <1>6 DEF Reconciled, After, Concurrent, Same, Before
<1>8. /\ versions' = [versions EXCEPT ![n][ev.file] = ev.version]
      /\ rx' = [rx EXCEPT ![n] = "apply"]
      /\ UNCHANGED <<disk, pending, session, pub, echo, renamed, enc, sendSeq, recvSeq,
                     log, acked, edits>>
  BY <1>2, <1>3, <1>4, <1>7
  DEF Reconcile, StoreVersion, Advance, fsVars, chainVars, streamVars, budgets
<1>9. /\ \A f \in File : versions'[n][f] = IF f = ev.file THEN ev.version ELSE versions[n][f]
      /\ \A m \in Node \ {n} : versions'[m] = versions[m] /\ rx'[m] = rx[m]
      /\ rx'[n] = "apply"
  BY <1>2, <1>8, CalmTypes
<1>10. SameVersions(a, n)'
  BY <1>1, <1>5, <1>9 DEF VersionIsNew, SameVersions
<1>11. /\ Silent(n)' /\ Unmarked(n)' /\ LastIsNext(n)' /\ Behind(n, a, c)'
       /\ ChainLevel(a, n)'
  BY <1>1, <1>8 DEF Silent, Unmarked, LastIsNext, Behind, ChainLevel
<1>12. OnlyAt(n)
  BY <1>8, <1>9 DEF OnlyAt
<1> QED BY <1>1, <1>8, <1>9, <1>10, <1>11, <1>12 DEF Hears, Starts, StartOf

\* It touches its disk, and its own watcher reports the change back.
LEMMA HearerTouches ==
    ASSUME TypeOK, NEW a \in Node, NEW c \in Change, NEW ev \in Event,
           Heard(a, c, ev), NEW n \in Node \ {a}, Starts(n, a, c), ChainLevel(a, n),
           session[n] = "running", n \in Renamer, ReceiverStep(n)
    PROVE  OnlyAt(n) /\ session' = session /\ Hears(n, a, c, ev)'
<1>1. /\ rx[n] = StartOf(c.kind) /\ LastIsNext(n) /\ pending[n] = {} /\ pub[n] = Idle
      /\ Unmarked(n) /\ Behind(n, a, c) /\ SameVersions(a, n)
  BY DEF Starts, Silent
<1>2. /\ Incoming(n) = ev /\ Carries(ev, a, c) /\ ev.file = c.file
      /\ c.file \in File /\ (c.kind = "renamed" => c.old \in File)
      /\ c.kind = "renamed" => ev.old = c.old
  BY <1>1, HeardEvent, ChangeFields DEF Carries
<1>3. ASSUME UNCHANGED <<session, pub, versions, echo, renamed, enc, sendSeq, recvSeq,
                         log, acked, edits>>
      PROVE  /\ pub'[n] = Idle /\ Unmarked(n)' /\ LastIsNext(n)' /\ SameVersions(a, n)'
             /\ ChainLevel(a, n)'
  BY <1>1, <1>3 DEF Unmarked, LastIsNext, SameVersions, ChainLevel
<1>4. ASSUME UNCHANGED <<session, pub, versions, echo, renamed, enc, sendSeq, recvSeq,
                         log, acked, edits>>,
             NEW step \in RxState, Advance(n, step),
             \A m \in Node \ {n} : disk'[m] = disk[m] /\ pending'[m] = pending[m]
      PROVE  OnlyAt(n) /\ rx'[n] = step
  BY <1>4, CalmTypes DEF Advance, OnlyAt
<1>5. CASE c.kind = "modified"
  <2>1. c = [kind |-> "modified", file |-> c.file]
    BY <1>5, ChangeShape
  <2>2. Truncate(n)
    BY <1>1, <1>5, ReceiverMoves DEF StartOf
  <2>3. /\ disk' = [disk EXCEPT ![n][c.file] = Torn] /\ Observe(n, c) /\ Advance(n, "write")
        /\ UNCHANGED <<session, pub, versions, echo, renamed, enc, sendSeq, recvSeq,
                       log, acked, edits>>
    BY <1>2, <2>1, <2>2 DEF Truncate, guardVars, chainVars, streamVars, budgets
  <2>4. pending'[n] = {c} /\ \A m \in Node \ {n} : pending'[m] = pending[m]
    BY <1>1, <2>3, ObservedAlone
  <2>5. /\ \A m \in Node \ {n} : disk'[m] = disk[m]
        /\ \A f \in File : f # c.file => disk'[n][f] = disk[n][f]
    BY <1>2, <2>3, CalmTypes
  <2>6. OnlyAt(n) /\ rx'[n] = "write"
    BY <1>4, <2>3, <2>4, <2>5 DEF RxState
  <2>7. \A f \in File : f # c.file => disk'[a][f] = disk'[n][f]
    BY <1>1, <1>5, <2>5 DEF Behind
  <2>8. Halfway(n, a, c)'
    BY <1>3, <1>5, <2>3, <2>4, <2>6, <2>7 DEF Halfway
  <2> QED BY <1>3, <2>3, <2>6, <2>8 DEF Hears
<1>6. CASE c.kind = "removed"
  <2>1. c = [kind |-> "removed", file |-> c.file]
    BY <1>6, ChangeShape
  <2>2. ApplyRemove(n)
    BY <1>1, <1>6, ReceiverMoves DEF StartOf
  <2>3. disk[n][c.file] # Absent /\ disk[a][c.file] = Absent
    BY <1>1, <1>6 DEF Behind
  <2>4. /\ disk' = [disk EXCEPT ![n][c.file] = Absent] /\ Observe(n, c)
        /\ Advance(n, "markRemoved")
        /\ UNCHANGED <<session, pub, versions, echo, renamed, enc, sendSeq, recvSeq,
                       log, acked, edits>>
    BY <1>2, <2>1, <2>2, <2>3 DEF ApplyRemove, guardVars, chainVars, streamVars, budgets
  <2>5. pending'[n] = {c} /\ \A m \in Node \ {n} : pending'[m] = pending[m]
    BY <1>1, <2>4, ObservedAlone
  <2>6. /\ \A m \in Node \ {n} : disk'[m] = disk[m]
        /\ disk'[n][c.file] = Absent
        /\ \A f \in File : f # c.file => disk'[n][f] = disk[n][f]
    BY <1>2, <2>4, CalmTypes
  <2>7. OnlyAt(n) /\ rx'[n] = MarkOf(c.kind)
    BY <1>4, <1>6, <2>4, <2>5, <2>6 DEF RxState, MarkOf
  <2>8. SameTree(a, n)'
    BY <1>1, <1>6, <2>3, <2>6 DEF Behind, SameTree
  <2>9. Finishes(n, a, c)'
    BY <1>3, <2>4, <2>5, <2>7, <2>8 DEF Finishes
  <2> QED BY <1>3, <2>4, <2>7, <2>9 DEF Hears
<1>7. CASE c.kind = "renamed"
  <2>1. c = [kind |-> "renamed", file |-> c.file, old |-> c.old]
    BY <1>7, ChangeShape
  <2>2. ApplyRename(n)
    BY <1>1, <1>7, ReceiverMoves DEF StartOf
  <2>3. /\ c.old # c.file /\ disk[n][c.old] # Absent
        /\ disk[a][c.file] = disk[n][c.old] /\ disk[a][c.old] = Absent
    BY <1>1, <1>7 DEF Behind
  <2>4. /\ disk' = [disk EXCEPT ![n][c.file] = disk[n][c.old], ![n][c.old] = Absent]
        /\ Observe(n, c) /\ Advance(n, "markRenamed")
        /\ UNCHANGED <<session, pub, versions, echo, renamed, enc, sendSeq, recvSeq,
                       log, acked, edits>>
    BY <1>2, <1>7, <2>1, <2>2, <2>3
    DEF ApplyRename, ObserveMove, guardVars, chainVars, streamVars, budgets
  <2>5. pending'[n] = {c} /\ \A m \in Node \ {n} : pending'[m] = pending[m]
    BY <1>1, <2>4, ObservedAlone
  <2>6. /\ \A m \in Node \ {n} : disk'[m] = disk[m]
        /\ disk'[n][c.old] = Absent /\ disk'[n][c.file] = disk[n][c.old]
        /\ \A f \in File : f # c.file /\ f # c.old => disk'[n][f] = disk[n][f]
    BY <1>2, <1>7, <2>3, <2>4, CalmTypes
  <2>7. OnlyAt(n) /\ rx'[n] = MarkOf(c.kind)
    BY <1>4, <1>7, <2>4, <2>5, <2>6 DEF RxState, MarkOf
  <2>8. SameTree(a, n)'
    BY <1>1, <1>7, <2>3, <2>6 DEF Behind, SameTree
  <2>9. Finishes(n, a, c)'
    BY <1>3, <2>4, <2>5, <2>7, <2>8 DEF Finishes
  <2> QED BY <1>3, <2>4, <2>7, <2>9 DEF Hears
<1> QED BY <1>5, <1>6, <1>7, ChangeShape

LEMMA HearerWrites ==
    ASSUME TypeOK, NEW a \in Node, NEW c \in Change, NEW ev \in Event,
           Heard(a, c, ev), NEW n \in Node \ {a}, Halfway(n, a, c), ChainLevel(a, n),
           session[n] = "running", ReceiverStep(n)
    PROVE  OnlyAt(n) /\ session' = session /\ Hears(n, a, c, ev)'
<1>1. /\ rx[n] = "write" /\ LastIsNext(n) /\ c.kind = "modified"
      /\ pending[n] = {c} /\ pub[n] = Idle /\ Unmarked(n) /\ SameVersions(a, n)
      /\ \A f \in File : f # c.file => disk[a][f] = disk[n][f]
  BY DEF Halfway
<1>2. /\ Incoming(n) = ev /\ ev.file = c.file /\ c.file \in File
      /\ ev.data = disk[a][c.file]
  BY <1>1, HeardEvent, ChangeFields DEF Carries
<1>3. c = [kind |-> "modified", file |-> c.file]
  BY <1>1, ChangeShape
<1>4. ApplyWrite(n)
  BY <1>1, ReceiverMoves
<1>5. /\ disk' = [disk EXCEPT ![n][c.file] = disk[a][c.file]] /\ Observe(n, c)
      /\ rx' = [rx EXCEPT ![n] = "markApplied"]
      /\ UNCHANGED <<session, pub, versions, echo, renamed, enc, sendSeq, recvSeq,
                     log, acked, edits>>
  BY <1>2, <1>3, <1>4
  DEF ApplyWrite, Advance, guardVars, chainVars, streamVars, budgets
<1>6. pending'[n] = {c} /\ \A m \in Node \ {n} : pending'[m] = pending[m]
  BY <1>1, <1>5, ObservedAlone
<1>7. /\ \A m \in Node \ {n} : disk'[m] = disk[m] /\ rx'[m] = rx[m]
      /\ rx'[n] = "markApplied" /\ disk'[n][c.file] = disk[a][c.file]
      /\ \A f \in File : f # c.file => disk'[n][f] = disk[n][f]
  BY <1>2, <1>5, CalmTypes
<1>8. OnlyAt(n)
  BY <1>5, <1>6, <1>7 DEF OnlyAt
<1>9. SameTree(a, n)'
  BY <1>1, <1>7 DEF SameTree
<1>10. /\ pub'[n] = Idle /\ Unmarked(n)' /\ LastIsNext(n)' /\ SameVersions(a, n)'
       /\ ChainLevel(a, n)'
  BY <1>1, <1>5 DEF Unmarked, LastIsNext, SameVersions, ChainLevel
<1>11. Finishes(n, a, c)'
  BY <1>1, <1>6, <1>7, <1>9, <1>10 DEF Finishes, MarkOf
<1> QED BY <1>5, <1>8, <1>10, <1>11 DEF Hears

\* The mark is there before the report can be.
LEMMA HearerMarks ==
    ASSUME TypeOK, NEW a \in Node, NEW c \in Change, NEW ev \in Event,
           Heard(a, c, ev), NEW n \in Node \ {a}, Finishes(n, a, c), ChainLevel(a, n),
           ReceiverStep(n)
    PROVE  OnlyAt(n) /\ session' = session /\ Hears(n, a, c, ev)'
<1>1. /\ rx[n] = MarkOf(c.kind) /\ LastIsNext(n)
      /\ pending[n] = {c} /\ pub[n] = Idle /\ Unmarked(n)
      /\ SameVersions(a, n) /\ SameTree(a, n)
  BY DEF Finishes
<1>2. /\ Incoming(n) = ev /\ Carries(ev, a, c) /\ ev.file = c.file /\ c.file \in File
  BY <1>1, HeardEvent, ChangeFields
<1>3. ASSUME UNCHANGED <<disk, pending, session, pub, versions, enc, sendSeq, recvSeq,
                         log, acked, edits>>,
             Advance(n, "ack"), MarkedFor(n, c)',
             \A m \in Node \ {n} : echo'[m] = echo[m] /\ renamed'[m] = renamed[m]
      PROVE  OnlyAt(n) /\ session' = session /\ Hears(n, a, c, ev)'
  <2>1. OnlyAt(n) /\ rx'[n] = "ack"
    BY <1>3, CalmTypes DEF Advance, OnlyAt
  <2>2. /\ Reports(n, c)' /\ LastIsNext(n)' /\ SameVersions(a, n)' /\ SameTree(a, n)'
        /\ ChainLevel(a, n)'
    BY <1>1, <1>3 DEF Reports, LastIsNext, SameVersions, SameTree, ChainLevel
  <2> QED BY <1>3, <2>1, <2>2 DEF Hears, Echoes
<1>4. CASE c.kind = "modified"
  <2>1. MarkApplied(n)
    BY <1>1, <1>4, ReceiverMoves DEF MarkOf
  <2>2. ev.data = disk[n][c.file]
    BY <1>1, <1>2, <1>4 DEF Carries, SameTree
  <2>3. /\ echo' = [echo EXCEPT ![n][c.file] = disk[n][c.file]] /\ Advance(n, "ack")
        /\ UNCHANGED <<disk, pending, session, pub, versions, renamed, enc, sendSeq, recvSeq,
                       log, acked, edits>>
    BY <1>2, <2>1, <2>2 DEF MarkApplied, fsVars, chainVars, streamVars, budgets
  <2>4. /\ \A f \in File : echo'[n][f] = IF f = c.file THEN disk[n][c.file] ELSE echo[n][f]
        /\ \A m \in Node \ {n} : echo'[m] = echo[m]
    BY <1>2, <2>3, CalmTypes
  <2>5. MarkedFor(n, c)'
    BY <1>1, <1>4, <2>3, <2>4 DEF Unmarked, MarkedFor
  <2> QED BY <1>3, <2>3, <2>4, <2>5
<1>5. CASE c.kind = "removed"
  <2>1. MarkRemoved(n)
    BY <1>1, <1>5, ReceiverMoves DEF MarkOf
  <2>2. /\ echo' = [echo EXCEPT ![n][c.file] = RemovedMark] /\ Advance(n, "ack")
        /\ UNCHANGED <<disk, pending, session, pub, versions, renamed, enc, sendSeq, recvSeq,
                       log, acked, edits>>
    BY <1>2, <2>1 DEF MarkRemoved, fsVars, chainVars, streamVars, budgets
  <2>3. /\ \A f \in File : echo'[n][f] = IF f = c.file THEN RemovedMark ELSE echo[n][f]
        /\ \A m \in Node \ {n} : echo'[m] = echo[m]
    BY <1>2, <2>2, CalmTypes
  <2>4. MarkedFor(n, c)'
    BY <1>1, <1>5, <2>2, <2>3 DEF Unmarked, MarkedFor
  <2> QED BY <1>3, <2>2, <2>3, <2>4
<1>6. CASE c.kind = "renamed"
  <2>1. MarkRenamed(n)
    BY <1>1, <1>6, ReceiverMoves DEF MarkOf
  <2>2. ev.old = c.old
    BY <1>2, <1>6 DEF Carries
  <2>3. /\ renamed' = [renamed EXCEPT ![n][c.file] = c.old] /\ Advance(n, "ack")
        /\ UNCHANGED <<disk, pending, session, pub, versions, echo, enc, sendSeq, recvSeq,
                       log, acked, edits>>
    BY <1>2, <2>1, <2>2 DEF MarkRenamed, fsVars, chainVars, streamVars, budgets
  <2>4. /\ \A f \in File : renamed'[n][f] = IF f = c.file THEN c.old ELSE renamed[n][f]
        /\ \A m \in Node \ {n} : renamed'[m] = renamed[m]
    BY <1>2, <2>3, CalmTypes
  <2>5. MarkedFor(n, c)'
    BY <1>1, <1>6, <2>3, <2>4 DEF Unmarked, MarkedFor
  <2> QED BY <1>3, <2>3, <2>4, <2>5
<1> QED BY <1>4, <1>5, <1>6, ChangeShape

LEMMA HearerAcks ==
    ASSUME TypeOK, NEW a \in Node, NEW c \in Change, NEW ev \in Event,
           Heard(a, c, ev), NEW n \in Node \ {a}, Echoes(n, a, c), ChainLevel(a, n),
           ReceiverStep(n)
    PROVE  OnlyAt(n) /\ session' = session /\ Hears(n, a, c, ev)'
<1>1. /\ SameVersions(a, n) /\ SameTree(a, n)
      /\ \/ Reports(n, c) /\ MarkedFor(n, c)
         \/ Silent(n) /\ Unmarked(n)
  BY DEF Echoes
<1>2. rx[n] = "ack" /\ LastIsNext(n)
  BY UpToDateStays DEF Echoes
<1>3. Ack(n)
  BY <1>2, ReceiverMoves
<1>4. /\ acked' = [acked EXCEPT ![n] = @ + 1] /\ rx' = [rx EXCEPT ![n] = "fetch"]
      /\ UNCHANGED <<disk, pending, session, pub, versions, echo, renamed, enc, sendSeq,
                     recvSeq, log, edits>>
  BY <1>3 DEF Ack, Advance, fsVars, guardVars, chainVars, budgets
<1>5. /\ rx'[n] = "fetch" /\ acked'[n] = acked[n] + 1
      /\ \A m \in Node \ {n} : rx'[m] = rx[m] /\ acked'[m] = acked[m]
  BY <1>4, CalmTypes
<1>6. OnlyAt(n)
  BY <1>4, <1>5 DEF OnlyAt
<1>7. UpToDate(n)'
  BY <1>2, <1>4, <1>5 DEF LastIsNext, UpToDate
<1>8. SameVersions(a, n)' /\ SameTree(a, n)' /\ ChainLevel(a, n)'
  BY <1>1, <1>4 DEF SameVersions, SameTree, ChainLevel
<1>9. /\ Reports(n, c) => Reports(n, c)'
      /\ MarkedFor(n, c) => MarkedFor(n, c)'
      /\ Silent(n) => Silent(n)'
      /\ Unmarked(n) => Unmarked(n)'
  BY <1>4 DEF Reports, MarkedFor, Silent, Unmarked
<1> QED BY <1>1, <1>4, <1>6, <1>7, <1>8, <1>9 DEF Hears, Echoes

LEMMA HearerReceives ==
    ASSUME TypeOK, TwoNodes, Renamer = Node, NEW a \in Node, NEW c \in Change,
           NEW ev \in Event, Heard(a, c, ev), NEW n \in Node \ {a},
           session[n] = "running", ReceiverStep(n)
    PROVE  Heard(a, c, ev)' /\ session' = session
<1>1. Hears(n, a, c, ev)
  BY DEF Heard
<1>2. OnlyAt(n) /\ session' = session /\ Hears(n, a, c, ev)'
  BY <1>1, HearerFetches, HearerStores, HearerTouches, HearerWrites, HearerMarks, HearerAcks
  DEF Hears
<1> QED BY <1>2, HearerMoves

-----------------------------------------------------------------------------
\* Every step of a calm session leads from one phase to the next.

LEMMA CalmPublisher ==
    ASSUME TypeOK, TwoNodes, FreshDir = {}, OneChange, NEW n \in Node, PublisherStep(n)
    PROVE  OneChange' /\ session' = session
<1>1. session' = session
  BY DEF PublisherStep, Fire, ReadFile, IsEcho, Bump, IsEchoRemove, IsEchoRename, Publish
<1>2. ~AtRest
  BY SilentStays DEF AtRest
<1>3. ASSUME NEW a \in Node, NEW c \in Change, Telling(a, c)
      PROVE  OneChange'
  <2>1. n = a
    BY <1>3, SilentStays DEF Telling, Leads
  <2> QED BY <1>3, <2>1, TellsOn DEF OneChange
<1>4. ASSUME NEW a \in Node, NEW c \in Change, NEW ev \in Event, Sending(a, c, ev)
      PROVE  OneChange'
  <2>1. n = a
    BY <1>4, SilentStays DEF Sending, Leads
  <2> QED BY <1>4, <2>1, Sends DEF OneChange
<1>5. ASSUME NEW a \in Node, NEW c \in Change, NEW ev \in Event, Heard(a, c, ev)
      PROVE  OneChange'
  <2>1. n # a
    BY <1>5, SilentStays DEF Heard
  <2> QED BY <1>5, <2>1, HearerPublishes DEF OneChange
<1> QED BY <1>1, <1>2, <1>3, <1>4, <1>5 DEF OneChange

LEMMA CalmReceiver ==
    ASSUME TypeOK, TwoNodes, Renamer = Node, OneChange, NEW n \in Node,
           session[n] = "running", ReceiverStep(n)
    PROVE  OneChange' /\ session' = session
<1>1. ~UpToDate(n)
  BY UpToDateStays
<1>2. /\ ~AtRest
      /\ \A a \in Node, c \in Change : ~Telling(a, c)
      /\ \A a \in Node, c \in Change, ev \in Event : ~Sending(a, c, ev)
  BY <1>1 DEF AtRest, Telling, Sending, Leads
<1>3. PICK a \in Node, c \in Change, ev \in Event : Heard(a, c, ev)
  BY <1>2 DEF OneChange
<1>4. CASE n = a
  BY <1>3, <1>4, AuthorSkips DEF OneChange
<1>5. CASE n # a
  BY <1>3, <1>5, HearerReceives DEF OneChange
<1> QED BY <1>4, <1>5

LEMMA CalmUser ==
    ASSUME TypeOK, TwoNodes, Calm, Renamer = Node, OneChange, NEW n \in Node,
           session[n] = "running", UserStep(n)
    PROVE  OneChange' /\ session' = session
<1>1. Acts(n)
  BY DEF UserStep, UserWrite, UserRemove, UserRename
<1>2. Settled /\ session' = session
  BY <1>1 DEF Acts
<1>3. AtRest
  BY <1>2, NotSettledYet, HeardByAll DEF OneChange
<1> QED BY <1>2, <1>3, UserTells DEF OneChange

LEMMA CalmStutters ==
    ASSUME OneChange, UNCHANGED vars
    PROVE  OneChange'
<1>1. UNCHANGED <<disk, pending, pub, rx, versions, echo, renamed, enc, sendSeq, recvSeq,
                  log, acked, edits>>
  BY DEF vars, fsVars, guardVars, chainVars, streamVars, budgets
<1>2. ASSUME NEW n \in Node
      PROVE  /\ Silent(n)' <=> Silent(n)
             /\ Unmarked(n)' <=> Unmarked(n)
             /\ UpToDate(n)' <=> UpToDate(n)
             /\ LastIsNext(n)' <=> LastIsNext(n)
             /\ \A m \in Node : /\ SameTree(m, n)' <=> SameTree(m, n)
                                /\ SameVersions(m, n)' <=> SameVersions(m, n)
                                /\ ChainLevel(m, n)' <=> ChainLevel(m, n)
  BY <1>1 DEF Silent, Unmarked, UpToDate, LastIsNext, SameTree, SameVersions, ChainLevel
<1>3. ASSUME NEW n \in Node, NEW c \in Change
      PROVE  /\ Reports(n, c)' <=> Reports(n, c)
             /\ Bumps(n, c)' <=> Bumps(n, c)
             /\ MarkedFor(n, c)' <=> MarkedFor(n, c)
             /\ \A a \in Node : Behind(n, a, c)' <=> Behind(n, a, c)
  BY <1>1 DEF Reports, Bumps, MarkedFor, Behind
<1>4. ASSUME NEW n \in Node, NEW a \in Node, NEW ev \in Event
      PROVE  /\ VersionIsNew(n, a, ev)' <=> VersionIsNew(n, a, ev)
             /\ SealIsNew(n, a, ev)' <=> SealIsNew(n, a, ev)
             /\ \A c \in Change : Carries(ev, a, c)' <=> Carries(ev, a, c)
  BY <1>1 DEF VersionIsNew, SealIsNew, SameVersions, ChainLevel, Carries
<1>5. AtRest => AtRest'
  BY <1>1, <1>2 DEF AtRest
<1>6. ASSUME NEW a \in Node, NEW c \in Change, Leads(a, c)
      PROVE  Leads(a, c)'
  BY <1>1, <1>2, <1>3, <1>6 DEF Leads
<1>7. ASSUME NEW a \in Node, NEW c \in Change, Telling(a, c)
      PROVE  Telling(a, c)'
  BY <1>1, <1>2, <1>3, <1>6, <1>7 DEF Telling
<1>8. ASSUME NEW a \in Node, NEW c \in Change, NEW ev \in Event, Sending(a, c, ev)
      PROVE  Sending(a, c, ev)'
  BY <1>1, <1>4, <1>6, <1>8 DEF Sending
<1>9. ASSUME NEW a \in Node, NEW c \in Change, NEW ev \in Event, Heard(a, c, ev)
      PROVE  Heard(a, c, ev)'
  <2>1. ASSUME NEW n \in Node \ {a}
        PROVE  Hears(n, a, c, ev)' /\ ChainLevel(n, a)'
    <3>1. Hears(n, a, c, ev) /\ ChainLevel(n, a)
      BY <1>9 DEF Heard
    <3>2. rx'[n] = rx[n] /\ pending'[n] = pending[n] /\ pub'[n] = pub[n] /\ disk' = disk
      BY <1>1
    <3> QED BY <1>2, <1>3, <1>4, <3>1, <3>2
         DEF Hears, Waits, Unstored, Starts, Halfway, Finishes, Echoes
  <2>2. /\ Len(log) > 0 /\ log[Len(log)] = ev /\ Carries(ev, a, c)
        /\ c.kind = "modified" => disk[a][c.file] # Absent
        /\ Silent(a) /\ Unmarked(a) /\ rx[a] = "fetch" /\ (UpToDate(a) \/ LastIsNext(a))
        /\ Len(log) <= edits
    BY <1>9 DEF Heard
  <2> QED BY <1>1, <1>2, <1>4, <2>1, <2>2 DEF Heard
<1> QED BY <1>5, <1>7, <1>8, <1>9 DEF OneChange

\* What a calm session's step leads to, unless it is a failure.
LEMMA CalmStep ==
    ASSUME TwoNodes, Calm, Renamer = Node, FreshDir = {}, MaxLostAcks = 0,
           CalmInv, [Next]_vars
    PROVE  CalmInv' \/ \E n \in Node : PublishFails(n) \/ ReceiverFails(n) \/ ApplyFails(n)
<1>1. TypeOK /\ (\A n \in Node : session[n] = "running") /\ OneChange
  BY DEF CalmInv
<1>2. TypeOK'
  BY <1>1, TypeStep
<1>3. CASE UNCHANGED vars
  BY <1>1, <1>2, <1>3, CalmStutters DEF vars, CalmInv
<1>4. CASE Next
  <2>1. PICK n \in Node : \/ UserStep(n) \/ PublisherStep(n) \/ ReceiverStep(n)
                          \/ PublishFails(n) \/ ReceiverFails(n) \/ ApplyFails(n)
                          \/ AckLost(n)
    BY <1>4 DEF Next
  <2>2. ~AckLost(n)
    BY <1>1, NoAckIsLost
  <2>3. ASSUME UserStep(n) \/ PublisherStep(n) \/ ReceiverStep(n)
        PROVE  OneChange' /\ session' = session
    BY <1>1, <2>3, CalmUser, CalmPublisher, CalmReceiver
  <2> QED BY <1>1, <1>2, <2>1, <2>2, <2>3 DEF CalmInv
<1> QED BY <1>3, <1>4

\* A goroutine whose direction failed has returned for good, and the session is
\* never settled again.
Returned == \E n \in Node : pub[n].at = "returned" \/ rx[n] = "returned"

LEMMA FailureReturns ==
    ASSUME TypeOK, NEW n \in Node, PublishFails(n) \/ ReceiverFails(n) \/ ApplyFails(n)
    PROVE  Returned'
<1>1. pub \in [Node -> PubState] /\ rx \in [Node -> RxState]
  BY DEF TypeOK
<1>2. EndSession(n, "pub") \/ EndSession(n, "rx")
  BY DEF PublishFails, ReceiverFails, ApplyFails
<1> QED BY <1>1, <1>2 DEF EndSession, Returned

LEMMA ReturnedStays ==
    ASSUME TypeOK, Returned, [Next]_vars
    PROVE  Returned'
<1>0. pub \in [Node -> PubState] /\ rx \in [Node -> RxState]
  BY DEF TypeOK
<1>1. PICK m \in Node : pub[m].at = "returned" \/ rx[m] = "returned"
  BY DEF Returned
<1>2. CASE UNCHANGED vars
  BY <1>2, <1>1 DEF vars, Returned
<1>3. ASSUME NEW n \in Node, UserStep(n)
      PROVE  Returned'
  BY <1>1, <1>3 DEF UserStep, UserWrite, UserRemove, UserRename, Acts, Returned
<1>4. ASSUME NEW n \in Node, PublisherStep(n)
      PROVE  Returned'
  <2>1. /\ rx' = rx /\ pub[n].at # "returned"
        /\ \A p \in Node \ {n} : pub'[p] = pub[p]
    BY <1>0, <1>4 DEF PublisherStep, Fire, ReadFile, IsEcho, Bump, IsEchoRemove,
       IsEchoRename, Publish, Took, Idle
  <2> QED BY <1>1, <2>1 DEF Returned
<1>5. ASSUME NEW n \in Node, NEW side, EndSession(n, side), rx[n] # "returned"
      PROVE  Returned'
  BY <1>0, <1>1, <1>5 DEF EndSession, Returned
<1>6. ASSUME NEW n \in Node, ReceiverStep(n) \/ AckLost(n)
      PROVE  Returned'
  <2>1. rx[n] # "returned"
    BY <1>6 DEF ReceiverStep, SkipOwn, Fetch, Reconcile, ApplyConflict, Truncate,
       ApplyWrite, MarkApplied, ApplyRemove, MarkRemoved, ApplyRename, MarkRenamed, Ack,
       AckLost
  <2>2. \/ EndSession(n, "rx")
        \/ pub' = pub /\ \A p \in Node \ {n} : rx'[p] = rx[p]
    BY <1>0, <1>6 DEF ReceiverStep, SkipOwn, Fetch, Reconcile, ApplyConflict, Truncate,
       ApplyWrite, MarkApplied, ApplyRemove, MarkRemoved, ApplyRename, MarkRenamed, Ack,
       AckLost, Advance
  <2> QED BY <1>1, <1>5, <2>1, <2>2 DEF Returned
<1> QED BY <1>2, <1>3, <1>4, <1>6, FailureReturns DEF Next

LEMMA CalmInit == Init => CalmInv
<1> SUFFICES ASSUME Init PROVE CalmInv
  OBVIOUS
<1>1. TypeOK
  BY InitType
<1>2. /\ \A m, n \in Node : SameTree(m, n)
      /\ \A n \in Node : pending[n] = {} /\ pub[n] = Idle /\ rx[n] = "fetch" /\ acked[n] = 0
      /\ \A n \in Node, f \in File : /\ echo[n][f] = NoMark /\ renamed[n][f] = NoMark
                                     /\ versions[n][f] = ZeroVector
      /\ \A n \in Node : sendSeq[n] = 0 /\ recvSeq[n] = 0 /\ session[n] = "running"
      /\ log = <<>> /\ edits = 0
  BY DEF Init, SameTree
<1>3. Len(log) = 0
  BY <1>2
<1>4. AtRest
  BY <1>2, <1>3 DEF AtRest, Silent, Unmarked, UpToDate, SameVersions, ChainLevel
<1> QED BY <1>1, <1>2, <1>4 DEF CalmInv, OneChange

\* Whenever nothing is under way the two trees are the same, whatever the users
\* did before: a write, a removal or a rename, encrypted or not, is carried over
\* by the stream exactly as it was made.  Calm users, correlated renames and no
\* lost acknowledgement are what the code needs for it; a failure ends the
\* session, which never settles again.
THEOREM CalmConverges ==
    ASSUME TwoNodes, Calm, Renamer = Node, FreshDir = {}, MaxLostAcks = 0
    PROVE  Spec => []Converged
<1> DEFINE Inv == TypeOK /\ (CalmInv \/ Returned)
<1>1. Init => Inv
  BY CalmInit DEF CalmInv
<1>2. Inv /\ [Next]_vars => Inv'
  BY TypeStep, CalmStep, FailureReturns, ReturnedStays
<1>3. Inv => Converged
  <2> SUFFICES ASSUME Inv, Settled, NEW m \in Node, NEW n \in Node, NEW f \in Path
               PROVE  disk[m][f] = disk[n][f]
    BY DEF Converged
  <2>1. ~Returned
    BY DEF Returned, Settled, SettledAt, Idle
  <2>2. AtRest
    BY <2>1, NotSettledYet, HeardByAll DEF CalmInv, OneChange
  <2> QED BY <2>2, PathsAreFiles DEF AtRest, SameTree
<1> QED
  BY <1>1, <1>2, <1>3, PTL DEF Spec

\* What a node does to its own tree because of a peer's event is never published:
\* the stream holds at most one event per user action, so no change bounces back.
THEOREM CalmEchoesDropped ==
    ASSUME TwoNodes, Calm, Renamer = Node, FreshDir = {}, MaxLostAcks = 0, MaxFailures = 0
    PROVE  Spec => []EchoesAreDropped
<1>1. Init => CalmInv
  BY CalmInit
<1>2. CalmInv /\ [Next]_vars => CalmInv'
  BY CalmStep, NothingFails DEF CalmInv
<1>3. CalmInv => EchoesAreDropped
  <2> SUFFICES ASSUME CalmInv PROVE Len(log) <= edits
    BY DEF EchoesAreDropped
  <2>1. Len(log) \in Nat /\ edits \in Nat /\ OneChange
    BY DEF CalmInv, TypeOK
  <2>2. AtRest => Len(log) <= edits
    BY DEF AtRest
  <2>3. ASSUME NEW a \in Node, NEW c \in Change, Leads(a, c)
        PROVE  Len(log) <= edits
    BY <2>1, <2>3 DEF Leads
  <2>4. ASSUME NEW a \in Node, NEW c \in Change, NEW ev \in Event, Heard(a, c, ev)
        PROVE  Len(log) <= edits
    BY <2>4 DEF Heard
  <2> QED BY <2>1, <2>2, <2>3, <2>4 DEF OneChange, Telling, Sending
<1> QED
  BY <1>1, <1>2, <1>3, PTL DEF Spec

-----------------------------------------------------------------------------
(***************************************************************************)
(* Convergence of the calm session where no watcher correlates renames     *)
(* (inotify), so that a user's rename is a removal and a creation: two      *)
(* changes, in either order, are then under way at once, and the second    *)
(* may be published, read or applied before the echo of the first is gone. *)
(* What holds of each file does not depend on how far the others are.      *)
(***************************************************************************)

\* m's publisher is at work on f; m has f to report.
Busy(m, f) ==
    \/ pub[m].at = "took" /\ pub[m].change.file = f
    \/ pub[m].at \in {"hashed", "bump"} /\ pub[m].file = f
    \/ pub[m].at = "publish" /\ pub[m].event.file = f
Names(m, f) == Busy(m, f) \/ \E c \in pending[m] : c.file = f

\* m's disk is as the change, the event says.
Genuine(m, c) == IF disk[m][c.file] = Absent THEN c.kind = "removed" ELSE c.kind = "modified"
Truthful(a, ev) ==
    /\ ev.origin = a
    /\ IF disk[a][ev.file] = Absent THEN ev.op = "remove"
       ELSE ev.op = "write" /\ ev.data = disk[a][ev.file]

\* What m reports, it reports once.
Apart(m) == /\ \A c, d \in pending[m] : c.file = d.file => c = d
            /\ \A c \in pending[m] : ~Busy(m, c.file)

\* The stream positions n has not acknowledged, and whether n's disk shows
\* nothing of the one at i yet; n holds f between its disk and its mark.
Ahead(n) == (acked[n] + 1)..Len(log)
Untouched(n, i) ==
    i > acked[n] + 1 \/ rx[n] \in {"fetch", "reconcile", "apply", "remove"}
Holds(n, f) ==
    rx[n] \in {"write", "markApplied", "markRemoved"} /\ Incoming(n).file = f

\* The batch of changes a user of a made: due are its files as long as n's disk
\* shows nothing of them, w is the one it wrote, and w's version is not stamped
\* or already stored on n ("level"), sealed, or opened by n.

AuthorClear(a) ==
    /\ Unmarked(a) /\ rx[a] = "fetch"
    /\ \A i \in Ahead(a) : log[i].origin = a

Sealed(n, a, w, ev) ==
    ev.op = "write" =>
        ev.file = w /\ ev.version = versions[a][w] /\ (enc => ev.seq = recvSeq[n])

AuthorTells(n, a, due, w, q) ==
    /\ Apart(a)
    /\ \A c \in pending[a] :
          Genuine(a, c) /\ c.file \in due /\ (c.kind = "modified" => c.file = w /\ q = "level")
    /\ pub[a].at # "returned"
    /\ pub[a].at = "took" =>
          LET c == pub[a].change IN
          Genuine(a, c) /\ c.file \in due /\ (c.kind = "modified" => c.file = w /\ q = "level")
    /\ pub[a].at \in {"hashed", "bump"} =>
          /\ pub[a].file = w /\ pub[a].data = disk[a][w] /\ disk[a][w] # Absent
          /\ w \in due /\ q = "level"
    /\ pub[a].at = "publish" =>
          LET ev == pub[a].event IN
          /\ Truthful(a, ev) /\ ev.file \in due
          /\ Sealed(n, a, w, ev) /\ (ev.op = "write" => q = "sealed")

Streamed(n, a, due, w, q) ==
    \A i \in Ahead(n) :
        /\ Truthful(a, log[i]) /\ ~Names(a, log[i].file)
        /\ \A j \in Ahead(n) : log[j].file = log[i].file => j = i
        /\ log[i].op = "write" => log[i].file = w
        /\ log[i].file \in due <=> Untouched(n, i)
        /\ i > acked[n] + 1 \/ rx[n] = "fetch" =>
              Sealed(n, a, w, log[i]) /\ (log[i].op = "write" => q = "sealed")

InHandAs(n, a, w, q) ==
    /\ rx[n] \notin {"conflict", "rename", "markRenamed", "returned"}
    /\ rx[n] = "reconcile" => q = "opened" /\ Incoming(n).version = versions[a][w]
    /\ rx[n] \notin {"fetch", "reconcile"} /\ Incoming(n).op = "write" => q = "level"

Trees(n, a, due) ==
    \A f \in File :
        IF f \in due
        THEN echo[n][f] = NoMark /\ ~Names(n, f) /\ (disk[a][f] = Absent => disk[n][f] # Absent)
        ELSE disk[a][f] = disk[n][f] \/ (rx[n] = "write" /\ Incoming(n).file = f)

Knowledge(n, a, due, w, q) ==
    /\ q # "level" => w \in due /\ disk[a][w] # Absent
    /\ \A f \in File :
          versions[a][f] = IF f = w /\ q # "level" THEN Bumped(versions[n][f], a)
                           ELSE versions[n][f]
    /\ enc => /\ sendSeq[a] = IF q = "sealed" THEN recvSeq[n] + 1 ELSE recvSeq[n]
              /\ sendSeq[n] = recvSeq[a]

MarkFor(n, c) == IF c.kind = "removed" THEN RemovedMark ELSE disk[n][c.file]
Echoing(n) ==
    /\ Apart(n)
    /\ \A f \in File : renamed[n][f] = NoMark /\ (echo[n][f] # NoMark => Names(n, f))
    /\ \A c \in pending[n] :
          /\ Genuine(n, c)
          /\ echo[n][c.file] = IF Holds(n, c.file) THEN NoMark ELSE MarkFor(n, c)
    /\ \A f \in File : Holds(n, f) => \E c \in pending[n] : c.file = f
    /\ pub[n].at \in {"select", "took", "hashed"}
    /\ pub[n].at = "took" =>
          Genuine(n, pub[n].change) /\ echo[n][pub[n].change.file] = MarkFor(n, pub[n].change)
    /\ pub[n].at = "hashed" =>
          /\ pub[n].data = disk[n][pub[n].file]
          /\ echo[n][pub[n].file] = pub[n].data

DueIsHeld(n, a, due) ==
    \A f \in due : \/ Names(a, f)
                   \/ \E i \in Ahead(n) : log[i].file = f /\ Untouched(n, i)

Batch(a, due, w, q) ==
    /\ due \subseteq File /\ q \in {"level", "sealed", "opened"}
    /\ AuthorClear(a)
    /\ \A n \in Node \ {a} :
          /\ AuthorTells(n, a, due, w, q) /\ Streamed(n, a, due, w, q)
          /\ InHandAs(n, a, w, q) /\ Trees(n, a, due) /\ Knowledge(n, a, due, w, q)
          /\ Echoing(n) /\ DueIsHeld(n, a, due)

OneBatch == \E a \in Node : \E due, w, q : Batch(a, due, w, q)

\* A batch goes on when its parts do, for the one other node.
LEMMA BatchGoesOn ==
    ASSUME TwoNodes, NEW a \in Node, NEW n \in Node \ {a},
           NEW due, NEW w, NEW q, due \subseteq File, q \in {"level", "sealed", "opened"},
           AuthorClear(a)', AuthorTells(n, a, due, w, q)', Streamed(n, a, due, w, q)',
           InHandAs(n, a, w, q)', Trees(n, a, due)', Knowledge(n, a, due, w, q)',
           Echoing(n)', DueIsHeld(n, a, due)'
    PROVE  OneBatch'
<1>1. \A m \in Node \ {a} : m = n
  BY DEF TwoNodes
<1> QED BY <1>1 DEF OneBatch, Batch

\* The parts of a batch, seen from the other node.
LEMMA BatchParts ==
    ASSUME NEW a \in Node, NEW n \in Node \ {a}, NEW due, NEW w, NEW q, Batch(a, due, w, q)
    PROVE  /\ due \subseteq File /\ q \in {"level", "sealed", "opened"}
           /\ AuthorClear(a) /\ AuthorTells(n, a, due, w, q) /\ Streamed(n, a, due, w, q)
           /\ InHandAs(n, a, w, q) /\ Trees(n, a, due) /\ Knowledge(n, a, due, w, q)
           /\ Echoing(n) /\ DueIsHeld(n, a, due)
BY DEF Batch

\* The events n has not acknowledged are events.
LEMMA AheadType ==
    ASSUME TypeOK, NEW n \in Node, NEW i \in Ahead(n)
    PROVE  /\ i \in 1..Len(log) /\ log[i] \in Event /\ log[i].file \in File
           /\ i \in Nat /\ acked[n] \in Nat /\ Len(log) \in Nat /\ acked[n] < i
<1>1. log \in Seq(Event) /\ Len(log) \in Nat /\ acked[n] \in Nat
  BY ReceiverStream
<1>2. i \in 1..Len(log) /\ i \in Nat /\ acked[n] < i
  BY <1>1 DEF Ahead
<1>3. log[i] \in Event
  BY <1>1, <1>2
<1> QED BY <1>1, <1>2, <1>3, EventFields

\* What the author's publisher does to nothing but its own report.
LEMMA ReportGoesOn ==
    ASSUME TypeOK, TwoNodes, NEW a \in Node, NEW n \in Node \ {a}, NEW due, NEW w, NEW q,
           Batch(a, due, w, q),
           UNCHANGED <<disk, rx, versions, echo, renamed, enc, sendSeq, recvSeq, log, acked>>,
           pending'[n] = pending[n], pub'[n] = pub[n],
           \A f \in File : Names(a, f)' <=> Names(a, f),
           AuthorTells(n, a, due, w, q)'
    PROVE  OneBatch'
<1>1. /\ due \subseteq File /\ q \in {"level", "sealed", "opened"}
      /\ AuthorClear(a) /\ AuthorTells(n, a, due, w, q) /\ Streamed(n, a, due, w, q)
      /\ InHandAs(n, a, w, q) /\ Trees(n, a, due) /\ Knowledge(n, a, due, w, q)
      /\ Echoing(n) /\ DueIsHeld(n, a, due)
  BY BatchParts
<1>2. AuthorClear(a)'
  BY <1>1 DEF AuthorClear, Unmarked, Ahead
<1>3. Streamed(n, a, due, w, q)'
  <2>1. \A i \in Ahead(n) : log[i].file \in File
    BY AheadType
  <2> QED BY <1>1, <2>1 DEF Streamed, Ahead, Untouched, Truthful, Sealed
<1>4. InHandAs(n, a, w, q)' /\ Knowledge(n, a, due, w, q)'
  BY <1>1 DEF InHandAs, Knowledge, Incoming
<1>5. Trees(n, a, due)'
  BY <1>1 DEF Trees, Names, Busy, Incoming
<1>6. Echoing(n)'
  BY <1>1 DEF Echoing, Apart, Genuine, Names, Busy, Holds, Incoming, MarkFor
<1>7. DueIsHeld(n, a, due)'
  BY <1>1 DEF DueIsHeld, Ahead, Untouched
<1> QED BY <1>1, <1>2, <1>3, <1>4, <1>5, <1>6, <1>7, BatchGoesOn

\* The author's change is taken, read, and found to be nobody's echo.
LEMMA AuthorReports ==
    ASSUME TypeOK, TwoNodes, NEW a \in Node, NEW n \in Node \ {a}, NEW due, NEW w, NEW q,
           Batch(a, due, w, q), PublisherStep(a), ~Bump(a), ~Publish(a)
    PROVE  OneBatch'
<1>0. /\ pub \in [Node -> PubState] /\ pending \in [Node -> SUBSET Change]
      /\ pub[a] \in PubState
  BY DEF TypeOK
<1>1. /\ due \subseteq File /\ AuthorTells(n, a, due, w, q) /\ Unmarked(a)
  BY BatchParts DEF AuthorClear
<1>2. ASSUME NEW c \in pending[a], Fire(a, c)
      PROVE  OneBatch'
  <2>1. /\ pub[a] = Idle /\ pending' = [pending EXCEPT ![a] = @ \ {c}]
        /\ pub' = [pub EXCEPT ![a] = [at |-> "took", change |-> c]]
        /\ UNCHANGED <<disk, rx, versions, echo, renamed, enc, sendSeq, recvSeq, log, acked>>
    BY <1>2 DEF Fire, guardVars, chainVars, streamVars
  <2>2. /\ pending'[a] = pending[a] \ {c} /\ pub'[a] = [at |-> "took", change |-> c]
        /\ pending'[n] = pending[n] /\ pub'[n] = pub[n] /\ pub[a].at = "select"
    BY <1>0, <2>1 DEF Idle
  <2>3. \A f \in File : Names(a, f)' <=> Names(a, f)
    BY <2>2 DEF Names, Busy
  <2>4. AuthorTells(n, a, due, w, q)'
    BY <1>1, <1>2, <2>1, <2>2 DEF AuthorTells, Apart, Busy, Genuine
  <2> QED BY <2>1, <2>2, <2>3, <2>4, ReportGoesOn
<1>3. ASSUME ReadFile(a)
      PROVE  OneBatch'
  <2>1. PICK c \in Change : pub[a].at = "took" /\ pub[a].change = c /\ c.kind = "modified"
    BY <1>0, <1>3, PubFields DEF ReadFile, Took
  <2>2. c.file \in due /\ c.file = w /\ q = "level" /\ disk[a][w] # Absent
    BY <1>1, <2>1 DEF AuthorTells, Genuine
  <2>3. /\ pub' = [pub EXCEPT ![a] = [at |-> "hashed", file |-> w, data |-> disk[a][w]]]
        /\ UNCHANGED <<disk, rx, versions, echo, renamed, enc, sendSeq, recvSeq, log, acked,
                       pending>>
    BY <1>3, <2>1, <2>2 DEF ReadFile, fsVars, guardVars, chainVars, streamVars
  <2>4. /\ pub'[a] = [at |-> "hashed", file |-> w, data |-> disk[a][w]]
        /\ pending'[n] = pending[n] /\ pub'[n] = pub[n] /\ pending'[a] = pending[a]
    BY <1>0, <2>3
  <2>5. \A f \in File : Busy(a, f)' <=> Busy(a, f)
    BY <2>1, <2>2, <2>4 DEF Busy
  <2>6. \A f \in File : Names(a, f)' <=> Names(a, f)
    BY <2>4, <2>5 DEF Names
  <2>7. Apart(a)'
    BY <1>0, <1>1, <2>4, <2>5, ChangeFields DEF AuthorTells, Apart
  <2>8. AuthorTells(n, a, due, w, q)'
    BY <1>1, <2>2, <2>3, <2>4, <2>7 DEF AuthorTells, Genuine
  <2> QED BY <2>3, <2>4, <2>6, <2>8, ReportGoesOn
<1>4. ASSUME IsEcho(a)
      PROVE  OneBatch'
  <2>1. /\ pub[a].at = "hashed" /\ pub[a].file = w /\ pub[a].data = disk[a][w]
        /\ disk[a][w] # Absent /\ w \in due /\ q = "level" /\ pub[a].data \in Data
    BY <1>0, <1>1, <1>4, PubFields DEF IsEcho, AuthorTells
  <2>2. ~Matches(a, pub[a].file, pub[a].data)
    BY <1>1, <2>1, ConstantsOK DEF Matches, Data, Unmarked
  <2>3. /\ pub' = [pub EXCEPT ![a] = [at |-> "bump", file |-> w, data |-> disk[a][w]]]
        /\ UNCHANGED <<disk, rx, versions, echo, renamed, enc, sendSeq, recvSeq, log, acked,
                       pending>>
    BY <1>4, <2>1, <2>2 DEF IsEcho, fsVars, chainVars, streamVars
  <2>4. /\ pub'[a] = [at |-> "bump", file |-> w, data |-> disk[a][w]]
        /\ pending'[n] = pending[n] /\ pub'[n] = pub[n] /\ pending'[a] = pending[a]
    BY <1>0, <2>3
  <2>5. \A f \in File : Busy(a, f)' <=> Busy(a, f)
    BY <2>1, <2>4 DEF Busy
  <2>6. \A f \in File : Names(a, f)' <=> Names(a, f)
    BY <2>4, <2>5 DEF Names
  <2>7. Apart(a)'
    BY <1>0, <1>1, <2>4, <2>5, ChangeFields DEF AuthorTells, Apart
  <2>8. AuthorTells(n, a, due, w, q)'
    BY <1>1, <2>1, <2>3, <2>4, <2>7 DEF AuthorTells, Genuine
  <2> QED BY <2>3, <2>4, <2>6, <2>8, ReportGoesOn
<1>5. ASSUME IsEchoRemove(a)
      PROVE  OneBatch'
  <2>1. PICK c \in Change : pub[a].at = "took" /\ pub[a].change = c /\ c.kind = "removed"
    BY <1>0, <1>5, PubFields DEF IsEchoRemove, Took
  <2>2. c.file \in due /\ c.file \in File /\ disk[a][c.file] = Absent
    BY <1>1, <2>1 DEF AuthorTells, Genuine
  <2>3. PICK ev : ev = [op |-> "remove", origin |-> a, file |-> c.file]
    OBVIOUS
  <2>4. ~Matches(a, c.file, RemovedMark)
    BY <1>1, <2>2, ConstantsOK DEF Matches, Unmarked
  <2>5. /\ pub' = [pub EXCEPT ![a] = [at |-> "publish", event |-> ev]]
        /\ UNCHANGED <<disk, rx, versions, echo, renamed, enc, sendSeq, recvSeq, log, acked,
                       pending>>
    BY <1>5, <2>1, <2>3, <2>4 DEF IsEchoRemove, fsVars, chainVars, streamVars
  <2>6. /\ pub'[a] = [at |-> "publish", event |-> ev]
        /\ pending'[n] = pending[n] /\ pub'[n] = pub[n] /\ pending'[a] = pending[a]
    BY <1>0, <2>5
  <2>7. \A f \in File : Busy(a, f)' <=> Busy(a, f)
    BY <2>1, <2>3, <2>6 DEF Busy
  <2>8. \A f \in File : Names(a, f)' <=> Names(a, f)
    BY <2>6, <2>7 DEF Names
  <2>9. Apart(a)'
    BY <1>0, <1>1, <2>6, <2>7, ChangeFields DEF AuthorTells, Apart
  <2>10. AuthorTells(n, a, due, w, q)'
    BY <1>1, <2>2, <2>3, <2>5, <2>6, <2>9 DEF AuthorTells, Genuine, Truthful, Sealed
  <2> QED BY <2>5, <2>6, <2>8, <2>10, ReportGoesOn
<1>6. ~IsEchoRename(a)
  BY <1>1 DEF IsEchoRename, Took, AuthorTells, Genuine
<1> QED BY <1>2, <1>3, <1>4, <1>5, <1>6 DEF PublisherStep

\* A receiver past its fetch holds the first event it has not acknowledged.
LEMMA AheadOfHand ==
    ASSUME TypeOK, NEW n \in Node, rx[n] \notin {"fetch", "returned"}
    PROVE  /\ acked[n] + 1 \in Ahead(n) /\ Incoming(n) = log[acked[n] + 1]
           /\ rx[n] \in StepsFor(Incoming(n).op)
<1>1. acked[n] < Len(log) /\ acked[n] \in Nat /\ Len(log) \in Nat
  BY IncomingType, ReceiverStream
<1> QED BY <1>1, IncomingType DEF Ahead, Incoming

\* The author stamps and seals the content it read: of everything it knows, this
\* alone is new to the other node.
LEMMA AuthorBumps ==
    ASSUME TypeOK, TwoNodes, NEW a \in Node, NEW n \in Node \ {a}, NEW due, NEW w, NEW q,
           Batch(a, due, w, q), Bump(a)
    PROVE  OneBatch'
<1>0. /\ pub \in [Node -> PubState] /\ versions \in [Node -> [File -> Vector]]
      /\ sendSeq \in [Node -> Nat] /\ recvSeq \in [Node -> Nat]
      /\ pub[a] \in PubState /\ pending \in [Node -> SUBSET Change]
  BY DEF TypeOK
<1>1. /\ due \subseteq File /\ AuthorClear(a) /\ AuthorTells(n, a, due, w, q)
      /\ Streamed(n, a, due, w, q) /\ InHandAs(n, a, w, q) /\ Trees(n, a, due)
      /\ Knowledge(n, a, due, w, q) /\ Echoing(n) /\ DueIsHeld(n, a, due)
  BY BatchParts
<1>2. /\ pub[a].at = "bump" /\ pub[a].file = w /\ pub[a].data = disk[a][w]
      /\ disk[a][w] # Absent /\ w \in due /\ w \in File /\ q = "level"
  BY <1>1 DEF Bump, AuthorTells
<1>3. PICK v : v = Bumped(versions[a][w], a)
  OBVIOUS
<1>4. PICK ev : ev = [op |-> "write", origin |-> a, file |-> w, data |-> disk[a][w],
                      version |-> v, seq |-> sendSeq[a]]
  OBVIOUS
<1>5. /\ versions' = [versions EXCEPT ![a][w] = v]
      /\ pub' = [pub EXCEPT ![a] = [at |-> "publish", event |-> ev]]
      /\ sendSeq' = IF enc THEN [sendSeq EXCEPT ![a] = @ + 1] ELSE sendSeq
      /\ UNCHANGED <<disk, pending, rx, echo, renamed, enc, recvSeq, log, acked>>
  BY <1>2, <1>3, <1>4 DEF Bump, StoreVersion, AdvanceSendChain, fsVars, streamVars
<1>6. /\ pub'[a] = [at |-> "publish", event |-> ev] /\ pub'[n] = pub[n]
      /\ \A f \in File : versions'[a][f] = IF f = w THEN v ELSE versions[a][f]
      /\ versions'[n] = versions[n] /\ sendSeq'[n] = sendSeq[n]
      /\ enc => sendSeq'[a] = sendSeq[a] + 1
  BY <1>0, <1>2, <1>5
<1>7. /\ \A f \in File : versions[a][f] = versions[n][f]
      /\ enc => sendSeq[a] = recvSeq[n] /\ sendSeq[n] = recvSeq[a]
  BY <1>1, <1>2 DEF Knowledge
<1>8. \A f \in File : Busy(a, f)' <=> Busy(a, f)
  BY <1>2, <1>4, <1>6 DEF Busy
<1>9. \A f \in File : Names(a, f)' <=> Names(a, f)
  BY <1>5, <1>8 DEF Names
<1>10. Names(a, w)
  BY <1>2 DEF Names, Busy
<1>11. \A c \in pending[a] : c.file \in File /\ c.file # w
  BY <1>0, <1>1, <1>2, ChangeFields DEF AuthorTells, Apart, Busy
<1>12. AuthorClear(a)'
  BY <1>1, <1>5 DEF AuthorClear, Unmarked, Ahead
<1>13. AuthorTells(n, a, due, w, "sealed")'
  <2>1. Apart(a)'
    BY <1>0, <1>1, <1>5, <1>8, <1>11 DEF AuthorTells, Apart
  <2>2. \A c \in pending[a] : Genuine(a, c)' /\ c.file \in due /\ c.kind # "modified"
    BY <1>1, <1>5, <1>11 DEF AuthorTells, Genuine
  <2>3. Truthful(a, ev)' /\ Sealed(n, a, w, ev)'
    BY <1>2, <1>4, <1>5, <1>6, <1>7 DEF Truthful, Sealed
  <2> QED BY <1>2, <1>4, <1>5, <1>6, <2>1, <2>2, <2>3 DEF AuthorTells, Truthful, Sealed
<1>14. \A i \in Ahead(n) : log[i].op # "write" /\ log[i].file \in File
  BY <1>1, <1>10, AheadType DEF Streamed
<1>15. Streamed(n, a, due, w, "sealed")'
  BY <1>1, <1>5, <1>9, <1>14 DEF Streamed, Ahead, Untouched, Truthful, Sealed
<1>16. InHandAs(n, a, w, "sealed")'
  <2>1. rx[n] \notin {"fetch", "returned"} => acked[n] + 1 \in Ahead(n)
    BY AheadOfHand
  <2>2. rx[n] \notin {"fetch", "returned"} => Incoming(n).op # "write"
    BY <1>14, <2>1 DEF Incoming
  <2> QED BY <1>1, <1>2, <1>5, <2>2 DEF InHandAs, Incoming
<1>17. Trees(n, a, due)' /\ Echoing(n)'
  <2>1. Trees(n, a, due)'
    BY <1>1, <1>5, <1>6 DEF Trees, Names, Busy, Incoming
  <2>2. Echoing(n)'
    BY <1>1, <1>5, <1>6 DEF Echoing, Apart, Genuine, Names, Busy, Holds, Incoming, MarkFor
  <2> QED BY <2>1, <2>2
<1>18. Knowledge(n, a, due, w, "sealed")'
  BY <1>2, <1>3, <1>5, <1>6, <1>7 DEF Knowledge
<1>19. DueIsHeld(n, a, due)'
  BY <1>1, <1>5, <1>9 DEF DueIsHeld, Ahead, Untouched
<1> QED BY <1>1, <1>12, <1>13, <1>15, <1>16, <1>17, <1>18, <1>19, BatchGoesOn

\* What the author said goes to the stream, and is not its to report any more.
LEMMA AuthorPublishes ==
    ASSUME TypeOK, TwoNodes, NEW a \in Node, NEW n \in Node \ {a}, NEW due, NEW w, NEW q,
           Batch(a, due, w, q), Publish(a)
    PROVE  OneBatch'
<1>0. /\ pub \in [Node -> PubState] /\ log \in Seq(Event) /\ Len(log) \in Nat
      /\ acked[n] \in Nat /\ acked[n] <= Len(log) /\ acked[a] \in Nat
      /\ pub[a] \in PubState /\ pending \in [Node -> SUBSET Change]
  BY DEF TypeOK
<1>1. /\ due \subseteq File /\ AuthorClear(a) /\ AuthorTells(n, a, due, w, q)
      /\ Streamed(n, a, due, w, q) /\ InHandAs(n, a, w, q) /\ Trees(n, a, due)
      /\ Knowledge(n, a, due, w, q) /\ Echoing(n) /\ DueIsHeld(n, a, due)
  BY BatchParts
<1>2. PICK ev \in Event : pub[a].at = "publish" /\ pub[a].event = ev
  BY <1>0, PubFields DEF Publish
<1>3. /\ Truthful(a, ev) /\ ev.file \in due /\ Sealed(n, a, w, ev)
      /\ ev.op = "write" => q = "sealed"
  BY <1>1, <1>2 DEF AuthorTells
<1>4. /\ log' = Append(log, ev) /\ pub' = [pub EXCEPT ![a] = Idle]
      /\ UNCHANGED <<disk, pending, rx, versions, echo, renamed, enc, sendSeq, recvSeq,
                     acked>>
  BY <1>2 DEF Publish, fsVars, guardVars, chainVars
<1>k. PICK k \in Nat : k = Len(log) + 1
  BY <1>0
<1>5. /\ pub'[a] = Idle /\ pub'[n] = pub[n] /\ pub'[a].at = "select"
      /\ Len(log') = k /\ log'[k] = ev
      /\ \A i \in 1..Len(log) : log'[i] = log[i]
  BY <1>0, <1>4, <1>k DEF Idle
<1>6. /\ \A f \in File : Names(a, f)' => Names(a, f) /\ f # ev.file
      /\ \A f \in File : Names(a, f) /\ f # ev.file => Names(a, f)'
      /\ Names(a, ev.file)
  <2>1. \A f \in File : Busy(a, f) <=> f = ev.file
    BY <1>2 DEF Busy
  <2>2. \A f \in File : ~Busy(a, f)'
    BY <1>5 DEF Busy
  <2>3. \A c \in pending[a] : c.file # ev.file
    BY <1>0, <1>1, <2>1, ChangeFields DEF AuthorTells, Apart
  <2>4. ev.file \in File
    BY <1>1, <1>3
  <2> QED BY <1>4, <2>1, <2>2, <2>3, <2>4 DEF Names
<1>7. /\ \A i \in Ahead(n) : i \in 1..Len(log) /\ log'[i] = log[i] /\ log[i].file \in File
                             /\ log[i].file # ev.file /\ i # k
      /\ \A i \in Ahead(n)' : i \in Ahead(n) \/ i = k
      /\ k \in Ahead(n)' /\ \A i \in Ahead(n) : i \in Ahead(n)'
      /\ \A i \in Nat : Untouched(n, i)' <=> Untouched(n, i)
  <2>1. \A i \in Ahead(n) : i \in 1..Len(log) /\ log[i].file \in File
    BY AheadType
  <2>2. \A i \in Ahead(n) : log[i].file # ev.file
    BY <1>1, <1>6 DEF Streamed
  <2> QED BY <1>0, <1>4, <1>5, <1>k, <2>1, <2>2 DEF Ahead, Untouched
<1>8. rx[n] = "fetch" \/ (k > acked[n] + 1 /\ Incoming(n)' = Incoming(n))
  <2>1. rx[n] # "fetch" => acked[n] < Len(log)
    BY <1>1, IncomingType DEF InHandAs
  <2> QED BY <1>0, <1>4, <1>5, <1>k, <2>1 DEF Incoming
<1>9. AuthorClear(a)'
  <2>1. \A i \in Ahead(a)' : (i \in Ahead(a) /\ i \in 1..Len(log)) \/ i = k
    BY <1>0, <1>4, <1>5, <1>k DEF Ahead
  <2>2. \A i \in Ahead(a)' : log'[i].origin = a
    BY <1>1, <1>3, <1>5, <2>1 DEF AuthorClear, Truthful
  <2> QED BY <1>1, <1>4, <2>2 DEF AuthorClear, Unmarked
<1>10. AuthorTells(n, a, due, w, q)'
  BY <1>1, <1>4, <1>5 DEF AuthorTells, Apart, Busy, Genuine
<1>11. Streamed(n, a, due, w, q)'
  <2>1. ASSUME NEW i \in Ahead(n)
        PROVE  /\ Truthful(a, log[i]) /\ ~Names(a, log[i].file)
               /\ \A j \in Ahead(n) : log[j].file = log[i].file => j = i
               /\ log[i].op = "write" => log[i].file = w
               /\ log[i].file \in due <=> Untouched(n, i)
               /\ i > acked[n] + 1 \/ rx[n] = "fetch" =>
                     Sealed(n, a, w, log[i]) /\ (log[i].op = "write" => q = "sealed")
    BY <1>1 DEF Streamed
  <2>2. ASSUME NEW i \in Ahead(n)
        PROVE  /\ Truthful(a, log[i])' /\ ~Names(a, log[i].file)'
               /\ \A j \in Ahead(n)' : log'[j].file = log'[i].file => j = i
               /\ log'[i].op = "write" => log'[i].file = w
               /\ log'[i].file \in due <=> Untouched(n, i)'
               /\ i > acked'[n] + 1 \/ rx'[n] = "fetch" =>
                     Sealed(n, a, w, log[i])' /\ (log'[i].op = "write" => q = "sealed")
    <3>1. PICK e : e = log[i] /\ e = log'[i] /\ e.file \in File /\ i \in Nat
      BY <1>7, AheadType
    <3>2. /\ Truthful(a, e) /\ ~Names(a, e.file)
          /\ e.op = "write" => e.file = w
          /\ e.file \in due <=> Untouched(n, i)
          /\ i > acked[n] + 1 \/ rx[n] = "fetch" =>
                Sealed(n, a, w, e) /\ (e.op = "write" => q = "sealed")
      BY <2>1, <3>1
    <3>3. Truthful(a, e)' /\ (Sealed(n, a, w, e) => Sealed(n, a, w, e)')
      BY <1>4, <3>2 DEF Truthful, Sealed
    <3>4. ~Names(a, e.file)'
      BY <1>6, <3>1, <3>2
    <3>5. \A j \in Ahead(n)' : log'[j].file = log'[i].file => j = i
      BY <1>5, <1>7, <2>1
    <3>6. Untouched(n, i)' <=> Untouched(n, i)
      BY <1>7, <3>1
    <3>7. /\ Truthful(a, log[i])' /\ ~Names(a, log[i].file)'
          /\ Sealed(n, a, w, e)' => Sealed(n, a, w, log[i])'
      BY <3>1, <3>3, <3>4 DEF Truthful, Sealed, Names, Busy
    <3> QED BY <1>4, <3>1, <3>2, <3>3, <3>5, <3>6, <3>7
  <2>3. /\ Truthful(a, ev)' /\ ~Names(a, ev.file)' /\ Sealed(n, a, w, ev)'
        /\ \A j \in Ahead(n)' : log'[j].file = ev.file => j = k
        /\ ev.op = "write" => ev.file = w
        /\ Untouched(n, k)'
    <3>1. Truthful(a, ev)' /\ Sealed(n, a, w, ev)'
      BY <1>3, <1>4 DEF Truthful, Sealed
    <3>2. ~Names(a, ev.file)' /\ (ev.op = "write" => ev.file = w)
      BY <1>1, <1>3, <1>6 DEF Sealed
    <3>3. Untouched(n, k)'
      BY <1>4, <1>8 DEF Untouched
    <3> QED BY <1>7, <3>1, <3>2, <3>3
  <2> QED BY <1>3, <1>5, <1>7, <2>2, <2>3 DEF Streamed, Truthful, Sealed, Names, Busy
<1>12. InHandAs(n, a, w, q)' /\ Knowledge(n, a, due, w, q)'
  BY <1>1, <1>4, <1>8 DEF InHandAs, Knowledge
<1>13. Trees(n, a, due)'
  BY <1>1, <1>4, <1>5, <1>8 DEF Trees, Names, Busy
<1>14. Echoing(n)'
  <2>1. \A f \in File : Holds(n, f)' <=> Holds(n, f)
    BY <1>4, <1>8 DEF Holds
  <2>2. \A c \in pending[n] : c.file \in File
    BY <1>0, ChangeFields
  <2> QED BY <1>1, <1>4, <1>5, <2>1, <2>2
       DEF Echoing, Apart, Genuine, Names, Busy, MarkFor
<1>15. DueIsHeld(n, a, due)'
  <2> SUFFICES ASSUME NEW f \in due
               PROVE  \/ Names(a, f)'
                      \/ \E i \in Ahead(n)' : log'[i].file = f /\ Untouched(n, i)'
    BY DEF DueIsHeld
  <2>1. CASE f = ev.file
    BY <1>5, <1>7, <2>1, <1>4, <1>8 DEF Untouched
  <2>2. CASE f # ev.file /\ Names(a, f)
    BY <1>1, <1>6, <2>2
  <2>3. CASE \E i \in Ahead(n) : log[i].file = f /\ Untouched(n, i)
    <3>1. PICK i \in Ahead(n) : log[i].file = f /\ Untouched(n, i)
      BY <2>3
    <3> QED BY <1>7, <3>1, AheadType
  <2> QED BY <1>1, <2>1, <2>2, <2>3 DEF DueIsHeld
<1> QED BY <1>1, <1>9, <1>10, <1>11, <1>12, <1>13, <1>14, <1>15, BatchGoesOn, BatchParts

\* The author's own receiver only acknowledges.
LEMMA BatchAuthorSkips ==
    ASSUME TypeOK, TwoNodes, NEW a \in Node, NEW n \in Node \ {a}, NEW due, NEW w, NEW q,
           Batch(a, due, w, q), ReceiverStep(a)
    PROVE  OneBatch' /\ session' = session
<1>0. acked \in [Node -> Nat] /\ Len(log) \in Nat /\ acked[a] \in Nat
  BY ReceiverStream
<1>1. /\ due \subseteq File /\ q \in {"level", "sealed", "opened"}
      /\ AuthorClear(a) /\ AuthorTells(n, a, due, w, q)
      /\ Streamed(n, a, due, w, q) /\ InHandAs(n, a, w, q) /\ Trees(n, a, due)
      /\ Knowledge(n, a, due, w, q) /\ Echoing(n) /\ DueIsHeld(n, a, due)
  BY BatchParts
<1>2. rx[a] = "fetch" /\ \A i \in Ahead(a) : log[i].origin = a
  BY <1>1 DEF AuthorClear
<1>3. SkipOwn(a)
  <2>1. SkipOwn(a) \/ Fetch(a)
    BY <1>2, ReceiverMoves
  <2>2. Fetch(a) => acked[a] + 1 \in Ahead(a) /\ Incoming(a).origin # a
    BY <1>0 DEF Fetch, Ahead
  <2> QED BY <1>2, <2>1, <2>2 DEF Incoming
<1>4. /\ acked' = [acked EXCEPT ![a] = @ + 1]
      /\ UNCHANGED <<disk, pending, pub, rx, versions, echo, renamed, enc, sendSeq, recvSeq,
                     log, session>>
  BY <1>3 DEF SkipOwn, fsVars, guardVars, chainVars
<1>5. acked'[a] = acked[a] + 1 /\ acked'[n] = acked[n]
  BY <1>0, <1>4
<1>6. AuthorClear(a)'
  BY <1>0, <1>1, <1>4, <1>5 DEF AuthorClear, Unmarked, Ahead
<1>7. AuthorTells(n, a, due, w, q)' /\ Knowledge(n, a, due, w, q)'
  BY <1>1, <1>4 DEF AuthorTells, Apart, Busy, Genuine, Truthful, Sealed, Knowledge
<1>8. Streamed(n, a, due, w, q)'
  BY <1>1, <1>4, <1>5 DEF Streamed, Ahead, Untouched, Truthful, Sealed, Names, Busy
<1>9. InHandAs(n, a, w, q)' /\ Trees(n, a, due)'
  BY <1>1, <1>4, <1>5 DEF InHandAs, Trees, Incoming, Names, Busy
<1>10. Echoing(n)'
  BY <1>1, <1>4, <1>5 DEF Echoing, Apart, Genuine, Names, Busy, Holds, Incoming, MarkFor
<1>11. DueIsHeld(n, a, due)'
  BY <1>1, <1>4, <1>5 DEF DueIsHeld, Ahead, Untouched, Names, Busy
<1> QED BY <1>1, <1>4, <1>6, <1>7, <1>8, <1>9, <1>10, <1>11, BatchGoesOn

\* What the other node's publisher does to nothing but its own report.
LEMMA EchoGoesOn ==
    ASSUME TypeOK, TwoNodes, NEW a \in Node, NEW n \in Node \ {a}, NEW due, NEW w, NEW q,
           Batch(a, due, w, q),
           UNCHANGED <<disk, rx, versions, renamed, enc, sendSeq, recvSeq, log, acked>>,
           pending'[a] = pending[a], pub'[a] = pub[a], echo'[a] = echo[a],
           \A f \in due : echo'[n][f] = echo[n][f] /\ ~Names(n, f)', Echoing(n)'
    PROVE  OneBatch'
<1>1. /\ due \subseteq File /\ q \in {"level", "sealed", "opened"}
      /\ AuthorClear(a) /\ AuthorTells(n, a, due, w, q) /\ Streamed(n, a, due, w, q)
      /\ InHandAs(n, a, w, q) /\ Trees(n, a, due) /\ Knowledge(n, a, due, w, q)
      /\ Echoing(n) /\ DueIsHeld(n, a, due)
  BY BatchParts
<1>2. AuthorClear(a)'
  BY <1>1 DEF AuthorClear, Unmarked, Ahead
<1>3. AuthorTells(n, a, due, w, q)'
  BY <1>1 DEF AuthorTells, Apart, Busy, Genuine, Truthful, Sealed
<1>4. Streamed(n, a, due, w, q)'
  BY <1>1 DEF Streamed, Ahead, Untouched, Truthful, Sealed, Names, Busy
<1>5. InHandAs(n, a, w, q)' /\ Knowledge(n, a, due, w, q)'
  BY <1>1 DEF InHandAs, Knowledge, Incoming
<1>6. Trees(n, a, due)'
  BY <1>1 DEF Trees, Incoming
<1>7. DueIsHeld(n, a, due)'
  BY <1>1 DEF DueIsHeld, Ahead, Untouched, Names, Busy
<1> QED BY <1>1, <1>2, <1>3, <1>4, <1>5, <1>6, <1>7, BatchGoesOn

\* A report is not due before the mark it is to match is there; then it matches.
LEMMA EchoDrops ==
    ASSUME TypeOK, TwoNodes, FreshDir = {}, NEW a \in Node, NEW n \in Node \ {a},
           NEW due, NEW w, NEW q, Batch(a, due, w, q), PublisherStep(n)
    PROVE  OneBatch'
<1>0. /\ pub \in [Node -> PubState] /\ pending \in [Node -> SUBSET Change]
      /\ echo \in [Node -> [File -> Data \cup {NoMark, RemovedMark}]]
      /\ pub[n] \in PubState
  BY DEF TypeOK
<1>1. /\ due \subseteq File /\ Trees(n, a, due) /\ Echoing(n)
      /\ \A c \in pending[n] : c \in Change /\ c.file \in File
  BY <1>0, BatchParts, ChangeFields
<1>2. ASSUME NEW c \in pending[n], Fire(n, c)
      PROVE  OneBatch'
  <2>1. /\ pub[n] = Idle /\ pending' = [pending EXCEPT ![n] = @ \ {c}]
        /\ pub' = [pub EXCEPT ![n] = [at |-> "took", change |-> c]]
        /\ UNCHANGED <<disk, rx, versions, echo, renamed, enc, sendSeq, recvSeq, log, acked>>
    BY <1>2 DEF Fire, guardVars, chainVars, streamVars
  <2>2. /\ pending'[n] = pending[n] \ {c} /\ pub'[n] = [at |-> "took", change |-> c]
        /\ pending'[a] = pending[a] /\ pub'[a] = pub[a] /\ pub[n].at = "select"
    BY <1>0, <2>1 DEF Idle
  <2>3. \A f \in File : Names(n, f)' <=> Names(n, f)
    BY <2>2 DEF Names, Busy
  <2>4. ~Holds(n, c.file)
    BY <1>2 DEF Fire, Applying, Holds, Incoming
  <2>5. \A f \in File : Holds(n, f)' <=> Holds(n, f)
    BY <2>1 DEF Holds, Incoming
  <2>6. \A d \in pending[n] : d # c => d.file # c.file
    BY <1>1 DEF Echoing, Apart
  <2>7. Apart(n)'
    BY <1>1, <2>2, <2>6 DEF Echoing, Apart, Busy
  <2>8. /\ Genuine(n, c)' /\ echo'[n][c.file] = MarkFor(n, c)'
        /\ \A d \in pending'[n] : /\ Genuine(n, d)'
                                  /\ echo'[n][d.file] =
                                        IF Holds(n, d.file)' THEN NoMark ELSE MarkFor(n, d)'
    BY <1>1, <2>1, <2>2, <2>4, <2>5 DEF Echoing, Genuine, MarkFor
  <2>9. \A f \in File : Holds(n, f)' => \E d \in pending'[n] : d.file = f
    BY <1>1, <2>2, <2>4, <2>5 DEF Echoing
  <2>10. \A f \in File : renamed'[n][f] = NoMark /\ (echo'[n][f] # NoMark => Names(n, f)')
    BY <1>1, <2>1, <2>3 DEF Echoing
  <2>11. Echoing(n)'
    BY <2>2, <2>7, <2>8, <2>9, <2>10 DEF Echoing, Genuine, MarkFor, Holds
  <2> QED BY <1>1, <2>1, <2>2, <2>3, <2>11, EchoGoesOn DEF Trees
<1>3. ASSUME ReadFile(n)
      PROVE  OneBatch'
  <2>1. PICK c \in Change : pub[n].at = "took" /\ pub[n].change = c /\ c.kind = "modified"
    BY <1>0, <1>3, PubFields DEF ReadFile, Took
  <2>2. /\ disk[n][c.file] # Absent /\ echo[n][c.file] = disk[n][c.file]
        /\ c.file \in File
    BY <1>1, <2>1, ChangeFields DEF Echoing, Genuine, MarkFor
  <2>3. /\ pub' = [pub EXCEPT ![n] = [at |-> "hashed", file |-> c.file,
                                      data |-> disk[n][c.file]]]
        /\ UNCHANGED <<disk, rx, versions, echo, renamed, enc, sendSeq, recvSeq, log, acked,
                       pending>>
    BY <1>3, <2>1, <2>2 DEF ReadFile, fsVars, guardVars, chainVars, streamVars
  <2>4. /\ pub'[n] = [at |-> "hashed", file |-> c.file, data |-> disk[n][c.file]]
        /\ pub'[a] = pub[a]
    BY <1>0, <2>3
  <2>5. \A f \in File : Busy(n, f)' <=> Busy(n, f)
    BY <2>1, <2>4 DEF Busy
  <2>6. \A f \in File : Names(n, f)' <=> Names(n, f)
    BY <2>3, <2>5 DEF Names
  <2>7. Apart(n)'
    BY <1>1, <2>3, <2>5 DEF Echoing, Apart
  <2>8. \A f \in File : Holds(n, f)' <=> Holds(n, f)
    BY <2>3 DEF Holds, Incoming
  <2>9. Echoing(n)'
    BY <1>1, <2>2, <2>3, <2>4, <2>6, <2>7, <2>8 DEF Echoing, Genuine, MarkFor
  <2> QED BY <1>1, <2>3, <2>4, <2>6, <2>9, EchoGoesOn DEF Trees
<1>4. ASSUME NEW f \in File, Busy(n, f), \A g \in File : Busy(n, g) => g = f,
             echo' = [echo EXCEPT ![n][f] = NoMark], pub' = [pub EXCEPT ![n] = Idle],
             UNCHANGED <<disk, rx, versions, renamed, enc, sendSeq, recvSeq, log, acked,
                         pending>>
      PROVE  OneBatch'
  <2>1. /\ \A g \in File : echo'[n][g] = IF g = f THEN NoMark ELSE echo[n][g]
        /\ echo'[a] = echo[a] /\ pub'[a] = pub[a] /\ pub'[n].at = "select"
    BY <1>0, <1>4 DEF Idle
  <2>2. \A g \in File : ~Busy(n, g)'
    BY <2>1 DEF Busy
  <2>3. \A c \in pending[n] : c.file # f
    BY <1>1, <1>4 DEF Echoing, Apart
  <2>4. \A g \in File : Names(n, g)' <=> Names(n, g) /\ g # f
    BY <1>4, <2>2, <2>3 DEF Names
  <2>5. Apart(n)'
    BY <1>1, <1>4, <2>2 DEF Echoing, Apart
  <2>6. \A g \in File : Holds(n, g)' <=> Holds(n, g)
    BY <1>4 DEF Holds, Incoming
  <2>7. Echoing(n)'
    BY <1>1, <1>4, <2>1, <2>3, <2>4, <2>5, <2>6 DEF Echoing, Genuine, MarkFor
  <2>8. \A g \in due : g # f
    BY <1>1, <1>4 DEF Trees, Names
  <2> QED BY <1>1, <1>4, <2>1, <2>4, <2>7, <2>8, EchoGoesOn DEF Trees
<1>5. ASSUME IsEcho(n)
      PROVE  OneBatch'
  <2>1. /\ pub[n].at = "hashed" /\ pub[n].file \in File
        /\ Matches(n, pub[n].file, pub[n].data)
    BY <1>0, <1>1, <1>5, PubFields DEF IsEcho, Echoing, Matches
  <2>2. /\ echo' = [echo EXCEPT ![n][pub[n].file] = NoMark]
        /\ pub' = [pub EXCEPT ![n] = Idle]
        /\ UNCHANGED <<disk, rx, versions, renamed, enc, sendSeq, recvSeq, log, acked,
                       pending>>
    BY <1>5, <2>1 DEF IsEcho, Consume, fsVars, chainVars, streamVars
  <2>3. Busy(n, pub[n].file) /\ \A g \in File : Busy(n, g) => g = pub[n].file
    BY <2>1 DEF Busy
  <2> QED BY <1>4, <2>1, <2>2, <2>3
<1>6. ASSUME IsEchoRemove(n)
      PROVE  OneBatch'
  <2>1. PICK c \in Change : pub[n].at = "took" /\ pub[n].change = c /\ c.kind = "removed"
    BY <1>0, <1>6, PubFields DEF IsEchoRemove, Took
  <2>2. c.file \in File /\ Matches(n, c.file, RemovedMark)
    BY <1>1, <2>1, ChangeFields DEF Echoing, MarkFor, Matches
  <2>3. /\ echo' = [echo EXCEPT ![n][c.file] = NoMark] /\ pub' = [pub EXCEPT ![n] = Idle]
        /\ UNCHANGED <<disk, rx, versions, renamed, enc, sendSeq, recvSeq, log, acked,
                       pending>>
    BY <1>6, <2>1, <2>2 DEF IsEchoRemove, Consume, fsVars, chainVars, streamVars
  <2>4. Busy(n, c.file) /\ \A g \in File : Busy(n, g) => g = c.file
    BY <2>1 DEF Busy
  <2> QED BY <1>4, <2>2, <2>3, <2>4
<1>7. ~IsEchoRename(n) /\ ~Bump(n) /\ ~Publish(n)
  BY <1>1 DEF IsEchoRename, Bump, Publish, Took, Echoing, Genuine
<1> QED BY <1>2, <1>3, <1>5, <1>6, <1>7 DEF PublisherStep

\* What the other node's receiver leaves alone.
LEMMA HearerFrame ==
    ASSUME TypeOK, NEW a \in Node, NEW n \in Node \ {a}, NEW due, NEW w, NEW q,
           Batch(a, due, w, q), OnlyAt(n)
    PROVE  /\ AuthorClear(a)'
           /\ \A f \in File : Names(a, f)' <=> Names(a, f)
           /\ recvSeq'[n] = recvSeq[n] => AuthorTells(n, a, due, w, q)'
<1>1. AuthorClear(a) /\ AuthorTells(n, a, due, w, q)
  BY BatchParts
<1>2. AuthorClear(a)'
  BY <1>1 DEF AuthorClear, Unmarked, Ahead, OnlyAt
<1>3. \A f \in File : Names(a, f)' <=> Names(a, f)
  BY DEF Names, Busy, OnlyAt
<1>4. recvSeq'[n] = recvSeq[n] => AuthorTells(n, a, due, w, q)'
  BY <1>1 DEF AuthorTells, Apart, Busy, Genuine, Truthful, Sealed, OnlyAt
<1> QED BY <1>2, <1>3, <1>4

\* The receiver takes the next event: a write opens, being its author's next seal.
LEMMA BatchFetches ==
    ASSUME TypeOK, TwoNodes, NEW a \in Node, NEW n \in Node \ {a}, NEW due, NEW w, NEW q,
           Batch(a, due, w, q), rx[n] = "fetch", ReceiverStep(n)
    PROVE  OneBatch' /\ session' = session
<1>0. /\ rx \in [Node -> RxState] /\ recvSeq \in [Node -> Nat] /\ sendSeq \in [Node -> Nat]
      /\ acked[n] \in Nat /\ Len(log) \in Nat
  BY CalmTypes
<1>1. /\ due \subseteq File /\ AuthorTells(n, a, due, w, q)
      /\ Streamed(n, a, due, w, q) /\ InHandAs(n, a, w, q) /\ Trees(n, a, due)
      /\ Knowledge(n, a, due, w, q) /\ Echoing(n) /\ DueIsHeld(n, a, due)
  BY BatchParts
<1>2. PICK e \in Event : /\ e = Incoming(n) /\ acked[n] + 1 \in Ahead(n)
                         /\ e = log[acked[n] + 1] /\ acked[n] < Len(log)
  <2>1. acked[n] < Len(log)
    BY ReceiverMoves DEF SkipOwn, Fetch
  <2>2. acked[n] + 1 \in Ahead(n)
    BY <1>0, <2>1 DEF Ahead
  <2> QED BY <2>1, <2>2, AheadType DEF Incoming
<1>3. /\ Truthful(a, e) /\ ~Names(a, e.file)
      /\ \A j \in Ahead(n) : log[j].file = e.file => j = acked[n] + 1
      /\ e.op = "write" => e.file = w
      /\ Sealed(n, a, w, e) /\ (e.op = "write" => q = "sealed")
  BY <1>1, <1>2 DEF Streamed
<1>4. e.origin = a /\ e.op \in {"write", "remove"}
  BY <1>3 DEF Truthful
<1>5. Fetch(n)
  BY <1>2, <1>4, ReceiverMoves DEF SkipOwn
<1>6. UNCHANGED <<disk, pending, versions, echo, renamed, enc, sendSeq, log, acked, edits>>
  BY <1>5 DEF Fetch, fsVars, guardVars, streamVars, budgets
<1>7. ASSUME NEW step \in {"reconcile", "remove"}, Advance(n, step), UNCHANGED <<session, pub>>,
             \A m \in Node \ {n} : recvSeq'[m] = recvSeq[m]
      PROVE  /\ OnlyAt(n) /\ rx'[n] = step
             /\ \A i \in Nat : Untouched(n, i)' <=> Untouched(n, i)
             /\ Trees(n, a, due)' /\ Echoing(n)' /\ DueIsHeld(n, a, due)'
  <2>1. OnlyAt(n) /\ rx'[n] = step
    BY <1>0, <1>6, <1>7 DEF Advance, OnlyAt
  <2>2. \A i : Untouched(n, i)' <=> Untouched(n, i)
    BY <1>6, <2>1 DEF Untouched
  <2>3. \A f \in File : ~Holds(n, f) /\ ~Holds(n, f)'
    BY <2>1 DEF Holds
  <2>4. \A f \in File : /\ Names(n, f)' <=> Names(n, f)
                        /\ Names(a, f)' <=> Names(a, f)
    BY <1>6, <1>7 DEF Names, Busy
  <2>5. Trees(n, a, due)'
    BY <1>1, <1>6, <2>1, <2>4 DEF Trees
  <2>6. Echoing(n)'
    <3>1. \A c \in pending[n] : c.file \in File
      BY ChangeFields, CalmTypes
    <3> QED BY <1>1, <1>6, <1>7, <2>3, <2>4, <3>1 DEF Echoing, Apart, Busy, Genuine, MarkFor
  <2>7. DueIsHeld(n, a, due)'
    BY <1>1, <1>6, <2>2, <2>4 DEF DueIsHeld, Ahead
  <2> QED BY <2>1, <2>2, <2>5, <2>6, <2>7
<1>8. CASE e.op = "remove"
  <2>1. Advance(n, "remove") /\ UNCHANGED <<session, pub, recvSeq>>
    BY <1>2, <1>5, <1>8 DEF Fetch
  <2>2. /\ OnlyAt(n) /\ rx'[n] = "remove"
        /\ \A i \in Nat : Untouched(n, i)' <=> Untouched(n, i)
        /\ Trees(n, a, due)' /\ Echoing(n)' /\ DueIsHeld(n, a, due)'
    BY <1>7, <2>1
  <2>3. /\ AuthorClear(a)' /\ AuthorTells(n, a, due, w, q)'
        /\ \A f \in File : Names(a, f)' <=> Names(a, f)
    BY <2>1, <2>2, HearerFrame
  <2>4. Streamed(n, a, due, w, q)'
    <3>1. \A i \in Ahead(n) : log[i].file \in File /\ i \in Nat
      BY AheadType
    <3>2. \A i \in Ahead(n) : ~Names(a, log[i].file)'
      BY <1>1, <1>6, <2>1 DEF Streamed, Names, Busy
    <3>3. Ahead(n)' = Ahead(n)
      BY <1>6 DEF Ahead
    <3> QED BY <1>1, <1>6, <2>1, <2>2, <3>1, <3>2, <3>3
         DEF Streamed, Truthful, Sealed, Names, Busy
  <2>5. InHandAs(n, a, w, q)'
    <3>1. Incoming(n)' = e
      BY <1>2, <1>6 DEF Incoming
    <3> QED BY <1>8, <2>2, <3>1 DEF InHandAs
  <2>6. Knowledge(n, a, due, w, q)'
    BY <1>1, <1>6, <2>1 DEF Knowledge
  <2> QED BY <1>1, <2>1, <2>2, <2>3, <2>4, <2>5, <2>6, BatchGoesOn, BatchParts
<1>9. CASE e.op = "write"
  <2>1. Opens(n, e) /\ q = "sealed" /\ e.file = w /\ e.version = versions[a][w]
    BY <1>3, <1>9 DEF Sealed, Opens
  <2>2. /\ Advance(n, "reconcile") /\ UNCHANGED <<session, pub>>
        /\ recvSeq' = IF enc THEN [recvSeq EXCEPT ![n] = @ + 1] ELSE recvSeq
    BY <1>2, <1>5, <1>9, <2>1 DEF Fetch
  <2>3. /\ \A m \in Node \ {n} : recvSeq'[m] = recvSeq[m]
        /\ enc => recvSeq'[n] = recvSeq[n] + 1
    BY <1>0, <2>2
  <2>4. /\ OnlyAt(n) /\ rx'[n] = "reconcile"
        /\ \A i \in Nat : Untouched(n, i)' <=> Untouched(n, i)
        /\ Trees(n, a, due)' /\ Echoing(n)' /\ DueIsHeld(n, a, due)'
    BY <1>7, <2>2, <2>3
  <2>5. AuthorClear(a)'
    BY <2>4, HearerFrame
  <2>6. AuthorTells(n, a, due, w, "opened")'
    BY <1>1, <1>3, <1>6, <2>1, <2>2
    DEF AuthorTells, Apart, Names, Busy, Genuine, Truthful, Sealed
  <2>7. Streamed(n, a, due, w, "opened")'
    <3>1. \A i \in Ahead(n) : log[i].file \in File /\ i \in Nat
      BY AheadType
    <3>2. \A i \in Ahead(n) : i # acked[n] + 1 => log[i].op # "write"
      BY <1>1, <1>3, <2>1 DEF Streamed
    <3>3. Ahead(n)' = Ahead(n)
      BY <1>6 DEF Ahead
    <3>4. \A i \in Ahead(n) : i > acked[n] + 1 => log[i].op # "write"
      BY <1>0, <3>2
    <3> QED BY <1>1, <1>6, <2>2, <2>4, <3>1, <3>3, <3>4
         DEF Streamed, Truthful, Sealed, Names, Busy
  <2>8. InHandAs(n, a, w, "opened")'
    <3>1. Incoming(n)' = e
      BY <1>2, <1>6 DEF Incoming
    <3> QED BY <1>6, <2>1, <2>4, <3>1 DEF InHandAs
  <2>9. Knowledge(n, a, due, w, "opened")'
    BY <1>0, <1>1, <1>6, <2>1, <2>3 DEF Knowledge
  <2> QED BY <1>1, <2>2, <2>4, <2>5, <2>6, <2>7, <2>8, <2>9, BatchGoesOn
<1> QED BY <1>4, <1>8, <1>9

\* The event in hand, and where it stands in the batch.
LEMMA EventInHand ==
    ASSUME TypeOK, NEW a \in Node, NEW n \in Node \ {a}, NEW due, NEW w, NEW q,
           Batch(a, due, w, q), rx[n] # "fetch"
    PROVE  \E e \in Event :
              /\ e = Incoming(n) /\ e = log[acked[n] + 1] /\ acked[n] + 1 \in Ahead(n)
              /\ e.file \in File /\ rx[n] \in StepsFor(e.op)
              /\ Truthful(a, e) /\ ~Names(a, e.file) /\ (e.op = "write" => e.file = w)
              /\ e.file \in due <=> rx[n] \in {"reconcile", "apply", "remove"}
              /\ \A j \in Ahead(n) : log[j].file = e.file => j = acked[n] + 1
              /\ e.op \in {"write", "remove"}
              /\ rx[n] \notin {"reconcile"} /\ e.op = "write" => q = "level"
<1>1. Streamed(n, a, due, w, q) /\ InHandAs(n, a, w, q)
  BY BatchParts
<1>2. rx[n] # "returned"
  BY <1>1 DEF InHandAs
<1>3. /\ acked[n] + 1 \in Ahead(n) /\ Incoming(n) = log[acked[n] + 1]
      /\ rx[n] \in StepsFor(Incoming(n).op) /\ Incoming(n) \in Event
  BY <1>2, AheadOfHand, IncomingType
<1>4. PICK e \in Event : e = Incoming(n) /\ e = log[acked[n] + 1] /\ e.file \in File
  BY <1>3, EventFields
<1>5. /\ Truthful(a, e) /\ ~Names(a, e.file) /\ (e.op = "write" => e.file = w)
      /\ \A j \in Ahead(n) : log[j].file = e.file => j = acked[n] + 1
      /\ e.file \in due <=> Untouched(n, acked[n] + 1)
  BY <1>1, <1>3, <1>4 DEF Streamed
<1>6. acked[n] \in Nat
  BY ReceiverStream
<1>7. Untouched(n, acked[n] + 1) <=> rx[n] \in {"reconcile", "apply", "remove"}
  BY <1>6 DEF Untouched
<1>8. e.op \in {"write", "remove"}
  BY <1>5 DEF Truthful
<1> QED BY <1>1, <1>3, <1>4, <1>5, <1>7, <1>8 DEF InHandAs

\* The stream, for a receiver that moves on with the event it holds.
LEMMA StreamGoesOn ==
    ASSUME TypeOK, NEW a \in Node, NEW n \in Node \ {a}, NEW due, NEW w, NEW q,
           Batch(a, due, w, q), rx[n] # "fetch", NEW rest, NEW p,
           OnlyAt(n), acked'[n] = acked[n], recvSeq'[n] = recvSeq[n],
           rx'[n] \notin {"fetch", "reconcile"},
           rest \subseteq due, \A f \in due : f \in rest \/ f = Incoming(n).file,
           Incoming(n).file \in rest <=> rx'[n] \in {"apply", "remove"},
           q = "sealed" => p = "sealed"
    PROVE  /\ Streamed(n, a, rest, w, p)'
           /\ DueIsHeld(n, a, rest)'
           /\ Incoming(n)' = Incoming(n)
<1>1. Streamed(n, a, due, w, q) /\ DueIsHeld(n, a, due) /\ due \subseteq File
  BY BatchParts
<1>2. PICK e \in Event :
         /\ e = Incoming(n) /\ e = log[acked[n] + 1] /\ acked[n] + 1 \in Ahead(n)
         /\ ~Names(a, e.file)
         /\ \A j \in Ahead(n) : log[j].file = e.file => j = acked[n] + 1
         /\ e.file \in due <=> rx[n] \in {"reconcile", "apply", "remove"}
  BY EventInHand
<1>3. \A i \in Ahead(n) : log[i].file \in File /\ i \in Nat /\ acked[n] \in Nat /\ acked[n] < i
  BY AheadType
<1>4. /\ Ahead(n)' = Ahead(n) /\ log' = log /\ disk'[a] = disk[a]
      /\ versions'[a] = versions[a] /\ enc' = enc
  BY DEF Ahead, OnlyAt
<1>5. \A f \in File : Names(a, f)' <=> Names(a, f)
  BY DEF Names, Busy, OnlyAt
<1>6. Incoming(n)' = Incoming(n)
  BY <1>4 DEF Incoming
<1>7. \A i \in Ahead(n) : /\ i # acked[n] + 1 => i > acked[n] + 1
                          /\ i # acked[n] + 1 => log[i].file # e.file
  BY <1>2, <1>3
<1>8. \A i \in Ahead(n) : log[i].file \in rest <=> Untouched(n, i)'
  <2> TAKE i \in Ahead(n)
  <2>1. CASE i = acked[n] + 1
    <3>1. log[i].file = e.file /\ acked[n] \in Nat
      BY <1>2, <1>3, <2>1
    <3>2. Untouched(n, i)' <=> rx'[n] \in {"apply", "remove"}
      BY <2>1, <3>1 DEF Untouched
    <3> QED BY <1>2, <3>1, <3>2
  <2>2. CASE i # acked[n] + 1
    <3>1. Untouched(n, i) /\ Untouched(n, i)' /\ log[i].file # e.file
      BY <1>7, <2>2 DEF Untouched, OnlyAt
    <3>2. log[i].file \in due
      BY <1>1, <3>1 DEF Streamed
    <3> QED BY <1>2, <3>1, <3>2
  <2> QED BY <2>1, <2>2
<1>9. Streamed(n, a, rest, w, p)'
  <2>1. ASSUME NEW i \in Ahead(n)
        PROVE  /\ Truthful(a, log[i]) /\ ~Names(a, log[i].file)
               /\ \A j \in Ahead(n) : log[j].file = log[i].file => j = i
               /\ log[i].op = "write" => log[i].file = w
               /\ i > acked[n] + 1 =>
                     Sealed(n, a, w, log[i]) /\ (log[i].op = "write" => q = "sealed")
    BY <1>1 DEF Streamed
  <2>2. ASSUME NEW i \in Ahead(n)
        PROVE  Truthful(a, log[i])' /\ ~Names(a, log[i].file)'
    BY <1>3, <1>4, <1>5, <2>1 DEF Truthful, Names, Busy
  <2>3. ASSUME NEW i \in Ahead(n), i > acked[n] + 1
        PROVE  Sealed(n, a, w, log[i])' /\ (log[i].op = "write" => p = "sealed")
    BY <1>4, <2>1, <2>3 DEF Sealed
  <2> QED BY <1>4, <1>8, <2>1, <2>2, <2>3 DEF Streamed, Truthful, Sealed, Names, Busy
<1>10. DueIsHeld(n, a, rest)'
  <2> SUFFICES ASSUME NEW f \in rest
               PROVE  \/ Names(a, f)'
                      \/ \E i \in Ahead(n)' : log'[i].file = f /\ Untouched(n, i)'
    BY DEF DueIsHeld
  <2>1. f \in due /\ f \in File
    BY <1>1
  <2>2. CASE Names(a, f)
    BY <1>5, <2>1, <2>2
  <2>3. CASE \E i \in Ahead(n) : log[i].file = f /\ Untouched(n, i)
    BY <1>4, <1>8, <2>3
  <2> QED BY <1>1, <2>1, <2>2, <2>3 DEF DueIsHeld
<1> QED BY <1>6, <1>9, <1>10

\* The write is new to the node: its version is stored and it is to be applied.
LEMMA BatchStores ==
    ASSUME TypeOK, TwoNodes, NEW a \in Node, NEW n \in Node \ {a}, NEW due, NEW w, NEW q,
           Batch(a, due, w, q), rx[n] = "reconcile", ReceiverStep(n)
    PROVE  OneBatch' /\ session' = session
<1>0. /\ rx \in [Node -> RxState] /\ versions \in [Node -> [File -> Vector]]
  BY CalmTypes
<1>1. /\ due \subseteq File /\ AuthorTells(n, a, due, w, q)
      /\ InHandAs(n, a, w, q) /\ Trees(n, a, due)
      /\ Knowledge(n, a, due, w, q) /\ Echoing(n)
  BY BatchParts
<1>2. PICK e \in Event :
         /\ e = Incoming(n) /\ e.file \in File /\ rx[n] \in StepsFor(e.op)
         /\ ~Names(a, e.file) /\ (e.op = "write" => e.file = w) /\ e.file \in due
  BY EventInHand
<1>3. e.op = "write" /\ e.file = w /\ w \in File
  BY <1>2 DEF StepsFor
<1>4. q = "opened" /\ e.version = versions[a][w]
  BY <1>1, <1>2 DEF InHandAs
<1>5. PICK v \in Vector : v = versions[n][w]
  BY <1>0, <1>3
<1>6. e.version = Bumped(v, a)
  BY <1>1, <1>3, <1>4, <1>5 DEF Knowledge
<1>7. After(Bumped(v, a), v)
  BY DEF Vector, Bumped, After, KnowsMore
<1>8. /\ After(e.version, v) /\ Reconciled(v, e.version) = e.version
      /\ ~Concurrent(e.version, v) /\ ~Same(e.version, v) /\ ~Before(e.version, v)
  BY <1>6, <1>7 DEF Reconciled, After, Concurrent, Same, Before
<1>9. Reconcile(n)
  BY ReceiverMoves
<1>10. /\ versions' = [versions EXCEPT ![n][w] = e.version]
       /\ rx' = [rx EXCEPT ![n] = "apply"]
       /\ UNCHANGED <<disk, pending, session, pub, echo, renamed, enc, sendSeq, recvSeq,
                      log, acked, edits>>
  BY <1>2, <1>3, <1>5, <1>8, <1>9
  DEF Reconcile, StoreVersion, Advance, fsVars, chainVars, streamVars, budgets
<1>11. /\ \A f \in File : versions'[n][f] = IF f = w THEN e.version ELSE versions[n][f]
       /\ \A m \in Node \ {n} : versions'[m] = versions[m] /\ rx'[m] = rx[m]
       /\ rx'[n] = "apply"
  BY <1>0, <1>3, <1>10
<1>12. OnlyAt(n)
  BY <1>10, <1>11 DEF OnlyAt
<1>13. AuthorClear(a)' /\ AuthorTells(n, a, due, w, q)'
  BY <1>10, <1>12, HearerFrame
<1>14. AuthorTells(n, a, due, w, "level")'
  BY <1>4, <1>13 DEF AuthorTells
<1>15. /\ Streamed(n, a, due, w, "level")' /\ DueIsHeld(n, a, due)'
       /\ Incoming(n)' = Incoming(n)
  BY <1>2, <1>4, <1>10, <1>11, <1>12, StreamGoesOn
<1>16. InHandAs(n, a, w, "level")'
  BY <1>11 DEF InHandAs
<1>17. Trees(n, a, due)'
  BY <1>1, <1>10, <1>11 DEF Trees, Names, Busy
<1>18. Knowledge(n, a, due, w, "level")'
  <2>1. \A f \in File : versions[a][f] = IF f = w THEN Bumped(versions[n][f], a)
                                        ELSE versions[n][f]
    BY <1>1, <1>4 DEF Knowledge
  <2>2. \A f \in File : versions'[a][f] = versions'[n][f]
    BY <1>4, <1>11, <2>1
  <2> QED BY <1>1, <1>4, <1>10, <2>2 DEF Knowledge
<1>19. Echoing(n)'
  <2>1. \A f \in File : ~Holds(n, f) /\ ~Holds(n, f)'
    BY <1>11 DEF Holds
  <2>2. \A c \in pending[n] : c.file \in File
    BY ChangeFields, CalmTypes
  <2> QED BY <1>1, <1>10, <2>1, <2>2 DEF Echoing, Apart, Names, Busy, Genuine, MarkFor
<1> QED BY <1>1, <1>10, <1>13, <1>14, <1>15, <1>16, <1>17, <1>18, <1>19, BatchGoesOn

\* The debounce table of a node that reports no rename has one entry per file.
LEMMA ObservedAgain ==
    ASSUME TypeOK, NEW n \in Node, session[n] = "running", Echoing(n),
           NEW c, c.kind # "renamed", Observe(n, c)
    PROVE  /\ pending'[n] = {d \in pending[n] : d.file # c.file} \cup {c}
           /\ \A m \in Node \ {n} : pending'[m] = pending[m]
<1>1. pending \in [Node -> SUBSET Change] /\ pending' = [pending EXCEPT ![n] = Scheduled(@, c)]
  BY DEF TypeOK, Observe
<1>2. \A d \in pending[n] : d.kind # "renamed"
  BY DEF Echoing, Genuine
<1>3. Scheduled(pending[n], c) = {d \in pending[n] : d.file # c.file} \cup {c}
  BY <1>2 DEF Scheduled, SameKey
<1> QED BY <1>1, <1>3

\* A change of f on n's disk that is yet to be marked is reported, f alone.
LEMMA EchoBegins ==
    ASSUME TypeOK, NEW n \in Node, Echoing(n), NEW f \in File, NEW c, c.file = f,
           ~Busy(n, f), echo[n][f] = NoMark,
           pending'[n] = {d \in pending[n] : d.file # f} \cup {c},
           pub'[n] = pub[n], echo'[n] = echo[n], renamed'[n] = renamed[n],
           \A g \in File : g # f => disk'[n][g] = disk[n][g],
           Genuine(n, c)',
           \A g \in File : Holds(n, g)' <=> g = f,
           \A g \in File : Holds(n, g) => g = f
    PROVE  /\ Echoing(n)'
           /\ \A g \in File : Names(n, g)' <=> Names(n, g) \/ g = f
<1>0. /\ \A d \in pending[n] : d.file \in File
      /\ pub[n].at = "took" => pub[n].change.file \in File
      /\ pub[n].at = "hashed" => pub[n].file \in File
  <2>1. pub[n] \in PubState /\ \A d \in pending[n] : d \in Change
    BY DEF TypeOK
  <2> QED BY <2>1, PubFields, ChangeFields
<1>1. /\ \A g \in File : Busy(n, g)' <=> Busy(n, g)
      /\ \A d \in pending'[n] : d = c \/ (d \in pending[n] /\ d.file # f)
      /\ c \in pending'[n] /\ \A d \in pending[n] : d.file # f => d \in pending'[n]
  BY DEF Busy
<1>2. \A g \in File : Names(n, g)' <=> Names(n, g) \/ g = f
  BY <1>1 DEF Names
<1>3. Apart(n)'
  BY <1>0, <1>1 DEF Echoing, Apart
<1>4. \A g \in File : renamed'[n][g] = NoMark /\ (echo'[n][g] # NoMark => Names(n, g)')
  BY <1>2 DEF Echoing
<1>5. ASSUME NEW d \in pending'[n]
      PROVE  /\ Genuine(n, d)'
             /\ echo'[n][d.file] = IF Holds(n, d.file)' THEN NoMark ELSE MarkFor(n, d)'
  <2>1. CASE d = c
    BY <2>1
  <2>2. CASE d \in pending[n] /\ d.file # f
    <3>1. d.file \in File /\ disk'[n][d.file] = disk[n][d.file]
      BY <1>0, <2>2
    <3>2. ~Holds(n, d.file)' /\ ~Holds(n, d.file)
      BY <2>2, <3>1
    <3>3. Genuine(n, d) /\ echo[n][d.file] = MarkFor(n, d)
      BY <2>2, <3>2 DEF Echoing
    <3> QED BY <3>1, <3>2, <3>3 DEF Genuine, MarkFor
  <2> QED BY <1>1, <2>1, <2>2
<1>6. \A g \in File : Holds(n, g)' => \E d \in pending'[n] : d.file = g
  BY <1>1
<1>7. /\ pub'[n].at \in {"select", "took", "hashed"}
      /\ pub'[n].at = "took" =>
            Genuine(n, pub[n].change)' /\ echo'[n][pub'[n].change.file] = MarkFor(n, pub[n].change)'
      /\ pub'[n].at = "hashed" =>
            /\ pub'[n].data = disk'[n][pub'[n].file]
            /\ echo'[n][pub'[n].file] = pub'[n].data
  <2>1. pub[n].at = "took" => pub[n].change.file # f
    BY <1>0 DEF Busy
  <2>2. pub[n].at = "hashed" => pub[n].file # f
    BY <1>0 DEF Busy
  <2> QED BY <1>0, <2>1, <2>2 DEF Echoing, Genuine, MarkFor
<1>8. Echoing(n)'
  BY <1>3, <1>4, <1>5, <1>6, <1>7 DEF Echoing, Genuine, MarkFor, Holds, Names, Busy
<1> QED BY <1>2, <1>8

\* The disk is touched: the file is not due any more, and the echo begins.
LEMMA BatchTouches ==
    ASSUME TypeOK, TwoNodes, NEW a \in Node, NEW n \in Node \ {a}, NEW due, NEW w, NEW q,
           Batch(a, due, w, q), rx[n] \in {"apply", "remove"}, session[n] = "running",
           ReceiverStep(n)
    PROVE  OneBatch' /\ session' = session
<1>0. /\ rx \in [Node -> RxState] /\ disk \in [Node -> [File -> Data \cup {Absent}]]
      /\ \A c \in pending[n] : c.file \in File
  BY CalmTypes, ChangeFields
<1>1. /\ due \subseteq File /\ AuthorTells(n, a, due, w, q) /\ InHandAs(n, a, w, q)
      /\ Trees(n, a, due) /\ Knowledge(n, a, due, w, q) /\ Echoing(n)
      /\ q \in {"level", "sealed", "opened"}
  BY BatchParts
<1>2. PICK e \in Event :
         /\ e = Incoming(n) /\ e.file \in File /\ rx[n] \in StepsFor(e.op)
         /\ Truthful(a, e) /\ ~Names(a, e.file) /\ (e.op = "write" => e.file = w)
         /\ e.file \in due /\ e.op \in {"write", "remove"}
         /\ e.op = "write" => q = "level"
  BY EventInHand
<1>3. PICK f \in File : f = e.file
  BY <1>2
<1>4. /\ echo[n][f] = NoMark /\ ~Names(n, f) /\ ~Busy(n, f)
      /\ disk[a][f] = Absent => disk[n][f] # Absent
  BY <1>1, <1>2, <1>3 DEF Trees, Names
<1>5. ASSUME NEW c, NEW d, NEW step \in {"write", "markRemoved"},
             c.file = f, c.kind # "renamed",
             disk' = [disk EXCEPT ![n][f] = d], Observe(n, c), Advance(n, step),
             UNCHANGED <<session, pub, versions, echo, renamed, enc, sendSeq, recvSeq, log,
                         acked, edits>>,
             IF d = Absent THEN c.kind = "removed" ELSE c.kind = "modified",
             step = "write" \/ d = disk[a][f]
      PROVE  OneBatch'
  <2>1. /\ rx'[n] = step /\ \A m \in Node \ {n} : rx'[m] = rx[m] /\ disk'[m] = disk[m]
        /\ disk'[n][f] = d /\ \A g \in File : g # f => disk'[n][g] = disk[n][g]
    BY <1>0, <1>5 DEF Advance
  <2>2. /\ pending'[n] = {x \in pending[n] : x.file # f} \cup {c}
        /\ \A m \in Node \ {n} : pending'[m] = pending[m]
    BY <1>1, <1>5, ObservedAgain
  <2>3. OnlyAt(n)
    BY <1>5, <2>1, <2>2 DEF OnlyAt
  <2>4. AuthorClear(a)' /\ AuthorTells(n, a, due, w, q)'
    BY <1>5, <2>3, HearerFrame
  <2>5. AuthorTells(n, a, due \ {f}, w, q)'
    <3>1. \A x \in pending'[a] : x.file \in File
      BY <2>2, ChangeFields, CalmTypes
    <3>2. ~Names(a, f)'
      BY <1>2, <1>3, <2>3, HearerFrame
    <3> QED BY <2>4, <3>1, <3>2 DEF AuthorTells, Names, Busy
  <2>6. /\ Streamed(n, a, due \ {f}, w, q)' /\ DueIsHeld(n, a, due \ {f})'
        /\ Incoming(n)' = Incoming(n)
    <3>1. PICK rest : rest = due \ {f}
      OBVIOUS
    <3>2. /\ rest \subseteq due /\ \A g \in due : g \in rest \/ g = Incoming(n).file
          /\ Incoming(n).file \notin rest
      BY <1>2, <1>3, <3>1
    <3>3. rx'[n] \notin {"fetch", "reconcile", "apply", "remove"}
      BY <2>1
    <3>4. Streamed(n, a, rest, w, q)' /\ DueIsHeld(n, a, rest)' /\ Incoming(n)' = Incoming(n)
      BY <1>5, <2>3, <3>2, <3>3, StreamGoesOn
    <3> QED BY <3>1, <3>4
  <2>7. InHandAs(n, a, w, q)'
    BY <1>2, <2>1, <2>6 DEF InHandAs
  <2>8. \A g \in File : /\ Holds(n, g)' <=> g = f
                        /\ ~Holds(n, g)
    BY <1>2, <1>3, <2>1, <2>6 DEF Holds
  <2>9. Genuine(n, c)'
    BY <1>5, <2>1 DEF Genuine
  <2>10. /\ Echoing(n)'
         /\ \A g \in File : Names(n, g)' <=> Names(n, g) \/ g = f
    BY <1>1, <1>4, <1>5, <2>1, <2>2, <2>8, <2>9, EchoBegins
  <2>11. Trees(n, a, due \ {f})'
    <3> SUFFICES ASSUME NEW g \in File
                 PROVE  IF g \in due \ {f}
                        THEN /\ echo'[n][g] = NoMark /\ ~Names(n, g)'
                             /\ disk'[a][g] = Absent => disk'[n][g] # Absent
                        ELSE \/ disk'[a][g] = disk'[n][g]
                             \/ rx'[n] = "write" /\ Incoming(n)'.file = g
      BY DEF Trees
    <3>1. CASE g = f
      BY <1>2, <1>3, <1>5, <2>1, <2>6, <3>1
    <3>2. CASE g # f
      BY <1>1, <1>5, <2>1, <2>10, <3>2 DEF Trees
    <3> QED BY <3>1, <3>2
  <2>12. Knowledge(n, a, due \ {f}, w, q)'
    <3>1. q # "level" => f # w
      <4>1. CASE e.op = "write"
        BY <1>2, <4>1
      <4>2. CASE e.op = "remove"
        <5>1. disk[a][f] = Absent
          BY <1>2, <1>3, <4>2 DEF Truthful
        <5>2. q # "level" => disk[a][w] # Absent
          BY <1>1 DEF Knowledge
        <5> QED BY <5>1, <5>2
      <4> QED BY <1>2, <4>1, <4>2
    <3> QED BY <1>1, <1>5, <3>1 DEF Knowledge
  <2> QED BY <1>1, <2>4, <2>5, <2>6, <2>7, <2>10, <2>11, <2>12, BatchGoesOn
<1>6. CASE rx[n] = "apply"
  <2>1. PICK c : c = [kind |-> "modified", file |-> f]
    OBVIOUS
  <2>2. Truncate(n)
    BY <1>6, ReceiverMoves
  <2>3. /\ disk' = [disk EXCEPT ![n][f] = Torn] /\ Observe(n, c) /\ Advance(n, "write")
        /\ UNCHANGED <<session, pub, versions, echo, renamed, enc, sendSeq, recvSeq, log,
                       acked, edits>>
    BY <1>2, <1>3, <2>1, <2>2 DEF Truncate, guardVars, chainVars, streamVars, budgets
  <2> QED BY <1>5, <2>1, <2>3, ConstantsOK
<1>7. CASE rx[n] = "remove"
  <2>1. PICK c : c = [kind |-> "removed", file |-> f]
    OBVIOUS
  <2>2. ApplyRemove(n)
    BY <1>7, ReceiverMoves
  <2>3. e.op = "remove" /\ disk[a][f] = Absent /\ disk[n][f] # Absent
    BY <1>2, <1>3, <1>4, <1>7 DEF StepsFor, Truthful
  <2>4. /\ disk' = [disk EXCEPT ![n][f] = Absent] /\ Observe(n, c)
        /\ Advance(n, "markRemoved")
        /\ UNCHANGED <<session, pub, versions, echo, renamed, enc, sendSeq, recvSeq, log,
                       acked, edits>>
    BY <1>2, <1>3, <2>1, <2>2, <2>3 DEF ApplyRemove, guardVars, chainVars, streamVars, budgets
  <2> QED BY <1>5, <2>1, <2>3, <2>4
<1> QED BY <1>6, <1>7

\* The rest of the content is written: the trees agree on the file again.
LEMMA BatchWrites ==
    ASSUME TypeOK, TwoNodes, NEW a \in Node, NEW n \in Node \ {a}, NEW due, NEW w, NEW q,
           Batch(a, due, w, q), rx[n] = "write", session[n] = "running", ReceiverStep(n)
    PROVE  OneBatch' /\ session' = session
<1>0. /\ rx \in [Node -> RxState] /\ disk \in [Node -> [File -> Data \cup {Absent}]]
  BY CalmTypes
<1>1. /\ due \subseteq File /\ Trees(n, a, due) /\ Knowledge(n, a, due, w, q) /\ Echoing(n)
      /\ q \in {"level", "sealed", "opened"}
  BY BatchParts
<1>2. PICK e \in Event :
         /\ e = Incoming(n) /\ e.file \in File /\ rx[n] \in StepsFor(e.op)
         /\ Truthful(a, e) /\ e.file \notin due /\ e.op \in {"write", "remove"}
         /\ e.op = "write" => q = "level"
  BY EventInHand
<1>3. PICK f \in File : f = e.file
  BY <1>2
<1>4. e.op = "write" /\ q = "level" /\ disk[a][f] = e.data /\ e.data # Absent
  BY <1>2, <1>3 DEF StepsFor, Truthful
<1>5. PICK c : c = [kind |-> "modified", file |-> f]
  OBVIOUS
<1>6. /\ disk' = [disk EXCEPT ![n][f] = e.data] /\ Observe(n, c)
      /\ rx' = [rx EXCEPT ![n] = "markApplied"]
      /\ UNCHANGED <<session, pub, versions, echo, renamed, enc, sendSeq, recvSeq, log,
                     acked, edits>>
  BY <1>2, <1>3, <1>5, ReceiverMoves
  DEF ApplyWrite, Advance, guardVars, chainVars, streamVars, budgets
<1>7. /\ rx'[n] = "markApplied"
      /\ \A m \in Node \ {n} : rx'[m] = rx[m] /\ disk'[m] = disk[m]
      /\ disk'[n][f] = e.data /\ \A g \in File : g # f => disk'[n][g] = disk[n][g]
  BY <1>0, <1>6
<1>8. /\ pending'[n] = {x \in pending[n] : x.file # f} \cup {c}
      /\ \A m \in Node \ {n} : pending'[m] = pending[m]
  BY <1>1, <1>5, <1>6, ObservedAgain
<1>9. OnlyAt(n)
  BY <1>6, <1>7, <1>8 DEF OnlyAt
<1>10. AuthorClear(a)' /\ AuthorTells(n, a, due, w, q)'
  BY <1>6, <1>9, HearerFrame
<1>11. /\ Streamed(n, a, due, w, q)' /\ DueIsHeld(n, a, due)' /\ Incoming(n)' = Incoming(n)
  <2>1. Incoming(n).file \notin due /\ rx'[n] \notin {"fetch", "reconcile", "apply", "remove"}
    BY <1>2, <1>7
  <2> QED BY <1>6, <1>9, <2>1, StreamGoesOn
<1>12. InHandAs(n, a, w, q)'
  BY <1>4, <1>7, <1>11 DEF InHandAs
<1>13. \A g \in File : (Holds(n, g)' <=> g = f) /\ (Holds(n, g) <=> g = f)
  BY <1>2, <1>3, <1>7, <1>11 DEF Holds
<1>14. echo[n][f] = NoMark /\ ~Busy(n, f)
  <2>1. PICK d \in pending[n] : d.file = f
    BY <1>1, <1>13 DEF Echoing
  <2> QED BY <1>1, <1>13, <2>1 DEF Echoing, Apart
<1>15. Genuine(n, c)'
  BY <1>4, <1>5, <1>7 DEF Genuine
<1>16. /\ Echoing(n)'
       /\ \A g \in File : Names(n, g)' <=> Names(n, g) \/ g = f
  BY <1>1, <1>5, <1>6, <1>7, <1>8, <1>13, <1>14, <1>15, EchoBegins
<1>17. Trees(n, a, due)'
  <2> SUFFICES ASSUME NEW g \in File
               PROVE  IF g \in due
                      THEN /\ echo'[n][g] = NoMark /\ ~Names(n, g)'
                           /\ disk'[a][g] = Absent => disk'[n][g] # Absent
                      ELSE \/ disk'[a][g] = disk'[n][g]
                           \/ rx'[n] = "write" /\ Incoming(n)'.file = g
    BY DEF Trees
  <2>1. CASE g = f
    BY <1>2, <1>3, <1>4, <1>7, <2>1
  <2>2. CASE g # f
    BY <1>1, <1>2, <1>3, <1>6, <1>7, <1>16, <2>2 DEF Trees
  <2> QED BY <2>1, <2>2
<1>18. Knowledge(n, a, due, w, q)'
  BY <1>1, <1>4, <1>6 DEF Knowledge
<1> QED BY <1>1, <1>6, <1>10, <1>11, <1>12, <1>16, <1>17, <1>18, BatchGoesOn

\* The mark the pending report will find is left in the EchoGuard.
LEMMA BatchMarks ==
    ASSUME TypeOK, TwoNodes, NEW a \in Node, NEW n \in Node \ {a}, NEW due, NEW w, NEW q,
           Batch(a, due, w, q), rx[n] \in {"markApplied", "markRemoved"}, ReceiverStep(n)
    PROVE  OneBatch' /\ session' = session
<1>0. /\ rx \in [Node -> RxState]
      /\ echo \in [Node -> [File -> Data \cup {NoMark, RemovedMark}]]
      /\ \A c \in pending[n] : c.file \in File
  BY CalmTypes, ChangeFields
<1>1. /\ due \subseteq File /\ InHandAs(n, a, w, q) /\ Trees(n, a, due)
      /\ Knowledge(n, a, due, w, q) /\ Echoing(n) /\ q \in {"level", "sealed", "opened"}
  BY BatchParts
<1>2. PICK e \in Event :
         /\ e = Incoming(n) /\ e.file \in File /\ rx[n] \in StepsFor(e.op)
         /\ Truthful(a, e) /\ e.file \notin due /\ e.op \in {"write", "remove"}
  BY EventInHand
<1>3. PICK f \in File : f = e.file
  BY <1>2
<1>4. PICK mark : mark = IF e.op = "write" THEN e.data ELSE RemovedMark
  OBVIOUS
<1>5. /\ echo' = [echo EXCEPT ![n][f] = mark] /\ rx' = [rx EXCEPT ![n] = "ack"]
      /\ UNCHANGED <<disk, pending, session, pub, versions, renamed, enc, sendSeq, recvSeq,
                     log, acked, edits>>
  <2>1. CASE rx[n] = "markApplied"
    <3>1. e.op = "write" /\ MarkApplied(n)
      BY <1>2, <2>1, ReceiverMoves DEF StepsFor
    <3> QED BY <1>2, <1>3, <1>4, <3>1
         DEF MarkApplied, Advance, fsVars, chainVars, streamVars, budgets
  <2>2. CASE rx[n] = "markRemoved"
    <3>1. e.op = "remove" /\ MarkRemoved(n)
      BY <1>2, <2>2, ReceiverMoves DEF StepsFor
    <3> QED BY <1>2, <1>3, <1>4, <3>1
         DEF MarkRemoved, Advance, fsVars, chainVars, streamVars, budgets
  <2> QED BY <2>1, <2>2
<1>6. /\ rx'[n] = "ack" /\ \A m \in Node \ {n} : rx'[m] = rx[m] /\ echo'[m] = echo[m]
      /\ echo'[n][f] = mark /\ \A g \in File : g # f => echo'[n][g] = echo[n][g]
  BY <1>0, <1>5
<1>7. OnlyAt(n)
  BY <1>5, <1>6 DEF OnlyAt
<1>8. AuthorClear(a)' /\ AuthorTells(n, a, due, w, q)'
  BY <1>5, <1>7, HearerFrame
<1>9. /\ Streamed(n, a, due, w, q)' /\ DueIsHeld(n, a, due)' /\ Incoming(n)' = Incoming(n)
  <2>1. Incoming(n).file \notin due /\ rx'[n] \notin {"fetch", "reconcile", "apply", "remove"}
    BY <1>2, <1>6
  <2> QED BY <1>5, <1>7, <2>1, StreamGoesOn
<1>10. InHandAs(n, a, w, q)'
  BY <1>1, <1>6, <1>9 DEF InHandAs
<1>11. \A g \in File : ~Holds(n, g)' /\ (Holds(n, g) <=> g = f)
  BY <1>2, <1>3, <1>6 DEF Holds
<1>12. disk[a][f] = disk[n][f]
  BY <1>1, <1>2, <1>3 DEF Trees
<1>13. PICK c \in pending[n] : c.file = f
  BY <1>1, <1>11 DEF Echoing
<1>14. \A d \in pending[n] : d.file = f => d = c
  BY <1>1, <1>13 DEF Echoing, Apart
<1>15. mark = MarkFor(n, c) /\ Names(n, f) /\ ~Busy(n, f)
  <2>1. Genuine(n, c)
    BY <1>1 DEF Echoing
  <2>2. mark = MarkFor(n, c)
    BY <1>2, <1>3, <1>4, <1>12, <1>13, <2>1 DEF Genuine, Truthful, MarkFor
  <2> QED BY <1>1, <1>13, <2>2 DEF Echoing, Apart, Names
<1>16. \A g \in File : Names(n, g)' <=> Names(n, g)
  BY <1>5 DEF Names, Busy
<1>17. Echoing(n)'
  <2>1. Apart(n)'
    BY <1>1, <1>5 DEF Echoing, Apart, Busy
  <2>2. \A g \in File : renamed'[n][g] = NoMark /\ (echo'[n][g] # NoMark => Names(n, g)')
    BY <1>1, <1>5, <1>6, <1>15, <1>16 DEF Echoing
  <2>3. ASSUME NEW d \in pending[n]
        PROVE  Genuine(n, d)' /\ echo'[n][d.file] = MarkFor(n, d)'
    <3>1. Genuine(n, d)' /\ MarkFor(n, d)' = MarkFor(n, d)
      BY <1>1, <1>5 DEF Echoing, Genuine, MarkFor
    <3>2. CASE d.file = f
      BY <1>6, <1>14, <1>15, <3>1, <3>2
    <3>3. CASE d.file # f
      BY <1>0, <1>1, <1>6, <1>11, <3>1, <3>3 DEF Echoing
    <3> QED BY <3>1, <3>2, <3>3
  <2>4. /\ pub[n].at = "took" => pub[n].change.file \in File /\ pub[n].change.file # f
        /\ pub[n].at = "hashed" => pub[n].file \in File /\ pub[n].file # f
    <3>1. pub[n] \in PubState
      BY DEF TypeOK
    <3> QED BY <1>15, <3>1, PubFields, ChangeFields DEF Busy
  <2>5. /\ pub'[n].at \in {"select", "took", "hashed"}
        /\ pub'[n].at = "took" =>
              /\ Genuine(n, pub[n].change)'
              /\ echo'[n][pub'[n].change.file] = MarkFor(n, pub[n].change)'
        /\ pub'[n].at = "hashed" =>
              /\ pub'[n].data = disk'[n][pub'[n].file]
              /\ echo'[n][pub'[n].file] = pub'[n].data
    BY <1>1, <1>5, <1>6, <2>4 DEF Echoing, Genuine, MarkFor
  <2> QED BY <1>5, <1>6, <2>1, <2>2, <2>3, <2>5
       DEF Echoing, Genuine, MarkFor, Holds, Names, Busy
<1>18. Trees(n, a, due)'
  BY <1>1, <1>2, <1>3, <1>5, <1>6, <1>12, <1>16 DEF Trees
<1>19. Knowledge(n, a, due, w, q)'
  BY <1>1, <1>5 DEF Knowledge
<1> QED BY <1>1, <1>5, <1>8, <1>9, <1>10, <1>17, <1>18, <1>19, BatchGoesOn

\* The event is acknowledged: the next one is looked at.
LEMMA BatchAcks ==
    ASSUME TypeOK, TwoNodes, NEW a \in Node, NEW n \in Node \ {a}, NEW due, NEW w, NEW q,
           Batch(a, due, w, q), rx[n] = "ack", ReceiverStep(n)
    PROVE  OneBatch' /\ session' = session
<1>0. /\ rx \in [Node -> RxState] /\ acked \in [Node -> Nat] /\ Len(log) \in Nat
      /\ acked[n] \in Nat /\ \A c \in pending[n] : c.file \in File
  BY CalmTypes, ChangeFields
<1>1. /\ due \subseteq File /\ Streamed(n, a, due, w, q) /\ Trees(n, a, due)
      /\ Knowledge(n, a, due, w, q) /\ Echoing(n) /\ DueIsHeld(n, a, due)
      /\ q \in {"level", "sealed", "opened"}
  BY BatchParts
<1>2. PICK k \in Nat : k = acked[n] + 1
  BY <1>0
<1>3. /\ acked' = [acked EXCEPT ![n] = @ + 1] /\ rx' = [rx EXCEPT ![n] = "fetch"]
      /\ UNCHANGED <<disk, pending, session, pub, versions, echo, renamed, enc, sendSeq,
                     recvSeq, log, edits>>
  BY ReceiverMoves DEF Ack, Advance, fsVars, guardVars, chainVars, budgets
<1>4. /\ rx'[n] = "fetch" /\ acked'[n] = k
      /\ \A m \in Node \ {n} : rx'[m] = rx[m] /\ acked'[m] = acked[m]
  BY <1>0, <1>2, <1>3
<1>5. OnlyAt(n)
  BY <1>3, <1>4 DEF OnlyAt
<1>6. /\ AuthorClear(a)' /\ AuthorTells(n, a, due, w, q)'
      /\ \A f \in File : Names(a, f)' <=> Names(a, f)
  BY <1>3, <1>5, HearerFrame
<1>7. /\ Ahead(n)' = Ahead(n) \ {k}
      /\ \A i \in Ahead(n)' : /\ i > k /\ Untouched(n, i) /\ Untouched(n, i)'
                              /\ log[i].file \in File
      /\ ~Untouched(n, k)
  <2>1. \A i \in Ahead(n) : log[i].file \in File
    BY AheadType
  <2> QED BY <1>0, <1>2, <1>3, <1>4, <2>1 DEF Ahead, Untouched
<1>8. Streamed(n, a, due, w, q)'
  <2>1. ASSUME NEW i \in Ahead(n), i > k
        PROVE  /\ Truthful(a, log[i]) /\ ~Names(a, log[i].file)
               /\ \A j \in Ahead(n) : log[j].file = log[i].file => j = i
               /\ log[i].op = "write" => log[i].file = w
               /\ log[i].file \in due <=> Untouched(n, i)
               /\ Sealed(n, a, w, log[i]) /\ (log[i].op = "write" => q = "sealed")
    BY <1>1, <1>2, <2>1 DEF Streamed
  <2>2. ASSUME NEW i \in Ahead(n)'
        PROVE  /\ Truthful(a, log[i])' /\ ~Names(a, log[i].file)' /\ Sealed(n, a, w, log[i])'
               /\ \A j \in Ahead(n)' : log'[j].file = log'[i].file => j = i
               /\ log'[i].op = "write" => log'[i].file = w /\ q = "sealed"
               /\ log'[i].file \in due <=> Untouched(n, i)'
    <3>1. i \in Ahead(n) /\ i > k /\ Untouched(n, i) /\ Untouched(n, i)'
      BY <1>7
    <3>2. Truthful(a, log[i])' /\ ~Names(a, log[i].file)' /\ Sealed(n, a, w, log[i])'
      BY <1>3, <2>1, <3>1 DEF Truthful, Names, Busy, Sealed
    <3> QED BY <1>3, <1>7, <2>1, <3>1, <3>2
  <2> QED BY <2>2 DEF Streamed, Truthful, Names, Busy, Sealed
<1>9. InHandAs(n, a, w, q)'
  BY <1>4 DEF InHandAs
<1>10. \A f \in File : Names(n, f)' <=> Names(n, f)
  BY <1>3 DEF Names, Busy
<1>11. Trees(n, a, due)' /\ Knowledge(n, a, due, w, q)'
  BY <1>1, <1>3, <1>4, <1>10 DEF Trees, Knowledge
<1>12. Echoing(n)'
  <2>1. \A f \in File : ~Holds(n, f) /\ ~Holds(n, f)'
    BY <1>4 DEF Holds
  <2> QED BY <1>0, <1>1, <1>3, <2>1 DEF Echoing, Apart, Names, Busy, Genuine, MarkFor
<1>13. DueIsHeld(n, a, due)'
  <2> SUFFICES ASSUME NEW f \in due
               PROVE  \/ Names(a, f)'
                      \/ \E i \in Ahead(n)' : log'[i].file = f /\ Untouched(n, i)'
    BY DEF DueIsHeld
  <2>1. CASE Names(a, f)
    BY <1>1, <1>6, <2>1
  <2>2. CASE \E i \in Ahead(n) : log[i].file = f /\ Untouched(n, i)
    BY <1>3, <1>7, <2>2
  <2> QED BY <1>1, <2>1, <2>2 DEF DueIsHeld
<1> QED BY <1>1, <1>3, <1>6, <1>8, <1>9, <1>11, <1>12, <1>13, BatchGoesOn

\* Every step of the other node's receiver takes the batch on.
LEMMA BatchReceives ==
    ASSUME TypeOK, TwoNodes, NEW a \in Node, NEW n \in Node \ {a}, NEW due, NEW w, NEW q,
           Batch(a, due, w, q), session[n] = "running", ReceiverStep(n)
    PROVE  OneBatch' /\ session' = session
<1>1. rx[n] \in RxState /\ rx[n] \notin {"conflict", "rename", "markRenamed", "returned"}
  BY BatchParts, CalmTypes DEF InHandAs
<1> QED BY <1>1, BatchFetches, BatchStores, BatchTouches, BatchWrites, BatchMarks, BatchAcks
     DEF RxState

\* When nothing is under way, no file is due: trees, versions and chains are level.
AllLevel ==
    \A m \in Node : /\ Unmarked(m)
                    /\ \A n \in Node \ {m} : /\ SameTree(m, n) /\ SameVersions(m, n)
                                             /\ ChainLevel(m, n)

LEMMA BatchSettles ==
    ASSUME TypeOK, TwoNodes, OneBatch, Settled, NEW x \in Node, NEW y \in Node \ {x}
    PROVE  AllLevel
<1>1. PICK a \in Node : \E due, w, q : Batch(a, due, w, q)
  BY DEF OneBatch
<1>2. PICK due, w, q : Batch(a, due, w, q)
  BY <1>1
<1>3. PICK n \in Node \ {a} : \A m \in Node : m = a \/ m = n
  BY DEF TwoNodes
<1>4. /\ due \subseteq File /\ AuthorClear(a) /\ Trees(n, a, due)
      /\ Knowledge(n, a, due, w, q) /\ Echoing(n) /\ DueIsHeld(n, a, due)
  BY <1>2, BatchParts
<1>5. \A m \in Node : pending[m] = {} /\ pub[m].at = "select" /\ rx[m] = "fetch"
                      /\ acked[m] = Len(log) /\ acked[m] \in Nat
  <2> TAKE m \in Node
  <2>1. acked[m] \in Nat
    BY CalmTypes
  <2>2. pending[m] = {} /\ pub[m] = Idle /\ rx[m] = "fetch" /\ acked[m] = Len(log)
    BY DEF Settled, SettledAt
  <2> QED BY <2>1, <2>2 DEF Idle
<1>6. Ahead(n) = {} /\ \A m \in Node : \A f : ~Names(m, f)
  <2>1. Ahead(n) = {}
    BY <1>5 DEF Ahead
  <2>2. \A m \in Node : \A f : ~Names(m, f)
    BY <1>5 DEF Names, Busy
  <2> QED BY <2>1, <2>2
<1>7. due = {} /\ q = "level"
  BY <1>4, <1>6 DEF DueIsHeld, Knowledge
<1>8. Unmarked(a) /\ Unmarked(n)
  BY <1>4, <1>6 DEF AuthorClear, Echoing, Unmarked
<1>9. \A f \in File : disk[a][f] = disk[n][f] /\ versions[a][f] = versions[n][f]
  BY <1>4, <1>5, <1>7 DEF Trees, Knowledge
<1>10. enc => sendSeq[a] = recvSeq[n] /\ sendSeq[n] = recvSeq[a]
  BY <1>4, <1>7 DEF Knowledge
<1> QED BY <1>3, <1>8, <1>9, <1>10 DEF AllLevel, SameTree, SameVersions, ChainLevel

\* A batch begins: what a user of x changed is due, and x's watcher saw all of it.
LEMMA BatchBegins ==
    ASSUME TypeOK, TwoNodes, Settled, AllLevel, NEW x \in Node, NEW y \in Node \ {x},
           NEW due, NEW w, due \subseteq File,
           UNCHANGED <<pub, rx, versions, echo, renamed, enc, sendSeq, recvSeq, log, acked>>,
           disk'[y] = disk[y], pending'[y] = pending[y],
           \A c \in pending'[x] : /\ c.file \in due /\ Genuine(x, c)'
                                  /\ c.kind = "modified" => c.file = w,
           \A c, d \in pending'[x] : c.file = d.file => c = d,
           \A f \in due : /\ \E c \in pending'[x] : c.file = f
                          /\ disk'[x][f] = Absent => disk[y][f] # Absent,
           \A f \in File : f \notin due => disk'[x][f] = disk[x][f]
    PROVE  OneBatch'
<1>1. \A m \in Node : pending[m] = {} /\ pub[m].at = "select" /\ rx[m] = "fetch"
                      /\ acked[m] = Len(log) /\ acked[m] \in Nat
  BY CalmTypes DEF Settled, SettledAt, Idle
<1>2. /\ Unmarked(x) /\ Unmarked(y)
      /\ \A f \in File : disk[x][f] = disk[y][f] /\ versions[x][f] = versions[y][f]
      /\ enc => sendSeq[x] = recvSeq[y] /\ sendSeq[y] = recvSeq[x]
  BY DEF AllLevel, SameTree, SameVersions, ChainLevel
<1>3. Ahead(x)' = {} /\ Ahead(y)' = {}
  BY <1>1 DEF Ahead
<1>4. \A f : ~Busy(x, f)' /\ ~Names(y, f)'
  BY <1>1 DEF Names, Busy
<1>5. AuthorClear(x)'
  BY <1>1, <1>2, <1>3 DEF AuthorClear, Unmarked
<1>6. AuthorTells(y, x, due, w, "level")'
  BY <1>1, <1>4 DEF AuthorTells, Apart, Genuine
<1>7. Streamed(y, x, due, w, "level")' /\ InHandAs(y, x, w, "level")'
  BY <1>1, <1>3 DEF Streamed, InHandAs
<1>8. Trees(y, x, due)'
  BY <1>2, <1>4 DEF Trees, Unmarked
<1>9. Knowledge(y, x, due, w, "level")'
  BY <1>2 DEF Knowledge
<1>10. Echoing(y)'
  BY <1>1, <1>2 DEF Echoing, Apart, Unmarked, Holds
<1>11. DueIsHeld(y, x, due)'
  BY DEF DueIsHeld, Names
<1> QED BY <1>5, <1>6, <1>7, <1>8, <1>9, <1>10, <1>11, BatchGoesOn

\* What a user does once everything has settled is a batch of its own: a rename
\* is the removal of the old file and the creation of the new one.
LEMMA BatchUser ==
    ASSUME TypeOK, TwoNodes, Calm, Renamer = {}, OneBatch, NEW x \in Node, NEW y \in Node \ {x},
           \A m \in Node : session[m] = "running", UserStep(x)
    PROVE  OneBatch' /\ session' = session
<1>0. /\ disk \in [Node -> [File -> Data \cup {Absent}]] /\ Path \subseteq File
      /\ pending \in [Node -> SUBSET Change]
  BY CalmTypes, PathsAreFiles
<1>1. Acts(x)
  BY DEF UserStep, UserWrite, UserRemove, UserRename
<1>2. /\ Settled
      /\ UNCHANGED <<pub, rx, versions, echo, renamed, enc, sendSeq, recvSeq, log, acked,
                     session>>
  BY <1>1 DEF Acts, guardVars, chainVars, streamVars
<1>3. AllLevel /\ pending[x] = {}
  BY <1>2, BatchSettles DEF Settled, SettledAt
<1>4. \A f \in File : disk[x][f] = disk[y][f]
  BY <1>3 DEF AllLevel, SameTree
<1>b. ASSUME NEW due, NEW w, disk'[y] = disk[y], pending'[y] = pending[y],
             due \subseteq File,
             \A e \in pending'[x] : /\ e.file \in due /\ Genuine(x, e)'
                                    /\ e.kind = "modified" => e.file = w,
             \A e, g \in pending'[x] : e.file = g.file => e = g,
             \A g \in due : /\ \E e \in pending'[x] : e.file = g
                            /\ disk'[x][g] = Absent => disk[y][g] # Absent,
             \A g \in File : g \notin due => disk'[x][g] = disk[x][g]
      PROVE  OneBatch'
  BY <1>2, <1>3, <1>b, BatchBegins
<1>5. ASSUME NEW f \in Path, NEW c \in Content, UserWrite(x, f, c)
      PROVE  OneBatch'
  <2>1. PICK d : d = [kind |-> "modified", file |-> f]
    OBVIOUS
  <2>2. /\ disk' = [disk EXCEPT ![x][f] = c]
        /\ pending' = [pending EXCEPT ![x] = Scheduled(@, d)]
    BY <1>5, <2>1 DEF UserWrite, Observe
  <2>3. /\ disk'[x][f] = c /\ c # Absent /\ disk'[y] = disk[y] /\ pending'[y] = pending[y]
        /\ \A g \in File : g # f => disk'[x][g] = disk[x][g]
        /\ pending'[x] = {d}
    BY <1>0, <1>3, <2>2, ConstantsOK DEF Scheduled
  <2>4. Genuine(x, d)'
    BY <2>1, <2>3 DEF Genuine
  <2>5. PICK due, w : due = {f} /\ w = f
    OBVIOUS
  <2>6. /\ due \subseteq File
        /\ \A e \in pending'[x] : /\ e.file \in due /\ Genuine(x, e)'
                                  /\ e.kind = "modified" => e.file = w
        /\ \A e, g \in pending'[x] : e.file = g.file => e = g
        /\ \A g \in due : /\ \E e \in pending'[x] : e.file = g
                          /\ disk'[x][g] = Absent => disk[y][g] # Absent
        /\ \A g \in File : g \notin due => disk'[x][g] = disk[x][g]
    BY <1>0, <2>1, <2>3, <2>4, <2>5 DEF Genuine
  <2> QED BY <1>b, <2>3, <2>6
<1>6. ASSUME NEW f \in Path, UserRemove(x, f)
      PROVE  OneBatch'
  <2>1. PICK d : d = [kind |-> "removed", file |-> f]
    OBVIOUS
  <2>2. /\ disk' = [disk EXCEPT ![x][f] = Absent] /\ disk[x][f] # Absent
        /\ pending' = [pending EXCEPT ![x] = Scheduled(@, d)]
    BY <1>6, <2>1 DEF UserRemove, Observe
  <2>3. /\ disk'[x][f] = Absent /\ disk'[y] = disk[y] /\ pending'[y] = pending[y]
        /\ \A g \in File : g # f => disk'[x][g] = disk[x][g]
        /\ pending'[x] = {d} /\ disk[y][f] # Absent
    BY <1>0, <1>3, <1>4, <2>2 DEF Scheduled
  <2>4. Genuine(x, d)'
    BY <2>1, <2>3 DEF Genuine
  <2>5. PICK due, w : due = {f} /\ w = f
    OBVIOUS
  <2>6. /\ due \subseteq File
        /\ \A e \in pending'[x] : /\ e.file \in due /\ Genuine(x, e)'
                                  /\ e.kind = "modified" => e.file = w
        /\ \A e, g \in pending'[x] : e.file = g.file => e = g
        /\ \A g \in due : /\ \E e \in pending'[x] : e.file = g
                          /\ disk'[x][g] = Absent => disk[y][g] # Absent
        /\ \A g \in File : g \notin due => disk'[x][g] = disk[x][g]
    BY <1>0, <2>1, <2>3, <2>4, <2>5 DEF Genuine
  <2> QED BY <1>b, <2>3, <2>6
<1>7. ASSUME NEW old \in Path, NEW new \in Path, UserRename(x, old, new)
      PROVE  OneBatch'
  <2>1. PICK d, b : /\ d = [kind |-> "removed", file |-> old]
                    /\ b = [kind |-> "modified", file |-> new]
    OBVIOUS
  <2>2. /\ disk' = [disk EXCEPT ![x][new] = disk[x][old], ![x][old] = Absent]
        /\ disk[x][old] # Absent /\ old # new
        /\ pending' = [pending EXCEPT ![x] = Scheduled(Scheduled(@, d), b)]
    BY <1>7, <2>1 DEF UserRename, ObserveMove
  <2>3. /\ disk'[x][old] = Absent /\ disk'[x][new] = disk[x][old]
        /\ disk'[y] = disk[y] /\ pending'[y] = pending[y] /\ disk[y][old] # Absent
        /\ \A g \in File : g # old /\ g # new => disk'[x][g] = disk[x][g]
    BY <1>0, <1>4, <2>2
  <2>4. pending'[x] = {d, b}
    <3>1. Scheduled({}, d) = {d} /\ Scheduled({d}, b) = {d, b}
      BY <2>1, <2>2 DEF Scheduled, SameKey
    <3> QED BY <1>0, <1>3, <2>2, <3>1
  <2>5. Genuine(x, d)' /\ Genuine(x, b)'
    BY <2>1, <2>2, <2>3 DEF Genuine
  <2>6. PICK due, w : due = {old, new} /\ w = new
    OBVIOUS
  <2>7. /\ due \subseteq File
        /\ \A e \in pending'[x] : /\ e.file \in due /\ Genuine(x, e)'
                                  /\ e.kind = "modified" => e.file = w
        /\ \A e, g \in pending'[x] : e.file = g.file => e = g
        /\ \A g \in due : /\ \E e \in pending'[x] : e.file = g
                          /\ disk'[x][g] = Absent => disk[y][g] # Absent
        /\ \A g \in File : g \notin due => disk'[x][g] = disk[x][g]
    BY <1>0, <2>1, <2>2, <2>3, <2>4, <2>5, <2>6
  <2> QED BY <1>b, <2>3, <2>7
<1> QED BY <1>2, <1>5, <1>6, <1>7 DEF UserStep

\* A step of nothing leaves a batch as it is.
LEMMA BatchStutters ==
    ASSUME OneBatch, UNCHANGED vars
    PROVE  OneBatch'
<1>1. UNCHANGED <<disk, pending, pub, rx, versions, echo, renamed, enc, sendSeq, recvSeq,
                  log, acked>>
  BY DEF vars, fsVars, guardVars, chainVars, streamVars
<1>2. PICK a \in Node : \E due, w, q : Batch(a, due, w, q)
  BY DEF OneBatch
<1>3. PICK due, w, q : Batch(a, due, w, q)
  BY <1>2
<1>4. ASSUME NEW n \in Node \ {a}
      PROVE  /\ AuthorTells(n, a, due, w, q)' /\ Streamed(n, a, due, w, q)'
             /\ InHandAs(n, a, w, q)' /\ Trees(n, a, due)' /\ Knowledge(n, a, due, w, q)'
             /\ Echoing(n)' /\ DueIsHeld(n, a, due)'
  <2>1. /\ AuthorTells(n, a, due, w, q) /\ Streamed(n, a, due, w, q)
        /\ InHandAs(n, a, w, q) /\ Trees(n, a, due) /\ Knowledge(n, a, due, w, q)
        /\ Echoing(n) /\ DueIsHeld(n, a, due)
    BY <1>3 DEF Batch
  <2>2. AuthorTells(n, a, due, w, q)'
    BY <1>1, <2>1 DEF AuthorTells, Apart, Busy, Genuine, Truthful, Sealed
  <2>3. Streamed(n, a, due, w, q)'
    BY <1>1, <2>1 DEF Streamed, Ahead, Untouched, Truthful, Sealed, Names, Busy
  <2>4. InHandAs(n, a, w, q)' /\ Knowledge(n, a, due, w, q)' /\ Trees(n, a, due)'
    BY <1>1, <2>1 DEF InHandAs, Knowledge, Trees, Incoming, Names, Busy
  <2>5. Echoing(n)'
    BY <1>1, <2>1 DEF Echoing, Apart, Genuine, Names, Busy, Holds, Incoming, MarkFor
  <2>6. DueIsHeld(n, a, due)'
    BY <1>1, <2>1 DEF DueIsHeld, Ahead, Untouched, Names, Busy
  <2> QED BY <2>2, <2>3, <2>4, <2>5, <2>6
<1>5. AuthorClear(a)'
  BY <1>1, <1>3 DEF Batch, AuthorClear, Unmarked, Ahead
<1> QED BY <1>3, <1>4, <1>5 DEF OneBatch, Batch

\* The session opens between two batches.
LEMMA BatchInit ==
    ASSUME NEW x \in Node, NEW y \in Node \ {x}, Init
    PROVE  OneBatch
<1>1. /\ \A m, n \in Node, f \in File : disk[m][f] = disk[n][f]
      /\ \A n \in Node : pending[n] = {} /\ pub[n].at = "select" /\ rx[n] = "fetch"
                         /\ acked[n] = 0
      /\ \A n \in Node, f \in File : /\ echo[n][f] = NoMark /\ renamed[n][f] = NoMark
                                     /\ versions[n][f] = ZeroVector
      /\ \A n \in Node : sendSeq[n] = 0 /\ recvSeq[n] = 0
      /\ Len(log) = 0
  BY DEF Init, Idle
<1>2. PICK due : due = {}
  OBVIOUS
<1>3. \A n \in Node : Ahead(n) = {} /\ \A f : ~Names(n, f)
  <2> TAKE n \in Node
  <2>1. acked[n] = 0 /\ pub[n].at = "select" /\ pending[n] = {}
    BY <1>1
  <2>2. Ahead(n) = {}
    BY <1>1, <2>1 DEF Ahead
  <2>3. \A f : ~Names(n, f)
    BY <2>1 DEF Names, Busy
  <2> QED BY <2>2, <2>3
<1>4. AuthorClear(x)
  BY <1>1, <1>3 DEF AuthorClear, Unmarked
<1>5. ASSUME NEW n \in Node \ {x}
      PROVE  /\ AuthorTells(n, x, due, x, "level") /\ Streamed(n, x, due, x, "level")
             /\ InHandAs(n, x, x, "level") /\ Trees(n, x, due)
             /\ Knowledge(n, x, due, x, "level") /\ Echoing(n) /\ DueIsHeld(n, x, due)
  BY <1>1, <1>2, <1>3
  DEF AuthorTells, Apart, Streamed, InHandAs, Trees, Knowledge, Echoing, DueIsHeld, Holds
<1>6. Batch(x, due, x, "level")
  BY <1>2, <1>4, <1>5 DEF Batch
<1> QED BY <1>6 DEF OneBatch

\* What a step leads to from a batch, unless it is a failure.
LEMMA BatchStep ==
    ASSUME TwoNodes, NEW x \in Node, NEW y \in Node \ {x}, Calm, Renamer = {}, FreshDir = {},
           MaxLostAcks = 0, TypeOK, \A n \in Node : session[n] = "running", OneBatch,
           [Next]_vars
    PROVE  \/ (\A n \in Node : session'[n] = "running") /\ OneBatch'
           \/ \E n \in Node : PublishFails(n) \/ ReceiverFails(n) \/ ApplyFails(n)
<1>1. CASE UNCHANGED vars
  BY <1>1, BatchStutters DEF vars
<1>2. CASE Next
  <2>1. PICK n \in Node : \/ UserStep(n) \/ PublisherStep(n) \/ ReceiverStep(n)
                          \/ PublishFails(n) \/ ReceiverFails(n) \/ ApplyFails(n)
                          \/ AckLost(n)
    BY <1>2 DEF Next
  <2>2. ~AckLost(n)
    BY NoAckIsLost
  <2>3. PICK a \in Node : \E due, w, q : Batch(a, due, w, q)
    BY DEF OneBatch
  <2>4. PICK due, w, q : Batch(a, due, w, q)
    BY <2>3
  <2>5. PICK h \in Node \ {a} : \A m \in Node : m = a \/ m = h
    BY DEF TwoNodes
  <2>6. PICK o \in Node \ {n} : TRUE
    OBVIOUS
  <2>7. CASE UserStep(n)
    BY <2>6, <2>7, BatchUser
  <2>8. CASE PublisherStep(n)
    <3>1. session' = session
      BY <2>8 DEF PublisherStep, Fire, ReadFile, IsEcho, Bump, IsEchoRemove, IsEchoRename,
         Publish
    <3>2. CASE n = a
      BY <2>4, <2>5, <2>8, <3>1, <3>2, AuthorReports, AuthorBumps, AuthorPublishes
    <3>3. CASE n = h
      BY <2>4, <2>8, <3>1, <3>3, EchoDrops
    <3> QED BY <2>5, <3>2, <3>3
  <2>9. CASE ReceiverStep(n)
    <3>1. CASE n = a
      BY <2>4, <2>5, <2>9, <3>1, BatchAuthorSkips
    <3>2. CASE n = h
      BY <2>4, <2>9, <3>2, BatchReceives
    <3> QED BY <2>5, <3>1, <3>2
  <2> QED BY <2>1, <2>2, <2>7, <2>8, <2>9
<1> QED BY <1>1, <1>2

\* Between nodes whose watchers report no rename the trees are the same, too,
\* whenever nothing is under way: the removal and the creation a rename is made of
\* may be debounced, published, read and applied in either order and interleaved
\* with each other's echoes.  What the code needs for it is that all watchers are
\* of this kind: between this kind and the other a rename diverges.
THEOREM CalmConvergesUncorrelated ==
    ASSUME TwoNodes, Calm, Renamer = {}, FreshDir = {}, MaxLostAcks = 0
    PROVE  Spec => []Converged
<1> DEFINE Runs == (\A n \in Node : session[n] = "running") /\ OneBatch
           Inv == TypeOK /\ (Runs \/ Returned)
<1>1. CASE \A m, n \in Node : m = n
  <2>1. Converged
    BY <1>1, ZenonT(20) DEF Converged
  <2> QED BY <2>1, PTL
<1>2. CASE \E m, n \in Node : m # n
  <2>0. PICK x \in Node : \E y \in Node : y # x
    BY <1>2
  <2>1. PICK y \in Node \ {x} : TRUE
    BY <2>0
  <2>2. Init => Inv
    BY <2>1, InitType, BatchInit DEF Init
  <2>3. Inv /\ [Next]_vars => Inv'
    BY <2>1, TypeStep, BatchStep, FailureReturns, ReturnedStays
  <2>4. Inv => Converged
    <3> SUFFICES ASSUME Inv, Settled, NEW m \in Node, NEW n \in Node, NEW f \in Path
                 PROVE  disk[m][f] = disk[n][f]
      BY DEF Converged
    <3>1. ~Returned
      BY DEF Returned, Settled, SettledAt, Idle
    <3>2. AllLevel
      BY <2>1, <3>1, BatchSettles
    <3> QED BY <3>2, PathsAreFiles DEF AllLevel, SameTree
  <2> QED BY <2>2, <2>3, <2>4, PTL DEF Spec
<1> QED BY <1>1, <1>2

=============================================================================
