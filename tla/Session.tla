------------------------------- MODULE Session -------------------------------
(***************************************************************************)
(* A Watcher session from its approved handshake on: the encryption        *)
(* bootstrap, the initial reconciliation and the start of the live phase,  *)
(* at both ends.  jsync watch (cmdWatch) is the Initiator, jsyncd          *)
(* (WatchSession) the Responder; they share nothing but the session's      *)
(* events stream, which each reads through its own durable consumer.       *)
(*                                                                         *)
(* Set-up is one goroutine per node and is modelled step by step.  The     *)
(* live phase is there to see what set-up leaves behind (messages, stored  *)
(* versions, echo marks): a live change is handled in one step here, and   *)
(* its inner interleavings are LiveSync's.                                 *)
(***************************************************************************)
EXTENDS VersionVectors, Sequences, FiniteSets

CONSTANTS
    Initiator, Responder,
    Path,        \* the files of the two trees
    Base,        \* Base[n]: what a path may hold on n when the session starts
    Content,     \* what a file may hold
    Absent,      \* "no such file"
    NoMark,      \* no entry in the EchoGuard
    RemovedMark, \* echo.go's removedSentinel
    Encrypt,     \* \subseteq BOOLEAN: is --encrypt given?
    Calm,        \* users act only once everything has settled
    MaxEdits,    \* bound: user actions from the first scan on
    MaxLostAcks, \* bound: acknowledgements lost on the way to the server
    MaxFailures  \* bound: publishes and fetches that fail, interrupts

ASSUME SessionAssumption ==
    /\ Initiator # Responder
    /\ Node = {Initiator, Responder}
    /\ Encrypt \subseteq BOOLEAN /\ Calm \in BOOLEAN
    /\ Base \in [Node -> SUBSET (Content \cup {Absent})]
    /\ Absent \notin Content
    /\ {NoMark, RemovedMark} \cap Content = {}
    /\ NoMark # RemovedMark
    /\ {MaxEdits, MaxLostAcks, MaxFailures} \subseteq Nat

Peer(n) == IF n = Initiator THEN Responder ELSE Initiator

\* "<path>.conflict-<origin>-<unix second>"; the second is left out, a second
\* conflict over the same path lands on the first.  A conflict over a conflict
\* file is left out too.
ConflictFile == [of : Path, from : Node]
File == Path \cup ConflictFile

\* The two kinds of name are kept apart.
ASSUME NamesApart == Path \cap ConflictFile = {}

\* ScanManifest's path -> content hash; a missing entry is Absent.
Manifest == [File -> Content \cup {Absent}]
NoManifest == [f \in File |-> Absent]

ControlEvent == [op : {"bootstrap", "bootstrapAck", "done"}, origin : Node]
ManifestEvent == [op : {"manifest"}, origin : Node, files : Manifest]
WriteEvent == [op : {"write"}, origin : Node, file : File, data : Content,
               version : Vector, seq : Nat]
RemoveEvent == [op : {"remove"}, origin : Node, file : File]
Event == ControlEvent \cup ManifestEvent \cup WriteEvent \cup RemoveEvent

\* Where a node's set-up is, in the order of the code ...
SetUp == {"bootstrap", "awaitBootstrap", "awaitBootstrapAck", "answer",
          "scan", "publishManifest", "awaitManifest", "push", "drain"}
\* ... then live; and over.  When one direction of a live session fails, jsyncd's
\* goroutine of the other one lives on, without a watcher.
Phase == SetUp \cup {"live", "publisherOnly", "receiverOnly", "ended"}

VARIABLES
    enc,       \* resp.Encrypt of the approved handshake
    disk,      \* disk[n][f]: what n's file system holds at f
    phase,     \* phase[n]: where n is
    manifest,  \* manifest[n]: what n's ScanManifest found
    toPush,    \* toPush[n]: what is left of n's diffPaths
    log,       \* the session's events stream
    acked,     \* acked[n]: stream sequence n's consumer has acknowledged
    versions,  \* versions[n][f]: VersionStore.byPath
    echo,      \* echo[n][f]: EchoGuard.entries
    sendSeq,   \* sendSeq[n]: enc.SendChain's counter
    recvSeq,   \* recvSeq[n]: enc.RecvChain's counter
    pending,   \* pending[n]: files n's watcher has yet to report
    touched,   \* paths a user changed on a node between its scan and its watcher
    edits, lostAcks, failures   \* consumed budgets

scanVars == <<manifest, toPush>>
guardVars == <<versions, echo>>
chainVars == <<sendSeq, recvSeq>>
vars == <<enc, disk, phase, scanVars, log, acked, guardVars, chainVars, pending,
          touched, edits, lostAcks, failures>>

TypeOK ==
    /\ enc \in BOOLEAN
    /\ disk \in [Node -> Manifest]
    /\ phase \in [Node -> Phase]
    /\ manifest \in [Node -> Manifest]
    /\ toPush \in [Node -> SUBSET File]
    /\ log \in Seq(Event)
    /\ acked \in [Node -> Nat] /\ \A n \in Node : acked[n] <= Len(log)
    /\ versions \in [Node -> [File -> Vector]]
    /\ echo \in [Node -> [File -> Content \cup {NoMark, RemovedMark}]]
    /\ sendSeq \in [Node -> Nat] /\ recvSeq \in [Node -> Nat]
    /\ pending \in [Node -> SUBSET File]
    /\ touched \subseteq File
    /\ edits \in Nat /\ lostAcks \in Nat /\ failures \in Nat

\* EnsureEventsStream and EnsureEventsConsumer are behind both nodes; each
\* consumer is durable and starts at the head of the stream.
Init ==
    /\ enc \in Encrypt
    /\ \E base \in [Node -> [Path -> Content \cup {Absent}]] :
         /\ \A n \in Node, f \in Path : base[n][f] \in Base[n]
         /\ disk = [n \in Node |->
                      [f \in File |-> IF f \in Path THEN base[n][f] ELSE Absent]]
    /\ phase = [n \in Node |->
                  IF ~enc THEN "scan"
                  ELSE IF n = Initiator THEN "bootstrap" ELSE "awaitBootstrap"]
    /\ manifest = [n \in Node |-> NoManifest]
    /\ toPush = [n \in Node |-> {}]
    /\ log = <<>>
    /\ acked = [n \in Node |-> 0]
    /\ versions = [n \in Node |-> [f \in File |-> ZeroVector]]
    /\ echo = [n \in Node |-> [f \in File |-> NoMark]]
    /\ sendSeq = [n \in Node |-> 0] /\ recvSeq = [n \in Node |-> 0]
    /\ pending = [n \in Node |-> {}]
    /\ touched = {}
    /\ edits = 0 /\ lostAcks = 0 /\ failures = 0

-----------------------------------------------------------------------------
\* The stream and the session's end.

Goto(n, next) == phase' = [phase EXCEPT ![n] = next]

Over(n) == phase[n] \in {"publisherOnly", "receiverOnly", "ended"}

\* n's receiving direction returns an error.
ReceiverEnds(n) ==
    Goto(n, IF phase[n] = "live" /\ n = Responder THEN "publisherOnly" ELSE "ended")

\* A publish of n returns an error.
PublisherEnds(n) ==
    Goto(n, IF phase[n] = "live" /\ n = Responder THEN "receiverOnly" ELSE "ended")

PublishErrorIgnored(n, event, next) ==                               \* mutant
    \/ /\ log' = Append(log, event)
       /\ Goto(n, next)
       /\ failures' = failures
    \/ /\ failures < MaxFailures
       /\ failures' = failures + 1
       /\ log' = log
       /\ Goto(n, next)
\* js.Publish: the event is stored; or an error ends the session, the event
\* stored or not.
Publish(n, event, next) ==
    \/ /\ log' = Append(log, event)
       /\ Goto(n, next)
       /\ failures' = failures
    \/ /\ failures < MaxFailures
       /\ failures' = failures + 1
       /\ log' \in {log, Append(log, event)}
       /\ PublisherEnds(n)

\* The event a Fetch(1) hands to n: the first one its consumer has not
\* acknowledged (MaxAckPending 1).
HasIncoming(n) == acked[n] < Len(log)
Incoming(n) == log[acked[n] + 1]

\* msg.Ack() is not confirmed: it moves the durable consumer on, or it is lost
\* and the same event is delivered again after AckWait.
Ack(n) ==
    \/ /\ acked' = [acked EXCEPT ![n] = @ + 1]
       /\ lostAcks' = lostAcks
    \/ /\ lostAcks < MaxLostAcks
       /\ lostAcks' = lostAcks + 1
       /\ acked' = acked

\* msg.Nak(): the event stays the consumer's next one.
Nak == UNCHANGED <<acked, lostAcks>>

\* Every loop that fetches: n's own publish comes back and is only
\* acknowledged.
SkipOwn(n) ==
    /\ HasIncoming(n) /\ Incoming(n).origin = n
    /\ phase[n] \in {"awaitBootstrap", "awaitBootstrapAck", "awaitManifest",
                     "drain", "live", "receiverOnly"}
    /\ Ack(n)
    /\ UNCHANGED <<enc, disk, phase, scanVars, log, guardVars, chainVars, pending,
                   touched, edits, failures>>

\* A scan, a fetch or an apply returns an error, or the user interrupts the
\* command.  (What half an apply leaves on disk is LiveSync's.)
Fails(n) ==
    /\ phase[n] \notin {"publisherOnly", "ended"}
    /\ failures < MaxFailures
    /\ failures' = failures + 1
    /\ ReceiverEnds(n)
    /\ UNCHANGED <<enc, disk, scanVars, log, acked, guardVars, chainVars, pending,
                   touched, edits, lostAcks>>

-----------------------------------------------------------------------------
\* The encryption bootstrap.

\* awaitControl: the peer's next event has to be the one n waits for; any
\* other means the two have lost step.
AwaitControl(n, op, next) ==
    /\ HasIncoming(n) /\ Incoming(n).origin # n
    /\ \/ /\ Incoming(n).op = op
          /\ Ack(n)
          /\ Goto(n, next)
       \/ /\ Incoming(n).op # op
          /\ Nak
          /\ ReceiverEnds(n)

controlUnchanged == <<enc, disk, guardVars, chainVars, pending, touched, edits>>

PublishBootstrap(n) ==
    /\ phase[n] = "bootstrap"
    /\ Publish(n, [op |-> "bootstrap", origin |-> n], "awaitBootstrapAck")
    /\ UNCHANGED <<controlUnchanged, scanVars, acked, lostAcks>>

ReceiveBootstrap(n) ==
    /\ phase[n] = "awaitBootstrap"
    /\ AwaitControl(n, "bootstrap", "answer")
    /\ UNCHANGED <<controlUnchanged, scanVars, log, failures>>

\* DeriveResponderChains, then the responder's fresh ratchet key.
PublishBootstrapAck(n) ==
    /\ phase[n] = "answer"
    /\ Publish(n, [op |-> "bootstrapAck", origin |-> n], "scan")
    /\ UNCHANGED <<controlUnchanged, scanVars, acked, lostAcks>>

ReceiveBootstrapAck(n) ==
    /\ phase[n] = "awaitBootstrapAck"
    /\ AwaitControl(n, "bootstrapAck", "scan")
    /\ UNCHANGED <<controlUnchanged, scanVars, log, failures>>

Bootstrapping(n) == phase[n] \in {"awaitBootstrap", "awaitBootstrapAck"}

\* bootCtx's deadline, 15 s on both sides: certain once the peer has ended and
\* there is nothing to read; while the peer is slow it is one of the failures.
BootstrapTimesOut(n) ==
    /\ Bootstrapping(n)
    /\ \/ Over(Peer(n)) /\ ~HasIncoming(n) /\ failures' = failures
       \/ failures < MaxFailures /\ failures' = failures + 1
    /\ Goto(n, "ended")
    /\ UNCHANGED <<controlUnchanged, scanVars, log, acked, lostAcks>>

-----------------------------------------------------------------------------
\* The initial reconciliation (syncfs.Reconcile).

ScanManifest(n) ==
    /\ phase[n] = "scan"
    /\ manifest' = [manifest EXCEPT ![n] = disk[n]]
    /\ Goto(n, "publishManifest")
    /\ UNCHANGED <<controlUnchanged, toPush, log, acked, lostAcks, failures>>

PublishManifest(n) ==
    /\ phase[n] = "publishManifest"
    /\ Publish(n, [op |-> "manifest", origin |-> n, files |-> manifest[n]],
               "awaitManifest")
    /\ UNCHANGED <<controlUnchanged, scanVars, acked, lostAcks>>

\* diffPaths: what have's owner must push for want's owner to have it.
DiffPaths(have, want) == {f \in File : have[f] # Absent /\ want[f] # have[f]}

ReceiveManifest(n) ==
    /\ phase[n] = "awaitManifest"
    /\ AwaitControl(n, "manifest", "push")
    /\ toPush' = IF phase'[n] = "push"
                 THEN [toPush EXCEPT ![n] = DiffPaths(manifest[n], Incoming(n).files)]
                 ELSE toPush
    /\ UNCHANGED <<controlUnchanged, manifest, log, failures>>

UnbumpedWrite(n, f) ==                                               \* mutant
    [op |-> "write", origin |-> n, file |-> f, data |-> disk[n][f],
     version |-> versions[n][f], seq |-> sendSeq[n]]
\* The OpWrite of f's present content, with a bumped version.
WriteOf(n, f) ==
    [op |-> "write", origin |-> n, file |-> f, data |-> disk[n][f],
     version |-> Bumped(versions[n][f], n), seq |-> sendSeq[n]]

\* VersionStore.Bump and SendChain.Encrypt, which the event is made with.
StampAndSeal(n, f) ==
    /\ versions' = [versions EXCEPT ![n][f] = Bumped(@, n)]
    /\ sendSeq' = IF enc THEN [sendSeq EXCEPT ![n] = @ + 1] ELSE sendSeq

PushVanished(n, f) ==                                                \* mutant
    /\ phase[n] = "push"
    /\ f \in toPush[n]
    /\ toPush' = [toPush EXCEPT ![n] = @ \ {f}]
    /\ Publish(n, WriteOf(n, f), "push")
    /\ StampAndSeal(n, f)
    /\ UNCHANGED <<enc, disk, manifest, acked, echo, recvSeq, pending, touched,
                   edits, lostAcks>>
\* pushReconciled, on the paths of the difference in any order (a Go map's).
\* The file is read afresh; one that vanished since the scan is not pushed.
Push(n, f) ==
    /\ phase[n] = "push"
    /\ f \in toPush[n]
    /\ toPush' = [toPush EXCEPT ![n] = @ \ {f}]
    /\ \/ /\ disk[n][f] = Absent
          /\ UNCHANGED <<phase, log, failures, versions, sendSeq>>
       \/ /\ disk[n][f] # Absent
          /\ Publish(n, WriteOf(n, f), "push")
          /\ StampAndSeal(n, f)
    /\ UNCHANGED <<enc, disk, manifest, acked, echo, recvSeq, pending, touched,
                   edits, lostAcks>>

WatchWithoutDraining(n) ==                                           \* mutant
    /\ phase[n] = "push"
    /\ toPush[n] = {}
    /\ Publish(n, [op |-> "done", origin |-> n], "live")
    /\ UNCHANGED <<controlUnchanged, scanVars, acked, lostAcks>>
PublishReconcileDone(n) ==
    /\ phase[n] = "push"
    /\ toPush[n] = {}
    /\ Publish(n, [op |-> "done", origin |-> n], "drain")
    /\ UNCHANGED <<controlUnchanged, scanVars, acked, lostAcks>>

-----------------------------------------------------------------------------
\* applyEvent, shared by the drain and the live receiver.

OpensAny(n, event) == TRUE                                           \* mutant
\* RecvChain.Decrypt opens the chain's next sequence number and no other.
Opens(n, event) == enc => event.seq = recvSeq[n]

\* While n is live its watcher sees a change of its disk.
Observed(n, f) ==
    IF phase[n] = "live" THEN [pending EXCEPT ![n] = @ \cup {f}] ELSE pending

Overwrite(n, event, aside) == [disk EXCEPT ![n][event.file] = event.data] \* mutant
\* ApplyConflict: the incoming content lands beside the local file.
PutAside(n, event, aside) == [disk EXCEPT ![n][aside] = event.data]

\* An OpWrite that opened: applied and marked, put aside, or stale.
ApplyWrite(n, event) ==
    LET f == event.file
        local == versions[n][f]
        aside == [of |-> f, from |-> event.origin]
    IN /\ versions' = [versions EXCEPT ![n][f] = Reconciled(local, event.version)]
       /\ \/ /\ After(event.version, local)
             /\ disk' = [disk EXCEPT ![n][f] = event.data]
             /\ echo' = [echo EXCEPT ![n][f] = event.data]
             /\ pending' = Observed(n, f)
          \/ /\ Concurrent(event.version, local)
             /\ f \in Path
             /\ disk' = PutAside(n, event, aside)
             /\ pending' = Observed(n, aside)
             /\ echo' = echo
          \/ /\ Same(event.version, local) \/ Before(event.version, local)
             /\ UNCHANGED <<disk, echo, pending>>

\* The peer's OpWrite is decrypted, handled and acknowledged; one that does not
\* open ends the session.
ReceiveWrite(n) ==
    /\ Incoming(n).op = "write"
    /\ \/ /\ Opens(n, Incoming(n))
          /\ recvSeq' = IF enc THEN [recvSeq EXCEPT ![n] = @ + 1] ELSE recvSeq
          /\ ApplyWrite(n, Incoming(n))
          /\ Ack(n)
          /\ phase' = phase
       \/ /\ ~Opens(n, Incoming(n))
          /\ Nak
          /\ ReceiverEnds(n)
          /\ UNCHANGED <<recvSeq, versions, disk, echo, pending>>

\* drainUntilReconcileDone.
Drain(n) ==
    /\ phase[n] = "drain"
    /\ HasIncoming(n) /\ Incoming(n).origin # n
    /\ \/ ReceiveWrite(n)
       \/ /\ Incoming(n).op = "done"
          /\ Ack(n)
          /\ Goto(n, "live")       \* returns; the caller starts the watcher
          /\ UNCHANGED <<recvSeq, versions, disk, echo, pending>>
       \/ /\ Incoming(n).op \notin {"write", "done"}
          /\ Nak
          /\ ReceiverEnds(n)
          /\ UNCHANGED <<recvSeq, versions, disk, echo, pending>>
    /\ UNCHANGED <<enc, scanVars, log, sendSeq, touched, edits, failures>>

-----------------------------------------------------------------------------
\* The live phase.

\* ReceiveChanges.  A late bootstrap message is skipped; a manifest or a "done"
\* reaches Apply, which knows no such op.
ReceiveLive(n) ==
    /\ phase[n] \in {"live", "receiverOnly"}
    /\ HasIncoming(n) /\ Incoming(n).origin # n
    /\ \/ ReceiveWrite(n)
       \/ /\ Incoming(n).op = "remove"
          /\ disk' = [disk EXCEPT ![n][Incoming(n).file] = Absent]
          /\ echo' = [echo EXCEPT ![n][Incoming(n).file] = RemovedMark]
          /\ pending' = IF disk[n][Incoming(n).file] = Absent THEN pending
                        ELSE Observed(n, Incoming(n).file)
          /\ Ack(n)
          /\ UNCHANGED <<phase, recvSeq, versions>>
       \/ /\ Incoming(n).op \in {"bootstrap", "bootstrapAck"}
          /\ Ack(n)
          /\ UNCHANGED <<phase, recvSeq, versions, disk, echo, pending>>
       \/ /\ Incoming(n).op \in {"manifest", "done"}
          /\ Nak
          /\ ReceiverEnds(n)
          /\ UNCHANGED <<recvSeq, versions, disk, echo, pending>>
    /\ UNCHANGED <<enc, scanVars, log, sendSeq, touched, edits, failures>>

\* What the watcher's report of f is compared with: the content's hash, or the
\* removal sentinel.
Seen(n, f) == IF disk[n][f] = Absent THEN RemovedMark ELSE disk[n][f]

\* The watcher reports f (its present state: a later change restarts the
\* debounce) and publishOne drops the echo, or publishes the change.
PublishChange(n, f) ==
    /\ phase[n] \in {"live", "publisherOnly"}
    /\ f \in pending[n]
    /\ pending' = [pending EXCEPT ![n] = @ \ {f}]
    /\ \/ /\ echo[n][f] = Seen(n, f)
          /\ echo' = [echo EXCEPT ![n][f] = NoMark]
          /\ UNCHANGED <<phase, log, failures, versions, sendSeq>>
       \/ /\ echo[n][f] # Seen(n, f) /\ disk[n][f] = Absent
          /\ Publish(n, [op |-> "remove", origin |-> n, file |-> f], phase[n])
          /\ UNCHANGED <<echo, versions, sendSeq>>
       \/ /\ echo[n][f] # Seen(n, f) /\ disk[n][f] # Absent
          /\ Publish(n, WriteOf(n, f), phase[n])
          /\ StampAndSeal(n, f)
          /\ echo' = echo
    /\ UNCHANGED <<enc, disk, scanVars, acked, recvSeq, touched, edits, lostAcks>>

\* Nothing under way: both live, everything reported and read.
Settled == \A n \in Node : phase[n] = "live" /\ pending[n] = {} /\ acked[n] = Len(log)

\* The user writes or removes a file, at any time after the node's scan.
UserEdit(n, f, c) ==
    /\ phase[n] \notin {"bootstrap", "awaitBootstrap", "awaitBootstrapAck",
                        "answer", "scan"}
    /\ edits < MaxEdits
    /\ Calm => Settled
    /\ edits' = edits + 1
    /\ disk[n][f] # c
    /\ disk' = [disk EXCEPT ![n][f] = c]
    /\ pending' = Observed(n, f)
    /\ touched' = IF phase[n] \in SetUp THEN touched \cup {f} ELSE touched
    /\ UNCHANGED <<enc, phase, scanVars, log, acked, guardVars, chainVars, lostAcks,
                   failures>>

-----------------------------------------------------------------------------
\* The steps a running node takes without a failure.
Step(n) ==
    \/ SkipOwn(n)
    \/ PublishBootstrap(n) \/ ReceiveBootstrap(n)
    \/ PublishBootstrapAck(n) \/ ReceiveBootstrapAck(n)
    \/ ScanManifest(n) \/ PublishManifest(n) \/ ReceiveManifest(n)
    \/ \E f \in File : Push(n, f)
    \/ PublishReconcileDone(n) \/ Drain(n)
    \/ ReceiveLive(n)
    \/ \E f \in File : PublishChange(n, f)

Next == \E n \in Node :
    \/ Step(n)
    \/ Fails(n) \/ BootstrapTimesOut(n)
    \/ \E f \in Path, c \in Content \cup {Absent} : UserEdit(n, f, c)

Spec == Init /\ [][Next]_vars

\* A goroutine that can run does, and a deadline that is due fires; users,
\* failures and lost acknowledgements are under no obligation.
FairSpec ==
    /\ Spec
    /\ \A n \in Node : WF_vars(Step(n)) /\ WF_vars(BootstrapTimesOut(n))

-----------------------------------------------------------------------------
(* What set-up promises. *)

Watching(n) == phase[n] \in {"live", "publisherOnly"}
SaidDone(n, i) == log[i].op = "done" /\ log[i].origin = n
Done(n) == \E i \in 1..Len(log) : SaidDone(n, i)

\* The live changes: what a node published after its own "done".
LiveChanges == {i \in 1..Len(log) :
                  \E k \in 1..(i - 1) : SaidDone(log[i].origin, k)}

\* No live change is in the stream before both nodes have said "done", so a
\* node still writing its half of the reconciliation never meets one.
LiveAfterBothDone ==
    \A i \in LiveChanges, n \in Node : \E k \in 1..(i - 1) : SaidDone(n, k)

Gate == INSTANCE Barrier WITH
    told <- {n \in Node : Done(n)},
    watching <- {n \in Node : Watching(n)},
    changes <- LiveChanges

\* Set-up implements the barrier: nobody watches before both have pushed all.
ImplementsBarrier == Gate!Spec

\* The two ends never lose step by themselves: a session ends only after a
\* failure or a lost acknowledgement.
StaysInStep == (\E n \in Node : Over(n)) => failures > 0 \/ lostAcks > 0

\* Both scans found f with different contents.
InConflict(f) ==
    /\ \A n \in Node : manifest[n][f] # Absent
    /\ manifest[Initiator][f] # manifest[Responder][f]

\* Reconciliation is a union: what either scan found at a path nobody touched
\* is on both trees, at the path or in a conflict file beside it.
UnionReached ==
    edits = 0 /\ Settled =>
        \A m, n \in Node, f \in Path :
            manifest[m][f] # Absent =>
                \/ disk[n][f] = manifest[m][f]
                \/ disk[n][[of |-> f, from |-> m]] = manifest[m][f]

\* Once the two are live and settled, the trees agree on every path that was
\* not in conflict and that nobody touched behind set-up's back.
Converged ==
    Settled =>
        \A f \in Path \ touched :
            ~InConflict(f) => disk[Initiator][f] = disk[Responder][f]

\* ... and so do the versions, for every path, conflict or not: the next live
\* edit of either side applies cleanly on the other.
VersionsAgree ==
    Settled => \A f \in Path : versions[Initiator][f] = versions[Responder][f]

\* No node waits for ever: for a bootstrap message at all, for anything else
\* unless its peer is gone (Reconcile has no deadline).
SetUpEnds ==
    \A n \in Node :
        <>[](\/ phase[n] = "live" \/ Over(n)
             \/ Over(Peer(n)) /\ ~Bootstrapping(n))

=============================================================================
