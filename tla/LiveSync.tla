------------------------------ MODULE LiveSync ------------------------------
(***************************************************************************)
(* The live phase of a Watcher session (jsync watch <-> jsyncd), after the *)
(* initial reconciliation: on every node a debounced file watcher, the     *)
(* PublishChanges goroutine and the ReceiveChanges goroutine run           *)
(* concurrently and share the disk, the EchoGuard and the VersionStore.    *)
(* The nodes exchange events over one totally ordered JetStream stream,    *)
(* each with its own durable consumer (MaxAckPending 1, explicit acks).    *)
(*                                                                         *)
(* One action is one critical section: a mutex-protected call on the       *)
(* EchoGuard or the VersionStore, one system call, one stream operation.   *)
(***************************************************************************)
EXTENDS VersionVectors, Sequences, FiniteSets

CONSTANTS
    Path,        \* files the users edit
    Base,        \* what a file may hold, on every node, once reconciled
    Content,     \* whole contents a user gives a file
    Stamp,       \* seconds a conflict file's name can carry
    Absent,      \* "no such file"
    Torn,        \* a file read between its O_TRUNC and its last write(2)
    NoMark,      \* no entry in the EchoGuard
    RemovedMark, \* echo.go's removedSentinel
    Renamer,     \* nodes whose OS watcher correlates renames (Windows)
    Daemon,      \* nodes that run the session inside jsyncd
    Encrypt,     \* whether the session may be opened with --encrypt, and without
    FreshDir,    \* files whose directory is created together with them
    Calm,        \* users act only once the previous change has settled
    Editor,      \* nodes whose user acts at all
    MaxEdits,    \* bound: user actions in a behaviour
    MaxLog,      \* bound: events in the stream
    MaxLostAcks, \* bound: acknowledgements lost on the way to the server
    MaxFailures  \* bound: publishes, fetches, applies and acks that fail

ASSUME ConstantsOK ==
    /\ Renamer \subseteq Node /\ Daemon \subseteq Node /\ Editor \subseteq Node
    /\ FreshDir \subseteq Path
    /\ Encrypt \subseteq BOOLEAN /\ Calm \in BOOLEAN
    /\ {MaxEdits, MaxLog, MaxLostAcks, MaxFailures} \subseteq Nat
    /\ Base \subseteq Content \cup {Absent}
    /\ Absent \notin Content \cup {Torn, NoMark, RemovedMark}
    /\ {NoMark, RemovedMark} \cap (Content \cup {Torn}) = {}
    /\ NoMark # RemovedMark
    /\ Torn \notin Content

ASSUME PathsAreNoMarks ==
    NoMark \notin Path \cup [of : Path, from : Node, at : Stamp]

-----------------------------------------------------------------------------
\* Files, events and what the watcher reports.

\* "<path>.conflict-<origin>-<unix second>", an ordinary file to everyone.
ConflictFile == [of : Path, from : Node, at : Stamp]
File == Path \cup ConflictFile
Data == Content \cup {Torn}

WriteEvent == [op : {"write"}, origin : Node, file : File, data : Data,
               version : Vector, seq : Nat]
RemoveEvent == [op : {"remove"}, origin : Node, file : File]
RenameEvent == [op : {"rename"}, origin : Node, file : File, old : File]
Event == WriteEvent \cup RemoveEvent \cup RenameEvent

\* A debounced watch.ChangeEvent.  The debounce table has one entry per key,
\* "path:<rel>" or "rename:<new rel>".
Change == [kind : {"modified", "removed"}, file : File]
              \cup [kind : {"renamed"}, file : File, old : File]
SameKey(a, b) == a.file = b.file /\ (a.kind = "renamed" <=> b.kind = "renamed")

VARIABLES
    disk,      \* disk[n][f]: what n's file system holds at f
    pending,   \* pending[n]: changes whose debounce timer runs on n
    session,   \* session[n]: "running", or "ended" once its function returned
    pub,       \* pub[n]: where n's PublishChanges goroutine is
    rx,        \* rx[n]: where n's ReceiveChanges goroutine is
    versions,  \* versions[n][f]: VersionStore.byPath
    echo,      \* echo[n][f]: EchoGuard.entries
    renamed,   \* renamed[n][new]: EchoGuard.renamed
    enc,       \* the session is encrypted: both sides hold an Encryption
    sendSeq,   \* sendSeq[n]: enc.SendChain's counter
    recvSeq,   \* recvSeq[n]: enc.RecvChain's counter
    log,       \* the session's events stream
    acked,     \* acked[n]: stream sequence n's consumer has acknowledged
    audit,     \* audit[n]: outcomes of incoming writes in n's audit log
    edits, lostAcks, failures   \* consumed budgets

fsVars     == <<disk, pending>>
guardVars  == <<versions, echo, renamed>>
chainVars  == <<enc, sendSeq, recvSeq>>
streamVars == <<log, acked>>
budgets    == <<edits, lostAcks, failures>>
vars == <<fsVars, session, pub, rx, guardVars, chainVars, streamVars, audit,
          budgets>>

\* The states of PublishChanges: waiting in its select, holding a change it
\* received, having read and hashed the file, past the echo check, about to
\* publish an event, or returned.
Idle == [at |-> "select"]
PubState ==
    [at : {"select", "returned"}]
        \cup [at : {"took"}, change : Change]
        \cup [at : {"hashed", "bump"}, file : File, data : Data]
        \cup [at : {"publish"}, event : Event]

RxState == {"fetch", "reconcile", "apply", "write", "markApplied", "conflict",
            "remove", "markRemoved", "rename", "markRenamed", "ack", "returned"}

\* The steps the receiver can be at while it holds an event with this Op.
StepsFor(op) ==
    {"ack"} \cup
    ( IF op = "write" THEN {"reconcile", "apply", "write", "markApplied", "conflict"}
      ELSE IF op = "remove" THEN {"remove", "markRemoved"}
      ELSE {"rename", "markRenamed"} )

Outcome == {"applied", "conflict", "stale"}
AuditRecord == [id : Nat, outcome : Outcome]

\* n's receiver holds an event it has not acknowledged.
InHand(n) == acked[n] < Len(log) /\ rx[n] \in StepsFor(log[acked[n] + 1].op)

TypeOK ==
    /\ disk \in [Node -> [File -> Data \cup {Absent}]]
    /\ pending \in [Node -> SUBSET Change]
    /\ session \in [Node -> {"running", "ended"}]
    /\ pub \in [Node -> PubState]
    /\ rx \in [Node -> RxState]
    /\ versions \in [Node -> [File -> Vector]]
    /\ echo \in [Node -> [File -> Data \cup {NoMark, RemovedMark}]]
    /\ renamed \in [Node -> [File -> File \cup {NoMark}]]
    /\ enc \in Encrypt
    /\ sendSeq \in [Node -> Nat] /\ recvSeq \in [Node -> Nat]
    /\ log \in Seq(Event)
    /\ acked \in [Node -> Nat]
    /\ \A n \in Node : acked[n] <= Len(log)
    /\ \A n \in Node : rx[n] \notin {"fetch", "returned"} => InHand(n)
    /\ audit \in [Node -> Seq(AuditRecord)]
    /\ edits \in Nat /\ lostAcks \in Nat /\ failures \in Nat

\* The two trees agree after the initial reconciliation; a file that was
\* already identical on both sides was never pushed, so the VersionStore and
\* the EchoGuard hold nothing about it.
Init ==
    /\ \E base \in [Path -> Base] :
         disk = [n \in Node |->
                   [f \in File |-> IF f \in Path THEN base[f] ELSE Absent]]
    /\ pending = [n \in Node |-> {}]
    /\ session = [n \in Node |-> "running"]
    /\ pub = [n \in Node |-> Idle]
    /\ rx = [n \in Node |-> "fetch"]
    /\ versions = [n \in Node |-> [f \in File |-> ZeroVector]]
    /\ echo = [n \in Node |-> [f \in File |-> NoMark]]
    /\ renamed = [n \in Node |-> [f \in File |-> NoMark]]
    /\ enc \in Encrypt
    /\ sendSeq = [n \in Node |-> 0] /\ recvSeq = [n \in Node |-> 0]
    /\ log = <<>>
    /\ acked = [n \in Node |-> 0]
    /\ audit = [n \in Node |-> <<>>]
    /\ edits = 0 /\ lostAcks = 0 /\ failures = 0

-----------------------------------------------------------------------------
\* The watcher.

\* loop's schedule: (re)start the timer of the change's key.
Scheduled(table, change) ==
    {c \in table : ~SameKey(c, change)} \cup {change}

\* Every change of n's disk is observed, whoever made it, while the watcher
\* of n's session is open.
Observe(n, change) ==
    pending' = IF session[n] = "running"
               THEN [pending EXCEPT ![n] = Scheduled(@, change)]
               ELSE pending

\* Moving old to new: one correlated change where the OS reports pairs, else
\* (inotify) a removal and a creation.
ObserveMove(n, old, new) ==
    IF n \in Renamer
    THEN Observe(n, [kind |-> "renamed", file |-> new, old |-> old])
    ELSE pending' = IF session[n] = "running"
                    THEN [pending EXCEPT ![n] =
                             Scheduled(Scheduled(@, [kind |-> "removed", file |-> old]),
                                       [kind |-> "modified", file |-> new])]
                    ELSE pending

-----------------------------------------------------------------------------
\* The session's end.

\* The session function of n returns because one direction failed.  jsync then
\* exits, taking both goroutines with it; in jsyncd only the failed goroutine
\* is gone, the other one and the debounce loop live on without fw.
EndSession(n, failed) ==
    /\ session' = [session EXCEPT ![n] = "ended"]
    /\ IF n \in Daemon /\ failed = "rx"
       THEN pub' = pub
       ELSE pub' = [pub EXCEPT ![n] = [at |-> "returned"]]
    /\ IF n \in Daemon /\ failed = "pub"
       THEN rx' = rx
       ELSE rx' = [rx EXCEPT ![n] = "returned"]

\* Nothing observed, queued, being published or not yet consumed.
SettledAt(n) ==
    /\ pending[n] = {}
    /\ pub[n] = Idle
    /\ rx[n] = "fetch" /\ acked[n] = Len(log)
Settled == \A n \in Node : SettledAt(n)

-----------------------------------------------------------------------------
\* The users.

Acts(n) ==
    /\ n \in Editor
    /\ edits < MaxEdits
    /\ Calm => Settled
    /\ edits' = edits + 1
    /\ UNCHANGED <<session, pub, rx, guardVars, chainVars, streamVars, audit,
                   lostAcks, failures>>

UserWrite(n, f, c) ==
    /\ Acts(n)
    /\ disk[n][f] # c
    /\ disk' = [disk EXCEPT ![n][f] = c]
    /\ Observe(n, [kind |-> "modified", file |-> f])

UserRemove(n, f) ==
    /\ Acts(n)
    /\ disk[n][f] # Absent
    /\ disk' = [disk EXCEPT ![n][f] = Absent]
    /\ Observe(n, [kind |-> "removed", file |-> f])

UserRename(n, old, new) ==
    /\ Acts(n)
    /\ disk[n][old] # Absent /\ old # new
    /\ disk' = [disk EXCEPT ![n][new] = disk[n][old], ![n][old] = Absent]
    /\ ObserveMove(n, old, new)

-----------------------------------------------------------------------------
\* PublishChanges.

\* n's receiver is applying an event to f and has not marked it yet.
Applying(n, f) ==
    /\ rx[n] \in {"apply", "write", "markApplied", "remove", "markRemoved",
                  "rename", "markRenamed"}
    /\ LET ev == log[acked[n] + 1] IN
       f = ev.file \/ (ev.op = "rename" /\ f = ev.old)

\* A timer fires and the loop hands its change to the waiting publisher.  Each
\* system call of an apply restarts f's timer, so it does not expire before the
\* mark is there, except that the files found in a directory that has just
\* appeared are reported at once (handleCreate's catch-up).
Fire(n, change) ==
    /\ pub[n] = Idle
    /\ change \in pending[n]
    /\ change.file \in FreshDir \/ ~Applying(n, change.file)
    /\ pending' = [pending EXCEPT ![n] = @ \ {change}]
    /\ pub' = [pub EXCEPT ![n] = [at |-> "took", change |-> change]]
    /\ UNCHANGED <<disk, session, rx, guardVars, chainVars, streamVars, audit,
                   budgets>>

Took(n, kind) == pub[n].at = "took" /\ pub[n].change.kind = kind

\* publishOne, ChangeModified: os.ReadFile.  A file that vanished meanwhile is
\* covered by the removal's own change.
ReadFile(n) ==
    /\ Took(n, "modified")
    /\ LET f == pub[n].change.file IN
       pub' = [pub EXCEPT ![n] =
                 IF disk[n][f] = Absent THEN Idle
                 ELSE [at |-> "hashed", file |-> f, data |-> disk[n][f]]]
    /\ UNCHANGED <<fsVars, session, rx, guardVars, chainVars, streamVars, audit,
                   budgets>>

\* An EchoGuard entry matches what the watcher saw of f.
Matches(n, f, seen) == echo[n][f] = seen

KeepEntry(n, f) == echo' = echo                                      \* mutant
\* A matched entry is consumed.
Consume(n, f) == echo' = [echo EXCEPT ![n][f] = NoMark]

\* EchoGuard.IsEcho, on the hash of the content.
IsEcho(n) ==
    /\ pub[n].at = "hashed"
    /\ IF Matches(n, pub[n].file, pub[n].data)
       THEN /\ Consume(n, pub[n].file)
            /\ pub' = [pub EXCEPT ![n] = Idle]
       ELSE /\ echo' = echo
            /\ pub' = [pub EXCEPT ![n] = [at |-> "bump", file |-> pub[n].file,
                                          data |-> pub[n].data]]
    /\ UNCHANGED <<fsVars, session, rx, versions, renamed, chainVars, streamVars,
                   audit, budgets>>

KeepSendChain(n) == sendSeq' = sendSeq                                \* mutant
\* Every encryption advances the sending chain.
AdvanceSendChain(n) ==
    sendSeq' = IF enc THEN [sendSeq EXCEPT ![n] = @ + 1] ELSE sendSeq

\* VersionStore's s.byPath[relPath] = v.
StoreVersion(n, f, v) == versions' = [versions EXCEPT ![n][f] = v]

\* VersionStore.Bump, then SendChain.Encrypt of the content already read.
Bump(n) ==
    /\ pub[n].at = "bump"
    /\ LET f == pub[n].file
           v == Bumped(versions[n][f], n)
       IN /\ StoreVersion(n, f, v)
          /\ pub' = [pub EXCEPT ![n] =
                [at |-> "publish",
                 event |-> [op |-> "write", origin |-> n, file |-> f,
                            data |-> pub[n].data, version |-> v,
                            seq |-> sendSeq[n]]]]
    /\ AdvanceSendChain(n)
    /\ UNCHANGED <<fsVars, session, rx, echo, renamed, enc, recvSeq, streamVars,
                   audit, budgets>>

\* EchoGuard.IsEchoRemove, else an OpRemove is published.
IsEchoRemove(n) ==
    /\ Took(n, "removed")
    /\ LET f == pub[n].change.file IN
       IF Matches(n, f, RemovedMark)
       THEN /\ Consume(n, f)
            /\ pub' = [pub EXCEPT ![n] = Idle]
       ELSE /\ echo' = echo
            /\ pub' = [pub EXCEPT ![n] = [at |-> "publish",
                   event |-> [op |-> "remove", origin |-> n, file |-> f]]]
    /\ UNCHANGED <<fsVars, session, rx, versions, renamed, chainVars, streamVars,
                   audit, budgets>>

\* EchoGuard.IsEchoRename, else an OpRename is published.
IsEchoRename(n) ==
    /\ Took(n, "renamed")
    /\ LET c == pub[n].change IN
       IF renamed[n][c.file] = c.old
       THEN /\ renamed' = [renamed EXCEPT ![n][c.file] = NoMark]
            /\ pub' = [pub EXCEPT ![n] = Idle]
       ELSE /\ renamed' = renamed
            /\ pub' = [pub EXCEPT ![n] = [at |-> "publish",
                   event |-> [op |-> "rename", origin |-> n, file |-> c.file,
                              old |-> c.old]]]
    /\ UNCHANGED <<fsVars, session, rx, versions, echo, chainVars, streamVars,
                   audit, budgets>>

\* js.Publish returns the stream sequence it was stored under.
Publish(n) ==
    /\ pub[n].at = "publish"
    /\ Len(log) < MaxLog
    /\ log' = Append(log, pub[n].event)
    /\ pub' = [pub EXCEPT ![n] = Idle]
    /\ UNCHANGED <<fsVars, session, rx, guardVars, chainVars, acked, audit, budgets>>

\* js.Publish returns an error, the event stored or not: PublishChanges
\* returns it and the session ends.
PublishFails(n) ==
    /\ pub[n].at = "publish"
    /\ failures < MaxFailures
    /\ Len(log) < MaxLog
    /\ failures' = failures + 1
    /\ log' \in {log, Append(log, pub[n].event)}
    /\ EndSession(n, "pub")
    /\ UNCHANGED <<fsVars, guardVars, chainVars, acked, audit, edits, lostAcks>>

-----------------------------------------------------------------------------
\* ReceiveChanges.

\* The event n's receiver holds: the first one its consumer has not acknowledged.
Incoming(n) == log[acked[n] + 1]

Advance(n, step) == rx' = [rx EXCEPT ![n] = step]

Recorded(n, outcome) ==
    audit' = [audit EXCEPT ![n] =
                 Append(@, [id |-> acked[n] + 1, outcome |-> outcome])]

SkipOwnUnacked(n) ==                                                 \* mutant
    /\ rx[n] = "fetch"
    /\ acked[n] < Len(log)
    /\ Incoming(n).origin = n
    /\ UNCHANGED vars

\* cons.Fetch(1) hands back the node's own publish, which is only acknowledged.
SkipOwn(n) ==
    /\ rx[n] = "fetch"
    /\ acked[n] < Len(log)
    /\ Incoming(n).origin = n
    /\ acked' = [acked EXCEPT ![n] = @ + 1]
    /\ UNCHANGED <<fsVars, session, pub, rx, guardVars, chainVars, log, audit,
                   budgets>>

FetchAckingEarly(n) ==                                               \* mutant
    /\ rx[n] = "fetch" /\ acked[n] < Len(log) /\ Incoming(n).origin # n
    /\ Advance(n, IF Incoming(n).op = "write" THEN "reconcile" ELSE Incoming(n).op)
    /\ acked' = [acked EXCEPT ![n] = @ + 1]
    /\ UNCHANGED <<fsVars, session, pub, guardVars, chainVars, log, audit, budgets>>

OpensAny(n, ev) == TRUE                                              \* mutant
\* RecvChain.Decrypt opens the chain's next sequence number and no other.
Opens(n, ev) == ~enc \/ ev.seq = recvSeq[n]

\* cons.Fetch(1) hands over a peer's event.  A write is decrypted first; one
\* that does not open ends the session.
Fetch(n) ==
    /\ rx[n] = "fetch"
    /\ acked[n] < Len(log)
    /\ Incoming(n).origin # n
    /\ LET ev == Incoming(n) IN
       \/ /\ ev.op # "write"
          /\ Advance(n, ev.op)
          /\ UNCHANGED <<session, pub, recvSeq>>
       \/ /\ ev.op = "write"
          /\ Opens(n, ev)
          /\ Advance(n, "reconcile")
          /\ recvSeq' = IF enc THEN [recvSeq EXCEPT ![n] = @ + 1] ELSE recvSeq
          /\ UNCHANGED <<session, pub>>
       \/ /\ ev.op = "write"
          /\ ~Opens(n, ev)
          /\ EndSession(n, "rx")
          /\ recvSeq' = recvSeq
    /\ UNCHANGED <<fsVars, guardVars, enc, sendSeq, streamVars, audit, budgets>>

\* VersionStore.Reconcile, which stores the new vector before anything is
\* written to disk.
Reconcile(n) ==
    /\ rx[n] = "reconcile"
    /\ LET ev == Incoming(n)
           local == versions[n][ev.file]
       IN /\ StoreVersion(n, ev.file, Reconciled(local, ev.version))
          /\ \/ /\ After(ev.version, local)
                /\ Advance(n, "apply")
                /\ audit' = audit
             \/ /\ Concurrent(ev.version, local)
                /\ Advance(n, "conflict")
                /\ audit' = audit
             \/ /\ Same(ev.version, local) \/ Before(ev.version, local)
                /\ Advance(n, "ack")
                /\ Recorded(n, "stale")
    /\ UNCHANGED <<fsVars, session, pub, echo, renamed, chainVars, streamVars,
                   budgets>>

\* ApplyConflict: the incoming content lands beside the local file, under a
\* name made of its origin and the current second.
ApplyConflict(n) ==
    /\ rx[n] = "conflict"
    /\ \E at \in Stamp :
         LET ev == Incoming(n)
             aside == [of |-> ev.file, from |-> ev.origin, at |-> at]
         IN /\ aside \in ConflictFile
            /\ disk' = [disk EXCEPT ![n][aside] = ev.data]
            /\ Observe(n, [kind |-> "modified", file |-> aside])
    /\ Recorded(n, "conflict")
    /\ Advance(n, "ack")
    /\ UNCHANGED <<session, pub, guardVars, chainVars, streamVars, budgets>>

\* applyWrite, os.WriteFile: O_TRUNC first, then the content.
Truncate(n) ==
    /\ rx[n] = "apply"
    /\ LET f == Incoming(n).file IN
       /\ disk' = [disk EXCEPT ![n][f] = Torn]
       /\ Observe(n, [kind |-> "modified", file |-> f])
    /\ Advance(n, "write")
    /\ UNCHANGED <<session, pub, guardVars, chainVars, streamVars, audit, budgets>>

ApplyWrite(n) ==
    /\ rx[n] = "write"
    /\ LET ev == Incoming(n) IN
       /\ disk' = [disk EXCEPT ![n][ev.file] = ev.data]
       /\ Observe(n, [kind |-> "modified", file |-> ev.file])
    /\ Advance(n, "markApplied")
    /\ UNCHANGED <<session, pub, guardVars, chainVars, streamVars, audit, budgets>>

\* EchoGuard.MarkApplied, and the audit record of the write.
MarkApplied(n) ==
    /\ rx[n] = "markApplied"
    /\ echo' = [echo EXCEPT ![n][Incoming(n).file] = Incoming(n).data]
    /\ Recorded(n, "applied")
    /\ Advance(n, "ack")
    /\ UNCHANGED <<fsVars, session, pub, versions, renamed, chainVars, streamVars,
                   budgets>>

\* applyRemove: os.RemoveAll, a no-op on a missing file, of which the watcher
\* then sees nothing.
ApplyRemove(n) ==
    /\ rx[n] = "remove"
    /\ LET f == Incoming(n).file IN
       /\ disk' = [disk EXCEPT ![n][f] = Absent]
       /\ IF disk[n][f] = Absent
          THEN pending' = pending
          ELSE Observe(n, [kind |-> "removed", file |-> f])
    /\ Advance(n, "markRemoved")
    /\ UNCHANGED <<session, pub, guardVars, chainVars, streamVars, audit, budgets>>

MarkRemoved(n) ==
    /\ rx[n] = "markRemoved"
    /\ echo' = [echo EXCEPT ![n][Incoming(n).file] = RemovedMark]
    /\ Advance(n, "ack")
    /\ UNCHANGED <<fsVars, session, pub, versions, renamed, chainVars, streamVars,
                   audit, budgets>>

\* applyRename: os.Rename fails when the old path is not there, and the error
\* ends the session.
ApplyRename(n) ==
    /\ rx[n] = "rename"
    /\ LET ev == Incoming(n) IN
       IF disk[n][ev.old] = Absent
       THEN /\ EndSession(n, "rx")
            /\ UNCHANGED fsVars
       ELSE /\ disk' = [disk EXCEPT ![n][ev.file] = disk[n][ev.old],
                                    ![n][ev.old] = Absent]
            /\ ObserveMove(n, ev.old, ev.file)
            /\ Advance(n, "markRenamed")
            /\ UNCHANGED <<session, pub>>
    /\ UNCHANGED <<guardVars, chainVars, streamVars, audit, budgets>>

MarkRenamedSwapped(n) ==                                             \* mutant
    /\ rx[n] = "markRenamed"
    /\ renamed' = [renamed EXCEPT ![n][Incoming(n).old] = Incoming(n).file]
    /\ Advance(n, "ack")
    /\ UNCHANGED <<fsVars, session, pub, versions, echo, chainVars, streamVars,
                   audit, budgets>>

MarkRenamed(n) ==
    /\ rx[n] = "markRenamed"
    /\ renamed' = [renamed EXCEPT ![n][Incoming(n).file] = Incoming(n).old]
    /\ Advance(n, "ack")
    /\ UNCHANGED <<fsVars, session, pub, versions, echo, chainVars, streamVars,
                   audit, budgets>>

\* msg.Ack() is not confirmed: it moves the durable consumer on, or it is lost
\* and the same event is delivered again after AckWait.
Ack(n) ==
    /\ rx[n] = "ack"
    /\ acked' = [acked EXCEPT ![n] = @ + 1]
    /\ Advance(n, "fetch")
    /\ UNCHANGED <<fsVars, session, pub, guardVars, chainVars, log, audit, budgets>>

AckLost(n) ==
    /\ rx[n] = "ack"
    /\ lostAcks < MaxLostAcks
    /\ lostAcks' = lostAcks + 1
    /\ Advance(n, "fetch")
    /\ UNCHANGED <<fsVars, session, pub, guardVars, chainVars, streamVars, audit,
                   edits, failures>>

\* cons.Fetch or msg.Ack returns an error (the ack taken or not), or the session's
\* connection is gone: ReceiveChanges returns it and the session ends.
ReceiverFails(n) ==
    /\ rx[n] \in {"fetch", "ack"}
    /\ failures < MaxFailures
    /\ failures' = failures + 1
    /\ acked' \in IF rx[n] = "ack" THEN {acked, [acked EXCEPT ![n] = @ + 1]}
                                  ELSE {acked}
    /\ EndSession(n, "rx")
    /\ UNCHANGED <<fsVars, guardVars, chainVars, log, audit, edits, lostAcks>>

\* A system call of an apply returns an error, a full disk's or a locked file's,
\* and applyEvent's error ends the session.  What was to be replaced stays as it
\* is: whole if nothing was opened yet, Torn after Truncate.  The conflict
\* file, opened and written in one step here, may be left Torn too.
ApplyFails(n) ==
    /\ rx[n] \in {"conflict", "apply", "write", "remove", "rename"}
    /\ failures < MaxFailures
    /\ failures' = failures + 1
    /\ \/ UNCHANGED fsVars
       \/ /\ rx[n] = "conflict"
          /\ \E at \in Stamp :
               LET ev == Incoming(n)
                   aside == [of |-> ev.file, from |-> ev.origin, at |-> at]
               IN /\ aside \in ConflictFile
                  /\ disk' = [disk EXCEPT ![n][aside] = Torn]
                  /\ Observe(n, [kind |-> "modified", file |-> aside])
    /\ EndSession(n, "rx")
    /\ UNCHANGED <<guardVars, chainVars, streamVars, audit, edits, lostAcks>>

-----------------------------------------------------------------------------
UserStep(n) ==
    \/ \E f \in Path, c \in Content : UserWrite(n, f, c)
    \/ \E f \in Path : UserRemove(n, f)
    \/ \E old, new \in Path : UserRename(n, old, new)

PublisherStep(n) ==
    \/ \E change \in pending[n] : Fire(n, change)
    \/ ReadFile(n) \/ IsEcho(n) \/ Bump(n)
    \/ IsEchoRemove(n) \/ IsEchoRename(n)
    \/ Publish(n)

ReceiverStep(n) ==
    \/ SkipOwn(n) \/ Fetch(n) \/ Reconcile(n) \/ ApplyConflict(n)
    \/ Truncate(n) \/ ApplyWrite(n) \/ MarkApplied(n)
    \/ ApplyRemove(n) \/ MarkRemoved(n)
    \/ ApplyRename(n) \/ MarkRenamed(n)
    \/ Ack(n)

Next == \E n \in Node :
    \/ UserStep(n) \/ PublisherStep(n) \/ ReceiverStep(n)
    \/ PublishFails(n) \/ ReceiverFails(n) \/ ApplyFails(n) \/ AckLost(n)

Spec == Init /\ [][Next]_vars

\* Goroutines that can run do run; users, lost acknowledgements and publish
\* errors are under no obligation.
FairSpec ==
    /\ Spec
    /\ \A n \in Node : WF_vars(PublisherStep(n)) /\ WF_vars(ReceiverStep(n))

-----------------------------------------------------------------------------
(* What the protocol promises. *)

IsWriteOf(i, f) == i \in 1..Len(log) /\ log[i].op = "write" /\ log[i].file = f

\* Nobody knows of more writes by m than m itself has stamped: no stored vector,
\* no event of the stream and no event about to be published.
KnowledgeIsCausal ==
    \A m, n \in Node, f \in File :
        /\ versions[n][f][m] <= versions[m][f][m]
        /\ \A i \in 1..Len(log) :
              IsWriteOf(i, f) => log[i].version[m] <= versions[m][f][m]
        /\ pub[n].at = "publish" /\ pub[n].event.op = "write" /\ pub[n].event.file = f
              => pub[n].event.version[m] <= versions[m][f][m]

\* The stream never carries an effect before its cause: of two writes of one
\* file, the later one in the stream knows a write the earlier one does not.
LogIsCausal ==
    \A j \in 1..Len(log) : \A i \in 1..(j - 1) :
        IsWriteOf(j, log[j].file) /\ IsWriteOf(i, log[j].file)
            => KnowsMore(log[j].version, log[i].version)

\* A peer's write is decided exactly once, the first time it is delivered: it is
\* applied or put aside as a conflict, never dropped as stale; every
\* redelivery of it is stale.
FirstDeliveryDecides ==
    \A n \in Node : \A i \in 1..acked[n] :
        log[i].op = "write" /\ log[i].origin # n =>
            \E k \in 1..Len(audit[n]) :
                /\ audit[n][k].id = i /\ audit[n][k].outcome # "stale"
                /\ \A j \in 1..Len(audit[n]) \ {k} :
                      audit[n][j].id = i => j > k /\ audit[n][j].outcome = "stale"

\* n's audit log holds this verdict on the event with stream sequence i.
Found(n, i, outcome) ==
    \E k \in 1..Len(audit[n]) : audit[n][k] = [id |-> i, outcome |-> outcome]

\* When two nodes wrote a file without having seen each other's write, both
\* notice: each one reports the other's write as a conflict.
ConflictsAreMutual ==
    \A m, n \in Node : \A i \in 1..acked[n], j \in 1..acked[m] :
        /\ log[i].op = "write" /\ log[j].op = "write" /\ log[i].file = log[j].file
        /\ log[i].origin = m /\ log[j].origin = n /\ m # n
        /\ Concurrent(log[i].version, log[j].version)
        => Found(n, i, "conflict") /\ Found(m, j, "conflict")

\* In an encrypted session each write is opened and decided at most once, in the
\* order its author sealed them: a redelivery ends the session instead of being
\* applied twice.
OpenedOnceInOrder ==
    enc =>
        \A n \in Node : \A j \in 1..Len(audit[n]) : \A i \in 1..(j - 1) :
            log[audit[n][i].id].seq < log[audit[n][j].id].seq

\* A session that ends although nothing failed ends because a lost
\* acknowledgement delivered an encrypted write twice.
EndsOnlyOnRedelivery ==
    failures = 0 /\ (lostAcks = 0 \/ ~enc)
        => \A n \in Node : session[n] = "running"

\* When nothing is under way, the trees are the same.
Converged == Settled => \A m, n \in Node, f \in Path : disk[m][f] = disk[n][f]

\* A user's action is published at most once: what the other node does to its
\* own tree because of it is recognized as an echo and never comes back.
EchoesAreDropped == Len(log) <= edits

\* An incoming write never destroys a content the local user gave the file and
\* no event of the stream carries.
NoSilentOverwrite ==
    [][\A n \in Node :
          rx[n] = "apply" /\ rx'[n] = "write" =>
             LET f == Incoming(n).file IN
             disk[n][f] \in Content =>
                \E i \in 1..Len(log) : IsWriteOf(i, f) /\ log[i].data = disk[n][f]]_vars

\* Only changes made by a user are published.
AppliedIsNotRepublished == \A i \in 1..Len(log) : log[i].origin \in Editor

\* Events do not bounce between the nodes for ever: unless a session failed, the
\* system comes to rest.
ComesToRest == []<>(Settled \/ \E n \in Node : session[n] = "ended")

=============================================================================
