---------------------------- MODULE ShareResume ----------------------------
(***************************************************************************)
(* Successive and concurrent `jsync share` attempts to one destination:    *)
(* the handshake that reports what an earlier attempt left behind, the     *)
(* sender's walk that skips those files, the sandbox ReceiveSession claims *)
(* and extracts into, CommitSandbox, and the ResumeRegistry between them.  *)
(* The bytes travel as Transfer promises: a session extracts a prefix of   *)
(* what its sender archived, and commits only after the whole of it.       *)
(*                                                                         *)
(* A tree gives every file its content; one action is one system call on a *)
(* directory, one locked call on the registry, or one file read or written.*)
(***************************************************************************)
EXTENDS Naturals, Sequences, SequencesExt

CONSTANTS
    Peer,          \* authorized senders
    Session,       \* handshake session ids, each used once
    File,          \* files of the shared tree
    NoFile,        \* "not there"
    Partial,       \* a file truncated and not yet written whole
    Gone,          \* "no such directory"
    NoEntry,       \* nothing parked
    Idle,          \* Handle is not running
    Circumstance,  \* what may happen: see Circumstances
    MaxEdits,      \* bound: changes to the source tree
    MaxFaults,     \* bound: file system calls of a commit that fail
    MaxRestarts    \* bound: daemon restarts

\* "overlap": attempts for the destination run at the same time;
\* "recut":   the network fails again while a file that an earlier attempt
\*            completed is being written a second time;
\* "expiry":  the grace period can end between Peek and Claim;
\* "cleanup": removing the replaced tree can fail.
Circumstances == {"overlap", "recut", "expiry", "cleanup"}

ASSUME CircumstanceOK == Circumstance \subseteq Circumstances
ASSUME BoundsOK == {MaxEdits, MaxFaults, MaxRestarts} \subseteq Nat
ASSUME Distinct ==
    /\ NoFile # Partial
    /\ {NoFile, Partial} \cap (0 .. MaxEdits) = {}
    /\ Gone \notin [File -> 0 .. MaxEdits \cup {NoFile, Partial}]
    /\ Idle \notin Session
ASSUME NoEntryOK ==
    NoEntry \notin [box : Session, completed : [File -> 0 .. MaxEdits \cup {NoFile}],
                    expired : BOOLEAN]

\* Contents a file can have; 0 is what all files start with.
Content == 0 .. MaxEdits
Known == [File -> Content \cup {NoFile}]             \* relPath -> hash
Tree == [File -> Content \cup {NoFile, Partial}]
Empty == [f \in File |-> NoFile]
Entry == [box : Session, completed : Known, expired : BOOLEAN]

VARIABLES
    src,        \* the sender's tree
    edits,      \* edits so far
    handling,   \* the session Responder.Handle is answering, or Idle
    owner,      \* owner[s]: Session.PeerPublicKey
    skip,       \* skip[s]: Response.ResumedFiles
    left,       \* left[s]: files the sender's walk has still to visit
    seen,       \* seen[s]: what the walk read of each file it visited
    stream,     \* stream[s]: the files archived, in order
    phase,      \* phase[s]: where ReceiveSession is
    box,        \* box[s]: the session whose id names s's sandboxDir
    completed,  \* completed[s]: ReceiveSession's completed
    got,        \* got[s]: archive entries extracted whole
    entries,    \* ResumeRegistry.entries, per peer
    tree,       \* tree[b]: the directory .jsync_tmp_<b>
    aside,      \* aside[b]: the directory <dest>.stale-.jsync_tmp_<b>
    dest,       \* the destination directory
    landed,     \* history: the tree s renamed onto the destination
    faults,     \* failed file system calls so far
    restarts    \* daemon restarts so far

user == <<src, edits>>
sender == <<left, seen, stream>>
handshake == <<handling, owner, skip>>
receiver == <<phase, box, completed, got>>
disk == <<tree, aside, dest, landed>>
bounds == <<faults, restarts>>
vars == <<src, edits, handling, owner, skip, left, seen, stream, phase, box,
          completed, got, entries, tree, aside, dest, landed, faults, restarts>>

Committing == {"look", "clear", "aside", "land", "landover", "clean"}
Holding == {"receiving", "writing"} \cup Committing
Phase == {"unborn", "approved", "ended"} \cup Holding

TypeOK ==
    /\ src \in Known /\ edits \in 0 .. MaxEdits
    /\ handling \in Session \cup {Idle}
    /\ owner \in [Session -> Peer]
    /\ skip \in [Session -> Known]
    /\ left \in [Session -> SUBSET File]
    /\ seen \in [Session -> Known]
    /\ stream \in [Session -> Seq(File)]
    /\ phase \in [Session -> Phase]
    /\ box \in [Session -> Session]
    /\ completed \in [Session -> Known]
    /\ got \in [Session -> Nat]
    /\ entries \in [Peer -> Entry \cup {NoEntry}]
    /\ tree \in [Session -> Tree \cup {Gone}]
    /\ aside \in [Session -> Tree \cup {Gone}]
    /\ dest \in Tree \cup {Gone}
    /\ landed \in [Session -> Tree \cup {Gone}]
    /\ faults \in 0 .. MaxFaults /\ restarts \in 0 .. MaxRestarts

Init ==
    /\ src = [f \in File |-> 0] /\ edits = 0
    /\ handling = Idle
    /\ owner \in [Session -> Peer]
    /\ skip = [s \in Session |-> Empty]
    /\ left = [s \in Session |-> File]
    /\ seen = [s \in Session |-> Empty]
    /\ stream = [s \in Session |-> <<>>]
    /\ phase = [s \in Session |-> "unborn"]
    /\ box = [s \in Session |-> s]
    /\ completed = [s \in Session |-> Empty]
    /\ got = [s \in Session |-> 0]
    /\ entries = [p \in Peer |-> NoEntry]
    /\ tree = [s \in Session |-> Gone]
    /\ aside = [s \in Session |-> Gone]
    /\ dest \in {Gone, [f \in File |-> 0]}
    /\ landed = [s \in Session |-> Gone]
    /\ faults = 0 /\ restarts = 0

-----------------------------------------------------------------------------
\* The sender's user.

Edit(f) ==
    /\ edits < MaxEdits
    /\ edits' = edits + 1
    /\ \E c \in (0 .. edits + 1 \cup {NoFile}) \ {src[f]} :
           src' = [src EXCEPT ![f] = c]
    /\ UNCHANGED <<handshake, sender, receiver, entries, disk, bounds>>

-----------------------------------------------------------------------------
\* Responder.Handle: one request at a time.  OnApproved starts the receiving
\* goroutine, then ResumeLookup peeks.

Overlaps(s) == \E t \in Session \ {s} : phase[t] \notin {"unborn", "ended"}

Approve(s) ==
    /\ handling = Idle
    /\ phase[s] = "unborn"
    /\ "overlap" \in Circumstance \/ ~Overlaps(s)
    /\ handling' = s
    /\ phase' = [phase EXCEPT ![s] = "approved"]
    /\ UNCHANGED <<user, owner, skip, sender, box, completed, got, entries,
                   disk, bounds>>

\* ResumeRegistry.Peek: nothing of an expired entry.
Peek(p) ==
    IF entries[p] # NoEntry /\ ~entries[p].expired
    THEN entries[p].completed
    ELSE Empty

Lookup(s) ==
    /\ handling = s
    /\ handling' = Idle
    /\ skip' = [skip EXCEPT ![s] = Peek(owner[s])]
    /\ UNCHANGED <<user, owner, sender, receiver, entries, disk, bounds>>

-----------------------------------------------------------------------------
\* The sender's walk, once it has the response.

Walking(s) ==
    /\ handling # s
    /\ phase[s] \in {"approved", "receiving", "writing"}

\* mutant: the listed hash is not compared
VisitTrusting(s, f) ==
    /\ Walking(s)
    /\ f \in left[s]
    /\ left' = [left EXCEPT ![s] = @ \ {f}]
    /\ seen' = [seen EXCEPT ![s][f] = src[f]]
    /\ stream' = IF src[f] = NoFile \/ skip[s][f] # NoFile
                 THEN stream
                 ELSE [stream EXCEPT ![s] = Append(@, f)]
    /\ UNCHANGED <<user, handshake, receiver, entries, disk, bounds>>
\* addFileToTar: a file is left out only if it still has the hash the
\* response listed; a file that is gone by now is not visited.
Visit(s, f) ==
    /\ Walking(s)
    /\ f \in left[s]
    /\ left' = [left EXCEPT ![s] = @ \ {f}]
    /\ seen' = [seen EXCEPT ![s][f] = src[f]]
    /\ stream' = IF src[f] = NoFile \/ src[f] = skip[s][f]
                 THEN stream
                 ELSE [stream EXCEPT ![s] = Append(@, f)]
    /\ UNCHANGED <<user, handshake, receiver, entries, disk, bounds>>

-----------------------------------------------------------------------------
\* ReceiveSession.

\* EnsureStream or EnsureStreamConsumer fails.
StartFails(s) ==
    /\ phase[s] = "approved"
    /\ phase' = [phase EXCEPT ![s] = "ended"]
    /\ UNCHANGED <<user, handshake, sender, box, completed, got, entries,
                   disk, bounds>>

\* ResumeRegistry.Claim: an expired entry is removed and not handed out.
Claimable(p) == entries[p] # NoEntry /\ ~entries[p].expired

\* mutant: the entry stays in the registry
ClaimKeeping(s) ==
    /\ phase[s] = "approved"
    /\ LET p == owner[s]
           b == IF Claimable(p) THEN entries[p].box ELSE s
       IN /\ box' = [box EXCEPT ![s] = b]
          /\ completed' = [completed EXCEPT ![s] =
                 IF Claimable(p) THEN entries[p].completed ELSE Empty]
          /\ tree' = [tree EXCEPT ![b] = IF @ = Gone THEN Empty ELSE @]
    /\ phase' = [phase EXCEPT ![s] = "receiving"]
    /\ UNCHANGED <<user, handshake, sender, got, entries, aside, dest, landed,
                   bounds>>
\* Claim, then ExtractArchive's MkdirAll.
Claim(s) ==
    /\ phase[s] = "approved"
    /\ LET p == owner[s]
           b == IF Claimable(p) THEN entries[p].box ELSE s
       IN /\ box' = [box EXCEPT ![s] = b]
          /\ completed' = [completed EXCEPT ![s] =
                 IF Claimable(p) THEN entries[p].completed ELSE Empty]
          /\ entries' = [entries EXCEPT ![p] = NoEntry]
          /\ tree' = [tree EXCEPT ![b] = IF @ = Gone THEN Empty ELSE @]
    /\ phase' = [phase EXCEPT ![s] = "receiving"]
    /\ UNCHANGED <<user, handshake, sender, got, aside, dest, landed, bounds>>

\* mutant: the hash is recorded when the file is created
OpenRecording(s) ==
    /\ phase[s] = "receiving"
    /\ got[s] < Len(stream[s])
    /\ LET f == stream[s][got[s] + 1]
       IN /\ tree' = [tree EXCEPT ![box[s]][f] = Partial]
          /\ completed' = [completed EXCEPT ![s][f] = Partial]
    /\ phase' = [phase EXCEPT ![s] = "writing"]
    /\ UNCHANGED <<user, handshake, sender, box, got, entries, aside, dest,
                   landed, bounds>>
\* writeRegularFile: O_TRUNC, then the content and onFileComplete.
OpenEntry(s) ==
    /\ phase[s] = "receiving"
    /\ got[s] < Len(stream[s])
    /\ LET f == stream[s][got[s] + 1]
       IN tree' = [tree EXCEPT ![box[s]][f] = Partial]
    /\ phase' = [phase EXCEPT ![s] = "writing"]
    /\ UNCHANGED <<user, handshake, sender, box, completed, got, entries,
                   aside, dest, landed, bounds>>

WriteEntry(s) ==
    /\ phase[s] = "writing"
    /\ LET f == stream[s][got[s] + 1]
       IN /\ tree' = [tree EXCEPT ![box[s]][f] = seen[s][f]]
          /\ completed' = [completed EXCEPT ![s][f] = seen[s][f]]
    /\ got' = [got EXCEPT ![s] = @ + 1]
    /\ phase' = [phase EXCEPT ![s] = "receiving"]
    /\ UNCHANGED <<user, handshake, sender, box, entries, aside, dest, landed,
                   bounds>>

\* ResumeRegistry.Park.
Park(s) ==
    /\ entries' = [entries EXCEPT ![owner[s]] =
           [box |-> box[s], completed |-> completed[s], expired |-> FALSE]]
    /\ UNCHANGED tree

\* AbortSandbox, when isDiskFull.
Abort(s) ==
    /\ tree' = [tree EXCEPT ![box[s]] = Gone]
    /\ UNCHANGED entries

\* The entry being written is listed as complete since an earlier attempt.
Rewriting(s) ==
    phase[s] = "writing" /\ completed[s][stream[s][got[s] + 1]] # NoFile

\* The receive loop or the extractor failed: the network, the sender, a write.
ReceiveFails(s) ==
    /\ phase[s] \in {"receiving", "writing"}
    /\ \/ Park(s) /\ (Rewriting(s) => "recut" \in Circumstance)
       \/ Abort(s)
    /\ phase' = [phase EXCEPT ![s] = "ended"]
    /\ UNCHANGED <<user, handshake, sender, box, completed, got, aside, dest,
                   landed, bounds>>

\* mutant: recvErr is ignored
ReceiveEndsEarly(s) ==
    /\ phase[s] = "receiving" /\ handling # s
    /\ phase' = [phase EXCEPT ![s] = "look"]
    /\ UNCHANGED <<user, handshake, sender, box, completed, got, entries,
                   disk, bounds>>
\* Both ended well: the final chunk arrived and the archive is extracted.
ReceiveEnds(s) ==
    /\ phase[s] = "receiving" /\ handling # s
    /\ left[s] = {} /\ got[s] = Len(stream[s])
    /\ phase' = [phase EXCEPT ![s] = "look"]
    /\ UNCHANGED <<user, handshake, sender, box, completed, got, entries,
                   disk, bounds>>

-----------------------------------------------------------------------------
\* CommitSandbox, call by call.

\* Lstat(destDir).
Look(s) ==
    /\ phase[s] = "look"
    /\ phase' = [phase EXCEPT ![s] = IF dest = Gone THEN "land" ELSE "clear"]
    /\ UNCHANGED <<user, handshake, sender, box, completed, got, entries,
                   disk, bounds>>

\* RemoveAll(staleDir): what an earlier commit of this sandbox left.
ClearStale(s) ==
    /\ phase[s] = "clear"
    /\ aside' = [aside EXCEPT ![box[s]] = Gone]
    /\ phase' = [phase EXCEPT ![s] = "aside"]
    /\ UNCHANGED <<user, handshake, sender, box, completed, got, entries,
                   tree, dest, landed, bounds>>

\* mutant: the old tree is removed before the new one lands
RemoveInstead(s) ==
    /\ phase[s] = "aside"
    /\ dest # Gone
    /\ dest' = Gone
    /\ phase' = [phase EXCEPT ![s] = "landover"]
    /\ UNCHANGED <<user, handshake, sender, box, completed, got, entries,
                   tree, aside, landed, bounds>>
\* Rename(destDir, staleDir).
MoveAside(s) ==
    /\ phase[s] = "aside"
    /\ dest # Gone
    /\ aside' = [aside EXCEPT ![box[s]] = dest]
    /\ dest' = Gone
    /\ phase' = [phase EXCEPT ![s] = "landover"]
    /\ UNCHANGED <<user, handshake, sender, box, completed, got, entries,
                   tree, landed, bounds>>

\* Rename(sandboxDir, destDir), which replaces no directory but an empty one.
Land(s) ==
    /\ phase[s] \in {"land", "landover"}
    /\ dest \in {Gone, Empty}
    /\ dest' = tree[box[s]]
    /\ landed' = [landed EXCEPT ![s] = tree[box[s]]]
    /\ tree' = [tree EXCEPT ![box[s]] = Gone]
    /\ phase' = [phase EXCEPT ![s] = IF @ = "land" THEN "ended" ELSE "clean"]
    /\ UNCHANGED <<user, handshake, sender, box, completed, got, entries,
                   aside, bounds>>

\* RemoveAll(staleDir).
CleanUp(s) ==
    /\ phase[s] = "clean"
    /\ aside' = [aside EXCEPT ![box[s]] = Gone]
    /\ phase' = [phase EXCEPT ![s] = "ended"]
    /\ UNCHANGED <<user, handshake, sender, box, completed, got, entries,
                   tree, dest, landed, bounds>>

\* The destination another session moved or put there fails a rename.
Blocked(s) ==
    \/ phase[s] = "aside" /\ dest = Gone
    \/ phase[s] \in {"land", "landover"} /\ dest \notin {Gone, Empty}

CommitFails(s) ==
    /\ \/ Blocked(s) /\ Park(s) /\ UNCHANGED faults
       \/ /\ phase[s] \in Committing
          /\ phase[s] = "clean" => "cleanup" \in Circumstance
          /\ faults < MaxFaults
          /\ faults' = faults + 1
          /\ Park(s) \/ Abort(s)
    /\ phase' = [phase EXCEPT ![s] = "ended"]
    /\ UNCHANGED <<user, handshake, sender, box, completed, got, aside, dest,
                   landed, restarts>>

-----------------------------------------------------------------------------
\* The registry's clock and jsyncd's watchdog.

Expire(p) ==
    /\ Claimable(p)
    /\ \/ "expiry" \in Circumstance
       \/ ~ \E s \in Session : owner[s] = p /\ phase[s] = "approved"
    /\ entries' = [entries EXCEPT ![p].expired = TRUE]
    /\ UNCHANGED <<user, handshake, sender, receiver, disk, bounds>>

Expired == {p \in Peer : entries[p] # NoEntry /\ entries[p].expired}

\* ResumeRegistry.Sweep, then AbortSandbox of each directory it returns.
Sweep ==
    /\ Expired # {}
    /\ entries' = [p \in Peer |-> IF p \in Expired THEN NoEntry ELSE entries[p]]
    /\ tree' = [b \in Session |->
                   IF \E p \in Expired : entries[p].box = b THEN Gone ELSE tree[b]]
    /\ UNCHANGED <<user, handshake, sender, receiver, aside, dest, landed, bounds>>

\* The daemon stops at any point and starts again: the registry and the
\* sessions are memory, the directories are not.
Restart ==
    /\ restarts < MaxRestarts
    /\ restarts' = restarts + 1
    /\ handling' = Idle
    /\ phase' = [s \in Session |-> IF phase[s] = "unborn" THEN "unborn" ELSE "ended"]
    /\ entries' = [p \in Peer |-> NoEntry]
    /\ UNCHANGED <<user, owner, skip, sender, box, completed, got, disk, faults>>

-----------------------------------------------------------------------------
Next ==
    \/ \E f \in File : Edit(f)
    \/ \E s \in Session : Approve(s)
    \/ \E s \in Session : Lookup(s)
    \/ \E s \in Session, f \in File : Visit(s, f)
    \/ \E s \in Session : StartFails(s)
    \/ \E s \in Session : Claim(s)
    \/ \E s \in Session : OpenEntry(s)
    \/ \E s \in Session : WriteEntry(s)
    \/ \E s \in Session : ReceiveFails(s)
    \/ \E s \in Session : ReceiveEnds(s)
    \/ \E s \in Session : Look(s)
    \/ \E s \in Session : ClearStale(s)
    \/ \E s \in Session : MoveAside(s)
    \/ \E s \in Session : Land(s)
    \/ \E s \in Session : CleanUp(s)
    \/ \E s \in Session : CommitFails(s)
    \/ \E p \in Peer : Expire(p)
    \/ Sweep
    \/ Restart

Spec == Init /\ [][Next]_vars

-----------------------------------------------------------------------------
\* Properties.

Holds(s) == phase[s] \in Holding

\* No two sessions, parked entries, or a session and an entry ever stand for
\* the same sandbox directory: what one extracts, commits or deletes is its
\* own (resume.go:81-95, receiver.go:84-88).
OneOwner ==
    /\ \A s, t \in Session : Holds(s) /\ Holds(t) /\ s # t => box[s] # box[t]
    /\ \A s \in Session, p \in Peer :
           Holds(s) /\ entries[p] # NoEntry => entries[p].box # box[s]
    /\ \A p, q \in Peer :
           entries[p] # NoEntry /\ entries[q] # NoEntry /\ p # q =>
               entries[p].box # entries[q].box

\* A tree that reaches the destination holds every file its sender archived,
\* with the content the walk read, whatever else ran, failed or restarted
\* (receiver.go:147-176, extract.go:218-246).
ArchivedLands ==
    \A s \in Session : landed[s] # Gone =>
        \A f \in ToSet(stream[s]) : landed[s][f] = seen[s][f]

\* A file the sender left out because the destination reported it is in the
\* tree that lands, with the content the sender compared: "skip only ever
\* omits a file it can positively confirm is already correct on the other
\* end" (archive.go:41-43).
SkippedLands ==
    \A s \in Session : landed[s] # Gone =>
        \A f \in File \ ToSet(stream[s]) :
            seen[s][f] # NoFile => landed[s][f] = seen[s][f]

\* No file reaches the destination half written: what an interrupted attempt
\* cut short is not among the files "safe to keep" (extract.go:31-36).
NoPartialLands ==
    \A s \in Session : landed[s] # Gone =>
        \A f \in File : landed[s][f] # Partial

\* Once the destination exists a whole copy of it or of its successor is on
\* disk, in place or set aside, at every instant of every commit: what a
\* crash leaves can be recovered (extract.go:209-217).
CopyOnDisk == dest # Gone \/ \E b \in Session : aside[b] # Gone
CopySurvives == [][CopyOnDisk => CopyOnDisk']_vars
=============================================================================
