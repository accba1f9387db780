------------------------------- MODULE Watcher -------------------------------
(***************************************************************************)
(* internal/watch: from a user's change of a file to the ChangeEvent that  *)
(* PublishChanges takes.  A backend turns what the operating system        *)
(* reports into raw events; one loop filters them, tracks which files      *)
(* exist, debounces with a timer per path, and hands over.                 *)
(*                                                                         *)
(* The consumer reads the file as it takes the change (publishOne); `told` *)
(* is the tree of a peer that applies every change and nothing else:       *)
(* LiveSync has echoes, versions and what two users do to one path.        *)
(* Directories are direct children of the root.                            *)
(***************************************************************************)
EXTENDS Naturals, Sequences

CONSTANTS
    Root,       \* the watched directory
    Dir,        \* directories that may come and go in it
    Path,       \* files that may: pairs of a directory (or Root) and a name
    Ignored,    \* the paths excluded() drops
    Backend,    \* subset of {"notify", "windows"}: dirwatcher_notify.go and
                \* winwatcher_windows.go
    MaxEdits    \* bound: changes the user makes, and losses of the backend

ASSUME WatcherAssumption ==
    /\ Root \notin Dir
    /\ \A p \in Path : p[1] \in Dir \cup {Root}
    /\ Path \cap (Dir \cup {Root}) = {}
    /\ Ignored \subseteq Path
    /\ Backend \subseteq {"notify", "windows"}
    /\ MaxEdits \in Nat

Item == Path \cup Dir
In(d) == {p \in Path : p[1] = d}
\* The path that p becomes when its directory becomes e.
Moved(p, e) == <<e, p[2]>>

\* A pending or handed-over change, and a raw event.
Change == [kind : {"modified", "removed", "renamed"}, item : Item, old : Item]
Rescan == [kind |-> "rescan"]
RawEvent == [action : {"create", "modify", "remove", "rename"}, item : Item, old : Item]
Modified(p) == [kind |-> "modified", item |-> p, old |-> p]
Removed(p) == [kind |-> "removed", item |-> p, old |-> p]
Renamed(i, j) == [kind |-> "renamed", item |-> j, old |-> i]
Raw(action, i) == [action |-> action, item |-> i, old |-> i]
RawRename(i, j) == [action |-> "rename", item |-> j, old |-> i]

\* A timer, whether `pending` still maps its key to it, and while it runs how many
\* times others have been set since.
Timer == [change : Change, held : BOOLEAN]
Running == [change : Change, held : BOOLEAN, age : Nat]

VARIABLES
    backend,
    disk,       \* disk[p]: which edit wrote p; 0 where there is no file
    dirs,       \* the directories that exist
    told,       \* the tree as the changes handed over have made it
    broken,     \* a change could not be applied to that tree
    raw,        \* raw events not handled yet, the kernel's and the channel's
    lost,       \* ErrKernelBufferOverflow is waiting
    tracked,    \* fileDir, and dirFiles by directory
    running,    \* timers that are set, and how many were set after each
    blocked,    \* expired timers, at `fire <- pe`
    sending,    \* what the loop is blocked on handing over
    spoilt,     \* a change fell into one of the gaps named at Reported
    edits       \* consumed bound

treeVars == <<disk, dirs>>
peerVars == <<told, broken>>
loopVars == <<tracked, running, blocked, sending>>
vars == <<backend, treeVars, peerVars, raw, lost, loopVars, spoilt, edits>>

TypeOK ==
    /\ backend \in Backend
    /\ disk \in [Path -> 0 .. MaxEdits + 1] /\ dirs \subseteq Dir
    /\ told \in [Path -> 0 .. MaxEdits + 1] /\ broken \in BOOLEAN
    /\ raw \in Seq(RawEvent) /\ lost \in BOOLEAN
    /\ tracked \subseteq Path \ Ignored
    /\ running \subseteq Running /\ blocked \subseteq Timer
    /\ sending \subseteq Change \cup {Rescan}
    /\ spoilt \in BOOLEAN
    /\ edits \in 0 .. MaxEdits

Exists(p) == disk[p] # 0
Files == {p \in Path : Exists(p)}
Timers == running \cup blocked
\* The changes that timers hold back, and all that the peer has yet to hear of.
Due == {t.change : t \in Timers}
Untold == sending \cup Due
Quiet == raw = <<>> /\ Timers = {} /\ sending = {}

\* Reconciliation has brought the peer into step; registerTree has run.
Init ==
    /\ backend \in Backend
    /\ dirs \in SUBSET Dir
    /\ \E some \in SUBSET {p \in Path : p[1] \in dirs \cup {Root}} :
          disk = [p \in Path |-> IF p \in some THEN 1 ELSE 0]
    /\ told = [p \in Path |-> IF p \in Ignored THEN 0 ELSE disk[p]]
    /\ tracked = Files \ Ignored
    /\ broken = FALSE /\ lost = FALSE /\ spoilt = FALSE
    /\ raw = <<>> /\ running = {} /\ blocked = {} /\ sending = {}
    /\ edits = 0

-----------------------------------------------------------------------------
\* The user, and what the backend makes of it.

\* A correlated rename is told as a rename of what the peer has.  That takes a
\* file, of which everything before has been told, and nothing else until the
\* rename is.
Renames(events) == {ev \in {events[k] : k \in DOMAIN events} : ev.action = "rename"}
Renaming == Renames(raw) # {} \/ \E c \in Untold : c.kind = "renamed"
Hurried(events) ==
    \/ Renaming
    \/ Renames(events) # {} /\ (~Quiet \/ Len(events) > 1)
    \/ \E ev \in Renames(events) : ev.item \in Dir

\* Bound: nothing is claimed past a gap, so the user stops there.
Edit(events) ==
    /\ ~spoilt
    /\ edits < MaxEdits /\ edits' = edits + 1
    /\ raw' = raw \o events
    /\ spoilt' = (spoilt \/ Hurried(events))
    /\ UNCHANGED <<backend, peerVars, lost, loopVars>>

UserWrite(p) ==
    /\ p[1] \in dirs \cup {Root}
    /\ Edit((IF Exists(p) THEN <<>> ELSE <<Raw("create", p)>>) \o <<Raw("modify", p)>>)
    /\ disk' = [disk EXCEPT ![p] = edits + 2]
    /\ UNCHANGED dirs

UserRemove(p) ==
    /\ Exists(p)
    /\ Edit(<<Raw("remove", p)>>)
    /\ disk' = [disk EXCEPT ![p] = 0]
    /\ UNCHANGED dirs

\* The events of a rename: two that nothing relates, or on Windows a pair, which
\* parseAndEmit joins unless a buffer ends between them.
RenameEvents(i, j) ==
    {<<Raw("remove", i), Raw("create", j)>>}
        \cup (IF backend = "windows" THEN {<<RawRename(i, j)>>} ELSE {})

\* Over an existing file too; whether Windows then reports the removal of the
\* old one is left open.
UserRename(p, q) ==
    /\ p # q /\ Exists(p) /\ q[1] \in dirs \cup {Root}
    /\ \E events \in RenameEvents(p, q) :
          \/ Edit(events)
          \/ /\ backend = "windows" /\ Exists(q)
             /\ Edit(<<Raw("remove", q)>> \o events)
    /\ disk' = [disk EXCEPT ![q] = disk[p], ![p] = 0]
    /\ UNCHANGED dirs

\* A directory appears with what is in it, or whose files landed before a watch
\* was attached to it: one event.
Mkdir(d) ==
    /\ d \notin dirs /\ dirs' = dirs \cup {d}
    /\ Edit(<<Raw("create", d)>>)
    /\ \E some \in SUBSET In(d) :
          disk' = [p \in Path |-> IF p \in some THEN edits + 2 ELSE disk[p]]

\* It is moved away with what is in it, or removed: one event.
Rmdir(d) ==
    /\ d \in dirs /\ dirs' = dirs \ {d}
    /\ Edit(<<Raw("remove", d)>>)
    /\ disk' = [p \in Path |-> IF p[1] = d THEN 0 ELSE disk[p]]

RenameDir(d, e) ==
    /\ d \in dirs /\ e \in Dir \ dirs /\ dirs' = (dirs \ {d}) \cup {e}
    /\ \E events \in RenameEvents(d, e) : Edit(events)
    /\ disk' = [p \in Path |-> IF p[1] = d THEN 0
                               ELSE IF p[1] = e /\ Moved(p, d) \in Path
                               THEN disk[Moved(p, d)] ELSE disk[p]]

\* The kernel's buffer or notify's channel is full: on Windows the loop hears of
\* it.
Overflow ==
    /\ ~spoilt /\ edits < MaxEdits /\ edits' = edits + 1
    /\ raw # <<>> /\ \E k \in 0 .. Len(raw) - 1 : raw' = SubSeq(raw, 1, k)
    /\ lost' = (backend = "windows")
    /\ spoilt' = TRUE
    /\ UNCHANGED <<backend, treeVars, peerVars, loopVars>>

-----------------------------------------------------------------------------
\* The loop's handlers.

\* debounceKey.
SameKey(c, e) == c.item = e.item /\ (c.kind = "renamed") = (e.kind = "renamed")

\* `pending` no longer has the timer t.
Unmapped(t) == [t EXCEPT !.held = FALSE]

\* schedule: Stop of the timer `pending` has for the key comes too late for one
\* that is blocked, but a new one replaces it in the map all the same.
Schedule(changes) ==
    LET Replaced(t) == t.held /\ \E c \in changes : SameKey(t.change, c)
        late == {t \in blocked : Replaced(t)}
        older == {[t EXCEPT !.age = @ + 1] : t \in {u \in running : ~Replaced(u)}}
    IN /\ running' = IF changes = {} THEN running
                     ELSE older \cup {[change |-> c, held |-> TRUE, age |-> 0] : c \in changes}
       /\ blocked' = (blocked \ late) \cup {Unmapped(t) : t \in late}
       /\ spoilt' = (spoilt \/ late # {})

NoTimer == UNCHANGED <<running, blocked, spoilt>>
Ignores == UNCHANGED tracked /\ NoTimer /\ UNCHANGED sending

\* mutant: the ignore rules are not asked
WriteUnfiltered(p) ==
    IF p \in Path /\ Exists(p)
    THEN /\ tracked' = tracked \cup {p}
         /\ Schedule({Modified(p)})
         /\ UNCHANGED sending
    ELSE Ignores
HandleWrite(p) ==
    IF p \in Path \ Ignored /\ Exists(p)
    THEN /\ tracked' = tracked \cup {p}
         /\ Schedule({Modified(p)})
         /\ UNCHANGED sending
    ELSE Ignores

\* mutant: a new directory's files are only indexed
CreateQuietly(i) ==
    IF i \in dirs
    THEN /\ tracked' = tracked \cup {p \in In(i) \ Ignored : Exists(p)}
         /\ UNCHANGED <<running, blocked, sending, spoilt>>
    ELSE HandleWrite(i)
\* A directory: its files are indexed and announced at once, past the timers.
HandleCreate(i) ==
    IF i \in dirs
    THEN /\ tracked' = tracked \cup {p \in In(i) \ Ignored : Exists(p)}
         /\ sending' = {Modified(p) : p \in tracked' \cap In(i)}
         /\ spoilt' = (spoilt \/ \E p \in In(i) : Removed(p) \in Due)
         /\ UNCHANGED <<running, blocked>>
    ELSE HandleWrite(i)

\* mutant: a directory's files are forgotten, and not announced
ForgetDir(i) ==
    /\ tracked' = IF i \in Dir THEN tracked \ In(i) ELSE tracked
    /\ Schedule({Removed(p) : p \in tracked \cap {i}})
    /\ UNCHANGED sending
\* The files of a directory are forgotten now, a file when its timer fires.
HandleRemove(i) ==
    /\ tracked' = IF i \in Dir THEN tracked \ In(i) ELSE tracked
    /\ Schedule({Removed(p) : p \in tracked \cap (In(i) \cup {i})})
    /\ UNCHANGED sending

\* mutant: only the old name is looked up in the ignore rules
RenameInto(i, j) ==
    IF i \in Ignored THEN HandleCreate(j)
    ELSE Schedule({Renamed(i, j)}) /\ UNCHANGED <<tracked, sending>>
HandleRename(i, j) ==
    CASE i \in Ignored /\ j \in Ignored -> Ignores
      [] i \in Ignored /\ j \notin Ignored -> HandleCreate(j)
      [] i \notin Ignored /\ j \in Ignored -> HandleRemove(i)
      [] OTHER -> Schedule({Renamed(i, j)}) /\ UNCHANGED <<tracked, sending>>

HandleEvent ==
    /\ sending = {} /\ raw # <<>> /\ raw' = Tail(raw)
    /\ LET ev == Head(raw)
       IN \/ ev.action = "create" /\ HandleCreate(ev.item)
          \/ ev.action = "modify" /\ HandleWrite(ev.item)
          \/ ev.action = "remove" /\ HandleRemove(ev.item)
          \/ ev.action = "rename" /\ HandleRename(ev.old, ev.item)
    /\ UNCHANGED <<backend, treeVars, peerVars, lost, edits>>

\* All wait equally long, so the oldest is the first to expire.
Expire ==
    /\ \E t \in running :
          /\ \A u \in running : u.age <= t.age
          /\ running' = running \ {t}
          /\ blocked' = blocked \cup {[change |-> t.change, held |-> t.held]}
    /\ UNCHANGED <<backend, treeVars, peerVars, raw, lost, tracked, sending, spoilt, edits>>

\* mutant: a file that was removed stays tracked, one that was renamed too
KeepTracked(c) == tracked
\* forget and rename.
Tracked(c) ==
    CASE c.kind = "removed" -> tracked \ {c.item}
      [] c.kind = "renamed" /\ c.old \in tracked -> (tracked \ {c.old}) \cup {c.item}
      [] OTHER -> tracked

\* delete(pending, key) whichever timer of the key it was; goroutines that expired
\* together reach the channel in any order.
Fire ==
    /\ sending = {}
    /\ \E fired \in blocked :
          LET c == fired.change
              Rest(timers) == {IF SameKey(t.change, c) THEN Unmapped(t) ELSE t : t \in timers}
          IN /\ blocked' = Rest(blocked \ {fired}) /\ running' = Rest(running)
             /\ tracked' = Tracked(c)
             /\ sending' = {c}
    /\ UNCHANGED <<backend, treeVars, peerVars, raw, lost, spoilt, edits>>

HandleOverflow ==
    /\ sending = {} /\ lost /\ lost' = FALSE
    /\ sending' = {Rescan}
    /\ UNCHANGED <<backend, treeVars, peerVars, raw, tracked, running, blocked, spoilt, edits>>

-----------------------------------------------------------------------------
\* PublishChanges: publishOne on the next change, and what it makes of the peer's
\* tree.

\* ReadFile: a file that is gone by now is left to its removal.
ToldWritten(c) == IF Exists(c.item) THEN disk[c.item] ELSE told[c.item]

ToldRenamed(c) ==
    IF c.item \in Dir
    THEN [p \in Path |-> IF p[1] = c.old THEN 0
                         ELSE IF p[1] = c.item /\ Moved(p, c.old) \in Path
                         THEN told[Moved(p, c.old)] ELSE told[p]]
    ELSE [told EXCEPT ![c.item] = told[c.old], ![c.old] = 0]

\* The peer has what os.Rename is to move.
PeerHas(i) == \E p \in In(i) \cup ({i} \cap Path) : told[p] # 0

Take(c) ==
    /\ c \in sending /\ sending' = sending \ {c}
    /\ \/ c.kind = "rescan" /\ UNCHANGED peerVars
       \/ /\ c.kind = "modified"
          /\ told' = [told EXCEPT ![c.item] = ToldWritten(c)]
          /\ UNCHANGED broken
       \/ c.kind = "removed" /\ told' = [told EXCEPT ![c.item] = 0] /\ UNCHANGED broken
       \/ /\ c.kind = "renamed" /\ PeerHas(c.old)
          /\ told' = ToldRenamed(c) /\ UNCHANGED broken
       \/ c.kind = "renamed" /\ ~PeerHas(c.old) /\ broken' = TRUE /\ UNCHANGED told
    /\ UNCHANGED <<backend, treeVars, raw, lost, tracked, running, blocked, spoilt, edits>>

UserStep ==
    \/ \E p \in Path : UserWrite(p) \/ UserRemove(p)
    \/ \E p, q \in Path : UserRename(p, q)
    \/ \E d \in Dir : Mkdir(d) \/ Rmdir(d)
    \/ \E d, e \in Dir : RenameDir(d, e)

LoopStep == HandleEvent \/ Fire \/ HandleOverflow

Next ==
    \/ UserStep \/ Overflow
    \/ LoopStep \/ Expire
    \/ \E c \in sending : Take(c)

Spec == Init /\ [][Next]_vars

\* The loop runs, timers expire and the consumer comes back for more.
FairSpec ==
    /\ Spec
    /\ WF_vars(LoopStep) /\ WF_vars(Expire) /\ WF_vars(\E c \in sending : Take(c))

-----------------------------------------------------------------------------
\* Properties.
\*
\* The gaps `spoilt` stands for, where a change can be lost or told wrongly:
\*   - a timer that expired while the loop was blocked is replaced: its change is
\*     told all the same, and `pending` loses the new one;
\*   - a directory comes back while the removal of a file in it is pending:
\*     handleCreate does not stop the timer, and the file is told as removed last;
\*   - on Windows, a rename that is Hurried;
\*   - events are dropped, and publishOne drops the rescan.

\* A raw event that says that the path p, or its directory, came or went.
Arrival(ev, p) == ev.action # "remove" /\ ev.item \in {p, p[1]}
Departure(ev, p) ==
    \/ ev.action = "remove" /\ ev.item \in {p, p[1]}
    \/ ev.action = "rename" /\ ev.old = p

\* Of a change not told yet, the same.
Brings(c, p) == c.kind \in {"modified", "renamed"} /\ c.item = p
Drops(c, p) == (c.kind = "removed" /\ c.item = p) \/ (c.kind = "renamed" /\ c.old = p)

Arrives(p) ==
    (\E c \in Untold : Brings(c, p)) \/ \E k \in DOMAIN raw : Arrival(raw[k], p)
Leaves(p) ==
    (\E c \in Untold : Drops(c, p)) \/ \E k \in DOMAIN raw : Departure(raw[k], p)

\* Nothing is forgotten: while the peer's copy of a path differs from the file,
\* the change that will mend it is on its way, as an event, a timer or a change
\* being handed over (watcher.go:279-344).
Carried ==
    ~spoilt => \A p \in Path \ Ignored : told[p] # disk[p] =>
                  IF Exists(p) THEN Arrives(p) ELSE Leaves(p)

\* A change of an untracked path is ignored because the path "was never
\* registered" (watcher.go:487-490): whenever the watcher is at rest it tracks
\* exactly the files there are.
TracksWhatExists == ~spoilt /\ Quiet => tracked = Files \ Ignored

\* The peer never hears of an ignored path, whatever is moved into or out of it
\* (watcher.go:500-520).
IgnoredIsNeverTold ==
    \A p \in Ignored :
        told[p] = 0 /\ \A c \in sending : c # Rescan => p \notin {c.item, c.old}

\* What is told as a rename, the peer can mirror with one os.Rename, however fast
\* the user is: an atomic save, "write temp file, rewrite it, rename over the
\* target", is coalesced into one event per path (watcher.go:44-46), of
\* which the peer can make the same tree (doc.go:10-15).
RenamesApply == ~broken

\* Once the user stops, the peer comes to have the files there are
\* (watcher.go:38-42).
Reported ==
    <>[](spoilt \/ \A p \in Path \ Ignored : told[p] = disk[p])
=============================================================================
