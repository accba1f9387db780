---------------------------- MODULE WatcherProofs ----------------------------
(***************************************************************************)
(* What holds of Watcher for any tree, any ignored paths and any number of *)
(* changes: its types, that no ignored path is told, that nothing a user   *)
(* did is forgotten, and that the watcher tracks what there is.            *)
(***************************************************************************)
EXTENDS Watcher, TLAPS

-----------------------------------------------------------------------------
\* What is well formed at any time.

\* A change names what may be told; a rename, two paths or two directories.
ChangeOK(c) ==
    \/ /\ c.kind \in {"modified", "removed"}
       /\ c.item \in Path \ Ignored /\ c.old = c.item
    \/ /\ c.kind = "renamed"
       /\ c.item \notin Ignored /\ c.old \notin Ignored
       /\ c.item \in Dir <=> c.old \in Dir

EventOK(ev) ==
    /\ ev.action = "modify" => ev.item \in Path
    /\ ev.action = "rename" => (ev.item \in Dir <=> ev.old \in Dir)

SoundInv ==
    /\ TypeOK
    /\ \A c \in Untold \ {Rescan} : ChangeOK(c)
    /\ \A k \in DOMAIN raw : EventOK(raw[k])

-----------------------------------------------------------------------------
\* What holds until a change falls into a gap.

Open == Path \ Ignored

\* One timer for a key, and `pending` has it.
Orderly ==
    /\ \A t \in Timers : t.held
    /\ \A t, u \in running : SameKey(t.change, u.change) => t = u
    /\ \A t, u \in blocked : SameKey(t.change, u.change) => t = u
    /\ \A t \in running, u \in blocked : ~SameKey(t.change, u.change)

\* Files are in directories that exist.
TreeOK == \A p \in Path : Exists(p) => p[1] \in dirs \cup {Root}

\* What is about to be told as written is tracked; so is what the peer has, until
\* its removal is on its way.
KnowsTold ==
    /\ \A c \in Untold : c.kind = "modified" => c.item \in tracked
    /\ \A c \in sending : c.kind = "renamed" => c.item \in tracked
    /\ \A p \in Open : told[p] # 0 =>
          \/ p \in tracked
          \/ Removed(p) \in Untold
          \/ \E c \in sending : c.kind = "renamed" /\ c.old = p

\* A file is forgotten only after it went.
KnowsGone ==
    \A p \in tracked : ~Exists(p) =>
        \/ \E c \in Due : Drops(c, p)
        \/ \E k \in DOMAIN raw : Departure(raw[k], p)

\* The last of the events about a file that exists says so, and one is still to
\* come when its removal is about to be told.
LastIsArrival ==
    \A p \in Path : Exists(p) =>
        /\ Removed(p) \in Untold => \E k \in DOMAIN raw : Arrival(raw[k], p)
        /\ \A k \in DOMAIN raw : Departure(raw[k], p) =>
              \E l \in DOMAIN raw : l > k /\ Arrival(raw[l], p)

\* i has become j, and the peer differs in nothing else.
Midway(i, j) ==
    /\ i \in Path /\ j \in Path /\ i # j
    /\ ~Exists(i) /\ Exists(j)
    /\ i \in Open => told[i] = disk[j]
    /\ \A p \in Open \ {i, j} : told[p] = disk[p]

\* A rename has the watcher to itself.
Alone ==
    /\ \A k \in DOMAIN raw : raw[k].action = "rename" =>
          Len(raw) = 1 /\ Untold = {} /\ Midway(raw[k].old, raw[k].item)
    /\ \A c \in Untold : c.kind = "renamed" =>
          /\ raw = <<>> /\ Untold = {c}
          /\ sending = {} \/ Due = {}
          /\ Midway(c.old, c.item)

GapFree ==
    /\ ~lost /\ Rescan \notin sending
    /\ Orderly /\ TreeOK
    /\ KnowsTold /\ KnowsGone /\ LastIsArrival /\ Alone
    /\ Carried

WatchInv == SoundInv /\ (~spoilt => GapFree)

-----------------------------------------------------------------------------
\* Sequences, and the operators of the model.

LEMMA TailOf ==
    ASSUME NEW S, NEW s \in Seq(S), s # <<>>
    PROVE  /\ Head(s) = s[1] /\ Head(s) \in S /\ 1 \in DOMAIN s
           /\ Tail(s) \in Seq(S) /\ Len(Tail(s)) = Len(s) - 1
           /\ \A k \in DOMAIN Tail(s) : k + 1 \in DOMAIN s /\ Tail(s)[k] = s[k + 1]
           /\ \A k \in DOMAIN s : k # 1 =>
                 k - 1 \in DOMAIN Tail(s) /\ Tail(s)[k - 1] = s[k]
OBVIOUS

LEMMA JoinOf ==
    ASSUME NEW S, NEW s \in Seq(S), NEW t \in Seq(S)
    PROVE  /\ s \o t \in Seq(S) /\ Len(s) \in Nat /\ Len(s \o t) = Len(s) + Len(t)
           /\ \A k \in DOMAIN s : k \in DOMAIN (s \o t) /\ (s \o t)[k] = s[k]
           /\ \A k \in DOMAIN t : k + Len(s) \in DOMAIN (s \o t) /\ (s \o t)[k + Len(s)] = t[k]
           /\ \A k \in DOMAIN (s \o t) :
                 \/ k \in DOMAIN s
                 \/ k > Len(s) /\ k - Len(s) \in DOMAIN t /\ (s \o t)[k] = t[k - Len(s)]
OBVIOUS

LEMMA Singles ==
    /\ \A x : <<x>> \in Seq({x}) /\ DOMAIN <<x>> = {1} /\ <<x>>[1] = x /\ Len(<<x>>) = 1
    /\ \A x, y : /\ <<x, y>> \in Seq({x, y}) /\ DOMAIN <<x, y>> = {1, 2}
                 /\ <<x, y>>[1] = x /\ <<x, y>>[2] = y /\ Len(<<x, y>>) = 2
OBVIOUS

LEMMA Records ==
    /\ \A p \in Item : Modified(p) \in Change /\ Removed(p) \in Change
    /\ \A i, j \in Item : Renamed(i, j) \in Change
    /\ \A i, j \in Item : RawRename(i, j) \in RawEvent
    /\ \A i \in Item : \A a \in {"create", "modify", "remove"} : Raw(a, i) \in RawEvent
    /\ Rescan \notin Change
BY DEF Modified, Removed, Renamed, Raw, RawRename, Change, RawEvent, Rescan

LEMMA Places ==
    /\ Path \subseteq Item /\ Dir \subseteq Item /\ Path \cap Dir = {}
    /\ Root \notin Dir
    /\ Ignored \subseteq Path /\ MaxEdits \in Nat
    /\ \A p \in Path : p \notin Dir /\ p # Root /\ p[1] \in Dir \cup {Root} /\ p[1] \notin Path
    /\ \A i \in Path : In(i) = {}
    /\ \A d \in Dir : In(d) \subseteq Path
BY WatcherAssumption DEF Item, In

LEMMA Scheduled ==
    ASSUME running \subseteq Running, blocked \subseteq Timer, spoilt \in BOOLEAN,
           NEW changes \in SUBSET Change, Schedule(changes)
    PROVE  /\ running' \subseteq Running /\ blocked' \subseteq Timer
           /\ Due' \subseteq Due \cup changes
           /\ spoilt' \in BOOLEAN
           /\ spoilt => spoilt'
<1> DEFINE Replaced(t) == t.held /\ \E c \in changes : SameKey(t.change, c)
           late == {t \in blocked : Replaced(t)}
           older == {[t EXCEPT !.age = @ + 1] : t \in {u \in running : ~Replaced(u)}}
           new == {[change |-> c, held |-> TRUE, age |-> 0] : c \in changes}
<1>1. /\ running' = IF changes = {} THEN running ELSE older \cup new
      /\ blocked' = (blocked \ late) \cup {Unmapped(t) : t \in late}
      /\ spoilt' = (spoilt \/ late # {})
  BY DEF Schedule
<1>2. \A t \in older : t \in Running /\ \E u \in running : u.change = t.change
  BY DEF Running
<1>3. ASSUME NEW t \in new PROVE t \in Running /\ t.change \in changes
  <2>1. PICK c \in changes : t = [change |-> c, held |-> TRUE, age |-> 0]
    OBVIOUS
  <2> QED BY <2>1 DEF Running
<1>4. \A t \in late : /\ Unmapped(t) \in Timer /\ Unmapped(t).change = t.change
                      /\ t \in blocked
  BY DEF Timer, Unmapped
<1> HIDE DEF Replaced, late, older, new
<1>5. running' \subseteq Running /\ \A t \in running' :
        t.change \in changes \/ \E u \in running : u.change = t.change
  BY <1>1, <1>2, <1>3
<1>6. blocked' \subseteq Timer /\ \A t \in blocked' : \E u \in blocked : u.change = t.change
  BY <1>1, <1>4
<1>7. Due' \subseteq Due \cup changes
  BY <1>5, <1>6 DEF Due, Timers
<1> QED BY <1>1, <1>5, <1>6, <1>7

-----------------------------------------------------------------------------
\* What is well formed stays so.

LEMMA SameUntold ==
    ASSUME UNCHANGED <<running, blocked, sending>>
    PROVE  Timers' = Timers /\ Due' = Due /\ Untold' = Untold
BY DEF Timers, Due, Untold

LEMMA SoundInit == Init => SoundInv
<1> SUFFICES ASSUME Init PROVE SoundInv
  OBVIOUS
<1>1. Untold = {} /\ DOMAIN raw = {}
  BY DEF Init, Untold, Due, Timers
<1>2. disk \in [Path -> 0 .. MaxEdits + 1] /\ dirs \subseteq Dir
  BY Places DEF Init
<1>3. told \in [Path -> 0 .. MaxEdits + 1]
  BY <1>2, Places DEF Init
<1>4. tracked \subseteq Path \ Ignored
  BY DEF Init, Files
<1>5. raw \in Seq(RawEvent) /\ running \subseteq Running
      /\ blocked \subseteq Timer /\ sending \subseteq Change \cup {Rescan}
      /\ edits \in 0 .. MaxEdits /\ backend \in Backend
  BY Places DEF Init
<1>6. lost \in BOOLEAN /\ spoilt \in BOOLEAN /\ broken \in BOOLEAN
  BY DEF Init
<1> QED BY <1>1, <1>2, <1>3, <1>4, <1>5, <1>6 DEF SoundInv, TypeOK

LEMMA EditSound ==
    ASSUME SoundInv, NEW events \in Seq(RawEvent), Edit(events),
           \A k \in DOMAIN events : EventOK(events[k]),
           disk' \in [Path -> 0 .. MaxEdits + 1], dirs' \subseteq Dir
    PROVE  SoundInv'
<1>1. raw' \in Seq(RawEvent) /\ \A k \in DOMAIN raw' : EventOK(raw'[k])
  BY JoinOf DEF SoundInv, TypeOK, Edit
<1>2. edits' \in 0 .. MaxEdits /\ spoilt' \in BOOLEAN
  BY Places DEF SoundInv, TypeOK, Edit, Hurried, Renaming
<1>3. Untold' = Untold
  BY SameUntold DEF Edit, loopVars
<1> QED BY <1>1, <1>2, <1>3 DEF SoundInv, TypeOK, Edit, peerVars, loopVars

LEMMA RawSound ==
    ASSUME NEW i \in Item, NEW a \in {"create", "remove"}
    PROVE  <<Raw(a, i)>> \in Seq(RawEvent) /\ EventOK(Raw(a, i))
<1>1. Raw(a, i) \in RawEvent
  BY Records
<1>2. EventOK(Raw(a, i))
  BY DEF EventOK, Raw
<1> QED BY <1>1, <1>2

\* The events of a rename are two or one.
LEMMA RenameSound ==
    ASSUME NEW i \in Item, NEW j \in Item, i \in Dir <=> j \in Dir,
           NEW events \in RenameEvents(i, j)
    PROVE  /\ events \in Seq(RawEvent)
           /\ \A k \in DOMAIN events : EventOK(events[k])
<1>1. CASE events = <<Raw("remove", i), Raw("create", j)>>
  <2>1. \A k \in DOMAIN events : events[k] \in {Raw("remove", i), Raw("create", j)}
    BY <1>1, Singles
  <2>2. events \in Seq(RawEvent)
    BY <1>1, Records
  <2> QED BY <2>1, <2>2 DEF EventOK, Raw
<1>2. CASE events = <<RawRename(i, j)>>
  <2>1. \A k \in DOMAIN events : events[k] = RawRename(i, j)
    BY <1>2, Singles
  <2>2. events \in Seq(RawEvent)
    BY <1>2, Records
  <2> QED BY <2>1, <2>2 DEF EventOK, RawRename
<1> QED BY <1>1, <1>2 DEF RenameEvents

LEMMA UserSound == SoundInv /\ UserStep => SoundInv'
<1> SUFFICES ASSUME SoundInv, UserStep PROVE SoundInv'
  OBVIOUS
<1>0. disk \in [Path -> 0 .. MaxEdits + 1] /\ dirs \subseteq Dir /\ edits \in Nat
  BY Places DEF SoundInv, TypeOK
<1>1. ASSUME NEW p \in Path, UserWrite(p) PROVE SoundInv'
  <2> DEFINE events == (IF Exists(p) THEN <<>> ELSE <<Raw("create", p)>>)
                          \o <<Raw("modify", p)>>
  <2>1. edits < MaxEdits
    BY <1>1 DEF UserWrite, Edit
  <2>2. disk' \in [Path -> 0 .. MaxEdits + 1] /\ dirs' \subseteq Dir
    BY <1>0, <1>1, <2>1, Places DEF UserWrite
  <2>3. events \in Seq(RawEvent)
    BY Records, Places
  <2>4. \A k \in DOMAIN events : events[k] \in {Raw("create", p), Raw("modify", p)}
    BY Singles
  <2>5. EventOK(Raw("create", p)) /\ EventOK(Raw("modify", p))
    BY DEF EventOK, Raw
  <2> QED BY <1>1, <2>2, <2>3, <2>4, <2>5, EditSound DEF UserWrite
<1>2. ASSUME NEW p \in Path, UserRemove(p) PROVE SoundInv'
  <2>1. disk' \in [Path -> 0 .. MaxEdits + 1] /\ dirs' \subseteq Dir
    BY <1>0, <1>2, Places DEF UserRemove
  <2>2. <<Raw("remove", p)>> \in Seq(RawEvent)
    BY Records, Places
  <2>3. EventOK(Raw("remove", p))
    BY DEF EventOK, Raw
  <2> QED BY <1>2, <2>1, <2>2, <2>3, EditSound, Singles DEF UserRemove
<1>3. ASSUME NEW p \in Path, NEW q \in Path, UserRename(p, q) PROVE SoundInv'
  <2>1. disk' \in [Path -> 0 .. MaxEdits + 1] /\ dirs' \subseteq Dir
    BY <1>0, <1>3, Places DEF UserRename
  <2>2. PICK events \in RenameEvents(p, q) :
          Edit(events) \/ Edit(<<Raw("remove", q)>> \o events)
    BY <1>3 DEF UserRename
  <2>3. /\ events \in Seq(RawEvent)
        /\ \A k \in DOMAIN events : EventOK(events[k])
    BY Places, RenameSound
  <2>4. <<Raw("remove", q)>> \in Seq(RawEvent) /\ EventOK(Raw("remove", q))
    BY RawSound, Places
  <2>5. /\ <<Raw("remove", q)>> \o events \in Seq(RawEvent)
        /\ \A k \in DOMAIN (<<Raw("remove", q)>> \o events) :
              EventOK((<<Raw("remove", q)>> \o events)[k])
    BY <2>3, <2>4, JoinOf, Singles
  <2> QED BY <2>1, <2>2, <2>3, <2>5, EditSound
<1>4. ASSUME NEW d \in Dir, Mkdir(d) \/ Rmdir(d) PROVE SoundInv'
  <2>1. PICK a \in {"create", "remove"} : Edit(<<Raw(a, d)>>)
    BY <1>4 DEF Mkdir, Rmdir
  <2>2. disk' \in [Path -> 0 .. MaxEdits + 1] /\ dirs' \subseteq Dir
    <3>1. edits < MaxEdits
      BY <2>1 DEF Edit
    <3> QED BY <1>0, <1>4, <3>1, Places DEF Mkdir, Rmdir
  <2>3. <<Raw(a, d)>> \in Seq(RawEvent) /\ EventOK(Raw(a, d))
    BY RawSound, Places
  <2> QED BY <2>1, <2>2, <2>3, EditSound, Singles
<1>5. ASSUME NEW d \in Dir, NEW e \in Dir, RenameDir(d, e) PROVE SoundInv'
  <2>1. disk' \in [Path -> 0 .. MaxEdits + 1] /\ dirs' \subseteq Dir
    BY <1>0, <1>5, Places DEF RenameDir
  <2>2. PICK events \in RenameEvents(d, e) : Edit(events)
    BY <1>5 DEF RenameDir
  <2> QED BY <2>1, <2>2, RenameSound, EditSound, Places
<1> QED BY <1>1, <1>2, <1>3, <1>4, <1>5 DEF UserStep

LEMMA OverflowSound == SoundInv /\ Overflow => SoundInv'
<1> SUFFICES ASSUME SoundInv, Overflow PROVE SoundInv'
  OBVIOUS
<1>1. PICK k \in 0 .. Len(raw) - 1 : raw' = SubSeq(raw, 1, k)
  BY DEF Overflow
<1>2. raw' \in Seq(RawEvent) /\ \A l \in DOMAIN raw' : l \in DOMAIN raw /\ raw'[l] = raw[l]
  BY <1>1 DEF SoundInv, TypeOK
<1>3. edits' \in 0 .. MaxEdits
  BY Places DEF Overflow, SoundInv, TypeOK
<1>4. Untold' = Untold
  BY SameUntold DEF Overflow, loopVars
<1> QED BY <1>2, <1>3, <1>4 DEF SoundInv, TypeOK, Overflow, treeVars, peerVars, loopVars

\* The part of the state that the loop owns.
LoopOK ==
    /\ tracked \subseteq Path \ Ignored
    /\ running \subseteq Running /\ blocked \subseteq Timer
    /\ sending \subseteq Change \cup {Rescan}
    /\ spoilt \in BOOLEAN
    /\ \A c \in Untold \ {Rescan} : ChangeOK(c)

LEMMA ScheduleOK ==
    ASSUME LoopOK, NEW changes \in SUBSET Change, Schedule(changes),
           \A c \in changes : ChangeOK(c),
           tracked' \subseteq Path \ Ignored, UNCHANGED sending
    PROVE  LoopOK'
<1>1. /\ running' \subseteq Running /\ blocked' \subseteq Timer
      /\ Due' \subseteq Due \cup changes /\ spoilt' \in BOOLEAN
  <2>1. running \subseteq Running /\ blocked \subseteq Timer /\ spoilt \in BOOLEAN
    BY DEF LoopOK
  <2> QED BY <2>1, Scheduled
<1>2. Untold' \subseteq Untold \cup changes
  BY <1>1 DEF Untold
<1> QED BY <1>1, <1>2 DEF LoopOK

LEMMA WriteOK ==
    ASSUME LoopOK, NEW i \in Item, HandleWrite(i)
    PROVE  LoopOK'
<1>1. CASE i \in Path \ Ignored /\ Exists(i)
  <2>1. Modified(i) \in Change /\ ChangeOK(Modified(i))
    BY <1>1, Records, Places DEF ChangeOK, Modified
  <2>2. /\ Schedule({Modified(i)}) /\ tracked' = tracked \cup {i} /\ UNCHANGED sending
    BY <1>1 DEF HandleWrite
  <2>3. tracked' \subseteq Path \ Ignored
    BY <1>1, <2>2 DEF LoopOK
  <2> QED BY <2>1, <2>2, <2>3, ScheduleOK
<1>2. CASE ~(i \in Path \ Ignored /\ Exists(i))
  <2>1. UNCHANGED <<running, blocked, sending, tracked, spoilt>>
    BY <1>2 DEF HandleWrite, Ignores, NoTimer
  <2> QED BY <2>1, SameUntold DEF LoopOK
<1> QED BY <1>1, <1>2

LEMMA CreateOK ==
    ASSUME LoopOK, NEW i \in Item, dirs \subseteq Dir, HandleCreate(i)
    PROVE  LoopOK'
<1>1. CASE i \in dirs
  <2>1. /\ tracked' = tracked \cup {p \in In(i) \ Ignored : Exists(p)}
        /\ sending' = {Modified(p) : p \in tracked' \cap In(i)}
        /\ spoilt' \in BOOLEAN /\ UNCHANGED <<running, blocked>>
    BY <1>1 DEF HandleCreate, LoopOK
  <2>2. tracked' \subseteq Path \ Ignored
    BY <2>1 DEF LoopOK, In
  <2>3. \A c \in sending' : c \in Change /\ ChangeOK(c)
    BY <2>1, <2>2, Records, Places DEF ChangeOK, Modified
  <2>4. Due' = Due
    BY <2>1 DEF Due, Timers
  <2> QED BY <2>1, <2>2, <2>3, <2>4 DEF LoopOK, Untold
<1>2. CASE i \notin dirs
  BY <1>2, WriteOK DEF HandleCreate
<1> QED BY <1>1, <1>2

LEMMA RemoveOK ==
    ASSUME LoopOK, NEW i \in Item, HandleRemove(i)
    PROVE  LoopOK'
<1> DEFINE gone == tracked \cap (In(i) \cup {i})
           changes == {Removed(p) : p \in gone}
<1>1. gone \subseteq Path \ Ignored /\ tracked' \subseteq Path \ Ignored
  BY DEF LoopOK, HandleRemove
<1>2. \A p \in gone : Removed(p) \in Change /\ ChangeOK(Removed(p))
  BY <1>1, Records, Places DEF ChangeOK, Removed
<1>3. Schedule(changes) /\ UNCHANGED sending
  BY DEF HandleRemove
<1> HIDE DEF gone
<1>4. changes \in SUBSET Change /\ \A c \in changes : ChangeOK(c)
  BY <1>2
<1> HIDE DEF changes
<1> QED BY <1>1, <1>3, <1>4, ScheduleOK

LEMMA RenameOK ==
    ASSUME LoopOK, NEW i \in Item, NEW j \in Item, i \in Dir <=> j \in Dir,
           dirs \subseteq Dir, HandleRename(i, j)
    PROVE  LoopOK'
<1>1. CASE i \in Ignored /\ j \in Ignored
  <2>1. UNCHANGED <<running, blocked, sending, tracked, spoilt>>
    BY <1>1 DEF HandleRename, Ignores, NoTimer
  <2> QED BY <2>1, SameUntold DEF LoopOK
<1>2. CASE i \in Ignored /\ j \notin Ignored
  BY <1>2, CreateOK DEF HandleRename
<1>3. CASE i \notin Ignored /\ j \in Ignored
  BY <1>3, RemoveOK DEF HandleRename
<1>4. CASE i \notin Ignored /\ j \notin Ignored
  <2>1. Schedule({Renamed(i, j)}) /\ UNCHANGED <<tracked, sending>>
    BY <1>4 DEF HandleRename
  <2>2. Renamed(i, j) \in Change /\ ChangeOK(Renamed(i, j))
    BY <1>4, Records DEF ChangeOK, Renamed
  <2>3. tracked' \subseteq Path \ Ignored
    BY <2>1 DEF LoopOK
  <2> QED BY <2>1, <2>2, <2>3, ScheduleOK
<1> QED BY <1>1, <1>2, <1>3, <1>4

\* The event at the head of `raw`, and what is left.
LEMMA HeadOf ==
    ASSUME SoundInv, HandleEvent
    PROVE  /\ Head(raw) = raw[1] /\ 1 \in DOMAIN raw
           /\ Head(raw) \in RawEvent /\ EventOK(Head(raw))
           /\ raw' \in Seq(RawEvent) /\ Len(raw') = Len(raw) - 1
           /\ \A k \in DOMAIN raw' : k + 1 \in DOMAIN raw /\ raw'[k] = raw[k + 1]
           /\ \A k \in DOMAIN raw : k # 1 => k - 1 \in DOMAIN raw' /\ raw'[k - 1] = raw[k]
BY TailOf DEF SoundInv, TypeOK, HandleEvent

LEMMA EventSound == SoundInv /\ HandleEvent => SoundInv'
<1> SUFFICES ASSUME SoundInv, HandleEvent PROVE SoundInv'
  OBVIOUS
<1>1. LoopOK /\ dirs \subseteq Dir
  BY DEF SoundInv, TypeOK, LoopOK
<1>2. /\ Head(raw) \in RawEvent /\ EventOK(Head(raw))
      /\ raw' \in Seq(RawEvent) /\ \A k \in DOMAIN raw' : EventOK(raw'[k])
  BY HeadOf DEF SoundInv
<1> DEFINE ev == Head(raw)
<1>3. \/ ev.action = "create" /\ HandleCreate(ev.item)
      \/ ev.action = "modify" /\ HandleWrite(ev.item)
      \/ ev.action = "remove" /\ HandleRemove(ev.item)
      \/ ev.action = "rename" /\ HandleRename(ev.old, ev.item)
  BY DEF HandleEvent
<1>4. /\ ev.item \in Item /\ ev.old \in Item
      /\ ev.action = "rename" => (ev.item \in Dir <=> ev.old \in Dir)
  BY <1>2 DEF RawEvent, EventOK
<1>5. LoopOK'
  BY <1>1, <1>3, <1>4, CreateOK, WriteOK, RemoveOK, RenameOK
<1> QED BY <1>2, <1>5 DEF SoundInv, TypeOK, LoopOK, HandleEvent, treeVars, peerVars

LEMMA ExpireSound == SoundInv /\ Expire => SoundInv' /\ Due' = Due
<1> SUFFICES ASSUME SoundInv, Expire PROVE SoundInv' /\ Due' = Due
  OBVIOUS
<1>1. PICK t \in running :
        /\ running' = running \ {t}
        /\ blocked' = blocked \cup {[change |-> t.change, held |-> t.held]}
  BY DEF Expire
<1>2. t \in Running /\ [change |-> t.change, held |-> t.held] \in Timer
  BY DEF SoundInv, TypeOK, Running, Timer
<1>3. running' \subseteq Running /\ blocked' \subseteq Timer
  BY <1>1, <1>2 DEF SoundInv, TypeOK
<1>4. Due' \subseteq Due
  <2> SUFFICES ASSUME NEW u \in Timers' PROVE u.change \in Due
    BY DEF Due
  <2>1. CASE u \in running' \cup blocked
    BY <2>1, <1>1 DEF Due, Timers
  <2>2. CASE u = [change |-> t.change, held |-> t.held]
    BY <2>2 DEF Due, Timers
  <2> QED BY <2>1, <2>2, <1>1 DEF Timers
<1>5. Due \subseteq Due'
  <2> SUFFICES ASSUME NEW u \in Timers PROVE u.change \in Due'
    BY DEF Due
  <2>1. CASE u = t
    <3>1. [change |-> t.change, held |-> t.held] \in Timers'
      BY <1>1 DEF Timers
    <3> QED BY <2>1, <3>1 DEF Due
  <2>2. CASE u # t
    BY <2>2, <1>1 DEF Due, Timers
  <2> QED BY <2>1, <2>2
<1>6. Due' = Due /\ Untold' = Untold
  BY <1>4, <1>5 DEF Untold, Expire
<1> QED BY <1>3, <1>6 DEF SoundInv, TypeOK, Expire, treeVars, peerVars

LEMMA DueOK ==
    ASSUME SoundInv, NEW t \in Timers
    PROVE  /\ t.change \in Due /\ t.change \in Untold
           /\ t.change \in Change /\ ChangeOK(t.change)
<1>1. t.change \in Change
  BY DEF SoundInv, TypeOK, Timers, Running, Timer
<1>2. t.change \in Due /\ t.change \in Untold
  BY DEF Due, Untold
<1> QED BY <1>1, <1>2, Records DEF SoundInv

LEMMA TrackedOK ==
    ASSUME SoundInv, NEW c \in Change, ChangeOK(c)
    PROVE  Tracked(c) \subseteq Path \ Ignored
<1>1. tracked \subseteq Path \ Ignored
  BY DEF SoundInv, TypeOK
<1>2. CASE c.kind = "removed"
  BY <1>1, <1>2 DEF Tracked
<1>3. CASE c.kind = "renamed" /\ c.old \in tracked
  <2>1. c.item \in Path \ Ignored
    BY <1>1, <1>3, Places DEF ChangeOK, Change, Item
  <2>2. Tracked(c) = (tracked \ {c.old}) \cup {c.item}
    BY <1>3 DEF Tracked
  <2> QED BY <1>1, <2>1, <2>2
<1>4. CASE c.kind # "removed" /\ ~(c.kind = "renamed" /\ c.old \in tracked)
  BY <1>1, <1>4 DEF Tracked
<1> QED BY <1>2, <1>3, <1>4

LEMMA FireSound == SoundInv /\ Fire => SoundInv'
<1> SUFFICES ASSUME SoundInv, Fire PROVE SoundInv'
  OBVIOUS
<1> DEFINE Rest(timers, c) ==
               {IF SameKey(t.change, c) THEN Unmapped(t) ELSE t : t \in timers}
<1>1. PICK f \in blocked :
        /\ blocked' = Rest(blocked \ {f}, f.change) /\ running' = Rest(running, f.change)
        /\ tracked' = Tracked(f.change) /\ sending' = {f.change}
  BY DEF Fire
<1>2. f.change \in Change /\ ChangeOK(f.change) /\ f.change \in Due
  BY DueOK DEF Timers
<1>3. \A t \in Running : Unmapped(t) \in Running /\ Unmapped(t).change = t.change
  BY DEF Running, Unmapped
<1>4. \A t \in Timer : Unmapped(t) \in Timer /\ Unmapped(t).change = t.change
  BY DEF Timer, Unmapped
<1>5. running \subseteq Running /\ blocked \subseteq Timer
  BY DEF SoundInv, TypeOK
<1>6. /\ running' \subseteq Running
      /\ \A t \in running' : \E u \in running : t.change = u.change
  BY <1>1, <1>3, <1>5
<1>7. /\ blocked' \subseteq Timer
      /\ \A t \in blocked' : \E u \in blocked : t.change = u.change
  BY <1>1, <1>4, <1>5
<1>8. Due' \subseteq Due /\ Untold' \subseteq Due
  BY <1>1, <1>2, <1>6, <1>7 DEF Due, Timers, Untold
<1>9. \A c \in Untold' \ {Rescan} : ChangeOK(c)
  BY <1>8 DEF SoundInv, Untold
<1>10. tracked' \subseteq Path \ Ignored
  BY <1>1, <1>2, TrackedOK
<1> QED BY <1>1, <1>2, <1>6, <1>7, <1>9, <1>10
        DEF SoundInv, TypeOK, Fire, treeVars, peerVars

LEMMA OverflowHeard == SoundInv /\ HandleOverflow => SoundInv'
<1> SUFFICES ASSUME SoundInv, HandleOverflow PROVE SoundInv'
  OBVIOUS
<1>1. Due' = Due /\ Untold' \subseteq Untold \cup {Rescan}
  BY DEF HandleOverflow, Due, Timers, Untold
<1> QED BY <1>1 DEF SoundInv, TypeOK, HandleOverflow, treeVars, peerVars

\* The items of a change by its kind.
LEMMA Kinds ==
    ASSUME NEW c \in Change \cup {Rescan}, c # Rescan => ChangeOK(c)
    PROVE  /\ c = Rescan <=> c.kind = "rescan"
           /\ c.kind \in {"modified", "removed"} =>
                 c \in Change /\ c.item \in Path \ Ignored /\ c.old = c.item
           /\ c.kind = "renamed" =>
                 /\ c \in Change /\ c.item \in Item \ Ignored /\ c.old \in Item \ Ignored
                 /\ c.item \in Dir <=> c.old \in Dir
           /\ c.kind \in {"modified", "removed", "renamed", "rescan"}
BY Records DEF Change, Rescan, ChangeOK

LEMMA TakeSound ==
    ASSUME SoundInv, NEW c \in sending, Take(c)
    PROVE  SoundInv'
<1>1. c \in Change \cup {Rescan} /\ (c # Rescan => ChangeOK(c))
  BY DEF SoundInv, TypeOK, Untold
<1>2. told \in [Path -> 0 .. MaxEdits + 1] /\ disk \in [Path -> 0 .. MaxEdits + 1]
  BY DEF SoundInv, TypeOK
<1>3. told' \in [Path -> 0 .. MaxEdits + 1] /\ broken' \in BOOLEAN
  <2>1. CASE c.kind = "modified"
    BY <1>1, <1>2, <2>1, Kinds DEF Take, ToldWritten, SoundInv, TypeOK
  <2>2. CASE c.kind = "removed"
    <3>1. told' = [told EXCEPT ![c.item] = 0] /\ broken' = broken
      BY <2>2 DEF Take
    <3>2. broken' \in BOOLEAN
      BY <3>1 DEF SoundInv, TypeOK
    <3>3. 0 \in 0 .. MaxEdits + 1
      BY Places
    <3> QED BY <1>2, <3>1, <3>2, <3>3
  <2>3. CASE c.kind = "renamed" /\ PeerHas(c.old)
    <3>1. told' = ToldRenamed(c) /\ broken' = broken
      BY <2>3 DEF Take
    <3>2. CASE c.item \in Dir
      BY <1>2, <3>1, <3>2, Places DEF ToldRenamed, SoundInv, TypeOK
    <3>3. CASE c.item \notin Dir
      <4>1. c.item \in Path /\ c.old \in Path
        BY <1>1, <2>3, <3>3, Kinds DEF Item
      <4>2. told' = [told EXCEPT ![c.item] = told[c.old], ![c.old] = 0]
        BY <3>1, <3>3 DEF ToldRenamed
      <4>3. told' \in [Path -> 0 .. MaxEdits + 1]
        BY <1>2, <4>1, <4>2, Places
      <4> QED BY <3>1, <4>3 DEF SoundInv, TypeOK
    <3> QED BY <3>2, <3>3
  <2>4. CASE c.kind = "renamed" /\ ~PeerHas(c.old)
    BY <1>2, <2>4 DEF Take
  <2>5. CASE c.kind = "rescan"
    BY <1>2, <2>5 DEF Take, SoundInv, TypeOK, peerVars
  <2> QED BY <1>1, <2>1, <2>2, <2>3, <2>4, <2>5, Kinds
<1>4. Untold' \subseteq Untold /\ sending' \subseteq sending
  BY DEF Take, Untold, Due, Timers
<1> QED BY <1>3, <1>4 DEF SoundInv, TypeOK, Take, treeVars

LEMMA SoundStep == SoundInv /\ [Next]_vars => SoundInv'
<1> SUFFICES ASSUME SoundInv, [Next]_vars PROVE SoundInv'
  OBVIOUS
<1>1. CASE UNCHANGED vars
  <2>1. Untold' = Untold
    BY <1>1, SameUntold DEF vars, loopVars
  <2> QED BY <1>1, <2>1 DEF SoundInv, TypeOK, vars, treeVars, peerVars, loopVars
<1>2. CASE Next
  BY <1>2, UserSound, OverflowSound, EventSound, FireSound, OverflowHeard, ExpireSound,
     TakeSound DEF Next, LoopStep
<1> QED BY <1>1, <1>2

\* The variables keep their types whatever the users, the backend, the timers and
\* the consumer do.
THEOREM TypeCorrect == Spec => []TypeOK
<1>1. SoundInv => TypeOK
  BY DEF SoundInv
<1> QED BY <1>1, SoundInit, SoundStep, PTL DEF Spec

-----------------------------------------------------------------------------
\* Nothing is forgotten.  First, timers: what their steps make of the changes
\* that are due, while none is late.

LEMMA ChangeIs ==
    ASSUME NEW c \in Change, ChangeOK(c)
    PROVE  /\ c.kind = "modified" => c = Modified(c.item) /\ c.item \in Open
           /\ c.kind = "removed" => c = Removed(c.item) /\ c.item \in Open
           /\ c.kind = "renamed" => c = Renamed(c.old, c.item)
BY DEF Change, ChangeOK, Modified, Removed, Renamed, Open

LEMMA KeyIsOwn == \A c : SameKey(c, c)
BY DEF SameKey

LEMMA ScheduledOrderly ==
    ASSUME SoundInv, Orderly, NEW changes \in SUBSET Change, Schedule(changes), ~spoilt',
           \A c, e \in changes : SameKey(c, e) => c = e
    PROVE  /\ Orderly'
           /\ Due' = changes \cup {c \in Due : \A e \in changes : ~SameKey(c, e)}
<1> DEFINE Replaced(t) == t.held /\ \E c \in changes : SameKey(t.change, c)
           late == {t \in blocked : Replaced(t)}
           older == {[t EXCEPT !.age = @ + 1] : t \in {u \in running : ~Replaced(u)}}
           new == {[change |-> c, held |-> TRUE, age |-> 0] : c \in changes}
<1>1. /\ running' = IF changes = {} THEN running ELSE older \cup new
      /\ blocked' = (blocked \ late) \cup {Unmapped(t) : t \in late}
      /\ late = {}
  BY DEF Schedule
<1>2. running \subseteq Running /\ blocked \subseteq Timer
  BY DEF SoundInv, TypeOK
<1>3. /\ blocked' = blocked
      /\ \A t \in blocked : \A c \in changes : ~SameKey(t.change, c)
  BY <1>1 DEF Orderly, Timers
<1>4. CASE changes = {}
  <2>1. running' = running
    BY <1>1, <1>4
  <2>2. Timers' = Timers
    BY <1>3, <2>1 DEF Timers
  <2> QED BY <1>3, <1>4, <2>1, <2>2 DEF Orderly, Due
<1>5. CASE changes # {}
  <2>1. running' = older \cup new
    BY <1>1, <1>5
  <2>2. \A t \in older : \E u \in running :
          /\ t = [u EXCEPT !.age = @ + 1] /\ t.change = u.change /\ t.held = u.held
          /\ ~Replaced(u)
    BY <1>2 DEF Running
  <2>3. \A t \in older : \E u \in running :
          /\ t = [u EXCEPT !.age = @ + 1] /\ t.change = u.change /\ t.held
          /\ \A c \in changes : ~SameKey(u.change, c)
    BY <2>2 DEF Orderly, Timers
  <2>4. \A u \in running : (\A c \in changes : ~SameKey(u.change, c)) =>
          \E t \in older : t.change = u.change
    <3> SUFFICES ASSUME NEW u \in running, \A c \in changes : ~SameKey(u.change, c)
                 PROVE  \E t \in older : t.change = u.change
      OBVIOUS
    <3>1. [u EXCEPT !.age = @ + 1] \in older
      OBVIOUS
    <3>2. [u EXCEPT !.age = @ + 1].change = u.change
      BY <1>2 DEF Running
    <3> QED BY <3>1, <3>2
  <2>5. \A t \in new : t.held /\ t.change \in changes
                       /\ t = [change |-> t.change, held |-> TRUE, age |-> 0]
    OBVIOUS
  <2>6. \A c \in changes : \E t \in new : t.change = c
    <3> SUFFICES ASSUME NEW c \in changes PROVE \E t \in new : t.change = c
      OBVIOUS
    <3>1. [change |-> c, held |-> TRUE, age |-> 0] \in new
      OBVIOUS
    <3> QED BY <3>1
  <2> HIDE DEF Replaced, late, older, new
  <2>7. Due' = changes \cup {c \in Due : \A e \in changes : ~SameKey(c, e)}
    <3>1. ASSUME NEW t \in Timers'
          PROVE  \/ t.change \in changes
                 \/ t.change \in Due /\ \A e \in changes : ~SameKey(t.change, e)
      BY <1>3, <2>1, <2>3, <2>5 DEF Timers, Due
    <3>2. ASSUME NEW c \in changes PROVE c \in Due'
      BY <2>1, <2>6 DEF Timers, Due
    <3>3. ASSUME NEW t \in Timers, \A e \in changes : ~SameKey(t.change, e)
          PROVE  t.change \in Due'
      BY <1>3, <2>1, <2>4, <3>3 DEF Timers, Due
    <3> QED BY <3>1, <3>2, <3>3 DEF Due
  <2>8. \A t \in Timers' : t.held
    BY <1>3, <2>1, <2>3, <2>5 DEF Timers, Orderly
  <2>9. \A t, u \in running' : SameKey(t.change, u.change) => t = u
    <3>1. ASSUME NEW t \in older, NEW u \in older, SameKey(t.change, u.change)
          PROVE  t = u
      BY <2>3, <3>1 DEF Orderly
    <3>2. ASSUME NEW t \in older, NEW u \in new
          PROVE  ~SameKey(t.change, u.change) /\ ~SameKey(u.change, t.change)
      BY <2>3, <2>5 DEF SameKey
    <3>3. ASSUME NEW t \in new, NEW u \in new, SameKey(t.change, u.change)
          PROVE  t = u
      BY <2>5, <3>3
    <3> QED BY <2>1, <3>1, <3>2, <3>3
  <2>10. \A t \in running', u \in blocked' : ~SameKey(t.change, u.change)
    <3>1. ASSUME NEW t \in older, NEW u \in blocked PROVE ~SameKey(t.change, u.change)
      BY <2>3 DEF Orderly
    <3>2. ASSUME NEW t \in new, NEW u \in blocked PROVE ~SameKey(t.change, u.change)
      BY <1>3, <2>5 DEF SameKey
    <3> QED BY <1>3, <2>1, <3>1, <3>2
  <2> QED BY <1>3, <2>7, <2>8, <2>9, <2>10 DEF Orderly
<1> QED BY <1>4, <1>5

LEMMA ExpireOrderly == SoundInv /\ Orderly /\ Expire => Orderly'
<1> SUFFICES ASSUME SoundInv, Orderly, Expire PROVE Orderly'
  OBVIOUS
<1>1. PICK t \in running :
        /\ running' = running \ {t}
        /\ blocked' = blocked \cup {[change |-> t.change, held |-> t.held]}
  BY DEF Expire
<1>2. PICK b : b = [change |-> t.change, held |-> t.held]
  OBVIOUS
<1>3. b.change = t.change /\ b.held = t.held /\ t.held
  BY <1>2 DEF Orderly, Timers
<1>4. running' = running \ {t} /\ blocked' = blocked \cup {b}
  BY <1>1, <1>2
<1>5. \A u \in Timers' : u.held
  BY <1>3, <1>4 DEF Orderly, Timers
<1>6. \A u, v \in blocked' : SameKey(u.change, v.change) => u = v
  BY <1>3, <1>4 DEF Orderly, SameKey
<1>7. \A u \in running', v \in blocked' : ~SameKey(u.change, v.change)
  BY <1>3, <1>4 DEF Orderly, SameKey
<1> QED BY <1>4, <1>5, <1>6, <1>7 DEF Orderly

LEMMA FireOrderly ==
    ASSUME SoundInv, Orderly, Fire
    PROVE  /\ Orderly'
           /\ \E c \in Due : /\ c \in Change /\ ChangeOK(c)
                             /\ sending' = {c} /\ tracked' = Tracked(c)
                             /\ Due' = Due \ {c}
<1> DEFINE Rest(timers, c) ==
               {IF SameKey(t.change, c) THEN Unmapped(t) ELSE t : t \in timers}
<1>1. PICK f \in blocked :
        /\ blocked' = Rest(blocked \ {f}, f.change) /\ running' = Rest(running, f.change)
        /\ tracked' = Tracked(f.change) /\ sending' = {f.change}
  BY DEF Fire
<1>2. f.change \in Change /\ ChangeOK(f.change) /\ f.change \in Due
  BY DueOK DEF Timers
<1>3. /\ \A t \in running : ~SameKey(t.change, f.change)
      /\ \A t \in blocked \ {f} : ~SameKey(t.change, f.change)
  BY DEF Orderly
<1>4. blocked' = blocked \ {f} /\ running' = running
  BY <1>1, <1>3
<1>5. Orderly'
  BY <1>4 DEF Orderly, Timers
<1>6. Due' = Due \ {f.change}
  BY <1>3, <1>4, KeyIsOwn DEF Due, Timers
<1> QED BY <1>1, <1>2, <1>5, <1>6

-----------------------------------------------------------------------------
\* The user's changes.

LEMMA NoRename ==
    ASSUME SoundInv, ~Renaming
    PROVE  /\ \A c \in Untold : c.kind # "renamed"
           /\ \A k \in DOMAIN raw : raw[k].action # "rename"
BY DEF Renaming, Renames

\* An edit that no gap swallows finds no rename on its way; one that is a rename
\* itself finds nothing at all.
LEMMA Unhurried ==
    ASSUME SoundInv, NEW events \in Seq(RawEvent), Edit(events), ~spoilt'
    PROVE  /\ \A c \in Untold : c.kind # "renamed"
           /\ \A k \in DOMAIN raw : raw[k].action # "rename"
           /\ \A k \in DOMAIN events : events[k].action = "rename" =>
                 Quiet /\ Len(events) = 1 /\ events[k].item \notin Dir
           /\ ~spoilt
<1>1. ~Hurried(events) /\ ~spoilt
  BY DEF Edit
<1>2. \A k \in DOMAIN events : events[k].action = "rename" => events[k] \in Renames(events)
  BY DEF Renames
<1>3. Len(events) \in Nat /\ \A k \in DOMAIN events : Len(events) >= 1
  OBVIOUS
<1>4. \A k \in DOMAIN events : events[k].action = "rename" =>
        Quiet /\ Len(events) = 1 /\ events[k].item \notin Dir
  <2> SUFFICES ASSUME NEW k \in DOMAIN events, events[k].action = "rename"
               PROVE  Quiet /\ Len(events) = 1 /\ events[k].item \notin Dir
    OBVIOUS
  <2>1. events[k] \in Renames(events)
    BY <1>2
  <2>2. Quiet /\ ~(Len(events) > 1) /\ events[k].item \notin Dir
    BY <1>1, <2>1 DEF Hurried
  <2> QED BY <1>3, <2>2
<1> QED BY <1>1, <1>4, NoRename DEF Hurried

\* An edit is told of by its own events: each file it brings or rewrites comes in
\* one of them, each that it takes away goes in one, and of a file that is there
\* in the end the last says so.
LEMMA EditKeeps ==
    ASSUME WatchInv, SoundInv', NEW events \in Seq(RawEvent), Edit(events), ~spoilt',
           \A k \in DOMAIN events : events[k].action # "rename",
           TreeOK',
           \A p \in Path : disk'[p] # 0 /\ disk'[p] # disk[p] =>
               \E k \in DOMAIN events : Arrival(events[k], p),
           \A p \in Path : disk'[p] = 0 /\ disk[p] # 0 =>
               \E k \in DOMAIN events : Departure(events[k], p),
           \A p \in Path : disk'[p] # 0 =>
               \A k \in DOMAIN events : Departure(events[k], p) =>
                   \E l \in DOMAIN events : l > k /\ Arrival(events[l], p)
    PROVE  GapFree'
<1>1. GapFree /\ ~spoilt /\ SoundInv
  BY DEF WatchInv, Edit
<1>2. /\ raw' = raw \o events
      /\ UNCHANGED <<lost, told, tracked, running, blocked, sending>>
  BY DEF Edit, peerVars, loopVars
<1>3. Untold' = Untold /\ Due' = Due /\ Timers' = Timers
  BY <1>2, SameUntold
<1>4. /\ Len(raw) \in Nat
      /\ \A k \in DOMAIN raw : k \in Nat /\ k <= Len(raw)
      /\ \A k \in DOMAIN raw : k \in DOMAIN raw' /\ raw'[k] = raw[k]
      /\ \A k \in DOMAIN events : k + Len(raw) \in DOMAIN raw' /\ raw'[k + Len(raw)] = events[k]
      /\ \A k \in DOMAIN events : k \in Nat /\ k > 0
      /\ \A k \in DOMAIN raw' :
            \/ k \in DOMAIN raw
            \/ /\ k - Len(raw) \in DOMAIN events /\ raw'[k] = events[k - Len(raw)]
               /\ k = (k - Len(raw)) + Len(raw)
  BY <1>1, <1>2, JoinOf DEF SoundInv, TypeOK
<1> HIDE DEF Arrival, Departure
<1>5. \A p : (\E k \in DOMAIN events : Arrival(events[k], p)) =>
          \E l \in DOMAIN raw' : l > Len(raw) /\ Arrival(raw'[l], p)
  BY <1>4
<1>6. \A p : (\E k \in DOMAIN events : Departure(events[k], p)) =>
          \E l \in DOMAIN raw' : Departure(raw'[l], p)
  BY <1>4
<1>7. \A p : /\ (\E k \in DOMAIN raw : Arrival(raw[k], p)) =>
                   \E k \in DOMAIN raw' : Arrival(raw'[k], p)
             /\ (\E k \in DOMAIN raw : Departure(raw[k], p)) =>
                   \E k \in DOMAIN raw' : Departure(raw'[k], p)
  BY <1>4
<1>8. Orderly' /\ ~lost' /\ Rescan \notin sending'
  BY <1>1, <1>2, <1>3 DEF GapFree, Orderly
<1>9. KnowsTold'
  BY <1>1, <1>2, <1>3 DEF GapFree, KnowsTold
<1>10. KnowsGone'
  <2> SUFFICES ASSUME NEW p \in tracked, disk'[p] = 0
               PROVE  \/ \E c \in Due : Drops(c, p)
                      \/ \E k \in DOMAIN raw' : Departure(raw'[k], p)
    BY <1>2, <1>3 DEF KnowsGone, Exists
  <2>1. p \in Path
    BY <1>1 DEF SoundInv, TypeOK
  <2>2. CASE disk[p] # 0
    BY <1>6, <2>1, <2>2
  <2>3. CASE disk[p] = 0
    BY <1>1, <1>7, <2>3 DEF GapFree, KnowsGone, Exists
  <2> QED BY <2>2, <2>3
<1>11. LastIsArrival'
  <2> SUFFICES ASSUME NEW p \in Path, disk'[p] # 0
               PROVE  /\ Removed(p) \in Untold =>
                            \E k \in DOMAIN raw' : Arrival(raw'[k], p)
                      /\ \A k \in DOMAIN raw' : Departure(raw'[k], p) =>
                            \E l \in DOMAIN raw' : l > k /\ Arrival(raw'[l], p)
    BY <1>3 DEF LastIsArrival, Exists
  <2>1. ASSUME Removed(p) \in Untold PROVE \E k \in DOMAIN raw' : Arrival(raw'[k], p)
    <3>1. CASE disk[p] # 0
      BY <1>1, <1>7, <2>1, <3>1 DEF GapFree, LastIsArrival, Exists
    <3>2. CASE disk[p] = 0
      BY <1>5, <3>2
    <3> QED BY <3>1, <3>2
  <2>2. ASSUME NEW k \in DOMAIN raw', Departure(raw'[k], p)
        PROVE  \E l \in DOMAIN raw' : l > k /\ Arrival(raw'[l], p)
    <3>1. CASE k \in DOMAIN raw
      <4>1. CASE disk[p] # 0
        <5>1. Departure(raw[k], p)
          BY <1>4, <2>2, <3>1
        <5>2. PICK l \in DOMAIN raw : l > k /\ Arrival(raw[l], p)
          BY <1>1, <3>1, <4>1, <5>1 DEF GapFree, LastIsArrival, Exists
        <5> QED BY <1>4, <5>2
      <4>2. CASE disk[p] = 0
        <5>1. PICK l \in DOMAIN raw' : l > Len(raw) /\ Arrival(raw'[l], p)
          BY <1>5, <4>2
        <5>2. l \in Nat
          BY <1>4, <5>1
        <5> QED BY <1>4, <3>1, <5>1, <5>2
      <4> QED BY <4>1, <4>2
    <3>2. CASE k \notin DOMAIN raw
      <4>1. PICK m \in DOMAIN events : m = k - Len(raw) /\ k = m + Len(raw) /\ raw'[k] = events[m]
        BY <1>4, <3>2
      <4>2. PICK l \in DOMAIN events : l > m /\ Arrival(events[l], p)
        BY <2>2, <4>1
      <4>3. l + Len(raw) \in DOMAIN raw' /\ raw'[l + Len(raw)] = events[l]
        BY <1>4
      <4>4. l + Len(raw) > k
        BY <1>4, <4>1, <4>2
      <4> QED BY <4>2, <4>3, <4>4
    <3> QED BY <3>1, <3>2
  <2> QED BY <2>1, <2>2
<1>12. Alone'
  <2>1. \A k \in DOMAIN raw' : raw'[k].action # "rename"
    BY <1>1, <1>4, Unhurried
  <2>2. \A c \in Untold : c.kind # "renamed"
    BY <1>1, Unhurried
  <2> QED BY <1>3, <2>1, <2>2 DEF Alone
<1>13. Carried'
  <2> SUFFICES ASSUME NEW p \in Open, told[p] # disk'[p]
               PROVE  IF disk'[p] # 0
                      THEN \/ \E c \in Untold : Brings(c, p)
                           \/ \E k \in DOMAIN raw' : Arrival(raw'[k], p)
                      ELSE \/ \E c \in Untold : Drops(c, p)
                           \/ \E k \in DOMAIN raw' : Departure(raw'[k], p)
    BY <1>2, <1>3 DEF Carried, Exists, Arrives, Leaves, Open
  <2>1. p \in Path
    BY DEF Open
  <2>2. CASE disk'[p] = disk[p]
    <3>1. IF Exists(p) THEN Arrives(p) ELSE Leaves(p)
      BY <1>1, <2>2 DEF GapFree, Carried, Open
    <3> QED BY <1>7, <2>2, <3>1 DEF Exists, Arrives, Leaves
  <2>3. CASE disk'[p] # disk[p] /\ disk'[p] # 0
    BY <1>5, <2>1, <2>3
  <2>4. CASE disk'[p] # disk[p] /\ disk'[p] = 0
    BY <1>6, <2>1, <2>4
  <2> QED BY <2>2, <2>3, <2>4
<1> QED BY <1>8, <1>9, <1>10, <1>11, <1>12, <1>13 DEF GapFree

\* The raw events that the user's changes make.
LEMMA RawIs ==
    ASSUME NEW a, NEW i
    PROVE  Raw(a, i).action = a /\ Raw(a, i).item = i /\ Raw(a, i).old = i
BY DEF Raw

LEMMA WriteKeeps ==
    ASSUME WatchInv, SoundInv', NEW p \in Path, UserWrite(p), ~spoilt'
    PROVE  GapFree'
<1> DEFINE first == IF Exists(p) THEN <<>> ELSE <<Raw("create", p)>>
           events == first \o <<Raw("modify", p)>>
<1>1. /\ p[1] \in dirs \cup {Root} /\ Edit(events) /\ UNCHANGED dirs
      /\ disk' = [disk EXCEPT ![p] = edits + 2]
  BY DEF UserWrite
<1>2. /\ SoundInv /\ GapFree /\ disk \in [Path -> 0 .. MaxEdits + 1] /\ edits \in Nat
  BY <1>1, Places DEF WatchInv, SoundInv, TypeOK, Edit
<1>3. disk'[p] # 0 /\ \A q \in Path : q # p => disk'[q] = disk[q]
  BY <1>1, <1>2
<1>4. /\ events \in Seq(RawEvent)
      /\ \A k \in DOMAIN events : events[k].action # "rename" /\ events[k].action # "remove"
      /\ Len(events) \in DOMAIN events /\ events[Len(events)] = Raw("modify", p)
  <2>1. CASE Exists(p)
    <3>1. events = <<Raw("modify", p)>>
      BY <2>1
    <3> QED BY <3>1, Singles, Records, Places, RawIs
  <2>2. CASE ~Exists(p)
    <3> DEFINE c == <<Raw("create", p)>>
               m == <<Raw("modify", p)>>
    <3>1. events = c \o m
      BY <2>2, Zenon
    <3>2. /\ c \in Seq(RawEvent) /\ DOMAIN c = {1} /\ Len(c) = 1 /\ c[1] = Raw("create", p)
          /\ m \in Seq(RawEvent) /\ DOMAIN m = {1} /\ Len(m) = 1 /\ m[1] = Raw("modify", p)
      BY Singles, Records, Places
    <3> HIDE DEF events, c, m
    <3>3. /\ events \in Seq(RawEvent) /\ Len(events) = 2
          /\ events[1] = Raw("create", p) /\ events[2] = Raw("modify", p)
      <4>1. /\ events \in Seq(RawEvent) /\ Len(events) = Len(c) + Len(m)
            /\ 1 \in DOMAIN c => events[1] = c[1]
            /\ 1 \in DOMAIN m => events[1 + Len(c)] = m[1]
        <5>1. c \in Seq(RawEvent) /\ m \in Seq(RawEvent)
          BY <3>2
        <5>2. /\ events \in Seq(RawEvent) /\ Len(events) = Len(c) + Len(m)
              /\ \A k \in DOMAIN c : events[k] = c[k]
              /\ \A k \in DOMAIN m : events[k + Len(c)] = m[k]
          BY <3>1, <5>1, JoinOf
        <5> QED BY <5>2
      <4>2. 1 \in DOMAIN c /\ 1 \in DOMAIN m /\ Len(c) = 1 /\ Len(m) = 1 /\ 1 + 1 = 2
        BY <3>2
      <4> QED BY <3>2, <4>1, <4>2
    <3>4. 2 \in DOMAIN events /\ \A k \in DOMAIN events : k = 1 \/ k = 2
      BY <3>3
    <3> QED BY <3>3, <3>4, RawIs
  <2> QED BY <2>1, <2>2
<1> HIDE DEF events
<1>5. Arrival(events[Len(events)], p)
  BY <1>4, RawIs DEF Arrival
<1>6. \A q : \A k \in DOMAIN events : ~Departure(events[k], q)
  BY <1>4 DEF Departure
<1>7. TreeOK'
  BY <1>1, <1>2, <1>3 DEF GapFree, TreeOK, Exists
<1> QED BY <1>1, <1>3, <1>4, <1>5, <1>6, <1>7, EditKeeps

LEMMA RemoveKeeps ==
    ASSUME WatchInv, SoundInv', NEW p \in Path, UserRemove(p), ~spoilt'
    PROVE  GapFree'
<1> DEFINE events == <<Raw("remove", p)>>
<1>1. /\ Edit(events) /\ UNCHANGED dirs /\ disk' = [disk EXCEPT ![p] = 0]
  BY DEF UserRemove
<1>2. /\ SoundInv /\ GapFree /\ disk \in [Path -> 0 .. MaxEdits + 1]
  BY <1>1 DEF WatchInv, SoundInv, TypeOK, Edit
<1>3. disk'[p] = 0 /\ \A q \in Path : q # p => disk'[q] = disk[q]
  BY <1>1, <1>2
<1>4. /\ events \in Seq(RawEvent) /\ DOMAIN events = {1} /\ events[1] = Raw("remove", p)
  BY Singles, Records, Places
<1> HIDE DEF events
<1>5. events[1].action = "remove" /\ events[1].item = p
  BY <1>4, RawIs
<1>6. Departure(events[1], p) /\ \A q \in Path : q # p => ~Departure(events[1], q)
  BY <1>5, Places DEF Departure
<1>7. TreeOK'
  BY <1>1, <1>2, <1>3 DEF GapFree, TreeOK, Exists
<1> QED BY <1>1, <1>3, <1>4, <1>5, <1>6, <1>7, EditKeeps

LEMMA DirKeeps ==
    ASSUME WatchInv, SoundInv', NEW d \in Dir, Mkdir(d) \/ Rmdir(d), ~spoilt'
    PROVE  GapFree'
<1>1. PICK a : /\ (a = "create" /\ Mkdir(d)) \/ (a = "remove" /\ Rmdir(d))
               /\ Edit(<<Raw(a, d)>>)
  BY DEF Mkdir, Rmdir
<1> DEFINE events == <<Raw(a, d)>>
<1>2. /\ SoundInv /\ GapFree /\ disk \in [Path -> 0 .. MaxEdits + 1] /\ edits \in Nat
  BY <1>1, Places DEF WatchInv, SoundInv, TypeOK, Edit
<1>3. /\ events \in Seq(RawEvent) /\ DOMAIN events = {1} /\ events[1] = Raw(a, d)
  BY <1>1, Singles, Records, Places
<1>4. /\ events[1].item = d /\ events[1].action = a
      /\ Edit(events)
  BY <1>1, <1>3, RawIs
<1> HIDE DEF events
<1>5. CASE a = "create"
  <2>1. PICK some \in SUBSET In(d) :
           disk' = [p \in Path |-> IF p \in some THEN edits + 2 ELSE disk[p]]
    BY <1>1, <1>5 DEF Mkdir
  <2>2. dirs' = dirs \cup {d}
    BY <1>1, <1>5 DEF Mkdir
  <2>3. \A p \in Path : /\ disk'[p] # disk[p] => p \in some
                        /\ p \in some => disk'[p] # 0 /\ p[1] = d
    BY <1>2, <2>1 DEF In
  <2>4. TreeOK'
    BY <1>2, <2>1, <2>2, <2>3 DEF GapFree, TreeOK, Exists
  <2>5. \A p \in some : Arrival(events[1], p)
    BY <1>4, <1>5, <2>3 DEF Arrival, In
  <2>6. \A p : ~Departure(events[1], p)
    BY <1>4, <1>5 DEF Departure
  <2> QED BY <1>3, <1>4, <1>5, <2>3, <2>4, <2>5, <2>6, EditKeeps
<1>6. CASE a = "remove"
  <2>1. /\ disk' = [p \in Path |-> IF p[1] = d THEN 0 ELSE disk[p]]
        /\ dirs' = dirs \ {d}
    BY <1>1, <1>6 DEF Rmdir
  <2>2. \A p \in Path : /\ p[1] = d => disk'[p] = 0
                        /\ p[1] # d => disk'[p] = disk[p]
    BY <2>1
  <2>3. TreeOK'
    BY <1>2, <2>1, <2>2 DEF GapFree, TreeOK, Exists
  <2>4. \A p \in Path : Departure(events[1], p) <=> p[1] = d
    BY <1>4, <1>6, Places DEF Departure
  <2> QED BY <1>3, <1>4, <1>6, <2>2, <2>3, <2>4, EditKeeps
<1> QED BY <1>1, <1>5, <1>6

\* Two events, or three: the last is the arrival.
LEMMA SplitKeeps ==
    ASSUME WatchInv, SoundInv', NEW p \in Path, NEW q \in Path, p # q,
           NEW events \in Seq(RawEvent), Edit(events), ~spoilt',
           q[1] \in dirs \cup {Root}, UNCHANGED dirs, Exists(p),
           disk' = [disk EXCEPT ![q] = disk[p], ![p] = 0],
           Len(events) >= 1, events[Len(events)] = Raw("create", q),
           \E k \in DOMAIN events : events[k] = Raw("remove", p),
           \A k \in DOMAIN events : k < Len(events) =>
               events[k] \in {Raw("remove", p), Raw("remove", q)}
    PROVE  GapFree'
<1>1. SoundInv /\ GapFree /\ disk \in [Path -> 0 .. MaxEdits + 1]
  BY DEF WatchInv, SoundInv, TypeOK, Edit
<1>2. /\ disk'[p] = 0 /\ disk'[q] # 0
      /\ \A r \in Path \ {p, q} : disk'[r] = disk[r]
  BY <1>1 DEF Exists
<1>3. Len(events) \in DOMAIN events /\ Arrival(events[Len(events)], q)
  BY RawIs DEF Arrival
<1>4. \E k \in DOMAIN events : Departure(events[k], p)
  BY RawIs DEF Departure
<1>5. \A k \in DOMAIN events : k = Len(events) \/ k < Len(events)
  OBVIOUS
<1>6. \A k \in DOMAIN events : \A r \in Path : Departure(events[k], r) =>
        k < Len(events) /\ r \in {p, q}
  BY <1>5, RawIs, Places DEF Departure
<1>7. \A k \in DOMAIN events : events[k].action # "rename"
  BY <1>5, RawIs
<1>8. TreeOK'
  BY <1>1, <1>2 DEF GapFree, TreeOK, Exists
<1>9. \A r \in Path : disk'[r] # 0 /\ disk'[r] # disk[r] =>
        \E k \in DOMAIN events : Arrival(events[k], r)
  BY <1>2, <1>3
<1>10. \A r \in Path : disk'[r] = 0 /\ disk[r] # 0 =>
        \E k \in DOMAIN events : Departure(events[k], r)
  BY <1>2, <1>4
<1>11. \A r \in Path : disk'[r] # 0 =>
         \A k \in DOMAIN events : Departure(events[k], r) =>
             \E l \in DOMAIN events : l > k /\ Arrival(events[l], r)
  <2> SUFFICES ASSUME NEW r \in Path, disk'[r] # 0, NEW k \in DOMAIN events,
                      Departure(events[k], r)
               PROVE  \E l \in DOMAIN events : l > k /\ Arrival(events[l], r)
    OBVIOUS
  <2>1. r = q /\ k < Len(events)
    BY <1>2, <1>6
  <2>2. Len(events) > k
    BY <2>1
  <2> QED BY <1>3, <2>1, <2>2
<1> QED BY <1>7, <1>8, <1>9, <1>10, <1>11, EditKeeps

\* The backend joins the two: the rename has the watcher to itself.
LEMMA PairKeeps ==
    ASSUME WatchInv, SoundInv', NEW p \in Path, NEW q \in Path, p # q,
           Edit(<<RawRename(p, q)>>), ~spoilt',
           q[1] \in dirs \cup {Root}, UNCHANGED dirs, Exists(p),
           disk' = [disk EXCEPT ![q] = disk[p], ![p] = 0]
    PROVE  GapFree'
<1> DEFINE events == <<RawRename(p, q)>>
<1>1. /\ SoundInv /\ GapFree /\ disk \in [Path -> 0 .. MaxEdits + 1]
      /\ raw \in Seq(RawEvent) /\ tracked \subseteq Path
  BY DEF WatchInv, SoundInv, TypeOK, Edit
<1>2. /\ events \in Seq(RawEvent) /\ DOMAIN events = {1} /\ events[1] = RawRename(p, q)
      /\ Len(events) = 1
  BY Singles, Records, Places
<1>3. /\ events[1].action = "rename" /\ events[1].item = q /\ events[1].old = p
  BY <1>2 DEF RawRename
<1>4. Quiet
  BY <1>1, <1>2, <1>3, Unhurried
<1>5. Untold = {} /\ Due = {} /\ sending = {} /\ raw = <<>>
  BY <1>4 DEF Quiet, Untold, Due
<1>6. \A r \in Open : told[r] = disk[r]
  BY <1>1, <1>5 DEF GapFree, Carried, Arrives, Leaves, WatchInv, Edit, Open
<1>7. raw' = events /\ UNCHANGED <<lost, told, tracked, running, blocked, sending>>
  BY <1>5 DEF Edit, peerVars, loopVars
<1>8. Untold' = {} /\ Due' = {} /\ sending' = {} /\ Timers' = Timers
  BY <1>5, <1>7, SameUntold
<1> HIDE DEF events
<1>9. /\ disk'[p] = 0 /\ disk'[q] = disk[p] /\ disk'[q] # 0
      /\ \A r \in Path \ {p, q} : disk'[r] = disk[r]
  BY <1>1 DEF Exists
<1>10. Midway(p, q)'
  BY <1>6, <1>7, <1>9 DEF Midway, Exists, Open
<1>11. Alone'
  BY <1>2, <1>3, <1>7, <1>8, <1>10 DEF Alone
<1>12. TreeOK'
  BY <1>1, <1>9 DEF GapFree, TreeOK, Exists
<1>13. KnowsTold'
  BY <1>1, <1>5, <1>7, <1>8 DEF GapFree, KnowsTold
<1>14. Departure(events[1], p) /\ Arrival(events[1], q)
       /\ \A r \in Path : Departure(events[1], r) => r = p
  BY <1>3 DEF Departure, Arrival
<1>15. KnowsGone'
  <2> SUFFICES ASSUME NEW r \in tracked, disk'[r] = 0
               PROVE  \E k \in DOMAIN raw' : Departure(raw'[k], r)
    BY <1>7 DEF KnowsGone, Exists
  <2>1. r # p => disk[r] = 0
    BY <1>1, <1>9
  <2>2. r # p => FALSE
    BY <1>1, <1>5, <2>1 DEF GapFree, KnowsGone, Exists
  <2> QED BY <1>2, <1>7, <1>14, <2>2
<1>16. LastIsArrival'
  BY <1>2, <1>7, <1>8, <1>9, <1>14 DEF LastIsArrival, Exists
<1>17. Carried'
  <2> SUFFICES ASSUME NEW r \in Open, told[r] # disk'[r]
               PROVE  IF disk'[r] # 0
                      THEN \E k \in DOMAIN raw' : Arrival(raw'[k], r)
                      ELSE \E k \in DOMAIN raw' : Departure(raw'[k], r)
    BY <1>7 DEF Carried, Exists, Arrives, Leaves, Open
  <2>1. r = p \/ r = q
    BY <1>6, <1>9 DEF Open
  <2> QED BY <1>2, <1>7, <1>9, <1>14, <2>1
<1>18. Orderly' /\ ~lost' /\ Rescan \notin sending'
  BY <1>1, <1>7, <1>8 DEF GapFree, Orderly
<1> QED BY <1>11, <1>12, <1>13, <1>15, <1>16, <1>17, <1>18 DEF GapFree

LEMMA MoveKeeps ==
    ASSUME WatchInv, SoundInv', NEW p \in Path, NEW q \in Path, UserRename(p, q), ~spoilt'
    PROVE  GapFree'
<1>1. /\ p # q /\ Exists(p) /\ q[1] \in dirs \cup {Root} /\ UNCHANGED dirs
      /\ disk' = [disk EXCEPT ![q] = disk[p], ![p] = 0]
  BY DEF UserRename
<1>2. PICK events \in RenameEvents(p, q) :
        Edit(events) \/ Edit(<<Raw("remove", q)>> \o events)
  BY DEF UserRename
<1> DEFINE gone == <<Raw("remove", q)>>
<1>3. /\ gone \in Seq(RawEvent) /\ Len(gone) = 1 /\ DOMAIN gone = {1}
      /\ gone[1] = Raw("remove", q)
  BY Singles, Records, Places
<1>4. CASE events = <<Raw("remove", p), Raw("create", q)>>
  <2>1. /\ events \in Seq(RawEvent) /\ Len(events) = 2
        /\ events[1] = Raw("remove", p) /\ events[2] = Raw("create", q)
        /\ DOMAIN events = {1, 2}
    BY <1>4, Singles, Records, Places
  <2>2. CASE Edit(events)
    <3>1. /\ Len(events) >= 1 /\ events[Len(events)] = Raw("create", q)
          /\ \E k \in DOMAIN events : events[k] = Raw("remove", p)
          /\ \A k \in DOMAIN events : k < Len(events) => events[k] = Raw("remove", p)
      BY <2>1
    <3>2. \A k \in DOMAIN events : k < Len(events) =>
            events[k] \in {Raw("remove", p), Raw("remove", q)}
      BY <3>1
    <3> QED BY <1>1, <2>1, <2>2, <3>1, <3>2, SplitKeeps
  <2>3. CASE Edit(gone \o events)
    <3> HIDE DEF gone
    <3>1. /\ gone \o events \in Seq(RawEvent) /\ Len(gone \o events) = 3
          /\ \A k \in DOMAIN events : k + 1 \in DOMAIN (gone \o events)
                                      /\ (gone \o events)[k + 1] = events[k]
          /\ (gone \o events)[1] = Raw("remove", q)
      <4>1. /\ gone \o events \in Seq(RawEvent)
            /\ Len(gone \o events) = Len(gone) + Len(events)
            /\ \A k \in DOMAIN gone : (gone \o events)[k] = gone[k]
            /\ \A k \in DOMAIN events : /\ k + Len(gone) \in DOMAIN (gone \o events)
                                        /\ (gone \o events)[k + Len(gone)] = events[k]
        <5>1. gone \in Seq(RawEvent) /\ events \in Seq(RawEvent)
          BY <1>3, <2>1
        <5> QED BY <5>1, JoinOf
      <4> QED BY <1>3, <2>1, <4>1
    <3>2. PICK all : all = gone \o events
      OBVIOUS
    <3>3. /\ all \in Seq(RawEvent) /\ Len(all) = 3
          /\ 2 \in DOMAIN all /\ all[1] = Raw("remove", q)
          /\ all[2] = Raw("remove", p) /\ all[3] = Raw("create", q)
      <4>1. /\ \A k \in {1, 2} : k + 1 \in DOMAIN all /\ all[k + 1] = events[k]
        BY <2>1, <3>1, <3>2
      <4>2. all[1 + 1] = events[1] /\ all[2 + 1] = events[2] /\ 1 + 1 \in DOMAIN all
        BY <4>1
      <4> QED BY <2>1, <3>1, <3>2, <4>2
    <3>4. \A k \in DOMAIN all : k < Len(all) => k = 1 \/ k = 2
      BY <3>3
    <3>5. Edit(all)
      BY <2>3, <3>2
    <3>6. /\ Len(all) >= 1 /\ all[Len(all)] = Raw("create", q)
          /\ \E k \in DOMAIN all : all[k] = Raw("remove", p)
      BY <3>3
    <3>7. \A k \in DOMAIN all : k < Len(all) =>
            all[k] \in {Raw("remove", p), Raw("remove", q)}
      BY <3>3, <3>4
    <3> QED BY <1>1, <3>3, <3>5, <3>6, <3>7, SplitKeeps
  <2> QED BY <1>2, <2>2, <2>3
<1>5. CASE events = <<RawRename(p, q)>>
  <2>1. CASE Edit(events)
    BY <1>1, <1>5, <2>1, PairKeeps
  <2>2. CASE Edit(gone \o events)
    <3>1. /\ events \in Seq(RawEvent) /\ Len(events) = 1 /\ DOMAIN events = {1}
          /\ events[1] = RawRename(p, q)
      BY <1>5, Singles, Records, Places
    <3> HIDE DEF gone
    <3>2. /\ gone \o events \in Seq(RawEvent)
          /\ Len(gone \o events) = Len(gone) + Len(events)
          /\ \A k \in DOMAIN events : /\ k + Len(gone) \in DOMAIN (gone \o events)
                                      /\ (gone \o events)[k + Len(gone)] = events[k]
      BY <1>3, <3>1, JoinOf
    <3>3. PICK all : all = gone \o events
      OBVIOUS
    <3>4. PICK k \in DOMAIN all : all[k] = RawRename(p, q)
      BY <1>3, <3>1, <3>2, <3>3
    <3>5. all \in Seq(RawEvent) /\ Len(all) = 2 /\ all[k].action = "rename"
      BY <1>3, <3>1, <3>2, <3>3, <3>4 DEF RawRename
    <3>6. SoundInv /\ Edit(all)
      BY <2>2, <3>3 DEF WatchInv
    <3>7. Len(all) = 1
      BY <3>5, <3>6, Unhurried
    <3>8. FALSE
      <4>1. 2 # 1 /\ Len(all) = 2
        BY <3>5
      <4> QED BY <3>7, <4>1, Zenon
    <3> QED BY <3>8
  <2> QED BY <1>2, <2>1, <2>2
<1> QED BY <1>4, <1>5 DEF RenameEvents

LEMMA MoveDirKeeps ==
    ASSUME WatchInv, SoundInv', NEW d \in Dir, NEW e \in Dir, RenameDir(d, e), ~spoilt'
    PROVE  GapFree'
<1>1. /\ d \in dirs /\ e \notin dirs /\ dirs' = (dirs \ {d}) \cup {e} /\ d # e
      /\ disk' = [p \in Path |-> IF p[1] = d THEN 0
                                 ELSE IF p[1] = e /\ Moved(p, d) \in Path
                                 THEN disk[Moved(p, d)] ELSE disk[p]]
  BY DEF RenameDir
<1>2. PICK events \in RenameEvents(d, e) : Edit(events)
  BY DEF RenameDir
<1>3. /\ SoundInv /\ GapFree /\ disk \in [Path -> 0 .. MaxEdits + 1]
  BY <1>2 DEF WatchInv, SoundInv, TypeOK, Edit
<1>4. CASE events = <<RawRename(d, e)>>
  <2>1. /\ events \in Seq(RawEvent) /\ 1 \in DOMAIN events
        /\ events[1].action = "rename" /\ events[1].item = e
    BY <1>4, Singles, Records, Places DEF RawRename
  <2>2. e \notin Dir
    BY <1>2, <1>3, <2>1, Unhurried
  <2> QED BY <2>2
<1>5. CASE events = <<Raw("remove", d), Raw("create", e)>>
  <2>1. /\ events \in Seq(RawEvent) /\ Len(events) = 2 /\ DOMAIN events = {1, 2}
        /\ events[1] = Raw("remove", d) /\ events[2] = Raw("create", e)
    BY <1>5, Singles, Records, Places
  <2>2. \A p \in Path : /\ p[1] = d => disk'[p] = 0
                        /\ p[1] \notin {d, e} => disk'[p] = disk[p]
                        /\ p[1] = e => disk[p] = 0
    <3> SUFFICES ASSUME NEW p \in Path
                 PROVE  /\ p[1] = d => disk'[p] = 0
                        /\ p[1] \notin {d, e} => disk'[p] = disk[p]
                        /\ p[1] = e => disk[p] = 0
      OBVIOUS
    <3>1. p[1] = e => disk[p] = 0
      BY <1>1, <1>3, Places DEF GapFree, TreeOK, Exists
    <3> QED BY <1>1, <3>1
  <2>3. \A p \in Path : /\ Departure(events[1], p) <=> p[1] = d
                        /\ Arrival(events[2], p) <=> p[1] = e
                        /\ ~Departure(events[2], p)
    BY <2>1, RawIs, Places DEF Departure, Arrival
  <2>4. TreeOK'
    BY <1>1, <1>3, <2>2 DEF GapFree, TreeOK, Exists
  <2>5. \A k \in DOMAIN events : events[k].action # "rename"
    BY <2>1, RawIs
  <2> QED BY <1>2, <2>1, <2>2, <2>3, <2>4, <2>5, EditKeeps
<1> QED BY <1>4, <1>5 DEF RenameEvents

LEMMA UserKeeps == WatchInv /\ SoundInv' /\ UserStep /\ ~spoilt' => GapFree'
BY WriteKeeps, RemoveKeeps, MoveKeeps, DirKeeps, MoveDirKeeps DEF UserStep

-----------------------------------------------------------------------------
\* The loop takes an event.

\* The event, what is left, and what nobody else disturbs.
Taken ==
    /\ SoundInv /\ GapFree /\ ~spoilt /\ ~spoilt' /\ SoundInv'
    /\ sending = {} /\ HandleEvent
    /\ UNCHANGED <<disk, dirs, told, lost>>

LEMMA TakenFacts ==
    ASSUME Taken
    PROVE  /\ Untold = Due /\ Due \subseteq Change
           /\ \A c \in Due : ChangeOK(c)
           /\ \A p : (\E k \in DOMAIN raw : Arrival(raw[k], p)) =>
                 \/ Arrival(Head(raw), p)
                 \/ \E k \in DOMAIN raw' : Arrival(raw'[k], p)
           /\ \A p : (\E k \in DOMAIN raw : Departure(raw[k], p)) =>
                 \/ Departure(Head(raw), p)
                 \/ \E k \in DOMAIN raw' : Departure(raw'[k], p)
           /\ \A p \in Path : Exists(p) =>
                 /\ Departure(Head(raw), p) => \E k \in DOMAIN raw' : Arrival(raw'[k], p)
                 /\ \A k \in DOMAIN raw' : Departure(raw'[k], p) =>
                       \E l \in DOMAIN raw' : l > k /\ Arrival(raw'[l], p)
           /\ Head(raw).action # "rename" =>
                 /\ \A c \in Due : c.kind # "renamed"
                 /\ \A k \in DOMAIN raw' : raw'[k].action # "rename"
<1> USE DEF Taken
<1> HIDE DEF Arrival, Departure
<1>1. /\ Head(raw) = raw[1] /\ 1 \in DOMAIN raw
      /\ Len(raw') = Len(raw) - 1 /\ Len(raw) \in Nat /\ raw' \in Seq(RawEvent)
      /\ \A k \in DOMAIN raw' : k + 1 \in DOMAIN raw /\ raw'[k] = raw[k + 1]
      /\ \A k \in DOMAIN raw : k # 1 => k - 1 \in DOMAIN raw' /\ raw'[k - 1] = raw[k]
      /\ \A k \in DOMAIN raw : k \in Nat /\ k >= 1
      /\ \A k \in DOMAIN raw' : k \in Nat
  <2>1. raw \in Seq(RawEvent)
    BY DEF SoundInv, TypeOK
  <2> QED BY <2>1, HeadOf
<1>2. Untold = Due
  BY DEF Untold
<1>3. Due \subseteq Change /\ \A c \in Due : ChangeOK(c)
  BY DueOK DEF Due
<1>4. \A p : /\ (\E k \in DOMAIN raw : Arrival(raw[k], p)) =>
                   \/ Arrival(Head(raw), p)
                   \/ \E k \in DOMAIN raw' : Arrival(raw'[k], p)
             /\ (\E k \in DOMAIN raw : Departure(raw[k], p)) =>
                   \/ Departure(Head(raw), p)
                   \/ \E k \in DOMAIN raw' : Departure(raw'[k], p)
  BY <1>1
<1>5. ASSUME NEW p \in Path, Exists(p), NEW k \in DOMAIN raw, Departure(raw[k], p)
      PROVE  \E l \in DOMAIN raw' : l + 1 > k /\ Arrival(raw'[l], p)
  <2>1. PICK l \in DOMAIN raw : l > k /\ Arrival(raw[l], p)
    BY <1>5 DEF GapFree, LastIsArrival
  <2>2. l # 1 /\ l \in Nat /\ (l - 1) + 1 = l
    BY <1>1, <2>1
  <2>3. l - 1 \in DOMAIN raw' /\ raw'[l - 1] = raw[l]
    BY <1>1, <2>2
  <2> QED BY <2>1, <2>2, <2>3
<1>6. ASSUME NEW p \in Path, Exists(p), Departure(Head(raw), p)
      PROVE  \E k \in DOMAIN raw' : Arrival(raw'[k], p)
  BY <1>1, <1>5, <1>6
<1>7. ASSUME NEW p \in Path, Exists(p), NEW k \in DOMAIN raw', Departure(raw'[k], p)
      PROVE  \E l \in DOMAIN raw' : l > k /\ Arrival(raw'[l], p)
  <2>1. k + 1 \in DOMAIN raw /\ Departure(raw[k + 1], p) /\ k \in Nat
    BY <1>1, <1>7
  <2>2. PICK l \in DOMAIN raw' : l + 1 > k + 1 /\ Arrival(raw'[l], p)
    BY <1>5, <1>7, <2>1
  <2>3. l \in Nat
    BY <1>1
  <2> QED BY <2>1, <2>2, <2>3
<1>8. ASSUME Head(raw).action # "rename"
      PROVE  /\ \A c \in Due : c.kind # "renamed"
             /\ \A k \in DOMAIN raw' : raw'[k].action # "rename"
  <2>1. \A c \in Due : c.kind # "renamed"
    BY <1>1, <1>2 DEF GapFree, Alone
  <2>2. ASSUME NEW k \in DOMAIN raw, raw[k].action = "rename" PROVE FALSE
    <3>1. Len(raw) = 1
      BY <2>2 DEF GapFree, Alone
    <3>2. k = 1
      BY <3>1, <1>1 DEF SoundInv, TypeOK
    <3> QED BY <1>1, <1>8, <2>2, <3>2
  <2> QED BY <1>1, <2>1, <2>2
<1> QED BY <1>2, <1>3, <1>4, <1>6, <1>7, <1>8

\* What is left to show of an event that is no rename.
LEMMA TakenKeeps ==
    ASSUME Taken, Head(raw).action # "rename", Orderly',
           \A c \in Untold' : c \in Change /\ c.kind # "renamed",
           KnowsTold', KnowsGone', Carried',
           \A p \in Path : Exists(p) /\ Removed(p) \in Untold' =>
               \E k \in DOMAIN raw' : Arrival(raw'[k], p)
    PROVE  GapFree'
<1>1. ~lost' /\ Rescan \notin sending' /\ TreeOK'
  BY Records DEF Taken, GapFree, TreeOK, Exists, Untold
<1>2. Alone'
  BY TakenFacts DEF Alone
<1>3. LastIsArrival'
  BY TakenFacts DEF LastIsArrival, Taken, Exists
<1> QED BY <1>1, <1>2, <1>3 DEF GapFree

\* Of a file that is written, or that arrived.
LEMMA WriteTold ==
    ASSUME Taken, NEW i \in Path, Head(raw).item = i,
           Head(raw).action \in {"create", "modify"}, HandleWrite(i)
    PROVE  GapFree'
<1>1. /\ Untold = Due /\ Due \subseteq Change /\ \A c \in Due : ChangeOK(c)
      /\ \A c \in Due : c.kind # "renamed"
  BY TakenFacts
<1>2. \A p \in Path : /\ ~Departure(Head(raw), p)
                      /\ Arrival(Head(raw), p) <=> p = i
  BY Places DEF Departure, Arrival
<1>3. /\ disk' = disk /\ told' = told /\ tracked \subseteq Open /\ Orderly
      /\ KnowsTold /\ KnowsGone /\ LastIsArrival /\ Carried /\ sending = {} /\ ~spoilt
  BY DEF Taken, GapFree, SoundInv, TypeOK, Open
<1>4. CASE i \in Open /\ Exists(i)
  <2>1. /\ tracked' = tracked \cup {i} /\ Schedule({Modified(i)}) /\ sending' = {}
    BY <1>3, <1>4 DEF HandleWrite, Open
  <2>2. {Modified(i)} \in SUBSET Change
    BY Records, Places
  <2>3. /\ Orderly'
        /\ Due' = {Modified(i)} \cup {c \in Due : \A e \in {Modified(i)} : ~SameKey(c, e)}
    BY <1>3, <2>1, <2>2, ScheduledOrderly DEF Taken
  <2>4. Modified(i) \in Change /\ Modified(i).kind = "modified" /\ Modified(i).item = i
    BY <2>2 DEF Modified
  <2>5. /\ Untold' = Due' /\ Modified(i) \in Due'
        /\ \A c \in Due' : c = Modified(i) \/ (c \in Due /\ c.item # i)
        /\ \A c \in Due : c.item # i => c \in Due'
    BY <1>1, <2>1, <2>3, <2>4 DEF Untold, SameKey
  <2>6. \A c \in Due' : c \in Change /\ c.kind # "renamed"
    BY <1>1, <2>4, <2>5
  <2>7. KnowsTold'
    <3>1. \A p \in Path : Removed(p).item = p
      BY DEF Removed
    <3> QED BY <1>1, <1>3, <2>1, <2>4, <2>5, <2>6, <3>1 DEF KnowsTold, Open
  <2>8. \A p \in Open \ {i} : \A c \in Due :
           /\ Brings(c, p) => c \in Due'
           /\ Drops(c, p) => c \in Due'
    BY <1>1, <2>5 DEF Brings, Drops
  <2>9. KnowsGone'
    <3> SUFFICES ASSUME NEW p \in tracked', ~Exists(p)
                 PROVE  \/ \E c \in Due' : Drops(c, p)
                        \/ \E k \in DOMAIN raw' : Departure(raw'[k], p)
      BY <1>3 DEF KnowsGone, Exists
    <3>1. p # i /\ p \in tracked /\ p \in Open
      BY <1>3, <1>4, <2>1
    <3>2. \/ \E c \in Due : Drops(c, p)
          \/ \E k \in DOMAIN raw : Departure(raw[k], p)
      BY <1>3, <3>1 DEF KnowsGone
    <3> QED BY <1>2, <2>8, <3>1, <3>2, TakenFacts DEF Open
  <2>10. ASSUME NEW p \in Path, Exists(p), Removed(p) \in Untold'
         PROVE  \E k \in DOMAIN raw' : Arrival(raw'[k], p)
    <3>1. Removed(p) \in Due /\ p # i
      BY <2>5, <2>4, <2>10 DEF Removed, Modified
    <3>2. \E k \in DOMAIN raw : Arrival(raw[k], p)
      BY <1>1, <1>3, <2>10, <3>1 DEF LastIsArrival
    <3> QED BY <1>2, <3>1, <3>2, TakenFacts
  <2>11. Carried'
    <3> SUFFICES ASSUME NEW p \in Open, told[p] # disk[p]
                 PROVE  IF Exists(p)
                        THEN \/ \E c \in Due' : Brings(c, p)
                             \/ \E k \in DOMAIN raw' : Arrival(raw'[k], p)
                        ELSE \/ \E c \in Due' : Drops(c, p)
                             \/ \E k \in DOMAIN raw' : Departure(raw'[k], p)
      BY <1>3, <2>5 DEF Carried, Exists, Arrives, Leaves, Open
    <3>1. CASE p = i
      BY <1>4, <2>4, <2>5, <3>1 DEF Brings
    <3>2. CASE p # i
      <4>1. IF Exists(p) THEN Arrives(p) ELSE Leaves(p)
        BY <1>3 DEF Carried, Open
      <4> QED BY <1>1, <1>2, <2>8, <3>2, <4>1, TakenFacts DEF Arrives, Leaves, Open
    <3> QED BY <3>1, <3>2
  <2> QED BY <1>1, <2>3, <2>5, <2>6, <2>7, <2>9, <2>10, <2>11, TakenKeeps
<1>5. CASE ~(i \in Open /\ Exists(i))
  <2>1. UNCHANGED <<tracked, running, blocked, sending, spoilt>>
    BY <1>5 DEF HandleWrite, Ignores, NoTimer, Open
  <2>2. Due' = Due /\ Untold' = Due /\ sending' = {} /\ Timers' = Timers
    BY <1>1, <1>3, <2>1, SameUntold
  <2>3. Orderly' /\ KnowsTold'
    BY <1>3, <2>1, <2>2, <1>1 DEF Orderly, KnowsTold
  <2>4. KnowsGone'
    <3> SUFFICES ASSUME NEW p \in tracked, ~Exists(p)
                 PROVE  \/ \E c \in Due : Drops(c, p)
                        \/ \E k \in DOMAIN raw' : Departure(raw'[k], p)
      BY <1>3, <2>1, <2>2 DEF KnowsGone, Exists
    <3> QED BY <1>2, <1>3, TakenFacts DEF KnowsGone, Open
  <2>5. ASSUME NEW p \in Path, Exists(p), Removed(p) \in Untold'
        PROVE  \E k \in DOMAIN raw' : Arrival(raw'[k], p)
    <3>1. p \in Open
      <4>1. Removed(p) \in Due /\ ChangeOK(Removed(p))
        BY <1>1, <2>2, <2>5
      <4> QED BY <4>1 DEF ChangeOK, Removed, Open
    <3>2. p # i
      BY <1>5, <2>5, <3>1
    <3> QED BY <1>1, <1>2, <1>3, <2>2, <2>5, <3>2, TakenFacts DEF LastIsArrival
  <2>6. Carried'
    <3> SUFFICES ASSUME NEW p \in Open, told[p] # disk[p]
                 PROVE  IF Exists(p)
                        THEN \/ \E c \in Due : Brings(c, p)
                             \/ \E k \in DOMAIN raw' : Arrival(raw'[k], p)
                        ELSE \/ \E c \in Due : Drops(c, p)
                             \/ \E k \in DOMAIN raw' : Departure(raw'[k], p)
      BY <1>3, <2>2 DEF Carried, Exists, Arrives, Leaves, Open
    <3>1. IF Exists(p) THEN Arrives(p) ELSE Leaves(p)
      BY <1>3 DEF Carried, Open
    <3>2. Exists(p) => p # i
      BY <1>5
    <3> QED BY <1>1, <1>2, <3>1, <3>2, TakenFacts DEF Arrives, Leaves, Open
  <2> QED BY <1>1, <2>2, <2>3, <2>4, <2>5, <2>6, TakenKeeps
<1> QED BY <1>4, <1>5

\* Of a directory that is gone again.
LEMMA GoneDirTold ==
    ASSUME Taken, NEW d \in Dir, Head(raw).item = d, Head(raw).action = "create",
           d \notin dirs, HandleCreate(d)
    PROVE  GapFree'
<1>1. /\ Untold = Due /\ Due \subseteq Change
      /\ \A c \in Due : c.kind # "renamed"
  BY TakenFacts
<1>2. /\ disk' = disk /\ told' = told /\ tracked \subseteq Path /\ sending = {}
      /\ GapFree
  BY DEF Taken, SoundInv, TypeOK
<1>3. \A p \in Path : /\ ~Departure(Head(raw), p)
                      /\ Exists(p) => ~Arrival(Head(raw), p)
  BY <1>2, Places DEF Departure, Arrival, GapFree, TreeOK
<1>4. UNCHANGED <<tracked, running, blocked, sending, spoilt>>
  BY Places DEF HandleCreate, HandleWrite, Ignores, NoTimer
<1>5. Due' = Due /\ Untold' = Due /\ sending' = {} /\ Timers' = Timers
  BY <1>1, <1>2, <1>4, SameUntold
<1>6. Orderly' /\ KnowsTold'
  BY <1>1, <1>2, <1>4, <1>5 DEF GapFree, Orderly, KnowsTold
<1>7. KnowsGone'
  <2> SUFFICES ASSUME NEW p \in tracked, ~Exists(p)
               PROVE  \/ \E c \in Due : Drops(c, p)
                      \/ \E k \in DOMAIN raw' : Departure(raw'[k], p)
    BY <1>2, <1>4, <1>5 DEF KnowsGone, Exists
  <2> QED BY <1>2, <1>3, TakenFacts DEF GapFree, KnowsGone
<1>8. ASSUME NEW p \in Path, Exists(p), Removed(p) \in Untold'
      PROVE  \E k \in DOMAIN raw' : Arrival(raw'[k], p)
  BY <1>1, <1>2, <1>3, <1>5, <1>8, TakenFacts DEF GapFree, LastIsArrival
<1>9. Carried'
  <2> SUFFICES ASSUME NEW p \in Open, told[p] # disk[p]
               PROVE  IF Exists(p)
                      THEN \/ \E c \in Due : Brings(c, p)
                           \/ \E k \in DOMAIN raw' : Arrival(raw'[k], p)
                      ELSE \/ \E c \in Due : Drops(c, p)
                           \/ \E k \in DOMAIN raw' : Departure(raw'[k], p)
    BY <1>2, <1>5 DEF Carried, Exists, Arrives, Leaves, Open
  <2>1. IF Exists(p) THEN Arrives(p) ELSE Leaves(p)
    BY <1>2 DEF GapFree, Carried, Taken, Open
  <2> QED BY <1>1, <1>3, <2>1, TakenFacts DEF Arrives, Leaves, Open
<1> QED BY <1>1, <1>5, <1>6, <1>7, <1>8, <1>9, TakenKeeps

\* Of a directory: its files are told at once.
LEMMA DirTold ==
    ASSUME Taken, NEW d \in Dir, Head(raw).item = d, Head(raw).action = "create",
           d \in dirs, HandleCreate(d)
    PROVE  GapFree'
<1>1. /\ Untold = Due /\ Due \subseteq Change
      /\ \A c \in Due : c.kind # "renamed"
  BY TakenFacts
<1>2. /\ disk' = disk /\ told' = told /\ tracked \subseteq Open /\ sending = {}
      /\ GapFree /\ SoundInv
  BY DEF Taken, SoundInv, TypeOK, Open
<1>3. \A p \in Path : /\ ~Departure(Head(raw), p)
                      /\ Arrival(Head(raw), p) <=> p[1] = d
  BY Places DEF Departure, Arrival
<1>4. /\ tracked' = tracked \cup {p \in In(d) \ Ignored : Exists(p)}
      /\ sending' = {Modified(p) : p \in tracked' \cap In(d)}
      /\ \A p \in In(d) : Removed(p) \notin Due
      /\ UNCHANGED <<running, blocked>>
  BY DEF HandleCreate, Taken
<1>5. Due' = Due /\ Timers' = Timers /\ Untold' = sending' \cup Due
  BY <1>4 DEF Due, Timers, Untold
<1>6. /\ \A c \in sending' : /\ c \in Change /\ c.kind = "modified"
                             /\ c.item \in tracked' /\ c.item \in In(d)
      /\ \A p \in Path : Exists(p) /\ p \in Open /\ p[1] = d => Modified(p) \in sending'
  <2>1. tracked' \subseteq Path
    BY <1>2, <1>4 DEF In, Open
  <2>2. \A p \in Path : Modified(p).kind = "modified" /\ Modified(p).item = p
                        /\ Modified(p) \in Change
    BY Records, Places DEF Modified
  <2> QED BY <1>4, <2>1, <2>2 DEF In, Open
<1>7. \A c \in Untold' : c \in Change /\ c.kind # "renamed"
  BY <1>1, <1>5, <1>6
<1>8. Orderly'
  BY <1>2, <1>4, <1>5 DEF GapFree, Orderly
<1>9. KnowsTold'
  BY <1>1, <1>2, <1>4, <1>5, <1>6 DEF GapFree, KnowsTold
<1>10. KnowsGone'
  <2> SUFFICES ASSUME NEW p \in tracked, ~Exists(p)
               PROVE  \/ \E c \in Due : Drops(c, p)
                      \/ \E k \in DOMAIN raw' : Departure(raw'[k], p)
    BY <1>2, <1>4, <1>5 DEF KnowsGone, Exists
  <2> QED BY <1>2, <1>3, TakenFacts DEF GapFree, KnowsGone, Open
<1>11. ASSUME NEW p \in Path, Exists(p), Removed(p) \in Untold'
       PROVE  \E k \in DOMAIN raw' : Arrival(raw'[k], p)
  <2>1. Removed(p) \in Due
    BY <1>5, <1>6, <1>11 DEF Removed
  <2>2. p[1] # d
    BY <1>4, <2>1 DEF In
  <2> QED BY <1>1, <1>2, <1>3, <1>11, <2>1, <2>2, TakenFacts DEF GapFree, LastIsArrival
<1>12. Carried'
  <2> SUFFICES ASSUME NEW p \in Open, told[p] # disk[p]
               PROVE  IF Exists(p)
                      THEN \/ \E c \in Untold' : Brings(c, p)
                           \/ \E k \in DOMAIN raw' : Arrival(raw'[k], p)
                      ELSE \/ \E c \in Untold' : Drops(c, p)
                           \/ \E k \in DOMAIN raw' : Departure(raw'[k], p)
    BY <1>2 DEF Carried, Exists, Arrives, Leaves, Open
  <2>1. IF Exists(p) THEN Arrives(p) ELSE Leaves(p)
    BY <1>2 DEF GapFree, Carried, Taken, Open
  <2>2. CASE Exists(p) /\ p[1] = d
    <3>1. Modified(p) \in Untold' /\ Brings(Modified(p), p)
      BY <1>5, <1>6, <2>2 DEF Brings, Modified, Open
    <3> QED BY <2>2, <3>1
  <2>3. CASE ~(Exists(p) /\ p[1] = d)
    BY <1>1, <1>3, <1>5, <2>1, <2>3, TakenFacts DEF Arrives, Leaves, Open
  <2> QED BY <2>2, <2>3
<1> QED BY <1>7, <1>8, <1>9, <1>10, <1>11, <1>12, TakenKeeps

\* Of what went: a file, or the files of a directory.
LEMMA RemovalTold ==
    ASSUME Taken, NEW i \in Item, Head(raw).item = i, Head(raw).action = "remove",
           HandleRemove(i)
    PROVE  GapFree'
<1> DEFINE gone == tracked \cap (In(i) \cup {i})
           changes == {Removed(p) : p \in gone}
<1>1. /\ Untold = Due /\ Due \subseteq Change
      /\ \A c \in Due : c.kind # "renamed" /\ ChangeOK(c)
  BY TakenFacts DEF Taken
<1>2. /\ disk' = disk /\ told' = told /\ tracked \subseteq Open /\ sending = {}
      /\ GapFree /\ SoundInv /\ ~spoilt /\ ~spoilt'
  BY DEF Taken, SoundInv, TypeOK, Open
<1>3. gone \subseteq Path /\ \A p \in Path : Departure(Head(raw), p) <=> p \in In(i) \cup {i}
  BY <1>2 DEF Departure, In, Open
<1>4. \A p : ~Arrival(Head(raw), p)
  BY DEF Arrival
<1>5. /\ tracked' = IF i \in Dir THEN tracked \ In(i) ELSE tracked
      /\ Schedule(changes) /\ sending' = {}
  BY <1>2 DEF HandleRemove
<1>6. \A p \in Path : /\ Removed(p) \in Change /\ Removed(p).kind = "removed"
                      /\ Removed(p).item = p
  BY Records, Places DEF Removed
<1> HIDE DEF gone
<1>7. /\ changes \in SUBSET Change /\ \A c, e \in changes : SameKey(c, e) => c = e
      /\ \A c \in changes : c.kind = "removed" /\ c.item \in gone
      /\ \A p \in gone : Removed(p) \in changes
  BY <1>3, <1>6 DEF SameKey
<1> HIDE DEF changes
<1>8. /\ Orderly'
      /\ Due' = changes \cup {c \in Due : \A e \in changes : ~SameKey(c, e)}
  BY <1>2, <1>5, <1>7, ScheduledOrderly DEF GapFree
<1>9. /\ Untold' = Due' /\ Timers' = Timers'
      /\ \A c \in Due' : c \in changes \/ (c \in Due /\ c.item \notin gone)
      /\ \A c \in Due : c.item \notin gone => c \in Due'
      /\ \A p \in gone : Removed(p) \in Due'
      /\ \A c \in Due' : c \in Change /\ c.kind # "renamed"
  <2>1. Untold' = Due'
    BY <1>5 DEF Untold
  <2>2. ASSUME NEW c \in Due, \A e \in changes : ~SameKey(c, e) PROVE c.item \notin gone
    BY <1>1, <1>3, <1>6, <1>7, <2>2 DEF SameKey
  <2>3. ASSUME NEW c \in Due, c.item \notin gone, NEW e \in changes PROVE ~SameKey(c, e)
    BY <1>7, <2>3 DEF SameKey
  <2> QED BY <1>1, <1>7, <1>8, <2>1, <2>2, <2>3
<1>10. \A p \in Path : Removed(p) \in Due => Removed(p) \in Due'
  BY <1>6, <1>9
<1>11. KnowsTold'
  <2>1. ASSUME NEW c \in Due', c.kind = "modified" PROVE c.item \in tracked'
    <3>1. c \in Due /\ c.item \notin gone
      BY <1>7, <1>9, <2>1
    <3>2. c.item \in tracked
      BY <1>1, <1>2, <2>1, <3>1 DEF GapFree, KnowsTold
    <3> QED BY <1>5, <3>1, <3>2 DEF gone
  <2>2. ASSUME NEW p \in Open, told[p] # 0, p \notin tracked' PROVE Removed(p) \in Due'
    <3>1. CASE p \in tracked
      BY <1>5, <1>9, <2>2, <3>1 DEF gone
    <3>2. CASE p \notin tracked
      BY <1>1, <1>2, <1>10, <2>2, <3>2 DEF GapFree, KnowsTold, Open
    <3> QED BY <3>1, <3>2
  <2> QED BY <1>2, <1>5, <1>9, <2>1, <2>2 DEF KnowsTold
<1>12. \A p \in gone : Drops(Removed(p), p)
  BY <1>3, <1>6 DEF Drops
<1>13. ASSUME NEW p \in Path, NEW c \in Due, Drops(c, p) PROVE \E e \in Due' : Drops(e, p)
  <2>1. c.item = p
    BY <1>1, <1>13 DEF Drops
  <2> QED BY <1>9, <1>12, <1>13, <2>1
<1>14. KnowsGone'
  <2> SUFFICES ASSUME NEW p \in tracked', ~Exists(p)
               PROVE  \/ \E c \in Due' : Drops(c, p)
                      \/ \E k \in DOMAIN raw' : Departure(raw'[k], p)
    BY <1>2 DEF KnowsGone, Exists
  <2>1. p \in tracked /\ p \in Path
    BY <1>2, <1>5 DEF Open
  <2>2. p \notin gone => ~Departure(Head(raw), p)
    BY <1>3, <2>1 DEF gone
  <2> QED BY <1>2, <1>9, <1>12, <1>13, <2>1, <2>2, TakenFacts DEF GapFree, KnowsGone
<1>15. ASSUME NEW p \in Path, Exists(p), Removed(p) \in Untold'
       PROVE  \E k \in DOMAIN raw' : Arrival(raw'[k], p)
  <2>1. CASE p \in gone
    BY <1>3, <1>15, <2>1, TakenFacts DEF gone
  <2>2. CASE p \notin gone
    <3>1. Removed(p) \in Due
      BY <1>6, <1>7, <1>9, <1>15, <2>2
    <3> QED BY <1>1, <1>2, <1>4, <1>15, <3>1, TakenFacts DEF GapFree, LastIsArrival
  <2> QED BY <2>1, <2>2
<1>16. Carried'
  <2> SUFFICES ASSUME NEW p \in Open, told[p] # disk[p]
               PROVE  IF Exists(p)
                      THEN \/ \E c \in Due' : Brings(c, p)
                           \/ \E k \in DOMAIN raw' : Arrival(raw'[k], p)
                      ELSE \/ \E c \in Due' : Drops(c, p)
                           \/ \E k \in DOMAIN raw' : Departure(raw'[k], p)
    BY <1>2, <1>9 DEF Carried, Exists, Arrives, Leaves, Open
  <2>0. p \in Path
    BY DEF Open
  <2>1. IF Exists(p) THEN Arrives(p) ELSE Leaves(p)
    BY <1>2 DEF GapFree, Carried, Open
  <2>2. CASE Exists(p) /\ p \in gone
    BY <1>3, <2>0, <2>2, TakenFacts DEF gone
  <2>3. CASE Exists(p) /\ p \notin gone
    <3>1. \A c \in Due : Brings(c, p) => c \in Due'
      BY <1>9, <2>3 DEF Brings
    <3> QED BY <1>1, <1>4, <2>1, <2>3, <3>1, TakenFacts DEF Arrives
  <2>4. CASE ~Exists(p)
    <3>1. CASE Departure(Head(raw), p)
      <4>1. told[p] # 0
        BY <2>4 DEF Exists
      <4>2. p \in tracked => p \in gone
        BY <1>3, <2>0, <3>1 DEF gone
      <4>3. p \notin tracked => Removed(p) \in Due
        BY <1>1, <1>2, <4>1 DEF GapFree, KnowsTold
      <4>4. Removed(p) \in Due' /\ Drops(Removed(p), p)
        BY <1>6, <1>9, <1>10, <2>0, <4>2, <4>3 DEF Drops
      <4> QED BY <2>4, <4>4
    <3>2. CASE ~Departure(Head(raw), p)
      BY <1>1, <1>13, <2>0, <2>1, <2>4, <3>2, TakenFacts DEF Leaves
    <3> QED BY <3>1, <3>2
  <2> QED BY <2>2, <2>3, <2>4
<1> QED BY <1>8, <1>9, <1>11, <1>14, <1>15, <1>16, TakenKeeps

\* Of a rename, which finds nothing else on its way.
LEMMA RenameTold ==
    ASSUME Taken, NEW i \in Item, NEW j \in Item, Head(raw).action = "rename",
           Head(raw).old = i, Head(raw).item = j, HandleRename(i, j)
    PROVE  GapFree'
<1>1. /\ SoundInv /\ GapFree /\ SoundInv' /\ ~spoilt /\ ~spoilt'
      /\ disk' = disk /\ told' = told /\ dirs' = dirs /\ tracked \subseteq Open
      /\ Open \subseteq Path /\ ~lost'
  BY DEF Taken, SoundInv, TypeOK, Open, GapFree
<1>2. /\ Len(raw) = 1 /\ Untold = {} /\ Midway(i, j)
      /\ raw' \in Seq(RawEvent) /\ Len(raw') = Len(raw) - 1
  <2>1. HandleEvent
    BY DEF Taken
  <2> QED BY <1>1, <2>1, HeadOf DEF GapFree, Alone
<1>3. Due = {} /\ sending = {} /\ DOMAIN raw' = {} /\ raw' = <<>>
  BY <1>2 DEF Untold
<1>4. /\ i \in Path /\ j \in Path /\ i # j /\ ~Exists(i) /\ Exists(j)
      /\ i \in Open => told[i] = disk[j]
      /\ \A p \in Open \ {i, j} : told[p] = disk[p]
  BY <1>2 DEF Midway
<1>5. i \in Open => i \in tracked /\ told[i] # 0
  BY <1>1, <1>2, <1>3, <1>4 DEF GapFree, KnowsTold, Exists
<1>6. \A p \in Open : told[p] # 0 => p \in tracked
  BY <1>1, <1>2, <1>3 DEF GapFree, KnowsTold
<1>7. \A p \in tracked : ~Exists(p) => p = i
  <2> SUFFICES ASSUME NEW p \in tracked, ~Exists(p) PROVE p = i
    OBVIOUS
  <2>1. PICK k \in DOMAIN raw : Departure(raw[k], p)
    BY <1>1, <1>3 DEF GapFree, KnowsGone
  <2>2. raw[k] = Head(raw)
    BY <1>1, <1>2 DEF SoundInv, TypeOK
  <2> QED BY <2>1, <2>2 DEF Departure
<1>8. Orderly /\ TreeOK'
  BY <1>1 DEF GapFree, TreeOK, Exists
\* What is left to show.
<1>9. ASSUME Orderly', \A c \in Untold' : c.kind \in {"modified", "removed"} /\ ChangeOK(c),
             KnowsTold',
             \A p \in tracked' : ~Exists(p) => Removed(p) \in Due',
             \A p \in Path : Removed(p) \in Untold' => ~Exists(p),
             \A p \in Open : told[p] # disk[p] =>
                IF Exists(p) THEN Modified(p) \in Untold' ELSE Removed(p) \in Untold'
      PROVE  GapFree'
  <2>1. Rescan \notin sending'
    BY <1>9 DEF Rescan, Untold
  <2>2. \A p : Drops(Removed(p), p) /\ Brings(Modified(p), p)
    BY DEF Drops, Brings, Removed, Modified
  <2>3. KnowsGone'
    BY <1>1, <1>9, <2>2 DEF KnowsGone, Exists
  <2>4. LastIsArrival'
    BY <1>1, <1>3, <1>9 DEF LastIsArrival, Exists
  <2>5. Alone'
    BY <1>3, <1>9 DEF Alone
  <2>6. Carried'
    BY <1>1, <1>9, <2>2 DEF Carried, Exists, Arrives, Leaves, Open
  <2> QED BY <1>1, <1>8, <1>9, <2>1, <2>3, <2>4, <2>5, <2>6 DEF GapFree
<1>10. CASE i \in Ignored /\ j \in Ignored
  <2>1. UNCHANGED <<running, blocked, sending, tracked, spoilt>>
    BY <1>10 DEF HandleRename, Ignores, NoTimer
  <2>2. Untold' = {} /\ Due' = {} /\ Timers' = Timers /\ sending' = {}
    BY <1>2, <1>3, <2>1, SameUntold
  <2>3. i \notin tracked /\ i \notin Open /\ j \notin Open
    BY <1>1, <1>10 DEF Open
  <2>4. Orderly'
    BY <1>8, <2>1, <2>2 DEF Orderly
  <2>5. KnowsTold'
    BY <1>1, <1>6, <2>1, <2>2 DEF KnowsTold
  <2> QED BY <1>4, <1>7, <1>9, <2>1, <2>2, <2>3, <2>4, <2>5
<1>11. CASE i \in Ignored /\ j \notin Ignored
  <2>1. i \notin tracked /\ i \notin Open /\ j \in Open
    BY <1>1, <1>4, <1>11 DEF Open
  <2>2. j \notin dirs
    BY <1>1, <1>4, Places DEF SoundInv, TypeOK
  <2>3. /\ tracked' = tracked \cup {j} /\ Schedule({Modified(j)}) /\ sending' = {}
    BY <1>3, <1>4, <1>11, <2>1, <2>2 DEF HandleRename, HandleCreate, HandleWrite, Open
  <2>4. {Modified(j)} \in SUBSET Change /\ ChangeOK(Modified(j))
        /\ Modified(j).kind = "modified" /\ Modified(j).item = j
    BY <1>4, <2>1, Records, Places DEF ChangeOK, Modified, Open
  <2>5. Orderly' /\ Due' = {Modified(j)} /\ Untold' = {Modified(j)}
    <3>1. Orderly' /\ Due' = {Modified(j)}
      BY <1>1, <1>3, <1>8, <2>3, <2>4, ScheduledOrderly
    <3> QED BY <2>3, <3>1 DEF Untold
  <2>6. KnowsTold'
    BY <1>1, <1>6, <2>3, <2>4, <2>5 DEF KnowsTold
  <2>7. \A p : Removed(p) # Modified(j)
    BY DEF Removed, Modified
  <2> QED BY <1>4, <1>7, <1>9, <2>1, <2>3, <2>4, <2>5, <2>6, <2>7
<1>12. CASE i \notin Ignored /\ j \in Ignored
  <2>1. i \in Open /\ j \notin Open /\ i \in tracked
    BY <1>4, <1>5, <1>12 DEF Open
  <2>2. In(i) = {} /\ i \notin Dir
    BY <1>4, Places
  <2>3. tracked \cap (In(i) \cup {i}) = {i}
    BY <2>1, <2>2
  <2>4. {Removed(p) : p \in {i}} = {Removed(i)}
    OBVIOUS
  <2>5. tracked' = tracked /\ Schedule({Removed(i)}) /\ sending' = {}
    <3>1. HandleRemove(i)
      BY <1>12 DEF HandleRename
    <3> QED BY <1>3, <2>2, <2>3, <2>4, <3>1 DEF HandleRemove
  <2>6. {Removed(i)} \in SUBSET Change /\ ChangeOK(Removed(i))
        /\ Removed(i).kind = "removed" /\ Removed(i).item = i
    BY <1>4, <2>1, Records, Places DEF ChangeOK, Removed, Open
  <2>7. Orderly' /\ Due' = {Removed(i)} /\ Untold' = {Removed(i)}
    <3>1. Orderly' /\ Due' = {Removed(i)}
      BY <1>1, <1>3, <1>8, <2>5, <2>6, ScheduledOrderly
    <3> QED BY <2>5, <3>1 DEF Untold
  <2>8. KnowsTold'
    BY <1>1, <1>6, <2>5, <2>6, <2>7 DEF KnowsTold
  <2>9. \A p : Removed(p) = Removed(i) => p = i
    BY DEF Removed
  <2> QED BY <1>4, <1>7, <1>9, <2>1, <2>5, <2>6, <2>7, <2>8, <2>9
<1>13. CASE i \notin Ignored /\ j \notin Ignored
  <2>1. i \in Open /\ j \in Open /\ i \in tracked
    BY <1>4, <1>5, <1>13 DEF Open
  <2>2. tracked' = tracked /\ Schedule({Renamed(i, j)}) /\ sending' = {}
    BY <1>3, <1>13 DEF HandleRename
  <2>3. /\ {Renamed(i, j)} \in SUBSET Change /\ Renamed(i, j).kind = "renamed"
        /\ Renamed(i, j).item = j /\ Renamed(i, j).old = i
    BY <1>4, Records, Places DEF Renamed
  <2>4. Orderly' /\ Due' = {Renamed(i, j)} /\ Untold' = {Renamed(i, j)}
    <3>1. Orderly' /\ Due' = {Renamed(i, j)}
      BY <1>1, <1>3, <1>8, <2>2, <2>3, ScheduledOrderly
    <3> QED BY <2>2, <3>1 DEF Untold
  <2>5. Rescan \notin sending'
    BY <2>2
  <2>6. KnowsTold'
    BY <1>1, <1>6, <2>2, <2>3, <2>4 DEF KnowsTold
  <2>7. Drops(Renamed(i, j), i) /\ Brings(Renamed(i, j), j)
    BY <2>3 DEF Drops, Brings
  <2>8. KnowsGone'
    BY <1>1, <1>7, <2>2, <2>4, <2>7 DEF KnowsGone, Exists
  <2>9. LastIsArrival'
    <3>1. \A p : Removed(p) # Renamed(i, j)
      BY DEF Removed, Renamed
    <3> QED BY <1>3, <2>4, <3>1 DEF LastIsArrival
  <2>10. Midway(i, j)'
    BY <1>1, <1>4 DEF Midway, Exists, Open
  <2>11. Alone'
    BY <1>3, <2>2, <2>3, <2>4, <2>10 DEF Alone
  <2>12. Carried'
    <3> SUFFICES ASSUME NEW p \in Open, told[p] # disk[p]
                 PROVE  IF Exists(p) THEN Brings(Renamed(i, j), p)
                                     ELSE Drops(Renamed(i, j), p)
      BY <1>1, <2>4 DEF Carried, Exists, Arrives, Leaves, Open
    <3> QED BY <1>4, <2>7
  <2> QED BY <1>1, <1>8, <2>4, <2>5, <2>6, <2>8, <2>9, <2>11, <2>12 DEF GapFree
<1> QED BY <1>10, <1>11, <1>12, <1>13

LEMMA EventKeeps == WatchInv /\ SoundInv' /\ HandleEvent /\ ~spoilt' => GapFree'
<1> SUFFICES ASSUME WatchInv, SoundInv', HandleEvent, ~spoilt' PROVE GapFree'
  OBVIOUS
<1> DEFINE ev == Head(raw)
<1>1. ev \in RawEvent /\ EventOK(ev)
  BY HeadOf DEF WatchInv
<1>2. \/ ev.action = "create" /\ HandleCreate(ev.item)
      \/ ev.action = "modify" /\ HandleWrite(ev.item)
      \/ ev.action = "remove" /\ HandleRemove(ev.item)
      \/ ev.action = "rename" /\ HandleRename(ev.old, ev.item)
  BY DEF HandleEvent
<1>3. ev.item \in Item /\ ev.old \in Item
  BY <1>1 DEF RawEvent
<1>5. ~spoilt
  <2>2. ASSUME NEW i \in Item, HandleWrite(i) PROVE ~spoilt
    BY <2>2 DEF HandleWrite, Schedule, Ignores, NoTimer
  <2>3. ASSUME NEW i \in Item, HandleCreate(i) PROVE ~spoilt
    BY <2>2, <2>3 DEF HandleCreate
  <2>4. ASSUME NEW i \in Item, HandleRemove(i) PROVE ~spoilt
    BY <2>4 DEF HandleRemove, Schedule
  <2>5. ASSUME NEW i \in Item, NEW j \in Item, HandleRename(i, j) PROVE ~spoilt
    <3>1. CASE i \in Ignored /\ j \in Ignored
      BY <2>5, <3>1 DEF HandleRename, Ignores, NoTimer
    <3>2. CASE i \in Ignored /\ j \notin Ignored
      BY <2>3, <2>5, <3>2 DEF HandleRename
    <3>3. CASE i \notin Ignored /\ j \in Ignored
      BY <2>4, <2>5, <3>3 DEF HandleRename
    <3>4. CASE i \notin Ignored /\ j \notin Ignored
      BY <2>5, <3>4 DEF HandleRename, Schedule
    <3> QED BY <3>1, <3>2, <3>3, <3>4
  <2> QED BY <1>2, <1>3, <2>2, <2>3, <2>4, <2>5
<1>6. Taken
  BY <1>5 DEF Taken, WatchInv, HandleEvent, treeVars, peerVars
<1>7. CASE ev.action = "create"
  <2>1. HandleCreate(ev.item)
    BY <1>2, <1>7
  <2>2. CASE ev.item \in Path
    <3>1. ev.item \notin dirs
      BY <2>2, Places DEF WatchInv, SoundInv, TypeOK
    <3>2. HandleWrite(ev.item)
      BY <2>1, <3>1 DEF HandleCreate
    <3> QED BY <1>6, <1>7, <2>2, <3>2, WriteTold
  <2>3. CASE ev.item \in Dir
    BY <1>6, <1>7, <2>1, <2>3, GoneDirTold, DirTold
  <2> QED BY <1>3, <2>2, <2>3 DEF Item
<1>8. CASE ev.action = "modify"
  BY <1>1, <1>2, <1>6, <1>8, WriteTold DEF EventOK
<1>9. CASE ev.action = "remove"
  BY <1>2, <1>3, <1>6, <1>9, RemovalTold
<1>10. CASE ev.action = "rename"
  BY <1>2, <1>3, <1>6, <1>10, RenameTold
<1> QED BY <1>2, <1>7, <1>8, <1>9, <1>10

-----------------------------------------------------------------------------
\* A timer fires, and the consumer takes a change.

LEMMA FireKeeps == WatchInv /\ SoundInv' /\ Fire /\ ~spoilt' => GapFree'
<1> SUFFICES ASSUME WatchInv, SoundInv', Fire, ~spoilt' PROVE GapFree'
  OBVIOUS
<1>1. /\ SoundInv /\ GapFree /\ tracked \subseteq Path /\ ~spoilt /\ sending = {}
      /\ UNCHANGED <<disk, dirs, told, lost, raw>>
  BY DEF WatchInv, SoundInv, TypeOK, Fire, treeVars, peerVars
<1>2. PICK c \in Due : /\ c \in Change /\ ChangeOK(c)
                       /\ sending' = {c} /\ tracked' = Tracked(c)
                       /\ Due' = Due \ {c}
  BY <1>1, FireOrderly DEF GapFree
<1>3. Orderly' /\ TreeOK' /\ ~lost' /\ Rescan \notin sending'
  BY <1>1, <1>2, FireOrderly, Records DEF GapFree, TreeOK, Exists
<1>4. Untold = Due /\ Untold' = Due /\ Untold' = Untold
  BY <1>1, <1>2 DEF Untold
<1>5. LastIsArrival' /\ Carried'
  BY <1>1, <1>4 DEF GapFree, LastIsArrival, Carried, Exists, Arrives, Leaves
<1>6. CASE c.kind = "renamed"
  <2>1. /\ raw = <<>> /\ Untold = {c} /\ Midway(c.old, c.item)
    BY <1>1, <1>4, <1>6 DEF GapFree, Alone
  <2>2. Due = {c} /\ Due' = {}
    BY <1>2, <1>4, <2>1
  <2>3. /\ c.old \in Open /\ c.item \in Open /\ c.old # c.item
        /\ ~Exists(c.old) /\ Exists(c.item) /\ told[c.old] # 0
    BY <1>2, <1>6, <2>1 DEF Midway, ChangeOK, Open, Exists
  <2>4. \A p : Removed(p) # c
    BY <1>6 DEF Removed
  <2>5. \A p \in Open : told[p] # 0 => p \in tracked
    BY <1>1, <1>4, <2>2, <2>4 DEF GapFree, KnowsTold
  <2>6. tracked' = (tracked \ {c.old}) \cup {c.item}
    BY <1>2, <1>6, <2>3, <2>5 DEF Tracked
  <2>7. KnowsTold'
    BY <1>1, <1>2, <1>4, <1>6, <2>2, <2>5, <2>6 DEF KnowsTold
  <2>8. KnowsGone'
    <3> SUFFICES ASSUME NEW p \in tracked', ~Exists(p) PROVE FALSE
      BY <1>1 DEF KnowsGone, Exists
    <3>1. p \in tracked /\ p # c.old
      BY <2>3, <2>6
    <3>2. ~Drops(c, p)
      BY <1>6, <3>1 DEF Drops
    <3> QED BY <1>1, <2>1, <2>2, <3>1, <3>2 DEF GapFree, KnowsGone
  <2>9. Alone'
    <3>1. Midway(c.old, c.item)'
      BY <1>1, <2>1 DEF Midway, Exists
    <3> QED BY <1>1, <1>4, <2>1, <2>2, <3>1 DEF Alone
  <2> QED BY <1>3, <1>5, <2>7, <2>8, <2>9 DEF GapFree
<1>7. CASE c.kind # "renamed"
  <2>1. \A e \in Untold : e.kind # "renamed"
    <3>1. \A e \in Untold : e.kind = "renamed" => c = e
      BY <1>1, <1>4 DEF GapFree, Alone
    <3> QED BY <1>7, <3>1
  <2>2. \A k \in DOMAIN raw : raw[k].action # "rename"
    BY <1>1, <1>4 DEF GapFree, Alone
  <2>3. Alone'
    BY <1>1, <1>4, <2>1, <2>2 DEF Alone
  <2>4. CASE c.kind = "modified"
    <3>1. tracked' = tracked
      BY <1>2, <2>4 DEF Tracked
    <3>2. \A p : ~Drops(c, p)
      BY <2>4 DEF Drops
    <3>3. KnowsTold'
      BY <1>1, <1>2, <1>4, <2>1, <3>1 DEF GapFree, KnowsTold
    <3>4. KnowsGone'
      BY <1>1, <1>2, <3>1, <3>2 DEF GapFree, KnowsGone, Exists
    <3> QED BY <1>3, <1>5, <2>3, <3>3, <3>4 DEF GapFree
  <2>5. CASE c.kind = "removed"
    <3>1. tracked' = tracked \ {c.item} /\ c = Removed(c.item)
      BY <1>2, <2>5, ChangeIs DEF Tracked
    <3>2. \A e \in Due : e.kind = "modified" => e.item # c.item
      <4> SUFFICES ASSUME NEW e \in Due, e.kind = "modified", e.item = c.item PROVE FALSE
        OBVIOUS
      <4>1. SameKey(e, c) /\ SameKey(c, e) /\ e # c
        BY <2>5 DEF SameKey
      <4>2. PICK t \in Timers, u \in Timers : t.change = e /\ u.change = c
        BY DEF Due
      <4> QED BY <1>1, <4>1, <4>2 DEF GapFree, Orderly, Timers
    <3>3. \A p : Drops(c, p) => p = c.item
      BY <2>5 DEF Drops
    <3>4. KnowsTold'
      <4>1. \A p \in Open : told[p] # 0 => p \in tracked' \/ Removed(p) \in Untold
        BY <1>1, <1>2, <1>4, <3>1 DEF GapFree, KnowsTold
      <4>2. \A e \in Untold : e.kind = "modified" => e.item \in tracked'
        BY <1>1, <1>4, <3>1, <3>2 DEF GapFree, KnowsTold
      <4> QED BY <1>1, <1>2, <1>4, <2>1, <4>1, <4>2 DEF KnowsTold
    <3>5. KnowsGone'
      BY <1>1, <1>2, <3>1, <3>3 DEF GapFree, KnowsGone, Exists
    <3> QED BY <1>3, <1>5, <2>3, <3>4, <3>5 DEF GapFree
  <2> QED BY <1>2, <1>7, <2>4, <2>5 DEF ChangeOK
<1> QED BY <1>6, <1>7

LEMMA TakeKeeps ==
    ASSUME WatchInv, SoundInv', NEW c \in sending, Take(c), ~spoilt'
    PROVE  GapFree'
<1>1. /\ SoundInv /\ GapFree /\ tracked \subseteq Path /\ ~spoilt
      /\ sending' = sending \ {c}
      /\ UNCHANGED <<disk, dirs, lost, raw, tracked, running, blocked>>
      /\ told \in [Path -> 0 .. MaxEdits + 1]
  BY DEF WatchInv, SoundInv, TypeOK, Take, treeVars
<1>2. c \in Change /\ ChangeOK(c) /\ c \in Untold
  BY <1>1 DEF GapFree, SoundInv, TypeOK, Untold
<1>3. /\ Due' = Due /\ Timers' = Timers /\ Untold' \subseteq Untold
      /\ \A e \in Untold : e # c => e \in Untold'
  BY <1>1 DEF Due, Timers, Untold
<1>4. Orderly' /\ TreeOK' /\ ~lost' /\ Rescan \notin sending'
  BY <1>1, <1>3 DEF GapFree, Orderly, TreeOK, Exists
<1>5. KnowsGone'
  BY <1>1, <1>3 DEF GapFree, KnowsGone, Exists
<1>6. LastIsArrival'
  BY <1>1, <1>3 DEF GapFree, LastIsArrival, Exists
<1>7. CASE c.kind = "renamed"
  <2>1. /\ raw = <<>> /\ Untold = {c} /\ Midway(c.old, c.item)
        /\ sending = {} \/ Due = {}
    BY <1>1, <1>2, <1>7 DEF GapFree, Alone
  <2>2. Due = {} /\ sending = {c} /\ Untold' = {}
    BY <1>1, <1>2, <1>3, <2>1 DEF Untold
  <2>3. /\ c.old \in Path /\ c.item \in Path /\ c.old # c.item /\ c.old \in Open
        /\ ~Exists(c.old) /\ Exists(c.item) /\ told[c.old] = disk[c.item]
        /\ \A p \in Open \ {c.old, c.item} : told[p] = disk[p]
    BY <1>2, <1>7, <2>1 DEF Midway, ChangeOK, Open
  <2>4. PeerHas(c.old)
    BY <2>3 DEF PeerHas, Exists
  <2>5. told' = [told EXCEPT ![c.item] = told[c.old], ![c.old] = 0]
    BY <1>7, <2>3, <2>4, Places DEF Take, ToldRenamed
  <2>6. /\ told'[c.old] = 0 /\ told'[c.item] = told[c.old]
        /\ \A p \in Path \ {c.old, c.item} : told'[p] = told[p]
    BY <1>1, <2>3, <2>5
  <2>7. \A p \in Open : told'[p] = disk[p]
    BY <2>3, <2>6 DEF Open, Exists
  <2>8. Carried'
    BY <1>1, <2>7 DEF Carried, Open
  <2>9. \A p \in Open : told'[p] # 0 => p \in tracked
    <3> SUFFICES ASSUME NEW p \in Open, told'[p] # 0 PROVE p \in tracked
      OBVIOUS
    <3>1. c.item \in tracked
      BY <1>1, <1>7 DEF GapFree, KnowsTold
    <3>2. p # c.old /\ p \in Path
      BY <2>6 DEF Open
    <3>3. \A e \in sending : ~(e.kind = "renamed" /\ e.old = p)
      BY <2>2, <3>2
    <3>4. Removed(p) # c
      BY <1>7 DEF Removed
    <3>5. p # c.item => told[p] # 0
      BY <2>6, <3>2
    <3> QED BY <1>1, <2>1, <3>1, <3>3, <3>4, <3>5 DEF GapFree, KnowsTold
  <2>10. KnowsTold'
    BY <1>1, <2>2, <2>9 DEF KnowsTold
  <2>11. Alone'
    BY <1>1, <2>1, <2>2 DEF Alone
  <2> QED BY <1>4, <1>5, <1>6, <2>8, <2>10, <2>11 DEF GapFree
<1>8. CASE c.kind # "renamed"
  <2>1. \A e \in Untold : e.kind # "renamed"
    <3>1. \A e \in Untold : e.kind = "renamed" => c = e
      BY <1>1, <1>2 DEF GapFree, Alone
    <3> QED BY <1>8, <3>1
  <2>2. \A k \in DOMAIN raw : raw[k].action # "rename"
    BY <1>1, <1>2 DEF GapFree, Alone
  <2>3. Alone'
    BY <1>1, <1>3, <2>1, <2>2 DEF Alone
  <2>4. PICK p \in Open : p = c.item /\ p \in Path
    BY <1>2, <1>8 DEF ChangeOK, Open
  <2>5. /\ \A q : \A e \in Untold : q # p /\ (Brings(e, q) \/ Drops(e, q)) => e \in Untold'
        /\ \A q : q # p /\ Removed(q) \in Untold => Removed(q) \in Untold'
    <3>1. \A q : Removed(q).item = q
      BY DEF Removed
    <3> QED BY <1>3, <1>8, <2>1, <2>4, <3>1 DEF Brings, Drops
  <2>6. /\ \A e \in Untold : e.kind = "modified" => e.item \in tracked
        /\ \A q \in Open : told[q] # 0 => q \in tracked \/ Removed(q) \in Untold
        /\ \A q \in Open : told[q] # disk[q] => IF Exists(q) THEN Arrives(q) ELSE Leaves(q)
    BY <1>1, <2>1 DEF GapFree, KnowsTold, Carried, Untold, Open
  <2>7. \A q \in Open : told'[q] = told[q] /\ q # p =>
          /\ told'[q] # 0 => q \in tracked \/ Removed(q) \in Untold'
          /\ told'[q] # disk[q] => IF Exists(q) THEN Arrives(q)' ELSE Leaves(q)'
    BY <1>1, <2>5, <2>6 DEF Arrives, Leaves
  <2>8. CASE c.kind = "modified"
    <3>1. told' = [told EXCEPT ![p] = ToldWritten(c)]
      BY <2>4, <2>8 DEF Take
    <3>2. /\ told'[p] = IF Exists(p) THEN disk[p] ELSE told[p]
          /\ \A q \in Path : q # p => told'[q] = told[q]
      BY <1>1, <2>4, <3>1 DEF ToldWritten
    <3>3. p \in tracked
      BY <1>2, <2>4, <2>6, <2>8
    <3>4. KnowsTold'
      <4>1. \A e \in Untold' : e.kind = "modified" => e.item \in tracked'
        BY <1>1, <1>3, <2>6
      <4>2. \A e \in sending' : e.kind # "renamed"
        BY <1>1, <2>1 DEF Untold
      <4>3. ASSUME NEW q \in Open, told'[q] # 0
            PROVE  q \in tracked \/ Removed(q) \in Untold'
        BY <2>7, <3>2, <3>3, <4>3 DEF Open
      <4> QED BY <1>1, <4>1, <4>2, <4>3 DEF KnowsTold, Open
    <3>5. told'[p] # disk[p] => ~Exists(p) /\ Leaves(p)'
      <4> SUFFICES ASSUME told'[p] # disk[p] PROVE ~Exists(p) /\ Leaves(p)'
        OBVIOUS
      <4>1. ~Exists(p) /\ Leaves(p)
        BY <2>6, <3>2
      <4>2. ~Drops(c, p)
        BY <2>8 DEF Drops
      <4> QED BY <1>1, <1>3, <4>1, <4>2 DEF Leaves
    <3>6. Carried'
      BY <1>1, <2>7, <3>2, <3>5 DEF Carried, Exists, Open
    <3> QED BY <1>4, <1>5, <1>6, <2>3, <3>4, <3>6 DEF GapFree
  <2>9. CASE c.kind = "removed"
    <3>1. told' = [told EXCEPT ![p] = 0]
      BY <2>4, <2>9 DEF Take
    <3>2. /\ told'[p] = 0 /\ \A q \in Path : q # p => told'[q] = told[q]
      BY <1>1, <2>4, <3>1
    <3>3. KnowsTold'
      <4>1. \A e \in Untold' : e.kind = "modified" => e.item \in tracked'
        BY <1>1, <1>3, <2>6
      <4>2. \A e \in sending' : e.kind # "renamed"
        BY <1>1, <2>1 DEF Untold
      <4>3. ASSUME NEW q \in Open, told'[q] # 0
            PROVE  q \in tracked \/ Removed(q) \in Untold'
        BY <2>7, <3>2, <4>3 DEF Open
      <4> QED BY <1>1, <4>1, <4>2, <4>3 DEF KnowsTold, Open
    <3>4. Exists(p) => Arrives(p)'
      <4>1. c = Removed(p)
        BY <1>2, <2>4, <2>9, ChangeIs
      <4> QED BY <1>1, <1>2, <2>4, <4>1 DEF GapFree, LastIsArrival, Arrives
    <3>5. Carried'
      BY <1>1, <2>7, <3>2, <3>4 DEF Carried, Exists, Open
    <3> QED BY <1>4, <1>5, <1>6, <2>3, <3>3, <3>5 DEF GapFree
  <2> QED BY <1>2, <1>8, <2>8, <2>9 DEF ChangeOK
<1> QED BY <1>7, <1>8

LEMMA ExpireKeeps == WatchInv /\ SoundInv' /\ Expire /\ ~spoilt' => GapFree'
<1> SUFFICES ASSUME WatchInv, SoundInv', Expire, ~spoilt' PROVE GapFree'
  OBVIOUS
<1>1. /\ SoundInv /\ GapFree /\ UNCHANGED <<disk, dirs, told, lost, raw, tracked, sending>>
  BY DEF WatchInv, Expire, treeVars, peerVars
<1>2. Orderly' /\ Due' = Due /\ Untold' = Untold
  BY <1>1, ExpireOrderly, ExpireSound DEF GapFree, Untold
<1>3. Alone'
  <2>1. \A i, j : Midway(i, j)' <=> Midway(i, j)
    BY <1>1 DEF Midway, Exists
  <2> QED BY <1>1, <1>2, <2>1 DEF GapFree, Alone
<1>4. TreeOK' /\ KnowsTold'
  BY <1>1, <1>2 DEF GapFree, TreeOK, KnowsTold, Exists, Open
<1>5. KnowsGone'
  BY <1>1, <1>2 DEF GapFree, KnowsGone, Exists
<1>6. LastIsArrival'
  BY <1>1, <1>2 DEF GapFree, LastIsArrival, Exists
<1>7. Carried'
  <2>1. ~spoilt
    BY DEF Expire
  <2>2. \A p : (Arrives(p)' <=> Arrives(p)) /\ (Leaves(p)' <=> Leaves(p))
    BY <1>1, <1>2 DEF Arrives, Leaves
  <2> QED BY <1>1, <2>1, <2>2 DEF GapFree, Carried, Exists
<1> QED BY <1>1, <1>2, <1>3, <1>4, <1>5, <1>6, <1>7 DEF GapFree

LEMMA WatchInit == Init => WatchInv
<1> SUFFICES ASSUME Init PROVE WatchInv
  OBVIOUS
<1>1. SoundInv
  BY SoundInit
<1>2. Untold = {} /\ Due = {} /\ Timers = {} /\ raw = <<>> /\ DOMAIN raw = {}
  BY DEF Init, Untold, Due, Timers
<1>3. /\ tracked = Files \ Ignored /\ ~lost /\ Rescan \notin sending
      /\ sending = {} /\ running = {} /\ blocked = {}
      /\ \A p \in Open : told[p] = disk[p]
  BY DEF Init, Open
<1>4. TreeOK
  BY DEF Init, TreeOK, Exists
<1>5. Orderly /\ Alone /\ LastIsArrival
  BY <1>2, <1>3 DEF Orderly, Alone, LastIsArrival
<1>6. KnowsTold /\ KnowsGone /\ Carried
  BY <1>2, <1>3 DEF KnowsTold, KnowsGone, Carried, Files, Open, Exists
<1> QED BY <1>1, <1>3, <1>4, <1>5, <1>6 DEF WatchInv, GapFree

LEMMA WatchStep == WatchInv /\ [Next]_vars => WatchInv'
<1> SUFFICES ASSUME WatchInv, [Next]_vars PROVE WatchInv'
  OBVIOUS
<1>1. SoundInv'
  BY SoundStep DEF WatchInv
<1> SUFFICES ASSUME ~spoilt' PROVE GapFree'
  BY <1>1 DEF WatchInv
<1>2. CASE UNCHANGED vars
  <2>1. /\ ~spoilt /\ GapFree
        /\ UNCHANGED <<disk, dirs, told, lost, raw, tracked, sending, running, blocked>>
    BY <1>2 DEF WatchInv, vars, treeVars, peerVars, loopVars
  <2>2. Untold' = Untold /\ Due' = Due /\ Timers' = Timers
    BY <2>1, SameUntold
  <2>3. Alone'
    <3>1. \A i, j : Midway(i, j)' <=> Midway(i, j)
      BY <2>1 DEF Midway, Exists
    <3> QED BY <2>1, <2>2, <3>1 DEF GapFree, Alone
  <2> QED BY <2>1, <2>2, <2>3 DEF GapFree, Orderly, TreeOK, KnowsTold, KnowsGone,
         LastIsArrival, Carried, Exists, Arrives, Leaves
<1>3. CASE UserStep
  BY <1>1, <1>3, UserKeeps
<1>4. CASE Overflow
  BY <1>4 DEF Overflow
<1>5. CASE HandleEvent
  BY <1>1, <1>5, EventKeeps
<1>6. CASE Fire
  BY <1>1, <1>6, FireKeeps
<1>7. CASE HandleOverflow
  BY <1>7 DEF HandleOverflow, WatchInv, GapFree
<1>8. CASE Expire
  BY <1>1, <1>8, ExpireKeeps
<1>9. CASE \E c \in sending : Take(c)
  BY <1>1, <1>9, TakeKeeps
<1> QED BY <1>2, <1>3, <1>4, <1>5, <1>6, <1>7, <1>8, <1>9 DEF Next, LoopStep

\* Nothing is forgotten: what the peer lacks of a file is on its way to it.
THEOREM NothingIsForgotten == Spec => []Carried
<1>1. WatchInv => Carried
  BY DEF WatchInv, GapFree, Carried
<1> QED BY <1>1, WatchInit, WatchStep, PTL DEF Spec

\* At rest the watcher tracks exactly the files there are, so no later removal is
\* taken for one of a path that "was never registered".
THEOREM TrackingIsExact == Spec => []TracksWhatExists
<1>1. WatchInv => TracksWhatExists
  <2> SUFFICES ASSUME WatchInv, ~spoilt, Quiet PROVE tracked = Files \ Ignored
    BY DEF TracksWhatExists
  <2>1. Untold = {} /\ Due = {} /\ sending = {} /\ DOMAIN raw = {} /\ GapFree
    BY DEF Quiet, Untold, Due, WatchInv
  <2>2. \A p \in Open : told[p] = disk[p]
    BY <2>1 DEF GapFree, Carried, Arrives, Leaves, Open
  <2>3. tracked \subseteq Path \ Ignored
    BY DEF WatchInv, SoundInv, TypeOK
  <2>4. \A p \in tracked : Exists(p)
    BY <2>1 DEF GapFree, KnowsGone
  <2>5. \A p \in Open : Exists(p) => p \in tracked
    BY <2>1, <2>2 DEF GapFree, KnowsTold, Exists
  <2> QED BY <2>3, <2>4, <2>5 DEF Files, Open
<1> QED BY <1>1, WatchInit, WatchStep, PTL DEF Spec

-----------------------------------------------------------------------------
\* Ignored paths.

\* What a directory is called does not decide whether a file in it is ignored: the
\* built-in patterns and every pattern of a name alone (ignore.go:25-37).
RulesFollowNames ==
    \A p \in Ignored, d \in Dir : Moved(p, d) \in Path => Moved(p, d) \in Ignored

\* Only one of the backends joins the two names of a rename.
PairsOnWindows ==
    backend # "windows" =>
        /\ \A k \in DOMAIN raw : raw[k].action # "rename"
        /\ \A c \in Untold : c.kind # "renamed"

HiddenInv == SoundInv /\ PairsOnWindows /\ \A p \in Ignored : told[p] = 0

LEMMA EditPairs ==
    ASSUME SoundInv, PairsOnWindows, NEW events \in Seq(RawEvent), Edit(events),
           backend # "windows" => \A k \in DOMAIN events : events[k].action # "rename"
    PROVE  PairsOnWindows'
<1>1. backend' = backend /\ raw' = raw \o events /\ Untold' = Untold
  BY SameUntold DEF Edit, loopVars
<1>2. raw \in Seq(RawEvent)
  BY DEF SoundInv, TypeOK
<1>3. backend # "windows" => \A k \in DOMAIN raw' : raw'[k].action # "rename"
  BY <1>1, <1>2, JoinOf DEF PairsOnWindows
<1> QED BY <1>1, <1>3 DEF PairsOnWindows

LEMMA UserPairs == SoundInv /\ PairsOnWindows /\ UserStep => PairsOnWindows'
<1> SUFFICES ASSUME SoundInv, PairsOnWindows, UserStep PROVE PairsOnWindows'
  OBVIOUS
<1>1. ASSUME NEW i \in Item, NEW a \in {"create", "modify", "remove"}
      PROVE  Raw(a, i) \in RawEvent /\ Raw(a, i).action # "rename"
  BY Records DEF Raw
<1>2. ASSUME NEW i \in Item, NEW j \in Item, NEW events \in RenameEvents(i, j),
             backend # "windows"
      PROVE  \A k \in DOMAIN events : events[k].action # "rename"
  <2>1. events = <<Raw("remove", i), Raw("create", j)>>
    BY <1>2 DEF RenameEvents
  <2>2. \A k \in DOMAIN events : events[k] \in {Raw("remove", i), Raw("create", j)}
    BY <2>1, Singles
  <2> QED BY <1>1, <2>2
<1>3. ASSUME NEW p \in Path, UserWrite(p) PROVE PairsOnWindows'
  <2> DEFINE events == (IF Exists(p) THEN <<>> ELSE <<Raw("create", p)>>)
                          \o <<Raw("modify", p)>>
  <2>1. events \in Seq(RawEvent)
    BY Records, Places
  <2>2. \A k \in DOMAIN events : events[k] \in {Raw("create", p), Raw("modify", p)}
    BY Singles
  <2>3. \A k \in DOMAIN events : events[k].action # "rename"
    BY <1>1, <2>2, Places
  <2>4. Edit(events)
    BY <1>3 DEF UserWrite
  <2> QED BY <2>1, <2>3, <2>4, EditPairs
<1>4. ASSUME NEW i \in Item, NEW a \in {"create", "remove"}, Edit(<<Raw(a, i)>>)
      PROVE  PairsOnWindows'
  <2>1. <<Raw(a, i)>> \in Seq(RawEvent)
    BY <1>1
  <2>2. \A k \in DOMAIN <<Raw(a, i)>> : <<Raw(a, i)>>[k].action # "rename"
    BY <1>1, Singles
  <2> QED BY <1>4, <2>1, <2>2, EditPairs
<1>5. ASSUME NEW p \in Path, NEW q \in Path, UserRename(p, q) PROVE PairsOnWindows'
  <2>1. PICK events \in RenameEvents(p, q) :
          \/ Edit(events)
          \/ backend = "windows" /\ Edit(<<Raw("remove", q)>> \o events)
    BY <1>5 DEF UserRename
  <2>2. events \in Seq(RawEvent) /\ <<Raw("remove", q)>> \o events \in Seq(RawEvent)
    <3>1. events \in Seq(RawEvent) /\ <<Raw("remove", q)>> \in Seq(RawEvent)
      BY RenameSound, RawSound, Places
    <3> QED BY <3>1, JoinOf
  <2> QED BY <1>2, <2>1, <2>2, EditPairs, Places
<1>6. ASSUME NEW d \in Dir, NEW e \in Dir, RenameDir(d, e) PROVE PairsOnWindows'
  <2>1. PICK events \in RenameEvents(d, e) : Edit(events)
    BY <1>6 DEF RenameDir
  <2>2. events \in Seq(RawEvent)
    BY RenameSound, Places
  <2> QED BY <1>2, <2>1, <2>2, EditPairs, Places
<1> QED BY <1>3, <1>4, <1>5, <1>6, Places DEF UserStep, UserRemove, Mkdir, Rmdir

LEMMA EventPairs == SoundInv /\ PairsOnWindows /\ HandleEvent => PairsOnWindows'
<1> SUFFICES ASSUME SoundInv, PairsOnWindows, HandleEvent, backend # "windows"
             PROVE  /\ \A k \in DOMAIN raw' : raw'[k].action # "rename"
                    /\ \A c \in Untold' : c.kind # "renamed"
  BY DEF PairsOnWindows, HandleEvent
<1>1. /\ \A k \in DOMAIN raw : raw[k].action # "rename"
      /\ \A c \in Untold : c.kind # "renamed"
  BY DEF PairsOnWindows
<1>2. \A k \in DOMAIN raw' : raw'[k].action # "rename"
  BY <1>1, HeadOf
<1>3. /\ running \subseteq Running /\ blocked \subseteq Timer /\ spoilt \in BOOLEAN
      /\ tracked \subseteq Path
  BY DEF SoundInv, TypeOK
<1>4. ASSUME NEW changes \in SUBSET Change, Schedule(changes), UNCHANGED sending,
             \A c \in changes : c.kind # "renamed"
      PROVE  \A c \in Untold' : c.kind # "renamed"
  <2>1. Due' \subseteq Due \cup changes
    BY <1>3, <1>4, Scheduled
  <2> QED BY <1>1, <1>4, <2>1 DEF Untold
<1>5. ASSUME NEW i \in Item, HandleWrite(i) PROVE \A c \in Untold' : c.kind # "renamed"
  <2>1. CASE i \in Path \ Ignored /\ Exists(i)
    <3>1. Modified(i) \in Change /\ Modified(i).kind # "renamed"
      BY Records DEF Modified
    <3> QED BY <1>4, <1>5, <2>1, <3>1 DEF HandleWrite
  <2>2. CASE ~(i \in Path \ Ignored /\ Exists(i))
    BY <1>1, <1>5, <2>2, SameUntold DEF HandleWrite, Ignores, NoTimer
  <2> QED BY <2>1, <2>2
<1>6. ASSUME NEW i \in Item, HandleCreate(i) PROVE \A c \in Untold' : c.kind # "renamed"
  <2>1. CASE i \in dirs
    <3>1. /\ Due' = Due
          /\ \A c \in sending' : c.kind = "modified"
      BY <1>6, <2>1 DEF HandleCreate, Modified, Due, Timers
    <3> QED BY <1>1, <3>1 DEF Untold
  <2>2. CASE i \notin dirs
    BY <1>5, <1>6, <2>2 DEF HandleCreate
  <2> QED BY <2>1, <2>2
<1>7. ASSUME NEW i \in Item, HandleRemove(i) PROVE \A c \in Untold' : c.kind # "renamed"
  <2> DEFINE gone == tracked \cap (In(i) \cup {i})
             changes == {Removed(p) : p \in gone}
  <2>1. \A c \in changes : c \in Change /\ c.kind # "renamed"
    BY <1>3, Records, Places DEF Removed
  <2>2. Schedule(changes) /\ UNCHANGED sending
    BY <1>7 DEF HandleRemove
  <2> HIDE DEF changes
  <2> QED BY <1>4, <2>1, <2>2
<1>8. Head(raw).action # "rename" /\ Head(raw).item \in Item
  BY <1>1, HeadOf DEF RawEvent
<1> QED BY <1>2, <1>5, <1>6, <1>7, <1>8 DEF HandleEvent

LEMMA PairsStep == SoundInv /\ PairsOnWindows /\ [Next]_vars => PairsOnWindows'
<1> SUFFICES ASSUME SoundInv, PairsOnWindows, [Next]_vars PROVE PairsOnWindows'
  OBVIOUS
<1>1. CASE UNCHANGED vars
  BY <1>1, SameUntold DEF PairsOnWindows, vars, loopVars
<1>2. CASE UserStep
  BY <1>2, UserPairs
<1>3. CASE Overflow
  <2>1. PICK k \in 0 .. Len(raw) - 1 : raw' = SubSeq(raw, 1, k)
    BY <1>3 DEF Overflow
  <2>2. \A l \in DOMAIN raw' : l \in DOMAIN raw /\ raw'[l] = raw[l]
    BY <2>1 DEF SoundInv, TypeOK
  <2>3. Untold' = Untold /\ backend' = backend
    BY <1>3, SameUntold DEF Overflow, loopVars
  <2> QED BY <2>2, <2>3 DEF PairsOnWindows
<1>4. CASE HandleEvent
  BY <1>4, EventPairs
<1>5. CASE Fire
  <2>1. PICK f \in blocked :
          /\ \A t \in Timers' : \E u \in Timers : t.change = u.change
          /\ sending' = {f.change}
    BY <1>5 DEF Fire, Timers, Unmapped, SoundInv, TypeOK, Running, Timer
  <2>2. Untold' \subseteq Untold
    BY <2>1 DEF Untold, Due, Timers
  <2> QED BY <1>5, <2>2 DEF PairsOnWindows, Fire
<1>6. CASE HandleOverflow
  BY <1>6 DEF HandleOverflow, PairsOnWindows, Untold, Due, Timers, Rescan
<1>7. CASE Expire
  <2>1. Untold' = Untold
    BY <1>7, ExpireSound DEF Expire, Untold
  <2> QED BY <1>7, <2>1 DEF PairsOnWindows, Expire
<1>8. CASE \E c \in sending : Take(c)
  <2>1. Untold' \subseteq Untold /\ raw' = raw /\ backend' = backend
    BY <1>8 DEF Take, Untold, Due, Timers
  <2> QED BY <2>1 DEF PairsOnWindows
<1> QED BY <1>1, <1>2, <1>3, <1>4, <1>5, <1>6, <1>7, <1>8 DEF Next, LoopStep

LEMMA HiddenTake ==
    ASSUME HiddenInv, "windows" \in Backend => RulesFollowNames,
           NEW c \in sending, Take(c)
    PROVE  \A p \in Ignored : told'[p] = 0
<1>1. /\ told \in [Path -> 0 .. MaxEdits + 1] /\ \A p \in Ignored : told[p] = 0
      /\ c # Rescan => c \in Change /\ ChangeOK(c)
      /\ backend \in Backend
      /\ Ignored \subseteq Path
  BY Places DEF HiddenInv, SoundInv, TypeOK, Untold
<1>2. CASE c.kind = "rescan" \/ told' = told
  BY <1>1, <1>2 DEF Take, peerVars
<1>3. CASE c.kind \in {"modified", "removed"}
  <2>1. c.item \notin Ignored
    BY <1>1, <1>3 DEF ChangeOK, Rescan
  <2>2. told' = [told EXCEPT ![c.item] = ToldWritten(c)] \/ told' = [told EXCEPT ![c.item] = 0]
    BY <1>3 DEF Take
  <2> QED BY <1>1, <2>1, <2>2
<1>4. CASE c.kind = "renamed" /\ told' = ToldRenamed(c)
  <2>1. c \in Change /\ c.item \notin Ignored /\ c.old \notin Ignored
        /\ (c.item \in Dir <=> c.old \in Dir)
    BY <1>1, <1>4 DEF ChangeOK, Rescan
  <2>2. CASE c.item \in Dir
    <3>1. RulesFollowNames
      <4>1. c \in Untold
        BY DEF Untold
      <4> QED BY <1>1, <1>4, <4>1 DEF HiddenInv, PairsOnWindows
    <3>2. told' = [p \in Path |-> IF p[1] = c.old THEN 0
                                  ELSE IF p[1] = c.item /\ Moved(p, c.old) \in Path
                                  THEN told[Moved(p, c.old)] ELSE told[p]]
      BY <1>4, <2>2 DEF ToldRenamed
    <3> SUFFICES ASSUME NEW p \in Ignored PROVE told'[p] = 0
      OBVIOUS
    <3>3. Moved(p, c.old) \in Path => told[Moved(p, c.old)] = 0
      BY <1>1, <2>1, <2>2, <3>1 DEF RulesFollowNames
    <3> QED BY <1>1, <3>2, <3>3
  <2>3. CASE c.item \notin Dir
    <3>1. told' = [told EXCEPT ![c.item] = told[c.old], ![c.old] = 0]
      BY <1>4, <2>3 DEF ToldRenamed
    <3> QED BY <1>1, <2>1, <3>1
  <2> QED BY <2>2, <2>3
<1> QED BY <1>2, <1>3, <1>4 DEF Take

\* Whatever is moved into or out of it, the peer never hears of an ignored path:
\* for any rules with the backend that only sees removals and creations; with the
\* other, a renamed directory takes along what its new name hides, so the rules
\* must be of names alone.
THEOREM HiddenStaysHidden ==
    ASSUME "windows" \in Backend => RulesFollowNames
    PROVE  Spec => []IgnoredIsNeverTold
<1>1. Init => HiddenInv
  <2> SUFFICES ASSUME Init PROVE HiddenInv
    OBVIOUS
  <2>1. Untold = {} /\ DOMAIN raw = {}
    BY DEF Init, Untold, Due, Timers
  <2>2. \A p \in Ignored : told[p] = 0
    BY Places DEF Init
  <2> QED BY <2>1, <2>2, SoundInit DEF HiddenInv, PairsOnWindows
<1>2. HiddenInv /\ [Next]_vars => HiddenInv'
  <2> SUFFICES ASSUME HiddenInv, [Next]_vars PROVE HiddenInv'
    OBVIOUS
  <2>1. SoundInv' /\ PairsOnWindows'
    BY SoundStep, PairsStep DEF HiddenInv
  <2>2. CASE \E c \in sending : Take(c)
    BY <2>1, <2>2, HiddenTake DEF HiddenInv
  <2>3. CASE ~\E c \in sending : Take(c)
    <3>1. told' = told
      BY <2>3 DEF Next, LoopStep, UserStep, UserWrite, UserRemove, UserRename, Mkdir, Rmdir,
         RenameDir, Edit, Overflow, HandleEvent, Fire, HandleOverflow, Expire, vars, peerVars
    <3> QED BY <2>1, <3>1 DEF HiddenInv
  <2> QED BY <2>2, <2>3
<1>3. HiddenInv => IgnoredIsNeverTold
  <2> SUFFICES ASSUME HiddenInv, NEW p \in Ignored, NEW c \in sending, c # Rescan
               PROVE  told[p] = 0 /\ p \notin {c.item, c.old}
    BY DEF IgnoredIsNeverTold, HiddenInv
  <2>1. ChangeOK(c)
    BY DEF HiddenInv, SoundInv, Untold
  <2> QED BY <2>1 DEF HiddenInv, ChangeOK
<1> QED BY <1>1, <1>2, <1>3, PTL DEF Spec

=============================================================================
