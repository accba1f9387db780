------------------------- MODULE ShareResumeProofs -------------------------
(***************************************************************************)
(* Machine-checked proofs about ShareResume, for any number of peers,      *)
(* sessions and files: under every circumstance no sandbox directory has   *)
(* two owners, a tree that lands holds all that its sender archived, and a *)
(* whole copy of the destination survives; when none of the named          *)
(* circumstances arises, it holds what the sender was told to skip, too.   *)
(***************************************************************************)
EXTENDS ShareResume, TLAPS

Fresh(s) == phase[s] \in {"unborn", "approved"}
Extracting(s) == Holds(s) /\ phase[s] # "clean"

\* A session that has not claimed yet has extracted nothing and its own
\* sandbox belongs to nobody: this is why Claim's fallback is safe.
FreshBoxes ==
    \A s \in Session : Fresh(s) =>
        /\ got[s] = 0 /\ landed[s] = Gone
        /\ \A t \in Session : Holds(t) => box[t] # s
        /\ \A p \in Peer : entries[p] # NoEntry => entries[p].box # s

\* The sandbox of a session stays on disk from Claim to Land.
Sandboxes == \A s \in Session : Extracting(s) => tree[box[s]] \in Tree

\* How far the extractor is in the archive.
InArchive ==
    \A s \in Session :
        /\ got[s] <= Len(stream[s])
        /\ phase[s] = "writing" => got[s] < Len(stream[s])
        /\ phase[s] \in Committing => left[s] = {} /\ got[s] = Len(stream[s])

SafeInv == TypeOK /\ OneOwner /\ FreshBoxes /\ Sandboxes /\ InArchive

LEMMA SafeInit == Init => SafeInv
<1> SUFFICES ASSUME Init PROVE SafeInv
  OBVIOUS
<1>1. 0 \in Content /\ 0 \in 0 .. MaxFaults /\ 0 \in 0 .. MaxRestarts
  BY BoundsOK DEF Content
<1>2. Empty \in Known /\ [f \in File |-> 0] \in Known
  BY <1>1 DEF Empty, Known
<1>3. [f \in File |-> 0] \in Tree
  BY <1>1 DEF Tree
<1>4. TypeOK
  BY <1>1, <1>2, <1>3 DEF Init, TypeOK, Content, Phase
<1>5. \A s \in Session : ~Holds(s)
  BY DEF Init, Holds, Holding, Committing
<1> QED
  BY <1>4, <1>5 DEF Init, SafeInv, OneOwner, FreshBoxes, Sandboxes, InArchive,
     Extracting, Committing

\* The actions of the user, the handshake and the sender, which touch neither
\* a sandbox nor the registry.
LEMMA SenderStep ==
    ASSUME SafeInv,
           \/ \E f \in File : Edit(f)
           \/ \E s \in Session : Approve(s) \/ Lookup(s)
           \/ \E s \in Session, f \in File : Visit(s, f)
    PROVE  SafeInv'
<1> USE DEF SafeInv
<1>1. ASSUME NEW f \in File, Edit(f) PROVE SafeInv'
  <2>1. TypeOK'
    <3>1. edits' \in 0 .. MaxEdits
      BY <1>1, BoundsOK DEF Edit, TypeOK
    <3>2. src' \in Known
      <4>1. PICK c \in (0 .. edits + 1) \cup {NoFile} :
                    src' = [src EXCEPT ![f] = c]
        BY <1>1 DEF Edit
      <4>2. c \in Content \cup {NoFile}
        BY <1>1, <3>1, BoundsOK DEF Edit, TypeOK, Content
      <4> QED BY <4>1, <4>2 DEF TypeOK, Known
    <3> QED BY <1>1, <3>1, <3>2
        DEF Edit, TypeOK, handshake, sender, receiver, disk, bounds
  <2> QED BY <1>1, <2>1 DEF Edit, handshake, sender, receiver, disk, bounds,
      OneOwner, FreshBoxes, Sandboxes, InArchive, Extracting, Holds, Fresh
<1>2. ASSUME NEW s \in Session, Approve(s) PROVE SafeInv'
  <2>1. /\ phase[s] = "unborn" /\ phase' = [phase EXCEPT ![s] = "approved"]
        /\ handling' \in Session
        /\ UNCHANGED <<src, edits, owner, skip, left, seen, stream, box,
               completed, got, entries, tree, aside, dest, landed, faults,
               restarts>>
    BY <1>2 DEF Approve, user, sender, disk, bounds
  <2>2. /\ TypeOK'
        /\ \A t \in Session : /\ Holds(t)' <=> Holds(t)
                              /\ Fresh(t)' <=> Fresh(t)
                              /\ phase'[t] \in Committing <=> phase[t] \in Committing
                              /\ phase'[t] = "writing" <=> phase[t] = "writing"
                              /\ phase'[t] = "clean" <=> phase[t] = "clean"
    BY <2>1 DEF TypeOK, Phase, Holds, Holding, Committing, Fresh
  <2> QED BY <2>1, <2>2
      DEF OneOwner, FreshBoxes, Sandboxes, InArchive, Extracting
<1>3. ASSUME NEW s \in Session, Lookup(s) PROVE SafeInv'
  <2>1. Peek(owner[s]) \in Known
    BY DEF Peek, TypeOK, Entry, Known, Empty
  <2>2. TypeOK'
    BY <1>3, <2>1 DEF Lookup, TypeOK, user, sender, receiver, disk, bounds
  <2> QED BY <1>3, <2>2 DEF Lookup, user, sender, receiver, disk, bounds,
      OneOwner, FreshBoxes, Sandboxes, InArchive, Extracting, Holds, Fresh
<1>4. ASSUME NEW s \in Session, NEW f \in File, Visit(s, f) PROVE SafeInv'
  <2>1. src[f] \in Content \cup {NoFile}
    BY DEF TypeOK, Known
  <2>2. Append(stream[s], f) \in Seq(File)
    BY DEF TypeOK
  <2>3. /\ left' \in [Session -> SUBSET File]
        /\ seen' \in [Session -> Known]
        /\ stream' \in [Session -> Seq(File)]
    BY <1>4, <2>1, <2>2 DEF Visit, TypeOK, Known
  <2>4. TypeOK'
    BY <1>4, <2>3 DEF Visit, TypeOK, user, handshake, receiver, disk, bounds
  <2>5. /\ phase[s] \notin Committing
        /\ \A t \in Session : Len(stream'[t]) >= Len(stream[t])
        /\ \A t \in Session \ {s} : stream'[t] = stream[t] /\ left'[t] = left[t]
    BY <1>4 DEF Visit, Walking, Committing, TypeOK
  <2>6. InArchive'
    <3> SUFFICES ASSUME NEW t \in Session PROVE
            /\ got[t] <= Len(stream'[t])
            /\ phase[t] = "writing" => got[t] < Len(stream'[t])
            /\ phase[t] \in Committing => left'[t] = {} /\ got[t] = Len(stream'[t])
      BY <1>4 DEF Visit, receiver, InArchive
    <3>1. Len(stream[t]) \in Nat /\ Len(stream'[t]) \in Nat /\ got[t] \in Nat
      BY <2>3 DEF TypeOK
    <3> QED BY <2>5, <3>1 DEF InArchive
  <2> QED BY <1>4, <2>4, <2>6 DEF Visit, user, handshake, receiver, disk,
      bounds, OneOwner, FreshBoxes, Sandboxes, Extracting, Holds, Fresh
<1> QED BY <1>1, <1>2, <1>3, <1>4

\* Claim takes the entry's sandbox over, or starts the session's own.
LEMMA ClaimStep ==
    ASSUME SafeInv, NEW s \in Session, Claim(s)
    PROVE  SafeInv'
<1> DEFINE p == owner[s]
           b == IF Claimable(p) THEN entries[p].box ELSE s
<1> USE DEF SafeInv
<1>1. /\ p \in Peer /\ b \in Session /\ Fresh(s) /\ ~Holds(s)
      /\ phase[s] = "approved" /\ got[s] = 0
      /\ Claimable(p) => entries[p] # NoEntry /\ entries[p] \in Entry
  BY DEF Claim, Claimable, TypeOK, Entry, Fresh, Holds, Holding, Committing,
     FreshBoxes
<1>2. /\ box' = [box EXCEPT ![s] = b]
      /\ entries' = [entries EXCEPT ![p] = NoEntry]
      /\ phase' = [phase EXCEPT ![s] = "receiving"]
      /\ tree' = [tree EXCEPT ![b] = IF @ = Gone THEN Empty ELSE @]
      /\ UNCHANGED <<src, edits, handling, owner, skip, left, seen, stream,
                     got, aside, dest, landed, faults, restarts>>
  BY DEF Claim, user, handshake, sender, bounds
<1>3. TypeOK'
  <2>1. Empty \in Tree /\ Empty \in Known
    BY DEF Empty, Tree, Known
  <2>2. completed' \in [Session -> Known]
    BY <1>1, <2>1 DEF Claim, TypeOK, Entry
  <2>3. tree' \in [Session -> Tree \cup {Gone}]
    BY <1>1, <1>2, <2>1 DEF TypeOK
  <2> HIDE DEF p, b
  <2> QED BY <1>1, <1>2, <2>2, <2>3 DEF TypeOK, Phase, Holding
\* Nobody else holds what is claimed.
<1>4. /\ \A t \in Session : Holds(t) => box[t] # b
      /\ \A q \in Peer \ {p} : entries[q] # NoEntry => entries[q].box # b
      /\ \A t \in Session \ {s} : Fresh(t) => b # t
  BY <1>1 DEF OneOwner, FreshBoxes, Fresh
<1>5. \A t \in Session \ {s} : /\ Holds(t)' <=> Holds(t)
                               /\ Fresh(t)' <=> Fresh(t)
                               /\ phase'[t] = phase[t] /\ box'[t] = box[t]
  BY <1>2 DEF TypeOK, Holds, Fresh
<1>6. /\ Holds(s)' /\ ~Fresh(s)' /\ box'[s] = b /\ phase'[s] = "receiving"
      /\ entries'[p] = NoEntry
      /\ \A q \in Peer \ {p} : entries'[q] = entries[q]
      /\ tree'[b] \in Tree
      /\ \A c \in Session \ {b} : tree'[c] = tree[c]
  <2>1. Empty \in Tree
    BY DEF Empty, Tree
  <2> QED BY <1>1, <1>2, <2>1 DEF TypeOK, Holds, Holding, Fresh
<1> HIDE DEF p, b
<1>7. OneOwner'
  BY <1>4, <1>5, <1>6 DEF OneOwner
<1>8. FreshBoxes'
  BY <1>2, <1>4, <1>5, <1>6 DEF FreshBoxes
<1>9. Sandboxes'
  <2>1. \A t \in Session : box[t] \in Session
    BY DEF TypeOK
  <2>2. \A t \in Session \ {s} : Extracting(t)' =>
            Extracting(t) /\ Holds(t) /\ box'[t] = box[t]
    BY <1>5 DEF Extracting
  <2>3. \A t \in Session \ {s} : Extracting(t)' => tree'[box'[t]] \in Tree
    BY <1>4, <1>6, <2>1, <2>2 DEF Sandboxes
  <2> QED BY <1>6, <2>3 DEF Sandboxes
<1>10. InArchive'
  BY <1>1, <1>2, <1>5, <1>6 DEF InArchive, Committing
<1> QED BY <1>3, <1>7, <1>8, <1>9, <1>10

\* Opening and writing one entry of the archive, in the session's own sandbox.
LEMMA ExtractStep ==
    ASSUME SafeInv, NEW s \in Session, OpenEntry(s) \/ WriteEntry(s)
    PROVE  SafeInv'
<1> USE DEF SafeInv
<1> DEFINE f == stream[s][got[s] + 1]
<1>1. /\ Extracting(s) /\ ~Fresh(s) /\ got[s] < Len(stream[s])
      /\ phase[s] \in {"receiving", "writing"}
  BY DEF OpenEntry, WriteEntry, Extracting, Holds, Holding, Fresh, InArchive
<1>2. f \in File /\ seen[s][f] \in Content \cup {NoFile} /\ box[s] \in Session
  <2>1. got[s] \in Nat /\ stream[s] \in Seq(File)
    BY DEF TypeOK
  <2>2. got[s] + 1 \in 1 .. Len(stream[s])
    BY <1>1, <2>1
  <2> QED BY <2>1, <2>2 DEF TypeOK, Known
<1>3. PICK c \in Content \cup {NoFile, Partial} :
          tree' = [tree EXCEPT ![box[s]][f] = c]
  BY <1>2 DEF OpenEntry, WriteEntry
<1>4. /\ phase' = [phase EXCEPT ![s] =
              IF phase[s] = "receiving" THEN "writing" ELSE "receiving"]
      /\ got' = [got EXCEPT ![s] = IF phase[s] = "receiving" THEN @ ELSE @ + 1]
      /\ UNCHANGED <<src, edits, handling, owner, skip, left, seen, stream,
                     box, entries, aside, dest, landed, faults, restarts>>
  BY DEF OpenEntry, WriteEntry, user, handshake, sender, bounds, TypeOK
<1>5. tree[box[s]] \in Tree
  BY <1>1 DEF Sandboxes
<1>6. TypeOK'
  <2>1. completed' \in [Session -> Known]
    <3>1. completed[s] \in Known
      BY DEF TypeOK
    <3>2. [completed[s] EXCEPT ![f] = seen[s][f]] \in Known
      BY <1>2, <3>1 DEF Known
    <3>3. \/ completed' = completed
          \/ completed' = [completed EXCEPT ![s] = [@ EXCEPT ![f] = seen[s][f]]]
      BY DEF OpenEntry, WriteEntry
    <3> QED BY <3>2, <3>3 DEF TypeOK
  <2>2. [tree[box[s]] EXCEPT ![f] = c] \in Tree
    BY <1>2, <1>3, <1>5 DEF Tree
  <2>3. tree' \in [Session -> Tree \cup {Gone}]
    BY <1>2, <1>3, <2>2 DEF TypeOK
  <2>4. /\ phase' \in [Session -> Phase] /\ got' \in [Session -> Nat]
    BY <1>4 DEF TypeOK, Phase, Holding
  <2> QED BY <1>4, <2>1, <2>3, <2>4 DEF TypeOK
<1>7. /\ \A t \in Session : Holds(t)' <=> Holds(t)
      /\ \A t \in Session : Fresh(t)' <=> Fresh(t)
      /\ \A t \in Session : Extracting(t)' <=> Extracting(t)
      /\ \A t \in Session \ {s} : phase'[t] = phase[t] /\ got'[t] = got[t]
      /\ \A t \in Session : Extracting(t) => tree'[box[t]] \in Tree
  <2>1. [tree[box[s]] EXCEPT ![f] = c] \in Tree
    BY <1>2, <1>3, <1>5 DEF Tree
  <2>2. \A b \in Session : tree[b] \in Tree => tree'[b] \in Tree
    BY <1>2, <1>3, <2>1 DEF TypeOK
  <2>3. \A t \in Session : box[t] \in Session
    BY DEF TypeOK
  <2> QED BY <1>1, <1>4, <2>2, <2>3
      DEF TypeOK, Holds, Holding, Fresh, Extracting, Sandboxes, Committing
<1>8. InArchive'
  <2>1. got[s] \in Nat /\ Len(stream[s]) \in Nat /\ phase'[s] \notin Committing
    BY <1>1, <1>4 DEF TypeOK, Committing
  <2>2. /\ got'[s] <= Len(stream[s])
        /\ phase'[s] = "writing" => got'[s] < Len(stream[s])
    BY <1>1, <1>4, <2>1 DEF TypeOK
  <2> QED BY <1>4, <1>7, <2>1, <2>2 DEF InArchive
<1>9. OneOwner' /\ FreshBoxes' /\ Sandboxes'
  BY <1>1, <1>4, <1>7 DEF OneOwner, FreshBoxes, Sandboxes
<1> QED BY <1>6, <1>8, <1>9

\* A session that ends parks its sandbox or deletes it.
LEMMA EndStep ==
    ASSUME SafeInv, NEW s \in Session,
           StartFails(s) \/ ReceiveFails(s) \/ CommitFails(s)
    PROVE  SafeInv'
<1> USE DEF SafeInv
<1>1. /\ phase' = [phase EXCEPT ![s] = "ended"]
      /\ UNCHANGED <<src, edits, handling, owner, skip, left, seen, stream,
                     box, completed, got, aside, dest, landed, restarts>>
      /\ faults' \in 0 .. MaxFaults
      /\ \/ StartFails(s) /\ UNCHANGED <<entries, tree>>
         \/ Holds(s) /\ Park(s)
         \/ Holds(s) /\ Abort(s)
  BY BoundsOK DEF StartFails, ReceiveFails, CommitFails, Blocked, Committing,
     Holds, Holding, user, handshake, sender, disk, bounds, TypeOK
<1>2. /\ ~Holds(s)' /\ ~Fresh(s)'
      /\ \A t \in Session \ {s} : /\ Holds(t)' <=> Holds(t)
                                  /\ Fresh(t)' <=> Fresh(t)
                                  /\ phase'[t] = phase[t]
      /\ phase'[s] = "ended"
  BY <1>1 DEF TypeOK, Holds, Holding, Committing, Fresh
<1>3. phase' \in [Session -> Phase]
  BY <1>1 DEF TypeOK, Phase
<1>4. InArchive'
  BY <1>1, <1>2 DEF InArchive, TypeOK, Committing
<1>5. CASE UNCHANGED <<entries, tree>>
  <2>1. TypeOK'
    BY <1>1, <1>3, <1>5 DEF TypeOK
  <2> QED BY <1>1, <1>2, <1>4, <1>5, <2>1
      DEF OneOwner, FreshBoxes, Sandboxes, Extracting
<1>6. CASE Holds(s) /\ Park(s)
  <2> DEFINE e == [box |-> box[s], completed |-> completed[s], expired |-> FALSE]
  <2>1. /\ e \in Entry /\ e # NoEntry /\ e.box = box[s] /\ owner[s] \in Peer
        /\ entries' = [entries EXCEPT ![owner[s]] = e] /\ tree' = tree
    <3>1. e \in Entry /\ e.box = box[s] /\ owner[s] \in Peer
      BY DEF TypeOK, Entry
    <3>2. Entry = [box : Session, completed : [File -> 0 .. MaxEdits \cup {NoFile}],
                   expired : BOOLEAN]
      BY DEF Entry, Known, Content
    <3> HIDE DEF e
    <3>3. e # NoEntry
      BY <3>1, <3>2, NoEntryOK
    <3> QED BY <1>6, <3>1, <3>3 DEF Park, e
  <2> HIDE DEF e
  <2>2. /\ entries'[owner[s]] = e
        /\ \A q \in Peer \ {owner[s]} : entries'[q] = entries[q]
    BY <2>1 DEF TypeOK
  <2>3. TypeOK'
    BY <1>1, <1>3, <2>1 DEF TypeOK
  <2>4. \A t \in Session : Fresh(t) => box[s] # t
    BY <1>6 DEF FreshBoxes
  <2>5. OneOwner'
    BY <1>1, <1>2, <1>6, <2>1, <2>2 DEF OneOwner
  <2>6. FreshBoxes'
    BY <1>1, <1>2, <2>1, <2>2, <2>4 DEF FreshBoxes
  <2>7. Sandboxes'
    BY <1>1, <1>2, <2>1 DEF Sandboxes, Extracting
  <2> QED BY <1>4, <2>3, <2>5, <2>6, <2>7
<1>7. CASE Holds(s) /\ Abort(s)
  <2>1. /\ tree' = [tree EXCEPT ![box[s]] = Gone] /\ entries' = entries
        /\ box[s] \in Session
    BY <1>7 DEF Abort, TypeOK
  <2>2. TypeOK'
    BY <1>1, <1>3, <2>1 DEF TypeOK
  <2>3. \A t \in Session \ {s} : Holds(t) => tree'[box[t]] = tree[box[t]]
    BY <1>7, <2>1 DEF OneOwner, TypeOK
  <2> QED BY <1>1, <1>2, <1>4, <2>1, <2>2, <2>3
      DEF OneOwner, FreshBoxes, Sandboxes, Extracting
<1> QED BY <1>1, <1>5, <1>6, <1>7

\* The end of a complete transfer and the calls of CommitSandbox.
LEMMA CommitStep ==
    ASSUME SafeInv, NEW s \in Session,
           \/ ReceiveEnds(s) \/ Look(s) \/ ClearStale(s) \/ MoveAside(s)
           \/ Land(s) \/ CleanUp(s)
    PROVE  SafeInv'
<1> USE DEF SafeInv
<1>1. PICK ph \in Phase : /\ ph = "ended" \/ ph \in Committing
                          /\ phase' = [phase EXCEPT ![s] = ph]
                          /\ Land(s) => ph \in {"ended", "clean"}
                          /\ ~Land(s) => ph # "clean"
  BY DEF ReceiveEnds, Look, ClearStale, MoveAside, Land, CleanUp, Phase,
     Holding, Committing, TypeOK
<1>2. /\ UNCHANGED <<src, edits, handling, owner, skip, left, seen, stream,
                     box, completed, got, entries, faults, restarts>>
      /\ Holds(s) /\ box[s] \in Session
      /\ left[s] = {} /\ got[s] = Len(stream[s])
      /\ ph # "ended" => Extracting(s)
  BY <1>1 DEF ReceiveEnds, Look, ClearStale, MoveAside, Land, CleanUp, user,
     handshake, sender, disk, bounds, Holds, Holding, Committing, Extracting,
     InArchive, TypeOK
<1>3. /\ aside' \in [Session -> Tree \cup {Gone}]
      /\ dest' \in Tree \cup {Gone}
      /\ landed' \in [Session -> Tree \cup {Gone}]
      /\ tree' \in [Session -> Tree \cup {Gone}]
      /\ \A t \in Session \ {s} : landed'[t] = landed[t]
      /\ \A b \in Session \ {box[s]} : tree'[b] = tree[b]
      /\ ~Land(s) => tree' = tree
  <2>1. CASE ReceiveEnds(s) \/ Look(s)
    BY <2>1 DEF ReceiveEnds, Look, disk, TypeOK
  <2>2. CASE ClearStale(s) \/ MoveAside(s) \/ CleanUp(s)
    <3>1. /\ \/ aside' = [aside EXCEPT ![box[s]] = Gone]
             \/ aside' = [aside EXCEPT ![box[s]] = dest]
          /\ dest' \in {dest, Gone} /\ landed' = landed /\ tree' = tree
      BY <2>2 DEF ClearStale, MoveAside, CleanUp
    <3>2. aside' \in [Session -> Tree \cup {Gone}]
      <4>1. /\ aside \in [Session -> Tree \cup {Gone}]
            /\ dest \in Tree \cup {Gone}
        BY DEF TypeOK
      <4> QED BY <3>1, <4>1
    <3> QED BY <3>1, <3>2 DEF TypeOK
  <2>3. CASE Land(s)
    <3>1. /\ tree' = [tree EXCEPT ![box[s]] = Gone]
          /\ landed' = [landed EXCEPT ![s] = tree[box[s]]]
          /\ dest' = tree[box[s]] /\ aside' = aside
      BY <2>3 DEF Land
    <3>2. tree[box[s]] \in Tree \cup {Gone}
      BY <1>2 DEF TypeOK
    <3>3. /\ landed' \in [Session -> Tree \cup {Gone}]
          /\ \A t \in Session \ {s} : landed'[t] = landed[t]
      BY <3>1, <3>2 DEF TypeOK
    <3>4. /\ tree' \in [Session -> Tree \cup {Gone}]
          /\ \A b \in Session \ {box[s]} : tree'[b] = tree[b]
      BY <3>1 DEF TypeOK
    <3> QED BY <2>3, <3>1, <3>2, <3>3, <3>4 DEF TypeOK
  <2> QED BY <2>1, <2>2, <2>3
<1>4. /\ phase'[s] = ph /\ ~Fresh(s)' /\ (ph # "ended" <=> Holds(s)')
      /\ Extracting(s)' => Extracting(s) /\ ~Land(s)
      /\ \A t \in Session \ {s} : /\ Holds(t)' <=> Holds(t)
                                  /\ Fresh(t)' <=> Fresh(t)
                                  /\ phase'[t] = phase[t]
  BY <1>1, <1>2 DEF TypeOK, Holds, Holding, Committing, Fresh, Extracting
<1>5. TypeOK'
  <2>1. phase' \in [Session -> Phase]
    BY <1>1 DEF TypeOK
  <2> QED BY <1>2, <1>3, <2>1 DEF TypeOK
<1>6. OneOwner' /\ FreshBoxes'
  BY <1>2, <1>3, <1>4 DEF OneOwner, FreshBoxes
<1>7. Sandboxes'
  <2>1. \A t \in Session \ {s} : Holds(t) => tree'[box[t]] = tree[box[t]]
    BY <1>2, <1>3 DEF OneOwner, TypeOK
  <2> QED BY <1>2, <1>3, <1>4, <2>1 DEF Sandboxes, Extracting
<1>8. InArchive'
  <2>1. ph # "writing"
    BY <1>1 DEF Committing
  <2> QED BY <1>2, <1>4, <2>1 DEF InArchive, TypeOK
<1> QED BY <1>5, <1>6, <1>7, <1>8

\* The registry's clock, the watchdog and a restart.
LEMMA RegistryStep ==
    ASSUME SafeInv, (\E p \in Peer : Expire(p)) \/ Sweep \/ Restart
    PROVE  SafeInv'
<1> USE DEF SafeInv
<1>1. ASSUME NEW p \in Peer, Expire(p) PROVE SafeInv'
  <2>1. entries[p] # NoEntry /\ entries[p] \in Entry
    BY <1>1 DEF Expire, Claimable, TypeOK
  <2>2. entries' = [entries EXCEPT ![p] = [@ EXCEPT !.expired = TRUE]]
    BY <1>1 DEF Expire
  <2>3. /\ [entries[p] EXCEPT !.expired = TRUE] \in Entry
        /\ [entries[p] EXCEPT !.expired = TRUE].box = entries[p].box
    BY <2>1 DEF Entry
  <2>4. /\ entries' \in [Peer -> Entry \cup {NoEntry}]
        /\ \A q \in Peer : /\ entries'[q] # NoEntry => entries[q] # NoEntry
                           /\ entries'[q] # NoEntry => entries'[q].box = entries[q].box
    BY <2>1, <2>2, <2>3 DEF TypeOK
  <2>5. TypeOK'
    BY <1>1, <2>4 DEF Expire, user, handshake, sender, receiver, disk, bounds,
       TypeOK
  <2> QED BY <1>1, <2>4, <2>5 DEF Expire, user, handshake, sender, receiver,
      disk, bounds, OneOwner, FreshBoxes, Sandboxes, InArchive, Extracting,
      Holds, Fresh
<1>2. ASSUME Sweep PROVE SafeInv'
  <2>1. /\ entries' \in [Peer -> Entry \cup {NoEntry}]
        /\ \A q \in Peer : entries'[q] # NoEntry => entries'[q] = entries[q]
    BY <1>2 DEF Sweep, TypeOK
  <2>2. /\ tree' \in [Session -> Tree \cup {Gone}]
        /\ \A t \in Session : Holds(t) => tree'[box[t]] = tree[box[t]]
    <3>1. \A b \in Session :
              tree'[b] = IF \E p \in Expired : entries[p].box = b
                         THEN Gone ELSE tree[b]
      BY <1>2 DEF Sweep
    <3>2. \A t \in Session, p \in Expired :
              Holds(t) => entries[p].box # box[t]
      BY DEF OneOwner, Expired
    <3>3. \A t \in Session : Holds(t) => tree'[box[t]] = tree[box[t]]
      BY <3>1, <3>2 DEF TypeOK
    <3>4. tree' = [b \in Session |->
                     IF \E p \in Expired : entries[p].box = b
                     THEN Gone ELSE tree[b]]
      BY <1>2 DEF Sweep
    <3>5. tree' \in [Session -> Tree \cup {Gone}]
      BY <3>4 DEF TypeOK
    <3> QED BY <3>3, <3>5
  <2>3. TypeOK'
    BY <1>2, <2>1, <2>2 DEF Sweep, user, handshake, sender, receiver, bounds,
       TypeOK
  <2>4. UNCHANGED <<phase, box, left, stream, got, landed>>
    BY <1>2 DEF Sweep, sender, receiver
  <2>5. OneOwner' /\ FreshBoxes'
    BY <2>1, <2>4 DEF OneOwner, FreshBoxes, Holds, Fresh
  <2>6. Sandboxes' /\ InArchive'
    BY <2>2, <2>4 DEF Sandboxes, InArchive, Extracting, Holds
  <2> QED BY <2>3, <2>5, <2>6
<1>3. ASSUME Restart PROVE SafeInv'
  <2>1. /\ \A s \in Session :
               /\ phase'[s] = IF phase[s] = "unborn" THEN "unborn" ELSE "ended"
               /\ ~Holds(s)' /\ (Fresh(s)' => Fresh(s))
        /\ \A p \in Peer : entries'[p] = NoEntry
        /\ UNCHANGED <<src, edits, owner, skip, left, seen, stream, box,
                       completed, got, tree, aside, dest, landed, faults>>
    BY <1>3 DEF Restart, user, sender, disk, Holds, Holding, Committing, Fresh
  <2>2. TypeOK'
    <3>1. phase' \in [Session -> Phase] /\ entries' \in [Peer -> Entry \cup {NoEntry}]
      BY <1>3 DEF Restart, TypeOK, Phase
    <3>2. restarts' \in 0 .. MaxRestarts /\ handling' = Idle
      BY <1>3, BoundsOK DEF Restart, TypeOK
    <3> QED BY <2>1, <3>1, <3>2 DEF TypeOK
  <2> QED BY <2>1, <2>2 DEF OneOwner, FreshBoxes, Sandboxes, InArchive,
      Extracting, Committing
<1> QED BY <1>1, <1>2, <1>3

LEMMA SafeStep == SafeInv /\ [Next]_vars => SafeInv'
<1> SUFFICES ASSUME SafeInv, [Next]_vars PROVE SafeInv'
  OBVIOUS
<1>1. CASE UNCHANGED vars
  BY <1>1 DEF vars, SafeInv, TypeOK, OneOwner, FreshBoxes, Sandboxes,
     InArchive, Extracting, Holds, Fresh
<1>2. CASE Next
  BY <1>2, SenderStep, ClaimStep, ExtractStep, EndStep, CommitStep,
     RegistryStep DEF Next
<1> QED BY <1>1, <1>2

LEMMA SafeAlways == Spec => []SafeInv
<1> QED BY SafeInit, SafeStep, PTL DEF Spec

\* TypeOK for every value of the constants: in particular a session never
\* writes into a sandbox that is no longer there.
THEOREM ShareTypeCorrect == Spec => []TypeOK
<1>1. SafeInv => TypeOK
  BY DEF SafeInv
<1> QED BY <1>1, SafeAlways, PTL

\* OneOwner for every value of the constants: Park, Claim and Sweep hand each
\* sandbox directory to one owner at a time.
THEOREM SandboxesHaveOneOwner == Spec => []OneOwner
<1>1. SafeInv => OneOwner
  BY DEF SafeInv
<1> QED BY <1>1, SafeAlways, PTL

-----------------------------------------------------------------------------
\* ArchivedLands: what is in the sandbox, entry by entry.

\* The walk archives a file once, and is past the files it archived.
WalkedOnce ==
    \A s \in Session : \A i \in 1 .. Len(stream[s]) :
        /\ stream[s][i] \notin left[s]
        /\ \A j \in 1 .. Len(stream[s]) : i # j => stream[s][i] # stream[s][j]

Extracted ==
    \A s \in Session : Extracting(s) =>
        \A i \in 1 .. got[s] : tree[box[s]][stream[s][i]] = seen[s][stream[s][i]]

LandedWhole ==
    \A s \in Session : landed[s] # Gone =>
        /\ left[s] = {}
        /\ \A i \in 1 .. Len(stream[s]) :
               landed[s][stream[s][i]] = seen[s][stream[s][i]]

ArchInv == SafeInv /\ WalkedOnce /\ Extracted /\ LandedWhole

LEMMA ArchInit == Init => ArchInv
<1> SUFFICES ASSUME Init PROVE ArchInv
  OBVIOUS
<1>1. \A s \in Session : ~Holds(s)
  BY DEF Init, Holds, Holding, Committing
<1> QED BY <1>1, SafeInit DEF Init, ArchInv, WalkedOnce, Extracted,
    LandedWhole, Extracting

\* A step that leaves the walks, the extracted entries and the landed trees
\* alone, and starts no extraction.
LEMMA ArchFrame ==
    ASSUME ArchInv, SafeInv', UNCHANGED <<left, seen, stream, box, got, landed>>,
           \A s \in Session : Extracting(s)' =>
               Extracting(s) /\ tree'[box[s]] = tree[box[s]]
    PROVE  ArchInv'
<1> QED BY DEF ArchInv, WalkedOnce, Extracted, LandedWhole

LEMMA VisitKeepsArchive ==
    ASSUME ArchInv, NEW s \in Session, NEW f \in File, Visit(s, f), SafeInv'
    PROVE  ArchInv'
<1> USE DEF ArchInv
<1>1. /\ f \in left[s] /\ left' = [left EXCEPT ![s] = @ \ {f}]
      /\ seen' = [seen EXCEPT ![s][f] = src[f]]
      /\ stream' = stream \/ stream' = [stream EXCEPT ![s] = Append(@, f)]
      /\ UNCHANGED <<phase, box, got, tree, landed>>
  BY DEF Visit, receiver, disk
<1>2. /\ stream \in [Session -> Seq(File)] /\ left \in [Session -> SUBSET File]
      /\ seen \in [Session -> Known] /\ got \in [Session -> Nat]
  BY DEF SafeInv, TypeOK
<1>3. \A t \in Session \ {s} : /\ left'[t] = left[t] /\ seen'[t] = seen[t]
                               /\ stream'[t] = stream[t]
  BY <1>1, <1>2
<1>4. left'[s] = left[s] \ {f} /\ \A g \in File \ {f} : seen'[s][g] = seen[s][g]
  BY <1>1, <1>2 DEF Known
<1>5. /\ \A i \in 1 .. Len(stream[s]) : /\ stream[s][i] \in File \ {f}
                                        /\ stream'[s][i] = stream[s][i]
      /\ \/ Len(stream'[s]) = Len(stream[s])
         \/ /\ Len(stream'[s]) = Len(stream[s]) + 1
            /\ stream'[s][Len(stream[s]) + 1] = f
  <2>1. stream[s] \in Seq(File)
    BY <1>2
  <2>2. \A i \in 1 .. Len(stream[s]) : stream[s][i] \in File \ {f}
    BY <1>1, <2>1 DEF WalkedOnce
  <2>3. CASE stream' = stream
    BY <2>2, <2>3
  <2>4. CASE stream' = [stream EXCEPT ![s] = Append(@, f)]
    <3>1. stream'[s] = Append(stream[s], f)
      BY <1>2, <2>4
    <3>2. /\ Len(Append(stream[s], f)) = Len(stream[s]) + 1
          /\ Append(stream[s], f)[Len(stream[s]) + 1] = f
          /\ \A i \in 1 .. Len(stream[s]) : Append(stream[s], f)[i] = stream[s][i]
      BY <2>1
    <3> QED BY <2>2, <3>1, <3>2
  <2> QED BY <1>1, <2>3, <2>4
<1>6. Len(stream[s]) \in Nat /\ got[s] \in Nat /\ got[s] <= Len(stream[s])
  BY <1>2 DEF SafeInv, InArchive
<1>7. WalkedOnce'
  <2> SUFFICES ASSUME NEW t \in Session, NEW i \in 1 .. Len(stream'[t])
               PROVE  /\ stream'[t][i] \notin left'[t]
                      /\ \A j \in 1 .. Len(stream'[t]) :
                             i # j => stream'[t][i] # stream'[t][j]
    BY DEF WalkedOnce
  <2>1. CASE t # s
    BY <1>3, <2>1 DEF WalkedOnce
  <2>2. CASE t = s
    <3>1. \A j \in 1 .. Len(stream'[s]) :
              \/ j \in 1 .. Len(stream[s])
              \/ j = Len(stream[s]) + 1 /\ stream'[s][j] = f
      BY <1>5, <1>6
    <3>2. /\ stream'[s][i] \notin left'[s]
          /\ i \notin 1 .. Len(stream[s]) => stream'[s][i] = f
      BY <1>4, <1>5, <2>2, <3>1 DEF WalkedOnce
    <3>3. ASSUME NEW j \in 1 .. Len(stream'[s]), i # j
          PROVE  stream'[s][i] # stream'[s][j]
      <4>1. CASE i \in 1 .. Len(stream[s]) /\ j \in 1 .. Len(stream[s])
        BY <1>5, <3>3, <4>1 DEF WalkedOnce
      <4> QED BY <1>5, <2>2, <3>1, <3>3, <4>1
    <3> QED BY <2>2, <3>2, <3>3
  <2> QED BY <2>1, <2>2
<1>8. Extracted'
  <2> SUFFICES ASSUME NEW t \in Session, Extracting(t), NEW i \in 1 .. got[t]
               PROVE  tree[box[t]][stream'[t][i]] = seen'[t][stream'[t][i]]
    BY <1>1 DEF Extracted, Extracting, Holds
  <2>1. CASE t # s
    BY <1>3, <2>1 DEF Extracted
  <2>2. CASE t = s
    <3>1. i \in 1 .. Len(stream[s])
      BY <1>6, <2>2
    <3>2. tree[box[s]][stream[s][i]] = seen[s][stream[s][i]]
      BY <2>2 DEF Extracted
    <3> QED BY <1>4, <1>5, <2>2, <3>1, <3>2
  <2> QED BY <2>1, <2>2
<1>9. LandedWhole'
  BY <1>1, <1>3 DEF LandedWhole
<1> QED BY <1>7, <1>8, <1>9

LEMMA ClaimKeepsArchive ==
    ASSUME ArchInv, NEW s \in Session, Claim(s), SafeInv'
    PROVE  ArchInv'
<1> DEFINE b == IF Claimable(owner[s]) THEN entries[owner[s]].box ELSE s
<1>1. /\ Fresh(s) /\ got[s] = 0 /\ owner[s] \in Peer
      /\ Claimable(owner[s]) => entries[owner[s]] # NoEntry
  BY DEF Claim, Claimable, ArchInv, SafeInv, TypeOK, Fresh, FreshBoxes
<1>2. /\ box' = [box EXCEPT ![s] = b]
      /\ phase' = [phase EXCEPT ![s] = "receiving"]
      /\ tree' = [tree EXCEPT ![b] = IF @ = Gone THEN Empty ELSE @]
      /\ UNCHANGED <<left, seen, stream, got, landed>>
  BY DEF Claim, sender
<1>3. \A t \in Session : Holds(t) => box[t] # b
  BY <1>1 DEF ArchInv, SafeInv, OneOwner, FreshBoxes
<1> HIDE DEF b
<1>4. \A t \in Session \ {s} : Extracting(t)' =>
          /\ Extracting(t) /\ box'[t] = box[t]
          /\ tree'[box[t]] = tree[box[t]]
  BY <1>2, <1>3 DEF ArchInv, SafeInv, TypeOK, Extracting, Holds
<1>5. Extracted'
  BY <1>1, <1>2, <1>4 DEF ArchInv, Extracted
<1> QED BY <1>2, <1>5 DEF ArchInv, WalkedOnce, LandedWhole

\* The entries of an archive are different files, so writing one leaves what
\* was extracted before it alone.
LEMMA ExtractKeepsArchive ==
    ASSUME ArchInv, NEW s \in Session, OpenEntry(s) \/ WriteEntry(s), SafeInv'
    PROVE  ArchInv'
<1> USE DEF ArchInv
<1> DEFINE f == stream[s][got[s] + 1]
<1>1. /\ Extracting(s) /\ got[s] < Len(stream[s])
      /\ got[s] \in Nat /\ Len(stream[s]) \in Nat
      /\ phase[s] \in {"receiving", "writing"}
  <2>1. phase[s] \in {"receiving", "writing"}
    BY DEF OpenEntry, WriteEntry
  <2>2. got[s] < Len(stream[s])
    BY DEF OpenEntry, WriteEntry, SafeInv, InArchive
  <2>3. got[s] \in Nat /\ Len(stream[s]) \in Nat
    BY DEF SafeInv, TypeOK
  <2> QED BY <2>1, <2>2, <2>3 DEF Extracting, Holds, Holding
<1>2. /\ UNCHANGED <<left, seen, stream, box, landed>>
      /\ phase' = [phase EXCEPT ![s] =
              IF phase[s] = "receiving" THEN "writing" ELSE "receiving"]
  BY DEF OpenEntry, WriteEntry, sender
<1>3. \/ /\ tree' = [tree EXCEPT ![box[s]] = [@ EXCEPT ![f] = Partial]]
         /\ got' = got
      \/ /\ tree' = [tree EXCEPT ![box[s]] = [@ EXCEPT ![f] = seen[s][f]]]
         /\ got' = [got EXCEPT ![s] = @ + 1]
  BY DEF OpenEntry, WriteEntry
<1>4. got[s] + 1 \in 1 .. Len(stream[s]) /\ f \in File
  <2>1. got[s] + 1 \in 1 .. Len(stream[s])
    BY <1>1
  <2> QED BY <2>1 DEF SafeInv, TypeOK
<1>5. \A i \in 1 .. got[s] : stream[s][i] \in File \ {f}
  <2> SUFFICES ASSUME NEW i \in 1 .. got[s] PROVE stream[s][i] \in File \ {f}
    OBVIOUS
  <2>1. i \in 1 .. Len(stream[s]) /\ i # got[s] + 1
    BY <1>1
  <2>2. stream[s] \in Seq(File)
    BY DEF SafeInv, TypeOK
  <2>3. stream[s][i] # f
    BY <1>4, <2>1 DEF WalkedOnce
  <2> QED BY <2>1, <2>2, <2>3
<1>6. tree[box[s]] \in Tree /\ box[s] \in Session
  BY <1>1 DEF SafeInv, Sandboxes, TypeOK
<1>7. \A t \in Session \ {s} : Extracting(t)' =>
          Extracting(t) /\ tree'[box[t]] = tree[box[t]] /\ got'[t] = got[t]
  <2>1. \A t \in Session \ {s} : Extracting(t)' => Extracting(t)
    BY <1>2 DEF SafeInv, TypeOK, Extracting, Holds
  <2>2. \A t \in Session \ {s} : Extracting(t) => box[t] # box[s]
    BY <1>1 DEF SafeInv, Extracting, OneOwner
  <2>3. \A b \in Session \ {box[s]} : tree'[b] = tree[b]
    <3>1. tree \in [Session -> Tree \cup {Gone}]
      BY DEF SafeInv, TypeOK
    <3> QED BY <1>3, <3>1
  <2>4. \A t \in Session \ {s} : box[t] \in Session /\ got'[t] = got[t]
    BY <1>3 DEF SafeInv, TypeOK
  <2> QED BY <2>1, <2>2, <2>3, <2>4
<1>8. \A i \in 1 .. got'[s] : tree'[box[s]][stream[s][i]] = seen[s][stream[s][i]]
  <2>1. \A i \in 1 .. got[s] : tree[box[s]][stream[s][i]] = seen[s][stream[s][i]]
    BY <1>1 DEF Extracted
  <2>2. \A g \in File \ {f} : tree'[box[s]][g] = tree[box[s]][g]
    <3>1. \/ tree'[box[s]] = [tree[box[s]] EXCEPT ![f] = Partial]
          \/ tree'[box[s]] = [tree[box[s]] EXCEPT ![f] = seen[s][f]]
      BY <1>3, <1>6 DEF SafeInv, TypeOK
    <3> QED BY <1>6, <3>1 DEF Tree
  <2>3. \A i \in 1 .. got[s] : tree'[box[s]][stream[s][i]] = seen[s][stream[s][i]]
    BY <1>5, <2>1, <2>2
  <2>4. CASE got' = got
    BY <2>3, <2>4
  <2>5. CASE got' = [got EXCEPT ![s] = @ + 1]
            /\ tree' = [tree EXCEPT ![box[s]] = [@ EXCEPT ![f] = seen[s][f]]]
    <3>1. tree'[box[s]][f] = seen[s][f] /\ got'[s] = got[s] + 1
      BY <1>4, <1>6, <2>5 DEF SafeInv, TypeOK, Tree
    <3> QED BY <1>1, <2>3, <3>1
  <2> QED BY <1>3, <2>4, <2>5
<1>9. Extracted'
  BY <1>2, <1>7, <1>8 DEF Extracted
<1> QED BY <1>2, <1>9 DEF WalkedOnce, LandedWhole

\* What lands is the sandbox, and by then all of the archive is in it.
LEMMA LandKeepsArchive ==
    ASSUME ArchInv, NEW s \in Session, Land(s), SafeInv'
    PROVE  ArchInv'
<1> USE DEF ArchInv
<1>1. /\ Extracting(s) /\ left[s] = {} /\ got[s] = Len(stream[s])
      /\ box[s] \in Session
  BY DEF Land, SafeInv, InArchive, TypeOK, Extracting, Holds, Holding, Committing
<1>2. /\ landed' = [landed EXCEPT ![s] = tree[box[s]]]
      /\ tree' = [tree EXCEPT ![box[s]] = Gone]
      /\ phase' = [phase EXCEPT ![s] = IF @ = "land" THEN "ended" ELSE "clean"]
      /\ UNCHANGED <<left, seen, stream, box, got>>
  BY DEF Land, sender
<1>3. ~Extracting(s)'
  BY <1>2 DEF SafeInv, TypeOK, Extracting, Holds, Holding, Committing
<1>4. \A t \in Session \ {s} : Extracting(t)' =>
          Extracting(t) /\ tree'[box[t]] = tree[box[t]]
  BY <1>1, <1>2 DEF SafeInv, TypeOK, Extracting, Holds, OneOwner
<1>5. Extracted'
  BY <1>2, <1>3, <1>4 DEF Extracted
<1>6. LandedWhole'
  <2>1. \A t \in Session \ {s} : landed'[t] = landed[t]
    BY <1>2 DEF SafeInv, TypeOK
  <2>2. landed'[s] = tree[box[s]]
    BY <1>2 DEF SafeInv, TypeOK
  <2>3. \A i \in 1 .. Len(stream[s]) :
            tree[box[s]][stream[s][i]] = seen[s][stream[s][i]]
    BY <1>1 DEF Extracted
  <2> QED BY <1>1, <1>2, <2>1, <2>2, <2>3 DEF LandedWhole
<1> QED BY <1>2, <1>5, <1>6 DEF WalkedOnce

\* All the other actions leave every other session's sandbox alone.
LEMMA OthersKeepArchive ==
    ASSUME ArchInv, SafeInv',
           \/ \E f \in File : Edit(f)
           \/ \E s \in Session :
                  \/ Approve(s) \/ Lookup(s) \/ StartFails(s) \/ ReceiveFails(s)
                  \/ ReceiveEnds(s) \/ Look(s) \/ ClearStale(s) \/ MoveAside(s)
                  \/ CleanUp(s) \/ CommitFails(s)
           \/ \E p \in Peer : Expire(p)
           \/ Sweep \/ Restart
    PROVE  ArchInv'
<1> USE DEF ArchInv
<1>1. UNCHANGED <<left, seen, stream, box, got, landed>>
  BY DEF Edit, Approve, Lookup, StartFails, ReceiveFails, ReceiveEnds, Look,
     ClearStale, MoveAside, CleanUp, CommitFails, Expire, Sweep, Restart,
     user, sender, receiver, disk
<1>2. \A t \in Session : Extracting(t)' =>
          Extracting(t) /\ tree'[box[t]] = tree[box[t]]
  <2>1. CASE (\E f \in File : Edit(f)) \/ (\E p \in Peer : Expire(p))
    BY <2>1 DEF Edit, Expire, receiver, disk, Extracting, Holds
  <2>2. ASSUME NEW s \in Session,
               \/ Approve(s) \/ Lookup(s) \/ StartFails(s) \/ ReceiveEnds(s)
               \/ Look(s) \/ ClearStale(s) \/ MoveAside(s) \/ CleanUp(s)
        PROVE  \A t \in Session : Extracting(t)' =>
                   Extracting(t) /\ tree'[box[t]] = tree[box[t]]
    <3>1. tree' = tree
      BY <2>2 DEF Approve, Lookup, StartFails, ReceiveEnds, Look, ClearStale,
         MoveAside, CleanUp, disk
    <3>2. \A t \in Session : Extracting(t)' => Extracting(t)
      <4>1. phase \in [Session -> Phase]
        BY DEF SafeInv, TypeOK
      <4>2. CASE Approve(s) \/ Lookup(s) \/ StartFails(s) \/ CleanUp(s)
        BY <4>1, <4>2 DEF Approve, Lookup, StartFails, CleanUp, receiver,
           Extracting, Holds, Holding, Committing
      <4>3. CASE ReceiveEnds(s) \/ Look(s) \/ ClearStale(s) \/ MoveAside(s)
        BY <4>1, <4>3 DEF ReceiveEnds, Look, ClearStale, MoveAside,
           Extracting, Holds, Holding, Committing
      <4> QED BY <2>2, <4>2, <4>3
    <3> QED BY <3>1, <3>2
  <2>3. ASSUME NEW s \in Session, ReceiveFails(s) \/ CommitFails(s)
        PROVE  \A t \in Session : Extracting(t)' =>
                   Extracting(t) /\ tree'[box[t]] = tree[box[t]]
    <3>1. /\ phase' = [phase EXCEPT ![s] = "ended"] /\ Holds(s)
          /\ tree' = tree \/ tree' = [tree EXCEPT ![box[s]] = Gone]
      BY <2>3 DEF ReceiveFails, CommitFails, Blocked, Park, Abort, Holds,
         Holding, Committing
    <3>2. \A t \in Session : Extracting(t)' => Extracting(t) /\ t # s
      BY <3>1 DEF SafeInv, TypeOK, Extracting, Holds, Holding, Committing
    <3>3. \A t \in Session \ {s} : Holds(t) => tree'[box[t]] = tree[box[t]]
      <4>1. \A t \in Session \ {s} : Holds(t) => box[t] # box[s]
        BY <3>1 DEF SafeInv, OneOwner
      <4>2. \A t \in Session : box[t] \in Session
        BY DEF SafeInv, TypeOK
      <4> QED BY <3>1, <4>1, <4>2 DEF SafeInv, TypeOK
    <3> QED BY <3>2, <3>3 DEF Extracting
  <2>4. CASE Sweep
    <3>1. \A t \in Session, p \in Expired : Holds(t) => entries[p].box # box[t]
      BY DEF SafeInv, OneOwner, Expired
    <3>2. \A b \in Session : tree'[b] = tree[b] \/ \E p \in Expired : entries[p].box = b
      BY <2>4 DEF Sweep
    <3>3. \A t \in Session : Holds(t) => tree'[box[t]] = tree[box[t]]
      <4> SUFFICES ASSUME NEW t \in Session, Holds(t)
                   PROVE  tree'[box[t]] = tree[box[t]]
        OBVIOUS
      <4>1. box[t] \in Session
        BY DEF SafeInv, TypeOK
      <4> QED BY <3>1, <3>2, <4>1
    <3> QED BY <2>4, <3>3 DEF Sweep, receiver, Extracting, Holds
  <2>5. CASE Restart
    BY <2>5 DEF Restart, disk, Extracting, Holds, Holding, Committing
  <2> QED BY <2>1, <2>2, <2>3, <2>4, <2>5
<1> QED BY <1>1, <1>2, ArchFrame

LEMMA ArchStep == ArchInv /\ [Next]_vars => ArchInv'
<1> SUFFICES ASSUME ArchInv, [Next]_vars PROVE ArchInv'
  OBVIOUS
<1>1. SafeInv'
  BY SafeStep DEF ArchInv
<1>2. CASE UNCHANGED vars
  BY <1>1, <1>2, ArchFrame DEF vars, Extracting, Holds
<1>3. CASE Next
  BY <1>1, <1>3, VisitKeepsArchive, ClaimKeepsArchive, ExtractKeepsArchive,
     LandKeepsArchive, OthersKeepArchive DEF Next
<1> QED BY <1>2, <1>3

LEMMA LandedMeansArchived == ArchInv => ArchivedLands
<1> SUFFICES ASSUME ArchInv, NEW s \in Session, landed[s] # Gone,
                    NEW f \in ToSet(stream[s])
             PROVE  landed[s][f] = seen[s][f]
  BY DEF ArchivedLands
<1>1. stream[s] \in Seq(File)
  BY DEF ArchInv, SafeInv, TypeOK
<1>2. PICK i \in 1 .. Len(stream[s]) : f = stream[s][i]
  BY <1>1 DEF ToSet
<1> QED BY <1>2 DEF ArchInv, LandedWhole

\* ArchivedLands for every value of the constants: sessions that overlap,
\* fail, resume, expire or restart never mix their archives.
THEOREM CommitsAreWhole == Spec => []ArchivedLands
<1>1. Init => ArchInv
  BY ArchInit
<1>2. ArchInv /\ [Next]_vars => ArchInv'
  BY ArchStep
<1>3. ArchInv => ArchivedLands
  BY LandedMeansArchived
<1> QED BY <1>1, <1>2, <1>3, PTL DEF Spec

-----------------------------------------------------------------------------
(* A whole copy of the destination stays on disk. *)

\* While there is no destination, one of the trees set aside is out of reach of
\* every RemoveAll that is due.
Recoverable ==
    CopyOnDisk /\ dest = Gone =>
        \E b \in Session :
            /\ aside[b] # Gone
            /\ \A s \in Session : phase[s] \in {"clear", "clean"} => box[s] # b

CopyInv == SafeInv /\ Recoverable

\* The steps of a commit that move or remove a copy.
LEMMA CommitKeepsCopy ==
    ASSUME CopyInv, NEW s \in Session,
           ClearStale(s) \/ MoveAside(s) \/ Land(s) \/ CleanUp(s)
    PROVE  Recoverable' /\ (CopyOnDisk => CopyOnDisk')
<1> USE DEF CopyInv, SafeInv
<1>1. /\ phase \in [Session -> Phase] /\ box[s] \in Session
      /\ aside \in [Session -> Tree \cup {Gone}]
  BY DEF TypeOK
<1>2. CASE ClearStale(s) \/ CleanUp(s)
  <2>1. /\ phase[s] \in {"clear", "clean"} /\ phase'[s] \notin {"clear", "clean"}
        /\ \A t \in Session \ {s} : phase'[t] = phase[t]
        /\ aside' = [aside EXCEPT ![box[s]] = Gone]
        /\ UNCHANGED <<box, dest>>
    BY <1>1, <1>2 DEF ClearStale, CleanUp
  <2>2. CASE dest = Gone /\ CopyOnDisk
    <3>1. PICK b \in Session :
              /\ aside[b] # Gone
              /\ \A t \in Session : phase[t] \in {"clear", "clean"} => box[t] # b
      BY <2>2 DEF Recoverable
    <3>2. aside'[b] # Gone
      BY <1>1, <2>1, <3>1
    <3> QED BY <2>1, <3>1, <3>2 DEF Recoverable, CopyOnDisk
  <2>3. CASE dest = Gone /\ ~CopyOnDisk
    BY <1>1, <2>1, <2>3 DEF Recoverable, CopyOnDisk
  <2> QED BY <2>1, <2>2, <2>3 DEF Recoverable, CopyOnDisk
<1>3. CASE MoveAside(s)
  <2>1. /\ phase[s] = "aside" /\ phase'[s] = "landover"
        /\ \A t \in Session \ {s} : phase'[t] = phase[t]
        /\ aside'[box[s]] # Gone
        /\ box' = box
    BY <1>1, <1>3 DEF MoveAside
  <2>2. \A t \in Session : phase'[t] \in {"clear", "clean"} => box[t] # box[s]
    BY <2>1 DEF OneOwner, Holds, Holding, Committing
  <2> QED BY <1>1, <2>1, <2>2 DEF Recoverable, CopyOnDisk
<1>4. CASE Land(s)
  <2>1. tree[box[s]] \in Tree
    BY <1>4 DEF Land, Sandboxes, Extracting, Holds, Holding, Committing
  <2>2. dest' # Gone
    BY <1>4, <2>1, Distinct DEF Land, Tree, Content
  <2> QED BY <2>2 DEF Recoverable, CopyOnDisk
<1> QED BY <1>2, <1>3, <1>4

\* All other steps leave both trees alone, and come to a RemoveAll only with the
\* destination in place.
LEMMA OthersKeepCopy ==
    ASSUME CopyInv,
           \/ \E f \in File : Edit(f)
           \/ \E s \in Session, f \in File : Visit(s, f)
           \/ \E s \in Session :
                  \/ Approve(s) \/ Lookup(s) \/ StartFails(s) \/ Claim(s)
                  \/ OpenEntry(s) \/ WriteEntry(s) \/ ReceiveFails(s)
                  \/ ReceiveEnds(s) \/ Look(s) \/ CommitFails(s)
           \/ \E p \in Peer : Expire(p)
           \/ Sweep \/ Restart \/ UNCHANGED vars
    PROVE  Recoverable' /\ (CopyOnDisk => CopyOnDisk')
<1> USE DEF CopyInv, SafeInv
<1>1. UNCHANGED <<dest, aside>>
  BY DEF Edit, Visit, Approve, Lookup, StartFails, Claim, OpenEntry, WriteEntry,
     ReceiveFails, ReceiveEnds, Look, CommitFails, Expire, Sweep, Restart, disk, vars
<1>2. phase \in [Session -> Phase] /\ box \in [Session -> Session]
  BY DEF TypeOK
<1>3. dest = Gone =>
          \A t \in Session : phase'[t] \in {"clear", "clean"} =>
              phase'[t] = phase[t] /\ box'[t] = box[t]
  <2>1. CASE \/ \E f \in File : Edit(f)
             \/ \E s \in Session, f \in File : Visit(s, f)
             \/ \E p \in Peer : Expire(p)
             \/ Sweep \/ UNCHANGED vars
    BY <2>1 DEF Edit, Visit, Expire, Sweep, receiver, vars
  <2>2. CASE Restart
    BY <2>2 DEF Restart
  <2>3. ASSUME NEW s \in Session,
               \/ Approve(s) \/ Lookup(s) \/ StartFails(s) \/ Claim(s)
               \/ OpenEntry(s) \/ WriteEntry(s)
        PROVE  \A t \in Session : phase'[t] \in {"clear", "clean"} =>
                   phase'[t] = phase[t] /\ box'[t] = box[t]
    BY <1>2, <2>3 DEF Approve, Lookup, StartFails, Claim, OpenEntry, WriteEntry,
       receiver
  <2>4. ASSUME NEW s \in Session, dest = Gone,
               ReceiveFails(s) \/ ReceiveEnds(s) \/ Look(s) \/ CommitFails(s)
        PROVE  \A t \in Session : phase'[t] \in {"clear", "clean"} =>
                   phase'[t] = phase[t] /\ box'[t] = box[t]
    BY <1>2, <2>4 DEF ReceiveFails, ReceiveEnds, Look, CommitFails
  <2> QED BY <2>1, <2>2, <2>3, <2>4
<1> QED BY <1>1, <1>3 DEF Recoverable, CopyOnDisk

LEMMA CopyStep ==
    CopyInv /\ [Next]_vars => CopyInv' /\ (CopyOnDisk => CopyOnDisk')
<1> SUFFICES ASSUME CopyInv, [Next]_vars
             PROVE  CopyInv' /\ (CopyOnDisk => CopyOnDisk')
  OBVIOUS
<1>1. SafeInv'
  BY SafeStep DEF CopyInv
<1>2. Recoverable' /\ (CopyOnDisk => CopyOnDisk')
  BY CommitKeepsCopy, OthersKeepCopy DEF Next
<1> QED BY <1>1, <1>2 DEF CopyInv

\* CopySurvives for every value of the constants: once the destination exists, no
\* step of any commit, failure, sweep or restart leaves the disk without a whole
\* copy of it or of its successor.
THEOREM DestinationSurvives == Spec => CopySurvives
<1>1. Init => CopyInv
  <2>1. Init => Recoverable
    BY DEF Init, Recoverable, CopyOnDisk
  <2> QED BY <2>1, SafeInit DEF CopyInv
<1>2. CopyInv /\ [Next]_vars => [CopyOnDisk => CopyOnDisk']_vars
  BY CopyStep
<1>3. CopyInv /\ [Next]_vars => CopyInv'
  BY CopyStep
<1> QED BY <1>1, <1>2, <1>3, PTL DEF Spec, CopySurvives

-----------------------------------------------------------------------------
(* What is skipped lands, when attempts follow one another. *)

Busy(s) == phase[s] \notin {"unborn", "ended"}

\* One attempt at a time, and its walk starts after its Lookup.
InTurn ==
    /\ \A s, t \in Session : Busy(s) /\ Busy(t) => s = t
    /\ \A s \in Session : handling = s \/ phase[s] = "unborn" =>
           skip[s] = Empty /\ seen[s] = Empty
    /\ \A s \in Session : handling = s => phase[s] # "unborn"

\* What a list of completed files says of a sandbox is true.
Lists(list, b) == \A f \in File : list[f] # NoFile => tree[b][f] = list[f]

\* The sandbox of a parked entry holds what the entry lists ...
EntriesAreTrue ==
    \A p \in Peer : entries[p] # NoEntry =>
        tree[entries[p].box] \in Tree /\ Lists(entries[p].completed, entries[p].box)

\* ... and that of a session, but for the file it is writing.
ListsAreTrue ==
    \A s \in Session : Extracting(s) =>
        \A f \in File :
            /\ completed[s][f] # NoFile
            /\ phase[s] = "writing" => f # stream[s][got[s] + 1]
            => tree[box[s]][f] = completed[s][f]

\* Between Lookup and Claim the registry keeps what the sender was told; after
\* Claim nothing is parked for the session's peer and what it was told is in its
\* own list, unless it sent the file again.
PromisesKept ==
    \A s \in Session :
        /\ phase[s] = "approved" /\ handling # s => skip[s] = Peek(owner[s])
        /\ Holds(s) => entries[owner[s]] = NoEntry
        /\ Extracting(s) =>
               \A f \in File \ ToSet(stream[s]) :
                   skip[s][f] # NoFile => completed[s][f] = skip[s][f]

\* The walk leaves a file out only if it has what the response listed.
SkipsAreListed ==
    \A s \in Session : \A f \in File \ ToSet(stream[s]) :
        seen[s][f] # NoFile => seen[s][f] = skip[s][f]

\* What has landed is over.
LandedIsOver == \A s \in Session : landed[s] # Gone => phase[s] \in {"clean", "ended"}

CalmInv ==
    /\ SafeInv /\ InTurn /\ EntriesAreTrue /\ ListsAreTrue
    /\ PromisesKept /\ SkipsAreListed /\ LandedIsOver
    /\ SkippedLands

LEMMA CalmInit == Init => CalmInv
<1> SUFFICES ASSUME Init PROVE CalmInv
  OBVIOUS
<1>1. \A s \in Session : ~Holds(s) /\ ~Busy(s)
  BY DEF Init, Holds, Holding, Committing, Busy
<1> QED BY <1>1, SafeInit, Distinct DEF Init, CalmInv, InTurn, EntriesAreTrue,
     ListsAreTrue, PromisesKept, SkipsAreListed, LandedIsOver, SkippedLands,
     Extracting, Empty

\* The steps that belong to no session.
LEMMA ClockKeepsCalm ==
    ASSUME CalmInv, Circumstance = {}, SafeInv',
           \/ \E f \in File : Edit(f)
           \/ \E p \in Peer : Expire(p)
           \/ Sweep \/ Restart \/ UNCHANGED vars
    PROVE  CalmInv'
<1> USE DEF CalmInv
<1>1. CASE (\E f \in File : Edit(f)) \/ UNCHANGED vars
  <2>1. UNCHANGED <<handling, owner, skip, left, seen, stream, phase, box,
                    completed, got, entries, tree, aside, dest, landed>>
    BY <1>1 DEF Edit, handshake, sender, receiver, disk, vars
  <2> QED BY <2>1 DEF InTurn, Busy, EntriesAreTrue, Lists, ListsAreTrue,
      PromisesKept, Peek, SkipsAreListed, LandedIsOver, SkippedLands, Extracting,
      Holds
<1>2. ASSUME NEW p \in Peer, Expire(p) PROVE CalmInv'
  <2>1. /\ UNCHANGED <<handling, owner, skip, seen, stream, phase, box,
                       completed, got, tree, landed>>
        /\ entries[p] # NoEntry /\ entries[p] \in Entry
        /\ entries' = [entries EXCEPT ![p] = [@ EXCEPT !.expired = TRUE]]
        /\ ~ \E s \in Session : owner[s] = p /\ phase[s] = "approved"
    BY <1>2 DEF Expire, Claimable, handshake, sender, receiver, disk, SafeInv,
       TypeOK
  <2>2. /\ \A q \in Peer \ {p} : entries'[q] = entries[q]
        /\ entries'[p].box = entries[p].box
        /\ entries'[p].completed = entries[p].completed
    BY <2>1 DEF SafeInv, TypeOK, Entry
  <2>3. EntriesAreTrue'
    BY <2>1, <2>2 DEF EntriesAreTrue, Lists
  <2>4. PromisesKept'
    <3>1. \A s \in Session : phase[s] = "approved" => entries'[owner[s]] = entries[owner[s]]
      BY <2>1, <2>2 DEF SafeInv, TypeOK
    <3>2. \A s \in Session : Holds(s) => entries'[owner[s]] = entries[owner[s]]
      BY <2>1, <2>2 DEF SafeInv, TypeOK, PromisesKept
    <3> QED BY <2>1, <3>1, <3>2 DEF PromisesKept, Peek, Holds, Extracting
  <2> QED BY <2>1, <2>3, <2>4 DEF InTurn, Busy, ListsAreTrue, SkipsAreListed,
      LandedIsOver, SkippedLands, Extracting, Holds
<1>3. CASE Sweep
  <2>1. /\ UNCHANGED <<handling, owner, skip, seen, stream, phase, box,
                       completed, got, landed>>
        /\ \A q \in Peer \ Expired : entries'[q] = entries[q]
        /\ \A q \in Expired : entries'[q] = NoEntry
        /\ \A b \in Session :
               tree'[b] = tree[b] \/ \E p \in Expired : entries[p].box = b
    BY <1>3 DEF Sweep, handshake, sender, receiver, Expired
  <2>2. \A s \in Session : Holds(s) => tree'[box[s]] = tree[box[s]]
    <3> SUFFICES ASSUME NEW s \in Session, Holds(s)
                 PROVE  tree'[box[s]] = tree[box[s]]
      OBVIOUS
    <3>1. box[s] \in Session
      BY DEF SafeInv, TypeOK
    <3>2. ASSUME NEW p \in Expired PROVE entries[p].box # box[s]
      BY DEF SafeInv, OneOwner, Expired
    <3> QED BY <2>1, <3>1, <3>2
  <2>3. \A q \in Peer \ Expired : entries[q] # NoEntry =>
            tree'[entries[q].box] = tree[entries[q].box]
    <3> SUFFICES ASSUME NEW q \in Peer \ Expired, entries[q] # NoEntry
                 PROVE  tree'[entries[q].box] = tree[entries[q].box]
      OBVIOUS
    <3>1. entries[q].box \in Session
      BY DEF SafeInv, TypeOK, Entry
    <3>2. ASSUME NEW p \in Expired PROVE entries[p].box # entries[q].box
      BY DEF SafeInv, OneOwner, Expired
    <3> QED BY <2>1, <3>1, <3>2
  <2>4. EntriesAreTrue'
    BY <2>1, <2>3 DEF EntriesAreTrue, Lists
  <2>5. ListsAreTrue'
    BY <2>1, <2>2 DEF ListsAreTrue, Extracting, Holds
  <2>6. PromisesKept'
    <3>1. \A s \in Session : owner[s] \in Peer
      BY DEF SafeInv, TypeOK
    <3>2. \A q \in Peer : Peek(q)' = Peek(q)
      BY <2>1 DEF Peek, Expired
    <3>3. \A q \in Peer : entries[q] = NoEntry => entries'[q] = NoEntry
      BY <2>1
    <3> QED BY <2>1, <3>1, <3>2, <3>3 DEF PromisesKept, Holds, Extracting
  <2> QED BY <2>1, <2>4, <2>5, <2>6 DEF InTurn, Busy, SkipsAreListed,
      LandedIsOver, SkippedLands
<1>4. CASE Restart
  <2>1. /\ UNCHANGED <<owner, skip, seen, stream, box, completed, got, tree, landed>>
        /\ handling' = Idle /\ \A p \in Peer : entries'[p] = NoEntry
        /\ \A s \in Session : phase'[s] = IF phase[s] = "unborn" THEN "unborn" ELSE "ended"
    BY <1>4 DEF Restart, sender, disk
  <2>2. \A s \in Session : ~Busy(s)' /\ ~Holds(s)'
    BY <2>1 DEF Busy, Holds, Holding, Committing
  <2> QED BY <2>1, <2>2, Distinct DEF InTurn, EntriesAreTrue, ListsAreTrue,
      PromisesKept, SkipsAreListed, LandedIsOver, SkippedLands, Extracting
<1> QED BY <1>1, <1>2, <1>3, <1>4

\* The handshake: a session is approved only when no other is at work, and is
\* told what is parked before it is claimed.
LEMMA HandshakeKeepsCalm ==
    ASSUME CalmInv, Circumstance = {}, SafeInv', NEW s \in Session,
           Approve(s) \/ Lookup(s)
    PROVE  CalmInv'
<1> USE DEF CalmInv
<1>1. UNCHANGED <<owner, seen, stream, box, completed, got, entries, tree, landed>>
  BY DEF Approve, Lookup, sender, receiver, disk
<1>2. CASE Approve(s)
  <2>1. /\ handling' = s /\ phase[s] = "unborn" /\ skip' = skip
        /\ phase' = [phase EXCEPT ![s] = "approved"]
        /\ \A t \in Session \ {s} : ~Busy(t)
    BY <1>2 DEF Approve, Overlaps, Busy
  <2>2. /\ phase'[s] = "approved"
        /\ \A t \in Session \ {s} : phase'[t] = phase[t] /\ ~Busy(t)'
        /\ \A t \in Session : Holds(t)' <=> Holds(t)
        /\ \A t \in Session : Extracting(t)' <=> Extracting(t)
        /\ \A t \in Session : phase'[t] = "writing" <=> phase[t] = "writing"
    BY <2>1 DEF SafeInv, TypeOK, Busy, Holds, Holding, Committing, Extracting
  <2>3. InTurn'
    BY <1>1, <2>1, <2>2 DEF InTurn
  <2>4. PromisesKept'
    BY <1>1, <2>1, <2>2 DEF PromisesKept, Busy
  <2>5. LandedIsOver' /\ EntriesAreTrue' /\ ListsAreTrue'
    BY <1>1, <2>1, <2>2 DEF LandedIsOver, EntriesAreTrue, Lists, ListsAreTrue
  <2> QED BY <1>1, <2>1, <2>3, <2>4, <2>5 DEF SkipsAreListed, SkippedLands
<1>3. CASE Lookup(s)
  <2>1. /\ handling = s /\ handling' = Idle /\ phase' = phase
        /\ skip'[s] = Peek(owner[s])
        /\ \A t \in Session \ {s} : skip'[t] = skip[t]
    BY <1>3 DEF Lookup, receiver, SafeInv, TypeOK
  <2>2. /\ \A f \in File : seen[s][f] = NoFile
        /\ phase[s] # "unborn"
    BY <2>1 DEF InTurn, Empty
  <2>3. Holds(s) => \A f \in File : skip'[s][f] = NoFile
    BY <2>1 DEF PromisesKept, Peek, Empty
  <2>4. InTurn'
    BY <1>1, <2>1, <2>2, Distinct DEF InTurn, Busy
  <2>5. PromisesKept'
    BY <1>1, <2>1, <2>3 DEF PromisesKept, Peek, Holds, Extracting
  <2>6. SkipsAreListed'
    BY <1>1, <2>1, <2>2 DEF SkipsAreListed
  <2> QED BY <1>1, <2>1, <2>4, <2>5, <2>6 DEF EntriesAreTrue, Lists, ListsAreTrue,
      LandedIsOver, SkippedLands, Extracting, Holds
<1> QED BY <1>2, <1>3

\* The walk reads a file that the response did not list, or one that still has
\* the content listed, or sends it.
LEMMA VisitKeepsCalm ==
    ASSUME CalmInv, Circumstance = {}, SafeInv',
           NEW s \in Session, NEW f \in File, Visit(s, f)
    PROVE  CalmInv'
<1> USE DEF CalmInv
<1>1. /\ UNCHANGED <<handling, owner, skip, phase, box, completed, got, entries,
                     tree, landed>>
      /\ handling # s /\ phase[s] \in {"approved", "receiving", "writing"}
      /\ seen' = [seen EXCEPT ![s][f] = src[f]]
      /\ \/ stream' = stream /\ (src[f] = NoFile \/ src[f] = skip[s][f])
         \/ stream' = [stream EXCEPT ![s] = Append(@, f)]
  BY DEF Visit, Walking, handshake, receiver, disk
<1>2. /\ \A t \in Session \ {s} : seen'[t] = seen[t] /\ stream'[t] = stream[t]
      /\ \A g \in File \ {f} : seen'[s][g] = seen[s][g]
      /\ seen'[s][f] = src[f]
  BY <1>1 DEF SafeInv, TypeOK, Known
<1>3. /\ ToSet(stream[s]) \subseteq ToSet(stream'[s])
      /\ f \in ToSet(stream'[s]) \/ src[f] = NoFile \/ src[f] = skip[s][f]
      /\ \A i \in 1 .. Len(stream[s]) : stream'[s][i] = stream[s][i]
  <2>1. CASE stream' = stream /\ (src[f] = NoFile \/ src[f] = skip[s][f])
    BY <2>1
  <2>2. CASE stream' = [stream EXCEPT ![s] = Append(@, f)]
    <3>1. stream[s] \in Seq(File) /\ stream'[s] = Append(stream[s], f)
      BY <2>2 DEF SafeInv, TypeOK
    <3>2. /\ Len(stream'[s]) = Len(stream[s]) + 1 /\ Len(stream[s]) \in Nat
          /\ \A i \in 1 .. Len(stream[s]) : stream'[s][i] = stream[s][i]
          /\ stream'[s][Len(stream[s]) + 1] = f
          /\ DOMAIN stream'[s] = 1 .. Len(stream[s]) + 1
          /\ DOMAIN stream[s] = 1 .. Len(stream[s])
      BY <3>1
    <3>3. f \in ToSet(stream'[s])
      <4>1. Len(stream[s]) + 1 \in DOMAIN stream'[s]
        BY <3>2
      <4> QED BY <3>2, <4>1 DEF ToSet
    <3>4. ToSet(stream[s]) \subseteq ToSet(stream'[s])
      <4>1. \A i \in DOMAIN stream[s] :
                i \in DOMAIN stream'[s] /\ stream'[s][i] = stream[s][i]
        BY <3>2
      <4> QED BY <4>1 DEF ToSet
    <3> QED BY <3>2, <3>3, <3>4
  <2> QED BY <1>1, <2>1, <2>2
<1>4. InTurn'
  BY <1>1, <1>2 DEF InTurn, Busy
<1>5. ListsAreTrue'
  <2> SUFFICES ASSUME NEW t \in Session, Extracting(t), NEW g \in File,
                      completed[t][g] # NoFile,
                      phase[t] = "writing" => g # stream'[t][got[t] + 1]
               PROVE  tree[box[t]][g] = completed[t][g]
    BY <1>1 DEF ListsAreTrue, Extracting, Holds
  <2>1. phase[t] = "writing" => got[t] + 1 \in 1 .. Len(stream[t])
    <3>1. got[t] \in Nat /\ Len(stream[t]) \in Nat
      BY DEF SafeInv, TypeOK
    <3> QED BY <3>1 DEF SafeInv, InArchive
  <2>2. phase[t] = "writing" => stream'[t][got[t] + 1] = stream[t][got[t] + 1]
    BY <1>2, <1>3, <2>1
  <2> QED BY <2>2 DEF ListsAreTrue
<1>6. PromisesKept' /\ SkipsAreListed'
  <2>1. \A t \in Session : ToSet(stream[t]) \subseteq ToSet(stream'[t])
    BY <1>2, <1>3
  <2>2. PromisesKept'
    BY <1>1, <2>1 DEF PromisesKept, Peek, Holds, Extracting
  <2>3. SkipsAreListed'
    <3> SUFFICES ASSUME NEW t \in Session, NEW g \in File \ ToSet(stream'[t]),
                        seen'[t][g] # NoFile
                 PROVE  seen'[t][g] = skip[t][g]
      BY <1>1 DEF SkipsAreListed
    <3>1. CASE t = s /\ g = f
      BY <1>2, <1>3, <3>1
    <3>2. CASE ~(t = s /\ g = f)
      BY <1>2, <2>1, <3>2 DEF SkipsAreListed
    <3> QED BY <3>1, <3>2
  <2> QED BY <2>2, <2>3
<1>7. EntriesAreTrue' /\ LandedIsOver'
  BY <1>1 DEF EntriesAreTrue, Lists, LandedIsOver
<1>8. SkippedLands'
  <2>1. landed[s] = Gone
    BY <1>1 DEF LandedIsOver
  <2> QED BY <1>1, <1>2, <2>1 DEF SkippedLands
<1> QED BY <1>4, <1>5, <1>6, <1>7, <1>8

\* The session takes the sandbox and the list that its sender was told of.
LEMMA ClaimKeepsCalm ==
    ASSUME CalmInv, Circumstance = {}, SafeInv', NEW s \in Session, Claim(s)
    PROVE  CalmInv'
<1> DEFINE p == owner[s]
           b == IF Claimable(p) THEN entries[p].box ELSE s
<1> USE DEF CalmInv
<1>1. /\ p \in Peer /\ b \in Session /\ phase[s] = "approved" /\ landed[s] = Gone
      /\ Claimable(p) => entries[p] # NoEntry /\ tree[b] \in Tree
                         /\ Lists(entries[p].completed, b)
      /\ ~Claimable(p) => Peek(p) = Empty
      /\ Claimable(p) => Peek(p) = entries[p].completed
  BY DEF Claim, Claimable, Peek, SafeInv, TypeOK, Entry, Fresh, FreshBoxes,
     EntriesAreTrue
<1>2. /\ box'[s] = b /\ \A t \in Session \ {s} : box'[t] = box[t]
      /\ entries'[p] = NoEntry
      /\ \A q \in Peer \ {p} : entries'[q] = entries[q]
      /\ phase'[s] = "receiving" /\ \A t \in Session \ {s} : phase'[t] = phase[t]
      /\ completed'[s] = Peek(p)
      /\ \A t \in Session \ {s} : completed'[t] = completed[t]
      /\ tree'[b] = IF tree[b] = Gone THEN Empty ELSE tree[b]
      /\ \A c \in Session \ {b} : tree'[c] = tree[c]
      /\ UNCHANGED <<handling, owner, skip, seen, stream, got, landed>>
  BY <1>1 DEF Claim, handshake, sender, SafeInv, TypeOK
<1>3. Gone \notin Tree
  BY Distinct DEF Tree, Content
<1>4. Claimable(p) => tree'[b] = tree[b]
  BY <1>1, <1>2, <1>3
<1>5. \A t \in Session \ {s} : ~Busy(t) /\ ~Busy(t)' /\ ~Holds(t) /\ ~Holds(t)'
  BY <1>1, <1>2 DEF InTurn, Busy, Holds, Holding, Committing
<1>6. Holds(s)' /\ phase'[s] # "writing"
  BY <1>2 DEF Holds, Holding
<1>7. \A q \in Peer \ {p} : entries[q] # NoEntry => tree'[entries[q].box] = tree[entries[q].box]
  <2> SUFFICES ASSUME NEW q \in Peer \ {p}, entries[q] # NoEntry
               PROVE  tree'[entries[q].box] = tree[entries[q].box]
    OBVIOUS
  <2>1. entries[q].box \in Session
    BY DEF SafeInv, TypeOK, Entry
  <2>2. entries[q].box # b
    BY <1>1 DEF SafeInv, OneOwner, FreshBoxes, Fresh
  <2> QED BY <1>2, <2>1, <2>2
<1> HIDE DEF p, b
<1>8. EntriesAreTrue'
  BY <1>2, <1>7 DEF EntriesAreTrue, Lists
<1>9. ListsAreTrue'
  <2>1. \A f \in File : completed'[s][f] # NoFile => tree'[b][f] = completed'[s][f]
    BY <1>1, <1>2, <1>4 DEF Lists, Empty
  <2> QED BY <1>2, <1>5, <2>1 DEF ListsAreTrue, Extracting
<1>10. PromisesKept'
  <2>1. \A f \in File : skip[s][f] # NoFile => completed'[s][f] = skip[s][f]
    <3>1. CASE handling = s
      BY <3>1 DEF InTurn, Empty
    <3>2. CASE handling # s
      BY <1>1, <1>2, <3>2 DEF PromisesKept, p
    <3> QED BY <3>1, <3>2
  <2>2. \A t \in Session \ {s} : phase'[t] # "approved" /\ ~Extracting(t)' /\ ~Holds(t)'
    BY <1>5 DEF Busy, Extracting
  <2>3. entries'[owner[s]] = NoEntry /\ phase'[s] # "approved"
    BY <1>2 DEF p
  <2> QED BY <1>2, <2>1, <2>2, <2>3 DEF PromisesKept
<1>11. InTurn'
  BY <1>1, <1>2, <1>5 DEF InTurn
<1>12. LandedIsOver'
  BY <1>1, <1>2 DEF LandedIsOver
<1> QED BY <1>2, <1>8, <1>9, <1>10, <1>11, <1>12 DEF SkipsAreListed, SkippedLands

\* Writing a file of the archive changes the session's own sandbox, and its list
\* says so when the file is whole.
LEMMA ExtractKeepsCalm ==
    ASSUME CalmInv, Circumstance = {}, SafeInv',
           NEW s \in Session, OpenEntry(s) \/ WriteEntry(s)
    PROVE  CalmInv'
<1> USE DEF CalmInv
<1> DEFINE f == stream[s][got[s] + 1]
<1>1. /\ UNCHANGED <<handling, owner, skip, seen, stream, box, entries, landed>>
      /\ Extracting(s) /\ Holds(s) /\ phase[s] \in {"receiving", "writing"}
      /\ phase' = [phase EXCEPT ![s] =
              IF phase[s] = "receiving" THEN "writing" ELSE "receiving"]
      /\ got[s] < Len(stream[s])
  BY DEF OpenEntry, WriteEntry, handshake, sender, user, Extracting, Holds, Holding,
     SafeInv, TypeOK, InArchive
<1>2. /\ f \in File /\ f \in ToSet(stream[s]) /\ box[s] \in Session
      /\ tree[box[s]] \in Tree
  <2>1. got[s] \in Nat /\ stream[s] \in Seq(File)
    BY DEF SafeInv, TypeOK
  <2>2. got[s] + 1 \in 1 .. Len(stream[s]) /\ got[s] + 1 \in DOMAIN stream[s]
    BY <1>1, <2>1
  <2> QED BY <1>1, <2>1, <2>2 DEF SafeInv, TypeOK, Sandboxes, ToSet
<1>3. \/ /\ phase[s] = "receiving" /\ completed' = completed /\ got' = got
         /\ tree' = [tree EXCEPT ![box[s]] = [@ EXCEPT ![f] = Partial]]
      \/ /\ phase[s] = "writing" /\ got' = [got EXCEPT ![s] = @ + 1]
         /\ completed' = [completed EXCEPT ![s] = [@ EXCEPT ![f] = seen[s][f]]]
         /\ tree' = [tree EXCEPT ![box[s]] = [@ EXCEPT ![f] = seen[s][f]]]
  BY DEF OpenEntry, WriteEntry, receiver
<1> HIDE DEF f
<1>4. /\ phase'[s] = (IF phase[s] = "receiving" THEN "writing" ELSE "receiving")
      /\ \A t \in Session \ {s} : phase'[t] = phase[t] /\ completed'[t] = completed[t]
      /\ \A c \in Session \ {box[s]} : tree'[c] = tree[c]
      /\ \A g \in File \ {f} : /\ tree'[box[s]][g] = tree[box[s]][g]
                              /\ completed'[s][g] = completed[s][g]
      /\ phase[s] = "writing" => tree'[box[s]][f] = completed'[s][f]
      /\ phase[s] = "receiving" => completed' = completed
  <2>1. \A g \in File \ {f} : tree'[box[s]][g] = tree[box[s]][g]
    BY <1>2, <1>3 DEF SafeInv, TypeOK, Tree
  <2>2. \A g \in File \ {f} : completed'[s][g] = completed[s][g]
    BY <1>2, <1>3 DEF SafeInv, TypeOK, Known
  <2>3. phase[s] = "writing" => tree'[box[s]][f] = completed'[s][f]
    BY <1>2, <1>3 DEF SafeInv, TypeOK, Tree, Known
  <2> QED BY <1>1, <1>3, <2>1, <2>2, <2>3 DEF SafeInv, TypeOK
<1>5. \A t \in Session \ {s} : ~Busy(t) /\ ~Busy(t)' /\ ~Holds(t) /\ ~Holds(t)'
  BY <1>1, <1>4 DEF InTurn, Busy, Holds, Holding, Committing
<1>6. /\ Holds(s)' /\ phase'[s] # "approved"
      /\ \A t \in Session \ {s} : phase[t] # "approved"
  BY <1>4, <1>5 DEF Holds, Holding, Busy
<1>7. EntriesAreTrue'
  <2>1. \A q \in Peer : entries[q] # NoEntry =>
            entries[q].box \in Session /\ entries[q].box # box[s]
    BY <1>1 DEF SafeInv, TypeOK, Entry, OneOwner
  <2> QED BY <1>1, <1>4, <2>1 DEF EntriesAreTrue, Lists
<1>8. ListsAreTrue'
  <2>1. ASSUME NEW g \in File, completed'[s][g] # NoFile,
               phase'[s] = "writing" => g # stream[s][got'[s] + 1]
        PROVE  tree'[box[s]][g] = completed'[s][g]
    <3>1. CASE g = f
      <4>1. phase[s] = "writing"
        BY <1>3, <1>4, <2>1, <3>1 DEF f
      <4> QED BY <1>4, <3>1, <4>1
    <3>2. CASE g # f
      <4>1. completed[s][g] # NoFile /\ g # stream[s][got[s] + 1]
        BY <1>4, <2>1, <3>2 DEF f
      <4>2. tree[box[s]][g] = completed[s][g]
        BY <1>1, <4>1 DEF ListsAreTrue
      <4> QED BY <1>4, <3>2, <4>2
    <3> QED BY <3>1, <3>2
  <2> QED BY <1>1, <1>5, <2>1 DEF ListsAreTrue, Extracting
<1>9. PromisesKept'
  <2>1. \A g \in File \ ToSet(stream[s]) :
            skip[s][g] # NoFile => completed'[s][g] = skip[s][g]
    BY <1>1, <1>2, <1>4 DEF PromisesKept
  <2>2. entries[owner[s]] = NoEntry
    BY <1>1 DEF PromisesKept
  <2> QED BY <1>1, <1>4, <1>5, <1>6, <2>1, <2>2 DEF PromisesKept, Extracting
<1>10. InTurn' /\ LandedIsOver'
  BY <1>1, <1>4, <1>5 DEF InTurn, LandedIsOver
<1> QED BY <1>1, <1>7, <1>8, <1>9, <1>10 DEF SkipsAreListed, SkippedLands

\* A session that ends parks its sandbox with a list that is true of it, or
\* deletes it: it cannot have been cut short in a file it lists ("recut"), nor
\* after its sandbox was renamed away ("cleanup").
LEMMA EndKeepsCalm ==
    ASSUME CalmInv, Circumstance = {}, SafeInv', NEW s \in Session,
           StartFails(s) \/ ReceiveFails(s) \/ CommitFails(s)
    PROVE  CalmInv'
<1> USE DEF CalmInv
<1>1. /\ phase' = [phase EXCEPT ![s] = "ended"]
      /\ UNCHANGED <<handling, owner, skip, seen, stream, box, completed, got, landed>>
      /\ \/ phase[s] = "approved" /\ UNCHANGED <<entries, tree>>
         \/ Extracting(s) /\ Holds(s) /\ Park(s) /\ ~Rewriting(s)
         \/ Extracting(s) /\ Holds(s) /\ Abort(s)
  BY DEF StartFails, ReceiveFails, CommitFails, Blocked, Rewriting, Committing,
     Extracting, Holds, Holding, user, handshake, sender, disk
<1>2. /\ phase'[s] = "ended" /\ Busy(s) /\ box[s] \in Session /\ owner[s] \in Peer
      /\ \A t \in Session \ {s} : phase'[t] = phase[t]
  BY <1>1 DEF SafeInv, TypeOK, Busy, Extracting, Holds, Holding, Committing
<1>3. /\ \A t \in Session \ {s} : phase'[t] \in {"unborn", "ended"}
      /\ \A t \in Session : ~Busy(t)' /\ ~Holds(t)' /\ phase'[t] # "approved"
  BY <1>2 DEF InTurn, Busy, Holds, Holding, Committing
<1>4. InTurn'
  BY <1>1, <1>2, <1>3 DEF InTurn
<1>5. ListsAreTrue' /\ PromisesKept' /\ LandedIsOver'
  BY <1>1, <1>2, <1>3 DEF ListsAreTrue, PromisesKept, Extracting, LandedIsOver
<1>6. EntriesAreTrue'
  <2>1. CASE UNCHANGED <<entries, tree>>
    BY <2>1 DEF EntriesAreTrue, Lists
  <2>2. CASE Extracting(s) /\ Holds(s) /\ Park(s) /\ ~Rewriting(s)
    <3>1. /\ entries'[owner[s]].box = box[s]
          /\ entries'[owner[s]].completed = completed[s]
          /\ \A q \in Peer \ {owner[s]} : entries'[q] = entries[q]
          /\ tree' = tree
      BY <1>2, <2>2 DEF Park, SafeInv, TypeOK
    <3>2. Lists(completed[s], box[s]) /\ tree[box[s]] \in Tree
      BY <2>2 DEF Lists, ListsAreTrue, Rewriting, SafeInv, Sandboxes
    <3> QED BY <3>1, <3>2 DEF EntriesAreTrue, Lists
  <2>3. CASE Extracting(s) /\ Holds(s) /\ Abort(s)
    <3>1. /\ entries' = entries
          /\ \A c \in Session \ {box[s]} : tree'[c] = tree[c]
      BY <2>3 DEF Abort, SafeInv, TypeOK
    <3>2. \A q \in Peer : entries[q] # NoEntry =>
              entries[q].box \in Session /\ entries[q].box # box[s]
      BY <2>3 DEF SafeInv, TypeOK, Entry, OneOwner
    <3> QED BY <3>1, <3>2 DEF EntriesAreTrue, Lists
  <2> QED BY <1>1, <2>1, <2>2, <2>3
<1> QED BY <1>1, <1>4, <1>5, <1>6 DEF SkipsAreListed, SkippedLands

\* The calls of a commit other than the rename into place.
LEMMA CommitKeepsCalm ==
    ASSUME CalmInv, Circumstance = {}, SafeInv', NEW s \in Session,
           ReceiveEnds(s) \/ Look(s) \/ ClearStale(s) \/ MoveAside(s) \/ CleanUp(s)
    PROVE  CalmInv'
<1> USE DEF CalmInv
<1>1. /\ UNCHANGED <<handling, owner, skip, seen, stream, box, completed, got,
                     entries, tree, landed>>
      /\ phase[s] \notin {"unborn", "approved", "ended", "writing"}
      /\ phase[s] # "clean" => landed[s] = Gone
  BY DEF ReceiveEnds, Look, ClearStale, MoveAside, CleanUp, handshake, sender, disk,
     LandedIsOver
<1>2. PICK ph \in Phase : /\ phase' = [phase EXCEPT ![s] = ph]
                          /\ ph \notin {"unborn", "approved", "writing", "clean"}
                          /\ phase[s] = "clean" <=> ph = "ended"
  BY DEF ReceiveEnds, Look, ClearStale, MoveAside, CleanUp, Phase, Holding, Committing
<1>3. /\ phase'[s] = ph /\ Busy(s)
      /\ \A t \in Session \ {s} : phase'[t] = phase[t] /\ ~Busy(t) /\ ~Busy(t)'
      /\ \A t \in Session : Holds(t)' => Holds(t)
      /\ \A t \in Session : Extracting(t)' => Extracting(t) /\ phase[t] # "writing"
  <2>1. phase'[s] = ph /\ Busy(s) /\ \A t \in Session \ {s} : phase'[t] = phase[t]
    BY <1>1, <1>2 DEF Busy, SafeInv, TypeOK
  <2>2. \A t \in Session \ {s} : ~Busy(t) /\ ~Busy(t)'
    BY <2>1 DEF InTurn, Busy
  <2>3. /\ phase[s] # "clean" => Extracting(s) /\ Holds(s)
        /\ phase[s] = "clean" => ~Holds(s)'
    BY <1>1, <1>2, <2>1 DEF SafeInv, TypeOK, Phase, Holds, Holding, Committing, Extracting
  <2>4. \A t \in Session \ {s} : ~Holds(t)'
    BY <2>2 DEF Busy, Holds, Holding, Committing
  <2> QED BY <1>1, <2>1, <2>2, <2>3, <2>4 DEF Extracting
<1>4. InTurn'
  BY <1>1, <1>2, <1>3 DEF InTurn
<1>5. ListsAreTrue'
  BY <1>1, <1>3 DEF ListsAreTrue
<1>6. PromisesKept'
  BY <1>1, <1>2, <1>3 DEF PromisesKept, Peek
<1>7. LandedIsOver'
  BY <1>1, <1>2, <1>3 DEF LandedIsOver
<1> QED BY <1>1, <1>4, <1>5, <1>6, <1>7
    DEF EntriesAreTrue, Lists, SkipsAreListed, SkippedLands

\* A file that was left out has the content the response listed, which is what
\* the sandbox holds when it is renamed into place.
LEMMA LandKeepsCalm ==
    ASSUME CalmInv, Circumstance = {}, SafeInv', NEW s \in Session, Land(s)
    PROVE  CalmInv'
<1> USE DEF CalmInv
<1>1. /\ UNCHANGED <<handling, owner, skip, seen, stream, box, completed, got, entries>>
      /\ phase[s] \in {"land", "landover"} /\ Extracting(s) /\ Holds(s) /\ Busy(s)
      /\ phase'[s] \in {"clean", "ended"}
      /\ \A t \in Session \ {s} : phase'[t] = phase[t] /\ landed'[t] = landed[t]
      /\ landed'[s] = tree[box[s]]
      /\ \A c \in Session \ {box[s]} : tree'[c] = tree[c]
      /\ box[s] \in Session
  BY DEF Land, handshake, sender, SafeInv, TypeOK, Extracting, Holds, Holding,
     Committing, Busy
<1>2. /\ \A t \in Session \ {s} : ~Busy(t) /\ ~Busy(t)' /\ ~Extracting(t)' /\ ~Holds(t)'
      /\ ~Extracting(s)'
  BY <1>1 DEF InTurn, Busy, Holds, Holding, Committing, Extracting
<1>3. InTurn' /\ ListsAreTrue' /\ LandedIsOver'
  BY <1>1, <1>2 DEF InTurn, ListsAreTrue, LandedIsOver
<1>4. EntriesAreTrue'
  <2>1. \A q \in Peer : entries[q] # NoEntry =>
            entries[q].box \in Session /\ entries[q].box # box[s]
    BY <1>1 DEF SafeInv, TypeOK, Entry, OneOwner
  <2> QED BY <1>1, <2>1 DEF EntriesAreTrue, Lists
<1>5. PromisesKept'
  <2>1. entries[owner[s]] = NoEntry /\ phase'[s] # "approved"
    BY <1>1 DEF PromisesKept
  <2>2. \A t \in Session \ {s} : phase'[t] # "approved"
    BY <1>2 DEF Busy
  <2> QED BY <1>1, <1>2, <2>1, <2>2 DEF PromisesKept
<1>6. SkippedLands'
  <2>1. ASSUME NEW f \in File \ ToSet(stream[s]), seen[s][f] # NoFile
        PROVE  tree[box[s]][f] = seen[s][f]
    <3>1. seen[s][f] = skip[s][f]
      BY <2>1 DEF SkipsAreListed
    <3>2. completed[s][f] = skip[s][f]
      BY <1>1, <2>1, <3>1 DEF PromisesKept
    <3> QED BY <1>1, <2>1, <3>1, <3>2 DEF ListsAreTrue
  <2> QED BY <1>1, <2>1 DEF SkippedLands
<1> QED BY <1>1, <1>3, <1>4, <1>5, <1>6 DEF SkipsAreListed

LEMMA CalmStep ==
    ASSUME Circumstance = {}
    PROVE  CalmInv /\ [Next]_vars => CalmInv'
<1> SUFFICES ASSUME CalmInv, [Next]_vars PROVE CalmInv'
  OBVIOUS
<1>1. SafeInv'
  BY SafeStep DEF CalmInv
<1> QED BY <1>1, ClockKeepsCalm, HandshakeKeepsCalm, VisitKeepsCalm, ClaimKeepsCalm,
     ExtractKeepsCalm, EndKeepsCalm, CommitKeepsCalm, LandKeepsCalm DEF Next

\* SkippedLands for any number of attempts, files, edits, faults and restarts,
\* provided the attempts follow one another, the grace period does not end
\* between Peek and Claim, and neither a file already listed nor the removal of
\* the replaced tree is cut short: what the response told the sender to leave out
\* is in the tree that lands.  Each circumstance excluded breaks the property.
THEOREM SkippedFilesLand ==
    ASSUME Circumstance = {}
    PROVE  Spec => []SkippedLands
<1>1. Init => CalmInv
  BY CalmInit
<1>2. CalmInv /\ [Next]_vars => CalmInv'
  BY CalmStep
<1>3. CalmInv => SkippedLands
  BY DEF CalmInv
<1> QED BY <1>1, <1>2, <1>3, PTL DEF Spec
=============================================================================
