-------------------------- MODULE ChunkPipeProofs --------------------------
(***************************************************************************)
(* Machine-checked proofs about ChunkPipe, for any number of chunks and of *)
(* lost acknowledgements.  The inductive invariant ties what the extractor *)
(* has taken to where the receive loop is, and what the server has         *)
(* forgotten to what was acknowledged.                                     *)
(***************************************************************************)
EXTENDS ChunkPipe, TLAPS

\* Where the loop stands, in chunks taken by the extractor.
LoopInStep ==
    /\ loop = "fetch" => taken = wantSeq /\ wantSeq < Chunks
    /\ loop = "write" => taken = wantSeq /\ hand = wantSeq
    /\ loop = "ack" => taken = wantSeq + 1 /\ hand = wantSeq
    /\ loop = "done" => taken = Chunks

\* When the extractor and the session may have returned.
ReturnsInOrder ==
    /\ extract = "ok" => loop = "done"
    /\ session # "receiving" => loop \in {"done", "failed"}
    /\ session = "complete" => loop = "done"

\* What the server still has of the chunks before wantSeq.
ServerInStep ==
    /\ \A c \in acked : c < taken
    /\ \A c \in queue : c < published
    /\ acked \cap queue = {}
    /\ \A c \in acked : c < published
    /\ taken <= published
    /\ loop = "write" => hand < published
    /\ lostAcks = 0 /\ loop \in {"fetch", "write", "ack"} =>
           /\ \A c \in 0 .. wantSeq - 1 : c \notin queue
           /\ out \subseteq IF loop = "fetch" THEN {} ELSE {hand}

PipeInv == TypeOK /\ LoopInStep /\ ReturnsInOrder /\ ServerInStep

LEMMA PipeInit == Init => PipeInv
<1> SUFFICES ASSUME Init PROVE PipeInv
  OBVIOUS
<1>1. 0 \in Chunk /\ 0 \in 0 .. Chunks /\ 0 \in 0 .. MaxLostAcks /\ 0 < Chunks
  BY ChunksOK DEF Chunk
<1>2. TypeOK
  BY <1>1 DEF Init, TypeOK
<1> QED BY <1>1, <1>2 DEF Init, PipeInv, LoopInStep, ReturnsInOrder, ServerInStep

\* The sender and the server's timers leave the receiver alone.
LEMMA OutsideStep ==
    ASSUME PipeInv,
           \/ Publish \/ PublishFails \/ AckWaitPasses
           \/ \E c \in Chunk : Expire(c)
    PROVE  PipeInv'
<1>1. CASE Publish \/ PublishFails
  <2>1. PipeInv' \/ Store
    <3>1. CASE UNCHANGED <<published, queue>>
      BY <1>1, <3>1 DEF Publish, PublishFails, Store, PipeInv, TypeOK,
         LoopInStep, ReturnsInOrder, ServerInStep, receiver, reader
    <3> QED BY <1>1, <3>1 DEF Publish, PublishFails
  <2>2. ASSUME Store PROVE PipeInv'
    <3>1. /\ published \in Chunk /\ published' = published + 1
          /\ queue' = queue \cup {published}
          /\ UNCHANGED <<out, due, acked, lostAcks, loop, wantSeq, hand,
                         taken, extract, session>>
          /\ pub' \in {"sending", "sent", "failed"}
      BY <1>1, <2>2, ChunksOK
      DEF Publish, PublishFails, Store, PipeInv, TypeOK, Chunk, receiver, reader
    <3>2. TypeOK'
      BY <3>1, ChunksOK DEF PipeInv, TypeOK, Chunk
    <3>3. lostAcks = 0 /\ loop \in {"fetch", "write", "ack"} =>
              \A c \in 0 .. wantSeq - 1 : c # published
      <4> SUFFICES ASSUME lostAcks = 0, loop \in {"fetch", "write", "ack"},
                          published \in 0 .. wantSeq - 1
                   PROVE  FALSE
        OBVIOUS
      <4> QED
        BY ChunksOK DEF PipeInv, TypeOK, LoopInStep, ServerInStep, Chunk
    <3> QED BY <3>1, <3>2, <3>3
        DEF PipeInv, TypeOK, Chunk, LoopInStep, ReturnsInOrder, ServerInStep
  <2> QED BY <2>1, <2>2
<1>2. CASE AckWaitPasses
  BY <1>2 DEF AckWaitPasses, PipeInv, TypeOK, LoopInStep, ReturnsInOrder,
     ServerInStep, sender, receiver, reader
<1>3. ASSUME NEW c \in Chunk, Expire(c) PROVE PipeInv'
  BY <1>3 DEF Expire, PipeInv, TypeOK, LoopInStep, ReturnsInOrder,
     ServerInStep, sender, receiver, reader
<1> QED BY <1>1, <1>2, <1>3
LEMMA FetchStep ==
    ASSUME PipeInv, NEW c \in Chunk, Fetch(c)
    PROVE  PipeInv'
<1>1. /\ loop = "fetch" /\ c \in queue /\ taken = wantSeq /\ wantSeq < Chunks
      /\ out' = {c} /\ hand' = c /\ due' = (c # wantSeq)
      /\ loop' = IF c = wantSeq THEN "write" ELSE "failed"
      /\ UNCHANGED <<pub, published, queue, acked, lostAcks, wantSeq, taken,
                     extract, session>>
  BY DEF Fetch, Deliverable, PipeInv, LoopInStep, sender, reader
<1>2. TypeOK'
  BY <1>1 DEF PipeInv, TypeOK
<1> QED BY <1>1, <1>2 DEF PipeInv, LoopInStep, ReturnsInOrder, ServerInStep

\* The ways the loop gives up.
LEMMA GiveUpStep ==
    ASSUME PipeInv,
           \/ \E c \in Chunk : Refuse(c)
           \/ FetchTimesOut \/ LoopFails
    PROVE  PipeInv'
<1>1. /\ loop' = "failed" /\ loop \in {"fetch", "ack"}
      /\ out' \in SUBSET queue /\ due' \in BOOLEAN
      /\ UNCHANGED <<pub, published, queue, acked, lostAcks, wantSeq, hand,
                     taken, extract, session>>
  BY DEF Refuse, FetchTimesOut, LoopFails, Deliverable, PipeInv, TypeOK,
         sender, broker, reader
<1> QED BY <1>1 DEF PipeInv, TypeOK, LoopInStep, ReturnsInOrder, ServerInStep

LEMMA TakeStep ==
    ASSUME PipeInv, Take
    PROVE  PipeInv'
<1>1. /\ loop = "write" /\ loop' = "ack" /\ taken' = hand + 1
      /\ hand = wantSeq /\ taken = wantSeq /\ hand \in Chunk
      /\ UNCHANGED <<pub, published, queue, out, due, acked, lostAcks,
                     wantSeq, hand, extract, session>>
  BY DEF Take, PipeInv, TypeOK, LoopInStep, sender, broker
<1>2. TypeOK'
  BY <1>1, ChunksOK DEF PipeInv, TypeOK, Chunk
<1>3. LoopInStep' /\ ReturnsInOrder'
  BY <1>1 DEF PipeInv, LoopInStep, ReturnsInOrder
<1>4. taken' <= published' /\ \A c \in acked' : c < taken'
  BY <1>1, ChunksOK DEF PipeInv, TypeOK, Chunk, ServerInStep
<1> QED BY <1>1, <1>2, <1>3, <1>4 DEF PipeInv, ServerInStep

LEMMA AckStep ==
    ASSUME PipeInv, Ack
    PROVE  PipeInv'
<1>1. /\ loop = "ack" /\ loop' = IF hand = Last THEN "done" ELSE "fetch"
      /\ wantSeq' = wantSeq + 1
      /\ hand = wantSeq /\ taken = wantSeq + 1 /\ hand \in Chunk
      /\ UNCHANGED <<pub, published, due, hand, taken, extract, session>>
  BY DEF Ack, PipeInv, TypeOK, LoopInStep, sender, reader
<1>2. wantSeq \in Nat /\ wantSeq + 1 <= Chunks
  BY <1>1, ChunksOK DEF PipeInv, TypeOK, Chunk
<1>3. LoopInStep' /\ ReturnsInOrder'
  BY <1>1, <1>2, ChunksOK
     DEF PipeInv, TypeOK, LoopInStep, ReturnsInOrder, Last, Chunk
<1>4. CASE Acknowledged(hand)
  <2>1. /\ queue' = queue \ {hand} /\ out' = out \ {hand}
        /\ acked' = acked \cup {hand} /\ lostAcks' = lostAcks
    BY <1>4 DEF Acknowledged
  <2>2. TypeOK'
    BY <1>1, <1>2, <2>1, ChunksOK DEF PipeInv, TypeOK
  <2>3. lostAcks' = 0 /\ loop' \in {"fetch", "write", "ack"} =>
            /\ \A c \in 0 .. wantSeq' - 1 : c \notin queue'
            /\ out' \subseteq IF loop' = "fetch" THEN {} ELSE {hand'}
    <3> SUFFICES ASSUME lostAcks = 0
                 PROVE  /\ \A c \in 0 .. wantSeq : c \notin queue'
                        /\ out' = {}
      BY <1>1, <1>2, <2>1
    <3>1. \A c \in 0 .. wantSeq - 1 : c \notin queue
      BY <1>1 DEF PipeInv, ServerInStep
    <3>2. \A c \in 0 .. wantSeq : c # hand => c \in 0 .. wantSeq - 1
      BY <1>1, <1>2
    <3>3. out \subseteq {hand}
      BY <1>1 DEF PipeInv, ServerInStep
    <3> QED BY <2>1, <3>1, <3>2, <3>3
  <2>4. hand < taken /\ hand < published
    BY <1>1, ChunksOK DEF PipeInv, TypeOK, ServerInStep, Chunk
  <2>5. \A c \in acked' : c < taken' /\ c < published'
    BY <1>1, <2>1, <2>4 DEF PipeInv, ServerInStep
  <2>6. (\A c \in queue' : c < published') /\ acked' \cap queue' = {}
    BY <1>1, <2>1 DEF PipeInv, ServerInStep
  <2>7. taken' <= published' /\ loop' # "write"
    BY <1>1 DEF PipeInv, ServerInStep
  <2> QED BY <1>3, <2>2, <2>3, <2>5, <2>6, <2>7 DEF PipeInv, ServerInStep
<1>5. CASE AckLost
  <2>1. /\ lostAcks' = lostAcks + 1 /\ lostAcks' \in 0 .. MaxLostAcks
        /\ lostAcks' # 0
        /\ UNCHANGED <<queue, out, acked>>
    BY <1>5, ChunksOK DEF AckLost, PipeInv, TypeOK
  <2>2. TypeOK'
    BY <1>1, <1>2, <2>1, ChunksOK DEF PipeInv, TypeOK
  <2> QED BY <1>1, <1>3, <2>1, <2>2 DEF PipeInv, ServerInStep
<1> QED BY <1>4, <1>5 DEF Ack

LEMMA ExtractStep ==
    ASSUME PipeInv, ExtractEnds \/ ExtractSeesError \/ ExtractGivesUp \/ Join
    PROVE  PipeInv'
BY DEF ExtractEnds, ExtractSeesError, ExtractGivesUp, Join, PipeInv, TypeOK,
       LoopInStep, ReturnsInOrder, ServerInStep, sender, broker, receiver, reader

LEMMA PipeStep == PipeInv /\ [Next]_vars => PipeInv'
<1> SUFFICES ASSUME PipeInv, [Next]_vars PROVE PipeInv'
  OBVIOUS
<1>1. CASE UNCHANGED vars
  BY <1>1 DEF vars, PipeInv, TypeOK, LoopInStep, ReturnsInOrder, ServerInStep,
              Deliverable
<1> QED BY <1>1, OutsideStep, FetchStep, GiveUpStep, TakeStep, AckStep,
           ExtractStep DEF Next

LEMMA PipeInvariant == Spec => []PipeInv
<1> QED BY PipeInit, PipeStep, PTL DEF Spec

-----------------------------------------------------------------------------
\* The results.

\* Every variable of one transfer keeps its type, for any number of chunks.
THEOREM PipeTypeCorrect == Spec => []TypeOK
<1>1. PipeInv => TypeOK
  BY DEF PipeInv
<1> QED BY <1>1, PipeInvariant, PTL

\* An acknowledgement never runs ahead of the pipe (chunk.go:227-234).
THEOREM AcksFollowTheReader == Spec => []AckedWereTaken
<1>1. PipeInv => AckedWereTaken
  BY DEF PipeInv, ServerInStep, AckedWereTaken
<1> QED BY <1>1, PipeInvariant, PTL

\* A chunk out of order is always the network's doing (chunk.go:192-195).
THEOREM GapsAreLosses == Spec => []GapNeedsLoss
<1>1. ASSUME PipeInv, NEW c \in Chunk, loop = "fetch", Deliverable(c),
             c # wantSeq, lostAcks = 0,
             \A d \in 0 .. published - 1 : d \in queue \cup acked
      PROVE  FALSE
  <2>1. /\ out = {} /\ taken = wantSeq /\ wantSeq \in Nat /\ c \in Nat
        /\ c \in queue /\ published \in Nat /\ c < published
        /\ \A d \in queue : c <= d
    BY <1>1, ChunksOK
       DEF PipeInv, LoopInStep, ServerInStep, Deliverable, TypeOK, Chunk
  <2>2. c > wantSeq
    BY <1>1, <2>1 DEF PipeInv, ServerInStep
  <2>3. wantSeq \in queue \cup acked
    BY <1>1, <2>1, <2>2
  <2>4. wantSeq \notin acked
    BY <2>1, <1>1 DEF PipeInv, ServerInStep
  <2> QED BY <2>1, <2>2, <2>3, <2>4
<1>2. PipeInv => GapNeedsLoss
  BY <1>1, ChunksOK DEF GapNeedsLoss, PipeInv, TypeOK
<1> QED BY <1>2, PipeInvariant, PTL

-----------------------------------------------------------------------------
\* ChunkPipe implements Transfer.

LEMMA PromiseInit == Init => Promise!Init
BY DEF Init, Promise!Init

LEMMA PromiseStep == PipeInv /\ [Next]_vars => [Promise!Next]_(Promise!vars)
<1> SUFFICES ASSUME PipeInv, [Next]_vars
             PROVE  [Promise!Next]_(Promise!vars)
  OBVIOUS
<1>1. CASE Take
  <2>1. loop = "write" /\ taken' = taken + 1 /\ session' = session
    BY <1>1 DEF Take, PipeInv, LoopInStep
  <2>2. session = "receiving" /\ taken < Chunks
    BY <2>1, ChunksOK DEF PipeInv, TypeOK, LoopInStep, ReturnsInOrder, Chunk
  <2> QED BY <2>1, <2>2 DEF Promise!Next, Promise!HandOver
<1>2. CASE Join
  <2>1. /\ session = "receiving" /\ taken' = taken
        /\ session' \in {"complete", "failed"}
        /\ session' = "complete" => taken = Chunks
    BY <1>2 DEF Join, reader, PipeInv, LoopInStep
  <2> QED BY <2>1 DEF Promise!Next, Promise!Complete, Promise!Abandon
<1>3. CASE UNCHANGED <<taken, session>>
  BY <1>3 DEF Promise!vars
<1> QED BY <1>1, <1>2, <1>3
    DEF Next, Publish, PublishFails, AckWaitPasses, Expire, Fetch, Refuse,
        FetchTimesOut, LoopFails, Ack, ExtractEnds, ExtractSeesError,
        ExtractGivesUp, reader, vars

\* Whatever the network does, the extractor is given the archive's chunks in
\* order and once each, and the session is complete only with all of them.
THEOREM PipeImplementsTransfer == Spec => ChunksInOrderOnce
<1> QED BY PromiseInit, PromiseStep, PipeInvariant, PTL
        DEF Spec, ChunksInOrderOnce, Promise!Spec
=============================================================================
