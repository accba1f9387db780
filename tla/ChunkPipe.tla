----------------------------- MODULE ChunkPipe -----------------------------
(***************************************************************************)
(* One share transfer, from the archive to the extractor: PublishArchive   *)
(* cuts the archive into numbered chunks and publishes them on a JetStream *)
(* work queue; the receiver's loop goroutine fetches them one at a time,   *)
(* hands each to an io.Pipe and acknowledges it; ExtractArchive reads the  *)
(* other end of the pipe; ReceiveSession waits for both.                   *)
(*                                                                         *)
(* A chunk is its number.  The pipe is a rendezvous: a Write returns only  *)
(* when the reader has taken the whole chunk, or when the reading end is   *)
(* closed, which ReceiveSession does on its way out and so never while the *)
(* loop is still writing (receiver.go:145).  Decryption keeps no state of  *)
(* its own here: a chunk is opened once, after its number was checked.     *)
(***************************************************************************)
EXTENDS Naturals

CONSTANTS
    Chunks,       \* how many chunks the archive is cut into
    MaxLostAcks   \* bound: acknowledgements lost on the way to the server

ASSUME ChunksOK == Chunks \in Nat \ {0} /\ MaxLostAcks \in Nat

Chunk == 0 .. Chunks - 1
Last == Chunks - 1

VARIABLES
    pub,       \* PublishArchive: "sending", "sent" or "failed"
    published, \* chunks the stream has accepted: 0 .. published - 1
    queue,     \* chunks still in the stream
    out,       \* delivered and not acknowledged; MaxAckPending is 1
    due,       \* the delivered chunk may be delivered again
    acked,     \* history: chunks whose acknowledgement reached the server
    lostAcks,  \* acknowledgements lost so far
    loop,      \* receiveLoop: "fetch", "write", "ack", "done" or "failed"
    wantSeq,   \* receiveLoop's wantSeq
    hand,      \* the chunk the loop is writing or acknowledging
    taken,     \* chunks the extractor has read whole
    extract,   \* ExtractArchive: "reading", "ok" or "failed"
    session    \* ReceiveSession: "receiving", "complete" or "failed"

sender == <<pub, published>>
broker == <<queue, out, due, acked, lostAcks>>
receiver == <<loop, wantSeq, hand>>
reader == <<taken, extract>>
vars == <<pub, published, queue, out, due, acked, lostAcks,
          loop, wantSeq, hand, taken, extract, session>>

TypeOK ==
    /\ pub \in {"sending", "sent", "failed"}
    /\ published \in 0 .. Chunks
    /\ queue \in SUBSET Chunk /\ out \in SUBSET queue
    /\ due \in BOOLEAN
    /\ acked \in SUBSET Chunk
    /\ lostAcks \in 0 .. MaxLostAcks
    /\ loop \in {"fetch", "write", "ack", "done", "failed"}
    /\ wantSeq \in 0 .. Chunks
    /\ hand \in Chunk
    /\ taken \in 0 .. Chunks
    /\ extract \in {"reading", "ok", "failed"}
    /\ session \in {"receiving", "complete", "failed"}

Init ==
    /\ pub = "sending" /\ published = 0
    /\ queue = {} /\ out = {} /\ due = FALSE /\ acked = {} /\ lostAcks = 0
    /\ loop = "fetch" /\ wantSeq = 0 /\ hand = 0
    /\ taken = 0 /\ extract = "reading"
    /\ session = "receiving"

-----------------------------------------------------------------------------
\* PublishArchive.  It returns after the final chunk, or at the first error;
\* the server may have stored the chunk whose publish failed.

Store ==
    /\ published < Chunks
    /\ published' = published + 1
    /\ queue' = queue \cup {published}

Publish ==
    /\ pub = "sending"
    /\ Store
    /\ pub' = IF published = Last THEN "sent" ELSE "sending"
    /\ UNCHANGED <<out, due, acked, lostAcks, receiver, reader, session>>

PublishFails ==
    /\ pub = "sending"
    /\ pub' = "failed"
    /\ Store \/ UNCHANGED <<published, queue>>
    /\ UNCHANGED <<out, due, acked, lostAcks, receiver, reader, session>>

-----------------------------------------------------------------------------
\* The stream's consumer: one chunk in flight, the oldest first.

Deliverable(c) ==
    /\ c \in queue
    /\ \/ out = {} /\ \A d \in queue : c <= d
       \/ out = {c} /\ due

AckWaitPasses ==
    /\ out # {} /\ ~due
    /\ due' = TRUE
    /\ UNCHANGED <<sender, queue, out, acked, lostAcks, receiver, reader, session>>

\* mutant: the dropped chunk stays in flight
ExpireFromQueueOnly(c) ==
    /\ c \in queue /\ \A d \in queue : c <= d
    /\ queue' = queue \ {c}
    /\ UNCHANGED <<sender, out, due, acked, lostAcks, receiver, reader, session>>
\* streamMaxAge: the server drops the oldest chunk, delivered or not.
Expire(c) ==
    /\ c \in queue /\ \A d \in queue : c <= d
    /\ queue' = queue \ {c}
    /\ out' = out \ {c}
    /\ UNCHANGED <<sender, due, acked, lostAcks, receiver, reader, session>>

-----------------------------------------------------------------------------
\* receiveLoop.

\* mutant: the sequence header is not compared
FetchUnchecked(c) ==
    /\ loop = "fetch"
    /\ Deliverable(c)
    /\ out' = {c}
    /\ hand' = c
    /\ due' = FALSE
    /\ loop' = "write"
    /\ UNCHANGED <<sender, queue, acked, lostAcks, wantSeq, reader, session>>
\* mutant: the consumer acknowledges on delivery
FetchAutoAck(c) ==
    /\ loop = "fetch"
    /\ Deliverable(c)
    /\ queue' = queue \ {c} /\ out' = {} /\ acked' = acked \cup {c}
    /\ hand' = c
    /\ due' = FALSE
    /\ loop' = IF c = wantSeq THEN "write" ELSE "failed"
    /\ UNCHANGED <<sender, lostAcks, wantSeq, reader, session>>
\* A chunk out of order is Nak'd, which makes it deliverable again at once,
\* and ends the loop.
Fetch(c) ==
    /\ loop = "fetch"
    /\ Deliverable(c)
    /\ out' = {c}
    /\ hand' = c
    /\ due' = (c # wantSeq)
    /\ loop' = IF c = wantSeq THEN "write" ELSE "failed"
    /\ UNCHANGED <<sender, queue, acked, lostAcks, wantSeq, reader, session>>

\* A bad header, a bootstrap that derives no chain, a failed decryption.
Refuse(c) ==
    /\ loop = "fetch"
    /\ Deliverable(c)
    /\ out' = {c}
    /\ due' = TRUE
    /\ loop' = "failed"
    /\ UNCHANGED <<sender, queue, acked, lostAcks, wantSeq, hand, reader, session>>

FetchWaitsForEver == FALSE                                            \* mutant
\* chunkFetchTimeout.
FetchTimesOut ==
    /\ loop = "fetch"
    /\ ~ \E c \in queue : Deliverable(c)
    /\ loop' = "failed"
    /\ UNCHANGED <<sender, broker, wantSeq, hand, reader, session>>

\* Fetch or its batch returns an error, the context is cancelled, or Ack does.
LoopFails ==
    /\ loop \in {"fetch", "ack"}
    /\ loop' = "failed"
    /\ UNCHANGED <<sender, broker, wantSeq, hand, reader, session>>

\* The loop's Write and the extractor's last Read of the chunk: both proceed.
Take ==
    /\ loop = "write"
    /\ extract = "reading"
    /\ taken' = hand + 1
    /\ loop' = "ack"
    /\ UNCHANGED <<sender, broker, wantSeq, hand, extract, session>>

Acknowledged(c) ==
    /\ queue' = queue \ {c}
    /\ out' = out \ {c}
    /\ acked' = acked \cup {c}
    /\ UNCHANGED lostAcks

AckLost ==
    /\ lostAcks < MaxLostAcks
    /\ lostAcks' = lostAcks + 1
    /\ UNCHANGED <<queue, out, acked>>

\* mutant: wantSeq is not advanced
AckUncounted ==
    /\ loop = "ack"
    /\ Acknowledged(hand) \/ AckLost
    /\ loop' = IF hand = Last THEN "done" ELSE "fetch"
    /\ UNCHANGED <<sender, due, wantSeq, hand, reader, session>>
\* Ack is fire and forget: the loop counts the chunk whether or not the
\* server hears of it.
Ack ==
    /\ loop = "ack"
    /\ Acknowledged(hand) \/ AckLost
    /\ wantSeq' = wantSeq + 1
    /\ loop' = IF hand = Last THEN "done" ELSE "fetch"
    /\ UNCHANGED <<sender, due, hand, reader, session>>

-----------------------------------------------------------------------------
\* ExtractArchive and ReceiveSession, one goroutine.

\* The pipe was closed after the final chunk: the gzip stream ends there.
ExtractEnds ==
    /\ extract = "reading" /\ loop = "done"
    /\ extract' = "ok"
    /\ UNCHANGED <<sender, broker, receiver, taken, session>>

\* The pipe was closed with the loop's error.
ExtractSeesError ==
    /\ extract = "reading" /\ loop = "failed"
    /\ extract' = "failed"
    /\ UNCHANGED <<sender, broker, receiver, taken, session>>

\* A corrupt stream, an entry that leaves the sandbox, a write error: it
\* returns without reading the rest of the pipe.
ExtractGivesUp ==
    /\ extract = "reading"
    /\ extract' = "failed"
    /\ UNCHANGED <<sender, broker, receiver, taken, session>>

\* recvErr := <-recvDone, then either the commit or the failure path.
Join ==
    /\ session = "receiving"
    /\ extract # "reading"
    /\ loop \in {"done", "failed"}
    /\ session' = IF extract = "ok" /\ loop = "done" THEN "complete" ELSE "failed"
    /\ UNCHANGED <<sender, broker, receiver, reader>>

-----------------------------------------------------------------------------
Next ==
    \/ Publish \/ PublishFails
    \/ AckWaitPasses
    \/ \E c \in Chunk : Expire(c)
    \/ \E c \in Chunk : Fetch(c)
    \/ \E c \in Chunk : Refuse(c)
    \/ FetchTimesOut \/ LoopFails
    \/ Take \/ Ack
    \/ ExtractEnds \/ ExtractSeesError \/ ExtractGivesUp
    \/ Join

Spec == Init /\ [][Next]_vars

\* The receiver's goroutines are scheduled and its timer expires.  Nothing is
\* assumed of the sender, which may stop, nor of the server's timers.
Fairness ==
    /\ WF_vars(\E c \in Chunk : Fetch(c))
    /\ WF_vars(FetchTimesOut)
    /\ WF_vars(Take)
    /\ WF_vars(Ack)
    /\ WF_vars(ExtractEnds)
    /\ WF_vars(ExtractSeesError)
    /\ WF_vars(Join)

FairSpec == Spec /\ Fairness

-----------------------------------------------------------------------------
\* Properties.

Promise == INSTANCE Transfer WITH
    given <- taken,
    outcome <- CASE session = "receiving" -> "running"
                 [] session = "complete" -> "complete"
                 [] session = "failed" -> "abandoned"

\* Redeliveries, lost acks, expired chunks and failures at any point leave
\* what Transfer promises intact: chunks reach the extractor in order and once
\* each, and a session commits only after all of them (chunk.go:173-252,
\* receiver.go:147-176).
ChunksInOrderOnce == Promise!Spec

\* The server forgets a chunk on acknowledgement only after the extractor has
\* taken it: an ack never runs ahead of the pipe (chunk.go:227-234).
AckedWereTaken == \A c \in acked : c < taken

\* Without a lost ack or a chunk that aged out, the loop is never offered a
\* chunk out of order, however slow the extractor is against AckWait: the
\* "chunk out of order" error blames the network, not the receiver.
GapNeedsLoss ==
    \A c \in Chunk :
        loop = "fetch" /\ Deliverable(c) /\ c # wantSeq =>
            \/ lostAcks > 0
            \/ \E d \in 0 .. published - 1 : d \notin queue \cup acked

Ended == session # "receiving"

\* The extractor returned an error of its own while the loop was still going.
GaveUpEarly == extract = "failed" /\ loop \notin {"done", "failed"}

\* Whatever the sender and the server do, ReceiveSession returns, unless the
\* extractor gave up before the loop did.
EndsUnlessGivenUp == <>(Ended \/ GaveUpEarly)

\* receiver.go:139-144 says of an extractor that returns early that "recvDone
\* always receives a value and that goroutine always exits", so ReceiveSession
\* returns whatever happens.
AlwaysEnds == <>Ended
=============================================================================
