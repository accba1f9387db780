--------------------------- MODULE HandshakeProofs ---------------------------
(***************************************************************************)
(* Proofs about Handshake, for any set of clients, clocks, skew, timeout   *)
(* and bounds.                                                             *)
(*                                                                         *)
(* The guard's promise is not inductive by itself.  What carries it is     *)
(* Remembered: of every request approved in this run of the daemon, either *)
(* the guard still has the nonce, recorded no earlier than the approval,   *)
(* or more than ClockSkew has passed since; and a nonce that Check drops   *)
(* was recorded more than ClockSkew ago.  Dated keeps what was checked at  *)
(* the approval: the timestamp lay within the skew of the clock.           *)
(***************************************************************************)
EXTENDS Handshake, TLAPS

Dated ==
    \A s \in DOMAIN sessions :
        /\ sessions[s].at <= now /\ sessions[s].life <= life
        /\ sessions[s].at - sessions[s].request.timestamp \in -Skew .. Skew

Remembered ==
    up => \A s \in DOMAIN sessions :
        sessions[s].life = life =>
            \/ now > sessions[s].at + Skew
            \/ /\ sessions[s].request \in DOMAIN seen
               /\ seen[sessions[s].request] >= sessions[s].at

Mine(c, s) ==
    /\ s \in DOMAIN sessions
    /\ sessions[s].request.from = c /\ sessions[s].request.attempt = attempt[c]

OwnReply ==
    \A c \in Client : reply[c].answer = "approved" =>
        pc[c] = "await" /\ Mine(c, reply[c].session)

OwnSession ==
    \A c \in Client : pc[c] \in {"publish", "confirm", "done"} => Mine(c, session[c])

HInv ==
    /\ TypeOK
    /\ Dated /\ Remembered /\ AcceptedTwiceOnlyFromAhead
    /\ OwnReply /\ OwnSession /\ DoneIsThisAttempt

-----------------------------------------------------------------------------
\* What every step but an approval leaves of the sessions.
Kept ==
    /\ sessions' \in Seq(SessionType)
    /\ DOMAIN sessions' = DOMAIN sessions
    /\ \A s \in DOMAIN sessions :
          /\ sessions'[s].request = sessions[s].request
          /\ sessions'[s].at = sessions[s].at /\ sessions'[s].life = sessions[s].life
          /\ sessions[s].receiver = "completed" => sessions'[s].receiver = "completed"

LEMMA SessionAt ==
    ASSUME TypeOK, NEW s \in DOMAIN sessions
    PROVE  /\ sessions[s] \in SessionType /\ s \in Nat
           /\ sessions[s].request \in Request /\ sessions[s].request.timestamp \in Int
           /\ sessions[s].at \in Nat /\ sessions[s].life \in Nat
  <1>1. sessions \in Seq(SessionType)
    BY DEF TypeOK
  <1>2. sessions[s] \in SessionType /\ s \in Nat
    BY <1>1
  <1>3. sessions[s].request \in Request /\ sessions[s].at \in Nat /\ sessions[s].life \in Nat
    BY <1>2 DEF SessionType
  <1>4. sessions[s].request.timestamp \in Int
    BY <1>3 DEF Request
  <1> QED
    BY <1>2, <1>3, <1>4

LEMMA Numbers ==
    ASSUME TypeOK
    PROVE  now \in Nat /\ now >= now /\ life \in Nat /\ life >= life /\ mishaps \in Nat
  BY DEF TypeOK

LEMMA UnchangedKept ==
    ASSUME TypeOK, UNCHANGED sessions
    PROVE  Kept
  BY DEF TypeOK, Kept

\* A change of one receiver that has not completed.
LEMMA ReceiverKept ==
    ASSUME TypeOK, NEW s \in DOMAIN sessions, NEW x \in Receiver,
           sessions[s].receiver = "completed" => x = "completed",
           sessions' = [sessions EXCEPT ![s].receiver = x]
    PROVE  Kept
  <1>1. sessions[s] \in SessionType
    BY SessionAt
  <1>2. [sessions[s] EXCEPT !.receiver = x] \in SessionType
    BY <1>1 DEF SessionType
  <1>3. sessions' \in Seq(SessionType) /\ DOMAIN sessions' = DOMAIN sessions
    BY <1>2 DEF TypeOK
  <1>4. \A t \in DOMAIN sessions :
            sessions'[t] = IF t = s THEN [sessions[s] EXCEPT !.receiver = x]
                                    ELSE sessions[t]
    BY DEF TypeOK
  <1> QED
    BY <1>1, <1>3, <1>4 DEF Kept, SessionType

\* With the sessions kept, the claims about them only look at the clock, the
\* guard and the run of the daemon.
LEMMA KeptDates ==
    ASSUME HandshakeAssumption, HInv, Kept, now' \in Nat, now' >= now,
           life' \in Nat, life' >= life
    PROVE  Dated' /\ AcceptedTwiceOnlyFromAhead'
  <1>1. ASSUME NEW s \in DOMAIN sessions'
        PROVE  /\ s \in DOMAIN sessions /\ sessions'[s].request = sessions[s].request
               /\ sessions'[s].at = sessions[s].at /\ sessions'[s].life = sessions[s].life
               /\ sessions[s].request.timestamp \in Int
               /\ sessions[s].at \in Nat /\ sessions[s].life \in Nat
    BY <1>1, SessionAt DEF Kept, HInv
  <1>2. now \in Nat /\ life \in Nat /\ Skew \in Nat
    BY DEF HInv, TypeOK, HandshakeAssumption
  <1>3. Dated'
    BY <1>1, <1>2 DEF HInv, Dated
  <1>4. AcceptedTwiceOnlyFromAhead'
    BY <1>1 DEF HInv, AcceptedTwiceOnlyFromAhead
  <1> QED
    BY <1>3, <1>4

LEMMA KeptClaims ==
    ASSUME HandshakeAssumption, HInv, Kept, UNCHANGED <<up, life, seen>>,
           now' \in Nat, now' >= now
    PROVE  Dated' /\ Remembered' /\ AcceptedTwiceOnlyFromAhead'
  <1>1. now \in Nat /\ life \in Nat /\ Skew \in Nat
    BY DEF HInv, TypeOK, HandshakeAssumption
  <1>2. Dated' /\ AcceptedTwiceOnlyFromAhead'
    BY <1>1, KeptDates
  <1>3. ASSUME NEW s \in DOMAIN sessions'
        PROVE  /\ s \in DOMAIN sessions /\ sessions'[s].request = sessions[s].request
               /\ sessions'[s].at = sessions[s].at /\ sessions'[s].life = sessions[s].life
               /\ sessions[s].at \in Nat /\ sessions[s].life \in Nat
    BY <1>3, SessionAt DEF Kept, HInv
  <1>4. Remembered'
    BY <1>1, <1>3 DEF HInv, Remembered
  <1> QED
    BY <1>2, <1>4

\* Nor do the commands see more of the sessions than is kept.
LEMMA KeptCommands ==
    ASSUME HInv, Kept, UNCHANGED <<pc, attempt, reply, session>>
    PROVE  OwnReply' /\ OwnSession' /\ DoneIsThisAttempt'
  BY DEF HInv, Kept, OwnReply, OwnSession, DoneIsThisAttempt, Mine

\* A command that has no session of its own at hand afterwards.
LEMMA CommandWithout ==
    ASSUME HInv, Kept, NEW c \in Client,
           pc'[c] \in {"request", "await", "failed"}, reply'[c].answer # "approved",
           \A d \in Client \ {c} : /\ pc'[d] = pc[d] /\ attempt'[d] = attempt[d]
                                   /\ reply'[d] = reply[d] /\ session'[d] = session[d]
    PROVE  OwnReply' /\ OwnSession' /\ DoneIsThisAttempt'
  <1>1. OwnReply'
    BY DEF HInv, Kept, OwnReply, Mine
  <1>2. OwnSession'
    BY DEF HInv, Kept, OwnSession, Mine
  <1>3. DoneIsThisAttempt'
    <2> SUFFICES ASSUME NEW d \in Client, pc'[d] = "done"
                 PROVE  /\ sessions'[session'[d]].receiver = "completed"
                        /\ sessions'[session'[d]].request.from = d
                        /\ sessions'[session'[d]].request.attempt = attempt'[d]
      BY DEF DoneIsThisAttempt
    <2>1. d # c /\ pc[d] = "done" /\ session'[d] = session[d] /\ attempt'[d] = attempt[d]
      OBVIOUS
    <2>2. session[d] \in DOMAIN sessions
      BY <2>1 DEF HInv, OwnSession, Mine
    <2> QED
      BY <2>1, <2>2 DEF HInv, Kept, DoneIsThisAttempt
  <1> QED
    BY <1>1, <1>2, <1>3

-----------------------------------------------------------------------------
\* The responder.

LEMMA GuardedStep ==
    ASSUME HInv, NEW r \in Request, Guarded(r)
    PROVE  /\ DOMAIN seen' \subseteq Request /\ seen' \in [DOMAIN seen' -> Nat]
           /\ Recent \subseteq DOMAIN seen'
           /\ \A q \in Recent : seen'[q] = seen[q]
           /\ ~InSkew(r) => seen' = seen
           /\ InSkew(r) => r \in DOMAIN seen' /\ (r \notin Recent => seen'[r] = now)
  <1>1. Recent \subseteq DOMAIN seen
    BY DEF Recent
  <1>2. /\ DOMAIN seen \subseteq Request /\ seen \in [DOMAIN seen -> Nat] /\ now \in Nat
    BY DEF HInv, TypeOK
  <1>3. CASE InSkew(r)
    <2>1. seen' = [q \in Recent \cup {r} |-> IF q \in Recent THEN seen[q] ELSE now]
      BY <1>3 DEF Guarded
    <2>2. \A q \in Recent \cup {r} :
              (IF q \in Recent THEN seen[q] ELSE now) \in Nat
      BY <1>1, <1>2
    <2> QED
      BY <2>1, <2>2, <1>1, <1>2, <1>3
  <1>4. CASE ~InSkew(r)
    BY <1>1, <1>2, <1>4 DEF Guarded
  <1> QED
    BY <1>3, <1>4

\* A nonce the guard drops was recorded longer than the skew ago.
LEMMA DroppedIsOld ==
    ASSUME HandshakeAssumption, HInv, NEW s \in DOMAIN sessions, up, sessions[s].life = life,
           sessions[s].request \notin Recent
    PROVE  now > sessions[s].at + Skew
  <1> DEFINE q == sessions[s].request
  <1>1. sessions[s].at \in Nat /\ now \in Nat /\ Skew \in Nat
    BY SessionAt DEF HInv, TypeOK, HandshakeAssumption
  <1>2. CASE q \in DOMAIN seen /\ seen[q] >= sessions[s].at
    <2>1. seen[q] \in Nat /\ ~(now - seen[q] <= Skew)
      BY <1>2 DEF Recent, HInv, TypeOK
    <2> QED
      BY <1>1, <1>2, <2>1
  <1>3. CASE now > sessions[s].at + Skew
    BY <1>3
  <1> QED
    BY <1>2, <1>3 DEF HInv, Remembered

LEMMA GuardRemembers ==
    ASSUME HandshakeAssumption, HInv, NEW r \in Request, up, Guarded(r), NEW s \in DOMAIN sessions,
           sessions[s].life = life
    PROVE  \/ now > sessions[s].at + Skew
           \/ /\ sessions[s].request \in DOMAIN seen'
              /\ seen'[sessions[s].request] >= sessions[s].at
  <1>1. CASE sessions[s].request \notin Recent
    BY <1>1, DroppedIsOld
  <1>2. CASE sessions[s].request \in Recent
    <2>1. sessions[s].request \in DOMAIN seen' /\ seen'[sessions[s].request] = seen[sessions[s].request]
      BY <1>2, GuardedStep
    <2> QED
      BY <2>1 DEF HInv, Remembered
  <1> QED
    BY <1>1, <1>2

\* What an approval appends.
LEMMA Approved ==
    ASSUME HandshakeAssumption, HInv, NEW r \in Request, up, Create(r)
    PROVE  \E x \in Receiver :
              /\ sessions' = Append(sessions, [request |-> r, at |-> now, life |-> life,
                                               receiver |-> x])
              /\ sessions' \in Seq(SessionType)
              /\ DOMAIN sessions' = 1 .. Len(sessions) + 1
              /\ \A s \in DOMAIN sessions : s \in DOMAIN sessions' /\ sessions'[s] = sessions[s]
              /\ sessions'[Len(sessions) + 1] =
                     [request |-> r, at |-> now, life |-> life, receiver |-> x]
              /\ mishaps' \in Nat
  <1>1. PICK x \in {"waiting", "none"} :
            /\ sessions' = Append(sessions, [request |-> r, at |-> now, life |-> life,
                                             receiver |-> x])
            /\ IF x = "none" THEN Mishap ELSE UNCHANGED mishaps
    BY DEF Create
  <1>2. sessions \in Seq(SessionType) /\ now \in Nat /\ life \in Nat /\ mishaps \in Nat
    BY DEF HInv, TypeOK
  <1>3. x \in Receiver
    BY DEF Receiver
  <1>4. [request |-> r, at |-> now, life |-> life, receiver |-> x] \in SessionType
    BY <1>2, <1>3 DEF SessionType
  <1>5. mishaps' \in Nat
    BY <1>1, <1>2 DEF Mishap
  <1> QED
    BY <1>1, <1>2, <1>3, <1>4, <1>5

\* The claims about sessions and guard survive an approval.
LEMMA ApprovalClaims ==
    ASSUME HandshakeAssumption, HInv, NEW r \in Request, up, Guarded(r), Create(r),
           InSkew(r), r \notin Recent, UNCHANGED <<up, life, now>>
    PROVE  Dated' /\ Remembered' /\ AcceptedTwiceOnlyFromAhead'
  <1> DEFINE n == Len(sessions) + 1
  <1>1. PICK x \in Receiver :
            /\ DOMAIN sessions' = 1 .. Len(sessions) + 1
            /\ \A s \in DOMAIN sessions : s \in DOMAIN sessions' /\ sessions'[s] = sessions[s]
            /\ sessions'[Len(sessions) + 1] =
                   [request |-> r, at |-> now, life |-> life, receiver |-> x]
    BY Approved
  <1>2. /\ now \in Nat /\ life \in Nat /\ Skew \in Nat /\ r.timestamp \in Int
        /\ DOMAIN sessions = 1 .. Len(sessions) /\ Len(sessions) \in Nat
    BY DEF HInv, TypeOK, HandshakeAssumption, Request
  <1>3. DOMAIN sessions' = DOMAIN sessions \cup {n} /\ n \notin DOMAIN sessions
    BY <1>1, <1>2
  <1>4. /\ sessions'[n].request = r /\ sessions'[n].at = now /\ sessions'[n].life = life
    BY <1>1
  <1>5. Dated'
    <2>1. now - r.timestamp \in -Skew .. Skew
      BY DEF InSkew
    <2>2. life' = life /\ now' = now
      OBVIOUS
    <2> SUFFICES ASSUME NEW s \in DOMAIN sessions'
                 PROVE  /\ sessions'[s].at <= now /\ sessions'[s].life <= life
                        /\ sessions'[s].at - sessions'[s].request.timestamp \in -Skew .. Skew
      BY <2>2 DEF Dated
    <2>3. CASE s \in DOMAIN sessions
      BY <1>1, <2>3 DEF HInv, Dated
    <2>4. CASE s = n
      BY <1>2, <1>4, <2>1, <2>4
    <2> QED
      BY <1>3, <2>3, <2>4
  <1>6. Remembered'
    <2> SUFFICES ASSUME NEW s \in DOMAIN sessions', sessions'[s].life = life
                 PROVE  \/ now > sessions'[s].at + Skew
                        \/ /\ sessions'[s].request \in DOMAIN seen'
                           /\ seen'[sessions'[s].request] >= sessions'[s].at
      BY DEF Remembered
    <2>1. CASE s \in DOMAIN sessions
      BY <1>1, <2>1, GuardRemembers
    <2>2. CASE s = n
      BY <1>2, <1>4, <2>2, GuardedStep
    <2> QED
      BY <1>3, <2>1, <2>2
  <1>7. AcceptedTwiceOnlyFromAhead'
    <2> SUFFICES ASSUME NEW i \in DOMAIN sessions', NEW j \in DOMAIN sessions', i < j,
                        sessions'[i].request = sessions'[j].request,
                        sessions'[i].life = sessions'[j].life
                 PROVE  sessions'[i].request.timestamp > sessions'[i].at
      BY DEF AcceptedTwiceOnlyFromAhead
    <2>1. CASE j \in DOMAIN sessions
      <3>1. i \in DOMAIN sessions
        BY <1>2, <1>3, <2>1
      <3> QED
        BY <1>1, <2>1, <3>1 DEF HInv, AcceptedTwiceOnlyFromAhead
    <2>2. CASE j = n
      <3>1. i \in DOMAIN sessions
        BY <1>2, <1>3, <2>2
      <3>2. sessions'[i] = sessions[i] /\ sessions[i].request = r /\ sessions[i].life = life
        BY <1>1, <1>4, <2>2, <3>1
      <3>3. now > sessions[i].at + Skew
        BY <3>1, <3>2, DroppedIsOld
      <3>4. r.timestamp >= now - Skew
        BY <1>2 DEF InSkew
      <3>5. sessions[i].at \in Nat
        BY <3>1, SessionAt DEF HInv
      <3> QED
        BY <1>2, <3>2, <3>3, <3>4, <3>5
    <2> QED
      BY <1>3, <2>1, <2>2
  <1> QED
    BY <1>5, <1>6, <1>7

LEMMA AnsweredType ==
    ASSUME TypeOK, NEW r \in Request, NEW a \in Answer, NEW s \in Nat, Answered(r, a, s)
    PROVE  /\ reply' \in [Client -> Reply]
           /\ \A d \in Client \ {r.from} : reply'[d] = reply[d]
           /\ reply'[r.from] # reply[r.from] =>
                  /\ reply'[r.from] = [answer |-> a, session |-> s]
                  /\ pc[r.from] = "await" /\ attempt[r.from] = r.attempt
  <1>1. reply \in [Client -> Reply] /\ [answer |-> a, session |-> s] \in Reply
    BY DEF TypeOK, Reply
  <1>2. CASE UNCHANGED reply
    BY <1>1, <1>2
  <1>3. CASE /\ pc[r.from] = "await" /\ attempt[r.from] = r.attempt
             /\ reply' = [reply EXCEPT ![r.from] = [answer |-> a, session |-> s]]
    <2>1. r.from \in Client
      BY DEF Request
    <2> QED BY <1>1, <1>3, <2>1
  <1> QED BY <1>2, <1>3 DEF Answered

\* Handle, whoever delivered the request.
LEMMA HandleStep ==
    ASSUME HandshakeAssumption, HInv, NEW r \in Request, Handle(r),
           UNCHANGED <<clientVars, now>>
    PROVE  /\ DOMAIN seen' \subseteq Request /\ seen' \in [DOMAIN seen' -> Nat]
           /\ reply' \in [Client -> Reply] /\ sessions' \in Seq(SessionType)
           /\ mishaps' \in Nat
           /\ Dated' /\ Remembered' /\ AcceptedTwiceOnlyFromAhead'
           /\ OwnReply' /\ OwnSession' /\ DoneIsThisAttempt'
  <1>1. up /\ Guarded(r) /\ UNCHANGED <<up, life, now, pc, attempt, session>>
    BY DEF Handle, clientVars
  <1>2. TypeOK /\ now \in Nat /\ life \in Nat /\ Len(sessions) \in Nat
    BY DEF HInv, TypeOK
  <1>3. CASE Verdict(r) = "approved"
    <2>1. Create(r) /\ Answered(r, "approved", Len(sessions) + 1)
      BY <1>3 DEF Handle
    <2>2. InSkew(r) /\ r \notin Recent
      BY <1>3 DEF Verdict
    <2>3. Dated' /\ Remembered' /\ AcceptedTwiceOnlyFromAhead'
      BY <1>1, <2>1, <2>2, ApprovalClaims
    <2>4. PICK x \in Receiver :
            /\ sessions' \in Seq(SessionType)
            /\ DOMAIN sessions' = 1 .. Len(sessions) + 1
            /\ \A s \in DOMAIN sessions : s \in DOMAIN sessions' /\ sessions'[s] = sessions[s]
            /\ sessions'[Len(sessions) + 1] =
                   [request |-> r, at |-> now, life |-> life, receiver |-> x]
            /\ mishaps' \in Nat
      BY <1>1, <2>1, Approved
    <2>5. "approved" \in Answer /\ Len(sessions) + 1 \in Nat
      BY <1>2 DEF Answer
    <2>6. /\ reply' \in [Client -> Reply]
          /\ \A d \in Client \ {r.from} : reply'[d] = reply[d]
          /\ reply'[r.from] # reply[r.from] =>
                  /\ reply'[r.from] = [answer |-> "approved", session |-> Len(sessions) + 1]
                  /\ pc[r.from] = "await" /\ attempt[r.from] = r.attempt
      BY <1>2, <2>1, <2>5, AnsweredType
    <2>7. Len(sessions) + 1 \in DOMAIN sessions' /\ sessions'[Len(sessions) + 1].request = r
      BY <1>2, <2>4
    <2>8. OwnReply'
      BY <1>1, <2>4, <2>6, <2>7 DEF HInv, OwnReply, Mine
    <2>9. OwnSession'
      BY <1>1, <2>4 DEF HInv, OwnSession, Mine
    <2>10. DoneIsThisAttempt'
      BY <1>1, <2>4 DEF HInv, OwnSession, Mine, DoneIsThisAttempt
    <2> QED
      BY <1>1, <2>3, <2>4, <2>6, <2>8, <2>9, <2>10, GuardedStep
  <1>4. CASE Verdict(r) # "approved"
    <2>1. UNCHANGED <<sessions, mishaps>> /\ Answered(r, Verdict(r), 0)
      BY <1>4 DEF Handle
    <2>2. Verdict(r) \in Answer
      BY DEF Verdict, Answer
    <2>3. /\ reply' \in [Client -> Reply]
          /\ \A d \in Client \ {r.from} : reply'[d] = reply[d]
          /\ reply'[r.from] # reply[r.from] =>
                  reply'[r.from] = [answer |-> Verdict(r), session |-> 0]
      BY <1>2, <2>1, <2>2, AnsweredType
    <2>4. Kept
      BY <1>2, <2>1, UnchangedKept
    <2>5. Dated' /\ AcceptedTwiceOnlyFromAhead'
      BY <1>1, <1>2, <2>4, KeptDates
    <2>6. Remembered'
      BY <1>1, <2>1, GuardRemembers DEF Remembered
    <2>7. OwnReply'
      BY <1>1, <1>4, <2>1, <2>3 DEF HInv, OwnReply, Mine
    <2>8. OwnSession' /\ DoneIsThisAttempt'
      BY <1>1, <2>1 DEF HInv, OwnSession, Mine, DoneIsThisAttempt
    <2>9. mishaps' \in Nat /\ sessions' \in Seq(SessionType)
      BY <2>1 DEF HInv, TypeOK
    <2> QED
      BY <1>1, <2>3, <2>5, <2>6, <2>7, <2>8, <2>9, GuardedStep
  <1> QED
    BY <1>3, <1>4

-----------------------------------------------------------------------------
\* The command.

LEMMA FailsType ==
    ASSUME TypeOK, NEW c \in Client, Fails(c)
    PROVE  /\ pc' \in [Client -> Place] /\ attempt' \in [Client -> Nat]
           /\ why' \in [Client -> Answer]
           /\ pc'[c] \in {"request", "failed"}
           /\ \A d \in Client \ {c} : pc'[d] = pc[d] /\ attempt'[d] = attempt[d]
  <1>1. /\ pc \in [Client -> Place] /\ attempt \in [Client -> Nat] /\ attempt[c] \in Nat
        /\ why \in [Client -> Answer]
    BY DEF TypeOK
  <1>2. "request" \in Place /\ "failed" \in Place
    BY DEF Place
  <1>3. CASE attempt[c] <= Retries
    BY <1>1, <1>2, <1>3 DEF Fails
  <1>4. CASE ~(attempt[c] <= Retries)
    BY <1>1, <1>2, <1>4 DEF Fails
  <1> QED
    BY <1>3, <1>4

LEMMA FailsForType ==
    ASSUME TypeOK, NEW c \in Client, NEW a \in Answer, FailsFor(c, a)
    PROVE  /\ pc' \in [Client -> Place] /\ attempt' = attempt
           /\ why' \in [Client -> Answer]
           /\ pc'[c] = "failed"
           /\ \A d \in Client \ {c} : pc'[d] = pc[d]
  BY DEF TypeOK, FailsFor, Place

LEMMA LeaveType ==
    ASSUME TypeOK, NEW c \in Client, Leave(c)
    PROVE  /\ reply' \in [Client -> Reply] /\ asked' \in [Client -> Nat]
           /\ reply'[c].answer = "none"
           /\ \A d \in Client \ {c} : reply'[d] = reply[d]
  BY DEF TypeOK, Leave, NoReply, Reply, Answer

\* Where an attempt fails, whatever else is left as it was.
LEMMA FailedStep ==
    ASSUME HandshakeAssumption, HInv, NEW c \in Client, Fails(c),
           pc[c] # "await" \/ Leave(c),
           pc[c] = "await" \/ UNCHANGED reply,
           UNCHANGED <<session, sessions>>
    PROVE  /\ OwnReply' /\ OwnSession' /\ DoneIsThisAttempt'
           /\ reply' \in [Client -> Reply]
  <1>1. TypeOK /\ Kept
    BY UnchangedKept DEF HInv
  <1>2. reply' \in [Client -> Reply] /\ reply'[c].answer # "approved"
        /\ \A d \in Client \ {c} : reply'[d] = reply[d]
    BY <1>1, LeaveType DEF HInv, OwnReply, TypeOK
  <1>3. OwnReply' /\ OwnSession' /\ DoneIsThisAttempt'
    BY <1>1, <1>2, FailsType, CommandWithout
  <1> QED
    BY <1>2, <1>3

LEMMA AskStep ==
    ASSUME HandshakeAssumption, HInv, NEW c \in Client, Ask(c)
    PROVE  HInv'
  <1>1. TypeOK /\ Kept
    BY UnchangedKept DEF HInv, Ask
  <1>2. Dated' /\ Remembered' /\ AcceptedTwiceOnlyFromAhead'
    BY <1>1, KeptClaims DEF Ask, daemonVars, TypeOK
  <1>3. pc[c] = "request" /\ reply'[c].answer # "approved" /\ UNCHANGED <<reply, session>>
    BY DEF HInv, OwnReply, Ask
  <1>4. CASE up
    <2>1. offset[c] \in Int /\ now \in Nat /\ attempt[c] \in Nat
      BY <1>1 DEF TypeOK, HandshakeAssumption
    <2>2. [from |-> c, attempt |-> attempt[c], timestamp |-> now + offset[c]] \in Request
      BY <2>1 DEF Request
    <2>3. wire' \subseteq Request
      BY <1>1, <1>4, <2>2 DEF Ask, TypeOK
    <2>4. pc' \in [Client -> Place] /\ pc'[c] = "await" /\ asked' \in [Client -> Nat]
          /\ \A d \in Client \ {c} : pc'[d] = pc[d]
      BY <1>1, <1>4, <2>1 DEF Ask, TypeOK, Place
    <2>5. UNCHANGED <<attempt, why>>
      BY <1>4 DEF Ask
    <2>6. TypeOK'
      BY <1>1, <2>3, <2>4, <2>5 DEF TypeOK, Ask, daemonVars, settings
    <2>7. OwnReply' /\ OwnSession' /\ DoneIsThisAttempt'
      BY <1>1, <1>3, <2>4, <2>5, CommandWithout
    <2> QED
      BY <1>2, <2>6, <2>7 DEF HInv
  <1>5. CASE ~up
    <2>1. Fails(c) /\ UNCHANGED <<asked, wire>>
      BY <1>5 DEF Ask
    <2>2. TypeOK'
      BY <1>1, <2>1, FailsType DEF TypeOK, Ask, daemonVars, settings
    <2>3. OwnReply' /\ OwnSession' /\ DoneIsThisAttempt'
      BY <1>3, <2>1, FailedStep DEF Ask
    <2> QED
      BY <1>2, <2>2, <2>3 DEF HInv
  <1> QED
    BY <1>4, <1>5

LEMMA TimesOutStep ==
    ASSUME HandshakeAssumption, HInv, NEW c \in Client, TimesOut(c)
    PROVE  HInv'
  <1>1. TypeOK /\ Kept
    BY UnchangedKept DEF HInv, TimesOut
  <1>2. Dated' /\ Remembered' /\ AcceptedTwiceOnlyFromAhead'
    BY <1>1, KeptClaims DEF TimesOut, daemonVars, TypeOK
  <1>3. TypeOK'
    BY <1>1, FailsType, LeaveType DEF TypeOK, TimesOut, daemonVars, settings
  <1>4. OwnReply' /\ OwnSession' /\ DoneIsThisAttempt'
    BY FailedStep DEF TimesOut
  <1> QED
    BY <1>2, <1>3, <1>4 DEF HInv

LEMMA TakeReplyStep ==
    ASSUME HandshakeAssumption, HInv, NEW c \in Client, TakeReply(c)
    PROVE  HInv'
  <1>1. TypeOK /\ Kept
    BY UnchangedKept DEF HInv, TakeReply
  <1>2. Dated' /\ Remembered' /\ AcceptedTwiceOnlyFromAhead'
    BY <1>1, KeptClaims DEF TakeReply, daemonVars, TypeOK
  <1>3. /\ reply[c].answer \in Answer /\ reply[c].session \in Nat
        /\ session' = [session EXCEPT ![c] = reply[c].session] /\ Leave(c)
        /\ UNCHANGED <<wire, overheard, now, daemonVars, sessions, mishaps>>
    BY <1>1 DEF TypeOK, Reply, TakeReply
  <1>4. /\ session' \in [Client -> Nat] /\ session'[c] = reply[c].session
        /\ \A d \in Client \ {c} : session'[d] = session[d]
    BY <1>1, <1>3 DEF TypeOK
  <1>5. CASE reply[c].answer = "approved"
    <2>1. pc' = [pc EXCEPT ![c] = "publish"] /\ UNCHANGED <<attempt, why>>
      BY <1>5 DEF TakeReply
    <2>2. /\ pc' \in [Client -> Place] /\ pc'[c] = "publish"
          /\ \A d \in Client \ {c} : pc'[d] = pc[d]
      BY <1>1, <2>1 DEF TypeOK, Place
    <2>3. TypeOK'
      BY <1>1, <1>3, <1>4, <2>1, <2>2, LeaveType DEF TypeOK, daemonVars, settings
    <2>4. Mine(c, reply[c].session)
      BY <1>5 DEF HInv, OwnReply
    <2>5. OwnReply'
      BY <1>1, <1>3, <2>1, <2>2, LeaveType DEF HInv, OwnReply, Mine
    <2>6. OwnSession'
      BY <1>3, <1>4, <2>1, <2>2, <2>4 DEF HInv, OwnSession, Mine
    <2>7. DoneIsThisAttempt'
      BY <1>3, <1>4, <2>1, <2>2 DEF HInv, DoneIsThisAttempt
    <2> QED
      BY <1>2, <2>3, <2>5, <2>6, <2>7 DEF HInv
  <1>6. CASE reply[c].answer # "approved"
    <2>1. FailsFor(c, reply[c].answer)
      BY <1>6 DEF TakeReply
    <2>2. TypeOK'
      BY <1>1, <1>3, <1>4, <2>1, FailsForType, LeaveType DEF TypeOK, daemonVars, settings
    <2>3. OwnReply' /\ OwnSession' /\ DoneIsThisAttempt'
      BY <1>1, <1>3, <1>4, <2>1, FailsForType, LeaveType, CommandWithout
    <2> QED
      BY <1>2, <2>2, <2>3 DEF HInv
  <1> QED
    BY <1>5, <1>6

LEMMA PublishStep ==
    ASSUME HandshakeAssumption, HInv, NEW c \in Client, Publish(c)
    PROVE  HInv'
  <1> DEFINE s == session[c]
             x == IF sessions[s].receiver = "waiting" THEN "receiving"
                  ELSE sessions[s].receiver
  <1>1. TypeOK /\ pc[c] = "publish" /\ s \in DOMAIN sessions
        /\ UNCHANGED <<asked, session, reply, wire, overheard, now, offset, inRoot, up, life,
                       keysFile, authorized, seen>>
    BY DEF HInv, OwnSession, Mine, Publish, netVars, daemonVars, settings
  <1>2. CASE Fails(c) /\ UNCHANGED sessions /\ (Mishap \/ UNCHANGED mishaps)
    <2>1. mishaps' \in Nat
      BY <1>1, <1>2 DEF Mishap, TypeOK
    <2>2. TypeOK'
      BY <1>1, <1>2, <2>1, FailsType DEF TypeOK
    <2>3. OwnReply' /\ OwnSession' /\ DoneIsThisAttempt'
      BY <1>1, <1>2, FailedStep
    <2>4. Dated' /\ Remembered' /\ AcceptedTwiceOnlyFromAhead'
      BY <1>1, <1>2, KeptClaims, UnchangedKept, Numbers
    <2> QED
      BY <2>2, <2>3, <2>4 DEF HInv
  <1>3. CASE /\ pc' = [pc EXCEPT ![c] = "confirm"] /\ UNCHANGED <<attempt, why, mishaps>>
             /\ sessions' = [sessions EXCEPT ![s].receiver =
                                IF @ = "waiting" THEN "receiving" ELSE @]
    <2>1. sessions[s].receiver \in Receiver
      BY <1>1, SessionAt DEF SessionType
    <2>2. x \in Receiver /\ (sessions[s].receiver = "completed" => x = "completed")
      BY <2>1 DEF Receiver
    <2>3. sessions' = [sessions EXCEPT ![s].receiver = x]
      BY <1>3
    <2>4. Kept
      <3> HIDE DEF x, s
      <3> QED
        BY <1>1, <2>2, <2>3, ReceiverKept
    <2>5. Dated' /\ Remembered' /\ AcceptedTwiceOnlyFromAhead'
      BY <1>1, <2>4, KeptClaims DEF TypeOK
    <2>6. /\ pc' \in [Client -> Place] /\ pc'[c] = "confirm"
          /\ \A d \in Client \ {c} : pc'[d] = pc[d]
      BY <1>1, <1>3 DEF TypeOK, Place
    <2>7. TypeOK'
      BY <1>1, <1>3, <2>4, <2>6 DEF TypeOK, Kept
    <2>8. OwnReply'
      BY <1>1, <1>3, <2>4, <2>6 DEF HInv, OwnReply, Mine, Kept
    <2>9. OwnSession'
      BY <1>1, <1>3, <2>4, <2>6 DEF HInv, OwnSession, Mine, Kept
    <2>10. DoneIsThisAttempt'
      BY <1>1, <1>3, <2>4, <2>6 DEF HInv, DoneIsThisAttempt, OwnSession, Mine, Kept
    <2> QED
      BY <2>5, <2>7, <2>8, <2>9, <2>10 DEF HInv
  <1> QED
    BY <1>2, <1>3 DEF Publish

LEMMA TakeStatusStep ==
    ASSUME HandshakeAssumption, HInv, NEW c \in Client, TakeStatus(c) \/ Silence(c)
    PROVE  HInv'
  <1>1. TypeOK /\ pc[c] = "confirm"
        /\ UNCHANGED <<asked, session, reply, wire, overheard, now, offset, inRoot, up, life,
                       keysFile, authorized, seen, sessions, mishaps>>
    BY DEF HInv, TakeStatus, Silence, netVars, daemonVars, settings
  <1>2. Dated' /\ Remembered' /\ AcceptedTwiceOnlyFromAhead'
    BY <1>1, UnchangedKept, KeptClaims, Numbers
  <1>3. CASE Fails(c)
    <2>1. TypeOK'
      BY <1>1, <1>3, FailsType DEF TypeOK
    <2>2. OwnReply' /\ OwnSession' /\ DoneIsThisAttempt'
      BY <1>1, <1>3, FailedStep
    <2> QED
      BY <1>2, <2>1, <2>2 DEF HInv
  <1>4. CASE /\ sessions[session[c]].receiver = "completed"
             /\ pc' = [pc EXCEPT ![c] = "done"] /\ UNCHANGED <<attempt, why>>
    <2>1. /\ pc' \in [Client -> Place] /\ pc'[c] = "done"
          /\ \A d \in Client \ {c} : pc'[d] = pc[d]
      BY <1>1, <1>4 DEF TypeOK, Place
    <2>2. TypeOK'
      BY <1>1, <1>4, <2>1 DEF TypeOK
    <2>3. OwnReply'
      BY <1>1, <1>4, <2>1 DEF HInv, OwnReply, Mine
    <2>4. OwnSession'
      BY <1>1, <1>4, <2>1 DEF HInv, OwnSession, Mine
    <2>5. DoneIsThisAttempt'
      BY <1>1, <1>4, <2>1 DEF HInv, DoneIsThisAttempt, OwnSession, Mine
    <2> QED
      BY <1>2, <2>2, <2>3, <2>4, <2>5 DEF HInv
  <1> QED
    BY <1>3, <1>4 DEF TakeStatus, Silence

-----------------------------------------------------------------------------
\* The daemon and the network.

LEMMA DeliverStep ==
    ASSUME HandshakeAssumption, HInv, NEW r \in wire \cup overheard, Deliver(r) \/ Replay(r)
    PROVE  HInv'
  <1>1. TypeOK /\ r \in Request
    BY DEF HInv, TypeOK
  <1>2. /\ Handle(r) /\ UNCHANGED <<clientVars, now>>
        /\ wire' \subseteq wire /\ overheard' \subseteq overheard
    BY DEF Deliver, Replay
  <1>3. UNCHANGED <<offset, inRoot, up, life, keysFile, authorized, pc, attempt, asked,
                   session, why>>
    BY <1>2 DEF Handle, settings, clientVars
  <1>4. TypeOK'
    BY <1>1, <1>2, <1>3, HandleStep DEF TypeOK
  <1> QED
    BY <1>1, <1>2, <1>4, HandleStep DEF HInv

LEMMA OverhearStep ==
    ASSUME HandshakeAssumption, HInv, NEW r \in wire, Overhear(r)
    PROVE  HInv'
  <1>1. /\ mishaps' = mishaps + 1 /\ overheard' = overheard \cup {r}
        /\ UNCHANGED <<pc, attempt, asked, session, why, reply, wire, now, offset, inRoot,
                       up, life, keysFile, authorized, seen, sessions>>
    BY DEF Overhear, Mishap, clientVars, daemonVars, settings
  <1>2. TypeOK
    BY DEF HInv
  <1>3. TypeOK'
    <2>1. mishaps' \in Nat
      BY <1>1, <1>2, Numbers
    <2>2. overheard' \subseteq Request
      BY <1>1, <1>2 DEF TypeOK
    <2>3. DOMAIN seen' \subseteq Request /\ seen' \in [DOMAIN seen' -> Nat]
      BY <1>1, <1>2 DEF TypeOK
    <2> QED
      BY <1>1, <1>2, <2>1, <2>2, <2>3 DEF TypeOK
  <1> QED
    BY <1>1, <1>2, <1>3, UnchangedKept, KeptClaims, KeptCommands, Numbers DEF HInv

LEMMA FinishStep ==
    ASSUME HandshakeAssumption, HInv, NEW s \in DOMAIN sessions, Finish(s) \/ FinishBadly(s)
    PROVE  HInv'
  <1>1. UNCHANGED <<pc, attempt, asked, session, why, reply, wire, overheard, now, offset,
                   inRoot, up, life, keysFile, authorized, seen>>
    BY DEF Finish, FinishBadly, clientVars, netVars, daemonVars, settings
  <1>2. PICK x \in {"completed", "failed"} :
            /\ sessions[s].receiver # "completed"
            /\ sessions' = [sessions EXCEPT ![s].receiver = x]
            /\ Mishap \/ UNCHANGED mishaps
    BY DEF Finish, FinishBadly
  <1>3. x \in Receiver /\ TypeOK
    BY DEF Receiver, HInv
  <1>4. Kept
    BY <1>2, <1>3, ReceiverKept
  <1>5. mishaps' \in Nat
    BY <1>2, <1>3 DEF Mishap, TypeOK
  <1>6. TypeOK'
    BY <1>1, <1>3, <1>4, <1>5 DEF TypeOK, Kept
  <1> QED
    BY <1>1, <1>3, <1>4, <1>6, KeptClaims, KeptCommands, Numbers DEF HInv

LEMMA StopStep ==
    ASSUME HandshakeAssumption, HInv, Stop
    PROVE  HInv'
  <1> DEFINE Dead(s) == IF sessions[s].receiver \in {"waiting", "receiving"}
                        THEN [sessions[s] EXCEPT !.receiver = "killed"]
                        ELSE sessions[s]
  <1>1. /\ mishaps' = mishaps + 1 /\ up' = FALSE
        /\ seen' = [r \in {} |-> 0] /\ authorized' = {}
        /\ sessions' = [s \in DOMAIN sessions |-> Dead(s)]
        /\ UNCHANGED <<pc, attempt, asked, session, why, reply, wire, overheard, now, offset,
                       inRoot, life, keysFile>>
    BY DEF Stop, Mishap, clientVars, netVars, settings
  <1>2. TypeOK /\ sessions \in Seq(SessionType)
        /\ DOMAIN sessions = 1 .. Len(sessions) /\ Len(sessions) \in Nat
    BY DEF HInv, TypeOK
  <1>3. ASSUME NEW s \in DOMAIN sessions
        PROVE  /\ Dead(s) \in SessionType
               /\ Dead(s).request = sessions[s].request /\ Dead(s).at = sessions[s].at
               /\ Dead(s).life = sessions[s].life
               /\ sessions[s].receiver = "completed" => Dead(s).receiver = "completed"
    <2>1. sessions[s] \in SessionType
      BY <1>2, SessionAt
    <2> QED
      BY <2>1 DEF SessionType, Receiver
  <1>4. sessions' \in Seq(SessionType) /\ DOMAIN sessions' = DOMAIN sessions
    <2> HIDE DEF Dead
    <2> QED
      BY <1>1, <1>2, <1>3
  <1>5. Kept
    BY <1>1, <1>3, <1>4 DEF Kept
  <1>6. TypeOK'
    <2>1. DOMAIN seen' \subseteq Request /\ seen' \in [DOMAIN seen' -> Nat]
      BY <1>1
    <2>2. up' \in BOOLEAN /\ authorized' \subseteq Client
      BY <1>1
    <2>3. mishaps' \in Nat
      BY <1>1, <1>2, Numbers
    <2> QED
      BY <1>1, <1>2, <1>4, <2>1, <2>2, <2>3 DEF TypeOK
  <1>7. Dated' /\ AcceptedTwiceOnlyFromAhead'
    BY <1>1, <1>2, <1>5, KeptDates, Numbers
  <1>8. Remembered'
    BY <1>1 DEF Remembered
  <1> QED
    BY <1>1, <1>5, <1>6, <1>7, <1>8, KeptCommands DEF HInv

LEMMA StartStep ==
    ASSUME HandshakeAssumption, HInv, Start
    PROVE  HInv'
  <1>1. /\ up' = TRUE /\ life' = life + 1 /\ authorized' = keysFile
        /\ UNCHANGED <<pc, attempt, asked, session, why, reply, wire, overheard, now, offset,
                       inRoot, keysFile, seen, sessions, mishaps>>
    BY DEF Start, clientVars, netVars, settings
  <1>2. TypeOK
    BY DEF HInv
  <1>3. Kept
    BY <1>1, <1>2, UnchangedKept
  <1>4. Dated' /\ AcceptedTwiceOnlyFromAhead'
    <2>1. life' \in Nat /\ life' >= life /\ now' \in Nat /\ now' >= now
      BY <1>1, <1>2, Numbers
    <2> QED
      BY <1>3, <2>1, KeptDates
  <1>5. Remembered'
    <2>1. \A s \in DOMAIN sessions : sessions[s].life \in Nat /\ sessions[s].life <= life
      BY <1>2, SessionAt DEF HInv, Dated
    <2>2. life \in Nat
      BY <1>2 DEF TypeOK
    <2> QED
      BY <1>1, <2>1, <2>2 DEF Remembered
  <1>6. TypeOK'
    <2>1. life' \in Nat /\ up' \in BOOLEAN
      BY <1>1, <1>2, Numbers
    <2>2. DOMAIN seen' \subseteq Request /\ seen' \in [DOMAIN seen' -> Nat]
          /\ authorized' \subseteq Client
      BY <1>1, <1>2 DEF TypeOK
    <2> QED
      BY <1>1, <1>2, <2>1, <2>2 DEF TypeOK
  <1> QED
    BY <1>1, <1>3, <1>4, <1>5, <1>6, KeptCommands DEF HInv

LEMMA QuietStep ==
    ASSUME HandshakeAssumption, HInv,
           Tick \/ (\E c \in Client : Authorize(c)) \/ UNCHANGED vars
    PROVE  HInv'
  <1>1. /\ UNCHANGED <<pc, attempt, asked, session, why, reply, wire, overheard, offset,
                       inRoot, up, life, authorized, seen, sessions, mishaps>>
        /\ now' \in {now, now + 1} /\ keysFile' \subseteq keysFile \cup Client
    BY DEF Tick, Authorize, vars, clientVars, netVars, daemonVars, settings
  <1>2. TypeOK
    BY DEF HInv
  <1>3. now' \in Nat /\ now' >= now
    BY <1>1, <1>2, Numbers
  <1>4. TypeOK'
    BY <1>1, <1>2, <1>3 DEF TypeOK
  <1> QED
    BY <1>1, <1>2, <1>3, <1>4, UnchangedKept, KeptClaims, KeptCommands DEF HInv

-----------------------------------------------------------------------------
LEMMA HInvInit ==
    ASSUME HandshakeAssumption, Init
    PROVE  HInv
  <1>1. TypeOK
    BY DEF Init, TypeOK, Place, Reply, NoReply, Answer
  <1>2. OwnReply
    BY DEF Init, OwnReply, NoReply
  <1>3. Dated /\ Remembered /\ AcceptedTwiceOnlyFromAhead /\ OwnSession
        /\ DoneIsThisAttempt
    BY DEF Init, Dated, Remembered, AcceptedTwiceOnlyFromAhead, OwnSession,
           DoneIsThisAttempt
  <1> QED
    BY <1>1, <1>2, <1>3 DEF HInv

LEMMA HInvStep ==
    ASSUME HandshakeAssumption, HInv, [Next]_vars
    PROVE  HInv'
  <1>1. CASE \E r \in wire : Deliver(r)
    BY <1>1, DeliverStep
  <1>2. CASE \E r \in wire : Overhear(r)
    BY <1>2, OverhearStep
  <1>3. CASE \E r \in overheard : Replay(r)
    BY <1>3, DeliverStep
  <1>4. CASE \E s \in DOMAIN sessions : Finish(s) \/ FinishBadly(s)
    BY <1>4, FinishStep
  <1>5. CASE Stop
    BY <1>5, StopStep
  <1>6. CASE Start
    BY <1>6, StartStep
  <1>7. CASE Tick \/ (\E c \in Client : Authorize(c)) \/ UNCHANGED vars
    BY <1>7, QuietStep
  <1>8. CASE \E c \in Client : ClientStep(c)
    BY <1>8, AskStep, TimesOutStep, TakeReplyStep, PublishStep, TakeStatusStep
       DEF ClientStep
  <1> QED
    BY <1>1, <1>2, <1>3, <1>4, <1>5, <1>6, <1>7, <1>8 DEF Next

\* The strengthening holds in every behaviour of the handshake.
THEOREM HandshakeInvariant == Spec => []HInv
  <1>1. Init => HInv
    BY HInvInit, HandshakeAssumption
  <1>2. HInv /\ [Next]_vars => HInv'
    BY HInvStep, HandshakeAssumption
  <1> QED
    BY <1>1, <1>2, PTL DEF Spec

\* Every variable of the handshake keeps its type.
THEOREM HandshakeTypeCorrect == Spec => []TypeOK
  <1>1. HInv => TypeOK
    BY DEF HInv
  <1> QED
    BY <1>1, HandshakeInvariant, PTL

\* Within one run of a daemon a request is approved twice only if its timestamp
\* was ahead of the daemon's clock (ReplayGuard.Check, VerifyRequest).
THEOREM ReplaysAreTurnedAway == Spec => []AcceptedTwiceOnlyFromAhead
  <1>1. HInv => AcceptedTwiceOnlyFromAhead
    BY DEF HInv
  <1> QED
    BY <1>1, HandshakeInvariant, PTL

\* Whatever restarts empty the guard, two approvals of one request lie within
\* twice ClockSkew of each other.
THEOREM RequestsExpire == Spec => []AcceptanceWindow
  <1>1. HInv => AcceptanceWindow
    <2> SUFFICES ASSUME HInv, NEW i \in DOMAIN sessions, NEW j \in DOMAIN sessions,
                        sessions[i].request = sessions[j].request
                 PROVE  sessions[j].at - sessions[i].at <= 2 * Skew
      BY DEF AcceptanceWindow
    <2>1. /\ sessions[i].at \in Nat /\ sessions[j].at \in Nat
          /\ sessions[i].request.timestamp \in Int /\ Skew \in Nat
      BY SessionAt, HandshakeAssumption DEF HInv, HandshakeAssumption
    <2>2. /\ sessions[i].at - sessions[i].request.timestamp \in -Skew .. Skew
          /\ sessions[j].at - sessions[i].request.timestamp \in -Skew .. Skew
      BY DEF HInv, Dated
    <2> QED
      BY <2>1, <2>2
  <1> QED
    BY <1>1, HandshakeInvariant, PTL

\* "done" is the word of the receiver that this command's last attempt started,
\* never of an earlier attempt's (shareAttempt, subscribeTransferStatus).
THEOREM DoneIsOwn == Spec => []DoneIsThisAttempt
  <1>1. HInv => DoneIsThisAttempt
    BY DEF HInv
  <1> QED
    BY <1>1, HandshakeInvariant, PTL
=============================================================================
