------------------------------ MODULE Handshake ------------------------------
(***************************************************************************)
(* The handshake between `jsync share` and the daemon it addresses, with   *)
(* what surrounds it: the clocks of the two machines, a network that       *)
(* delays, loses and repeats requests, the replay guard and the trusted    *)
(* keys a daemon holds in memory and loses when it restarts, the sessions  *)
(* it approves and the receivers behind them, and the command's retries.   *)
(*                                                                         *)
(* A transfer is its outcome only: Transfer, ChunkPipe and ShareResume     *)
(* have the rest, Prekeys has the keys in the response.  Time is in ticks. *)
(***************************************************************************)
EXTENDS Integers, Sequences

CONSTANTS
    Client,       \* machines that run one `jsync share` each
    Offset,       \* what a client's clock may be, minus the daemon's
    Retries,      \* --retries
    Skew,         \* ClockSkew, in ticks
    Timeout,      \* RequestHandshake's timeout, in ticks
    MaxTime,      \* bound: ticks of the clock
    MaxMishaps    \* bound: requests delivered once more, calls that fail,
                  \* stops of the daemon

ASSUME HandshakeAssumption ==
    /\ Offset \subseteq Int
    /\ Retries \in Nat
    /\ Skew \in Nat /\ Timeout \in Nat
    /\ MaxTime \in Nat /\ MaxMishaps \in Nat

\* The nonce stands for the client and its attempt; the timestamp is the
\* sender's clock.
Request == [from : Client, attempt : Nat, timestamp : Int]

\* Behind a session: no stream ("none"); ReceiveSession before and after the
\* archive was published; its end; or a stream whose receiver died.
Receiver == {"none", "waiting", "receiving", "completed", "failed", "killed"}
SessionType == [request : Request, at : Nat, life : Nat, receiver : Receiver]

Answer == {"none", "approved", "skew", "replay", "denied", "outside"}
Reply == [answer : Answer, session : Nat]
NoReply == [answer |-> "none", session |-> 0]

VARIABLES
    offset,      \* offset[c]: c's clock minus the daemon's
    inRoot,      \* clients whose destination is within an allowed root
    pc,          \* pc[c]: where c's shareAttempt is
    attempt,     \* attempt[c]: cmdShare's attempt
    asked,       \* asked[c]: when this attempt's request was sent
    reply,       \* reply[c]: the response in c's inbox
    session,     \* session[c]: resp.SessionID, an index of sessions
    why,         \* why[c]: the answer that ended the command, if one did
    wire,        \* requests on their way
    overheard,   \* requests that will be delivered once more
    now,         \* the daemon's clock
    up,          \* is the daemon running?
    life,        \* which run of it this is
    keysFile,    \* authorized_clients
    authorized,  \* AuthorizedClients.keys
    seen,        \* ReplayGuard.seen: request -> when it was recorded
    sessions,    \* the sessions approved so far
    mishaps      \* consumed budget

clientVars == <<pc, attempt, asked, session, why>>
netVars == <<reply, wire, overheard>>
settings == <<offset, inRoot>>
daemonVars == <<settings, up, life, keysFile, authorized, seen>>
vars == <<clientVars, netVars, now, daemonVars, sessions, mishaps>>

Place == {"request", "await", "publish", "confirm", "done", "failed"}

TypeOK ==
    /\ offset \in [Client -> Offset] /\ inRoot \subseteq Client
    /\ pc \in [Client -> Place]
    /\ attempt \in [Client -> Nat]
    /\ asked \in [Client -> Nat]
    /\ reply \in [Client -> Reply]
    /\ session \in [Client -> Nat]
    /\ why \in [Client -> Answer]
    /\ wire \subseteq Request /\ overheard \subseteq Request
    /\ now \in Nat
    /\ up \in BOOLEAN /\ life \in Nat
    /\ keysFile \subseteq Client /\ authorized \subseteq Client
    /\ DOMAIN seen \subseteq Request /\ seen \in [DOMAIN seen -> Nat]
    /\ sessions \in Seq(SessionType)
    /\ mishaps \in Nat

Init ==
    /\ offset \in [Client -> Offset] /\ inRoot \in SUBSET Client
    /\ pc = [c \in Client |-> "request"]
    /\ attempt = [c \in Client |-> 1]
    /\ asked = [c \in Client |-> 0]
    /\ reply = [c \in Client |-> NoReply]
    /\ session = [c \in Client |-> 0]
    /\ why = [c \in Client |-> "none"]
    /\ wire = {} /\ overheard = {}
    /\ now = 0
    /\ up = TRUE /\ life = 1
    /\ keysFile \in SUBSET Client /\ authorized = keysFile
    /\ seen = [r \in {} |-> 0]
    /\ sessions = <<>>
    /\ mishaps = 0

Mishap == mishaps < MaxMishaps /\ mishaps' = mishaps + 1

Tick ==
    /\ now < MaxTime /\ now' = now + 1
    /\ UNCHANGED <<clientVars, netVars, daemonVars, sessions, mishaps>>

-----------------------------------------------------------------------------
\* Responder.Handle, in the subscription's callback.

\* mutant: a nonce is dropped a tick early
RecentStrictly == {r \in DOMAIN seen : now - seen[r] < Skew}
\* ReplayGuard.Check drops what is older than ClockSkew before it looks.
Recent == {r \in DOMAIN seen : now - seen[r] <= Skew}

\* mutant: a timestamp behind the clock is never too old
InSkewAhead(r) == r.timestamp - now <= Skew
\* The skew is two-sided.
InSkew(r) == now - r.timestamp \in -Skew .. Skew

\* VerifyRequest, then the destination's roots.
Verdict(r) ==
    IF ~InSkew(r) THEN "skew"
    ELSE IF r \in Recent THEN "replay"
    ELSE IF r.from \notin authorized THEN "denied"
    ELSE IF r.from \notin inRoot THEN "outside"
    ELSE "approved"

\* The guard runs before the ACL: a request that is turned away later is
\* remembered too.
Guarded(r) ==
    seen' = IF ~InSkew(r) THEN seen
            ELSE [q \in Recent \cup {r} |-> IF q \in Recent THEN seen[q] ELSE now]

\* The response goes to the inbox of the request, where the first to arrive
\* counts.  One that gets lost, or whose caller has given up on the attempt,
\* arrives nowhere.
Answered(r, answer, s) ==
    LET c == r.from
    IN \/ UNCHANGED reply
       \/ /\ pc[c] = "await" /\ attempt[c] = r.attempt /\ reply[c] = NoReply
          /\ reply' = [reply EXCEPT ![c] = [answer |-> answer, session |-> s]]

\* Sessions.Create and OnApproved: EnsureStream, whose failure is only logged,
\* and ReceiveSession in a goroutine.
Create(r) ==
    \E receiver \in {"waiting", "none"} :
        /\ sessions' = Append(sessions, [request |-> r, at |-> now, life |-> life,
                                         receiver |-> receiver])
        /\ IF receiver = "none" THEN Mishap ELSE UNCHANGED mishaps

Handle(r) ==
    /\ up
    /\ Guarded(r)
    /\ IF Verdict(r) = "approved"
       THEN Create(r) /\ Answered(r, "approved", Len(sessions) + 1)
       ELSE UNCHANGED <<sessions, mishaps>> /\ Answered(r, Verdict(r), 0)
    /\ UNCHANGED <<settings, up, life, keysFile, authorized>>

\* Nothing makes the network deliver what it carries.
Deliver(r) ==
    /\ r \in wire /\ wire' = wire \ {r}
    /\ Handle(r)
    /\ UNCHANGED <<clientVars, overheard, now>>

Overhear(r) ==
    /\ Mishap
    /\ r \in wire /\ overheard' = overheard \cup {r}
    /\ UNCHANGED <<clientVars, reply, wire, now, daemonVars, sessions>>

Replay(r) ==
    /\ r \in overheard /\ overheard' = overheard \ {r}
    /\ Handle(r)
    /\ UNCHANGED <<clientVars, wire, now>>

-----------------------------------------------------------------------------
\* ReceiveSession's end: its final status goes to the session's own subject.
Finish(s) ==
    /\ up /\ sessions[s].receiver = "receiving"
    /\ sessions' = [sessions EXCEPT ![s].receiver = "completed"]
    /\ UNCHANGED <<clientVars, netVars, now, daemonVars, mishaps>>

FinishBadly(s) ==
    /\ up /\ sessions[s].receiver \in {"waiting", "receiving"}
    /\ Mishap
    /\ sessions' = [sessions EXCEPT ![s].receiver = "failed"]
    /\ UNCHANGED <<clientVars, netVars, now, daemonVars>>

\* The daemon stops, orderly or not.  Sessions, receivers and the guard are
\* memory; streams are not.
Stop ==
    /\ up /\ up' = FALSE
    /\ Mishap
    /\ seen' = [r \in {} |-> 0]
    /\ authorized' = {}
    /\ sessions' = [s \in DOMAIN sessions |->
                       IF sessions[s].receiver \in {"waiting", "receiving"}
                       THEN [sessions[s] EXCEPT !.receiver = "killed"]
                       ELSE sessions[s]]
    /\ UNCHANGED <<settings, clientVars, netVars, now, life, keysFile>>

\* LoadAuthorizedClients, once per run.
Start ==
    /\ ~up /\ up' = TRUE
    /\ life' = life + 1
    /\ authorized' = keysFile
    /\ UNCHANGED <<settings, clientVars, netVars, now, keysFile, seen, sessions,
                   mishaps>>

\* `jsync keys authorize` on the daemon's machine.
Authorize(c) ==
    /\ c \notin keysFile
    /\ keysFile' = keysFile \cup {c}
    /\ UNCHANGED <<settings, clientVars, netVars, now, up, life, authorized, seen,
                   sessions, mishaps>>

-----------------------------------------------------------------------------
\* cmdShare's loop and shareAttempt.

\* A plain error: another attempt after --retry-wait, if there is one left.
Fails(c) ==
    IF attempt[c] <= Retries
    THEN /\ pc' = [pc EXCEPT ![c] = "request"]
         /\ attempt' = [attempt EXCEPT ![c] = @ + 1]
         /\ UNCHANGED why
    ELSE /\ pc' = [pc EXCEPT ![c] = "failed"]
         /\ UNCHANGED <<attempt, why>>

\* A fatalShareError: none.
FailsFor(c, answer) ==
    /\ pc' = [pc EXCEPT ![c] = "failed"]
    /\ why' = [why EXCEPT ![c] = answer]
    /\ UNCHANGED attempt

\* mutant: the timeout counts from the request's timestamp
AskStamped(c) ==
    /\ pc[c] = "request"
    /\ IF up
       THEN /\ pc' = [pc EXCEPT ![c] = "await"]
            /\ asked' = [asked EXCEPT ![c] = now + offset[c]]
            /\ wire' = wire \cup {[from |-> c, attempt |-> attempt[c],
                                   timestamp |-> now + offset[c]]}
            /\ UNCHANGED <<attempt, why>>
       ELSE Fails(c) /\ UNCHANGED <<asked, wire>>
    /\ UNCHANGED <<session, reply, overheard, now, daemonVars, sessions, mishaps>>
\* BuildRequest with a fresh nonce, and Conn.Request; the server says at once
\* when nobody is subscribed.
Ask(c) ==
    /\ pc[c] = "request"
    /\ IF up
       THEN /\ pc' = [pc EXCEPT ![c] = "await"]
            /\ asked' = [asked EXCEPT ![c] = now]
            /\ wire' = wire \cup {[from |-> c, attempt |-> attempt[c],
                                   timestamp |-> now + offset[c]]}
            /\ UNCHANGED <<attempt, why>>
       ELSE Fails(c) /\ UNCHANGED <<asked, wire>>
    /\ UNCHANGED <<session, reply, overheard, now, daemonVars, sessions, mishaps>>

\* Conn.Request returns, and its inbox goes.
Leave(c) ==
    /\ reply' = [reply EXCEPT ![c] = NoReply]
    /\ asked' = [asked EXCEPT ![c] = 0]

\* The end of the clock stands for any later time.
Overdue(c) == now - asked[c] >= Timeout \/ now = MaxTime

\* mutant: the request has no timeout
NeverTimesOut(c) ==
    /\ pc[c] = "await" /\ Overdue(c) /\ reply[c] # NoReply
    /\ Fails(c) /\ Leave(c)
    /\ UNCHANGED <<session, wire, overheard, now, daemonVars, sessions, mishaps>>
TimesOut(c) ==
    /\ pc[c] = "await" /\ Overdue(c)
    /\ Fails(c) /\ Leave(c)
    /\ UNCHANGED <<session, wire, overheard, now, daemonVars, sessions, mishaps>>

\* mutant: a retry keeps the session of the first attempt
TakeReplyKeeping(c) ==
    /\ pc[c] = "await" /\ reply[c] # NoReply
    /\ IF reply[c].answer = "approved"
       THEN /\ pc' = [pc EXCEPT ![c] = "publish"]
            /\ UNCHANGED <<attempt, why>>
       ELSE FailsFor(c, reply[c].answer)
    /\ session' = [session EXCEPT ![c] = IF @ = 0 THEN reply[c].session ELSE @]
    /\ Leave(c)
    /\ UNCHANGED <<wire, overheard, now, daemonVars, sessions, mishaps>>
\* The response; a rejection is fatal.
TakeReply(c) ==
    /\ pc[c] = "await" /\ reply[c] # NoReply
    /\ IF reply[c].answer = "approved"
       THEN /\ pc' = [pc EXCEPT ![c] = "publish"]
            /\ UNCHANGED <<attempt, why>>
       ELSE FailsFor(c, reply[c].answer)
    /\ session' = [session EXCEPT ![c] = reply[c].session]
    /\ Leave(c)
    /\ UNCHANGED <<wire, overheard, now, daemonVars, sessions, mishaps>>

\* PublishArchive: a stream outlives the daemon that made it, but takes nothing
\* while the daemon is down.
Publish(c) ==
    LET s == session[c]
    IN /\ pc[c] = "publish"
       /\ \/ /\ up /\ sessions[s].receiver # "none"
             /\ pc' = [pc EXCEPT ![c] = "confirm"]
             /\ sessions' = [sessions EXCEPT ![s].receiver =
                                IF @ = "waiting" THEN "receiving" ELSE @]
             /\ UNCHANGED <<attempt, why, mishaps>>
          \/ /\ ~up \/ sessions[s].receiver = "none"
             /\ Fails(c) /\ UNCHANGED <<sessions, mishaps>>
          \/ Mishap /\ Fails(c) /\ UNCHANGED sessions
       /\ UNCHANGED <<asked, session, netVars, now, daemonVars>>

\* The final status.
TakeStatus(c) ==
    /\ pc[c] = "confirm"
    /\ \/ /\ sessions[session[c]].receiver = "completed"
          /\ pc' = [pc EXCEPT ![c] = "done"]
          /\ UNCHANGED <<attempt, why>>
       \/ sessions[session[c]].receiver = "failed" /\ Fails(c)
    /\ UNCHANGED <<asked, session, netVars, now, daemonVars, sessions, mishaps>>

\* --transfer-timeout without a word: the receiver died, its status was lost, or
\* it is slow.
Silence(c) ==
    /\ pc[c] = "confirm"
    /\ Fails(c)
    /\ UNCHANGED <<asked, session, netVars, now, daemonVars, sessions, mishaps>>

ClientStep(c) ==
    Ask(c) \/ TimesOut(c) \/ TakeReply(c) \/ Publish(c) \/ TakeStatus(c) \/ Silence(c)

Next ==
    \/ Tick
    \/ \E r \in wire : Deliver(r) \/ Overhear(r)
    \/ \E r \in overheard : Replay(r)
    \/ \E s \in DOMAIN sessions : Finish(s) \/ FinishBadly(s)
    \/ Stop \/ Start
    \/ \E c \in Client : Authorize(c) \/ ClientStep(c)

Spec == Init /\ [][Next]_vars

\* A command runs and its timers fire.  Nothing is assumed of the network, the
\* daemon or its receivers.
FairSpec == Spec /\ WF_vars(Tick) /\ \A c \in Client : WF_vars(ClientStep(c))

-----------------------------------------------------------------------------
\* Properties.

\* Within one run of the daemon a request is approved a second time only if its
\* timestamp was ahead of the daemon's clock the first time: for every other
\* request the guard's memory outlasts the time the request stays fresh
\* (challenge.go:64-85, 95-101).
AcceptedTwiceOnlyFromAhead ==
    \A i, j \in DOMAIN sessions :
        /\ i < j /\ sessions[i].request = sessions[j].request
        /\ sessions[i].life = sessions[j].life
        => sessions[i].request.timestamp > sessions[i].at

\* Even across restarts, which empty the guard, what was approved once is not
\* approved again later than twice the skew (challenge.go:95-101).
AcceptanceWindow ==
    \A i, j \in DOMAIN sessions :
        i < j /\ sessions[i].request = sessions[j].request =>
            sessions[j].at - sessions[i].at <= 2 * Skew

\* "done" is the word of the receiver of this command's own last attempt, not of
\* an earlier one that ended late (jsync/main.go:343-356, 433-470).
DoneIsThisAttempt ==
    \A c \in Client : pc[c] = "done" =>
        LET s == sessions[session[c]]
        IN /\ s.receiver = "completed"
           /\ s.request.from = c /\ s.request.attempt = attempt[c]

\* The command always ends, whatever is lost, late, restarted or silent
\* (jsync/main.go:323-343).
CommandEnds == \A c \in Client : <>(pc[c] \in {"done", "failed"})

\* A command whose key is in authorized_clients when it is about to ask does not
\* end as a stranger's: the quick start starts the daemons, runs `jsync keys
\* authorize`, then shares, and authorized_clients is "exactly like
\* authorized_keys" (README.md:66, 163-190).
TrustedIsAccepted ==
    \A c \in Client :
        (pc[c] = "request" /\ c \in keysFile)
            ~> (pc[c] \in {"done", "failed"} /\ why[c] # "denied")
=============================================================================
