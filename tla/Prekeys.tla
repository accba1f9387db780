------------------------------- MODULE Prekeys -------------------------------
(***************************************************************************)
(* The one-time prekeys of a daemon: the pool a handshake response takes   *)
(* one from, the keys pending their consumption, and prekeys.json, which   *)
(* jsyncd saves on a ticker and on shutdown and loads when it starts.      *)
(*                                                                         *)
(* The handshake callback, the receiving goroutines and the main loop      *)
(* interleave; the process may be killed at any step.  The first boot,     *)
(* which generates the pool, is over; nothing calls                        *)
(* ReplenishOneTimePreKeys or RotateSignedPreKey, so the pool only shrinks.*)
(***************************************************************************)
EXTENDS Naturals

CONSTANTS
    MaxSessions, \* bound: approved handshakes
    Key,         \* ids of the prekeys of the first boot
    NoKey,       \* Bundle.OneTimePreKeyID = 0
    MaxLives,    \* bound: runs of jsyncd
    MaxFaults    \* bound: saves that fail

ASSUME PrekeysAssumption ==
    /\ NoKey \notin Key
    /\ {MaxSessions, MaxFaults} \subseteq Nat
    /\ MaxLives \in Nat \ {0}

\* In the order of their approval.
Session == 1 .. MaxSessions
NoSession == 0      \* no handshake is being answered

VARIABLES
    main,      \* where jsyncd's run is
    life,      \* which run of jsyncd this is
    handling,  \* the session Responder.Handle has approved and not yet answered
    otps,      \* Store.otps
    pending,   \* Store.pending
    snapshot,  \* what Save encoded and has yet to write
    file,      \* prekeys.json: the keys in it ...
    torn,      \* ... unless it is cut short
    state,     \* state[s]: how far session s is
    key,       \* key[s]: the prekey in its response
    born,      \* born[s]: the life that approved it
    recorded,  \* history: sessions whose key a prekeys.json written since lacks
    killed,    \* history: lives that did not shut down
    late,      \* history: sessions answered during the shutdown
    unsaved,   \* history: lives whose save on shutdown failed
    faults     \* consumed budget

storeVars == <<otps, pending>>
fileVars == <<snapshot, file, torn>>
sessionVars == <<state, key, born>>
history == <<recorded, killed, late, unsaved>>
vars == <<main, life, handling, storeVars, fileVars, sessionVars, history,
          faults>>

Served(s) == key[s] # NoKey

\* "loop" is the select of jsyncd's run, "draining" is node.Drain; the others are
\* inside a Save, before and after the file is truncated.
Up == {"loop", "saving", "writing", "lastSave", "lastWrite", "draining"}
Stopping == {"lastSave", "lastWrite", "draining"}
Saving == {"saving", "writing", "lastSave", "lastWrite"}

TypeOK ==
    /\ main \in Up \cup {"down"}
    /\ life \in 1 .. MaxLives
    /\ handling \in Session \cup {NoSession}
    /\ otps \subseteq Key /\ pending \subseteq Key
    /\ snapshot \subseteq Key
    /\ file \subseteq Key /\ torn \in BOOLEAN
    /\ state \in [Session -> {"new", "approved", "offered", "derived", "failed", "lost"}]
    /\ key \in [Session -> Key \cup {NoKey}]
    /\ born \in [Session -> 0 .. MaxLives]
    /\ recorded \subseteq Session
    /\ killed \subseteq 1 .. MaxLives
    /\ late \subseteq Session
    /\ unsaved \subseteq 1 .. MaxLives
    /\ faults \in 0 .. MaxFaults

Init ==
    /\ main = "loop" /\ life = 1
    /\ handling = NoSession
    /\ otps = Key /\ pending = {}
    /\ snapshot = {} /\ file = Key /\ torn = FALSE
    /\ state = [s \in Session |-> "new"]
    /\ key = [s \in Session |-> NoKey]
    /\ born = [s \in Session |-> 0]
    /\ recorded = {} /\ killed = {} /\ late = {} /\ unsaved = {}
    /\ faults = 0

-----------------------------------------------------------------------------
\* Responder.Handle, in the subscription's callback: one at a time.

\* Up to OnApproved.  Once Unsubscribe has run no callback starts.
Approve(s) ==
    /\ main \in {"loop", "saving", "writing"} /\ handling = NoSession
    /\ state[s] = "new" /\ \A t \in 1 .. s - 1 : state[t] # "new"
    /\ handling' = s
    /\ state' = [state EXCEPT ![s] = "approved"]
    /\ born' = [born EXCEPT ![s] = life]
    /\ UNCHANGED <<main, life, storeVars, fileVars, key, history, faults>>

\* mutant: the key is deleted when it is handed out
TakeDeleting(k) == otps' = otps \ {k} /\ UNCHANGED pending
\* Store.Bundle: any key of the pool, moved to pending for deriveResponder.
Take(k) == otps' = otps \ {k} /\ pending' = pending \cup {k}

\* The rest of Handle: Bundle and the response.  Unsubscribe does not wait for
\* a callback that runs, so this may come after the last save.
Respond ==
    /\ main \in Up /\ handling # NoSession
    /\ \/ /\ otps = {}
          /\ key' = [key EXCEPT ![handling] = NoKey]
          /\ UNCHANGED storeVars
       \/ \E k \in otps :
            /\ Take(k)
            /\ key' = [key EXCEPT ![handling] = k]
    /\ late' = IF main \in Stopping THEN late \cup {handling} ELSE late
    /\ state' = [state EXCEPT ![handling] = "offered"]
    /\ handling' = NoSession
    /\ UNCHANGED <<main, life, fileVars, born, recorded, killed, unsaved, faults>>

\* deriveResponder, in the goroutine of the session's receiver or watcher: the
\* key the initiator names leaves pending, or the session fails.
Derive(s) ==
    /\ main \in Up /\ born[s] = life /\ state[s] = "offered"
    /\ IF key[s] = NoKey \/ key[s] \in pending
       THEN /\ state' = [state EXCEPT ![s] = "derived"]
            /\ pending' = pending \ {key[s]}
       ELSE /\ state' = [state EXCEPT ![s] = "failed"]
            /\ UNCHANGED pending
    /\ UNCHANGED <<main, life, handling, otps, fileVars, key, born,
                   history, faults>>

-----------------------------------------------------------------------------
\* Save, on the ticker and on shutdown.

\* mutant: the keys that are pending are saved with the pool
EncodeAll == snapshot' = otps \cup pending
\* Encoded under the lock; a pending key is not in it.
Encode == snapshot' = otps

BeginSave ==
    /\ main = "loop" /\ main' = "saving"
    /\ Encode
    /\ UNCHANGED <<life, handling, storeVars, file, torn, sessionVars, history,
                   faults>>

\* ctx is done: Unsubscribe and the save on shutdown.
Stop ==
    /\ main = "loop" /\ main' = "lastSave"
    /\ Encode
    /\ UNCHANGED <<life, handling, storeVars, file, torn, sessionVars, history,
                   faults>>

\* MkdirAll, and WriteFile's open, which cuts the file.
Truncate ==
    /\ main \in {"saving", "lastSave"}
    /\ main' = IF main = "saving" THEN "writing" ELSE "lastWrite"
    /\ torn' = TRUE
    /\ UNCHANGED <<life, handling, storeVars, snapshot, file, sessionVars, history,
                   faults>>

\* Save returns.
SaveReturns ==
    /\ main' = IF main \in Stopping THEN "draining" ELSE "loop"
    /\ snapshot' = {}

\* The write, whole.
EndSave ==
    /\ main \in {"writing", "lastWrite"}
    /\ file' = snapshot /\ torn' = FALSE
    /\ recorded' = recorded \cup {s \in Session :
                       Served(s) /\ born[s] = life /\ key[s] \notin snapshot}
    /\ SaveReturns
    /\ UNCHANGED <<life, handling, storeVars, sessionVars, killed, late, unsaved,
                   faults>>

\* An error, which jsyncd only logs: before the open the file is left as it was,
\* after it cut.
SaveFails ==
    /\ main \in Saving
    /\ faults < MaxFaults /\ faults' = faults + 1
    /\ unsaved' = IF main \in Stopping THEN unsaved \cup {life} ELSE unsaved
    /\ SaveReturns
    /\ UNCHANGED <<life, handling, storeVars, file, torn, sessionVars, recorded,
                   killed, late>>

-----------------------------------------------------------------------------
\* The process.

\* What ends with it: the callback, the goroutines, both pools.
Dies ==
    /\ main' = "down" /\ handling' = NoSession
    /\ otps' = {} /\ pending' = {} /\ snapshot' = {}
    /\ state' = [s \in Session |->
                    IF state[s] \in {"approved", "offered"} THEN "lost" ELSE state[s]]
    /\ UNCHANGED <<life, file, torn, key, born, recorded, unsaved, faults>>

\* mutant: run does not wait for the save
ExitUnsaved ==
    /\ main \in Stopping
    /\ Dies
    /\ UNCHANGED <<killed, late>>
\* node.Drain returned, and with it run.
Exit ==
    /\ main = "draining"
    /\ Dies
    /\ UNCHANGED <<killed, late>>

Kill ==
    /\ main \in Up
    /\ Dies
    /\ killed' = killed \cup {life}
    /\ UNCHANGED late

\* LoadStore: a file cut short does not decode, and jsyncd does not start.
Start ==
    /\ main = "down" /\ ~torn
    /\ life < MaxLives /\ life' = life + 1
    /\ main' = "loop"
    /\ otps' = file /\ pending' = {}
    /\ UNCHANGED <<handling, fileVars, sessionVars, history, faults>>

Next ==
    \/ \E s \in Session : Approve(s) \/ Derive(s)
    \/ Respond
    \/ BeginSave \/ Stop \/ Truncate \/ EndSave \/ SaveFails
    \/ Exit \/ Kill \/ Start

Spec == Init /\ [][Next]_vars

-----------------------------------------------------------------------------
\* Properties.

\* A prekey that a whole prekeys.json has recorded as gone is never served again,
\* whatever is killed, fails or starts afterwards.  One that is served again was
\* served in an earlier life that ended without recording it: that life was
\* killed, its save on shutdown failed (persist.go:113-124, logged at
\* jsyncd/main.go:343-345), or it answered that very handshake while shutting
\* down (store.go:108-127).
KeyServedOnce ==
    \A s, t \in Session :
        /\ s # t /\ Served(s) /\ key[s] = key[t]
        /\ born[s] <= born[t]
        => /\ s \notin recorded /\ born[s] < born[t]
           /\ born[s] \in killed \cup unsaved \/ s \in late

\* Only "a crash (not a graceful shutdown, which always saves)" can leave "a
\* consumed One-Time PreKey looking unconsumed on disk", to be served again
\* (jsyncd/main.go:41-45).
KeyServedTwiceOnlyByCrash ==
    \A s, t \in Session :
        s # t /\ Served(s) /\ key[s] = key[t] /\ born[s] < born[t]
            => born[s] \in killed

\* No session a daemon approved fails for want of its prekey, however late its
\* first message comes and whatever is saved or served meanwhile
\* (store.go:33-39, x3dh.go:153-164).
NoKeyIsMissing == \A s \in Session : state[s] # "failed"

\* A daemon that shut down in order can start again, whatever failed while it
\* ran: its file is whole unless it was killed or that last save failed
\* (persist.go:97-126).
OrderlyStopRestarts == main = "down" /\ torn => life \in killed \cup unsaved
=============================================================================
