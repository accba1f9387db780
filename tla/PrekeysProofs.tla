---------------------------- MODULE PrekeysProofs ----------------------------
(***************************************************************************)
(* The safety properties of Prekeys, for any number of keys, sessions,     *)
(* runs of jsyncd and failed writes.                                       *)
(***************************************************************************)
EXTENDS Prekeys, TLAPS

-----------------------------------------------------------------------------
\* The inductive invariant.

\* What session s was served may be in the file when its life ends.
Excused(s) == born[s] \in killed \cup unsaved \/ s \in late

\* One callback at a time, and none without a process.
HandlingOK ==
    /\ main = "down" => handling = NoSession
    /\ handling # NoSession => born[handling] = life
    /\ \A s \in Session : state[s] = "approved" <=> s = handling
    /\ \A s \in Session : state[s] \in {"new", "approved"} => key[s] = NoKey

\* A session is born in the past; one that waits for its first message belongs
\* to the process that runs.
BirthOK ==
    /\ \A s \in Session : state[s] # "new" => born[s] \in 1 .. life
    /\ \A s \in Session : state[s] = "offered" => main \in Up /\ born[s] = life

\* A key is on one side of Bundle, and on the far side until it is consumed.
PoolOK ==
    /\ main = "down" => otps = {} /\ pending = {} /\ snapshot = {}
    /\ otps \cap pending = {}
    /\ \A s \in Session : state[s] = "offered" /\ Served(s) => key[s] \in pending

\* A key back in the pool was served by a run before this one that did not record
\* it.  So was a key of the snapshot or the file, unless the run is still on and
\* the next save may drop it.
ReturnOK ==
    /\ \A s \in Session : Served(s) /\ key[s] \in otps => born[s] < life /\ Excused(s)
    /\ \A s \in Session :
          /\ Served(s) /\ key[s] \in snapshot
          /\ born[s] < life \/ main \in Stopping
          => Excused(s)
    /\ \A s \in Session :
          /\ Served(s) /\ key[s] \in file
          /\ born[s] < life \/ main \in {"draining", "down"}
          => Excused(s)

\* A recorded key is nowhere a later run could take it from; what is being saved
\* is the pool, or was.
RecordOK ==
    /\ \A s \in recorded : Served(s) /\ key[s] \notin otps \cup snapshot \cup file
    /\ main \in Saving => otps \subseteq snapshot

\* Who cut the file short.
TornOK ==
    /\ main = "draining" /\ torn => life \in unsaved
    /\ OrderlyStopRestarts

IInv ==
    /\ TypeOK
    /\ HandlingOK /\ BirthOK /\ PoolOK /\ ReturnOK /\ RecordOK /\ TornOK
    /\ KeyServedOnce /\ NoKeyIsMissing

-----------------------------------------------------------------------------
LEMMA Bounds ==
    /\ MaxSessions \in Nat /\ MaxFaults \in Nat
    /\ MaxLives \in Nat /\ MaxLives >= 1
BY PrekeysAssumption

LEMMA InitIInv == Init => IInv
<1>. SUFFICES ASSUME Init PROVE IInv
  OBVIOUS
<1>. USE PrekeysAssumption DEF Init
<1>1. TypeOK
  <2>1. /\ state \in [Session -> {"new"}] /\ key \in [Session -> {NoKey}]
        /\ born \in [Session -> {0}]
    OBVIOUS
  <2>2. 1 \in 1 .. MaxLives /\ 0 \in 0 .. MaxLives /\ 0 \in 0 .. MaxFaults
    BY Bounds
  <2>. QED
    BY <2>1, <2>2 DEF TypeOK, Up, NoSession
<1>2. HandlingOK /\ BirthOK
  BY DEF HandlingOK, BirthOK, Up, Session, NoSession
<1>3. PoolOK /\ ReturnOK /\ RecordOK
  BY DEF PoolOK, ReturnOK, RecordOK, Saving, Served
<1>4. TornOK
  BY DEF TornOK, OrderlyStopRestarts
<1>5. KeyServedOnce /\ NoKeyIsMissing
  BY DEF KeyServedOnce, NoKeyIsMissing, Served
<1>. QED
  BY <1>1, <1>2, <1>3, <1>4, <1>5 DEF IInv

LEMMA TypeStep == TypeOK /\ [Next]_vars => TypeOK'
<1>. SUFFICES ASSUME TypeOK, [Next]_vars PROVE TypeOK'
  OBVIOUS
<1>. USE Bounds, PrekeysAssumption DEF TypeOK, Up, Session, NoSession, sessionVars,
                               storeVars, fileVars, history, SaveReturns
<1>1. ASSUME NEW s \in Session, Approve(s) PROVE TypeOK'
  BY <1>1 DEF Approve
<1>2. ASSUME Respond PROVE TypeOK'
  BY <1>2 DEF Respond, Take, Stopping
<1>3. ASSUME NEW s \in Session, Derive(s) PROVE TypeOK'
  BY <1>3 DEF Derive
<1>4. ASSUME BeginSave PROVE TypeOK'
  BY <1>4 DEF BeginSave, Encode
<1>5. ASSUME Stop PROVE TypeOK'
  BY <1>5 DEF Stop, Encode
<1>6. ASSUME EndSave PROVE TypeOK'
  BY <1>6 DEF EndSave, Stopping
<1>7. ASSUME Exit PROVE TypeOK'
  BY <1>7 DEF Exit, Dies
<1>8. ASSUME Kill PROVE TypeOK'
  BY <1>8 DEF Kill, Dies
<1>9. ASSUME Start PROVE TypeOK'
  BY <1>9 DEF Start
<1>10. ASSUME Truncate PROVE TypeOK'
  BY <1>10 DEF Truncate
<1>11. ASSUME SaveFails PROVE TypeOK'
  <2>1. faults' \in 0 .. MaxFaults
    BY <1>11 DEF SaveFails
  <2>. QED
    BY <1>11, <2>1 DEF SaveFails, Stopping
<1>12. CASE UNCHANGED vars
  BY <1>12 DEF vars
<1>. QED
  BY <1>1, <1>2, <1>3, <1>4, <1>5, <1>6, <1>7, <1>8, <1>9, <1>10, <1>11, <1>12 DEF Next

LEMMA ApproveStep == ASSUME IInv, TypeOK', NEW s \in Session, Approve(s) PROVE IInv'
<1>. USE PrekeysAssumption DEF IInv, TypeOK, Session, NoSession, Up, Stopping,
                               Saving, sessionVars, storeVars, fileVars, history, Approve
<1>1. HandlingOK'
  BY DEF HandlingOK
<1>2. BirthOK'
  BY DEF BirthOK
<1>3. PoolOK'
  BY DEF PoolOK, Served
<1>4. ReturnOK'
  <2>1. \A t \in Session : Served(t) => t # s /\ born'[t] = born[t]
    BY DEF HandlingOK, Served
  <2>2. /\ main' = main /\ life' = life /\ otps' = otps /\ key' = key
        /\ snapshot' = snapshot /\ file' = file
        /\ killed' = killed /\ late' = late /\ unsaved' = unsaved
    OBVIOUS
  <2>. QED
    BY <2>1, <2>2 DEF ReturnOK, Excused, Served
<1>5. RecordOK'
  BY DEF RecordOK, Served
<1>6. TornOK'
  BY DEF TornOK, OrderlyStopRestarts
<1>7. KeyServedOnce'
  <2>1. \A t \in Session : Served(t) => t # s /\ born'[t] = born[t]
    BY DEF HandlingOK, Served
  <2>2. key' = key /\ killed' = killed /\ late' = late /\ unsaved' = unsaved
        /\ recorded' = recorded
    OBVIOUS
  <2>. QED
    BY <2>1, <2>2 DEF KeyServedOnce, Served
<1>8. NoKeyIsMissing'
  BY DEF NoKeyIsMissing
<1>. QED
  BY <1>1, <1>2, <1>3, <1>4, <1>5, <1>6, <1>7, <1>8

LEMMA RespondStep == ASSUME IInv, TypeOK', Respond PROVE IInv'
<1>. DEFINE h == handling
<1>. USE PrekeysAssumption DEF IInv, TypeOK, Session, NoSession, Up, Stopping,
                               storeVars, fileVars
<1>1. /\ h \in Session /\ state[h] = "approved" /\ key[h] = NoKey
      /\ born[h] = life
  BY DEF Respond, HandlingOK
<1>2. PICK k \in Key \cup {NoKey} :
         /\ key' = [key EXCEPT ![h] = k]
         /\ \/ k = NoKey /\ otps' = otps /\ pending' = pending
            \/ k \in otps /\ otps' = otps \ {k} /\ pending' = pending \cup {k}
  BY DEF Respond, Take
<1>3. /\ state' = [state EXCEPT ![h] = "offered"]
      /\ main \in Up /\ main' = main /\ life' = life /\ handling' = 0
      /\ snapshot' = snapshot /\ file' = file /\ torn' = torn
      /\ born' = born /\ killed' = killed /\ unsaved' = unsaved
      /\ recorded' = recorded
      /\ late' = IF main \in Stopping THEN late \cup {h} ELSE late
  BY DEF Respond
<1>4. HandlingOK'
  BY <1>1, <1>2, <1>3 DEF HandlingOK
<1>5. BirthOK'
  BY <1>1, <1>3 DEF BirthOK
<1>6. \A t \in Session : t # h => key'[t] = key[t] /\ state'[t] = state[t]
  BY <1>1, <1>2, <1>3
<1>7. key'[h] = k
  BY <1>1, <1>2
<1>8. PoolOK'
  BY <1>1, <1>2, <1>3, <1>6, <1>7 DEF PoolOK, Served
<1>9. \A t \in Session : Excused(t) => Excused(t)'
  BY <1>3 DEF Excused
<1>10. \A t \in Session : t = h /\ main \in Stopping => Excused(t)'
  BY <1>1, <1>3 DEF Excused
<1>11. ReturnOK'
  <2>1. ASSUME NEW t \in Session, Served(t)', key'[t] \in otps'
        PROVE  born'[t] < life' /\ Excused(t)'
    <3>1. t # h /\ Served(t) /\ key[t] \in otps
      BY <1>2, <1>6, <1>7, <2>1, PrekeysAssumption DEF Served
    <3>. QED
      BY <1>3, <1>9, <3>1 DEF ReturnOK
  <2>2. ASSUME NEW t \in Session, Served(t)', key'[t] \in snapshot',
               born'[t] < life' \/ main' \in Stopping
        PROVE  Excused(t)'
    <3>1. CASE t = h
      BY <1>1, <1>3, <1>10, <2>2, <3>1, Bounds
    <3>2. CASE t # h
      BY <1>3, <1>6, <1>9, <2>2, <3>2 DEF ReturnOK, Served
    <3>. QED
      BY <3>1, <3>2
  <2>3. ASSUME NEW t \in Session, Served(t)', key'[t] \in file',
               born'[t] < life' \/ main' \in {"draining", "down"}
        PROVE  Excused(t)'
    <3>1. CASE t = h
      BY <1>1, <1>3, <1>10, <2>3, <3>1, Bounds
    <3>2. CASE t # h
      BY <1>3, <1>6, <1>9, <2>3, <3>2 DEF ReturnOK, Served
    <3>. QED
      BY <3>1, <3>2
  <2>. QED
    BY <2>1, <2>2, <2>3 DEF ReturnOK
<1>12. RecordOK'
  <2>1. ASSUME NEW t \in recorded
        PROVE  Served(t)' /\ key'[t] \notin (otps \cup snapshot \cup file)'
    <3>1. t # h /\ t \in Session
      BY <1>1, <2>1 DEF RecordOK, Served
    <3>. QED
      BY <1>2, <1>3, <1>6, <2>1, <3>1 DEF RecordOK, Served
  <2>2. main' \in Saving => otps' \subseteq snapshot'
    BY <1>2, <1>3 DEF RecordOK
  <2>. QED
    BY <1>3, <2>1, <2>2 DEF RecordOK
<1>13. TornOK'
  BY <1>3 DEF TornOK, OrderlyStopRestarts
<1>14. KeyServedOnce'
  <2>1. ASSUME NEW t \in Session, t # h, Served(t), key[t] = k
        PROVE  born[t] < life /\ Excused(t) /\ t \notin recorded
    BY <1>2, <2>1 DEF ReturnOK, RecordOK, Served
  <2>2. SUFFICES ASSUME NEW t \in Session, NEW u \in Session,
                        t # u, Served(t)', key'[t] = key'[u], born[t] <= born[u]
                 PROVE  t \notin recorded /\ born[t] < born[u] /\ Excused(t)'
    BY <1>3 DEF KeyServedOnce, Excused
  <2>3. CASE t = h
    <3>1. Served(u) /\ key[u] = k /\ u # h
      BY <1>6, <1>7, <2>2, <2>3 DEF Served
    <3>2. born[u] < life
      BY <2>1, <3>1
    <3>. QED
      BY <1>1, <2>2, <2>3, <3>2, Bounds
  <2>4. CASE u = h
    <3>1. Served(t) /\ key[t] = k /\ t # h
      BY <1>6, <1>7, <2>2, <2>4 DEF Served
    <3>. QED
      BY <1>1, <1>9, <2>1, <2>4, <3>1
  <2>5. CASE t # h /\ u # h
    <3>1. Served(t) /\ key[t] = key[u]
      BY <1>6, <2>2, <2>5 DEF Served
    <3>2. t \notin recorded /\ born[t] < born[u] /\ Excused(t)
      BY <2>2, <3>1 DEF KeyServedOnce, Excused
    <3>. QED
      BY <1>9, <3>2
  <2>. QED
    BY <2>3, <2>4, <2>5
<1>15. NoKeyIsMissing'
  BY <1>1, <1>3 DEF NoKeyIsMissing
<1>. QED
  BY <1>4, <1>5, <1>8, <1>11, <1>12, <1>13, <1>14, <1>15

LEMMA DeriveStep == ASSUME IInv, TypeOK', NEW s \in Session, Derive(s) PROVE IInv'
<1>. USE PrekeysAssumption DEF IInv, TypeOK, Session, NoSession, Up, Stopping,
                               Saving, sessionVars, storeVars, fileVars, history, Derive
<1>1. HandlingOK'
  BY DEF HandlingOK
<1>2. BirthOK'
  BY DEF BirthOK
<1>3. PoolOK'
  <2>1. key[s] = NoKey \/ key[s] \in pending
    BY DEF PoolOK, Served
  <2>2. state' = [state EXCEPT ![s] = "derived"] /\ pending' = pending \ {key[s]}
    BY <2>1
  <2>3. ASSUME NEW t \in Session, state'[t] = "offered", Served(t)'
        PROVE  key'[t] \in pending'
    <3>1. t # s /\ state[t] = "offered" /\ born[t] = life /\ born[s] = life
      BY <2>2, <2>3 DEF BirthOK
    <3>2. key[t] # key[s]
      BY <2>3, <3>1, Bounds DEF KeyServedOnce, Served
    <3>. QED
      BY <2>2, <2>3, <3>1, <3>2 DEF PoolOK, Served
  <2>. QED
    BY <2>2, <2>3 DEF PoolOK
<1>4. ReturnOK'
  BY DEF ReturnOK, Excused, Served
<1>5. RecordOK'
  BY DEF RecordOK, Served
<1>6. TornOK'
  BY DEF TornOK, OrderlyStopRestarts
<1>7. KeyServedOnce'
  BY DEF KeyServedOnce, Served
<1>8. NoKeyIsMissing'
  <2>1. key[s] = NoKey \/ key[s] \in pending
    BY DEF PoolOK, Served
  <2>2. state' = [state EXCEPT ![s] = "derived"]
    BY <2>1
  <2>. QED
    BY <2>2 DEF NoKeyIsMissing
<1>. QED
  BY <1>1, <1>2, <1>3, <1>4, <1>5, <1>6, <1>7, <1>8

LEMMA BeginSaveStep == ASSUME IInv, TypeOK', BeginSave PROVE IInv'
<1>. USE PrekeysAssumption DEF IInv, TypeOK, Session, NoSession, Up, Stopping,
                               Saving, sessionVars, storeVars, fileVars, history, BeginSave, Encode
<1>1. HandlingOK'
  BY DEF HandlingOK
<1>2. BirthOK'
  BY DEF BirthOK
<1>3. PoolOK'
  BY DEF PoolOK, Served
<1>4. ReturnOK'
  BY DEF ReturnOK, Excused, Served
<1>5. RecordOK'
  BY DEF RecordOK, Served
<1>6. TornOK'
  BY DEF TornOK, OrderlyStopRestarts
<1>7. KeyServedOnce'
  BY DEF KeyServedOnce, Served
<1>8. NoKeyIsMissing'
  BY DEF NoKeyIsMissing
<1>. QED
  BY <1>1, <1>2, <1>3, <1>4, <1>5, <1>6, <1>7, <1>8

LEMMA StopStep == ASSUME IInv, TypeOK', Stop PROVE IInv'
<1>. USE PrekeysAssumption DEF IInv, TypeOK, Session, NoSession, Up, Stopping,
                               Saving, sessionVars, storeVars, fileVars, history, Stop, Encode
<1>1. HandlingOK'
  BY DEF HandlingOK
<1>2. BirthOK'
  BY DEF BirthOK
<1>3. PoolOK'
  BY DEF PoolOK, Served
<1>4. ReturnOK'
  BY DEF ReturnOK, Excused, Served
<1>5. RecordOK'
  BY DEF RecordOK, Served
<1>6. TornOK'
  BY DEF TornOK, OrderlyStopRestarts
<1>7. KeyServedOnce'
  BY DEF KeyServedOnce, Served
<1>8. NoKeyIsMissing'
  BY DEF NoKeyIsMissing
<1>. QED
  BY <1>1, <1>2, <1>3, <1>4, <1>5, <1>6, <1>7, <1>8

LEMMA TruncateStep == ASSUME IInv, TypeOK', Truncate PROVE IInv'
<1>. USE PrekeysAssumption DEF IInv, TypeOK, Session, NoSession, Up, Stopping,
                               Saving, sessionVars, storeVars, fileVars, history, Truncate
<1>1. HandlingOK'
  BY DEF HandlingOK
<1>2. BirthOK'
  BY DEF BirthOK
<1>3. PoolOK'
  BY DEF PoolOK, Served
<1>4. ReturnOK'
  BY DEF ReturnOK, Excused, Served
<1>5. RecordOK'
  BY DEF RecordOK, Served
<1>6. TornOK'
  BY DEF TornOK, OrderlyStopRestarts
<1>7. KeyServedOnce'
  BY DEF KeyServedOnce, Served
<1>8. NoKeyIsMissing'
  BY DEF NoKeyIsMissing
<1>. QED
  BY <1>1, <1>2, <1>3, <1>4, <1>5, <1>6, <1>7, <1>8

LEMMA EndSaveStep == ASSUME IInv, TypeOK', EndSave PROVE IInv'
<1>. USE PrekeysAssumption DEF IInv, TypeOK, Session, NoSession, Up, Stopping,
                               Saving, sessionVars, storeVars, fileVars, history, EndSave, SaveReturns
<1>1. HandlingOK'
  BY DEF HandlingOK
<1>2. BirthOK'
  BY DEF BirthOK
<1>3. PoolOK'
  BY DEF PoolOK, Served
<1>4. ReturnOK'
  <2>1. /\ file' = snapshot /\ snapshot' = {} /\ otps' = otps /\ key' = key
        /\ born' = born /\ life' = life
        /\ killed' = killed /\ late' = late /\ unsaved' = unsaved
        /\ main' \in {"draining", "down"} => main \in Stopping
    OBVIOUS
  <2>. QED
    BY <2>1 DEF ReturnOK, Excused, Served
<1>5. RecordOK'
  <2>1. otps \subseteq snapshot
    BY DEF RecordOK
  <2>. QED
    BY <2>1 DEF RecordOK, Served
<1>6. TornOK'
  BY DEF TornOK, OrderlyStopRestarts
<1>7. KeyServedOnce'
  <2>1. SUFFICES ASSUME NEW t \in Session, NEW u \in Session,
                        t # u, Served(t), key[t] = key[u], born[t] <= born[u]
                 PROVE  t \notin recorded' /\ born[t] < born[u] /\ Excused(t)
    BY DEF KeyServedOnce, Served, Excused
  <2>2. t \notin recorded /\ born[t] < born[u] /\ Excused(t)
    BY <2>1 DEF KeyServedOnce, Served, Excused
  <2>3. state[u] # "new"
    BY <2>1 DEF HandlingOK, Served
  <2>4. born[u] \in 1 .. life
    BY <2>3 DEF BirthOK
  <2>. QED
    BY <2>2, <2>4, Bounds
<1>8. NoKeyIsMissing'
  BY DEF NoKeyIsMissing
<1>. QED
  BY <1>1, <1>2, <1>3, <1>4, <1>5, <1>6, <1>7, <1>8

LEMMA SaveFailsStep == ASSUME IInv, TypeOK', SaveFails PROVE IInv'
<1>. USE PrekeysAssumption DEF IInv, TypeOK, Session, NoSession, Up, Stopping,
                               Saving, sessionVars, storeVars, fileVars, history, SaveFails, SaveReturns
<1>1. HandlingOK'
  BY DEF HandlingOK
<1>2. BirthOK'
  BY DEF BirthOK
<1>3. PoolOK'
  BY DEF PoolOK, Served
<1>4. ReturnOK'
  <2>1. /\ file' = file /\ snapshot' = {} /\ otps' = otps /\ key' = key
        /\ born' = born /\ life' = life /\ killed' = killed /\ late' = late
        /\ unsaved \subseteq unsaved'
        /\ main' = "draining" => life \in unsaved'
        /\ main' # "down"
    OBVIOUS
  <2>2. ASSUME NEW t \in Session, Served(t)', key'[t] \in file',
               born'[t] < life' \/ main' \in {"draining", "down"}
        PROVE  Excused(t)'
    <3>1. born[t] \in 1 .. life
      BY <2>1, <2>2 DEF HandlingOK, BirthOK, Served
    <3>2. CASE born[t] = life
      BY <2>1, <2>2, <3>2, Bounds DEF Excused
    <3>3. CASE born[t] < life
      BY <2>1, <2>2, <3>3 DEF ReturnOK, Excused, Served
    <3>. QED
      BY <3>1, <3>2, <3>3, Bounds
  <2>. QED
    BY <2>1, <2>2 DEF ReturnOK, Excused, Served
<1>5. RecordOK'
  BY DEF RecordOK, Served
<1>6. TornOK'
  BY DEF TornOK, OrderlyStopRestarts
<1>7. KeyServedOnce'
  BY DEF KeyServedOnce, Served
<1>8. NoKeyIsMissing'
  BY DEF NoKeyIsMissing
<1>. QED
  BY <1>1, <1>2, <1>3, <1>4, <1>5, <1>6, <1>7, <1>8

LEMMA ExitStep == ASSUME IInv, TypeOK', Exit PROVE IInv'
<1>. USE PrekeysAssumption DEF IInv, TypeOK, Session, NoSession, Up, Stopping,
                               Saving, sessionVars, storeVars, fileVars, history, Exit, Dies
<1>1. HandlingOK'
  BY DEF HandlingOK
<1>2. BirthOK'
  BY DEF BirthOK
<1>3. PoolOK'
  BY DEF PoolOK, Served
<1>4. ReturnOK'
  BY DEF ReturnOK, Excused, Served
<1>5. RecordOK'
  BY DEF RecordOK, Served
<1>6. TornOK'
  BY DEF TornOK, OrderlyStopRestarts
<1>7. KeyServedOnce'
  BY DEF KeyServedOnce, Served
<1>8. NoKeyIsMissing'
  BY DEF NoKeyIsMissing
<1>. QED
  BY <1>1, <1>2, <1>3, <1>4, <1>5, <1>6, <1>7, <1>8

LEMMA KillStep == ASSUME IInv, TypeOK', Kill PROVE IInv'
<1>. USE PrekeysAssumption DEF IInv, TypeOK, Session, NoSession, Up, Stopping,
                               Saving, sessionVars, storeVars, fileVars, history, Kill, Dies
<1>1. HandlingOK'
  BY DEF HandlingOK
<1>2. BirthOK'
  BY DEF BirthOK
<1>3. PoolOK'
  BY DEF PoolOK, Served
<1>4. ReturnOK'
  <2>1. ASSUME NEW s \in Session, Served(s)
        PROVE  born[s] = life \/ born[s] < life
    BY <2>1, Bounds DEF HandlingOK, BirthOK, Served
  <2>2. /\ main' = "down" /\ otps' = {} /\ snapshot' = {} /\ file' = file
        /\ life' = life /\ born' = born /\ key' = key
        /\ killed' = killed \cup {life} /\ late' = late /\ unsaved' = unsaved
    OBVIOUS
  <2>. QED
    BY <2>1, <2>2 DEF ReturnOK, Excused, Served
<1>5. RecordOK'
  BY DEF RecordOK, Served
<1>6. TornOK'
  BY DEF TornOK, OrderlyStopRestarts
<1>7. KeyServedOnce'
  BY DEF KeyServedOnce, Served
<1>8. NoKeyIsMissing'
  BY DEF NoKeyIsMissing
<1>. QED
  BY <1>1, <1>2, <1>3, <1>4, <1>5, <1>6, <1>7, <1>8

LEMMA StartStep == ASSUME IInv, TypeOK', Start PROVE IInv'
<1>. USE PrekeysAssumption DEF IInv, TypeOK, Session, NoSession, Up, Stopping,
                               Saving, sessionVars, storeVars, fileVars, history, Start
<1>1. HandlingOK'
  BY DEF HandlingOK
<1>2. BirthOK'
  BY DEF BirthOK
<1>3. PoolOK'
  BY DEF PoolOK, Served
<1>4. ReturnOK'
  <2>1. ASSUME NEW s \in Session, Served(s)
        PROVE  born[s] < life + 1
    BY <2>1, Bounds DEF HandlingOK, BirthOK, Served
  <2>2. /\ main = "down" /\ main' = "loop" /\ otps' = file /\ file' = file
        /\ snapshot' = snapshot /\ life' = life + 1 /\ born' = born /\ key' = key
        /\ killed' = killed /\ late' = late /\ unsaved' = unsaved
    OBVIOUS
  <2>3. snapshot = {}
    BY <2>2 DEF PoolOK
  <2>. QED
    BY <2>1, <2>2, <2>3 DEF ReturnOK, Excused, Served
<1>5. RecordOK'
  BY DEF RecordOK, Served
<1>6. TornOK'
  BY DEF TornOK, OrderlyStopRestarts
<1>7. KeyServedOnce'
  BY DEF KeyServedOnce, Served
<1>8. NoKeyIsMissing'
  BY DEF NoKeyIsMissing
<1>. QED
  BY <1>1, <1>2, <1>3, <1>4, <1>5, <1>6, <1>7, <1>8

LEMMA IInvStep == IInv /\ [Next]_vars => IInv'
<1>. SUFFICES ASSUME IInv, [Next]_vars PROVE IInv'
  OBVIOUS
<1>1. TypeOK'
  BY TypeStep DEF IInv
<1>2. CASE UNCHANGED vars
  BY <1>2 DEF IInv, TypeOK, HandlingOK, BirthOK, PoolOK, ReturnOK, Excused, Served,
              RecordOK, TornOK, OrderlyStopRestarts, KeyServedOnce, NoKeyIsMissing,
              vars, storeVars, fileVars, sessionVars, history
<1>3. CASE Next
  BY <1>1, <1>3, ApproveStep, RespondStep, DeriveStep, BeginSaveStep, StopStep,
     TruncateStep, EndSaveStep, SaveFailsStep, ExitStep, KillStep, StartStep DEF Next
<1>. QED
  BY <1>2, <1>3

\* The invariant of every reachable state.
THEOREM PrekeysInvariant == Spec => []IInv
BY InitIInv, IInvStep, PTL DEF Spec

-----------------------------------------------------------------------------
\* The pools, the file and the sessions keep their types (store.go:23-40).
THEOREM PrekeysTypeCorrect == Spec => []TypeOK
<1>1. IInv => TypeOK
  BY DEF IInv
<1>. QED
  BY <1>1, PrekeysInvariant, PTL

\* However often the daemon is stopped, killed and started, and whichever saves
\* fail before or after the file is cut: a key that a whole prekeys.json has
\* recorded as gone is never served again, and one that is served again was served
\* by a life that was killed, could not save when it stopped, or answered that
\* handshake while it stopped (store.go:108-127, persist.go:113-124).
THEOREM PrekeyServedOnce == Spec => []KeyServedOnce
<1>1. IInv => KeyServedOnce
  BY DEF IInv
<1>. QED
  BY <1>1, PrekeysInvariant, PTL

\* No approved session ever fails for want of its prekey (store.go:33-39).
THEOREM PrekeyAtHand == Spec => []NoKeyIsMissing
<1>1. IInv => NoKeyIsMissing
  BY DEF IInv
<1>. QED
  BY <1>1, PrekeysInvariant, PTL

\* A daemon that was not killed and whose last save was written finds a whole
\* file, whatever failed before (persist.go:97-126).
THEOREM PrekeysRestart == Spec => []OrderlyStopRestarts
<1>1. IInv => OrderlyStopRestarts
  BY DEF IInv, TornOK
<1>. QED
  BY <1>1, PrekeysInvariant, PTL
=============================================================================
