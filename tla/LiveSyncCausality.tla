-------------------------- MODULE LiveSyncCausality --------------------------
(***************************************************************************)
(* The order of writes, and what is made of it, for any number of nodes,   *)
(* files, edits, lost acknowledgements and failures: version vectors never *)
(* claim knowledge of a write that was not made, the stream never carries  *)
(* an effect before its cause, the first delivery of a write decides it,   *)
(* conflicts are found on both sides, and sealed writes are opened once,   *)
(* in order.  Between two nodes without renames, why a session ends.       *)
(***************************************************************************)
EXTENDS LiveSyncProofs

-----------------------------------------------------------------------------
(* The inductive invariant. *)

\* n is about to publish a write of f.
Publishing(n, f) ==
    pub[n].at = "publish" /\ pub[n].event.op = "write" /\ pub[n].event.file = f

\* The stream carries m's k-th write of f, or a later one.
Published(m, f, k) ==
    k = 0 \/ \E i \in 1..Len(log) : IsWriteOf(i, f) /\ log[i].origin = m
                                    /\ k <= log[i].version[m]

\* What is known of somebody else's writes has been published.
OnlyPublishedIsKnown ==
    \A m, n \in Node, f \in File :
        /\ m # n => Published(m, f, versions[n][f][m])
        /\ m # n /\ Publishing(n, f) => Published(m, f, pub[n].event.version[m])

\* Whatever an event of the stream knows, the stream itself carries.
StreamIsClosed ==
    \A m \in Node, f \in File : \A i \in 1..Len(log) :
        IsWriteOf(i, f) => Published(m, f, log[i].version[m])

\* The write n is about to publish is a new one: no event of n in the stream
\* has stamped it, or a later one, before.
NextWriteIsNew ==
    \A n \in Node, f \in File :
        Publishing(n, f) =>
            /\ pub[n].event.version[n] > 0
            /\ \A i \in 1..Len(log) :
                  IsWriteOf(i, f) /\ log[i].origin = n
                     => log[i].version[n] < pub[n].event.version[n]

\* A node publishes in its own name.
PublishesAsItself ==
    \A n \in Node : pub[n].at = "publish" => pub[n].event.origin = n

CausalInv ==
    /\ TypeOK
    /\ KnowledgeIsCausal
    /\ LogIsCausal
    /\ OnlyPublishedIsKnown
    /\ StreamIsClosed
    /\ NextWriteIsNew
    /\ PublishesAsItself

-----------------------------------------------------------------------------
(* Types of what the invariant speaks of. *)

LEMMA Counters ==
    ASSUME TypeOK, NEW n \in Node, NEW f \in File, NEW m \in Node
    PROVE  versions[n][f] \in Vector /\ versions[n][f][m] \in Nat
BY DEF TypeOK, Vector

LEMMA StreamFields ==
    ASSUME TypeOK, NEW i \in 1..Len(log)
    PROVE  /\ log[i] \in Event
           /\ log[i].op = "write" =>
                 /\ log[i].origin \in Node /\ log[i].file \in File
                 /\ log[i].version \in Vector
                 /\ \A m \in Node : log[i].version[m] \in Nat
<1>1. log[i] \in Event
  BY DEF TypeOK
<1> QED BY <1>1, EventFields, WriteFields DEF Vector

LEMMA PublishingFields ==
    ASSUME TypeOK, NEW n \in Node, NEW f \in File, Publishing(n, f)
    PROVE  /\ pub[n].event \in Event /\ pub[n].event.version \in Vector
           /\ \A m \in Node : pub[n].event.version[m] \in Nat
<1>1. pub[n].event \in Event /\ pub[n].event.op = "write"
  BY PubFields DEF TypeOK, Publishing
<1> QED BY <1>1, EventFields, WriteFields DEF Vector

-----------------------------------------------------------------------------
(* Steps that touch no vector. *)

\* Neither the vectors nor the stream change, and no write starts being
\* published.
Quiet ==
    /\ versions' = versions /\ log' = log
    /\ \A m \in Node :
          \/ pub'[m] = pub[m]
          \/ pub'[m].at # "publish"
          \/ pub'[m].event.op # "write" /\ pub'[m].event.origin = m

LEMMA QuietStep ==
    ASSUME CausalInv, TypeOK', Quiet
    PROVE  CausalInv'
<1>1. \A n \in Node, f \in File :
         Publishing(n, f)' => Publishing(n, f) /\ pub'[n] = pub[n]
  BY DEF Quiet, Publishing
<1>3. ASSUME NEW m \in Node, NEW f \in File, NEW k, Published(m, f, k)
      PROVE  Published(m, f, k)'
  BY <1>3 DEF Quiet, Published, IsWriteOf
<1>4. KnowledgeIsCausal'
  BY <1>1 DEF CausalInv, KnowledgeIsCausal, Quiet, IsWriteOf, Publishing
<1>5. LogIsCausal'
  BY DEF CausalInv, LogIsCausal, Quiet, IsWriteOf
<1>6. OnlyPublishedIsKnown'
  BY <1>1, <1>3 DEF CausalInv, OnlyPublishedIsKnown, Quiet
<1>7. StreamIsClosed'
  BY DEF CausalInv, StreamIsClosed, Quiet, IsWriteOf, Published
<1>8. NextWriteIsNew'
  BY <1>1 DEF CausalInv, NextWriteIsNew, Quiet, IsWriteOf
<1>9. PublishesAsItself'
  BY DEF CausalInv, PublishesAsItself, Quiet
<1> QED
  BY <1>4, <1>5, <1>6, <1>7, <1>8, <1>9 DEF CausalInv

-----------------------------------------------------------------------------
(* An event enters the stream. *)

\* js.Publish stored n's event; n no longer publishes it.
Stored(n) ==
    /\ pub[n].at = "publish" /\ pub'[n].at # "publish"
    /\ \A m \in Node \ {n} : pub'[m] = pub[m] \/ pub'[m].at # "publish"
    /\ log' = Append(log, pub[n].event)
    /\ versions' = versions

LEMMA StoredStep ==
    ASSUME CausalInv, TypeOK', NEW n \in Node, Stored(n)
    PROVE  CausalInv'
<1> DEFINE e == pub[n].event
           last == Len(log) + 1
<1>1. /\ log \in Seq(Event) /\ Len(log) \in Nat /\ e \in Event
  BY PubFields DEF CausalInv, TypeOK, Stored
<1>2. /\ Len(log') = last /\ log'[last] = e
      /\ \A i \in 1..Len(log) : log'[i] = log[i]
  BY <1>1 DEF Stored
<1>3. e.origin = n
  BY DEF CausalInv, PublishesAsItself, Stored
<1> HIDE DEF e
<1>4. \A i, f : IsWriteOf(i, f) => i \in 1..Len(log) /\ IsWriteOf(i, f)' /\ log'[i] = log[i]
  BY <1>1, <1>2 DEF IsWriteOf
<1>5. ASSUME NEW i, NEW f, IsWriteOf(i, f)'
      PROVE  \/ IsWriteOf(i, f) /\ log'[i] = log[i]
             \/ i = last /\ log'[i] = e /\ Publishing(n, f)
  <2>1. i \in 1..last
    BY <1>2, <1>5 DEF IsWriteOf
  <2>2. CASE i = last
    BY <1>2, <1>5, <2>2 DEF IsWriteOf, Publishing, Stored, e
  <2>3. CASE i # last
    <3>1. i \in 1..Len(log)
      BY <1>1, <2>1, <2>3
    <3> QED BY <1>2, <1>5, <3>1 DEF IsWriteOf
  <2> QED BY <2>2, <2>3
<1>6. ASSUME NEW m, NEW f, NEW k, Published(m, f, k)
      PROVE  Published(m, f, k)'
  BY <1>1, <1>2, <1>4, <1>6 DEF Published
<1>7. \A m \in Node, f \in File :
         Publishing(m, f)' => m # n /\ Publishing(m, f) /\ pub'[m] = pub[m]
  BY DEF Stored, Publishing
<1>8. KnowledgeIsCausal'
  <2> SUFFICES ASSUME NEW m \in Node, NEW k \in Node, NEW f \in File
               PROVE  /\ versions'[k][f][m] <= versions'[m][f][m]
                      /\ \A i \in 1..Len(log') :
                            IsWriteOf(i, f)' => log'[i].version[m] <= versions'[m][f][m]
                      /\ Publishing(k, f)' => pub'[k].event.version[m] <= versions'[m][f][m]
    BY DEF KnowledgeIsCausal, Publishing
  <2>1. versions' = versions
    BY DEF Stored
  <2>2. /\ versions[k][f][m] <= versions[m][f][m]
        /\ \A i \in 1..Len(log) : IsWriteOf(i, f) => log[i].version[m] <= versions[m][f][m]
        /\ Publishing(k, f) => pub[k].event.version[m] <= versions[m][f][m]
        /\ Publishing(n, f) => e.version[m] <= versions[m][f][m]
    BY DEF CausalInv, KnowledgeIsCausal, Publishing, e
  <2>3. ASSUME NEW i \in 1..Len(log'), IsWriteOf(i, f)'
        PROVE  log'[i].version[m] <= versions[m][f][m]
    BY <1>4, <1>5, <2>2, <2>3
  <2> QED BY <1>7, <2>1, <2>2, <2>3
<1>9. LogIsCausal'
  <2> SUFFICES ASSUME NEW j \in 1..Len(log'), NEW i \in 1..(j - 1),
                      NEW f, f = log'[j].file, IsWriteOf(j, f)', IsWriteOf(i, f)'
               PROVE  KnowsMore(log'[j].version, log'[i].version)
    BY DEF LogIsCausal, IsWriteOf
  <2>1. i \in 1..Len(log) /\ log'[i] = log[i] /\ IsWriteOf(i, f)
    <3>1. i \in 1..Len(log)
      BY <1>1, <1>2
    <3> QED BY <1>1, <1>2, <1>5, <3>1
  <2>2. CASE j \in 1..Len(log)
    <3>1. log'[j] = log[j] /\ log[j].file = f /\ IsWriteOf(j, log[j].file)
      BY <1>1, <1>2, <1>5, <2>2 DEF IsWriteOf
    <3> QED BY <2>1, <2>2, <3>1 DEF CausalInv, LogIsCausal
  <2>3. CASE j = last
    <3>1. log'[j] = e /\ Publishing(n, f)
      BY <1>1, <1>5, <2>3 DEF IsWriteOf
    <3>2. f \in File
      BY <1>1, <1>2, <2>3, EventFields
    <3>3. /\ e.version[n] > 0 /\ e.version[n] \in Nat
          /\ \A k \in 1..Len(log) : IsWriteOf(k, f) /\ log[k].origin = n
                                      => log[k].version[n] < e.version[n]
      BY <3>1, <3>2, PublishingFields DEF CausalInv, NextWriteIsNew, e
    <3>4. Published(n, f, log[i].version[n])
      BY <2>1, <3>2 DEF CausalInv, StreamIsClosed
    <3>5. log[i].version[n] \in Nat
      BY <2>1, StreamFields DEF CausalInv, IsWriteOf
    <3>6. e.version[n] > log[i].version[n]
      <4>1. CASE log[i].version[n] = 0
        BY <3>3, <4>1
      <4>2. ASSUME NEW k \in 1..Len(log), IsWriteOf(k, f), log[k].origin = n,
                   log[i].version[n] <= log[k].version[n]
            PROVE  e.version[n] > log[i].version[n]
        <5>1. log[k].version[n] \in Nat
          BY <4>2, StreamFields DEF CausalInv, IsWriteOf
        <5> QED BY <3>3, <3>5, <4>2, <5>1
      <4> QED BY <3>4, <4>1, <4>2 DEF Published
    <3> QED BY <2>1, <3>1, <3>6 DEF KnowsMore
  <2> QED BY <1>1, <1>2, <2>2, <2>3
<1>10. OnlyPublishedIsKnown'
  BY <1>6, <1>7 DEF CausalInv, OnlyPublishedIsKnown, Stored
<1>11. StreamIsClosed'
  <2> SUFFICES ASSUME NEW m \in Node, NEW f \in File, NEW i \in 1..Len(log'),
                      NEW k, k = log'[i].version[m], IsWriteOf(i, f)'
               PROVE  Published(m, f, k)'
    BY DEF StreamIsClosed, Published
  <2>1. CASE IsWriteOf(i, f) /\ log'[i] = log[i]
    <3>1. i \in 1..Len(log)
      BY <2>1 DEF IsWriteOf
    <3>2. Published(m, f, log[i].version[m])
      BY <2>1, <3>1 DEF CausalInv, StreamIsClosed
    <3> QED BY <1>6, <2>1, <3>2
  <2>2. CASE i = last /\ log'[i] = e /\ Publishing(n, f)
    <3>1. CASE m = n
      <4>1. e.version[n] \in Nat
        BY <2>2, PublishingFields DEF CausalInv, e
      <4> QED BY <1>3, <2>2, <3>1, <4>1 DEF Published
    <3>2. CASE m # n
      BY <1>6, <2>2, <3>2 DEF CausalInv, OnlyPublishedIsKnown, e
    <3> QED BY <3>1, <3>2
  <2> QED BY <1>5, <2>1, <2>2
<1>12. NextWriteIsNew'
  <2> SUFFICES ASSUME NEW m \in Node, NEW f \in File, Publishing(m, f)'
               PROVE  /\ pub'[m].event.version[m] > 0
                      /\ \A i \in 1..Len(log') :
                            IsWriteOf(i, f)' /\ log'[i].origin = m
                               => log'[i].version[m] < pub'[m].event.version[m]
    BY DEF NextWriteIsNew, Publishing
  <2>1. m # n /\ Publishing(m, f) /\ pub'[m] = pub[m]
    BY <1>7
  <2>2. \A i \in 1..Len(log') : IsWriteOf(i, f)' /\ log'[i].origin = m
                                  => IsWriteOf(i, f) /\ log'[i] = log[i]
    BY <1>3, <1>5, <2>1
  <2> QED BY <1>4, <2>1, <2>2 DEF CausalInv, NextWriteIsNew
<1>13. PublishesAsItself'
  BY DEF CausalInv, PublishesAsItself, Stored
<1> QED
  BY <1>8, <1>9, <1>10, <1>11, <1>12, <1>13 DEF CausalInv

-----------------------------------------------------------------------------
(* A vector changes. *)

\* n stores vector v for f, forgetting none of its own writes, and the stream
\* stays as it is.
Learns(n, f, v) ==
    /\ versions' = [versions EXCEPT ![n][f] = v]
    /\ log' = log
    /\ v[n] >= versions[n][f][n]

LEMMA LearnsFacts ==
    ASSUME CausalInv, NEW n \in Node, NEW f \in File, NEW v \in Vector,
           Learns(n, f, v)
    PROVE  /\ \A k \in Node, g \in File :
                 versions'[k][g] = IF k = n /\ g = f THEN v ELSE versions[k][g]
           /\ \A m \in Node, g \in File : versions'[m][g][m] >= versions[m][g][m]
           /\ \A m \in Node : v[m] \in Nat
<1>1. versions \in [Node -> [File -> Vector]]
  BY DEF CausalInv, TypeOK
<1>2. \A k \in Node, g \in File :
         versions'[k][g] = IF k = n /\ g = f THEN v ELSE versions[k][g]
  BY <1>1 DEF Learns
<1>3. \A m \in Node, g \in File : versions[m][g][m] \in Nat
  BY Counters DEF CausalInv
<1>4. \A m \in Node : v[m] \in Nat
  BY DEF Vector
<1> QED BY <1>2, <1>3, <1>4 DEF Learns

\* The stream's and the vectors' half of the invariant survives, when what n
\* learns of others is what they did and what the stream carries.
LEMMA LearnsStep ==
    ASSUME CausalInv, NEW n \in Node, NEW f \in File, NEW v \in Vector,
           Learns(n, f, v),
           \A m \in Node \ {n} : v[m] <= versions[m][f][m] /\ Published(m, f, v[m])
    PROVE  /\ \A m, k \in Node, g \in File :
                 /\ versions'[k][g][m] <= versions'[m][g][m]
                 /\ \A i \in 1..Len(log) :
                       IsWriteOf(i, g) => log[i].version[m] <= versions'[m][g][m]
                 /\ Publishing(k, g) => pub[k].event.version[m] <= versions'[m][g][m]
                 /\ m # k => Published(m, g, versions'[k][g][m])
           /\ LogIsCausal' /\ StreamIsClosed'
           /\ \A m, g, k : Published(m, g, k)' <=> Published(m, g, k)
<1>1. /\ \A k \in Node, g \in File :
            versions'[k][g] = IF k = n /\ g = f THEN v ELSE versions[k][g]
      /\ \A m \in Node, g \in File : versions'[m][g][m] >= versions[m][g][m]
      /\ \A m \in Node : v[m] \in Nat
  BY LearnsFacts
<1>2. \A m, g, k : Published(m, g, k)' <=> Published(m, g, k)
  BY DEF Learns, Published, IsWriteOf
<1>3. LogIsCausal' /\ StreamIsClosed'
  BY DEF CausalInv, LogIsCausal, StreamIsClosed, Learns, IsWriteOf, Published
<1>4. ASSUME NEW m \in Node, NEW k \in Node, NEW g \in File
      PROVE  /\ versions'[k][g][m] <= versions'[m][g][m]
             /\ \A i \in 1..Len(log) :
                   IsWriteOf(i, g) => log[i].version[m] <= versions'[m][g][m]
             /\ Publishing(k, g) => pub[k].event.version[m] <= versions'[m][g][m]
             /\ m # k => Published(m, g, versions'[k][g][m])
  <2>1. /\ versions[k][g][m] \in Nat /\ versions[m][g][m] \in Nat
        /\ versions'[m][g][m] \in Nat
    BY <1>1, Counters DEF CausalInv
  <2>2. /\ versions[k][g][m] <= versions[m][g][m]
        /\ \A i \in 1..Len(log) :
              IsWriteOf(i, g) => log[i].version[m] <= versions[m][g][m]
        /\ Publishing(k, g) => pub[k].event.version[m] <= versions[m][g][m]
    BY DEF CausalInv, KnowledgeIsCausal, Publishing
  <2>3. versions'[m][g][m] >= versions[m][g][m]
    BY <1>1
  <2>4. versions'[k][g][m] <= versions'[m][g][m]
    <3>1. CASE k = n /\ g = f /\ m # n
      BY <1>1, <2>1, <2>3, <3>1
    <3>2. CASE k = m
      BY <2>1, <3>2
    <3>3. CASE ~(k = n /\ g = f)
      <4>1. versions'[k][g] = versions[k][g]
        BY <1>1, <3>3
      <4> QED BY <2>1, <2>2, <2>3, <4>1
    <3> QED BY <3>1, <3>2, <3>3
  <2>5. \A i \in 1..Len(log) :
           IsWriteOf(i, g) => log[i].version[m] <= versions'[m][g][m]
    <3> SUFFICES ASSUME NEW i \in 1..Len(log), IsWriteOf(i, g)
                 PROVE  log[i].version[m] <= versions'[m][g][m]
      OBVIOUS
    <3>1. log[i].version[m] \in Nat
      BY StreamFields DEF CausalInv, IsWriteOf
    <3> QED BY <2>1, <2>2, <2>3, <3>1
  <2>6. Publishing(k, g) => pub[k].event.version[m] <= versions'[m][g][m]
    <3>1. Publishing(k, g) => pub[k].event.version[m] \in Nat
      BY PublishingFields DEF CausalInv
    <3> QED BY <2>1, <2>2, <2>3, <3>1
  <2>7. m # k => Published(m, g, versions'[k][g][m])
    BY <1>1 DEF CausalInv, OnlyPublishedIsKnown
  <2> QED BY <2>4, <2>5, <2>6, <2>7
<1> QED
  BY <1>2, <1>3, <1>4

\* What VersionStore.Reconcile leaves stored is made of what was stored and what
\* came in, and forgets nothing.
LEMMA ReconciledOps ==
    ASSUME NEW a \in Vector, NEW b \in Vector, NEW m \in Node
    PROVE  Reconciled(a, b)[m] \in {a[m], b[m]} /\ Reconciled(a, b)[m] >= a[m]
<1>1. a[m] \in Nat /\ b[m] \in Nat
  BY DEF Vector
<1>2. CASE After(b, a)
  <2>1. ~(a[m] > b[m])
    BY <1>2 DEF After, KnowsMore
  <2> QED BY <1>1, <1>2, <2>1 DEF Reconciled
<1>3. CASE ~After(b, a) /\ Concurrent(b, a)
  BY <1>1, <1>3 DEF Reconciled, Merged
<1>4. CASE ~After(b, a) /\ ~Concurrent(b, a)
  BY <1>1, <1>4 DEF Reconciled
<1> QED BY <1>2, <1>3, <1>4

\* VersionStore.Reconcile: n learns from the event it holds.
LEMMA ReconcileStep ==
    ASSUME CausalInv, TypeOK', NEW n \in Node, Reconcile(n)
    PROVE  CausalInv'
<1> DEFINE i == acked[n] + 1
           ev == log[i]
           f == ev.file
           local == versions[n][f]
           v == Reconciled(local, ev.version)
<1>1. i \in 1..Len(log) /\ ev.op = "write" /\ IsWriteOf(i, f)
  <2>1. /\ Incoming(n) \in Event /\ acked[n] < Len(log)
        /\ "reconcile" \in StepsFor(Incoming(n).op)
    BY IncomingType DEF CausalInv, Reconcile
  <2>2. Incoming(n).op = "write"
    BY <2>1, EventFields DEF StepsFor
  <2>3. acked[n] \in Nat /\ Len(log) \in Nat
    BY DEF CausalInv, TypeOK
  <2> QED BY <2>1, <2>2, <2>3 DEF Incoming, IsWriteOf
<1>2. /\ f \in File /\ ev.version \in Vector
      /\ \A m \in Node : ev.version[m] \in Nat
  BY <1>1, StreamFields DEF CausalInv
<1>3. local \in Vector /\ \A m \in Node : local[m] \in Nat
  BY <1>2, Counters DEF CausalInv
<1>4. v \in Vector
  BY <1>2, <1>3, VectorOps
<1>5. \A m \in Node : v[m] \in {local[m], ev.version[m]} /\ v[m] >= local[m]
  BY <1>2, <1>3, ReconciledOps
<1>6. versions' = [versions EXCEPT ![n][f] = v] /\ UNCHANGED <<log, pub>>
  BY DEF Reconcile, StoreVersion, Incoming, streamVars
<1>7. \A m \in Node : /\ local[m] <= versions[m][f][m]
                      /\ ev.version[m] <= versions[m][f][m]
  BY <1>1, <1>2 DEF CausalInv, KnowledgeIsCausal
<1>8. \A m \in Node \ {n} : /\ Published(m, f, local[m])
                            /\ Published(m, f, ev.version[m])
  BY <1>1, <1>2 DEF CausalInv, OnlyPublishedIsKnown, StreamIsClosed
<1> HIDE DEF v, local, ev
<1>9. \A m \in Node \ {n} : v[m] <= versions[m][f][m] /\ Published(m, f, v[m])
  BY <1>5, <1>7, <1>8
<1>10. Learns(n, f, v)
  BY <1>5, <1>6 DEF Learns, local
<1>11. /\ \A m, k \in Node, g \in File :
             /\ versions'[k][g][m] <= versions'[m][g][m]
             /\ \A j \in 1..Len(log) :
                   IsWriteOf(j, g) => log[j].version[m] <= versions'[m][g][m]
             /\ Publishing(k, g) => pub[k].event.version[m] <= versions'[m][g][m]
             /\ m # k => Published(m, g, versions'[k][g][m])
       /\ LogIsCausal' /\ StreamIsClosed'
       /\ \A m, g, k : Published(m, g, k)' <=> Published(m, g, k)
  BY <1>2, <1>4, <1>9, <1>10, LearnsStep
<1>12. KnowledgeIsCausal'
  BY <1>6, <1>11 DEF KnowledgeIsCausal, Publishing, IsWriteOf
<1>13. OnlyPublishedIsKnown'
  <2> SUFFICES ASSUME NEW m \in Node, NEW k \in Node, NEW g \in File, m # k
               PROVE  /\ Published(m, g, versions'[k][g][m])
                      /\ Publishing(k, g) => Published(m, g, pub[k].event.version[m])
    BY <1>6, <1>11 DEF OnlyPublishedIsKnown, Publishing, Published, IsWriteOf
  <2> QED BY <1>11 DEF CausalInv, OnlyPublishedIsKnown
<1>14. NextWriteIsNew' /\ PublishesAsItself'
  BY <1>6 DEF CausalInv, NextWriteIsNew, PublishesAsItself, Publishing, IsWriteOf
<1> QED
  BY <1>11, <1>12, <1>13, <1>14 DEF CausalInv

\* VersionStore.Bump: n stamps the write it is about to publish.
LEMMA BumpStep ==
    ASSUME CausalInv, TypeOK', NEW n \in Node, Bump(n)
    PROVE  CausalInv'
<1> DEFINE f == pub[n].file
           v == Bumped(versions[n][f], n)
           e == [op |-> "write", origin |-> n, file |-> f, data |-> pub[n].data,
                 version |-> v, seq |-> sendSeq[n]]
<1>1. pub[n] \in PubState /\ pub[n].at = "bump" /\ f \in File
  BY PubFields DEF CausalInv, TypeOK, Bump
<1>2. versions[n][f] \in Vector /\ \A m \in Node : versions[n][f][m] \in Nat
  BY <1>1, Counters DEF CausalInv
<1>3. v \in Vector
  BY <1>2, VectorOps
<1>4. \A m \in Node : v[m] = IF m = n THEN versions[n][f][m] + 1 ELSE versions[n][f][m]
  BY <1>2 DEF Bumped, Vector
<1>5. /\ versions' = [versions EXCEPT ![n][f] = v] /\ log' = log
      /\ pub' = [pub EXCEPT ![n] = [at |-> "publish", event |-> e]]
  BY DEF Bump, StoreVersion, streamVars
<1>6. e.version = v /\ e.origin = n /\ e.op = "write" /\ e.file = f
  OBVIOUS
<1> HIDE DEF v, f, e
<1>7. Learns(n, f, v)
  BY <1>1, <1>2, <1>4, <1>5 DEF Learns
<1>8. \A m \in Node \ {n} : v[m] <= versions[m][f][m] /\ Published(m, f, v[m])
  BY <1>1, <1>4 DEF CausalInv, KnowledgeIsCausal, OnlyPublishedIsKnown
<1>9. /\ \A m, k \in Node, g \in File :
            /\ versions'[k][g][m] <= versions'[m][g][m]
            /\ \A j \in 1..Len(log) :
                  IsWriteOf(j, g) => log[j].version[m] <= versions'[m][g][m]
            /\ Publishing(k, g) => pub[k].event.version[m] <= versions'[m][g][m]
            /\ m # k => Published(m, g, versions'[k][g][m])
      /\ LogIsCausal' /\ StreamIsClosed'
      /\ \A m, g, k : Published(m, g, k)' <=> Published(m, g, k)
  BY <1>1, <1>3, <1>7, <1>8, LearnsStep
<1>10. \A k \in Node : /\ k = n => pub'[k].at = "publish" /\ pub'[k].event = e
                       /\ k # n => pub'[k] = pub[k]
  BY <1>5 DEF CausalInv, TypeOK
<1>11. \A k \in Node, g \in File :
          Publishing(k, g)' => \/ k = n /\ g = f /\ pub'[k].event = e
                               \/ k # n /\ Publishing(k, g) /\ pub'[k] = pub[k]
  BY <1>6, <1>10 DEF Publishing
<1>12. versions'[n][f] = v
  BY <1>1, <1>3, <1>7, LearnsFacts
<1>13. KnowledgeIsCausal'
  <2> SUFFICES ASSUME NEW m \in Node, NEW k \in Node, NEW g \in File, Publishing(k, g)'
               PROVE  pub'[k].event.version[m] <= versions'[m][g][m]
    BY <1>5, <1>9 DEF KnowledgeIsCausal, Publishing, IsWriteOf
  <2>1. CASE k = n /\ g = f /\ pub'[k].event = e
    <3>1. versions'[n][f][m] <= versions'[m][f][m]
      BY <1>1, <1>9
    <3> QED BY <1>6, <1>12, <2>1, <3>1
  <2>2. CASE Publishing(k, g) /\ pub'[k] = pub[k]
    BY <1>9, <2>2
  <2> QED BY <1>11, <2>1, <2>2
<1>14. OnlyPublishedIsKnown'
  <2> SUFFICES ASSUME NEW m \in Node, NEW k \in Node, NEW g \in File, m # k
               PROVE  /\ Published(m, g, versions'[k][g][m])
                      /\ Publishing(k, g)' => Published(m, g, pub'[k].event.version[m])
    BY <1>5 DEF OnlyPublishedIsKnown, Publishing, Published, IsWriteOf
  <2>1. CASE k = n /\ g = f /\ pub'[k].event = e
    BY <1>6, <1>8, <1>9, <2>1
  <2>2. CASE Publishing(k, g) /\ pub'[k] = pub[k]
    BY <1>9, <2>2 DEF CausalInv, OnlyPublishedIsKnown
  <2> QED BY <1>9, <1>11, <2>1, <2>2
<1>15. NextWriteIsNew'
  <2> SUFFICES ASSUME NEW k \in Node, NEW g \in File, Publishing(k, g)'
               PROVE  /\ pub'[k].event.version[k] > 0
                      /\ \A i \in 1..Len(log) :
                            IsWriteOf(i, g) /\ log[i].origin = k
                               => log[i].version[k] < pub'[k].event.version[k]
    BY <1>5 DEF NextWriteIsNew, Publishing, IsWriteOf
  <2>1. CASE k = n /\ g = f /\ pub'[k].event = e
    <3>1. \A i \in 1..Len(log) :
             IsWriteOf(i, f) => /\ log[i].version[n] <= versions[n][f][n]
                                /\ log[i].version[n] \in Nat
      BY <1>1, StreamFields DEF CausalInv, KnowledgeIsCausal, IsWriteOf
    <3>2. e.version[n] = versions[n][f][n] + 1 /\ versions[n][f][n] \in Nat
      BY <1>2, <1>4, <1>6
    <3> QED BY <2>1, <3>1, <3>2
  <2>2. CASE Publishing(k, g) /\ pub'[k] = pub[k]
    BY <2>2 DEF CausalInv, NextWriteIsNew
  <2> QED BY <1>11, <2>1, <2>2
<1>16. PublishesAsItself'
  BY <1>6, <1>10 DEF CausalInv, PublishesAsItself
<1> QED
  BY <1>9, <1>13, <1>14, <1>15, <1>16 DEF CausalInv

-----------------------------------------------------------------------------
(* Every step of the system is one of these. *)

LEMMA EndSessionIsQuiet ==
    ASSUME TypeOK, NEW n \in Node, NEW side, EndSession(n, side)
    PROVE  /\ \A m \in Node : pub'[m] = pub[m] \/ pub'[m].at # "publish"
           /\ side = "pub" => pub'[n].at # "publish"
BY DEF EndSession, TypeOK

LEMMA StepKinds ==
    ASSUME TypeOK, [Next]_vars
    PROVE  \/ Quiet
           \/ \E n \in Node : Stored(n) \/ Bump(n) \/ Reconcile(n)
<1>1. ASSUME NEW n \in Node, UserStep(n)
      PROVE  Quiet
  BY <1>1 DEF UserStep, UserWrite, UserRemove, UserRename, Acts, Quiet,
              guardVars, streamVars
<1>2. ASSUME NEW n \in Node, NEW change \in pending[n], Fire(n, change)
      PROVE  Quiet
  BY <1>2 DEF Fire, Quiet, TypeOK, guardVars, streamVars
<1>3. ASSUME NEW n \in Node, ReadFile(n) \/ IsEcho(n)
      PROVE  Quiet
  BY <1>3 DEF ReadFile, IsEcho, Idle, Quiet, TypeOK, guardVars, streamVars
<1>4. ASSUME NEW n \in Node, IsEchoRemove(n) \/ IsEchoRename(n)
      PROVE  Quiet
  <2>1. CASE IsEchoRemove(n)
    BY <2>1 DEF IsEchoRemove, Idle, Quiet, TypeOK, streamVars
  <2>2. CASE IsEchoRename(n)
    BY <2>2 DEF IsEchoRename, Idle, Quiet, TypeOK, streamVars
  <2> QED BY <1>4, <2>1, <2>2
<1>5. ASSUME NEW n \in Node, Publish(n)
      PROVE  Stored(n)
  BY <1>5 DEF Publish, Stored, Idle, TypeOK, guardVars
<1>6. ASSUME NEW n \in Node, PublishFails(n)
      PROVE  Quiet \/ Stored(n)
  <2>1. /\ \A m \in Node : pub'[m] = pub[m] \/ pub'[m].at # "publish"
        /\ pub'[n].at # "publish"
    BY <1>6, EndSessionIsQuiet DEF PublishFails
  <2> QED BY <1>6, <2>1 DEF PublishFails, Quiet, Stored, guardVars
<1>7. ASSUME NEW n \in Node, ReceiverFails(n) \/ ApplyFails(n)
      PROVE  Quiet
  BY <1>7, EndSessionIsQuiet DEF ReceiverFails, ApplyFails, Quiet, guardVars, streamVars
<1>8. ASSUME NEW n \in Node, Fetch(n)
      PROVE  Quiet
  BY <1>8, EndSessionIsQuiet DEF Fetch, Quiet, guardVars, streamVars
<1>9. ASSUME NEW n \in Node, ApplyRename(n)
      PROVE  Quiet
  BY <1>9, EndSessionIsQuiet DEF ApplyRename, Quiet, guardVars, streamVars
<1>10. ASSUME NEW n \in Node,
              \/ SkipOwn(n) \/ ApplyConflict(n) \/ Truncate(n) \/ ApplyWrite(n)
              \/ MarkApplied(n) \/ ApplyRemove(n) \/ MarkRemoved(n)
              \/ MarkRenamed(n) \/ Ack(n) \/ AckLost(n)
       PROVE  Quiet
  BY <1>10 DEF SkipOwn, ApplyConflict, Truncate, ApplyWrite, MarkApplied,
               ApplyRemove, MarkRemoved, MarkRenamed, Ack, AckLost, Quiet,
               guardVars, streamVars
<1>11. CASE UNCHANGED vars
  BY <1>11 DEF vars, guardVars, streamVars, Quiet
<1>12. CASE Next
  <2>1. PICK n \in Node : \/ UserStep(n) \/ PublisherStep(n) \/ ReceiverStep(n)
                          \/ PublishFails(n) \/ ReceiverFails(n) \/ ApplyFails(n)
                          \/ AckLost(n)
    BY <1>12 DEF Next
  <2> QED
    BY <2>1, <1>1, <1>2, <1>3, <1>4, <1>5, <1>6, <1>7, <1>8, <1>9, <1>10
    DEF PublisherStep, ReceiverStep
<1> QED BY <1>11, <1>12

LEMMA CausalInit == Init => CausalInv
<1> SUFFICES ASSUME Init PROVE CausalInv
  OBVIOUS
<1>1. /\ log = <<>> /\ Len(log) = 0
      /\ \A n \in Node : pub[n].at # "publish"
      /\ \A n, m \in Node, f \in File : versions[n][f][m] = 0
  BY DEF Init, Idle, ZeroVector
<1> QED
  BY <1>1, InitType
  DEF CausalInv, KnowledgeIsCausal, LogIsCausal, OnlyPublishedIsKnown,
      StreamIsClosed, NextWriteIsNew, PublishesAsItself, Published, Publishing

LEMMA CausalStep == CausalInv /\ [Next]_vars => CausalInv'
<1> SUFFICES ASSUME CausalInv, [Next]_vars PROVE CausalInv'
  OBVIOUS
<1>1. TypeOK /\ TypeOK'
  BY TypeStep DEF CausalInv
<1> QED
  BY <1>1, StepKinds, QuietStep, StoredStep, BumpStep, ReconcileStep

LEMMA CausalInvariant == Spec => []CausalInv
BY CausalInit, CausalStep, PTL DEF Spec

\* No vector, stored, published or about to be, ever claims more writes of a node
\* than that node has stamped, whatever the interleaving, the redeliveries and
\* the failures: VersionStore never invents knowledge.
THEOREM KnowledgeCausal == Spec => []KnowledgeIsCausal
<1>1. CausalInv => KnowledgeIsCausal
  BY DEF CausalInv
<1> QED BY <1>1, CausalInvariant, PTL

\* Of two writes of one file, the later one in the stream knows a write the
\* earlier one does not: an event is never behind an event it has already seen,
\* so compareVectors on the stream's order never takes a new write for a stale one.
THEOREM StreamCausal == Spec => []LogIsCausal
<1>1. CausalInv => LogIsCausal
  BY DEF CausalInv
<1> QED BY <1>1, CausalInvariant, PTL

-----------------------------------------------------------------------------
(* What a delivery decides: the invariant. *)

\* The steps of a receiver that has reconciled its event and not yet recorded
\* the verdict.
Applies == {"apply", "write", "markApplied"}
Deciding == Applies \cup {"conflict"}

\* Stream sequence i is a write by another node than n.
PeerWrite(n, i) == i \in 1..Len(log) /\ log[i].op = "write" /\ log[i].origin # n

\* n's audit log holds the verdict of a first delivery of i.
Judged(n, i) ==
    \E k \in 1..Len(audit[n]) : audit[n][k].id = i /\ audit[n][k].outcome # "stale"

\* n has reconciled i, or has decided to apply it.
Decided(n, i) == Judged(n, i) \/ (i = acked[n] + 1 /\ rx[n] \in Deciding)
Applied(n, i) == Found(n, i, "applied") \/ (i = acked[n] + 1 /\ rx[n] \in Applies)

\* Of two writes of a file, the later one in the stream knows more of its author.
AuthorLeads ==
    \A j \in 1..Len(log) : \A i \in 1..(j - 1) :
        IsWriteOf(j, log[j].file) /\ IsWriteOf(i, log[j].file)
            => log[i].version[log[j].origin] < log[j].version[log[j].origin]

\* A write that n has yet to decide is news to n: nobody else told n of it.
NewsIsNew ==
    \A n \in Node : \A i \in 1..Len(log) :
        /\ PeerWrite(n, i)
        /\ i > acked[n] + 1 \/ (i = acked[n] + 1 /\ ~Decided(n, i) /\ rx[n] # "returned")
        => versions[n][log[i].file][log[i].origin] < log[i].version[log[i].origin]

\* Whatever n has decided, it has learnt ...
DecidedIsKnown ==
    \A n \in Node : \A i \in 1..Len(log) :
        PeerWrite(n, i) /\ Decided(n, i) =>
            \A k \in Node : log[i].version[k] <= versions[n][log[i].file][k]

\* ... and so it has what it stamped itself.
OwnIsKnown ==
    \A n \in Node, f \in File, k \in Node :
        /\ \A j \in 1..Len(log) : IsWriteOf(j, f) /\ log[j].origin = n
                => log[j].version[k] <= versions[n][f][k]
        /\ Publishing(n, f) => pub[n].event.version[k] <= versions[n][f][k]

\* The audit log speaks of deliveries, a verdict is stale exactly if there was
\* one before, and every event behind the receiver has got one.
VerdictsInOrder ==
    \A n \in Node :
        /\ \A k \in 1..Len(audit[n]) : PeerWrite(n, audit[n][k].id)
        /\ \A k \in 1..Len(audit[n]) :
              IF audit[n][k].outcome = "stale"
              THEN \E j \in 1..(k - 1) : audit[n][j].id = audit[n][k].id
                                         /\ audit[n][j].outcome # "stale"
              ELSE \A j \in 1..(k - 1) : audit[n][j].id # audit[n][k].id
        /\ \A i \in 1..acked[n] : PeerWrite(n, i) => Judged(n, i)
        /\ rx[n] \in Deciding => ~Judged(n, acked[n] + 1)
        /\ rx[n] = "ack" /\ log[acked[n] + 1].op = "write" => Judged(n, acked[n] + 1)
        /\ rx[n] \notin {"fetch", "returned"} => log[acked[n] + 1].origin # n

\* What n applied it could compare with all its own writes of the file.
AppliedIsComparable ==
    \A n \in Node : \A i \in 1..Len(log) :
        PeerWrite(n, i) /\ Applied(n, i) =>
            /\ \A j \in 1..Len(log) : IsWriteOf(j, log[i].file) /\ log[j].origin = n
                  => ~Concurrent(log[i].version, log[j].version)
            /\ Publishing(n, log[i].file)
                  => ~Concurrent(log[i].version, pub[n].event.version)

DeliveryInv ==
    /\ CausalInv
    /\ AuthorLeads /\ NewsIsNew /\ DecidedIsKnown /\ OwnIsKnown
    /\ VerdictsInOrder /\ AppliedIsComparable

-----------------------------------------------------------------------------
(* The steps, as a receiver's progress sees them. *)

NoNewPublish ==
    \A m \in Node : \/ pub'[m] = pub[m]
                    \/ pub'[m].at # "publish"
                    \/ pub'[m].event.op # "write"

\* Vectors, stream, positions and verdicts stay; a receiver stays where it is,
\* stops, goes on applying, or is not deciding anything before or after.
Moved ==
    /\ UNCHANGED <<versions, log, acked, audit>>
    /\ NoNewPublish
    /\ \A m \in Node :
          \/ rx'[m] = rx[m] \/ rx'[m] = "returned"
          \/ rx[m] \in Applies /\ rx'[m] \in Applies
          \/ /\ rx[m] = "fetch" /\ log[acked[m] + 1].origin # m
             /\ rx'[m] \notin Deciding \cup {"ack"}
          \/ /\ rx[m] \notin Deciding \cup {"fetch", "returned"}
             /\ rx'[m] \notin Deciding
             /\ rx'[m] = "ack" => log[acked[m] + 1].op # "write"

\* n's publisher stored its event.
StoredBy(n) ==
    /\ Stored(n)
    /\ UNCHANGED <<acked, audit>>
    /\ \A m \in Node : rx'[m] = rx[m] \/ rx'[m] = "returned"

\* n records that it applied the event it holds, or put it aside.
JudgedBy(n) ==
    /\ UNCHANGED <<versions, log, acked, pub>>
    /\ \E outcome \in {"applied", "conflict"} :
          /\ Recorded(n, outcome)
          /\ outcome = "applied" => rx[n] \in Applies
    /\ rx[n] \in Deciding
    /\ rx' = [rx EXCEPT ![n] = "ack"]

\* n's consumer moves past an event of n's own or past one n has dealt with.
ConsumedBy(n) ==
    /\ UNCHANGED <<versions, log, audit>>
    /\ NoNewPublish
    /\ acked' = [acked EXCEPT ![n] = @ + 1]
    /\ acked[n] < Len(log)
    /\ rx[n] = "ack" \/ (rx[n] = "fetch" /\ log[acked[n] + 1].origin = n)
    /\ rx'[n] \in {"fetch", "returned"}
    /\ \A m \in Node \ {n} : rx'[m] = rx[m]

LEMMA EndSessionMoves ==
    ASSUME TypeOK, NEW n \in Node, NEW side, EndSession(n, side)
    PROVE  /\ NoNewPublish
           /\ \A m \in Node : rx'[m] = rx[m] \/ rx'[m] = "returned"
           /\ side = "rx" => rx'[n] = "returned" /\ \A m \in Node \ {n} : rx'[m] = rx[m]
BY DEF EndSession, TypeOK, NoNewPublish

LEMMA DeliveryKinds ==
    ASSUME TypeOK, [Next]_vars
    PROVE  \/ Moved
           \/ \E n \in Node :
                 StoredBy(n) \/ Bump(n) \/ Reconcile(n) \/ JudgedBy(n) \/ ConsumedBy(n)
<1>1. ASSUME NEW n \in Node, UserStep(n)
      PROVE  Moved
  BY <1>1 DEF UserStep, UserWrite, UserRemove, UserRename, Acts, Moved,
              NoNewPublish, guardVars, streamVars
<1>2. ASSUME NEW n \in Node,
             \/ \E change \in pending[n] : Fire(n, change)
             \/ ReadFile(n) \/ IsEcho(n) \/ IsEchoRemove(n) \/ IsEchoRename(n)
      PROVE  Moved
  <2>1. NoNewPublish
    BY <1>2 DEF Fire, ReadFile, IsEcho, IsEchoRemove, IsEchoRename, Idle, NoNewPublish,
       TypeOK
  <2>2. UNCHANGED <<versions, log, acked, audit, rx>>
    BY <1>2 DEF Fire, ReadFile, IsEcho, IsEchoRemove, IsEchoRename, guardVars, streamVars
  <2> QED BY <2>1, <2>2 DEF Moved
<1>3. ASSUME NEW n \in Node, Publish(n)
      PROVE  StoredBy(n)
  BY <1>3 DEF Publish, StoredBy, Stored, Idle, TypeOK, guardVars
<1>4. ASSUME NEW n \in Node, PublishFails(n)
      PROVE  Moved \/ StoredBy(n)
  <2>1. /\ NoNewPublish /\ \A m \in Node : pub'[m] = pub[m] \/ pub'[m].at # "publish"
        /\ pub'[n].at # "publish"
        /\ \A m \in Node : rx'[m] = rx[m] \/ rx'[m] = "returned"
    BY <1>4, EndSessionIsQuiet, EndSessionMoves DEF PublishFails
  <2> QED BY <1>4, <2>1 DEF PublishFails, Moved, StoredBy, Stored, guardVars
<1>5. ASSUME NEW n \in Node, ReceiverFails(n)
      PROVE  Moved \/ ConsumedBy(n)
  <2>1. /\ NoNewPublish
        /\ rx'[n] = "returned" /\ \A m \in Node \ {n} : rx'[m] = rx[m]
        /\ UNCHANGED <<versions, log, audit>>
    BY <1>5, EndSessionMoves DEF ReceiverFails, guardVars
  <2>2. CASE acked' = acked
    BY <2>1, <2>2 DEF Moved
  <2>3. CASE acked' # acked
    <3>1. rx[n] = "ack" /\ acked' = [acked EXCEPT ![n] = @ + 1]
      BY <1>5, <2>3 DEF ReceiverFails
    <3>2. acked[n] < Len(log)
      BY <3>1 DEF TypeOK, InHand
    <3> QED BY <2>1, <3>1, <3>2 DEF ConsumedBy
  <2> QED BY <2>2, <2>3
<1>6. ASSUME NEW n \in Node, Fetch(n)
      PROVE  Moved
  <2>1. UNCHANGED <<versions, log, acked, audit>> /\ rx[n] = "fetch"
        /\ log[acked[n] + 1].origin # n
    BY <1>6 DEF Fetch, Incoming, guardVars, streamVars
  <2>2. CASE EndSession(n, "rx")
    BY <2>1, <2>2, EndSessionMoves DEF Moved
  <2>3. CASE pub' = pub /\ \E step \in {"reconcile", "remove", "rename"} : Advance(n, step)
    <3>1. \A m \in Node : rx'[m] = rx[m] \/ (m = n /\ rx'[m] \in {"reconcile", "remove", "rename"})
      BY <2>3 DEF Advance, TypeOK
    <3> QED BY <2>1, <2>3, <3>1 DEF Moved, NoNewPublish, Deciding, Applies
  <2>4. Incoming(n).op \in {"write", "remove", "rename"}
    <3>1. acked[n] + 1 \in 1..Len(log)
      BY <1>6 DEF Fetch, TypeOK
    <3> QED BY <3>1, StreamFields, EventFields DEF Incoming
  <2> QED BY <1>6, <2>2, <2>3, <2>4 DEF Fetch
<1>7. ASSUME NEW n \in Node, ApplyRename(n)
      PROVE  Moved
  <2>1. UNCHANGED <<versions, log, acked, audit>> /\ rx[n] = "rename"
    BY <1>7 DEF ApplyRename, guardVars, streamVars
  <2>2. CASE EndSession(n, "rx")
    BY <2>1, <2>2, EndSessionMoves DEF Moved
  <2>3. CASE Advance(n, "markRenamed") /\ pub' = pub
    <3>1. \A m \in Node : rx'[m] = rx[m] \/ (m = n /\ rx'[m] = "markRenamed")
      BY <2>3 DEF Advance, TypeOK
    <3> QED BY <2>1, <2>3, <3>1 DEF Moved, NoNewPublish, Deciding, Applies
  <2> QED BY <1>7, <2>2, <2>3 DEF ApplyRename
<1>8. ASSUME NEW n \in Node,
             \/ Truncate(n) \/ ApplyWrite(n) \/ ApplyRemove(n) \/ MarkRemoved(n)
             \/ MarkRenamed(n) \/ AckLost(n)
      PROVE  Moved
  <2>1. UNCHANGED <<versions, log, acked, audit, pub>>
    BY <1>8 DEF Truncate, ApplyWrite, ApplyRemove, MarkRemoved, MarkRenamed, AckLost,
       guardVars, streamVars
  <2>2. \A m \in Node \ {n} : rx'[m] = rx[m]
    BY <1>8 DEF Truncate, ApplyWrite, ApplyRemove, MarkRemoved, MarkRenamed, AckLost,
       Advance, TypeOK
  <2>3. \/ rx[n] \in Applies /\ rx'[n] \in Applies
        \/ rx[n] = "remove" /\ rx'[n] = "markRemoved"
        \/ rx[n] \in {"markRemoved", "markRenamed"} /\ rx'[n] = "ack"
        \/ rx[n] = "ack" /\ rx'[n] = "fetch"
    BY <1>8 DEF Truncate, ApplyWrite, ApplyRemove, MarkRemoved, MarkRenamed, AckLost,
       Advance, TypeOK, Applies
  <2>4. rx[n] \in {"markRemoved", "markRenamed"} => log[acked[n] + 1].op # "write"
    BY DEF TypeOK, InHand, StepsFor
  <2> QED BY <2>1, <2>2, <2>3, <2>4 DEF Moved, NoNewPublish, Deciding, Applies
<1>9. ASSUME NEW n \in Node, ApplyConflict(n) \/ MarkApplied(n)
      PROVE  JudgedBy(n)
  <2>1. UNCHANGED <<versions, log, acked, pub>> /\ rx' = [rx EXCEPT ![n] = "ack"]
    BY <1>9 DEF ApplyConflict, MarkApplied, Advance, guardVars, streamVars
  <2> QED BY <1>9, <2>1 DEF ApplyConflict, MarkApplied, JudgedBy, Deciding, Applies
<1>10. ASSUME NEW n \in Node, SkipOwn(n) \/ Ack(n)
       PROVE  ConsumedBy(n)
  <2>1. UNCHANGED <<versions, log, audit, pub>> /\ acked' = [acked EXCEPT ![n] = @ + 1]
    BY <1>10 DEF SkipOwn, Ack, guardVars
  <2>2. acked[n] < Len(log)
    BY <1>10 DEF SkipOwn, Ack, TypeOK, InHand
  <2>3. /\ rx[n] = "ack" \/ (rx[n] = "fetch" /\ log[acked[n] + 1].origin = n)
        /\ rx'[n] = "fetch" /\ \A m \in Node \ {n} : rx'[m] = rx[m]
    BY <1>10 DEF SkipOwn, Ack, Advance, Incoming, TypeOK
  <2> QED BY <2>1, <2>2, <2>3 DEF ConsumedBy, NoNewPublish
<1>11. ASSUME NEW n \in Node, ApplyFails(n)
       PROVE  Moved
  BY <1>11, EndSessionMoves DEF ApplyFails, Moved, guardVars, streamVars
<1>12. CASE UNCHANGED vars
  BY <1>12 DEF vars, guardVars, streamVars, Moved, NoNewPublish
<1>13. CASE Next
  <2>1. PICK n \in Node : \/ UserStep(n) \/ PublisherStep(n) \/ ReceiverStep(n)
                          \/ PublishFails(n) \/ ReceiverFails(n) \/ ApplyFails(n)
                          \/ AckLost(n)
    BY <1>13 DEF Next
  <2> QED
    BY <2>1, <1>1, <1>2, <1>3, <1>4, <1>5, <1>6, <1>7, <1>8, <1>9, <1>10, <1>11
    DEF PublisherStep, ReceiverStep
<1> QED BY <1>12, <1>13

-----------------------------------------------------------------------------
(* Each kind of step keeps the invariant. *)

LEMMA PeerWriteFields ==
    ASSUME TypeOK, NEW n \in Node, NEW i, PeerWrite(n, i)
    PROVE  /\ i \in 1..Len(log) /\ log[i].origin \in Node /\ log[i].file \in File
           /\ log[i].op = "write" /\ IsWriteOf(i, log[i].file)
           /\ log[i].version \in Vector /\ \A m \in Node : log[i].version[m] \in Nat
BY StreamFields DEF PeerWrite, IsWriteOf

LEMMA MovedStep ==
    ASSUME DeliveryInv, CausalInv', Moved
    PROVE  DeliveryInv'
<1> USE DEF DeliveryInv
<1>1. UNCHANGED <<versions, log, acked, audit>>
  BY DEF Moved
<1>2. \A n \in Node, f \in File :
         Publishing(n, f)' => Publishing(n, f) /\ pub'[n] = pub[n]
  BY DEF Moved, NoNewPublish, Publishing
<1>3. \A n, i : (PeerWrite(n, i)' <=> PeerWrite(n, i)) /\ (Judged(n, i)' <=> Judged(n, i))
                /\ (Found(n, i, "applied")' <=> Found(n, i, "applied"))
  BY <1>1 DEF PeerWrite, Judged, Found
<1>4. /\ Deciding = {"apply", "write", "markApplied", "conflict"}
      /\ Applies = {"apply", "write", "markApplied"}
  BY DEF Deciding, Applies
<1>5. ASSUME NEW n \in Node
      PROVE  /\ rx'[n] \in Deciding => rx[n] \in Deciding
             /\ rx'[n] \in Applies => rx[n] \in Applies
             /\ rx'[n] # "returned" =>
                   rx[n] # "returned" /\ (rx[n] \in Deciding => rx'[n] \in Deciding)
  BY <1>4 DEF Moved
<1>6. \A n \in Node, i \in 1..Len(log) :
         /\ Decided(n, i)' => Decided(n, i)
         /\ Applied(n, i)' => Applied(n, i)
         /\ rx'[n] # "returned" /\ Decided(n, i) => Decided(n, i)'
  BY <1>1, <1>3, <1>5 DEF Decided, Applied
<1>7. AuthorLeads' /\ OwnIsKnown'
  BY <1>1, <1>2 DEF AuthorLeads, OwnIsKnown, IsWriteOf
<1>8. NewsIsNew'
  BY <1>1, <1>3, <1>5, <1>6 DEF NewsIsNew
<1>9. DecidedIsKnown'
  BY <1>1, <1>3, <1>6 DEF DecidedIsKnown
<1>10. VerdictsInOrder'
  <2> SUFFICES ASSUME NEW n \in Node
               PROVE  /\ rx'[n] \in Deciding => ~Judged(n, acked[n] + 1)
                      /\ rx'[n] = "ack" /\ log[acked[n] + 1].op = "write"
                            => Judged(n, acked[n] + 1)
                      /\ rx'[n] \notin {"fetch", "returned"} => log[acked[n] + 1].origin # n
    BY <1>1, <1>3 DEF VerdictsInOrder
  <2>1. rx'[n] = "ack" /\ log[acked[n] + 1].op = "write" => rx[n] = "ack"
    BY <1>4 DEF Moved
  <2>2. rx'[n] \notin {"fetch", "returned"} =>
            rx[n] \notin {"fetch", "returned"} \/ log[acked[n] + 1].origin # n
    BY <1>4 DEF Moved
  <2> QED BY <1>5, <2>1, <2>2 DEF VerdictsInOrder
<1>11. AppliedIsComparable'
  <2> SUFFICES ASSUME NEW n \in Node, NEW i \in 1..Len(log), PeerWrite(n, i), Applied(n, i),
                      NEW f, f = log[i].file
               PROVE  /\ \A j \in 1..Len(log) : IsWriteOf(j, f) /\ log[j].origin = n
                            => ~Concurrent(log[i].version, log[j].version)
                      /\ Publishing(n, f)'
                            => ~Concurrent(log[i].version, pub'[n].event.version)
    BY <1>1, <1>3, <1>6 DEF AppliedIsComparable, IsWriteOf, Publishing
  <2>1. f \in File
    BY PeerWriteFields DEF CausalInv
  <2> QED BY <1>2, <2>1 DEF AppliedIsComparable
<1> QED BY <1>7, <1>8, <1>9, <1>10, <1>11

\* A new event is news to all but its author, and no verdict speaks of it.
LEMMA StoredByStep ==
    ASSUME DeliveryInv, CausalInv', NEW n \in Node, StoredBy(n)
    PROVE  DeliveryInv'
<1> USE DEF DeliveryInv
<1> DEFINE e == pub[n].event
<1> PICK last : last = Len(log) + 1
  OBVIOUS
<1>1. /\ log \in Seq(Event) /\ Len(log) \in Nat /\ e \in Event
      /\ \A m \in Node : acked[m] \in Nat /\ acked[m] <= Len(log)
  BY PubFields DEF CausalInv, TypeOK, StoredBy, Stored
<1>2. /\ Len(log') = last /\ log'[last] = e
      /\ \A i \in 1..Len(log) : log'[i] = log[i]
      /\ 1..Len(log') = 1..Len(log) \cup {last} /\ last \notin 1..Len(log)
  BY <1>1 DEF StoredBy, Stored
<1>3. /\ e.origin = n /\ pub[n].at = "publish"
      /\ e.op = "write" => Publishing(n, e.file) /\ e.file \in File
  BY <1>1, EventFields DEF CausalInv, PublishesAsItself, StoredBy, Stored, Publishing
<1>4. /\ UNCHANGED <<versions, acked, audit>>
      /\ \A m \in Node : rx'[m] = rx[m] \/ rx'[m] = "returned"
      /\ \A m \in Node, f \in File :
            Publishing(m, f)' => m # n /\ Publishing(m, f) /\ pub'[m] = pub[m]
  BY DEF StoredBy, Stored, Publishing
<1>5. /\ \A m \in Node, i \in 1..Len(log) : PeerWrite(m, i)' <=> PeerWrite(m, i)
      /\ \A m \in Node : PeerWrite(m, last)' => m # n /\ e.op = "write"
  BY <1>2, <1>3 DEF PeerWrite
<1>6. e.op = "write" =>
         /\ e.version[n] \in Nat
         /\ \A i \in 1..Len(log) : IsWriteOf(i, e.file) => log[i].version[n] < e.version[n]
         /\ \A m \in Node \ {n} : versions[m][e.file][n] < e.version[n]
  <2> SUFFICES ASSUME e.op = "write"
               PROVE  /\ e.version[n] \in Nat
                      /\ \A i \in 1..Len(log) : IsWriteOf(i, e.file) => log[i].version[n] < e.version[n]
                      /\ \A m \in Node \ {n} : versions[m][e.file][n] < e.version[n]
    OBVIOUS
  <2> DEFINE f == e.file
  <2>1. Publishing(n, f) /\ f \in File
    BY <1>3
  <2>2. e.version[n] \in Nat
    BY <2>1, PublishingFields DEF CausalInv
  <2>3. /\ e.version[n] > 0
        /\ \A i \in 1..Len(log) : IsWriteOf(i, f) /\ log[i].origin = n
                                     => log[i].version[n] < e.version[n]
    BY <2>1 DEF CausalInv, NextWriteIsNew
  <2>4. \A i \in 1..Len(log) : IsWriteOf(i, f) => log[i].version[n] \in Nat
    BY StreamFields DEF CausalInv, IsWriteOf
  <2>5. ASSUME NEW k \in Nat, Published(n, f, k)
        PROVE  k < e.version[n]
    <3>1. CASE k = 0
      BY <2>2, <2>3, <3>1
    <3>2. ASSUME NEW i \in 1..Len(log), IsWriteOf(i, f), log[i].origin = n,
                 k <= log[i].version[n]
          PROVE  k < e.version[n]
      BY <2>2, <2>3, <2>4, <3>2
    <3> QED BY <2>5, <3>1, <3>2 DEF Published
  <2>6. \A i \in 1..Len(log) : IsWriteOf(i, f) => Published(n, f, log[i].version[n])
    BY <2>1 DEF CausalInv, StreamIsClosed
  <2>7. \A m \in Node \ {n} : /\ Published(n, f, versions[m][f][n])
                             /\ versions[m][f][n] \in Nat
    BY <2>1, Counters DEF CausalInv, OnlyPublishedIsKnown
  <2> HIDE DEF e, f
  <2>8. \A i \in 1..Len(log) : IsWriteOf(i, f) => log[i].version[n] < e.version[n]
    BY <2>4, <2>5, <2>6
  <2>9. \A m \in Node \ {n} : versions[m][f][n] < e.version[n]
    BY <2>5, <2>7
  <2> QED BY <2>2, <2>8, <2>9 DEF f
<1>7. \A m \in Node :
         /\ \A i : Judged(m, i)' <=> Judged(m, i)
         /\ \A i : Found(m, i, "applied")' <=> Found(m, i, "applied")
         /\ ~Judged(m, last) /\ ~Found(m, last, "applied")
         /\ rx[m] \in Deciding => acked[m] + 1 # last
  <2>1. ASSUME NEW m \in Node, NEW k \in 1..Len(audit[m])
        PROVE  audit[m][k].id \in 1..Len(log)
    BY DEF VerdictsInOrder, PeerWrite
  <2>2. \A m \in Node : rx[m] \in Deciding => acked[m] < Len(log)
    BY DEF CausalInv, TypeOK, InHand, Deciding, Applies
  <2>3. ASSUME NEW m \in Node PROVE ~Judged(m, last) /\ ~Found(m, last, "applied")
    BY <1>2, <2>1 DEF Judged, Found
  <2>4. ASSUME NEW m \in Node PROVE rx[m] \in Deciding => acked[m] + 1 # last
    BY <1>1, <2>2
  <2> QED BY <1>4, <2>3, <2>4 DEF Judged, Found
<1>8. /\ \A m \in Node, i \in 1..Len(log) :
            /\ Decided(m, i)' => Decided(m, i)
            /\ rx'[m] # "returned" => rx[m] # "returned" /\ (Decided(m, i) => Decided(m, i)')
            /\ Applied(m, i)' => Applied(m, i)
      /\ \A m \in Node : ~Decided(m, last)' /\ ~Applied(m, last)'
  <2>1. "returned" \notin Deciding /\ Applies \subseteq Deciding
    BY DEF Deciding, Applies
  <2> QED BY <1>4, <1>7, <2>1 DEF Decided, Applied
<1> HIDE DEF e
<1>9. ASSUME NEW i, NEW f, IsWriteOf(i, f)'
      PROVE  \/ i \in 1..Len(log) /\ IsWriteOf(i, f)
             \/ i = last /\ e.op = "write" /\ e.file = f
  BY <1>2, <1>9 DEF IsWriteOf
<1>10. AuthorLeads'
  <2> SUFFICES ASSUME NEW j \in 1..Len(log'), NEW i \in 1..(j - 1),
                      NEW f, f = log'[j].file, IsWriteOf(j, f)', IsWriteOf(i, f)'
               PROVE  log'[i].version[log'[j].origin] < log'[j].version[log'[j].origin]
    BY DEF AuthorLeads, IsWriteOf
  <2>1. i \in 1..Len(log) /\ log'[i] = log[i]
    BY <1>1, <1>2
  <2>2. IsWriteOf(i, f)
    BY <1>2, <1>9, <2>1
  <2>3. CASE j \in 1..Len(log)
    <3>1. log'[j] = log[j] /\ IsWriteOf(j, log[j].file)
      BY <1>2, <1>9, <2>3
    <3> QED BY <2>1, <2>2, <2>3, <3>1 DEF AuthorLeads
  <2>4. CASE j = last
    <3>1. log'[j] = e /\ e.op = "write"
      BY <1>2, <1>9, <2>4
    <3> QED BY <1>3, <1>6, <2>1, <2>2, <3>1
  <2> QED BY <1>2, <2>3, <2>4
<1>11. NewsIsNew'
  <2> SUFFICES ASSUME NEW m \in Node, NEW i \in 1..Len(log'), PeerWrite(m, i)',
                      \/ i > acked[m] + 1
                      \/ i = acked[m] + 1 /\ ~Decided(m, i)' /\ rx'[m] # "returned"
               PROVE  versions[m][log'[i].file][log'[i].origin] < log'[i].version[log'[i].origin]
    BY <1>4 DEF NewsIsNew
  <2>1. CASE i \in 1..Len(log)
    BY <1>2, <1>5, <1>8, <2>1 DEF NewsIsNew
  <2>2. CASE i = last
    BY <1>2, <1>3, <1>5, <1>6, <2>2
  <2> QED BY <1>2, <2>1, <2>2
<1>12. DecidedIsKnown'
  <2> SUFFICES ASSUME NEW m \in Node, NEW i \in 1..Len(log'), PeerWrite(m, i)', Decided(m, i)'
               PROVE  \A k \in Node : log'[i].version[k] <= versions[m][log'[i].file][k]
    BY <1>4 DEF DecidedIsKnown
  <2>1. i \in 1..Len(log)
    BY <1>2, <1>8
  <2> QED BY <1>2, <1>5, <1>8, <2>1 DEF DecidedIsKnown
<1>13. OwnIsKnown'
  <2> SUFFICES ASSUME NEW m \in Node, NEW f \in File, NEW k \in Node
               PROVE  /\ \A j \in 1..Len(log') : IsWriteOf(j, f)' /\ log'[j].origin = m
                            => log'[j].version[k] <= versions[m][f][k]
                      /\ Publishing(m, f)' => pub'[m].event.version[k] <= versions[m][f][k]
    BY <1>4 DEF OwnIsKnown
  <2>1. Publishing(m, f)' => pub'[m].event.version[k] <= versions[m][f][k]
    BY <1>4 DEF OwnIsKnown
  <2>2. ASSUME NEW j \in 1..Len(log'), IsWriteOf(j, f)', log'[j].origin = m
        PROVE  log'[j].version[k] <= versions[m][f][k]
    <3>1. CASE j \in 1..Len(log) /\ IsWriteOf(j, f)
      BY <1>2, <2>2, <3>1 DEF OwnIsKnown
    <3>2. CASE j = last /\ e.op = "write" /\ e.file = f
      BY <1>2, <1>3, <2>2, <3>2 DEF OwnIsKnown, e
    <3> QED BY <1>9, <2>2, <3>1, <3>2
  <2> QED BY <2>1, <2>2
<1>14. VerdictsInOrder'
  <2>1. ASSUME NEW m \in Node, NEW k \in 1..Len(audit[m])
        PROVE  /\ PeerWrite(m, audit[m][k].id)'
               /\ IF audit[m][k].outcome = "stale"
                  THEN \E j \in 1..(k - 1) : audit[m][j].id = audit[m][k].id
                                             /\ audit[m][j].outcome # "stale"
                  ELSE \A j \in 1..(k - 1) : audit[m][j].id # audit[m][k].id
    <3>1. PeerWrite(m, audit[m][k].id)
      BY DEF VerdictsInOrder
    <3>2. PeerWrite(m, audit[m][k].id)'
      BY <1>2, <1>4, <3>1 DEF PeerWrite
    <3> QED BY <3>2 DEF VerdictsInOrder
  <2>2. ASSUME NEW m \in Node, NEW i \in 1..acked[m], PeerWrite(m, i)'
        PROVE  Judged(m, i)'
    <3>1. i \in 1..Len(log)
      BY <1>1
    <3> QED BY <1>5, <1>7, <2>2, <3>1 DEF VerdictsInOrder
  <2>3. ASSUME NEW m \in Node, rx[m] \notin {"fetch", "returned"}
        PROVE  log'[acked[m] + 1] = log[acked[m] + 1]
    <3>1. acked[m] < Len(log)
      BY <2>3 DEF CausalInv, TypeOK, InHand
    <3>2. acked[m] + 1 \in 1..Len(log)
      BY <1>1, <3>1
    <3> QED BY <1>2, <3>2
  <2>4. ASSUME NEW m \in Node
        PROVE  /\ rx'[m] \in Deciding => ~Judged(m, acked[m] + 1)
               /\ rx'[m] = "ack" /\ log'[acked[m] + 1].op = "write"
                     => Judged(m, acked[m] + 1)
               /\ rx'[m] \notin {"fetch", "returned"} => log'[acked[m] + 1].origin # m
    <3>1. "returned" \notin Deciding
      BY DEF Deciding, Applies
    <3> QED BY <1>4, <2>3, <3>1 DEF VerdictsInOrder
  <2>5. \A m \in Node : Judged(m, acked[m] + 1)' <=> Judged(m, acked[m] + 1)
    BY <1>4 DEF Judged
  <2>6. \A m \in Node : \A k \in 1..Len(audit'[m]) : PeerWrite(m, audit[m][k].id)'
    BY <1>4, <2>1
  <2> QED BY <1>4, <2>1, <2>2, <2>4, <2>5, <2>6 DEF VerdictsInOrder
<1>15. AppliedIsComparable'
  <2> SUFFICES ASSUME NEW m \in Node, NEW i \in 1..Len(log'), PeerWrite(m, i)', Applied(m, i)',
                      NEW f, f = log'[i].file
               PROVE  /\ \A j \in 1..Len(log') : IsWriteOf(j, f)' /\ log'[j].origin = m
                            => ~Concurrent(log'[i].version, log'[j].version)
                      /\ Publishing(m, f)'
                            => ~Concurrent(log'[i].version, pub'[m].event.version)
    BY DEF AppliedIsComparable, IsWriteOf, Publishing
  <2>1. i \in 1..Len(log) /\ log'[i] = log[i] /\ PeerWrite(m, i) /\ Applied(m, i)
    BY <1>2, <1>5, <1>8
  <2>2. f \in File
    BY <2>1, PeerWriteFields DEF CausalInv
  <2>3. /\ \A j \in 1..Len(log) : IsWriteOf(j, f) /\ log[j].origin = m
              => ~Concurrent(log[i].version, log[j].version)
        /\ Publishing(m, f) => ~Concurrent(log[i].version, pub[m].event.version)
    BY <2>1 DEF AppliedIsComparable
  <2>4. ASSUME NEW j \in 1..Len(log'), IsWriteOf(j, f)', log'[j].origin = m
        PROVE  ~Concurrent(log[i].version, log'[j].version)
    <3>1. CASE j \in 1..Len(log) /\ IsWriteOf(j, f)
      BY <1>2, <2>3, <2>4, <3>1
    <3>2. CASE j = last /\ e.op = "write" /\ e.file = f
      BY <1>2, <1>3, <2>3, <2>4, <3>2 DEF e
    <3> QED BY <1>9, <2>4, <3>1, <3>2
  <2> QED BY <1>4, <2>1, <2>2, <2>3, <2>4
<1> QED BY <1>10, <1>11, <1>12, <1>13, <1>14, <1>15

\* What n stamps itself is news to nobody's verdicts, and knows all that n knows.
LEMMA BumpDelivers ==
    ASSUME DeliveryInv, CausalInv', NEW n \in Node, Bump(n)
    PROVE  DeliveryInv'
<1> USE DEF DeliveryInv
<1> DEFINE f == pub[n].file
           v == Bumped(versions[n][f], n)
           e == [op |-> "write", origin |-> n, file |-> f, data |-> pub[n].data,
                 version |-> v, seq |-> sendSeq[n]]
<1>1. pub[n] \in PubState /\ pub[n].at = "bump" /\ f \in File
  BY PubFields DEF CausalInv, TypeOK, Bump
<1>2. versions[n][f] \in Vector /\ \A m \in Node : versions[n][f][m] \in Nat
  BY <1>1, Counters DEF CausalInv
<1>3. \A m \in Node : v[m] = IF m = n THEN versions[n][f][m] + 1 ELSE versions[n][f][m]
  BY <1>2 DEF Bumped, Vector
<1>4. /\ versions' = [versions EXCEPT ![n][f] = v]
      /\ UNCHANGED <<log, acked, audit, rx>>
      /\ pub' = [pub EXCEPT ![n] = [at |-> "publish", event |-> e]]
  BY DEF Bump, StoreVersion, streamVars
<1>5. e.version = v /\ e.origin = n /\ e.op = "write" /\ e.file = f
  OBVIOUS
<1> HIDE DEF v, f, e
<1>6. \A m \in Node, g \in File :
         versions'[m][g] = IF m = n /\ g = f THEN v ELSE versions[m][g]
  BY <1>1, <1>4 DEF CausalInv, TypeOK
<1>7. /\ \A m, k \in Node, g \in File : versions'[m][g][k] >= versions[m][g][k]
      /\ \A m, k \in Node, g \in File : k # m => versions'[m][g][k] = versions[m][g][k]
      /\ \A m, k \in Node, g \in File : versions'[m][g][k] \in Nat
  BY <1>2, <1>3, <1>6, Counters DEF CausalInv
<1>8. \A m \in Node, g \in File :
         Publishing(m, g)' => \/ m = n /\ g = f /\ pub'[m].event = e
                              \/ m # n /\ Publishing(m, g) /\ pub'[m] = pub[m]
  BY <1>4, <1>5 DEF CausalInv, TypeOK, Publishing
<1>9. /\ \A m, i : (PeerWrite(m, i)' <=> PeerWrite(m, i)) /\ (Judged(m, i)' <=> Judged(m, i))
      /\ \A m, i : (Decided(m, i)' <=> Decided(m, i)) /\ (Applied(m, i)' <=> Applied(m, i))
  BY <1>4 DEF PeerWrite, Judged, Decided, Applied, Found
<1>10. AuthorLeads' /\ VerdictsInOrder'
  BY <1>4 DEF AuthorLeads, VerdictsInOrder, IsWriteOf, PeerWrite, Judged
<1>11. NewsIsNew'
  <2> SUFFICES ASSUME NEW m \in Node, NEW i \in 1..Len(log), PeerWrite(m, i),
                      \/ i > acked[m] + 1
                      \/ i = acked[m] + 1 /\ ~Decided(m, i) /\ rx[m] # "returned"
               PROVE  versions'[m][log[i].file][log[i].origin] < log[i].version[log[i].origin]
    BY <1>4, <1>9 DEF NewsIsNew
  <2>1. log[i].origin \in Node /\ log[i].origin # m /\ log[i].file \in File
    BY PeerWriteFields DEF CausalInv, PeerWrite
  <2> QED BY <1>7, <2>1 DEF NewsIsNew
<1>12. DecidedIsKnown'
  <2> SUFFICES ASSUME NEW m \in Node, NEW i \in 1..Len(log), PeerWrite(m, i), Decided(m, i),
                      NEW k \in Node
               PROVE  log[i].version[k] <= versions'[m][log[i].file][k]
    BY <1>4, <1>9 DEF DecidedIsKnown
  <2>1. /\ log[i].file \in File /\ log[i].version[k] \in Nat
        /\ log[i].version[k] <= versions[m][log[i].file][k]
    BY PeerWriteFields DEF CausalInv, DecidedIsKnown
  <2>2. versions[m][log[i].file][k] \in Nat /\ versions'[m][log[i].file][k] \in Nat
    BY <1>7, <2>1, Counters DEF CausalInv
  <2> QED BY <1>7, <2>1, <2>2
<1>13. OwnIsKnown'
  <2> SUFFICES ASSUME NEW m \in Node, NEW g \in File, NEW k \in Node
               PROVE  /\ \A j \in 1..Len(log) : IsWriteOf(j, g) /\ log[j].origin = m
                            => log[j].version[k] <= versions'[m][g][k]
                      /\ Publishing(m, g)' => pub'[m].event.version[k] <= versions'[m][g][k]
    BY <1>4 DEF OwnIsKnown, IsWriteOf, Publishing
  <2>1. versions[m][g][k] \in Nat /\ versions'[m][g][k] \in Nat
    BY <1>7, Counters DEF CausalInv
  <2>2. ASSUME NEW j \in 1..Len(log), IsWriteOf(j, g), log[j].origin = m
        PROVE  log[j].version[k] <= versions'[m][g][k]
    <3>1. log[j].version[k] \in Nat /\ log[j].version[k] <= versions[m][g][k]
      BY <2>2, StreamFields DEF CausalInv, OwnIsKnown, IsWriteOf
    <3> QED BY <1>7, <2>1, <3>1
  <2>3. CASE m = n /\ g = f /\ pub'[m].event = e
    BY <1>5, <1>6, <2>1, <2>2, <2>3
  <2>4. CASE m # n /\ Publishing(m, g) /\ pub'[m] = pub[m]
    <3>1. pub[m].event.version[k] \in Nat
      BY <2>4, PublishingFields DEF CausalInv
    <3>2. pub[m].event.version[k] <= versions[m][g][k]
      BY <2>4 DEF OwnIsKnown
    <3> QED BY <1>7, <2>1, <2>2, <2>4, <3>1, <3>2
  <2> QED BY <1>8, <2>2, <2>3, <2>4
<1>14. AppliedIsComparable'
  <2> SUFFICES ASSUME NEW m \in Node, NEW i \in 1..Len(log), PeerWrite(m, i), Applied(m, i),
                      NEW g, g = log[i].file
               PROVE  /\ \A j \in 1..Len(log) : IsWriteOf(j, g) /\ log[j].origin = m
                            => ~Concurrent(log[i].version, log[j].version)
                      /\ Publishing(m, g)'
                            => ~Concurrent(log[i].version, pub'[m].event.version)
    BY <1>4, <1>9 DEF AppliedIsComparable, IsWriteOf, Publishing
  <2>1. g \in File /\ \A k \in Node : log[i].version[k] \in Nat
    BY PeerWriteFields DEF CausalInv
  <2>2. Decided(m, i)
    BY DEF Applied, Decided, Found, Judged, Applies, Deciding
  <2>3. CASE m = n /\ g = f /\ pub'[m].event = e
    <3>1. \A k \in Node : log[i].version[k] <= versions[n][f][k]
      BY <2>2, <2>3 DEF DecidedIsKnown
    <3>2. \A k \in Node : v[k] \in Nat /\ log[i].version[k] <= v[k]
      BY <1>2, <1>3, <2>1, <3>1
    <3>3. ~KnowsMore(log[i].version, v)
      BY <2>1, <3>2 DEF KnowsMore
    <3> QED BY <1>5, <2>3, <3>3 DEF AppliedIsComparable, Concurrent
  <2>4. CASE Publishing(m, g)' => m # n /\ Publishing(m, g) /\ pub'[m] = pub[m]
    BY <2>4 DEF AppliedIsComparable
  <2> QED BY <1>8, <2>1, <2>3, <2>4
<1> QED BY <1>10, <1>11, <1>12, <1>13, <1>14

\* The event in n's hand is a write by somebody else.
LEMMA HeldWrite ==
    ASSUME DeliveryInv, NEW n \in Node, rx[n] \in Deciding \cup {"reconcile"}
    PROVE  PeerWrite(n, acked[n] + 1)
<1>1. acked[n] < Len(log) /\ rx[n] \in StepsFor(log[acked[n] + 1].op)
  BY DEF DeliveryInv, CausalInv, TypeOK, InHand, Deciding, Applies
<1>2. acked[n] + 1 \in 1..Len(log)
  BY <1>1 DEF DeliveryInv, CausalInv, TypeOK
<1>3. log[acked[n] + 1].op = "write"
  BY <1>1 DEF StepsFor, Deciding, Applies
<1>4. log[acked[n] + 1].origin # n
  BY DEF DeliveryInv, VerdictsInOrder, Deciding, Applies
<1> QED BY <1>2, <1>3, <1>4 DEF PeerWrite

LEMMA AuditAppended ==
    ASSUME TypeOK, NEW n \in Node, NEW outcome, Recorded(n, outcome)
    PROVE  /\ \A m \in Node \ {n} : audit'[m] = audit[m]
           /\ Len(audit'[n]) = Len(audit[n]) + 1 /\ Len(audit[n]) \in Nat
           /\ \A k \in 1..Len(audit[n]) : audit'[n][k] = audit[n][k]
           /\ audit'[n][Len(audit[n]) + 1] = [id |-> acked[n] + 1, outcome |-> outcome]
<1>1. audit[n] \in Seq(AuditRecord)
  BY DEF TypeOK
<1>2. /\ \A m \in Node \ {n} : audit'[m] = audit[m]
      /\ audit'[n] = Append(audit[n], [id |-> acked[n] + 1, outcome |-> outcome])
  BY DEF TypeOK, Recorded
<1> QED BY <1>1, <1>2

\* A recorded verdict is the first one of its event.
LEMMA JudgedByStep ==
    ASSUME DeliveryInv, CausalInv', NEW n \in Node, JudgedBy(n)
    PROVE  DeliveryInv'
<1> USE DEF DeliveryInv
<1> PICK id : id = acked[n] + 1
  OBVIOUS
<1>1. /\ UNCHANGED <<versions, log, acked, pub>>
      /\ rx[n] \in Deciding /\ rx'[n] = "ack" /\ rx'[n] \notin Deciding
      /\ \A m \in Node \ {n} : rx'[m] = rx[m]
  BY DEF JudgedBy, CausalInv, TypeOK, Deciding, Applies
<1>2. PICK outcome \in {"applied", "conflict"} :
          Recorded(n, outcome) /\ (outcome = "applied" => rx[n] \in Applies)
  BY DEF JudgedBy
<1> PICK last : last = Len(audit[n]) + 1
  OBVIOUS
<1>3. /\ \A m \in Node \ {n} : audit'[m] = audit[m]
      /\ 1..Len(audit'[n]) = 1..Len(audit[n]) \cup {last}
      /\ \A k \in 1..Len(audit[n]) : audit'[n][k] = audit[n][k] /\ 1..(k - 1) \subseteq 1..Len(audit[n])
      /\ audit'[n][last] = [id |-> id, outcome |-> outcome]
      /\ 1..(last - 1) = 1..Len(audit[n])
  BY <1>2, AuditAppended DEF CausalInv
<1>4. PeerWrite(n, id) /\ ~Judged(n, id)
  BY <1>1, HeldWrite DEF VerdictsInOrder
<1>5. /\ \A i : Judged(n, i)' <=> Judged(n, i) \/ i = id
      /\ \A m \in Node \ {n} : \A i : Judged(m, i)' <=> Judged(m, i)
      /\ \A i : Found(n, i, "applied")' =>
                   Found(n, i, "applied") \/ (i = id /\ rx[n] \in Applies)
      /\ \A m \in Node \ {n} : \A i : Found(m, i, "applied")' <=> Found(m, i, "applied")
  <2>1. ASSUME NEW i PROVE Judged(n, i)' <=> Judged(n, i) \/ i = id
    <3>1. audit'[n][last].id = id /\ audit'[n][last].outcome # "stale"
      BY <1>2, <1>3
    <3>2. Judged(n, id)'
      BY <1>3, <3>1 DEF Judged
    <3>3. Judged(n, i) => Judged(n, i)'
      BY <1>3 DEF Judged
    <3>4. Judged(n, i)' => Judged(n, i) \/ i = id
      BY <1>3, <3>1 DEF Judged
    <3> QED BY <3>2, <3>3, <3>4
  <2>2. ASSUME NEW i
        PROVE  Found(n, i, "applied")' => Found(n, i, "applied") \/ (i = id /\ rx[n] \in Applies)
    BY <1>2, <1>3 DEF Found
  <2> QED BY <1>3, <2>1, <2>2 DEF Judged, Found
<1>6. /\ \A m \in Node : \A i : PeerWrite(m, i)' <=> PeerWrite(m, i)
      /\ \A m \in Node : \A i : Decided(m, i)' <=> Decided(m, i)
      /\ \A m \in Node : \A i : Applied(m, i)' => Applied(m, i)
  <2>1. "ack" \notin Applies
    BY DEF Applies
  <2>2. ASSUME NEW m \in Node, NEW i
        PROVE  (Decided(m, i)' <=> Decided(m, i)) /\ (Applied(m, i)' => Applied(m, i))
    BY <1>1, <1>5, <2>1 DEF Decided, Applied
  <2> QED BY <1>1, <2>2 DEF PeerWrite
<1>7. AuthorLeads' /\ OwnIsKnown'
  BY <1>1 DEF AuthorLeads, OwnIsKnown, IsWriteOf, Publishing
<1>8. NewsIsNew' /\ DecidedIsKnown'
  <2>1. \A m \in Node : rx'[m] # "returned" => rx[m] # "returned"
    BY <1>1 DEF Deciding, Applies
  <2> QED BY <1>1, <1>6, <2>1 DEF NewsIsNew, DecidedIsKnown
<1>9. AppliedIsComparable'
  BY <1>1, <1>6 DEF AppliedIsComparable, IsWriteOf, Publishing
<1>10. VerdictsInOrder'
  <2>1. ASSUME NEW m \in Node, NEW k \in 1..Len(audit'[m])
        PROVE  /\ \A i : i = audit'[m][k].id => PeerWrite(m, i)'
               /\ IF audit'[m][k].outcome = "stale"
                  THEN \E j \in 1..(k - 1) : audit'[m][j].id = audit'[m][k].id
                                             /\ audit'[m][j].outcome # "stale"
                  ELSE \A j \in 1..(k - 1) : audit'[m][j].id # audit'[m][k].id
    <3>1. CASE m # n \/ k \in 1..Len(audit[m])
      <4>1. k \in 1..Len(audit[m]) /\ audit'[m][k] = audit[m][k]
            /\ \A j \in 1..(k - 1) : audit'[m][j] = audit[m][j]
        <5>1. CASE m # n
          BY <1>3, <5>1
        <5>2. CASE m = n
          <6>1. k \in 1..Len(audit[n])
            BY <3>1, <5>2
          <6>2. ASSUME NEW j \in 1..(k - 1) PROVE audit'[n][j] = audit[n][j]
            BY <1>3, <6>1
          <6>3. audit'[n][k] = audit[n][k]
            BY <1>3, <6>1
          <6> QED BY <5>2, <6>1, <6>2, <6>3
        <5> QED BY <5>1, <5>2
      <4>2. PICK r : r = audit[m][k]
        OBVIOUS
      <4>3. /\ PeerWrite(m, r.id)
            /\ IF r.outcome = "stale"
               THEN \E j \in 1..(k - 1) : audit[m][j].id = r.id /\ audit[m][j].outcome # "stale"
               ELSE \A j \in 1..(k - 1) : audit[m][j].id # r.id
        BY <4>1, <4>2 DEF VerdictsInOrder
      <4>4. audit'[m][k] = r /\ PeerWrite(m, r.id)'
        BY <1>6, <4>1, <4>2, <4>3
      <4>5. IF r.outcome = "stale"
            THEN \E j \in 1..(k - 1) : audit'[m][j].id = r.id /\ audit'[m][j].outcome # "stale"
            ELSE \A j \in 1..(k - 1) : audit'[m][j].id # r.id
        BY <4>1, <4>3
      <4> QED BY <4>4, <4>5
    <3>2. CASE m = n /\ k = last
      <4>1. audit'[n][last].id = id /\ audit'[n][last].outcome # "stale"
        BY <1>3
      <4>2. ASSUME NEW j \in 1..Len(audit[n]) PROVE audit'[n][j].id # id
        <5>1. CASE audit[n][j].outcome # "stale"
          BY <1>3, <1>4, <5>1 DEF Judged
        <5>2. CASE audit[n][j].outcome = "stale"
          <6>1. PICK h \in 1..(j - 1) : audit[n][h].id = audit[n][j].id
                                        /\ audit[n][h].outcome # "stale"
            BY <5>2 DEF VerdictsInOrder
          <6> QED BY <1>3, <1>4, <6>1 DEF Judged
        <5> QED BY <5>1, <5>2
      <4>3. PeerWrite(n, id)'
        BY <1>4, <1>6
      <4> QED BY <1>3, <3>2, <4>1, <4>2, <4>3
    <3> QED BY <1>3, <3>1, <3>2
  <2>2. ASSUME NEW m \in Node
        PROVE  /\ \A i \in 1..acked[m] : PeerWrite(m, i)' => Judged(m, i)'
               /\ \A i : i = acked[m] + 1 =>
                     /\ rx'[m] \in Deciding => ~Judged(m, i)'
                     /\ rx'[m] = "ack" /\ log[i].op = "write" => Judged(m, i)'
                     /\ rx'[m] \notin {"fetch", "returned"} => log[i].origin # m
    <3>1. \A i \in 1..acked[m] : PeerWrite(m, i)' => Judged(m, i)'
      BY <1>5, <1>6 DEF VerdictsInOrder
    <3>2. CASE m = n
      BY <1>1, <1>4, <1>5, <3>1, <3>2 DEF PeerWrite
    <3>3. CASE m # n
      BY <1>1, <1>5, <3>1, <3>3 DEF VerdictsInOrder
    <3> QED BY <3>2, <3>3
  <2> QED BY <1>1, <2>1, <2>2, SMTT(30) DEF VerdictsInOrder, PeerWrite, Judged
<1> QED BY <1>7, <1>8, <1>9, <1>10

\* What n leaves behind has its verdict.
LEMMA ConsumedByStep ==
    ASSUME DeliveryInv, CausalInv', NEW n \in Node, ConsumedBy(n)
    PROVE  DeliveryInv'
<1> USE DEF DeliveryInv
<1>1. /\ UNCHANGED <<versions, log, audit>>
      /\ acked[n] \in Nat /\ acked'[n] = acked[n] + 1
      /\ \A m \in Node \ {n} : acked'[m] = acked[m] /\ rx'[m] = rx[m]
      /\ rx'[n] \in {"fetch", "returned"}
      /\ rx[n] = "ack" \/ (rx[n] = "fetch" /\ log[acked[n] + 1].origin = n)
      /\ {"fetch", "returned"} \cap Deciding = {} /\ Applies \subseteq Deciding
  BY DEF ConsumedBy, CausalInv, TypeOK, Deciding, Applies
<1>2. \A m \in Node, f \in File :
         Publishing(m, f)' => Publishing(m, f) /\ pub'[m] = pub[m]
  BY DEF ConsumedBy, NoNewPublish, Publishing
<1>3. /\ \A m, i : (PeerWrite(m, i)' <=> PeerWrite(m, i)) /\ (Judged(m, i)' <=> Judged(m, i))
      /\ \A m, i : Found(m, i, "applied")' <=> Found(m, i, "applied")
  BY <1>1 DEF PeerWrite, Judged, Found
<1>4. /\ \A m \in Node : \A i : (Decided(m, i)' => Decided(m, i)) /\ (Applied(m, i)' => Applied(m, i))
      /\ \A m \in Node \ {n} : \A i : Decided(m, i)' <=> Decided(m, i)
  BY <1>1, <1>3 DEF Decided, Applied
<1>5. AuthorLeads' /\ OwnIsKnown'
  BY <1>1, <1>2 DEF AuthorLeads, OwnIsKnown, IsWriteOf
<1>6. NewsIsNew'
  <2> SUFFICES ASSUME NEW m \in Node, NEW i \in 1..Len(log), PeerWrite(m, i),
                      \/ i > acked'[m] + 1
                      \/ i = acked'[m] + 1 /\ ~Decided(m, i)' /\ rx'[m] # "returned"
               PROVE  versions[m][log[i].file][log[i].origin] < log[i].version[log[i].origin]
    BY <1>1, <1>3 DEF NewsIsNew, Decided
  <2>1. CASE m = n
    BY <1>1, <2>1 DEF NewsIsNew
  <2>2. CASE m # n
    BY <1>1, <1>4, <2>2 DEF NewsIsNew
  <2> QED BY <2>1, <2>2
<1>7. DecidedIsKnown'
  BY <1>1, <1>3, <1>4 DEF DecidedIsKnown
<1>8. AppliedIsComparable'
  <2> SUFFICES ASSUME NEW m \in Node, NEW i \in 1..Len(log), PeerWrite(m, i), Applied(m, i),
                      NEW f, f = log[i].file
               PROVE  /\ \A j \in 1..Len(log) : IsWriteOf(j, f) /\ log[j].origin = m
                            => ~Concurrent(log[i].version, log[j].version)
                      /\ Publishing(m, f)'
                            => ~Concurrent(log[i].version, pub'[m].event.version)
    BY <1>1, <1>3, <1>4 DEF AppliedIsComparable, IsWriteOf, Publishing
  <2>1. f \in File
    BY PeerWriteFields DEF CausalInv
  <2> QED BY <1>2, <2>1 DEF AppliedIsComparable
<1>9. VerdictsInOrder'
  <2>1. ASSUME NEW i, i = acked[n] + 1, PeerWrite(n, i)
        PROVE  Judged(n, i)
    BY <1>1, <2>1 DEF VerdictsInOrder, PeerWrite
  <2>2. ASSUME NEW m \in Node, NEW i \in 1..acked'[m], PeerWrite(m, i)
        PROVE  Judged(m, i)
    <3>1. CASE i \in 1..acked[m]
      BY <2>2, <3>1 DEF VerdictsInOrder
    <3>2. CASE m = n /\ i = acked[n] + 1
      BY <2>1, <2>2, <3>2
    <3> QED BY <1>1, <3>1, <3>2
  <2>3. ASSUME NEW m \in Node
        PROVE  /\ rx'[m] \in Deciding => ~Judged(m, acked[m] + 1)'
               /\ rx'[m] = "ack" /\ log[acked'[m] + 1].op = "write"
                     => Judged(m, acked[m] + 1)'
               /\ rx'[m] \notin {"fetch", "returned"} => log[acked'[m] + 1].origin # m
    <3>1. CASE m = n
      BY <1>1, <3>1
    <3>2. CASE m # n
      <4>1. acked'[m] = acked[m] /\ rx'[m] = rx[m]
        BY <1>1, <3>2
      <4>2. Judged(m, acked[m] + 1)' <=> Judged(m, acked[m] + 1)
        BY <1>1, <4>1 DEF Judged
      <4> QED BY <1>1, <4>1, <4>2 DEF VerdictsInOrder
    <3> QED BY <3>1, <3>2
  <2>4. \A m \in Node : \A k \in 1..Len(audit[m]) :
            /\ PeerWrite(m, audit[m][k].id)
            /\ IF audit[m][k].outcome = "stale"
               THEN \E j \in 1..(k - 1) : audit[m][j].id = audit[m][k].id
                                          /\ audit[m][j].outcome # "stale"
               ELSE \A j \in 1..(k - 1) : audit[m][j].id # audit[m][k].id
    BY DEF VerdictsInOrder
  <2>5. \A m \in Node : \A k \in 1..Len(audit'[m]) : PeerWrite(m, audit[m][k].id)'
    BY <1>1, <2>4 DEF PeerWrite
  <2>6. \A m \in Node : \A i \in 1..acked'[m] : PeerWrite(m, i)' => Judged(m, i)'
    BY <1>3, <2>2
  <2> QED BY <1>1, <2>3, <2>4, <2>5, <2>6 DEF VerdictsInOrder
<1> QED BY <1>5, <1>6, <1>7, <1>8, <1>9

\* What VersionStore.Reconcile leaves stored knows all that came in.
LEMMA ReconciledKnows ==
    ASSUME NEW a \in Vector, NEW b \in Vector, NEW m \in Node
    PROVE  b[m] <= Reconciled(a, b)[m]
<1>1. a[m] \in Nat /\ b[m] \in Nat
  BY DEF Vector
<1>2. CASE After(b, a)
  BY <1>1, <1>2 DEF Reconciled
<1>3. CASE ~After(b, a) /\ Concurrent(b, a)
  BY <1>1, <1>3 DEF Reconciled, Merged
<1>4. CASE ~After(b, a) /\ ~Concurrent(b, a)
  <2>1. ~(b[m] > a[m])
    BY <1>4 DEF After, Concurrent, KnowsMore
  <2> QED BY <1>1, <1>4, <2>1 DEF Reconciled
<1> QED BY <1>2, <1>3, <1>4

\* n has reconciled the write with stream sequence i, of the file f: it stored the
\* vector v, and holds news exactly if i had no verdict yet.
ReconciledBy(n, i, f, v) ==
    /\ UNCHANGED <<log, acked, pub>>
    /\ rx[n] = "reconcile" /\ i = acked[n] + 1
    /\ PeerWrite(n, i) /\ log[i].file = f /\ f \in File
    /\ \A k \in Node : /\ v[k] \in {versions[n][f][k], log[i].version[k]}
                       /\ versions[n][f][k] <= v[k] /\ log[i].version[k] <= v[k]
    /\ \A m \in Node, g \in File :
          versions'[m][g] = IF m = n /\ g = f THEN v ELSE versions[m][g]
    /\ \A m \in Node \ {n} : rx'[m] = rx[m] /\ audit'[m] = audit[m]
    /\ \/ /\ ~Judged(n, i) /\ audit' = audit
          /\ \/ rx'[n] = "conflict"
             \/ rx'[n] = "apply" /\ \A k \in Node : versions[n][f][k] <= log[i].version[k]
       \/ /\ Judged(n, i) /\ Recorded(n, "stale") /\ rx'[n] = "ack"

LEMMA NothingMore ==
    ASSUME NEW a, NEW b, \A k \in Node : a[k] \in Nat /\ b[k] \in Nat
    PROVE  ~KnowsMore(a, b) <=> \A k \in Node : a[k] <= b[k]
BY DEF KnowsMore

\* The event n reconciles is news exactly if it has no verdict yet, and then n
\* decides about it; else n records it as stale.
LEMMA ReconcileFacts ==
    ASSUME DeliveryInv, NEW n \in Node, Reconcile(n)
    PROVE  \E i, f, v : ReconciledBy(n, i, f, v)
<1> PICK i : i = acked[n] + 1
  OBVIOUS
<1> PICK ev : ev = log[i]
  OBVIOUS
<1> PICK f : f = ev.file
  OBVIOUS
<1> PICK local : local = versions[n][f]
  OBVIOUS
<1> PICK v : v = Reconciled(local, ev.version)
  OBVIOUS
<1> SUFFICES ReconciledBy(n, i, f, v)
  OBVIOUS
<1> USE DEF DeliveryInv
<1>1. PeerWrite(n, i) /\ rx[n] = "reconcile"
  BY HeldWrite DEF Reconcile
<1>2. /\ i \in 1..Len(log) /\ f \in File /\ ev.origin \in Node /\ ev.origin # n
      /\ ev.version \in Vector /\ \A k \in Node : ev.version[k] \in Nat
  BY <1>1, PeerWriteFields DEF CausalInv, PeerWrite
<1>3. local \in Vector /\ \A k \in Node : local[k] \in Nat
  BY <1>2, Counters DEF CausalInv
<1>4. \A k \in Node : /\ v[k] \in {local[k], ev.version[k]}
                      /\ local[k] <= v[k] /\ ev.version[k] <= v[k]
  BY <1>2, <1>3, ReconciledOps, ReconciledKnows
<1>5. versions' = [versions EXCEPT ![n][f] = v]
  BY DEF Reconcile, StoreVersion, Incoming
<1>6. \A m \in Node, g \in File :
         versions'[m][g] = IF m = n /\ g = f THEN v ELSE versions[m][g]
  BY <1>2, <1>5 DEF CausalInv, TypeOK
<1>7. KnowsMore(ev.version, local) => ~Judged(n, i)
  <2> SUFFICES ASSUME Judged(n, i) PROVE ~KnowsMore(ev.version, local)
    OBVIOUS
  <2>1. Decided(n, i)
    BY DEF Decided
  <2>2. \A k \in Node : ev.version[k] <= local[k]
    BY <1>1, <1>2, <2>1 DEF DecidedIsKnown
  <2> HIDE DEF DeliveryInv
  <2> QED BY <1>2, <1>3, <2>2, NothingMore
<1>8. ~Judged(n, i) => KnowsMore(ev.version, local)
  <2> SUFFICES ASSUME ~Judged(n, i) PROVE KnowsMore(ev.version, local)
    OBVIOUS
  <2>1. ~Decided(n, i)
    BY <1>1 DEF Decided, Deciding, Applies
  <2>2. local[ev.origin] < ev.version[ev.origin]
    BY <1>1, <1>2, <2>1 DEF NewsIsNew
  <2> QED BY <1>2, <1>3, <2>2 DEF KnowsMore
<1>9. /\ UNCHANGED <<log, acked, pub>>
       /\ \A k \in Node : /\ v[k] \in {versions[n][f][k], log[i].version[k]}
                          /\ versions[n][f][k] <= v[k] /\ log[i].version[k] <= v[k]
  BY <1>4 DEF Reconcile, streamVars
<1>10. \A step \in {"apply", "conflict", "ack"} :
         Advance(n, step) => rx'[n] = step /\ \A m \in Node \ {n} : rx'[m] = rx[m]
  BY DEF Advance, CausalInv, TypeOK
<1>11. \/ After(ev.version, local) /\ Advance(n, "apply") /\ audit' = audit
       \/ Concurrent(ev.version, local) /\ Advance(n, "conflict") /\ audit' = audit
       \/ /\ Same(ev.version, local) \/ Before(ev.version, local)
          /\ Advance(n, "ack") /\ Recorded(n, "stale")
  BY DEF Reconcile, Incoming
<1>12. CASE After(ev.version, local) /\ Advance(n, "apply") /\ audit' = audit
  <2>1. ~Judged(n, i) /\ rx'[n] = "apply" /\ \A m \in Node \ {n} : rx'[m] = rx[m]
    BY <1>7, <1>10, <1>12 DEF After
  <2>2. \A k \in Node : local[k] <= ev.version[k]
    <3> HIDE DEF DeliveryInv
    <3>1. ~KnowsMore(local, ev.version)
      BY <1>12 DEF After
    <3> QED BY <1>2, <1>3, <3>1, NothingMore
  <2> QED BY <1>1, <1>2, <1>6, <1>12, <1>9, <2>1, <2>2 DEF ReconciledBy
<1>13. CASE Concurrent(ev.version, local) /\ Advance(n, "conflict") /\ audit' = audit
  <2>1. ~Judged(n, i) /\ rx'[n] = "conflict" /\ \A m \in Node \ {n} : rx'[m] = rx[m]
    BY <1>7, <1>10, <1>13 DEF Concurrent
  <2> QED BY <1>1, <1>2, <1>6, <1>13, <1>9, <2>1 DEF ReconciledBy
<1>14. CASE /\ Same(ev.version, local) \/ Before(ev.version, local)
            /\ Advance(n, "ack") /\ Recorded(n, "stale")
  <2>1. Judged(n, i) /\ rx'[n] = "ack" /\ \A m \in Node \ {n} : rx'[m] = rx[m]
    BY <1>8, <1>10, <1>14 DEF Same, Before
  <2>2. \A m \in Node \ {n} : audit'[m] = audit[m]
    BY <1>14, AuditAppended DEF CausalInv
  <2> QED BY <1>1, <1>2, <1>6, <1>14, <1>9, <2>1, <2>2 DEF ReconciledBy
<1> QED BY <1>11, <1>12, <1>13, <1>14

LEMMA ReconciledByStep ==
    ASSUME DeliveryInv, CausalInv', NEW n \in Node, NEW i, NEW f, NEW v,
           ReconciledBy(n, i, f, v)
    PROVE  DeliveryInv'
<1> USE DEF DeliveryInv
<1>1. /\ f \in File /\ log[i].file = f /\ log[i].origin \in Node
      /\ \A k \in Node : /\ versions[n][f][k] \in Nat /\ log[i].version[k] \in Nat
                         /\ v[k] \in {versions[n][f][k], log[i].version[k]}
                         /\ versions[n][f][k] <= v[k] /\ log[i].version[k] <= v[k]
      /\ \A m \in Node, g \in File :
            versions'[m][g] = IF m = n /\ g = f THEN v ELSE versions[m][g]
  <2>1. \A k \in Node : versions[n][f][k] \in Nat
    BY Counters DEF ReconciledBy, CausalInv
  <2>2. log[i].origin \in Node /\ \A k \in Node : log[i].version[k] \in Nat
    BY PeerWriteFields DEF ReconciledBy, CausalInv
  <2> QED BY <2>1, <2>2 DEF ReconciledBy
<1>2. /\ UNCHANGED <<log, acked, pub>> /\ rx[n] = "reconcile"
      /\ i = acked[n] + 1 /\ acked[n] \in Nat
      /\ i \in 1..Len(log) /\ log[i].op = "write" /\ log[i].origin # n /\ PeerWrite(n, i)
  BY DEF ReconciledBy, PeerWrite, CausalInv, TypeOK
<1>3. \A m \in Node \ {n} : rx'[m] = rx[m] /\ audit'[m] = audit[m]
  BY DEF ReconciledBy
<1>4. \/ /\ ~Judged(n, i) /\ audit' = audit
         /\ \/ rx'[n] = "conflict"
            \/ rx'[n] = "apply" /\ \A k \in Node : versions[n][f][k] <= log[i].version[k]
      \/ /\ Judged(n, i) /\ Recorded(n, "stale") /\ rx'[n] = "ack"
  BY DEF ReconciledBy
<1>5. /\ \A m, j : PeerWrite(m, j)' <=> PeerWrite(m, j)
      /\ \A m \in Node, g \in File : Publishing(m, g)' <=> Publishing(m, g)
  BY <1>2 DEF PeerWrite, Publishing
<1>6. \A m \in Node, g \in File, k \in Node :
         /\ versions[m][g][k] \in Nat /\ versions'[m][g][k] \in Nat
         /\ versions[m][g][k] <= versions'[m][g][k]
  <2> SUFFICES ASSUME NEW m \in Node, NEW g \in File, NEW k \in Node
               PROVE  /\ versions[m][g][k] \in Nat /\ versions'[m][g][k] \in Nat
                      /\ versions[m][g][k] <= versions'[m][g][k]
    OBVIOUS
  <2>1. versions[m][g][k] \in Nat
    BY Counters DEF CausalInv
  <2>2. CASE m = n /\ g = f
    <3>1. v[k] \in Nat /\ versions[n][f][k] <= v[k]
      BY <1>1
    <3>2. versions'[n][f] = v
      BY <1>1
    <3> QED BY <2>1, <2>2, <3>1, <3>2
  <2>3. CASE ~(m = n /\ g = f)
    <3>1. versions'[m][g] = versions[m][g]
      BY <1>1, <2>3
    <3> QED BY <2>1, <3>1
  <2> QED BY <2>2, <2>3
<1>7. /\ \A m \in Node : \A j : Judged(m, j)' <=> Judged(m, j)
      /\ \A m \in Node : \A j : Found(m, j, "applied")' <=> Found(m, j, "applied")
  <2>1. CASE audit' = audit
    BY <2>1 DEF Judged, Found
  <2>2. CASE Recorded(n, "stale")
    <3> PICK last : last = Len(audit[n]) + 1
      OBVIOUS
    <3>1. /\ Len(audit'[n]) = last /\ Len(audit[n]) \in Nat
          /\ \A k \in 1..Len(audit[n]) : audit'[n][k] = audit[n][k]
          /\ audit'[n][last] = [id |-> i, outcome |-> "stale"]
      BY <1>2, <2>2, AuditAppended DEF CausalInv
    <3>2. 1..Len(audit'[n]) = 1..Len(audit[n]) \cup {last}
      BY <3>1
    <3>3. ASSUME NEW j
          PROVE  /\ Judged(n, j)' <=> Judged(n, j)
                 /\ Found(n, j, "applied")' <=> Found(n, j, "applied")
      <4>1. /\ audit'[n][last].outcome = "stale"
            /\ audit'[n][last] # [id |-> j, outcome |-> "applied"]
        BY <3>1
      <4>2. Judged(n, j)' <=> Judged(n, j)
        BY <3>1, <3>2, <4>1 DEF Judged
      <4>3. Found(n, j, "applied")' <=> Found(n, j, "applied")
        BY <3>1, <3>2, <4>1 DEF Found
      <4> QED BY <4>2, <4>3
    <3>4. ASSUME NEW m \in Node, NEW j
          PROVE  /\ Judged(m, j)' <=> Judged(m, j)
                 /\ Found(m, j, "applied")' <=> Found(m, j, "applied")
      <4>1. CASE m # n
        BY <1>3, <4>1 DEF Judged, Found
      <4> QED BY <3>3, <4>1
    <3> QED BY <3>4
  <2> QED BY <1>4, <2>1, <2>2
<1>8. /\ Decided(n, i)'
      /\ \A m \in Node : \A j : m # n \/ j # i => (Decided(m, j)' <=> Decided(m, j))
      /\ \A m \in Node : \A j : Applied(m, j)' =>
            Applied(m, j) \/ (m = n /\ j = i /\ rx'[n] = "apply")
  <2>1. /\ {"conflict", "apply"} \subseteq Deciding /\ "conflict" \notin Applies
        /\ {"ack", "reconcile"} \cap Deciding = {} /\ Applies \subseteq Deciding
    BY DEF Deciding, Applies
  <2>2. Decided(n, i)'
    BY <1>2, <1>4, <1>7, <2>1 DEF Decided
  <2>3. ASSUME NEW m \in Node, NEW j
        PROVE  /\ m # n \/ j # i => (Decided(m, j)' <=> Decided(m, j))
               /\ Applied(m, j)' =>
                     Applied(m, j) \/ (m = n /\ j = i /\ rx'[n] = "apply")
    <3>1. CASE m # n
      BY <1>2, <1>3, <1>7, <3>1 DEF Decided, Applied
    <3>2. CASE m = n
      <4>1. j # i => (Decided(n, j)' <=> Decided(n, j))
        BY <1>2, <1>7 DEF Decided
      <4>2. rx'[n] \in Applies => rx'[n] = "apply"
        BY <1>4, <2>1 DEF Deciding
      <4>3. Applied(n, j)' => Applied(n, j) \/ (j = i /\ rx'[n] = "apply")
        BY <1>2, <1>7, <4>2 DEF Applied
      <4> QED BY <3>2, <4>1, <4>3
    <3> QED BY <3>1, <3>2
  <2> QED BY <2>2, <2>3
<1>9. AuthorLeads'
  BY <1>2 DEF AuthorLeads, IsWriteOf
<1>10. NewsIsNew'
  <2> SUFFICES ASSUME NEW m \in Node, NEW j \in 1..Len(log), PeerWrite(m, j),
                      \/ j > acked[m] + 1
                      \/ j = acked[m] + 1 /\ ~Decided(m, j)' /\ rx'[m] # "returned"
               PROVE  versions'[m][log[j].file][log[j].origin] < log[j].version[log[j].origin]
    BY <1>2, <1>5 DEF NewsIsNew
  <2>1. log[j].file \in File /\ log[j].origin \in Node /\ IsWriteOf(j, log[j].file)
    BY PeerWriteFields DEF CausalInv
  <2>2. CASE m # n
    <3>1. j > acked[m] + 1 \/ (j = acked[m] + 1 /\ ~Decided(m, j) /\ rx[m] # "returned")
      BY <1>3, <1>8, <2>2
    <3>2. versions[m][log[j].file][log[j].origin] < log[j].version[log[j].origin]
      BY <3>1 DEF NewsIsNew
    <3> QED BY <1>1, <2>1, <2>2, <3>2
  <2>3. CASE m = n
    <3>1. j > acked[n] + 1
      <4>1. Decided(m, i)' /\ i = acked[m] + 1
        BY <1>2, <1>8, <2>3
      <4> QED BY <2>3, <4>1
    <3>2. versions[n][log[j].file][log[j].origin] < log[j].version[log[j].origin]
      BY <2>3, <3>1 DEF NewsIsNew
    <3>3. CASE log[j].file # f
      BY <1>1, <2>1, <2>3, <3>2, <3>3
    <3>4. CASE log[j].file = f
      <4>1. i \in 1..(j - 1) /\ IsWriteOf(i, f) /\ IsWriteOf(j, f)
        BY <1>1, <1>2, <2>1, <3>1, <3>4 DEF IsWriteOf
      <4>2. log[i].version[log[j].origin] < log[j].version[log[j].origin]
        BY <3>4, <4>1 DEF AuthorLeads
      <4>3. v[log[j].origin] \in {versions[n][f][log[j].origin], log[i].version[log[j].origin]}
        BY <1>1, <2>1
      <4>4. v[log[j].origin] < log[j].version[log[j].origin]
        BY <3>2, <3>4, <4>2, <4>3
      <4> QED BY <1>1, <2>3, <3>4, <4>4
    <3> QED BY <3>3, <3>4
  <2> QED BY <2>2, <2>3
<1>11. DecidedIsKnown'
  <2> SUFFICES ASSUME NEW m \in Node, NEW j \in 1..Len(log), PeerWrite(m, j), Decided(m, j)',
                      NEW k \in Node
               PROVE  log[j].version[k] <= versions'[m][log[j].file][k]
    BY <1>2, <1>5 DEF DecidedIsKnown
  <2>1. log[j].file \in File /\ log[j].version[k] \in Nat
    BY PeerWriteFields DEF CausalInv
  <2>2. CASE m = n /\ j = i
    BY <1>1, <2>2
  <2>3. CASE m # n \/ j # i
    <3>1. log[j].version[k] <= versions[m][log[j].file][k]
      BY <1>8, <2>3 DEF DecidedIsKnown
    <3> QED BY <1>6, <2>1, <3>1
  <2> QED BY <2>2, <2>3
<1>12. OwnIsKnown'
  <2> SUFFICES ASSUME NEW m \in Node, NEW g \in File, NEW k \in Node
               PROVE  /\ \A j \in 1..Len(log) : IsWriteOf(j, g) /\ log[j].origin = m
                            => log[j].version[k] <= versions'[m][g][k]
                      /\ Publishing(m, g) => pub[m].event.version[k] <= versions'[m][g][k]
    BY <1>2, <1>5 DEF OwnIsKnown, IsWriteOf
  <2>1. ASSUME NEW j \in 1..Len(log), IsWriteOf(j, g), log[j].origin = m
        PROVE  log[j].version[k] <= versions'[m][g][k]
    <3>1. log[j].version[k] \in Nat /\ log[j].version[k] <= versions[m][g][k]
      BY <2>1, StreamFields DEF CausalInv, OwnIsKnown, IsWriteOf
    <3> QED BY <1>6, <3>1
  <2>2. ASSUME Publishing(m, g)
        PROVE  pub[m].event.version[k] <= versions'[m][g][k]
    <3>1. /\ pub[m].event.version[k] \in Nat
          /\ pub[m].event.version[k] <= versions[m][g][k]
      BY <2>2, PublishingFields DEF CausalInv, OwnIsKnown
    <3> QED BY <1>6, <3>1
  <2> QED BY <2>1, <2>2
<1>13. AppliedIsComparable'
  <2> SUFFICES ASSUME NEW m \in Node, NEW j \in 1..Len(log), PeerWrite(m, j), Applied(m, j)',
                      NEW g, g = log[j].file
               PROVE  /\ \A h \in 1..Len(log) : IsWriteOf(h, g) /\ log[h].origin = m
                            => ~Concurrent(log[j].version, log[h].version)
                      /\ Publishing(m, g)
                            => ~Concurrent(log[j].version, pub[m].event.version)
    <3>1. \A m \in Node : \A j \in 1..Len(log) : PeerWrite(m, j) => log[j].file \in File
      BY PeerWriteFields DEF CausalInv
    <3> QED BY <1>2, <1>5, <3>1 DEF AppliedIsComparable, IsWriteOf
  <2>1. CASE Applied(m, j)
    BY <2>1 DEF AppliedIsComparable
  <2>2. CASE m = n /\ j = i /\ rx'[n] = "apply"
    <3>1. g = f /\ \A k \in Node : versions[n][f][k] <= log[i].version[k]
      BY <1>1, <1>4, <2>2
    <3>2. ASSUME NEW h \in 1..Len(log), IsWriteOf(h, g), log[h].origin = n
          PROVE  ~Concurrent(log[j].version, log[h].version)
      <4>1. ASSUME NEW k \in Node PROVE ~(log[h].version[k] > log[i].version[k])
        <5>1. log[h].version[k] \in Nat /\ log[h].version[k] <= versions[n][f][k]
          BY <1>1, <3>1, <3>2, StreamFields DEF CausalInv, OwnIsKnown, IsWriteOf
        <5> QED BY <1>1, <3>1, <5>1
      <4> QED BY <2>2, <4>1 DEF Concurrent, KnowsMore
    <3>3. ASSUME Publishing(n, g)
          PROVE  ~Concurrent(log[j].version, pub[n].event.version)
      <4>1. ASSUME NEW k \in Node PROVE ~(pub[n].event.version[k] > log[i].version[k])
        <5>1. pub[n].event.version[k] \in Nat /\ pub[n].event.version[k] <= versions[n][f][k]
          BY <1>1, <3>1, <3>3, PublishingFields DEF CausalInv, OwnIsKnown
        <5> QED BY <1>1, <3>1, <5>1
      <4> QED BY <2>2, <4>1 DEF Concurrent, KnowsMore
    <3> QED BY <2>2, <3>2, <3>3
  <2> QED BY <1>8, <2>1, <2>2
<1>14. VerdictsInOrder'
  <2>1. ASSUME NEW m \in Node, NEW k \in 1..Len(audit'[m])
        PROVE  /\ PeerWrite(m, audit'[m][k].id)
               /\ IF audit'[m][k].outcome = "stale"
                  THEN \E j \in 1..(k - 1) : audit'[m][j].id = audit'[m][k].id
                                             /\ audit'[m][j].outcome # "stale"
                  ELSE \A j \in 1..(k - 1) : audit'[m][j].id # audit'[m][k].id
    <3>1. CASE m # n \/ audit' = audit
      <4>1. audit'[m] = audit[m]
        BY <1>3, <3>1
      <4> QED BY <4>1 DEF VerdictsInOrder
    <3>2. CASE m = n /\ Recorded(n, "stale") /\ Judged(n, i)
      <4> PICK last : last = Len(audit[n]) + 1
        OBVIOUS
      <4>1. /\ Len(audit'[n]) = last /\ Len(audit[n]) \in Nat
            /\ \A h \in 1..Len(audit[n]) : audit'[n][h] = audit[n][h]
            /\ audit'[n][last] = [id |-> i, outcome |-> "stale"]
        BY <1>2, <3>2, AuditAppended DEF CausalInv
      <4>2. /\ 1..Len(audit'[n]) = 1..Len(audit[n]) \cup {last}
            /\ 1..(last - 1) = 1..Len(audit[n])
            /\ \A h \in 1..Len(audit[n]) : 1..(h - 1) \subseteq 1..Len(audit[n])
        BY <4>1
      <4>3. CASE k = last
        <5>1. PICK h \in 1..Len(audit[n]) : audit[n][h].id = i /\ audit[n][h].outcome # "stale"
          BY <3>2 DEF Judged
        <5>2. audit'[n][h] = audit[n][h] /\ h \in 1..(last - 1)
          BY <4>2, <4>1
        <5>3. audit'[m][k] = [id |-> i, outcome |-> "stale"]
          BY <3>2, <4>3, <4>1
        <5> QED BY <1>2, <3>2, <4>3, <5>1, <5>2, <5>3
      <4>4. CASE k \in 1..Len(audit[n])
        <5>1. PICK r : r = audit[n][k]
          OBVIOUS
        <5>2. /\ PeerWrite(n, r.id)
              /\ IF r.outcome = "stale"
                 THEN \E j \in 1..(k - 1) : audit[n][j].id = r.id /\ audit[n][j].outcome # "stale"
                 ELSE \A j \in 1..(k - 1) : audit[n][j].id # r.id
          BY <4>4, <5>1 DEF VerdictsInOrder
        <5>3. audit'[n][k] = r /\ \A j \in 1..(k - 1) : audit'[n][j] = audit[n][j]
          BY <4>2, <4>4, <4>1, <5>1
        <5>4. IF r.outcome = "stale"
              THEN \E j \in 1..(k - 1) : audit'[n][j].id = r.id /\ audit'[n][j].outcome # "stale"
              ELSE \A j \in 1..(k - 1) : audit'[n][j].id # r.id
          BY <5>2, <5>3
        <5> QED BY <3>2, <5>2, <5>3, <5>4
      <4> QED BY <3>2, <4>2, <4>3, <4>4
    <3> QED BY <1>4, <3>1, <3>2
  <2>2. ASSUME NEW m \in Node
        PROVE  /\ \A j \in 1..acked[m] : PeerWrite(m, j) => Judged(m, j)'
               /\ \A j : j = acked[m] + 1 =>
                     /\ rx'[m] \in Deciding => ~Judged(m, j)'
                     /\ rx'[m] = "ack" /\ log[j].op = "write" => Judged(m, j)'
                     /\ rx'[m] \notin {"fetch", "returned"} => log[j].origin # m
    <3>1. \A j \in 1..acked[m] : PeerWrite(m, j) => Judged(m, j)'
      BY <1>7 DEF VerdictsInOrder
    <3>2. CASE m = n
      <4>1. "ack" \notin Deciding /\ "conflict" # "ack" /\ "apply" # "ack"
        BY DEF Deciding, Applies
      <4>2. rx'[n] \in Deciding => ~Judged(n, i)
        BY <1>4, <4>1
      <4>3. rx'[n] = "ack" => Judged(n, i)
        BY <1>4, <4>1
      <4> QED BY <1>2, <1>7, <3>1, <3>2, <4>2, <4>3
    <3>3. CASE m # n
      BY <1>3, <1>7, <3>1, <3>3 DEF VerdictsInOrder
    <3> QED BY <3>2, <3>3
  <2>3. \A m \in Node : \A k \in 1..Len(audit'[m]) : \A j : j = audit'[m][k].id => PeerWrite(m, j)'
    BY <1>5, <2>1
  <2> QED BY <1>2, <1>5, <2>1, <2>2, <2>3 DEF VerdictsInOrder, PeerWrite, Judged
<1> QED BY <1>9, <1>10, <1>11, <1>12, <1>13, <1>14

LEMMA ReconcileDelivers ==
    ASSUME DeliveryInv, CausalInv', NEW n \in Node, Reconcile(n)
    PROVE  DeliveryInv'
<1>1. PICK i, f, v : ReconciledBy(n, i, f, v)
  BY ReconcileFacts
<1> QED BY <1>1, ReconciledByStep

LEMMA DeliveryInit == Init => DeliveryInv
<1> SUFFICES ASSUME Init PROVE DeliveryInv
  OBVIOUS
<1>1. CausalInv
  BY CausalInit
<1>2. /\ Len(log) = 0 /\ \A n \in Node : pub[n].at = "select" /\ rx[n] = "fetch"
      /\ \A n \in Node : acked[n] = 0 /\ Len(audit[n]) = 0
  BY DEF Init, Idle
<1>3. AuthorLeads /\ NewsIsNew /\ DecidedIsKnown /\ OwnIsKnown /\ AppliedIsComparable
  BY <1>2 DEF AuthorLeads, NewsIsNew, DecidedIsKnown, OwnIsKnown, AppliedIsComparable,
              Publishing
<1>4. VerdictsInOrder
  <2> SUFFICES ASSUME NEW n \in Node
               PROVE  /\ 1..Len(audit[n]) = {} /\ 1..acked[n] = {}
                      /\ rx[n] = "fetch" /\ "fetch" \notin Deciding
    BY DEF VerdictsInOrder
  <2> QED BY <1>2 DEF Deciding, Applies
<1> QED BY <1>1, <1>3, <1>4 DEF DeliveryInv

LEMMA DeliveryStep == DeliveryInv /\ [Next]_vars => DeliveryInv'
<1> SUFFICES ASSUME DeliveryInv, [Next]_vars PROVE DeliveryInv'
  OBVIOUS
<1>1. TypeOK /\ CausalInv'
  BY CausalStep DEF DeliveryInv, CausalInv
<1>2. CASE Moved
  BY <1>1, <1>2, MovedStep
<1>3. ASSUME NEW n \in Node, StoredBy(n) PROVE DeliveryInv'
  BY <1>1, <1>3, StoredByStep
<1>4. ASSUME NEW n \in Node, Bump(n) PROVE DeliveryInv'
  BY <1>1, <1>4, BumpDelivers
<1>5. ASSUME NEW n \in Node, Reconcile(n) PROVE DeliveryInv'
  BY <1>1, <1>5, ReconcileDelivers
<1>6. ASSUME NEW n \in Node, JudgedBy(n) PROVE DeliveryInv'
  BY <1>1, <1>6, JudgedByStep
<1>7. ASSUME NEW n \in Node, ConsumedBy(n) PROVE DeliveryInv'
  BY <1>1, <1>7, ConsumedByStep
<1> QED BY <1>1, <1>2, <1>3, <1>4, <1>5, <1>6, <1>7, DeliveryKinds

LEMMA DeliveryInvariant == Spec => []DeliveryInv
<1> QED BY DeliveryInit, DeliveryStep, PTL DEF Spec

-----------------------------------------------------------------------------
(* What follows from it. *)

\* A write that was delivered is decided by its first delivery, and every
\* redelivery of it is stale (ReceiveChanges, VersionStore.Reconcile): it is
\* never dropped unseen and never applied twice, however many acknowledgements
\* are lost and however many nodes write.
THEOREM FirstDeliveryIsDecisive == Spec => []FirstDeliveryDecides
<1>1. DeliveryInv => FirstDeliveryDecides
  <2> SUFFICES ASSUME DeliveryInv, NEW n \in Node, NEW i \in 1..acked[n],
                      log[i].op = "write", log[i].origin # n
               PROVE  \E k \in 1..Len(audit[n]) :
                         /\ audit[n][k].id = i /\ audit[n][k].outcome # "stale"
                         /\ \A j \in 1..Len(audit[n]) \ {k} :
                               audit[n][j].id = i => j > k /\ audit[n][j].outcome = "stale"
    BY DEF FirstDeliveryDecides
  <2>1. PeerWrite(n, i)
    BY DEF PeerWrite, DeliveryInv, CausalInv, TypeOK
  <2>2. PICK k \in 1..Len(audit[n]) : audit[n][k].id = i /\ audit[n][k].outcome # "stale"
    BY <2>1 DEF DeliveryInv, VerdictsInOrder, Judged
  <2>3. ASSUME NEW j \in 1..Len(audit[n]) \ {k}, audit[n][j].id = i
        PROVE  j > k /\ audit[n][j].outcome = "stale"
    <3>1. \A h \in 1..(k - 1) : audit[n][h].id # i
      BY <2>2 DEF DeliveryInv, VerdictsInOrder
    <3>2. j > k
      BY <2>3, <3>1
    <3>3. audit[n][j].outcome # "stale" => \A h \in 1..(j - 1) : audit[n][h].id # i
      BY <2>3 DEF DeliveryInv, VerdictsInOrder
    <3>4. k \in 1..(j - 1)
      BY <3>2
    <3> QED BY <2>2, <3>2, <3>3, <3>4
  <2> QED BY <2>2, <2>3
<1> QED BY <1>1, DeliveryInvariant, PTL

\* Two nodes that wrote a file without having seen each other's write both put
\* the other's write aside as a conflict (Concurrent in VersionStore.Reconcile):
\* neither side silently takes the other's content.
THEOREM ConflictsMutual == Spec => []ConflictsAreMutual
<1>1. ASSUME DeliveryInv, NEW m \in Node, NEW n \in Node,
             NEW i \in 1..acked[n], NEW j \in 1..Len(log),
             log[i].op = "write", log[j].op = "write", log[i].file = log[j].file,
             log[i].origin = m, log[j].origin = n, m # n,
             Concurrent(log[i].version, log[j].version)
      PROVE  Found(n, i, "conflict")
  <2>1. PeerWrite(n, i)
    BY <1>1 DEF PeerWrite, DeliveryInv, CausalInv, TypeOK
  <2>2. PICK k \in 1..Len(audit[n]) : audit[n][k].id = i /\ audit[n][k].outcome # "stale"
    BY <1>1, <2>1 DEF DeliveryInv, VerdictsInOrder, Judged
  <2>3. audit[n][k] \in AuditRecord
    BY <1>1 DEF DeliveryInv, CausalInv, TypeOK
  <2>4. ~Found(n, i, "applied")
    BY <1>1, <2>1 DEF DeliveryInv, AppliedIsComparable, Applied, IsWriteOf, PeerWrite
  <2>5. audit[n][k] = [id |-> i, outcome |-> audit[n][k].outcome]
    BY <2>2, <2>3 DEF AuditRecord
  <2>6. audit[n][k].outcome = "conflict"
    BY <2>2, <2>3, <2>4, <2>5 DEF AuditRecord, Outcome, Found
  <2> QED BY <2>5, <2>6 DEF Found
<1>2. DeliveryInv => ConflictsAreMutual
  <2> SUFFICES ASSUME DeliveryInv, NEW m \in Node, NEW n \in Node,
                      NEW i \in 1..acked[n], NEW j \in 1..acked[m],
                      log[i].op = "write", log[j].op = "write", log[i].file = log[j].file,
                      log[i].origin = m, log[j].origin = n, m # n,
                      Concurrent(log[i].version, log[j].version)
               PROVE  Found(n, i, "conflict") /\ Found(m, j, "conflict")
    BY DEF ConflictsAreMutual
  <2>1. i \in 1..Len(log) /\ j \in 1..Len(log)
    BY DEF DeliveryInv, CausalInv, TypeOK
  <2>2. Concurrent(log[j].version, log[i].version)
    BY DEF Concurrent
  <2> QED BY <1>1, <2>1, <2>2
<1> QED BY <1>2, DeliveryInvariant, PTL

-----------------------------------------------------------------------------
(* Sealed writes: what an encrypted session opens, and in which order. *)

\* The steps at which a receiver holds a write it has opened and not yet decided.
Holding == Deciding \cup {"reconcile"}

\* The sequence number of the write n's k-th verdict is about.
SealOf(n, k) == log[audit[n][k].id].seq

\* The writes n has decided were sealed in the order of the verdicts, all of them
\* before the next one n's receiving chain opens; the write in n's hand was the
\* last one opened.
OpenedAt(n) ==
    /\ \A k \in 1..Len(audit[n]) : /\ audit[n][k].id \in 1..Len(log)
                                   /\ log[audit[n][k].id].op = "write"
                                   /\ SealOf(n, k) < recvSeq[n]
    /\ \A j \in 1..Len(audit[n]) : \A i \in 1..(j - 1) : SealOf(n, i) < SealOf(n, j)
    /\ rx[n] \in Holding =>
          /\ log[acked[n] + 1].seq < recvSeq[n]
          /\ \A k \in 1..Len(audit[n]) : SealOf(n, k) < log[acked[n] + 1].seq

OpenedInv == TypeOK /\ (enc => \A n \in Node : OpenedAt(n))

\* The stream only grows.
Grown ==
    /\ Len(log) <= Len(log')
    /\ \A i \in 1..Len(log) : log'[i] = log[i]

\* Nothing is opened or decided; a receiver that holds a write held it before.
OpensNothing ==
    /\ UNCHANGED <<enc, recvSeq, audit>> /\ Grown
    /\ \A m \in Node : rx'[m] \in Holding => rx[m] \in Holding /\ acked'[m] = acked[m]

\* n opens the next write; in an encrypted session its receiving chain advances.
OpenedBy(n) ==
    /\ UNCHANGED <<enc, log, acked, audit>>
    /\ rx[n] = "fetch" /\ rx'[n] = "reconcile"
    /\ \A m \in Node \ {n} : rx'[m] = rx[m] /\ recvSeq'[m] = recvSeq[m]
    /\ acked[n] + 1 \in 1..Len(log) /\ log[acked[n] + 1].op = "write"
    /\ log[acked[n] + 1].origin # n
    /\ enc => /\ log[acked[n] + 1].seq = recvSeq[n]
              /\ recvSeq'[n] = recvSeq[n] + 1

\* n records a verdict on the write in its hand.
RecordedBy(n) ==
    /\ UNCHANGED <<enc, recvSeq, log, acked>>
    /\ rx[n] \in Holding /\ rx'[n] = "ack"
    /\ \A m \in Node \ {n} : rx'[m] = rx[m]
    /\ \E outcome \in Outcome : Recorded(n, outcome)

LEMMA HoldingIs == Holding = {"reconcile", "apply", "write", "markApplied", "conflict"}
BY DEF Holding, Deciding, Applies

LEMMA StreamGrows ==
    ASSUME TypeOK, NEW n \in Node, pub[n].at = "publish", log' = Append(log, pub[n].event)
    PROVE  /\ Grown /\ Len(log') = Len(log) + 1 /\ log'[Len(log) + 1] = pub[n].event
           /\ 1..Len(log') = 1..Len(log) \cup {Len(log) + 1}
<1>1. log \in Seq(Event) /\ pub[n].event \in Event
  BY PubFields DEF TypeOK
<1>2. /\ Len(log') = Len(log) + 1 /\ log'[Len(log) + 1] = pub[n].event
      /\ \A i \in 1..Len(log) : log'[i] = log[i]
      /\ Len(log) \in Nat
  BY <1>1
<1> QED BY <1>2 DEF Grown

LEMMA GrownRefl == ASSUME TypeOK, log' = log PROVE Grown
BY DEF TypeOK, Grown

LEMMA OpenKinds ==
    ASSUME TypeOK, [Next]_vars
    PROVE  OpensNothing \/ \E n \in Node : OpenedBy(n) \/ RecordedBy(n)
<1> USE HoldingIs
<1>1. ASSUME UNCHANGED <<enc, recvSeq, audit, log, acked, rx>>
      PROVE  OpensNothing
  BY <1>1, GrownRefl DEF OpensNothing
<1>2. ASSUME NEW n \in Node, UserStep(n)
      PROVE  OpensNothing
  BY <1>1, <1>2 DEF UserStep, UserWrite, UserRemove, UserRename, Acts, chainVars, streamVars
<1>3. ASSUME NEW n \in Node,
             \/ \E change \in pending[n] : Fire(n, change)
             \/ ReadFile(n) \/ IsEcho(n) \/ IsEchoRemove(n) \/ IsEchoRename(n) \/ Bump(n)
      PROVE  OpensNothing
  BY <1>1, <1>3 DEF Fire, ReadFile, IsEcho, IsEchoRemove, IsEchoRename, Bump, chainVars,
     streamVars
<1>4. ASSUME NEW n \in Node, NEW side, EndSession(n, side)
      PROVE  \A m \in Node : rx'[m] \in Holding => rx'[m] = rx[m]
  BY <1>4 DEF EndSession, TypeOK
<1>5. ASSUME NEW n \in Node, Publish(n) \/ PublishFails(n)
      PROVE  OpensNothing
  <2>1. pub[n].at = "publish" /\ log' \in {log, Append(log, pub[n].event)}
        /\ UNCHANGED <<enc, recvSeq, audit, acked>>
    BY <1>5 DEF Publish, PublishFails, chainVars
  <2>2. Grown
    BY <2>1, GrownRefl, StreamGrows
  <2>3. \A m \in Node : rx'[m] \in Holding => rx'[m] = rx[m]
    BY <1>4, <1>5 DEF Publish, PublishFails
  <2> QED BY <2>1, <2>2, <2>3 DEF OpensNothing
<1>6. ASSUME NEW n \in Node, ReceiverFails(n)
      PROVE  OpensNothing
  <2>1. UNCHANGED <<enc, recvSeq, audit, log>> /\ rx[n] \notin Holding
        /\ \A m \in Node \ {n} : acked'[m] = acked[m]
    BY <1>6 DEF ReceiverFails, chainVars, TypeOK
  <2>2. \A m \in Node : rx'[m] \in Holding => rx'[m] = rx[m]
    BY <1>4, <1>6 DEF ReceiverFails
  <2> QED BY <2>1, <2>2, GrownRefl DEF OpensNothing
<1>7. ASSUME NEW n \in Node, SkipOwn(n) \/ Ack(n)
      PROVE  OpensNothing
  <2>1. UNCHANGED <<enc, recvSeq, audit, log>> /\ rx'[n] \notin Holding
        /\ \A m \in Node \ {n} : acked'[m] = acked[m] /\ rx'[m] = rx[m]
    BY <1>7 DEF SkipOwn, Ack, Advance, chainVars, TypeOK
  <2> QED BY <2>1, GrownRefl DEF OpensNothing
<1>8. ASSUME NEW n \in Node,
             \/ Truncate(n) \/ ApplyWrite(n) \/ ApplyRemove(n) \/ MarkRemoved(n)
             \/ MarkRenamed(n) \/ AckLost(n) \/ ApplyRename(n) \/ ApplyFails(n)
      PROVE  OpensNothing
  <2>1. UNCHANGED <<enc, recvSeq, audit, log, acked>>
    BY <1>8 DEF Truncate, ApplyWrite, ApplyRemove, MarkRemoved, MarkRenamed, AckLost,
       ApplyRename, ApplyFails, chainVars, streamVars
  <2>2. CASE EndSession(n, "rx")
    BY <1>4, <2>1, <2>2, GrownRefl DEF OpensNothing
  <2>3. CASE ~EndSession(n, "rx")
    <3>1. \E step \in RxState : Advance(n, step) /\ (step \in Holding => rx[n] \in Holding)
      BY <1>8, <2>3 DEF Truncate, ApplyWrite, ApplyRemove, MarkRemoved, MarkRenamed, AckLost,
         ApplyRename, ApplyFails, RxState
    <3>2. \A m \in Node : rx'[m] \in Holding => rx[m] \in Holding
      BY <3>1 DEF Advance, TypeOK
    <3> QED BY <2>1, <3>2, GrownRefl DEF OpensNothing
  <2> QED BY <2>2, <2>3
<1>9. ASSUME NEW n \in Node, Fetch(n)
      PROVE  OpensNothing \/ OpenedBy(n)
  <2>1. /\ UNCHANGED <<enc, log, acked, audit>> /\ rx[n] = "fetch"
        /\ acked[n] + 1 \in 1..Len(log) /\ log[acked[n] + 1].origin # n
    BY <1>9 DEF Fetch, Incoming, streamVars, TypeOK
  <2>2. CASE EndSession(n, "rx") /\ recvSeq' = recvSeq
    BY <1>4, <2>1, <2>2, GrownRefl DEF OpensNothing
  <2>3. CASE log[acked[n] + 1].op # "write" /\ Advance(n, log[acked[n] + 1].op)
             /\ recvSeq' = recvSeq
    <3>1. log[acked[n] + 1].op \in {"remove", "rename"}
      BY <2>1, <2>3, StreamFields, EventFields
    <3>2. \A m \in Node : rx'[m] \in Holding => rx'[m] = rx[m]
      BY <2>3, <3>1 DEF Advance, TypeOK
    <3> QED BY <2>1, <2>3, <3>2, GrownRefl DEF OpensNothing
  <2>4. CASE /\ log[acked[n] + 1].op = "write" /\ Opens(n, log[acked[n] + 1])
             /\ Advance(n, "reconcile")
             /\ recvSeq' = IF enc THEN [recvSeq EXCEPT ![n] = @ + 1] ELSE recvSeq
    <3>1. rx'[n] = "reconcile" /\ \A m \in Node \ {n} : rx'[m] = rx[m]
      BY <2>4 DEF Advance, TypeOK
    <3>2. (\A m \in Node \ {n} : recvSeq'[m] = recvSeq[m])
          /\ (enc => recvSeq'[n] = recvSeq[n] + 1)
      BY <2>4 DEF TypeOK
    <3> QED BY <2>1, <2>4, <3>1, <3>2 DEF OpenedBy, Opens
  <2> QED BY <1>9, <2>2, <2>3, <2>4 DEF Fetch, Incoming
<1>10. ASSUME NEW n \in Node, Reconcile(n)
       PROVE  OpensNothing \/ RecordedBy(n)
  <2>1. UNCHANGED <<enc, recvSeq, log, acked>> /\ rx[n] = "reconcile"
    BY <1>10 DEF Reconcile, chainVars, streamVars
  <2>2. CASE audit' = audit /\ \E step : Advance(n, step)
    <3>1. \A m \in Node : m # n => rx'[m] = rx[m]
      BY <2>2 DEF Advance, TypeOK
    <3> QED BY <2>1, <2>2, <3>1, GrownRefl DEF OpensNothing
  <2>3. CASE Advance(n, "ack") /\ Recorded(n, "stale")
    <3>1. rx'[n] = "ack" /\ \A m \in Node \ {n} : rx'[m] = rx[m]
      BY <2>3 DEF Advance, TypeOK
    <3> QED BY <2>1, <2>3, <3>1 DEF RecordedBy, Outcome
  <2> QED BY <1>10, <2>2, <2>3 DEF Reconcile
<1>11. ASSUME NEW n \in Node, ApplyConflict(n) \/ MarkApplied(n)
       PROVE  RecordedBy(n)
  <2>1. UNCHANGED <<enc, recvSeq, log, acked>> /\ rx[n] \in Holding
        /\ rx'[n] = "ack" /\ \A m \in Node \ {n} : rx'[m] = rx[m]
    BY <1>11 DEF ApplyConflict, MarkApplied, Advance, TypeOK, chainVars, streamVars
  <2> QED BY <1>11, <2>1 DEF ApplyConflict, MarkApplied, RecordedBy, Outcome
<1>12. CASE UNCHANGED vars
  BY <1>1, <1>12 DEF vars, chainVars, streamVars
<1>13. CASE Next
  <2>1. PICK n \in Node : \/ UserStep(n) \/ PublisherStep(n) \/ ReceiverStep(n)
                          \/ PublishFails(n) \/ ReceiverFails(n) \/ ApplyFails(n)
                          \/ AckLost(n)
    BY <1>13 DEF Next
  <2> QED
    BY <2>1, <1>2, <1>3, <1>5, <1>6, <1>7, <1>8, <1>9, <1>10, <1>11
    DEF PublisherStep, ReceiverStep
<1> QED BY <1>12, <1>13

LEMMA HeldSeal ==
    ASSUME TypeOK, NEW n \in Node, rx[n] \in Holding
    PROVE  /\ acked[n] + 1 \in 1..Len(log) /\ log[acked[n] + 1].op = "write"
           /\ log[acked[n] + 1].seq \in Nat
<1>1. acked[n] + 1 \in 1..Len(log) /\ rx[n] \in StepsFor(log[acked[n] + 1].op)
  <2>1. rx[n] \notin {"fetch", "returned"} /\ acked[n] \in Nat /\ Len(log) \in Nat
    BY HoldingIs DEF TypeOK
  <2>2. InHand(n)
    BY <2>1 DEF TypeOK
  <2> QED BY <2>1, <2>2 DEF InHand
<1>2. log[acked[n] + 1].op = "write"
  BY <1>1, HoldingIs DEF StepsFor
<1> QED BY <1>1, <1>2, StreamFields, EventFields, WriteFields

LEMMA OpensNothingStep ==
    ASSUME TypeOK, OpensNothing, NEW n \in Node, OpenedAt(n)
    PROVE  OpenedAt(n)'
<1>1. /\ audit' = audit /\ recvSeq' = recvSeq /\ Len(log) \in Nat /\ Len(log') >= Len(log)
      /\ \A i \in 1..Len(log) : log'[i] = log[i]
      /\ rx'[n] \in Holding => rx[n] \in Holding /\ acked'[n] = acked[n]
  <2>1. Len(log) \in Nat
    BY DEF TypeOK
  <2> QED BY <2>1 DEF OpensNothing, Grown
<1>2. \A k \in 1..Len(audit[n]) :
         /\ audit[n][k].id \in 1..Len(log) /\ log'[audit[n][k].id] = log[audit[n][k].id]
         /\ SealOf(n, k)' = SealOf(n, k)
  BY <1>1 DEF OpenedAt, SealOf
<1>3. 1..Len(log) \subseteq 1..Len(log')
  BY <1>1 DEF OpensNothing, Grown
<1>4. rx'[n] \in Holding => log'[acked'[n] + 1] = log[acked[n] + 1]
  BY <1>1, HeldSeal
<1>5. \A j \in 1..Len(audit[n]) : \A i \in 1..(j - 1) : SealOf(n, i)' < SealOf(n, j)'
  <2> SUFFICES ASSUME NEW j \in 1..Len(audit[n]), NEW i \in 1..(j - 1)
               PROVE  SealOf(n, i)' < SealOf(n, j)'
    OBVIOUS
  <2>1. i \in 1..Len(audit[n])
    BY DEF TypeOK
  <2> QED BY <1>2, <2>1 DEF OpenedAt
<1> QED BY <1>1, <1>2, <1>3, <1>4, <1>5 DEF OpenedAt

LEMMA OpenedByStep ==
    ASSUME TypeOK, enc, NEW m \in Node, OpenedBy(m), NEW n \in Node, OpenedAt(n)
    PROVE  OpenedAt(n)'
<1>1. UNCHANGED <<log, acked, audit>> /\ \A k : SealOf(n, k)' = SealOf(n, k)
  BY DEF OpenedBy, SealOf
<1>2. CASE n # m
  BY <1>1, <1>2 DEF OpenedBy, OpenedAt
<1>3. CASE n = m
  <2>1. /\ log[acked[n] + 1].seq = recvSeq[n] /\ recvSeq'[n] = recvSeq[n] + 1
        /\ recvSeq[n] \in Nat
    BY <1>3 DEF OpenedBy, TypeOK
  <2>2. \A k \in 1..Len(audit[n]) :
           /\ audit[n][k].id \in 1..Len(log) /\ log[audit[n][k].id].op = "write"
           /\ SealOf(n, k) \in Nat /\ SealOf(n, k) < recvSeq[n]
    BY StreamFields, EventFields, WriteFields DEF OpenedAt, SealOf
  <2>3. \A k \in 1..Len(audit[n]) : SealOf(n, k) < recvSeq'[n]
    BY <2>1, <2>2
  <2>4. /\ log[acked[n] + 1].seq < recvSeq'[n]
        /\ \A k \in 1..Len(audit[n]) : SealOf(n, k) < log[acked[n] + 1].seq
    BY <2>1, <2>2
  <2> QED BY <1>1, <2>2, <2>3, <2>4 DEF OpenedAt
<1> QED BY <1>2, <1>3

LEMMA RecordedByStep ==
    ASSUME TypeOK, NEW m \in Node, RecordedBy(m), NEW n \in Node, OpenedAt(n)
    PROVE  OpenedAt(n)'
<1>1. UNCHANGED <<log, acked, recvSeq>> /\ rx[m] \in Holding /\ rx'[m] \notin Holding
      /\ \A k \in Node \ {m} : rx'[k] = rx[k]
  BY HoldingIs DEF RecordedBy
<1>2. PICK outcome : Recorded(m, outcome)
  BY DEF RecordedBy
<1>3. CASE n # m
  <2>1. audit'[n] = audit[n] /\ rx'[n] = rx[n]
    BY <1>1, <1>2, <1>3, AuditAppended
  <2>2. \A k : SealOf(n, k)' = SealOf(n, k)
    BY <1>1, <2>1 DEF SealOf
  <2> QED BY <1>1, <2>1, <2>2 DEF OpenedAt
<1>4. CASE n = m
  <2> PICK last : last = Len(audit[n]) + 1
    OBVIOUS
  <2> PICK id : id = acked[n] + 1
    OBVIOUS
  <2>1. /\ Len(audit'[n]) = last /\ Len(audit[n]) \in Nat
        /\ \A k \in 1..Len(audit[n]) : audit'[n][k] = audit[n][k]
        /\ audit'[n][last].id = id
    <3>1. Recorded(n, outcome)
      BY <1>2, <1>4
    <3>2. /\ Len(audit'[n]) = Len(audit[n]) + 1 /\ Len(audit[n]) \in Nat
          /\ \A k \in 1..Len(audit[n]) : audit'[n][k] = audit[n][k]
          /\ audit'[n][Len(audit[n]) + 1] = [id |-> acked[n] + 1, outcome |-> outcome]
      BY <3>1, AuditAppended
    <3> QED BY <3>2
  <2>2. /\ 1..Len(audit'[n]) = 1..Len(audit[n]) \cup {last}
        /\ 1..(last - 1) = 1..Len(audit[n])
        /\ \A j \in 1..Len(audit[n]) : 1..(j - 1) \subseteq 1..Len(audit[n])
    BY <2>1
  <2>3. /\ \A k \in 1..Len(audit[n]) : SealOf(n, k)' = SealOf(n, k)
        /\ SealOf(n, last)' = log[id].seq
    BY <1>1, <2>1 DEF SealOf
  <2>4. id \in 1..Len(log) /\ log[id].op = "write"
    BY <1>1, <1>4, HeldSeal
  <2>5. log[id].seq < recvSeq[n] /\ \A k \in 1..Len(audit[n]) : SealOf(n, k) < log[id].seq
    BY <1>1, <1>4 DEF OpenedAt
  <2>6. ASSUME NEW k \in 1..Len(audit'[n])
        PROVE  /\ audit'[n][k].id \in 1..Len(log) /\ log[audit'[n][k].id].op = "write"
               /\ SealOf(n, k)' < recvSeq[n]
    <3>1. CASE k = last
      BY <2>1, <2>3, <2>4, <2>5, <3>1
    <3>2. CASE k \in 1..Len(audit[n])
      BY <2>1, <2>3, <3>2 DEF OpenedAt
    <3> QED BY <2>2, <3>1, <3>2
  <2>7. ASSUME NEW j \in 1..Len(audit'[n]), NEW i \in 1..(j - 1)
        PROVE  SealOf(n, i)' < SealOf(n, j)'
    <3>1. CASE j = last
      <4>1. i \in 1..Len(audit[n])
        BY <2>2, <3>1
      <4>2. SealOf(n, i)' = SealOf(n, i) /\ SealOf(n, i) < log[id].seq
        BY <2>3, <2>5, <4>1
      <4>3. SealOf(n, j)' = log[id].seq
        BY <2>3, <3>1
      <4> QED BY <4>2, <4>3
    <3>2. CASE j \in 1..Len(audit[n])
      BY <2>2, <2>3, <3>2 DEF OpenedAt
    <3> QED BY <2>2, <3>1, <3>2
  <2> QED BY <1>1, <1>4, <2>6, <2>7 DEF OpenedAt
<1> QED BY <1>3, <1>4

LEMMA OpenedInit == Init => OpenedInv
<1> SUFFICES ASSUME Init, NEW n \in Node PROVE OpenedAt(n)
  BY InitType DEF OpenedInv
<1>1. Len(audit[n]) = 0 /\ rx[n] = "fetch"
  BY DEF Init
<1> QED BY <1>1, HoldingIs DEF OpenedAt

LEMMA OpenedStep == OpenedInv /\ [Next]_vars => OpenedInv'
<1> SUFFICES ASSUME OpenedInv, [Next]_vars PROVE OpenedInv'
  OBVIOUS
<1>1. TypeOK /\ TypeOK' /\ (enc => \A n \in Node : OpenedAt(n))
  BY TypeStep DEF OpenedInv
<1>2. CASE OpensNothing
  BY <1>1, <1>2, OpensNothingStep DEF OpenedInv, OpensNothing
<1>3. ASSUME NEW m \in Node, OpenedBy(m) PROVE OpenedInv'
  BY <1>1, <1>3, OpenedByStep DEF OpenedInv, OpenedBy
<1>4. ASSUME NEW m \in Node, RecordedBy(m) PROVE OpenedInv'
  BY <1>1, <1>4, RecordedByStep DEF OpenedInv, RecordedBy
<1> QED BY <1>1, <1>2, <1>3, <1>4, OpenKinds

\* In an encrypted session a node decides writes in the order they were sealed,
\* each one at most once (RecvChain.Decrypt in ReceiveChanges): no redelivery is
\* ever applied, or judged, a second time.
THEOREM OpenedInSealedOrder == Spec => []OpenedOnceInOrder
<1>1. OpenedInv => OpenedOnceInOrder
  BY DEF OpenedInv, OpenedAt, SealOf, OpenedOnceInOrder
<1> QED BY <1>1, OpenedInit, OpenedStep, PTL DEF Spec

-----------------------------------------------------------------------------
(* Why a session of two nodes ends: the chains stay in step. *)

\* Nothing failed, and no acknowledgement was lost that a sealed write depends on.
Undisturbed == failures = 0 /\ (lostAcks = 0 \/ ~enc)

\* Stream sequence i is a write of p.
SealedBy(p, i) == i \in 1..Len(log) /\ log[i].op = "write" /\ log[i].origin = p

PublishesWrite(p) == pub[p].at = "publish" /\ pub[p].event.op = "write"

\* The sequence number of the next write of p that reaches the stream.
NextSeal(p) == IF PublishesWrite(p) THEN pub[p].event.seq ELSE sendSeq[p]

\* What n's receiver has behind it: acknowledged, or in hand.
Position(n) == IF rx[n] \in {"fetch", "returned"} THEN acked[n] ELSE acked[n] + 1

\* p's writes reach the stream in the order p sealed them.
SealedInOrder ==
    \A p \in Node :
        /\ PublishesWrite(p) => sendSeq[p] = pub[p].event.seq + 1
        /\ \A j \in 1..Len(log) : SealedBy(p, j) =>
              /\ log[j].seq < NextSeal(p)
              /\ \A i \in 1..(j - 1) : SealedBy(p, i) => log[i].seq < log[j].seq

\* What n's receiver has before it are the writes its receiving chain has still
\* to open, every one of them.
NothingIsMissing ==
    \A n, p \in Node : n # p =>
        /\ recvSeq[n] <= NextSeal(p)
        /\ \A i \in 1..Len(log) :
              SealedBy(p, i) /\ i > Position(n) => recvSeq[n] <= log[i].seq
        /\ \A k \in recvSeq[n]..(NextSeal(p) - 1) :
              \E i \in 1..Len(log) : SealedBy(p, i) /\ i > Position(n) /\ log[i].seq = k

\* Without a watcher that correlates renames none is ever published.
NothingIsRenamed ==
    /\ \A i \in 1..Len(log) : log[i].op # "rename"
    /\ \A n \in Node :
          /\ pub[n].at = "publish" => pub[n].event.op # "rename"
          /\ pub[n].at = "took" => pub[n].change.kind # "renamed"
          /\ \A change \in pending[n] : change.kind # "renamed"

ChainInv ==
    /\ TypeOK /\ PublishesAsItself /\ NothingIsRenamed
    /\ Undisturbed => \A n \in Node : session[n] = "running"
    /\ Undisturbed /\ enc => SealedInOrder /\ NothingIsMissing

LEMMA SealFields ==
    ASSUME TypeOK, NEW p \in Node
    PROVE  /\ NextSeal(p) \in Nat /\ sendSeq[p] \in Nat /\ recvSeq[p] \in Nat
           /\ \A i : SealedBy(p, i) => i \in Nat /\ log[i].seq \in Nat
           /\ Position(p) \in Nat /\ Position(p) <= Len(log) /\ Len(log) \in Nat
<1>1. PublishesWrite(p) => pub[p].event.seq \in Nat
  <2> SUFFICES ASSUME PublishesWrite(p) PROVE pub[p].event.seq \in Nat
    OBVIOUS
  <2>1. pub[p].event \in Event /\ pub[p].event.op = "write"
    BY PubFields DEF PublishesWrite, TypeOK
  <2> QED BY <2>1, EventFields, WriteFields
<1>2. \A i : SealedBy(p, i) => i \in Nat /\ log[i].seq \in Nat
  BY StreamFields, EventFields, WriteFields DEF SealedBy
<1>3. /\ sendSeq[p] \in Nat /\ recvSeq[p] \in Nat /\ acked[p] \in Nat /\ Len(log) \in Nat
      /\ acked[p] <= Len(log)
      /\ rx[p] \notin {"fetch", "returned"} => acked[p] < Len(log)
  BY DEF TypeOK, InHand
<1>4. NextSeal(p) \in Nat
  BY <1>1, <1>3 DEF NextSeal
<1>5. Position(p) \in Nat /\ Position(p) <= Len(log)
  BY <1>3 DEF Position
<1> QED BY <1>2, <1>3, <1>4, <1>5

\* The next write before n's receiver is the next one its receiving chain opens.
LEMMA NextOpens ==
    ASSUME TypeOK, SealedInOrder, NothingIsMissing, NEW n \in Node,
           rx[n] = "fetch", acked[n] < Len(log),
           log[acked[n] + 1].op = "write", log[acked[n] + 1].origin # n
    PROVE  log[acked[n] + 1].seq = recvSeq[n]
<1> PICK i : i = acked[n] + 1
  OBVIOUS
<1> PICK p : p = log[i].origin
  OBVIOUS
<1>1. i \in 1..Len(log) /\ acked[n] \in Nat
  BY DEF TypeOK
<1>2. p \in Node /\ p # n /\ SealedBy(p, i)
  BY <1>1, StreamFields DEF SealedBy
<1>3. Position(n) = acked[n]
  BY DEF Position
<1>4. log[i].seq \in Nat /\ recvSeq[n] \in Nat /\ NextSeal(p) \in Nat
  BY <1>2, SealFields
<1>5. recvSeq[n] <= log[i].seq
  BY <1>1, <1>2, <1>3 DEF NothingIsMissing
<1>6. ASSUME recvSeq[n] < log[i].seq PROVE FALSE
  <2>1. log[i].seq < NextSeal(p)
    BY <1>1, <1>2 DEF SealedInOrder
  <2>2. recvSeq[n] \in recvSeq[n]..(NextSeal(p) - 1)
    BY <1>4, <1>6, <2>1
  <2>3. PICK j \in 1..Len(log) : SealedBy(p, j) /\ j > Position(n) /\ log[j].seq = recvSeq[n]
    BY <1>2, <2>2 DEF NothingIsMissing
  <2>4. i \in 1..(j - 1)
    <3>1. j # i /\ j > acked[n] /\ j \in Nat
      BY <1>3, <1>4, <1>6, <2>3
    <3> QED BY <1>1, <3>1
  <2>5. log[i].seq < log[j].seq
    BY <1>2, <2>3, <2>4 DEF SealedInOrder
  <2> QED BY <1>4, <1>6, <2>3, <2>5
<1> QED BY <1>4, <1>5, <1>6

\* Nothing is sealed into the stream or opened; a receiver may move past an event
\* that is no write of its peer.
SealQuiet ==
    /\ UNCHANGED <<log, recvSeq>>
    /\ \A p \in Node : /\ NextSeal(p)' = NextSeal(p)
                       /\ PublishesWrite(p)' => sendSeq'[p] = pub'[p].event.seq + 1
    /\ \A n \in Node :
          \/ Position(n)' = Position(n)
          \/ /\ Position(n)' = Position(n) + 1
             /\ \A p \in Node \ {n} : ~SealedBy(p, Position(n) + 1)

\* n's publisher stores the event it has sealed.
SealStored(n) ==
    /\ pub[n].at = "publish"
    /\ log' = Append(log, pub[n].event)
    /\ UNCHANGED <<acked, rx, recvSeq, sendSeq>>
    /\ pub' = [pub EXCEPT ![n] = Idle]

LEMMA SealQuietStep ==
    ASSUME TypeOK, SealedInOrder, NothingIsMissing, SealQuiet
    PROVE  SealedInOrder' /\ NothingIsMissing'
<1>1. /\ UNCHANGED <<log, recvSeq>>
      /\ \A p \in Node : NextSeal(p)' = NextSeal(p)
      /\ \A p, i : SealedBy(p, i)' <=> SealedBy(p, i)
  BY DEF SealQuiet, SealedBy
<1>2. SealedInOrder'
  BY <1>1 DEF SealQuiet, SealedInOrder
<1>3. ASSUME NEW n \in Node, NEW p \in Node, n # p, NEW i \in 1..Len(log), SealedBy(p, i)
      PROVE  i > Position(n)' <=> i > Position(n)
  <2>1. Position(n) \in Nat
    BY SealFields
  <2>2. CASE Position(n)' = Position(n)
    BY <2>2
  <2>3. CASE Position(n)' = Position(n) + 1 /\ ~SealedBy(p, Position(n) + 1)
    <3>1. i # Position(n) + 1
      BY <1>3, <2>3
    <3> QED BY <2>1, <2>3, <3>1
  <2> QED BY <1>3, <2>2, <2>3 DEF SealQuiet
<1>4. ASSUME NEW n \in Node, NEW p \in Node, n # p
      PROVE  /\ recvSeq[n] <= NextSeal(p)
             /\ \A i \in 1..Len(log) :
                   SealedBy(p, i) /\ i > Position(n)' => recvSeq[n] <= log[i].seq
             /\ \A k \in recvSeq[n]..(NextSeal(p) - 1) :
                   \E i \in 1..Len(log) : SealedBy(p, i) /\ i > Position(n)' /\ log[i].seq = k
  BY <1>3, <1>4 DEF NothingIsMissing
<1> QED BY <1>1, <1>2, <1>4 DEF NothingIsMissing

LEMMA SealStoredStep ==
    ASSUME TypeOK, PublishesAsItself, SealedInOrder, NothingIsMissing,
           NEW q \in Node, SealStored(q)
    PROVE  SealedInOrder' /\ NothingIsMissing'
<1> PICK last : last = Len(log) + 1
  OBVIOUS
<1>1. /\ 1..Len(log') = 1..Len(log) \cup {last} /\ Len(log) \in Nat
      /\ \A i \in 1..Len(log) : log'[i] = log[i]
      /\ log'[last] = pub[q].event
  BY StreamGrows DEF SealStored, Grown, TypeOK
<1>2. /\ UNCHANGED <<acked, rx, recvSeq, sendSeq>> /\ ~PublishesWrite(q)'
      /\ \A p \in Node \ {q} : (PublishesWrite(p)' <=> PublishesWrite(p)) /\ pub'[p] = pub[p]
      /\ \A p \in Node : Position(p)' = Position(p)
  BY DEF SealStored, PublishesWrite, Position, Idle, TypeOK
<1>3. pub[q].event.origin = q /\ pub[q].at = "publish"
  BY DEF PublishesAsItself, SealStored
<1>4. /\ \A p \in Node, i \in 1..Len(log) : SealedBy(p, i)' <=> SealedBy(p, i)
      /\ \A p \in Node : SealedBy(p, last)' <=> p = q /\ PublishesWrite(q)
  BY <1>1, <1>3 DEF SealedBy, PublishesWrite
<1>5. /\ \A p \in Node \ {q} : NextSeal(p)' = NextSeal(p)
      /\ NextSeal(q)' = sendSeq[q]
      /\ ~PublishesWrite(q) => NextSeal(q) = sendSeq[q]
      /\ PublishesWrite(q) => /\ NextSeal(q) = log'[last].seq
                              /\ sendSeq[q] = NextSeal(q) + 1
  BY <1>1, <1>2 DEF NextSeal, SealedInOrder
<1>6. \A p \in Node : NextSeal(p) \in Nat /\ NextSeal(p)' \in Nat /\ NextSeal(p) <= NextSeal(p)'
  BY <1>5, SealFields
<1>7. \A p \in Node, i \in 1..Len(log) :
         SealedBy(p, i)' => /\ log'[i].seq = log[i].seq /\ log[i].seq \in Nat
                            /\ log[i].seq < NextSeal(p) /\ log[i].seq < NextSeal(p)'
  <2> SUFFICES ASSUME NEW p \in Node, NEW i \in 1..Len(log), SealedBy(p, i)
               PROVE  /\ log'[i].seq = log[i].seq /\ log[i].seq \in Nat
                      /\ log[i].seq < NextSeal(p) /\ log[i].seq < NextSeal(p)'
    BY <1>4
  <2>1. log'[i].seq = log[i].seq /\ log[i].seq \in Nat /\ log[i].seq < NextSeal(p)
    BY <1>1, SealFields DEF SealedInOrder
  <2> QED BY <1>6, <2>1
<1>8. SealedInOrder'
  <2>1. ASSUME NEW p \in Node, NEW j \in 1..Len(log'), SealedBy(p, j)',
               NEW i \in 1..(j - 1), SealedBy(p, i)'
        PROVE  log'[i].seq < log'[j].seq
    <3>1. i \in 1..Len(log)
      BY <1>1
    <3>2. CASE j = last
      BY <1>4, <1>5, <1>7, <2>1, <3>1, <3>2
    <3>3. CASE j \in 1..Len(log)
      <4>1. SealedBy(p, i) /\ SealedBy(p, j)
        BY <1>4, <2>1, <3>1, <3>3
      <4>2. log[i].seq < log[j].seq
        BY <3>3, <4>1 DEF SealedInOrder
      <4> QED BY <1>1, <3>1, <3>3, <4>2
    <3> QED BY <1>1, <3>2, <3>3
  <2>2. ASSUME NEW p \in Node, NEW j \in 1..Len(log'), SealedBy(p, j)'
        PROVE  log'[j].seq < NextSeal(p)'
    <3>1. CASE j = last
      BY <1>4, <1>5, <1>6, <2>2, <3>1
    <3> QED BY <1>1, <1>7, <2>2, <3>1
  <2>3. \A p \in Node : PublishesWrite(p)' => sendSeq'[p] = pub'[p].event.seq + 1
    BY <1>2 DEF SealedInOrder
  <2> QED BY <2>1, <2>2, <2>3 DEF SealedInOrder
<1>9. ASSUME NEW n \in Node, NEW p \in Node, n # p
      PROVE  /\ recvSeq[n] <= NextSeal(p)'
             /\ \A i \in 1..Len(log') :
                   SealedBy(p, i)' /\ i > Position(n) => recvSeq[n] <= log'[i].seq
             /\ \A k \in recvSeq[n]..(NextSeal(p)' - 1) :
                   \E i \in 1..Len(log') :
                      SealedBy(p, i)' /\ i > Position(n) /\ log'[i].seq = k
  <2>1. recvSeq[n] \in Nat /\ Position(n) \in Nat /\ Position(n) <= Len(log)
    BY SealFields
  <2>2. recvSeq[n] <= NextSeal(p)
    BY <1>9 DEF NothingIsMissing
  <2>3. recvSeq[n] <= NextSeal(p)'
    BY <1>6, <2>1, <2>2
  <2>4. ASSUME NEW i \in 1..Len(log'), SealedBy(p, i)', i > Position(n)
        PROVE  recvSeq[n] <= log'[i].seq
    <3>1. CASE i = last
      BY <1>4, <1>5, <2>2, <2>4, <3>1
    <3>2. CASE i \in 1..Len(log)
      BY <1>4, <1>7, <1>9, <2>4, <3>2 DEF NothingIsMissing
    <3> QED BY <1>1, <3>1, <3>2
  <2>5. ASSUME NEW k \in recvSeq[n]..(NextSeal(p)' - 1)
        PROVE  \E i \in 1..Len(log') : SealedBy(p, i)' /\ i > Position(n) /\ log'[i].seq = k
    <3>1. CASE k < NextSeal(p)
      <4>1. k \in recvSeq[n]..(NextSeal(p) - 1)
        BY <1>6, <2>1, <3>1
      <4>2. PICK i \in 1..Len(log) : SealedBy(p, i) /\ i > Position(n) /\ log[i].seq = k
        BY <1>9, <4>1 DEF NothingIsMissing
      <4>3. i \in 1..Len(log') /\ SealedBy(p, i)' /\ log'[i].seq = k
        BY <1>1, <1>4, <4>2
      <4> QED BY <4>2, <4>3
    <3>2. CASE k >= NextSeal(p)
      <4>1. k < NextSeal(p)' /\ k \in Nat
        BY <1>6, <2>1, <2>5
      <4>2. p = q /\ PublishesWrite(q) /\ k = NextSeal(q)
        BY <1>5, <1>6, <3>2, <4>1
      <4>3. last \in 1..Len(log') /\ SealedBy(p, last)' /\ log'[last].seq = k /\ last > Position(n)
        BY <1>1, <1>4, <1>5, <2>1, <4>2
      <4> QED BY <4>3
    <3> QED BY <1>6, <2>1, <3>1, <3>2
  <2> QED BY <2>3, <2>4, <2>5
<1>10. NothingIsMissing'
  BY <1>2, <1>9 DEF NothingIsMissing
<1> QED BY <1>8, <1>10

\* The next write is opened: with two nodes it is the peer's.
LEMMA SealOpenedStep ==
    ASSUME TwoNodes, TypeOK, enc, SealedInOrder, NothingIsMissing,
           NEW n \in Node, OpenedBy(n), UNCHANGED <<pub, sendSeq>>
    PROVE  SealedInOrder' /\ NothingIsMissing'
<1> PICK held : held = acked[n] + 1
  OBVIOUS
<1> PICK p : p = log[held].origin
  OBVIOUS
<1>1. /\ UNCHANGED <<log, pub, sendSeq>>
      /\ held \in 1..Len(log) /\ log[held].op = "write" /\ p # n
      /\ log[held].seq = recvSeq[n] /\ recvSeq'[n] = recvSeq[n] + 1
      /\ \A m \in Node \ {n} : recvSeq'[m] = recvSeq[m]
  BY DEF OpenedBy
<1>2. p \in Node /\ SealedBy(p, held)
  BY <1>1, StreamFields DEF SealedBy
<1>3. /\ \A m \in Node : NextSeal(m)' = NextSeal(m)
      /\ \A m, i : SealedBy(m, i)' <=> SealedBy(m, i)
      /\ \A m \in Node : PublishesWrite(m)' <=> PublishesWrite(m)
  BY <1>1 DEF NextSeal, SealedBy, PublishesWrite
<1>4. /\ \A m \in Node \ {n} : Position(m)' = Position(m)
      /\ Position(n) = acked[n] /\ Position(n)' = held /\ acked[n] \in Nat
  BY DEF OpenedBy, Position, TypeOK
<1>5. SealedInOrder'
  BY <1>1, <1>3 DEF SealedInOrder
<1>6. ASSUME NEW m \in Node, m # n, NEW q \in Node, m # q
      PROVE  /\ recvSeq'[m] <= NextSeal(q)
             /\ \A i \in 1..Len(log) :
                   SealedBy(q, i) /\ i > Position(m)' => recvSeq'[m] <= log[i].seq
             /\ \A k \in recvSeq'[m]..(NextSeal(q) - 1) :
                   \E i \in 1..Len(log) : SealedBy(q, i) /\ i > Position(m)' /\ log[i].seq = k
  BY <1>1, <1>4, <1>6 DEF NothingIsMissing
<1>7. /\ recvSeq'[n] <= NextSeal(p)
      /\ \A i \in 1..Len(log) :
            SealedBy(p, i) /\ i > Position(n)' => recvSeq'[n] <= log[i].seq
      /\ \A k \in recvSeq'[n]..(NextSeal(p) - 1) :
            \E i \in 1..Len(log) : SealedBy(p, i) /\ i > Position(n)' /\ log[i].seq = k
  <2>1. recvSeq[n] \in Nat /\ NextSeal(p) \in Nat
    BY <1>2, SealFields
  <2>2. recvSeq[n] < NextSeal(p)
    BY <1>1, <1>2 DEF SealedInOrder
  <2>3. ASSUME NEW i \in 1..Len(log), SealedBy(p, i), i > held
        PROVE  recvSeq'[n] <= log[i].seq
    <3>1. held \in 1..(i - 1)
      BY <1>1, <2>3
    <3>2. log[held].seq < log[i].seq
      BY <1>2, <2>3, <3>1 DEF SealedInOrder
    <3>3. log[i].seq \in Nat
      BY <1>2, <2>3, SealFields
    <3> QED BY <1>1, <2>1, <3>2, <3>3
  <2>4. ASSUME NEW k \in recvSeq'[n]..(NextSeal(p) - 1)
        PROVE  \E i \in 1..Len(log) : SealedBy(p, i) /\ i > held /\ log[i].seq = k
    <3>1. k \in recvSeq[n]..(NextSeal(p) - 1) /\ k # recvSeq[n]
      BY <1>1, <2>1
    <3>2. PICK i \in 1..Len(log) : SealedBy(p, i) /\ i > Position(n) /\ log[i].seq = k
      BY <1>1, <1>2, <3>1 DEF NothingIsMissing
    <3>3. i > held
      <4>1. i # held /\ i > acked[n]
        BY <1>1, <1>4, <3>1, <3>2
      <4> QED BY <1>4, <4>1
    <3> QED BY <3>2, <3>3
  <2>5. recvSeq'[n] <= NextSeal(p)
    BY <1>1, <2>1, <2>2
  <2> QED BY <1>4, <2>3, <2>4, <2>5
<1>8. \A q \in Node : n # q => q = p
  BY <1>1, <1>2 DEF TwoNodes
<1>9. NothingIsMissing'
  <2> SUFFICES ASSUME NEW m \in Node, NEW q \in Node, m # q
               PROVE  /\ recvSeq'[m] <= NextSeal(q)
                      /\ \A i \in 1..Len(log) :
                            SealedBy(q, i) /\ i > Position(m)' => recvSeq'[m] <= log[i].seq
                      /\ \A k \in recvSeq'[m]..(NextSeal(q) - 1) :
                            \E i \in 1..Len(log) :
                               SealedBy(q, i) /\ i > Position(m)' /\ log[i].seq = k
    BY <1>1, <1>3 DEF NothingIsMissing
  <2>1. CASE m # n
    BY <1>6, <2>1
  <2>2. CASE m = n
    <3>1. q = p
      BY <1>8, <2>2
    <3> QED BY <1>7, <2>2, <3>1
  <2> QED BY <2>1, <2>2
<1> QED BY <1>5, <1>9

LEMMA BudgetsGrow ==
    ASSUME TypeOK, [Next]_vars
    PROVE  /\ enc' = enc /\ failures <= failures' /\ lostAcks <= lostAcks'
           /\ failures \in Nat /\ lostAcks \in Nat /\ failures' \in Nat /\ lostAcks' \in Nat
<1>1. TypeOK'
  BY TypeStep
<1>2. enc' = enc /\ failures' \in {failures, failures + 1} /\ lostAcks' \in {lostAcks, lostAcks + 1}
  <2>1. CASE UNCHANGED vars
    BY <2>1 DEF vars, chainVars, budgets
  <2>2. ASSUME NEW n \in Node, UserStep(n) \/ PublisherStep(n)
        PROVE  enc' = enc /\ failures' = failures /\ lostAcks' = lostAcks
    BY <2>2 DEF UserStep, UserWrite, UserRemove, UserRename, Acts, PublisherStep, Fire,
       ReadFile, IsEcho, Bump, IsEchoRemove, IsEchoRename, Publish, chainVars, budgets
  <2>3. ASSUME NEW n \in Node, ReceiverStep(n)
        PROVE  enc' = enc /\ failures' = failures /\ lostAcks' = lostAcks
    BY <2>3 DEF ReceiverStep, SkipOwn, Fetch, Reconcile, ApplyConflict, Truncate, ApplyWrite,
       MarkApplied, ApplyRemove, MarkRemoved, ApplyRename, MarkRenamed, Ack, chainVars, budgets
  <2>4. ASSUME NEW n \in Node,
               PublishFails(n) \/ ReceiverFails(n) \/ ApplyFails(n) \/ AckLost(n)
        PROVE  /\ enc' = enc /\ failures' \in {failures, failures + 1}
               /\ lostAcks' \in {lostAcks, lostAcks + 1}
    BY <2>4 DEF PublishFails, ReceiverFails, ApplyFails, AckLost, chainVars
  <2> QED BY <2>1, <2>2, <2>3, <2>4 DEF Next
<1> QED BY <1>1, <1>2 DEF TypeOK

\* With no correlating watcher a node observes, takes and publishes no rename.
LEMMA NoRenameStep ==
    ASSUME TypeOK, Renamer = {}, NothingIsRenamed, [Next]_vars
    PROVE  NothingIsRenamed'
<1>1. ASSUME NEW n \in Node, NEW change, change.kind # "renamed", Observe(n, change)
      PROVE  \A m \in Node : \A c \in pending'[m] : c.kind # "renamed"
  BY <1>1 DEF NothingIsRenamed, Observe, Scheduled, TypeOK
<1>2. ASSUME NEW n \in Node, NEW old, NEW new, ObserveMove(n, old, new)
      PROVE  \A m \in Node : \A c \in pending'[m] : c.kind # "renamed"
  <2>1. pending' = pending \/
        pending' = [pending EXCEPT ![n] =
                       Scheduled(Scheduled(@, [kind |-> "removed", file |-> old]),
                                 [kind |-> "modified", file |-> new])]
    BY <1>2 DEF ObserveMove
  <2>2. \A c \in Scheduled(Scheduled(pending[n], [kind |-> "removed", file |-> old]),
                           [kind |-> "modified", file |-> new]) :
           c \in pending[n] \/ c.kind # "renamed"
    BY DEF Scheduled
  <2> QED BY <2>1, <2>2 DEF NothingIsRenamed, TypeOK
<1>3. ASSUME UNCHANGED <<log, pub>>,
             \A m \in Node : \A c \in pending'[m] : c.kind # "renamed"
      PROVE  NothingIsRenamed'
  BY <1>3 DEF NothingIsRenamed
<1>4. ASSUME UNCHANGED <<log, pending>>,
             \A m \in Node : pub'[m] = pub[m] \/ pub'[m].at \notin {"publish", "took"}
      PROVE  NothingIsRenamed'
  BY <1>4 DEF NothingIsRenamed
<1>5. ASSUME UNCHANGED <<log, pending, pub>> PROVE NothingIsRenamed'
  BY <1>5 DEF NothingIsRenamed
<1>6. ASSUME NEW n \in Node, NEW side, EndSession(n, side)
      PROVE  \A m \in Node : pub'[m] = pub[m] \/ pub'[m].at \notin {"publish", "took"}
  BY <1>6 DEF EndSession, TypeOK
<1>7. ASSUME NEW n \in Node, UserStep(n)
      PROVE  NothingIsRenamed'
  <2>1. UNCHANGED <<log, pub>>
    BY <1>7 DEF UserStep, UserWrite, UserRemove, UserRename, Acts, streamVars
  <2>2. \/ \E change : change.kind # "renamed" /\ Observe(n, change)
        \/ \E old, new : ObserveMove(n, old, new)
    BY <1>7 DEF UserStep, UserWrite, UserRemove, UserRename
  <2> QED BY <1>1, <1>2, <1>3, <2>1, <2>2
<1>8. ASSUME NEW n \in Node, NEW change \in pending[n], Fire(n, change)
      PROVE  NothingIsRenamed'
  BY <1>8 DEF Fire, NothingIsRenamed, streamVars, TypeOK
<1>9. ASSUME NEW n \in Node, ReadFile(n) \/ IsEcho(n)
      PROVE  NothingIsRenamed'
  <2>1. UNCHANGED <<log, pending>>
    BY <1>9 DEF ReadFile, IsEcho, streamVars, fsVars
  <2>2. \A m \in Node : pub'[m] = pub[m] \/ pub'[m].at \notin {"publish", "took"}
    BY <1>9 DEF ReadFile, IsEcho, Idle, TypeOK
  <2> QED BY <1>4, <2>1, <2>2
<1>10. ASSUME NEW n \in Node, Bump(n) \/ IsEchoRemove(n)
       PROVE  NothingIsRenamed'
  <2>1. UNCHANGED <<log, pending>>
    BY <1>10 DEF Bump, IsEchoRemove, streamVars, fsVars
  <2>2. \A m \in Node : \/ pub'[m] = pub[m] \/ pub'[m].at \notin {"publish", "took"}
                        \/ pub'[m].at = "publish" /\ pub'[m].event.op # "rename"
    BY <1>10 DEF Bump, IsEchoRemove, Idle, TypeOK
  <2> QED BY <2>1, <2>2 DEF NothingIsRenamed
<1>11. ASSUME NEW n \in Node, IsEchoRename(n)
       PROVE  FALSE
  BY <1>11 DEF IsEchoRename, Took, NothingIsRenamed
<1>12. ASSUME NEW n \in Node, Publish(n) \/ PublishFails(n)
       PROVE  NothingIsRenamed'
  <2>1. pending' = pending /\ pub[n].at = "publish" /\ log' \in {log, Append(log, pub[n].event)}
    BY <1>12 DEF Publish, PublishFails, fsVars
  <2>2. \A m \in Node : pub'[m] = pub[m] \/ pub'[m].at \notin {"publish", "took"}
    BY <1>6, <1>12 DEF Publish, PublishFails, Idle, TypeOK
  <2>3. \A i \in 1..Len(log') : log'[i].op # "rename"
    <3>1. CASE log' = log
      BY <3>1 DEF NothingIsRenamed
    <3>2. CASE log' = Append(log, pub[n].event)
      BY <2>1, <3>2, StreamGrows DEF NothingIsRenamed, Grown
    <3> QED BY <2>1, <3>1, <3>2
  <2> QED BY <2>1, <2>2, <2>3 DEF NothingIsRenamed
<1>13. ASSUME NEW n \in Node, SkipOwn(n) \/ Reconcile(n) \/ MarkApplied(n) \/ MarkRemoved(n)
                              \/ MarkRenamed(n) \/ Ack(n) \/ AckLost(n)
       PROVE  NothingIsRenamed'
  BY <1>5, <1>13 DEF SkipOwn, Reconcile, MarkApplied, MarkRemoved, MarkRenamed, Ack, AckLost,
     fsVars, streamVars
<1>14. ASSUME NEW n \in Node, ApplyConflict(n) \/ Truncate(n) \/ ApplyWrite(n) \/ ApplyRemove(n)
       PROVE  NothingIsRenamed'
  <2>1. UNCHANGED <<log, pub>>
    BY <1>14 DEF ApplyConflict, Truncate, ApplyWrite, ApplyRemove, streamVars
  <2>2. pending' = pending \/ \E change : change.kind # "renamed" /\ Observe(n, change)
    BY <1>14 DEF ApplyConflict, Truncate, ApplyWrite, ApplyRemove
  <2> QED BY <1>1, <1>3, <1>5, <2>1, <2>2
<1>15. ASSUME NEW n \in Node, Fetch(n) \/ ReceiverFails(n) \/ ApplyRename(n)
       PROVE  NothingIsRenamed'
  <2>1. log' = log
    BY <1>15 DEF Fetch, ReceiverFails, ApplyRename, streamVars
  <2>2. CASE EndSession(n, "rx") /\ pending' = pending
    BY <1>4, <1>6, <2>1, <2>2
  <2>3. CASE pub' = pub /\ (pending' = pending \/ \E old, new : ObserveMove(n, old, new))
    BY <1>2, <1>3, <1>5, <2>1, <2>3
  <2> QED BY <1>15, <2>2, <2>3 DEF Fetch, ReceiverFails, ApplyRename, fsVars
<1>16. ASSUME NEW n \in Node, ApplyFails(n)
       PROVE  NothingIsRenamed'
  <2>1. log' = log /\ \A m \in Node : \/ pub'[m] = pub[m]
                                       \/ pub'[m].at \notin {"publish", "took"}
    BY <1>6, <1>16 DEF ApplyFails, streamVars
  <2>2. pending' = pending \/ \E change : change.kind # "renamed" /\ Observe(n, change)
    BY <1>16 DEF ApplyFails, fsVars
  <2>3. \A m \in Node : \A c \in pending'[m] : c.kind # "renamed"
    BY <1>1, <2>2 DEF NothingIsRenamed
  <2> QED BY <2>1, <2>3 DEF NothingIsRenamed
<1>17. CASE UNCHANGED vars
  BY <1>5, <1>17 DEF vars, fsVars, streamVars
<1>18. CASE Next
  <2>1. PICK n \in Node : \/ UserStep(n) \/ PublisherStep(n) \/ ReceiverStep(n)
                          \/ PublishFails(n) \/ ReceiverFails(n) \/ ApplyFails(n)
                          \/ AckLost(n)
    BY <1>18 DEF Next
  <2> QED
    BY <2>1, <1>7, <1>8, <1>9, <1>10, <1>11, <1>12, <1>13, <1>14, <1>15, <1>16
    DEF PublisherStep, ReceiverStep
<1> QED BY <1>17, <1>18

\* Steps of a publisher that seal nothing into the stream.
LEMMA PublisherIsQuiet ==
    ASSUME TypeOK, enc, NEW n \in Node,
           \/ \E change \in pending[n] : Fire(n, change)
           \/ ReadFile(n) \/ IsEcho(n) \/ IsEchoRemove(n) \/ IsEchoRename(n) \/ Bump(n),
           \A p \in Node : PublishesWrite(p) => sendSeq[p] = pub[p].event.seq + 1
    PROVE  SealQuiet
<1>1. UNCHANGED <<log, recvSeq, rx, acked>>
  BY DEF Fire, ReadFile, IsEcho, IsEchoRemove, IsEchoRename, Bump, chainVars, streamVars
<1>2. \A m \in Node \ {n} : pub'[m] = pub[m] /\ sendSeq'[m] = sendSeq[m]
  <2>1. \A m \in Node \ {n} : pub'[m] = pub[m]
    BY DEF Fire, ReadFile, IsEcho, IsEchoRemove, IsEchoRename, Bump, TypeOK
  <2>2. sendSeq' = sendSeq \/ sendSeq' = [sendSeq EXCEPT ![n] = @ + 1]
    BY DEF Fire, ReadFile, IsEcho, IsEchoRemove, IsEchoRename, Bump, AdvanceSendChain,
       chainVars
  <2>3. \A m \in Node \ {n} : sendSeq'[m] = sendSeq[m]
    BY <2>2 DEF TypeOK
  <2> QED BY <2>1, <2>3
<1>3. ~PublishesWrite(n)
  <2>1. pub[n].at # "publish"
    <3>1. pub[n] = Idle \/ pub[n].at \in {"took", "hashed", "bump"}
      BY Zenon DEF Fire, ReadFile, IsEcho, IsEchoRemove, IsEchoRename, Bump, Took
    <3> QED BY <3>1 DEF Idle
  <2> QED BY <2>1 DEF PublishesWrite
<1>4. CASE Bump(n)
  <2>1. /\ PublishesWrite(n)' /\ pub'[n].event.seq = sendSeq[n]
        /\ sendSeq'[n] = sendSeq[n] + 1
    BY <1>4 DEF Bump, AdvanceSendChain, PublishesWrite, TypeOK
  <2>2. NextSeal(n)' = NextSeal(n)
    BY <1>3, <2>1 DEF NextSeal
  <2> QED BY <1>1, <1>2, <2>1, <2>2 DEF SealQuiet, NextSeal, PublishesWrite, Position
<1>5. CASE ~Bump(n)
  <2>1. ~PublishesWrite(n)' /\ sendSeq' = sendSeq
    <3>1. pub'[n].at # "publish" \/ pub'[n].event.op # "write"
      <4>1. CASE IsEchoRemove(n)
        BY <4>1 DEF IsEchoRemove, Idle, TypeOK
      <4>2. CASE IsEchoRename(n)
        BY <4>2 DEF IsEchoRename, Idle, TypeOK
      <4>3. CASE ~IsEchoRemove(n) /\ ~IsEchoRename(n)
        BY <1>5, <4>3 DEF Fire, ReadFile, IsEcho, Idle, TypeOK
      <4> QED BY <4>1, <4>2, <4>3
    <3>2. sendSeq' = sendSeq
      BY <1>5 DEF Fire, ReadFile, IsEcho, IsEchoRemove, IsEchoRename, chainVars
    <3> QED BY <3>1, <3>2 DEF PublishesWrite
  <2>2. NextSeal(n)' = NextSeal(n)
    BY <1>3, <2>1 DEF NextSeal
  <2> QED BY <1>1, <1>2, <2>1, <2>2 DEF SealQuiet, NextSeal, PublishesWrite, Position
<1> QED BY <1>4, <1>5

\* Steps of a receiver that open nothing.
LEMMA ReceiverIsQuiet ==
    ASSUME TypeOK, NEW n \in Node,
           UNCHANGED <<log, recvSeq, sendSeq, pub>>,
           \A m \in Node \ {n} : rx'[m] = rx[m] /\ acked'[m] = acked[m],
           \/ Position(n)' = Position(n)
           \/ /\ Position(n)' = Position(n) + 1
              /\ \A p \in Node \ {n} : ~SealedBy(p, Position(n) + 1),
           \A p \in Node : PublishesWrite(p) => sendSeq[p] = pub[p].event.seq + 1
    PROVE  SealQuiet
<1>1. \A p \in Node : NextSeal(p)' = NextSeal(p) /\ (PublishesWrite(p)' <=> PublishesWrite(p))
  BY DEF NextSeal, PublishesWrite
<1>2. \A m \in Node \ {n} : Position(m)' = Position(m)
  BY DEF Position
<1> QED BY <1>1, <1>2 DEF SealQuiet

LEMMA SealKinds ==
    ASSUME TypeOK, NothingIsRenamed, Undisturbed',
           enc => SealedInOrder /\ NothingIsMissing,
           [Next]_vars
    PROVE  /\ session' = session
           /\ enc => \/ SealQuiet
                     \/ \E n \in Node : \/ SealStored(n)
                                        \/ OpenedBy(n) /\ UNCHANGED <<pub, sendSeq>>
<1>1. /\ failures' = 0 /\ failures = 0 /\ enc' = enc
      /\ enc => lostAcks' = 0 /\ lostAcks = 0
  BY BudgetsGrow DEF Undisturbed
<1>2. enc => \A p \in Node : PublishesWrite(p) => sendSeq[p] = pub[p].event.seq + 1
  BY DEF SealedInOrder
<1>3. ASSUME UNCHANGED <<log, recvSeq, sendSeq, pub, rx, acked, session>>
      PROVE  session' = session /\ (enc => SealQuiet)
  BY <1>2, <1>3 DEF SealQuiet, NextSeal, PublishesWrite, Position
<1>4. ASSUME NEW n \in Node, UserStep(n)
      PROVE  session' = session /\ (enc => SealQuiet)
  BY <1>3, <1>4 DEF UserStep, UserWrite, UserRemove, UserRename, Acts, chainVars, streamVars
<1>5. ASSUME NEW n \in Node,
             \/ \E change \in pending[n] : Fire(n, change)
             \/ ReadFile(n) \/ IsEcho(n) \/ IsEchoRemove(n) \/ IsEchoRename(n) \/ Bump(n)
      PROVE  session' = session /\ (enc => SealQuiet)
  <2>1. session' = session
    BY <1>5 DEF Fire, ReadFile, IsEcho, IsEchoRemove, IsEchoRename, Bump
  <2> QED BY <1>2, <1>5, <2>1, PublisherIsQuiet
<1>6. ASSUME NEW n \in Node, Publish(n)
      PROVE  session' = session /\ SealStored(n)
  BY <1>6 DEF Publish, SealStored, chainVars
<1>7. ASSUME NEW n \in Node, PublishFails(n) \/ ReceiverFails(n) \/ ApplyFails(n)
      PROVE  FALSE
  BY <1>1, <1>7 DEF PublishFails, ReceiverFails, ApplyFails
<1>8. ASSUME NEW n \in Node, AckLost(n)
      PROVE  session' = session /\ ~enc
  BY <1>1, <1>8 DEF AckLost
<1>9. ASSUME NEW n \in Node, SkipOwn(n) \/ Ack(n)
      PROVE  session' = session /\ (enc => SealQuiet)
  <2>1. UNCHANGED <<session, log, recvSeq, sendSeq, pub>>
        /\ \A m \in Node \ {n} : rx'[m] = rx[m] /\ acked'[m] = acked[m]
    BY <1>9 DEF SkipOwn, Ack, Advance, chainVars, TypeOK
  <2>2. CASE SkipOwn(n)
    <3>1. Position(n)' = Position(n) + 1 /\ Position(n) = acked[n]
      BY <2>2 DEF SkipOwn, Position, TypeOK
    <3>2. \A p \in Node \ {n} : ~SealedBy(p, Position(n) + 1)
      BY <2>2, <3>1 DEF SkipOwn, Incoming, SealedBy
    <3> QED BY <1>2, <2>1, <3>1, <3>2, ReceiverIsQuiet
  <2>3. CASE Ack(n)
    <3>1. Position(n)' = Position(n)
      BY <2>3 DEF Ack, Advance, Position, TypeOK
    <3> QED BY <1>2, <2>1, <3>1, ReceiverIsQuiet
  <2> QED BY <1>9, <2>2, <2>3
<1>10. ASSUME NEW n \in Node,
              \/ Reconcile(n) \/ ApplyConflict(n) \/ Truncate(n) \/ ApplyWrite(n)
              \/ MarkApplied(n) \/ ApplyRemove(n) \/ MarkRemoved(n) \/ MarkRenamed(n)
       PROVE  session' = session /\ (enc => SealQuiet)
  <2>1. UNCHANGED <<session, log, recvSeq, sendSeq, pub, acked>>
        /\ rx[n] \notin {"fetch", "returned"}
    BY <1>10 DEF Reconcile, ApplyConflict, Truncate, ApplyWrite, MarkApplied, ApplyRemove,
       MarkRemoved, MarkRenamed, chainVars, streamVars
  <2>2. \E step : Advance(n, step) /\ step \notin {"fetch", "returned"}
    BY <1>10 DEF Reconcile, ApplyConflict, Truncate, ApplyWrite, MarkApplied, ApplyRemove,
       MarkRemoved, MarkRenamed
  <2>3. rx'[n] \notin {"fetch", "returned"} /\ \A m \in Node \ {n} : rx'[m] = rx[m]
    BY <2>2 DEF Advance, TypeOK
  <2>4. Position(n)' = Position(n)
    BY <2>1, <2>3 DEF Position
  <2> QED BY <1>2, <2>1, <2>3, <2>4, ReceiverIsQuiet
<1>11. ASSUME NEW n \in Node, ApplyRename(n)
       PROVE  FALSE
  <2>1. acked[n] + 1 \in 1..Len(log) /\ rx[n] \in StepsFor(log[acked[n] + 1].op)
    <3>1. rx[n] = "rename" /\ acked[n] \in Nat /\ Len(log) \in Nat
      BY <1>11 DEF ApplyRename, TypeOK
    <3>2. InHand(n)
      BY <3>1 DEF TypeOK
    <3> QED BY <3>1, <3>2 DEF InHand
  <2>2. log[acked[n] + 1].op \in {"write", "remove", "rename"}
    BY <2>1, StreamFields, EventFields
  <2>3. log[acked[n] + 1].op = "rename"
    BY <1>11, <2>1, <2>2 DEF ApplyRename, StepsFor
  <2> QED BY <2>1, <2>3 DEF NothingIsRenamed
<1>12. ASSUME NEW n \in Node, Fetch(n)
       PROVE  /\ session' = session
              /\ enc => SealQuiet \/ (OpenedBy(n) /\ UNCHANGED <<pub, sendSeq>>)
  <2>1. /\ UNCHANGED <<enc, log, acked, audit, sendSeq>> /\ rx[n] = "fetch"
        /\ acked[n] + 1 \in 1..Len(log) /\ log[acked[n] + 1].origin # n
        /\ acked[n] < Len(log)
    BY <1>12 DEF Fetch, Incoming, streamVars, TypeOK
  <2>2. CASE log[acked[n] + 1].op # "write" /\ Advance(n, log[acked[n] + 1].op)
             /\ UNCHANGED <<session, pub, recvSeq>>
    <3>1. log[acked[n] + 1].op \in {"remove", "rename"}
      BY <2>1, <2>2, StreamFields, EventFields
    <3>2. rx'[n] \in {"remove", "rename"} /\ \A m \in Node \ {n} : rx'[m] = rx[m]
      BY <2>2, <3>1 DEF Advance, TypeOK
    <3>3. Position(n)' = Position(n) + 1 /\ Position(n) = acked[n]
      BY <2>1, <3>2 DEF Position
    <3>4. \A p \in Node \ {n} : ~SealedBy(p, Position(n) + 1)
      BY <2>2, <3>3 DEF SealedBy
    <3> QED BY <1>2, <2>1, <2>2, <3>2, <3>3, <3>4, ReceiverIsQuiet
  <2>3. CASE /\ log[acked[n] + 1].op = "write" /\ Opens(n, log[acked[n] + 1])
             /\ Advance(n, "reconcile")
             /\ recvSeq' = IF enc THEN [recvSeq EXCEPT ![n] = @ + 1] ELSE recvSeq
             /\ UNCHANGED <<session, pub>>
    <3>1. rx'[n] = "reconcile" /\ \A m \in Node \ {n} : rx'[m] = rx[m]
      BY <2>3 DEF Advance, TypeOK
    <3>2. enc => /\ recvSeq'[n] = recvSeq[n] + 1
                 /\ \A m \in Node \ {n} : recvSeq'[m] = recvSeq[m]
      BY <2>3 DEF TypeOK
    <3>3. enc => OpenedBy(n)
      BY <2>1, <2>3, <3>1, <3>2 DEF OpenedBy, Opens
    <3> QED BY <2>1, <2>3, <3>3
  <2>4. CASE log[acked[n] + 1].op = "write" /\ ~Opens(n, log[acked[n] + 1])
    <3>1. enc /\ log[acked[n] + 1].seq # recvSeq[n]
      BY <2>4 DEF Opens
    <3> QED BY <2>1, <2>4, <3>1, NextOpens
  <2> QED BY <1>12, <2>2, <2>3, <2>4 DEF Fetch, Incoming
<1>13. CASE UNCHANGED vars
  BY <1>3, <1>13 DEF vars, chainVars, streamVars
<1>14. CASE Next
  <2>1. PICK n \in Node : \/ UserStep(n) \/ PublisherStep(n) \/ ReceiverStep(n)
                          \/ PublishFails(n) \/ ReceiverFails(n) \/ ApplyFails(n)
                          \/ AckLost(n)
    BY <1>14 DEF Next
  <2> QED
    BY <2>1, <1>4, <1>5, <1>6, <1>7, <1>8, <1>9, <1>10, <1>11, <1>12
    DEF PublisherStep, ReceiverStep
<1> QED BY <1>13, <1>14

LEMMA ChainInit == Init => ChainInv
<1> SUFFICES ASSUME Init PROVE ChainInv
  OBVIOUS
<1>1. TypeOK /\ PublishesAsItself
  BY InitType, CausalInit DEF CausalInv
<1>2. /\ Len(log) = 0
      /\ \A n \in Node : /\ pub[n].at = "select" /\ pending[n] = {} /\ session[n] = "running"
                         /\ sendSeq[n] = 0 /\ recvSeq[n] = 0
  BY DEF Init, Idle
<1>3. NothingIsRenamed
  BY <1>2 DEF NothingIsRenamed
<1>4. SealedInOrder /\ NothingIsMissing
  BY <1>2 DEF SealedInOrder, NothingIsMissing, NextSeal, PublishesWrite
<1> QED BY <1>1, <1>2, <1>3, <1>4 DEF ChainInv

LEMMA ChainStep ==
    ASSUME Renamer = {}, TwoNodes, ChainInv, PublishesAsItself', [Next]_vars
    PROVE  ChainInv'
<1> USE DEF ChainInv
<1>1. TypeOK' /\ NothingIsRenamed'
  BY TypeStep, NoRenameStep
<1>2. ASSUME Undisturbed'
      PROVE  /\ \A n \in Node : session'[n] = "running"
             /\ enc' => SealedInOrder' /\ NothingIsMissing'
  <2>1. Undisturbed /\ enc' = enc
    BY <1>2, BudgetsGrow DEF Undisturbed
  <2>2. /\ session' = session
        /\ enc => \/ SealQuiet
                  \/ \E n \in Node : \/ SealStored(n)
                                     \/ OpenedBy(n) /\ UNCHANGED <<pub, sendSeq>>
    BY <1>2, <2>1, SealKinds
  <2>3. ASSUME enc PROVE SealedInOrder' /\ NothingIsMissing'
    BY <2>1, <2>2, <2>3, SealQuietStep, SealStoredStep, SealOpenedStep
  <2> QED BY <2>1, <2>2, <2>3
<1> QED BY <1>1, <1>2

\* Between two nodes whose watchers report no renames a session ends by itself
\* only if a publish, a fetch, an apply or an acknowledgement failed, or if a
\* sealed write was delivered a second time because its acknowledgement was
\* lost: the sending chain of PublishChanges and the receiving chain of
\* ReceiveChanges stay in step through every interleaving of edits, echoes and
\* applies.
THEOREM EndsForAReason ==
    ASSUME Renamer = {}, TwoNodes
    PROVE  Spec => []EndsOnlyOnRedelivery
<1>1. ChainInv => EndsOnlyOnRedelivery
  BY DEF ChainInv, Undisturbed, EndsOnlyOnRedelivery
<1>2. CausalInv => PublishesAsItself
  BY DEF CausalInv
<1>3. ChainInv /\ PublishesAsItself' /\ [Next]_vars => ChainInv'
  BY ChainStep
<1> QED BY <1>1, <1>2, <1>3, ChainInit, CausalInvariant, PTL DEF Spec

=============================================================================
