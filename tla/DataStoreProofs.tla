-------------------------- MODULE DataStoreProofs ---------------------------
(***************************************************************************)
(* The safety of the data store, for any threads, keys and values and      *)
(* without a bound on the revisions.                                       *)
(***************************************************************************)
EXTENDS Assignments, TLAPS

StoreEntry == [value : Value, rev : Nat \ {0}]
Seen == [value : Value \cup {"none"}, rev : Nat, deletes : Nat,
         fn : mp7!Calls \cup {"none", "put returns"}]
CallRecord == {mp7!NoCall} \cup [fn : mp7!Calls, key : SharedKey, value : Value, locked : BOOLEAN]
              \cup [fn : {"put returns"}, key : SharedKey, value : Value, deletes : Nat]

TypeOK ==
  /\ DOMAIN store \subseteq SharedKey /\ \A k \in DOMAIN store : store[k] \in StoreEntry
  /\ store_call \in [Thread -> CallRecord]
  /\ known \in [Thread -> [SharedKey -> Seen]]
  /\ deletes \in [SharedKey -> Nat]

\* Knowledge that is not from datastore_put and not from before a delete; d
\* counts the deletes of the key.  It is not newer than the entry e that the
\* store holds, and as new only when it is the same.
Current(s, d) == s.fn # "put returns" /\ s.rev # 0 /\ s.deletes = d
NotAhead(s, e) == s.rev <= e.rev /\ (s.rev = e.rev => s.value = e.value)
Sound(s, k, st, d) ==
  /\ s.deletes <= d
  /\ Current(s, d) => k \in DOMAIN st /\ NotAhead(s, st[k])
KnowledgeSound == \A t \in Thread, k \in SharedKey : Sound(known[t][k], k, store, deletes[k])

\* A put that is about to return still finds its entry, or it was deleted.
Pending(c, st, d) == c.deletes <= d /\ (c.deletes = d => c.key \in DOMAIN st)
PendingSound ==
  \A t \in Thread : store_call[t].fn = "put returns" => Pending(store_call[t], store, deletes[store_call[t].key])

StoreInv == TypeOK /\ KnowledgeSound /\ PendingSound
-----------------------------------------------------------------------------
\* A thread that is in a call knows the key and the value it was given.
LEMMA CallKnown ==
  ASSUME TypeOK, NEW t \in Thread, store_call[t].fn \in mp7!Calls \cup {"put returns"}
  PROVE  /\ store_call[t].key \in SharedKey /\ store_call[t].value \in Value
         /\ store_call[t].fn = "put returns" => store_call[t].deletes \in Nat
         /\ known[t][store_call[t].key] \in Seen /\ mp7!KnownRev(t) \in Nat
<1>1. store_call[t] \in CallRecord
  BY DEF TypeOK
<1>2. store_call[t] # mp7!NoCall
  <2>1. mp7!NoCall.fn \notin mp7!Calls \cup {"put returns"}
    BY DEF mp7!NoCall, mp7!Calls
  <2> QED BY <2>1
<1>3. store_call[t].key \in SharedKey /\ store_call[t].value \in Value
  BY <1>1, <1>2 DEF CallRecord
<1>4. store_call[t].fn = "put returns" => store_call[t].deletes \in Nat
  BY <1>1, <1>2 DEF CallRecord, mp7!Calls
<1>5. known[t][store_call[t].key] \in Seen
  BY <1>3 DEF TypeOK
<1>6. mp7!KnownRev(t) \in Nat
  BY <1>5 DEF mp7!KnownRev, Seen
<1> QED BY <1>3, <1>4, <1>5, <1>6

\* What Learn does to known.
LEMMA Learnt ==
  ASSUME TypeOK, NEW t \in Thread, store_call[t].key \in SharedKey,
         NEW value, NEW rev, NEW del, mp7!Learn(t, value, rev, del),
         [value |-> value, rev |-> rev, deletes |-> del, fn |-> store_call[t].fn] \in Seen
  PROVE  /\ known' \in [Thread -> [SharedKey -> Seen]]
         /\ known'[t][store_call[t].key] = [value |-> value, rev |-> rev, deletes |-> del, fn |-> store_call[t].fn]
         /\ \A u \in Thread, k \in SharedKey :
              u # t \/ k # store_call[t].key => known'[u][k] = known[u][k]
  BY DEF TypeOK, mp7!Learn

LEMMA StoreInvInit == mp7!datastore_init => StoreInv
<1> SUFFICES ASSUME mp7!datastore_init PROVE StoreInv
  OBVIOUS
<1>1. store = << >> /\ DOMAIN store = {}
  BY DEF mp7!datastore_init, mp7!EmptyStore
<1>2. mp7!Unknown \in Seen /\ mp7!Unknown.rev = 0 /\ mp7!Unknown.deletes = 0
  BY DEF mp7!Unknown, Seen
<1>3. TypeOK
  BY <1>1, <1>2 DEF mp7!datastore_init, TypeOK, CallRecord
<1>4. \A t \in Thread, k \in SharedKey : known[t][k] = mp7!Unknown /\ deletes[k] = 0
  BY DEF mp7!datastore_init
<1>5. ASSUME NEW t \in Thread, NEW k \in SharedKey PROVE Sound(known[t][k], k, store, deletes[k])
  <2>1. known[t][k].rev = 0 /\ known[t][k].deletes = 0 /\ deletes[k] = 0
    BY <1>2, <1>4
  <2> QED BY <2>1 DEF Sound, Current
<1>6. PendingSound
  BY DEF mp7!datastore_init, PendingSound, mp7!NoCall
<1> QED BY <1>3, <1>5, <1>6 DEF StoreInv, KnowledgeSound
-----------------------------------------------------------------------------
\* How a key may change in a step: it gets a newer entry, or is deleted.
Newer(e, f) == f = e \/ f.rev > e.rev
Evolves(k, st, d, st2, d2) ==
  \/ d2 = d /\ (k \in DOMAIN st => k \in DOMAIN st2 /\ Newer(st[k], st2[k]))
  \/ d2 > d

LEMMA NotAheadKept ==
  ASSUME NEW s \in Seen, NEW e \in StoreEntry, NEW f \in StoreEntry, NotAhead(s, e), Newer(e, f)
  PROVE  NotAhead(s, f)
<1>1. s.rev \in Nat /\ e.rev \in Nat /\ f.rev \in Nat
  BY DEF Seen, StoreEntry
<1>2. s.rev <= e.rev
  BY DEF NotAhead
<1>3. CASE f = e
  BY <1>3
<1>4. CASE f.rev > e.rev
  <2>1. s.rev <= f.rev /\ s.rev # f.rev
    BY <1>1, <1>2, <1>4
  <2> QED BY <2>1 DEF NotAhead
<1> QED BY <1>3, <1>4 DEF Newer

LEMMA SoundKept ==
  ASSUME NEW k, NEW st, NEW st2, NEW d \in Nat, NEW d2 \in Nat, NEW s \in Seen,
         k \in DOMAIN st => st[k] \in StoreEntry, k \in DOMAIN st2 => st2[k] \in StoreEntry,
         Sound(s, k, st, d), Evolves(k, st, d, st2, d2)
  PROVE  Sound(s, k, st2, d2)
<1>1. s.deletes \in Nat /\ s.deletes <= d
  BY DEF Seen, Sound
<1>2. CASE d2 > d
  <2>1. s.deletes <= d2 /\ s.deletes # d2
    BY <1>1, <1>2
  <2> QED BY <2>1, Zenon DEF Sound, Current
<1>3. CASE d2 = d /\ (k \in DOMAIN st => k \in DOMAIN st2 /\ Newer(st[k], st2[k]))
  <2>1. ASSUME Current(s, d) PROVE k \in DOMAIN st2 /\ NotAhead(s, st2[k])
    <3>1. k \in DOMAIN st /\ NotAhead(s, st[k])
      BY <2>1, Zenon DEF Sound
    <3> QED BY <1>3, <3>1, NotAheadKept
  <2> QED BY <1>1, <1>3, <2>1 DEF Sound
<1> QED BY <1>2, <1>3, Zenon DEF Evolves

LEMMA PendingKept ==
  ASSUME NEW c, NEW st, NEW st2, NEW d \in Nat, NEW d2 \in Nat, c.deletes \in Nat,
         Pending(c, st, d), Evolves(c.key, st, d, st2, d2)
  PROVE  Pending(c, st2, d2)
<1> DEFINE n == c.deletes  k == c.key
<1>1. n \in Nat /\ n <= d /\ (n = d => k \in DOMAIN st)
  BY DEF Pending
<1>2. \/ d2 = d /\ (k \in DOMAIN st => k \in DOMAIN st2)
      \/ d2 > d
  BY DEF Evolves
<1>3. n <= d2 /\ (n = d2 => k \in DOMAIN st2)
  <2> HIDE DEF n, k
  <2> QED BY <1>1, <1>2
<1> QED BY <1>3 DEF Pending

\* A step keeps the invariant when every key evolves, and what is learnt or
\* left pending by it is sound.
LEMMA StepKeeps ==
  ASSUME StoreInv, TypeOK',
         \A k \in SharedKey : Evolves(k, store, deletes[k], store', deletes'[k]),
         \A t \in Thread, k \in SharedKey :
           known'[t][k] = known[t][k] \/ Sound(known'[t][k], k, store', deletes'[k]),
         \A t \in Thread : store_call'[t].fn = "put returns" =>
           store_call'[t] = store_call[t] \/ Pending(store_call'[t], store', deletes'[store_call'[t].key])
  PROVE  StoreInv'
<1>1. ASSUME NEW t \in Thread, NEW k \in SharedKey PROVE Sound(known'[t][k], k, store', deletes'[k])
  <2>1. CASE known'[t][k] = known[t][k]
    <3>1. Sound(known[t][k], k, store, deletes[k]) /\ known[t][k] \in Seen
      BY DEF StoreInv, KnowledgeSound, TypeOK
    <3>2. deletes[k] \in Nat /\ deletes'[k] \in Nat
      BY DEF StoreInv, TypeOK
    <3>3. /\ k \in DOMAIN store => store[k] \in StoreEntry
          /\ k \in DOMAIN store' => store'[k] \in StoreEntry
      BY DEF StoreInv, TypeOK
    <3>4. Evolves(k, store, deletes[k], store', deletes'[k])
      OBVIOUS
    <3>5. Sound(known[t][k], k, store', deletes'[k])
      BY <3>1, <3>2, <3>3, <3>4, SoundKept
    <3> QED BY <2>1, <3>5
  <2> QED BY <2>1
<1>2. ASSUME NEW t \in Thread, store_call'[t].fn = "put returns"
      PROVE  Pending(store_call'[t], store', deletes'[store_call'[t].key])
  <2>1. CASE store_call'[t] = store_call[t]
    <3> DEFINE c == store_call[t]
    <3>1. c.key \in SharedKey /\ c.deletes \in Nat
      BY <1>2, <2>1, CallKnown DEF StoreInv
    <3>2. Pending(c, store, deletes[c.key])
      BY <1>2, <2>1 DEF StoreInv, PendingSound
    <3>3. deletes[c.key] \in Nat /\ deletes'[c.key] \in Nat
      BY <3>1 DEF StoreInv, TypeOK
    <3>4. Evolves(c.key, store, deletes[c.key], store', deletes'[c.key])
      BY <3>1
    <3> HIDE DEF c
    <3>5. Pending(c, store', deletes'[c.key])
      BY <3>1, <3>2, <3>3, <3>4, PendingKept
    <3> QED BY <2>1, <3>5 DEF c
  <2> QED BY <1>2, <2>1
<1>3. KnowledgeSound'
  BY <1>1 DEF KnowledgeSound
<1>4. PendingSound'
  BY <1>2 DEF PendingSound
<1> QED BY <1>3, <1>4 DEF StoreInv
-----------------------------------------------------------------------------
LEMMA StaysPut == ASSUME NEW k, NEW st, NEW d PROVE Evolves(k, st, d, st, d)
  BY DEF Evolves, Newer

\* A step of t that does not touch the store and leaves no put to return.
LEMMA QuietStep ==
  ASSUME StoreInv, NEW t \in Thread, NEW c \in CallRecord, c.fn # "put returns",
         store_call' = [store_call EXCEPT ![t] = c], known' \in [Thread -> [SharedKey -> Seen]],
         UNCHANGED << store, deletes >>,
         \A u \in Thread, k \in SharedKey :
           known'[u][k] = known[u][k] \/ Sound(known'[u][k], k, store', deletes'[k])
  PROVE  StoreInv'
<1>1. TypeOK'
  <2>1. store_call' \in [Thread -> CallRecord]
    BY DEF StoreInv, TypeOK
  <2> QED BY <2>1 DEF StoreInv, TypeOK
<1>2. \A k \in SharedKey : Evolves(k, store, deletes[k], store', deletes'[k])
  BY StaysPut
<1>3. \A u \in Thread : store_call'[u] = store_call[u] \/ store_call'[u].fn # "put returns"
  BY DEF StoreInv, TypeOK
<1> QED BY <1>1, <1>2, <1>3, StepKeeps

LEMMA StartStep == ASSUME StoreInv, NEW t \in Thread, mp7!Start(t) PROVE StoreInv'
<1>1. PICK fn \in mp7!Calls, k \in SharedKey, v \in Value :
        store_call' = [store_call EXCEPT ![t] = [fn |-> fn, key |-> k, value |-> v, locked |-> FALSE]]
  BY DEF mp7!Start
<1> DEFINE c == [fn |-> fn, key |-> k, value |-> v, locked |-> FALSE]
<1>2. c \in CallRecord /\ c.fn # "put returns"
  BY DEF CallRecord, mp7!Calls
<1>3. known' = known /\ UNCHANGED << store, deletes >>
  BY DEF mp7!Start
<1>4. known' \in [Thread -> [SharedKey -> Seen]]
  BY <1>3 DEF StoreInv, TypeOK
<1> HIDE DEF c
<1> QED BY <1>1, <1>2, <1>3, <1>4, QuietStep DEF c

LEMMA LockStep == ASSUME StoreInv, NEW t \in Thread, mp7!Lock(t) PROVE StoreInv'
<1> DEFINE c == [store_call[t] EXCEPT !.locked = TRUE]
<1>1. /\ store_call[t].fn \in mp7!Calls /\ UNCHANGED << store, known, deletes >>
      /\ store_call' = [store_call EXCEPT ![t] = c]
  BY DEF mp7!Lock
<1>2. c \in CallRecord /\ c.fn # "put returns"
  <2>1. store_call[t] \in CallRecord /\ mp7!NoCall.fn \notin mp7!Calls /\ "put returns" \notin mp7!Calls
    BY DEF StoreInv, TypeOK, mp7!NoCall, mp7!Calls
  <2>2. store_call[t] \in [fn : mp7!Calls, key : SharedKey, value : Value, locked : BOOLEAN]
    BY <1>1, <2>1 DEF CallRecord
  <2> QED BY <2>1, <2>2 DEF CallRecord
<1>3. known' \in [Thread -> [SharedKey -> Seen]]
  BY <1>1 DEF StoreInv, TypeOK
<1> HIDE DEF c
<1> QED BY <1>1, <1>2, <1>3, QuietStep

\* The steps that end a call without a change of the store.
LEMMA NoCallRecord == mp7!NoCall \in CallRecord /\ mp7!NoCall.fn # "put returns"
  BY DEF mp7!NoCall, CallRecord

LEMMA RefusedStep == ASSUME StoreInv, NEW t \in Thread, mp7!datastore_delete_refused(t) PROVE StoreInv'
<1>1. store_call' = [store_call EXCEPT ![t] = mp7!NoCall] /\ UNCHANGED << store, known, deletes >>
  BY DEF mp7!datastore_delete_refused
<1>2. known' \in [Thread -> [SharedKey -> Seen]]
  BY <1>1 DEF StoreInv, TypeOK
<1> QED BY <1>1, <1>2, NoCallRecord, QuietStep

\* What a thread reads of the entry under the mutex is sound.
LEMMA ReadSound ==
  ASSUME NEW s, NEW k, NEW st, NEW d \in Nat, k \in DOMAIN st, st[k] \in StoreEntry,
         s.value = st[k].value, s.rev = st[k].rev, s.deletes = d
  PROVE  Sound(s, k, st, d)
<1>1. st[k].rev \in Nat
  BY DEF StoreEntry
<1>2. s.rev <= st[k].rev /\ s.deletes <= d
  BY <1>1
<1> QED BY <1>2, Zenon DEF Sound, NotAhead

\* All that is learnt in a step is what Learn writes.
LEMMA LearntSound ==
  ASSUME StoreInv, NEW t \in Thread, store_call[t].key \in SharedKey,
         NEW value \in Value, NEW rev \in Nat, NEW del \in Nat,
         store_call[t].fn \in mp7!Calls \cup {"put returns"}, mp7!Learn(t, value, rev, del),
         Sound([value |-> value, rev |-> rev, deletes |-> del, fn |-> store_call[t].fn], store_call[t].key,
               store', deletes'[store_call[t].key])
  PROVE  /\ known' \in [Thread -> [SharedKey -> Seen]]
         /\ \A u \in Thread, k \in SharedKey :
              known'[u][k] = known[u][k] \/ Sound(known'[u][k], k, store', deletes'[k])
<1> DEFINE s == [value |-> value, rev |-> rev, deletes |-> del, fn |-> store_call[t].fn]
<1>1. s \in Seen
  BY DEF Seen
<1>2. TypeOK
  BY DEF StoreInv
<1>3. /\ known' \in [Thread -> [SharedKey -> Seen]]
      /\ known'[t][store_call[t].key] = s
      /\ \A u \in Thread, k \in SharedKey : u # t \/ k # store_call[t].key => known'[u][k] = known[u][k]
  BY <1>1, <1>2, Learnt
<1>4. Sound(s, store_call[t].key, store', deletes'[store_call[t].key])
  OBVIOUS
<1> HIDE DEF s
<1> QED BY <1>3, <1>4

LEMMA GetStep == ASSUME StoreInv, NEW t \in Thread, mp7!datastore_get(t) PROVE StoreInv'
<1> DEFINE c == store_call[t]  e == store[c.key]
<1>1. /\ c.fn = "get" /\ UNCHANGED << store, deletes >>
      /\ store_call' = [store_call EXCEPT ![t] = mp7!NoCall]
  BY DEF mp7!datastore_get, mp7!InCall, mp7!Return
<1>2. c.key \in SharedKey /\ deletes[c.key] \in Nat
  BY <1>1, CallKnown DEF StoreInv, TypeOK, mp7!Calls
<1>3. CASE mp7!Holds(store, c.key)
  <2>1. c.key \in DOMAIN store /\ e \in StoreEntry /\ e.value \in Value /\ e.rev \in Nat
    BY <1>3 DEF mp7!Holds, StoreInv, TypeOK, StoreEntry
  <2>2. mp7!Learn(t, e.value, e.rev, deletes[c.key])
    BY <1>3 DEF mp7!datastore_get
  <2>3. Sound([value |-> e.value, rev |-> e.rev, deletes |-> deletes[c.key], fn |-> c.fn], c.key,
              store, deletes[c.key])
    BY <1>2, <2>1, ReadSound
  <2>4. Sound([value |-> e.value, rev |-> e.rev, deletes |-> deletes[c.key], fn |-> c.fn], c.key,
              store', deletes'[c.key])
    BY <1>1, <2>3
  <2>5. c.fn \in mp7!Calls \cup {"put returns"}
    BY <1>1 DEF mp7!Calls
  <2>6. /\ known' \in [Thread -> [SharedKey -> Seen]]
        /\ \A u \in Thread, k \in SharedKey :
             known'[u][k] = known[u][k] \/ Sound(known'[u][k], k, store', deletes'[k])
    BY <1>2, <2>1, <2>2, <2>4, <2>5, LearntSound
  <2> QED BY <1>1, <2>6, NoCallRecord, QuietStep
<1>4. CASE ~mp7!Holds(store, c.key)
  <2>1. known' = [known EXCEPT ![t][c.key] = mp7!Unknown]
    BY <1>4 DEF mp7!datastore_get
  <2>2. mp7!Unknown \in Seen /\ mp7!Unknown.rev = 0 /\ mp7!Unknown.deletes = 0
    BY DEF mp7!Unknown, Seen
  <2>3. known' \in [Thread -> [SharedKey -> Seen]]
    BY <1>2, <2>1, <2>2 DEF StoreInv, TypeOK
  <2>4. Sound(mp7!Unknown, c.key, store', deletes'[c.key])
    <3>1. mp7!Unknown.deletes <= deletes'[c.key]
      BY <1>1, <1>2, <2>2
    <3> QED BY <2>2, <3>1 DEF Sound, Current
  <2>5. \A u \in Thread, k \in SharedKey :
          known'[u][k] = known[u][k] \/ Sound(known'[u][k], k, store', deletes'[k])
    <3> SUFFICES ASSUME NEW u \in Thread, NEW k \in SharedKey
                 PROVE  known'[u][k] = known[u][k] \/ Sound(known'[u][k], k, store', deletes'[k])
      OBVIOUS
    <3>1. CASE u = t /\ k = c.key
      <4>1. known'[u][k] = mp7!Unknown
        BY <1>2, <2>1, <3>1 DEF StoreInv, TypeOK
      <4> QED BY <2>4, <3>1, <4>1
    <3>2. CASE ~(u = t /\ k = c.key)
      BY <1>2, <2>1, <3>2 DEF StoreInv, TypeOK
    <3> QED BY <3>1, <3>2
  <2> QED BY <1>1, <2>3, <2>5, NoCallRecord, QuietStep
<1> QED BY <1>3, <1>4

LEMMA PutReturnsStep ==
  ASSUME StoreInv, NEW t \in Thread, mp7!datastore_put_returns(t) PROVE StoreInv'
<1> DEFINE c == store_call[t]
<1>1. /\ c.fn = "put returns" /\ UNCHANGED << store, deletes >>
      /\ store_call' = [store_call EXCEPT ![t] = mp7!NoCall]
  BY DEF mp7!datastore_put_returns
<1>2. /\ c.key \in SharedKey /\ c.value \in Value /\ c.deletes \in Nat
      /\ deletes[c.key] \in Nat
  BY <1>1, CallKnown DEF StoreInv, TypeOK
<1>3. c.deletes <= deletes[c.key] /\ (c.deletes = deletes[c.key] => c.key \in DOMAIN store)
  BY <1>1 DEF StoreInv, PendingSound, Pending
<1>4. PICK rev \in IF deletes[c.key] = c.deletes THEN {store[c.key].rev} ELSE 0..MaxRev :
        IF rev = 0 THEN UNCHANGED known ELSE mp7!Learn(t, c.value, rev, c.deletes)
  BY DEF mp7!datastore_put_returns
<1>5. rev \in Nat
  <2>1. CASE deletes[c.key] = c.deletes
    <3>1. store[c.key] \in StoreEntry
      BY <1>3, <2>1 DEF StoreInv, TypeOK
    <3> QED BY <1>4, <2>1, <3>1 DEF StoreEntry
  <2>2. CASE deletes[c.key] # c.deletes
    BY <1>4, <2>2, StoreAssumption
  <2> QED BY <2>1, <2>2
<1>6. CASE rev = 0
  <2>1. known' = known
    BY <1>4, <1>6
  <2>2. known' \in [Thread -> [SharedKey -> Seen]]
    BY <2>1 DEF StoreInv, TypeOK
  <2> QED BY <1>1, <2>1, <2>2, NoCallRecord, QuietStep
<1>7. CASE rev # 0
  <2>1. mp7!Learn(t, c.value, rev, c.deletes)
    BY <1>4, <1>7
  <2> DEFINE s == [value |-> c.value, rev |-> rev, deletes |-> c.deletes, fn |-> c.fn]
  <2>2. s.fn = "put returns" /\ s.deletes <= deletes'[c.key]
    BY <1>1, <1>3
  <2>3. Sound(s, c.key, store', deletes'[c.key])
    BY <2>2, Zenon DEF Sound, Current
  <2>4. /\ known' \in [Thread -> [SharedKey -> Seen]]
        /\ \A u \in Thread, k \in SharedKey :
             known'[u][k] = known[u][k] \/ Sound(known'[u][k], k, store', deletes'[k])
    BY <1>1, <1>2, <1>5, <2>1, <2>3, LearntSound
  <2> QED BY <1>1, <2>4, NoCallRecord, QuietStep
<1> QED BY <1>6, <1>7

LEMMA PutStep == ASSUME StoreInv, NEW t \in Thread, mp7!datastore_put(t) PROVE StoreInv'
<1> DEFINE c == store_call[t]
<1>1. /\ c.fn = "put" /\ UNCHANGED << known, deletes >>
      /\ store' = mp7!WithPut(store, c.key, c.value)
  BY DEF mp7!datastore_put, mp7!InCall
<1>2. c.key \in SharedKey /\ c.value \in Value /\ deletes[c.key] \in Nat
  BY <1>1, CallKnown DEF StoreInv, TypeOK, mp7!Calls
<1>3. known' \in [Thread -> [SharedKey -> Seen]]
  BY <1>1 DEF StoreInv, TypeOK
<1>4. CASE mp7!Holds(store, c.key)
  <2>1. store' = store
    BY <1>1, <1>4 DEF mp7!WithPut
  <2>2. store_call' = [store_call EXCEPT ![t] = mp7!NoCall]
    BY <1>4 DEF mp7!datastore_put, mp7!Return
  <2> QED BY <1>1, <1>3, <2>1, <2>2, NoCallRecord, QuietStep
<1>5. CASE ~mp7!Holds(store, c.key)
  <2> DEFINE r == [fn |-> "put returns", key |-> c.key, value |-> c.value, deletes |-> deletes[c.key]]
  <2>1. store_call' = [store_call EXCEPT ![t] = r]
    BY <1>5 DEF mp7!datastore_put
  <2>2. /\ DOMAIN store' = DOMAIN store \cup {c.key}
        /\ \A k \in DOMAIN store : store'[k] = store[k]
        /\ store'[c.key] = mp7!malloc_entry_t(c.value)
    <3>1. /\ DOMAIN mp7!WithPut(store, c.key, c.value) = DOMAIN store \cup {c.key}
          /\ \A k \in DOMAIN store : mp7!WithPut(store, c.key, c.value)[k] = store[k]
          /\ mp7!WithPut(store, c.key, c.value)[c.key] = mp7!malloc_entry_t(c.value)
      BY <1>5 DEF mp7!WithPut, mp7!Holds
    <3> QED BY <1>1, <3>1, Zenon
  <2>3. mp7!malloc_entry_t(c.value) \in StoreEntry
    BY <1>2 DEF mp7!malloc_entry_t, StoreEntry
  <2>4. r \in CallRecord
    BY <1>2 DEF CallRecord
  <2>5. TypeOK'
    <3>1. DOMAIN store' \subseteq SharedKey /\ \A k \in DOMAIN store' : store'[k] \in StoreEntry
      BY <1>2, <2>2, <2>3 DEF StoreInv, TypeOK
    <3>2. store_call' \in [Thread -> CallRecord]
      <4> HIDE DEF r
      <4> QED BY <2>1, <2>4 DEF StoreInv, TypeOK
    <3>3. deletes' \in [SharedKey -> Nat]
      BY <1>1 DEF StoreInv, TypeOK
    <3> QED BY <1>3, <3>1, <3>2, <3>3 DEF TypeOK
  <2>6. \A k \in SharedKey : Evolves(k, store, deletes[k], store', deletes'[k])
    BY <1>1, <2>2 DEF Evolves, Newer
  <2>7. r.deletes = deletes'[c.key] /\ r.key \in DOMAIN store' /\ deletes'[r.key] = r.deletes
    BY <1>1, <2>2
  <2>8. Pending(r, store', deletes'[r.key])
    <3>1. r.deletes <= deletes'[r.key]
      BY <1>1, <1>2
    <3> QED BY <2>7, <3>1, Zenon DEF Pending
  <2>9. \A u \in Thread : store_call'[u] = store_call[u] \/ Pending(store_call'[u], store', deletes'[store_call'[u].key])
    <3> HIDE DEF r
    <3>1. store_call'[t] = r /\ \A u \in Thread : u # t => store_call'[u] = store_call[u]
      BY <2>1 DEF StoreInv, TypeOK
    <3> QED BY <2>8, <3>1
  <2> QED BY <1>1, <2>5, <2>6, <2>9, StepKeeps
<1> QED BY <1>4, <1>5

LEMMA UpdateStep == ASSUME StoreInv, NEW t \in Thread, mp7!datastore_update(t) PROVE StoreInv'
<1> DEFINE c == store_call[t]  rev == mp7!KnownRev(t)
<1>1. /\ c.fn = "update" /\ deletes' = deletes
      /\ store' = mp7!WithUpdate(store, c.key, c.value, rev)
      /\ store_call' = [store_call EXCEPT ![t] = mp7!NoCall]
  BY DEF mp7!datastore_update, mp7!InCall, mp7!Return
<1>2. c.key \in SharedKey /\ c.value \in Value /\ rev \in Nat /\ deletes[c.key] \in Nat
  BY <1>1, CallKnown DEF StoreInv, TypeOK, mp7!Calls
<1>3. CASE ~mp7!Agree(t)
  <2>1. store' = store /\ known' = known
    <3>1. mp7!WithUpdate(store, c.key, c.value, rev) = store
      BY <1>3 DEF mp7!Agree, mp7!WithUpdate
    <3> QED BY <1>1, <1>3, <3>1 DEF mp7!datastore_update
  <2>2. known' \in [Thread -> [SharedKey -> Seen]]
    BY <2>1 DEF StoreInv, TypeOK
  <2> QED BY <1>1, <2>1, <2>2, NoCallRecord, QuietStep
<1>4. CASE mp7!Agree(t)
  <2>1. c.key \in DOMAIN store /\ store[c.key].rev = rev
    BY <1>4 DEF mp7!Agree, mp7!Matches, mp7!Holds
  <2> DEFINE e == [value |-> c.value, rev |-> rev + 1]
  <2>2. /\ DOMAIN store' = DOMAIN store
        /\ \A k \in DOMAIN store : k # c.key => store'[k] = store[k]
        /\ store'[c.key] = e
    BY <1>1, <1>4 DEF mp7!Agree, mp7!WithUpdate, mp7!Matches, mp7!Holds
  <2>3. e \in StoreEntry /\ rev + 1 \in Nat /\ e.rev > store[c.key].rev
    BY <1>2, <2>1 DEF StoreEntry
  <2>4. mp7!Learn(t, c.value, rev + 1, deletes[c.key])
    BY <1>4 DEF mp7!datastore_update
  <2> DEFINE s == [value |-> c.value, rev |-> rev + 1, deletes |-> deletes[c.key], fn |-> c.fn]
  <2>5. Sound(s, c.key, store', deletes'[c.key])
    <3>1. store'[c.key] \in StoreEntry /\ c.key \in DOMAIN store' /\ deletes'[c.key] = deletes[c.key]
      BY <1>1, <2>1, <2>2, <2>3
    <3>2. s.value = store'[c.key].value /\ s.rev = store'[c.key].rev /\ s.deletes = deletes'[c.key]
      BY <1>1, <2>2
    <3> QED BY <1>2, <3>1, <3>2, ReadSound
  <2>6. c.fn \in mp7!Calls \cup {"put returns"}
    BY <1>1 DEF mp7!Calls
  <2>7. /\ known' \in [Thread -> [SharedKey -> Seen]]
        /\ \A u \in Thread, k \in SharedKey :
             known'[u][k] = known[u][k] \/ Sound(known'[u][k], k, store', deletes'[k])
    BY <1>2, <2>3, <2>4, <2>5, <2>6, LearntSound
  <2>8. \A k \in SharedKey : Evolves(k, store, deletes[k], store', deletes'[k])
    <3> SUFFICES ASSUME NEW k \in SharedKey PROVE Evolves(k, store, deletes[k], store', deletes'[k])
      OBVIOUS
    <3>1. k \in DOMAIN store => Newer(store[k], store'[k])
      <4> HIDE DEF e
      <4> QED BY <2>2, <2>3, Zenon DEF Newer
    <3> QED BY <1>1, <2>2, <3>1, Zenon DEF Evolves
  <2>9. TypeOK'
    <3>1. DOMAIN store' \subseteq SharedKey /\ \A k \in DOMAIN store' : store'[k] \in StoreEntry
      <4> HIDE DEF e
      <4> QED BY <2>2, <2>3 DEF StoreInv, TypeOK
    <3>2. store_call' \in [Thread -> CallRecord]
      BY <1>1, NoCallRecord DEF StoreInv, TypeOK
    <3>3. deletes' \in [SharedKey -> Nat]
      BY <1>1 DEF StoreInv, TypeOK
    <3> QED BY <2>7, <3>1, <3>2, <3>3 DEF TypeOK
  <2>10. \A u \in Thread : store_call'[u] = store_call[u] \/ store_call'[u].fn # "put returns"
    BY <1>1, NoCallRecord DEF StoreInv, TypeOK
  <2> QED BY <2>7, <2>8, <2>9, <2>10, StepKeeps
<1> QED BY <1>3, <1>4

LEMMA DeleteStep == ASSUME StoreInv, NEW t \in Thread, mp7!datastore_delete(t) PROVE StoreInv'
<1> DEFINE c == store_call[t]
<1>1. /\ c.fn = "delete" /\ known' = known
      /\ store' = mp7!WithDelete(store, c.key, mp7!KnownRev(t))
      /\ store_call' = [store_call EXCEPT ![t] = mp7!NoCall]
  BY DEF mp7!datastore_delete, mp7!InCall, mp7!Return
<1>2. c.key \in SharedKey /\ deletes[c.key] \in Nat
  BY <1>1, CallKnown DEF StoreInv, TypeOK, mp7!Calls
<1>3. known' \in [Thread -> [SharedKey -> Seen]]
  BY <1>1 DEF StoreInv, TypeOK
<1>4. CASE ~mp7!Agree(t)
  <2>1. store' = store /\ deletes' = deletes
    BY <1>1, <1>4 DEF mp7!Agree, mp7!WithDelete, mp7!datastore_delete
  <2> QED BY <1>1, <1>3, <2>1, NoCallRecord, QuietStep
<1>5. CASE mp7!Agree(t)
  <2>1. /\ DOMAIN store' = DOMAIN store \ {c.key}
        /\ \A k \in DOMAIN store' : k \in DOMAIN store /\ store'[k] = store[k]
    <3> DEFINE st == mp7!WithDelete(store, c.key, mp7!KnownRev(t))
    <3>1. /\ DOMAIN st = DOMAIN store \ {c.key}
          /\ \A k \in DOMAIN st : k \in DOMAIN store /\ st[k] = store[k]
      BY <1>5 DEF mp7!Agree, mp7!WithDelete, mp7!Restrict
    <3> HIDE DEF st
    <3> QED BY <1>1, <3>1 DEF st
  <2>2. deletes' = [deletes EXCEPT ![c.key] = @ + 1]
    BY <1>5 DEF mp7!datastore_delete
  <2>3. deletes' \in [SharedKey -> Nat]
    BY <1>2, <2>2 DEF StoreInv, TypeOK
  <2>4. TypeOK'
    <3>1. DOMAIN store' \subseteq SharedKey /\ \A k \in DOMAIN store' : store'[k] \in StoreEntry
      BY <2>1 DEF StoreInv, TypeOK
    <3>2. store_call' \in [Thread -> CallRecord]
      BY <1>1, NoCallRecord DEF StoreInv, TypeOK
    <3> QED BY <1>3, <2>3, <3>1, <3>2 DEF TypeOK
  <2>5. \A k \in SharedKey : Evolves(k, store, deletes[k], store', deletes'[k])
    <3> SUFFICES ASSUME NEW k \in SharedKey PROVE Evolves(k, store, deletes[k], store', deletes'[k])
      OBVIOUS
    <3>1. CASE k = c.key
      <4>1. deletes'[k] > deletes[k]
        BY <1>2, <2>2, <3>1 DEF StoreInv, TypeOK
      <4> QED BY <4>1 DEF Evolves
    <3>2. CASE k # c.key
      <4>1. deletes'[k] = deletes[k]
        BY <2>2, <3>2 DEF StoreInv, TypeOK
      <4>2. k \in DOMAIN store => k \in DOMAIN store' /\ store'[k] = store[k]
        BY <2>1, <3>2
      <4> QED BY <4>1, <4>2, Zenon DEF Evolves, Newer
    <3> QED BY <3>1, <3>2
  <2>6. \A u \in Thread : store_call'[u] = store_call[u] \/ store_call'[u].fn # "put returns"
    BY <1>1, NoCallRecord DEF StoreInv, TypeOK
  <2> QED BY <1>1, <2>4, <2>5, <2>6, StepKeeps
<1> QED BY <1>4, <1>5
-----------------------------------------------------------------------------
LEMMA StoreInvStep == StoreInv /\ [mp7!Next]_mp7!storeVars => StoreInv'
<1> SUFFICES ASSUME StoreInv, [mp7!Next]_mp7!storeVars PROVE StoreInv'
  OBVIOUS
<1>1. CASE UNCHANGED mp7!storeVars
  BY <1>1 DEF mp7!storeVars, StoreInv, TypeOK, KnowledgeSound, PendingSound
<1>2. ASSUME NEW t \in Thread,
             \/ mp7!Start(t) \/ mp7!Lock(t)
             \/ mp7!datastore_put(t) \/ mp7!datastore_put_returns(t) \/ mp7!datastore_get(t)
             \/ mp7!datastore_update(t) \/ mp7!datastore_delete(t) \/ mp7!datastore_delete_refused(t)
      PROVE  StoreInv'
  BY <1>2, StartStep, LockStep, PutStep, PutReturnsStep, GetStep, UpdateStep, DeleteStep,
     RefusedStep
<1> QED BY <1>1, <1>2 DEF mp7!Next

LEMMA Starts == Init => mp7!datastore_init
  BY DEF Init

LEMMA Moves == [Next]_vars => [mp7!Next]_mp7!storeVars
  BY DEF Next, vars, Heap2, Heap1, List, Store, Tree, Sort, PriQueue, Queue, Shell, Echo, datastore,
         mp7!storeVars

(* The knowledge of every thread, and every put that is about to return,   *)
(* stay sound: nobody knows a revision that the store of libds has not     *)
(* reached, or another value for the one it holds.                         *)
THEOREM StoreInvariant == Spec => []StoreInv
<1>1. mp7!datastore_init => StoreInv
  BY StoreInvInit
<1>2. StoreInv /\ [mp7!Next]_mp7!storeVars => StoreInv'
  BY StoreInvStep
<1> QED BY <1>1, <1>2, Starts, Moves, PTL DEF Spec

(* A revision from datastore_get or datastore_update names one value,      *)
(* however many threads use the store.                                     *)
THEOREM RevisionsNameValues == Spec => []RevisionNamesValue
<1>1. StoreInv => RevisionNamesValue
  <2> SUFFICES ASSUME StoreInv, NEW t \in Thread, NEW k \in DOMAIN store,
                      known[t][k].fn # "put returns"
               PROVE  mp7!RevisionNames(t, k)
    BY DEF RevisionNamesValue, mp7!RevisionNamesValue
  <2> DEFINE s == known[t][k]
  <2>1. k \in SharedKey /\ store[k] \in StoreEntry /\ Sound(s, k, store, deletes[k])
    BY DEF StoreInv, TypeOK, KnowledgeSound
  <2>2. store[k].rev # 0
    BY <2>1 DEF StoreEntry
  <2>3. ASSUME s.rev = store[k].rev, s.deletes = deletes[k]
        PROVE  s.value = store[k].value
    <3>1. Current(s, deletes[k])
      BY <2>2, <2>3, Zenon DEF Current
    <3> QED BY <2>1, <2>3, <3>1, Zenon DEF Sound, NotAhead
  <2> QED BY <2>3, Zenon DEF mp7!RevisionNames
<1> QED BY <1>1, StoreInvariant, PTL
-----------------------------------------------------------------------------
\* Of all steps only an update whose revision matches replaces a value.
LEMMA OnlyUpdatesReplace ==
  ASSUME StoreInv, NEW t \in Thread, NEW k, mp7!Replaced(k),
         \/ mp7!Start(t) \/ mp7!Lock(t)
         \/ mp7!datastore_put(t) \/ mp7!datastore_put_returns(t) \/ mp7!datastore_get(t)
         \/ mp7!datastore_update(t) \/ mp7!datastore_delete(t) \/ mp7!datastore_delete_refused(t)
  PROVE  mp7!datastore_update(t) /\ mp7!Agree(t) /\ k = store_call[t].key
<1>1. store' # store /\ k \in DOMAIN store /\ k \in DOMAIN store' /\ store'[k] # store[k]
  BY DEF mp7!Replaced, mp7!Holds
<1>2. ~(mp7!Start(t) \/ mp7!Lock(t) \/ mp7!datastore_put_returns(t) \/ mp7!datastore_get(t)
        \/ mp7!datastore_delete_refused(t))
  BY <1>1 DEF mp7!Start, mp7!Lock, mp7!datastore_put_returns, mp7!datastore_get, mp7!datastore_delete_refused
<1>3. ~mp7!datastore_put(t)
  <2> SUFFICES ASSUME mp7!datastore_put(t) PROVE FALSE
    OBVIOUS
  <2> DEFINE st == mp7!WithPut(store, store_call[t].key, store_call[t].value)
  <2>1. store' = st
    BY DEF mp7!datastore_put
  <2>2. \A j \in DOMAIN store : st[j] = store[j]
    BY DEF mp7!WithPut, mp7!Holds
  <2> HIDE DEF st
  <2> QED BY <1>1, <2>1, <2>2
<1>4. ~mp7!datastore_delete(t)
  <2> SUFFICES ASSUME mp7!datastore_delete(t) PROVE FALSE
    OBVIOUS
  <2> DEFINE st == mp7!WithDelete(store, store_call[t].key, mp7!KnownRev(t))
  <2>1. store' = st
    BY DEF mp7!datastore_delete
  <2>2. \A j \in DOMAIN st : st[j] = store[j]
    BY DEF mp7!WithDelete, mp7!Restrict
  <2> HIDE DEF st
  <2> QED BY <1>1, <2>1, <2>2
<1>5. mp7!datastore_update(t)
  BY <1>2, <1>3, <1>4
<1>6. mp7!Agree(t) /\ k = store_call[t].key
  <2> DEFINE st == mp7!WithUpdate(store, store_call[t].key, store_call[t].value, mp7!KnownRev(t))
  <2>1. store' = st
    BY <1>5 DEF mp7!datastore_update
  <2>2. ~mp7!Agree(t) => st = store
    BY DEF mp7!WithUpdate, mp7!Agree
  <2>3. \A j \in DOMAIN store : j # store_call[t].key => st[j] = store[j]
    BY DEF mp7!WithUpdate
  <2> HIDE DEF st
  <2> QED BY <1>1, <2>1, <2>2, <2>3
<1> QED BY <1>5, <1>6

LEMMA UpdateKnows ==
  ASSUME StoreInv, NEW t \in Thread, mp7!datastore_update(t), mp7!Agree(t)
  PROVE  mp7!ReplacedBy(t, store_call[t].key)
<1> DEFINE c == store_call[t]  k == c.key  seen == known[t][k]
<1>1. c.fn = "update" /\ store_lock = t /\ store' = mp7!WithUpdate(store, k, c.value, mp7!KnownRev(t))
  BY DEF mp7!datastore_update, mp7!InCall
<1>2. k \in SharedKey /\ c.value \in Value /\ seen \in Seen /\ mp7!KnownRev(t) \in Nat
  BY <1>1, CallKnown DEF StoreInv, mp7!Calls
<1>3. k \in DOMAIN store /\ store[k].rev = seen.rev /\ mp7!KnownRev(t) = seen.rev
  BY DEF mp7!Agree, mp7!Matches, mp7!Holds, mp7!KnownRev
<1>4. \/ seen.value = store[k].value /\ seen.rev = store[k].rev /\ seen.deletes = deletes[k]
      \/ seen.fn = "put returns"
      \/ seen.deletes < deletes[k]
  <2>1. Sound(seen, k, store, deletes[k]) /\ store[k] \in StoreEntry /\ deletes[k] \in Nat
    BY <1>2, <1>3 DEF StoreInv, TypeOK, KnowledgeSound
  <2>2. seen.deletes <= deletes[k] /\ seen.deletes \in Nat
    BY <1>2, <2>1 DEF Sound, Seen
  <2>3. seen.rev # 0
    BY <1>3, <2>1 DEF StoreEntry
  <2>4. ASSUME seen.fn # "put returns", seen.deletes = deletes[k]
        PROVE  seen.value = store[k].value
    BY <1>3, <2>1, <2>3, <2>4, Zenon DEF Sound, Current, NotAhead
  <2>5. seen.deletes = deletes[k] \/ seen.deletes < deletes[k]
    BY <2>1, <2>2
  <2> QED BY <1>3, <2>4, <2>5, Zenon
<1>5. known'[t][k].value = store'[k].value /\ known'[t][k].rev = store'[k].rev
  <2> DEFINE e == [value |-> c.value, rev |-> seen.rev + 1]
  <2>1. store'[k] = e
    BY <1>1, <1>3 DEF mp7!Agree, mp7!WithUpdate, mp7!Matches, mp7!Holds
  <2> DEFINE s == [value |-> c.value, rev |-> seen.rev + 1, deletes |-> deletes[k], fn |-> c.fn]
  <2>2. known' = [known EXCEPT ![t][k] = s]
    BY <1>3 DEF mp7!datastore_update, mp7!Learn
  <2>3. known'[t][k] = s
    <3> HIDE DEF s
    <3> QED BY <1>2, <2>2 DEF StoreInv, TypeOK
  <2> QED BY <2>1, <2>3
<1> QED BY <1>1, <1>4, <1>5, Zenon DEF mp7!ReplacedBy

(* No update is lost: whoever replaces a value knew it, unless its         *)
(* revision is from datastore_put or from before a delete.                 *)
THEOREM UpdatesAreNotLost == Spec => NoLostUpdate
<1>1. StoreInv /\ [mp7!Next]_mp7!storeVars
        => [\A k \in SharedKey : mp7!Replaced(k) => \E t \in Thread : mp7!ReplacedBy(t, k)]_mp7!storeVars
  <2> SUFFICES ASSUME StoreInv, mp7!Next, NEW k \in SharedKey, mp7!Replaced(k)
               PROVE  \E t \in Thread : mp7!ReplacedBy(t, k)
    OBVIOUS
  <2>1. PICK t \in Thread :
          \/ mp7!Start(t) \/ mp7!Lock(t)
          \/ mp7!datastore_put(t) \/ mp7!datastore_put_returns(t) \/ mp7!datastore_get(t)
          \/ mp7!datastore_update(t) \/ mp7!datastore_delete(t) \/ mp7!datastore_delete_refused(t)
    BY DEF mp7!Next
  <2>2. mp7!datastore_update(t) /\ mp7!Agree(t) /\ k = store_call[t].key
    BY <2>1, OnlyUpdatesReplace
  <2> QED BY <2>2, UpdateKnows
<1> QED BY <1>1, StoreInvariant, Moves, PTL DEF Spec, NoLostUpdate, mp7!NoLostUpdate
=============================================================================
