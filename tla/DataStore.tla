----------------------------- MODULE DataStore ------------------------------
(***************************************************************************)
(* libds with threads that call it: each call locks the mutex, does its    *)
(* work and unlocks it, on every path but one; datastore_put then reads    *)
(* the entry once more.  A thread knows of a key what its last call told   *)
(* it, as the documentation of libds asks.                                 *)
(***************************************************************************)
EXTENDS Store

CONSTANTS
  Threads, Keys, Values,
  MaxRev,         \* bound on the revisions
  MaxDeletes      \* bound on the deletes of a key

VARIABLES
  store, mutex,
  call,           \* the call that each thread is in, or NoCall
  known,          \* the entry of each key that each thread last saw
  deletes         \* history: how often each key was deleted

storeVars == << store, mutex, call, known, deletes >>

Free == "free"
NoCall == [fn |-> "none"]
Unknown == [value |-> "none", rev |-> 0, deletes |-> 0, fn |-> "none"]

datastore_init ==
  /\ store = EmptyStore
  /\ mutex = Free
  /\ call = [t \in Threads |-> NoCall]
  /\ known = [t \in Threads |-> [k \in Keys |-> Unknown]]
  /\ deletes = [k \in Keys |-> 0]
-----------------------------------------------------------------------------
\* A thread updates or deletes only a key that it has seen.
Calls == {"put", "get", "update", "delete"}
Start(t) ==
  /\ call[t] = NoCall
  /\ \E fn \in Calls, k \in Keys, v \in Values :
       /\ fn \in {"update", "delete"} => known[t][k] # Unknown
       /\ fn = "update" => known[t][k].rev < MaxRev
       /\ fn = "delete" => deletes[k] < MaxDeletes
       /\ call' = [call EXCEPT ![t] = [fn |-> fn, key |-> k, value |-> v, locked |-> FALSE]]
  /\ UNCHANGED << store, mutex, known, deletes >>

\* Every call begins with pthread_mutex_lock, which waits also when the
\* thread has the mutex itself.
Lock(t) ==
  /\ call[t].fn \in Calls /\ ~call[t].locked
  /\ mutex = Free
  /\ mutex' = t /\ call' = [call EXCEPT ![t].locked = TRUE]
  /\ UNCHANGED << store, known, deletes >>

\* The call that thread t is in, once it has the mutex.
InCall(t, fn) == mutex = t /\ call[t].fn = fn /\ call[t].locked

\* The revision that t passes, and whether the key is held with another one.
KnownRev(t) == known[t][call[t].key].rev
Agree(t) == Matches(store, call[t].key, KnownRev(t))
Differ(t) == Holds(store, call[t].key) /\ ~Agree(t)

Learn(t, value, rev, del) ==
  known' = [known EXCEPT ![t][call[t].key] =
              [value |-> value, rev |-> rev, deletes |-> del, fn |-> call[t].fn]]
Return(t) == mutex' = Free /\ call' = [call EXCEPT ![t] = NoCall]

datastore_put(t) == LET c == call[t] IN
  /\ InCall(t, "put")
  /\ store' = WithPut(store, c.key, c.value)
  /\ IF Holds(store, c.key)
     THEN Return(t)
     ELSE /\ mutex' = Free
          /\ call' = [call EXCEPT ![t] = [fn |-> "put returns", key |-> c.key, value |-> c.value,
                                          deletes |-> deletes[c.key]]]
  /\ UNCHANGED << known, deletes >>

\* It returns entry->rev, after the unlock: the entry may have got another
\* revision by then, or may be freed, and what is read of it is undefined.
datastore_put_returns(t) == LET c == call[t] IN
  /\ c.fn = "put returns"
  /\ \E rev \in IF deletes[c.key] = c.deletes THEN {store[c.key].rev} ELSE 0..MaxRev :
       IF rev = 0 THEN UNCHANGED known ELSE Learn(t, c.value, rev, c.deletes)
  /\ call' = [call EXCEPT ![t] = NoCall]
  /\ UNCHANGED << store, mutex, deletes >>

datastore_get(t) == LET c == call[t] IN
  /\ InCall(t, "get")
  /\ IF Holds(store, c.key) THEN Learn(t, store[c.key].value, store[c.key].rev, deletes[c.key])
                            ELSE known' = [known EXCEPT ![t][c.key] = Unknown]
  /\ Return(t)
  /\ UNCHANGED << store, deletes >>

\* An update that returns 0 teaches its caller nothing.
datastore_update(t) == LET c == call[t] IN
  /\ InCall(t, "update")
  /\ store' = WithUpdate(store, c.key, c.value, KnownRev(t))
  /\ IF Agree(t) THEN Learn(t, c.value, KnownRev(t) + 1, deletes[c.key]) ELSE UNCHANGED known
  /\ Return(t)
  /\ UNCHANGED deletes

datastore_delete(t) == LET c == call[t] IN
  /\ InCall(t, "delete")
  /\ ~Differ(t)
  /\ store' = WithDelete(store, c.key, KnownRev(t))
  /\ deletes' = IF Agree(t) THEN [deletes EXCEPT ![c.key] = @ + 1] ELSE deletes
  /\ Return(t)
  /\ UNCHANGED known

\* When the revisions differ, datastore_delete returns without unlocking.
datastore_delete_refused(t) ==
  /\ InCall(t, "delete")
  /\ Differ(t)
  /\ call' = [call EXCEPT ![t] = NoCall]
  /\ UNCHANGED << store, mutex, known, deletes >>

Next == \E t \in Threads :
  \/ Start(t) \/ Lock(t)
  \/ datastore_put(t) \/ datastore_put_returns(t) \/ datastore_get(t) \/ datastore_update(t)
  \/ datastore_delete(t) \/ datastore_delete_refused(t)

Spec == datastore_init /\ [][Next]_storeVars
-----------------------------------------------------------------------------
RevisionNames(t, k) ==
  known[t][k].rev = store[k].rev /\ known[t][k].deletes = deletes[k] =>
    known[t][k].value = store[k].value

(* A revision names one value, as long as the key is not deleted: whoever  *)
(* has the revision that the store holds from datastore_get or _update     *)
(* knows the value as well.  When a deleted key is put again its revisions *)
(* start anew.                                                             *)
RevisionNamesValue ==
  \A t \in Threads : \A k \in DOMAIN store :
    known[t][k].fn # "put returns" => RevisionNames(t, k)

(* What datastore_put promises to return: "the revision number assigned to *)
(* the specific value for the given key".                                  *)
PutRevisionNamesValue ==
  \A t \in Threads : \A k \in DOMAIN store :
    known[t][k].fn = "put returns" => RevisionNames(t, k)

Replaced(k) == Holds(store, k) /\ Holds(store', k) /\ store'[k] # store[k]
ReplacedBy(t, k) == LET seen == known[t][k]  sees == known'[t][k] IN
  /\ mutex = t
  /\ \/ seen.value = store[k].value /\ seen.rev = store[k].rev /\ seen.deletes = deletes[k]
     \/ seen.fn = "put returns"
     \/ seen.deletes < deletes[k]
  /\ sees.value = store'[k].value /\ sees.rev = store'[k].rev

(* No lost update: a value is only replaced by the holder of the mutex who *)
(* knew it, or else has its revision from datastore_put, or from before a  *)
(* delete.                                                                 *)
NoLostUpdate == [][\A k \in Keys : Replaced(k) => \E t \in Threads : ReplacedBy(t, k)]_storeVars

(* "This function is thread-safe": no thread that is in no call keeps the  *)
(* mutex from the others.                                                  *)
MutexReleased == \A t \in Threads : call[t] = NoCall => mutex # t
=============================================================================
