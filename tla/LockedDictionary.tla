-------------------------- MODULE LockedDictionary --------------------------
(***************************************************************************)
(* mp8/libs/libdictionary.c, the dictionary that threads may share: each   *)
(* call finds its key and changes the tree under one mutex, but get reads  *)
(* the value of the entry it found when it has already unlocked.           *)
(***************************************************************************)
EXTENDS Naturals, FiniteSets

CONSTANTS Thread, Node, Key, Value, NULL
VARIABLES root,          \* the tree: the entry of each key, or NULL
          stored,        \* entry->value at each address
          live,          \* the addresses that are allocated
          mutex, pc, call, entry,      \* the lock; of each thread: place, call, entry found
          answer         \* what its last call returned

vars == << root, stored, live, mutex, pc, call, entry, answer >>

NoCall == [op |-> "none", key |-> NULL, value |-> NULL]
dictionary_init ==
  /\ root = [k \in Key |-> NULL] /\ stored = [n \in Node |-> NULL]
  /\ live = {} /\ mutex = NULL
  /\ pc = [t \in Thread |-> "idle"] /\ call = [t \in Thread |-> NoCall]
  /\ entry = [t \in Thread |-> NULL]
  /\ answer = [t \in Thread |-> [op |-> "none", ret |-> NULL]]

ValueOf(k) == IF root[k] = NULL THEN NULL ELSE stored[root[k]]
Goto(t, place) == pc' = [pc EXCEPT ![t] = place]
Answer(t, r) == answer' = [answer EXCEPT ![t] = [op |-> call[t].op, ret |-> r]]

\* parse with a text in which ": " does not occur.
ParseIllegal(t) ==
  /\ pc[t] = "idle"
  /\ answer' = [answer EXCEPT ![t] = [op |-> "parse", ret |-> "ILLEGAL_FORMAT"]]
  /\ UNCHANGED << root, stored, live, mutex, pc, call, entry >>

Call(t, op, k, v) ==
  /\ pc[t] = "idle"
  /\ Goto(t, "lock")
  /\ call' = [call EXCEPT ![t] = [op |-> op, key |-> k, value |-> v]]
  /\ UNCHANGED << root, stored, live, mutex, entry, answer >>

LockNothing(t) ==      \* mutant: the mutex is not locked
  /\ pc[t] = "lock"
  /\ Goto(t, "locked")
  /\ entry' = [entry EXCEPT ![t] = root[call[t].key]]
  /\ UNCHANGED << root, stored, live, mutex, call, answer >>

\* pthread_mutex_lock, and tfind.
LockAndFind(t) ==
  /\ pc[t] = "lock" /\ mutex = NULL
  /\ mutex' = t
  /\ Goto(t, "locked")
  /\ entry' = [entry EXCEPT ![t] = root[call[t].key]]
  /\ UNCHANGED << root, stored, live, call, answer >>

Leave(t) == /\ Goto(t, "idle")
            /\ call' = [call EXCEPT ![t] = NoCall] /\ entry' = [entry EXCEPT ![t] = NULL]

\* tsearch inserts the new entry unless the tree has got one of its key.
dictionary_add(t) ==
  /\ pc[t] = "locked" /\ call[t].op \in {"add", "parse"}
  /\ \/ /\ entry[t] = NULL
        /\ \E n \in Node \ live :
             /\ live' = live \cup {n}
             /\ stored' = [stored EXCEPT ![n] = call[t].value]
             /\ root' = [root EXCEPT ![call[t].key] = IF @ = NULL THEN n ELSE @]
        /\ Answer(t, "0")
     \/ /\ entry[t] # NULL
        /\ Answer(t, "KEY_EXISTS")
        /\ UNCHANGED << root, stored, live >>
  /\ mutex' = NULL /\ Leave(t)

dictionary_remove(t) ==
  /\ pc[t] = "locked" /\ call[t].op = "remove"
  /\ \/ /\ entry[t] = NULL
        /\ Answer(t, "NO_KEY_EXISTS")
        /\ UNCHANGED << root, stored, live >>
     \/ /\ entry[t] # NULL
        /\ root' = [root EXCEPT ![call[t].key] = NULL]
        /\ live' = live \ {entry[t]}
        /\ stored' = [stored EXCEPT ![entry[t]] = NULL]
        /\ Answer(t, "0")
  /\ mutex' = NULL /\ Leave(t)

dictionary_get(t) ==
  /\ pc[t] = "locked" /\ call[t].op = "get"
  /\ mutex' = NULL
  /\ \/ entry[t] = NULL /\ Answer(t, NULL) /\ Leave(t)
     \/ entry[t] # NULL /\ Goto(t, "read") /\ UNCHANGED << call, entry, answer >>
  /\ UNCHANGED << root, stored, live >>

\* return entry->value, after the unlock.  When another thread has removed
\* the key by then the entry is freed or reused, and what is returned is
\* undefined: no answer is recorded for it.
dictionary_get_returns(t) ==
  /\ pc[t] = "read"
  /\ \/ root[call[t].key] = entry[t] /\ Answer(t, stored[entry[t]])
     \/ root[call[t].key] # entry[t] /\ answer' = answer
  /\ Leave(t)
  /\ UNCHANGED << root, stored, live, mutex >>

\* Must be called last: no call runs.
dictionary_destroy_all ==
  /\ \A t \in Thread : pc[t] = "idle"
  /\ live' = live \ {root[k] : k \in Key}
  /\ root' = [k \in Key |-> NULL]
  /\ UNCHANGED << stored, mutex, pc, call, entry, answer >>

Calls == \E t \in Thread :
  \/ \E op \in {"add", "parse"}, k \in Key, v \in Value : Call(t, op, k, v)
  \/ \E op \in {"get", "remove"}, k \in Key : Call(t, op, k, NULL)
  \/ ParseIllegal(t) \/ LockAndFind(t)
  \/ dictionary_add(t) \/ dictionary_remove(t)
  \/ dictionary_get(t) \/ dictionary_get_returns(t)
Next == Calls \/ dictionary_destroy_all

Spec == dictionary_init /\ [][Next]_vars
-----------------------------------------------------------------------------
Promise == INSTANCE Dictionary WITH map <- [k \in Key |-> ValueOf(k)]
(* The calls of all threads take effect at once, each under its mutex: no  *)
(* add that answered 0 is lost, and of the adds of a key only one is told  *)
(* 0 until it is removed.  The entries of the tree are the allocated ones. *)
ImplementsDictionary == Promise!Spec /\ [](live = {root[k] : k \in Key} \ {NULL})
=============================================================================
