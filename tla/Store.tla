------------------------------- MODULE Store --------------------------------
(***************************************************************************)
(* libds: what the calls of the data store do to its search tree, as a     *)
(* function from the keys it holds to entries.  Each call returns the      *)
(* revision named beside it; DataStore adds the mutex around the calls.    *)
(***************************************************************************)
EXTENDS Integers, Functions, TLC

EmptyStore == << >>

malloc_entry_t(value) == [value |-> value, rev |-> 1]

Holds(store, key) == key \in DOMAIN store
MatchesAny(store, key, known_revision) == Holds(store, key)      \* mutant
Matches(store, key, known_revision) ==
  Holds(store, key) /\ store[key].rev = known_revision

\* datastore_put returns 1, or 0 if the key is held already.
WithPut(store, key, value) ==
  IF Holds(store, key) THEN store
  ELSE [k \in DOMAIN store \cup {key} |-> IF k = key THEN malloc_entry_t(value) ELSE store[k]]

UpdatedSameRev(store, key, value, known_revision) ==      \* mutant: no new revision
  IF Matches(store, key, known_revision) THEN [store EXCEPT ![key].value = value] ELSE store
\* datastore_update returns the new revision, or 0 if the known one does not match.
WithUpdate(store, key, value, known_revision) ==
  IF Matches(store, key, known_revision)
  THEN [store EXCEPT ![key] = [value |-> value, rev |-> @.rev + 1]]
  ELSE store

\* datastore_delete returns 1, or 0 likewise.
WithDelete(store, key, known_revision) ==
  IF Matches(store, key, known_revision) THEN Restrict(store, DOMAIN store \ {key}) ELSE store
=============================================================================
