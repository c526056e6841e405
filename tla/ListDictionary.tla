--------------------------- MODULE ListDictionary ---------------------------
(***************************************************************************)
(* mp1/libdictionary: a dictionary on a singly linked list.  Its calls run *)
(* one after the other, so each is one action; the list is the sequence of *)
(* its cells, the one that d->entry points to first.                       *)
(***************************************************************************)
EXTENDS Naturals, Sequences, FiniteSetsExt

CONSTANTS Key, Value, NULL, MaxLen
VARIABLES entry, answer
vars == << entry, answer >>

dictionary_init == entry = << >> /\ answer = [op |-> "none", ret |-> NULL]

Answer(op, r) == answer' = [op |-> op, ret |-> r]
\* The loops stop at the first cell with the key.
Matches(k) == {i \in DOMAIN entry : entry[i].key = k}
ValueOf(k) == IF Matches(k) = {} THEN NULL ELSE entry[Min(Matches(k))].value

AddAlways(k, v, op, exists) ==      \* mutant: the key is not looked up
  /\ Len(entry) < MaxLen
  /\ entry' = << [key |-> k, value |-> v] >> \o entry
  /\ Answer(op, "0")

AddWith(k, v, op, exists) ==
  \/ ValueOf(k) # NULL /\ entry' = entry /\ Answer(op, exists)
  \/ /\ ValueOf(k) = NULL /\ Len(entry) < MaxLen
     /\ entry' = << [key |-> k, value |-> v] >> \o entry
     /\ Answer(op, "0")

dictionary_add(k, v) == AddWith(k, v, "add", "KEY_EXISTS")

\* text.colon: what follows the first colon that is not the first
\* character.  What dictionary_add returns is not looked at.
dictionary_parse(text) ==
  \/ (text.key = NULL \/ text.colon # "space") /\ entry' = entry /\ Answer("parse", "ILLEGAL_FORMAT")
  \/ text.key # NULL /\ text.colon = "space" /\ AddWith(text.key, text.value, "parse", "0")

dictionary_get(k) == entry' = entry /\ Answer("get", ValueOf(k))

dictionary_remove(k) ==
  \/ Matches(k) = {} /\ entry' = entry /\ Answer("remove", "NO_KEY_EXISTS")
  \/ /\ Matches(k) # {}
     /\ LET i == Min(Matches(k))
        IN  entry' = SubSeq(entry, 1, i - 1) \o SubSeq(entry, i + 1, Len(entry))
     /\ Answer("remove", "0")

dictionary_destroy == entry' = << >> /\ answer' = answer

Texts == [key : Key \cup {NULL}, value : Value, colon : {"space", "other", "none"}]
Next == \/ \E k \in Key, v \in Value : dictionary_add(k, v)
        \/ \E text \in Texts : dictionary_parse(text)
        \/ \E k \in Key : dictionary_get(k) \/ dictionary_remove(k)
        \/ dictionary_destroy

Spec == dictionary_init /\ [][Next]_vars
-----------------------------------------------------------------------------
Map == [k \in Key |-> ValueOf(k)]
Promise == INSTANCE Dictionary WITH Thread <- {1}, map <- Map, answer <- << answer >>

(* The whole promise, with what the comment of dictionary_parse says that  *)
(* it returns when "the dictionary already contains a key with the same    *)
(* name": KEY_EXISTS.                                                      *)
ImplementsDictionary == Promise!Spec

\* What it returns instead.
ParseOfExisting == (\E k \in Key : ValueOf(k) # NULL) /\ Map' = Map /\ answer' = [op |-> "parse", ret |-> "0"]

(* But for the answer to a parse whose key exists, the list implements the *)
(* map: a cell is only added in front when no cell has its key, so that    *)
(* the first match of every loop is the only one, and what remove unlinks  *)
(* does not come back.                                                     *)
ImplementsAllButParse ==
  Promise!Init /\ [][Promise!Next \/ ParseOfExisting]_<< Map, << answer >> >>
=============================================================================
