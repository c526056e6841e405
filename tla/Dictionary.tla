----------------------------- MODULE Dictionary -----------------------------
(***************************************************************************)
(* What both libdictionary libraries promise: a partial function from keys *)
(* to values, and calls that take effect at once.  A call of parse is one  *)
(* of add when its text is legal.                                          *)
(***************************************************************************)
CONSTANTS Thread, Key, Value, NULL
VARIABLES map,      \* the value of each key, or NULL
          answer    \* what the last call of each thread returned

Init == /\ map = [k \in Key |-> NULL]
        /\ answer = [t \in Thread |-> [op |-> "none", ret |-> NULL]]

Answer(t, op, r) == answer' = [answer EXCEPT ![t] = [op |-> op, ret |-> r]]

Add(t, op) == \E k \in Key, v \in Value :
  \/ map[k] = NULL /\ map' = [map EXCEPT ![k] = v] /\ Answer(t, op, "0")
  \/ map[k] # NULL /\ map' = map /\ Answer(t, op, "KEY_EXISTS")
Parse(t) == \/ Add(t, "parse")
            \/ map' = map /\ Answer(t, "parse", "ILLEGAL_FORMAT")
Get(t) == \E k \in Key : map' = map /\ Answer(t, "get", map[k])
Remove(t) == \E k \in Key :
  \/ map[k] = NULL /\ map' = map /\ Answer(t, "remove", "NO_KEY_EXISTS")
  \/ map[k] # NULL /\ map' = [map EXCEPT ![k] = NULL] /\ Answer(t, "remove", "0")
\* The last call.
Destroy == map' = [k \in Key |-> NULL] /\ answer' = answer

Next == \/ \E t \in Thread : Add(t, "add") \/ Parse(t) \/ Get(t) \/ Remove(t)
        \/ Destroy
Spec == Init /\ [][Next]_<< map, answer >>
=============================================================================
