------------------------- MODULE AssignmentsProofs --------------------------
(***************************************************************************)
(* The libraries of the assignments implement what they promise, for any   *)
(* keys, values, threads and addresses: the tree of mp8 that threads share *)
(* and the list of mp1 are dictionaries, the linked lists of mp6 and mp5   *)
(* are sequences, the shell of mp3 runs what its log holds, the heaps of   *)
(* mp2 and ds2 lose no block, and the server of ds11 answers each message  *)
(* once.  For each: an inductive invariant, a lemma for each action (it    *)
(* keeps the invariant and takes a step of the promise or none), and the   *)
(* theorem.  A step of the composition is one of the library's, or leaves  *)
(* it alone.                                                               *)
(***************************************************************************)
EXTENDS Assignments, FoldProofs, FiniteSetTheorems

\* A step of the composition is one of the tree, or leaves it alone.
LEMMA TreeMoves == [Next]_vars => mp8!Next \/ UNCHANGED mapOfTree
BY DEF Next, vars, Heap2, Heap1, List, Tree, Sort, PriQueue, Queue, Shell, Echo, Store

TreeCalls == [op : {"none", "add", "parse", "get", "remove"}, key : SharedKey \cup {NULL}, value : Value \cup {NULL}]

TreeTypeOK ==
  /\ root \in [SharedKey -> Entry \cup {NULL}] /\ stored \in [Entry -> Value \cup {NULL}]
  /\ live \in SUBSET Entry /\ mutex \in Thread \cup {NULL}
  /\ thread_pc \in [Thread -> {"idle", "lock", "locked", "read"}]
  /\ call \in [Thread -> TreeCalls] /\ entry \in [Thread -> Entry \cup {NULL}]
  /\ DOMAIN answer = Thread

\* The tree: its entries are the allocated ones, one for each key, and have a
\* value.
TreeSound ==
  /\ live = {root[k] : k \in SharedKey} \ {NULL}
  /\ \A k, m \in SharedKey : root[k] = root[m] /\ root[k] # NULL => k = m
  /\ \A k \in SharedKey : root[k] # NULL => stored[root[k]] \in Value

\* A thread between the look-up and the unlock holds the mutex, so that what it
\* has found is what the tree has.
CallSound(t) ==
  /\ thread_pc[t] # "idle" => /\ call[t].key \in SharedKey /\ call[t].op # "none"
                              /\ call[t].op \in {"add", "parse"} => call[t].value \in Value
  /\ thread_pc[t] = "locked" <=> mutex = t
  /\ thread_pc[t] = "locked" => entry[t] = root[call[t].key]
  /\ thread_pc[t] = "read" => call[t].op = "get" /\ entry[t] \in Entry

TreeInv == TreeTypeOK /\ TreeSound /\ \A t \in Thread : CallSound(t)

LEMMA TreeStarts == Init => TreeInv /\ mp8!Promise!Init
<1> SUFFICES ASSUME Init PROVE TreeInv /\ mp8!Promise!Init
  OBVIOUS
<1> USE NullAssumption
<1>1. mp8!dictionary_init
  BY DEF Init
<1>2. TreeInv
  BY <1>1 DEF mp8!dictionary_init, mp8!NoCall, TreeInv, TreeTypeOK, TreeSound, CallSound, TreeCalls
<1>3. mp8!Promise!Init
  BY <1>1 DEF mp8!dictionary_init, mp8!Promise!Init, mp8!ValueOf
<1> QED BY <1>2, <1>3

TreeMap == [k \in SharedKey |-> mp8!ValueOf(k)]
TreeMapStep == [mp8!Promise!Next]_<< TreeMap, answer >>

\* A step of t leaves the calls of the others alone.
TreeOthers(t) ==
  /\ thread_pc' = [thread_pc EXCEPT ![t] = thread_pc'[t]]
  /\ call' = [call EXCEPT ![t] = call'[t]]
  /\ entry' = [entry EXCEPT ![t] = entry'[t]]
  /\ mutex' = mutex \/ (mutex = NULL /\ mutex' = t) \/ (mutex = t /\ mutex' = NULL)
  /\ root' = root \/ mutex = t

LEMMA TreeOthersSound ==
  ASSUME TreeInv, NEW t \in Thread, TreeOthers(t), CallSound(t)'
  PROVE  \A u \in Thread : CallSound(u)'
<1> USE NullAssumption
<1> SUFFICES ASSUME NEW u \in Thread, u # t PROVE CallSound(u)'
  OBVIOUS
<1>1. thread_pc'[u] = thread_pc[u] /\ call'[u] = call[u] /\ entry'[u] = entry[u]
  BY DEF TreeOthers, TreeInv, TreeTypeOK
<1>2. mutex' = u <=> mutex = u
  BY DEF TreeOthers
<1>3. mutex = u => root' = root
  BY DEF TreeOthers
<1> QED BY <1>1, <1>2, <1>3 DEF TreeInv, CallSound

\* A step that leaves the tree alone.
LEMMA TreeSame ==
  ASSUME TreeInv, NEW t \in Thread, UNCHANGED << root, stored, live >>, TreeOthers(t),
         thread_pc'[t] \in {"idle", "lock", "locked", "read"}, call'[t] \in TreeCalls,
         entry'[t] \in Entry \cup {NULL}, DOMAIN answer' = Thread, CallSound(t)'
  PROVE  TreeInv' /\ TreeMap' = TreeMap
<1>1. TreeTypeOK'
  BY DEF TreeInv, TreeTypeOK, TreeOthers
<1>2. TreeSound'
  BY DEF TreeInv, TreeSound
<1>3. TreeMap' = TreeMap
  BY DEF TreeMap, mp8!ValueOf
<1> QED BY <1>1, <1>2, <1>3, TreeOthersSound DEF TreeInv

LEMMA TreeParseIllegal ==
  ASSUME TreeInv, NEW t \in Thread, mp8!ParseIllegal(t)  PROVE TreeInv' /\ TreeMapStep
<1>1. /\ answer' = [answer EXCEPT ![t] = [op |-> "parse", ret |-> "ILLEGAL_FORMAT"]]
      /\ UNCHANGED << root, stored, live, mutex, thread_pc, call, entry >>
  BY DEF mp8!ParseIllegal
<1>2. TreeOthers(t) /\ CallSound(t)' /\ DOMAIN answer' = Thread
  BY <1>1 DEF TreeInv, TreeTypeOK, TreeOthers, CallSound
<1>3. TreeInv' /\ TreeMap' = TreeMap
  BY <1>1, <1>2, TreeSame DEF TreeInv, TreeTypeOK
<1>4. mp8!Promise!Parse(t)
  BY <1>1, <1>3 DEF mp8!Promise!Parse, mp8!Promise!Answer, TreeMap
<1> QED BY <1>3, <1>4 DEF TreeMapStep, mp8!Promise!Next

LEMMA TreeCall ==
  ASSUME TreeInv, NEW t \in Thread, NEW op \in {"add", "parse", "get", "remove"}, NEW k \in SharedKey,
         NEW v \in Value \cup {NULL}, op \in {"add", "parse"} => v \in Value, mp8!Call(t, op, k, v)
  PROVE  TreeInv' /\ TreeMapStep
<1> USE NullAssumption
<1>1. /\ thread_pc[t] = "idle" /\ thread_pc' = [thread_pc EXCEPT ![t] = "lock"]
      /\ call' = [call EXCEPT ![t] = [op |-> op, key |-> k, value |-> v]]
      /\ UNCHANGED << root, stored, live, mutex, entry, answer >>
  BY DEF mp8!Call, mp8!Goto
<1>2. thread_pc'[t] = "lock" /\ call'[t] = [op |-> op, key |-> k, value |-> v] /\ entry'[t] = entry[t]
  BY <1>1 DEF TreeInv, TreeTypeOK
<1>3. call'[t] \in TreeCalls /\ TreeOthers(t)
  BY <1>1, <1>2 DEF TreeInv, TreeTypeOK, TreeOthers, TreeCalls
<1>4. CallSound(t)'
  BY <1>1, <1>2 DEF TreeInv, TreeTypeOK, CallSound
<1>5. TreeInv' /\ TreeMap' = TreeMap
  BY <1>1, <1>2, <1>3, <1>4, TreeSame DEF TreeInv, TreeTypeOK
<1> QED BY <1>1, <1>5 DEF TreeMapStep

LEMMA TreeLock ==
  ASSUME TreeInv, NEW t \in Thread, mp8!LockAndFind(t)  PROVE TreeInv' /\ TreeMapStep
<1> USE NullAssumption
<1>1. /\ thread_pc[t] = "lock" /\ mutex = NULL /\ mutex' = t
      /\ thread_pc' = [thread_pc EXCEPT ![t] = "locked"]
      /\ entry' = [entry EXCEPT ![t] = root[call[t].key]]
      /\ UNCHANGED << root, stored, live, call, answer >>
  BY DEF mp8!LockAndFind, mp8!Goto
<1>2. thread_pc'[t] = "locked" /\ call'[t] = call[t] /\ entry'[t] = root[call[t].key]
  BY <1>1 DEF TreeInv, TreeTypeOK
<1>3. call[t].key \in SharedKey /\ root[call[t].key] \in Entry \cup {NULL}
  BY <1>1 DEF TreeInv, TreeTypeOK, CallSound
<1>4. call'[t] \in TreeCalls /\ TreeOthers(t)
  BY <1>1, <1>2 DEF TreeInv, TreeTypeOK, TreeOthers
<1>5. CallSound(t)'
  BY <1>1, <1>2 DEF TreeInv, CallSound
<1>6. TreeInv' /\ TreeMap' = TreeMap
  BY <1>1, <1>2, <1>3, <1>4, <1>5, TreeSame DEF TreeInv, TreeTypeOK
<1> QED BY <1>1, <1>6 DEF TreeMapStep

\* The thread unlocks and leaves.
LEMMA TreeLeaves ==
  ASSUME TreeInv, NEW t \in Thread, thread_pc[t] \in {"locked", "read"}, mp8!Leave(t),
         mutex' = IF mutex = t THEN NULL ELSE mutex
  PROVE  /\ CallSound(t)' /\ thread_pc'[t] = "idle" /\ call'[t] \in TreeCalls /\ entry'[t] = NULL
         /\ (root' = root \/ mutex = t) => TreeOthers(t)
<1> USE NullAssumption
<1>1. /\ thread_pc' = [thread_pc EXCEPT ![t] = "idle"] /\ entry' = [entry EXCEPT ![t] = NULL]
      /\ call' = [call EXCEPT ![t] = [op |-> "none", key |-> NULL, value |-> NULL]]
  BY DEF mp8!Leave, mp8!Goto, mp8!NoCall
<1>2. thread_pc'[t] = "idle" /\ entry'[t] = NULL /\ call'[t] = [op |-> "none", key |-> NULL, value |-> NULL]
  BY <1>1 DEF TreeInv, TreeTypeOK
<1>3. call'[t] \in TreeCalls
  BY <1>2 DEF TreeCalls
<1>4. CallSound(t)'
  BY <1>2 DEF CallSound
<1>5. /\ thread_pc' = [thread_pc EXCEPT ![t] = thread_pc'[t]]
      /\ call' = [call EXCEPT ![t] = call'[t]] /\ entry' = [entry EXCEPT ![t] = entry'[t]]
  BY <1>1, <1>2
<1>6. mutex' = mutex \/ (mutex = t /\ mutex' = NULL)
  OBVIOUS
<1>7. (root' = root \/ mutex = t) => TreeOthers(t)
  BY <1>5, <1>6 DEF TreeOthers
<1> QED BY <1>2, <1>3, <1>4, <1>7

\* The two calls that answer without changing the tree.
LEMMA TreeAnswers ==
  ASSUME TreeInv, NEW t \in Thread, thread_pc[t] \in {"locked", "read"}, mp8!Leave(t),
         mutex' = (IF mutex = t THEN NULL ELSE mutex), UNCHANGED << root, stored, live >>,
         DOMAIN answer' = DOMAIN answer
  PROVE  TreeInv' /\ TreeMap' = TreeMap
<1>1. /\ CallSound(t)' /\ thread_pc'[t] = "idle" /\ call'[t] \in TreeCalls
      /\ entry'[t] = NULL /\ TreeOthers(t)
  BY TreeLeaves
<1> QED BY <1>1, TreeSame DEF TreeInv, TreeTypeOK

LEMMA TreeGet ==
  ASSUME TreeInv, NEW t \in Thread, mp8!dictionary_get(t)  PROVE TreeInv' /\ TreeMapStep
<1> USE NullAssumption
<1>1. /\ thread_pc[t] = "locked" /\ call[t].op = "get" /\ mutex' = NULL /\ mutex = t
      /\ UNCHANGED << root, stored, live >> /\ call[t].key \in SharedKey /\ entry[t] = root[call[t].key]
  BY DEF mp8!dictionary_get, TreeInv, CallSound
<1>2. CASE entry[t] = NULL /\ mp8!Answer(t, NULL) /\ mp8!Leave(t)
  <2>1. answer' = [answer EXCEPT ![t] = [op |-> "get", ret |-> NULL]]
    BY <1>1, <1>2 DEF mp8!Answer
  <2>2. TreeInv' /\ TreeMap' = TreeMap
    BY <1>1, <1>2, <2>1, TreeAnswers
  <2>3. TreeMap[call[t].key] = NULL
    BY <1>1, <1>2 DEF TreeMap, mp8!ValueOf
  <2>4. mp8!Promise!Get(t)
    BY <1>1, <2>1, <2>2, <2>3 DEF mp8!Promise!Get, mp8!Promise!Answer, TreeMap
  <2> QED BY <2>2, <2>4 DEF TreeMapStep, mp8!Promise!Next
<1>3. CASE entry[t] # NULL /\ mp8!Goto(t, "read") /\ UNCHANGED << call, entry, answer >>
  <2>1. thread_pc' = [thread_pc EXCEPT ![t] = "read"] /\ thread_pc'[t] = "read"
    BY <1>3 DEF mp8!Goto, TreeInv, TreeTypeOK
  <2>2. TreeOthers(t)
    BY <1>1, <1>3, <2>1 DEF TreeOthers, TreeInv, TreeTypeOK
  <2>3. entry[t] \in Entry /\ CallSound(t)'
    BY <1>1, <1>3, <2>1 DEF TreeInv, TreeTypeOK, CallSound
  <2>4. TreeInv' /\ TreeMap' = TreeMap
    BY <1>1, <1>3, <2>1, <2>2, <2>3, TreeSame DEF TreeInv, TreeTypeOK
  <2> QED BY <1>3, <2>4 DEF TreeMapStep
<1> QED BY <1>2, <1>3 DEF mp8!dictionary_get

LEMMA TreeGetReturns ==
  ASSUME TreeInv, NEW t \in Thread, mp8!dictionary_get_returns(t)  PROVE TreeInv' /\ TreeMapStep
<1> USE NullAssumption
<1>1. /\ thread_pc[t] = "read" /\ call[t].op = "get" /\ call[t].key \in SharedKey /\ mp8!Leave(t)
      /\ UNCHANGED << root, stored, live, mutex >> /\ entry[t] \in Entry /\ mutex # t
  BY DEF mp8!dictionary_get_returns, TreeInv, CallSound
<1>2. CASE answer' = answer
  BY <1>1, <1>2, TreeAnswers DEF TreeMapStep
<1>3. CASE root[call[t].key] = entry[t] /\ mp8!Answer(t, stored[entry[t]])
  <2>1. answer' = [answer EXCEPT ![t] = [op |-> "get", ret |-> stored[entry[t]]]]
    BY <1>1, <1>3 DEF mp8!Answer
  <2>2. TreeInv' /\ TreeMap' = TreeMap
    BY <1>1, <2>1, TreeAnswers
  <2>3. TreeMap[call[t].key] = stored[entry[t]]
    BY <1>1, <1>3 DEF TreeMap, mp8!ValueOf
  <2>4. mp8!Promise!Get(t)
    BY <1>1, <2>1, <2>2, <2>3 DEF mp8!Promise!Get, mp8!Promise!Answer, TreeMap
  <2> QED BY <2>2, <2>4 DEF TreeMapStep, mp8!Promise!Next
<1> QED BY <1>2, <1>3 DEF mp8!dictionary_get_returns

\* What holds when a thread is to act on the entry it has found.
LEMMA TreeHolder ==
  ASSUME TreeInv, NEW t \in Thread, thread_pc[t] = "locked"
  PROVE  /\ mutex = t /\ call[t].key \in SharedKey /\ entry[t] = root[call[t].key]
         /\ call[t].op \in {"add", "parse"} => call[t].value \in Value
BY DEF TreeInv, CallSound

LEMMA TreeKeyExists ==
  ASSUME TreeInv, NEW t \in Thread, thread_pc[t] = "locked", call[t].op \in {"add", "parse"},
         entry[t] # NULL, mp8!Answer(t, "KEY_EXISTS"), UNCHANGED << root, stored, live >>,
         mutex' = NULL, mp8!Leave(t)
  PROVE  TreeInv' /\ TreeMapStep
<1> USE NullAssumption
<1>1. answer' = [answer EXCEPT ![t] = [op |-> call[t].op, ret |-> "KEY_EXISTS"]]
  BY DEF mp8!Answer
<1>2. TreeInv' /\ TreeMap' = TreeMap
  BY <1>1, TreeAnswers, TreeHolder
<1> DEFINE k == call[t].key  v == call[t].value
<1>3. k \in SharedKey /\ v \in Value /\ TreeMap[k] # NULL
  BY TreeHolder DEF TreeMap, mp8!ValueOf, TreeInv, TreeSound
<1>4. mp8!Promise!Add(t, call[t].op)
  BY <1>1, <1>2, <1>3 DEF mp8!Promise!Add, mp8!Promise!Answer, TreeMap
<1> QED BY <1>2, <1>4 DEF TreeMapStep, mp8!Promise!Next, mp8!Promise!Parse

LEMMA TreeNew ==
  ASSUME TreeInv, NEW t \in Thread, thread_pc[t] = "locked", call[t].op \in {"add", "parse"},
         entry[t] = NULL, NEW n \in Entry \ live, live' = live \cup {n},
         stored' = [stored EXCEPT ![n] = call[t].value],
         root' = [root EXCEPT ![call[t].key] = IF @ = NULL THEN n ELSE @],
         mp8!Answer(t, "0"), mutex' = NULL, mp8!Leave(t)
  PROVE  TreeInv' /\ TreeMapStep
<1> USE NullAssumption
<1> DEFINE k == call[t].key  v == call[t].value
<1>1. k \in SharedKey /\ v \in Value /\ root[k] = NULL /\ mutex = t
  BY TreeHolder
<1>2. root' = [root EXCEPT ![k] = n] /\ root \in [SharedKey -> Entry \cup {NULL}]
  BY <1>1 DEF TreeInv, TreeTypeOK
<1>3. \A m \in SharedKey : root'[m] = IF m = k THEN n ELSE root[m]
  BY <1>1, <1>2
<1>4. \A m \in SharedKey : root[m] # n
  BY DEF TreeInv, TreeSound, TreeTypeOK
<1>5. \A e \in Entry : stored'[e] = IF e = n THEN v ELSE stored[e]
  BY DEF TreeInv, TreeTypeOK
<1>6. live' = {root'[m] : m \in SharedKey} \ {NULL}
  <2>1. {root'[m] : m \in SharedKey} = {root[m] : m \in SharedKey \ {k}} \cup {n}
    BY <1>1, <1>3
  <2>2. live = {root[m] : m \in SharedKey \ {k}} \ {NULL}
    BY <1>1 DEF TreeInv, TreeSound
  <2> QED BY <2>1, <2>2
<1>7. TreeSound'
  <2>1. \A l, m \in SharedKey : root'[l] = root'[m] /\ root'[l] # NULL => l = m
    BY <1>3, <1>4 DEF TreeInv, TreeSound
  <2>2. \A m \in SharedKey : root'[m] # NULL => stored'[root'[m]] \in Value
    BY <1>1, <1>2, <1>3, <1>4, <1>5 DEF TreeInv, TreeSound
  <2> QED BY <1>6, <2>1, <2>2 DEF TreeSound
<1>8. CallSound(t)' /\ call'[t] \in TreeCalls /\ thread_pc'[t] = "idle" /\ entry'[t] = NULL /\ TreeOthers(t)
  BY <1>1, TreeLeaves
<1>9. answer' = [answer EXCEPT ![t] = [op |-> call[t].op, ret |-> "0"]]
  BY DEF mp8!Answer
<1>10. TreeTypeOK'
  <2>1. root' \in [SharedKey -> Entry \cup {NULL}]
    BY <1>1, <1>2
  <2>5. live' \in SUBSET Entry /\ mutex' \in Thread \cup {NULL}
    BY DEF TreeInv, TreeTypeOK
  <2>2. stored' \in [Entry -> Value \cup {NULL}] /\ DOMAIN answer' = Thread
    BY <1>1, <1>9 DEF TreeInv, TreeTypeOK
  <2>3. thread_pc' \in [Thread -> {"idle", "lock", "locked", "read"}]
    BY <1>8 DEF TreeInv, TreeTypeOK, TreeOthers
  <2>4. call' \in [Thread -> TreeCalls] /\ entry' \in [Thread -> Entry \cup {NULL}]
    BY <1>8 DEF TreeInv, TreeTypeOK, TreeOthers
  <2> QED BY <2>1, <2>2, <2>3, <2>4, <2>5 DEF TreeTypeOK
<1>11. TreeInv'
  BY <1>7, <1>8, <1>10, TreeOthersSound DEF TreeInv
<1>12. TreeMap' = [TreeMap EXCEPT ![k] = v] /\ TreeMap[k] = NULL
  <2>1. \A m \in SharedKey : TreeMap'[m] = IF m = k THEN v ELSE TreeMap[m]
    BY <1>2, <1>3, <1>4, <1>5 DEF TreeMap, mp8!ValueOf
  <2>2. TreeMap[k] = NULL
    BY <1>1 DEF TreeMap, mp8!ValueOf
  <2>3. TreeMap' = [m \in SharedKey |-> TreeMap'[m]]
    BY DEF TreeMap
  <2>4. [TreeMap EXCEPT ![k] = v] = [m \in SharedKey |-> IF m = k THEN v ELSE TreeMap[m]]
    BY DEF TreeMap
  <2> QED BY <2>1, <2>2, <2>3, <2>4
<1>13. mp8!Promise!Add(t, call[t].op)
  BY <1>1, <1>9, <1>12 DEF mp8!Promise!Add, mp8!Promise!Answer, TreeMap
<1> QED BY <1>11, <1>13 DEF TreeMapStep, mp8!Promise!Next, mp8!Promise!Parse

LEMMA TreeAdd ==
  ASSUME TreeInv, NEW t \in Thread, mp8!dictionary_add(t)  PROVE TreeInv' /\ TreeMapStep
BY TreeKeyExists, TreeNew DEF mp8!dictionary_add

LEMMA TreeRemoveNone ==
  ASSUME TreeInv, NEW t \in Thread, thread_pc[t] = "locked", call[t].op = "remove",
         entry[t] = NULL, mp8!Answer(t, "NO_KEY_EXISTS"), UNCHANGED << root, stored, live >>,
         mutex' = NULL, mp8!Leave(t)
  PROVE  TreeInv' /\ TreeMapStep
<1> USE NullAssumption
<1>1. answer' = [answer EXCEPT ![t] = [op |-> "remove", ret |-> "NO_KEY_EXISTS"]]
  BY DEF mp8!Answer
<1>2. TreeInv' /\ TreeMap' = TreeMap
  BY <1>1, TreeAnswers, TreeHolder
<1>3. call[t].key \in SharedKey /\ TreeMap[call[t].key] = NULL
  BY TreeHolder DEF TreeMap, mp8!ValueOf
<1>4. mp8!Promise!Remove(t)
  BY <1>1, <1>2, <1>3 DEF mp8!Promise!Remove, mp8!Promise!Answer, TreeMap
<1> QED BY <1>2, <1>4 DEF TreeMapStep, mp8!Promise!Next

LEMMA TreeRemoveOne ==
  ASSUME TreeInv, NEW t \in Thread, thread_pc[t] = "locked", call[t].op = "remove",
         entry[t] # NULL, root' = [root EXCEPT ![call[t].key] = NULL],
         live' = live \ {entry[t]}, stored' = [stored EXCEPT ![entry[t]] = NULL],
         mp8!Answer(t, "0"), mutex' = NULL, mp8!Leave(t)
  PROVE  TreeInv' /\ TreeMapStep
<1> USE NullAssumption
<1> DEFINE k == call[t].key  n == entry[t]
<1>1. k \in SharedKey /\ root[k] = n /\ mutex = t /\ n \in Entry
  BY TreeHolder DEF TreeInv, TreeTypeOK
<1>2. root \in [SharedKey -> Entry \cup {NULL}]
  BY DEF TreeInv, TreeTypeOK
<1>3. \A m \in SharedKey : root'[m] = IF m = k THEN NULL ELSE root[m]
  BY <1>1, <1>2
<1>4. \A m \in SharedKey : m # k => root[m] # n
  BY <1>1 DEF TreeInv, TreeSound
<1>5. \A e \in Entry : stored'[e] = IF e = n THEN NULL ELSE stored[e]
  BY DEF TreeInv, TreeTypeOK
<1>6. live' = {root'[m] : m \in SharedKey} \ {NULL}
  <2>1. {root'[m] : m \in SharedKey} = {root[m] : m \in SharedKey \ {k}} \cup {NULL}
    BY <1>1, <1>3
  <2>2. live = ({root[m] : m \in SharedKey \ {k}} \cup {n}) \ {NULL}
    BY <1>1 DEF TreeInv, TreeSound
  <2>3. n \notin {root[m] : m \in SharedKey \ {k}}
    BY <1>4
  <2> QED BY <2>1, <2>2, <2>3
<1>7. TreeSound'
  <2>1. \A l, m \in SharedKey : root'[l] = root'[m] /\ root'[l] # NULL => l = m
    BY <1>3 DEF TreeInv, TreeSound
  <2>2. \A m \in SharedKey : root'[m] # NULL => stored'[root'[m]] \in Value
    BY <1>1, <1>2, <1>3, <1>4, <1>5 DEF TreeInv, TreeSound
  <2> QED BY <1>6, <2>1, <2>2 DEF TreeSound
<1>8. CallSound(t)' /\ call'[t] \in TreeCalls /\ thread_pc'[t] = "idle" /\ entry'[t] = NULL /\ TreeOthers(t)
  BY <1>1, TreeLeaves
<1>9. answer' = [answer EXCEPT ![t] = [op |-> "remove", ret |-> "0"]]
  BY DEF mp8!Answer
<1>10. TreeTypeOK'
  <2>1. root' \in [SharedKey -> Entry \cup {NULL}]
    BY <1>1, <1>2
  <2>5. live' \in SUBSET Entry /\ mutex' \in Thread \cup {NULL}
    BY DEF TreeInv, TreeTypeOK
  <2>2. stored' \in [Entry -> Value \cup {NULL}] /\ DOMAIN answer' = Thread
    BY <1>1, <1>9 DEF TreeInv, TreeTypeOK
  <2>3. thread_pc' \in [Thread -> {"idle", "lock", "locked", "read"}]
    BY <1>8 DEF TreeInv, TreeTypeOK, TreeOthers
  <2>4. call' \in [Thread -> TreeCalls] /\ entry' \in [Thread -> Entry \cup {NULL}]
    BY <1>8 DEF TreeInv, TreeTypeOK, TreeOthers
  <2> QED BY <2>1, <2>2, <2>3, <2>4, <2>5 DEF TreeTypeOK
<1>11. TreeInv'
  BY <1>7, <1>8, <1>10, TreeOthersSound DEF TreeInv
<1>12. TreeMap' = [TreeMap EXCEPT ![k] = NULL] /\ TreeMap[k] # NULL
  <2>1. \A m \in SharedKey : TreeMap'[m] = IF m = k THEN NULL ELSE TreeMap[m]
    BY <1>2, <1>3, <1>4, <1>5 DEF TreeMap, mp8!ValueOf
  <2>2. TreeMap[k] # NULL
    BY <1>1 DEF TreeMap, mp8!ValueOf, TreeInv, TreeSound
  <2>3. TreeMap' = [m \in SharedKey |-> TreeMap'[m]]
    BY DEF TreeMap
  <2>4. [TreeMap EXCEPT ![k] = NULL] = [m \in SharedKey |-> IF m = k THEN NULL ELSE TreeMap[m]]
    BY DEF TreeMap
  <2> QED BY <2>1, <2>2, <2>3, <2>4
<1>13. mp8!Promise!Remove(t)
  BY <1>1, <1>9, <1>12 DEF mp8!Promise!Remove, mp8!Promise!Answer, TreeMap
<1> QED BY <1>11, <1>13 DEF TreeMapStep, mp8!Promise!Next

LEMMA TreeRemove ==
  ASSUME TreeInv, NEW t \in Thread, mp8!dictionary_remove(t)  PROVE TreeInv' /\ TreeMapStep
BY TreeRemoveNone, TreeRemoveOne DEF mp8!dictionary_remove

LEMMA TreeDestroy ==
  ASSUME TreeInv, mp8!dictionary_destroy_all  PROVE TreeInv' /\ TreeMapStep
<1> USE NullAssumption
<1>1. /\ \A t \in Thread : thread_pc[t] = "idle"
      /\ live' = live \ {root[k] : k \in SharedKey} /\ root' = [k \in SharedKey |-> NULL]
      /\ UNCHANGED << stored, mutex, thread_pc, call, entry, answer >>
  BY DEF mp8!dictionary_destroy_all
<1>2. live' = {}
  BY <1>1 DEF TreeInv, TreeSound
<1>3. TreeTypeOK' /\ TreeSound'
  BY <1>1, <1>2 DEF TreeInv, TreeTypeOK, TreeSound
<1>4. \A t \in Thread : CallSound(t)'
  BY <1>1 DEF TreeInv, CallSound
<1>5. TreeMap' = [k \in SharedKey |-> NULL]
  BY <1>1 DEF TreeMap, mp8!ValueOf
<1> QED BY <1>1, <1>3, <1>4, <1>5 DEF TreeInv, TreeMapStep, mp8!Promise!Next, mp8!Promise!Destroy, TreeMap

LEMMA TreeSteps == TreeInv /\ [Next]_vars => TreeInv' /\ TreeMapStep
<1> SUFFICES ASSUME TreeInv, [Next]_vars PROVE TreeInv' /\ TreeMapStep
  OBVIOUS
<1>1. CASE UNCHANGED mapOfTree
  BY <1>1 DEF mapOfTree, TreeInv, TreeTypeOK, TreeSound, CallSound, TreeMapStep, TreeMap, mp8!ValueOf
<1>2. CASE mp8!Calls
  <2>1. PICK t \in Thread :
          \/ \E op \in {"add", "parse"}, k \in SharedKey, v \in Value : mp8!Call(t, op, k, v)
          \/ \E op \in {"get", "remove"}, k \in SharedKey : mp8!Call(t, op, k, NULL)
          \/ mp8!ParseIllegal(t) \/ mp8!LockAndFind(t)
          \/ mp8!dictionary_add(t) \/ mp8!dictionary_remove(t)
          \/ mp8!dictionary_get(t) \/ mp8!dictionary_get_returns(t)
    BY <1>2 DEF mp8!Calls
  <2>2. CASE \E op \in {"add", "parse"}, k \in SharedKey, v \in Value : mp8!Call(t, op, k, v)
    BY <2>2, TreeCall
  <2>3. CASE \E op \in {"get", "remove"}, k \in SharedKey : mp8!Call(t, op, k, NULL)
    BY <2>3, TreeCall
  <2> QED BY <2>1, <2>2, <2>3, TreeParseIllegal, TreeLock, TreeAdd, TreeRemove, TreeGet, TreeGetReturns
<1>3. CASE mp8!dictionary_destroy_all
  BY <1>3, TreeDestroy
<1> QED BY <1>1, <1>2, <1>3, TreeMoves DEF mp8!Next

(* mp8/libs/libdictionary: whatever any number of threads call and however *)
(* they interleave, each call of the shared tree adds, finds or removes as *)
(* the map would, at one moment between its start and its return, and only *)
(* the entries that the tree has are allocated.                            *)
THEOREM TreeIsDictionary == Spec => TreeImplementsDictionary
<1>1. Init => TreeInv /\ mp8!Promise!Init
  BY TreeStarts
<1>2. TreeInv /\ [Next]_vars => TreeInv' /\ TreeMapStep
  BY TreeSteps
<1>3. TreeInv => live = {root[k] : k \in SharedKey} \ {NULL}
  BY DEF TreeInv, TreeSound
<1> QED BY <1>1, <1>2, <1>3, PTL DEF Spec, TreeImplementsDictionary, mp8!ImplementsDictionary, mp8!Promise!Spec, TreeMapStep, TreeMap
-----------------------------------------------------------------------------
\* The list: no two cells have the same key.
ListInv == /\ list_entry \in Seq(Cells(ListKey, Value)) /\ KeysApart(list_entry)
           /\ DOMAIN list_answer = {"op", "ret"}


ListMap == [k \in ListKey |-> mp1!ValueOf(k)]
ListMapStep == [mp1!Promise!Next \/ mp1!ParseOfExisting]_<< ListMap, << list_answer >> >>

LEMMA LookupIs ==
  /\ \A k : mp1!ValueOf(k) = Lookup(list_entry, k, NULL)
  /\ \A k : mp1!Matches(k) = {j \in DOMAIN list_entry : list_entry[j].key = k}
BY DEF mp1!ValueOf, mp1!Matches, Lookup, mp1!Min, Min

LEMMA ListMapIs == ListMap = MapOf(list_entry, ListKey, NULL) /\ ListMap' = MapOf(list_entry', ListKey, NULL)
<1>1. ListMap = MapOf(list_entry, ListKey, NULL)
  BY LookupIs DEF ListMap, MapOf
<1>2. (ListMap = MapOf(list_entry, ListKey, NULL))'
  BY <1>1, PTL
<1> QED BY <1>1, <1>2 DEF MapOf

\* A call that leaves the list as it was.
LEMMA ListAnswers ==
  ASSUME ListInv, list_entry' = list_entry, NEW op, NEW r, mp1!Answer(op, r)
  PROVE  ListInv' /\ ListMap' = ListMap /\ mp1!Promise!Answer(1, op, r)
<1>1. list_answer' = [op |-> op, ret |-> r]
  BY DEF mp1!Answer
<1>2. ListInv'
  BY <1>1 DEF ListInv
<1>3. mp1!Promise!Answer(1, op, r)
  BY <1>1, OneAnswer DEF mp1!Promise!Answer
<1> QED BY <1>2, <1>3, ListMapIs

LEMMA ListAdd ==
  ASSUME ListInv, NEW k \in ListKey, NEW v \in Value, NEW op \in {"add", "parse"},
         NEW exists \in {"KEY_EXISTS", "0"}, op = "add" => exists = "KEY_EXISTS",
         mp1!AddWith(k, v, op, exists)
  PROVE  ListInv' /\ ListMapStep
<1> USE NullAssumption
<1>1. /\ list_entry \in Seq(Cells(ListKey, Value)) /\ KeysApart(list_entry)
      /\ ListMap[k] = Lookup(list_entry, k, NULL) /\ mp1!ValueOf(k) = Lookup(list_entry, k, NULL)
  BY LookupIs DEF ListInv, ListMap
<1>2. CASE mp1!ValueOf(k) # NULL /\ list_entry' = list_entry /\ mp1!Answer(op, exists)
  <2>1. ListInv' /\ ListMap' = ListMap /\ mp1!Promise!Answer(1, op, exists)
    BY <1>2, ListAnswers
  <2>2. CASE exists = "KEY_EXISTS"
    <3>1. mp1!Promise!Add(1, op)
      BY <1>1, <1>2, <2>1, <2>2 DEF mp1!Promise!Add, mp1!Map, ListMap
    <3> QED BY <2>1, <3>1 DEF ListMapStep, mp1!Promise!Next, mp1!Promise!Parse
  <2>3. CASE op = "parse" /\ exists = "0"
    <3>1. list_answer' = [op |-> "parse", ret |-> "0"]
      BY <1>2, <2>3 DEF mp1!Answer
    <3>2. mp1!ParseOfExisting
      BY <1>2, <2>1, <3>1 DEF mp1!ParseOfExisting, mp1!Map, ListMap
    <3> QED BY <2>1, <3>2 DEF ListMapStep
  <2> QED BY <2>2, <2>3
<1>3. CASE /\ mp1!ValueOf(k) = NULL
           /\ list_entry' = << [key |-> k, value |-> v] >> \o list_entry
           /\ mp1!Answer(op, "0")
  <2>1. /\ list_entry' \in Seq(Cells(ListKey, Value)) /\ KeysApart(list_entry')
        /\ MapOf(list_entry', ListKey, NULL) = [MapOf(list_entry, ListKey, NULL) EXCEPT ![k] = v]
    <3>1. Lookup(list_entry, k, NULL) = NULL /\ NULL \notin Value
      BY <1>1, <1>3
    <3>3. CellList(list_entry, ListKey, Value)
      BY <1>1 DEF CellList
    <3>2. /\ CellList(<< [key |-> k, value |-> v] >> \o list_entry, ListKey, Value)
          /\ MapOf(<< [key |-> k, value |-> v] >> \o list_entry, ListKey, NULL)
                = [MapOf(list_entry, ListKey, NULL) EXCEPT ![k] = v]
      BY <3>1, <3>3, AddInFront
    <3> QED BY <1>3, <3>2 DEF CellList
  <2>2. list_answer' = [op |-> op, ret |-> "0"]
    BY <1>3 DEF mp1!Answer
  <2>3. ListInv'
    BY <2>1, <2>2 DEF ListInv
  <2>4. mp1!Promise!Answer(1, op, "0")
    BY <2>2, OneAnswer DEF mp1!Promise!Answer
  <2>5. ListMap' = [ListMap EXCEPT ![k] = v] /\ ListMap[k] = NULL
    BY <1>1, <1>3, <2>1, ListMapIs
  <2>6. mp1!Promise!Add(1, op)
    BY <2>4, <2>5 DEF mp1!Promise!Add, mp1!Map, ListMap
  <2> QED BY <2>3, <2>6 DEF ListMapStep, mp1!Promise!Next, mp1!Promise!Parse
<1> QED BY <1>2, <1>3 DEF mp1!AddWith

LEMMA ListParse ==
  ASSUME ListInv, NEW text \in mp1!Texts, mp1!dictionary_parse(text)  PROVE ListInv' /\ ListMapStep
<1>1. CASE list_entry' = list_entry /\ mp1!Answer("parse", "ILLEGAL_FORMAT")
  <2>1. ListInv' /\ ListMap' = ListMap /\ mp1!Promise!Answer(1, "parse", "ILLEGAL_FORMAT")
    BY <1>1, ListAnswers
  <2>2. mp1!Promise!Parse(1)
    BY <2>1 DEF mp1!Promise!Parse, mp1!Map, ListMap
  <2> QED BY <2>1, <2>2 DEF ListMapStep, mp1!Promise!Next
<1>2. CASE text.key # NULL /\ mp1!AddWith(text.key, text.value, "parse", "0")
  <2>1. text.key \in ListKey /\ text.value \in Value
    BY <1>2 DEF mp1!Texts
  <2> QED BY <1>2, <2>1, ListAdd
<1> QED BY <1>1, <1>2 DEF mp1!dictionary_parse

LEMMA ListGet ==
  ASSUME ListInv, NEW k \in ListKey, mp1!dictionary_get(k)  PROVE ListInv' /\ ListMapStep
<1>1. /\ ListInv' /\ ListMap' = ListMap /\ mp1!Promise!Answer(1, "get", mp1!ValueOf(k))
      /\ ListMap[k] = mp1!ValueOf(k)
  BY ListAnswers DEF mp1!dictionary_get, ListMap
<1>2. mp1!Promise!Get(1)
  BY <1>1 DEF mp1!Promise!Get, mp1!Map, ListMap
<1> QED BY <1>1, <1>2 DEF ListMapStep, mp1!Promise!Next

LEMMA ListRemove ==
  ASSUME ListInv, NEW k \in ListKey, mp1!dictionary_remove(k)  PROVE ListInv' /\ ListMapStep
<1> USE NullAssumption
<1>1. /\ list_entry \in Seq(Cells(ListKey, Value)) /\ KeysApart(list_entry)
      /\ mp1!Matches(k) = {j \in DOMAIN list_entry : list_entry[j].key = k}
      /\ ListMap[k] = Lookup(list_entry, k, NULL)
  BY LookupIs DEF ListInv, ListMap
<1>2. CASE mp1!Matches(k) = {} /\ list_entry' = list_entry /\ mp1!Answer("remove", "NO_KEY_EXISTS")
  <2>1. ListInv' /\ ListMap' = ListMap /\ mp1!Promise!Answer(1, "remove", "NO_KEY_EXISTS")
    BY <1>2, ListAnswers
  <2>2. ListMap[k] = NULL
    BY <1>1, <1>2, LookupFinds
  <2>3. mp1!Promise!Remove(1)
    BY <2>1, <2>2 DEF mp1!Promise!Remove, mp1!Map, ListMap
  <2> QED BY <2>1, <2>3 DEF ListMapStep, mp1!Promise!Next
<1>3. CASE /\ mp1!Matches(k) # {} /\ list_entry' = RemoveAt(list_entry, mp1!Min(mp1!Matches(k)))
           /\ mp1!Answer("remove", "0")
  <2>1. PICK i \in DOMAIN list_entry : list_entry[i].key = k
    BY <1>1, <1>3
  <2>2. mp1!Matches(k) = {i} /\ Min({i}) = i /\ ListMap[k] \in Value
    <3>1. list_entry[i] \in Cells(ListKey, Value) /\ KeysApart(list_entry)
      BY <1>1
    <3>2. list_entry[i].value \in Value
      BY <3>1 DEF Cells
    <3>3. /\ {j \in DOMAIN list_entry : list_entry[j].key = k} = {i} /\ Min({i}) = i
          /\ Lookup(list_entry, k, NULL) = list_entry[i].value
      BY <2>1, <3>1, LookupFinds
    <3> QED BY <1>1, <3>2, <3>3
  <2>3. mp1!Min({i}) = i
    BY <2>2 DEF mp1!Min, Min
  <2>4. list_entry' = RemoveAt(list_entry, i)
    BY <1>3, <2>2, <2>3
  <2>5. /\ list_entry' \in Seq(Cells(ListKey, Value)) /\ KeysApart(list_entry')
        /\ MapOf(list_entry', ListKey, NULL) = [MapOf(list_entry, ListKey, NULL) EXCEPT ![k] = NULL]
    BY <1>1, <2>1, <2>4, TakeCellOut
  <2>6. list_answer' = [op |-> "remove", ret |-> "0"]
    BY <1>3 DEF mp1!Answer
  <2>7. ListInv'
    BY <2>5, <2>6 DEF ListInv
  <2>8. mp1!Promise!Answer(1, "remove", "0")
    BY <2>6, OneAnswer DEF mp1!Promise!Answer
  <2>9. ListMap' = [ListMap EXCEPT ![k] = NULL] /\ ListMap[k] # NULL
    BY <2>2, <2>5, ListMapIs
  <2>10. mp1!Promise!Remove(1)
    BY <2>8, <2>9 DEF mp1!Promise!Remove, mp1!Map, ListMap
  <2> QED BY <2>7, <2>10 DEF ListMapStep, mp1!Promise!Next
<1> QED BY <1>2, <1>3 DEF mp1!dictionary_remove, RemoveAt

LEMMA EmptyList == << >> \in Seq(Cells(ListKey, Value)) /\ KeysApart(<< >>) /\ MapOf(<< >>, ListKey, NULL) = [k \in ListKey |-> NULL]
<1>1. << >> \in Seq(Cells(ListKey, Value)) /\ KeysApart(<< >>) /\ DOMAIN << >> = {}
  BY DEF KeysApart
<1>2. \A k \in ListKey : Lookup(<< >>, k, NULL) = NULL
  BY <1>1, LookupFinds
<1> QED BY <1>1, <1>2 DEF MapOf

LEMMA ListDestroy ==
  ASSUME ListInv, mp1!dictionary_destroy  PROVE ListInv' /\ ListMapStep
<1>1. list_entry' = << >> /\ list_answer' = list_answer
  BY DEF mp1!dictionary_destroy
<1>2. ListInv'
  BY <1>1, EmptyList DEF ListInv
<1>3. ListMap' = [k \in ListKey |-> NULL]
  BY <1>1, EmptyList, ListMapIs
<1>4. mp1!Promise!Destroy
  BY <1>1, <1>3 DEF mp1!Promise!Destroy, mp1!Map, ListMap
<1> QED BY <1>2, <1>4 DEF ListMapStep, mp1!Promise!Next

LEMMA ListStarts == Init => ListInv /\ mp1!Promise!Init
<1> SUFFICES ASSUME Init PROVE ListInv /\ mp1!Promise!Init
  OBVIOUS
<1>1. list_entry = << >> /\ list_answer = [op |-> "none", ret |-> NULL]
  BY DEF Init, mp1!dictionary_init
<1>2. ListInv
  BY <1>1, EmptyList DEF ListInv
<1>3. ListMap = [k \in ListKey |-> NULL]
  BY <1>1, EmptyList, ListMapIs
<1>4. << list_answer >> = [t \in {1} |-> [op |-> "none", ret |-> NULL]]
  BY <1>1, OneAnswer
<1>5. mp1!Promise!Init
  BY <1>3, <1>4 DEF mp1!Promise!Init, mp1!Map, ListMap
<1> QED BY <1>2, <1>5

LEMMA ListMoves == [Next]_vars => mp1!Next \/ UNCHANGED mapOfList
BY DEF Next, vars, Heap2, Heap1, List, Tree, Sort, PriQueue, Queue, Shell, Echo, Store

LEMMA ListSteps == ListInv /\ [Next]_vars => ListInv' /\ ListMapStep
<1> SUFFICES ASSUME ListInv, [Next]_vars PROVE ListInv' /\ ListMapStep
  OBVIOUS
<1>1. CASE UNCHANGED mapOfList
  <2>1. list_entry' = list_entry /\ list_answer' = list_answer
    BY <1>1 DEF mapOfList
  <2> QED BY <2>1, ListMapIs DEF ListInv, ListMapStep
<1>2. CASE \E k \in ListKey, v \in Value : mp1!dictionary_add(k, v)
  BY <1>2, ListAdd DEF mp1!dictionary_add
<1>3. CASE \E text \in mp1!Texts : mp1!dictionary_parse(text)
  BY <1>3, ListParse
<1>4. CASE \E k \in ListKey : mp1!dictionary_get(k) \/ mp1!dictionary_remove(k)
  BY <1>4, ListGet, ListRemove
<1>5. CASE mp1!dictionary_destroy
  BY <1>5, ListDestroy
<1> QED BY <1>1, <1>2, <1>3, <1>4, <1>5, ListMoves DEF mp1!Next

(* mp1/libdictionary: add, get and remove, and parse but for its answer    *)
(* when the key exists, answer as the map of the keys to the values would: *)
(* the walk along the list finds the cell of its key wherever it is, and a *)
(* key is never in the list twice.                                         *)
THEOREM ListIsDictionary == Spec => ListImplementsDictionary
<1>1. Init => ListInv /\ mp1!Promise!Init
  BY ListStarts
<1>2. ListInv /\ [Next]_vars => ListInv' /\ ListMapStep
  BY ListSteps
<1> QED BY <1>1, <1>2, PTL DEF Spec, ListImplementsDictionary, mp1!ImplementsAllButParse, mp1!Map, ListMapStep, ListMap
-----------------------------------------------------------------------------
ShellLines == Commands \cup {mp3!Exit}
ShellTypeOK ==
  /\ shell_pc \in {"prompt", "search", "decide", "wait", "exit"}
  /\ ran \in Seq([command : ShellLines, query : Queries \cup {NULL}])
  /\ the_log \in Seq(Commands) /\ child \in Commands \cup {NULL}
  /\ typed \in Queries \cup {NULL}
  /\ shell_pc = "decide" => line \in ShellLines
  /\ shell_pc = "search" => line = typed

\* What has begun is what the log has, but for the child that is not there yet.
LogIsRan ==
  /\ child # NULL => shell_pc = "wait" /\ line = child
  /\ shell_pc # "exit" =>
       /\ Len(the_log) = Len(ran) + (IF child = NULL THEN 0 ELSE 1)
       /\ \A i \in DOMAIN ran : the_log[i] = ran[i].command
       /\ child # NULL => the_log[Len(the_log)] = child

\* c is the newest command begun so far that begins with q.
Matching(q, n) == {i \in 1..n : mp3!Begins(ran[i].command, q)}
LastMatch(q, c) == LET m == Matching(q, Len(ran)) IN m # {} /\ c = ran[Max(m)].command

ShellInv ==
  /\ ShellTypeOK /\ LogIsRan
  /\ (shell_pc = "decide" \/ child # NULL) /\ typed # NULL => LastMatch(typed, line)
  /\ LastMatchRuns

LEMMA ShellMax == \A S : mp3!Max(S) = Max(S)
BY DEF mp3!Max, Max

\* What the search of the log finds.
LEMMA SearchFinds ==
  ASSUME ShellInv, shell_pc = "search", mp3!log_search(line) # NULL
  PROVE  mp3!log_search(line) \in Commands /\ LastMatch(line, mp3!log_search(line))
<1> DEFINE m == {i \in DOMAIN the_log : mp3!Begins(the_log[i], line)}
<1>1. /\ the_log \in Seq(Commands) /\ ran \in Seq([command : ShellLines, query : Queries \cup {NULL}])
      /\ child = NULL /\ Len(the_log) = Len(ran) /\ \A i \in DOMAIN ran : the_log[i] = ran[i].command
  BY DEF ShellInv, ShellTypeOK, LogIsRan
<1>2. m # {} /\ mp3!log_search(line) = the_log[Max(m)]
  BY ShellMax DEF mp3!log_search
<1>3. m = Matching(line, Len(ran)) /\ m \in SUBSET (1..Len(ran)) /\ Len(ran) \in Nat
  BY <1>1 DEF Matching
<1> HIDE DEF m
<1>4. Max(m) \in 1..Len(ran)
  BY <1>2, <1>3, MaxOfSome
<1>5. the_log[Max(m)] \in Commands /\ the_log[Max(m)] = ran[Max(m)].command
  BY <1>1, <1>4
<1> QED BY <1>2, <1>3, <1>5 DEF LastMatch

\* A command that begins.
LEMMA ShellBegins ==
  ASSUME ShellInv, line \in ShellLines, typed # NULL => LastMatch(typed, line), mp3!Begin
  PROVE  /\ ran' \in Seq([command : ShellLines, query : Queries \cup {NULL}])
         /\ Len(ran') = Len(ran) + 1 /\ ran'[Len(ran) + 1].command = line
         /\ \A i \in DOMAIN ran : ran'[i] = ran[i]
         /\ LastMatchRuns'
<1> DEFINE n == Len(ran)  r == [command |-> line, query |-> typed]
<1>1. /\ ran \in Seq([command : ShellLines, query : Queries \cup {NULL}])
      /\ r \in [command : ShellLines, query : Queries \cup {NULL}] /\ r.command = line /\ r.query = typed
      /\ ran' = Append(ran, r)
  BY DEF ShellInv, ShellTypeOK, mp3!Begin
<1> HIDE DEF r
<1>2. /\ ran' \in Seq([command : ShellLines, query : Queries \cup {NULL}])
      /\ Len(ran') = n + 1 /\ ran'[n + 1] = r /\ \A i \in DOMAIN ran : ran'[i] = ran[i]
      /\ n \in Nat /\ DOMAIN ran = 1..n /\ DOMAIN ran' = 1..n + 1
  BY <1>1
<1> HIDE DEF n
<1>3. ASSUME NEW p \in DOMAIN ran', ran'[p].query # NULL
      PROVE  LET before == {i \in 1..p - 1 : mp3!Begins(ran'[i].command, ran'[p].query)}
             IN  before # {} /\ ran'[p].command = ran'[mp3!Max(before)].command
  <2> DEFINE q == ran'[p].query
             before == {i \in 1..p - 1 : mp3!Begins(ran'[i].command, q)}
             old == {i \in 1..p - 1 : mp3!Begins(ran[i].command, q)}
  <2>1. p \in Nat /\ 1..p - 1 \subseteq 1..n
    BY <1>2
  <2>2. before = old
    BY <1>2, <2>1
  <2>3. old # {} /\ ran'[p].command = ran[Max(old)].command
    <3>1. CASE p \in 1..n
      <4>1. ran'[p] = ran[p]
        BY <1>2, <3>1
      <4>2. mp3!LastMatchRuns
        BY DEF ShellInv, LastMatchRuns
      <4> QED BY <1>2, <1>3, <3>1, <4>1, <4>2, ShellMax DEF mp3!LastMatchRuns
    <3>2. CASE p = n + 1
      <4>1. p - 1 = Len(ran) /\ q = typed /\ ran'[p].command = line
        BY <1>1, <1>2, <3>2 DEF n
      <4>2. old = Matching(typed, Len(ran)) /\ LastMatch(typed, line)
        BY <1>3, <4>1 DEF Matching
      <4> QED BY <4>1, <4>2 DEF LastMatch
    <3> QED BY <1>2, <3>1, <3>2
  <2>4. Max(old) \in 1..p - 1
    <3>1. p - 1 \in Nat /\ old \in SUBSET (1..p - 1)
      BY <1>2
    <3> QED BY <2>3, <3>1, MaxOfSome
  <2>5. ran'[Max(old)] = ran[Max(old)]
    BY <1>2, <2>1, <2>4
  <2> HIDE DEF before, old
  <2>6. before # {} /\ ran'[p].command = ran'[mp3!Max(before)].command
    BY <2>2, <2>3, <2>5, ShellMax
  <2> QED BY <2>6 DEF before
<1>4. LastMatchRuns'
  BY <1>3 DEF LastMatchRuns, mp3!LastMatchRuns
<1> QED BY <1>1, <1>2, <1>4 DEF n

\* A step that begins nothing.
LEMMA ShellQuiet ==
  ASSUME ShellInv, ran' = ran
  PROVE  LastMatchRuns' /\ \A q, c : LastMatch(q, c)' <=> LastMatch(q, c)
BY DEF ShellInv, LastMatchRuns, mp3!LastMatchRuns, LastMatch, Matching

LEMMA ShellReads == ASSUME ShellInv, mp3!getline  PROVE ShellInv'
<1>1. /\ shell_pc = "prompt" /\ UNCHANGED << the_log, child, ran >> /\ child = NULL
      /\ \/ line' \in ShellLines /\ typed' = NULL /\ shell_pc' = "decide"
         \/ typed' \in Queries /\ line' = typed' /\ shell_pc' = "search"
  BY DEF mp3!getline, ShellInv, LogIsRan, ShellLines
<1>2. ShellTypeOK' /\ LogIsRan'
  BY <1>1 DEF ShellInv, ShellTypeOK, LogIsRan
<1>3. (shell_pc' = "decide" \/ child' # NULL) /\ typed' # NULL => LastMatch(typed, line)'
  BY <1>1
<1> QED BY <1>1, <1>2, <1>3, ShellQuiet DEF ShellInv

LEMMA ShellSearches == ASSUME ShellInv, mp3!Search  PROVE ShellInv'
<1>1. shell_pc = "search" /\ UNCHANGED << the_log, child, ran >> /\ child = NULL
  BY DEF mp3!Search, ShellInv, LogIsRan
<1>2. CASE mp3!log_search(line) # NULL /\ line' = mp3!log_search(line) /\ typed' = typed /\ shell_pc' = "decide"
  <2>1. line' \in ShellLines /\ line = typed /\ LastMatch(line, mp3!log_search(line))
    BY <1>1, <1>2, SearchFinds DEF ShellLines, ShellInv, ShellTypeOK
  <2>2. LastMatch(typed, line)'
    BY <1>1, <1>2, <2>1 DEF LastMatch, Matching
  <2>3. ShellTypeOK' /\ LogIsRan'
    BY <1>1, <1>2, <2>1 DEF ShellInv, ShellTypeOK, LogIsRan
  <2> QED BY <1>1, <2>2, <2>3, ShellQuiet DEF ShellInv
<1>3. CASE line' = NULL /\ typed' = NULL /\ shell_pc' = "prompt"
  <2>1. ShellTypeOK' /\ LogIsRan'
    BY <1>1, <1>3 DEF ShellInv, ShellTypeOK, LogIsRan
  <2> QED BY <1>1, <1>3, <2>1, ShellQuiet DEF ShellInv
<1> QED BY <1>2, <1>3 DEF mp3!Search

LEMMA ShellExits == ASSUME ShellInv, mp3!ExitShell  PROVE ShellInv'
<1>1. /\ shell_pc = "decide" /\ mp3!Begin /\ shell_pc' = "exit" /\ the_log' = << >>
      /\ UNCHANGED << line, child, typed >> /\ child = NULL
  BY DEF mp3!ExitShell, ShellInv, LogIsRan
<1>2. line \in ShellLines /\ (typed # NULL => LastMatch(typed, line))
  BY <1>1 DEF ShellInv, ShellTypeOK
<1>3. ran' \in Seq([command : ShellLines, query : Queries \cup {NULL}]) /\ LastMatchRuns'
  BY <1>1, <1>2, ShellBegins
<1>4. << >> \in Seq(Commands)
  OBVIOUS
<1> QED BY <1>1, <1>3, <1>4 DEF ShellInv, ShellTypeOK, LogIsRan

LEMMA ShellCd == ASSUME ShellInv, mp3!cd  PROVE ShellInv'
<1>1. /\ shell_pc = "decide" /\ mp3!Begin /\ shell_pc' = "prompt" /\ the_log' = Append(the_log, line)
      /\ line' = NULL /\ typed' = NULL /\ child' = child /\ child = NULL /\ line # mp3!Exit
  BY DEF mp3!cd, mp3!log_push, ShellInv, LogIsRan
<1>2. line \in ShellLines /\ line \in Commands /\ (typed # NULL => LastMatch(typed, line))
  BY <1>1 DEF ShellInv, ShellTypeOK, ShellLines
<1>3. /\ ran' \in Seq([command : ShellLines, query : Queries \cup {NULL}]) /\ LastMatchRuns'
      /\ Len(ran') = Len(ran) + 1 /\ ran'[Len(ran) + 1].command = line
      /\ \A i \in DOMAIN ran : ran'[i] = ran[i]
  BY <1>1, <1>2, ShellBegins
<1>4. /\ ran \in Seq([command : ShellLines, query : Queries \cup {NULL}]) /\ the_log \in Seq(Commands)
      /\ Len(the_log) = Len(ran) /\ \A i \in DOMAIN ran : the_log[i] = ran[i].command
  BY <1>1 DEF ShellInv, ShellTypeOK, LogIsRan
<1>5. /\ the_log' \in Seq(Commands) /\ Len(the_log') = Len(ran')
      /\ \A i \in DOMAIN ran' : the_log'[i] = ran'[i].command
  BY <1>1, <1>2, <1>3, <1>4
<1>6. ShellTypeOK' /\ LogIsRan'
  BY <1>1, <1>3, <1>5 DEF ShellTypeOK, LogIsRan
<1> QED BY <1>1, <1>3, <1>6 DEF ShellInv

LEMMA ShellForks == ASSUME ShellInv, mp3!fork  PROVE ShellInv'
<1> USE NullAssumption
<1>1. /\ shell_pc = "decide" /\ shell_pc' = "wait" /\ the_log' = Append(the_log, line) /\ child' = line
      /\ UNCHANGED << line, typed, ran >> /\ child = NULL /\ line # mp3!Exit
  BY DEF mp3!fork, mp3!log_push, ShellInv, LogIsRan
<1>2. line \in Commands /\ (typed # NULL => LastMatch(typed, line))
  BY <1>1 DEF ShellInv, ShellTypeOK, ShellLines
<1>3. /\ ran \in Seq([command : ShellLines, query : Queries \cup {NULL}]) /\ the_log \in Seq(Commands)
      /\ Len(the_log) = Len(ran) /\ \A i \in DOMAIN ran : the_log[i] = ran[i].command
  BY <1>1 DEF ShellInv, ShellTypeOK, LogIsRan
<1>4. /\ the_log' \in Seq(Commands) /\ Len(the_log') = Len(ran') + 1 /\ the_log'[Len(the_log')] = child'
      /\ \A i \in DOMAIN ran' : the_log'[i] = ran'[i].command
  BY <1>1, <1>2, <1>3
<1>5. ShellTypeOK' /\ LogIsRan'
  BY <1>1, <1>2, <1>4 DEF ShellInv, ShellTypeOK, LogIsRan
<1>6. typed' # NULL => LastMatch(typed, line)'
  BY <1>1, <1>2 DEF LastMatch, Matching
<1> QED BY <1>1, <1>5, <1>6, ShellQuiet DEF ShellInv

LEMMA ShellExecs == ASSUME ShellInv, mp3!execvp  PROVE ShellInv'
<1>1. /\ child # NULL /\ shell_pc = "wait" /\ line = child /\ mp3!Begin /\ child' = NULL
      /\ UNCHANGED << shell_pc, line, the_log, typed >>
  BY DEF mp3!execvp, ShellInv, LogIsRan
<1>2. line \in ShellLines /\ (typed # NULL => LastMatch(typed, line))
  BY <1>1 DEF ShellInv, ShellTypeOK, ShellLines
<1>3. /\ ran' \in Seq([command : ShellLines, query : Queries \cup {NULL}]) /\ LastMatchRuns'
      /\ Len(ran') = Len(ran) + 1 /\ ran'[Len(ran) + 1].command = line
      /\ \A i \in DOMAIN ran : ran'[i] = ran[i]
  BY <1>1, <1>2, ShellBegins
<1>4. /\ ran \in Seq([command : ShellLines, query : Queries \cup {NULL}]) /\ the_log \in Seq(Commands)
      /\ Len(the_log) = Len(ran) + 1 /\ \A i \in DOMAIN ran : the_log[i] = ran[i].command
      /\ the_log[Len(the_log)] = child
  BY <1>1 DEF ShellInv, ShellTypeOK, LogIsRan
<1>5. Len(the_log') = Len(ran') /\ \A i \in DOMAIN ran' : the_log'[i] = ran'[i].command
  BY <1>1, <1>3, <1>4
<1>6. ShellTypeOK' /\ LogIsRan'
  BY <1>1, <1>3, <1>5 DEF ShellInv, ShellTypeOK, LogIsRan
<1> QED BY <1>1, <1>3, <1>6 DEF ShellInv

LEMMA ShellWaited == ASSUME ShellInv, mp3!waitpid  PROVE ShellInv'
<1>1. /\ shell_pc = "wait" /\ child = NULL /\ shell_pc' = "prompt" /\ line' = NULL /\ typed' = NULL
      /\ UNCHANGED << the_log, child, ran >>
  BY DEF mp3!waitpid
<1>2. ShellTypeOK' /\ LogIsRan'
  BY <1>1 DEF ShellInv, ShellTypeOK, LogIsRan
<1> QED BY <1>1, <1>2, ShellQuiet DEF ShellInv

LEMMA ShellMoves == [Next]_vars => mp3!Next \/ UNCHANGED shell
BY DEF Next, vars, Heap2, Heap1, List, Tree, Sort, PriQueue, Queue, Shell, Echo, Store

(* mp3/shell.c and log.c: what !query runs is the last of the commands run *)
(* that begins with it, though it searches the log and not what was run:   *)
(* the log has every command that was run and no other, in the same order. *)
THEOREM ShellRunsLastMatch == Spec => []LastMatchRuns
<1>1. Init => ShellInv
  <2> SUFFICES ASSUME Init PROVE ShellInv
    OBVIOUS
  <2>1. /\ the_log = << >> /\ shell_pc = "prompt" /\ line = NULL /\ child = NULL /\ typed = NULL
        /\ ran = << >>
    BY DEF Init, mp3!Init, mp3!log_init
  <2>2. LastMatchRuns
    BY <2>1 DEF LastMatchRuns, mp3!LastMatchRuns
  <2> QED BY <2>1, <2>2 DEF ShellInv, ShellTypeOK, LogIsRan
<1>2. ShellInv /\ [Next]_vars => ShellInv'
  <2> SUFFICES ASSUME ShellInv, [Next]_vars PROVE ShellInv'
    OBVIOUS
  <2>1. CASE UNCHANGED shell
    <3>1. UNCHANGED << shell_pc, line, the_log, child, typed, ran >>
      BY <2>1 DEF shell
    <3>2. ShellTypeOK' /\ LogIsRan'
      BY <3>1 DEF ShellInv, ShellTypeOK, LogIsRan
    <3> QED BY <3>1, <3>2, ShellQuiet DEF ShellInv, LastMatch, Matching
  <2> QED BY <2>1, ShellMoves, ShellReads, ShellSearches, ShellExits, ShellCd, ShellForks,
             ShellExecs, ShellWaited DEF mp3!Next
<1>3. ShellInv => LastMatchRuns
  BY DEF ShellInv
<1> QED BY <1>1, <1>2, <1>3, PTL DEF Spec
-----------------------------------------------------------------------------
QueueTypeOK == /\ size \in Nat /\ nodes \in SUBSET Node /\ item \in [Node -> Item \cup {NULL}]
               /\ next \in [Node -> Node \cup {NULL}]
\* The nodes c are the queue.
Queued(c) == /\ Linked(c, Node, NULL, head, tail, next) /\ Len(c) = size /\ nodes = ToSet(c)
             /\ \A i \in 1..Len(c) : item[c[i]] \in Item
QueueInv == QueueTypeOK /\ \E c \in Seq(Node) : Queued(c)

QueueMap == [i \in 1..size |-> item[mp6!Nodes[i]]]
QueueMapStep == [mp6!Promise!Next]_<< QueueMap, ret >>

LEMMA WalkIs == \A i : mp6!Walk(i) = WalkFrom(head, next, i)
BY DEF mp6!Walk, WalkFrom

LEMMA NodesIs == mp6!Nodes = NodesOf(head, next, size)
BY WalkIs DEF mp6!Nodes, NodesOf

LEMMA QueueMapIs ==
  ASSUME NEW c, Queued(c)  PROVE QueueMap = ItemsOf(c, item) /\ mp6!Nodes = c
<1>1. mp6!Nodes = c /\ Len(c) = size
  BY NodesIs, NodesLinked DEF Queued
<1> QED BY <1>1 DEF QueueMap, ItemsOf

LEMMA QueueMapIsThen ==
  ASSUME NEW c, Queued(c)'  PROVE QueueMap' = ItemsOf(c, item')
<1>1. (mp6!Nodes = NodesOf(head, next, size))'
  BY NodesIs, PTL
<1>2. Linked(c, Node, NULL, head', tail', next') /\ Len(c) = size'
  BY DEF Queued
<1>3. mp6!Nodes' = c
  BY <1>1, <1>2, NodesLinked DEF NodesOf
<1> QED BY <1>2, <1>3 DEF QueueMap, ItemsOf

LEMMA QueueItems ==
  ASSUME NEW c, Queued(c)
  PROVE  /\ QueueMap \in Seq(Item) /\ Len(QueueMap) = size /\ DOMAIN QueueMap = 1..size
         /\ \A i \in 1..size : QueueMap[i] = item[c[i]]
         /\ c \in Seq(Node) /\ size \in Nat
<1>1. c \in Seq(Node) /\ Len(c) \in Nat /\ Len(c) = size
  BY DEF Queued, Linked
<1>2. QueueMap = [i \in 1..Len(c) |-> item[c[i]]]
  BY QueueMapIs DEF ItemsOf
<1>3. \A i \in 1..Len(c) : item[c[i]] \in Item
  BY DEF Queued
<1> QED BY <1>1, <1>2, <1>3

\* A call that leaves the list as it was.
LEMMA QueueKept ==
  ASSUME QueueTypeOK, NEW c \in Seq(Node), Queued(c), UNCHANGED << head, tail, size, nodes, item, next >>
  PROVE  QueueInv' /\ QueueMap' = QueueMap
<1>1. Queued(c)'
  BY DEF Queued
<1>2. QueueMap' = QueueMap
  BY <1>1, QueueMapIs, QueueMapIsThen
<1>3. QueueTypeOK'
  BY DEF QueueTypeOK
<1> QED BY <1>1, <1>2, <1>3 DEF QueueInv

LEMMA LastNode ==
  ASSUME NEW c, Queued(c), size # 0  PROVE tail \in nodes /\ head \in nodes
<1>1. /\ Linked(c, Node, NULL, head, tail, next) /\ Len(c) = size /\ nodes = ToSet(c) /\ c \in Seq(Node)
  BY DEF Queued, Linked
<1>2. 1 \in DOMAIN c /\ Len(c) \in DOMAIN c /\ head = c[1] /\ tail = c[Len(c)]
  BY <1>1 DEF Linked
<1> QED BY <1>1, <1>2 DEF ToSet

LEMMA QueueEnqueues ==
  ASSUME QueueTypeOK, NEW c \in Seq(Node), Queued(c), NEW x \in Item, mp6!queue_enqueue(x)
  PROVE  QueueInv' /\ QueueMapStep
<1>1. PICK back \in Node \ nodes :
        /\ nodes' = nodes \cup {back} /\ item' = [item EXCEPT ![back] = x]
        /\ head' = (IF size = 0 THEN back ELSE head)
        /\ next' = [n \in Node |-> CASE n = back -> NULL [] size # 0 /\ n = tail -> back [] OTHER -> next[n]]
        /\ tail' = back
  BY DEF mp6!queue_enqueue
<1>2. size' = size + 1 /\ ret' = NULL
  BY DEF mp6!queue_enqueue
<1>3. Linked(c, Node, NULL, head, tail, next) /\ Len(c) = size /\ nodes = ToSet(c)
  BY DEF Queued
<1> DEFINE d == Append(c, back)
<1>4. Linked(d, Node, NULL, head', tail', next')
  <2>1. \A n \in Node : next'[n] = IF n = back THEN NULL ELSE IF Len(c) # 0 /\ n = tail THEN back ELSE next[n]
    <3> TAKE n \in Node
    <3>1. next'[n] = CASE n = back -> NULL [] size # 0 /\ n = tail -> back [] OTHER -> next[n]
      BY <1>1
    <3>2. Len(c) = size
      BY <1>3
    <3>3. CASE n = back
      <4>1. ~(size # 0 /\ n = tail)
        BY <1>3, <3>3, LastNode DEF Queued
      <4> QED BY <3>1, <3>3, <4>1
    <3>4. CASE n # back
      BY <3>1, <3>2, <3>4
    <3> QED BY <3>3, <3>4
  <2>2. Linked(d, Node, NULL, IF Len(c) = 0 THEN back ELSE head, back, next')
    BY <1>3, <2>1, LinkedAppend DEF QueueTypeOK
  <2> QED BY <1>1, <1>3, <2>2
<1>5. /\ d \in Seq(Node) /\ Len(d) = size' /\ ToSet(d) = nodes' /\ d[Len(c) + 1] = back
      /\ \A i \in 1..Len(c) : d[i] = c[i] /\ c[i] # back
  <2>1. Len(d) = Len(c) + 1 /\ ToSet(d) = ToSet(c) \cup {back}
    BY AppendElements
  <2>2. \A i \in 1..Len(c) : c[i] # back
    BY <1>3 DEF ToSet
  <2> QED BY <1>1, <1>2, <1>3, <2>1, <2>2
<1>6. item'[back] = x /\ \A i \in 1..Len(c) : item'[c[i]] = item[c[i]] /\ item[c[i]] \in Item
  BY <1>1, <1>5 DEF QueueTypeOK, Queued
<1>7. ItemsOf(d, item') = Append(ItemsOf(c, item), x)
  <2>1. item'[back] \in Item
    BY <1>6
  <2>3. AgreeOn(c, item, item', Item)
    BY <1>6 DEF AgreeOn
  <2>2. ItemsOf(Append(c, back), item') = Append(ItemsOf(c, item), item'[back])
    BY <2>1, <2>3, ItemsAppend
  <2> QED BY <1>6, <2>2
<1> HIDE DEF d
<1>8. \A i \in 1..Len(d) : item'[d[i]] \in Item
  BY <1>2, <1>3, <1>5, <1>6 DEF QueueTypeOK
<1>9. Queued(d)'
  BY <1>4, <1>5, <1>8 DEF Queued
<1>10. QueueTypeOK'
  BY <1>1, <1>2 DEF QueueTypeOK
<1>11. QueueMap' = Append(QueueMap, x)
  BY <1>7, <1>9, QueueMapIs, QueueMapIsThen
<1>12. mp6!Promise!Enqueue
  BY <1>2, <1>11 DEF mp6!Promise!Enqueue, QueueMap
<1> QED BY <1>5, <1>9, <1>10, <1>12 DEF QueueInv, QueueMapStep, mp6!Promise!Next

\* The node at place k is unlinked and freed.
LEMMA QueueTakesOut ==
  ASSUME QueueTypeOK, NEW c \in Seq(Node), Queued(c), NEW k \in 1..Len(c),
         Linked(RemoveAt(c, k), Node, NULL, head', tail', next'), next' \in [Node -> Node \cup {NULL}],
         size' = size - 1, nodes' = nodes \ {c[k]}, item' = item, ret' = item[c[k]]
  PROVE  QueueInv' /\ QueueMapStep
<1> DEFINE d == RemoveAt(c, k)
<1>1. Len(c) = size /\ size \in Nat /\ nodes = ToSet(c) /\ IsInjective(c) /\ \A i \in 1..Len(c) : item[c[i]] \in Item
  BY DEF Queued, Linked, QueueTypeOK
<1>2. /\ d \in Seq(Node) /\ Len(d) = Len(c) - 1 /\ DOMAIN d = 1..(Len(c) - 1)
      /\ \A i \in DOMAIN d : d[i] = IF i < k THEN c[i] ELSE c[i + 1]
  BY RemoveAtIs
<1>3. ToSet(d) = nodes'
  BY <1>1, RemoveAtElements
<1>4. ItemsOf(d, item') = RemoveAt(ItemsOf(c, item), k)
  <2>1. ItemsOf(RemoveAt(c, k), item) = RemoveAt(ItemsOf(c, item), k)
    <3>1. AgreeOn(c, item, item, Item)
      BY <1>1 DEF AgreeOn
    <3> QED BY <3>1, ItemsRemove
  <2> QED BY <2>1
<1> HIDE DEF d
<1>5. \A i \in 1..Len(d) : item[d[i]] \in Item
  <2> TAKE i \in 1..Len(d)
  <2>1. \E j \in 1..Len(c) : d[i] = c[j]
    BY <1>2
  <2> QED BY <1>1, <2>1
<1>6. Queued(d)'
  BY <1>1, <1>2, <1>3, <1>5 DEF Queued, d
<1>7. QueueTypeOK'
  BY <1>1 DEF QueueTypeOK
<1>8. QueueMap' = RemoveAt(QueueMap, k)
  BY <1>4, <1>6, QueueMapIs, QueueMapIsThen
<1>9. /\ k - 1 \in -1 .. Len(QueueMap) + 1 /\ (k - 1) + 1 = k /\ k \in DOMAIN QueueMap
      /\ QueueMap[k] = item[c[k]]
  BY <1>1, QueueItems
<1>10. RemoveAt(QueueMap, k) = SubSeq(QueueMap, 1, k - 1) \o SubSeq(QueueMap, k + 1, Len(QueueMap))
  BY DEF RemoveAt
<1>12. (k - 1) + 2 = k + 1 /\ ret' = QueueMap[k]
  BY <1>9
<1>13. /\ QueueMap' = SubSeq(QueueMap, 1, k - 1) \o SubSeq(QueueMap, (k - 1) + 2, Len(QueueMap))
       /\ (k - 1) + 1 \in DOMAIN QueueMap /\ ret' = QueueMap[(k - 1) + 1]
  BY <1>8, <1>9, <1>10, <1>12
<1>11. mp6!Promise!TakeOut(k - 1)
  BY <1>13 DEF mp6!Promise!TakeOut, mp6!Promise!Has, QueueMap
<1> QED BY <1>2, <1>6, <1>7, <1>9, <1>11 DEF QueueInv, QueueMapStep, mp6!Promise!Next, mp6!Promise!Positions, QueueMap

LEMMA QueueDequeues ==
  ASSUME QueueTypeOK, NEW c \in Seq(Node), Queued(c), mp6!queue_dequeue  PROVE QueueInv' /\ QueueMapStep
<1>1. Linked(c, Node, NULL, head, tail, next) /\ Len(c) = size /\ nodes = ToSet(c)
  BY DEF Queued
<1>2. CASE size = 0 /\ ret' = NULL /\ UNCHANGED << head, tail, size, nodes, item, next >>
  <2>1. QueueInv' /\ QueueMap' = QueueMap
    BY <1>2, QueueKept
  <2>2. 0 \in -1 .. Len(QueueMap) + 1 /\ 0 + 1 \notin DOMAIN QueueMap
    BY <1>2, QueueItems
  <2>3. mp6!Promise!TakeOut(0)
    BY <1>2, <2>1, <2>2 DEF mp6!Promise!TakeOut, mp6!Promise!Has, QueueMap
  <2> QED BY <2>1, <2>2, <2>3 DEF QueueMapStep, mp6!Promise!Next, mp6!Promise!Positions, QueueMap
<1>3. CASE /\ size # 0 /\ size' = size - 1 /\ head' = (IF size = 1 THEN NULL ELSE next[head])
           /\ tail' = (IF size = 1 THEN NULL ELSE tail) /\ ret' = item[head]
           /\ nodes' = nodes \ {head} /\ UNCHANGED << item, next >>
  <2>1. head = c[1] /\ 1 \in 1..Len(c) /\ Len(c) # 0 /\ (Len(c) > 1 => tail' = tail)
    BY <1>1, <1>3 DEF QueueTypeOK, Linked
  <2>2. Linked(RemoveAt(c, 1), Node, NULL, next[head], tail', next) /\ (Len(c) = 1 => next[head] = NULL)
    <3>1. Linked(c, Node, NULL, head, tail, next) /\ Len(c) # 0
      BY <1>1, <2>1
    <3>2. \A u : (Len(c) > 1 => u = tail) => Linked(RemoveAt(c, 1), Node, NULL, next[head], u, next)
      BY <3>1, LinkedFirst
    <3>3. next[head] = IF Len(c) = 1 THEN NULL ELSE c[2]
      BY <3>1, LinkedFirst
    <3> QED BY <2>1, <3>2, <3>3
  <2>3. Linked(RemoveAt(c, 1), Node, NULL, head', tail', next')
    BY <1>1, <1>3, <2>2
  <2> QED BY <1>3, <2>1, <2>3, QueueTakesOut DEF QueueTypeOK
<1> QED BY <1>2, <1>3 DEF mp6!queue_dequeue, mp6!Freed

LEMMA WalkQueued ==
  ASSUME NEW c, Queued(c)
  PROVE  /\ \A i \in 0..size - 1 : mp6!Walk(i) = c[i + 1]
         /\ mp6!Walk(size) = NULL
BY WalkIs, WalkLinked DEF Queued

LEMMA QueueUnlinks ==
  ASSUME QueueTypeOK, NEW c \in Seq(Node), Queued(c), NEW pos \in 0..size - 1, mp6!Unlink(pos)
  PROVE  Linked(RemoveAt(c, pos + 1), Node, NULL, head', tail', next') /\ next' \in [Node -> Node \cup {NULL}]
<1> DEFINE k == pos + 1  cur == mp6!Walk(pos)
<1>1. /\ Linked(c, Node, NULL, head, tail, next) /\ Len(c) = size /\ size \in Nat /\ IsInjective(c) /\ DOMAIN c = 1..size
      /\ next \in [Node -> Node \cup {NULL}]
  BY DEF Queued, QueueTypeOK, Linked
<1>2. k \in 1..size /\ pos \in Nat /\ pos = k - 1 /\ size # 0
  BY <1>1
<1>3. cur = c[k] /\ cur \in Node /\ next[cur] \in Node \cup {NULL}
  BY <1>1, <1>2, WalkQueued
<1>4. head = c[1] /\ tail = c[size]
  BY <1>1, <1>2 DEF Linked
<1>5. (cur = head <=> k = 1) /\ (cur = tail <=> k = size)
  <2>1. 1 \in DOMAIN c /\ size \in DOMAIN c /\ k \in DOMAIN c
    BY <1>1, <1>2
  <2> QED BY <1>1, <1>3, <1>4, <2>1 DEF IsInjective
<1>6. k # 1 => mp6!Walk(pos - 1) = c[k - 1] /\ c[k - 1] \in Node
  <2> SUFFICES ASSUME k # 1 PROVE mp6!Walk(pos - 1) = c[k - 1] /\ c[k - 1] \in Node
    OBVIOUS
  <2>1. pos - 1 \in 0..size - 1 /\ (pos - 1) + 1 = k - 1 /\ k - 1 \in 1..size
    BY <1>1, <1>2
  <2> QED BY <1>1, <2>1, WalkQueued
<1>7. next[tail] = NULL
  BY <1>1, <1>2, <1>4 DEF Linked
<1> HIDE DEF k, cur
<1>8. CASE cur = head /\ head' = next[cur] /\ tail' = (IF next[cur] = NULL THEN NULL ELSE tail) /\ next' = next
  <2>1. k = 1 /\ next[head] = IF size = 1 THEN NULL ELSE c[2]
    <3>1. size # 0 /\ Len(c) = size
      BY <1>1, <1>2
    <3>2. next[head] = IF Len(c) = 1 THEN NULL ELSE c[2]
      <4>1. Linked(c, Node, NULL, head, tail, next) /\ Len(c) # 0
        BY <1>1, <3>1
      <4> QED BY <4>1, LinkedFirst
    <3> QED BY <1>5, <1>8, <3>1, <3>2
  <2>2. Len(c) > 1 => tail' = tail
    <3> SUFFICES ASSUME Len(c) > 1 PROVE tail' = tail
      OBVIOUS
    <3>1. 2 \in 1..size /\ c[2] \in Node /\ size # 1
      BY <1>1
    <3> QED BY <1>8, <2>1, <3>1, NullAssumption
  <2>3. Linked(RemoveAt(c, 1), Node, NULL, next[head], tail', next)
    <3>1. Linked(c, Node, NULL, head, tail, next) /\ Len(c) # 0
      BY <1>1, <1>2
    <3>2. \A u : (Len(c) > 1 => u = tail) => Linked(RemoveAt(c, 1), Node, NULL, next[head], u, next)
      BY <3>1, LinkedFirst
    <3> QED BY <2>2, <3>2
  <2> QED BY <1>1, <1>8, <2>1, <2>3 DEF k
<1>9. CASE /\ cur # head /\ head' = head
           /\ next' = [next EXCEPT ![mp6!Walk(pos - 1)] = next[cur]]
           /\ tail' = IF cur = tail THEN mp6!Walk(pos - 1) ELSE tail
  <2>1. k \in 2..Len(c) /\ k # 1
    BY <1>1, <1>2, <1>5, <1>9
  <2>2. next' = [next EXCEPT ![c[k - 1]] = next[c[k]]]
    BY <1>3, <1>6, <1>9, <2>1
  <2>3. Linked(RemoveAt(c, k), Node, NULL, head, IF k = Len(c) THEN c[k - 1] ELSE tail, next')
    BY <1>1, <2>1, <2>2, LinkedOther
  <2>4. tail' = IF k = Len(c) THEN c[k - 1] ELSE tail
    BY <1>1, <1>5, <1>6, <1>9, <2>1
  <2>5. next' \in [Node -> Node \cup {NULL}]
    BY <1>1, <1>3, <2>2
  <2> QED BY <1>9, <2>3, <2>4, <2>5 DEF k
<1>10. \/ cur = head /\ head' = next[cur] /\ tail' = (IF next[cur] = NULL THEN NULL ELSE tail) /\ next' = next
       \/ /\ cur # head /\ head' = head
          /\ next' = [next EXCEPT ![mp6!Walk(pos - 1)] = next[cur]]
          /\ tail' = IF cur = tail THEN mp6!Walk(pos - 1) ELSE tail
  BY <1>7 DEF mp6!Unlink, cur
<1> QED BY <1>8, <1>9, <1>10

LEMMA QueueRemoves ==
  ASSUME QueueTypeOK, NEW c \in Seq(Node), Queued(c), NEW pos \in -1 .. size + 1, mp6!queue_remove_at(pos)
  PROVE  QueueInv' /\ QueueMapStep
<1>0. size \in Nat
  BY DEF QueueTypeOK
<1>1. CASE /\ pos < 0 \/ (size # 0 /\ size - 1 < pos)
           /\ ret' = NULL /\ UNCHANGED << head, tail, size, nodes, item, next >>
  <2>1. QueueInv' /\ QueueMap' = QueueMap
    BY <1>1, QueueKept
  <2>2. pos \in -1 .. Len(QueueMap) + 1 /\ pos + 1 \notin DOMAIN QueueMap
    BY <1>0, <1>1, QueueItems
  <2>3. mp6!Promise!TakeOut(pos)
    BY <1>1, <2>1, <2>2 DEF mp6!Promise!TakeOut, mp6!Promise!Has, QueueMap
  <2> QED BY <2>1, <2>2, <2>3 DEF QueueMapStep, mp6!Promise!Next, mp6!Promise!Positions, QueueMap
<1>2. CASE /\ 0 <= pos /\ pos < size /\ size' = size - 1 /\ ret' = item[mp6!Walk(pos)]
           /\ nodes' = nodes \ {mp6!Walk(pos)} /\ mp6!Unlink(pos) /\ item' = item
  <2>1. pos \in 0..size - 1 /\ pos + 1 \in 1..Len(c)
    BY <1>0, <1>2 DEF Queued
  <2>2. mp6!Walk(pos) = c[pos + 1]
    BY <2>1, WalkQueued
  <2>3. Linked(RemoveAt(c, pos + 1), Node, NULL, head', tail', next') /\ next' \in [Node -> Node \cup {NULL}]
    BY <1>2, <2>1, QueueUnlinks
  <2> QED BY <1>2, <2>1, <2>2, <2>3, QueueTakesOut
<1> QED BY <1>1, <1>2 DEF mp6!queue_remove_at, mp6!Freed

LEMMA QueueReads ==
  ASSUME QueueTypeOK, NEW c \in Seq(Node), Queued(c), NEW pos \in -1 .. size + 1, mp6!queue_at(pos)
  PROVE  QueueInv' /\ QueueMapStep
<1>1. /\ pos # size /\ ret' = (IF pos < 0 \/ pos > size THEN NULL ELSE item[mp6!Walk(pos)])
      /\ UNCHANGED << head, tail, size, nodes, item, next >>
  BY DEF mp6!queue_at
<1>2. QueueInv' /\ QueueMap' = QueueMap /\ size \in Nat
  BY <1>1, QueueKept DEF QueueTypeOK
<1>3. pos \in -1 .. Len(QueueMap) + 1
  BY QueueItems
<1>4. ret' = IF pos + 1 \in DOMAIN QueueMap THEN QueueMap[pos + 1] ELSE NULL
  <2>1. CASE pos \in 0..size - 1
    <3>1. mp6!Walk(pos) = c[pos + 1] /\ pos + 1 \in 1..size /\ ~(pos < 0 \/ pos > size)
      BY <1>2, <2>1, WalkQueued
    <3> QED BY <1>1, <3>1, QueueItems
  <2>2. CASE pos \notin 0..size - 1
    <3>1. (pos < 0 \/ pos > size) /\ pos + 1 \notin 1..size
      BY <1>1, <1>2, <2>2
    <3> QED BY <1>1, <3>1, QueueItems
  <2> QED BY <2>1, <2>2
<1>5. mp6!Promise!At(pos)
  BY <1>2, <1>4 DEF mp6!Promise!At, mp6!Promise!Has, QueueMap
<1> QED BY <1>2, <1>3, <1>5 DEF QueueMapStep, mp6!Promise!Next, mp6!Promise!Positions, QueueMap

LEMMA SameCardinality == \A S : mp6!Cardinality(S) = Cardinality(S)
BY DEF mp6!Cardinality, Cardinality

LEMMA NodesCounted ==
  ASSUME NEW c, Queued(c)
  PROVE  size \in Nat /\ Cardinality(nodes) = size /\ size <= Cardinality(Node) /\ Cardinality(Node) \in Nat
<1>1. /\ c \in Seq(Node) /\ IsInjective(c) /\ Len(c) = size /\ size \in Nat /\ nodes = ToSet(c)
      /\ DOMAIN c = 1..size /\ nodes \subseteq Node
  BY DEF Queued, Linked, ToSet
<1>2. c \in Bijection(1..size, nodes)
  <2>1. c \in [1..size -> nodes] /\ \A x \in nodes : \E i \in 1..size : c[i] = x
    BY <1>1 DEF ToSet
  <2> QED BY <1>1, <2>1 DEF Bijection, Injection, Surjection, IsInjective
<1>3. Cardinality(nodes) = size
  BY <1>1, <1>2, FS_CountingElements DEF ExistsBijection
<1>4. Cardinality(nodes) <= Cardinality(Node) /\ Cardinality(Node) \in Nat
  BY <1>1, FS_Subset, FS_CardinalityType, NodeAssumption
<1> QED BY <1>1, <1>3, <1>4

LEMMA QueueIterates ==
  ASSUME QueueTypeOK, NEW c \in Seq(Node), Queued(c), mp6!queue_iterate  PROVE QueueInv' /\ QueueMapStep
<1>1. UNCHANGED << head, tail, size, nodes, item, next >>
  BY DEF mp6!queue_iterate
<1>2. QueueInv' /\ QueueMap' = QueueMap
  BY <1>1, QueueKept
<1>3. ret' = QueueMap
  <2>1. CASE size = 0
    <3>1. ret' = << >>
      BY <2>1 DEF mp6!queue_iterate
    <3>2. Len(QueueMap) = 0 /\ QueueMap \in Seq(Item)
      BY <2>1, QueueItems
    <3> QED BY <3>1, <3>2
  <2>2. CASE size # 0
    <3> DEFINE P(n) == mp6!Walk(n) = NULL /\ \A i \in 0 .. n - 1 : mp6!Walk(i) # NULL
    <3>1. size \in 0..Cardinality(Node) /\ size \in Nat
      BY NodesCounted
    <3>2. \A i \in 0..size - 1 : mp6!Walk(i) # NULL
      <4> TAKE i \in 0..size - 1
      <4>1. mp6!Walk(i) = c[i + 1] /\ i + 1 \in 1..Len(c)
        BY WalkQueued DEF Queued
      <4> QED BY <4>1, NullAssumption
    <3>3. P(size)
      BY <3>2, WalkQueued
    <3>4. \A n \in 0..Cardinality(Node) : P(n) => n = size
      <4> SUFFICES ASSUME NEW n \in 0..Cardinality(Node), P(n)  PROVE n = size
        OBVIOUS
      <4>1. n < size => n \in 0..size - 1
        BY <3>1
      <4>2. n > size => size \in 0..n - 1
        BY <3>1
      <4>3. Cardinality(Node) \in Nat
        BY NodesCounted
      <4> QED BY <3>1, <3>2, <3>3, <4>1, <4>2, <4>3
    <3>5. mp6!UntilNull = CHOOSE n \in 0..Cardinality(Node) : P(n)
      BY SameCardinality DEF mp6!UntilNull
    <3> HIDE DEF P
    <3>6. mp6!UntilNull = size
      BY <3>1, <3>3, <3>4, <3>5
    <3>7. ret' = [i \in 1..size |-> item[mp6!Walk(i - 1)]]
      BY <2>2, <3>6 DEF mp6!queue_iterate
    <3> QED BY <3>7 DEF QueueMap, mp6!Nodes
  <2> QED BY <2>1, <2>2
<1>4. mp6!Promise!Iterate
  BY <1>2, <1>3 DEF mp6!Promise!Iterate, QueueMap
<1> QED BY <1>2, <1>4 DEF QueueMapStep, mp6!Promise!Next

LEMMA NoNodes ==
  ASSUME NEW t, NEW nx
  PROVE  << >> \in Seq(Node) /\ Linked(<< >>, Node, NULL, NULL, t, nx) /\ Len(<< >>) = 0 /\ ToSet(<< >>) = {}
BY DEF Linked, IsInjective, ToSet

LEMMA QueueDestroys ==
  ASSUME QueueTypeOK, NEW c \in Seq(Node), Queued(c), mp6!queue_destroy  PROVE QueueInv' /\ QueueMapStep
<1>1. /\ nodes' = nodes \ {mp6!Walk(i) : i \in 0 .. size - 1} /\ head' = (IF size = 0 THEN head ELSE NULL)
      /\ size' = 0 /\ ret' = NULL /\ UNCHANGED << item, next >>
  BY DEF mp6!queue_destroy
<1>2. nodes' = {}
  <2> SUFFICES ASSUME NEW x \in nodes PROVE \E i \in 0 .. size - 1 : mp6!Walk(i) = x
    BY <1>1
  <2>1. PICK k \in 1..Len(c) : c[k] = x
    BY DEF Queued, ToSet
  <2>2. k - 1 \in 0..size - 1 /\ (k - 1) + 1 = k
    BY <2>1 DEF Queued, QueueTypeOK
  <2>3. mp6!Walk(k - 1) = x
    BY <2>1, <2>2, WalkQueued
  <2> QED BY <2>2, <2>3
<1>3. head' = NULL
  BY <1>1 DEF Queued, Linked
<1>4. Queued(<< >>)'
  BY <1>1, <1>2, <1>3, NoNodes DEF Queued
<1>5. QueueTypeOK'
  BY <1>1, <1>2 DEF QueueTypeOK
<1>6. QueueMap' = << >>
  BY <1>1 DEF QueueMap
<1>7. mp6!Promise!Destroy
  BY <1>1, <1>6 DEF mp6!Promise!Destroy, QueueMap
<1> QED BY <1>4, <1>5, <1>7, NoNodes DEF QueueInv, QueueMapStep, mp6!Promise!Next

LEMMA QueueMoves == [Next]_vars => mp6!Next \/ UNCHANGED queue
BY DEF Next, vars, Heap2, Heap1, List, Tree, Sort, PriQueue, Queue, Shell, Echo, Store

LEMMA QueueSteps == QueueInv /\ [Next]_vars => QueueInv' /\ QueueMapStep
<1> SUFFICES ASSUME QueueInv, [Next]_vars PROVE QueueInv' /\ QueueMapStep
  OBVIOUS
<1>1. PICK c \in Seq(Node) : QueueTypeOK /\ Queued(c)
  BY DEF QueueInv
<1>2. CASE UNCHANGED queue
  <2>1. UNCHANGED << head, tail, size, nodes, item, next >> /\ ret' = ret
    BY <1>2 DEF queue
  <2> QED BY <1>1, <2>1, QueueKept DEF QueueMapStep
<1>3. CASE mp6!Next
  BY <1>1, <1>3, QueueEnqueues, QueueDequeues, QueueIterates, QueueDestroys, QueueRemoves, QueueReads
     DEF mp6!Next
<1> QED BY <1>2, <1>3, QueueMoves

LEMMA QueueStarts == Init => QueueInv /\ mp6!Promise!Init
<1> SUFFICES ASSUME Init PROVE QueueInv /\ mp6!Promise!Init
  OBVIOUS
<1>1. /\ head = NULL /\ size = 0 /\ nodes = {} /\ item = [n \in Node |-> NULL] /\ next = [n \in Node |-> NULL]
      /\ ret = NULL
  BY DEF Init, mp6!queue_init
<1>2. QueueTypeOK /\ Queued(<< >>)
  BY <1>1, NoNodes DEF QueueTypeOK, Queued
<1>3. QueueMap = << >>
  BY <1>1 DEF QueueMap
<1>4. mp6!Promise!Init
  BY <1>1, <1>3 DEF mp6!Promise!Init, QueueMap
<1> QED BY <1>2, <1>4, NoNodes DEF QueueInv

(* mp6/queue.c: enqueue, dequeue, at, remove_at and iterate do to the list *)
(* what they would do to a sequence of items, the head, the tail and the   *)
(* size agree with the links after each, and no node is lost.              *)
THEOREM QueueIsSequence == Spec => ImplementsSequence
<1>1. Init => QueueInv /\ mp6!Promise!Init
  BY QueueStarts
<1>2. QueueInv /\ [Next]_vars => QueueInv' /\ QueueMapStep
  BY QueueSteps
<1>3. QueueInv => nodes = {mp6!Nodes[i] : i \in 1..size} /\ mp6!Cardinality(nodes) = size
  <2> SUFFICES ASSUME NEW c \in Seq(Node), Queued(c)
               PROVE  nodes = {mp6!Nodes[i] : i \in 1..size} /\ mp6!Cardinality(nodes) = size
    BY DEF QueueInv
  <2>1. mp6!Nodes = c /\ nodes = ToSet(c) /\ DOMAIN c = 1..size
    BY QueueMapIs DEF Queued
  <2> QED BY <2>1, NodesCounted, SameCardinality DEF ToSet
<1> QED BY <1>1, <1>2, <1>3, PTL DEF Spec, ImplementsSequence, mp6!ImplementsSequence, mp6!Promise!Spec,
           mp6!Promise!vars, QueueMapStep, QueueMap
-----------------------------------------------------------------------------
CellNext(f) == [x \in Cell |-> f[x].next]
CellPrev(f) == [x \in Cell |-> f[x].prev]
\* The cells c of the list that begins at h, when the memory is f.
Chained(c, h, f) == /\ Forward(c, Cell, NULL, h, CellNext(f)) /\ Back(c, NULL, CellPrev(f))
                    /\ SameData(c, f, f, Pointer)

CellRecords == [data : Pointer \cup {NULL}, next : Cell \cup {NULL}, prev : Cell \cup {NULL}]
PriTypeOK == /\ pri_size \in Nat /\ cell \in [Cell -> CellRecords]
             /\ pri_pc \in {"idle", "offer", "destroy", "destroyed"}

\* c is the list.
Holds(c) == Chained(c, pri_head, cell) /\ Len(c) = pri_size
\* priqueue_offer has a new cell and comes to place index + 1 of the list.
Offering(c) ==
  /\ Holds(c) /\ pri_size < QueueLen /\ ptr \in Pointer
  /\ new_node \in Cell \ ToSet(c) /\ cells = ToSet(c) \cup {new_node}
  /\ cell[new_node] = [data |-> ptr, next |-> NULL, prev |-> NULL]
  /\ index \in 0..(Len(c) - 1) /\ curr = c[index + 1]
  /\ \A i \in 1..index : KeyComp(ptr, cell[c[i]].data) > 0
\* priqueue_destroy has c left to free.
Freeing(c) == Forward(c, Cell, NULL, curr, CellNext(cell)) /\ cells = ToSet(c)

PriInv ==
  /\ PriTypeOK
  /\ pri_pc \in {"idle", "offer"} => pri_answer.op # "destroy"
  /\ pri_pc = "idle" => \E c \in Seq(Cell) : Holds(c) /\ cells = ToSet(c)
  /\ pri_pc = "offer" => \E c \in Seq(Cell) : Offering(c)
  /\ pri_pc = "destroy" => \E c \in Seq(Cell) : Freeing(c)
  /\ pri_pc = "destroyed" => cells = {}

PriMap == IF mp5!IsDown THEN << >> ELSE mp5!Contents
PriMapStep == [mp5!Promise!SpecNext]_<< PriMap, pri_answer >>

LEMMA PriChainIs ==
  /\ mp5!Chain = ChainFrom(pri_head, cell, pri_size)
  /\ mp5!Contents = [i \in DOMAIN mp5!Chain |-> cell[mp5!Chain[i]].data]
BY DEF mp5!Chain, mp5!Contents, ChainFrom

LEMMA ChainedChain ==
  ASSUME NEW c, NEW h, NEW f, Chained(c, h, f)
  PROVE  ChainFrom(h, f, Len(c)) = c /\ c \in Seq(Cell) /\ DOMAIN c = 1..Len(c)
<1>1. Forward(c, Cell, NULL, h, CellNext(f))
  BY DEF Chained
<1>2. c \in Seq(Cell)
  BY <1>1 DEF Forward
<1>3. \A i \in 1..Len(c) : f[c[i]].next = CellNext(f)[c[i]]
  BY <1>2 DEF CellNext
<1> HIDE DEF CellNext
<1> QED BY <1>1, <1>2, <1>3, ChainIs

LEMMA PriMapIs ==
  ASSUME NEW c, Holds(c)
  PROVE  mp5!Chain = c /\ mp5!Contents = DataOf(c, cell)
<1>1. mp5!Chain = c /\ DOMAIN c = 1..Len(c)
  BY ChainedChain, PriChainIs DEF Holds
<1> QED BY <1>1, PriChainIs DEF DataOf

LEMMA PriMapIsThen ==
  ASSUME NEW c, Chained(c, pri_head', cell'), Len(c) = pri_size'
  PROVE  mp5!Contents' = DataOf(c, cell')
<1>1. (mp5!Chain = ChainFrom(pri_head, cell, pri_size))'
  BY PriChainIs, PTL
<1>2. mp5!Chain' = c /\ DOMAIN c = 1..Len(c)
  BY <1>1, ChainedChain DEF ChainFrom
<1>3. mp5!Contents' = [i \in DOMAIN mp5!Chain' |-> cell'[mp5!Chain'[i]].data]
  BY DEF mp5!Contents
<1> QED BY <1>2, <1>3 DEF DataOf


\* Where the scan stops is where the promise puts the new element.
LEMMA StopIs ==
  ASSUME NEW q \in Seq(Pointer), NEW x \in Pointer, NEW k \in 1..(Len(q) + 1),
         \A i \in 1..(k - 1) : KeyComp(x, q[i]) > 0, k <= Len(q) => KeyComp(x, q[k]) <= 0
  PROVE  mp5!Promise!priqueue_offer(q, x, mp5!Promise!Stops(q, x)) = InsertAt(q, k, x)
<1> DEFINE S == mp5!Promise!Stops(q, x)
<1>1. S = {i \in DOMAIN q : KeyComp(x, q[i]) <= 0}
  BY DEF mp5!Promise!Stops
<1>2. Len(q) \in Nat /\ DOMAIN q = 1..Len(q) /\ k \in Nat /\ 1 <= k /\ k <= Len(q) + 1
  OBVIOUS
<1>3. ASSUME NEW i \in S  PROVE i \in Nat /\ k <= i /\ i <= Len(q)
  <2>1. i \in 1..Len(q) /\ KeyComp(x, q[i]) <= 0 /\ KeyComp(x, q[i]) \in Int
    BY <1>1, <1>2, <1>3, CompAssumption
  <2>2. ~ (i \in 1..(k - 1))
    BY <2>1
  <2> QED BY <1>2, <2>1, <2>2
<1>4. mp5!Promise!OfferPosition(q, S) = k
  <2>1. CASE k <= Len(q)
    <3>1. k \in S
      BY <1>1, <1>2, <2>1
    <3> HIDE DEF S
    <3>2. S # {} /\ \A i \in S : (\A j \in S : i <= j) => i = k
      BY <1>2, <1>3, <3>1
    <3>3. (CHOOSE i \in S : \A j \in S : i <= j) = k
      BY <1>3, <3>1, <3>2
    <3> QED BY <3>2, <3>3 DEF mp5!Promise!OfferPosition
  <2>2. CASE k = Len(q) + 1
    <3> HIDE DEF S
    <3>1. S = {}
      BY <1>2, <1>3, <2>2
    <3> QED BY <2>2, <3>1 DEF mp5!Promise!OfferPosition
  <2> QED BY <1>2, <2>1, <2>2
<1>5. InsertAt(q, k, x) = SubSeq(q, 1, k - 1) \o << x >> \o SubSeq(q, k, Len(q))
  BY DEF InsertAt
<1> QED BY <1>4, <1>5 DEF mp5!Promise!priqueue_offer

LEMMA ChainedData ==
  ASSUME NEW c, NEW h, NEW f, Chained(c, h, f)
  PROVE  /\ c \in Seq(Cell) /\ IsInjective(c) /\ Len(c) \in Nat /\ DOMAIN c = 1..Len(c)
         /\ DataOf(c, f) \in Seq(Pointer) /\ Len(DataOf(c, f)) = Len(c)
         /\ \A i \in 1..Len(c) : /\ DataOf(c, f)[i] = f[c[i]].data /\ f[c[i]].data \in Pointer
                                 /\ c[i] \in Cell /\ c[i] \in ToSet(c)
<1>1. c \in Seq(Cell) /\ IsInjective(c)
  BY DEF Chained, Forward
<1>2. \A i \in 1..Len(c) : f[c[i]].data \in Pointer
  BY DEF Chained, SameData
<1>3. Len(c) \in Nat /\ DOMAIN c = 1..Len(c) /\ \A i \in 1..Len(c) : c[i] \in Cell
  BY <1>1
<1>4. \A i \in 1..Len(c) : c[i] \in ToSet(c)
  BY <1>3 DEF ToSet
<1>5. /\ DataOf(c, f) \in Seq(Pointer) /\ Len(DataOf(c, f)) = Len(c)
      /\ \A i \in 1..Len(c) : DataOf(c, f)[i] = f[c[i]].data
  BY <1>2, <1>3 DEF DataOf
<1> QED BY <1>1, <1>2, <1>3, <1>4, <1>5

\* A cell n linked in at place k.
LEMMA PriLinksIn ==
  ASSUME NEW c, NEW h, NEW f, Chained(c, h, f),
         NEW n \in Cell, n \notin ToSet(c), NEW k \in 1..(Len(c) + 1),
         NEW g, g[n].data \in Pointer, \A x \in Cell : x # n => g[x].data = f[x].data,
         NextIn(c, Cell, NULL, CellNext(f), n, k, CellNext(g)),
         PrevIn(c, Cell, NULL, CellPrev(f), n, k, CellPrev(g))
  PROVE  /\ Chained(InsertAt(c, k, n), IF k = 1 THEN n ELSE h, g)
         /\ DataOf(InsertAt(c, k, n), g) = InsertAt(DataOf(c, f), k, g[n].data)
         /\ Len(InsertAt(c, k, n)) = Len(c) + 1 /\ ToSet(InsertAt(c, k, n)) = ToSet(c) \cup {n}
         /\ InsertAt(c, k, n) \in Seq(Cell)
<1> DEFINE d == InsertAt(c, k, n)
<1>1. Forward(c, Cell, NULL, h, CellNext(f)) /\ Back(c, NULL, CellPrev(f))
  BY DEF Chained
<1>2. c \in Seq(Cell) /\ IsInjective(c)
  BY ChainedData
<1>3. /\ d \in Seq(Cell) /\ Len(d) = Len(c) + 1
      /\ \A i \in 1..(Len(c) + 1) : d[i] = IF i < k THEN c[i] ELSE IF i = k THEN n ELSE c[i - 1]
  BY <1>2, InsertAtElements
<1>4. IsInjective(d) /\ ToSet(d) = ToSet(c) \cup {n}
  BY <1>2, InsertAtApart
<1>5. Forward(d, Cell, NULL, IF k = 1 THEN n ELSE h, CellNext(g))
  BY <1>1, ForwardInsert
<1>6. Back(d, NULL, CellPrev(g))
  BY <1>1, <1>2, BackInsert
<1>7. \A x \in ToSet(c) : x \in Cell /\ x # n /\ f[x].data \in Pointer /\ g[x].data = f[x].data
  <2>1. \A x \in ToSet(c) : \E i \in 1..Len(c) : x = c[i]
    BY <1>2 DEF ToSet
  <2>2. \A i \in 1..Len(c) : f[c[i]].data \in Pointer /\ c[i] \in Cell
    BY ChainedData
  <2> QED BY <2>1, <2>2
<1>8. SameData(c, g, f, Pointer)
  <2>1. \A i \in 1..Len(c) : c[i] \in ToSet(c)
    BY ChainedData
  <2> QED BY <1>7, <2>1 DEF SameData
<1>9. SameData(d, g, g, Pointer)
  <2>1. \A i \in 1..Len(d) : d[i] \in ToSet(d)
    BY <1>3 DEF ToSet
  <2> HIDE DEF d
  <2>2. \A i \in 1..Len(d) : d[i] \in ToSet(c) \/ d[i] = n
    BY <1>4, <2>1
  <2> QED BY <1>7, <2>2 DEF SameData
<1>10. DataOf(d, g) = InsertAt(DataOf(c, f), k, g[n].data)
  BY <1>2, <1>8, DataInsert
<1>11. Chained(d, IF k = 1 THEN n ELSE h, g)
  BY <1>5, <1>6, <1>9 DEF Chained
<1> QED BY <1>3, <1>4, <1>10, <1>11

\* What a call does to a list that is not being destroyed.
LEMMA PriIdleThen ==
  ASSUME PriTypeOK', pri_pc' = "idle", pri_answer'.op # "destroy",
         NEW d \in Seq(Cell), Chained(d, pri_head', cell'), Len(d) = pri_size', cells' = ToSet(d)
  PROVE  PriInv' /\ PriMap' = DataOf(d, cell')
<1>1. PriMap' = DataOf(d, cell')
  BY PriMapIsThen DEF PriMap, mp5!IsDown
<1>2. Holds(d)'
  BY DEF Holds, Chained, CellNext, CellPrev
<1>3. (\E c \in Seq(Cell) : Holds(c) /\ cells = ToSet(c))'
  BY <1>2
<1> QED BY <1>1, <1>3 DEF PriInv

LEMMA PriOffers ==
  ASSUME PriTypeOK, NEW c, Holds(c), pri_size < QueueLen, NEW x \in Pointer,
         NEW n \in Cell, n \notin ToSet(c), NEW k \in 1..(Len(c) + 1),
         pri_pc \in {"idle", "offer"}, pri_answer.op # "destroy",
         \A i \in 1..(k - 1) : KeyComp(x, cell[c[i]].data) > 0,
         k <= Len(c) => KeyComp(x, cell[c[k]].data) <= 0,
         cell' \in [Cell -> CellRecords], cell'[n].data = x,
         \A y \in Cell : y # n => cell'[y].data = cell[y].data,
         NextIn(c, Cell, NULL, CellNext(cell), n, k, CellNext(cell')),
         PrevIn(c, Cell, NULL, CellPrev(cell), n, k, CellPrev(cell')),
         pri_head' = (IF k = 1 THEN n ELSE pri_head), pri_size' = pri_size + 1,
         cells' = ToSet(c) \cup {n}, pri_pc' = "idle",
         NEW j \in 0..Len(c), pri_answer' = [op |-> "offer", ret |-> j]
  PROVE  PriInv' /\ PriMapStep
<1> DEFINE d == InsertAt(c, k, n)  q == DataOf(c, cell)
<1>1. Chained(c, pri_head, cell) /\ Len(c) = pri_size /\ pri_size \in Nat
  BY DEF Holds, PriTypeOK
<1>2. /\ Chained(d, pri_head', cell') /\ DataOf(d, cell') = InsertAt(q, k, x)
      /\ Len(d) = pri_size' /\ cells' = ToSet(d) /\ d \in Seq(Cell)
  <2>1. /\ Chained(d, IF k = 1 THEN n ELSE pri_head, cell')
        /\ DataOf(d, cell') = InsertAt(q, k, cell'[n].data)
        /\ Len(d) = Len(c) + 1 /\ ToSet(d) = ToSet(c) \cup {n} /\ d \in Seq(Cell)
    BY <1>1, PriLinksIn
  <2> QED BY <1>1, <2>1
<1>3. q \in Seq(Pointer) /\ Len(q) = Len(c) /\ \A i \in 1..Len(c) : q[i] = cell[c[i]].data
  BY <1>1, ChainedData
<1>4. PriMap = q
  BY PriMapIs DEF PriMap, mp5!IsDown
<1>5. PriTypeOK' /\ pri_answer'.op # "destroy"
  BY <1>1 DEF PriTypeOK
<1> HIDE DEF d, q
<1>6. PriInv' /\ PriMap' = InsertAt(q, k, x)
  BY <1>2, <1>5, PriIdleThen
<1>7. mp5!Promise!priqueue_offer(q, x, mp5!Promise!Stops(q, x)) = InsertAt(q, k, x)
  <2>1. k \in 1..(Len(q) + 1) /\ (k <= Len(q) => KeyComp(x, q[k]) <= 0)
    BY <1>1, <1>3
  <2>2. \A i \in 1..(k - 1) : KeyComp(x, q[i]) > 0
    BY <1>1, <1>3
  <2> QED BY <1>3, <2>1, <2>2, StopIs
<1>8. mp5!Promise!SpecOffer
  <2>1. Len(PriMap) < QueueLen /\ j \in 0..Len(PriMap)
    BY <1>1, <1>3, <1>4
  <2>2. PriMap' = mp5!Promise!priqueue_offer(PriMap, x, mp5!Promise!Stops(PriMap, x))
    BY <1>4, <1>6, <1>7
  <2> QED BY <2>1, <2>2 DEF mp5!Promise!SpecOffer, PriMap
<1> QED BY <1>6, <1>8 DEF PriMapStep, mp5!Promise!SpecNext

NewCell(x) == [data |-> x, next |-> NULL, prev |-> NULL]

LEMMA NewCellIs == \A x : [mp5!NoCell EXCEPT !.data = x] = NewCell(x)
BY DEF mp5!NoCell, NewCell

LEMMA PriOfferCalls == ASSUME PriInv, mp5!OfferCall  PROVE PriInv' /\ PriMapStep
<1>1. PICK x \in Pointer, n \in Cell \ cells :
        /\ pri_pc = "idle" /\ pri_size < QueueLen /\ cells' = cells \cup {n}
        /\ cell' = [cell EXCEPT ![n] = NewCell(x)]
        /\ \/ /\ pri_head = NULL /\ pri_head' = n /\ pri_size' = pri_size + 1 /\ mp5!Return("offer", 0)
           \/ /\ pri_head # NULL /\ pri_pc' = "offer" /\ ptr' = x /\ new_node' = n /\ curr' = pri_head /\ index' = 0
              /\ UNCHANGED << pri_head, pri_size, pri_answer >>
  BY NewCellIs DEF mp5!OfferCall
<1>2. PICK c \in Seq(Cell) : Holds(c) /\ cells = ToSet(c)
  BY <1>1 DEF PriInv
<1>3. PriTypeOK /\ pri_answer.op # "destroy"
  BY <1>1 DEF PriInv
<1>4. /\ Chained(c, pri_head, cell) /\ Len(c) = pri_size /\ n \notin ToSet(c) /\ n \in Cell
      /\ pri_head = IF Len(c) = 0 THEN NULL ELSE c[1]
  BY <1>1, <1>2 DEF Holds, Chained, Forward
<1>5. cell \in [Cell -> CellRecords] /\ NewCell(x) \in CellRecords
  BY <1>3 DEF PriTypeOK, CellRecords, NewCell
<1>6. /\ cell' \in [Cell -> CellRecords] /\ cell'[n] = NewCell(x)
      /\ \A y \in Cell : y # n => cell'[y] = cell[y]
  BY <1>1, <1>5
<1>7. \A i \in 1..Len(c) : c[i] \in Cell /\ c[i] # n
  BY <1>4, ChainedData
<1>8. CASE pri_head = NULL /\ pri_head' = n /\ pri_size' = pri_size + 1 /\ mp5!Return("offer", 0)
  <2>1. Len(c) = 0
    <3>1. Len(c) # 0 => 1 \in 1..Len(c)
      BY <1>4, ChainedData
    <3> QED BY <1>4, <1>7, <1>8, <3>1, NullAssumption
  <2>2. /\ NextIn(c, Cell, NULL, CellNext(cell), n, 1, CellNext(cell'))
        /\ PrevIn(c, Cell, NULL, CellPrev(cell), n, 1, CellPrev(cell'))
    BY <1>6, <2>1 DEF NextIn, PrevIn, CellNext, CellPrev, NewCell
  <2>3. pri_pc' = "idle" /\ pri_answer' = [op |-> "offer", ret |-> 0]
    BY <1>8 DEF mp5!Return
  <2>4. cell'[n].data = x /\ \A y \in Cell : y # n => cell'[y].data = cell[y].data
    BY <1>6 DEF NewCell
  <2>5. pri_size < QueueLen /\ cells' = ToSet(c) \cup {n} /\ pri_pc = "idle"
    BY <1>1, <1>2
  <2>6. /\ 1 \in 1..(Len(c) + 1) /\ 0 \in 0..Len(c) /\ ~ (1 <= Len(c))
        /\ \A i \in 1..(1 - 1) : KeyComp(x, cell[c[i]].data) > 0
    BY <2>1
  <2> HIDE DEF NewCell
  <2> QED BY <1>2, <1>3, <1>4, <1>6, <1>8, <2>2, <2>3, <2>4, <2>5, <2>6, PriOffers
<1>9. CASE /\ pri_head # NULL /\ pri_pc' = "offer" /\ ptr' = x /\ new_node' = n /\ curr' = pri_head /\ index' = 0
           /\ UNCHANGED << pri_head, pri_size, pri_answer >>
  <2>1. Chained(c, pri_head, cell')
    <3>1. /\ Same(c, CellNext(cell'), CellNext(cell)) /\ Same(c, CellPrev(cell'), CellPrev(cell))
          /\ SameData(c, cell', cell', Pointer)
      <4>1. \A i \in 1..Len(c) : cell'[c[i]] = cell[c[i]] /\ cell[c[i]].data \in Pointer
        BY <1>4, <1>6, <1>7, ChainedData
      <4> QED BY <1>7, <4>1 DEF Same, SameData, CellNext, CellPrev
    <3>2. /\ Forward(c, Cell, NULL, pri_head, CellNext(cell'))
          /\ Back(c, NULL, CellPrev(cell'))
      BY <1>4, <3>1, ForwardSame, BackSame DEF Chained
    <3> QED BY <3>1, <3>2 DEF Chained
  <2>2. DataOf(c, cell') = DataOf(c, cell)
    BY <1>6, <1>7 DEF DataOf
  <2>3. Len(c) # 0 /\ Len(c) \in Nat
    BY <1>4, <1>9, ChainedData
  <2>4. Offering(c)'
    <3>1. Holds(c)'
      BY <1>4, <1>9, <2>1 DEF Holds, Chained, CellNext, CellPrev
    <3>2. 0 \in 0..(Len(c) - 1) /\ c[0 + 1] = pri_head /\ \A i \in 1..0 : KeyComp(x, cell'[c[i]].data) > 0
      BY <1>4, <2>3
    <3> QED BY <1>1, <1>2, <1>4, <1>6, <1>9, <3>1, <3>2 DEF Offering, NewCell
  <2>5. PriTypeOK'
    BY <1>3, <1>6, <1>9 DEF PriTypeOK
  <2>6. PriInv'
    BY <1>2, <1>3, <1>9, <2>4, <2>5 DEF PriInv
  <2>7. PriMap' = PriMap
    <3>1. PriMap = DataOf(c, cell)
      BY <1>1, <1>2, PriMapIs DEF PriMap, mp5!IsDown
    <3>2. PriMap' = DataOf(c, cell')
      BY <1>4, <1>9, <2>1, PriMapIsThen DEF PriMap, mp5!IsDown
    <3> QED BY <2>2, <3>1, <3>2
  <2> QED BY <1>9, <2>6, <2>7 DEF PriMapStep
<1> QED BY <1>1, <1>8, <1>9

\* The scan at place index + 1.
LEMMA PriScans ==
  ASSUME PriInv, pri_pc = "offer"
  PROVE  \E c \in Seq(Cell) :
           /\ Offering(c) /\ Chained(c, pri_head, cell) /\ Len(c) = pri_size /\ Len(c) \in Nat
           /\ index \in Nat /\ index + 1 \in 1..Len(c) /\ curr = c[index + 1] /\ curr \in Cell /\ curr # new_node
           /\ new_node \in Cell /\ new_node \notin ToSet(c)
           /\ cell \in [Cell -> CellRecords] /\ cell[new_node] = NewCell(ptr)
           /\ cell[curr].next = (IF index + 1 = Len(c) THEN NULL ELSE c[index + 2])
           /\ cell[curr].prev = (IF index = 0 THEN NULL ELSE c[index])
           /\ pri_head = c[1] /\ (curr = pri_head <=> index = 0)
           /\ \A i \in 1..Len(c) : c[i] \in Cell /\ c[i] # NULL /\ c[i] # new_node
           /\ \A i, j \in 1..Len(c) : c[i] = c[j] => i = j
           /\ PriTypeOK /\ pri_answer.op # "destroy"
<1>1. PICK c \in Seq(Cell) : Offering(c)
  BY DEF PriInv
<1>2. /\ Chained(c, pri_head, cell) /\ Len(c) = pri_size /\ index \in 0..(Len(c) - 1) /\ curr = c[index + 1]
      /\ new_node \in Cell /\ new_node \notin ToSet(c) /\ cell[new_node] = NewCell(ptr)
      /\ PriTypeOK /\ pri_answer.op # "destroy"
  BY <1>1 DEF Offering, Holds, PriInv, NewCell
<1>3. /\ Len(c) \in Nat /\ IsInjective(c) /\ DOMAIN c = 1..Len(c)
      /\ \A i \in 1..Len(c) : c[i] \in Cell /\ c[i] \in ToSet(c)
  BY <1>2, ChainedData
<1>4. /\ \A i \in 1..Len(c) : c[i] \in Cell /\ c[i] # NULL /\ c[i] # new_node
      /\ \A i, j \in 1..Len(c) : c[i] = c[j] => i = j
  BY <1>2, <1>3, NullAssumption DEF IsInjective
<1>5. /\ index \in Nat /\ index + 1 \in 1..Len(c) /\ 1 \in 1..Len(c) /\ Len(c) # 0
      /\ (index + 1 = 1 <=> index = 0) /\ (index + 1) - 1 = index /\ (index + 1) + 1 = index + 2
  BY <1>2, <1>3
<1>6. /\ pri_head = c[1]
      /\ \A i \in 1..Len(c) : CellNext(cell)[c[i]] = IF i = Len(c) THEN NULL ELSE c[i + 1]
      /\ \A i \in 1..Len(c) : CellPrev(cell)[c[i]] = IF i = 1 THEN NULL ELSE c[i - 1]
  BY <1>2, <1>5 DEF Chained, Forward, Back
<1>7. CellNext(cell)[curr] = cell[curr].next /\ CellPrev(cell)[curr] = cell[curr].prev
  BY <1>2, <1>4, <1>5 DEF CellNext, CellPrev
<1>8. /\ cell[curr].next = (IF index + 1 = Len(c) THEN NULL ELSE c[index + 2])
      /\ cell[curr].prev = (IF index = 0 THEN NULL ELSE c[index])
  BY <1>2, <1>5, <1>6, <1>7
<1>9. curr = pri_head <=> index = 0
  BY <1>2, <1>4, <1>5, <1>6
<1>10. cell \in [Cell -> CellRecords]
  BY <1>2 DEF PriTypeOK
<1> QED BY <1>1, <1>2, <1>3, <1>4, <1>5, <1>6, <1>8, <1>9, <1>10

\* The writes of priqueue_offer that link n in, between x and b or after b, and
\* what they leave.
WritesBetween(f, g, n, x, b) ==
  g = [f EXCEPT ![n].next = b, ![x].next = n, ![n].prev = x, ![b].prev = n]
WritesAfter(f, g, n, b) == g = [f EXCEPT ![b].next = n, ![n].prev = b, ![n].next = NULL]
IsBetween(f, g, n, x, b) ==
  /\ g \in [Cell -> CellRecords]
  /\ \A y \in Cell : /\ g[y].data = f[y].data
                     /\ g[y].next = IF y = n THEN b ELSE IF y = x THEN n ELSE f[y].next
                     /\ g[y].prev = IF y = n THEN x ELSE IF y = b THEN n ELSE f[y].prev
IsAfter(f, g, n, b) ==
  /\ g \in [Cell -> CellRecords]
  /\ \A y \in Cell : /\ g[y].data = f[y].data
                     /\ g[y].next = IF y = n THEN NULL ELSE IF y = b THEN n ELSE f[y].next
                     /\ g[y].prev = IF y = n THEN b ELSE f[y].prev

WroteNext(f, g, m, v, y) ==
  g[y].data = f[y].data /\ g[y].prev = f[y].prev /\ g[y].next = IF y = m THEN v ELSE f[y].next
WrotePrev(f, g, m, v, y) ==
  g[y].data = f[y].data /\ g[y].next = f[y].next /\ g[y].prev = IF y = m THEN v ELSE f[y].prev

LEMMA WriteField ==
  ASSUME NEW f \in [Cell -> CellRecords], NEW m \in Cell, NEW v \in Cell \cup {NULL}
  PROVE  /\ [f EXCEPT ![m].next = v] \in [Cell -> CellRecords]
         /\ [f EXCEPT ![m].prev = v] \in [Cell -> CellRecords]
         /\ \A y \in Cell : /\ WroteNext(f, [f EXCEPT ![m].next = v], m, v, y)
                            /\ WrotePrev(f, [f EXCEPT ![m].prev = v], m, v, y)
<1>1. \A y \in Cell : f[y] \in CellRecords
  OBVIOUS
<1>2. /\ [f EXCEPT ![m].next = v] \in [Cell -> CellRecords]
      /\ \A y \in Cell : WroteNext(f, [f EXCEPT ![m].next = v], m, v, y)
  BY <1>1 DEF WroteNext, CellRecords
<1>3. /\ [f EXCEPT ![m].prev = v] \in [Cell -> CellRecords]
      /\ \A y \in Cell : WrotePrev(f, [f EXCEPT ![m].prev = v], m, v, y)
  BY <1>1 DEF WrotePrev, CellRecords
<1> QED BY <1>2, <1>3

LEMMA FieldsAre ==
  ASSUME NEW f \in [Cell -> CellRecords], NEW g, NEW n \in Cell, NEW b \in Cell, n # b
  PROVE  /\ \A x \in Cell : x # n /\ x # b /\ WritesBetween(f, g, n, x, b) => IsBetween(f, g, n, x, b)
         /\ WritesAfter(f, g, n, b) => IsAfter(f, g, n, b)
<1>2. ASSUME NEW x \in Cell, x # n, x # b, WritesBetween(f, g, n, x, b)  PROVE IsBetween(f, g, n, x, b)
  <2> DEFINE g1 == [f EXCEPT ![n].next = b]
             g2 == [g1 EXCEPT ![x].next = n]
             g3 == [g2 EXCEPT ![n].prev = x]
             g4 == [g3 EXCEPT ![b].prev = n]
  <2>1. g = g4
    BY <1>2 DEF WritesBetween
  <2>2. g1 \in [Cell -> CellRecords] /\ \A y \in Cell : WroteNext(f, g1, n, b, y)
    BY WriteField
  <2> HIDE DEF g1
  <2>3. g2 \in [Cell -> CellRecords] /\ \A y \in Cell : WroteNext(g1, g2, x, n, y)
    BY <2>2, WriteField
  <2> HIDE DEF g2
  <2>4. g3 \in [Cell -> CellRecords] /\ \A y \in Cell : WrotePrev(g2, g3, n, x, y)
    BY <2>3, WriteField
  <2> HIDE DEF g3
  <2>5. g4 \in [Cell -> CellRecords] /\ \A y \in Cell : WrotePrev(g3, g4, b, n, y)
    BY <2>4, WriteField
  <2> HIDE DEF g4
  <2> QED BY <1>2, <2>1, <2>2, <2>3, <2>4, <2>5 DEF IsBetween, WroteNext, WrotePrev
<1>3. ASSUME WritesAfter(f, g, n, b)  PROVE IsAfter(f, g, n, b)
  <2> DEFINE g1 == [f EXCEPT ![b].next = n]
             g2 == [g1 EXCEPT ![n].prev = b]
             g3 == [g2 EXCEPT ![n].next = NULL]
  <2>1. g = g3
    BY <1>3 DEF WritesAfter
  <2>2. g1 \in [Cell -> CellRecords] /\ \A y \in Cell : WroteNext(f, g1, b, n, y)
    BY WriteField
  <2> HIDE DEF g1
  <2>3. g2 \in [Cell -> CellRecords] /\ \A y \in Cell : WrotePrev(g1, g2, n, b, y)
    BY <2>2, WriteField
  <2> HIDE DEF g2
  <2>4. g3 \in [Cell -> CellRecords] /\ \A y \in Cell : WroteNext(g2, g3, n, NULL, y)
    BY <2>3, WriteField
  <2> HIDE DEF g3
  <2> QED BY <2>1, <2>2, <2>3, <2>4 DEF IsAfter, WroteNext, WrotePrev
<1> QED BY <1>2, <1>3

LEMMA PriOfferLinks ==
  ASSUME PriInv, mp5!OfferBefore \/ mp5!OfferAtTail  PROVE PriInv' /\ PriMapStep
<1>1. pri_pc = "offer"
  BY DEF mp5!OfferBefore, mp5!OfferAtTail
<1>2. PICK c \in Seq(Cell) :
        /\ Offering(c) /\ Len(c) = pri_size /\ Len(c) \in Nat
        /\ index \in Nat /\ index + 1 \in 1..Len(c) /\ curr = c[index + 1] /\ curr \in Cell /\ curr # new_node
        /\ new_node \in Cell /\ new_node \notin ToSet(c)
        /\ cell \in [Cell -> CellRecords] /\ cell[new_node] = NewCell(ptr)
        /\ cell[curr].next = (IF index + 1 = Len(c) THEN NULL ELSE c[index + 2])
        /\ cell[curr].prev = (IF index = 0 THEN NULL ELSE c[index])
        /\ pri_head = c[1] /\ (curr = pri_head <=> index = 0)
        /\ \A i \in 1..Len(c) : c[i] \in Cell /\ c[i] # NULL /\ c[i] # new_node
        /\ \A i, j \in 1..Len(c) : c[i] = c[j] => i = j
        /\ PriTypeOK /\ pri_answer.op # "destroy"
  BY <1>1, PriScans
<1>3. /\ Holds(c) /\ pri_size < QueueLen /\ ptr \in Pointer /\ cells = ToSet(c) \cup {new_node}
      /\ \A i \in 1..index : KeyComp(ptr, cell[c[i]].data) > 0
  BY <1>2 DEF Offering
<1>4. cell[new_node].data = ptr /\ cell[new_node].next = NULL /\ cell[new_node].prev = NULL
  BY <1>2 DEF NewCell
<1>5. index # 0 => index \in 1..Len(c) /\ c[index] \in Cell /\ c[index] # curr /\ c[index] # new_node
  BY <1>2
<1>6. CASE /\ KeyComp(ptr, cell[curr].data) <= 0 /\ curr = pri_head
           /\ cell' = [cell EXCEPT ![new_node].next = curr, ![curr].prev = new_node]
           /\ pri_head' = new_node /\ mp5!Return("offer", 0) /\ pri_size' = pri_size + 1 /\ cells' = cells
  <2>1. /\ cell' \in [Cell -> CellRecords]
        /\ \A y \in Cell : /\ cell'[y].data = cell[y].data
                           /\ cell'[y].next = IF y = new_node THEN curr ELSE cell[y].next
                           /\ cell'[y].prev = IF y = curr THEN new_node ELSE cell[y].prev
    <3>1. cell \in [Cell -> CellRecords] /\ new_node \in Cell /\ curr \in Cell /\ curr # new_node
      BY <1>2
    <3>2. cell' = [cell EXCEPT ![new_node].next = curr, ![curr].prev = new_node]
      BY <1>6
    <3>3. \A y \in Cell : cell[y] \in CellRecords
      BY <3>1
    <3> QED BY <3>1, <3>2, <3>3 DEF CellRecords
  <2>2. index = 0 /\ 1 \in 1..(Len(c) + 1) /\ 1 # Len(c) + 1 /\ 1 <= Len(c) /\ c[1] = curr /\ 0 \in 0..Len(c)
    BY <1>2, <1>6
  <2>3. /\ NextIn(c, Cell, NULL, CellNext(cell), new_node, 1, CellNext(cell'))
        /\ PrevIn(c, Cell, NULL, CellPrev(cell), new_node, 1, CellPrev(cell'))
    <3>1. \A y \in Cell : /\ CellNext(cell')[y] = cell'[y].next /\ CellNext(cell)[y] = cell[y].next
                          /\ CellPrev(cell')[y] = cell'[y].prev /\ CellPrev(cell)[y] = cell[y].prev
      BY DEF CellNext, CellPrev
    <3> QED BY <1>2, <1>4, <2>1, <2>2, <3>1 DEF NextIn, PrevIn
  <2>4. pri_pc' = "idle" /\ pri_answer' = [op |-> "offer", ret |-> 0]
    BY <1>6 DEF mp5!Return
  <2>5. cell'[new_node].data = ptr /\ \A i \in 1..(1 - 1) : KeyComp(ptr, cell[c[i]].data) > 0
    BY <1>2, <1>4, <2>1
  <2>6. \A y \in Cell : y # new_node => cell'[y].data = cell[y].data
    BY <2>1
  <2> QED BY <1>1, <1>2, <1>3, <1>6, <2>1, <2>2, <2>3, <2>4, <2>5, <2>6, PriOffers
<1>7. CASE /\ KeyComp(ptr, cell[curr].data) <= 0 /\ curr # pri_head
           /\ cell' = [cell EXCEPT ![new_node].next = curr, ![cell[curr].prev].next = new_node,
                                   ![new_node].prev = cell[curr].prev, ![curr].prev = new_node]
           /\ pri_head' = pri_head /\ mp5!Return("offer", index) /\ pri_size' = pri_size + 1 /\ cells' = cells
  <2> DEFINE k == index + 1
  <2>2. /\ index # 0 /\ k \in 1..(Len(c) + 1) /\ k # Len(c) + 1 /\ k <= Len(c) /\ k # 1 /\ k > 1 /\ k - 1 = index
        /\ c[k] = curr /\ index \in 0..Len(c) /\ cell[curr].prev = c[index]
    BY <1>2, <1>7
  <2>7. cell' = [cell EXCEPT ![new_node].next = curr, ![c[index]].next = new_node,
                             ![new_node].prev = c[index], ![curr].prev = new_node]
    BY <1>7, <2>2
  <2>8. c[index] \in Cell /\ c[index] # curr /\ c[index] # new_node
    BY <1>5, <2>2
  <2>1. /\ cell' \in [Cell -> CellRecords]
        /\ \A y \in Cell :
             /\ cell'[y].data = cell[y].data
             /\ cell'[y].next = IF y = new_node THEN curr ELSE IF y = c[index] THEN new_node ELSE cell[y].next
             /\ cell'[y].prev = IF y = new_node THEN c[index] ELSE IF y = curr THEN new_node ELSE cell[y].prev
    <3>1. cell \in [Cell -> CellRecords] /\ new_node \in Cell /\ curr \in Cell /\ curr # new_node
      BY <1>2
    <3>2. WritesBetween(cell, cell', new_node, c[index], curr)
      BY <2>7 DEF WritesBetween
    <3>3. IsBetween(cell, cell', new_node, c[index], curr)
      BY <2>8, <3>1, <3>2, FieldsAre
    <3> QED BY <3>3 DEF IsBetween
  <2> HIDE DEF k
  <2>3. /\ NextIn(c, Cell, NULL, CellNext(cell), new_node, k, CellNext(cell'))
        /\ PrevIn(c, Cell, NULL, CellPrev(cell), new_node, k, CellPrev(cell'))
    <3>1. \A y \in Cell : /\ CellNext(cell')[y] = cell'[y].next /\ CellNext(cell)[y] = cell[y].next
                          /\ CellPrev(cell')[y] = cell'[y].prev /\ CellPrev(cell)[y] = cell[y].prev
      BY DEF CellNext, CellPrev
    <3> QED BY <1>2, <2>1, <2>2, <3>1 DEF NextIn, PrevIn
  <2>4. pri_pc' = "idle" /\ pri_answer' = [op |-> "offer", ret |-> index]
    BY <1>7 DEF mp5!Return
  <2>5. cell'[new_node].data = ptr /\ \A i \in 1..(k - 1) : KeyComp(ptr, cell[c[i]].data) > 0
    BY <1>2, <1>3, <1>4, <2>1, <2>2
  <2>6. \A y \in Cell : y # new_node => cell'[y].data = cell[y].data
    BY <2>1
  <2>9. /\ pri_head' = (IF k = 1 THEN new_node ELSE pri_head) /\ pri_size' = pri_size + 1
        /\ cells' = ToSet(c) \cup {new_node} /\ k \in 1..(Len(c) + 1) /\ index \in 0..Len(c)
        /\ k <= Len(c) => KeyComp(ptr, cell[c[k]].data) <= 0
    BY <1>3, <1>7, <2>2
  <2>10. /\ new_node \in Cell /\ new_node \notin ToSet(c) /\ PriTypeOK /\ pri_answer.op # "destroy"
         /\ pri_pc \in {"idle", "offer"} /\ Holds(c) /\ pri_size < QueueLen /\ ptr \in Pointer
         /\ cell' \in [Cell -> CellRecords]
    BY <1>1, <1>2, <1>3, <2>1
  <2> QED BY <2>3, <2>4, <2>5, <2>6, <2>9, <2>10, PriOffers
<1>8. CASE /\ KeyComp(ptr, cell[curr].data) > 0 /\ cell[curr].next = NULL
           /\ cell' = [cell EXCEPT ![curr].next = new_node, ![new_node].prev = curr, ![new_node].next = NULL]
           /\ pri_head' = pri_head /\ mp5!Return("offer", index) /\ pri_size' = pri_size + 1 /\ cells' = cells
  <2> DEFINE k == Len(c) + 1
  <2>1. /\ cell' \in [Cell -> CellRecords]
        /\ \A y \in Cell :
             /\ cell'[y].data = cell[y].data
             /\ cell'[y].next = IF y = new_node THEN NULL ELSE IF y = curr THEN new_node ELSE cell[y].next
             /\ cell'[y].prev = IF y = new_node THEN curr ELSE cell[y].prev
    <3>1. cell \in [Cell -> CellRecords] /\ new_node \in Cell /\ curr \in Cell /\ curr # new_node
      BY <1>2
    <3>2. WritesAfter(cell, cell', new_node, curr)
      BY <1>8 DEF WritesAfter
    <3>3. IsAfter(cell, cell', new_node, curr)
      BY <3>1, <3>2, FieldsAre
    <3> QED BY <3>3 DEF IsAfter
  <2>2. /\ index + 1 = Len(c)
    <3>1. index + 1 # Len(c) => index + 2 \in 1..Len(c)
      BY <1>2
    <3> QED BY <1>2, <1>8, <3>1
  <2>3. /\ k \in 1..(Len(c) + 1) /\ ~ (k <= Len(c)) /\ k # 1 /\ k > 1 /\ k - 1 = Len(c) /\ index \in 0..Len(c)
        /\ c[k - 1] = curr /\ k = Len(c) + 1
    BY <1>2, <2>2
  <2> HIDE DEF k
  <2>4. /\ NextIn(c, Cell, NULL, CellNext(cell), new_node, k, CellNext(cell'))
        /\ PrevIn(c, Cell, NULL, CellPrev(cell), new_node, k, CellPrev(cell'))
    <3>1. \A y \in Cell : /\ CellNext(cell')[y] = cell'[y].next /\ CellNext(cell)[y] = cell[y].next
                          /\ CellPrev(cell')[y] = cell'[y].prev /\ CellPrev(cell)[y] = cell[y].prev
      BY DEF CellNext, CellPrev
    <3> QED BY <1>2, <2>1, <2>3, <3>1 DEF NextIn, PrevIn
  <2>5. pri_pc' = "idle" /\ pri_answer' = [op |-> "offer", ret |-> index]
    BY <1>8 DEF mp5!Return
  <2>6. cell'[new_node].data = ptr /\ \A i \in 1..(k - 1) : KeyComp(ptr, cell[c[i]].data) > 0
    <3>1. \A i \in 1..(k - 1) : i \in 1..index \/ i = index + 1
      BY <1>2, <2>2, <2>3
    <3> QED BY <1>2, <1>3, <1>4, <1>8, <2>1, <3>1
  <2>7. \A y \in Cell : y # new_node => cell'[y].data = cell[y].data
    BY <2>1
  <2>9. /\ pri_head' = (IF k = 1 THEN new_node ELSE pri_head) /\ pri_size' = pri_size + 1
        /\ cells' = ToSet(c) \cup {new_node} /\ k \in 1..(Len(c) + 1) /\ index \in 0..Len(c)
        /\ k <= Len(c) => KeyComp(ptr, cell[c[k]].data) <= 0
    BY <1>3, <1>8, <2>3
  <2>10. /\ new_node \in Cell /\ new_node \notin ToSet(c) /\ PriTypeOK /\ pri_answer.op # "destroy"
         /\ pri_pc \in {"idle", "offer"} /\ Holds(c) /\ pri_size < QueueLen /\ ptr \in Pointer
         /\ cell' \in [Cell -> CellRecords]
    BY <1>1, <1>2, <1>3, <2>1
  <2> QED BY <2>4, <2>5, <2>6, <2>7, <2>9, <2>10, PriOffers
<1> QED BY <1>6, <1>7, <1>8 DEF mp5!OfferBefore, mp5!OfferAtTail

LEMMA PriAdvances == ASSUME PriInv, mp5!OfferAdvance  PROVE PriInv' /\ PriMapStep
<1>1. /\ pri_pc = "offer" /\ KeyComp(ptr, cell[curr].data) > 0 /\ cell[curr].next # NULL /\ index' = index + 1
      /\ curr' = cell[curr].next
      /\ UNCHANGED << pri_head, pri_size, cell, cells, pri_pc, ptr, new_node, pri_answer >>
  BY DEF mp5!OfferAdvance
<1>2. PICK c \in Seq(Cell) :
        /\ Offering(c) /\ Len(c) \in Nat /\ index \in Nat /\ index + 1 \in 1..Len(c) /\ curr = c[index + 1]
        /\ cell[curr].next = (IF index + 1 = Len(c) THEN NULL ELSE c[index + 2])
        /\ Chained(c, pri_head, cell) /\ Len(c) = pri_size /\ PriTypeOK
  BY <1>1, PriScans
<1>3. index + 1 \in 0..(Len(c) - 1) /\ curr' = c[(index + 1) + 1]
  BY <1>1, <1>2
<1>4. \A i \in 1..(index + 1) : KeyComp(ptr, cell[c[i]].data) > 0
  <2>1. \A i \in 1..(index + 1) : i \in 1..index \/ i = index + 1
    BY <1>2
  <2> QED BY <1>1, <1>2, <2>1 DEF Offering
<1>5. Offering(c)'
  <2>1. Holds(c)'
    BY <1>1, <1>2 DEF Holds, Chained, CellNext, CellPrev
  <2> QED BY <1>1, <1>2, <1>3, <1>4, <2>1 DEF Offering
<1>6. PriInv'
  BY <1>1, <1>5 DEF PriInv, PriTypeOK
<1>7. PriMap' = PriMap
  <2>1. PriMap = DataOf(c, cell)
    BY <1>1, <1>2, PriMapIs DEF PriMap, mp5!IsDown, Offering
  <2>2. PriMap' = DataOf(c, cell')
    BY <1>1, <1>2, PriMapIsThen DEF PriMap, mp5!IsDown
  <2> QED BY <1>1, <2>1, <2>2
<1> QED BY <1>1, <1>6, <1>7 DEF PriMapStep

priMemory == << pri_head, pri_size, cell, cells, pri_pc, ptr, new_node, curr, index >>

\* A call that leaves the list alone.
LEMMA PriSame ==
  ASSUME PriInv, UNCHANGED priMemory, pri_answer'.op = "destroy" => pri_answer' = pri_answer
  PROVE  PriInv' /\ PriMap' = PriMap
<1>1. PriMap' = PriMap
  BY DEF PriMap, mp5!IsDown, mp5!Contents, mp5!Chain, priMemory
<1>2. PriTypeOK'
  BY DEF PriInv, PriTypeOK, priMemory
<1>3. (pri_pc = "idle" => \E c \in Seq(Cell) : Holds(c) /\ cells = ToSet(c))'
  BY DEF PriInv, Holds, Chained, CellNext, CellPrev, priMemory
<1>4. (pri_pc = "offer" => \E c \in Seq(Cell) : Offering(c))'
  BY DEF PriInv, Offering, Holds, Chained, CellNext, CellPrev, priMemory
<1>5. (pri_pc = "destroy" => \E c \in Seq(Cell) : Freeing(c))'
  BY DEF PriInv, Freeing, CellNext, priMemory
<1>6. (pri_pc \in {"idle", "offer"} => pri_answer.op # "destroy")' /\ (pri_pc = "destroyed" => cells = {})'
  BY DEF PriInv, priMemory
<1> QED BY <1>1, <1>2, <1>3, <1>4, <1>5, <1>6 DEF PriInv

\* Between two calls.
LEMMA PriAtRest ==
  ASSUME PriInv, pri_pc = "idle"
  PROVE  \E c \in Seq(Cell) :
           /\ Holds(c) /\ cells = ToSet(c) /\ Chained(c, pri_head, cell) /\ Len(c) = pri_size /\ Len(c) \in Nat
           /\ PriMap = DataOf(c, cell) /\ DataOf(c, cell) \in Seq(Pointer) /\ Len(DataOf(c, cell)) = pri_size
           /\ (pri_head = NULL <=> pri_size = 0) /\ (pri_size # 0 => pri_head = c[1] /\ 1 \in 1..Len(c))
           /\ \A i \in 1..Len(c) : c[i] \in Cell /\ DataOf(c, cell)[i] = cell[c[i]].data
           /\ PriTypeOK /\ pri_answer.op # "destroy"
<1>1. PICK c \in Seq(Cell) : Holds(c) /\ cells = ToSet(c)
  BY DEF PriInv
<1>2. Chained(c, pri_head, cell) /\ Len(c) = pri_size /\ PriMap = DataOf(c, cell)
  BY <1>1, PriMapIs DEF Holds, PriMap, mp5!IsDown
<1>3. /\ Len(c) \in Nat /\ DataOf(c, cell) \in Seq(Pointer) /\ Len(DataOf(c, cell)) = Len(c)
      /\ \A i \in 1..Len(c) : c[i] \in Cell /\ DataOf(c, cell)[i] = cell[c[i]].data
  BY <1>2, ChainedData
<1>4. pri_head = IF Len(c) = 0 THEN NULL ELSE c[1]
  BY <1>2 DEF Chained, Forward
<1>5. Len(c) # 0 => 1 \in 1..Len(c) /\ c[1] # NULL
  BY <1>3, NullAssumption
<1> QED BY <1>1, <1>2, <1>3, <1>4, <1>5 DEF PriInv

LEMMA PriPeeks ==
  ASSUME PriInv, mp5!Peek \/ mp5!PollEmpty \/ mp5!CountCall  PROVE PriInv' /\ PriMapStep
<1>1. pri_pc = "idle" /\ UNCHANGED priMemory
  BY DEF mp5!Peek, mp5!PollEmpty, mp5!CountCall, priMemory, mp5!locals
<1>2. PICK c \in Seq(Cell) :
           /\ PriMap = DataOf(c, cell) /\ DataOf(c, cell) \in Seq(Pointer) /\ Len(DataOf(c, cell)) = pri_size
           /\ (pri_head = NULL <=> pri_size = 0) /\ (pri_size # 0 => pri_head = c[1] /\ 1 \in 1..Len(c))
           /\ \A i \in 1..Len(c) : c[i] \in Cell /\ DataOf(c, cell)[i] = cell[c[i]].data
           /\ pri_answer.op # "destroy"
  BY <1>1, PriAtRest
<1>3. /\ pri_size # 0 => PriMap # << >> /\ Head(PriMap) = cell[pri_head].data
      /\ pri_size = 0 => PriMap = << >>
      /\ Len(PriMap) = pri_size
  <2>1. PriMap \in Seq(Pointer) /\ Len(PriMap) = pri_size
    BY <1>2
  <2>2. pri_size # 0 => PriMap[1] = cell[pri_head].data
    BY <1>2
  <2> QED BY <2>1, <2>2
<1>4. CASE pri_answer' = [op |-> "peek", ret |-> IF pri_head = NULL \/ pri_size = 0 THEN NULL ELSE cell[pri_head].data]
  <2>1. PriInv' /\ PriMap' = PriMap
    BY <1>1, <1>4, PriSame
  <2>2. mp5!Promise!priqueue_peek(PriMap, NULL) = IF pri_head = NULL \/ pri_size = 0 THEN NULL ELSE cell[pri_head].data
    BY <1>2, <1>3 DEF mp5!Promise!priqueue_peek
  <2>3. mp5!Promise!SpecPeek
    BY <1>4, <2>1, <2>2 DEF mp5!Promise!SpecPeek, PriMap
  <2> QED BY <1>2, <2>1, <2>3 DEF PriMapStep, mp5!Promise!SpecNext
<1>5. CASE pri_answer' = [op |-> "poll", ret |-> NULL] /\ (pri_head = NULL \/ pri_size = 0)
  <2>1. PriInv' /\ PriMap' = PriMap
    BY <1>1, <1>5, PriSame
  <2>2. mp5!Promise!priqueue_peek(PriMap, NULL) = NULL /\ mp5!Promise!priqueue_poll(PriMap) = PriMap
    BY <1>2, <1>3, <1>5 DEF mp5!Promise!priqueue_peek, mp5!Promise!priqueue_poll
  <2>3. mp5!Promise!SpecPoll
    BY <1>5, <2>1, <2>2 DEF mp5!Promise!SpecPoll, PriMap
  <2> QED BY <1>2, <2>1, <2>3 DEF PriMapStep, mp5!Promise!SpecNext
<1>6. CASE pri_answer' = [op |-> "size", ret |-> pri_size]
  <2>1. PriInv' /\ PriMap' = PriMap
    BY <1>1, <1>6, PriSame
  <2>3. mp5!Promise!SpecSize
    BY <1>3, <1>6, <2>1 DEF mp5!Promise!SpecSize, PriMap
  <2> QED BY <1>2, <2>1, <2>3 DEF PriMapStep, mp5!Promise!SpecNext
<1> QED BY <1>4, <1>5, <1>6 DEF mp5!Peek, mp5!PollEmpty, mp5!CountCall

LEMMA PriPolls == ASSUME PriInv, mp5!Poll  PROVE PriInv' /\ PriMapStep
<1>1. /\ pri_pc = "idle" /\ pri_head # NULL /\ pri_size # 0 /\ pri_head' = cell[pri_head].next
      /\ cell' = [n \in Cell |-> CASE n = pri_head -> mp5!NoCell
                                   [] n = pri_head' -> [cell[n] EXCEPT !.prev = NULL]
                                   [] OTHER -> cell[n]]
      /\ cells' = cells \ {pri_head} /\ pri_size' = pri_size - 1 /\ pri_pc' = pri_pc
      /\ pri_answer' = [op |-> "poll", ret |-> cell[pri_head].data]
  BY DEF mp5!Poll
<1>2. PICK c \in Seq(Cell) :
           /\ cells = ToSet(c) /\ Chained(c, pri_head, cell) /\ Len(c) = pri_size /\ Len(c) \in Nat
           /\ PriMap = DataOf(c, cell) /\ pri_head = c[1] /\ 1 \in 1..Len(c)
           /\ \A i \in 1..Len(c) : c[i] \in Cell
           /\ PriTypeOK /\ pri_answer.op # "destroy"
  BY <1>1, PriAtRest
<1> DEFINE d == RemoveAt(c, 1)
<1>3. /\ cell \in [Cell -> CellRecords] /\ pri_size \in Nat
      /\ \A y \in Cell : cell[y] \in CellRecords
  BY <1>2 DEF PriTypeOK
<1>5. /\ Forward(c, Cell, NULL, pri_head, CellNext(cell)) /\ Back(c, NULL, CellPrev(cell))
      /\ SameData(c, cell, cell, Pointer) /\ c \in Seq(Cell) /\ IsInjective(c) /\ Len(c) # 0
  BY <1>1, <1>2 DEF Chained, Forward
<1>6. CellNext(cell)[pri_head] = pri_head' /\ CellNext(cell)[c[1]] = IF 1 = Len(c) THEN NULL ELSE c[2]
  <2>1. CellNext(cell)[c[1]] = IF 1 = Len(c) THEN NULL ELSE c[1 + 1]
    BY <1>2, <1>5 DEF Forward
  <2> QED BY <1>1, <1>2, <2>1 DEF CellNext
<1>4. /\ cell' \in [Cell -> CellRecords]
      /\ \A y \in Cell : y # pri_head =>
           /\ cell'[y].data = cell[y].data /\ cell'[y].next = cell[y].next
           /\ cell'[y].prev = IF y = pri_head' THEN NULL ELSE cell[y].prev
  <2>1. mp5!NoCell \in CellRecords
    BY DEF mp5!NoCell, CellRecords
  <2>2. \A y \in Cell : cell'[y] = IF y = pri_head THEN mp5!NoCell
                                   ELSE IF y = pri_head' THEN [cell[y] EXCEPT !.prev = NULL] ELSE cell[y]
    <3> DEFINE e(n) == [cell[n] EXCEPT !.prev = NULL]
               v(n) == CASE n = pri_head -> mp5!NoCell [] n = pri_head' -> e(n) [] OTHER -> cell[n]
    <3>1. cell' = [n \in Cell |-> v(n)]
      BY <1>1
    <3> HIDE DEF e
    <3>2. pri_head' # pri_head
      <4>1. 1 # Len(c) => 2 \in DOMAIN c /\ 1 \in DOMAIN c
        BY <1>2
      <4>2. c[1] # NULL /\ (1 # Len(c) => c[2] # c[1])
        BY <1>2, <1>5, <4>1, NullAssumption DEF IsInjective
      <4> QED BY <1>2, <1>6, <4>2
    <3>3. ASSUME NEW y \in Cell  PROVE v(y) = IF y = pri_head THEN mp5!NoCell ELSE IF y = pri_head' THEN e(y) ELSE cell[y]
      BY <3>2
    <3> HIDE DEF v
    <3>4. ASSUME NEW y \in Cell  PROVE cell'[y] = IF y = pri_head THEN mp5!NoCell ELSE IF y = pri_head' THEN e(y) ELSE cell[y]
      BY <3>1, <3>3
    <3> QED BY <3>4 DEF e
  <2>3. \A y \in Cell : /\ [cell[y] EXCEPT !.prev = NULL] \in CellRecords
                        /\ [cell[y] EXCEPT !.prev = NULL].data = cell[y].data
                        /\ [cell[y] EXCEPT !.prev = NULL].next = cell[y].next
                        /\ [cell[y] EXCEPT !.prev = NULL].prev = NULL
    BY <1>3 DEF CellRecords
  <2>4. \A y \in Cell : cell'[y] \in CellRecords
    BY <1>3, <2>1, <2>2, <2>3
  <2>5. cell' \in [Cell -> CellRecords]
    BY <1>1, <2>4
  <2> QED BY <2>2, <2>3, <2>5
<1>7. Forward(d, Cell, NULL, pri_head', CellNext(cell)) /\ ToSet(d) = ToSet(c) \ {pri_head}
  BY <1>5, <1>6, ForwardFirst
<1>8. /\ Len(d) = Len(c) - 1 /\ d \in Seq(Cell) /\ DOMAIN d = 1..(Len(c) - 1)
      /\ \A i \in 1..Len(d) : d[i] \in Cell /\ d[i] # pri_head /\ d[i] \in ToSet(c)
  <2>1. 1 \in DOMAIN c
    BY <1>2
  <2>2. Len(d) = Len(c) - 1 /\ d \in Seq(Cell) /\ DOMAIN d = 1..(Len(c) - 1)
    BY <2>1, RemoveAtIs
  <2>3. \A i \in 1..Len(d) : d[i] \in ToSet(d) /\ d[i] \in Cell
    BY <2>2 DEF ToSet
  <2> QED BY <1>7, <2>2, <2>3
<1> HIDE DEF d
<1>9. \A y \in Cell : /\ CellNext(cell')[y] = cell'[y].next /\ CellNext(cell)[y] = cell[y].next
                      /\ CellPrev(cell')[y] = cell'[y].prev /\ CellPrev(cell)[y] = cell[y].prev
  BY DEF CellNext, CellPrev
<1>10. Forward(d, Cell, NULL, pri_head', CellNext(cell'))
  <2>1. Same(d, CellNext(cell'), CellNext(cell))
    BY <1>4, <1>8, <1>9 DEF Same
  <2> QED BY <1>7, <2>1, ForwardSame
<1>11. Back(d, NULL, CellPrev(cell'))
  <2>1. \A x \in Cell : x # c[1] => CellPrev(cell')[x] = IF Len(c) > 1 /\ x = c[2] THEN NULL ELSE CellPrev(cell)[x]
    <3>1. pri_head' = IF 1 = Len(c) THEN NULL ELSE c[2]
      BY <1>2, <1>6
    <3>2. Len(c) > 1 <=> 1 # Len(c)
      BY <1>2
    <3> QED BY <1>2, <1>4, <1>9, <3>1, <3>2, NullAssumption
  <2> QED BY <1>5, <2>1, BackFirst DEF d
<1>12. SameData(d, cell', cell, Pointer) /\ SameData(d, cell', cell', Pointer)
  <2>1. \A x \in ToSet(c) : x \in Cell /\ cell[x].data \in Pointer
    BY <1>5 DEF ToSet, SameData
  <2> QED BY <1>4, <1>8, <2>1 DEF SameData
<1>13. /\ DataOf(c, cell) # << >> /\ Head(DataOf(c, cell)) = cell[c[1]].data
       /\ DataOf(d, cell') = Tail(DataOf(c, cell))
  BY <1>5, <1>12, DataFirst DEF d
<1>14. PriInv' /\ PriMap' = DataOf(d, cell')
  <2>1. Chained(d, pri_head', cell') /\ Len(d) = pri_size' /\ cells' = ToSet(d)
    BY <1>1, <1>2, <1>7, <1>8, <1>10, <1>11, <1>12 DEF Chained
  <2>2. PriTypeOK' /\ pri_pc' = "idle" /\ pri_answer'.op # "destroy"
    BY <1>1, <1>3, <1>4 DEF PriTypeOK
  <2> QED BY <1>8, <2>1, <2>2, PriIdleThen
<1>15. mp5!Promise!SpecPoll
  <2>1. PriMap' = mp5!Promise!priqueue_poll(PriMap) /\ mp5!Promise!priqueue_peek(PriMap, NULL) = cell[pri_head].data
    BY <1>2, <1>13, <1>14 DEF mp5!Promise!priqueue_poll, mp5!Promise!priqueue_peek
  <2> QED BY <1>1, <2>1 DEF mp5!Promise!SpecPoll, PriMap
<1> QED BY <1>2, <1>14, <1>15 DEF PriMapStep, mp5!Promise!SpecNext

LEMMA PriDestroyCalls == ASSUME PriInv, mp5!DestroyCall  PROVE PriInv' /\ PriMapStep
<1>1. /\ pri_pc = "idle" /\ pri_pc' = "destroy" /\ curr' = pri_head /\ pri_answer' = [op |-> "destroy", ret |-> 0]
      /\ UNCHANGED << pri_head, pri_size, cell, cells >>
  BY DEF mp5!DestroyCall
<1>2. PICK c \in Seq(Cell) :
        cells = ToSet(c) /\ Chained(c, pri_head, cell) /\ PriTypeOK /\ pri_answer.op # "destroy"
  BY <1>1, PriAtRest
<1>3. Freeing(c)'
  <2>1. Forward(c, Cell, NULL, pri_head, CellNext(cell))
    BY <1>2 DEF Chained
  <2> QED BY <1>1, <1>2, <2>1 DEF Freeing, CellNext
<1>4. PriInv'
  BY <1>1, <1>2, <1>3 DEF PriInv, PriTypeOK
<1>5. mp5!Promise!SpecDestroy
  BY <1>1 DEF mp5!Promise!SpecDestroy, mp5!IsDown
<1> QED BY <1>2, <1>4, <1>5 DEF PriMapStep, mp5!Promise!SpecNext, PriMap

LEMMA PriFrees == ASSUME PriInv, mp5!DestroyFree  PROVE PriInv' /\ PriMapStep
<1>1. /\ pri_pc = "destroy" /\ curr # NULL /\ cells' = cells \ {curr} /\ cell' = [cell EXCEPT ![curr] = mp5!NoCell]
      /\ curr' = cell[curr].next /\ UNCHANGED << pri_head, pri_size, pri_pc, pri_answer >>
  BY DEF mp5!DestroyFree
<1>2. PICK c \in Seq(Cell) : Forward(c, Cell, NULL, curr, CellNext(cell)) /\ cells = ToSet(c)
  BY <1>1 DEF PriInv, Freeing
<1>3. PriTypeOK /\ cell \in [Cell -> CellRecords]
  BY DEF PriInv, PriTypeOK
<1>4. Len(c) # 0 /\ Len(c) \in Nat /\ curr = c[1] /\ c[1] \in Cell
  BY <1>1, <1>2 DEF Forward
<1> DEFINE d == RemoveAt(c, 1)
<1>5. Forward(d, Cell, NULL, CellNext(cell)[curr], CellNext(cell)) /\ ToSet(d) = ToSet(c) \ {curr}
  BY <1>2, <1>4, ForwardFirst
<1> HIDE DEF d
<1>6. CellNext(cell)[curr] = curr' /\ d \in Seq(Cell)
  BY <1>1, <1>4, <1>5 DEF CellNext, Forward
<1>7. \A i \in 1..Len(d) : d[i] \in Cell /\ d[i] # curr
  <2>1. \A i \in 1..Len(d) : d[i] \in Cell /\ d[i] \in ToSet(d)
    BY <1>6 DEF ToSet
  <2> QED BY <1>5, <2>1
<1>8. Same(d, CellNext(cell'), CellNext(cell))
  BY <1>1, <1>3, <1>7 DEF Same, CellNext
<1>9. Forward(d, Cell, NULL, curr', CellNext(cell')) /\ cells' = ToSet(d)
  BY <1>1, <1>2, <1>5, <1>6, <1>8, ForwardSame
<1>10. cell' \in [Cell -> CellRecords]
  BY <1>1, <1>3 DEF mp5!NoCell, CellRecords
<1>11. Freeing(d)'
  BY <1>9 DEF Freeing, CellNext
<1>12. PriInv'
  BY <1>1, <1>3, <1>6, <1>10, <1>11 DEF PriInv, PriTypeOK
<1>13. PriMap' = PriMap
  BY <1>1 DEF PriMap, mp5!IsDown
<1> QED BY <1>1, <1>12, <1>13 DEF PriMapStep

LEMMA PriDestroyed == ASSUME PriInv, mp5!DestroyReturn  PROVE PriInv' /\ PriMapStep
<1>1. /\ pri_pc = "destroy" /\ curr = NULL /\ pri_pc' = "destroyed"
      /\ UNCHANGED << pri_head, pri_size, cell, cells, pri_answer >>
  BY DEF mp5!DestroyReturn
<1>2. PICK c \in Seq(Cell) : Forward(c, Cell, NULL, curr, CellNext(cell)) /\ cells = ToSet(c)
  BY <1>1 DEF PriInv, Freeing
<1>3. cells = {}
  <2>1. c \in Seq(Cell) /\ curr = IF Len(c) = 0 THEN NULL ELSE c[1]
    BY <1>2 DEF Forward
  <2>2. Len(c) # 0 => c[1] \in Cell
    BY <2>1
  <2>3. Len(c) = 0
    BY <1>1, <2>1, <2>2, NullAssumption
  <2> QED BY <1>2, <2>1, <2>3 DEF ToSet
<1>4. PriInv'
  BY <1>1, <1>3 DEF PriInv, PriTypeOK
<1>5. PriMap' = PriMap
  BY <1>1 DEF PriMap, mp5!IsDown
<1> QED BY <1>1, <1>4, <1>5 DEF PriMapStep

LEMMA PriMoves == [Next]_vars => mp5!Next \/ UNCHANGED priqueue
BY DEF Next, vars, Heap2, Heap1, List, Tree, Sort, PriQueue, Queue, Shell, Echo, Store

LEMMA PriSteps == PriInv /\ [Next]_vars => PriInv' /\ PriMapStep
<1> SUFFICES ASSUME PriInv, [Next]_vars  PROVE PriInv' /\ PriMapStep
  OBVIOUS
<1>1. CASE UNCHANGED priqueue
  <2>1. UNCHANGED priMemory /\ pri_answer' = pri_answer
    BY <1>1 DEF priqueue, priMemory
  <2> QED BY <2>1, PriSame DEF PriMapStep
<1>2. CASE mp5!Next
  BY <1>2, PriOfferCalls, PriOfferLinks, PriAdvances, PriPeeks, PriPolls, PriDestroyCalls, PriFrees, PriDestroyed
     DEF mp5!Next
<1> QED BY <1>1, <1>2, PriMoves

LEMMA PriStarts == Init => PriInv /\ mp5!Promise!SpecInit
<1> SUFFICES ASSUME Init  PROVE PriInv /\ mp5!Promise!SpecInit
  OBVIOUS
<1>1. /\ pri_head = NULL /\ pri_size = 0 /\ cell = [n \in Cell |-> mp5!NoCell] /\ cells = {} /\ pri_pc = "idle"
      /\ pri_answer = [op |-> "init", ret |-> 0]
  BY DEF Init, mp5!Init
<1>2. PriTypeOK
  BY <1>1 DEF PriTypeOK, mp5!NoCell, CellRecords
<1>3. << >> \in Seq(Cell) /\ Len(<< >>) = 0 /\ ToSet(<< >>) = {} /\ IsInjective(<< >>)
  BY DEF ToSet, IsInjective
<1>4. Holds(<< >>)
  BY <1>1, <1>3 DEF Holds, Chained, Forward, Back, SameData
<1>5. PriInv
  BY <1>1, <1>2, <1>3, <1>4 DEF PriInv
<1>6. mp5!Contents = << >>
  <2>1. mp5!Contents = DataOf(<< >>, cell)
    BY <1>4, PriMapIs
  <2> QED BY <1>3, <2>1 DEF DataOf
<1>7. mp5!Promise!SpecInit
  BY <1>1, <1>6 DEF mp5!Promise!SpecInit, mp5!IsDown
<1> QED BY <1>5, <1>7

LEMMA SameCardinalityOfCells == \A S : mp5!Cardinality(S) = Cardinality(S)
BY DEF mp5!Cardinality, Cardinality

LEMMA PriWellFormed == PriInv => mp5!WellFormed
<1> SUFFICES ASSUME PriInv  PROVE mp5!WellFormed
  OBVIOUS
<1>1. ASSUME pri_pc = "idle"
      PROVE  /\ cells = {mp5!Chain[i] : i \in 1..pri_size} /\ mp5!Cardinality(cells) = pri_size
             /\ pri_size = 0 => pri_head = NULL
             /\ \A i \in 1..pri_size :
                  /\ cell[mp5!Chain[i]].next = IF i = pri_size THEN NULL ELSE mp5!Chain[i + 1]
                  /\ cell[mp5!Chain[i]].prev = IF i = 1 THEN NULL ELSE mp5!Chain[i - 1]
  <2>1. PICK c \in Seq(Cell) :
           /\ Holds(c) /\ cells = ToSet(c) /\ Chained(c, pri_head, cell) /\ Len(c) = pri_size /\ Len(c) \in Nat
           /\ (pri_head = NULL <=> pri_size = 0)
    BY <1>1, PriAtRest
  <2>2. mp5!Chain = c
    BY <2>1, PriMapIs
  <2>3. IsInjective(c) /\ DOMAIN c = 1..Len(c) /\ \A i \in 1..Len(c) : c[i] \in Cell
    BY <2>1, ChainedData
  <2>4. c \in Bijection(1..pri_size, cells)
    <3>1. c \in [1..pri_size -> cells] /\ \A x \in cells : \E i \in 1..pri_size : c[i] = x
      BY <2>1, <2>3 DEF ToSet
    <3> QED BY <2>1, <2>3, <3>1 DEF Bijection, Injection, Surjection, IsInjective
  <2>5. mp5!Cardinality(cells) = pri_size
    BY <2>1, <2>4, FS_CountingElements, SameCardinalityOfCells DEF ExistsBijection
  <2>6. /\ \A i \in 1..Len(c) : CellNext(cell)[c[i]] = IF i = Len(c) THEN NULL ELSE c[i + 1]
        /\ \A i \in 1..Len(c) : CellPrev(cell)[c[i]] = IF i = 1 THEN NULL ELSE c[i - 1]
    BY <2>1 DEF Chained, Forward, Back
  <2>7. \A i \in 1..Len(c) : CellNext(cell)[c[i]] = cell[c[i]].next /\ CellPrev(cell)[c[i]] = cell[c[i]].prev
    BY <2>3 DEF CellNext, CellPrev
  <2>8. ToSet(c) = {c[i] : i \in 1..pri_size}
    BY <2>1, <2>3 DEF ToSet
  <2> QED BY <2>1, <2>2, <2>5, <2>6, <2>7, <2>8
<1>2. pri_pc = "destroy" /\ curr # NULL => curr \in cells
  <2> SUFFICES ASSUME NEW c \in Seq(Cell), Freeing(c), curr # NULL  PROVE curr \in cells
    BY DEF PriInv
  <2>1. curr = (IF Len(c) = 0 THEN NULL ELSE c[1]) /\ cells = ToSet(c)
    BY DEF Freeing, Forward
  <2>2. 1 \in DOMAIN c /\ curr = c[1]
    BY <2>1
  <2> QED BY <2>1, <2>2 DEF ToSet
<1>3. pri_pc = "destroyed" => cells = {}
  BY DEF PriInv
<1> QED BY <1>1, <1>2, <1>3 DEF mp5!WellFormed

(* mp5/libpriqueue: between calls the links forward and back agree, and no *)
(* cell is lost; offer puts the pointer where the sequence in the order of *)
(* the comparison has it, though it walks the list cell by cell; and poll, *)
(* peek and size answer as the sequence does.                              *)
THEOREM PriQueueIsSequence == Spec => ImplementsQueue
<1>1. Init => PriInv /\ mp5!Promise!SpecInit
  BY PriStarts
<1>2. PriInv /\ [Next]_vars => PriInv' /\ PriMapStep
  BY PriSteps
<1>3. PriInv => mp5!WellFormed
  BY PriWellFormed
<1> QED BY <1>1, <1>2, <1>3, PTL DEF Spec, ImplementsQueue, mp5!ImplementsQueue, mp5!Promise!Spec,
           mp5!Promise!specVars, PriMapStep, PriMap

-----------------------------------------------------------------------------
\* The heaps.  Written is what callers have in a block.
Written == Byte \cup {0}
Bytes == Written \cup {NULL}

\* What a block of length n holds in its memory, and what its caller has in it.
BlockHolds(n, memory, has) ==
  /\ Len(memory) = n
  /\ has # NULL => Len(has) <= n /\ \A i \in 1..Len(has) : memory[i] = has[i]

Blocks(ln, mm, kp) ==
  /\ ln \in Seq(Nat) /\ mm \in Seq(Seq(Bytes)) /\ kp \in Seq(Seq(Written) \cup {NULL})
  /\ Len(mm) = Len(ln) /\ Len(kp) = Len(ln) /\ Len(ln) <= MaxBlocks
  /\ \A b \in DOMAIN ln : BlockHolds(ln[b], mm[b], kp[b])

\* The blocks of F, and no others, are in the k lists: each in that of its
\* length, once.
Lists(k, fl, ln, F) ==
  /\ fl \in [0..k - 1 -> Seq(F)]
  /\ \A r \in 0..k - 1 : IsInjective(fl[r]) /\ \A i \in DOMAIN fl[r] : ln[fl[r][i]] % k = r
  /\ \A b \in F : ln[b] % k \in 0..k - 1 /\ \E i \in DOMAIN fl[ln[b] % k] : fl[ln[b] % k][i] = b

Unused(kp) == {b \in DOMAIN kp : kp[b] = NULL}
HeapInv(k) == Blocks(len, mem, kept) /\ Lists(k, free_list, len, Unused(kept))

\* sbrk makes a block, or one is unlinked that is long enough.
Extended(ln, mm, kp, n, ln2, mm2, kp2, new) ==
  /\ new = Len(ln) + 1 /\ Len(ln) < MaxBlocks
  /\ ln2 = Append(ln, n) /\ mm2 = Append(mm, [i \in 1..n |-> NULL]) /\ kp2 = Append(kp, NULL)
Unlinks(fl, ln, n, r, fl2, new) ==
  \E i \in DOMAIN fl[r] : /\ new = fl[r][i] /\ ln[new] >= n
                          /\ fl2 = [fl EXCEPT ![r] = RemoveAt(fl[r], i)]

LEMMA AddBlock ==
  ASSUME NEW ln, NEW mm, NEW kp, Blocks(ln, mm, kp), NEW n \in Nat, NEW ln2, NEW mm2, NEW kp2,
         NEW new, Extended(ln, mm, kp, n, ln2, mm2, kp2, new)
  PROVE  /\ Blocks(ln2, mm2, kp2) /\ Unused(kp2) = Unused(kp) \cup {new}
         /\ new \in DOMAIN ln2 /\ new \notin DOMAIN ln /\ ln2[new] = n
         /\ \A b \in DOMAIN ln : b \in DOMAIN ln2 /\ ln2[b] = ln[b] /\ mm2[b] = mm[b] /\ kp2[b] = kp[b]
<1> USE HeapAssumption
<1> DEFINE blank == [i \in 1..n |-> NULL]
<1>1. /\ ln \in Seq(Nat) /\ mm \in Seq(Seq(Bytes)) /\ kp \in Seq(Seq(Written) \cup {NULL})
      /\ Len(mm) = Len(ln) /\ Len(kp) = Len(ln) /\ Len(ln) \in Nat /\ Len(ln) < MaxBlocks
      /\ \A b \in DOMAIN ln : BlockHolds(ln[b], mm[b], kp[b])
  BY DEF Blocks, Extended
<1>2. blank \in Seq(Bytes) /\ Len(blank) = n
  BY DEF Bytes
<1> HIDE DEF blank
<1>3. ln2 = Append(ln, n) /\ mm2 = Append(mm, blank) /\ kp2 = Append(kp, NULL) /\ new = Len(ln) + 1
  BY DEF Extended, blank
<1>4. /\ ln2 \in Seq(Nat) /\ Len(ln2) = new /\ DOMAIN ln2 = DOMAIN ln \cup {new} /\ ln2[new] = n
      /\ \A b \in DOMAIN ln : ln2[b] = ln[b]
  BY <1>1, <1>3, AppendElements
<1>5. /\ mm2 \in Seq(Seq(Bytes)) /\ Len(mm2) = new /\ mm2[new] = blank
      /\ \A b \in DOMAIN ln : mm2[b] = mm[b]
  <2>1. DOMAIN mm = DOMAIN ln
    BY <1>1
  <2> QED BY <1>1, <1>2, <1>3, <2>1, AppendElements
<1>6. /\ kp2 \in Seq(Seq(Written) \cup {NULL}) /\ Len(kp2) = new /\ kp2[new] = NULL
      /\ DOMAIN kp = DOMAIN ln /\ DOMAIN kp2 = DOMAIN ln2 /\ \A b \in DOMAIN ln : kp2[b] = kp[b]
  <2>1. DOMAIN kp = DOMAIN ln
    BY <1>1
  <2>2. NULL \in Seq(Written) \cup {NULL}
    OBVIOUS
  <2> QED BY <1>1, <1>3, <1>4, <2>1, <2>2, AppendElements
<1>7. new \notin DOMAIN ln
  BY <1>1, <1>3
<1>8. BlockHolds(ln2[new], mm2[new], kp2[new])
  BY <1>2, <1>4, <1>5, <1>6 DEF BlockHolds
<1>9. \A b \in DOMAIN ln2 : BlockHolds(ln2[b], mm2[b], kp2[b])
  BY <1>1, <1>4, <1>5, <1>6, <1>8
<1>10. Blocks(ln2, mm2, kp2)
  BY <1>1, <1>3, <1>4, <1>5, <1>6, <1>9 DEF Blocks
<1>11. Unused(kp2) = Unused(kp) \cup {new}
  BY <1>4, <1>6, <1>7 DEF Unused
<1> QED BY <1>4, <1>5, <1>6, <1>7, <1>10, <1>11

\* A list without one of its blocks.
LEMMA UnlinkBlock ==
  ASSUME NEW k \in Nat \ {0}, NEW F, NEW fl, NEW ln, Lists(k, fl, ln, F), NEW r \in 0..k - 1,
         NEW i \in DOMAIN fl[r], NEW fl2, fl2 = [fl EXCEPT ![r] = RemoveAt(fl[r], i)]
  PROVE  Lists(k, fl2, ln, F \ {fl[r][i]}) /\ fl[r][i] \in F
<1> DEFINE b == fl[r][i]  q == fl[r]  q2 == RemoveAt(q, i)
<1>1. /\ fl \in [0..k - 1 -> Seq(F)]
      /\ \A s \in 0..k - 1 : IsInjective(fl[s]) /\ \A j \in DOMAIN fl[s] : ln[fl[s][j]] % k = s
      /\ \A d \in F : ln[d] % k \in 0..k - 1 /\ \E j \in DOMAIN fl[ln[d] % k] : fl[ln[d] % k][j] = d
  BY DEF Lists
<1>2. /\ q2 \in Seq(F) /\ DOMAIN q2 = 1..(Len(q) - 1) /\ Len(q) \in Nat /\ DOMAIN q = 1..Len(q)
      /\ \A j \in DOMAIN q2 : q2[j] = IF j < i THEN q[j] ELSE q[j + 1]
      /\ q \in Seq(F) /\ b \in F
  <2>1. q \in Seq(F) /\ i \in DOMAIN q
    BY <1>1
  <2> HIDE DEF q
  <2>2. q[i] \in F /\ Len(q) \in Nat /\ DOMAIN q = 1..Len(q)
    BY <2>1
  <2>3. b = q[i]
    BY DEF q
  <2> QED BY <2>1, <2>2, <2>3, RemoveAtIs
<1>3. \A x, y \in DOMAIN q : q[x] = q[y] => x = y
  BY <1>1 DEF IsInjective
<1>4. fl2 = [fl EXCEPT ![r] = q2] /\ i \in 1..Len(q) /\ b = q[i]
  BY <1>2
<1> HIDE DEF b, q, q2
<1>5. /\ fl2[r] = q2 /\ DOMAIN fl2 = 0..k - 1 /\ \A s \in 0..k - 1 : s # r => fl2[s] = fl[s]
  BY <1>1, <1>4
<1>6. \A j \in DOMAIN q2 : \E m \in DOMAIN q : m # i /\ q2[j] = q[m] /\ m = IF j < i THEN j ELSE j + 1
  BY <1>2, <1>4
<1>7. \A m \in DOMAIN q : m # i => \E j \in DOMAIN q2 : q2[j] = q[m]
  <2> TAKE m \in DOMAIN q
  <2> HAVE m # i
  <2> DEFINE j == IF m < i THEN m ELSE m - 1
  <2>1. j \in 1..(Len(q) - 1) /\ q[m] = IF j < i THEN q[j] ELSE q[j + 1]
    BY <1>2, <1>4
  <2> QED BY <1>2, <2>1
<1>0. ln[b] % k = r /\ \A m \in DOMAIN q : ln[q[m]] % k = r
  BY <1>1, <1>4 DEF q
<1>8. IsInjective(q2)
  BY <1>2, <1>3, <1>4, <1>6 DEF IsInjective
<1>9. \A s \in 0..k - 1 : fl2[s] \in Seq(F \ {b})
  <2> TAKE s \in 0..k - 1
  <2>1. CASE s = r
    <3>1. \A j \in DOMAIN q2 : q2[j] \in F \ {b}
      BY <1>1, <1>2, <1>3, <1>4, <1>6 DEF q
    <3> QED BY <1>2, <1>5, <2>1, <3>1
  <2>2. CASE s # r
    <3>1. fl2[s] = fl[s] /\ fl[s] \in Seq(F)
      BY <1>1, <1>5, <2>2
    <3>2. \A j \in DOMAIN fl[s] : ln[fl[s][j]] % k = s
      BY <1>1
    <3>3. \A j \in DOMAIN fl[s] : fl[s][j] \in F \ {b}
      BY <1>0, <2>2, <3>1, <3>2
    <3> QED BY <3>1, <3>3
  <2> QED BY <2>1, <2>2
<1>10. \A s \in 0..k - 1 : IsInjective(fl2[s]) /\ \A j \in DOMAIN fl2[s] : ln[fl2[s][j]] % k = s
  <2> TAKE s \in 0..k - 1
  <2>1. CASE s = r
    <3>1. \A j \in DOMAIN q2 : ln[q2[j]] % k = r
      BY <1>0, <1>6
    <3> QED BY <1>5, <1>8, <2>1, <3>1
  <2>2. CASE s # r
    BY <1>1, <1>5, <2>2
  <2> QED BY <2>1, <2>2
<1>11. \A d \in F \ {b} : \E j \in DOMAIN fl2[ln[d] % k] : fl2[ln[d] % k][j] = d
  <2> TAKE d \in F \ {b}
  <2>1. PICK j \in DOMAIN fl[ln[d] % k] : fl[ln[d] % k][j] = d
    BY <1>1
  <2>2. CASE ln[d] % k = r
    <3>1. j \in DOMAIN q /\ q[j] = d /\ j # i
      BY <1>4, <2>1, <2>2 DEF q
    <3> QED BY <1>5, <1>7, <2>2, <3>1
  <2>3. CASE ln[d] % k # r
    <3>1. ln[d] % k \in 0..k - 1
      BY <1>1
    <3> QED BY <1>5, <2>1, <2>3, <3>1
  <2> QED BY <2>2, <2>3
<1>12. fl2 \in [0..k - 1 -> Seq(F \ {b})]
  BY <1>1, <1>4, <1>5, <1>9
<1>13. Lists(k, fl2, ln, F \ {b})
  BY <1>10, <1>11, <1>12 DEF Lists
<1> QED BY <1>2, <1>13 DEF b

LEMMA SeqOfMore == ASSUME NEW F, NEW G, F \subseteq G, NEW q \in Seq(F) PROVE q \in Seq(G)
<1>1. q = [i \in 1..Len(q) |-> q[i]] /\ Len(q) \in Nat /\ \A i \in 1..Len(q) : q[i] \in F
  OBVIOUS
<1> QED BY <1>1

\* A list with one block more, in front.
Links(k, ln, fl, b, fl2) == fl2 = [fl EXCEPT ![ln[b] % k] = << b >> \o @]
LEMMA LinkBlock ==
  ASSUME NEW k \in Nat \ {0}, NEW ln \in Seq(Nat), NEW F \in SUBSET DOMAIN ln, NEW fl, Lists(k, fl, ln, F),
         NEW b \in DOMAIN ln, b \notin F, NEW fl2, Links(k, ln, fl, b, fl2)
  PROVE  Lists(k, fl2, ln, F \cup {b})
<1> DEFINE r == ln[b] % k  q == fl[r]  q2 == << b >> \o q  G == F \cup {b}
<1>1. /\ fl \in [0..k - 1 -> Seq(F)]
      /\ \A s \in 0..k - 1 : IsInjective(fl[s]) /\ \A j \in DOMAIN fl[s] : ln[fl[s][j]] % k = s
      /\ \A d \in F : ln[d] % k \in 0..k - 1 /\ \E j \in DOMAIN fl[ln[d] % k] : fl[ln[d] % k][j] = d
  BY DEF Lists
<1>2. ln[b] \in Nat /\ r \in 0..k - 1
  <2>1. ln[b] \in Nat
    OBVIOUS
  <2> QED BY <2>1
<1>3. /\ q \in Seq(F) /\ IsInjective(q) /\ \A j \in DOMAIN q : ln[q[j]] % k = r
  BY <1>1, <1>2
<1>4. fl2 = [fl EXCEPT ![r] = q2] /\ r = ln[b] % k /\ q = fl[r]
  BY DEF Links
<1> HIDE DEF r, q
<1>5. /\ q2 \in Seq(G) /\ DOMAIN q = 1..Len(q) /\ Len(q) \in Nat /\ DOMAIN q2 = 1..(Len(q) + 1)
      /\ q2[1] = b /\ \A j \in DOMAIN q : q[j] \in F /\ q2[j + 1] = q[j]
  <2>1. F \subseteq G /\ b \in G
    OBVIOUS
  <2> HIDE DEF G, q2
  <2>2. DOMAIN q = 1..Len(q) /\ Len(q) \in Nat /\ \A j \in DOMAIN q : q[j] \in F /\ q[j] \in G
    BY <1>3, <2>1
  <2>3. q \in Seq(G) /\ << b >> \in Seq(G)
    BY <1>3, <2>1, <2>2
  <2>4. /\ << b >> \o q \in Seq(G) /\ DOMAIN (<< b >> \o q) = 1..(Len(<< b >>) + Len(q))
        /\ \A j \in 1..Len(<< b >>) : (<< b >> \o q)[j] = << b >>[j]
        /\ \A j \in 1..Len(q) : (<< b >> \o q)[Len(<< b >>) + j] = q[j]
    BY <2>3, ConcatIs
  <2>5. Len(<< b >>) = 1 /\ << b >>[1] = b
    OBVIOUS
  <2>6. /\ DOMAIN (<< b >> \o q) = 1..(Len(q) + 1) /\ (<< b >> \o q)[1] = b
        /\ \A j \in 1..Len(q) : (<< b >> \o q)[j + 1] = q[j]
    BY <2>2, <2>4, <2>5
  <2> QED BY <2>2, <2>4, <2>6 DEF q2
<1>6. \A j \in DOMAIN q2 : (j = 1 /\ q2[j] = b) \/ (j - 1 \in DOMAIN q /\ q2[j] = q[j - 1])
  <2> TAKE j \in DOMAIN q2
  <2>1. j = 1 \/ (j - 1 \in DOMAIN q /\ (j - 1) + 1 = j)
    BY <1>5
  <2> QED BY <1>5, <2>1
<1> HIDE DEF q2, G
<1>7. IsInjective(q2)
  <2> SUFFICES ASSUME NEW x \in DOMAIN q2, NEW y \in DOMAIN q2, q2[x] = q2[y] PROVE x = y
    BY DEF IsInjective
  <2>1. x \in Int /\ y \in Int
    BY <1>5
  <2>2. CASE x = 1 \/ y = 1
    BY <1>5, <1>6, <2>1, <2>2
  <2>3. CASE x # 1 /\ y # 1
    <3>1. x - 1 \in DOMAIN q /\ y - 1 \in DOMAIN q /\ q[x - 1] = q[y - 1]
      BY <1>6, <2>3
    <3>2. x - 1 = y - 1
      BY <1>3, <3>1 DEF IsInjective
    <3> QED BY <2>1, <3>2
  <2> QED BY <2>2, <2>3
<1>8. fl2[r] = q2 /\ DOMAIN fl2 = 0..k - 1 /\ \A s \in 0..k - 1 : s # r => fl2[s] = fl[s]
  BY <1>1, <1>2, <1>4
<1>9. \A s \in 0..k - 1 : /\ fl2[s] \in Seq(G) /\ IsInjective(fl2[s])
                          /\ \A j \in DOMAIN fl2[s] : ln[fl2[s][j]] % k = s
  <2> TAKE s \in 0..k - 1
  <2>1. CASE s = r
    <3>0. ln[b] % k = r /\ \A j \in DOMAIN q : ln[q[j]] % k = r
      BY <1>3, <1>4
    <3>1. \A j \in DOMAIN q2 : ln[q2[j]] % k = r
      BY <1>6, <3>0
    <3> QED BY <1>5, <1>7, <1>8, <2>1, <3>1
  <2>2. CASE s # r
    <3>1. fl2[s] = fl[s] /\ fl[s] \in Seq(F)
      BY <1>1, <1>8, <2>2
    <3>0. F \subseteq G
      BY DEF G
    <3>2. fl2[s] \in Seq(G)
      BY <3>0, <3>1, SeqOfMore
    <3> QED BY <1>1, <3>1, <3>2
  <2> QED BY <2>1, <2>2
<1>10. \A d \in G : ln[d] % k \in 0..k - 1 /\ \E j \in DOMAIN fl2[ln[d] % k] : fl2[ln[d] % k][j] = d
  <2> TAKE d \in G
  <2>1. CASE d = b
    <3>1. 1 \in DOMAIN q2
      BY <1>5
    <3> QED BY <1>2, <1>4, <1>5, <1>8, <2>1, <3>1
  <2>2. CASE d # b
    <3>1. d \in F
      BY <2>2 DEF G
    <3>2. ln[d] % k \in 0..k - 1
      BY <1>1, <3>1
    <3>3. PICK j \in DOMAIN fl[ln[d] % k] : fl[ln[d] % k][j] = d
      BY <1>1, <3>1
    <3>4. CASE ln[d] % k = r
      <4>1. j \in DOMAIN q /\ q[j] = d
        BY <1>4, <3>3, <3>4
      <4>2. j + 1 \in DOMAIN q2 /\ q2[j + 1] = d
        BY <1>5, <4>1
      <4> QED BY <1>8, <3>2, <3>4, <4>2
    <3>5. CASE ln[d] % k # r
      BY <1>8, <3>2, <3>3, <3>5
    <3> QED BY <3>4, <3>5
  <2> QED BY <2>1, <2>2
<1>11. fl2 \in [0..k - 1 -> Seq(G)]
  BY <1>1, <1>4, <1>8, <1>9
<1>12. Lists(k, fl2, ln, G)
  BY <1>9, <1>10, <1>11 DEF Lists
<1> QED BY <1>12 DEF G

\* The lists do not depend on the blocks that are not in them.
LEMMA ListsKept ==
  ASSUME NEW k \in Nat, NEW fl, NEW ln, NEW F, Lists(k, fl, ln, F), NEW ln2, \A b \in F : ln2[b] = ln[b]
  PROVE  Lists(k, fl, ln2, F)
<1>1. fl \in [0..k - 1 -> Seq(F)]
  BY DEF Lists
<1>2. \A r \in 0..k - 1 : \A i \in DOMAIN fl[r] : fl[r][i] \in F
  <2> TAKE r \in 0..k - 1
  <2>1. fl[r] \in Seq(F)
    BY <1>1
  <2> QED BY <2>1
<1> QED BY <1>1, <1>2 DEF Lists

\* A block is written to, and what its caller has in it with it.
Writes(mm, kp, b, m, h, mm2, kp2) == mm2 = [mm EXCEPT ![b] = m] /\ kp2 = [kp EXCEPT ![b] = h]
LEMMA WriteBlock ==
  ASSUME NEW ln, NEW mm, NEW kp, Blocks(ln, mm, kp), NEW b \in DOMAIN ln, NEW m, NEW h, NEW mm2, NEW kp2,
         Writes(mm, kp, b, m, h, mm2, kp2), BlockHolds(ln[b], m, h),
         m \in Seq(Bytes), h \in Seq(Written) \cup {NULL}
  PROVE  /\ Blocks(ln, mm2, kp2)
         /\ Unused(kp2) = IF h = NULL THEN Unused(kp) \cup {b} ELSE Unused(kp) \ {b}
<1>1. /\ ln \in Seq(Nat) /\ mm \in Seq(Seq(Bytes)) /\ kp \in Seq(Seq(Written) \cup {NULL})
      /\ Len(mm) = Len(ln) /\ Len(kp) = Len(ln) /\ Len(ln) <= MaxBlocks
      /\ \A d \in DOMAIN ln : BlockHolds(ln[d], mm[d], kp[d])
  BY DEF Blocks
<1>0. /\ m \in Seq(Bytes) /\ h \in Seq(Written) \cup {NULL}
      /\ mm2 = [mm EXCEPT ![b] = m] /\ kp2 = [kp EXCEPT ![b] = h]
  BY DEF Writes
<1>2. /\ mm2 \in Seq(Seq(Bytes)) /\ Len(mm2) = Len(mm) /\ mm2[b] = m
      /\ \A d \in DOMAIN ln : d # b => mm2[d] = mm[d]
  <2>1. b \in DOMAIN mm /\ DOMAIN mm = DOMAIN ln
    BY <1>1
  <2> QED BY <1>0, <1>1, <2>1
<1>3. /\ kp2 \in Seq(Seq(Written) \cup {NULL}) /\ Len(kp2) = Len(kp) /\ kp2[b] = h
      /\ \A d \in DOMAIN ln : d # b => kp2[d] = kp[d]
      /\ DOMAIN kp = DOMAIN ln /\ DOMAIN kp2 = DOMAIN ln
  <2>1. b \in DOMAIN kp /\ DOMAIN kp = DOMAIN ln
    BY <1>1
  <2> QED BY <1>0, <1>1, <2>1
<1>4. \A d \in DOMAIN ln : BlockHolds(ln[d], mm2[d], kp2[d])
  BY <1>1, <1>2, <1>3
<1>5. Blocks(ln, mm2, kp2)
  BY <1>1, <1>2, <1>3, <1>4 DEF Blocks
<1>6. Unused(kp2) = IF h = NULL THEN Unused(kp) \cup {b} ELSE Unused(kp) \ {b}
  BY <1>3 DEF Unused
<1> QED BY <1>5, <1>6

\* What is copied to the beginning of a block.
Overlay(old, bytes) == [i \in DOMAIN old |-> IF i \in DOMAIN bytes THEN bytes[i] ELSE old[i]]
LEMMA OverlayHolds ==
  ASSUME NEW old \in Seq(Bytes), NEW bytes \in Seq(Bytes), NEW h \in Seq(Written),
         Len(h) <= Len(bytes), Len(bytes) <= Len(old), \A i \in 1..Len(h) : h[i] = bytes[i]
  PROVE  Overlay(old, bytes) \in Seq(Bytes) /\ BlockHolds(Len(old), Overlay(old, bytes), h)
<1> DEFINE new == Overlay(old, bytes)
<1>1. new = [i \in 1..Len(old) |-> IF i \in 1..Len(bytes) THEN bytes[i] ELSE old[i]] /\ Len(old) \in Nat
  BY DEF Overlay
<1>2. \A i \in 1..Len(old) : (IF i \in 1..Len(bytes) THEN bytes[i] ELSE old[i]) \in Bytes
  OBVIOUS
<1>3. new \in Seq(Bytes) /\ Len(new) = Len(old) /\ \A i \in 1..Len(bytes) : new[i] = bytes[i]
  BY <1>1, <1>2
<1> HIDE DEF new
<1>4. BlockHolds(Len(old), new, h)
  BY <1>3 DEF BlockHolds
<1> QED BY <1>3, <1>4 DEF new

\* What malloc and realloc take: a new block, or an unused one.
Took(k, n, fl2, ln2, mm2, kp2, new) ==
  \/ Extended(len, mem, kept, n, ln2, mm2, kp2, new) /\ fl2 = free_list
  \/ ln2 = len /\ mm2 = mem /\ kp2 = kept /\ Unlinks(free_list, len, n, n % k, fl2, new)
\* The blocks there were are as they were.
Remain(ln2, mm2, kp2) ==
  \A b \in DOMAIN len : b \in DOMAIN ln2 /\ ln2[b] = len[b] /\ mm2[b] = mem[b] /\ kp2[b] = kept[b]
LEMMA TakeBlock ==
  ASSUME NEW k \in Nat \ {0}, HeapInv(k), NEW n \in Nat, NEW fl2, NEW ln2, NEW mm2, NEW kp2, NEW new,
         Took(k, n, fl2, ln2, mm2, kp2, new)
  PROVE  /\ Blocks(ln2, mm2, kp2) /\ Lists(k, fl2, ln2, Unused(kp2) \ {new})
         /\ new \in DOMAIN ln2 /\ new \in Unused(kp2) /\ ln2[new] >= n
         /\ Remain(ln2, mm2, kp2)
<1>1. Blocks(len, mem, kept) /\ Lists(k, free_list, len, Unused(kept)) /\ DOMAIN kept = DOMAIN len
  BY DEF HeapInv, Blocks
<1>2. Unused(kept) \subseteq DOMAIN len
  BY <1>1 DEF Unused
<1>3. CASE Extended(len, mem, kept, n, ln2, mm2, kp2, new) /\ fl2 = free_list
  <2>1. /\ Blocks(ln2, mm2, kp2) /\ Unused(kp2) = Unused(kept) \cup {new}
        /\ new \in DOMAIN ln2 /\ new \notin DOMAIN len /\ ln2[new] = n
        /\ \A b \in DOMAIN len : b \in DOMAIN ln2 /\ ln2[b] = len[b] /\ mm2[b] = mem[b] /\ kp2[b] = kept[b]
    BY <1>1, <1>3, AddBlock
  <2>2. Unused(kp2) \ {new} = Unused(kept) /\ \A b \in Unused(kept) : ln2[b] = len[b]
    BY <1>2, <2>1
  <2>3. Lists(k, fl2, ln2, Unused(kept))
    BY <1>1, <1>3, <2>2, ListsKept
  <2> QED BY <2>1, <2>2, <2>3 DEF Remain
<1>4. CASE ln2 = len /\ mm2 = mem /\ kp2 = kept /\ Unlinks(free_list, len, n, n % k, fl2, new)
  <2>1. PICK i \in DOMAIN free_list[n % k] : /\ new = free_list[n % k][i] /\ len[new] >= n
              /\ fl2 = [free_list EXCEPT ![n % k] = RemoveAt(free_list[n % k], i)]
    BY <1>4 DEF Unlinks
  <2>2. n % k \in 0..k - 1
    OBVIOUS
  <2>3. Lists(k, fl2, len, Unused(kept) \ {new}) /\ new \in Unused(kept)
    BY <1>1, <2>1, <2>2, UnlinkBlock
  <2> QED BY <1>1, <1>2, <1>4, <2>1, <2>3 DEF Remain
<1> QED BY <1>3, <1>4 DEF Took

Blanks(n) == [i \in 1..n |-> NULL]
LEMMA BlankHolds == ASSUME NEW n \in Nat PROVE Blanks(n) \in Seq(Bytes) /\ BlockHolds(n, Blanks(n), NULL)
<1>1. Blanks(n) \in Seq(Bytes) /\ Len(Blanks(n)) = n
  BY DEF Blanks, Bytes
<1> QED BY <1>1 DEF BlockHolds

LEMMA HeapAllocates ==
  ASSUME NEW k \in Nat \ {0}, HeapInv(k), NEW n \in Nat, NEW fl2, NEW ln2, NEW mm2, NEW kp2, NEW new,
         Took(k, n, fl2, ln2, mm2, kp2, new), NEW bytes \in Seq(Written), Len(bytes) = n,
         free_list' = fl2, len' = ln2, Writes(mm2, kp2, new, Overlay(mm2[new], bytes), bytes, mem', kept')
  PROVE  HeapInv(k)'
<1> USE HeapAssumption
<1>1. /\ Blocks(ln2, mm2, kp2) /\ Lists(k, fl2, ln2, Unused(kp2) \ {new})
      /\ new \in DOMAIN ln2 /\ ln2[new] >= n
  BY TakeBlock
<1>2. /\ mm2[new] \in Seq(Bytes) /\ Len(mm2[new]) = ln2[new]
  <2>1. mm2 \in Seq(Seq(Bytes)) /\ new \in DOMAIN mm2 /\ BlockHolds(ln2[new], mm2[new], kp2[new])
    BY <1>1 DEF Blocks
  <2> QED BY <2>1 DEF BlockHolds
<1>3. bytes \in Seq(Bytes)
  <2>1. Written \subseteq Bytes
    BY DEF Bytes
  <2> QED BY <2>1, SeqOfMore
<1>4. bytes # NULL
  BY DEF Written
<1>5. Overlay(mm2[new], bytes) \in Seq(Bytes) /\ BlockHolds(ln2[new], Overlay(mm2[new], bytes), bytes)
  BY <1>1, <1>2, <1>3, OverlayHolds
<1>6. Blocks(ln2, mem', kept') /\ Unused(kept') = Unused(kp2) \ {new}
  BY <1>1, <1>4, <1>5, WriteBlock
<1> QED BY <1>1, <1>6 DEF HeapInv

LEMMA HeapFrees ==
  ASSUME NEW k \in Nat \ {0}, HeapInv(k), NEW p \in DOMAIN kept, kept[p] # NULL,
         Links(k, len, free_list, p, free_list'), len' = len,
         Writes(mem, kept, p, Blanks(len[p]), NULL, mem', kept')
  PROVE  HeapInv(k)'
<1>1. Blocks(len, mem, kept) /\ Lists(k, free_list, len, Unused(kept))
  BY DEF HeapInv
<1>2. len \in Seq(Nat) /\ p \in DOMAIN len /\ DOMAIN kept = DOMAIN len
  BY <1>1 DEF Blocks
<1>3. Unused(kept) \in SUBSET DOMAIN len /\ p \notin Unused(kept)
  BY <1>2 DEF Unused
<1>4. len[p] \in Nat
  BY <1>2
<1>5. Blocks(len, mem', kept') /\ Unused(kept') = Unused(kept) \cup {p}
  <2>1. Blanks(len[p]) \in Seq(Bytes) /\ BlockHolds(len[p], Blanks(len[p]), NULL)
    BY <1>4, BlankHolds
  <2> QED BY <1>1, <1>2, <2>1, WriteBlock
<1>6. Lists(k, free_list', len, Unused(kept) \cup {p})
  BY <1>1, <1>2, <1>3, LinkBlock
<1> QED BY <1>5, <1>6 DEF HeapInv

\* What realloc copies, of the memory and of what the caller has in it.
Least(x, y) == IF x <= y THEN x ELSE y
Carried(n, p, bytes, has) ==
  bytes = SubSeq(mem[p], 1, Least(len[p], n)) /\ has = SubSeq(kept[p], 1, Least(Len(kept[p]), n))
LEMMA HeapReallocates ==
  ASSUME NEW k \in Nat \ {0}, HeapInv(k), NEW n \in Nat, NEW fl2, NEW ln2, NEW mm2, NEW kp2, NEW new,
         Took(k, n, fl2, ln2, mm2, kp2, new), NEW p \in DOMAIN kept, kept[p] # NULL,
         NEW bytes, NEW has, Carried(n, p, bytes, has), len' = ln2,
         NEW mm3, NEW kp3, Writes(mm2, kp2, new, Overlay(mm2[new], bytes), has, mm3, kp3),
         Writes(mm3, kp3, p, Blanks(len[p]), NULL, mem', kept'), Links(k, len, fl2, p, free_list')
  PROVE  HeapInv(k)'
<1> USE HeapAssumption
<1>1. /\ Blocks(ln2, mm2, kp2) /\ Lists(k, fl2, ln2, Unused(kp2) \ {new})
      /\ new \in DOMAIN ln2 /\ new \in Unused(kp2) /\ ln2[new] >= n
      /\ Remain(ln2, mm2, kp2)
  BY TakeBlock
<1>2. /\ len \in Seq(Nat) /\ mem \in Seq(Seq(Bytes)) /\ kept \in Seq(Seq(Written) \cup {NULL})
      /\ DOMAIN kept = DOMAIN len /\ DOMAIN mem = DOMAIN len /\ BlockHolds(len[p], mem[p], kept[p])
  BY DEF HeapInv, Blocks
<1>3. /\ len[p] \in Nat /\ mem[p] \in Seq(Bytes) /\ Len(mem[p]) = len[p]
      /\ kept[p] \in Seq(Written) /\ Len(kept[p]) <= len[p] /\ Len(kept[p]) \in Nat
      /\ \A i \in 1..Len(kept[p]) : mem[p][i] = kept[p][i]
  BY <1>2 DEF BlockHolds
<1>4. /\ p \in DOMAIN ln2 /\ ln2[p] = len[p] /\ kp2[p] = kept[p] /\ p # new
      /\ ln2 \in Seq(Nat) /\ DOMAIN kp2 = DOMAIN ln2 /\ DOMAIN mm2 = DOMAIN ln2
      /\ mm2[new] \in Seq(Bytes) /\ Len(mm2[new]) = ln2[new] /\ ln2[new] \in Nat
  <2>1. /\ ln2 \in Seq(Nat) /\ DOMAIN kp2 = DOMAIN ln2 /\ DOMAIN mm2 = DOMAIN ln2
        /\ mm2 \in Seq(Seq(Bytes)) /\ BlockHolds(ln2[new], mm2[new], kp2[new])
    BY <1>1 DEF Blocks
  <2>2. p \in DOMAIN ln2 /\ ln2[p] = len[p] /\ kp2[p] = kept[p]
    BY <1>1, <1>2 DEF Remain
  <2>3. p # new
    BY <1>1, <2>2 DEF Unused
  <2> QED BY <1>1, <2>1, <2>2, <2>3 DEF BlockHolds
<1>5. /\ bytes \in Seq(Bytes) /\ has \in Seq(Written) /\ Len(has) <= Len(bytes) /\ Len(bytes) <= n
      /\ \A i \in 1..Len(has) : has[i] = bytes[i]
  <2>1. /\ Least(len[p], n) \in 0..Len(mem[p]) /\ Least(Len(kept[p]), n) \in 0..Len(kept[p])
        /\ Least(Len(kept[p]), n) <= Least(len[p], n) /\ Least(len[p], n) <= n
    BY <1>3 DEF Least
  <2>2. /\ bytes \in Seq(Bytes) /\ Len(bytes) = Least(len[p], n)
        /\ \A i \in 1..Len(bytes) : bytes[i] = mem[p][i]
    BY <1>3, <2>1 DEF Carried
  <2>3. /\ has \in Seq(Written) /\ Len(has) = Least(Len(kept[p]), n)
        /\ \A i \in 1..Len(has) : has[i] = kept[p][i]
    BY <1>3, <2>1 DEF Carried
  <2> QED BY <1>3, <2>1, <2>2, <2>3
<1>6. has # NULL
  BY <1>5 DEF Written
<1>7. Overlay(mm2[new], bytes) \in Seq(Bytes) /\ BlockHolds(ln2[new], Overlay(mm2[new], bytes), has)
  <2>1. Len(bytes) <= Len(mm2[new])
    BY <1>1, <1>4, <1>5
  <2> QED BY <1>4, <1>5, <2>1, OverlayHolds
<1>8. Blocks(ln2, mm3, kp3) /\ Unused(kp3) = Unused(kp2) \ {new}
  BY <1>1, <1>5, <1>6, <1>7, WriteBlock
<1>9. Blocks(ln2, mem', kept') /\ Unused(kept') = Unused(kp3) \cup {p}
  <2>1. Blanks(len[p]) \in Seq(Bytes) /\ BlockHolds(ln2[p], Blanks(len[p]), NULL)
    BY <1>3, <1>4, BlankHolds
  <2> QED BY <1>4, <1>8, <2>1, WriteBlock
<1>10. Lists(k, free_list', ln2, Unused(kp3) \cup {p})
  <2>1. Unused(kp3) \in SUBSET DOMAIN ln2 /\ p \notin Unused(kp3)
    BY <1>4, <1>8 DEF Unused
  <2>2. Lists(k, fl2, ln2, Unused(kp3))
    BY <1>1, <1>8
  <2>3. Links(k, ln2, fl2, p, free_list')
    BY <1>4 DEF Links
  <2> QED BY <1>4, <2>1, <2>2, <2>3, LinkBlock
<1> QED BY <1>9, <1>10 DEF HeapInv

LEMMA ShortestIn ==
  ASSUME NEW I \in SUBSET Nat, I # {}, NEW g \in [I -> Nat]
  PROVE  Min({i \in I : \A j \in I : g[i] <= g[j]}) \in I
<1> DEFINE T == {g[i] : i \in I}  s == {i \in I : \A j \in I : g[i] <= g[j]}
<1>1. T \in SUBSET Nat /\ T # {}
  OBVIOUS
<1>2. PICK x \in T : \A y \in T : x <= y
  BY <1>1, LeastOf
<1>3. PICK i \in I : g[i] = x
  BY <1>2
<1>4. i \in s
  BY <1>2, <1>3
<1> HIDE DEF T
<1>5. s \in SUBSET Nat /\ s # {} /\ s \subseteq I
  BY <1>4
<1> HIDE DEF s
<1>6. \E y \in s : \A z \in s : y <= z
  BY <1>5, LeastOf
<1>7. Min(s) \in s
  BY <1>6 DEF Min
<1> QED BY <1>5, <1>7 DEF s

LEMMA LeastIs == ASSUME NEW x \in Nat, NEW y \in Nat PROVE Min({x, y}) = Least(x, y)
BY DEF Min, Least

LEMMA UnusedIn ==
  ASSUME NEW k \in Nat \ {0}, HeapInv(k), NEW n \in Nat
  PROVE  \A i \in DOMAIN free_list[n % k] : i \in Nat /\ len[free_list[n % k][i]] \in Nat
<1>1. /\ free_list \in [0..k - 1 -> Seq(Unused(kept))] /\ len \in Seq(Nat)
      /\ DOMAIN kept = DOMAIN len /\ n % k \in 0..k - 1
  BY DEF HeapInv, Lists, Blocks
<1>2. free_list[n % k] \in Seq(Unused(kept)) /\ Unused(kept) \subseteq DOMAIN len
  BY <1>1 DEF Unused
<1> QED BY <1>1, <1>2

LEMMA LengthsIn ==
  ASSUME NEW k, HeapInv(k), NEW p \in DOMAIN kept, kept[p] # NULL
  PROVE  len[p] \in Nat /\ Len(kept[p]) \in Nat
<1>1. /\ len \in Seq(Nat) /\ kept \in Seq(Seq(Written) \cup {NULL}) /\ DOMAIN kept = DOMAIN len
  BY DEF HeapInv, Blocks
<1>2. kept[p] \in Seq(Written)
  BY <1>1
<1> QED BY <1>1, <1>2

LEMMA MinIs2 == \A S : mp2!Min(S) = Min(S)
BY DEF mp2!Min, Min
LEMMA MinIs1 == \A S : ds2!One!Min(S) = Min(S)
BY DEF ds2!One!Min, Min

LEMMA FoundIn2 == ASSUME HeapInv(2), NEW n \in Nat, mp2!Fits(n) # {}
                  PROVE  /\ mp2!Found(n) \in DOMAIN free_list[n % 2]
                         /\ len[free_list[n % 2][mp2!Found(n)]] >= n
<1> DEFINE I == mp2!Fits(n)  q == free_list[n % 2]  g == [i \in I |-> len[q[i]]]
<1>1. I = {i \in DOMAIN q : len[q[i]] >= n}
  BY DEF mp2!Fits, mp2!List
<1>2. \A i \in DOMAIN q : i \in Nat /\ len[q[i]] \in Nat
  BY UnusedIn
<1>3. I \in SUBSET Nat /\ g \in [I -> Nat]
  BY <1>1, <1>2
<1>4. mp2!Found(n) = Min({i \in I : \A j \in I : g[i] <= g[j]})
  BY <1>3, MinIs2 DEF mp2!Found, mp2!List
<1> HIDE DEF I, g, q
<1>5. mp2!Found(n) \in I
  BY <1>3, <1>4, ShortestIn DEF I
<1> QED BY <1>1, <1>5 DEF q

LEMMA Takes2 ==
  ASSUME HeapInv(2), NEW n \in Nat, mp2!CanGrow(n)
  PROVE  Took(2, n, mp2!Unlinked(n), mp2!Grown(n), mp2!Memory(n), mp2!Owners(n), mp2!Result(n))
<1>1. CASE mp2!Fits(n) = {}
  <2>1. /\ mp2!Unlinked(n) = free_list /\ mp2!Grown(n) = Append(len, n)
        /\ mp2!Memory(n) = Append(mem, [i \in 1..n |-> NULL]) /\ mp2!Owners(n) = Append(kept, NULL)
        /\ mp2!Result(n) = Len(len) + 1 /\ Len(len) < MaxBlocks
    BY <1>1 DEF mp2!Unlinked, mp2!Grown, mp2!Memory, mp2!Owners, mp2!Result, mp2!CanGrow, mp2!Filled
  <2> QED BY <2>1 DEF Took, Extended
<1>2. CASE mp2!Fits(n) # {}
  <2>1. /\ mp2!Unlinked(n) = [free_list EXCEPT ![n % 2] = RemoveAt(free_list[n % 2], mp2!Found(n))]
        /\ mp2!Grown(n) = len /\ mp2!Memory(n) = mem /\ mp2!Owners(n) = kept
        /\ mp2!Result(n) = free_list[n % 2][mp2!Found(n)]
    BY <1>2 DEF RemoveAt, mp2!Unlinked, mp2!Grown, mp2!Memory, mp2!Owners, mp2!Result, mp2!List
  <2> QED BY <1>2, <2>1, FoundIn2 DEF Took, Unlinks
<1> QED BY <1>1, <1>2

LEMMA Allocates2 ==
  ASSUME HeapInv(2), NEW n \in Nat, NEW bytes \in Seq(Written), Len(bytes) = n, mp2!Allocate(n, bytes)
  PROVE  HeapInv(2)'
<1>1. /\ mp2!CanGrow(n) /\ free_list' = mp2!Unlinked(n) /\ len' = mp2!Grown(n)
      /\ mem' = [mp2!Memory(n) EXCEPT ![mp2!Result(n)] = Overlay(mp2!Memory(n)[mp2!Result(n)], bytes)]
      /\ kept' = [mp2!Owners(n) EXCEPT ![mp2!Result(n)] = bytes]
  BY DEF mp2!Allocate, mp2!Over, Overlay
<1>3. Took(2, n, mp2!Unlinked(n), mp2!Grown(n), mp2!Memory(n), mp2!Owners(n), mp2!Result(n))
  BY <1>1, Takes2
<1>2. Writes(mp2!Memory(n), mp2!Owners(n), mp2!Result(n), Overlay(mp2!Memory(n)[mp2!Result(n)], bytes), bytes, mem', kept')
  BY <1>1 DEF Writes
<1>4. 2 \in Nat \ {0}
  OBVIOUS
<1> QED BY <1>1, <1>2, <1>3, <1>4, HeapAllocates

LEMMA Frees2 ==
  ASSUME HeapInv(2), NEW p \in DOMAIN kept, kept[p] # NULL, mp2!free(p)
  PROVE  HeapInv(2)'
<1>1. Links(2, len, free_list, p, free_list') /\ len' = len
  BY DEF mp2!free, mp2!Pushed, Links
<1>2. Writes(mem, kept, p, Blanks(len[p]), NULL, mem', kept')
  BY DEF mp2!free, mp2!Blank, mp2!Filled, Blanks, Writes
<1> QED BY <1>1, <1>2, HeapFrees

LEMMA Moves2 ==
  ASSUME HeapInv(2), NEW p \in DOMAIN kept, kept[p] # NULL, NEW n \in Nat, mp2!Move(p, n)
  PROVE  HeapInv(2)'
<1> DEFINE new == mp2!Result(n)  mm2 == mp2!Memory(n)  kp2 == mp2!Owners(n)
           bytes == SubSeq(mem[p], 1, Least(len[p], n))
           has == SubSeq(kept[p], 1, Least(Len(kept[p]), n))
           mm3 == [mm2 EXCEPT ![new] = Overlay(mm2[new], bytes)]
           kp3 == [kp2 EXCEPT ![new] = has]
<1>0. 2 \in Nat \ {0}
  OBVIOUS
<1>1. Took(2, n, mp2!Unlinked(n), mp2!Grown(n), mm2, kp2, new)
  BY Takes2 DEF mp2!Move
<1>2. new \in Unused(kp2) /\ kp2[p] = kept[p]
  <2>1. DOMAIN kept = DOMAIN len
    BY DEF HeapInv, Blocks
  <2> HIDE DEF new, mm2, kp2
  <2>2. new \in Unused(kp2)
    BY <1>0, <1>1, TakeBlock
  <2>3. Remain(mp2!Grown(n), mm2, kp2)
    BY <1>0, <1>1, TakeBlock
  <2> QED BY <2>1, <2>2, <2>3 DEF Remain
<1>3. new # p
  BY <1>2 DEF Unused
<1>4. len[p] \in Nat /\ Len(kept[p]) \in Nat
  BY LengthsIn
<1>5. mp2!Min({len[p], n}) = Least(len[p], n) /\ mp2!Min({Len(kept[p]), n}) = Least(Len(kept[p]), n)
  BY <1>4, MinIs2, LeastIs
<1>6. /\ len' = mp2!Grown(n) /\ free_list' = mp2!Pushed(mp2!Unlinked(n), p)
      /\ mem' = [mm2 EXCEPT ![new] = mp2!Over(mm2[new], bytes), ![p] = mp2!Blank(len[p])]
      /\ kept' = [kp2 EXCEPT ![p] = NULL, ![new] = has]
  BY <1>5 DEF mp2!Move
<1>7. Carried(n, p, bytes, has)
  BY DEF Carried
<1>8. Writes(mm2, kp2, new, Overlay(mm2[new], bytes), has, mm3, kp3)
  BY DEF Writes
<1>9. mp2!Over(mm2[new], bytes) = Overlay(mm2[new], bytes) /\ mp2!Blank(len[p]) = Blanks(len[p])
  BY DEF mp2!Over, Overlay, mp2!Blank, mp2!Filled, Blanks
<1>10. mem' = [mm3 EXCEPT ![p] = Blanks(len[p])] /\ kept' = [kp3 EXCEPT ![p] = NULL]
  <2> HIDE DEF new, mm2, kp2, bytes, has
  <2> QED BY <1>3, <1>6, <1>9
<1> HIDE DEF new, mm2, kp2, bytes, has, mm3, kp3
<1>11. Writes(mm3, kp3, p, Blanks(len[p]), NULL, mem', kept')
  BY <1>10 DEF Writes
<1>12. Links(2, len, mp2!Unlinked(n), p, free_list')
  BY <1>6 DEF Links, mp2!Pushed
<1>13. len' = mp2!Grown(n)
  BY <1>6
<1> QED BY <1>0, <1>1, <1>7, <1>8, <1>11, <1>12, <1>13, HeapReallocates

LEMMA FoundIn1 == ASSUME HeapInv(1), NEW n \in Nat, ds2!One!Fits(n) # {}
                  PROVE  /\ ds2!One!Found(n) \in DOMAIN free_list[n % 1]
                         /\ len[free_list[n % 1][ds2!One!Found(n)]] >= n
<1> DEFINE I == ds2!One!Fits(n)  q == free_list[n % 1]  g == [i \in I |-> len[q[i]]]
<1>1. I = {i \in DOMAIN q : len[q[i]] >= n}
  BY DEF ds2!One!Fits, ds2!One!List
<1>2. \A i \in DOMAIN q : i \in Nat /\ len[q[i]] \in Nat
  BY UnusedIn
<1>3. I \in SUBSET Nat /\ g \in [I -> Nat]
  BY <1>1, <1>2
<1>4. ds2!One!Found(n) = Min({i \in I : \A j \in I : g[i] <= g[j]})
  BY <1>3, MinIs1 DEF ds2!One!Found, ds2!One!List
<1> HIDE DEF I, g, q
<1>5. ds2!One!Found(n) \in I
  BY <1>3, <1>4, ShortestIn DEF I
<1> QED BY <1>1, <1>5 DEF q

LEMMA Takes1 ==
  ASSUME HeapInv(1), NEW n \in Nat, ds2!One!CanGrow(n)
  PROVE  Took(1, n, ds2!One!Unlinked(n), ds2!One!Grown(n), ds2!One!Memory(n), ds2!One!Owners(n), ds2!One!Result(n))
<1>1. CASE ds2!One!Fits(n) = {}
  <2>1. /\ ds2!One!Unlinked(n) = free_list /\ ds2!One!Grown(n) = Append(len, n)
        /\ ds2!One!Memory(n) = Append(mem, [i \in 1..n |-> NULL]) /\ ds2!One!Owners(n) = Append(kept, NULL)
        /\ ds2!One!Result(n) = Len(len) + 1 /\ Len(len) < MaxBlocks
    BY <1>1 DEF ds2!One!Unlinked, ds2!One!Grown, ds2!One!Memory, ds2!One!Owners, ds2!One!Result, ds2!One!CanGrow, ds2!One!Filled
  <2> QED BY <2>1 DEF Took, Extended
<1>2. CASE ds2!One!Fits(n) # {}
  <2>1. /\ ds2!One!Unlinked(n) = [free_list EXCEPT ![n % 1] = RemoveAt(free_list[n % 1], ds2!One!Found(n))]
        /\ ds2!One!Grown(n) = len /\ ds2!One!Memory(n) = mem /\ ds2!One!Owners(n) = kept
        /\ ds2!One!Result(n) = free_list[n % 1][ds2!One!Found(n)]
    BY <1>2 DEF RemoveAt, ds2!One!Unlinked, ds2!One!Grown, ds2!One!Memory, ds2!One!Owners, ds2!One!Result, ds2!One!List
  <2> QED BY <1>2, <2>1, FoundIn1 DEF Took, Unlinks
<1> QED BY <1>1, <1>2

LEMMA Allocates1 ==
  ASSUME HeapInv(1), NEW n \in Nat, NEW bytes \in Seq(Written), Len(bytes) = n, ds2!One!Allocate(n, bytes)
  PROVE  HeapInv(1)'
<1>1. /\ ds2!One!CanGrow(n) /\ free_list' = ds2!One!Unlinked(n) /\ len' = ds2!One!Grown(n)
      /\ mem' = [ds2!One!Memory(n) EXCEPT ![ds2!One!Result(n)] = Overlay(ds2!One!Memory(n)[ds2!One!Result(n)], bytes)]
      /\ kept' = [ds2!One!Owners(n) EXCEPT ![ds2!One!Result(n)] = bytes]
  BY DEF ds2!One!Allocate, ds2!One!Over, Overlay
<1>3. Took(1, n, ds2!One!Unlinked(n), ds2!One!Grown(n), ds2!One!Memory(n), ds2!One!Owners(n), ds2!One!Result(n))
  BY <1>1, Takes1
<1>2. Writes(ds2!One!Memory(n), ds2!One!Owners(n), ds2!One!Result(n), Overlay(ds2!One!Memory(n)[ds2!One!Result(n)], bytes), bytes, mem', kept')
  BY <1>1 DEF Writes
<1>4. 1 \in Nat \ {0}
  OBVIOUS
<1> QED BY <1>1, <1>2, <1>3, <1>4, HeapAllocates

LEMMA Frees1 ==
  ASSUME HeapInv(1), NEW p \in DOMAIN kept, kept[p] # NULL, ds2!One!free(p)
  PROVE  HeapInv(1)'
<1>1. Links(1, len, free_list, p, free_list') /\ len' = len
  BY DEF ds2!One!free, ds2!One!Pushed, Links
<1>2. Writes(mem, kept, p, Blanks(len[p]), NULL, mem', kept')
  BY DEF ds2!One!free, ds2!One!Blank, ds2!One!Filled, Blanks, Writes
<1> QED BY <1>1, <1>2, HeapFrees

LEMMA Moves1 ==
  ASSUME HeapInv(1), NEW p \in DOMAIN kept, kept[p] # NULL, NEW n \in Nat, ds2!One!Move(p, n)
  PROVE  HeapInv(1)'
<1> DEFINE new == ds2!One!Result(n)  mm2 == ds2!One!Memory(n)  kp2 == ds2!One!Owners(n)
           bytes == SubSeq(mem[p], 1, Least(len[p], n))
           has == SubSeq(kept[p], 1, Least(Len(kept[p]), n))
           mm3 == [mm2 EXCEPT ![new] = Overlay(mm2[new], bytes)]
           kp3 == [kp2 EXCEPT ![new] = has]
<1>0. 1 \in Nat \ {0}
  OBVIOUS
<1>1. Took(1, n, ds2!One!Unlinked(n), ds2!One!Grown(n), mm2, kp2, new)
  BY Takes1 DEF ds2!One!Move
<1>2. new \in Unused(kp2) /\ kp2[p] = kept[p]
  <2>1. DOMAIN kept = DOMAIN len
    BY DEF HeapInv, Blocks
  <2> HIDE DEF new, mm2, kp2
  <2>2. new \in Unused(kp2)
    BY <1>0, <1>1, TakeBlock
  <2>3. Remain(ds2!One!Grown(n), mm2, kp2)
    BY <1>0, <1>1, TakeBlock
  <2> QED BY <2>1, <2>2, <2>3 DEF Remain
<1>3. new # p
  BY <1>2 DEF Unused
<1>4. len[p] \in Nat /\ Len(kept[p]) \in Nat
  BY LengthsIn
<1>5. ds2!One!Min({len[p], n}) = Least(len[p], n) /\ ds2!One!Min({Len(kept[p]), n}) = Least(Len(kept[p]), n)
  BY <1>4, MinIs1, LeastIs
<1>6. /\ len' = ds2!One!Grown(n) /\ free_list' = ds2!One!Pushed(ds2!One!Unlinked(n), p)
      /\ mem' = [mm2 EXCEPT ![new] = ds2!One!Over(mm2[new], bytes), ![p] = ds2!One!Blank(len[p])]
      /\ kept' = [kp2 EXCEPT ![p] = NULL, ![new] = has]
  BY <1>5 DEF ds2!One!Move
<1>7. Carried(n, p, bytes, has)
  BY DEF Carried
<1>8. Writes(mm2, kp2, new, Overlay(mm2[new], bytes), has, mm3, kp3)
  BY DEF Writes
<1>9. ds2!One!Over(mm2[new], bytes) = Overlay(mm2[new], bytes) /\ ds2!One!Blank(len[p]) = Blanks(len[p])
  BY DEF ds2!One!Over, Overlay, ds2!One!Blank, ds2!One!Filled, Blanks
<1>10. mem' = [mm3 EXCEPT ![p] = Blanks(len[p])] /\ kept' = [kp3 EXCEPT ![p] = NULL]
  <2> HIDE DEF new, mm2, kp2, bytes, has
  <2> QED BY <1>3, <1>6, <1>9
<1> HIDE DEF new, mm2, kp2, bytes, has, mm3, kp3
<1>11. Writes(mm3, kp3, p, Blanks(len[p]), NULL, mem', kept')
  BY <1>10 DEF Writes
<1>12. Links(1, len, ds2!One!Unlinked(n), p, free_list')
  BY <1>6 DEF Links, ds2!One!Pushed
<1>13. len' = ds2!One!Grown(n)
  BY <1>6
<1> QED BY <1>0, <1>1, <1>7, <1>8, <1>11, <1>12, <1>13, HeapReallocates

LEMMA FillIn == \A n \in Nat : \A b \in Written : [i \in 1..n |-> b] \in Seq(Written) /\ Len([i \in 1..n |-> b]) = n
OBVIOUS

LEMMA FewerPlaces ==
  ASSUME NEW m \in Nat, NEW n \in Nat, NEW f \in [1..m -> 1..n], \A x, y \in 1..m : f[x] = f[y] => x = y
  PROVE  m <= n
<1>1. IsFiniteSet(1..m) /\ IsFiniteSet(1..n) /\ Cardinality(1..m) = m /\ Cardinality(1..n) = n
  BY FS_Interval
<1>2. ~ (Cardinality(1..n) < Cardinality(1..m))
  BY <1>1, FS_PigeonHole
<1> QED BY <1>1, <1>2

LEMMA ListIsShort ==
  ASSUME NEW k, HeapInv(k), NEW q \in Seq(Unused(kept)), IsInjective(q)
  PROVE  DOMAIN q \subseteq 1..MaxBlocks
<1> USE HeapAssumption
<1>1. len \in Seq(Nat) /\ DOMAIN kept = 1..Len(len) /\ Len(len) \in Nat /\ Len(len) <= MaxBlocks
  BY DEF HeapInv, Blocks
<1>2. q \in Seq(1..Len(len)) /\ DOMAIN q = 1..Len(q) /\ Len(q) \in Nat
  <2>1. Unused(kept) \subseteq 1..Len(len)
    BY <1>1 DEF Unused
  <2> QED BY <2>1, SeqOfMore
<1>3. q \in [1..Len(q) -> 1..Len(len)]
  BY <1>2
<1>4. \A x, y \in 1..Len(q) : q[x] = q[y] => x = y
  BY <1>2 DEF IsInjective
<1>5. Len(q) <= Len(len)
  BY <1>1, <1>2, <1>3, <1>4, FewerPlaces
<1> QED BY <1>1, <1>2, <1>5

\* There is no room in a list for more blocks than there are, and a block is
\* at one place or at none.
LEMMA PlacesOf ==
  ASSUME NEW k \in Nat \ {0}, HeapInv(k), NEW b \in DOMAIN len, NEW places,
         places = {p \in (0..k - 1) \X (1..MaxBlocks) :
                     p[2] \in DOMAIN free_list[p[1]] /\ free_list[p[1]][p[2]] = b}
  PROVE  /\ Cardinality(places) = IF b \in Unused(kept) THEN 1 ELSE 0
         /\ \A p \in places : p[1] = len[b] % k
<1>1. /\ free_list \in [0..k - 1 -> Seq(Unused(kept))]
      /\ \A r \in 0..k - 1 : IsInjective(free_list[r]) /\ \A i \in DOMAIN free_list[r] : len[free_list[r][i]] % k = r
      /\ \A d \in Unused(kept) : /\ len[d] % k \in 0..k - 1
                                 /\ \E i \in DOMAIN free_list[len[d] % k] : free_list[len[d] % k][i] = d
  BY DEF HeapInv, Lists
<1>2. \A p \in places : /\ p[1] \in 0..k - 1 /\ p[2] \in DOMAIN free_list[p[1]]
                        /\ free_list[p[1]][p[2]] = b /\ p = << p[1], p[2] >>
  OBVIOUS
<1>3. \A p \in places : p[1] = len[b] % k /\ b \in Unused(kept)
  <2> TAKE p \in places
  <2>1. /\ p[1] \in 0..k - 1 /\ p[2] \in DOMAIN free_list[p[1]] /\ free_list[p[1]][p[2]] = b
    BY <1>2
  <2>2. free_list[p[1]] \in Seq(Unused(kept))
    BY <1>1, <2>1
  <2>3. free_list[p[1]][p[2]] \in Unused(kept)
    BY <2>1, <2>2
  <2> QED BY <1>1, <2>1, <2>3
<1>4. CASE b \notin Unused(kept)
  <2>1. places = {}
    BY <1>3, <1>4
  <2>2. Cardinality(places) = 0
    BY <2>1, FS_EmptySet
  <2> QED BY <1>3, <1>4, <2>2
<1>5. CASE b \in Unused(kept)
  <2> DEFINE r == len[b] % k  q == free_list[r]
  <2>1. r \in 0..k - 1 /\ q \in Seq(Unused(kept)) /\ IsInjective(q)
    BY <1>1, <1>5
  <2>2. PICK i \in DOMAIN q : q[i] = b
    BY <1>1, <1>5
  <2>3. DOMAIN q \subseteq 1..MaxBlocks
    BY <2>1, ListIsShort
  <2>4. << r, i >> \in places
    BY <2>1, <2>2, <2>3
  <2>5. places = {<< r, i >>}
    <3>1. ASSUME NEW p \in places PROVE p = << r, i >>
      <4>1. p[1] = r /\ p[2] \in DOMAIN q /\ q[p[2]] = b /\ p = << p[1], p[2] >>
        BY <1>2, <1>3
      <4>2. p[2] = i
        BY <2>1, <2>2, <4>1 DEF IsInjective
      <4> QED BY <4>1, <4>2
    <3> QED BY <2>4, <3>1
  <2>6. Cardinality(places) = 1
    BY <2>5, FS_Singleton
  <2> QED BY <1>3, <1>5, <2>6
<1> QED BY <1>4, <1>5

\* What a caller has in its block is what the block holds.
LEMMA KeptIs ==
  ASSUME NEW k, HeapInv(k), NEW b \in DOMAIN len
  PROVE  /\ b \in DOMAIN kept
         /\ kept[b] # NULL => Len(kept[b]) <= len[b] /\ kept[b] = SubSeq(mem[b], 1, Len(kept[b]))
<1>1. /\ len \in Seq(Nat) /\ mem \in Seq(Seq(Bytes)) /\ kept \in Seq(Seq(Written) \cup {NULL})
      /\ DOMAIN kept = DOMAIN len /\ DOMAIN mem = DOMAIN len /\ BlockHolds(len[b], mem[b], kept[b])
  BY DEF HeapInv, Blocks
<1>2. mem[b] \in Seq(Bytes) /\ len[b] \in Nat /\ (kept[b] # NULL => kept[b] \in Seq(Written))
  BY <1>1
<1>3. ASSUME kept[b] # NULL PROVE Len(kept[b]) <= len[b] /\ kept[b] = SubSeq(mem[b], 1, Len(kept[b]))
  <2>1. /\ kept[b] \in Seq(Written) /\ Len(kept[b]) <= len[b] /\ Len(mem[b]) = len[b]
        /\ \A i \in 1..Len(kept[b]) : mem[b][i] = kept[b][i]
    BY <1>1, <1>2, <1>3 DEF BlockHolds
  <2>2. SubSeq(kept[b], 1, Len(kept[b])) = SubSeq(mem[b], 1, Len(kept[b]))
    BY <1>2, <2>1
  <2> QED BY <1>2, <2>1, <2>2
<1> QED BY <1>1, <1>3

LEMMA HeapSteps2 == ASSUME HeapInv(2), mp2!Next  PROVE HeapInv(2)'
<1> USE HeapAssumption
<1>1. ASSUME NEW n \in Size, mp2!malloc(n) PROVE HeapInv(2)'
  <2>1. PICK b \in Byte : mp2!Allocate(n, mp2!Filled(n, b))
    BY <1>1 DEF mp2!malloc
  <2>2. n \in Nat /\ b \in Written
    BY DEF Written
  <2>3. mp2!Filled(n, b) \in Seq(Written) /\ Len(mp2!Filled(n, b)) = n
    BY <2>2, FillIn DEF mp2!Filled
  <2> QED BY <2>1, <2>2, <2>3, Allocates2
<1>2. ASSUME NEW num \in {1, 2}, NEW n \in Size, num * n \in Size, mp2!calloc(num, n) PROVE HeapInv(2)'
  <2>1. num * n \in Nat /\ 0 \in Written /\ mp2!Allocate(num * n, mp2!Filled(num * n, 0))
    BY <1>2 DEF Written, mp2!calloc
  <2>2. mp2!Filled(num * n, 0) \in Seq(Written) /\ Len(mp2!Filled(num * n, 0)) = num * n
    BY <2>1, FillIn DEF mp2!Filled
  <2> QED BY <2>1, <2>2, Allocates2
<1>3. ASSUME NEW p \in mp2!Live, mp2!free(p) PROVE HeapInv(2)'
  BY <1>3, Frees2 DEF mp2!Live
<1>4. ASSUME NEW p \in mp2!Live, NEW n \in Size, mp2!realloc(p, n) PROVE HeapInv(2)'
  <2>1. mp2!free(p) \/ mp2!Move(p, n)
    BY <1>4 DEF mp2!realloc
  <2>2. n \in Nat /\ p \in DOMAIN kept /\ kept[p] # NULL
    BY DEF mp2!Live
  <2> QED BY <1>3, <2>1, <2>2, Moves2
<1> QED BY <1>1, <1>2, <1>3, <1>4 DEF mp2!Next

LEMMA CardinalityIs2 == \A S : mp2!Cardinality(S) = Cardinality(S)
BY DEF mp2!Cardinality, Cardinality

LEMMA HeapIsSound2 == HeapInv(2) => mp2!HeapSound
<1> SUFFICES ASSUME HeapInv(2), NEW b \in DOMAIN len
             PROVE  /\ mp2!Cardinality(mp2!Places(b)) = IF b \in mp2!Live THEN 0 ELSE 1
                    /\ \A p \in mp2!Places(b) : p[1] = len[b] % 2
                    /\ b \in mp2!Live => /\ Len(kept[b]) <= len[b]
                                      /\ kept[b] = SubSeq(mem[b], 1, Len(kept[b]))
  BY DEF mp2!HeapSound
<1>0. 2 \in Nat \ {0}
  OBVIOUS
<1>1. mp2!Places(b) = {p \in (0..2 - 1) \X (1..MaxBlocks) :
                      p[2] \in DOMAIN free_list[p[1]] /\ free_list[p[1]][p[2]] = b}
  BY DEF mp2!Places
<1>2. /\ Cardinality(mp2!Places(b)) = IF b \in Unused(kept) THEN 1 ELSE 0
      /\ \A p \in mp2!Places(b) : p[1] = len[b] % 2
  BY <1>0, <1>1, PlacesOf
<1>3. b \in mp2!Live <=> b \notin Unused(kept)
  BY KeptIs DEF mp2!Live, Unused
<1>4. ASSUME b \in mp2!Live PROVE Len(kept[b]) <= len[b] /\ kept[b] = SubSeq(mem[b], 1, Len(kept[b]))
  <2>1. kept[b] # NULL
    BY <1>4 DEF mp2!Live
  <2>2. Len(kept[b]) <= len[b] /\ kept[b] = SubSeq(mem[b], 1, Len(kept[b]))
    BY <1>0, <2>1, KeptIs
  <2> QED BY <2>2
<1>5. mp2!Cardinality(mp2!Places(b)) = Cardinality(mp2!Places(b))
  BY CardinalityIs2
<1> QED BY <1>2, <1>3, <1>4, <1>5

LEMMA HeapSteps1 == ASSUME HeapInv(1), ds2!Next  PROVE HeapInv(1)'
<1> USE HeapAssumption
<1>1. ASSUME NEW n \in Size, ds2!One!malloc(n) PROVE HeapInv(1)'
  <2>1. PICK b \in Byte : ds2!One!Allocate(n, ds2!One!Filled(n, b))
    BY <1>1 DEF ds2!One!malloc
  <2>2. n \in Nat /\ b \in Written
    BY DEF Written
  <2>3. ds2!One!Filled(n, b) \in Seq(Written) /\ Len(ds2!One!Filled(n, b)) = n
    BY <2>2, FillIn DEF ds2!One!Filled
  <2> QED BY <2>1, <2>2, <2>3, Allocates1
<1>2. ASSUME NEW num \in {1, 2}, NEW n \in Size, num * n \in Size, ds2!One!calloc(num, n) PROVE HeapInv(1)'
  <2>1. num * n \in Nat /\ 0 \in Written /\ ds2!One!Allocate(num * n, ds2!One!Filled(num * n, 0))
    BY <1>2 DEF Written, ds2!One!calloc
  <2>2. ds2!One!Filled(num * n, 0) \in Seq(Written) /\ Len(ds2!One!Filled(num * n, 0)) = num * n
    BY <2>1, FillIn DEF ds2!One!Filled
  <2> QED BY <2>1, <2>2, Allocates1
<1>3. ASSUME NEW p \in ds2!One!Live, ds2!One!free(p) PROVE HeapInv(1)'
  BY <1>3, Frees1 DEF ds2!One!Live
<1>4. ASSUME NEW p \in ds2!One!Live, NEW n \in Size, ds2!One!realloc(p, n) PROVE HeapInv(1)'
  <2>1. ds2!One!free(p) \/ ds2!One!Move(p, n)
    BY <1>4 DEF ds2!One!realloc
  <2>2. n \in Nat /\ p \in DOMAIN kept /\ kept[p] # NULL
    BY DEF ds2!One!Live
  <2> QED BY <1>3, <2>1, <2>2, Moves1
<1> QED BY <1>1, <1>2, <1>3, <1>4 DEF ds2!Next, ds2!malloc, ds2!calloc, ds2!free, ds2!realloc, ds2!One!Live

LEMMA CardinalityIs1 == \A S : ds2!One!Cardinality(S) = Cardinality(S)
BY DEF ds2!One!Cardinality, Cardinality

LEMMA HeapIsSound1 == HeapInv(1) => ds2!One!HeapSound
<1> SUFFICES ASSUME HeapInv(1), NEW b \in DOMAIN len
             PROVE  /\ ds2!One!Cardinality(ds2!One!Places(b)) = IF b \in ds2!One!Live THEN 0 ELSE 1
                    /\ \A p \in ds2!One!Places(b) : p[1] = len[b] % 1
                    /\ b \in ds2!One!Live => /\ Len(kept[b]) <= len[b]
                                      /\ kept[b] = SubSeq(mem[b], 1, Len(kept[b]))
  BY DEF ds2!One!HeapSound
<1>0. 1 \in Nat \ {0}
  OBVIOUS
<1>1. ds2!One!Places(b) = {p \in (0..1 - 1) \X (1..MaxBlocks) :
                      p[2] \in DOMAIN free_list[p[1]] /\ free_list[p[1]][p[2]] = b}
  BY DEF ds2!One!Places
<1>2. /\ Cardinality(ds2!One!Places(b)) = IF b \in Unused(kept) THEN 1 ELSE 0
      /\ \A p \in ds2!One!Places(b) : p[1] = len[b] % 1
  BY <1>0, <1>1, PlacesOf
<1>3. b \in ds2!One!Live <=> b \notin Unused(kept)
  BY KeptIs DEF ds2!One!Live, Unused
<1>4. ASSUME b \in ds2!One!Live PROVE Len(kept[b]) <= len[b] /\ kept[b] = SubSeq(mem[b], 1, Len(kept[b]))
  <2>1. kept[b] # NULL
    BY <1>4 DEF ds2!One!Live
  <2>2. Len(kept[b]) <= len[b] /\ kept[b] = SubSeq(mem[b], 1, Len(kept[b]))
    BY <1>0, <2>1, KeptIs
  <2> QED BY <2>2
<1>5. ds2!One!Cardinality(ds2!One!Places(b)) = Cardinality(ds2!One!Places(b))
  BY CardinalityIs1
<1> QED BY <1>2, <1>3, <1>4, <1>5

HeapKind == IF lib = "ds2" THEN 1 ELSE 2
LEMMA HeapStarts == Init => HeapInv(HeapKind)
<1> USE HeapAssumption
<1> SUFFICES ASSUME Init PROVE HeapInv(HeapKind)
  OBVIOUS
<1>1. HeapKind \in Nat \ {0}
  BY DEF HeapKind
<1>2. free_list = [c \in 0..HeapKind - 1 |-> << >>] /\ len = << >> /\ mem = << >> /\ kept = << >>
  BY DEF Init, HeapKind, ds2!Init, ds2!One!Init, mp2!Init
<1>3. Unused(kept) = {}
  BY <1>2 DEF Unused
<1>4. Lists(HeapKind, free_list, len, Unused(kept))
  BY <1>1, <1>2, <1>3 DEF Lists, IsInjective
<1>5. Blocks(len, mem, kept)
  BY <1>2 DEF Blocks
<1> QED BY <1>4, <1>5 DEF HeapInv

LEMMA HeapMoves ==
  [Next]_vars => \/ HeapKind = 2 /\ HeapKind' = 2 /\ mp2!Next
                 \/ HeapKind = 1 /\ HeapKind' = 1 /\ ds2!Next
                 \/ HeapKind' = HeapKind /\ UNCHANGED heap
BY DEF Next, vars, Heap2, Heap1, List, Tree, Sort, PriQueue, Queue, Shell, Echo, Store, Run, HeapKind

(* mp2/alloc.c and ds2/alloc.c: whatever is allocated, reallocated and     *)
(* freed, a block is either in use or once in the free list of its length, *)
(* it is as long as was asked, and holds what its caller wrote or realloc  *)
(* had to carry over.                                                      *)
THEOREM HeapsAreSound == Spec => []HeapsSound
<1>1. Init => HeapInv(HeapKind)
  BY HeapStarts
<1>2. HeapInv(HeapKind) /\ [Next]_vars => HeapInv(HeapKind)'
  <2> SUFFICES ASSUME HeapInv(HeapKind), [Next]_vars PROVE HeapInv(HeapKind)'
    OBVIOUS
  <2>1. CASE HeapKind = 2 /\ HeapKind' = 2 /\ mp2!Next
    <3>1. HeapInv(2)'
      BY <2>1, HeapSteps2
    <3> QED BY <2>1, <3>1 DEF HeapInv
  <2>2. CASE HeapKind = 1 /\ HeapKind' = 1 /\ ds2!Next
    <3>1. HeapInv(1)'
      BY <2>2, HeapSteps1
    <3> QED BY <2>2, <3>1 DEF HeapInv
  <2>3. CASE HeapKind' = HeapKind /\ UNCHANGED heap
    BY <2>3 DEF HeapInv, heap
  <2> QED BY <2>1, <2>2, <2>3, HeapMoves
<1>3. HeapInv(HeapKind) => HeapsSound
  BY HeapIsSound1, HeapIsSound2 DEF HeapKind, HeapsSound, ds2!Sound
<1> QED BY <1>1, <1>2, <1>3, PTL DEF Spec
-----------------------------------------------------------------------------
\* The echo server.
Units == Letter \cup {ASCII, BIN, NEWLINE} \cup Nat
Greeting(c) == << Format[c], NEWLINE >> \o ds11!Due(c, 0)

\* What was read, what is on its way and what is to be sent, together, are
\* what the client has to say from here on; where it is main, m its buffer, w
\* the wire, u unsent, rs the replies and l the length handle_bin was told.
Before(c, w, u, rs) == w \o u = Greeting(c) /\ rs = << >>
Whole(c, where, m, w, u, rs, l) ==
  \/ where = "format" /\ m \o (w \o u) = Greeting(c) /\ rs = << >>
  \/ where = "ascii" /\ Format[c] = ASCII /\ m \o (w \o u) = ds11!Due(c, Len(rs))
  \/ where = "length" /\ Format[c] = BIN /\ w \o u = ds11!Due(c, Len(rs))
  \/ /\ where = "text" /\ Format[c] = BIN /\ Len(rs) < Len(Messages[c])
     /\ m \o (w \o u) = Messages[c][Len(rs) + 1] /\ l = Len(Messages[c][Len(rs) + 1])

Answered(c, rs) == /\ Len(rs) <= Len(Messages[c])
                   /\ \A n \in 1..Len(rs) : rs[n] = ds11!reverse_string(Messages[c][n])

LEMMA MessageIn ==
  ASSUME NEW c \in Client, NEW n \in Nat, n < Len(Messages[c])
  PROVE  /\ Messages[c][n + 1] \in Seq(Units) /\ Len(Messages[c][n + 1]) \in Nat
         /\ \A i \in 1..Len(Messages[c][n + 1]) : Messages[c][n + 1][i] # NEWLINE
<1>1. Messages[c] \in Seq(Seq(Letter)) /\ n + 1 \in DOMAIN Messages[c] /\ NEWLINE \notin Letter
  BY EchoAssumption
<1>2. Messages[c][n + 1] \in Seq(Letter)
  BY <1>1
<1> DEFINE m == Messages[c][n + 1]
<1>3. Letter \subseteq Units
  BY DEF Units
<1> HIDE DEF m
<1>4. m \in Seq(Letter)
  BY <1>2 DEF m
<1>5. m \in Seq(Units) /\ Len(m) \in Nat /\ \A i \in 1..Len(m) : m[i] \in Letter
  BY <1>3, <1>4, SeqOfMore
<1> QED BY <1>1, <1>5 DEF m

LEMMA DueIn ==
  ASSUME NEW c \in Client, NEW n \in Nat
  PROVE  /\ ds11!Due(c, n) \in Seq(Units)
         /\ n >= Len(Messages[c]) => ds11!Due(c, n) = << >>
         /\ n < Len(Messages[c]) /\ Format[c] = ASCII =>
              ds11!Due(c, n) = Messages[c][n + 1] \o << NEWLINE >>
         /\ n < Len(Messages[c]) /\ Format[c] = BIN =>
              ds11!Due(c, n) = << Len(Messages[c][n + 1]) >> \o Messages[c][n + 1]
<1>0. Len(Messages[c]) \in Nat /\ ASCII # BIN /\ Format[c] \in {ASCII, BIN}
  BY EchoAssumption
<1>1. CASE n >= Len(Messages[c])
  BY <1>0, <1>1 DEF ds11!Due
<1>2. CASE n < Len(Messages[c])
  <2> DEFINE m == Messages[c][n + 1]
  <2>1. m \in Seq(Units) /\ Len(m) \in Units /\ NEWLINE \in Units
    BY <1>2, MessageIn DEF Units
  <2>2. ds11!Due(c, n) = IF Format[c] = ASCII THEN m \o << NEWLINE >> ELSE << Len(m) >> \o m
    BY <1>2 DEF ds11!Due, ds11!Encoded
  <2> HIDE DEF m
  <2>3. m \o << NEWLINE >> \in Seq(Units) /\ << Len(m) >> \o m \in Seq(Units)
    BY <2>1
  <2>4. ds11!Due(c, n) \in Seq(Units)
    BY <2>2, <2>3
  <2>5. /\ Format[c] = ASCII => ds11!Due(c, n) = m \o << NEWLINE >>
        /\ Format[c] = BIN => ds11!Due(c, n) = << Len(m) >> \o m
    BY <1>0, <2>2
  <2>6. ~ (n >= Len(Messages[c]))
    BY <1>0, <1>2
  <2> QED BY <2>4, <2>5, <2>6 DEF m
<1> QED BY <1>0, <1>1, <1>2

LEMMA AnsweredMore ==
  ASSUME NEW c \in Client, NEW rs \in Seq(Seq(Units)), Answered(c, rs), Len(rs) < Len(Messages[c]),
         NEW m \in Seq(Units), m = Messages[c][Len(rs) + 1]
  PROVE  /\ ds11!reverse_string(m) \in Seq(Units) /\ Append(rs, ds11!reverse_string(m)) \in Seq(Seq(Units))
         /\ Len(Append(rs, ds11!reverse_string(m))) = Len(rs) + 1
         /\ Answered(c, Append(rs, ds11!reverse_string(m)))
<1> DEFINE r == ds11!reverse_string(m)  l == Len(m)  q == Append(rs, r)
<1>1. r \in Seq(Units)
  <2>1. l \in Nat /\ \A i \in 1..l : l + 1 - i \in 1..l
    OBVIOUS
  <2>2. \A i \in 1..l : m[l + 1 - i] \in Units
    BY <2>1
  <2> QED BY <2>1, <2>2 DEF ds11!reverse_string
<1>2. r = ds11!reverse_string(Messages[c][Len(rs) + 1]) /\ Len(Messages[c]) \in Nat
  BY EchoAssumption
<1> HIDE DEF r
<1>3. /\ q \in Seq(Seq(Units)) /\ Len(q) = Len(rs) + 1 /\ Len(rs) \in Nat
      /\ \A n \in 1..Len(rs) : q[n] = rs[n]
      /\ q[Len(rs) + 1] = r
  BY <1>1
<1> HIDE DEF q
<1>4. \A n \in 1..Len(q) : q[n] = ds11!reverse_string(Messages[c][n])
  <2>1. \A n \in 1..Len(rs) : q[n] = ds11!reverse_string(Messages[c][n])
    BY <1>3, Zenon DEF Answered
  <2>2. q[Len(rs) + 1] = ds11!reverse_string(Messages[c][Len(rs) + 1])
    BY <1>2, <1>3, Zenon
  <2>3. \A n \in 1..Len(q) : n \in 1..Len(rs) \/ n = Len(rs) + 1
    BY <1>3
  <2> QED BY <2>1, <2>2, <2>3, Zenon
<1>5. Answered(c, q)
  BY <1>2, <1>3, <1>4 DEF Answered
<1> QED BY <1>1, <1>3, <1>5 DEF q, r

LEMMA WholeSent ==
  ASSUME NEW c, NEW where, NEW m, NEW w \in Seq(Units), NEW u \in Seq(Units), u # << >>, NEW rs, NEW l
  PROVE  /\ Whole(c, where, m, w, u, rs, l) => Whole(c, where, m, Append(w, Head(u)), Tail(u), rs, l)
         /\ Before(c, w, u, rs) => Before(c, Append(w, Head(u)), Tail(u), rs)
<1>1. Append(w, Head(u)) \o Tail(u) = w \o u
  BY PassOn
<1> QED BY <1>1 DEF Whole, Before

LEMMA WholeRead ==
  ASSUME NEW c, NEW where, where # "length", NEW m \in Seq(Units), NEW w \in Seq(Units), NEW u \in Seq(Units),
         NEW rs, NEW l, Whole(c, where, m, w, u, rs, l), NEW n \in 0..Len(w)
  PROVE  Whole(c, where, m \o SubSeq(w, 1, n), SubSeq(w, n + 1, Len(w)), u, rs, l)
<1>1. ReadsOn(m, w, u, n)
  BY ReadOn
<1> QED BY <1>1 DEF Whole, ReadsOn

LEMMA WholeChosen ==
  ASSUME NEW c \in Client, NEW m \in Seq(Units), NEW w \in Seq(Units), NEW u \in Seq(Units), NEW rs, NEW l,
         Whole(c, "format", m, w, u, rs, l), EndsOf(m, NEWLINE) # {}
  PROVE  /\ m[1] = Format[c]
         /\ ~ (Len(m) > Min(EndsOf(m, NEWLINE))) => w \o u = ds11!Due(c, 0) /\ rs = << >>
<1> DEFINE x == << Format[c] >>  y == ds11!Due(c, 0)  r == w \o u
<1>1. Format[c] \in Units /\ NEWLINE \in Units /\ Format[c] # NEWLINE
  BY EchoAssumption DEF Units
<1>2. x \in Seq(Units) /\ Len(x) = 1 /\ x[1] = Format[c] /\ << Format[c], NEWLINE >> = x \o << NEWLINE >>
  BY <1>1
<1>3. y \in Seq(Units) /\ r \in Seq(Units)
  BY DueIn, ConcatIs
<1>4. m \o r = (x \o << NEWLINE >>) \o y /\ rs = << >>
  BY <1>2 DEF Whole, Greeting
<1>5. \A i \in 1..Len(x) : x[i] # NEWLINE
  BY <1>1, <1>2
<1> HIDE DEF x, y, r
<1>6. LineFirst(m, r, x, NEWLINE, y)
  BY <1>4, <1>5 DEF LineFirst
<1>7. /\ Min(EndsOf(m, NEWLINE)) = Len(x) + 1 /\ Len(x) + 1 <= Len(m)
      /\ SubSeq(m, 1, Len(x)) = x
      /\ Len(m) = Len(x) + 1 => r = y
  <2>1. x \in Seq(Units) /\ NEWLINE \in Units
    BY <1>1, <1>2
  <2>2. LineRead(m, r, x, NEWLINE, y)
    BY <1>3, <1>6, <2>1, LineIsRead
  <2> QED BY <2>2 DEF LineRead
<1>8. SubSeq(m, 1, 1)[1] = m[1] /\ Len(m) \in Nat
  BY <1>2, <1>7
<1>9. m[1] = Format[c]
  BY <1>2, <1>7, <1>8
<1> QED BY <1>2, <1>4, <1>7, <1>8, <1>9 DEF r, y

\* When all of a message has been read nothing is on its way, and the reply
\* makes the next one due.
LEMMA NextDue ==
  ASSUME NEW c \in Client, NEW w \in Seq(Units), NEW u \in Seq(Units), w \o u = << >>, NEW n \in Nat
  PROVE  /\ w \o (u \o ds11!Due(c, n)) = ds11!Due(c, n)
         /\ << >> \o (w \o (u \o ds11!Due(c, n))) = ds11!Due(c, n)
<1>1. ds11!Due(c, n) \in Seq(Units)
  BY DueIn
<1>2. Assoc(w, u, ds11!Due(c, n))
  BY <1>1, ConcatAssoc
<1>3. << >> \o ds11!Due(c, n) = ds11!Due(c, n)
  BY <1>1, ConcatEmpty
<1> QED BY <1>2, <1>3 DEF Assoc

LEMMA WholeAscii ==
  ASSUME NEW c \in Client, NEW m \in Seq(Units), NEW w \in Seq(Units), NEW u \in Seq(Units),
         NEW rs \in Seq(Seq(Units)), NEW l,
         Whole(c, "ascii", m, w, u, rs, l), EndsOf(m, NEWLINE) # {}
  PROVE  /\ Len(rs) < Len(Messages[c]) /\ Len(m) = Min(EndsOf(m, NEWLINE))
         /\ SubSeq(m, 1, Min(EndsOf(m, NEWLINE)) - 1) = Messages[c][Len(rs) + 1]
         /\ \A q, k : Len(q) = Len(rs) + 1 => Whole(c, "ascii", << >>, w, u \o ds11!Due(c, Len(rs) + 1), q, k)
<1> DEFINE r == w \o u  x == Messages[c][Len(rs) + 1]
<1>1. Format[c] = ASCII /\ m \o r = ds11!Due(c, Len(rs)) /\ Len(rs) \in Nat /\ Len(Messages[c]) \in Nat
  BY EchoAssumption DEF Whole
<1>2. r \in Seq(Units) /\ NEWLINE \in Units /\ Len(m) \in Nat
  BY ConcatIs DEF Units
<1> HIDE DEF r
<1>3. Len(rs) < Len(Messages[c])
  <2>1. Len(m \o r) = Len(m) + Len(r) /\ Len(r) \in Nat
    BY <1>2, ConcatIs
  <2>2. ASSUME m \o r = << >> PROVE FALSE
    <3>1. DOMAIN m = {}
      BY <1>2, <2>1, <2>2
    <3> QED BY <3>1 DEF EndsOf
  <2>3. Len(rs) >= Len(Messages[c]) => ds11!Due(c, Len(rs)) = << >>
    BY <1>1, DueIn
  <2> QED BY <1>1, <2>2, <2>3
<1>4. x \in Seq(Units) /\ \A i \in 1..Len(x) : x[i] # NEWLINE
  BY <1>1, <1>3, MessageIn
<1>5. ds11!Due(c, Len(rs)) = x \o << NEWLINE >> /\ ds11!Due(c, Len(rs)) \in Seq(Units)
  BY <1>1, <1>3, DueIn
<1> HIDE DEF x
<1>6. << >> \in Seq(Units) /\ LineFirst(m, r, x, NEWLINE, << >>)
  <2>1. (x \o << NEWLINE >>) \o << >> = x \o << NEWLINE >>
    BY <1>5, ConcatEmpty
  <2> QED BY <1>1, <1>4, <1>5, <2>1 DEF LineFirst
<1>7. /\ Min(EndsOf(m, NEWLINE)) = Len(x) + 1 /\ Len(m) = Len(x) + 1 /\ SubSeq(m, 1, Len(x)) = x
      /\ r = << >>
  <2>1. r \in Seq(Units) /\ NEWLINE \in Units
    BY <1>2
  <2>2. /\ Min(EndsOf(m, NEWLINE)) = Len(x) + 1 /\ Len(m) = Len(x) + 1
        /\ SubSeq(m, 1, Len(x)) = x
        /\ Len(m) = Len(x) + 1 => r = << >>
    <3>1. LineRead(m, r, x, NEWLINE, << >>)
      BY <1>4, <1>6, <2>1, LineIsRead
    <3> QED BY <3>1 DEF LineRead
  <2> QED BY <2>2
<1>8. Len(x) \in Nat /\ (Len(x) + 1) - 1 = Len(x)
  BY <1>4
<1>9. << >> \o (w \o (u \o ds11!Due(c, Len(rs) + 1))) = ds11!Due(c, Len(rs) + 1)
  <2>1. w \o u = << >> /\ Len(rs) + 1 \in Nat
    BY <1>1, <1>7 DEF r
  <2> QED BY <2>1, NextDue
<1>10. \A q, k : Len(q) = Len(rs) + 1 => Whole(c, "ascii", << >>, w, u \o ds11!Due(c, Len(rs) + 1), q, k)
  BY <1>1, <1>9 DEF Whole
<1> QED BY <1>3, <1>7, <1>8, <1>10 DEF x

LEMMA WholeLength ==
  ASSUME NEW c \in Client, NEW m, NEW w \in Seq(Units), NEW u \in Seq(Units),
         NEW rs \in Seq(Seq(Units)), NEW l, Whole(c, "length", m, w, u, rs, l), w # << >>
  PROVE  Head(w) \in Nat /\ Whole(c, "text", << >>, Tail(w), u, rs, Head(w))
<1> DEFINE x == Messages[c][Len(rs) + 1]
<1>1. Format[c] = BIN /\ w \o u = ds11!Due(c, Len(rs)) /\ Len(rs) \in Nat /\ Len(Messages[c]) \in Nat
  BY EchoAssumption DEF Whole
<1>2. /\ << Head(w) >> \in Seq(Units) /\ Tail(w) \in Seq(Units) /\ w = << Head(w) >> \o Tail(w)
      /\ Len(<< Head(w) >>) = 1
  OBVIOUS
<1>3. Len(rs) < Len(Messages[c])
  <2>1. Len(w \o u) = Len(w) + Len(u) /\ Len(w) \in Nat /\ Len(u) \in Nat /\ Len(w) # 0
    BY ConcatIs
  <2>2. w \o u # << >>
    BY <2>1
  <2>3. Len(rs) >= Len(Messages[c]) => ds11!Due(c, Len(rs)) = << >>
    BY <1>1, DueIn
  <2> QED BY <1>1, <2>2, <2>3
<1>4. x \in Seq(Units) /\ Len(x) \in Nat /\ ds11!Due(c, Len(rs)) = << Len(x) >> \o x
  BY <1>1, <1>3, MessageIn, DueIn
<1> HIDE DEF x
<1>5. << Len(x) >> \in Seq(Units) /\ Len(<< Len(x) >>) = 1
  BY <1>4 DEF Units
<1>6. << Head(w) >> \o (Tail(w) \o u) = << Len(x) >> \o x
  <2>1. Assoc(<< Head(w) >>, Tail(w), u)
    BY <1>2, ConcatAssoc
  <2>2. (<< Head(w) >> \o Tail(w)) \o u = << Head(w) >> \o (Tail(w) \o u)
    BY <2>1 DEF Assoc
  <2> QED BY <1>1, <1>2, <1>4, <2>2
<1>7. Tail(w) \o u \in Seq(Units)
  BY <1>2, ConcatIs
<1>8. << Head(w) >> = << Len(x) >> /\ Tail(w) \o u = x
  BY <1>2, <1>4, <1>5, <1>6, <1>7, SplitSame
<1>9. Head(w) = Len(x)
  BY <1>8
<1>10. << >> \o (Tail(w) \o u) = x
  BY <1>7, <1>8, ConcatEmpty
<1> QED BY <1>1, <1>3, <1>4, <1>9, <1>10 DEF Whole, x

LEMMA WholeText ==
  ASSUME NEW c \in Client, NEW m \in Seq(Units), NEW w \in Seq(Units), NEW u \in Seq(Units),
         NEW rs \in Seq(Seq(Units)), NEW l, Whole(c, "text", m, w, u, rs, l), Len(m) = l
  PROVE  /\ Len(rs) < Len(Messages[c]) /\ m = Messages[c][Len(rs) + 1]
         /\ \A q, k : Len(q) = Len(rs) + 1 => Whole(c, "length", m, w, u \o ds11!Due(c, Len(rs) + 1), q, k)
<1> DEFINE r == w \o u  x == Messages[c][Len(rs) + 1]
<1>1. /\ Format[c] = BIN /\ Len(rs) < Len(Messages[c]) /\ Len(rs) \in Nat
      /\ m \o r = x /\ Len(m) = Len(x)
  BY DEF Whole
<1>2. x \in Seq(Units) /\ r \in Seq(Units) /\ << >> \in Seq(Units)
  BY <1>1, MessageIn, ConcatIs
<1> HIDE DEF x, r
<1>3. m \o r = x \o << >>
  BY <1>1, <1>2, ConcatEmpty
<1>4. m = x /\ r = << >>
  BY <1>1, <1>2, <1>3, SplitSame
<1>5. w \o (u \o ds11!Due(c, Len(rs) + 1)) = ds11!Due(c, Len(rs) + 1)
  <2>1. w \o u = << >> /\ Len(rs) + 1 \in Nat
    BY <1>1, <1>4 DEF r
  <2> QED BY <2>1, NextDue
<1>6. \A q, k : Len(q) = Len(rs) + 1 => Whole(c, "length", m, w, u \o ds11!Due(c, Len(rs) + 1), q, k)
  BY <1>1, <1>5 DEF Whole
<1> QED BY <1>1, <1>4, <1>6 DEF x

EchoTypeOK ==
  /\ pc \in {"accept", "format", "ascii", "length", "text", "down"}
  /\ met \in SUBSET Client /\ csock \in met \cup {NULL} /\ (pc \notin {"accept", "down"} => csock # NULL)
  /\ mesg \in Seq(Units) /\ buf_size \in Nat /\ buf_capacity \in Nat /\ buf_used \in Nat /\ mesg_len \in Nat
  /\ unsent \in [Client -> Seq(Units)] /\ wire \in [Client -> Seq(Units)]
  /\ replies \in [Client -> Seq(Seq(Units))]

\* What main believes of the buffer is not more than what is allocated.
BufferSound ==
  /\ buf_size <= buf_capacity
  /\ pc \in {"format", "ascii"} => buf_used + 1 <= buf_capacity /\ Len(mesg) <= buf_used /\ buf_size <= buf_used + 1
  /\ pc = "text" => mesg_len <= buf_capacity

RepliesRight == \A c \in Client \ dropped : Answered(c, replies[c])

\* Only the client that is served can be connected and not have left.
StreamsWhole == \A c \in Client \ (dropped \cup gone) :
  /\ c \in met => c = csock /\ Whole(c, pc, mesg, wire[c], unsent[c], replies[c], mesg_len)
  /\ c \notin met => Before(c, wire[c], unsent[c], replies[c])

EchoInv == EchoTypeOK /\ BufferSound /\ RepliesRight /\ StreamsWhole

\* A step that touches the stream of the client served, and no other.
Elsewhere == \A c \in Client \ {csock} : wire'[c] = wire[c] /\ unsent'[c] = unsent[c] /\ replies'[c] = replies[c]
LEMMA StreamsKept ==
  ASSUME EchoInv, met' = met, csock' = csock, dropped \subseteq dropped', gone \subseteq gone', Elsewhere,
         csock \in Client /\ csock \notin dropped' /\ csock \notin gone' =>
           Whole(csock, pc', mesg', wire'[csock], unsent'[csock], replies'[csock], mesg_len')
  PROVE  StreamsWhole'
<1> USE EchoAssumption
<1>1. StreamsWhole /\ csock \in met \cup {NULL} /\ NULL \notin Client
  BY DEF EchoInv, EchoTypeOK
<1> SUFFICES ASSUME NEW c \in Client, c \notin dropped', c \notin gone'
    PROVE  /\ c \in met' => c = csock' /\ Whole(c, pc', mesg', wire'[c], unsent'[c], replies'[c], mesg_len')
           /\ c \notin met' => Before(c, wire'[c], unsent'[c], replies'[c])
  BY DEF StreamsWhole
<1>2. c \notin dropped /\ c \notin gone
  OBVIOUS
<1>3. CASE c = csock
  BY <1>1, <1>3
<1>4. CASE c # csock
  BY <1>1, <1>2, <1>4 DEF StreamsWhole, Elsewhere
<1> QED BY <1>3, <1>4

LEMMA RepliesKept ==
  ASSUME EchoInv, dropped \subseteq dropped', Elsewhere,
         csock \in Client /\ csock \notin dropped' => Answered(csock, replies'[csock])
  PROVE  RepliesRight'
<1>1. RepliesRight
  BY DEF EchoInv
<1> SUFFICES ASSUME NEW c \in Client, c \notin dropped' PROVE Answered(c, replies'[c])
  BY DEF RepliesRight
<1>2. CASE c = csock
  BY <1>2
<1>3. CASE c # csock
  BY <1>1, <1>3 DEF RepliesRight, Elsewhere
<1> QED BY <1>2, <1>3

LEMMA StartLineSound ==
  ASSUME NEW b \in Nat, b <= buf_capacity, buf_capacity \in Nat, ds11!StartLine(b)
  PROVE  /\ mesg' = << >> /\ mesg' \in Seq(Units) /\ Len(mesg') <= buf_used'
         /\ buf_size' \in Nat /\ buf_capacity' \in Nat /\ buf_used' \in Nat
         /\ buf_size' <= buf_capacity' /\ buf_used' + 1 <= buf_capacity' /\ buf_size' <= buf_used' + 1
<1> USE EchoAssumption
<1>1. /\ mesg' = << >> /\ buf_size' = b /\ buf_used' = IF b > 1 THEN b - 1 ELSE INIT_BUF
      /\ buf_capacity' = IF buf_used' + 1 > b THEN buf_used' + 1 ELSE buf_capacity
  BY DEF ds11!StartLine
<1>2. buf_used' \in Nat /\ INIT_BUF \in Nat
  BY <1>1
<1> QED BY <1>1, <1>2

LEMMA ServeSound ==
  ASSUME EchoTypeOK, BufferSound, pc \in {"format", "ascii"}, NEW f, ds11!Serve(f)
  PROVE  /\ f \in {ASCII, BIN}
         /\ (f = ASCII /\ pc' = "ascii" /\ mesg' = << >>) \/ (f = BIN /\ pc' = "length")
         /\ mesg' \in Seq(Units) /\ buf_size' \in Nat /\ buf_capacity' \in Nat /\ buf_used' \in Nat
         /\ buf_size' <= buf_capacity'
         /\ pc' = "ascii" => buf_used' + 1 <= buf_capacity' /\ Len(mesg') <= buf_used' /\ buf_size' <= buf_used' + 1
<1>1. /\ buf_used \in Nat /\ buf_capacity \in Nat /\ buf_used + 1 <= buf_capacity /\ buf_size \in Nat
      /\ mesg \in Seq(Units)
  BY DEF EchoTypeOK, BufferSound
<1>2. CASE f = ASCII /\ pc' = "ascii" /\ ds11!StartLine(buf_used)
  <2>1. buf_used <= buf_capacity
    BY <1>1
  <2>2. /\ mesg' = << >> /\ mesg' \in Seq(Units) /\ Len(mesg') <= buf_used'
        /\ buf_size' \in Nat /\ buf_capacity' \in Nat /\ buf_used' \in Nat
        /\ buf_size' <= buf_capacity' /\ buf_used' + 1 <= buf_capacity' /\ buf_size' <= buf_used' + 1
    BY <1>1, <1>2, <2>1, StartLineSound
  <2> QED BY <1>2, <2>2
<1>3. CASE f = BIN /\ pc' = "length" /\ buf_size' = buf_used /\ UNCHANGED << mesg, buf_used, buf_capacity >>
  BY <1>1, <1>3
<1> QED BY <1>2, <1>3 DEF ds11!Serve

LEMMA EchoAccept == ASSUME EchoInv, NEW c \in Client, ds11!accept(c) PROVE EchoInv'
<1> USE EchoAssumption
<1>1. /\ pc = "accept" /\ c \notin met /\ met' = met \cup {c} /\ csock' = c /\ pc' = "format"
      /\ mesg_len' = mesg_len /\ gone' = gone /\ unsent' = unsent /\ wire' = wire
      /\ replies' = replies /\ dropped' = dropped
  BY DEF ds11!accept
<1>2. /\ mesg' = << >> /\ mesg' \in Seq(Units) /\ Len(mesg') <= buf_used'
      /\ buf_size' \in Nat /\ buf_capacity' \in Nat /\ buf_used' \in Nat
      /\ buf_size' <= buf_capacity' /\ buf_used' + 1 <= buf_capacity' /\ buf_size' <= buf_used' + 1
  <2>1. buf_size \in Nat /\ buf_size <= buf_capacity /\ buf_capacity \in Nat /\ ds11!StartLine(buf_size)
    BY DEF EchoInv, EchoTypeOK, BufferSound, ds11!accept
  <2> QED BY <2>1, StartLineSound
<1>3. EchoTypeOK'
  BY <1>1, <1>2 DEF EchoInv, EchoTypeOK
<1>4. BufferSound'
  BY <1>1, <1>2 DEF BufferSound
<1>5. RepliesRight'
  BY <1>1 DEF EchoInv, RepliesRight
<1>6. StreamsWhole'
  <2> SUFFICES ASSUME NEW d \in Client, d \notin dropped, d \notin gone
      PROVE  /\ d \in met' => d = csock' /\ Whole(d, pc', mesg', wire[d], unsent[d], replies[d], mesg_len)
             /\ d \notin met' => Before(d, wire[d], unsent[d], replies[d])
    BY <1>1 DEF StreamsWhole
  <2>1. /\ d \in met => Whole(d, "accept", mesg, wire[d], unsent[d], replies[d], mesg_len)
        /\ d \notin met => Before(d, wire[d], unsent[d], replies[d])
    BY <1>1 DEF EchoInv, StreamsWhole
  <2>2. d \notin met
    BY <2>1 DEF Whole
  <2>3. wire[d] \o unsent[d] \in Seq(Units)
    <3>1. wire[d] \in Seq(Units) /\ unsent[d] \in Seq(Units)
      BY DEF EchoInv, EchoTypeOK
    <3> QED BY <3>1, ConcatIs
  <2>4. << >> \o (wire[d] \o unsent[d]) = wire[d] \o unsent[d]
    BY <2>3, ConcatEmpty
  <2> QED BY <1>1, <1>2, <2>1, <2>2, <2>4 DEF Whole, Before
<1> QED BY <1>3, <1>4, <1>5, <1>6 DEF EchoInv

LEMMA EchoSend == ASSUME EchoInv, NEW c \in Client, ds11!Send(c) PROVE EchoInv'
<1>1. /\ c \in met /\ unsent[c] # << >>
      /\ wire' = [wire EXCEPT ![c] = Append(wire[c], Head(unsent[c]))]
      /\ unsent' = [unsent EXCEPT ![c] = Tail(unsent[c])]
      /\ pc' = pc /\ csock' = csock /\ mesg' = mesg /\ buf_size' = buf_size /\ buf_capacity' = buf_capacity
      /\ buf_used' = buf_used /\ mesg_len' = mesg_len /\ met' = met /\ gone' = gone /\ replies' = replies
      /\ dropped' = dropped
  BY DEF ds11!Send, ds11!bufVars
<1>2. /\ wire \in [Client -> Seq(Units)] /\ unsent \in [Client -> Seq(Units)]
      /\ wire[c] \in Seq(Units) /\ unsent[c] \in Seq(Units)
  BY DEF EchoInv, EchoTypeOK
<1>3. Append(wire[c], Head(unsent[c])) \in Seq(Units) /\ Tail(unsent[c]) \in Seq(Units)
  BY <1>1, <1>2, PassOn
<1>4. EchoTypeOK'
  BY <1>1, <1>2, <1>3 DEF EchoInv, EchoTypeOK
<1>5. BufferSound' /\ RepliesRight'
  BY <1>1 DEF EchoInv, BufferSound, RepliesRight
<1>6. StreamsWhole'
  <2> SUFFICES ASSUME NEW d \in Client, d \notin dropped, d \notin gone
      PROVE  /\ d \in met => d = csock /\ Whole(d, pc, mesg, wire'[d], unsent'[d], replies[d], mesg_len)
             /\ d \notin met => Before(d, wire'[d], unsent'[d], replies[d])
    BY <1>1 DEF StreamsWhole
  <2>1. /\ d \in met => d = csock /\ Whole(d, pc, mesg, wire[d], unsent[d], replies[d], mesg_len)
        /\ d \notin met => Before(d, wire[d], unsent[d], replies[d])
    BY DEF EchoInv, StreamsWhole
  <2>2. CASE d = c
    <3>1. wire'[d] = Append(wire[c], Head(unsent[c])) /\ unsent'[d] = Tail(unsent[c])
      BY <1>1, <1>2, <2>2
    <3>2. Whole(c, pc, mesg, wire[c], unsent[c], replies[c], mesg_len)
      BY <1>1, <2>1, <2>2
    <3>3. Whole(c, pc, mesg, Append(wire[c], Head(unsent[c])), Tail(unsent[c]), replies[c], mesg_len)
      BY <1>1, <1>2, <3>2, WholeSent
    <3> QED BY <1>1, <2>1, <2>2, <3>1, <3>3
  <2>3. CASE d # c
    BY <1>1, <1>2, <2>1, <2>3
  <2> QED BY <2>2, <2>3
<1> QED BY <1>4, <1>5, <1>6 DEF EchoInv

LEMMA EchoLeave == ASSUME EchoInv, NEW c \in Client, ds11!Leave(c) PROVE EchoInv'
<1>1. /\ gone' = gone \cup {c}
      /\ pc' = pc /\ csock' = csock /\ mesg' = mesg /\ buf_size' = buf_size /\ buf_capacity' = buf_capacity
      /\ buf_used' = buf_used /\ mesg_len' = mesg_len /\ met' = met /\ replies' = replies
      /\ unsent' = unsent /\ wire' = wire /\ dropped' = dropped
  BY DEF ds11!Leave, ds11!bufVars
<1>2. EchoTypeOK' /\ BufferSound' /\ RepliesRight'
  BY <1>1 DEF EchoInv, EchoTypeOK, BufferSound, RepliesRight
<1>3. StreamsWhole'
  BY <1>1 DEF EchoInv, StreamsWhole
<1> QED BY <1>2, <1>3 DEF EchoInv

\* What a read takes.
LEMMA MinIsEcho == \A S : ds11!Min(S) = Min(S)
BY DEF ds11!Min, Min
LEMMA TakeIn ==
  ASSUME NEW w \in Seq(Units), NEW k \in Nat
  PROVE  ds11!Min({Len(w), k}) \in 0..Len(w) /\ ds11!Min({Len(w), k}) <= k
<1>1. Len(w) \in Nat
  OBVIOUS
<1>2. ds11!Min({Len(w), k}) = Least(Len(w), k)
  BY <1>1, MinIsEcho, LeastIs
<1> QED BY <1>1, <1>2 DEF Least

LEMMA EchoTakes ==
  ASSUME EchoInv, csock # NULL, NEW n \in 0..Len(wire[csock]), ds11!Take(n), pc # "length",
         pc' = pc, csock' = csock, met' = met, gone' = gone, unsent' = unsent, replies' = replies,
         dropped' = dropped, mesg_len' = mesg_len
  PROVE  /\ mesg' \in Seq(Units) /\ Len(mesg') = Len(mesg) + n /\ wire' \in [Client -> Seq(Units)]
         /\ RepliesRight' /\ StreamsWhole'
<1> DEFINE w == wire[csock]  u == unsent[csock]
<1>1. /\ csock \in Client /\ w \in Seq(Units) /\ u \in Seq(Units) /\ wire \in [Client -> Seq(Units)]
      /\ mesg \in Seq(Units) /\ csock \in met
  BY DEF EchoInv, EchoTypeOK
<1>2. /\ mesg' = mesg \o SubSeq(w, 1, n) /\ wire' = [wire EXCEPT ![csock] = SubSeq(w, n + 1, Len(w))]
  BY DEF ds11!Take, ds11!Arrived
<1>3. /\ mesg \o SubSeq(w, 1, n) \in Seq(Units) /\ Len(mesg \o SubSeq(w, 1, n)) = Len(mesg) + n
      /\ SubSeq(w, n + 1, Len(w)) \in Seq(Units)
  BY <1>1, ReadOn
<1>4. Elsewhere /\ wire' \in [Client -> Seq(Units)] /\ wire'[csock] = SubSeq(w, n + 1, Len(w))
  BY <1>1, <1>2, <1>3 DEF Elsewhere
<1>5. ASSUME csock \notin dropped, csock \notin gone
      PROVE  Whole(csock, pc, mesg', wire'[csock], u, replies[csock], mesg_len)
  <2>1. Whole(csock, pc, mesg, w, u, replies[csock], mesg_len)
    BY <1>1, <1>5 DEF EchoInv, StreamsWhole
  <2>2. Whole(csock, pc, mesg \o SubSeq(w, 1, n), SubSeq(w, n + 1, Len(w)), u, replies[csock], mesg_len)
    BY <1>1, <2>1, WholeRead
  <2> QED BY <1>2, <1>4, <2>2
<1>6. StreamsWhole'
  BY <1>4, <1>5, StreamsKept
<1>7. RepliesRight'
  BY DEF EchoInv, RepliesRight
<1> QED BY <1>2, <1>3, <1>4, <1>6, <1>7

LEMMA EchoReadLine == ASSUME EchoInv, ds11!ReadLine PROVE EchoInv'
<1>1. /\ pc \in {"format", "ascii"} /\ csock \in Client /\ csock # NULL /\ wire[csock] \in Seq(Units)
      /\ buf_used \in Nat /\ buf_capacity \in Nat /\ Len(mesg) \in Nat
      /\ buf_used + 1 <= buf_capacity /\ Len(mesg) <= buf_used /\ buf_size \in Nat
      /\ buf_size <= buf_capacity /\ buf_size <= buf_used + 1
  BY DEF EchoInv, EchoTypeOK, BufferSound, ds11!ReadLine, ds11!InLine
<1> DEFINE n == ds11!Min({Len(wire[csock]), ds11!Room - Len(mesg)})
<1>2. ds11!Room \in Nat /\ ds11!Room - Len(mesg) \in Nat /\ ds11!Room >= buf_used
  BY <1>1 DEF ds11!Room
<1>3. n \in 0..Len(wire[csock]) /\ n <= ds11!Room - Len(mesg)
  BY <1>1, <1>2, TakeIn
<1>4. /\ ds11!Take(n) /\ buf_used' = ds11!Room
      /\ buf_capacity' = (IF ds11!Room = buf_used THEN buf_capacity ELSE ds11!Room + 1)
      /\ pc' = pc /\ csock' = csock /\ buf_size' = buf_size /\ mesg_len' = mesg_len /\ met' = met
      /\ gone' = gone /\ unsent' = unsent /\ replies' = replies /\ dropped' = dropped
  BY <1>1 DEF ds11!ReadLine, ds11!Arrived, ds11!clientVars
<1> HIDE DEF n
<1>5. /\ mesg' \in Seq(Units) /\ Len(mesg') = Len(mesg) + n /\ wire' \in [Client -> Seq(Units)]
      /\ RepliesRight' /\ StreamsWhole'
  <2>1. pc # "length"
    BY <1>1
  <2> QED BY <1>1, <1>3, <1>4, <2>1, EchoTakes
<1>6. EchoTypeOK'
  BY <1>1, <1>2, <1>4, <1>5 DEF EchoInv, EchoTypeOK
<1>7. BufferSound'
  <2>1. /\ buf_used' + 1 <= buf_capacity' /\ buf_capacity' \in Nat /\ buf_size <= buf_capacity'
        /\ buf_size <= buf_used' + 1
    <3> DEFINE k == ds11!Room
    <3>1. /\ k \in Nat /\ k >= buf_used /\ buf_used' = k
          /\ buf_capacity' = IF k = buf_used THEN buf_capacity ELSE k + 1
      BY <1>2, <1>4
    <3> HIDE DEF k
    <3>2. /\ buf_used \in Nat /\ buf_capacity \in Nat /\ buf_used + 1 <= buf_capacity
          /\ buf_size \in Nat /\ buf_size <= buf_used + 1 /\ buf_size <= buf_capacity
      BY <1>1
    <3>3. CASE k = buf_used
      BY <3>1, <3>2, <3>3
    <3>4. CASE k > buf_used /\ buf_capacity' = k + 1
      BY <3>1, <3>2, <3>4
    <3> QED BY <3>1, <3>2, <3>3, <3>4
  <2>2. Len(mesg') <= buf_used'
    BY <1>1, <1>2, <1>3, <1>4, <1>5
  <2> QED BY <1>1, <1>4, <2>1, <2>2 DEF BufferSound
<1> QED BY <1>5, <1>6, <1>7 DEF EchoInv

LEMMA EchoReadText == ASSUME EchoInv, ds11!ReadText PROVE EchoInv'
<1>1. /\ pc = "text" /\ csock \in Client /\ csock # NULL /\ wire[csock] \in Seq(Units)
      /\ mesg_len \in Nat /\ Len(mesg) \in Nat /\ Len(mesg) < mesg_len
  BY DEF EchoInv, EchoTypeOK, ds11!ReadText
<1> DEFINE n == ds11!Min({Len(wire[csock]), mesg_len - Len(mesg)})
<1>2. n \in 0..Len(wire[csock])
  <2>1. mesg_len - Len(mesg) \in Nat
    BY <1>1
  <2> QED BY <1>1, <2>1, TakeIn
<1>3. /\ ds11!Take(n) /\ pc' = pc /\ csock' = csock /\ buf_size' = buf_size /\ buf_capacity' = buf_capacity
      /\ buf_used' = buf_used /\ mesg_len' = mesg_len /\ met' = met
      /\ gone' = gone /\ unsent' = unsent /\ replies' = replies /\ dropped' = dropped
  BY <1>1 DEF ds11!ReadText, ds11!Arrived, ds11!clientVars
<1> HIDE DEF n
<1>4. /\ mesg' \in Seq(Units) /\ wire' \in [Client -> Seq(Units)] /\ RepliesRight' /\ StreamsWhole'
  <2>1. pc # "length"
    BY <1>1
  <2> QED BY <1>1, <1>2, <1>3, <2>1, EchoTakes
<1>5. EchoTypeOK' /\ BufferSound'
  BY <1>1, <1>3, <1>4 DEF EchoInv, EchoTypeOK, BufferSound
<1> QED BY <1>4, <1>5 DEF EchoInv

\* What main does with a client that has left does not count.
LEMMA LeftAlone ==
  ASSUME EchoInv, csock \in gone, csock' = csock, met' = met, gone' = gone, unsent' = unsent, wire' = wire,
         replies' = replies, dropped' = dropped
  PROVE  RepliesRight' /\ StreamsWhole'
<1>1. Elsewhere /\ csock \in gone' /\ dropped \subseteq dropped' /\ gone \subseteq gone'
  BY DEF Elsewhere
<1>2. StreamsWhole'
  BY <1>1, StreamsKept
<1> QED BY <1>2 DEF EchoInv, RepliesRight

LEMMA EchoCutOff == ASSUME EchoInv, ds11!LineCutOff PROVE EchoInv'
<1>1. /\ pc \in {"format", "ascii"} /\ csock \in gone /\ csock' = csock /\ mesg_len' = mesg_len /\ met' = met
      /\ gone' = gone /\ unsent' = unsent /\ wire' = wire /\ replies' = replies /\ dropped' = dropped
  BY DEF ds11!LineCutOff, ds11!InLine, ds11!AtEnd, ds11!clientVars
<1>2. RepliesRight' /\ StreamsWhole'
  BY <1>1, LeftAlone
<1>3. EchoTypeOK /\ BufferSound
  BY DEF EchoInv
<1>4. CASE pc' = "accept" /\ buf_size' = buf_used /\ UNCHANGED << mesg, buf_used, buf_capacity >>
  <2>1. buf_used <= buf_capacity
    BY <1>1, <1>3 DEF EchoTypeOK, BufferSound
  <2>2. EchoTypeOK' /\ BufferSound'
    BY <1>1, <1>3, <1>4, <2>1 DEF EchoTypeOK, BufferSound
  <2> QED BY <1>2, <2>2 DEF EchoInv
<1>5. ASSUME NEW f, ds11!Serve(f) PROVE EchoInv'
  <2>1. /\ pc' \in {"ascii", "length"}
        /\ mesg' \in Seq(Units) /\ buf_size' \in Nat /\ buf_capacity' \in Nat /\ buf_used' \in Nat
        /\ buf_size' <= buf_capacity'
        /\ pc' = "ascii" => buf_used' + 1 <= buf_capacity' /\ Len(mesg') <= buf_used' /\ buf_size' <= buf_used' + 1
    BY <1>1, <1>3, <1>5, ServeSound
  <2>2. EchoTypeOK' /\ BufferSound'
    BY <1>1, <1>3, <2>1 DEF EchoTypeOK, BufferSound
  <2> QED BY <1>2, <2>2 DEF EchoInv
<1>6. CASE pc' = "down" /\ UNCHANGED ds11!bufVars
  <2>1. EchoTypeOK' /\ BufferSound'
    BY <1>1, <1>3, <1>6 DEF EchoTypeOK, BufferSound, ds11!bufVars
  <2> QED BY <1>2, <2>1 DEF EchoInv
<1> QED BY <1>4, <1>5, <1>6 DEF ds11!LineCutOff

LEMMA EchoGivesUp == ASSUME EchoInv, ds11!Sigpipe \/ ds11!NoLength PROVE EchoInv'
<1>1. /\ pc' \in {"down", "accept"} /\ csock \in gone /\ csock' = csock /\ mesg' = mesg
      /\ buf_size' = buf_size /\ buf_capacity' = buf_capacity /\ buf_used' = buf_used
      /\ mesg_len' = mesg_len /\ met' = met /\ gone' = gone /\ unsent' = unsent /\ wire' = wire
      /\ replies' = replies /\ dropped' = dropped
  BY DEF ds11!Sigpipe, ds11!NoLength, ds11!AtEnd, ds11!clientVars, ds11!bufVars
<1>2. RepliesRight' /\ StreamsWhole'
  BY <1>1, LeftAlone
<1>3. EchoTypeOK' /\ BufferSound'
  BY <1>1 DEF EchoInv, EchoTypeOK, BufferSound
<1> QED BY <1>2, <1>3 DEF EchoInv

LEMMA EchoWriteFails == ASSUME EchoInv, ds11!write_fails PROVE EchoInv'
<1>1. /\ csock \in gone /\ pc' = "accept" /\ csock' = csock /\ mesg' = mesg
      /\ buf_capacity' = buf_capacity /\ buf_used' = buf_used /\ mesg_len' = mesg_len /\ met' = met
      /\ gone' = gone /\ unsent' = unsent /\ wire' = wire /\ replies' = replies /\ dropped' = dropped
      /\ \/ pc = "ascii" /\ buf_size' = buf_used
         \/ buf_size' = buf_size
  BY DEF ds11!write_fails, ds11!HasLine, ds11!clientVars
<1>2. RepliesRight' /\ StreamsWhole'
  BY <1>1, LeftAlone
<1>3. EchoTypeOK /\ BufferSound
  BY DEF EchoInv
<1>4. buf_size' \in Nat /\ buf_size' <= buf_capacity
  BY <1>1, <1>3 DEF EchoTypeOK, BufferSound
<1>5. EchoTypeOK' /\ BufferSound'
  BY <1>1, <1>3, <1>4 DEF EchoTypeOK, BufferSound
<1> QED BY <1>2, <1>5 DEF EchoInv

LEMMA EchoWelcomeFails == ASSUME EchoInv, NEW c \in Client, ds11!welcome_fails(c) PROVE EchoInv'
<1>1. /\ pc = "accept" /\ met' = met \cup {c} /\ gone' = gone \cup {c} /\ csock' = c /\ pc' = pc /\ mesg' = mesg
      /\ buf_size' = buf_size /\ buf_capacity' = buf_capacity /\ buf_used' = buf_used /\ mesg_len' = mesg_len
      /\ unsent' = unsent /\ wire' = wire /\ replies' = replies /\ dropped' = dropped
  BY DEF ds11!welcome_fails, ds11!bufVars
<1>2. EchoTypeOK' /\ BufferSound' /\ RepliesRight'
  BY <1>1 DEF EchoInv, EchoTypeOK, BufferSound, RepliesRight
<1>3. StreamsWhole'
  <2> SUFFICES ASSUME NEW d \in Client, d \notin dropped, d \notin gone, d # c
      PROVE  /\ d \in met => d = c /\ Whole(d, pc, mesg, wire[d], unsent[d], replies[d], mesg_len)
             /\ d \notin met => Before(d, wire[d], unsent[d], replies[d])
    BY <1>1 DEF StreamsWhole
  <2>1. /\ d \in met => Whole(d, "accept", mesg, wire[d], unsent[d], replies[d], mesg_len)
        /\ d \notin met => Before(d, wire[d], unsent[d], replies[d])
    BY <1>1 DEF EchoInv, StreamsWhole
  <2>2. d \notin met
    BY <2>1 DEF Whole
  <2> QED BY <2>1, <2>2
<1> QED BY <1>2, <1>3 DEF EchoInv

LEMMA EchoChooses == ASSUME EchoInv, ds11!ChooseService PROVE EchoInv'
<1> DEFINE e == EndsOf(mesg, NEWLINE)
<1>1. /\ pc = "format" /\ e # {} /\ ds11!Serve(mesg[1])
      /\ dropped' = IF Len(mesg) > Min(e) THEN dropped \cup {csock} ELSE dropped
      /\ csock' = csock /\ mesg_len' = mesg_len /\ met' = met /\ gone' = gone /\ unsent' = unsent
      /\ wire' = wire /\ replies' = replies
  BY MinIsEcho DEF ds11!ChooseService, ds11!InLine, ds11!Newlines, ds11!Lose, ds11!LineEnd, ds11!clientVars, EndsOf
<1> HIDE DEF e
<1>2. EchoTypeOK /\ BufferSound
  BY DEF EchoInv
<1>3. /\ mesg[1] \in {ASCII, BIN}
      /\ (mesg[1] = ASCII /\ pc' = "ascii" /\ mesg' = << >>) \/ (mesg[1] = BIN /\ pc' = "length")
      /\ mesg' \in Seq(Units) /\ buf_size' \in Nat /\ buf_capacity' \in Nat /\ buf_used' \in Nat
      /\ buf_size' <= buf_capacity'
      /\ pc' = "ascii" => buf_used' + 1 <= buf_capacity' /\ Len(mesg') <= buf_used' /\ buf_size' <= buf_used' + 1
  BY <1>1, <1>2, ServeSound
<1>4. EchoTypeOK' /\ BufferSound'
  BY <1>1, <1>2, <1>3 DEF EchoTypeOK, BufferSound
<1>5. Elsewhere /\ dropped \subseteq dropped' /\ gone \subseteq gone'
  BY <1>1 DEF Elsewhere
<1>6. ASSUME csock \in Client, csock \notin dropped', csock \notin gone'
      PROVE  Whole(csock, pc', mesg', wire'[csock], unsent'[csock], replies'[csock], mesg_len')
  <2> DEFINE w == wire[csock]  u == unsent[csock]  rs == replies[csock]
  <2>1. w \in Seq(Units) /\ u \in Seq(Units) /\ mesg \in Seq(Units) /\ csock \in met
    BY <1>1, <1>2, <1>6 DEF EchoTypeOK
  <2>2. Whole(csock, "format", mesg, w, u, rs, mesg_len)
    BY <1>1, <1>5, <1>6, <2>1 DEF EchoInv, StreamsWhole
  <2> HIDE DEF w, u, rs
  <2>3. ~ (Len(mesg) > Min(e))
    BY <1>1, <1>6
  <2>4. mesg[1] = Format[csock] /\ w \o u = ds11!Due(csock, 0) /\ rs = << >>
    BY <1>1, <1>6, <2>1, <2>2, <2>3, WholeChosen DEF e
  <2>5. w \o u \in Seq(Units) /\ << >> \o (w \o u) = w \o u
    BY <2>1, ConcatIs, ConcatEmpty
  <2>6. Len(rs) = 0
    BY <2>4
  <2>7. Whole(csock, pc', mesg', w, u, rs, mesg_len)
    BY <1>3, <2>4, <2>5, <2>6 DEF Whole
  <2> QED BY <1>1, <2>7 DEF w, u, rs
<1>7. StreamsWhole'
  BY <1>1, <1>5, <1>6, StreamsKept
<1>8. RepliesRight'
  BY <1>1 DEF EchoInv, RepliesRight
<1> QED BY <1>4, <1>7, <1>8 DEF EchoInv

LEMMA EchoLength == ASSUME EchoInv, ds11!ReadLength PROVE EchoInv'
<1>1. /\ pc = "length" /\ csock \in Client /\ csock # NULL /\ wire \in [Client -> Seq(Units)]
      /\ csock \in met
      /\ unsent[csock] \in Seq(Units) /\ replies[csock] \in Seq(Seq(Units))
      /\ buf_size \in Nat /\ buf_capacity \in Nat /\ buf_size <= buf_capacity
  BY DEF EchoInv, EchoTypeOK, BufferSound, ds11!ReadLength
<1> DEFINE w == wire[csock]  u == unsent[csock]  rs == replies[csock]
<1>2. /\ w # << >> /\ mesg_len' = ds11!Number(Head(w)) /\ wire' = [wire EXCEPT ![csock] = Tail(w)]
      /\ pc' = "text" /\ mesg' = << >> /\ csock' = csock /\ buf_used' = buf_used /\ met' = met /\ gone' = gone
      /\ unsent' = unsent /\ replies' = replies /\ dropped' = dropped
      /\ IF buf_size < mesg_len' THEN buf_size' = mesg_len' /\ buf_capacity' = mesg_len'
         ELSE buf_size' = buf_size /\ buf_capacity' = buf_capacity
  BY <1>1 DEF ds11!ReadLength, ds11!Arrived, ds11!clientVars
<1>3. w \in Seq(Units) /\ Tail(w) \in Seq(Units) /\ mesg_len' \in Nat
  BY <1>1, <1>2 DEF ds11!Number, ds11!TooLong
<1>4. mesg' \in Seq(Units) /\ wire' \in [Client -> Seq(Units)] /\ wire'[csock] = Tail(w) /\ Elsewhere
  BY <1>1, <1>2, <1>3 DEF Elsewhere
<1>5. /\ buf_size' \in Nat /\ buf_capacity' \in Nat /\ buf_size' <= buf_capacity' /\ mesg_len' <= buf_capacity'
  BY <1>1, <1>2, <1>3
<1>6. EchoTypeOK' /\ BufferSound'
  <2>1. EchoTypeOK
    BY DEF EchoInv
  <2>2. EchoTypeOK'
    BY <1>1, <1>2, <1>3, <1>4, <1>5, <2>1 DEF EchoTypeOK
  <2>3. BufferSound'
    BY <1>2, <1>5 DEF BufferSound
  <2> QED BY <2>2, <2>3
<1>7. ASSUME csock \notin dropped, csock \notin gone
      PROVE  Whole(csock, "text", << >>, Tail(w), u, rs, mesg_len')
  <2>1. Whole(csock, "length", mesg, w, u, rs, mesg_len)
    BY <1>1, <1>7 DEF EchoInv, StreamsWhole
  <2> HIDE DEF w, u, rs
  <2>2. u \in Seq(Units) /\ rs \in Seq(Seq(Units))
    BY <1>1 DEF u, rs
  <2>3. Head(w) \in Nat /\ Whole(csock, "text", << >>, Tail(w), u, rs, Head(w))
    BY <1>1, <1>2, <1>3, <2>1, <2>2, WholeLength
  <2> QED BY <1>2, <2>3 DEF ds11!Number
<1>8. StreamsWhole'
  BY <1>2, <1>4, <1>7, StreamsKept
<1>9. RepliesRight'
  BY <1>2 DEF EchoInv, RepliesRight
<1> QED BY <1>6, <1>8, <1>9 DEF EchoInv

\* What a reply does: the client that is still there gets it and sends more.
LEMMA WriteIs ==
  ASSUME EchoTypeOK, csock \in Client, NEW m \in Seq(Units), ds11!Write(m)
  PROVE  /\ unsent' \in [Client -> Seq(Units)] /\ replies' \in [Client -> Seq(Seq(Units))]
         /\ \A c \in Client \ {csock} : unsent'[c] = unsent[c] /\ replies'[c] = replies[c]
         /\ csock \in gone => replies' = replies
         /\ csock \notin gone =>
              /\ replies'[csock] = Append(replies[csock], m)
              /\ unsent'[csock] = unsent[csock] \o ds11!Due(csock, Len(replies[csock]) + 1)
<1> DEFINE q == Append(replies[csock], m)
           u == unsent[csock] \o ds11!Due(csock, Len(replies[csock]) + 1)
<1>1. /\ unsent \in [Client -> Seq(Units)] /\ replies \in [Client -> Seq(Seq(Units))]
      /\ replies[csock] \in Seq(Seq(Units)) /\ unsent[csock] \in Seq(Units)
  BY DEF EchoTypeOK
<1>2. q \in Seq(Seq(Units))
  BY <1>1
<1>3. u \in Seq(Units)
  <2>1. Len(replies[csock]) + 1 \in Nat
    BY <1>1
  <2>2. ds11!Due(csock, Len(replies[csock]) + 1) \in Seq(Units)
    BY <2>1, DueIn
  <2> QED BY <1>1, <2>2, ConcatIs
<1>4. /\ csock \in gone => replies' = replies /\ unsent' = unsent
      /\ csock \notin gone => /\ replies' = [replies EXCEPT ![csock] = q]
                              /\ unsent' = [unsent EXCEPT ![csock] = u]
  BY DEF ds11!Write
<1> HIDE DEF q, u
<1>5. CASE csock \in gone
  BY <1>1, <1>4, <1>5
<1>6. CASE csock \notin gone
  <2>1. /\ unsent' \in [Client -> Seq(Units)] /\ replies' \in [Client -> Seq(Seq(Units))]
        /\ \A c \in Client \ {csock} : unsent'[c] = unsent[c] /\ replies'[c] = replies[c]
        /\ replies'[csock] = q /\ unsent'[csock] = u
    BY <1>1, <1>2, <1>3, <1>4, <1>6
  <2> QED BY <1>6, <2>1 DEF q, u
<1> QED BY <1>5, <1>6

LEMMA ReverseIn == ASSUME NEW m \in Seq(Units) PROVE ds11!reverse_string(m) \in Seq(Units)
<1>1. Len(m) \in Nat /\ \A i \in 1..Len(m) : Len(m) + 1 - i \in 1..Len(m)
  OBVIOUS
<1>2. \A i \in 1..Len(m) : m[Len(m) + 1 - i] \in Units
  BY <1>1
<1> QED BY <1>1, <1>2 DEF ds11!reverse_string

LEMMA EchoAscii == ASSUME EchoInv, ds11!handle_ascii PROVE EchoInv'
<1> DEFINE e == EndsOf(mesg, NEWLINE)  x == SubSeq(mesg, 1, Min(e) - 1)  rv == ds11!reverse_string(x)
<1>1. /\ pc = "ascii" /\ e # {} /\ ds11!Write(rv) /\ pc' = pc /\ ds11!StartLine(buf_used)
      /\ dropped' = IF Len(mesg) > Min(e) THEN dropped \cup {csock} ELSE dropped
      /\ csock' = csock /\ mesg_len' = mesg_len /\ met' = met /\ gone' = gone /\ wire' = wire
  BY MinIsEcho DEF ds11!handle_ascii, ds11!HasLine, ds11!InLine, ds11!Newlines, ds11!Lose, ds11!LineEnd, EndsOf
<1>2. /\ EchoTypeOK /\ csock \in Client /\ csock \in met /\ mesg \in Seq(Units)
      /\ buf_used \in Nat /\ buf_capacity \in Nat /\ buf_used <= buf_capacity
  BY <1>1 DEF EchoInv, EchoTypeOK, BufferSound
<1>3. x \in Seq(Units)
  <2>1. e \subseteq Nat /\ e \subseteq 1..Len(mesg)
    BY <1>2 DEF EndsOf
  <2>2. Min(e) \in 1..Len(mesg)
    BY <1>1, <2>1, LeastOf DEF Min
  <2> HIDE DEF e
  <2> QED BY <1>2, <2>2
<1>4. rv \in Seq(Units)
  BY <1>3, ReverseIn
<1> HIDE DEF rv
<1>5. /\ mesg' = << >> /\ mesg' \in Seq(Units) /\ Len(mesg') <= buf_used'
      /\ buf_size' \in Nat /\ buf_capacity' \in Nat /\ buf_used' \in Nat
      /\ buf_size' <= buf_capacity' /\ buf_used' + 1 <= buf_capacity' /\ buf_size' <= buf_used' + 1
  BY <1>1, <1>2, StartLineSound
<1>6. /\ unsent' \in [Client -> Seq(Units)] /\ replies' \in [Client -> Seq(Seq(Units))]
      /\ \A c \in Client \ {csock} : unsent'[c] = unsent[c] /\ replies'[c] = replies[c]
      /\ csock \in gone => replies' = replies
      /\ csock \notin gone =>
           /\ replies'[csock] = Append(replies[csock], rv)
           /\ unsent'[csock] = unsent[csock] \o ds11!Due(csock, Len(replies[csock]) + 1)
  BY <1>1, <1>2, <1>4, WriteIs
<1>7. EchoTypeOK'
  BY <1>1, <1>2, <1>5, <1>6 DEF EchoTypeOK
<1>8. BufferSound'
  BY <1>1, <1>5 DEF BufferSound
<1>9. Elsewhere /\ dropped \subseteq dropped' /\ gone \subseteq gone'
  BY <1>1, <1>6 DEF Elsewhere
<1>10. ASSUME csock \notin dropped', csock \notin gone
       PROVE  /\ Whole(csock, pc', mesg', wire'[csock], unsent'[csock], replies'[csock], mesg_len')
              /\ Answered(csock, replies'[csock])
  <2> DEFINE w == wire[csock]  u == unsent[csock]  rs == replies[csock]
  <2>1. w \in Seq(Units) /\ u \in Seq(Units) /\ rs \in Seq(Seq(Units))
    BY <1>2 DEF EchoTypeOK
  <2>2. Whole(csock, "ascii", mesg, w, u, rs, mesg_len) /\ Answered(csock, rs)
    BY <1>1, <1>2, <1>9, <1>10 DEF EchoInv, StreamsWhole, RepliesRight
  <2> HIDE DEF w, u, rs
  <2>3. /\ Len(rs) < Len(Messages[csock]) /\ x = Messages[csock][Len(rs) + 1]
        /\ \A q, k : Len(q) = Len(rs) + 1 =>
             Whole(csock, "ascii", << >>, w, u \o ds11!Due(csock, Len(rs) + 1), q, k)
    BY <1>1, <1>2, <2>1, <2>2, WholeAscii
  <2> HIDE DEF x
  <2>4. Len(Append(rs, rv)) = Len(rs) + 1 /\ Answered(csock, Append(rs, rv))
    BY <1>2, <1>3, <2>1, <2>2, <2>3, AnsweredMore DEF rv
  <2>5. Whole(csock, "ascii", << >>, w, u \o ds11!Due(csock, Len(rs) + 1), Append(rs, rv), mesg_len)
    BY <2>3, <2>4
  <2>6. replies'[csock] = Append(rs, rv) /\ unsent'[csock] = u \o ds11!Due(csock, Len(rs) + 1) /\ wire'[csock] = w
    BY <1>1, <1>6, <1>10 DEF w, u, rs
  <2> QED BY <1>1, <1>5, <2>4, <2>5, <2>6
<1>11. StreamsWhole'
  BY <1>1, <1>9, <1>10, StreamsKept
<1>12. csock \notin dropped' => Answered(csock, replies'[csock])
  <2>1. CASE csock \in gone
    BY <1>2, <1>6, <1>9, <2>1 DEF EchoInv, RepliesRight
  <2>2. CASE csock \notin gone
    BY <1>10, <2>2
  <2> QED BY <2>1, <2>2
<1>13. RepliesRight'
  BY <1>9, <1>12, RepliesKept
<1> QED BY <1>7, <1>8, <1>11, <1>13 DEF EchoInv

LEMMA EchoBin == ASSUME EchoInv, ds11!handle_bin PROVE EchoInv'
<1> DEFINE rv == ds11!reverse_string(mesg)
<1>1. /\ pc = "text" /\ ds11!Write(rv) /\ pc' = "length" /\ (Len(mesg) = mesg_len \/ csock \in gone)
      /\ csock' = csock /\ mesg' = mesg /\ buf_size' = buf_size /\ buf_capacity' = buf_capacity
      /\ buf_used' = buf_used /\ mesg_len' = mesg_len /\ met' = met /\ gone' = gone /\ wire' = wire
      /\ dropped' = dropped
  BY DEF ds11!handle_bin, ds11!HasText, ds11!bufVars, ds11!AtEnd
<1>2. EchoTypeOK /\ csock \in Client /\ csock \in met /\ mesg \in Seq(Units)
  BY <1>1 DEF EchoInv, EchoTypeOK
<1>3. rv \in Seq(Units)
  BY <1>2, ReverseIn
<1> HIDE DEF rv
<1>4. /\ unsent' \in [Client -> Seq(Units)] /\ replies' \in [Client -> Seq(Seq(Units))]
      /\ \A c \in Client \ {csock} : unsent'[c] = unsent[c] /\ replies'[c] = replies[c]
      /\ csock \in gone => replies' = replies
      /\ csock \notin gone =>
           /\ replies'[csock] = Append(replies[csock], rv)
           /\ unsent'[csock] = unsent[csock] \o ds11!Due(csock, Len(replies[csock]) + 1)
  BY <1>1, <1>2, <1>3, WriteIs
<1>5. EchoTypeOK'
  BY <1>1, <1>2, <1>4 DEF EchoTypeOK
<1>6. BufferSound'
  BY <1>1 DEF EchoInv, BufferSound
<1>7. Elsewhere /\ dropped \subseteq dropped' /\ gone \subseteq gone'
  BY <1>1, <1>4 DEF Elsewhere
<1>8. ASSUME csock \notin dropped', csock \notin gone
      PROVE  /\ Whole(csock, pc', mesg', wire'[csock], unsent'[csock], replies'[csock], mesg_len')
             /\ Answered(csock, replies'[csock])
  <2> DEFINE w == wire[csock]  u == unsent[csock]  rs == replies[csock]
  <2>1. w \in Seq(Units) /\ u \in Seq(Units) /\ rs \in Seq(Seq(Units)) /\ Len(mesg) = mesg_len
    BY <1>1, <1>2, <1>8 DEF EchoTypeOK
  <2>2. Whole(csock, "text", mesg, w, u, rs, mesg_len) /\ Answered(csock, rs)
    BY <1>1, <1>2, <1>8 DEF EchoInv, StreamsWhole, RepliesRight
  <2> HIDE DEF w, u, rs
  <2>3. /\ Len(rs) < Len(Messages[csock]) /\ mesg = Messages[csock][Len(rs) + 1]
        /\ \A q, k : Len(q) = Len(rs) + 1 =>
             Whole(csock, "length", mesg, w, u \o ds11!Due(csock, Len(rs) + 1), q, k)
    BY <1>2, <2>1, <2>2, WholeText
  <2>4. Len(Append(rs, rv)) = Len(rs) + 1 /\ Answered(csock, Append(rs, rv))
    BY <1>2, <2>1, <2>2, <2>3, AnsweredMore DEF rv
  <2>5. Whole(csock, "length", mesg, w, u \o ds11!Due(csock, Len(rs) + 1), Append(rs, rv), mesg_len)
    BY <2>3, <2>4
  <2>6. replies'[csock] = Append(rs, rv) /\ unsent'[csock] = u \o ds11!Due(csock, Len(rs) + 1) /\ wire'[csock] = w
    BY <1>1, <1>4, <1>8 DEF w, u, rs
  <2> QED BY <1>1, <2>4, <2>5, <2>6
<1>9. StreamsWhole'
  BY <1>1, <1>7, <1>8, StreamsKept
<1>10. csock \notin dropped' => Answered(csock, replies'[csock])
  <2>1. CASE csock \in gone
    BY <1>1, <1>2, <1>4, <2>1 DEF EchoInv, RepliesRight
  <2>2. CASE csock \notin gone
    BY <1>8, <2>2
  <2> QED BY <2>1, <2>2
<1>11. RepliesRight'
  BY <1>7, <1>10, RepliesKept
<1> QED BY <1>5, <1>6, <1>9, <1>11 DEF EchoInv

LEMMA EchoSteps == ASSUME EchoInv, ds11!Next PROVE EchoInv'
BY EchoAccept, EchoWelcomeFails, EchoSend, EchoLeave, EchoReadLine, EchoChooses, EchoCutOff, EchoGivesUp,
   EchoWriteFails, EchoAscii, EchoLength, EchoReadText, EchoBin DEF ds11!Next

LEMMA EchoStarts == Init => EchoInv
<1> USE EchoAssumption
<1> SUFFICES ASSUME Init PROVE EchoInv
  OBVIOUS
<1>1. /\ pc = "accept" /\ csock = NULL /\ mesg = << >> /\ buf_size = 0 /\ buf_capacity = 0 /\ buf_used = 0
      /\ mesg_len = 0 /\ met = {} /\ gone = {} /\ dropped = {}
      /\ unsent = [c \in Client |-> Greeting(c)]
      /\ wire = [c \in Client |-> << >>] /\ replies = [c \in Client |-> << >>]
  BY DEF Init, ds11!Init, Greeting
<1>2. ASSUME NEW c \in Client PROVE Greeting(c) \in Seq(Units)
  <2>1. << Format[c], NEWLINE >> \in Seq(Units)
    BY DEF Units
  <2>2. ds11!Due(c, 0) \in Seq(Units)
    BY DueIn
  <2> QED BY <2>1, <2>2, ConcatIs DEF Greeting
<1> HIDE EchoAssumption
<1>3. << >> \in Seq(Units) /\ << >> \in Seq(Seq(Units))
  OBVIOUS
<1>4. EchoTypeOK
  BY <1>1, <1>2, <1>3 DEF EchoTypeOK
<1>5. BufferSound
  BY <1>1 DEF BufferSound
<1>6. RepliesRight
  <2> SUFFICES ASSUME NEW c \in Client PROVE Answered(c, << >>)
    BY <1>1 DEF RepliesRight
  <2>1. Len(Messages[c]) \in Nat
    BY EchoAssumption
  <2> QED BY <2>1 DEF Answered
<1>7. StreamsWhole
  <2> SUFFICES ASSUME NEW c \in Client PROVE Before(c, << >>, Greeting(c), << >>)
    BY <1>1 DEF StreamsWhole
  <2>1. << >> \o Greeting(c) = Greeting(c)
    BY <1>2, ConcatEmpty
  <2> QED BY <2>1 DEF Before
<1> QED BY <1>4, <1>5, <1>6, <1>7 DEF EchoInv

LEMMA EchoMoves == [Next]_vars => ds11!Next \/ UNCHANGED echo
BY DEF Next, vars, Heap2, Heap1, List, Tree, Sort, PriQueue, Queue, Shell, Echo, Store

LEMMA EchoStays == ASSUME EchoInv, UNCHANGED echo PROVE EchoInv'
<1>1. /\ pc' = pc /\ csock' = csock /\ mesg' = mesg /\ buf_size' = buf_size /\ buf_capacity' = buf_capacity
      /\ buf_used' = buf_used /\ mesg_len' = mesg_len /\ met' = met /\ gone' = gone /\ replies' = replies
      /\ unsent' = unsent /\ wire' = wire /\ dropped' = dropped
  BY DEF echo
<1>2. EchoTypeOK' /\ BufferSound'
  BY <1>1 DEF EchoInv, EchoTypeOK, BufferSound
<1>3. RepliesRight' /\ StreamsWhole'
  BY <1>1 DEF EchoInv, RepliesRight, StreamsWhole
<1> QED BY <1>2, <1>3 DEF EchoInv

LEMMA EchoIsExact == EchoInv => EchoesExact
<1> SUFFICES ASSUME EchoInv PROVE EchoesExact
  OBVIOUS
<1>1. ASSUME NEW c \in Client \ dropped
      PROVE  /\ Len(replies[c]) <= Len(Messages[c])
             /\ \A n \in DOMAIN replies[c] : replies[c][n] = ds11!reverse_string(Messages[c][n])
  <2>1. Answered(c, replies[c])
    BY DEF EchoInv, RepliesRight
  <2>2. DOMAIN replies[c] = 1..Len(replies[c])
    BY DEF EchoInv, EchoTypeOK
  <2> QED BY <2>1, <2>2 DEF Answered
<1>2. (pc \in {"format", "ascii"} => buf_used + 1 <= buf_capacity) /\ (pc = "text" => mesg_len <= buf_capacity)
  BY DEF EchoInv, BufferSound
<1> QED BY <1>1, <1>2 DEF EchoesExact, ds11!EchoesExact

(* ds11_server.c: however the streams are cut into reads and whoever leaves *)
(* when, each client that sends its first message after its format was      *)
(* read gets its messages back reversed, each once and in order, and no     *)
(* read has more room than the buffer: what was read, what is on its way    *)
(* and what the client has yet to send are always, together, what it has    *)
(* to say from there on.                                                    *)
THEOREM EchoServerIsExact == Spec => []EchoesExact
<1>1. Init => EchoInv
  BY EchoStarts
<1>2. EchoInv /\ [Next]_vars => EchoInv'
  BY EchoSteps, EchoMoves, EchoStays
<1>3. EchoInv => EchoesExact
  BY EchoIsExact
<1> QED BY <1>1, <1>2, <1>3, PTL DEF Spec
=============================================================================
