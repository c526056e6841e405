---------------------------- MODULE Assignments -----------------------------
(***************************************************************************)
(* The small libraries and programs of the other assignments, one of them  *)
(* in each behaviour: nothing connects them but the choice at the start.   *)
(***************************************************************************)
EXTENDS Integers, Sequences, FiniteSets

CONSTANTS
  NULL, Value,
  Size, MaxBlocks, Byte,                            \* mp2 and ds2
  ListKey, ListLen,                                 \* mp1
  Thread, SharedKey, MaxRev, MaxDeletes,            \* mp7 and mp8
  Entry,                                            \* mp8
  NUM_INTS, Inputs,                                 \* mp4
  Cell, Pointer, QueueLen, KeyComp(_, _),           \* mp5
  Node, Item,                                       \* mp6
  Commands, Queries, LogSize,                       \* mp3
  Client, Letter, Format, Messages, ASCII, BIN, NEWLINE, INIT_BUF        \* ds11

\* The null pointer is no address, no thread and no text; malloc has only so
\* many addresses; sizes and revisions are not negative; a comparison function
\* returns an int; and a client of ds11 sends lines of characters, with a format that
\* the server knows.
ASSUME NullAssumption == NULL \notin Thread \cup Entry \cup Node \cup Cell \cup Value \cup Commands
ASSUME NodeAssumption == IsFiniteSet(Node)
ASSUME HeapAssumption == Size \subseteq Nat /\ MaxBlocks \in Nat /\ NULL \notin Seq(Byte \cup {0})
ASSUME StoreAssumption == MaxRev \in Nat
ASSUME CompAssumption == \A x, y \in Pointer : KeyComp(x, y) \in Int
ASSUME EchoAssumption ==
  /\ NULL \notin Client /\ INIT_BUF \in Nat
  /\ ASCII # BIN /\ NEWLINE \notin Letter \cup {ASCII, BIN}
  /\ Format \in [Client -> {ASCII, BIN}] /\ Messages \in [Client -> Seq(Seq(Letter))]

VARIABLES
  lib,                                                              \* the one that runs
  free_list, len, mem, kept,                                        \* mp2 and ds2
  list_entry, list_answer,                                          \* mp1
  store, store_lock, store_call, known, deletes,                    \* mp7
  root, stored, live, mutex, thread_pc, call, entry, answer,        \* mp8
  stage, input, list, capacity, round_ct, values_per_segment, end, tasks,        \* mp4
  pri_head, pri_size, cell, cells, pri_pc, ptr, new_node, curr, index, pri_answer,   \* mp5
  head, tail, size, nodes, item, next, ret,                         \* mp6
  shell_pc, line, the_log, child, typed, ran,                       \* mp3
  pc, csock, mesg, buf_size, buf_capacity, buf_used, mesg_len, met, gone,        \* ds11
  unsent, wire, replies, dropped

mp2 == INSTANCE Heap WITH Classes <- 2
ds2 == INSTANCE OneListHeap
mp1 == INSTANCE ListDictionary WITH
         entry <- list_entry, answer <- list_answer, Key <- ListKey, MaxLen <- ListLen
mp7 == INSTANCE DataStore WITH
         mutex <- store_lock, call <- store_call, Threads <- Thread, Keys <- SharedKey, Values <- Value
mp8 == INSTANCE LockedDictionary WITH pc <- thread_pc, Node <- Entry, Key <- SharedKey
mp4 == INSTANCE MergeSort
mp5 == INSTANCE PriQueueList WITH
         head <- pri_head, size <- pri_size, live <- cells, pc <- pri_pc, answer <- pri_answer,
         Node <- Cell, Value <- Pointer, MaxLen <- QueueLen, comp <- KeyComp
mp6 == INSTANCE QueueList WITH live <- nodes
mp3 == INSTANCE Shell WITH pc <- shell_pc
ds11 == INSTANCE EchoServer WITH capacity <- buf_capacity, size <- buf_used, len <- mesg_len
-----------------------------------------------------------------------------
heap == << free_list, len, mem, kept >>
mapOfList == << list_entry, list_answer >>
datastore == << store, store_lock, store_call, known, deletes >>
mapOfTree == << root, stored, live, mutex, thread_pc, call, entry, answer >>
sort == << stage, input, list, capacity, round_ct, values_per_segment, end, tasks >>
priqueue == << pri_head, pri_size, cell, cells, pri_pc, ptr, new_node, curr, index, pri_answer >>
queue == << head, tail, size, nodes, item, next, ret >>
shell == << shell_pc, line, the_log, child, typed, ran >>
echo == << pc, csock, mesg, buf_size, buf_capacity, buf_used, mesg_len, met, gone,
           unsent, wire, replies, dropped >>
vars == << lib, heap, mapOfList, datastore, mapOfTree, sort, priqueue, queue, shell, echo >>

Libraries == {"mp1", "mp2", "ds2", "mp3", "mp4", "mp5", "mp6", "mp7", "mp8", "ds11"}
Init ==
  /\ lib \in Libraries
  /\ IF lib = "ds2" THEN ds2!Init ELSE mp2!Init
  /\ mp1!dictionary_init /\ mp7!datastore_init /\ mp8!dictionary_init /\ mp4!Init
  /\ mp5!Init /\ mp6!queue_init /\ mp3!Init /\ ds11!Init

Run(name) == lib = name /\ lib' = lib
Heap2 == Run("mp2") /\ mp2!Next
         /\ UNCHANGED << mapOfList, datastore, mapOfTree, sort, priqueue, queue, shell, echo >>
Heap1 == Run("ds2") /\ ds2!Next
         /\ UNCHANGED << mapOfList, datastore, mapOfTree, sort, priqueue, queue, shell, echo >>
List == Run("mp1") /\ mp1!Next
         /\ UNCHANGED << heap, datastore, mapOfTree, sort, priqueue, queue, shell, echo >>
Store == Run("mp7") /\ mp7!Next
         /\ UNCHANGED << heap, mapOfList, mapOfTree, sort, priqueue, queue, shell, echo >>
Tree == Run("mp8") /\ mp8!Next
         /\ UNCHANGED << heap, mapOfList, datastore, sort, priqueue, queue, shell, echo >>
Sort == Run("mp4") /\ mp4!Next
         /\ UNCHANGED << heap, mapOfList, datastore, mapOfTree, priqueue, queue, shell, echo >>
PriQueue == Run("mp5") /\ mp5!Next
         /\ UNCHANGED << heap, mapOfList, datastore, mapOfTree, sort, queue, shell, echo >>
Queue == Run("mp6") /\ mp6!Next
         /\ UNCHANGED << heap, mapOfList, datastore, mapOfTree, sort, priqueue, shell, echo >>
Shell == Run("mp3") /\ mp3!Next
         /\ UNCHANGED << heap, mapOfList, datastore, mapOfTree, sort, priqueue, queue, echo >>
Echo == Run("ds11") /\ ds11!Next
         /\ UNCHANGED << heap, mapOfList, datastore, mapOfTree, sort, priqueue, queue, shell >>

Next == Heap2 \/ Heap1 \/ List \/ Store \/ Tree \/ Sort \/ PriQueue \/ Queue \/ Shell \/ Echo
Spec == Init /\ [][Next]_vars
-----------------------------------------------------------------------------
(* mp2/alloc.c and ds2/alloc.c: no block is given to two callers or lost,  *)
(* and a caller finds in its block what it or realloc has put there.       *)
HeapsSound == IF lib = "ds2" THEN ds2!Sound ELSE mp2!HeapSound

(* mp1/libdictionary: the linked list answers as the map it stands for,    *)
(* except that a parse is told 0 also when the key exists.                 *)
ListImplementsDictionary == mp1!ImplementsAllButParse

(* mp7/libds: a revision from datastore_get or _update names one value as  *)
(* long as its key is not deleted.                                         *)
RevisionNamesValue == mp7!RevisionNamesValue

(* mp7/libds: a value is only replaced by a thread that knew it, or has    *)
(* its revision from datastore_put or from before a delete.                *)
NoLostUpdate == mp7!NoLostUpdate

(* mp8/libs/libdictionary: the tree that threads share answers as the map  *)
(* would at one moment of each call, and only its entries are allocated.   *)
TreeImplementsDictionary == mp8!ImplementsDictionary

(* mp4/msort.c: threads that run at the same time work on parts of the     *)
(* list that do not overlap, and merge neighbours only.                    *)
ThreadsDisjoint == mp4!ThreadsDisjoint

(* mp4/msort.c: what is printed is the input in order, for the numbers of  *)
(* segments that the rounds handle.                                        *)
PrintsSorted == mp4!PrintsSorted

(* mp5/libpriqueue: the doubly linked list is well formed between calls,   *)
(* loses no cell, and behaves as the sequence the scheduler works with.    *)
ImplementsQueue == mp5!ImplementsQueue

(* mp6/queue.c: the linked list behaves as the sequence it stands for.     *)
ImplementsSequence == mp6!ImplementsSequence

(* mp3/shell.c and log.c: !query runs what was run last and begins so.     *)
LastMatchRuns == mp3!LastMatchRuns

(* ds11_server.c: messages come back reversed, each once and in order.     *)
EchoesExact == ds11!EchoesExact
=============================================================================
