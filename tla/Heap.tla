-------------------------------- MODULE Heap --------------------------------
(***************************************************************************)
(* mp2/alloc.c: malloc, calloc, realloc and free on top of sbrk.  A block  *)
(* is named by the order in which sbrk made it, and never moves, grows or  *)
(* goes back; free blocks are kept in a list for even and one for odd      *)
(* lengths.  Its caller writes into every block it gets.                   *)
(***************************************************************************)
EXTENDS Naturals, Sequences, FiniteSetsExt

CONSTANTS
  Classes,          \* the number of free lists
  Size, MaxBlocks,  \* the sizes asked for, and how many blocks sbrk can make
  Byte, NULL

VARIABLES
  free_list,        \* the lists, by length modulo Classes
  len, mem,         \* of each block: entry->len and entry->mem
  kept              \* of each block: what its caller has in it, or NULL when it is free

vars == << free_list, len, mem, kept >>

Init == /\ free_list = [c \in 0..Classes - 1 |-> << >>]
        /\ len = << >> /\ mem = << >> /\ kept = << >>

\* `bytes' overwrite the beginning of a block.
Over(old, bytes) == [i \in DOMAIN old |-> IF i \in DOMAIN bytes THEN bytes[i] ELSE old[i]]
Filled(n, b) == [i \in 1..n |-> b]

List(size) == free_list[size % Classes]
Fits(size) == {i \in DOMAIN List(size) : len[List(size)[i]] >= size}
\* The first of the shortest blocks that fit.
Found(size) == LET shortest == {i \in Fits(size) : \A j \in Fits(size) :
                                   len[List(size)[i]] <= len[List(size)[j]]}
               IN  Min(shortest)

KeepLinked(size) == free_list      \* mutant: the block found stays in its list
Unlinked(size) == IF Fits(size) = {} THEN free_list
                  ELSE LET i == Found(size) IN
                       [free_list EXCEPT ![size % Classes] = SubSeq(@, 1, i - 1) \o SubSeq(@, i + 1, Len(@))]
Pushed(lists, block) == [lists EXCEPT ![len[block] % Classes] = << block >> \o @]

\* The block malloc returns, and the blocks there are then.
Result(size) == IF Fits(size) = {} THEN Len(len) + 1 ELSE List(size)[Found(size)]
CanGrow(size) == Fits(size) # {} \/ Len(len) < MaxBlocks
Grown(size) == IF Fits(size) = {} THEN Append(len, size) ELSE len
Memory(size) == IF Fits(size) = {} THEN Append(mem, Filled(size, NULL)) ELSE mem
Owners(size) == IF Fits(size) = {} THEN Append(kept, NULL) ELSE kept

Allocate(size, bytes) ==
  /\ CanGrow(size)
  /\ free_list' = Unlinked(size) /\ len' = Grown(size)
  /\ mem' = [Memory(size) EXCEPT ![Result(size)] = Over(@, bytes)]
  /\ kept' = [Owners(size) EXCEPT ![Result(size)] = bytes]

malloc(size) == \E b \in Byte : Allocate(size, Filled(size, b))
calloc(num, size) == Allocate(num * size, Filled(num * size, 0))

\* What a free block still holds is left out: nobody may read it.
Blank(n) == Filled(n, NULL)
free(ptr) ==
  /\ free_list' = Pushed(free_list, ptr)
  /\ kept' = [kept EXCEPT ![ptr] = NULL]
  /\ mem' = [mem EXCEPT ![ptr] = Blank(len[ptr])]
  /\ len' = len

\* malloc, memcpy of entry->len or size bytes, free: in that order.
Move(ptr, size) ==
  /\ CanGrow(size)
  /\ LET new == Result(size)
         copied == SubSeq(mem[ptr], 1, Min({len[ptr], size}))
     IN  /\ mem' = [Memory(size) EXCEPT ![new] = Over(@, copied), ![ptr] = Blank(len[ptr])]
         /\ kept' = [Owners(size) EXCEPT ![ptr] = NULL,
                       ![new] = SubSeq(kept[ptr], 1, Min({Len(kept[ptr]), size}))]
  /\ len' = Grown(size)
  /\ free_list' = Pushed(Unlinked(size), ptr)

\* A null pointer makes realloc a call of malloc.
realloc(ptr, size) ==
  \/ size = 0 /\ free(ptr)
  \/ size # 0 /\ Move(ptr, size)

Live == {b \in DOMAIN kept : kept[b] # NULL}
Next ==
  \/ \E size \in Size : malloc(size)
  \/ \E num \in {1, 2}, size \in Size : num * size \in Size /\ calloc(num, size)
  \/ \E ptr \in Live : free(ptr) \/ \E size \in Size : realloc(ptr, size)

Spec == Init /\ [][Next]_vars
-----------------------------------------------------------------------------
Places(b) == {p \in (0..Classes - 1) \X (1..MaxBlocks) :
                p[2] \in DOMAIN free_list[p[1]] /\ free_list[p[1]][p[2]] = b}
(* After any calls each block is either in use or at one place of one free *)
(* list, the one of its length; a block in use is as long as was asked,    *)
(* and holds what its caller wrote or what realloc had to carry over.      *)
HeapSound ==
  \A b \in DOMAIN len :
    /\ Cardinality(Places(b)) = IF b \in Live THEN 0 ELSE 1
    /\ \A p \in Places(b) : p[1] = len[b] % Classes
    /\ b \in Live => /\ Len(kept[b]) <= len[b]
                     /\ kept[b] = SubSeq(mem[b], 1, Len(kept[b]))
=============================================================================
