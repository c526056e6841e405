---------------------------- MODULE OneListHeap -----------------------------
(***************************************************************************)
(* ds2/alloc.c, the allocator as it was before its list was split by the   *)
(* parity of the lengths.                                                  *)
(***************************************************************************)
EXTENDS Naturals
CONSTANTS Size, MaxBlocks, Byte, NULL
VARIABLES free_list, len, mem, kept

One == INSTANCE Heap WITH Classes <- 1

Init == One!Init
malloc(size) == One!malloc(size)
calloc(num, size) == One!calloc(num, size)
free(ptr) == One!free(ptr)
realloc(ptr, size) == One!realloc(ptr, size)

Next == \/ \E size \in Size : malloc(size)
        \/ \E num \in {1, 2}, size \in Size : num * size \in Size /\ calloc(num, size)
        \/ \E ptr \in One!Live : free(ptr) \/ \E size \in Size : realloc(ptr, size)
-----------------------------------------------------------------------------
(* What Heap.tla says of a heap with any number of lists.                  *)
Sound == One!HeapSound
=============================================================================
