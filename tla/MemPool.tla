------------------------------- MODULE MemPool -------------------------------
(***************************************************************************)
(* pool.c: a slab of equal blocks.  The free list is threaded through the  *)
(* free blocks themselves: the first word of a free block is the link, and *)
(* whoever acquires a block overwrites it.  Not thread safe; its user,     *)
(* Decoder, runs on one thread at a time.                                  *)
(***************************************************************************)
EXTENDS Integers, Sequences

CONSTANT BlockCount     \* block_count (DECODER_POOL_FRAMES)

ASSUME PoolAssumption == BlockCount \in Nat \ {0}

Null   == 0             \* blocks are numbered by address, NULL is none of them
Junk   == -1            \* what a holder wrote over the link
Blocks == 1 .. BlockCount

VARIABLES
    link,               \* the first word of each block
    free_head,          \* pool->free_head
    free_count,         \* pool->free_count
    free                \* history: the blocks that are free, the last released first

pool == <<link, free_head, free_count, free>>

\* pool_init strings the blocks together in the order of their addresses.
PoolInit ==
    /\ link = [b \in Blocks |-> IF b = BlockCount THEN Null ELSE b + 1]
    /\ free_head = 1
    /\ free_count = BlockCount
    /\ free = [i \in 1 .. BlockCount |-> i]

\* pool_acquire: b is the block returned, or Null from an exhausted pool.
Acquire(b) ==
    /\ b = free_head
    /\ IF free_head = Null THEN UNCHANGED pool
       ELSE /\ free_head' = link[b]
            /\ free_count' = free_count - 1
            /\ free' = Tail(free)
            /\ UNCHANGED link

\* The holder of b writes into it (frame_init).
Overwrite(b) ==
    /\ link' = [link EXCEPT ![b] = Junk]
    /\ UNCHANGED <<free_head, free_count, free>>

\* Mutant: the released block does not point at the rest of the list.
ReleaseUnlinked(b) ==
    /\ free_head' = b
    /\ free_count' = free_count + 1
    /\ free' = <<b>> \o free
    /\ UNCHANGED link

\* pool_release
Release(b) ==
    /\ link' = [link EXCEPT ![b] = free_head]
    /\ free_head' = b
    /\ free_count' = free_count + 1
    /\ free' = <<b>> \o free

(* The links lead from free_head through every free block, once, to NULL,  *)
(* although the holders of the other blocks write where the links were.    *)
FreeListIsWhole ==
    /\ free_count = Len(free)
    /\ \A i \in 1 .. Len(free) : free[i] \in Blocks
    /\ \A i, j \in 1 .. Len(free) : i # j => free[i] # free[j]
    /\ free_head = IF free = <<>> THEN Null ELSE free[1]
    /\ \A i \in 1 .. Len(free) :
          link[free[i]] = IF i = Len(free) THEN Null ELSE free[i + 1]
=============================================================================
