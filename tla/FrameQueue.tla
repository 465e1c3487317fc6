------------------------------ MODULE FrameQueue ------------------------------
(***************************************************************************)
(* framequeue.c: the ring of frame pointers between one producer thread    *)
(* and one consumer thread, without a lock.  Each call is split at its     *)
(* accesses to shared memory: push checks for room, stores the slot, then  *)
(* increments tail; pop checks for content, loads the slot, then           *)
(* increments head.  head and tail are machine words that wrap.            *)
(*                                                                         *)
(* The code separates slot and counter by a compiler barrier only.  With   *)
(* ordered = FALSE the processor may still exchange the two accesses, as   *)
(* arm64 does: the tail becomes visible before the slot, a slot is loaded  *)
(* before the check or after the head has moved.                           *)
(***************************************************************************)
EXTENDS Integers, Sequences

CONSTANTS
    WordBits,       \* 32: width of capacity, mask, head and tail
    MaxCapacity,    \* FRAMEQUEUE_MAX_CAPACITY
    Requests,       \* the capacities fq_init is asked for (bound)
    NoFrame,        \* NULL
    MaxFrames       \* bound: frames pushed altogether

Word   == 2 ^ WordBits
Powers == {2 ^ k : k \in 0 .. WordBits}

(* Powers of two divide the word: the only arithmetic the counters rely on. *)
ASSUME QueueAssumption ==
    /\ WordBits \in Nat /\ MaxFrames \in Nat
    /\ Requests \subseteq 0 .. Word - 1
    /\ NoFrame \notin Nat
    /\ Word \in Nat \ {0}
    /\ MaxCapacity \in Nat /\ MaxCapacity < Word
    /\ \A p \in Powers : p \in Nat \ {0} /\ \E m \in 1 .. Word : Word = m * p

VARIABLES
    ordered,        \* whether the hardware keeps the two accesses in order
    capacity,       \* q->capacity; mask is capacity - 1
    slots,          \* q->slots
    head, tail,     \* q->head, q->tail
    ppc,            \* producer: "idle", "store", "bump", or "late" (tail is
                    \*   out, the slot is not)
    cpc,            \* consumer: "idle", "load", "bump", "spec" (slot loaded
                    \*   before the check) or "late" (head moved, slot not loaded)
    peeking,        \* whether the consumer is in fq_peek
    hand,           \* the frame the consumer has loaded
    sent,           \* history: frames accepted
    out,            \* history: what the last pop returned
    peeked,         \* history: what the last peek since the last pop returned
    refused         \* history: whether the last push returned -1

qvars == <<ordered, capacity, slots, head, tail, ppc, cpc, peeking, hand,
           sent, out, peeked, refused>>

\* next_pow2: above half the range of the word the sum wraps to 0.
NextPow2(n) ==
    LET P == {p \in Powers : p >= n} IN (CHOOSE p \in P : \A r \in P : p <= r) % Word

Size  == (tail - head + Word) % Word
Empty == head = tail
\* Mutant: full only once the capacity is exceeded.
FullTooLate == Size > capacity
Full  == Size = capacity
\* i & mask; with capacity 0 the mask has every bit set.
Slot(i) == IF capacity = 0 THEN i ELSE i % capacity

\* Mutant: fq_init does not check the rounded capacity against the array.
InitWithoutLimit(request, ord) ==
    /\ ordered = ord
    /\ capacity = NextPow2(request)
    /\ slots = [i \in 0 .. MaxCapacity - 1 |-> NoFrame]
    /\ head = 0 /\ tail = 0 /\ ppc = "idle" /\ cpc = "idle" /\ peeking = FALSE
    /\ hand = NoFrame /\ sent = 0 /\ out = NoFrame /\ peeked = NoFrame
    /\ refused = FALSE

\* fq_init on a request it accepts; a refused one makes no queue.
InitWith(request, ord) ==
    /\ NextPow2(request) <= MaxCapacity
    /\ ordered = ord
    /\ capacity = NextPow2(request)
    /\ slots = [i \in 0 .. MaxCapacity - 1 |-> NoFrame]
    /\ head = 0 /\ tail = 0 /\ ppc = "idle" /\ cpc = "idle" /\ peeking = FALSE
    /\ hand = NoFrame /\ sent = 0 /\ out = NoFrame /\ peeked = NoFrame
    /\ refused = FALSE

FqInit == \E request \in Requests, ord \in BOOLEAN : InitWith(request, ord)

-----------------------------------------------------------------------------
(* fq_push *)

PushCheck ==
    /\ ppc = "idle" /\ sent < MaxFrames
    /\ IF Full THEN refused' = TRUE /\ UNCHANGED ppc
               ELSE ppc' = "store" /\ UNCHANGED refused
    /\ UNCHANGED <<ordered, capacity, slots, head, tail, cpc, peeking, hand,
                   sent, out, peeked>>

\* The frame being pushed is number sent + 1, or sent if the tail went first.
StoreSlot(from, to, i, n) ==
    /\ ppc = from /\ ppc' = to
    /\ slots' = [slots EXCEPT ![Slot(i)] = n]
    /\ UNCHANGED <<ordered, capacity, head, tail, cpc, peeking, hand, sent, out,
                   peeked, refused>>

BumpTail(from, to) ==
    /\ ppc = from /\ ppc' = to
    /\ tail' = (tail + 1) % Word
    /\ sent' = sent + 1 /\ refused' = FALSE
    /\ UNCHANGED <<ordered, capacity, slots, head, cpc, peeking, hand, out, peeked>>

\* Mutant: the tail is incremented before the slot is stored.
PushTailFirst == \/ PushCheck
                 \/ BumpTail("store", "late")
                 \/ StoreSlot("late", "idle", tail - 1 + Word, sent)

FqPush == \/ PushCheck
          \/ StoreSlot("store", "bump", tail, sent + 1)
          \/ BumpTail("bump", "idle")
          \/ ~ordered /\ BumpTail("store", "late")
          \/ StoreSlot("late", "idle", tail - 1 + Word, sent)

-----------------------------------------------------------------------------
(* fq_pop, fq_peek *)

Consumer == <<ordered, capacity, slots, tail, ppc, sent, refused>>

\* The check.  from = "spec": the slot has been loaded already.
PopCheck(from) ==
    /\ cpc = from
    /\ \E peek \in BOOLEAN :
         IF Empty THEN /\ cpc' = "idle"
                       /\ out' = IF peek THEN out ELSE NoFrame
                       /\ hand' = NoFrame /\ UNCHANGED <<peeking, peeked>>
         ELSE IF from = "idle"
              THEN cpc' = "load" /\ peeking' = peek /\ UNCHANGED <<out, peeked, hand>>
         ELSE IF peek
              THEN cpc' = "idle" /\ peeked' = hand /\ hand' = NoFrame
                   /\ UNCHANGED <<out, peeking>>
              ELSE cpc' = "bump" /\ peeking' = FALSE /\ UNCHANGED <<out, peeked, hand>>
    /\ UNCHANGED <<Consumer, head>>

LoadSlot(from, to) ==
    /\ cpc = from /\ cpc' = to
    /\ hand' = slots[Slot(head)]
    /\ UNCHANGED <<Consumer, head, peeking, out, peeked>>

PeekReturn ==
    /\ cpc = "bump" /\ peeking
    /\ cpc' = "idle" /\ peeking' = FALSE /\ peeked' = hand /\ hand' = NoFrame
    /\ UNCHANGED <<Consumer, head, out>>

BumpHead ==
    /\ cpc = "bump" /\ ~peeking
    /\ cpc' = "idle" /\ hand' = NoFrame
    /\ head' = (head + 1) % Word /\ out' = hand /\ peeked' = NoFrame
    /\ UNCHANGED <<Consumer, peeking>>

\* The head moves first, then the slot it stood on is loaded.
BumpHeadFirst ==
    /\ ~ordered /\ cpc = "load" /\ ~peeking
    /\ cpc' = "late" /\ head' = (head + 1) % Word /\ peeked' = NoFrame
    /\ UNCHANGED <<Consumer, peeking, hand, out>>

LoadLate ==
    /\ cpc = "late" /\ cpc' = "idle"
    /\ out' = slots[Slot(head - 1 + Word)]
    /\ UNCHANGED <<Consumer, head, peeking, peeked, hand>>

FqPop == \/ PopCheck("idle")
         \/ LoadSlot("load", "bump")
         \/ PeekReturn \/ BumpHead
         \/ BumpHeadFirst \/ LoadLate
         \/ ~ordered /\ LoadSlot("idle", "spec")
         \/ PopCheck("spec")

-----------------------------------------------------------------------------
\* fq_reset, called while no push or pop is under way.
FqReset ==
    /\ ppc = "idle" /\ cpc = "idle"
    /\ head' = 0 /\ tail' = 0 /\ peeked' = NoFrame
    /\ UNCHANGED <<ordered, capacity, slots, ppc, cpc, peeking, hand, sent, out,
                   refused>>

FqNext == FqPush \/ FqPop \/ FqReset

FqSpec == FqInit /\ [][FqNext]_qvars
-----------------------------------------------------------------------------
(* The capacity fq_init settles on is a power of two that fits the array   *)
(* of slots (for requests that next_pow2 does not wrap, see below), and    *)
(* the counters stay words.                                                *)
QueueTypeOK ==
    /\ ordered \in BOOLEAN /\ peeking \in BOOLEAN /\ refused \in BOOLEAN
    /\ head \in 0 .. Word - 1 /\ tail \in 0 .. Word - 1
    /\ slots \in [0 .. MaxCapacity - 1 -> Nat \cup {NoFrame}]
    /\ ppc \in {"idle", "store", "bump", "late"}
    /\ cpc \in {"idle", "load", "bump", "spec", "late"}
    /\ capacity \in Powers /\ capacity <= MaxCapacity
    /\ sent \in Nat

(* Whatever the hardware exchanges, the queue never holds more than its    *)
(* capacity, a push under way has room, and that stays so while the        *)
(* counters wrap.                                                          *)
SizeWithinCapacity == Size <= capacity /\ (ppc \in {"store", "bump"} => Size < capacity)

(* framequeue.h:16: "Capacity must be a power of two, enforced by          *)
(* fq_init()".  Every queue fq_init returns 0 for has such a capacity, and *)
(* so room for a frame, also where the request lies above the maximum,     *)
(* which :48 says is refused.                                              *)
CapacityIsPowerOfTwo == capacity \in Powers

\* The frames in the queue, oldest first.
Contents == [i \in 1 .. Size |-> slots[Slot(head + i - 1)]]

Fifo == INSTANCE FrameFifo WITH
            cap <- capacity, q <- Contents

(* As long as the hardware keeps a slot and its counter in order, the      *)
(* unlocked ring is the bounded queue of framequeue.h, for any             *)
(* interleaving of the two threads and across the wrap of the counters, and *)
(* fq_peek tells what the next fq_pop returns.                             *)
QueueIsFifo ==
    (ordered => Fifo!FInit) /\ [][ordered => Fifo!FNext \/ UNCHANGED Fifo!fvars]_qvars
=============================================================================
