----------------------------- MODULE Rings_proofs -----------------------------
(***************************************************************************)
(* The two rings of the players, whose positions are counters modulo a     *)
(* size.                                                                   *)
(*                                                                         *)
(* The ring of frames, for every width of the counters, every capacity and *)
(* any number of frames: it never holds more than it has room for, and     *)
(* while the hardware keeps a slot and its counter in order it implements  *)
(* the bounded queue FrameFifo.  The argument: the capacity divides the    *)
(* machine word, so a slot follows from its distance to head, also across  *)
(* the wrap, and slots less than a capacity apart differ.                  *)
(*                                                                         *)
(* The audio ring, for every size of the ring, of the blocks pushed and of *)
(* the device's requests: every position holds the latest byte that fell   *)
(* on it, wpos and rpos are the bytes pushed and heard modulo the size,    *)
(* and so the bytes between rpos and wpos are the last ones pushed, whole  *)
(* laps being lost in between.                                             *)
(*                                                                         *)
(* The last part is about crapplay's loop, for every recording, clock and  *)
(* device: it keeps to the ring's steps, shows no frame too early, and     *)
(* stops within a frame.                                                   *)
(***************************************************************************)
EXTENDS FrameQueue, Player, Modular

-----------------------------------------------------------------------------
(* PART 1.  The ring of frames.                                            *)

WordFacts == /\ Word \in Nat /\ Word > 0 /\ MaxCapacity \in Nat /\ MaxCapacity < Word

LEMMA WordIsNat == WordFacts
  BY QueueAssumption DEF WordFacts

LEMMA CounterStep ==
    ASSUME NEW c \in 0 .. Word - 1
    PROVE  (c + 1) % Word \in 0 .. Word - 1
<1>1. c + 1 \in Int
  BY WordIsNat DEF WordFacts
<1> QED
  BY <1>1, WordIsNat, DivMod DEF WordFacts

(* fq_init accepts no capacity that its array cannot hold.                 *)
LEMMA CapacityFits ==
    ASSUME NEW request \in Requests, NextPow2(request) <= MaxCapacity
    PROVE  NextPow2(request) \in Powers \cup {0}
<1> DEFINE P == {p \in Powers : p >= request}
           c == CHOOSE p \in P : \A r \in P : p <= r
<1>1. P \in SUBSET Nat /\ request \in Nat
  BY QueueAssumption, WordIsNat DEF WordFacts
<1>2. Word \in P
  <2>1. Word \in Powers
    BY QueueAssumption DEF Word, Powers
  <2>2. request <= Word
    BY QueueAssumption, WordIsNat DEF WordFacts
  <2> QED
    BY <2>1, <2>2
<1>3. c \in P
  <2>1. \E p \in P : \A r \in P : p <= r
    BY <1>1, <1>2, Least
  <2> QED
    BY <2>1
<1>4. NextPow2(request) = c % Word
  BY DEF NextPow2
<1> HIDE DEF c
<1>5. c \in Powers /\ c \in Nat /\ c <= Word
  <2>1. c \in Powers /\ c \in Nat /\ c > 0
    BY <1>3, QueueAssumption
  <2>2. PICK m \in 1 .. Word : Word = m * c
    BY <2>1, QueueAssumption
  <2>3. m * c >= c
    BY <2>1, <2>2, WordIsNat DEF WordFacts
  <2> QED
    BY <2>1, <2>2, <2>3
<1>6. CASE c < Word
  <2>1. c % Word = c
    BY <1>5, <1>6, WordIsNat, ModSmall DEF WordFacts
  <2> QED
    BY <1>4, <1>5, <2>1
<1>7. CASE c = Word
  <2>1. Word = Word * 1 + 0 /\ Word \in Int /\ 0 \in 0 .. Word - 1 /\ 1 \in Int
    BY WordIsNat DEF WordFacts
  <2>2. Word % Word = 0
    BY <2>1, WordIsNat, ModUnique, Zenon DEF WordFacts
  <2> QED
    BY <1>4, <1>7, <2>2
<1> QED
  BY <1>5, <1>6, <1>7, WordIsNat DEF WordFacts

-----------------------------------------------------------------------------
(* The size.                                                               *)

Counters == head \in 0 .. Word - 1 /\ tail \in 0 .. Word - 1

LEMMA SizeIs ==
    ASSUME Counters
    PROVE  Size \in 0 .. Word - 1 /\ Size = (tail - head) % Word
<1>1. head \in Int /\ tail \in Int /\ tail - head \in Int /\ Word \in Nat /\ Word > 0
  BY WordIsNat DEF Counters, WordFacts
<1>2. head % Word = head /\ tail % Word = tail
  BY <1>1, ModSmall DEF Counters
<1>3. ((tail % Word) - (head % Word) + Word) % Word = (tail - head) % Word
  BY <1>1, ModDiff, Zenon
<1>4. Size = (tail - head) % Word
  BY <1>2, <1>3 DEF Size
<1> QED
  BY <1>1, <1>4, DivMod

(* A queue of size 0 is an empty one.                                      *)
LEMMA EmptySize == ASSUME Counters PROVE (Size = 0) <=> Empty
<1>1. head \in Int /\ tail \in Int /\ tail - head \in Int /\ Word \in Nat /\ Word > 0
  BY WordIsNat DEF Counters, WordFacts
<1>2. ASSUME Size = 0 PROVE head = tail
  <2>1. (tail - head) % Word = 0 % Word
    BY <1>1, <1>2, SizeIs, ModSmall
  <2>2. tail - head < Word /\ 0 - (tail - head) < Word
    BY <1>1 DEF Counters
  <2>3. tail - head = 0
    BY <1>1, <2>1, <2>2, SameInWindow
  <2> QED
    BY <1>1, <2>3
<1>3. ASSUME head = tail PROVE Size = 0
  <2>1. tail - head = 0
    BY <1>1, <1>3
  <2> QED
    BY <1>1, <2>1, SizeIs, ModSmall
<1> QED
  BY <1>2, <1>3 DEF Empty

LEMMA SizeAfterPush ==
    ASSUME Counters, Size < MaxCapacity, tail' = (tail + 1) % Word, head' = head
    PROVE  Size' = Size + 1 /\ tail' \in 0 .. Word - 1
<1>1. /\ head \in Int /\ tail + 1 \in Int /\ tail - head \in Int /\ 1 \in Int
      /\ Word \in Nat /\ Word > 0 /\ MaxCapacity < Word /\ MaxCapacity \in Nat
  BY WordIsNat DEF Counters, WordFacts
<1>2. head % Word = head
  BY <1>1, ModSmall DEF Counters
<1>3. (((tail + 1) % Word) - (head % Word) + Word) % Word = ((tail + 1) - head) % Word
  BY <1>1, ModDiff, Zenon
<1>4. Size' = ((tail - head) + 1) % Word
  <2>1. (tail + 1) - head = (tail - head) + 1
    BY <1>1 DEF Counters
  <2> QED
    BY <1>2, <1>3, <2>1 DEF Size
<1>5. (((tail - head) % Word) + 1) % Word = ((tail - head) + 1) % Word
  BY <1>1, ModPlus, Zenon
<1>6. Size + 1 \in 0 .. Word - 1 /\ Size = (tail - head) % Word
  BY <1>1, SizeIs
<1>7. (Size + 1) % Word = Size + 1
  BY <1>1, <1>6, ModSmall
<1> QED
  BY <1>4, <1>5, <1>6, <1>7, CounterStep DEF Counters

LEMMA SizeAfterPop ==
    ASSUME Counters, Size > 0, head' = (head + 1) % Word, tail' = tail
    PROVE  Size' = Size - 1 /\ head' \in 0 .. Word - 1
<1>1. /\ tail \in Int /\ head + 1 \in Int /\ tail - head \in Int /\ -1 \in Int
      /\ Word \in Nat /\ Word > 0
  BY WordIsNat DEF Counters, WordFacts
<1>2. tail % Word = tail
  BY <1>1, ModSmall DEF Counters
<1>3. ((tail % Word) - ((head + 1) % Word) + Word) % Word = (tail - (head + 1)) % Word
  BY <1>1, ModDiff, Zenon
<1>4. Size' = ((tail - head) + (-1)) % Word
  <2>1. tail - (head + 1) = (tail - head) + (-1)
    BY <1>1 DEF Counters
  <2> QED
    BY <1>2, <1>3, <2>1 DEF Size
<1>5. (((tail - head) % Word) + (-1)) % Word = ((tail - head) + (-1)) % Word
  BY <1>1, ModPlus, Zenon
<1>6. Size + (-1) \in 0 .. Word - 1 /\ Size = (tail - head) % Word /\ Size + (-1) = Size - 1
  BY <1>1, SizeIs
<1>7. (Size + (-1)) % Word = Size + (-1)
  BY <1>1, <1>6, ModSmall
<1> QED
  BY <1>4, <1>5, <1>6, <1>7, CounterStep DEF Counters

-----------------------------------------------------------------------------
(* Room and content: what each thread has established stays true while the *)
(* other one runs.                                                         *)

QueueTypes ==
    /\ ordered \in BOOLEAN /\ peeking \in BOOLEAN /\ refused \in BOOLEAN
    /\ head \in 0 .. Word - 1 /\ tail \in 0 .. Word - 1
    /\ slots \in [0 .. MaxCapacity - 1 -> Nat \cup {NoFrame}]
    /\ ppc \in {"idle", "store", "bump", "late"}
    /\ cpc \in {"idle", "load", "bump", "spec", "late"}
    /\ capacity \in Powers \cup {0} /\ capacity <= MaxCapacity
    /\ sent \in Nat

Room ==
    /\ QueueTypes
    /\ SizeWithinCapacity
    /\ cpc \in {"load", "bump"} => Size > 0

LEMMA SizeNat == QueueTypes => Counters /\ Size \in Nat /\ capacity \in Nat
                              /\ MaxCapacity \in Nat /\ capacity <= MaxCapacity
<1>1. ASSUME QueueTypes PROVE Counters /\ capacity \in Nat /\ capacity <= MaxCapacity
  BY <1>1, QueueAssumption DEF QueueTypes, Counters
<1> QED
  BY <1>1, SizeIs, WordIsNat DEF WordFacts

LEMMA RoomInit == FqInit => Room
<1> SUFFICES ASSUME NEW request \in Requests, NEW ord \in BOOLEAN, InitWith(request, ord)
             PROVE  Room
  BY DEF FqInit
<1>1. QueueTypes
  <2>1. capacity \in Powers \cup {0} /\ capacity <= MaxCapacity
    BY CapacityFits DEF InitWith
  <2>2. head \in 0 .. Word - 1 /\ tail \in 0 .. Word - 1 /\ sent \in Nat
    BY WordIsNat DEF InitWith, WordFacts
  <2>3. slots \in [0 .. MaxCapacity - 1 -> Nat \cup {NoFrame}]
    BY Zenon DEF InitWith
  <2> QED
    BY <2>1, <2>2, <2>3, Zenon DEF InitWith, QueueTypes
<1>2. Size = 0
  BY <1>1, SizeNat, EmptySize DEF InitWith, Empty
<1> QED
  BY <1>1, <1>2, SizeNat DEF InitWith, Room, SizeWithinCapacity

LEMMA RoomStep == Room /\ [FqNext]_qvars => Room'
<1> SUFFICES ASSUME Room, [FqNext]_qvars PROVE Room'
  OBVIOUS
<1>1. /\ QueueTypes /\ Counters /\ Size \in Nat /\ capacity \in Nat
      /\ MaxCapacity \in Nat /\ capacity <= MaxCapacity
  BY SizeNat DEF Room
<1>a. ASSUME UNCHANGED <<head, tail>> PROVE Size' = Size
  BY <1>a DEF Size
<1>2. CASE PushCheck
  <2>1. QueueTypes'
    BY <1>1, <1>2 DEF PushCheck, QueueTypes
  <2>2. Size' = Size
    BY <1>2, <1>a DEF PushCheck
  <2> QED
    BY <1>1, <1>2, <2>1, <2>2 DEF PushCheck, Room, SizeWithinCapacity, Full
<1>3. ASSUME NEW from, NEW to \in {"bump", "idle"}, NEW i, NEW n \in Nat,
             StoreSlot(from, to, i, n), to = "bump" => from = "store"
      PROVE  Room'
  <2>1. slots' \in [0 .. MaxCapacity - 1 -> Nat \cup {NoFrame}]
    BY <1>1, <1>3 DEF StoreSlot, QueueTypes
  <2>2. QueueTypes'
    BY <1>1, <1>3, <2>1 DEF StoreSlot, QueueTypes
  <2>3. Size' = Size
    BY <1>3, <1>a DEF StoreSlot
  <2> QED
    BY <1>1, <1>3, <2>2, <2>3 DEF StoreSlot, Room, SizeWithinCapacity
<1>4. ASSUME NEW from \in {"store", "bump"}, NEW to \in {"late", "idle"}, BumpTail(from, to)
      PROVE  Room'
  <2>1. Size < capacity
    BY <1>4 DEF Room, SizeWithinCapacity, BumpTail
  <2>2. Size' = Size + 1 /\ tail' \in 0 .. Word - 1
    BY <1>1, <1>4, <2>1, SizeAfterPush DEF BumpTail
  <2>3. sent' \in Nat
    BY <1>1, <1>4 DEF BumpTail, QueueTypes
  <2>4. QueueTypes'
    BY <1>1, <1>4, <2>2, <2>3, Zenon DEF BumpTail, QueueTypes
  <2> QED
    BY <1>1, <1>4, <2>1, <2>2, <2>4 DEF BumpTail, Room, SizeWithinCapacity
<1>5. ASSUME NEW from, PopCheck(from) PROVE Room'
  <2>1. QueueTypes'
    BY <1>1, <1>5 DEF PopCheck, Consumer, QueueTypes
  <2>2. Size' = Size /\ (cpc' \in {"load", "bump"} => ~Empty) /\ UNCHANGED <<capacity, ppc>>
    BY <1>5, <1>a DEF PopCheck, Consumer
  <2>3. cpc' \in {"load", "bump"} => Size > 0
    BY <1>1, <2>2, EmptySize
  <2> QED
    BY <1>1, <2>1, <2>2, <2>3 DEF Room, SizeWithinCapacity
<1>6. ASSUME NEW from, NEW to \in {"bump", "spec"}, LoadSlot(from, to),
             to = "bump" => from = "load"
      PROVE  Room'
  <2>1. QueueTypes'
    BY <1>1, <1>6 DEF LoadSlot, Consumer, QueueTypes
  <2>2. Size' = Size
    BY <1>6, <1>a DEF LoadSlot, Consumer
  <2> QED
    BY <1>1, <1>6, <2>1, <2>2 DEF LoadSlot, Consumer, Room, SizeWithinCapacity
<1>7. ASSUME PeekReturn \/ LoadLate \/ UNCHANGED qvars PROVE Room'
  <2>1. QueueTypes'
    BY <1>1, <1>7 DEF PeekReturn, LoadLate, qvars, Consumer, QueueTypes
  <2>2. Size' = Size
    BY <1>7, <1>a DEF PeekReturn, LoadLate, qvars, Consumer
  <2> QED
    BY <1>1, <1>7, <2>1, <2>2
    DEF PeekReturn, LoadLate, qvars, Consumer, Room, SizeWithinCapacity
<1>8. ASSUME BumpHead \/ BumpHeadFirst PROVE Room'
  <2>1. Size > 0
    BY <1>8 DEF Room, BumpHead, BumpHeadFirst
  <2>2. Size' = Size - 1 /\ head' \in 0 .. Word - 1
    BY <1>1, <1>8, <2>1, SizeAfterPop DEF BumpHead, BumpHeadFirst, Consumer
  <2>3. QueueTypes'
    BY <1>1, <1>8, <2>2 DEF BumpHead, BumpHeadFirst, Consumer, QueueTypes
  <2> QED
    BY <1>1, <1>8, <2>1, <2>2, <2>3
    DEF BumpHead, BumpHeadFirst, Consumer, Room, SizeWithinCapacity
<1>9. CASE FqReset
  <2>1. QueueTypes'
    BY <1>1, <1>9, WordIsNat DEF FqReset, QueueTypes, WordFacts
  <2>2. Size' = 0
    <3>1. Size' = Word % Word /\ Word \in Int /\ Word = Word * 1 + 0 /\ 1 \in Int /\ 0 \in 0 .. Word - 1
      BY <1>9, WordIsNat DEF FqReset, Size, WordFacts
    <3> QED
      BY <3>1, WordIsNat, ModUnique, Zenon DEF WordFacts
  <2> QED
    BY <1>1, <1>9, <2>1, <2>2 DEF FqReset, Room, SizeWithinCapacity
<1>10. CASE FqPush
  <2>1. sent \in Nat /\ sent + 1 \in Nat
    BY <1>1 DEF QueueTypes
  <2> QED
    BY <1>2, <1>3, <1>4, <1>10, <2>1 DEF FqPush
<1>11. CASE FqPop
  BY <1>5, <1>6, <1>7, <1>8, <1>11 DEF FqPop
<1> QED
  BY <1>7, <1>9, <1>10, <1>11 DEF FqNext

THEOREM RoomInvariant == FqSpec => []Room
  BY RoomInit, RoomStep, PTL DEF FqSpec

\* No request lies above half the range of the word, where next_pow2 wraps.
RequestsDoNotWrap == \A request \in Requests : \E p \in Powers : request <= p /\ p < Word

LEMMA CapacityIsPower ==
    ASSUME RequestsDoNotWrap, NEW request \in Requests
    PROVE  NextPow2(request) \in Powers
<1> DEFINE P == {p \in Powers : p >= request}
           c == CHOOSE p \in P : \A r \in P : p <= r
<1>1. P \in SUBSET Nat /\ request \in Nat
  BY QueueAssumption, WordIsNat DEF WordFacts
<1>2. PICK p \in P : p < Word
  <2>1. PICK p \in Powers : request <= p /\ p < Word
    BY DEF RequestsDoNotWrap
  <2> QED
    BY <2>1, <1>1, QueueAssumption
<1>3. c \in P /\ c <= p
  <2>1. \E q \in P : \A r \in P : q <= r
    BY <1>1, <1>2, Least
  <2> QED
    BY <2>1
<1>4. NextPow2(request) = c % Word
  BY DEF NextPow2
<1> HIDE DEF c
<1>5. c \in Powers /\ c \in 0 .. Word - 1
  BY <1>1, <1>2, <1>3, WordIsNat DEF WordFacts
<1>6. c % Word = c
  BY <1>5, WordIsNat, ModSmall DEF WordFacts
<1> QED
  BY <1>4, <1>5, <1>6

(* The capacity is a power of two that fits the array, and the counters    *)
(* stay words, for every request fq_init accepts without wrapping it.      *)
THEOREM QueueTypeCorrect == ASSUME RequestsDoNotWrap PROVE FqSpec => []QueueTypeOK
<1>1. FqInit => capacity \in Powers
  BY CapacityIsPower DEF FqInit, InitWith
<1>2. capacity \in Powers /\ [FqNext]_qvars => (capacity \in Powers)'
  <2>1. [FqNext]_qvars => capacity' = capacity
    BY DEF FqNext, FqPush, FqPop, FqReset, PushCheck, StoreSlot, BumpTail, PopCheck, LoadSlot,
           PeekReturn, BumpHead, BumpHeadFirst, LoadLate, Consumer, qvars
  <2> QED
    BY <2>1
<1>3. Room /\ capacity \in Powers => QueueTypeOK
  BY Zenon DEF Room, QueueTypes, QueueTypeOK
<1> QED
  BY <1>1, <1>2, <1>3, RoomInvariant, PTL DEF FqSpec

(* The queue holds no more than its capacity, and the room fq_push found   *)
(* is still there when it increments tail, whatever the consumer does and  *)
(* in whatever order the processor shows the accesses.                     *)
THEOREM SizeBounded == FqSpec => []SizeWithinCapacity
<1>1. Room => SizeWithinCapacity
  BY DEF Room
<1> QED
  BY <1>1, RoomInvariant, PTL

-----------------------------------------------------------------------------
(* The slots.                                                              *)

SlotFacts == /\ capacity \in Nat /\ capacity > 0 /\ capacity <= MaxCapacity
             /\ \E m \in 1 .. Word : Word = m * capacity

LEMMA HasSlots == ASSUME QueueTypes, capacity > 0 PROVE SlotFacts
<1>1. capacity \in Powers /\ capacity <= MaxCapacity
  BY DEF QueueTypes
<1> QED
  BY <1>1, QueueAssumption DEF SlotFacts

(* The counters wrap at a multiple of the capacity, which no slot notices. *)
LEMMA SlotWraps ==
    ASSUME SlotFacts, NEW a \in Int, NEW b \in Int
    PROVE  ((a % Word) + b) % capacity = (a + b) % capacity
<1>1. PICK m \in 1 .. Word : Word = m * capacity
  BY DEF SlotFacts
<1> DEFINE d == a \div Word
           r == a % Word
<1>2. d \in Int /\ r \in Int /\ a = Word * d + r
  BY WordIsNat, DivMod DEF WordFacts
<1>3. (a % Word) + b = r + b
  OBVIOUS
<1> HIDE DEF d, r
<1>4. Word * d = capacity * (m * d)
  <2>1. m \in Int /\ capacity \in Int /\ d \in Int
    BY <1>1, <1>2, WordIsNat DEF WordFacts, SlotFacts
  <2>2. (m * capacity) * d = capacity * (m * d)
    BY <2>1
  <2> QED
    BY <1>1, <2>2
<1>5. a + b = (r + b) + capacity * (m * d)
  <2> DEFINE e == Word * d
             f == capacity * (m * d)
  <2>1. e \in Int /\ r \in Int /\ b \in Int /\ a = e + r /\ e = f
    BY <1>2, <1>4, WordIsNat DEF WordFacts
  <2> HIDE DEF e, f
  <2>2. a + b = (r + b) + f
    BY <2>1
  <2> QED
    BY <2>2 DEF f
<1>6. r + b \in Int /\ m * d \in Int /\ capacity \in Nat /\ capacity > 0
  BY <1>1, <1>2, WordIsNat DEF WordFacts, SlotFacts
<1>7. ((r + b) + capacity * (m * d)) % capacity = (r + b) % capacity
  BY <1>6, ModShift, Zenon
<1> QED
  BY <1>3, <1>5, <1>7

(* The slot at tail is the one Size behind the slot at head.               *)
LEMMA TailSlot ==
    ASSUME SlotFacts, Counters
    PROVE  tail % capacity = (head + Size) % capacity
<1>1. head \in Int /\ tail \in Int /\ tail - head \in Int
  BY WordIsNat DEF Counters, WordFacts
<1>2. (((tail - head) % Word) + head) % capacity = ((tail - head) + head) % capacity
  BY <1>1, SlotWraps, Zenon
<1>3. Size = (tail - head) % Word /\ Size \in Int
  BY SizeIs, WordIsNat DEF WordFacts
<1>4. (tail - head) + head = tail /\ Size + head = head + Size
  BY <1>1, <1>3
<1> QED
  BY <1>2, <1>3, <1>4

(* While there is room, the slot being written is none of those in use.    *)
LEMMA FreeSlot ==
    ASSUME SlotFacts, Counters, Size < capacity, NEW i \in 1 .. Size
    PROVE  (head + i - 1) % capacity # tail % capacity
<1>1. head \in Int /\ Size \in Nat /\ capacity \in Nat /\ capacity > 0
  BY SizeIs, WordIsNat DEF Counters, WordFacts, SlotFacts
<1> DEFINE a == head + i - 1
           b == head + Size
<1>2. a \in Int /\ b \in Int /\ a # b /\ a - b < capacity /\ b - a < capacity
  BY <1>1
<1> HIDE DEF a, b
<1>3. a % capacity # b % capacity
  BY <1>1, <1>2, SameInWindow
<1> QED
  BY <1>3, TailSlot DEF a, b

LEMMA SlotInRange ==
    ASSUME SlotFacts, NEW i \in Int
    PROVE  Slot(i) = i % capacity /\ Slot(i) \in 0 .. MaxCapacity - 1
<1>1. Slot(i) = i % capacity
  BY DEF Slot, SlotFacts
<1>2. i % capacity \in 0 .. capacity - 1
  BY DivMod DEF SlotFacts
<1> QED
  BY <1>1, <1>2, WordIsNat DEF SlotFacts, WordFacts

-----------------------------------------------------------------------------
(* The sequence of frames in the queue.                                    *)

Frames == Nat \cup {NoFrame}

ContentsOf(h, n, sl, c) == [i \in 1 .. n |-> sl[(h + i - 1) % c]]

LEMMA ContentsSeq ==
    ASSUME NEW c \in Nat, c > 0, c <= MaxCapacity, NEW h \in Int, NEW n \in Nat,
           NEW sl \in [0 .. MaxCapacity - 1 -> Frames]
    PROVE  /\ ContentsOf(h, n, sl, c) \in Seq(Frames)
           /\ Len(ContentsOf(h, n, sl, c)) = n
           /\ \A i \in 1 .. n : ContentsOf(h, n, sl, c)[i] = sl[(h + i - 1) % c]
<1>1. \A i \in 1 .. n : sl[(h + i - 1) % c] \in Frames
  <2> TAKE i \in 1 .. n
  <2>1. h + i - 1 \in Int
    OBVIOUS
  <2>2. (h + i - 1) % c \in 0 .. c - 1
    BY <2>1, DivMod
  <2>3. (h + i - 1) % c \in 0 .. MaxCapacity - 1
    BY <2>2, WordIsNat DEF WordFacts
  <2> QED
    BY <2>3
<1> QED
  BY <1>1 DEF ContentsOf

LEMMA AppendIs ==
    ASSUME NEW S, NEW s \in Seq(S), NEW t \in Seq(S), NEW x \in S,
           Len(t) = Len(s) + 1, \A i \in 1 .. Len(s) : t[i] = s[i], t[Len(t)] = x
    PROVE  t = Append(s, x)
<1>1. Append(s, x) \in Seq(S) /\ Len(Append(s, x)) = Len(t)
  OBVIOUS
<1>2. \A i \in 1 .. Len(t) : t[i] = Append(s, x)[i]
  OBVIOUS
<1> QED
  BY <1>1, <1>2

LEMMA TailIs ==
    ASSUME NEW S, NEW s \in Seq(S), NEW t \in Seq(S), Len(s) > 0,
           Len(t) = Len(s) - 1, \A i \in 1 .. Len(t) : t[i] = s[i + 1]
    PROVE  t = Tail(s) /\ Head(s) = s[1] /\ s # <<>>
<1>1. Tail(s) \in Seq(S) /\ Len(Tail(s)) = Len(t) /\ s # <<>>
  OBVIOUS
<1>2. \A i \in 1 .. Len(t) : t[i] = Tail(s)[i]
  BY <1>1
<1> QED
  BY <1>1, <1>2

LEMMA ContentsIs == ASSUME capacity # 0 PROVE Contents = ContentsOf(head, Size, slots, capacity)
  BY DEF Contents, ContentsOf, Slot

LEMMA SameContents ==
    ASSUME UNCHANGED <<capacity, head, tail, slots>> PROVE Contents' = Contents
  BY DEF Contents, Slot, Size

(* The length of the contents is the size, also of a queue without slots.  *)
LEMMA ContentsLen == ASSUME Room PROVE Len(Contents) = Size /\ (Contents = <<>> <=> Empty)
<1>1. /\ Counters /\ Size \in Nat /\ capacity \in Nat /\ capacity <= MaxCapacity
      /\ Size <= capacity /\ head \in Int
      /\ slots \in [0 .. MaxCapacity - 1 -> Frames]
  BY SizeNat, WordIsNat DEF Room, SizeWithinCapacity, QueueTypes, Frames, Counters, WordFacts
<1>2. CASE Size = 0
  <2>1. Contents = <<>>
    BY <1>2 DEF Contents
  <2> QED
    BY <1>1, <1>2, <2>1, EmptySize
<1>3. CASE Size > 0
  <2>1. Contents \in Seq(Frames) /\ Len(Contents) = Size
    BY <1>1, <1>3, ContentsIs, ContentsSeq
  <2> QED
    BY <1>1, <1>3, <2>1, EmptySize
<1> QED
  BY <1>1, <1>2, <1>3

-----------------------------------------------------------------------------
(* While the hardware keeps the order, a slot is stored before tail moves  *)
(* over it and loaded before head does.                                    *)

Stored == ordered =>
    /\ ppc # "late" /\ cpc \in {"idle", "load", "bump"}
    /\ ppc = "bump" => slots[Slot(tail)] = sent + 1
    /\ cpc = "bump" => hand = slots[Slot(head)]

QInv == Room /\ Stored

LEMMA QInvInit == FqInit => QInv
<1>1. FqInit => Stored
  BY DEF FqInit, InitWith, Stored
<1> QED
  BY <1>1, RoomInit DEF QInv

(* Storing a frame where there is room changes no slot in use.             *)
LEMMA StoreKeeps ==
    ASSUME QInv, StoreSlot("store", "bump", tail, sent + 1)
    PROVE  /\ Contents' = Contents /\ slots'[Slot(tail)] = sent + 1
           /\ cpc = "bump" => slots'[Slot(head)] = slots[Slot(head)]
<1>1. /\ QueueTypes /\ Counters /\ Size \in Nat /\ Size < capacity /\ capacity \in Nat
      /\ slots \in [0 .. MaxCapacity - 1 -> Frames]
  BY SizeNat DEF QInv, Room, SizeWithinCapacity, StoreSlot, QueueTypes, Frames
<1>2. SlotFacts /\ capacity > 0
  BY <1>1, HasSlots
<1>3. head \in Int /\ tail \in Int
  BY <1>1, WordIsNat DEF Counters, WordFacts
<1>4. Slot(tail) = tail % capacity /\ Slot(tail) \in 0 .. MaxCapacity - 1
  BY <1>2, <1>3, SlotInRange
<1>5. \A j : j # tail % capacity => slots'[j] = slots[j]
  BY <1>1, <1>4 DEF StoreSlot
<1>6. slots'[Slot(tail)] = sent + 1
  BY <1>1, <1>4 DEF StoreSlot
<1>7. \A i \in 1 .. Size : slots'[(head + i - 1) % capacity] = slots[(head + i - 1) % capacity]
  BY <1>1, <1>2, <1>5, FreeSlot
<1>8. Contents' = ContentsOf(head, Size, slots', capacity)
  BY <1>2 DEF StoreSlot, Contents, ContentsOf, Slot, Size
<1>9. Contents' = Contents
  BY <1>2, <1>7, <1>8, ContentsIs DEF ContentsOf
<1>10. ASSUME cpc = "bump" PROVE slots'[Slot(head)] = slots[Slot(head)]
  <2>1. Size > 0 /\ 1 \in 1 .. Size /\ head + 1 - 1 = head
    BY <1>1, <1>3, <1>10 DEF QInv, Room
  <2>2. head % capacity # tail % capacity
    BY <1>1, <1>2, <2>1, FreeSlot
  <2> QED
    BY <1>2, <1>3, <1>5, <2>2, SlotInRange
<1> QED
  BY <1>6, <1>9, <1>10

LEMMA QInvStep == QInv /\ [FqNext]_qvars => QInv'
<1> SUFFICES ASSUME QInv, [FqNext]_qvars PROVE Stored'
  BY RoomStep DEF QInv
<1>1. Stored
  BY DEF QInv
<1> SUFFICES ASSUME ordered PROVE Stored'
  BY DEF FqNext, FqPush, FqPop, PushCheck, StoreSlot, BumpTail, PopCheck, LoadSlot, PeekReturn,
         BumpHead, BumpHeadFirst, LoadLate, FqReset, Consumer, qvars, Stored
<1>2. CASE PushCheck \/ FqReset \/ UNCHANGED qvars
  BY <1>1, <1>2 DEF PushCheck, FqReset, qvars, Stored, Slot
<1>3. CASE StoreSlot("store", "bump", tail, sent + 1)
  BY <1>1, <1>3, StoreKeeps DEF StoreSlot, Stored, Slot
<1>4. CASE BumpTail("bump", "idle")
  BY <1>1, <1>4 DEF BumpTail, Stored, Slot
<1>5. CASE PopCheck("idle")
  BY <1>1, <1>5 DEF PopCheck, Consumer, Stored, Slot
<1>6. CASE LoadSlot("load", "bump")
  BY <1>1, <1>6 DEF LoadSlot, Consumer, Stored, Slot
<1>7. CASE PeekReturn \/ BumpHead
  BY <1>1, <1>7 DEF PeekReturn, BumpHead, Consumer, Stored, Slot
<1>8. ~(\E i, n : StoreSlot("late", "idle", i, n)) /\ ~LoadLate /\ ~PopCheck("spec")
  BY <1>1 DEF Stored, StoreSlot, LoadLate, PopCheck
<1> QED
  BY <1>2, <1>3, <1>4, <1>5, <1>6, <1>7, <1>8 DEF FqNext, FqPush, FqPop, BumpHeadFirst

-----------------------------------------------------------------------------
(* Each step of the ring is a step of the queue or none.                   *)

LEMMA PutStep ==
    ASSUME QInv, ordered, BumpTail("bump", "idle")
    PROVE  Contents' = Append(Contents, sent + 1) /\ Len(Contents) < capacity
<1>1. /\ QueueTypes /\ Counters /\ Size \in Nat /\ Size < capacity /\ capacity \in Nat
      /\ MaxCapacity \in Nat /\ capacity <= MaxCapacity
      /\ slots \in [0 .. MaxCapacity - 1 -> Frames] /\ sent \in Nat
  BY SizeNat DEF QInv, Room, SizeWithinCapacity, BumpTail, QueueTypes, Frames
<1>2. SlotFacts /\ capacity > 0
  BY <1>1, HasSlots
<1>3. head \in Int /\ tail \in Int /\ Size + 1 \in Nat
  BY <1>1, WordIsNat DEF Counters, WordFacts
<1>4. Size' = Size + 1
  BY <1>1, SizeAfterPush DEF BumpTail
<1>5. Contents' = ContentsOf(head, Size + 1, slots, capacity)
  <2>1. Contents' = ContentsOf(head, Size', slots, capacity)
    BY <1>2 DEF BumpTail, Contents, ContentsOf, Slot
  <2> QED
    BY <1>4, <2>1
<1>6. Contents = ContentsOf(head, Size, slots, capacity)
  BY <1>2, ContentsIs
<1>7. /\ Contents \in Seq(Frames) /\ Len(Contents) = Size
      /\ \A i \in 1 .. Size : Contents[i] = slots[(head + i - 1) % capacity]
  <2> DEFINE c == ContentsOf(head, Size, slots, capacity)
  <2>1. /\ c \in Seq(Frames) /\ Len(c) = Size
        /\ \A i \in 1 .. Size : c[i] = slots[(head + i - 1) % capacity]
    BY <1>1, <1>2, <1>3, ContentsSeq, ZenonT(60)
  <2> HIDE DEF c
  <2> QED
    BY <2>1, <1>6, Zenon DEF c
<1>8. /\ Contents' \in Seq(Frames) /\ Len(Contents') = Size + 1
      /\ \A i \in 1 .. Size + 1 : Contents'[i] = slots[(head + i - 1) % capacity]
  <2> DEFINE c == ContentsOf(head, Size + 1, slots, capacity)
  <2>1. /\ c \in Seq(Frames) /\ Len(c) = Size + 1
        /\ \A i \in 1 .. Size + 1 : c[i] = slots[(head + i - 1) % capacity]
    BY <1>1, <1>2, <1>3, ContentsSeq, ZenonT(60)
  <2> HIDE DEF c
  <2> QED
    BY <2>1, <1>5, Zenon DEF c
<1>9. Contents'[Size + 1] = sent + 1
  <2>1. head + (Size + 1) - 1 = head + Size /\ Size + 1 \in 1 .. Size + 1
    BY <1>1, <1>3
  <2>2. Contents'[Size + 1] = slots[tail % capacity]
    BY <1>1, <1>2, <1>8, <2>1, TailSlot
  <2> QED
    BY <1>2, <1>3, <2>2, SlotInRange DEF QInv, Stored, BumpTail
<1>10. sent + 1 \in Frames /\ \A i \in 1 .. Size : Contents'[i] = Contents[i]
  BY <1>1, <1>7, <1>8 DEF Frames
<1> QED
  BY <1>1, <1>7, <1>8, <1>9, <1>10, AppendIs

LEMMA GetStep ==
    ASSUME QInv, ordered, BumpHead
    PROVE  Contents' = Tail(Contents) /\ hand = Head(Contents) /\ Contents # <<>>
<1>1. /\ QueueTypes /\ Counters /\ Size \in Nat /\ Size > 0 /\ capacity \in Nat
      /\ Size <= capacity /\ MaxCapacity \in Nat /\ capacity <= MaxCapacity
      /\ slots \in [0 .. MaxCapacity - 1 -> Frames]
  BY SizeNat DEF QInv, Room, SizeWithinCapacity, BumpHead, QueueTypes, Frames
<1>2. SlotFacts /\ capacity > 0
  BY <1>1, HasSlots
<1>3. /\ head \in Int /\ head + 1 \in Int /\ Size - 1 \in Nat /\ head' \in Int
      /\ head' = (head + 1) % Word
  BY <1>1, WordIsNat, CounterStep DEF Counters, WordFacts, BumpHead
<1>4. Size' = Size - 1
  BY <1>1, SizeAfterPop DEF BumpHead, Consumer
<1>5. Contents' = ContentsOf(head', Size - 1, slots, capacity)
  <2>1. Contents' = ContentsOf(head', Size', slots, capacity)
    BY <1>2 DEF BumpHead, Consumer, Contents, ContentsOf, Slot
  <2> QED
    BY <1>4, <2>1
<1>6. Contents = ContentsOf(head, Size, slots, capacity)
  BY <1>2, ContentsIs
<1>7. /\ Contents \in Seq(Frames) /\ Len(Contents) = Size
      /\ \A i \in 1 .. Size : Contents[i] = slots[(head + i - 1) % capacity]
  <2> DEFINE c == ContentsOf(head, Size, slots, capacity)
  <2>1. /\ c \in Seq(Frames) /\ Len(c) = Size
        /\ \A i \in 1 .. Size : c[i] = slots[(head + i - 1) % capacity]
    BY <1>1, <1>2, <1>3, ContentsSeq, ZenonT(60)
  <2> HIDE DEF c
  <2> QED
    BY <2>1, <1>6, Zenon DEF c
<1>8. /\ Contents' \in Seq(Frames) /\ Len(Contents') = Size - 1
      /\ \A i \in 1 .. Size - 1 : Contents'[i] = slots[(head' + i - 1) % capacity]
  <2> DEFINE c == ContentsOf(head', Size - 1, slots, capacity)
  <2>1. /\ c \in Seq(Frames) /\ Len(c) = Size - 1
        /\ \A i \in 1 .. Size - 1 : c[i] = slots[(head' + i - 1) % capacity]
    BY <1>1, <1>2, <1>3, ContentsSeq, ZenonT(60)
  <2> HIDE DEF c
  <2> QED
    BY <2>1, <1>5, Zenon DEF c
<1>9. ASSUME NEW i \in 1 .. Size - 1 PROVE Contents'[i] = Contents[i + 1]
  <2>1. i - 1 \in Int /\ i + 1 \in 1 .. Size
    BY <1>1
  <2>2. (((head + 1) % Word) + (i - 1)) % capacity = ((head + 1) + (i - 1)) % capacity
    BY <1>2, <1>3, <2>1, SlotWraps, Zenon
  <2>3. head' + i - 1 = ((head + 1) % Word) + (i - 1)
    BY <1>3
  <2>4. (head + 1) + (i - 1) = head + (i + 1) - 1
    BY <1>3
  <2> QED
    BY <1>7, <1>8, <2>1, <2>2, <2>3, <2>4
<1>10. Contents[1] = hand
  <2>1. head + 1 - 1 = head /\ 1 \in 1 .. Size
    BY <1>1, <1>3
  <2>2. Contents[1] = slots[head % capacity]
    BY <1>7, <2>1
  <2> QED
    BY <1>2, <1>3, <2>2, SlotInRange DEF QInv, Stored, BumpHead
<1>11. \A i \in 1 .. Len(Contents') : Contents'[i] = Contents[i + 1]
  BY <1>8, <1>9
<1> QED
  BY <1>1, <1>7, <1>8, <1>10, <1>11, TailIs

LEMMA PeekStep ==
    ASSUME QInv, ordered, PeekReturn
    PROVE  hand = Head(Contents) /\ Contents # <<>>
<1>1. /\ QueueTypes /\ Counters /\ Size \in Nat /\ Size > 0 /\ capacity \in Nat
      /\ Size <= capacity /\ MaxCapacity \in Nat /\ capacity <= MaxCapacity
      /\ slots \in [0 .. MaxCapacity - 1 -> Frames]
  BY SizeNat DEF QInv, Room, SizeWithinCapacity, PeekReturn, QueueTypes, Frames
<1>2. SlotFacts /\ capacity > 0
  BY <1>1, HasSlots
<1>3. head \in Int /\ head + 1 - 1 = head /\ 1 \in 1 .. Size
  BY <1>1, WordIsNat DEF Counters, WordFacts
<1>4. /\ Contents \in Seq(Frames) /\ Len(Contents) = Size
      /\ \A i \in 1 .. Size : Contents[i] = slots[(head + i - 1) % capacity]
  <2>1. Contents = ContentsOf(head, Size, slots, capacity)
    BY <1>2, ContentsIs
  <2> QED
    BY <1>1, <1>2, <1>3, <2>1, ContentsSeq
<1>5. Contents[1] = slots[Slot(head)]
  BY <1>2, <1>3, <1>4, SlotInRange
<1> QED
  BY <1>1, <1>4, <1>5 DEF QInv, Stored, PeekReturn

(* With the accesses in order the ring is the bounded queue, for every     *)
(* interleaving and across the wrap of the counters.                       *)
THEOREM RingIsFifo == FqSpec => QueueIsFifo
<1>1. FqInit => (ordered => Fifo!FInit)
  <2> SUFFICES ASSUME FqInit PROVE Fifo!FInit
    OBVIOUS
  <2>1. Room /\ Empty
    BY RoomInit DEF FqInit, InitWith, Empty
  <2> QED
    BY <2>1, ContentsLen DEF FqInit, InitWith, Fifo!FInit
<1>2. QInv /\ QInv' /\ [FqNext]_qvars => [ordered => Fifo!FNext \/ UNCHANGED Fifo!fvars]_qvars
  <2> SUFFICES ASSUME QInv, QInv', [FqNext]_qvars, ordered
               PROVE  Fifo!FNext \/ UNCHANGED Fifo!fvars
    OBVIOUS
  <2> USE DEF Fifo!fvars
  <2>0. Len(Contents) = Size /\ (Contents = <<>> <=> Empty)
    BY ContentsLen DEF QInv
  <2>1. CASE PushCheck
    <3>1. Contents' = Contents
      BY <2>1, SameContents DEF PushCheck
    <3> QED
      BY <2>0, <2>1, <3>1 DEF PushCheck, Full, Fifo!FNext, Fifo!RefusePut
  <2>2. CASE StoreSlot("store", "bump", tail, sent + 1)
    BY <2>2, StoreKeeps DEF StoreSlot
  <2>3. CASE BumpTail("bump", "idle")
    BY <2>3, PutStep DEF BumpTail, Fifo!FNext, Fifo!Put
  <2>4. CASE PopCheck("idle")
    <3>1. Contents' = Contents
      BY <2>4, SameContents DEF PopCheck, Consumer
    <3> QED
      BY <2>0, <2>4, <3>1 DEF PopCheck, Consumer, Fifo!FNext, Fifo!GetNothing
  <2>5. CASE LoadSlot("load", "bump")
    <3>1. Contents' = Contents
      BY <2>5, SameContents DEF LoadSlot, Consumer
    <3> QED
      BY <2>5, <3>1 DEF LoadSlot, Consumer
  <2>6. CASE PeekReturn
    <3>1. Contents' = Contents
      BY <2>6, SameContents DEF PeekReturn, Consumer
    <3> QED
      BY <2>6, <3>1, PeekStep DEF PeekReturn, Consumer, Fifo!FNext, Fifo!PeekFront
  <2>7. CASE BumpHead
    BY <2>7, GetStep DEF BumpHead, Consumer, Fifo!FNext, Fifo!Get
  <2>8. CASE FqReset
    <3>1. Contents' = <<>>
      <4>1. Size' = Word % Word /\ Word \in Int /\ Word = Word * 1 + 0 /\ 1 \in Int
            /\ 0 \in 0 .. Word - 1
        BY <2>8, WordIsNat DEF FqReset, Size, WordFacts
      <4>2. Size' = 0
        BY <4>1, WordIsNat, ModUnique, Zenon DEF WordFacts
      <4> QED
        BY <4>2 DEF Contents
    <3> QED
      BY <2>8, <3>1 DEF FqReset, Fifo!FNext, Fifo!Clear
  <2>9. CASE UNCHANGED qvars
    BY <2>9, SameContents DEF qvars
  <2>10. ~(\E i, n : StoreSlot("late", "idle", i, n)) /\ ~LoadLate /\ ~PopCheck("spec")
    BY DEF QInv, Stored, StoreSlot, LoadLate, PopCheck
  <2> QED
    BY <2>1, <2>2, <2>3, <2>4, <2>5, <2>6, <2>7, <2>8, <2>9, <2>10
    DEF FqNext, FqPush, FqPop, BumpHeadFirst
<1> QED
  BY <1>1, <1>2, QInvInit, QInvStep, PTL DEF FqSpec, QueueIsFifo

-----------------------------------------------------------------------------
(* PART 2.  The audio ring and the loop of crapplay.                       *)

\* The last byte that fell on position p, if one did.
HoldsLatest(p) ==
    IF pushed > p
    THEN /\ ring[p] \in Int /\ ring[p] >= 1 /\ ring[p] <= pushed /\ ring[p] > pushed - Cap
         /\ (ring[p] - 1) % Cap = p
    ELSE ring[p] = 0

\* The inductive invariant.
RInv ==
    /\ TypeOK
    /\ wpos = pushed % Cap /\ rpos = heard % Cap
    /\ \A p \in Positions : HoldsLatest(p)

LEMMA CapPositive == Cap \in Nat /\ Cap > 0
  BY RingAssumption

(* A number that is not negative is at least its remainder.                *)
LEMMA AtLeastRemainder == \A x \in Nat : x >= x % Cap
<1> SUFFICES ASSUME NEW x \in Nat PROVE x >= x % Cap
  OBVIOUS
<1>1. x = Cap * (x \div Cap) + (x % Cap) /\ x % Cap \in 0 .. Cap - 1 /\ x \div Cap \in Int
  BY CapPositive, DivMod
<1>2. Cap * (x \div Cap) > -Cap
  BY <1>1, CapPositive
<1>3. x \div Cap >= 0
  <2> DEFINE q == x \div Cap
  <2>1. q \in Int /\ Cap * q > -Cap
    BY <1>1, <1>2
  <2> HIDE DEF q
  <2>2. q <= -1 => Cap * q <= -Cap
    BY <2>1, CapPositive
  <2>3. q >= 0
    BY <2>1, <2>2, CapPositive
  <2> QED
    BY <2>3 DEF q
<1>4. \A q \in Int : q >= 0 => Cap * q >= 0
  BY CapPositive
<1> QED
  BY <1>1, <1>3, <1>4, CapPositive

(* The ring holds every byte of the last lap at its place.                 *)
LEMMA Held ==
    ASSUME RInv, NEW b \in 1 .. pushed, b > pushed - Cap
    PROVE  ring[(b - 1) % Cap] = b
<1> DEFINE p == (b - 1) % Cap
<1>0. b - 1 \in Nat /\ pushed \in Nat /\ b \in Int
  BY DEF RInv, TypeOK
<1>1. p \in Positions /\ p \in Int /\ b - 1 >= p
  BY <1>0, CapPositive, DivMod, AtLeastRemainder DEF Positions
<1>2. (b - 1) % Cap = p
  OBVIOUS
<1> HIDE DEF p
<1>3. pushed > p
  BY <1>0, <1>1
<1>4. /\ ring[p] \in Int /\ ring[p] <= pushed /\ ring[p] > pushed - Cap
      /\ (ring[p] - 1) % Cap = p
  BY <1>1, <1>3 DEF RInv, HoldsLatest
<1> DEFINE x == ring[p] - 1
           y == b - 1
<1>5. x = y
  <2>1. x \in Int /\ y \in Int /\ x - y < Cap /\ y - x < Cap /\ Cap \in Nat /\ Cap > 0
    BY <1>0, <1>4, CapPositive
  <2>2. x % Cap = y % Cap
    BY <1>2, <1>4
  <2> HIDE DEF x, y
  <2> QED
    BY <2>1, <2>2, SameInWindow
<1>6. ring[p] = b
  BY <1>0, <1>4, <1>5
<1> QED
  BY <1>6 DEF p

(* The bytes the reader sees are the bytes it has not played, less laps.   *)
LEMMA AvailIsUnplayed ==
    ASSUME RInv
    PROVE  /\ Avail \in 0 .. Cap - 1 /\ Avail <= pushed - heard
           /\ (pushed - Avail - heard) % Cap = 0
           /\ \A i \in Int : (pushed - Avail + i) % Cap = (rpos + i) % Cap
<1>0. /\ pushed \in Nat /\ heard \in Nat /\ heard <= pushed /\ Cap \in Nat /\ Cap > 0
      /\ wpos = pushed % Cap /\ rpos = heard % Cap /\ wpos \in Int /\ rpos \in Int
  BY CapPositive DEF RInv, TypeOK, Positions
<1> DEFINE u == pushed - heard
           q == u \div Cap
<1>1. u \in Nat
  BY <1>0
<1>2. Avail = u % Cap
  <2>1. Avail = (wpos - rpos + Cap) % Cap
    BY <1>0 DEF Avail
  <2>2. pushed \in Int /\ heard \in Int
    BY <1>0
  <2>3. ((pushed % Cap) - (heard % Cap) + Cap) % Cap = (pushed - heard) % Cap
    BY <1>0, <2>2, ModDiff, Zenon
  <2> QED
    BY <2>1, <2>3, <1>0
<1>3. u = Cap * q + Avail /\ Avail \in 0 .. Cap - 1 /\ q \in Int /\ u >= Avail
  BY <1>0, <1>1, <1>2, DivMod, AtLeastRemainder
<1>4. pushed - Avail - heard = 0 + Cap * q
  BY <1>0, <1>3
<1> HIDE DEF q
<1>5. (0 + Cap * q) % Cap = 0
  BY <1>0, <1>3, ModShift, ModSmall
<1>6. ASSUME NEW i \in Int PROVE (pushed - Avail + i) % Cap = (rpos + i) % Cap
  <2> DEFINE h == heard + i
  <2>0. h \in Int
    BY <1>0
  <2>1. pushed - Avail + i = h + Cap * q
    BY <1>0, <1>3
  <2> HIDE DEF h
  <2>2. (h + Cap * q) % Cap = h % Cap
    BY <1>0, <1>3, <2>0, ModShift
  <2>3. (rpos + i) % Cap = (heard + i) % Cap
    <3>1. heard \in Int
      BY <1>0
    <3>2. ((heard % Cap) + i) % Cap = (heard + i) % Cap
      BY <1>0, <3>1, ModPlus, Zenon
    <3> QED
      BY <1>0, <3>2
  <2> QED
    BY <2>1, <2>2, <2>3 DEF h
<1> QED
  BY <1>3, <1>4, <1>5, <1>6

LEMMA LatestInOrder == RInv => RingHoldsTheLatest
<1> SUFFICES ASSUME RInv, NEW i \in 0 .. Avail - 1
             PROVE  ring[(rpos + i) % Cap] = pushed - Avail + 1 + i
  BY DEF RingHoldsTheLatest
<1>0. /\ pushed \in Nat /\ heard \in Nat /\ Avail \in 0 .. Cap - 1 /\ Avail <= pushed - heard
      /\ Cap \in Nat /\ i \in Int
  BY AvailIsUnplayed, CapPositive DEF RInv, TypeOK
<1> DEFINE b == pushed - Avail + 1 + i
<1>1. b \in 1 .. pushed /\ b > pushed - Cap
  BY <1>0
<1>2. b - 1 = pushed - Avail + i
  BY <1>0
<1> HIDE DEF b
<1>3. (b - 1) % Cap = (rpos + i) % Cap
  BY <1>0, <1>2, AvailIsUnplayed
<1>4. ring[(rpos + i) % Cap] = b
  BY <1>1, <1>3, Held
<1> QED
  BY <1>4 DEF b

LEMMA RInvInit == Init => RInv
<1> SUFFICES ASSUME Init PROVE RInv
  OBVIOUS
<1>1. 0 % Cap = 0 /\ 0 \in Positions
  BY CapPositive, ModSmall DEF Positions
<1>2. TypeOK
  BY <1>1, RingAssumption DEF Init, TypeOK
<1> QED
  BY <1>1, <1>2 DEF Init, RInv, HoldsLatest, Positions

LEMMA NextPosition ==
    ASSUME NEW a \in Nat, NEW n \in Nat
    PROVE  ((a % Cap) + n) % Cap = (a + n) % Cap /\ (a + n) % Cap \in Positions
<1>1. a + n \in Int /\ a \in Int /\ n \in Int
  OBVIOUS
<1>2. (a + n) % Cap \in 0 .. Cap - 1
  BY <1>1, CapPositive, DivMod
<1>3. ((a % Cap) + n) % Cap = (a + n) % Cap
  BY <1>1, CapPositive, ModPlus, Zenon
<1> QED
  BY <1>2, <1>3 DEF Positions

(* A push puts at each position the last of its bytes that falls on it.    *)
LEMMA PushedLatest ==
    ASSUME RInv, NEW n \in Nat, n >= 1, NEW p \in Positions
    PROVE  LET v == AfterPush(n, p)
           IN  IF pushed + n > p
               THEN /\ v \in Int /\ v >= 1 /\ v <= pushed + n /\ v > pushed + n - Cap
                    /\ (v - 1) % Cap = p
               ELSE v = 0
<1>0. /\ pushed \in Nat /\ Cap \in Nat /\ Cap > 0 /\ p \in 0 .. Cap - 1
      /\ wpos = pushed % Cap /\ wpos \in 0 .. Cap - 1
  BY CapPositive DEF RInv, TypeOK, Positions
<1> DEFINE d == (p + Cap - wpos) % Cap
<1>1. d \in 0 .. Cap - 1 /\ d = (p - pushed) % Cap
  <2>1. p % Cap = p
    BY <1>0, ModSmall
  <2>3. p + Cap - wpos = p - wpos + Cap /\ p - pushed \in Int /\ pushed \in Int /\ p \in Int
    BY <1>0
  <2>2. ((p % Cap) - (pushed % Cap) + Cap) % Cap = (p - pushed) % Cap
    BY <1>0, <2>3, ModDiff, Zenon
  <2>4. d = (p - pushed) % Cap
    BY <2>1, <2>2, <2>3, <1>0
  <2> QED
    BY <2>3, <2>4, <1>0, DivMod
<1> DEFINE k == (p - pushed) \div Cap
<1>2. p - pushed = Cap * k + d /\ k \in Int
  <2>1. p - pushed \in Int
    BY <1>0
  <2> QED
    BY <2>1, <1>0, <1>1, DivMod
<1>v. AfterPush(n, p) = IF d >= n THEN ring[p]
                        ELSE pushed + 1 + d + Cap * ((n - 1 - d) \div Cap)
  BY DEF AfterPush
<1> HIDE DEF d, k
\* The byte on p before this push, if there is one, is a lap before pushed + 1 + d.
<1>3. pushed > p => ring[p] = pushed + 1 + d - Cap
  <2> SUFFICES ASSUME pushed > p PROVE ring[p] = pushed + 1 + d - Cap
    OBVIOUS
  <2>1. /\ ring[p] \in Int /\ ring[p] <= pushed /\ ring[p] > pushed - Cap
        /\ (ring[p] - 1) % Cap = p
    BY <1>0 DEF RInv, HoldsLatest
  <2> DEFINE x == ring[p] - 1
             y == pushed + d - Cap
  <2>2. x \in Int /\ y \in Int /\ x - y < Cap /\ y - x < Cap
    BY <1>0, <1>1, <2>1
  <2>3. y = p + Cap * (-k - 1) /\ -k - 1 \in Int
    BY <1>0, <1>1, <1>2
  <2>4. x % Cap = p
    BY <2>1
  <2> HIDE DEF x, y
  <2> DEFINE j == -k - 1
  <2>p. p \in Int /\ j \in Int /\ p % Cap = p
    BY <1>0, <2>3, ModSmall
  <2> HIDE DEF j
  <2>q. (p + Cap * j) % Cap = p % Cap
    BY <1>0, <2>p, ModShift, Zenon
  <2>5. (p + Cap * (-k - 1)) % Cap = p
    BY <2>p, <2>q DEF j
  <2>6. x = y
    BY <1>0, <2>2, <2>3, <2>4, <2>5, SameInWindow
  <2> QED
    BY <1>0, <1>1, <2>1, <2>6 DEF x, y
<1>4. pushed <= p => d = p - pushed
  BY <1>0, <1>1, ModSmall
<1>5. CASE d >= n
  BY <1>0, <1>1, <1>3, <1>4, <1>5, <1>v DEF RInv, HoldsLatest
<1>6. CASE d < n
  <2> DEFINE q == (n - 1 - d) \div Cap
             r == (n - 1 - d) % Cap
             v == pushed + 1 + d + Cap * q
  <2>0. n - 1 - d \in Nat
    BY <1>0, <1>1, <1>6
  <2> DEFINE e == n - 1 - d
  <2>e. e \in Nat /\ e \in Int
    BY <2>0
  <2> HIDE DEF e
  <2>f. e = Cap * (e \div Cap) + (e % Cap) /\ e % Cap \in 0 .. Cap - 1 /\ e \div Cap \in Int
    BY <2>e, <1>0, DivMod
  <2>g. e % Cap <= e
    BY <2>e, <2>f, <1>0, AtLeastRemainder
  <2>1. n - 1 - d = Cap * q + r /\ q \in Int /\ r \in 0 .. Cap - 1 /\ r <= n - 1 - d
    BY <2>f, <2>g DEF e
  <2> HIDE DEF q, r
  <2>2. v - 1 = p + Cap * (q - k) /\ q - k \in Int
    BY <1>0, <1>1, <1>2, <2>1
  <2>3. v \in Int /\ v >= 1 /\ v <= pushed + n /\ v > pushed + n - Cap /\ v - 1 \in Nat
    BY <1>0, <1>1, <2>1
  <2> HIDE DEF v
  <2> DEFINE j == q - k
  <2>p. p \in Int /\ j \in Int /\ p % Cap = p
    BY <1>0, <2>2, ModSmall
  <2> HIDE DEF j
  <2>q. (p + Cap * j) % Cap = p % Cap
    BY <1>0, <2>p, ModShift, Zenon
  <2>4. (p + Cap * (q - k)) % Cap = p
    BY <2>p, <2>q DEF j
  <2>5. (v - 1) % Cap = p
    BY <2>2, <2>4
  <2>6. v - 1 >= p
    BY <2>3, <2>5, AtLeastRemainder
  <2>7. AfterPush(n, p) = v
    BY <1>1, <1>6, <1>v, <1>0 DEF v, q
  <2> QED
    BY <1>0, <2>3, <2>5, <2>6, <2>7
<1> QED
  BY <1>0, <1>1, <1>5, <1>6

LEMMA RInvPush ==
    ASSUME RInv, NEW n, Push(n)
    PROVE  RInv'
<1>0. /\ n \in Nat /\ n >= 1 /\ pushed \in Nat /\ pushed' = pushed + n
      /\ pushed' \in 0 .. MaxBytes /\ UNCHANGED <<rpos, heard>>
      /\ heard \in 0 .. pushed /\ rpos \in Positions
      /\ ring' = [p \in Positions |-> AfterPush(n, p)]
  BY RingAssumption DEF Push, RInv, TypeOK
<1>1. wpos' = pushed' % Cap /\ wpos' \in Positions
  BY <1>0, NextPosition DEF Push, RInv
<1>2. \A p \in Positions : ring'[p] = AfterPush(n, p)
  BY <1>0
<1>3. (\A p \in Positions : HoldsLatest(p))'
  <2> SUFFICES ASSUME NEW p \in Positions PROVE HoldsLatest(p)'
    BY DEF Positions
  <2> DEFINE v == AfterPush(n, p)
  <2>1. IF pushed + n > p
        THEN /\ v \in Int /\ v >= 1 /\ v <= pushed + n /\ v > pushed + n - Cap
             /\ (v - 1) % Cap = p
        ELSE v = 0
    BY <1>0, PushedLatest
  <2>2. ring'[p] = v
    BY <1>2
  <2> HIDE DEF v
  <2>3. p \in Int
    BY DEF Positions
  <2>4. CASE pushed + n > p
    BY <1>0, <2>1, <2>2, <2>3, <2>4, CapPositive DEF HoldsLatest
  <2>5. CASE ~(pushed + n > p)
    BY <1>0, <2>1, <2>2, <2>3, <2>5 DEF HoldsLatest
  <2> QED
    BY <2>4, <2>5
<1>4. ring' \in [Positions -> 0 .. pushed']
  <2> SUFFICES ASSUME NEW p \in Positions PROVE AfterPush(n, p) \in 0 .. pushed'
    BY <1>0
  <2> QED
    BY <1>0, PushedLatest
<1> QED
  BY <1>0, <1>1, <1>3, <1>4 DEF RInv, TypeOK, Positions

(* What a callback hands to the device.                                    *)
LEMMA Pulled ==
    ASSUME RInv, NEW len, Pull(len)
    PROVE  LET copy == IF len < Avail THEN len ELSE Avail
           IN  /\ copy \in Nat /\ copy <= Avail
               /\ stream' = [i \in 1 .. copy |-> pushed - Avail + i]
               /\ heard' = IF copy = 0 THEN heard ELSE pushed - Avail + copy
               /\ rpos' = (rpos + copy) % Cap
               /\ UNCHANGED <<ring, wpos, pushed>>
<1> DEFINE copy == IF len < Avail THEN len ELSE Avail
<1>0. Avail \in Nat /\ pushed \in Nat /\ rpos \in Int /\ len \in Nat
  BY AvailIsUnplayed, RingAssumption DEF RInv, TypeOK, Pull, Positions
<1>1. copy \in Nat /\ copy <= Avail
  BY <1>0
<1>2. /\ stream' = [i \in 1 .. copy |-> ring[(rpos + i - 1) % Cap]]
      /\ heard' = IF copy = 0 THEN heard ELSE stream'[copy]
      /\ rpos' = (rpos + copy) % Cap /\ UNCHANGED <<ring, wpos, pushed>>
  BY DEF Pull
<1> HIDE DEF copy
<1>3. \A i \in 1 .. copy : ring[(rpos + i - 1) % Cap] = pushed - Avail + i
  <2> SUFFICES ASSUME NEW i \in 1 .. copy
               PROVE  ring[(rpos + i - 1) % Cap] = pushed - Avail + i
    OBVIOUS
  <2>1. i - 1 \in 0 .. Avail - 1 /\ rpos + (i - 1) = rpos + i - 1
        /\ pushed - Avail + 1 + (i - 1) = pushed - Avail + i
    BY <1>0, <1>1
  <2>2. ring[(rpos + (i - 1)) % Cap] = pushed - Avail + 1 + (i - 1)
    BY <2>1, LatestInOrder DEF RingHoldsTheLatest
  <2> QED
    BY <2>1, <2>2
<1>4. stream' = [i \in 1 .. copy |-> pushed - Avail + i]
  BY <1>2, <1>3
<1>5. copy # 0 => stream'[copy] = pushed - Avail + copy
  BY <1>1, <1>4
<1> QED
  BY <1>1, <1>2, <1>4, <1>5 DEF copy

LEMMA RInvPull ==
    ASSUME RInv, NEW len, Pull(len)
    PROVE  RInv'
<1> DEFINE copy == IF len < Avail THEN len ELSE Avail
<1>0. /\ copy \in Nat /\ copy <= Avail
      /\ heard' = IF copy = 0 THEN heard ELSE pushed - Avail + copy
      /\ rpos' = (rpos + copy) % Cap /\ UNCHANGED <<ring, wpos, pushed>>
  BY Pulled
<1> HIDE DEF copy
<1>1. /\ pushed \in Nat /\ heard \in 0 .. pushed /\ Avail \in Nat /\ Avail <= pushed - heard
      /\ rpos = heard % Cap
  BY AvailIsUnplayed DEF RInv, TypeOK
<1>2. heard' \in 0 .. pushed'
  BY <1>0, <1>1
<1>3. rpos' = heard' % Cap
  <2>1. CASE copy = 0
    <3>1. (rpos + 0) % Cap = (heard + 0) % Cap
      BY <1>1, NextPosition
    <3> QED
      BY <2>1, <3>1, <1>0, <1>1
  <2>2. CASE copy # 0
    BY <2>2, <1>0, AvailIsUnplayed
  <2> QED
    BY <2>1, <2>2
<1>4. rpos' \in Positions
  BY <1>0, <1>1, NextPosition
<1> QED
  BY <1>0, <1>2, <1>3, <1>4 DEF RInv, TypeOK, HoldsLatest, Positions

LEMMA RInvNext == RInv /\ [Next]_vars => RInv'
<1> SUFFICES ASSUME RInv, [Next]_vars PROVE RInv'
  OBVIOUS
<1>1. CASE UNCHANGED vars
  BY <1>1 DEF vars, RInv, TypeOK, HoldsLatest, Positions
<1> QED
  BY <1>1, RInvPush, RInvPull DEF Next

(* Positions and counters of the ring stay in range.                       *)
THEOREM RingTypeCorrect == Spec => []TypeOK
<1>1. RInv => TypeOK
  BY DEF RInv
<1> QED
  BY <1>1, RInvInit, RInvNext, PTL DEF Spec

(* player.c, crappr.m: between rpos and wpos lie the bytes pushed last.    *)
THEOREM LatestBytes == Spec => []RingHoldsTheLatest
  BY LatestInOrder, RInvInit, RInvNext, PTL DEF Spec

\* What PlaysForward says of a step.
StreamGoesOn ==
    stream' # stream \/ heard' # heard =>
          /\ \A i \in 1 .. Len(stream') - 1 : stream'[i + 1] = stream'[i] + 1
          /\ stream' # <<>> => /\ stream'[1] > heard
                              /\ (stream'[1] - 1 - heard) % Cap = 0

LEMMA StreamStep == RInv /\ [Next]_vars => [StreamGoesOn]_vars
<1> SUFFICES ASSUME RInv, Next, stream' # stream \/ heard' # heard PROVE StreamGoesOn
  BY DEF StreamGoesOn, vars
<1>1. PICK len \in 1 .. MaxPull : Pull(len)
  BY DEF Next, Push
<1> DEFINE copy == IF len < Avail THEN len ELSE Avail
<1>2. copy \in Nat /\ stream' = [i \in 1 .. copy |-> pushed - Avail + i]
  BY <1>1, Pulled
<1> HIDE DEF copy
<1>3. /\ pushed \in Nat /\ heard \in Nat /\ Avail \in Nat /\ Avail <= pushed - heard
      /\ (pushed - Avail - heard) % Cap = 0
  BY AvailIsUnplayed DEF RInv, TypeOK
<1>4. Len(stream') = copy
  BY <1>2
<1>5. \A i \in 1 .. Len(stream') - 1 : stream'[i + 1] = stream'[i] + 1
  BY <1>2, <1>3, <1>4
<1>6. ASSUME stream' # <<>>
      PROVE  stream'[1] > heard /\ (stream'[1] - 1 - heard) % Cap = 0
  <2>1. copy # 0
    BY <1>2, <1>6
  <2>2. stream'[1] = pushed - Avail + 1
    BY <1>2, <2>1
  <2>3. stream'[1] - 1 - heard = pushed - Avail - heard
    BY <1>3, <2>2
  <2> QED
    BY <1>3, <2>2, <2>3
<1> QED
  BY <1>5, <1>6 DEF StreamGoesOn

(* audio_callback, fillBuffer: sound never goes back, and what an overflow *)
(* skips is a whole number of laps.                                        *)
THEOREM Forward == Spec => PlaysForward
  BY StreamStep, RInvInit, RInvNext, PTL DEF Spec, PlaysForward, StreamGoesOn

-----------------------------------------------------------------------------
(* The loop of crapplay.                                                   *)

(* The player and the device use the ring by its own steps only.           *)
LEMMA RingSteps == [PNext]_allvars => [Next]_vars
  BY DEF PNext, PlayerStep, Poll, ReadVideo, ReadAudio, ReadEnds, Time, Show, Drain, Close,
         Tick, Callback, allvars, Next, Push, Pull

LEMMA PlayerRing == PSpec => []RInv /\ [][Next]_vars
<1>1. PInit => RInv
  BY RInvInit DEF PInit
<1>2. RInv /\ [PNext]_allvars => RInv'
  BY RingSteps, RInvNext
<1> QED
  BY <1>1, <1>2, RingSteps, PTL DEF PSpec

\* The inductive invariant of the loop.
PTyped ==
    /\ file \in Seq(Records) /\ running \in BOOLEAN /\ clock \in Nat
    /\ start \in [pts : Int, wall : Int] /\ pts \in Int /\ wake \in Int
    /\ shown \in [pts : Int, due : Int, at : Int] /\ afterQuit \in Nat
    /\ shown.at <= clock * Milli

\* A frame is shown after a quit only if it had been asked for before.
Quitting ==
    /\ running \/ pc \in {"read", "time", "show"} => afterQuit = 0
    /\ QuitShowsOneFrameAtMost

\* By the time the sleep before a frame is over, the frame is due.
Waiting ==
    pc = "show" => \/ wake * Milli >= Due - Milli
                   \/ clock * Milli >= Due - Milli
                   \/ Due - shown.at >= LongWait

PInv == PTyped /\ Quitting /\ Waiting

LEMMA PInvInit == PInit => PInv
  BY PlayerAssumption
     DEF PInit, PInv, PTyped, Quitting, Waiting, NoStart, QuitShowsOneFrameAtMost

LEMMA FrontRecord ==
    ASSUME PTyped, file # <<>>
    PROVE  Tail(file) \in Seq(Records)
           /\ (Head(file).kind = "video" => Head(file).pts \in Int)
<1>1. Head(file) \in Records /\ Tail(file) \in Seq(Records)
  BY DEF PTyped
<1> QED
  BY <1>1 DEF Records

LEMMA TypedNext == RInv /\ PInv /\ [PNext]_allvars => PTyped'
<1> SUFFICES ASSUME RInv, PInv, [PNext]_allvars PROVE PTyped'
  OBVIOUS
<1> USE PlayerAssumption DEF PInv
<1>m. /\ Milli \in Nat /\ Milli > 0 /\ clock * Milli \in Int
      /\ \A a \in Int : a \div Milli \in Int
  BY DivMod DEF PTyped
<1>1. CASE Poll
  BY <1>1 DEF Poll, PTyped
<1>2. CASE ReadVideo
  <2>1. file # <<>> /\ Head(file).kind = "video"
    BY <1>2 DEF ReadVideo, Upcoming
  <2>2. pts' \in Int /\ file' \in Seq(Records)
    BY <1>2, <2>1, FrontRecord DEF ReadVideo
  <2>3. start' \in [pts : Int, wall : Int]
    BY <1>2, <1>m, <2>2 DEF ReadVideo, PTyped
  <2> QED
    BY <1>2, <2>2, <2>3 DEF ReadVideo, PTyped
<1>3. CASE ReadAudio
  <2>1. file # <<>>
    BY <1>3 DEF ReadAudio, Upcoming
  <2> QED
    BY <1>3, <2>1, FrontRecord DEF ReadAudio, PTyped
<1>4. CASE ReadEnds
  BY <1>4 DEF ReadEnds, PTyped
<1>5. CASE Time
  <2>1. Due - clock * Milli \in Int
    BY <1>m DEF Due, PTyped
  <2>2. (Due - clock * Milli) \div Milli \in Int
    BY <1>m, <2>1
  <2>3. wake' \in Int
    BY <1>5, <2>2 DEF Time, PTyped
  <2> QED
    BY <1>5, <2>3 DEF Time, PTyped
<1>6. CASE Show
  <2>1. Due \in Int
    BY DEF Due, PTyped
  <2> QED
    BY <1>6, <1>m, <2>1 DEF Show, PTyped
<1>7. CASE Drain
  <2>1. Avail \in Int
    BY AvailIsUnplayed
  <2>2. Avail \div BytesPerMilli \in Int
    BY <2>1, DivMod
  <2>3. wake' \in Int
    BY <1>7, <2>2 DEF Drain, PTyped
  <2> QED
    BY <1>7, <2>3 DEF Drain, PTyped
<1>8. CASE Close
  BY <1>8 DEF Close, PTyped
<1>9. CASE Tick
  <2>1. clock' * Milli = clock * Milli + Milli
    BY <1>9, <1>m DEF Tick, PTyped
  <2> QED
    BY <1>9, <1>m, <2>1 DEF Tick, PTyped
<1>10. CASE Callback
  BY <1>10 DEF Callback, pvars, PTyped
<1>11. CASE UNCHANGED allvars
  BY <1>11 DEF allvars, pvars, PTyped
<1> QED
  BY <1>1, <1>2, <1>3, <1>4, <1>5, <1>6, <1>7, <1>8, <1>9, <1>10, <1>11
     DEF PNext, PlayerStep

LEMMA QuittingNext == PInv /\ [PNext]_allvars => Quitting'
<1> USE DEF PInv, Quitting, QuitShowsOneFrameAtMost, PTyped
<1> QED
  BY DEF PNext, PlayerStep, Poll, ReadVideo, ReadAudio, ReadEnds, Time, Show, Drain, Close,
         Tick, Callback, allvars, pvars

LEMMA WaitingNext == PInv /\ [PNext]_allvars => Waiting'
<1> SUFFICES ASSUME PInv, [PNext]_allvars, pc' = "show" PROVE Waiting'
  BY DEF Waiting
<1> USE PlayerAssumption DEF PInv
<1>m. /\ Milli \in Nat /\ Milli > 0 /\ clock \in Nat /\ clock * Milli \in Int
      /\ Due \in Int /\ shown.at \in Int /\ shown.at <= clock * Milli /\ LongWait \in Nat
  BY DEF PTyped, Due
<1>1. CASE Time
  <2> DEFINE wait == Due - clock * Milli
             w == wait \div Milli
  <2>1. wait \in Int
    BY <1>m
  <2>2. wait = Milli * w + (wait % Milli) /\ wait % Milli \in 0 .. Milli - 1 /\ w \in Int
    BY <1>m, <2>1, DivMod
  <2>3. wake' = (IF wait > Milli /\ wait < LongWait THEN clock + w ELSE clock)
        /\ UNCHANGED <<clock, start, pts, shown>>
    BY <1>1 DEF Time
  <2>4. Due' = Due
    BY <2>3 DEF Due
  <2> HIDE DEF w
  <2>5. (clock + w) * Milli = clock * Milli + Milli * w
    BY <1>m, <2>2
  <2>6. Milli * w >= wait - Milli
    BY <1>m, <2>1, <2>2
  <2>7. CASE wait > Milli /\ wait < LongWait
    <3>1. wake' * Milli >= Due - Milli
      <4>1. wake' * Milli = clock * Milli + Milli * w
        BY <2>3, <2>5, <2>7
      <4>2. clock * Milli + wait = Due /\ Milli * w \in Int
        BY <1>m, <2>2
      <4> HIDE DEF wait
      <4> QED
        BY <1>m, <2>1, <2>6, <4>1, <4>2
    <3> QED
      BY <3>1, <2>4 DEF Waiting
  <2>8. CASE wait <= Milli
    <3>1. clock' * Milli >= Due - Milli
      BY <1>m, <2>3, <2>8
    <3> QED
      BY <3>1, <2>4 DEF Waiting
  <2>9. CASE wait >= LongWait
    <3>1. Due - shown'.at >= LongWait
      BY <1>m, <2>3, <2>9
    <3> QED
      BY <3>1, <2>4 DEF Waiting
  <2> QED
    BY <1>m, <2>1, <2>7, <2>8, <2>9
<1>2. CASE Tick
  <2>1. /\ pc = "show" /\ clock' * Milli = clock * Milli + Milli
        /\ UNCHANGED <<start, pts, shown, wake>>
    BY <1>2, <1>m DEF Tick
  <2>2. Due' = Due
    BY <2>1 DEF Due
  <2> QED
    BY <1>m, <2>1, <2>2 DEF Waiting, PTyped
<1>3. CASE UNCHANGED <<pc, clock, start, pts, shown, wake>>
  BY <1>3 DEF Waiting, Due
<1>4. [PNext]_allvars => Time \/ Tick \/ UNCHANGED <<pc, clock, start, pts, shown, wake>>
  BY DEF PNext, PlayerStep, Poll, ReadVideo, ReadAudio, ReadEnds, Show, Drain, Close,
         Callback, allvars, pvars
<1> QED
  BY <1>1, <1>2, <1>3, <1>4

THEOREM PInvariant == PSpec => [](RInv /\ PInv)
<1>1. RInv /\ PInv /\ [PNext]_allvars => PInv'
  BY TypedNext, QuittingNext, WaitingNext DEF PInv
<1> QED
  BY <1>1, PInvInit, PlayerRing, PTL DEF PSpec

(* crapplay's ring, like crappr's, is only pushed to and pulled from: what *)
(* holds of the ring holds in the player.                                  *)
THEOREM PlayerLatestBytes == PSpec => []RingHoldsTheLatest
  BY LatestInOrder, PlayerRing, PTL

(* audio_callback under player_run: the same of the sound.                 *)
THEOREM PlayerForward == PSpec => PlaysForward
  BY StreamStep, PlayerRing, PTL DEF PlaysForward, StreamGoesOn

(* player_run: after a quit one frame at most is shown.                    *)
THEOREM QuitIsPrompt == PSpec => []QuitShowsOneFrameAtMost
<1>1. PInv => QuitShowsOneFrameAtMost
  BY DEF PInv, Quitting
<1> QED
  BY <1>1, PInvariant, PTL

(* player_run: no frame appears more than a millisecond before its time,   *)
(* unless its time is LongWait away.                                       *)
THEOREM NotEarly == PSpec => NotBeforeItsTime
<1> DEFINE A == shown' # shown => \/ shown'.at >= shown'.due - Milli
                                 \/ shown'.due - shown.at >= LongWait
<1>1. PInv /\ [PNext]_allvars => [A]_allvars
  <2> SUFFICES ASSUME PInv, PNext, shown' # shown
               PROVE  \/ shown'.at >= shown'.due - Milli
                      \/ shown'.due - shown.at >= LongWait
    OBVIOUS
  <2>1. Show
    BY DEF PNext, PlayerStep, Poll, ReadVideo, ReadAudio, ReadEnds, Time, Drain, Close,
           Tick, Callback, pvars
  <2>2. /\ shown'.due = Due /\ shown'.at = clock * Milli /\ clock >= wake /\ pc = "show"
        /\ clock \in Nat /\ wake \in Int /\ Due \in Int /\ Milli \in Nat
    BY <2>1, PlayerAssumption DEF Show, PInv, PTyped, Due
  <2>3. clock * Milli >= wake * Milli
    BY <2>2
  <2> QED
    BY <2>2, <2>3 DEF PInv, Waiting
<1> QED
  BY <1>1, PInvariant, PTL DEF PSpec, NotBeforeItsTime

-----------------------------------------------------------------------------
(* The sound at the end.                                                   *)

LEMMA AvailNext ==
    (RInv => Avail \in 0 .. Cap - 1 /\ (pushed - Avail - heard) % Cap = 0)'
<1>1. RInv => Avail \in 0 .. Cap - 1 /\ (pushed - Avail - heard) % Cap = 0
  BY AvailIsUnplayed
<1> QED
  BY <1>1, PTL

(* A callback takes what it copies out of what is available.               *)
LEMMA PullTakes ==
    ASSUME RInv, NEW len, Pull(len)
    PROVE  Avail' = IF len < Avail THEN Avail - len ELSE 0
<1> DEFINE copy == IF len < Avail THEN len ELSE Avail
<1>0. /\ copy \in Nat /\ copy <= Avail /\ rpos' = (rpos + copy) % Cap
      /\ heard' = IF copy = 0 THEN heard ELSE pushed - Avail + copy
      /\ UNCHANGED <<wpos, pushed>>
  BY Pulled
<1>1. /\ Avail \in 0 .. Cap - 1 /\ pushed \in Nat /\ heard \in Nat /\ Cap \in Nat
      /\ Cap > 0 /\ rpos = heard % Cap
  BY CapPositive, AvailIsUnplayed DEF RInv, TypeOK
<1>l. len \in Nat
  BY RingAssumption DEF Pull
<1>2. RInv'
  BY RInvPull
<1>3. Avail' \in 0 .. Cap - 1 /\ (pushed' - Avail' - heard') % Cap = 0
  BY <1>2, AvailNext
<1> HIDE DEF copy
<1>4. CASE copy = 0
  <2>1. rpos' = rpos
    <3>1. (rpos + 0) % Cap = (heard + 0) % Cap
      BY <1>1, NextPosition
    <3> QED
      BY <1>0, <1>1, <1>4, <3>1
  <2>2. Avail' = Avail
    BY <1>0, <2>1 DEF Avail
  <2> QED
    BY <1>1, <1>l, <1>4, <2>2 DEF copy
<1>5. CASE copy # 0
  <2>1. /\ Avail' \in Int /\ 0 <= Avail' /\ Avail' < Cap
        /\ copy \in Int /\ 0 <= copy /\ copy <= Avail
        /\ Avail \in Int /\ Avail < Cap
    BY <1>0, <1>1, <1>3
  <2>2. pushed' - Avail' - heard' = Avail - copy - Avail'
    BY <1>0, <1>1, <1>3, <1>5
  <2>3. (Avail - copy - Avail') % Cap = 0
    BY <1>3, <2>2
  <2>4. ASSUME NEW a \in Int, NEW b \in Int, 0 <= a, a < Cap, 0 <= b, b < Cap,
               (a - b) % Cap = 0
        PROVE  a = b
    <3>1. a - b \in Int /\ 0 \in Int /\ a - b - 0 < Cap /\ 0 - (a - b) < Cap
      BY <1>1, <2>4
    <3>2. 0 % Cap = 0
      BY <1>1, ModSmall
    <3>3. a - b = 0
      BY <1>1, <2>4, <3>1, <3>2, SameInWindow
    <3> QED
      BY <3>3
  <2>5. Avail' = Avail - copy
    <3>1. Avail - copy \in Int /\ 0 <= Avail - copy /\ Avail - copy < Cap
      BY <2>1, <1>1
    <3> QED
      BY <2>1, <2>3, <2>4, <3>1
  <2> QED
    BY <1>1, <1>l, <2>5 DEF copy
<1> QED
  BY <1>4, <1>5

\* While the player sleeps, a request fits for every period until it wakes.
Request == Period * BytesPerMilli
Emptying ==
    pc \in {"close", "done"} /\ adev = "steady" =>
       \/ Avail < Request
       \/ Avail < Request * (1 + (wake \div Period) - (clock \div Period))

LEMMA PeriodFacts ==
    /\ Period \in Nat /\ Period > 0 /\ BytesPerMilli \in Nat /\ BytesPerMilli > 0
    /\ Request \in Nat /\ Request > 0
<1>1. Period \in Nat /\ Period > 0 /\ BytesPerMilli \in Nat /\ BytesPerMilli > 0
  BY PlayerAssumption
<1>2. \A a, b \in Nat : a > 0 /\ b > 0 => a * b > 0 /\ a * b \in Nat
  OBVIOUS
<1> QED
  BY <1>1, <1>2 DEF Request

\* The sleep that Drain begins is long enough.
LEMMA DrainEmpties == RInv /\ PTyped /\ Drain => Emptying'
<1> SUFFICES ASSUME RInv, PTyped, Drain, adev = "steady" PROVE Emptying'
  BY DEF Emptying, Drain
<1>0. Avail \in Nat /\ clock \in Nat
  BY AvailIsUnplayed DEF PTyped
<1> DEFINE w == Avail \div BytesPerMilli
           k == clock \div Period
           m == (clock + w) \div Period
           P == Period
           B == BytesPerMilli
<1>1. /\ wake' = clock + w /\ UNCHANGED <<vars, clock>>
      /\ Avail' = Avail
  BY DEF Drain, vars, Avail
<1>2. w \in Int /\ Avail = B * w + (Avail % B) /\ Avail % B \in 0 .. B - 1
  BY <1>0, PeriodFacts, DivMod
<1>3. k \in Int /\ clock = P * k + (clock % P) /\ clock % P \in 0 .. P - 1
  BY <1>0, PeriodFacts, DivMod
<1>4. clock + w \in Int
  BY <1>0, <1>2
<1>5. m \in Int /\ clock + w = P * m + ((clock + w) % P) /\ (clock + w) % P \in 0 .. P - 1
  BY <1>4, PeriodFacts, DivMod
<1>p. P \in Nat /\ P > 0 /\ B \in Nat /\ B > 0
  BY PeriodFacts
<1>6. Avail' < P * B * (1 + m - k)
  <2> HIDE DEF w, k, m, P, B
  <2>1. Avail < B * (w + 1)
    BY <1>0, <1>2, <1>p
  <2>2. w + 1 <= P * (1 + m - k)
    <3>1. P * (1 + m - k) = P + P * m - P * k /\ P * m \in Int /\ P * k \in Int
      BY <1>3, <1>5, <1>p
    <3> QED
      BY <1>0, <1>2, <1>3, <1>5, <1>p, <3>1
  <2>3. \A x, y \in Int : x <= y => B * x <= B * y
    BY <1>p
  <2>4. B * (P * (1 + m - k)) = P * B * (1 + m - k)
    BY <1>3, <1>5, <1>p
  <2>5. w + 1 \in Int /\ P * (1 + m - k) \in Int
    BY <1>2, <1>3, <1>5, <1>p
  <2>6. B * (w + 1) <= B * (P * (1 + m - k))
    BY <2>2, <2>3, <2>5
  <2>7. B * (w + 1) \in Int /\ P * B * (1 + m - k) \in Int
    BY <1>p, <1>2, <1>3, <1>5
  <2> QED
    BY <1>0, <1>1, <2>1, <2>4, <2>6, <2>7
<1> QED
  BY <1>1, <1>6 DEF Emptying, Request

\* With every period that passes a request is taken out.
LEMMA TickEmpties == RInv /\ PTyped /\ Emptying /\ Tick => Emptying'
<1> SUFFICES ASSUME RInv, PTyped, Emptying, Tick, pc \in {"close", "done"}, adev = "steady"
             PROVE  Emptying'
  BY DEF Emptying, Tick
<1>0. /\ Avail \in Nat /\ clock \in Nat /\ wake \in Int /\ clock' = clock + 1
      /\ UNCHANGED <<adev, pc, wake>>
  BY AvailIsUnplayed DEF PTyped, Tick
<1> DEFINE k == clock \div Period
           m == wake \div Period
           r == clock % Period
<1>1. k \in Int /\ clock = Period * k + r /\ r \in 0 .. Period - 1 /\ m \in Int
  BY <1>0, PeriodFacts, DivMod
<1>2. Avail < Request \/ Avail < Request * (1 + m - k)
  BY DEF Emptying
<1> HIDE DEF m, k, r
<1>3. CASE r = Period - 1
  <2>1. /\ clock' = Period * (k + 1) + 0 /\ clock' \in Int /\ 0 \in 0 .. Period - 1
        /\ k + 1 \in Int
    BY <1>0, <1>1, <1>3, PeriodFacts
  <2>2. clock' % Period = 0 /\ clock' \div Period = k + 1
    BY <2>1, PeriodFacts, ModUnique, Zenon
  <2>3. Pull(Request)
    BY <2>2 DEF Tick, Request
  <2>4. Avail' = IF Request < Avail THEN Avail - Request ELSE 0
    BY <2>3, PullTakes
  <2>5. Request * (1 + m - k) - Request = Request * (1 + m - (k + 1))
    BY <1>1, PeriodFacts
  <2>6. Request * (1 + m - k) \in Int /\ Request * (1 + m - (k + 1)) \in Int
    BY <1>1, PeriodFacts
  <2>7. Avail' < Request \/ Avail' < Request * (1 + m - (k + 1))
    BY <1>0, <1>2, <2>4, <2>5, <2>6, PeriodFacts
  <2> QED
    BY <1>0, <2>2, <2>7 DEF Emptying, m, Request
<1>4. CASE r < Period - 1
  <2>1. clock' = Period * k + (r + 1) /\ clock' \in Int /\ r + 1 \in 0 .. Period - 1
    BY <1>0, <1>1, <1>4, PeriodFacts
  <2>2. clock' % Period = r + 1 /\ clock' \div Period = k
    BY <1>1, <2>1, PeriodFacts, ModUnique
  <2>3. UNCHANGED vars
    BY <1>1, <2>2 DEF Tick
  <2>4. Avail' = Avail
    BY <2>3 DEF vars, Avail
  <2> QED
    BY <1>0, <1>2, <2>2, <2>4 DEF Emptying, m, Request
<1> QED
  BY <1>1, <1>3, <1>4, PeriodFacts

LEMMA EmptyingNext == RInv /\ PTyped /\ Emptying /\ [PNext]_allvars => Emptying'
<1> SUFFICES ASSUME RInv, PTyped, Emptying, [PNext]_allvars PROVE Emptying'
  OBVIOUS
<1>1. CASE Close
  BY <1>1 DEF Close, Emptying, Request, Avail, vars
<1>2. CASE UNCHANGED allvars
  BY <1>2 DEF Emptying, Request, Avail, vars, allvars, pvars
<1>3. CASE Callback
  BY <1>3 DEF Callback, Emptying, pvars
<1>4. CASE Poll \/ ReadVideo \/ ReadAudio \/ ReadEnds \/ Time \/ Show
  BY <1>4 DEF Poll, ReadVideo, ReadAudio, ReadEnds, Time, Show, Emptying
<1> QED
  BY <1>1, <1>2, <1>3, <1>4, DrainEmpties, TickEmpties DEF PNext, PlayerStep

\* The player closes the device only when the sleep is over.
Awake == pc = "done" => clock >= wake

LEMMA AwakeNext == PTyped /\ Awake /\ [PNext]_allvars => Awake'
  BY DEF Awake, PTyped, PNext, PlayerStep, Poll, ReadVideo, ReadAudio, ReadEnds, Time, Show, Drain,
         Close, Tick, Open, Callback, allvars, pvars

(* What the ring counts is what has still to be played, but for laps.      *)
LEMMA AvailWithinLap == ASSUME RInv, Unheard < Cap PROVE Avail = Unheard
<1>1. /\ pushed \in Nat /\ heard \in Nat /\ heard <= pushed /\ Cap \in Nat /\ Cap > 0
  BY CapPositive DEF RInv, TypeOK
<1>2. Avail \in 0 .. Cap - 1 /\ Avail <= Unheard /\ (pushed - Avail - heard) % Cap = 0
  BY AvailIsUnplayed DEF Unheard
<1>3. Unheard - Avail \in 0 .. Cap - 1 /\ (Unheard - Avail) % Cap = 0
  <2>1. pushed - Avail - heard = Unheard - Avail
    BY <1>1, <1>2 DEF Unheard
  <2> QED
    BY <1>1, <1>2, <2>1 DEF Unheard
<1>4. Unheard - Avail = 0
  BY <1>1, <1>3, ModSmall
<1> QED
  BY <1>1, <1>2, <1>4 DEF Unheard

(* player_run: the device is closed when less than one of its requests was *)
(* never played, unless the ring was a whole lap or more behind, for every *)
(* file, clock, ring and device rate.                                      *)
THEOREM PlayedOut == PSpec => []SoundIsPlayedOut
<1>1. PInit => Emptying /\ Awake
  BY DEF PInit, Emptying, Awake
<1>2. RInv /\ PInv /\ Emptying /\ Awake => SoundIsPlayedOut
  <2> SUFFICES ASSUME RInv, PTyped, Emptying, clock >= wake, pc = "done", adev = "steady"
               PROVE  Avail < Request
    <3>1. RInv => Unheard \in Int /\ Cap \in Int
      BY CapPositive DEF RInv, TypeOK, Unheard
    <3> QED
      BY <3>1, AvailWithinLap DEF PInv, SoundIsPlayedOut, Request, Awake
  <2> DEFINE k == clock \div Period
             m == wake \div Period
  <2>1. Avail \in Nat /\ clock \in Int /\ wake \in Int
    BY AvailIsUnplayed DEF PTyped
  <2>2. /\ k \in Int /\ clock = Period * k + (clock % Period) /\ clock % Period \in 0 .. Period - 1
        /\ m \in Int /\ wake = Period * m + (wake % Period) /\ wake % Period \in 0 .. Period - 1
    BY <2>1, PeriodFacts, DivMod
  <2>3. Avail < Request \/ Avail < Request * (1 + m - k)
    BY DEF Emptying
  <2> HIDE DEF k, m
  <2>4. m <= k
    <3> SUFFICES ASSUME m >= k + 1 PROVE FALSE
      BY <2>2
    <3>1. Period * (m - k) >= Period
      BY <2>2, PeriodFacts
    <3>2. Period * m - Period * k >= Period
      BY <3>1, <2>2, PeriodFacts
    <3> QED
      BY <2>1, <2>2, <3>2, PeriodFacts
  <2>5. 1 + m - k <= 1 => Request * (1 + m - k) <= Request
    BY <2>2, PeriodFacts
  <2>6. Request * (1 + m - k) \in Int
    BY <2>2, PeriodFacts
  <2> QED
    BY <2>1, <2>2, <2>3, <2>4, <2>5, <2>6, PeriodFacts
<1>3. PInv => PTyped
  BY DEF PInv
<1> QED
  BY <1>1, <1>2, <1>3, PInvariant, EmptyingNext, AwakeNext, PTL DEF PSpec
=============================================================================
