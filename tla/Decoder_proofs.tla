---------------------------- MODULE Decoder_proofs ----------------------------
(***************************************************************************)
(* Theorems about the decoder and its pool, for every size of the pool,    *)
(* every file and any number of failed allocations.                        *)
(***************************************************************************)
EXTENDS Decoder, FiniteSetTheorems, TLAPS

-----------------------------------------------------------------------------
(* The pool by itself: what its operations do to a whole free list.        *)

Whole == free \in Seq(Blocks) /\ FreeListIsWhole

(* The list that pool_init strings together is whole and has every block.  *)
LEMMA PoolInitWhole == PoolInit => Whole /\ FreeBlocks = Blocks
<1> SUFFICES ASSUME PoolInit PROVE Whole /\ FreeBlocks = Blocks
  OBVIOUS
<1> USE PoolAssumption DEF PoolInit, Blocks, Null
<1>1. free \in Seq(Blocks) /\ Len(free) = BlockCount
  OBVIOUS
<1>2. \A i \in 1 .. Len(free) : free[i] = i
  BY <1>1
<1>3. FreeListIsWhole
  <2>1. \A i, j \in 1 .. Len(free) : i # j => free[i] # free[j]
    BY <1>2
  <2>2. free_head = IF free = <<>> THEN Null ELSE free[1]
    BY <1>1, <1>2
  <2>3. \A i \in 1 .. Len(free) :
           link[free[i]] = IF i = Len(free) THEN Null ELSE free[i + 1]
    BY <1>1, <1>2
  <2> QED
    BY <1>1, <1>2, <2>1, <2>2, <2>3 DEF FreeListIsWhole
<1>4. FreeBlocks = Blocks
  BY <1>1, <1>2 DEF FreeBlocks
<1> QED
  BY <1>1, <1>3, <1>4 DEF Whole

(* Taking the first block off leaves a whole list of the others.           *)
LEMMA AcquireWhole ==
    ASSUME Whole, NEW b, Acquire(b)
    PROVE  /\ Whole'
           /\ b = Null => UNCHANGED pool /\ FreeBlocks = {}
           /\ b # Null => b \in FreeBlocks /\ FreeBlocks' = FreeBlocks \ {b}
<1> USE PoolAssumption DEF Blocks, Null
<1> DEFINE s == free
<1>0. free \in Seq(Blocks) /\ FreeListIsWhole
  BY DEF Whole
<1>1. CASE free = <<>>
  <2>1. b = Null /\ UNCHANGED pool
    BY <1>0, <1>1 DEF Acquire, FreeListIsWhole
  <2> QED
    BY <1>0, <1>1, <2>1 DEF pool, Whole, FreeListIsWhole, FreeBlocks
<1>2. CASE free # <<>>
  <2>1. b = free[1] /\ b \in 1 .. BlockCount /\ Len(free) \in Nat \ {0}
    BY <1>0, <1>2 DEF Acquire, FreeListIsWhole
  <2>2. /\ free_head' = link[b] /\ free_count' = free_count - 1
        /\ free' = Tail(free) /\ link' = link
    BY <2>1 DEF Acquire
  <2>3. /\ free' \in Seq(Blocks) /\ Len(free') = Len(free) - 1
        /\ \A i \in 1 .. Len(free') : free'[i] = free[i + 1]
    BY <1>0, <1>2, <2>1, <2>2
  <2>4. FreeListIsWhole'
    <3>1. free_count' = Len(free')
      BY <1>0, <2>1, <2>2, <2>3 DEF FreeListIsWhole
    <3>2. \A i \in 1 .. Len(free') : free'[i] \in Blocks
      BY <2>3
    <3>3. \A i, j \in 1 .. Len(free') : i # j => free'[i] # free'[j]
      <4> SUFFICES ASSUME NEW i \in 1 .. Len(free'), NEW j \in 1 .. Len(free'), i # j
                   PROVE  free'[i] # free'[j]
        OBVIOUS
      <4>1. i + 1 \in 1 .. Len(free) /\ j + 1 \in 1 .. Len(free) /\ i + 1 # j + 1
        BY <2>1, <2>3
      <4>2. free[i + 1] # free[j + 1]
        BY <4>1, <1>0 DEF FreeListIsWhole
      <4> QED
        BY <4>2, <2>3
    <3>4. free_head' = IF free' = <<>> THEN Null ELSE free'[1]
      <4>1. link[free[1]] = IF 1 = Len(free) THEN Null ELSE free[2]
        BY <1>0, <2>1 DEF FreeListIsWhole
      <4>2. free' = <<>> <=> Len(free') = 0
        BY <2>3
      <4>3. Len(free') # 0 => free'[1] = free[2]
        BY <2>1, <2>3
      <4>4. free_head' = link[free[1]]
        BY <2>1, <2>2
      <4>5. CASE Len(free) = 1
        BY <4>1, <4>2, <4>4, <4>5, <2>3
      <4>6. CASE Len(free) # 1
        BY <4>1, <4>2, <4>3, <4>4, <4>6, <2>1, <2>3
      <4> QED
        BY <4>5, <4>6
    <3>5. \A i \in 1 .. Len(free') :
             link'[free'[i]] = IF i = Len(free') THEN Null ELSE free'[i + 1]
      BY <1>0, <2>1, <2>2, <2>3, SMTT(30) DEF FreeListIsWhole
    <3> QED
      BY <3>1, <3>2, <3>3, <3>4, <3>5 DEF FreeListIsWhole
  <2>5. FreeBlocks' = FreeBlocks \ {b}
    <3>1. ASSUME NEW x \in FreeBlocks' PROVE x \in FreeBlocks \ {b}
      <4>1. PICK i \in 1 .. Len(free') : x = free'[i]
        BY DEF FreeBlocks
      <4>2. i + 1 \in 1 .. Len(free) /\ i + 1 # 1 /\ x = free[i + 1]
        BY <4>1, <2>1, <2>3
      <4>3. free[i + 1] # free[1]
        BY <4>2, <1>0, <2>1 DEF FreeListIsWhole
      <4> QED
        BY <4>2, <4>3, <2>1 DEF FreeBlocks
    <3>2. ASSUME NEW x \in FreeBlocks \ {b} PROVE x \in FreeBlocks'
      <4>1. PICK i \in 1 .. Len(free) : x = free[i]
        BY DEF FreeBlocks
      <4>2. i # 1
        BY <4>1, <2>1
      <4>3. i - 1 \in 1 .. Len(free') /\ free'[i - 1] = x
        BY <4>1, <4>2, <2>1, <2>3
      <4> QED
        BY <4>3 DEF FreeBlocks
    <3> QED
      BY <3>1, <3>2
  <2>6. b \in FreeBlocks
    BY <2>1 DEF FreeBlocks
  <2> QED
    BY <2>1, <2>3, <2>4, <2>5, <2>6 DEF Whole
<1> QED
  BY <1>1, <1>2

(* The holder of a block may write into it: no link is lost.               *)
LEMMA OverwriteWhole ==
    ASSUME Whole, link \in [Blocks -> Int], NEW b \in Blocks, b \notin FreeBlocks,
           Overwrite(b)
    PROVE  Whole' /\ FreeBlocks' = FreeBlocks
<1>1. /\ free' = free /\ free_head' = free_head /\ free_count' = free_count
      /\ \A i \in 1 .. Len(free) : link'[free[i]] = link[free[i]]
  BY DEF Overwrite, Whole, FreeListIsWhole, FreeBlocks
<1> QED
  BY <1>1 DEF Whole, FreeListIsWhole, FreeBlocks

(* A block that comes back heads the list.                                 *)
LEMMA ReleaseWhole ==
    ASSUME Whole, link \in [Blocks -> Int], NEW b \in Blocks, b \notin FreeBlocks,
           Release(b)
    PROVE  Whole' /\ FreeBlocks' = FreeBlocks \cup {b}
<1> USE PoolAssumption
<1>0. free \in Seq(Blocks) /\ FreeListIsWhole /\ Len(free) \in Nat
  BY DEF Whole
<1>1. /\ free' \in Seq(Blocks) /\ Len(free') = Len(free) + 1 /\ free'[1] = b
      /\ \A i \in 1 .. Len(free) : free'[i + 1] = free[i]
  BY <1>0 DEF Release
<1>2. \A i \in 2 .. Len(free') : i - 1 \in 1 .. Len(free) /\ free'[i] = free[i - 1]
  BY <1>0, <1>1
<1>3. \A i \in 1 .. Len(free') : i = 1 \/ i \in 2 .. Len(free')
  BY <1>0, <1>1
<1>4. /\ free_head' = b /\ free_count' = free_count + 1
      /\ link'[b] = free_head
      /\ \A i \in 1 .. Len(free) : link'[free[i]] = link[free[i]]
  BY <1>0 DEF Release, FreeListIsWhole, FreeBlocks
<1>5. FreeListIsWhole'
  <2>1. free_count' = Len(free')
    BY <1>0, <1>1, <1>4 DEF FreeListIsWhole
  <2>2. \A i \in 1 .. Len(free') : free'[i] \in Blocks
    BY <1>1
  <2>3. \A i, j \in 1 .. Len(free') : i # j => free'[i] # free'[j]
    <3> SUFFICES ASSUME NEW i \in 1 .. Len(free'), NEW j \in 1 .. Len(free'), i # j
                 PROVE  free'[i] # free'[j]
      OBVIOUS
    <3>1. \A k \in 2 .. Len(free') : free'[k] # b
      BY <1>2 DEF FreeBlocks
    <3>2. CASE i = 1
      BY <3>1, <3>2, <1>1, <1>3
    <3>3. CASE j = 1
      BY <3>1, <3>3, <1>1, <1>3
    <3>4. CASE i # 1 /\ j # 1
      BY <3>4, <1>0, <1>2, <1>3 DEF FreeListIsWhole
    <3> QED
      BY <3>2, <3>3, <3>4
  <2>4. free_head' = IF free' = <<>> THEN Null ELSE free'[1]
    BY <1>0, <1>1, <1>4
  <2>5. \A i \in 1 .. Len(free') :
           link'[free'[i]] = IF i = Len(free') THEN Null ELSE free'[i + 1]
    <3> SUFFICES ASSUME NEW i \in 1 .. Len(free')
                 PROVE  link'[free'[i]] = IF i = Len(free') THEN Null ELSE free'[i + 1]
      OBVIOUS
    <3>1. CASE i = 1
      BY <3>1, <1>0, <1>1, <1>4 DEF FreeListIsWhole
    <3>2. CASE i # 1
      <4>1. i - 1 \in 1 .. Len(free) /\ free'[i] = free[i - 1]
        BY <3>2, <1>2, <1>3
      <4>2. link'[free'[i]] = IF i - 1 = Len(free) THEN Null ELSE free[i]
        BY <4>1, <1>0, <1>4 DEF FreeListIsWhole
      <4>3. i - 1 # Len(free) => i \in 1 .. Len(free) /\ free'[i + 1] = free[i]
        BY <4>1, <1>0, <1>1
      <4> QED
        BY <4>2, <4>3, <1>0, <1>1
    <3> QED
      BY <3>1, <3>2
  <2> QED
    BY <2>1, <2>2, <2>3, <2>4, <2>5 DEF FreeListIsWhole
<1>6. FreeBlocks' = FreeBlocks \cup {b}
  <2>1. FreeBlocks' \subseteq FreeBlocks \cup {b}
    <3> SUFFICES ASSUME NEW i \in 1 .. Len(free') PROVE free'[i] \in FreeBlocks \cup {b}
      BY DEF FreeBlocks
    <3>1. CASE i = 1
      BY <3>1, <1>1
    <3>2. CASE i # 1
      BY <3>2, <1>2, <1>3 DEF FreeBlocks
    <3> QED
      BY <3>1, <3>2
  <2>2. b \in FreeBlocks'
    BY <1>0, <1>1 DEF FreeBlocks
  <2>3. FreeBlocks \subseteq FreeBlocks'
    <3> SUFFICES ASSUME NEW x \in FreeBlocks PROVE x \in FreeBlocks'
      OBVIOUS
    <3>1. PICK i \in 1 .. Len(free) : x = free[i]
      BY DEF FreeBlocks
    <3>2. i + 1 \in 1 .. Len(free') /\ free'[i + 1] = x
      BY <3>1, <1>0, <1>1
    <3> QED
      BY <3>2 DEF FreeBlocks
  <2> QED
    BY <2>1, <2>2, <2>3
<1> QED
  BY <1>1, <1>5, <1>6 DEF Whole

LEMMA Interval ==
    ASSUME NEW n \in Nat
    PROVE  IsFiniteSet(1 .. n) /\ Cardinality(1 .. n) = n
  BY FS_Interval

(* A whole list has no more blocks than the pool.                          *)
LEMMA WholeIsShort == Whole => free_count \in 0 .. BlockCount
<1> SUFFICES ASSUME Whole PROVE free_count \in 0 .. BlockCount
  OBVIOUS
<1>1. free \in Seq(Blocks) /\ Len(free) \in Nat /\ free_count = Len(free)
  BY DEF Whole, FreeListIsWhole
<1>2. /\ IsFiniteSet(Blocks) /\ Cardinality(Blocks) = BlockCount
      /\ IsFiniteSet(1 .. Len(free)) /\ Cardinality(1 .. Len(free)) = Len(free)
  <2>1. IsFiniteSet(1 .. BlockCount) /\ Cardinality(1 .. BlockCount) = BlockCount
    BY Interval, PoolAssumption
  <2>2. IsFiniteSet(1 .. Len(free)) /\ Cardinality(1 .. Len(free)) = Len(free)
    BY <1>1, Interval
  <2> QED
    BY <2>1, <2>2 DEF Blocks
<1>3. Len(free) > BlockCount =>
         \E i, j \in 1 .. Len(free) : i # j /\ free[i] = free[j]
  <2>1. free \in [1 .. Len(free) -> Blocks]
    BY <1>1
  <2> QED
    BY <1>2, <2>1, FS_PigeonHole
<1> QED
  BY <1>1, <1>3, PoolAssumption DEF Whole, FreeListIsWhole

-----------------------------------------------------------------------------
(* The decoder.                                                            *)

Kinds  == {"video", "audio", "garbled", "large", "cut"}
Places == {"kept", "lost", "regained"}

\* Every block is free, in the decoder's hand or with the caller.
Owned ==
    /\ FreeBlocks \cup InHand \cup held = Blocks
    /\ f \notin held
    /\ FreeBlocks \cap (InHand \cup held) = {}

\* What decoder_next_frame holds at each of its steps.
HoldsByPc ==
    /\ pc \in {"out", "peek", "skip", "data", "acquire", "closed"} => f = Null
    /\ pc \in {"out", "closed"} => temps = {}
    /\ pc \in {"yuv", "decode"} => f # Null
    /\ pc \in {"rgb", "init"} /\ f = Null => held = Blocks
    /\ pc = "crashed" => f = Null /\ held = Blocks

\* Where it is in the file.
PlaceByPc == pc \in {"skip", "data"} /\ ~Lost => cursor < Len(file)

\* The inductive invariant.
DInv ==
    /\ DecoderTypeOK /\ file \in Seq(Kinds)
    /\ Whole /\ Owned /\ rgb = held
    /\ HoldsByPc /\ PlaceByPc

USE DEF Null

(* decoder_open leaves every block free and nothing in hand.               *)
LEMMA DInvInit == Init => DInv
<1> SUFFICES ASSUME Init PROVE DInv
  OBVIOUS
<1>1. Whole /\ FreeBlocks = Blocks
  BY PoolInitWhole DEF Init
<1>2. file \in Seq(Kinds) /\ Len(file) \in Nat
  BY DecoderAssumption DEF Init, Kinds
<1>3. /\ link \in [Blocks -> Blocks \cup {Null, Junk}]
      /\ free_head \in Blocks \cup {Null} /\ free_count \in 0 .. BlockCount
  BY PoolAssumption DEF Init, PoolInit, Blocks
<1>4. DecoderTypeOK
  <2>1. cursor \in 0 .. Len(file) /\ faults \in 0 .. MaxFaults
    BY <1>2, DecoderAssumption DEF Init
  <2> QED
    BY <1>3, <2>1 DEF Init, DecoderTypeOK
<1>5. Owned /\ rgb = held /\ HoldsByPc /\ PlaceByPc
  BY <1>1 DEF Init, Owned, InHand, HoldsByPc, PlaceByPc, Lost, Blocks
<1> QED
  BY <1>1, <1>2, <1>4, <1>5 DEF DInv

LEMMA LinkTyped == DecoderTypeOK => link \in [Blocks -> Int]
  BY PoolAssumption DEF DecoderTypeOK, Blocks, Junk

(* What the pool holds stays typed when the list stays whole.              *)
LEMMA WholeTyped ==
    Whole => free_head \in Blocks \cup {Null} /\ free_count \in 0 .. BlockCount
<1> SUFFICES ASSUME Whole PROVE free_head \in Blocks \cup {Null}
  BY WholeIsShort
<1>1. CASE free = <<>>
  BY <1>1 DEF Whole, FreeListIsWhole
<1>2. CASE free # <<>>
  BY <1>2 DEF Whole, FreeListIsWhole
<1> QED
  BY <1>1, <1>2

LEMMA WholeTypedNext ==
    (Whole => free_head \in Blocks \cup {Null} /\ free_count \in 0 .. BlockCount)'
  BY WholeTyped, PTL

LEMMA PoolUnchanged ==
    ASSUME DInv, UNCHANGED pool
    PROVE  Whole' /\ FreeBlocks' = FreeBlocks
  BY DEF DInv, pool, Whole, FreeListIsWhole, FreeBlocks

(* A step that leaves the pool, the frame in hand and the caller's frames  *)
(* alone keeps the blocks where they are.                                  *)
LEMMA OwnedUnchanged ==
    ASSUME DInv, UNCHANGED <<pool, f, held, rgb>>
    PROVE  Whole' /\ Owned' /\ rgb' = held'
  BY PoolUnchanged DEF DInv, Owned, InHand

(* Giving back the frame in hand: it is free again, or there was none and  *)
(* the caller holds them all.                                              *)
LEMMA GiveBackOwned ==
    ASSUME DInv, GiveBack, UNCHANGED <<held, rgb>>, pc \in {"rgb", "yuv", "decode"}
    PROVE  /\ Whole' /\ Owned' /\ rgb' = held' /\ HoldsByPc'
           /\ link' \in [Blocks -> Blocks \cup {Null, Junk}]
           /\ f' \in Blocks \cup {Null} /\ pc' \in {"out", "crashed"}
           /\ temps' \subseteq {"compressed", "rgb", "yuv"}
<1>1. CASE f = Null
  <2>1. pc' = "crashed" /\ UNCHANGED <<pool, temps, f>>
    BY <1>1 DEF GiveBack
  <2>2. held = Blocks
    BY <1>1 DEF DInv, HoldsByPc
  <2> QED
    BY <2>1, <2>2, <1>1, OwnedUnchanged DEF HoldsByPc, DInv, DecoderTypeOK, pool
<1>2. CASE f # Null
  <2>1. Release(f) /\ pc' = "out" /\ temps' = {} /\ f' = Null
    BY <1>2 DEF GiveBack, ReturnNull
  <2>2. f \in Blocks /\ f \notin FreeBlocks
    BY <1>2 DEF DInv, Owned, InHand, DecoderTypeOK
  <2>3. Whole' /\ FreeBlocks' = FreeBlocks \cup {f}
    BY <2>1, <2>2, LinkTyped, ReleaseWhole DEF DInv
  <2>4. Owned'
    BY <2>1, <2>2, <2>3, <1>2 DEF DInv, Owned, InHand, Blocks
  <2>5. link' \in [Blocks -> Blocks \cup {Null, Junk}]
    BY <2>1, <2>2 DEF Release, DInv, DecoderTypeOK
  <2> QED
    BY <2>1, <2>3, <2>4, <2>5 DEF DInv, HoldsByPc
<1> QED
  BY <1>1, <1>2

(* Every step of the decoder and of its caller keeps the invariant.        *)
LEMMA DInvNext == DInv /\ [Next]_vars => DInv'
<1> SUFFICES ASSUME DInv, [Next]_vars PROVE DInv'
  OBVIOUS
<1> USE DEF ReturnNull, Places
<1>0. /\ Len(file) \in Nat /\ cursor \in 0 .. Len(file) /\ MaxFaults \in Nat
      /\ faults \in 0 .. MaxFaults /\ file \in Seq(Kinds)
      /\ temps \subseteq {"compressed", "rgb", "yuv"}
      /\ place \in Places /\ held \subseteq Blocks /\ rgb = held
      /\ f \in Blocks \cup {Null}
      /\ link \in [Blocks -> Blocks \cup {Null, Junk}]
  BY DecoderAssumption DEF DInv, DecoderTypeOK
<1>m. ASSUME NoMemory PROVE faults' \in 0 .. MaxFaults
  BY <1>m, <1>0 DEF NoMemory
<1>g. ASSUME NEW F, F = faults PROVE F \in 0 .. MaxFaults
  BY <1>g, <1>0
<1>1. CASE Call
  <2>1. /\ UNCHANGED <<pool, f, held, rgb, file, cursor, place>>
        /\ pc = "out" /\ f = Null /\ f' = Null /\ faults' \in 0 .. MaxFaults
        /\ \/ pc' = "peek" /\ temps' = temps \cup {"compressed"}
           \/ pc' = "out" /\ temps' = {}
    BY <1>1, <1>0, <1>m DEF Call, Malloc, DInv, HoldsByPc
  <2>2. Whole' /\ Owned' /\ rgb' = held'
    BY <2>1, OwnedUnchanged
  <2>3. DecoderTypeOK'
    BY <2>1, <1>0, <2>2, WholeTyped DEF DInv, DecoderTypeOK, pool
  <2> QED
    BY <2>1, <2>2, <2>3, <1>0 DEF DInv, HoldsByPc, PlaceByPc, Lost
<1>2. CASE Peek
  <2>1. /\ UNCHANGED <<pool, f, held, rgb, file, faults>>
        /\ f = Null /\ cursor' \in 0 .. Len(file) /\ place' \in Places
        /\ \/ pc' = "out" /\ temps' = {}
           \/ pc' \in {"peek", "skip", "data"} /\ UNCHANGED temps
        /\ pc' \in {"skip", "data"} /\ ~Lost' => cursor' < Len(file)
    <3>0. UNCHANGED <<pool, held, rgb, file, faults>> /\ f = Null
      BY <1>2 DEF Peek, DInv, HoldsByPc
    <3>1. CASE ReturnNull /\ UNCHANGED <<cursor, place>>
      BY <3>0, <3>1, <1>0
    <3>2. CASE /\ place' = "regained" /\ cursor' \in 0 .. Len(file)
               /\ UNCHANGED <<pc, temps, f>>
      <4>1. pc' = "peek" /\ temps' = temps /\ f' = f /\ place' \in Places
        BY <1>2, <3>2 DEF Peek, Places
      <4> QED
        BY <4>1, <3>0, <3>2, <1>0
    <3>4. CASE /\ Lost /\ pc' \in {"skip", "data"}
               /\ UNCHANGED <<cursor, place, temps, f>>
      <4>1. Lost'
        BY <3>4 DEF Lost
      <4> QED
        BY <4>1, <3>4, <3>0, <1>0
    <3>3. CASE /\ ~Lost /\ cursor < Len(file)
               /\ pc' = IF Here = "audio" THEN "skip" ELSE "data"
               /\ UNCHANGED <<cursor, place, temps, f>>
      <4>1. pc' \in {"skip", "data"}
        BY <3>3
      <4> QED
        BY <4>1, <3>3, <3>0, <1>0
    <3> QED
      BY <1>2, <3>1, <3>2, <3>3, <3>4 DEF Peek
  <2>2. Whole' /\ Owned' /\ rgb' = held'
    BY <2>1, OwnedUnchanged
  <2>3. DecoderTypeOK'
    BY <2>1, <1>0 DEF DInv, DecoderTypeOK, pool
  <2> QED
    BY <2>1, <2>2, <2>3, <1>0 DEF DInv, HoldsByPc, PlaceByPc, Lost
<1>3. CASE Skip
  <2>1. /\ UNCHANGED <<pool, f, held, rgb, file, place, temps, faults>>
        /\ f = Null /\ pc' = "peek" /\ cursor' \in 0 .. Len(file)
    BY <1>3, <1>0 DEF Skip, DInv, HoldsByPc, PlaceByPc, Lost
  <2>2. Whole' /\ Owned' /\ rgb' = held'
    BY <2>1, OwnedUnchanged
  <2>3. DecoderTypeOK'
    BY <2>1, <1>0 DEF DInv, DecoderTypeOK, pool
  <2> QED
    BY <2>1, <2>2, <2>3, <1>0 DEF DInv, HoldsByPc, PlaceByPc, Lost
<1>4. CASE ReadData
  <2>1. /\ UNCHANGED <<pool, held, rgb, file>> /\ f = Null /\ f' = Null
        /\ cursor' \in 0 .. Len(file) /\ place' \in Places
        /\ faults' \in 0 .. MaxFaults
        /\ \/ pc' = "acquire" /\ UNCHANGED temps
           \/ pc' = "out" /\ temps' = {}
    <3>1. f = Null /\ pc = "data" /\ (~Lost => cursor < Len(file))
      BY <1>4 DEF ReadData, DInv, HoldsByPc, PlaceByPc, Lost
    <3>2. UNCHANGED <<pool, held, rgb, file>>
      BY <1>4 DEF ReadData
    <3>3. \/ pc' = "acquire" /\ temps' = temps /\ f' = f
          \/ pc' = "out" /\ temps' = {} /\ f' = Null
      BY <1>4 DEF ReadData, ReadFrame, ReadGarbage
    <3>4. /\ cursor' \in {cursor, cursor + 1, Len(file)} /\ (Lost => cursor' = cursor)
          /\ place' \in {place, "lost"}
      BY <1>4 DEF ReadData, ReadFrame, ReadGarbage
    <3>5. faults' = faults \/ NoMemory
      BY <1>4 DEF ReadData, ReadFrame, ReadGarbage
    <3>6. cursor' \in 0 .. Len(file)
      BY <3>1, <3>4, <1>0
    <3>7. place' \in Places
      BY <3>4, <1>0 DEF Places
    <3>8. faults' \in 0 .. MaxFaults
      BY <3>5, <1>0, <1>m
    <3> QED
      BY <3>1, <3>2, <3>3, <3>6, <3>7, <3>8
  <2>2. Whole' /\ Owned' /\ rgb' = held'
    BY <2>1, OwnedUnchanged
  <2>3. DecoderTypeOK'
    BY <2>1, <1>0 DEF DInv, DecoderTypeOK, pool
  <2> QED
    BY <2>1, <2>2, <2>3, <1>0 DEF DInv, HoldsByPc, PlaceByPc, Lost
<1>5. CASE AcquireFrame
  <2>1. /\ Acquire(free_head) /\ f = Null /\ f' = free_head /\ pc' = "rgb"
        /\ UNCHANGED <<file, cursor, place, temps, held, rgb, faults>>
    BY <1>5 DEF AcquireFrame, DInv, HoldsByPc
  <2>2. /\ Whole'
        /\ free_head = Null => UNCHANGED pool /\ FreeBlocks = {}
        /\ free_head # Null => free_head \in FreeBlocks
                               /\ FreeBlocks' = FreeBlocks \ {free_head}
    BY <2>1, AcquireWhole DEF DInv
  <2>3. Owned' /\ (f' = Null => held = Blocks)
    <3>1. CASE free_head = Null
      BY <2>1, <2>2, <3>1, PoolUnchanged DEF DInv, Owned, InHand
    <3>2. CASE free_head # Null
      BY <2>1, <2>2, <3>2 DEF DInv, Owned, InHand
    <3> QED
      BY <3>1, <3>2
  <2>4. free_head \in Blocks \cup {Null}
    BY DEF DInv, DecoderTypeOK
  <2>5. UNCHANGED link
    BY <2>1 DEF Acquire, pool
  <2>6. free_head' \in Blocks \cup {Null} /\ free_count' \in 0 .. BlockCount
    BY <2>2, WholeTypedNext
  <2>7. DecoderTypeOK'
    BY <2>1, <2>4, <2>5, <2>6, <1>0 DEF DecoderTypeOK
  <2> QED
    BY <2>1, <2>2, <2>3, <2>7, <1>0 DEF DInv, HoldsByPc, PlaceByPc, Lost
<1>6. CASE MallocRgb
  <2>0. UNCHANGED <<file, cursor, place, held, rgb>> /\ pc = "rgb"
    BY <1>6 DEF MallocRgb
  <2>1. CASE GiveBack /\ NoMemory
    <3>1. /\ Whole' /\ Owned' /\ rgb' = held' /\ HoldsByPc'
          /\ link' \in [Blocks -> Blocks \cup {Null, Junk}]
          /\ f' \in Blocks \cup {Null} /\ pc' \in {"out", "crashed"}
          /\ temps' \subseteq {"compressed", "rgb", "yuv"}
      BY <2>0, <2>1, GiveBackOwned
    <3>2. free_head' \in Blocks \cup {Null} /\ free_count' \in 0 .. BlockCount
      BY <3>1, WholeTypedNext
    <3>3. DecoderTypeOK'
      BY <2>0, <2>1, <3>1, <3>2, <1>0, <1>m DEF DecoderTypeOK
    <3> QED
      BY <2>0, <3>1, <3>3, <1>0 DEF DInv, PlaceByPc, Lost
  <2>2. CASE temps' = temps \cup {"rgb"} /\ pc' = "init" /\ UNCHANGED <<faults, f, pool>>
    <3>1. Whole' /\ Owned' /\ rgb' = held'
      BY <2>0, <2>2, OwnedUnchanged
    <3>2. DecoderTypeOK'
      BY <2>0, <2>2, <1>0 DEF DInv, DecoderTypeOK, pool
    <3> QED
      BY <2>0, <2>2, <3>1, <3>2, <1>0 DEF DInv, HoldsByPc, PlaceByPc, Lost
  <2> QED
    BY <1>6, <2>1, <2>2 DEF MallocRgb, Malloc
<1>7. CASE InitFrame
  <2>0. UNCHANGED <<file, cursor, place, temps, f, held, rgb, faults>> /\ pc = "init"
    BY <1>7 DEF InitFrame
  <2>1. CASE f = Null
    <3>1. pc' = "crashed" /\ UNCHANGED pool
      BY <1>7, <2>1 DEF InitFrame
    <3>2. Whole' /\ Owned' /\ rgb' = held'
      BY <2>0, <3>1, OwnedUnchanged
    <3>3. DecoderTypeOK'
      BY <2>0, <3>1, <1>0 DEF DInv, DecoderTypeOK, pool
    <3> QED
      BY <2>0, <2>1, <3>1, <3>2, <3>3, <1>0 DEF DInv, HoldsByPc, PlaceByPc, Lost
  <2>2. CASE f # Null
    <3>1. pc' = "yuv" /\ Overwrite(f)
      BY <1>7, <2>2 DEF InitFrame
    <3>2. f \in Blocks /\ f \notin FreeBlocks
      BY <2>2 DEF DInv, Owned, InHand, DecoderTypeOK
    <3>3. Whole' /\ FreeBlocks' = FreeBlocks
      BY <3>1, <3>2, LinkTyped, OverwriteWhole DEF DInv
    <3>4. Owned'
      BY <2>0, <3>3 DEF DInv, Owned, InHand
    <3>5. link' \in [Blocks -> Blocks \cup {Null, Junk}]
      BY <3>1, <3>2, <1>0 DEF Overwrite
    <3>6. free_head' \in Blocks \cup {Null} /\ free_count' \in 0 .. BlockCount
      BY <3>3, WholeTypedNext
    <3>7. DecoderTypeOK'
      BY <2>0, <3>1, <3>5, <3>6, <1>0 DEF DecoderTypeOK
    <3> QED
      BY <2>0, <2>2, <3>1, <3>3, <3>4, <3>7, <1>0 DEF DInv, HoldsByPc, PlaceByPc, Lost
  <2> QED
    BY <2>1, <2>2
<1>8. CASE MallocYuv
  <2>0. UNCHANGED <<file, cursor, place, held, rgb>> /\ pc = "yuv"
    BY <1>8 DEF MallocYuv
  <2>1. CASE GiveBack /\ NoMemory
    <3>1. /\ Whole' /\ Owned' /\ rgb' = held' /\ HoldsByPc'
          /\ link' \in [Blocks -> Blocks \cup {Null, Junk}]
          /\ f' \in Blocks \cup {Null} /\ pc' \in {"out", "crashed"}
          /\ temps' \subseteq {"compressed", "rgb", "yuv"}
      BY <2>0, <2>1, GiveBackOwned
    <3>2. free_head' \in Blocks \cup {Null} /\ free_count' \in 0 .. BlockCount
      BY <3>1, WholeTypedNext
    <3>3. DecoderTypeOK'
      BY <2>0, <2>1, <3>1, <3>2, <1>0, <1>m DEF DecoderTypeOK
    <3> QED
      BY <2>0, <3>1, <3>3, <1>0 DEF DInv, PlaceByPc, Lost
  <2>2. CASE temps' = temps \cup {"yuv"} /\ pc' = "decode" /\ UNCHANGED <<faults, f, pool>>
    <3>1. Whole' /\ Owned' /\ rgb' = held'
      BY <2>0, <2>2, OwnedUnchanged
    <3>2. DecoderTypeOK'
      BY <2>0, <2>2, <1>0 DEF DInv, DecoderTypeOK, pool
    <3> QED
      BY <2>0, <2>2, <3>1, <3>2, <1>0 DEF DInv, HoldsByPc, PlaceByPc, Lost
  <2> QED
    BY <1>8, <2>1, <2>2 DEF MallocYuv, Malloc
<1>9. CASE DecodePlanes
  <2>0. UNCHANGED <<file, cursor, place, faults>> /\ pc = "decode" /\ f # Null
    BY <1>9 DEF DecodePlanes, DInv, HoldsByPc
  <2>1. CASE GiveBack /\ UNCHANGED <<held, rgb>>
    <3>1. /\ Whole' /\ Owned' /\ rgb' = held' /\ HoldsByPc'
          /\ link' \in [Blocks -> Blocks \cup {Null, Junk}]
          /\ f' \in Blocks \cup {Null} /\ pc' \in {"out", "crashed"}
          /\ temps' \subseteq {"compressed", "rgb", "yuv"}
      BY <2>0, <2>1, GiveBackOwned
    <3>2. free_head' \in Blocks \cup {Null} /\ free_count' \in 0 .. BlockCount
      BY <3>1, WholeTypedNext
    <3>3. DecoderTypeOK'
      BY <2>0, <2>1, <3>1, <3>2, <1>0 DEF DecoderTypeOK
    <3> QED
      BY <2>0, <3>1, <3>3, <1>0 DEF DInv, PlaceByPc, Lost
  <2>2. CASE Deliver
    <3>1. Whole' /\ FreeBlocks' = FreeBlocks
      BY <2>2, PoolUnchanged DEF Deliver
    <3>2. Owned' /\ rgb' = held'
      BY <2>0, <2>2, <3>1, <1>0 DEF Deliver, DInv, Owned, InHand, Blocks
    <3>3. DecoderTypeOK'
      BY <2>0, <2>2, <1>0 DEF Deliver, DInv, DecoderTypeOK, pool
    <3> QED
      BY <2>0, <2>2, <3>1, <3>2, <3>3, <1>0 DEF Deliver, DInv, HoldsByPc, PlaceByPc, Lost
  <2> QED
    BY <1>9, <2>1, <2>2 DEF DecodePlanes
<1>10. CASE Close
  <2>1. /\ UNCHANGED <<pool, file, cursor, place, temps, f, held, rgb, faults>>
        /\ pc' = "closed" /\ f = Null /\ temps = {}
    BY <1>10 DEF Close, DInv, HoldsByPc
  <2>2. Whole' /\ Owned' /\ rgb' = held'
    BY <2>1, OwnedUnchanged
  <2>3. DecoderTypeOK'
    BY <2>1, <1>0 DEF DInv, DecoderTypeOK, pool
  <2> QED
    BY <2>1, <2>2, <2>3, <1>0 DEF DInv, HoldsByPc, PlaceByPc, Lost
<1>11. CASE \E b \in Blocks : ReleaseFrame(b)
  <2>1. PICK b \in Blocks : ReleaseFrame(b)
    BY <1>11
  <2>2. /\ UNCHANGED <<file, cursor, place, pc, temps, f, faults>>
        /\ pc = "out" /\ f = Null /\ temps = {} /\ b \in held
        /\ held' = held \ {b} /\ rgb' = rgb \ {b} /\ Release(b)
    BY <2>1 DEF ReleaseFrame, DInv, HoldsByPc
  <2>3. b \notin FreeBlocks
    BY <2>2 DEF DInv, Owned
  <2>4. Whole' /\ FreeBlocks' = FreeBlocks \cup {b}
    BY <2>2, <2>3, LinkTyped, ReleaseWhole DEF DInv
  <2>5. Owned'
    BY <2>2, <2>3, <2>4 DEF DInv, Owned, InHand
  <2>6. link' \in [Blocks -> Blocks \cup {Null, Junk}]
    BY <2>2 DEF Release, DInv, DecoderTypeOK
  <2>7. free_head' \in Blocks \cup {Null} /\ free_count' \in 0 .. BlockCount
    BY <2>4, WholeTypedNext
  <2>8. DecoderTypeOK'
    BY <2>2, <2>6, <2>7, <1>0 DEF DInv, DecoderTypeOK
  <2> QED
    BY <2>2, <2>4, <2>5, <2>8, <1>0 DEF DInv, HoldsByPc, PlaceByPc, Lost
<1>12. CASE UNCHANGED vars
  <2>1. Whole' /\ Owned' /\ rgb' = held'
    BY <1>12, OwnedUnchanged DEF vars, dvars
  <2>2. DecoderTypeOK'
    BY <1>12, <1>0 DEF DInv, DecoderTypeOK, vars, dvars, pool
  <2> QED
    BY <1>12, <2>1, <2>2, <1>0 DEF DInv, HoldsByPc, PlaceByPc, Lost, vars, dvars
<1> QED
  BY <1>1, <1>2, <1>3, <1>4, <1>5, <1>6, <1>7, <1>8, <1>9, <1>10, <1>11, <1>12 DEF Next

(* The inductive invariant of the decoder and its pool.                    *)
THEOREM DInvariant == Spec => []DInv
  BY DInvInit, DInvNext, PTL DEF Spec

(* Every variable of the decoder keeps its type.                           *)
THEOREM DecoderTypeCorrect == Spec => []DecoderTypeOK
<1>1. DInv => DecoderTypeOK
  BY DEF DInv
<1> QED
  BY <1>1, DInvariant, PTL

(* decoder.c and pool.c: every block is free, in hand or with the caller.  *)
THEOREM OneOwner == Spec => []BlocksHaveOneOwner
<1>1. DInv => BlocksHaveOneOwner
  BY DEF DInv, Owned, Whole, BlocksHaveOneOwner
<1> QED
  BY <1>1, DInvariant, PTL

(* decoder_next_frame frees on every path what it does not return.         *)
THEOREM NothingLeaks == Spec => []NoBufferLeaks
<1>1. DInv => NoBufferLeaks
  BY DEF DInv, HoldsByPc, NoBufferLeaks
<1> QED
  BY <1>1, DInvariant, PTL

(* Failed calls use up no frame of the pool.                               *)
THEOREM CrashOnlyWhenAllHeld == Spec => []CrashNeedsEveryFrameHeld
<1>1. DInv => CrashNeedsEveryFrameHeld
  BY DEF DInv, HoldsByPc, CrashNeedsEveryFrameHeld
<1> QED
  BY <1>1, DInvariant, PTL

-----------------------------------------------------------------------------
(* What has been delivered.                                                *)

\* decoder_next_frame has read the frame at the cursor and works on it.
Working == pc \in {"acquire", "rgb", "init", "yuv", "decode"}

\* The frames of the file that decoder_next_frame is done with.
Passed == IF Working THEN cursor - 1 ELSE cursor

\* Nothing has failed yet.
Undisturbed == place = "kept" /\ faults = 0

\* The inductive invariant, beside DInv.
OInv ==
    /\ file \in Files /\ delivered \in Seq(Nat)
    /\ \A i \in 1 .. Len(delivered) - 1 : delivered[i] < delivered[i + 1]
    /\ place = "kept" => \A i \in 1 .. Len(delivered) : delivered[i] \in VideoUpTo(Passed)
    /\ Working /\ ~Lost => cursor >= 1 /\ file[cursor] \in {"video", "garbled"}
    /\ pc = "skip" /\ ~Lost => file[cursor + 1] # "video"
    /\ Undisturbed /\ pc # "crashed" => VideoUpTo(Passed) \subseteq Delivered

LEMMA OInvInit == Init => OInv
  BY DecoderAssumption DEF Init, OInv, Passed, Working, VideoUpTo, Delivered

(* A step that keeps its place in the file and delivers nothing keeps the  *)
(* invariant, if it gives a frame up only for want of memory.              *)
LEMMA SamePlace ==
    ASSUME DInv, OInv, UNCHANGED <<file, cursor, place, delivered>>,
           pc # "crashed", pc' \notin {"skip", "data"},
           faults' = faults \/ faults' = faults + 1,
           Working' => Working,
           Working /\ ~Working' => faults' = faults + 1 \/ pc' = "crashed"
    PROVE  OInv'
<1>0. /\ cursor \in 0 .. Len(file) /\ faults \in Nat /\ Len(file) \in Nat
      /\ DecoderAssumption
  BY DecoderAssumption DEF DInv, DecoderTypeOK
<1>1. Passed' = Passed \/ (Passed' = Passed + 1 /\ Working /\ ~Working')
  BY <1>0 DEF Passed
<1>2. Passed \in Int /\ Passed' \in Int
  BY <1>0 DEF Passed
<1>3. VideoUpTo(Passed) \subseteq VideoUpTo(Passed)'
  BY <1>1, <1>2 DEF VideoUpTo
<1>4. (Undisturbed' => Undisturbed) /\ (Lost' <=> Lost)
  BY <1>0 DEF Undisturbed, Lost
<1>5. ASSUME Undisturbed', pc' # "crashed"
      PROVE  VideoUpTo(Passed)' \subseteq Delivered'
  <2>1. faults' = faults
    BY <1>0, <1>5 DEF Undisturbed
  <2>2. Working' <=> Working
    BY <2>1, <1>0, <1>5
  <2> QED
    BY <2>2, <1>4, <1>5 DEF OInv, Passed, VideoUpTo, Delivered
<1> QED
  BY <1>3, <1>4, <1>5 DEF OInv

(* A step past the next frame that was no video frame.                     *)
LEMMA Onward ==
    ASSUME DInv, OInv, UNCHANGED <<file, delivered, faults, place>>,
           ~Working, ~Working', pc # "crashed", pc' \notin {"skip", "data"},
           cursor' \in cursor + 1 .. Len(file),
           ~Lost => cursor' = cursor + 1 /\ file[cursor'] # "video"
    PROVE  OInv'
<1>0. cursor \in Nat /\ cursor' \in Nat /\ Len(file) \in Nat /\ cursor < cursor'
  BY DEF DInv, DecoderTypeOK
<1>1. Passed = cursor /\ Passed' = cursor'
  BY DEF Passed
<1>2. VideoUpTo(Passed) \subseteq VideoUpTo(Passed)'
  BY <1>0, <1>1 DEF VideoUpTo
<1>3. ASSUME Undisturbed' PROVE VideoUpTo(Passed)' \subseteq Delivered'
  <2>1. Undisturbed /\ ~Lost
    BY <1>3 DEF Undisturbed, Lost
  <2>2. VideoUpTo(Passed)' = VideoUpTo(Passed)
    BY <2>1, <1>0, <1>1 DEF VideoUpTo
  <2> QED
    BY <2>1, <2>2 DEF OInv, Delivered
<1> QED
  BY <1>2, <1>3 DEF OInv

(* Once the place was lost, nothing more is delivered that counts.         *)
LEMMA Astray ==
    ASSUME DInv, OInv, UNCHANGED <<file, delivered>>, place' # "kept",
           Lost' \/ (~Working' /\ pc' # "skip")
    PROVE  OInv'
  BY DEF OInv, Undisturbed

LEMMA OInvNext == DInv /\ OInv /\ [Next]_vars => OInv'
<1> SUFFICES ASSUME DInv, OInv, [Next]_vars PROVE OInv'
  OBVIOUS
<1> USE DEF ReturnNull
<1>0. /\ cursor \in 0 .. Len(file) /\ Len(file) \in Nat /\ faults \in Nat
      /\ place \in Places /\ file \in Files
  BY DecoderAssumption DEF DInv, DecoderTypeOK, OInv, Places
<1>c. \A i \in 1 .. Len(file) : file[i] = "cut" => i = Len(file)
  BY <1>0, DecoderAssumption
<1>1. CASE Call
  BY <1>1, SamePlace DEF Call, Malloc, NoMemory, Working
<1>2. CASE Peek
  <2>0. pc = "peek" /\ UNCHANGED <<pool, file, held, rgb, delivered, faults>>
    BY <1>2 DEF Peek
  <2>1. CASE ReturnNull /\ UNCHANGED <<cursor, place>>
    BY <2>0, <2>1, SamePlace DEF Working
  <2>2. CASE Lost /\ (UNCHANGED place \/ (place' = "regained" /\ UNCHANGED <<pc, temps, f>>))
    <3>1. place' # "kept" /\ (Lost' \/ pc' = "peek")
      BY <2>0, <2>2 DEF Lost
    <3> QED
      BY <2>0, <3>1, Astray DEF Working
  <2>3. CASE /\ ~Lost /\ cursor < Len(file)
             /\ pc' = IF Here = "audio" THEN "skip" ELSE "data"
             /\ UNCHANGED <<cursor, place, temps, f>>
    <3>1. ~Working /\ ~Working' /\ Passed' = Passed /\ (Lost' <=> Lost)
      BY <2>0, <2>3 DEF Working, Passed, Lost
    <3>2. pc' = "skip" => file[cursor + 1] # "video"
      BY <2>3 DEF Here
    <3>3. Undisturbed' <=> Undisturbed
      BY <2>0, <2>3 DEF Undisturbed
    <3>4. Delivered' = Delivered /\ VideoUpTo(Passed)' = VideoUpTo(Passed)
      BY <2>0, <3>1 DEF Delivered, VideoUpTo
    <3> QED
      BY <2>0, <2>3, <3>1, <3>2, <3>3, <3>4 DEF OInv
  <2> QED
    BY <1>2, <2>1, <2>2, <2>3 DEF Peek
<1>3. CASE Skip
  <2>1. /\ pc = "skip" /\ pc' = "peek" /\ cursor' = IF Lost THEN cursor ELSE cursor + 1
        /\ UNCHANGED <<file, place, delivered, faults>>
    BY <1>3 DEF Skip
  <2>2. CASE Lost
    <3>1. place' # "kept"
      BY <2>1, <2>2 DEF Lost
    <3> QED
      BY <2>1, <3>1, Astray DEF Working
  <2>3. CASE ~Lost
    <3>1. cursor < Len(file) /\ file[cursor + 1] # "video"
      BY <2>1, <2>3, <1>0 DEF DInv, PlaceByPc, OInv
    <3>2. cursor' \in cursor + 1 .. Len(file)
      BY <2>1, <2>3, <3>1, <1>0
    <3> QED
      BY <2>1, <2>3, <3>1, <3>2, Onward DEF Working
  <2> QED
    BY <2>2, <2>3
<1>4. CASE ReadData /\ Lost
  <2>1. /\ place' = place /\ UNCHANGED <<file, delivered>>
        /\ place' # "kept" /\ Lost'
    BY <1>4 DEF ReadData, ReadGarbage, Lost
  <2> QED
    BY <2>1, Astray
<1>4a. CASE ReadData /\ ~Lost
  <2>0. /\ pc = "data" /\ ~Lost /\ cursor < Len(file) /\ ~Working /\ ReadFrame
        /\ UNCHANGED <<pool, file, held, rgb, delivered>>
    BY <1>4a DEF ReadData, DInv, PlaceByPc, Working
  <2>1. CASE /\ Here \in {"video", "garbled"}
             /\ cursor' = cursor + 1 /\ pc' = "acquire"
             /\ UNCHANGED <<place, temps, f, faults>>
    <3>1. Working' /\ cursor' >= 1 /\ file'[cursor'] \in {"video", "garbled"}
      BY <2>0, <2>1, <1>0 DEF Working, Here
    <3>2. Passed' = Passed
      BY <2>0, <2>1, <3>1, <1>0 DEF Passed
    <3>3. Undisturbed' <=> Undisturbed
      BY <2>0, <2>1 DEF Undisturbed
    <3>4. Delivered' = Delivered /\ VideoUpTo(Passed)' = VideoUpTo(Passed)
      BY <2>0, <3>2 DEF Delivered, VideoUpTo
    <3> QED
      BY <2>0, <2>1, <3>1, <3>3, <3>4 DEF OInv
  <2>2. CASE /\ Here = "cut" /\ cursor' = Len(file)
             /\ ReturnNull /\ UNCHANGED <<place, faults>>
    <3>1. cursor' = cursor + 1 /\ file[cursor'] # "video"
      BY <2>0, <2>2, <1>0, <1>c DEF Here
    <3>2. cursor' \in cursor + 1 .. Len(file)
      BY <2>0, <2>2, <3>1, <1>0
    <3> QED
      BY <2>0, <2>2, <3>1, <3>2, Onward DEF Working
  <2>3. CASE place' = "lost"
    BY <2>0, <2>3, Astray DEF Lost
  <2> QED
    BY <2>0, <2>1, <2>2, <2>3 DEF ReadFrame
<1>5. CASE AcquireFrame
  BY <1>5, SamePlace DEF AcquireFrame, Working
<1>6. CASE MallocRgb
  <2>1. /\ UNCHANGED <<file, cursor, place, delivered>> /\ pc = "rgb"
        /\ \/ pc' = "init" /\ faults' = faults
           \/ pc' = "crashed" /\ faults' = faults + 1
           \/ pc' = "out" /\ faults' = faults + 1
    BY <1>6 DEF MallocRgb, Malloc, NoMemory, GiveBack
  <2> QED
    BY <2>1, SamePlace DEF Working
<1>7. CASE InitFrame
  <2>1. /\ UNCHANGED <<file, cursor, place, delivered, faults>> /\ pc = "init"
        /\ pc' \in {"crashed", "yuv"}
    BY <1>7 DEF InitFrame
  <2> QED
    BY <2>1, SamePlace DEF Working
<1>8. CASE MallocYuv
  <2>1. /\ UNCHANGED <<file, cursor, place, delivered>> /\ pc = "yuv"
        /\ \/ pc' = "decode" /\ faults' = faults
           \/ pc' = "crashed" /\ faults' = faults + 1
           \/ pc' = "out" /\ faults' = faults + 1
    BY <1>8 DEF MallocYuv, Malloc, NoMemory, GiveBack
  <2> QED
    BY <2>1, SamePlace DEF Working
<1>9. CASE DecodePlanes
  <2>0. /\ pc = "decode" /\ Working /\ UNCHANGED <<file, cursor, place, faults>>
    BY <1>9 DEF DecodePlanes, Working
  <2>1. f # Null
    BY <2>0 DEF DInv, HoldsByPc
  <2>2. pc' = "out" /\ ~Working' /\ Passed' = cursor
    BY <1>9, <2>0, <2>1 DEF DecodePlanes, Deliver, GiveBack, Working, Passed
  <2>3. Undisturbed' <=> Undisturbed
    BY <2>0 DEF Undisturbed
  <2>6. CASE place # "kept"
    <3>1. place' # "kept" /\ delivered' = delivered
      BY <1>9, <2>0, <2>6 DEF DecodePlanes, Deliver
    <3> QED
      BY <2>0, <2>2, <3>1, Astray
  <2> SUFFICES ASSUME place = "kept" PROVE OInv'
    BY <2>6
  <2>7. /\ ~Lost /\ ~Lost' /\ Passed = cursor - 1
        /\ cursor \in 1 .. Len(file) /\ file[cursor] \in {"video", "garbled"}
    BY <2>0, <1>0 DEF Lost, Working, Passed, OInv
  <2>4. CASE file[cursor] = "garbled" /\ delivered' = delivered
    <3>1. VideoUpTo(Passed)' = VideoUpTo(Passed)
      BY <2>0, <2>2, <2>4, <2>7 DEF VideoUpTo
    <3> QED
      BY <2>0, <2>2, <2>3, <2>4, <3>1 DEF OInv, Delivered
  <2>5. CASE file[cursor] = "video" /\ delivered' = Append(delivered, cursor)
    <3>1. VideoUpTo(Passed)' = VideoUpTo(Passed) \cup {cursor}
      BY <2>0, <2>2, <2>5, <2>7 DEF VideoUpTo
    <3>2. /\ delivered' \in Seq(Nat) /\ Len(delivered') = Len(delivered) + 1
          /\ \A i \in 1 .. Len(delivered) : delivered'[i] = delivered[i]
          /\ delivered'[Len(delivered')] = cursor /\ Len(delivered) \in Nat
      BY <2>0, <2>5, <2>7 DEF OInv
    <3>3. Delivered \cup {cursor} \subseteq Delivered'
      BY <3>2 DEF Delivered
    <3>4. \A i \in 1 .. Len(delivered) : delivered[i] \in Nat /\ delivered[i] < cursor
      BY <2>0, <2>7 DEF OInv, VideoUpTo
    <3>5. \A i \in 1 .. Len(delivered') - 1 : delivered'[i] < delivered'[i + 1]
      <4> SUFFICES ASSUME NEW i \in 1 .. Len(delivered') - 1
                   PROVE  delivered'[i] < delivered'[i + 1]
        OBVIOUS
      <4>1. CASE i = Len(delivered)
        BY <4>1, <3>2, <3>4
      <4>2. CASE i < Len(delivered)
        <5>1. i \in 1 .. Len(delivered) - 1 /\ i + 1 \in 1 .. Len(delivered)
          BY <4>2, <3>2
        <5> QED
          BY <5>1, <3>2 DEF OInv
      <4> QED
        BY <4>1, <4>2, <3>2
    <3>6. \A i \in 1 .. Len(delivered') : delivered'[i] \in VideoUpTo(Passed)'
      BY <3>1, <3>2, SMTT(30) DEF OInv
    <3>7. ASSUME Undisturbed' PROVE VideoUpTo(Passed)' \subseteq Delivered'
      BY <2>0, <2>3, <3>1, <3>3, <3>7 DEF OInv
    <3> QED
      BY <2>0, <2>2, <3>2, <3>5, <3>6, <3>7 DEF OInv
  <2> QED
    BY <1>9, <2>0, <2>4, <2>5, <2>7 DEF DecodePlanes, Deliver
<1>10. CASE Close
  BY <1>10, SamePlace DEF Close, Working
<1>11. ASSUME NEW b \in Blocks, ReleaseFrame(b) PROVE OInv'
  BY <1>11, SamePlace DEF ReleaseFrame, Working
<1>12. CASE UNCHANGED vars
  BY <1>12 DEF vars, dvars, OInv, Lost, Passed, Working, Undisturbed, VideoUpTo, Delivered
<1> QED
  BY <1>1, <1>2, <1>3, <1>4, <1>4a, <1>5, <1>6, <1>7, <1>8, <1>9, <1>10, <1>11, <1>12 DEF Next

(* decoder_next_frame, for every file, caller and number of faults: as     *)
(* long as the reader keeps its place, the caller gets the video frames in *)
(* the order of the file, each once, and without a fault every one of      *)
(* them.                                                                   *)
THEOREM InOrder == Spec => []DeliversInOrder
<1>1. Spec => [](DInv /\ OInv)
  BY DInvInit, DInvNext, OInvInit, OInvNext, PTL DEF Spec
<1>2. DInv /\ OInv => DeliversInOrder
  <2> SUFFICES ASSUME DInv, OInv PROVE DeliversInOrder
    OBVIOUS
  <2>1. cursor \in Nat /\ Len(file) \in Nat
    BY DEF DInv, DecoderTypeOK
  <2>2. VideoUpTo(Passed) \subseteq VideoUpTo(cursor)
    BY <2>1 DEF VideoUpTo, Passed
  <2>3. place = "kept" => Delivered \subseteq VideoUpTo(cursor)
    BY <2>2 DEF OInv, Delivered
  <2>4. ASSUME pc = "out", faults = 0, place = "kept"
        PROVE  VideoUpTo(cursor) \subseteq Delivered
    <3>1. Undisturbed /\ Passed = cursor
      BY <2>4 DEF Undisturbed, Passed, Working
    <3> QED
      BY <2>4, <3>1 DEF OInv
  <2> QED
    BY <2>3, <2>4 DEF DeliversInOrder, OInv
<1> QED
  BY <1>1, <1>2, PTL

(* From the beginning of a frame, and with memory enough, a call that      *)
(* returns no frame has come to the end of the file or to a frame that is  *)
(* damaged or too large, for every file and every caller.                  *)
THEOREM NullIsMeant == Spec => NullMeansEndOrDamage
<1>1. DInv /\ OInv /\ [Next]_vars
      => [pc # "out" /\ pc' = "out" /\ held' = held /\ faults' = faults => Excused]_vars
  <2> SUFFICES ASSUME DInv, OInv, [Next]_vars, pc # "out", pc' = "out",
                      held' = held, faults' = faults, ~Lost
               PROVE  Excused
    BY DEF Excused
  <2>1. faults \in Nat /\ cursor \in 0 .. Len(file) /\ Len(file) \in Nat
    BY DecoderAssumption DEF DInv, DecoderTypeOK
  <2>2. ~NoMemory
    BY <2>1 DEF NoMemory
  <2>3. CASE Peek
    BY <2>3 DEF Peek, Excused
  <2>4. CASE ReadData
    <3>1. ReadFrame /\ pc = "data" /\ cursor < Len(file)
      BY <2>4 DEF ReadData, DInv, PlaceByPc
    <3>2. cursor' = Len(file) \/ (Here = "large" /\ cursor' = cursor)
      BY <2>2, <3>1 DEF ReadFrame
    <3>3. cursor + 1 \in 1 .. Len(file)
      BY <2>1, <3>1
    <3> QED
      BY <2>1, <3>2, <3>3 DEF Here, Excused
  <2>5. CASE DecodePlanes
    <3>1. pc = "decode" /\ Working /\ cursor' = cursor /\ f \in Blocks /\ f \notin held
      BY <2>5 DEF DecodePlanes, Working, DInv, HoldsByPc, Owned, DecoderTypeOK
    <3>2. ~Deliver
      BY <3>1 DEF Deliver
    <3>3. file[cursor] = "garbled" /\ cursor \in 1 .. Len(file)
      BY <2>1, <2>5, <3>1, <3>2 DEF DecodePlanes, OInv
    <3> QED
      BY <3>1, <3>3 DEF Excused
  <2>6. ~Call /\ ~Skip /\ ~AcquireFrame /\ ~MallocRgb /\ ~InitFrame /\ ~MallocYuv /\ ~Close
    BY <2>2 DEF Call, Skip, AcquireFrame, MallocRgb, InitFrame, MallocYuv, Close, Malloc
  <2>7. ~(\E b \in Blocks : ReleaseFrame(b)) /\ ~UNCHANGED vars
    BY DEF ReleaseFrame, vars, dvars
  <2> QED
    BY <2>3, <2>4, <2>5, <2>6, <2>7 DEF Next
<1>2. Spec => []OInv
  BY OInvInit, OInvNext, DInvariant, PTL DEF Spec
<1> QED
  BY <1>1, <1>2, DInvariant, PTL DEF Spec, NullMeansEndOrDamage
=============================================================================
