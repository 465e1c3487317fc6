---------------------------- MODULE Entropy_proofs ----------------------------
(***************************************************************************)
(* Results about entropy.c, for every block size, width of the fields      *)
(* and sequence of blocks whose coefficients have at most MaxSize bits.    *)
(*                                                                         *)
(* The encoder's buffer is large enough: no block takes more than          *)
(* BlockBits.  The argument counts the bits: a coefficient costs at most   *)
(* two fields and MaxSize bits, also where zeros are gathered into runs,   *)
(* and an alignment ends at the next multiple of a byte, where a longer    *)
(* block would have ended as well.  With the widths of the code that is    *)
(* 161 bytes, of the 256 which encoder.c takes.                            *)
(*                                                                         *)
(* The decoder gives back what was encoded, and notices what is missing.   *)
(* The argument is about a set of marks: positions of the stream, each     *)
(* with the block and the coefficient that the reader stands at there.     *)
(* From every mark a symbol of the stream leads to a next mark (Parse).    *)
(* The encoder's steps keep the set of marks closed in this way while the  *)
(* stream grows; the decoder's steps go from mark to mark.                 *)
(***************************************************************************)
EXTENDS Entropy, Modular

Bit == {0, 1}

LEMMA Sizes ==
    /\ FieldBits \in Nat /\ MaxSize \in Nat /\ N \in Nat /\ N > 0
    /\ FieldBits <= Int16Bits /\ MaxSize <= Int16Bits /\ Int16Bits \in Nat
    /\ ByteBits \in Nat /\ ByteBits > 0 /\ LongRun \in Nat
  BY EntropyAssumption, SizeAssumption, ByteAssumption DEF Int16Bits

-----------------------------------------------------------------------------
(* Lengths.                                                                *)

LEMMA BitsLen ==
    ASSUME NEW val \in Int, NEW n \in 0 .. Int16Bits
    PROVE  BitsOf(val, n) \in Seq(Bit) /\ Len(BitsOf(val, n)) = n
<1>1. ASSUME NEW k \in 1 .. n PROVE (val \div 2 ^ (n - k)) % 2 \in Bit
  <2>1. n - k \in 0 .. Int16Bits
    BY DEF Int16Bits
  <2> DEFINE p == 2 ^ (n - k)
  <2>2. p \in Nat /\ p > 0
    BY <2>1, SizeAssumption
  <2> HIDE DEF p
  <2>3. val \div p \in Int
    BY <2>2, DivMod
  <2>4. (val \div p) % 2 \in 0 .. 2 - 1
    BY <2>3, DivMod
  <2> QED
    BY <2>4 DEF p, Bit
<1>2. n \in Nat
  BY DEF Int16Bits
<1> QED
  BY <1>1, <1>2 DEF BitsOf

(* coeff_size of a value of at most MaxSize bits.                          *)
LEMMA SizeFits ==
    ASSUME NEW val \in Int, val < 2 ^ MaxSize, -val < 2 ^ MaxSize
    PROVE  /\ CoeffSize(val) \in 0 .. MaxSize
           /\ val < 2 ^ CoeffSize(val) /\ -val < 2 ^ CoeffSize(val)
           /\ \/ CoeffSize(val) = 0
              \/ 2 ^ (CoeffSize(val) - 1) <= val
              \/ 2 ^ (CoeffSize(val) - 1) <= -val
<1> DEFINE a == IF val < 0 THEN -val ELSE val
           Fits(n) == a < 2 ^ n /\ (n = 0 \/ 2 ^ (n - 1) <= a)
           P == {n \in 0 .. Int16Bits : a < 2 ^ n}
<1>1. a \in Nat /\ a < 2 ^ MaxSize
  OBVIOUS
<1> HIDE DEF a
<1>2. \A n \in 0 .. Int16Bits : 2 ^ n \in Int
  BY SizeAssumption
<1>3. MaxSize \in 0 .. Int16Bits
  BY Sizes
<1>4. P \in SUBSET Nat /\ MaxSize \in P
  BY <1>1, <1>3
<1>5. PICK p \in P : \A r \in P : p <= r
  BY <1>4, Least
<1>6. Fits(p)
  <2>1. CASE p = 0
    BY <1>5, <2>1
  <2>2. CASE p > 0
    <3>1. p - 1 \in 0 .. Int16Bits /\ p - 1 \notin P
      BY <1>5, <2>2, Sizes
    <3>2. ~(a < 2 ^ (p - 1)) /\ 2 ^ (p - 1) \in Int
      BY <1>2, <3>1
    <3> QED
      BY <1>1, <1>5, <3>2
  <2> QED
    BY <1>4, <1>5, <2>1, <2>2
<1>7. ASSUME NEW n \in 0 .. Int16Bits, Fits(n) PROVE n \in 0 .. MaxSize
  <2> SUFFICES ASSUME n > MaxSize PROVE FALSE
    BY Sizes
  <2>1. 2 ^ (n - 1) <= a /\ n - 1 \in 0 .. Int16Bits /\ MaxSize \in 0 .. n - 1
    BY <1>7, Sizes
  <2>2. 2 ^ MaxSize <= 2 ^ (n - 1)
    <3>1. CASE MaxSize = n - 1
      BY <1>2, <1>3, <3>1
    <3>2. CASE MaxSize \in 0 .. (n - 1) - 1
      <4>1. 2 ^ MaxSize < 2 ^ (n - 1)
        BY <2>1, <3>2, SizeAssumption
      <4> QED
        BY <1>2, <1>3, <2>1, <4>1
    <3> QED
      BY <2>1, <3>1, <3>2, Sizes
  <2>3. 2 ^ MaxSize \in Int /\ 2 ^ (n - 1) \in Int
    BY <1>2, <1>3, <2>1
  <2> QED
    BY <1>1, <2>1, <2>2, <2>3
<1> HIDE DEF Fits
<1>8. CoeffSize(val) = CHOOSE n \in 0 .. Int16Bits : Fits(n)
  BY DEF CoeffSize, Fits, a
<1>9. \E n \in 0 .. Int16Bits : Fits(n)
  BY <1>5, <1>6
<1> DEFINE c == CoeffSize(val)
<1>10. c \in 0 .. Int16Bits /\ Fits(c)
  BY <1>8, <1>9, Zenon
<1>11. a < 2 ^ c /\ (c = 0 \/ 2 ^ (c - 1) <= a)
  BY <1>10 DEF Fits
<1>12. a = IF val < 0 THEN -val ELSE val
  BY DEF a
<1>13. 2 ^ c \in Int
  BY <1>2, <1>10
<1> HIDE DEF c
<1>14. /\ val < 2 ^ c /\ -val < 2 ^ c
       /\ c = 0 \/ 2 ^ (c - 1) <= val \/ 2 ^ (c - 1) <= -val
  BY <1>1, <1>11, <1>12, <1>13
<1> QED
  BY <1>7, <1>10, <1>14 DEF c

(* The codes of a coefficient, of a field and of the symbols.              *)
LEMMA CodeLens ==
    ASSUME NEW val \in Int, val < 2 ^ MaxSize, -val < 2 ^ MaxSize, NEW r \in Int
    PROVE  /\ Field(r) \in Seq(Bit) /\ Len(Field(r)) = FieldBits
           /\ Field(CoeffSize(val)) \in Seq(Bit) /\ Len(Field(CoeffSize(val))) = FieldBits
           /\ CoeffBits(val, CoeffSize(val)) \in Seq(Bit)
           /\ Len(CoeffBits(val, CoeffSize(val))) <= MaxSize
<1>1. CoeffSize(val) \in 0 .. Int16Bits /\ CoeffSize(val) <= MaxSize
  BY SizeFits, Sizes
<1> DEFINE c == CoeffSize(val)
           b == IF val > 0 THEN val ELSE val + 2 ^ c - 1
<1>2. b \in Int
  <2>1. 2 ^ c \in Int
    BY <1>1, SizeAssumption
  <2> QED
    BY <2>1
<1>3. FieldBits \in 0 .. Int16Bits /\ c \in Int
  BY <1>1, Sizes
<1>4. Field(r) \in Seq(Bit) /\ Len(Field(r)) = FieldBits
  BY <1>3, BitsLen DEF Field
<1>5. Field(c) \in Seq(Bit) /\ Len(Field(c)) = FieldBits
  BY <1>3, BitsLen DEF Field
<1>6. CoeffBits(val, c) = BitsOf(b, c)
  BY DEF CoeffBits
<1> HIDE DEF c, b
<1>7. BitsOf(b, c) \in Seq(Bit) /\ Len(BitsOf(b, c)) = c
  BY <1>1, <1>2, BitsLen DEF c
<1> QED
  BY <1>1, <1>4, <1>5, <1>6, <1>7 DEF c

-----------------------------------------------------------------------------
(* The next byte.                                                          *)

LEMMA Aligned ==
    ASSUME NEW x \in Nat
    PROVE  /\ Padding(x) \in 0 .. ByteBits - 1
           /\ \E u \in Int : x + Padding(x) = ByteBits * u
<1> DEFINE r == x % ByteBits
           m == x \div ByteBits
<1>1. x = ByteBits * m + r /\ r \in 0 .. ByteBits - 1 /\ m \in Int
  BY Sizes, DivMod
<1>2. Padding(x) = (ByteBits - r) % ByteBits
  BY DEF Padding
<1> HIDE DEF r, m
<1>3. CASE r = 0
  <2>1. ByteBits = ByteBits * 1 + 0 /\ ByteBits \in Int /\ 0 \in 0 .. ByteBits - 1 /\ 1 \in Int
    BY Sizes
  <2>2. ByteBits % ByteBits = 0
    BY <2>1, Sizes, ModUnique, Zenon
  <2>3. Padding(x) = 0
    BY <1>2, <1>3, <2>2, Sizes
  <2> QED
    BY <1>1, <1>3, <2>3, Sizes
<1>4. CASE r > 0
  <2>1. Padding(x) = ByteBits - r
    BY <1>1, <1>2, <1>4, Sizes, ModSmall
  <2>2. ByteBits * (m + 1) = ByteBits * m + ByteBits /\ m + 1 \in Int
    BY <1>1, Sizes
  <2>3. x + Padding(x) = ByteBits * (m + 1)
    BY <1>1, <2>1, <2>2, Sizes
  <2>4. Padding(x) \in 0 .. ByteBits - 1
    BY <1>1, <1>4, <2>1, Sizes
  <2> QED
    BY <2>2, <2>3, <2>4
<1> QED
  BY <1>1, <1>3, <1>4

(* What ends no later than n bits into block q is aligned to the end of a  *)
(* block of n bits at most.                                                *)
LEMMA AlignedWithin ==
    ASSUME NEW q \in Nat, NEW n \in Nat, NEW x \in Nat, x <= q * (n + Padding(n)) + n
    PROVE  x + Padding(x) <= q * (n + Padding(n)) + (n + Padding(n))
<1>1. PICK m \in Int : n + Padding(n) = ByteBits * m
  BY Aligned
<1>2. PICK u \in Int : x + Padding(x) = ByteBits * u
  BY Aligned
<1> DEFINE B == n + Padding(n)
           t == q * m + m
<1>3. q * B + B = ByteBits * t /\ t \in Int
  <2>1. q * (ByteBits * m) + ByteBits * m = ByteBits * (q * m + m)
    BY <1>1, Sizes
  <2> QED
    BY <1>1, <2>1
<1>4. B \in Nat /\ n <= B /\ Padding(x) < ByteBits /\ Padding(x) \in Int
  BY Aligned, Sizes
<1>5. q * B \in Int
  BY <1>4
<1>6. ByteBits * u < ByteBits * t + ByteBits
  <2> DEFINE e == q * B
             f == ByteBits * t
             g == ByteBits * u
  <2>1. e \in Int /\ f = e + B /\ g = x + Padding(x) /\ x <= e + n /\ ByteBits \in Int
    BY <1>2, <1>3, <1>5, Sizes
  <2> HIDE DEF e, f, g, B
  <2>2. g < f + ByteBits
    BY <1>4, <2>1
  <2> QED
    BY <2>2 DEF f, g
<1> HIDE DEF t
<1>7. u <= t
  <2> SUFFICES ASSUME u >= t + 1 PROVE FALSE
    BY <1>3
  <2>1. ByteBits * (t + 1) = ByteBits * t + ByteBits
    BY <1>3, Sizes
  <2>2. ByteBits * u >= ByteBits * (t + 1)
    BY <1>3, Sizes
  <2> QED
    BY <1>3, <1>6, <2>1, <2>2, Sizes
<1>8. ByteBits * u <= ByteBits * t
  BY <1>3, <1>7, Sizes
<1> QED
  BY <1>2, <1>3, <1>8

-----------------------------------------------------------------------------
(* The bits the first n coefficients of a block may take.                  *)

Symbol == 2 * FieldBits + MaxSize
UpTo(n) == IF n = 0 THEN 0 ELSE FieldBits + MaxSize + (n - 1) * Symbol

LEMMA UpToGrows ==
    /\ \A n \in 1 .. N : UpTo(n) \in Nat /\ UpTo(n) <= UpTo(N)
    /\ \A n \in 1 .. N - 1 : UpTo(n + 1) = UpTo(n) + Symbol
    /\ UpTo(0) = 0 /\ UpTo(1) = FieldBits + MaxSize
    /\ UpTo(N) + 2 * FieldBits \in Nat
    /\ BlockBits = (UpTo(N) + 2 * FieldBits) + Padding(UpTo(N) + 2 * FieldBits)
<1>1. Symbol \in Nat
  BY Sizes DEF Symbol
<1>2. \A n \in 1 .. N : UpTo(n) \in Nat /\ UpTo(n) <= UpTo(N)
  <2> TAKE n \in 1 .. N
  <2>1. UpTo(n) = FieldBits + MaxSize + (n - 1) * Symbol
        /\ UpTo(N) = FieldBits + MaxSize + (N - 1) * Symbol
    BY Sizes DEF UpTo
  <2>2. (n - 1) * Symbol \in Nat /\ (n - 1) * Symbol <= (N - 1) * Symbol /\ (N - 1) * Symbol \in Nat
    BY <1>1, Sizes
  <2> QED
    BY <2>1, <2>2, Sizes
<1>3. \A n \in 1 .. N - 1 : UpTo(n + 1) = UpTo(n) + Symbol
  <2> TAKE n \in 1 .. N - 1
  <2>1. UpTo(n) = FieldBits + MaxSize + (n - 1) * Symbol
        /\ UpTo(n + 1) = FieldBits + MaxSize + ((n + 1) - 1) * Symbol
    BY Sizes DEF UpTo
  <2>2. ((n + 1) - 1) * Symbol = (n - 1) * Symbol + Symbol /\ (n - 1) * Symbol \in Int
    BY <1>1, Sizes
  <2> QED
    BY <1>1, <2>1, <2>2, Sizes
<1>4. UpTo(0) = 0 /\ UpTo(1) = FieldBits + MaxSize
  BY <1>1, Sizes DEF UpTo
<1>5. N \in 1 .. N
  BY Sizes
<1>6. UpTo(N) + 2 * FieldBits = FieldBits + MaxSize + (N - 1) * (2 * FieldBits + MaxSize) + 2 * FieldBits
  BY Sizes DEF UpTo, Symbol
<1> QED
  BY <1>2, <1>3, <1>4, <1>5, <1>6, Sizes DEF BlockBits

Encoding ==
    /\ nblk \in Nat /\ nblk <= Len(blocks) /\ i \in 0 .. N /\ run \in Nat
    /\ i > 0 => nblk < Len(blocks)
    /\ w \in Seq(Bit) /\ Len(w) <= nblk * BlockBits + UpTo(i)

EInv == /\ blocks \in Inputs /\ cap \in Nat
        /\ phase = "encode" => Encoding
        /\ EncoderHasRoom

\* What is known while a block is being encoded.
LEMMA Context ==
    ASSUME EInv, phase = "encode"
    PROVE  /\ Encoding /\ cap \in Nat /\ Len(w) \in Nat /\ BlockBits \in Nat
           /\ nblk * BlockBits \in Nat /\ Len(blocks) \in Nat
           /\ blocks \in Seq(Block)
<1>1. Encoding /\ cap \in Nat /\ blocks \in Seq(Block)
  BY EntropyAssumption DEF EInv
<1>2. BlockBits \in Nat
  BY UpToGrows, Aligned
<1> QED
  BY <1>1, <1>2 DEF Encoding

LEMMA CoefFits ==
    ASSUME EInv, phase = "encode", nblk < Len(blocks), NEW n \in 0 .. N - 1
    PROVE  /\ blocks[nblk + 1][n] \in Int
           /\ blocks[nblk + 1][n] < 2 ^ MaxSize /\ -blocks[nblk + 1][n] < 2 ^ MaxSize
<1>1. nblk + 1 \in 1 .. Len(blocks)
  BY Context DEF Encoding
<1>2. blocks \in Inputs /\ blocks[nblk + 1] \in Block
  BY <1>1, Context DEF EInv
<1> QED
  BY <1>1, <1>2, SizeAssumption DEF Block

(* A write that fits keeps the bound; one that does not fit found a buffer *)
(* smaller than the blocks may need.                                       *)
LEMMA WriteKeeps ==
    ASSUME EInv, phase = "encode", NEW bits \in Seq(Bit), NEW m \in Nat,
           Len(w) + Len(bits) <= m, m <= nblk * BlockBits + BlockBits, nblk < Len(blocks)
    PROVE  /\ w \o bits \in Seq(Bit) /\ Len(w \o bits) <= m
           /\ ~(Len(w) + Len(bits) <= cap) => cap < Len(blocks) * BlockBits
<1>1. /\ w \in Seq(Bit) /\ Len(w) \in Nat /\ cap \in Nat /\ BlockBits \in Nat
      /\ nblk \in Nat /\ Len(blocks) \in Nat /\ nblk * BlockBits \in Nat
  BY Context DEF Encoding
<1>2. w \o bits \in Seq(Bit) /\ Len(w \o bits) = Len(w) + Len(bits) /\ Len(bits) \in Nat
  BY <1>1
<1>3. nblk * BlockBits + BlockBits <= Len(blocks) * BlockBits /\ Len(blocks) * BlockBits \in Nat
  <2>1. (nblk + 1) * BlockBits = nblk * BlockBits + BlockBits
    BY <1>1
  <2>2. (nblk + 1) * BlockBits <= Len(blocks) * BlockBits /\ Len(blocks) * BlockBits \in Nat
    BY <1>1
  <2> QED
    BY <2>1, <2>2
<1> QED
  BY <1>1, <1>2, <1>3

\* Up to coefficient n a block stays within BlockBits.
LEMMA WithinBlock ==
    ASSUME NEW n \in 1 .. N PROVE UpTo(n) <= BlockBits /\ UpTo(n) \in Nat
<1>1. UpTo(n) \in Nat /\ UpTo(n) <= UpTo(N) /\ UpTo(N) + 2 * FieldBits \in Nat /\ UpTo(N) \in Nat
  <2>1. N \in 1 .. N
    BY Sizes
  <2> QED
    BY <2>1, UpToGrows
<1>2. Padding(UpTo(N) + 2 * FieldBits) \in 0 .. ByteBits - 1
  BY <1>1, Aligned
<1> QED
  BY <1>1, <1>2, UpToGrows, Sizes

\* The step that writes bits for coefficient i (or gives the frame up).
LEMMA CoefficientKeeps ==
    ASSUME EInv, phase = "encode", i < N, nblk < Len(blocks), NEW bits \in Seq(Bit),
           IF i = 0 THEN Len(bits) <= FieldBits + MaxSize ELSE Len(bits) <= Symbol,
           NEW r, r \in Nat,
           Write(bits, i' = i + 1 /\ run' = r /\ UNCHANGED nblk), UNCHANGED <<blocks, cap>>
    PROVE  EInv'
<1>1. /\ Len(w) \in Nat /\ cap \in Nat /\ BlockBits \in Nat /\ Len(bits) \in Nat
      /\ nblk \in Nat /\ nblk * BlockBits \in Nat
      /\ i \in 0 .. N - 1 /\ Len(w) <= nblk * BlockBits + UpTo(i)
  BY Context, Sizes DEF Encoding
<1> DEFINE m == nblk * BlockBits + UpTo(i + 1)
<1>2. UpTo(i + 1) \in Nat /\ UpTo(i + 1) <= BlockBits
  <2>1. i + 1 \in 1 .. N
    BY <1>1, Sizes
  <2> QED
    BY <2>1, WithinBlock
<1>3. Len(w) + Len(bits) <= m
  <2>1. CASE i = 0
    BY <1>1, <2>1, UpToGrows, Sizes, SMTT(30)
  <2>2. CASE i > 0
    <3>1. i \in 1 .. N - 1 /\ UpTo(i) \in Nat /\ Symbol \in Nat
      BY <1>1, <2>2, UpToGrows, Sizes DEF Symbol
    <3>2. UpTo(i + 1) = UpTo(i) + Symbol
      BY <3>1, UpToGrows
    <3> QED
      BY <1>1, <2>2, <3>1, <3>2
  <2> QED
    BY <1>1, <2>1, <2>2
<1>4. m \in Nat /\ m <= nblk * BlockBits + BlockBits
  BY <1>1, <1>2
<1>5. /\ w \o bits \in Seq(Bit) /\ Len(w \o bits) <= m
      /\ ~(Len(w) + Len(bits) <= cap) => cap < Len(blocks) * BlockBits
  BY <1>3, <1>4, WriteKeeps
<1>6. CASE Len(w) + Len(bits) <= cap
  <2>1. /\ w' = w \o bits /\ i' = i + 1 /\ run' = r /\ nblk' = nblk /\ phase' = "encode"
        /\ UNCHANGED <<blocks, cap>>
    BY <1>6 DEF Write
  <2>2. BlockBits' = BlockBits /\ UpTo(i)' = UpTo(i + 1)
    BY <2>1 DEF BlockBits, UpTo
  <2>3. w' \in Seq(Bit) /\ Len(w') <= (nblk * BlockBits + UpTo(i))'
    BY <1>5, <2>1, <2>2
  <2>4. nblk' \in Nat /\ nblk' < Len(blocks') /\ nblk' <= Len(blocks') /\ i' \in 0 .. N /\ run' \in Nat
    BY <1>1, <2>1, Context, Sizes
  <2>5. Encoding'
    BY <2>3, <2>4 DEF Encoding
  <2> QED
    BY <2>1, <2>5 DEF EInv, EncoderHasRoom
<1>7. CASE ~(Len(w) + Len(bits) <= cap)
  BY <1>5, <1>7 DEF Write, EInv, EncoderHasRoom, BlockBits
<1> QED
  BY <1>6, <1>7

LEMMA EInvStep == EInv /\ [Next]_svars => EInv'
<1> SUFFICES ASSUME EInv, [Next]_svars PROVE EInv'
  OBVIOUS
<1>1. CASE EncodeDC
  <2>1. phase = "encode" /\ i = 0 /\ i < N /\ nblk < Len(blocks) /\ run \in Nat
    BY <1>1, Sizes, Context DEF EncodeDC, Encoding
  <2> DEFINE c == CoeffSize(Coef)
             bits == Field(c) \o CoeffBits(Coef, c)
  <2>2. Coef \in Int /\ Coef < 2 ^ MaxSize /\ -Coef < 2 ^ MaxSize
    BY <2>1, CoefFits, Sizes DEF Coef
  <2>3. /\ Field(c) \in Seq(Bit) /\ Len(Field(c)) = FieldBits
        /\ CoeffBits(Coef, c) \in Seq(Bit) /\ Len(CoeffBits(Coef, c)) <= MaxSize
    BY <2>2, CodeLens
  <2>4. bits \in Seq(Bit) /\ Len(bits) <= FieldBits + MaxSize
    BY <2>3, Sizes
  <2>5. Write(bits, i' = i + 1 /\ run' = run /\ UNCHANGED nblk) /\ UNCHANGED <<blocks, cap>>
    BY <1>1, <2>1 DEF EncodeDC, Write
  <2> HIDE DEF bits
  <2> QED
    BY <2>1, <2>4, <2>5, CoefficientKeeps
<1>2. CASE EncodeZero
  <2>1. phase = "encode" /\ i > 0 /\ i < N /\ nblk < Len(blocks) /\ run \in Nat /\ i \in Nat
    BY <1>2, Sizes, Context DEF EncodeZero, Encoding
  <2>2. LongRun - 1 \in Int /\ 0 \in Int
    BY Sizes
  <2>3. LongSymbol \in Seq(Bit) /\ Len(LongSymbol) <= Symbol /\ <<>> \in Seq(Bit)
    <3>1. FieldBits \in 0 .. Int16Bits
      BY Sizes
    <3>2. /\ Field(LongRun - 1) \in Seq(Bit) /\ Len(Field(LongRun - 1)) = FieldBits
          /\ Field(0) \in Seq(Bit) /\ Len(Field(0)) = FieldBits
      BY <2>2, <3>1, BitsLen DEF Field
    <3> QED
      BY <3>2, Sizes DEF LongSymbol, Symbol
  <2>4. CASE run + 1 = LongRun
    <3>1. Write(LongSymbol, i' = i + 1 /\ run' = 0 /\ UNCHANGED nblk) /\ UNCHANGED <<blocks, cap>>
      BY <1>2, <2>4 DEF EncodeZero, Write
    <3>2. IF i = 0 THEN Len(LongSymbol) <= FieldBits + MaxSize ELSE Len(LongSymbol) <= Symbol
      BY <2>1, <2>3
    <3> QED
      BY <2>1, <2>3, <3>1, <3>2, CoefficientKeeps
  <2>5. CASE run + 1 # LongRun
    <3>1. /\ run' = run + 1 /\ i' = i + 1 /\ UNCHANGED <<w, nblk, phase>>
          /\ UNCHANGED <<blocks, cap>>
      BY <1>2, <2>5 DEF EncodeZero
    <3>2. UpTo(i) <= UpTo(i + 1) /\ UpTo(i) \in Nat /\ UpTo(i + 1) \in Nat
      <4>1. i \in 1 .. N - 1 /\ i \in 1 .. N /\ i + 1 \in 1 .. N /\ Symbol \in Nat
        BY <2>1, Sizes DEF Symbol
      <4> QED
        BY <4>1, UpToGrows
    <3>3. Encoding'
      BY <2>1, <3>1, <3>2, Context, Sizes DEF Encoding, BlockBits
    <3> QED
      BY <2>1, <3>1, <3>3 DEF EInv, EncoderHasRoom
  <2> QED
    BY <2>4, <2>5
<1>3. CASE EncodeCoeff
  <2>1. phase = "encode" /\ i > 0 /\ i < N /\ nblk < Len(blocks) /\ run \in Nat /\ i \in 0 .. N - 1
    BY <1>3, Sizes, Context DEF EncodeCoeff, Encoding
  <2> DEFINE c == CoeffSize(Coef)
  <2>2. Coef \in Int /\ Coef < 2 ^ MaxSize /\ -Coef < 2 ^ MaxSize
    BY <2>1, CoefFits DEF Coef
  <2>3. /\ Field(run) \in Seq(Bit) /\ Len(Field(run)) = FieldBits
        /\ Field(c) \in Seq(Bit) /\ Len(Field(c)) = FieldBits
        /\ CoeffBits(Coef, c) \in Seq(Bit) /\ Len(CoeffBits(Coef, c)) <= MaxSize
    BY <2>1, <2>2, CodeLens
  <2>4. Coeff(run, Coef) \in Seq(Bit) /\ Len(Coeff(run, Coef)) <= Symbol
    <3> HIDE DEF c
    <3>1. Coeff(run, Coef) = Field(run) \o Field(c) \o CoeffBits(Coef, c)
      BY DEF Coeff, c
    <3> QED
      BY <2>3, <3>1, Sizes DEF Symbol
  <2>5. Write(Coeff(run, Coef), i' = i + 1 /\ run' = 0 /\ UNCHANGED nblk) /\ UNCHANGED <<blocks, cap>>
    BY <1>3 DEF EncodeCoeff, Write
  <2>6. IF i = 0 THEN Len(Coeff(run, Coef)) <= FieldBits + MaxSize ELSE Len(Coeff(run, Coef)) <= Symbol
    BY <2>1, <2>4
  <2> QED
    BY <2>1, <2>4, <2>5, <2>6, CoefficientKeeps
<1>4. CASE EncodeEnd
  <2> DEFINE n == UpTo(N) + 2 * FieldBits
             x == Len(w) + 2 * FieldBits
             pad == [k \in 1 .. Padding(x) |-> 0]
             bits == EobSymbol \o pad
             m == nblk * BlockBits + BlockBits
  <2>1. /\ phase = "encode" /\ i = N /\ nblk < Len(blocks) /\ nblk \in Nat /\ Len(w) \in Nat
        /\ BlockBits \in Nat /\ nblk * BlockBits \in Nat /\ Len(blocks) \in Nat
        /\ Len(w) <= nblk * BlockBits + UpTo(N)
    BY <1>4, Sizes, Context DEF EncodeEnd, Encoding
  <2>2. n \in Nat /\ BlockBits = n + Padding(n) /\ x \in Nat /\ x <= nblk * BlockBits + n
    BY <2>1, UpToGrows, Sizes, SMTT(30)
  <2>3. Padding(x) \in Nat
    BY <2>2, Aligned, Sizes
  <2>4. x + Padding(x) <= m
    <3> HIDE DEF n, x
    <3>1. x <= nblk * (n + Padding(n)) + n
      BY <2>2
    <3> QED
      BY <2>1, <2>2, <3>1, AlignedWithin
  <2>5. bits \in Seq(Bit) /\ Len(bits) = 2 * FieldBits + Padding(x)
    <3>1. FieldBits \in 0 .. Int16Bits /\ 0 \in Int
      BY Sizes
    <3>2. Field(0) \in Seq(Bit) /\ Len(Field(0)) = FieldBits
      BY <3>1, BitsLen DEF Field
    <3>3. EobSymbol \in Seq(Bit) /\ Len(EobSymbol) = 2 * FieldBits
      BY <3>2, Sizes DEF EobSymbol
    <3>4. pad \in Seq(Bit) /\ Len(pad) = Padding(x)
      BY <2>3 DEF Bit
    <3> HIDE DEF pad
    <3> QED
      BY <2>3, <3>3, <3>4, Sizes
  <2>6. Write(bits, i' = 0 /\ run' = 0 /\ nblk' = nblk + 1) /\ UNCHANGED <<blocks, cap>>
    BY <1>4 DEF EncodeEnd
  <2> HIDE DEF bits
  <2>7. Len(w) + Len(bits) <= m /\ m \in Nat
    BY <2>1, <2>3, <2>4, <2>5, Sizes
  <2>8. /\ w \o bits \in Seq(Bit) /\ Len(w \o bits) <= m
        /\ ~(Len(w) + Len(bits) <= cap) => cap < Len(blocks) * BlockBits
    <3>1. m <= nblk * BlockBits + BlockBits
      BY <2>1
    <3> HIDE DEF m
    <3> QED
      BY <2>1, <2>5, <2>7, <3>1, WriteKeeps
  <2>9. CASE Len(w) + Len(bits) <= cap
    <3>1. /\ w' = w \o bits /\ i' = 0 /\ run' = 0 /\ nblk' = nblk + 1 /\ phase' = "encode"
          /\ UNCHANGED <<blocks, cap>>
      BY <2>1, <2>6, <2>9 DEF Write
    <3>2. (nblk + 1) * BlockBits + UpTo(0) = m
      BY <2>1, UpToGrows
    <3>3. Encoding'
      BY <2>1, <2>8, <3>1, <3>2, Sizes DEF Encoding, BlockBits
    <3> QED
      BY <3>1, <3>3 DEF EInv, EncoderHasRoom
  <2>10. CASE ~(Len(w) + Len(bits) <= cap)
    BY <2>6, <2>8, <2>10 DEF Write, EInv, EncoderHasRoom, BlockBits
  <2> QED
    BY <2>9, <2>10
<1>5. CASE UNCHANGED svars
  BY <1>5 DEF svars, EInv, Encoding, EncoderHasRoom, BlockBits, UpTo
<1>6. CASE Deliver \/ DecodeDC \/ DecodeSymbol \/ DecodeFull \/ DecodeEnd
  <2>1. phase' \notin {"encode", "overflow"} /\ UNCHANGED <<blocks, cap>>
    BY <1>6 DEF Deliver, DecodeDC, DecodeSymbol, DecodeFull, DecodeEnd, Broken, Writer
  <2> QED
    BY <2>1 DEF EInv, EncoderHasRoom
<1> QED
  BY <1>1, <1>2, <1>3, <1>4, <1>5, <1>6 DEF Next

LEMMA EInvInit == Init => EInv
<1> SUFFICES ASSUME Init PROVE EInv
  OBVIOUS
<1>1. cap \in Nat
  BY EntropyAssumption, Sizes DEF Init
<1>2. BlockBits \in Nat
  BY UpToGrows, Aligned
<1>3. 0 * BlockBits + UpTo(0) = 0 /\ blocks \in Seq(Block)
  BY <1>2, UpToGrows, EntropyAssumption DEF Init
<1> QED
  BY <1>1, <1>3, Sizes DEF Init, EInv, Encoding, EncoderHasRoom

(* A buffer with BlockBits for every block is never too small, whatever    *)
(* the coefficients and however zeros are gathered into runs.              *)
THEOREM RoomForEveryBlock == Spec => []EncoderHasRoom
<1>1. EInv => EncoderHasRoom
  BY DEF EInv
<1> QED
  BY <1>1, EInvInit, EInvStep, PTL DEF Spec

(* The widths of the code: bytes of 8 bits, 64 coefficients to a block of  *)
(* at most 12 bits (Picture_proofs, TwelveBits), fields of 4.              *)
AsInTheCode == ByteBits = 8 /\ N = 64 /\ FieldBits = 4 /\ MaxSize = 12

\* Then a block takes at most 161 bytes.
LEMMA BlockBytes == ASSUME AsInTheCode PROVE BlockBits = 161 * 8
  BY SMT DEF AsInTheCode, BlockBits, Padding

(* entropy_encode_block never fails in encoder.c: the 256 bytes that it    *)
(* takes for each block hold every encoding of all the blocks.             *)
THEOREM EncoderNeverOverflows ==
    ASSUME AsInTheCode
    PROVE  Spec => [](256 * ByteBits * Len(blocks) <= cap => phase # "overflow")
<1>1. EInv => (256 * ByteBits * Len(blocks) <= cap => phase # "overflow")
  <2> SUFFICES ASSUME EInv, phase = "overflow", 256 * ByteBits * Len(blocks) <= cap
               PROVE  FALSE
    OBVIOUS
  <2>1. cap < Len(blocks) * (161 * 8)
    BY BlockBytes DEF EInv, EncoderHasRoom
  <2>2. Len(blocks) \in Nat /\ cap \in Nat
    <3>1. blocks \in Seq(Block) /\ cap \in Nat
      BY EntropyAssumption DEF EInv
    <3> QED
      BY <3>1
  <2>3. 256 * 8 * Len(blocks) <= cap
    BY DEF AsInTheCode
  <2> QED
    BY <2>1, <2>2, <2>3, SMT
<1> QED
  BY <1>1, EInvInit, EInvStep, PTL DEF Spec

-----------------------------------------------------------------------------
(* Reading back what was written.                                          *)

(* The bit of a value is what a division by two leaves.                    *)
LEMMA Halved ==
    ASSUME NEW a \in Nat, NEW m \in Nat, m > 0
    PROVE  a \div m = 2 * (a \div (2 * m)) + ((a \div m) % 2)
<1> DEFINE q == a \div m
           r == a % m
           h == q \div 2
           b == q % 2
<1>1. a = m * q + r /\ r \in 0 .. m - 1 /\ q \in Int
  BY DivMod
<1> HIDE DEF q, r
<1>2. q = 2 * h + b /\ b \in 0 .. 1 /\ h \in Int
  <2>1. 2 \in Nat /\ 2 > 0
    OBVIOUS
  <2> QED
    BY <1>1, <2>1, DivMod
<1> HIDE DEF h, b
<1>3. a = (2 * m) * h + (m * b + r)
  <2>1. m * (2 * h + b) = (2 * m) * h + m * b
    BY <1>2
  <2> QED
    BY <1>1, <1>2, <2>1
<1>4. m * b + r \in 0 .. 2 * m - 1
  <2>1. CASE b = 0
    BY <1>1, <2>1
  <2>2. CASE b = 1
    BY <1>1, <2>2
  <2> QED
    BY <1>2, <2>1, <2>2
<1> DEFINE k == 2 * m
           s == m * b + r
<1>5. k \in Nat /\ k > 0 /\ s \in 0 .. k - 1 /\ a = k * h + s /\ a \in Int
  BY <1>3, <1>4
<1> HIDE DEF k, s
<1>6. a \div k = h
  BY <1>2, <1>5, ModUnique
<1> QED
  BY <1>2, <1>6, Zenon DEF k, q, h, b

At(s, p, bits) == /\ p + Len(bits) <= Len(s)
                  /\ \A k \in 1 .. Len(bits) : s[p + k] = bits[k]

(* What was written is what is read.                                       *)
LEMMA ReadBack ==
    ASSUME NEW s \in Seq(Bit), NEW p \in Nat, NEW n \in 0 .. Int16Bits,
           NEW v \in 0 .. 2 ^ n - 1, At(s, p, BitsOf(v, n))
    PROVE  ValueAt(s, p, n) = v
<1> DEFINE G == [k \in 0 .. n |-> v \div 2 ^ (n - k)]
           Rec(V) == V = [k \in 0 .. n |-> IF k = 0 THEN 0 ELSE 2 * V[k - 1] + s[p + k]]
           V0 == CHOOSE V : Rec(V)
<1>1. \A k \in 0 .. Int16Bits : 2 ^ k \in Nat /\ 2 ^ k > 0
  BY SizeAssumption
<1>2. n \in Nat /\ v \in Nat /\ 2 ^ n \in Nat /\ 2 ^ n > 0 /\ v < 2 ^ n
  BY <1>1 DEF Int16Bits
<1>3. G[0] = 0
  <2>1. G[0] = v \div 2 ^ n
    BY <1>2
  <2> DEFINE m == 2 ^ n
  <2>2. m \in Nat /\ m > 0 /\ v \in Int /\ 0 \in Int /\ v \in 0 .. m - 1 /\ v = m * 0 + v
    BY <1>2
  <2> HIDE DEF m
  <2>3. v \div m = 0
    BY <2>2, ModUnique
  <2> QED
    BY <2>1, <2>3 DEF m
<1>4. G[n] = v
  <2>1. G[n] = v \div 2 ^ (n - n) /\ n - n = 0
    BY <1>2
  <2>2. 2 ^ 0 = 1
    BY SizeAssumption
  <2> QED
    BY <1>2, <2>1, <2>2
<1>5. ASSUME NEW k \in 1 .. n PROVE G[k] = 2 * G[k - 1] + s[p + k]
  <2>1. s[p + k] = (v \div 2 ^ (n - k)) % 2
    BY <1>2 DEF At, BitsOf
  <2>2. n - k \in 0 .. Int16Bits /\ n - k + 1 \in 1 .. Int16Bits /\ (n - k + 1) - 1 = n - k
        /\ n - (k - 1) = n - k + 1
    BY <1>2 DEF Int16Bits
  <2>3. 2 ^ (n - k + 1) = 2 * 2 ^ (n - k) /\ 2 ^ (n - k) \in Nat /\ 2 ^ (n - k) > 0
    BY <1>1, <2>2, SizeAssumption
  <2>4. v \div 2 ^ (n - k) = 2 * (v \div (2 * 2 ^ (n - k))) + ((v \div 2 ^ (n - k)) % 2)
    BY <1>2, <2>3, Halved
  <2>5. G[k] = v \div 2 ^ (n - k) /\ G[k - 1] = v \div 2 ^ (n - (k - 1))
    BY <1>2
  <2> HIDE DEF G
  <2>6. G[k - 1] = v \div (2 * 2 ^ (n - k))
    BY <2>2, <2>3, <2>5, Zenon
  <2> QED
    BY <2>1, <2>4, <2>5, <2>6, Zenon
<1>6. Rec(G)
  <2>1. \A k \in 0 .. n : G[k] = IF k = 0 THEN 0 ELSE 2 * G[k - 1] + s[p + k]
    <3> TAKE k \in 0 .. n
    <3>1. CASE k = 0
      BY <1>3, <3>1
    <3>2. CASE k # 0
      <4>1. k \in 1 .. n
        BY <3>2, <1>2
      <4> QED
        BY <1>5, <3>2, <4>1
    <3> QED
      BY <3>1, <3>2
  <2>2. G = [k \in 0 .. n |-> G[k]]
    OBVIOUS
  <2> HIDE DEF G
  <2> QED
    BY <2>1, <2>2, Zenon
<1> HIDE DEF G
<1>7. Rec(V0)
  BY <1>6, Zenon
<1>8. ValueAt(s, p, n) = V0[n]
  BY DEF ValueAt
<1> HIDE DEF V0
<1>9. \A k \in 0 .. n : V0[k] = G[k]
  <2> DEFINE Off == {k \in 0 .. n : V0[k] # G[k]}
  <2> SUFFICES ASSUME Off # {} PROVE FALSE
    OBVIOUS
  <2>1. Off \in SUBSET Nat
    BY <1>2
  <2> HIDE DEF Off
  <2>2. PICK k \in Off : \A j \in Off : k <= j
    BY <2>1, Least
  <2>3. k \in 0 .. n /\ V0[k] # G[k]
    BY <2>2 DEF Off
  <2>4. V0[k] = IF k = 0 THEN 0 ELSE 2 * V0[k - 1] + s[p + k]
    BY <1>7, <2>3
  <2>5. k # 0
    BY <1>3, <2>3, <2>4
  <2>6. k - 1 \in 0 .. n /\ k - 1 \notin Off
    BY <1>2, <2>1, <2>2, <2>3, <2>5
  <2>7. V0[k - 1] = G[k - 1]
    BY <2>6 DEF Off
  <2>8. k \in 1 .. n
    BY <2>3, <2>5, <1>2
  <2> QED
    BY <1>5, <2>3, <2>4, <2>5, <2>7, <2>8
<1> QED
  BY <1>2, <1>4, <1>8, <1>9

(* A coefficient is read as it was written; only zero has no bits.         *)
LEMMA CoeffBack ==
    ASSUME NEW val \in Int, val < 2 ^ MaxSize, -val < 2 ^ MaxSize,
           NEW s \in Seq(Bit), NEW p \in Nat, At(s, p, CoeffBits(val, CoeffSize(val)))
    PROVE  /\ CoeffOf(ValueAt(s, p, CoeffSize(val)), CoeffSize(val)) = val
           /\ CoeffSize(val) = 0 <=> val = 0
<1> DEFINE c == CoeffSize(val)
           b == IF val > 0 THEN val ELSE val + 2 ^ c - 1
<1>1. /\ c \in 0 .. MaxSize /\ val < 2 ^ c /\ -val < 2 ^ c
      /\ c = 0 \/ 2 ^ (c - 1) <= val \/ 2 ^ (c - 1) <= -val
  BY SizeFits
<1>2. c \in 0 .. Int16Bits /\ 2 ^ c \in Int /\ 2 ^ c >= 1
  BY <1>1, SizeAssumption, Sizes
<1>3. At(s, p, BitsOf(b, c))
  BY DEF CoeffBits
<1> HIDE DEF c
<1>4. CASE c = 0
  <2>1. 2 ^ c = 1
    BY <1>4, SizeAssumption
  <2>2. val = 0
    BY <1>1, <2>1
  <2> QED
    BY <1>4, <2>2 DEF CoeffOf, c
<1>5. CASE c # 0
  <2>1. c \in 1 .. Int16Bits /\ c - 1 \in 0 .. Int16Bits
    BY <1>2, <1>5, Sizes
  <2>2. 2 ^ c = 2 * 2 ^ (c - 1) /\ 2 ^ (c - 1) \in Nat /\ 2 ^ (c - 1) >= 1
    BY <2>1, SizeAssumption
  <2> DEFINE h == 2 ^ (c - 1)
             t == 2 ^ c
  <2>3. t = 2 * h /\ h \in Nat /\ h >= 1 /\ val < t /\ -val < t /\ (h <= val \/ h <= -val)
    BY <1>1, <1>5, <2>2
  <2>4. b = IF val > 0 THEN val ELSE val + t - 1
    OBVIOUS
  <2> HIDE DEF h, t
  <2>5. b \in 0 .. t - 1 /\ val # 0 /\ (val > 0 => b >= h) /\ (val < 0 => b < h)
    BY <2>3, <2>4
  <2>6. val = IF b >= h THEN b ELSE b - t + 1
    BY <2>3, <2>4, <2>5
  <2> HIDE DEF b
  <2>7. ValueAt(s, p, c) = b
    BY <1>2, <1>3, <2>5, ReadBack DEF t
  <2>8. CoeffOf(b, c) = val
    BY <1>5, <2>6 DEF CoeffOf, h, t
  <2> QED
    BY <1>5, <2>5, <2>7, <2>8 DEF c
<1> QED
  BY <1>4, <1>5

(* So is a field.                                                          *)
LEMMA FieldBack ==
    ASSUME NEW v \in 0 .. LongRun - 1, NEW s \in Seq(Bit), NEW p \in Nat, At(s, p, Field(v))
    PROVE  ValueAt(s, p, FieldBits) = v
<1>1. FieldBits \in 0 .. Int16Bits /\ LongRun = 2 ^ FieldBits
  BY Sizes DEF LongRun
<1> QED
  BY <1>1, ReadBack DEF Field

LEMMA LongRunSize == LongRun \in Nat /\ LongRun >= 2
<1>1. LongRun = 2 ^ FieldBits /\ FieldBits \in 1 .. Int16Bits /\ LongRun \in Nat
  BY EntropyAssumption, SizeAssumption, Sizes DEF LongRun
<1>2. 2 ^ FieldBits = 2 * 2 ^ (FieldBits - 1)
  BY <1>1, SizeAssumption
<1>0. FieldBits - 1 \in 0 .. Int16Bits
  BY <1>1, Sizes
<1>3. 2 ^ (FieldBits - 1) \in Nat /\ 2 ^ (FieldBits - 1) >= 1
  BY <1>0, SizeAssumption
<1> QED
  BY <1>1, <1>2, <1>3

-----------------------------------------------------------------------------
(* A reading of the bits s as an encoding of the blocks bs.  A mark        *)
(* <<p, b, c>> says that what begins at bit p encodes coefficient c and    *)
(* what follows it in the block behind the first b ones.                   *)

NoneIn(bs, b, c, e) == \A n \in c .. e - 1 : bs[b + 1][n] = 0

FollowsDC(bs, s, p, b, c, q, d, e) ==
    /\ c = 0 /\ d = b /\ e = 1
    /\ LET val == bs[b + 1][0]
       IN  /\ At(s, p, Field(CoeffSize(val)))
           /\ At(s, p + FieldBits, CoeffBits(val, CoeffSize(val)))
           /\ q = p + FieldBits + CoeffSize(val)

FollowsZeros(bs, s, p, b, c, q, d, e) ==
    /\ c >= 1 /\ d = b /\ e = c + LongRun /\ e <= N /\ NoneIn(bs, b, c, e)
    /\ At(s, p, Field(LongRun - 1)) /\ At(s, p + FieldBits, Field(0))
    /\ q = p + 2 * FieldBits

FollowsCoeff(bs, s, p, b, c, q, d, e) ==
    /\ c >= 1 /\ d = b
    /\ \E z \in 0 .. LongRun - 1 :
          /\ e = c + z + 1 /\ e <= N /\ NoneIn(bs, b, c, c + z) /\ bs[b + 1][c + z] # 0
          /\ LET val == bs[b + 1][c + z]
             IN  /\ At(s, p, Field(z)) /\ At(s, p + FieldBits, Field(CoeffSize(val)))
                 /\ At(s, p + 2 * FieldBits, CoeffBits(val, CoeffSize(val)))
                 /\ q = p + 2 * FieldBits + CoeffSize(val)

FollowsEnd(bs, s, p, b, c, q, d, e) ==
    /\ c \in 1 .. N /\ d = b + 1 /\ e = 0 /\ NoneIn(bs, b, c, N)
    /\ At(s, p, Field(0)) /\ At(s, p + FieldBits, Field(0))
    /\ q = p + 2 * FieldBits + Padding(p + 2 * FieldBits) /\ q <= Len(s)

Follows(bs, s, p, b, c, q, d, e) ==
    \/ FollowsDC(bs, s, p, b, c, q, d, e)
    \/ FollowsZeros(bs, s, p, b, c, q, d, e)
    \/ FollowsCoeff(bs, s, p, b, c, q, d, e)
    \/ FollowsEnd(bs, s, p, b, c, q, d, e)

\* M marks every symbol from the first to the place <<p, b, c>>.
Parse(bs, M, s, p, b, c) ==
    /\ <<0, 0, 0>> \in M
    /\ \A x, y, z \in Nat : <<x, y, z>> \in M =>
          \/ x = p /\ y = b /\ z = c
          \/ y < Len(bs) /\ \E q, d, e \in Nat : /\ <<q, d, e>> \in M
                                                 /\ Follows(bs, s, x, y, z, q, d, e)

LEMMA AtGrows ==
    ASSUME NEW s \in Seq(Bit), NEW t \in Seq(Bit), NEW p \in Nat, NEW bits \in Seq(Bit),
           At(s, p, bits)
    PROVE  At(s \o t, p, bits)
<1>1. Len(s \o t) = Len(s) + Len(t) /\ \A k \in 1 .. Len(s) : (s \o t)[k] = s[k]
  OBVIOUS
<1>2. Len(s) \in Nat /\ Len(t) \in Nat /\ Len(bits) \in Nat
  OBVIOUS
<1> DEFINE u == s \o t
<1> HIDE DEF u
<1>3. \A k \in 1 .. Len(bits) : u[p + k] = bits[k]
  <2> TAKE k \in 1 .. Len(bits)
  <2>1. p + k \in 1 .. Len(s)
    BY <1>2 DEF At
  <2> QED
    BY <1>1, <2>1 DEF At, u
<1> QED
  BY <1>1, <1>2, <1>3 DEF At, u

LEMMA AtAppended ==
    ASSUME NEW s \in Seq(Bit), NEW bits \in Seq(Bit), NEW t \in Seq(Bit)
    PROVE  At(s \o (bits \o t), Len(s), bits) /\ At(s \o bits, Len(s), bits)
<1> DEFINE u == s \o (bits \o t)
           v == s \o bits
<1>1. Len(u) = Len(s) + Len(bits) + Len(t) /\ Len(v) = Len(s) + Len(bits)
  OBVIOUS
<1>2. Len(s) \in Nat /\ Len(t) \in Nat /\ Len(bits) \in Nat
  OBVIOUS
<1>3. \A k \in 1 .. Len(bits) : u[Len(s) + k] = bits[k] /\ v[Len(s) + k] = bits[k]
  OBVIOUS
<1> HIDE DEF u, v
<1> QED
  BY <1>1, <1>2, <1>3 DEF At, u, v

\* What the symbols are made of, and that it consists of bits.
LEMMA Codes ==
    /\ \A z \in 0 .. LongRun - 1 : Field(z) \in Seq(Bit) /\ Len(Field(z)) = FieldBits
    /\ \A val \in Int : val < 2 ^ MaxSize /\ -val < 2 ^ MaxSize =>
          /\ CoeffSize(val) \in 0 .. MaxSize /\ CoeffSize(val) \in 0 .. LongRun - 1
          /\ CoeffBits(val, CoeffSize(val)) \in Seq(Bit)
          /\ Len(CoeffBits(val, CoeffSize(val))) = CoeffSize(val)
<1>1. \A z \in 0 .. LongRun - 1 : Field(z) \in Seq(Bit) /\ Len(Field(z)) = FieldBits
  <2>1. FieldBits \in 0 .. Int16Bits
    BY Sizes
  <2> QED
    BY <2>1, BitsLen, LongRunSize DEF Field
<1>2. ASSUME NEW val \in Int, val < 2 ^ MaxSize, -val < 2 ^ MaxSize
      PROVE  /\ CoeffSize(val) \in 0 .. MaxSize /\ CoeffSize(val) \in 0 .. LongRun - 1
             /\ CoeffBits(val, CoeffSize(val)) \in Seq(Bit)
             /\ Len(CoeffBits(val, CoeffSize(val))) = CoeffSize(val)
  <2> DEFINE c == CoeffSize(val)
             b == IF val > 0 THEN val ELSE val + 2 ^ c - 1
  <2>1. c \in 0 .. MaxSize
    BY <1>2, SizeFits
  <2>2. c \in 0 .. Int16Bits /\ c \in 0 .. LongRun - 1
    BY <2>1, EntropyAssumption, Sizes, LongRunSize
  <2>3. 2 ^ c \in Int
    BY <2>2, SizeAssumption
  <2>4. b \in Int
    BY <2>3
  <2>5. CoeffBits(val, c) = BitsOf(b, c)
    BY DEF CoeffBits
  <2> HIDE DEF b, c
  <2>6. BitsOf(b, c) \in Seq(Bit) /\ Len(BitsOf(b, c)) = c
    BY <2>2, <2>4, BitsLen
  <2> QED
    BY <2>1, <2>2, <2>5, <2>6 DEF c
<1> QED
  BY <1>1, <1>2

LEMMA Coefficients ==
    ASSUME NEW bs \in Inputs, NEW b \in Nat, b < Len(bs)
    PROVE  /\ bs \in Seq(Block) /\ bs[b + 1] \in Block
           /\ \A n \in 0 .. N - 1 : /\ bs[b + 1][n] \in Int
                                    /\ bs[b + 1][n] < 2 ^ MaxSize /\ -bs[b + 1][n] < 2 ^ MaxSize
<1>1. bs \in Seq(Block) /\ b + 1 \in 1 .. Len(bs)
  BY EntropyAssumption
<1>2. bs[b + 1] \in Block
  BY <1>1
<1> QED
  BY <1>1, <1>2, SizeAssumption DEF Block

(* A reading stays one when bits are added.                                *)
LEMMA FollowsGrows ==
    ASSUME NEW bs \in Inputs, NEW s \in Seq(Bit), NEW t \in Seq(Bit),
           NEW p \in Nat, NEW b \in Nat, b < Len(bs), NEW c \in Nat,
           NEW q \in Nat, NEW d \in Nat, NEW e \in Nat,
           Follows(bs, s, p, b, c, q, d, e)
    PROVE  Follows(bs, s \o t, p, b, c, q, d, e)
<1> DEFINE u == s \o t
<1>1. ASSUME NEW x \in Nat, NEW bits \in Seq(Bit), At(s, x, bits) PROVE At(u, x, bits)
  BY <1>1, AtGrows
<1>2. Len(s) <= Len(u)
  OBVIOUS
<1>3. FieldBits \in Nat /\ 0 \in 0 .. LongRun - 1 /\ LongRun - 1 \in 0 .. LongRun - 1
      /\ p + FieldBits \in Nat /\ p + 2 * FieldBits \in Nat /\ 0 \in 0 .. N - 1
  BY LongRunSize, Sizes
<1> HIDE DEF u
<1>4. CASE FollowsDC(bs, s, p, b, c, q, d, e)
  <2> DEFINE val == bs[b + 1][0]
  <2>1. val \in Int /\ val < 2 ^ MaxSize /\ -val < 2 ^ MaxSize
    BY <1>3, Coefficients
  <2> HIDE DEF val
  <2>2. Field(CoeffSize(val)) \in Seq(Bit) /\ CoeffBits(val, CoeffSize(val)) \in Seq(Bit)
    BY <2>1, Codes
  <2>3. FollowsDC(bs, u, p, b, c, q, d, e)
    BY <1>1, <1>3, <1>4, <2>2 DEF FollowsDC, val
  <2> QED
    BY <2>3 DEF Follows, u
<1>5. CASE FollowsZeros(bs, s, p, b, c, q, d, e)
  <2>1. Field(LongRun - 1) \in Seq(Bit) /\ Field(0) \in Seq(Bit)
    BY <1>3, Codes
  <2>2. FollowsZeros(bs, u, p, b, c, q, d, e)
    BY <1>1, <1>3, <1>5, <2>1 DEF FollowsZeros
  <2> QED
    BY <2>2 DEF Follows, u
<1>6. CASE FollowsCoeff(bs, s, p, b, c, q, d, e)
  <2>1. PICK z \in 0 .. LongRun - 1 :
          /\ e = c + z + 1 /\ e <= N /\ NoneIn(bs, b, c, c + z) /\ bs[b + 1][c + z] # 0
          /\ LET val == bs[b + 1][c + z]
             IN  /\ At(s, p, Field(z)) /\ At(s, p + FieldBits, Field(CoeffSize(val)))
                 /\ At(s, p + 2 * FieldBits, CoeffBits(val, CoeffSize(val)))
                 /\ q = p + 2 * FieldBits + CoeffSize(val)
    BY <1>6 DEF FollowsCoeff
  <2> DEFINE val == bs[b + 1][c + z]
  <2>2. val \in Int /\ val < 2 ^ MaxSize /\ -val < 2 ^ MaxSize
    <3>1. c + z \in 0 .. N - 1
      <4>1. z \in Nat /\ c \in Nat /\ N \in Nat
        BY LongRunSize, Sizes
      <4>2. c + z + 1 <= N
        BY <2>1
      <4> QED
        BY <4>1, <4>2
    <3> QED
      BY <3>1, Coefficients
  <2>3. /\ At(s, p, Field(z)) /\ At(s, p + FieldBits, Field(CoeffSize(val)))
        /\ At(s, p + 2 * FieldBits, CoeffBits(val, CoeffSize(val)))
    BY <2>1
  <2> HIDE DEF val
  <2>4. /\ Field(CoeffSize(val)) \in Seq(Bit) /\ CoeffBits(val, CoeffSize(val)) \in Seq(Bit)
        /\ Field(z) \in Seq(Bit)
    BY <2>2, Codes
  <2>5. /\ At(u, p, Field(z)) /\ At(u, p + FieldBits, Field(CoeffSize(val)))
        /\ At(u, p + 2 * FieldBits, CoeffBits(val, CoeffSize(val)))
    BY <1>1, <1>3, <2>3, <2>4
  <2>6. FollowsCoeff(bs, u, p, b, c, q, d, e)
    BY <1>6, <2>1, <2>5 DEF FollowsCoeff, val
  <2> QED
    BY <2>6 DEF Follows, u
<1>7. CASE FollowsEnd(bs, s, p, b, c, q, d, e)
  <2>1. Field(0) \in Seq(Bit)
    BY <1>3, Codes
  <2>2. Len(u) \in Nat /\ Len(s) \in Nat
    BY DEF u
  <2>3. FollowsEnd(bs, u, p, b, c, q, d, e)
    BY <1>1, <1>2, <1>3, <1>7, <2>1, <2>2 DEF FollowsEnd
  <2> QED
    BY <2>3 DEF Follows, u
<1> QED
  BY <1>4, <1>5, <1>6, <1>7 DEF Follows

(* A symbol written behind the last mark adds a mark.                      *)
LEMMA ParseGrows ==
    ASSUME NEW bs \in Inputs, NEW s \in Seq(Bit), NEW t \in Seq(Bit), NEW M,
           NEW p \in Nat, NEW b \in Nat, NEW c \in Nat, Parse(bs, M, s, p, b, c),
           b < Len(bs), NEW q \in Nat, NEW d \in Nat, NEW e \in Nat,
           Follows(bs, s \o t, p, b, c, q, d, e)
    PROVE  \E L : Parse(bs, L, s \o t, q, d, e)
<1> DEFINE L == M \cup {<<q, d, e>>}
           u == s \o t
<1>1. <<0, 0, 0>> \in L
  BY DEF Parse
<1>2. ASSUME NEW x \in Nat, NEW y \in Nat, NEW z \in Nat, <<x, y, z>> \in L
      PROVE  \/ x = q /\ y = d /\ z = e
             \/ y < Len(bs) /\ \E q2, d2, e2 \in Nat : /\ <<q2, d2, e2>> \in L
                                                    /\ Follows(bs, u, x, y, z, q2, d2, e2)
  <2>1. CASE <<x, y, z>> = <<q, d, e>>
    BY <2>1
  <2>2. CASE <<x, y, z>> \in M
    <3>1. CASE x = p /\ y = b /\ z = c
      BY <3>1
    <3>2. CASE ~(x = p /\ y = b /\ z = c)
      <4>1. y < Len(bs)
        BY <2>2, <3>2 DEF Parse
      <4>2. PICK q2, d2, e2 \in Nat : <<q2, d2, e2>> \in M /\ Follows(bs, s, x, y, z, q2, d2, e2)
        BY <2>2, <3>2 DEF Parse
      <4>3. Follows(bs, u, x, y, z, q2, d2, e2)
        BY <4>1, <4>2, FollowsGrows
      <4> HIDE DEF u
      <4> QED
        BY <4>1, <4>2, <4>3
    <3> QED
      BY <3>1, <3>2
  <2> QED
    BY <1>2, <2>1, <2>2
<1> HIDE DEF L, u
<1>3. Parse(bs, L, u, q, d, e)
  BY <1>1, <1>2 DEF Parse
<1> QED
  BY <1>3 DEF u

(* Where the parts of a symbol lie.                                        *)
LEMMA TwoAppended ==
    ASSUME NEW s \in Seq(Bit), NEW f \in Seq(Bit), NEW g \in Seq(Bit)
    PROVE  /\ At(s \o (f \o g), Len(s), f) /\ At(s \o (f \o g), Len(s) + Len(f), g)
           /\ f \o g \in Seq(Bit) /\ Len(f \o g) = Len(f) + Len(g)
           /\ Len(s \o (f \o g)) = Len(s) + Len(f) + Len(g)
<1>1. At(s \o (f \o g), Len(s), f)
  BY AtAppended
<1>2. s \o f \in Seq(Bit)
  OBVIOUS
<1>3. At((s \o f) \o g, Len(s \o f), g)
  BY <1>2, AtAppended
<1>4. (s \o f) \o g = s \o (f \o g) /\ Len(s \o f) = Len(s) + Len(f)
  OBVIOUS
<1>5. f \o g \in Seq(Bit) /\ Len(f \o g) = Len(f) + Len(g)
      /\ Len(s \o (f \o g)) = Len(s) + Len(f) + Len(g)
  OBVIOUS
<1> QED
  BY <1>1, <1>3, <1>4, <1>5

LEMMA ThreeAppended ==
    ASSUME NEW s \in Seq(Bit), NEW f \in Seq(Bit), NEW g \in Seq(Bit), NEW h \in Seq(Bit)
    PROVE  /\ At(s \o (f \o g \o h), Len(s), f) /\ At(s \o (f \o g \o h), Len(s) + Len(f), g)
           /\ At(s \o (f \o g \o h), Len(s) + Len(f) + Len(g), h)
           /\ f \o g \o h \in Seq(Bit) /\ Len(f \o g \o h) = Len(f) + Len(g) + Len(h)
           /\ Len(s \o (f \o g \o h)) = Len(s) + Len(f) + Len(g) + Len(h)
<1> DEFINE fg == f \o g
<1>1. /\ At(s \o fg, Len(s), f) /\ At(s \o fg, Len(s) + Len(f), g)
      /\ fg \in Seq(Bit) /\ Len(fg) = Len(f) + Len(g)
  BY TwoAppended
<1>2. f \o g \o h = fg \o h
  OBVIOUS
<1> HIDE DEF fg
<1>3. /\ At(s \o (fg \o h), Len(s) + Len(fg), h) /\ fg \o h \in Seq(Bit)
      /\ Len(fg \o h) = Len(fg) + Len(h) /\ Len(s \o (fg \o h)) = Len(s) + Len(fg) + Len(h)
  BY <1>1, TwoAppended, ZenonT(30)
<1>4. s \o fg \in Seq(Bit) /\ (s \o fg) \o h = s \o (fg \o h)
  BY <1>1, SMTT(30)
<1>5. /\ Len(s) \in Nat /\ Len(f) \in Nat /\ Len(g) \in Nat /\ Len(h) \in Nat
      /\ Len(s) + Len(f) \in Nat
  OBVIOUS
<1>6. At((s \o fg) \o h, Len(s), f) /\ At((s \o fg) \o h, Len(s) + Len(f), g)
  <2>1. At((s \o fg) \o h, Len(s), f)
    BY <1>1, <1>4, <1>5, AtGrows
  <2>2. At((s \o fg) \o h, Len(s) + Len(f), g)
    BY <1>1, <1>4, <1>5, AtGrows
  <2> QED
    BY <2>1, <2>2
<1>7. Len(s) + Len(fg) = Len(s) + Len(f) + Len(g)
  BY <1>1, <1>5
<1> QED
  BY <1>1, <1>2, <1>3, <1>4, <1>5, <1>6, <1>7

-----------------------------------------------------------------------------
\* While a run of blocks is encoded: what was written can be read up to the
\* zeros that no symbol tells of yet.
Written ==
    /\ nblk \in 0 .. Len(blocks) /\ i \in 0 .. N /\ run \in 0 .. LongRun - 1
    /\ i > 0 => nblk < Len(blocks) /\ run < i /\ NoneIn(blocks, nblk, i - run, i)
    /\ i = 0 => run = 0
    /\ \E M : Parse(blocks, M, w, Len(w), nblk, i - run)

\* A block of which c coefficients are known.
Known(b, c) == [n \in 0 .. N - 1 |-> IF n < c THEN b[n] ELSE 0]

\* While it is decoded: the reader is at a mark, and what it has read is what
\* was written before that mark.
Reading ==
    /\ len <= Len(w) /\ pos <= len /\ \E u \in Int : len = ByteBits * u
    /\ i \in 0 .. N
    /\ phase = "decode" /\ i > 0 =>
          Len(out) < Len(blocks) /\ block = Known(blocks[Len(out) + 1], i)
    /\ phase = "end" => Len(out) < Len(blocks) /\ block = blocks[Len(out) + 1]
    /\ \E M : /\ Parse(blocks, M, w, Len(w), Len(blocks), 0)
              /\ phase = "decode" => <<pos, Len(out), i>> \in M
              /\ phase = "end" => <<pos + Padding(pos), Len(out) + 1, 0>> \in M

RInv ==
    /\ blocks \in Inputs /\ w \in Seq(Bit) /\ pos \in Nat /\ len \in Nat /\ out \in Seq(Block)
    /\ phase \in {"encode", "overflow", "decode", "end", "broken", "done"}
    /\ phase \in {"encode", "overflow"} => out = <<>> /\ pos = 0
    /\ phase = "encode" => Written
    /\ phase \in {"decode", "end"} => Reading
    /\ DecodesWhatWasEncoded /\ MissingBytesAreNoticed

\* What the encoder's steps have in common: bits for one symbol, or none.
LEMMA SymbolKeeps ==
    ASSUME RInv, phase = "encode", nblk < Len(blocks), NEW bits \in Seq(Bit),
           NEW I \in 0 .. N, NEW R \in 0 .. LongRun - 1, NEW B \in 0 .. Len(blocks),
           \A M : Parse(blocks, M, w, Len(w), nblk, i - run) =>
              \E L : Parse(blocks, L, w \o bits, Len(w \o bits), B, I - R),
           I > 0 => B < Len(blocks) /\ R < I /\ NoneIn(blocks, B, I - R, I),
           I = 0 => R = 0,
           Write(bits, i' = I /\ run' = R /\ nblk' = B), UNCHANGED <<blocks, cap, Reader>>
    PROVE  RInv'
<1>1. w \in Seq(Bit) /\ out = <<>> /\ blocks' = blocks /\ out' = out /\ pos' = pos /\ len' = len
  BY DEF RInv, Reader
<1>2. /\ blocks' \in Inputs /\ pos' \in Nat /\ len' \in Nat /\ out' \in Seq(Block)
      /\ out' = <<>> /\ pos' = 0
  BY <1>1 DEF RInv
<1>3. CASE Len(w) + Len(bits) <= cap
  <2>1. w' = w \o bits /\ phase' = "encode" /\ i' = I /\ run' = R /\ nblk' = B
    BY <1>3 DEF Write
  <2>2. \E M : Parse(blocks', M, w', Len(w'), nblk', i' - run')
    <3>1. PICK M : Parse(blocks, M, w, Len(w), nblk, i - run)
      BY DEF RInv, Written
    <3>2. PICK L : Parse(blocks, L, w \o bits, Len(w \o bits), B, I - R)
      BY <3>1
    <3>3. Parse(blocks', L, w', Len(w'), nblk', i' - run')
      BY <1>1, <2>1, <3>2
    <3> QED
      BY <3>3
  <2>3. Written'
    <3>1. NoneIn(blocks', nblk', i' - run', i') = NoneIn(blocks, B, I - R, I)
      BY <1>1, <2>1
    <3> QED
      BY <1>1, <2>1, <2>2, <3>1 DEF Written
  <2>4. w' \in Seq(Bit)
    BY <1>1, <2>1
  <2>5. DecodesWhatWasEncoded' /\ MissingBytesAreNoticed'
    BY <1>1, <2>1 DEF RInv, DecodesWhatWasEncoded, MissingBytesAreNoticed
  <2> QED
    BY <1>2, <2>1, <2>3, <2>4, <2>5 DEF RInv
<1>4. CASE ~(Len(w) + Len(bits) <= cap)
  <2>1. w' = w /\ phase' = "overflow"
    BY <1>4 DEF Write
  <2>2. DecodesWhatWasEncoded' /\ MissingBytesAreNoticed'
    BY <1>1, <2>1 DEF RInv, DecodesWhatWasEncoded, MissingBytesAreNoticed
  <2> QED
    BY <1>1, <1>2, <2>1, <2>2 DEF RInv
<1> QED
  BY <1>3, <1>4

LEMMA EncodeDCKeeps == RInv /\ EncodeDC => RInv'
<1> SUFFICES ASSUME RInv, EncodeDC PROVE RInv'
  OBVIOUS
<1> DEFINE c == CoeffSize(Coef)
           f == Field(c)
           g == CoeffBits(Coef, c)
<1>1. /\ phase = "encode" /\ nblk \in Nat /\ nblk < Len(blocks) /\ i = 0 /\ run = 0
      /\ blocks \in Inputs /\ w \in Seq(Bit) /\ Len(w) \in Nat /\ nblk \in 0 .. Len(blocks)
  BY DEF EncodeDC, RInv, Written
<1>2. Coef \in Int /\ Coef < 2 ^ MaxSize /\ -Coef < 2 ^ MaxSize
  <2>1. 0 \in 0 .. N - 1
    BY Sizes
  <2> QED
    BY <1>1, <2>1, Coefficients DEF Coef
<1>3. Write(f \o g, i' = 1 /\ run' = 0 /\ nblk' = nblk) /\ UNCHANGED <<blocks, cap, Reader>>
  BY <1>1 DEF EncodeDC, Write
<1>4. /\ f \in Seq(Bit) /\ Len(f) = FieldBits /\ g \in Seq(Bit) /\ Len(g) = c
      /\ c \in Nat /\ FieldBits \in Nat
  BY <1>2, Codes, Sizes
<1>5. blocks[nblk + 1][0] = Coef
  BY <1>1 DEF Coef
<1> HIDE DEF c, f, g
<1>6. /\ At(w \o (f \o g), Len(w), f) /\ At(w \o (f \o g), Len(w) + FieldBits, g)
      /\ f \o g \in Seq(Bit) /\ Len(w \o (f \o g)) = Len(w) + FieldBits + c
  BY <1>1, <1>4, TwoAppended
<1> DEFINE bits == f \o g
           q == Len(w) + FieldBits + c
<1>7. bits \in Seq(Bit) /\ Len(w \o bits) = q /\ q \in Nat
  BY <1>1, <1>4, <1>6
<1>8. Follows(blocks, w \o bits, Len(w), nblk, 0, q, nblk, 1)
  BY <1>5, <1>6 DEF Follows, FollowsDC, c, f, g
<1> HIDE DEF bits, q
<1>9. ASSUME NEW M, Parse(blocks, M, w, Len(w), nblk, i - run)
      PROVE  \E L : Parse(blocks, L, w \o bits, Len(w \o bits), nblk, 1 - 0)
  <2>1. Parse(blocks, M, w, Len(w), nblk, 0) /\ 1 - 0 = 1 /\ 1 \in Nat /\ 0 \in Nat
    BY <1>1, <1>9
  <2> QED
    BY <1>1, <1>7, <1>8, <2>1, ParseGrows
<1>10. 1 \in 0 .. N /\ 0 \in 0 .. LongRun - 1 /\ NoneIn(blocks, nblk, 1 - 0, 1)
  BY Sizes, LongRunSize DEF NoneIn
<1> QED
  BY <1>1, <1>3, <1>7, <1>9, <1>10, SymbolKeeps DEF bits

\* A zero more behind a run of them.
LEMMA OneMoreZero ==
    ASSUME NEW bs, NEW b, NEW c \in Int, NEW e \in Int, NoneIn(bs, b, c, e), bs[b + 1][e] = 0
    PROVE  NoneIn(bs, b, c, e + 1)
  BY DEF NoneIn

LEMMA EncodeZeroKeeps == RInv /\ EncodeZero => RInv'
<1> SUFFICES ASSUME RInv, EncodeZero PROVE RInv'
  OBVIOUS
<1>1. /\ phase = "encode" /\ nblk \in Nat /\ nblk < Len(blocks) /\ i \in 1 .. N - 1
      /\ run \in 0 .. LongRun - 1 /\ run < i /\ NoneIn(blocks, nblk, i - run, i)
      /\ blocks \in Inputs /\ w \in Seq(Bit) /\ Len(w) \in Nat /\ nblk \in 0 .. Len(blocks)
      /\ N \in Nat /\ Coef = 0
  BY Sizes DEF EncodeZero, RInv, Written
<1>2. LongRun \in Nat /\ LongRun >= 2 /\ FieldBits \in Nat
  BY LongRunSize, Sizes
<1>3. NoneIn(blocks, nblk, i - run, i + 1)
  <2>1. blocks[nblk + 1][i] = 0 /\ i \in Int /\ i - run \in Int
    BY <1>1 DEF Coef
  <2> QED
    BY <1>1, <2>1, OneMoreZero
<1>4. CASE run + 1 = LongRun
  <2> DEFINE f == Field(LongRun - 1)
             g == Field(0)
             q == Len(w) + 2 * FieldBits
             c == i - run
  <2>1. f \in Seq(Bit) /\ Len(f) = FieldBits /\ g \in Seq(Bit) /\ Len(g) = FieldBits
    BY <1>2, Codes
  <2>2. Write(f \o g, i' = i + 1 /\ run' = 0 /\ nblk' = nblk) /\ UNCHANGED <<blocks, cap, Reader>>
    BY <1>4 DEF EncodeZero, Write, LongSymbol
  <2>3. c + LongRun = i + 1 /\ c \in Nat /\ c >= 1 /\ i + 1 <= N /\ i + 1 \in Nat
    BY <1>1, <1>2, <1>4
  <2> HIDE DEF f, g
  <2>4. /\ At(w \o (f \o g), Len(w), f) /\ At(w \o (f \o g), Len(w) + FieldBits, g)
        /\ f \o g \in Seq(Bit) /\ Len(w \o (f \o g)) = q /\ q \in Nat
    <3>1. /\ At(w \o (f \o g), Len(w), f) /\ At(w \o (f \o g), Len(w) + Len(f), g)
          /\ f \o g \in Seq(Bit) /\ Len(w \o (f \o g)) = Len(w) + Len(f) + Len(g)
      BY <1>1, <2>1, TwoAppended
    <3>2. Len(w) + Len(f) + Len(g) = q /\ q \in Nat
      BY <1>1, <1>2, <2>1
    <3> QED
      BY <2>1, <3>1, <3>2
  <2> DEFINE bits == f \o g
  <2>5. Follows(blocks, w \o bits, Len(w), nblk, c, q, nblk, i + 1)
    <3>1. NoneIn(blocks, nblk, c, i + 1)
      BY <1>3
    <3> HIDE DEF c, q
    <3>2. FollowsZeros(blocks, w \o bits, Len(w), nblk, c, q, nblk, i + 1)
      BY <2>3, <2>4, <3>1 DEF FollowsZeros, f, g, q
    <3> QED
      BY <3>2 DEF Follows
  <2>6. bits \in Seq(Bit) /\ Len(w \o bits) = q /\ q \in Nat
    BY <2>4
  <2> HIDE DEF bits, q
  <2>7. ASSUME NEW M, Parse(blocks, M, w, Len(w), nblk, i - run)
        PROVE  \E L : Parse(blocks, L, w \o bits, Len(w \o bits), nblk, (i + 1) - 0)
    <3>1. Parse(blocks, M, w, Len(w), nblk, c) /\ (i + 1) - 0 = i + 1
      BY <1>1, <2>7
    <3> HIDE DEF c
    <3> QED
      BY <1>1, <2>3, <2>5, <2>6, <3>1, ParseGrows
  <2>8. i + 1 \in 0 .. N /\ 0 \in 0 .. LongRun - 1 /\ NoneIn(blocks, nblk, (i + 1) - 0, i + 1)
    BY <1>1, <1>2 DEF NoneIn
  <2> QED
    BY <1>1, <2>2, <2>6, <2>7, <2>8, SymbolKeeps DEF bits
<1>5. CASE run + 1 # LongRun
  <2>1. /\ run' = run + 1 /\ i' = i + 1 /\ UNCHANGED <<w, nblk, phase, blocks>>
        /\ UNCHANGED <<len, pos, block, out>>
    BY <1>5 DEF EncodeZero, Reader
  <2>2. i' - run' = i - run /\ run' \in 0 .. LongRun - 1 /\ run' < i' /\ i' \in 0 .. N /\ i' > 0
    BY <1>1, <1>2, <1>5, <2>1
  <2>3. NoneIn(blocks', nblk', i' - run', i')
    BY <1>3, <2>1, <2>2
  <2>4. \E M : Parse(blocks', M, w', Len(w'), nblk', i' - run')
    <3>1. PICK M : Parse(blocks, M, w, Len(w), nblk, i - run)
      BY <1>1 DEF RInv, Written
    <3> QED
      BY <2>1, <2>2, <3>1
  <2>5. Written'
    BY <1>1, <2>1, <2>2, <2>3, <2>4 DEF Written
  <2> QED
    BY <1>1, <2>1, <2>5 DEF RInv, DecodesWhatWasEncoded, MissingBytesAreNoticed
<1> QED
  BY <1>4, <1>5

LEMMA EncodeCoeffKeeps == RInv /\ EncodeCoeff => RInv'
<1> SUFFICES ASSUME RInv, EncodeCoeff PROVE RInv'
  OBVIOUS
<1> DEFINE s == CoeffSize(Coef)
           f == Field(run)
           g == Field(s)
           h == CoeffBits(Coef, s)
           q == Len(w) + 2 * FieldBits + s
           c == i - run
<1>1. /\ phase = "encode" /\ nblk \in Nat /\ nblk < Len(blocks) /\ i \in 1 .. N - 1
      /\ run \in 0 .. LongRun - 1 /\ run < i /\ NoneIn(blocks, nblk, i - run, i)
      /\ blocks \in Inputs /\ w \in Seq(Bit) /\ Len(w) \in Nat /\ nblk \in 0 .. Len(blocks)
      /\ N \in Nat /\ Coef # 0
  BY Sizes DEF EncodeCoeff, RInv, Written
<1>2. LongRun \in Nat /\ LongRun >= 2 /\ FieldBits \in Nat
  BY LongRunSize, Sizes
<1>3. Coef \in Int /\ Coef < 2 ^ MaxSize /\ -Coef < 2 ^ MaxSize
  <2>1. i \in 0 .. N - 1
    BY <1>1
  <2> QED
    BY <1>1, <2>1, Coefficients DEF Coef
<1>4. Write(f \o g \o h, i' = i + 1 /\ run' = 0 /\ nblk' = nblk) /\ UNCHANGED <<blocks, cap, Reader>>
  BY DEF EncodeCoeff, Write, Coeff
<1>5. /\ f \in Seq(Bit) /\ Len(f) = FieldBits /\ g \in Seq(Bit) /\ Len(g) = FieldBits
      /\ h \in Seq(Bit) /\ Len(h) = s /\ s \in Nat
  BY <1>1, <1>3, Codes
<1>6. blocks[nblk + 1][c + run] = Coef /\ c \in Nat /\ c >= 1 /\ c + run = i
  <2>1. c + run = i /\ c \in Nat /\ c >= 1
    BY <1>1
  <2> HIDE DEF c
  <2> QED
    BY <2>1 DEF Coef
<1> HIDE DEF f, g, h, s
<1> DEFINE bits == f \o g \o h
<1>7. /\ At(w \o bits, Len(w), f) /\ At(w \o bits, Len(w) + FieldBits, g)
      /\ At(w \o bits, Len(w) + 2 * FieldBits, h)
      /\ bits \in Seq(Bit) /\ Len(w \o bits) = q /\ q \in Nat
  <2>1. /\ At(w \o bits, Len(w), f) /\ At(w \o bits, Len(w) + Len(f), g)
        /\ At(w \o bits, Len(w) + Len(f) + Len(g), h)
        /\ bits \in Seq(Bit) /\ Len(w \o bits) = Len(w) + Len(f) + Len(g) + Len(h)
    <3>1. w \in Seq(Bit) /\ f \in Seq(Bit) /\ g \in Seq(Bit) /\ h \in Seq(Bit)
      BY <1>1, <1>5
    <3> QED
      BY <3>1, ThreeAppended
  <2>2. Len(w) + Len(f) + Len(g) = Len(w) + 2 * FieldBits /\ Len(w) + Len(f) = Len(w) + FieldBits
    BY <1>1, <1>2, <1>5
  <2> HIDE DEF bits
  <2> QED
    BY <1>1, <1>2, <1>5, <2>1, <2>2
<1> HIDE DEF bits
<1>8. Follows(blocks, w \o bits, Len(w), nblk, c, q, nblk, i + 1)
  <2>1. NoneIn(blocks, nblk, c, c + run)
    BY <1>1, <1>6
  <2>2. i + 1 = c + run + 1 /\ i + 1 <= N
    BY <1>1, <1>6
  <2> HIDE DEF c
  <2>3. FollowsCoeff(blocks, w \o bits, Len(w), nblk, c, q, nblk, i + 1)
    BY <1>1, <1>6, <1>7, <2>1, <2>2 DEF FollowsCoeff, f, g, h, s
  <2> QED
    BY <2>3 DEF Follows
<1> HIDE DEF q
<1>9. ASSUME NEW M, Parse(blocks, M, w, Len(w), nblk, i - run)
      PROVE  \E L : Parse(blocks, L, w \o bits, Len(w \o bits), nblk, (i + 1) - 0)
  <2>1. Parse(blocks, M, w, Len(w), nblk, c) /\ (i + 1) - 0 = i + 1 /\ i + 1 \in Nat
    BY <1>1, <1>9
  <2> HIDE DEF c
  <2> QED
    BY <1>1, <1>6, <1>7, <1>8, <2>1, ParseGrows
<1>10. i + 1 \in 0 .. N /\ 0 \in 0 .. LongRun - 1 /\ NoneIn(blocks, nblk, (i + 1) - 0, i + 1)
  BY <1>1, <1>2 DEF NoneIn
<1> QED
  BY <1>1, <1>4, <1>7, <1>9, <1>10, SymbolKeeps DEF bits

LEMMA EncodeEndKeeps == RInv /\ EncodeEnd => RInv'
<1> SUFFICES ASSUME RInv, EncodeEnd PROVE RInv'
  OBVIOUS
<1> DEFINE f == Field(0)
           x == Len(w) + 2 * FieldBits
           h == [k \in 1 .. Padding(x) |-> 0]
           q == x + Padding(x)
           c == i - run
<1>1. /\ phase = "encode" /\ nblk \in Nat /\ nblk < Len(blocks) /\ i = N
      /\ run \in 0 .. LongRun - 1 /\ run < i /\ NoneIn(blocks, nblk, i - run, i)
      /\ blocks \in Inputs /\ w \in Seq(Bit) /\ Len(w) \in Nat
      /\ nblk + 1 \in 0 .. Len(blocks) /\ N \in Nat /\ N > 0
  BY Sizes DEF EncodeEnd, RInv, Written
<1>2. LongRun \in Nat /\ LongRun >= 2 /\ FieldBits \in Nat
  BY LongRunSize, Sizes
<1>3. Write(f \o f \o h, i' = 0 /\ run' = 0 /\ nblk' = nblk + 1) /\ UNCHANGED <<blocks, cap, Reader>>
  BY DEF EncodeEnd, Write, EobSymbol
<1>4. Padding(x) \in Nat
  <2>1. x \in Nat
    BY <1>1, <1>2
  <2> HIDE DEF x
  <2> QED
    BY <2>1, Aligned, Sizes
<1>5. f \in Seq(Bit) /\ Len(f) = FieldBits /\ h \in Seq(Bit) /\ Len(h) = Padding(x)
  <2>1. 0 \in 0 .. LongRun - 1
    BY <1>2
  <2> QED
    BY <1>4, <2>1, Codes DEF Bit
<1>6. c \in 1 .. N /\ c \in Nat /\ c + run = N
  BY <1>1
<1> HIDE DEF f, h
<1> DEFINE bits == f \o f \o h
<1>7. /\ At(w \o bits, Len(w), f) /\ At(w \o bits, Len(w) + FieldBits, f)
      /\ bits \in Seq(Bit) /\ Len(w \o bits) = q /\ q \in Nat
  <2>1. /\ At(w \o bits, Len(w), f) /\ At(w \o bits, Len(w) + Len(f), f)
        /\ bits \in Seq(Bit) /\ Len(w \o bits) = Len(w) + Len(f) + Len(f) + Len(h)
    BY <1>1, <1>5, ThreeAppended, ZenonT(30)
  <2> HIDE DEF bits
  <2>2. Len(w) + Len(f) + Len(f) = x /\ x \in Nat
    BY <1>1, <1>2, <1>5
  <2> HIDE DEF x
  <2> QED
    BY <1>4, <1>5, <2>1, <2>2
<1> HIDE DEF bits
<1>8. Follows(blocks, w \o bits, Len(w), nblk, c, q, nblk + 1, 0)
  <2>1. NoneIn(blocks, nblk, c, N) /\ q <= Len(w \o bits)
    BY <1>1, <1>7
  <2>2. q = Len(w) + 2 * FieldBits + Padding(Len(w) + 2 * FieldBits)
    OBVIOUS
  <2> HIDE DEF c, q, x
  <2>3. FollowsEnd(blocks, w \o bits, Len(w), nblk, c, q, nblk + 1, 0)
    BY <1>6, <1>7, <2>1, <2>2 DEF FollowsEnd, f
  <2> QED
    BY <2>3 DEF Follows
<1> HIDE DEF q
<1>9. ASSUME NEW M, Parse(blocks, M, w, Len(w), nblk, i - run)
      PROVE  \E L : Parse(blocks, L, w \o bits, Len(w \o bits), nblk + 1, 0 - 0)
  <2>1. Parse(blocks, M, w, Len(w), nblk, c) /\ 0 - 0 = 0 /\ 0 \in Nat /\ nblk + 1 \in Nat
    BY <1>1, <1>9
  <2> HIDE DEF c
  <2> QED
    BY <1>1, <1>6, <1>7, <1>8, <2>1, ParseGrows
<1>10. 0 \in 0 .. N /\ 0 \in 0 .. LongRun - 1 /\ ~(0 > 0)
  BY <1>1, <1>2
<1> HIDE DEF c
<1> QED
  BY <1>1, <1>3, <1>7, <1>9, <1>10, SymbolKeeps DEF bits

LEMMA DeliverKeeps == RInv /\ Deliver => RInv'
<1> SUFFICES ASSUME RInv, Deliver PROVE RInv'
  OBVIOUS
<1>1. /\ phase = "encode" /\ nblk = Len(blocks) /\ w \in Seq(Bit) /\ Len(w) \in Nat
      /\ out = <<>> /\ pos = 0 /\ Written /\ phase' = "decode"
      /\ UNCHANGED <<blocks, w, i, pos, block, out>> /\ blocks \in Seq(Block)
  BY EntropyAssumption DEF Deliver, RInv
<1>2. i = 0 /\ run = 0
  BY <1>1 DEF Written
<1>3. PICK M : Parse(blocks, M, w, Len(w), Len(blocks), 0)
  BY <1>1, <1>2 DEF Written
<1>4. PICK bytes \in 0 .. Len(w) \div ByteBits : len' = ByteBits * bytes
  BY DEF Deliver
<1>5. len' \in Nat /\ len' <= Len(w)
  <2> DEFINE h == Len(w) \div ByteBits
  <2>1. /\ Len(w) = ByteBits * h + (Len(w) % ByteBits) /\ h \in Int
        /\ Len(w) % ByteBits \in 0 .. ByteBits - 1
    BY <1>1, Sizes, DivMod
  <2> HIDE DEF h
  <2>2. bytes \in 0 .. h
    BY <1>4 DEF h
  <2>3. ByteBits * bytes <= ByteBits * h /\ ByteBits * h \in Int /\ ByteBits * bytes \in Nat
    BY <2>1, <2>2, Sizes
  <2> QED
    BY <1>1, <1>4, <2>1, <2>3, Sizes, SMTT(30)
<1>6. /\ phase' = "decode" /\ i' = 0 /\ pos' = 0 /\ Len(out') = 0 /\ blocks' = blocks /\ w' = w
      /\ out' = <<>>
  BY <1>1, <1>2
<1>7. <<0, 0, 0>> \in M
  BY <1>3 DEF Parse
<1>8. Reading'
  <2>1. Parse(blocks', M, w', Len(w'), Len(blocks'), 0) /\ <<pos', Len(out'), i'>> \in M
    BY <1>3, <1>6, <1>7
  <2>2. \E L : /\ Parse(blocks', L, w', Len(w'), Len(blocks'), 0)
               /\ phase' = "decode" => <<pos', Len(out'), i'>> \in L
               /\ phase' = "end" => <<pos' + Padding(pos'), Len(out') + 1, 0>> \in L
    BY <1>6, <2>1
  <2>3. \E u \in Int : len' = ByteBits * u
    BY <1>4
  <2>4. 0 \in 0 .. N
    BY Sizes
  <2> QED
    BY <1>5, <1>6, <2>2, <2>3, <2>4 DEF Reading, Padding
<1>9. DecodesWhatWasEncoded' /\ MissingBytesAreNoticed'
  BY <1>1, <1>6 DEF RInv, DecodesWhatWasEncoded, MissingBytesAreNoticed
<1> QED
  BY <1>1, <1>5, <1>6, <1>8, <1>9 DEF RInv

-----------------------------------------------------------------------------
(* The decoder.                                                            *)

\* The symbol at the reader's mark, which leads to another mark.
LEMMA AtMark ==
    ASSUME RInv, phase = "decode", Len(out) < Len(blocks)
    PROVE  \E M : \E q, d, e \in Nat :
              /\ Parse(blocks, M, w, Len(w), Len(blocks), 0) /\ <<q, d, e>> \in M
              /\ Follows(blocks, w, pos, Len(out), i, q, d, e)
<1>1. /\ Reading /\ pos \in Nat /\ Len(out) \in Nat /\ i \in Nat
      /\ w \in Seq(Bit) /\ blocks \in Seq(Block) /\ Len(blocks) \in Nat
  <2>1. Reading /\ pos \in Nat /\ out \in Seq(Block) /\ w \in Seq(Bit) /\ blocks \in Inputs
    BY DEF RInv
  <2>2. i \in Nat
    BY <2>1, Sizes DEF Reading
  <2> QED
    BY <2>1, <2>2, EntropyAssumption
<1>2. PICK M : Parse(blocks, M, w, Len(w), Len(blocks), 0) /\ <<pos, Len(out), i>> \in M
  BY <1>1 DEF Reading
<1>3. ~(pos = Len(w) /\ Len(out) = Len(blocks) /\ i = 0)
  BY <1>1
<1>4. \E q, d, e \in Nat : /\ <<q, d, e>> \in M
                           /\ Follows(blocks, w, pos, Len(out), i, q, d, e)
  BY <1>1, <1>2, <1>3 DEF Parse
<1> QED
  BY <1>2, <1>4

\* A symbol that was there leads on within the block, ...
LEMMA Advances ==
    ASSUME RInv, phase = "decode", Len(out) < Len(blocks), NEW M,
           Parse(blocks, M, w, Len(w), Len(blocks), 0), NEW q \in Nat, NEW e \in 1 .. N,
           <<q, Len(out), e>> \in M, q <= len,
           pos' = q, i' = e, block' = Known(blocks[Len(out) + 1], e),
           UNCHANGED <<phase, out, blocks, w, len>>
    PROVE  RInv'
<1>1. /\ phase' = "decode" /\ out' = out /\ blocks' = blocks /\ w' = w /\ len' = len
      /\ Reading /\ out \in Seq(Block)
  BY DEF RInv
<1>2. Parse(blocks', M, w', Len(w'), Len(blocks'), 0) /\ <<pos', Len(out'), i'>> \in M
  BY <1>1
<1>3. /\ len' <= Len(w') /\ pos' <= len' /\ \E u \in Int : len' = ByteBits * u
      /\ i' \in 0 .. N /\ Len(out') < Len(blocks') /\ block' = Known(blocks'[Len(out') + 1], i')
  BY <1>1 DEF Reading
<1>4. Reading'
  <2>1. Known(blocks[Len(out) + 1], i)' = Known(blocks'[Len(out') + 1], i')
    BY DEF Known
  <2> QED
    BY <1>1, <1>2, <1>3, <2>1 DEF Reading
<1>5. DecodesWhatWasEncoded' /\ MissingBytesAreNoticed'
  BY <1>1 DEF RInv, DecodesWhatWasEncoded, MissingBytesAreNoticed
<1> QED
  BY <1>1, <1>4, <1>5 DEF RInv

\* ... or ends it, ...
LEMMA Ends ==
    ASSUME RInv, phase = "decode", Len(out) < Len(blocks), NEW M,
           Parse(blocks, M, w, Len(w), Len(blocks), 0), NEW x \in Nat,
           <<x + Padding(x), Len(out) + 1, 0>> \in M, x <= len,
           pos' = x, phase' = "end", block' = blocks[Len(out) + 1],
           UNCHANGED <<i, out, blocks, w, len>>
    PROVE  RInv'
<1>1. /\ phase' = "end" /\ out' = out /\ blocks' = blocks /\ w' = w /\ len' = len /\ i' = i
      /\ Reading /\ out \in Seq(Block)
  BY DEF RInv
<1>2. Parse(blocks', M, w', Len(w'), Len(blocks'), 0) /\ <<(pos + Padding(pos))', Len(out') + 1, 0>> \in M
  BY <1>1 DEF Padding
<1>3. /\ len' <= Len(w') /\ pos' <= len' /\ \E u \in Int : len' = ByteBits * u
      /\ i' \in 0 .. N /\ Len(out') < Len(blocks') /\ block' = blocks'[Len(out') + 1]
  BY <1>1 DEF Reading
<1>4. Reading'
  BY <1>1, <1>2, <1>3 DEF Reading
<1>5. DecodesWhatWasEncoded' /\ MissingBytesAreNoticed'
  BY <1>1 DEF RInv, DecodesWhatWasEncoded, MissingBytesAreNoticed
<1> QED
  BY <1>1, <1>4, <1>5 DEF RInv

\* ... and one that was not shows that bytes are missing.
LEMMA Breaks ==
    ASSUME RInv, phase = "decode", len < Len(w), Broken, UNCHANGED <<blocks, w, len>>
    PROVE  RInv'
<1>1. /\ phase' = "broken" /\ out' = out /\ blocks' = blocks /\ w' = w /\ len' = len /\ pos' = pos
  BY DEF Broken
<1>2. DecodesWhatWasEncoded' /\ MissingBytesAreNoticed'
  BY <1>1 DEF RInv, DecodesWhatWasEncoded, MissingBytesAreNoticed
<1> QED
  BY <1>1, <1>2 DEF RInv

LEMMA DecodeDCKeeps == RInv /\ DecodeDC => RInv'
<1> SUFFICES ASSUME RInv, DecodeDC PROVE RInv'
  OBVIOUS
<1>1. /\ phase = "decode" /\ i = 0 /\ Len(out) < Len(blocks) /\ UNCHANGED <<blocks, w, len>>
      /\ blocks \in Inputs /\ w \in Seq(Bit) /\ Len(out) \in Nat /\ pos \in Nat /\ Len(w) \in Nat
      /\ len \in Nat /\ out \in Seq(Block)
  BY DEF DecodeDC, RInv, Writer
<1>2. PICK M : \E q, d, e \in Nat :
              /\ Parse(blocks, M, w, Len(w), Len(blocks), 0) /\ <<q, d, e>> \in M
              /\ Follows(blocks, w, pos, Len(out), i, q, d, e)
  BY <1>1, AtMark
<1>3. PICK q, d, e \in Nat :
              /\ Parse(blocks, M, w, Len(w), Len(blocks), 0) /\ <<q, d, e>> \in M
              /\ Follows(blocks, w, pos, Len(out), i, q, d, e)
  BY <1>2
<1>4. FollowsDC(blocks, w, pos, Len(out), i, q, d, e)
  BY <1>1, <1>3, Sizes DEF Follows, FollowsZeros, FollowsCoeff, FollowsEnd
<1> DEFINE B == blocks[Len(out) + 1]
           val == B[0]
           c == CoeffSize(val)
           at == pos + FieldBits
<1>5. 0 \in 0 .. N - 1 /\ FieldBits \in Nat /\ at \in Nat /\ B \in Block
  BY <1>1, Sizes, Coefficients
<1>6. val \in Int /\ val < 2 ^ MaxSize /\ -val < 2 ^ MaxSize
  BY <1>1, <1>5, Coefficients
<1>7. /\ At(w, pos, Field(c)) /\ At(w, at, CoeffBits(val, c)) /\ q = at + c
      /\ d = Len(out) /\ e = 1
  BY <1>4 DEF FollowsDC
<1>8. c \in 0 .. LongRun - 1 /\ c \in Nat /\ Len(CoeffBits(val, c)) = c
  BY <1>6, Codes, LongRunSize
<1>9. Get(pos) = c
  <2> HIDE DEF c
  <2> QED
    BY <1>1, <1>7, <1>8, FieldBack DEF Get
<1>10. CoeffOf(ValueAt(w, at, c), c) = val
  BY <1>1, <1>5, <1>6, <1>7, CoeffBack
<1>11. q <= Len(w)
  BY <1>7, <1>8 DEF At
<1> HIDE DEF c, at, val, B
<1>12. CASE Have(FieldBits) /\ at + c <= len
  <2>1. /\ block' = [Zero EXCEPT ![0] = val] /\ pos' = q /\ i' = 1 /\ UNCHANGED <<phase, out>>
    BY <1>7, <1>9, <1>10, <1>12 DEF DecodeDC, at
  <2>2. [Zero EXCEPT ![0] = val] = Known(B, 1)
    <3>1. \A n \in 0 .. N - 1 : n < 1 <=> n = 0
      BY Sizes
    <3> QED
      BY <1>5, <3>1 DEF Zero, Known, val
  <2>3. 1 \in 1 .. N /\ <<q, Len(out), 1>> \in M /\ q <= len
    BY <1>3, <1>7, <1>12, Sizes
  <2> QED
    BY <1>1, <1>3, <2>1, <2>2, <2>3, Advances DEF B
<1>13. CASE ~(Have(FieldBits) /\ at + c <= len)
  <2>1. Broken
    BY <1>9, <1>13 DEF DecodeDC, at
  <2>2. len < Len(w)
    BY <1>1, <1>5, <1>7, <1>8, <1>11, <1>13 DEF Have, at
  <2> QED
    BY <1>1, <2>1, <2>2, Breaks
<1> QED
  BY <1>12, <1>13

\* What the reader finds at its mark within a block.
LEMMA WithinMark ==
    ASSUME RInv, phase = "decode", i \in 1 .. N, Len(out) < Len(blocks), NEW M,
           NEW q \in Nat, NEW d \in Nat, NEW e \in Nat,
           Follows(blocks, w, pos, Len(out), i, q, d, e)
    PROVE  /\ \/ FollowsZeros(blocks, w, pos, Len(out), i, q, d, e)
              \/ FollowsCoeff(blocks, w, pos, Len(out), i, q, d, e)
              \/ FollowsEnd(blocks, w, pos, Len(out), i, q, d, e)
           /\ blocks \in Inputs /\ w \in Seq(Bit) /\ pos \in Nat /\ Len(out) \in Nat
           /\ Len(w) \in Nat /\ len \in Nat /\ blocks[Len(out) + 1] \in Block
           /\ block = Known(blocks[Len(out) + 1], i)
<1>1. /\ blocks \in Inputs /\ w \in Seq(Bit) /\ pos \in Nat /\ out \in Seq(Block)
      /\ len \in Nat /\ Reading
  BY DEF RInv
<1>2. Len(out) \in Nat /\ Len(w) \in Nat
  BY <1>1
<1>3. i \in Int /\ i # 0 /\ i > 0
  BY Sizes
<1>4. block = Known(blocks[Len(out) + 1], i)
  BY <1>1, <1>3 DEF Reading
<1>5. ~FollowsDC(blocks, w, pos, Len(out), i, q, d, e)
  BY <1>3 DEF FollowsDC
<1> QED
  BY <1>1, <1>2, <1>4, <1>5, Coefficients DEF Follows

\* Zeros change nothing in a block that is known so far.
LEMMA KnownZeros ==
    ASSUME NEW x \in Block, NEW c \in Nat, NEW e \in Nat, c <= e,
           \A n \in c .. e - 1 : x[n] = 0
    PROVE  Known(x, c) = Known(x, e)
<1>1. \A n \in 0 .. N - 1 : (IF n < c THEN x[n] ELSE 0) = (IF n < e THEN x[n] ELSE 0)
  <2> TAKE n \in 0 .. N - 1
  <2>1. n \in Int
    BY Sizes
  <2>2. CASE n < c
    BY <2>1, <2>2
  <2>3. CASE n >= e
    BY <2>1, <2>3
  <2>4. CASE n \in c .. e - 1
    BY <2>1, <2>4
  <2> QED
    BY <2>1, <2>2, <2>3, <2>4
<1> QED
  BY <1>1, Zenon DEF Known

LEMMA KnownAll == ASSUME NEW x \in Block PROVE Known(x, N) = x
<1>1. \A n \in 0 .. N - 1 : n < N
  BY Sizes
<1>2. x = [n \in 0 .. N - 1 |-> x[n]]
  BY DEF Block
<1>3. Known(x, N) = [n \in 0 .. N - 1 |-> x[n]]
  BY <1>1 DEF Known
<1> QED
  BY <1>2, <1>3, Zenon

LEMMA KnownOneMore ==
    ASSUME NEW x \in Block, NEW m \in 0 .. N - 1
    PROVE  [Known(x, m) EXCEPT ![m] = x[m]] = Known(x, m + 1)
<1>1. \A n \in 0 .. N - 1 : n < m + 1 <=> n < m \/ n = m
  BY Sizes
<1> QED
  BY <1>1 DEF Known

LEMMA DecodeSymbolKeeps == RInv /\ DecodeSymbol => RInv'
<1> SUFFICES ASSUME RInv, DecodeSymbol PROVE RInv'
  OBVIOUS
<1>1. /\ phase = "decode" /\ i \in 1 .. N - 1 /\ i \in 1 .. N /\ UNCHANGED <<blocks, w, len>>
      /\ FieldBits \in Nat /\ N \in Nat /\ LongRun \in Nat /\ LongRun >= 2 /\ i \in Nat
  BY Sizes, LongRunSize DEF DecodeSymbol, Writer
<1>2. Len(out) < Len(blocks)
  BY <1>1 DEF RInv, Reading
<1>3. PICK M : \E q, d, e \in Nat :
              /\ Parse(blocks, M, w, Len(w), Len(blocks), 0) /\ <<q, d, e>> \in M
              /\ Follows(blocks, w, pos, Len(out), i, q, d, e)
  BY <1>1, <1>2, AtMark
<1>4. PICK q, d, e \in Nat :
              /\ Parse(blocks, M, w, Len(w), Len(blocks), 0) /\ <<q, d, e>> \in M
              /\ Follows(blocks, w, pos, Len(out), i, q, d, e)
  BY <1>3
<1> DEFINE B == blocks[Len(out) + 1]
           r == Get(pos)
           size == Get(pos + FieldBits)
           at == pos + 2 * FieldBits
<1>5. /\ blocks \in Inputs /\ w \in Seq(Bit) /\ pos \in Nat /\ Len(out) \in Nat
      /\ Len(w) \in Nat /\ len \in Nat /\ B \in Block /\ block = Known(B, i)
  BY <1>1, <1>2, <1>4, WithinMark
<1>6. pos + FieldBits \in Nat /\ at \in Nat
  BY <1>1, <1>5
<1>7. ASSUME NEW v \in 0 .. LongRun - 1, NEW p \in Nat, At(w, p, Field(v))
      PROVE  Get(p) = v /\ p + FieldBits <= Len(w)
  <2>1. Get(p) = v
    BY <1>5, <1>7, FieldBack DEF Get
  <2>2. Len(Field(v)) = FieldBits
    BY Codes
  <2> QED
    BY <1>7, <2>1, <2>2 DEF At
<1>8. CASE FollowsZeros(blocks, w, pos, Len(out), i, q, d, e)
  <2>1. /\ d = Len(out) /\ e = i + LongRun /\ e <= N /\ NoneIn(blocks, Len(out), i, e)
        /\ At(w, pos, Field(LongRun - 1)) /\ At(w, pos + FieldBits, Field(0)) /\ q = at
    BY <1>8 DEF FollowsZeros
  <2>2. r = LongRun - 1 /\ size = 0 /\ at <= Len(w)
    <3>1. LongRun - 1 \in 0 .. LongRun - 1 /\ 0 \in 0 .. LongRun - 1
      BY <1>1
    <3>2. r = LongRun - 1 /\ size = 0 /\ (pos + FieldBits) + FieldBits <= Len(w)
      BY <1>5, <1>6, <1>7, <2>1, <3>1
    <3> QED
      BY <1>1, <1>5, <3>2
  <2> HIDE DEF r, size, at, B
  <2>3. CASE Have(2 * FieldBits)
    <3>1. /\ i' = e /\ pos' = at /\ UNCHANGED <<phase, block, out>>
      BY <1>1, <2>1, <2>2, <2>3 DEF DecodeSymbol, r, size, at
    <3>2. Known(B, i) = Known(B, e)
      <4>1. i <= e /\ \A n \in i .. e - 1 : B[n] = 0
        BY <1>1, <2>1 DEF NoneIn, B
      <4> QED
        BY <1>1, <1>5, <4>1, KnownZeros
    <3>3. at <= len /\ e \in 1 .. N
      BY <1>1, <2>1, <2>3 DEF Have, at
    <3>4. /\ <<at, Len(out), e>> \in M /\ pos' = at /\ i' = e /\ block' = Known(B, e)
          /\ UNCHANGED <<phase, out, blocks, w, len>>
      BY <1>1, <1>4, <1>5, <2>1, <3>1, <3>2
    <3> QED
      BY <1>1, <1>2, <1>4, <1>6, <3>3, <3>4, Advances DEF B, at
  <2>4. CASE ~Have(2 * FieldBits)
    <3>1. Broken /\ len < Len(w)
      BY <1>5, <1>6, <2>2, <2>4 DEF DecodeSymbol, Have, at
    <3> QED
      BY <1>1, <3>1, Breaks
  <2> QED
    BY <2>3, <2>4
<1>9. CASE FollowsCoeff(blocks, w, pos, Len(out), i, q, d, e)
  <2>1. PICK z \in 0 .. LongRun - 1 :
          /\ e = i + z + 1 /\ e <= N /\ NoneIn(blocks, Len(out), i, i + z) /\ B[i + z] # 0
          /\ At(w, pos, Field(z)) /\ At(w, pos + FieldBits, Field(CoeffSize(B[i + z])))
          /\ At(w, at, CoeffBits(B[i + z], CoeffSize(B[i + z])))
          /\ q = at + CoeffSize(B[i + z])
    BY <1>9 DEF FollowsCoeff
  <2> DEFINE val == B[i + z]
             c == CoeffSize(val)
  <2>2. d = Len(out) /\ i + z \in 0 .. N - 1 /\ z \in Nat /\ i + z < N
    <3>1. d = Len(out)
      BY <1>9 DEF FollowsCoeff
    <3> QED
      BY <1>1, <2>1, <3>1
  <2>3. val \in Int /\ val < 2 ^ MaxSize /\ -val < 2 ^ MaxSize
    BY <1>2, <1>5, <2>2, Coefficients
  <2>4. c \in 0 .. LongRun - 1 /\ c \in Nat /\ Len(CoeffBits(val, c)) = c
    BY <2>3, Codes, LongRunSize
  <2>5. CoeffOf(ValueAt(w, at, c), c) = val /\ c # 0
    BY <1>5, <1>6, <2>1, <2>3, CoeffBack
  <2>6. At(w, pos, Field(z)) /\ At(w, pos + FieldBits, Field(c)) /\ At(w, at, CoeffBits(val, c))
        /\ q = at + c
    BY <2>1
  <2> HIDE DEF val, c
  <2>7. r = z /\ size = c
    BY <1>5, <1>6, <1>7, <2>4, <2>6
  <2>8. at + c <= Len(w)
    BY <2>4, <2>6 DEF At
  <2> HIDE DEF r, size, at, B
  <2>9. CASE Have(2 * FieldBits) /\ at + c <= len
    <3>1. /\ block' = [block EXCEPT ![i + z] = val] /\ i' = e /\ pos' = q
          /\ UNCHANGED <<phase, out>>
      BY <2>1, <2>2, <2>5, <2>6, <2>7, <2>9 DEF DecodeSymbol, r, size, at
    <3>2. block' = Known(B, e)
      <4>1. i + z \in Nat /\ i <= i + z /\ \A n \in i .. (i + z) - 1 : B[n] = 0
        BY <1>1, <2>1, <2>2 DEF NoneIn, B
      <4>2. block = Known(B, i + z)
        BY <1>1, <1>5, <4>1, KnownZeros
      <4>3. [Known(B, i + z) EXCEPT ![i + z] = B[i + z]] = Known(B, i + z + 1)
        BY <1>5, <2>2, KnownOneMore
      <4> QED
        BY <2>1, <3>1, <4>2, <4>3 DEF val
    <3>3. e \in 1 .. N /\ q <= len /\ <<q, Len(out), e>> \in M
      BY <1>1, <1>4, <2>1, <2>2, <2>6, <2>9
    <3> QED
      BY <1>1, <1>2, <1>4, <3>1, <3>2, <3>3, Advances DEF B
  <2>10. CASE ~(Have(2 * FieldBits) /\ at + c <= len)
    <3>1. ~(r = 0 /\ size = 0) /\ ~(r = LongRun - 1 /\ size = 0)
      BY <2>5, <2>7
    <3>2. Broken
      BY <2>7, <2>10, <3>1 DEF DecodeSymbol, r, size, at
    <3>3. len < Len(w)
      BY <1>5, <1>6, <2>4, <2>8, <2>10 DEF Have, at
    <3> QED
      BY <1>1, <3>2, <3>3, Breaks
  <2> QED
    BY <2>9, <2>10
<1>10. CASE FollowsEnd(blocks, w, pos, Len(out), i, q, d, e)
  <2>1. /\ d = Len(out) + 1 /\ e = 0 /\ NoneIn(blocks, Len(out), i, N)
        /\ At(w, pos, Field(0)) /\ At(w, pos + FieldBits, Field(0))
        /\ q = at + Padding(at)
    BY <1>10 DEF FollowsEnd
  <2>2. r = 0 /\ size = 0 /\ at <= Len(w)
    <3>1. 0 \in 0 .. LongRun - 1
      BY <1>1
    <3>2. r = 0 /\ size = 0 /\ (pos + FieldBits) + FieldBits <= Len(w)
      BY <1>5, <1>6, <1>7, <2>1, <3>1
    <3> QED
      BY <1>1, <1>5, <3>2
  <2> HIDE DEF r, size, at, B
  <2>3. CASE Have(2 * FieldBits)
    <3>1. phase' = "end" /\ pos' = at /\ UNCHANGED <<i, block, out>>
      BY <2>2, <2>3 DEF DecodeSymbol, r, size, at
    <3>2. block' = B
      <4>1. i <= N /\ \A n \in i .. N - 1 : B[n] = 0
        BY <1>1, <2>1 DEF NoneIn, B
      <4>2. Known(B, i) = Known(B, N)
        BY <1>1, <1>5, <4>1, KnownZeros
      <4> QED
        BY <1>5, <3>1, <4>2, KnownAll
    <3>3. at <= len
      BY <2>3 DEF Have, at
    <3>4. <<at + Padding(at), Len(out) + 1, 0>> \in M
      BY <1>4, <2>1
    <3> QED
      BY <1>1, <1>2, <1>4, <1>6, <3>1, <3>2, <3>3, <3>4, Ends DEF B, at
  <2>4. CASE ~Have(2 * FieldBits)
    <3>1. Broken /\ len < Len(w)
      BY <1>5, <1>6, <2>2, <2>4 DEF DecodeSymbol, Have, at
    <3> QED
      BY <1>1, <3>1, Breaks
  <2> QED
    BY <2>3, <2>4
<1> QED
  BY <1>1, <1>2, <1>4, <1>8, <1>9, <1>10, WithinMark

LEMMA DecodeFullKeeps == RInv /\ DecodeFull => RInv'
<1> SUFFICES ASSUME RInv, DecodeFull PROVE RInv'
  OBVIOUS
<1>1. /\ phase = "decode" /\ i = N /\ i \in 1 .. N /\ UNCHANGED <<blocks, w, len>>
      /\ FieldBits \in Nat /\ N \in Nat /\ LongRun \in Nat /\ LongRun >= 2
  <2>1. phase = "decode" /\ i >= N /\ Reading
    BY DEF DecodeFull, RInv
  <2>2. i = N /\ i \in 1 .. N
    BY <2>1, Sizes DEF Reading
  <2> QED
    BY <2>1, <2>2, Sizes, LongRunSize DEF DecodeFull, Writer
<1>2. Len(out) < Len(blocks)
  BY <1>1 DEF RInv, Reading
<1>3. PICK M : \E q, d, e \in Nat :
              /\ Parse(blocks, M, w, Len(w), Len(blocks), 0) /\ <<q, d, e>> \in M
              /\ Follows(blocks, w, pos, Len(out), i, q, d, e)
  BY <1>1, <1>2, AtMark
<1>4. PICK q, d, e \in Nat :
              /\ Parse(blocks, M, w, Len(w), Len(blocks), 0) /\ <<q, d, e>> \in M
              /\ Follows(blocks, w, pos, Len(out), i, q, d, e)
  BY <1>3
<1> DEFINE B == blocks[Len(out) + 1]
           at == pos + 2 * FieldBits
<1>5. /\ blocks \in Inputs /\ w \in Seq(Bit) /\ pos \in Nat /\ Len(out) \in Nat
      /\ Len(w) \in Nat /\ len \in Nat /\ B \in Block /\ block = Known(B, i)
      /\ FollowsEnd(blocks, w, pos, Len(out), i, q, d, e)
  <2>1. ~FollowsZeros(blocks, w, pos, Len(out), i, q, d, e)
    BY <1>1 DEF FollowsZeros
  <2>2. ~FollowsCoeff(blocks, w, pos, Len(out), i, q, d, e)
    BY <1>1 DEF FollowsCoeff
  <2> QED
    BY <1>1, <1>2, <1>4, <2>1, <2>2, WithinMark
<1>6. pos + FieldBits \in Nat /\ at \in Nat /\ 0 \in 0 .. LongRun - 1
  BY <1>1, <1>5
<1>7. /\ d = Len(out) + 1 /\ e = 0 /\ q = at + Padding(at)
      /\ At(w, pos, Field(0)) /\ At(w, pos + FieldBits, Field(0))
  BY <1>5 DEF FollowsEnd
<1>8. Get(pos) = 0 /\ Get(pos + FieldBits) = 0
  BY <1>5, <1>6, <1>7, FieldBack DEF Get
<1>9. at <= Len(w)
  <2>1. Len(Field(0)) = FieldBits
    BY <1>6, Codes
  <2> QED
    BY <1>1, <1>5, <1>7, <2>1 DEF At
<1> HIDE DEF B, at
<1>10. CASE Have(2 * FieldBits)
  <2>1. phase' = "end" /\ pos' = at /\ UNCHANGED <<i, block, out>>
    BY <1>8, <1>10 DEF DecodeFull, at
  <2>2. block' = B
    BY <1>1, <1>5, <2>1, KnownAll
  <2>3. at <= len /\ <<at + Padding(at), Len(out) + 1, 0>> \in M
    BY <1>4, <1>7, <1>10 DEF Have, at
  <2> QED
    BY <1>1, <1>2, <1>4, <1>6, <2>1, <2>2, <2>3, Ends DEF B, at
<1>11. CASE ~Have(2 * FieldBits)
  <2>1. Broken /\ len < Len(w)
    BY <1>5, <1>6, <1>9, <1>11 DEF DecodeFull, Have, at
  <2> QED
    BY <1>1, <2>1, Breaks
<1> QED
  BY <1>10, <1>11

(* What ends before a byte boundary is aligned no further than to it.      *)
LEMMA AlignedUpTo ==
    ASSUME NEW x \in Nat, NEW u \in Int, x <= ByteBits * u
    PROVE  x + Padding(x) <= ByteBits * u
<1>1. PICK v \in Int : x + Padding(x) = ByteBits * v
  BY Aligned
<1>2. Padding(x) \in 0 .. ByteBits - 1 /\ ByteBits \in Nat /\ ByteBits > 0
  BY Aligned, Sizes
<1>3. v <= u
  <2> SUFFICES ASSUME v >= u + 1 PROVE FALSE
    OBVIOUS
  <2>1. ByteBits * v >= ByteBits * (u + 1) /\ ByteBits * (u + 1) = ByteBits * u + ByteBits
    BY <1>2
  <2>2. ByteBits * u \in Int /\ ByteBits * v \in Int
    BY <1>2
  <2> QED
    BY <1>1, <1>2, <2>1, <2>2
<1>4. ByteBits * v <= ByteBits * u
  BY <1>2, <1>3
<1> QED
  BY <1>1, <1>4

LEMMA DecodeEndKeeps == RInv /\ DecodeEnd => RInv'
<1> SUFFICES ASSUME RInv, DecodeEnd PROVE RInv'
  OBVIOUS
<1>1. /\ phase = "end" /\ out' = Append(out, block) /\ i' = 0 /\ pos' = pos + Padding(pos)
      /\ phase' = (IF Len(out') = Len(blocks) THEN "done" ELSE "decode")
      /\ blocks' = blocks /\ w' = w /\ len' = len
  BY DEF DecodeEnd, Writer
<1>2. /\ blocks \in Inputs /\ w \in Seq(Bit) /\ pos \in Nat /\ out \in Seq(Block) /\ len \in Nat
      /\ Reading /\ Len(out) \in Nat /\ Len(w) \in Nat /\ blocks \in Seq(Block)
      /\ Len(blocks) \in Nat
  BY <1>1, EntropyAssumption DEF RInv
<1>3. /\ Len(out) < Len(blocks) /\ block = blocks[Len(out) + 1]
      /\ len <= Len(w) /\ pos <= len /\ \E u \in Int : len = ByteBits * u
  BY <1>1, <1>2 DEF Reading
<1>4. PICK M : /\ Parse(blocks, M, w, Len(w), Len(blocks), 0)
               /\ <<pos + Padding(pos), Len(out) + 1, 0>> \in M
  BY <1>1, <1>2 DEF Reading
<1>5. block \in Block
  <2>1. Len(out) + 1 \in 1 .. Len(blocks)
    BY <1>2, <1>3
  <2> QED
    BY <1>2, <1>3, <2>1
<1>6. /\ out' \in Seq(Block) /\ Len(out') = Len(out) + 1 /\ Len(out') <= Len(blocks)
      /\ \A k \in 1 .. Len(out) : out'[k] = out[k]
      /\ out'[Len(out) + 1] = block
  BY <1>1, <1>2, <1>3, <1>5
<1>7. pos' \in Nat /\ pos' <= len
  <2>1. Padding(pos) \in Nat
    <3>1. pos \in Nat
      BY <1>2
    <3> QED
      BY <3>1, Aligned, Sizes
  <2> QED
    BY <1>1, <1>2, <1>3, <2>1, AlignedUpTo
<1>8. DecodesWhatWasEncoded'
  <2> SUFFICES ASSUME NEW k \in 1 .. Len(out') PROVE out'[k] = blocks[k]
    BY <1>1, <1>6 DEF DecodesWhatWasEncoded
  <2>1. CASE k \in 1 .. Len(out)
    BY <1>6, <2>1 DEF RInv, DecodesWhatWasEncoded
  <2>2. CASE k = Len(out) + 1
    BY <1>3, <1>6, <2>2
  <2> QED
    BY <1>2, <1>6, <2>1, <2>2
<1>9. CASE Len(out') = Len(blocks)
  <2>1. phase' = "done" /\ Len(out) + 1 = Len(blocks)
    BY <1>1, <1>6, <1>9
  <2>2. pos' = Len(w)
    <3>1. pos' \in Nat /\ Len(out) + 1 \in Nat /\ 0 \in Nat /\ <<pos', Len(out) + 1, 0>> \in M
      BY <1>1, <1>2, <1>4, <1>7
    <3>2. ~(Len(out) + 1 < Len(blocks))
      BY <1>2, <2>1
    <3> QED
      BY <1>4, <3>1, <3>2 DEF Parse
  <2>3. len = Len(w)
    BY <1>2, <1>3, <1>7, <2>2
  <2>4. MissingBytesAreNoticed'
    BY <1>1, <2>1, <2>3 DEF MissingBytesAreNoticed
  <2> QED
    BY <1>1, <1>2, <1>6, <1>7, <1>8, <2>1, <2>4 DEF RInv
<1>10. CASE Len(out') # Len(blocks)
  <2>1. phase' = "decode"
    BY <1>1, <1>10
  <2>2. Parse(blocks', M, w', Len(w'), Len(blocks'), 0) /\ <<pos', Len(out'), i'>> \in M
    BY <1>1, <1>4, <1>6
  <2>3. Reading'
    <3>1. /\ len' <= Len(w') /\ pos' <= len' /\ \E u \in Int : len' = ByteBits * u
          /\ i' \in 0 .. N /\ ~(i' > 0)
      BY <1>1, <1>3, <1>7, Sizes
    <3> QED
      BY <2>1, <2>2, <3>1 DEF Reading
  <2>4. MissingBytesAreNoticed'
    BY <2>1 DEF MissingBytesAreNoticed
  <2> QED
    BY <1>1, <1>2, <1>6, <1>7, <1>8, <2>1, <2>3, <2>4 DEF RInv
<1> QED
  BY <1>9, <1>10

LEMMA RInvInit == Init => RInv
<1> SUFFICES ASSUME Init PROVE RInv
  OBVIOUS
<1>1. /\ blocks \in Inputs /\ blocks \in Seq(Block) /\ Len(blocks) \in Nat /\ nblk = 0 /\ w = <<>>
      /\ i = 0 /\ run = 0 /\ phase = "encode" /\ len = 0 /\ pos = 0 /\ out = <<>> /\ Len(w) = 0
  BY EntropyAssumption DEF Init
<1>2. Parse(blocks, {<<0, 0, 0>>}, w, Len(w), nblk, i - run)
  <2>1. Len(w) = 0 /\ nblk = 0 /\ i - run = 0
    BY <1>1
  <2> QED
    BY <2>1 DEF Parse
<1>3. Written
  BY <1>1, <1>2, Sizes, LongRunSize DEF Written
<1> QED
  BY <1>1, <1>3 DEF RInv, DecodesWhatWasEncoded, MissingBytesAreNoticed

LEMMA RInvStep == RInv /\ [Next]_svars => RInv'
<1> SUFFICES ASSUME RInv, [Next]_svars PROVE RInv'
  OBVIOUS
<1>1. CASE UNCHANGED svars
  BY <1>1 DEF svars, RInv, Written, Reading, Known, Padding, DecodesWhatWasEncoded,
              MissingBytesAreNoticed
<1> QED
  BY <1>1, EncodeDCKeeps, EncodeZeroKeeps, EncodeCoeffKeeps, EncodeEndKeeps, DeliverKeeps,
     DecodeDCKeeps, DecodeSymbolKeeps, DecodeFullKeeps, DecodeEndKeeps DEF Next

(* Whatever the blocks, as long as their coefficients have at most MaxSize *)
(* bits: the decoder gives back the blocks that were encoded, however much *)
(* of the stream is missing behind them.                                   *)
THEOREM CodecIsLossless == Spec => []DecodesWhatWasEncoded
<1>1. RInv => DecodesWhatWasEncoded
  BY DEF RInv
<1> QED
  BY <1>1, RInvInit, RInvStep, PTL DEF Spec

(* It reports an error if and only if bits are missing.                    *)
THEOREM TruncationIsNoticed == Spec => []MissingBytesAreNoticed
<1>1. RInv => MissingBytesAreNoticed
  BY DEF RInv
<1> QED
  BY <1>1, RInvInit, RInvStep, PTL DEF Spec
=============================================================================
