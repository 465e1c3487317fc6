------------------------------- MODULE Entropy -------------------------------
(***************************************************************************)
(* entropy.c: a run of blocks is encoded into a bit stream, the stream may *)
(* lose its end, and what is left is decoded.  A step handles one          *)
(* coefficient on the way in, one symbol on the way out; any of them may   *)
(* find the buffer full or the bits used up.                               *)
(***************************************************************************)
EXTENDS Bitstream

CONSTANTS
    FieldBits,      \* 4: width of a run and of a size
    N,              \* 64: coefficients of a block
    MaxSize,        \* bits of the largest coefficient
    Inputs,         \* the runs of blocks to encode (bound)
    Caps            \* the sizes of the buffer, in bytes (bound)

Block   == [0 .. N - 1 -> Int]
LongRun == 2 ^ FieldBits        \* zeros that one (15, 0) stands for

ASSUME EntropyAssumption ==
    /\ FieldBits \in Nat \ {0} /\ N \in Nat \ {0} /\ MaxSize \in Nat
    /\ MaxSize < LongRun /\ LongRun \in Nat
    /\ Inputs \subseteq Seq(Block) /\ Caps \subseteq Nat

Int16Bits == 16         \* bits of an int16_t, enough for any size

\* What the code takes for granted of shifts, and of the coefficients it is
\* given: Picture's CoefficientsFit.
ASSUME SizeAssumption ==
    /\ FieldBits <= Int16Bits /\ MaxSize <= Int16Bits
    /\ \A k \in 0 .. Int16Bits : 2 ^ k \in Nat \ {0} /\ \A j \in 0 .. k - 1 : 2 ^ j < 2 ^ k
    /\ 2 ^ 0 = 1 /\ \A k \in 1 .. Int16Bits : 2 ^ k = 2 * 2 ^ (k - 1)
    /\ \A input \in Inputs : \A k \in 1 .. Len(input), n \in 0 .. N - 1 :
          input[k][n] < 2 ^ MaxSize /\ -input[k][n] < 2 ^ MaxSize

VARIABLES
    blocks,         \* what is encoded
    cap,            \* the bits of the writer's buffer
    nblk,           \* the blocks encoded
    w,              \* the bits written
    i,              \* the next coefficient of the block at hand
    run,            \* the zeros since the last symbol
    phase,          \* "encode", "overflow", "decode", "end" (of a
                    \*   block), "broken", "done"
    len,            \* the bits that reach the reader
    pos,            \* the bits read
    block,          \* the block being decoded
    out             \* the blocks decoded

svars == <<blocks, cap, nblk, w, i, run, phase, len, pos, block, out>>

\* Mutant: a bit for the sign is counted.
CoeffSizeSigned(val) ==
    LET a == IF val < 0 THEN -val ELSE val
    IN  1 + CHOOSE n \in 0 .. Int16Bits : a < 2 ^ n /\ (n = 0 \/ 2 ^ (n - 1) <= a)

\* coeff_size
CoeffSize(val) ==
    LET a == IF val < 0 THEN -val ELSE val
    IN  CHOOSE n \in 0 .. Int16Bits : a < 2 ^ n /\ (n = 0 \/ 2 ^ (n - 1) <= a)

\* Mutant: a negative coefficient is written as its complement plus one.
CoeffBitsTwos(val, size) ==
    BitsOf(IF val > 0 THEN val ELSE val + 2 ^ size, size)

\* write_coeff, read_coeff
CoeffBits(val, size) ==
    BitsOf(IF val > 0 THEN val ELSE val + 2 ^ size - 1, size)
CoeffOf(bits, size) ==
    IF size = 0 THEN 0
    ELSE IF bits >= 2 ^ (size - 1) THEN bits ELSE bits - 2 ^ size + 1

Field(val) == BitsOf(val, FieldBits)
LongSymbol == Field(LongRun - 1) \o Field(0)
EobSymbol  == Field(0) \o Field(0)
Coeff(r, val) == Field(r) \o Field(CoeffSize(val)) \o CoeffBits(val, CoeffSize(val))

Zero == [n \in 0 .. N - 1 |-> 0]

Init ==
    /\ blocks \in Inputs /\ \E bytes \in Caps : cap = ByteBits * bytes
    /\ nblk = 0 /\ w = <<>> /\ i = 0 /\ run = 0 /\ phase = "encode"
    /\ len = 0 /\ pos = 0 /\ block = Zero /\ out = <<>>

-----------------------------------------------------------------------------
(* entropy_encode_block *)

Reader == <<len, pos, block, out>>

Coef == blocks[nblk + 1][i]

\* Writes bits and goes on, or gives the frame up when the buffer is full.
Write(bits, Continue) ==
    IF Len(w) + Len(bits) <= cap
    THEN w' = w \o bits /\ Continue /\ UNCHANGED phase
    ELSE phase' = "overflow" /\ UNCHANGED <<w, nblk, i, run>>

EncodeDC ==
    /\ phase = "encode" /\ nblk < Len(blocks) /\ i = 0
    /\ Write(Field(CoeffSize(Coef)) \o CoeffBits(Coef, CoeffSize(Coef)),
             i' = 1 /\ UNCHANGED <<nblk, run>>)
    /\ UNCHANGED <<blocks, cap, Reader>>

EncodeZero ==
    /\ phase = "encode" /\ i \in 1 .. N - 1 /\ Coef = 0
    /\ IF run + 1 = LongRun
       THEN Write(LongSymbol, i' = i + 1 /\ run' = 0 /\ UNCHANGED nblk)
       ELSE run' = run + 1 /\ i' = i + 1 /\ UNCHANGED <<w, nblk, phase>>
    /\ UNCHANGED <<blocks, cap, Reader>>

EncodeCoeff ==
    /\ phase = "encode" /\ i \in 1 .. N - 1 /\ Coef # 0
    /\ Write(Coeff(run, Coef), i' = i + 1 /\ run' = 0 /\ UNCHANGED nblk)
    /\ UNCHANGED <<blocks, cap, Reader>>

\* The EOB, then on to the next byte.
EncodeEnd ==
    /\ phase = "encode" /\ i = N
    /\ Write(EobSymbol \o [k \in 1 .. Padding(Len(w) + 2 * FieldBits) |-> 0],
             i' = 0 /\ run' = 0 /\ nblk' = nblk + 1)
    /\ UNCHANGED <<blocks, cap, Reader>>

-----------------------------------------------------------------------------
(* What reaches the reader: the whole stream, or less.                     *)

Deliver ==
    /\ phase = "encode" /\ nblk = Len(blocks)
    /\ \E bytes \in 0 .. Len(w) \div ByteBits : len' = ByteBits * bytes
    /\ phase' = "decode"
    /\ UNCHANGED <<blocks, cap, nblk, w, i, run, pos, block, out>>

-----------------------------------------------------------------------------
(* entropy_decode_block *)

Writer == <<blocks, cap, nblk, w, run, len>>

\* n more bits are there.
Have(n)  == pos + n <= len
Broken   == phase' = "broken" /\ UNCHANGED <<i, pos, block, out>>
Get(at)  == ValueAt(w, at, FieldBits)

DecodeDC ==
    /\ phase = "decode" /\ i = 0 /\ Len(out) < Len(blocks)
    /\ LET size == Get(pos)
           at   == pos + FieldBits
       IN  IF Have(FieldBits) /\ at + size <= len
           THEN /\ block' = [Zero EXCEPT ![0] = CoeffOf(ValueAt(w, at, size), size)]
                /\ pos' = at + size /\ i' = 1 /\ UNCHANGED <<phase, out>>
           ELSE Broken
    /\ UNCHANGED Writer

\* One pair (run, size).  A long run may lead past the end of the block.
DecodeSymbol ==
    /\ phase = "decode" /\ i \in 1 .. N - 1
    /\ LET r    == Get(pos)
           size == Get(pos + FieldBits)
           at   == pos + 2 * FieldBits
       IN  IF ~Have(2 * FieldBits) THEN Broken
           ELSE IF r = 0 /\ size = 0
           THEN /\ phase' = "end" /\ pos' = at /\ UNCHANGED <<i, block, out>>
           ELSE IF r = LongRun - 1 /\ size = 0
           THEN /\ i' = i + LongRun /\ pos' = at /\ UNCHANGED <<phase, block, out>>
           ELSE IF i + r < N /\ at + size <= len
           THEN /\ block' = [block EXCEPT ![i + r] = CoeffOf(ValueAt(w, at, size), size)]
                /\ i' = i + r + 1 /\ pos' = at + size /\ UNCHANGED <<phase, out>>
           ELSE Broken
    /\ UNCHANGED Writer

\* Mutant: a block that is full is not followed by an EOB.
DecodeFullNoEob ==
    /\ phase = "decode" /\ i >= N
    /\ phase' = "end" /\ UNCHANGED <<pos, i, block, out>>
    /\ UNCHANGED Writer

\* The loop ended without an EOB: it must follow.
DecodeFull ==
    /\ phase = "decode" /\ i >= N
    /\ IF Have(2 * FieldBits) /\ Get(pos) = 0 /\ Get(pos + FieldBits) = 0
       THEN /\ phase' = "end" /\ pos' = pos + 2 * FieldBits
            /\ UNCHANGED <<i, block, out>>
       ELSE Broken
    /\ UNCHANGED Writer

DecodeEnd ==
    /\ phase = "end"
    /\ out' = Append(out, block) /\ i' = 0
    /\ pos' = pos + Padding(pos) /\ UNCHANGED block
    /\ phase' = IF Len(out') = Len(blocks) THEN "done" ELSE "decode"
    /\ UNCHANGED Writer

Next == \/ EncodeDC \/ EncodeZero \/ EncodeCoeff \/ EncodeEnd \/ Deliver
        \/ DecodeDC \/ DecodeSymbol \/ DecodeFull \/ DecodeEnd

Spec == Init /\ [][Next]_svars

-----------------------------------------------------------------------------
EntropyTypeOK ==
    /\ nblk \in 0 .. Len(blocks) /\ i \in Nat /\ run \in 0 .. LongRun - 1
    /\ phase \in {"encode", "overflow", "decode", "end", "broken", "done"}
    /\ Len(w) <= cap /\ pos <= len + ByteBits /\ block \in Block

(* Every block decoded is the block encoded, coefficient by coefficient,   *)
(* with whatever followed it cut off: runs longer than a field can tell,   *)
(* signs, sizes and alignment between blocks survive.                      *)
DecodesWhatWasEncoded ==
    /\ Len(out) <= Len(blocks)
    /\ \A k \in 1 .. Len(out) : out[k] = blocks[k]

(* Decoding ends without an error exactly when nothing is missing.         *)
MissingBytesAreNoticed ==
    /\ phase = "done" => len = Len(w)
    /\ phase = "broken" => len < Len(w)

\* The most bits a block can take: each coefficient a symbol of its own.
BlockBits == LET n == FieldBits + MaxSize + (N - 1) * (2 * FieldBits + MaxSize)
                         + 2 * FieldBits
             IN  n + Padding(n)

(* A buffer with room for the longest encoding of every block is never     *)
(* too small (encoder.c takes 256 bytes for each block).                   *)
EncoderHasRoom == phase = "overflow" => cap < Len(blocks) * BlockBits
=============================================================================
