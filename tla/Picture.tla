------------------------------- MODULE Picture -------------------------------
(***************************************************************************)
(* The way of one picture through encoder.c and back through decoder.c:    *)
(* RGB to planes, every 8 x 8 block of every plane through the transform,  *)
(* the coefficients through the entropy coder (Entropy shows that they     *)
(* arrive as they are), the blocks back into planes, planes to RGB.  One   *)
(* step per block, in the order of the loops.                              *)
(***************************************************************************)
EXTENDS Planes, Transform

CONSTANTS
    Sizes,          \* widths and heights of pictures (bound)
    Pictures(_, _), \* the pictures of a width and height (bound)
    Qualities,      \* quality settings (bound)
    MaxSize,        \* bits of the largest coefficient: Entropy's MaxSize
    RoundOff        \* error allowed for the integer transform (bound)

Byte == 0 .. 255

ASSUME PictureAssumption ==
    /\ Sizes \subseteq (Nat \ {0}) \X (Nat \ {0})
    /\ \A s \in Sizes : Pictures(s[1], s[2]) \subseteq
          [0 .. s[2] - 1 -> [0 .. s[1] - 1 -> Byte \X Byte \X Byte]]
    /\ Qualities \subseteq Int /\ MaxSize \in Nat /\ RoundOff \in Nat

VARIABLES
    width, height, quality,
    pic,            \* the RGB picture handed to encoder_write_iframe_rgb
    phase,          \* "convert", "encode", "decode", "show", "done", or
                    \*   "outside": a block reached beyond its buffer
    n,              \* blocks encoded or decoded in this phase
    buf,            \* the encoder's planes
    stream,         \* the quantised blocks, in the order of the bit stream
    dbuf,           \* the decoder's planes
    shown           \* the picture that comes out

fixed == <<width, height, quality, pic>>
ivars == <<fixed, phase, n, buf, stream, dbuf, shown>>

Fmt    == "YUV420P"
Unset  == -1        \* a byte that malloc returned and nobody wrote
Buffer == BufferSize(Fmt, width, height)

Init ==
    /\ \E s \in Sizes : width = s[1] /\ height = s[2]
    /\ quality \in Qualities /\ pic \in Pictures(width, height)
    /\ phase = "convert" /\ n = 0 /\ buf = <<>> /\ stream = <<>>
    /\ dbuf = [a \in 0 .. Buffer - 1 |-> Unset] /\ shown = <<>>

Convert ==
    /\ phase = "convert" /\ phase' = "encode"
    /\ buf' = ToPlanes(Fmt, width, height, pic)
    /\ UNCHANGED <<fixed, n, stream, dbuf, shown>>

-----------------------------------------------------------------------------
(* The loops over planes and blocks: mb_w, mb_h, mb_w_c, mb_h_c.           *)

Across(p) == IF p = 0 THEN (width + 7) \div 8 ELSE (width \div 2 + 7) \div 8
\* Mutant: as many rows of blocks in every plane as in the first.
DownOfLuma(p) == (height + 7 + 0 * p) \div 8

\* Mutant: the rows are counted by the width.
DownByWidth(p) == IF p = 0 THEN (width + 7) \div 8 ELSE (width \div 2 + 7) \div 8

Down(p)   == IF p = 0 THEN (height + 7) \div 8 ELSE (height \div 2 + 7) \div 8
BlocksBefore(p) == IF p = 0 THEN 0
                   ELSE Across(0) * Down(0) + (p - 1) * Across(1) * Down(1)
Blocks    == BlocksBefore(3)

PlaneOf(k) == CHOOSE p \in 0 .. 2 : BlocksBefore(p) <= k /\ k < BlocksBefore(p + 1)

Stride(k) == PlaneWidth(Fmt, width, PlaneOf(k))

\* Where block k begins: yp + by*8*ys + bx*8.
Origin(k) ==
    LET i == k - BlocksBefore(PlaneOf(k))
    IN  PlaneStart(Fmt, width, height, PlaneOf(k))
          + (i \div Across(PlaneOf(k))) * 8 * Stride(k) + (i % Across(PlaneOf(k))) * 8

Address(k, c) == Origin(k) + (c \div 8) * Stride(k) + (c % 8)

\* The cell of block k that is written last at address a, or -1: in a plane
\* of less than 8 columns the rows of a block overlap.
CellAt(k, a) ==
    LET off == a - Origin(k)
        row == Clip(off \div Stride(k), 0, 7)
        col == off - row * Stride(k)
    IN  IF col \in Line THEN 8 * row + col ELSE -1

\* Within the buffer that holds the three planes one behind the other.
Inside(k) == \A c \in Cells : Address(k, c) < Buffer

Table(k) == BuildTable(IF PlaneOf(k) = 0 THEN QUANT_LUMA_BASE ELSE QUANT_CHROMA_BASE,
                       quality)

Leave == phase' = "outside" /\ UNCHANGED <<fixed, n, buf, stream, dbuf, shown>>

\* encode_block
EncodeBlock ==
    /\ phase = "encode"
    /\ IF ~Inside(n) THEN Leave
       ELSE /\ stream' = Append(stream, quant_encode(
                  dct8x8([c \in Cells |-> buf[Address(n, c)] - 128]), Table(n)))
            /\ IF n + 1 = Blocks THEN phase' = "decode" /\ n' = 0
                                 ELSE n' = n + 1 /\ UNCHANGED phase
            /\ UNCHANGED <<fixed, buf, dbuf, shown>>

\* Mutant: the sample is stored in eight bits without being clamped.
DecodedWraps(k) ==
    LET b == idct8x8(quant_decode(stream[k + 1], Table(k)))
    IN  [c \in Cells |-> (b[c] + 128) % 256]

\* decode_block: v is clamped to a byte.
Decoded(k) ==
    LET b == idct8x8(quant_decode(stream[k + 1], Table(k)))
    IN  [c \in Cells |-> Clip(b[c] + 128, 0, 255)]

DecodeBlock ==
    /\ phase = "decode"
    /\ IF ~Inside(n) THEN Leave
       ELSE /\ LET b == Decoded(n)
               IN  dbuf' = [a \in DOMAIN dbuf |->
                              IF CellAt(n, a) >= 0 THEN b[CellAt(n, a)] ELSE dbuf[a]]
            /\ IF n + 1 = Blocks THEN phase' = "show" /\ n' = 0
                                 ELSE n' = n + 1 /\ UNCHANGED phase
            /\ UNCHANGED <<fixed, buf, stream, shown>>

Show ==
    /\ phase = "show" /\ phase' = "done"
    /\ shown' = FromPlanes(Fmt, width, height, dbuf)
    /\ UNCHANGED <<fixed, n, buf, stream, dbuf>>

Next == Convert \/ EncodeBlock \/ DecodeBlock \/ Show

Spec == Init /\ [][Next]_ivars
-----------------------------------------------------------------------------
\* Every variable keeps its type: the planes hold bytes once they are
\* converted, whatever the clamps of colorspace.c and decode_block are given.
PictureTypeOK ==
    /\ phase \in {"convert", "encode", "decode", "show", "done", "outside"}
    /\ n \in 0 .. Blocks - 1 /\ Len(stream) <= Blocks
    /\ \A a \in DOMAIN buf : buf[a] \in Byte
    /\ \A a \in DOMAIN dbuf : dbuf[a] \in Byte \cup {Unset}
    /\ phase = "done" => \A y \in 0 .. height - 1, x \in 0 .. width - 1 :
                             \A i \in 1 .. 3 : shown[y][x][i] \in Byte

\* encoder.c:84-113 and decoder.c:98-127 step through the planes by blocks of
\* 8 x 8: no block reaches beyond the buffer that frame_buffer_size measured
\* (frame.h:142).
BlocksStayInside == phase # "outside"

\* The two programs count blocks from the size of the picture and not from
\* that of the planes: the blocks still cover every plane, so the conversion
\* back to RGB reads no byte that nobody wrote.
PictureIsWhole ==
    phase = "show" => \A a \in DOMAIN dbuf : dbuf[a] # Unset

\* A coefficient leaves the quantiser with at most MaxSize bits, however
\* the samples of its block are chosen and even when every step is 1: that is
\* what keeps a block within the encoder's 256 bytes (Entropy, EncoderHasRoom).
CoefficientsFit ==
    \A i \in 1 .. Len(stream) : \A m \in Cells :
        stream[i][m] \in -(2^MaxSize - 1) .. 2^MaxSize - 1

Square(x) == x * x
Energy(v) == Sum8([r \in Line |-> Sum8([c \in Line |-> Square(v[8 * r + c])])])

\* The quantiser is the only thing that may lose anything: the squared error
\* of a block (dct8x8 doubles lengths, idct8x8 halves them) is at most what
\* rounding every coefficient to a multiple of its step may cost, RoundOff
\* aside, which allows for the integer arithmetic of dct.c.
CloseToTheOriginal ==
    phase = "show" =>
        \A k \in 0 .. Blocks - 1 :
            4 * Energy([c \in Cells |-> buf[Address(k, c)] - dbuf[Address(k, c)]])
              <= Energy([p \in Cells |-> Table(k)[Place[p]] \div 2 + RoundOff])

Grey(colour) == colour[1] = colour[2] /\ colour[2] = colour[3]

\* A picture without colour comes back without colour, at every quality.
GreyStaysGrey ==
    (phase = "done" /\ \A y \in 0 .. height - 1, x \in 0 .. width - 1 : Grey(pic[y][x])) =>
        \A y \in 0 .. height - 1, x \in 0 .. width - 1 : Grey(shown[y][x])
=============================================================================
