------------------------------ MODULE Transform ------------------------------
(***************************************************************************)
(* dct.c and quant.c: what happens to one 8 x 8 block between its samples  *)
(* and its quantised coefficients.  A block is a function on 0 .. 63.  The *)
(* DCT is integer arithmetic with a cosine table scaled by 1024; >> rounds *)
(* down, as \div does.                                                     *)
(***************************************************************************)
EXTENDS Integers, Sequences

Cells == 0 .. 63
Line  == 0 .. 7

Int16(x) == ((x + 32768) % 65536) - 32768

COS_TABLE ==
    << << 1024, 1004,  946,  851,  724,  569,  392,  200 >>,
       << 1024,  851,  392, -200, -724, -1004, -946, -569 >>,
       << 1024,  569, -392, -1004, -724,  200,  946,  851 >>,
       << 1024,  200, -946, -569,  724,  851, -392, -1004 >>,
       << 1024, -200, -946,  569,  724, -851, -392,  1004 >>,
       << 1024, -569, -392,  1004, -724, -200,  946, -851 >>,
       << 1024, -851,  392,  200, -724,  1004, -946,  569 >>,
       << 1024, -1004,  946, -851,  724, -569,  392, -200 >> >>

Cos(n, k) == COS_TABLE[n + 1][k + 1]

\* Mutant: the sum is left as it is.
Unscaled(k) == 1024 + 0 * k

Scale(k)  == IF k = 0 THEN 512 ELSE 724

Sum8(v) == v[0] + v[1] + v[2] + v[3] + v[4] + v[5] + v[6] + v[7]

\* (sum * scale + 2^19) >> 20 in two steps, each within 32 bits.
Shift20(sum, scale) ==
    ((sum \div 1024) * scale + ((sum % 1024) * scale + 524288) \div 1024) \div 1024

dct1d(v) ==
    [k \in Line |-> Shift20(Sum8([n \in Line |-> v[n] * Cos(n, k)]), Scale(k))]

idct1d(v) ==
    LET scaled == [k \in Line |-> (v[k] * Scale(k) + 512) \div 1024]
    IN  [n \in Line |-> (Sum8([k \in Line |-> scaled[k] * Cos(n, k)]) + 1024) \div 2048]

\* Apply a one-dimensional transform to every row, to every column.
Rows(F(_), b) == LET t == [r \in Line |-> F([c \in Line |-> b[8 * r + c]])]
                 IN  [p \in Cells |-> t[p \div 8][p % 8]]
Cols(F(_), b) == LET t == [c \in Line |-> F([r \in Line |-> b[8 * r + c]])]
                 IN  [p \in Cells |-> t[p % 8][p \div 8]]

dct8x8(b)  == [p \in Cells |-> Int16(Cols(dct1d, Rows(dct1d, b))[p])]
idct8x8(b) == [p \in Cells |-> Int16(Rows(idct1d, Cols(idct1d, b))[p])]

-----------------------------------------------------------------------------
(* quant.c *)

ZIGZAG ==
    <<  0,  1,  8, 16,  9,  2,  3, 10, 17, 24, 32, 25, 18, 11,  4,  5,
       12, 19, 26, 33, 40, 48, 41, 34, 27, 20, 13,  6,  7, 14, 21, 28,
       35, 42, 49, 56, 57, 50, 43, 36, 29, 22, 15, 23, 30, 37, 44, 51,
       58, 59, 52, 45, 38, 31, 39, 46, 53, 60, 61, 54, 47, 55, 62, 63 >>

QUANT_LUMA_BASE ==
    << 16, 11, 10, 16,  24,  40,  51,  61, 12, 12, 14, 19,  26,  58,  60,  55,
       14, 13, 16, 24,  40,  57,  69,  56, 14, 17, 22, 29,  51,  87,  80,  62,
       18, 22, 37, 56,  68, 109, 103,  77, 24, 35, 55, 64,  81, 104, 113,  92,
       49, 64, 78, 87, 103, 121, 120, 101, 72, 92, 95, 98, 112, 100, 103,  99 >>

QUANT_CHROMA_BASE ==
    << 17, 18, 24, 47 >> \o <<99, 99, 99, 99>> \o << 18, 21, 26, 66 >> \o <<99, 99, 99, 99>>
    \o << 24, 26, 56, 99 >> \o <<99, 99, 99, 99>> \o << 47, 66, 99, 99 >>
    \o [n \in 1 .. 36 |-> 99]

\* What v becomes between lo and hi.
Clip(v, lo, hi) == IF v < lo THEN lo ELSE IF v > hi THEN hi ELSE v

\* quant_build_table
BuildTable(base, quality) ==
    LET q     == Clip(quality, 1, 100)
        scale == IF q < 50 THEN 5000 \div q ELSE 200 - 2 * q
    IN  [n \in Cells |-> Clip((base[n + 1] * scale + 50) \div 100, 1, 255)]

\* Round to the nearest multiple of q, away from zero when between two.
Quantise(val, q) == IF val >= 0 THEN (val + q \div 2) \div q
                                ELSE -((-val + q \div 2) \div q)

\* The output is in zigzag order, and so is the table that is read.
quant_encode(b, qtable) == [n \in Cells |-> Int16(Quantise(b[ZIGZAG[n + 1]], qtable[n]))]

\* Where the coefficient of cell p is in zigzag order.
Place == [p \in Cells |-> CHOOSE n \in Cells : ZIGZAG[n + 1] = p]

quant_decode(b, qtable) == [p \in Cells |-> Int16(b[Place[p]] * qtable[Place[p]])]
=============================================================================
