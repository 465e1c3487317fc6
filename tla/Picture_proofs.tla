---------------------------- MODULE Picture_proofs ----------------------------
(***************************************************************************)
(* Proofs about Picture, for every size, picture and quality.              *)
(*                                                                         *)
(* No coefficient exceeds 2048, since no column of the cosine table adds   *)
(* up to more than 8192 (Dct8x8) and no step is below 1 (Encoded); every   *)
(* sample and colour is a byte (PInv).  For pictures of whole macroblocks  *)
(* the blocks tile the planes (Tiles, AddressIs), lie inside the buffer    *)
(* (AllInside), cover it (Covered, WInv) and do not overlap (BlocksApart); *)
(* and the chroma of a picture without colour is 128 from end to end       *)
(* (GInv).  The last part bounds what is lost: the rows of the cosine      *)
(* table are nearly orthogonal (RowSquares), so a pass there and back      *)
(* halves squared errors up to what it rounds off (OnePass); two passes    *)
(* quarter what the quantiser does to the coefficients (BothPasses), which *)
(* is at most half a step each (QuantiseNear); and the buffers and the     *)
(* stream hold what the stages before them made (CInv).                    *)
(***************************************************************************)
EXTENDS Picture, Modular

-----------------------------------------------------------------------------
(* The transform.                                                          *)

(* No column of the cosine table adds up to more than its first.           *)
LEMMA ColumnSum ==
    ASSUME NEW v \in [Line -> Int], NEW m \in Nat, \A j \in Line : v[j] \in -m .. m,
           NEW k \in Line
    PROVE  LET s == Sum8([j \in Line |-> v[j] * Cos(j, k)])
           IN  s \in Int /\ s <= (IF k = 0 THEN 8192 ELSE 5792) * m
               /\ s >= -(IF k = 0 THEN 8192 ELSE 5792) * m
<1>0. CASE k = 0
  BY <1>0, SMTT(30) DEF Sum8, Cos, COS_TABLE, Line
<1>1. CASE k = 1
  BY <1>1, SMTT(30) DEF Sum8, Cos, COS_TABLE, Line
<1>2. CASE k = 2
  BY <1>2, SMTT(30) DEF Sum8, Cos, COS_TABLE, Line
<1>3. CASE k = 3
  BY <1>3, SMTT(30) DEF Sum8, Cos, COS_TABLE, Line
<1>4. CASE k = 4
  BY <1>4, SMTT(30) DEF Sum8, Cos, COS_TABLE, Line
<1>5. CASE k = 5
  BY <1>5, SMTT(30) DEF Sum8, Cos, COS_TABLE, Line
<1>6. CASE k = 6
  BY <1>6, SMTT(30) DEF Sum8, Cos, COS_TABLE, Line
<1>7. CASE k = 7
  BY <1>7, SMTT(30) DEF Sum8, Cos, COS_TABLE, Line
<1>8. k \in {0, 1, 2, 3, 4, 5, 6, 7}
  BY DEF Line
<1> QED
  BY <1>0, <1>1, <1>2, <1>3, <1>4, <1>5, <1>6, <1>7, <1>8

(* The numbers of at most m, but for their sign.                           *)
Within(m) == -m .. m

LEMMA Rounded ==
    ASSUME NEW s \in Int, NEW m \in Nat, NEW k \in Line,
           s <= (IF k = 0 THEN 8192 ELSE 5792) * m, s >= -(IF k = 0 THEN 8192 ELSE 5792) * m
    PROVE  Shift20(s, Scale(k)) \in Within(4 * m)
<1> DEFINE c == Scale(k)
           a == s \div 1024
           r == s % 1024
           x == (r * c + 524288) \div 1024
           y == (a * c + x) \div 1024
<1>1. s = 1024 * a + r /\ a \in Int /\ r \in 0 .. 1023
  OBVIOUS
<1>2. c \in {512, 724} /\ (k = 0 <=> c = 512)
  BY DEF Scale
<1> HIDE DEF a, r, c
<1>3. x \in Int /\ 1024 * x <= r * c + 524288 /\ r * c + 524288 < 1024 * x + 1024
  BY <1>1, <1>2
<1> HIDE DEF x
<1>4. y \in Int /\ 1024 * y <= a * c + x /\ a * c + x < 1024 * y + 1024
  BY <1>1, <1>2, <1>3
<1>5. y = Shift20(s, Scale(k))
  BY DEF Shift20, y, x, a, r, c
<1> HIDE DEF y
<1>6. y \in -4 * m .. 4 * m
  <2>1. CASE k = 0
    BY <1>1, <1>2, <1>3, <1>4, <2>1
  <2>2. CASE k # 0
    BY <1>1, <1>2, <1>3, <1>4, <2>2
  <2> QED
    BY <2>1, <2>2
<1> QED
  BY <1>4, <1>5, <1>6 DEF Within

(* A pass enlarges what it is given at most four times.                    *)
LEMMA Dct1d ==
    ASSUME NEW v \in [Line -> Int], NEW m \in Nat, \A j \in Line : v[j] \in Within(m)
    PROVE  dct1d(v) \in [Line -> Within(4 * m)]
<1>1. ASSUME NEW k \in Line
      PROVE  Shift20(Sum8([j \in Line |-> v[j] * Cos(j, k)]), Scale(k)) \in Within(4 * m)
  <2>1. \A j \in Line : v[j] \in -m .. m
    BY DEF Within
  <2> QED
    BY <2>1, ColumnSum, Rounded
<1> QED
  BY <1>1 DEF dct1d

LEMMA Idct1d ==
    ASSUME NEW v \in [Line -> Int]
    PROVE  idct1d(v) \in [Line -> Int]
<1> DEFINE u == [k \in Line |-> (v[k] * Scale(k) + 512) \div 1024]
           s(j) == Sum8([k \in Line |-> u[k] * Cos(j, k)])
<1>1. u \in [Line -> Int]
  BY DEF Scale
<1>2. \A j, k \in Line : Cos(j, k) \in Int
  BY DEF Cos, COS_TABLE, Line
<1>3. ASSUME NEW j \in Line PROVE s(j) \in Int
  <2> HIDE DEF u
  <2>1. \A k \in Line : u[k] * Cos(j, k) \in Int
    BY <1>1, <1>2
  <2> QED
    BY <2>1 DEF Sum8, Line
<1>4. idct1d(v) = [j \in Line |-> (s(j) + 1024) \div 2048]
  BY DEF idct1d
<1> HIDE DEF s
<1> QED
  BY <1>3, <1>4

LEMMA CellOf == \A r, c \in Line : 8 * r + c \in Cells
  BY DEF Line, Cells

LEMMA LineOf == \A p \in Cells : p \div 8 \in Line /\ p % 8 \in Line
  BY DEF Line, Cells

LEMMA Int16Small == \A x \in Within(2048) : Int16(x) = x
<1> SUFFICES ASSUME NEW x \in Within(2048) PROVE Int16(x) = x
  OBVIOUS
<1>1. x \in Int /\ x >= -2048 /\ x <= 2048
  BY DEF Within
<1>2. (x + 32768) % 65536 = x + 32768
  BY <1>1
<1> QED
  BY <1>1, <1>2 DEF Int16

LEMMA Int16Int == \A x \in Int : Int16(x) \in Int
  BY DEF Int16

(* Two passes enlarge a block at most sixteen times.                       *)
LEMMA Dct8x8 ==
    ASSUME NEW m \in 0 .. 128, NEW b \in [Cells -> Within(m)]
    PROVE  dct8x8(b) \in [Cells -> Within(16 * m)]
<1> DEFINE t == [r \in Line |-> dct1d([c \in Line |-> b[8 * r + c]])]
           R == [p \in Cells |-> t[p \div 8][p % 8]]
           u == [c \in Line |-> dct1d([r \in Line |-> R[8 * r + c]])]
           C == [p \in Cells |-> u[p % 8][p \div 8]]
<1>1. ASSUME NEW r \in Line PROVE t[r] \in [Line -> Within(4 * m)]
  <2> DEFINE v == [c \in Line |-> b[8 * r + c]]
  <2>1. v \in [Line -> Int] /\ \A j \in Line : v[j] \in Within(m)
    BY CellOf DEF Within
  <2> HIDE DEF v
  <2>2. dct1d(v) \in [Line -> Within(4 * m)]
    BY <2>1, Dct1d
  <2>3. t[r] = dct1d(v)
    BY DEF v
  <2> QED
    BY <2>2, <2>3
<1>2. R = Rows(dct1d, b)
  BY DEF Rows
<1>3. R \in [Cells -> Within(4 * m)]
  <2> HIDE DEF t
  <2> QED
    BY <1>1, LineOf
<1> HIDE DEF t, R
<1>4. ASSUME NEW c \in Line PROVE u[c] \in [Line -> Within(16 * m)]
  <2> DEFINE v == [r \in Line |-> R[8 * r + c]]
  <2>1. \A j \in Line : v[j] \in Within(4 * m)
    BY <1>3, CellOf
  <2>5. \A x \in Within(4 * m) : x \in Int
    BY DEF Within
  <2>2. v \in [Line -> Int]
    BY <2>1, <2>5
  <2> HIDE DEF v
  <2>3. dct1d(v) \in [Line -> Within(4 * (4 * m))]
    BY <2>1, <2>2, Dct1d
  <2>4. u[c] = dct1d(v)
    BY DEF v
  <2> QED
    BY <2>3, <2>4
<1>5. C = Cols(dct1d, R)
  BY DEF Cols
<1>6. C \in [Cells -> Within(16 * m)]
  <2> HIDE DEF u
  <2> QED
    BY <1>4, LineOf
<1> HIDE DEF u, C
<1>7. dct8x8(b) = [p \in Cells |-> Int16(C[p])]
  BY <1>2, <1>5 DEF dct8x8
<1>8. \A x \in Within(16 * m) : x \in Within(2048)
  BY DEF Within
<1> QED
  BY <1>6, <1>7, <1>8, Int16Small

LEMMA Idct8x8 ==
    ASSUME NEW b \in [Cells -> Int]
    PROVE  idct8x8(b) \in [Cells -> Int]
<1> DEFINE u == [c \in Line |-> idct1d([r \in Line |-> b[8 * r + c]])]
           C == [p \in Cells |-> u[p % 8][p \div 8]]
           t == [r \in Line |-> idct1d([c \in Line |-> C[8 * r + c]])]
           R == [p \in Cells |-> t[p \div 8][p % 8]]
<1>1. ASSUME NEW c \in Line PROVE u[c] \in [Line -> Int]
  <2>1. [r \in Line |-> b[8 * r + c]] \in [Line -> Int]
    BY CellOf
  <2> QED
    BY <2>1, Idct1d
<1>2. C = Cols(idct1d, b)
  BY DEF Cols
<1>3. C \in [Cells -> Int]
  <2> HIDE DEF u
  <2> QED
    BY <1>1, LineOf
<1> HIDE DEF u, C
<1>4. ASSUME NEW r \in Line PROVE t[r] \in [Line -> Int]
  <2>1. [c \in Line |-> C[8 * r + c]] \in [Line -> Int]
    BY <1>3, CellOf
  <2> QED
    BY <2>1, Idct1d
<1>5. R = Rows(idct1d, C)
  BY DEF Rows
<1>6. R \in [Cells -> Int]
  <2> HIDE DEF t
  <2> QED
    BY <1>4, LineOf
<1> HIDE DEF t, R
<1>7. idct8x8(b) = [p \in Cells |-> Int16(R[p])]
  BY <1>2, <1>5 DEF idct8x8
<1> QED
  BY <1>6, <1>7, Int16Int

LEMMA ClipWithin == \A x \in Int : Clip(x, 1, 255) \in 1 .. 255 /\ Clip(x, 0, 255) \in Byte
  BY DEF Clip, Byte

LEMMA ZigzagCells == \A j \in Cells : ZIGZAG[j + 1] \in Cells
  BY SMTT(30) DEF ZIGZAG, Cells

(* The zigzag leaves no cell out.                                          *)
LEMMA PlaceCells == \A p \in Cells : Place[p] \in Cells
<1> SUFFICES ASSUME NEW p \in Cells PROVE \E j \in Cells : ZIGZAG[j + 1] = p
  BY DEF Place
<1>1. PICK j \in 1 .. 64 : ZIGZAG[j] = p
  BY SMTT(30) DEF ZIGZAG, Cells
<1>2. j - 1 \in Cells /\ ZIGZAG[(j - 1) + 1] = p
  BY <1>1 DEF Cells
<1> QED
  BY <1>2

LEMMA LumaInt == \A j \in Cells : QUANT_LUMA_BASE[j + 1] \in Int
  BY SMTT(30) DEF QUANT_LUMA_BASE, Cells

LEMMA ChromaInt == \A j \in Cells : QUANT_CHROMA_BASE[j + 1] \in Int
  BY SMTT(30) DEF QUANT_CHROMA_BASE, Cells

LEMMA TableSteps ==
    ASSUME quality \in Int, NEW k \in 0 .. Blocks - 1
    PROVE  Table(k) \in [Cells -> 1 .. 255]
<1> DEFINE q == Clip(quality, 1, 100)
           scale == IF q < 50 THEN 5000 \div q ELSE 200 - 2 * q
           base == IF PlaneOf(k) = 0 THEN QUANT_LUMA_BASE ELSE QUANT_CHROMA_BASE
<1>1. scale \in Int
  BY DEF Clip
<1>2. \A j \in Cells : base[j + 1] \in Int
  BY LumaInt, ChromaInt
<1>3. Table(k) = [j \in Cells |-> Clip((base[j + 1] * scale + 50) \div 100, 1, 255)]
  BY DEF Table, BuildTable
<1> HIDE DEF scale, base
<1>4. ASSUME NEW j \in Cells PROVE (base[j + 1] * scale + 50) \div 100 \in Int
  BY <1>1, <1>2
<1> QED
  BY <1>3, <1>4, ClipWithin

LEMMA Quotient ==
    ASSUME NEW a \in Nat, NEW q \in Nat, q > 0
    PROVE  (a + q \div 2) \div q \in 0 .. a
<1> DEFINE h == q \div 2
           d == (a + h) \div q
           r == (a + h) % q
<1>1. h \in Nat /\ h < q
  OBVIOUS
<1> HIDE DEF h
<1>2. a + h = q * d + r /\ r \in 0 .. q - 1 /\ d \in Int
  BY <1>1, DivMod
<1> HIDE DEF d, r
<1>3. ~(d <= -1)
  <2> SUFFICES ASSUME d <= -1 PROVE FALSE
    OBVIOUS
  <2>1. q * d <= -q
    BY <1>2
  <2> QED
    BY <1>1, <1>2, <2>1
<1>4. ~(d >= a + 1)
  <2> SUFFICES ASSUME d >= a + 1 PROVE FALSE
    OBVIOUS
  <2>1. q * d >= q * (a + 1) /\ q * (a + 1) = q * a + q /\ q * a >= a
    BY <1>2
  <2> QED
    BY <1>1, <1>2, <2>1
<1> QED
  BY <1>2, <1>3, <1>4 DEF d, h

LEMMA QuantiseShrinks ==
    ASSUME NEW val \in Within(2048), NEW q \in 1 .. 255
    PROVE  Quantise(val, q) \in Within(2048)
<1>1. val \in Int /\ val <= 2048 /\ val >= -2048
  BY DEF Within
<1>2. CASE val >= 0
  <2>1. (val + q \div 2) \div q \in 0 .. val
    BY <1>1, <1>2, Quotient
  <2> QED
    BY <1>1, <1>2, <2>1, SMTT(30) DEF Quantise, Within
<1>3. CASE val < 0
  <2>1. (-val + q \div 2) \div q \in 0 .. -val
    BY <1>1, <1>3, Quotient
  <2> QED
    <3> DEFINE z == (-val + q \div 2) \div q
    <3>1. Quantise(val, q) = -z
      BY <1>1, <1>3, SMT DEF Quantise
    <3> HIDE DEF z
    <3>2. z \in 0 .. -val
      BY <2>1 DEF z
    <3> QED
      BY <1>1, <3>1, <3>2, SMT DEF Within
<1> QED
  BY <1>1, <1>2, <1>3

LEMMA Encoded ==
    ASSUME NEW b \in [Cells -> Within(2048)], NEW t \in [Cells -> 1 .. 255]
    PROVE  quant_encode(b, t) \in [Cells -> Within(2048)]
<1>1. ASSUME NEW j \in Cells
      PROVE  Int16(Quantise(b[ZIGZAG[j + 1]], t[j])) \in Within(2048)
  <2>1. b[ZIGZAG[j + 1]] \in Within(2048) /\ t[j] \in 1 .. 255
    BY ZigzagCells
  <2>2. Quantise(b[ZIGZAG[j + 1]], t[j]) \in Within(2048)
    BY <2>1, QuantiseShrinks
  <2> QED
    BY <2>2, Int16Small
<1> QED
  BY <1>1 DEF quant_encode

LEMMA Rebuilt ==
    ASSUME NEW b \in [Cells -> Int], NEW t \in [Cells -> 1 .. 255]
    PROVE  quant_decode(b, t) \in [Cells -> Int]
<1> SUFFICES ASSUME NEW p \in Cells PROVE Int16(b[Place[p]] * t[Place[p]]) \in Int
  BY DEF quant_decode
<1>1. b[Place[p]] \in Int /\ t[Place[p]] \in Int
  BY PlaceCells
<1>2. b[Place[p]] * t[Place[p]] \in Int
  BY <1>1
<1> QED
  BY <1>2, Int16Int

-----------------------------------------------------------------------------
(* The planes.                                                             *)

Sized == width \in Nat /\ height \in Nat /\ width > 0 /\ height > 0

(* Rows and columns: a number below a product has both in range.           *)
LEMMA RowColumn ==
    ASSUME NEW W \in Nat, NEW H \in Nat, W > 0, NEW a \in 0 .. W * H - 1
    PROVE  /\ a = W * (a \div W) + (a % W)
           /\ a \div W \in 0 .. H - 1 /\ a % W \in 0 .. W - 1
<1> DEFINE q == a \div W
           r == a % W
<1>0. W * H \in Int
  OBVIOUS
<1>1. a \in Int /\ a >= 0 /\ a < W * H
  BY <1>0
<1>2. a = W * q + r /\ r \in 0 .. W - 1 /\ q \in Int
  BY <1>1, DivMod
<1> HIDE DEF q, r
<1>3. ~(q <= -1)
  <2> SUFFICES ASSUME q <= -1 PROVE FALSE
    OBVIOUS
  <2>1. W * q <= -W
    BY <1>2
  <2> QED
    BY <1>1, <1>2, <2>1
<1>4. ~(q >= H)
  <2> SUFFICES ASSUME q >= H PROVE FALSE
    OBVIOUS
  <2>1. W * q >= W * H /\ W * q \in Int
    BY <1>2
  <2> QED
    BY <1>0, <1>1, <1>2, <2>1
<1>5. q \in 0 .. H - 1
  BY <1>2, <1>3, <1>4
<1> QED
  BY <1>2, <1>5 DEF q, r

(* And back: from a row and a column to a number below the product.        *)
LEMMA Cell ==
    ASSUME NEW W \in Nat, NEW H \in Nat, NEW r \in 0 .. H - 1, NEW c \in 0 .. W - 1
    PROVE  r * W + c \in 0 .. W * H - 1 /\ r * W + c \in Nat
<1>1. r \in Nat /\ c \in Nat /\ r <= H - 1 /\ c <= W - 1 /\ W * H \in Nat
  OBVIOUS
<1>2. r * W \in Nat /\ r * W <= (H - 1) * W
  BY <1>1
<1>3. (H - 1) * W = W * H - W
  OBVIOUS
<1> QED
  BY <1>1, <1>2, <1>3

Luma4  == width * height
Chroma == Half(width) * Half(height)

LEMMA PlaneShapes ==
    ASSUME Sized
    PROVE  /\ Half(width) \in Nat /\ Half(width) > 0 /\ Half(height) \in Nat /\ Half(height) > 0
           /\ 2 * Half(width) - 2 < width /\ 2 * Half(height) - 2 < height
           /\ width <= 2 * Half(width) /\ height <= 2 * Half(height)
           /\ PlaneWidth(Fmt, width, 0) = width /\ PlaneHeight(Fmt, height, 0) = height
           /\ \A p \in {1, 2} : /\ PlaneWidth(Fmt, width, p) = Half(width)
                                /\ PlaneHeight(Fmt, height, p) = Half(height)
           /\ \A p \in {1, 2} : StepX(Fmt, p) = 2 /\ StepY(Fmt, p) = 2
           /\ StepX(Fmt, 0) = 1 /\ StepY(Fmt, 0) = 1
<1>1. /\ \A p \in {1, 2} : StepX(Fmt, p) = 2 /\ StepY(Fmt, p) = 2
      /\ StepX(Fmt, 0) = 1 /\ StepY(Fmt, 0) = 1
  BY DEF StepX, StepY, Fmt
<1> QED
  BY <1>1 DEF Sized, Half, PlaneWidth, PlaneHeight

LEMMA PlanesInBuffer ==
    ASSUME Sized
    PROVE  /\ Luma4 \in Nat /\ Luma4 > 0 /\ Chroma \in Nat /\ Chroma > 0
           /\ PlaneSize(Fmt, width, height, 0) = Luma4
           /\ \A p \in {1, 2} : PlaneSize(Fmt, width, height, p) = Chroma
           /\ PlaneStart(Fmt, width, height, 0) = 0
           /\ PlaneStart(Fmt, width, height, 1) = Luma4
           /\ PlaneStart(Fmt, width, height, 2) = Luma4 + Chroma
           /\ Buffer = Luma4 + 2 * Chroma
<1>0. \A a, b \in Nat : a > 0 /\ b > 0 => a * b \in Nat /\ a * b > 0
  OBVIOUS
<1>1. Luma4 \in Nat /\ Luma4 > 0 /\ Chroma \in Nat /\ Chroma > 0
  BY <1>0, PlaneShapes DEF Sized, Luma4, Chroma
<1>2. /\ PlaneSize(Fmt, width, height, 0) = Luma4
      /\ \A p \in {1, 2} : PlaneSize(Fmt, width, height, p) = Chroma
  BY PlaneShapes DEF PlaneSize, Luma4, Chroma
<1>3. /\ PlaneStart(Fmt, width, height, 0) = 0
      /\ PlaneStart(Fmt, width, height, 1) = Luma4 + (1 - 1) * Chroma
      /\ PlaneStart(Fmt, width, height, 2) = Luma4 + (2 - 1) * Chroma
  BY <1>2 DEF PlaneStart
<1>4. Buffer = Luma4 + 2 * Half(width) * Half(height)
  BY DEF Buffer, BufferSize, Fmt, Luma4
<1>5. 2 * Half(width) * Half(height) = 2 * Chroma
  BY PlaneShapes DEF Chroma
<1> QED
  BY <1>1, <1>2, <1>3, <1>4, <1>5

-----------------------------------------------------------------------------
(* Colours.                                                                *)

LEMMA ClampByte == \A x \in Int : Clamp(x) \in Byte
  BY DEF Clamp, Byte

LEMMA FixedInt == \A x \in Int : Fixed(x) \in Int
  BY DEF Fixed

LEMMA YCbCrBytes ==
    ASSUME NEW c \in Byte \X Byte \X Byte
    PROVE  /\ \A p \in 0 .. 2 : YCbCr(c)[p + 1] \in Byte
           /\ Grey(c) => YCbCr(c)[2] = 128 /\ YCbCr(c)[3] = 128
<1>1. c[1] \in Int /\ c[2] \in Int /\ c[3] \in Int
  BY DEF Byte
<1>2. /\ Luma(c[1], c[2], c[3]) \in Byte /\ Cb(c[1], c[2], c[3]) \in Byte
      /\ Cr(c[1], c[2], c[3]) \in Byte
  <2>1. /\ 19595 * c[1] + 38470 * c[2] + 7471 * c[3] \in Int
        /\ -11056 * c[1] - 21712 * c[2] + 32768 * c[3] \in Int
        /\ 32768 * c[1] - 27440 * c[2] - 5328 * c[3] \in Int
    BY <1>1
  <2> QED
    BY <2>1, ClampByte, FixedInt DEF Luma, Cb, Cr
<1>3. ASSUME Grey(c) PROVE Cb(c[1], c[2], c[3]) = 128 /\ Cr(c[1], c[2], c[3]) = 128
  <2>1. /\ -11056 * c[1] - 21712 * c[2] + 32768 * c[3] = 0
        /\ 32768 * c[1] - 27440 * c[2] - 5328 * c[3] = 0
    BY <1>1, <1>3 DEF Grey
  <2>2. Fixed(0) = 0 /\ Clamp(128 + 0) = 128
    BY DEF Fixed, Clamp
  <2> QED
    BY <2>1, <2>2 DEF Cb, Cr
<1> QED
  BY <1>2, <1>3 DEF YCbCr

LEMMA RgbBytes ==
    ASSUME NEW y \in Int, NEW cb \in Int, NEW cr \in Int
    PROVE  /\ \A j \in 1 .. 3 : Rgb(y, cb, cr)[j] \in Byte
           /\ cb = 128 /\ cr = 128 => Grey(Rgb(y, cb, cr))
<1>1. /\ 65536 * y + (cr - 128) * 91881 \in Int
      /\ 65536 * y - ((cb - 128) * 22554 + (cr - 128) * 46802) \in Int
      /\ 65536 * y + (cb - 128) * 116130 \in Int
  OBVIOUS
<1>2. \A j \in 1 .. 3 : Rgb(y, cb, cr)[j] \in Byte
  BY <1>1, ClampByte, FixedInt DEF Rgb
<1>3. ASSUME cb = 128, cr = 128 PROVE Grey(Rgb(y, cb, cr))
  <2>1. /\ 65536 * y + (cr - 128) * 91881 = 65536 * y
        /\ 65536 * y - ((cb - 128) * 22554 + (cr - 128) * 46802) = 65536 * y
        /\ 65536 * y + (cb - 128) * 116130 = 65536 * y
    BY <1>3
  <2> QED
    BY <2>1 DEF Rgb, Grey
<1> QED
  BY <1>2, <1>3

Colours == [0 .. height - 1 -> [0 .. width - 1 -> Byte \X Byte \X Byte]]

GreyPicture == \A y \in 0 .. height - 1, x \in 0 .. width - 1 : Grey(pic[y][x])

(* The planes of a picture hold bytes; without colour, 128s behind luma.   *)
LEMMA Converted ==
    ASSUME Sized, pic \in Colours
    PROVE  LET b == ToPlanes(Fmt, width, height, pic)
           IN  /\ b \in [0 .. Buffer - 1 -> Byte]
               /\ GreyPicture => \A a \in 0 .. Buffer - 1 : a >= Luma4 => b[a] = 128
<1> DEFINE start(p) == PlaneStart(Fmt, width, height, p)
           size(p) == PlaneSize(Fmt, width, height, p)
           Pw(p) == PlaneWidth(Fmt, width, p)
           Ph(p) == PlaneHeight(Fmt, height, p)
           P(a)  == CHOOSE q \in 0 .. 2 : start(q) <= a /\ a < start(q) + size(q)
           Y(a)  == StepY(Fmt, P(a)) * ((a - start(P(a))) \div Pw(P(a)))
           X(a)  == StepX(Fmt, P(a)) * ((a - start(P(a))) % Pw(P(a)))
           b     == ToPlanes(Fmt, width, height, pic)
<1>1. b = [a \in 0 .. Buffer - 1 |-> YCbCr(pic[Y(a)][X(a)])[P(a) + 1]]
  BY DEF ToPlanes, Buffer
<1>2. ASSUME NEW a \in 0 .. Buffer - 1
      PROVE  /\ P(a) \in 0 .. 2 /\ (a >= Luma4 => P(a) # 0)
             /\ Y(a) \in 0 .. height - 1 /\ X(a) \in 0 .. width - 1
  <2>1. /\ start(0) = 0 /\ start(1) = Luma4 /\ start(2) = Luma4 + Chroma
        /\ size(0) = Luma4 /\ size(1) = Chroma /\ size(2) = Chroma
        /\ Luma4 \in Nat /\ Chroma \in Nat /\ a \in Nat /\ a < Luma4 + 2 * Chroma
    BY PlanesInBuffer
  <2> HIDE DEF start, size
  <2>2. \E q \in 0 .. 2 : start(q) <= a /\ a < start(q) + size(q)
    <3>1. CASE a < Luma4
      BY <2>1, <3>1
    <3>2. CASE a >= Luma4 /\ a < Luma4 + Chroma
      BY <2>1, <3>2
    <3>3. CASE a >= Luma4 + Chroma
      BY <2>1, <3>3
    <3> QED
      BY <2>1, <3>1, <3>2, <3>3
  <2>3. P(a) \in 0 .. 2 /\ start(P(a)) <= a /\ a < start(P(a)) + size(P(a))
    BY <2>2
  <2> DEFINE p == P(a)
             off == a - start(p)
  <2>4. p \in 0 .. 2 /\ off \in Nat /\ off < size(p) /\ (a >= Luma4 => p # 0)
    <3> HIDE DEF P
    <3>1. start(p) \in Int /\ size(p) \in Int
      BY <2>1, <2>3
    <3> QED
      BY <2>1, <2>3, <3>1
  <2>5. size(p) = Pw(p) * Ph(p)
    BY DEF PlaneSize, size
  <2>6. CASE p = 0
    <3>1. Pw(p) = width /\ Ph(p) = height /\ StepX(Fmt, p) = 1 /\ StepY(Fmt, p) = 1
      BY <2>6, PlaneShapes
    <3>2. /\ width \in Nat /\ height \in Nat /\ width > 0 /\ off \in 0 .. width * height - 1
      <4> HIDE DEF p, off
      <4>1. width \in Nat /\ height \in Nat /\ width > 0 /\ width * height \in Nat
        BY DEF Sized
      <4> QED
        BY <2>4, <2>5, <3>1, <4>1
    <3> HIDE DEF p, off, Pw, Ph
    <3>3. off \div width \in 0 .. height - 1 /\ off % width \in 0 .. width - 1
      BY <3>2, RowColumn
    <3>4. 1 * (off \div Pw(p)) \in 0 .. height - 1 /\ 1 * (off % Pw(p)) \in 0 .. width - 1
      BY <3>1, <3>3
    <3> QED
      BY <2>4, <3>1, <3>4 DEF p, off, Pw
  <2>7. CASE p # 0
    <3> DEFINE hw == Half(width)
               hh == Half(height)
    <3>0. p \in {1, 2}
      <4> HIDE DEF p
      <4> QED
        BY <2>4, <2>7
    <3>1. /\ Pw(p) = hw /\ Ph(p) = hh /\ StepX(Fmt, p) = 2 /\ StepY(Fmt, p) = 2
          /\ hw \in Nat /\ hh \in Nat /\ hw > 0
          /\ 2 * hw - 2 < width /\ 2 * hh - 2 < height /\ width \in Nat /\ height \in Nat
      BY <3>0, PlaneShapes DEF Sized
    <3> HIDE DEF hw, hh
    <3>2. off \in 0 .. hw * hh - 1
      <4> HIDE DEF p, off
      <4>1. hw * hh \in Nat
        BY <3>1
      <4> QED
        BY <2>4, <2>5, <3>1, <4>1
    <3> HIDE DEF p, off, Pw, Ph
    <3>3. off \div hw \in 0 .. hh - 1 /\ off % hw \in 0 .. hw - 1
      BY <3>1, <3>2, RowColumn
    <3>4. 2 * (off \div Pw(p)) \in 0 .. height - 1 /\ 2 * (off % Pw(p)) \in 0 .. width - 1
      BY <3>1, <3>3
    <3> QED
      BY <2>4, <3>1, <3>4 DEF p, off, Pw
  <2> QED
    BY <2>6, <2>7
<1> HIDE DEF P, Y, X, b
<1>3. ASSUME NEW a \in 0 .. Buffer - 1
      PROVE  b[a] \in Byte /\ (GreyPicture /\ a >= Luma4 => b[a] = 128)
  <2> DEFINE c == pic[Y(a)][X(a)]
  <2>1. c \in Byte \X Byte \X Byte /\ (GreyPicture => Grey(c))
    BY <1>2 DEF Colours, GreyPicture
  <2>2. b[a] = YCbCr(c)[P(a) + 1]
    BY <1>1
  <2> HIDE DEF c
  <2>3. P(a) \in 0 .. 2
    BY <1>2
  <2>4. b[a] \in Byte
    BY <2>1, <2>2, <2>3, YCbCrBytes
  <2>5. ASSUME GreyPicture, a >= Luma4 PROVE b[a] = 128
    <3>1. P(a) = 1 \/ P(a) = 2
      BY <1>2, <2>3, <2>5
    <3>2. YCbCr(c)[2] = 128 /\ YCbCr(c)[3] = 128
      BY <2>1, <2>5, YCbCrBytes
    <3> QED
      BY <2>2, <3>1, <3>2
  <2> QED
    BY <2>4, <2>5
<1>4. b \in [0 .. Buffer - 1 -> Byte]
  BY <1>1, <1>3
<1> QED
  BY <1>3, <1>4 DEF b

(* The samples of a pixel are in the buffer, those of its colour in the    *)
(* chroma planes.                                                          *)
LEMMA SampleInside ==
    ASSUME Sized, NEW y \in 0 .. height - 1, NEW x \in 0 .. width - 1, NEW p \in 0 .. 2
    PROVE  /\ SampleAt(Fmt, width, height, p, y, x) \in 0 .. Buffer - 1
           /\ p # 0 => SampleAt(Fmt, width, height, p, y, x) >= Luma4
<1> DEFINE start == PlaneStart(Fmt, width, height, p)
           at == SampleAt(Fmt, width, height, p, y, x)
<1>0. /\ Luma4 \in Nat /\ Chroma \in Nat /\ Buffer = Luma4 + 2 * Chroma
      /\ width \in Nat /\ height \in Nat
  BY PlanesInBuffer DEF Sized
<1>1. CASE p = 0
  <2>1. at = y * width + x
    <3>1. at = 0 + (y \div 1) * width + x \div 1
      BY <1>1, PlaneShapes, PlanesInBuffer DEF SampleAt
    <3>2. y \div 1 = y /\ x \div 1 = x
      BY <1>0
    <3>3. y * width \in Int
      BY <1>0
    <3> QED
      BY <1>0, <3>1, <3>2, <3>3
  <2>2. y * width + x \in 0 .. width * height - 1
    BY <1>0, Cell
  <2>3. at \in 0 .. Luma4 - 1
    BY <2>1, <2>2 DEF Luma4
  <2> QED
    BY <1>0, <1>1, <2>3
<1>2. CASE p # 0
  <2> DEFINE hw == Half(width)
             hh == Half(height)
  <2>1. /\ at = start + (y \div 2) * hw + x \div 2
        /\ hw \in Nat /\ hh \in Nat /\ Chroma = hw * hh
        /\ start = Luma4 \/ start = Luma4 + Chroma
    BY <1>2, PlaneShapes, PlanesInBuffer DEF SampleAt, Chroma
  <2>2. y \div 2 \in 0 .. hh - 1 /\ x \div 2 \in 0 .. hw - 1
    BY <1>0 DEF Half
  <2> DEFINE r == y \div 2
             c == x \div 2
  <2> HIDE DEF hw, hh, r, c
  <2>3. r \in 0 .. hh - 1 /\ c \in 0 .. hw - 1
    BY <2>2 DEF r, c
  <2>4. r * hw + c \in 0 .. Chroma - 1 /\ r * hw \in Int
    BY <2>1, <2>3, Cell
  <2> HIDE DEF at, start
  <2>5. at = start + r * hw + c
    BY <2>1 DEF r, c
  <2>6. at \in 0 .. Buffer - 1 /\ at >= Luma4
    BY <1>0, <2>1, <2>3, <2>4, <2>5
  <2> QED
    BY <2>6 DEF at
<1> QED
  BY <1>1, <1>2

-----------------------------------------------------------------------------
(* The blocks.                                                             *)

(* The blocks of the three planes follow each other.                       *)
LEMMA BlocksInOrder ==
    ASSUME Sized
    PROVE  /\ \A p \in 0 .. 2 : Across(p) \in Nat /\ Down(p) \in Nat
           /\ \A p \in 0 .. 3 : BlocksBefore(p) \in Nat
           /\ \A p \in 0 .. 2 : BlocksBefore(p + 1) = BlocksBefore(p) + Across(p) * Down(p)
           /\ BlocksBefore(0) = 0 /\ Blocks = BlocksBefore(3) /\ Blocks > 0
<1>1. /\ Across(0) \in Nat /\ Down(0) \in Nat /\ Across(0) > 0 /\ Down(0) > 0
      /\ \A p \in {1, 2} : Across(p) = Across(1) /\ Down(p) = Down(1)
      /\ Across(1) \in Nat /\ Down(1) \in Nat
  BY DEF Sized, Across, Down
<1> DEFINE L == Across(0) * Down(0)
           C == Across(1) * Down(1)
<1>2. L \in Nat /\ L > 0 /\ C \in Nat
  <2>1. \A a, b \in Nat : a * b \in Nat /\ (a > 0 /\ b > 0 => a * b > 0)
    OBVIOUS
  <2> QED
    BY <1>1, <2>1
<1>3. /\ BlocksBefore(0) = 0
      /\ \A p \in 1 .. 3 : BlocksBefore(p) = L + (p - 1) * Across(1) * Down(1)
  BY DEF BlocksBefore
<1>4. \A k \in Nat : k * Across(1) * Down(1) = k * C
  BY <1>1
<1>5. BlocksBefore(1) = L + 0 * C /\ BlocksBefore(2) = L + 1 * C /\ BlocksBefore(3) = L + 2 * C
  BY <1>3, <1>4
<1> HIDE DEF L, C
<1>6. BlocksBefore(1) = L /\ BlocksBefore(2) = L + C /\ BlocksBefore(3) = L + 2 * C
  BY <1>2, <1>5
<1>7. ASSUME NEW p \in 0 .. 2
      PROVE  BlocksBefore(p + 1) = BlocksBefore(p) + Across(p) * Down(p)
  <2>1. CASE p = 0
    BY <1>2, <1>3, <1>6, <2>1 DEF L
  <2>2. CASE p = 1
    BY <1>2, <1>6, <2>2 DEF C
  <2>3. CASE p = 2
    <3>1. Across(p) * Down(p) = C
      BY <1>1, <2>3 DEF C
    <3> QED
      BY <1>2, <1>6, <2>3, <3>1
  <2> QED
    BY <2>1, <2>2, <2>3
<1>8. \A p \in 0 .. 3 : BlocksBefore(p) \in Nat
  BY <1>2, <1>3, <1>6
<1>9. \A p \in 0 .. 2 : Across(p) \in Nat /\ Down(p) \in Nat
  BY <1>1
<1> QED
  BY <1>2, <1>3, <1>6, <1>7, <1>8, <1>9 DEF Blocks

LEMMA PlaneFound ==
    ASSUME Sized, NEW k \in 0 .. Blocks - 1
    PROVE  PlaneOf(k) \in 0 .. 2 /\ BlocksBefore(PlaneOf(k)) <= k /\ k < BlocksBefore(PlaneOf(k) + 1)
<1>1. /\ \A p \in 0 .. 3 : BlocksBefore(p) \in Nat
      /\ BlocksBefore(0) = 0 /\ Blocks = BlocksBefore(3) /\ Blocks \in Nat
  BY BlocksInOrder
<1>2. k \in Nat /\ k < BlocksBefore(3)
  BY <1>1
<1>3. \E p \in 0 .. 2 : BlocksBefore(p) <= k /\ k < BlocksBefore(p + 1)
  <2>1. CASE k < BlocksBefore(1)
    <3>1. 0 \in 0 .. 2 /\ BlocksBefore(0) <= k /\ k < BlocksBefore(0 + 1)
      BY <1>1, <1>2, <2>1
    <3> QED
      BY <3>1
  <2>2. CASE BlocksBefore(1) <= k /\ k < BlocksBefore(2)
    <3>1. 1 \in 0 .. 2 /\ BlocksBefore(1) <= k /\ k < BlocksBefore(1 + 1)
      BY <2>2
    <3> QED
      BY <3>1
  <2>3. CASE BlocksBefore(2) <= k
    <3>1. 2 \in 0 .. 2 /\ BlocksBefore(2) <= k /\ k < BlocksBefore(2 + 1)
      BY <1>2, <2>3
    <3> QED
      BY <3>1
  <2> QED
    BY <1>1, <1>2, <2>1, <2>2, <2>3
<1> QED
  BY <1>3 DEF PlaneOf

(* Where a block begins, told by its row and column in its plane.          *)
LEMMA BlockPlace ==
    ASSUME Sized, NEW k \in 0 .. Blocks - 1
    PROVE  LET p == PlaneOf(k)
               i == k - BlocksBefore(p)
           IN  /\ p \in 0 .. 2 /\ i \in Nat
               /\ Across(p) \in Nat /\ Across(p) > 0 /\ Down(p) \in Nat
               /\ i \div Across(p) \in 0 .. Down(p) - 1 /\ i % Across(p) \in 0 .. Across(p) - 1
               /\ i = Across(p) * (i \div Across(p)) + (i % Across(p))
               /\ Stride(k) \in Nat /\ Stride(k) > 0
<1> DEFINE p == PlaneOf(k)
           i == k - BlocksBefore(p)
           A == Across(p)
           D == Down(p)
<1>1. p \in 0 .. 2 /\ BlocksBefore(p) <= k /\ k < BlocksBefore(p + 1)
  BY PlaneFound
<1>2. Stride(k) \in Nat /\ Stride(k) > 0
  <2> HIDE DEF p
  <2>1. PlaneWidth(Fmt, width, p) \in Nat /\ PlaneWidth(Fmt, width, p) > 0
    BY <1>1, PlaneShapes DEF Sized
  <2> QED
    BY <2>1 DEF Stride, p
<1> HIDE DEF p
<1>3. /\ BlocksBefore(p) \in Nat /\ BlocksBefore(p + 1) = BlocksBefore(p) + A * D
      /\ A \in Nat /\ D \in Nat /\ k \in Int
  BY <1>1, BlocksInOrder
<1>4. i \in Nat /\ i < A * D /\ A * D \in Nat
  <2> HIDE DEF A, D
  <2>1. A * D \in Nat
    BY <1>3
  <2> QED
    BY <1>1, <1>3, <2>1
<1> HIDE DEF i, A, D
<1>5. A > 0
  <2> SUFFICES ASSUME A = 0 PROVE FALSE
    BY <1>3
  <2>1. A * D = 0
    BY <1>3
  <2> QED
    BY <1>4, <2>1
<1>6. i \in 0 .. A * D - 1
  BY <1>4
<1>7. i = A * (i \div A) + (i % A) /\ i \div A \in 0 .. D - 1 /\ i % A \in 0 .. A - 1
  BY <1>3, <1>5, <1>6, RowColumn
<1> QED
  BY <1>1, <1>2, <1>3, <1>4, <1>5, <1>7 DEF i, A, D, p

LEMMA AddressNat ==
    ASSUME Sized, NEW k \in 0 .. Blocks - 1
    PROVE  Origin(k) \in Nat /\ \A c \in Cells : Address(k, c) \in Nat
<1> DEFINE p == PlaneOf(k)
           i == k - BlocksBefore(p)
           A == Across(p)
           s == Stride(k)
           start == PlaneStart(Fmt, width, height, p)
<1>1. /\ p \in 0 .. 2 /\ A \in Nat /\ i \div A \in Nat /\ i % A \in Nat /\ s \in Nat
  BY BlockPlace
<1>2. start \in Nat
  <2> HIDE DEF p
  <2> QED
    BY <1>1, PlanesInBuffer
<1>3. Origin(k) = start + (i \div A) * 8 * s + (i % A) * 8
  BY DEF Origin
<1> HIDE DEF p, i, A, s, start
<1>4. \A a, b \in Nat : a * b \in Nat
  OBVIOUS
<1>5. (i \div A) * 8 * s \in Nat
  BY <1>1, <1>4
<1>6. Origin(k) \in Nat
  BY <1>1, <1>2, <1>3, <1>5
<1>7. ASSUME NEW c \in Cells PROVE Address(k, c) \in Nat
  <2>1. (c \div 8) \in Nat /\ c % 8 \in Nat
    BY DEF Cells
  <2>2. (c \div 8) * s \in Nat
    BY <1>1, <1>4, <2>1
  <2>3. Address(k, c) = Origin(k) + (c \div 8) * s + (c % 8)
    BY DEF Address, s
  <2> QED
    BY <1>6, <2>1, <2>2, <2>3
<1> QED
  BY <1>6, <1>7

LEMMA CellAtCell ==
    ASSUME Sized, NEW k \in 0 .. Blocks - 1, NEW a \in Int
    PROVE  CellAt(k, a) \in Cells \cup {-1}
<1> DEFINE s == Stride(k)
           off == a - Origin(k)
           row == Clip(off \div s, 0, 7)
           col == off - row * s
<1>1. s \in Nat /\ s > 0 /\ Origin(k) \in Nat
  BY BlockPlace, AddressNat
<1>2. off \div s \in Int
  BY <1>1
<1>3. row \in Line
  BY <1>2 DEF Clip, Line
<1>4. CellAt(k, a) = IF col \in Line THEN 8 * row + col ELSE -1
  BY DEF CellAt
<1> HIDE DEF row, col
<1> QED
  BY <1>3, <1>4, CellOf

-----------------------------------------------------------------------------
(* Types.                                                                  *)

ShownBytes ==
    \A y \in 0 .. height - 1, x \in 0 .. width - 1 :
        \A i \in 1 .. 3 : shown[y][x][i] \in Byte

\* The inductive invariant: what the buffers and the stream hold.
PInv ==
    /\ Sized /\ quality \in Int /\ pic \in Colours
    /\ phase \in {"convert", "encode", "decode", "show", "done", "outside"}
    /\ n \in 0 .. Blocks - 1
    /\ buf = <<>> \/ buf \in [0 .. Buffer - 1 -> Byte]
    /\ phase = "convert" => buf = <<>>
    /\ phase = "encode" => buf \in [0 .. Buffer - 1 -> Byte]
    /\ stream \in Seq([Cells -> Within(2048)])
    /\ phase = "convert" => Len(stream) = 0 /\ n = 0
    /\ phase = "encode" => Len(stream) = n
    /\ phase \in {"decode", "show", "done"} => Len(stream) = Blocks
    /\ Len(stream) <= Blocks
    /\ dbuf \in [0 .. Buffer - 1 -> Byte \cup {Unset}]
    /\ phase = "show" => n = 0
    /\ phase = "done" => ShownBytes

LEMMA PInvInit == Init => PInv
<1> SUFFICES ASSUME Init PROVE PInv
  OBVIOUS
<1>1. PICK s \in Sizes : width = s[1] /\ height = s[2] /\ pic \in Pictures(s[1], s[2])
  BY DEF Init
<1>2. Sized
  BY <1>1, PictureAssumption DEF Sized
<1>3. pic \in Colours
  BY <1>1, PictureAssumption DEF Colours
<1>4. Blocks \in Nat /\ Blocks > 0
  BY <1>2, BlocksInOrder
<1>5. dbuf \in [0 .. Buffer - 1 -> Byte \cup {Unset}] /\ quality \in Int
  BY PictureAssumption DEF Init
<1>6. n \in 0 .. Blocks - 1
  BY <1>4 DEF Init
<1> QED
  BY <1>2, <1>3, <1>4, <1>5, <1>6 DEF Init, PInv

LEMMA Samples ==
    ASSUME PInv, phase = "encode", Inside(n)
    PROVE  [c \in Cells |-> buf[Address(n, c)] - 128] \in [Cells -> Within(128)]
<1>1. ASSUME NEW c \in Cells PROVE buf[Address(n, c)] - 128 \in Within(128)
  <2>1. Address(n, c) \in Nat /\ Address(n, c) < Buffer
    BY AddressNat DEF PInv, Inside
  <2>2. Buffer \in Nat
    BY PlanesInBuffer DEF PInv
  <2>3. Address(n, c) \in 0 .. Buffer - 1
    BY <2>1, <2>2
  <2>4. buf[Address(n, c)] \in Byte
    BY <2>3 DEF PInv
  <2> QED
    BY <2>4 DEF Byte, Within
<1> QED
  BY <1>1

LEMMA EncodeBlockKeeps == PInv /\ EncodeBlock => PInv'
<1> SUFFICES ASSUME PInv, EncodeBlock PROVE PInv'
  OBVIOUS
<1>1. phase = "encode"
  BY DEF EncodeBlock
<1>0. /\ UNCHANGED <<width, height, quality, pic>>
      /\ Sized' = Sized /\ Colours' = Colours /\ Blocks' = Blocks /\ Buffer' = Buffer
  <2>1. UNCHANGED <<width, height, quality, pic>>
    BY DEF EncodeBlock, Leave, fixed
  <2> QED
    BY <2>1 DEF Sized, Colours, Blocks, Buffer, BlocksBefore, Across, Down
<1>2. CASE ~Inside(n)
  <2>1. phase' = "outside" /\ UNCHANGED <<n, buf, stream, dbuf, shown>>
    BY <1>2 DEF EncodeBlock, Leave
  <2> QED
    BY <1>0, <2>1 DEF PInv
<1>3. CASE Inside(n)
  <2> DEFINE b == quant_encode(dct8x8([c \in Cells |-> buf[Address(n, c)] - 128]), Table(n))
  <2>1. b \in [Cells -> Within(2048)]
    <3>1. dct8x8([c \in Cells |-> buf[Address(n, c)] - 128]) \in [Cells -> Within(16 * 128)]
      BY <1>1, <1>3, Samples, Dct8x8
    <3>2. Table(n) \in [Cells -> 1 .. 255]
      <4>1. quality \in Int /\ n \in 0 .. Blocks - 1
        BY DEF PInv
      <4> QED
        BY <4>1, TableSteps
    <3> QED
      BY <3>1, <3>2, Encoded
  <2>2. /\ stream' = Append(stream, b) /\ UNCHANGED <<buf, dbuf, shown>>
        /\ IF n + 1 = Blocks THEN phase' = "decode" /\ n' = 0
                             ELSE n' = n + 1 /\ phase' = "encode"
    BY <1>1, <1>3 DEF EncodeBlock
  <2> HIDE DEF b
  <2>3. stream' \in Seq([Cells -> Within(2048)]) /\ Len(stream') = n + 1
    BY <1>1, <2>1, <2>2 DEF PInv
  <2>4. Blocks \in Nat /\ n \in 0 .. Blocks - 1
    BY BlocksInOrder DEF PInv
  <2>5. n' \in 0 .. Blocks - 1 /\ n + 1 <= Blocks
    BY <2>2, <2>4
  <2> QED
    BY <1>0, <1>1, <2>2, <2>3, <2>4, <2>5 DEF PInv
<1> QED
  BY <1>2, <1>3

LEMMA ConvertKeeps == PInv /\ Convert => PInv'
<1> SUFFICES ASSUME PInv, Convert PROVE PInv'
  OBVIOUS
<1>1. /\ UNCHANGED <<width, height, quality, pic, n, stream, dbuf, shown>>
      /\ Sized' = Sized /\ Colours' = Colours /\ Blocks' = Blocks /\ Buffer' = Buffer
  <2>1. UNCHANGED <<width, height, quality, pic, n, stream, dbuf, shown>>
    BY DEF Convert, fixed
  <2> QED
    BY <2>1 DEF Sized, Colours, Blocks, Buffer, BlocksBefore, Across, Down
<1>2. phase = "convert" /\ phase' = "encode"
  BY DEF Convert
<1>3. buf' \in [0 .. Buffer - 1 -> Byte]
  BY Converted DEF PInv, Convert
<1> QED
  BY <1>1, <1>2, <1>3 DEF PInv

(* The bytes of a decoded block.                                           *)
LEMMA DecodedBytes ==
    ASSUME PInv, phase = "decode"
    PROVE  Decoded(n) \in [Cells -> Byte]
<1> DEFINE b == idct8x8(quant_decode(stream[n + 1], Table(n)))
<1>1. stream[n + 1] \in [Cells -> Int]
  <2>1. Blocks \in Nat /\ n \in 0 .. Blocks - 1 /\ Len(stream) = Blocks
    BY BlocksInOrder DEF PInv
  <2>2. n + 1 \in 1 .. Len(stream)
    BY <2>1
  <2>3. stream[n + 1] \in [Cells -> Within(2048)]
    BY <2>2 DEF PInv
  <2>4. \A x \in Within(2048) : x \in Int
    BY DEF Within
  <2> QED
    BY <2>3, <2>4
<1>2. Table(n) \in [Cells -> 1 .. 255]
  <2>1. quality \in Int /\ n \in 0 .. Blocks - 1
    BY DEF PInv
  <2> QED
    BY <2>1, TableSteps
<1>3. b \in [Cells -> Int]
  BY <1>1, <1>2, Rebuilt, Idct8x8
<1>4. Decoded(n) = [c \in Cells |-> Clip(b[c] + 128, 0, 255)]
  BY DEF Decoded
<1> HIDE DEF b
<1>5. ASSUME NEW c \in Cells PROVE Clip(b[c] + 128, 0, 255) \in Byte
  <2>1. b[c] + 128 \in Int
    BY <1>3
  <2> QED
    BY <2>1, ClipWithin
<1> QED
  BY <1>4, <1>5

LEMMA DecodeBlockKeeps == PInv /\ DecodeBlock => PInv'
<1> SUFFICES ASSUME PInv, DecodeBlock PROVE PInv'
  OBVIOUS
<1>1. phase = "decode"
  BY DEF DecodeBlock
<1>0. /\ UNCHANGED <<width, height, quality, pic>>
      /\ Sized' = Sized /\ Colours' = Colours /\ Blocks' = Blocks /\ Buffer' = Buffer
  <2>1. UNCHANGED <<width, height, quality, pic>>
    BY DEF DecodeBlock, Leave, fixed
  <2> QED
    BY <2>1 DEF Sized, Colours, Blocks, Buffer, BlocksBefore, Across, Down
<1>2. CASE ~Inside(n)
  <2>1. phase' = "outside" /\ UNCHANGED <<n, buf, stream, dbuf, shown>>
    BY <1>2 DEF DecodeBlock, Leave
  <2> QED
    BY <1>0, <2>1 DEF PInv
<1>3. CASE Inside(n)
  <2> DEFINE b == Decoded(n)
  <2>1. b \in [Cells -> Byte]
    BY <1>1, DecodedBytes
  <2>2. /\ dbuf' = [a \in DOMAIN dbuf |-> IF CellAt(n, a) >= 0 THEN b[CellAt(n, a)] ELSE dbuf[a]]
        /\ UNCHANGED <<buf, stream, shown>>
        /\ IF n + 1 = Blocks THEN phase' = "show" /\ n' = 0
                             ELSE n' = n + 1 /\ phase' = "decode"
    BY <1>1, <1>3 DEF DecodeBlock
  <2> HIDE DEF b
  <2>3. DOMAIN dbuf = 0 .. Buffer - 1
    BY DEF PInv
  <2>4. ASSUME NEW a \in 0 .. Buffer - 1
        PROVE  (IF CellAt(n, a) >= 0 THEN b[CellAt(n, a)] ELSE dbuf[a]) \in Byte \cup {Unset}
    <3>1. CellAt(n, a) \in Cells \cup {-1}
      BY CellAtCell DEF PInv
    <3>2. CASE CellAt(n, a) >= 0
      <4>1. CellAt(n, a) \in Cells
        BY <3>1, <3>2
      <4> QED
        BY <2>1, <3>2, <4>1
    <3>3. CASE ~(CellAt(n, a) >= 0)
      BY <3>3 DEF PInv
    <3> QED
      BY <3>2, <3>3
  <2>5. dbuf' \in [0 .. Buffer - 1 -> Byte \cup {Unset}]
    BY <2>2, <2>3, <2>4
  <2>6. Blocks \in Nat /\ n \in 0 .. Blocks - 1
    BY BlocksInOrder DEF PInv
  <2>7. n' \in 0 .. Blocks - 1
    BY <2>2, <2>6
  <2> QED
    BY <1>0, <1>1, <2>2, <2>5, <2>7 DEF PInv
<1> QED
  BY <1>2, <1>3

LEMMA ShownPixel ==
    ASSUME PInv, NEW y \in 0 .. height - 1, NEW x \in 0 .. width - 1
    PROVE  LET s(p) == dbuf[SampleAt(Fmt, width, height, p, y, x)]
           IN  /\ FromPlanes(Fmt, width, height, dbuf)[y][x] = Rgb(s(0), s(1), s(2))
               /\ s(0) \in Int /\ s(1) \in Int /\ s(2) \in Int
<1> DEFINE s(p) == dbuf[SampleAt(Fmt, width, height, p, y, x)]
<1>1. FromPlanes(Fmt, width, height, dbuf)[y][x] = Rgb(s(0), s(1), s(2))
  BY DEF FromPlanes
<1>2. ASSUME NEW p \in 0 .. 2 PROVE s(p) \in Int
  <2>1. SampleAt(Fmt, width, height, p, y, x) \in 0 .. Buffer - 1
    BY SampleInside DEF PInv
  <2>2. \A v \in Byte \cup {Unset} : v \in Int
    BY DEF Byte, Unset
  <2> QED
    BY <2>1, <2>2 DEF PInv
<1> QED
  BY <1>1, <1>2

LEMMA ShowKeeps == PInv /\ Show => PInv'
<1> SUFFICES ASSUME PInv, Show PROVE PInv'
  OBVIOUS
<1>1. /\ UNCHANGED <<width, height, quality, pic, n, stream, buf, dbuf>>
      /\ Sized' = Sized /\ Colours' = Colours /\ Blocks' = Blocks /\ Buffer' = Buffer
  <2>1. UNCHANGED <<width, height, quality, pic, n, stream, buf, dbuf>>
    BY DEF Show, fixed
  <2> QED
    BY <2>1 DEF Sized, Colours, Blocks, Buffer, BlocksBefore, Across, Down
<1>2. phase = "show" /\ phase' = "done" /\ shown' = FromPlanes(Fmt, width, height, dbuf)
  BY DEF Show
<1>3. ASSUME NEW y \in 0 .. height - 1, NEW x \in 0 .. width - 1, NEW i \in 1 .. 3
      PROVE  shown'[y][x][i] \in Byte
  <2> DEFINE s(p) == dbuf[SampleAt(Fmt, width, height, p, y, x)]
  <2>1. /\ FromPlanes(Fmt, width, height, dbuf)[y][x] = Rgb(s(0), s(1), s(2))
        /\ s(0) \in Int /\ s(1) \in Int /\ s(2) \in Int
    BY ShownPixel
  <2> HIDE DEF s
  <2>2. Rgb(s(0), s(1), s(2))[i] \in Byte
    BY <2>1, RgbBytes
  <2> QED
    BY <1>2, <2>1, <2>2
<1>4. ShownBytes'
  BY <1>1, <1>3 DEF ShownBytes
<1> QED
  BY <1>1, <1>2, <1>3, <1>4 DEF PInv

LEMMA PInvStep == PInv /\ [Next]_ivars => PInv'
<1>1. ASSUME PInv, UNCHANGED ivars PROVE PInv'
  <2>1. UNCHANGED <<width, height, quality, pic, phase, n, buf, stream, dbuf, shown>>
    BY <1>1 DEF ivars, fixed
  <2>2. /\ Sized' = Sized /\ Colours' = Colours /\ Blocks' = Blocks /\ Buffer' = Buffer
        /\ ShownBytes' = ShownBytes
    BY <2>1 DEF Sized, Colours, Blocks, Buffer, BlocksBefore, Across, Down, ShownBytes
  <2> QED
    BY <1>1, <2>1, <2>2 DEF PInv
<1> QED
  BY <1>1, ConvertKeeps, EncodeBlockKeeps, DecodeBlockKeeps, ShowKeeps DEF Next

(* The buffers hold bytes and the stream small coefficients, block by block. *)
THEOREM PictureInvariant == Spec => []PInv
  BY PInvInit, PInvStep, PTL DEF Spec

(* Every sample and every colour stays a byte, for every size, whatever    *)
(* the transform and the quantiser make of a picture.                      *)
THEOREM PictureTypeCorrect == Spec => []PictureTypeOK
<1>1. PInv => PictureTypeOK
  <2> SUFFICES ASSUME PInv PROVE PictureTypeOK
    OBVIOUS
  <2>1. \A a \in DOMAIN buf : buf[a] \in Byte
    <3>1. CASE buf = <<>>
      BY <3>1
    <3>2. CASE buf \in [0 .. Buffer - 1 -> Byte]
      BY <3>2
    <3> QED
      BY <3>1, <3>2 DEF PInv
  <2>2. \A a \in DOMAIN dbuf : dbuf[a] \in Byte \cup {Unset}
    BY DEF PInv
  <2> QED
    BY <2>1, <2>2 DEF PInv, PictureTypeOK, ShownBytes
<1> QED
  BY <1>1, PictureInvariant, PTL

(* Twelve bits are enough for the coefficients of every picture of every   *)
(* size at every quality: none is larger than 2048.                        *)
THEOREM TwelveBits ==
    ASSUME MaxSize = 12
    PROVE  Spec => []CoefficientsFit
<1>1. PInv => CoefficientsFit
  <2> SUFFICES ASSUME PInv, NEW i \in 1 .. Len(stream), NEW m \in Cells
               PROVE  stream[i][m] \in -(2^MaxSize - 1) .. 2^MaxSize - 1
    BY DEF CoefficientsFit
  <2>1. stream[i] \in [Cells -> Within(2048)]
    BY DEF PInv
  <2>2. stream[i][m] \in Within(2048)
    BY <2>1
  <2> DEFINE t == 2 ^ MaxSize
           v == stream[i][m]
  <2>3. t \in Nat /\ t > 2048
    <3>1. 2 ^ 12 = 4096
      OBVIOUS
    <3> QED
      BY <3>1
  <2>6. v \in Within(2048)
    BY <2>2
  <2> HIDE DEF t, v
  <2>4. v \in Int /\ v <= 2048 /\ v >= -2048
    BY <2>6 DEF Within
  <2>5. v \in -(t - 1) .. t - 1
    BY <2>3, <2>4
  <2> QED
    BY <2>5 DEF t, v
<1> QED
  BY <1>1, PictureInvariant, PTL

-----------------------------------------------------------------------------
(* Pictures of whole macroblocks: 16 x 16 pixels, four blocks of luma and  *)
(* one of each chroma.                                                     *)

MacroBlocks == \A s \in Sizes : s[1] % 16 = 0 /\ s[2] % 16 = 0

Whole16 == Sized /\ width % 16 = 0 /\ height % 16 = 0

(* The blocks tile the planes, and the planes the buffer.                  *)
LEMMA Tiles ==
    ASSUME Whole16
    PROVE  /\ \A p \in 0 .. 2 : /\ PlaneWidth(Fmt, width, p) = 8 * Across(p)
                                /\ PlaneStart(Fmt, width, height, p) = 64 * BlocksBefore(p)
                                /\ Across(p) \in Nat /\ Across(p) > 0 /\ Down(p) \in Nat
           /\ Luma4 = 64 * BlocksBefore(1) /\ Buffer = 64 * Blocks
<1> DEFINE a == width \div 16
           b == height \div 16
<1>1. width = 16 * a /\ height = 16 * b /\ a \in Nat /\ b \in Nat /\ a > 0 /\ b > 0
  BY DEF Whole16, Sized
<1> HIDE DEF a, b
<1>2. /\ Across(0) = 2 * a /\ Down(0) = 2 * b
      /\ \A p \in {1, 2} : Across(p) = a /\ Down(p) = b
  BY <1>1 DEF Across, Down
<1>3. Half(width) = 8 * a /\ Half(height) = 8 * b
  BY <1>1 DEF Half
<1>4. Luma4 = 256 * (a * b) /\ Chroma = 64 * (a * b) /\ a * b \in Nat
  <2>1. (16 * a) * (16 * b) = 256 * (a * b) /\ (8 * a) * (8 * b) = 64 * (a * b) /\ a * b \in Nat
    BY <1>1
  <2> QED
    BY <1>1, <1>3, <2>1 DEF Luma4, Chroma
<1>5. Across(0) * Down(0) = 4 * (a * b) /\ \A p \in {1, 2} : Across(p) * Down(p) = a * b
  BY <1>1, <1>2
<1> DEFINE m == a * b
<1>6. /\ BlocksBefore(0) = 0 /\ BlocksBefore(1) = 4 * m /\ BlocksBefore(2) = 5 * m
      /\ BlocksBefore(3) = 6 * m /\ Blocks = 6 * m
  <2>0. /\ \A p \in 0 .. 2 : BlocksBefore(p + 1) = BlocksBefore(p) + Across(p) * Down(p)
        /\ BlocksBefore(0) = 0 /\ Blocks = BlocksBefore(3)
    BY BlocksInOrder DEF Whole16
  <2>1. /\ BlocksBefore(0 + 1) = 0 + 4 * m
        /\ BlocksBefore(1 + 1) = BlocksBefore(1) + m
        /\ BlocksBefore(2 + 1) = BlocksBefore(2) + m
    BY <1>5, <2>0
  <2>2. m \in Nat
    BY <1>4
  <2> HIDE DEF m
  <2> QED
    BY <2>0, <2>1, <2>2
<1>7. /\ PlaneStart(Fmt, width, height, 0) = 0 /\ PlaneStart(Fmt, width, height, 1) = 256 * m
      /\ PlaneStart(Fmt, width, height, 2) = 320 * m /\ Buffer = 384 * m
  BY <1>4, PlanesInBuffer DEF Whole16
<1>8. m \in Nat /\ Luma4 = 256 * m
  BY <1>4
<1> HIDE DEF m
<1>9. ASSUME NEW p \in 0 .. 2
      PROVE  /\ PlaneWidth(Fmt, width, p) = 8 * Across(p)
             /\ PlaneStart(Fmt, width, height, p) = 64 * BlocksBefore(p)
             /\ Across(p) \in Nat /\ Across(p) > 0 /\ Down(p) \in Nat
  <2>1. CASE p = 0
    <3>1. PlaneWidth(Fmt, width, 0) = width
      BY PlaneShapes DEF Whole16
    <3> QED
      BY <1>1, <1>2, <1>6, <1>7, <2>1, <3>1
  <2>2. CASE p \in {1, 2}
    <3>1. PlaneWidth(Fmt, width, p) = Half(width)
      BY <2>2, PlaneShapes DEF Whole16
    <3>2. PlaneStart(Fmt, width, height, p) = 64 * BlocksBefore(p)
      BY <1>6, <1>7, <1>8, <2>2
    <3> QED
      BY <1>1, <1>2, <1>3, <2>2, <3>1, <3>2
  <2> QED
    BY <2>1, <2>2
<1> QED
  BY <1>6, <1>7, <1>8, <1>9

(* The address of row u and column v of the block in row r and column q of *)
(* a plane of A blocks by D, from the start of the plane.                  *)
LEMMA InPlane ==
    ASSUME NEW A \in Nat, NEW D \in Nat, NEW r \in 0 .. D - 1, NEW q \in 0 .. A - 1,
           NEW u \in 0 .. 7, NEW v \in 0 .. 7
    PROVE  /\ 64 * (A * r) + 8 * (A * u) + 8 * q + v \in 0 .. 64 * (A * D) - 1
           /\ A * r \in Nat /\ A * u \in Nat /\ A * D \in Nat
<1>1. A * r \in Nat /\ A * u \in Nat /\ A * D \in Nat /\ A \in Nat /\ q \in Nat /\ q <= A - 1
  OBVIOUS
<1>2. A * r <= A * (D - 1) /\ A * (D - 1) = A * D - A
  OBVIOUS
<1>3. A * u <= 7 * A
  OBVIOUS
<1> DEFINE x == A * r
           y == A * u
           z == A * D
<1>4. x \in Nat /\ y \in Nat /\ z \in Nat /\ x <= z - A /\ y <= 7 * A
  BY <1>1, <1>2, <1>3
<1> HIDE DEF x, y, z
<1>5. 64 * x + 8 * y + 8 * q + v \in 0 .. 64 * z - 1
  BY <1>1, <1>4
<1> QED
  BY <1>1, <1>5 DEF x, y, z

LEMMA AddressIs ==
    ASSUME Whole16, NEW k \in 0 .. Blocks - 1, NEW c \in Cells
    PROVE  LET p == PlaneOf(k)
               A == Across(p)
               i == k - BlocksBefore(p)
               a == 64 * (A * (i \div A)) + 8 * (A * (c \div 8)) + 8 * (i % A) + (c % 8)
           IN  /\ p \in 0 .. 2 /\ A \in Nat /\ A > 0
               /\ Origin(k) = 64 * BlocksBefore(p) + 64 * (A * (i \div A)) + 8 * (i % A)
               /\ Stride(k) = 8 * A
               /\ Address(k, c) = 64 * BlocksBefore(p) + a
               /\ a \in 0 .. 64 * (A * Down(p)) - 1
               /\ Address(k, c) \in 64 * BlocksBefore(p) .. 64 * BlocksBefore(p + 1) - 1
<1> DEFINE p == PlaneOf(k)
           A == Across(p)
           D == Down(p)
           i == k - BlocksBefore(p)
           r == i \div A
           q == i % A
           u == c \div 8
           v == c % 8
           a == 64 * (A * r) + 8 * (A * u) + 8 * q + v
           start == PlaneStart(Fmt, width, height, p)
           B == BlocksBefore(p)
<1>1. /\ p \in 0 .. 2 /\ A \in Nat /\ A > 0 /\ D \in Nat
      /\ r \in 0 .. D - 1 /\ q \in 0 .. A - 1
  BY BlockPlace DEF Whole16
<1>2. u \in 0 .. 7 /\ v \in 0 .. 7
  BY DEF Cells
<1>3. Stride(k) = PlaneWidth(Fmt, width, p)
  BY DEF Stride
<1>4. Origin(k) = start + r * 8 * Stride(k) + q * 8 /\ Address(k, c) = Origin(k) + u * Stride(k) + v
  BY DEF Origin, Address
<1> HIDE DEF p, r, q, u, v, i
<1>5. Stride(k) = 8 * A /\ start = 64 * B /\ B \in Nat /\ BlocksBefore(p + 1) = B + A * D
  BY <1>1, <1>3, Tiles, BlocksInOrder DEF Whole16
<1>6. a \in 0 .. 64 * (A * D) - 1 /\ A * r \in Nat /\ A * u \in Nat /\ A * D \in Nat
  BY <1>1, <1>2, InPlane
<1> HIDE DEF A, D, B, start
<1>7. r * 8 * (8 * A) = 64 * (A * r) /\ u * (8 * A) = 8 * (A * u)
  BY <1>1, <1>2
<1>8. Origin(k) = 64 * B + 64 * (A * r) + 8 * q
  BY <1>1, <1>4, <1>5, <1>6, <1>7
<1>9. Address(k, c) = 64 * B + a
  BY <1>1, <1>2, <1>4, <1>5, <1>6, <1>7, <1>8
<1>10. Address(k, c) \in 64 * B .. 64 * BlocksBefore(p + 1) - 1
  <2> HIDE DEF a
  <2> QED
    BY <1>5, <1>6, <1>9
<1> QED
  BY <1>1, <1>5, <1>6, <1>8, <1>9, <1>10 DEF p, A, D, B, i, r, q, u, v

LEMMA AllInside ==
    ASSUME Whole16, NEW k \in 0 .. Blocks - 1, NEW c \in Cells
    PROVE  Address(k, c) \in 0 .. Buffer - 1
<1> DEFINE p == PlaneOf(k)
<1>1. p \in 0 .. 2 /\ Address(k, c) \in 64 * BlocksBefore(p) .. 64 * BlocksBefore(p + 1) - 1
  BY AddressIs
<1>2. /\ \A x \in 0 .. 3 : BlocksBefore(x) \in Nat
      /\ \A x \in 0 .. 2 : BlocksBefore(x + 1) = BlocksBefore(x) + Across(x) * Down(x)
      /\ \A x \in 0 .. 2 : Across(x) \in Nat /\ Down(x) \in Nat
      /\ Blocks = BlocksBefore(3)
  BY BlocksInOrder DEF Whole16
<1>3. \A x \in 0 .. 2 : BlocksBefore(x + 1) >= BlocksBefore(x)
  <2>1. \A x \in 0 .. 2 : Across(x) * Down(x) \in Nat
    BY <1>2
  <2> QED
    BY <1>2, <2>1
<1> HIDE DEF p
<1>4. BlocksBefore(p) \in Nat /\ BlocksBefore(p + 1) \in Nat /\ BlocksBefore(p + 1) <= Blocks
  <2>1. BlocksBefore(1) <= BlocksBefore(2) /\ BlocksBefore(2) <= BlocksBefore(3)
    <3>1. BlocksBefore(1) <= BlocksBefore(1 + 1) /\ BlocksBefore(2) <= BlocksBefore(2 + 1)
      BY <1>2, <1>3
    <3> QED
      BY <3>1
  <2> QED
    BY <1>1, <1>2, <2>1
<1>5. Buffer = 64 * Blocks /\ Blocks \in Nat
  BY <1>2, Tiles
<1> QED
  BY <1>1, <1>4, <1>5

(* The cell found at the address of a cell is that cell.                   *)
LEMMA CellBack ==
    ASSUME Whole16, NEW k \in 0 .. Blocks - 1, NEW c \in Cells
    PROVE  CellAt(k, Address(k, c)) = c
<1> DEFINE A == Across(PlaneOf(k))
           u == c \div 8
           v == c % 8
           s == Stride(k)
           off == Address(k, c) - Origin(k)
           row == Clip(off \div s, 0, 7)
           col == off - row * s
<1>1. /\ A \in Nat /\ A > 0 /\ s = 8 * A /\ Origin(k) \in Nat
      /\ Address(k, c) = Origin(k) + u * s + v
  BY AddressIs, AddressNat DEF Whole16, Address
<1>2. u \in 0 .. 7 /\ v \in 0 .. 7 /\ c = 8 * u + v
  BY DEF Cells
<1>3. CellAt(k, Address(k, c)) = IF col \in Line THEN 8 * row + col ELSE -1
  BY DEF CellAt
<1> HIDE DEF A, u, v, s
<1>4. u * s \in Nat /\ s \in Nat /\ s > 0 /\ v \in 0 .. s - 1
  BY <1>1, <1>2
<1>5. off = s * u + v /\ off \in Int
  BY <1>1, <1>2, <1>4
<1>6. off \div s = u
  <2> HIDE DEF off
  <2> QED
    BY <1>2, <1>4, <1>5, ModUnique
<1>7. row = u
  BY <1>2, <1>6 DEF Clip
<1> HIDE DEF off, row
<1>8. col = v
  BY <1>1, <1>2, <1>4, <1>5, <1>7
<1> QED
  BY <1>2, <1>3, <1>7, <1>8 DEF Line

(* A block of luma reaches no sample of chroma.                            *)
LEMMA LumaStaysIn ==
    ASSUME Whole16, NEW k \in 0 .. Blocks - 1, PlaneOf(k) = 0,
           NEW a \in Int, a >= Luma4
    PROVE  ~(CellAt(k, a) >= 0)
<1> DEFINE A == Across(0)
           D == Down(0)
           r == k \div A
           q == k % A
           x == A * r
           z == A * D
           s == Stride(k)
           off == a - Origin(k)
           d == off \div s
           row == Clip(d, 0, 7)
           col == off - row * s
<1>1. BlocksBefore(0) = 0 /\ BlocksBefore(0 + 1) = BlocksBefore(0) + z /\ k \in Int
  BY BlocksInOrder DEF Whole16
<1>2. k - BlocksBefore(PlaneOf(k)) = k
  BY <1>1
<1>3. A \in Nat /\ A > 0 /\ D \in Nat /\ r \in 0 .. D - 1 /\ q \in 0 .. A - 1
  BY <1>2, BlockPlace DEF Whole16
<1>4. Origin(k) = 64 * 0 + 64 * x + 8 * q /\ s = 8 * A
  <2>1. 0 \in Cells
    BY DEF Cells
  <2> QED
    BY <1>1, <1>2, <2>1, AddressIs
<1>5. CellAt(k, a) = IF col \in Line THEN 8 * row + col ELSE -1
  BY DEF CellAt
<1> HIDE DEF r, q
<1>6. x \in Nat /\ z \in Nat /\ x <= z - A
  <2>1. A * r <= A * (D - 1) /\ A * (D - 1) = A * D - A
    BY <1>3
  <2> QED
    BY <1>3, <2>1
<1>7. Luma4 = 64 * z
  <2>1. Luma4 = 64 * BlocksBefore(1) /\ BlocksBefore(1) = 0 + z
    BY <1>1, Tiles
  <2> HIDE DEF z
  <2> QED
    BY <1>6, <2>1
<1> HIDE DEF A, D, x, z, s
<1>8. off \in Int /\ off >= 56 * A + 8
  BY <1>3, <1>4, <1>6, <1>7
<1> HIDE DEF off
<1>9. d >= 7 /\ d \in Int
  <2> DEFINE m == off % s
  <2>1. s \in Nat /\ s > 0
    BY <1>3, <1>4
  <2>2. off = s * d + m /\ m \in 0 .. s - 1 /\ d \in Int
    BY <1>8, <2>1, DivMod
  <2> HIDE DEF d, m
  <2>3. d <= 6 => s * d <= s * 6 /\ s * d \in Int
    BY <2>1, <2>2
  <2>4. s * d \in Int
    BY <2>1, <2>2
  <2> QED
    BY <1>3, <1>4, <1>8, <2>1, <2>2, <2>3, <2>4
<1> HIDE DEF d
<1>10. row = 7
  BY <1>9 DEF Clip
<1> HIDE DEF row
<1>11. col >= 8 /\ col \in Int
  BY <1>3, <1>4, <1>8, <1>10
<1> QED
  BY <1>5, <1>11 DEF Line

(* The plane of an address, and of a block.                                *)
LEMMA PlaneIs ==
    ASSUME Sized, NEW k \in Nat, NEW p \in 0 .. 2,
           BlocksBefore(p) <= k, k < BlocksBefore(p + 1)
    PROVE  PlaneOf(k) = p /\ k \in 0 .. Blocks - 1
<1>1. /\ \A x \in 0 .. 3 : BlocksBefore(x) \in Nat
      /\ \A x \in 0 .. 2 : BlocksBefore(x + 1) = BlocksBefore(x) + Across(x) * Down(x)
      /\ \A x \in 0 .. 2 : Across(x) \in Nat /\ Down(x) \in Nat
      /\ Blocks = BlocksBefore(3)
  BY BlocksInOrder
<1>2. /\ BlocksBefore(1) >= BlocksBefore(0) /\ BlocksBefore(2) >= BlocksBefore(1)
      /\ BlocksBefore(3) >= BlocksBefore(2)
  <2>1. \A x \in 0 .. 2 : Across(x) * Down(x) \in Nat
    BY <1>1
  <2>2. \A x \in 0 .. 2 : BlocksBefore(x + 1) >= BlocksBefore(x)
    BY <1>1, <2>1
  <2>3. /\ BlocksBefore(0 + 1) >= BlocksBefore(0) /\ BlocksBefore(1 + 1) >= BlocksBefore(1)
        /\ BlocksBefore(2 + 1) >= BlocksBefore(2)
    BY <2>2
  <2> QED
    BY <2>3
<1>3. \A x, y \in 0 .. 2 : x < y => BlocksBefore(x + 1) <= BlocksBefore(y)
  BY <1>1, <1>2
<1>4. ASSUME NEW x \in 0 .. 2, BlocksBefore(x) <= k, k < BlocksBefore(x + 1) PROVE x = p
  <2>1. BlocksBefore(x) \in Nat /\ BlocksBefore(p) \in Nat
        /\ BlocksBefore(x + 1) \in Nat /\ BlocksBefore(p + 1) \in Nat
    BY <1>1
  <2>2. ~(x < p) /\ ~(p < x)
    BY <1>3, <1>4, <2>1
  <2> QED
    BY <2>2
<1>5. PlaneOf(k) = p
  BY <1>4 DEF PlaneOf
<1>6. k < Blocks
  BY <1>1, <1>2
<1> QED
  BY <1>1, <1>5, <1>6

(* Every address is that of a cell of a block.                             *)
LEMMA Covered ==
    ASSUME Whole16, NEW a \in 0 .. Buffer - 1
    PROVE  \E k \in 0 .. Blocks - 1, c \in Cells : a = Address(k, c)
<1>1. /\ \A x \in 0 .. 3 : BlocksBefore(x) \in Nat
      /\ \A x \in 0 .. 2 : BlocksBefore(x + 1) = BlocksBefore(x) + Across(x) * Down(x)
      /\ \A x \in 0 .. 2 : Across(x) \in Nat /\ Down(x) \in Nat /\ Across(x) > 0
      /\ Blocks = BlocksBefore(3) /\ Buffer = 64 * Blocks /\ BlocksBefore(0) = 0
  BY BlocksInOrder, Tiles DEF Whole16
<1>2. PICK p \in 0 .. 2 : 64 * BlocksBefore(p) <= a /\ a < 64 * BlocksBefore(p + 1)
  <2>1. a \in Nat /\ a < 64 * BlocksBefore(3)
    BY <1>1
  <2>2. CASE a < 64 * BlocksBefore(1)
    <3>1. 0 \in 0 .. 2 /\ 64 * BlocksBefore(0) <= a /\ a < 64 * BlocksBefore(0 + 1)
      BY <1>1, <2>1, <2>2
    <3> QED
      BY <3>1
  <2>3. CASE 64 * BlocksBefore(1) <= a /\ a < 64 * BlocksBefore(2)
    <3>1. 1 \in 0 .. 2 /\ 64 * BlocksBefore(1) <= a /\ a < 64 * BlocksBefore(1 + 1)
      BY <2>3
    <3> QED
      BY <3>1
  <2>4. CASE 64 * BlocksBefore(2) <= a
    <3>1. 2 \in 0 .. 2 /\ 64 * BlocksBefore(2) <= a /\ a < 64 * BlocksBefore(2 + 1)
      BY <2>1, <2>4
    <3> QED
      BY <3>1
  <2>5. BlocksBefore(1) \in Nat /\ BlocksBefore(2) \in Nat
    BY <1>1
  <2> QED
    BY <2>1, <2>2, <2>3, <2>4, <2>5
<1> DEFINE A == Across(p)
           D == Down(p)
           B == BlocksBefore(p)
           off == a - 64 * B
           r == off \div (64 * A)
           rem == off % (64 * A)
           u == rem \div (8 * A)
           e == rem % (8 * A)
           q == e \div 8
           v == e % 8
           i == A * r + q
           k == B + i
           c == 8 * u + v
<1>3. A \in Nat /\ A > 0 /\ D \in Nat /\ B \in Nat /\ BlocksBefore(p + 1) = B + A * D
  BY <1>1
<1>4. off \in 0 .. (64 * A) * D - 1
  <2>1. 64 * B <= a /\ a < 64 * (B + A * D)
    BY <1>2, <1>3
  <2> HIDE DEF A, D, B
  <2>2. A * D \in Nat /\ (64 * A) * D = 64 * (A * D) /\ a \in Int
    BY <1>1, <1>3
  <2> QED
    BY <1>3, <2>1, <2>2
<1> HIDE DEF off, A, D, B
<1>5. off = (64 * A) * r + rem /\ r \in 0 .. D - 1 /\ rem \in 0 .. 64 * A - 1
  <2>1. 64 * A \in Nat /\ 64 * A > 0
    BY <1>3
  <2> DEFINE W == 64 * A
  <2> HIDE DEF W
  <2>2. off = W * (off \div W) + (off % W) /\ off \div W \in 0 .. D - 1 /\ off % W \in 0 .. W - 1
    BY <1>3, <1>4, <2>1, RowColumn DEF W
  <2> QED
    BY <2>2 DEF W
<1> HIDE DEF r, rem
<1>6. rem = (8 * A) * u + e /\ u \in 0 .. 7 /\ e \in 0 .. 8 * A - 1
  <2>1. 8 * A \in Nat /\ 8 * A > 0 /\ rem \in 0 .. (8 * A) * 8 - 1
    BY <1>3, <1>5
  <2> DEFINE W == 8 * A
  <2> HIDE DEF W
  <2>2. rem = W * (rem \div W) + (rem % W) /\ rem \div W \in 0 .. 8 - 1 /\ rem % W \in 0 .. W - 1
    BY <2>1, RowColumn DEF W
  <2> QED
    BY <2>2 DEF W
<1> HIDE DEF u, e
<1>7. e = 8 * q + v /\ q \in 0 .. A - 1 /\ v \in 0 .. 7
  BY <1>3, <1>6
<1> HIDE DEF q, v
<1>8. A * r \in Nat /\ A * u \in Nat /\ i \in Nat /\ i < A * D
  <2>1. A * r \in Nat /\ A * u \in Nat /\ A * D \in Nat
    BY <1>3, <1>5, <1>6
  <2>2. A * r <= A * (D - 1) /\ A * (D - 1) = A * D - A
    BY <1>3, <1>5
  <2> QED
    BY <1>3, <1>7, <2>1, <2>2
<1>9. i % A = q /\ i \div A = r
  BY <1>3, <1>5, <1>7, <1>8, ModUnique
<1> HIDE DEF i
<1>10. k \in Nat /\ B <= k /\ k < B + A * D /\ k - B = i
  <2>1. A * D \in Nat
    BY <1>3
  <2> QED
    BY <1>3, <1>8, <2>1
<1>11. PlaneOf(k) = p /\ k \in 0 .. Blocks - 1
  <2> HIDE DEF k
  <2> QED
    BY <1>3, <1>10, PlaneIs DEF Whole16, B
<1>12. c \in Cells /\ c \div 8 = u /\ c % 8 = v
  BY <1>6, <1>7 DEF Cells
<1>13. Address(k, c) = 64 * B + (64 * (A * r) + 8 * (A * u) + 8 * q + v)
  <2> HIDE DEF k, c
  <2>1. /\ Across(PlaneOf(k)) = A /\ k - BlocksBefore(PlaneOf(k)) = i
        /\ BlocksBefore(PlaneOf(k)) = B
    BY <1>10, <1>11 DEF A, B
  <2> QED
    BY <1>9, <1>11, <1>12, <2>1, AddressIs
<1>14. a = 64 * B + off /\ a \in Int
  BY <1>1, <1>3 DEF off
<1>15. off = 64 * (A * r) + 8 * (A * u) + 8 * q + v
  <2>1. (64 * A) * r = 64 * (A * r) /\ (8 * A) * u = 8 * (A * u)
    BY <1>3, <1>5, <1>6
  <2> QED
    BY <1>3, <1>5, <1>6, <1>7, <1>8, <2>1
<1>16. a = Address(k, c)
  BY <1>13, <1>14, <1>15
<1> QED
  BY <1>11, <1>12, <1>16

\* Block by block, what is decoded covers the planes.
WInv ==
    /\ Whole16 /\ phase # "outside"
    /\ phase = "decode" => \A k \in 0 .. n - 1 : \A c \in Cells : dbuf[Address(k, c)] # Unset
    /\ PictureIsWhole

LEMMA WholeInside == ASSUME PInv, Whole16 PROVE Inside(n)
<1>1. n \in 0 .. Blocks - 1 /\ Buffer \in Nat
  BY PlanesInBuffer DEF PInv
<1>2. \A c \in Cells : Address(n, c) \in 0 .. Buffer - 1
  BY <1>1, AllInside
<1> QED
  BY <1>1, <1>2 DEF Inside

LEMMA Steady ==
    ASSUME UNCHANGED <<width, height>>
    PROVE  /\ Whole16' = Whole16 /\ Blocks' = Blocks /\ Buffer' = Buffer
           /\ Luma4' = Luma4 /\ BlocksBefore(1)' = BlocksBefore(1)
           /\ \A k, c : Address(k, c)' = Address(k, c)
<1>1. /\ Whole16' = Whole16 /\ Blocks' = Blocks /\ Buffer' = Buffer
      /\ Luma4' = Luma4 /\ BlocksBefore(1)' = BlocksBefore(1)
  BY DEF Whole16, Sized, Blocks, Buffer, BlocksBefore, Across, Down, Luma4
<1>2. \A k, c : Address(k, c)' = Address(k, c)
  BY DEF Address, Origin, Stride, PlaneOf, BlocksBefore, Across, Down
<1> QED
  BY <1>1, <1>2

LEMMA WInvInit == MacroBlocks /\ Init => WInv
<1> SUFFICES ASSUME MacroBlocks, Init PROVE WInv
  OBVIOUS
<1>1. PICK s \in Sizes : width = s[1] /\ height = s[2]
  BY DEF Init
<1>2. Whole16
  BY <1>1, PictureAssumption DEF Whole16, Sized, MacroBlocks
<1> QED
  BY <1>2 DEF Init, WInv, PictureIsWhole

LEMMA DecodeBlockCovers == PInv /\ WInv /\ DecodeBlock => WInv'
<1> SUFFICES ASSUME PInv, WInv, DecodeBlock PROVE WInv'
  OBVIOUS
<1> DEFINE b == Decoded(n)
<1>1. /\ phase = "decode" /\ UNCHANGED <<width, height>>
      /\ dbuf' = [a \in DOMAIN dbuf |-> IF CellAt(n, a) >= 0 THEN b[CellAt(n, a)] ELSE dbuf[a]]
      /\ IF n + 1 = Blocks THEN phase' = "show" /\ n' = 0
                           ELSE n' = n + 1 /\ phase' = "decode"
  BY WholeInside DEF WInv, DecodeBlock, fixed
<1>2. /\ Whole16' /\ Blocks' = Blocks /\ Buffer' = Buffer
      /\ \A k, c : Address(k, c)' = Address(k, c)
  BY <1>1, Steady DEF WInv
<1>3. b \in [Cells -> Byte] /\ \A v \in Byte : v # Unset
  BY <1>1, DecodedBytes DEF Byte, Unset
<1>4. DOMAIN dbuf = 0 .. Buffer - 1 /\ Blocks \in Nat /\ n \in 0 .. Blocks - 1 /\ Whole16
  BY BlocksInOrder DEF PInv, WInv
<1> HIDE DEF b
<1>5. \A k \in 0 .. n : \A c \in Cells : dbuf'[Address(k, c)] # Unset
  <2> SUFFICES ASSUME NEW k \in 0 .. n, NEW c \in Cells PROVE dbuf'[Address(k, c)] # Unset
    OBVIOUS
  <2> DEFINE a == Address(k, c)
  <2>0. k \in 0 .. Blocks - 1
    BY <1>4
  <2>1. a \in 0 .. Buffer - 1
    BY <1>4, <2>0, AllInside
  <2>2. dbuf'[a] = IF CellAt(n, a) >= 0 THEN b[CellAt(n, a)] ELSE dbuf[a]
    BY <1>1, <1>4, <2>1
  <2>3. CASE CellAt(n, a) >= 0
    <3>1. CellAt(n, a) \in Cells \cup {-1}
      BY <1>4, <2>1, CellAtCell DEF Whole16
    <3>2. CellAt(n, a) \in Cells
      BY <2>3, <3>1
    <3> QED
      BY <1>3, <2>2, <2>3, <3>2
  <2>4. CASE ~(CellAt(n, a) >= 0)
    <3>1. k # n
      <4>1. CellAt(n, Address(n, c)) = c
        BY <1>4, CellBack
      <4>2. c >= 0
        BY DEF Cells
      <4> QED
        BY <2>4, <4>1, <4>2
    <3>2. k \in 0 .. n - 1
      BY <1>4, <3>1
    <3> QED
      BY <1>1, <2>2, <2>4, <3>2 DEF WInv
  <2> QED
    BY <2>3, <2>4
<1>6. CASE n + 1 = Blocks
  <2>1. \A a \in 0 .. Buffer - 1 : dbuf'[a] # Unset
    <3> SUFFICES ASSUME NEW a \in 0 .. Buffer - 1 PROVE dbuf'[a] # Unset
      OBVIOUS
    <3>1. PICK k \in 0 .. Blocks - 1, c \in Cells : a = Address(k, c)
      BY <1>4, Covered
    <3>2. k \in 0 .. n
      BY <1>4, <1>6
    <3> QED
      BY <1>5, <3>1, <3>2
  <2>2. DOMAIN dbuf' = 0 .. Buffer - 1
    BY <1>1, <1>4
  <2>3. PictureIsWhole'
    BY <2>1, <2>2 DEF PictureIsWhole
  <2> QED
    BY <1>1, <1>2, <1>6, <2>3 DEF WInv
<1>7. CASE n + 1 # Blocks
  <2>1. n' - 1 = n /\ phase' = "decode"
    BY <1>1, <1>4, <1>7
  <2>2. \A k \in 0 .. n' - 1 : \A c \in Cells : dbuf'[Address(k, c)'] # Unset
    BY <1>2, <1>5, <2>1
  <2> QED
    BY <1>2, <2>1, <2>2 DEF WInv, PictureIsWhole
<1> QED
  BY <1>6, <1>7

LEMMA WInvStep == PInv /\ WInv /\ [Next]_ivars => WInv'
<1> SUFFICES ASSUME PInv, WInv, [Next]_ivars PROVE WInv'
  OBVIOUS
<1>1. CASE Convert
  <2>1. UNCHANGED <<width, height, n, dbuf>> /\ phase' = "encode"
    BY <1>1 DEF Convert, fixed
  <2> QED
    BY <2>1, Steady DEF WInv, PictureIsWhole
<1>2. CASE EncodeBlock
  <2>1. /\ UNCHANGED <<width, height, dbuf>>
        /\ phase' = "encode" \/ (phase' = "decode" /\ n' = 0)
    BY <1>2, WholeInside DEF EncodeBlock, fixed, WInv
  <2> QED
    BY <2>1, Steady DEF WInv, PictureIsWhole
<1>3. CASE DecodeBlock
  BY <1>3, DecodeBlockCovers
<1>4. CASE Show
  <2>1. UNCHANGED <<width, height, n, dbuf>> /\ phase' = "done"
    BY <1>4 DEF Show, fixed
  <2> QED
    BY <2>1, Steady DEF WInv, PictureIsWhole
<1>5. CASE UNCHANGED ivars
  <2>1. UNCHANGED <<width, height, n, dbuf, phase>>
    BY <1>5 DEF ivars, fixed
  <2> QED
    BY <2>1, Steady DEF WInv, PictureIsWhole
<1> QED
  BY <1>1, <1>2, <1>3, <1>4, <1>5 DEF Next

(* Where width and height are multiples of 16, every block lies inside     *)
(* the buffer.                                                             *)
THEOREM BlocksAreInside == ASSUME MacroBlocks PROVE Spec => []BlocksStayInside
<1>1. WInv => BlocksStayInside
  BY DEF WInv, BlocksStayInside
<1> QED
  BY <1>1, WInvInit, WInvStep, PictureInvariant, PTL DEF Spec

(* The blocks then cover the planes: nothing is shown that was not decoded. *)
THEOREM NothingUnset == ASSUME MacroBlocks PROVE Spec => []PictureIsWhole
<1>1. WInv => PictureIsWhole
  BY DEF WInv
<1> QED
  BY <1>1, WInvInit, WInvStep, PictureInvariant, PTL DEF Spec

-----------------------------------------------------------------------------
(* Pictures without colour.                                                *)

Zeros == [c \in Cells |-> 0]

LEMMA WithinZero == Within(0) = {0}
  BY DEF Within

LEMMA TableStep == ASSUME NEW q \in 1 .. 255 PROVE Int16(Quantise(0, q)) = 0
<1>1. (0 + q \div 2) \div q = 0
  <2>1. (0 + q \div 2) \div q \in 0 .. 0
    BY Quotient
  <2> QED
    BY <2>1
<1>2. Quantise(0, q) = 0
  BY <1>1 DEF Quantise
<1> QED
  BY <1>2 DEF Int16

LEMMA ZerosEncoded ==
    ASSUME NEW t \in [Cells -> 1 .. 255]
    PROVE  quant_encode(dct8x8(Zeros), t) = Zeros
<1> DEFINE d == dct8x8(Zeros)
<1>1. d \in [Cells -> Within(0)]
  <2>1. Zeros \in [Cells -> Within(0)] /\ 0 \in 0 .. 128
    BY WithinZero DEF Zeros
  <2>2. dct8x8(Zeros) \in [Cells -> Within(16 * 0)]
    BY <2>1, Dct8x8
  <2>3. 16 * 0 = 0
    OBVIOUS
  <2> QED
    BY <2>2, <2>3
<1> HIDE DEF d
<1>2. ASSUME NEW j \in Cells PROVE Int16(Quantise(d[ZIGZAG[j + 1]], t[j])) = 0
  <2>1. d[ZIGZAG[j + 1]] = 0 /\ t[j] \in 1 .. 255
    BY <1>1, ZigzagCells, WithinZero
  <2> QED
    BY <2>1, TableStep
<1>3. quant_encode(d, t) = [j \in Cells |-> Int16(Quantise(d[ZIGZAG[j + 1]], t[j]))]
  BY DEF quant_encode
<1>4. quant_encode(d, t) = Zeros
  BY <1>2, <1>3 DEF Zeros
<1> QED
  BY <1>4 DEF d

LEMMA ZeroLine ==
    ASSUME NEW v, v = [k \in Line |-> 0]
    PROVE  idct1d(v) = [k \in Line |-> 0]
<1> DEFINE u == [k \in Line |-> (v[k] * Scale(k) + 512) \div 1024]
<1>1. u = [k \in Line |-> 0]
  <2>1. ASSUME NEW k \in Line PROVE (v[k] * Scale(k) + 512) \div 1024 = 0
    BY DEF Scale
  <2> QED
    BY <2>1
<1>2. \A j, k \in Line : Cos(j, k) \in Int
  BY DEF Cos, COS_TABLE, Line
<1> HIDE DEF u
<1>3. ASSUME NEW j \in Line
      PROVE  (Sum8([k \in Line |-> u[k] * Cos(j, k)]) + 1024) \div 2048 = 0
  <2>1. \A k \in Line : u[k] * Cos(j, k) = 0
    BY <1>1, <1>2
  <2>2. Sum8([k \in Line |-> u[k] * Cos(j, k)]) = 0
    BY <2>1 DEF Sum8, Line
  <2> QED
    BY <2>2
<1>4. idct1d(v) = [j \in Line |-> (Sum8([k \in Line |-> u[k] * Cos(j, k)]) + 1024) \div 2048]
  BY DEF idct1d, u
<1> DEFINE s(j) == (Sum8([k \in Line |-> u[k] * Cos(j, k)]) + 1024) \div 2048
<1>5. idct1d(v) = [j \in Line |-> s(j)] /\ \A j \in Line : s(j) = 0
  BY <1>3, <1>4
<1> HIDE DEF s
<1> QED
  BY <1>5

LEMMA ZerosBack ==
    ASSUME NEW t \in [Cells -> 1 .. 255]
    PROVE  idct8x8(quant_decode(Zeros, t)) = Zeros
<1>1. quant_decode(Zeros, t) = Zeros
  <2>1. ASSUME NEW p \in Cells PROVE Int16(Zeros[Place[p]] * t[Place[p]]) = 0
    <3>1. Zeros[Place[p]] = 0 /\ t[Place[p]] \in Int
      BY PlaceCells DEF Zeros
    <3>2. Zeros[Place[p]] * t[Place[p]] = 0
      BY <3>1
    <3> QED
      BY <3>2 DEF Int16
  <2> QED
    BY <2>1 DEF quant_decode, Zeros
<1> DEFINE u == [c \in Line |-> idct1d([r \in Line |-> Zeros[8 * r + c]])]
           C == [p \in Cells |-> u[p % 8][p \div 8]]
           s == [r \in Line |-> idct1d([c \in Line |-> C[8 * r + c]])]
           R == [p \in Cells |-> s[p \div 8][p % 8]]
<1>2. ASSUME NEW c \in Line PROVE u[c] = [r \in Line |-> 0]
  <2>1. [r \in Line |-> Zeros[8 * r + c]] = [r \in Line |-> 0]
    BY CellOf DEF Zeros
  <2> QED
    BY <2>1, ZeroLine
<1>3. C = Cols(idct1d, Zeros)
  BY DEF Cols
<1>4. C = Zeros
  <2> HIDE DEF u
  <2> QED
    BY <1>2, LineOf DEF Zeros
<1> HIDE DEF u, C
<1>5. ASSUME NEW r \in Line PROVE s[r] = [c \in Line |-> 0]
  <2>1. [c \in Line |-> C[8 * r + c]] = [c \in Line |-> 0]
    BY <1>4, CellOf DEF Zeros
  <2> QED
    BY <2>1, ZeroLine
<1>6. R = Rows(idct1d, C)
  BY DEF Rows
<1>7. R = Zeros
  <2> HIDE DEF s
  <2> QED
    BY <1>5, LineOf DEF Zeros
<1> HIDE DEF s, R
<1>8. idct8x8(Zeros) = [p \in Cells |-> Int16(R[p])]
  BY <1>3, <1>4, <1>6 DEF idct8x8
<1>9. Int16(0) = 0
  BY DEF Int16
<1>10. idct8x8(Zeros) = Zeros
  BY <1>7, <1>8, <1>9 DEF Zeros
<1> QED
  BY <1>1, <1>10

(* The blocks behind those of luma lie in the chroma planes.               *)
LEMMA ChromaBlock ==
    ASSUME Whole16, NEW k \in 0 .. Blocks - 1, PlaneOf(k) # 0
    PROVE  k >= BlocksBefore(1) /\ \A c \in Cells : Address(k, c) >= Luma4
<1> DEFINE p == PlaneOf(k)
<1>1. p \in {1, 2} /\ BlocksBefore(p) <= k
  BY PlaneFound DEF Whole16
<1>2. /\ \A x \in 0 .. 3 : BlocksBefore(x) \in Nat
      /\ BlocksBefore(1 + 1) = BlocksBefore(1) + Across(1) * Down(1)
      /\ Across(1) * Down(1) \in Nat
  <2>1. Across(1) \in Nat /\ Down(1) \in Nat
    BY BlocksInOrder DEF Whole16
  <2> QED
    BY <2>1, BlocksInOrder DEF Whole16
<1>3. \A c \in Cells : Address(k, c) \in 64 * BlocksBefore(p) .. 64 * BlocksBefore(p + 1) - 1
  BY AddressIs
<1> HIDE DEF p
<1>4. BlocksBefore(p) >= BlocksBefore(1) /\ BlocksBefore(p) \in Nat /\ BlocksBefore(p + 1) \in Nat
  BY <1>1, <1>2
<1>5. Luma4 = 64 * BlocksBefore(1) /\ BlocksBefore(1) \in Nat
  BY <1>2, Tiles
<1> QED
  BY <1>1, <1>3, <1>4, <1>5

\* What a picture without colour leaves in the chroma planes and in their
\* blocks: 128, and zero coefficients.
GInv ==
    GreyPicture =>
        /\ phase = "encode" => \A a \in 0 .. Buffer - 1 : a >= Luma4 => buf[a] = 128
        /\ \A j \in 1 .. Len(stream) : j > BlocksBefore(1) => stream[j] = Zeros
        /\ \A a \in 0 .. Buffer - 1 : a >= Luma4 => dbuf[a] \in {128, Unset}
        /\ phase = "done" => \A y \in 0 .. height - 1, x \in 0 .. width - 1 : Grey(shown[y][x])

LEMMA SameGrey ==
    ASSUME UNCHANGED fixed
    PROVE  /\ UNCHANGED <<width, height, quality, pic>> /\ GreyPicture' = GreyPicture
           /\ Blocks' = Blocks /\ Buffer' = Buffer /\ Luma4' = Luma4
           /\ BlocksBefore(1)' = BlocksBefore(1)
  BY Steady DEF fixed, GreyPicture

LEMMA GInvInit == Init => GInv
  BY DEF Init, GInv

LEMMA ConvertGrey == PInv /\ GInv /\ Convert => GInv'
<1> SUFFICES ASSUME PInv, GInv, Convert, GreyPicture PROVE GInv'
  BY SameGrey DEF Convert, GInv
<1>1. /\ phase = "convert" /\ phase' = "encode" /\ UNCHANGED <<fixed, stream, dbuf>>
      /\ buf' = ToPlanes(Fmt, width, height, pic)
  BY DEF Convert
<1>2. \A a \in 0 .. Buffer - 1 : a >= Luma4 => buf'[a] = 128
  BY <1>1, Converted DEF PInv
<1> QED
  BY <1>1, <1>2, SameGrey DEF GInv

LEMMA EncodeBlockGrey == PInv /\ WInv /\ GInv /\ EncodeBlock => GInv'
<1> SUFFICES ASSUME PInv, WInv, GInv, EncodeBlock, GreyPicture PROVE GInv'
  BY WholeInside, SameGrey DEF EncodeBlock, GInv, WInv
<1> DEFINE e == [c \in Cells |-> buf[Address(n, c)] - 128]
           b == quant_encode(dct8x8(e), Table(n))
<1>1. /\ phase = "encode" /\ UNCHANGED <<fixed, buf, dbuf, shown>>
      /\ stream' = Append(stream, b)
      /\ phase' \in {"encode", "decode"}
  BY WholeInside DEF EncodeBlock, WInv
<1>2. /\ Whole16 /\ n \in 0 .. Blocks - 1 /\ quality \in Int
      /\ Len(stream) = n /\ stream \in Seq([Cells -> Within(2048)])
  BY <1>1 DEF PInv, WInv
<1>3. ASSUME n >= BlocksBefore(1) PROVE b = Zeros
  <2>1. PlaneOf(n) # 0
    <3>1. BlocksBefore(1) \in Nat /\ Blocks \in Nat
      BY <1>2, BlocksInOrder DEF Whole16
    <3>2. n < BlocksBefore(PlaneOf(n) + 1)
      BY <1>2, PlaneFound DEF Whole16
    <3>3. PlaneOf(n) = 0 => n < BlocksBefore(1)
      BY <3>2
    <3> QED
      BY <1>2, <1>3, <3>1, <3>3
  <2>2. \A c \in Cells : buf[Address(n, c)] = 128
    BY <1>1, <1>2, <2>1, ChromaBlock, AllInside DEF GInv
  <2>3. e = Zeros
    BY <2>2 DEF Zeros
  <2>4. Table(n) \in [Cells -> 1 .. 255]
    BY <1>2, TableSteps
  <2> HIDE DEF e
  <2> QED
    BY <2>3, <2>4, ZerosEncoded
<1> HIDE DEF b
<1>4. ASSUME NEW j \in 1 .. Len(stream'), j > BlocksBefore(1) PROVE stream'[j] = Zeros
  <2>1. Len(stream') = n + 1 /\ BlocksBefore(1) \in Nat /\ n \in Nat
    <3>0. Sized
      BY <1>2 DEF Whole16
    <3>1. \A p \in 0 .. 3 : BlocksBefore(p) \in Nat
      BY <3>0, BlocksInOrder, Zenon
    <3>2. Len(stream') = n + 1
      BY <1>1, <1>2
    <3>3. BlocksBefore(3) \in Nat /\ Blocks = BlocksBefore(3)
      BY <3>1 DEF Blocks
    <3> QED
      BY <1>2, <3>1, <3>2, <3>3
  <2>2. CASE j <= n
    <3>1. stream'[j] = stream[j] /\ j \in 1 .. Len(stream)
      BY <1>1, <1>2, <2>1, <2>2
    <3> QED
      BY <1>4, <3>1 DEF GInv
  <2>3. CASE j > n
    <3>1. j = n + 1 /\ n >= BlocksBefore(1)
      BY <1>4, <2>1, <2>3
    <3>2. stream'[n + 1] = b
      BY <1>1, <1>2
    <3> QED
      BY <1>3, <3>1, <3>2
  <2> QED
    BY <2>1, <2>2, <2>3
<1>5. \A j \in 1 .. Len(stream') : j > BlocksBefore(1)' => stream'[j] = Zeros
  BY <1>1, <1>4, SameGrey
<1> QED
  BY <1>1, <1>5, SameGrey DEF GInv

LEMMA DecodeBlockGrey == PInv /\ WInv /\ GInv /\ DecodeBlock => GInv'
<1> SUFFICES ASSUME PInv, WInv, GInv, DecodeBlock, GreyPicture PROVE GInv'
  BY WholeInside, SameGrey DEF DecodeBlock, GInv, WInv
<1> DEFINE b == Decoded(n)
<1>1. /\ phase = "decode" /\ UNCHANGED <<fixed, buf, stream, shown>>
      /\ dbuf' = [a \in DOMAIN dbuf |-> IF CellAt(n, a) >= 0 THEN b[CellAt(n, a)] ELSE dbuf[a]]
      /\ phase' \in {"decode", "show"}
  BY WholeInside DEF DecodeBlock, WInv
<1>2. /\ Whole16 /\ n \in 0 .. Blocks - 1 /\ quality \in Int /\ Len(stream) = Blocks
      /\ DOMAIN dbuf = 0 .. Buffer - 1
  BY <1>1 DEF PInv, WInv
<1>3. ASSUME PlaneOf(n) # 0, NEW c \in Cells PROVE b[c] = 128
  <2>1. n >= BlocksBefore(1) /\ BlocksBefore(1) \in Nat /\ Blocks \in Nat
    BY <1>2, <1>3, ChromaBlock, BlocksInOrder DEF Whole16
  <2>2. stream[n + 1] = Zeros
    BY <1>2, <2>1 DEF GInv
  <2>3. Table(n) \in [Cells -> 1 .. 255]
    BY <1>2, TableSteps
  <2>4. idct8x8(quant_decode(stream[n + 1], Table(n))) = Zeros
    BY <2>2, <2>3, ZerosBack
  <2>5. b[c] = Clip(Zeros[c] + 128, 0, 255)
    BY <2>4 DEF Decoded
  <2> QED
    BY <2>5 DEF Zeros, Clip
<1> HIDE DEF b
<1>4. ASSUME NEW a \in 0 .. Buffer - 1, a >= Luma4 PROVE dbuf'[a] \in {128, Unset}
  <2>1. dbuf'[a] = IF CellAt(n, a) >= 0 THEN b[CellAt(n, a)] ELSE dbuf[a]
    BY <1>1, <1>2
  <2>2. CASE CellAt(n, a) >= 0
    <3>1. PlaneOf(n) # 0
      BY <1>2, <1>4, <2>2, LumaStaysIn
    <3>2. CellAt(n, a) \in Cells
      BY <1>2, <2>2, CellAtCell DEF Whole16
    <3> QED
      BY <1>3, <2>1, <2>2, <3>1, <3>2
  <2>3. CASE ~(CellAt(n, a) >= 0)
    BY <1>4, <2>1, <2>3 DEF GInv
  <2> QED
    BY <2>2, <2>3
<1> QED
  BY <1>1, <1>4, SameGrey DEF GInv

LEMMA ShowGrey == PInv /\ WInv /\ GInv /\ Show => GInv'
<1> SUFFICES ASSUME PInv, WInv, GInv, Show, GreyPicture PROVE GInv'
  BY SameGrey DEF Show, GInv
<1>1. /\ phase = "show" /\ phase' = "done" /\ UNCHANGED <<fixed, buf, stream, dbuf>>
      /\ shown' = FromPlanes(Fmt, width, height, dbuf)
  BY DEF Show
<1>2. ASSUME NEW y \in 0 .. height - 1, NEW x \in 0 .. width - 1
      PROVE  Grey(shown'[y][x])
  <2> DEFINE at(p) == SampleAt(Fmt, width, height, p, y, x)
             s(p) == dbuf[at(p)]
  <2>1. ASSUME NEW p \in {1, 2} PROVE s(p) = 128
    <3>1. at(p) \in 0 .. Buffer - 1 /\ at(p) >= Luma4
      BY SampleInside DEF PInv
    <3> HIDE DEF at
    <3>2. DOMAIN dbuf = 0 .. Buffer - 1
      BY DEF PInv
    <3>3. s(p) # Unset
      BY <1>1, <3>1, <3>2 DEF WInv, PictureIsWhole
    <3> QED
      BY <3>1, <3>3 DEF GInv
  <2>2. shown'[y][x] = Rgb(s(0), s(1), s(2)) /\ s(0) \in Int
    BY <1>1, ShownPixel
  <2> HIDE DEF s
  <2>3. s(1) = 128 /\ s(2) = 128
    BY <2>1
  <2> QED
    BY <2>2, <2>3, RgbBytes
<1>3. \A y \in 0 .. height' - 1, x \in 0 .. width' - 1 : Grey(shown'[y][x])
  BY <1>1, <1>2, SameGrey
<1> QED
  BY <1>1, <1>3, SameGrey DEF GInv

LEMMA GInvStep == PInv /\ WInv /\ GInv /\ [Next]_ivars => GInv'
<1>1. GInv /\ UNCHANGED ivars => GInv'
  <2> SUFFICES ASSUME GInv, UNCHANGED ivars PROVE GInv'
    OBVIOUS
  <2>1. UNCHANGED <<fixed, phase, buf, stream, dbuf, shown>>
    BY DEF ivars
  <2>2. /\ UNCHANGED <<width, height>> /\ GreyPicture' = GreyPicture
        /\ Buffer' = Buffer /\ Luma4' = Luma4 /\ BlocksBefore(1)' = BlocksBefore(1)
    BY <2>1, SameGrey
  <2> QED
    BY <2>1, <2>2 DEF GInv
<1> QED
  BY <1>1, ConvertGrey, EncodeBlockGrey, DecodeBlockGrey, ShowGrey DEF Next

(* A picture of whole macroblocks without colour comes back without        *)
(* colour, whatever its luma and at every quality.                         *)
THEOREM GreyComesBackGrey == ASSUME MacroBlocks PROVE Spec => []GreyStaysGrey
<1>1. GInv => GreyStaysGrey
  BY DEF GInv, GreyStaysGrey, GreyPicture
<1> QED
  BY <1>1, GInvInit, GInvStep, WInvInit, WInvStep, PictureInvariant, PTL DEF Spec

-----------------------------------------------------------------------------
(* What the transform loses.  Up to a factor the cosine table is close to  *)
(* orthogonal, so one pass back and forth multiplies squared errors by     *)
(* little more than one half (OnePass), and both passes by one quarter.    *)

Row(w, j) == Sum8([k \in Line |-> w[k] * Cos(j, k)])

(* The rows of the table, by the symmetries of the cosines.                *)
LEMMA RowIs ==
    ASSUME NEW w \in [Line -> Int]
    PROVE  LET a == w[0]
               b == w[1]
               c == w[2]
               d == w[3]
               e == w[4]
               f == w[5]
               g == w[6]
               h == w[7]
               p == 1024 * a + 724 * e
               q == 1024 * a - 724 * e
               s == 946 * c + 392 * g
               t == 392 * c - 946 * g
               x0 == 1004 * b + 851 * d + 569 * f + 200 * h
               x1 == 851 * b - 200 * d - 1004 * f - 569 * h
               x2 == 569 * b - 1004 * d + 200 * f + 851 * h
               x3 == 200 * b - 569 * d + 851 * f - 1004 * h
           IN  /\ Row(w, 0) = p + s + x0 /\ Row(w, 7) = p + s - x0
               /\ Row(w, 1) = q + t + x1 /\ Row(w, 6) = q + t - x1
               /\ Row(w, 2) = q - t + x2 /\ Row(w, 5) = q - t - x2
               /\ Row(w, 3) = p - s + x3 /\ Row(w, 4) = p - s - x3
  BY SMTT(120) DEF Row, Sum8, Line, Cos, COS_TABLE

LEMMA PlusMinus ==
    ASSUME NEW x \in Int, NEW y \in Int
    PROVE  Square(x + y) + Square(x - y) = 2 * Square(x) + 2 * Square(y)
  BY DEF Square

LEMMA SquareNat == \A x \in Int : Square(x) \in Nat
  BY DEF Square

(* The odd cosines are nearly orthogonal, the even ones exactly.           *)
LEMMA OddRows ==
    ASSUME NEW b \in Int, NEW d \in Int, NEW f \in Int, NEW h \in Int
    PROVE  LET x0 == 1004 * b + 851 * d + 569 * f + 200 * h
               x1 == 851 * b - 200 * d - 1004 * f - 569 * h
               x2 == 569 * b - 1004 * d + 200 * f + 851 * h
               x3 == 200 * b - 569 * d + 851 * f - 1004 * h
           IN  Square(x0) + Square(x1) + Square(x2) + Square(x3)
                 <= 2097722 * (Square(b) + Square(d) + Square(f) + Square(h))
<1>1. /\ Square(b + d) >= 0 /\ Square(b - f) >= 0 /\ Square(d - h) >= 0 /\ Square(f - h) >= 0
  BY DEF Square
<1> QED
  BY <1>1, SMTT(20) DEF Square

LEMMA EvenRows ==
    ASSUME NEW a \in Int, NEW c \in Int, NEW e \in Int, NEW g \in Int
    PROVE  /\ Square(1024 * a + 724 * e) + Square(1024 * a - 724 * e)
                = 2097152 * Square(a) + 1048352 * Square(e)
           /\ Square(946 * c + 392 * g) + Square(392 * c - 946 * g)
                = 1048580 * (Square(c) + Square(g))
  BY SMTT(20) DEF Square

\* What idct1d makes of a sum of squares: 1024^2 * 8, and half of it but for
\* the last digits of the table.
Weighted(w) == 8388608 * Square(w[0])
                 + 4195444 * (Square(w[1]) + Square(w[2]) + Square(w[3]) + Square(w[4])
                              + Square(w[5]) + Square(w[6]) + Square(w[7]))

LEMMA RowSquares ==
    ASSUME NEW w \in [Line -> Int]
    PROVE  Sum8([j \in Line |-> Square(Row(w, j))]) <= Weighted(w)
<1> DEFINE a == w[0]
           b == w[1]
           c == w[2]
           d == w[3]
           e == w[4]
           f == w[5]
           g == w[6]
           h == w[7]
           p == 1024 * a + 724 * e
           q == 1024 * a - 724 * e
           s == 946 * c + 392 * g
           t == 392 * c - 946 * g
           x0 == 1004 * b + 851 * d + 569 * f + 200 * h
           x1 == 851 * b - 200 * d - 1004 * f - 569 * h
           x2 == 569 * b - 1004 * d + 200 * f + 851 * h
           x3 == 200 * b - 569 * d + 851 * f - 1004 * h
<1>1. /\ a \in Int /\ b \in Int /\ c \in Int /\ d \in Int
      /\ e \in Int /\ f \in Int /\ g \in Int /\ h \in Int
  BY DEF Line
<1>2. Sum8([j \in Line |-> Square(Row(w, j))])
        = Square(p + s + x0) + Square(q + t + x1) + Square(q - t + x2) + Square(p - s + x3)
          + Square(p - s - x3) + Square(q - t - x2) + Square(q + t - x1) + Square(p + s - x0)
  BY RowIs, SMTT(20) DEF Sum8, Line
<1>3. Weighted(w) = 8388608 * Square(a) + 4195444 * (Square(b) + Square(c) + Square(d)
                      + Square(e) + Square(f) + Square(g) + Square(h))
  BY SMTT(20) DEF Weighted
<1> HIDE DEF a, b, c, d, e, f, g, h
<1>4. Square(x0) + Square(x1) + Square(x2) + Square(x3)
        <= 2097722 * (Square(b) + Square(d) + Square(f) + Square(h))
  BY <1>1, OddRows, SMTT(20)
<1>5. /\ Square(p) + Square(q) = 2097152 * Square(a) + 1048352 * Square(e)
      /\ Square(s) + Square(t) = 1048580 * (Square(c) + Square(g))
  BY <1>1, EvenRows, SMTT(20)
<1>6. /\ p \in Int /\ q \in Int /\ s \in Int /\ t \in Int
      /\ x0 \in Int /\ x1 \in Int /\ x2 \in Int /\ x3 \in Int
  BY <1>1
<1>7. /\ Square(a) \in Nat /\ Square(b) \in Nat /\ Square(c) \in Nat /\ Square(d) \in Nat
      /\ Square(e) \in Nat /\ Square(f) \in Nat /\ Square(g) \in Nat /\ Square(h) \in Nat
  BY <1>1, SquareNat
<1> HIDE DEF p, q, s, t, x0, x1, x2, x3
<1>8. /\ Square(p + s + x0) + Square(p + s - x0) = 2 * Square(p + s) + 2 * Square(x0)
      /\ Square(q + t + x1) + Square(q + t - x1) = 2 * Square(q + t) + 2 * Square(x1)
      /\ Square(q - t + x2) + Square(q - t - x2) = 2 * Square(q - t) + 2 * Square(x2)
      /\ Square(p - s + x3) + Square(p - s - x3) = 2 * Square(p - s) + 2 * Square(x3)
      /\ Square(p + s) + Square(p - s) = 2 * Square(p) + 2 * Square(s)
      /\ Square(q + t) + Square(q - t) = 2 * Square(q) + 2 * Square(t)
  BY <1>6, SMTT(20) DEF Square
<1>9. \A x \in Int : Square(x) \in Int
  BY SquareNat
<1>10. /\ Square(p) \in Int /\ Square(q) \in Int /\ Square(s) \in Int /\ Square(t) \in Int
       /\ Square(x0) \in Int /\ Square(x1) \in Int /\ Square(x2) \in Int /\ Square(x3) \in Int
       /\ Square(p + s) \in Int /\ Square(p - s) \in Int
       /\ Square(q + t) \in Int /\ Square(q - t) \in Int
       /\ Square(p + s + x0) \in Int /\ Square(p + s - x0) \in Int
       /\ Square(q + t + x1) \in Int /\ Square(q + t - x1) \in Int
       /\ Square(q - t + x2) \in Int /\ Square(q - t - x2) \in Int
       /\ Square(p - s + x3) \in Int /\ Square(p - s - x3) \in Int
  BY <1>6, <1>9
<1> QED
  BY <1>2, <1>4, <1>5, <1>3, <1>7, <1>8, <1>10, SMTT(20)

Abs(x) == IF x < 0 THEN -x ELSE x

LEMMA AbsNat == \A x \in Int : Abs(x) \in Nat /\ x <= Abs(x) /\ -x <= Abs(x)
  BY DEF Abs

LEMMA CosInt == \A j, k \in Line : Cos(j, k) \in Int
  BY SMTT(20) DEF Cos, COS_TABLE, Line

LEMMA SumInt == ASSUME NEW v \in [Line -> Int] PROVE Sum8(v) \in Int
  BY DEF Sum8, Line

LEMMA RowInt == ASSUME NEW w \in [Line -> Int], NEW j \in Line PROVE Row(w, j) \in Int
<1>1. [k \in Line |-> w[k] * Cos(j, k)] \in [Line -> Int]
  BY CosInt
<1> QED
  BY <1>1, SumInt DEF Row

Column(v, k) == Sum8([j \in Line |-> v[j] * Cos(j, k)])

LEMMA ColumnInt == ASSUME NEW v \in [Line -> Int], NEW k \in Line PROVE Column(v, k) \in Int
<1>1. [j \in Line |-> v[j] * Cos(j, k)] \in [Line -> Int]
  BY CosInt
<1> QED
  BY <1>1, SumInt DEF Column

(* Shift20 rounds to the nearest integer.                                  *)
LEMMA ShiftRounds ==
    ASSUME NEW s \in Int, NEW c \in {512, 724}
    PROVE  /\ Shift20(s, c) \in Int
           /\ 1048576 * Shift20(s, c) - s * c <= 524288
           /\ 1048576 * Shift20(s, c) - s * c >= -524288
<1> DEFINE a == s \div 1024
           r == s % 1024
           x == (r * c + 524288) \div 1024
           y == (a * c + x) \div 1024
<1>1. s = 1024 * a + r /\ a \in Int /\ r \in 0 .. 1023
  OBVIOUS
<1> HIDE DEF a, r
<1>2. x \in Int /\ 1024 * x <= r * c + 524288 /\ r * c + 524288 < 1024 * x + 1024
  BY <1>1, SMTT(20)
<1> HIDE DEF x
<1>3. y \in Int /\ 1024 * y <= a * c + x /\ a * c + x < 1024 * y + 1024
  BY <1>1, <1>2, SMTT(20)
<1>4. y = Shift20(s, c)
  BY SMTT(20) DEF Shift20, y, x, a, r
<1> HIDE DEF y
<1>5. CASE c = 512
  BY <1>1, <1>2, <1>3, <1>4, <1>5, SMTT(20)
<1>6. CASE c = 724
  BY <1>1, <1>2, <1>3, <1>4, <1>6, SMTT(20)
<1> QED
  BY <1>4, <1>5, <1>6, SMTT(20)

(* One coefficient on its way forth, changed by d, and back: what dct1d    *)
(* and idct1d round off is less than three halves, in its own scale.       *)
LEMMA Coefficient512 ==
    ASSUME NEW s \in Int, NEW d \in Int, NEW y \in Int, NEW A \in Nat, d <= A, -d <= A,
           1048576 * y - 512 * s <= 524288, 1048576 * y - 512 * s >= -524288
    PROVE  LET V == ((y + d) * 512 + 512) \div 1024
               w == 1073741824 * V - 262144 * s
           IN  w <= 268435456 * (2 * A + 3) /\ -w <= 268435456 * (2 * A + 3)
<1> DEFINE V == ((y + d) * 512 + 512) \div 1024
<1>1. V \in Int /\ 1024 * V <= (y + d) * 512 + 512 /\ (y + d) * 512 + 512 < 1024 * V + 1024
  BY SMTT(20)
<1> HIDE DEF V
<1>2. /\ 1073741824 * V - 262144 * s <= 268435456 * (2 * A + 3)
      /\ -(1073741824 * V - 262144 * s) <= 268435456 * (2 * A + 3)
  BY <1>1, SMTT(20)
<1> QED
  BY <1>2, SMT DEF V

LEMMA Coefficient724 ==
    ASSUME NEW s \in Int, NEW d \in Int, NEW y \in Int, NEW A \in Nat, d <= A, -d <= A,
           1048576 * y - 724 * s <= 524288, 1048576 * y - 724 * s >= -524288
    PROVE  LET V == ((y + d) * 724 + 512) \div 1024
               w == 1073741824 * V - 524176 * s
           IN  w <= 379584512 * (2 * A + 3) /\ -w <= 379584512 * (2 * A + 3)
<1> DEFINE V == ((y + d) * 724 + 512) \div 1024
<1>1. V \in Int /\ 1024 * V <= (y + d) * 724 + 512 /\ (y + d) * 724 + 512 < 1024 * V + 1024
  BY SMTT(20)
<1> HIDE DEF V
<1>2. /\ 1073741824 * V - 524176 * s <= 379584512 * (2 * A + 3)
      /\ -(1073741824 * V - 524176 * s) <= 379584512 * (2 * A + 3)
  BY <1>1, SMTT(20)
<1> QED
  BY <1>2, SMT DEF V

LEMMA Coefficient ==
    ASSUME NEW s \in Int, NEW k \in Line, NEW d \in Int
    PROVE  LET V == ((Shift20(s, Scale(k)) + d) * Scale(k) + 512) \div 1024
               w == 1073741824 * V - Scale(k) * Scale(k) * s
               t == IF k = 0 THEN 268435456 ELSE 379584512
           IN  /\ V \in Int /\ w \in Int
               /\ w <= t * (2 * Abs(d) + 3) /\ -w <= t * (2 * Abs(d) + 3)
<1>1. Abs(d) \in Nat /\ d <= Abs(d) /\ -d <= Abs(d)
  BY AbsNat
<1>2. CASE k = 0
  <2>1. Scale(k) = 512
    BY <1>2 DEF Scale
  <2> DEFINE y == Shift20(s, 512)
  <2>2. y \in Int /\ 1048576 * y - 512 * s <= 524288 /\ 1048576 * y - 512 * s >= -524288
    BY ShiftRounds, SMTT(20)
  <2> HIDE DEF y
  <2> DEFINE V == ((y + d) * 512 + 512) \div 1024
             w == 1073741824 * V - 262144 * s
  <2>3. w <= 268435456 * (2 * Abs(d) + 3) /\ -w <= 268435456 * (2 * Abs(d) + 3)
    BY <1>1, <2>2, Coefficient512, SMT
  <2>4. V \in Int /\ w \in Int
    BY <2>2, SMT
  <2>5. V = ((Shift20(s, Scale(k)) + d) * Scale(k) + 512) \div 1024
    BY <2>1, SMT DEF y
  <2> HIDE DEF V
  <2>6. w = 1073741824 * V - Scale(k) * Scale(k) * s
    BY <2>1, <2>4, SMT
  <2> HIDE DEF w
  <2> QED
    BY <1>2, <2>3, <2>4, <2>5, <2>6, SMT
<1>3. CASE k # 0
  <2>1. Scale(k) = 724
    BY <1>3 DEF Scale
  <2> DEFINE y == Shift20(s, 724)
  <2>2. y \in Int /\ 1048576 * y - 724 * s <= 524288 /\ 1048576 * y - 724 * s >= -524288
    BY ShiftRounds, SMTT(20)
  <2> HIDE DEF y
  <2> DEFINE V == ((y + d) * 724 + 512) \div 1024
             w == 1073741824 * V - 524176 * s
  <2>3. w <= 379584512 * (2 * Abs(d) + 3) /\ -w <= 379584512 * (2 * Abs(d) + 3)
    BY <1>1, <2>2, Coefficient724, SMT
  <2>4. V \in Int /\ w \in Int
    BY <2>2, SMT
  <2>5. V = ((Shift20(s, Scale(k)) + d) * Scale(k) + 512) \div 1024
    BY <2>1, SMT DEF y
  <2> HIDE DEF V
  <2>6. w = 1073741824 * V - Scale(k) * Scale(k) * s
    BY <2>1, <2>4, SMT
  <2> HIDE DEF w
  <2> QED
    BY <1>3, <2>3, <2>4, <2>5, <2>6, SMT
<1> QED
  BY <1>2, <1>3

(* The columns of the table.                                               *)
LEMMA ColumnIs ==
    ASSUME NEW v \in [Line -> Int]
    PROVE  LET a == v[0]
               b == v[1]
               c == v[2]
               d == v[3]
               e == v[4]
               f == v[5]
               g == v[6]
               h == v[7]
               X(k) == Column(v, k)
           IN  /\ X(0) = 1024 * (a + b + c + d + e + f + g + h)
               /\ X(1) = 1004 * (a - h) + 851 * (b - g) + 569 * (c - f) + 200 * (d - e)
               /\ X(2) = 946 * (a + h - d - e) + 392 * (b + g - c - f)
               /\ X(3) = 851 * (a - h) - 200 * (b - g) - 1004 * (c - f) - 569 * (d - e)
               /\ X(4) = 724 * (a + h + d + e - b - g - c - f)
               /\ X(5) = 569 * (a - h) - 1004 * (b - g) + 200 * (c - f) + 851 * (d - e)
               /\ X(6) = 392 * (a + h - d - e) - 946 * (b + g - c - f)
               /\ X(7) = 200 * (a - h) - 569 * (b - g) + 851 * (c - f) - 1004 * (d - e)
  BY SMTT(120) DEF Column, Sum8, Line, Cos, COS_TABLE

(* Without any rounding the two tables bring back the sample, scaled by    *)
(* 2^41 = 2199023255552, but for their own last digits.                    *)
LEMMA ThereAndBack ==
    ASSUME NEW v \in [Line -> Int], NEW m \in Nat, \A j \in Line : v[j] \in Within(m),
           NEW i \in Line
    PROVE  LET r == Row([k \in Line |-> Scale(k) * Scale(k) * Column(v, k)], i)
                      - 2199023255552 * v[i]
           IN  r <= 3534000000 * m /\ -r <= 3534000000 * m
<1> DEFINE w == [k \in Line |-> Scale(k) * Scale(k) * Column(v, k)]
           a == v[0]
           b == v[1]
           c == v[2]
           d == v[3]
           e == v[4]
           f == v[5]
           g == v[6]
           h == v[7]
<1>1. /\ a \in Int /\ a <= m /\ -a <= m /\ b \in Int /\ b <= m /\ -b <= m
      /\ c \in Int /\ c <= m /\ -c <= m /\ d \in Int /\ d <= m /\ -d <= m
      /\ e \in Int /\ e <= m /\ -e <= m /\ f \in Int /\ f <= m /\ -f <= m
      /\ g \in Int /\ g <= m /\ -g <= m /\ h \in Int /\ h <= m /\ -h <= m
  BY DEF Within, Line
<1>2. w \in [Line -> Int]
  BY ColumnInt DEF Scale
<1>3. /\ w[0] = 262144 * Column(v, 0) /\ w[1] = 524176 * Column(v, 1)
      /\ w[2] = 524176 * Column(v, 2) /\ w[3] = 524176 * Column(v, 3)
      /\ w[4] = 524176 * Column(v, 4) /\ w[5] = 524176 * Column(v, 5)
      /\ w[6] = 524176 * Column(v, 6) /\ w[7] = 524176 * Column(v, 7)
  BY ColumnInt, SMTT(20) DEF Scale, Line
<1>4. /\ Column(v, 0) = 1024 * (a + b + c + d + e + f + g + h)
      /\ Column(v, 1) = 1004 * (a - h) + 851 * (b - g) + 569 * (c - f) + 200 * (d - e)
      /\ Column(v, 2) = 946 * (a + h - d - e) + 392 * (b + g - c - f)
      /\ Column(v, 3) = 851 * (a - h) - 200 * (b - g) - 1004 * (c - f) - 569 * (d - e)
      /\ Column(v, 4) = 724 * (a + h + d + e - b - g - c - f)
      /\ Column(v, 5) = 569 * (a - h) - 1004 * (b - g) + 200 * (c - f) + 851 * (d - e)
      /\ Column(v, 6) = 392 * (a + h - d - e) - 946 * (b + g - c - f)
      /\ Column(v, 7) = 200 * (a - h) - 569 * (b - g) + 851 * (c - f) - 1004 * (d - e)
  BY ColumnIs, SMTT(20)
<1> DEFINE w0 == w[0]
           w1 == w[1]
           w2 == w[2]
           w3 == w[3]
           w4 == w[4]
           w5 == w[5]
           w6 == w[6]
           w7 == w[7]
           p == 1024 * w0 + 724 * w4
           q == 1024 * w0 - 724 * w4
           s == 946 * w2 + 392 * w6
           t == 392 * w2 - 946 * w6
           x0 == 1004 * w1 + 851 * w3 + 569 * w5 + 200 * w7
           x1 == 851 * w1 - 200 * w3 - 1004 * w5 - 569 * w7
           x2 == 569 * w1 - 1004 * w3 + 200 * w5 + 851 * w7
           x3 == 200 * w1 - 569 * w3 + 851 * w5 - 1004 * w7
<1>5. /\ Row(w, 0) = p + s + x0 /\ Row(w, 7) = p + s - x0
      /\ Row(w, 1) = q + t + x1 /\ Row(w, 6) = q + t - x1
      /\ Row(w, 2) = q - t + x2 /\ Row(w, 5) = q - t - x2
      /\ Row(w, 3) = p - s + x3 /\ Row(w, 4) = p - s - x3
  BY <1>2, RowIs, SMTT(20)
<1> HIDE DEF a, b, c, d, e, f, g, h
<1>6. /\ w0 = 262144 * (1024 * (a + b + c + d + e + f + g + h))
      /\ w1 = 524176 * (1004 * (a - h) + 851 * (b - g) + 569 * (c - f) + 200 * (d - e))
      /\ w2 = 524176 * (946 * (a + h - d - e) + 392 * (b + g - c - f))
      /\ w3 = 524176 * (851 * (a - h) - 200 * (b - g) - 1004 * (c - f) - 569 * (d - e))
      /\ w4 = 524176 * (724 * (a + h + d + e - b - g - c - f))
      /\ w5 = 524176 * (569 * (a - h) - 1004 * (b - g) + 200 * (c - f) + 851 * (d - e))
      /\ w6 = 524176 * (392 * (a + h - d - e) - 946 * (b + g - c - f))
      /\ w7 = 524176 * (200 * (a - h) - 569 * (b - g) + 851 * (c - f) - 1004 * (d - e))
  BY <1>3, <1>4, SMTT(20)
<1> HIDE DEF w, w0, w1, w2, w3, w4, w5, w6, w7
<1>7. /\ w0 \in Int /\ w1 \in Int /\ w2 \in Int /\ w3 \in Int
      /\ w4 \in Int /\ w5 \in Int /\ w6 \in Int /\ w7 \in Int
  BY <1>1, <1>6, SMT
<1> DEFINE F(r) == r <= 3534000000 * m /\ -r <= 3534000000 * m
<1>8. /\ F(p + s + x0 - 2199023255552 * a)
      /\ F(q + t + x1 - 2199023255552 * b)
      /\ F(q - t + x2 - 2199023255552 * c)
      /\ F(p - s + x3 - 2199023255552 * d)
      /\ F(p - s - x3 - 2199023255552 * e)
      /\ F(q - t - x2 - 2199023255552 * f)
      /\ F(q + t - x1 - 2199023255552 * g)
      /\ F(p + s - x0 - 2199023255552 * h)
  BY <1>1, <1>6, <1>7, SMTT(60)
<1>9. /\ p \in Int /\ s \in Int /\ q \in Int /\ t \in Int
      /\ x0 \in Int /\ x1 \in Int /\ x2 \in Int /\ x3 \in Int
  BY <1>7
<1> HIDE DEF p, q, s, t, x0, x1, x2, x3
<1>10. /\ F(Row(w, 0) - 2199023255552 * v[0])
       /\ F(Row(w, 1) - 2199023255552 * v[1])
       /\ F(Row(w, 2) - 2199023255552 * v[2])
       /\ F(Row(w, 3) - 2199023255552 * v[3])
       /\ F(Row(w, 4) - 2199023255552 * v[4])
       /\ F(Row(w, 5) - 2199023255552 * v[5])
       /\ F(Row(w, 6) - 2199023255552 * v[6])
       /\ F(Row(w, 7) - 2199023255552 * v[7])
  BY <1>1, <1>5, <1>8, <1>9, SMTT(60) DEF a, b, c, d, e, f, g, h
<1>11. i \in {0, 1, 2, 3, 4, 5, 6, 7}
  BY DEF Line
<1>12. F(Row(w, i) - 2199023255552 * v[i])
  BY <1>10, <1>11, SMTT(20)
<1> QED
  BY <1>12, SMTT(20) DEF w, F

LEMMA Young ==
    ASSUME NEW p \in Int, NEW r \in Int
    PROVE  16 * Square(p + r) <= 17 * Square(p) + 272 * Square(r)
<1>1. Square(p - 16 * r) >= 0
  BY DEF Square
<1> QED
  BY <1>1 DEF Square

LEMMA SquareBound ==
    ASSUME NEW x \in Int, NEW m \in Nat, x <= m, -x <= m
    PROVE  Square(x) <= Square(m)
<1>1. (m - x) * (m + x) >= 0
  OBVIOUS
<1> QED
  BY <1>1 DEF Square

LEMMA Product == \A x, y \in Int : Square(x * y) = Square(x) * Square(y)
  BY DEF Square

LEMMA SumMono ==
    ASSUME NEW f \in [Line -> Int], NEW g \in [Line -> Int], \A k \in Line : f[k] <= g[k]
    PROVE  Sum8(f) <= Sum8(g)
<1>1. /\ f[0] <= g[0] /\ f[1] <= g[1] /\ f[2] <= g[2] /\ f[3] <= g[3]
      /\ f[4] <= g[4] /\ f[5] <= g[5] /\ f[6] <= g[6] /\ f[7] <= g[7]
  BY DEF Line
<1> QED
  BY <1>1 DEF Sum8, Line

(* Row is linear: the scale is that of Miss, below.                        *)
LEMMA RowMinus ==
    ASSUME NEW u \in [Line -> Int], NEW x \in [Line -> Int], NEW j \in Line
    PROVE  Row([k \in Line |-> 1073741824 * u[k] - x[k]], j)
             = 1073741824 * Row(u, j) - Row(x, j)
<1> DEFINE w == [k \in Line |-> 1073741824 * u[k] - x[k]]
           c(k) == Cos(j, k)
<1>1. /\ c(0) \in Int /\ c(1) \in Int /\ c(2) \in Int /\ c(3) \in Int
      /\ c(4) \in Int /\ c(5) \in Int /\ c(6) \in Int /\ c(7) \in Int
  BY CosInt DEF Line
<1>2. /\ Row(w, j) = w[0] * c(0) + w[1] * c(1) + w[2] * c(2) + w[3] * c(3)
                     + w[4] * c(4) + w[5] * c(5) + w[6] * c(6) + w[7] * c(7)
      /\ Row(u, j) = u[0] * c(0) + u[1] * c(1) + u[2] * c(2) + u[3] * c(3)
                     + u[4] * c(4) + u[5] * c(5) + u[6] * c(6) + u[7] * c(7)
      /\ Row(x, j) = x[0] * c(0) + x[1] * c(1) + x[2] * c(2) + x[3] * c(3)
                     + x[4] * c(4) + x[5] * c(5) + x[6] * c(6) + x[7] * c(7)
  BY SMTT(20) DEF Row, Sum8, Line
<1>3. ASSUME NEW k \in Line
      PROVE  /\ w[k] * c(k) = 1073741824 * (u[k] * c(k)) - x[k] * c(k)
             /\ u[k] * c(k) \in Int /\ x[k] * c(k) \in Int
  <2>1. c(k) \in Int
    BY CosInt
  <2> HIDE DEF c
  <2>2. u[k] \in Int /\ x[k] \in Int /\ w[k] = 1073741824 * u[k] - x[k]
    OBVIOUS
  <2> HIDE DEF w
  <2> QED
    BY <2>1, <2>2, SMTT(20)
<1> HIDE DEF c, w
<1>4. /\ w[0] * c(0) = 1073741824 * (u[0] * c(0)) - x[0] * c(0)
      /\ w[1] * c(1) = 1073741824 * (u[1] * c(1)) - x[1] * c(1)
      /\ w[2] * c(2) = 1073741824 * (u[2] * c(2)) - x[2] * c(2)
      /\ w[3] * c(3) = 1073741824 * (u[3] * c(3)) - x[3] * c(3)
      /\ w[4] * c(4) = 1073741824 * (u[4] * c(4)) - x[4] * c(4)
      /\ w[5] * c(5) = 1073741824 * (u[5] * c(5)) - x[5] * c(5)
      /\ w[6] * c(6) = 1073741824 * (u[6] * c(6)) - x[6] * c(6)
      /\ w[7] * c(7) = 1073741824 * (u[7] * c(7)) - x[7] * c(7)
      /\ u[0] * c(0) \in Int /\ u[1] * c(1) \in Int /\ u[2] * c(2) \in Int /\ u[3] * c(3) \in Int
      /\ u[4] * c(4) \in Int /\ u[5] * c(5) \in Int /\ u[6] * c(6) \in Int /\ u[7] * c(7) \in Int
      /\ x[0] * c(0) \in Int /\ x[1] * c(1) \in Int /\ x[2] * c(2) \in Int /\ x[3] * c(3) \in Int
      /\ x[4] * c(4) \in Int /\ x[5] * c(5) \in Int /\ x[6] * c(6) \in Int /\ x[7] * c(7) \in Int
  BY <1>3, SMTT(20) DEF Line
<1>5. Row(w, j) = 1073741824 * Row(u, j) - Row(x, j)
  BY <1>2, <1>4, SMTT(20)
<1> QED
  BY <1>5, SMT DEF w

(* What comes back of a line v whose coefficients were changed by d.       *)
Back(v, d) == idct1d([k \in Line |-> dct1d(v)[k] + d[k]])

(* What idct1d sums with the rows of the table, and by how much that, times *)
(* 2^30 = 1073741824, misses the sums without rounding or change.          *)
Scaled(v, d) == [k \in Line |-> ((dct1d(v)[k] + d[k]) * Scale(k) + 512) \div 1024]
Exact(v)     == [k \in Line |-> Scale(k) * Scale(k) * Column(v, k)]
Miss(v, d)   == [k \in Line |-> 1073741824 * Scaled(v, d)[k] - Exact(v)[k]]

Room(d) == [k \in Line |-> Square(2 * Abs(d[k]) + 3)]

MissLimit(v, d) ==
    \A k \in Line : LET t == IF k = 0 THEN 268435456 ELSE 379584512
                        x == Miss(v, d)[k]
                    IN  x <= t * (2 * Abs(d[k]) + 3) /\ -x <= t * (2 * Abs(d[k]) + 3)

LEMMA MissBound ==
    ASSUME NEW v \in [Line -> Int], NEW d \in [Line -> Int]
    PROVE  /\ Scaled(v, d) \in [Line -> Int] /\ Exact(v) \in [Line -> Int]
           /\ Miss(v, d) \in [Line -> Int] /\ Room(d) \in [Line -> Nat]
           /\ MissLimit(v, d)
<1>1. \A k \in Line : dct1d(v)[k] = Shift20(Column(v, k), Scale(k))
  BY SMT DEF dct1d, Column
<1>2. \A k \in Line : Column(v, k) \in Int /\ d[k] \in Int /\ Scale(k) \in Int
  BY ColumnInt DEF Scale
<1>3. \A k \in Line : LET x == ((Shift20(Column(v, k), Scale(k)) + d[k]) * Scale(k) + 512) \div 1024
                          w == 1073741824 * x - Scale(k) * Scale(k) * Column(v, k)
                          t == IF k = 0 THEN 268435456 ELSE 379584512
                      IN  /\ x \in Int /\ w \in Int
                          /\ w <= t * (2 * Abs(d[k]) + 3) /\ -w <= t * (2 * Abs(d[k]) + 3)
  BY <1>2, Coefficient, SMT
<1>4. \A k \in Line : /\ Scaled(v, d)[k] =
                            ((Shift20(Column(v, k), Scale(k)) + d[k]) * Scale(k) + 512) \div 1024
                      /\ Exact(v)[k] = Scale(k) * Scale(k) * Column(v, k)
  BY <1>1, SMT DEF Scaled, Exact
<1>5. Scaled(v, d) \in [Line -> Int]
  BY <1>3, <1>4, SMT DEF Scaled
<1>6. Exact(v) \in [Line -> Int]
  BY <1>2, SMT DEF Exact
<1>7. Miss(v, d) \in [Line -> Int]
  BY <1>5, <1>6, SMT DEF Miss
<1>8. Room(d) \in [Line -> Nat]
  BY <1>2, AbsNat, SquareNat DEF Room
<1>9. \A k \in Line :
          Miss(v, d)[k] =
            1073741824 * (((Shift20(Column(v, k), Scale(k)) + d[k]) * Scale(k) + 512) \div 1024)
              - Scale(k) * Scale(k) * Column(v, k)
  BY <1>4, SMT DEF Miss
<1> QED
  BY <1>3, <1>5, <1>6, <1>7, <1>8, <1>9, SMT DEF MissLimit

LEMMA MissWeighted ==
    ASSUME NEW v \in [Line -> Int], NEW d \in [Line -> Int]
    PROVE  1000 * Weighted(Miss(v, d)) <= 604498150000000000000000000 * Sum8(Room(d))
<1> DEFINE x == Miss(v, d)
           q == Room(d)
<1>0. /\ Miss(v, d) \in [Line -> Int] /\ MissLimit(v, d)
  BY MissBound
<1>1. ASSUME NEW k \in Line
      PROVE  /\ Square(x[k]) \in Nat /\ q[k] \in Nat
             /\ Square(x[k]) <= Square(IF k = 0 THEN 268435456 ELSE 379584512) * q[k]
  <2> DEFINE t == IF k = 0 THEN 268435456 ELSE 379584512
             r == 2 * Abs(d[k]) + 3
  <2>1. x[k] \in Int /\ x[k] <= t * r /\ -x[k] <= t * r
    <3>1. x[k] <= t * (2 * Abs(d[k]) + 3) /\ -x[k] <= t * (2 * Abs(d[k]) + 3)
      BY <1>0, SMT DEF MissLimit
    <3>2. x[k] \in Int
      BY <1>0, SMT
    <3> QED
      BY <3>1, <3>2, SMT
  <2>2. r \in Nat
    BY AbsNat
  <2>3. t \in Nat /\ t * r \in Nat
    <3>1. t \in Nat
      BY SMT
    <3> HIDE DEF t, r
    <3> QED
      BY <2>2, <3>1, SMT
  <2>4. q[k] = Square(r) /\ q[k] \in Nat
    BY <2>2, SquareNat, SMT DEF Room
  <2> HIDE DEF x, q, t, r
  <2>5. Square(x[k]) <= Square(t * r)
    BY <2>1, <2>3, SquareBound, SMT
  <2>6. Square(t * r) = Square(t) * Square(r)
    BY <2>2, <2>3, Product
  <2>7. Square(x[k]) \in Nat
    BY <2>1, SquareNat
  <2> QED
    BY <2>4, <2>5, <2>6, <2>7, SMT DEF t
<1> HIDE DEF x, q
<1>2. /\ Square(268435456) = 72057594037927936
      /\ Square(379584512) = 144084401750278144
  BY SMT DEF Square
<1>3. /\ Square(x[0]) \in Nat /\ q[0] \in Nat /\ Square(x[0]) <= 72057594037927936 * q[0]
      /\ Square(x[1]) \in Nat /\ q[1] \in Nat /\ Square(x[1]) <= 144084401750278144 * q[1]
      /\ Square(x[2]) \in Nat /\ q[2] \in Nat /\ Square(x[2]) <= 144084401750278144 * q[2]
      /\ Square(x[3]) \in Nat /\ q[3] \in Nat /\ Square(x[3]) <= 144084401750278144 * q[3]
      /\ Square(x[4]) \in Nat /\ q[4] \in Nat /\ Square(x[4]) <= 144084401750278144 * q[4]
      /\ Square(x[5]) \in Nat /\ q[5] \in Nat /\ Square(x[5]) <= 144084401750278144 * q[5]
      /\ Square(x[6]) \in Nat /\ q[6] \in Nat /\ Square(x[6]) <= 144084401750278144 * q[6]
      /\ Square(x[7]) \in Nat /\ q[7] \in Nat /\ Square(x[7]) <= 144084401750278144 * q[7]
  BY <1>1, <1>2, SMTT(20) DEF Line
<1>4. 1000 * Weighted(x) <= 604498150000000000000000000 * Sum8(q)
  BY <1>3, SMTT(20) DEF Weighted, Sum8
<1> QED
  BY <1>4, SMT DEF x, q

\* Room for all that a pass rounds off and the table's last digits.
Ample(m, t) == 1099511627776 + 3534000000 * m <= 2147483648 * t

LEMMA SumNat == ASSUME NEW v \in [Line -> Nat] PROVE Sum8(v) \in Nat
  BY DEF Sum8, Line

(* The error of a sample is a row of the misses, and what idct1d rounds:   *)
(* both sides carry the factor 16 * 2^82 of Young and of the scale 2^41.   *)
LEMMA ErrorAt ==
    ASSUME NEW v \in [Line -> Int], NEW d \in [Line -> Int], NEW m \in Nat, NEW t \in Nat,
           \A j \in Line : v[j] \in Within(m),
           Ample(m, t), NEW i \in Line
    PROVE  /\ Back(v, d)[i] \in Int
           /\ 77371252455336267181195264 * Square(Back(v, d)[i] - v[i])
                <= 17 * Square(Row(Miss(v, d), i)) + 1254378597012249509888 * Square(t)
<1> DEFINE o == Back(v, d)[i]
           R == Row(Scaled(v, d), i)
           X == Row(Exact(v), i)
           w == Row(Miss(v, d), i)
           y == v[i]
<1>1. /\ Scaled(v, d) \in [Line -> Int] /\ Exact(v) \in [Line -> Int]
      /\ Miss(v, d) \in [Line -> Int]
  BY MissBound
<1>2. R \in Int /\ X \in Int /\ w \in Int /\ y \in Int
  BY <1>1, RowInt
<1>3. w = 1073741824 * R - X
  BY <1>1, RowMinus, SMT DEF Miss
<1>4. X - 2199023255552 * y <= 3534000000 * m /\ -(X - 2199023255552 * y) <= 3534000000 * m
  BY ThereAndBack, SMT DEF Exact
<1>5. o = (R + 1024) \div 2048
  BY SMT DEF Back, idct1d, Row, Scaled
<1> HIDE DEF o, R, X, w, y
<1>6. o \in Int /\ 2048 * o - R <= 1024 /\ -(2048 * o - R) <= 1024
  BY <1>2, <1>5, SMT
<1> DEFINE E == 2199023255552 * (o - y)
           F == E - w
<1>7. F \in Int /\ F <= 2147483648 * t /\ -F <= 2147483648 * t
  BY <1>2, <1>3, <1>4, <1>6, SMT DEF Ample
<1>8. E = w + F /\ E \in Int
  BY <1>2, <1>6, SMT
<1>9. Square(E) = 4835703278458516698824704 * Square(o - y)
  BY <1>2, <1>6, SMT DEF Square
<1> HIDE DEF E, F
<1>10. 16 * Square(E) <= 17 * Square(w) + 272 * Square(F)
  BY <1>2, <1>7, <1>8, Young, SMT
<1>11. Square(F) <= 4611686018427387904 * Square(t)
  <2>1. 2147483648 * t \in Nat
    BY SMT
  <2>2. Square(F) <= Square(2147483648 * t)
    BY <1>7, <2>1, SquareBound, SMT
  <2>3. Square(2147483648 * t) = 4611686018427387904 * Square(t)
    BY SMT DEF Square
  <2> QED
    BY <2>2, <2>3, SMT
<1>12. /\ Square(F) \in Nat /\ Square(w) \in Nat /\ Square(E) \in Nat
       /\ Square(o - y) \in Nat /\ Square(t) \in Nat
  BY <1>2, <1>6, <1>7, <1>8, SquareNat, SMT
<1>13. 77371252455336267181195264 * Square(o - y)
         <= 17 * Square(w) + 1254378597012249509888 * Square(t)
  BY <1>9, <1>10, <1>11, <1>12, SMT
<1> QED
  BY <1>6, <1>13, SMT DEF o, w, y

PassBound(v, d, t) ==
    128000 * Sum8([j \in Line |-> Square(Back(v, d)[j] - v[j])])
      <= 17001 * Sum8(Room(d)) + 17 * Square(t)

(* One pass: half of the squared changes comes back as squared errors.     *)
LEMMA OnePass ==
    ASSUME NEW v \in [Line -> Int], NEW d \in [Line -> Int], NEW m \in Nat, NEW t \in Nat,
           \A j \in Line : v[j] \in Within(m),
           Ample(m, t)
    PROVE  Back(v, d) \in [Line -> Int] /\ PassBound(v, d, t)
<1> DEFINE e == [j \in Line |-> Square(Back(v, d)[j] - v[j])]
           w == [j \in Line |-> Square(Row(Miss(v, d), j))]
<1>1. \A j \in Line : Back(v, d)[j] \in Int
  BY ErrorAt, SMT
<1>2. Back(v, d) \in [Line -> Int]
  BY <1>1 DEF Back, idct1d
<1>3. Miss(v, d) \in [Line -> Int] /\ Room(d) \in [Line -> Nat]
  BY MissBound
<1>4. \A j \in Line : e[j] \in Nat /\ w[j] \in Nat
  BY <1>1, <1>3, RowInt, SquareNat
<1>5. Square(t) \in Nat
  BY SquareNat
<1>6. \A j \in Line : 77371252455336267181195264 * e[j]
                          <= 17 * w[j] + 1254378597012249509888 * Square(t)
  BY ErrorAt, SMT
<1>7. Sum8(w) <= Weighted(Miss(v, d))
  BY <1>3, RowSquares
<1>8. 1000 * Weighted(Miss(v, d)) <= 604498150000000000000000000 * Sum8(Room(d))
  BY MissWeighted, SMT
<1>9. Weighted(Miss(v, d)) \in Int
  <2> DEFINE x == Miss(v, d)
  <2>1. \A k \in Line : Square(x[k]) \in Int
    BY <1>3, SquareNat
  <2> HIDE DEF x
  <2>2. /\ Square(x[0]) \in Int /\ Square(x[1]) \in Int /\ Square(x[2]) \in Int
        /\ Square(x[3]) \in Int /\ Square(x[4]) \in Int /\ Square(x[5]) \in Int
        /\ Square(x[6]) \in Int /\ Square(x[7]) \in Int
    BY <2>1, SMT DEF Line
  <2>3. Weighted(x) \in Int
    BY <2>2, SMT DEF Weighted
  <2> QED
    BY <2>3 DEF x
<1>10. Sum8(Room(d)) \in Int /\ Sum8(e) \in Int /\ Sum8(w) \in Int
  <2>1. Room(d) \in [Line -> Int] /\ e \in [Line -> Int] /\ w \in [Line -> Int]
    BY <1>3, <1>4
  <2> QED
    BY <2>1, SumInt
<1> HIDE DEF e, w
<1>11. 77371252455336267181195264 * Sum8(e) <= 17 * Sum8(w) + 10035028776097996079104 * Square(t)
  <2>1. \A j \in {0, 1, 2, 3, 4, 5, 6, 7} : /\ e[j] \in Nat /\ w[j] \in Nat
          /\ 77371252455336267181195264 * e[j] <= 17 * w[j] + 1254378597012249509888 * Square(t)
    BY <1>4, <1>6, SMT DEF Line
  <2> QED
    BY <1>5, <2>1, SMTT(60) DEF Sum8
<1>13. Sum8(Room(d)) \in Nat
  BY <1>3, SumNat
<1>12. 128000 * Sum8(e) <= 17001 * Sum8(Room(d)) + 17 * Square(t)
  BY <1>3, <1>5, <1>7, <1>8, <1>9, <1>10, <1>11, <1>13, SMTT(20)
<1> QED
  BY <1>2, <1>12, SMT DEF e, PassBound

-----------------------------------------------------------------------------
(* Both passes: the sums over a block.                                     *)

LEMMA SumCompare ==
    ASSUME NEW f \in [Line -> Int], NEW g \in [Line -> Int],
           NEW x \in Int, NEW y \in Int, NEW z \in Int,
           \A k \in Line : x * f[k] + z <= y * g[k]
    PROVE  x * Sum8(f) + 8 * z <= y * Sum8(g)
<1> DEFINE F(k) == x * f[k]
           G(k) == y * g[k]
<1>1. \A k \in {0, 1, 2, 3, 4, 5, 6, 7} : F(k) \in Int /\ G(k) \in Int /\ F(k) + z <= G(k)
  BY DEF Line
<1>2. x * Sum8(f) = F(0) + F(1) + F(2) + F(3) + F(4) + F(5) + F(6) + F(7)
  BY SMTT(20) DEF Sum8, Line
<1>3. y * Sum8(g) = G(0) + G(1) + G(2) + G(3) + G(4) + G(5) + G(6) + G(7)
  BY SMTT(20) DEF Sum8, Line
<1> HIDE DEF F, G
<1> QED
  BY <1>1, <1>2, <1>3, SMTT(20)

\* The sum over the cells, row by row.
Grid(v) == Sum8([r \in Line |-> Sum8([c \in Line |-> v[8 * r + c]])])

LEMMA GridLines ==
    ASSUME NEW v \in [Cells -> Int]
    PROVE  /\ \A r \in Line : [c \in Line |-> v[8 * r + c]] \in [Line -> Int]
           /\ \A c \in Line : [r \in Line |-> v[8 * r + c]] \in [Line -> Int]
           /\ [r \in Line |-> Sum8([c \in Line |-> v[8 * r + c]])] \in [Line -> Int]
           /\ [c \in Line |-> Sum8([r \in Line |-> v[8 * r + c]])] \in [Line -> Int]
           /\ Grid(v) \in Int
<1>1. \A r \in Line : [c \in Line |-> v[8 * r + c]] \in [Line -> Int]
  BY CellOf
<1>2. \A c \in Line : [r \in Line |-> v[8 * r + c]] \in [Line -> Int]
  BY CellOf
<1>3. [r \in Line |-> Sum8([c \in Line |-> v[8 * r + c]])] \in [Line -> Int]
  BY <1>1, SumInt
<1>4. [c \in Line |-> Sum8([r \in Line |-> v[8 * r + c]])] \in [Line -> Int]
  BY <1>2, SumInt
<1> QED
  BY <1>1, <1>2, <1>3, <1>4, SumInt DEF Grid

(* Column by column it is the same.                                        *)
LEMMA GridSwap ==
    ASSUME NEW v \in [Cells -> Int]
    PROVE  Grid(v) = Sum8([c \in Line |-> Sum8([r \in Line |-> v[8 * r + c]])])
<1>1. \A p \in 0 .. 63 : v[p] \in Int
  BY DEF Cells
<1> QED
  BY <1>1, SMTT(60) DEF Grid, Sum8, Line

LEMMA GridCompare ==
    ASSUME NEW f \in [Cells -> Int], NEW g \in [Cells -> Int],
           NEW x \in Int, NEW y \in Int, NEW z \in Int,
           \A p \in Cells : x * f[p] + z <= y * g[p]
    PROVE  x * Grid(f) + 64 * z <= y * Grid(g)
<1> DEFINE F(r) == [c \in Line |-> f[8 * r + c]]
           G(r) == [c \in Line |-> g[8 * r + c]]
           FF == [r \in Line |-> Sum8(F(r))]
           GG == [r \in Line |-> Sum8(G(r))]
<1>1. FF \in [Line -> Int] /\ GG \in [Line -> Int]
  BY GridLines
<1>2. ASSUME NEW r \in Line PROVE x * FF[r] + 8 * z <= y * GG[r]
  <2>1. F(r) \in [Line -> Int] /\ G(r) \in [Line -> Int]
    BY GridLines
  <2>2. \A c \in Line : x * F(r)[c] + z <= y * G(r)[c]
    BY CellOf
  <2>3. FF[r] = Sum8(F(r)) /\ GG[r] = Sum8(G(r))
    OBVIOUS
  <2> HIDE DEF F, G, FF, GG
  <2> QED
    BY <2>1, <2>2, <2>3, SumCompare
<1>3. Grid(f) = Sum8(FF) /\ Grid(g) = Sum8(GG)
  BY DEF Grid
<1> HIDE DEF FF, GG
<1>4. Sum8(FF) \in Int /\ Sum8(GG) \in Int
  BY <1>1, SumInt
<1>5. 8 * z \in Int
  OBVIOUS
<1>6. x * Sum8(FF) + 8 * (8 * z) <= y * Sum8(GG)
  BY <1>1, <1>2, <1>5, SumCompare
<1> QED
  BY <1>3, <1>4, <1>6

LEMMA CellLine ==
    \A r, c \in Line : 8 * r + c \in Cells /\ (8 * r + c) \div 8 = r /\ (8 * r + c) % 8 = c
  BY SMTT(20) DEF Cells, Line

(* A line of the result of a pass is the transform of that line.           *)
LEMMA ThroughRows ==
    ASSUME NEW b, NEW r \in Line, NEW c \in Line
    PROVE  /\ Rows(dct1d, b)[8 * r + c] = dct1d([j \in Line |-> b[8 * r + j]])[c]
           /\ Rows(idct1d, b)[8 * r + c] = idct1d([j \in Line |-> b[8 * r + j]])[c]
<1>1. 8 * r + c \in Cells /\ (8 * r + c) \div 8 = r /\ (8 * r + c) % 8 = c
  BY CellLine
<1> DEFINE q == 8 * r + c
           t == [i \in Line |-> dct1d([j \in Line |-> b[8 * i + j]])]
           u == [i \in Line |-> idct1d([j \in Line |-> b[8 * i + j]])]
<1>2. Rows(dct1d, b) = [p \in Cells |-> t[p \div 8][p % 8]]
  BY DEF Rows
<1>3. Rows(idct1d, b) = [p \in Cells |-> u[p \div 8][p % 8]]
  BY DEF Rows
<1>4. /\ t[r] = dct1d([j \in Line |-> b[8 * r + j]])
      /\ u[r] = idct1d([j \in Line |-> b[8 * r + j]])
  OBVIOUS
<1> HIDE DEF t, u
<1>5. q \in Cells /\ q \div 8 = r /\ q % 8 = c
  BY <1>1
<1> HIDE DEF q
<1>6. Rows(dct1d, b)[q] = t[r][c] /\ Rows(idct1d, b)[q] = u[r][c]
  BY <1>2, <1>3, <1>5
<1> QED
  BY <1>4, <1>6 DEF q

LEMMA ThroughCols ==
    ASSUME NEW b, NEW r \in Line, NEW c \in Line
    PROVE  /\ Cols(dct1d, b)[8 * r + c] = dct1d([j \in Line |-> b[8 * j + c]])[r]
           /\ Cols(idct1d, b)[8 * r + c] = idct1d([j \in Line |-> b[8 * j + c]])[r]
<1>1. 8 * r + c \in Cells /\ (8 * r + c) \div 8 = r /\ (8 * r + c) % 8 = c
  BY CellLine
<1> DEFINE q == 8 * r + c
           t == [i \in Line |-> dct1d([j \in Line |-> b[8 * j + i]])]
           u == [i \in Line |-> idct1d([j \in Line |-> b[8 * j + i]])]
<1>2. Cols(dct1d, b) = [p \in Cells |-> t[p % 8][p \div 8]]
  BY DEF Cols
<1>3. Cols(idct1d, b) = [p \in Cells |-> u[p % 8][p \div 8]]
  BY DEF Cols
<1>4. /\ t[c] = dct1d([j \in Line |-> b[8 * j + c]])
      /\ u[c] = idct1d([j \in Line |-> b[8 * j + c]])
  OBVIOUS
<1> HIDE DEF t, u
<1>5. q \in Cells /\ q \div 8 = r /\ q % 8 = c
  BY <1>1
<1> HIDE DEF q
<1>6. Cols(dct1d, b)[q] = t[c][r] /\ Cols(idct1d, b)[q] = u[c][r]
  BY <1>2, <1>3, <1>5
<1> QED
  BY <1>4, <1>6 DEF q

RowOf(v, r) == [j \in Line |-> v[8 * r + j]]
ColOf(v, c) == [j \in Line |-> v[8 * j + c]]

LEMMA ColumnOf ==
    ASSUME NEW S, NEW v \in [Cells -> S], NEW c \in Line
    PROVE  ColOf(v, c) \in [Line -> S]
<1>1. \A j \in Line : v[8 * j + c] \in S
  BY CellOf
<1> QED
  BY <1>1 DEF ColOf

LEMMA ThroughRow ==
    ASSUME NEW b, NEW r \in Line, NEW c \in Line
    PROVE  /\ Rows(dct1d, b)[8 * r + c] = dct1d(RowOf(b, r))[c]
           /\ Rows(idct1d, b)[8 * r + c] = idct1d(RowOf(b, r))[c]
  BY ThroughRows DEF RowOf

LEMMA ThroughColumn ==
    ASSUME NEW b, NEW r \in Line, NEW c \in Line
    PROVE  /\ Cols(dct1d, b)[8 * r + c] = dct1d(ColOf(b, c))[r]
           /\ Cols(idct1d, b)[8 * r + c] = idct1d(ColOf(b, c))[r]
  BY ThroughCols DEF ColOf

Plus(v, d) == [p \in Cells |-> v[p] + d[p]]

(* Each pass of idct8x8 undoes the pass of dct8x8 along the same lines.    *)
LEMMA ColumnsBack ==
    ASSUME NEW U, NEW D, NEW r \in Line, NEW c \in Line
    PROVE  Cols(idct1d, Plus(Cols(dct1d, U), D))[8 * r + c]
             = Back(ColOf(U, c), ColOf(D, c))[r]
<1> DEFINE w == Plus(Cols(dct1d, U), D)
<1>1. Cols(idct1d, w)[8 * r + c] = idct1d(ColOf(w, c))[r]
  BY ThroughColumn
<1>2. ASSUME NEW j \in Line
      PROVE  w[8 * j + c] = dct1d(ColOf(U, c))[j] + ColOf(D, c)[j]
  <2>1. 8 * j + c \in Cells
    BY CellOf
  <2>2. w[8 * j + c] = Cols(dct1d, U)[8 * j + c] + D[8 * j + c]
    BY <2>1 DEF Plus
  <2>3. Cols(dct1d, U)[8 * j + c] = dct1d(ColOf(U, c))[j]
    BY ThroughColumn
  <2> QED
    BY <2>2, <2>3 DEF ColOf
<1> HIDE DEF w
<1>3. ColOf(w, c) = [j \in Line |-> dct1d(ColOf(U, c))[j] + ColOf(D, c)[j]]
  BY <1>2 DEF ColOf
<1> QED
  BY <1>1, <1>3 DEF Back, w

LEMMA RowsBack ==
    ASSUME NEW b \in [Cells -> Int], NEW Y \in [Cells -> Int],
           NEW a \in [Cells -> Int], \A p \in Cells : Y[p] = Rows(dct1d, b)[p] + a[p],
           NEW r \in Line, NEW c \in Line
    PROVE  Rows(idct1d, Y)[8 * r + c] = Back(RowOf(b, r), RowOf(a, r))[c]
<1>1. Rows(idct1d, Y)[8 * r + c] = idct1d(RowOf(Y, r))[c]
  BY ThroughRow
<1>2. ASSUME NEW j \in Line
      PROVE  Y[8 * r + j] = dct1d(RowOf(b, r))[j] + RowOf(a, r)[j]
  <2>1. 8 * r + j \in Cells
    BY CellOf
  <2>2. Y[8 * r + j] = Rows(dct1d, b)[8 * r + j] + a[8 * r + j]
    BY <2>1
  <2>3. Rows(dct1d, b)[8 * r + j] = dct1d(RowOf(b, r))[j]
    BY ThroughRow
  <2> QED
    BY <2>2, <2>3 DEF RowOf
<1>3. RowOf(Y, r) = [j \in Line |-> dct1d(RowOf(b, r))[j] + RowOf(a, r)[j]]
  BY <1>2 DEF RowOf
<1> QED
  BY <1>1, <1>3 DEF Back

LEMMA CellSplit ==
    \A p \in Cells : p \div 8 \in Line /\ p % 8 \in Line /\ p = 8 * (p \div 8) + (p % 8)
<1>1. \A p \in Cells : p \in Int
  BY DEF Cells
<1>2. \A p \in Int : p = 8 * (p \div 8) + (p % 8)
  BY SMT
<1> QED
  BY <1>1, <1>2, LineOf

Squares(v) == [p \in Cells |-> Square(v[p])]
Rooms(v)   == [p \in Cells |-> Square(2 * Abs(v[p]) + 3)]
Minus(v, u) == [p \in Cells |-> v[p] - u[p]]

LEMMA SquaresNat ==
    ASSUME NEW v \in [Cells -> Int]
    PROVE  Squares(v) \in [Cells -> Int] /\ Rooms(v) \in [Cells -> Int]
<1>1. \A p \in Cells : v[p] \in Int /\ 2 * Abs(v[p]) + 3 \in Int
  BY AbsNat
<1> QED
  BY <1>1, SquareNat DEF Squares, Rooms

LEMMA AmpleTwice == Ample(512, 1355) /\ Ample(128, 723)
  BY SMT DEF Ample

LEMMA ColumnErrors ==
    ASSUME NEW U \in [Cells -> Within(512)], NEW D \in [Cells -> Int]
    PROVE  LET Y == Cols(idct1d, Plus(Cols(dct1d, U), D))
           IN  /\ Y \in [Cells -> Int]
               /\ 128000 * Grid(Squares(Minus(Y, U))) - 249699400 <= 17001 * Grid(Rooms(D))
<1> DEFINE Y == Cols(idct1d, Plus(Cols(dct1d, U), D))
           e == Squares(Minus(Y, U))
           q == Rooms(D)
           Good(c) == 128000 * Sum8([r \in Line |-> e[8 * r + c]]) + (-31212425)
                        <= 17001 * Sum8([r \in Line |-> q[8 * r + c]])
<1>1. ASSUME NEW c \in Line
      PROVE  (\A r \in Line : Y[8 * r + c] \in Int) /\ Good(c)
  <2> DEFINE u == ColOf(U, c)
             d == ColOf(D, c)
  <2>1. u \in [Line -> Int] /\ d \in [Line -> Int] /\ \A j \in Line : u[j] \in Within(512)
    <3>1. u \in [Line -> Within(512)] /\ d \in [Line -> Int]
      BY ColumnOf
    <3>2. Within(512) \subseteq Int
      BY DEF Within
    <3> QED
      BY <3>1, <3>2
  <2>2. \A r \in Line : Y[8 * r + c] = Back(u, d)[r]
    BY ColumnsBack
  <2>3. /\ Back(u, d) \in [Line -> Int]
        /\ 128000 * Sum8([j \in Line |-> Square(Back(u, d)[j] - u[j])])
             <= 17001 * Sum8(Room(d)) + 17 * Square(1355)
    <3> DEFINE m == 512
               t == 1355
    <3>1. m \in Nat /\ t \in Nat /\ Ample(m, t) /\ \A j \in Line : u[j] \in Within(m)
      BY <2>1, AmpleTwice, SMT
    <3> HIDE DEF u, d, m, t
    <3>2. Back(u, d) \in [Line -> Int] /\ PassBound(u, d, t)
      BY <2>1, <3>1, OnePass
    <3> QED
      BY <3>2, SMT DEF t, PassBound
  <2>4. [r \in Line |-> e[8 * r + c]] = [j \in Line |-> Square(Back(u, d)[j] - u[j])]
    BY <2>2, CellOf DEF Squares, Minus, ColOf
  <2>5. [r \in Line |-> q[8 * r + c]] = Room(d)
    BY CellOf DEF Rooms, Room, ColOf
  <2>6. 17 * Square(1355) = 31212425
    BY SMT DEF Square
  <2>7. Sum8(Room(d)) \in Int /\ Sum8([j \in Line |-> Square(Back(u, d)[j] - u[j])]) \in Int
    <3>1. Room(d) \in [Line -> Int]
      BY <2>1, MissBound
    <3>2. [j \in Line |-> Square(Back(u, d)[j] - u[j])] \in [Line -> Int]
      BY <2>1, <2>3, SquareNat, SMT
    <3> QED
      BY <3>1, <3>2, SumInt
  <2>8. \A r \in Line : Y[8 * r + c] \in Int
    BY <2>2, <2>3, SMT
  <2> HIDE DEF u, d, Y, e, q
  <2> QED
    BY <2>3, <2>4, <2>5, <2>6, <2>7, <2>8, SMT
<1>2. Y \in [Cells -> Int]
  <2> HIDE DEF Y, e, q, Good
  <2>0. \A r, c \in Line : Y[8 * r + c] \in Int
    BY <1>1
  <2>1. \A p \in Cells : Y[p] \in Int
    BY <2>0, CellSplit
  <2>2. Y = [p \in Cells |-> Y[p]]
    BY SMTT(30) DEF Cols, Y
  <2> QED
    BY <2>1, <2>2
<1>3. U \in [Cells -> Int] /\ Minus(Y, U) \in [Cells -> Int]
  <2>1. \A p \in Cells : U[p] \in Int
    BY SMT DEF Within
  <2>2. U \in [Cells -> Int]
    BY <2>1
  <2> HIDE DEF Y
  <2> QED
    BY <1>2, <2>2 DEF Minus
<1>4. e \in [Cells -> Int] /\ q \in [Cells -> Int]
  BY <1>3, SquaresNat
<1> DEFINE F == [c \in Line |-> Sum8([r \in Line |-> e[8 * r + c]])]
           G == [c \in Line |-> Sum8([r \in Line |-> q[8 * r + c]])]
<1>5. F \in [Line -> Int] /\ G \in [Line -> Int] /\ Grid(e) = Sum8(F) /\ Grid(q) = Sum8(G)
  <2>1. F \in [Line -> Int] /\ G \in [Line -> Int]
    BY <1>4, GridLines
  <2>2. Grid(e) = Sum8(F)
    BY <1>4, GridSwap
  <2>3. Grid(q) = Sum8(G)
    BY <1>4, GridSwap
  <2> QED
    BY <2>1, <2>2, <2>3
<1>6. \A c \in Line : 128000 * F[c] + (-31212425) <= 17001 * G[c]
  BY <1>1, SMT
<1> HIDE DEF F, G, e, q, Y
<1>7. 128000 * Sum8(F) + 8 * (-31212425) <= 17001 * Sum8(G)
  <2> DEFINE x == 128000
             y == 17001
             z == -31212425
  <2>1. x \in Int /\ y \in Int /\ z \in Int /\ \A c \in Line : x * F[c] + z <= y * G[c]
    BY <1>6, SMT
  <2> HIDE DEF x, y, z
  <2>2. x * Sum8(F) + 8 * z <= y * Sum8(G)
    BY <1>5, <2>1, SumCompare
  <2> QED
    BY <2>2, SMT DEF x, y, z
<1>8. Grid(e) \in Int /\ Grid(q) \in Int
  BY <1>4, GridLines
<1>9. 128000 * Grid(e) - 249699400 <= 17001 * Grid(q)
  BY <1>5, <1>7, <1>8, SMT
<1> QED
  BY <1>2, <1>9, SMT DEF e, q, Y

LEMMA RoomInt == ASSUME NEW d \in [Line -> Int] PROVE Room(d) \in [Line -> Int]
<1>1. \A k \in Line : d[k] \in Int /\ 2 * Abs(d[k]) + 3 \in Int
  BY AbsNat
<1> QED
  BY <1>1, SquareNat DEF Room

LEMMA RowErrors ==
    ASSUME NEW b \in [Cells -> Within(128)], NEW Y \in [Cells -> Int],
           NEW a \in [Cells -> Int], \A p \in Cells : Y[p] = Rows(dct1d, b)[p] + a[p]
    PROVE  LET Z == Rows(idct1d, Y)
           IN  /\ Z \in [Cells -> Int]
               /\ 128000 * Grid(Squares(Minus(Z, b))) - 71091144 <= 17001 * Grid(Rooms(a))
<1> DEFINE Z == Rows(idct1d, Y)
           e == Squares(Minus(Z, b))
           q == Rooms(a)
           Good(r) == 128000 * Sum8([c \in Line |-> e[8 * r + c]]) + (-8886393)
                        <= 17001 * Sum8([c \in Line |-> q[8 * r + c]])
<1>0. b \in [Cells -> Int]
  <2>1. \A p \in Cells : b[p] \in Int
    BY SMT DEF Within
  <2> QED
    BY <2>1
<1>1. ASSUME NEW r \in Line
      PROVE  (\A c \in Line : Z[8 * r + c] \in Int) /\ Good(r)
  <2> DEFINE u == RowOf(b, r)
             d == RowOf(a, r)
  <2>1. u \in [Line -> Int] /\ d \in [Line -> Int] /\ \A j \in Line : u[j] \in Within(128)
    BY <1>0, CellOf DEF RowOf
  <2>2. \A c \in Line : Z[8 * r + c] = Back(u, d)[c]
    BY <1>0, RowsBack
  <2>3. /\ Back(u, d) \in [Line -> Int]
        /\ 128000 * Sum8([j \in Line |-> Square(Back(u, d)[j] - u[j])])
             <= 17001 * Sum8(Room(d)) + 17 * Square(723)
    <3> DEFINE m == 128
               t == 723
    <3>1. m \in Nat /\ t \in Nat /\ Ample(m, t) /\ \A j \in Line : u[j] \in Within(m)
      BY <2>1, AmpleTwice, SMT
    <3> HIDE DEF u, d, m, t
    <3>2. Back(u, d) \in [Line -> Int] /\ PassBound(u, d, t)
      BY <2>1, <3>1, OnePass
    <3> QED
      BY <3>2, SMT DEF t, PassBound
  <2>4. [c \in Line |-> e[8 * r + c]] = [j \in Line |-> Square(Back(u, d)[j] - u[j])]
    BY <2>2, CellOf DEF Squares, Minus, RowOf
  <2>5. [c \in Line |-> q[8 * r + c]] = Room(d)
    BY CellOf DEF Rooms, Room, RowOf
  <2>6. 17 * Square(723) = 8886393
    BY SMT DEF Square
  <2>7. Sum8(Room(d)) \in Int /\ Sum8([j \in Line |-> Square(Back(u, d)[j] - u[j])]) \in Int
    <3>1. Room(d) \in [Line -> Int]
      <4> HIDE DEF u, d
      <4> QED
        BY <2>1, RoomInt
    <3>2. [j \in Line |-> Square(Back(u, d)[j] - u[j])] \in [Line -> Int]
      BY <2>1, <2>3, SquareNat, SMT
    <3> QED
      BY <3>1, <3>2, SumInt
  <2>8. \A c \in Line : Z[8 * r + c] \in Int
    BY <2>2, <2>3, SMT
  <2> HIDE DEF u, d, Z, e, q
  <2> QED
    BY <2>3, <2>4, <2>5, <2>6, <2>7, <2>8, SMT
<1>2. Z \in [Cells -> Int]
  <2>2. Z = [p \in Cells |-> Z[p]]
    BY DEF Rows
  <2> HIDE DEF Z, e, q, Good
  <2>0. \A r, c \in Line : Z[8 * r + c] \in Int
    BY <1>1
  <2>1. \A p \in Cells : Z[p] \in Int
    BY <2>0, CellSplit
  <2> QED
    BY <2>1, <2>2
<1>3. Minus(Z, b) \in [Cells -> Int]
  <2> HIDE DEF Z
  <2> QED
    BY <1>0, <1>2 DEF Minus
<1>4. e \in [Cells -> Int] /\ q \in [Cells -> Int]
  BY <1>3, SquaresNat
<1> DEFINE F == [r \in Line |-> Sum8([c \in Line |-> e[8 * r + c]])]
           G == [r \in Line |-> Sum8([c \in Line |-> q[8 * r + c]])]
<1>5. F \in [Line -> Int] /\ G \in [Line -> Int] /\ Grid(e) = Sum8(F) /\ Grid(q) = Sum8(G)
  BY <1>4, GridLines DEF Grid
<1>6. \A r \in Line : 128000 * F[r] + (-8886393) <= 17001 * G[r]
  BY <1>1, SMT
<1> HIDE DEF F, G, e, q, Z
<1>7. 128000 * Sum8(F) + 8 * (-8886393) <= 17001 * Sum8(G)
  <2> DEFINE x == 128000
             y == 17001
             z == -8886393
  <2>1. x \in Int /\ y \in Int /\ z \in Int /\ \A c \in Line : x * F[c] + z <= y * G[c]
    BY <1>6, SMT
  <2> HIDE DEF x, y, z
  <2>2. x * Sum8(F) + 8 * z <= y * Sum8(G)
    BY <1>5, <2>1, SumCompare
  <2> QED
    BY <2>2, SMT DEF x, y, z
<1>8. Grid(e) \in Int /\ Grid(q) \in Int
  BY <1>4, GridLines
<1>9. 128000 * Grid(e) - 71091144 <= 17001 * Grid(q)
  BY <1>5, <1>7, <1>8, SMT
<1> QED
  BY <1>2, <1>9, SMT DEF e, q, Z

(* What the columns leave is what the rows are given.                      *)
LEMMA RoomsOfErrors ==
    ASSUME NEW a \in [Cells -> Int]
    PROVE  4 * Grid(Rooms(a)) <= 17 * Grid(Squares(a)) + 39168
<1> DEFINE x == 4
           y == 17
           z == -612
<1>1. ASSUME NEW p \in Cells PROVE x * Rooms(a)[p] + z <= y * Squares(a)[p]
  <2>1. Rooms(a)[p] = Square(2 * Abs(a[p]) + 3) /\ Squares(a)[p] = Square(a[p])
    BY DEF Rooms, Squares
  <2> DEFINE h == Abs(a[p])
  <2>2. h \in Nat /\ Square(a[p]) = Square(h)
    BY SMT DEF Abs, Square
  <2> HIDE DEF h
  <2>3. Square(h - 24) >= 0
    BY <2>2, SquareNat
  <2>4. 4 * Square(2 * h + 3) - 612 <= 17 * Square(h)
    BY <2>2, <2>3, SMT DEF Square
  <2>5. Square(2 * h + 3) \in Nat /\ Square(h) \in Nat
    BY <2>2, SquareNat, SMT
  <2> QED
    BY <2>1, <2>2, <2>4, <2>5, SMT DEF h
<1>2. x \in Int /\ y \in Int /\ z \in Int
  BY SMT
<1>3. Rooms(a) \in [Cells -> Int] /\ Squares(a) \in [Cells -> Int]
  BY SquaresNat
<1> HIDE DEF x, y, z
<1>4. x * Grid(Rooms(a)) + 64 * z <= y * Grid(Squares(a))
  BY <1>1, <1>2, <1>3, GridCompare
<1>5. Grid(Rooms(a)) \in Int /\ Grid(Squares(a)) \in Int
  BY <1>3, GridLines
<1> QED
  BY <1>4, <1>5, SMT DEF x, y, z

(* What rounding to a step costs, and what is allowed.                     *)
LEMMA RoomsOfSteps ==
    ASSUME NEW D \in [Cells -> Int], NEW H \in [Cells -> 0 .. 127],
           \A p \in Cells : Abs(D[p]) <= H[p], NEW off \in Nat, off >= 15
    PROVE  4913578017 * Grid(Rooms(D)) + 193800618721800
             <= 16384000000 * Grid(Squares([p \in Cells |-> H[p] + off]))
<1> DEFINE x == 4913578017
           y == 16384000000
           z == 3028134667529
           T == [p \in Cells |-> H[p] + off]
<1>1. ASSUME NEW p \in Cells PROVE x * Rooms(D)[p] + z <= y * Squares(T)[p]
  <2> DEFINE h == Abs(D[p])
             s == H[p]
  <2>1. Rooms(D)[p] = Square(2 * h + 3) /\ Squares(T)[p] = Square(s + off)
    BY DEF Rooms, Squares
  <2>2. h \in Nat /\ s \in 0 .. 127 /\ h <= s
    BY AbsNat
  <2> HIDE DEF h, s, T
  <2>3. Square(2 * h + 3) <= Square(2 * s + 3)
    BY <2>2, SquareBound, SMT
  <2>4. Square(s + 15) <= Square(s + off)
    BY <2>2, SquareBound, SMT
  <2>5. x * Square(2 * s + 3) + z <= y * Square(s + 15)
    <3>1. s * (127 - s) >= 0
      BY <2>2, SMT
    <3> QED
      BY <2>2, <3>1, SMT DEF Square
  <2>6. /\ Square(2 * h + 3) \in Nat /\ Square(2 * s + 3) \in Nat
        /\ Square(s + 15) \in Nat /\ Square(s + off) \in Nat
    BY <2>2, SquareNat, SMT
  <2> QED
    BY <2>1, <2>3, <2>4, <2>5, <2>6, SMT
<1>2. x \in Int /\ y \in Int /\ z \in Int
  BY SMT
<1>3. Rooms(D) \in [Cells -> Int]
  BY SquaresNat
<1>4. T \in [Cells -> Int]
  BY SMT
<1>5. Squares(T) \in [Cells -> Int]
  BY <1>4, SquaresNat
<1> HIDE DEF x, y, z, T
<1>6. x * Grid(Rooms(D)) + 64 * z <= y * Grid(Squares(T))
  BY <1>1, <1>2, <1>3, <1>5, GridCompare
<1>7. Grid(Rooms(D)) \in Int /\ Grid(Squares(T)) \in Int
  BY <1>3, <1>5, GridLines
<1> QED
  BY <1>6, <1>7, SMT DEF x, y, z, T

(* Both passes: a quarter of what rounding costs, and a margin.            *)
LEMMA BothPasses ==
    ASSUME NEW b \in [Cells -> Within(128)], NEW D \in [Cells -> Int],
           NEW H \in [Cells -> 0 .. 127], \A p \in Cells : Abs(D[p]) <= H[p],
           NEW off \in Nat, off >= 15
    PROVE  LET Z == Rows(idct1d, Cols(idct1d, Plus(Cols(dct1d, Rows(dct1d, b)), D)))
           IN  /\ Z \in [Cells -> Int]
               /\ 4 * Grid(Squares(Minus(Z, b))) <= Grid(Squares([p \in Cells |-> H[p] + off]))
               /\ Grid(Squares(Minus(Z, b))) <= 1000000
<1> DEFINE U == Rows(dct1d, b)
           Y == Cols(idct1d, Plus(Cols(dct1d, U), D))
           Z == Rows(idct1d, Y)
           a == Minus(Y, U)
           T(o) == [p \in Cells |-> H[p] + o]
<1>1. U \in [Cells -> Within(512)]
  <2>1. ASSUME NEW p \in Cells PROVE U[p] \in Within(512)
    <3> DEFINE r == p \div 8
               c == p % 8
               v == [j \in Line |-> b[8 * r + j]]
    <3>1. r \in Line /\ c \in Line /\ p = 8 * r + c
      BY CellSplit
    <3>2. v \in [Line -> Int] /\ \A j \in Line : v[j] \in Within(128)
      <4>1. \A j \in Line : v[j] \in Within(128)
        BY <3>1, CellOf
      <4>2. \A x \in Within(128) : x \in Int
        BY SMT DEF Within
      <4> QED
        BY <4>1, <4>2
    <3> HIDE DEF v
    <3>3. dct1d(v) \in [Line -> Within(4 * 128)]
      BY <3>2, Dct1d, SMT
    <3>4. U[8 * r + c] = dct1d(v)[c]
      BY <3>1, ThroughRows DEF v
    <3>6. 4 * 128 = 512
      BY SMT
    <3>5. dct1d(v)[c] \in Within(512)
      BY <3>1, <3>3, <3>6, SMT
    <3> HIDE DEF U, r, c
    <3> QED
      BY <3>1, <3>4, <3>5
  <2>2. U = [p \in Cells |-> U[p]]
    BY DEF Rows
  <2> QED
    BY <2>1, <2>2
<1>2. /\ Y \in [Cells -> Int]
      /\ 128000 * Grid(Squares(a)) - 249699400 <= 17001 * Grid(Rooms(D))
  <2> HIDE DEF U
  <2> QED
    BY <1>1, ColumnErrors, SMT
<1>3. U \in [Cells -> Int]
  <2>1. \A x \in Within(512) : x \in Int
    BY SMT DEF Within
  <2> HIDE DEF U
  <2> QED
    BY <1>1, <2>1
<1>4. a \in [Cells -> Int] /\ \A p \in Cells : Y[p] = U[p] + a[p]
  <2> HIDE DEF U, Y
  <2> QED
    BY <1>2, <1>3, SMT DEF Minus
<1>5. /\ Z \in [Cells -> Int]
      /\ 128000 * Grid(Squares(Minus(Z, b))) - 71091144 <= 17001 * Grid(Rooms(a))
  <2> HIDE DEF Y, a
  <2> QED
    BY <1>2, <1>4, RowErrors, SMT
<1> HIDE DEF U, Y, Z, a, T
<1>6. 4 * Grid(Rooms(a)) <= 17 * Grid(Squares(a)) + 39168
  BY <1>4, RoomsOfErrors, SMT
<1>7. \A o \in Nat : o >= 15 =>
        4913578017 * Grid(Rooms(D)) + 193800618721800 <= 16384000000 * Grid(Squares(T(o)))
  BY RoomsOfSteps, SMT DEF T
<1>8. b \in [Cells -> Int]
  <2>1. \A x \in Within(128) : x \in Int
    BY SMT DEF Within
  <2> QED
    BY <2>1
<1> DEFINE E == Squares(Minus(Z, b))
<1>9. /\ Minus(Z, b) \in [Cells -> Int]
      /\ \A o \in Nat : T(o) \in [Cells -> Int]
  BY <1>5, <1>8, SMT DEF Minus, T
<1>10. /\ Grid(E) \in Int /\ Grid(Rooms(D)) \in Int
       /\ Grid(Rooms(a)) \in Int /\ Grid(Squares(a)) \in Int
       /\ \A o \in Nat : Grid(Squares(T(o))) \in Int
  BY <1>4, <1>9, SquaresNat, GridLines
<1> HIDE DEF E
<1>11. 128000 * Grid(E) - 71091144 <= 17001 * Grid(Rooms(a))
  BY <1>5, SMT DEF E
<1>12. \A o \in Nat : o >= 15 => 4 * Grid(E) <= Grid(Squares(T(o)))
  <2>1. 65536000000 * Grid(E) <= 4913578017 * Grid(Rooms(D)) + 193800618721800
    BY <1>2, <1>6, <1>10, <1>11, SMT
  <2> QED
    BY <2>1, <1>7, <1>10, SMT
<1>13. Grid(Squares(T(15))) <= 4000000
  <2> DEFINE f == Squares(T(15))
             g == [p \in Cells |-> 20164]
  <2>1. f \in [Cells -> Int] /\ g \in [Cells -> Int]
    BY <1>9, SquaresNat, SMT
  <2>2. ASSUME NEW p \in Cells PROVE f[p] <= 20164
    <3> DEFINE h == H[p]
    <3>1. h \in 0 .. 127 /\ f[p] = Square(h + 15)
      BY SMT DEF Squares, T
    <3> HIDE DEF h, f
    <3>2. Square(h + 15) <= Square(142)
      BY <3>1, SquareBound, SMT
    <3> QED
      BY <3>1, <3>2, SMT DEF Square
  <2>3. Grid(g) = 1290496
    BY CellOf, SMT DEF Grid, Sum8, Line
  <2> DEFINE x == 1
             y == 1
             z == 0
  <2>4. \A p \in Cells : x * f[p] + z <= y * g[p]
    <3> HIDE DEF f
    <3> QED
      BY <2>1, <2>2, SMT
  <2>5. x \in Int /\ y \in Int /\ z \in Int
    OBVIOUS
  <2> HIDE DEF f, g, x, y, z
  <2>6. x * Grid(f) + 64 * z <= y * Grid(g)
    BY <2>1, <2>4, <2>5, GridCompare
  <2>7. Grid(f) \in Int /\ Grid(g) \in Int
    BY <2>1, GridLines
  <2>8. Grid(f) <= 4000000
    BY <2>3, <2>6, <2>7, SMT DEF x, y, z
  <2> QED
    BY <2>8, SMT DEF f
<1>14. Grid(E) <= 1000000
  BY <1>10, <1>12, <1>13, SMT
<1>15. 4 * Grid(E) <= Grid(Squares(T(off)))
  BY <1>12, SMT
<1> QED
  BY <1>5, <1>14, <1>15, SMT DEF E, Z, Y, U, T

-----------------------------------------------------------------------------
(* What quantising a block loses.                                          *)

LEMMA EnergyIs == ASSUME NEW v PROVE Energy([p \in Cells |-> v[p]]) = Grid(Squares(v))
<1>1. \A r, c \in Line : /\ Square([p \in Cells |-> v[p]][8 * r + c]) = Square(v[8 * r + c])
                         /\ Squares(v)[8 * r + c] = Square(v[8 * r + c])
  BY CellOf DEF Squares
<1> QED
  BY <1>1 DEF Energy, Grid

Nearest(a, q) == (a + q \div 2) \div q

HalfStep(a, q, k) ==
    k \in Nat /\ k * q \in Nat /\ k * q - a <= q \div 2 /\ a - k * q <= q \div 2

(* A coefficient comes back to within half a step.                         *)
LEMMA NearestMultiple ==
    ASSUME NEW a \in Nat, NEW q \in Nat, q > 0
    PROVE  HalfStep(a, q, Nearest(a, q))
<1> DEFINE h == q \div 2
           k == (a + h) \div q
           r == (a + h) % q
<1>1. h \in Nat /\ q <= 2 * h + 1
  OBVIOUS
<1>2. k \in Nat
  BY Quotient
<1> HIDE DEF h
<1>3. a + h = q * k + r /\ r \in 0 .. q - 1
  BY <1>1, DivMod
<1> HIDE DEF k, r
<1>4. q * k = k * q /\ k * q \in Nat
  BY <1>2
<1>5. k * q - a <= h /\ a - k * q <= h
  BY <1>1, <1>3, <1>4
<1> QED
  BY <1>2, <1>4, <1>5 DEF h, k, Nearest, HalfStep

LEMMA QuantiseNear ==
    ASSUME NEW val \in Within(2048), NEW q \in 1 .. 255
    PROVE  LET y == Int16(Int16(Quantise(val, q)) * q)
           IN  y \in Int /\ Abs(y - val) <= q \div 2
<1>1. /\ val \in Int /\ val <= 2048 /\ val >= -2048
      /\ q \in Nat /\ q > 0
  BY DEF Within
<1> DEFINE k == Quantise(val, q)
           y == k * q
<1>2. k \in Int /\ y \in Int /\ y - val <= q \div 2 /\ val - y <= q \div 2
  <2>1. CASE val >= 0
    <3>1. k = Nearest(val, q)
      BY <2>1 DEF Quantise, Nearest
    <3>2. val \in Nat
      BY <1>1, <2>1
    <3> HIDE DEF k
    <3>3. HalfStep(val, q, k)
      BY <1>1, <3>1, <3>2, NearestMultiple
    <3> QED
      BY <1>1, <3>3 DEF HalfStep
  <2>2. CASE val < 0
    <3> DEFINE w == -val
               l == Nearest(w, q)
    <3>1. k = -l
      BY <1>1, <2>2 DEF Quantise, Nearest
    <3>2. w \in Nat /\ val = -w
      BY <1>1, <2>2
    <3> HIDE DEF w, k
    <3>3. HalfStep(w, q, l)
      BY <1>1, <3>2, NearestMultiple
    <3> HIDE DEF l
    <3>4. k * q = -(l * q)
      BY <3>1, <3>3 DEF HalfStep
    <3> QED
      BY <1>1, <3>1, <3>2, <3>3, <3>4 DEF HalfStep
  <2> QED
    BY <1>1, <2>1, <2>2
<1>3. Int16(k) = k
  BY QuantiseShrinks, Int16Small
<1>4. q \div 2 \in 0 .. 127
  OBVIOUS
<1> HIDE DEF k, y
<1>5. Int16(y) = y
  <2>1. y >= -2175 /\ y <= 2175
    BY <1>1, <1>2, <1>4
  <2>2. (y + 32768) % 65536 = y + 32768
    BY <1>2, <2>1, SMT
  <2> QED
    BY <1>2, <2>2, SMT DEF Int16
<1>6. y \in Int /\ Abs(y - val) <= q \div 2
  BY <1>1, <1>2, <1>4 DEF Abs
<1> QED
  BY <1>3, <1>5, <1>6 DEF k, y

LEMMA PlaceBack == \A p \in Cells : Place[p] \in Cells /\ ZIGZAG[Place[p] + 1] = p
<1> SUFFICES ASSUME NEW p \in Cells PROVE Place[p] \in Cells /\ ZIGZAG[Place[p] + 1] = p
  OBVIOUS
<1>1. PICK j \in 1 .. 64 : ZIGZAG[j] = p
  BY SMTT(30) DEF ZIGZAG, Cells
<1>2. j - 1 \in Cells /\ ZIGZAG[(j - 1) + 1] = p
  BY <1>1 DEF Cells
<1>3. Place[p] = CHOOSE i \in Cells : ZIGZAG[i + 1] = p
  BY DEF Place
<1> QED
  BY <1>2, <1>3

(* Neither pass wraps: a coefficient is what the columns make of it.       *)
LEMMA DctLines ==
    ASSUME NEW b \in [Cells -> Within(128)]
    PROVE  /\ \A p \in Cells : dct8x8(b)[p] = Cols(dct1d, Rows(dct1d, b))[p]
           /\ dct8x8(b) \in [Cells -> Within(2048)]
<1> DEFINE U == Rows(dct1d, b)
           C == Cols(dct1d, U)
<1>1. ASSUME NEW m \in {128, 512}, NEW v \in [Line -> Within(m)]
      PROVE  dct1d(v) \in [Line -> Within(4 * m)]
  <2>1. m \in Nat /\ \A x \in Within(m) : x \in Int
    BY SMT DEF Within
  <2> QED
    BY <2>1, Dct1d
<1>2. \A r, c \in Line : U[8 * r + c] \in Within(512)
  <2> SUFFICES ASSUME NEW r \in Line, NEW c \in Line PROVE U[8 * r + c] \in Within(512)
    OBVIOUS
  <2> DEFINE v == [j \in Line |-> b[8 * r + j]]
  <2>1. v \in [Line -> Within(128)]
    BY CellOf
  <2>2. U[8 * r + c] = dct1d(v)[c]
    BY ThroughRows
  <2> HIDE DEF U, v
  <2>3. dct1d(v) \in [Line -> Within(4 * 128)]
    BY <1>1, <2>1
  <2>4. 4 * 128 = 512
    BY SMT
  <2> QED
    BY <2>2, <2>3, <2>4, SMT
<1>3. \A r, c \in Line : C[8 * r + c] \in Within(2048)
  <2> SUFFICES ASSUME NEW r \in Line, NEW c \in Line PROVE C[8 * r + c] \in Within(2048)
    OBVIOUS
  <2> DEFINE v == [j \in Line |-> U[8 * j + c]]
  <2>2. C[8 * r + c] = dct1d(v)[r]
    BY ThroughCols
  <2> HIDE DEF U, C
  <2>1. v \in [Line -> Within(512)]
    BY <1>2
  <2> HIDE DEF v
  <2>3. dct1d(v) \in [Line -> Within(4 * 512)]
    BY <1>1, <2>1
  <2>4. 4 * 512 = 2048
    BY SMT
  <2> QED
    BY <2>2, <2>3, <2>4, SMT
<1>4. dct8x8(b) = [p \in Cells |-> Int16(C[p])]
  BY DEF dct8x8
<1> HIDE DEF C
<1>5. \A p \in Cells : C[p] \in Within(2048)
  BY <1>3, CellSplit
<1>6. \A p \in Cells : Int16(C[p]) = C[p]
  BY <1>5, Int16Small
<1>7. dct8x8(b) \in [Cells -> Within(2048)] /\ \A p \in Cells : dct8x8(b)[p] = C[p]
  BY <1>4, <1>5, <1>6
<1> QED
  BY <1>7 DEF C

(* No cell is larger than the sum, where none is negative.                 *)
LEMMA CellInGrid ==
    ASSUME NEW v \in [Cells -> Int], \A p \in Cells : v[p] \in Nat, NEW p \in Cells
    PROVE  v[p] <= Grid(v)
<1>1. ASSUME NEW f \in [Line -> Int], \A k \in Line : f[k] \in Nat, NEW k \in Line
      PROVE  f[k] <= Sum8(f) /\ Sum8(f) \in Nat
  BY <1>1, SMTT(20) DEF Sum8, Line
<1> DEFINE F(r) == [c \in Line |-> v[8 * r + c]]
           G == [r \in Line |-> Sum8(F(r))]
<1>2. \A r \in Line : F(r) \in [Line -> Int] /\ \A c \in Line : F(r)[c] \in Nat
  BY CellOf
<1>3. G \in [Line -> Int] /\ \A r \in Line : G[r] = Sum8(F(r)) /\ G[r] \in Nat
  <2>1. \A r \in Line : G[r] = Sum8(F(r))
    OBVIOUS
  <2> HIDE DEF F
  <2>2. \A r \in Line : Sum8(F(r)) \in Nat
    <3> SUFFICES ASSUME NEW r \in Line PROVE Sum8(F(r)) \in Nat
      OBVIOUS
    <3>1. 0 \in Line
      BY DEF Line
    <3> QED
      BY <1>1, <1>2, <3>1
  <2> QED
    BY <2>1, <2>2
<1>4. Grid(v) = Sum8(G)
  BY DEF Grid
<1> DEFINE r == p \div 8
           c == p % 8
<1>5. r \in Line /\ c \in Line /\ p = 8 * r + c
  BY CellSplit
<1> HIDE DEF r, c
<1>6. v[p] = F(r)[c]
  BY <1>5
<1> HIDE DEF F, G
<1>7. F(r)[c] <= Sum8(F(r)) /\ Sum8(F(r)) <= Sum8(G)
  <2>1. F(r)[c] <= Sum8(F(r))
    BY <1>1, <1>2, <1>5
  <2>2. G[r] <= Sum8(G)
    BY <1>1, <1>3, <1>5
  <2> QED
    BY <1>3, <1>5, <2>1, <2>2
<1>8. Sum8(F(r)) \in Nat /\ Sum8(G) \in Nat
  BY <1>1, <1>2, <1>3, <1>5
<1> QED
  BY <1>2, <1>4, <1>5, <1>6, <1>7, <1>8

(* What decode_block stores differs from what encode_block read by no more *)
(* energy than a quarter of what the steps of the quantiser may cost.      *)
LEMMA BlockReturns ==
    ASSUME NEW b \in [Cells -> Within(128)], NEW t \in [Cells -> 1 .. 255],
           \A p \in Cells : b[p] + 128 \in Byte, NEW off \in Nat, off >= 15
    PROVE  LET i == idct8x8(quant_decode(quant_encode(dct8x8(b), t), t))
               x == [p \in Cells |-> (b[p] + 128) - Clip(i[p] + 128, 0, 255)]
               h == [p \in Cells |-> t[Place[p]] \div 2 + off]
           IN  4 * Energy([p \in Cells |-> x[p]]) <= Energy([p \in Cells |-> h[p]])
<1> DEFINE C == dct8x8(b)
           F == quant_decode(quant_encode(C, t), t)
           D == [p \in Cells |-> F[p] - C[p]]
           H == [p \in Cells |-> t[Place[p]] \div 2]
           K == Plus(Cols(dct1d, Rows(dct1d, b)), D)
           Z == Rows(idct1d, Cols(idct1d, K))
           i == idct8x8(F)
           x == [p \in Cells |-> (b[p] + 128) - Clip(i[p] + 128, 0, 255)]
           h == [p \in Cells |-> t[Place[p]] \div 2 + off]
<1>1. /\ C \in [Cells -> Within(2048)]
      /\ \A p \in Cells : C[p] = Cols(dct1d, Rows(dct1d, b))[p]
  BY DctLines
<1> HIDE DEF C
<1>2. ASSUME NEW p \in Cells
      PROVE  F[p] \in Int /\ Abs(F[p] - C[p]) <= t[Place[p]] \div 2
  <2> DEFINE j == Place[p]
             q == t[j]
  <2>1. j \in Cells /\ ZIGZAG[j + 1] = p
    BY PlaceBack
  <2>2. C[p] \in Within(2048) /\ q \in 1 .. 255
    BY <1>1, <2>1
  <2>3. F[p] = Int16(quant_encode(C, t)[j] * q)
    BY DEF quant_decode
  <2>4. quant_encode(C, t)[j] = Int16(Quantise(C[p], q))
    BY <2>1 DEF quant_encode
  <2> HIDE DEF F, j, q
  <2>5. F[p] \in Int /\ Abs(F[p] - C[p]) <= q \div 2
    BY <2>2, <2>3, <2>4, QuantiseNear
  <2> QED
    BY <2>5 DEF q, j
<1>3. F = [p \in Cells |-> F[p]]
  BY DEF quant_decode
<1> HIDE DEF F
<1>4. \A p \in Cells : C[p] \in Int
  <2>1. \A v \in Within(2048) : v \in Int
    BY SMT DEF Within
  <2> QED
    BY <1>1, <2>1
<1>5. /\ D \in [Cells -> Int] /\ H \in [Cells -> 0 .. 127]
      /\ \A p \in Cells : Abs(D[p]) <= H[p]
  <2>1. \A q \in 1 .. 255 : q \div 2 \in 0 .. 127
    BY SMT
  <2>2. \A p \in Cells : t[Place[p]] \div 2 \in 0 .. 127
    BY <2>1, PlaceCells
  <2>3. \A p \in Cells : D[p] = F[p] - C[p] /\ D[p] \in Int
    BY <1>2, <1>4
  <2> QED
    BY <1>2, <2>2, <2>3
<1>6. K = F
  <2>1. \A p \in Cells : K[p] = F[p]
    <3>1. \A p \in Cells : K[p] = C[p] + (F[p] - C[p])
      BY <1>1 DEF Plus
    <3> HIDE DEF K
    <3> QED
      BY <1>2, <1>4, <3>1
  <2>2. K = [p \in Cells |-> K[p]]
    BY DEF Plus
  <2> HIDE DEF K
  <2> QED
    BY <1>3, <2>1, <2>2
<1> DEFINE T == [p \in Cells |-> H[p] + off]
           E == Squares(Minus(Z, b))
<1>7. Z \in [Cells -> Int] /\ 4 * Grid(E) <= Grid(Squares(T)) /\ Grid(E) <= 1000000
  <2> HIDE DEF D, H
  <2> QED
    BY <1>5, BothPasses
<1>8. T = h
  OBVIOUS
<1>9. i = [p \in Cells |-> Int16(Z[p])]
  <2>1. i = [p \in Cells |-> Int16(Rows(idct1d, Cols(idct1d, F))[p])]
    BY DEF idct8x8
  <2> HIDE DEF K, i
  <2> QED
    BY <1>6, <2>1
<1> HIDE DEF Z, T, i, h
<1>10. /\ b \in [Cells -> Int] /\ \A p \in Cells : b[p] <= 128 /\ -b[p] <= 128
  <2>1. \A v \in Within(128) : v \in Int /\ v <= 128 /\ -v <= 128
    BY SMT DEF Within
  <2> QED
    BY <2>1
<1>11. Minus(Z, b) \in [Cells -> Int] /\ \A p \in Cells : E[p] = Square(Z[p] - b[p])
  BY <1>7, <1>10 DEF Minus, Squares
<1>12. E \in [Cells -> Int] /\ \A p \in Cells : E[p] \in Nat
  BY <1>7, <1>10, <1>11, SquaresNat, SquareNat
<1> HIDE DEF E
<1>13. ASSUME NEW p \in Cells PROVE E[p] <= 1000000
  <2>1. E[p] <= Grid(E)
    BY <1>12, CellInGrid
  <2> QED
    BY <1>7, <1>12, <2>1, GridLines, SMT
<1>14. ASSUME NEW p \in Cells PROVE Int16(Z[p]) = Z[p]
  <2> DEFINE e == Z[p] - b[p]
  <2>1. e \in Int /\ Square(e) <= 1000000 /\ Z[p] = e + b[p]
    BY <1>7, <1>10, <1>11, <1>13
  <2>2. b[p] \in Int /\ b[p] <= 128 /\ -b[p] <= 128
    BY <1>10
  <2> HIDE DEF e
  <2>3. e <= 1000 /\ e >= -1000
    <3>1. ~(e > 1000) /\ ~(e < -1000)
      BY <2>1, SMT DEF Square
    <3> QED
      BY <2>1, <3>1, SMT
  <2>4. Z[p] \in Within(2048)
    <3>1. Z[p] \in Int /\ Z[p] <= 2048 /\ Z[p] >= -2048
      BY <2>1, <2>2, <2>3, SMT
    <3>2. \A v \in Int : v <= 2048 /\ v >= -2048 => v \in Within(2048)
      BY SMT DEF Within
    <3> HIDE DEF Within
    <3> QED
      BY <3>1, <3>2, SMT
  <2> QED
    BY <2>4, Int16Small
<1>15. ASSUME NEW p \in Cells PROVE x[p] \in Int /\ Square(x[p]) <= E[p]
  <2> DEFINE o == b[p] + 128
             y == Z[p] + 128
             m == Abs(Z[p] - b[p])
  <2>1. x[p] = o - Clip(y, 0, 255)
    BY <1>9, <1>14
  <2>2. o \in Byte /\ y \in Int
    BY <1>7
  <2>3. m \in Nat /\ Square(m) = E[p] /\ y - o <= m /\ o - y <= m
    BY <1>7, <1>10, <1>11, SMT DEF Abs, Square
  <2> HIDE DEF x, o, y, m
  <2>4. x[p] \in Int /\ x[p] <= m /\ -x[p] <= m
    BY <2>1, <2>2, <2>3, SMT DEF Clip, Byte
  <2>5. Square(x[p]) <= Square(m)
    BY <2>3, <2>4, SquareBound
  <2> QED
    BY <2>3, <2>4, <2>5
<1>16. x \in [Cells -> Int]
  BY <1>15
<1> HIDE DEF x
<1>17. Squares(x) \in [Cells -> Int] /\ \A p \in Cells : Squares(x)[p] = Square(x[p])
  BY <1>16, SquaresNat DEF Squares
<1>18. Grid(Squares(x)) <= Grid(E)
  <2> DEFINE y == 1
             z == 0
             s == Squares(x)
  <2>1. \A p \in Cells : y * s[p] + z <= y * E[p]
    BY <1>12, <1>15, <1>17
  <2>2. y \in Int /\ z \in Int /\ s \in [Cells -> Int]
    BY <1>17
  <2> HIDE DEF y, z, s
  <2>3. y * Grid(s) + 64 * z <= y * Grid(E)
    BY <1>12, <2>1, <2>2, GridCompare
  <2>4. Grid(s) \in Int /\ Grid(E) \in Int
    BY <1>12, <2>2, GridLines
  <2> QED
    BY <2>3, <2>4 DEF y, z, s
<1>19. /\ Energy([p \in Cells |-> x[p]]) = Grid(Squares(x))
       /\ Energy([p \in Cells |-> h[p]]) = Grid(Squares(h))
  BY EnergyIs
<1>20. Grid(Squares(h)) \in Int
  <2>1. h \in [Cells -> Int]
    <3>1. \A p \in Cells : t[Place[p]] \in 1 .. 255
      BY PlaceCells
    <3> QED
      BY <3>1, SMT DEF h
  <2> QED
    BY <2>1, SquaresNat, GridLines
<1>21. 4 * Energy([p \in Cells |-> x[p]]) <= Energy([p \in Cells |-> h[p]])
  BY <1>7, <1>8, <1>12, <1>17, <1>18, <1>19, <1>20, GridLines
<1> QED
  BY <1>21 DEF x, h, i, F, C

-----------------------------------------------------------------------------
(* The blocks do not overlap: what one decodes, none overwrites.           *)

LEMMA AddressOnce ==
    ASSUME Whole16, NEW k \in 0 .. Blocks - 1, NEW m \in 0 .. Blocks - 1,
           NEW c \in Cells, NEW d \in Cells, Address(k, c) = Address(m, d)
    PROVE  k = m
<1>1. /\ \A x \in 0 .. 3 : BlocksBefore(x) \in Nat
      /\ \A x \in 0 .. 2 : BlocksBefore(x + 1) = BlocksBefore(x) + Across(x) * Down(x)
      /\ \A x \in 0 .. 2 : Across(x) \in Nat /\ Down(x) \in Nat
  BY BlocksInOrder DEF Whole16
<1>2. \A x, y \in 0 .. 2 : x < y => BlocksBefore(x + 1) <= BlocksBefore(y)
  <2>1. \A x \in 0 .. 2 : Across(x) * Down(x) \in Nat
    BY <1>1
  <2>2. \A x \in 0 .. 2 : BlocksBefore(x + 1) >= BlocksBefore(x)
    BY <1>1, <2>1
  <2>3. BlocksBefore(2) >= BlocksBefore(1)
    <3>1. BlocksBefore(1 + 1) >= BlocksBefore(1)
      BY <2>2
    <3> QED
      BY <3>1
  <2>4. BlocksBefore(1) \in Nat /\ BlocksBefore(2) \in Nat
    BY <1>1
  <2> QED
    BY <2>3, <2>4
<1> DEFINE p == PlaneOf(k)
           A == Across(p)
           B == BlocksBefore(p)
           i == k - B
           j == m - B
           C == c \div 8
           D == d \div 8
           v == c % 8
           w == d % 8
<1>3. PlaneOf(m) = p /\ p \in 0 .. 2
  <2> DEFINE q == PlaneOf(m)
             a == Address(k, c)
  <2>1. p \in 0 .. 2 /\ a \in 64 * BlocksBefore(p) .. 64 * BlocksBefore(p + 1) - 1
    BY AddressIs
  <2>2. q \in 0 .. 2 /\ a \in 64 * BlocksBefore(q) .. 64 * BlocksBefore(q + 1) - 1
    BY AddressIs
  <2> HIDE DEF p, q, a
  <2>3. /\ BlocksBefore(p) \in Nat /\ BlocksBefore(p + 1) \in Nat
        /\ BlocksBefore(q) \in Nat /\ BlocksBefore(q + 1) \in Nat
    BY <1>1, <2>1, <2>2
  <2>4. ~(p < q) /\ ~(q < p)
    BY <1>2, <2>1, <2>2, <2>3
  <2>5. p = q
    BY <2>1, <2>2, <2>4
  <2> QED
    BY <2>1, <2>5 DEF p, q
<1>4. /\ A \in Nat /\ A > 0 /\ B \in Nat /\ k \in Int /\ m \in Int
      /\ Address(k, c) = 64 * B + (64 * (A * (i \div A)) + 8 * (A * C) + 8 * (i % A) + v)
      /\ Address(m, d) = 64 * B + (64 * (A * (j \div A)) + 8 * (A * D) + 8 * (j % A) + w)
  BY <1>1, <1>3, AddressIs
<1>5. C \in 0 .. 7 /\ D \in 0 .. 7 /\ v \in 0 .. 7 /\ w \in 0 .. 7
  BY DEF Cells
<1>6. /\ i = A * (i \div A) + (i % A) /\ i \div A \in Int /\ i % A \in 0 .. A - 1
      /\ j = A * (j \div A) + (j % A) /\ j \div A \in Int /\ j % A \in 0 .. A - 1
  <2> HIDE DEF A, B
  <2> QED
    BY <1>4, DivMod
<1>7. k = B + i /\ m = B + j
  <2> HIDE DEF B
  <2> QED
    BY <1>4
<1> DEFINE r == i \div A
           s == j \div A
           x == i % A
           y == j % A
           e == 8 * (A * C) + 8 * x + v
           f == 8 * (A * D) + 8 * y + w
<1> HIDE DEF p, A, B, C, D, v, w
<1>8. r \in Int /\ s \in Int /\ x \in 0 .. A - 1 /\ y \in 0 .. A - 1
  BY <1>6
<1>9. k = B + A * r + x /\ m = B + A * s + y
  <2>1. A * r \in Int /\ A * s \in Int
    BY <1>4, <1>8
  <2> HIDE DEF i, j
  <2>2. i \in Int /\ j \in Int /\ k = B + i /\ m = B + j
    BY <1>4, <1>7 DEF i, j
  <2>3. i = A * r + x /\ j = A * s + y
    BY <1>6
  <2> HIDE DEF r, s, x, y
  <2> QED
    BY <1>4, <1>8, <2>1, <2>2, <2>3
<1>10. 64 * (A * r) + e = 64 * (A * s) + f
  <2>1. /\ Address(k, c) = 64 * B + (64 * (A * r) + 8 * (A * C) + 8 * x + v)
        /\ Address(m, d) = 64 * B + (64 * (A * s) + 8 * (A * D) + 8 * y + w)
    BY <1>4
  <2> HIDE DEF r, s, x, y
  <2> DEFINE Ar == A * r
             As == A * s
             AC == A * C
             AD == A * D
  <2>2. Ar \in Int /\ As \in Int /\ AC \in Int /\ AD \in Int
    BY <1>4, <1>5, <1>8
  <2>3. 64 * B + (64 * Ar + 8 * AC + 8 * x + v) = 64 * B + (64 * As + 8 * AD + 8 * y + w)
    BY <2>1
  <2>4. x \in Int /\ y \in Int /\ v \in Int /\ w \in Int /\ B \in Int
    BY <1>4, <1>5, <1>8
  <2> HIDE DEF Ar, As, AC, AD
  <2>5. 64 * Ar + (8 * AC + 8 * x + v) = 64 * As + (8 * AD + 8 * y + w)
    BY <2>2, <2>3, <2>4
  <2> QED
    BY <2>5 DEF Ar, As, AC, AD
<1> HIDE DEF r, s, x, y
<1>11. e \in 0 .. 64 * A - 1 /\ f \in 0 .. 64 * A - 1
  <2>1. /\ A * C \in Nat /\ A * C <= A * 7 /\ A * D \in Nat /\ A * D <= A * 7
    BY <1>4, <1>5
  <2> QED
    BY <1>4, <1>5, <1>8, <2>1
<1>12. r = s /\ e = f
  <2> DEFINE W == 64 * A
             a == 64 * (A * r) + e
  <2>1. a = W * r + e /\ a = W * s + f /\ a \in Int /\ W \in Nat /\ W > 0
    BY <1>4, <1>8, <1>10, <1>11
  <2>2. e \in 0 .. W - 1 /\ f \in 0 .. W - 1
    BY <1>11
  <2> HIDE DEF W, a, e, f
  <2>3. a \div W = r /\ a % W = e /\ a \div W = s /\ a % W = f
    BY <1>8, <2>1, <2>2, ModUnique
  <2> QED
    BY <2>3
<1>13. 8 * x + v = 8 * y + w
  <2> DEFINE W == 8 * A
             g == 8 * x + v
             h == 8 * y + w
  <2>1. e = W * C + g /\ e = W * D + h /\ e \in Int /\ W \in Nat /\ W > 0
    BY <1>4, <1>5, <1>8, <1>11, <1>12
  <2>2. g \in 0 .. W - 1 /\ h \in 0 .. W - 1
    BY <1>4, <1>5, <1>8
  <2>3. C \in Int /\ D \in Int
    BY <1>5
  <2> HIDE DEF W, g, h, e
  <2>4. e % W = g /\ e % W = h
    BY <2>1, <2>2, <2>3, ModUnique
  <2> QED
    BY <2>4 DEF g, h
<1>14. x = y
  BY <1>5, <1>8, <1>13
<1> QED
  BY <1>9, <1>12, <1>14

(* A cell found at an address has that address.                            *)
LEMMA AddressBack ==
    ASSUME Whole16, NEW k \in 0 .. Blocks - 1, NEW a \in Int, CellAt(k, a) >= 0
    PROVE  CellAt(k, a) \in Cells /\ Address(k, CellAt(k, a)) = a
<1> DEFINE s == Stride(k)
           off == a - Origin(k)
           row == Clip(off \div s, 0, 7)
           col == off - row * s
<1>1. s \in Nat /\ s > 0 /\ Origin(k) \in Nat
  BY BlockPlace, AddressNat DEF Whole16
<1>2. CellAt(k, a) = IF col \in Line THEN 8 * row + col ELSE -1
  BY DEF CellAt
<1>3. off \in Int /\ off \div s \in Int
  <2>1. off \in Int
    BY <1>1
  <2> HIDE DEF off, s
  <2> QED
    BY <1>1, <2>1, DivMod
<1>4. row \in 0 .. 7
  <2>1. \A x \in Int : Clip(x, 0, 7) \in 0 .. 7
    BY DEF Clip
  <2> QED
    BY <1>3, <2>1
<1> HIDE DEF row, s
<1>5. col \in Line
  BY <1>2
<1>6. CellAt(k, a) = 8 * row + col
  BY <1>2, <1>5
<1> HIDE DEF col
<1>7. /\ 8 * row + col \in Cells /\ (8 * row + col) \div 8 = row /\ (8 * row + col) % 8 = col
  BY <1>4, <1>5, CellLine DEF Line
<1>8. Address(k, CellAt(k, a)) = Origin(k) + row * s + col
  BY <1>6, <1>7 DEF Address, s
<1>9. row * s \in Int
  BY <1>1, <1>4
<1>10. Origin(k) + row * s + col = a
  BY <1>1, <1>9 DEF col
<1> QED
  BY <1>6, <1>7, <1>8, <1>10

LEMMA BlocksApart ==
    ASSUME Whole16, NEW k \in 0 .. Blocks - 1, NEW m \in 0 .. Blocks - 1, k # m, NEW c \in Cells
    PROVE  ~(CellAt(m, Address(k, c)) >= 0)
<1> SUFFICES ASSUME CellAt(m, Address(k, c)) >= 0 PROVE FALSE
  OBVIOUS
<1> DEFINE a == Address(k, c)
           d == CellAt(m, a)
<1>1. a \in Int
  BY AddressNat DEF Whole16
<1>2. d \in Cells /\ Address(m, d) = a
  <2> HIDE DEF a
  <2>1. CellAt(m, a) >= 0
    BY DEF a
  <2> QED
    BY <1>1, <2>1, AddressBack
<1> HIDE DEF d
<1>3. k = m
  BY <1>2, AddressOnce
<1> QED
  BY <1>3

-----------------------------------------------------------------------------
(* How close a picture comes back.                                         *)

SampleBlock(k)  == [c \in Cells |-> buf[Address(k, c)] - 128]
EncodedBlock(k) == quant_encode(dct8x8(SampleBlock(k)), Table(k))
Stored(k)       == \A c \in Cells : dbuf[Address(k, c)] = Decoded(k)[c]

\* Every block in the stream is that of the encoder's planes, and every block
\* of the decoder's planes that of the stream.
CInv ==
    /\ phase # "convert" => buf \in [0 .. Buffer - 1 -> Byte]
    /\ \A k \in 0 .. Len(stream) - 1 : stream[k + 1] = EncodedBlock(k)
    /\ phase = "decode" => \A k \in 0 .. n - 1 : Stored(k)
    /\ phase = "show" => \A k \in 0 .. Blocks - 1 : Stored(k)

LEMMA SameBlocks ==
    ASSUME UNCHANGED <<width, height, quality>>
    PROVE  /\ Blocks' = Blocks /\ Buffer' = Buffer
           /\ \A k, c : Address(k, c)' = Address(k, c)
           /\ \A k : Table(k)' = Table(k)
           /\ UNCHANGED buf => \A k : EncodedBlock(k)' = EncodedBlock(k)
           /\ UNCHANGED stream => \A k : Decoded(k)' = Decoded(k)
<1>1. /\ Blocks' = Blocks /\ Buffer' = Buffer
      /\ \A k, c : Address(k, c)' = Address(k, c)
  BY Steady
<1>2. \A k : Table(k)' = Table(k)
  BY DEF Table, PlaneOf, BlocksBefore, Across, Down
<1>3. UNCHANGED buf => \A k : EncodedBlock(k)' = EncodedBlock(k)
  BY <1>1, <1>2 DEF EncodedBlock, SampleBlock
<1>4. UNCHANGED stream => \A k : Decoded(k)' = Decoded(k)
  BY <1>2 DEF Decoded
<1> QED
  BY <1>1, <1>2, <1>3, <1>4

LEMMA SameStored ==
    ASSUME UNCHANGED <<width, height, quality, stream, dbuf>>
    PROVE  \A k : Stored(k)' = Stored(k)
<1>1. /\ \A k, c : Address(k, c)' = Address(k, c)
      /\ \A k : Decoded(k)' = Decoded(k)
  BY SameBlocks
<1> QED
  BY <1>1 DEF Stored

LEMMA CInvInit == Init => CInv
  BY DEF Init, CInv

LEMMA EncodeBlockStores == PInv /\ WInv /\ CInv /\ EncodeBlock => CInv'
<1> SUFFICES ASSUME PInv, WInv, CInv, EncodeBlock PROVE CInv'
  OBVIOUS
<1>1. /\ phase = "encode" /\ UNCHANGED <<width, height, quality, buf, dbuf>>
      /\ stream' = Append(stream, EncodedBlock(n))
      /\ \/ n + 1 = Blocks /\ phase' = "decode" /\ n' = 0
         \/ phase' = "encode"
  BY WholeInside DEF EncodeBlock, WInv, fixed, EncodedBlock, SampleBlock
<1>2. /\ Buffer' = Buffer /\ \A k : EncodedBlock(k)' = EncodedBlock(k)
  BY <1>1, SameBlocks
<1> DEFINE S == [Cells -> Within(2048)]
<1>3. stream \in Seq(S) /\ Len(stream) = n /\ n \in Nat
  BY <1>1, BlocksInOrder DEF PInv
<1> HIDE DEF S
<1>4. ASSUME NEW k \in 0 .. Len(stream') - 1 PROVE stream'[k + 1] = EncodedBlock(k)
  <2> DEFINE e == EncodedBlock(n)
  <2>1. stream' = Append(stream, e)
    BY <1>1
  <2> HIDE DEF e
  <2>2. Len(stream') = n + 1 /\ stream'[n + 1] = e
        /\ \A i \in 1 .. n : stream'[i] = stream[i]
    BY <1>3, <2>1
  <2>3. CASE k = n
    BY <2>2, <2>3 DEF e
  <2>4. CASE k # n
    <3>1. k \in 0 .. Len(stream) - 1 /\ k + 1 \in 1 .. n
      BY <1>3, <2>2, <2>4
    <3> QED
      BY <2>2, <3>1 DEF CInv
  <2> QED
    BY <2>3, <2>4
<1>5. \A k \in 0 .. Len(stream') - 1 : stream'[k + 1] = EncodedBlock(k)'
  BY <1>2, <1>4
<1>6. buf' \in [0 .. Buffer' - 1 -> Byte]
  BY <1>1, <1>2 DEF CInv
<1>7. phase' # "show"
  BY <1>1
<1>8. phase' = "decode" => \A k \in 0 .. n' - 1 : FALSE
  BY <1>1
<1> QED
  BY <1>5, <1>6, <1>7, <1>8 DEF CInv

LEMMA DecodeBlockStores == PInv /\ WInv /\ CInv /\ DecodeBlock => CInv'
<1> SUFFICES ASSUME PInv, WInv, CInv, DecodeBlock PROVE CInv'
  OBVIOUS
<1> DEFINE b == Decoded(n)
<1>1. /\ phase = "decode" /\ UNCHANGED <<width, height, quality, buf, stream>>
      /\ dbuf' = [a \in DOMAIN dbuf |-> IF CellAt(n, a) >= 0 THEN b[CellAt(n, a)] ELSE dbuf[a]]
      /\ \/ n + 1 = Blocks /\ phase' = "show" /\ n' = 0
         \/ n' = n + 1 /\ phase' = "decode"
  BY WholeInside DEF DecodeBlock, WInv, fixed
<1>2. /\ Buffer' = Buffer /\ Blocks' = Blocks
      /\ \A k : EncodedBlock(k)' = EncodedBlock(k)
      /\ \A k : Decoded(k)' = Decoded(k)
      /\ \A k, c : Address(k, c)' = Address(k, c)
  BY <1>1, SameBlocks
<1>3. DOMAIN dbuf = 0 .. Buffer - 1 /\ n \in 0 .. Blocks - 1 /\ Blocks \in Nat /\ Whole16
  BY BlocksInOrder DEF PInv, WInv
<1> HIDE DEF b
<1>4. ASSUME NEW k \in 0 .. n, NEW c \in Cells
      PROVE  dbuf'[Address(k, c)] = Decoded(k)[c]
  <2> DEFINE a == Address(k, c)
  <2>1. k \in 0 .. Blocks - 1
    BY <1>3
  <2>2. a \in 0 .. Buffer - 1
    BY <1>3, <2>1, AllInside
  <2>3. dbuf'[a] = IF CellAt(n, a) >= 0 THEN b[CellAt(n, a)] ELSE dbuf[a]
    BY <1>1, <1>3, <2>2
  <2>4. CASE k = n
    <3>1. CellAt(n, a) = c
      BY <1>3, <2>1, <2>4, CellBack
    <3>2. c >= 0
      BY DEF Cells
    <3> QED
      BY <2>3, <2>4, <3>1, <3>2 DEF b
  <2>5. CASE k # n
    <3>1. ~(CellAt(n, a) >= 0)
      BY <1>3, <2>1, <2>5, BlocksApart
    <3>2. k \in 0 .. n - 1
      BY <1>3, <2>5
    <3>3. dbuf[a] = Decoded(k)[c]
      BY <1>1, <3>2 DEF CInv, Stored
    <3> QED
      BY <2>3, <3>1, <3>3
  <2> QED
    BY <2>4, <2>5
<1>5. \A k \in 0 .. n : Stored(k)'
  BY <1>2, <1>4 DEF Stored
<1>6. /\ \A k \in 0 .. Len(stream') - 1 : stream'[k + 1] = EncodedBlock(k)'
      /\ buf' \in [0 .. Buffer' - 1 -> Byte]
  BY <1>1, <1>2 DEF CInv
<1>7. /\ phase' = "decode" => \A k \in 0 .. n' - 1 : k \in 0 .. n
      /\ phase' = "show" => \A k \in 0 .. Blocks' - 1 : k \in 0 .. n
  BY <1>1, <1>2, <1>3
<1>8. phase' # "convert"
  BY <1>1
<1> QED
  BY <1>5, <1>6, <1>7 DEF CInv

LEMMA CInvStep == PInv /\ WInv /\ CInv /\ [Next]_ivars => CInv'
<1> SUFFICES ASSUME PInv, WInv, CInv, [Next]_ivars PROVE CInv'
  OBVIOUS
<1>1. CASE Convert
  <2>1. /\ UNCHANGED <<width, height, quality, pic, stream>>
        /\ phase = "convert" /\ phase' = "encode"
        /\ buf' = ToPlanes(Fmt, width, height, pic)
    BY <1>1 DEF Convert, fixed
  <2>2. Len(stream) = 0
    BY <2>1 DEF PInv
  <2>3. Buffer' = Buffer
    BY <2>1, SameBlocks
  <2>4. buf' \in [0 .. Buffer - 1 -> Byte]
    BY <2>1, Converted DEF PInv
  <2> QED
    BY <2>1, <2>2, <2>3, <2>4 DEF CInv
<1>2. CASE EncodeBlock
  BY <1>2, EncodeBlockStores
<1>3. CASE DecodeBlock
  BY <1>3, DecodeBlockStores
<1>4. CASE Show
  <2>1. /\ UNCHANGED <<width, height, quality, buf, stream, dbuf>>
        /\ phase = "show" /\ phase' = "done"
    BY <1>4 DEF Show, fixed
  <2>2. Buffer' = Buffer /\ \A k : EncodedBlock(k)' = EncodedBlock(k)
    BY <2>1, SameBlocks
  <2> QED
    BY <2>1, <2>2 DEF CInv
<1>5. CASE UNCHANGED ivars
  <2>1. UNCHANGED <<width, height, quality, buf, stream, dbuf, n, phase>>
    BY <1>5 DEF ivars, fixed
  <2>2. /\ Buffer' = Buffer /\ Blocks' = Blocks
        /\ \A k : EncodedBlock(k)' = EncodedBlock(k)
    BY <2>1, SameBlocks
  <2>3. \A k : Stored(k)' = Stored(k)
    BY <2>1, SameStored
  <2> QED
    BY <2>1, <2>2, <2>3 DEF CInv
<1> QED
  BY <1>1, <1>2, <1>3, <1>4, <1>5 DEF Next

LEMMA StoredIsClose ==
    ASSUME PInv, WInv, CInv, RoundOff >= 15
    PROVE  CloseToTheOriginal
<1> SUFFICES ASSUME phase = "show", NEW k \in 0 .. Blocks - 1
             PROVE  4 * Energy([c \in Cells |-> buf[Address(k, c)] - dbuf[Address(k, c)]])
                      <= Energy([p \in Cells |-> Table(k)[Place[p]] \div 2 + RoundOff])
  BY DEF CloseToTheOriginal
<1> DEFINE b == SampleBlock(k)
           t == Table(k)
           i == idct8x8(quant_decode(quant_encode(dct8x8(b), t), t))
           x == [p \in Cells |-> (b[p] + 128) - Clip(i[p] + 128, 0, 255)]
           h == [p \in Cells |-> t[Place[p]] \div 2 + RoundOff]
<1>1. ASSUME NEW c \in Cells
      PROVE  /\ b[c] = buf[Address(k, c)] - 128 /\ buf[Address(k, c)] \in Byte
             /\ b[c] \in Within(128)
  <2>1. Address(k, c) \in 0 .. Buffer - 1
    BY AllInside DEF WInv
  <2>2. buf[Address(k, c)] \in Byte
    BY <2>1 DEF CInv
  <2> QED
    BY <2>2 DEF SampleBlock, Byte, Within
<1>2. b \in [Cells -> Within(128)] /\ \A c \in Cells : b[c] + 128 = buf[Address(k, c)]
  <2>1. \A y \in Byte : (y - 128) + 128 = y
    BY DEF Byte
  <2> QED
    BY <1>1, <2>1 DEF SampleBlock
<1>3. t \in [Cells -> 1 .. 255]
  BY TableSteps DEF PInv
<1>4. RoundOff \in Nat
  BY PictureAssumption
<1>5. stream[k + 1] = quant_encode(dct8x8(b), t)
  <2>1. Len(stream) = Blocks
    BY DEF PInv
  <2>2. k \in 0 .. Len(stream) - 1
    BY <2>1
  <2> QED
    BY <2>2 DEF CInv, EncodedBlock
<1>6. \A c \in Cells : dbuf[Address(k, c)] = Clip(i[c] + 128, 0, 255)
  BY <1>5 DEF CInv, Stored, Decoded
<1>7. [c \in Cells |-> buf[Address(k, c)] - dbuf[Address(k, c)]] = [c \in Cells |-> x[c]]
  <2> HIDE DEF i, b
  <2> QED
    BY <1>2, <1>6
<1>8. [p \in Cells |-> t[Place[p]] \div 2 + RoundOff] = [p \in Cells |-> h[p]]
  OBVIOUS
<1>9. 4 * Energy([c \in Cells |-> x[c]]) <= Energy([p \in Cells |-> h[p]])
  <2>1. \A p \in Cells : b[p] + 128 \in Byte
    BY <1>1, <1>2
  <2> HIDE DEF b, t
  <2> QED
    BY <1>2, <1>3, <1>4, <2>1, BlockReturns DEF i
<1> HIDE DEF x, h
<1> QED
  BY <1>7, <1>8, <1>9

(* A picture of whole macroblocks comes back block by block as close as    *)
(* the quantiser allows, at every quality, once RoundOff makes up for the  *)
(* worst that the integer arithmetic of both passes can add up to: no      *)
(* other stage of encoder.c and decoder.c loses anything.                  *)
THEOREM QuantiserLosesAlone ==
    ASSUME MacroBlocks, RoundOff >= 15
    PROVE  Spec => []CloseToTheOriginal
<1>1. PInv /\ WInv /\ CInv => CloseToTheOriginal
  BY StoredIsClose
<1> QED
  BY <1>1, WInvInit, WInvStep, CInvInit, CInvStep, PictureInvariant, PTL DEF Spec
===============================================================================
