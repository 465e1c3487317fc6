------------------------------ MODULE Bitstream ------------------------------
(***************************************************************************)
(* bitstream.h.  A BSWriter is the sequence of the bits written so far, a  *)
(* BSReader a sequence of bits and the number of them read: byte_pos and   *)
(* bit_pos are that number divided by the bits of a byte.  The buffer is   *)
(* zeroed at first, so that bits skipped by an alignment are zero.         *)
(***************************************************************************)
EXTENDS Integers, Sequences

CONSTANT ByteBits       \* 8

ASSUME ByteAssumption == ByteBits \in Nat \ {0}

\* bsw_write_bits: the n low bits of val, the highest first.
BitsOf(val, n) == [k \in 1 .. n |-> (val \div 2 ^ (n - k)) % 2]

\* bsr_read_bits: the value of the n bits behind pos.
ValueAt(bits, pos, n) ==
    LET V[k \in 0 .. n] == IF k = 0 THEN 0 ELSE 2 * V[k - 1] + bits[pos + k]
    IN  V[n]

\* bsw_align, bsr_align: the bits up to the next byte, none at the start of one.
Padding(pos)== (ByteBits - (pos % ByteBits)) % ByteBits
=============================================================================
