------------------------------- MODULE Planes -------------------------------
(***************************************************************************)
(* frame.h, frame.c and colorspace.c: how the planes of a frame lie in its *)
(* buffer, and how a picture of packed RGB gets into them and out again.   *)
(* A buffer is a function on its addresses.                                *)
(***************************************************************************)
EXTENDS Integers, Sequences

Formats == {"RGB24", "RGBA32", "YUV420P", "YUV422P", "YUV444P"}
Planar  == {"YUV420P", "YUV422P", "YUV444P"}

\* Pixels per chroma sample, across and down.
StepX(fmt, p) == IF p = 0 \/ fmt = "YUV444P" THEN 1 ELSE 2
StepY(fmt, p) == IF p = 0 \/ fmt # "YUV420P" THEN 1 ELSE 2

\* pixfmt_plane_dims; the stride of a plane is its width.
PlaneWidth(fmt, w, p)   == (w + StepX(fmt, p) - 1) \div StepX(fmt, p)
PlaneHeight(fmt, h, p)  == (h + StepY(fmt, p) - 1) \div StepY(fmt, p)
PlaneSize(fmt, w, h, p) == PlaneWidth(fmt, w, p) * PlaneHeight(fmt, h, p)

Half(n) == (n + 1) \div 2

\* frame_buffer_size
BufferSize(fmt, w, h) ==
    CASE fmt = "RGB24"   -> w * h * 3
      [] fmt = "RGBA32"  -> w * h * 4
      [] fmt = "YUV420P" -> w * h + 2 * Half(w) * Half(h)
      [] fmt = "YUV422P" -> w * h + 2 * Half(w) * h
      [] fmt = "YUV444P" -> w * h * 3

\* frame_attach_buffer: the planes follow each other.
PlaneStart(fmt, w, h, p) ==
    IF p = 0 THEN 0
    ELSE PlaneSize(fmt, w, h, 0) + (p - 1) * PlaneSize(fmt, w, h, 1)

-----------------------------------------------------------------------------
(* colorspace.c, in 16.16 fixed point. *)

\* Mutant: clamped at one end.
ClampAbove(v) == IF v > 255 THEN 255 ELSE v

Clamp(v)  == IF v < 0 THEN 0 ELSE IF v > 255 THEN 255 ELSE v
Fixed(v)  == (v + 32768) \div 65536

\* rgb_to_ycbcr_pixel
Luma(r, g, b) == Clamp(Fixed(19595 * r + 38470 * g + 7471 * b))
Cb(r, g, b)   == Clamp(128 + Fixed(-11056 * r - 21712 * g + 32768 * b))
Cr(r, g, b)   == Clamp(128 + Fixed(32768 * r - 27440 * g - 5328 * b))
YCbCr(c)      == <<Luma(c[1], c[2], c[3]), Cb(c[1], c[2], c[3]), Cr(c[1], c[2], c[3])>>

\* Mutant: the offset of the chroma samples is left out.
RgbUncentred(y, cb, cr) ==
    << Clamp(Fixed(65536 * y + cr * 91881)),
       Clamp(Fixed(65536 * y - (cb * 22554 + cr * 46802))),
       Clamp(Fixed(65536 * y + cb * 116130)) >>

\* ycbcr_to_rgb_pixel
Rgb(y, cb, cr) ==
    << Clamp(Fixed(65536 * y + (cr - 128) * 91881)),
       Clamp(Fixed(65536 * y - ((cb - 128) * 22554 + (cr - 128) * 46802))),
       Clamp(Fixed(65536 * y + (cb - 128) * 116130)) >>

\* The address of the sample of plane p for the pixel in row y, column x.
SampleAt(fmt, w, h, p, y, x) ==
    PlaneStart(fmt, w, h, p) + (y \div StepY(fmt, p)) * PlaneWidth(fmt, w, p)
        + x \div StepX(fmt, p)

\* rgb24_to_yuv, rgba32_to_yuv: pic[y][x] is the colour of a pixel; a chroma
\* sample is that of the first pixel it stands for.
ToPlanes(fmt, w, h, pic) ==
    [a \in 0 .. BufferSize(fmt, w, h) - 1 |->
        LET p   == CHOOSE q \in 0 .. 2 : /\ PlaneStart(fmt, w, h, q) <= a
                                         /\ a < PlaneStart(fmt, w, h, q) + PlaneSize(fmt, w, h, q)
            off == a - PlaneStart(fmt, w, h, p)
            y   == StepY(fmt, p) * (off \div PlaneWidth(fmt, w, p))
            x   == StepX(fmt, p) * (off % PlaneWidth(fmt, w, p))
        IN  YCbCr(pic[y][x])[p + 1]]

\* yuv_to_rgb24
FromPlanes(fmt, w, h, buf) ==
    [y \in 0 .. h - 1 |-> [x \in 0 .. w - 1 |->
        Rgb(buf[SampleAt(fmt, w, h, 0, y, x)], buf[SampleAt(fmt, w, h, 1, y, x)],
            buf[SampleAt(fmt, w, h, 2, y, x)])]]
=============================================================================
