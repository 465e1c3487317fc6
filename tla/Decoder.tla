------------------------------- MODULE Decoder -------------------------------
(***************************************************************************)
(* decoder.c: decoder_next_frame takes the next video frame from the file, *)
(* a frame from the pool and buffers from the heap, and gives all of them  *)
(* back on every path that does not return the frame.  One step per call   *)
(* that can fail.  The caller may hold several frames.                     *)
(*                                                                         *)
(* The file is a sequence of frames: "video", "audio", "garbled" (a video  *)
(* frame whose bits end inside a block), "large" (a video frame that does  *)
(* not fit the buffer of width * height * 3) or "cut" (the file ends in    *)
(* it).  ContainerReader says how the reader gets from one to the next.    *)
(***************************************************************************)
EXTENDS MemPool, FiniteSets

CONSTANTS
    Files,          \* the recordings to decode (bound)
    MaxFaults       \* bound: allocations that fail

ASSUME DecoderAssumption ==
    /\ MaxFaults \in Nat
    /\ Files \subseteq Seq({"video", "audio", "garbled", "large", "cut"})
    /\ \A t \in Files : \A i \in 1 .. Len(t) : t[i] = "cut" => i = Len(t)

VARIABLES
    file,
    cursor,         \* frames of the file that have been read or skipped
    place,          \* "kept": the reader has read frame by frame; "lost":
                    \*   it may be anywhere in the file; "regained": it was
                    \*   lost and has come upon the beginning of a frame
    pc,             \* where decoder_next_frame is; "out": not in it
    temps,          \* the local buffers that are allocated
    f,              \* the block acquired, Null before and after
    held,           \* the frames the caller holds
    rgb,            \* the blocks whose plane[0].data is an allocated buffer
    delivered,      \* history: the frames returned while the place was kept
    faults          \* history: allocations that failed

dvars == <<file, cursor, place, pc, temps, f, held, rgb, delivered, faults>>
vars  == <<pool, dvars>>

\* decoder_open succeeded.
Init ==
    /\ PoolInit
    /\ file \in Files /\ cursor = 0 /\ place = "kept"
    /\ pc = "out" /\ temps = {} /\ f = Null
    /\ held = {} /\ rgb = {} /\ delivered = <<>> /\ faults = 0

NoMemory == faults < MaxFaults /\ faults' = faults + 1

\* malloc of the local buffer b: on success go on, else leave by Fail.
Malloc(b, next, Fail) ==
    \/ /\ temps' = temps \cup {b} /\ pc' = next /\ UNCHANGED <<faults, f, pool>>
    \/ NoMemory /\ Fail

\* Every way out that returns NULL frees what it allocated.
ReturnNull == pc' = "out" /\ temps' = {} /\ f' = Null

\* Mutant: the frame stays acquired when decoding fails.
GiveBackNothing == ReturnNull /\ UNCHANGED pool

\* Releasing NULL writes through it.
GiveBack == IF f = Null THEN pc' = "crashed" /\ UNCHANGED <<pool, temps, f>>
                        ELSE Release(f) /\ ReturnNull

Call == /\ pc = "out"
        /\ Malloc("compressed", "peek", ReturnNull /\ UNCHANGED pool)
        /\ UNCHANGED <<file, cursor, place, held, rgb, delivered>>

Here == file[cursor + 1]
Lost == place = "lost"

\* crap_peek_frame.  From inside a frame it takes payload for a chunk header:
\* it fails, finds a "frame" with any header, or skips to anywhere, perhaps to
\* the beginning of a frame before or behind.
Peek == /\ pc = "peek"
        /\ \/ /\ Lost \/ cursor = Len(file)
              /\ ReturnNull /\ UNCHANGED <<cursor, place>>
           \/ /\ Lost /\ pc' \in {"skip", "data"}
              /\ UNCHANGED <<cursor, place, temps, f>>
           \/ /\ Lost /\ place' = "regained" /\ cursor' \in 0 .. Len(file)
              /\ UNCHANGED <<pc, temps, f>>
           \/ /\ ~Lost /\ cursor < Len(file)
              /\ pc' = IF Here = "audio" THEN "skip" ELSE "data"
              /\ UNCHANGED <<cursor, place, temps, f>>
        /\ UNCHANGED <<pool, file, held, rgb, delivered, faults>>

\* Mutant: a frame of another stream ends the call.
SkipEnds == /\ pc = "skip"
            /\ ReturnNull /\ cursor' = cursor + 1
            /\ UNCHANGED <<pool, file, place, held, rgb, delivered, faults>>

\* crap_skip_frame
Skip == /\ pc = "skip"
        /\ pc' = "peek" /\ cursor' = IF Lost THEN cursor ELSE cursor + 1
        /\ UNCHANGED <<pool, file, place, temps, f, held, rgb, delivered, faults>>

\* crap_read_frame_data at the beginning of a frame's data.  It leaves the
\* position behind the header if the frame is too large, and before the CRC
\* if it finds no memory.
ReadFrame ==
    \/ /\ Here \in {"video", "garbled"}
       /\ cursor' = cursor + 1 /\ pc' = "acquire"
       /\ UNCHANGED <<place, temps, f, faults>>
    \/ /\ Here = "cut" /\ cursor' = Len(file)
       /\ ReturnNull /\ UNCHANGED <<place, faults>>
    \/ /\ Here = "large" /\ place' = "lost"
       /\ ReturnNull /\ UNCHANGED <<cursor, faults>>
    \/ /\ Here \in {"video", "garbled"} /\ NoMemory /\ place' = "lost"
       /\ ReturnNull /\ UNCHANGED cursor

\* ... and with a header made of payload: any outcome, any bytes.
ReadGarbage ==
    /\ \/ pc' = "acquire" /\ UNCHANGED <<temps, f, faults>>
       \/ ReturnNull /\ (UNCHANGED faults \/ NoMemory)
    /\ UNCHANGED <<cursor, place>>

ReadData ==
    /\ pc = "data"
    /\ IF Lost THEN ReadGarbage ELSE ReadFrame
    /\ UNCHANGED <<pool, file, held, rgb, delivered>>

AcquireFrame ==
    /\ pc = "acquire"
    /\ Acquire(free_head) /\ f' = free_head /\ pc' = "rgb"
    /\ UNCHANGED <<file, cursor, place, temps, held, rgb, delivered, faults>>

MallocRgb ==
    /\ pc = "rgb"
    /\ Malloc("rgb", "init", GiveBack)
    /\ UNCHANGED <<file, cursor, place, held, rgb, delivered>>

\* frame_init and the fields after it, through f.
InitFrame ==
    /\ pc = "init"
    /\ IF f = Null THEN pc' = "crashed" /\ UNCHANGED pool
                   ELSE pc' = "yuv" /\ Overwrite(f)
    /\ UNCHANGED <<file, cursor, place, temps, f, held, rgb, delivered, faults>>

MallocYuv ==
    /\ pc = "yuv"
    /\ Malloc("yuv", "decode", GiveBack)
    /\ UNCHANGED <<file, cursor, place, held, rgb, delivered>>

\* The frame is returned to the caller.
Deliver ==
    /\ ReturnNull /\ held' = held \cup {f} /\ rgb' = rgb \cup {f}
    /\ delivered' = IF place = "kept" THEN Append(delivered, cursor) ELSE delivered
    /\ UNCHANGED pool

\* Mutant: a block that cannot be decoded is shown as it is, as player.c does.
DecodePlanesAnyway ==
    /\ pc = "decode"
    /\ Deliver
    /\ UNCHANGED <<file, cursor, place, faults>>

\* The planes and yuv_to_rgb24, which fails for no frame of this format.
DecodePlanes ==
    /\ pc = "decode"
    /\ \/ /\ ~Lost => file[cursor] = "garbled"
          /\ GiveBack /\ UNCHANGED <<held, rgb, delivered>>
       \/ /\ ~Lost => file[cursor] = "video"
          /\ Deliver
    /\ UNCHANGED <<file, cursor, place, faults>>

\* Mutant: the picture of a released frame is not freed.
ReleaseFrameOnly(b) ==
    /\ pc = "out" /\ b \in held
    /\ held' = held \ {b} /\ Release(b)
    /\ UNCHANGED <<file, cursor, place, pc, temps, f, rgb, delivered, faults>>

\* decoder_release_frame
ReleaseFrame(b) ==
    /\ pc = "out" /\ b \in held
    /\ held' = held \ {b} /\ rgb' = rgb \ {b} /\ Release(b)
    /\ UNCHANGED <<file, cursor, place, pc, temps, f, delivered, faults>>

\* decoder_close, once every frame is back (pool.h:57-58).
Close == /\ pc = "out" /\ held = {}
         /\ pc' = "closed" /\ UNCHANGED <<pool, file, cursor, place, temps, f, held,
                                          rgb, delivered, faults>>

Next == \/ Call \/ Peek \/ Skip \/ ReadData \/ AcquireFrame \/ MallocRgb
        \/ InitFrame \/ MallocYuv \/ DecodePlanes \/ Close
        \/ \E b \in Blocks : ReleaseFrame(b)

Spec == Init /\ [][Next]_vars
-----------------------------------------------------------------------------
DecoderTypeOK ==
    /\ link \in [Blocks -> Blocks \cup {Null, Junk}]
    /\ free_head \in Blocks \cup {Null} /\ free_count \in 0 .. BlockCount
    /\ cursor \in 0 .. Len(file) /\ faults \in 0 .. MaxFaults
    /\ place \in {"kept", "lost", "regained"}
    /\ pc \in {"out", "peek", "skip", "data", "acquire", "rgb", "init", "yuv",
               "decode", "crashed", "closed"}
    /\ temps \subseteq {"compressed", "rgb", "yuv"}
    /\ f \in Blocks \cup {Null} /\ held \subseteq Blocks /\ rgb \subseteq Blocks

FreeBlocks == {free[i] : i \in 1 .. Len(free)}
InHand     == IF f = Null THEN {} ELSE {f}

(* Every block of the pool is free, in the decoder's hand or with the      *)
(* caller, and with one of them only: no path of decoder_next_frame loses  *)
(* a frame of the pool or gives it out twice.                              *)
BlocksHaveOneOwner ==
    /\ FreeListIsWhole
    /\ FreeBlocks \cup InHand \cup held = Blocks
    /\ f \notin held
    /\ FreeBlocks \cap (InHand \cup held) = {}

(* Between two calls the only buffers alive are the pictures of the frames *)
(* the caller holds, whichever allocation or read failed before.           *)
NoBufferLeaks == pc \in {"out", "closed"} => temps = {} /\ f = Null /\ rgb = held

(* The pool gives out NULL, and the decoder writes through it, only when   *)
(* the caller itself holds all DECODER_POOL_FRAMES frames: failed calls    *)
(* use none of them up.                                                    *)
CrashNeedsEveryFrameHeld == pc = "crashed" => held = Blocks

VideoUpTo(n) == {i \in 1 .. n : file[i] = "video"}
Delivered    == {delivered[i] : i \in 1 .. Len(delivered)}

(* As long as the reader keeps its place (no frame was too large for the   *)
(* buffer, no allocation failed inside a read), the caller gets the video  *)
(* frames in the order of the file, each once, whatever other streams and  *)
(* damaged frames lie between them, and a frame that decodes is missing    *)
(* only if an allocation failed.                                           *)
DeliversInOrder ==
    /\ \A i \in 1 .. Len(delivered) - 1 : delivered[i] < delivered[i + 1]
    /\ place = "kept" =>
          /\ Delivered \subseteq VideoUpTo(cursor)
          /\ pc = "out" /\ faults = 0 => Delivered = VideoUpTo(cursor)

\* The end of the file, a damaged frame or one too large: why a call ends.
Excused == \/ Lost \/ cursor' = Len(file)
           \/ \E i \in 1 .. Len(file) :
                 \/ i = cursor' /\ file[i] = "garbled"
                 \/ i = cursor' + 1 /\ file[i] = "large"

(* The callers stop at the first NULL: from the beginning of a frame, and  *)
(* with memory enough, it means the end of the file, a damaged frame or a  *)
(* frame that is too large, never a frame of another stream.               *)
NullMeansEndOrDamage ==
    [][pc # "out" /\ pc' = "out" /\ held' = held /\ faults' = faults => Excused]_vars
=============================================================================
