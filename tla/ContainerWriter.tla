--------------------------- MODULE ContainerWriter ---------------------------
(***************************************************************************)
(* The writing half of container.c, in the order its callers drive it      *)
(* (encoder.c, audio.c, capture.m, crappr.m): encoder_open, an optional    *)
(* audio stream info, frames on either stream, encoder_close.              *)
(*                                                                         *)
(* The output goes through stdio: `file' is everything fwrite accepted,    *)
(* the first `synced' cells are known to be on disk, and a crash keeps any *)
(* prefix at least that long.  Short writes, failed allocations and failed *)
(* flushes are faults; MaxFaults bounds how many one behaviour may meet.   *)
(***************************************************************************)
EXTENDS CrapFormat

CONSTANTS
    FirstCap,     \* entries of the first index allocation (1024 in the code)
    MaxFrames,    \* bound: frames a behaviour may try to write
    MaxFaults,    \* bound: faults a behaviour may meet
    KillAfter     \* bound: the numbers of faults after which the process may
                  \*   be killed while writing ({}: it is not)

ASSUME WriterAssumption ==
    /\ FirstCap \in Nat \ {0}
    /\ MaxFrames \in Nat /\ MaxFaults \in Nat
    /\ KillAfter \subseteq Nat

VARIABLES
    file,         \* cells accepted by stdio; after the end, the disk image
    synced,       \* how many of them have certainly reached the disk
    rewound,      \* the final header sits in the buffer, positioned at 0
    header,       \* ctx->header: stream_count, duration_us, index_offset
    streams,      \* ctx->streams[].stream_type
    index,        \* ctx->index[0 .. index_count - 1]
    index_cap,    \* ctx->index_cap
    last_pts,     \* ctx->last_pts
    wst,          \* where the callers are in the life of the file
    ret,          \* the last return code
    attempts,     \* history: the frame of each index entry, and whether
                  \*   its crap_write_frame returned CRAP_OK
    faults        \* faults met so far

wvars == <<file, synced, rewound, header, streams, index, index_cap,
           last_pts, wst, ret, attempts, faults>>

WInit ==
    /\ file = <<>> /\ synced = 0 /\ rewound = FALSE
    /\ header = [stream_count |-> 0, duration_us |-> 0, index_offset |-> 0]
    /\ streams = [s \in StreamIds |-> "none"]
    /\ index = <<>> /\ index_cap = 0 /\ last_pts = 0
    /\ wst = "unopened" /\ ret = "ok"
    /\ attempts = <<>> /\ faults = 0

-----------------------------------------------------------------------------
(* Write `cells' with fwrite: all of them, or (a fault) only the first k.  *)
PutsSome(cells, k) ==
    /\ k \in 0 .. Len(cells)
    /\ faults + (IF k < Len(cells) THEN 1 ELSE 0) <= MaxFaults
    /\ faults' = faults + (IF k < Len(cells) THEN 1 ELSE 0)
    /\ file' = file \o SubSeq(cells, 1, k)
    /\ ret' = IF k < Len(cells) THEN "io" ELSE "ok"

Fault == faults < MaxFaults /\ faults' = faults + 1

\* Mutant: the stream's number is added to stream_count.
RegisterStreamAdds(sid, type) ==
    /\ streams' = [streams EXCEPT ![sid] = type]
    /\ header' = [header EXCEPT !.stream_count = @ + sid + 1]

\* ctx->streams[id] = *si, and stream_count covers it.
RegisterStream(sid, type) ==
    /\ streams' = [streams EXCEPT ![sid] = type]
    /\ header' = [header EXCEPT !.stream_count =
                      IF sid >= @ THEN sid + 1 ELSE @]

(* encoder_open: crap_open_write puts the provisional header, then the     *)
(* video stream info.  On a short write it returns the error; the file is  *)
(* closed by crap_open_write itself or, later, by the exit of the process. *)
EncoderOpen(k) ==
    LET cells == <<FileHeader(header)>> \o StreamInfoChunk(0, "video")
    IN  /\ wst = "unopened"
        /\ PutsSome(cells, k)
        /\ RegisterStream(0, "video")
        /\ wst' = IF k < Len(cells) THEN "closing" ELSE "open"
        /\ UNCHANGED <<synced, rewound, index, index_cap, last_pts, attempts>>

(* The audio stream info.  craprec gives up when it fails, crappr ignores  *)
(* the result: either way the writer is still open.                        *)
WriteStreamInfo(sid, type, k) ==
    /\ wst = "open" /\ attempts = <<>>
    /\ sid < MaxStreams /\ streams[sid] = "none"
    /\ RegisterStream(sid, type)
    /\ PutsSome(StreamInfoChunk(sid, type), k)
    /\ UNCHANGED <<synced, rewound, index, index_cap, last_pts, wst, attempts>>

-----------------------------------------------------------------------------
(* crap_write_frame.                                                       *)

IndexFull == Len(index) = index_cap
GrownCap  == IF ~IndexFull THEN index_cap
             ELSE IF index_cap = 0 THEN FirstCap ELSE index_cap * 2

\* Mutant: the offset of the payload, not of the chunk, is recorded.
RecordEntryOffPayload(f) ==
    /\ wst = "open" /\ Len(index) < MaxFrames
    /\ streams[f.sid] # "none" /\ f.n = Len(index) + 1
    /\ index_cap' = GrownCap
    /\ index' = Append(index, IndexEntry(f, Len(file) + 1))
    /\ last_pts' = IF f.pts > last_pts THEN f.pts ELSE last_pts
    /\ UNCHANGED <<synced, rewound, header, streams, wst>>

\* Mutant: the timestamp of the latest frame replaces the largest one.
RecordEntryLatestPts(f) ==
    /\ wst = "open" /\ Len(index) < MaxFrames
    /\ streams[f.sid] # "none" /\ f.n = Len(index) + 1
    /\ index_cap' = GrownCap
    /\ index' = Append(index, IndexEntry(f, Len(file)))
    /\ last_pts' = f.pts
    /\ UNCHANGED <<synced, rewound, header, streams, wst>>

\* The entry is recorded, and last_pts raised, before anything is written.
RecordEntry(f) ==
    /\ wst = "open" /\ Len(index) < MaxFrames
    /\ streams[f.sid] # "none" /\ f.n = Len(index) + 1
    /\ index_cap' = GrownCap
    /\ index' = Append(index, IndexEntry(f, Len(file)))
    /\ last_pts' = IF f.pts > last_pts THEN f.pts ELSE last_pts
    /\ UNCHANGED <<synced, rewound, header, streams, wst>>

WriteFrame(f, k) ==
    /\ RecordEntry(f)
    /\ PutsSome(FrameChunk(f), k)
    /\ attempts' = Append(attempts, [f |-> f, ok |-> k = Len(FrameChunk(f))])

\* malloc of the payload fails after the entry was recorded.
WriteFrameNoPayload(f) ==
    /\ RecordEntry(f)
    /\ Fault /\ ret' = "oom"
    /\ attempts' = Append(attempts, [f |-> f, ok |-> FALSE])
    /\ UNCHANGED file

\* realloc of the index fails: nothing was changed yet.
WriteFrameNoRoom ==
    /\ wst = "open" /\ Len(index) < MaxFrames /\ IndexFull
    /\ Fault /\ ret' = "oom"
    /\ UNCHANGED <<file, synced, rewound, header, streams, index, index_cap,
                   last_pts, wst, attempts>>

-----------------------------------------------------------------------------
(* encoder_close: crap_write_index, then the final header, then crap_close. *)

\* Mutant: the result of the index write is ignored.
WriteIndexUnchecked(k) ==
    /\ wst = "open" /\ index # <<>>
    /\ header' = [header EXCEPT !.index_offset = Len(file)]
    /\ PutsSome(IndexChunk(index), k)
    /\ wst' = "indexed"
    /\ UNCHANGED <<synced, rewound, streams, index, index_cap, last_pts,
                   attempts>>

WriteIndex(k) ==
    /\ wst = "open" /\ index # <<>>
    /\ header' = [header EXCEPT !.index_offset = Len(file)]
    /\ PutsSome(IndexChunk(index), k)
    /\ wst' = IF k < Len(IndexChunk(index)) THEN "closing" ELSE "indexed"
    /\ UNCHANGED <<synced, rewound, streams, index, index_cap, last_pts,
                   attempts>>

WriteIndexNoPayload ==
    /\ wst = "open" /\ index # <<>>
    /\ header' = [header EXCEPT !.index_offset = Len(file)]
    /\ Fault /\ ret' = "oom" /\ wst' = "closing"
    /\ UNCHANGED <<file, synced, rewound, streams, index, index_cap, last_pts,
                   attempts>>

WriteNoIndex ==
    /\ wst = "open" /\ index = <<>>
    /\ ret' = "ok" /\ wst' = "indexed"
    /\ UNCHANGED <<file, synced, rewound, header, streams, index, index_cap,
                   last_pts, attempts, faults>>

\* rewind flushes everything and seeks to 0; the header is then buffered.
FinishHeader ==
    /\ wst = "indexed"
    /\ header' = [header EXCEPT !.duration_us = last_pts]
    /\ synced' = Len(file) /\ rewound' = TRUE
    /\ ret' = "ok" /\ wst' = "closing"
    /\ UNCHANGED <<file, streams, index, index_cap, last_pts, attempts, faults>>

\* rewind cannot flush (only the first m cells get out), so it does not seek
\* either; nothing looks at that, and the header lands at the end.
FinishHeaderNoFlush(m) ==
    /\ wst = "indexed"
    /\ m \in synced .. Len(file) - 1
    /\ header' = [header EXCEPT !.duration_us = last_pts]
    /\ file' = Append(file, FileHeader(header'))
    /\ synced' = m
    /\ Fault /\ ret' = "ok" /\ wst' = "closing"
    /\ UNCHANGED <<rewound, streams, index, index_cap, last_pts, attempts>>

\* fclose: the buffer reaches the disk, the header in its place.
Fclose ==
    /\ wst = "closing"
    /\ file' = IF rewound THEN [file EXCEPT ![1] = FileHeader(header)] ELSE file
    /\ synced' = Len(file) /\ rewound' = FALSE
    /\ wst' = "closed"
    /\ UNCHANGED <<header, streams, index, index_cap, last_pts, ret, attempts,
                   faults>>

\* fclose whose flush fails after m cells: the rest is lost, silently.
FcloseNoFlush(m) ==
    /\ wst = "closing"
    /\ m \in synced .. Len(file)
    /\ rewound \/ m < Len(file)
    /\ Fault
    /\ file' = SubSeq(file, 1, m) /\ synced' = m /\ rewound' = FALSE
    /\ wst' = "closed"
    /\ UNCHANGED <<header, streams, index, index_cap, last_pts, ret, attempts>>

\* The process is killed: the disk keeps some prefix of what was written, and
\* the final header if that was in the buffer and got out (hdr).
Crash(m, hdr) ==
    /\ faults \in KillAfter /\ wst \in {"open", "indexed", "closing"}
    /\ m \in synced .. Len(file)
    /\ hdr => rewound /\ m > 0
    /\ file' = IF hdr THEN [SubSeq(file, 1, m) EXCEPT ![1] = FileHeader(header)]
               ELSE SubSeq(file, 1, m)
    /\ synced' = m /\ rewound' = FALSE
    /\ wst' = "crashed"
    /\ UNCHANGED <<header, streams, index, index_cap, last_pts, ret, attempts,
                   faults>>

-----------------------------------------------------------------------------
\* Audio frames are keyframes all (audio_write_frame).
NewFrames ==
    {f \in [sid: StreamIds, ftype: FrameTypes, pts: Pts, size: Sizes,
            n: {Len(index) + 1}] : f.sid # 0 => f.ftype = "I"}
Torn(c)   == 0 .. Len(c)       \* how much of a write may get out

WNext ==
    \/ \E k \in 0 .. 4 : EncoderOpen(k)
    \/ \E sid \in StreamIds \ {0}, k \in 0 .. 3 :
           WriteStreamInfo(sid, "audio", k)
    \/ \E f \in NewFrames : \E k \in Torn(FrameChunk(f)) : WriteFrame(f, k)
    \/ \E f \in NewFrames : WriteFrameNoPayload(f)
    \/ WriteFrameNoRoom
    \/ \E k \in Torn(IndexChunk(index)) : WriteIndex(k)
    \/ WriteIndexNoPayload
    \/ WriteNoIndex
    \/ FinishHeader
    \/ \E m \in Torn(file) : FinishHeaderNoFlush(m)
    \/ Fclose
    \/ \E m \in Torn(file) : FcloseNoFlush(m)
    \/ \E m \in Torn(file), hdr \in BOOLEAN : Crash(m, hdr)

WSpec == WInit /\ [][WNext]_wvars

-----------------------------------------------------------------------------
(* Properties. *)

Live == wst \notin {"closed", "crashed"}

HeaderType == [stream_count : 0 .. MaxStreams, duration_us : Nat,
               index_offset : Nat]

(* The cells, counters and codes of the writer: one index entry per attempt, *)
(* a stream count within CRAP_MAX_STREAMS, never more on disk than written. *)
WTypeOK ==
    /\ file \in Seq(Cell)
    /\ synced \in 0 .. Len(file) /\ rewound \in BOOLEAN
    /\ header \in HeaderType
    /\ streams \in [StreamIds -> StreamTypes]
    /\ index \in Seq(EntryCell)
    /\ attempts \in Seq([f: Frame, ok: BOOLEAN])
    /\ Len(index) = Len(attempts) /\ index_cap \in Nat /\ last_pts \in Nat
    /\ wst \in {"unopened", "open", "indexed", "closing", "closed", "crashed"}
    /\ ret \in {"ok", "io", "oom"} /\ faults \in 0 .. MaxFaults

(* A frame whose crap_write_frame returned CRAP_OK stays where its index   *)
(* entry says, whatever failed before or after it: no later chunk, torn    *)
(* write, index or final header ever lands on it, so that crap_seek_pts    *)
(* through that entry reaches a well-formed FRMD chunk (or the end of a    *)
(* truncated file), never the middle of something else.                    *)
GoodEntriesPointAtFrames ==
    \A i \in 1 .. Len(index) :
        LET cells == FrameChunk(attempts[i].f)
        IN  attempts[i].ok /\ index[i].off + Len(cells) <= Len(file)
                => HoldsAt(file, index[i].off, cells)

(* A file whose header names an index has that index, whole, with its CRC, *)
(* at that place, at every instant and after every crash or failed flush:  *)
(* encoder_close relies on rewind flushing the data before the header that *)
(* refers to it can reach the disk.  Otherwise crap_open_read would refuse *)
(* a recording whose frames are all there.                                 *)
HeaderImpliesIndex ==
    file # <<>> /\ file[1].index_offset # 0
        => HoldsAt(file, file[1].index_offset, IndexChunk(index))

(* Once a final header is on disk its duration covers every frame a reader *)
(* can find in the file, although audio and video frames are interleaved   *)
(* by two queues and arrive with timestamps out of order.                  *)
DurationCoversFrames ==
    file # <<>> /\ file[1].index_offset # 0
        => \A p \in 0 .. Len(file) - 1 :
               CellAt(file, p, "fh") => file[p + 1].pts <= file[1].duration_us

(* encoder.h:46-47: encoder_close "finalise[s] and close[s] the file /     *)
(* writes updated header with correct offsets and CRC"; its callers are    *)
(* told so by CRAP_OK.                                                     *)
CloseOkMeansHeaderUpdated ==
    wst = "closed" /\ ret = "ok" => file # <<>> /\ file[1] = FileHeader(header)

-----------------------------------------------------------------------------
(* The inductive invariant behind GoodEntriesPointAtFrames,                *)
(* HeaderImpliesIndex and DurationCoversFrames.                            *)

\* Before the open there is nothing; behind a successful one, a header.
Opened ==
    /\ wst = "unopened" => file = <<>> /\ index = <<>>
    /\ wst \in {"unopened", "open"} => header.index_offset = 0
    /\ wst \in {"open", "indexed"} => file # <<>>

\* While it is written, every good entry's chunk is behind the file header.
ChunksInPlace ==
    Live => \A i \in 1 .. Len(index) :
               attempts[i].ok => /\ index[i].off >= 1
                                 /\ HoldsAt(file, index[i].off,
                                            FrameChunk(attempts[i].f))

\* The header on disk names no index until the file is closed.
ProvisionalHeader == Live /\ file # <<>> => file[1].index_offset = 0

IndexHeld ==
    header.index_offset # 0 =>
        /\ header.index_offset >= 1
        /\ HoldsAt(file, header.index_offset, IndexChunk(index))

IndexReady == wst = "indexed" => IndexHeld

\* A final header in the buffer has everything it refers to on the disk.
FinalHeaderOrdered ==
    rewound => wst = "closing" /\ synced = Len(file) /\ file # <<>> /\ IndexHeld

\* Every frame header that got out, torn chunks included, is accounted for.
Timed(cells, t) ==
    \A j \in 1 .. Len(cells) : cells[j].k = "fh" => cells[j].pts <= t
FramesTimed   == Timed(file, last_pts)
FinalDuration == rewound => header.duration_us = last_pts

WInv == /\ WTypeOK /\ Opened /\ ChunksInPlace /\ ProvisionalHeader
        /\ IndexReady /\ FinalHeaderOrdered /\ FramesTimed /\ FinalDuration
        /\ GoodEntriesPointAtFrames /\ HeaderImpliesIndex
        /\ DurationCoversFrames
=============================================================================
