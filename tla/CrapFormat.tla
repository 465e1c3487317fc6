------------------------------ MODULE CrapFormat ------------------------------
(***************************************************************************)
(* The layout of a .crap file, as container.c writes and parses it.        *)
(*                                                                         *)
(* A file is a sequence of cells.  A cell is one on-disk struct (file      *)
(* header, chunk header, stream info, frame header, index entry, CRC) or   *)
(* one unit of encoded payload, so offset p of the code is "after p        *)
(* cells".  Writes tear at cell boundaries.  A CRC cell holds the payload  *)
(* it was computed over: the checksum is taken to be collision free.       *)
(***************************************************************************)
EXTENDS Integers, Sequences

CONSTANTS
    MaxStreams,   \* CRAP_MAX_STREAMS: the slots of ctx->streams
    FrameTypes,   \* CrapFrameType values in use; "I" marks a keyframe
    Pts,          \* the timestamps frames may carry (bound)
    Sizes         \* the payload sizes, in cells, frames may have (bound)

ASSUME FormatAssumption ==
    /\ MaxStreams \in Nat /\ MaxStreams >= 2
    /\ "I" \in FrameTypes
    /\ Pts \subseteq Nat
    /\ Sizes \subseteq Nat \ {0}

StreamIds   == 0 .. MaxStreams - 1
StreamTypes == {"none", "video", "audio"}
Frame       == [sid: StreamIds, ftype: FrameTypes, pts: Pts, size: Sizes,
                n: Nat \ {0}]         \* n: identity of the encoded payload

-----------------------------------------------------------------------------
(* On-disk structs. *)

FileHeader(h)         == [k |-> "file", stream_count |-> h.stream_count,
                          duration_us |-> h.duration_us,
                          index_offset |-> h.index_offset]
ChunkHeader(id, size) == [k |-> "chunk", id |-> id, size |-> size]
StreamInfo(sid, type) == [k |-> "sinf", sid |-> sid, type |-> type]
FrameHeader(f)        == [k |-> "fh", sid |-> f.sid, ftype |-> f.ftype,
                          pts |-> f.pts, size |-> f.size]
IndexEntry(f, off)    == [k |-> "entry", sid |-> f.sid, ftype |-> f.ftype,
                          pts |-> f.pts, off |-> off]
Data(n, j)            == [k |-> "data", n |-> n, j |-> j]
Count(c)              == [k |-> "count", c |-> c]
Crc(payload)          == [k |-> "crc", of |-> payload]

\* What the cells of a file can be: the structs, and the CRCs over them.
EntryCell == [k: {"entry"}, sid: StreamIds, ftype: FrameTypes, pts: Pts, off: Nat]
BareCell ==
    [k: {"file"}, stream_count: Nat, duration_us: Nat, index_offset: Nat]
    \cup [k: {"chunk"}, id: {"SINF", "FRMD", "FRIX"}, size: Nat]
    \cup [k: {"sinf"}, sid: StreamIds, type: StreamTypes]
    \cup [k: {"fh"}, sid: StreamIds, ftype: FrameTypes, pts: Pts, size: Sizes]
    \cup EntryCell
    \cup [k: {"data"}, n: Nat, j: Nat]
    \cup [k: {"count"}, c: Nat]
Cell == BareCell \cup [k: {"crc"}, of: Seq(BareCell)]

FrameData(f)      == [j \in 1 .. f.size |-> Data(f.n, j)]
FramePayload(f)   == <<FrameHeader(f)>> \o FrameData(f)
IndexPayload(ix)  == <<Count(Len(ix))>> \o ix

\* What write_chunk puts in the stream: header, payload, CRC of the payload.
Chunk(id, payload) ==
    <<ChunkHeader(id, Len(payload))>> \o payload \o <<Crc(payload)>>

StreamInfoChunk(sid, type) == Chunk("SINF", <<StreamInfo(sid, type)>>)
FrameChunk(f)              == Chunk("FRMD", FramePayload(f))
IndexChunk(ix)             == Chunk("FRIX", IndexPayload(ix))

-----------------------------------------------------------------------------
(* Parsing.  p is an offset: the next cell read is img[p + 1].             *)

CellAt(img, p, kind)     == p < Len(img) /\ img[p + 1].k = kind
ChunkAt(img, p, id)      == CellAt(img, p, "chunk") /\ img[p + 1].id = id
HoldsAt(img, p, cells)   == /\ p + Len(cells) <= Len(img)
                            /\ \A j \in 1 .. Len(cells) : img[p + j] = cells[j]
=============================================================================
