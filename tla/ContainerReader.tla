--------------------------- MODULE ContainerReader ---------------------------
(***************************************************************************)
(* The reading half of container.c over a finished file: crap_open_read,   *)
(* the peek / read / skip triple every consumer is written with            *)
(* (decoder_next_frame, player_run, startPlaybackPath, audio_read_frame)   *)
(* and crap_seek_pts.                                                      *)
(*                                                                         *)
(* An offset is a number of cells.  When the code takes the bytes of one   *)
(* struct for another (it resumed inside a torn chunk, or peeked again     *)
(* after a call that failed) rst becomes "lost": whatever it finds,        *)
(* delivers or returns there is arbitrary, rpos means nothing, and only a  *)
(* seek ends it.                                                           *)
(***************************************************************************)
EXTENDS CrapFormat

CONSTANTS
    Buffers,      \* the values of buf_size the callers come with
    NoFrame       \* no frame header / no delivered frame

VARIABLES
    image,        \* the file on disk
    rst,          \* "unopened", "failed" (to open), "ready", "peeked", "ended"
                  \*   (no more frames), "toolarge" or "starved" (a read that
                  \*   failed for its buffer, or for memory), "lost"
    rpos,         \* ftello(ctx->fp)
    loaded,       \* ctx->index[0 .. index_count - 1]
    rstreams,     \* ctx->streams[].stream_type
    rcount,       \* ctx->header.stream_count
    pend,         \* the frame header a peek returned, until it is used up
    got,          \* the last frame delivered by a reader that was not lost:
                  \*   header, payload, stored CRC
    sought,       \* history: the arguments and the success of the last call,
                  \*   if that was crap_seek_pts
    rret          \* the last return code

rvars == <<rst, rpos, loaded, rstreams, rcount, pend, got, sought, rret>>

RInit ==
    /\ rst = "unopened" /\ rpos = 0 /\ loaded = <<>>
    /\ rstreams = [s \in StreamIds |-> "none"] /\ rcount = 0
    /\ pend = NoFrame /\ got = NoFrame /\ sought = NoFrame /\ rret = "ok"

-----------------------------------------------------------------------------
(* crap_open_read.                                                         *)

Min2(a, b) == IF a < b THEN a ELSE b

\* The offset behind the leading run of SINF chunks, as the loop finds it
\* (each one is three cells: header, struct, CRC).
InfoEnd(img) ==
    LET End[p \in Nat] == IF ChunkAt(img, p, "SINF") THEN End[p + 3] ELSE p
    IN  End[1]

InfoAt(img) == {p \in 1 .. Len(img) : p < InfoEnd(img) /\ ChunkAt(img, p, "SINF")}

InfoStatus(img) ==
    IF \E p \in InfoAt(img) :
           p + 3 <= Len(img) /\ ~ /\ CellAt(img, p + 1, "sinf")
                                  /\ img[p + 3] = Crc(<<img[p + 2]>>)
    THEN "crc"
    ELSE IF InfoEnd(img) > Len(img) THEN "io" ELSE "ok"

StreamsOf(img) ==
    [s \in StreamIds |->
        IF \E p \in InfoAt(img) : img[p + 2].sid = s
        THEN img[(CHOOSE p \in InfoAt(img) : img[p + 2].sid = s) + 2].type
        ELSE "none"]

\* stream_count of the file header, raised to cover the streams found.
StreamCountOf(img) ==
    LET Counts == {img[1].stream_count} \cup {img[p + 2].sid + 1 : p \in InfoAt(img)}
    IN  CHOOSE c \in Counts : \A d \in Counts : d <= c

\* The index of `count' entries behind the FRIX header at offset p.
EntriesAt(img, p) == SubSeq(img, p + 3, p + 2 + img[p + 2].c)

\* Mutant: the CRC of the index is read and not compared.
IndexStatusNoCrc(img, p) ==
    IF p >= Len(img) THEN "io"
    ELSE IF ~ChunkAt(img, p, "FRIX") THEN "corrupt"
    ELSE IF p + 2 > Len(img) \/ p + 3 + img[p + 2].c > Len(img) THEN "io"
    ELSE "ok"

IndexStatus(img, p) ==
    IF p >= Len(img) THEN "io"
    ELSE IF ~ChunkAt(img, p, "FRIX") THEN "corrupt"
    ELSE IF p + 2 > Len(img) \/ p + 3 + img[p + 2].c > Len(img) THEN "io"
    ELSE IF img[p + 3 + img[p + 2].c]
            # Crc(<<img[p + 2]>> \o EntriesAt(img, p)) THEN "crc"
    ELSE "ok"

\* Without an index (the recorder was killed) the file still opens.
OpenStatus(img) ==
    IF img = <<>> THEN "io"
    ELSE IF InfoStatus(img) # "ok" THEN InfoStatus(img)
    ELSE IF img[1].index_offset = 0 THEN "ok"
    ELSE IndexStatus(img, img[1].index_offset)

OpenRead ==
    /\ rst \in {"unopened", "failed"}
    /\ rret' = OpenStatus(image)
    /\ IF rret' = "ok"
       THEN /\ rst' = "ready" /\ rpos' = InfoEnd(image)
            /\ rstreams' = StreamsOf(image) /\ rcount' = StreamCountOf(image)
            /\ loaded' = IF image[1].index_offset = 0 THEN <<>>
                         ELSE EntriesAt(image, image[1].index_offset)
       ELSE rst' = "failed" /\ UNCHANGED <<rpos, rstreams, rcount, loaded>>
    /\ UNCHANGED <<pend, got, sought>>

\* malloc of the index or of its CRC buffer fails.
OpenReadNoMemory ==
    /\ rst \in {"unopened", "failed"}
    /\ image # <<>> /\ image[1].index_offset # 0
    /\ InfoStatus(image) = "ok"
    /\ IndexStatus(image, image[1].index_offset) \in {"ok", "crc"}
    /\ rst' = "failed" /\ rret' = "oom"
    /\ UNCHANGED <<rpos, loaded, rstreams, rcount, pend, got, sought>>

-----------------------------------------------------------------------------
\* What a call on the open file leaves alone.
Catalog == <<loaded, rstreams, rcount>>

(* crap_peek_frame: skip chunks of other kinds, stop at the index.         *)

ScanEnd(img, from) ==
    LET At[p \in Nat] ==
            IF CellAt(img, p, "chunk")
               /\ img[p + 1].id \notin {"FRMD", "FRIX", "EOFC"}
            THEN At[p + 2 + img[p + 1].size] ELSE p
    IN  At[from]

\* At the end of the file, at the index, or at a final header that a failed
\* rewind left behind the chunks (its magic is no chunk id, its size seeks
\* beyond the end).
NoMoreFrames(img, p) ==
    p >= Len(img) \/ CellAt(img, p, "file")
        \/ (CellAt(img, p, "chunk") /\ img[p + 1].id # "FRMD")

PeekFrame ==
    /\ rst = "ready"
    /\ LET p == ScanEnd(image, rpos)
       IN  \/ /\ ChunkAt(image, p, "FRMD") /\ CellAt(image, p + 1, "fh")
              /\ pend' = image[p + 2] /\ rpos' = p + 2
              /\ rst' = "peeked" /\ rret' = "ok"
           \/ /\ NoMoreFrames(image, p)
                  \/ (ChunkAt(image, p, "FRMD") /\ p + 1 >= Len(image))
              /\ rpos' = p + 1 /\ rst' = "ended" /\ rret' = "io"
              /\ UNCHANGED pend
    /\ sought' = NoFrame /\ UNCHANGED <<Catalog, got>>

\* The reader loses its place: what it returns is arbitrary.
GetsLost ==
    /\ rst' = "lost" /\ rret' = "any"
    /\ pend' = NoFrame /\ got' = NoFrame /\ sought' = NoFrame
    /\ UNCHANGED <<Catalog, rpos>>

\* The scan meets bytes that are no chunk header, or no frame header.
PeekGarbage ==
    /\ rst = "ready"
    /\ LET p == ScanEnd(image, rpos)
       IN  \/ ~NoMoreFrames(image, p) /\ ~CellAt(image, p, "chunk")
           \/ ChunkAt(image, p, "FRMD") /\ p + 1 < Len(image)
                 /\ ~CellAt(image, p + 1, "fh")
    /\ GetsLost

\* At the end of the file there is nothing more to read, however often.
PeekAtEnd ==
    /\ rst = "ended" /\ rpos >= Len(image)
    /\ rret' = "io" /\ sought' = NoFrame
    /\ UNCHANGED <<Catalog, rst, rpos, pend, got>>

\* Nothing stops a caller from peeking again where the last peek or read
\* left off, in the middle of a chunk: payload, a CRC or an index entry is
\* then taken for a chunk header.
PeekAgain ==
    /\ \/ rst \in {"peeked", "toolarge", "starved", "lost"}
       \/ rst = "ended" /\ rpos < Len(image)
    /\ GetsLost

-----------------------------------------------------------------------------
(* crap_read_frame_data.  pend is the header of the last peek.             *)

Body == SubSeq(image, rpos + 1, Min2(rpos + pend.size, Len(image)))

WholeBody == /\ rpos + pend.size < Len(image)
             /\ \A j \in 1 .. Len(Body) : Body[j].k = "data"
             /\ CellAt(image, rpos + pend.size, "crc")

\* The stored CRC is read and not compared.
ReadFrameData(buf) ==
    /\ rst = "peeked" /\ pend.size <= buf /\ WholeBody
    /\ got' = [fh |-> pend, body |-> Body, crc |-> image[rpos + pend.size + 1]]
    /\ rpos' = rpos + pend.size + 1
    /\ rst' = "ready" /\ rret' = "ok"
    /\ pend' = NoFrame /\ sought' = NoFrame /\ UNCHANGED Catalog

\* Too large for the buffer: CRAP_ERR_CORRUPT, and nothing was consumed.
ReadTooLarge(buf) ==
    /\ rst = "peeked" /\ pend.size > buf
    /\ rst' = "toolarge" /\ rret' = "corrupt"
    /\ pend' = NoFrame /\ sought' = NoFrame /\ UNCHANGED <<Catalog, rpos, got>>

\* malloc of the buffer for the checksum fails: the CRC was not read yet.
ReadNoMemory(buf) ==
    /\ rst = "peeked" /\ pend.size <= buf /\ WholeBody
    /\ rpos' = rpos + pend.size
    /\ rst' = "starved" /\ rret' = "oom"
    /\ pend' = NoFrame /\ sought' = NoFrame /\ UNCHANGED <<Catalog, got>>

\* The frame was cut off: the end of the file comes first.
ReadShort(buf) ==
    /\ rst = "peeked" /\ pend.size <= buf
    /\ rpos + pend.size >= Len(image)
    /\ rpos' = Len(image) /\ rst' = "ended" /\ rret' = "io"
    /\ pend' = NoFrame /\ sought' = NoFrame /\ UNCHANGED <<Catalog, got>>

\* The frame was cut off and other chunks follow: their bytes are delivered
\* as the rest of it, with CRAP_OK unless the file ends first.
ReadAcross(buf) ==
    /\ rst = "peeked" /\ pend.size <= buf
    /\ rpos < Len(image) /\ ~WholeBody
    /\ \E j \in rpos .. Min2(rpos + pend.size, Len(image) - 1) :
           image[j + 1].k \notin {"data", "crc"}
    /\ GetsLost

\* crap_skip_frame may seek beyond the end.
SkipFrame ==
    /\ rst = "peeked"
    /\ rpos' = rpos + pend.size + 1
    /\ rst' = "ready" /\ rret' = "ok"
    /\ pend' = NoFrame /\ sought' = NoFrame /\ UNCHANGED <<Catalog, got>>

-----------------------------------------------------------------------------
(* crap_seek_pts.                                                          *)

Keyframes(ix, sid, pts) ==
    {i \in 1 .. Len(ix) : ix[i].sid = sid /\ ix[i].ftype = "I"
                          /\ ix[i].pts <= pts}

\* Mutant: >= instead of >, the last entry with the largest pts wins.
BestEntryLast(ix, sid, pts) ==
    CHOOSE i \in Keyframes(ix, sid, pts) :
        \A j \in Keyframes(ix, sid, pts) :
            ix[j].pts < ix[i].pts \/ (ix[j].pts = ix[i].pts /\ j <= i)

\* The scan keeps the first entry with the largest pts.
BestEntry(ix, sid, pts) ==
    CHOOSE i \in Keyframes(ix, sid, pts) :
        \A j \in Keyframes(ix, sid, pts) :
            ix[j].pts < ix[i].pts \/ (ix[j].pts = ix[i].pts /\ i <= j)

Seekable == rst \in {"ready", "peeked", "ended", "toolarge", "starved", "lost"}

Request(sid, pts, found) == [sid |-> sid, pts |-> pts, found |-> found]

\* Mutant: the timestamp asked for is not looked at.
SeekPtsAnywhere(sid, pts) ==
    /\ Seekable
    /\ Keyframes(loaded, sid, pts) # {}
    /\ \E best \in Pts : /\ \A t \in Pts : t <= best
                         /\ rpos' = loaded[BestEntry(loaded, sid, best)].off
    /\ rst' = "ready" /\ rret' = "ok" /\ sought' = Request(sid, pts, TRUE)
    /\ pend' = NoFrame /\ UNCHANGED <<Catalog, got>>

\* Mutant: seeks behind the chunk header.
SeekPtsPayload(sid, pts) ==
    /\ Seekable
    /\ Keyframes(loaded, sid, pts) # {}
    /\ rpos' = loaded[BestEntry(loaded, sid, pts)].off + 1
    /\ rst' = "ready" /\ rret' = "ok" /\ sought' = Request(sid, pts, TRUE)
    /\ pend' = NoFrame /\ UNCHANGED <<Catalog, got>>

SeekPts(sid, pts) ==
    /\ Seekable
    /\ Keyframes(loaded, sid, pts) # {}
    /\ rpos' = loaded[BestEntry(loaded, sid, pts)].off
    /\ rst' = "ready" /\ rret' = "ok" /\ sought' = Request(sid, pts, TRUE)
    /\ pend' = NoFrame /\ UNCHANGED <<Catalog, got>>

SeekFails(sid, pts) ==
    /\ Seekable
    /\ Keyframes(loaded, sid, pts) = {}
    /\ rret' = "corrupt" /\ sought' = Request(sid, pts, FALSE)
    /\ UNCHANGED <<Catalog, rst, rpos, pend, got>>

\* crap_close.
CloseRead ==
    /\ Seekable
    /\ rst' = "unopened" /\ rpos' = 0 /\ loaded' = <<>>
    /\ rstreams' = [s \in StreamIds |-> "none"] /\ rcount' = 0
    /\ pend' = NoFrame /\ got' = NoFrame /\ sought' = NoFrame /\ rret' = "ok"

RNext ==
    \/ OpenRead \/ OpenReadNoMemory
    \/ PeekFrame \/ PeekGarbage \/ PeekAtEnd \/ PeekAgain
    \/ \E buf \in Buffers : \/ ReadFrameData(buf) \/ ReadTooLarge(buf)
                             \/ ReadNoMemory(buf) \/ ReadShort(buf) \/ ReadAcross(buf)
    \/ SkipFrame \/ CloseRead
    \/ \E sid \in StreamIds, pts \in Pts :
           SeekPts(sid, pts) \/ SeekFails(sid, pts)
=============================================================================
