--------------------------- MODULE CrapFile_proofs ---------------------------
(***************************************************************************)
(* Theorems about the life of a .crap file, for every number of streams,   *)
(* timestamps, payload sizes, frames and faults.  First what is recorded   *)
(* (ContainerWriter), then what a reader finds of it, damaged or not, and  *)
(* last, without faults, that it implements FrameStore.                    *)
(***************************************************************************)
EXTENDS CrapFile, Modular, SequenceTheorems, FiniteSetTheorems

-----------------------------------------------------------------------------
(* The cells of each chunk.                                                *)

Ids       == {"SINF", "FRMD", "FRIX"}

(* Index entries are plain cells, so an index is covered by its CRC.       *)
LEMMA EntriesAreCells == EntryCell \subseteq BareCell
BY DEF EntryCell, BareCell

(* A chunk is its header, its payload and one CRC cell.                    *)
LEMMA ChunkShape ==
    ASSUME NEW id \in Ids, NEW payload \in Seq(BareCell)
    PROVE  /\ Chunk(id, payload) \in Seq(Cell)
           /\ Len(Chunk(id, payload)) = Len(payload) + 2
           /\ Chunk(id, payload)[1] = ChunkHeader(id, Len(payload))
<1> DEFINE h == ChunkHeader(id, Len(payload))
           c == Crc(payload)
<1>1. h \in Cell
  BY DEF ChunkHeader, Cell, BareCell, Ids
<1>2. c \in Cell
  BY DEF Crc, Cell
<1>3. payload \in Seq(Cell)
  BY SeqMonotonic DEF Cell
<1>4. <<h>> \in Seq(Cell) /\ <<c>> \in Seq(Cell) /\ Len(<<h>>) = 1 /\ Len(<<c>>) = 1
  BY <1>1, <1>2
<1>5. /\ <<h>> \o payload \in Seq(Cell)
      /\ Len(<<h>> \o payload) = 1 + Len(payload)
      /\ (<<h>> \o payload)[1] = h
  BY <1>1, <1>3, <1>4, ConcatProperties, LenProperties
<1>6. /\ (<<h>> \o payload) \o <<c>> \in Seq(Cell)
      /\ Len((<<h>> \o payload) \o <<c>>) = 2 + Len(payload)
      /\ ((<<h>> \o payload) \o <<c>>)[1] = h
  <2> HIDE DEF h, c
  <2>1. Len(payload) \in Nat
    BY LenProperties
  <2>2. 1 \in 1 .. Len(<<h>> \o payload) + Len(<<c>>) /\ 1 <= Len(<<h>> \o payload)
    BY <1>4, <1>5, <2>1
  <2> QED
    BY <1>4, <1>5, <2>1, <2>2, ConcatProperties
<1> QED
  BY <1>6 DEF Chunk

(* The FRMD chunk of a frame: at least a header, a frame header and a CRC. *)
LEMMA FrameChunkShape ==
    ASSUME NEW f \in Frame
    PROVE  /\ FrameChunk(f) \in Seq(Cell)
           /\ Len(FrameChunk(f)) \in Nat /\ Len(FrameChunk(f)) >= 3
<1>1. f.size \in Nat /\ f.n \in Nat
  BY FormatAssumption DEF Frame
<1>2. FrameHeader(f) \in BareCell
  BY DEF FrameHeader, BareCell, Frame
<1>3. FrameData(f) \in Seq(BareCell)
  <2>1. \A j \in 1 .. f.size : Data(f.n, j) \in BareCell
    BY <1>1 DEF Data, BareCell
  <2>2. FrameData(f) \in [1 .. f.size -> BareCell]
    BY <2>1 DEF FrameData
  <2> QED
    BY <1>1, <2>2, SeqDef
<1>4. <<FrameHeader(f)>> \in Seq(BareCell) /\ Len(<<FrameHeader(f)>>) = 1
  BY <1>2
<1>5. FramePayload(f) \in Seq(BareCell) /\ Len(FramePayload(f)) >= 1
  BY <1>3, <1>4, ConcatProperties, LenProperties DEF FramePayload
<1> QED
  BY <1>5, ChunkShape, LenProperties DEF FrameChunk, Ids

(* What crap_write_index builds from an index is a sequence of cells.      *)
LEMMA IndexChunkShape ==
    ASSUME NEW ix \in Seq(EntryCell)
    PROVE  IndexChunk(ix) \in Seq(Cell)
<1>1. ix \in Seq(BareCell)
  BY EntriesAreCells, SeqMonotonic
<1>2. Count(Len(ix)) \in BareCell
  BY LenProperties DEF Count, BareCell
<1>3. <<Count(Len(ix))>> \in Seq(BareCell)
  BY <1>2
<1>4. IndexPayload(ix) \in Seq(BareCell)
  BY <1>1, <1>3, ConcatProperties DEF IndexPayload
<1> QED
  BY <1>4, ChunkShape DEF IndexChunk, Ids

(* What crap_write_streaminfo builds is a sequence of cells.               *)
LEMMA StreamInfoChunkShape ==
    ASSUME NEW sid \in StreamIds, NEW type \in StreamTypes
    PROVE  StreamInfoChunk(sid, type) \in Seq(Cell)
<1>1. <<StreamInfo(sid, type)>> \in Seq(BareCell)
  BY DEF StreamInfo, BareCell
<1> QED
  BY <1>1, ChunkShape DEF StreamInfoChunk, Ids

-----------------------------------------------------------------------------
(* What happens to cells that are in a file.                               *)

(* Appending disturbs nothing.                                             *)
LEMMA HoldsAfterAppend ==
    ASSUME NEW img \in Seq(Cell), NEW more \in Seq(Cell), NEW cells \in Seq(Cell),
           NEW p \in Nat, HoldsAt(img, p, cells)
    PROVE  HoldsAt(img \o more, p, cells)
<1>1. Len(img) \in Nat /\ Len(more) \in Nat /\ Len(cells) \in Nat
  BY LenProperties
<1>2. \A j \in 1 .. Len(cells) : p + j \in 1 .. Len(img)
  BY <1>1 DEF HoldsAt
<1>3. \A i \in 1 .. Len(img) : (img \o more)[i] = img[i]
  BY <1>1, ConcatProperties
<1>4. Len(img \o more) = Len(img) + Len(more)
  BY ConcatProperties
<1> QED
  BY <1>1, <1>2, <1>3, <1>4 DEF HoldsAt

(* What was just appended is there.                                        *)
LEMMA HoldsWhereAppended ==
    ASSUME NEW img \in Seq(Cell), NEW cells \in Seq(Cell)
    PROVE  HoldsAt(img \o cells, Len(img), cells)
<1>1. Len(img) \in Nat /\ Len(cells) \in Nat
  BY LenProperties
<1>2. \A j \in 1 .. Len(cells) : (img \o cells)[Len(img) + j] = cells[j]
  <2> TAKE j \in 1 .. Len(cells)
  <2>1. Len(img) + j \in 1 .. Len(img) + Len(cells) /\ ~(Len(img) + j <= Len(img))
    BY <1>1
  <2> QED
    BY <1>1, <2>1, ConcatProperties
<1> QED
  BY <1>1, <1>2, ConcatProperties DEF HoldsAt

(* Rewriting the file header touches no chunk.                             *)
LEMMA HoldsAfterHeader ==
    ASSUME NEW img \in Seq(Cell), NEW c \in Cell, NEW cells \in Seq(Cell),
           NEW p \in Nat, p >= 1, Len(img) >= 1, HoldsAt(img, p, cells)
    PROVE  HoldsAt([img EXCEPT ![1] = c], p, cells)
<1>1. Len(img) \in Nat /\ Len(cells) \in Nat
  BY LenProperties
<1>2. 1 \in 1 .. Len(img)
  BY <1>1
<1>3. /\ Len([img EXCEPT ![1] = c]) = Len(img)
      /\ \A j \in 1 .. Len(img) :
            [img EXCEPT ![1] = c][j] = IF j = 1 THEN c ELSE img[j]
  BY <1>2, ExceptSeq
<1>4. \A j \in 1 .. Len(cells) : p + j \in 1 .. Len(img) /\ p + j # 1
  BY <1>1 DEF HoldsAt
<1> QED
  BY <1>1, <1>3, <1>4 DEF HoldsAt

(* A file whose first cell was rewritten is still a file.                  *)
LEMMA HeaderShape ==
    ASSUME NEW img \in Seq(Cell), NEW c \in Cell
    PROVE  /\ [img EXCEPT ![1] = c] \in Seq(Cell)
           /\ Len([img EXCEPT ![1] = c]) = Len(img)
<1>1. Len(img) \in Nat /\ img \in [1 .. Len(img) -> Cell]
  BY LenProperties
<1>2. [img EXCEPT ![1] = c] \in [1 .. Len(img) -> Cell]
  BY <1>1
<1>3. [img EXCEPT ![1] = c] \in Seq(Cell)
  BY <1>1, <1>2, SeqDef
<1> QED
  BY <1>1, <1>2, <1>3, LenProperties

(* A prefix of a file.                                                     *)
LEMMA PrefixShape ==
    ASSUME NEW img \in Seq(Cell), NEW m \in 0 .. Len(img)
    PROVE  /\ SubSeq(img, 1, m) \in Seq(Cell)
           /\ Len(SubSeq(img, 1, m)) = m
           /\ \A i \in 1 .. m : SubSeq(img, 1, m)[i] = img[i]
<1>1. Len(img) \in Nat
  BY LenProperties
<1>2. \A i \in 1 .. m : img[i] \in Cell
  BY <1>1, ElementOfSeq
<1> QED
  BY <1>1, <1>2, SubSeqProperties, 1 \in Int, m \in Int

(* Chunks that lie wholly in a prefix are as they were.                    *)
LEMMA HoldsInPrefix ==
    ASSUME NEW img \in Seq(Cell), NEW m \in 0 .. Len(img), NEW cells \in Seq(Cell),
           NEW p \in Nat, HoldsAt(img, p, cells), p + Len(cells) <= m
    PROVE  HoldsAt(SubSeq(img, 1, m), p, cells)
<1>1. Len(img) \in Nat /\ Len(cells) \in Nat
  BY LenProperties
<1>2. \A j \in 1 .. Len(cells) : p + j \in 1 .. m
  BY <1>1
<1> QED
  BY <1>1, <1>2, PrefixShape DEF HoldsAt

-----------------------------------------------------------------------------
(* Type correctness.                                                       *)

(* What a write leaves behind: the file and a prefix of the cells, all of  *)
(* them when it reports success.                                           *)
LEMMA PutsShape ==
    ASSUME file \in Seq(Cell), faults \in 0 .. MaxFaults,
           NEW cells \in Seq(Cell), NEW k, PutsSome(cells, k)
    PROVE  /\ k \in 0 .. Len(cells)
           /\ SubSeq(cells, 1, k) \in Seq(Cell)
           /\ file' = file \o SubSeq(cells, 1, k)
           /\ file' \in Seq(Cell) /\ Len(file') = Len(file) + k
           /\ k = Len(cells) => file' = file \o cells
           /\ faults' \in 0 .. MaxFaults /\ ret' \in {"ok", "io"}
<1>1. k \in 0 .. Len(cells) /\ file' = file \o SubSeq(cells, 1, k)
  BY DEF PutsSome
<1>2. SubSeq(cells, 1, k) \in Seq(Cell) /\ Len(SubSeq(cells, 1, k)) = k
  BY <1>1, PrefixShape
<1>3. file' \in Seq(Cell) /\ Len(file') = Len(file) + k
  BY <1>1, <1>2, ConcatProperties
<1>4. k = Len(cells) => SubSeq(cells, 1, k) = cells
  BY SubSeqFull
<1>5. faults' \in 0 .. MaxFaults /\ ret' \in {"ok", "io"}
  BY WriterAssumption DEF PutsSome
<1> QED
  BY <1>1, <1>2, <1>3, <1>4, <1>5

(* Registering a stream keeps stream_count within the slots there are.     *)
LEMMA RegisterTypes ==
    ASSUME WTypeOK, NEW sid \in StreamIds, NEW type \in StreamTypes,
           RegisterStream(sid, type)
    PROVE  /\ header' \in HeaderType /\ streams' \in [StreamIds -> StreamTypes]
           /\ header'.index_offset = header.index_offset
<1>1. header \in HeaderType /\ streams \in [StreamIds -> StreamTypes]
  BY DEF WTypeOK
<1>2. sid + 1 \in 0 .. MaxStreams
  BY FormatAssumption DEF StreamIds
<1>3. header' = [header EXCEPT !.stream_count =
                     IF sid >= header.stream_count THEN sid + 1
                     ELSE header.stream_count]
  BY DEF RegisterStream
<1>4. header' \in HeaderType /\ header'.index_offset = header.index_offset
  BY <1>1, <1>2, <1>3 DEF HeaderType
<1>5. streams' \in [StreamIds -> StreamTypes]
  BY <1>1 DEF RegisterStream
<1> QED
  BY <1>4, <1>5

(* Recording an index entry adds one cell and a larger capacity.           *)
LEMMA RecordTypes ==
    ASSUME WTypeOK, NEW f \in NewFrames, RecordEntry(f)
    PROVE  /\ f \in Frame
           /\ index' \in Seq(EntryCell) /\ Len(index') = Len(index) + 1
           /\ \A i \in 1 .. Len(index) : index'[i] = index[i]
           /\ index'[Len(index) + 1] = IndexEntry(f, Len(file))
           /\ index_cap' \in Nat /\ last_pts' \in Nat
<1>1. Len(index) \in Nat /\ Len(file) \in Nat
  BY LenProperties DEF WTypeOK
<1>2. f \in Frame /\ f.pts \in Nat
  <2>1. Len(index) + 1 \in Nat \ {0}
    BY <1>1
  <2>2. f \in Frame
    BY <2>1 DEF NewFrames, Frame
  <2> QED
    BY <2>2, FormatAssumption DEF Frame
<1>3. IndexEntry(f, Len(file)) \in EntryCell
  BY <1>1, <1>2 DEF IndexEntry, EntryCell, Frame
<1>4. index_cap' \in Nat
  BY WriterAssumption DEF WTypeOK, RecordEntry, GrownCap
<1>5. last_pts' \in Nat
  BY <1>2 DEF WTypeOK, RecordEntry
<1>6. index' = Append(index, IndexEntry(f, Len(file))) /\ index \in Seq(EntryCell)
  BY DEF RecordEntry, WTypeOK
<1>7. /\ index' \in Seq(EntryCell) /\ Len(index') = Len(index) + 1
      /\ \A i \in 1 .. Len(index) : index'[i] = index[i]
      /\ index'[Len(index) + 1] = IndexEntry(f, Len(file))
  BY <1>1, <1>3, <1>6
<1> QED
  BY <1>2, <1>4, <1>5, <1>7

(* Raising the duration to last_pts keeps the header a header.             *)
LEMMA HeaderTypes ==
    ASSUME NEW h \in HeaderType
    PROVE  FileHeader(h) \in Cell /\ FileHeader(h).index_offset = h.index_offset
BY FormatAssumption DEF FileHeader, Cell, BareCell, HeaderType

(* The cells EncoderOpen writes.                                           *)
OpeningCells == <<FileHeader(header)>> \o StreamInfoChunk(0, "video")

(* What encoder_open writes begins with a header that names no index.      *)
LEMMA OpeningShape ==
    ASSUME WTypeOK
    PROVE  /\ OpeningCells \in Seq(Cell) /\ Len(OpeningCells) >= 1
           /\ OpeningCells[1] = FileHeader(header)
<1>1. FileHeader(header) \in Cell
  BY HeaderTypes DEF WTypeOK
<1>2. StreamInfoChunk(0, "video") \in Seq(Cell)
  BY StreamInfoChunkShape, FormatAssumption DEF StreamIds, StreamTypes
<1>3. Len(StreamInfoChunk(0, "video")) \in Nat
  BY <1>2, LenProperties
<1>4. <<FileHeader(header)>> \in Seq(Cell) /\ Len(<<FileHeader(header)>>) = 1
  BY <1>1
<1> QED
  BY <1>2, <1>3, <1>4, ConcatProperties DEF OpeningCells

(* Every step of the writer, faults and crashes included, keeps the types. *)
LEMMA TypesKept == WTypeOK /\ [WNext]_wvars => WTypeOK'
<1> SUFFICES ASSUME WTypeOK, [WNext]_wvars PROVE WTypeOK'
  OBVIOUS
<1> USE DEF WTypeOK
<1>0. Len(file) \in Nat /\ Len(index) \in Nat
  BY LenProperties
<1>1. ASSUME NEW k \in 0 .. 4, EncoderOpen(k) PROVE WTypeOK'
  <2>1. RegisterStream(0, "video") /\ PutsSome(OpeningCells, k)
    BY <1>1 DEF EncoderOpen, OpeningCells
  <2>2. 0 \in StreamIds /\ "video" \in StreamTypes
    BY FormatAssumption DEF StreamIds, StreamTypes
  <2> QED
    BY <1>0, <1>1, <2>1, <2>2, RegisterTypes, OpeningShape, PutsShape DEF EncoderOpen
<1>2. ASSUME NEW sid \in StreamIds \ {0}, NEW k \in 0 .. 3,
             WriteStreamInfo(sid, "audio", k)
      PROVE  WTypeOK'
  <2>1. StreamInfoChunk(sid, "audio") \in Seq(Cell) /\ "audio" \in StreamTypes
    BY StreamInfoChunkShape DEF StreamTypes
  <2> QED
    BY <1>0, <1>2, <2>1, RegisterTypes, PutsShape DEF WriteStreamInfo
<1>3. ASSUME NEW f \in NewFrames, NEW k, WriteFrame(f, k) PROVE WTypeOK'
  <2>1. RecordEntry(f) /\ PutsSome(FrameChunk(f), k)
    BY <1>3 DEF WriteFrame
  <2>2. f \in Frame /\ FrameChunk(f) \in Seq(Cell)
    BY <2>1, RecordTypes, FrameChunkShape
  <2>3. attempts' = Append(attempts, [f |-> f, ok |-> k = Len(FrameChunk(f))])
    BY <1>3 DEF WriteFrame
  <2>4. attempts' \in Seq([f: Frame, ok: BOOLEAN]) /\ Len(attempts') = Len(attempts) + 1
    BY <2>2, <2>3
  <2> QED
    BY <1>0, <1>3, <2>1, <2>2, <2>4, RecordTypes, PutsShape, SMTT(30) DEF WriteFrame, RecordEntry
<1>4. ASSUME NEW f \in NewFrames, WriteFrameNoPayload(f) PROVE WTypeOK'
  <2>1. RecordEntry(f)
    BY <1>4 DEF WriteFrameNoPayload
  <2>2. f \in Frame
    BY <2>1, RecordTypes
  <2>3. attempts' \in Seq([f: Frame, ok: BOOLEAN]) /\ Len(attempts') = Len(attempts) + 1
    BY <1>4, <2>2 DEF WriteFrameNoPayload
  <2> QED
    BY <1>0, <1>4, <2>1, <2>3, RecordTypes, WriterAssumption
    DEF WriteFrameNoPayload, RecordEntry, Fault
<1>5. CASE WriteFrameNoRoom
  BY <1>5, WriterAssumption DEF WriteFrameNoRoom, Fault
<1>6. ASSUME NEW k, WriteIndex(k) PROVE WTypeOK'
  <2>1. IndexChunk(index) \in Seq(Cell)
    BY IndexChunkShape
  <2>2. header' \in HeaderType
    BY <1>0, <1>6 DEF WriteIndex, HeaderType
  <2> QED
    BY <1>0, <1>6, <2>1, <2>2, PutsShape DEF WriteIndex
<1>7. CASE WriteIndexNoPayload
  <2>1. header' \in HeaderType
    BY <1>0, <1>7 DEF WriteIndexNoPayload, HeaderType
  <2> QED
    BY <1>0, <1>7, <2>1, WriterAssumption DEF WriteIndexNoPayload, Fault
<1>8. CASE WriteNoIndex
  BY <1>8 DEF WriteNoIndex
<1>9. CASE FinishHeader
  <2>1. header' \in HeaderType
    BY <1>9 DEF FinishHeader, HeaderType
  <2> QED
    BY <1>0, <1>9, <2>1 DEF FinishHeader
<1>10. ASSUME NEW m, FinishHeaderNoFlush(m) PROVE WTypeOK'
  <2>1. header' \in HeaderType
    BY <1>10 DEF FinishHeaderNoFlush, HeaderType
  <2>2. FileHeader(header') \in Cell
    BY <2>1, HeaderTypes
  <2>3. file' \in Seq(Cell) /\ Len(file') = Len(file) + 1
    BY <1>10, <2>2 DEF FinishHeaderNoFlush
  <2> QED
    BY <1>0, <1>10, <2>1, <2>3, WriterAssumption DEF FinishHeaderNoFlush, Fault
<1>11. CASE Fclose
  <2>1. FileHeader(header) \in Cell
    BY HeaderTypes
  <2>2. file' \in Seq(Cell) /\ Len(file') = Len(file)
    BY <1>11, <2>1, HeaderShape DEF Fclose
  <2>3. /\ synced' = Len(file) /\ rewound' = FALSE /\ wst' = "closed"
        /\ UNCHANGED <<header, streams, index, index_cap, last_pts, ret, attempts,
                       faults>>
    BY <1>11 DEF Fclose
  <2>4. rewound' \in BOOLEAN
    BY <2>3
  <2>5. synced' \in 0 .. Len(file')
    BY <1>0, <2>2, <2>3
  <2> QED
    BY <2>2, <2>3, <2>4, <2>5
<1>12. ASSUME NEW m, FcloseNoFlush(m) PROVE WTypeOK'
  <2>1. m \in 0 .. Len(file) /\ file' = SubSeq(file, 1, m)
    BY <1>0, <1>12 DEF FcloseNoFlush
  <2>2. file' \in Seq(Cell) /\ Len(file') = m
    BY <2>1, PrefixShape
  <2>3. /\ synced' = m /\ rewound' = FALSE /\ wst' = "closed"
        /\ faults' \in 0 .. MaxFaults
        /\ UNCHANGED <<header, streams, index, index_cap, last_pts, ret, attempts>>
    BY <1>12, WriterAssumption DEF FcloseNoFlush, Fault
  <2>4. rewound' \in BOOLEAN
    BY <2>3
  <2>5. synced' \in 0 .. Len(file')
    BY <2>1, <2>2, <2>3
  <2> QED
    BY <2>2, <2>3, <2>4, <2>5
<1>13. ASSUME NEW m, NEW hdr \in BOOLEAN, Crash(m, hdr) PROVE WTypeOK'
  <2>1. m \in 0 .. Len(file)
    BY <1>0, <1>13 DEF Crash
  <2>2. SubSeq(file, 1, m) \in Seq(Cell) /\ Len(SubSeq(file, 1, m)) = m
    BY <2>1, PrefixShape
  <2>3. FileHeader(header) \in Cell
    BY HeaderTypes
  <2>4. file' \in Seq(Cell) /\ Len(file') = m
    BY <1>13, <2>2, <2>3, HeaderShape DEF Crash
  <2>5. /\ synced' = m /\ rewound' = FALSE /\ wst' = "crashed"
        /\ UNCHANGED <<header, streams, index, index_cap, last_pts, ret, attempts,
                       faults>>
    BY <1>13 DEF Crash
  <2>6. rewound' \in BOOLEAN
    BY <2>5
  <2>7. synced' \in 0 .. Len(file')
    BY <2>1, <2>4, <2>5
  <2> QED
    BY <2>4, <2>5, <2>6, <2>7
<1>14. CASE UNCHANGED wvars
  BY <1>14 DEF wvars
<1> QED
  BY <1>1, <1>2, <1>3, <1>4, <1>5, <1>6, <1>7, <1>8, <1>9, <1>10, <1>11, <1>12,
     <1>13, <1>14 DEF WNext, Torn

(* The initial state has the types.                                        *)
LEMMA WInitTypes == WInit => WTypeOK
<1> SUFFICES ASSUME WInit PROVE WTypeOK
  OBVIOUS
<1>1. header \in HeaderType
  BY FormatAssumption DEF WInit, HeaderType
<1>2. file \in Seq(Cell) /\ Len(file) = 0 /\ index \in Seq(EntryCell)
      /\ attempts \in Seq([f: Frame, ok: BOOLEAN]) /\ Len(index) = Len(attempts)
  BY DEF WInit
<1>3. streams \in [StreamIds -> StreamTypes]
  BY DEF WInit, StreamTypes
<1>4. rewound \in BOOLEAN
  BY DEF WInit
<1>5. synced \in 0 .. Len(file) /\ faults \in 0 .. MaxFaults
  BY <1>2, WriterAssumption DEF WInit
<1> QED
  BY <1>1, <1>2, <1>3, <1>4, <1>5 DEF WInit, WTypeOK

(* The writer's variables always have their types.                         *)
THEOREM WTypeCorrect == WSpec => []WTypeOK
BY WInitTypes, TypesKept, PTL DEF WSpec

-----------------------------------------------------------------------------
(* The inductive invariant WInv.  Steps are of two kinds: those of a file  *)
(* being written append to it, and the three that end it keep a prefix,    *)
(* with the header rewritten or not.                                       *)

Appends     == \E more \in Seq(Cell) : file' = file \o more
SameEntries == index' = index /\ attempts' = attempts
NewEntry    == \E f \in Frame, ok \in BOOLEAN :
                   /\ wst = "open"
                   /\ index' = Append(index, IndexEntry(f, Len(file)))
                   /\ attempts' = Append(attempts, [f |-> f, ok |-> ok])
                   /\ ok => file' = file \o FrameChunk(f)
Ends        == \/ Fclose
               \/ \E m \in Torn(file) : FcloseNoFlush(m)
               \/ \E m \in Torn(file), hdr \in BOOLEAN : Crash(m, hdr)

(* Nothing appended is an append.                                          *)
LEMMA SameFileAppends ==
    ASSUME file \in Seq(Cell), UNCHANGED file
    PROVE  Appends
<1>1. <<>> \in Seq(Cell) /\ file \o <<>> = file
  BY ConcatEmptySeq
<1> QED
  BY <1>1 DEF Appends

(* The facts about the elements of index and attempts the parts rely on.   *)
LEMMA EntryTypes ==
    ASSUME WTypeOK, NEW i \in 1 .. Len(index)
    PROVE  /\ Len(index) \in Nat /\ i \in 1 .. Len(attempts)
           /\ index[i] \in EntryCell /\ index[i].off \in Nat
           /\ attempts[i].f \in Frame /\ attempts[i].ok \in BOOLEAN
           /\ FrameChunk(attempts[i].f) \in Seq(Cell)
           /\ Len(FrameChunk(attempts[i].f)) \in Nat
<1>1. Len(index) \in Nat /\ i \in 1 .. Len(attempts)
  BY LenProperties DEF WTypeOK
<1>2. index[i] \in EntryCell
  BY ElementOfSeq DEF WTypeOK
<1>3. index[i].off \in Nat
  BY <1>2 DEF EntryCell
<1>4. attempts[i] \in [f: Frame, ok: BOOLEAN]
  BY <1>1, ElementOfSeq DEF WTypeOK
<1>5. attempts[i].f \in Frame
  BY <1>4
<1>6. attempts[i].ok \in BOOLEAN
  BY <1>4
<1> QED
  BY <1>1, <1>2, <1>3, <1>5, <1>6, FrameChunkShape

(* Every step appends or ends the file, and starts in a live state.        *)
LEMMA StepShape ==
    ASSUME WTypeOK, WNext
    PROVE  /\ Live
           /\ \/ Live' /\ Appends /\ (SameEntries \/ NewEntry)
              \/ Ends
<1> USE DEF WTypeOK
<1>1. ASSUME NEW k \in 0 .. 4, EncoderOpen(k)
      PROVE  Live /\ Live' /\ Appends /\ SameEntries
  <2>1. PutsSome(OpeningCells, k)
    BY <1>1 DEF EncoderOpen, OpeningCells
  <2>2. Appends
    BY <2>1, OpeningShape, PutsShape DEF Appends
  <2> QED
    BY <1>1, <2>2 DEF EncoderOpen, Live, SameEntries
<1>2. ASSUME NEW sid \in StreamIds \ {0}, NEW k \in 0 .. 3,
             WriteStreamInfo(sid, "audio", k)
      PROVE  Live /\ Live' /\ Appends /\ SameEntries
  <2>1. StreamInfoChunk(sid, "audio") \in Seq(Cell)
    BY StreamInfoChunkShape DEF StreamTypes
  <2>2. Appends
    BY <1>2, <2>1, PutsShape DEF Appends, WriteStreamInfo
  <2> QED
    BY <1>2, <2>2 DEF WriteStreamInfo, Live, SameEntries
<1>3. ASSUME NEW f \in NewFrames, NEW k, WriteFrame(f, k)
      PROVE  Live /\ Live' /\ Appends /\ NewEntry
  <2>1. RecordEntry(f) /\ PutsSome(FrameChunk(f), k)
    BY <1>3 DEF WriteFrame
  <2>2. f \in Frame /\ FrameChunk(f) \in Seq(Cell)
    BY <2>1, RecordTypes, FrameChunkShape
  <2>3. Appends /\ (k = Len(FrameChunk(f)) => file' = file \o FrameChunk(f))
    BY <2>1, <2>2, PutsShape DEF Appends
  <2>4. PICK ok \in BOOLEAN : ok = (k = Len(FrameChunk(f)))
    OBVIOUS
  <2>5. /\ attempts' = Append(attempts, [f |-> f, ok |-> ok])
        /\ ok => file' = file \o FrameChunk(f)
    BY <1>3, <2>3, <2>4 DEF WriteFrame
  <2>6. NewEntry
    BY <2>1, <2>2, <2>5 DEF NewEntry, RecordEntry
  <2> QED
    BY <2>1, <2>3, <2>6 DEF RecordEntry, Live
<1>4. ASSUME NEW f \in NewFrames, WriteFrameNoPayload(f)
      PROVE  Live /\ Live' /\ Appends /\ NewEntry
  <2>1. RecordEntry(f) /\ UNCHANGED file
        /\ attempts' = Append(attempts, [f |-> f, ok |-> FALSE])
    BY <1>4 DEF WriteFrameNoPayload
  <2>2. f \in Frame
    BY <2>1, RecordTypes
  <2>3. NewEntry
    BY <2>1, <2>2 DEF NewEntry, RecordEntry
  <2> QED
    BY <2>1, <2>3, SameFileAppends DEF RecordEntry, Live
<1>5. CASE WriteFrameNoRoom
  BY <1>5, SameFileAppends DEF WriteFrameNoRoom, Live, SameEntries
<1>6. ASSUME NEW k, WriteIndex(k) PROVE Live /\ Live' /\ Appends /\ SameEntries
  <2>1. IndexChunk(index) \in Seq(Cell)
    BY IndexChunkShape
  <2>2. Appends
    BY <1>6, <2>1, PutsShape DEF Appends, WriteIndex
  <2> QED
    BY <1>6, <2>2 DEF WriteIndex, Live, SameEntries
<1>7. CASE WriteIndexNoPayload
  BY <1>7, SameFileAppends DEF WriteIndexNoPayload, Live, SameEntries
<1>8. CASE WriteNoIndex
  BY <1>8, SameFileAppends DEF WriteNoIndex, Live, SameEntries
<1>9. CASE FinishHeader
  BY <1>9, SameFileAppends DEF FinishHeader, Live, SameEntries
<1>10. ASSUME NEW m, FinishHeaderNoFlush(m)
       PROVE  Live /\ Live' /\ Appends /\ SameEntries
  <2>1. header' \in HeaderType
    BY <1>10 DEF FinishHeaderNoFlush, HeaderType
  <2>2. FileHeader(header') \in Cell
    BY <2>1, HeaderTypes
  <2>3. PICK c \in Cell : file' = Append(file, c)
    BY <1>10, <2>2 DEF FinishHeaderNoFlush
  <2>4. <<c>> \in Seq(Cell) /\ file' = file \o <<c>>
    BY <2>3, AppendIsConcat
  <2>5. Appends
    BY <2>4 DEF Appends
  <2> QED
    BY <1>10, <2>5 DEF FinishHeaderNoFlush, Live, SameEntries
<1>11. ASSUME Ends PROVE Live
  BY <1>11 DEF Ends, Fclose, FcloseNoFlush, Crash, Live
<1> QED
  BY <1>1, <1>2, <1>3, <1>4, <1>5, <1>6, <1>7, <1>8, <1>9, <1>10, <1>11
  DEF WNext, Ends

(* Behind a successful open there is a header, and it names no index.      *)
LEMMA OpenedKept == WInv /\ [WNext]_wvars => Opened'
<1> SUFFICES ASSUME WInv, [WNext]_wvars PROVE Opened'
  OBVIOUS
<1>1. WTypeOK /\ Opened /\ Len(file) \in Nat
  BY LenProperties DEF WInv, WTypeOK
<1>2. ASSUME NEW k \in 0 .. 4, EncoderOpen(k) PROVE Opened'
  <2>1. RegisterStream(0, "video") /\ PutsSome(OpeningCells, k)
        /\ wst = "unopened" /\ wst' = IF k < Len(OpeningCells) THEN "closing" ELSE "open"
    BY <1>2 DEF EncoderOpen, OpeningCells
  <2>2. header'.index_offset = 0
    BY <1>1, <2>1, RegisterTypes, FormatAssumption
    DEF Opened, StreamIds, StreamTypes
  <2>3. Len(OpeningCells) \in Nat /\ Len(OpeningCells) >= 1
    BY <1>1, OpeningShape, LenProperties
  <2>4. wst' = "open" => Len(file') >= 1
    BY <1>1, <2>1, <2>3, OpeningShape, PutsShape DEF WTypeOK
  <2>5. wst' = "open" => file' # <<>>
    BY <2>4
  <2> QED
    BY <2>1, <2>2, <2>5 DEF Opened
<1>3. ASSUME Appends, wst \in {"open", "indexed"} PROVE file' # <<>>
  <2>1. PICK more \in Seq(Cell) : file' = file \o more
    BY <1>3 DEF Appends
  <2> QED
    BY <1>1, <1>3, <2>1, ConcatProperties, LenProperties, EmptySeq
    DEF Opened, WTypeOK
<1>4. ASSUME NEW sid \in StreamIds \ {0}, NEW k \in 0 .. 3,
             WriteStreamInfo(sid, "audio", k), Appends
      PROVE  Opened'
  <2>1. header'.index_offset = header.index_offset
    BY <1>1, <1>4, RegisterTypes DEF WriteStreamInfo, StreamTypes
  <2> QED
    BY <1>1, <1>3, <1>4, <2>1 DEF WriteStreamInfo, Opened
<1>5. ASSUME NEW f \in NewFrames, RecordEntry(f), Appends PROVE Opened'
  BY <1>1, <1>3, <1>5 DEF RecordEntry, Opened
<1>6. CASE WriteFrameNoRoom
  BY <1>1, <1>6 DEF WriteFrameNoRoom, Opened
<1>7. ASSUME NEW k, WriteIndex(k), Appends PROVE Opened'
  BY <1>3, <1>7 DEF WriteIndex, Opened
<1>8. CASE WriteIndexNoPayload \/ WriteNoIndex \/ FinishHeader
  BY <1>1, <1>8 DEF WriteIndexNoPayload, WriteNoIndex, FinishHeader, Opened
<1>9. ASSUME NEW m, FinishHeaderNoFlush(m) PROVE Opened'
  BY <1>9 DEF FinishHeaderNoFlush, Opened
<1>10. CASE Ends
  BY <1>10 DEF Ends, Fclose, FcloseNoFlush, Crash, Opened
<1>11. CASE UNCHANGED wvars
  BY <1>1, <1>11 DEF wvars, Opened
<1>12. CASE WNext
  <2>1. Appends \/ Ends
    BY <1>1, <1>12, StepShape
  <2> QED
    BY <1>2, <1>4, <1>5, <1>6, <1>7, <1>8, <1>9, <1>10, <1>12, <2>1
    DEF WNext, Ends, WriteFrame, WriteFrameNoPayload
<1> QED
  BY <1>11, <1>12

(* A written chunk stays in place while the file grows.                    *)
LEMMA ChunksKept == WInv /\ [WNext]_wvars => ChunksInPlace'
<1> SUFFICES ASSUME WInv, [WNext]_wvars, Live', NEW i \in 1 .. Len(index'),
                    attempts'[i].ok
             PROVE  /\ index'[i].off >= 1
                    /\ HoldsAt(file', index'[i].off, FrameChunk(attempts'[i].f))
  BY DEF ChunksInPlace, Live
<1>1. WTypeOK /\ Opened /\ ChunksInPlace /\ file \in Seq(Cell)
      /\ index \in Seq(EntryCell) /\ Len(index) \in Nat /\ Len(attempts) = Len(index)
      /\ attempts \in Seq([f: Frame, ok: BOOLEAN])
  BY LenProperties DEF WInv, WTypeOK
<1>2. CASE UNCHANGED wvars
  BY <1>1, <1>2 DEF wvars, ChunksInPlace, Live
<1>3. ASSUME Live, Appends, NEW j \in 1 .. Len(index), attempts[j].ok
      PROVE  index[j].off >= 1 /\ HoldsAt(file', index[j].off, FrameChunk(attempts[j].f))
  <2>1. index[j].off >= 1 /\ HoldsAt(file, index[j].off, FrameChunk(attempts[j].f))
    BY <1>1, <1>3 DEF ChunksInPlace
  <2>2. PICK more \in Seq(Cell) : file' = file \o more
    BY <1>3 DEF Appends
  <2> QED
    BY <1>1, <2>1, <2>2, EntryTypes, HoldsAfterAppend
<1>4. CASE Live /\ Appends /\ SameEntries
  BY <1>3, <1>4 DEF SameEntries
<1>5. CASE Live /\ Appends /\ NewEntry
  <2>1. PICK f \in Frame, ok \in BOOLEAN :
            /\ wst = "open"
            /\ index' = Append(index, IndexEntry(f, Len(file)))
            /\ attempts' = Append(attempts, [f |-> f, ok |-> ok])
            /\ ok => file' = file \o FrameChunk(f)
    BY <1>5 DEF NewEntry
  <2>2. Len(file) \in Nat /\ Len(file) >= 1
    BY <1>1, <2>1, LenProperties, EmptySeq DEF Opened
  <2>3. IndexEntry(f, Len(file)) \in EntryCell /\ IndexEntry(f, Len(file)).off = Len(file)
    BY <2>2 DEF IndexEntry, EntryCell, Frame
  <2>4. [f |-> f, ok |-> ok] \in [f: Frame, ok: BOOLEAN]
    OBVIOUS
  <2>5. /\ Len(index') = Len(index) + 1
        /\ \A j \in 1 .. Len(index) : index'[j] = index[j]
        /\ index'[Len(index) + 1] = IndexEntry(f, Len(file))
    BY <1>1, <2>1, <2>3, AppendProperties
  <2>6. /\ \A j \in 1 .. Len(index) : attempts'[j] = attempts[j]
        /\ attempts'[Len(index) + 1] = [f |-> f, ok |-> ok]
    BY <1>1, <2>1, <2>4, AppendProperties
  <2>7. CASE i \in 1 .. Len(index)
    BY <1>3, <1>5, <2>5, <2>6, <2>7
  <2>8. CASE i = Len(index) + 1
    <3>0. attempts'[i] = [f |-> f, ok |-> ok]
      BY <2>6, <2>8
    <3>1. attempts'[i].f = f /\ ok
      <4>1. CASE ok = TRUE
        BY <3>0, <4>1
      <4>2. CASE ok = FALSE
        <5>1. attempts'[i] = [f |-> f, ok |-> FALSE]
          BY <3>0, <4>2
        <5>2. attempts'[i].ok = FALSE
          BY <5>1
        <5> QED
          BY <5>2
      <4> QED
        BY <4>1, <4>2
    <3>2. file' = file \o FrameChunk(f) /\ index'[i].off = Len(file)
      BY <2>1, <2>3, <2>5, <2>8, <3>1
    <3> QED
      BY <1>1, <2>2, <3>1, <3>2, FrameChunkShape, HoldsWhereAppended
  <2> QED
    BY <1>1, <2>5, <2>7, <2>8
<1>6. CASE Ends
  BY <1>6 DEF Ends, Fclose, FcloseNoFlush, Crash, Live
<1> QED
  BY <1>1, <1>2, <1>4, <1>5, <1>6, StepShape

(* The header on disk names no index while the file is being written.      *)
LEMMA HeaderKept == WInv /\ [WNext]_wvars => ProvisionalHeader'
<1> SUFFICES ASSUME WInv, [WNext]_wvars, Live', file' # <<>>
             PROVE  file'[1].index_offset = 0
  BY DEF ProvisionalHeader, Live
<1>1. /\ WTypeOK /\ Opened /\ ProvisionalHeader /\ file \in Seq(Cell)
      /\ Len(file) \in Nat
  BY LenProperties DEF WInv, WTypeOK
<1>2. CASE UNCHANGED wvars
  BY <1>1, <1>2 DEF wvars, ProvisionalHeader, Live
<1>3. CASE Live /\ Appends /\ file # <<>>
  <2>1. PICK more \in Seq(Cell) : file' = file \o more
    BY <1>3 DEF Appends
  <2>2. Len(file) >= 1
    BY <1>1, <1>3, EmptySeq
  <2>3. file'[1] = file[1]
    BY <1>1, <2>1, <2>2, ConcatProperties, LenProperties
  <2> QED
    BY <1>1, <1>3, <2>3 DEF ProvisionalHeader
<1>4. ASSUME NEW k \in 0 .. 4, EncoderOpen(k) PROVE file'[1].index_offset = 0
  <2>1. PutsSome(OpeningCells, k) /\ file = <<>> /\ header.index_offset = 0
        /\ OpeningCells \in Seq(Cell) /\ header \in HeaderType
    BY <1>1, <1>4, OpeningShape DEF EncoderOpen, OpeningCells, Opened, WTypeOK
  <2>2. file' = SubSeq(OpeningCells, 1, k) /\ k \in 0 .. Len(OpeningCells)
    BY <2>1, PrefixShape, PutsShape, ConcatEmptySeq, <1>1 DEF WTypeOK
  <2>3. k >= 1
    BY <1>1, <2>1, <2>2, PrefixShape, EmptySeq
  <2>4. file'[1] = OpeningCells[1]
    BY <2>1, <2>2, <2>3, PrefixShape
  <2> QED
    BY <1>1, <2>1, <2>4, OpeningShape, HeaderTypes
<1>5. CASE WNext /\ file = <<>>
  <2>1. wst \in {"unopened", "closing"}
    BY <1>1, <1>5, StepShape DEF Opened, Live, WTypeOK
  <2>2. \E k \in 0 .. 4 : EncoderOpen(k)
    BY <1>5, <2>1
    DEF WNext, WriteStreamInfo, WriteFrame, WriteFrameNoPayload, RecordEntry,
        WriteFrameNoRoom, WriteIndex, WriteIndexNoPayload, WriteNoIndex,
        FinishHeader, FinishHeaderNoFlush, Fclose, FcloseNoFlush, Crash, Live
  <2> QED
    BY <1>4, <2>2
<1>6. CASE Ends
  BY <1>6 DEF Ends, Fclose, FcloseNoFlush, Crash, Live
<1> QED
  BY <1>1, <1>2, <1>3, <1>5, <1>6, StepShape

(* An index the header names was written before it.                        *)
LEMMA IndexKept == WInv /\ [WNext]_wvars => IndexReady' /\ FinalHeaderOrdered'
<1> SUFFICES ASSUME WInv, [WNext]_wvars
             PROVE  IndexReady' /\ FinalHeaderOrdered'
  OBVIOUS
<1>1. /\ WTypeOK /\ Opened /\ IndexReady /\ FinalHeaderOrdered
      /\ file \in Seq(Cell) /\ Len(file) \in Nat /\ index \in Seq(EntryCell)
  BY LenProperties DEF WInv, WTypeOK
<1>2. ASSUME wst \in {"unopened", "open", "indexed"} PROVE ~rewound
  BY <1>1, <1>2 DEF FinalHeaderOrdered
<1>3. ASSUME NEW k \in 0 .. 4, EncoderOpen(k)
      PROVE  IndexReady' /\ FinalHeaderOrdered'
  BY <1>2, <1>3 DEF EncoderOpen, IndexReady, FinalHeaderOrdered
<1>4. ASSUME NEW sid, NEW k, WriteStreamInfo(sid, "audio", k)
      PROVE  IndexReady' /\ FinalHeaderOrdered'
  BY <1>2, <1>4 DEF WriteStreamInfo, IndexReady, FinalHeaderOrdered
<1>5. ASSUME NEW f \in NewFrames, RecordEntry(f)
      PROVE  IndexReady' /\ FinalHeaderOrdered'
  BY <1>2, <1>5 DEF RecordEntry, IndexReady, FinalHeaderOrdered
<1>6. CASE WriteFrameNoRoom
  BY <1>2, <1>6 DEF WriteFrameNoRoom, IndexReady, FinalHeaderOrdered
<1>7. ASSUME NEW k, WriteIndex(k) PROVE IndexReady' /\ FinalHeaderOrdered'
  <2>1. wst = "open" /\ UNCHANGED <<rewound, index>>
        /\ PutsSome(IndexChunk(index), k) /\ IndexChunk(index) \in Seq(Cell)
    BY <1>1, <1>7, IndexChunkShape DEF WriteIndex
  <2>2. FinalHeaderOrdered'
    BY <1>2, <2>1 DEF FinalHeaderOrdered
  <2>3. header'.index_offset = Len(file)
    BY <1>1, <1>7 DEF WriteIndex, WTypeOK, HeaderType
  <2>4. ASSUME wst' = "indexed" PROVE IndexHeld'
    <3>1. k = Len(IndexChunk(index))
      BY <1>7, <2>1, <2>4, LenProperties DEF WriteIndex, PutsSome
    <3>2. file' = file \o IndexChunk(index)
      BY <1>1, <2>1, <3>1, PutsShape DEF WTypeOK
    <3>3. HoldsAt(file', Len(file), IndexChunk(index'))
      BY <1>1, <2>1, <3>2, HoldsWhereAppended
    <3> QED
      BY <1>1, <2>3, <3>3 DEF IndexHeld
  <2> QED
    BY <2>2, <2>4 DEF IndexReady
<1>8. CASE WriteIndexNoPayload
  BY <1>2, <1>8 DEF WriteIndexNoPayload, IndexReady, FinalHeaderOrdered
<1>9. CASE WriteNoIndex
  BY <1>1, <1>2, <1>9 DEF WriteNoIndex, IndexReady, FinalHeaderOrdered, Opened,
                          IndexHeld
<1>10. CASE FinishHeader
  <2>1. header'.index_offset = header.index_offset
    BY <1>1, <1>10 DEF FinishHeader, WTypeOK, HeaderType
  <2>2. IndexHeld' /\ file # <<>>
    BY <1>1, <1>10, <2>1 DEF FinishHeader, IndexReady, IndexHeld, Opened
  <2> QED
    BY <1>10, <2>2 DEF FinishHeader, IndexReady, FinalHeaderOrdered
<1>11. ASSUME NEW m, FinishHeaderNoFlush(m)
       PROVE  IndexReady' /\ FinalHeaderOrdered'
  BY <1>2, <1>11 DEF FinishHeaderNoFlush, IndexReady, FinalHeaderOrdered
<1>12. CASE Ends
  BY <1>12 DEF Ends, Fclose, FcloseNoFlush, Crash, IndexReady, FinalHeaderOrdered
<1>13. CASE UNCHANGED wvars
  BY <1>1, <1>13 DEF wvars, IndexReady, FinalHeaderOrdered, IndexHeld
<1> QED
  BY <1>3, <1>4, <1>5, <1>6, <1>7, <1>8, <1>9, <1>10, <1>11, <1>12, <1>13
  DEF WNext, Ends, WriteFrame, WriteFrameNoPayload

(* How a file can end: as it was, with the header of its index rewritten   *)
(* in place, or as a prefix.                                               *)
LEMMA EndShape ==
    ASSUME WInv, Ends
    PROVE  /\ UNCHANGED <<header, index, attempts, last_pts>>
           /\ \/ UNCHANGED file
              \/ /\ file' = [file EXCEPT ![1] = FileHeader(header)]
                 /\ IndexHeld /\ Len(file) >= 1 /\ rewound
              \/ \E m \in 0 .. Len(file) : file' = SubSeq(file, 1, m)
<1>1. file \in Seq(Cell) /\ Len(file) \in Nat /\ synced \in 0 .. Len(file)
  BY LenProperties DEF WInv, WTypeOK
<1>2. rewound => synced = Len(file) /\ Len(file) >= 1 /\ IndexHeld
  BY <1>1, EmptySeq DEF WInv, FinalHeaderOrdered
<1>3. UNCHANGED <<header, index, attempts, last_pts>>
  BY DEF Ends, Fclose, FcloseNoFlush, Crash
<1>4. CASE Fclose
  BY <1>2, <1>3, <1>4 DEF Fclose
<1>5. ASSUME NEW m \in Torn(file), FcloseNoFlush(m)
      PROVE  \E x \in 0 .. Len(file) : file' = SubSeq(file, 1, x)
  BY <1>5 DEF FcloseNoFlush, Torn
<1>6. ASSUME NEW m \in Torn(file), Crash(m, TRUE)
      PROVE  /\ file' = [file EXCEPT ![1] = FileHeader(header)]
             /\ IndexHeld /\ Len(file) >= 1 /\ rewound
  <2>1. rewound /\ m \in synced .. Len(file)
        /\ file' = [SubSeq(file, 1, m) EXCEPT ![1] = FileHeader(header)]
    BY <1>6 DEF Crash
  <2>2. m = Len(file)
    BY <1>1, <1>2, <2>1
  <2>3. SubSeq(file, 1, m) = file
    BY <1>1, <2>2, SubSeqFull
  <2> QED
    BY <1>2, <2>1, <2>3
<1>7. ASSUME NEW m \in Torn(file), Crash(m, FALSE)
      PROVE  \E x \in 0 .. Len(file) : file' = SubSeq(file, 1, x)
  BY <1>7 DEF Crash, Torn
<1> QED
  BY <1>3, <1>4, <1>5, <1>6, <1>7 DEF Ends

(* Good entries lead to their frames, in live and in ended files.          *)
LEMMA GoodEntriesKept ==
    WInv /\ [WNext]_wvars /\ ChunksInPlace' => GoodEntriesPointAtFrames'
<1> SUFFICES ASSUME WInv, [WNext]_wvars, ChunksInPlace',
                    NEW i \in 1 .. Len(index'), attempts'[i].ok,
                    index'[i].off + Len(FrameChunk(attempts'[i].f)) <= Len(file')
             PROVE  HoldsAt(file', index'[i].off, FrameChunk(attempts'[i].f))
  BY DEF GoodEntriesPointAtFrames
<1>1. /\ WTypeOK /\ ChunksInPlace /\ GoodEntriesPointAtFrames
      /\ file \in Seq(Cell) /\ Len(file) \in Nat
  BY LenProperties DEF WInv, WTypeOK
<1>2. CASE Live'
  BY <1>2 DEF ChunksInPlace, Live
<1>3. CASE UNCHANGED wvars
  BY <1>1, <1>3 DEF wvars, GoodEntriesPointAtFrames
<1>4. CASE WNext /\ ~Live'
  <2>1. Live /\ Ends
    BY <1>1, <1>4, StepShape
  <2>2. index' = index /\ attempts' = attempts
    BY <2>1, EndShape
  <2> DEFINE cells == FrameChunk(attempts[i].f)
  <2>3. /\ index[i].off >= 1 /\ HoldsAt(file, index[i].off, cells)
        /\ index[i].off \in Nat /\ cells \in Seq(Cell)
    BY <1>1, <2>1, <2>2, EntryTypes DEF ChunksInPlace
  <2>4. FileHeader(header) \in Cell
    BY <1>1, HeaderTypes DEF WTypeOK
  <2>5. CASE UNCHANGED file
    BY <2>2, <2>3, <2>5
  <2>6. CASE file' = [file EXCEPT ![1] = FileHeader(header)] /\ Len(file) >= 1
    <3> HIDE DEF cells
    <3>1. HoldsAt(file', index[i].off, cells)
      BY <1>1, <2>3, <2>4, <2>6, HoldsAfterHeader
    <3> QED
      BY <2>2, <3>1 DEF cells
  <2>7. ASSUME NEW m \in 0 .. Len(file), file' = SubSeq(file, 1, m)
        PROVE  HoldsAt(file', index[i].off, cells)
    <3>1. index[i].off + Len(cells) <= m
      BY <1>1, <2>2, <2>7, PrefixShape
    <3> QED
      BY <1>1, <2>3, <2>7, <3>1, HoldsInPrefix
  <2> QED
    BY <2>1, <2>2, <2>5, <2>6, <2>7, EndShape
<1> QED
  BY <1>2, <1>3, <1>4

(* A header that names an index is only ever put over a complete file.     *)
LEMMA HeaderImpliesIndexKept ==
    WInv /\ [WNext]_wvars /\ ProvisionalHeader' => HeaderImpliesIndex'
<1> SUFFICES ASSUME WInv, [WNext]_wvars, ProvisionalHeader',
                    file' # <<>>, file'[1].index_offset # 0
             PROVE  HoldsAt(file', file'[1].index_offset, IndexChunk(index'))
  BY DEF HeaderImpliesIndex
<1>1. /\ WTypeOK /\ ProvisionalHeader /\ HeaderImpliesIndex
      /\ file \in Seq(Cell) /\ Len(file) \in Nat /\ header \in HeaderType
      /\ index \in Seq(EntryCell)
  BY LenProperties DEF WInv, WTypeOK
<1>2. ~Live'
  BY DEF ProvisionalHeader, Live
<1>3. CASE UNCHANGED wvars
  BY <1>1, <1>3 DEF wvars, HeaderImpliesIndex
<1>4. CASE WNext
  <2>1. Live /\ Ends
    BY <1>1, <1>2, <1>4, StepShape
  <2>2. index' = index
    BY <2>1, EndShape
  <2>3. CASE UNCHANGED file
    BY <1>1, <2>1, <2>3 DEF ProvisionalHeader
  <2>4. CASE /\ file' = [file EXCEPT ![1] = FileHeader(header)]
             /\ IndexHeld /\ Len(file) >= 1
    <3> DEFINE ix == IndexChunk(index)
    <3>1. FileHeader(header) \in Cell
          /\ FileHeader(header).index_offset = header.index_offset
      BY <1>1, HeaderTypes
    <3>2. file'[1] = FileHeader(header)
      BY <1>1, <2>4, ExceptSeq
    <3>3. header.index_offset \in Nat /\ header.index_offset # 0
      BY <1>1, <3>1, <3>2 DEF HeaderType
    <3>4. header.index_offset >= 1 /\ HoldsAt(file, header.index_offset, ix)
      BY <2>4, <3>3 DEF IndexHeld
    <3>5. ix \in Seq(Cell)
      BY <1>1, IndexChunkShape
    <3> HIDE DEF ix
    <3>6. HoldsAt(file', header.index_offset, ix)
      BY <1>1, <2>4, <3>1, <3>3, <3>4, <3>5, HoldsAfterHeader
    <3> QED
      BY <2>2, <3>1, <3>2, <3>6 DEF ix
  <2>5. ASSUME NEW m \in 0 .. Len(file), file' = SubSeq(file, 1, m)
        PROVE  FALSE
    <3>1. m >= 1
      BY <1>1, <2>5, PrefixShape, EmptySeq
    <3>2. file'[1] = file[1] /\ file # <<>>
      BY <1>1, <2>5, <3>1, PrefixShape
    <3> QED
      BY <1>1, <2>1, <3>2 DEF ProvisionalHeader
  <2> QED
    BY <2>1, <2>3, <2>4, <2>5, EndShape
<1> QED
  BY <1>3, <1>4

(* Putting one cell before others shifts them by one.                      *)
LEMMA PrependCell ==
    ASSUME NEW x \in Cell, NEW s \in Seq(Cell)
    PROVE  /\ <<x>> \o s \in Seq(Cell)
           /\ Len(<<x>> \o s) = Len(s) + 1
           /\ \A i \in 1 .. Len(s) + 1 :
                  (<<x>> \o s)[i] = IF i <= 1 THEN <<x>>[i] ELSE s[i - 1]
<1>1. <<x>> \in Seq(Cell) /\ Len(<<x>>) = 1 /\ Len(s) \in Nat
  BY LenProperties
<1>2. <<x>> \o s \in Seq(Cell)
  BY <1>1, ConcatProperties
<1>3. Len(<<x>> \o s) = Len(s) + 1
  BY <1>1, ConcatProperties
<1>4. ASSUME NEW i \in 1 .. Len(s) + 1
      PROVE  (<<x>> \o s)[i] = IF i <= 1 THEN <<x>>[i] ELSE s[i - 1]
  BY <1>1, <1>4, ConcatProperties
<1> QED
  BY <1>2, <1>3, <1>4

(* Where the cells of a chunk come from.                                   *)
LEMMA ChunkCells ==
    ASSUME NEW id \in Ids, NEW payload \in Seq(BareCell),
           NEW j \in 1 .. Len(Chunk(id, payload))
    PROVE  \/ Chunk(id, payload)[j] = ChunkHeader(id, Len(payload))
           \/ Chunk(id, payload)[j] = Crc(payload)
           \/ \E i \in 1 .. Len(payload) : Chunk(id, payload)[j] = payload[i]
<1> DEFINE h == <<ChunkHeader(id, Len(payload))>>
           c == <<Crc(payload)>>
           n == Len(payload)
<1>1. ChunkHeader(id, n) \in Cell /\ Crc(payload) \in Cell
  BY LenProperties DEF ChunkHeader, Crc, Cell, BareCell, Ids
<1>2. h \in Seq(Cell) /\ c \in Seq(Cell) /\ Len(h) = 1 /\ Len(c) = 1
      /\ h[1] = ChunkHeader(id, n) /\ c[1] = Crc(payload)
  BY <1>1
<1>3. payload \in Seq(Cell) /\ n \in Nat
  BY SeqMonotonic, LenProperties DEF Cell
<1>4. Chunk(id, payload) = (h \o payload) \o c /\ Len(Chunk(id, payload)) = n + 2
  BY ChunkShape DEF Chunk
<1>5. /\ h \o payload \in Seq(Cell)
      /\ Len(h \o payload) = n + 1
      /\ \A i \in 1 .. n + 1 :
             (h \o payload)[i] = IF i <= 1 THEN h[i] ELSE payload[i - 1]
  BY <1>1, <1>3, PrependCell
<1> HIDE DEF h, c, n
<1>6. CASE j = 1
  <2>1. Chunk(id, payload)[j] = (h \o payload)[1]
    BY <1>2, <1>3, <1>4, <1>5, <1>6, ConcatProperties
  <2>2. (h \o payload)[1] = h[1]
    BY <1>3, <1>5
  <2> QED
    BY <1>2, <2>1, <2>2 DEF n
<1>7. CASE j \in 2 .. n + 1
  <2>1. Chunk(id, payload)[j] = (h \o payload)[j]
    BY <1>2, <1>3, <1>4, <1>5, <1>7, ConcatProperties
  <2>2. (h \o payload)[j] = payload[j - 1] /\ j - 1 \in 1 .. n
    BY <1>3, <1>5, <1>7, SMTT(30)
  <2> QED
    BY <2>1, <2>2 DEF n
<1>8. CASE j = n + 2
  <2>1. Chunk(id, payload)[j] = c[1]
    BY <1>2, <1>3, <1>4, <1>5, <1>8, ConcatProperties
  <2> QED
    BY <1>2, <2>1
<1> QED
  BY <1>3, <1>4, <1>6, <1>7, <1>8

(* A chunk without frame headers in its payload has none at all.           *)
LEMMA ChunkTimed ==
    ASSUME NEW id \in Ids, NEW payload \in Seq(BareCell), NEW t \in Nat,
           Timed(payload, t)
    PROVE  Timed(Chunk(id, payload), t)
<1> SUFFICES ASSUME NEW j \in 1 .. Len(Chunk(id, payload)),
                    Chunk(id, payload)[j].k = "fh"
             PROVE  Chunk(id, payload)[j].pts <= t
  BY DEF Timed
<1>1. ChunkHeader(id, Len(payload)).k # "fh" /\ Crc(payload).k # "fh"
  BY DEF ChunkHeader, Crc
<1> QED
  BY <1>1, ChunkCells DEF Timed

(* A frame header of a concatenation is one of either part.                *)
LEMMA TimedConcat ==
    ASSUME NEW a \in Seq(Cell), NEW b \in Seq(Cell), NEW t \in Nat,
           Timed(a, t), Timed(b, t)
    PROVE  Timed(a \o b, t)
<1>1. Len(a) \in Nat /\ Len(b) \in Nat
  BY LenProperties
<1> SUFFICES ASSUME NEW j \in 1 .. Len(a) + Len(b), (a \o b)[j].k = "fh"
             PROVE  (a \o b)[j].pts <= t
  BY ConcatProperties DEF Timed
<1>2. CASE j <= Len(a)
  BY <1>1, <1>2, ConcatProperties DEF Timed
<1>3. CASE ~(j <= Len(a))
  <2>1. j - Len(a) \in 1 .. Len(b) /\ (a \o b)[j] = b[j - Len(a)]
    BY <1>1, <1>3, ConcatProperties
  <2> QED
    BY <2>1 DEF Timed
<1> QED
  BY <1>2, <1>3

(* A torn write has no frame header that the whole one did not have.       *)
LEMMA TimedPrefix ==
    ASSUME NEW a \in Seq(Cell), NEW m \in 0 .. Len(a), NEW t, Timed(a, t)
    PROVE  Timed(SubSeq(a, 1, m), t)
<1>1. Len(a) \in Nat
  BY LenProperties
<1> QED
  BY <1>1, PrefixShape DEF Timed

(* A bound on the timestamps may be raised.                                *)
LEMMA TimedLater ==
    ASSUME NEW a \in Seq(Cell), NEW s \in Nat, NEW t \in Nat, s <= t, Timed(a, s)
    PROVE  Timed(a, t)
<1> SUFFICES ASSUME NEW j \in 1 .. Len(a), a[j].k = "fh" PROVE a[j].pts <= t
  BY DEF Timed
<1>1. a[j] \in Cell /\ a[j].pts <= s
  BY ElementOfSeq DEF Timed
<1>2. a[j].pts \in Nat
  <2>1. a[j] \in [k: {"fh"}, sid: StreamIds, ftype: FrameTypes, pts: Pts, size: Sizes]
    BY <1>1 DEF Cell, BareCell, EntryCell
  <2> QED
    BY <2>1, FormatAssumption
<1> QED
  BY <1>1, <1>2

(* The cells of a frame's chunk carry no timestamp but its own.            *)
LEMMA FrameChunkTimed ==
    ASSUME NEW f \in Frame
    PROVE  f.pts \in Nat /\ Timed(FrameChunk(f), f.pts)
<1>1. f.size \in Nat /\ f.n \in Nat /\ f.pts \in Nat
  BY FormatAssumption DEF Frame
<1>2. FrameHeader(f) \in BareCell /\ FrameHeader(f).pts = f.pts
  BY DEF FrameHeader, BareCell, Frame
<1>3. \A j \in 1 .. f.size : Data(f.n, j) \in BareCell /\ Data(f.n, j).k # "fh"
  BY <1>1 DEF Data, BareCell
<1>4. FrameData(f) \in [1 .. f.size -> BareCell]
  BY <1>3 DEF FrameData
<1>5. FrameData(f) \in Seq(BareCell) /\ Len(FrameData(f)) = f.size
  BY <1>1, <1>4, SeqDef, LenProperties
<1>6. Timed(FrameData(f), f.pts)
  BY <1>3, <1>5 DEF Timed, FrameData
<1>7. <<FrameHeader(f)>> \in Seq(BareCell) /\ Timed(<<FrameHeader(f)>>, f.pts)
  BY <1>1, <1>2 DEF Timed
<1>8. FramePayload(f) \in Seq(BareCell)
  BY <1>5, <1>7, ConcatProperties DEF FramePayload
<1>9. Timed(FramePayload(f), f.pts)
  BY <1>1, <1>5, <1>6, <1>7, TimedConcat, SeqMonotonic DEF FramePayload, Cell
<1> QED
  BY <1>1, <1>8, <1>9, ChunkTimed DEF FrameChunk, Ids

(* An index chunk holds no frame header.                                   *)
LEMMA IndexChunkTimed ==
    ASSUME NEW ix \in Seq(EntryCell), NEW t \in Nat
    PROVE  Timed(IndexChunk(ix), t)
<1>1. ix \in Seq(BareCell) /\ Len(ix) \in Nat
  BY EntriesAreCells, SeqMonotonic, LenProperties
<1>2. Count(Len(ix)) \in BareCell /\ Count(Len(ix)).k # "fh"
  BY <1>1 DEF Count, BareCell
<1>3. <<Count(Len(ix))>> \in Seq(BareCell) /\ Timed(<<Count(Len(ix))>>, t)
  BY <1>2 DEF Timed
<1>4. \A j \in 1 .. Len(ix) : ix[j] \in EntryCell
  BY ElementOfSeq
<1>5. Timed(ix, t)
  BY <1>4 DEF Timed, EntryCell
<1>6. IndexPayload(ix) \in Seq(BareCell) /\ Timed(IndexPayload(ix), t)
  BY <1>1, <1>3, <1>5, ConcatProperties, TimedConcat, SeqMonotonic
  DEF IndexPayload, Cell
<1> QED
  BY <1>6, ChunkTimed DEF IndexChunk, Ids

(* A stream info chunk holds no frame header.                              *)
LEMMA StreamInfoChunkTimed ==
    ASSUME NEW sid \in StreamIds, NEW type \in StreamTypes, NEW t \in Nat
    PROVE  Timed(StreamInfoChunk(sid, type), t)
<1>1. StreamInfo(sid, type) \in BareCell /\ StreamInfo(sid, type).k # "fh"
  BY DEF StreamInfo, BareCell
<1>2. <<StreamInfo(sid, type)>> \in Seq(BareCell) /\ Timed(<<StreamInfo(sid, type)>>, t)
  BY <1>1 DEF Timed
<1> QED
  BY <1>2, ChunkTimed DEF StreamInfoChunk, Ids

(* Every write leaves a timed file: a frame raises last_pts before it is   *)
(* written, and nothing else writes frame headers.                         *)
LEMMA FramesTimedKept == WInv /\ [WNext]_wvars => FramesTimed'
<1> SUFFICES ASSUME WInv, [WNext]_wvars PROVE Timed(file', last_pts')
  BY DEF FramesTimed
<1>1. /\ WTypeOK /\ Timed(file, last_pts) /\ file \in Seq(Cell)
      /\ Len(file) \in Nat /\ last_pts \in Nat /\ index \in Seq(EntryCell)
  BY LenProperties DEF WInv, WTypeOK, FramesTimed
<1>2. ASSUME NEW cells \in Seq(Cell), NEW k, PutsSome(cells, k), NEW t \in Nat,
             last_pts <= t, Timed(cells, t)
      PROVE  Timed(file', t)
  <2>1. /\ k \in 0 .. Len(cells) /\ SubSeq(cells, 1, k) \in Seq(Cell)
        /\ file' = file \o SubSeq(cells, 1, k)
    BY <1>1, <1>2, PutsShape DEF WTypeOK
  <2>2. Timed(SubSeq(cells, 1, k), t)
    BY <1>2, <2>1, TimedPrefix
  <2>3. Timed(file, t)
    BY <1>1, <1>2, TimedLater
  <2> QED
    BY <1>1, <2>1, <2>2, <2>3, TimedConcat
<1>3. ASSUME NEW h \in HeaderType
      PROVE  FileHeader(h) \in Cell /\ <<FileHeader(h)>> \in Seq(Cell)
             /\ FileHeader(h).k # "fh" /\ Timed(<<FileHeader(h)>>, last_pts)
  <2>1. FileHeader(h) \in Cell /\ FileHeader(h).k # "fh"
    BY HeaderTypes DEF FileHeader
  <2> QED
    BY <2>1 DEF Timed
<1>4. ASSUME NEW k \in 0 .. 4, EncoderOpen(k) PROVE Timed(file', last_pts')
  <2>1. PutsSome(OpeningCells, k) /\ last_pts' = last_pts
    BY <1>4 DEF EncoderOpen, OpeningCells
  <2>2. StreamInfoChunk(0, "video") \in Seq(Cell)
        /\ Timed(StreamInfoChunk(0, "video"), last_pts)
    BY <1>1, StreamInfoChunkShape, StreamInfoChunkTimed, FormatAssumption
    DEF StreamIds, StreamTypes
  <2>3. header \in HeaderType
    BY <1>1 DEF WTypeOK
  <2>4. Timed(OpeningCells, last_pts)
    BY <1>1, <1>3, <2>2, <2>3, TimedConcat DEF OpeningCells
  <2> QED
    BY <1>1, <1>2, <2>1, <2>4, OpeningShape
<1>5. ASSUME NEW sid \in StreamIds \ {0}, NEW k, WriteStreamInfo(sid, "audio", k)
      PROVE  Timed(file', last_pts')
  <2>1. "audio" \in StreamTypes
    BY DEF StreamTypes
  <2> QED
    BY <1>1, <1>2, <1>5, <2>1, StreamInfoChunkShape, StreamInfoChunkTimed
    DEF WriteStreamInfo
<1>6. ASSUME NEW f \in NewFrames, RecordEntry(f)
      PROVE  /\ f \in Frame /\ FrameChunk(f) \in Seq(Cell) /\ last_pts' \in Nat
             /\ last_pts <= last_pts' /\ Timed(FrameChunk(f), last_pts')
  <2>1. f \in Frame /\ f.pts \in Nat /\ Timed(FrameChunk(f), f.pts)
        /\ FrameChunk(f) \in Seq(Cell)
    BY <1>1, <1>6, RecordTypes, FrameChunkShape, FrameChunkTimed
  <2>2. last_pts' \in Nat /\ last_pts <= last_pts' /\ f.pts <= last_pts'
    BY <1>1, <1>6, <2>1 DEF RecordEntry
  <2> QED
    BY <2>1, <2>2, TimedLater
<1>7. ASSUME NEW f \in NewFrames, NEW k, WriteFrame(f, k)
      PROVE  Timed(file', last_pts')
  BY <1>2, <1>6, <1>7 DEF WriteFrame
<1>8. ASSUME NEW f \in NewFrames, WriteFrameNoPayload(f)
      PROVE  Timed(file', last_pts')
  <2>1. last_pts' \in Nat /\ last_pts <= last_pts' /\ file' = file
    BY <1>6, <1>8 DEF WriteFrameNoPayload
  <2> QED
    BY <1>1, <2>1, TimedLater
<1>9. ASSUME NEW k, WriteIndex(k) PROVE Timed(file', last_pts')
  <2>1. PutsSome(IndexChunk(index), k) /\ last_pts' = last_pts
    BY <1>9 DEF WriteIndex
  <2> QED
    BY <1>1, <1>2, <2>1, IndexChunkShape, IndexChunkTimed
<1>10. CASE WriteFrameNoRoom \/ WriteIndexNoPayload \/ WriteNoIndex \/ FinishHeader
            \/ UNCHANGED wvars
  <2>1. file' = file /\ last_pts' = last_pts
    BY <1>10
    DEF WriteFrameNoRoom, WriteIndexNoPayload, WriteNoIndex, FinishHeader, wvars
  <2> QED
    BY <1>1, <2>1
<1>11. ASSUME NEW m, FinishHeaderNoFlush(m) PROVE Timed(file', last_pts')
  <2>1. header' \in HeaderType /\ file' = Append(file, FileHeader(header'))
        /\ last_pts' = last_pts
    BY <1>1, <1>11 DEF FinishHeaderNoFlush, WTypeOK, HeaderType
  <2>2. file' = file \o <<FileHeader(header')>>
    BY <1>1, <1>3, <2>1, AppendIsConcat
  <2> QED
    BY <1>1, <1>3, <2>1, <2>2, TimedConcat
<1>12. CASE Ends
  <2>1. last_pts' = last_pts
    BY <1>12, EndShape
  <2>2. CASE file' = [file EXCEPT ![1] = FileHeader(header)] /\ Len(file) >= 1
    <3>1. header \in HeaderType
      BY <1>1 DEF WTypeOK
    <3>2. Len(file') = Len(file) /\ \A j \in 1 .. Len(file) :
              file'[j] = IF j = 1 THEN FileHeader(header) ELSE file[j]
      BY <1>1, <2>2, ExceptSeq
    <3> QED
      BY <1>1, <1>3, <2>1, <3>1, <3>2 DEF Timed
  <2>3. ASSUME NEW m \in 0 .. Len(file), file' = SubSeq(file, 1, m)
        PROVE  Timed(file', last_pts')
    BY <1>1, <2>1, <2>3, TimedPrefix
  <2> QED
    BY <1>1, <1>12, <2>1, <2>2, <2>3, EndShape
<1> QED
  BY <1>4, <1>5, <1>7, <1>8, <1>9, <1>10, <1>11, <1>12 DEF WNext, Ends

(* The header in the buffer carries the duration.                          *)
LEMMA FinalDurationKept == WInv /\ [WNext]_wvars => FinalDuration'
<1> SUFFICES ASSUME WInv, [WNext]_wvars PROVE FinalDuration'
  OBVIOUS
<1>1. /\ WTypeOK /\ FinalHeaderOrdered /\ FinalDuration
      /\ header \in HeaderType
  BY DEF WInv, WTypeOK
<1>2. ASSUME wst \in {"unopened", "open", "indexed"} PROVE ~rewound
  BY <1>1, <1>2 DEF FinalHeaderOrdered
<1>3. CASE FinishHeader
  <2>1. header'.duration_us = last_pts /\ last_pts' = last_pts
    BY <1>1, <1>3 DEF FinishHeader, HeaderType
  <2> QED
    BY <2>1 DEF FinalDuration
<1>4. CASE Ends
  BY <1>4 DEF Ends, Fclose, FcloseNoFlush, Crash, FinalDuration
<1>5. CASE UNCHANGED wvars
  BY <1>1, <1>5 DEF wvars, FinalDuration
<1>6. CASE WNext /\ ~FinishHeader /\ ~Ends
  <2>1. wst \in {"unopened", "open", "indexed"} /\ rewound' = rewound
    BY <1>6
    DEF WNext, Ends, EncoderOpen, WriteStreamInfo, WriteFrame,
        WriteFrameNoPayload, RecordEntry, WriteFrameNoRoom, WriteIndex,
        WriteIndexNoPayload, WriteNoIndex, FinishHeaderNoFlush
  <2> QED
    BY <1>2, <2>1 DEF FinalDuration
<1> QED
  BY <1>3, <1>4, <1>5, <1>6

(* A final header is put over a file whose frames it covers.               *)
LEMMA DurationKept ==
    WInv /\ [WNext]_wvars /\ ProvisionalHeader' => DurationCoversFrames'
<1> SUFFICES ASSUME WInv, [WNext]_wvars, ProvisionalHeader', file' # <<>>,
                    file'[1].index_offset # 0, NEW p \in 0 .. Len(file') - 1,
                    CellAt(file', p, "fh")
             PROVE  file'[p + 1].pts <= file'[1].duration_us
  BY DEF DurationCoversFrames
<1>1. /\ WTypeOK /\ ProvisionalHeader /\ DurationCoversFrames /\ FinalDuration
      /\ file \in Seq(Cell) /\ Len(file) \in Nat /\ header \in HeaderType
      /\ Timed(file, last_pts)
  BY LenProperties DEF WInv, WTypeOK, FramesTimed
<1>2. ~Live'
  BY DEF ProvisionalHeader, Live
<1>3. CASE UNCHANGED wvars
  BY <1>1, <1>3 DEF wvars, DurationCoversFrames
<1>4. CASE WNext
  <2>1. Live /\ Ends
    BY <1>1, <1>2, <1>4, StepShape
  <2>2. CASE UNCHANGED file
    BY <1>1, <2>1, <2>2 DEF ProvisionalHeader
  <2>3. CASE /\ file' = [file EXCEPT ![1] = FileHeader(header)]
             /\ Len(file) >= 1 /\ rewound
    <3>1. FileHeader(header).duration_us = last_pts /\ FileHeader(header).k # "fh"
      BY <1>1, <2>3 DEF FileHeader, FinalDuration
    <3>2. Len(file') = Len(file) /\ \A j \in 1 .. Len(file) :
              file'[j] = IF j = 1 THEN FileHeader(header) ELSE file[j]
      BY <1>1, <2>3, ExceptSeq
    <3>3. p + 1 \in 1 .. Len(file) /\ file'[p + 1].k = "fh"
      BY <1>1, <3>2 DEF CellAt
    <3>4. file'[p + 1] = file[p + 1] /\ file[p + 1].k = "fh"
      BY <3>1, <3>2, <3>3
    <3>5. file[p + 1].pts <= last_pts
      BY <1>1, <3>3, <3>4 DEF Timed
    <3> QED
      BY <2>3, <3>1, <3>2, <3>4, <3>5
  <2>4. ASSUME NEW m \in 0 .. Len(file), file' = SubSeq(file, 1, m)
        PROVE  FALSE
    <3>1. m >= 1
      BY <1>1, <2>4, PrefixShape, EmptySeq
    <3>2. file'[1] = file[1] /\ file # <<>>
      BY <1>1, <2>4, <3>1, PrefixShape
    <3> QED
      BY <1>1, <2>1, <3>2 DEF ProvisionalHeader
  <2> QED
    BY <2>1, <2>2, <2>3, <2>4, EndShape
<1> QED
  BY <1>3, <1>4

(* WInv holds before the file is opened.                                   *)
LEMMA WInvInit == WInit => WInv
<1> SUFFICES ASSUME WInit PROVE WInv
  OBVIOUS
<1>1. file = <<>> /\ index = <<>> /\ Len(index) = 0 /\ ~rewound
  BY DEF WInit
<1>2. WTypeOK /\ Opened /\ IndexReady /\ FinalHeaderOrdered
  BY <1>1, WInitTypes DEF WInit, Opened, IndexReady, FinalHeaderOrdered
<1>3. ChunksInPlace /\ ProvisionalHeader /\ GoodEntriesPointAtFrames
      /\ HeaderImpliesIndex /\ DurationCoversFrames
  BY <1>1 DEF ChunksInPlace, ProvisionalHeader, GoodEntriesPointAtFrames,
              HeaderImpliesIndex, DurationCoversFrames
<1>4. FramesTimed /\ FinalDuration
  BY <1>1 DEF FramesTimed, Timed, FinalDuration
<1> QED
  BY <1>2, <1>3, <1>4 DEF WInv

(* Every step of the writer keeps it.                                      *)
LEMMA WInvStep == WInv /\ [WNext]_wvars => WInv'
<1> SUFFICES ASSUME WInv, [WNext]_wvars PROVE WInv'
  OBVIOUS
<1>1. WTypeOK'
  BY TypesKept DEF WInv
<1>2. Opened' /\ ChunksInPlace' /\ ProvisionalHeader'
  BY OpenedKept, ChunksKept, HeaderKept
<1>3. IndexReady' /\ FinalHeaderOrdered'
  BY IndexKept
<1>4. GoodEntriesPointAtFrames' /\ HeaderImpliesIndex'
  BY <1>2, GoodEntriesKept, HeaderImpliesIndexKept
<1>5. FramesTimed' /\ FinalDuration' /\ DurationCoversFrames'
  BY <1>2, FramesTimedKept, FinalDurationKept, DurationKept
<1> QED
  BY <1>1, <1>2, <1>3, <1>4, <1>5 DEF WInv

(* The parts of WInv hold together in every reachable state.               *)
THEOREM WInvariant == WSpec => []WInv
  BY WInvInit, WInvStep, PTL DEF WSpec

(* Whatever fails, and wherever the process is killed, the index entry of  *)
(* every frame crap_write_frame accepted leads to that frame's chunk.      *)
THEOREM GoodEntries == WSpec => []GoodEntriesPointAtFrames
<1>1. WInv => GoodEntriesPointAtFrames
  BY DEF WInv
<1> QED
  BY <1>1, WInvariant, PTL

(* A header that names an index never reaches the disk before that index.  *)
THEOREM HeaderAfterIndex == WSpec => []HeaderImpliesIndex
<1>1. WInv => HeaderImpliesIndex
  BY DEF WInv
<1> QED
  BY <1>1, WInvariant, PTL

(* The duration in a final header is at least the timestamp of any frame   *)
(* in the file, in whatever order the two streams delivered them.          *)
THEOREM Duration == WSpec => []DurationCoversFrames
<1>1. WInv => DurationCoversFrames
  BY DEF WInv
<1> QED
  BY <1>1, WInvariant, PTL

-----------------------------------------------------------------------------
(* The streams a file announces.                                           *)

\* Every stream info is one of a registered stream, and the CRC behind it,
\* if it got out, is its own.
Told(cells, st) ==
    \A j \in 1 .. Len(cells) : cells[j].k = "sinf" =>
        /\ cells[j].sid \in StreamIds
        /\ cells[j].type = st[cells[j].sid] /\ cells[j].type # "none"
        /\ j + 1 <= Len(cells) /\ cells[j + 1].k = "crc" =>
               cells[j + 1] = Crc(<<cells[j]>>)

Silent(cells) == \A j \in 1 .. Len(cells) : cells[j].k # "sinf"
Begins(cells) == Len(cells) >= 1 => cells[1].k # "crc"

(* Cells without a stream info announce nothing wrong.                     *)
LEMMA SilentTold == ASSUME NEW cells, NEW st, Silent(cells) PROVE Told(cells, st)
  BY DEF Silent, Told

(* Neither do two such runs of cells, one behind the other.                *)
LEMMA SilentConcat ==
    ASSUME NEW a \in Seq(Cell), NEW b \in Seq(Cell), Silent(a), Silent(b)
    PROVE  Silent(a \o b)
<1>1. Len(a) \in Nat /\ Len(b) \in Nat
  BY LenProperties
<1> SUFFICES ASSUME NEW j \in 1 .. Len(a) + Len(b) PROVE (a \o b)[j].k # "sinf"
  BY ConcatProperties DEF Silent
<1>2. CASE j <= Len(a)
  BY <1>1, <1>2, ConcatProperties DEF Silent
<1>3. CASE ~(j <= Len(a))
  <2>1. j - Len(a) \in 1 .. Len(b) /\ (a \o b)[j] = b[j - Len(a)]
    BY <1>1, <1>3, ConcatProperties
  <2> QED
    BY <2>1 DEF Silent
<1> QED
  BY <1>2, <1>3

(* The header and the CRC of a chunk are no stream infos.                  *)
LEMMA ChunkSilent ==
    ASSUME NEW id \in Ids, NEW payload \in Seq(BareCell), Silent(payload)
    PROVE  Silent(Chunk(id, payload))
<1> SUFFICES ASSUME NEW j \in 1 .. Len(Chunk(id, payload))
             PROVE  Chunk(id, payload)[j].k # "sinf"
  BY DEF Silent
<1>1. ChunkHeader(id, Len(payload)).k # "sinf" /\ Crc(payload).k # "sinf"
  BY DEF ChunkHeader, Crc
<1> QED
  BY <1>1, ChunkCells DEF Silent

(* What a chunk begins with.                                               *)
LEMMA ChunkBegins ==
    ASSUME NEW id \in Ids, NEW payload \in Seq(BareCell)
    PROVE  Chunk(id, payload)[1].k = "chunk" /\ Begins(Chunk(id, payload))
<1>1. Chunk(id, payload)[1] = ChunkHeader(id, Len(payload))
  BY ChunkShape
<1>2. ChunkHeader(id, Len(payload)).k = "chunk"
  BY DEF ChunkHeader
<1> QED
  BY <1>1, <1>2 DEF Begins

(* A frame chunk announces no stream.                                      *)
LEMMA FrameChunkSilent ==
    ASSUME NEW f \in Frame
    PROVE  Silent(FrameChunk(f)) /\ Begins(FrameChunk(f))
<1>1. f.size \in Nat /\ f.n \in Nat
  BY FormatAssumption DEF Frame
<1>2. FrameHeader(f) \in BareCell /\ FrameHeader(f).k # "sinf"
  BY DEF FrameHeader, BareCell, Frame
<1>3. \A j \in 1 .. f.size : Data(f.n, j) \in BareCell /\ Data(f.n, j).k # "sinf"
  BY <1>1 DEF Data, BareCell
<1>4. FrameData(f) \in [1 .. f.size -> BareCell]
  BY <1>3 DEF FrameData
<1>5. FrameData(f) \in Seq(BareCell) /\ Len(FrameData(f)) = f.size
  BY <1>1, <1>4, SeqDef, LenProperties
<1>6. Silent(FrameData(f))
  BY <1>3, <1>5 DEF Silent, FrameData
<1>7. <<FrameHeader(f)>> \in Seq(BareCell) /\ Silent(<<FrameHeader(f)>>)
  BY <1>2 DEF Silent
<1>8. FramePayload(f) \in Seq(BareCell)
  BY <1>5, <1>7, ConcatProperties DEF FramePayload
<1>9. Silent(FramePayload(f))
  BY <1>5, <1>6, <1>7, SilentConcat, SeqMonotonic DEF FramePayload, Cell
<1> QED
  BY <1>8, <1>9, ChunkSilent, ChunkBegins DEF FrameChunk, Ids

(* Neither does an index chunk.                                            *)
LEMMA IndexChunkSilent ==
    ASSUME NEW ix \in Seq(EntryCell)
    PROVE  Silent(IndexChunk(ix)) /\ Begins(IndexChunk(ix))
<1>1. ix \in Seq(BareCell) /\ Len(ix) \in Nat
  BY EntriesAreCells, SeqMonotonic, LenProperties
<1>2. Count(Len(ix)) \in BareCell /\ Count(Len(ix)).k # "sinf"
  BY <1>1 DEF Count, BareCell
<1>3. <<Count(Len(ix))>> \in Seq(BareCell) /\ Silent(<<Count(Len(ix))>>)
  BY <1>2 DEF Silent
<1>4. \A j \in 1 .. Len(ix) : ix[j] \in EntryCell
  BY ElementOfSeq
<1>5. Silent(ix)
  BY <1>4 DEF Silent, EntryCell
<1>6. IndexPayload(ix) \in Seq(BareCell) /\ Silent(IndexPayload(ix))
  BY <1>1, <1>3, <1>5, ConcatProperties, SilentConcat, SeqMonotonic
  DEF IndexPayload, Cell
<1> QED
  BY <1>6, ChunkSilent, ChunkBegins DEF IndexChunk, Ids

(* The three cells of a stream info.                                       *)
LEMMA InfoCells ==
    ASSUME NEW sid \in StreamIds, NEW type \in StreamTypes
    PROVE  LET c == StreamInfoChunk(sid, type)
           IN  /\ Len(c) = 3 /\ c[1].k = "chunk" /\ c[2] = StreamInfo(sid, type)
               /\ c[3] = Crc(<<StreamInfo(sid, type)>>)
  BY DEF StreamInfoChunk, Chunk, ChunkHeader, Crc

(* A stream info chunk announces the stream it was made for.               *)
LEMMA InfoTold ==
    ASSUME NEW sid \in StreamIds, NEW type \in StreamTypes \ {"none"}, NEW st, st[sid] = type
    PROVE  Told(StreamInfoChunk(sid, type), st) /\ Begins(StreamInfoChunk(sid, type))
<1> DEFINE c == StreamInfoChunk(sid, type)
<1>1. /\ Len(c) = 3 /\ c[1].k = "chunk" /\ c[2] = StreamInfo(sid, type)
      /\ c[3] = Crc(<<StreamInfo(sid, type)>>)
  BY InfoCells
<1> HIDE DEF c
<1>2. c[3].k = "crc" /\ c[2].sid = sid /\ c[2].type = type
  BY <1>1 DEF Crc, StreamInfo
<1>3. Told(c, st)
  <2> SUFFICES ASSUME NEW j \in 1 .. 3, c[j].k = "sinf"
               PROVE  /\ c[j].sid \in StreamIds /\ c[j].type = st[c[j].sid] /\ c[j].type # "none"
                      /\ j + 1 <= Len(c) /\ c[j + 1].k = "crc" => c[j + 1] = Crc(<<c[j]>>)
    BY <1>1 DEF Told
  <2>1. j = 2
    BY <1>1, <1>2
  <2> QED
    BY <1>1, <1>2, <2>1
<1>4. Begins(c)
  BY <1>1 DEF Begins
<1> QED
  BY <1>3, <1>4 DEF c

(* Appending what does not begin with a CRC keeps every CRC in place.      *)
LEMMA ToldConcat ==
    ASSUME NEW a \in Seq(Cell), NEW b \in Seq(Cell), NEW st, Told(a, st), Told(b, st), Begins(b)
    PROVE  Told(a \o b, st)
<1> DEFINE s == a \o b
<1>1. Len(a) \in Nat /\ Len(b) \in Nat /\ Len(s) = Len(a) + Len(b)
  BY LenProperties, ConcatProperties
<1>2. \A j \in 1 .. Len(a) + Len(b) : s[j] = IF j <= Len(a) THEN a[j] ELSE b[j - Len(a)]
  BY ConcatProperties
<1> HIDE DEF s
<1> SUFFICES ASSUME NEW j \in 1 .. Len(a) + Len(b), s[j].k = "sinf"
             PROVE  /\ s[j].sid \in StreamIds /\ s[j].type = st[s[j].sid] /\ s[j].type # "none"
                    /\ j + 1 <= Len(s) /\ s[j + 1].k = "crc" => s[j + 1] = Crc(<<s[j]>>)
  BY <1>1 DEF Told, s
<1>3. CASE j < Len(a)
  <2>1. s[j] = a[j] /\ s[j + 1] = a[j + 1] /\ j \in 1 .. Len(a) /\ j + 1 <= Len(a)
    BY <1>1, <1>2, <1>3
  <2> QED
    BY <2>1 DEF Told
<1>4. CASE j = Len(a)
  <2>1. s[j] = a[j] /\ j \in 1 .. Len(a)
    BY <1>1, <1>2, <1>4
  <2>2. j + 1 <= Len(s) => s[j + 1] = b[1] /\ Len(b) >= 1
    BY <1>1, <1>2, <1>4
  <2> QED
    BY <2>1, <2>2 DEF Told, Begins
<1>5. CASE j > Len(a)
  <2> DEFINE i == j - Len(a)
  <2>1. s[j] = b[i] /\ i \in 1 .. Len(b)
    BY <1>1, <1>2, <1>5
  <2>2. j + 1 <= Len(s) => s[j + 1] = b[i + 1] /\ i + 1 <= Len(b)
    BY <1>1, <1>2, <1>5
  <2> HIDE DEF i
  <2> QED
    BY <2>1, <2>2 DEF Told
<1> QED
  BY <1>1, <1>3, <1>4, <1>5

(* What is true of every stream info of a file is true of a prefix.        *)
LEMMA ToldPrefix ==
    ASSUME NEW a \in Seq(Cell), NEW m \in 0 .. Len(a), NEW st, Told(a, st)
    PROVE  Told(SubSeq(a, 1, m), st) /\ (Begins(a) => Begins(SubSeq(a, 1, m)))
<1> DEFINE s == SubSeq(a, 1, m)
<1>1. Len(a) \in Nat /\ Len(s) = m /\ \A i \in 1 .. m : s[i] = a[i]
  BY LenProperties, PrefixShape
<1> HIDE DEF s
<1>2. Begins(a) => Begins(s)
  BY <1>1 DEF Begins
<1> SUFFICES ASSUME NEW j \in 1 .. m, s[j].k = "sinf"
             PROVE  /\ s[j].sid \in StreamIds /\ s[j].type = st[s[j].sid] /\ s[j].type # "none"
                    /\ j + 1 <= m /\ s[j + 1].k = "crc" => s[j + 1] = Crc(<<s[j]>>)
  BY <1>1, <1>2 DEF Told, s
<1>3. j \in 1 .. Len(a) /\ s[j] = a[j] /\ (j + 1 <= m => s[j + 1] = a[j + 1] /\ j + 1 <= Len(a))
  BY <1>1
<1> QED
  BY <1>3 DEF Told

StreamsTold == Told(file, streams)
HeaderFirst == file # <<>> => file[1].k = "file"

(* What is written is told by what is registered before it.                *)
LEMMA StreamsToldKept == WInv /\ StreamsTold /\ [WNext]_wvars => StreamsTold'
<1> SUFFICES ASSUME WInv, StreamsTold, [WNext]_wvars PROVE Told(file', streams')
  BY DEF StreamsTold
<1>1. /\ WTypeOK /\ Told(file, streams) /\ file \in Seq(Cell) /\ Len(file) \in Nat
      /\ index \in Seq(EntryCell) /\ streams \in [StreamIds -> StreamTypes]
      /\ header \in HeaderType
  BY LenProperties DEF WInv, WTypeOK, StreamsTold
<1>2. ASSUME NEW cells \in Seq(Cell), NEW k, PutsSome(cells, k), NEW st,
             Told(file, st), Told(cells, st), Begins(cells)
      PROVE  Told(file', st)
  <2>1. /\ k \in 0 .. Len(cells) /\ SubSeq(cells, 1, k) \in Seq(Cell)
        /\ file' = file \o SubSeq(cells, 1, k)
    BY <1>1, <1>2, PutsShape DEF WTypeOK
  <2>2. Told(SubSeq(cells, 1, k), st) /\ Begins(SubSeq(cells, 1, k))
    BY <1>2, <2>1, ToldPrefix
  <2> QED
    BY <1>1, <1>2, <2>1, <2>2, ToldConcat
<1>3. ASSUME NEW h \in HeaderType
      PROVE  /\ FileHeader(h) \in Cell /\ <<FileHeader(h)>> \in Seq(Cell)
             /\ FileHeader(h).k = "file" /\ Silent(<<FileHeader(h)>>) /\ Begins(<<FileHeader(h)>>)
  <2>1. FileHeader(h) \in Cell /\ FileHeader(h).k = "file"
    BY HeaderTypes DEF FileHeader
  <2> QED
    BY <2>1 DEF Silent, Begins
<1>4. ASSUME NEW k \in 0 .. 4, EncoderOpen(k) PROVE Told(file', streams')
  <2>1. PutsSome(OpeningCells, k) /\ file = <<>> /\ RegisterStream(0, "video")
    BY <1>4 DEF EncoderOpen, OpeningCells, WInv, Opened
  <2>2. streams' = [streams EXCEPT ![0] = "video"]
    BY <2>1 DEF RegisterStream
  <2>3. 0 \in StreamIds /\ "video" \in StreamTypes \ {"none"} /\ streams'[0] = "video"
    BY <1>1, <2>2, FormatAssumption DEF StreamIds, StreamTypes
  <2>4. /\ StreamInfoChunk(0, "video") \in Seq(Cell)
        /\ Told(StreamInfoChunk(0, "video"), streams') /\ Begins(StreamInfoChunk(0, "video"))
    BY <2>3, StreamInfoChunkShape, InfoTold
  <2>5. Told(OpeningCells, streams')
    BY <1>1, <1>3, <2>4, ToldConcat, SilentTold DEF OpeningCells
  <2>6. OpeningCells \in Seq(Cell) /\ Begins(OpeningCells)
    BY <1>1, <1>3, OpeningShape DEF Begins
  <2>7. Told(file, streams')
    BY <2>1 DEF Told
  <2> QED
    BY <1>2, <2>1, <2>5, <2>6, <2>7
<1>5. ASSUME NEW sid \in StreamIds \ {0}, NEW k, WriteStreamInfo(sid, "audio", k)
      PROVE  Told(file', streams')
  <2>1. /\ streams[sid] = "none" /\ RegisterStream(sid, "audio")
        /\ PutsSome(StreamInfoChunk(sid, "audio"), k)
    BY <1>5 DEF WriteStreamInfo
  <2>2. streams' = [streams EXCEPT ![sid] = "audio"]
    BY <2>1 DEF RegisterStream
  <2>3. "audio" \in StreamTypes \ {"none"} /\ streams'[sid] = "audio"
    BY <1>1, <2>2 DEF StreamTypes
  <2>4. /\ StreamInfoChunk(sid, "audio") \in Seq(Cell)
        /\ Told(StreamInfoChunk(sid, "audio"), streams') /\ Begins(StreamInfoChunk(sid, "audio"))
    BY <2>3, StreamInfoChunkShape, InfoTold
  <2>5. \A s \in StreamIds : streams[s] # "none" => streams'[s] = streams[s]
    BY <1>1, <2>1, <2>2
  <2>6. Told(file, streams')
    BY <1>1, <2>5 DEF Told
  <2> QED
    BY <1>2, <2>1, <2>4, <2>6
<1>6. ASSUME NEW f \in NewFrames, NEW k, WriteFrame(f, k)
      PROVE  Told(file', streams')
  <2>1. f \in Frame /\ FrameChunk(f) \in Seq(Cell) /\ streams' = streams
        /\ PutsSome(FrameChunk(f), k)
    BY <1>1, <1>6, RecordTypes, FrameChunkShape DEF WriteFrame, RecordEntry
  <2> QED
    BY <1>1, <1>2, <2>1, FrameChunkSilent, SilentTold
<1>7. ASSUME NEW k, WriteIndex(k) PROVE Told(file', streams')
  <2>1. PutsSome(IndexChunk(index), k) /\ streams' = streams
    BY <1>7 DEF WriteIndex
  <2> QED
    BY <1>1, <1>2, <2>1, IndexChunkShape, IndexChunkSilent, SilentTold
<1>8. ASSUME NEW f \in NewFrames, WriteFrameNoPayload(f) PROVE Told(file', streams')
  <2>1. file' = file /\ streams' = streams
    BY <1>8 DEF WriteFrameNoPayload, RecordEntry
  <2> QED
    BY <1>1, <2>1
<1>9. CASE WriteFrameNoRoom \/ WriteIndexNoPayload \/ WriteNoIndex \/ FinishHeader
            \/ UNCHANGED wvars
  <2>1. file' = file /\ streams' = streams
    BY <1>9
    DEF WriteFrameNoRoom, WriteIndexNoPayload, WriteNoIndex, FinishHeader, wvars
  <2> QED
    BY <1>1, <2>1
<1>10. ASSUME NEW m, FinishHeaderNoFlush(m) PROVE Told(file', streams')
  <2>1. header' \in HeaderType /\ file' = Append(file, FileHeader(header'))
        /\ streams' = streams
    BY <1>1, <1>10 DEF FinishHeaderNoFlush, WTypeOK, HeaderType
  <2>2. file' = file \o <<FileHeader(header')>>
    BY <1>1, <1>3, <2>1, AppendIsConcat
  <2> DEFINE h == <<FileHeader(header')>>
  <2>3. h \in Seq(Cell) /\ Silent(h) /\ Begins(h)
    BY <1>3, <2>1
  <2> HIDE DEF h
  <2>4. Told(h, streams)
    BY <2>3, SilentTold
  <2>5. Told(file \o h, streams)
    BY <1>1, <2>3, <2>4, ToldConcat
  <2> QED
    BY <2>1, <2>2, <2>5 DEF h
<1>11. CASE Ends
  <2>1. streams' = streams
    BY <1>11 DEF Ends, Fclose, FcloseNoFlush, Crash
  <2>2. CASE file' = [file EXCEPT ![1] = FileHeader(header)] /\ Len(file) >= 1
    <3>1. Len(file') = Len(file) /\ \A j \in 1 .. Len(file) :
              file'[j] = IF j = 1 THEN FileHeader(header) ELSE file[j]
      BY <1>1, <2>2, ExceptSeq
    <3>2. FileHeader(header).k = "file"
      BY <1>1, <1>3
    <3>3. ASSUME NEW j \in 1 .. Len(file'), file'[j].k = "sinf"
          PROVE  /\ file'[j] = file[j] /\ j \in 1 .. Len(file)
                 /\ j + 1 <= Len(file') => file'[j + 1] = file[j + 1] /\ j + 1 <= Len(file)
      BY <1>1, <3>1, <3>2, <3>3
    <3> QED
      BY <1>1, <2>1, <3>3 DEF Told
  <2>3. ASSUME NEW m \in 0 .. Len(file), file' = SubSeq(file, 1, m)
        PROVE  Told(file', streams')
    BY <1>1, <2>1, <2>3, ToldPrefix
  <2> QED
    BY <1>1, <1>11, <2>1, <2>2, <2>3, EndShape
<1> QED
  BY <1>4, <1>5, <1>6, <1>7, <1>8, <1>9, <1>10, <1>11 DEF WNext, Ends

(* The first cell of a file is its header.                                 *)
LEMMA HeaderFirstKept == WInv /\ HeaderFirst /\ [WNext]_wvars => HeaderFirst'
<1> SUFFICES ASSUME WInv, HeaderFirst, [WNext]_wvars, file' # <<>> PROVE file'[1].k = "file"
  BY DEF HeaderFirst
<1>1. WTypeOK /\ file \in Seq(Cell) /\ Len(file) \in Nat /\ header \in HeaderType
  BY LenProperties DEF WInv, WTypeOK
<1>2. FileHeader(header).k = "file"
  BY DEF FileHeader
<1>3. ASSUME NEW k \in 0 .. 4, EncoderOpen(k) PROVE file'[1].k = "file"
  <2>1. PutsSome(OpeningCells, k) /\ file = <<>>
    BY <1>3 DEF EncoderOpen, OpeningCells, WInv, Opened
  <2>2. OpeningCells \in Seq(Cell) /\ OpeningCells[1].k = "file" /\ Len(OpeningCells) >= 1
    BY <1>1, <1>2, OpeningShape
  <2>3. k \in 0 .. Len(OpeningCells) /\ file' = file \o SubSeq(OpeningCells, 1, k)
        /\ SubSeq(OpeningCells, 1, k) \in Seq(Cell)
    BY <1>1, <2>1, <2>2, PutsShape DEF WTypeOK
  <2>4. file' = SubSeq(OpeningCells, 1, k)
    BY <2>1, <2>3, ConcatEmptySeq
  <2>5. k >= 1 /\ file'[1] = OpeningCells[1]
    BY <2>2, <2>3, <2>4, PrefixShape, LenProperties, EmptySeq
  <2> QED
    BY <2>2, <2>5
<1>4. CASE Appends /\ file # <<>>
  <2>1. PICK more \in Seq(Cell) : file' = file \o more
    BY <1>4 DEF Appends
  <2>2. Len(file) >= 1 /\ Len(more) \in Nat
    BY <1>1, <1>4, EmptySeq, LenProperties
  <2>3. file'[1] = file[1]
    BY <1>1, <2>1, <2>2, ConcatProperties
  <2> QED
    BY <1>4, <2>3 DEF HeaderFirst
<1>5. CASE Appends /\ ~ (\E k \in 0 .. 4 : EncoderOpen(k)) /\ WNext
  <2>1. CASE file # <<>>
    BY <1>4, <1>5, <2>1
  <2>2. CASE file = <<>>
    <3>1. wst \notin {"open", "indexed"}
      BY <2>2 DEF WInv, Opened
    <3>2. Ends
      BY <1>5, <3>1
      DEF WNext, Ends, WriteStreamInfo, WriteFrame, WriteFrameNoPayload, RecordEntry,
          WriteFrameNoRoom, WriteIndex, WriteIndexNoPayload, WriteNoIndex, FinishHeader,
          FinishHeaderNoFlush
    <3>3. file' = <<>>
      <4>1. ~ (Len(file) >= 1)
        BY <2>2, EmptySeq
      <4>2. Len(file) = 0
        BY <2>2
      <4>3. ASSUME NEW m \in 0 .. Len(file), file' = SubSeq(file, 1, m) PROVE file' = <<>>
        BY <1>1, <4>2, <4>3, PrefixShape, EmptySeq
      <4> QED
        BY <2>2, <3>2, <4>1, <4>3, EndShape
    <3> QED
      BY <3>3
  <2> QED
    BY <2>1, <2>2
<1>6. CASE Ends
  <2>1. CASE file' = file
    BY <2>1 DEF HeaderFirst
  <2>2. CASE file' = [file EXCEPT ![1] = FileHeader(header)] /\ Len(file) >= 1
    <3>1. file'[1] = FileHeader(header)
      BY <1>1, <2>2, ExceptSeq
    <3> QED
      BY <1>2, <3>1
  <2>3. ASSUME NEW m \in 0 .. Len(file), file' = SubSeq(file, 1, m)
        PROVE  file'[1].k = "file"
    <3>1. m >= 1 /\ file'[1] = file[1] /\ file # <<>>
      BY <1>1, <2>3, PrefixShape, EmptySeq
    <3> QED
      BY <3>1 DEF HeaderFirst
  <2> QED
    BY <1>6, <2>1, <2>2, <2>3, EndShape
<1>7. CASE UNCHANGED wvars
  BY <1>7 DEF wvars, HeaderFirst
<1> QED
  BY <1>1, <1>3, <1>5, <1>6, <1>7, StepShape

FramesWithin(ix, tries, q) ==
    \A i \in 1 .. Len(ix) :
        tries[i].ok => ix[i].off + Len(FrameChunk(tries[i].f)) <= q

\* The index lies behind every frame it leads to.
FramesBeforeIndex ==
    /\ header.index_offset # 0 => FramesWithin(index, attempts, header.index_offset)
    /\ file # <<>> /\ file[1].index_offset # 0 =>
           FramesWithin(index, attempts, file[1].index_offset)

(* The index is written behind the last frame, and found there.            *)
LEMMA FramesBeforeIndexKept ==
    ASSUME WInv, FramesBeforeIndex, [WNext]_wvars, ProvisionalHeader'
    PROVE  FramesBeforeIndex'
<1>1. WTypeOK /\ file \in Seq(Cell) /\ Len(file) \in Nat /\ header \in HeaderType
  BY LenProperties DEF WInv, WTypeOK
<1>2. SameEntries => \A q : FramesWithin(index', attempts', q) <=> FramesWithin(index, attempts, q)
  BY DEF SameEntries
<1>3. ASSUME header'.index_offset # 0 PROVE FramesWithin(index', attempts', header'.index_offset)
  <2>1. CASE header'.index_offset = header.index_offset
    <3>1. SameEntries
      <4>1. CASE UNCHANGED wvars
        BY <4>1 DEF wvars, SameEntries
      <4>2. CASE Ends
        BY <4>2 DEF Ends, Fclose, FcloseNoFlush, Crash, SameEntries
      <4>3. wst # "open" \/ header.index_offset = 0
        BY DEF WInv, Opened
      <4>4. CASE NewEntry
        BY <1>3, <2>1, <4>3, <4>4 DEF NewEntry
      <4> QED
        BY <1>1, <4>1, <4>2, <4>4, StepShape
    <3> QED
      BY <1>2, <1>3, <2>1, <3>1 DEF FramesBeforeIndex
  <2>2. CASE header'.index_offset # header.index_offset
    <3>1. ASSUME NEW k \in 0 .. 4, EncoderOpen(k) PROVE FALSE
      <4>1. RegisterStream(0, "video")
        BY <3>1 DEF EncoderOpen
      <4> QED
        BY <1>1, <2>2, <4>1, RegisterTypes, FormatAssumption
        DEF StreamIds, StreamTypes, WTypeOK
    <3>2. ASSUME NEW sid \in StreamIds \ {0}, NEW k \in 0 .. 3,
                 WriteStreamInfo(sid, "audio", k)
          PROVE  FALSE
      BY <1>1, <2>2, <3>2, RegisterTypes DEF WriteStreamInfo, StreamTypes, WTypeOK
    <3>3. ~ \E f \in NewFrames : RecordEntry(f)
      BY <2>2 DEF RecordEntry
    <3>4. ~ WriteFrameNoRoom /\ ~ WriteNoIndex /\ ~ Ends /\ ~ UNCHANGED wvars
      BY <2>2 DEF WriteFrameNoRoom, WriteNoIndex, Ends, Fclose, FcloseNoFlush, Crash, wvars
    <3>5. ~ FinishHeader /\ ~ \E m : FinishHeaderNoFlush(m)
      BY <1>1, <2>2 DEF FinishHeader, FinishHeaderNoFlush, HeaderType
    <3>6. WriteIndexNoPayload \/ \E k : WriteIndex(k)
      BY <3>1, <3>2, <3>3, <3>4, <3>5 DEF WNext, Ends, WriteFrame, WriteFrameNoPayload
    <3>7. header'.index_offset = Len(file) /\ SameEntries /\ wst = "open"
      BY <1>1, <3>6 DEF WriteIndexNoPayload, WriteIndex, SameEntries, HeaderType
    <3>8. FramesWithin(index, attempts, Len(file))
      BY <3>7 DEF WInv, ChunksInPlace, Live, HoldsAt, FramesWithin
    <3> QED
      BY <1>2, <3>7, <3>8
  <2> QED
    BY <2>1, <2>2
<1>4. ASSUME file' # <<>>, file'[1].index_offset # 0
      PROVE  FramesWithin(index', attempts', file'[1].index_offset)
  <2>1. ~ Live'
    BY <1>4 DEF ProvisionalHeader
  <2>2. CASE UNCHANGED wvars
    BY <1>4, <2>2 DEF wvars, FramesBeforeIndex, FramesWithin
  <2>3. CASE Ends
    <3>1. SameEntries
      BY <2>3, EndShape DEF SameEntries
    <3>2. CASE file' = file
      BY <1>2, <1>4, <3>1, <3>2 DEF FramesBeforeIndex
    <3>3. CASE file' = [file EXCEPT ![1] = FileHeader(header)] /\ Len(file) >= 1
      <4>1. file'[1] = FileHeader(header)
        BY <1>1, <3>3, ExceptSeq
      <4>2. file'[1].index_offset = header.index_offset
        BY <1>1, <4>1, HeaderTypes
      <4> QED
        BY <1>2, <1>4, <3>1, <4>2 DEF FramesBeforeIndex
    <3>4. ASSUME NEW m \in 0 .. Len(file), file' = SubSeq(file, 1, m)
          PROVE  FramesWithin(index', attempts', file'[1].index_offset)
      <4>1. m >= 1 /\ file'[1] = file[1] /\ file # <<>>
        BY <1>1, <1>4, <3>4, PrefixShape, EmptySeq
      <4> QED
        BY <1>2, <1>4, <3>1, <4>1 DEF FramesBeforeIndex
    <3> QED
      BY <2>3, <3>2, <3>3, <3>4, EndShape
  <2> QED
    BY <1>1, <2>1, <2>2, <2>3, StepShape
<1> QED
  BY <1>3, <1>4 DEF FramesBeforeIndex

-----------------------------------------------------------------------------
(* What crap_open_read makes of an image.                                  *)

(* The recursion of InfoEnd: from 1 by threes until a place that is not    *)
(* one of P.                                                               *)
LEMMA StepsExist ==
    ASSUME NEW P \in SUBSET Nat, NEW n \in Nat, \A p \in P : p < n, NEW p \in Nat
    PROVE  \E k \in Nat : p + 3 * k \notin P /\ \A j \in 0 .. k - 1 : p + 3 * j \in P
<1> DEFINE S == {k \in Nat : p + 3 * k \notin P}
<1>1. S \in SUBSET Nat /\ n \in S
  BY DEF S
<1>2. PICK k \in S : \A r \in S : k <= r
  BY <1>1, Least
<1>3. \A j \in 0 .. k - 1 : p + 3 * j \in P
  <2> SUFFICES ASSUME NEW j \in 0 .. k - 1, p + 3 * j \notin P PROVE FALSE
    OBVIOUS
  <2>1. k \in Nat
    OBVIOUS
  <2>2. j \in Nat /\ j < k
    BY <2>1
  <2>3. j \in S
    BY <2>2
  <2> QED
    BY <1>2, <2>1, <2>2, <2>3
<1> QED
  BY <1>2, <1>3

(* There is one such place.                                                *)
LEMMA StepsSame ==
    ASSUME NEW P \in SUBSET Nat, NEW p \in Nat, NEW a \in Nat, NEW b \in Nat,
           p + 3 * a \notin P, \A j \in 0 .. a - 1 : p + 3 * j \in P,
           p + 3 * b \notin P, \A j \in 0 .. b - 1 : p + 3 * j \in P
    PROVE  a = b
<1>1. ~ (a < b)
  <2>1. a < b => a \in 0 .. b - 1
    OBVIOUS
  <2> QED
    BY <2>1
<1>2. ~ (b < a)
  <2>1. b < a => b \in 0 .. a - 1
    OBVIOUS
  <2> QED
    BY <2>1
<1> QED
  BY <1>1, <1>2

(* So the recursion has a solution: the function that looks it up.         *)
LEMMA ByThrees ==
    ASSUME NEW P \in SUBSET Nat, NEW n \in Nat, \A p \in P : p < n
    PROVE  \E f : f = [p \in Nat |-> IF p \in P THEN f[p + 3] ELSE p]
<1> DEFINE Ok(p, k) == p + 3 * k \notin P /\ \A j \in 0 .. k - 1 : p + 3 * j \in P
           K(p) == CHOOSE k \in Nat : Ok(p, k)
           f == [p \in Nat |-> p + 3 * K(p)]
<1>1. ASSUME NEW p \in Nat PROVE K(p) \in Nat /\ Ok(p, K(p))
  BY StepsExist
<1>2. ASSUME NEW p \in Nat, NEW k \in Nat, Ok(p, k) PROVE K(p) = k
  <2>1. K(p) \in Nat /\ Ok(p, K(p))
    BY <1>1
  <2> QED
    BY <1>2, <2>1, StepsSame
<1> HIDE DEF K
<1>3. ASSUME NEW p \in Nat PROVE p + 3 * K(p) = IF p \in P THEN f[p + 3] ELSE p
  <2>1. CASE p \notin P
    <3>1. Ok(p, 0)
      BY <2>1
    <3>2. K(p) = 0
      BY <1>2, <3>1
    <3> QED
      BY <2>1, <3>2
  <2>2. CASE p \in P
    <3> DEFINE k == K(p + 3)
    <3>1. k \in Nat /\ Ok(p + 3, k) /\ p + 3 \in Nat
      BY <1>1
    <3>2. Ok(p, k + 1)
      <4>1. p + 3 * (k + 1) \notin P
        <5>1. p + 3 * (k + 1) = p + 3 + 3 * k
          BY <3>1
        <5> QED
          BY <3>1, <5>1
      <4>2. ASSUME NEW j \in 0 .. k PROVE p + 3 * j \in P
        <5>1. CASE j = 0
          BY <2>2, <5>1
        <5>2. CASE j # 0
          <6>1. j - 1 \in 0 .. k - 1 /\ p + 3 * j = p + 3 + 3 * (j - 1)
            BY <3>1, <5>2
          <6> QED
            BY <3>1, <6>1
        <5> QED
          BY <5>1, <5>2
      <4>3. (k + 1) - 1 = k
        BY <3>1
      <4> QED
        BY <4>1, <4>2, <4>3
    <3>3. K(p) = k + 1
      <4>1. k + 1 \in Nat
        BY <3>1
      <4> HIDE DEF k, Ok
      <4> QED
        BY <1>2, <3>2, <4>1
    <3>4. f[p + 3] = p + 3 + 3 * k
      BY <3>1
    <3> QED
      BY <2>2, <3>1, <3>3, <3>4
  <2> QED
    BY <2>1, <2>2
<1>4. f = [p \in Nat |-> IF p \in P THEN f[p + 3] ELSE p]
  BY <1>3
<1> QED
  BY <1>4

(* And every solution stops there.                                         *)
LEMMA WhereItStops ==
    ASSUME NEW P \in SUBSET Nat, NEW n \in Nat, \A p \in P : p < n,
           NEW f, f = [p \in Nat |-> IF p \in P THEN f[p + 3] ELSE p]
    PROVE  \E k \in Nat : /\ f[1] = 1 + 3 * k /\ 1 + 3 * k \notin P
                          /\ \A j \in 0 .. k - 1 : 1 + 3 * j \in P
<1>1. PICK k \in Nat : 1 + 3 * k \notin P /\ \A j \in 0 .. k - 1 : 1 + 3 * j \in P
  BY StepsExist
<1> DEFINE S == {j \in 0 .. k : f[1 + 3 * j] # f[1]}
<1>2. S = {}
  <2> SUFFICES ASSUME S # {} PROVE FALSE
    OBVIOUS
  <2>1. S \in SUBSET Nat
    OBVIOUS
  <2>2. PICK j \in S : \A r \in S : j <= r
    BY <2>1, Least
  <2>3. j # 0
    BY <2>2
  <2>4. j - 1 \in 0 .. k - 1 /\ j - 1 \in 0 .. k /\ ~ (j <= j - 1)
    BY <2>1, <2>3
  <2>5. f[1 + 3 * (j - 1)] = f[1]
    BY <2>2, <2>4
  <2>6. 1 + 3 * (j - 1) \in P /\ 1 + 3 * (j - 1) \in Nat /\ 1 + 3 * (j - 1) + 3 = 1 + 3 * j
    BY <1>1, <2>4
  <2>7. f[1 + 3 * (j - 1)] = f[1 + 3 * (j - 1) + 3]
    BY <2>6
  <2> QED
    BY <2>2, <2>5, <2>6, <2>7
<1>3. f[1 + 3 * k] = f[1]
  <2>1. \A j \in 0 .. k : f[1 + 3 * j] = f[1]
    BY <1>2
  <2>2. k \in 0 .. k
    OBVIOUS
  <2> QED
    BY <2>1, <2>2
<1>4. f[1 + 3 * k] = 1 + 3 * k
  BY <1>1
<1> QED
  BY <1>1, <1>3, <1>4

(* The stream infos found are one behind the other from the file header.   *)
LEMMA InfoEndIs ==
    ASSUME NEW img, Len(img) \in Nat
    PROVE  \E k \in Nat : /\ Reader!InfoEnd(img) = 1 + 3 * k
                          /\ ~ Reader!ChunkAt(img, 1 + 3 * k, "SINF")
                          /\ \A j \in 0 .. k - 1 : Reader!ChunkAt(img, 1 + 3 * j, "SINF")
<1> DEFINE P == {p \in Nat : Reader!ChunkAt(img, p, "SINF")}
           End == CHOOSE f : f = [p \in Nat |->
                                    IF Reader!ChunkAt(img, p, "SINF") THEN f[p + 3] ELSE p]
<1>1. P \in SUBSET Nat /\ \A p \in P : p < Len(img)
  BY DEF Reader!ChunkAt, Reader!CellAt
<1>2. \A f : [p \in Nat |-> IF Reader!ChunkAt(img, p, "SINF") THEN f[p + 3] ELSE p]
               = [p \in Nat |-> IF p \in P THEN f[p + 3] ELSE p]
  OBVIOUS
<1>3. \E f : f = [p \in Nat |-> IF p \in P THEN f[p + 3] ELSE p]
  BY <1>1, ByThrees
<1>4. End = [p \in Nat |-> IF Reader!ChunkAt(img, p, "SINF") THEN End[p + 3] ELSE p]
  <2>1. \E f : f = [p \in Nat |-> IF Reader!ChunkAt(img, p, "SINF") THEN f[p + 3] ELSE p]
    BY <1>2, <1>3
  <2> QED
    BY <2>1, Zenon
<1>5. End = [p \in Nat |-> IF p \in P THEN End[p + 3] ELSE p]
  BY <1>2, <1>4
<1>6. Reader!InfoEnd(img) = End[1]
  BY DEF Reader!InfoEnd
<1> HIDE DEF End
<1>7. \E k \in Nat : /\ End[1] = 1 + 3 * k /\ 1 + 3 * k \notin P
                     /\ \A j \in 0 .. k - 1 : 1 + 3 * j \in P
  BY <1>1, <1>5, WhereItStops
<1> QED
  BY <1>6, <1>7

AlteredKinds == {"data", "fh", "entry", "sinf"}

\* What the reader finds: a prefix of the file, but for one altered cell.
ImageOfFile ==
    /\ Len(image) \in Nat /\ Len(image) <= Len(file)
    /\ Len(image) = 0 => image = <<>>
    /\ \A j \in 1 .. Len(image) :
          \/ image[j] = file[j]
          \/ /\ damaged = "altered"
             /\ image[j].k = file[j].k /\ file[j].k \in AlteredKinds

(* Damage leaves every cell its kind, and the CRCs as they were.           *)
LEMMA SameKind ==
    ASSUME ImageOfFile, NEW j \in 1 .. Len(image)
    PROVE  /\ image[j].k = file[j].k
           /\ image[j].k \notin AlteredKinds => image[j] = file[j]
  BY DEF ImageOfFile

(* An intact stream info: its header, struct and CRC all lie before the    *)
(* end of the run.                                                         *)
LEMMA InfoIntact ==
    ASSUME NEW img, Len(img) \in Nat, Reader!InfoStatus(img) = "ok",
           NEW p \in Reader!InfoAt(img)
    PROVE  /\ p \in Nat /\ p + 3 <= Len(img)
           /\ img[p + 2].k = "sinf" /\ img[p + 3] = Crc(<<img[p + 2]>>)
<1> DEFINE e == Reader!InfoEnd(img)
<1>1. PICK k \in Nat : /\ e = 1 + 3 * k
                       /\ \A j \in 0 .. k - 1 : Reader!ChunkAt(img, 1 + 3 * j, "SINF")
  BY InfoEndIs
<1>2. /\ e <= Len(img)
      /\ \A b \in Reader!InfoAt(img) :
            b + 3 <= Len(img) => /\ Reader!CellAt(img, b + 1, "sinf")
                                 /\ img[b + 3] = Reader!Crc(<<img[b + 2]>>)
  <2>1. e \in Nat
    BY <1>1
  <2> QED
    BY <2>1 DEF Reader!InfoStatus
<1>3. p \in 1 .. Len(img) /\ p < e /\ Reader!ChunkAt(img, p, "SINF")
  BY DEF Reader!InfoAt
<1> HIDE DEF e
<1> DEFINE j == (p - 1) \div 3
           b == 1 + 3 * j
<1>4. p \in Nat /\ p >= 1 /\ j \in 0 .. k - 1 /\ p \in {b, b + 1, b + 2} /\ b \in 1 .. Len(img)
      /\ b < e /\ b + 3 <= Len(img)
  BY <1>1, <1>2, <1>3
<1> HIDE DEF j
<1>5. Reader!ChunkAt(img, b, "SINF")
  BY <1>1, <1>4
<1>6. b \in Reader!InfoAt(img)
  BY <1>4, <1>5 DEF Reader!InfoAt, e
<1> HIDE DEF b
<1>7. img[b + 2].k = "sinf" /\ img[b + 3] = Crc(<<img[b + 2]>>)
  <2>1. b + 1 + 1 = b + 2
    BY <1>4
  <2> QED
    BY <1>2, <1>4, <1>6, <2>1 DEF Reader!CellAt, Reader!Crc, Crc
<1>8. img[p + 1].k = "chunk"
  BY <1>3 DEF Reader!ChunkAt, Reader!CellAt
<1>9. p = b
  <2>1. p # b + 1
    <3>1. b + 1 + 1 = b + 2
      BY <1>4
    <3> QED
      BY <1>7, <1>8, <3>1
  <2>2. p # b + 2
    <3>1. b + 2 + 1 = b + 3
      BY <1>4
    <3>2. img[b + 3].k = "crc"
      BY <1>7 DEF Crc
    <3> QED
      BY <1>8, <3>1, <3>2
  <2> QED
    BY <1>4, <2>1, <2>2
<1> QED
  BY <1>4, <1>7, <1>9

(* The streams crap_open_read finds are those that were registered.        *)
LEMMA StreamsGenuine ==
    ASSUME ImageOfFile, StreamsTold, Reader!InfoStatus(image) = "ok", Len(file) \in Nat,
           NEW s \in StreamIds
    PROVE  Reader!StreamsOf(image)[s] \in {"none", streams[s]}
<1>1. ASSUME NEW p \in Reader!InfoAt(image)
      PROVE  image[p + 2].type = streams[image[p + 2].sid]
  <2>1. /\ p \in Nat /\ p + 3 <= Len(image)
        /\ image[p + 2].k = "sinf" /\ image[p + 3] = Crc(<<image[p + 2]>>)
    BY InfoIntact DEF ImageOfFile
  <2>2. p + 2 \in 1 .. Len(image) /\ p + 3 \in 1 .. Len(image) /\ p + 2 + 1 = p + 3
        /\ p + 2 \in 1 .. Len(file) /\ p + 3 <= Len(file)
    BY <2>1 DEF ImageOfFile
  <2>3. image[p + 3].k = "crc"
    BY <2>1 DEF Crc
  <2>4. file[p + 3] = image[p + 3] /\ file[p + 2].k = "sinf"
    BY <2>1, <2>2, <2>3, SameKind DEF AlteredKinds
  <2>5. /\ file[p + 3] = Crc(<<file[p + 2]>>)
        /\ file[p + 2].type = streams[file[p + 2].sid]
    BY <2>2, <2>3, <2>4 DEF StreamsTold, Told
  <2>6. <<file[p + 2]>> = <<image[p + 2]>>
    <3>1. \A x, y : Crc(x) = Crc(y) => x = y
      BY DEF Crc
    <3> QED
      BY <2>1, <2>4, <2>5, <3>1
  <2>7. file[p + 2] = image[p + 2]
    BY <2>6
  <2> QED
    BY <2>5, <2>7
<1> DEFINE q == CHOOSE p \in Reader!InfoAt(image) : image[p + 2].sid = s
<1>2. Reader!StreamsOf(image)[s] =
        IF \E p \in Reader!InfoAt(image) : image[p + 2].sid = s
        THEN image[q + 2].type ELSE "none"
  BY DEF Reader!StreamsOf, Reader!StreamIds, StreamIds
<1>3. CASE \E p \in Reader!InfoAt(image) : image[p + 2].sid = s
  <2>1. q \in Reader!InfoAt(image) /\ image[q + 2].sid = s
    BY <1>3
  <2> HIDE DEF q
  <2> QED
    BY <1>1, <1>2, <1>3, <2>1
<1> QED
  BY <1>2, <1>3

(* The cells of an index chunk.                                            *)
LEMMA IndexCells ==
    ASSUME NEW ix \in Seq(EntryCell)
    PROVE  LET c == IndexChunk(ix)
               n == Len(ix)
           IN  /\ n \in Nat /\ Len(c) = n + 3
               /\ c[2] = Count(n) /\ c[n + 3] = Crc(IndexPayload(ix))
               /\ IndexPayload(ix) \in Seq(BareCell) /\ Len(IndexPayload(ix)) = n + 1
<1> DEFINE n == Len(ix)
           pl == IndexPayload(ix)
           h == <<ChunkHeader("FRIX", Len(pl))>>
           c == <<Crc(pl)>>
<1>1. ix \in Seq(BareCell) /\ n \in Nat
  BY EntriesAreCells, SeqMonotonic, LenProperties
<1>2. Count(n) \in BareCell
  BY <1>1 DEF Count, BareCell
<1>3. pl \in Seq(BareCell) /\ Len(pl) = n + 1 /\ pl[1] = Count(n)
  <2>1. <<Count(n)>> \in Seq(BareCell) /\ Len(<<Count(n)>>) = 1
    BY <1>2
  <2> QED
    BY <1>1, <2>1, ConcatProperties DEF IndexPayload
<1>4. ChunkHeader("FRIX", Len(pl)) \in Cell /\ Crc(pl) \in Cell /\ pl \in Seq(Cell)
  <2>1. pl \in Seq(Cell)
    BY <1>3, SeqMonotonic DEF Cell
  <2> QED
    BY <1>1, <1>3, <2>1 DEF ChunkHeader, Crc, Cell, BareCell
<1> HIDE DEF pl
<1>5. /\ h \o pl \in Seq(Cell) /\ Len(h \o pl) = n + 2 /\ (h \o pl)[2] = pl[1]
  <2>1. \A i \in 1 .. Len(pl) + 1 : (h \o pl)[i] = IF i <= 1 THEN h[i] ELSE pl[i - 1]
    BY <1>4, PrependCell
  <2>2. h \o pl \in Seq(Cell) /\ Len(h \o pl) = Len(pl) + 1
    BY <1>4, PrependCell
  <2>3. 2 \in 1 .. Len(pl) + 1
    BY <1>1, <1>3
  <2> QED
    BY <1>1, <1>3, <2>1, <2>2, <2>3
<1>6. c \in Seq(Cell) /\ Len(c) = 1 /\ c[1] = Crc(pl)
  BY <1>4
<1> DEFINE g == h \o pl
<1>7. IndexChunk(ix) = g \o c
  BY DEF IndexChunk, Chunk, pl
<1>10. g \in Seq(Cell) /\ Len(g) = n + 2 /\ g[2] = pl[1]
  BY <1>5
<1> HIDE DEF g, c, n
<1>8. /\ Len(g \o c) = n + 3
      /\ \A i \in 1 .. n + 3 : (g \o c)[i] = IF i <= n + 2 THEN g[i] ELSE c[i - (n + 2)]
  <2>1. n + 2 + 1 = n + 3
    BY <1>1
  <2>2. /\ Len(g \o c) = Len(g) + Len(c)
        /\ \A i \in 1 .. Len(g) + Len(c) :
              (g \o c)[i] = IF i <= Len(g) THEN g[i] ELSE c[i - Len(g)]
    BY <1>6, <1>10, ConcatProperties
  <2>3. Len(g) + Len(c) = n + 3 /\ Len(g) = n + 2
    BY <1>6, <1>10, <2>1
  <2> QED
    BY <2>2, <2>3
<1>9. (g \o c)[2] = g[2] /\ (g \o c)[n + 3] = c[1]
  <2>1. 2 \in 1 .. n + 3 /\ 2 <= n + 2 /\ n + 3 \in 1 .. n + 3 /\ ~ (n + 3 <= n + 2)
        /\ n + 3 - (n + 2) = 1
    BY <1>1
  <2> DEFINE d == g \o c
  <2>2. \A i \in 1 .. n + 3 : d[i] = IF i <= n + 2 THEN g[i] ELSE c[i - (n + 2)]
    BY <1>8
  <2> HIDE DEF d
  <2>3. d[2] = g[2]
    BY <2>1, <2>2
  <2>4. d[n + 3] = c[1]
    <3> DEFINE w == n + 3
               v == n + 2
    <3>1. w \in 1 .. w /\ ~ (w <= v) /\ w - v = 1
      BY <1>1
    <3>2. \A i \in 1 .. w : d[i] = IF i <= v THEN g[i] ELSE c[i - v]
      BY <2>2
    <3> HIDE DEF w, v
    <3>3. d[w] = c[w - v]
      BY <3>1, <3>2
    <3>4. d[w] = c[1]
      BY <3>1, <3>3
    <3> QED
      BY <3>4 DEF w
  <2> QED
    BY <2>3, <2>4 DEF d
<1> QED
  BY <1>1, <1>3, <1>6, <1>7, <1>8, <1>9, <1>10 DEF pl, n

(* An index crap_open_read accepts is the one that was written.            *)
LEMMA IndexGenuine ==
    ASSUME ImageOfFile, WTypeOK, HeaderImpliesIndex, HeaderFirst,
           image # <<>>, Len(image) >= 1, image[1].index_offset # 0,
           Reader!IndexStatus(image, image[1].index_offset) = "ok"
    PROVE  /\ Reader!EntriesAt(image, image[1].index_offset) = index
           /\ file # <<>> /\ file[1].index_offset = image[1].index_offset
           /\ image[1].index_offset \in Nat /\ image[1].index_offset <= Len(image)
<1> DEFINE p == image[1].index_offset
           n == Len(index)
           E == Reader!EntriesAt(image, p)
<1>1. /\ file \in Seq(Cell) /\ Len(file) \in Nat /\ index \in Seq(EntryCell) /\ n \in Nat
      /\ Len(image) \in Nat /\ Len(image) <= Len(file)
  BY LenProperties DEF WTypeOK, ImageOfFile
<1>2. file # <<>> /\ file[1] = image[1]
  <2>1. 1 \in 1 .. Len(image) /\ Len(file) >= 1
    BY <1>1
  <2>2. file # <<>>
    BY <2>1
  <2>3. file[1].k = "file"
    BY <2>2 DEF HeaderFirst
  <2> QED
    BY <2>1, <2>2, <2>3, SameKind DEF AlteredKinds
<1>3. p \in Nat
  <2>1. file[1] \in Cell /\ file[1].k = "file"
    BY <1>1, <1>2, EmptySeq, ElementOfSeq DEF HeaderFirst
  <2>2. file[1] \in [k: {"file"}, stream_count: Nat, duration_us: Nat, index_offset: Nat]
    BY <2>1 DEF Cell, BareCell, EntryCell
  <2> QED
    BY <1>2, <2>2
<1>4. HoldsAt(file, p, IndexChunk(index))
  BY <1>2 DEF HeaderImpliesIndex
<1>5. /\ Len(IndexChunk(index)) = n + 3
      /\ IndexChunk(index)[2] = Count(n) /\ IndexChunk(index)[n + 3] = Crc(IndexPayload(index))
  BY <1>1, IndexCells
<1>6. file[p + 2] = Count(n) /\ file[p + (n + 3)] = Crc(IndexPayload(index))
  <2>1. 2 \in 1 .. Len(IndexChunk(index)) /\ n + 3 \in 1 .. Len(IndexChunk(index))
    BY <1>1, <1>5
  <2> QED
    BY <1>4, <1>5, <2>1 DEF HoldsAt
<1> HIDE DEF p, n
<1>7. /\ p + 2 <= Len(image)
      /\ ~ (p + 3 + image[p + 2].c > Len(image))
      /\ image[p + 3 + image[p + 2].c] = Reader!Crc(<<image[p + 2]>> \o E)
  BY <1>1, <1>3 DEF Reader!IndexStatus, p
<1>8. image[p + 2] = Count(n) /\ image[p + 2].c = n
  <2>1. p + 2 \in 1 .. Len(image)
    BY <1>1, <1>3, <1>7
  <2>2. Count(n).k = "count" /\ Count(n).c = n
    BY DEF Count
  <2> QED
    BY <1>6, <2>1, <2>2, SameKind DEF AlteredKinds
<1>9. p + 3 + n \in 1 .. Len(image) /\ p + 3 + n = p + (n + 3)
  BY <1>1, <1>3, <1>7, <1>8
<1>10. Crc(<<Count(n)>> \o E) = Crc(IndexPayload(index))
  <2>1. image[p + 3 + n] = Crc(<<Count(n)>> \o E)
    BY <1>7, <1>8 DEF Reader!Crc, Crc
  <2>2. image[p + 3 + n].k = "crc"
    BY <2>1 DEF Crc
  <2>3. image[p + 3 + n] = file[p + 3 + n]
    BY <1>9, <2>2, SameKind DEF AlteredKinds
  <2> QED
    BY <1>6, <1>9, <2>1, <2>3
<1>11. <<Count(n)>> \o E = <<Count(n)>> \o index
  <2>1. \A x, y : Crc(x) = Crc(y) => x = y
    BY DEF Crc
  <2> QED
    BY <1>10, <2>1 DEF IndexPayload, n
<1>12. E = index
  <2> DEFINE S == {image[j] : j \in 1 .. Len(image)} \cup EntryCell \cup {Count(n)}
  <2>1. E = SubSeq(image, p + 3, p + 2 + n)
    BY <1>8 DEF Reader!EntriesAt
  <2>2. \A j \in p + 3 .. p + 2 + n : image[j] \in S
    BY <1>1, <1>3, <1>9
  <2>3. E \in Seq(S)
    <3>1. p + 3 \in Int /\ p + 2 + n \in Int
      BY <1>1, <1>3
    <3> HIDE DEF S, E
    <3> QED
      BY <2>1, <2>2, <3>1, SubSeqProperties
  <2>4. index \in Seq(S) /\ <<Count(n)>> \in Seq(S)
    BY <1>1, SeqMonotonic
  <2> HIDE DEF S, E
  <2> QED
    BY <1>11, <2>3, <2>4, ConcatSimplifications
<1> QED
  BY <1>1, <1>2, <1>3, <1>7, <1>12 DEF p

\* Nobody reads a file that is still being written.
NotYet == Live => rst = "unopened"

\* A reader with an index has the index of the recorder, and what precedes
\* it in the file is all there.
LoadedFrom ==
    Reader!Seekable /\ loaded # <<>> =>
        /\ loaded = index /\ image # <<>> /\ file # <<>>
        /\ file[1].index_offset = image[1].index_offset
        /\ image[1].index_offset # 0 /\ image[1].index_offset \in Nat
        /\ image[1].index_offset <= Len(image)

CInv ==
    /\ WInv /\ StreamsTold /\ HeaderFirst /\ FramesBeforeIndex
    /\ ImageOfFile /\ NotYet /\ LoadedFrom /\ OpenedIndexIsGenuine

(* Before anything is written the invariant holds.                         *)
LEMMA CInvInit == Init => CInv
<1> SUFFICES ASSUME Init PROVE CInv
  OBVIOUS
<1>1. WInit /\ rst = "unopened" /\ image = file /\ file = <<>> /\ Len(file) = 0
      /\ header.index_offset = 0
  BY DEF Init, WInit, Reader!RInit
<1>2. WInv
  BY <1>1, WInvInit
<1>3. StreamsTold /\ HeaderFirst /\ FramesBeforeIndex /\ ImageOfFile
  BY <1>1 DEF StreamsTold, Told, HeaderFirst, FramesBeforeIndex, ImageOfFile
<1>4. NotYet /\ LoadedFrom /\ OpenedIndexIsGenuine
  BY <1>1 DEF NotYet, LoadedFrom, OpenedIndexIsGenuine, Reader!Seekable
<1> QED
  BY <1>2, <1>3, <1>4 DEF CInv

(* A step of the reader opens the file, or leaves it closed, or goes on    *)
(* with the index and streams it has.                                      *)
LEMMA PlayShape ==
    ASSUME Reader!RNext
    PROVE  \/ Reader!OpenRead
           \/ rst' \in {"unopened", "failed"}
           \/ Reader!Seekable /\ UNCHANGED <<loaded, rstreams>>
<1>1. Reader!OpenReadNoMemory \/ Reader!CloseRead => rst' \in {"unopened", "failed"}
  BY DEF Reader!OpenReadNoMemory, Reader!CloseRead
<1>2. Reader!PeekFrame \/ Reader!PeekAtEnd \/ Reader!PeekGarbage \/ Reader!PeekAgain =>
          Reader!Seekable /\ UNCHANGED <<loaded, rstreams>>
  BY DEF Reader!PeekFrame, Reader!PeekAtEnd, Reader!PeekGarbage, Reader!PeekAgain,
         Reader!GetsLost, Reader!Catalog, Reader!Seekable
<1>3. ASSUME NEW buf \in Buffers,
             \/ Reader!ReadFrameData(buf) \/ Reader!ReadTooLarge(buf)
             \/ Reader!ReadNoMemory(buf) \/ Reader!ReadShort(buf) \/ Reader!ReadAcross(buf)
      PROVE  Reader!Seekable /\ UNCHANGED <<loaded, rstreams>>
  BY <1>3 DEF Reader!ReadFrameData, Reader!ReadTooLarge, Reader!ReadNoMemory,
              Reader!ReadShort, Reader!ReadAcross, Reader!GetsLost, Reader!Catalog,
              Reader!Seekable
<1>4. Reader!SkipFrame => Reader!Seekable /\ UNCHANGED <<loaded, rstreams>>
  BY DEF Reader!SkipFrame, Reader!Catalog, Reader!Seekable
<1>5. ASSUME NEW sid \in StreamIds, NEW pts \in Pts,
             Reader!SeekPts(sid, pts) \/ Reader!SeekFails(sid, pts)
      PROVE  Reader!Seekable /\ UNCHANGED <<loaded, rstreams>>
  BY <1>5 DEF Reader!SeekPts, Reader!SeekFails, Reader!Catalog
<1>6. Reader!StreamIds = StreamIds
  BY DEF Reader!StreamIds, StreamIds
<1> QED
  BY <1>1, <1>2, <1>3, <1>4, <1>5, <1>6 DEF Reader!RNext

(* What an open file shows.                                                *)
LEMMA OpenShows ==
    ASSUME CInv, Reader!OpenRead, rst' \notin {"unopened", "failed"},
           UNCHANGED <<wvars, image, damaged>>
    PROVE  /\ LoadedFrom' /\ OpenedIndexIsGenuine'
           /\ image[1].index_offset # 0 => loaded' = index
<1>1. /\ Reader!OpenStatus(image) = "ok"
      /\ rstreams' = Reader!StreamsOf(image)
      /\ loaded' = IF image[1].index_offset = 0 THEN <<>>
                   ELSE Reader!EntriesAt(image, image[1].index_offset)
  BY DEF Reader!OpenRead
<1>2. /\ image # <<>> /\ Reader!InfoStatus(image) = "ok"
      /\ image[1].index_offset # 0 =>
             Reader!IndexStatus(image, image[1].index_offset) = "ok"
  BY <1>1 DEF Reader!OpenStatus
<1>3. WTypeOK /\ HeaderImpliesIndex /\ ImageOfFile /\ StreamsTold /\ HeaderFirst
      /\ Len(file) \in Nat
  BY LenProperties DEF CInv, WInv, WTypeOK
<1>4. Len(image) >= 1
  BY <1>2, <1>3 DEF ImageOfFile
<1>5. ASSUME image[1].index_offset # 0
      PROVE  /\ loaded' = index
             /\ file # <<>> /\ file[1].index_offset = image[1].index_offset
             /\ image[1].index_offset \in Nat /\ image[1].index_offset <= Len(image)
  BY <1>1, <1>2, <1>3, <1>4, <1>5, IndexGenuine
<1>6. \A s \in StreamIds : rstreams'[s] \in {"none", streams[s]}
  BY <1>1, <1>2, <1>3, StreamsGenuine
<1>7. image' = image /\ file' = file /\ index' = index /\ streams' = streams
  BY DEF wvars
<1>8. LoadedFrom'
  BY <1>1, <1>2, <1>5, <1>7 DEF LoadedFrom
<1>9. OpenedIndexIsGenuine'
  BY <1>1, <1>5, <1>6, <1>7 DEF OpenedIndexIsGenuine
<1> QED
  BY <1>5, <1>8, <1>9

(* Alterations change no kind.                                             *)
LEMMA AlteredKind ==
    ASSUME NEW c \in Cell, c.k \in AlteredKinds
    PROVE  Altered(c).k = c.k
<1>1. CASE c.k = "data"
  <2>1. c \in [k: {"data"}, n: Nat, j: Nat]
    BY <1>1 DEF Cell, BareCell, EntryCell
  <2>2. Altered(c) = [c EXCEPT !.n = 0]
    BY <1>1 DEF Altered
  <2> QED
    BY <2>1, <2>2
<1>2. CASE c.k = "fh"
  <2>1. c \in [k: {"fh"}, sid: StreamIds, ftype: FrameTypes, pts: Pts, size: Sizes]
    BY <1>2 DEF Cell, BareCell, EntryCell
  <2>2. Altered(c) = [c EXCEPT !.pts = 0]
    BY <1>2 DEF Altered
  <2> QED
    BY <2>1, <2>2
<1>3. CASE c.k = "entry"
  <2>1. c \in EntryCell
    BY <1>3 DEF Cell, BareCell
  <2>2. Altered(c) = [c EXCEPT !.off = 1]
    BY <1>3 DEF Altered
  <2> QED
    BY <2>1, <2>2 DEF EntryCell
<1>4. CASE c.k = "sinf"
  <2>1. c \in [k: {"sinf"}, sid: StreamIds, type: StreamTypes]
    BY <1>4 DEF Cell, BareCell, EntryCell
  <2>2. Altered(c) = [c EXCEPT !.type = "none"]
    BY <1>4 DEF Altered
  <2> QED
    BY <2>1, <2>2
<1> QED
  BY <1>1, <1>2, <1>3, <1>4 DEF AlteredKinds

(* The recorder, the reader and the damage all keep it.                    *)
LEMMA CInvStep == CInv /\ [Next]_vars => CInv'
<1> SUFFICES ASSUME CInv, [Next]_vars PROVE CInv'
  OBVIOUS
<1>1. [WNext]_wvars
  BY DEF Next, Record, Play, CutFile, AlterCell, Damage, vars
<1>2. WInv /\ StreamsTold /\ HeaderFirst /\ FramesBeforeIndex
  BY DEF CInv
<1>3. WInv'
  BY <1>1, <1>2, WInvStep
<1>4. StreamsTold' /\ HeaderFirst'
  BY <1>1, <1>2, StreamsToldKept, HeaderFirstKept
<1>5. FramesBeforeIndex'
  BY <1>1, <1>2, <1>3, FramesBeforeIndexKept DEF WInv
<1>6. WTypeOK /\ file \in Seq(Cell) /\ Len(file) \in Nat
  BY <1>2, LenProperties DEF WInv, WTypeOK
<1>7. ImageOfFile' /\ NotYet' /\ LoadedFrom' /\ OpenedIndexIsGenuine'
  <2>1. ASSUME rst = "unopened", UNCHANGED rst
        PROVE  NotYet' /\ LoadedFrom' /\ OpenedIndexIsGenuine'
    BY <2>1 DEF NotYet, LoadedFrom, OpenedIndexIsGenuine, Reader!Seekable
  <2>2. CASE Record
    <3>1. rst = "unopened" /\ UNCHANGED rst /\ image' = file'
      BY <1>6, <2>2, StepShape DEF Record, rvars, CInv, NotYet
    <3>2. file' \in Seq(Cell)
      BY <1>3 DEF WInv, WTypeOK
    <3>3. Len(file') \in Nat /\ (Len(file') = 0 => file' = <<>>)
      BY <3>2, LenProperties, EmptySeq
    <3> QED
      BY <2>1, <3>1, <3>3 DEF ImageOfFile
  <2>3. CASE Play
    <3>1. Finished /\ Reader!RNext /\ UNCHANGED <<wvars, image, damaged>>
      BY <2>3 DEF Play
    <3>2. ImageOfFile'
      BY <3>1 DEF CInv, ImageOfFile, wvars
    <3>3. NotYet'
      BY <3>1 DEF NotYet, Live, Finished, wvars
    <3>4. CASE rst' \in {"unopened", "failed"}
      BY <3>2, <3>3, <3>4 DEF LoadedFrom, OpenedIndexIsGenuine, Reader!Seekable
    <3>5. CASE Reader!OpenRead /\ rst' \notin {"unopened", "failed"}
      BY <3>1, <3>2, <3>3, <3>5, OpenShows
    <3>6. CASE Reader!Seekable /\ UNCHANGED <<loaded, rstreams>>
      BY <3>1, <3>2, <3>3, <3>6
      DEF CInv, LoadedFrom, OpenedIndexIsGenuine, wvars
    <3> QED
      BY <3>1, <3>4, <3>5, <3>6, PlayShape
  <2>4. ASSUME NEW m \in 0 .. Len(file), CutFile(m)
        PROVE  ImageOfFile' /\ NotYet' /\ LoadedFrom' /\ OpenedIndexIsGenuine'
    <3>1. /\ rst = "unopened" /\ UNCHANGED <<wvars, rvars>>
          /\ image' = SubSeq(file, 1, m)
      BY <2>4 DEF CutFile, Damage
    <3>2. /\ Len(image') = m /\ m \in Nat /\ m <= Len(file)
          /\ \A j \in 1 .. m : image'[j] = file[j]
      BY <1>6, <3>1, PrefixShape
    <3>3. m = 0 => image' = <<>>
      BY <1>6, <3>1, PrefixShape, EmptySeq
    <3> QED
      BY <2>1, <3>1, <3>2, <3>3 DEF ImageOfFile, wvars, rvars
  <2>5. ASSUME NEW i \in 1 .. Len(file), AlterCell(i)
        PROVE  ImageOfFile' /\ NotYet' /\ LoadedFrom' /\ OpenedIndexIsGenuine'
    <3> DEFINE x == Altered(file[i])
               S == Cell \cup {x}
    <3>1. /\ rst = "unopened" /\ UNCHANGED <<wvars, rvars>>
          /\ image' = [file EXCEPT ![i] = x] /\ damaged' = "altered"
          /\ file[i].k \in AlteredKinds
      BY <2>5 DEF AlterCell, Damage, AlteredKinds
    <3>2. x.k = file[i].k
      BY <1>6, <3>1, ElementOfSeq, AlteredKind
    <3>3. file \in Seq(S) /\ x \in S
      BY <1>6, SeqMonotonic
    <3> HIDE DEF x, S
    <3>4. /\ Len(image') = Len(file)
          /\ \A j \in 1 .. Len(file) : image'[j] = IF j = i THEN x ELSE file[j]
      BY <3>1, <3>3, ExceptSeq
    <3>5. ~ (Len(file) = 0)
      BY <1>6
    <3> QED
      BY <1>6, <2>1, <3>1, <3>2, <3>4, <3>5 DEF ImageOfFile, wvars, rvars
  <2>6. CASE UNCHANGED vars
    BY <2>6 DEF vars, wvars, rvars, CInv, ImageOfFile, NotYet, LoadedFrom, Live,
                OpenedIndexIsGenuine, Reader!Seekable
  <2> QED
    BY <2>2, <2>3, <2>4, <2>5, <2>6 DEF Next
<1> QED
  BY <1>3, <1>4, <1>5, <1>7 DEF CInv

(* CInv holds in every reachable state of a file's life.                   *)
THEOREM FileInvariant == Spec => []CInv
  BY CInvInit, CInvStep, PTL DEF Spec

(* What WSpec promises of a recording alone holds of the whole life.       *)
THEOREM RecordingKept ==
    Spec => [](/\ WTypeOK /\ GoodEntriesPointAtFrames
               /\ HeaderImpliesIndex /\ DurationCoversFrames)
<1>1. CInv => /\ WTypeOK /\ GoodEntriesPointAtFrames
              /\ HeaderImpliesIndex /\ DurationCoversFrames
  BY DEF CInv, WInv
<1> QED
  BY <1>1, FileInvariant, PTL

(* No damage the model knows makes crap_open_read accept an index that was *)
(* not recorded, or announce a stream that was not registered.             *)
THEOREM GenuineIndex == Spec => []OpenedIndexIsGenuine
<1>1. CInv => OpenedIndexIsGenuine
  BY DEF CInv
<1> QED
  BY <1>1, FileInvariant, PTL

(* The scan of crap_seek_pts has a result: an earliest keyframe of those   *)
(* with the largest timestamp.                                             *)
LEMMA BestIsThere ==
    ASSUME NEW ix \in Seq(EntryCell), NEW sid, NEW pts \in Pts,
           Reader!Keyframes(ix, sid, pts) # {}
    PROVE  LET b == Reader!BestEntry(ix, sid, pts)
           IN  /\ b \in Reader!Keyframes(ix, sid, pts)
               /\ \A j \in Reader!Keyframes(ix, sid, pts) :
                     ix[j].pts < ix[b].pts \/ (ix[j].pts = ix[b].pts /\ b <= j)
<1> DEFINE K == Reader!Keyframes(ix, sid, pts)
           D == {pts - ix[j].pts : j \in K}
<1>1. pts \in Nat /\ \A j \in K : /\ j \in Nat /\ ix[j].pts \in Nat /\ ix[j].pts <= pts
  <2>1. ASSUME NEW j \in K PROVE j \in Nat /\ ix[j].pts \in Nat /\ ix[j].pts <= pts
    <3>1. j \in 1 .. Len(ix) /\ ix[j].pts <= pts
      BY DEF Reader!Keyframes
    <3>2. j \in Nat /\ ix[j] \in EntryCell
      BY <3>1, ElementOfSeq, LenProperties
    <3>3. ix[j].pts \in Pts
      BY <3>2 DEF EntryCell
    <3> QED
      BY <3>1, <3>2, <3>3, FormatAssumption
  <2> QED
    BY <2>1, FormatAssumption
<1> HIDE DEF K
<1>2. D \subseteq Nat /\ D # {}
  BY <1>1 DEF K
<1>3. PICK d \in D : \A x \in D : d <= x
  BY <1>2, Least
<1> DEFINE E == {j \in K : pts - ix[j].pts = d}
<1>4. E \subseteq Nat /\ E # {}
  BY <1>1, <1>3
<1>5. PICK i \in E : \A j \in E : i <= j
  BY <1>4, Least
<1>6. ASSUME NEW j \in K
      PROVE  ix[j].pts < ix[i].pts \/ (ix[j].pts = ix[i].pts /\ i <= j)
  <2>1. d <= pts - ix[j].pts /\ pts - ix[i].pts = d /\ i \in K
    BY <1>3, <1>5
  <2>2. ix[j].pts <= ix[i].pts
    BY <1>1, <2>1
  <2>3. ix[j].pts = ix[i].pts => i <= j
    BY <1>5, <2>1
  <2> QED
    BY <1>1, <2>1, <2>2, <2>3
<1>7. \E b \in K : \A j \in K :
          ix[j].pts < ix[b].pts \/ (ix[j].pts = ix[b].pts /\ b <= j)
  BY <1>5, <1>6
<1> QED
  BY <1>7 DEF K, Reader!BestEntry

(* While no cell was altered, what the file held whole the reader finds.   *)
LEMMA ImageHolds ==
    ASSUME ImageOfFile, damaged # "altered", NEW q \in Nat, NEW cells,
           Len(cells) \in Nat, HoldsAt(file, q, cells), q + Len(cells) <= Len(image)
    PROVE  HoldsAt(image, q, cells)
<1>1. \A j \in 1 .. Len(cells) : q + j \in 1 .. Len(image)
  BY DEF ImageOfFile
<1>2. \A j \in 1 .. Len(image) : image[j] = file[j]
  BY DEF ImageOfFile
<1> QED
  BY <1>1, <1>2 DEF HoldsAt

(* The entry crap_seek_pts picks leads to the frame it was made for.       *)
LEMMA SeekLands ==
    ASSUME CInv, NEW sid \in StreamIds, NEW pts \in Pts,
           Reader!SeekPts(sid, pts), damaged # "altered",
           attempts[Reader!BestEntry(loaded, sid, pts)].ok
    PROVE  HoldsAt(image, rpos',
                   FrameChunk(attempts[Reader!BestEntry(loaded, sid, pts)].f))
<1> DEFINE i == Reader!BestEntry(loaded, sid, pts)
           cells == FrameChunk(attempts[i].f)
<1>1. WTypeOK /\ LoadedFrom /\ OpenedIndexIsGenuine /\ ImageOfFile
      /\ FramesBeforeIndex /\ GoodEntriesPointAtFrames
  BY DEF CInv, WInv
<1>2. Reader!Seekable /\ Reader!Keyframes(loaded, sid, pts) # {}
      /\ rpos' = loaded[i].off
  BY DEF Reader!SeekPts
<1>3. loaded # <<>>
  BY <1>2 DEF Reader!Keyframes
<1>4. /\ loaded = index /\ file # <<>> /\ image[1].index_offset \in Nat
      /\ file[1].index_offset = image[1].index_offset
      /\ image[1].index_offset # 0 /\ image[1].index_offset <= Len(image)
  BY <1>1, <1>2, <1>3 DEF LoadedFrom
<1>5. i \in 1 .. Len(index)
  BY <1>1, <1>2, <1>4, BestIsThere DEF WTypeOK, Reader!Keyframes
<1> HIDE DEF i
<1>6. index[i].off \in Nat /\ Len(cells) \in Nat
  BY <1>1, <1>5, EntryTypes
<1>7. index[i].off + Len(cells) <= image[1].index_offset
  BY <1>1, <1>4, <1>5 DEF FramesBeforeIndex, FramesWithin, i
<1>8. Len(image) \in Nat /\ Len(image) <= Len(file) /\ Len(file) \in Nat
  BY <1>1, LenProperties DEF WTypeOK, ImageOfFile
<1>9. index[i].off + Len(cells) <= Len(image) /\ index[i].off + Len(cells) <= Len(file)
  BY <1>4, <1>6, <1>7, <1>8
<1>10. HoldsAt(file, index[i].off, cells)
  BY <1>1, <1>5, <1>9 DEF GoodEntriesPointAtFrames, i
<1> HIDE DEF cells
<1>11. HoldsAt(image, index[i].off, cells)
  BY <1>1, <1>6, <1>9, <1>10, ImageHolds
<1> QED
  BY <1>2, <1>4, <1>11 DEF cells, i

(* A seek through the entry of a frame written without error reaches that  *)
(* frame: crap_seek_pts, whatever failed during the recording and wherever *)
(* the reader had lost its place.                                          *)
THEOREM SeekLandsOnFrames == Spec => SeekReachesTheFrame
<1> DEFINE Lands == \A sid \in StreamIds, pts \in Pts :
                       Reader!SeekPts(sid, pts) /\ damaged # "altered" =>
                          LET i == Reader!BestEntry(loaded, sid, pts)
                          IN  attempts[i].ok =>
                                 HoldsAt(image, rpos', FrameChunk(attempts[i].f))
<1>1. CInv /\ [Next]_vars => Lands
  BY SeekLands
<1> HIDE DEF Lands
<1>2. CInv /\ [Next]_vars => [Lands]_vars
  BY <1>1
<1>3. Spec => [][Lands]_vars
  BY <1>2, FileInvariant, PTL DEF Spec
<1> QED
  BY <1>3 DEF SeekReachesTheFrame, Lands

-----------------------------------------------------------------------------
(* The refinement of FrameStore, while nothing fails but the process.      *)

(* The cells of a chunk, one by one.                                       *)
LEMMA CellsOfChunk ==
    ASSUME NEW id \in Ids, NEW payload \in Seq(BareCell)
    PROVE  LET c == Chunk(id, payload)
               m == Len(payload)
           IN  /\ c \in Seq(Cell) /\ m \in Nat /\ Len(c) = m + 2
               /\ c[1] = ChunkHeader(id, m) /\ c[m + 2] = Crc(payload)
               /\ \A i \in 1 .. m : c[i + 1] = payload[i]
<1> DEFINE m == Len(payload)
           h == <<ChunkHeader(id, m)>>
           c == <<Crc(payload)>>
           g == h \o payload
           d == g \o c
<1>1. ChunkHeader(id, m) \in Cell /\ Crc(payload) \in Cell
  BY LenProperties DEF ChunkHeader, Crc, Cell, BareCell, Ids
<1>2. h \in Seq(Cell) /\ c \in Seq(Cell) /\ Len(h) = 1 /\ Len(c) = 1
      /\ h[1] = ChunkHeader(id, m) /\ c[1] = Crc(payload)
  BY <1>1
<1>3. payload \in Seq(Cell) /\ m \in Nat
  BY SeqMonotonic, LenProperties DEF Cell
<1>4. Chunk(id, payload) = d /\ Len(d) = m + 2 /\ d \in Seq(Cell)
      /\ d[1] = ChunkHeader(id, m)
  BY ChunkShape DEF Chunk
<1>5. /\ g \in Seq(Cell) /\ Len(g) = m + 1
      /\ \A i \in 1 .. m + 1 : g[i] = IF i <= 1 THEN h[i] ELSE payload[i - 1]
  BY <1>1, <1>3, PrependCell
<1> HIDE DEF h, c, m, g
<1>6. \A i \in 1 .. m + 2 : d[i] = IF i <= m + 1 THEN g[i] ELSE c[i - (m + 1)]
  <2>1. \A i \in 1 .. Len(g) + Len(c) : d[i] = IF i <= Len(g) THEN g[i] ELSE c[i - Len(g)]
    BY <1>2, <1>5, ConcatProperties
  <2>2. Len(g) + Len(c) = m + 2
    BY <1>2, <1>3, <1>5
  <2> HIDE DEF d
  <2> QED
    BY <1>5, <2>1, <2>2
<1> HIDE DEF d
<1>7. d[m + 2] = Crc(payload)
  <2> DEFINE v == m + 2
             u == m + 1
  <2>1. v \in 1 .. v /\ ~ (v <= u) /\ v - u = 1
    BY <1>3
  <2>2. \A i \in 1 .. v : d[i] = IF i <= u THEN g[i] ELSE c[i - u]
    BY <1>6
  <2> HIDE DEF v, u
  <2>3. d[v] = c[v - u]
    BY <2>1, <2>2
  <2>4. d[v] = c[1]
    BY <2>1, <2>3
  <2> QED
    BY <1>2, <2>4 DEF v
<1>8. ASSUME NEW i \in 1 .. m PROVE d[i + 1] = payload[i]
  <2> DEFINE v == i + 1
  <2>1. v \in 1 .. m + 2 /\ v \in 1 .. m + 1 /\ v <= m + 1 /\ ~ (v <= 1) /\ v - 1 = i
    BY <1>3
  <2> HIDE DEF v
  <2>2. d[v] = g[v] /\ g[v] = payload[v - 1]
    BY <1>5, <1>6, <2>1
  <2>3. d[v] = payload[i]
    BY <2>1, <2>2
  <2> QED
    BY <2>3 DEF v
<1> QED
  BY <1>3, <1>4, <1>7, <1>8 DEF m

(* The cells of a frame chunk.                                             *)
LEMMA FrameCells ==
    ASSUME NEW f \in Frame
    PROVE  LET c == FrameChunk(f)
           IN  /\ f.size \in Nat /\ f.size >= 1 /\ f.n \in Nat
               /\ c \in Seq(Cell) /\ Len(c) = f.size + 3
               /\ c[1] = ChunkHeader("FRMD", f.size + 1) /\ c[2] = FrameHeader(f)
               /\ c[f.size + 3] = Crc(FramePayload(f))
               /\ \A j \in 1 .. f.size : c[j + 2] = Data(f.n, j)
<1> DEFINE z == f.size
           pl == FramePayload(f)
           fd == FrameData(f)
<1>1. z \in Nat /\ z >= 1 /\ f.n \in Nat
  <2>1. f.size \in Sizes /\ f.n \in Nat
    BY DEF Frame
  <2>2. \A x \in Sizes : x \in Nat /\ x >= 1
    BY FormatAssumption
  <2> QED
    BY <2>1, <2>2
<1>2. FrameHeader(f) \in BareCell
  BY DEF FrameHeader, BareCell, Frame
<1>3. fd \in Seq(BareCell) /\ Len(fd) = z
  <2>1. \A j \in 1 .. z : Data(f.n, j) \in BareCell
    BY <1>1 DEF Data, BareCell
  <2>2. fd \in [1 .. z -> BareCell]
    BY <2>1 DEF FrameData
  <2>3. fd \in Seq(BareCell)
    BY <1>1, <2>2, SeqDef
  <2>4. DOMAIN fd = 1 .. z
    BY <2>2
  <2> HIDE DEF fd, z
  <2> QED
    BY <1>1, <2>3, <2>4, LenProperties
<1>4. \A j \in 1 .. z : fd[j] = Data(f.n, j)
  BY DEF FrameData
<1> HIDE DEF fd
<1>5. <<FrameHeader(f)>> \in Seq(BareCell) /\ Len(<<FrameHeader(f)>>) = 1
      /\ <<FrameHeader(f)>>[1] = FrameHeader(f)
  BY <1>2
<1>6. /\ pl \in Seq(BareCell) /\ Len(pl) = z + 1
      /\ pl[1] = FrameHeader(f)
      /\ \A j \in 1 .. z : pl[j + 1] = fd[j]
  <2> DEFINE a == <<FrameHeader(f)>>
  <2>1. pl = a \o fd
    BY DEF FramePayload, fd
  <2>2. a \in Seq(BareCell) /\ Len(a) = 1 /\ a[1] = FrameHeader(f)
    BY <1>5
  <2> HIDE DEF a, pl, z
  <2>3. /\ pl \in Seq(BareCell) /\ Len(pl) = 1 + z
        /\ \A j \in 1 .. 1 + z : pl[j] = IF j <= 1 THEN a[j] ELSE fd[j - 1]
    <3>1. /\ pl \in Seq(BareCell) /\ Len(pl) = Len(a) + Len(fd)
          /\ \A j \in 1 .. Len(a) + Len(fd) :
                pl[j] = IF j <= Len(a) THEN a[j] ELSE fd[j - Len(a)]
      BY <1>3, <2>1, <2>2, ConcatProperties
    <3> QED
      BY <1>3, <2>2, <3>1
  <2>4. pl[1] = a[1]
    BY <1>1, <2>3
  <2>5. ASSUME NEW j \in 1 .. z PROVE pl[j + 1] = fd[j]
    <3> DEFINE v == j + 1
    <3>1. v \in 1 .. 1 + z /\ ~ (v <= 1) /\ v - 1 = j
      BY <1>1
    <3> HIDE DEF v
    <3>2. pl[v] = fd[v - 1]
      BY <2>3, <3>1
    <3> QED
      BY <3>1, <3>2 DEF v
  <2> QED
    BY <1>1, <2>2, <2>3, <2>4, <2>5
<1> HIDE DEF pl, z
<1> DEFINE c == FrameChunk(f)
<1>7. /\ c \in Seq(Cell) /\ Len(c) = z + 1 + 2
      /\ c[1] = ChunkHeader("FRMD", z + 1) /\ c[z + 1 + 2] = Crc(pl)
      /\ \A i \in 1 .. z + 1 : c[i + 1] = pl[i]
  <2>1. c = Chunk("FRMD", pl) /\ "FRMD" \in Ids
    BY DEF FrameChunk, pl, Ids
  <2> HIDE DEF c
  <2> QED
    BY <1>6, <2>1, CellsOfChunk
<1> HIDE DEF c
<1>8. z + 1 + 2 = z + 3
  BY <1>1
<1>9. c[2] = FrameHeader(f)
  <2>1. 1 \in 1 .. z + 1 /\ 1 + 1 = 2
    BY <1>1
  <2> QED
    BY <1>6, <1>7, <2>1
<1>10. ASSUME NEW j \in 1 .. z PROVE c[j + 2] = Data(f.n, j)
  <2>1. j + 1 \in 1 .. z + 1 /\ j + 1 + 1 = j + 2
    BY <1>1
  <2>2. c[j + 1 + 1] = pl[j + 1]
    BY <1>7, <2>1
  <2> QED
    BY <1>4, <1>6, <2>1, <2>2
<1> QED
  BY <1>1, <1>7, <1>8, <1>9, <1>10 DEF c, z, pl

(* The cells of a stream info chunk.                                       *)
LEMMA SinfCells ==
    ASSUME NEW sid \in StreamIds, NEW type \in StreamTypes
    PROVE  LET c == StreamInfoChunk(sid, type)
           IN  /\ c \in Seq(Cell) /\ Len(c) = 3
               /\ c[1] = ChunkHeader("SINF", 1)
               /\ c[2] = StreamInfo(sid, type)
               /\ c[3] = Crc(<<StreamInfo(sid, type)>>)
<1> DEFINE x == StreamInfo(sid, type)
           pl == <<x>>
           c == StreamInfoChunk(sid, type)
<1>1. x \in BareCell
  BY DEF StreamInfo, BareCell
<1>2. pl \in Seq(BareCell) /\ Len(pl) = 1 /\ pl[1] = x
  BY <1>1
<1>3. c = Chunk("SINF", pl) /\ "SINF" \in Ids
  BY DEF StreamInfoChunk, Ids
<1> HIDE DEF pl, c, x
<1>4. /\ c \in Seq(Cell) /\ Len(c) = 1 + 2
      /\ c[1] = ChunkHeader("SINF", 1) /\ c[1 + 2] = Crc(pl)
      /\ \A i \in 1 .. 1 : c[i + 1] = pl[i]
  BY <1>2, <1>3, CellsOfChunk
<1>5. c[2] = pl[1]
  <2>1. 1 \in 1 .. 1 /\ 1 + 1 = 2
    OBVIOUS
  <2> QED
    BY <1>4, <2>1
<1> QED
  BY <1>2, <1>4, <1>5 DEF c, x, pl

-----------------------------------------------------------------------------
(* A chunk that a reader may skip is three cells long.                     *)

ShortInfos(cells) ==
    \A p \in 1 .. Len(cells) :
        cells[p].k = "chunk" /\ cells[p].id = "SINF" => cells[p].size = 1

(* Appending keeps it so.                                                  *)
LEMMA ShortConcat ==
    ASSUME NEW a \in Seq(Cell), NEW b \in Seq(Cell), ShortInfos(a), ShortInfos(b)
    PROVE  ShortInfos(a \o b)
<1>1. Len(a) \in Nat /\ Len(b) \in Nat
  BY LenProperties
<1> SUFFICES ASSUME NEW j \in 1 .. Len(a) + Len(b),
                    (a \o b)[j].k = "chunk", (a \o b)[j].id = "SINF"
             PROVE  (a \o b)[j].size = 1
  BY ConcatProperties DEF ShortInfos
<1>2. CASE j <= Len(a)
  BY <1>1, <1>2, ConcatProperties DEF ShortInfos
<1>3. CASE ~(j <= Len(a))
  <2>1. j - Len(a) \in 1 .. Len(b) /\ (a \o b)[j] = b[j - Len(a)]
    BY <1>1, <1>3, ConcatProperties
  <2> QED
    BY <2>1 DEF ShortInfos
<1> QED
  BY <1>2, <1>3

(* A chunk is written with the size of its payload.                        *)
LEMMA ChunkIsShort ==
    ASSUME NEW id \in Ids, NEW payload \in Seq(BareCell),
           id = "SINF" => Len(payload) = 1,
           \A i \in 1 .. Len(payload) : payload[i].k # "chunk"
    PROVE  ShortInfos(Chunk(id, payload))
<1> SUFFICES ASSUME NEW j \in 1 .. Len(Chunk(id, payload)),
                    Chunk(id, payload)[j].k = "chunk",
                    Chunk(id, payload)[j].id = "SINF"
             PROVE  Chunk(id, payload)[j].size = 1
  BY DEF ShortInfos
<1>1. Crc(payload).k # "chunk"
  BY DEF Crc
<1>2. Chunk(id, payload)[j] = ChunkHeader(id, Len(payload))
  BY <1>1, ChunkCells
<1> QED
  BY <1>2 DEF ChunkHeader

(* Frame chunks hold no other chunk.                                       *)
LEMMA FrameIsShort == ASSUME NEW f \in Frame PROVE ShortInfos(FrameChunk(f))
<1> SUFFICES ASSUME NEW j \in 1 .. Len(FrameChunk(f)),
                    FrameChunk(f)[j].k = "chunk", FrameChunk(f)[j].id = "SINF"
             PROVE  FALSE
  BY DEF ShortInfos
<1> DEFINE c == FrameChunk(f)
           z == f.size
<1>1. /\ z \in Nat /\ Len(c) = z + 3
      /\ c[1] = ChunkHeader("FRMD", z + 1) /\ c[2] = FrameHeader(f)
      /\ c[z + 3] = Crc(FramePayload(f))
      /\ \A i \in 1 .. z : c[i + 2] = Data(f.n, i)
  BY FrameCells
<1>2. c[j].k = "chunk" /\ c[j].id = "SINF" /\ j \in 1 .. Len(c)
  OBVIOUS
<1> HIDE DEF c, z
<1>3. j # 1
  BY <1>1, <1>2 DEF ChunkHeader
<1>4. j # 2
  BY <1>1, <1>2 DEF FrameHeader
<1>5. j # z + 3
  BY <1>1, <1>2 DEF Crc
<1>6. j - 2 \in 1 .. z /\ (j - 2) + 2 = j
  BY <1>1, <1>2, <1>3, <1>4, <1>5
<1>7. c[j] = Data(f.n, j - 2)
  BY <1>1, <1>6
<1> QED
  BY <1>2, <1>7 DEF Data

(* Nor do index chunks.                                                    *)
LEMMA IndexIsShort == ASSUME NEW ix \in Seq(EntryCell) PROVE ShortInfos(IndexChunk(ix))
<1> DEFINE pl == IndexPayload(ix)
<1>1. ix \in Seq(BareCell) /\ Len(ix) \in Nat
  BY EntriesAreCells, SeqMonotonic, LenProperties
<1>2. Count(Len(ix)) \in BareCell /\ Count(Len(ix)).k # "chunk"
  BY <1>1 DEF Count, BareCell
<1>3. pl \in Seq(BareCell) /\ \A i \in 1 .. Len(pl) : pl[i].k # "chunk"
  <2>1. <<Count(Len(ix))>> \in Seq(BareCell) /\ Len(<<Count(Len(ix))>>) = 1
    BY <1>2
  <2>2. pl \in Seq(BareCell) /\ Len(pl) = 1 + Len(ix)
        /\ \A i \in 1 .. 1 + Len(ix) :
              pl[i] = IF i <= 1 THEN Count(Len(ix)) ELSE ix[i - 1]
    BY <1>1, <2>1, ConcatProperties DEF IndexPayload
  <2>3. \A i \in 1 .. Len(ix) : ix[i].k # "chunk"
    <3>1. \A i \in 1 .. Len(ix) : ix[i] \in EntryCell
      BY <1>1, ElementOfSeq
    <3> QED
      BY <3>1 DEF EntryCell
  <2> HIDE DEF pl
  <2>4. \A i \in 1 .. 1 + Len(ix) : ~ (i <= 1) => i - 1 \in 1 .. Len(ix)
    BY <1>1
  <2> QED
    BY <1>2, <2>2, <2>3, <2>4
<1> QED
  BY <1>3, ChunkIsShort DEF IndexChunk, Ids

(* And a stream info is one cell.                                          *)
LEMMA SinfIsShort ==
    ASSUME NEW sid \in StreamIds, NEW type \in StreamTypes
    PROVE  ShortInfos(StreamInfoChunk(sid, type))
<1> DEFINE c == StreamInfoChunk(sid, type)
<1>1. /\ Len(c) = 3 /\ c[1] = ChunkHeader("SINF", 1)
      /\ c[2] = StreamInfo(sid, type) /\ c[3] = Crc(<<StreamInfo(sid, type)>>)
  BY SinfCells
<1> HIDE DEF c
<1>2. c[1].size = 1 /\ c[2].k # "chunk" /\ c[3].k # "chunk"
  BY <1>1 DEF ChunkHeader, StreamInfo, Crc
<1>3. ShortInfos(c)
  BY <1>1, <1>2 DEF ShortInfos
<1> QED
  BY <1>3 DEF c

(* The opening: file header and video stream info.                         *)
LEMMA OpeningCellsAre ==
    ASSUME WTypeOK
    PROVE  /\ OpeningCells \in Seq(Cell) /\ Len(OpeningCells) = 4
           /\ OpeningCells[2] = ChunkHeader("SINF", 1)
           /\ OpeningCells[3].k = "sinf" /\ OpeningCells[4] = Crc(<<OpeningCells[3]>>)
           /\ ShortInfos(OpeningCells)
<1> DEFINE c == StreamInfoChunk(0, "video")
           a == <<FileHeader(header)>>
<1>1. /\ c \in Seq(Cell) /\ Len(c) = 3 /\ c[1] = ChunkHeader("SINF", 1)
      /\ c[2] = StreamInfo(0, "video") /\ c[3] = Crc(<<c[2]>>) /\ ShortInfos(c)
  <2>1. 0 \in StreamIds /\ "video" \in StreamTypes
    BY FormatAssumption DEF StreamIds, StreamTypes
  <2> QED
    BY <2>1, SinfCells, SinfIsShort
<1>2. FileHeader(header) \in Cell
  BY HeaderTypes DEF WTypeOK
<1> HIDE DEF c
<1>3. /\ a \o c \in Seq(Cell) /\ Len(a \o c) = 4
      /\ \A i \in 1 .. 4 : (a \o c)[i] = IF i <= 1 THEN a[i] ELSE c[i - 1]
  <2>1. /\ a \o c \in Seq(Cell) /\ Len(a \o c) = Len(c) + 1
        /\ \A i \in 1 .. Len(c) + 1 :
              (a \o c)[i] = IF i <= 1 THEN a[i] ELSE c[i - 1]
    BY <1>1, <1>2, PrependCell
  <2>2. Len(c) + 1 = 4
    BY <1>1
  <2> HIDE DEF a
  <2> QED
    BY <2>1, <2>2
<1>4. (a \o c)[2] = c[1] /\ (a \o c)[3] = c[2] /\ (a \o c)[4] = c[3]
  <2> HIDE DEF a
  <2> QED
    BY <1>3
<1>5. a \in Seq(Cell) /\ Len(a) = 1 /\ a[1] = FileHeader(header)
  BY <1>2
<1>6. ShortInfos(a)
  <2>1. FileHeader(header).k # "chunk"
    BY DEF FileHeader
  <2> HIDE DEF a
  <2> QED
    BY <1>5, <2>1 DEF ShortInfos
<1>7. ShortInfos(a \o c)
  BY <1>1, <1>5, <1>6, ShortConcat
<1>8. c[2].k = "sinf"
  BY <1>1 DEF StreamInfo
<1> QED
  BY <1>1, <1>3, <1>4, <1>7, <1>8 DEF OpeningCells, c

(* What a recorder does whom nothing fails but its own life.               *)
Opens   == /\ wst = "unopened" /\ wst' = "open" /\ SameEntries
           /\ file' = file \o OpeningCells
Streams == \E sid \in StreamIds :
              /\ wst = "open" /\ wst' = "open" /\ SameEntries /\ attempts = <<>>
              /\ file' = file \o StreamInfoChunk(sid, "audio")
Writes  == \E f \in NewFrames :
              /\ wst = "open" /\ wst' = "open" /\ f.n \in 1 .. MaxFrames
              /\ file' = file \o FrameChunk(f)
              /\ index' = Append(index, IndexEntry(f, Len(file)))
              /\ attempts' = Append(attempts, [f |-> f, ok |-> TRUE])
Indexes == /\ wst = "open" /\ wst' = "indexed" /\ SameEntries
           /\ file' \in {file, file \o IndexChunk(index)}
           /\ index # <<>> => header'.index_offset = Len(file)
Heads   == /\ wst = "indexed" /\ wst' = "closing" /\ SameEntries /\ UNCHANGED file
           /\ rewound' /\ header'.index_offset = header.index_offset
Closes  == Fclose
Dies    == \E m \in Torn(file), hdr \in BOOLEAN : Crash(m, hdr)

(* Without faults the recorder takes these steps only.                     *)
LEMMA FaultlessSteps ==
    ASSUME WTypeOK, WNext, faults' = 0
    PROVE  /\ Opens \/ Streams \/ Writes \/ Indexes \/ Heads \/ Closes \/ Dies
           /\ faults = 0
<1>1. /\ faults \in Nat /\ file \in Seq(Cell) /\ Len(index) \in Nat
      /\ index \in Seq(EntryCell) /\ header \in HeaderType
  BY WriterAssumption, LenProperties DEF WTypeOK
<1>2. ~ Fault
  BY <1>1 DEF Fault
<1>3. ASSUME NEW c \in Seq(Cell), NEW k, PutsSome(c, k)
      PROVE  k = Len(c) /\ file' = file \o c /\ faults = 0
  <2>1. k \in 0 .. Len(c) /\ ~ (k < Len(c)) /\ Len(c) \in Nat /\ faults = 0
    BY <1>1, <1>3, LenProperties DEF PutsSome
  <2>2. k = Len(c)
    BY <2>1
  <2>3. faults \in 0 .. MaxFaults
    BY DEF WTypeOK
  <2> QED
    BY <1>1, <1>3, <2>1, <2>2, <2>3, PutsShape
<1>4. ASSUME NEW k \in 0 .. 4, EncoderOpen(k) PROVE Opens /\ faults = 0
  <2>1. PutsSome(OpeningCells, k)
    BY <1>4 DEF EncoderOpen, OpeningCells
  <2>2. k = Len(OpeningCells) /\ file' = file \o OpeningCells /\ faults = 0
    BY <1>3, <2>1, OpeningShape
  <2>3. /\ wst = "unopened" /\ SameEntries
        /\ wst' = IF k < Len(OpeningCells) THEN "closing" ELSE "open"
    BY <1>4 DEF EncoderOpen, OpeningCells, SameEntries
  <2>4. ~ (k < Len(OpeningCells))
    BY <2>2
  <2> QED
    BY <2>2, <2>3, <2>4 DEF Opens
<1>5. ASSUME NEW sid \in StreamIds \ {0}, NEW k \in 0 .. 3,
             WriteStreamInfo(sid, "audio", k)
      PROVE  Streams /\ faults = 0
  <2>1. PutsSome(StreamInfoChunk(sid, "audio"), k) /\ "audio" \in StreamTypes
    BY <1>5 DEF WriteStreamInfo, StreamTypes
  <2>2. file' = file \o StreamInfoChunk(sid, "audio") /\ faults = 0
    BY <1>3, <2>1, StreamInfoChunkShape
  <2> QED
    BY <1>5, <2>2 DEF WriteStreamInfo, Streams, SameEntries
<1>6. ASSUME NEW f \in NewFrames, NEW k, WriteFrame(f, k) PROVE Writes /\ faults = 0
  <2>1. RecordEntry(f) /\ PutsSome(FrameChunk(f), k)
        /\ attempts' = Append(attempts, [f |-> f, ok |-> k = Len(FrameChunk(f))])
    BY <1>6 DEF WriteFrame
  <2>2. f \in Frame
    BY <2>1, RecordTypes
  <2>3. FrameChunk(f) \in Seq(Cell)
    BY <2>2, FrameChunkShape
  <2>4. k = Len(FrameChunk(f)) /\ file' = file \o FrameChunk(f) /\ faults = 0
    BY <1>3, <2>1, <2>3
  <2>5. f.n \in 1 .. MaxFrames
    <3>1. f.n = Len(index) + 1 /\ Len(index) < MaxFrames /\ MaxFrames \in Nat
      BY <2>1, WriterAssumption DEF RecordEntry
    <3> QED
      BY <1>1, <3>1
  <2>6. attempts' = Append(attempts, [f |-> f, ok |-> TRUE])
    BY <2>1, <2>4
  <2> QED
    BY <2>1, <2>4, <2>5, <2>6 DEF Writes, RecordEntry
<1>7. ASSUME NEW k, WriteIndex(k) PROVE Indexes /\ faults = 0
  <2>1. PutsSome(IndexChunk(index), k)
    BY <1>7 DEF WriteIndex
  <2>2. k = Len(IndexChunk(index)) /\ file' = file \o IndexChunk(index) /\ faults = 0
    BY <1>1, <1>3, <2>1, IndexChunkShape
  <2>3. ~ (k < Len(IndexChunk(index)))
    BY <2>2
  <2>4. wst = "open" /\ SameEntries
        /\ wst' = IF k < Len(IndexChunk(index)) THEN "closing" ELSE "indexed"
    BY <1>7 DEF WriteIndex, SameEntries
  <2>5. header'.index_offset = Len(file)
    BY <1>1, <1>7 DEF WriteIndex, HeaderType
  <2> QED
    BY <2>2, <2>3, <2>4, <2>5 DEF Indexes
<1>8. WriteNoIndex => Indexes /\ faults = 0
  BY DEF WriteNoIndex, Indexes, SameEntries
<1>9. FinishHeader => Heads /\ faults = 0
  BY <1>1 DEF FinishHeader, Heads, SameEntries, HeaderType
<1>10. /\ ~ WriteFrameNoRoom /\ ~ WriteIndexNoPayload
       /\ \A f : ~ WriteFrameNoPayload(f)
       /\ \A m : ~ FinishHeaderNoFlush(m) /\ ~ FcloseNoFlush(m)
  BY <1>2 DEF WriteFrameNoRoom, WriteIndexNoPayload, WriteFrameNoPayload,
              FinishHeaderNoFlush, FcloseNoFlush
<1>11. Closes \/ Dies => faults = 0
  BY DEF Closes, Dies, Fclose, Crash
<1> QED
  BY <1>4, <1>5, <1>6, <1>7, <1>8, <1>9, <1>10, <1>11 DEF WNext, Closes, Dies

-----------------------------------------------------------------------------
(* Where everything is in a file with s stream infos.                      *)

FramesEnd(s)  == IF index = <<>> THEN 1 + 3 * s ELSE FrameEnd(Len(index))
StartOf(s, c) == IF c = 1 THEN 1 + 3 * s ELSE FrameEnd(c - 1)

\* The frames are all there is between the stream infos and the index.
Contiguous(s) ==
    \A i \in 1 .. Len(index) :
        /\ attempts[i].ok /\ index[i].off = StartOf(s, i) /\ index[i].off >= 1 + 3 * s
        /\ \A j \in 1 .. i - 1 : FrameEnd(j) <= index[i].off

SinfAt(p) ==
    /\ p <= Len(file) => file[p] = ChunkHeader("SINF", 1)
    /\ p + 1 <= Len(file) => file[p + 1].k = "sinf"
    /\ p + 2 <= Len(file) => file[p + 2] = Crc(<<file[p + 1]>>)
InfosAt(s) == \A j \in 0 .. s - 1 : SinfAt(2 + 3 * j)
FramesAt ==
    \A i \in 1 .. Len(index) : \A j \in 1 .. Len(FrameChunk(attempts[i].f)) :
        index[i].off + j <= Len(file) => file[index[i].off + j] = FrameChunk(attempts[i].f)[j]
IndexAt(s) ==
    FramesEnd(s) + 1 <= Len(file) =>
        file[FramesEnd(s) + 1].k = "chunk" /\ file[FramesEnd(s) + 1].id = "FRIX"

\* What is said of the cells stays true of a prefix, and when the file
\* header is rewritten.
Cells(s) == InfosAt(s) /\ ShortInfos(file) /\ FramesAt /\ IndexAt(s)

HowLong(s) ==
    /\ wst = "unopened" => s = 0 /\ file = <<>> /\ index = <<>>
    /\ wst = "open" => Len(file) = FramesEnd(s)
    /\ wst \in {"indexed", "closing", "closed"} => Len(file) >= FramesEnd(s)

Layout(s) == Contiguous(s) /\ Cells(s) /\ HowLong(s)

(* The ends of the frames.                                                 *)
LEMMA EndTypes ==
    ASSUME WTypeOK, NEW i \in 1 .. Len(index)
    PROVE  /\ index[i].off \in Nat /\ FrameEnd(i) \in Nat
           /\ attempts[i].f \in Frame /\ attempts[i].f.size \in Nat
           /\ Len(FrameChunk(attempts[i].f)) = attempts[i].f.size + 3
           /\ FrameEnd(i) = index[i].off + attempts[i].f.size + 3
           /\ FrameEnd(i) = index[i].off + Len(FrameChunk(attempts[i].f))
           /\ FrameEnd(i) >= index[i].off + 4
<1>1. index[i].off \in Nat /\ attempts[i].f \in Frame
  BY EntryTypes
<1>2. /\ attempts[i].f.size \in Nat /\ attempts[i].f.size >= 1
      /\ Len(FrameChunk(attempts[i].f)) = attempts[i].f.size + 3
  BY <1>1, FrameCells
<1>3. FrameEnd(i) = index[i].off + attempts[i].f.size + 3
  BY DEF FrameEnd
<1>4. \A o, z \in Nat : z >= 1 => /\ o + z + 3 \in Nat /\ o + z + 3 = o + (z + 3)
                                /\ o + z + 3 >= o + 4
  OBVIOUS
<1> QED
  BY <1>1, <1>2, <1>3, <1>4

(* No frame reaches beyond the end of the frames.                          *)
LEMMA FramesEndType ==
    ASSUME WTypeOK, NEW s \in Nat, Contiguous(s)
    PROVE  /\ FramesEnd(s) \in Nat /\ FramesEnd(s) >= 1 + 3 * s
           /\ \A i \in 1 .. Len(index) : FrameEnd(i) <= FramesEnd(s)
<1> DEFINE n == Len(index)
<1>1. n \in Nat /\ (index = <<>> <=> n = 0)
  BY LenProperties, EmptySeq DEF WTypeOK
<1>2. CASE n = 0
  BY <1>1, <1>2 DEF FramesEnd
<1>3. CASE n # 0
  <2>1. n \in 1 .. n /\ FramesEnd(s) = FrameEnd(n)
    BY <1>1, <1>3 DEF FramesEnd
  <2>2. FrameEnd(n) \in Nat /\ FrameEnd(n) >= index[n].off + 4 /\ index[n].off \in Nat
    BY <2>1, EndTypes
  <2>3. index[n].off >= 1 + 3 * s /\ \A i \in 1 .. n - 1 : FrameEnd(i) <= index[n].off
    BY <2>1 DEF Contiguous
  <2>4. ASSUME NEW i \in 1 .. n PROVE FrameEnd(i) <= FrameEnd(n)
    <3>1. CASE i = n
      BY <2>2, <3>1
    <3>2. CASE i # n
      <4>1. i \in 1 .. n - 1 /\ FrameEnd(i) \in Nat
        BY <1>1, <3>2, EndTypes
      <4> QED
        BY <2>2, <2>3, <4>1
    <3> QED
      BY <3>1, <3>2
  <2> QED
    BY <1>1, <2>1, <2>2, <2>3, <2>4
<1> QED
  BY <1>2, <1>3

(* Nothing moves when the index stays.                                     *)
LEMMA SameEnds ==
    ASSUME SameEntries, NEW s \in Nat
    PROVE  /\ FramesEnd(s)' = FramesEnd(s) /\ (Contiguous(s) => Contiguous(s)')
           /\ \A i : FrameEnd(i)' = FrameEnd(i)
  BY DEF SameEntries, FramesEnd, FrameEnd, Contiguous, StartOf

(* A stream info whose cells stay.                                         *)
LEMMA SinfStays ==
    ASSUME NEW p \in Nat, p >= 2, SinfAt(p), Len(file') \in Nat,
           \A q \in Nat : q >= 2 /\ q <= p + 2 /\ q <= Len(file')
                             => q <= Len(file) /\ file'[q] = file[q]
    PROVE  SinfAt(p)'
<1>1. p + 1 \in Nat /\ p + 2 \in Nat
  OBVIOUS
<1>2. p <= Len(file') => file'[p] = ChunkHeader("SINF", 1)
  BY DEF SinfAt
<1>3. p + 1 <= Len(file') => file'[p + 1].k = "sinf"
  BY <1>1 DEF SinfAt
<1>4. p + 2 <= Len(file') => file'[p + 2] = Crc(<<file'[p + 1]>>)
  BY <1>1 DEF SinfAt
<1> QED
  BY <1>2, <1>3, <1>4 DEF SinfAt

(* Cells that stay.                                                        *)
LEMMA CellsKept ==
    ASSUME WTypeOK, NEW s \in Nat, Contiguous(s), Cells(s), SameEntries,
           Len(file') \in Nat,
           \A p \in 1 .. Len(file') :
               \/ p = 1 /\ file'[p].k = "file"
               \/ p <= Len(file) /\ file'[p] = file[p]
    PROVE  Cells(s)'
<1>1. index' = index /\ attempts' = attempts /\ FramesEnd(s)' = FramesEnd(s)
  BY SameEnds DEF SameEntries
<1>2. Len(file) \in Nat
  BY LenProperties DEF WTypeOK
<1>3. ASSUME NEW p \in Nat, p >= 2, p <= Len(file')
      PROVE  p <= Len(file) /\ file'[p] = file[p]
  BY <1>3
<1>4. InfosAt(s)'
  <2> SUFFICES ASSUME NEW j \in 0 .. s - 1 PROVE SinfAt(2 + 3 * j)'
    BY DEF InfosAt
  <2>1. 2 + 3 * j \in Nat /\ 2 + 3 * j >= 2 /\ SinfAt(2 + 3 * j)
    BY DEF Cells, InfosAt
  <2> QED
    BY <1>3, <2>1, SinfStays
<1>5. ShortInfos(file')
  BY <1>2 DEF Cells, ShortInfos
<1>6. FramesAt'
  <2> SUFFICES ASSUME NEW i \in 1 .. Len(index),
                      NEW j \in 1 .. Len(FrameChunk(attempts[i].f)),
                      index[i].off + j <= Len(file')
               PROVE  file'[index[i].off + j] = FrameChunk(attempts[i].f)[j]
    BY <1>1 DEF FramesAt
  <2>1. index[i].off \in Nat /\ index[i].off >= 1 /\ j \in Nat /\ j >= 1
    BY EndTypes, SMTT(30) DEF Contiguous
  <2>2. index[i].off + j \in Nat /\ index[i].off + j >= 2
    BY <2>1
  <2> QED
    BY <1>3, <2>2 DEF Cells, FramesAt
<1>7. IndexAt(s)'
  <2>1. FramesEnd(s) \in Nat /\ FramesEnd(s) >= 1
    BY FramesEndType
  <2>2. FramesEnd(s) + 1 \in Nat /\ FramesEnd(s) + 1 >= 2
    BY <2>1
  <2> SUFFICES ASSUME FramesEnd(s) + 1 <= Len(file')
               PROVE  /\ file'[FramesEnd(s) + 1].k = "chunk"
                      /\ file'[FramesEnd(s) + 1].id = "FRIX"
    BY <1>1 DEF IndexAt
  <2> QED
    BY <1>3, <2>2 DEF Cells, IndexAt
<1> QED
  BY <1>4, <1>5, <1>6, <1>7 DEF Cells

(* Where what is appended lies.                                            *)
LEMMA Appended ==
    ASSUME NEW a \in Seq(Cell), NEW b \in Seq(Cell)
    PROVE  /\ a \o b \in Seq(Cell) /\ Len(a) \in Nat /\ Len(b) \in Nat
           /\ Len(a \o b) = Len(a) + Len(b)
           /\ \A p \in 1 .. Len(a) : (a \o b)[p] = a[p]
           /\ \A j \in 1 .. Len(b) : (a \o b)[Len(a) + j] = b[j]
<1>1. Len(a) \in Nat /\ Len(b) \in Nat /\ a \o b \in Seq(Cell)
      /\ Len(a \o b) = Len(a) + Len(b)
  BY ConcatProperties, LenProperties
<1>2. \A p \in 1 .. Len(a) + Len(b) :
          (a \o b)[p] = IF p <= Len(a) THEN a[p] ELSE b[p - Len(a)]
  BY ConcatProperties
<1>3. \A p \in 1 .. Len(a) : (a \o b)[p] = a[p]
  BY <1>1, <1>2
<1>4. ASSUME NEW j \in 1 .. Len(b) PROVE (a \o b)[Len(a) + j] = b[j]
  <2> DEFINE v == Len(a) + j
  <2>1. v \in 1 .. Len(a) + Len(b) /\ ~ (v <= Len(a)) /\ v - Len(a) = j
    BY <1>1
  <2> HIDE DEF v
  <2>2. (a \o b)[v] = b[v - Len(a)]
    BY <1>2, <2>1
  <2> QED
    BY <2>1, <2>2 DEF v
<1> QED
  BY <1>1, <1>3, <1>4

(* encoder_open: no frames yet, one stream info.                           *)
LEMMA OpensKeeps ==
    ASSUME WInv, NEW s \in Nat, Layout(s), Opens
    PROVE  Layout(1)'
<1>1. WTypeOK /\ file \in Seq(Cell) /\ file = <<>> /\ index = <<>>
      /\ Len(file) = 0 /\ Len(index) = 0
  BY DEF WInv, WTypeOK, Opens, Layout, HowLong
<1>2. index' = <<>> /\ Len(index') = 0 /\ wst' = "open" /\ file' = file \o OpeningCells
  BY <1>1 DEF Opens, SameEntries
<1>3. /\ OpeningCells \in Seq(Cell) /\ Len(OpeningCells) = 4
      /\ OpeningCells[2] = ChunkHeader("SINF", 1) /\ ShortInfos(OpeningCells)
      /\ OpeningCells[3].k = "sinf" /\ OpeningCells[4] = Crc(<<OpeningCells[3]>>)
  BY <1>1, OpeningCellsAre
<1>4. /\ Len(file') = 4 /\ file'[2] = ChunkHeader("SINF", 1)
      /\ file'[3].k = "sinf" /\ file'[4] = Crc(<<file'[3]>>)
  <2>1. file' = OpeningCells
    BY <1>1, <1>2, <1>3, ConcatEmptySeq
  <2> QED
    BY <1>3, <2>1
<1>5. ShortInfos(file')
  BY <1>1, <1>2, <1>3, ShortConcat DEF Layout, Cells
<1>6. FramesEnd(1)' = 4
  BY <1>2 DEF FramesEnd
<1>7. InfosAt(1)'
  <2> SUFFICES ASSUME NEW j \in 0 .. 1 - 1 PROVE SinfAt(2 + 3 * j)'
    BY DEF InfosAt
  <2>1. 2 + 3 * j = 2 /\ 2 + 1 = 3 /\ 2 + 2 = 4
    OBVIOUS
  <2>2. SinfAt(2)'
    BY <1>4, <2>1 DEF SinfAt
  <2> QED
    BY <2>1, <2>2
<1>8. FramesAt' /\ IndexAt(1)'
  BY <1>2, <1>4, <1>6 DEF FramesAt, IndexAt
<1>9. Contiguous(1)' /\ HowLong(1)'
  BY <1>2, <1>4, <1>6 DEF Contiguous, HowLong
<1> QED
  BY <1>5, <1>7, <1>8, <1>9 DEF Layout, Cells

(* The audio stream info: one more.                                        *)
LEMMA StreamsKeeps ==
    ASSUME WInv, NEW s \in Nat, Layout(s), Streams
    PROVE  Layout(s + 1)'
<1>1. PICK sid \in StreamIds : /\ wst = "open" /\ wst' = "open" /\ SameEntries
                               /\ attempts = <<>>
                               /\ file' = file \o StreamInfoChunk(sid, "audio")
  BY DEF Streams
<1> DEFINE c == StreamInfoChunk(sid, "audio")
<1>2. WTypeOK /\ file \in Seq(Cell) /\ Len(index) = 0 /\ index = <<>>
  <2>1. WTypeOK /\ Len(index) = Len(attempts) /\ index \in Seq(EntryCell)
    BY DEF WInv, WTypeOK
  <2> QED
    BY <1>1, <2>1, EmptySeq DEF WTypeOK
<1>3. index' = <<>> /\ Len(index') = 0
  BY <1>1, <1>2 DEF SameEntries
<1>4. /\ c \in Seq(Cell) /\ Len(c) = 3 /\ c[1] = ChunkHeader("SINF", 1) /\ ShortInfos(c)
      /\ c[2].k = "sinf" /\ c[3] = Crc(<<c[2]>>)
  <2>1. StreamInfo(sid, "audio").k = "sinf"
    BY DEF StreamInfo
  <2> QED
    BY <2>1, SinfCells, SinfIsShort DEF StreamTypes
<1>5. Len(file) = 1 + 3 * s
  BY <1>1, <1>2 DEF Layout, HowLong, FramesEnd
<1> HIDE DEF c
<1>6. /\ Len(file') = 1 + 3 * s + 3
      /\ \A p \in 1 .. Len(file) : file'[p] = file[p]
      /\ \A j \in 1 .. Len(c) : file'[Len(file) + j] = c[j]
  <2>1. file' = file \o c
    BY <1>1 DEF c
  <2>2. /\ Len(file') = Len(file) + Len(c)
        /\ \A p \in 1 .. Len(file) : file'[p] = file[p]
        /\ \A j \in 1 .. Len(c) : file'[Len(file) + j] = c[j]
    BY <1>2, <1>4, <2>1, Appended
  <2> QED
    BY <1>4, <1>5, <2>2
<1>7. ShortInfos(file')
  BY <1>1, <1>2, <1>4, ShortConcat DEF Layout, Cells, c
<1>8. InfosAt(s + 1)'
  <2> SUFFICES ASSUME NEW j \in 0 .. (s + 1) - 1 PROVE SinfAt(2 + 3 * j)'
    BY DEF InfosAt
  <2>1. CASE j = s
    <3>1. /\ 2 + 3 * j = Len(file) + 1 /\ 2 + 3 * j + 1 = Len(file) + 2
          /\ 2 + 3 * j + 2 = Len(file) + 3 /\ {1, 2, 3} \subseteq 1 .. Len(c)
      BY <1>4, <1>5, <2>1
    <3>2. /\ file'[Len(file) + 1] = c[1] /\ file'[Len(file) + 2] = c[2]
          /\ file'[Len(file) + 3] = c[3]
      BY <1>6, <3>1
    <3> QED
      BY <1>4, <3>1, <3>2 DEF SinfAt
  <2>2. CASE j # s
    <3>1. j \in 0 .. s - 1 /\ 2 + 3 * j \in Nat /\ 2 + 3 * j >= 2
          /\ 2 + 3 * j + 2 <= Len(file) /\ Len(file') \in Nat
      BY <1>5, <1>6, <2>2
    <3>2. SinfAt(2 + 3 * j)
      BY <3>1 DEF Layout, Cells, InfosAt
    <3>3. ASSUME NEW q \in Nat, q >= 2, q <= 2 + 3 * j + 2
          PROVE  q <= Len(file) /\ file'[q] = file[q]
      BY <1>5, <1>6, <3>1, <3>3
    <3> QED
      BY <3>1, <3>2, <3>3, SinfStays
  <2> QED
    BY <2>1, <2>2
<1>9. FramesEnd(s + 1)' = Len(file')
  BY <1>3, <1>6 DEF FramesEnd
<1>10. FramesAt' /\ IndexAt(s + 1)' /\ Contiguous(s + 1)'
  BY <1>3, <1>5, <1>6, <1>9 DEF FramesAt, IndexAt, Contiguous
<1>11. HowLong(s + 1)'
  BY <1>1, <1>9 DEF HowLong
<1> QED
  BY <1>7, <1>8, <1>10, <1>11 DEF Layout, Cells

(* crap_write_frame: the new frame begins where the last one ended.        *)
LEMMA WritesKeeps ==
    ASSUME WInv, NEW s \in Nat, Layout(s), Writes
    PROVE  Layout(s)'
<1>1. PICK f \in NewFrames :
         /\ wst = "open" /\ wst' = "open"
         /\ file' = file \o FrameChunk(f)
         /\ index' = Append(index, IndexEntry(f, Len(file)))
         /\ attempts' = Append(attempts, [f |-> f, ok |-> TRUE])
  BY DEF Writes
<1> DEFINE n == Len(index)
           c == FrameChunk(f)
           L == Len(file)
<1>2. WTypeOK /\ file \in Seq(Cell) /\ index \in Seq(EntryCell) /\ n \in Nat /\ L \in Nat
      /\ attempts \in Seq([f: Frame, ok: BOOLEAN]) /\ Len(attempts) = n
  BY LenProperties DEF WInv, WTypeOK
<1>3. f \in Frame
  <2>1. n + 1 \in Nat \ {0}
    BY <1>2
  <2> QED
    BY <2>1 DEF NewFrames, Frame
<1>4. f.size \in Nat /\ f.size >= 1 /\ c \in Seq(Cell) /\ Len(c) = f.size + 3 /\ ShortInfos(c)
  BY <1>3, FrameCells, FrameIsShort
<1>5. /\ Contiguous(s) /\ Cells(s) /\ L = FramesEnd(s)
  BY <1>1 DEF Layout, HowLong
<1> HIDE DEF c
<1>6. /\ Len(file') = L + Len(c)
      /\ \A p \in 1 .. L : file'[p] = file[p]
      /\ \A j \in 1 .. Len(c) : file'[L + j] = c[j]
  BY <1>1, <1>2, <1>4, Appended DEF c
<1>7. IndexEntry(f, L) \in EntryCell /\ IndexEntry(f, L).off = L
  BY <1>2, <1>3 DEF IndexEntry, EntryCell, Frame
<1>8. /\ Len(index') = n + 1 /\ index'[n + 1].off = L
      /\ \A i \in 1 .. n : index'[i] = index[i]
  BY <1>1, <1>2, <1>7
<1>9. /\ Len(attempts') = n + 1 /\ attempts'[n + 1] = [f |-> f, ok |-> TRUE]
      /\ \A i \in 1 .. n : attempts'[i] = attempts[i]
  <2>1. [f |-> f, ok |-> TRUE] \in [f: Frame, ok: BOOLEAN]
    BY <1>3
  <2> QED
    BY <1>1, <1>2, <2>1
<1>10. index' # <<>>
  BY <1>2, <1>8
<1> HIDE DEF n, L
<1>11. \A i \in 1 .. n : FrameEnd(i)' = FrameEnd(i)
  BY <1>8, <1>9 DEF FrameEnd
<1>12. FramesEnd(s)' = L + Len(c)
  <2>1. attempts'[n + 1].f = f
    BY <1>9
  <2>2. FramesEnd(s)' = index'[n + 1].off + attempts'[n + 1].f.size + 3
    BY <1>8, <1>10 DEF FramesEnd, FrameEnd
  <2>3. FramesEnd(s)' = L + f.size + 3
    BY <1>8, <2>1, <2>2
  <2> QED
    BY <1>2, <1>4, <2>3
<1>13. /\ L >= 1 + 3 * s /\ \A i \in 1 .. n : FrameEnd(i) <= L
  BY <1>2, <1>5, FramesEndType DEF n
<1>14. L = StartOf(s, n + 1)
  BY <1>2, <1>5, EmptySeq DEF FramesEnd, StartOf, n
<1>15. Contiguous(s)'
  <2> SUFFICES ASSUME NEW i \in 1 .. n + 1
               PROVE  /\ attempts'[i].ok /\ index'[i].off = StartOf(s, i)'
                      /\ index'[i].off >= 1 + 3 * s
                      /\ \A j \in 1 .. i - 1 : FrameEnd(j)' <= index'[i].off
    BY <1>8 DEF Contiguous
  <2>1. StartOf(s, i)' = StartOf(s, i)
    <3>1. i # 1 => i - 1 \in 1 .. n
      BY <1>2
    <3> QED
      BY <1>11, <3>1 DEF StartOf
  <2>2. CASE i = n + 1
    BY <1>2, <1>8, <1>9, <1>11, <1>13, <1>14, <2>1, <2>2
  <2>3. CASE i \in 1 .. n
    <3>1. \A j \in 1 .. i - 1 : j \in 1 .. n
      BY <1>2
    <3> QED
      BY <1>5, <1>8, <1>9, <1>11, <2>1, <2>3, <3>1 DEF Contiguous, n
  <2> QED
    BY <1>2, <2>2, <2>3
<1>16. InfosAt(s)'
  <2> SUFFICES ASSUME NEW j \in 0 .. s - 1 PROVE SinfAt(2 + 3 * j)'
    BY DEF InfosAt
  <2>1. 2 + 3 * j \in Nat /\ 2 + 3 * j >= 2 /\ 2 + 3 * j + 2 <= L /\ Len(file') \in Nat
    BY <1>2, <1>4, <1>6, <1>13
  <2>2. SinfAt(2 + 3 * j)
    BY <1>5 DEF Cells, InfosAt
  <2>3. ASSUME NEW q \in Nat, q >= 2, q <= 2 + 3 * j + 2
        PROVE  q <= Len(file) /\ file'[q] = file[q]
    <3>1. q \in 1 .. L
      BY <1>2, <2>1, <2>3
    <3> QED
      BY <1>2, <1>6, <3>1 DEF L
  <2> QED
    BY <2>1, <2>2, <2>3, SinfStays
<1>17. ShortInfos(file')
  BY <1>1, <1>2, <1>4, <1>5, ShortConcat DEF Cells, c
<1>18. FramesAt'
  <2> SUFFICES ASSUME NEW i \in 1 .. n + 1,
                      NEW j \in 1 .. Len(FrameChunk(attempts'[i].f))
               PROVE  file'[index'[i].off + j] = FrameChunk(attempts'[i].f)[j]
    BY <1>8 DEF FramesAt
  <2>1. CASE i = n + 1
    <3>1. attempts'[i].f = f
      BY <1>9, <2>1
    <3> QED
      BY <1>6, <1>8, <2>1, <3>1 DEF c
  <2>2. CASE i \in 1 .. n
    <3>1. index'[i] = index[i] /\ attempts'[i] = attempts[i]
      BY <1>8, <1>9, <2>2
    <3>2. /\ index[i].off \in Nat /\ FrameEnd(i) <= L
          /\ FrameEnd(i) = index[i].off + Len(FrameChunk(attempts[i].f))
          /\ Len(FrameChunk(attempts[i].f)) \in Nat
      BY <1>2, <1>13, <2>2, EndTypes, EntryTypes DEF n
    <3>3. j \in 1 .. Len(FrameChunk(attempts[i].f))
      BY <3>1
    <3>4. index[i].off + j \in 1 .. L /\ index[i].off + j <= L
      <4>1. \A o, m \in Nat : o + m <= L /\ j \in 1 .. m => o + j \in 1 .. L
        BY <1>2
      <4> QED
        BY <1>2, <3>2, <3>3, <4>1, SMTT(30)
    <3>5. file[index[i].off + j] = FrameChunk(attempts[i].f)[j]
      BY <1>5, <2>2, <3>3, <3>4 DEF Cells, FramesAt, L, n
    <3> QED
      BY <1>6, <3>1, <3>4, <3>5
  <2> QED
    BY <1>2, <2>1, <2>2
<1>19. IndexAt(s)'
  BY <1>2, <1>4, <1>6, <1>12 DEF IndexAt
<1>20. HowLong(s)'
  BY <1>1, <1>6, <1>12 DEF HowLong
<1> QED
  BY <1>15, <1>16, <1>17, <1>18, <1>19, <1>20 DEF Layout, Cells

(* crap_write_index: the index follows the last frame.                     *)
LEMMA IndexesKeeps ==
    ASSUME WInv, NEW s \in Nat, Layout(s), Indexes
    PROVE  Layout(s)'
<1>1. /\ WTypeOK /\ file \in Seq(Cell) /\ index \in Seq(EntryCell) /\ Len(file) \in Nat
      /\ wst = "open" /\ wst' = "indexed" /\ SameEntries
      /\ Contiguous(s) /\ Cells(s) /\ Len(file) = FramesEnd(s)
  BY LenProperties DEF WInv, WTypeOK, Indexes, Layout, HowLong
<1>2. FramesEnd(s)' = FramesEnd(s) /\ Contiguous(s)'
  BY <1>1, SameEnds
<1>3. CASE file' = file
  <2>1. Cells(s)'
    BY <1>1, <1>2, <1>3 DEF SameEntries, Cells, InfosAt, SinfAt, FramesAt, IndexAt
  <2>2. HowLong(s)'
    BY <1>1, <1>2, <1>3 DEF HowLong
  <2> QED
    BY <1>2, <2>1, <2>2 DEF Layout
<1>4. CASE file' = file \o IndexChunk(index)
  <2> DEFINE c == IndexChunk(index)
             L == Len(file)
  <2>1. /\ c \in Seq(Cell) /\ Len(c) \in Nat /\ Len(c) >= 1 /\ ShortInfos(c)
        /\ c[1].k = "chunk" /\ c[1].id = "FRIX"
    <3>1. IndexPayload(index) \in Seq(BareCell) /\ c = Chunk("FRIX", IndexPayload(index))
      BY <1>1, IndexCells DEF IndexChunk
    <3>2. c[1] = ChunkHeader("FRIX", Len(IndexPayload(index)))
      BY <3>1, ChunkShape DEF Ids
    <3>3. Len(c) = Len(index) + 3 /\ Len(index) \in Nat
      BY <1>1, IndexCells
    <3>4. c \in Seq(Cell) /\ ShortInfos(c)
      BY <1>1, IndexChunkShape, IndexIsShort
    <3> HIDE DEF c
    <3> QED
      BY <3>2, <3>3, <3>4 DEF ChunkHeader
  <2> HIDE DEF c
  <2>2. /\ Len(file') = L + Len(c)
        /\ \A p \in 1 .. L : file'[p] = file[p]
        /\ \A j \in 1 .. Len(c) : file'[L + j] = c[j]
    BY <1>1, <1>4, <2>1, Appended DEF c
  <2> HIDE DEF L
  <2>3. ShortInfos(file')
    BY <1>1, <1>4, <2>1, ShortConcat DEF Cells, c
  <2>4. InfosAt(s)'
    <3> SUFFICES ASSUME NEW j \in 0 .. s - 1 PROVE SinfAt(2 + 3 * j)'
      BY DEF InfosAt
    <3>1. L \in Nat /\ L >= 1 + 3 * s
      BY <1>1, FramesEndType DEF L
    <3>2. 2 + 3 * j \in Nat /\ 2 + 3 * j >= 2 /\ 2 + 3 * j + 2 <= L /\ Len(file') \in Nat
      BY <2>1, <2>2, <3>1
    <3>3. SinfAt(2 + 3 * j)
      BY <1>1 DEF Cells, InfosAt
    <3>4. ASSUME NEW q \in Nat, q >= 2, q <= 2 + 3 * j + 2
          PROVE  q <= Len(file) /\ file'[q] = file[q]
      <4>1. q \in 1 .. L
        BY <3>1, <3>2, <3>4
      <4> QED
        BY <2>2, <3>1, <4>1 DEF L
    <3> QED
      BY <3>2, <3>3, <3>4, SinfStays
  <2>5. FramesAt'
    <3> SUFFICES ASSUME NEW i \in 1 .. Len(index),
                        NEW j \in 1 .. Len(FrameChunk(attempts[i].f))
                 PROVE  file'[index[i].off + j] = FrameChunk(attempts[i].f)[j]
      BY <1>1 DEF FramesAt, SameEntries
    <3>1. /\ index[i].off \in Nat /\ FrameEnd(i) <= L /\ L \in Nat
          /\ FrameEnd(i) = index[i].off + Len(FrameChunk(attempts[i].f))
          /\ Len(FrameChunk(attempts[i].f)) \in Nat
      BY <1>1, EndTypes, EntryTypes, FramesEndType DEF L
    <3>2. index[i].off + j \in 1 .. L /\ index[i].off + j <= L
      <4>1. \A o, m \in Nat : o + m <= L /\ j \in 1 .. m => o + j \in 1 .. L
        BY <3>1
      <4> QED
        BY <3>1, <4>1
    <3> QED
      BY <1>1, <2>2, <3>2 DEF Cells, FramesAt, L
  <2>6. IndexAt(s)'
    <3>1. 1 \in 1 .. Len(c)
      BY <2>1
    <3>2. file'[L + 1] = c[1]
      BY <2>2, <3>1
    <3>3. FramesEnd(s)' = L
      BY <1>1, <1>2 DEF L
    <3> QED
      BY <2>1, <3>2, <3>3 DEF IndexAt
  <2>7. HowLong(s)'
    <3>1. L \in Nat /\ FramesEnd(s)' = L
      BY <1>1, <1>2 DEF L
    <3> QED
      BY <1>1, <2>1, <2>2, <3>1 DEF HowLong
  <2> QED
    BY <1>2, <2>3, <2>4, <2>5, <2>6, <2>7 DEF Layout, Cells
<1> QED
  BY <1>3, <1>4 DEF Indexes

(* fclose rewrites the first cell at most.                                 *)
LEMMA FcloseShape ==
    ASSUME WInv, Fclose
    PROVE  /\ Len(file') = Len(file) /\ Len(file) \in Nat
           /\ rewound => file' # <<>> /\ file'[1] = FileHeader(header)
<1>1. /\ file' = IF rewound THEN [file EXCEPT ![1] = FileHeader(header)] ELSE file
      /\ WTypeOK /\ file \in Seq(Cell) /\ Len(file) \in Nat
  BY LenProperties DEF Fclose, WInv, WTypeOK
<1>2. CASE rewound
  <2>1. file # <<>>
    BY <1>2 DEF WInv, FinalHeaderOrdered
  <2>2. 1 \in 1 .. Len(file)
    BY <1>1, <2>1, EmptySeq
  <2>3. FileHeader(header) \in Cell
    BY <1>1, HeaderTypes DEF WTypeOK
  <2>4. Len(file') = Len(file) /\ file'[1] = FileHeader(header)
    BY <1>1, <1>2, <2>2, <2>3, ExceptSeq
  <2> QED
    BY <1>1, <2>2, <2>4
<1> QED
  BY <1>1, <1>2

(* The final header, fclose and a crash: the cells of a prefix.            *)
LEMMA EndsKeep ==
    ASSUME WInv, WInv', HeaderFirst', NEW s \in Nat, Layout(s),
           Heads \/ Closes \/ Dies
    PROVE  Layout(s)'
<1>1. WTypeOK /\ file \in Seq(Cell) /\ Len(file) \in Nat
      /\ file' \in Seq(Cell) /\ Len(file') \in Nat /\ Contiguous(s) /\ Cells(s)
  BY LenProperties DEF WInv, WTypeOK, Layout
<1>2. SameEntries
  BY EndShape DEF Heads, Closes, Dies, Ends, SameEntries
<1>3. FramesEnd(s)' = FramesEnd(s) /\ Contiguous(s)'
  BY <1>1, <1>2, SameEnds
<1>4. \A p \in 1 .. Len(file') : \/ p = 1 /\ file'[p].k = "file"
                                 \/ p <= Len(file) /\ file'[p] = file[p]
  <2>1. CASE file' = file
    BY <1>1, <2>1
  <2>2. CASE file' = [file EXCEPT ![1] = FileHeader(header)] /\ Len(file) >= 1
    <3>1. FileHeader(header) \in Cell /\ FileHeader(header).k = "file"
      BY <1>1, HeaderTypes DEF WTypeOK, FileHeader
    <3>2. 1 \in 1 .. Len(file)
      BY <1>1, <2>2
    <3> QED
      BY <1>1, <2>2, <3>1, <3>2, ExceptSeq
  <2>3. ASSUME NEW m \in 0 .. Len(file), file' = SubSeq(file, 1, m)
        PROVE  \A p \in 1 .. Len(file') : p <= Len(file) /\ file'[p] = file[p]
    BY <1>1, <2>3, PrefixShape
  <2>4. Heads => file' = file
    BY DEF Heads
  <2>5. Closes \/ Dies => Ends
    BY DEF Closes, Dies, Ends
  <2> QED
    BY <2>1, <2>2, <2>3, <2>4, <2>5, EndShape
<1>5. Cells(s)'
  BY <1>1, <1>2, <1>4, CellsKept
<1>6. HowLong(s)'
  <2>1. CASE Heads
    BY <1>3, <2>1 DEF Heads, HowLong, Layout
  <2>2. CASE Dies
    BY <2>2 DEF Dies, Crash, HowLong
  <2>3. CASE Closes
    <3>1. wst = "closing" /\ wst' = "closed" /\ Len(file') = Len(file)
      BY <2>3, FcloseShape DEF Closes, Fclose
    <3> QED
      BY <1>3, <3>1 DEF HowLong, Layout
  <2> QED
    BY <2>1, <2>2, <2>3
<1> QED
  BY <1>3, <1>5, <1>6 DEF Layout

(* An empty file has the layout.                                           *)
LEMMA LayoutInit == Init => Layout(0)
<1> SUFFICES ASSUME Init PROVE Layout(0)
  OBVIOUS
<1>1. file = <<>> /\ index = <<>> /\ wst = "unopened" /\ Len(file) = 0 /\ Len(index) = 0
  BY DEF Init, WInit
<1>2. FramesEnd(0) = 1
  BY <1>1 DEF FramesEnd
<1>3. InfosAt(0)
  <2>1. 0 .. 0 - 1 = {}
    OBVIOUS
  <2> QED
    BY <2>1 DEF InfosAt
<1> QED
  BY <1>1, <1>2, <1>3 DEF Layout, Contiguous, Cells, ShortInfos, FramesAt, IndexAt, HowLong

\* A recording that was finished has its index, if there is one to have.
Finishes ==
    /\ wst \in {"indexed", "closing"} /\ index # <<>> => header.index_offset # 0
    /\ wst = "closing" => rewound
    /\ wst = "closed" /\ index # <<>> => file # <<>> /\ file[1].index_offset # 0

(* It is finished in that order.                                           *)
LEMMA FinishesKept ==
    ASSUME WInv, Finishes
    PROVE  /\ WNext /\ faults' = 0 => Finishes'
           /\ UNCHANGED wvars => Finishes'
<1>1. WTypeOK /\ Len(file) \in Nat
  BY LenProperties DEF WInv, WTypeOK
<1>2. CASE WNext /\ faults' = 0
  <2>1. Opens \/ Streams \/ Writes \/ Indexes \/ Heads \/ Closes \/ Dies
    BY <1>1, <1>2, FaultlessSteps
  <2>2. Opens \/ Streams \/ Writes \/ Dies => Finishes'
    BY DEF Opens, Streams, Writes, Dies, Crash, Finishes
  <2>3. CASE Indexes
    <3>1. Len(file) # 0
      BY <1>1, <2>3, EmptySeq DEF Indexes, WInv, Opened, WTypeOK
    <3> QED
      BY <2>3, <3>1 DEF Indexes, SameEntries, Finishes
  <2>4. CASE Heads
    BY <2>4 DEF Heads, SameEntries, Finishes
  <2>5. CASE Closes
    <3>1. /\ wst = "closing" /\ wst' = "closed" /\ index' = index /\ rewound
          /\ file' # <<>> /\ file'[1] = FileHeader(header)
      BY <2>5, FcloseShape DEF Closes, Fclose, Finishes
    <3> QED
      BY <3>1 DEF Finishes, FileHeader
  <2> QED
    BY <2>1, <2>2, <2>3, <2>4, <2>5
<1>3. CASE UNCHANGED wvars
  BY <1>3 DEF wvars, Finishes
<1> QED
  BY <1>2, <1>3

(* The layout is kept, with one stream info more at times.                 *)
LEMMA LayoutStep ==
    ASSUME WInv, WInv', HeaderFirst', NEW s \in Nat, Layout(s)
    PROVE  /\ WNext /\ faults' = 0 => \E t \in Nat : Layout(t)'
           /\ UNCHANGED wvars => Layout(s)'
<1>1. ASSUME WNext, faults' = 0 PROVE \E t \in Nat : Layout(t)'
  <2>1. Opens \/ Streams \/ Writes \/ Indexes \/ Heads \/ Closes \/ Dies
    BY <1>1, FaultlessSteps DEF WInv
  <2>2. 1 \in Nat /\ s + 1 \in Nat
    OBVIOUS
  <2> QED
    BY <2>1, <2>2, OpensKeeps, StreamsKeeps, WritesKeeps, IndexesKeeps, EndsKeep
<1>2. ASSUME UNCHANGED wvars PROVE Layout(s)'
  BY <1>2 DEF wvars, Layout, Contiguous, Cells, InfosAt, SinfAt, FramesAt, IndexAt, HowLong,
              ShortInfos, FramesEnd, FrameEnd, StartOf
<1> QED
  BY <1>1, <1>2

-----------------------------------------------------------------------------
(* The frames that are whole.                                              *)

(* A set of numbers that goes down to 1 is 1 .. its cardinality.           *)
LEMMA DownTo1 ==
    ASSUME NEW n \in Nat, NEW S \in SUBSET (1 .. n),
           \A i \in S : \A j \in 1 .. i : j \in S
    PROVE  Cardinality(S) \in 0 .. n /\ S = 1 .. Cardinality(S)
<1> DEFINE K == {k \in Nat : k + 1 \notin S}
<1>1. K \in SUBSET Nat /\ n \in K
  OBVIOUS
<1>2. PICK k \in K : \A r \in K : k <= r
  BY <1>1, Least
<1>3. k \in Nat /\ k + 1 \notin S /\ k <= n
  BY <1>1, <1>2
<1>4. ASSUME NEW i \in 1 .. k PROVE i \in S
  <2> SUFFICES ASSUME i \notin S PROVE FALSE
    OBVIOUS
  <2>1. i - 1 \in Nat /\ i - 1 + 1 = i /\ ~ (k <= i - 1)
    BY <1>3
  <2>2. i - 1 \in K
    BY <2>1
  <2> QED
    BY <1>2, <2>1, <2>2
<1>5. ASSUME NEW i \in S PROVE i \in 1 .. k
  <2> SUFFICES ASSUME ~ (i <= k) PROVE FALSE
    BY <1>3
  <2>1. k + 1 \in 1 .. i
    BY <1>3
  <2> QED
    BY <1>3, <2>1
<1>6. S = 1 .. k
  BY <1>4, <1>5
<1>7. Cardinality(1 .. k) = k
  BY <1>3, FS_Interval
<1> HIDE DEF K
<1> QED
  BY <1>3, <1>6, <1>7

(* Each frame begins where the one before it ends.                         *)
LEMMA EndsOrdered ==
    ASSUME WTypeOK, NEW s \in Nat, Contiguous(s),
           NEW i \in 1 .. Len(index), NEW j \in 1 .. Len(index), i < j
    PROVE  /\ FrameEnd(i) \in Nat /\ FrameEnd(j) \in Nat /\ index[j].off \in Nat
           /\ FrameEnd(i) <= index[j].off /\ FrameEnd(i) < FrameEnd(j)
<1>1. i \in 1 .. j - 1 /\ Len(index) \in Nat
  BY EntryTypes
<1>2. FrameEnd(i) <= index[j].off
  BY <1>1 DEF Contiguous
<1> QED
  BY <1>2, EndTypes

(* The whole frames are the first ones, and the log is made of them.       *)
LEMMA WholeIs ==
    WTypeOK /\ (\E s \in Nat : Layout(s)) =>
        /\ Cardinality(Whole) \in 0 .. Len(index) /\ Len(index) \in Nat
        /\ Whole = 1 .. Cardinality(Whole)
        /\ \A i \in 1 .. Len(index) : i \in Whole <=> FrameEnd(i) <= Len(file)
<1> SUFFICES ASSUME WTypeOK, NEW s \in Nat, Layout(s)
             PROVE  /\ Cardinality(Whole) \in 0 .. Len(index) /\ Len(index) \in Nat
                    /\ Whole = 1 .. Cardinality(Whole)
                    /\ \A i \in 1 .. Len(index) : i \in Whole <=> FrameEnd(i) <= Len(file)
  OBVIOUS
<1>1. Len(index) \in Nat /\ Len(file) \in Nat /\ Contiguous(s)
  BY LenProperties DEF WTypeOK, Layout
<1>2. \A i \in 1 .. Len(index) : i \in Whole <=> FrameEnd(i) <= Len(file)
  BY <1>1 DEF Whole, Contiguous
<1>3. Whole \in SUBSET (1 .. Len(index))
  BY DEF Whole
<1>4. ASSUME NEW i \in Whole, NEW j \in 1 .. i PROVE j \in Whole
  <2>1. i \in 1 .. Len(index) /\ j \in 1 .. Len(index)
    BY <1>1, <1>3
  <2>2. FrameEnd(i) <= Len(file) /\ FrameEnd(i) \in Nat /\ FrameEnd(j) \in Nat
    BY <1>2, <2>1, EndTypes
  <2>3. j = i \/ j < i
    BY <2>1, <1>1
  <2>4. FrameEnd(j) <= FrameEnd(i)
    BY <1>1, <2>1, <2>2, <2>3, EndsOrdered
  <2> QED
    BY <1>1, <1>2, <2>1, <2>2, <2>4
<1>5. Cardinality(Whole) \in 0 .. Len(index) /\ Whole = 1 .. Cardinality(Whole)
  BY <1>1, <1>3, <1>4, DownTo1
<1> QED
  BY <1>1, <1>2, <1>5

(* While the recorder works every frame is whole.                          *)
LEMMA LiveWhole ==
    WTypeOK /\ (\E s \in Nat : Layout(s)) /\ Live => Whole = 1 .. Len(index)
<1> SUFFICES ASSUME WTypeOK, NEW s \in Nat, Layout(s), Live
             PROVE  Whole = 1 .. Len(index)
  OBVIOUS
<1>1. Len(index) \in Nat /\ Len(file) \in Nat /\ Contiguous(s)
  BY LenProperties DEF WTypeOK, Layout
<1>2. ASSUME NEW i \in 1 .. Len(index) PROVE FrameEnd(i) <= Len(file)
  <2>1. wst # "unopened"
    <3>1. index = <<>> => Len(index) = 0
      OBVIOUS
    <3> QED
      BY <1>2, <3>1 DEF Layout, HowLong
  <2>2. wst \in {"open", "indexed", "closing"}
    BY <2>1 DEF Live, WTypeOK
  <2>3. FramesEnd(s) \in Nat /\ FrameEnd(i) <= FramesEnd(s) /\ FrameEnd(i) \in Nat
    BY <1>1, FramesEndType, EndTypes
  <2>4. Len(file) >= FramesEnd(s)
    BY <1>1, <2>2, <2>3 DEF Layout, HowLong
  <2> QED
    BY <1>1, <2>3, <2>4
<1> QED
  BY <1>1, <1>2 DEF Whole, Contiguous

(* Of the whole frames, those that end at or before r.                     *)
Behind(r) == {i \in Whole : FrameEnd(i) <= r}

(* Within a frame, the frames before it are behind.                        *)
LEMMA BehindAt ==
    ASSUME WTypeOK, NEW s \in Nat, Layout(s), NEW c \in 1 .. Len(index), NEW r \in Nat,
           index[c].off <= r, r < FrameEnd(c)
    PROVE  Behind(r) = {i \in Whole : i < c}
<1>1. Contiguous(s) /\ index[c].off \in Nat /\ FrameEnd(c) \in Nat /\ Len(index) \in Nat
  BY EndTypes, EntryTypes DEF Layout
<1>2. ASSUME NEW i \in 1 .. Len(index) PROVE FrameEnd(i) <= r <=> i < c
  <2>1. CASE i < c
    BY <1>1, <2>1, EndsOrdered
  <2>2. CASE i = c
    BY <1>1, <2>2
  <2>3. CASE c < i
    BY <1>1, <2>3, EndsOrdered
  <2> QED
    BY <1>1, <2>1, <2>2, <2>3
<1>3. Whole \subseteq 1 .. Len(index)
  BY DEF Whole
<1> QED
  BY <1>2, <1>3 DEF Behind

(* At its end, that frame as well.                                         *)
LEMMA BehindEnd ==
    ASSUME WTypeOK, NEW s \in Nat, Layout(s), NEW c \in 1 .. Len(index)
    PROVE  Behind(FrameEnd(c)) = {i \in Whole : i <= c}
<1>1. Contiguous(s) /\ FrameEnd(c) \in Nat /\ Len(index) \in Nat
  BY EndTypes, EntryTypes DEF Layout
<1>2. ASSUME NEW i \in 1 .. Len(index) PROVE FrameEnd(i) <= FrameEnd(c) <=> i <= c
  <2>1. CASE i < c
    BY <1>1, <2>1, EndsOrdered
  <2>2. CASE i = c
    BY <1>1, <2>2
  <2>3. CASE c < i
    BY <1>1, <2>3, EndsOrdered
  <2> QED
    BY <1>1, <2>1, <2>2, <2>3
<1>3. Whole \subseteq 1 .. Len(index)
  BY DEF Whole
<1> QED
  BY <1>2, <1>3 DEF Behind

(* At the end of the file or of the frames, all of them.                   *)
LEMMA BehindAll ==
    ASSUME WTypeOK, NEW s \in Nat, Layout(s), NEW r \in Nat,
           r >= Len(file) \/ r >= FramesEnd(s)
    PROVE  Behind(r) = Whole
<1>1. Contiguous(s) /\ Len(file) \in Nat /\ FramesEnd(s) \in Nat
  BY FramesEndType, LenProperties DEF Layout, WTypeOK
<1>2. ASSUME NEW i \in Whole PROVE FrameEnd(i) <= r
  <2>1. i \in 1 .. Len(index) /\ FrameEnd(i) <= Len(file)
    BY DEF Whole
  <2>2. FrameEnd(i) \in Nat /\ FrameEnd(i) <= FramesEnd(s)
    BY <1>1, <2>1, EndTypes, FramesEndType
  <2> QED
    BY <1>1, <2>1, <2>2
<1> QED
  BY <1>2 DEF Behind

(* Among the stream infos, none.                                           *)
LEMMA BehindNone ==
    ASSUME WTypeOK, NEW s \in Nat, Layout(s), NEW r \in Nat, r <= 1 + 3 * s
    PROVE  Behind(r) = {}
<1>1. Contiguous(s)
  BY DEF Layout
<1>2. ASSUME NEW i \in Whole PROVE ~ (FrameEnd(i) <= r)
  <2>1. i \in 1 .. Len(index)
    BY DEF Whole
  <2>2. FrameEnd(i) \in Nat /\ index[i].off \in Nat
        /\ FrameEnd(i) >= index[i].off + 4 /\ index[i].off >= 1 + 3 * s
    BY <1>1, <2>1, EndTypes DEF Contiguous
  <2> QED
    BY <2>2
<1> QED
  BY <1>2 DEF Behind

(* How many precede a frame.                                               *)
LEMMA HowManyBefore ==
    ASSUME WTypeOK, NEW s \in Nat, Layout(s), NEW c \in 1 .. Len(index)
    PROVE  /\ c \in Whole => /\ Cardinality({i \in Whole : i < c}) = c - 1
                             /\ Cardinality({i \in Whole : i <= c}) = c
           /\ c \notin Whole => /\ {i \in Whole : i < c} = Whole
                                /\ {i \in Whole : i <= c} = Whole
<1> DEFINE w == Cardinality(Whole)
<1>1. w \in Nat /\ Whole = 1 .. w /\ c \in Nat /\ c >= 1
  BY WholeIs
<1> HIDE DEF w
<1>2. CASE c \in Whole
  <2>1. {i \in Whole : i < c} = 1 .. c - 1 /\ {i \in Whole : i <= c} = 1 .. c
    BY <1>1, <1>2
  <2>2. Cardinality(1 .. c - 1) = c - 1 /\ Cardinality(1 .. c) = c
    BY <1>1, FS_Interval
  <2> QED
    BY <1>2, <2>1, <2>2
<1>3. CASE c \notin Whole
  BY <1>1, <1>3
<1> QED
  BY <1>2, <1>3

-----------------------------------------------------------------------------
(* What a reader meets.                                                    *)

(* Where there is nothing to skip, crap_peek_frame skips nothing.          *)
LEMMA ScanStays ==
    ASSUME NEW img \in Seq(Cell), ShortInfos(img), NEW q \in Nat,
           ~ (/\ Reader!CellAt(img, q, "chunk")
              /\ img[q + 1].id \notin {"FRMD", "FRIX", "EOFC"})
    PROVE  Reader!ScanEnd(img, q) = q
<1> DEFINE Skips(p) == /\ Reader!CellAt(img, p, "chunk")
                       /\ img[p + 1].id \notin {"FRMD", "FRIX", "EOFC"}
           P == {p \in Nat : Skips(p)}
           At == CHOOSE f : f = [p \in Nat |->
                     IF /\ Reader!CellAt(img, p, "chunk")
                        /\ img[p + 1].id \notin {"FRMD", "FRIX", "EOFC"}
                     THEN f[p + 2 + img[p + 1].size] ELSE p]
<1>1. Len(img) \in Nat /\ P \in SUBSET Nat /\ \A p \in P : p < Len(img)
  BY LenProperties DEF Reader!CellAt
<1>2. ASSUME NEW p \in P PROVE p + 2 + img[p + 1].size = p + 3
  <2>1. p + 1 \in 1 .. Len(img) /\ img[p + 1].k = "chunk"
    BY <1>1 DEF Reader!CellAt
  <2>2. img[p + 1] \in Cell
    BY <2>1, ElementOfSeq
  <2>3. img[p + 1].id \in {"SINF", "FRMD", "FRIX"}
    BY <2>1, <2>2 DEF Cell, BareCell, EntryCell
  <2>4. img[p + 1].size = 1
    BY <2>1, <2>3 DEF ShortInfos
  <2> QED
    BY <2>4
<1>3. \A f : [p \in Nat |-> IF /\ Reader!CellAt(img, p, "chunk")
                               /\ img[p + 1].id \notin {"FRMD", "FRIX", "EOFC"}
                            THEN f[p + 2 + img[p + 1].size] ELSE p]
               = [p \in Nat |-> IF p \in P THEN f[p + 3] ELSE p]
  <2> SUFFICES ASSUME NEW f, NEW p \in Nat
               PROVE  (IF /\ Reader!CellAt(img, p, "chunk")
                          /\ img[p + 1].id \notin {"FRMD", "FRIX", "EOFC"}
                       THEN f[p + 2 + img[p + 1].size] ELSE p)
                        = IF p \in P THEN f[p + 3] ELSE p
    OBVIOUS
  <2>1. CASE p \in P
    BY <1>2, <2>1
  <2>2. CASE p \notin P
    BY <2>2
  <2> QED
    BY <2>1, <2>2
<1>4. \E f : f = [p \in Nat |-> IF p \in P THEN f[p + 3] ELSE p]
  <2> HIDE DEF P
  <2> QED
    BY <1>1, ByThrees
<1>5. At = [p \in Nat |-> IF /\ Reader!CellAt(img, p, "chunk")
                             /\ img[p + 1].id \notin {"FRMD", "FRIX", "EOFC"}
                          THEN At[p + 2 + img[p + 1].size] ELSE p]
  <2>1. \E f : f = [p \in Nat |-> IF /\ Reader!CellAt(img, p, "chunk")
                                     /\ img[p + 1].id \notin {"FRMD", "FRIX", "EOFC"}
                                  THEN f[p + 2 + img[p + 1].size] ELSE p]
    <3>1. PICK f : f = [p \in Nat |-> IF p \in P THEN f[p + 3] ELSE p]
      BY <1>4
    <3>2. [p \in Nat |-> IF p \in P THEN f[p + 3] ELSE p]
            = [p \in Nat |-> IF /\ Reader!CellAt(img, p, "chunk")
                                /\ img[p + 1].id \notin {"FRMD", "FRIX", "EOFC"}
                             THEN f[p + 2 + img[p + 1].size] ELSE p]
      BY <1>3
    <3> HIDE DEF P
    <3> QED
      BY <3>1, <3>2, Zenon
  <2> QED
    BY <2>1, Zenon
<1>6. Reader!ScanEnd(img, q) = At[q]
  BY DEF Reader!ScanEnd
<1> HIDE DEF At
<1>7. At[q] = q
  BY <1>5
<1> QED
  BY <1>6, <1>7

(* The cells of a frame, as far as the file goes.                          *)
LEMMA FrameCellsAt ==
    ASSUME WTypeOK, NEW s \in Nat, Layout(s), NEW c \in 1 .. Len(index)
    PROVE  LET q == index[c].off
               f == attempts[c].f
           IN  /\ q \in Nat /\ f \in Frame /\ f.size \in Nat /\ f.size >= 1
               /\ FrameEnd(c) = q + f.size + 3 /\ q >= 1
               /\ q + 1 <= Len(file) => file[q + 1] = ChunkHeader("FRMD", f.size + 1)
               /\ q + 2 <= Len(file) => file[q + 2] = FrameHeader(f)
               /\ \A j \in 1 .. f.size :
                     q + 2 + j <= Len(file) => file[q + 2 + j] = Data(f.n, j)
               /\ q + f.size + 3 <= Len(file) =>
                     file[q + f.size + 3] = Crc(FramePayload(f))
<1> DEFINE q == index[c].off
           f == attempts[c].f
           z == f.size
           g == FrameChunk(f)
<1>1. q \in Nat /\ f \in Frame /\ FrameEnd(c) = q + z + 3 /\ q >= 1
  BY EndTypes DEF Layout, Contiguous
<1>2. /\ z \in Nat /\ z >= 1 /\ Len(g) = z + 3
      /\ g[1] = ChunkHeader("FRMD", z + 1) /\ g[2] = FrameHeader(f)
      /\ g[z + 3] = Crc(FramePayload(f))
      /\ \A j \in 1 .. z : g[j + 2] = Data(f.n, j)
  BY <1>1, FrameCells
<1>3. \A j \in 1 .. Len(g) : q + j <= Len(file) => file[q + j] = g[j]
  BY DEF Layout, Cells, FramesAt
<1> HIDE DEF q, f, g, z
<1>4. \A j \in 1 .. z + 3 : q + j <= Len(file) => file[q + j] = g[j]
  BY <1>2, <1>3
<1>5. 1 \in 1 .. z + 3 /\ 2 \in 1 .. z + 3
  BY <1>2
<1>6. ASSUME NEW j \in 1 .. z, q + 2 + j <= Len(file)
      PROVE  file[q + 2 + j] = Data(f.n, j)
  <2>1. j + 2 \in 1 .. z + 3 /\ q + (j + 2) = q + 2 + j
    BY <1>1, <1>2
  <2> QED
    BY <1>2, <1>4, <1>6, <2>1
<1>7. ASSUME q + z + 3 <= Len(file) PROVE file[q + z + 3] = Crc(FramePayload(f))
  <2>1. z + 3 \in 1 .. z + 3 /\ q + (z + 3) = q + z + 3
    BY <1>1, <1>2
  <2> QED
    BY <1>2, <1>4, <1>7, <2>1
<1>8. /\ q + 1 <= Len(file) => file[q + 1] = ChunkHeader("FRMD", z + 1)
      /\ q + 2 <= Len(file) => file[q + 2] = FrameHeader(f)
  BY <1>2, <1>4, <1>5
<1> QED
  BY <1>1, <1>2, <1>6, <1>7, <1>8 DEF q, f, z

(* What is where a frame begins, or where one would begin.                 *)
LEMMA StartIs ==
    ASSUME WTypeOK, NEW s \in Nat, Layout(s), NEW c \in 1 .. Len(index) + 1
    PROVE  LET q == StartOf(s, c)
           IN  /\ q \in Nat /\ q >= 1 + 3 * s
               /\ \/ /\ c \in 1 .. Len(index) /\ q = index[c].off
                     /\ q < Len(file) => file[q + 1].k = "chunk" /\ file[q + 1].id = "FRMD"
                  \/ /\ c = Len(index) + 1 /\ q = FramesEnd(s)
                     /\ q < Len(file) => file[q + 1].k = "chunk" /\ file[q + 1].id = "FRIX"
<1> DEFINE q == StartOf(s, c)
<1>1. Len(index) \in Nat /\ Len(file) \in Nat /\ Contiguous(s)
  BY LenProperties DEF WTypeOK, Layout
<1>2. CASE c \in 1 .. Len(index)
  <2>1. q = index[c].off /\ q >= 1 + 3 * s /\ q \in Nat
    BY <1>1, <1>2, EndTypes DEF Contiguous
  <2>2. q < Len(file) => q + 1 <= Len(file)
    BY <1>1, <2>1
  <2>3. q < Len(file) => file[q + 1].k = "chunk" /\ file[q + 1].id = "FRMD"
    <3>1. \E z : index[c].off + 1 <= Len(file) =>
                    file[index[c].off + 1] = ChunkHeader("FRMD", z)
      BY <1>2, FrameCellsAt
    <3>2. \A z : /\ ChunkHeader("FRMD", z).k = "chunk"
                 /\ ChunkHeader("FRMD", z).id = "FRMD"
      BY DEF ChunkHeader
    <3> HIDE DEF q
    <3> QED
      BY <2>1, <2>2, <3>1, <3>2
  <2> QED
    BY <1>2, <2>1, <2>3
<1>3. CASE c = Len(index) + 1
  <2>1. q = FramesEnd(s)
    <3>1. CASE index = <<>>
      BY <1>3, <3>1 DEF StartOf, FramesEnd
    <3>2. CASE index # <<>>
      <4>1. Len(index) # 0
        BY <3>2, EmptySeq DEF WTypeOK
      <4>2. c # 1 /\ c - 1 = Len(index)
        BY <1>1, <1>3, <4>1
      <4> QED
        BY <3>2, <4>2 DEF StartOf, FramesEnd
    <3> QED
      BY <3>1, <3>2
  <2>2. FramesEnd(s) \in Nat /\ FramesEnd(s) >= 1 + 3 * s
    BY <1>1, FramesEndType
  <2>3. FramesEnd(s) < Len(file) => FramesEnd(s) + 1 <= Len(file)
    BY <1>1, <2>2
  <2> QED
    BY <1>3, <2>1, <2>2, <2>3 DEF Layout, Cells, IndexAt
<1>4. c \in 1 .. Len(index) \/ c = Len(index) + 1
  BY <1>1
<1> QED
  BY <1>2, <1>3, <1>4

(* crap_open_read passes over no more stream infos than there are.         *)
LEMMA InfoRun ==
    ASSUME WTypeOK, NEW s \in Nat, Layout(s)
    PROVE  \E k \in Nat : /\ k <= s /\ Reader!InfoEnd(file) = 1 + 3 * k
                          /\ ~ Reader!ChunkAt(file, 1 + 3 * k, "SINF")
                          /\ \A j \in 0 .. k - 1 : Reader!ChunkAt(file, 1 + 3 * j, "SINF")
<1>1. Len(file) \in Nat /\ Len(index) \in Nat
  BY LenProperties DEF WTypeOK
<1>2. PICK k \in Nat : /\ Reader!InfoEnd(file) = 1 + 3 * k
                       /\ ~ Reader!ChunkAt(file, 1 + 3 * k, "SINF")
                       /\ \A j \in 0 .. k - 1 : Reader!ChunkAt(file, 1 + 3 * j, "SINF")
  BY <1>1, InfoEndIs
<1>3. ~ (s < k)
  <2> SUFFICES ASSUME s < k PROVE FALSE
    OBVIOUS
  <2>1. Reader!ChunkAt(file, 1 + 3 * s, "SINF")
    BY <1>2
  <2>2. 1 \in 1 .. Len(index) + 1 /\ StartOf(s, 1) = 1 + 3 * s
    BY <1>1 DEF StartOf
  <2>3. 1 + 3 * s < Len(file) => file[1 + 3 * s + 1].id \in {"FRMD", "FRIX"}
    BY <2>2, StartIs
  <2> QED
    BY <2>1, <2>3 DEF Reader!ChunkAt, Reader!CellAt
<1> QED
  BY <1>2, <1>3

(* An open succeeds at the first frame, or at the end of the file.         *)
LEMMA OpensAt ==
    ASSUME WTypeOK, NEW s \in Nat, Layout(s),
           Reader!InfoEnd(file) <= Len(file)
    PROVE  LET q == Reader!InfoEnd(file)
           IN  /\ q \in Nat /\ q <= 1 + 3 * s
               /\ q = StartOf(s, 1) \/ q >= Len(file)
<1>1. Len(file) \in Nat /\ Len(index) \in Nat
  BY LenProperties DEF WTypeOK
<1>2. PICK k \in Nat : /\ k <= s /\ Reader!InfoEnd(file) = 1 + 3 * k
                       /\ ~ Reader!ChunkAt(file, 1 + 3 * k, "SINF")
  BY InfoRun
<1>3. CASE k = s
  BY <1>2, <1>3 DEF StartOf
<1>4. CASE k < s
  <2> SUFFICES ASSUME 1 + 3 * k < Len(file) PROVE FALSE
    BY <1>1, <1>2, <1>4
  <2>1. k \in 0 .. s - 1 /\ 2 + 3 * k <= Len(file) /\ 2 + 3 * k = 1 + 3 * k + 1
    BY <1>1, <1>4
  <2>2. file[1 + 3 * k + 1] = ChunkHeader("SINF", 1)
    BY <2>1 DEF Layout, Cells, InfosAt, SinfAt
  <2> QED
    BY <1>2, <2>2 DEF Reader!ChunkAt, Reader!CellAt, ChunkHeader
<1> QED
  BY <1>2, <1>3, <1>4

-----------------------------------------------------------------------------
(* The reader, step by step.                                               *)

\* No frame is no frame.
NoFrameIsNone == \A h, b, c : NoFrame # [fh |-> h, body |-> b, crc |-> c]

\* An undisturbed reader is at a frame, or past the end, and has the index of
\* a recording that was finished.
RPos(s) ==
    /\ rpos \in Nat /\ image = file
    /\ rst = "ready" => \/ rpos >= Len(file)
                        \/ \E c \in 1 .. Len(index) + 1 : rpos = StartOf(s, c)
    /\ rst = "peeked" =>
          \E c \in 1 .. Len(index) : /\ rpos = index[c].off + 2 /\ rpos <= Len(file)
                                     /\ pend = FrameHeader(attempts[c].f)
    /\ Reader!Seekable /\ wst = "closed" => loaded = index

\* An index entry describes its frame.
Match == \A i \in 1 .. Len(index) :
             index[i] = IndexEntry(attempts[i].f, index[i].off)

Abstractly == Store!SNext \/ UNCHANGED Store!svars

(* crap_write_frame records what it writes.                                *)
LEMMA MatchKept == WTypeOK /\ Match /\ [WNext]_wvars => Match'
<1> SUFFICES ASSUME WTypeOK, Match, [WNext]_wvars PROVE Match'
  OBVIOUS
<1>1. ASSUME SameEntries PROVE Match'
  BY <1>1 DEF SameEntries, Match
<1>2. ASSUME NewEntry PROVE Match'
  <2>1. PICK f \in Frame, ok \in BOOLEAN :
           /\ index' = Append(index, IndexEntry(f, Len(file)))
           /\ attempts' = Append(attempts, [f |-> f, ok |-> ok])
    BY <1>2 DEF NewEntry
  <2> DEFINE n == Len(index)
             e == IndexEntry(f, Len(file))
  <2>2. /\ index \in Seq(EntryCell) /\ n \in Nat /\ Len(attempts) = n
        /\ attempts \in Seq([f: Frame, ok: BOOLEAN]) /\ Len(file) \in Nat
    BY LenProperties DEF WTypeOK
  <2>3. e \in EntryCell /\ e = IndexEntry(f, e.off)
    BY <2>2 DEF IndexEntry, EntryCell, Frame
  <2>4. [f |-> f, ok |-> ok] \in [f: Frame, ok: BOOLEAN] /\ [f |-> f, ok |-> ok].f = f
    OBVIOUS
  <2> HIDE DEF e
  <2>5. /\ Len(index') = n + 1 /\ index'[n + 1] = e
        /\ \A i \in 1 .. n : index'[i] = index[i]
    BY <2>1, <2>2, <2>3 DEF e
  <2>6. /\ attempts'[n + 1].f = f
        /\ \A i \in 1 .. n : attempts'[i] = attempts[i]
    BY <2>1, <2>2, <2>4
  <2> HIDE DEF n
  <2> SUFFICES ASSUME NEW i \in 1 .. n + 1
               PROVE  index'[i] = IndexEntry(attempts'[i].f, index'[i].off)
    BY <2>5 DEF Match
  <2>7. CASE i = n + 1
    BY <2>3, <2>5, <2>6, <2>7
  <2>8. CASE i \in 1 .. n
    BY <2>5, <2>6, <2>8 DEF Match, n
  <2> QED
    BY <2>2, <2>7, <2>8
<1>3. Ends => SameEntries
  BY DEF Ends, Fclose, FcloseNoFlush, Crash, SameEntries
<1>4. UNCHANGED wvars => SameEntries
  BY DEF wvars, SameEntries
<1> QED
  BY <1>1, <1>2, <1>3, <1>4, StepShape

\* Everything the log may hold.
Logged == {Stored(f) : f \in Frame}

(* The log, frame by frame.                                                *)
LEMMA LogIs ==
    WTypeOK /\ (\E s \in Nat : Layout(s)) =>
        /\ log \in Seq(Logged) /\ Len(log) = Cardinality(Whole) /\ Len(log) \in Nat
        /\ \A i \in 1 .. Len(log) : log[i] = Stored(attempts[i].f)
<1> SUFFICES ASSUME WTypeOK, \E s \in Nat : Layout(s)
             PROVE  /\ log \in Seq(Logged) /\ Len(log) = Cardinality(Whole)
                    /\ Len(log) \in Nat
                    /\ \A i \in 1 .. Len(log) : log[i] = Stored(attempts[i].f)
  OBVIOUS
<1> DEFINE w == Cardinality(Whole)
<1>1. w \in Nat /\ w <= Len(index) /\ Len(index) \in Nat
  BY WholeIs
<1>2. \A i \in 1 .. w : Stored(attempts[i].f) \in Logged
  BY <1>1, EntryTypes DEF Logged
<1>3. log = [i \in 1 .. w |-> Stored(attempts[i].f)]
  BY DEF log
<1> HIDE DEF w
<1>4. log \in [1 .. w -> Logged] /\ DOMAIN log = 1 .. w
  BY <1>2, <1>3
<1>5. log \in Seq(Logged)
  BY <1>1, <1>4, SeqDef
<1>6. Len(log) = w
  BY <1>1, <1>4, <1>5, LenProperties
<1> QED
  BY <1>1, <1>3, <1>5, <1>6 DEF w

\* The phase of the abstract store that a reader's state is.
PhaseOf(r, code) ==
    IF r = "unopened" THEN "sealed"
    ELSE IF r = "failed" THEN IF code = "oom" THEN "nomemory" ELSE "failed"
    ELSE IF r = "ready" THEN "reading"
    ELSE IF r = "peeked" THEN "looking" ELSE r

AtFrames  == {"ready", "peeked"}
Elsewhere == {"unopened", "failed", "ended", "toolarge", "starved", "lost"}

(* Behind a finished recording it is the reader's phase.                   *)
LEMMA PhaseIs == Finished => phase = PhaseOf(rst, rret)
<1>1. ASSUME Finished, rst = "unopened" PROVE phase = "sealed"
  BY <1>1 DEF phase
<1>2. ASSUME Finished, rst = "failed"
      PROVE  phase = IF rret = "oom" THEN "nomemory" ELSE "failed"
  BY <1>2 DEF phase
<1>3. ASSUME Finished, rst = "ready" PROVE phase = "reading"
  BY <1>3 DEF phase
<1>4. ASSUME Finished, rst = "peeked" PROVE phase = "looking"
  BY <1>4 DEF phase
<1>5. ASSUME Finished, rst \notin {"unopened", "failed", "ready", "peeked"} PROVE phase = rst
  BY <1>5 DEF phase
<1> QED
  BY <1>1, <1>2, <1>3, <1>4, <1>5 DEF PhaseOf

(* And after a step.                                                       *)
LEMMA PhaseIsNext == (Finished => phase = PhaseOf(rst, rret))'
  BY PhaseIs, PTL

(* What a step of the reader leaves of the abstract state.                 *)
LEMMA PlayView ==
    ASSUME UNCHANGED wvars, Finished
    PROVE  /\ log' = log /\ killed' = killed /\ ~ Live' /\ (killed <=> wst # "closed")
           /\ phase = PhaseOf(rst, rret) /\ phase' = PhaseOf(rst', rret')
           /\ rst \in AtFrames   => cursor = Cardinality(Behind(rpos)) + 1
           /\ rst' \in AtFrames  => cursor' = Cardinality(Behind(rpos')) + 1
           /\ rst \in Elsewhere  => cursor = 1
           /\ rst' \in Elsewhere => cursor' = 1
<1>1. Finished' /\ ~ Live'
  BY DEF wvars, Finished, Live
<1>2. Whole' = Whole /\ \A i : FrameEnd(i)' = FrameEnd(i)
  BY DEF wvars, Whole, FrameEnd
<1>3. log' = log
  BY <1>2 DEF wvars, log
<1>4. Passed = Behind(rpos) /\ Passed' = Behind(rpos')
  BY <1>2 DEF Passed, Behind
<1>5. phase = PhaseOf(rst, rret)
  BY PhaseIs
<1>6. phase' = PhaseOf(rst', rret')
  BY <1>1, PhaseIsNext DEF PhaseOf
<1>7. killed' = killed /\ (killed <=> wst # "closed")
  BY DEF killed, wvars, Finished
<1>8. \A r, x : /\ r \in AtFrames  => PhaseOf(r, x) \in {"reading", "looking"}
                /\ r \in Elsewhere => PhaseOf(r, x) \notin {"reading", "looking"}
  BY DEF PhaseOf, AtFrames, Elsewhere
<1>9. /\ rst \in AtFrames  => cursor = Cardinality(Behind(rpos)) + 1
      /\ rst \in Elsewhere => cursor = 1
  BY <1>4, <1>5, <1>8 DEF cursor
<1>10. /\ rst' \in AtFrames  => cursor' = Cardinality(Behind(rpos')) + 1
       /\ rst' \in Elsewhere => cursor' = 1
  BY <1>4, <1>6, <1>8 DEF cursor
<1> QED
  BY <1>1, <1>3, <1>5, <1>6, <1>7, <1>9, <1>10

(* Where a step of the reader leaves it.                                   *)
LEMMA RPosFrom ==
    ASSUME UNCHANGED <<wvars, image>>, Finished, NEW s \in Nat, RPos(s), rpos' \in Nat,
           rst' = "ready" => \/ rpos' >= Len(file)
                             \/ \E c \in 1 .. Len(index) + 1 : rpos' = StartOf(s, c),
           rst' = "peeked" =>
              \E c \in 1 .. Len(index) : /\ rpos' = index[c].off + 2 /\ rpos' <= Len(file)
                                         /\ pend' = FrameHeader(attempts[c].f),
           Reader!Seekable' /\ wst = "closed" =>
              (Reader!Seekable /\ loaded' = loaded) \/ loaded' = index
    PROVE  RPos(s)'
<1>1. file' = file /\ index' = index /\ attempts' = attempts /\ image' = image
      /\ wst' = wst /\ \A c : StartOf(s, c)' = StartOf(s, c)
  BY DEF wvars, StartOf, FrameEnd
<1>2. Reader!Seekable' /\ wst = "closed" => loaded' = index
  BY DEF RPos
<1> QED
  BY <1>1, <1>2 DEF RPos

\* A reader that may read.
Reading(s) ==
    /\ CInv /\ s \in Nat /\ Layout(s) /\ RPos(s) /\ Finished /\ Finishes
    /\ UNCHANGED <<wvars, image, damaged>>

(* What is known of a reader's file.                                       *)
LEMMA ReadingFacts ==
    ASSUME NEW s, Reading(s)
    PROVE  /\ WTypeOK /\ s \in Nat /\ Layout(s) /\ RPos(s) /\ Finished /\ UNCHANGED wvars
           /\ UNCHANGED <<wvars, image>> /\ image = file /\ rpos \in Nat
           /\ Contiguous(s) /\ file \in Seq(Cell) /\ Len(file) \in Nat
           /\ index \in Seq(EntryCell) /\ Len(index) \in Nat /\ ShortInfos(file)
  BY LenProperties DEF Reading, CInv, WInv, WTypeOK, RPos, Layout, Cells

(* A step that leaves the open file as it found it, away from the frames.  *)
LEMMA RPosAway ==
    ASSUME NEW s, Reading(s), rpos' \in Nat, rst' \in Elsewhere, Reader!Seekable,
           loaded' = loaded
    PROVE  RPos(s)'
<1>1. rst' # "ready" /\ rst' # "peeked"
  BY DEF Elsewhere
<1> QED
  BY <1>1, ReadingFacts, RPosFrom

(* No frame of a finished recording is missing.                            *)
LEMMA ClosedWhole ==
    ASSUME NEW s, Reading(s), wst = "closed"
    PROVE  Whole = 1 .. Len(index) /\ Len(file) >= 1 + 3 * s
<1>1. /\ Contiguous(s) /\ FramesEnd(s) \in Nat /\ Len(file) \in Nat
      /\ Len(file) >= FramesEnd(s) /\ FramesEnd(s) >= 1 + 3 * s /\ s \in Nat
  BY ReadingFacts, FramesEndType DEF Layout, HowLong
<1>2. ASSUME NEW i \in 1 .. Len(index) PROVE FrameEnd(i) <= Len(file)
  <2>1. FrameEnd(i) <= FramesEnd(s) /\ FrameEnd(i) \in Nat
    BY ReadingFacts, FramesEndType, EndTypes
  <2> QED
    BY <1>1, <2>1
<1> QED
  BY <1>1, <1>2 DEF Whole, Contiguous

(* The frame a reader is at is the one at the cursor; only a killed        *)
(* recorder leaves one that is not whole.                                  *)
LEMMA AtFrame ==
    ASSUME NEW s, Reading(s), rst \in AtFrames, NEW c \in 1 .. Len(index),
           Behind(rpos) = {i \in Whole : i < c}
    PROVE  /\ c \in Whole => /\ cursor = c /\ c \in 1 .. Len(log) /\ ~ Store!AtEnd
                             /\ log[c] = Stored(attempts[c].f)
           /\ c \notin Whole => Store!AtEnd /\ killed
           /\ Len(log) \in Nat
<1>1. /\ Whole = 1 .. Len(log) /\ Len(log) \in Nat /\ Len(log) = Cardinality(Whole)
      /\ \A i \in 1 .. Len(log) : log[i] = Stored(attempts[i].f)
  BY ReadingFacts, LogIs, WholeIs
<1>2. cursor = Cardinality(Behind(rpos)) + 1 /\ (killed <=> wst # "closed")
  BY ReadingFacts, PlayView
<1>3. ASSUME c \in Whole
      PROVE  /\ cursor = c /\ c \in 1 .. Len(log) /\ ~ Store!AtEnd
             /\ log[c] = Stored(attempts[c].f)
  <2>1. cursor = c - 1 + 1
    BY <1>2, <1>3, ReadingFacts, HowManyBefore
  <2>2. c \in 1 .. Len(log)
    BY <1>1, <1>3
  <2>3. cursor = c /\ c # Len(log) + 1
    BY <1>1, <2>1, <2>2
  <2> QED
    BY <1>1, <2>2, <2>3 DEF Store!AtEnd
<1>4. ASSUME c \notin Whole PROVE Store!AtEnd /\ killed
  <2>1. Behind(rpos) = Whole
    BY <1>4, ReadingFacts, HowManyBefore
  <2>2. killed
    BY <1>2, <1>4, ClosedWhole
  <2> QED
    BY <1>1, <1>2, <2>1, <2>2 DEF Store!AtEnd
<1> QED
  BY <1>1, <1>3, <1>4

(* With all frames behind, the reader is at the end.                       *)
LEMMA AtTheEnd ==
    ASSUME NEW s, Reading(s), rst \in AtFrames, Behind(rpos) = Whole
    PROVE  Store!AtEnd
<1>1. Len(log) = Cardinality(Whole)
  BY ReadingFacts, LogIs
<1>2. cursor = Cardinality(Behind(rpos)) + 1
  BY ReadingFacts, PlayView
<1> QED
  BY <1>1, <1>2 DEF Store!AtEnd

(* A call that fails away from the frames.                                 *)
LEMMA LeavesFor ==
    ASSUME NEW s, Reading(s), NEW p \in {"ended", "toolarge", "starved"},
           rst' = p, got' = got, sought' = NoFrame
    PROVE  Store!Leaves(p)
<1>1. phase' = p /\ log' = log /\ killed' = killed /\ cursor' = 1
  BY ReadingFacts, PlayView DEF PhaseOf, Elsewhere
<1>2. out' = out
  BY DEF out
<1> QED
  BY <1>1, <1>2 DEF Store!Leaves

-----------------------------------------------------------------------------
(* crap_open_read.                                                         *)

(* An index that is all there is accepted.                                 *)
LEMMA IndexAccepted ==
    ASSUME WTypeOK, HeaderImpliesIndex, file # <<>>, file[1].index_offset # 0,
           file[1].index_offset \in Nat
    PROVE  Reader!IndexStatus(file, file[1].index_offset) = "ok"
<1> DEFINE p == file[1].index_offset
           pl == IndexPayload(index)
           c == IndexChunk(index)
           n == Len(index)
           E == Reader!EntriesAt(file, p)
<1>1. /\ index \in Seq(EntryCell) /\ n \in Nat /\ file \in Seq(Cell) /\ Len(file) \in Nat
      /\ pl \in Seq(BareCell) /\ Len(pl) = n + 1 /\ c = Chunk("FRIX", pl)
  BY IndexCells, LenProperties DEF WTypeOK, IndexChunk
<1>2. pl[1] = Count(n) /\ \A i \in 1 .. n : pl[i + 1] = index[i]
  <2>1. pl = <<Count(n)>> \o index
    BY DEF IndexPayload
  <2>2. index \in Seq(EntryCell \cup {Count(n)}) /\ <<Count(n)>> \in Seq(EntryCell \cup {Count(n)})
    BY <1>1, SeqMonotonic
  <2>3. \A i \in 1 .. Len(<<Count(n)>>) + Len(index) :
           (<<Count(n)>> \o index)[i] =
              IF i <= Len(<<Count(n)>>) THEN <<Count(n)>>[i] ELSE index[i - Len(<<Count(n)>>)]
    BY <2>2, ConcatProperties
  <2>4. Len(<<Count(n)>>) = 1 /\ <<Count(n)>>[1] = Count(n)
    OBVIOUS
  <2> HIDE DEF pl
  <2>5. \A i \in 1 .. 1 + n : pl[i] = IF i <= 1 THEN <<Count(n)>>[i] ELSE index[i - 1]
    BY <2>1, <2>3, <2>4
  <2>6. ASSUME NEW i \in 1 .. n PROVE pl[i + 1] = index[i]
    <3>1. i + 1 \in 1 .. 1 + n /\ ~ (i + 1 <= 1) /\ i + 1 - 1 = i
      BY <1>1
    <3> QED
      BY <2>5, <3>1
  <2>7. 1 \in 1 .. 1 + n
    BY <1>1
  <2> QED
    BY <2>4, <2>5, <2>6, <2>7
<1> HIDE DEF pl, c, n
<1>3. /\ Len(c) = n + 3 /\ c[1] = ChunkHeader("FRIX", n + 1) /\ c[n + 3] = Crc(pl)
      /\ \A i \in 1 .. n + 1 : c[i + 1] = pl[i]
  <2>1. "FRIX" \in Ids /\ n + 1 + 2 = n + 3
    BY <1>1 DEF Ids
  <2> QED
    BY <1>1, <2>1, CellsOfChunk
<1>4. p + (n + 3) <= Len(file) /\ \A j \in 1 .. n + 3 : file[p + j] = c[j]
  <2>1. HoldsAt(file, p, c)
    BY DEF HeaderImpliesIndex, c
  <2> QED
    BY <1>3, <2>1 DEF HoldsAt
<1> HIDE DEF p
<1>5. p \in Nat
  BY DEF p
<1>6. /\ file[p + 1] = ChunkHeader("FRIX", n + 1) /\ file[p + 2] = Count(n)
      /\ file[p + (n + 3)] = Crc(pl)
      /\ \A i \in 1 .. n : file[p + (i + 2)] = index[i]
  <2>1. file[p + 1] = c[1]
    BY <1>1, <1>4
  <2>2. file[p + 2] = c[2] /\ c[2] = pl[1]
    <3>1. 2 \in 1 .. n + 3 /\ 1 \in 1 .. n + 1 /\ 1 + 1 = 2
      BY <1>1
    <3> QED
      BY <1>3, <1>4, <3>1
  <2>3. file[p + (n + 3)] = c[n + 3]
    <3>1. n + 3 \in 1 .. n + 3
      BY <1>1
    <3> QED
      BY <1>4, <3>1
  <2>4. ASSUME NEW i \in 1 .. n PROVE file[p + (i + 2)] = index[i]
    <3>1. i + 2 \in 1 .. n + 3 /\ i + 1 \in 1 .. n + 1 /\ i + 1 + 1 = i + 2
      BY <1>1
    <3>2. file[p + (i + 2)] = c[i + 2] /\ c[i + 2] = pl[i + 1]
      BY <1>3, <1>4, <3>1
    <3> QED
      BY <1>2, <3>2
  <2> QED
    BY <1>2, <1>3, <2>1, <2>2, <2>3, <2>4
<1>7. file[p + 2].c = n
  BY <1>6 DEF Count
<1>8. E = index
  <2> DEFINE lo == p + 3
             hi == p + 2 + n
  <2>1. E = SubSeq(file, lo, hi)
    BY <1>7 DEF Reader!EntriesAt
  <2>2. /\ lo \in Int /\ hi \in Int /\ hi - lo + 1 = n /\ (lo <= hi \/ n = 0)
        /\ (IF lo <= hi THEN hi - lo + 1 ELSE 0) = n
        /\ \A i \in 1 .. n : lo + i - 1 = p + (i + 2)
        /\ \A j \in lo .. hi : j - p - 2 \in 1 .. n /\ p + (j - p - 2 + 2) = j
    BY <1>1, <1>5
  <2> HIDE DEF lo, hi, E
  <2>3. ASSUME NEW j \in lo .. hi PROVE file[j] \in EntryCell
    <3> DEFINE i == j - p - 2
    <3>1. i \in 1 .. n /\ p + (i + 2) = j
      BY <2>2
    <3> HIDE DEF i
    <3>2. file[j] = index[i]
      BY <1>6, <3>1
    <3> QED
      BY <1>1, <3>1, <3>2, ElementOfSeq DEF n
  <2>4. /\ E \in Seq(EntryCell) /\ Len(E) = n
        /\ \A i \in 1 .. n : E[i] = file[lo + i - 1]
    <3>1. /\ E \in Seq(EntryCell) /\ Len(E) = IF lo <= hi THEN hi - lo + 1 ELSE 0
          /\ \A i \in 1 .. hi - lo + 1 : E[i] = file[lo + i - 1]
      BY <2>1, <2>2, <2>3, SubSeqProperties
    <3> QED
      BY <2>2, <3>1
  <2>5. \A i \in 1 .. n : E[i] = index[i]
    BY <1>6, <2>2, <2>4
  <2> QED
    BY <1>1, <2>4, <2>5, SeqEqual DEF n
<1>9. Reader!Crc(<<file[p + 2]>> \o E) = file[p + (n + 3)]
  <2>1. <<file[p + 2]>> \o E = pl
    BY <1>6, <1>8 DEF pl, n, IndexPayload
  <2> QED
    BY <1>6, <2>1 DEF Reader!Crc, Crc
<1>10. /\ ~ (p >= Len(file)) /\ Reader!ChunkAt(file, p, "FRIX")
       /\ ~ (p + 2 > Len(file)) /\ ~ (p + 3 + n > Len(file)) /\ p + 3 + n = p + (n + 3)
  BY <1>1, <1>4, <1>5, <1>6 DEF Reader!ChunkAt, Reader!CellAt, ChunkHeader
<1> HIDE DEF E
<1>11. Reader!IndexStatus(file, p) = "ok"
  BY <1>7, <1>9, <1>10 DEF Reader!IndexStatus, E
<1> QED
  BY <1>11 DEF p

(* The stream infos that are all there are accepted.                       *)
LEMMA InfosAccepted ==
    ASSUME WTypeOK, NEW s \in Nat, Layout(s), Reader!InfoEnd(file) <= Len(file)
    PROVE  Reader!InfoStatus(file) = "ok"
<1>1. Len(file) \in Nat
  BY LenProperties DEF WTypeOK
<1>2. PICK k \in Nat : /\ k <= s /\ Reader!InfoEnd(file) = 1 + 3 * k
                       /\ \A j \in 0 .. k - 1 : Reader!ChunkAt(file, 1 + 3 * j, "SINF")
  BY InfoRun
<1>3. ASSUME NEW p \in Reader!InfoAt(file), p + 3 <= Len(file)
      PROVE  /\ Reader!CellAt(file, p + 1, "sinf")
             /\ file[p + 3] = Reader!Crc(<<file[p + 2]>>)
  <2> DEFINE j == (p - 1) \div 3
             b == 1 + 3 * j
  <2>1. p \in 1 .. Len(file) /\ p < 1 + 3 * k /\ file[p + 1].k = "chunk"
    BY <1>2 DEF Reader!InfoAt, Reader!ChunkAt, Reader!CellAt
  <2>2. /\ p \in Nat /\ j \in 0 .. k - 1 /\ j \in 0 .. s - 1 /\ p \in {b, b + 1, b + 2}
        /\ b \in Nat /\ b + 3 <= Len(file) /\ 2 + 3 * j = b + 1
        /\ b + 1 + 1 = b + 2 /\ b + 1 + 2 = b + 3 /\ b + 2 + 1 = b + 3
    <3>1. p \in Nat /\ p >= 1 /\ p < 1 + 3 * k /\ p + 3 <= Len(file)
      BY <1>1, <1>3, <2>1
    <3>2. j \in Nat /\ p \in {b, b + 1, b + 2} /\ b \in Nat
      BY <3>1
    <3> HIDE DEF j
    <3> QED
      BY <1>1, <1>2, <3>1, <3>2
  <2> HIDE DEF j
  <2>3. SinfAt(b + 1)
    BY <2>2 DEF Layout, Cells, InfosAt
  <2> HIDE DEF b
  <2>4. file[b + 2].k = "sinf" /\ file[b + 3] = Crc(<<file[b + 2]>>)
    <3>1. b + 2 <= Len(file) /\ b + 3 <= Len(file)
      BY <1>1, <2>2
    <3> QED
      BY <2>2, <2>3, <3>1 DEF SinfAt
  <2>5. p = b
    <3>1. p # b + 1
      BY <2>1, <2>2, <2>4
    <3>2. file[b + 3].k = "crc"
      BY <2>4 DEF Crc
    <3>3. p # b + 2
      BY <2>1, <2>2, <3>2
    <3> QED
      BY <2>2, <3>1, <3>3
  <2>6. p + 1 < Len(file) /\ p + 1 + 1 = p + 2
    BY <1>1, <1>3, <2>2
  <2> QED
    BY <2>4, <2>5, <2>6 DEF Reader!CellAt, Reader!Crc, Crc
<1>4. ~ (Reader!InfoEnd(file) > Len(file))
  BY <1>1, <1>2
<1> QED
  BY <1>3, <1>4 DEF Reader!InfoStatus

(* A file that does not open was left by a recorder killed before its      *)
(* first frame.                                                            *)
LEMMA OpenSucceeds ==
    ASSUME NEW s, Reading(s), Reader!OpenStatus(image) # "ok"
    PROVE  killed /\ log = <<>>
<1>1. /\ s \in Nat /\ Len(file) \in Nat /\ image = file /\ file \in Seq(Cell)
      /\ HeaderImpliesIndex /\ WTypeOK /\ Layout(s) /\ Finished
  BY ReadingFacts DEF Reading, CInv, WInv
<1>2. PICK k \in Nat : k <= s /\ Reader!InfoEnd(file) = 1 + 3 * k
  BY <1>1, InfoRun
<1>3. ASSUME Len(file) < 1 + 3 * s PROVE killed /\ log = <<>>
  <2>1. killed
    <3>1. wst # "closed"
      BY <1>1, <1>3, ClosedWhole
    <3> QED
      BY <1>1, <3>1 DEF Finished, killed
  <2>2. Behind(Len(file)) = {} /\ Behind(Len(file)) = Whole
    <3>1. Len(file) <= 1 + 3 * s
      BY <1>1, <1>3
    <3> QED
      BY <1>1, <3>1, BehindNone, BehindAll
  <2>3. Len(log) = 0 /\ log \in Seq(Logged)
    BY <1>1, <2>2, LogIs, FS_EmptySet
  <2> QED
    BY <2>1, <2>3, EmptySeq
<1>4. CASE file = <<>> \/ 1 + 3 * k > Len(file)
  <2>1. file = <<>> => Len(file) = 0
    OBVIOUS
  <2>2. Len(file) < 1 + 3 * s
    BY <1>1, <1>2, <1>4, <2>1
  <2> QED
    BY <1>3, <2>2
<1>5. CASE file # <<>> /\ ~ (1 + 3 * k > Len(file))
  <2>1. Reader!InfoStatus(file) = "ok"
    BY <1>1, <1>2, <1>5, InfosAccepted
  <2>2. file[1].index_offset # 0 /\ Reader!IndexStatus(file, file[1].index_offset) # "ok"
    BY <1>1, <1>5, <2>1 DEF Reader!OpenStatus
  <2>3. file[1].index_offset \in Nat
    <3>1. Len(file) # 0
      BY <1>1, <1>5, EmptySeq
    <3>2. 1 \in 1 .. Len(file)
      BY <1>1, <3>1
    <3>3. file[1] \in Cell
      BY <1>1, <3>2, ElementOfSeq
    <3>4. file[1].k = "file"
      BY <1>5 DEF Reading, CInv, HeaderFirst
    <3> QED
      BY <3>3, <3>4 DEF Cell, BareCell, EntryCell
  <2> QED
    BY <1>1, <1>5, <2>2, <2>3, IndexAccepted
<1> QED
  BY <1>4, <1>5

(* crap_open_read: at the first frame, or at the end of what there is.     *)
LEMMA OpenReadKeeps ==
    ASSUME NEW s, Reading(s), Reader!OpenRead
    PROVE  RPos(s)' /\ Abstractly
<1>1. /\ rst \in {"unopened", "failed"} /\ UNCHANGED <<pend, got, sought>>
      /\ rret' = Reader!OpenStatus(image)
      /\ IF rret' = "ok" THEN rst' = "ready" /\ rpos' = Reader!InfoEnd(image)
         ELSE rst' = "failed" /\ rpos' = rpos
  BY DEF Reader!OpenRead
<1>2. phase \in Store!Shut /\ cursor = 1 /\ log' = log /\ killed' = killed
      /\ phase' = PhaseOf(rst', rret')
  BY <1>1, ReadingFacts, PlayView DEF PhaseOf, Elsewhere, Store!Shut
<1>3. out' = out
  BY <1>1 DEF out
<1>4. CASE rret' = "ok"
  <2>1. Reader!InfoStatus(image) = "ok"
    BY <1>1, <1>4 DEF Reader!OpenStatus
  <2>2. ~ (Reader!InfoEnd(image) > Len(image))
    BY <2>1 DEF Reader!InfoStatus
  <2>3. \E k \in Nat : Reader!InfoEnd(image) = 1 + 3 * k
    BY ReadingFacts, InfoEndIs
  <2>4. Reader!InfoEnd(file) <= Len(file)
    BY <2>2, <2>3, ReadingFacts
  <2>5. /\ rpos' \in Nat /\ rpos' <= 1 + 3 * s
        /\ rpos' = StartOf(s, 1) \/ rpos' >= Len(file)
    BY <1>1, <1>4, <2>4, ReadingFacts, OpensAt
  <2>6. 1 \in 1 .. Len(index) + 1
    BY ReadingFacts
  <2>7. ASSUME wst = "closed" PROVE loaded' = index
    <3>1. /\ OpenedIndexIsGenuine'
          /\ image[1].index_offset # 0 => loaded' = index
      BY <1>1, <1>4, OpenShows DEF Reading
    <3>2. Reader!Seekable' /\ index' = index
      BY <1>1, <1>4 DEF Reader!Seekable, Reading, wvars
    <3>3. index # <<>> => image[1].index_offset # 0
      BY <2>7, ReadingFacts DEF Reading, Finishes
    <3>4. loaded' = <<>> \/ loaded' = index
      BY <3>1, <3>2 DEF OpenedIndexIsGenuine
    <3> QED
      BY <3>1, <3>3, <3>4
  <2>8. RPos(s)'
    BY <1>1, <1>4, <2>5, <2>6, <2>7, ReadingFacts, RPosFrom
  <2>9. Behind(rpos') = {}
    BY <2>5, ReadingFacts, BehindNone
  <2>10. Cardinality({}) = 0
    BY FS_EmptySet
  <2>11. phase' = "reading" /\ cursor' = 1
    BY <1>1, <1>2, <1>4, <2>9, <2>10, ReadingFacts, PlayView DEF PhaseOf, AtFrames
  <2>12. Store!StartReading
    BY <1>1, <1>2, <1>3, <2>11 DEF Store!StartReading
  <2> QED
    BY <2>8, <2>12 DEF Abstractly, Store!SNext
<1>5. CASE rret' # "ok"
  <2>1. rst' = "failed" /\ rpos' = rpos
    BY <1>1, <1>5
  <2>2. RPos(s)'
    BY <2>1, ReadingFacts, RPosFrom DEF Reader!Seekable
  <2>3. rret' # "oom"
    BY <1>1 DEF Reader!OpenStatus, Reader!InfoStatus, Reader!IndexStatus
  <2>4. phase' = "failed" /\ cursor' = 1
    BY <1>2, <2>1, <2>3, ReadingFacts, PlayView DEF PhaseOf, Elsewhere
  <2>5. killed /\ log = <<>>
    BY <1>1, <1>5, OpenSucceeds
  <2>6. Store!OpenRefused
    BY <1>1, <1>2, <1>3, <2>4, <2>5 DEF Store!OpenRefused
  <2> QED
    BY <2>2, <2>6 DEF Abstractly, Store!SNext
<1> QED
  BY <1>4, <1>5

(* A failed malloc leaves the file closed.                                 *)
LEMMA OpenFailsKeeps ==
    ASSUME NEW s, Reading(s), Reader!OpenReadNoMemory
    PROVE  RPos(s)' /\ Abstractly
<1>1. /\ rst \in {"unopened", "failed"} /\ rst' = "failed" /\ rret' = "oom"
      /\ UNCHANGED <<rpos, got, sought>>
  BY DEF Reader!OpenReadNoMemory
<1>2. RPos(s)'
  BY <1>1, ReadingFacts, RPosFrom DEF Reader!Seekable
<1>3. /\ phase \in Store!Shut /\ phase' = "nomemory" /\ cursor = 1 /\ cursor' = 1
      /\ log' = log /\ killed' = killed
  BY <1>1, ReadingFacts, PlayView DEF PhaseOf, Elsewhere, Store!Shut
<1>4. out' = out
  BY <1>1 DEF out
<1>5. Store!OpenStarved
  BY <1>1, <1>3, <1>4 DEF Store!OpenStarved
<1> QED
  BY <1>2, <1>5 DEF Abstractly, Store!SNext

\* An open reader is in an open store.
Shows == Reader!Seekable => phase \in Store!Open

(* So it is.                                                               *)
LEMMA OpenIsOpen ==
    ASSUME NEW s, Reading(s)
    PROVE  Shows
  BY ReadingFacts, PlayView DEF Shows, PhaseOf, Reader!Seekable, Store!Open

(* crap_close ends the reading.                                            *)
LEMMA CloseReadKeeps ==
    ASSUME NEW s, Reading(s), Reader!CloseRead
    PROVE  RPos(s)' /\ Abstractly
<1>1. Reader!Seekable /\ rst' = "unopened" /\ rpos' = 0 /\ got' = NoFrame
      /\ sought' = NoFrame
  BY DEF Reader!CloseRead
<1>2. RPos(s)'
  BY <1>1, ReadingFacts, RPosFrom DEF Reader!Seekable
<1>3. log' = log /\ killed' = killed /\ phase' = "sealed" /\ cursor' = 1
  BY <1>1, ReadingFacts, PlayView DEF PhaseOf, Elsewhere
<1>4. out' = NoFrame
  BY <1>1 DEF out
<1>5. Store!StopReading
  BY <1>1, <1>3, <1>4, OpenIsOpen DEF Store!StopReading, Shows
<1> QED
  BY <1>2, <1>5 DEF Abstractly, Store!SNext

-----------------------------------------------------------------------------
(* crap_peek_frame.                                                        *)

(* Where a reader is that may peek, it finds a frame, the index, or the    *)
(* end of the file.                                                        *)
LEMMA ReadyAt ==
    ASSUME NEW s, Reading(s), rst = "ready"
    PROVE  /\ Reader!ScanEnd(image, rpos) = rpos
           /\ \/ rpos >= Len(file)
              \/ \E c \in 1 .. Len(index) :
                    /\ rpos = index[c].off /\ rpos < Len(file)
                    /\ file[rpos + 1].k = "chunk" /\ file[rpos + 1].id = "FRMD"
              \/ /\ rpos = FramesEnd(s) /\ rpos < Len(file)
                 /\ file[rpos + 1].k = "chunk" /\ file[rpos + 1].id = "FRIX"
<1>1. \/ rpos >= Len(file)
      \/ \E c \in 1 .. Len(index) + 1 : rpos = StartOf(s, c)
  BY ReadingFacts DEF RPos
<1>2. \/ rpos >= Len(file)
      \/ \E c \in 1 .. Len(index) :
            /\ rpos = index[c].off /\ rpos < Len(file)
            /\ file[rpos + 1].k = "chunk" /\ file[rpos + 1].id = "FRMD"
      \/ /\ rpos = FramesEnd(s) /\ rpos < Len(file)
         /\ file[rpos + 1].k = "chunk" /\ file[rpos + 1].id = "FRIX"
  <2> SUFFICES ASSUME ~ (rpos >= Len(file)), NEW c \in 1 .. Len(index) + 1,
                      rpos = StartOf(s, c)
               PROVE  \/ \E b \in 1 .. Len(index) :
                            /\ rpos = index[b].off /\ rpos < Len(file)
                            /\ file[rpos + 1].k = "chunk" /\ file[rpos + 1].id = "FRMD"
                      \/ /\ rpos = FramesEnd(s) /\ rpos < Len(file)
                         /\ file[rpos + 1].k = "chunk" /\ file[rpos + 1].id = "FRIX"
    BY <1>1
  <2>1. rpos < Len(file)
    BY ReadingFacts
  <2> QED
    BY <2>1, ReadingFacts, StartIs
<1>3. ~ (/\ Reader!CellAt(file, rpos, "chunk")
         /\ file[rpos + 1].id \notin {"FRMD", "FRIX", "EOFC"})
  <2>1. Reader!CellAt(file, rpos, "chunk") => ~ (rpos >= Len(file))
    BY ReadingFacts DEF Reader!CellAt
  <2> QED
    BY <1>2, <2>1
<1> QED
  BY <1>2, <1>3, ReadingFacts, ScanStays

(* It is never taken for something else.                                   *)
LEMMA NoPeekGarbage ==
    ASSUME NEW s, Reading(s), Reader!PeekGarbage
    PROVE  FALSE
<1>1. rst = "ready"
  BY DEF Reader!PeekGarbage
<1>2. \/ ~ Reader!NoMoreFrames(file, rpos) /\ ~ Reader!CellAt(file, rpos, "chunk")
      \/ /\ Reader!ChunkAt(file, rpos, "FRMD") /\ rpos + 1 < Len(file)
         /\ ~ Reader!CellAt(file, rpos + 1, "fh")
  BY <1>1, ReadyAt, ReadingFacts DEF Reader!PeekGarbage
<1>3. CASE rpos >= Len(file)
  BY <1>2, <1>3, ReadingFacts DEF Reader!NoMoreFrames, Reader!ChunkAt, Reader!CellAt
<1>4. ASSUME NEW c \in 1 .. Len(index), rpos = index[c].off, rpos < Len(file),
             file[rpos + 1].k = "chunk", file[rpos + 1].id = "FRMD"
      PROVE  FALSE
  <2>1. rpos + 1 < Len(file) /\ ~ Reader!CellAt(file, rpos + 1, "fh")
    BY <1>2, <1>4 DEF Reader!CellAt
  <2>2. rpos + 2 <= Len(file) => file[rpos + 2] = FrameHeader(attempts[c].f)
    BY <1>4, ReadingFacts, FrameCellsAt
  <2>3. rpos + 2 <= Len(file) /\ rpos + 1 + 1 = rpos + 2
    BY <2>1, ReadingFacts
  <2> QED
    BY <2>1, <2>2, <2>3 DEF Reader!CellAt, FrameHeader
<1>5. CASE rpos < Len(file) /\ file[rpos + 1].k = "chunk" /\ file[rpos + 1].id = "FRIX"
  BY <1>2, <1>5 DEF Reader!ChunkAt, Reader!CellAt
<1> QED
  BY <1>1, <1>3, <1>4, <1>5, ReadyAt

(* crap_peek_frame moves within a frame, or beyond the last.               *)
LEMMA PeekKeeps ==
    ASSUME NEW s, Reading(s), Reader!PeekFrame
    PROVE  RPos(s)' /\ Abstractly
<1>1. rst = "ready" /\ got' = got /\ sought' = NoFrame /\ loaded' = loaded
      /\ Reader!Seekable
  BY DEF Reader!PeekFrame, Reader!Catalog, Reader!Seekable
<1>2. \/ /\ Reader!ChunkAt(file, rpos, "FRMD") /\ Reader!CellAt(file, rpos + 1, "fh")
         /\ pend' = file[rpos + 2] /\ rpos' = rpos + 2 /\ rst' = "peeked"
      \/ /\ \/ Reader!NoMoreFrames(file, rpos)
            \/ Reader!ChunkAt(file, rpos, "FRMD") /\ rpos + 1 >= Len(file)
         /\ rpos' = rpos + 1 /\ rst' = "ended"
  BY <1>1, ReadyAt, ReadingFacts DEF Reader!PeekFrame
<1>3. phase = "reading" /\ log' = log /\ killed' = killed
      /\ phase' = PhaseOf(rst', rret')
  BY <1>1, ReadingFacts, PlayView DEF PhaseOf
<1>4. CASE /\ Reader!ChunkAt(file, rpos, "FRMD") /\ Reader!CellAt(file, rpos + 1, "fh")
           /\ pend' = file[rpos + 2] /\ rpos' = rpos + 2 /\ rst' = "peeked"
  <2>1. PICK c \in 1 .. Len(index) : rpos = index[c].off
    BY <1>1, <1>4, ReadyAt, ReadingFacts DEF Reader!ChunkAt, Reader!CellAt
  <2> DEFINE z == attempts[c].f.size
  <2>2. /\ z \in Nat /\ FrameEnd(c) = rpos + z + 3
        /\ rpos + 2 <= Len(file) => file[rpos + 2] = FrameHeader(attempts[c].f)
    BY <2>1, ReadingFacts, FrameCellsAt
  <2> HIDE DEF z
  <2>3. rpos + 1 < Len(file) /\ rpos + 2 <= Len(file)
    BY <1>4, ReadingFacts DEF Reader!CellAt
  <2>4. /\ rpos' = index[c].off + 2 /\ rpos' <= Len(file) /\ rpos' \in Nat
        /\ pend' = FrameHeader(attempts[c].f)
    BY <1>4, <2>1, <2>2, <2>3, ReadingFacts
  <2>5. RPos(s)'
    BY <1>1, <1>4, <2>4, ReadingFacts, RPosFrom
  <2>6. index[c].off <= rpos /\ rpos < FrameEnd(c)
        /\ index[c].off <= rpos' /\ rpos' < FrameEnd(c)
    BY <1>4, <2>1, <2>2, ReadingFacts
  <2>7. Behind(rpos) = {i \in Whole : i < c} /\ Behind(rpos') = {i \in Whole : i < c}
    BY <2>4, <2>6, ReadingFacts, BehindAt
  <2>8. cursor' = cursor
    BY <1>1, <1>4, <2>7, ReadingFacts, PlayView DEF AtFrames
  <2>9. Store!AtEnd => killed
    BY <1>1, <2>7, AtFrame DEF AtFrames
  <2>10. phase' = "looking"
    BY <1>3, <1>4 DEF PhaseOf
  <2>11. out' = out
    BY <1>1 DEF out
  <2>12. Store!Look
    BY <1>1, <1>3, <2>8, <2>9, <2>10, <2>11 DEF Store!Look
  <2> QED
    BY <2>5, <2>12 DEF Abstractly, Store!SNext
<1>5. CASE /\ \/ Reader!NoMoreFrames(file, rpos)
              \/ Reader!ChunkAt(file, rpos, "FRMD") /\ rpos + 1 >= Len(file)
           /\ rpos' = rpos + 1 /\ rst' = "ended"
  <2>1. rpos' \in Nat
    BY <1>5, ReadingFacts
  <2>2. RPos(s)'
    BY <1>1, <1>5, <2>1, RPosAway DEF Elsewhere
  <2>3. Behind(rpos) = Whole
    <3>1. CASE rpos >= Len(file) \/ rpos = FramesEnd(s)
      <4>1. rpos >= Len(file) \/ rpos >= FramesEnd(s)
        BY <3>1, ReadingFacts
      <4> QED
        BY <4>1, ReadingFacts, BehindAll
    <3>2. ASSUME NEW c \in 1 .. Len(index), rpos = index[c].off, rpos < Len(file),
                 file[rpos + 1].k = "chunk", file[rpos + 1].id = "FRMD"
          PROVE  Behind(rpos) = Whole
      <4>1. ~ Reader!NoMoreFrames(file, rpos)
        <5>1. ~ (rpos >= Len(file))
          BY <3>2, ReadingFacts
        <5> QED
          BY <3>2, <5>1 DEF Reader!NoMoreFrames, Reader!CellAt
      <4>2. rpos + 1 >= Len(file)
        BY <1>5, <4>1
      <4>3. index[c].off \in Nat /\ FrameEnd(c) \in Nat /\ FrameEnd(c) >= index[c].off + 4
        BY ReadingFacts, EndTypes
      <4>4. index[c].off <= rpos /\ rpos < FrameEnd(c)
            /\ ~ (FrameEnd(c) <= Len(file))
        BY <3>2, <4>2, <4>3, ReadingFacts
      <4>5. Behind(rpos) = {i \in Whole : i < c}
        BY <4>4, ReadingFacts, BehindAt
      <4>6. c \notin Whole
        BY <4>4, ReadingFacts, WholeIs
      <4> QED
        BY <4>5, <4>6, ReadingFacts, HowManyBefore
    <3> QED
      BY <1>1, <3>1, <3>2, ReadyAt
  <2>4. Store!AtEnd
    BY <1>1, <2>3, AtTheEnd DEF AtFrames
  <2>5. Store!End
    BY <1>1, <1>3, <1>5, <2>4, LeavesFor DEF Store!End
  <2> QED
    BY <2>2, <2>5 DEF Abstractly, Store!SNext
<1> QED
  BY <1>2, <1>4, <1>5

(* At the end it stays.                                                    *)
LEMMA PeekAtEndKeeps ==
    ASSUME NEW s, Reading(s), Reader!PeekAtEnd
    PROVE  RPos(s)' /\ Abstractly
<1>1. /\ rst = "ended" /\ rst' = "ended" /\ rpos' = rpos /\ got' = got
      /\ sought' = NoFrame /\ loaded' = loaded /\ Reader!Seekable
  BY DEF Reader!PeekAtEnd, Reader!Catalog, Reader!Seekable
<1>2. RPos(s)'
  BY <1>1, ReadingFacts, RPosAway DEF Elsewhere
<1>3. phase = "ended"
  BY <1>1, ReadingFacts, PlayView DEF PhaseOf
<1>4. Store!EndAgain
  BY <1>1, <1>3, LeavesFor DEF Store!EndAgain
<1> QED
  BY <1>2, <1>4 DEF Abstractly, Store!SNext

(* Peeking in the middle of a chunk loses the place.                       *)
LEMMA PeekAgainKeeps ==
    ASSUME NEW s, Reading(s), Reader!PeekAgain
    PROVE  RPos(s)' /\ Abstractly
<1>1. /\ rst \in {"peeked", "ended", "toolarge", "starved", "lost"} /\ rst' = "lost"
      /\ rpos' = rpos /\ got' = NoFrame /\ sought' = NoFrame /\ loaded' = loaded
      /\ Reader!Seekable
  BY DEF Reader!PeekAgain, Reader!GetsLost, Reader!Catalog, Reader!Seekable
<1>2. RPos(s)'
  BY <1>1, ReadingFacts, RPosAway DEF Elsewhere
<1>3. /\ phase \in Store!Open \ {"reading"} /\ phase' = "lost" /\ cursor' = 1
      /\ log' = log /\ killed' = killed
  BY <1>1, ReadingFacts, PlayView DEF PhaseOf, Elsewhere, Store!Open
<1>4. out' = NoFrame
  BY <1>1 DEF out
<1>5. Store!GetLost
  BY <1>1, <1>3, <1>4 DEF Store!GetLost
<1> QED
  BY <1>2, <1>5 DEF Abstractly, Store!SNext

-----------------------------------------------------------------------------
(* crap_read_frame_data and crap_skip_frame.                               *)

\* Where a reader is that has peeked.
Peeked(s, c) ==
    /\ Reading(s) /\ rst = "peeked" /\ c \in 1 .. Len(index)
    /\ rpos = index[c].off + 2 /\ rpos <= Len(file)
    /\ pend = FrameHeader(attempts[c].f)

(* A frame header was read from the frame it belongs to.                   *)
LEMMA PeekedAt ==
    ASSUME NEW s, Reading(s), rst = "peeked"
    PROVE  \E c : Peeked(s, c)
  BY ReadingFacts DEF Peeked, RPos

(* That frame ends size + 1 cells further on.                              *)
LEMMA PeekedFacts ==
    ASSUME NEW s, NEW c, Peeked(s, c)
    PROVE  LET f == attempts[c].f
               z == pend.size
           IN  /\ f \in Frame /\ z = f.size /\ z \in Nat /\ z >= 1
               /\ FrameEnd(c) = rpos + z + 1 /\ FrameEnd(c) \in Nat
               /\ c \in Whole <=> rpos + z + 1 <= Len(file)
               /\ Behind(rpos) = {i \in Whole : i < c}
               /\ Reader!Seekable
<1> DEFINE f == attempts[c].f
           q == index[c].off
<1>1. /\ Reading(s) /\ c \in 1 .. Len(index) /\ rpos = q + 2 /\ pend = FrameHeader(f)
      /\ rst = "peeked"
  BY DEF Peeked
<1>2. pend.size = f.size
  BY <1>1 DEF FrameHeader
<1>3. f \in Frame /\ f.size \in Nat /\ f.size >= 1 /\ q \in Nat /\ FrameEnd(c) = q + f.size + 3
  BY <1>1, ReadingFacts, FrameCellsAt
<1> HIDE DEF f, q
<1>4. FrameEnd(c) = rpos + f.size + 1 /\ FrameEnd(c) \in Nat /\ q <= rpos /\ rpos < FrameEnd(c)
  BY <1>1, <1>3
<1>5. c \in Whole <=> FrameEnd(c) <= Len(file)
  BY <1>1, ReadingFacts, WholeIs
<1>6. Behind(rpos) = {i \in Whole : i < c}
  BY <1>1, <1>4, ReadingFacts, BehindAt DEF q
<1>7. Reader!Seekable
  BY <1>1 DEF Reader!Seekable
<1> QED
  BY <1>2, <1>3, <1>4, <1>5, <1>6, <1>7 DEF f

(* The payload of a frame is as long as its header says.                   *)
LEMMA DataLength ==
    ASSUME NEW f \in Frame
    PROVE  /\ f.size \in Nat /\ Len(FrameData(f)) = f.size
           /\ FrameData(f) \in Seq([k: {"data"}, n: Nat, j: Nat])
           /\ \A i \in 1 .. f.size : FrameData(f)[i] = Data(f.n, i)
<1> DEFINE d == FrameData(f)
           z == f.size
           S == [k: {"data"}, n: Nat, j: Nat]
<1>1. z \in Nat /\ f.n \in Nat
  BY FormatAssumption DEF Frame
<1>2. d = [i \in 1 .. z |-> Data(f.n, i)]
  BY DEF FrameData, z
<1>3. \A i \in 1 .. z : Data(f.n, i) \in S
  BY <1>1 DEF Data
<1> HIDE DEF d, z, S
<1>4. d \in [1 .. z -> S] /\ DOMAIN d = 1 .. z
  BY <1>2, <1>3
<1>5. d \in Seq(S)
  BY <1>1, <1>4, SeqDef
<1>6. Len(d) = z
  BY <1>1, <1>4, <1>5, LenProperties
<1> QED
  BY <1>1, <1>2, <1>5, <1>6 DEF d, z, S

(* A read that fails: too large for the buffer, no memory, or cut off.     *)
LEMMA ReadEndsKeeps ==
    ASSUME NEW s, Reading(s), NEW buf \in Buffers,
           \/ Reader!ReadTooLarge(buf) \/ Reader!ReadNoMemory(buf) \/ Reader!ReadShort(buf)
    PROVE  RPos(s)' /\ Abstractly
<1>1. /\ rst = "peeked" /\ got' = got /\ sought' = NoFrame /\ loaded' = loaded
      /\ \/ rst' = "toolarge" /\ rpos' = rpos /\ pend.size > buf
         \/ rst' = "starved" /\ rpos' = rpos + pend.size
         \/ rst' = "ended" /\ rpos' = Len(file) /\ rpos + pend.size >= Len(file)
  BY ReadingFacts
  DEF Reader!ReadTooLarge, Reader!ReadNoMemory, Reader!ReadShort, Reader!Catalog
<1>2. PICK c : Peeked(s, c)
  BY <1>1, PeekedAt
<1>3. /\ c \in 1 .. Len(index) /\ attempts[c].f \in Frame
      /\ pend.size = attempts[c].f.size /\ pend.size \in Nat
      /\ c \in Whole <=> rpos + pend.size + 1 <= Len(file)
      /\ Behind(rpos) = {i \in Whole : i < c} /\ Reader!Seekable
  BY <1>2, PeekedFacts DEF Peeked
<1>4. rpos' \in Nat
  BY <1>1, <1>3, ReadingFacts
<1>5. RPos(s)'
  BY <1>1, <1>3, <1>4, RPosAway DEF Elsewhere
<1>6. phase = "looking"
  BY <1>1, ReadingFacts, PlayView DEF PhaseOf
<1>7. /\ c \in Whole => cursor = c /\ log[c] = Stored(attempts[c].f)
      /\ c \notin Whole => Store!AtEnd
  BY <1>1, <1>3, AtFrame DEF AtFrames
<1>8. CASE rst' = "toolarge" /\ pend.size > buf
  <2>1. c \in Whole => Len(log[cursor].data) > buf
    BY <1>3, <1>7, <1>8, DataLength DEF Stored
  <2>2. Store!Refuse
    BY <1>1, <1>6, <1>7, <1>8, <2>1, LeavesFor DEF Store!Refuse
  <2> QED
    BY <1>5, <2>2 DEF Abstractly, Store!SNext
<1>9. CASE rst' = "starved"
  <2>1. Store!Starve
    BY <1>1, <1>6, <1>9, LeavesFor DEF Store!Starve
  <2> QED
    BY <1>5, <2>1 DEF Abstractly, Store!SNext
<1>10. CASE rst' = "ended" /\ rpos + pend.size >= Len(file)
  <2>1. c \notin Whole
    BY <1>3, <1>10, ReadingFacts
  <2>2. Store!End
    BY <1>1, <1>6, <1>7, <1>10, <2>1, LeavesFor DEF Store!End
  <2> QED
    BY <1>5, <2>2 DEF Abstractly, Store!SNext
<1> QED
  BY <1>1, <1>8, <1>9, <1>10

(* No other chunk interrupts a frame.                                      *)
LEMMA NoReadAcross ==
    ASSUME NEW s, Reading(s), NEW buf, Reader!ReadAcross(buf)
    PROVE  FALSE
<1>1. rst = "peeked"
  BY DEF Reader!ReadAcross
<1>2. PICK c : Peeked(s, c)
  BY <1>1, PeekedAt
<1> DEFINE q == index[c].off
           f == attempts[c].f
           z == f.size
<1>3. c \in 1 .. Len(index) /\ rpos = q + 2 /\ pend.size = z
  BY <1>2, PeekedFacts DEF Peeked
<1>4. /\ q \in Nat /\ z \in Nat /\ Len(file) \in Nat
      /\ \A j \in 1 .. z : q + 2 + j <= Len(file) => file[q + 2 + j] = Data(f.n, j)
      /\ q + z + 3 <= Len(file) => file[q + z + 3] = Crc(FramePayload(f))
  BY <1>3, ReadingFacts, FrameCellsAt
<1> HIDE DEF q, f, z
<1>5. PICK j \in rpos .. Reader!Min2(rpos + pend.size, Len(file) - 1) :
          file[j + 1].k \notin {"data", "crc"}
  BY ReadingFacts DEF Reader!ReadAcross
<1>6. j \in Nat /\ rpos <= j /\ j <= q + 2 + z /\ j + 1 <= Len(file)
  <2>1. Reader!Min2(q + 2 + z, Len(file) - 1) <= q + 2 + z
        /\ Reader!Min2(q + 2 + z, Len(file) - 1) <= Len(file) - 1
        /\ Reader!Min2(q + 2 + z, Len(file) - 1) \in Int
    BY <1>4 DEF Reader!Min2
  <2> QED
    BY <1>3, <1>4, <1>5, <2>1
<1>7. CASE j < q + 2 + z
  <2> DEFINE i == j - q - 1
  <2>1. i \in 1 .. z /\ q + 2 + i = j + 1
    BY <1>3, <1>4, <1>6, <1>7
  <2> HIDE DEF i
  <2>2. file[j + 1] = Data(f.n, i)
    BY <1>4, <1>6, <2>1
  <2> QED
    BY <1>5, <2>2 DEF Data
<1>8. CASE j = q + 2 + z
  <2>1. file[j + 1] = Crc(FramePayload(f))
    <3>1. j + 1 = q + z + 3
      BY <1>4, <1>8
    <3> QED
      BY <1>4, <1>6, <3>1
  <2> QED
    BY <1>5, <2>1 DEF Crc
<1> QED
  BY <1>4, <1>6, <1>7, <1>8

(* crap_read_frame_data delivers the frame at the cursor as it was written. *)
LEMMA DeliverKeeps ==
    ASSUME NEW s, Reading(s), NoFrameIsNone, NEW buf \in Buffers, Reader!ReadFrameData(buf)
    PROVE  RPos(s)' /\ Abstractly
<1>1. /\ rst = "peeked" /\ Reader!WholeBody /\ rst' = "ready"
      /\ got' = [fh |-> pend, body |-> Reader!Body, crc |-> image[rpos + pend.size + 1]]
      /\ rpos' = rpos + pend.size + 1 /\ sought' = NoFrame /\ loaded' = loaded
      /\ pend.size <= buf
  BY DEF Reader!ReadFrameData, Reader!Catalog
<1>2. PICK c : Peeked(s, c)
  BY <1>1, PeekedAt
<1> DEFINE f == attempts[c].f
           z == f.size
           q == index[c].off
<1>3. /\ c \in 1 .. Len(index) /\ rpos = q + 2 /\ pend = FrameHeader(f)
      /\ f \in Frame /\ pend.size = z /\ z \in Nat /\ z >= 1
      /\ FrameEnd(c) = rpos + z + 1 /\ FrameEnd(c) \in Nat
      /\ c \in Whole <=> rpos + z + 1 <= Len(file)
      /\ Behind(rpos) = {i \in Whole : i < c} /\ Reader!Seekable
  BY <1>2, PeekedFacts DEF Peeked
<1>4. q \in Nat /\ Len(file) \in Nat /\ image = file /\ Len(index) \in Nat
      /\ \A j \in 1 .. z : q + 2 + j <= Len(file) => file[q + 2 + j] = Data(f.n, j)
  BY <1>3, ReadingFacts, FrameCellsAt
<1>5. f.n \in Nat
  BY <1>3 DEF Frame
<1> HIDE DEF f, z, q
<1>6. rpos + z < Len(file)
  BY <1>1, <1>3, <1>4 DEF Reader!WholeBody
<1>7. c \in Whole
  BY <1>3, <1>4, <1>6
<1>8. Reader!Body = FrameData(f)
  <2> DEFINE b == Reader!Body
             S == [k: {"data"}, n: Nat, j: Nat]
  <2>1. b = SubSeq(file, q + 3, q + 2 + z)
    <3>1. rpos + 1 = q + 3 /\ rpos + z = q + 2 + z
      BY <1>3, <1>4
    <3>2. Reader!Min2(rpos + z, Len(file)) = rpos + z
      BY <1>6 DEF Reader!Min2
    <3>3. b = SubSeq(file, rpos + 1, rpos + z)
      BY <1>3, <1>4, <3>2 DEF Reader!Body
    <3> HIDE DEF b
    <3> QED
      BY <3>1, <3>3
  <2>2. ASSUME NEW i \in q + 3 .. q + 2 + z PROVE file[i] = Data(f.n, i - q - 2)
    <3> DEFINE j == i - q - 2
    <3>1. j \in 1 .. z /\ q + 2 + j = i /\ i <= Len(file)
      BY <1>3, <1>4, <1>6
    <3> HIDE DEF j
    <3>2. file[i] = Data(f.n, j)
      BY <1>4, <3>1
    <3> QED
      BY <3>2 DEF j
  <2>3. \A i \in q + 3 .. q + 2 + z : file[i] \in S
    <3> SUFFICES ASSUME NEW i \in q + 3 .. q + 2 + z PROVE file[i] \in S
      OBVIOUS
    <3> DEFINE j == i - q - 2
    <3>1. j \in Nat /\ file[i] = Data(f.n, j)
      BY <1>4, <2>2
    <3> HIDE DEF j
    <3>2. Data(f.n, j) \in S
      BY <1>5, <3>1 DEF Data
    <3> QED
      BY <3>1, <3>2
  <2> HIDE DEF b, S
  <2>4. /\ b \in Seq(S) /\ Len(b) = z
        /\ \A i \in 1 .. z : b[i] = file[q + 2 + i]
    <3> DEFINE lo == q + 3
               hi == q + 2 + z
    <3>1. lo \in Int /\ hi \in Int /\ lo <= hi /\ hi - lo + 1 = z
          /\ \A i \in 1 .. z : lo + i - 1 = q + 2 + i
      BY <1>3, <1>4
    <3> HIDE DEF lo, hi
    <3>2. b = SubSeq(file, lo, hi) /\ \A i \in lo .. hi : file[i] \in S
      BY <2>1, <2>3 DEF lo, hi
    <3>3. /\ b \in Seq(S) /\ Len(b) = IF lo <= hi THEN hi - lo + 1 ELSE 0
          /\ \A i \in 1 .. hi - lo + 1 : b[i] = file[lo + i - 1]
      BY <3>1, <3>2, SubSeqProperties
    <3> QED
      BY <3>1, <3>3
  <2>5. FrameData(f) \in Seq(S) /\ Len(FrameData(f)) = z
        /\ \A i \in 1 .. z : FrameData(f)[i] = Data(f.n, i)
    BY <1>3, DataLength DEF S, z
  <2>6. ASSUME NEW i \in 1 .. z PROVE b[i] = FrameData(f)[i]
    <3>1. q + 2 + i <= Len(file)
      BY <1>3, <1>4, <1>6
    <3> QED
      BY <1>4, <2>4, <2>5, <3>1
  <2>7. b = FrameData(f)
    BY <2>4, <2>5, <2>6, SeqEqual
  <2> QED
    BY <2>7 DEF b
<1>9. out' = Stored(f)
  <2>1. got' # NoFrame /\ got'.fh = FrameHeader(f) /\ got'.body = FrameData(f)
    BY <1>1, <1>3, <1>8 DEF NoFrameIsNone
  <2>2. out' = [sid |-> got'.fh.sid, ftype |-> got'.fh.ftype,
                pts |-> got'.fh.pts, data |-> got'.body]
    BY <2>1 DEF out
  <2> QED
    BY <2>1, <2>2 DEF Stored, FrameHeader
<1>10. rpos' = FrameEnd(c) /\ rpos' \in Nat /\ rpos' = StartOf(s, c + 1)
       /\ c + 1 \in 1 .. Len(index) + 1
  <2>1. c + 1 # 1 /\ c + 1 - 1 = c
    BY <1>3, <1>4
  <2>2. rpos' = FrameEnd(c)
    BY <1>1, <1>3
  <2> QED
    BY <1>3, <1>4, <2>1, <2>2 DEF StartOf
<1>11. Reader!Seekable'
  BY <1>1 DEF Reader!Seekable
<1>12. RPos(s)'
  BY <1>1, <1>3, <1>10, <1>11, ReadingFacts, RPosFrom
<1>13. Cardinality(Behind(rpos')) = c
  BY <1>3, <1>7, <1>10, ReadingFacts, BehindEnd, HowManyBefore
<1>14. /\ log' = log /\ killed' = killed /\ phase = "looking" /\ phase' = "reading"
       /\ cursor' = c + 1
  BY <1>1, <1>13, ReadingFacts, PlayView DEF PhaseOf, AtFrames
<1>15. cursor = c /\ ~ Store!AtEnd /\ log[c] = Stored(f)
  BY <1>1, <1>3, <1>7, AtFrame DEF AtFrames, f
<1>16. Len(log[cursor].data) <= buf
  <2>1. Stored(f).data = FrameData(f)
    BY DEF Stored
  <2>2. Len(FrameData(f)) = z
    BY <1>3, DataLength DEF z
  <2> QED
    BY <1>1, <1>3, <1>15, <2>1, <2>2
<1>17. Store!Deliver
  BY <1>1, <1>9, <1>14, <1>15, <1>16 DEF Store!Deliver
<1> QED
  BY <1>12, <1>17 DEF Abstractly, Store!SNext

(* crap_skip_frame passes over the frame at the cursor, or over the rest   *)
(* of one that is not whole.                                               *)
LEMMA SkipKeeps ==
    ASSUME NEW s, Reading(s), Reader!SkipFrame
    PROVE  RPos(s)' /\ Abstractly
<1>1. /\ rst = "peeked" /\ rst' = "ready" /\ got' = got /\ rpos' = rpos + pend.size + 1
      /\ sought' = NoFrame /\ loaded' = loaded
  BY DEF Reader!SkipFrame, Reader!Catalog
<1>2. PICK c : Peeked(s, c)
  BY <1>1, PeekedAt
<1>3. /\ c \in 1 .. Len(index)
      /\ FrameEnd(c) = rpos + pend.size + 1 /\ FrameEnd(c) \in Nat
      /\ c \in Whole <=> rpos + pend.size + 1 <= Len(file)
      /\ Behind(rpos) = {i \in Whole : i < c} /\ Reader!Seekable
  BY <1>2, PeekedFacts DEF Peeked
<1>4. rpos' = FrameEnd(c) /\ rpos' \in Nat /\ rpos' = StartOf(s, c + 1)
      /\ c + 1 \in 1 .. Len(index) + 1
  <2>1. c + 1 # 1 /\ c + 1 - 1 = c /\ c + 1 \in 1 .. Len(index) + 1
    BY <1>3, ReadingFacts
  <2>2. rpos' = FrameEnd(c)
    BY <1>1, <1>3
  <2> QED
    BY <1>3, <2>1, <2>2 DEF StartOf
<1>5. Reader!Seekable'
  BY <1>1 DEF Reader!Seekable
<1>6. RPos(s)'
  BY <1>1, <1>3, <1>4, <1>5, ReadingFacts, RPosFrom
<1>7. Behind(rpos') = {i \in Whole : i <= c}
  BY <1>3, <1>4, ReadingFacts, BehindEnd
<1>8. /\ log' = log /\ killed' = killed /\ phase = "looking" /\ phase' = "reading"
      /\ cursor = Cardinality(Behind(rpos)) + 1 /\ cursor' = Cardinality(Behind(rpos')) + 1
  BY <1>1, ReadingFacts, PlayView DEF PhaseOf, AtFrames
<1>9. out' = out
  BY <1>1 DEF out
<1>10. cursor' = IF Store!AtEnd THEN cursor ELSE cursor + 1
  <2>1. CASE c \notin Whole
    <3>1. Behind(rpos') = Behind(rpos)
      BY <1>3, <1>7, <2>1, ReadingFacts, HowManyBefore
    <3>2. Store!AtEnd
      BY <1>1, <1>3, <2>1, AtFrame DEF AtFrames
    <3> QED
      BY <1>8, <3>1, <3>2
  <2>2. CASE c \in Whole
    <3>1. Cardinality(Behind(rpos')) = c
      BY <1>3, <1>7, <2>2, ReadingFacts, HowManyBefore
    <3>2. cursor = c /\ ~ Store!AtEnd
      BY <1>1, <1>3, <2>2, AtFrame DEF AtFrames
    <3> QED
      BY <1>8, <3>1, <3>2
  <2> QED
    BY <2>1, <2>2
<1>11. Store!Skip
  BY <1>1, <1>8, <1>9, <1>10 DEF Store!Skip
<1> QED
  BY <1>6, <1>11 DEF Abstractly, Store!SNext

-----------------------------------------------------------------------------
(* crap_seek_pts.                                                          *)

(* The log says of a frame what its index entry says.                      *)
LEMMA LogFields ==
    ASSUME NEW s, Reading(s), Match
    PROVE  /\ Len(log) \in Nat /\ Len(log) <= Len(index)
           /\ \A i \in 1 .. Len(log) :
                 /\ log[i].sid = index[i].sid /\ log[i].ftype = index[i].ftype
                 /\ log[i].pts = index[i].pts
<1>1. /\ Len(log) \in Nat /\ Len(log) <= Len(index) /\ Len(index) \in Nat
      /\ \A i \in 1 .. Len(log) : log[i] = Stored(attempts[i].f)
  BY ReadingFacts, LogIs, WholeIs
<1>2. ASSUME NEW i \in 1 .. Len(log)
      PROVE  /\ log[i].sid = index[i].sid /\ log[i].ftype = index[i].ftype
             /\ log[i].pts = index[i].pts
  <2>1. i \in 1 .. Len(index)
    BY <1>1
  <2>2. index[i] = IndexEntry(attempts[i].f, index[i].off)
    BY <2>1 DEF Match
  <2>3. log[i] = Stored(attempts[i].f)
    BY <1>1
  <2>4. \A f, o : /\ Stored(f).sid = IndexEntry(f, o).sid
                  /\ Stored(f).ftype = IndexEntry(f, o).ftype
                  /\ Stored(f).pts = IndexEntry(f, o).pts
    BY DEF Stored, IndexEntry
  <2> QED
    BY <2>2, <2>3, <2>4
<1> QED
  BY <1>1, <1>2

(* What may be sought in the log may be sought in the index.               *)
LEMMA BeforeIsKeyframes ==
    ASSUME NEW s, Reading(s), Match, NEW sid, NEW pts
    PROVE  Store!Before(sid, pts) =
               {i \in Reader!Keyframes(index, sid, pts) : i <= Len(log)}
<1>1. /\ Len(log) \in Nat /\ Len(log) <= Len(index) /\ Len(index) \in Nat
      /\ \A i \in 1 .. Len(log) :
            /\ log[i].sid = index[i].sid /\ log[i].ftype = index[i].ftype
            /\ log[i].pts = index[i].pts
  BY ReadingFacts, LogFields
<1>2. ASSUME NEW i PROVE i \in 1 .. Len(log) <=> i \in 1 .. Len(index) /\ i <= Len(log)
  BY <1>1
<1>3. ASSUME NEW i
      PROVE  i \in Store!Before(sid, pts) <=>
                i \in Reader!Keyframes(index, sid, pts) /\ i <= Len(log)
  <2>1. CASE i \in 1 .. Len(log)
    BY <1>1, <1>2, <2>1 DEF Store!Before, Reader!Keyframes
  <2>2. CASE i \notin 1 .. Len(log)
    BY <1>2, <2>2 DEF Store!Before, Reader!Keyframes
  <2> QED
    BY <2>1, <2>2
<1> QED
  BY <1>3

(* To the earliest of the latest keyframes.                                *)
LEMMA SeekKeeps ==
    ASSUME NEW s, Reading(s), Match, NEW sid \in StreamIds, NEW pts \in Pts,
           Reader!SeekPts(sid, pts)
    PROVE  RPos(s)' /\ Abstractly
<1> DEFINE b == Reader!BestEntry(loaded, sid, pts)
           K == Reader!Keyframes(index, sid, pts)
<1>1. /\ Reader!Seekable /\ Reader!Keyframes(loaded, sid, pts) # {}
      /\ rpos' = loaded[b].off /\ rst' = "ready" /\ got' = got /\ loaded' = loaded
      /\ sought' = [sid |-> sid, pts |-> pts, found |-> TRUE]
  BY DEF Reader!SeekPts, Reader!Catalog, Reader!Request
<1>2. loaded # <<>>
  BY <1>1 DEF Reader!Keyframes
<1>3. LoadedFrom /\ FramesBeforeIndex /\ image = file
  BY ReadingFacts DEF Reading, CInv
<1>4. /\ loaded = index /\ file # <<>> /\ file[1].index_offset # 0
      /\ file[1].index_offset \in Nat /\ file[1].index_offset <= Len(file)
  BY <1>1, <1>2, <1>3 DEF LoadedFrom
<1>5. ASSUME NEW i \in 1 .. Len(index) PROVE i \in Whole
  <2>1. attempts[i].ok
    BY <1>5, ReadingFacts DEF Contiguous
  <2>2. index[i].off + Len(FrameChunk(attempts[i].f)) <= file[1].index_offset
    BY <1>3, <1>4, <2>1 DEF FramesBeforeIndex, FramesWithin
  <2>3. FrameEnd(i) = index[i].off + Len(FrameChunk(attempts[i].f)) /\ FrameEnd(i) \in Nat
    BY ReadingFacts, EndTypes
  <2>4. FrameEnd(i) <= Len(file)
    BY <1>4, <2>2, <2>3, ReadingFacts
  <2> QED
    BY <2>4, ReadingFacts, WholeIs
<1>6. /\ b \in K
      /\ \A j \in K : index[j].pts < index[b].pts \/ (index[j].pts = index[b].pts /\ b <= j)
  BY <1>1, <1>4, ReadingFacts, BestIsThere
<1> HIDE DEF b
<1>7. b \in 1 .. Len(index)
  BY <1>6 DEF Reader!Keyframes
<1>8. /\ rpos' = index[b].off /\ rpos' \in Nat /\ rpos' = StartOf(s, b)
      /\ rpos' < FrameEnd(b) /\ b \in 1 .. Len(index) + 1 /\ b \in Nat /\ b >= 1
  <2>1. index[b].off \in Nat /\ FrameEnd(b) \in Nat /\ FrameEnd(b) >= index[b].off + 4
        /\ index[b].off = StartOf(s, b)
    BY <1>7, ReadingFacts, EndTypes DEF Contiguous
  <2> QED
    BY <1>1, <1>4, <1>7, <2>1, ReadingFacts
<1>9. RPos(s)'
  BY <1>1, <1>8, ReadingFacts, RPosFrom
<1>10. Cardinality(Behind(rpos')) = b - 1
  <2>1. index[b].off <= rpos' /\ rpos' < FrameEnd(b)
    BY <1>8
  <2>2. Behind(rpos') = {i \in Whole : i < b}
    BY <1>7, <1>8, <2>1, ReadingFacts, BehindAt
  <2> QED
    BY <1>5, <1>7, <2>2, ReadingFacts, HowManyBefore
<1>11. /\ log' = log /\ killed' = killed /\ phase' = "reading"
       /\ cursor' = Cardinality(Behind(rpos')) + 1
  BY <1>1, ReadingFacts, PlayView DEF PhaseOf, AtFrames
<1>12. cursor' = b /\ phase \in Store!Open
  BY <1>1, <1>8, <1>10, <1>11, OpenIsOpen DEF Shows
<1>13. out' = out
  BY <1>1 DEF out
<1>14. Len(log) = Len(index)
  <2>1. Whole = 1 .. Len(index)
    BY <1>5 DEF Whole
  <2>2. Whole = 1 .. Len(log) /\ Len(log) \in Nat /\ Len(index) \in Nat
    BY ReadingFacts, LogIs, WholeIs
  <2> QED
    BY <2>1, <2>2
<1>15. Store!Before(sid, pts) = K
  <2>1. \A i \in K : i <= Len(log)
    BY <1>14, ReadingFacts DEF Reader!Keyframes
  <2> QED
    BY <2>1, BeforeIsKeyframes
<1>16. \A j \in K : log[j].pts < log[b].pts \/ (log[j].pts = log[b].pts /\ b <= j)
  <2>1. \A j \in 1 .. Len(index) : log[j].pts = index[j].pts
    BY <1>14, LogFields
  <2>2. \A j \in K : j \in 1 .. Len(index)
    BY DEF Reader!Keyframes
  <2> QED
    BY <1>6, <1>7, <2>1, <2>2
<1> HIDE DEF K
<1>17. Store!Seek(sid, pts)
  BY <1>1, <1>6, <1>11, <1>12, <1>13, <1>15, <1>16 DEF Store!Seek, Store!Asks
<1>18. Store!SNext
  BY <1>17 DEF Store!SNext
<1> QED
  BY <1>9, <1>18 DEF Abstractly

(* There is none, or the file has no index.                                *)
LEMMA SeekFailsKeeps ==
    ASSUME NEW s, Reading(s), Match, NEW sid \in StreamIds, NEW pts \in Pts,
           Reader!SeekFails(sid, pts)
    PROVE  RPos(s)' /\ Abstractly
<1>1. /\ Reader!Seekable /\ Reader!Keyframes(loaded, sid, pts) = {}
      /\ rst' = rst /\ rpos' = rpos /\ got' = got /\ pend' = pend /\ loaded' = loaded
      /\ sought' = [sid |-> sid, pts |-> pts, found |-> FALSE]
  BY DEF Reader!SeekFails, Reader!Catalog, Reader!Request
<1>2. RPos(s)'
  <2>1. /\ rst = "ready" => \/ rpos >= Len(file)
                            \/ \E c \in 1 .. Len(index) + 1 : rpos = StartOf(s, c)
        /\ rst = "peeked" =>
              \E c \in 1 .. Len(index) :
                  /\ rpos = index[c].off + 2 /\ rpos <= Len(file)
                  /\ pend = FrameHeader(attempts[c].f)
    BY ReadingFacts DEF RPos
  <2> QED
    BY <1>1, <2>1, ReadingFacts, RPosFrom
<1>3. rst \in AtFrames \/ rst \in Elsewhere
  BY <1>1 DEF Reader!Seekable, AtFrames, Elsewhere
<1>4. PhaseOf(rst, rret') = PhaseOf(rst, rret)
  BY <1>1 DEF Reader!Seekable, PhaseOf
<1>5. log' = log /\ killed' = killed /\ phase' = phase /\ phase \in Store!Open
  BY <1>1, <1>4, ReadingFacts, PlayView, OpenIsOpen DEF Shows
<1>6. cursor' = cursor
  BY <1>1, <1>3, ReadingFacts, PlayView
<1>7. out' = out
  BY <1>1 DEF out
<1>8. killed \/ Store!Before(sid, pts) = {}
  <2> SUFFICES ASSUME ~ killed PROVE Store!Before(sid, pts) = {}
    OBVIOUS
  <2>1. wst = "closed"
    BY ReadingFacts DEF Finished, killed
  <2>2. loaded = index
    BY <1>1, <2>1, ReadingFacts DEF RPos
  <2> QED
    BY <1>1, <2>2, BeforeIsKeyframes
<1>9. Store!SeekRefused(sid, pts)
  BY <1>1, <1>5, <1>6, <1>7, <1>8 DEF Store!SeekRefused, Store!Asks
<1>10. Store!SNext
  BY <1>9 DEF Store!SNext
<1> QED
  BY <1>2, <1>10 DEF Abstractly

(* Every step of a reader.                                                 *)
LEMMA PlayKeeps ==
    ASSUME CInv, Match, Finishes, NoFrameIsNone, NEW s \in Nat, Layout(s), RPos(s), Play
    PROVE  RPos(s)' /\ Abstractly
<1>1. Reading(s) /\ Reader!RNext
  BY DEF Reading, Play
<1>2. ASSUME NEW buf \in Buffers,
             \/ Reader!ReadFrameData(buf) \/ Reader!ReadTooLarge(buf)
             \/ Reader!ReadNoMemory(buf) \/ Reader!ReadShort(buf) \/ Reader!ReadAcross(buf)
      PROVE  RPos(s)' /\ Abstractly
  BY <1>1, <1>2, DeliverKeeps, ReadEndsKeeps, NoReadAcross
<1>3. ASSUME NEW sid \in StreamIds, NEW pts \in Pts,
             Reader!SeekPts(sid, pts) \/ Reader!SeekFails(sid, pts)
      PROVE  RPos(s)' /\ Abstractly
  BY <1>1, <1>3, SeekKeeps, SeekFailsKeeps
<1>4. Reader!StreamIds = StreamIds
  BY DEF Reader!StreamIds, StreamIds
<1>5. ASSUME \/ Reader!OpenRead \/ Reader!OpenReadNoMemory \/ Reader!PeekFrame
             \/ Reader!PeekGarbage \/ Reader!PeekAtEnd \/ Reader!PeekAgain
             \/ Reader!SkipFrame \/ Reader!CloseRead
      PROVE  RPos(s)' /\ Abstractly
  BY <1>1, <1>5, OpenReadKeeps, OpenFailsKeeps, PeekKeeps, NoPeekGarbage, PeekAtEndKeeps,
     PeekAgainKeeps, SkipKeeps, CloseReadKeeps
<1> QED
  BY <1>1, <1>2, <1>3, <1>4, <1>5 DEF Reader!RNext

-----------------------------------------------------------------------------
(* The recorder, step by step, and the theorem.                            *)

LInv == Match /\ Finishes /\ \E s \in Nat : Layout(s) /\ RPos(s)

(* What is known of the log holds after a step as well: all frames are     *)
(* whole while the recorder works.                                         *)
LEMMA LiveWholeNext ==
    (WTypeOK /\ (\E s \in Nat : Layout(s)) /\ Live => Whole = 1 .. Len(index))'
  BY LiveWhole, PTL

(* The whole frames are the first ones.                                    *)
LEMMA WholeIsNext ==
    (WTypeOK /\ (\E s \in Nat : Layout(s)) =>
        /\ Cardinality(Whole) \in 0 .. Len(index) /\ Len(index) \in Nat
        /\ Whole = 1 .. Cardinality(Whole)
        /\ \A i \in 1 .. Len(index) : i \in Whole <=> FrameEnd(i) <= Len(file))'
  BY WholeIs, PTL

(* The log is made of them.                                                *)
LEMMA LogIsNext ==
    (WTypeOK /\ (\E s \in Nat : Layout(s)) =>
        /\ log \in Seq(Logged) /\ Len(log) = Cardinality(Whole) /\ Len(log) \in Nat
        /\ \A i \in 1 .. Len(log) : log[i] = Stored(attempts[i].f))'
  BY LogIs, PTL

(* Until the recorder is done it writes.                                   *)
LEMMA Writing == ~ Finished => phase = "writing"
  BY DEF phase

(* And after a step.                                                       *)
LEMMA WritingNext == (~ Finished => phase = "writing")'
  BY Writing, PTL

(* The recorder appends frames, seals the log, or loses its tail.          *)
LEMMA RecordAbstractly ==
    ASSUME WInv, WTypeOK', NEW s \in Nat, Layout(s), NEW t \in Nat, Layout(t)',
           Live, WNext, faults' = 0, rst = "unopened", UNCHANGED rvars
    PROVE  Abstractly
<1>1. WTypeOK /\ Len(index) \in Nat /\ Len(file) \in Nat /\ file \in Seq(Cell)
  BY LenProperties DEF WInv, WTypeOK
<1>2. /\ phase = "writing" /\ cursor = 1 /\ cursor' = 1 /\ out' = out /\ sought' = sought
      /\ phase' = IF Live' THEN "writing" ELSE "sealed"
  <2>1. ~ Finished /\ (Finished' <=> ~ Live')
    BY <1>1 DEF Live, Finished, WTypeOK
  <2>2. rst' = "unopened" /\ out' = out /\ sought' = sought
    BY DEF rvars, out
  <2>3. phase = "writing"
    BY <2>1 DEF phase
  <2>4. phase' = IF Live' THEN "writing" ELSE "sealed"
    BY <2>1, <2>2, PhaseIsNext, WritingNext DEF PhaseOf
  <2> QED
    BY <2>2, <2>3, <2>4 DEF cursor
<1>3. Whole = 1 .. Len(index)
  BY <1>1, LiveWhole
<1>4. Live' => Whole' = 1 .. Len(index')
  <2> QED
    BY LiveWholeNext
<1>5. /\ log' \in Seq(Logged) /\ Len(log') = Cardinality(Whole') /\ Len(log') \in Nat
      /\ Len(log') <= Len(index') /\ Len(index') \in Nat
      /\ \A i \in 1 .. Len(log') : log'[i] = Stored(attempts'[i].f)
  <2>3. Logged' = Logged
    BY DEF Logged, Frame, StreamIds, Stored, FrameData, Data
  <2>4. /\ log' \in Seq(Logged') /\ Len(log') = Cardinality(Whole') /\ Len(log') \in Nat
        /\ \A i \in 1 .. Len(log') : log'[i] = Stored(attempts'[i].f)
    BY LogIsNext DEF Stored, FrameData, Data
  <2>5. Cardinality(Whole') \in 0 .. Len(index') /\ Len(index') \in Nat
    BY WholeIsNext
  <2> QED
    BY <2>3, <2>4, <2>5
<1>6. /\ log \in Seq(Logged) /\ Len(log) = Len(index)
      /\ \A i \in 1 .. Len(log) : log[i] = Stored(attempts[i].f)
  <2> DEFINE n == Len(index)
  <2>1. n \in Nat
    BY <1>1
  <2> HIDE DEF n
  <2>2. Cardinality(1 .. n) = n
    BY <2>1, FS_Interval
  <2>3. /\ log \in Seq(Logged) /\ Len(log) = Cardinality(Whole)
        /\ \A i \in 1 .. Len(log) : log[i] = Stored(attempts[i].f)
    BY <1>1, LogIs
  <2> QED
    BY <1>3, <2>2, <2>3 DEF n
<1>7. ASSUME Live', SameEntries PROVE Abstractly
  <2>1. Len(index') = Len(index) /\ attempts' = attempts /\ Whole' = Whole
    BY <1>3, <1>4, <1>7 DEF SameEntries
  <2>2. Len(log') = Len(log)
    BY <1>1, <1>5, <1>6, <2>1, LogIs
  <2>3. log' = log
    BY <1>5, <1>6, <2>1, <2>2, SeqEqual
  <2>4. killed' = killed
    BY <1>7 DEF killed, Live
  <2> QED
    BY <1>2, <1>7, <2>3, <2>4 DEF Abstractly, Store!svars
<1>8. ASSUME Writes PROVE Abstractly
  <2>1. PICK f \in NewFrames :
           /\ wst' = "open" /\ f.n \in 1 .. MaxFrames
           /\ index' = Append(index, IndexEntry(f, Len(file)))
           /\ attempts' = Append(attempts, [f |-> f, ok |-> TRUE])
    BY <1>8 DEF Writes
  <2> DEFINE n == Len(index)
  <2>2. /\ index \in Seq(EntryCell) /\ n \in Nat /\ Len(attempts) = n
        /\ attempts \in Seq([f: Frame, ok: BOOLEAN])
    BY <1>1 DEF WTypeOK
  <2>3. f \in Frame
    <3>1. n + 1 \in Nat \ {0}
      BY <2>2
    <3> QED
      BY <3>1 DEF NewFrames, Frame
  <2>4. Stored(f) \in Payloads
    <3>1. f \in [sid: StreamIds, ftype: FrameTypes, pts: Pts,
                 size: Sizes, n: 1 .. MaxFrames]
      BY <2>1 DEF NewFrames
    <3> QED
      BY <3>1 DEF Payloads
  <2>5. IndexEntry(f, Len(file)) \in EntryCell
    BY <1>1, <2>3 DEF IndexEntry, EntryCell, Frame
  <2>6. Len(index') = n + 1
    BY <2>1, <2>2, <2>5
  <2>7. /\ attempts'[n + 1].f = f
        /\ \A i \in 1 .. n : attempts'[i] = attempts[i]
    <3>1. [f |-> f, ok |-> TRUE] \in [f: Frame, ok: BOOLEAN] /\ [f |-> f, ok |-> TRUE].f = f
      BY <2>3
    <3> QED
      BY <2>1, <2>2, <3>1
  <2> HIDE DEF n
  <2>8. Live' /\ killed' = killed
    BY <2>1 DEF Live, killed
  <2>9. Len(log') = n + 1
    <3>1. Whole' = 1 .. n + 1
      BY <1>4, <2>6, <2>8
    <3>2. Cardinality(1 .. n + 1) = n + 1
      BY <2>2, FS_Interval
    <3> QED
      BY <1>5, <3>1, <3>2
  <2> DEFINE x == Stored(f)
             a == Append(log, x)
  <2>10. x \in Logged
    BY <2>3 DEF Logged
  <2> HIDE DEF x
  <2>11. /\ a \in Seq(Logged) /\ Len(a) = n + 1 /\ a[n + 1] = x
         /\ \A i \in 1 .. n : a[i] = log[i]
    BY <1>6, <2>2, <2>10 DEF n
  <2> HIDE DEF a
  <2>12. ASSUME NEW i \in 1 .. n + 1 PROVE log'[i] = a[i]
    <3>1. log'[i] = Stored(attempts'[i].f)
      BY <1>5, <2>9
    <3>2. CASE i = n + 1
      BY <2>7, <2>11, <3>1, <3>2 DEF x
    <3>3. CASE i \in 1 .. n
      BY <1>6, <2>7, <2>11, <3>1, <3>3 DEF n
    <3> QED
      BY <2>2, <3>2, <3>3
  <2>13. log' = a
    BY <1>5, <2>9, <2>11, <2>12, SeqEqual
  <2>14. Store!AppendFrame
    BY <1>2, <2>4, <2>8, <2>13 DEF Store!AppendFrame, a, x
  <2> QED
    BY <2>14 DEF Abstractly, Store!SNext
<1>9. ASSUME Closes PROVE Abstractly
  <2>1. wst' = "closed" /\ index' = index /\ attempts' = attempts
    BY <1>9 DEF Closes, Fclose
  <2>2. Len(file') = Len(file)
    BY <1>9, FcloseShape DEF Closes
  <2>3. Whole' = Whole
    BY <2>1, <2>2 DEF Whole, FrameEnd
  <2>4. log' = log
    BY <2>1, <2>3 DEF log
  <2>5. ~ Live' /\ killed' = killed
    BY <2>1 DEF Live, killed
  <2>6. Store!Seal
    BY <1>2, <2>4, <2>5 DEF Store!Seal
  <2> QED
    BY <2>6 DEF Abstractly, Store!SNext
<1>10. ASSUME Dies PROVE Abstractly
  <2>1. KillAfter # {} /\ wst' = "crashed" /\ index' = index /\ attempts' = attempts
    BY <1>10 DEF Dies, Crash
  <2>2. ~ Live' /\ killed' = TRUE
    BY <2>1 DEF Live, killed
  <2> DEFINE w == Len(log')
             p == SubSeq(log, 1, w)
  <2>3. w \in Nat /\ w <= Len(log) /\ Len(log) \in Nat
    BY <1>1, <1>5, <1>6, <2>1
  <2> HIDE DEF w
  <2>4. ASSUME NEW i \in 1 .. w PROVE log[i] \in Logged /\ log'[i] = log[i]
    <3>1. i \in 1 .. Len(log)
      BY <2>3
    <3> QED
      BY <1>5, <1>6, <2>1, <3>1, ElementOfSeq DEF w
  <2>5. p \in Seq(Logged) /\ Len(p) = w /\ \A i \in 1 .. w : p[i] = log[i]
    <3>1. 1 \in Int /\ w \in Int /\ w - 1 + 1 = w /\ (1 <= w \/ w = 0)
          /\ \A i \in 1 .. w : 1 + i - 1 = i
      BY <2>3
    <3> HIDE DEF p
    <3>2. /\ p \in Seq(Logged) /\ Len(p) = IF 1 <= w THEN w - 1 + 1 ELSE 0
          /\ \A i \in 1 .. w - 1 + 1 : p[i] = log[1 + i - 1]
      BY <2>4, <3>1, SubSeqProperties DEF p
    <3> QED
      BY <3>1, <3>2
  <2> HIDE DEF p
  <2>6. log' = p
    BY <1>5, <2>4, <2>5, SeqEqual DEF w
  <2>7. w \in 0 .. Len(log)
    BY <2>3
  <2>8. Store!LoseTail
    BY <1>2, <2>1, <2>2, <2>6, <2>7 DEF Store!LoseTail, p
  <2> QED
    BY <2>8 DEF Abstractly, Store!SNext
<1>11. Opens \/ Streams \/ Indexes \/ Heads => Live' /\ SameEntries
  BY DEF Opens, Streams, Indexes, Heads, Live
<1>12. Opens \/ Streams \/ Writes \/ Indexes \/ Heads \/ Closes \/ Dies
  BY <1>1, FaultlessSteps
<1> QED
  BY <1>7, <1>8, <1>9, <1>10, <1>11, <1>12

(* The first state is an empty log.                                        *)
LEMMA StoreInit == Init => LInv /\ Store!SInit
<1> SUFFICES ASSUME Init PROVE LInv /\ Store!SInit
  OBVIOUS
<1>1. /\ WInit /\ image = file /\ file = <<>> /\ index = <<>> /\ Len(index) = 0
      /\ wst = "unopened" /\ rst = "unopened" /\ rpos = 0 /\ got = NoFrame
      /\ sought = NoFrame
  BY DEF Init, WInit, Reader!RInit
<1>2. Match
  BY <1>1 DEF Match
<1>3. Layout(0) /\ RPos(0) /\ 0 \in Nat
  BY <1>1, LayoutInit DEF RPos, Reader!Seekable
<1>4. LInv
  BY <1>1, <1>2, <1>3 DEF LInv, Finishes
<1>5. WTypeOK
  BY <1>1, WInitTypes
<1>6. log = <<>>
  <2>1. Cardinality(Whole) \in 0 .. 0
    BY <1>1, <1>3, <1>5, WholeIs
  <2>2. log \in Seq(Logged) /\ Len(log) = 0
    BY <1>3, <1>5, <2>1, LogIs
  <2> QED
    BY <2>2, EmptySeq
<1>7. phase = "writing" /\ cursor = 1 /\ out = NoFrame /\ killed = FALSE
  BY <1>1 DEF phase, cursor, out, Finished, killed
<1> QED
  BY <1>1, <1>4, <1>6, <1>7 DEF Store!SInit

\* While nothing went wrong, the file is laid out as it should be.
DInv == Undisturbed => LInv

(* Every step after which nothing went wrong is one of the abstract store, *)
(* or none.                                                                *)
LEMMA StoreStep ==
    ASSUME NoFrameIsNone, CInv, CInv', DInv, [Next]_vars, Undisturbed'
    PROVE  LInv' /\ Abstractly
<1>1. faults' = 0 /\ damaged' = "no" /\ WInv /\ WInv' /\ WTypeOK /\ WTypeOK' /\ HeaderFirst'
  BY DEF CInv, WInv, Undisturbed
<1>2. [WNext]_wvars
  BY DEF Next, Record, Play, CutFile, AlterCell, Damage, vars
<1>3. CASE Record
  <2>1. WNext /\ image' = file' /\ UNCHANGED rvars /\ damaged' = damaged
    BY <1>3 DEF Record
  <2>2. LInv
    BY <1>1, <2>1, FaultlessSteps DEF DInv, Undisturbed
  <2>3. PICK s \in Nat : Layout(s) /\ RPos(s)
    BY <2>2 DEF LInv
  <2>4. Live
    BY <1>1, <2>1, StepShape
  <2>5. rst = "unopened"
    BY <2>4 DEF CInv, NotYet
  <2>6. PICK t \in Nat : Layout(t)'
    BY <1>1, <2>1, <2>3, LayoutStep
  <2>7. RPos(t)'
    BY <2>1, <2>3, <2>5 DEF RPos, rvars, Reader!Seekable
  <2>8. Abstractly
    BY <1>1, <2>1, <2>3, <2>4, <2>5, <2>6, RecordAbstractly
  <2>9. Match' /\ Finishes'
    BY <1>1, <1>2, <2>1, <2>2, MatchKept, FinishesKept DEF LInv
  <2> QED
    BY <2>6, <2>7, <2>8, <2>9 DEF LInv
<1>4. CASE Play
  <2>1. UNCHANGED <<wvars, damaged>> /\ faults' = faults
    BY <1>4 DEF Play, wvars
  <2>2. LInv
    BY <1>1, <2>1 DEF DInv, Undisturbed
  <2>3. PICK s \in Nat : Layout(s) /\ RPos(s)
    BY <2>2 DEF LInv
  <2>4. RPos(s)' /\ Abstractly
    BY <1>4, <2>2, <2>3, PlayKeeps DEF LInv
  <2>5. Layout(s)' /\ Match' /\ Finishes'
    BY <1>1, <1>2, <2>1, <2>2, <2>3, LayoutStep, MatchKept, FinishesKept DEF LInv
  <2> QED
    BY <2>4, <2>5 DEF LInv
<1>5. CASE UNCHANGED vars
  <2>1. UNCHANGED wvars /\ UNCHANGED rvars /\ image' = image /\ damaged' = damaged
        /\ faults' = faults
    BY <1>5 DEF vars, wvars, rvars
  <2>2. LInv
    BY <1>1, <2>1 DEF DInv, Undisturbed
  <2>3. PICK s \in Nat : Layout(s) /\ RPos(s)
    BY <2>2 DEF LInv
  <2>4. Layout(s)' /\ Match' /\ Finishes'
    BY <1>1, <1>2, <2>1, <2>2, <2>3, LayoutStep, MatchKept, FinishesKept DEF LInv
  <2>5. RPos(s)'
    BY <2>1, <2>3 DEF RPos, wvars, rvars, StartOf, FrameEnd, Reader!Seekable
  <2>6. UNCHANGED Store!svars
    <3>1. Whole' = Whole /\ Passed' = Passed
      BY <2>1 DEF wvars, rvars, Whole, Passed, FrameEnd
    <3>2. log' = log
      BY <2>1, <3>1 DEF wvars, log
    <3>3. phase' = phase /\ out' = out /\ killed' = killed /\ sought' = sought
      BY <2>1 DEF wvars, rvars, phase, Finished, out, killed
    <3>4. cursor' = cursor
      BY <3>1, <3>3 DEF cursor
    <3> QED
      BY <3>2, <3>3, <3>4 DEF Store!svars
  <2> QED
    BY <2>4, <2>5, <2>6 DEF LInv, Abstractly
<1>6. /\ ~ \E m \in 0 .. Len(file) : CutFile(m)
      /\ ~ \E i \in 1 .. Len(file) : AlterCell(i)
  BY <1>1 DEF CutFile, AlterCell, Damage
<1> QED
  BY <1>3, <1>4, <1>5, <1>6 DEF Next

(* As long as the recorder met no fault, whether it was killed or not, and *)
(* nobody damaged the file, what is recorded is what is played, with every *)
(* failing allocation and every order of calls of the reader: container.c  *)
(* implements FrameStore.                                                  *)
THEOREM Implements ==
    ASSUME NoFrameIsNone
    PROVE  Spec => PlaysWhatWasRecorded
<1> DEFINE Shown == Undisturbed' => Store!SNext \/ UNCHANGED Store!svars
<1>1. Init => DInv /\ Store!SInit
  BY StoreInit DEF DInv
<1>2. CInv /\ CInv' /\ DInv /\ [Next]_vars => DInv' /\ Shown
  BY StoreStep DEF DInv, Abstractly
<1> HIDE DEF Shown
<1>3. CInv /\ CInv' /\ DInv /\ [Next]_vars => DInv' /\ [Shown]_vars
  BY <1>2
<1>4. Spec => Store!SInit /\ [][Shown]_vars
  BY <1>1, <1>3, FileInvariant, PTL DEF Spec
<1> QED
  BY <1>4 DEF PlaysWhatWasRecorded, Shown
=============================================================================
