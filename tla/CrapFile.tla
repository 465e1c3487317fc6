------------------------------- MODULE CrapFile -------------------------------
(***************************************************************************)
(* The life of one .crap file: ContainerWriter records it, is closed or    *)
(* killed, and ContainerReader then plays what is on the disk.  In between *)
(* the file may be damaged by the outside (cut short while being copied,   *)
(* or a stored value altered).  The whole implements FrameStore.           *)
(***************************************************************************)
EXTENDS ContainerWriter, FiniteSets

CONSTANTS
    Buffers,      \* the buffers the reader's callers come with, in cells
    NoFrame,      \* nothing delivered or peeked yet
    MayDamage     \* whether the finished file may be damaged

VARIABLES
    image,        \* the file as the reader finds it
    damaged,      \* what became of it before that: "no", "cut" or "altered"
    rst, rpos, loaded, rstreams, rcount, pend, got, sought, rret

Reader == INSTANCE ContainerReader

rvars == <<rst, rpos, loaded, rstreams, rcount, pend, got, sought, rret>>
vars  == <<wvars, rvars, image, damaged>>

Finished == wst \in {"closed", "crashed"}

Init == WInit /\ Reader!RInit /\ image = file /\ damaged = "no"

Record == WNext /\ image' = file' /\ UNCHANGED <<rvars, damaged>>
Play   == Finished /\ Reader!RNext /\ UNCHANGED <<wvars, image, damaged>>

-----------------------------------------------------------------------------
(* Damage from outside, before the first reader opens the file.            *)

Altered(c) == CASE c.k = "data"  -> [c EXCEPT !.n = 0]
                [] c.k = "fh"    -> [c EXCEPT !.pts = 0]
                [] c.k = "entry" -> [c EXCEPT !.off = 1]
                [] c.k = "sinf"  -> [c EXCEPT !.type = "none"]

Damage(cells, how) ==
    /\ MayDamage /\ damaged = "no" /\ rst = "unopened"
    /\ wst = "closed" /\ faults = 0 \* bound: only a file recorded without a fault
    /\ image' = cells /\ damaged' = how
    /\ UNCHANGED <<wvars, rvars>>

CutFile(m) == m < Len(file) /\ Damage(SubSeq(file, 1, m), "cut")
AlterCell(i) ==
    /\ file[i].k \in {"data", "fh", "entry", "sinf"}
    /\ Altered(file[i]) # file[i]
    /\ Damage([file EXCEPT ![i] = Altered(@)], "altered")

Next == \/ Record \/ Play
        \/ \E m \in 0 .. Len(file) : CutFile(m)
        \/ \E i \in 1 .. Len(file) : AlterCell(i)

Spec == Init /\ [][Next]_vars

-----------------------------------------------------------------------------
(* The refinement mapping onto FrameStore: the log is the written frames   *)
(* whose chunk lies wholly in the file, the cursor is the first of them    *)
(* that the reader has not got past.                                       *)

FrameEnd(i)  == index[i].off + attempts[i].f.size + 3
Stored(f)    == [sid |-> f.sid, ftype |-> f.ftype, pts |-> f.pts,
                 data |-> FrameData(f)]
Whole        == {i \in 1 .. Len(index) : attempts[i].ok /\ FrameEnd(i) <= Len(file)}
Passed       == {i \in Whole : FrameEnd(i) <= rpos}

phase  == CASE ~Finished -> "writing"
            [] Finished /\ rst = "unopened" -> "sealed"
            [] Finished /\ rst = "failed" ->
                   IF rret = "oom" THEN "nomemory" ELSE "failed"
            [] Finished /\ rst = "ready"  -> "reading"
            [] Finished /\ rst = "peeked" -> "looking"
            [] OTHER -> rst
log    == [i \in 1 .. Cardinality(Whole) |-> Stored(attempts[i].f)]
killed == wst = "crashed"
cursor == IF phase \in {"reading", "looking"} THEN Cardinality(Passed) + 1 ELSE 1
out    == IF got = NoFrame THEN NoFrame
          ELSE [sid |-> got.fh.sid, ftype |-> got.fh.ftype,
                pts |-> got.fh.pts, data |-> got.body]

Payloads == {Stored(f) : f \in [sid: StreamIds, ftype: FrameTypes, pts: Pts,
                                size: Sizes, n: 1 .. MaxFrames]}

Store == INSTANCE FrameStore WITH
            Payload <- Payloads, Streams <- StreamIds, Times <- Pts,
            Rooms <- Buffers, MayLoseTail <- KillAfter # {},
            Nothing <- NoFrame, asked <- sought

\* Nothing went wrong yet, in the recorder or outside.
Undisturbed == faults = 0 /\ damaged = "no"

(* What is recorded is what is played, for as long as the recorder met no  *)
(* fault and nobody damaged the file: it opens, unless the recorder was    *)
(* killed before its first frame; the frames come out as they were         *)
(* written, in order, each at most once between seeks, and the end is      *)
(* reported at the end only; a frame is refused for its size only if it    *)
(* is larger than the buffer; a seek lands on the keyframe the stream and  *)
(* the time it was called with ask for, from wherever the reader was left, *)
(* and is refused only if there is none or the recorder was killed; and    *)
(* killing the recorder loses at most a tail.                              *)
PlaysWhatWasRecorded ==
    Store!SInit /\ [][Undisturbed' => Store!SNext \/ UNCHANGED Store!svars]_vars

-----------------------------------------------------------------------------
(* After a seek through the entry of a frame that was written without      *)
(* error, the next thing the reader finds is that frame, whatever failed   *)
(* while the file was recorded and wherever the reader had lost its place. *)
SeekReachesTheFrame ==
    [][\A sid \in StreamIds, pts \in Pts :
          Reader!SeekPts(sid, pts) /\ damaged # "altered" =>
             LET i == Reader!BestEntry(loaded, sid, pts)
             IN  attempts[i].ok => HoldsAt(image, rpos', FrameChunk(attempts[i].f))
      ]_vars

(* An index that crap_open_read accepted is the one that was recorded, and *)
(* so are the streams it announces, even if the file was damaged since.    *)
OpenedIndexIsGenuine ==
    Reader!Seekable => /\ loaded \in {<<>>, index}
                       /\ \A s \in StreamIds : rstreams[s] \in {"none", streams[s]}
=============================================================================
