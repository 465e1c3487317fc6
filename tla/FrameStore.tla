------------------------------ MODULE FrameStore ------------------------------
(***************************************************************************)
(* What a .crap file promises its users: a log of frames that a recorder   *)
(* appends to, that survives a killed recorder up to some prefix, and that *)
(* a player then opens and walks through in order, looking at each frame   *)
(* before it takes or skips it, or jumps to the keyframe of a stream that  *)
(* precedes a given time.  Every call that refuses says why.               *)
(***************************************************************************)
EXTENDS Integers, Sequences

CONSTANTS
    Payload,          \* what a frame is: [sid, ftype, pts, ...] and its data
    Streams, Times,   \* what a player may ask a seek for
    Rooms,            \* the buffers a player may take a frame with
    MayLoseTail,      \* whether the recorder may be killed
    Nothing           \* nothing was delivered, or asked for

VARIABLES
    phase,            \* "writing"; "sealed", "failed" or "nomemory" (to open);
                      \*   "reading", "looking" (at the next frame); "ended",
                      \*   "toolarge", "starved", "lost"
    log,              \* the frames of the file
    killed,           \* whether its recorder was
    cursor,           \* the next frame of the player
    out,              \* the last frame delivered
    asked             \* what the last call was asked, if it was a seek

svars == <<phase, log, killed, cursor, out, asked>>

SInit ==
    /\ phase = "writing" /\ log = <<>> /\ killed = FALSE
    /\ cursor = 1 /\ out = Nothing /\ asked = Nothing

-----------------------------------------------------------------------------
(* The recorder. *)

AppendFrame ==
    /\ phase = "writing"
    /\ \E f \in Payload : log' = Append(log, f)
    /\ UNCHANGED <<phase, killed, cursor, out, asked>>

Seal ==
    /\ phase = "writing" /\ phase' = "sealed"
    /\ UNCHANGED <<log, killed, cursor, out, asked>>

LoseTail ==
    /\ MayLoseTail /\ phase = "writing" /\ phase' = "sealed"
    /\ killed' = TRUE
    /\ \E n \in 0 .. Len(log) : log' = SubSeq(log, 1, n)
    /\ UNCHANGED <<cursor, out, asked>>

-----------------------------------------------------------------------------
(* The player opens and closes the file. *)

Shut == {"sealed", "failed", "nomemory"}
Open == {"reading", "looking", "ended", "toolarge", "starved", "lost"}

StartReading ==
    /\ phase \in Shut /\ phase' = "reading"
    /\ cursor' = 1 /\ UNCHANGED <<log, killed, out, asked>>

\* Only a recorder killed before its first frame leaves a file that does not
\* open.
OpenRefused ==
    /\ phase \in Shut /\ phase' = "failed"
    /\ killed /\ log = <<>>
    /\ UNCHANGED <<log, killed, cursor, out, asked>>

OpenStarved ==
    /\ phase \in Shut /\ phase' = "nomemory"
    /\ UNCHANGED <<log, killed, cursor, out, asked>>

StopReading ==
    /\ phase \in Open /\ phase' = "sealed"
    /\ cursor' = 1 /\ out' = Nothing /\ asked' = Nothing
    /\ UNCHANGED <<log, killed>>

-----------------------------------------------------------------------------
(* The player walks on. *)

AtEnd == cursor = Len(log) + 1

\* Behind the log there may be the start of a frame that a killed recorder
\* did not finish.
Look ==
    /\ phase = "reading" /\ phase' = "looking"
    /\ AtEnd => killed
    /\ asked' = Nothing /\ UNCHANGED <<log, killed, cursor, out>>

Deliver ==
    /\ phase = "looking" /\ phase' = "reading"
    /\ ~AtEnd /\ \E room \in Rooms : Len(log[cursor].data) <= room
    /\ out' = log[cursor] /\ cursor' = cursor + 1
    /\ asked' = Nothing /\ UNCHANGED <<log, killed>>

Skip ==
    /\ phase = "looking" /\ phase' = "reading"
    /\ cursor' = IF AtEnd THEN cursor ELSE cursor + 1
    /\ asked' = Nothing /\ UNCHANGED <<log, killed, out>>

\* From here on the place is no longer kept: cursor is 1 until a seek.
Leaves(p) ==
    /\ phase' = p /\ cursor' = 1
    /\ asked' = Nothing /\ UNCHANGED <<log, killed, out>>

End      == phase \in {"reading", "looking"} /\ AtEnd /\ Leaves("ended")
EndAgain == phase = "ended" /\ Leaves("ended")
Refuse   == /\ phase = "looking" /\ Leaves("toolarge")
            /\ AtEnd \/ \E room \in Rooms : Len(log[cursor].data) > room
Starve   == phase = "looking" /\ Leaves("starved")

\* The player looked again before it was done with a frame, or after one it
\* could not take: it gets anything, until it seeks.
GetLost ==
    /\ phase \in Open \ {"reading"} /\ phase' = "lost"
    /\ cursor' = 1 /\ out' = Nothing /\ asked' = Nothing
    /\ UNCHANGED <<log, killed>>

-----------------------------------------------------------------------------
(* The player jumps. *)

Before(sid, pts) ==
    {i \in 1 .. Len(log) : log[i].sid = sid /\ log[i].ftype = "I"
                           /\ log[i].pts <= pts}

Asks(sid, pts, found) == asked' = [sid |-> sid, pts |-> pts, found |-> found]

\* To the earliest of the latest keyframes of that stream not after that time.
Seek(sid, pts) ==
    /\ phase \in Open /\ phase' = "reading" /\ Asks(sid, pts, TRUE)
    /\ cursor' \in Before(sid, pts)
    /\ \A j \in Before(sid, pts) : \/ log[j].pts < log[cursor'].pts
                                   \/ log[j].pts = log[cursor'].pts /\ cursor' <= j
    /\ UNCHANGED <<log, killed, out>>

\* There is none, or there is no index since the recorder was killed.
SeekRefused(sid, pts) ==
    /\ phase \in Open /\ Asks(sid, pts, FALSE)
    /\ killed \/ Before(sid, pts) = {}
    /\ UNCHANGED <<phase, log, killed, cursor, out>>

SNext ==
    \/ AppendFrame \/ Seal \/ LoseTail
    \/ StartReading \/ OpenRefused \/ OpenStarved \/ StopReading
    \/ Look \/ Deliver \/ Skip
    \/ End \/ EndAgain \/ Refuse \/ Starve \/ GetLost
    \/ \E sid \in Streams, pts \in Times : Seek(sid, pts) \/ SeekRefused(sid, pts)

SSpec == SInit /\ [][SNext]_svars
=============================================================================
