-------------------------------- MODULE Player --------------------------------
(***************************************************************************)
(* player_run in player.c: poll the events, read one frame, decode it,     *)
(* wait for its time, show it; samples go to the audio ring, which the     *)
(* device thread empties.  At the end the player sleeps for as long as the *)
(* samples left in the ring last.                                          *)
(*                                                                         *)
(* A file is a sequence of records: video at a pts, audio of n bytes, or a *)
(* frame that cannot be read.  pts are in microseconds; one tick of the    *)
(* clock is a millisecond, Milli of them.                                  *)
(***************************************************************************)
EXTENDS AudioRing

CONSTANTS
    Files,          \* the recordings to play (bound)
    Milli,          \* microseconds of a millisecond: 1000
    LongWait,       \* 10000000: a longer wait is not waited for
    BytesPerMilli,  \* bytes the device plays in a millisecond
    Period,         \* milliseconds between two requests of a steady device
    MaxClock        \* bound: ticks besides those slept through

Records == [kind : {"video"}, pts : Int] \cup [kind : {"audio"}, n : Nat]
              \cup [kind : {"unreadable"}]

ASSUME PlayerAssumption ==
    /\ Files \subseteq Seq(Records)
    /\ Milli \in Nat \ {0} /\ LongWait \in Nat /\ BytesPerMilli \in Nat \ {0}
    /\ Period \in Nat \ {0} /\ MaxClock \in Nat

VARIABLES
    file,           \* what crap_read_frame has not read yet
    adev,           \* "none": it did not open; "steady": it asks for samples
                    \*   at its rate; "jittery": at any time, for any number
    pc,             \* "poll", "read", "time", "show", "drain", "close", "done"
    running,        \* cleared by ESC or a closed window
    clock,          \* SDL_GetTicks64
    start,          \* start_pts and start_wall
    pts,            \* fh.pts of the frame at hand
    wake,           \* when SDL_Delay returns
    shown,          \* history: the last frame rendered: its pts, its due time
                    \*   and when it appeared, in microseconds
    afterQuit       \* history: frames shown after running was cleared

pvars == <<file, adev, pc, running, clock, start, pts, wake, shown, afterQuit>>
allvars == <<vars, pvars>>

NoStart == [pts |-> -1, wall |-> 0]

PInit ==
    /\ Init
    /\ file \in Files /\ adev \in {"none", "steady", "jittery"}
    /\ pc = "poll" /\ running = TRUE /\ clock = 0 /\ start = NoStart
    /\ pts = 0 /\ wake = 0 /\ shown = [pts |-> -1, due |-> 0, at |-> 0]
    /\ afterQuit = 0

\* SDL_PollEvent until the queue is empty; the user may ask to quit.
Poll ==
    /\ pc = "poll"
    /\ IF running THEN pc' = "read" /\ running' \in BOOLEAN
                  ELSE pc' = "drain" /\ UNCHANGED running
    /\ UNCHANGED <<vars, file, adev, clock, start, pts, wake, shown, afterQuit>>

\* What crap_read_frame finds; the end of the file cannot be read either.
Upcoming == IF file = <<>> THEN "end" ELSE Head(file).kind

\* The first frame starts the clock; so does each frame until one has a pts
\* that is not negative.
ReadVideo ==
    /\ pc = "read" /\ Upcoming = "video"
    /\ file' = Tail(file) /\ pts' = Head(file).pts /\ pc' = "time"
    /\ start' = IF start.pts < 0 THEN [pts |-> pts', wall |-> clock * Milli]
                                 ELSE start
    /\ UNCHANGED <<vars, adev, running, clock, wake, shown, afterQuit>>

\* Samples are pushed if there is a device to play them.
ReadAudio ==
    /\ pc = "read" /\ Upcoming = "audio"
    /\ file' = Tail(file) /\ pc' = "poll"
    /\ IF adev # "none" THEN Push(Head(file).n) ELSE UNCHANGED vars
    /\ UNCHANGED <<adev, running, clock, start, pts, wake, shown, afterQuit>>

\* Mutant: the loop goes on after a frame that cannot be read.
ReadEndsRetries ==
    /\ pc = "read" /\ Upcoming \in {"end", "unreadable"}
    /\ pc' = IF Upcoming = "end" THEN "drain" ELSE "poll"
    /\ UNCHANGED <<vars, file, adev, running, clock, start, pts, wake, shown, afterQuit>>

\* The end of the file, or a frame that cannot be read, ends the loop.
ReadEnds ==
    /\ pc = "read" /\ Upcoming \in {"end", "unreadable"}
    /\ pc' = "drain"
    /\ UNCHANGED <<vars, file, adev, running, clock, start, pts, wake, shown, afterQuit>>

Due == start.wall + pts - start.pts

\* Mutant: the pts itself is taken for the time to wait until.
TimeFromZero ==
    LET wait == pts - clock * Milli
    IN  /\ pc = "time" /\ pc' = "show"
        /\ wake' = IF wait > Milli /\ wait < LongWait THEN clock + wait \div Milli
                                                      ELSE clock
        /\ UNCHANGED <<vars, file, adev, running, clock, start, pts, shown, afterQuit>>

\* After decoding: how long until the frame is due.
Time ==
    LET wait == Due - clock * Milli
    IN  /\ pc = "time" /\ pc' = "show"
        /\ wake' = IF wait > Milli /\ wait < LongWait THEN clock + wait \div Milli
                                                      ELSE clock
        /\ UNCHANGED <<vars, file, adev, running, clock, start, pts, shown, afterQuit>>

\* Mutant: the loop goes on reading without looking at the events.
ShowAndRead ==
    /\ pc = "show" /\ clock >= wake /\ pc' = "read"
    /\ shown' = [pts |-> pts, due |-> Due, at |-> clock * Milli]
    /\ afterQuit' = IF running THEN afterQuit ELSE afterQuit + 1
    /\ UNCHANGED <<vars, file, adev, running, clock, start, pts, wake>>

Show ==
    /\ pc = "show" /\ clock >= wake /\ pc' = "poll"
    /\ shown' = [pts |-> pts, due |-> Due, at |-> clock * Milli]
    /\ afterQuit' = IF running THEN afterQuit ELSE afterQuit + 1
    /\ UNCHANGED <<vars, file, adev, running, clock, start, pts, wake>>

\* Mutant: the device is closed at once.
DrainNothing ==
    /\ pc = "drain" /\ pc' = "close"
    /\ wake' = clock
    /\ UNCHANGED <<vars, file, adev, running, clock, start, pts, shown, afterQuit>>

\* Wait for the rest of the ring (rem_ms stays below the limit of 5000: the
\* ring holds four seconds).
Drain ==
    /\ pc = "drain" /\ pc' = "close"
    /\ wake' = IF adev # "none" THEN clock + Avail \div BytesPerMilli ELSE clock
    /\ UNCHANGED <<vars, file, adev, running, clock, start, pts, shown, afterQuit>>

Close ==
    /\ pc = "close" /\ clock >= wake /\ pc' = "done"
    /\ UNCHANGED <<vars, file, adev, running, clock, start, pts, wake, shown, afterQuit>>

PlayerStep == \/ Poll \/ ReadVideo \/ ReadAudio \/ ReadEnds
              \/ Time \/ Show \/ Drain \/ Close
-----------------------------------------------------------------------------
Open == pc # "done"

\* Time passes; a steady device asks for a period of samples at a time.
Tick ==
    /\ Open /\ (clock < MaxClock \/ clock < wake)
    /\ clock' = clock + 1
    /\ IF adev = "steady" /\ clock' % Period = 0
       THEN Pull(Period * BytesPerMilli) ELSE UNCHANGED vars
    /\ UNCHANGED <<file, adev, pc, running, start, pts, wake, shown, afterQuit>>

Callback ==
    /\ Open /\ adev = "jittery" /\ \E len \in 1 .. MaxPull : Pull(len)
    /\ UNCHANGED pvars

PNext == PlayerStep \/ Tick \/ Callback

PSpec == PInit /\ [][PNext]_allvars
(* The player's thread runs and time passes; nothing is asked of the       *)
(* device or of the user.                                                  *)
FairPSpec == PSpec /\ WF_allvars(PlayerStep) /\ WF_allvars(Tick)

-----------------------------------------------------------------------------
(* A frame appears at most a millisecond before its time, however long it  *)
(* took to decode, unless it is due LongWait or more after the frame       *)
(* before it appeared: such a wait is not waited for.                      *)
NotBeforeItsTime ==
    [][shown' # shown => \/ shown'.at >= shown'.due - Milli
                         \/ shown'.due - shown.at >= LongWait]_allvars

(* Once the user has asked to quit, the frame at hand is still read and    *)
(* shown, and no other.                                                    *)
QuitShowsOneFrameAtMost == afterQuit <= 1

(* The final sleep lets the sound end: when the device is closed, less     *)
(* than one of its requests has never been played, of all bytes pushed.    *)
(* The exception is a reader that got a whole ring or more ahead of the    *)
(* device: the ring cannot tell whole laps from none, so the player sleeps *)
(* for the rest of the last lap only (a ring that is exactly full counts   *)
(* as empty), and the laps before it are never heard.                      *)
SoundIsPlayedOut ==
    pc = "done" /\ adev = "steady" =>
        Unheard < Period * BytesPerMilli \/ Unheard >= Cap

(* Every playback ends by itself, with or without a damaged frame, a       *)
(* device or a user.                                                       *)
PlayerEnds == <>(pc = "done")
=============================================================================
