------------------------------- MODULE CrapprApp -------------------------------
(***************************************************************************)
(* The window of crappr: CrapprWindowController drives the playback engine *)
(* and CrapprCaptureSession from the main thread.  A handler runs on that  *)
(* thread without interruption, except that stopPlayback and stopRecording *)
(* make it wait for another queue; startRecordingPath does its work on a   *)
(* global queue and reports back through the main queue.  Buttons are the  *)
(* only protection against overlapping requests, and the table's double    *)
(* click has none.                                                         *)
(***************************************************************************)
EXTENDS CrapprPlayback

CONSTANTS
    MaxStarts,        \* bound: recordings the user asks for
    Clips             \* recordings that are there from the beginning

ASSUME StartsAssumption == MaxStarts \in Nat /\ Clips \cap (1 .. MaxStarts) = {}

VARIABLES
    main,             \* what the main thread waits for, and what comes then
    ui,               \* which buttons are enabled
    records,          \* _records: the clips the table shows
    disk,             \* the .crap files there are
    starts,           \* the progress of each startRecordingPath
    running,          \* _running
    encoder,          \* the recording _encoder was opened for, with success (0: none)
    unfinished,       \* history: files opened and not closed
    overlapped        \* history: a recording was asked for during another

files   == <<records, disk>>
capture == <<starts, running, encoder, unfinished, overlapped>>
avars   == <<main, ui, files, capture>>
vars    == <<pvars, mainq, avars>>

Starts == 1 .. MaxStarts
Idle   == [wait |-> "nothing"]

Init ==
    /\ PInit /\ mainq = <<>> /\ main = Idle
    /\ ui = [record |-> TRUE, play |-> TRUE, delete |-> TRUE]
    /\ records = Clips /\ disk = Clips
    /\ starts = [s \in Starts |-> "none"]
    /\ running = FALSE /\ encoder = 0
    /\ unfinished = {} /\ overlapped = FALSE

-----------------------------------------------------------------------------
(* startRecordingPath, on the global queue.                                *)

SStep(s, from, to) == starts[s] = from /\ starts' = [starts EXCEPT ![s] = to]

\* Access denied, no camera, or the camera cannot be opened.
StartFails(s) ==
    /\ SStep(s, "setup", "ended")
    /\ mainq' = Append(mainq, "failed")
    /\ UNCHANGED <<pvars, main, ui, files, running, encoder, unfinished, overlapped>>

\* encoder_open (and the audio stream info): _encoder is overwritten.
StartOpens(s) ==
    /\ SStep(s, "setup", "opened")
    /\ encoder' = s /\ unfinished' = unfinished \cup {s}
    /\ disk' = disk \cup {s}
    /\ UNCHANGED <<pvars, mainq, main, ui, records, running, overlapped>>

\* encoder_open fails: _encoder was cleared before, the file could not be
\* created, or was and is closed again since its header could not be written.
StartOpenFails(s) ==
    /\ SStep(s, "setup", "ended")
    /\ encoder' = 0 /\ disk' \in {disk, disk \cup {s}}
    /\ mainq' = Append(mainq, "failed")
    /\ UNCHANGED <<pvars, main, ui, records, running, unfinished, overlapped>>

\* Its stream info cannot be written: encoder_open returns the error with the
\* file open, and nobody closes it.
StartInfoFails(s) ==
    /\ SStep(s, "setup", "abandoned")
    /\ encoder' = 0 /\ unfinished' = unfinished \cup {s}
    /\ disk' = disk \cup {s}
    /\ mainq' = Append(mainq, "failed")
    /\ UNCHANGED <<pvars, main, ui, records, running, overlapped>>

\* startRunning, _startUs, _running = 1.
StartRuns(s) ==
    /\ SStep(s, "opened", "live")
    /\ running' = TRUE
    /\ UNCHANGED <<pvars, mainq, main, ui, files, encoder, unfinished, overlapped>>

StartReports(s) ==
    /\ SStep(s, "live", "ended")
    /\ mainq' = Append(mainq, "started")
    /\ UNCHANGED <<pvars, main, ui, files, running, encoder, unfinished, overlapped>>

CaptureStart(s) == \/ StartFails(s) \/ StartOpens(s) \/ StartOpenFails(s)
                   \/ StartInfoFails(s) \/ StartRuns(s) \/ StartReports(s)

-----------------------------------------------------------------------------
(* Blocks on the main queue: the completion of startRecordingPath and the  *)
(* onComplete of the playback engine.                                      *)

Dequeue(what) == /\ main = Idle /\ mainq # <<>> /\ Head(mainq) = what
                 /\ mainq' = Tail(mainq)

Started ==
    /\ Dequeue("started")
    /\ ui' = [ui EXCEPT !.record = TRUE, !.play = FALSE, !.delete = FALSE]
    /\ UNCHANGED <<pvars, main, files, capture>>

Failed ==
    /\ Dequeue("failed")
    /\ ui' = [ui EXCEPT !.record = TRUE]
    /\ UNCHANGED <<pvars, main, files, capture>>

Complete ==
    /\ Dequeue("complete")
    /\ ui' = [ui EXCEPT !.record = TRUE]
    /\ UNCHANGED <<pvars, main, files, capture>>

-----------------------------------------------------------------------------
(* The rest of each handler, once playback has been stopped (or was not    *)
(* going on), with u the state of the controls so far.                     *)

\* startPlayItem.
StartPlayItem(c, u) ==
    \/ /\ c \in disk
       /\ \E k \in Plays : Open(k)
       /\ ui' = [u EXCEPT !.record = FALSE]
       /\ UNCHANGED <<mainq, files, capture>>
    \/ /\ ui' = u
       /\ UNCHANGED <<pvars, mainq, files, capture>>

InProgress == running \/ \E s \in Starts : starts[s] \in {"setup", "opened", "live"}

BeginRecording(u) ==
    /\ \E s \in Starts :
          /\ starts[s] = "none" /\ \A r \in 1 .. s - 1 : starts[r] # "none"
          /\ starts' = [starts EXCEPT ![s] = "setup"]
    /\ overlapped' = (overlapped \/ InProgress)
    /\ ui' = [u EXCEPT !.record = FALSE]
    /\ UNCHANGED <<pvars, mainq, files, running, encoder, unfinished>>

ShowStopped(u) ==
    /\ ui' = [u EXCEPT !.record = TRUE]
    /\ UNCHANGED <<pvars, mainq, files, capture>>

\* removeItemAtPath, refreshRecords.
DeleteClip(c, u) ==
    /\ disk' = disk \ {c} /\ records' = disk'
    /\ ui' = u
    /\ UNCHANGED <<pvars, mainq, capture>>

\* What a handler has changed in the controls when stopPlayback returns.
Unlock(then) ==
    IF then.do = "delete" THEN [ui EXCEPT !.record = TRUE] ELSE ui

Continue(then, u) ==
    CASE then.do = "play"   -> StartPlayItem(then.clip, u)
      [] then.do = "record" -> BeginRecording(u)
      [] then.do = "show"   -> ShowStopped(u)
      [] then.do = "delete" -> DeleteClip(then.clip, u)

\* if ([engine isPlaying]) [engine stopPlayback]; ...
StopPlaybackThen(then) ==
    \/ /\ playing /\ Lower
       /\ main' = [wait |-> "playQ", then |-> then]
       /\ UNCHANGED <<mainq, ui, files, capture>>
    \/ ~playing /\ UNCHANGED main /\ Continue(then, ui)

\* Mutant: stopPlayback does not wait for the block.
PlaybackStoppedEarly ==
    /\ main.wait = "playQ"
    /\ main' = Idle
    /\ Continue(main.then, Unlock(main.then))

PlaybackStopped ==
    /\ main.wait = "playQ" /\ QueueEmpty
    /\ main' = Idle
    /\ Continue(main.then, Unlock(main.then))

-----------------------------------------------------------------------------
(* The user.                                                               *)

DoubleClick(c) ==
    /\ main = Idle /\ c \in records
    /\ StopPlaybackThen([do |-> "play", clip |-> c])

ClickPlay(c) ==
    /\ main = Idle /\ ui.play /\ ~playing /\ c \in records
    /\ StopPlaybackThen([do |-> "play", clip |-> c])

ClickStop ==
    /\ main = Idle /\ ui.play /\ playing
    /\ StopPlaybackThen([do |-> "show"])

ClickDelete(c) ==
    /\ main = Idle /\ ui.delete /\ c \in records
    /\ StopPlaybackThen([do |-> "delete", clip |-> c])

ClickRecord ==
    /\ main = Idle /\ ui.record /\ ~running
    /\ \E s \in Starts : starts[s] = "none"
    /\ StopPlaybackThen([do |-> "record"])

\* stopRecording: _running = 0, stopRunning, wait for the encode queue (which
\* never waits for this thread: CaptureQueue) ...
ClickStopRecording ==
    /\ main = Idle /\ ui.record /\ running
    /\ running' = FALSE /\ main' = [wait |-> "encodeQ"]
    /\ UNCHANGED <<pvars, mainq, ui, files, starts, encoder, unfinished, overlapped>>

SavedUi == [ui EXCEPT !.play = TRUE, !.delete = TRUE]

\* Mutant: the encoder is not closed.
RecordingStoppedOpen ==
    /\ main.wait = "encodeQ" /\ main' = Idle
    /\ records' = disk /\ ui' = SavedUi
    /\ UNCHANGED <<pvars, mainq, disk, capture>>

\* ... encoder_close, and the rest of onRecordToggle with refreshRecords.
RecordingStopped ==
    /\ main.wait = "encodeQ" /\ main' = Idle
    /\ unfinished' = unfinished \ {encoder} /\ encoder' = 0
    /\ records' = disk /\ ui' = SavedUi
    /\ UNCHANGED <<pvars, mainq, disk, starts, running, overlapped>>

ClickRefresh ==
    /\ main = Idle /\ records # disk /\ records' = disk
    /\ UNCHANGED <<pvars, mainq, main, ui, disk, capture>>

MainThread == Started \/ Failed \/ Complete \/ PlaybackStopped \/ RecordingStopped
User == \/ \E c \in records : DoubleClick(c) \/ ClickPlay(c) \/ ClickDelete(c)
        \/ ClickStop \/ ClickRecord \/ ClickStopRecording \/ ClickRefresh

\* Mutant: a frame is drawn synchronously on the main queue.
EngineDrawsSync(k) ==
    /\ plays[k] = "looping" => main = Idle
    /\ Block(k) /\ UNCHANGED avars

\* A block of the playback queue; frames are drawn asynchronously.
Engine(k) == Block(k) /\ UNCHANGED avars

Next == \/ MainThread \/ User
        \/ \E s \in Starts : CaptureStart(s)
        \/ \E k \in Plays : Engine(k)

\* The main thread, the playback queue and the global queue make progress (a
\* file has an end); the user need not do anything.
Fairness == /\ WF_vars(MainThread)
            /\ \A k \in Plays : WF_vars(Engine(k))
            /\ \A s \in Starts : WF_vars(CaptureStart(s))

Spec == Init /\ [][Next]_vars /\ Fairness

-----------------------------------------------------------------------------
(* What the window's and the capture session's variables can hold.         *)
TypeOK ==
    /\ PTypeOK
    /\ main.wait \in {"nothing", "playQ", "encodeQ"}
    /\ records \subseteq Clips \cup Starts /\ disk \subseteq Clips \cup Starts
    /\ starts \in [Starts -> {"none", "setup", "opened", "live", "ended", "abandoned"}]
    /\ running \in BOOLEAN
    /\ encoder \in 0 .. MaxStarts /\ unfinished \subseteq Starts

\* The recordings whose encoder_open gave up with the file open.
Abandoned == {s \in Starts : starts[s] = "abandoned"}

(* Unless recordings overlapped, a recording that runs has its file open,  *)
(* and one that was stopped has it closed, with its index: but for those   *)
(* that encoder_open itself abandoned, no file is left open, whichever way *)
(* startRecordingPath ended and whatever was played, stopped or deleted    *)
(* between its steps.                                                      *)
StoppedRecordingIsClosed ==
    overlapped \/ /\ unfinished = Abandoned \cup IF encoder = 0 THEN {} ELSE {encoder}
                  /\ running => encoder # 0
                  /\ ~InProgress /\ main.wait # "encodeQ" => encoder = 0

(* onDeleteClicked stops the playback before it removes a file: no file    *)
(* is removed while the engine still reads one.                            *)
RemovesOnlyWhenReleased ==
    [][~(disk \subseteq disk') => \A k \in Plays : ~UsesDecoder(k)]_vars

(* The main thread always comes back to the user: the dispatch_sync of     *)
(* stopPlayback never waits for something that waits for the main thread,  *)
(* whatever the block was about to do (draw, end, report its completion).  *)
WindowResponds == main # Idle ~> main = Idle

(* encoder.h:13: an encoder is "not thread safe ~ one encoder per file".   *)
(* CrapprCaptureSession has one CrapEncoder, so a second recording may not *)
(* open its file while another is being set up or written: a file that it  *)
(* opened with success stays in the encoder's hands until it is closed.    *)
OneEncoderPerFile == unfinished \ Abandoned \subseteq {encoder}

-----------------------------------------------------------------------------
(* The inductive invariant behind DecoderHasOneUser and                    *)
(* RemovesOnlyWhenReleased: only the last playback can be before the point *)
(* where it lowers _playing, and when the flag is down and nobody waits    *)
(* for that playback, it is past that point as well.                       *)

Handlers  == {"play", "record", "show", "delete"}
Past(k)   == plays[k] \in {"cleared", "done"}

EngineTypes ==
    /\ playing \in BOOLEAN /\ lastPlay \in 0 .. MaxPlays
    /\ plays \in [Plays -> {"none", "queued", "looping", "leaving", "closed",
                            "read", "cleared", "done"}]
    /\ main.wait = "playQ" => main.then.do \in Handlers

OnlyTheLastIsActive ==
    /\ \A k \in Plays : k > lastPlay => plays[k] = "none"
    /\ \A k \in Plays : k < lastPlay => Past(k)
    /\ lastPlay # 0 => plays[lastPlay] # "none"

FlagFollowsBlock ==
    /\ playing => lastPlay # 0 /\ ~Past(lastPlay) /\ main.wait # "playQ"
    /\ ~playing /\ main.wait # "playQ" /\ lastPlay # 0 => Past(lastPlay)

DecoderFollowsBlock ==
    decoder = IF lastPlay # 0 /\ UsesDecoder(lastPlay) THEN lastPlay ELSE 0

EngineInv == EngineTypes /\ OnlyTheLastIsActive /\ FlagFollowsBlock
             /\ (ordered => unflushed = {} /\ DecoderFollowsBlock)
=============================================================================
