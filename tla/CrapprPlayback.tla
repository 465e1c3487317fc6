---------------------------- MODULE CrapprPlayback ----------------------------
(***************************************************************************)
(* CrapprPlaybackEngine of crappr.m: one decoder, one flag and, for every  *)
(* playback, one block on a serial queue of its own.  The main thread      *)
(* opens the decoder and raises _playing; the block reads frames until the *)
(* file ends or the flag is lowered, closes the decoder, lowers the flag   *)
(* and reports a playback that was not stopped to the main queue.          *)
(***************************************************************************)
EXTENDS Integers, Sequences

CONSTANT
    MaxPlays          \* bound: playbacks started

ASSUME PlaysAssumption == MaxPlays \in Nat

VARIABLES
    playing,          \* _playing
    decoder,          \* the playback whose file _decoder holds (0: none)
    plays,            \* what the block of each playback is doing
    natural,          \* completedNaturally of each block, while it runs
    lastPlay,         \* the playback _playQ belongs to (0: none)
    ordered,          \* the machine's stores become visible in program order
                      \*   (x86-64: yes; arm64: no); it never changes
    unflushed,        \* blocks whose decoder_close is not visible yet
    mainq             \* blocks dispatched to the main queue

pvars == <<playing, decoder, plays, natural, lastPlay, ordered, unflushed>>

Plays == 1 .. MaxPlays

PInit ==
    /\ playing = FALSE /\ decoder = 0 /\ lastPlay = 0 /\ unflushed = {}
    /\ plays = [k \in Plays |-> "none"]
    /\ natural = [k \in Plays |-> FALSE]
    /\ ordered \in BOOLEAN

Step(k, from, to) == plays[k] = from /\ plays' = [plays EXCEPT ![k] = to]

-----------------------------------------------------------------------------
(* The block.                                                              *)

BlockBegin(k) ==
    /\ Step(k, "queued", "looping")
    /\ UNCHANGED <<playing, decoder, natural, lastPlay, ordered, unflushed, mainq>>

\* Mutant: _playing is lowered before the decoder is closed.
BlockLeaveClears(k) ==
    /\ Step(k, "looping", "leaving")
    /\ playing' = FALSE
    /\ UNCHANGED <<decoder, natural, lastPlay, ordered, unflushed, mainq>>

\* while (_playing) { crap_read_frame ... }: stopped, or no more frames.
BlockLeave(k) ==
    /\ Step(k, "looping", "leaving")
    /\ UNCHANGED <<playing, decoder, natural, lastPlay, ordered, unflushed, mainq>>

\* [_audioEngine stop]; decoder_close, whose memset of _decoder may stay in
\* the store buffer ...
BlockClose(k) ==
    /\ Step(k, "leaving", "closed")
    /\ IF ordered THEN decoder' = 0 /\ UNCHANGED unflushed
       ELSE unflushed' = unflushed \cup {k} /\ UNCHANGED decoder
    /\ UNCHANGED <<playing, natural, lastPlay, ordered, mainq>>

\* ... and reach the main thread later, at the end of the block at the latest.
BlockFlush(k) ==
    /\ k \in unflushed /\ unflushed' = unflushed \ {k}
    /\ decoder' = 0
    /\ UNCHANGED <<playing, plays, natural, lastPlay, ordered, mainq>>

\* completedNaturally = (_playing != 0)
BlockRead(k) ==
    /\ Step(k, "closed", "read")
    /\ natural' = [natural EXCEPT ![k] = playing]
    /\ UNCHANGED <<playing, decoder, lastPlay, ordered, unflushed, mainq>>

BlockClear(k) ==
    /\ Step(k, "read", "cleared")
    /\ playing' = FALSE
    /\ UNCHANGED <<decoder, natural, lastPlay, ordered, unflushed, mainq>>

\* dispatch_async(main queue, onComplete); the block and its locals are gone.
BlockNotify(k) ==
    /\ Step(k, "cleared", "done") /\ k \notin unflushed
    /\ mainq' = IF natural[k] THEN Append(mainq, "complete") ELSE mainq
    /\ natural' = [natural EXCEPT ![k] = FALSE]
    /\ UNCHANGED <<playing, decoder, lastPlay, ordered, unflushed>>

Block(k) == \/ BlockBegin(k) \/ BlockLeave(k) \/ BlockClose(k)
            \/ BlockFlush(k) \/ BlockRead(k) \/ BlockClear(k) \/ BlockNotify(k)

-----------------------------------------------------------------------------
(* What the main thread does to the engine, as parts of its handlers.      *)

\* Mutant: the file of the clip after the selected one is opened.
OpenOffByOne(k) ==
    /\ k = lastPlay + 1 /\ plays[k] = "none"
    /\ decoder' = k + 1 /\ playing' = TRUE /\ lastPlay' = k
    /\ plays' = [plays EXCEPT ![k] = "queued"]
    /\ UNCHANGED <<natural, ordered, unflushed>>

\* startPlaybackPath: decoder_open and the dispatch of the block.  It calls
\* stopPlayback first, but its callers have seen _playing = 0 already, and
\* only this thread raises it.
Open(k) ==
    /\ k = lastPlay + 1 /\ plays[k] = "none"
    /\ decoder' = k /\ playing' = TRUE /\ lastPlay' = k
    /\ plays' = [plays EXCEPT ![k] = "queued"]
    /\ UNCHANGED <<natural, ordered, unflushed>>

\* stopPlayback is Lower, then waiting (dispatch_sync) until QueueEmpty.
Lower ==
    /\ playing' = FALSE
    /\ UNCHANGED <<decoder, plays, natural, lastPlay, ordered, unflushed>>
QueueEmpty == lastPlay # 0 => plays[lastPlay] = "done"

-----------------------------------------------------------------------------
UsesDecoder(k) == plays[k] \in {"queued", "looping", "leaving"}
Alive(k)       == plays[k] \notin {"none", "done"}

(* What the engine's variables can hold; a block that ended has flushed    *)
(* its stores.                                                             *)
PTypeOK ==
    /\ playing \in BOOLEAN /\ decoder \in 0 .. MaxPlays
    /\ lastPlay \in 0 .. MaxPlays
    /\ plays \in [Plays -> {"none", "queued", "looping", "leaving", "closed",
                            "read", "cleared", "done"}]
    /\ natural \in [Plays -> BOOLEAN] /\ ordered \in BOOLEAN
    /\ \A k \in unflushed : plays[k] \in {"closed", "read", "cleared"}

(* _decoder is shared by the main thread, which opens it, and the block,   *)
(* which reads and closes it, without a lock: the file a block reads is    *)
(* the one opened for it, until that block itself has closed it, however   *)
(* stops, ends of file and new starts interleave, and the flag is raised   *)
(* only while there is such a block to lower it.  (With ordered stores: on *)
(* another CPU the zeroes of an old decoder_close may, in theory, still    *)
(* fall on a decoder that was opened since.)                               *)
DecoderHasOneUser ==
    ordered =>
        /\ \A k \in Plays : UsesDecoder(k) => decoder = k
        /\ decoder # 0 => UsesDecoder(decoder)
        /\ playing => lastPlay # 0 /\ plays[lastPlay] \notin {"cleared", "done"}
=============================================================================
