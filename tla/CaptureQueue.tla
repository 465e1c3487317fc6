----------------------------- MODULE CaptureQueue -----------------------------
(***************************************************************************)
(* The recording pipeline that CrapCaptureDelegate (capture.m) and         *)
(* CrapprCaptureSession (crappr.m) share.  AVFoundation calls the delegate *)
(* on one serial queue per source; a callback stamps the buffer, copies it *)
(* and dispatches a block to the serial encode queue; the block looks at   *)
(* `running' again and writes the frame with the one CrapEncoder.          *)
(*                                                                         *)
(* Threads: one callback per source, the encode queue's worker, and the    *)
(* owner (the module that extends this one), which opens, starts, stops,   *)
(* drains and closes.  running and start_us are plain properties shared    *)
(* without a lock: on a CPU that does not order stores (arm64, the         *)
(* released build) a callback may see running = 1 before start_us; where   *)
(* stores are ordered (x86-64) PublishStart comes before SetRunning.       *)
(***************************************************************************)
EXTENDS Integers, Sequences

CONSTANTS
    Sources,        \* the sample buffer outputs: video, and audio if any
    BootTime,       \* the monotonic clock when the program starts
    MaxTime,        \* bound: the last value of the clock
    MaxBuffers      \* bound: buffers the sources deliver

ASSUME CaptureAssumption ==
    /\ Sources # {}
    /\ BootTime \in Nat \ {0} /\ MaxTime \in Nat /\ BootTime <= MaxTime
    /\ MaxBuffers \in Nat

VARIABLES
    now,            \* clock_gettime(CLOCK_MONOTONIC)
    session,        \* "off", "on": whether AVFoundation delivers
    running,        \* delegate.running
    start_us,       \* delegate.start_us as the callbacks see it
    started,        \* the value the owner stored in it (0: none yet)
    stopped,        \* history: when running was cleared (0: not yet)
    encoder,        \* "none", "open", "closing", "closed"
    cb,             \* per source, the callback in progress
    queue,          \* encode_q: blocks not begun yet
    worker,         \* the block the encode queue executes
    buffers,        \* malloc'ed sample copies not freed yet
    delivered,      \* how many buffers were allocated so far
    recorded        \* the frames written to the file, in file order, each
                    \*   with the start_us its pts counts from (history)

qvars == <<now, session, running, start_us, started, stopped, encoder, cb,
           queue, worker, buffers, delivered, recorded>>

Idle      == [at |-> "idle"]
SyncBlock == [kind |-> "sync"]      \* the empty block of dispatch_sync
FrameBlock(s, c) ==
    [kind |-> "frame", buf |-> c.buf, stamp |-> [src |-> s, pts |-> c.pts, base |-> c.base]]

QInit ==
    /\ now = BootTime /\ session = "off"
    /\ running = FALSE /\ start_us = 0 /\ started = 0 /\ stopped = 0
    /\ encoder = "none"
    /\ cb = [s \in Sources |-> Idle]
    /\ queue = <<>> /\ worker = Idle
    /\ buffers = {} /\ delivered = 0 /\ recorded = <<>>

\* Bound: only time since the start counts, so the clock ticks from there on.
Horizon == IF started = 0 THEN BootTime ELSE MaxTime

Tick ==
    /\ now < Horizon /\ now' = now + 1
    /\ UNCHANGED <<session, running, start_us, started, stopped, encoder, cb,
                   queue, worker, buffers, delivered, recorded>>

\* The store to start_us becomes visible to the other threads.
PublishStart ==
    /\ start_us # started /\ start_us' = started
    /\ UNCHANGED <<now, session, running, started, stopped, encoder, cb, queue,
                   worker, buffers, delivered, recorded>>

-----------------------------------------------------------------------------
(* captureOutput:didOutputSampleBuffer:fromConnection:                     *)

\* if (!self.running) return;
CallbackEnter(s) ==
    /\ session = "on" /\ cb[s] = Idle /\ delivered < MaxBuffers
    /\ running
    /\ cb' = [cb EXCEPT ![s] = [at |-> "running"]]
    /\ UNCHANGED <<now, session, running, start_us, started, stopped, encoder,
                   queue, worker, buffers, delivered, recorded>>

\* pts = [self nowUs] - self.start_us, then the copy of the samples.
CallbackStamp(s) ==
    /\ cb[s].at = "running"
    /\ delivered < MaxBuffers /\ delivered' = delivered + 1
    /\ cb' = [cb EXCEPT ![s] = [at |-> "copied", buf |-> delivered',
                                pts |-> now - start_us, base |-> start_us]]
    /\ buffers' = buffers \cup {delivered'}
    /\ UNCHANGED <<now, session, running, start_us, started, stopped, encoder,
                   queue, worker, recorded>>

\* No image, no data, or malloc failed: the callback returns.
CallbackGivesUp(s) ==
    /\ cb[s].at = "running"
    /\ cb' = [cb EXCEPT ![s] = Idle]
    /\ UNCHANGED <<now, session, running, start_us, started, stopped, encoder,
                   queue, worker, buffers, delivered, recorded>>

\* Mutant: the buffer is freed after the dispatch, by the callback.
CallbackDispatchFrees(s) ==
    /\ cb[s].at = "copied"
    /\ queue' = Append(queue, FrameBlock(s, cb[s]))
    /\ cb' = [cb EXCEPT ![s] = Idle]
    /\ buffers' = buffers \ {cb[s].buf}
    /\ UNCHANGED <<now, session, running, start_us, started, stopped, encoder,
                   worker, delivered, recorded>>

CallbackDispatch(s) ==
    /\ cb[s].at = "copied"
    /\ queue' = Append(queue, FrameBlock(s, cb[s]))
    /\ cb' = [cb EXCEPT ![s] = Idle]
    /\ UNCHANGED <<now, session, running, start_us, started, stopped, encoder,
                   worker, buffers, delivered, recorded>>

-----------------------------------------------------------------------------
(* The encode queue: one block at a time, in order.                        *)

NextIsFrame == worker = Idle /\ queue # <<>> /\ Head(queue).kind = "frame"

\* Mutant: the block does not look at running again.
BlockBeginUnchecked ==
    /\ NextIsFrame
    /\ worker' = [at |-> "writing", block |-> Head(queue)]
    /\ queue' = Tail(queue)
    /\ UNCHANGED <<now, session, running, start_us, started, stopped, encoder,
                   cb, buffers, delivered, recorded>>

\* Mutant: a concurrent queue, blocks begin in any order.
BlockBeginAnyOrder ==
    /\ worker = Idle /\ running
    /\ \E i \in 1 .. Len(queue) :
          /\ queue[i].kind = "frame"
          /\ worker' = [at |-> "writing", block |-> queue[i]]
          /\ queue' = SubSeq(queue, 1, i - 1) \o SubSeq(queue, i + 1, Len(queue))
    /\ UNCHANGED <<now, session, running, start_us, started, stopped, encoder,
                   cb, buffers, delivered, recorded>>

\* if (self.running) encoder_write_iframe_rgb / audio_write_frame
BlockBegin ==
    /\ NextIsFrame /\ running
    /\ worker' = [at |-> "writing", block |-> Head(queue)]
    /\ queue' = Tail(queue)
    /\ UNCHANGED <<now, session, running, start_us, started, stopped, encoder,
                   cb, buffers, delivered, recorded>>

\* Mutant: a dropped frame is not freed.
BlockDropLeaks ==
    /\ NextIsFrame /\ ~running
    /\ queue' = Tail(queue)
    /\ UNCHANGED <<now, session, running, start_us, started, stopped, encoder,
                   cb, worker, buffers, delivered, recorded>>

\* running was cleared: the frame is dropped, free(rgb).
BlockDrop ==
    /\ NextIsFrame /\ ~running
    /\ buffers' = buffers \ {Head(queue).buf}
    /\ queue' = Tail(queue)
    /\ UNCHANGED <<now, session, running, start_us, started, stopped, encoder,
                   cb, worker, delivered, recorded>>

\* The write returns (its result is ignored), free(rgb).
BlockEnd ==
    /\ worker # Idle
    /\ \/ recorded' = Append(recorded, worker.block.stamp)
       \/ UNCHANGED recorded              \* the write failed
    /\ buffers' = buffers \ {worker.block.buf}
    /\ worker' = Idle
    /\ UNCHANGED <<now, session, running, start_us, started, stopped, encoder,
                   cb, queue, delivered>>

QNext ==
    \/ Tick \/ PublishStart
    \/ \E s \in Sources : \/ CallbackEnter(s) \/ CallbackStamp(s)
                          \/ CallbackGivesUp(s) \/ CallbackDispatch(s)
    \/ BlockBegin \/ BlockDrop \/ BlockEnd

-----------------------------------------------------------------------------
(* Properties of the pipeline, for every owner.                            *)

Copied     == {s \in Sources : cb[s].at = "copied"}
QueuedAt   == {i \in 1 .. Len(queue) : queue[i].kind = "frame"}
HeldBufs   == {cb[s].buf : s \in Copied} \cup {queue[i].buf : i \in QueuedAt}
                \cup (IF worker = Idle THEN {} ELSE {worker.block.buf})

(* The states of the pipeline; start_us is either unset or what the owner  *)
(* stored, and only allocated buffers are in use.                          *)
QTypeOK ==
    /\ now \in BootTime .. MaxTime /\ session \in {"on", "off"}
    /\ running \in BOOLEAN /\ start_us \in {0, started}
    /\ encoder \in {"none", "open", "closing", "closed"}
    /\ \A s \in Sources : cb[s].at \in {"idle", "running", "copied"}
    /\ buffers \subseteq 1 .. delivered

(* Every sample copy has exactly one owner at any time, a callback, a      *)
(* queued block or the block being executed, however the callbacks, the    *)
(* queue and the stopping thread interleave: none is leaked when frames    *)
(* are dropped, and none is freed twice or while a block still uses it.    *)
BuffersHaveOneOwner ==
    /\ buffers = HeldBufs
    /\ \A s, t \in Copied : cb[s].buf = cb[t].buf => s = t
    /\ \A i, j \in QueuedAt : queue[i].buf = queue[j].buf => i = j
    /\ \A s \in Copied, i \in QueuedAt : cb[s].buf # queue[i].buf
    /\ worker # Idle => /\ \A s \in Copied : cb[s].buf # worker.block.buf
                        /\ \A i \in QueuedAt : queue[i].buf # worker.block.buf

(* encoder.h:13: a CrapEncoder is "not thread safe": the encode queue only *)
(* writes while the encoder is open, never before encoder_open returned,   *)
(* during encoder_close or after it, although a callback that saw          *)
(* running = 1 may dispatch its block at any later time.                   *)
EncoderUsedWhileOpen == worker # Idle => encoder = "open"

(* Within a stream the timestamps of the file never go back, and none lies *)
(* outside the recording, once the start time was visible to the callback: *)
(* a callback stamps before it dispatches, and a buffer stamped after the  *)
(* stop is dropped by its block.                                           *)
Based == {i \in 1 .. Len(recorded) : recorded[i].base # 0}
TimestampsOrdered ==
    /\ \A i, j \in Based : i < j /\ recorded[i].src = recorded[j].src
                             => recorded[i].pts <= recorded[j].pts
    /\ \A i \in Based :
          /\ recorded[i].pts >= 0
          /\ stopped # 0 => recorded[i].pts <= stopped - started
=============================================================================
