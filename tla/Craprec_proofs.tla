---------------------------- MODULE Craprec_proofs ----------------------------
(***************************************************************************)
(* What holds of craprec's pipeline for every set of sources, every        *)
(* duration and any number of buffers: who uses the encoder, who owns each *)
(* sample copy, and how the timestamps of the file are ordered.            *)
(***************************************************************************)
EXTENDS Craprec, TLAPS

Stamps == [src : Sources, pts : Int, base : Int]
Frames == [kind : {"frame"}, buf : Nat, stamp : Stamps]

\* The states of a callback, and of the encode queue's thread.
Callbacks == {Idle, [at |-> "running"]}
                 \cup [at : {"copied"}, buf : Nat, pts : Int, base : Int]
WorkerOK == worker = Idle \/ worker \in [at : {"writing"}, block : Frames]

\* Before the recording runs nothing is in the pipeline.
Before == {"open", "audio_info", "start_session", "stamp"}
Quiet  == /\ started = 0 /\ start_us = 0 /\ stopped = 0
          /\ queue = <<>> /\ recorded = <<>>
          /\ \A s \in Sources : cb[s] = Idle

\* The types, which the other invariants rest on.
Shape ==
    /\ now \in BootTime .. MaxTime /\ running \in BOOLEAN
    /\ started \in 0 .. now /\ start_us \in {0, started} /\ stopped \in 0 .. now
    /\ session \in {"on", "off"} /\ encoder \in {"none", "open", "closing", "closed"}
    /\ delivered \in Nat
    /\ cb \in [Sources -> Callbacks]
    /\ WorkerOK
    /\ queue \in Seq(Frames \cup {SyncBlock})
    /\ recorded \in Seq(Stamps)
    /\ pc = "draining" => \E k \in 1 .. Len(queue) : queue[k].kind = "sync"

\* Where capture_run is says who may use the encoder.
Encoding ==
    /\ running => pc \in {"install", "loop", "clear_running", "killed"}
    /\ running \/ pc = "set_running" => stopped = 0
    /\ pc \in {"audio_info", "start_session", "stamp", "set_running", "install", "loop",
               "clear_running", "stop_session", "drain", "draining", "close"}
          => encoder = "open"
    /\ pc \in Before \cup {"set_running", "close", "closing", "done", "failed"}
          => worker = Idle
    /\ pc \in Before => Quiet
    /\ EncoderUsedWhileOpen

USE CaptureAssumption, DurationAssumption

LEMMA IdleRunning == Idle # [at |-> "running"]
  BY DEF Idle

LEMMA FrameNotSync == \A b \in Frames : b # SyncBlock /\ b.kind = "frame"
  BY DEF Frames, SyncBlock

(* The front of the encode queue.                                          *)
LEMMA Front ==
    ASSUME queue \in Seq(Frames \cup {SyncBlock}), queue # <<>>
    PROVE  /\ Head(queue) = queue[1] /\ Len(queue) \in Nat \ {0}
           /\ Head(queue) \in Frames \cup {SyncBlock}
           /\ Tail(queue) \in Seq(Frames \cup {SyncBlock})
           /\ Len(Tail(queue)) = Len(queue) - 1
           /\ \A k \in 1 .. Len(queue) - 1 : Tail(queue)[k] = queue[k + 1]
  OBVIOUS

\* When the front is taken, every other block moves up by one.
LEMMA Shifted ==
    ASSUME queue \in Seq(Frames \cup {SyncBlock}), queue # <<>>, queue' = Tail(queue)
    PROVE  /\ \A k \in QueuedAt' : /\ k + 1 \in QueuedAt /\ queue'[k] = queue[k + 1]
                                   /\ k \in Int /\ k + 1 # 1
           /\ \A k \in QueuedAt : /\ k \in Int
                                  /\ k # 1 => /\ k - 1 \in QueuedAt'
                                             /\ queue[k] = queue'[k - 1]
<1>1. /\ Len(queue) \in Nat \ {0} /\ Len(queue') = Len(queue) - 1
      /\ \A k \in 1 .. Len(queue) - 1 : queue'[k] = queue[k + 1]
  BY Front
<1> QED
  BY <1>1 DEF QueuedAt

\* Main does nothing to the pipeline but wait behind its queue.
LEMMA MainQueue ==
    ASSUME Shape, Main
    PROVE  /\ UNCHANGED <<now, cb, worker, buffers, delivered, recorded, start_us>>
           /\ \/ queue' = queue
              \/ queue' = Append(queue, SyncBlock)
              \/ queue # <<>> /\ Head(queue) = SyncBlock /\ queue' = Tail(queue)
<1>1. CASE Drained
  BY <1>1 DEF Drained, Go, Pipeline, Shape
<1>2. CASE ~Drained
  BY <1>2 DEF Main, OpenEncoder, AudioInfo, StartSession, StampStart, SetRunning,
              InstallHandlers, Sleep, ExitLoop, ClearRunning, StopSession, Drain,
              CloseBegin, CloseEnd, Go, Pipeline, qvars
<1> QED
  BY <1>1, <1>2

LEMMA ShapeInit == Init => Shape /\ Encoding
<1> SUFFICES ASSUME Init PROVE Shape /\ Encoding
  OBVIOUS
<1>1. Shape
  <2>1. cb \in [Sources -> Callbacks]
    BY DEF Init, QInit, Callbacks
  <2>2. queue \in Seq(Frames \cup {SyncBlock}) /\ recorded \in Seq(Stamps)
    BY DEF Init, QInit
  <2>3. now = BootTime /\ now \in BootTime .. MaxTime /\ now \in Nat
    BY DEF Init, QInit
  <2>4. /\ started = 0 /\ start_us = 0 /\ stopped = 0 /\ worker = Idle /\ pc = "open"
        /\ session = "off" /\ encoder = "none" /\ delivered = 0
    BY DEF Init, QInit
  <2>5. running \in BOOLEAN
    BY DEF Init, QInit
  <2>6. WorkerOK
    BY <2>4 DEF WorkerOK
  <2> QED
    BY <2>1, <2>2, <2>3, <2>4, <2>5, <2>6 DEF Shape
<1>2. Encoding
  BY DEF Init, QInit, Encoding, EncoderUsedWhileOpen, Quiet, Before
<1> QED
  BY <1>1, <1>2

\* A step of the owner leaves what the pipeline holds as it was.
LEMMA ShapeMain == Shape /\ Encoding /\ Main => Shape'
<1> SUFFICES ASSUME Shape, Encoding, Main PROVE Shape'
  OBVIOUS
<1>1. /\ UNCHANGED <<now, cb, worker, buffers, delivered, recorded, start_us>>
      /\ queue' \in Seq(Frames \cup {SyncBlock})
  <2>1. SyncBlock \in Frames \cup {SyncBlock} /\ queue \in Seq(Frames \cup {SyncBlock})
    BY DEF Shape
  <2> QED
    BY <2>1, MainQueue, Front
<1>2. pc' = "draining" => \E k \in 1 .. Len(queue') : queue'[k].kind = "sync"
  <2>1. pc' = "draining" => Drain
    BY DEF Main, OpenEncoder, AudioInfo, StartSession, StampStart, SetRunning, Sleep,
           InstallHandlers, ExitLoop, ClearRunning, StopSession, Drained, CloseBegin,
           CloseEnd, Go
  <2>2. ASSUME Drain PROVE \E k \in 1 .. Len(queue') : queue'[k].kind = "sync"
    <3>1. queue' = Append(queue, SyncBlock) /\ queue \in Seq(Frames \cup {SyncBlock})
      BY <2>2 DEF Drain, Shape
    <3>2. Len(queue) + 1 \in 1 .. Len(queue') /\ queue'[Len(queue) + 1] = SyncBlock
      BY <3>1
    <3> QED
      BY <3>2 DEF SyncBlock
  <2> QED
    BY <2>1, <2>2
<1>3. running' \in BOOLEAN /\ session' \in {"on", "off"}
      /\ encoder' \in {"none", "open", "closing", "closed"}
  BY DEF Main, OpenEncoder, AudioInfo, StartSession, StampStart, SetRunning, Sleep,
         InstallHandlers, ExitLoop, ClearRunning, StopSession, Drain, Drained,
         CloseBegin, CloseEnd, Shape, qvars
<1>4. started' \in 0 .. now /\ start_us \in {0, started'} /\ stopped' \in 0 .. now
  <2>1. CASE StampStart
    <3>1. start_us = 0 /\ started' = now /\ stopped' = stopped
      BY <2>1 DEF StampStart, Go, Encoding, Before, Quiet
    <3> QED
      BY <3>1 DEF Shape
  <2>2. CASE ClearRunning
    BY <2>2 DEF ClearRunning, Shape
  <2>3. CASE ~StampStart /\ ~ClearRunning
    <3>1. UNCHANGED <<started, stopped>>
      BY <2>3 DEF Main, OpenEncoder, AudioInfo, StartSession, SetRunning, Sleep,
             InstallHandlers, ExitLoop, StopSession, Drain, Drained, CloseBegin,
             CloseEnd, qvars
    <3> QED
      BY <3>1 DEF Shape
  <2> QED
    BY <2>1, <2>2, <2>3
<1> QED
  BY <1>1, <1>2, <1>3, <1>4 DEF Shape, WorkerOK

\* What a step of the pipeline leaves alone.
Owners == <<session, running, started, stopped, encoder>>

LEMMA PipeOwners == Pipe => UNCHANGED Owners /\ UNCHANGED mvars /\ pc # "killed"
  BY DEF Pipe, QNext, Tick, PublishStart, CallbackEnter, CallbackStamp, CallbackGivesUp,
         CallbackDispatch, BlockBegin, BlockDrop, BlockEnd, Owners, Alive

\* The block a callback dispatches, and the one at the front of the queue.
LEMMA DispatchedFrame ==
    ASSUME Shape, NEW s \in Sources, cb[s].at = "copied"
    PROVE  /\ cb[s] \in [at : {"copied"}, buf : Nat, pts : Int, base : Int]
           /\ FrameBlock(s, cb[s]) \in Frames
           /\ FrameBlock(s, cb[s]).buf = cb[s].buf
<1>1. cb[s] \in [at : {"copied"}, buf : Nat, pts : Int, base : Int]
  BY DEF Shape, Callbacks, Idle
<1> QED
  BY <1>1 DEF FrameBlock, Frames, Stamps

LEMMA FrontFrame ==
    ASSUME Shape, NextIsFrame
    PROVE  /\ queue # <<>> /\ Head(queue) \in Frames /\ worker = Idle
           /\ pc = "draining" => \E k \in 1 .. Len(Tail(queue)) : Tail(queue)[k].kind = "sync"
<1>1. queue # <<>> /\ Head(queue).kind = "frame" /\ worker = Idle
  BY DEF NextIsFrame
<1>2. Head(queue) \in Frames
  BY <1>1, Front DEF SyncBlock, Shape
<1>3. ASSUME pc = "draining"
      PROVE  \E k \in 1 .. Len(Tail(queue)) : Tail(queue)[k].kind = "sync"
  <2>1. PICK k \in 1 .. Len(queue) : queue[k].kind = "sync"
    BY <1>3 DEF Shape
  <2>2. k # 1
    BY <2>1, <1>1, Front DEF Shape
  <2>3. k - 1 \in 1 .. Len(Tail(queue)) /\ Tail(queue)[k - 1] = queue[k]
    BY <2>1, <2>2, <1>1, Front DEF Shape
  <2> QED
    BY <2>1, <2>3
<1> QED
  BY <1>1, <1>2, <1>3

LEMMA ShapePipe == Shape /\ Encoding /\ Pipe => Shape'
<1> SUFFICES ASSUME Shape, Encoding, Pipe PROVE Shape'
  OBVIOUS
<1>0. UNCHANGED Owners /\ UNCHANGED mvars
  BY PipeOwners
<1> USE DEF Owners, mvars
<1>t. /\ now \in Int /\ started \in 0 .. now /\ stopped \in 0 .. now /\ MaxTime \in Nat
      /\ BootTime \in Nat /\ now >= BootTime /\ start_us \in Int /\ delivered \in Nat
  BY DEF Shape
<1>1. CASE Tick
  <2>1. now' = now + 1 /\ now < MaxTime
    BY <1>1, <1>t DEF Tick, Horizon
  <2> QED
    BY <1>1, <1>0, <1>t, <2>1 DEF Tick, Shape, WorkerOK
<1>2. CASE PublishStart
  BY <1>2, <1>0 DEF PublishStart, Shape, WorkerOK
<1>3. ASSUME NEW s \in Sources, NEW c, c \in Callbacks, cb' = [cb EXCEPT ![s] = c],
             delivered' \in Nat, queue' \in Seq(Frames \cup {SyncBlock}),
             pc = "draining" => \E k \in 1 .. Len(queue') : queue'[k].kind = "sync",
             UNCHANGED <<now, start_us, worker, recorded>>
      PROVE  Shape'
  <2>1. cb' \in [Sources -> Callbacks]
    BY <1>3 DEF Shape
  <2>2. WorkerOK'
    BY <1>3 DEF Shape, WorkerOK
  <2> QED
    BY <1>3, <1>0, <2>1, <2>2 DEF Shape
<1>4. ASSUME NEW s \in Sources, CallbackEnter(s) PROVE Shape'
  <2>1. [at |-> "running"] \in Callbacks
    BY DEF Callbacks
  <2> QED
    BY <1>4, <2>1, <1>3, <1>t DEF CallbackEnter, Shape
<1>5. ASSUME NEW s \in Sources, CallbackStamp(s) PROVE Shape'
  <2> DEFINE c == [at |-> "copied", buf |-> delivered', pts |-> now - start_us,
                   base |-> start_us]
  <2>1. delivered' = delivered + 1 /\ cb' = [cb EXCEPT ![s] = c]
    BY <1>5 DEF CallbackStamp
  <2>2. c \in Callbacks
    BY <2>1, <1>t DEF Callbacks
  <2>3. /\ delivered' \in Nat /\ queue' \in Seq(Frames \cup {SyncBlock})
        /\ pc = "draining" => \E k \in 1 .. Len(queue') : queue'[k].kind = "sync"
        /\ UNCHANGED <<now, start_us, worker, recorded>>
    BY <1>5, <2>1, <1>t DEF CallbackStamp, Shape
  <2> HIDE DEF c
  <2> QED
    BY <2>1, <2>2, <2>3, <1>3
<1>6. ASSUME NEW s \in Sources, CallbackGivesUp(s) PROVE Shape'
  <2>1. Idle \in Callbacks
    BY DEF Callbacks
  <2> QED
    BY <1>6, <2>1, <1>3, <1>t DEF CallbackGivesUp, Shape
<1>7. ASSUME NEW s \in Sources, CallbackDispatch(s) PROVE Shape'
  <2> DEFINE b == FrameBlock(s, cb[s])
  <2>1. Idle \in Callbacks /\ b \in Frames
    BY <1>7, DispatchedFrame DEF Callbacks, CallbackDispatch
  <2>2. queue' = Append(queue, b) /\ queue \in Seq(Frames \cup {SyncBlock})
    BY <1>7 DEF CallbackDispatch, Shape
  <2>3. queue' \in Seq(Frames \cup {SyncBlock})
    BY <2>1, <2>2
  <2>4. pc = "draining" => \E k \in 1 .. Len(queue') : queue'[k].kind = "sync"
    BY <2>2 DEF Shape
  <2> HIDE DEF b
  <2> QED
    BY <1>7, <2>1, <2>3, <2>4, <1>3, <1>t DEF CallbackDispatch
<1>8. ASSUME NextIsFrame, queue' = Tail(queue), WorkerOK',
             UNCHANGED <<now, start_us, cb, delivered, recorded>>
      PROVE  Shape'
  <2>1. queue' \in Seq(Frames \cup {SyncBlock})
    BY <1>8, FrontFrame, Front DEF Shape
  <2>2. pc = "draining" => \E k \in 1 .. Len(queue') : queue'[k].kind = "sync"
    BY <1>8, FrontFrame
  <2> QED
    BY <1>8, <1>0, <2>1, <2>2 DEF Shape
<1>9. CASE BlockBegin
  <2>1. worker' \in [at : {"writing"}, block : Frames]
    BY <1>9, FrontFrame DEF BlockBegin
  <2> QED
    BY <1>9, <2>1, <1>8 DEF BlockBegin, WorkerOK
<1>10. CASE BlockDrop
  BY <1>10, <1>8 DEF BlockDrop, Shape, WorkerOK
<1>11. CASE BlockEnd
  <2>1. worker.block.stamp \in Stamps
    BY <1>11 DEF BlockEnd, Shape, WorkerOK, Frames
  <2>2. recorded' \in Seq(Stamps)
    <3>1. recorded \in Seq(Stamps)
      BY DEF Shape
    <3>2. recorded' = Append(recorded, worker.block.stamp) \/ recorded' = recorded
      BY <1>11 DEF BlockEnd
    <3> QED
      BY <2>1, <3>1, <3>2
  <2>3. WorkerOK'
    BY <1>11 DEF BlockEnd, WorkerOK
  <2> QED
    BY <1>11, <1>0, <2>2, <2>3 DEF Shape, BlockEnd
<1> QED
  BY <1>1, <1>2, <1>4, <1>5, <1>6, <1>7, <1>9, <1>10, <1>11 DEF Pipe, QNext

LEMMA ShapeNext == Shape /\ Encoding /\ [Next]_vars => Shape'
<1> SUFFICES ASSUME Shape, Encoding, [Next]_vars PROVE Shape'
  OBVIOUS
<1>1. CASE Main
  BY <1>1, ShapeMain
<1>2. CASE Pipe
  BY <1>2, ShapePipe
<1>3. CASE \/ UNCHANGED qvars /\ pc' # "draining"
          \/ UNCHANGED <<qvars, pc>>
  <2>2. UNCHANGED qvars /\ (pc' = "draining" => pc = "draining")
    BY <1>3
  <2> QED
    BY <2>2 DEF Shape, WorkerOK, qvars
<1> QED
  BY <1>1, <1>2, <1>3 DEF Next, Signal, vars, mvars

\* The owner's steps keep to the order open, run, stop, drain, close.
LEMMA EncodingMain == Shape /\ Encoding /\ Main => Encoding'
<1> SUFFICES ASSUME Shape, Encoding, Main PROVE Encoding'
  OBVIOUS
<1> USE DEF Encoding, EncoderUsedWhileOpen, Before, Go, Pipeline, Loopvars, qvars
<1>q. pc \in Before => Quiet
  OBVIOUS
<1>k. ASSUME UNCHANGED <<started, start_us, stopped, queue, recorded, cb>>, Quiet PROVE Quiet'
  BY <1>k DEF Quiet
<1>1. CASE OpenEncoder
  BY <1>1, <1>q, <1>k DEF OpenEncoder
<1>2. CASE AudioInfo
  BY <1>2, <1>q, <1>k DEF AudioInfo
<1>3. CASE StartSession
  BY <1>3, <1>q, <1>k DEF StartSession
<1>4. CASE StampStart
  BY <1>4 DEF StampStart, Quiet
<1>5. CASE SetRunning
  BY <1>5 DEF SetRunning
<1>6. CASE InstallHandlers
  BY <1>6 DEF InstallHandlers
<1>7. CASE Sleep
  BY <1>7 DEF Sleep
<1>8. CASE ExitLoop
  BY <1>8 DEF ExitLoop
<1>9. CASE ClearRunning
  BY <1>9 DEF ClearRunning
<1>10. CASE StopSession
  BY <1>10 DEF StopSession
<1>11. CASE Drain
  BY <1>11 DEF Drain
<1>12. CASE Drained
  BY <1>12 DEF Drained
<1>13. CASE CloseBegin
  BY <1>13 DEF CloseBegin
<1>14. CASE CloseEnd
  BY <1>14 DEF CloseEnd
<1> QED
  BY <1>1, <1>2, <1>3, <1>4, <1>5, <1>6, <1>7, <1>8, <1>9, <1>10, <1>11, <1>12, <1>13,
     <1>14 DEF Main

\* In the pipeline a block begins only while running is set.
LEMMA QuietIdle == Quiet => \A s \in Sources : cb[s].at = "idle"
<1>1. Idle.at = "idle"
  BY DEF Idle
<1> QED
  BY <1>1 DEF Quiet

LEMMA EncodingPipe == Shape /\ Encoding /\ Pipe => Encoding'
<1> SUFFICES ASSUME Shape, Encoding, Pipe PROVE Encoding'
  OBVIOUS
<1>0. UNCHANGED Owners /\ UNCHANGED mvars /\ pc # "killed"
  BY PipeOwners
<1>1. worker' = worker \/ worker' = Idle \/ running
  BY DEF Pipe, QNext, Tick, PublishStart, CallbackEnter, CallbackStamp, CallbackGivesUp,
         CallbackDispatch, BlockBegin, BlockDrop, BlockEnd
<1>2. Quiet /\ ~running /\ worker = Idle => Quiet'
  <2> SUFFICES ASSUME Quiet, ~running, worker = Idle PROVE Quiet'
    OBVIOUS
  <2>1. \A s \in Sources : cb[s].at = "idle"
    BY QuietIdle
  <2>2. UNCHANGED <<start_us, queue, recorded, cb>>
    BY <2>1 DEF Pipe, QNext, Tick, PublishStart, CallbackEnter, CallbackStamp,
           CallbackGivesUp, CallbackDispatch, BlockBegin, BlockDrop, BlockEnd,
           NextIsFrame, Quiet
  <2> QED
    BY <2>2, <1>0 DEF Quiet, Owners
<1> QED
  BY <1>0, <1>1, <1>2 DEF Encoding, EncoderUsedWhileOpen, Before, Owners, mvars

LEMMA EncodingNext == Shape /\ Encoding /\ [Next]_vars => Encoding'
<1> SUFFICES ASSUME Shape, Encoding, [Next]_vars PROVE Encoding'
  OBVIOUS
<1>1. CASE Main
  BY <1>1, EncodingMain
<1>2. CASE Pipe
  BY <1>2, EncodingPipe
<1>3. CASE UNCHANGED qvars /\ pc' \in {pc, "killed"}
  BY <1>3 DEF Encoding, EncoderUsedWhileOpen, Quiet, Before, qvars
<1> QED
  BY <1>1, <1>2, <1>3 DEF Next, Signal, vars, mvars

THEOREM CInvariant == Spec => [](Shape /\ Encoding)
  BY ShapeInit, ShapeNext, EncodingNext, PTL DEF Spec

(* encoder.h: the encoder is not thread safe, and the encode queue writes  *)
(* with it only between encoder_open and encoder_close.                    *)
THEOREM EncoderIsOpen == Spec => []EncoderUsedWhileOpen
<1>1. Encoding => EncoderUsedWhileOpen
  BY DEF Encoding
<1> QED
  BY <1>1, CInvariant, PTL

-----------------------------------------------------------------------------
(* The sample copies.                                                      *)

\* The inductive invariant of the buffers, beside Shape.
Owned ==
    /\ BuffersHaveOneOwner
    /\ buffers \subseteq 1 .. delivered

LEMMA OwnedInit == Init => Owned
<1> SUFFICES ASSUME Init PROVE Owned
  OBVIOUS
<1>1. Copied = {} /\ QueuedAt = {}
  <2>1. Idle.at # "copied"
    BY DEF Idle
  <2> QED
    BY <2>1 DEF Init, QInit, Copied, QueuedAt
<1> QED
  BY <1>1 DEF Init, QInit, Owned, BuffersHaveOneOwner, HeldBufs

\* Whoever holds a buffer holds one that was allocated.
LEMMA HeldAllocated ==
    ASSUME Shape, Owned
    PROVE  /\ \A s \in Copied : cb[s].buf \in 1 .. delivered
           /\ \A k \in QueuedAt : queue[k].buf \in 1 .. delivered
           /\ worker # Idle => worker.block.buf \in 1 .. delivered
  BY DEF Owned, BuffersHaveOneOwner, HeldBufs

\* The same holders, one of them perhaps a place further in the queue.
LEMMA OwnersUnmoved ==
    ASSUME Shape, Owned, UNCHANGED <<cb, worker, buffers, delivered>>,
           \/ queue' = queue
           \/ queue' = Append(queue, SyncBlock)
           \/ queue # <<>> /\ Head(queue) = SyncBlock /\ queue' = Tail(queue)
    PROVE  Owned'
<1>0. queue \in Seq(Frames \cup {SyncBlock}) /\ SyncBlock.kind # "frame"
  BY DEF Shape, SyncBlock
<1>1. Copied' = Copied
  BY DEF Copied
<1>2. CASE queue' = queue \/ queue' = Append(queue, SyncBlock)
  <2>1. QueuedAt' = QueuedAt /\ \A k \in QueuedAt : queue'[k] = queue[k]
    BY <1>0, <1>2 DEF QueuedAt
  <2> QED
    BY <1>1, <2>1 DEF Owned, BuffersHaveOneOwner, HeldBufs
<1>3. CASE queue # <<>> /\ Head(queue) = SyncBlock /\ queue' = Tail(queue)
  <2>1. 1 \notin QueuedAt
    BY <1>0, <1>3, Front DEF QueuedAt
  <2>2. \A k \in QueuedAt' : k + 1 \in QueuedAt /\ queue'[k] = queue[k + 1] /\ k \in Int
    BY <1>0, <1>3, Shifted
  <2>3. \A k \in QueuedAt : k - 1 \in QueuedAt' /\ queue[k] = queue'[k - 1] /\ k \in Int
    BY <1>0, <1>3, <2>1, Shifted
  <2>4. {queue'[k].buf : k \in QueuedAt'} = {queue[k].buf : k \in QueuedAt}
    BY <2>2, <2>3
  <2>5. HeldBufs' = HeldBufs
    BY <1>1, <2>4 DEF HeldBufs
  <2>6. \A k, m \in QueuedAt' : queue'[k].buf = queue'[m].buf => k = m
    BY <2>2 DEF Owned, BuffersHaveOneOwner
  <2> QED
    BY <1>1, <2>2, <2>5, <2>6 DEF Owned, BuffersHaveOneOwner
<1> QED
  BY <1>2, <1>3

\* A block leaves the front of the queue.
LEMMA FrontTaken ==
    ASSUME Shape, Owned, NextIsFrame, queue' = Tail(queue)
    PROVE  /\ 1 \in QueuedAt /\ Head(queue) = queue[1] /\ worker = Idle
           /\ \A k \in QueuedAt' : /\ k + 1 \in QueuedAt /\ queue'[k] = queue[k + 1]
                                   /\ k \in Int /\ k + 1 # 1
           /\ {queue[k].buf : k \in QueuedAt}
                = {queue'[k].buf : k \in QueuedAt'} \cup {queue[1].buf}
<1>0. queue \in Seq(Frames \cup {SyncBlock}) /\ queue # <<>> /\ worker = Idle
      /\ Head(queue).kind = "frame"
  BY DEF Shape, NextIsFrame
<1>1. 1 \in QueuedAt /\ Head(queue) = queue[1]
  BY <1>0, Front DEF QueuedAt
<1>2. {queue[k].buf : k \in QueuedAt}
         \subseteq {queue'[k].buf : k \in QueuedAt'} \cup {queue[1].buf}
  <2> SUFFICES ASSUME NEW k \in QueuedAt, k # 1
               PROVE  queue[k].buf \in {queue'[m].buf : m \in QueuedAt'}
    OBVIOUS
  <2>1. k - 1 \in QueuedAt' /\ queue[k] = queue'[k - 1]
    BY <1>0, Shifted
  <2> QED
    BY <2>1
<1>3. {queue'[k].buf : k \in QueuedAt'} \subseteq {queue[k].buf : k \in QueuedAt}
  <2> SUFFICES ASSUME NEW k \in QueuedAt'
               PROVE  queue'[k].buf \in {queue[m].buf : m \in QueuedAt}
    OBVIOUS
  <2>1. k + 1 \in QueuedAt /\ queue'[k] = queue[k + 1]
    BY <1>0, Shifted
  <2> QED
    BY <2>1
<1> QED
  BY <1>0, <1>1, <1>2, <1>3, Shifted

LEMMA OwnedPipe == Shape /\ Owned /\ Pipe => Owned'
<1> SUFFICES ASSUME Shape, Owned, Pipe PROVE Owned'
  OBVIOUS
<1>0. /\ cb \in [Sources -> Callbacks] /\ delivered \in Nat
      /\ queue \in Seq(Frames \cup {SyncBlock}) /\ Len(queue) \in Nat
      /\ Idle.at # "copied"
  BY DEF Shape, Idle
<1>1. CASE Tick
  BY <1>1, OwnersUnmoved DEF Tick
<1>2. CASE PublishStart
  BY <1>2, OwnersUnmoved DEF PublishStart
<1>3. ASSUME NEW s \in Sources, NEW c \in {Idle, [at |-> "running"]}, s \notin Copied,
             cb' = [cb EXCEPT ![s] = c], UNCHANGED <<queue, worker, buffers, delivered>>
      PROVE  Owned'
  <2>1. c.at # "copied"
    BY <1>3, <1>0
  <2>2. Copied' = Copied /\ \A r \in Copied : cb'[r] = cb[r]
    BY <1>0, <1>3, <2>1 DEF Copied
  <2>3. QueuedAt' = QueuedAt
    BY <1>3 DEF QueuedAt
  <2> QED
    BY <1>3, <2>2, <2>3 DEF Owned, BuffersHaveOneOwner, HeldBufs
<1>4. ASSUME NEW s \in Sources, CallbackEnter(s) PROVE Owned'
  BY <1>4, <1>3, <1>0 DEF CallbackEnter, Copied
<1>5. ASSUME NEW s \in Sources, CallbackGivesUp(s) PROVE Owned'
  BY <1>5, <1>3 DEF CallbackGivesUp, Copied
<1>6. ASSUME NEW s \in Sources, CallbackStamp(s) PROVE Owned'
  <2>1. /\ cb'[s].at = "copied" /\ cb'[s].buf = delivered + 1 /\ s \notin Copied
        /\ delivered' = delivered + 1 /\ buffers' = buffers \cup {delivered + 1}
        /\ \A r \in Sources : r # s => cb'[r] = cb[r]
        /\ UNCHANGED <<queue, worker>>
    BY <1>6, <1>0 DEF CallbackStamp, Copied
  <2>2. Copied' = Copied \cup {s}
    BY <2>1 DEF Copied
  <2>3. QueuedAt' = QueuedAt
    BY <2>1 DEF QueuedAt
  <2>4. HeldBufs' = HeldBufs \cup {delivered + 1}
    BY <2>1, <2>2, <2>3 DEF HeldBufs, Copied
  <2>5. delivered + 1 \notin 1 .. delivered
    BY <1>0
  <2>6. \A r, u \in Copied' : cb'[r].buf = cb'[u].buf => r = u
    BY <2>1, <2>2, <2>5, HeldAllocated DEF Owned, BuffersHaveOneOwner, Copied
  <2>7. \A r \in Copied', k \in QueuedAt' : cb'[r].buf # queue'[k].buf
    BY <2>1, <2>2, <2>3, <2>5, HeldAllocated DEF Owned, BuffersHaveOneOwner, Copied
  <2>8. worker' # Idle => \A r \in Copied' : cb'[r].buf # worker'.block.buf
    BY <2>1, <2>2, <2>5, HeldAllocated DEF Owned, BuffersHaveOneOwner, Copied
  <2>9. buffers' \subseteq 1 .. delivered'
    BY <2>1, <1>0 DEF Owned
  <2> QED
    BY <2>1, <2>3, <2>4, <2>6, <2>7, <2>8, <2>9 DEF Owned, BuffersHaveOneOwner
<1>7. ASSUME NEW s \in Sources, CallbackDispatch(s) PROVE Owned'
  <2> DEFINE b == FrameBlock(s, cb[s])
             n == Len(queue) + 1
  <2>1. /\ b.kind = "frame" /\ b.buf = cb[s].buf /\ s \in Copied
        /\ queue' = Append(queue, b) /\ cb' = [cb EXCEPT ![s] = Idle]
        /\ UNCHANGED <<worker, buffers, delivered>>
    BY <1>7, DispatchedFrame, FrameNotSync DEF CallbackDispatch, Copied
  <2> HIDE DEF b
  <2>2. /\ n \notin QueuedAt /\ queue'[n] = b /\ QueuedAt' = QueuedAt \cup {n}
        /\ \A k \in QueuedAt : queue'[k] = queue[k]
    BY <1>0, <2>1 DEF QueuedAt
  <2> HIDE DEF n
  <2>3. Copied' = Copied \ {s} /\ \A r \in Copied' : cb'[r] = cb[r] /\ r # s /\ r \in Copied
    BY <1>0, <2>1 DEF Copied
  <2>4. HeldBufs' = HeldBufs
    <3>1. {cb'[r].buf : r \in Copied'} \cup {b.buf} = {cb[r].buf : r \in Copied}
      BY <2>1, <2>3
    <3>2. {queue'[k].buf : k \in QueuedAt'} = {queue[k].buf : k \in QueuedAt} \cup {b.buf}
      BY <2>2
    <3> QED
      BY <2>1, <3>1, <3>2 DEF HeldBufs
  <2>5. \A r, u \in Copied' : cb'[r].buf = cb'[u].buf => r = u
    BY <2>3 DEF Owned, BuffersHaveOneOwner
  <2>n. /\ \A k \in QueuedAt : queue[k].buf # b.buf
        /\ \A r \in Copied' : cb'[r].buf # b.buf
        /\ worker # Idle => worker.block.buf # b.buf
    BY <2>1, <2>3 DEF Owned, BuffersHaveOneOwner
  <2>m. \A k \in QueuedAt' : k = n \/ (k # n /\ k \in QueuedAt /\ queue'[k] = queue[k])
    BY <2>2
  <2>o. /\ \A k, m \in QueuedAt : queue[k].buf = queue[m].buf => k = m
        /\ \A r \in Copied, k \in QueuedAt : cb[r].buf # queue[k].buf
        /\ worker # Idle => /\ \A r \in Copied : cb[r].buf # worker.block.buf
                            /\ \A k \in QueuedAt : queue[k].buf # worker.block.buf
    BY DEF Owned, BuffersHaveOneOwner
  <2>6. \A k, m \in QueuedAt' : queue'[k].buf = queue'[m].buf => k = m
    BY <2>2, <2>n, <2>m, <2>o
  <2>7. \A r \in Copied', k \in QueuedAt' : cb'[r].buf # queue'[k].buf
    BY <2>2, <2>3, <2>n, <2>m, <2>o
  <2>8. worker' # Idle => /\ \A r \in Copied' : cb'[r].buf # worker'.block.buf
                          /\ \A k \in QueuedAt' : queue'[k].buf # worker'.block.buf
    BY <2>1, <2>2, <2>3, <2>n, <2>m, <2>o
  <2> QED
    BY <2>1, <2>4, <2>5, <2>6, <2>7, <2>8 DEF Owned, BuffersHaveOneOwner
<1>8. CASE BlockBegin
  <2>1. /\ NextIsFrame /\ queue' = Tail(queue) /\ worker' # Idle /\ worker'.block = queue[1]
        /\ UNCHANGED <<cb, buffers, delivered>>
    BY <1>8, FrontFrame, Front, <1>0 DEF BlockBegin, Idle
  <2>2. Copied' = Copied
    BY <2>1 DEF Copied
  <2>3. /\ worker = Idle /\ 1 \in QueuedAt
        /\ \A k \in QueuedAt' : /\ k + 1 \in QueuedAt /\ queue'[k] = queue[k + 1]
                                /\ k \in Int /\ k + 1 # 1
        /\ {queue[k].buf : k \in QueuedAt}
             = {queue'[k].buf : k \in QueuedAt'} \cup {queue[1].buf}
    BY <2>1, FrontTaken
  <2>4. HeldBufs' = HeldBufs
    BY <2>1, <2>2, <2>3 DEF HeldBufs
  <2>5. \A k, m \in QueuedAt' : queue'[k].buf = queue'[m].buf => k = m
    BY <2>3 DEF Owned, BuffersHaveOneOwner
  <2>6. \A k \in QueuedAt' : queue'[k].buf # queue[1].buf
    BY <2>3 DEF Owned, BuffersHaveOneOwner
  <2>7. \A r \in Copied : cb[r].buf # queue[1].buf
    BY <2>3 DEF Owned, BuffersHaveOneOwner
  <2>8. \A r \in Copied, k \in QueuedAt' : cb[r].buf # queue'[k].buf
    BY <2>3 DEF Owned, BuffersHaveOneOwner
  <2> QED
    BY <2>1, <2>2, <2>4, <2>5, <2>6, <2>7, <2>8 DEF Owned, BuffersHaveOneOwner
<1>9. CASE BlockDrop
  <2>1. /\ NextIsFrame /\ queue' = Tail(queue) /\ UNCHANGED <<cb, worker, delivered>>
        /\ buffers' = buffers \ {queue[1].buf}
    BY <1>9, <1>0, FrontFrame, Front DEF BlockDrop
  <2>2. Copied' = Copied
    BY <2>1 DEF Copied
  <2>3. /\ worker = Idle /\ 1 \in QueuedAt
        /\ \A k \in QueuedAt' : /\ k + 1 \in QueuedAt /\ queue'[k] = queue[k + 1]
                                /\ k \in Int /\ k + 1 # 1
        /\ {queue[k].buf : k \in QueuedAt}
             = {queue'[k].buf : k \in QueuedAt'} \cup {queue[1].buf}
    BY <2>1, FrontTaken
  <2>5. \A k, m \in QueuedAt' : queue'[k].buf = queue'[m].buf => k = m
    BY <2>3 DEF Owned, BuffersHaveOneOwner
  <2>6. queue[1].buf \notin {queue'[k].buf : k \in QueuedAt'}
    BY <2>3 DEF Owned, BuffersHaveOneOwner
  <2>7. queue[1].buf \notin {cb[r].buf : r \in Copied}
    BY <2>3 DEF Owned, BuffersHaveOneOwner
  <2>8. \A r \in Copied, k \in QueuedAt' : cb[r].buf # queue'[k].buf
    BY <2>3 DEF Owned, BuffersHaveOneOwner
  <2>9. HeldBufs' = HeldBufs \ {queue[1].buf}
    <3>1. HeldBufs = {cb[r].buf : r \in Copied} \cup {queue'[k].buf : k \in QueuedAt'}
                       \cup {queue[1].buf}
      BY <2>3 DEF HeldBufs
    <3>2. HeldBufs' = {cb[r].buf : r \in Copied} \cup {queue'[k].buf : k \in QueuedAt'}
      BY <2>1, <2>2, <2>3 DEF HeldBufs
    <3> QED
      BY <3>1, <3>2, <2>6, <2>7
  <2> QED
    BY <2>1, <2>2, <2>3, <2>5, <2>8, <2>9 DEF Owned, BuffersHaveOneOwner
<1>10. CASE BlockEnd
  <2>1. /\ worker # Idle /\ worker' = Idle /\ UNCHANGED <<cb, queue, delivered>>
        /\ buffers' = buffers \ {worker.block.buf}
    BY <1>10 DEF BlockEnd
  <2>2. Copied' = Copied /\ QueuedAt' = QueuedAt
    BY <2>1 DEF Copied, QueuedAt
  <2>3. HeldBufs' = HeldBufs \ {worker.block.buf}
    BY <2>1, <2>2 DEF HeldBufs, Owned, BuffersHaveOneOwner
  <2> QED
    BY <2>1, <2>2, <2>3 DEF Owned, BuffersHaveOneOwner
<1> QED
  BY <1>1, <1>2, <1>4, <1>5, <1>6, <1>7, <1>8, <1>9, <1>10 DEF Pipe, QNext

LEMMA OwnedNext == Shape /\ Owned /\ [Next]_vars => Owned'
<1> SUFFICES ASSUME Shape, Owned, [Next]_vars PROVE Owned'
  OBVIOUS
<1>1. CASE Main
  BY <1>1, MainQueue, OwnersUnmoved
<1>2. CASE Pipe
  BY <1>2, OwnedPipe
<1>3. CASE UNCHANGED qvars
  BY <1>3, OwnersUnmoved DEF qvars
<1> QED
  BY <1>1, <1>2, <1>3 DEF Next, Signal, vars

(* capture.m: each sample copy belongs to one callback or block, and is    *)
(* freed once.                                                             *)
THEOREM BuffersOwned == Spec => []BuffersHaveOneOwner
<1>1. Spec => [](Shape /\ Encoding /\ Owned)
  BY ShapeInit, OwnedInit, ShapeNext, EncodingNext, OwnedNext, PTL DEF Spec
<1>2. Owned => BuffersHaveOneOwner
  BY DEF Owned
<1> QED
  BY <1>1, <1>2, PTL

(* The pipeline of every source stays in one of the states QTypeOK lists.  *)
THEOREM QTypeCorrect == Spec => []QTypeOK
<1>1. Spec => [](Shape /\ Encoding /\ Owned)
  BY ShapeInit, OwnedInit, ShapeNext, EncodingNext, OwnedNext, PTL DEF Spec
<1>2. Shape /\ Owned => QTypeOK
  <2> SUFFICES ASSUME Shape, Owned PROVE QTypeOK
    OBVIOUS
  <2>1. \A c \in Callbacks : c.at \in {"idle", "running", "copied"}
    BY DEF Callbacks, Idle
  <2>2. \A s \in Sources : cb[s].at \in {"idle", "running", "copied"}
    BY <2>1 DEF Shape
  <2> QED
    BY <2>2 DEF QTypeOK, Shape, Owned
<1> QED
  BY <1>1, <1>2, PTL

-----------------------------------------------------------------------------
(* The timestamps.                                                         *)

\* When the callback read the clock, and the order of two of one source.
At(x)     == x.pts + x.base
Le(x, y)  == x.src = y.src => At(x) <= At(y)
InTime(x, n, b) == /\ x \in Stamps /\ At(x) <= n
                   /\ x.base \in {0, b} /\ (x.base # 0 => x.base <= At(x))

StampOf(s) == [src |-> s, pts |-> cb[s].pts, base |-> cb[s].base]
Recorded   == 1 .. Len(recorded)

\* From the file back to the callbacks every stamp was taken in order.
FileInOrder ==
    /\ \A k \in Recorded : InTime(recorded[k], now, started)
    /\ \A k, m \in Recorded : k < m => Le(recorded[k], recorded[m])
    /\ stopped # 0 => \A k \in Recorded : At(recorded[k]) <= stopped
WorkerInOrder ==
    worker # Idle =>
       /\ InTime(worker.block.stamp, now, started)
       /\ stopped # 0 => At(worker.block.stamp) <= stopped
       /\ \A k \in Recorded : Le(recorded[k], worker.block.stamp)
QueueInOrder ==
    /\ \A k \in QueuedAt : InTime(queue[k].stamp, now, started)
    /\ \A k, m \in QueuedAt : k < m => Le(queue[k].stamp, queue[m].stamp)
    /\ \A k \in Recorded, m \in QueuedAt : Le(recorded[k], queue[m].stamp)
    /\ worker # Idle => \A m \in QueuedAt : Le(worker.block.stamp, queue[m].stamp)
CallbacksInOrder ==
    \A s \in Copied :
       /\ InTime(StampOf(s), now, started)
       /\ \A k \in Recorded : Le(recorded[k], StampOf(s))
       /\ \A k \in QueuedAt : Le(queue[k].stamp, StampOf(s))
       /\ worker # Idle => Le(worker.block.stamp, StampOf(s))
InOrder == FileInOrder /\ WorkerInOrder /\ QueueInOrder /\ CallbacksInOrder

\* Nothing in the pipeline, nothing out of order.
LEMMA EmptyInOrder ==
    ASSUME Quiet, worker = Idle
    PROVE  InOrder /\ Copied = {} /\ QueuedAt = {} /\ Recorded = {}
<1>1. Copied = {} /\ QueuedAt = {} /\ Recorded = {}
  BY QuietIdle DEF Copied, QueuedAt, Recorded, Quiet
<1> QED
  BY <1>1 DEF InOrder, FileInOrder, WorkerInOrder, QueueInOrder, CallbacksInOrder

LEMMA LaterInTime ==
    ASSUME NEW x, NEW n \in Int, NEW m \in Int, NEW b, InTime(x, n, b), n <= m
    PROVE  InTime(x, m, b)
  BY DEF InTime, At, Stamps

\* A stamp taken now comes after every stamp there is.
LEMMA NowIsLast ==
    ASSUME NEW x, NEW y, NEW n \in Int, NEW b, InTime(x, n, b), y.pts + y.base = n
    PROVE  Le(x, y)
  BY DEF InTime, At, Le

LEMMA InOrderInit == Init => InOrder
<1> SUFFICES ASSUME Init PROVE InOrder
  OBVIOUS
<1>1. Quiet /\ worker = Idle
  BY DEF Init, QInit, Quiet
<1> QED
  BY <1>1, EmptyInOrder

\* The blocks of a queue that only gained or lost a sync block.
LEMMA OrderMain == Shape /\ Encoding /\ InOrder /\ Main => InOrder'
<1> SUFFICES ASSUME Shape, Encoding, InOrder, Main PROVE InOrder'
  OBVIOUS
<1>0. /\ UNCHANGED <<now, cb, worker, recorded>>
      /\ queue \in Seq(Frames \cup {SyncBlock}) /\ SyncBlock.kind # "frame"
      /\ now \in Int
  BY MainQueue DEF Shape, SyncBlock
<1>1. CASE StampStart
  <2>1. Quiet /\ worker = Idle
    BY <1>1 DEF StampStart, Go, Encoding, Before
  <2>2. UNCHANGED <<cb, worker, recorded, queue>>
    BY <1>1 DEF StampStart, Pipeline
  <2>3. Copied' = {} /\ QueuedAt' = {} /\ Recorded' = {} /\ worker' = Idle
    BY <2>1, <2>2, EmptyInOrder DEF Copied, QueuedAt, Recorded
  <2> QED
    BY <2>3 DEF InOrder, FileInOrder, WorkerInOrder, QueueInOrder, CallbacksInOrder
<1>2. CASE ~StampStart
  <2>1. started' = started /\ stopped' \in {stopped, now}
    BY <1>2 DEF Main, OpenEncoder, AudioInfo, StartSession, SetRunning, Sleep, qvars,
           InstallHandlers, ExitLoop, ClearRunning, StopSession, Drain, Drained,
           CloseBegin, CloseEnd
  <2>2. Copied' = Copied /\ Recorded' = Recorded /\ \A s \in Copied : StampOf(s)' = StampOf(s)
    BY <1>0 DEF Copied, Recorded, StampOf
  <2>3. FileInOrder' /\ WorkerInOrder'
    BY <1>0, <2>1, <2>2 DEF InOrder, FileInOrder, WorkerInOrder, InTime
  <2>4. \/ QueuedAt' = QueuedAt /\ \A k \in QueuedAt : queue'[k] = queue[k]
        \/ \A k \in QueuedAt' : k + 1 \in QueuedAt /\ queue'[k] = queue[k + 1] /\ k \in Int
    <3>1. CASE queue' = queue \/ queue' = Append(queue, SyncBlock)
      BY <1>0, <3>1 DEF QueuedAt
    <3>2. CASE queue # <<>> /\ Head(queue) = SyncBlock /\ queue' = Tail(queue)
      BY <1>0, <3>2, Shifted
    <3> QED
      BY <3>1, <3>2, MainQueue
  <2>5. QueueInOrder' /\ CallbacksInOrder'
    <3>1. CASE QueuedAt' = QueuedAt /\ \A k \in QueuedAt : queue'[k] = queue[k]
      BY <1>0, <2>1, <2>2, <3>1 DEF InOrder, QueueInOrder, CallbacksInOrder
    <3>2. CASE \A k \in QueuedAt' : k + 1 \in QueuedAt /\ queue'[k] = queue[k + 1] /\ k \in Int
      BY <1>0, <2>1, <2>2, <3>2 DEF InOrder, QueueInOrder, CallbacksInOrder
    <3> QED
      BY <2>4, <3>1, <3>2
  <2> QED
    BY <2>3, <2>5 DEF InOrder
<1> QED
  BY <1>1, <1>2

LEMMA OrderPipe == Shape /\ Encoding /\ InOrder /\ Pipe => InOrder'
<1> SUFFICES ASSUME Shape, Encoding, InOrder, Pipe PROVE InOrder'
  OBVIOUS
<1>0. /\ cb \in [Sources -> Callbacks] /\ now \in Int /\ recorded \in Seq(Stamps)
      /\ queue \in Seq(Frames \cup {SyncBlock}) /\ Len(queue) \in Nat /\ Idle.at # "copied"
  BY DEF Shape, Idle
<1>s. UNCHANGED <<started, stopped, running>>
  BY PipeOwners DEF Owners
<1> USE DEF InOrder
<1>1. CASE Tick
  <2>1. now' = now + 1 /\ UNCHANGED <<cb, queue, worker, recorded>>
    BY <1>1 DEF Tick
  <2>2. \A x : InTime(x, now, started) => InTime(x, now', started)
    BY <2>1, <1>0, LaterInTime
  <2>3. UNCHANGED <<Copied, QueuedAt, Recorded>> /\ \A s \in Copied : StampOf(s)' = StampOf(s)
    BY <2>1 DEF Copied, QueuedAt, Recorded, StampOf
  <2>4. FileInOrder' /\ WorkerInOrder'
    BY <1>s, <2>1, <2>2, <2>3 DEF FileInOrder, WorkerInOrder
  <2>5. QueueInOrder' /\ CallbacksInOrder'
    BY <1>s, <2>1, <2>2, <2>3 DEF QueueInOrder, CallbacksInOrder
  <2> QED
    BY <2>4, <2>5
<1>2. CASE UNCHANGED <<now, cb, queue, worker, recorded>>
  <2>1. UNCHANGED <<Copied, QueuedAt, Recorded>> /\ \A s \in Copied : StampOf(s)' = StampOf(s)
    BY <1>2 DEF Copied, QueuedAt, Recorded, StampOf
  <2> QED
    BY <1>2, <1>s, <2>1 DEF FileInOrder, WorkerInOrder, QueueInOrder, CallbacksInOrder
<1>3. ASSUME NEW s \in Sources, NEW c, cb' = [cb EXCEPT ![s] = c],
             UNCHANGED <<now, queue, worker, recorded>>,
             s \in Copied' => /\ InTime(StampOf(s)', now, started)
                             /\ StampOf(s)'.pts + StampOf(s)'.base = now
      PROVE  InOrder'
  <2>1. UNCHANGED <<QueuedAt, Recorded>>
    BY <1>3 DEF QueuedAt, Recorded
  <2>2. \A r \in Copied' : r = s \/ (r \in Copied /\ StampOf(r)' = StampOf(r))
    BY <1>0, <1>3 DEF Copied, StampOf
  <2>3. FileInOrder' /\ WorkerInOrder' /\ QueueInOrder'
    BY <1>3, <1>s, <2>1 DEF FileInOrder, WorkerInOrder, QueueInOrder
  <2>4. ASSUME s \in Copied', NEW x, InTime(x, now, started) PROVE Le(x, StampOf(s)')
    BY <2>4, <1>3, <1>0, NowIsLast
  <2>5. CallbacksInOrder'
    BY <1>3, <1>s, <2>1, <2>2, <2>4
       DEF CallbacksInOrder, FileInOrder, WorkerInOrder, QueueInOrder
  <2> QED
    BY <2>3, <2>5
<1>4. ASSUME NEW s \in Sources, CallbackEnter(s) PROVE InOrder'
  <2>1. s \notin Copied'
    BY <1>4, <1>0 DEF CallbackEnter, Copied
  <2> QED
    BY <1>4, <2>1, <1>3 DEF CallbackEnter
<1>5. ASSUME NEW s \in Sources, CallbackGivesUp(s) PROVE InOrder'
  <2>1. s \notin Copied'
    BY <1>5, <1>0 DEF CallbackGivesUp, Copied
  <2> QED
    BY <1>5, <2>1, <1>3 DEF CallbackGivesUp
<1>6. ASSUME NEW s \in Sources, CallbackStamp(s) PROVE InOrder'
  <2>1. StampOf(s)' = [src |-> s, pts |-> now - start_us, base |-> start_us]
    BY <1>6, <1>0 DEF CallbackStamp, StampOf
  <2>2. start_us \in {0, started} /\ started \in 0 .. now
    BY DEF Shape
  <2>3. InTime(StampOf(s)', now, started) /\ StampOf(s)'.pts + StampOf(s)'.base = now
    BY <1>0, <2>1, <2>2 DEF InTime, At, Stamps
  <2> DEFINE c == [at |-> "copied", buf |-> delivered', pts |-> now - start_us,
                   base |-> start_us]
  <2>4. cb' = [cb EXCEPT ![s] = c] /\ UNCHANGED <<now, queue, worker, recorded>>
    BY <1>6 DEF CallbackStamp
  <2> HIDE DEF c
  <2> QED
    BY <2>3, <2>4, <1>3
<1>7. ASSUME NEW s \in Sources, CallbackDispatch(s) PROVE InOrder'
  <2> DEFINE b == FrameBlock(s, cb[s])
             n == Len(queue) + 1
  <2>1. /\ b.kind = "frame" /\ b.stamp = StampOf(s) /\ s \in Copied
        /\ queue' = Append(queue, b) /\ cb' = [cb EXCEPT ![s] = Idle]
        /\ UNCHANGED <<now, worker, recorded>>
    BY <1>7 DEF CallbackDispatch, Copied, FrameBlock, StampOf
  <2> HIDE DEF b
  <2>2. /\ \A k \in QueuedAt' : \/ k = n /\ queue'[k].stamp = StampOf(s)
                                \/ k < n /\ k \in QueuedAt /\ queue'[k] = queue[k]
        /\ n \in Int /\ \A k \in QueuedAt' : k \in Int
    BY <1>0, <2>1 DEF QueuedAt
  <2> HIDE DEF n
  <2>3. /\ \A r \in Copied' : StampOf(r)' = StampOf(r) /\ r # s /\ r \in Copied
        /\ \A r \in Copied' : Le(StampOf(s), StampOf(r))
        /\ Recorded' = Recorded
    BY <1>0, <2>1 DEF Copied, StampOf, Recorded, Le
  <2>4. FileInOrder' /\ WorkerInOrder'
    BY <1>s, <2>1, <2>3 DEF FileInOrder, WorkerInOrder
  <2>5. /\ InTime(StampOf(s), now, started)
        /\ \A k \in Recorded : Le(recorded[k], StampOf(s))
        /\ \A k \in QueuedAt : Le(queue[k].stamp, StampOf(s))
        /\ worker # Idle => Le(worker.block.stamp, StampOf(s))
    BY <2>1 DEF CallbacksInOrder
  <2>6. QueueInOrder'
    <3>1. \A k \in QueuedAt' : InTime(queue'[k].stamp, now, started)
      BY <2>2, <2>5 DEF QueueInOrder
    <3>2. \A k, m \in QueuedAt' : k < m => Le(queue'[k].stamp, queue'[m].stamp)
      <4> SUFFICES ASSUME NEW k \in QueuedAt', NEW m \in QueuedAt', k < m
                   PROVE  Le(queue'[k].stamp, queue'[m].stamp)
        OBVIOUS
      <4>1. k \in QueuedAt /\ queue'[k] = queue[k]
        BY <2>2
      <4> QED
        BY <4>1, <2>2, <2>5 DEF QueueInOrder
    <3>3. \A k \in Recorded, m \in QueuedAt' : Le(recorded[k], queue'[m].stamp)
      BY <2>2, <2>5 DEF QueueInOrder
    <3>4. worker # Idle => \A m \in QueuedAt' : Le(worker.block.stamp, queue'[m].stamp)
      BY <2>2, <2>5 DEF QueueInOrder
    <3> QED
      BY <1>s, <2>1, <2>3, <3>1, <3>2, <3>3, <3>4 DEF QueueInOrder
  <2>7. CallbacksInOrder'
    BY <1>s, <2>1, <2>2, <2>3 DEF CallbacksInOrder
  <2> QED
    BY <2>4, <2>6, <2>7
<1>8. ASSUME NextIsFrame, queue' = Tail(queue), UNCHANGED <<now, cb, recorded>>,
             \/ worker' = worker
             \/ worker' # Idle /\ worker'.block = queue[1] /\ stopped = 0
      PROVE  InOrder'
  <2>1. /\ 1 \in QueuedAt
        /\ \A k \in QueuedAt' : /\ k + 1 \in QueuedAt /\ queue'[k] = queue[k + 1]
                                /\ k \in Int /\ k + 1 > 1
        /\ worker = Idle
    <3>1. queue # <<>> /\ worker = Idle /\ Head(queue).kind = "frame"
      BY <1>8 DEF NextIsFrame
    <3>2. 1 \in QueuedAt
      BY <3>1, <1>0, Front DEF QueuedAt
    <3>3. \A k \in QueuedAt' : k \in Int /\ k + 1 > 1
      BY <1>0, <1>8, <3>1, Front DEF QueuedAt
    <3> QED
      BY <3>1, <3>2, <3>3, <1>0, <1>8, Shifted
  <2>2. /\ UNCHANGED <<Copied, Recorded>>
        /\ \A s \in Copied : StampOf(s)' = StampOf(s)
    BY <1>8 DEF Copied, Recorded, StampOf
  <2>3. FileInOrder' /\ WorkerInOrder'
    BY <1>8, <1>s, <2>1, <2>2 DEF FileInOrder, WorkerInOrder, QueueInOrder
  <2>4. QueueInOrder'
    <3>1. \A k \in QueuedAt' : InTime(queue'[k].stamp, now, started)
      BY <2>1 DEF QueueInOrder
    <3>2. \A k, m \in QueuedAt' : k < m => Le(queue'[k].stamp, queue'[m].stamp)
      BY <2>1 DEF QueueInOrder
    <3>3. \A k \in Recorded, m \in QueuedAt' : Le(recorded[k], queue'[m].stamp)
      BY <2>1 DEF QueueInOrder
    <3>4. \A m \in QueuedAt' : Le(queue[1].stamp, queue'[m].stamp)
      BY <2>1 DEF QueueInOrder
    <3> QED
      BY <1>8, <1>s, <2>1, <2>2, <3>1, <3>2, <3>3, <3>4 DEF QueueInOrder
  <2>5. CallbacksInOrder'
    BY <1>8, <1>s, <2>1, <2>2 DEF CallbacksInOrder
  <2> QED
    BY <2>3, <2>4, <2>5
<1>9. CASE BlockBegin
  <2>1. Head(queue) = queue[1]
    BY <1>9, <1>0, Front DEF BlockBegin, NextIsFrame
  <2>2. stopped = 0 /\ worker' # Idle /\ worker'.block = queue[1]
    BY <1>9, <2>1 DEF BlockBegin, Encoding, Idle
  <2> QED
    BY <1>9, <2>2, <1>8 DEF BlockBegin
<1>10. CASE BlockDrop
  BY <1>10, <1>8 DEF BlockDrop
<1>11. CASE BlockEnd
  <2>1. /\ worker # Idle /\ worker' = Idle /\ UNCHANGED <<now, cb, queue>>
        /\ recorded' = Append(recorded, worker.block.stamp) \/ recorded' = recorded
    BY <1>11 DEF BlockEnd
  <2>2. UNCHANGED <<Copied, QueuedAt>> /\ \A s \in Copied : StampOf(s)' = StampOf(s)
    BY <2>1 DEF Copied, QueuedAt, StampOf
  <2> DEFINE w == worker.block.stamp
             n == Len(recorded) + 1
  <2>3. /\ n \in Int /\ \A k \in Recorded' : k \in Int
        /\ \A k \in Recorded' : \/ k = n /\ recorded'[k] = w
                                \/ k < n /\ k \in Recorded /\ recorded'[k] = recorded[k]
    <3>1. CASE recorded' = recorded
      BY <3>1, <1>0 DEF Recorded
    <3>2. CASE recorded' = Append(recorded, w)
      BY <3>2, <1>0 DEF Recorded
    <3> QED
      BY <2>1, <3>1, <3>2
  <2>4. /\ InTime(w, now, started) /\ (stopped # 0 => At(w) <= stopped)
        /\ \A k \in Recorded : Le(recorded[k], w)
        /\ \A m \in QueuedAt : Le(w, queue[m].stamp)
        /\ \A s \in Copied : Le(w, StampOf(s))
    BY <2>1 DEF WorkerInOrder, QueueInOrder, CallbacksInOrder
  <2> HIDE DEF w, n
  <2>5. FileInOrder' /\ WorkerInOrder'
    BY <1>s, <2>1, <2>3, <2>4 DEF FileInOrder, WorkerInOrder
  <2>6. QueueInOrder' /\ CallbacksInOrder'
    BY <1>s, <2>1, <2>2, <2>3, <2>4 DEF QueueInOrder, CallbacksInOrder
  <2> QED
    BY <2>5, <2>6
<1> QED
  BY <1>1, <1>2, <1>4, <1>5, <1>6, <1>7, <1>9, <1>10, <1>11 DEF Pipe, QNext, PublishStart

LEMMA OrderNext == Shape /\ Encoding /\ InOrder /\ [Next]_vars => InOrder'
<1> SUFFICES ASSUME Shape, Encoding, InOrder, [Next]_vars PROVE InOrder'
  OBVIOUS
<1>1. CASE Main
  BY <1>1, OrderMain
<1>2. CASE Pipe
  BY <1>2, OrderPipe
<1>3. CASE UNCHANGED qvars
  BY <1>3 DEF InOrder, FileInOrder, WorkerInOrder, QueueInOrder, CallbacksInOrder,
              Copied, QueuedAt, Recorded, StampOf, qvars
<1> QED
  BY <1>1, <1>2, <1>3 DEF Next, Signal, vars

(* capture.m: in the file the timestamps of a stream never go back, and    *)
(* none lies outside the recording.                                        *)
THEOREM StampsOrdered == Spec => []TimestampsOrdered
<1>1. Spec => [](Shape /\ Encoding /\ InOrder)
  BY ShapeInit, InOrderInit, ShapeNext, EncodingNext, OrderNext, PTL DEF Spec
<1>2. Shape /\ InOrder => TimestampsOrdered
  <2> SUFFICES ASSUME Shape, InOrder PROVE TimestampsOrdered
    OBVIOUS
  <2>1. started \in Int /\ stopped \in Int
    BY DEF Shape
  <2>2. \A k \in Based : /\ k \in Recorded /\ recorded[k].base = started
                         /\ recorded[k].pts \in Int /\ recorded[k].pts >= 0
                         /\ At(recorded[k]) = recorded[k].pts + started
    BY <2>1 DEF Based, Recorded, InOrder, FileInOrder, InTime, At, Stamps
  <2>3. ASSUME NEW k \in Based, NEW m \in Based, k < m, recorded[k].src = recorded[m].src
        PROVE  recorded[k].pts <= recorded[m].pts
    <3>1. At(recorded[k]) <= At(recorded[m])
      BY <2>2, <2>3 DEF InOrder, FileInOrder, Le
    <3> QED
      BY <2>1, <2>2, <3>1
  <2>4. ASSUME NEW k \in Based, stopped # 0 PROVE recorded[k].pts <= stopped - started
    <3>1. At(recorded[k]) <= stopped
      BY <2>2, <2>4 DEF InOrder, FileInOrder
    <3> QED
      BY <2>1, <2>2, <3>1
  <2> QED
    BY <2>2, <2>3, <2>4 DEF TimestampsOrdered
<1> QED
  BY <1>1, <1>2, PTL
=============================================================================
