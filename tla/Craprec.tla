------------------------------- MODULE Craprec -------------------------------
(***************************************************************************)
(* capture_run, the owner of the pipeline in the command-line recorder:    *)
(* main opens the encoder, starts the session, sleeps until the duration   *)
(* has passed or SIGINT/SIGTERM set g_stop, then stops, drains the encode  *)
(* queue and closes.                                                       *)
(***************************************************************************)
EXTENDS CaptureQueue

CONSTANT Duration     \* how many sleeps the recording lasts (duration_sec * 10)

ASSUME DurationAssumption == Duration \in Nat

VARIABLES
    pc,               \* where capture_run is
    i,                \* its loop counter
    g_stop,           \* set by the signal handler
    handler           \* whether handle_sig is installed

mvars == <<pc, i, g_stop, handler>>
vars  == <<qvars, mvars>>

Init == QInit /\ pc = "open" /\ i = 0 /\ g_stop = FALSE /\ handler = FALSE

Go(from, to) == pc = from /\ pc' = to
Loopvars     == <<i, g_stop, handler>>
Pipeline     == <<cb, worker, buffers, delivered, recorded>>

\* encoder_open; on failure capture_run returns its error.
OpenEncoder ==
    /\ \/ Go("open", "audio_info") /\ encoder' = "open"
       \/ Go("open", "failed") /\ UNCHANGED encoder
    /\ UNCHANGED <<now, session, running, start_us, started, stopped, queue,
                   Pipeline, Loopvars>>

\* The audio stream info; when it cannot be written, encoder_close.
AudioInfo ==
    /\ \/ Go("audio_info", "start_session") /\ UNCHANGED encoder
       \/ "audio" \in Sources /\ Go("audio_info", "failed") /\ encoder' = "closed"
    /\ UNCHANGED <<now, session, running, start_us, started, stopped, queue,
                   Pipeline, Loopvars>>

StartSession ==
    /\ Go("start_session", "stamp") /\ session' = "on"
    /\ UNCHANGED <<now, running, start_us, started, stopped, encoder, queue,
                   Pipeline, Loopvars>>

\* delegate.start_us = now; the callbacks see it from PublishStart on.
StampStart ==
    /\ Go("stamp", "set_running")
    /\ started' = now
    /\ UNCHANGED <<now, session, running, start_us, stopped, encoder, queue, Pipeline,
                   Loopvars>>

SetRunning ==
    /\ Go("set_running", "install") /\ running' = TRUE
    /\ UNCHANGED <<now, session, start_us, started, stopped, encoder, queue,
                   Pipeline, Loopvars>>

InstallHandlers ==
    /\ Go("install", "loop") /\ g_stop' = FALSE /\ handler' = TRUE
    /\ UNCHANGED <<qvars, i>>

\* One sleep of the loop: it lasts at least one tick.
Sleep ==
    /\ pc = "loop" /\ i < Duration /\ ~g_stop
    /\ now > started + i
    /\ i' = i + 1
    /\ UNCHANGED <<qvars, pc, g_stop, handler>>

\* Mutant: only a signal ends the loop.
ExitLoopOnSignal ==
    /\ Go("loop", "clear_running") /\ g_stop
    /\ UNCHANGED <<qvars, Loopvars>>

ExitLoop ==
    /\ Go("loop", "clear_running") /\ (g_stop \/ i = Duration)
    /\ UNCHANGED <<qvars, Loopvars>>

ClearRunning ==
    /\ Go("clear_running", "stop_session")
    /\ running' = FALSE /\ stopped' = now
    /\ UNCHANGED <<now, session, start_us, started, encoder, queue, Pipeline,
                   Loopvars>>

\* No callback begins afterwards; one may still be in progress.
StopSession ==
    /\ Go("stop_session", "drain") /\ session' = "off"
    /\ UNCHANGED <<now, running, start_us, started, stopped, encoder, queue,
                   Pipeline, Loopvars>>

\* dispatch_sync(encode_q, ^{}): wait behind every block queued so far.
Drain ==
    /\ Go("drain", "draining") /\ queue' = Append(queue, SyncBlock)
    /\ UNCHANGED <<now, session, running, start_us, started, stopped, encoder,
                   Pipeline, Loopvars>>

Drained ==
    /\ Go("draining", "close")
    /\ worker = Idle /\ Head(queue) = SyncBlock /\ queue' = Tail(queue)
    /\ UNCHANGED <<now, session, running, start_us, started, stopped, encoder,
                   Pipeline, Loopvars>>

CloseBegin ==
    /\ Go("close", "closing") /\ encoder' = "closing"
    /\ UNCHANGED <<now, session, running, start_us, started, stopped, queue,
                   Pipeline, Loopvars>>

CloseEnd ==
    /\ Go("closing", "done") /\ encoder' = "closed"
    /\ UNCHANGED <<now, session, running, start_us, started, stopped, queue,
                   Pipeline, Loopvars>>

Main == \/ OpenEncoder \/ AudioInfo \/ StartSession \/ StampStart \/ SetRunning
        \/ InstallHandlers \/ Sleep \/ ExitLoop \/ ClearRunning \/ StopSession
        \/ Drain \/ Drained \/ CloseBegin \/ CloseEnd

\* SIGINT or SIGTERM: handle_sig, or by default the end of the process.
Signal ==
    /\ pc \notin {"done", "failed", "killed"}
    /\ IF handler THEN g_stop' = TRUE /\ UNCHANGED pc
                  ELSE pc' = "killed" /\ UNCHANGED g_stop
    /\ UNCHANGED <<qvars, i, handler>>

Alive    == pc # "killed"
Pipe     == Alive /\ QNext /\ UNCHANGED mvars
Next     == Main \/ Signal \/ Pipe

Callback(s) == CallbackStamp(s) \/ CallbackGivesUp(s) \/ CallbackDispatch(s)
Block       == BlockBegin \/ BlockDrop \/ BlockEnd

\* Threads that can run do: main, the encode queue, the callbacks in progress;
\* and time passes.
Fairness ==
    /\ WF_vars(Main)
    /\ WF_vars(Alive /\ Block /\ UNCHANGED mvars)
    /\ WF_vars(Alive /\ Tick /\ UNCHANGED mvars)
    /\ \A s \in Sources : WF_vars(Alive /\ Callback(s) /\ UNCHANGED mvars)

Spec == Init /\ [][Next]_vars /\ Fairness

-----------------------------------------------------------------------------
(* The recording ends: after its duration, or earlier on a signal,         *)
(* capture_run gets through stop, drain and close, however many buffers    *)
(* are still being delivered or queued meanwhile.                          *)
RecordingEnds == pc = "loop" ~> pc \in {"done", "killed"}

(* A block that was dispatched too late to be drained still runs and frees *)
(* its buffer.                                                             *)
LateBuffersAreFreed == pc = "done" ~> buffers = {}
=============================================================================
