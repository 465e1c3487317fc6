--------------------------- MODULE CrapprApp_proofs ---------------------------
(***************************************************************************)
(* Theorems about CrapprApp for every number of clips, recordings and      *)
(* playbacks.  What the window does to the engine comes down to five kinds *)
(* of step; the invariant is kept by each of them.                         *)
(***************************************************************************)
EXTENDS CrapprApp, TLAPS

\* The kinds of step, as the playback engine and the waiting thread see them.
Unrelated == UNCHANGED pvars /\ UNCHANGED main
Recording == UNCHANGED pvars /\ main.wait # "playQ" /\ main'.wait # "playQ"
Stops     == /\ playing /\ Lower /\ main.wait # "playQ"
             /\ main'.wait = "playQ" /\ main'.then.do \in Handlers
Begins    == /\ ~playing /\ main.wait # "playQ" /\ UNCHANGED main
             /\ \E k \in Plays : Open(k)
Resumes   == /\ main.wait = "playQ" /\ QueueEmpty /\ main' = Idle
             /\ (\E k \in Plays : Open(k)) \/ UNCHANGED pvars
BlockSteps(k) == Block(k) /\ UNCHANGED main

(* The rest of a handler opens a decoder or leaves the engine alone, and   *)
(* only onDeleteClicked removes a file.                                    *)
LEMMA ContinueShape ==
    ASSUME NEW then, NEW u, then.do \in Handlers, Continue(then, u)
    PROVE  /\ (\E k \in Plays : Open(k)) \/ UNCHANGED pvars
           /\ disk' = disk \/ UNCHANGED pvars
<1>1. CASE then.do = "play"
  BY <1>1 DEF Continue, StartPlayItem, files
<1>2. CASE then.do = "record"
  BY <1>2 DEF Continue, BeginRecording, files
<1>3. CASE then.do = "show"
  BY <1>3 DEF Continue, ShowStopped, files
<1>4. CASE then.do = "delete"
  BY <1>4 DEF Continue, DeleteClip
<1> QED
  BY <1>1, <1>2, <1>3, <1>4 DEF Handlers

(* A handler that needs playback stopped lowers the flag and waits, or goes *)
(* on at once.                                                             *)
LEMMA StopShape ==
    ASSUME NEW then, then.do \in Handlers, main = Idle, StopPlaybackThen(then)
    PROVE  /\ Unrelated \/ Stops \/ Begins
           /\ disk' = disk \/ (~playing /\ UNCHANGED pvars)
<1>1. main.wait # "playQ"
  BY DEF Idle
<1>2. CASE /\ playing /\ Lower
           /\ main' = [wait |-> "playQ", then |-> then]
           /\ UNCHANGED <<mainq, ui, files, capture>>
  BY <1>1, <1>2 DEF Stops, files
<1>3. CASE ~playing /\ UNCHANGED main /\ Continue(then, ui)
  BY <1>1, <1>3, ContinueShape DEF Unrelated, Begins
<1> QED
  BY <1>2, <1>3 DEF StopPlaybackThen

(* Every step is of one of the kinds; files are removed only when nobody   *)
(* has raised the flag, or when the block waited for has ended.            *)
LEMMA StepKinds ==
    ASSUME EngineTypes, [Next]_vars
    PROVE  /\ \/ Unrelated \/ Recording \/ Stops \/ Begins \/ Resumes
              \/ \E k \in Plays : BlockSteps(k)
           /\ \/ disk \subseteq disk'
              \/ ~playing /\ main.wait # "playQ"
              \/ main.wait = "playQ" /\ QueueEmpty
<1>1. CASE UNCHANGED vars
  BY <1>1 DEF vars, avars, files, Unrelated
<1>2. CASE Started \/ Failed \/ Complete
  BY <1>2 DEF Started, Failed, Complete, files, Unrelated
<1>3. CASE PlaybackStopped
  <2>1. main.then.do \in Handlers
    BY <1>3 DEF PlaybackStopped, EngineTypes
  <2>2. (\E k \in Plays : Open(k)) \/ UNCHANGED pvars
    BY <1>3, <2>1, ContinueShape DEF PlaybackStopped
  <2> QED
    BY <1>3, <2>2 DEF PlaybackStopped, Resumes
<1>4. CASE RecordingStopped
  BY <1>4 DEF RecordingStopped, Recording, Idle
<1>5. ASSUME NEW c \in records, DoubleClick(c) \/ ClickPlay(c)
      PROVE  \E then : /\ then.do \in Handlers /\ main = Idle
                       /\ StopPlaybackThen(then)
  <2>1. [do |-> "play", clip |-> c].do \in Handlers
    BY DEF Handlers
  <2> QED
    BY <1>5, <2>1 DEF DoubleClick, ClickPlay
<1>6. ASSUME NEW c \in records, ClickDelete(c)
      PROVE  \E then : /\ then.do \in Handlers /\ main = Idle
                       /\ StopPlaybackThen(then)
  <2>1. [do |-> "delete", clip |-> c].do \in Handlers
    BY DEF Handlers
  <2> QED
    BY <1>6, <2>1 DEF ClickDelete
<1>7. ASSUME ClickStop \/ ClickRecord
      PROVE  \E then : /\ then.do \in Handlers /\ main = Idle
                       /\ StopPlaybackThen(then)
  <2>1. [do |-> "show"].do \in Handlers /\ [do |-> "record"].do \in Handlers
    BY DEF Handlers
  <2> QED
    BY <1>7, <2>1 DEF ClickStop, ClickRecord
<1>8. ASSUME NEW then, then.do \in Handlers, main = Idle, StopPlaybackThen(then)
      PROVE  /\ Unrelated \/ Stops \/ Begins
             /\ disk \subseteq disk' \/ (~playing /\ main.wait # "playQ")
  BY <1>8, StopShape DEF Idle
<1>9. CASE ClickStopRecording
  BY <1>9 DEF ClickStopRecording, Recording, Idle, files
<1>10. CASE ClickRefresh
  BY <1>10 DEF ClickRefresh, Unrelated
<1>11. ASSUME NEW s \in Starts, CaptureStart(s)
       PROVE  Unrelated /\ disk \subseteq disk'
  BY <1>11 DEF CaptureStart, StartFails, StartOpens, StartOpenFails, StartInfoFails, StartRuns,
               StartReports, Unrelated, files
<1>12. ASSUME NEW k \in Plays, Engine(k)
       PROVE  BlockSteps(k) /\ disk \subseteq disk'
  BY <1>12 DEF Engine, BlockSteps, avars, files
<1> QED
  BY <1>1, <1>2, <1>3, <1>4, <1>5, <1>6, <1>7, <1>8, <1>9, <1>10, <1>11, <1>12
  DEF Next, MainThread, User

-----------------------------------------------------------------------------
(* Opening a decoder once the last block is past the flag.                 *)
LEMMA OpenKeeps ==
    ASSUME EngineTypes, OnlyTheLastIsActive,
           ordered => unflushed = {} /\ DecoderFollowsBlock,
           lastPlay # 0 => Past(lastPlay), main'.wait # "playQ",
           NEW k \in Plays, Open(k)
    PROVE  EngineInv'
<1>1. /\ MaxPlays \in Nat /\ lastPlay \in Nat /\ k = lastPlay + 1 /\ k # 0
      /\ k \in 1 .. MaxPlays
  BY PlaysAssumption DEF Plays, Open, EngineTypes
<1>2. \A j \in Plays : plays'[j] = IF j = k THEN "queued" ELSE plays[j]
  BY DEF Open, EngineTypes
<1>3. EngineTypes'
  BY <1>1 DEF Open, EngineTypes
<1>4. \A j \in Plays : j < k => Past(j)
  BY <1>1 DEF OnlyTheLastIsActive, Plays
<1>5. OnlyTheLastIsActive'
  <2>1. \A j \in Plays : j > k => plays'[j] = "none"
    BY <1>1, <1>2 DEF OnlyTheLastIsActive, Plays
  <2>2. \A j \in Plays : j < k => Past(j)'
    BY <1>1, <1>2, <1>4 DEF Past, Plays
  <2> QED
    BY <1>1, <1>2, <2>1, <2>2 DEF OnlyTheLastIsActive, Open
<1>6. FlagFollowsBlock'
  BY <1>1, <1>2 DEF FlagFollowsBlock, Past, Open
<1>7. ordered' = ordered /\ (ordered => unflushed' = {} /\ DecoderFollowsBlock')
  BY <1>1, <1>2 DEF DecoderFollowsBlock, UsesDecoder, Open
<1> QED
  BY <1>3, <1>5, <1>6, <1>7 DEF EngineInv

(* A step of a playback's own block: only the last playback has one.       *)
LEMMA BlockKeeps ==
    ASSUME EngineInv, NEW k \in Plays, BlockSteps(k)
    PROVE  EngineInv'
<1> USE DEF EngineInv
<1>1. main' = main /\ lastPlay' = lastPlay /\ ordered' = ordered
  BY DEF BlockSteps, Block, BlockBegin, BlockLeave, BlockClose, BlockFlush, BlockRead,
         BlockClear, BlockNotify
<1>2. MaxPlays \in Nat /\ lastPlay \in Nat /\ k \in 1 .. MaxPlays
  BY PlaysAssumption DEF EngineTypes, Plays
<1>3. CASE BlockFlush(k)
  <2>1. plays' = plays /\ playing' = playing /\ ~ordered
    BY <1>3 DEF BlockFlush
  <2> QED
    BY <1>1, <2>1 DEF EngineTypes, OnlyTheLastIsActive, FlagFollowsBlock, Past
<1>4. CASE BlockNotify(k)
  <2>1. /\ plays[k] = "cleared" /\ plays' = [plays EXCEPT ![k] = "done"]
        /\ UNCHANGED <<playing, decoder, unflushed>>
    BY <1>4 DEF BlockNotify, Step
  <2>2. \A j \in Plays : plays'[j] = IF j = k THEN "done" ELSE plays[j]
    BY <2>1 DEF EngineTypes
  <2>3. EngineTypes' /\ OnlyTheLastIsActive'
    BY <1>1, <1>2, <2>1, <2>2 DEF EngineTypes, OnlyTheLastIsActive, Past
  <2>4. FlagFollowsBlock'
    BY <1>1, <1>2, <2>1, <2>2 DEF EngineTypes, FlagFollowsBlock, Past, Plays
  <2>5. ordered => unflushed' = {} /\ DecoderFollowsBlock'
    BY <1>1, <1>2, <2>1, <2>2
    DEF EngineTypes, DecoderFollowsBlock, UsesDecoder, Plays
  <2> QED
    BY <1>1, <2>3, <2>4, <2>5
<1>5. ASSUME ~Past(k), plays[k] # "none"
      PROVE  k = lastPlay
  BY <1>2, <1>5 DEF OnlyTheLastIsActive
<1>6. ASSUME NEW from, NEW to, Step(k, from, to), k = lastPlay,
             to \in {"looping", "leaving", "closed", "read", "cleared"}
      PROVE  /\ plays' \in [Plays -> {"none", "queued", "looping", "leaving",
                                      "closed", "read", "cleared", "done"}]
             /\ plays'[lastPlay] = to
             /\ OnlyTheLastIsActive'
  <2>1. \A j \in Plays : plays'[j] = IF j = k THEN to ELSE plays[j]
    BY <1>6 DEF Step, EngineTypes
  <2>2. plays' \in [Plays -> {"none", "queued", "looping", "leaving", "closed",
                              "read", "cleared", "done"}]
    BY <1>6 DEF Step, EngineTypes
  <2> QED
    BY <1>1, <1>2, <1>6, <2>1, <2>2 DEF OnlyTheLastIsActive, Past
<1>7. CASE BlockBegin(k) \/ BlockLeave(k) \/ BlockRead(k)
  <2>1. PICK from, to : /\ Step(k, from, to)
                        /\ from \in {"queued", "looping", "closed"}
                        /\ to \in {"looping", "leaving", "read"}
                        /\ (from = "closed") = (to = "read")
                        /\ UNCHANGED <<playing, decoder, unflushed>>
    BY <1>7 DEF BlockBegin, BlockLeave, BlockRead
  <2>2. k = lastPlay /\ k # 0 /\ plays[k] = from
    BY <1>2, <1>5, <2>1 DEF Step, Past
  <2>3. EngineTypes' /\ OnlyTheLastIsActive' /\ plays'[lastPlay] = to
    BY <1>1, <1>6, <2>1, <2>2 DEF EngineTypes
  <2>4. FlagFollowsBlock'
    BY <1>1, <2>1, <2>2, <2>3 DEF FlagFollowsBlock, Past
  <2>5. ordered => unflushed' = {} /\ DecoderFollowsBlock'
    BY <1>1, <2>1, <2>2, <2>3 DEF DecoderFollowsBlock, UsesDecoder
  <2> QED
    BY <1>1, <2>3, <2>4, <2>5
<1>8. CASE BlockClose(k)
  <2>1. Step(k, "leaving", "closed") /\ playing' = playing
    BY <1>8 DEF BlockClose
  <2>2. k = lastPlay /\ k # 0 /\ plays[k] = "leaving"
    BY <1>2, <1>5, <2>1 DEF Step, Past
  <2>3. EngineTypes' /\ OnlyTheLastIsActive' /\ plays'[lastPlay] = "closed"
    BY <1>1, <1>6, <2>1, <2>2 DEF EngineTypes
  <2>4. FlagFollowsBlock'
    BY <1>1, <2>1, <2>2, <2>3 DEF FlagFollowsBlock, Past
  <2>5. ordered => unflushed' = {} /\ DecoderFollowsBlock'
    BY <1>1, <1>8, <2>3 DEF BlockClose, DecoderFollowsBlock, UsesDecoder
  <2> QED
    BY <1>1, <2>3, <2>4, <2>5
<1>9. CASE BlockClear(k)
  <2>1. Step(k, "read", "cleared") /\ playing' = FALSE
        /\ UNCHANGED <<decoder, unflushed>>
    BY <1>9 DEF BlockClear
  <2>2. k = lastPlay /\ k # 0 /\ plays[k] = "read"
    BY <1>2, <1>5, <2>1 DEF Step, Past
  <2>3. EngineTypes' /\ OnlyTheLastIsActive' /\ plays'[lastPlay] = "cleared"
    BY <1>1, <1>6, <2>1, <2>2 DEF EngineTypes
  <2>4. FlagFollowsBlock'
    BY <1>1, <2>1, <2>2, <2>3 DEF FlagFollowsBlock, Past
  <2>5. ordered => unflushed' = {} /\ DecoderFollowsBlock'
    BY <1>1, <2>1, <2>2, <2>3 DEF DecoderFollowsBlock, UsesDecoder
  <2> QED
    BY <1>1, <2>3, <2>4, <2>5
<1> QED
  BY <1>3, <1>4, <1>7, <1>8, <1>9 DEF BlockSteps, Block

(* The invariant holds at first and is kept by every kind of step.         *)
LEMMA EngineInvariant == Spec => []EngineInv
<1>1. Init => EngineInv
  <2> SUFFICES ASSUME Init PROVE EngineInv
    OBVIOUS
  <2>1. EngineTypes
    <3>1. main.wait # "playQ"
      BY DEF Init, Idle
    <3>2. playing = FALSE /\ lastPlay = 0 /\ plays = [k \in Plays |-> "none"]
      BY DEF Init, PInit
    <3>3. 0 \in 0 .. MaxPlays
      BY PlaysAssumption
    <3> QED
      BY <3>1, <3>2, <3>3 DEF EngineTypes
  <2>2. OnlyTheLastIsActive /\ FlagFollowsBlock /\ DecoderFollowsBlock
    BY PlaysAssumption
    DEF Init, PInit, OnlyTheLastIsActive, FlagFollowsBlock, DecoderFollowsBlock, Plays
  <2> QED
    BY <2>1, <2>2 DEF Init, PInit, EngineInv
<1>2. EngineInv /\ [Next]_vars => EngineInv'
  <2> SUFFICES ASSUME EngineInv, [Next]_vars PROVE EngineInv'
    OBVIOUS
  <2> USE DEF EngineInv
  <2>1. ASSUME UNCHANGED pvars, (main.wait = "playQ") = (main'.wait = "playQ"),
               main'.wait = "playQ" => main' = main
        PROVE  EngineInv'
    BY <2>1 DEF pvars, EngineTypes, OnlyTheLastIsActive, FlagFollowsBlock, Past,
                DecoderFollowsBlock, UsesDecoder
  <2>2. CASE Unrelated
    BY <2>1, <2>2 DEF Unrelated
  <2>3. CASE Recording
    BY <2>1, <2>3 DEF Recording
  <2>4. CASE Stops
    BY <2>4 DEF Stops, Lower, EngineTypes, OnlyTheLastIsActive, FlagFollowsBlock,
                Past, DecoderFollowsBlock, UsesDecoder
  <2>5. CASE Begins
    <3>1. lastPlay # 0 => Past(lastPlay)
      BY <2>5 DEF Begins, FlagFollowsBlock
    <3> QED
      BY <2>5, <3>1, OpenKeeps DEF Begins
  <2>6. CASE Resumes
    <3>1. lastPlay # 0 => Past(lastPlay)
      BY <2>6 DEF Resumes, QueueEmpty, Past
    <3>2. main'.wait # "playQ"
      BY <2>6 DEF Resumes, Idle
    <3>3. CASE \E k \in Plays : Open(k)
      BY <3>1, <3>2, <3>3, OpenKeeps
    <3>4. CASE UNCHANGED pvars
      BY <2>6, <3>1, <3>2, <3>4
      DEF Resumes, pvars, EngineTypes, OnlyTheLastIsActive, FlagFollowsBlock, Past,
          DecoderFollowsBlock, UsesDecoder
    <3> QED
      BY <2>6, <3>3, <3>4 DEF Resumes
  <2>7. ASSUME NEW k \in Plays, BlockSteps(k) PROVE EngineInv'
    BY <2>7, BlockKeeps
  <2> QED
    BY <2>2, <2>3, <2>4, <2>5, <2>6, <2>7, StepKinds
<1> QED
  BY <1>1, <1>2, PTL DEF Spec

-----------------------------------------------------------------------------
(* On a CPU that keeps stores in order, the decoder a block reads is the   *)
(* one opened for it, whatever the user does: the flag, the queue and the  *)
(* main thread together are as good as a lock.                             *)
THEOREM DecoderExclusive == Spec => []DecoderHasOneUser
<1>1. EngineInv => DecoderHasOneUser
  <2> SUFFICES ASSUME EngineInv, ordered PROVE DecoderHasOneUser
    BY DEF DecoderHasOneUser
  <2>1. MaxPlays \in Nat /\ lastPlay \in 0 .. MaxPlays /\ DecoderFollowsBlock
    BY PlaysAssumption DEF EngineInv, EngineTypes
  <2>2. \A k \in Plays : UsesDecoder(k) => k = lastPlay
    BY <2>1 DEF EngineInv, OnlyTheLastIsActive, UsesDecoder, Past, Plays
  <2>3. \A k \in Plays : UsesDecoder(k) => decoder = k
    BY <2>1, <2>2 DEF DecoderFollowsBlock, Plays
  <2>4. decoder # 0 => UsesDecoder(decoder)
    BY <2>1 DEF DecoderFollowsBlock
  <2>5. playing => lastPlay # 0 /\ plays[lastPlay] \notin {"cleared", "done"}
    BY DEF EngineInv, FlagFollowsBlock, Past
  <2> QED
    BY <2>3, <2>4, <2>5 DEF DecoderHasOneUser
<1> QED
  BY <1>1, EngineInvariant, PTL

(* No file is removed under a decoder, on any CPU.                         *)
THEOREM RemovalsAreSafe == Spec => RemovesOnlyWhenReleased
<1>1. EngineInv /\ [Next]_vars
        => [~(disk \subseteq disk') => \A k \in Plays : ~UsesDecoder(k)]_vars
  <2> SUFFICES ASSUME EngineInv, [Next]_vars, ~(disk \subseteq disk'),
                      NEW k \in Plays
               PROVE  ~UsesDecoder(k)
    OBVIOUS
  <2>1. lastPlay # 0 => Past(lastPlay)
    BY StepKinds DEF EngineInv, FlagFollowsBlock, QueueEmpty, Past
  <2>2. plays[k] = "none" \/ Past(k)
    BY <2>1, PlaysAssumption DEF EngineInv, EngineTypes, OnlyTheLastIsActive, Plays
  <2> QED
    BY <2>2 DEF UsesDecoder, Past
<1> QED
  BY <1>1, EngineInvariant, PTL DEF Spec, RemovesOnlyWhenReleased

-----------------------------------------------------------------------------
(* Types.                                                                  *)

TypeInv == TypeOK /\ unflushed \subseteq Plays

LEMMA OpenTypes ==
    ASSUME PTypeOK, unflushed \subseteq Plays, NEW k \in Plays, Open(k)
    PROVE  PTypeOK' /\ unflushed' \subseteq Plays
<1>1. k \in 0 .. MaxPlays /\ plays[k] = "none"
  BY PlaysAssumption DEF Plays, Open
<1>2. \A j \in unflushed : plays'[j] = plays[j]
  BY <1>1 DEF Open, PTypeOK
<1> QED
  BY <1>1, <1>2 DEF Open, PTypeOK

LEMMA BlockTypes ==
    ASSUME PTypeOK, unflushed \subseteq Plays, NEW k \in Plays, Block(k)
    PROVE  PTypeOK' /\ unflushed' \subseteq Plays
<1>1. CASE BlockFlush(k)
  BY <1>1, PlaysAssumption DEF BlockFlush, PTypeOK
<1>2. ASSUME NEW from, NEW to, Step(k, from, to),
             to \in {"looping", "leaving", "closed", "read", "cleared", "done"}
      PROVE  /\ plays' \in [Plays -> {"none", "queued", "looping", "leaving", "closed",
                                       "read", "cleared", "done"}]
             /\ \A j \in Plays : plays'[j] = IF j = k THEN to ELSE plays[j]
  BY <1>2 DEF Step, PTypeOK
<1>3. CASE BlockBegin(k) \/ BlockLeave(k)
  BY <1>2, <1>3 DEF BlockBegin, BlockLeave, PTypeOK, Step
<1>4. CASE BlockClose(k)
  BY <1>2, <1>4, PlaysAssumption DEF BlockClose, PTypeOK, Step
<1>5. CASE BlockRead(k)
  BY <1>2, <1>5 DEF BlockRead, PTypeOK
<1>6. CASE BlockClear(k) \/ BlockNotify(k)
  BY <1>2, <1>6 DEF BlockClear, BlockNotify, PTypeOK
<1> QED
  BY <1>1, <1>3, <1>4, <1>5, <1>6 DEF Block

\* What the user does that may have to stop a playback first.
Requests == \/ ClickStop \/ ClickRecord
            \/ \E c \in records : DoubleClick(c) \/ ClickPlay(c) \/ ClickDelete(c)

LEMMA RequestsStop ==
    ASSUME Requests
    PROVE  main = Idle /\ \E then : then.do \in Handlers /\ StopPlaybackThen(then)
<1>1. CASE \E c \in records : DoubleClick(c) \/ ClickPlay(c) \/ ClickDelete(c)
  <2>1. PICK c \in records : DoubleClick(c) \/ ClickPlay(c) \/ ClickDelete(c)
    BY <1>1
  <2>2. [do |-> "play", clip |-> c].do \in Handlers
    BY DEF Handlers
  <2>3. [do |-> "delete", clip |-> c].do \in Handlers
    BY DEF Handlers
  <2> QED
    BY <2>1, <2>2, <2>3 DEF DoubleClick, ClickPlay, ClickDelete
<1>2. CASE ClickStop \/ ClickRecord
  <2>1. [do |-> "show"].do \in Handlers /\ [do |-> "record"].do \in Handlers
    BY DEF Handlers
  <2> QED
    BY <1>2, <2>1 DEF ClickStop, ClickRecord
<1> QED
  BY <1>1, <1>2 DEF Requests

(* The variables of the window, for the rest of each handler.              *)
AppTypes ==
    /\ records \subseteq Clips \cup Starts /\ disk \subseteq Clips \cup Starts
    /\ starts \in [Starts -> {"none", "setup", "opened", "live", "ended", "abandoned"}]
    /\ running \in BOOLEAN
    /\ encoder \in 0 .. MaxStarts /\ unfinished \subseteq Starts

LEMMA ContinueTypes ==
    ASSUME AppTypes, NEW then, NEW u, then.do \in Handlers, Continue(then, u)
    PROVE  AppTypes'
<1>1. CASE then.do = "play"
  BY <1>1 DEF Continue, StartPlayItem, files, capture, AppTypes
<1>2. CASE then.do = "record"
  BY <1>2 DEF Continue, BeginRecording, files, AppTypes
<1>3. CASE then.do = "show"
  BY <1>3 DEF Continue, ShowStopped, files, capture, AppTypes
<1>4. CASE then.do = "delete"
  BY <1>4 DEF Continue, DeleteClip, capture, AppTypes
<1> QED
  BY <1>1, <1>2, <1>3, <1>4 DEF Handlers

LEMMA AppTypesStep ==
    ASSUME AppTypes, EngineTypes, [Next]_vars PROVE AppTypes'
<1>1. CASE UNCHANGED vars \/ Started \/ Failed \/ Complete \/ ClickStopRecording \/ ClickRefresh
           \/ \E k \in Plays : Engine(k)
  BY <1>1 DEF vars, avars, files, capture, Started, Failed, Complete, ClickStopRecording,
              ClickRefresh, Engine, AppTypes
<1>2. CASE PlaybackStopped
  BY <1>2, ContinueTypes DEF PlaybackStopped, EngineTypes
<1>3. CASE RecordingStopped
  BY <1>3, StartsAssumption DEF RecordingStopped, AppTypes
<1>4. ASSUME NEW then, then.do \in Handlers, StopPlaybackThen(then) PROVE AppTypes'
  BY <1>4, ContinueTypes DEF StopPlaybackThen, files, capture, AppTypes
<1>5. CASE Requests
  BY <1>4, <1>5, RequestsStop
<1>7. ASSUME NEW s \in Starts, CaptureStart(s) PROVE AppTypes'
  <2>1. s \in 0 .. MaxStarts /\ 0 \in 0 .. MaxStarts
    BY StartsAssumption DEF Starts
  <2> QED
    BY <1>7, <2>1 DEF CaptureStart, StartFails, StartOpens, StartOpenFails, StartInfoFails,
                      StartRuns, StartReports, SStep, files, AppTypes
<1> QED
  BY <1>1, <1>2, <1>3, <1>5, <1>7 DEF Next, MainThread, User, Requests

LEMMA MainStep ==
    ASSUME main.wait \in {"nothing", "playQ", "encodeQ"}, [Next]_vars
    PROVE  main'.wait \in {"nothing", "playQ", "encodeQ"}
<1>1. CASE UNCHANGED vars \/ Started \/ Failed \/ Complete \/ ClickRefresh
           \/ (\E k \in Plays : Engine(k)) \/ (\E s \in Starts : CaptureStart(s))
  BY <1>1 DEF vars, avars, Started, Failed, Complete, ClickRefresh, Engine, CaptureStart,
              StartFails, StartOpens, StartOpenFails, StartInfoFails, StartRuns, StartReports
<1>2. CASE PlaybackStopped \/ RecordingStopped \/ ClickStopRecording
  BY <1>2 DEF PlaybackStopped, RecordingStopped, ClickStopRecording, Idle
<1>3. ASSUME NEW then, StopPlaybackThen(then)
      PROVE  main'.wait \in {"nothing", "playQ", "encodeQ"}
  BY <1>3 DEF StopPlaybackThen
<1>4. CASE Requests
  BY <1>3, <1>4, RequestsStop
<1> QED
  BY <1>1, <1>2, <1>4 DEF Next, MainThread, User, Requests

(* Every variable keeps its type, for any number of clips, recordings and  *)
(* playbacks, and a block that has ended has flushed its stores.           *)
THEOREM AppTypeCorrect == Spec => []TypeOK
<1>1. Init => TypeInv
  <2> SUFFICES ASSUME Init PROVE TypeInv
    OBVIOUS
  <2>1. PTypeOK /\ unflushed \subseteq Plays
    <3>1. 0 \in 0 .. MaxPlays
      BY PlaysAssumption
    <3> QED
      BY <3>1, Zenon DEF Init, PInit, PTypeOK
  <2>2. AppTypes
    <3>1. 0 \in 0 .. MaxStarts
      BY StartsAssumption
    <3> QED
      BY <3>1, Zenon DEF Init, AppTypes
  <2>3. main.wait = "nothing"
    BY DEF Init, Idle
  <2> QED
    BY <2>1, <2>2, <2>3 DEF TypeInv, TypeOK, AppTypes
<1>2. TypeInv /\ EngineInv /\ [Next]_vars => TypeInv'
  <2> SUFFICES ASSUME TypeInv, EngineInv, [Next]_vars PROVE TypeInv'
    OBVIOUS
  <2>1. EngineTypes /\ PTypeOK /\ unflushed \subseteq Plays /\ AppTypes
    BY DEF EngineInv, TypeInv, TypeOK, AppTypes
  <2>2. AppTypes'
    BY <2>1, AppTypesStep
  <2>3. main'.wait \in {"nothing", "playQ", "encodeQ"}
    BY MainStep DEF TypeInv, TypeOK
  <2>4. PTypeOK' /\ unflushed' \subseteq Plays
    <3>1. ASSUME UNCHANGED pvars PROVE PTypeOK' /\ unflushed' \subseteq Plays
      BY <2>1, <3>1 DEF pvars, PTypeOK
    <3>2. ASSUME Lower PROVE PTypeOK' /\ unflushed' \subseteq Plays
      BY <2>1, <3>2 DEF Lower, PTypeOK
    <3>3. ASSUME NEW k \in Plays, Open(k) PROVE PTypeOK' /\ unflushed' \subseteq Plays
      BY <2>1, <3>3, OpenTypes
    <3>4. ASSUME NEW k \in Plays, Block(k) PROVE PTypeOK' /\ unflushed' \subseteq Plays
      BY <2>1, <3>4, BlockTypes
    <3> QED
      BY <2>1, <3>1, <3>2, <3>3, <3>4, StepKinds
      DEF Unrelated, Recording, Stops, Begins, Resumes, BlockSteps
  <2> QED
    BY <2>2, <2>3, <2>4 DEF TypeInv, TypeOK, AppTypes
<1>3. TypeInv => TypeOK
  BY DEF TypeInv
<1> QED
  BY <1>1, <1>2, <1>3, EngineInvariant, PTL DEF Spec

-----------------------------------------------------------------------------
(* The capture session.  Until recordings overlap there is at most one     *)
(* start in progress, and how far it is says what the encoder holds.       *)

Setup(s)  == starts[s] = "setup"
Opened(s) == starts[s] = "opened"
Going(s)  == starts[s] \in {"setup", "opened", "live"}

CaptureInv ==
    /\ unfinished = Abandoned \cup IF encoder = 0 THEN {} ELSE {encoder}
    /\ encoder \notin Abandoned
    /\ running => encoder # 0 /\ main.wait # "encodeQ"
    /\ \A s, r \in Starts : Going(s) /\ Going(r) => s = r
    /\ \A s \in Starts : Setup(s) => encoder = 0 /\ ~running /\ main.wait # "encodeQ"
    /\ \A s \in Starts : Opened(s) => encoder = s /\ ~running /\ main.wait # "encodeQ"
    /\ ~running /\ main.wait # "encodeQ" /\ (\A s \in Starts : ~Opened(s)) => encoder = 0

\* What InProgress says, in the terms of CaptureInv.
LEMMA ProgressIs == InProgress <=> (running \/ \E s \in Starts : Going(s))
  BY DEF InProgress, Going

LEMMA ClosedAtRest == ASSUME CaptureInv, ~InProgress, main.wait # "encodeQ" PROVE encoder = 0
  BY DEF CaptureInv, InProgress, Opened

\* A step that concerns neither the capture session nor the wait for it.
LEMMA CaptureKept ==
    ASSUME CaptureInv, UNCHANGED capture, (main.wait = "encodeQ") = (main'.wait = "encodeQ")
    PROVE  CaptureInv'
  BY DEF CaptureInv, Abandoned, capture, Setup, Opened, Going

\* A recording begins while the main thread waits for nothing of the capture
\* session.
LEMMA BeginKeeps ==
    ASSUME AppTypes, CaptureInv, NEW u, BeginRecording(u), main.wait # "encodeQ",
           main'.wait # "encodeQ", ~overlapped'
    PROVE  CaptureInv'
<1>1. ~InProgress /\ encoder = 0 /\ unfinished = Abandoned /\ ~running
  BY ClosedAtRest DEF BeginRecording, CaptureInv, InProgress
<1>2. PICK b \in Starts : /\ starts[b] = "none"
                          /\ starts' = [starts EXCEPT ![b] = "setup"]
  BY DEF BeginRecording
<1>3. \A s \in Starts : starts'[s] = IF s = b THEN "setup" ELSE starts[s]
  BY <1>2 DEF AppTypes
<1>4. \A s \in Starts : ~Going(s)
  BY <1>1, ProgressIs
<1>5. Abandoned' = Abandoned
  BY <1>2, <1>3 DEF Abandoned, BeginRecording
<1>6. encoder' = 0 /\ unfinished' = Abandoned' /\ ~running'
  BY <1>1, <1>5 DEF BeginRecording
<1>7. 0 \notin Abandoned'
  BY StartsAssumption DEF Abandoned, Starts
<1> QED
  BY <1>3, <1>4, <1>6, <1>7 DEF CaptureInv, Setup, Opened, Going

LEMMA ContinueKeeps ==
    ASSUME AppTypes, CaptureInv, NEW then, NEW u, then.do \in Handlers, Continue(then, u),
           main.wait # "encodeQ", main'.wait # "encodeQ", ~overlapped'
    PROVE  CaptureInv'
<1>1. CASE then.do = "record"
  BY <1>1, BeginKeeps DEF Continue
<1>2. CASE then.do \in {"play", "show", "delete"}
  <2>1. UNCHANGED capture
    BY <1>2 DEF Continue, StartPlayItem, ShowStopped, DeleteClip
  <2> QED
    BY <2>1, CaptureKept
<1> QED
  BY <1>1, <1>2 DEF Handlers

LEMMA StartKeeps ==
    ASSUME AppTypes, CaptureInv, NEW s \in Starts, CaptureStart(s)
    PROVE  CaptureInv'
<1>1. ASSUME NEW from, NEW to, SStep(s, from, to)
      PROVE  \A r \in Starts : starts'[r] = IF r = s THEN to ELSE starts[r]
  BY <1>1 DEF SStep, AppTypes
<1>2. main' = main
  BY DEF CaptureStart, StartFails, StartOpens, StartOpenFails, StartInfoFails, StartRuns, StartReports
<1>3. ASSUME NEW from, NEW to, SStep(s, from, to), from # "abandoned"
      PROVE  Abandoned' = IF to = "abandoned" THEN Abandoned \cup {s} ELSE Abandoned
  BY <1>1, <1>3 DEF SStep, Abandoned
<1>a. s # 0 /\ 0 \notin Starts /\ \A r \in Starts : Going(s) /\ r # s => ~Going(r)
  BY StartsAssumption DEF Starts, CaptureInv
<1>b. 0 \notin Abandoned /\ 0 \notin Abandoned'
  BY <1>a DEF Abandoned
<1>4. CASE StartFails(s)
  <2>1. /\ \A r \in Starts : starts'[r] = IF r = s THEN "ended" ELSE starts[r]
        /\ Abandoned' = Abandoned /\ starts[s] = "setup"
        /\ UNCHANGED <<running, encoder, unfinished>>
    BY <1>1, <1>3, <1>4 DEF StartFails, SStep
  <2> QED
    BY <1>2, <2>1 DEF CaptureInv, Setup, Opened, Going
<1>5. CASE StartOpens(s)
  <2>1. /\ Going(s) /\ encoder = 0 /\ unfinished = Abandoned /\ s \notin Abandoned
        /\ ~running /\ main.wait # "encodeQ"
    BY <1>5 DEF StartOpens, SStep, CaptureInv, Setup, Going, Abandoned
  <2>2. /\ \A r \in Starts : starts'[r] = IF r = s THEN "opened" ELSE starts[r]
        /\ Abandoned' = Abandoned
    BY <1>1, <1>3, <1>5 DEF StartOpens, SStep
  <2>3. encoder' = s /\ unfinished' = Abandoned' \cup {s} /\ s \notin Abandoned' /\ ~running'
    BY <1>5, <2>1, <2>2 DEF StartOpens
  <2> QED
    BY <1>2, <1>a, <2>1, <2>2, <2>3 DEF CaptureInv, Setup, Opened, Going
<1>6. CASE StartOpenFails(s) \/ StartInfoFails(s)
  <2>1. /\ Going(s) /\ encoder = 0 /\ unfinished = Abandoned
        /\ ~running /\ main.wait # "encodeQ" /\ running' = running /\ encoder' = 0
    BY <1>6 DEF StartOpenFails, StartInfoFails, SStep, CaptureInv, Setup, Going
  <2>2. unfinished' = Abandoned'
    BY <1>3, <1>6, <2>1 DEF StartOpenFails, StartInfoFails, SStep
  <2>3. \A r \in Starts : r # s => starts'[r] = starts[r]
    BY <1>1, <1>6 DEF StartOpenFails, StartInfoFails
  <2>4. starts'[s] \in {"ended", "abandoned"}
    BY <1>1, <1>6 DEF StartOpenFails, StartInfoFails
  <2> QED
    BY <1>2, <1>a, <1>b, <2>1, <2>2, <2>3, <2>4 DEF CaptureInv, Setup, Opened, Going
<1>7. CASE StartRuns(s)
  <2>1. /\ Going(s) /\ encoder = s /\ unfinished = Abandoned \cup {s} /\ s \notin Abandoned
        /\ main.wait # "encodeQ"
    BY <1>7, <1>a DEF StartRuns, SStep, CaptureInv, Opened, Going
  <2>2. /\ \A r \in Starts : starts'[r] = IF r = s THEN "live" ELSE starts[r]
        /\ Abandoned' = Abandoned
    BY <1>1, <1>3, <1>7 DEF StartRuns, SStep
  <2>3. encoder' = s /\ unfinished' = Abandoned' \cup {s} /\ s \notin Abandoned' /\ running'
    BY <1>7, <2>1, <2>2 DEF StartRuns
  <2> QED
    BY <1>2, <1>a, <2>1, <2>2, <2>3 DEF CaptureInv, Setup, Opened, Going
<1>8. CASE StartReports(s)
  <2>1. /\ \A r \in Starts : starts'[r] = IF r = s THEN "ended" ELSE starts[r]
        /\ Abandoned' = Abandoned /\ starts[s] = "live"
        /\ UNCHANGED <<running, encoder, unfinished>>
    BY <1>1, <1>3, <1>8 DEF StartReports, SStep
  <2> QED
    BY <1>2, <2>1 DEF CaptureInv, Setup, Opened, Going
<1> QED
  BY <1>4, <1>5, <1>6, <1>7, <1>8 DEF CaptureStart

LEMMA CaptureStep ==
    ASSUME AppTypes, EngineTypes, CaptureInv, [Next]_vars, ~overlapped'
    PROVE  CaptureInv'
<1>1. CASE UNCHANGED vars \/ Started \/ Failed \/ Complete \/ ClickRefresh
           \/ \E k \in Plays : Engine(k)
  BY <1>1, CaptureKept
  DEF vars, avars, Started, Failed, Complete, ClickRefresh, Engine
<1>2. CASE PlaybackStopped
  BY <1>2, ContinueKeeps DEF PlaybackStopped, EngineTypes, Idle
<1>3. CASE RecordingStopped
  <2>1. UNCHANGED <<starts, running>> /\ encoder' = 0 /\ main'.wait # "encodeQ"
    BY <1>3 DEF RecordingStopped, Idle
  <2>2. 0 \notin Abandoned /\ Abandoned' = Abandoned
    BY <2>1, StartsAssumption DEF Abandoned, Starts
  <2>3. unfinished' = Abandoned' /\ ~running
    BY <1>3, <2>2 DEF RecordingStopped, CaptureInv
  <2> QED
    BY <1>3, <2>1, <2>2, <2>3 DEF RecordingStopped, CaptureInv, Setup, Opened, Going
<1>4. ASSUME NEW then, then.do \in Handlers, main = Idle, StopPlaybackThen(then)
      PROVE  CaptureInv'
  <2>1. main.wait # "encodeQ"
    BY <1>4 DEF Idle
  <2>2. CASE ~playing /\ UNCHANGED main /\ Continue(then, ui)
    BY <1>4, <2>1, <2>2, ContinueKeeps
  <2>3. CASE UNCHANGED capture /\ main' = [wait |-> "playQ", then |-> then]
    BY <2>1, <2>3, CaptureKept
  <2> QED
    BY <1>4, <2>2, <2>3 DEF StopPlaybackThen
<1>5. CASE Requests
  BY <1>4, <1>5, RequestsStop
<1>7. CASE ClickStopRecording
  <2>1. /\ running /\ ~running' /\ main'.wait = "encodeQ"
        /\ UNCHANGED <<starts, encoder, unfinished>>
    BY <1>7 DEF ClickStopRecording
  <2> QED
    BY <2>1 DEF CaptureInv, Abandoned, Setup, Opened, Going
<1>8. CASE \E s \in Starts : CaptureStart(s)
  BY <1>8, StartKeeps
<1> QED
  BY <1>1, <1>2, <1>3, <1>5, <1>7, <1>8 DEF Next, MainThread, User, Requests

\* An overlap is remembered.
LEMMA OverlapStays ==
    ASSUME EngineTypes, [Next]_vars, overlapped PROVE overlapped'
<1>1. ASSUME NEW then, NEW u, then.do \in Handlers, Continue(then, u) PROVE overlapped'
  BY <1>1 DEF Handlers, Continue, StartPlayItem, BeginRecording, ShowStopped, DeleteClip, capture
<1>2. CASE UNCHANGED vars \/ Started \/ Failed \/ Complete \/ ClickStopRecording \/ ClickRefresh
           \/ RecordingStopped \/ (\E k \in Plays : Engine(k)) \/ \E s \in Starts : CaptureStart(s)
  BY <1>2 DEF vars, avars, capture, Started, Failed, Complete, ClickStopRecording, ClickRefresh,
              RecordingStopped, Engine, CaptureStart, StartFails, StartOpens, StartOpenFails,
              StartInfoFails, StartRuns, StartReports
<1>3. CASE PlaybackStopped
  BY <1>1, <1>3 DEF PlaybackStopped, EngineTypes
<1>4. ASSUME NEW then, then.do \in Handlers, StopPlaybackThen(then) PROVE overlapped'
  BY <1>1, <1>4 DEF StopPlaybackThen, capture
<1>5. CASE Requests
  BY <1>4, <1>5, RequestsStop
<1> QED
  BY <1>2, <1>3, <1>5 DEF Next, MainThread, User, Requests

(* For any number of recordings and playbacks, as long as no recording is  *)
(* asked for during another: a recording that was stopped leaves no file   *)
(* without its index, and one that never began leaves a file open only     *)
(* where encoder_open itself returned an error without closing it.         *)
THEOREM RecordingsAreClosed == Spec => []StoppedRecordingIsClosed
<1> DEFINE Inv == overlapped \/ CaptureInv
<1>1. Init => Inv
  <2> SUFFICES ASSUME Init PROVE CaptureInv
    OBVIOUS
  <2>1. /\ \A s \in Starts : starts[s] = "none"
        /\ running = FALSE /\ encoder = 0 /\ unfinished = {} /\ main.wait # "encodeQ"
    BY DEF Init, Idle
  <2>2. Abandoned = {}
    BY <2>1 DEF Abandoned
  <2> QED
    BY <2>1, <2>2 DEF CaptureInv, Setup, Opened, Going
<1>2. Inv /\ TypeOK /\ EngineInv /\ [Next]_vars => Inv'
  <2> SUFFICES ASSUME Inv, TypeOK, EngineInv, [Next]_vars, ~overlapped' PROVE CaptureInv'
    OBVIOUS
  <2>1. AppTypes /\ EngineTypes
    BY DEF TypeOK, AppTypes, EngineInv
  <2>2. ~overlapped
    BY <2>1, OverlapStays
  <2> QED
    BY <2>1, <2>2, CaptureStep
<1>3. Inv => StoppedRecordingIsClosed
  BY ClosedAtRest DEF StoppedRecordingIsClosed, CaptureInv
<1> QED
  BY <1>1, <1>2, <1>3, AppTypeCorrect, EngineInvariant, PTL DEF Spec
=============================================================================
