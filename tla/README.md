# A verification development for CRAP

CRAP is a video and audio codec with its own container format (`.crap`), a command-line
recorder (`craprec`), a player (`crapplay`) and a macOS application that records and
plays (`crappr`). This directory holds TLA+ models of the program, the TLC
configurations that check them on small instances, and proofs, checked by TLAPS, of what
matters most for every instance.

Source paths below are those of `PROJECT.json`, relative to the directory that holds
`src/`: `src/src/container.c` is the file `src/container.c` of the repository.

## 1. The system

### Components, their state and their operations

| Component | Source | State | Operations |
|---|---|---|---|
| Container writer | `src/src/container.c`, driven by `src/encoder/encoder.c`, `src/src/audio.c` | `CrapContext`: header, streams, index with its capacity, `last_pts`; the stdio buffer and the file | `encoder_open`, `crap_write_streaminfo`, `crap_write_frame`, `crap_write_index`, `encoder_close` |
| Container reader | `src/src/container.c` | file position, loaded index, stream table, the caller's frame header | `crap_open_read`, `crap_peek_frame`, `crap_read_frame_data`, `crap_skip_frame`, `crap_seek_pts`, `crap_close` |
| Recording pipeline | `src/capture/capture.m` 20-154, `src/tools/crappr.m` 378-494 | `running`, `start_us`, the encode queue, one callback per source, malloc'ed sample copies | `captureOutput`, the block it dispatches |
| craprec | `src/capture/capture.m` 157-298 | where `capture_run` is, `g_stop`, the signal handlers | open, start, sleep, stop, drain, close; `handle_sig` |
| Audio ring | `src/player/player.c` 14-41, `src/tools/crappr.m` 89-118 | a byte ring, `rpos`, `wpos` | `push_audio`/`playSamples`, `audio_callback`/`fillBuffer` |
| Playback loop of crapplay | `src/player/player.c` 64-196 | `running`, `start_pts`, `start_wall`, the clock, the ring | `player_run`: events, read, decode, wait, show, drain, close |
| crappr: playback engine | `src/tools/crappr.m` 533-658 | `_playing`, `_decoder`, the playback queue, `onComplete` | `startPlaybackPath` and its block, `stopPlayback` |
| crappr: window and capture session | `src/tools/crappr.m` 265-376, 496-513, 750-1067 | buttons, `_records`, `_running`, `_encoder`, the main queue | every button and table handler, `startRecordingPath`, `stopRecording` |
| Decoder | `src/decoder/decoder.c` | position in the file, local buffers, the frame in hand, frames held by the caller | `decoder_next_frame`, `decoder_release_frame`, `decoder_close` |
| Memory pool | `src/src/pool.c` | a free list threaded through the free blocks | `pool_init`, `pool_acquire`, `pool_release` |
| Frame queue | `src/src/framequeue.c`, `src/include/framequeue.h` | `head`, `tail`, slots | `fq_init`, push, pop, peek, reset |
| Entropy coder, bitstream | `src/src/entropy.c`, `src/include/bitstream.h` | a bit buffer, a position in it | encode and decode a block, align |
| Kernels | `src/src/quant.c`, `dct.c`, `colorspace.c`, `frame.c`, `src/include/frame.h` | none (pure) | tables, transforms, colour conversion, geometry of planes |
| Picture path | `src/encoder/encoder.c` 45-113, `src/decoder/decoder.c` 84-140 | planes, the block at hand | the loops over planes and blocks |
| Stubs | `src/parser`, `crapinfo.c`, `utils.c` | none | |

### How they interact

Two AVFoundation queues (camera, microphone) call the delegate. A callback stamps its
buffer with the time since `start_us`, copies it and dispatches a block to the serial
encode queue; that block turns the picture into quantised, entropy coded blocks and
writes them into the one container writer. The owner (`capture_run` on the main thread,
or the window through `startRecordingPath` and `stopRecording`) opens and closes the
encoder and tells the pipeline to stop by clearing `running` and waiting behind the
queue.

Playback is the mirror image: a loop (in crappr, a block on a queue of its own) peeks,
reads or skips frames through the container reader, decodes and draws the pictures at
their time, and pushes the sound into a ring that the audio thread empties.
`decoder_next_frame` takes its frames from the memory pool. In crappr the block and the
main thread share `_playing` and `_decoder` without a lock, and reports travel through
the main queue. No program links the frame queue yet.

### What is hard

* **Crash.** A recorder can die at any point. The file must then still open and play up
  to where it was cut.
* **Partial failure.** A chunk is three `fwrite`s, and an index entry is made before the
  allocation and the write of its frame. `encoder_close` looks at none of `rewind`, the
  rewriting of the header and `fclose`. A call of the decoder can fail in six places,
  each with other things to give back.
* **Threads.** `running` and `start_us` are plain properties; callbacks that have seen
  `running` may act long after it was cleared; sample copies change hands twice. The
  frame queue has two threads and no lock.
* **The main queue.** Completions arrive after what they report on is over; handlers
  make the main thread wait for queues that report to it; the buttons are the only
  protection against overlapping requests.
* **Time.** The player waits for differences between time stamps of the file and its own
  clock, and at the end for a ring that another thread is emptying.
* **Limits.** The audio ring never looks for free space; counters wrap; a buffer is
  measured before it is known what goes into it.

`PROJECT.json` lists these hazards one by one, each at its line, with the properties
about it.

## 2. Modules

```
CrapFormat --- ContainerWriter --- CrapFile --- MCCrapFile, CrapFile_proofs
     |                               |  |
     |                               |  +-- FrameStore    (abstract, refined by CrapFile)
     +--- ContainerReader -----------+       (INSTANCE, reads what the writer left)

CaptureQueue --- Craprec --- Craprec_proofs
CrapprPlayback --- CrapprApp --- CrapprApp_proofs
AudioRing --- Player --- MCPlayer, Rings_proofs
FrameQueue --- Rings_proofs
     +-- FrameFifo                                       (abstract, refined by FrameQueue)
MemPool --- Decoder --- MCDecoder, Decoder_proofs
Bitstream --- Entropy --- MCEntropy, Entropy_proofs
Planes, Transform --- Picture --- MCPicture, Picture_proofs
Modular                    (lemmas on division and least numbers, used by the proofs)
```

**CrapFormat** is the layout. A file is a sequence of *cells*; a cell is one on-disk
struct, one CRC or one unit of encoded payload, and an offset is a number of cells.
Writes tear at cell boundaries. A CRC cell holds the payload it was computed over, so a
checksum is taken to be collision free.

**ContainerWriter** has one action per outcome of each operation. `file` is everything
`fwrite` accepted and `synced` how much of it has certainly reached the disk. Each write
takes a number `k` of cells that get out: all of them, or fewer at the price of a fault.
`RecordEntry` is shared by the outcomes of `crap_write_frame`, because in the code the
entry is made, and `last_pts` raised, before anything can fail. `FinishHeader` is the
`rewind` of `encoder_close` with the header that follows: `rewind` flushes the buffer
and then seeks, and when it cannot flush it does not seek, so that the header lands at
the end (`FinishHeaderNoFlush`). `Crash` leaves any prefix that is at least `synced`
long, and a buffered final header may or may not have got out.

**ContainerReader** is `container.c` over a finished file. `rst` says what the last call
left behind: `ready` (between two chunks), `peeked` (behind the header of a frame),
`ended` (a peek or a read met the end), `toolarge` (the caller's buffer, one of
`Buffers`, was too small, and nothing was consumed), `starved` (no memory for the
checksum, whose bytes are still to come). Nothing stops a caller from peeking again in
the last four, in the middle of a chunk, and bytes of one struct are then taken for
another, as they are when a scan resumes inside a torn chunk: the state is `lost`, what
a call returns there is arbitrary, and only a seek ends it.

**FrameStore** is what a file promises: a log that is appended to, sealed (or cut to a
prefix by a kill) and then opened, looked at frame by frame, taken or skipped, or
searched for a keyframe. Each refusal has to have a reason that the store knows: it is
the end, the frame is larger than the buffer, memory ran out. A seek is tied to its
request: `asked` holds the stream and the time it was called with, and the cursor must
move to the earliest of the latest keyframes of *that* stream not after *that* time, or,
if the call fails, there is none (or the recorder was killed and left no index).
**CrapFile** puts writer and reader around one file, adds damage from outside and gives
the refinement mapping: the log is the accepted frames that lie wholly in the file, the
cursor the first of them behind the reader's position, and `asked` is the reader's
`sought`. Writer, reader and outside may do what they like; the refinement is claimed
for each behaviour up to the step at which it stops being `Undisturbed` (the first
failed write or flush, or damage), and everything else of the runs beyond it.

**CaptureQueue** is the delegate with its callbacks, blocks and buffers; the module that
extends it owns the encoder and the session. **Craprec** is that owner in the
command-line tool, line by line, with a signal at any moment. The store to `start_us`
becomes visible at `PublishStart`, any time after `StampStart`: that is arm64, the
platform the project releases for. Where stores are ordered `PublishStart` simply comes
before `SetRunning`, one of the behaviours explored.

**AudioRing** numbers the bytes in the order they are pushed. Both loops run under one
mutex, so each is a single action (`AfterPush` says which byte ends on each position,
laps included); `Unheard` counts the bytes pushed after the last one heard, which, unlike
`Avail`, does not forget whole laps. **Player** is `player_run` around it: one action for the events, for
what `crap_read_frame` finds, for the computation of a wait, for showing a frame, for
the drain at the end; `Tick` is the clock together with a device that asks at its rate,
`Callback` a device that asks whenever it likes. A clock tick is a millisecond, and
`Milli` the microseconds in it.

**CrapprPlayback** is the playback block, a step per access to shared state, and what
the main thread does to the engine. **CrapprApp** is the window: every handler as one
action of the main thread, cut in two where `stopPlayback` or `stopRecording` makes the
thread wait (`main.wait`). `starts` follows each `startRecordingPath` on its global
queue, and `mainq` is the main queue. `encoder_open` can fail in two ways: `crap_open_write`
closes what it opened (`StartOpenFails`), but a stream info that cannot be written makes
it return with the file open, and `startRecordingPath` returns as well
(`StartInfoFails`): that file is `Abandoned`, nobody closes it.

**FrameQueue** splits every call at its accesses to shared memory. The machine either
keeps the slot and the counter in order (`ordered`, a variable chosen once) or may
exchange them: push then shows the tail before the slot, pop loads a slot before its
check or after the head has moved. Counters are words of `WordBits` bits and wrap.
**FrameFifo** is the bounded queue that `framequeue.h` promises, with a peek that tells
what the next pop returns.

**MemPool** keeps the free list as the code does, in the first word of each free block,
which whoever acquires the block overwrites (`Overwrite`); `free` is the list as it
should be. **Decoder** has one action per call of `decoder_next_frame` that can fail,
with everything the failing path gives back. It sees the file as a sequence of frames by
what becomes of them; `ContainerReader` says how the reader gets from one to the next. A
frame too large for the buffer, and a failed allocation inside the reader, leave the
position inside a frame. `place` is then `lost`: a peek may fail, take payload for the
header of a frame and return it, or move anywhere, backwards too, perhaps onto the
beginning of a frame (`regained`), and reads and decodes of such bytes have any outcome.
What the decoder holds and gives back is claimed for all of that; the order of delivery
is claimed while the place is `kept`, and the meaning of NULL while it is not `lost`.

**Bitstream** turns numbers into bits and back. **Entropy** encodes a run of blocks
coefficient by coefficient into a buffer that may be too small, lets the stream lose its
end, and decodes what is left symbol by symbol. **Transform** (`dct.c`, `quant.c`) and
**Planes** (`frame.h`, `frame.c`, `colorspace.c`) are the integer arithmetic of the
kernels in full: the DCT is one too, with cosines scaled by 1024. **Picture** takes a
picture through both halves of the codec, block after block; addresses in the planes are
computed as the code computes them, and a block that would leave the buffer that holds
the three planes leads to `"outside"`.

Definitions under a comment that begins with "Mutant:" are variants of the operation
below them with a plausible bug. They serve to confirm that each property would notice
such a bug, and nothing else refers to them.

## 3. Runs

| Run | Checks | What it shows |
|---|---|---|
| `file` | `PlaysWhatWasRecorded`, `WTypeOK`, `GoodEntriesPointAtFrames`, `HeaderImpliesIndex`, `DurationCoversFrames`, `OpenedIndexIsGenuine`, `SeekReachesTheFrame` | A recording of two frames with up to two faults of any kind anywhere, or the recorder killed anywhere before the first; a file recorded without fault that is then cut anywhere or altered in one cell; readers with and without room for a frame. Until something goes wrong, writer and reader refine `FrameStore` |
| `pipeline` | `BuffersHaveOneOwner`, `EncoderUsedWhileOpen`, `TimestampsOrdered`, `RecordingEnds`, `LateBuffersAreFreed` | Every interleaving of the callbacks, the encode queue, the main thread and signals |
| `app` | `TypeOK`, `DecoderHasOneUser`, `StoppedRecordingIsClosed`, `RemovesOnlyWhenReleased`, `WindowResponds` | Two playbacks and two recordings, requested in any order the buttons and the table allow, on both kinds of machine |
| `player` | `RingHoldsTheLatest`, `PlaysForward`, `QuitShowsOneFrameAtMost`, `NotBeforeItsTime`, `SoundIsPlayedOut`, `PlayerEnds` | Every file of up to three records with every kind of device and a user who may quit at any time; overruns of more than two laps |
| `queue` | `QueueTypeOK`, `SizeWithinCapacity`, `QueueIsFifo` | Every interleaving of producer and consumer, past the wrap of the counters, on both kinds of machine |
| `queue_capacity` | `CapacityIsPowerOfTwo`, violated | see below |
| `decoder` | `BlocksHaveOneOwner`, `NoBufferLeaks`, `CrashNeedsEveryFrameHeld`, `DeliversInOrder`, `NullMeansEndOrDamage` | Every file of up to four frames, two failed allocations, a caller who keeps up to three frames |
| `entropy` | `DecodesWhatWasEncoded`, `MissingBytesAreNoticed`, `EncoderHasRoom` | The round trip, a stream cut at every byte, a buffer of every kind of size |
| `picture` | `PictureTypeOK`, `BlocksStayInside`, `PictureIsWhole`, `CoefficientsFit`, `CloseToTheOriginal`, `GreyStaysGrey` | Flat, sloping, checked and single-point pictures through the whole codec at the worst, a middling and the best quality |
| `file_closeok` | `CloseOkMeansHeaderUpdated`, violated | see below |
| `app_encoder` | `OneEncoderPerFile`, violated | see below |
| `planes` | `BlocksStayInside`, violated | see below |

### Disagreements between the code and what is said of it

* **`file_closeok`.** On a full disk `rewind` cannot flush, the final header is appended
  or lost, and `encoder_close` returns `CRAP_OK`. The frames are still there and the
  file opens without an index: `file` shows that this, too, never leaves a header
  that names a missing index.
* **`app_encoder`.** A playback that ends, or is stopped, while a recording is being set
  up enables the Record button again. A second recording then takes over the one encoder
  and the first file is never closed. `StoppedRecordingIsClosed` shows that without such
  an overlap no recording is left open, except one that `encoder_open` gave up itself
  after it had opened the file (`src/encoder/encoder.c:40`, `src/tools/crappr.m:346-351`).
* **`planes`.** `encoder.h:27` asks for sides that are multiples of 8. With 4:2:0 planes
  that is not enough: the chroma planes of an 8 x 8 picture are 4 x 4, and the blocks of
  8 x 8 that encoder and decoder step through them reach beyond the buffer, already in
  the first of the two. For multiples of 16 `picture` shows that they do not.
* **`queue_capacity`.** A request of more than 2^31 slots is rounded up to 0, which is
  below the limit: `fq_init` succeeds, where `framequeue.h:16` says that the capacity is
  a power of two and `framequeue.h:48` promises -1. The queue it makes is always full.
  `queue` has requests that do not wrap.

More was seen while modelling, and has no run of its own:

* A frame whose allocation or write failed stays in the index of a file that is then
  closed successfully (`src/src/container.c:195` comes before the failures).
* On arm64 a callback may see `running` before `start_us`, and stamps its frame with the
  time since boot, which becomes the duration of the file (`src/capture/capture.m:41`).
  `TimestampsOrdered` speaks of the frames stamped with the published start.
* The CRC of a frame is read and not compared (`src/src/container.c:254` says the check
  is deferred), nor is that of the file header: the reader delivers an altered frame
  with `CRAP_OK`.
* A double click during playback on a clip that cannot be opened leaves Record disabled
  with nothing playing (`src/tools/crappr.m:1024`). The completion of a playback that
  ended can run after the next has begun, and the window then says "Playback finished"
  (`src/tools/crappr.m:856-864`).
* On arm64 the zeroes of an old `decoder_close` could become visible after `_playing =
  0` and after a new `decoder_open` (`BlockFlush`, with `ordered` FALSE);
  `DecoderHasOneUser` is claimed for ordered stores.
* `framequeue.h:11-12` says that no mutex is required with one producer and one
  consumer. The code has a barrier for the compiler and none for the processor: where
  the slot and its counter can be exchanged the model delivers stale pointers, so
  `QueueIsFifo` is claimed for ordered stores.
* `pool.h:62` says that `pool_acquire` may return NULL; `decoder_next_frame` writes
  through it. `CrashNeedsEveryFrameHeld` says when.
* `quant.h:18` calls the table "in natural order"; encoder and decoder both read it in
  zigzag order, so the steps of high frequencies fall on others than intended. The two
  agree, and the round trip is sound.
* The quality is not in the file: the decoder has to be given the one the encoder used.
* The README lists keys for pausing, seeking and volume, and Q; `player_run` knows
  Escape and the closed window.

### Bounds, and why they are enough

* **Files.** Two streams (audio frames are all keyframes, as `audio_write_frame` makes
  them; video frames of both kinds, as the container and its tests allow), two
  timestamps (equal, ascending and descending ones between the two streams), `FirstCap =
  1` so that a second frame grows the index, two frames: a seek has something before or
  behind what it looks for, and an index with equal timestamps. Two faults: a failed
  frame followed by a failed close, or a failure while the reader has lost its place.
  `KillAfter = {0}`: recorders are killed that met no fault; what a kill leaves after
  faults is the same prefix of the same cells, and `HeaderAfterIndex` covers it for any
  number of faults. Frames of one payload cell and readers with room for none or one
  (`Buffers`), so that a frame may be too large. Damage falls on files recorded without
  a fault: every cut, and one altered cell of payload, frame header, index entry or
  stream info. The file header is left out, which nothing protects, and so are chunk
  headers, counts and checksums: an altered chunk header ends a scan or sends it
  anywhere, as `lost` does. Cells instead of bytes lose only tears inside one struct,
  which a reader meets as a short read in both cases.
* **Pipeline.** Two sources, three buffers (one per place a buffer can be: callback,
  queue, worker), one sleep, two instants of the clock after boot. `BootTime` only has
  to differ from zero.
* **Application.** One clip from the start plus those recorded, two playbacks, two
  recordings. Every hazard is between one playback or recording and its successor.
* **Player.** A ring of 4, blocks of 2 and of 9 bytes (more than two laps), requests of
  up to 3; `Milli = 2`, so that a wait may end between two ticks; timestamps that
  ascend, descend, are equal, negative (the clock is then started anew by each frame) or
  lie beyond `LongWait`; two ticks besides those slept
  through, so that reading and decoding may take time.
* **Queue.** Words of 4 bits, at most 4 slots, requests of 0, 3 and 7: capacities that
  are rounded up and one that is refused; `queue_capacity` adds 12, which wraps to 0. 17
  frames are one more than a word counts.
* **Decoder.** A pool of 3 (the code has 8), all files of up to four frames of four
  kinds and two that are cut, two failed allocations: one can make the reader lose its
  place and another hit what follows.
* **Entropy.** Bytes of 4 bits, fields of 2, blocks of 10: a long run is 4 zeros (16 in
  the code), and a block has room for two of them and something behind, as 64 has for
  three. The 256 bytes of the code are not in the run: `EncoderNeverOverflows` is about
  them. Up to three coefficients that are not zero, or all of them as large as can be,
  at every place; two blocks for what alignment does between them.
* **Picture.** 16 x 16 and 16 x 32 have several luma blocks, one and two chroma blocks
  per plane, and sides that differ. Pictures are given by kind: flat ones, a
  checkerboard and edges (the largest coefficients and the most overshoot), a single
  point, slopes. Qualities 0 (clipped to 1), 50 (the tables as they are) and 100 (every
  step 1). `RoundOff = 2` is what the integer DCT adds to a rounded coefficient of these
  pictures; what it can add to any (section 4, `QuantiserLosesAlone`) is at most 15.

`MaxFrames`, `MaxFaults`, `MaxTime`, `MaxBuffers`, `MaxBytes`, `MaxPush`, `MaxPull`,
`MaxPlays`, `MaxStarts`, `MaxClock`, `Files`, `Inputs`, `Caps`, `Requests`, `Sizes`,
`Pictures` and `Qualities` are bounds of the models, not limits of the code. Runs whose
system may stop (a finished recording, a user who is done, the end of a file, damage
that leaves nothing to read) switch deadlock checking off.

### Fairness

Safety needs none. `Craprec` assumes weak fairness of the main thread, of the encode
queue, of each callback in progress and of the clock, as the operating system schedules
threads that can run; it does *not* assume that a source delivers, that a signal comes
or that a store is published early. `CrapprApp` assumes it of the main thread's pending
work (a waiting handler, the main queue), of each playback block (a file has an end, so
a loop that is not stopped leaves by itself) and of each `startRecordingPath`; the user
need not do anything. `Player` assumes it, in `FairPSpec`, of the player's own thread
and of the clock, and of nothing else: neither the audio device nor the user has to do
anything for a playback to end.

## 4. Proofs

The theorems hold for every value of the constants that satisfies the named assumptions
of the modules, which TLC evaluates in the runs. None of them is about a small instance.

**The writer** (`CrapFile_proofs`). `WTypeCorrect`, `GoodEntries`,
`HeaderAfterIndex` and `Duration` follow from `WInvariant`: `WSpec => []WInv`. The
properties are not inductive alone. `GoodEntriesPointAtFrames` speaks of chunks that fit
in the file, which is too weak while the file grows: a chunk that was cut could be
"completed" by someone else's cells. So `ChunksInPlace` says that while the file is
written every good chunk is whole and lies behind the header; the file then only grows
by appending, rewrites cell 1, or is cut to a prefix once, at the end.
`HeaderImpliesIndex` needs to know that the header on disk names nothing until the last
step (`ProvisionalHeader`), that the header in memory names the index that was just
written (`IndexReady`), and that when a final header is in the buffer everything behind
it has been flushed (`FinalHeaderOrdered`: this is where `rewind` earns its place).
`DurationCoversFrames` needs `last_pts` to cover the headers of torn chunks as well
(`FramesTimed`).

**The file and its reader** (`CrapFile_proofs`). `RecordingKept` carries the writer's
properties over to `Spec`, where the file is read and damaged as well. `FileInvariant`
is `CInv`, which adds what relates the three states. `StreamsTold`: what the header
chunk and the stream infos in the file say is what was registered. `HeaderFirst` and
`FramesBeforeIndex`: the header leads the file, and an index lies behind every frame it
leads to. `ImageOfFile`: what the reader finds is a prefix of what was written but for
one altered cell, which keeps its kind. `NotYet`: nobody reads a file that is being
written. `LoadedFrom`: a reader that has an index has the recorder's, and all of the
file before it. `GenuineIndex` follows from the checksum: what passes it was written as
an index, and `HeaderImpliesIndex` of the writer says that at the place the header names
there is only the one. `SeekLandsOnFrames` then needs `GoodEntriesPointAtFrames`. Two
operators of the reader are recursive functions, `InfoEnd` (the loop over stream infos
in `crap_open_read`) and `ScanEnd` (the loop over chunks in `crap_peek_frame`). The
installed provers cannot instantiate the induction theorems, so a proof gives the
solution of each recursion outright, with the least number at which the loop stops
(`Least` in `Modular`), shows that it satisfies the equation, and that two functions
which do cannot differ at a least argument.

**The refinement of `FrameStore`** (`CrapFile_proofs`). `Implements` is `Spec =>
PlaysWhatWasRecorded` for every number of faults, frames, streams, timestamps, sizes and
buffers, with or without damage, recorders killed after any of the numbers of faults in
`KillAfter`, and any caller of the reader. The property itself ends where a file stops
being `Undisturbed`, and has to: one failed write leaves an entry that leads to the next
frame's chunk, and one altered cell is delivered as it is, because the CRC of a frame is
not compared; `FrameStore` allows neither. The one hypothesis is `NoFrameIsNone`: the
value that stands for "nothing delivered" is not a delivered frame, which TLC has from a
model value. The invariant is `DInv`: while the file is undisturbed, `LInv`. `Layout(s)`
says that the file consists of its header, `s` stream infos and the frames one behind
the other (`Contiguous`), cell by cell (`Cells`), and how long that makes it
(`HowLong`); `Match`, that each index entry describes the frame it was made for; `RPos`,
that a reader that is `ready` stands at the start of a frame or beyond the end, and one
that has `peeked`, behind the header of the frame it has announced. From the layout
follows that the frames that are wholly in the file are the first ones (`WholeIs`), so
that a crash cuts the log to a prefix, that such a file opens (`OpenSucceeds`), and that
a peek stops at the next frame start. A scan that meets garbage (`NoPeekGarbage`) and a
frame continued by another (`NoReadAcross`) cannot occur there; a caller that peeks in
the middle of a frame can, and the store's `GetLost` is its step. A seek needs that the
keyframes of the index are those of the log (`BeforeIsKeyframes`); `BestEntry` then
picks the one the store asks for. Each action maps to a step of the store or to a
stutter: one lemma per action, put together in `PlayKeeps`, `RecordAbstractly` and
`StoreStep`.

**The pipeline** (`Craprec_proofs`): `QTypeCorrect`, `EncoderIsOpen`, `BuffersOwned`,
`StampsOrdered`, for any set of sources, number of buffers and duration, with late
callbacks and a late `start_us`. `Shape` has the types and says that before the
recording runs nothing is in the pipeline. `Encoding` says where `capture_run` is when
the encoder is open, and that the worker is idle from the end of the drain until the
encoder is closed: `running` is lowered before, so that a block that comes later looks
at it and leaves. `Owned` says that callbacks, queue and worker hold different buffers
and all of them. `InOrder` is a chain from the file over the worker and the queue to the
callbacks: what is further back was stamped no earlier, source by source.

**The application** (`CrapprApp_proofs`), for any number of clips, playbacks and
recordings. `DecoderExclusive` (for ordered stores) and `RemovalsAreSafe` (for any)
follow from `EngineInv`. The idea is that every handler looks at `_playing` before it
starts or removes anything, and that the flag is a promise about the last block only: if
it is raised, the last block is still to lower it; if it is lowered and nobody waits,
the last block has passed the point where it lowers it (`FlagFollowsBlock`), and all
earlier ones have passed it before (`OnlyTheLastIsActive`). With ordered stores
`_decoder` then is exactly the file of the last block until that block closes it
(`DecoderFollowsBlock`). `AppTypeCorrect` rests on `TypeInv`. `RecordingsAreClosed`
(no file is open but the encoder's own and the `Abandoned` ones) rests on `CaptureInv`:
until recordings overlap, at most one `startRecordingPath` is in
progress (`Going`), and how far it is tells what the encoder holds; that they overlapped
is never forgotten.

**The audio ring and the player** (`Rings_proofs`), for any ring size, file, clock and
device. `RInv` says that `wpos` and `rpos` are the bytes pushed and heard modulo the
ring, and that each position holds the last byte that fell on it; `AvailIsUnplayed`
derives that what seems to be there differs from what is unplayed by whole laps.
`PlayerLatestBytes` and `PlayerForward` follow, because the player touches the ring by
its own steps only (`RingSteps`); `RingTypeCorrect` is about the ring alone.
`QuitIsPrompt` and `NotEarly` rest on `PInv`: a wake-up time is late enough for the
frame it was computed for. Both hold with negative timestamps, for
which the clock is started anew by every frame. `PlayedOut` rests on `Emptying`: while
the player sleeps before it closes the device, the ring has no more in it than the
device's requests until the wake-up will take; `AvailWithinLap` then says that what was
never heard is that, unless it is a whole ring or more.

**The frame queue** (`Rings_proofs`), for any word width and capacity. `Room` says
what each thread knows between its steps and gives `SizeBounded`, on any machine;
`QueueTypeCorrect` is about `fq_init`, for requests that do not wrap
(`RequestsDoNotWrap`; the run `queue_capacity` shows what happens to the others). `RingIsFifo` is the refinement of `FrameFifo`,
step by step, where stores are ordered: `Stored` says that the slot a push has written
and not yet shown holds its frame, and that what a pop has in hand is what the head slot
still holds. The arithmetic (two counters that differ by less than the capacity fall on
different slots, also across the wrap) needs only that a power of two divides the word.

**The decoder and its pool** (`Decoder_proofs`), for any pool, file and number of
failures. `DInvariant`: `DInv` says that the free list is whole (`FreeListIsWhole`),
that every block has one owner (`Owned`), and what `decoder_next_frame` holds at each
step (`HoldsByPc`). `OneOwner`, `NothingLeaks`, `CrashOnlyWhenAllHeld` and `NullIsMeant`
follow. `InOrder` needs `OInv`: while the place is kept, what was delivered is what lies before
the cursor, which stays true while a frame is worked on only if that frame is left out
(`Passed`). Blocks, buffers and the crash are proved for a reader that is lost as well.

**The entropy coder** (`Entropy_proofs`). `RoomForEveryBlock`: a buffer with `BlockBits`
for every block never overflows. The invariant counts bits: after `i` coefficients a
block has taken at most `UpTo(i)`, runs included. `SizeAssumption` is what it rests on:
the coefficients have at most `MaxSize` bits (which `TwelveBits` below shows of all
pictures, with 12 bits), and powers of two grow, which the provers do not know of `^`.
With the widths of the code (`AsInTheCode`) a block takes at most 161 bytes, so with the
256 that encoder.c takes for each `EncoderNeverOverflows`: the error path of
`entropy_encode_block` is never taken there.

`CodecIsLossless` is about what the decoder reads back, and `TruncationIsNoticed` about
a stream that lost its end. Bits have no boundaries, so the invariant brings its own: a
set of *marks* `<<p, b, c>>`, each saying that what begins at bit `p` encodes
coefficient `c` of block `b` and what follows. From each mark but the last another one
is reached by a symbol that is in the stream (`Follows`: a DC value, a long run of
zeros, a run with its value, the end of the block with its padding). `Written` says that
the encoder keeps such a set up to the zeros it has counted and not yet told of;
`Reading`, that the decoder is always at a mark, has read what lies before it, and so
meets next the symbol that was written there (`ReadBack`: the bits of a number give the
number back, which again solves a recursion outright). A truncated stream ends before
the last mark, and a decoder that has blocks left to read must step over its end. Both
hold for every block size, field width, byte size and sequence of blocks.

**The picture path** (`Picture_proofs`), for any set of pictures, sizes and qualities.
`PictureInvariant` is `PInv`: planes and buffer of the size computed for them, samples
within a byte, the stream one block longer with each step. `PictureTypeCorrect` follows,
and `TwelveBits`: every quantised coefficient has at most twelve bits. It needs the
arithmetic of `dct.c`: a pass multiplies samples of at most 128 with a row of the cosine
table, whose absolute values the lemmas add up, and rounds down; two passes stay within
2048 and the quantiser, whose steps are at least 1, only makes that smaller. Its
hypothesis is that 12 is what `MaxSize` says. For sizes that are multiples of 16
(`MacroBlocks`; the violated run `planes` shows that multiples of 8 are not enough)
`BlocksAreInside` shows that no address leaves the buffer of the planes, `NothingUnset` that the blocks
tile the planes, so that every sample is set (`Tiles`), and `GreyComesBackGrey` that
chroma stays 128 through subsampling, both transforms and the conversion back.

`QuantiserLosesAlone` is `CloseToTheOriginal` for every picture of such a size, at every
quality, if `RoundOff` is at least 15. In exact arithmetic the property is Parseval's
identity. The code has a table of rounded cosines, shifts after every pass and two more
roundings in between, so the proof has to account for each of them:

* *The table.* As they are used, its rows are orthogonal and equally long but for the
  last digits of the cosines: multiplying by the table multiplies a sum of squares by
  what `RowSquares` says, and without any rounding the table and its transpose bring
  back every sample, scaled by 2^41, to within two thousandths of the largest
  (`ThereAndBack`).
* *A pass.* Let coefficient `k` of a line be changed by `d[k]` between the forward and
  the inverse pass. After the shifts it is off by at most `|d[k]| + 1.5` (`Coefficient`),
  and the squared error of the line is at most 17/32 of the squares of that, and a
  constant: one half, and what `OnePass` pays for having Young's inequality in place of
  square roots, since everything is an integer.
* *A block.* The inverse transform undoes columns and then rows, so the bounds of eight
  lines are added up twice, once across them (`GridSwap`, `ColumnErrors`, `RowErrors`,
  `BothPasses`). `QuantiseNear` puts at most half a step in the place of `d`, in 16 bits.
  The result of the inverse transform stays near the block, so storing it in 16 bits
  loses nothing, and clamping a sample to a byte only brings it nearer (`BlockReturns`).
* *The picture.* `CInv` says that the stream holds the coefficients of the blocks in the
  encoder's planes, and that what `decode_block` stored is still where it was stored.
  The second half is inductive because no address belongs to two blocks
  (`AddressBack`, `BlocksApart`), which again needs `MacroBlocks`: in a plane of less
  than 8 columns the rows of a block overlap.

The allowance of 15 adds up the worst of all these roundings; TLC finds no picture of
its run that needs more than 2. What the theorem says is that the allowance is a
constant, the same for all pictures, sizes and steps: no stage overflows or loses a
sign, and no block is stored over another one.

**Modular** holds the lemmas about quotients, remainders, least elements that these
proofs share.

**Only model-checked.** Liveness: `RecordingEnds`, `LateBuffersAreFreed`,
`WindowResponds` and `PlayerEnds`, since the prover has neither fairness nor ENABLED.
The other properties of the passing runs are all stated by a theorem; of
`CloseToTheOriginal` the run checks more than the theorem says, with `RoundOff = 2` for
its own pictures. The refinement of `FrameStore` ends with the first write error
or damage, as said above. The properties of the violated runs are false, and TLC
shows how.

## 5. Not modelled, and why

* The helpers of `bitstream.h` for bytes, 16 and 32 bit words and skipping, which only
  tests call, and `rgba32_to_yuv`, the loop of `rgb24_to_yuv` with another step.
* The magic number and version test of `crap_open_read` and failures of `fopen` to read:
  they return before any state exists, as an empty file does.
* Permissions, device discovery and arguments of the recorders; layout, drawing, the
  elapsed-time timer and file names of crappr. Two recordings begun within one second
  would share a file name.
* SDL and AppKit, except for the queues, buttons, clocks and requests they provide.
* Stubs without code: the parser, `crapinfo.c`, `utils.c`.

## 6. Plan

The plan of the development was the container first, because every tool rests on it,
then the recording pipeline, the application, and then each part that stands by itself:
queue, decoder with pool, entropy coder, player, kernels. All of these are in place.
What could follow:

1. `startRecordingPath` and `stopRecording` as the second owner of `CaptureQueue`,
   composed with the window; so far `CaptureQueue`, whose callbacks are those of both
   programs, is composed with craprec only, and `CrapprApp` relies on the drain as
   `Craprec` shows it.
2. `Decoder` over `ContainerReader` instead of a sequence of frames by kind.
3. A weaker `FrameStore` that allows for torn frames, which a recording with write
   errors would implement as well.
4. A sharper allowance in `QuantiserLosesAlone`: the rounding errors of the eight lines
   of a pass cannot all be at their worst at once, as the run suggests.
