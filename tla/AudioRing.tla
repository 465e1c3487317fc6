------------------------------ MODULE AudioRing ------------------------------
(***************************************************************************)
(* The byte ring between the thread that reads the file and the audio      *)
(* thread: push_audio / audio_callback in player.c, playSamples /          *)
(* fillBuffer in crappr.m.  Both sides hold the same mutex for their whole *)
(* loop.  Neither looks for free space: a writer that is a lap ahead makes *)
(* the ring look emptier than it is, and a full ring looks empty.          *)
(*                                                                         *)
(* Bytes are numbered 1, 2, ... in the order they are pushed.              *)
(***************************************************************************)
EXTENDS Integers, Sequences

CONSTANTS
    Cap,            \* AUDIO_BUF_BYTES, AUDIO_RING_BYTES
    MaxPush,        \* bound: the largest block of samples
    MaxPull,        \* bound: the largest request of the audio device
    MaxBytes        \* bound: bytes pushed altogether

ASSUME RingAssumption ==
    /\ Cap \in Nat \ {0}
    /\ MaxPush \in Nat /\ MaxPull \in Nat /\ MaxBytes \in Nat

VARIABLES
    ring,           \* audio_ring: the byte at each position (0: none yet)
    rpos, wpos,     \* audio_rpos, audio_wpos
    pushed,         \* history: bytes pushed so far
    heard,          \* history: the last byte played (0: none yet)
    stream          \* what the last callback handed to the device, without
                    \*   the silence it is padded with
vars == <<ring, rpos, wpos, pushed, heard, stream>>

Positions == 0 .. Cap - 1

Init ==
    /\ ring = [p \in Positions |-> 0]
    /\ rpos = 0 /\ wpos = 0 /\ pushed = 0 /\ heard = 0 /\ stream = <<>>

\* What position p holds after n bytes from wpos on: the last of them that
\* fell on it, or what it held.
AfterPush(n, p) ==
    LET d == (p + Cap - wpos) % Cap
    IN  IF d >= n THEN ring[p]
        ELSE pushed + 1 + d + Cap * ((n - 1 - d) \div Cap)

Push(n) ==
    /\ n \in 1 .. MaxPush /\ pushed + n <= MaxBytes
    /\ ring' = [p \in Positions |-> AfterPush(n, p)]
    /\ wpos' = (wpos + n) % Cap
    /\ pushed' = pushed + n
    /\ UNCHANGED <<rpos, heard, stream>>

\* Mutant: wpos - rpos without the lap that keeps it positive.
AvailUnwrapped == IF wpos >= rpos THEN wpos - rpos ELSE rpos - wpos

Avail == (wpos + Cap - rpos) % Cap

\* Mutant: rpos ends one byte too far.
PullSkipsOne(len) ==
    LET copy == IF len < Avail THEN len ELSE Avail
    IN  /\ len \in 1 .. MaxPull
        /\ stream' = [i \in 1 .. copy |-> ring[(rpos + i - 1) % Cap]]
        /\ rpos' = (rpos + copy + 1) % Cap
        /\ heard' = IF copy = 0 THEN heard ELSE stream'[copy]
        /\ UNCHANGED <<ring, wpos, pushed>>

Pull(len) ==
    LET copy == IF len < Avail THEN len ELSE Avail
    IN  /\ len \in 1 .. MaxPull
        /\ stream' = [i \in 1 .. copy |-> ring[(rpos + i - 1) % Cap]]
        /\ rpos' = (rpos + copy) % Cap
        /\ heard' = IF copy = 0 THEN heard ELSE stream'[copy]
        /\ UNCHANGED <<ring, wpos, pushed>>

\* Bytes the device has still to play, were no lap lost.
Unheard == pushed - heard

Next == \/ \E n \in 1 .. MaxPush : Push(n)
        \/ \E len \in 1 .. MaxPull : Pull(len)

Spec == Init /\ [][Next]_vars

-----------------------------------------------------------------------------
(* Both positions stay inside the ring, which holds only bytes pushed.     *)
TypeOK ==
    /\ ring \in [Positions -> 0 .. pushed]
    /\ rpos \in Positions /\ wpos \in Positions
    /\ pushed \in 0 .. MaxBytes /\ heard \in 0 .. pushed

(* What lies between rpos and wpos is exactly the bytes pushed last, in    *)
(* order, even after the writer has lapped the reader any number of times: *)
(* the device never plays a mixture of two laps.                           *)
RingHoldsTheLatest ==
    \A i \in 0 .. Avail - 1 : ring[(rpos + i) % Cap] = pushed - Avail + 1 + i

(* Sound never goes back and never stutters: each callback plays a run of  *)
(* consecutive bytes, all of them after what was played before, and what   *)
(* an overflow skips is a whole number of laps.                            *)
PlaysForward ==
    [][stream' # stream \/ heard' # heard =>
          /\ \A i \in 1 .. Len(stream') - 1 : stream'[i + 1] = stream'[i] + 1
          /\ stream' # <<>> => /\ stream'[1] > heard
                              /\ (stream'[1] - 1 - heard) % Cap = 0]_vars
=============================================================================
