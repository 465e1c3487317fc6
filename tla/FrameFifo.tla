------------------------------ MODULE FrameFifo ------------------------------
(***************************************************************************)
(* What framequeue.h promises to one producer and one consumer: a bounded  *)
(* first-in first-out queue.  A push is refused only while the queue is    *)
(* full; a pop or a peek finds nothing only while it is empty.  Frames are *)
(* numbered in the order in which they are accepted.                       *)
(***************************************************************************)
EXTENDS Integers, Sequences

CONSTANT NoFrame

VARIABLES
    cap,            \* the capacity, fixed when the queue is made
    q,              \* the frames in the queue, oldest first
    sent,           \* frames accepted so far
    out,            \* what the last pop returned
    peeked,         \* what the last peek returned, if no frame was popped since
    refused         \* whether the last push was refused

fvars == <<cap, q, sent, out, peeked, refused>>

FInit == q = <<>> /\ sent = 0 /\ out = NoFrame /\ peeked = NoFrame /\ refused = FALSE

Put == /\ Len(q) < cap
       /\ q' = Append(q, sent + 1) /\ sent' = sent + 1 /\ refused' = FALSE
       /\ UNCHANGED <<cap, out, peeked>>

RefusePut == /\ Len(q) = cap
             /\ refused' = TRUE /\ UNCHANGED <<cap, q, sent, out, peeked>>

Get == /\ q # <<>>
       /\ out' = Head(q) /\ q' = Tail(q) /\ peeked' = NoFrame
       /\ UNCHANGED <<cap, sent, refused>>

\* A peek tells what the next pop returns, whatever is pushed in between.
PeekFront == /\ q # <<>>
             /\ peeked' = Head(q) /\ UNCHANGED <<cap, q, sent, out, refused>>

GetNothing == /\ q = <<>>
              /\ out' = NoFrame /\ UNCHANGED <<cap, q, sent, peeked, refused>>

Clear == q' = <<>> /\ peeked' = NoFrame /\ UNCHANGED <<cap, sent, out, refused>>

FNext == Put \/ RefusePut \/ Get \/ PeekFront \/ GetNothing \/ Clear
=============================================================================
