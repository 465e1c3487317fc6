------------------------------ MODULE MCPlayer ------------------------------
(* Player for TLC: files of up to three records.  A pts of 12 lies beyond  *)
(* LongWait, a negative one starts the clock again; a block of 9 bytes is  *)
(* more than two laps of the ring, two of 2 fill it exactly.               *)
EXTENDS Player

V(t) == [kind |-> "video", pts |-> t]
A(k) == [kind |-> "audio", n |-> k]
MCRecords == {V(-3), V(0), V(3), V(5), V(12), A(2), A(9), [kind |-> "unreadable"]}
MCFiles == UNION {[1 .. n -> MCRecords] : n \in 0 .. 3}
=============================================================================
