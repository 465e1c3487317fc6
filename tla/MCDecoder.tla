------------------------------ MODULE MCDecoder ------------------------------
(* Decoder for TLC: every file of up to four frames, a pool of three.        *)
EXTENDS Decoder

MCFiles == UNION {[1 .. n -> {"video", "audio", "garbled", "large"}] : n \in 0 .. 4}
           \cup {<<"video", "video", "cut">>, <<"cut">>}
=============================================================================
