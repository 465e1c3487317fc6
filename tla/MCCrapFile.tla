----------------------------- MODULE MCCrapFile -----------------------------
(* CrapFile for TLC: two streams (0 video, 1 audio), a few timestamps,     *)
(* frames of one cell, and callers with and without room for one.          *)
EXTENDS CrapFile

MCFrameTypes == {"I", "P"}
MCPts        == 0 .. 1
MCSizes      == {1}
MCBuffers    == {0, 1}
MCKillAfter  == {0}
=============================================================================
