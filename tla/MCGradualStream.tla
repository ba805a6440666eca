--------------------------- MODULE MCGradualStream ---------------------------
(***************************************************************************)
(* GradualStream for TLC: a call that starts from zero, one that starts in *)
(* the middle of a play, and (NearWrap) one whose counts are at the end of *)
(* u32, which has 8 values here.                                           *)
(***************************************************************************)
EXTENDS GradualStream

FromZero == NewScore

MidPlay == [n_geki |-> 1, n300 |-> 3, max_combo |-> 2]

NearWrap == [n_geki |-> 0, n300 |-> U32 - 1, max_combo |-> U32 - 2]

OrdinaryScores == {FromZero, MidPlay}

AllScores == {FromZero, MidPlay, NearWrap}

=============================================================================
