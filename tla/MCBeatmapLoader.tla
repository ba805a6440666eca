--------------------------- MODULE MCBeatmapLoader ---------------------------
(***************************************************************************)
(* BeatmapLoader for TLC, over a small library of files. Each .cfg takes   *)
(* as Content the files its question needs:                                *)
(*   fileA     an osu! map with id 1                                       *)
(*   fileB     a mania map with id 2, which cannot become an osu! map      *)
(*   fileB1    that same mania map, but carrying id 1                      *)
(*   broken1   an unparsable file with id 1                                *)
(*   suspect2  a file with id 2 that check_suspicion rejects               *)
(*   noId      fileA without its id                                        *)
(*   brokenNo  an unparsable file without an id                            *)
(***************************************************************************)
EXTENDS BeatmapLoader, TLC

CONSTANTS
    fileA, fileB, fileB1, broken1, suspect2, noId, brokenNo,
    id1, id2,
    mapA, mapAMania, mapB, mapS,
    osu, mania

MCBeatmapIdOf ==
    [c \in Content |-> CASE c \in {fileA, fileB1, broken1} -> id1
                         [] c \in {fileB, suspect2}        -> id2
                         [] c \in {noId, brokenNo}         -> NoId]

MCFromBytes ==
    [c \in Content |-> CASE c \in {fileA, noId}        -> mapA
                         [] c \in {fileB, fileB1}      -> mapB
                         [] c = suspect2               -> mapS
                         [] c \in {broken1, brokenNo}  -> Unparsable]

MCModeOf == [map \in Beatmap |-> IF map \in {mapAMania, mapB} THEN mania ELSE osu]

MCTooSuspicious == {mapS}

MCConverted ==
    [p \in Beatmap \X Mode |-> IF p = <<mapA, mania>> THEN mapAMania ELSE Unconvertible]

Symmetry == Permutations(Request)

=============================================================================
