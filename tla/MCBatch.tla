------------------------------- MODULE MCBatch -------------------------------
(***************************************************************************)
(* Batch for TLC, over the library of files of MCBeatmapLoader: all the    *)
(* batches of up to MaxItems of the items below.                           *)
(***************************************************************************)
EXTENDS Batch, MCBeatmapLoader

CONSTANTS MaxItems, path

(* A file that is served in its own mode and converted to another, one that
   cannot be converted, one that never parses, no source, and a path. *)
MCItems ==
    {[source |-> fileA, target |-> mania], [source |-> fileB, target |-> osu]}
    \cup [source : {fileA, fileB, brokenNo, NoSource, path}, target : {Unspecified}]

MCBatches == UNION {[1 .. n -> MCItems] : n \in 0 .. MaxItems}

=============================================================================
