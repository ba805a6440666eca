---------------------------- MODULE MCStrainGraph ----------------------------
(***************************************************************************)
(* StrainGraph for TLC: beatmaps of up to MaxSections sections, of every   *)
(* mode. The counted series is any; the others are empty, or rising and    *)
(* as long as the counted one.                                             *)
(***************************************************************************)
EXTENDS StrainGraph, TLC

CONSTANT MaxSections

MCSizeArg == {0, 3, U32 \div 2 - 1, U32 \div 2, U32 - 1}

Others(n) == {<<>>, [k \in 1 .. n |-> k]}

StrainsOf(mode, n) ==
    {[mode |-> mode,
      series |-> (Leading[mode] :> counted) @@ others] :
        counted \in [1 .. n -> {0, 2}],
        others \in [Names(mode) \ {Leading[mode]} -> Others(n)]}

MCStrains == UNION {StrainsOf(mode, n) : mode \in DOMAIN SeriesOf, n \in 0 .. MaxSections}

=============================================================================
