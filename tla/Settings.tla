------------------------------- MODULE Settings -------------------------------
(***************************************************************************)
(* How the settings of a request reach the stages of a calculation: the    *)
(* conversion to another mode, the difficulty, the performance, the strain *)
(* graph and the circle size that is reported. Each stage has its own copy *)
(* of the rule that resolves `mods_str`, the acronyms, against `mods`, the *)
(* bit flags (src/service/calculator.rs, src/service/convert.rs). The      *)
(* stages run here one after the other on the settings and the beatmap of  *)
(* one client, who sends them to CalculatePerformance (convert,            *)
(* difficulty, performance, cs) and to GetStrainGraph (convert, graph).    *)
(*                                                                         *)
(* A set of mods is a set of the acronyms a property can tell apart; what  *)
(* rosu-mods makes of a mods_str is such a set, or a parse error. Circle   *)
(* sizes are in tenths. The other settings take the way of one of these:   *)
(* lazer that of clock_rate; ar, hp and od, with their flags, that of cs   *)
(* into the difficulty; passed_objects and hardrock_offsets likewise,      *)
(* without a flag.                                                         *)
(***************************************************************************)
EXTENDS Integers

CONSTANTS
    Acronym,        \* the mods of bit flags: HR, EZ and others
    LazerOnly,      \* the mods that have an acronym and no bit flag
    BaseCs,         \* the circle sizes of beatmaps and of settings, in tenths
    ClockRate,
    Absent,         \* an optional field that is not there
    Invalid         \* a mods_str that is not made of acronyms

Mods == SUBSET Acronym

SettingsOf ==
    [mods       : Mods \cup {Absent},
     mods_str   : SUBSET (Acronym \cup LazerOnly) \cup {Absent, Invalid},
     cs         : BaseCs \cup {Absent},
     cs_with_mods : BOOLEAN \cup {Absent},
     clock_rate : ClockRate \cup {Absent}]

ASSUME SettingsAssumption ==
    /\ {"HR", "EZ"} \subseteq Acronym
    /\ Acronym \cap LazerOnly = {}
    /\ BaseCs \subseteq Nat
    /\ Absent \notin [value : BaseCs, with_mods : BOOLEAN]

VARIABLES
    settings,   \* the request's, or Absent
    base_cs,    \* the beatmap's circle size
    stage,
    used        \* what each stage has worked with

settingsVars == <<settings, base_cs, stage, used>>

Unset == [mods |-> {}, clock_rate |-> Absent, cs |-> Absent]

SettingsInit ==
    /\ settings \in SettingsOf \cup {Absent}
    /\ base_cs \in BaseCs
    /\ stage = "convert"
    /\ used = [conversion |-> Unset, difficulty |-> Unset, performance |-> Unset,
               graph |-> Unset, cs |-> 0]

UnwrapOr(option, default) == IF option = Absent THEN default ELSE option

ModsOr(default) == UnwrapOr(settings.mods, default)

-----------------------------------------------------------------------------

(* load_and_convert: the conversion sees the bit flags only. *)
Convert ==
    /\ stage = "convert"
    /\ stage' = "difficulty"
    /\ used' = [used EXCEPT !.conversion.mods =
                   IF settings = Absent THEN {} ELSE ModsOr({})]
    /\ UNCHANGED <<settings, base_cs>>

CustomCs ==
    IF settings.cs = Absent THEN Absent
    ELSE [value |-> settings.cs, with_mods |-> UnwrapOr(settings.cs_with_mods, FALSE)]

(* The first copy of the rule, in apply_difficulty_settings: a mods_str that
   parses replaces the mods of the builder, and so does mods if there is no
   mods_str or it does not parse. *)
DifficultyMods ==
    CASE settings.mods_str \notin {Absent, Invalid} -> settings.mods_str
      [] settings.mods_str = Invalid -> UnwrapOr(settings.mods, Unset.mods)
      [] settings.mods_str = Absent  -> UnwrapOr(settings.mods, Unset.mods)

Difficulty ==
    /\ stage = "difficulty"
    /\ stage' = "performance"
    /\ used' = IF settings = Absent THEN used
               ELSE [used EXCEPT !.difficulty = [mods |-> DifficultyMods,
                                                 clock_rate |-> settings.clock_rate,
                                                 cs |-> CustomCs]]
    /\ UNCHANGED <<settings, base_cs>>

PerformanceModsOfAcronyms ==
    CASE settings.mods_str \notin {Absent, Invalid} -> settings.mods_str
      [] settings.mods_str = Invalid -> Unset.mods
      [] settings.mods_str = Absent  -> UnwrapOr(settings.mods, Unset.mods)

(* The second copy, in Calculator::performance, on the builder made of the
   difficulty's attributes, which starts without mods again. *)
PerformanceMods ==
    CASE settings.mods_str \notin {Absent, Invalid} -> settings.mods_str
      [] settings.mods_str = Invalid -> UnwrapOr(settings.mods, Unset.mods)
      [] settings.mods_str = Absent  -> UnwrapOr(settings.mods, Unset.mods)

(* Calculator::performance repeats the mods, the rate and lazer on the
   builder it makes from the difficulty. *)
Performance ==
    /\ stage = "performance"
    /\ stage' = "graph"
    /\ used' = IF settings = Absent THEN used
               ELSE [used EXCEPT !.performance.mods = PerformanceMods,
                            !.performance.clock_rate = settings.clock_rate]
    /\ UNCHANGED <<settings, base_cs>>

(* The third copy, in Calculator::strain_graph, makes the mods from nothing:
   the bits 0 stand in for what is missing. *)
GraphMods ==
    CASE settings = Absent -> {}
      [] settings # Absent /\ settings.mods_str = Invalid -> ModsOr({})
      [] settings # Absent /\ settings.mods_str = Absent  -> ModsOr({})
      [] settings # Absent /\ settings.mods_str \notin {Absent, Invalid} -> settings.mods_str

(* Calculator::strain_graph hands on the mods and nothing else. *)
StrainGraph ==
    /\ stage = "graph"
    /\ stage' = "cs"
    /\ used' = [used EXCEPT !.graph.mods = GraphMods]
    /\ UNCHANGED <<settings, base_cs>>

(* HR first: a map with both is harder. Tenths are cut off, not rounded. *)
CsUnder(mods, cs) ==
    CASE "HR" \in mods                      -> IF cs * 13 > 1000 THEN 100 ELSE (cs * 13) \div 10
      [] "EZ" \in mods /\ "HR" \notin mods  -> cs \div 2
      [] OTHER                              -> cs

EffectiveCsWithMods ==
    LET custom == settings # Absent /\ settings.cs # Absent
        cs == IF custom THEN settings.cs ELSE base_cs
        withMods == custom /\ UnwrapOr(settings.cs_with_mods, TRUE)
        mods == IF settings = Absent THEN {} ELSE ModsOr({})
    IN  IF withMods THEN cs ELSE CsUnder(mods, cs)

(* effective_cs *)
EffectiveCs ==
    LET custom == settings # Absent /\ settings.cs # Absent
        cs == IF custom THEN settings.cs ELSE base_cs
        withMods == custom /\ UnwrapOr(settings.cs_with_mods, FALSE)
        mods == IF settings = Absent THEN {} ELSE ModsOr({})
    IN  IF withMods THEN cs ELSE CsUnder(mods, cs)

ReportCs ==
    /\ stage = "cs"
    /\ stage' = "done"
    /\ used' = [used EXCEPT !.cs = EffectiveCs]
    /\ UNCHANGED <<settings, base_cs>>

Done == stage = "done" /\ UNCHANGED settingsVars

SettingsNext == Convert \/ Difficulty \/ Performance \/ StrainGraph \/ ReportCs \/ Done

SettingsSpec == SettingsInit /\ [][SettingsNext]_settingsVars

-----------------------------------------------------------------------------

(* The mods that the performance and the strain graph are computed with are
   the ones the difficulty is computed with, whichever of mods and mods_str
   is missing, invalid or contradicts the other: the three copies of the
   rule, which fall back each in its own way (convert.rs:79-92, calculator.rs:
   47-55, 93-104), agree. *)
SameModsEverywhere ==
    stage = "done" =>
        /\ used.performance.mods = used.difficulty.mods
        /\ used.performance.clock_rate = used.difficulty.clock_rate
        /\ used.graph.mods = used.difficulty.mods

(* As long as acronyms play no part, the cs reported beside a difficulty is
   the one it is computed with, custom or the beatmap's: the two readings of
   cs and cs_with_mods (convert.rs:95, 133-139) agree, and so do those of
   the mods (convert.rs:79-92, 141). *)
CsOfTheDifficulty ==
    stage = "done" /\ (settings # Absent => settings.mods_str \in {Absent, Invalid}) =>
        LET custom == used.difficulty.cs
        IN  used.cs = IF custom = Absent THEN CsUnder(used.difficulty.mods, base_cs)
                      ELSE IF custom.with_mods THEN custom.value
                      ELSE CsUnder(used.difficulty.mods, custom.value)

(* "Calculate effective CS with mods and custom settings applied"
   (convert.rs:124): the cs reported beside a difficulty is the one of the
   mods the difficulty is computed with. *)
CsOfTheMods ==
    stage = "done" /\ settings # Absent /\ settings.cs = Absent =>
        used.cs = CsUnder(used.difficulty.mods, base_cs)

=============================================================================
