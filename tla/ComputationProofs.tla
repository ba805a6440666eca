------------------------- MODULE ComputationProofs -------------------------
(***************************************************************************)
(* Theorems about sequential computations, which share nothing: the        *)
(* settings of a request on their way in (Settings) and what it gets back  *)
(* (Response), for every set of mods, circle sizes, rates and beatmaps;    *)
(* and the scan of a file for its id (BeatmapIdScan), for files of any     *)
(* number of lines, any sections and any width of the id.                  *)
(***************************************************************************)
EXTENDS Settings, Response, BeatmapIdScan, SequenceTheorems, TLAPS

-----------------------------------------------------------------------------
(***************************************************************************)
(* Settings. The invariant says what each stage that is over has worked    *)
(* with; the properties compare these.                                     *)
(***************************************************************************)

Stages == {"convert", "difficulty", "performance", "graph", "cs", "done"}

Inputs ==
    [mods : Mods, clock_rate : ClockRate \cup {Absent},
     cs : [value : BaseCs, with_mods : BOOLEAN] \cup {Absent}]

InputInv ==
    /\ settings \in SettingsOf \cup {Absent}
    /\ base_cs \in BaseCs
    /\ stage \in Stages
    /\ used = [conversion |-> used.conversion, difficulty |-> used.difficulty,
               performance |-> used.performance, graph |-> used.graph, cs |-> used.cs]
    /\ \A copy \in {used.conversion, used.difficulty, used.performance, used.graph} :
          copy = [mods |-> copy.mods, clock_rate |-> copy.clock_rate, cs |-> copy.cs]

(* Without settings every stage keeps the defaults. *)
DefaultInv ==
    settings = Absent =>
        used.difficulty = Unset /\ used.performance = Unset /\ used.graph = Unset

StageInv ==
    settings # Absent =>
        /\ stage \notin {"convert", "difficulty"} =>
              used.difficulty = [mods |-> DifficultyMods, clock_rate |-> settings.clock_rate,
                                 cs |-> CustomCs]
        /\ stage \in {"graph", "cs", "done"} =>
              /\ used.performance.mods = PerformanceMods
              /\ used.performance.clock_rate = settings.clock_rate
        /\ stage \in {"cs", "done"} => used.graph.mods = GraphMods

CsInv == stage = "done" => used.cs = EffectiveCs

UsedInv == InputInv /\ DefaultInv /\ StageInv /\ CsInv

-----------------------------------------------------------------------------

LEMMA UsedInitInv == SettingsInit => UsedInv
  BY DEF SettingsInit, UsedInv, InputInv, DefaultInv, StageInv, CsInv, Unset, Stages

LEMMA UsedNextInv == UsedInv /\ [SettingsNext]_settingsVars => UsedInv'
<1> SUFFICES ASSUME UsedInv, [SettingsNext]_settingsVars
             PROVE  UsedInv'
  OBVIOUS
<1>1. settings' = settings /\ base_cs' = base_cs
  BY DEF SettingsNext, Convert, Difficulty, Performance, StrainGraph, ReportCs, Done, settingsVars
<1>2. /\ DifficultyMods' = DifficultyMods /\ PerformanceMods' = PerformanceMods
      /\ GraphMods' = GraphMods
      /\ CustomCs' = CustomCs /\ EffectiveCs' = EffectiveCs
  BY <1>1 DEF DifficultyMods, PerformanceMods, GraphMods, ModsOr, CustomCs, EffectiveCs
<1>3. /\ used.performance = [mods |-> used.performance.mods,
                             clock_rate |-> used.performance.clock_rate,
                             cs |-> used.performance.cs]
      /\ used.graph = [mods |-> used.graph.mods, clock_rate |-> used.graph.clock_rate,
                       cs |-> used.graph.cs]
  <2> DEFINE copies == {used.conversion, used.difficulty, used.performance, used.graph}
  <2>1. \A copy \in copies : copy = [mods |-> copy.mods, clock_rate |-> copy.clock_rate, cs |-> copy.cs]
    BY Zenon DEF UsedInv, InputInv
  <2>2. used.performance \in copies /\ used.graph \in copies
    OBVIOUS
  <2> HIDE DEF copies
  <2> QED
    BY <2>1, <2>2, Zenon
<1> USE DEF UsedInv, InputInv, DefaultInv, StageInv, CsInv, Unset, Stages
<1>4. CASE Convert
  BY <1>1, <1>2, <1>4 DEF Convert
<1>5. CASE Difficulty
  BY <1>1, <1>2, <1>5 DEF Difficulty
<1>6. CASE Performance
  <2> DEFINE before == used.performance
             result == [before EXCEPT !.mods = PerformanceMods, !.clock_rate = settings.clock_rate]
  <2>1. used' = IF settings = Absent THEN used ELSE [used EXCEPT !.performance = result]
    BY <1>6 DEF Performance
  <2>2. result = [mods |-> PerformanceMods, clock_rate |-> settings.clock_rate,
                  cs |-> before.cs]
    <3>1. before = [mods |-> before.mods, clock_rate |-> before.clock_rate, cs |-> before.cs]
      BY <1>3
    <3> DEFINE between == [before EXCEPT !.mods = PerformanceMods]
    <3> HIDE DEF before
    <3>2. between = [mods |-> PerformanceMods, clock_rate |-> before.clock_rate, cs |-> before.cs]
      BY <3>1
    <3>3. result = [between EXCEPT !.clock_rate = settings.clock_rate]
      OBVIOUS
    <3> HIDE DEF between
    <3> QED
      BY <3>2, <3>3
  <2> HIDE DEF result
  <2>3. stage = "performance" /\ stage' = "graph"
    BY <1>6 DEF Performance
  <2>4. CASE settings = Absent
    BY <1>1, <1>2, <2>1, <2>3, <2>4
  <2>5. CASE settings # Absent
    <3>1. /\ used'.performance = result
          /\ used'.conversion = used.conversion
          /\ used'.difficulty = used.difficulty
          /\ used'.graph = used.graph
          /\ used' = [conversion |-> used.conversion, difficulty |-> used.difficulty,
                      performance |-> result, graph |-> used.graph, cs |-> used.cs]
      BY <2>1, <2>5
    <3> QED
      BY <1>1, <1>2, <2>2, <2>3, <2>5, <3>1
  <2> QED
    BY <2>4, <2>5
<1>7. CASE StrainGraph
  <2> DEFINE before == used.graph
             result == [before EXCEPT !.mods = GraphMods]
  <2>1. used' = [used EXCEPT !.graph = result] /\ stage = "graph" /\ stage' = "cs"
    BY <1>7 DEF StrainGraph
  <2>2. result = [mods |-> GraphMods, clock_rate |-> before.clock_rate, cs |-> before.cs]
    <3>1. before = [mods |-> before.mods, clock_rate |-> before.clock_rate, cs |-> before.cs]
      BY <1>3
    <3> HIDE DEF before
    <3> QED
      BY <3>1
  <2> HIDE DEF result
  <2>3. /\ used'.graph = result
        /\ used'.conversion = used.conversion
        /\ used'.difficulty = used.difficulty
        /\ used'.performance = used.performance
        /\ used' = [conversion |-> used.conversion, difficulty |-> used.difficulty,
                    performance |-> used.performance, graph |-> result, cs |-> used.cs]
    BY <2>1
  <2>4. CASE settings = Absent
    <3>1. GraphMods = {}
      BY <2>4 DEF GraphMods
    <3>2. used.graph = Unset
      BY <2>4
    <3>3. result = Unset
      BY <2>2, <3>1, <3>2
    <3> QED
      BY <1>1, <1>2, <2>1, <2>2, <2>3, <2>4, <3>3
  <2>5. CASE settings # Absent
    BY <1>1, <1>2, <2>1, <2>2, <2>3, <2>5
  <2> QED
    BY <2>4, <2>5
<1>8. CASE ReportCs
  BY <1>1, <1>2, <1>8 DEF ReportCs
<1>9. CASE UNCHANGED settingsVars
  BY <1>1, <1>2, <1>9 DEF settingsVars
<1> QED
  BY <1>4, <1>5, <1>6, <1>7, <1>8, <1>9 DEF SettingsNext, Done

(* What each stage has worked with follows from the settings of the request
   (convert.rs:77-150, calculator.rs:27-117). *)
THEOREM UsedInvariant == SettingsSpec => []UsedInv
  BY UsedInitInv, UsedNextInv, PTL DEF SettingsSpec

-----------------------------------------------------------------------------
(***************************************************************************)
(* What the invariant is for.                                              *)
(***************************************************************************)

(* The three copies, each written out after its own code. *)
LEMMA CopiesAgree ==
  ASSUME settings # Absent
  PROVE  PerformanceMods = DifficultyMods /\ GraphMods = DifficultyMods
<1>1. CASE settings.mods_str = Absent
  BY <1>1 DEF DifficultyMods, PerformanceMods, GraphMods, ModsOr, Unset
<1>2. CASE settings.mods_str = Invalid
  BY <1>2 DEF DifficultyMods, PerformanceMods, GraphMods, ModsOr, Unset
<1>3. CASE settings.mods_str \notin {Absent, Invalid}
  BY <1>3 DEF DifficultyMods, PerformanceMods, GraphMods
<1> QED
  BY <1>1, <1>2, <1>3

(* The copies of the rule agree for every set of mods, acronyms and rates
   (convert.rs:79-92, calculator.rs:47-55, 93-104). *)
THEOREM SameModsAlways == SettingsSpec => []SameModsEverywhere
<1>1. UsedInv => SameModsEverywhere
  <2> SUFFICES ASSUME UsedInv, stage = "done"
               PROVE  /\ used.performance.mods = used.difficulty.mods
                      /\ used.performance.clock_rate = used.difficulty.clock_rate
                      /\ used.graph.mods = used.difficulty.mods
    BY DEF SameModsEverywhere
  <2>1. CASE settings = Absent
    BY <2>1 DEF UsedInv, DefaultInv
  <2>2. CASE settings # Absent
    BY <2>2, CopiesAgree DEF UsedInv, StageInv
  <2> QED
    BY <2>1, <2>2
<1> QED
  BY <1>1, UsedInvariant, PTL

(* The two readings of cs and its flag agree for every circle size
   (convert.rs:95, 133-149), as long as no acronym is involved. *)
THEOREM CsOfTheDifficultyAlways == SettingsSpec => []CsOfTheDifficulty
<1>1. UsedInv => CsOfTheDifficulty
  <2> SUFFICES ASSUME UsedInv, stage = "done",
                      settings # Absent => settings.mods_str \in {Absent, Invalid}
               PROVE  LET custom == used.difficulty.cs
                      IN  used.cs = IF custom = Absent THEN CsUnder(used.difficulty.mods, base_cs)
                                    ELSE IF custom.with_mods THEN custom.value
                                    ELSE CsUnder(used.difficulty.mods, custom.value)
    BY DEF CsOfTheDifficulty
  <2>1. used.cs = EffectiveCs
    BY DEF UsedInv, CsInv
  <2>2. CASE settings = Absent
    <3>1. used.difficulty.cs = Absent /\ used.difficulty.mods = {}
      BY <2>2 DEF UsedInv, DefaultInv, Unset
    <3>2. EffectiveCs = CsUnder({}, base_cs)
      BY <2>2 DEF EffectiveCs
    <3> QED
      BY <2>1, <3>1, <3>2
  <2>3. CASE settings # Absent
    <3>1. /\ used.difficulty.mods = ModsOr({})
          /\ used.difficulty.cs = CustomCs
      BY <2>3 DEF UsedInv, StageInv, DifficultyMods, ModsOr, Unset
    <3>2. CASE settings.cs = Absent
      <4>1. EffectiveCs = CsUnder(ModsOr({}), base_cs)
        BY <2>3, <3>2 DEF EffectiveCs
      <4>2. CustomCs = Absent
        BY <3>2 DEF CustomCs
      <4> QED
        BY <2>1, <3>1, <4>1, <4>2
    <3>3. CASE settings.cs # Absent
      <4> DEFINE cs == settings.cs
                 withMods == UnwrapOr(settings.cs_with_mods, FALSE)
      <4>1. cs \in BaseCs /\ withMods \in BOOLEAN
        BY <2>3, <3>3 DEF UsedInv, InputInv, SettingsOf, UnwrapOr
      <4>2. EffectiveCs = IF withMods THEN cs ELSE CsUnder(ModsOr({}), cs)
        BY <2>3, <3>3 DEF EffectiveCs
      <4>3. CustomCs = [value |-> cs, with_mods |-> withMods]
        BY <3>3 DEF CustomCs
      <4> HIDE DEF cs, withMods
      <4>4. CustomCs # Absent
        BY <4>1, <4>3, SettingsAssumption
      <4>5. CustomCs.value = cs /\ CustomCs.with_mods = withMods
        BY <4>3
      <4> QED
        BY <2>1, <3>1, <4>2, <4>4, <4>5
    <3> QED
      BY <3>2, <3>3
  <2> QED
    BY <2>2, <2>3
<1> QED
  BY <1>1, UsedInvariant, PTL

-----------------------------------------------------------------------------
(***************************************************************************)
(* The way back: Response.                                                 *)
(***************************************************************************)

(* The mode a request asks for, if it is answered from beatmap m. *)
Asked(m) == IF AsksForMode THEN Named[request.mode] ELSE m.mode

RequestTypeInv ==
    /\ request \in RequestOf
    /\ phase \in {"load", "check", "convert", "calculate", "done"}

LoadedInv ==
    phase \in {"check", "convert", "calculate"} => ~TooLarge /\ request.file \in BeatmapFile

(* Until it is converted the beatmap at hand is one the request may be about;
   a suspicious one comes no further than to its check. *)
GivenInv ==
    /\ phase \in {"check", "convert"} => map \in Given
    /\ phase = "convert" => ~map.suspicious /\ request.method # "GetBeatmapInfo"

CalculateInv ==
    phase = "calculate" => map.mode \in Mode /\ \E m \in Given : map.mode = Asked(m)

(* A file without an id is answered from its own beatmap only. *)
BadMap(m) == m = Unparsable \/ m.suspicious

GoodFileInv == phase = "calculate" /\ request.file.id = Nothing => ~BadMap(request.file.map)

ReplyInv == ModeAsAsked /\ StatusNamesTheFault

ResponseInv ==
    RequestTypeInv /\ LoadedInv /\ GivenInv /\ CalculateInv /\ GoodFileInv /\ ReplyInv

-----------------------------------------------------------------------------

LEMMA NamedFacts ==
  /\ DOMAIN Named = 1 .. 4
  /\ \A m \in 1 .. 4 : Named[m] \in Mode
BY DEF Named, Mode

(* The tables of the modes agree with their names. *)
LEMMA Tables ==
  /\ \A m \in 1 .. 4 : proto_to_mode(m) = Named[m]
  /\ proto_to_mode(0) = Nothing
  /\ \A mode \in Mode : /\ mode_to_proto(mode) \in 1 .. 4
                        /\ Named[mode_to_proto(mode)] = mode
                        /\ FieldNamed[mode_to_proto(mode) + 9] = mode
BY DEF proto_to_mode, mode_to_proto, Named, FieldNamed, Mode

(* Each message has its own matches, and they agree: the fields of a oneof
   follow each other in the order of the modes. *)
LEMMA MessageTables ==
  ASSUME NEW mode \in Mode
  PROVE  /\ difficulty_to_proto(mode) = Message(mode_to_proto(mode), mode_to_proto(mode) + 9)
         /\ performance_to_proto(mode) = Message(mode_to_proto(mode), mode_to_proto(mode) + 9)
         /\ strains_to_proto(mode) = Message(mode_to_proto(mode), mode_to_proto(mode) + 9)
         /\ gradual_to_proto(mode) = Message(Nothing, mode_to_proto(mode) + 9)
BY DEF difficulty_to_proto, performance_to_proto, strains_to_proto, gradual_to_proto,
       mode_to_proto, Mode

LEMMA GivenFacts ==
  /\ Given \subseteq Beatmap
  /\ \A m \in Given : m.mode \in Mode /\ m.suspicious \in BOOLEAN
  /\ Given \subseteq AnsweredFrom(request.file)
BY ResponseAssumption DEF Given, AnsweredFrom, Beatmap

LEMMA GoodFile ==
  ASSUME map \in Given, ~map.suspicious, request.file.id = Nothing
  PROVE  ~BadMap(request.file.map)
BY DEF Given, AnsweredFrom, BadMap

(* A mode on the wire that is known is the one the conversion aims at. *)
LEMMA AskedFacts ==
  /\ request.mode \in 1 .. 4 => TargetMode = Named[request.mode]
  /\ request.mode \notin 1 .. 4 => TargetMode = Nothing
<1>1. CASE request.mode \in 1 .. 4
  BY <1>1, Tables DEF TargetMode, GameMode
<1>2. CASE request.mode \notin 1 .. 4
  BY <1>2, Tables DEF TargetMode, GameMode
<1>. QED  BY <1>1, <1>2

(* A reply that names a mode names the one that is asked for. *)
LEMMA GoodReply ==
  ASSUME ResponseInv, phase = "calculate", NEW r, Reply(r), r.status = "OK",
         r.mode = Nothing \/ r.mode = mode_to_proto(map.mode),
         r.attributes = Nothing \/ r.attributes = mode_to_proto(map.mode) + 9
  PROVE  ResponseInv'
<1>1. request' = request /\ phase' = "done" /\ reply' = r
  BY DEF Reply
<1>2. /\ ~TooLarge /\ request.file \in BeatmapFile /\ map.mode \in Mode
  BY DEF ResponseInv, LoadedInv, CalculateInv
<1>3. PICK m \in Given : map.mode = Asked(m)
  BY DEF ResponseInv, CalculateInv
<1>4. RequestTypeInv' /\ LoadedInv' /\ GivenInv' /\ CalculateInv' /\ GoodFileInv'
  BY <1>1 DEF ResponseInv, RequestTypeInv, LoadedInv, GivenInv, CalculateInv, GoodFileInv
<1>5. /\ r.mode # Nothing => Named[r.mode] = Asked(m)
      /\ r.attributes # Nothing => FieldNamed[r.attributes] = Asked(m)
  BY <1>2, <1>3, Tables
<1>6. Given' = Given /\ AsksForMode' = AsksForMode
  BY <1>1 DEF Given, AnsweredFrom, AsksForMode
<1>7. ModeAsAsked'
  BY <1>1, <1>3, <1>5, <1>6 DEF ModeAsAsked, Asked
<1>8. StatusNamesTheFault'
  <2>1. request.file.id = Nothing => ~BadMap(request.file.map)
    BY DEF ResponseInv, GoodFileInv
  <2>. QED  BY <1>1, <1>2, <2>1, ResponseAssumption DEF StatusNamesTheFault, TooLarge, BadMap
<1>. QED  BY <1>4, <1>7, <1>8 DEF ResponseInv, ReplyInv

(* What StatusNamesTheFault asks of a status. *)
NoRequestMade == request.file = NoFile \/ TooLarge

FaultNamed(status) ==
    /\ NoRequestMade => status = "INVALID_ARGUMENT"
    /\ status = "INVALID_ARGUMENT" => NoRequestMade \/ request.file.id # Nothing
    /\ status = "FAILED_PRECONDITION" =>
          /\ ~NoRequestMade
          /\ \/ \E m \in AnsweredFrom(request.file) : BadMap(m)
             \/ request.method = "GetStrainGraph"
    /\ ~NoRequestMade /\ request.file.id = Nothing /\ BadMap(request.file.map) =>
          status = "FAILED_PRECONDITION"
    /\ status = "UNIMPLEMENTED" =>
          /\ AsksForMode
          /\ \E m \in Given : ~m.suspicious /\ m.mode # Named[request.mode]
    /\ status = "INTERNAL" => request.method = "GetStrainGraph"

LEMMA FaultNamedIsTheProperty ==
  StatusNamesTheFault <=> (phase = "done" => FaultNamed(reply.status))
BY DEF StatusNamesTheFault, FaultNamed, At, BadMap, NoRequestMade

(* A failure whose status is right keeps the invariant. *)
LEMMA BadReply ==
  ASSUME ResponseInv, NEW error, Fail(error), StatusOf(error) # "OK",
         FaultNamed(StatusOf(error))
  PROVE  ResponseInv'
<1> DEFINE status == StatusOf(error)
<1>1. /\ request' = request /\ phase' = "done"
      /\ reply' = [status |-> status, mode |-> Nothing, attributes |-> Nothing]
  BY DEF Fail, Reply
<1>2. RequestTypeInv' /\ LoadedInv' /\ GivenInv' /\ CalculateInv' /\ GoodFileInv'
  BY <1>1 DEF ResponseInv, RequestTypeInv, LoadedInv, GivenInv, CalculateInv, GoodFileInv
<1>. HIDE DEF status
<1>3. reply'.status = status /\ status # "OK"
  BY <1>1 DEF status
<1>4. ModeAsAsked'
  BY <1>3 DEF ModeAsAsked, Succeeded
<1>5. FaultNamed(status)' = FaultNamed(status)
  BY <1>1 DEF FaultNamed, BadMap, NoRequestMade, TooLarge, AnsweredFrom, Given, AsksForMode,
              status, StatusOf
<1>6. FaultNamed(reply.status)'
  BY <1>3, <1>1 DEF FaultNamed, BadMap, NoRequestMade, TooLarge, AnsweredFrom, Given, AsksForMode,
                    status
<1>7. StatusNamesTheFault'
  BY <1>6, FaultNamedIsTheProperty, PTL
<1>. QED  BY <1>2, <1>4, <1>7 DEF ResponseInv, ReplyInv

LEMMA ResponseInitInv == ResponseInit => ResponseInv
BY DEF ResponseInit, ResponseInv, RequestTypeInv, LoadedInv, GivenInv, CalculateInv, GoodFileInv,
       ReplyInv, ModeAsAsked, StatusNamesTheFault, Succeeded, At

(* A step that does not reply owes nothing to the properties of replies. *)
LEMMA NoReply ==
  ASSUME phase' # "done"
  PROVE  ReplyInv'
BY DEF ReplyInv, ModeAsAsked, StatusNamesTheFault, Succeeded, At

LEMMA ResponseNextInv == ResponseInv /\ [ResponseNext]_responseVars => ResponseInv'
<1>. SUFFICES ASSUME ResponseInv, [ResponseNext]_responseVars
              PROVE  ResponseInv'
  OBVIOUS
<1>1. CASE RejectBatch
  <2>1. NoRequestMade /\ Fail("BatchTooLarge")
    BY <1>1 DEF RejectBatch, NoRequestMade
  <2>2. StatusOf("BatchTooLarge") = "INVALID_ARGUMENT"
    BY DEF StatusOf
  <2>3. FaultNamed(StatusOf("BatchTooLarge"))
    BY <2>1, <2>2 DEF FaultNamed
  <2>. QED  BY <2>1, <2>2, <2>3, BadReply
<1>2. CASE RejectRequest
  <2>1. NoRequestMade /\ Fail("MissingBeatmap")
    BY <1>2 DEF RejectRequest, NoRequestMade
  <2>2. StatusOf("MissingBeatmap") = "INVALID_ARGUMENT"
    BY DEF StatusOf
  <2>3. FaultNamed(StatusOf("MissingBeatmap"))
    BY <2>1, <2>2 DEF FaultNamed
  <2>. QED  BY <2>1, <2>2, <2>3, BadReply
<1>3. CASE TakeCached \/ TakeParsed
  <2>1. request' = request /\ phase' = "check"
    BY <1>3 DEF TakeCached, TakeParsed, Loaded
  <2>2. ~TooLarge /\ request.file \in BeatmapFile /\ map' \in Given
    <3>1. ~TooLarge /\ request.file # NoFile
      BY <1>3 DEF TakeCached, TakeParsed, Loading
    <3>2. request.file \in BeatmapFile
      BY <3>1 DEF ResponseInv, RequestTypeInv, RequestOf
    <3>3. CASE TakeCached
      <4>1. PICK f \in BeatmapFile : f.id = request.file.id /\ f.map # Unparsable /\ map' = f.map
        BY <3>3 DEF TakeCached, Loaded
      <4>2. request.file.id # Nothing
        BY <3>3 DEF TakeCached
      <4>. QED  BY <3>1, <3>2, <4>1, <4>2 DEF Given, AnsweredFrom
    <3>4. CASE TakeParsed
      BY <3>1, <3>2, <3>4 DEF TakeParsed, Loaded, Given, AnsweredFrom
    <3>. QED  BY <1>3, <3>3, <3>4
  <2>3. RequestTypeInv' /\ LoadedInv' /\ GivenInv' /\ CalculateInv' /\ GoodFileInv'
    BY <2>1, <2>2 DEF ResponseInv, RequestTypeInv, LoadedInv, GivenInv, CalculateInv, GoodFileInv,
                      TooLarge, Given, AnsweredFrom
  <2>. QED  BY <2>1, <2>3, NoReply DEF ResponseInv
<1>4. CASE RejectBrokenFile
  <2>1. ~TooLarge /\ request.file # NoFile /\ request.file.map = Unparsable /\ Fail("Parse")
    BY <1>4 DEF RejectBrokenFile, Loading
  <2>2. StatusOf("Parse") = "FAILED_PRECONDITION"
    BY DEF StatusOf
  <2>3. ~NoRequestMade /\ \E m \in AnsweredFrom(request.file) : BadMap(m)
    <3>1. request.file \in BeatmapFile
      BY <2>1 DEF ResponseInv, RequestTypeInv, RequestOf
    <3>. QED  BY <2>1, <3>1 DEF NoRequestMade, AnsweredFrom, BadMap
  <2>4. FaultNamed(StatusOf("Parse"))
    BY <2>2, <2>3 DEF FaultNamed
  <2>. QED  BY <2>1, <2>2, <2>4, BadReply
<1>5. CASE LoseEntry
  <2>1. /\ ~TooLarge /\ request.file # NoFile /\ request.file.id # Nothing
        /\ Fail("MissingBeatmap")
    BY <1>5 DEF LoseEntry, Loading
  <2>2. StatusOf("MissingBeatmap") = "INVALID_ARGUMENT"
    BY DEF StatusOf
  <2>3. FaultNamed(StatusOf("MissingBeatmap"))
    BY <2>1, <2>2 DEF FaultNamed
  <2>. QED  BY <2>1, <2>2, <2>3, BadReply
<1>6. CASE RejectSuspicious
  <2>1. phase = "check" /\ map.suspicious /\ Fail("Suspicious")
    BY <1>6 DEF RejectSuspicious, At
  <2>2. StatusOf("Suspicious") = "FAILED_PRECONDITION"
    BY DEF StatusOf
  <2>3. ~NoRequestMade /\ map \in Given
    BY <2>1, ResponseAssumption DEF NoRequestMade, ResponseInv, LoadedInv, GivenInv
  <2>4. \E m \in AnsweredFrom(request.file) : BadMap(m)
    BY <2>1, <2>3 DEF Given, BadMap
  <2>5. FaultNamed(StatusOf("Suspicious"))
    BY <2>2, <2>3, <2>4 DEF FaultNamed
  <2>. QED  BY <2>1, <2>2, <2>5, BadReply
<1>7. CASE AcceptMap
  <2>1. /\ phase = "check" /\ ~map.suspicious /\ request' = request /\ map' = map
        /\ phase' = IF request.method = "GetBeatmapInfo" THEN "calculate" ELSE "convert"
    BY <1>7 DEF AcceptMap, At
  <2>2. ~TooLarge /\ request.file \in BeatmapFile /\ map \in Given /\ map.mode \in Mode
    BY <2>1, GivenFacts DEF ResponseInv, LoadedInv, GivenInv
  <2>3. request.method = "GetBeatmapInfo" => Asked(map) = map.mode
    BY DEF Asked, AsksForMode
  <2>4. RequestTypeInv' /\ LoadedInv' /\ GivenInv'
    BY <2>1, <2>2 DEF ResponseInv, RequestTypeInv, LoadedInv, GivenInv, TooLarge, Given, AnsweredFrom
  <2>5. CalculateInv'
    BY <2>1, <2>2, <2>3 DEF CalculateInv, Asked, AsksForMode, Given, AnsweredFrom
  <2>6. GoodFileInv'
    BY <2>1, <2>2, GoodFile DEF GoodFileInv, BadMap
  <2>. QED  BY <2>1, <2>4, <2>5, <2>6, NoReply DEF ResponseInv
<1>8. CASE KeepMode \/ ChangeMode
  <2>1. /\ phase = "convert" /\ request' = request /\ phase' = "calculate"
        /\ request.method # "GetBeatmapInfo" /\ map \in Given /\ ~map.suspicious
        /\ ~TooLarge /\ request.file \in BeatmapFile
    BY <1>8 DEF KeepMode, ChangeMode, At, ResponseInv, GivenInv, LoadedInv
  <2>2. AsksForMode <=> request.mode \in 1 .. 4
    BY <2>1, NamedFacts DEF AsksForMode
  <2>3. map'.mode = Asked(map) /\ map'.mode \in Mode
    <3>1. map \in Beatmap /\ map.mode \in Mode
      BY <2>1, GivenFacts
    <3>2. CASE KeepMode
      <4>1. map' = map /\ TargetMode \in {Nothing, map.mode}
        BY <3>2 DEF KeepMode
      <4>2. TargetMode = Nothing => request.mode \notin 1 .. 4
        BY AskedFacts, NamedFacts, ResponseAssumption
      <4>. QED  BY <2>2, <3>1, <4>1, <4>2, AskedFacts DEF Asked
    <3>3. CASE ChangeMode
      <4>1. TargetMode # Nothing /\ map' = [map EXCEPT !.mode = TargetMode]
        BY <3>3 DEF ChangeMode
      <4>2. request.mode \in 1 .. 4 /\ TargetMode = Named[request.mode]
        BY <4>1, AskedFacts
      <4>3. map'.mode = TargetMode
        BY <3>1, <4>1 DEF Beatmap
      <4>. QED  BY <2>2, <4>2, <4>3, NamedFacts DEF Asked
    <3>. QED  BY <1>8, <3>2, <3>3
  <2>4. Asked(map) = (IF AsksForMode THEN Named[request.mode] ELSE map.mode)
    BY DEF Asked
  <2>5. \E m \in Given : map'.mode = Asked(m)
    BY <2>1, <2>3
  <2>6. CalculateInv'
    BY <2>1, <2>3, <2>5 DEF CalculateInv, Asked, AsksForMode, Given, AnsweredFrom
  <2>7. RequestTypeInv' /\ LoadedInv' /\ GivenInv'
    BY <2>1 DEF ResponseInv, RequestTypeInv, LoadedInv, GivenInv, TooLarge
  <2>8. GoodFileInv'
    BY <2>1, GoodFile DEF GoodFileInv, BadMap
  <2>. QED  BY <2>1, <2>6, <2>7, <2>8, NoReply DEF ResponseInv
<1>9. CASE RefuseMode
  <2>1. /\ phase = "convert" /\ TargetMode \notin {Nothing, map.mode} /\ Fail("Conversion")
        /\ request.method # "GetBeatmapInfo" /\ map \in Given /\ ~map.suspicious
        /\ ~TooLarge /\ request.file \in BeatmapFile
    BY <1>9 DEF RefuseMode, At, ResponseInv, GivenInv, LoadedInv
  <2>2. StatusOf("Conversion") = "UNIMPLEMENTED"
    BY DEF StatusOf
  <2>3. request.mode \in 1 .. 4 /\ TargetMode = Named[request.mode]
    BY <2>1, AskedFacts
  <2>4. AsksForMode /\ \E m \in Given : ~m.suspicious /\ m.mode # Named[request.mode]
    BY <2>1, <2>3, NamedFacts DEF AsksForMode
  <2>5. ~NoRequestMade
    BY <2>1, ResponseAssumption DEF NoRequestMade
  <2>6. ~(request.file.id = Nothing /\ BadMap(request.file.map))
    BY <2>1, GoodFile
  <2>7. FaultNamed(StatusOf("Conversion"))
    BY <2>2, <2>4, <2>5, <2>6 DEF FaultNamed
  <2>. QED  BY <2>1, <2>2, <2>7, BadReply
<1>10. CASE \/ SendDifficulty \/ SendPerformance \/ SendStrains \/ SendGradual
            \/ SendGradualPerformance \/ SendInfo \/ SendGraph
  <2>1. phase = "calculate" /\ map.mode \in Mode
    BY <1>10 DEF SendDifficulty, SendPerformance, SendStrains, SendGradual,
                 SendGradualPerformance, SendInfo, SendGraph, Calculating, At,
                 ResponseInv, CalculateInv
  <2> DEFINE wire == mode_to_proto(map.mode)
  <2>2. \/ Reply(Message(wire, wire + 9))
        \/ Reply(Message(Nothing, wire + 9))
        \/ Reply(Message(wire, Nothing))
        \/ Reply(Message(Nothing, Nothing))
    BY <1>10, <2>1, MessageTables
       DEF SendDifficulty, SendPerformance, SendStrains, SendGradual,
           SendGradualPerformance, SendInfo, SendGraph, beatmap_to_proto
  <2>. HIDE DEF wire
  <2>3. PICK mode \in {Nothing, wire}, attributes \in {Nothing, wire + 9} :
           Reply(Message(mode, attributes))
    BY <2>2
  <2> DEFINE r == Message(mode, attributes)
  <2>4. r.status = "OK" /\ r.mode = mode /\ r.attributes = attributes
    BY DEF Message
  <2>. HIDE DEF r
  <2>5. Reply(r)
    BY <2>3 DEF r
  <2>. QED  BY <2>1, <2>3, <2>4, <2>5, GoodReply DEF wire
<1>11. CASE GraphFails
  <2>1. PICK error \in {"NoStrainData", "GraphRendering"} : Fail(error)
    BY <1>11 DEF GraphFails
  <2>2. phase = "calculate" /\ request.method = "GetStrainGraph"
    BY <1>11 DEF GraphFails, Calculating, At
  <2>3. StatusOf("NoStrainData") = "FAILED_PRECONDITION" /\ StatusOf("GraphRendering") = "INTERNAL"
    BY DEF StatusOf
  <2>4. ~NoRequestMade
    BY <2>2, ResponseAssumption DEF NoRequestMade, ResponseInv, LoadedInv
  <2>5. StatusOf(error) \in {"FAILED_PRECONDITION", "INTERNAL"}
    BY <2>1, <2>3
  <2>6. ~(request.file.id = Nothing /\ BadMap(request.file.map))
    BY <2>2 DEF ResponseInv, GoodFileInv
  <2>7. FaultNamed(StatusOf(error))
    BY <2>2, <2>4, <2>5, <2>6 DEF FaultNamed
  <2>8. StatusOf(error) # "OK"
    BY <2>5
  <2>. QED  BY <2>1, <2>7, <2>8, BadReply
<1>12. CASE Replied \/ UNCHANGED responseVars
  <2>1. UNCHANGED responseVars
    BY <1>12 DEF Replied
  <2>. QED  BY <2>1 DEF responseVars, ResponseInv, RequestTypeInv, LoadedInv, GivenInv,
              CalculateInv, GoodFileInv, TooLarge, Asked, AsksForMode, Given, AnsweredFrom, BadMap,
              ReplyInv, ModeAsAsked, StatusNamesTheFault, Succeeded, At
<1>. QED  BY <1>1, <1>2, <1>3, <1>4, <1>5, <1>6, <1>7, <1>8, <1>9, <1>10, <1>11, <1>12
          DEF ResponseNext

(* The inductive invariant holds on every request's way. *)
THEOREM ResponseInvariant == ResponseSpec => []ResponseInv
BY ResponseInitInv, ResponseNextInv, PTL DEF ResponseSpec

(* Whatever the files, their ids and what the cache holds, every mode in a
   response is the one the request asks for, or that of the beatmap it is
   answered from (convert.rs:51-75, 153-217, 342-347). *)
THEOREM ModeAlwaysAsAsked == ResponseSpec => []ModeAsAsked
<1>1. ResponseInv => ModeAsAsked
  BY DEF ResponseInv, ReplyInv
<1>. QED  BY <1>1, ResponseInvariant, PTL

(* Every status names what is at fault, with the exceptions that the cache
   makes for files with an id (error.rs:36-47, convert.rs:33-42). *)
THEOREM StatusAlwaysNamesTheFault == ResponseSpec => []StatusNamesTheFault
<1>1. ResponseInv => StatusNamesTheFault
  BY DEF ResponseInv, ReplyInv
<1>. QED  BY <1>1, ResponseInvariant, PTL

-----------------------------------------------------------------------------
(***************************************************************************)
(* The scan for the BeatmapID.                                             *)
(***************************************************************************)

(* The loop: no line behind it has ended it, and when it has ended, the line
   it stands at is the reason. *)
PassedOver == \A i \in 1 .. at - 1 : ~IsId(i) /\ ~IsHeader(i, "HitObjects")

AtAnId == at \in DOMAIN file.lines /\ IsId(at) /\ scanned = ParseU32(file.lines[at].text)

AtHitObjects ==
    at \in DOMAIN file.lines /\ IsHeader(at, "HitObjects") /\ scanned = NoBeatmapId

AtTheEnd == at = Len(file.lines) + 1 /\ scanned = NoBeatmapId

Reason == ~file.utf8 \/ AtAnId \/ AtHitObjects \/ AtTheEnd

ScanInv ==
    /\ ScanTypeOK
    /\ PassedOver
    /\ scanned # Scanning => Reason

LEMMA LinesType ==
  ASSUME ScanTypeOK
  PROVE  /\ file.lines \in Seq(Line)
         /\ Len(file.lines) \in Nat
         /\ DOMAIN file.lines = 1 .. Len(file.lines)
         /\ at \in Nat
BY ScanAssumption, LenProperties DEF ScanTypeOK

LEMMA ParseU32Type ==
  ASSUME NEW text
  PROVE  ParseU32(text) \in {NoBeatmapId} \cup 0 .. U32 - 1
BY DEF ParseU32

LEMMA ScanInitInv == ScanInit => ScanInv
<1> SUFFICES ASSUME ScanInit PROVE ScanInv
  OBVIOUS
<1>1. file.lines \in Seq(Line) /\ Len(file.lines) \in Nat
  BY ScanAssumption, LenProperties DEF ScanInit
<1> QED
  BY <1>1 DEF ScanInit, ScanInv, ScanTypeOK, PassedOver

LEMMA ScanStepInv == ScanInv /\ [ScanNext]_scanVars => ScanInv'
<1> SUFFICES ASSUME ScanInv, [ScanNext]_scanVars
             PROVE  ScanInv'
  OBVIOUS
<1>1. /\ ScanTypeOK /\ PassedOver
      /\ scanned # Scanning => Reason
      /\ Len(file.lines) \in Nat
      /\ DOMAIN file.lines = 1 .. Len(file.lines)
      /\ at \in 1 .. Len(file.lines) + 1
  BY LinesType DEF ScanInv, ScanTypeOK
<1>2. CASE RejectBytes
  BY <1>1, <1>2 DEF RejectBytes, ScanInv, ScanTypeOK, PassedOver, Reason, IsId, IsHeader
<1>3. CASE TakeId
  <2>1. scanned' = ParseU32(file.lines[at].text) /\ file' = file /\ at' = at
    BY <1>3 DEF TakeId
  <2>2. ScanTypeOK' /\ PassedOver'
    BY <1>1, <2>1, ParseU32Type DEF ScanTypeOK, PassedOver, IsId, IsHeader
  <2>3. AtAnId'
    BY <1>1, <1>3, <2>1 DEF TakeId, AtLine, AtAnId, IsId, ParseU32
  <2> QED
    BY <2>2, <2>3 DEF ScanInv, Reason
<1>4. CASE StopAtHitObjects
  <2>1. scanned' = NoBeatmapId /\ file' = file /\ at' = at
    BY <1>4 DEF StopAtHitObjects
  <2>2. ScanTypeOK' /\ PassedOver'
    BY <1>1, <2>1 DEF ScanTypeOK, PassedOver, IsId, IsHeader
  <2>3. AtHitObjects'
    BY <1>1, <1>4, <2>1 DEF StopAtHitObjects, AtLine, AtHitObjects, IsHeader
  <2> QED
    BY <2>2, <2>3 DEF ScanInv, Reason
<1>5. CASE NextLine
  <2>1. /\ at' = at + 1 /\ file' = file /\ scanned' = scanned
        /\ scanned = Scanning
        /\ at <= Len(file.lines)
        /\ ~IsId(at) /\ ~IsHeader(at, "HitObjects")
    BY <1>5 DEF NextLine, AtLine
  <2>2. ScanTypeOK'
    BY <1>1, <2>1 DEF ScanTypeOK
  <2>3. PassedOver'
    <3>1. \A i \in 1 .. at : ~IsId(i) /\ ~IsHeader(i, "HitObjects")
      BY <1>1, <2>1 DEF PassedOver
    <3> QED
      BY <1>1, <2>1, <3>1 DEF PassedOver, IsId, IsHeader
  <2> QED
    BY <2>1, <2>2, <2>3 DEF ScanInv
<1>6. CASE EndOfFile
  <2>1. scanned' = NoBeatmapId /\ file' = file /\ at' = at /\ at > Len(file.lines)
    BY <1>6 DEF EndOfFile
  <2>2. ScanTypeOK' /\ PassedOver'
    BY <1>1, <2>1 DEF ScanTypeOK, PassedOver, IsId, IsHeader
  <2>3. AtTheEnd'
    BY <1>1, <2>1 DEF AtTheEnd
  <2> QED
    BY <2>2, <2>3 DEF ScanInv, Reason
<1>7. CASE Scanned \/ UNCHANGED scanVars
  BY <1>1, <1>7 DEF Scanned, scanVars, ScanInv, ScanTypeOK, PassedOver, Reason, AtAnId,
                    AtHitObjects, AtTheEnd, IsId, IsHeader, ParseU32
<1> QED
  BY <1>2, <1>3, <1>4, <1>5, <1>6, <1>7 DEF ScanNext

(* The scan of any file keeps its invariant (cache.rs:75-87). *)
THEOREM ScanInvariant == ScanSpec => []ScanInv
BY ScanInitInv, ScanStepInv, PTL DEF ScanSpec

(* The result of a scan is a u32 or none, and the loop stays in the file. *)
THEOREM ScanTypeCorrect == ScanSpec => []ScanTypeOK
BY ScanInvariant, PTL DEF ScanInv

-----------------------------------------------------------------------------

(* A file whose scan ended without an id has no id line, if it is regular: one
   behind the header of the hit objects would be in their section. *)
LEMMA NoIdLine ==
  ASSUME ScanInv, Regular, AtHitObjects \/ AtTheEnd
  PROVE  \A i \in DOMAIN file.lines : ~IsId(i)
<1> SUFFICES ASSUME NEW i \in DOMAIN file.lines, IsId(i)
             PROVE  FALSE
  OBVIOUS
<1>1. /\ i \in Nat /\ i >= 1 /\ i <= Len(file.lines)
      /\ at \in Nat /\ Len(file.lines) \in Nat
      /\ DOMAIN file.lines = 1 .. Len(file.lines)
  BY LinesType DEF ScanInv
<1>2. i >= at
  BY <1>1 DEF ScanInv, PassedOver
<1>3. CASE AtTheEnd
  BY <1>1, <1>2, <1>3 DEF AtTheEnd
<1>4. CASE AtHitObjects
  <2>1. /\ at \in DOMAIN file.lines
        /\ file.lines[at].kind = "section"
        /\ file.lines[at].name = "HitObjects"
    BY <1>4 DEF AtHitObjects, IsHeader
  <2>2. at < i
    BY <1>1, <1>2, <2>1 DEF IsId
  <2>3. PICK h \in 1 .. i - 1 :
           /\ file.lines[h].kind = "section"
           /\ file.lines[h].name = "Metadata"
           /\ \A k \in h + 1 .. i - 1 : file.lines[k].kind # "section"
    BY DEF Regular, InSection, IsHeader
  <2>4. h \in DOMAIN file.lines /\ h \in Nat
    BY <1>1
  <2>5. h <= at
    BY <2>1, <2>3, <2>4 DEF Regular, IsHeader
  <2>6. h # at
    BY <2>1, <2>3
  <2>7. at \in h + 1 .. i - 1
    BY <1>1, <2>2, <2>4, <2>5, <2>6
  <2> QED
    BY <2>1, <2>3, <2>7
<1> QED
  BY <1>3, <1>4

(* However long the file and wherever its metadata, the scan of a regular file
   finds the id of the metadata. *)
THEOREM ScanFindsMetadataId == ScanSpec => []IdOfTheMetadata
<1>1. ScanInv => IdOfTheMetadata
  <2> SUFFICES ASSUME ScanInv, scanned # Scanning, Regular
               PROVE  scanned = MetadataId
    BY DEF IdOfTheMetadata
  <2> DEFINE found(i) == IsId(i) /\ InSection(i, "Metadata")
  <2>1. CASE AtAnId
    <3>1. at \in DOMAIN file.lines /\ found(at)
      BY <2>1 DEF AtAnId, Regular
    <3>2. \A i \in DOMAIN file.lines : found(i) => i = at
      BY <3>1 DEF Regular
    <3> HIDE DEF found
    <3>3. (CHOOSE i \in DOMAIN file.lines : found(i)) = at
      BY <3>1, <3>2
    <3>4. MetadataId = ParseU32(file.lines[at].text)
      BY <3>1, <3>3 DEF MetadataId, found
    <3> QED
      BY <2>1, <3>4 DEF AtAnId
  <2>2. CASE AtHitObjects \/ AtTheEnd
    <3>1. \A i \in DOMAIN file.lines : ~IsId(i)
      BY <2>2, NoIdLine
    <3>2. MetadataId = NoBeatmapId
      BY <3>1 DEF MetadataId
    <3> QED
      BY <2>2, <3>2 DEF AtHitObjects, AtTheEnd
  <2> QED
    BY <2>1, <2>2 DEF ScanInv, Reason, Regular
<1> QED
  BY <1>1, ScanInvariant, PTL

=============================================================================
