------------------------------ MODULE Response ------------------------------
(***************************************************************************)
(* What a client gets back from one request: the mode it asks for on its   *)
(* way from the wire through Calculator's methods (src/service/            *)
(* calculator.rs) to the message that convert.rs builds, or the error on   *)
(* its way to a status (src/error.rs). What the cache holds when a request *)
(* comes is BeatmapLoader's subject; here every answer that it can give is *)
(* a choice: another file's beatmap under the same id, or none. The        *)
(* settings, which Settings follows, play no part.                         *)
(*                                                                         *)
(* Of a beatmap its mode is kept and whether it is suspicious, of a        *)
(* message the mode and the field of its oneof; the numbers that rosu-pp   *)
(* computes are copied. A batch is `size` times the same request; the      *)
(* reply of a gradual method is each response of its stream.               *)
(***************************************************************************)
EXTENDS Integers

CONSTANTS
    BeatmapFile,    \* what requests bring: [id, map]
    NoFile,         \* no beatmap in the request
    Unparsable,     \* in place of a file's map; a path that cannot be read too
    MAX_BATCH_SIZE,
    Nothing         \* a field, an id or a value that is not there

Mode == {"osu", "taiko", "catch", "mania"}

Beatmap == [mode : Mode, suspicious : BOOLEAN]

ASSUME ResponseAssumption ==
    /\ \A f \in BeatmapFile : f = [id |-> f.id, map |-> f.map]
                              /\ f.map \in Beatmap \cup {Unparsable}
    /\ NoFile \notin BeatmapFile
    /\ Unparsable \notin Beatmap
    /\ Nothing \notin Mode
    /\ MAX_BATCH_SIZE \in Nat

Method == {"CalculateDifficulty", "CalculatePerformance", "CalculateBatch", "GetStrains",
           "GetStrainGraph", "GetBeatmapInfo", "GetGradualDifficulty", "GetGradualPerformance"}

VARIABLES
    request,    \* method, beatmap, the mode on the wire, size of the batch
    phase,
    map,        \* the beatmap at hand
    reply       \* what the client gets

responseVars == <<request, phase, map, reply>>

(* An optional enum is any i32 on the wire. *)
WireMode == -1 .. 5 \cup {Nothing}

RequestOf ==
    [method : Method, file : BeatmapFile \cup {NoFile}, mode : WireMode,
     size : {1, MAX_BATCH_SIZE + 1}]

ResponseInit ==
    /\ request \in RequestOf
    /\ phase = "load"
    /\ map = Nothing
    /\ reply = Nothing

-----------------------------------------------------------------------------
(***************************************************************************)
(* The modes of the wire are numbers, and so are the fields of a oneof     *)
(* (pp.proto:16-22, 79-84). Each match of convert.rs is a table of its     *)
(* own; rosu-pp computes attributes of the beatmap's mode.                 *)
(***************************************************************************)

(* req.mode(): absent and unknown values are GAME_MODE_UNSPECIFIED. *)
GameMode == IF request.mode \in 1 .. 4 THEN request.mode ELSE 0

proto_to_mode_by_name(m) ==
    CASE m = 0 -> Nothing
      [] m = 1 -> "osu"
      [] m = 2 -> "catch"
      [] m = 3 -> "mania"
      [] m = 4 -> "taiko"

proto_to_mode(m) ==
    CASE m = 0 -> Nothing
      [] m = 1 -> "osu"
      [] m = 2 -> "taiko"
      [] m = 3 -> "catch"
      [] m = 4 -> "mania"

mode_to_proto(mode) == [osu |-> 1, taiko |-> 2, catch |-> 3, mania |-> 4][mode]

Message(mode, attributes) == [status |-> "OK", mode |-> mode, attributes |-> attributes]

difficulty_to_proto(attrs) ==
    Message([osu |-> 1, taiko |-> 2, catch |-> 3, mania |-> 4][attrs],
            [osu |-> 10, taiko |-> 11, catch |-> 12, mania |-> 13][attrs])

performance_to_proto(attrs) ==
    Message([osu |-> 1, taiko |-> 2, catch |-> 3, mania |-> 4][attrs],
            [osu |-> 10, taiko |-> 11, catch |-> 12, mania |-> 13][attrs])

strains_to_proto(strains) ==
    CASE strains = "osu"   -> Message(1, 10)
      [] strains = "taiko" -> Message(2, 11)
      [] strains = "catch" -> Message(3, 12)
      [] strains = "mania" -> Message(4, 13)

(* difficulty_attrs_to_gradual_proto: a message without a mode. *)
gradual_to_proto(attrs) ==
    Message(Nothing, [osu |-> 10, taiko |-> 11, catch |-> 12, mania |-> 13][attrs])

beatmap_to_proto(m) == Message(mode_to_proto(m.mode), Nothing)

-----------------------------------------------------------------------------
(***************************************************************************)
(* From<Error> for Status.                                                 *)
(***************************************************************************)
StatusByPhase(error) ==
    [MissingBeatmap |-> "INVALID_ARGUMENT", BatchTooLarge |-> "INVALID_ARGUMENT",
     Parse |-> "FAILED_PRECONDITION", Suspicious |-> "FAILED_PRECONDITION",
     Conversion |-> "FAILED_PRECONDITION", NoStrainData |-> "FAILED_PRECONDITION",
     GraphRendering |-> "INTERNAL"][error]

StatusOf(error) ==
    [MissingBeatmap |-> "INVALID_ARGUMENT", BatchTooLarge |-> "INVALID_ARGUMENT",
     Parse |-> "FAILED_PRECONDITION", Suspicious |-> "FAILED_PRECONDITION",
     Conversion |-> "UNIMPLEMENTED", NoStrainData |-> "FAILED_PRECONDITION",
     GraphRendering |-> "INTERNAL"][error]

At(p) == phase = p

Reply(r) ==
    /\ phase' = "done"
    /\ reply' = r
    /\ UNCHANGED <<request, map>>

Fail(error) == Reply([status |-> StatusOf(error), mode |-> Nothing, attributes |-> Nothing])

TooLarge == request.method = "CalculateBatch" /\ request.size > MAX_BATCH_SIZE

RejectBatch ==
    /\ At("load")
    /\ TooLarge
    /\ Fail("BatchTooLarge")

(* load_beatmap, parse_beatmap and parse_beatmap_cached *)
Loading == At("load") /\ ~TooLarge

RejectRequest ==
    /\ Loading
    /\ request.file = NoFile
    /\ Fail("MissingBeatmap")

Loaded(m) ==
    /\ map' = m
    /\ phase' = "check"
    /\ UNCHANGED <<request, reply>>

(* A beatmap is cached under the id, when the bytes are looked up or when
   their parse is got back: that of any file with the id. *)
TakeCached ==
    /\ Loading
    /\ request.file # NoFile
    /\ request.file.id # Nothing
    /\ \E f \in BeatmapFile :
          /\ f.id = request.file.id
          /\ f.map # Unparsable
          /\ Loaded(f.map)

TakeParsed ==
    /\ Loading
    /\ request.file # NoFile
    /\ request.file.map # Unparsable
    /\ Loaded(request.file.map)

RejectBrokenFile ==
    /\ Loading
    /\ request.file # NoFile
    /\ request.file.map = Unparsable
    /\ Fail("Parse")

(* Other requests evict what this one has parsed and inserted before it gets
   it again. *)
LoseEntry ==
    /\ Loading
    /\ request.file # NoFile
    /\ request.file.map # Unparsable
    /\ request.file.id # Nothing
    /\ Fail("MissingBeatmap")

RejectSuspicious ==
    /\ At("check")
    /\ map.suspicious
    /\ Fail("Suspicious")

(* GetBeatmapInfo has no mode and does not convert. *)
AcceptMap ==
    /\ At("check")
    /\ ~map.suspicious
    /\ phase' = IF request.method = "GetBeatmapInfo" THEN "calculate" ELSE "convert"
    /\ UNCHANGED <<request, map, reply>>

(* load_and_convert *)
TargetMode == proto_to_mode(GameMode)

KeepMode ==
    /\ At("convert")
    /\ TargetMode \in {Nothing, map.mode}
    /\ phase' = "calculate"
    /\ UNCHANGED <<request, map, reply>>

(* convert_mut: rosu-pp converts osu! beatmaps only. *)
ChangeMode ==
    /\ At("convert")
    /\ TargetMode \notin {Nothing, map.mode}
    /\ map.mode = "osu"
    /\ map' = [map EXCEPT !.mode = TargetMode]
    /\ phase' = "calculate"
    /\ UNCHANGED <<request, reply>>

RefuseMode ==
    /\ At("convert")
    /\ TargetMode \notin {Nothing, map.mode}
    /\ map.mode # "osu"
    /\ Fail("Conversion")

Calculating(methods) == At("calculate") /\ request.method \in methods

SendDifficulty ==
    /\ Calculating({"CalculateDifficulty"})
    /\ Reply(difficulty_to_proto(map.mode))

(* Each request of a batch goes through Calculator::performance. *)
SendPerformance ==
    /\ Calculating({"CalculatePerformance", "CalculateBatch"})
    /\ Reply(performance_to_proto(map.mode))

SendStrains ==
    /\ Calculating({"GetStrains"})
    /\ Reply(strains_to_proto(map.mode))

SendGradual ==
    /\ Calculating({"GetGradualDifficulty"})
    /\ Reply(gradual_to_proto(map.mode))

(* Numbers only. *)
SendGradualPerformance ==
    /\ Calculating({"GetGradualPerformance"})
    /\ Reply(Message(Nothing, Nothing))

SendInfo ==
    /\ Calculating({"GetBeatmapInfo"})
    /\ Reply(beatmap_to_proto(map))

SendGraph ==
    /\ Calculating({"GetStrainGraph"})
    /\ Reply(Message(Nothing, Nothing))

(* render_strain_graph fails (StrainGraph says when). *)
GraphFails ==
    /\ Calculating({"GetStrainGraph"})
    /\ \E error \in {"NoStrainData", "GraphRendering"} : Fail(error)

Replied == At("done") /\ UNCHANGED responseVars

ResponseNext ==
    \/ RejectBatch \/ RejectRequest \/ TakeCached \/ TakeParsed \/ RejectBrokenFile \/ LoseEntry
    \/ RejectSuspicious \/ AcceptMap
    \/ KeepMode \/ ChangeMode \/ RefuseMode
    \/ SendDifficulty \/ SendPerformance \/ SendStrains \/ SendGradual
    \/ SendGradualPerformance \/ SendInfo \/ SendGraph \/ GraphFails
    \/ Replied

ResponseSpec == ResponseInit /\ [][ResponseNext]_responseVars

-----------------------------------------------------------------------------

(* The beatmaps that a request for this file may be about: its own and those
   of the files with its id. *)
AnsweredFrom(file) ==
    {f.map : f \in {g \in BeatmapFile : g = file \/ (g.id = file.id /\ g.id # Nothing)}}

Given == AnsweredFrom(request.file) \ {Unparsable}

(* The names of the modes and of the fields of a oneof on the wire
   (pp.proto:16-22, 79-84, 146-151, 198-203, 276-281). *)
Named == <<"osu", "taiko", "catch", "mania">>

FieldNamed == [field \in 10 .. 13 |-> Named[field - 9]]

AsksForMode == request.mode \in DOMAIN Named /\ request.method # "GetBeatmapInfo"

Succeeded == At("done") /\ reply.status = "OK"

(* The mode of a response and the variant of its attributes are the mode the
   client asks for, or, if the mode is absent, unspecified or unknown, that of
   one and the same beatmap: the eight matches between the wire and rosu-pp,
   each with rows of its own, agree (convert.rs:51-59, 68-75, 153-158,
   164-169, 174-179, 186-191, 197-217, 342-347). *)
ModeAsAsked ==
    Succeeded =>
        \E m \in Given :
            LET asked == IF AsksForMode THEN Named[request.mode] ELSE m.mode
            IN  /\ reply.mode # Nothing => Named[reply.mode] = asked
                /\ reply.attributes # Nothing => FieldNamed[reply.attributes] = asked

(* The status says whose fault a failure is. INVALID_ARGUMENT: the request,
   or a file with an id, whose entry in the cache may be lost (convert.rs:42,
   the missing_beatmap run). FAILED_PRECONDITION: the beatmap, whatever the
   mode; a file without an id that is bad gets it always, one with an id may
   be answered from another's beatmap, and fail for it. UNIMPLEMENTED: the
   mode asked for, on a beatmap that is not in it. INTERNAL: the server
   (error.rs:36-47 and the order in which Calculator checks). *)
StatusNamesTheFault ==
    At("done") =>
        LET noRequest == request.file = NoFile \/ TooLarge
            Bad(m) == m = Unparsable \/ m.suspicious
        IN  /\ noRequest => reply.status = "INVALID_ARGUMENT"
            /\ reply.status = "INVALID_ARGUMENT" => noRequest \/ request.file.id # Nothing
            /\ reply.status = "FAILED_PRECONDITION" =>
                  /\ ~noRequest
                  /\ \/ \E m \in AnsweredFrom(request.file) : Bad(m)
                     \/ request.method = "GetStrainGraph"
            /\ ~noRequest /\ request.file.id = Nothing /\ Bad(request.file.map) =>
                  reply.status = "FAILED_PRECONDITION"
            /\ reply.status = "UNIMPLEMENTED" =>
                  /\ AsksForMode
                  /\ \E m \in Given : ~m.suspicious /\ m.mode # Named[request.mode]
            /\ reply.status = "INTERNAL" => request.method = "GetStrainGraph"

=============================================================================
