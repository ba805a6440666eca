--------------------------- MODULE BeatmapLoader ---------------------------
(***************************************************************************)
(* How every RPC obtains the beatmap it computes from:                     *)
(* Calculator::load_and_convert (src/service/calculator.rs) over           *)
(* parse_beatmap (src/service/convert.rs) over the shared cache.           *)
(*                                                                         *)
(* Each request is submitted here when a blocking thread takes it up, and  *)
(* keeps that thread until it has its answer. Threads interleave at every  *)
(* access to what they share: the cache, entered and left once per lookup, *)
(* insert and re-read, and the files that clients name, which belong to    *)
(* the host and may change at any moment. A beatmap is immutable behind    *)
(* its Arc: converting one first clones it while the cache or another      *)
(* thread holds it, so what a thread does between two accesses is part of  *)
(* the action that follows.                                                *)
(*                                                                         *)
(* osu! files are members of Content. What rosu-pp makes of them is given  *)
(* by constant functions: a parse, a game mode, a verdict, a conversion.   *)
(***************************************************************************)
EXTENDS BeatmapCache, FiniteSets

CONSTANTS
    Request,        \* the requests, each made at most once
    Content,        \* the bytes a beatmap file can hold
    Path,           \* the files a request can name
    Mode,           \* osu, taiko, catch, mania
    Unspecified,    \* GAME_MODE_UNSPECIFIED: leave the beatmap in its own mode
    NoSource,       \* a request with no beatmap, or with an empty oneof
    NoFile,         \* a path that cannot be read
    NoId,           \* parse_beatmap_id finds no BeatmapID
    Unparsable,     \* Beatmap::from_bytes fails
    Unconvertible,  \* convert_mut fails
    None,           \* a field that is not set yet
    BeatmapIdOf,    \* [Content -> BeatmapId \cup {NoId}]
    FromBytes,      \* [Content -> Beatmap \cup {Unparsable}]
    ModeOf,         \* [Beatmap -> Mode]
    TooSuspicious,  \* the beatmaps that check_suspicion rejects
    Converted       \* [Beatmap \X Mode -> Beatmap \cup {Unconvertible}]

Error == {"MissingBeatmap", "Parse", "Suspicious", "Conversion"}

Target == Mode \cup {Unspecified}

Source == Content \cup Path \cup {NoSource}

ASSUME LoaderAssumption ==
    /\ BeatmapIdOf \in [Content -> BeatmapId \cup {NoId}]
    /\ FromBytes \in [Content -> Beatmap \cup {Unparsable}]
    /\ ModeOf \in [Beatmap -> Mode]
    /\ TooSuspicious \subseteq Beatmap
    /\ Converted \in [Beatmap \X Mode -> Beatmap \cup {Unconvertible}]
    /\ \A map \in Beatmap, mode \in Mode :
          Converted[map, mode] # Unconvertible => ModeOf[Converted[map, mode]] = mode

ASSUME DistinctAssumption ==
    /\ NoId \notin BeatmapId
    /\ Unparsable \notin Beatmap
    /\ Unconvertible \notin Beatmap
    /\ Unspecified \notin Mode
    /\ None \notin Source \cup Beatmap \cup Error
    /\ Beatmap \cap Error = {}
    /\ Content \cap Path = {}
    /\ NoSource \notin Content \cup Path
    /\ NoFile \notin Content

VARIABLES
    disk,       \* what each path holds
    pc,         \* how far each request is
    source,
    target,
    bytes,      \* the content the request computes from, once read
    loaded,     \* the beatmap parse_beatmap returned
    answer      \* a beatmap, or an error

requestVars == <<source, target>>
loaderVars == <<cacheVars, disk, pc, source, target, bytes, loaded, answer>>

LoaderInit ==
    /\ CacheInit
    /\ disk \in [Path -> Content \cup {NoFile}]
    /\ pc = [r \in Request |-> "idle"]
    /\ source = [r \in Request |-> None]
    /\ target = [r \in Request |-> None]
    /\ bytes = [r \in Request |-> None]
    /\ loaded = [r \in Request |-> None]
    /\ answer = [r \in Request |-> None]

Goto(r, from, to) ==
    /\ pc[r] = from
    /\ pc' = [pc EXCEPT ![r] = to]

(* The request ends at `from` with an answer, which nothing else may set. *)
AnswerWith(r, from, a) ==
    /\ Goto(r, from, "done")
    /\ answer' = [answer EXCEPT ![r] = a]

Id(r) == BeatmapIdOf[bytes[r]]

Parsed(r) == FromBytes[bytes[r]]

-----------------------------------------------------------------------------

Submit(r, s, t) ==
    /\ Goto(r, "idle", "received")
    /\ source' = [source EXCEPT ![r] = s]
    /\ target' = [target EXCEPT ![r] = t]
    /\ UNCHANGED <<cacheVars, disk, bytes, loaded, answer>>

(***************************************************************************)
(* parse_beatmap: no source, the content itself, or the file at a path.    *)
(***************************************************************************)
RejectMissingSource(r) ==
    /\ AnswerWith(r, "received", "MissingBeatmap")
    /\ source[r] = NoSource
    /\ UNCHANGED <<cacheVars, disk, requestVars, bytes, loaded>>

TakeContent(r) ==
    /\ Goto(r, "received", "lookup")
    /\ source[r] \in Content
    /\ bytes' = [bytes EXCEPT ![r] = source[r]]
    /\ UNCHANGED <<cacheVars, disk, requestVars, loaded, answer>>

ReadFile(r) ==
    /\ Goto(r, "received", "lookup")
    /\ source[r] \in Path
    /\ disk[source[r]] # NoFile
    /\ bytes' = [bytes EXCEPT ![r] = disk[source[r]]]
    /\ UNCHANGED <<cacheVars, disk, requestVars, loaded, answer>>

ReadFails(r) ==
    /\ AnswerWith(r, "received", "Parse")
    /\ source[r] \in Path
    /\ disk[source[r]] = NoFile
    /\ UNCHANGED <<cacheVars, disk, requestVars, bytes, loaded>>

(***************************************************************************)
(* parse_beatmap_cached. The lookup and the re-read take the beatmap that  *)
(* is under the id, whichever content it was parsed from.                  *)
(***************************************************************************)
LookupHit(r) ==
    /\ Goto(r, "lookup", "loaded")
    /\ Id(r) \in BeatmapId
    /\ Hit(Id(r))
    /\ loaded' = [loaded EXCEPT ![r] = CachedMap(Id(r))]
    /\ UNCHANGED <<disk, requestVars, bytes, answer>>

LookupMiss(r) ==
    /\ Goto(r, "lookup", "parse")
    /\ Id(r) \in BeatmapId
    /\ Miss(Id(r))
    /\ UNCHANGED <<disk, requestVars, bytes, loaded, answer>>

ParseUncacheable(r) ==
    /\ Goto(r, "lookup", "loaded")
    /\ Id(r) = NoId
    /\ Parsed(r) # Unparsable
    /\ loaded' = [loaded EXCEPT ![r] = Parsed(r)]
    /\ UNCHANGED <<cacheVars, disk, requestVars, bytes, answer>>

ParseUncacheableFails(r) ==
    /\ AnswerWith(r, "lookup", "Parse")
    /\ Id(r) = NoId
    /\ Parsed(r) = Unparsable
    /\ UNCHANGED <<cacheVars, disk, requestVars, bytes, loaded>>

InsertUnchecked(r) ==
    /\ Goto(r, "parse", "reread")
    /\ Insert(Id(r), Parsed(r))
    /\ UNCHANGED <<disk, requestVars, bytes, loaded, answer>>

ParseFileAgainAndInsert(r) ==
    /\ Goto(r, "parse", "reread")
    /\ LET current == IF source[r] \in Path THEN disk[source[r]] ELSE bytes[r]
       IN  /\ current # NoFile
           /\ FromBytes[current] # Unparsable
           /\ Insert(Id(r), FromBytes[current])
    /\ UNCHANGED <<disk, requestVars, bytes, loaded, answer>>

ParseAndInsert(r) ==
    /\ Goto(r, "parse", "reread")
    /\ Parsed(r) # Unparsable
    /\ Insert(Id(r), Parsed(r))
    /\ UNCHANGED <<disk, requestVars, bytes, loaded, answer>>

ParseFails(r) ==
    /\ AnswerWith(r, "parse", "Parse")
    /\ Parsed(r) = Unparsable
    /\ UNCHANGED <<cacheVars, disk, requestVars, bytes, loaded>>

KeepOwnParse(r) ==
    /\ Goto(r, "reread", "loaded")
    /\ Cached(Id(r))
    /\ loaded' = [loaded EXCEPT ![r] = Parsed(r)]
    /\ UNCHANGED <<cacheVars, disk, requestVars, bytes, answer>>

RereadHit(r) ==
    /\ Goto(r, "reread", "loaded")
    /\ Hit(Id(r))
    /\ loaded' = [loaded EXCEPT ![r] = CachedMap(Id(r))]
    /\ UNCHANGED <<disk, requestVars, bytes, answer>>

RereadWaits(r) == RereadHit(r)

RereadMiss(r) ==
    /\ AnswerWith(r, "reread", "MissingBeatmap")
    /\ Miss(Id(r))
    /\ UNCHANGED <<disk, requestVars, bytes, loaded>>

(***************************************************************************)
(* check_suspicion on whatever was loaded, then the conversion, in that    *)
(* order.                                                                  *)
(***************************************************************************)
Outcome(map, mode) ==
    CASE map \in TooSuspicious                    -> "Suspicious"
      [] map \notin TooSuspicious
         /\ mode \in {Unspecified, ModeOf[map]}   -> map
      [] OTHER -> IF Converted[map, mode] = Unconvertible
                  THEN "Conversion" ELSE Converted[map, mode]

ConvertInPlace(r) ==
    LET outcome == Outcome(loaded[r], target[r])
    IN  /\ AnswerWith(r, "loaded", outcome)
        /\ inner' = [i \in DOMAIN inner |->
                        IF inner[i].map = loaded[r] /\ outcome \in Beatmap
                        THEN [inner[i] EXCEPT !.map = outcome] ELSE inner[i]]
        /\ UNCHANGED <<hits, misses, disk, requestVars, bytes, loaded>>

CheckAndConvert(r) ==
    /\ AnswerWith(r, "loaded", Outcome(loaded[r], target[r]))
    /\ UNCHANGED <<cacheVars, disk, requestVars, bytes, loaded>>

(* The host replaces, creates or deletes a file. *)
UpdateFile(p, c) ==
    /\ disk' = [disk EXCEPT ![p] = c]
    /\ UNCHANGED <<cacheVars, pc, requestVars, bytes, loaded, answer>>

-----------------------------------------------------------------------------

Load(r) ==
    \/ RejectMissingSource(r)
    \/ TakeContent(r)
    \/ ReadFile(r)
    \/ ReadFails(r)
    \/ LookupHit(r)
    \/ LookupMiss(r)
    \/ ParseUncacheable(r)
    \/ ParseUncacheableFails(r)
    \/ ParseAndInsert(r)
    \/ ParseFails(r)
    \/ RereadHit(r)
    \/ RereadMiss(r)
    \/ CheckAndConvert(r)

(* Every request has its answer: the only way to come to rest. *)
AllAnswered ==
    /\ \A r \in Request : pc[r] = "done"
    /\ UNCHANGED loaderVars

LoaderNext ==
    \/ \E r \in Request, s \in Source, t \in Target : Submit(r, s, t)
    \/ \E r \in Request : Load(r)
    \/ \E p \in Path, c \in Content \cup {NoFile} : UpdateFile(p, c)
    \/ AllAnswered

LoaderSpec == LoaderInit /\ [][LoaderNext]_loaderVars

(* A request that has its thread waits for no other request: the mutex is
   held for a bounded number of instructions. *)
LoaderFairness == \A r \in Request : WF_loaderVars(Load(r))

FairLoaderSpec == LoaderSpec /\ LoaderFairness

-----------------------------------------------------------------------------

LoaderTypeOK ==
    /\ CacheTypeOK
    /\ disk \in [Path -> Content \cup {NoFile}]
    /\ pc \in [Request -> {"idle", "received", "lookup", "parse", "reread", "loaded", "done"}]
    /\ source \in [Request -> Source \cup {None}]
    /\ target \in [Request -> Target \cup {None}]
    /\ bytes \in [Request -> Content \cup {None}]
    /\ loaded \in [Request -> Beatmap \cup {None}]
    /\ answer \in [Request -> Beatmap \cup Error \cup {None}]

(* Whatever requests have converted, raced for or failed at, each cached
   beatmap is the parse of some file with the id it is cached under, as
   from_bytes returned it (convert.rs:38-40; the conversion of
   calculator.rs:168-170 works on a clone). *)
CacheHoldsParses ==
    \A i \in DOMAIN inner :
        \E c \in Content : BeatmapIdOf[c] = inner[i].id /\ FromBytes[c] = inner[i].map

(* The `hits` that GET /health shows count each cacheable request that got
   its beatmap exactly once, and nothing else: one whose lookup missed is
   counted at its re-read (cache.rs:37-48, convert.rs:34-42), so `hits` is no
   measure of the parsing the cache saved. *)
HitsCountLoadedRequests ==
    hits = Cardinality({r \in Request :
                          loaded[r] # None /\ bytes[r] # None /\ Id(r) # NoId})

(* The only request that is told "beatmap source required" (error.rs:8) is
   one without a source. *)
MissingBeatmapOnlyWithoutSource ==
    \A r \in Request : answer[r] = "MissingBeatmap" => source[r] = NoSource

(* The ids of all the files in circulation fit in the cache at once. *)
ContentIds == {BeatmapIdOf[c] : c \in Content} \cap BeatmapId

RoomForAllIds == IsFiniteSet(ContentIds) /\ Cardinality(ContentIds) <= Capacity

(* A beatmap, and a verdict on one, is about the very file the request
   supplied, as rosu-pp would parse, check and convert it. *)
AnswersOwnContent ==
    \A r \in Request :
        bytes[r] # None /\ answer[r] \notin {None, "MissingBeatmap"} =>
            answer[r] = IF Parsed(r) = Unparsable THEN "Parse"
                        ELSE Outcome(Parsed(r), target[r])

(* Files that share a BeatmapID parse to the same beatmap: what makes the id
   a sound cache key. *)
IdsIdentifyBeatmaps ==
    \A c, d \in Content :
        BeatmapIdOf[c] = BeatmapIdOf[d] /\ BeatmapIdOf[c] # NoId => FromBytes[c] = FromBytes[d]

(* Loading, with its cache, its threads and the files that change under it,
   answers a request at most once, never changes the answer, and gives only
   answers LoadContract admits. *)
Contract == INSTANCE LoadContract

ContractSafety == Contract!Safety

(* And it answers every request it takes up (LoadContract's fairness): no
   lookup, re-read or error path leaves a request without an answer. *)
ContractLiveness == Contract!Spec

=============================================================================
