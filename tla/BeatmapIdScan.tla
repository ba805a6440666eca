---------------------------- MODULE BeatmapIdScan ----------------------------
(***************************************************************************)
(* parse_beatmap_id (src/cache.rs): the id under which a file is cached.   *)
(* It does not parse the file: it takes the first line that starts with    *)
(* `BeatmapID:`, in whichever section, and gives up at the hit objects.    *)
(*                                                                         *)
(* A line is what the scan and the format tell apart once it is trimmed:   *)
(* the header of a section, an id line with the text behind the colon, or  *)
(* anything else. The text is the number it spells, or Garbage.            *)
(***************************************************************************)
EXTENDS Integers, Sequences

CONSTANTS
    U32,        \* 2^32
    Number,     \* the numbers that files give as id
    Garbage,    \* a text that is not a number
    Section,    \* the names of sections
    File,       \* the files looked at
    NoBeatmapId,
    Scanning    \* no result yet

Line ==
    [kind : {"section"}, name : Section]
    \cup [kind : {"id"}, text : Number \cup {Garbage}]
    \cup [kind : {"other"}]

ASSUME ScanAssumption ==
    /\ U32 \in Nat
    /\ Number \subseteq Int
    /\ Garbage \notin Int
    /\ File \subseteq [utf8 : BOOLEAN, lines : Seq(Line)]
    /\ Scanning # NoBeatmapId
    /\ Scanning \notin Int

VARIABLES
    file,
    at,         \* the next line of the loop
    scanned     \* the result

scanVars == <<file, at, scanned>>

ScanInit ==
    /\ file \in File
    /\ at = 1
    /\ scanned = Scanning

(* str::parse::<u32>: no sign, no overflow. *)
ParseU32(text) == IF text \in 0 .. U32 - 1 THEN text ELSE NoBeatmapId

IsId(i) == file.lines[i].kind = "id"

IsHeader(i, name) == file.lines[i].kind = "section" /\ file.lines[i].name = name

-----------------------------------------------------------------------------

(* One byte sequence that is not UTF-8, anywhere in the file, and no line is
   looked at. *)
RejectBytes ==
    /\ scanned = Scanning
    /\ ~file.utf8
    /\ scanned' = NoBeatmapId
    /\ UNCHANGED <<file, at>>

AtLine == scanned = Scanning /\ file.utf8 /\ at <= Len(file.lines)

(* The first id line decides, even if its id is malformed. *)
TakeId ==
    /\ AtLine
    /\ IsId(at)
    /\ scanned' = ParseU32(file.lines[at].text)
    /\ UNCHANGED <<file, at>>

StopAtHitObjects ==
    /\ AtLine
    /\ IsHeader(at, "HitObjects")
    /\ scanned' = NoBeatmapId
    /\ UNCHANGED <<file, at>>

StopAtAnySection ==
    /\ AtLine
    /\ ~IsId(at)
    /\ IF file.lines[at].kind = "section" /\ at > 1
       THEN scanned' = NoBeatmapId /\ UNCHANGED at
       ELSE at' = at + 1 /\ UNCHANGED scanned
    /\ UNCHANGED file

NextLine ==
    /\ AtLine
    /\ ~IsId(at)
    /\ ~IsHeader(at, "HitObjects")
    /\ at' = at + 1
    /\ UNCHANGED <<file, scanned>>

EndOfFile ==
    /\ scanned = Scanning
    /\ file.utf8
    /\ at > Len(file.lines)
    /\ scanned' = NoBeatmapId
    /\ UNCHANGED <<file, at>>

Scanned == scanned # Scanning /\ UNCHANGED scanVars

ScanNext ==
    RejectBytes \/ TakeId \/ StopAtHitObjects \/ NextLine \/ EndOfFile \/ Scanned

ScanSpec == ScanInit /\ [][ScanNext]_scanVars

-----------------------------------------------------------------------------

ScanTypeOK ==
    /\ file \in File
    /\ at \in 1 .. Len(file.lines) + 1
    /\ scanned \in {Scanning, NoBeatmapId} \cup 0 .. U32 - 1

(* Line i belongs to a section: its header is the last one before i. *)
InSection(i, name) ==
    \E h \in 1 .. i - 1 :
        /\ IsHeader(h, name)
        /\ \A k \in h + 1 .. i - 1 : file.lines[k].kind # "section"

(* A file as the editor of the game writes it: one id line at most, which is
   in the metadata, and the hit objects are the last section. *)
Regular ==
    /\ file.utf8
    /\ \A i \in DOMAIN file.lines : IsId(i) => InSection(i, "Metadata")
    /\ \A i, j \in DOMAIN file.lines : IsId(i) /\ IsId(j) => i = j
    /\ \A i, j \in DOMAIN file.lines :
          IsHeader(i, "HitObjects") /\ file.lines[j].kind = "section" => j <= i

MetadataId ==
    IF \E i \in DOMAIN file.lines : IsId(i) /\ InSection(i, "Metadata")
    THEN ParseU32(file.lines[CHOOSE i \in DOMAIN file.lines :
                                IsId(i) /\ InSection(i, "Metadata")].text)
    ELSE NoBeatmapId

(* "Beatmaps are cached by BeatmapID (from .osu metadata)" (docs.rs:348):
   although the scan knows nothing of sections, it finds the id of the
   metadata in every regular file. *)
IdOfTheMetadata == scanned # Scanning /\ Regular => scanned = MetadataId

=============================================================================
