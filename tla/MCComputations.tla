--------------------------- MODULE MCComputations ---------------------------
(***************************************************************************)
(* The sequential computations, which touch nothing that is shared,        *)
(* checked in one run: a behaviour is one of them, and the variables of    *)
(* the others rest at a value of no account.                               *)
(***************************************************************************)
EXTENDS Settings, BeatmapIdScan, Docs, Response

CONSTANTS MaxLines, MaxBlocks, MaxSpans

VARIABLE computation    \* which one it is

computationVars == <<computation, settingsVars, scanVars, pageVars, responseVars>>

-----------------------------------------------------------------------------
(* The files that are scanned. *)
MCFile == [utf8 : BOOLEAN, lines : UNION {[1 .. n -> Line] : n \in 0 .. MaxLines}]

MCNumber == {-1, 0, U32 - 1, U32}

(* The documents: code with lines that look like something else, forgotten
   fences, tables with and without rows, and the one that is served. *)
Lookalike == {MdLine("row", <<"word">>), MdLine("separator", <<>>), MdLine("heading", <<"word">>)}

MCBlock ==
    {Code(lines) : lines \in UNION {[1 .. n -> Lookalike] : n \in 0 .. 2}}
    \cup {Table(<<>>), Table(PlainRows(1)), Table(<<<<"word">>, <<"tick", "word", "tick">>>>)}
    \cup {UnclosedCode(<<MdLine("row", <<"word">>)>>), Empty, Rule, Heading,
          Text(<<"code", "word", "bold">>), Item(<<"bold", "code">>)}

MCSpans == UNION {[1 .. n -> DOMAIN SpanSource] : n \in 1 .. MaxSpans}

MCPage ==
    UNION {[1 .. n -> MCBlock] : n \in 0 .. MaxBlocks}
    \cup {<<Text(spans)>> : spans \in MCSpans}
    \cup {<<Item(spans)>> : spans \in MCSpans}
    \cup {DOCUMENTATION}

(* The files of requests: every beatmap and none, in files without an id, and
   files that share an id, of different modes, one of them suspicious and one
   not a beatmap. *)
MCBeatmapFile ==
    [id : {Nothing}, map : Beatmap \cup {Unparsable}]
    \cup [id : {1}, map : {[mode |-> "osu", suspicious |-> FALSE],
                          [mode |-> "mania", suspicious |-> FALSE],
                          [mode |-> "taiko", suspicious |-> TRUE], Unparsable}]
    \cup [id : {2}, map : {[mode |-> "catch", suspicious |-> FALSE]}]

-----------------------------------------------------------------------------

NoSettings ==
    /\ settings = Absent
    /\ base_cs = 0
    /\ stage = "done"
    /\ used = [conversion |-> Unset, difficulty |-> Unset, performance |-> Unset,
               graph |-> Unset, cs |-> 0]

NoScan == file = [utf8 |-> FALSE, lines |-> <<>>] /\ at = 1 /\ scanned = Scanning

NoPage ==
    /\ page = <<>> /\ document = <<>> /\ next = 1
    /\ in_code_block = FALSE /\ in_table = FALSE
    /\ html = <<>>

NoRequest == request = Nothing /\ phase = "none" /\ map = Nothing /\ reply = Nothing

ComputationInit ==
    \/ computation = "settings" /\ SettingsInit /\ NoScan /\ NoPage /\ NoRequest
    \/ computation = "scan" /\ ScanInit /\ NoSettings /\ NoPage /\ NoRequest
    \/ computation = "page" /\ PageInit /\ NoSettings /\ NoScan /\ NoRequest
    \/ computation = "response" /\ ResponseInit /\ NoSettings /\ NoScan /\ NoPage

ComputationNext ==
    /\ UNCHANGED computation
    /\ \/ computation = "settings" /\ SettingsNext
          /\ UNCHANGED <<scanVars, pageVars, responseVars>>
       \/ computation = "scan" /\ ScanNext
          /\ UNCHANGED <<settingsVars, pageVars, responseVars>>
       \/ computation = "page" /\ PageNext
          /\ UNCHANGED <<settingsVars, scanVars, responseVars>>
       \/ computation = "response" /\ ResponseNext
          /\ UNCHANGED <<settingsVars, scanVars, pageVars>>

ComputationSpec == ComputationInit /\ [][ComputationNext]_computationVars

=============================================================================
