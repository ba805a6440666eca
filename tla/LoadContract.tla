---------------------------- MODULE LoadContract ----------------------------
(***************************************************************************)
(* What loading a beatmap promises a client, with no cache, no thread and  *)
(* no file: a request is answered, once, with a beatmap in the mode it     *)
(* asked for, or with an error that says something true of the request.    *)
(***************************************************************************)
CONSTANTS
    Request, Content, Path, Mode, Beatmap, BeatmapId,
    Unspecified, NoSource, NoId, Unparsable, Unconvertible, None,
    BeatmapIdOf, FromBytes, ModeOf, TooSuspicious, Converted

VARIABLES source, target, answer

contractVars == <<source, target, answer>>

Init ==
    /\ source = [r \in Request |-> None]
    /\ target = [r \in Request |-> None]
    /\ answer = [r \in Request |-> None]

(* Contents that share a BeatmapID are one beatmap to the service. *)
Interchangeable(c, d) ==
    c = d \/ (BeatmapIdOf[c] = BeatmapIdOf[d] /\ BeatmapIdOf[c] # NoId)

(* The contents an answer may be about. A path may have held anything. *)
Candidates(s) ==
    {c \in Content : s \in Path \/ (s \in Content /\ Interchangeable(s, c))}

(* The beatmaps an answer may be about. *)
CandidateMaps(s) == {FromBytes[c] : c \in Candidates(s)} \ {Unparsable}

InMode(map, mode) ==
    IF mode \in {Unspecified, ModeOf[map]} THEN map ELSE Converted[map, mode]

Served(s, t) ==
    {InMode(map, t) : map \in CandidateMaps(s) \ TooSuspicious} \ {Unconvertible}

Admissible(s, t, a) ==
    \/ a \in Served(s, t)
    \/ /\ a = "MissingBeatmap"
       /\ s = NoSource \/ \E c \in Candidates(s) : BeatmapIdOf[c] # NoId
    \/ /\ a = "Parse"
       /\ s \in Path \/ (s \in Content /\ FromBytes[s] = Unparsable)
    \/ /\ a = "Suspicious"
       /\ CandidateMaps(s) \cap TooSuspicious # {}
    \/ /\ a = "Conversion"
       /\ \E map \in CandidateMaps(s) \ TooSuspicious : InMode(map, t) = Unconvertible

Ask(r, s, t) ==
    /\ source[r] = None
    /\ source' = [source EXCEPT ![r] = s]
    /\ target' = [target EXCEPT ![r] = t]
    /\ UNCHANGED answer

Reply(r) ==
    /\ source[r] # None
    /\ answer[r] = None
    /\ \E a \in Beatmap \cup {"MissingBeatmap", "Parse", "Suspicious", "Conversion"} :
          /\ Admissible(source[r], target[r], a)
          /\ answer' = [answer EXCEPT ![r] = a]
    /\ UNCHANGED <<source, target>>

Next ==
    \E r \in Request :
        \/ \E s \in Content \cup Path \cup {NoSource}, t \in Mode \cup {Unspecified} : Ask(r, s, t)
        \/ Reply(r)

Safety == Init /\ [][Next]_contractVars

Spec == Safety /\ \A r \in Request : WF_contractVars(Reply(r))

=============================================================================
