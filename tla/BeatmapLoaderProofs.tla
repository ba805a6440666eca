------------------------ MODULE BeatmapLoaderProofs ------------------------
(***************************************************************************)
(* Theorems about BeatmapLoader and about Batch, which is built on it, for *)
(* every set of requests, contents, ids and paths, every capacity, batches *)
(* of any requests and any length, and any MAX_BATCH_SIZE.                 *)
(***************************************************************************)
EXTENDS Batch, BeatmapCacheProofs

(* Contents that the cache may take for one another. *)
Same(c, d) == c = d \/ (BeatmapIdOf[c] = BeatmapIdOf[d] /\ BeatmapIdOf[c] \in BeatmapId)

(* What is known of a request at each point of its way. *)
RequestInv(r) ==
    /\ pc[r] = "idle" => source[r] = None
    /\ pc[r] # "idle" => source[r] \in Source /\ target[r] \in Target
    /\ pc[r] # "done" => answer[r] = None
    /\ pc[r] \in {"idle", "received"} => bytes[r] = None
    /\ pc[r] \in {"lookup", "parse", "reread", "loaded"} =>
          bytes[r] \in Content /\ (source[r] \in Path \/ source[r] = bytes[r])
    /\ pc[r] \in {"parse", "reread"} => Id(r) \in BeatmapId
    /\ pc[r] = "loaded" =>
          \E c \in Content : /\ Same(bytes[r], c)
                             /\ FromBytes[c] \in Beatmap
                             /\ loaded[r] = FromBytes[c]

LoaderInv ==
    /\ CacheInv
    /\ LoaderTypeOK
    /\ CacheHoldsParses
    /\ \A r \in Request : RequestInv(r)

-----------------------------------------------------------------------------

LEMMA ParsedType ==
  ASSUME NEW c \in Content, FromBytes[c] # Unparsable
  PROVE  FromBytes[c] \in Beatmap
BY LoaderAssumption

LEMMA OutcomeFacts ==
  ASSUME NEW map \in Beatmap, NEW mode \in Target
  PROVE  /\ map \in TooSuspicious => Outcome(map, mode) = "Suspicious"
         /\ map \notin TooSuspicious /\ mode \in {Unspecified, ModeOf[map]} =>
               Outcome(map, mode) = map
         /\ map \notin TooSuspicious /\ mode \notin {Unspecified, ModeOf[map]} =>
               /\ mode \in Mode
               /\ IF Converted[map, mode] = Unconvertible
                  THEN Outcome(map, mode) = "Conversion"
                  ELSE /\ Outcome(map, mode) = Converted[map, mode]
                       /\ Converted[map, mode] \in Beatmap
         /\ Outcome(map, mode) \in Beatmap \cup {"Suspicious", "Conversion"}
         /\ Outcome(map, mode) \in Beatmap \cup Error
<1>1. CASE map \in TooSuspicious
  BY <1>1 DEF Outcome, Error
<1>2. CASE map \notin TooSuspicious /\ mode \in {Unspecified, ModeOf[map]}
  BY <1>2 DEF Outcome
<1>3. CASE map \notin TooSuspicious /\ mode \notin {Unspecified, ModeOf[map]}
  <2>1. mode \in Mode
    BY <1>3 DEF Target
  <2>2. Converted[map, mode] \in Beatmap \cup {Unconvertible}
    BY <2>1, LoaderAssumption
  <2>3. Outcome(map, mode) = IF Converted[map, mode] = Unconvertible
                             THEN "Conversion" ELSE Converted[map, mode]
    BY <1>3 DEF Outcome
  <2>. QED  BY <1>3, <2>1, <2>2, <2>3 DEF Error
<1>. QED  BY <1>1, <1>2, <1>3

(* A beatmap taken from the cache under the id of a content is the parse of
   that content or of another one with the same id. *)
LEMMA CachedMapFacts ==
  ASSUME LoaderInv, NEW c \in Content, Cached(BeatmapIdOf[c])
  PROVE  /\ CachedMap(BeatmapIdOf[c]) \in Beatmap
         /\ BeatmapIdOf[c] \in BeatmapId
         /\ \E d \in Content : /\ Same(c, d)
                               /\ CachedMap(BeatmapIdOf[c]) = FromBytes[d]
<1> DEFINE e == inner[Position(BeatmapIdOf[c])]
<1>1. /\ Position(BeatmapIdOf[c]) \in DOMAIN inner
      /\ e.id = BeatmapIdOf[c]
      /\ e \in Entry
  BY PositionFacts, LenProperties DEF LoaderInv, CacheInv, CacheTypeOK
<1>2. PICK d \in Content : BeatmapIdOf[d] = e.id /\ FromBytes[d] = e.map
  BY <1>1 DEF LoaderInv, CacheHoldsParses
<1>3. e.map \in Beatmap /\ e.id \in BeatmapId
  BY <1>1 DEF Entry
<1>. QED  BY <1>1, <1>2, <1>3 DEF CachedMap, Same

LEMMA LoaderInitInv == LoaderInit => LoaderInv
<1>. SUFFICES ASSUME LoaderInit
              PROVE  LoaderInv
  OBVIOUS
<1>1. CacheInv /\ CacheHoldsParses
  BY CacheInitInv DEF LoaderInit, CacheInit, CacheHoldsParses
<1>2. LoaderTypeOK
  BY <1>1 DEF LoaderInit, LoaderTypeOK, CacheInv
<1>3. \A r \in Request : RequestInv(r)
  BY DEF LoaderInit, RequestInv
<1>. QED  BY <1>1, <1>2, <1>3 DEF LoaderInv

(***************************************************************************)
(* Each step preserves each part of the invariant.                         *)
(***************************************************************************)

(* What a step does to the cache. *)
CacheEffect ==
    \/ UNCHANGED cacheVars
    \/ \E id \in BeatmapId : Hit(id)
    \/ \E id \in BeatmapId : Miss(id)
    \/ \E r \in Request : /\ pc[r] = "parse"
                          /\ Parsed(r) # Unparsable
                          /\ Insert(Id(r), Parsed(r))

LEMMA StepCacheEffect == LoaderInv /\ [LoaderNext]_loaderVars => CacheEffect
<1>. SUFFICES ASSUME LoaderInv, [LoaderNext]_loaderVars
              PROVE  CacheEffect
  OBVIOUS
<1>1. ASSUME NEW r \in Request, Load(r)
      PROVE  CacheEffect
  <2>0. RequestInv(r)
    BY DEF LoaderInv
  <2>1. CASE \/ RejectMissingSource(r) \/ TakeContent(r) \/ ReadFile(r) \/ ReadFails(r)
             \/ ParseUncacheable(r) \/ ParseUncacheableFails(r) \/ ParseFails(r)
             \/ CheckAndConvert(r)
    BY <2>1 DEF RejectMissingSource, TakeContent, ReadFile, ReadFails, ParseUncacheable,
                ParseUncacheableFails, ParseFails, CheckAndConvert, CacheEffect
  <2>2. CASE LookupHit(r) \/ LookupMiss(r)
    BY <2>2 DEF LookupHit, LookupMiss, CacheEffect
  <2>3. CASE RereadHit(r) \/ RereadMiss(r)
    <3>1. pc[r] = "reread"
      BY <2>3 DEF RereadHit, RereadMiss, Goto, AnswerWith
    <3>2. Id(r) \in BeatmapId
      BY <2>0, <3>1 DEF RequestInv
    <3>. QED  BY <2>3, <3>2 DEF RereadHit, RereadMiss, CacheEffect
  <2>4. CASE ParseAndInsert(r)
    BY <2>4 DEF ParseAndInsert, Goto, CacheEffect
  <2>. QED  BY <1>1, <2>1, <2>2, <2>3, <2>4 DEF Load
<1>2. CASE \/ \E r \in Request, s \in Source, t \in Target : Submit(r, s, t)
           \/ \E p \in Path, c \in Content \cup {NoFile} : UpdateFile(p, c)
           \/ AllAnswered
           \/ UNCHANGED loaderVars
  BY <1>2 DEF Submit, UpdateFile, AllAnswered, loaderVars, CacheEffect
<1>. QED  BY <1>1, <1>2 DEF LoaderNext

LEMMA StepCache ==
  ASSUME LoaderInv, CacheEffect
  PROVE  CacheInv' /\ CacheHoldsParses'
<1>1. CacheInv
  BY DEF LoaderInv
<1>2. ASSUME NEW s, CacheHoldsParses, Range(s) \subseteq Range(inner), NEW i \in DOMAIN s
      PROVE  \E c \in Content : BeatmapIdOf[c] = s[i].id /\ FromBytes[c] = s[i].map
  <2>1. s[i] \in Range(inner)
    BY <1>2 DEF Range
  <2>. QED  BY <1>2, <2>1 DEF Range, CacheHoldsParses
<1>3. CASE UNCHANGED cacheVars
  BY <1>3 DEF LoaderInv, cacheVars, CacheInv, CacheTypeOK, WithinCapacity, Capacity,
              ConfiguredSize, NoDuplicateKeys, CacheHoldsParses
<1>4. ASSUME NEW id \in BeatmapId, Hit(id) \/ Miss(id)
      PROVE  CacheInv' /\ CacheHoldsParses'
  <2>1. CacheInv' /\ Range(inner') \subseteq Range(inner)
    BY <1>1, <1>4, HitKeepsEntries, MissKeepsEntries
  <2>. QED  BY <1>2, <2>1 DEF LoaderInv, CacheHoldsParses
<1>5. ASSUME NEW r \in Request, pc[r] = "parse", Parsed(r) # Unparsable,
             Insert(Id(r), Parsed(r))
      PROVE  CacheInv' /\ CacheHoldsParses'
  <2>1. RequestInv(r)
    BY DEF LoaderInv
  <2>2. bytes[r] \in Content /\ Id(r) \in BeatmapId /\ Parsed(r) \in Beatmap
    BY <1>5, <2>1, ParsedType DEF RequestInv, Parsed
  <2> DEFINE e == [id |-> Id(r), map |-> Parsed(r)]
  <2>3. CacheInv' /\ Range(inner') \subseteq Range(inner) \cup {e}
    BY <1>1, <1>5, <2>2, InsertAddsEntry
  <2>4. ASSUME NEW i \in DOMAIN inner'
        PROVE  \E c \in Content : BeatmapIdOf[c] = inner'[i].id /\ FromBytes[c] = inner'[i].map
    <3>1. inner'[i] \in Range(inner')
      BY DEF Range
    <3>2. CASE inner'[i] = e
      BY <2>2, <3>2 DEF Id, Parsed
    <3>3. CASE inner'[i] \in Range(inner)
      BY <3>3 DEF LoaderInv, CacheHoldsParses, Range
    <3>. QED  BY <2>3, <3>1, <3>2, <3>3
  <2>. QED  BY <2>3, <2>4 DEF CacheHoldsParses
<1>. QED  BY <1>3, <1>4, <1>5 DEF CacheEffect

(* The fields of a request after each of its steps. *)
LEMMA LoadStepRequest ==
  ASSUME LoaderInv, NEW r \in Request, Load(r)
  PROVE  RequestInv(r)'
<1>. USE DEF Goto, AnswerWith
<1>0. /\ RequestInv(r)
      /\ LoaderTypeOK
      /\ pc \in [Request -> {"idle", "received", "lookup", "parse", "reread", "loaded", "done"}]
  BY DEF LoaderInv, LoaderTypeOK
<1>1. CASE RejectMissingSource(r) \/ ReadFails(r)
  BY <1>0, <1>1 DEF RequestInv, RejectMissingSource, ReadFails, requestVars, LoaderTypeOK
<1>2. CASE TakeContent(r) \/ ReadFile(r)
  BY <1>0, <1>2 DEF RequestInv, TakeContent, ReadFile, requestVars, LoaderTypeOK
<1>3. CASE LookupHit(r) \/ RereadHit(r)
  <2>1. bytes[r] \in Content /\ pc[r] \in {"lookup", "reread"}
    BY <1>0, <1>3 DEF RequestInv, LookupHit, RereadHit
  <2>2. Cached(Id(r))
    BY <1>3 DEF LookupHit, RereadHit, Hit
  <2>3. \E d \in Content : /\ Same(bytes[r], d)
                           /\ FromBytes[d] \in Beatmap
                           /\ CachedMap(Id(r)) = FromBytes[d]
    BY <2>1, <2>2, CachedMapFacts DEF Id
  <2>4. /\ pc'[r] = "loaded"
        /\ loaded'[r] = CachedMap(Id(r))
        /\ UNCHANGED <<source, target, bytes, answer>>
    BY <1>0, <1>3 DEF LookupHit, RereadHit, requestVars, LoaderTypeOK
  <2>. QED  BY <1>0, <2>1, <2>3, <2>4 DEF RequestInv
<1>4. CASE LookupMiss(r) \/ ParseAndInsert(r)
  BY <1>0, <1>4 DEF RequestInv, LookupMiss, ParseAndInsert, requestVars, LoaderTypeOK, Id
<1>5. CASE ParseUncacheable(r)
  <2>1. bytes[r] \in Content
    BY <1>0, <1>5 DEF RequestInv, ParseUncacheable
  <2>2. Parsed(r) \in Beatmap /\ Same(bytes[r], bytes[r])
    BY <1>5, <2>1, ParsedType DEF ParseUncacheable, Parsed, Same
  <2>3. /\ pc[r] = "lookup" /\ pc'[r] = "loaded"
        /\ loaded'[r] = FromBytes[bytes[r]]
        /\ UNCHANGED <<source, target, bytes, answer>>
    BY <1>0, <1>5 DEF ParseUncacheable, Parsed, requestVars, LoaderTypeOK
  <2>. QED  BY <1>0, <2>1, <2>2, <2>3 DEF RequestInv, Parsed
<1>6. CASE ParseUncacheableFails(r) \/ ParseFails(r) \/ RereadMiss(r) \/ CheckAndConvert(r)
  BY <1>0, <1>6 DEF RequestInv, ParseUncacheableFails, ParseFails, RereadMiss, CheckAndConvert,
                    requestVars, LoaderTypeOK
<1>. QED  BY <1>1, <1>2, <1>3, <1>4, <1>5, <1>6 DEF Load

(* A step of one request leaves the fields of the others alone. *)
LEMMA LoadStepFrame ==
  ASSUME LoaderInv, NEW r \in Request, Load(r), NEW q \in Request, q # r
  PROVE  /\ pc'[q] = pc[q] /\ source'[q] = source[q] /\ target'[q] = target[q]
         /\ bytes'[q] = bytes[q] /\ loaded'[q] = loaded[q] /\ answer'[q] = answer[q]
BY DEF LoaderInv, LoaderTypeOK, Goto, AnswerWith, requestVars, Load,
       RejectMissingSource, TakeContent, ReadFile, ReadFails, LookupHit, LookupMiss,
       ParseUncacheable, ParseUncacheableFails, ParseAndInsert, ParseFails, RereadHit,
       RereadMiss, CheckAndConvert

LEMMA LoadStepType ==
  ASSUME LoaderInv, NEW r \in Request, Load(r), CacheTypeOK'
  PROVE  LoaderTypeOK'
<1>. USE DEF Goto, AnswerWith, LoaderTypeOK, requestVars
<1>0. LoaderTypeOK /\ RequestInv(r) /\ "MissingBeatmap" \in Error /\ "Parse" \in Error
  BY DEF LoaderInv, Error
<1>1. CASE RejectMissingSource(r) \/ ReadFails(r)
  BY <1>0, <1>1 DEF RejectMissingSource, ReadFails
<1>2. CASE TakeContent(r) \/ ReadFile(r)
  <2>1. CASE TakeContent(r)
    BY <1>0, <2>1 DEF TakeContent
  <2>2. CASE ReadFile(r)
    <3>1. disk[source[r]] \in Content
      BY <1>0, <2>2 DEF ReadFile
    <3>. QED  BY <1>0, <2>2, <3>1 DEF ReadFile
  <2>. QED  BY <1>2, <2>1, <2>2
<1>3. CASE LookupHit(r) \/ RereadHit(r)
  <2>1. bytes[r] \in Content
    BY <1>0, <1>3 DEF RequestInv, LookupHit, RereadHit
  <2>2. CachedMap(Id(r)) \in Beatmap
    BY <1>3, <2>1, CachedMapFacts DEF Id, LookupHit, RereadHit, Hit
  <2>. QED  BY <1>0, <1>3, <2>2 DEF LookupHit, RereadHit
<1>4. CASE LookupMiss(r) \/ ParseAndInsert(r)
  BY <1>0, <1>4 DEF LookupMiss, ParseAndInsert
<1>5. CASE ParseUncacheable(r)
  <2>1. bytes[r] \in Content
    BY <1>0, <1>5 DEF RequestInv, ParseUncacheable
  <2>2. Parsed(r) \in Beatmap
    BY <1>5, <2>1, ParsedType DEF ParseUncacheable, Parsed
  <2>. QED  BY <1>0, <1>5, <2>2 DEF ParseUncacheable
<1>6. CASE ParseUncacheableFails(r) \/ ParseFails(r) \/ RereadMiss(r)
  BY <1>0, <1>6 DEF ParseUncacheableFails, ParseFails, RereadMiss
<1>7. CASE CheckAndConvert(r)
  <2>1. loaded[r] \in Beatmap /\ target[r] \in Target
    BY <1>0, <1>7 DEF RequestInv, CheckAndConvert
  <2>2. Outcome(loaded[r], target[r]) \in Beatmap \cup Error
    BY <2>1, OutcomeFacts
  <2>. QED  BY <1>0, <1>7, <2>2 DEF CheckAndConvert
<1>. QED  BY <1>1, <1>2, <1>3, <1>4, <1>5, <1>6, <1>7 DEF Load

LEMMA StepInv == LoaderInv /\ [LoaderNext]_loaderVars => LoaderInv'
<1>. SUFFICES ASSUME LoaderInv, [LoaderNext]_loaderVars
              PROVE  LoaderInv'
  OBVIOUS
<1>1. CacheInv' /\ CacheTypeOK' /\ CacheHoldsParses'
  BY StepCacheEffect, StepCache DEF CacheInv
<1>2. ASSUME NEW r \in Request, Load(r)
      PROVE  LoaderInv'
  <2>1. LoaderTypeOK'
    BY <1>1, <1>2, LoadStepType
  <2>2. ASSUME NEW q \in Request, q # r
        PROVE  RequestInv(q)'
    <3>1. RequestInv(q)
      BY DEF LoaderInv
    <3>2. /\ pc'[q] = pc[q] /\ source'[q] = source[q] /\ target'[q] = target[q]
          /\ bytes'[q] = bytes[q] /\ loaded'[q] = loaded[q] /\ answer'[q] = answer[q]
      BY <1>2, <2>2, LoadStepFrame
    <3>. QED  BY <3>1, <3>2 DEF RequestInv, Id
  <2>3. RequestInv(r)'
    BY <1>2, LoadStepRequest
  <2>. QED  BY <1>1, <2>1, <2>2, <2>3 DEF LoaderInv
<1>3. ASSUME NEW r \in Request, NEW s \in Source, NEW t \in Target, Submit(r, s, t)
      PROVE  LoaderInv'
  <2>1. LoaderTypeOK'
    BY <1>1, <1>3 DEF LoaderInv, LoaderTypeOK, Submit, Goto
  <2>2. \A q \in Request : RequestInv(q)'
    BY <1>3 DEF LoaderInv, LoaderTypeOK, Submit, Goto, RequestInv, Id
  <2>. QED  BY <1>1, <2>1, <2>2 DEF LoaderInv
<1>4. ASSUME NEW p \in Path, NEW c \in Content \cup {NoFile}, UpdateFile(p, c)
      PROVE  LoaderInv'
  <2>1. LoaderTypeOK'
    BY <1>1, <1>4 DEF LoaderInv, LoaderTypeOK, UpdateFile, requestVars
  <2>2. \A q \in Request : RequestInv(q)'
    BY <1>4 DEF LoaderInv, UpdateFile, requestVars, RequestInv, Id
  <2>. QED  BY <1>1, <2>1, <2>2 DEF LoaderInv
<1>5. CASE AllAnswered \/ UNCHANGED loaderVars
  <2>1. LoaderTypeOK'
    BY <1>1, <1>5 DEF LoaderInv, LoaderTypeOK, AllAnswered, loaderVars
  <2>2. \A q \in Request : RequestInv(q)'
    BY <1>5 DEF LoaderInv, AllAnswered, loaderVars, RequestInv, Id
  <2>. QED  BY <1>1, <2>1, <2>2 DEF LoaderInv
<1>. QED  BY <1>2, <1>3, <1>4, <1>5 DEF LoaderNext

LEMMA LoaderInvariant == LoaderSpec => []LoaderInv
BY LoaderInitInv, StepInv, PTL DEF LoaderSpec

-----------------------------------------------------------------------------

(* Every variable of the loader keeps its type, whatever the requests, files
   and capacity: no field is ever read before it is set. *)
THEOREM LoaderTypeCorrect == LoaderSpec => []LoaderTypeOK
<1>1. LoaderInv => LoaderTypeOK
  BY DEF LoaderInv
<1>. QED  BY <1>1, LoaderInvariant, PTL

(* Every cached beatmap is the unconverted parse of a file that carries the
   id it is cached under (convert.rs:38-40, calculator.rs:168-170). *)
THEOREM CacheHoldsParsesAlways == LoaderSpec => []CacheHoldsParses
<1>1. LoaderInv => CacheHoldsParses
  BY DEF LoaderInv
<1>. QED  BY <1>1, LoaderInvariant, PTL

(* When files that share an id parse alike, every verdict a request gets is
   the one on its own bytes: neither the cache, nor a conversion made for
   another request, nor a file changed meanwhile shows in an answer. *)
THEOREM OwnContentAnswered ==
  ASSUME IdsIdentifyBeatmaps
  PROVE  LoaderSpec => []AnswersOwnContent
<1>1. LoaderInit => AnswersOwnContent
  BY DEF LoaderInit, AnswersOwnContent
<1>2. LoaderInv /\ AnswersOwnContent /\ [LoaderNext]_loaderVars => AnswersOwnContent'
  <2> DEFINE Own(q) == bytes[q] # None /\ answer[q] \notin {None, "MissingBeatmap"} =>
                          answer[q] = IF Parsed(q) = Unparsable THEN "Parse"
                                      ELSE Outcome(Parsed(q), target[q])
  <2>. SUFFICES ASSUME LoaderInv, AnswersOwnContent, [LoaderNext]_loaderVars,
                       NEW q \in Request
                PROVE  Own(q)'
    BY DEF AnswersOwnContent
  <2>1. Own(q) /\ RequestInv(q) /\ LoaderTypeOK
    BY DEF AnswersOwnContent, LoaderInv
  <2>2. ASSUME /\ source'[q] = source[q] /\ target'[q] = target[q]
               /\ bytes'[q] = bytes[q] /\ answer'[q] = answer[q]
        PROVE  Own(q)'
    BY <2>1, <2>2 DEF Parsed
  <2>3. ASSUME NEW r \in Request, Load(r), r # q
        PROVE  Own(q)'
    BY <2>2, <2>3, LoadStepFrame
  <2>4. CASE Load(q)
    <3>. USE DEF Goto, AnswerWith
    <3>1. CASE \/ TakeContent(q) \/ ReadFile(q) \/ LookupHit(q) \/ LookupMiss(q)
               \/ ParseUncacheable(q) \/ ParseAndInsert(q) \/ RereadHit(q)
      <4>1. answer' = answer /\ answer[q] = None
        BY <2>1, <3>1 DEF RequestInv, TakeContent, ReadFile, LookupHit, LookupMiss,
                          ParseUncacheable, ParseAndInsert, RereadHit
      <4>. QED  BY <4>1
    <3>2. CASE RejectMissingSource(q) \/ RereadMiss(q)
      BY <2>1, <3>2 DEF RejectMissingSource, RereadMiss, LoaderTypeOK
    <3>3. CASE ReadFails(q)
      BY <2>1, <3>3 DEF ReadFails, RequestInv
    <3>4. CASE ParseUncacheableFails(q) \/ ParseFails(q)
      BY <2>1, <3>4 DEF ParseUncacheableFails, ParseFails, LoaderTypeOK, Parsed
    <3>5. CASE CheckAndConvert(q)
      <4>1. PICK c \in Content : /\ Same(bytes[q], c)
                                 /\ FromBytes[c] \in Beatmap
                                 /\ loaded[q] = FromBytes[c]
        BY <2>1, <3>5 DEF RequestInv, CheckAndConvert
      <4>2. bytes[q] \in Content
        BY <2>1, <3>5 DEF RequestInv, CheckAndConvert
      <4>3. FromBytes[bytes[q]] = FromBytes[c]
        BY <4>1, <4>2, DistinctAssumption DEF Same, IdsIdentifyBeatmaps
      <4>4. Parsed(q) = loaded[q] /\ Parsed(q) # Unparsable
        BY <4>1, <4>3, DistinctAssumption DEF Parsed
      <4>5. /\ answer'[q] = Outcome(loaded[q], target[q])
            /\ bytes'[q] = bytes[q] /\ target'[q] = target[q]
        BY <2>1, <3>5 DEF CheckAndConvert, LoaderTypeOK, requestVars
      <4>. QED  BY <4>4, <4>5 DEF Parsed
    <3>. QED  BY <2>4, <3>1, <3>2, <3>3, <3>4, <3>5 DEF Load
  <2>5. CASE \E r \in Request, s \in Source, t \in Target : Submit(r, s, t)
    <3>1. PICK r \in Request, s \in Source, t \in Target : Submit(r, s, t)
      BY <2>5
    <3>2. CASE r = q
      BY <2>1, <3>1, <3>2 DEF Submit, Goto, RequestInv
    <3>3. CASE r # q
      BY <2>1, <2>2, <3>1, <3>3 DEF Submit, LoaderTypeOK
    <3>. QED  BY <3>2, <3>3
  <2>6. CASE \/ \E p \in Path, c \in Content \cup {NoFile} : UpdateFile(p, c)
             \/ AllAnswered
             \/ UNCHANGED loaderVars
    BY <2>2, <2>6 DEF UpdateFile, AllAnswered, loaderVars, requestVars
  <2>. QED  BY <2>3, <2>4, <2>5, <2>6 DEF LoaderNext
<1>. QED  BY <1>1, <1>2, LoaderInvariant, PTL DEF LoaderSpec

-----------------------------------------------------------------------------

(* With room for every id, nothing is ever evicted. *)
LEMMA NothingEvicted ==
  ASSUME RoomForAllIds, LoaderInv, CacheEffect
  PROVE  CachedIds \subseteq CachedIds'
<1>1. /\ CacheInv
      /\ CachedIds = {x.id : x \in Range(inner)}
      /\ CachedIds' = {x.id : x \in Range(inner')}
  BY DEF LoaderInv, CachedIds, Range
<1>2. CachedIds \subseteq ContentIds
  <2>1. ASSUME NEW i \in DOMAIN inner
        PROVE  inner[i].id \in ContentIds
    <3>1. PICK c \in Content : BeatmapIdOf[c] = inner[i].id
      BY DEF LoaderInv, CacheHoldsParses
    <3>2. inner[i] \in Entry
      BY LenProperties, ElementOfSeq DEF LoaderInv, CacheInv, CacheTypeOK
    <3>. QED  BY <3>1, <3>2 DEF ContentIds, Entry
  <2>. QED  BY <2>1 DEF CachedIds
<1>3. CASE UNCHANGED cacheVars
  BY <1>3 DEF cacheVars, CachedIds
<1>4. ASSUME NEW id \in BeatmapId, Hit(id) \/ Miss(id)
      PROVE  CachedIds \subseteq CachedIds'
  <2>1. Range(inner') = Range(inner)
    BY <1>1, <1>4, HitKeepsEntries, MissKeepsEntries
  <2>. QED  BY <1>1, <2>1
<1>5. ASSUME NEW r \in Request, pc[r] = "parse", Parsed(r) # Unparsable,
             Insert(Id(r), Parsed(r))
      PROVE  CachedIds \subseteq CachedIds'
  <2>1. bytes[r] \in Content /\ Id(r) \in BeatmapId /\ Parsed(r) \in Beatmap
    BY <1>5, ParsedType DEF LoaderInv, RequestInv, Parsed
  <2>2. Id(r) \in ContentIds
    BY <2>1 DEF ContentIds, Id
  <2>3. Cached(Id(r)) \/ Len(inner) < Capacity
    BY <1>1, <1>2, <2>2, RoomForKnownIds DEF RoomForAllIds
  <2>. QED  BY <1>1, <1>5, <2>1, <2>3, InsertAddsEntry
<1>. QED  BY <1>3, <1>4, <1>5 DEF CacheEffect

(* When the cache has room for the ids of all the files in circulation, the
   re-read of convert.rs:42 never misses: only a request without a source is
   told MissingBeatmap. *)
THEOREM MissingBeatmapJustified ==
  ASSUME RoomForAllIds
  PROVE  LoaderSpec => []MissingBeatmapOnlyWithoutSource
<1> DEFINE RereadCached == \A q \in Request : pc[q] = "reread" => Cached(Id(q))
           Inv == LoaderInv /\ RereadCached /\ MissingBeatmapOnlyWithoutSource
<1>1. LoaderInit => Inv
  BY LoaderInitInv, DistinctAssumption
     DEF LoaderInit, MissingBeatmapOnlyWithoutSource, Error
<1>2. Inv /\ [LoaderNext]_loaderVars => Inv'
  <2>. SUFFICES ASSUME Inv, [LoaderNext]_loaderVars
                PROVE  RereadCached' /\ MissingBeatmapOnlyWithoutSource'
    BY StepInv
  <2>1. CachedIds \subseteq CachedIds'
    BY StepCacheEffect, NothingEvicted
  <2>2. LoaderTypeOK /\ \A q \in Request : RequestInv(q)
    BY DEF LoaderInv
  <2> DEFINE Good(q) == /\ pc[q] = "reread" => Cached(Id(q))
                        /\ answer[q] = "MissingBeatmap" => source[q] = NoSource
  <2>3. \A q \in Request : Good(q)
    BY DEF MissingBeatmapOnlyWithoutSource
  <2>4. ASSUME NEW q \in Request,
               /\ pc'[q] = pc[q] /\ source'[q] = source[q]
               /\ bytes'[q] = bytes[q] /\ answer'[q] = answer[q]
        PROVE  Good(q)'
    BY <2>1, <2>3, <2>4 DEF Cached, Id
  <2>5. ASSUME NEW q \in Request, Load(q)
        PROVE  Good(q)'
    <3>. USE DEF Goto, AnswerWith
    <3>0. Good(q) /\ RequestInv(q)
      BY <2>2, <2>3
    <3>1. CASE \/ TakeContent(q) \/ ReadFile(q) \/ LookupHit(q) \/ LookupMiss(q)
               \/ ParseUncacheable(q) \/ RereadHit(q)
      BY <2>2, <3>0, <3>1 DEF TakeContent, ReadFile, LookupHit, LookupMiss, ParseUncacheable,
                              RereadHit, LoaderTypeOK, requestVars
    <3>2. CASE ParseAndInsert(q)
      <4>1. bytes[q] \in Content /\ Id(q) \in BeatmapId /\ Parsed(q) \in Beatmap
        BY <3>0, <3>2, ParsedType DEF RequestInv, ParseAndInsert, Parsed
      <4>2. Cached(Id(q))' /\ UNCHANGED <<bytes, answer, source>>
        <5>1. Cached(Id(q))'
          <6>1. Insert(Id(q), Parsed(q)) /\ bytes' = bytes
            BY <3>2 DEF ParseAndInsert
          <6>2. Id(q) \in CachedIds'
            BY <4>1, <6>1, InsertAddsEntry DEF LoaderInv, Cached
          <6>. QED  BY <6>1, <6>2 DEF Cached, Id
        <5>. QED  BY <3>2, <5>1 DEF ParseAndInsert, requestVars
      <4>. QED  BY <3>0, <4>2
    <3>3. CASE RejectMissingSource(q)
      BY <2>2, <3>3 DEF RejectMissingSource, LoaderTypeOK, requestVars
    <3>4. CASE RereadMiss(q)
      BY <3>0, <3>4 DEF RereadMiss, Miss
    <3>5. CASE ReadFails(q) \/ ParseUncacheableFails(q) \/ ParseFails(q)
      BY <2>2, <3>5 DEF ReadFails, ParseUncacheableFails, ParseFails, LoaderTypeOK
    <3>6. CASE CheckAndConvert(q)
      <4>1. loaded[q] \in Beatmap /\ target[q] \in Target
        BY <3>0, <3>6 DEF CheckAndConvert, RequestInv
      <4>2. Outcome(loaded[q], target[q]) # "MissingBeatmap"
        <5>1. Outcome(loaded[q], target[q]) \in Beatmap \cup {"Suspicious", "Conversion"}
          BY <4>1, OutcomeFacts
        <5>. QED  BY <5>1, DistinctAssumption DEF Error
      <4>. QED  BY <2>2, <3>6, <4>2 DEF CheckAndConvert, LoaderTypeOK
    <3>. QED  BY <2>5, <3>1, <3>2, <3>3, <3>4, <3>5, <3>6 DEF Load
  <2>6. ASSUME NEW r \in Request, Load(r), NEW q \in Request
        PROVE  Good(q)'
    <3>1. CASE r = q
      BY <2>5, <2>6, <3>1
    <3>2. CASE r # q
      BY <2>4, <2>6, <3>2, LoadStepFrame
    <3>. QED  BY <3>1, <3>2
  <2>7. ASSUME NEW r \in Request, NEW s \in Source, NEW t \in Target, Submit(r, s, t),
               NEW q \in Request
        PROVE  Good(q)'
    <3>1. CASE r = q
      BY <2>2, <2>7, <3>1, DistinctAssumption DEF Submit, Goto, RequestInv, LoaderTypeOK, Error
    <3>2. CASE r # q
      BY <2>2, <2>4, <2>7, <3>2 DEF Submit, Goto, LoaderTypeOK
    <3>. QED  BY <3>1, <3>2
  <2>8. ASSUME \/ \E p \in Path, c \in Content \cup {NoFile} : UpdateFile(p, c)
               \/ AllAnswered
               \/ UNCHANGED loaderVars,
               NEW q \in Request
        PROVE  Good(q)'
    BY <2>4, <2>8 DEF UpdateFile, AllAnswered, loaderVars, requestVars
  <2>9. ASSUME NEW q \in Request
        PROVE  Good(q)'
    BY <2>6, <2>7, <2>8 DEF LoaderNext
  <2>. QED  BY <2>9 DEF MissingBeatmapOnlyWithoutSource
<1>3. Inv => MissingBeatmapOnlyWithoutSource
  OBVIOUS
<1>. QED  BY <1>1, <1>2, <1>3, PTL DEF LoaderSpec

-----------------------------------------------------------------------------

(* An answer computed from a loaded beatmap is one the contract admits. *)
LEMMA LoadedOutcomeAdmissible ==
  ASSUME LoaderInv, NEW r \in Request, pc[r] = "loaded"
  PROVE  Contract!Admissible(source[r], target[r], Outcome(loaded[r], target[r]))
<1> DEFINE s == source[r]
           t == target[r]
           map == loaded[r]
<1>1. RequestInv(r)
  BY DEF LoaderInv
<1>2. PICK c \in Content : Same(bytes[r], c) /\ FromBytes[c] \in Beatmap /\ map = FromBytes[c]
  BY <1>1 DEF RequestInv
<1>3. t \in Target /\ map \in Beatmap
  BY <1>1, <1>2 DEF RequestInv
<1>4. c \in Contract!Candidates(s)
  BY <1>1, <1>2, DistinctAssumption
     DEF RequestInv, Same, Contract!Candidates, Contract!Interchangeable
<1>5. map \in Contract!CandidateMaps(s)
  BY <1>2, <1>3, <1>4, DistinctAssumption DEF Contract!CandidateMaps
<1>. SUFFICES Contract!Admissible(s, t, Outcome(map, t))
  OBVIOUS
<1>. HIDE DEF s, t, map
<1>6. CASE map \in TooSuspicious
  BY <1>3, <1>5, <1>6, OutcomeFacts DEF Contract!Admissible
<1>7. CASE map \notin TooSuspicious /\ t \in {Unspecified, ModeOf[map]}
  <2>1. Outcome(map, t) = map /\ Contract!InMode(map, t) = map
    BY <1>3, <1>7, OutcomeFacts DEF Contract!InMode
  <2>2. Outcome(map, t) \in Contract!Served(s, t)
    BY <1>3, <1>5, <1>7, <2>1, DistinctAssumption DEF Contract!Served
  <2>. QED  BY <2>2 DEF Contract!Admissible
<1>8. CASE map \notin TooSuspicious /\ t \notin {Unspecified, ModeOf[map]}
  <2>1. Contract!InMode(map, t) = Converted[map, t]
    BY <1>8 DEF Contract!InMode
  <2>2. CASE Converted[map, t] = Unconvertible
    <3>1. Outcome(map, t) = "Conversion"
      BY <1>3, <1>8, <2>2, OutcomeFacts
    <3>. QED  BY <1>5, <1>8, <2>1, <2>2, <3>1 DEF Contract!Admissible
  <2>3. CASE Converted[map, t] # Unconvertible
    <3>1. Outcome(map, t) = Converted[map, t]
      BY <1>3, <1>8, <2>3, OutcomeFacts
    <3>2. Outcome(map, t) \in Contract!Served(s, t)
      BY <1>5, <1>8, <2>1, <2>3, <3>1 DEF Contract!Served
    <3>. QED  BY <3>2 DEF Contract!Admissible
  <2>. QED  BY <2>2, <2>3
<1>. QED  BY <1>6, <1>7, <1>8

(* A step of a request either leaves the contract's variables alone or gives
   the request its answer. *)
LEMMA LoadStepContract ==
  ASSUME LoaderInv, NEW r \in Request, Load(r)
  PROVE  [Contract!Reply(r)]_Contract!contractVars
<1>. USE DEF Goto, AnswerWith
<1>1. RequestInv(r) /\ LoaderTypeOK
  BY DEF LoaderInv
<1>2. ASSUME NEW a \in Beatmap \cup Error, pc[r] \notin {"idle", "done"},
             Contract!Admissible(source[r], target[r], a),
             answer' = [answer EXCEPT ![r] = a], UNCHANGED requestVars
      PROVE  Contract!Reply(r)
  <2>1. source[r] # None /\ answer[r] = None
    BY <1>1, <1>2, DistinctAssumption DEF RequestInv
  <2>. QED  BY <1>2, <2>1 DEF Contract!Reply, requestVars, Error
<1>3. CASE \/ TakeContent(r) \/ ReadFile(r) \/ LookupHit(r) \/ LookupMiss(r)
           \/ ParseUncacheable(r) \/ ParseAndInsert(r) \/ RereadHit(r)
  BY <1>3 DEF TakeContent, ReadFile, LookupHit, LookupMiss, ParseUncacheable, ParseAndInsert,
              RereadHit, requestVars, Contract!contractVars
<1>4. CASE RejectMissingSource(r)
  <2>1. Contract!Admissible(source[r], target[r], "MissingBeatmap")
    BY <1>4 DEF RejectMissingSource, Contract!Admissible
  <2>. QED  BY <1>2, <1>4, <2>1 DEF RejectMissingSource, Error
<1>5. CASE ReadFails(r)
  <2>1. Contract!Admissible(source[r], target[r], "Parse")
    BY <1>5 DEF ReadFails, Contract!Admissible
  <2>. QED  BY <1>2, <1>5, <2>1 DEF ReadFails, Error
<1>6. CASE ParseUncacheableFails(r) \/ ParseFails(r)
  <2>1. /\ bytes[r] \in Content
        /\ source[r] \in Path \/ source[r] = bytes[r]
        /\ FromBytes[bytes[r]] = Unparsable
        /\ pc[r] \in {"lookup", "parse"}
    BY <1>1, <1>6 DEF ParseUncacheableFails, ParseFails, RequestInv, Parsed
  <2>2. Contract!Admissible(source[r], target[r], "Parse")
    BY <2>1 DEF Contract!Admissible
  <2>. QED  BY <1>2, <1>6, <2>1, <2>2 DEF ParseUncacheableFails, ParseFails, Error
<1>7. CASE RereadMiss(r)
  <2>1. /\ bytes[r] \in Content
        /\ source[r] \in Path \/ source[r] = bytes[r]
        /\ BeatmapIdOf[bytes[r]] # NoId
    BY <1>1, <1>7, DistinctAssumption DEF RereadMiss, RequestInv, Id
  <2>2. bytes[r] \in Contract!Candidates(source[r])
    BY <2>1 DEF Contract!Candidates, Contract!Interchangeable
  <2>3. Contract!Admissible(source[r], target[r], "MissingBeatmap")
    BY <2>1, <2>2 DEF Contract!Admissible
  <2>. QED  BY <1>2, <1>7, <2>3 DEF RereadMiss, Error
<1>8. CASE CheckAndConvert(r)
  <2>1. Contract!Admissible(source[r], target[r], Outcome(loaded[r], target[r]))
    BY <1>8, LoadedOutcomeAdmissible DEF CheckAndConvert
  <2>2. loaded[r] \in Beatmap /\ target[r] \in Target
    BY <1>1, <1>8 DEF CheckAndConvert, RequestInv
  <2>3. Outcome(loaded[r], target[r]) \in Beatmap \cup Error
    BY <2>2, OutcomeFacts
  <2>. QED  BY <1>2, <1>8, <2>1, <2>3 DEF CheckAndConvert
<1>. QED  BY <1>3, <1>4, <1>5, <1>6, <1>7, <1>8 DEF Load

(* Loading implements the contract: whatever the interleaving, the evictions
   and the changes to files, a request is answered at most once, never
   changes its answer, and gets only what LoadContract admits. *)
THEOREM LoadingImplementsContract == LoaderSpec => ContractSafety
<1>1. LoaderInit => Contract!Init
  BY DEF LoaderInit, Contract!Init
<1>2. LoaderInv /\ [LoaderNext]_loaderVars => [Contract!Next]_Contract!contractVars
  <2>. SUFFICES ASSUME LoaderInv, [LoaderNext]_loaderVars
                PROVE  [Contract!Next]_Contract!contractVars
    OBVIOUS
  <2>1. ASSUME NEW r \in Request, Load(r)
        PROVE  [Contract!Next]_Contract!contractVars
    BY <2>1, LoadStepContract DEF Contract!Next
  <2>2. ASSUME NEW r \in Request, NEW s \in Source, NEW t \in Target, Submit(r, s, t)
        PROVE  Contract!Next
    <3>1. source[r] = None
      BY <2>2 DEF LoaderInv, RequestInv, Submit, Goto
    <3>2. Contract!Ask(r, s, t)
      BY <2>2, <3>1 DEF Submit, Contract!Ask
    <3>. QED  BY <3>2 DEF Contract!Next, Source, Target
  <2>3. CASE \/ \E p \in Path, c \in Content \cup {NoFile} : UpdateFile(p, c)
             \/ AllAnswered
             \/ UNCHANGED loaderVars
    BY <2>3 DEF UpdateFile, AllAnswered, loaderVars, requestVars, Contract!contractVars
  <2>. QED  BY <2>1, <2>2, <2>3 DEF LoaderNext
<1>. QED  BY <1>1, <1>2, LoaderInvariant, PTL
          DEF LoaderSpec, ContractSafety, Contract!Safety

-----------------------------------------------------------------------------
(***************************************************************************)
(* The hit counter.                                                        *)
(***************************************************************************)

CountedRequests == {r \in Request : loaded[r] # None /\ bytes[r] # None /\ Id(r) # NoId}

(* A request is counted when it gets its beatmap, which it does once. *)
HitsInv ==
    /\ IsFiniteSet(CountedRequests)
    /\ hits = Cardinality(CountedRequests)
    /\ \A r \in Request : pc[r] \in {"idle", "received", "lookup", "parse", "reread"} =>
          loaded[r] = None

(* A hit, at the lookup or at the re-read, counts its request. *)
LEMMA HitCountsItsRequest ==
  ASSUME LoaderInv, LoaderInv', HitsInv, NEW r \in Request,
         NEW from \in {"lookup", "reread"}, Goto(r, from, "loaded"),
         Id(r) \in BeatmapId, Hit(Id(r)),
         loaded' = [loaded EXCEPT ![r] = CachedMap(Id(r))], UNCHANGED bytes
  PROVE  HitsInv'
<1>1. /\ pc \in [Request -> {"idle", "received", "lookup", "parse", "reread", "loaded", "done"}]
      /\ loaded \in [Request -> Beatmap \cup {None}]
  BY DEF LoaderInv, LoaderTypeOK
<1>2. pc[r] \in {"lookup", "reread"} /\ bytes[r] \in Content
  BY DEF Goto, LoaderInv, RequestInv
<1>3. CachedMap(Id(r)) \in Beatmap
  BY <1>2, CachedMapFacts DEF Hit, Id
<1>4. pc' = [pc EXCEPT ![r] = "loaded"]
  BY DEF Goto
<1>5. loaded'[r] # None /\ bytes'[r] # None /\ Id(r)' = Id(r) /\ Id(r) # NoId
  BY <1>1, <1>2, <1>3, DistinctAssumption DEF Source, Id
<1>6. \A q \in Request : q # r => loaded'[q] = loaded[q] /\ pc'[q] = pc[q]
  BY <1>1, <1>4
<1>7. pc'[r] = "loaded"
  BY <1>1, <1>4
<1>8. CountedRequests' = CountedRequests \cup {r}
  BY <1>5, <1>6 DEF CountedRequests, Id
<1>9. r \notin CountedRequests
  BY <1>2 DEF CountedRequests, HitsInv
<1>10. IsFiniteSet(CountedRequests') /\ Cardinality(CountedRequests') = Cardinality(CountedRequests) + 1
  BY <1>8, <1>9, FS_AddElement DEF HitsInv
<1>11. \A q \in Request : pc'[q] \in {"idle", "received", "lookup", "parse", "reread"} =>
          loaded'[q] = None
  BY <1>6, <1>7 DEF HitsInv
<1>. QED  BY <1>10, <1>11 DEF HitsInv, Hit

(* A step that counts nobody: whoever is counted keeps what counts him. *)
LEMMA NobodyCounted ==
  ASSUME HitsInv, hits' = hits,
         \A r \in Request :
            /\ r \in CountedRequests <=> loaded'[r] # None /\ bytes'[r] # None /\ Id(r)' # NoId
            /\ pc'[r] \in {"idle", "received", "lookup", "parse", "reread"} => loaded'[r] = None
  PROVE  HitsInv'
<1>1. CountedRequests' = CountedRequests
  BY DEF CountedRequests
<1>. QED  BY <1>1 DEF HitsInv

LEMMA HitsStep ==
  LoaderInv /\ LoaderInv' /\ HitsInv /\ [LoaderNext]_loaderVars => HitsInv'
<1>. SUFFICES ASSUME LoaderInv, LoaderInv', HitsInv, [LoaderNext]_loaderVars
              PROVE  HitsInv'
  OBVIOUS
<1>1. /\ pc \in [Request -> {"idle", "received", "lookup", "parse", "reread", "loaded", "done"}]
      /\ loaded \in [Request -> Beatmap \cup {None}]
      /\ bytes \in [Request -> Content \cup {None}]
  BY DEF LoaderInv, LoaderTypeOK
<1>2. \A q \in Request : q \in CountedRequests <=>
         loaded[q] # None /\ bytes[q] # None /\ Id(q) # NoId
  BY DEF CountedRequests
<1>3. \A q \in Request : pc[q] \in {"idle", "received", "lookup", "parse", "reread"} =>
         loaded[q] = None
  BY DEF HitsInv
<1>4. ASSUME NEW r \in Request, NEW from, NEW to, Goto(r, from, to),
             to \in {"loaded", "done"} \/ from \in {"idle", "received", "lookup", "parse"},
             hits' = hits, UNCHANGED <<bytes, loaded>>
      PROVE  HitsInv'
  <2>1. \A q \in Request : pc'[q] \in {"idle", "received", "lookup", "parse", "reread"} =>
           loaded[q] = None
    BY <1>1, <1>3, <1>4, Zenon DEF Goto
  <2>2. \A q \in Request : Id(q)' = Id(q)
    BY <1>4 DEF Id
  <2>. QED  BY <1>2, <1>4, <2>1, <2>2, NobodyCounted
<1>5. ASSUME NEW r \in Request, NEW c \in Content, Goto(r, "received", "lookup"),
             bytes' = [bytes EXCEPT ![r] = c], hits' = hits, UNCHANGED loaded
      PROVE  HitsInv'
  <2>1. loaded[r] = None
    BY <1>3, <1>5 DEF Goto
  <2>2. \A q \in Request : q # r => bytes'[q] = bytes[q] /\ Id(q)' = Id(q) /\ pc'[q] = pc[q]
    BY <1>1, <1>5 DEF Goto, Id
  <2>. QED  BY <1>2, <1>3, <1>5, <2>1, <2>2, NobodyCounted
<1>6. ASSUME NEW r \in Request, ParseUncacheable(r)
      PROVE  HitsInv'
  <2>1. /\ pc' = [pc EXCEPT ![r] = "loaded"]
        /\ loaded' = [loaded EXCEPT ![r] = Parsed(r)]
        /\ Id(r) = NoId
        /\ UNCHANGED <<bytes, hits>>
    BY <1>6 DEF ParseUncacheable, Goto, cacheVars
  <2>2. \A q \in Request : q # r => loaded'[q] = loaded[q] /\ pc'[q] = pc[q]
    BY <1>1, <2>1
  <2>3. pc'[r] = "loaded"
    BY <1>1, <2>1
  <2>4. \A q \in Request : Id(q)' = Id(q)
    BY <2>1 DEF Id
  <2>. QED  BY <1>2, <1>3, <2>1, <2>2, <2>3, <2>4, NobodyCounted
<1>7. ASSUME NEW r \in Request, Load(r)
      PROVE  HitsInv'
  <2>0. RequestInv(r)
    BY DEF LoaderInv
  <2>1. CASE RejectMissingSource(r)
    BY <1>4, <2>1 DEF RejectMissingSource, AnswerWith, cacheVars
  <2>2. CASE ReadFails(r)
    BY <1>4, <2>2 DEF ReadFails, AnswerWith, cacheVars
  <2>3. CASE TakeContent(r)
    BY <1>5, <2>3 DEF TakeContent, cacheVars
  <2>4. CASE ReadFile(r)
    <3>1. disk[source[r]] \in Content
      BY <2>4 DEF ReadFile, LoaderInv, LoaderTypeOK
    <3>. QED  BY <1>5, <2>4, <3>1 DEF ReadFile, cacheVars
  <2>5. CASE LookupHit(r)
    BY <2>5, HitCountsItsRequest DEF LookupHit
  <2>6. CASE RereadHit(r)
    <3>1. Id(r) \in BeatmapId
      BY <2>0, <2>6 DEF RereadHit, Goto, RequestInv
    <3>. QED  BY <2>6, <3>1, HitCountsItsRequest DEF RereadHit
  <2>7. CASE LookupMiss(r)
    BY <1>4, <2>7 DEF LookupMiss, Miss
  <2>8. CASE ParseUncacheable(r)
    BY <1>6, <2>8
  <2>9. CASE ParseUncacheableFails(r)
    BY <1>4, <2>9 DEF ParseUncacheableFails, AnswerWith, cacheVars
  <2>10. CASE ParseAndInsert(r)
    BY <1>4, <2>10 DEF ParseAndInsert, Insert
  <2>11. CASE ParseFails(r)
    BY <1>4, <2>11 DEF ParseFails, AnswerWith, cacheVars
  <2>12. CASE RereadMiss(r)
    BY <1>4, <2>12 DEF RereadMiss, AnswerWith, Miss
  <2>13. CASE CheckAndConvert(r)
    BY <1>4, <2>13 DEF CheckAndConvert, AnswerWith, cacheVars
  <2>. QED  BY <1>7, <2>1, <2>2, <2>3, <2>4, <2>5, <2>6, <2>7, <2>8, <2>9, <2>10, <2>11,
               <2>12, <2>13 DEF Load
<1>8. ASSUME NEW r \in Request, NEW s \in Source, NEW t \in Target, Submit(r, s, t)
      PROVE  HitsInv'
  BY <1>4, <1>8 DEF Submit, cacheVars
<1>9. CASE \/ \E p \in Path, c \in Content \cup {NoFile} : UpdateFile(p, c)
           \/ AllAnswered
           \/ UNCHANGED loaderVars
  <2>1. UNCHANGED <<hits, pc, bytes, loaded>>
    BY <1>9 DEF UpdateFile, AllAnswered, loaderVars, cacheVars
  <2>2. \A q \in Request : Id(q)' = Id(q)
    BY <2>1 DEF Id
  <2>. QED  BY <1>2, <1>3, <2>1, <2>2, NobodyCounted
<1>. QED  BY <1>7, <1>8, <1>9 DEF LoaderNext

(* However many requests race for the cache, and whatever it evicts, the hit
   counter is the number of the cacheable requests that got their beatmap
   (cache.rs:37-48, convert.rs:34-42). *)
THEOREM HitsAreLoadedRequests == LoaderSpec => []HitsCountLoadedRequests
<1>1. LoaderInit => HitsInv
  <2>. SUFFICES ASSUME LoaderInit
                PROVE  HitsInv
    OBVIOUS
  <2>1. CountedRequests = {}
    BY DEF LoaderInit, CountedRequests
  <2>. QED  BY <2>1, FS_EmptySet DEF LoaderInit, CacheInit, HitsInv
<1>2. HitsInv => HitsCountLoadedRequests
  BY DEF HitsInv, HitsCountLoadedRequests, CountedRequests
<1>. QED  BY <1>1, <1>2, HitsStep, LoaderInvariant, PTL DEF LoaderSpec

-----------------------------------------------------------------------------
(***************************************************************************)
(* Batch. A step of a batch is a step of loading, so that all that is      *)
(* proved of loading holds of a batch as well.                             *)
(***************************************************************************)

(* What a request keeps of its source, and what its answer says. *)
AnswerInv(r) ==
    /\ source[r] \in Content /\ pc[r] \notin {"idle", "received"} => bytes[r] = source[r]
    /\ pc[r] = "done" => /\ answer[r] \in Beatmap \cup Error
                         /\ source[r] = NoSource => answer[r] = "MissingBeatmap"
                         /\ Contract!Admissible(source[r], target[r], answer[r])

AnswersInv == \A r \in Request : AnswerInv(r)

(* The requests of the loader are those of the batch, by their positions. *)
ItemsInv ==
    /\ batch \in Batches
    /\ \A i \in Items : pc[i] # "idle" => source[i] = batch[i].source /\ target[i] = batch[i].target

(* The saved error is the answer of an item, and while there is none every
   item that is done has its beatmap. *)
SavedInv ==
    /\ saved # None => \E i \in Items : pc[i] = "done" /\ answer[i] = saved /\ saved \in Error
    /\ saved = None => \A i \in Items : pc[i] = "done" => answer[i] \in Beatmap

(* The result is final: it is given when no item can change it any more. *)
ResultInv ==
    result # None =>
        \/ Len(batch) > MAX_BATCH_SIZE /\ result = Err("BatchTooLarge")
        \/ /\ Len(batch) <= MAX_BATCH_SIZE
           /\ saved # None
           /\ result = Err(saved)
        \/ /\ Len(batch) <= MAX_BATCH_SIZE
           /\ saved = None
           /\ \A i \in Items : pc[i] = "done"
           /\ result = Ok([i \in Items |-> answer[i]])

BatchInv ==
    /\ LoaderInv
    /\ AnswersInv
    /\ ItemsInv
    /\ SavedInv
    /\ ResultInv

-----------------------------------------------------------------------------

LEMMA ItemFacts ==
  ASSUME ItemsInv
  PROVE  /\ batch \in Seq(BatchItem)
         /\ Len(batch) \in Nat
         /\ Items = 1 .. Len(batch)
         /\ \A i \in Items : i \in Request /\ batch[i].source \in Source /\ batch[i].target \in Target
<1>1. batch \in Seq(BatchItem) /\ DOMAIN batch \subseteq Request
  BY BatchAssumption DEF ItemsInv
<1>2. Len(batch) \in Nat /\ DOMAIN batch = 1 .. Len(batch)
  BY <1>1, LenProperties
<1>3. \A i \in DOMAIN batch : batch[i] \in BatchItem
  BY <1>1, <1>2, ElementOfSeq
<1>. QED  BY <1>1, <1>2, <1>3 DEF Items, BatchItem

(* A batch does nothing that requests on their own would not do. *)
LEMMA BatchStepLoads ==
  ItemsInv /\ [BatchNext]_batchVars => [LoaderNext]_loaderVars
<1>. SUFFICES ASSUME ItemsInv, [BatchNext]_batchVars
              PROVE  [LoaderNext]_loaderVars
  OBVIOUS
<1>1. ASSUME NEW i \in Items, StartItem(i)
      PROVE  LoaderNext
  BY <1>1, ItemFacts DEF StartItem, LoaderNext
<1>2. ASSUME NEW i \in Items, WorkOnItem(i)
      PROVE  LoaderNext
  BY <1>2, ItemFacts DEF WorkOnItem, LoaderNext
<1>3. CASE \E p \in Path, c \in Content \cup {NoFile} : UpdateFile(p, c)
  BY <1>3 DEF LoaderNext
<1>4. CASE RejectTooLarge \/ Collect \/ Answered \/ UNCHANGED batchVars
  BY <1>4 DEF RejectTooLarge, Collect, Answered, batchVars
<1>. QED  BY <1>1, <1>2, <1>3, <1>4 DEF BatchNext

(* What becomes of a request's source on the way to its answer. *)
LEMMA LoadStepAnswer ==
  ASSUME LoaderInv, NEW r \in Request, AnswerInv(r), Load(r)
  PROVE  AnswerInv(r)'
<1>. USE DEF Goto, AnswerWith
<1>1. RequestInv(r) /\ LoaderTypeOK
  BY DEF LoaderInv
<1>2. /\ pc[r] \notin {"idle", "done"} /\ answer[r] = None
      /\ pc'[r] \notin {"idle", "received"}
      /\ source' = source /\ target' = target
  BY <1>1 DEF RequestInv, LoaderTypeOK, requestVars, Load, RejectMissingSource, TakeContent,
              ReadFile, ReadFails, LookupHit, LookupMiss, ParseUncacheable,
              ParseUncacheableFails, ParseAndInsert, ParseFails, RereadHit, RereadMiss,
              CheckAndConvert
<1>3. source[r] \in Content => bytes'[r] = source[r]
  <2>. SUFFICES ASSUME source[r] \in Content
                PROVE  bytes'[r] = source[r]
    OBVIOUS
  <2>1. source[r] \notin Path /\ source[r] # NoSource
    BY DistinctAssumption
  <2>2. CASE TakeContent(r)
    BY <1>1, <2>2 DEF TakeContent, LoaderTypeOK
  <2>3. CASE RejectMissingSource(r) \/ ReadFile(r) \/ ReadFails(r)
    BY <2>1, <2>3 DEF RejectMissingSource, ReadFile, ReadFails
  <2>4. CASE \/ LookupHit(r) \/ LookupMiss(r) \/ ParseUncacheable(r) \/ ParseUncacheableFails(r)
             \/ ParseAndInsert(r) \/ ParseFails(r) \/ RereadHit(r) \/ RereadMiss(r)
             \/ CheckAndConvert(r)
    <3>1. bytes' = bytes /\ pc[r] \in {"lookup", "parse", "reread", "loaded"}
      BY <2>4 DEF LookupHit, LookupMiss, ParseUncacheable, ParseUncacheableFails,
                  ParseAndInsert, ParseFails, RereadHit, RereadMiss, CheckAndConvert
    <3>. QED  BY <3>1 DEF AnswerInv
  <2>. QED  BY <2>2, <2>3, <2>4 DEF Load
<1>4. pc'[r] = "done" => answer'[r] \in Beatmap \cup Error
  <2>1. CASE \/ RejectMissingSource(r) \/ ReadFails(r) \/ ParseUncacheableFails(r)
             \/ ParseFails(r) \/ RereadMiss(r)
    BY <1>1, <2>1 DEF RejectMissingSource, ReadFails, ParseUncacheableFails, ParseFails,
                      RereadMiss, LoaderTypeOK, Error
  <2>2. CASE CheckAndConvert(r)
    <3>1. loaded[r] \in Beatmap /\ target[r] \in Target
      BY <1>1, <2>2 DEF CheckAndConvert, RequestInv
    <3>. QED  BY <1>1, <2>2, <3>1, OutcomeFacts DEF CheckAndConvert, LoaderTypeOK
  <2>3. CASE \/ TakeContent(r) \/ ReadFile(r) \/ LookupHit(r) \/ LookupMiss(r)
             \/ ParseUncacheable(r) \/ ParseAndInsert(r) \/ RereadHit(r)
    BY <1>1, <2>3 DEF TakeContent, ReadFile, LookupHit, LookupMiss, ParseUncacheable,
                      ParseAndInsert, RereadHit, LoaderTypeOK
  <2>. QED  BY <2>1, <2>2, <2>3 DEF Load
<1>5. source[r] = NoSource => answer'[r] = "MissingBeatmap"
  <2>. SUFFICES ASSUME source[r] = NoSource
                PROVE  answer'[r] = "MissingBeatmap"
    OBVIOUS
  <2>1. source[r] \notin Path /\ source[r] \notin Content
    BY DistinctAssumption
  <2>2. pc[r] = "received"
    BY <1>1, <1>2, <2>1 DEF RequestInv, LoaderTypeOK
  <2>3. RejectMissingSource(r)
    BY <2>1, <2>2 DEF Load, TakeContent, ReadFile, ReadFails, LookupHit, LookupMiss,
                      ParseUncacheable, ParseUncacheableFails, ParseAndInsert, ParseFails,
                      RereadHit, RereadMiss, CheckAndConvert
  <2>. QED  BY <1>1, <2>3 DEF RejectMissingSource, LoaderTypeOK
<1>6. pc'[r] = "done" => Contract!Admissible(source[r], target[r], answer'[r])
  <2>. SUFFICES ASSUME pc'[r] = "done"
                PROVE  Contract!Admissible(source[r], target[r], answer'[r])
    OBVIOUS
  <2>1. answer'[r] # answer[r]
    BY <1>2, <1>4, DistinctAssumption
  <2>2. Contract!Reply(r)
    BY <2>1, LoadStepContract DEF Contract!contractVars
  <2>. QED  BY <1>1, <2>2 DEF Contract!Reply, LoaderTypeOK
<1>. QED  BY <1>2, <1>3, <1>4, <1>5, <1>6 DEF AnswerInv

LEMMA AnswersStep == LoaderInv /\ AnswersInv /\ [LoaderNext]_loaderVars => AnswersInv'
<1>. SUFFICES ASSUME LoaderInv, AnswersInv, [LoaderNext]_loaderVars, NEW q \in Request
              PROVE  AnswerInv(q)'
  BY DEF AnswersInv
<1>0. AnswerInv(q)
  BY DEF AnswersInv
<1>1. ASSUME /\ pc'[q] = pc[q] /\ source'[q] = source[q] /\ target'[q] = target[q]
             /\ bytes'[q] = bytes[q] /\ answer'[q] = answer[q]
      PROVE  AnswerInv(q)'
  BY <1>0, <1>1 DEF AnswerInv
<1>2. ASSUME NEW r \in Request, Load(r)
      PROVE  AnswerInv(q)'
  <2>1. CASE r = q
    BY <1>0, <1>2, <2>1, LoadStepAnswer
  <2>2. CASE r # q
    BY <1>1, <1>2, <2>2, LoadStepFrame
  <2>. QED  BY <2>1, <2>2
<1>3. ASSUME NEW r \in Request, NEW s \in Source, NEW t \in Target, Submit(r, s, t)
      PROVE  AnswerInv(q)'
  <2>1. CASE r = q
    BY <1>3, <2>1 DEF Submit, Goto, AnswerInv, LoaderInv, LoaderTypeOK
  <2>2. CASE r # q
    BY <1>1, <1>3, <2>2 DEF Submit, Goto, LoaderInv, LoaderTypeOK
  <2>. QED  BY <2>1, <2>2
<1>4. CASE \/ \E p \in Path, c \in Content \cup {NoFile} : UpdateFile(p, c)
           \/ AllAnswered
           \/ UNCHANGED loaderVars
  BY <1>1, <1>4 DEF UpdateFile, AllAnswered, loaderVars, requestVars
<1>. QED  BY <1>2, <1>3, <1>4 DEF LoaderNext

(* A request whose fields a step leaves alone, or that it answers. *)
LEMMA LoadStepPc ==
  ASSUME LoaderInv, NEW r \in Request, Load(r)
  PROVE  /\ pc[r] \notin {"idle", "done"}
         /\ pc'[r] \notin {"idle", "received"}
         /\ UNCHANGED requestVars
         /\ pc'[r] # "done" => answer'[r] = None
BY DEF LoaderInv, LoaderTypeOK, RequestInv, Goto, AnswerWith, requestVars, Load,
       RejectMissingSource, TakeContent, ReadFile, ReadFails, LookupHit, LookupMiss,
       ParseUncacheable, ParseUncacheableFails, ParseAndInsert, ParseFails, RereadHit,
       RereadMiss, CheckAndConvert

LEMMA BatchInitInv == BatchInit => BatchInv
<1>. SUFFICES ASSUME BatchInit
              PROVE  BatchInv
  OBVIOUS
<1>1. LoaderInv
  BY LoaderInitInv DEF BatchInit
<1>2. \A r \in Request : pc[r] = "idle" /\ source[r] = None
  BY DEF BatchInit, LoaderInit
<1>3. AnswersInv
  BY <1>2 DEF AnswersInv, AnswerInv
<1>4. batch \in Batches /\ saved = None /\ result = None
  BY DEF BatchInit
<1>5. Items \subseteq Request
  BY <1>4, BatchAssumption DEF Items
<1>. QED  BY <1>1, <1>2, <1>3, <1>4, <1>5 DEF BatchInv, ItemsInv, SavedInv, ResultInv

(* A worker's step: its item's answer is the first error, or one more
   beatmap, or it has none yet. *)
LEMMA WorkerStep ==
  ASSUME BatchInv, AnswersInv', NEW i \in Items, WorkOnItem(i)
  PROVE  ItemsInv' /\ SavedInv' /\ ResultInv'
<1>1. /\ Load(i) /\ i \in Request
      /\ batch' = batch /\ result' = result
      /\ saved' = IF saved = None /\ answer'[i] \in Error THEN answer'[i] ELSE saved
  BY ItemFacts DEF WorkOnItem, BatchInv
<1>2. /\ pc[i] \notin {"idle", "done"}
      /\ source' = source /\ target' = target
      /\ pc'[i] # "done" => answer'[i] = None
  BY <1>1, LoadStepPc DEF BatchInv, requestVars
<1>3. \A j \in Items : j # i => pc'[j] = pc[j] /\ answer'[j] = answer[j]
  BY <1>1, LoadStepFrame, ItemFacts DEF BatchInv
<1>4. Items' = Items
  BY <1>1 DEF Items
<1>5. pc'[i] = "done" => answer'[i] \in Beatmap \cup Error
  BY <1>1 DEF AnswersInv, AnswerInv
<1>6. ItemsInv'
  <2>1. \A j \in Items : pc'[j] # "idle" => pc[j] # "idle"
    BY <1>2, <1>3
  <2>. QED  BY <1>1, <1>2, <1>4, <2>1 DEF BatchInv, ItemsInv
<1>7. SavedInv'
  <2>1. CASE saved # None
    <3>1. saved' = saved
      BY <1>1, <2>1
    <3>2. PICK j \in Items : pc[j] = "done" /\ answer[j] = saved /\ saved \in Error
      BY <2>1 DEF BatchInv, SavedInv
    <3>3. pc'[j] = "done" /\ answer'[j] = saved
      BY <1>2, <1>3, <3>2
    <3>. QED  BY <1>4, <2>1, <3>1, <3>2, <3>3 DEF SavedInv
  <2>2. CASE saved = None /\ answer'[i] \in Error
    <3>1. saved' = answer'[i] /\ pc'[i] = "done" /\ saved' # None
      BY <1>1, <1>2, <2>2, DistinctAssumption
    <3>. QED  BY <1>4, <2>2, <3>1 DEF SavedInv
  <2>3. CASE saved = None /\ answer'[i] \notin Error
    <3>1. saved' = None
      BY <1>1, <2>3
    <3>2. \A j \in Items : pc'[j] = "done" => answer'[j] \in Beatmap
      BY <1>3, <1>5, <2>3 DEF BatchInv, SavedInv
    <3>. QED  BY <1>4, <3>1, <3>2 DEF SavedInv
  <2>. QED  BY <2>1, <2>2, <2>3
<1>8. ResultInv'
  <2>1. saved # None => saved' = saved
    BY <1>1
  <2>2. ~ \A j \in Items : pc[j] = "done"
    BY <1>2
  <2>. QED  BY <1>1, <2>1, <2>2 DEF BatchInv, ResultInv, Ok, Err
<1>. QED  BY <1>6, <1>7, <1>8

LEMMA BatchStepInv == BatchInv /\ [BatchNext]_batchVars => BatchInv'
<1>. SUFFICES ASSUME BatchInv, [BatchNext]_batchVars
              PROVE  BatchInv'
  OBVIOUS
<1>1. [LoaderNext]_loaderVars
  BY BatchStepLoads DEF BatchInv
<1>2. LoaderInv' /\ AnswersInv'
  BY <1>1, StepInv, AnswersStep DEF BatchInv
<1>3. SUFFICES ItemsInv' /\ SavedInv' /\ ResultInv'
  BY <1>2 DEF BatchInv
<1>4. /\ LoaderTypeOK
      /\ pc \in [Request -> {"idle", "received", "lookup", "parse", "reread", "loaded", "done"}]
      /\ Items \subseteq Request
  BY ItemFacts DEF BatchInv, LoaderInv, LoaderTypeOK
<1>5. ASSUME UNCHANGED <<pc, source, target, answer, batch>>
      PROVE  /\ ItemsInv'
             /\ saved' = saved => SavedInv'
             /\ saved' = saved /\ result' = result => ResultInv'
  BY <1>5 DEF BatchInv, ItemsInv, SavedInv, ResultInv, Items, Ok, Err
<1>6. CASE UNCHANGED batchVars \/ Answered
  BY <1>5, <1>6 DEF Answered, batchVars, loaderVars
<1>7. CASE RejectTooLarge
  <2>1. ResultInv'
    BY <1>7 DEF RejectTooLarge, ResultInv
  <2>. QED  BY <1>5, <1>7, <2>1 DEF RejectTooLarge, loaderVars
<1>8. CASE Collect
  <2>1. UNCHANGED <<pc, source, target, answer, batch, saved>> /\ Len(batch) <= MAX_BATCH_SIZE
    BY <1>8 DEF Collect, loaderVars
  <2>2. ResultInv'
    <3>1. CASE saved = None
      BY <1>8, <2>1, <3>1 DEF Collect, ResultInv, Items, Ok
    <3>2. CASE saved # None
      BY <1>8, <2>1, <3>2 DEF Collect, ResultInv, Err
    <3>. QED  BY <3>1, <3>2
  <2>. QED  BY <1>5, <2>1, <2>2
<1>9. CASE \E p \in Path, c \in Content \cup {NoFile} :
              UpdateFile(p, c) /\ UNCHANGED <<batch, saved, result>>
  BY <1>5, <1>9 DEF UpdateFile, requestVars
<1>10. ASSUME NEW i \in Items, WorkOnItem(i)
       PROVE  ItemsInv' /\ SavedInv' /\ ResultInv'
  BY <1>2, <1>10, WorkerStep
<1>11. ASSUME NEW i \in Items, StartItem(i)
       PROVE  ItemsInv' /\ SavedInv' /\ ResultInv'
  <2>1. /\ Goto(i, "idle", "received")
        /\ source' = [source EXCEPT ![i] = batch[i].source]
        /\ target' = [target EXCEPT ![i] = batch[i].target]
        /\ UNCHANGED <<answer, batch, saved, result>>
        /\ saved = None /\ Len(batch) <= MAX_BATCH_SIZE
    BY <1>11 DEF StartItem, Submit
  <2>2. pc[i] = "idle" /\ pc'[i] = "received"
    BY <1>4, <2>1 DEF Goto
  <2>3. \A j \in Items : j # i => pc'[j] = pc[j] /\ source'[j] = source[j] /\ target'[j] = target[j]
    BY <1>4, <2>1 DEF Goto, LoaderTypeOK
  <2>4. source'[i] = batch[i].source /\ target'[i] = batch[i].target
    BY <1>4, <2>1 DEF LoaderTypeOK
  <2>5. Items' = Items
    BY <2>1 DEF Items
  <2>6. ItemsInv'
    BY <2>1, <2>3, <2>4, <2>5 DEF BatchInv, ItemsInv
  <2>7. SavedInv'
    BY <2>1, <2>2, <2>3, <2>5 DEF BatchInv, SavedInv
  <2>8. ResultInv'
    <3>1. ~ \A j \in Items : pc[j] = "done"
      BY <2>2
    <3>. QED  BY <2>1, <3>1 DEF BatchInv, ResultInv, Ok, Err
  <2>. QED  BY <2>6, <2>7, <2>8
<1>. QED  BY <1>6, <1>7, <1>8, <1>9, <1>10, <1>11 DEF BatchNext

(* Whatever the order of the workers: the invariant that the theorems below
   rest on. *)
LEMMA BatchInvariant == BatchSpec => []BatchInv
BY BatchInitInv, BatchStepInv, PTL DEF BatchSpec

-----------------------------------------------------------------------------

(* A batch is nothing but its requests over the cache they share with all
   others (calculator.rs:76-79): each behaviour of a batch is a behaviour of
   loading, and has every property that is proved of loading. *)
THEOREM BatchLoads == BatchSpec => LoaderSpec
<1>1. BatchInit => LoaderInit
  BY DEF BatchInit
<1>2. BatchInv /\ [BatchNext]_batchVars => [LoaderNext]_loaderVars
  BY BatchStepLoads DEF BatchInv
<1>. QED  BY <1>1, <1>2, BatchInvariant, PTL DEF BatchSpec, LoaderSpec

(* The state of a batch keeps its types: the responses are beatmaps only, and
   as long as the workers run the error is a single one. *)
THEOREM BatchTypeCorrect == BatchSpec => []BatchTypeOK
<1>1. BatchInv => BatchTypeOK
  <2>. SUFFICES ASSUME BatchInv
                PROVE  BatchTypeOK
    OBVIOUS
  <2>1. LoaderTypeOK /\ batch \in Seq(BatchItem) /\ saved \in Error \cup {None}
    BY ItemFacts DEF BatchInv, LoaderInv, SavedInv
  <2>2. CASE result = None
    BY <2>1, <2>2 DEF BatchTypeOK
  <2>3. CASE result # None
    <3>. SUFFICES result \in [error : Error \cup {"BatchTooLarge", None}, responses : Seq(Beatmap)]
      BY <2>1 DEF BatchTypeOK
    <3>0. <<>> \in Seq(Beatmap)
      OBVIOUS
    <3>1. CASE result = Err("BatchTooLarge")
      BY <3>0, <3>1 DEF Err
    <3>2. CASE saved # None /\ result = Err(saved)
      BY <2>1, <3>0, <3>2 DEF Err
    <3>3. CASE /\ saved = None
               /\ \A i \in Items : pc[i] = "done"
               /\ result = Ok([i \in Items |-> answer[i]])
      <4>1. \A i \in Items : answer[i] \in Beatmap
        BY <3>3 DEF BatchInv, SavedInv
      <4>2. [i \in Items |-> answer[i]] \in Seq(Beatmap)
        BY <4>1, ItemFacts DEF BatchInv
      <4>. QED  BY <3>3, <4>2 DEF Ok
    <3>. QED  BY <2>3, <3>1, <3>2, <3>3 DEF BatchInv, ResultInv
  <2>. QED  BY <2>2, <2>3
<1>. QED  BY <1>1, BatchInvariant, PTL

(* What an item that is done has to do with the batch. *)
LEMMA DoneItemFacts ==
  ASSUME BatchInv, NEW i \in Items, pc[i] = "done"
  PROVE  /\ i \in Request
         /\ batch[i].source \in Source /\ batch[i].target \in Target
         /\ source[i] = batch[i].source /\ target[i] = batch[i].target
         /\ answer[i] \in Beatmap \cup Error
         /\ batch[i].source = NoSource => answer[i] = "MissingBeatmap"
         /\ batch[i].source \in Content => bytes[i] = batch[i].source
         /\ Contract!Admissible(batch[i].source, batch[i].target, answer[i])
<1>1. i \in Request /\ batch[i].source \in Source /\ batch[i].target \in Target
  BY ItemFacts DEF BatchInv
<1>2. source[i] = batch[i].source /\ target[i] = batch[i].target
  BY DEF BatchInv, ItemsInv
<1>3. AnswerInv(i)
  BY <1>1 DEF BatchInv, AnswersInv
<1>. QED  BY <1>1, <1>2, <1>3 DEF AnswerInv

(* Under any evictions, ids that files share and changes to files, each
   response is one that LoadContract admits for the request at its place, and
   the error of a failed batch one that it admits for some request of the
   batch (calculator.rs:76-80). *)
THEOREM BatchAlwaysWithinContract == BatchSpec => []BatchWithinContract
<1>1. BatchInv => BatchWithinContract
  <2>. SUFFICES ASSUME BatchInv, result # None, Len(batch) <= MAX_BATCH_SIZE
                PROVE  IF result.error = None
                       THEN /\ Len(result.responses) = Len(batch)
                            /\ \A i \in Items :
                                  /\ result.responses[i] \in Beatmap
                                  /\ Contract!Admissible(batch[i].source, batch[i].target,
                                                         result.responses[i])
                       ELSE /\ result = Err(result.error)
                            /\ \E i \in Items :
                                  Contract!Admissible(batch[i].source, batch[i].target,
                                                      result.error)
    BY DEF BatchWithinContract
  <2>1. Items = 1 .. Len(batch) /\ Len(batch) \in Nat
    BY ItemFacts DEF BatchInv
  <2>2. ~ Len(batch) > MAX_BATCH_SIZE
    BY <2>1, BatchAssumption
  <2>3. CASE saved # None
    <3>1. result = Err(saved)
      BY <2>2, <2>3 DEF BatchInv, ResultInv
    <3>2. PICK i \in Items : pc[i] = "done" /\ answer[i] = saved
      BY <2>3 DEF BatchInv, SavedInv
    <3>3. Contract!Admissible(batch[i].source, batch[i].target, saved)
      BY <3>2, DoneItemFacts
    <3>4. result.error = saved
      BY <3>1 DEF Err
    <3>. QED  BY <2>3, <3>1, <3>3, <3>4
  <2>4. CASE saved = None
    <3>1. (\A i \in Items : pc[i] = "done") /\ result = Ok([i \in Items |-> answer[i]])
      BY <2>2, <2>4 DEF BatchInv, ResultInv
    <3>2. result.error = None /\ result.responses = [i \in Items |-> answer[i]]
      BY <3>1 DEF Ok
    <3>3. Len(result.responses) = Len(batch)
      BY <2>1, <3>2
    <3>4. \A i \in Items : answer[i] \in Beatmap
      BY <2>4, <3>1 DEF BatchInv, SavedInv
    <3>5. \A i \in Items : Contract!Admissible(batch[i].source, batch[i].target, answer[i])
      BY <3>1, DoneItemFacts
    <3>6. \A i \in Items : result.responses[i] = answer[i]
      BY <3>2
    <3>. QED  BY <3>2, <3>3, <3>4, <3>5, <3>6
  <2>. QED  BY <2>3, <2>4
<1>. QED  BY <1>1, BatchInvariant, PTL

(* A response of a batch is what its request would get on its own. *)
LEMMA DoneItemAlone ==
  ASSUME BatchInv, AnswersOwnContent, MissingBeatmapOnlyWithoutSource,
         NEW i \in Items, pc[i] = "done", batch[i].source \notin Path
  PROVE  answer[i] = Alone(batch[i])
<1>1. /\ i \in Request /\ batch[i].source \in Source
      /\ source[i] = batch[i].source /\ target[i] = batch[i].target
      /\ answer[i] \in Beatmap \cup Error
  BY DoneItemFacts
<1>2. CASE batch[i].source = NoSource
  BY <1>2, DoneItemFacts DEF Alone
<1>3. CASE batch[i].source # NoSource
  <2>1. batch[i].source \in Content
    BY <1>1, <1>3 DEF Source
  <2>2. bytes[i] = batch[i].source /\ bytes[i] # None
    BY <2>1, DoneItemFacts, DistinctAssumption DEF Source
  <2>3. answer[i] \notin {None, "MissingBeatmap"}
    BY <1>1, <1>3, DistinctAssumption DEF MissingBeatmapOnlyWithoutSource
  <2>4. answer[i] = IF Parsed(i) = Unparsable THEN "Parse" ELSE Outcome(Parsed(i), target[i])
    BY <1>1, <2>2, <2>3 DEF AnswersOwnContent
  <2>5. Parsed(i) = FromBytes[batch[i].source]
    BY <2>2 DEF Parsed
  <2>. QED  BY <1>1, <1>3, <2>4, <2>5 DEF Alone
<1>. QED  BY <1>2, <1>3

(* With room in the cache for every id, and ids that identify beatmaps, no
   race for the cache shows in a batch of contents: it gets what its requests
   would get one by one, in their order, or the error of one of them
   (calculator.rs:76-80). *)
THEOREM BatchAlwaysAsSingles ==
  ASSUME RoomForAllIds, IdsIdentifyBeatmaps
  PROVE  BatchSpec => []BatchAsSingles
<1>1. ASSUME BatchInv, AnswersOwnContent, MissingBeatmapOnlyWithoutSource
      PROVE  BatchAsSingles
  <2> DEFINE singles == [i \in Items |-> Alone(batch[i])]
             errors == {singles[i] : i \in Items} \cap Error
  <2>. SUFFICES ASSUME result # None, \A i \in Items : batch[i].source \notin Path
                PROVE  CASE Len(batch) > MAX_BATCH_SIZE -> result = Err("BatchTooLarge")
                         [] Len(batch) <= MAX_BATCH_SIZE /\ errors = {} -> result = Ok(singles)
                         [] OTHER -> \E e \in errors : result = Err(e)
    BY DEF BatchAsSingles
  <2>1. Len(batch) \in Nat /\ MAX_BATCH_SIZE \in Nat
    BY <1>1, ItemFacts, BatchAssumption DEF BatchInv
  <2>2. \A i \in Items : pc[i] = "done" => answer[i] = singles[i]
    BY <1>1, DoneItemAlone
  <2>3. CASE Len(batch) > MAX_BATCH_SIZE
    <3>1. result = Err("BatchTooLarge")
      BY <1>1, <2>1, <2>3 DEF BatchInv, ResultInv
    <3>. QED  BY <2>1, <2>3, <3>1
  <2>4. CASE Len(batch) <= MAX_BATCH_SIZE /\ saved = None
    <3>1. (\A i \in Items : pc[i] = "done") /\ result = Ok([i \in Items |-> answer[i]])
      BY <1>1, <2>1, <2>4 DEF BatchInv, ResultInv
    <3>2. [i \in Items |-> answer[i]] = singles
      BY <2>2, <3>1
    <3>3. \A i \in Items : singles[i] \in Beatmap
      BY <1>1, <2>2, <2>4, <3>1 DEF BatchInv, SavedInv
    <3>4. errors = {}
      BY <3>3, DistinctAssumption
    <3>. QED  BY <2>1, <2>4, <3>1, <3>2, <3>4
  <2>5. CASE Len(batch) <= MAX_BATCH_SIZE /\ saved # None
    <3>1. result = Err(saved)
      BY <1>1, <2>1, <2>5 DEF BatchInv, ResultInv
    <3>2. PICK i \in Items : pc[i] = "done" /\ answer[i] = saved /\ saved \in Error
      BY <1>1, <2>5 DEF BatchInv, SavedInv
    <3>3. saved \in errors
      BY <2>2, <3>2
    <3>. QED  BY <2>1, <2>5, <3>1, <3>3
  <2>. QED  BY <2>1, <2>3, <2>4, <2>5
<1>2. LoaderSpec => []AnswersOwnContent
  BY OwnContentAnswered
<1>3. LoaderSpec => []MissingBeatmapOnlyWithoutSource
  BY MissingBeatmapJustified
<1>. QED  BY <1>1, <1>2, <1>3, BatchLoads, BatchInvariant, PTL

(* Nor does a race among the requests of a batch make a re-read miss: with
   room for every id, only a request without a source is told MissingBeatmap
   (convert.rs:42). *)
THEOREM BatchMissingBeatmapJustified ==
  ASSUME RoomForAllIds
  PROVE  BatchSpec => []MissingBeatmapOnlyWithoutSource
<1>1. LoaderSpec => []MissingBeatmapOnlyWithoutSource
  BY MissingBeatmapJustified
<1>. QED  BY <1>1, BatchLoads, PTL

=============================================================================
