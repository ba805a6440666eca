# Formal models of rosu-pp-service

TLA+ modules that model rosu-pp-service, TLC runs that check them on small
instances, and theorems about them that TLAPS proves for every instance.
`PROJECT.json` lists the runs, the mutants of the code each property was tried
against, the source lines behind every definition, the disagreements found and
the hazards the properties are aimed at. Paths below are relative to the
repository unless they name a file of this directory.

## 1. The system

rosu-pp-service is a gRPC server around the rosu-pp library. One process, one
shared cache, no persistent state.

| component | source | state | operations |
|---|---|---|---|
| beatmap cache | `src/cache.rs` | an LRU map from BeatmapID to parsed beatmap, hit and miss counters, one mutex | `get`, `insert`, `stats` |
| beatmap id scan | `src/cache.rs:75-87` | none | `parse_beatmap_id`: the id written in a file, if any |
| beatmap loading | `src/service/convert.rs:19-49`, `src/service/calculator.rs:142-171` | per request: content read, beatmap obtained | look up, parse, insert, re-read, check suspicion, convert |
| calculators | `src/service/calculator.rs` | none beyond the request | difficulty, performance, batch, strains, strain graph, info |
| gradual streams | `src/service/calculator.rs:180-234`, `src/server/grpc.rs:191-265` | iterator index, score state, a bounded channel, the stream's end | start, compute, send, receive, end, cancel |
| gRPC handlers | `src/server/grpc.rs` | per call: a blocking task and a client | one handler per method |
| process | `src/main.rs` | up, shutting down, gone | start, signal, drain, exit |
| request settings | `src/service/convert.rs:51-150`, `src/service/calculator.rs:34-117` | none | resolve mods, pass settings on, report the circle size |
| response conversion | `src/service/convert.rs:51-75`, 152-349 | none | modes and results to messages |
| errors | `src/error.rs` | none | error to gRPC status |
| strain graph | `src/service/graph.rs` | a surface | render |
| documentation page | `src/main.rs:66-202`, `src/docs.rs` | flags of the renderer | render |
| configuration | `src/config.rs` | none | read the environment once |

How they interact. Every handler spawns one task on tokio's blocking pool. The
task loads a beatmap (through the cache, which all tasks share), converts it if
the request asks for another mode, and calculates. A unary handler awaits its
task. A batch fans out over rayon's workers, which share the same cache. A
stream handler returns at once and its task pushes responses into a channel of
128 that the HTTP/2 response body drains. Shutdown waits for calls, then for
tasks that have a thread.

What is hard in it, component by component, and the property that says it is
right (PROJECT.json, "hazards", gives each at its line):

- **Cache.** Which entry leaves, and when, after any mix of hits, replacements
  and inserts: `EvictedExactlyByCapacity`, `NoDuplicateKeys`, `WithinCapacity`.
- **Loading.** The cache is entered three times per miss (lookup, insert,
  re-read) and left in between; files on disk change; ids collide; beatmaps are
  shared while one request converts them: `CacheHoldsParses`,
  `AnswersOwnContent`, `MissingBeatmapOnlyWithoutSource`,
  `HitsCountLoadedRequests`, and the refinement of `LoadContract`.
- **Batch.** Requests of one batch race for the cache and for being the first
  error: `BatchWithinContract`, `BatchAsSingles`.
- **Streams.** A slow client, a client that leaves while the task is blocked or
  between its reservation and its push, a load that fails after the stream has
  begun: the refinement of `StreamContract`, `BoundedAhead`,
  `AtMostOneWasted`, `ThreadReleased`, `StreamEnds`.
- **Calls and process.** Abandoned tasks, a pool shared with stalled streams,
  shutdown at any moment, crashes: `OneTaskPerCall`, `ShutdownLosesNoCall`,
  `UnaryAnswered`, `ShutdownCompletes`; and a stream whose task is queued behind
  others, dropped by a shutdown or lost in a crash must not look complete:
  `EachStreamKeepsContract`.
- **Settings.** One rule written three times and forgotten twice, `cs` read in
  two places: `SameModsEverywhere`, `CsOfTheDifficulty`, and a finding.
- **Responses and errors.** Eight matches between modes, numbers on the wire
  and fields of a oneof, a cache that may answer with another file's beatmap or
  lose this one's, seven errors over four statuses: `ModeAsAsked`,
  `StatusNamesTheFault`.
- **Id scan.** It finds an id without knowing the format around it:
  `IdOfTheMetadata`.
- **Strain graph.** Two counts that must not be mixed up, series that may be
  empty, sizes that change their sign: `TopIsTheLargestSample`,
  `CurvesFollowTheStrains`, `DrawnOnTime`, `PngIsComplete`.
- **Documentation page.** A renderer that sees one line at a time and keeps the
  open block in two flags: `BlocksAsWritten`, `TagsNest`.

## 2. The modules

    BeatmapCache                     the LRU cache and its counters
      LruHistory                     + a history variable: what was used since
        LruHistoryProofs
      BeatmapLoader                  + threads that load beatmaps through it
        LoadContract                 what loading promises (abstract)
        Batch                        + rayon: a batch of loads
      BeatmapCacheProofs
        BeatmapLoaderProofs          of BeatmapLoader and of Batch
    GradualStream                    one streaming call
      StreamContract                 what a stream promises (abstract)
      GradualStreamProofs
    Service                          all calls, the blocking pool, the process
      StreamContract                 once for each stream of the service
      ServiceProofs
    Settings                         settings on their way to each stage
    Response                         modes, messages and statuses on the way back
    BeatmapIdScan                    the id of a file
      ComputationProofs              of these three
    StrainGraph                      from strain series to a PNG
      StrainGraphProofs
    RenderMarkdown                   the page of GET /docs
      Docs                           the documentation it renders
        RenderMarkdownProofs
    MCComputations                   Settings, Response, BeatmapIdScan or Docs
    MC*                              constants and bounds for TLC

**BeatmapCache** (`src/cache.rs`). `inner` is the LruCache as the sequence of
its entries, most recently used first. `get` and `insert` hold the mutex from
start to end, so each outcome is one action: `Hit`, `Miss`, `Insert`. `LruGet`
and `LruPut` are the lru crate's operations, modelled from their use. The u64
counters are naturals: they cannot overflow in the life of a process.

**BeatmapLoader** (`src/service/convert.rs`, `src/service/calculator.rs`). A
request is `Submit`ted when a blocking thread takes it up and then follows the
code: source, read, lookup, parse, insert, re-read, check and convert. A thread
yields at every access to what is shared, the cache and the disk; what it does
alone is part of the next action. What rosu-pp computes (a parse, a suspicion,
a conversion) is given by constant functions, so the theorems hold for
whichever they are. `UpdateFile` lets the host change any file at any moment,
which also stands for a read that a writer tears: some content is read.
**LoadContract** has only requests and answers and says which answers are
admissible; BeatmapLoader implements it.

**Batch** (`Calculator::batch`). The requests of a batch are requests of
BeatmapLoader. Any worker may start any request that is left until one has
failed; the result is collected when no worker is busy.

**GradualStream** (`src/server/grpc.rs`, the iterators of
`src/service/calculator.rs`). The blocking task with its iterator, `blocking_send`
in its two halves (wait for a slot, push), the channel, the client. The client
may hang up between any two steps; a receiver that is dropped drops what is
queued, and a push after it is lost. `Panic` ends the process at any step of the
task, as `panic = "abort"` does (`Cargo.toml:51`), and the client sees its
connection lost. Additions are modulo `U32`, as in a release build. **StreamContract** has only what the client sees.

**Service** (`src/server/grpc.rs`, `src/main.rs`). All calls, each with one
blocking task, the pool with its FIFO queue and `THREADS` threads, and the
process: up, draining, stopping, stopped, crashed. A stream has `Total`
responses; its task `Send`s one when the channel has room and its client reads
one with `ReadOn`; when the task is gone, for whichever reason, and the channel
empty, `EndStream` ends it with OK. What a task does between two sends, and what
it computes, is left to the other modules. It is the composition of GradualStream
with the pool: each stream implements StreamContract (`EachStreamKeepsContract`)
whatever the pool, the shutdown and a crash do to its task.

**Settings** (`src/service/convert.rs`, `src/service/calculator.rs`). What each
stage of a calculation is given, for every combination of `mods`, `mods_str`,
`cs` and `clock_rate`. The three copies of the mods rule are three definitions,
`DifficultyMods`, `PerformanceMods` and `GraphMods`, each with the cases of its
own lines; so are the two of the circle size rule.

**Response** (`src/service/convert.rs`, `src/service/calculator.rs`,
`src/error.rs`). One request of each method, from the mode on the wire through
load, conversion and calculation to the message or the status it gets. What the
cache holds at that moment is a choice among all it can hold: `TakeCached` gets
the beatmap of any file with the same id, even for bytes that do not parse,
`TakeParsed` the request's own, and `LoseEntry` is the re-read that fails with
MissingBeatmap. Of a message the mode and the field of its oneof are kept, as
the numbers of the wire; what rosu-pp computes, the circle size and the counts
of objects are copied field by field. Each of the eight matches of
`convert.rs` on modes (lines 51-59, 68-75, 153-158, 164-169, 174-179, 186-191,
197-217, 342-347) is a table with rows of its own; the two of
`difficulty_to_proto` and of `performance_to_proto` stand in one definition each.

**RenderMarkdown** (`src/main.rs:98-202`). One action per kind of line that the
loop tells apart, in its order, with the two flags. A document is written as
blocks, each with the lines it takes and the HTML it becomes, so that a renderer
which does not know blocks can be compared with one that does. Text is tokens:
words, markers, links. The dialect has code and bold in paragraphs and items;
the text of headings and of table rows, and links anywhere, appear as they are
typed, which is what the code does with them and not what the author of
`docs.rs` had in mind (section 5). **Docs** (`src/docs.rs`) has the page that is
served, block by block, with the markers of its cells and with its links.

**BeatmapIdScan** (`parse_beatmap_id`). One action per line and per way the loop
ends. A line is a section header, an id line or anything else. What a regular
file is, and which id its metadata have, is defined beside it in terms of
sections, which the code never looks at; `docs.rs:348` names that id.
BeatmapLoader takes the result as the constant `BeatmapIdOf`.

**StrainGraph** (`src/service/graph.rs`). The stages of `render_strain_graph`
with the data that decides between them: the number of strains in each series,
their values, the resampled curves as exact scaled integers, the size on its way
from u32 to i32. rosu-pp's strains and enterpolation's line are modelled from
their use, drawing is a step that succeeds or fails.

Definitions such as `PutShadowing` or `RetrySend`, which stand just above the
definition they alter and are used nowhere, are mutants: plausible bugs that
show that a property can fail.

## 3. The runs

`tlc -config <cfg> <module>`; each in at most two minutes.

| run | module | shows |
|---|---|---|
| `cache_lru` | MCLruHistory | 5 ids over a capacity of 3: an id is cached exactly while fewer than 3 others were used after it; never twice |
| `load_contract` | MCBeatmapLoader | 2 requests over a cache configured with size 0, which holds one entry: the entry is evicted and collides, a parse fails, a file changes under its path; loading implements `LoadContract`, its safety and its liveness |
| `load_own_content` | MCBeatmapLoader | 3 requests over a cache of one, suspicious and uncacheable files: when ids identify beatmaps, each answer is about the request's own file; the cache holds parses only; hits count loads |
| `missing_beatmap` | MCBeatmapLoader | finding: the re-read fails after an eviction |
| `shared_id` | MCBeatmapLoader | finding: an answer about another file with the same id |
| `batch` | MCBatch | all batches of up to 4 requests (limit 3), with and without a source, a conversion, a file that fails, a path whose content changes, in a cache with room: each response is one the loading contract admits for its request, and so is the error of a failed batch; over contents a batch is as good as its requests one by one; no race makes a re-read fail |
| `stream` | MCGradualStream | up to 6 objects, channel of 2, counters that wrap: implements `StreamContract`, bounded ahead of the client, at most one wasted response, thread and client released |
| `mania_counts_n300` | MCGradualStream | finding: n_geki is never counted |
| `service` | MCService | 2 unary calls and 2 streams over 2 threads, crashes, restarts and shutdowns: one task per open call, shutdown loses none and completes, unary calls are answered, each stream implements `StreamContract` |
| `computations` | MCComputations | what is sequential: the copies of the mods rule and of the cs rule agree; every mode asked of every kind of file by every method, whatever the cache answers, comes back as asked, or as the status that names the fault; over all files of up to 4 lines the id scan finds the id of the metadata; all documents of up to 3 blocks, all inline texts of up to 4 spans and the served page keep their blocks, in order and nested |
| `strain_graph` | MCStrainGraph | up to 5 sections and 3 samples, every mode, empty series, sizes at the limits of u32 and i32: curves follow the strains, fit the axes, are on time; a PNG is complete |
| `settings_cs` | MCSettings | finding: the reported cs ignores `mods_str` |

**Bounds.** A cache of one entry is the smallest in which one request evicts
another; two requests are enough for an eviction between an insert and its
re-read, three for a lookup, an insert and a re-read of the same id to be
separated by others. Each run's files have one of each way a load can end that
its question needs: colliding, failing, suspicious, uncacheable. `MaxGets`
bounds counters that nothing in the cache reads. A channel of two with six
objects fills, drains and is cancelled at every position of the task; the task
touches the channel at its two ends only, so a channel of 128 adds no new
interleaving, and the theorems hold for every capacity. In Service two threads
and two streams of two responses over channels of one make both outcomes of
contention happen: a spare thread and none; a task is blocked, and cut off,
with a response in the channel and one to come. `U32` is 8, so that counters wrap. Four lines are a header, an id, the hit
objects and one line to stand in the wrong place. Three blocks are one and both
its neighbours, which is as far as two flags can reach; four spans are two pairs
of markers with text between them. The modes on the wire go one beyond the known
ones on both sides; files without an id, and files that share one, come in every
mode, suspicious and broken. Three samples of up to five
sections stretch, keep and thin out a series; the counted series takes every
value, the others are empty or rising.

**Fairness.** Loading (`LoaderFairness`): weak fairness of each request's next
step, since a request in BeatmapLoader has its thread and the mutex is held for
a bounded time. Streams (`TaskFairness`): weak fairness of the task once it has
a thread; nothing is assumed of `Start`, which waits for a thread. `StreamEnds`
says of itself that it needs a client that reads (`ReaderFairness`);
`ThreadReleased` does not. Service (`PoolFairness`): threads take tasks, finite
computations end, shutdown proceeds. `UnaryAnswered` assumes that streams are
cut off in the end (`TimeoutFairness`, the 300 s of `nginx.conf.example`),
except for any set of fewer streams than threads that may stall for ever;
`ShutdownCompletes` assumes clients that read on, because axum's
graceful shutdown waits for open streams without a limit. Nothing is assumed of a client's start,
of signals or of crashes.

**Rest.** Every module has an explicit action for the states in which it may
stop (`AllAnswered`, `Over`, `Answered`, `Rest`, `Done`, `Scanned`, `Rendered`,
`Served`, `Replied`), so deadlock is checked everywhere.

## 4. The proofs

`tlapm <module>`. Every leaf is checked; nothing is assumed but the named
ASSUMEs on the constants, which say that sets are what they are called (a
capacity is a positive number, a parse gives a beatmap or a failure, an error is
not a response) and that TLC evaluates in the runs.

**BeatmapCacheProofs**, for every set of ids and every capacity: `CacheTypeOK`,
`WithinCapacity`, `NoDuplicateKeys`. Their conjunction `CacheInv` is inductive:
the capacity alone is not, since what an `LruPut` of a cached id does to the
length depends on the id being there once. The lemmas say what removing, keeping
and prepending entries does to the length, the keys and the entries of a
sequence with distinct keys; `NothingEvicted` says that ids which all fit are
never evicted, by counting positions against ids.

**LruHistoryProofs**: `EvictedExactlyByCapacity`, for every capacity. That an
entry is cached says nothing of why; `HistoryInv` says it by the entry's place:
the keys used since its last use are those before it (`PositionInv`), and there
are as many of them as places (`KeysBeforeCounted`). An entry that leaves is the
last of a full cache and meets a key that is not among them (`EvictedInv`).
`UseKeepsHistory` is the one argument for a hit, a replacement and an insert.

**BeatmapLoaderProofs**, for every set of requests, files, ids and paths. The
inductive `LoaderInv` adds `RequestInv` to the cache's invariant: what is known
of a request at each point of its way, above all that the beatmap it holds is
the parse of its own content or of one with the same id. From it:

- `CacheHoldsParsesAlways`: no conversion ever reaches the cache.
- `OwnContentAnswered`, under `IdsIdentifyBeatmaps` (contents with one id parse
  to one beatmap, which `shared_id` shows to be needed).
- `MissingBeatmapJustified`, under `RoomForAllIds` (the ids in use fit in the
  cache, which `missing_beatmap` shows to be needed): an entry a request waits
  to re-read is still there.
- `HitsAreLoadedRequests`: the counted requests are a finite set that grows by
  one with each hit, because a request that is yet to hit has no beatmap.
- `LoadingImplementsContract`: each step is `Ask`, `Answer` or invisible to
  `LoadContract`.

The same module has what is proved of **batches**, of any requests, any length
and any limit. `BatchLoads` shows that a step of a batch is a step of loading or
leaves the loader alone, so that everything above holds of batches too. Of the
batch itself `BatchInv` says: the loader's requests are the batch's, by position
(`ItemsInv`); a request whose source is content works on that content, and an
answer that was given is admissible for its request (`AnswerInv`); the saved error is
the answer of an item, and while none is saved every item that is done has a
beatmap (`SavedInv`); and a result is given when no item can change any more
(`ResultInv`). From it `BatchTypeCorrect`; `BatchAlwaysWithinContract`, with no
assumption on cache, ids and files; and, under `RoomForAllIds` and
`IdsIdentifyBeatmaps`, which the runs show to be needed, `BatchAlwaysAsSingles`:
no re-read of a batch fails, so that every answer is the one that its request
would get alone, in the order of the requests.

**GradualStreamProofs**, for every channel capacity, counter width and number
of objects below it. `StreamInv` says where each computed response is: the
received ones, the queued ones and the one in hand add up to the index
(`CountInv`) and are the expected ones in order (`OrderInv`, `PendingInv`); the
counters, which wrap, equal their closed form (`ScoreInv`); a failed load sends
its error only (`FailInv`); a reserved slot is still there (`RoomInv`); once the
client is gone a second computation is impossible (`WasteInv`). None of the four
results is inductive without it: `BoundedAhead`, for one, needs to know that the
responses that are not received are in the channel or in hand. The arithmetic
rests on `WrapOnce`: a sum of two counters wraps at most once. The task, the
channel and the cancellation implement StreamContract
(`StreamImplementsContract`), and `ClientHasWhatItWasTold` says what that is
worth to a client: whatever has happened it has the first responses of its
beatmap in order, all of them after an OK and none after an error.

**ServiceProofs**, for any number of calls, streams and threads. `ServiceInv`
relates calls, tasks and channels: a call that is not open has no task unless
its client left it; a stream whose task is gone while its client still waits has
sent everything; once the process is stopping nothing is open. From it come
`OneTaskPerCall`, `ShutdownLosesNoCall`, and that each stream implements
StreamContract (`StreamsImplementContract`): `EndStream` is `Complete` because an
open stream without a task has been sent in full.

**StrainGraphProofs**, for any strains, any number of samples above two and any
width of int: `GraphInv` says, stage by stage, what the earlier stages have made.
The maximum of a series is a CHOOSE; that it exists (`LargestValue`) is shown for
a finite sequence by a least counterexample, as the library's induction cannot
be used. `SampleWithin` and `SampleAtEnds` are the arithmetic of the
interpolation. `TopIsTheLargest`, `CurvesFollow`, `SamplesDrawnOnTime` and
`PngsAreComplete` follow.

**ComputationProofs**: Settings and Response, for every set of mods, circle
sizes, rates and files, and BeatmapIdScan, for files of any length. `UsedInv`
says what each stage that is over has worked with; `CopiesAgree` compares the
three copies of the mods rule case by case. `ResponseInv` says what the beatmap
at hand is: that of a file the request may be answered from, not suspicious once
it is checked (`GivenInv`), and in the mode that was asked for once the
conversion is over (`CalculateInv`); a bad file without an id comes no further
than its check (`GoodFileInv`). `StatusNamesTheFault` has both exceptions that a file
with an id makes: a broken one may be answered from the cache, and a good one
may lose its entry and be told INVALID_ARGUMENT. `ScanInv` says that no line behind
the loop has ended it (`PassedOver`) and, once it has ended, why it did
(`Reason`). `NoIdLine` is the step from lines to sections: an id line behind the
header of the hit objects would be in their section.

**RenderMarkdownProofs**, for documents of any number of blocks, with code and
tables of any length and inline text of any number of spans.

- `InlineAsWritten`: process_inline makes of any inline text what its spans
  mean. A round tags the first two markers that are left; `Paired` says which
  markers are meant for each other, `OneRound` that a round tags the next such
  pair, and `PairsAsMeant` that the rounds end with all of them tagged.
  `PairedConcat` joins two texts that are each paired, and the second loop, for
  bold, finds its markers where the first has left them.
- `PageInv` is the invariant of the page's loop. It says where the loop stands
  in terms of blocks, which the code does not know: before a block, some lines
  into code, or some rows into a table, and what it has rendered so far, once
  for the nesting of the tags and once for the text. The flag `in_table` may be
  left from a table before code; then the tags still nest, but the page is not
  as written, which is why `BlocksAsWritten` needs `WellSpaced` and `TagsNest`
  does not. `StepFromBlock`, `StepFromCode` and `StepFromTable` have one case
  for each kind of line. From it come `PageAlwaysNests` and
  `PageAlwaysAsWritten`.
- Their hypothesis is that a document is a sequence of `AuthorBlock`s: code
  whose lines may look like anything but a fence, closed or forgotten, tables,
  headings, rules, items, texts and empty lines. `ServedPageKeepsItsBlocks`
  shows that DOCUMENTATION is one, and is well spaced: the page that is served
  has each of its blocks, in order, with the tags of its kind. It does not say
  that the page looks as its author meant: the cells' backticks and the links
  are in the HTML as they are typed.

The operators it is about are recursive functions and folds. The library's
induction theorems cannot be used, because they take an operator; instead the
induction is over a set, the numbers or the sequences for which a claim holds
(`SetInduction`, `SequenceInduction`), and rests on the least element of a set of
numbers (`WFMin`). `FlattenSeqFacts` gives FlattenSeq, which the community
modules define by a fold, its two equations, and `NestingAppend` those of
`Nesting`.

**What is left to TLC.** Every invariant and every safety refinement that a
passing run checks is a theorem. Liveness under fairness (`ContractLiveness`,
`ThreadReleased`, `StreamEnds`, `UnaryAnswered`, `ShutdownCompletes`) is only
model-checked: it is beyond this prover like everything that involves ENABLED.

## 5. What was found

Four runs end in a violation, each a disagreement between the code and what the
repository says of it:

- `missing_beatmap` (`src/service/convert.rs:40-42`): a request with a valid
  source can be told that a source is required, when its entry is evicted
  between its insert and its re-read.
- `shared_id` (`src/service/convert.rs:34`): the cache trusts the id that a file
  carries, so a file can be answered with the beatmap of another.
- `mania_counts_n300` (`src/service/calculator.rs:207` and 224).
- `settings_cs` (`src/service/convert.rs:124` and 141).

Seen by reading, with no run:

- UNIMPLEMENTED (`src/error.rs:43`) is missing from the table of
  `src/docs.rs:412-416`.
- The conversion honours `mods` and not `mods_str`
  (`src/service/calculator.rs:161-163`); the strain graph ignores `clock_rate`
  (`src/service/calculator.rs:110`).
- HITRESULT_PRIORITY_FASTEST selects the best case
  (`src/service/convert.rs:63`, against `src/docs.rs:194`).
- A gradual performance starts from the score's counts and ignores its
  `accuracy`, which the example of `src/docs.rs:313` sends.
- Catch's `ar` and taiko's `effective_miss_count` are left at their defaults
  (`src/service/convert.rs:269` and 299).
- A background that was sent for a strain graph is decoded and resized but never
  drawn (`src/service/graph.rs:177`, a TODO, against `proto/pp.proto:236`).
- The page shows table cells (`src/docs.rs:31-37`, 339-342, 372-375, 414-416)
  with their backticks, since only paragraphs and items go through
  `process_inline` (`src/main.rs:149-154`), and shows the links of
  `src/docs.rs:3` and 422 as they are typed. Docs has both as they are.
- That a stream which ends is complete rests on `panic = "abort"`
  (`Cargo.toml:51`): where a panic unwinds, the sender is dropped and the client
  sees a truncated stream end with OK. `PanicUnwinds` is that mutant.

## 6. What is not modelled

What rosu-pp computes (parsing, suspicion, conversion, difficulty,
performance), which the models take as arbitrary functions, and the numbers
copied field by field from its results (`osu_diff`, `osu_perf` and their
siblings; the circle size and the counts of objects of `beatmap_to_proto` and
`osu_diff`) and into it (`apply_score_params`): one assignment per field, with
nothing on the other side in `src/` to compare it with. The colours, fonts and
labels of a strain graph; heading levels, where cells part and escaping of the page;
logging; generated code. `src/config.rs` reads two environment variables once:
no state, no choice that another part depends on. `/ready` and `/live` answer a
constant. Memory is not modelled: neither the allocation of the cache for its
capacity nor the size of responses. A panic is a crash of the process, as in the
release build (`Cargo.toml:51`).

## 7. The plan

Written in this order, because the cache and the loading through it are where
requests meet: cache, loading, streams, calls and process, batch, settings,
id scan, strain graph, responses and errors, the page. Still open: a composition
of BeatmapIdScan with BeatmapCache, so that ids come from files rather than from
the constant `BeatmapIdOf`.
