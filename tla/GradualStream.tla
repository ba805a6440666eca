---------------------------- MODULE GradualStream ----------------------------
(***************************************************************************)
(* One GetGradualDifficulty or GetGradualPerformance call (src/server/     *)
(* grpc.rs): the handler makes a bounded channel, hands its sending end to *)
(* a blocking task and returns the receiving end as the response stream at *)
(* once, before the beatmap is loaded. The blocking task computes one      *)
(* response per hit object (the iterators at the end of src/service/       *)
(* calculator.rs) and blocks in blocking_send when the channel is full.    *)
(* The client, through tonic and HTTP/2 flow control, takes responses at   *)
(* its own pace, stops taking them, or hangs up.                           *)
(*                                                                         *)
(* Values: a response is its object_index and the score it is computed     *)
(* for (n_geki, n300 and max_combo of it; the other judgements are carried *)
(* along unchanged). Loading the beatmap is BeatmapLoader's: here it is    *)
(* `loads`, whether it succeeds, and `total`, the objects that rosu-pp     *)
(* iterates over.                                                          *)
(***************************************************************************)
EXTENDS Integers, Sequences

CONSTANTS
    CHANNEL_CAPACITY,   \* mpsc::channel(128)
    U32,                \* 2^32: u32 additions wrap in a release build
    MaxObjects,         \* bound on the objects of a beatmap
    Mode,
    InitialScore,       \* the scores a performance request can start from
    LoadError           \* the item Err(status)

U32Value == 0 .. U32 - 1

Score == [n_geki : U32Value, n300 : U32Value, max_combo : U32Value]

ASSUME StreamAssumption ==
    /\ CHANNEL_CAPACITY \in Nat \ {0}
    /\ U32 \in Nat \ {0}
    /\ MaxObjects \in Nat
    /\ MaxObjects < U32
    /\ InitialScore \subseteq Score

NewScore == [n_geki |-> 0, n300 |-> 0, max_combo |-> 0]

Call ==
    [method : {"difficulty"}, mode : Mode, loads : BOOLEAN, total : 0 .. MaxObjects,
     score : {NewScore}]
    \cup
    [method : {"performance"}, mode : Mode, loads : BOOLEAN, total : 0 .. MaxObjects,
     score : InitialScore]

Response == [object_index : U32Value, score : Score]

ASSUME ErrorAssumption == LoadError \notin Response

VARIABLES
    call,       \* the request; never changes
    pc,         \* the blocking task
    index,      \* `index` of both iterators: the next object
    score,      \* `state` of GradualPerformanceCalc
    pending,    \* the item being sent
    channel,
    received,   \* the responses the client got
    ended,      \* how the stream ended for the client
    wasted      \* history: responses computed after the client hung up

iteratorVars == <<index, score>>
streamVars == <<call, pc, index, score, pending, channel, received, ended, wasted>>

Item == Response \cup {LoadError}

StreamInit ==
    /\ call \in Call
    /\ pc = "queued"
    /\ index = 0
    /\ score = call.score
    /\ pending = LoadError
    /\ channel = <<>>
    /\ received = <<>>
    /\ ended = "open"
    /\ wasted = 0

Plus1(n) == (n + 1) % U32

-----------------------------------------------------------------------------
(***************************************************************************)
(* The blocking task.                                                      *)
(***************************************************************************)

(* A pool thread takes the task, loads the beatmap, builds the iterator. It
   does so even if the client is gone. *)
StartLoaded ==
    /\ pc = "queued"
    /\ call.loads
    /\ pc' = "computing"
    /\ UNCHANGED <<call, iteratorVars, pending, channel, received, ended, wasted>>

StartFailed ==
    /\ pc = "queued"
    /\ ~call.loads
    /\ pc' = "sending"
    /\ pending' = LoadError
    /\ UNCHANGED <<call, iteratorVars, channel, received, ended, wasted>>

(* GradualPerformanceCalc::next counts the object's judgement before it asks
   rosu-pp for the object, and counts n300 in every mode. *)
Judge(s) == [s EXCEPT !.n300 = Plus1(@), !.max_combo = Plus1(@)]

Judged == IF call.method = "performance" THEN Judge(score) ELSE score

ComputeNext ==
    /\ pc = "computing"
    /\ index < call.total
    /\ pc' = "sending"
    /\ score' = Judged
    /\ pending' = [object_index |-> index, score |-> Judged]
    /\ index' = Plus1(index)
    /\ wasted' = IF ended = "CANCELLED" THEN wasted + 1 ELSE wasted
    /\ UNCHANGED <<call, channel, received, ended>>

FinishKeepingSender ==
    /\ pc = "computing"
    /\ index = call.total
    /\ pc' = "finished"
    /\ score' = Judged
    /\ UNCHANGED <<call, index, pending, channel, received, ended, wasted>>

(* The iterator is exhausted: the loop ends and drops the sender. *)
Finish ==
    /\ pc = "computing"
    /\ index = call.total
    /\ pc' = "done"
    /\ score' = Judged
    /\ UNCHANGED <<call, index, pending, channel, received, ended, wasted>>

(* blocking_send, first half: wait for a free slot. *)
ReserveWithoutRoom ==
    /\ pc = "sending"
    /\ ended = "open"
    /\ pc' = "reserved"
    /\ UNCHANGED <<call, iteratorVars, pending, channel, received, ended, wasted>>

Reserve ==
    /\ pc = "sending"
    /\ ended = "open"
    /\ Len(channel) < CHANNEL_CAPACITY
    /\ pc' = "reserved"
    /\ UNCHANGED <<call, iteratorVars, pending, channel, received, ended, wasted>>

(* Second half: put the item in. It returns Ok even if the receiver was
   dropped in between, and the item is then lost. The task ends after an
   error item, and goes on after a response. *)
Push ==
    /\ pc = "reserved"
    /\ channel' = IF ended = "open" THEN Append(channel, pending) ELSE channel
    /\ pc' = IF pending = LoadError THEN "done" ELSE "computing"
    /\ UNCHANGED <<call, iteratorVars, pending, received, ended, wasted>>

IgnoreSendError ==
    /\ pc = "sending"
    /\ ended # "open"
    /\ pc' = IF pending = LoadError THEN "done" ELSE "computing"
    /\ UNCHANGED <<call, iteratorVars, pending, channel, received, ended, wasted>>

RetrySend ==
    /\ pc = "sending"
    /\ ended # "open"
    /\ UNCHANGED streamVars

(* blocking_send returns Err, which also wakes a sender that waits for a
   slot: the loop breaks. *)
SendFails ==
    /\ pc = "sending"
    /\ ended # "open"
    /\ pc' = "done"
    /\ UNCHANGED <<call, iteratorVars, pending, channel, received, ended, wasted>>

-----------------------------------------------------------------------------
(***************************************************************************)
(* The receiving end: tonic's response body over ReceiverStream.           *)
(***************************************************************************)
DeliverResponse ==
    /\ ended = "open"
    /\ channel # <<>>
    /\ Head(channel) # LoadError
    /\ received' = Append(received, Head(channel))
    /\ channel' = Tail(channel)
    /\ UNCHANGED <<call, pc, iteratorVars, pending, ended, wasted>>

DeliverError ==
    /\ ended = "open"
    /\ channel # <<>>
    /\ Head(channel) = LoadError
    /\ channel' = <<>>
    /\ ended' = "FAILED"
    /\ UNCHANGED <<call, pc, iteratorVars, pending, received, wasted>>

(* recv() returns None: the channel is empty and the sender is gone. *)
EndOfStream ==
    /\ ended = "open"
    /\ channel = <<>>
    /\ pc = "done"
    /\ ended' = "OK"
    /\ UNCHANGED <<call, pc, iteratorVars, pending, channel, received, wasted>>

(* The client hangs up; dropping the receiver drops what is queued. *)
Cancel ==
    /\ ended = "open"
    /\ ended' = "CANCELLED"
    /\ channel' = <<>>
    /\ UNCHANGED <<call, pc, iteratorVars, pending, received, wasted>>

-----------------------------------------------------------------------------
(***************************************************************************)
(* A panic, in this task or in any other.                                  *)
(***************************************************************************)
PanicUnwinds ==
    /\ pc \in {"queued", "computing"}
    /\ pc' = "done"
    /\ UNCHANGED <<call, iteratorVars, pending, channel, received, ended, wasted>>

(* panic = "abort" in the release profile: the process ends, and the client
   loses its connection. *)
Panic ==
    /\ pc # "done" \/ ended = "open"
    /\ pc' = "done"
    /\ channel' = <<>>
    /\ ended' = IF ended = "open" THEN "LOST" ELSE ended
    /\ UNCHANGED <<call, iteratorVars, pending, received, wasted>>

-----------------------------------------------------------------------------

Start == StartLoaded \/ StartFailed

Produce == ComputeNext \/ Finish \/ Reserve \/ Push \/ SendFails

Consume == DeliverResponse \/ DeliverError \/ EndOfStream

(* The task and the stream are both over: the only way to come to rest. *)
Over ==
    /\ pc = "done"
    /\ ended # "open"
    /\ UNCHANGED streamVars

StreamNext == Start \/ Produce \/ Consume \/ Cancel \/ Panic \/ Over

StreamSpec == StreamInit /\ [][StreamNext]_streamVars

(* A task that has a thread keeps it. Nothing is assumed of Start, which
   waits for a free thread of the pool, nor of the client. *)
TaskFairness == WF_streamVars(Produce)

(* A client that keeps reading. *)
ReaderFairness == WF_streamVars(Consume)

FairStreamSpec == StreamSpec /\ TaskFairness

-----------------------------------------------------------------------------

StreamTypeOK ==
    /\ call \in Call
    /\ pc \in {"queued", "computing", "sending", "reserved", "done"}
    /\ index \in 0 .. call.total
    /\ score \in Score
    /\ pending \in Item
    /\ channel \in Seq(Item)
    /\ received \in Seq(Response)
    /\ ended \in {"open", "OK", "FAILED", "CANCELLED", "LOST"}
    /\ wasted \in Nat

(* However far the client lags behind, the task computes at most one response
   more than the channel holds before it blocks (grpc.rs:201 and 239: the
   capacity is the only limit on what a slow reader costs in memory). *)
BoundedAhead ==
    ended = "open" => index - Len(received) <= CHANNEL_CAPACITY + 1

(* Once the client has hung up, the task computes at most one more response
   before it notices, wherever in its loop it was (grpc.rs:211-214). *)
AtMostOneWasted == wasted <= 1

(* The k-th response of a call, in closed form: what the counters of the
   iterators, incremented one object at a time, must add up to. *)
After(s, k) ==
    [s EXCEPT !.n300 = (@ + k) % U32, !.max_combo = (@ + k) % U32]

ExpectedResponse(c, k) ==
    [object_index |-> k - 1,
     score |-> IF c.method = "performance" THEN After(c.score, k) ELSE c.score]

Contract == INSTANCE StreamContract WITH Response <- ExpectedResponse

(* Through the task, the channel and the cancellation race, the client sees
   what StreamContract promises: every response in order, OK only at the
   end, an error alone. It needs panics to abort: one that unwinds drops the
   sender, and the client takes what it has for all (grpc.rs:205-227). *)
StreamKeepsContract == Contract!Safety

(* A task whose client is gone gives its thread back, even if it is blocked
   on a full channel that nobody will ever read (grpc.rs:211, 249). *)
ThreadReleased == (pc # "queued" /\ ended # "open") ~> (pc = "done")

(* A client that keeps reading sees the stream end once the task has started:
   nobody waits for the other across the channel. *)
StreamEnds == ReaderFairness => ((pc # "queued") ~> (ended # "open"))

(* "Uses n300 for osu!/taiko and n_geki for mania as the max judgement"
   (calculator.rs:207). *)
ManiaCountsGeki ==
    \A i \in DOMAIN received :
        call.method = "performance" /\ call.mode = "mania" =>
            received[i].score.n_geki = (call.score.n_geki + i) % U32

=============================================================================
