------------------------------- MODULE Service -------------------------------
(***************************************************************************)
(* The life of the process and of the calls it serves: the handlers of     *)
(* src/server/grpc.rs over tokio's pool of blocking threads, the start and *)
(* graceful shutdown of src/main.rs, and crashes, after which the          *)
(* container is restarted (compose.yml: unless-stopped).                   *)
(*                                                                         *)
(* Each call spawns one blocking task. The handler of a unary call awaits  *)
(* the task and answers with its result; what the task computes is the     *)
(* subject of BeatmapLoader. The handler of a stream returns at once; its  *)
(* task keeps its thread until it has sent every response or sees that the *)
(* client is gone. What it does between two sends is the subject of        *)
(* GradualStream; here its k-th response is the number k. A call that its  *)
(* client abandons is dropped by the server, but its task is not: it still *)
(* waits for a thread and runs.                                            *)
(***************************************************************************)
EXTENDS Integers, Sequences, SequencesExt, FiniteSets

CONSTANTS
    Unary,      \* calls of the six unary methods
    Stream,     \* calls of the two gradual methods
    Total,      \* the responses of each stream
    CHANNEL_CAPACITY,   \* 128
    THREADS     \* max_blocking_threads: 512 unless configured, and it is not

Call == Unary \cup Stream

ASSUME ServiceAssumption ==
    /\ Unary \cap Stream = {}
    /\ Total \in [Stream -> Nat]
    /\ CHANNEL_CAPACITY \in Nat \ {0}
    /\ THREADS \in Nat \ {0}

VARIABLES
    server,     \* the process
    call,       \* each call as its client sees it
    queue,      \* the blocking tasks that wait for a thread, oldest first
    running,    \* the blocking tasks that have one
    sent,       \* the responses of each stream that its task has put in the channel
    received    \* and those of them that its client has read

streamVars == <<sent, received>>

serviceVars == <<server, call, queue, running, sent, received>>

Open == {c \in Call : call[c] = "open"}

Tasks == ToSet(queue) \cup running

ServiceInit ==
    /\ server = "up"
    /\ call = [c \in Call |-> "idle"]
    /\ queue = <<>>
    /\ running = {}
    /\ sent = [c \in Stream |-> 0]
    /\ received = [c \in Stream |-> 0]

-----------------------------------------------------------------------------
(***************************************************************************)
(* Calls.                                                                  *)
(***************************************************************************)

(* The handler runs and spawns the task. A process that is shutting down
   accepts no connection, but a call on one it has may still arrive before
   the client learns of it. *)
Receive(c) ==
    /\ server \in {"up", "draining"}
    /\ call[c] = "idle"
    /\ call' = [call EXCEPT ![c] = "open"]
    /\ queue' = Append(queue, c)
    /\ UNCHANGED <<server, running, streamVars>>

(* The client hangs up or its deadline passes: the handler, or the response
   stream, is dropped. *)
HangUp(c) ==
    /\ call[c] = "open"
    /\ call' = [call EXCEPT ![c] = "cancelled"]
    /\ UNCHANGED <<server, queue, running, streamVars>>

(* A thread of the pool takes the oldest task. *)
Take ==
    /\ server \in {"up", "draining"}
    /\ queue # <<>>
    /\ Cardinality(running) < THREADS
    /\ running' = running \cup {Head(queue)}
    /\ queue' = Tail(queue)
    /\ UNCHANGED <<server, call, streamVars>>

(* A handler that waits for its task no longer than a deadline. *)
AnswerAtDeadline(c) ==
    /\ c \in running \cap Unary
    /\ running' \in {running, running \ {c}}
    /\ call' = [call EXCEPT ![c] = IF @ = "open" THEN "answered" ELSE @]
    /\ UNCHANGED <<server, queue, streamVars>>

(* The task of a unary call returns; the handler, if it is still there,
   answers, with a response or with the status of the error. *)
FinishUnary(c) ==
    /\ c \in running \cap Unary
    /\ running' = running \ {c}
    /\ call' = [call EXCEPT ![c] = IF @ = "open" THEN "answered" ELSE @]
    /\ UNCHANGED <<server, queue, streamVars>>

(* An unbounded channel. *)
SendUnbounded(c) ==
    /\ c \in Open \cap running \cap Stream
    /\ sent[c] < Total[c]
    /\ sent' = [sent EXCEPT ![c] = @ + 1]
    /\ UNCHANGED <<server, call, queue, running, received>>

(* The task of a stream puts its next response into the channel. *)
Send(c) ==
    /\ c \in Open \cap running \cap Stream
    /\ sent[c] < Total[c]
    /\ sent[c] - received[c] < CHANNEL_CAPACITY
    /\ sent' = [sent EXCEPT ![c] = @ + 1]
    /\ UNCHANGED <<server, call, queue, running, received>>

IgnoreHangUp(c) ==
    /\ c \in running \cap Stream
    /\ sent[c] = Total[c]
    /\ running' = running \ {c}
    /\ UNCHANGED <<server, call, queue, streamVars>>

(* It has sent its last, or sees that the client is gone. *)
FinishStream(c) ==
    /\ c \in running \cap Stream
    /\ sent[c] = Total[c] \/ call[c] # "open"
    /\ running' = running \ {c}
    /\ UNCHANGED <<server, call, queue, streamVars>>

(* The client of a stream reads a response from the channel. *)
ReadOn(c) ==
    /\ c \in Open \cap Stream
    /\ received[c] < sent[c]
    /\ received' = [received EXCEPT ![c] = @ + 1]
    /\ UNCHANGED <<server, call, queue, running, sent>>

(* The stream ends once the channel is empty and its sender gone with the
   task, whichever way the task went. *)
EndStream(c) ==
    /\ c \in Open \cap Stream
    /\ c \notin Tasks
    /\ received[c] = sent[c]
    /\ call' = [call EXCEPT ![c] = "answered"]
    /\ UNCHANGED <<server, queue, running, streamVars>>

-----------------------------------------------------------------------------
(***************************************************************************)
(* The process.                                                            *)
(***************************************************************************)

(* SIGINT or SIGTERM: shutdown_signal completes. *)
Signal ==
    /\ server = "up"
    /\ server' = "draining"
    /\ UNCHANGED <<call, queue, running, streamVars>>

DrainUnaryOnly ==
    /\ server = "draining"
    /\ Open \cap Unary = {}
    /\ server' = "stopping"
    /\ queue' = <<>>
    /\ UNCHANGED <<call, running, streamVars>>

(* axum::serve returns once every connection has finished its calls; main
   returns, and dropping the runtime drops the tasks that have no thread. *)
Drain ==
    /\ server = "draining"
    /\ Open = {}
    /\ server' = "stopping"
    /\ queue' = <<>>
    /\ UNCHANGED <<call, running, streamVars>>

(* The runtime waits for the tasks that have one. *)
Exit ==
    /\ server = "stopping"
    /\ running = {}
    /\ server' = "stopped"
    /\ UNCHANGED <<call, queue, running, streamVars>>

(* A panic in any task, which a release build turns into an abort of the
   process, or a kill from outside (the container's memory limit, the end of
   the grace period of a stop): every call in flight is lost. *)
Crash ==
    /\ server \in {"up", "draining", "stopping"}
    /\ server' = "crashed"
    /\ call' = [c \in Call |-> IF call[c] = "open" THEN "lost" ELSE call[c]]
    /\ queue' = <<>>
    /\ running' = {}
    /\ UNCHANGED streamVars

Restart ==
    /\ server = "crashed"
    /\ server' = "up"
    /\ UNCHANGED <<call, queue, running, streamVars>>

-----------------------------------------------------------------------------

(* The process has stopped for good: the only way to come to rest. *)
Rest ==
    /\ server = "stopped"
    /\ UNCHANGED serviceVars

Work(c) == FinishUnary(c) \/ Send(c) \/ FinishStream(c)

Client(c) == Receive(c) \/ HangUp(c) \/ ReadOn(c) \/ EndStream(c)

Process == Signal \/ Drain \/ Exit \/ Crash \/ Restart

ServiceNext ==
    \/ \E c \in Call : Client(c) \/ Work(c)
    \/ Take
    \/ Process
    \/ Rest

ServiceSpec == ServiceInit /\ [][ServiceNext]_serviceVars

(* A thread that is free takes a task, and a task that can end does: its
   computation is finite. The shutdown goes on when it can. *)
PoolFairness ==
    /\ WF_serviceVars(Take)
    /\ \A c \in Call : WF_serviceVars(Work(c))
    /\ WF_serviceVars(Drain)
    /\ WF_serviceVars(Exit)

FairServiceSpec == ServiceSpec /\ PoolFairness

(* Clients of streams that do not stall: they read on, and to the end. *)
ReaderFairness ==
    \A c \in Stream : WF_serviceVars(ReadOn(c)) /\ WF_serviceVars(EndStream(c))

(* A stream that stalls is cut off in the end (nginx.conf.example: after
   300 s), except for those in `stalled`. *)
TimeoutFairness(stalled) == \A c \in Stream \ stalled : WF_serviceVars(HangUp(c))

-----------------------------------------------------------------------------

ServiceTypeOK ==
    /\ server \in {"up", "draining", "stopping", "stopped", "crashed"}
    /\ call \in [Call -> {"idle", "open", "answered", "cancelled", "lost"}]
    /\ queue \in Seq(Call)
    /\ running \in SUBSET Call
    /\ sent \in [Stream -> Nat]
    /\ received \in [Stream -> Nat]
    /\ \A c \in Stream :
          /\ received[c] <= sent[c]
          /\ sent[c] <= Total[c]
          /\ sent[c] - received[c] <= CHANNEL_CAPACITY

(* A unary call is open exactly as long as its one task is in the pool, or
   its client has left: an answer is never late nor missing, and the task of
   a call is never there twice (grpc.rs:45-54 and its five siblings). *)
OneTaskPerCall ==
    /\ \A i, j \in DOMAIN queue : queue[i] = queue[j] => i = j
    /\ ToSet(queue) \cap running = {}
    /\ Open \cap Unary \subseteq Tasks
    /\ \A c \in Tasks : call[c] \in {"open", "cancelled"}

(* What a shutdown drops, and what it leaves running while the process goes
   away, belongs to calls that their clients abandoned: only a crash loses a
   call (main.rs:50-52). *)
ShutdownLosesNoCall ==
    server \in {"stopping", "stopped"} =>
        /\ Open = {}
        /\ \A c \in running : call[c] = "cancelled"

(* Every unary call gets its answer, even if streams hold every thread of the
   pool that all methods share and even if some of them stall for ever, as
   long as those are fewer than the threads (grpc.rs:44-54). *)
UnaryAnswered ==
    \A stalled \in SUBSET Stream :
        Cardinality(stalled) < THREADS /\ TimeoutFairness(stalled) =>
            \A c \in Unary : (call[c] = "open") ~> (call[c] # "open")

(* If the clients of streams read on, a shutdown that has begun comes to an
   end (main.rs:50-55). *)
ShutdownCompletes ==
    ReaderFairness => ((server = "draining") ~> (server \in {"stopped", "crashed"}))

(* What GradualStream shows of one stream alone still holds among the others:
   whoever waits for a thread, is cut off, drained or crashed, a stream that
   its client sees end is complete. In particular the tasks that a shutdown
   drops in the queue, whose streams would end empty and with OK, are those
   of clients that have left. *)
EndedAs == [idle |-> "open", open |-> "open", answered |-> "OK",
            cancelled |-> "CANCELLED", lost |-> "LOST"]

CallOf(c) == [loads |-> TRUE, total |-> Total[c]]

Numbered(c, k) == k

Contract(s) == INSTANCE StreamContract WITH
    Call <- {CallOf(s)}, Response <- Numbered,
    call <- CallOf(s), received <- [k \in 1 .. received[s] |-> k], ended <- EndedAs[call[s]]

EachStreamKeepsContract ==
    /\ \A s \in Stream : Contract(s)!Init
    /\ [][\A s \in Stream : [Contract(s)!Next]_(Contract(s)!contractVars)]_serviceVars

=============================================================================
