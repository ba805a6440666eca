---------------------------- MODULE ServiceProofs ----------------------------
(***************************************************************************)
(* Theorems about Service, for every set of calls, every number of threads *)
(* and streams of every length through channels of every capacity.         *)
(***************************************************************************)
EXTENDS Service, SequenceTheorems, TLAPS

(* A stream that is open and has no task any more has sent everything. *)
StreamsInv == \A c \in Open \cap Stream : c \notin Tasks => sent[c] = Total[c]

ServiceInv ==
    /\ ServiceTypeOK
    /\ OneTaskPerCall
    /\ ShutdownLosesNoCall
    /\ StreamsInv

-----------------------------------------------------------------------------
(***************************************************************************)
(* The queue as a set of tasks.                                            *)
(***************************************************************************)
Distinct(q) == \A i, j \in DOMAIN q : q[i] = q[j] => i = j

LEMMA EmptyQueue == ToSet(<<>>) = {} /\ Distinct(<<>>)
  BY DEF ToSet, Distinct

LEMMA AppendTask ==
    ASSUME NEW c \in Call, NEW q \in Seq(Call), Distinct(q), c \notin ToSet(q)
    PROVE  /\ Append(q, c) \in Seq(Call)
           /\ Distinct(Append(q, c))
           /\ ToSet(Append(q, c)) = ToSet(q) \cup {c}
<1> DEFINE n == Len(q)
           t == Append(q, c)
<1>1. /\ n \in Nat
      /\ DOMAIN q = 1 .. n
      /\ t \in Seq(Call)
      /\ DOMAIN t = 1 .. n + 1
      /\ t[n + 1] = c
      /\ \A i \in 1 .. n : t[i] = q[i]
  BY AppendProperties, LenProperties
<1> HIDE DEF n, t
<1>2. \A i \in 1 .. n : t[i] # c
  BY <1>1 DEF ToSet
<1>3. Distinct(t)
  BY <1>1, <1>2 DEF Distinct
<1>4. ToSet(t) = ToSet(q) \cup {c}
  BY <1>1 DEF ToSet
<1> QED
  BY <1>1, <1>3, <1>4 DEF t

LEMMA TakeTask ==
    ASSUME NEW q \in Seq(Call), Distinct(q), q # <<>>
    PROVE  /\ Head(q) \in Call
           /\ Tail(q) \in Seq(Call)
           /\ Distinct(Tail(q))
           /\ ToSet(q) = ToSet(Tail(q)) \cup {Head(q)}
           /\ Head(q) \notin ToSet(Tail(q))
<1> DEFINE n == Len(q)
           t == Tail(q)
           h == Head(q)
<1>1. /\ n \in Nat
      /\ n >= 1
      /\ DOMAIN q = 1 .. n
      /\ h = q[1]
      /\ h \in Call
      /\ t \in Seq(Call)
      /\ DOMAIN t = 1 .. n - 1
      /\ \A i \in 1 .. n - 1 : t[i] = q[i + 1]
  BY HeadTailProperties, LenProperties, EmptySeq
<1> HIDE DEF n, t, h
<1>2. Distinct(t)
  <2> SUFFICES ASSUME NEW i \in 1 .. n - 1, NEW j \in 1 .. n - 1, t[i] = t[j]
               PROVE  i = j
    BY <1>1 DEF Distinct
  <2>1. /\ i + 1 \in 1 .. n
        /\ j + 1 \in 1 .. n
        /\ q[i + 1] = q[j + 1]
    BY <1>1
  <2>2. i + 1 = j + 1
    BY <1>1, <2>1 DEF Distinct
  <2> QED
    BY <2>2
<1>3. h \notin ToSet(t)
  BY <1>1 DEF ToSet, Distinct
<1>4. ToSet(q) = ToSet(t) \cup {h}
  <2>1. \A i \in 1 .. n : q[i] = h \/ q[i] \in ToSet(t)
    <3> SUFFICES ASSUME NEW i \in 1 .. n, i # 1 PROVE q[i] \in ToSet(t)
      BY <1>1
    <3>1. i - 1 \in 1 .. n - 1 /\ t[i - 1] = q[i]
      BY <1>1
    <3> QED
      BY <1>1, <3>1 DEF ToSet
  <2>2. \A i \in 1 .. n - 1 : t[i] \in ToSet(q)
    BY <1>1 DEF ToSet
  <2>3. h \in ToSet(q)
    BY <1>1 DEF ToSet
  <2>4. \A x \in ToSet(q) : x = h \/ x \in ToSet(t)
    BY <1>1, <2>1 DEF ToSet
  <2>5. \A x \in ToSet(t) : x \in ToSet(q)
    BY <1>1, <2>2 DEF ToSet
  <2> QED
    BY <2>3, <2>4, <2>5
<1> QED
  BY <1>1, <1>2, <1>3, <1>4 DEF t, h

-----------------------------------------------------------------------------
(***************************************************************************)
(* The invariant, action by action.                                        *)
(***************************************************************************)
LEMMA TypeFacts ==
    ASSUME ServiceInv
    PROVE  /\ server \in {"up", "draining", "stopping", "stopped", "crashed"}
           /\ call \in [Call -> {"idle", "open", "answered", "cancelled", "lost"}]
           /\ queue \in Seq(Call)
           /\ running \in SUBSET Call
           /\ sent \in [Stream -> Nat]
           /\ received \in [Stream -> Nat]
           /\ Distinct(queue)
           /\ ToSet(queue) \subseteq Call
           /\ Tasks \subseteq Call
<1>1. ToSet(queue) \subseteq Call
  BY ElementOfSeq, LenProperties DEF ServiceInv, ServiceTypeOK, ToSet
<1> QED
  BY <1>1 DEF ServiceInv, ServiceTypeOK, OneTaskPerCall, Distinct, Tasks

LEMMA InitInv == ServiceInit => ServiceInv
<1> SUFFICES ASSUME ServiceInit PROVE ServiceInv
  OBVIOUS
<1> USE DEF ServiceInit
<1>1. ServiceTypeOK
  BY ServiceAssumption, EmptySeq DEF ServiceTypeOK
<1>2. Open = {} /\ Tasks = {}
  BY EmptyQueue DEF Open, Tasks
<1>3. OneTaskPerCall /\ ShutdownLosesNoCall /\ StreamsInv
  BY <1>2, EmptyQueue DEF OneTaskPerCall, ShutdownLosesNoCall, StreamsInv, Distinct
<1> QED
  BY <1>1, <1>3 DEF ServiceInv

(* A new call has one task, at the end of the queue. *)
LEMMA ReceiveInv ==
    ASSUME ServiceInv, NEW c \in Call, Receive(c)
    PROVE  ServiceInv'
<1> USE DEF Receive, streamVars
<1>1. c \notin Tasks
  BY DEF ServiceInv, OneTaskPerCall
<1>2. /\ queue' \in Seq(Call)
      /\ Distinct(queue')
      /\ ToSet(queue') = ToSet(queue) \cup {c}
  BY <1>1, TypeFacts, AppendTask DEF Tasks
<1>3. /\ Tasks' = Tasks \cup {c}
      /\ Open' = Open \cup {c}
      /\ call' = [call EXCEPT ![c] = "open"]
  BY <1>2, TypeFacts DEF Tasks, Open
<1>4. ServiceTypeOK'
  BY <1>2, TypeFacts DEF ServiceInv, ServiceTypeOK
<1>5. OneTaskPerCall'
  BY <1>1, <1>2, <1>3, TypeFacts DEF ServiceInv, OneTaskPerCall, Distinct, Tasks
<1>6. ShutdownLosesNoCall' /\ StreamsInv'
  BY <1>3 DEF ServiceInv, ShutdownLosesNoCall, StreamsInv
<1> QED
  BY <1>4, <1>5, <1>6 DEF ServiceInv

(* What a client does to its own call: the tasks stay. *)
LEMMA ClientInv ==
    ASSUME ServiceInv, NEW c \in Call, HangUp(c) \/ ReadOn(c) \/ EndStream(c)
    PROVE  ServiceInv'
<1>1. CASE HangUp(c) \/ EndStream(c)
  <2> USE DEF HangUp, EndStream, streamVars
  <2>1. /\ Tasks' = Tasks
        /\ Open' = Open \ {c}
        /\ c \in Open
        /\ HangUp(c) \/ c \notin Unary
        /\ call'[c] = "cancelled" \/ (c \notin Tasks /\ call'[c] = "answered")
        /\ \A d \in Call \ {c} : call'[d] = call[d]
        /\ UNCHANGED <<server, queue, running, sent, received>>
    BY <1>1, TypeFacts, ServiceAssumption DEF Tasks, Open, Call
  <2>2. ServiceTypeOK'
    BY <1>1, TypeFacts DEF ServiceInv, ServiceTypeOK
  <2>3. OneTaskPerCall' /\ ShutdownLosesNoCall' /\ StreamsInv'
    BY <2>1, TypeFacts DEF ServiceInv, OneTaskPerCall, ShutdownLosesNoCall, StreamsInv
  <2> QED
    BY <2>2, <2>3 DEF ServiceInv
<1>2. CASE ReadOn(c)
  <2> USE DEF ReadOn
  <2>1. ServiceTypeOK'
    <3>1. /\ c \in Stream
          /\ sent[c] \in Nat
          /\ received[c] \in Nat
          /\ Total[c] \in Nat
          /\ CHANNEL_CAPACITY \in Nat
          /\ received[c] < sent[c]
          /\ received' = [received EXCEPT ![c] = received[c] + 1]
      BY <1>2, TypeFacts, ServiceAssumption
    <3>2. /\ received'[c] = received[c] + 1
          /\ \A d \in Stream \ {c} : received'[d] = received[d]
          /\ received' \in [Stream -> Nat]
          /\ UNCHANGED <<server, call, queue, running, sent>>
      BY <1>2, <3>1, TypeFacts
    <3>3. sent[c] - received[c] <= CHANNEL_CAPACITY
      BY <3>1 DEF ServiceInv, ServiceTypeOK
    <3>4. received'[c] <= sent[c] /\ sent[c] - received'[c] <= CHANNEL_CAPACITY
      BY <3>1, <3>2, <3>3
    <3> QED
      BY <3>2, <3>4 DEF ServiceInv, ServiceTypeOK
  <2>2. OneTaskPerCall' /\ ShutdownLosesNoCall' /\ StreamsInv'
    BY <1>2, TypeFacts
       DEF ServiceInv, OneTaskPerCall, ShutdownLosesNoCall, StreamsInv, Open, Tasks
  <2> QED
    BY <2>1, <2>2 DEF ServiceInv
<1> QED
  BY <1>1, <1>2

(* A task moves from the queue to a thread. *)
LEMMA TakeInv ==
    ASSUME ServiceInv, Take
    PROVE  ServiceInv'
<1> USE DEF Take, streamVars
<1> DEFINE h == Head(queue)
<1>1. /\ h \in Call
      /\ queue' \in Seq(Call)
      /\ Distinct(queue')
      /\ ToSet(queue) = ToSet(queue') \cup {h}
      /\ h \notin ToSet(queue')
      /\ running' = running \cup {h}
  BY TypeFacts, TakeTask
<1> HIDE DEF h
<1>2. /\ Tasks' = Tasks
      /\ Open' = Open
      /\ UNCHANGED <<server, call, sent, received>>
  BY <1>1 DEF Tasks, Open
<1>3. ServiceTypeOK'
  BY <1>1, <1>2, TypeFacts DEF ServiceInv, ServiceTypeOK
<1>4. OneTaskPerCall'
  BY <1>1, <1>2 DEF ServiceInv, OneTaskPerCall, Distinct
<1>5. ShutdownLosesNoCall' /\ StreamsInv'
  BY <1>2 DEF ServiceInv, ShutdownLosesNoCall, StreamsInv
<1> QED
  BY <1>3, <1>4, <1>5 DEF ServiceInv

(* A task leaves its thread: that of a unary call with the answer, that of a
   stream after the last response or without a client. *)
LEMMA WorkInv ==
    ASSUME ServiceInv, NEW c \in Call, Work(c)
    PROVE  ServiceInv'
<1>1. CASE FinishUnary(c)
  <2> USE DEF FinishUnary, streamVars
  <2>1. /\ c \in Unary
        /\ c \notin Stream
        /\ c \notin ToSet(queue)
        /\ Tasks' = Tasks \ {c}
        /\ Open' = Open \ {c}
        /\ \A d \in Call \ {c} : call'[d] = call[d]
        /\ running' = running \ {c}
        /\ UNCHANGED <<server, queue, sent, received>>
    BY <1>1, TypeFacts, ServiceAssumption DEF ServiceInv, OneTaskPerCall, Tasks, Open
  <2>2. ServiceTypeOK'
    BY <1>1, TypeFacts DEF ServiceInv, ServiceTypeOK
  <2>3. OneTaskPerCall' /\ ShutdownLosesNoCall' /\ StreamsInv'
    BY <2>1, TypeFacts DEF ServiceInv, OneTaskPerCall, ShutdownLosesNoCall, StreamsInv
  <2> QED
    BY <2>2, <2>3 DEF ServiceInv
<1>2. CASE FinishStream(c)
  <2> USE DEF FinishStream, streamVars
  <2>1. /\ c \in Stream
        /\ c \notin Unary
        /\ c \notin ToSet(queue)
        /\ Tasks' = Tasks \ {c}
        /\ Open' = Open
        /\ running' = running \ {c}
        /\ c \in Open => sent[c] = Total[c]
        /\ UNCHANGED <<server, call, queue, sent, received>>
    BY <1>2, TypeFacts, ServiceAssumption DEF ServiceInv, OneTaskPerCall, Tasks, Open
  <2>2. ServiceTypeOK'
    BY <1>2, TypeFacts DEF ServiceInv, ServiceTypeOK
  <2>3. OneTaskPerCall' /\ ShutdownLosesNoCall' /\ StreamsInv'
    BY <2>1, TypeFacts DEF ServiceInv, OneTaskPerCall, ShutdownLosesNoCall, StreamsInv
  <2> QED
    BY <2>2, <2>3 DEF ServiceInv
<1>3. CASE Send(c)
  <2> USE DEF Send
  <2>1. /\ c \in Stream
        /\ sent[c] \in Nat
        /\ received[c] \in Nat
        /\ Total[c] \in Nat
        /\ CHANNEL_CAPACITY \in Nat
        /\ sent[c] < Total[c]
        /\ sent[c] - received[c] < CHANNEL_CAPACITY
        /\ received[c] <= sent[c]
        /\ sent' = [sent EXCEPT ![c] = sent[c] + 1]
    BY <1>3, TypeFacts, ServiceAssumption DEF ServiceInv, ServiceTypeOK
  <2>2. /\ sent'[c] = sent[c] + 1
        /\ \A d \in Stream \ {c} : sent'[d] = sent[d]
        /\ sent' \in [Stream -> Nat]
        /\ UNCHANGED <<server, call, queue, running, received>>
    BY <1>3, <2>1, TypeFacts
  <2>3. /\ received[c] <= sent'[c]
        /\ sent'[c] <= Total[c]
        /\ sent'[c] - received[c] <= CHANNEL_CAPACITY
    BY <2>1, <2>2
  <2>4. ServiceTypeOK'
    BY <2>2, <2>3 DEF ServiceInv, ServiceTypeOK
  <2>5. /\ Tasks' = Tasks
        /\ Open' = Open
        /\ c \in Tasks
    BY <1>3, <2>2 DEF Tasks, Open
  <2>6. OneTaskPerCall' /\ ShutdownLosesNoCall' /\ StreamsInv'
    BY <2>2, <2>5 DEF ServiceInv, OneTaskPerCall, ShutdownLosesNoCall, StreamsInv
  <2> QED
    BY <2>4, <2>6 DEF ServiceInv
<1> QED
  BY <1>1, <1>2, <1>3 DEF Work

(* Draining ends with no open call, so that what is dropped then is only what
   was abandoned; a crash leaves no call open. *)
LEMMA ProcessInv ==
    ASSUME ServiceInv, Process
    PROVE  ServiceInv'
<1> USE DEF streamVars
<1>1. CASE Signal \/ Exit \/ Restart
  <2> USE DEF Signal, Exit, Restart
  <2>1. /\ Tasks' = Tasks
        /\ Open' = Open
        /\ server' \in {"up", "draining", "stopped"}
        /\ server' = "stopped" => server = "stopping"
        /\ UNCHANGED <<call, queue, running, sent, received>>
    BY <1>1 DEF Tasks, Open
  <2>2. ServiceTypeOK'
    BY <2>1 DEF ServiceInv, ServiceTypeOK
  <2>3. OneTaskPerCall' /\ ShutdownLosesNoCall' /\ StreamsInv'
    BY <2>1 DEF ServiceInv, OneTaskPerCall, ShutdownLosesNoCall, StreamsInv
  <2> QED
    BY <2>2, <2>3 DEF ServiceInv
<1>2. CASE Drain
  <2> USE DEF Drain
  <2>1. /\ Tasks' = running
        /\ Open' = {}
        /\ queue' = <<>>
        /\ server' = "stopping"
        /\ UNCHANGED <<call, running, sent, received>>
    BY <1>2, EmptyQueue DEF Tasks, Open
  <2>2. \A c \in running : call[c] = "cancelled"
    BY <1>2, TypeFacts DEF ServiceInv, OneTaskPerCall, Tasks, Open
  <2>3. ServiceTypeOK'
    BY <2>1, EmptySeq DEF ServiceInv, ServiceTypeOK
  <2>4. OneTaskPerCall' /\ ShutdownLosesNoCall' /\ StreamsInv'
    BY <2>1, <2>2, EmptyQueue
       DEF OneTaskPerCall, ShutdownLosesNoCall, StreamsInv, Distinct
  <2> QED
    BY <2>3, <2>4 DEF ServiceInv
<1>3. CASE Crash
  <2> USE DEF Crash
  <2>1. /\ Tasks' = {}
        /\ Open' = {}
        /\ queue' = <<>>
        /\ running' = {}
        /\ server' = "crashed"
        /\ UNCHANGED <<sent, received>>
    BY <1>3, TypeFacts, EmptyQueue DEF Tasks, Open
  <2>2. call' \in [Call -> {"idle", "open", "answered", "cancelled", "lost"}]
    BY <1>3, TypeFacts
  <2>3. ServiceTypeOK'
    BY <2>1, <2>2, EmptySeq DEF ServiceInv, ServiceTypeOK
  <2>4. OneTaskPerCall' /\ ShutdownLosesNoCall' /\ StreamsInv'
    BY <2>1, EmptyQueue DEF OneTaskPerCall, ShutdownLosesNoCall, StreamsInv, Distinct
  <2> QED
    BY <2>3, <2>4 DEF ServiceInv
<1> QED
  BY <1>1, <1>2, <1>3 DEF Process

LEMMA StutterInv ==
    ASSUME ServiceInv, UNCHANGED serviceVars
    PROVE  ServiceInv'
<1>1. Tasks' = Tasks /\ Open' = Open
  BY DEF serviceVars, Tasks, Open
<1>2. ServiceTypeOK'
  BY DEF serviceVars, ServiceInv, ServiceTypeOK
<1>3. OneTaskPerCall' /\ ShutdownLosesNoCall' /\ StreamsInv'
  BY <1>1
     DEF serviceVars, ServiceInv, OneTaskPerCall, ShutdownLosesNoCall, StreamsInv
<1> QED
  BY <1>2, <1>3 DEF ServiceInv

(* However many calls, streams and threads there are, calls, tasks and
   channels fit together at every moment, through hang-ups, shutdowns and
   crashes (grpc.rs:44-265, main.rs:24-60). *)
THEOREM ServiceInvariant == ServiceSpec => []ServiceInv
<1>1. ServiceInv /\ [ServiceNext]_serviceVars => ServiceInv'
  BY ReceiveInv, ClientInv, TakeInv, WorkInv, ProcessInv, StutterInv
     DEF ServiceNext, Client, Rest
<1> QED
  BY <1>1, InitInv, PTL DEF ServiceSpec

-----------------------------------------------------------------------------
(***************************************************************************)
(* What the invariant is for.                                              *)
(***************************************************************************)

(* The state of the process keeps its types; among them, that no channel is
   ever fuller than its capacity. *)
THEOREM ServiceTypeCorrect == ServiceSpec => []ServiceTypeOK
BY ServiceInvariant, PTL DEF ServiceInv

(* However calls, cancellations, shutdowns and crashes interleave, an open
   unary call has its one task and no task is in the pool twice. *)
THEOREM TasksMatchCalls == ServiceSpec => []OneTaskPerCall
BY ServiceInvariant, PTL DEF ServiceInv

(* A graceful shutdown drops only what its clients have abandoned. *)
THEOREM ShutdownIsGraceful == ServiceSpec => []ShutdownLosesNoCall
BY ServiceInvariant, PTL DEF ServiceInv

(* What StreamContract sees of a stream moves with its call and its reads. *)
LEMMA StreamStep ==
    ASSUME ServiceInv, ServiceNext, NEW s \in Stream
    PROVE  [Contract(s)!Next]_(Contract(s)!contractVars)
<1> USE DEF Contract!contractVars, CallOf, Numbered, streamVars
<1>1. /\ s \in Call
      /\ Total[s] \in Nat
      /\ received[s] \in Nat
      /\ received[s] <= sent[s]
      /\ sent[s] <= Total[s]
      /\ sent[s] \in Nat
      /\ call \in [Call -> {"idle", "open", "answered", "cancelled", "lost"}]
  BY TypeFacts, ServiceAssumption DEF ServiceInv, ServiceTypeOK, Call
<1>2. ASSUME NEW c \in Call, HangUp(c)
      PROVE  [Contract(s)!Next]_(Contract(s)!contractVars)
  <2>1. CASE c = s
    <3>1. EndedAs[call[s]] = "open" /\ EndedAs[call'[s]] = "CANCELLED"
      BY <1>1, <1>2, <2>1 DEF HangUp, EndedAs
    <3>2. Contract(s)!HangUp
      BY <1>2, <3>1 DEF HangUp, Contract!HangUp, Contract!EndWith
    <3> QED
      BY <3>2 DEF Contract!Next
  <2>2. CASE c # s
    BY <1>1, <1>2, <2>2 DEF HangUp
  <2> QED
    BY <2>1, <2>2
<1>3. ASSUME NEW c \in Call, EndStream(c)
      PROVE  [Contract(s)!Next]_(Contract(s)!contractVars)
  <2>1. CASE c = s
    <3>1. EndedAs[call[s]] = "open" /\ EndedAs[call'[s]] = "OK"
      BY <1>1, <1>3, <2>1 DEF EndStream, Open, EndedAs
    <3>2. received[s] = Total[s]
      BY <1>3, <2>1 DEF EndStream, ServiceInv, StreamsInv
    <3>3. Len([k \in 1 .. received[s] |-> k]) = Total[s]
      BY <1>1, <3>2
    <3>4. Contract(s)!Complete
      BY <1>3, <3>1, <3>3 DEF EndStream, Contract!Complete, Contract!EndWith
    <3> QED
      BY <3>4 DEF Contract!Next
  <2>2. CASE c # s
    BY <1>1, <1>3, <2>2 DEF EndStream
  <2> QED
    BY <2>1, <2>2
<1>4. ASSUME NEW c \in Call, ReadOn(c)
      PROVE  [Contract(s)!Next]_(Contract(s)!contractVars)
  <2>1. CASE c = s
    <3> DEFINE n == received[s]
               m == received'[s]
               q == [k \in 1 .. n |-> k]
               r == [k \in 1 .. m |-> k]
    <3>1. n \in Nat /\ n < Total[s] /\ m = n + 1
      BY <1>1, <1>4, <2>1, TypeFacts DEF ReadOn
    <3>2. EndedAs[call[s]] = "open" /\ call' = call
      BY <1>4, <2>1 DEF ReadOn, Open, EndedAs
    <3> HIDE DEF n, m
    <3>3. q \in Seq(Nat) /\ Len(q) = n
      BY <3>1
    <3>4. r = Append(q, n + 1)
      BY <3>1, <3>3
    <3>5. Contract(s)!Receive
      BY <3>1, <3>2, <3>3, <3>4 DEF n, m, Contract!Receive
    <3> QED
      BY <3>5 DEF Contract!Next
  <2>2. CASE c # s
    BY <1>1, <1>4, <2>2 DEF ReadOn
  <2> QED
    BY <2>1, <2>2
<1>5. ASSUME NEW c \in Call, Receive(c)
      PROVE  [Contract(s)!Next]_(Contract(s)!contractVars)
  <2>1. EndedAs[call'[s]] = EndedAs[call[s]]
    BY <1>1, <1>5 DEF Receive, EndedAs
  <2> QED
    BY <1>5, <2>1 DEF Receive
<1>6. ASSUME NEW c \in Call, Work(c)
      PROVE  [Contract(s)!Next]_(Contract(s)!contractVars)
  <2>1. CASE FinishUnary(c)
    <3>1. c # s
      BY <2>1, ServiceAssumption DEF FinishUnary
    <3> QED
      BY <1>1, <2>1, <3>1 DEF FinishUnary
  <2>2. CASE Send(c) \/ FinishStream(c)
    BY <2>2 DEF Send, FinishStream
  <2> QED
    BY <1>6, <2>1, <2>2 DEF Work
<1>7. CASE Crash
  <2>1. CASE call[s] = "open"
    <3>1. EndedAs[call[s]] = "open" /\ EndedAs[call'[s]] = "LOST"
      BY <1>1, <1>7, <2>1 DEF Crash, EndedAs
    <3>2. Contract(s)!Lose
      BY <1>7, <3>1 DEF Crash, Contract!Lose, Contract!EndWith
    <3> QED
      BY <3>2 DEF Contract!Next
  <2>2. CASE call[s] # "open"
    BY <1>1, <1>7, <2>2 DEF Crash
  <2> QED
    BY <2>1, <2>2
<1>8. CASE Take \/ Signal \/ Drain \/ Exit \/ Restart \/ Rest
  BY <1>8 DEF Take, Signal, Drain, Exit, Restart, Rest, serviceVars
<1> QED
  BY <1>2, <1>3, <1>4, <1>5, <1>6, <1>7, <1>8 DEF ServiceNext, Client, Process

(* Every stream, among any number of other calls, keeps StreamContract: a
   read is the next response, an end with OK comes after the last one, and a
   shutdown ends no stream of its own (main.rs:50-52, grpc.rs:205-226). *)
THEOREM StreamsImplementContract == ServiceSpec => EachStreamKeepsContract
<1> DEFINE Step(s) == [Contract(s)!Next]_(Contract(s)!contractVars)
<1>1. ServiceInit => \A s \in Stream : Contract(s)!Init
  BY ServiceAssumption DEF ServiceInit, Contract!Init, EndedAs, Call
<1>2. ServiceInv /\ ServiceNext => \A s \in Stream : Step(s)
  BY StreamStep
<1> HIDE DEF Step
<1>3. ServiceInv /\ [ServiceNext]_serviceVars => [\A s \in Stream : Step(s)]_serviceVars
  BY <1>2
<1>4. ServiceSpec => [][\A s \in Stream : Step(s)]_serviceVars
  BY <1>3, ServiceInvariant, PTL DEF ServiceSpec
<1> QED
  BY <1>1, <1>4 DEF ServiceSpec, EachStreamKeepsContract, Step

=============================================================================
