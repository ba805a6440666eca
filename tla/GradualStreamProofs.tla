------------------------- MODULE GradualStreamProofs -------------------------
(***************************************************************************)
(* Theorems about GradualStream, for every channel capacity, every width   *)
(* of the counters and beatmaps of every size below it.                    *)
(*                                                                         *)
(* The inductive invariant says where each computed response is: a prefix  *)
(* of the expected responses has been received, the channel holds the ones *)
(* that follow, and the task has at most one more in hand.                 *)
(***************************************************************************)
EXTENDS GradualStream, SequenceTheorems, TLAPS

Expected(k) == ExpectedResponse(call, k)

InHand == IF pc \in {"sending", "reserved"} THEN 1 ELSE 0

(* Nothing is lost or doubled between the iterator and the client. *)
CountInv ==
    call.loads /\ ended = "open" => Len(received) + Len(channel) + InHand = index

OrderInv ==
    call.loads /\ ended = "open" =>
        \A i \in 1 .. Len(channel) : channel[i] = Expected(Len(received) + i)

PendingInv ==
    call.loads /\ pc \in {"sending", "reserved"} => index >= 1 /\ pending = Expected(index)

(* The counters of the iterator are those of the closed form. *)
ScoreInv ==
    pc # "done" => score = IF call.method = "performance" THEN After(call.score, index)
                           ELSE call.score

PcInv ==
    /\ pc = "queued" => index = 0
    /\ call.loads /\ ended = "open" /\ pc = "done" => index = call.total

(* A failed load sends its error and nothing else. *)
FailInv ==
    ~call.loads =>
        /\ pc # "computing"
        /\ index = 0
        /\ received = <<>>
        /\ pending = LoadError
        /\ channel = <<>> \/ channel = <<LoadError>>
        /\ ended = "open" => (pc = "done" <=> channel = <<LoadError>>)

RoomInv ==
    /\ Len(channel) <= CHANNEL_CAPACITY
    /\ pc = "reserved" /\ ended = "open" => Len(channel) < CHANNEL_CAPACITY

WasteInv ==
    /\ ended # "CANCELLED" => wasted = 0
    /\ ended = "CANCELLED" => wasted = 0 \/ (wasted = 1 /\ pc \in {"sending", "done"})

StreamInv ==
    /\ StreamTypeOK
    /\ CountInv
    /\ OrderInv
    /\ PendingInv
    /\ ScoreInv
    /\ PcInv
    /\ FailInv
    /\ RoomInv
    /\ WasteInv

-----------------------------------------------------------------------------
(***************************************************************************)
(* Arithmetic and the closed form.                                         *)
(***************************************************************************)

(* A sum of two counters wraps at most once. *)
LEMMA WrapOnce ==
    ASSUME NEW n \in Nat, n < 2 * U32
    PROVE  n % U32 = IF n < U32 THEN n ELSE n - U32
  BY StreamAssumption, SMT

LEMMA ModRange ==
    ASSUME NEW n \in Int
    PROVE  n % U32 \in U32Value
  BY StreamAssumption, SMT DEF U32Value

(* Adding one to a wrapped sum is wrapping the sum that is one larger. *)
LEMMA WrapStep ==
    ASSUME NEW n \in Nat, n + 1 < 2 * U32
    PROVE  ((n % U32) + 1) % U32 = (n + 1) % U32
<1> DEFINE w == n % U32
           v == w + 1
           m == n + 1
<1>1. /\ U32 \in Nat
      /\ U32 > 0
      /\ n < 2 * U32
  BY StreamAssumption
<1>2. w = IF n < U32 THEN n ELSE n - U32
  BY <1>1, WrapOnce
<1> HIDE DEF w
<1>3. /\ v \in Nat
      /\ v <= U32
      /\ v < 2 * U32
      /\ m \in Nat
      /\ m < 2 * U32
  BY <1>1, <1>2
<1>4. \/ n < U32 /\ v = m
      \/ n >= U32 /\ v = m - U32 /\ v < U32 /\ m >= U32
  BY <1>1, <1>2
<1> HIDE DEF v, m
<1>5. v % U32 = IF v < U32 THEN v ELSE v - U32
  BY <1>3, WrapOnce
<1>6. m % U32 = IF m < U32 THEN m ELSE m - U32
  BY <1>3, WrapOnce
<1>7. v % U32 = m % U32
  BY <1>1, <1>3, <1>4, <1>5, <1>6
<1> QED
  BY <1>7 DEF v, m, w

LEMMA WrapNext ==
    ASSUME NEW x \in U32Value, NEW k \in Nat, k + 1 < U32
    PROVE  Plus1((x + k) % U32) = (x + (k + 1)) % U32
<1> DEFINE n == x + k
<1>1. /\ n \in Nat
      /\ n + 1 < 2 * U32
      /\ n + 1 = x + (k + 1)
  BY StreamAssumption DEF U32Value
<1> HIDE DEF n
<1>2. ((n % U32) + 1) % U32 = (n + 1) % U32
  BY <1>1, WrapStep
<1>3. ((n % U32) + 1) % U32 = (x + (k + 1)) % U32
  BY <1>1, <1>2
<1> QED
  BY <1>3 DEF n, Plus1

(* The next value of an index that is still below the total. *)
LEMMA IndexNext ==
    ASSUME NEW n \in Nat, n < MaxObjects
    PROVE  Plus1(n) = n + 1
<1>1. /\ n + 1 \in Nat
      /\ n + 1 < U32
      /\ n + 1 < 2 * U32
  BY StreamAssumption
<1> QED
  BY <1>1, WrapOnce DEF Plus1

LEMMA ScoreFacts ==
    /\ NewScore \in Score
    /\ InitialScore \subseteq Score
  BY StreamAssumption DEF NewScore, Score, U32Value

(* A score whose two counters are given. *)
Counted(s, c, d) == [n_geki |-> s.n_geki, n300 |-> c, max_combo |-> d]

Update(s, c, d) == [s EXCEPT !.n300 = c, !.max_combo = d]

LEMMA ExceptIsCounted ==
    ASSUME NEW s \in Score, NEW c \in U32Value, NEW d \in U32Value
    PROVE  /\ Update(s, c, d) = Counted(s, c, d)
           /\ Counted(s, c, d) \in Score
<1>1. /\ s = [n_geki |-> s.n_geki, n300 |-> s.n300, max_combo |-> s.max_combo]
      /\ s.n_geki \in U32Value
  BY DEF Score
<1> DEFINE t == [s EXCEPT !.n300 = c]
<1>2. t = [n_geki |-> s.n_geki, n300 |-> c, max_combo |-> s.max_combo]
  BY <1>1
<1> HIDE DEF t
<1>3. [t EXCEPT !.max_combo = d] = [n_geki |-> s.n_geki, n300 |-> c, max_combo |-> d]
  BY <1>2
<1> USE DEF t
<1>4. Update(s, c, d) = Counted(s, c, d)
  BY <1>3, Zenon DEF Counted, Update
<1>5. Counted(s, c, d) \in Score
  BY <1>1 DEF Counted, Score
<1> QED
  BY <1>4, <1>5

(* The closed form has the type of a score and starts at the initial one. *)
LEMMA AfterFacts ==
    ASSUME NEW s \in Score, NEW k \in Nat
    PROVE  /\ After(s, k) \in Score
           /\ k + 1 < U32 => Judge(After(s, k)) = After(s, k + 1)
           /\ After(s, 0) = s
<1> DEFINE c(j) == (s.n300 + j) % U32
           d(j) == (s.max_combo + j) % U32
<1>1. /\ s.n300 \in U32Value
      /\ s.max_combo \in U32Value
      /\ s = Counted(s, s.n300, s.max_combo)
  BY DEF Score, Counted
<1>2. \A j \in Nat : c(j) \in U32Value /\ d(j) \in U32Value
  BY <1>1, ModRange DEF U32Value
<1>3. \A j : After(s, j) = Update(s, c(j), d(j))
  BY Zenon DEF After, Update
<1>4. k + 1 < U32 => Plus1(c(k)) = c(k + 1) /\ Plus1(d(k)) = d(k + 1)
  BY <1>1, WrapNext
<1>5. c(0) = s.n300 /\ d(0) = s.max_combo
  <2> DEFINE a == s.n300
             b == s.max_combo
  <2>1. /\ a \in Nat /\ a < U32 /\ a < 2 * U32 /\ a + 0 = a
        /\ b \in Nat /\ b < U32 /\ b < 2 * U32 /\ b + 0 = b
    BY <1>1, StreamAssumption DEF U32Value
  <2> HIDE DEF a, b
  <2>2. a % U32 = a /\ b % U32 = b
    BY <2>1, WrapOnce
  <2>3. (a + 0) % U32 = a /\ (b + 0) % U32 = b
    BY <2>1, <2>2
  <2> QED
    BY <2>3 DEF a, b
<1>6. k + 1 \in Nat /\ 0 \in Nat
  OBVIOUS
<1> HIDE DEF c, d
<1>7. \A j \in Nat : After(s, j) = Counted(s, c(j), d(j)) /\ After(s, j) \in Score
  BY <1>2, <1>3, ExceptIsCounted
<1>8. ASSUME k + 1 < U32
      PROVE  Judge(After(s, k)) = After(s, k + 1)
  <2> DEFINE t == After(s, k)
  <2>1. Judge(t) = Update(t, Plus1(t.n300), Plus1(t.max_combo))
    BY Zenon DEF Judge, Update
  <2>2. /\ t \in Score
        /\ t = Counted(s, c(k), d(k))
        /\ After(s, k + 1) = Counted(s, c(k + 1), d(k + 1))
        /\ c(k + 1) \in U32Value
        /\ d(k + 1) \in U32Value
    BY <1>2, <1>6, <1>7
  <2> HIDE DEF t
  <2>3. t.n300 = c(k) /\ t.max_combo = d(k) /\ t.n_geki = s.n_geki
    BY <2>2 DEF Counted
  <2>4. Judge(t) = Update(t, c(k + 1), d(k + 1))
    BY <2>1, <2>3, <1>4, <1>8
  <2>5. Judge(t) = Counted(t, c(k + 1), d(k + 1))
    BY <2>2, <2>4, ExceptIsCounted
  <2>6. Judge(t) = After(s, k + 1)
    BY <2>2, <2>3, <2>5 DEF Counted
  <2> QED
    BY <2>6 DEF t
<1> QED
  BY <1>1, <1>5, <1>6, <1>7, <1>8

(* Any step of the score is a score. *)
LEMMA JudgeType ==
    ASSUME NEW s \in Score
    PROVE  Judge(s) \in Score
<1>1. /\ s.n300 \in Nat
      /\ s.max_combo \in Nat
      /\ s = [n_geki |-> s.n_geki, n300 |-> s.n300, max_combo |-> s.max_combo]
      /\ s.n_geki \in U32Value
  BY DEF Score, U32Value
<1>2. /\ Plus1(s.n300) \in U32Value
      /\ Plus1(s.max_combo) \in U32Value
  BY <1>1, ModRange DEF Plus1
<1>3. Judge(s) = Update(s, Plus1(s.n300), Plus1(s.max_combo))
  BY Zenon DEF Judge, Update
<1> QED
  BY <1>2, <1>3, ExceptIsCounted

LEMMA CallFacts ==
    ASSUME NEW c \in Call
    PROVE  /\ c.method \in {"difficulty", "performance"}
           /\ c.loads \in BOOLEAN
           /\ c.total \in 0 .. MaxObjects
           /\ c.total \in Nat
           /\ c.total < U32
           /\ c.score \in Score
  BY ScoreFacts, StreamAssumption DEF Call

(* Every expected response is a response, hence not the error. *)
LEMMA ExpectedType ==
    ASSUME NEW c \in Call, NEW k \in 1 .. c.total
    PROVE  /\ ExpectedResponse(c, k) \in Response
           /\ ExpectedResponse(c, k) # LoadError
<1>1. /\ k - 1 \in U32Value
      /\ k \in Nat
  BY CallFacts, StreamAssumption DEF U32Value
<1>2. After(c.score, k) \in Score
  BY <1>1, CallFacts, AfterFacts
<1>3. ExpectedResponse(c, k) \in Response
  BY <1>1, <1>2, CallFacts DEF ExpectedResponse, Response
<1> QED
  BY <1>3, ErrorAssumption

-----------------------------------------------------------------------------
(***************************************************************************)
(* The invariant: one lemma per action that disturbs more than one part.   *)
(***************************************************************************)

LEMMA InitInv == StreamInit => StreamInv
<1> SUFFICES ASSUME StreamInit PROVE StreamInv
  OBVIOUS
<1> USE DEF StreamInit
<1>1. /\ call \in Call
      /\ call.total \in Nat
      /\ call.score \in Score
      /\ After(call.score, 0) = call.score
  BY CallFacts, AfterFacts
<1>2. StreamTypeOK
  BY <1>1 DEF StreamTypeOK, Item
<1>3. CountInv /\ OrderInv /\ PendingInv /\ PcInv
  BY <1>1 DEF CountInv, OrderInv, PendingInv, PcInv, InHand
<1>4. ScoreInv
  BY <1>1 DEF ScoreInv
<1>5. FailInv /\ WasteInv /\ RoomInv
  BY StreamAssumption DEF FailInv, WasteInv, RoomInv
<1> QED
  BY <1>2, <1>3, <1>4, <1>5 DEF StreamInv

(* The iterator counts in step with the closed form. *)
LEMMA ComputeInv ==
    ASSUME StreamInv, ComputeNext
    PROVE  StreamInv'
<1> USE DEF ComputeNext, iteratorVars
<1>1. /\ StreamTypeOK /\ CountInv /\ OrderInv /\ ScoreInv /\ FailInv /\ RoomInv /\ WasteInv
      /\ call' = call
  BY DEF StreamInv
<1>2. /\ call.loads
      /\ call \in Call
      /\ call.total \in 0 .. MaxObjects
      /\ call.score \in Score
      /\ index \in Nat
      /\ index < call.total
      /\ index < MaxObjects
      /\ index + 1 < U32
  BY <1>1, CallFacts, StreamAssumption DEF FailInv, StreamTypeOK
<1>3. index' = index + 1
  BY <1>2, IndexNext
<1>4. /\ score' = IF call.method = "performance" THEN After(call.score, index')
                  ELSE call.score
      /\ score' \in Score
  <2>1. Judge(After(call.score, index)) = After(call.score, index + 1)
    BY <1>2, AfterFacts
  <2>2. After(call.score, index + 1) \in Score
    BY <1>2, AfterFacts
  <2> QED
    BY <1>1, <1>2, <1>3, <2>1, <2>2 DEF ScoreInv, Judged
<1>5. pending' = Expected(index')
  <2>1. pending' = [object_index |-> index, score |-> score']
    OBVIOUS
  <2>2. index' - 1 = index
    BY <1>2, <1>3
  <2> QED
    BY <1>4, <2>1, <2>2 DEF Expected, ExpectedResponse
<1>6. pending' \in Response
  <2>1. index' \in 1 .. call.total
    BY <1>2, <1>3
  <2> QED
    BY <1>2, <1>5, <2>1, ExpectedType DEF Expected
<1>7. StreamTypeOK'
  BY <1>1, <1>2, <1>3, <1>4, <1>6 DEF StreamTypeOK, Item
<1>8. CountInv'
  BY <1>1, <1>2, <1>3, LenProperties DEF CountInv, InHand, StreamTypeOK
<1>9. OrderInv'
  BY <1>1 DEF OrderInv, Expected
<1>10. PendingInv' /\ ScoreInv' /\ PcInv'
  BY <1>1, <1>2, <1>3, <1>4, <1>5 DEF PendingInv, ScoreInv, PcInv, Expected
<1>11. FailInv' /\ RoomInv' /\ WasteInv'
  BY <1>1, <1>2 DEF FailInv, RoomInv, WasteInv
<1> QED
  BY <1>7, <1>8, <1>9, <1>10, <1>11 DEF StreamInv

(* A push moves the item in hand to the end of the channel, or, when the
   receiver is gone, nowhere. *)
LEMMA PushInv ==
    ASSUME StreamInv, Push
    PROVE  StreamInv'
<1> USE DEF Push, iteratorVars
<1>1. /\ StreamTypeOK /\ CountInv /\ OrderInv /\ PendingInv /\ ScoreInv /\ PcInv
      /\ FailInv /\ RoomInv /\ WasteInv
      /\ call' = call
  BY DEF StreamInv
<1>2. /\ call \in Call
      /\ call.loads \in BOOLEAN
      /\ call.total \in Nat
      /\ index \in 0 .. call.total
      /\ pending \in Item
      /\ channel \in Seq(Item)
      /\ received \in Seq(Response)
      /\ Len(channel) \in Nat
      /\ Len(received) \in Nat
  BY <1>1, CallFacts, LenProperties DEF StreamTypeOK
<1>3. call.loads => pending # LoadError /\ pending = Expected(index) /\ index >= 1
  BY <1>1, <1>2, ExpectedType DEF PendingInv, Expected
<1>4. ~call.loads => pending = LoadError
  BY <1>1 DEF FailInv
<1>5. CASE ended = "open"
  <2>1. channel' = Append(channel, pending)
    BY <1>5
  <2>2. /\ channel' \in Seq(Item)
        /\ Len(channel') = Len(channel) + 1
        /\ channel'[Len(channel) + 1] = pending
        /\ \A i \in 1 .. Len(channel) : channel'[i] = channel[i]
    BY <1>2, <2>1, AppendProperties
  <2>3. StreamTypeOK'
    BY <1>1, <2>2, <1>3, <1>4 DEF StreamTypeOK
  <2>4. CountInv'
    BY <1>1, <1>2, <1>3, <2>2 DEF CountInv, InHand
  <2>5. OrderInv'
    <3> SUFFICES ASSUME call.loads, NEW i \in 1 .. Len(channel) + 1
                 PROVE  channel'[i] = Expected(Len(received) + i)
      BY <1>1, <2>2 DEF OrderInv, Expected
    <3>1. CASE i \in 1 .. Len(channel)
      BY <1>1, <1>5, <2>2, <3>1 DEF OrderInv
    <3>2. CASE i = Len(channel) + 1
      <4>1. Len(received) + i = index
        BY <1>1, <1>2, <1>5, <3>2 DEF CountInv, InHand
      <4> QED
        BY <1>3, <2>2, <3>2, <4>1
    <3> QED
      BY <1>2, <3>1, <3>2
  <2>6. PendingInv' /\ ScoreInv' /\ PcInv'
    BY <1>1, <1>3, <1>4 DEF PendingInv, ScoreInv, PcInv, Expected
  <2>7. FailInv'
    <3> SUFFICES ASSUME ~call.loads PROVE FailInv'
      BY <1>1 DEF FailInv
    <3>1. channel = <<>> /\ pending = LoadError
      BY <1>1, <1>4, <1>5 DEF FailInv
    <3>2. channel' = <<LoadError>> /\ pc' = "done"
      BY <2>1, <3>1
    <3> QED
      BY <1>1, <3>2 DEF FailInv
  <2>8. RoomInv' /\ WasteInv'
    BY <1>1, <1>2, <1>5, <2>2, StreamAssumption DEF RoomInv, WasteInv
  <2> QED
    BY <2>3, <2>4, <2>5, <2>6, <2>7, <2>8 DEF StreamInv
<1>6. CASE ended # "open"
  <2>1. channel' = channel
    BY <1>6
  <2>2. StreamTypeOK'
    BY <1>1, <2>1 DEF StreamTypeOK
  <2>3. CountInv' /\ OrderInv' /\ PendingInv' /\ ScoreInv' /\ PcInv'
    BY <1>1, <1>3, <1>6 DEF CountInv, OrderInv, PendingInv, ScoreInv, PcInv
  <2>4. FailInv' /\ RoomInv' /\ WasteInv'
    BY <1>1, <1>4, <1>6, <2>1 DEF FailInv, RoomInv, WasteInv
  <2> QED
    BY <2>2, <2>3, <2>4 DEF StreamInv
<1> QED
  BY <1>5, <1>6

(* A delivery moves the head of the channel to the end of what the client
   has. *)
LEMMA DeliverInv ==
    ASSUME StreamInv, DeliverResponse
    PROVE  StreamInv'
<1> USE DEF DeliverResponse, iteratorVars
<1>1. /\ StreamTypeOK /\ CountInv /\ OrderInv /\ PendingInv /\ ScoreInv /\ PcInv
      /\ FailInv /\ RoomInv /\ WasteInv
      /\ call' = call
  BY DEF StreamInv
<1>2. /\ index \in Nat
      /\ Len(channel) \in Nat
      /\ Len(received) \in Nat
      /\ channel \in Seq(Item)
      /\ received \in Seq(Response)
  BY <1>1, CallFacts, LenProperties DEF StreamTypeOK
<1> DEFINE h == Head(channel)
<1>3. h \in Response
  BY <1>2, HeadTailProperties DEF Item
<1> HIDE DEF h
<1>4. /\ channel' \in Seq(Item)
      /\ Len(channel') = Len(channel) - 1
      /\ \A i \in 1 .. Len(channel) - 1 : channel'[i] = channel[i + 1]
  BY <1>2, HeadTailProperties
<1>5. /\ received' = Append(received, h)
      /\ received' \in Seq(Response)
      /\ Len(received') = Len(received) + 1
  BY <1>2, <1>3, AppendProperties DEF h
<1>6. call.loads
  <2>1. ~call.loads => channel = <<LoadError>>
    BY <1>1 DEF FailInv
  <2>2. channel = <<LoadError>> => Head(channel) = LoadError
    OBVIOUS
  <2> QED
    BY <2>1, <2>2, <1>1, CallFacts DEF StreamTypeOK
<1>7. StreamTypeOK'
  BY <1>1, <1>4, <1>5 DEF StreamTypeOK
<1>8. CountInv'
  <2>1. InHand' = InHand /\ InHand \in Nat
    BY DEF InHand
  <2>2. Len(received) + Len(channel) + InHand = index
    BY <1>1, <1>6 DEF CountInv
  <2> DEFINE r == Len(received)
             c == Len(channel)
             n == InHand
  <2>3. r \in Nat /\ c \in Nat /\ n \in Nat /\ r + c + n = index
    BY <1>2, <2>1, <2>2
  <2>4. Len(received') = r + 1 /\ Len(channel') = c - 1 /\ InHand' = n /\ index' = index
    BY <1>4, <1>5, <2>1
  <2> HIDE DEF r, c, n
  <2>5. (r + 1) + (c - 1) + n = index
    BY <2>3
  <2> QED
    BY <2>4, <2>5 DEF CountInv
<1>9. OrderInv'
  <2> SUFFICES ASSUME NEW i \in 1 .. Len(channel) - 1
               PROVE  channel'[i] = Expected(Len(received) + 1 + i)
    BY <1>1, <1>4, <1>5 DEF OrderInv, Expected
  <2>1. i + 1 \in 1 .. Len(channel) /\ Len(received) + (i + 1) = Len(received) + 1 + i
    BY <1>2
  <2>2. channel[i + 1] = Expected(Len(received) + (i + 1))
    BY <1>1, <1>6, <2>1 DEF OrderInv
  <2> QED
    BY <1>4, <2>1, <2>2
<1>10. PendingInv' /\ ScoreInv' /\ PcInv'
  BY <1>1 DEF PendingInv, ScoreInv, PcInv, Expected
<1>11. FailInv' /\ RoomInv' /\ WasteInv'
  BY <1>1, <1>2, <1>4, <1>6, StreamAssumption DEF FailInv, RoomInv, WasteInv
<1> QED
  BY <1>7, <1>8, <1>9, <1>10, <1>11 DEF StreamInv

(* The steps that neither compute nor move a response. *)
LEMMA QuietInv ==
    ASSUME StreamInv,
           \/ Start \/ Finish \/ Reserve \/ SendFails
           \/ DeliverError \/ EndOfStream \/ Cancel \/ Panic
           \/ UNCHANGED streamVars
    PROVE  StreamInv'
<1>1. /\ StreamTypeOK /\ CountInv /\ OrderInv /\ PendingInv /\ ScoreInv /\ PcInv
      /\ FailInv /\ RoomInv /\ WasteInv
  BY DEF StreamInv
<1>2. /\ call \in Call
      /\ call.loads \in BOOLEAN
      /\ call.score \in Score
      /\ call.total \in Nat
      /\ index \in Nat
      /\ score \in Score
      /\ Len(channel) \in Nat
      /\ Len(received) \in Nat
      /\ Len(<<>>) = 0
      /\ <<>> \in Seq(Item)
      /\ channel \in Seq(Item)
  BY <1>1, CallFacts, LenProperties DEF StreamTypeOK
<1> USE DEF iteratorVars
<1>3. CASE Start
  <2> USE DEF Start, StartLoaded, StartFailed
  <2>1. StreamTypeOK' /\ OrderInv'
    BY <1>1, <1>3 DEF StreamTypeOK, OrderInv, Expected, Item
  <2>2. CountInv' /\ PendingInv' /\ ScoreInv' /\ PcInv'
    BY <1>1, <1>3 DEF CountInv, InHand, PendingInv, ScoreInv, PcInv
  <2>3. FailInv' /\ RoomInv' /\ WasteInv'
    BY <1>1, <1>3 DEF FailInv, RoomInv, WasteInv
  <2> QED
    BY <2>1, <2>2, <2>3 DEF StreamInv
<1>4. CASE Finish
  <2> USE DEF Finish
  <2>1. score' \in Score
    BY <1>2, <1>4, JudgeType DEF Judged
  <2>2. StreamTypeOK' /\ OrderInv'
    BY <1>1, <1>4, <2>1 DEF StreamTypeOK, OrderInv, Expected
  <2>3. CountInv' /\ PendingInv' /\ ScoreInv' /\ PcInv'
    BY <1>1, <1>4 DEF CountInv, InHand, PendingInv, ScoreInv, PcInv
  <2>4. FailInv' /\ RoomInv' /\ WasteInv'
    BY <1>1, <1>4 DEF FailInv, RoomInv, WasteInv
  <2> QED
    BY <2>2, <2>3, <2>4 DEF StreamInv
<1>5. CASE Reserve \/ SendFails
  <2> USE DEF Reserve, SendFails
  <2>1. StreamTypeOK' /\ OrderInv'
    BY <1>1, <1>5 DEF StreamTypeOK, OrderInv, Expected
  <2>2. CountInv' /\ PendingInv' /\ ScoreInv' /\ PcInv'
    BY <1>1, <1>5 DEF CountInv, InHand, PendingInv, ScoreInv, PcInv, Expected
  <2>3. FailInv' /\ RoomInv' /\ WasteInv'
    BY <1>1, <1>5 DEF FailInv, RoomInv, WasteInv
  <2> QED
    BY <2>1, <2>2, <2>3 DEF StreamInv
<1>6. CASE DeliverError \/ EndOfStream \/ Cancel
  <2> USE DEF DeliverError, EndOfStream, Cancel
  <2>1. /\ ended' # "open"
        /\ channel' = <<>>
        /\ ended = "open"
        /\ UNCHANGED <<call, pc, index, score, pending, received, wasted>>
    BY <1>6
  <2>2. StreamTypeOK' /\ CountInv' /\ OrderInv'
    BY <1>1, <1>2, <1>6, <2>1 DEF StreamTypeOK, CountInv, OrderInv
  <2>3. PendingInv' /\ ScoreInv' /\ PcInv'
    BY <1>1, <2>1 DEF PendingInv, ScoreInv, PcInv, Expected
  <2>4. FailInv' /\ RoomInv' /\ WasteInv'
    BY <1>1, <1>2, <2>1, StreamAssumption DEF FailInv, RoomInv, WasteInv
  <2> QED
    BY <2>2, <2>3, <2>4 DEF StreamInv
<1>7. CASE Panic
  <2> USE DEF Panic
  <2>1. /\ ended' # "open"
        /\ channel' = <<>>
        /\ pc' = "done"
        /\ UNCHANGED <<call, index, score, pending, received, wasted>>
    BY <1>7
  <2>2. StreamTypeOK' /\ CountInv' /\ OrderInv'
    BY <1>1, <1>2, <1>7, <2>1 DEF StreamTypeOK, CountInv, OrderInv
  <2>3. PendingInv' /\ ScoreInv' /\ PcInv'
    BY <1>1, <2>1 DEF PendingInv, ScoreInv, PcInv
  <2>4. FailInv' /\ RoomInv' /\ WasteInv'
    BY <1>1, <1>2, <1>7, <2>1, StreamAssumption DEF FailInv, RoomInv, WasteInv
  <2> QED
    BY <2>2, <2>3, <2>4 DEF StreamInv
<1>8. CASE UNCHANGED streamVars
  <2> USE DEF streamVars
  <2>1. StreamTypeOK' /\ CountInv' /\ OrderInv'
    BY <1>1, <1>8 DEF StreamTypeOK, CountInv, OrderInv, InHand, Expected
  <2>2. PendingInv' /\ ScoreInv' /\ PcInv'
    BY <1>1, <1>8 DEF PendingInv, ScoreInv, PcInv, Expected
  <2>3. FailInv' /\ RoomInv' /\ WasteInv'
    BY <1>1, <1>8 DEF FailInv, RoomInv, WasteInv
  <2> QED
    BY <2>1, <2>2, <2>3 DEF StreamInv
<1> QED
  BY <1>3, <1>4, <1>5, <1>6, <1>7, <1>8

(* A stream keeps its invariant, for every capacity and beatmap, through
   every cancellation (grpc.rs:191-265, calculator.rs:180-234). *)
THEOREM StreamInvariant == StreamSpec => []StreamInv
<1>1. StreamInv /\ [StreamNext]_streamVars => StreamInv'
  BY ComputeInv, PushInv, DeliverInv, QuietInv
     DEF StreamNext, Produce, Consume, Over
<1> QED
  BY <1>1, InitInv, PTL DEF StreamSpec

-----------------------------------------------------------------------------
(***************************************************************************)
(* What the invariant is for.                                              *)
(***************************************************************************)

(* The state of a stream keeps its types: in particular the index never
   passes the objects of the beatmap and what is received is responses. *)
THEOREM StreamTypeCorrect == StreamSpec => []StreamTypeOK
BY StreamInvariant, PTL DEF StreamInv

(* For every capacity, a task is at most that many responses and one ahead of
   its client. *)
THEOREM AheadBounded == StreamSpec => []BoundedAhead
<1>1. StreamInv => BoundedAhead
  <2> SUFFICES ASSUME StreamInv, ended = "open"
               PROVE  index - Len(received) <= CHANNEL_CAPACITY + 1
    BY DEF BoundedAhead
  <2>1. /\ index \in Nat
        /\ Len(channel) \in Nat
        /\ Len(received) \in Nat
        /\ InHand \in 0 .. 1
        /\ Len(channel) <= CHANNEL_CAPACITY
    BY CallFacts, LenProperties DEF StreamInv, StreamTypeOK, RoomInv, InHand
  <2>2. CASE call.loads
    BY <2>1, <2>2, StreamAssumption DEF StreamInv, CountInv
  <2>3. CASE ~call.loads
    BY <2>1, <2>3, StreamAssumption DEF StreamInv, FailInv
  <2> QED
    BY <2>2, <2>3
<1> QED
  BY <1>1, StreamInvariant, PTL

(* However long the beatmap, a client that is gone costs one more response. *)
THEOREM OneWasted == StreamSpec => []AtMostOneWasted
<1>1. StreamInv => AtMostOneWasted
  BY DEF StreamInv, WasteInv, AtMostOneWasted
<1> QED
  BY <1>1, StreamInvariant, PTL

-----------------------------------------------------------------------------

(* For every capacity and every beatmap, what a client sees of the task, the
   channel and the race with its own cancellation is StreamContract: each
   delivery is the next expected response, OK comes after the last one, an
   error alone, and every other step is invisible. *)
THEOREM StreamImplementsContract == StreamSpec => StreamKeepsContract
<1> USE DEF Contract!contractVars, iteratorVars
<1>1. StreamInit => Contract!Init
  BY DEF StreamInit, Contract!Init
<1>2. StreamInv /\ [StreamNext]_streamVars => [Contract!Next]_Contract!contractVars
  <2> SUFFICES ASSUME StreamInv, [StreamNext]_streamVars
               PROVE  [Contract!Next]_Contract!contractVars
    OBVIOUS
  <2> USE DEF StreamInv, Contract!Next
  <2>1. /\ index \in 0 .. call.total
        /\ call \in Call
        /\ call.loads \in BOOLEAN
        /\ call.total \in Nat
        /\ Len(received) \in Nat
        /\ Len(channel) \in Nat
        /\ InHand \in 0 .. 1
    BY CallFacts, LenProperties DEF StreamTypeOK, InHand
  <2>2. CASE DeliverResponse
    <3>1. call.loads
      <4>1. ~call.loads => channel = <<LoadError>>
        BY <2>2 DEF FailInv, DeliverResponse
      <4>2. channel = <<LoadError>> => Head(channel) = LoadError
        OBVIOUS
      <4> QED
        BY <2>1, <2>2, <4>1, <4>2 DEF DeliverResponse
    <3>2. Len(channel) >= 1 /\ Head(channel) = channel[1]
      BY <2>2, HeadTailProperties, EmptySeq, LenProperties DEF DeliverResponse, StreamTypeOK
    <3>3. Head(channel) = ExpectedResponse(call, Len(received) + 1)
      BY <2>1, <2>2, <3>1, <3>2 DEF OrderInv, Expected, DeliverResponse
    <3>4. Len(received) < call.total
      BY <2>1, <2>2, <3>1, <3>2 DEF CountInv, DeliverResponse
    <3>5. Contract!Receive
      BY <2>2, <3>1, <3>3, <3>4 DEF DeliverResponse, Contract!Receive
    <3> QED
      BY <3>5
  <2>3. CASE DeliverError
    <3>1. ~call.loads
      <4> SUFFICES ASSUME call.loads PROVE FALSE
        BY <2>1
      <4>1. Len(channel) >= 1 /\ Head(channel) = channel[1]
        BY <2>3, HeadTailProperties, EmptySeq, LenProperties DEF DeliverError, StreamTypeOK
      <4>2. Head(channel) = ExpectedResponse(call, Len(received) + 1)
        BY <2>1, <2>3, <4>1 DEF OrderInv, Expected, DeliverError
      <4>3. Len(received) + 1 \in 1 .. call.total
        BY <2>1, <2>3, <4>1 DEF CountInv, DeliverError
      <4> QED
        BY <2>1, <2>3, <4>2, <4>3, ExpectedType DEF DeliverError
    <3>2. Contract!Fail
      BY <2>3, <3>1 DEF DeliverError, Contract!Fail, Contract!EndWith
    <3> QED
      BY <3>2
  <2>4. CASE EndOfStream
    <3>1. call.loads
      BY <2>1, <2>4 DEF FailInv, EndOfStream
    <3>2. Len(received) = call.total
      <4>1. InHand = 0 /\ Len(channel) = 0 /\ index = call.total
        BY <2>4, <3>1 DEF InHand, EndOfStream, PcInv
      <4> QED
        BY <2>1, <2>4, <3>1, <4>1 DEF CountInv, EndOfStream
    <3>3. Contract!Complete
      BY <2>4, <3>1, <3>2 DEF EndOfStream, Contract!Complete, Contract!EndWith
    <3> QED
      BY <3>3
  <2>5. CASE Cancel
    BY <2>5 DEF Cancel, Contract!HangUp, Contract!EndWith
  <2>6. CASE Panic
    <3>1. CASE ended = "open"
      <4>1. Contract!Lose
        BY <2>6, <3>1 DEF Panic, Contract!Lose, Contract!EndWith
      <4> QED
        BY <4>1
    <3>2. CASE ended # "open"
      BY <2>6, <3>2 DEF Panic
    <3> QED
      BY <3>1, <3>2
  <2>7. CASE Start \/ Produce \/ Over \/ UNCHANGED streamVars
    BY <2>7 DEF Start, StartLoaded, StartFailed, Produce, ComputeNext, Finish, Reserve,
                Push, SendFails, Over, streamVars
  <2> QED
    BY <2>2, <2>3, <2>4, <2>5, <2>6, <2>7 DEF StreamNext, Consume
<1> QED
  BY <1>1, <1>2, StreamInvariant, PTL DEF StreamSpec, StreamKeepsContract, Contract!Safety

(* What a client can rely on, whenever it looks. *)
ClientView ==
    /\ call \in Call
    /\ received \in Seq(Response)
    /\ Len(received) <= call.total
    /\ \A k \in 1 .. Len(received) : received[k] = ExpectedResponse(call, k)
    /\ ended = "OK" => call.loads /\ Len(received) = call.total
    /\ ended = "FAILED" => ~call.loads
    /\ ~call.loads => received = <<>>

LEMMA ContractStep ==
  ASSUME ClientView, [Contract!Next]_(Contract!contractVars)
  PROVE  ClientView'
<1>1. Len(received) \in Nat /\ call.total \in Nat
  BY LenProperties, StreamAssumption DEF ClientView, Call
<1>2. CASE Contract!Receive
  <2> DEFINE n == Len(received)
             response == ExpectedResponse(call, n + 1)
  <2>1. /\ call' = call /\ ended' = ended /\ ended = "open" /\ call.loads
        /\ n < call.total /\ received' = Append(received, response)
    BY <1>2 DEF Contract!Receive
  <2>2. response \in Response
    BY <1>1, <2>1, ExpectedType DEF ClientView
  <2> HIDE DEF response
  <2>3. /\ received' \in Seq(Response) /\ Len(received') = n + 1
        /\ \A k \in 1 .. n : received'[k] = received[k]
        /\ received'[n + 1] = response
    BY <2>1, <2>2, AppendProperties DEF ClientView
  <2>4. \A k \in 1 .. n + 1 : received'[k] = ExpectedResponse(call, k)
    <3>1. ASSUME NEW k \in 1 .. n + 1
          PROVE  received'[k] = ExpectedResponse(call, k)
      <4>1. CASE k \in 1 .. n
        BY <2>3, <4>1 DEF ClientView
      <4>2. CASE k = n + 1
        BY <2>3, <4>2 DEF response
      <4> QED
        BY <1>1, <3>1, <4>1, <4>2
    <3> QED
      BY <3>1
  <2> QED
    BY <1>1, <2>1, <2>3, <2>4 DEF ClientView
<1>3. CASE Contract!Complete \/ Contract!Fail \/ Contract!HangUp \/ Contract!Lose
  BY <1>3 DEF Contract!Complete, Contract!Fail, Contract!HangUp, Contract!Lose, Contract!EndWith,
              ClientView
<1>4. CASE UNCHANGED Contract!contractVars
  BY <1>4 DEF Contract!contractVars, ClientView
<1> QED
  BY <1>2, <1>3, <1>4 DEF Contract!Next

(* StreamContract says enough, and the code does it: at every moment a client
   has the first responses of the beatmap in object order, none twice and none
   missing; a stream that ended with OK was complete, and one that failed sent
   nothing before its error (grpc.rs:191-265). *)
THEOREM ClientHasWhatItWasTold == StreamSpec => []ClientView
<1>1. Contract!Init => ClientView
  <2> SUFFICES ASSUME Contract!Init
               PROVE  ClientView
    OBVIOUS
  <2>1. call \in Call /\ received = <<>> /\ ended = "open"
    BY DEF Contract!Init
  <2>2. call.total \in Nat
    BY <2>1, StreamAssumption DEF Call
  <2> QED
    BY <2>1, <2>2 DEF ClientView
<1>2. ClientView /\ [Contract!Next]_(Contract!contractVars) => ClientView'
  BY ContractStep
<1>3. StreamKeepsContract => []ClientView
  BY <1>1, <1>2, PTL DEF StreamKeepsContract, Contract!Safety
<1> QED
  BY <1>3, StreamImplementsContract

=============================================================================
