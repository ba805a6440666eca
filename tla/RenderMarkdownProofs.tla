------------------------ MODULE RenderMarkdownProofs ------------------------
(***************************************************************************)
(* Theorems about RenderMarkdown, for documents of any number of blocks,   *)
(* code and tables of any length, and inline text of any number of spans:  *)
(* what process_inline makes of a text, that the tags of a page nest, and  *)
(* that its blocks come out as written.                                    *)
(*                                                                         *)
(* The loop of process_inline and the page's own are recursions over data. *)
(* The induction here is over a set of numbers or of sequences (for which  *)
(* a claim holds), by the least element that is not in it.                 *)
(***************************************************************************)
EXTENDS Docs, FiniteSetTheorems, SequenceTheorems, WellFoundedInduction, TLAPS

-----------------------------------------------------------------------------
(***************************************************************************)
(* Induction and recursion over the numbers, for sets and functions.       *)
(***************************************************************************)

(* A non-empty set of numbers has a least element. *)
LEMMA LeastElement ==
  ASSUME NEW T, T \subseteq Nat, T # {}
  PROVE  \E x \in T : \A y \in T : x <= y
<1> DEFINE R == OpToRel(<, Nat)
<1>1. IsWellFoundedOn(R, Nat)
  BY NatLessThanWellFounded
<1>2. \A x, y \in Nat : y < x => <<y, x>> \in R
  BY DEF OpToRel
<1>. HIDE DEF R
<1>3. PICK x \in T : \A y \in T : <<y, x>> \notin R
  BY <1>1, WFMin
<1>4. ASSUME NEW y \in T
      PROVE  x <= y
  <2>1. x \in Nat /\ y \in Nat /\ ~ (y < x)
    BY <1>2, <1>3
  <2>. QED  BY <2>1
<1>. QED  BY <1>4

LEMMA SetInduction ==
  ASSUME NEW P, 0 \in P, \A n \in Nat : n \in P => n + 1 \in P
  PROVE  Nat \subseteq P
<1> DEFINE T == Nat \ P
<1>1. SUFFICES ASSUME T # {}
               PROVE  FALSE
  OBVIOUS
<1>2. PICK x \in T : \A y \in T : x <= y
  BY <1>1, LeastElement
<1>3. x \in Nat /\ x # 0
  BY <1>2
<1>4. x - 1 \in Nat /\ x - 1 \notin T
  BY <1>2, <1>3
<1>5. x - 1 \in P /\ (x - 1) + 1 = x
  BY <1>3, <1>4
<1>. QED  BY <1>2, <1>4, <1>5

(* A function that is given by its first value and by n steps. *)
Steps(n, S) == [1 .. n -> [S -> S]]

Results(n, S) == [0 .. n -> S]

Iterates(f, base, step, n) == f[0] = base /\ \A k \in 1 .. n : f[k] = step[k][f[k - 1]]

SameSteps(f, g, n) == \A k \in 1 .. n : f[k - 1] = g[k - 1] => f[k] = g[k]

LEMMA Iteration ==
  ASSUME NEW S, NEW base \in S, NEW n \in Nat, NEW step \in Steps(n, S)
  PROVE  \E f \in Results(n, S) : Iterates(f, base, step, n)
<1>. USE DEF Steps
<1> DEFINE Upto(m, f) == f[0] = base /\ \A k \in 1 .. m : f[k] = step[k][f[k - 1]]
           P == {m \in Nat : m <= n => \E f \in [0 .. m -> S] : Upto(m, f)}
<1>1. 0 \in P
  <2>1. [k \in 0 .. 0 |-> base] \in [0 .. 0 -> S] /\ Upto(0, [k \in 0 .. 0 |-> base])
    OBVIOUS
  <2>. QED  BY <2>1
<1>2. ASSUME NEW m \in Nat, m \in P, m + 1 <= n
      PROVE  \E f \in [0 .. m + 1 -> S] : Upto(m + 1, f)
  <2>1. PICK f \in [0 .. m -> S] : Upto(m, f)
    BY <1>2
  <2>2. m + 1 \in 1 .. n /\ f[m] \in S /\ step[m + 1][f[m]] \in S
    BY <1>2, <2>1
  <2> DEFINE g == [k \in 0 .. m + 1 |-> IF k = m + 1 THEN step[m + 1][f[m]] ELSE f[k]]
  <2>3. g \in [0 .. m + 1 -> S]
    BY <2>2
  <2>4. \A k \in 0 .. m : g[k] = f[k]
    OBVIOUS
  <2>5. g[m + 1] = step[m + 1][f[m]]
    OBVIOUS
  <2>. HIDE DEF g
  <2>6. g[0] = base
    BY <2>1, <2>4
  <2>7. ASSUME NEW k \in 1 .. m + 1
        PROVE  g[k] = step[k][g[k - 1]]
    <3>1. CASE k = m + 1
      BY <2>4, <2>5, <3>1
    <3>2. CASE k \in 1 .. m
      <4>1. k - 1 \in 0 .. m /\ k \in 0 .. m
        BY <3>2
      <4>. QED  BY <2>1, <2>4, <3>2, <4>1
    <3>. QED  BY <3>1, <3>2
  <2>. QED  BY <2>3, <2>6, <2>7
<1>. HIDE DEF Upto
<1>3. ASSUME NEW m \in Nat, m \in P
      PROVE  m + 1 \in P
  <2>1. m + 1 \in Nat
    OBVIOUS
  <2>2. m + 1 <= n => \E f \in [0 .. m + 1 -> S] : Upto(m + 1, f)
    BY <1>2, <1>3
  <2>. QED  BY <2>1, <2>2
<1>. HIDE DEF P
<1>4. n \in P
  BY <1>1, <1>3, SetInduction
<1>. QED  BY <1>4 DEF P, Upto, Results, Iterates

LEMMA IterationUnique ==
  ASSUME NEW n \in Nat, NEW f, NEW g, f[0] = g[0], SameSteps(f, g, n)
  PROVE  \A k \in 0 .. n : f[k] = g[k]
<1>. USE DEF SameSteps
<1> DEFINE P == {m \in Nat : m <= n => f[m] = g[m]}
<1>1. \A m \in Nat : m \in P => m + 1 \in P
  <2>. SUFFICES ASSUME NEW m \in Nat, m <= n => f[m] = g[m], m + 1 <= n
                PROVE  f[m + 1] = g[m + 1]
    OBVIOUS
  <2>1. m + 1 \in 1 .. n /\ (m + 1) - 1 = m
    OBVIOUS
  <2>. QED  BY <2>1
<1>2. 0 \in P
  OBVIOUS
<1>. HIDE DEF P
<1>3. Nat \subseteq P
  BY <1>1, <1>2, SetInduction
<1>. QED  BY <1>3 DEF P
-----------------------------------------------------------------------------
(***************************************************************************)
(* Sequences of sequences.                                                 *)
(***************************************************************************)

(* FlattenSeq appends the sequences one by one. *)
LEMMA FlattenSeqFacts ==
  ASSUME NEW T, NEW n \in Nat, NEW s \in [1 .. n -> Seq(T)]
  PROVE  \E f \in [0 .. n -> Seq(T)] :
            /\ f[0] = <<>>
            /\ \A k \in 1 .. n : f[k] = f[k - 1] \o s[k]
            /\ FlattenSeq(s) = f[n]
<1> DEFINE step == [k \in 1 .. n |-> [t \in Seq(T) |-> t \o s[k]]]
<1>1. step \in [1 .. n -> [Seq(T) -> Seq(T)]]
  OBVIOUS
<1>2. <<>> \in Seq(T) /\ Len(s) = n
  OBVIOUS
<1>3. \E f \in [0 .. n -> Seq(T)] :
         f[0] = <<>> /\ \A k \in 1 .. n : f[k] = step[k][f[k - 1]]
  <2>1. step \in Steps(n, Seq(T))
    BY <1>1 DEF Steps
  <2>. HIDE DEF step
  <2>2. \E f \in Results(n, Seq(T)) : Iterates(f, <<>>, step, n)
    BY <1>2, <2>1, Iteration
  <2>. QED  BY <2>2 DEF Results, Iterates
<1>4. PICK f \in [0 .. n -> Seq(T)] :
         f[0] = <<>> /\ \A k \in 1 .. n : f[k] = step[k][f[k - 1]]
  BY <1>3
<1>5. \A k \in 1 .. n : f[k] = f[k - 1] \o s[k]
  <2>1. \A k \in 1 .. n : k - 1 \in 0 .. n
    OBVIOUS
  <2>2. \A k \in 1 .. n : f[k - 1] \in Seq(T)
    BY <2>1
  <2>. QED  BY <1>4, <2>2
<1>6. FlattenSeq(s) = f[n]
  <2>1. CASE n = 0
    BY <1>2, <1>4, <2>1 DEF FlattenSeq
  <2>2. CASE n # 0
    <3> DEFINE flatten[i \in 1 .. Len(s)] == IF i = 1 THEN s[i] ELSE flatten[i - 1] \o s[i]
               g == [i \in 1 .. n |-> f[i]]
               h == [i \in 0 .. n |-> IF i = 0 THEN <<>> ELSE flatten[i]]
    <3>1. FlattenSeq(s) = flatten[n]
      BY <1>2, <2>2 DEF FlattenSeq
    <3>2. f[1] = s[1]
      <4>1. 1 \in 1 .. n /\ f[1] = f[0] \o s[1] /\ s[1] \in Seq(T)
        BY <1>5, <2>2
      <4>. QED  BY <1>4, <4>1, ConcatEmptySeq
    <3>3. g = [i \in 1 .. Len(s) |-> IF i = 1 THEN s[i] ELSE g[i - 1] \o s[i]]
      <4>1. ASSUME NEW i \in 1 .. n
            PROVE  g[i] = IF i = 1 THEN s[i] ELSE g[i - 1] \o s[i]
        <5>1. CASE i = 1
          BY <3>2, <5>1
        <5>2. CASE i # 1
          <6>1. i - 1 \in 1 .. n
            BY <5>2
          <6>. QED  BY <1>5, <5>2, <6>1
        <5>. QED  BY <5>1, <5>2
      <4>. QED  BY <1>2, <4>1
    <3>4. flatten = [i \in 1 .. Len(s) |-> IF i = 1 THEN s[i] ELSE flatten[i - 1] \o s[i]]
      <4>. HIDE DEF g
      <4>. QED  BY <3>3
    <3>. HIDE DEF flatten, g
    <3>5. \A i \in 1 .. n : flatten[i] = IF i = 1 THEN s[i] ELSE flatten[i - 1] \o s[i]
      BY <1>2, <3>4
    <3>6. h[0] = f[0]
      BY <1>4
    <3>7. ASSUME NEW k \in 1 .. n, h[k - 1] = f[k - 1]
          PROVE  h[k] = f[k]
      <4>0. h[k] = flatten[k]
        OBVIOUS
      <4>1. CASE k = 1
        BY <3>2, <3>5, <4>0, <4>1
      <4>2. CASE k # 1
        <5>1. h[k - 1] = flatten[k - 1]
          BY <4>2
        <5>2. flatten[k] = flatten[k - 1] \o s[k]
          BY <3>5, <4>2
        <5>. HIDE DEF h
        <5>. QED  BY <1>5, <3>7, <4>0, <5>1, <5>2
      <4>. QED  BY <4>1, <4>2
    <3>8. h[n] = flatten[n]
      BY <2>2
    <3>. HIDE DEF h
    <3>9. h[n] = f[n]
      <4>1. SameSteps(h, f, n)
        BY <3>7 DEF SameSteps
      <4>2. \A k \in 0 .. n : h[k] = f[k]
        BY <3>6, <4>1, IterationUnique
      <4>. QED  BY <4>2
    <3>. QED  BY <3>1, <3>8, <3>9
  <2>. QED  BY <2>1, <2>2
<1>. QED  BY <1>4, <1>5, <1>6

(***************************************************************************)
(* The stack of open tags.                                                 *)
(***************************************************************************)
LineKinds == {"fence", "separator", "row", "heading", "rule", "item", "empty", "text"}

Words == {"word", "link", "tick", "stars"}

Names ==
    {"pre", "code", "table", "tr", "th", "td", "h", "li", "p", "strong", "hr", "br", "misplaced"}
    \cup LineKinds \cup Words

Event == {"open", "close", "text", "line", "void"} \X Names

LEMMA AfterType ==
  ASSUME NEW open \in Seq(Names), NEW e \in Event
  PROVE  After(open, e) \in Seq(Names)
<1>1. e[2] \in Names
  BY DEF Event
<1>2. open # <<>> => Front(open) \in Seq(Names)
  BY DEF Front
<1>3. Append(open, e[2]) \in Seq(Names) /\ Append(open, "misplaced") \in Seq(Names)
  <2>1. "misplaced" \in Names
    BY DEF Names
  <2>. QED  BY <1>1, <2>1, AppendProperties
<1>. QED  BY <1>2, <1>3 DEF After

LEMMA NestingFacts ==
  ASSUME NEW events \in Seq(Event)
  PROVE  \E f \in [0 .. Len(events) -> Seq(Names)] :
            /\ f[0] = <<>>
            /\ \A k \in 1 .. Len(events) : f[k] = After(f[k - 1], events[k])
            /\ Nesting(events) = f[Len(events)]
<1> DEFINE n == Len(events)
           step == [k \in 1 .. n |-> [t \in Seq(Names) |-> After(t, events[k])]]
<1>0. n \in Nat /\ <<>> \in Seq(Names)
  OBVIOUS
<1>1. step \in [1 .. n -> [Seq(Names) -> Seq(Names)]]
  <2>1. ASSUME NEW k \in 1 .. n, NEW t \in Seq(Names)
        PROVE  After(t, events[k]) \in Seq(Names)
    BY AfterType
  <2>. QED  BY <2>1
<1>2. \E f \in [0 .. n -> Seq(Names)] :
         f[0] = <<>> /\ \A k \in 1 .. n : f[k] = step[k][f[k - 1]]
  <2>1. step \in Steps(n, Seq(Names))
    BY <1>1 DEF Steps
  <2>. HIDE DEF n, step
  <2>2. \E f \in Results(n, Seq(Names)) : Iterates(f, <<>>, step, n)
    BY <1>0, <2>1, Iteration
  <2>. QED  BY <2>2 DEF Results, Iterates
<1>3. PICK f \in [0 .. n -> Seq(Names)] :
         f[0] = <<>> /\ \A k \in 1 .. n : f[k] = step[k][f[k - 1]]
  BY <1>2
<1>4. \A k \in 1 .. n : f[k] = After(f[k - 1], events[k])
  <2>1. \A k \in 1 .. n : k - 1 \in 0 .. n
    OBVIOUS
  <2>2. \A k \in 1 .. n : f[k - 1] \in Seq(Names)
    BY <2>1
  <2>. QED  BY <1>3, <2>2
<1>5. Nesting(events) = f[n]
  <2> DEFINE open[k \in 0 .. Len(events)] ==
                 IF k = 0 THEN <<>> ELSE After(open[k - 1], events[k])
  <2>1. Nesting(events) = open[n]
    BY DEF Nesting
  <2>2. f = [k \in 0 .. Len(events) |-> IF k = 0 THEN <<>> ELSE After(f[k - 1], events[k])]
    BY <1>3, <1>4
  <2>3. open = [k \in 0 .. Len(events) |-> IF k = 0 THEN <<>> ELSE After(open[k - 1], events[k])]
    BY <2>2
  <2>. HIDE DEF open
  <2>4. open[0] = f[0]
    BY <1>3, <2>3
  <2>5. SameSteps(open, f, n)
    BY <1>4, <2>3 DEF SameSteps
  <2>. HIDE DEF n
  <2>6. open[n] = f[n]
    <3>1. \A k \in 0 .. n : open[k] = f[k]
      BY <1>0, <2>4, <2>5, IterationUnique
    <3>. QED  BY <1>0, <3>1
  <2>. QED  BY <2>1, <2>6
<1>. QED  BY <1>3, <1>4, <1>5

LEMMA NestingEmpty == Nesting(<<>>) = <<>>
<1>1. <<>> \in Seq(Event) /\ Len(<<>>) = 0
  OBVIOUS
<1>. QED  BY <1>1, NestingFacts

LEMMA NestingAppend ==
  ASSUME NEW events \in Seq(Event), NEW e \in Event
  PROVE  /\ Nesting(events) \in Seq(Names)
         /\ Nesting(Append(events, e)) = After(Nesting(events), e)
<1> DEFINE n == Len(events)
           more == Append(events, e)
<1>1. /\ n \in Nat /\ more \in Seq(Event) /\ Len(more) = n + 1 /\ more[n + 1] = e
      /\ \A k \in 1 .. n : more[k] = events[k]
  BY AppendProperties
<1>2. PICK f \in [0 .. n -> Seq(Names)] :
         /\ f[0] = <<>>
         /\ \A k \in 1 .. n : f[k] = After(f[k - 1], events[k])
         /\ Nesting(events) = f[n]
  BY NestingFacts
<1>. HIDE DEF more
<1>3. PICK g \in [0 .. n + 1 -> Seq(Names)] :
         /\ g[0] = <<>>
         /\ \A k \in 1 .. n + 1 : g[k] = After(g[k - 1], more[k])
         /\ Nesting(more) = g[n + 1]
  BY <1>1, NestingFacts
<1>. HIDE DEF n
<1>4. SameSteps(g, f, n)
  BY <1>1, <1>2, <1>3 DEF SameSteps
<1>5. g[n] = f[n]
  <2>1. n \in Nat /\ n \in 0 .. n /\ g[0] = f[0]
    BY <1>1, <1>2, <1>3
  <2>. QED  BY <1>4, <2>1, IterationUnique
<1>6. n + 1 \in 1 .. n + 1 /\ (n + 1) - 1 = n
  BY <1>1
<1>7. g[n + 1] = After(g[n], e)
  BY <1>1, <1>3, <1>6
<1>8. Nesting(events) \in Seq(Names)
  BY <1>1, <1>2
<1>. QED  BY <1>2, <1>3, <1>5, <1>7, <1>8 DEF more

-----------------------------------------------------------------------------

LEMMA SequenceInduction ==
  ASSUME NEW S, NEW P, <<>> \in P,
         \A s \in Seq(S), e \in S : s \in P => Append(s, e) \in P
  PROVE  Seq(S) \subseteq P
<1> DEFINE N == {n \in Nat : \A s \in Seq(S) : Len(s) = n => s \in P}
<1>1. 0 \in N
  BY EmptySeq
<1>2. ASSUME NEW n \in Nat, n \in N
      PROVE  n + 1 \in N
  <2>. SUFFICES ASSUME NEW s \in Seq(S), Len(s) = n + 1
                PROVE  s \in P
    OBVIOUS
  <2>1. s # <<>>
    BY <1>2
  <2>2. PICK t \in Seq(S), e \in S : s = Append(t, e)
    BY <2>1, SequenceEmptyOrAppend
  <2>3. Len(t) = n
    BY <2>2, AppendProperties, LenProperties
  <2>. QED  BY <1>2, <2>2, <2>3
<1>. HIDE DEF N
<1>3. Nat \subseteq N
  BY <1>1, <1>2, SetInduction
<1>. QED  BY <1>3, LenProperties DEF N

LEMMA FlattenSeqEmpty == FlattenSeq(<<>>) = <<>>
BY DEF FlattenSeq

LEMMA FlattenSeqAppend ==
  ASSUME NEW T, NEW seqs \in Seq(Seq(T)), NEW s \in Seq(T)
  PROVE  /\ FlattenSeq(seqs) \in Seq(T)
         /\ FlattenSeq(Append(seqs, s)) = FlattenSeq(seqs) \o s
<1> DEFINE n == Len(seqs)
           more == Append(seqs, s)
<1>1. /\ n \in Nat /\ more \in Seq(Seq(T)) /\ Len(more) = n + 1 /\ more[n + 1] = s
      /\ \A k \in 1 .. n : more[k] = seqs[k]
  BY AppendProperties
<1>2. seqs \in [1 .. n -> Seq(T)]
  BY LenProperties
<1>. HIDE DEF more, n
<1>3. more \in [1 .. n + 1 -> Seq(T)]
  BY <1>1, LenProperties
<1>4. PICK f \in [0 .. n -> Seq(T)] :
         /\ f[0] = <<>>
         /\ \A k \in 1 .. n : f[k] = f[k - 1] \o seqs[k]
         /\ FlattenSeq(seqs) = f[n]
  BY <1>1, <1>2, FlattenSeqFacts
<1>5. PICK g \in [0 .. n + 1 -> Seq(T)] :
         /\ g[0] = <<>>
         /\ \A k \in 1 .. n + 1 : g[k] = g[k - 1] \o more[k]
         /\ FlattenSeq(more) = g[n + 1]
  <2>1. n + 1 \in Nat
    BY <1>1
  <2>. QED  BY <1>3, <2>1, FlattenSeqFacts
<1>6. SameSteps(g, f, n)
  <2>1. \A k \in 1 .. n : k \in 1 .. n + 1 /\ more[k] = seqs[k]
    BY <1>1
  <2>2. ASSUME NEW k \in 1 .. n, g[k - 1] = f[k - 1]
        PROVE  g[k] = f[k]
    BY <1>4, <1>5, <2>1, <2>2
  <2>. QED  BY <2>2 DEF SameSteps
<1>7. g[n] = f[n]
  <2>1. n \in Nat /\ n \in 0 .. n /\ g[0] = f[0]
    BY <1>1, <1>4, <1>5
  <2>. QED  BY <1>6, <2>1, IterationUnique
<1>8. n + 1 \in 1 .. n + 1 /\ (n + 1) - 1 = n
  BY <1>1
<1>9. g[n + 1] = g[n] \o s
  BY <1>1, <1>5, <1>8
<1>10. f[n] \in Seq(T)
  BY <1>1, <1>4
<1>. QED  BY <1>4, <1>5, <1>7, <1>9, <1>10 DEF more

LEMMA FlattenTyped ==
  ASSUME NEW T, NEW seqs \in Seq(Seq(T))
  PROVE  FlattenSeq(seqs) \in Seq(T)
BY EmptySeq, FlattenSeqAppend

-----------------------------------------------------------------------------
(***************************************************************************)
(* Events that leave the stack of open tags as it was.                     *)
(***************************************************************************)
Balanced(events) == \A s \in Seq(Event) : Nesting(s \o events) = Nesting(s)

PlainEvent == {"text", "line", "void"} \X Names

LEMMA BalancedEmpty == <<>> \in Seq(Event) /\ Balanced(<<>>)
BY ConcatEmptySeq DEF Balanced

LEMMA BalancedConcat ==
  ASSUME NEW a \in Seq(Event), NEW b \in Seq(Event), Balanced(a), Balanced(b)
  PROVE  a \o b \in Seq(Event) /\ Balanced(a \o b)
<1>1. ASSUME NEW s \in Seq(Event)
      PROVE  Nesting(s \o (a \o b)) = Nesting(s)
  <2>1. s \o (a \o b) = (s \o a) \o b
    BY ConcatAssociative
  <2>2. s \o a \in Seq(Event)
    BY ConcatProperties
  <2>. QED  BY <2>1, <2>2 DEF Balanced
<1>. QED  BY <1>1, ConcatProperties DEF Balanced

LEMMA AppendConcat ==
  ASSUME NEW T, NEW s \in Seq(T), NEW a \in Seq(T), NEW e \in T
  PROVE  s \o Append(a, e) = Append(s \o a, e)
<1>1. Append(a, e) = a \o <<e>> /\ <<e>> \in Seq(T)
  BY AppendIsConcat
<1>2. s \o a \in Seq(T) /\ Append(s \o a, e) = (s \o a) \o <<e>>
  BY ConcatProperties, AppendIsConcat
<1>. QED  BY <1>1, <1>2, ConcatAssociative

LEMMA BalancedPlain ==
  ASSUME NEW events \in Seq(PlainEvent)
  PROVE  events \in Seq(Event) /\ Balanced(events)
<1> DEFINE P == {c \in Seq(Event) : Balanced(c)}
<1>1. <<>> \in P
  BY BalancedEmpty
<1>2. ASSUME NEW c \in Seq(PlainEvent), NEW e \in PlainEvent, c \in P
      PROVE  Append(c, e) \in P
  <2>1. c \in Seq(Event) /\ e \in Event /\ e[1] \notin {"open", "close"}
    BY <1>2 DEF PlainEvent, Event
  <2>2. Append(c, e) \in Seq(Event)
    BY <2>1, AppendProperties
  <2>3. ASSUME NEW s \in Seq(Event)
        PROVE  Nesting(s \o Append(c, e)) = Nesting(s)
    <3>1. s \o Append(c, e) = Append(s \o c, e) /\ s \o c \in Seq(Event)
      BY <2>1, AppendConcat, ConcatProperties
    <3>2. Nesting(Append(s \o c, e)) = After(Nesting(s \o c), e)
      BY <2>1, <3>1, NestingAppend
    <3>3. Nesting(s \o c) = Nesting(s)
      BY <1>2 DEF Balanced
    <3>. QED  BY <2>1, <3>1, <3>2, <3>3 DEF After
  <2>. QED  BY <2>2, <2>3 DEF Balanced
<1>. HIDE DEF P
<1>3. Seq(PlainEvent) \subseteq P
  BY <1>1, <1>2, SequenceInduction
<1>. QED  BY <1>3 DEF P

LEMMA BalancedFlatten ==
  ASSUME NEW parts \in Seq({c \in Seq(Event) : Balanced(c)})
  PROVE  FlattenSeq(parts) \in Seq(Event) /\ Balanced(FlattenSeq(parts))
<1> DEFINE B == {c \in Seq(Event) : Balanced(c)}
           P == {p \in Seq(Seq(Event)) : FlattenSeq(p) \in B}
<1>1. <<>> \in P
  <2>1. <<>> \in Seq(Seq(Event)) /\ <<>> \in B
    BY BalancedEmpty
  <2>. HIDE DEF B
  <2>. QED  BY <2>1, FlattenSeqEmpty
<1>2. ASSUME NEW p \in Seq(B), NEW c \in B, p \in P
      PROVE  Append(p, c) \in P
  <2>1. Append(p, c) \in Seq(Seq(Event))
    BY <1>2, AppendProperties
  <2>2. FlattenSeq(Append(p, c)) = FlattenSeq(p) \o c
    BY <1>2, FlattenSeqAppend
  <2>. QED  BY <1>2, <2>1, <2>2, BalancedConcat
<1>. HIDE DEF P
<1>3. Seq(B) \subseteq P
  BY <1>1, <1>2, SequenceInduction
<1>. QED  BY <1>3 DEF P

(* An element is as good as nothing if its content is. *)
LEMMA BalancedElement ==
  ASSUME NEW tag \in Names, NEW content \in Seq(Event), Balanced(content)
  PROVE  Element(tag, content) \in Seq(Event) /\ Balanced(Element(tag, content))
<1>1. Open(tag) \in Event /\ Close(tag) \in Event
  BY DEF Open, Close, Event
<1>2. <<Open(tag)>> \in Seq(Event) /\ <<Close(tag)>> \in Seq(Event)
  BY <1>1
<1>3. <<Open(tag)>> \o content \in Seq(Event)
  BY <1>2, ConcatProperties
<1>4. Element(tag, content) = Append(<<Open(tag)>> \o content, Close(tag))
  BY <1>1, <1>3, AppendIsConcat DEF Element
<1>5. Element(tag, content) \in Seq(Event)
  BY <1>1, <1>3, <1>4, AppendProperties
<1>6. ASSUME NEW s \in Seq(Event)
      PROVE  Nesting(s \o Element(tag, content)) = Nesting(s)
  <2> DEFINE inside == Append(s, Open(tag))
  <2>1. inside \in Seq(Event) /\ inside = s \o <<Open(tag)>>
    BY <1>1, AppendProperties, AppendIsConcat
  <2>2. s \o Element(tag, content) = Append(s \o (<<Open(tag)>> \o content), Close(tag))
    BY <1>1, <1>3, <1>4, AppendConcat
  <2>3. s \o (<<Open(tag)>> \o content) = inside \o content
    BY <1>2, <2>1, ConcatAssociative
  <2>4. inside \o content \in Seq(Event) /\ Nesting(inside \o content) = Nesting(inside)
    BY <2>1, ConcatProperties DEF Balanced
  <2>. HIDE DEF inside
  <2>5. Nesting(s \o Element(tag, content)) = After(Nesting(inside), Close(tag))
    BY <1>1, <2>2, <2>3, <2>4, NestingAppend
  <2>6. Nesting(s) \in Seq(Names) /\ Nesting(inside) = Append(Nesting(s), tag)
    BY <1>1, NestingAppend DEF inside, After, Open
  <2> DEFINE open == Nesting(s)
  <2>7. open \in Seq(Names)
    BY <2>6
  <2>. HIDE DEF open
  <2>8. After(Append(open, tag), Close(tag)) = open
    <3>1. /\ Append(open, tag) # <<>> /\ Len(Append(open, tag)) = Len(open) + 1
          /\ Append(open, tag)[Len(open) + 1] = tag
      BY <2>7, AppendProperties
    <3>2. Last(Append(open, tag)) = tag
      BY <3>1 DEF Last
    <3>3. Front(Append(open, tag)) = open
      BY <2>7 DEF Front
    <3>. QED  BY <3>1, <3>2, <3>3 DEF After, Close
  <2>. QED  BY <2>5, <2>6, <2>8 DEF open
<1>. QED  BY <1>5, <1>6 DEF Balanced

-----------------------------------------------------------------------------
(***************************************************************************)
(* process_inline. `final` is what the markers of `tokens` should become:  *)
(* an M that opens is followed by the M that closes, with no M between.    *)
(***************************************************************************)
Paired(tokens, final, M, O, C) ==
    /\ Len(final) = Len(tokens)
    /\ \A x \in 1 .. Len(tokens) :
          \/ tokens[x] # M /\ final[x] = tokens[x]
          \/ /\ tokens[x] = M /\ final[x] = O
             /\ \E y \in x + 1 .. Len(tokens) :
                   tokens[y] = M /\ final[y] = C /\ \A z \in x + 1 .. y - 1 : tokens[z] # M
          \/ /\ tokens[x] = M /\ final[x] = C
             /\ \E y \in 1 .. x - 1 :
                   tokens[y] = M /\ final[y] = O /\ \A z \in y + 1 .. x - 1 : tokens[z] # M

(* What the first rounds have made of the tokens: all up to c are final. *)
UpTo(c, tokens, final) ==
    [x \in 1 .. Len(tokens) |-> IF x <= c THEN final[x] ELSE tokens[x]]

LEMMA MinIsLeast ==
  ASSUME NEW S, S \subseteq Nat, NEW x \in S, \A y \in S : x <= y
  PROVE  Min(S) = x
<1>1. \A u, v \in S : (\A y \in S : u <= y) /\ (\A y \in S : v <= y) => u = v
  OBVIOUS
<1>. QED  BY <1>1 DEF Min

LEMMA NoMarkerLeft ==
  ASSUME NEW tokens \in Seq(Event), NEW marker, NEW tag,
         \A k \in 1 .. Len(tokens) : tokens[k] # <<"text", marker>>
  PROVE  TagOnePair(tokens, marker, tag) = tokens
<1>1. {k \in DOMAIN tokens : tokens[k] = <<"text", marker>>} = {}
  BY LenProperties
<1>. QED  BY <1>1, FS_EmptySet DEF TagOnePair

LEMMA TwoElements ==
  ASSUME NEW n \in Nat, NEW S, S \subseteq 1 .. n, NEW x \in S, NEW y \in S, x < y
  PROVE  ~ (Cardinality(S) < 2)
<1>1. IsFiniteSet(1 .. n)
  BY FS_Interval
<1>2. IsFiniteSet(S) /\ IsFiniteSet(S \ {x})
  BY <1>1, FS_Subset
<1>3. /\ Cardinality(S) \in Nat /\ Cardinality(S \ {x}) \in Nat
      /\ Cardinality(S \ {x}) = Cardinality(S) - 1
  BY <1>2, FS_RemoveElement, FS_CardinalityType
<1>4. x # y
  OBVIOUS
<1>5. Cardinality(S \ {x}) # 0
  BY <1>2, <1>4, FS_EmptySet
<1>. QED  BY <1>3, <1>5

(* The first two places where the tokens have a marker. *)
FirstPair(x, y, tokens, marker) ==
    /\ x \in 1 .. Len(tokens) /\ y \in x + 1 .. Len(tokens)
    /\ tokens[x] = <<"text", marker>> /\ tokens[y] = <<"text", marker>>
    /\ \A z \in 1 .. y - 1 : z # x => tokens[z] # <<"text", marker>>

LEMMA FirstPairTagged ==
  ASSUME NEW tokens \in Seq(Event), NEW marker, NEW tag, NEW x, NEW y,
         FirstPair(x, y, tokens, marker)
  PROVE  TagOnePair(tokens, marker, tag) =
            [k \in 1 .. Len(tokens) |-> IF k = x THEN Open(tag)
                                        ELSE IF k = y THEN Close(tag) ELSE tokens[k]]
<1> DEFINE found == {k \in DOMAIN tokens : tokens[k] = <<"text", marker>>}
<1>1. /\ DOMAIN tokens = 1 .. Len(tokens) /\ Len(tokens) \in Nat
      /\ x \in 1 .. Len(tokens) /\ y \in x + 1 .. Len(tokens)
      /\ tokens[x] = <<"text", marker>> /\ tokens[y] = <<"text", marker>>
      /\ \A z \in 1 .. y - 1 : z # x => tokens[z] # <<"text", marker>>
  BY LenProperties DEF FirstPair
<1>2. found \subseteq 1 .. Len(tokens) /\ x \in found /\ y \in found /\ x < y
  BY <1>1
<1>3. \A k \in found : k = x \/ y <= k
  BY <1>1
<1>. HIDE DEF found
<1>4. Min(found) = x
  <2>1. found \subseteq Nat /\ \A k \in found : x <= k
    BY <1>1, <1>2, <1>3
  <2>. QED  BY <1>2, <2>1, MinIsLeast
<1>5. Min(found \ {x}) = y
  <2>1. y \in found \ {x} /\ found \ {x} \subseteq Nat /\ \A k \in found \ {x} : y <= k
    BY <1>1, <1>2, <1>3
  <2>. QED  BY <2>1, MinIsLeast
<1>6. ~ (Cardinality(found) < 2)
  BY <1>1, <1>2, TwoElements
<1>7. TagOnePair(tokens, marker, tag) =
         [k \in DOMAIN tokens |-> CASE k = Min(found) -> Open(tag)
                                   [] k = Min(found \ {Min(found)}) -> Close(tag)
                                   [] OTHER -> tokens[k]]
  BY <1>6 DEF TagOnePair, found
<1>. QED  BY <1>1, <1>2, <1>4, <1>5, <1>7

(* Where a closing marker stands, and where no marker follows. *)
Ends(tokens, final, M, C) == {c \in 0 .. Len(tokens) : c = 0 \/ (tokens[c] = M /\ final[c] = C)}

NoneAfter(c, tokens, M) == \A x \in c + 1 .. Len(tokens) : tokens[x] # M

(* A round: the pair after c becomes final, unless there is none. *)
LEMMA OneRound ==
  ASSUME NEW tokens \in Seq(Event), NEW final \in Seq(Event), NEW marker, NEW tag,
         Paired(tokens, final, <<"text", marker>>, Open(tag), Close(tag)),
         NEW c \in Ends(tokens, final, <<"text", marker>>, Close(tag))
  PROVE  \/ /\ NoneAfter(c, tokens, <<"text", marker>>)
            /\ TagOnePair(UpTo(c, tokens, final), marker, tag) = UpTo(c, tokens, final)
         \/ \E d \in c + 1 .. Len(tokens) :
               /\ d \in Ends(tokens, final, <<"text", marker>>, Close(tag))
               /\ TagOnePair(UpTo(c, tokens, final), marker, tag) = UpTo(d, tokens, final)
<1> DEFINE n == Len(tokens)
           M == <<"text", marker>>
           t == UpTo(c, tokens, final)
<1>0. n \in Nat /\ c \in 0 .. n
  BY LenProperties DEF Ends
<1>. USE <1>0
<1>1. /\ n \in Nat /\ Len(final) = n
      /\ \A x \in 1 .. n : tokens[x] \in Event /\ final[x] \in Event
      /\ c \in 0 .. n /\ (c = 0 \/ (tokens[c] = M /\ final[c] = Close(tag)))
  BY LenProperties, ElementOfSeq DEF Paired, Ends
<1>2. M # Open(tag) /\ M # Close(tag) /\ Open(tag) # Close(tag)
  BY DEF Open, Close
<1>3. \A x \in 1 .. n : final[x] # M
  BY <1>2 DEF Paired
<1>4. /\ t \in Seq(Event) /\ Len(t) = n
      /\ \A x \in 1 .. n : t[x] = IF x <= c THEN final[x] ELSE tokens[x]
  BY <1>1 DEF UpTo
<1>. HIDE DEF t
<1>5. CASE \A x \in c + 1 .. n : tokens[x] # M
  <2>1. \A x \in 1 .. n : t[x] # M
    BY <1>3, <1>4, <1>5
  <2>2. TagOnePair(t, marker, tag) = t
    BY <1>4, <2>1, NoMarkerLeft
  <2>. QED  BY <1>5, <2>2 DEF t, NoneAfter
<1>6. CASE \E x \in c + 1 .. n : tokens[x] = M
  <2> DEFINE left == {x \in c + 1 .. n : tokens[x] = M}
  <2>1. left # {} /\ left \subseteq Nat
    BY <1>6
  <2>2. PICK x \in left : \A k \in left : x <= k
    BY <2>1, LeastElement
  <2>3. x \in 1 .. n /\ x > c /\ tokens[x] = M /\ \A z \in c + 1 .. x - 1 : tokens[z] # M
    BY <2>2
  <2>4. final[x] # Close(tag)
    <3>. SUFFICES ASSUME final[x] = Close(tag)
                  PROVE  FALSE
      OBVIOUS
    <3>1. PICK y \in 1 .. x - 1 : /\ tokens[y] = M /\ final[y] = Open(tag)
                                  /\ \A z \in y + 1 .. x - 1 : tokens[z] # M
      BY <1>2, <2>3 DEF Paired
    <3>2. y <= c
      BY <2>3, <3>1
    <3>3. c \in y + 1 .. x - 1 /\ tokens[c] = M
      BY <1>1, <1>2, <2>3, <3>1, <3>2
    <3>. QED  BY <3>1, <3>3
  <2>5. final[x] = Open(tag)
    BY <2>3, <2>4 DEF Paired
  <2>6. PICK y \in x + 1 .. n : /\ tokens[y] = M /\ final[y] = Close(tag)
                                /\ \A z \in x + 1 .. y - 1 : tokens[z] # M
    BY <1>2, <2>3, <2>5 DEF Paired
  <2>7. \A z \in 1 .. y - 1 : z # x => t[z] # M
    <3>. SUFFICES ASSUME NEW z \in 1 .. y - 1, z # x
                  PROVE  t[z] # M
      OBVIOUS
    <3>2. z \in 1 .. n /\ (z <= c \/ z \in c + 1 .. x - 1 \/ z \in x + 1 .. y - 1)
      BY <1>1, <2>3, <2>6
    <3>. QED  BY <1>3, <1>4, <2>3, <2>6, <3>2
  <2>8. t[x] = M /\ t[y] = M
    BY <1>4, <2>3, <2>6
  <2>9. TagOnePair(t, marker, tag) =
           [k \in 1 .. n |-> IF k = x THEN Open(tag) ELSE IF k = y THEN Close(tag) ELSE t[k]]
    <3>1. FirstPair(x, y, t, marker)
      BY <1>1, <1>4, <2>3, <2>6, <2>7, <2>8 DEF FirstPair
    <3>2. TagOnePair(t, marker, tag) =
             [k \in 1 .. Len(t) |-> IF k = x THEN Open(tag)
                                     ELSE IF k = y THEN Close(tag) ELSE t[k]]
      BY <1>4, <3>1, FirstPairTagged
    <3>. QED  BY <1>4, <3>2
  <2>10. ASSUME NEW k \in 1 .. n
         PROVE  (IF k = x THEN Open(tag) ELSE IF k = y THEN Close(tag) ELSE t[k])
                = IF k <= y THEN final[k] ELSE tokens[k]
    <3>1. CASE k = x \/ k = y
      BY <2>5, <2>6, <3>1
    <3>2. CASE k <= c
      BY <1>4, <2>3, <2>6, <3>2
    <3>3. CASE k > c /\ k < y /\ k # x
      <4>1. tokens[k] # M
        BY <2>3, <2>6, <3>3
      <4>2. final[k] = tokens[k]
        BY <4>1 DEF Paired
      <4>. QED  BY <1>4, <3>3, <4>2
    <3>4. CASE k > y
      BY <1>4, <2>3, <2>6, <3>4
    <3>. QED  BY <1>1, <3>1, <3>2, <3>3, <3>4
  <2>11. TagOnePair(t, marker, tag) = UpTo(y, tokens, final)
    BY <2>9, <2>10 DEF UpTo
  <2>12. y \in c + 1 .. n
    BY <2>3, <2>6
  <2>. QED  BY <1>1, <2>6, <2>11, <2>12 DEF t, Ends
<1>. QED  BY <1>5, <1>6

LEMMA AnyRound ==
  ASSUME NEW tokens \in Seq(Event), NEW final \in Seq(Event), NEW marker, NEW tag,
         Paired(tokens, final, <<"text", marker>>, Open(tag), Close(tag)),
         NEW c \in Ends(tokens, final, <<"text", marker>>, Close(tag))
  PROVE  \E d \in Ends(tokens, final, <<"text", marker>>, Close(tag)) :
            /\ TagOnePair(UpTo(c, tokens, final), marker, tag) = UpTo(d, tokens, final)
            /\ d > c \/ (d = c /\ NoneAfter(c, tokens, <<"text", marker>>))
<1>1. c \in 0 .. Len(tokens) /\ Len(tokens) \in Nat
  BY LenProperties DEF Ends
<1>2. \A d \in c + 1 .. Len(tokens) : d > c
  BY <1>1
<1>. QED  BY <1>2, OneRound

(* The loop of process_inline pairs the markers as they were meant. *)
LEMMA PairsAsMeant ==
  ASSUME NEW tokens \in Seq(Event), NEW final \in Seq(Event), NEW marker, NEW tag,
         Paired(tokens, final, <<"text", marker>>, Open(tag), Close(tag))
  PROVE  TagPairs(tokens, marker, tag) = final
<1> DEFINE n == Len(tokens)
           M == <<"text", marker>>
           E == Ends(tokens, final, M, Close(tag))
           S == {UpTo(c, tokens, final) : c \in E}
           step == [k \in 1 .. n |-> [t \in S |-> TagOnePair(t, marker, tag)]]
           Reached(c, t, k) == t = UpTo(c, tokens, final) /\ (c >= k \/ NoneAfter(c, tokens, M))
<1>1. n \in Nat /\ Len(final) = n
  BY LenProperties DEF Paired
<1>2. 0 \in E /\ UpTo(0, tokens, final) = tokens
  <2>1. UpTo(0, tokens, final) = [x \in 1 .. n |-> tokens[x]]
    BY <1>1 DEF UpTo
  <2>. QED  BY <1>1, <2>1, LenProperties DEF Ends
<1>3. \A c \in E : \E d \in E :
         /\ TagOnePair(UpTo(c, tokens, final), marker, tag) = UpTo(d, tokens, final)
         /\ d > c \/ (d = c /\ NoneAfter(c, tokens, M))
  BY AnyRound
<1>4. E \subseteq 0 .. n
  BY DEF Ends
<1>. HIDE DEF E
<1>5. \A t \in S : TagOnePair(t, marker, tag) \in S
  BY <1>3
<1>6. step \in Steps(n, S) /\ tokens \in S
  BY <1>2, <1>5 DEF Steps
<1>7. PICK f \in Results(n, S) : Iterates(f, tokens, step, n)
  <2>. HIDE DEF step, S, n
  <2>. QED  BY <1>1, <1>6, Iteration
<1>8. f[0] = tokens /\ \A k \in 1 .. n : f[k] = TagOnePair(f[k - 1], marker, tag)
  <2>1. \A k \in 1 .. n : k - 1 \in 0 .. n
    BY <1>1
  <2>2. \A k \in 1 .. n : f[k - 1] \in S
    BY <1>7, <2>1 DEF Results
  <2>. HIDE DEF S
  <2>. QED  BY <1>7, <2>2 DEF Iterates
<1>9. TagPairs(tokens, marker, tag) = f[n]
  <2> DEFINE after[rounds \in 0 .. Len(tokens)] ==
                 IF rounds = 0 THEN tokens ELSE TagOnePair(after[rounds - 1], marker, tag)
  <2>1. TagPairs(tokens, marker, tag) = after[n]
    BY DEF TagPairs
  <2>2. f = [rounds \in 0 .. Len(tokens) |->
                IF rounds = 0 THEN tokens ELSE TagOnePair(f[rounds - 1], marker, tag)]
    BY <1>7, <1>8 DEF Results
  <2>3. after = [rounds \in 0 .. Len(tokens) |->
                    IF rounds = 0 THEN tokens ELSE TagOnePair(after[rounds - 1], marker, tag)]
    BY <2>2
  <2>. HIDE DEF after
  <2>4. after[0] = f[0]
    BY <1>1, <1>8, <2>3
  <2>5. SameSteps(after, f, n)
    BY <1>1, <1>8, <2>3 DEF SameSteps
  <2>. HIDE DEF n
  <2>6. after[n] = f[n]
    <3>1. \A k \in 0 .. n : after[k] = f[k]
      BY <1>1, <2>4, <2>5, IterationUnique
    <3>. QED  BY <1>1, <3>1
  <2>. QED  BY <2>1, <2>6
<1> DEFINE P == {k \in Nat : k <= n => \E c \in E : Reached(c, f[k], k)}
<1>. HIDE DEF n, S, step
<1>10. 0 \in P
  BY <1>2, <1>8
<1>11. ASSUME NEW k \in Nat, k \in P
       PROVE  k + 1 \in P
  <2>. SUFFICES ASSUME k + 1 <= n
                PROVE  \E c \in E : Reached(c, f[k + 1], k + 1)
    OBVIOUS
  <2>1. PICK c \in E : Reached(c, f[k], k)
    BY <1>1, <1>11
  <2>2. PICK d \in E : /\ TagOnePair(UpTo(c, tokens, final), marker, tag) = UpTo(d, tokens, final)
                       /\ d > c \/ (d = c /\ NoneAfter(c, tokens, M))
    BY <1>3
  <2>3. k + 1 \in 1 .. n /\ (k + 1) - 1 = k
    BY <1>1
  <2>4. f[k + 1] = UpTo(d, tokens, final)
    BY <1>8, <2>1, <2>2, <2>3
  <2>5. c \in Nat /\ d \in Nat /\ (d > c => ~ NoneAfter(c, tokens, M) \/ NoneAfter(d, tokens, M))
    BY <1>1, <1>4 DEF NoneAfter, n
  <2>6. d >= k + 1 \/ NoneAfter(d, tokens, M)
    BY <2>1, <2>2, <2>5
  <2>. QED  BY <2>4, <2>6
<1>12. Nat \subseteq P
  <2>. HIDE DEF P
  <2>. QED  BY <1>10, <1>11, SetInduction
<1>13. PICK c \in E : f[n] = UpTo(c, tokens, final) /\ (c >= n \/ NoneAfter(c, tokens, M))
  BY <1>1, <1>12
<1>14. UpTo(c, tokens, final) = final
  <2>1. c \in 0 .. n
    BY <1>4
  <2>2. ASSUME NEW x \in 1 .. n
        PROVE  (IF x <= c THEN final[x] ELSE tokens[x]) = final[x]
    <3>1. CASE x <= c
      BY <3>1
    <3>2. CASE x > c
      <4>1. tokens[x] # M
        BY <1>1, <1>13, <2>1, <3>2 DEF NoneAfter, n
      <4>. QED  BY <3>2, <4>1 DEF Paired, n
    <3>. QED  BY <1>1, <2>1, <3>1, <3>2
  <2>3. UpTo(c, tokens, final) = [x \in 1 .. n |-> final[x]]
    BY <2>2 DEF UpTo, n
  <2>. QED  BY <1>1, <2>3, LenProperties
<1>. QED  BY <1>9, <1>13, <1>14

LEMMA ConcatIndex ==
  ASSUME NEW T, NEW a \in Seq(T), NEW b \in Seq(T)
  PROVE  /\ a \o b \in Seq(T) /\ Len(a) \in Nat /\ Len(b) \in Nat
         /\ Len(a \o b) = Len(a) + Len(b)
         /\ \A x \in 1 .. Len(a) : (a \o b)[x] = a[x]
         /\ \A x \in 1 .. Len(b) : (a \o b)[Len(a) + x] = b[x]
BY ConcatProperties, LenProperties

LEMMA Prepend ==
  ASSUME NEW T, NEW e \in T, NEW s \in Seq(T)
  PROVE  /\ <<e>> \o s \in Seq(T) /\ Len(<<e>> \o s) = Len(s) + 1
         /\ (<<e>> \o s)[1] = e
         /\ \A k \in 1 .. Len(s) : (<<e>> \o s)[k + 1] = s[k]
<1> DEFINE a == <<e>>
<1>0. a \in Seq(T)
  OBVIOUS
<1>1. Len(a) = 1 /\ a[1] = e
  OBVIOUS
<1>. HIDE DEF a
<1>2. /\ a \o s \in Seq(T) /\ Len(s) \in Nat /\ Len(a \o s) = Len(a) + Len(s)
      /\ \A x \in 1 .. Len(a) : (a \o s)[x] = a[x]
      /\ \A x \in 1 .. Len(s) : (a \o s)[Len(a) + x] = s[x]
  BY <1>0, ConcatIndex
<1>3. \A k \in 1 .. Len(s) : 1 + k = k + 1
  BY <1>2
<1>4. /\ a \o s \in Seq(T) /\ Len(a \o s) = Len(s) + 1 /\ (a \o s)[1] = e
      /\ \A k \in 1 .. Len(s) : (a \o s)[k + 1] = s[k]
  BY <1>1, <1>2, <1>3
<1>. QED  BY <1>4 DEF a

LEMMA PairedNone ==
  ASSUME NEW tokens \in Seq(Event), NEW M, NEW O, NEW C,
         \A x \in 1 .. Len(tokens) : tokens[x] # M
  PROVE  Paired(tokens, tokens, M, O, C)
BY DEF Paired

LEMMA PairedConcat ==
  ASSUME NEW a \in Seq(Event), NEW fa \in Seq(Event), NEW b \in Seq(Event), NEW fb \in Seq(Event),
         NEW M, NEW O, NEW C, Paired(a, fa, M, O, C), Paired(b, fb, M, O, C)
  PROVE  Paired(a \o b, fa \o fb, M, O, C)
<1> DEFINE t == a \o b
           f == fa \o fb
           n == Len(a)
           m == Len(b)
<1>1. /\ n \in Nat /\ m \in Nat /\ Len(fa) = n /\ Len(fb) = m
      /\ Len(t) = n + m /\ Len(f) = n + m
      /\ \A x \in 1 .. n : t[x] = a[x] /\ f[x] = fa[x]
      /\ \A x \in 1 .. m : t[n + x] = b[x] /\ f[n + x] = fb[x]
  <2>1. Len(fa) = n /\ Len(fb) = m
    BY DEF Paired
  <2>2. /\ n \in Nat /\ m \in Nat /\ Len(t) = n + m
        /\ \A x \in 1 .. n : t[x] = a[x]
        /\ \A x \in 1 .. m : t[n + x] = b[x]
    BY ConcatIndex
  <2>3. /\ Len(f) = n + m
        /\ \A x \in 1 .. n : f[x] = fa[x]
        /\ \A x \in 1 .. m : f[n + x] = fb[x]
    <3>1. /\ Len(fa \o fb) = Len(fa) + Len(fb)
          /\ \A x \in 1 .. Len(fa) : (fa \o fb)[x] = fa[x]
          /\ \A x \in 1 .. Len(fb) : (fa \o fb)[Len(fa) + x] = fb[x]
      BY ConcatIndex
    <3>. HIDE DEF n, m
    <3>. QED  BY <2>1, <3>1
  <2>. QED  BY <2>1, <2>2, <2>3
<1>2. \A x \in 1 .. n :
         \/ a[x] # M /\ fa[x] = a[x]
         \/ /\ a[x] = M /\ fa[x] = O
            /\ \E y \in x + 1 .. n : a[y] = M /\ fa[y] = C /\ \A z \in x + 1 .. y - 1 : a[z] # M
         \/ /\ a[x] = M /\ fa[x] = C
            /\ \E y \in 1 .. x - 1 : a[y] = M /\ fa[y] = O /\ \A z \in y + 1 .. x - 1 : a[z] # M
  BY DEF Paired
<1>3. \A x \in 1 .. m :
         \/ b[x] # M /\ fb[x] = b[x]
         \/ /\ b[x] = M /\ fb[x] = O
            /\ \E y \in x + 1 .. m : b[y] = M /\ fb[y] = C /\ \A z \in x + 1 .. y - 1 : b[z] # M
         \/ /\ b[x] = M /\ fb[x] = C
            /\ \E y \in 1 .. x - 1 : b[y] = M /\ fb[y] = O /\ \A z \in y + 1 .. x - 1 : b[z] # M
  BY DEF Paired
<1> DEFINE Right(x) ==
              \/ t[x] # M /\ f[x] = t[x]
              \/ /\ t[x] = M /\ f[x] = O
                 /\ \E y \in x + 1 .. n + m :
                       t[y] = M /\ f[y] = C /\ \A z \in x + 1 .. y - 1 : t[z] # M
              \/ /\ t[x] = M /\ f[x] = C
                 /\ \E y \in 1 .. x - 1 :
                       t[y] = M /\ f[y] = O /\ \A z \in y + 1 .. x - 1 : t[z] # M
<1>. HIDE DEF t, f, n, m
<1>4. ASSUME NEW x \in 1 .. n
      PROVE  Right(x)
  <2>1. CASE a[x] # M /\ fa[x] = a[x]
    BY <1>1, <2>1
  <2>2. ASSUME a[x] = M, fa[x] = O, NEW y \in x + 1 .. n, a[y] = M, fa[y] = C,
               \A z \in x + 1 .. y - 1 : a[z] # M
        PROVE  Right(x)
    <3>1. y \in x + 1 .. n + m /\ y \in 1 .. n /\ t[y] = M /\ f[y] = C
      BY <1>1, <2>2
    <3>2. ASSUME NEW z \in x + 1 .. y - 1
          PROVE  t[z] # M
      <4>1. z \in 1 .. n
        BY <1>1, <3>1
      <4>2. a[z] # M
        BY <2>2
      <4>. QED  BY <1>1, <4>1, <4>2
    <3>3. t[x] = M /\ f[x] = O
      BY <1>1, <2>2
    <3>. QED  BY <3>1, <3>2, <3>3
  <2>3. ASSUME a[x] = M, fa[x] = C, NEW y \in 1 .. x - 1, a[y] = M, fa[y] = O,
               \A z \in y + 1 .. x - 1 : a[z] # M
        PROVE  Right(x)
    <3>1. y \in 1 .. x - 1 /\ y \in 1 .. n /\ t[y] = M /\ f[y] = O
      BY <1>1, <2>3
    <3>2. ASSUME NEW z \in y + 1 .. x - 1
          PROVE  t[z] # M
      <4>1. z \in 1 .. n
        BY <1>1, <3>1
      <4>2. a[z] # M
        BY <2>3
      <4>. QED  BY <1>1, <4>1, <4>2
    <3>3. t[x] = M /\ f[x] = C
      BY <1>1, <2>3
    <3>. QED  BY <3>1, <3>2, <3>3
  <2>. HIDE DEF Right
  <2>. QED  BY <1>2, <2>1, <2>2, <2>3
<1>5. ASSUME NEW x \in 1 .. m
      PROVE  Right(n + x)
  <2>1. CASE b[x] # M /\ fb[x] = b[x]
    BY <1>1, <2>1
  <2>2. ASSUME b[x] = M, fb[x] = O, NEW y \in x + 1 .. m, b[y] = M, fb[y] = C,
               \A z \in x + 1 .. y - 1 : b[z] # M
        PROVE  Right(n + x)
    <3>1. n + y \in (n + x) + 1 .. n + m /\ y \in 1 .. m /\ t[n + y] = M /\ f[n + y] = C
      BY <1>1, <2>2
    <3>2. ASSUME NEW z \in (n + x) + 1 .. (n + y) - 1
          PROVE  t[z] # M
      <4>1. z - n \in x + 1 .. y - 1 /\ z - n \in 1 .. m /\ n + (z - n) = z
        BY <1>1, <3>1
      <4>2. b[z - n] # M
        BY <2>2, <4>1
      <4>3. t[n + (z - n)] = b[z - n]
        BY <1>1, <4>1
      <4>. QED  BY <4>1, <4>2, <4>3
    <3>3. t[n + x] = M /\ f[n + x] = O
      BY <1>1, <2>2
    <3>4. \E w \in (n + x) + 1 .. n + m :
             t[w] = M /\ f[w] = C /\ \A z \in (n + x) + 1 .. w - 1 : t[z] # M
      <4> DEFINE w == n + y
      <4>1. /\ w \in (n + x) + 1 .. n + m /\ t[w] = M /\ f[w] = C
            /\ \A z \in (n + x) + 1 .. w - 1 : t[z] # M
        BY <3>1, <3>2
      <4>. HIDE DEF w
      <4>. QED  BY <4>1
    <3>. QED  BY <3>3, <3>4
  <2>3. ASSUME b[x] = M, fb[x] = C, NEW y \in 1 .. x - 1, b[y] = M, fb[y] = O,
               \A z \in y + 1 .. x - 1 : b[z] # M
        PROVE  Right(n + x)
    <3>1. n + y \in 1 .. (n + x) - 1 /\ y \in 1 .. m /\ t[n + y] = M /\ f[n + y] = O
      BY <1>1, <2>3
    <3>2. ASSUME NEW z \in (n + y) + 1 .. (n + x) - 1
          PROVE  t[z] # M
      <4>1. z - n \in y + 1 .. x - 1 /\ z - n \in 1 .. m /\ n + (z - n) = z
        BY <1>1, <3>1
      <4>2. b[z - n] # M
        BY <2>3, <4>1
      <4>3. t[n + (z - n)] = b[z - n]
        BY <1>1, <4>1
      <4>. QED  BY <4>1, <4>2, <4>3
    <3>3. t[n + x] = M /\ f[n + x] = C
      BY <1>1, <2>3
    <3>4. \E w \in 1 .. (n + x) - 1 :
             t[w] = M /\ f[w] = O /\ \A z \in w + 1 .. (n + x) - 1 : t[z] # M
      BY <3>1, <3>2
    <3>. QED  BY <3>3, <3>4, Zenon
  <2>. HIDE DEF Right
  <2>. QED  BY <1>3, <2>1, <2>2, <2>3
<1>6. \A x \in 1 .. n + m : Right(x)
  <2>1. ASSUME NEW x \in 1 .. n + m
        PROVE  Right(x)
    <3>1. CASE x <= n
      <4>. HIDE DEF Right
      <4>. QED  BY <1>1, <1>4, <3>1
    <3>2. CASE x > n
      <4>1. x - n \in 1 .. m /\ n + (x - n) = x
        BY <1>1, <3>2
      <4>. HIDE DEF Right
      <4>. QED  BY <1>5, <4>1
    <3>. QED  BY <1>1, <3>1, <3>2
  <2>. QED  BY <2>1
<1>7. Paired(t, f, M, O, C)
  BY <1>1, <1>6 DEF Paired
<1>. QED  BY <1>7 DEF t, f

(***************************************************************************)
(* A sequence that is put together piece by piece: F[e] for every e.       *)
(***************************************************************************)
Pieces(F, s) == FlattenSeq([k \in DOMAIN s |-> F[s[k]]])

PieceOf(S, T) == [S -> Seq(T)]

LEMMA PiecesEmpty ==
  ASSUME NEW F
  PROVE  Pieces(F, <<>>) = <<>>
<1>1. [k \in DOMAIN <<>> |-> F[<<>>[k]]] = <<>>
  OBVIOUS
<1>. QED  BY <1>1, FlattenSeqEmpty DEF Pieces

LEMMA PiecesAppend ==
  ASSUME NEW S, NEW T, NEW F \in PieceOf(S, T), NEW s \in Seq(S), NEW e \in S
  PROVE  /\ Pieces(F, s) \in Seq(T)
         /\ Pieces(F, Append(s, e)) = Pieces(F, s) \o F[e]
<1>. USE DEF PieceOf
<1> DEFINE some == [k \in DOMAIN s |-> F[s[k]]]
           more == [k \in DOMAIN Append(s, e) |-> F[Append(s, e)[k]]]
<1>1. some \in Seq(Seq(T)) /\ Len(some) = Len(s)
  <2>1. DOMAIN s = 1 .. Len(s) /\ Len(s) \in Nat
    BY LenProperties
  <2>2. \A k \in DOMAIN s : F[s[k]] \in Seq(T)
    BY <2>1
  <2>. QED  BY <2>1, <2>2
<1>2. F[e] \in Seq(T)
  OBVIOUS
<1>3. more = Append(some, F[e])
  <2>1. /\ Len(s) \in Nat /\ DOMAIN s = 1 .. Len(s)
        /\ DOMAIN Append(s, e) = 1 .. Len(s) + 1 /\ Append(s, e)[Len(s) + 1] = e
        /\ \A k \in 1 .. Len(s) : Append(s, e)[k] = s[k]
    BY AppendProperties, LenProperties
  <2>2. /\ Append(some, F[e]) \in Seq(Seq(T)) /\ Len(Append(some, F[e])) = Len(s) + 1
        /\ Append(some, F[e])[Len(s) + 1] = F[e]
        /\ \A k \in 1 .. Len(s) : Append(some, F[e])[k] = some[k]
    BY <1>1, <1>2, AppendProperties
  <2>3. \A k \in 1 .. Len(s) : some[k] = F[s[k]]
    BY <2>1
  <2>4. Append(some, F[e]) = [k \in 1 .. Len(s) + 1 |-> Append(some, F[e])[k]]
    BY <2>2, LenProperties
  <2> DEFINE right == Append(some, F[e])
  <2>. HIDE DEF right
  <2>5. \A k \in 1 .. Len(s) + 1 : F[Append(s, e)[k]] = right[k]
    <3>. SUFFICES ASSUME NEW k \in 1 .. Len(s) + 1
                  PROVE  F[Append(s, e)[k]] = right[k]
      OBVIOUS
    <3>1. CASE k \in 1 .. Len(s)
      BY <2>1, <2>2, <2>3, <3>1 DEF right
    <3>2. CASE k = Len(s) + 1
      BY <2>1, <2>2, <3>2 DEF right
    <3>. QED  BY <2>1, <3>1, <3>2
  <2>6. more = [k \in 1 .. Len(s) + 1 |-> right[k]]
    BY <2>1, <2>5
  <2>. QED  BY <2>4, <2>6 DEF right
<1>4. FlattenSeq(some) \in Seq(T) /\ FlattenSeq(Append(some, F[e])) = FlattenSeq(some) \o F[e]
  <2>. HIDE DEF some
  <2>. QED  BY <1>1, <1>2, FlattenSeqAppend
<1>. QED  BY <1>3, <1>4 DEF Pieces

(***************************************************************************)
(* Inline text.                                                            *)
(***************************************************************************)
Span == {"word", "link", "code", "bold"}

(* The HTML once the code is found. *)
SpanMid == [word |-> Escaped(<<"word">>),
            link |-> Escaped(<<"link">>),
            code |-> Element("code", Escaped(<<"word">>)),
            bold |-> Escaped(<<"stars", "word", "stars">>)]

LEMMA EscapedFacts ==
  ASSUME NEW text \in Seq(Words)
  PROVE  /\ Escaped(text) \in Seq(PlainEvent) /\ Escaped(text) \in Seq(Event)
         /\ Len(Escaped(text)) = Len(text)
         /\ \A k \in 1 .. Len(text) : Escaped(text)[k] = <<"text", text[k]>>
<1>1. DOMAIN text = 1 .. Len(text) /\ Len(text) \in Nat
  BY LenProperties
<1>2. \A k \in 1 .. Len(text) : <<"text", text[k]>> \in PlainEvent
  BY <1>1 DEF PlainEvent, Names
<1>3. Escaped(text) \in Seq(PlainEvent) /\ Len(Escaped(text)) = Len(text)
  BY <1>1, <1>2 DEF Escaped
<1>4. Escaped(text) \in Seq(Event)
  BY <1>3, BalancedPlain
<1>. QED  BY <1>1, <1>3, <1>4 DEF Escaped

LEMMA EscapedConcat ==
  ASSUME NEW a \in Seq(Words), NEW b \in Seq(Words)
  PROVE  a \o b \in Seq(Words) /\ Escaped(a \o b) = Escaped(a) \o Escaped(b)
<1> DEFINE left == Escaped(a \o b)
           right == Escaped(a) \o Escaped(b)
<1>1. /\ a \o b \in Seq(Words) /\ Len(a) \in Nat /\ Len(b) \in Nat
      /\ Len(a \o b) = Len(a) + Len(b)
      /\ \A x \in 1 .. Len(a) : (a \o b)[x] = a[x]
      /\ \A x \in 1 .. Len(b) : (a \o b)[Len(a) + x] = b[x]
  BY ConcatIndex
<1>2. /\ left \in Seq(Event) /\ Len(left) = Len(a) + Len(b)
      /\ \A k \in 1 .. Len(a) + Len(b) : left[k] = <<"text", (a \o b)[k]>>
  BY <1>1, EscapedFacts
<1>3. /\ Escaped(a) \in Seq(Event) /\ Len(Escaped(a)) = Len(a)
      /\ \A k \in 1 .. Len(a) : Escaped(a)[k] = <<"text", a[k]>>
  BY EscapedFacts
<1>4. /\ Escaped(b) \in Seq(Event) /\ Len(Escaped(b)) = Len(b)
      /\ \A k \in 1 .. Len(b) : Escaped(b)[k] = <<"text", b[k]>>
  BY EscapedFacts
<1>5. /\ right \in Seq(Event) /\ Len(right) = Len(a) + Len(b)
      /\ \A x \in 1 .. Len(a) : right[x] = Escaped(a)[x]
      /\ \A x \in 1 .. Len(b) : right[Len(a) + x] = Escaped(b)[x]
  <2>1. /\ right \in Seq(Event) /\ Len(right) = Len(Escaped(a)) + Len(Escaped(b))
        /\ \A x \in 1 .. Len(Escaped(a)) : right[x] = Escaped(a)[x]
        /\ \A x \in 1 .. Len(Escaped(b)) : right[Len(Escaped(a)) + x] = Escaped(b)[x]
    <3> DEFINE A == Escaped(a)
               B == Escaped(b)
    <3>1. A \in Seq(Event) /\ B \in Seq(Event)
      BY <1>3, <1>4
    <3>. HIDE DEF A, B
    <3>2. /\ A \o B \in Seq(Event) /\ Len(A \o B) = Len(A) + Len(B)
          /\ \A x \in 1 .. Len(A) : (A \o B)[x] = A[x]
          /\ \A x \in 1 .. Len(B) : (A \o B)[Len(A) + x] = B[x]
      BY <3>1, ConcatIndex
    <3>. QED  BY <3>2 DEF A, B
  <2>. HIDE DEF right
  <2>. QED  BY <1>3, <1>4, <2>1
<1>. HIDE DEF left, right
<1>6. ASSUME NEW k \in 1 .. Len(a) + Len(b)
      PROVE  left[k] = right[k]
  <2>1. CASE k <= Len(a)
    <3>1. k \in 1 .. Len(a)
      BY <1>1, <2>1
    <3>. QED  BY <1>1, <1>2, <1>3, <1>5, <3>1
  <2>2. CASE k > Len(a)
    <3>1. k - Len(a) \in 1 .. Len(b) /\ Len(a) + (k - Len(a)) = k
      BY <1>1, <2>2
    <3>2. (a \o b)[k] = b[k - Len(a)] /\ right[k] = Escaped(b)[k - Len(a)]
      BY <1>1, <1>5, <3>1
    <3>. QED  BY <1>2, <1>4, <3>1, <3>2
  <2>. QED  BY <1>1, <2>1, <2>2
<1>7. /\ left = [k \in 1 .. Len(a) + Len(b) |-> left[k]]
      /\ right = [k \in 1 .. Len(a) + Len(b) |-> right[k]]
  BY <1>2, <1>5, LenProperties
<1>8. left = right
  BY <1>6, <1>7
<1>. QED  BY <1>1, <1>8 DEF left, right

LEMMA WordsOfSpans ==
  /\ DOMAIN SpanSource = Span
  /\ <<"word">> \in Seq(Words) /\ <<"tick", "word", "tick">> \in Seq(Words)
  /\ <<"link">> \in Seq(Words) /\ <<"stars", "word", "stars">> \in Seq(Words)
  /\ SpanSource \in [Span -> Seq(Words)]
<1>1. /\ <<"word">> \in Seq(Words) /\ <<"tick", "word", "tick">> \in Seq(Words)
      /\ <<"link">> \in Seq(Words) /\ <<"stars", "word", "stars">> \in Seq(Words)
  BY DEF Words
<1>2. DOMAIN SpanSource = Span
  BY DEF SpanSource, Span
<1>3. /\ SpanSource["word"] = <<"word">> /\ SpanSource["code"] = <<"tick", "word", "tick">>
      /\ SpanSource["link"] = <<"link">> /\ SpanSource["bold"] = <<"stars", "word", "stars">>
  BY DEF SpanSource
<1>4. SpanSource = [e \in Span |-> SpanSource[e]]
  BY DEF SpanSource, Span
<1>. QED  BY <1>1, <1>2, <1>3, <1>4 DEF Span

LEMMA TwoConcat ==
  ASSUME NEW T, NEW a \in T, NEW b \in T
  PROVE  <<a>> \o <<b>> = <<a, b>>
<1> DEFINE left == Append(<<a>>, b)
           right == <<a, b>>
<1>1. <<a>> \in Seq(T)
  OBVIOUS
<1>2. <<a>> \o <<b>> = left
  BY <1>1, AppendIsConcat
<1>3. left = [k \in 1 .. 2 |-> left[k]] /\ right = [k \in 1 .. 2 |-> right[k]]
  OBVIOUS
<1>4. left[1] = right[1] /\ left[2] = right[2] /\ \A k \in 1 .. 2 : k = 1 \/ k = 2
  OBVIOUS
<1>. HIDE DEF left, right
<1>5. \A k \in 1 .. 2 : left[k] = right[k]
  BY <1>4
<1>6. left = right
  BY <1>3, <1>5
<1>. QED  BY <1>2, <1>6 DEF right

(* An element around one word, event by event. *)
LEMMA WordElement ==
  ASSUME NEW tag \in Names
  PROVE  Element(tag, Escaped(<<"word">>)) = <<Open(tag), <<"text", "word">>, Close(tag)>>
<1> DEFINE W == <<"text", "word">>
           O == Open(tag)
           C == Close(tag)
<1>1. Escaped(<<"word">>) = <<W>>
  BY DEF Escaped
<1>2. <<O>> \o <<W>> \o <<C>> = <<O, W, C>>
  <2> DEFINE X == {O, W, C}
             left == Append(Append(<<O>>, W), C)
             right == <<O, W, C>>
  <2>1. O \in X /\ W \in X /\ C \in X
    OBVIOUS
  <2>. HIDE DEF X, O, W, C
  <2>2. <<O>> \in Seq(X) /\ Append(<<O>>, W) \in Seq(X)
    BY <2>1
  <2>3. <<O>> \o <<W>> \o <<C>> = left
    BY <2>1, <2>2, AppendIsConcat
  <2>4. left = [k \in 1 .. 3 |-> left[k]] /\ right = [k \in 1 .. 3 |-> right[k]]
    BY <2>1
  <2>5. left[1] = right[1] /\ left[2] = right[2] /\ left[3] = right[3]
    BY <2>1
  <2>6. \A k \in 1 .. 3 : k = 1 \/ k = 2 \/ k = 3
    OBVIOUS
  <2>. HIDE DEF left, right
  <2>7. \A k \in 1 .. 3 : left[k] = right[k]
    BY <2>5, <2>6
  <2>8. left = right
    BY <2>4, <2>7
  <2>. QED  BY <2>3, <2>8 DEF right
<1>. HIDE DEF W
<1>3. Element(tag, <<W>>) = <<O, W, C>>
  BY <1>2 DEF Element
<1>. QED  BY <1>1, <1>3 DEF W

(* The two stages of process_inline on a single span. *)
LEMMA OneSpan ==
  ASSUME NEW e \in Span
  PROVE  /\ SpanMid[e] \in Seq(Event) /\ SpanHtml[e] \in Seq(Event) /\ Balanced(SpanHtml[e])
         /\ Paired(Escaped(SpanSource[e]), SpanMid[e], <<"text", "tick">>, Open("code"), Close("code"))
         /\ Paired(SpanMid[e], SpanHtml[e], <<"text", "stars">>, Open("strong"), Close("strong"))
<1> DEFINE W == <<"text", "word">>
           L == <<"text", "link">>
           T == <<"text", "tick">>
           S == <<"text", "stars">>
<1>1. /\ W \in Event /\ T \in Event /\ S \in Event /\ W # T /\ W # S /\ S # T
      /\ L \in Event /\ L # T /\ L # S
  BY DEF Event, Names, Words
<1>2. /\ Escaped(<<"word">>) = <<W>> /\ Escaped(<<"link">>) = <<L>>
      /\ Escaped(<<"tick", "word", "tick">>) = <<T, W, T>>
      /\ Escaped(<<"stars", "word", "stars">>) = <<S, W, S>>
  BY DEF Escaped
<1>3. /\ Open("code") \in Event /\ Close("code") \in Event
      /\ Open("strong") \in Event /\ Close("strong") \in Event
      /\ {Open("code"), Close("code"), Open("strong"), Close("strong")} \cap {W, T, S} = {}
  BY DEF Open, Close, Event, Names
<1>4. /\ Element("code", Escaped(<<"word">>)) = <<Open("code"), W, Close("code")>>
      /\ Element("strong", Escaped(<<"word">>)) = <<Open("strong"), W, Close("strong")>>
  BY WordElement DEF Names
<1>5. Balanced(<<W>>) /\ <<W>> \in Seq(Event) /\ Balanced(<<L>>) /\ <<L>> \in Seq(Event)
  BY <1>2, WordsOfSpans, EscapedFacts, BalancedPlain
<1>6. /\ Balanced(Element("code", Escaped(<<"word">>)))
      /\ Balanced(Element("strong", Escaped(<<"word">>)))
  <2>1. "code" \in Names /\ "strong" \in Names
    BY DEF Names
  <2>. QED  BY <1>2, <1>5, <2>1, BalancedElement
<1>. HIDE DEF W, L, T, S
<1> DEFINE Co == Open("code")
           Cc == Close("code")
           So == Open("strong")
           Sc == Close("strong")
<1>7. /\ Co \in Event /\ Cc \in Event /\ So \in Event /\ Sc \in Event
      /\ {Co, Cc, So, Sc} \cap {W, T, S} = {}
  BY <1>3
<1>. HIDE DEF Co, Cc, So, Sc
<1>8. /\ Paired(<<W>>, <<W>>, T, Co, Cc) /\ Paired(<<W>>, <<W>>, S, So, Sc)
      /\ Paired(<<L>>, <<L>>, T, Co, Cc) /\ Paired(<<L>>, <<L>>, S, So, Sc)
  <2>1. /\ \A x \in 1 .. Len(<<W>>) : <<W>>[x] # T /\ <<W>>[x] # S
        /\ \A x \in 1 .. Len(<<L>>) : <<L>>[x] # T /\ <<L>>[x] # S
    BY <1>1
  <2>. QED  BY <1>5, <2>1, PairedNone
<1>9. Paired(<<T, W, T>>, <<Co, W, Cc>>, T, Co, Cc) /\ Paired(<<S, W, S>>, <<So, W, Sc>>, S, So, Sc)
  <2>1. ASSUME NEW M \in Event, NEW O, NEW C, M # W
        PROVE  Paired(<<M, W, M>>, <<O, W, C>>, M, O, C)
    <3>1. \E y \in 2 .. 3 : /\ <<M, W, M>>[y] = M /\ <<O, W, C>>[y] = C
                            /\ \A z \in 2 .. y - 1 : <<M, W, M>>[z] # M
      <4>1. \A z \in 2 .. 3 - 1 : z = 2
        OBVIOUS
      <4>. QED  BY <2>1, <4>1
    <3>2. \E y \in 1 .. 2 : /\ <<M, W, M>>[y] = M /\ <<O, W, C>>[y] = O
                            /\ \A z \in y + 1 .. 2 : <<M, W, M>>[z] # M
      <4>1. \A z \in 1 + 1 .. 2 : z = 2
        OBVIOUS
      <4>. QED  BY <2>1, <4>1
    <3>3. \A x \in 1 .. 3 : x = 1 \/ x = 2 \/ x = 3
      OBVIOUS
    <3>4. 3 - 1 = 2 /\ 1 + 1 = 2
      OBVIOUS
    <3>. QED  BY <2>1, <3>1, <3>2, <3>3, <3>4 DEF Paired
  <2>. QED  BY <1>1, <2>1
<1>10. Paired(<<Co, W, Cc>>, <<Co, W, Cc>>, S, So, Sc) /\ Paired(<<S, W, S>>, <<S, W, S>>, T, Co, Cc)
  <2>1. ASSUME NEW a \in Event, NEW c \in Event, NEW M, M \notin {a, W, c}, NEW O, NEW C
        PROVE  Paired(<<a, W, c>>, <<a, W, c>>, M, O, C)
    <3>1. <<a, W, c>> \in Seq(Event) /\ Len(<<a, W, c>>) = 3
      BY <1>1
    <3>2. \A x \in 1 .. 3 : x = 1 \/ x = 2 \/ x = 3
      OBVIOUS
    <3>3. \A x \in 1 .. 3 : <<a, W, c>>[x] # M
      BY <2>1, <3>2
    <3>. QED  BY <3>1, <3>3, PairedNone
  <2>. QED  BY <1>1, <1>7, <2>1
<1>11. CASE e = "word"
  BY <1>2, <1>5, <1>8, <1>11 DEF SpanMid, SpanHtml, SpanSource, Co, Cc, So, Sc, T, S
<1>12. CASE e = "code"
  <2>1. <<Co, W, Cc>> \in Seq(Event)
    BY <1>1, <1>7
  <2>. QED  BY <1>2, <1>4, <1>6, <1>9, <1>10, <1>12, <2>1
            DEF SpanMid, SpanHtml, SpanSource, Co, Cc, So, Sc, T, S
<1>13. CASE e = "bold"
  <2>1. <<So, W, Sc>> \in Seq(Event) /\ <<S, W, S>> \in Seq(Event)
    BY <1>1, <1>7
  <2>. QED  BY <1>2, <1>4, <1>6, <1>9, <1>10, <1>13, <2>1
            DEF SpanMid, SpanHtml, SpanSource, Co, Cc, So, Sc, T, S
<1>14. CASE e = "link"
  BY <1>2, <1>5, <1>8, <1>14 DEF SpanMid, SpanHtml, SpanSource, Co, Cc, So, Sc, T, S
<1>. QED  BY <1>11, <1>12, <1>13, <1>14 DEF Span

(* Inline text of any number of words, links, codes and bolds becomes their HTML in
   the same order, and its tags nest: the two loops of process_inline, which
   look for the first two markers that are left, pair each with the one its
   author meant (main.rs:167-202). *)
THEOREM InlineAsWritten ==
  ASSUME NEW spans \in Seq(Span)
  PROVE  /\ Pieces(SpanSource, spans) \in Seq(Words)
         /\ Pieces(SpanHtml, spans) \in Seq(Event)
         /\ Balanced(Pieces(SpanHtml, spans))
         /\ process_inline(Pieces(SpanSource, spans)) = Pieces(SpanHtml, spans)
<1> DEFINE Source(s) == Pieces(SpanSource, s)
           Mid(s) == Pieces(SpanMid, s)
           Html(s) == Pieces(SpanHtml, s)
           Good(s) == /\ Source(s) \in Seq(Words) /\ Mid(s) \in Seq(Event) /\ Html(s) \in Seq(Event)
                      /\ Balanced(Html(s))
                      /\ Paired(Escaped(Source(s)), Mid(s),
                                <<"text", "tick">>, Open("code"), Close("code"))
                      /\ Paired(Mid(s), Html(s),
                                <<"text", "stars">>, Open("strong"), Close("strong"))
           P == {s \in Seq(Span) : Good(s)}
<1>0. /\ SpanSource \in [Span -> Seq(Words)]
      /\ SpanMid \in [Span -> Seq(Event)] /\ SpanHtml \in [Span -> Seq(Event)]
  <2>1. SpanMid = [e \in Span |-> SpanMid[e]] /\ SpanHtml = [e \in Span |-> SpanHtml[e]]
    BY DEF SpanMid, SpanHtml, Span
  <2>. QED  BY <2>1, OneSpan, WordsOfSpans
<1>1. /\ SpanSource \in PieceOf(Span, Words)
      /\ SpanMid \in PieceOf(Span, Event) /\ SpanHtml \in PieceOf(Span, Event)
  BY <1>0 DEF PieceOf
<1>2. <<>> \in P
  <2>1. Source(<<>>) = <<>> /\ Mid(<<>>) = <<>> /\ Html(<<>>) = <<>>
    BY PiecesEmpty
  <2>2. Escaped(<<>>) = <<>>
    BY DEF Escaped
  <2>3. <<>> \in Seq(Words) /\ <<>> \in Seq(Span) /\ <<>> \in Seq(Event)
    OBVIOUS
  <2>4. \A M, O, C : Paired(<<>>, <<>>, M, O, C)
    BY DEF Paired
  <2>. HIDE DEF Source, Mid, Html
  <2>. QED  BY <2>1, <2>2, <2>3, <2>4, BalancedEmpty
<1>3. ASSUME NEW s \in Seq(Span), NEW e \in Span, s \in P
      PROVE  Append(s, e) \in P
  <2>1. Append(s, e) \in Seq(Span)
    BY AppendProperties
  <2>2. /\ Source(Append(s, e)) = Source(s) \o SpanSource[e]
        /\ Mid(Append(s, e)) = Mid(s) \o SpanMid[e]
        /\ Html(Append(s, e)) = Html(s) \o SpanHtml[e]
    <3>1. Source(Append(s, e)) = Source(s) \o SpanSource[e]
      BY <1>1, PiecesAppend
    <3>2. Mid(Append(s, e)) = Mid(s) \o SpanMid[e]
      BY <1>1, PiecesAppend
    <3>3. Html(Append(s, e)) = Html(s) \o SpanHtml[e]
      BY <1>1, PiecesAppend
    <3>. QED  BY <3>1, <3>2, <3>3
  <2>3. /\ SpanSource[e] \in Seq(Words) /\ SpanMid[e] \in Seq(Event) /\ SpanHtml[e] \in Seq(Event)
    BY <1>0
  <2>4. Good(s)
    BY <1>3
  <2>5. /\ Escaped(Source(s)) \in Seq(Event) /\ Escaped(SpanSource[e]) \in Seq(Event)
        /\ Source(s) \o SpanSource[e] \in Seq(Words)
        /\ Escaped(Source(s) \o SpanSource[e]) = Escaped(Source(s)) \o Escaped(SpanSource[e])
    BY <2>3, <2>4, EscapedFacts, EscapedConcat
  <2>. HIDE DEF Source, Mid, Html
  <2>6. Paired(Escaped(Source(s)) \o Escaped(SpanSource[e]), Mid(s) \o SpanMid[e],
               <<"text", "tick">>, Open("code"), Close("code"))
    BY <2>3, <2>4, <2>5, OneSpan, PairedConcat
  <2>7. Paired(Mid(s) \o SpanMid[e], Html(s) \o SpanHtml[e],
               <<"text", "stars">>, Open("strong"), Close("strong"))
    BY <2>3, <2>4, OneSpan, PairedConcat
  <2>8. /\ Html(s) \o SpanHtml[e] \in Seq(Event) /\ Balanced(Html(s) \o SpanHtml[e])
    BY <2>3, <2>4, OneSpan, BalancedConcat
  <2>9. Mid(s) \o SpanMid[e] \in Seq(Event)
    BY <2>3, <2>4, ConcatProperties
  <2>10. Good(Append(s, e))
    BY <2>2, <2>5, <2>6, <2>7, <2>8, <2>9
  <2>. QED  BY <2>1, <2>10
<1>. HIDE DEF P
<1>4. Seq(Span) \subseteq P
  BY <1>2, <1>3, SequenceInduction
<1>5. Good(spans)
  BY <1>4 DEF P
<1>6. Escaped(Source(spans)) \in Seq(Event)
  BY <1>5, EscapedFacts
<1>7. process_inline(Source(spans)) = Html(spans)
  <2>. HIDE DEF Source, Mid, Html
  <2>1. TagPairs(Escaped(Source(spans)), "tick", "code") = Mid(spans)
    BY <1>5, <1>6, PairsAsMeant
  <2>2. TagPairs(Mid(spans), "stars", "strong") = Html(spans)
    BY <1>5, PairsAsMeant
  <2>. QED  BY <2>1, <2>2 DEF process_inline
<1>. QED  BY <1>5, <1>7

(* The first b sequences, one after the other. *)
First(s, b) == FlattenSeq([k \in 1 .. b |-> s[k]])

LEMMA FirstNone ==
  ASSUME NEW s
  PROVE  First(s, 0) = <<>>
<1>1. [k \in 1 .. 0 |-> s[k]] = <<>>
  OBVIOUS
<1>. QED  BY <1>1, FlattenSeqEmpty DEF First

LEMMA FirstAll ==
  ASSUME NEW T, NEW s \in Seq(T)
  PROVE  First(s, Len(s)) = FlattenSeq(s)
<1>1. s = [k \in 1 .. Len(s) |-> s[k]]
  BY LenProperties
<1>. QED  BY <1>1 DEF First

LEMMA FirstNext ==
  ASSUME NEW T, NEW s \in Seq(Seq(T)), NEW b \in 1 .. Len(s)
  PROVE  /\ First(s, b - 1) \in Seq(T) /\ First(s, b) \in Seq(T) /\ s[b] \in Seq(T)
         /\ First(s, b) = First(s, b - 1) \o s[b]
<1> DEFINE some == [k \in 1 .. b - 1 |-> s[k]]
           more == [k \in 1 .. b |-> s[k]]
           added == Append(some, s[b])
<1>1. s[b] \in Seq(T) /\ b \in Nat /\ b - 1 \in Nat
  OBVIOUS
<1>2. some \in Seq(Seq(T)) /\ Len(some) = b - 1
  OBVIOUS
<1>3. more = added
  <2>1. /\ Len(added) = b /\ added[b] = s[b] /\ \A k \in 1 .. b - 1 : added[k] = some[k]
        /\ added \in Seq(Seq(T))
    <3>. HIDE DEF some
    <3>. QED  BY <1>1, <1>2, AppendProperties
  <2>2. \A k \in 1 .. b - 1 : some[k] = s[k]
    OBVIOUS
  <2>3. added = [k \in 1 .. b |-> added[k]]
    <3>. HIDE DEF added
    <3>. QED  BY <2>1, LenProperties
  <2>. HIDE DEF added, some
  <2>4. \A k \in 1 .. b : s[k] = added[k]
    <3>1. \A k \in 1 .. b : k = b \/ k \in 1 .. b - 1
      OBVIOUS
    <3>. QED  BY <2>1, <2>2, <3>1
  <2>. QED  BY <2>3, <2>4
<1>4. FlattenSeq(some) \in Seq(T) /\ FlattenSeq(added) = FlattenSeq(some) \o s[b]
  <2>. HIDE DEF some
  <2>. QED  BY <1>1, <1>2, FlattenSeqAppend
<1>5. First(s, b) = First(s, b - 1) \o s[b] /\ First(s, b - 1) \in Seq(T)
  <2>1. First(s, b - 1) = FlattenSeq(some) /\ First(s, b) = FlattenSeq(more)
    BY DEF First
  <2>. HIDE DEF some, more, added
  <2>. QED  BY <1>3, <1>4, <2>1
<1>6. First(s, b - 1) \o s[b] \in Seq(T)
  BY <1>1, <1>5, ConcatProperties
<1>. QED  BY <1>1, <1>5, <1>6

(* One sequence of the first c is found where the ones before it end. *)
LEMMA FirstPrefix ==
  ASSUME NEW T, NEW s \in Seq(Seq(T)), NEW b \in 1 .. Len(s), NEW j \in 1 .. Len(s[b])
  PROVE  \A c \in b .. Len(s) :
            /\ Len(First(s, b - 1)) + j \in 1 .. Len(First(s, c))
            /\ First(s, c)[Len(First(s, b - 1)) + j] = s[b][j]
<1> DEFINE at == Len(First(s, b - 1)) + j
           P == {i \in Nat : b + i <= Len(s) =>
                               at \in 1 .. Len(First(s, b + i)) /\ First(s, b + i)[at] = s[b][j]}
<1>0. Len(s) \in Nat /\ Len(s[b]) \in Nat /\ b \in Nat
  BY LenProperties, FirstNext
<1>1. 0 \in P
  <2>1. /\ First(s, b - 1) \in Seq(T) /\ s[b] \in Seq(T)
        /\ First(s, b) = First(s, b - 1) \o s[b]
    BY FirstNext
  <2> DEFINE L == First(s, b - 1)
             R == s[b]
  <2>. HIDE DEF L, R
  <2>2. L \in Seq(T) /\ R \in Seq(T)
    BY <2>1 DEF L, R
  <2>3. /\ Len(L) \in Nat /\ Len(R) \in Nat /\ Len(L \o R) = Len(L) + Len(R)
        /\ \A x \in 1 .. Len(R) : (L \o R)[Len(L) + x] = R[x]
    BY <2>2, ConcatIndex
  <2>4. j \in 1 .. Len(R)
    BY DEF R
  <2>5. Len(L) + j \in 1 .. Len(L \o R) /\ (L \o R)[Len(L) + j] = R[j]
    BY <2>3, <2>4
  <2>6. b + 0 = b
    BY <1>0
  <2>. QED  BY <2>1, <2>5, <2>6 DEF L, R
<1>2. ASSUME NEW i \in Nat, i \in P
      PROVE  i + 1 \in P
  <2>. SUFFICES ASSUME b + (i + 1) <= Len(s)
                PROVE  /\ at \in 1 .. Len(First(s, b + (i + 1)))
                       /\ First(s, b + (i + 1))[at] = s[b][j]
    OBVIOUS
  <2>1. /\ b + (i + 1) \in 1 .. Len(s) /\ (b + (i + 1)) - 1 = b + i
        /\ at \in 1 .. Len(First(s, b + i)) /\ First(s, b + i)[at] = s[b][j]
    BY <1>0, <1>2
  <2>. HIDE DEF at
  <2> DEFINE L == First(s, b + i)
             R == s[b + (i + 1)]
  <2>2. L \in Seq(T) /\ R \in Seq(T) /\ First(s, b + (i + 1)) = L \o R
    BY <2>1, FirstNext
  <2>. HIDE DEF L, R
  <2>3. /\ Len(L) \in Nat /\ Len(R) \in Nat /\ Len(L \o R) = Len(L) + Len(R)
        /\ \A x \in 1 .. Len(L) : (L \o R)[x] = L[x]
    BY <2>2, ConcatIndex
  <2>4. at \in 1 .. Len(L) /\ L[at] = s[b][j]
    BY <2>1 DEF L
  <2>5. at \in 1 .. Len(L \o R) /\ (L \o R)[at] = s[b][j]
    BY <2>3, <2>4
  <2>. QED  BY <2>2, <2>5
<1>. HIDE DEF P
<1>3. Nat \subseteq P
  BY <1>1, <1>2, SetInduction
<1>4. ASSUME NEW c \in b .. Len(s)
      PROVE  at \in 1 .. Len(First(s, c)) /\ First(s, c)[at] = s[b][j]
  <2>1. c - b \in P /\ b + (c - b) = c
    BY <1>0, <1>3
  <2>. QED  BY <1>0, <2>1 DEF P
<1>. QED  BY <1>4

LEMMA LineOf ==
  ASSUME NEW T, NEW s \in Seq(Seq(T)), NEW b \in 1 .. Len(s), NEW j \in 1 .. Len(s[b])
  PROVE  /\ Len(First(s, b - 1)) + j \in 1 .. Len(FlattenSeq(s))
         /\ FlattenSeq(s)[Len(First(s, b - 1)) + j] = s[b][j]
<1>1. Len(s) \in b .. Len(s)
  BY LenProperties
<1>. QED  BY <1>1, FirstPrefix, FirstAll

-----------------------------------------------------------------------------
(***************************************************************************)
(* What an author can write: code whose lines may look like anything but a *)
(* fence, tables, single lines, and code without its second fence.         *)
(***************************************************************************)
AnyLine == [kind : LineKinds, text : Seq(Words)]

ListingLine == [kind : LineKinds \ {"fence"}, text : Seq(Words)]

RowTexts == Seq(Seq(Words))

AuthorBlock ==
    {Code(lines) : lines \in Seq(ListingLine)}
    \cup {UnclosedCode(lines) : lines \in Seq(ListingLine)}
    \cup {Table(entries) : entries \in RowTexts}
    \cup {Empty, Rule, Heading}
    \cup {Text(spans) : spans \in Seq(Span)}
    \cup {Item(spans) : spans \in Seq(Span)}

(* A block of one line that is neither row nor fence. *)
OneLine(blk) ==
    /\ Len(blk.source) = 1
    /\ blk.source[1].kind \in {"heading", "rule", "item", "empty", "text"}
    /\ Rendered(blk.source[1]) = blk.html
    /\ Balanced(blk.html)
    /\ blk.kind \notin {"code", "table", "unclosed"}

BlockType(blk) == blk.source \in Seq(AnyLine) /\ blk.html \in Seq(Event)

LEMMA WordBalanced ==
  /\ Escaped(<<"word">>) \in Seq(Event) /\ Balanced(Escaped(<<"word">>))
BY WordsOfSpans, EscapedFacts, BalancedPlain

LEMMA VoidBalanced ==
  ASSUME NEW name \in Names
  PROVE  <<<<"void", name>>>> \in Seq(Event) /\ Balanced(<<<<"void", name>>>>)
<1>1. <<<<"void", name>>>> \in Seq(PlainEvent)
  BY DEF PlainEvent
<1>. QED  BY <1>1, BalancedPlain

LEMMA SingleBlocks ==
  ASSUME NEW blk \in {Empty, Rule, Heading}
  PROVE  BlockType(blk) /\ OneLine(blk)
<1>1. <<>> \in Seq(Words) /\ <<"word">> \in Seq(Words) /\ "h" \in Names /\ "hr" \in Names /\ "br" \in Names
  BY WordsOfSpans DEF Names
<1>2. CASE blk = Empty
  <2>1. blk.source \in Seq(AnyLine) /\ OneLine(blk) /\ blk.html \in Seq(Event)
    BY <1>1, <1>2, VoidBalanced
       DEF OneLine, Empty, Block, MdLine, AnyLine, LineKinds, Rendered
  <2>. QED  BY <2>1 DEF BlockType
<1>3. CASE blk = Rule
  <2>1. blk.source \in Seq(AnyLine) /\ OneLine(blk) /\ blk.html \in Seq(Event)
    BY <1>1, <1>3, VoidBalanced
       DEF OneLine, Rule, Block, MdLine, AnyLine, LineKinds, Rendered
  <2>. QED  BY <2>1 DEF BlockType
<1>4. CASE blk = Heading
  <2>1. /\ Element("h", Escaped(<<"word">>)) \in Seq(Event)
        /\ Balanced(Element("h", Escaped(<<"word">>)))
    BY <1>1, WordBalanced, BalancedElement
  <2>2. blk.source \in Seq(AnyLine) /\ OneLine(blk) /\ blk.html \in Seq(Event)
    BY <1>1, <1>4, <2>1 DEF OneLine, Heading, Block, MdLine, AnyLine, LineKinds, Rendered
  <2>. QED  BY <2>2 DEF BlockType
<1>. QED  BY <1>2, <1>3, <1>4

LEMMA InlineBlocks ==
  ASSUME NEW spans \in Seq(Span)
  PROVE  /\ BlockType(Text(spans)) /\ OneLine(Text(spans))
         /\ BlockType(Item(spans)) /\ OneLine(Item(spans))
<1> DEFINE src == Pieces(SpanSource, spans)
           out == Pieces(SpanHtml, spans)
<1>1. src \in Seq(Words) /\ out \in Seq(Event) /\ Balanced(out) /\ process_inline(src) = out
  BY InlineAsWritten
<1>2. /\ Text(spans) = Block("text", <<MdLine("text", src)>>, Element("p", out))
      /\ Item(spans) = Block("item", <<MdLine("item", src)>>, Element("li", out))
  BY DEF Text, Item, Inline, Pieces
<1>. HIDE DEF src, out
<1>3. "p" \in Names /\ "li" \in Names
  BY DEF Names
<1>4. /\ Element("p", out) \in Seq(Event) /\ Balanced(Element("p", out))
      /\ Element("li", out) \in Seq(Event) /\ Balanced(Element("li", out))
  BY <1>1, <1>3, BalancedElement
<1>5. BlockType(Text(spans)) /\ OneLine(Text(spans))
  BY <1>1, <1>2, <1>4 DEF BlockType, OneLine, Block, MdLine, AnyLine, LineKinds, Rendered
<1>6. BlockType(Item(spans)) /\ OneLine(Item(spans))
  BY <1>1, <1>2, <1>4 DEF BlockType, OneLine, Block, MdLine, AnyLine, LineKinds, Rendered
<1>. QED  BY <1>5, <1>6

LEMMA CopyFacts ==
  ASSUME NEW lines \in Seq(ListingLine)
  PROVE  CopyOf(lines) \in Seq(Event) /\ Len(CopyOf(lines)) = Len(lines)
<1>1. DOMAIN lines = 1 .. Len(lines) /\ Len(lines) \in Nat
  BY LenProperties
<1>2. ASSUME NEW k \in 1 .. Len(lines)
      PROVE  <<"line", lines[k].kind>> \in Event
  <2>1. lines[k] \in ListingLine
    BY <1>1
  <2>2. lines[k].kind \in LineKinds
    BY <2>1 DEF ListingLine
  <2>. QED  BY <2>2 DEF Event, Names
<1>. QED  BY <1>1, <1>2 DEF CopyOf

LEMMA CodeBlocks ==
  ASSUME NEW lines \in Seq(ListingLine)
  PROVE  /\ BlockType(Code(lines))
         /\ Code(lines).kind = "code"
         /\ Len(Code(lines).source) = Len(lines) + 2
         /\ Code(lines).source[1].kind = "fence"
         /\ Code(lines).source[Len(lines) + 2].kind = "fence"
         /\ \A k \in 1 .. Len(lines) : Code(lines).source[k + 1] = lines[k]
         /\ Code(lines).html = (<<Open("pre"), Open("code")>> \o CopyOf(lines))
                                  \o <<Close("code"), Close("pre")>>
<1> DEFINE fence == MdLine("fence", <<>>)
<1>1. fence \in AnyLine /\ fence.kind = "fence" /\ lines \in Seq(AnyLine) /\ Len(lines) \in Nat
  <2>1. ListingLine \subseteq AnyLine
    BY DEF ListingLine, AnyLine
  <2>2. lines \in Seq(AnyLine)
    BY <2>1
  <2>. QED  BY <2>2, LenProperties DEF MdLine, AnyLine, LineKinds
<1>. HIDE DEF fence
<1>2. /\ <<fence>> \in Seq(AnyLine) /\ Len(<<fence>>) = 1 /\ <<fence>>[1] = fence
  BY <1>1
<1> DEFINE begin == <<fence>> \o lines
           src == begin \o <<fence>>
<1>3. /\ begin \in Seq(AnyLine) /\ Len(begin) = Len(lines) + 1 /\ begin[1] = fence
      /\ \A k \in 1 .. Len(lines) : begin[k + 1] = lines[k]
  BY <1>1, Prepend
<1>. HIDE DEF begin
<1>4. /\ src \in Seq(AnyLine) /\ Len(src) = Len(lines) + 2
      /\ src[Len(lines) + 2] = fence /\ \A x \in 1 .. Len(lines) + 1 : src[x] = begin[x]
  <2>1. src = Append(begin, fence)
    BY <1>1, <1>3, AppendIsConcat
  <2>2. (Len(lines) + 1) + 1 = Len(lines) + 2
    BY <1>1
  <2>. HIDE DEF src
  <2>. QED  BY <1>1, <1>3, <2>1, <2>2, AppendProperties
<1>. HIDE DEF src
<1>5. /\ src[1] = fence /\ \A k \in 1 .. Len(lines) : src[k + 1] = lines[k]
  <2>1. 1 \in 1 .. Len(lines) + 1 /\ \A k \in 1 .. Len(lines) : k + 1 \in 1 .. Len(lines) + 1
    BY <1>1
  <2>. QED  BY <1>3, <1>4, <2>1
<1>6. /\ Code(lines).source = src /\ Code(lines).kind = "code"
      /\ Code(lines).html = Element("pre", Element("code", CopyOf(lines)))
  BY DEF Code, Block, src, begin, fence
<1> DEFINE C == CopyOf(lines)
           Op == Open("pre")
           Oc == Open("code")
           Cp == Close("pre")
           Cc == Close("code")
<1>7. C \in Seq(Event) /\ Op \in Event /\ Oc \in Event /\ Cp \in Event /\ Cc \in Event
  BY CopyFacts DEF Open, Close, Event, Names
<1>8. Element("pre", Element("code", C)) = <<Op>> \o (<<Oc>> \o C \o <<Cc>>) \o <<Cp>>
  BY DEF Element
<1>. HIDE DEF C, Op, Oc, Cp, Cc
<1>9. <<Op>> \o (<<Oc>> \o C \o <<Cc>>) \o <<Cp>> = (<<Op, Oc>> \o C) \o <<Cc, Cp>>
  <2>1. /\ <<Op>> \in Seq(Event) /\ <<Oc>> \in Seq(Event) /\ <<Cc>> \in Seq(Event)
        /\ <<Cp>> \in Seq(Event)
    BY <1>7
  <2>2. <<Op>> \o <<Oc>> = <<Op, Oc>> /\ <<Cc>> \o <<Cp>> = <<Cc, Cp>>
    BY <1>7, TwoConcat
  <2>3. /\ <<Oc>> \o C \in Seq(Event) /\ <<Op, Oc>> \in Seq(Event)
        /\ <<Op, Oc>> \o C \in Seq(Event)
    BY <1>7, <2>1, <2>2, ConcatProperties
  <2> DEFINE D == <<Oc>> \o C
             E == <<Op, Oc>> \o C
  <2>4. E = <<Op>> \o D
    <3>1. (<<Op>> \o <<Oc>>) \o C = <<Op>> \o (<<Oc>> \o C)
      BY <1>7, <2>1, ConcatAssociative
    <3>. QED  BY <2>2, <3>1
  <2>. HIDE DEF D, E
  <2>5. <<Op>> \o (D \o <<Cc>>) = (<<Op>> \o D) \o <<Cc>>
    BY <2>1, <2>3, ConcatAssociative DEF D
  <2>6. (E \o <<Cc>>) \o <<Cp>> = E \o (<<Cc>> \o <<Cp>>)
    BY <2>1, <2>3, ConcatAssociative DEF E
  <2>. QED  BY <2>2, <2>4, <2>5, <2>6 DEF D, E
<1>10. (<<Op, Oc>> \o C) \o <<Cc, Cp>> \in Seq(Event)
  BY <1>7, ConcatProperties
<1>11. Code(lines).html = (<<Op, Oc>> \o C) \o <<Cc, Cp>>
  BY <1>6, <1>8, <1>9 DEF C
<1>12. BlockType(Code(lines))
  BY <1>4, <1>6, <1>10, <1>11 DEF BlockType
<1>13. Code(lines).html = (<<Open("pre"), Open("code")>> \o CopyOf(lines))
                             \o <<Close("code"), Close("pre")>>
  BY <1>11 DEF Op, Oc, C, Cc, Cp
<1>. QED  BY <1>1, <1>4, <1>5, <1>6, <1>12, <1>13

LEMMA UnclosedBlocks ==
  ASSUME NEW lines \in Seq(ListingLine)
  PROVE  BlockType(UnclosedCode(lines)) /\ UnclosedCode(lines).kind = "unclosed"
<1> DEFINE fence == MdLine("fence", <<>>)
<1>1. fence \in AnyLine
  BY DEF MdLine, AnyLine, LineKinds
<1>2. lines \in Seq(AnyLine)
  <2>1. ListingLine \subseteq AnyLine
    BY DEF ListingLine, AnyLine
  <2>. QED  BY <2>1
<1>3. /\ UnclosedCode(lines).source = <<fence>> \o lines
      /\ UnclosedCode(lines).html = CopyOf(lines) /\ UnclosedCode(lines).kind = "unclosed"
  BY DEF UnclosedCode, Block
<1>. HIDE DEF fence
<1>4. <<fence>> \o lines \in Seq(AnyLine)
  BY <1>1, <1>2, Prepend
<1>. QED  BY <1>3, <1>4, CopyFacts DEF BlockType

(* The rows of a table after its header, and the first n of them. *)
RowHtmls(entries) == [k \in DOMAIN entries |-> TableRow("td", entries[k])]

Rows(entries, n) == First(RowHtmls(entries), n)

LEMMA RowBalanced ==
  ASSUME NEW cell \in {"th", "td"}, NEW text \in Seq(Words)
  PROVE  TableRow(cell, text) \in Seq(Event) /\ Balanced(TableRow(cell, text))
<1>1. cell \in Names /\ "tr" \in Names
  BY DEF Names
<1>2. Escaped(text) \in Seq(Event) /\ Balanced(Escaped(text))
  BY EscapedFacts, BalancedPlain
<1>3. /\ Element(cell, Escaped(text)) \in Seq(Event)
      /\ Balanced(Element(cell, Escaped(text)))
  BY <1>1, <1>2, BalancedElement
<1>. QED  BY <1>1, <1>3, BalancedElement DEF TableRow

LEMMA HeaderBalanced ==
  TableRow("th", <<"word">>) \in Seq(Event) /\ Balanced(TableRow("th", <<"word">>))
BY WordsOfSpans, RowBalanced

LEMMA RowsNone ==
  ASSUME NEW entries
  PROVE  Rows(entries, 0) = <<>>
BY FirstNone DEF Rows

LEMMA RowHtmlsType ==
  ASSUME NEW entries \in RowTexts
  PROVE  /\ Len(entries) \in Nat /\ DOMAIN entries = 1 .. Len(entries)
         /\ \A k \in 1 .. Len(entries) : entries[k] \in Seq(Words)
         /\ RowHtmls(entries) \in Seq(Seq(Event)) /\ Len(RowHtmls(entries)) = Len(entries)
         /\ \A k \in 1 .. Len(entries) : RowHtmls(entries)[k] = TableRow("td", entries[k])
<1>1. /\ Len(entries) \in Nat /\ DOMAIN entries = 1 .. Len(entries)
      /\ \A k \in 1 .. Len(entries) : entries[k] \in Seq(Words)
  BY LenProperties DEF RowTexts
<1>2. \A k \in 1 .. Len(entries) : TableRow("td", entries[k]) \in Seq(Event)
  BY <1>1, RowBalanced
<1>. QED  BY <1>1, <1>2 DEF RowHtmls

LEMMA RowsNext ==
  ASSUME NEW entries \in RowTexts, NEW n \in Nat, n < Len(entries)
  PROVE  /\ Rows(entries, n) \in Seq(Event)
         /\ Rows(entries, n + 1) = Rows(entries, n) \o TableRow("td", entries[n + 1])
<1> DEFINE s == RowHtmls(entries)
<1>1. /\ s \in Seq(Seq(Event)) /\ n + 1 \in 1 .. Len(s) /\ (n + 1) - 1 = n
      /\ s[n + 1] = TableRow("td", entries[n + 1])
  BY RowHtmlsType
<1>. HIDE DEF s
<1>2. First(s, n) \in Seq(Event) /\ First(s, n + 1) = First(s, n) \o s[n + 1]
  BY <1>1, FirstNext
<1>. QED  BY <1>1, <1>2 DEF Rows, s

LEMMA RowsAll ==
  ASSUME NEW entries \in RowTexts
  PROVE  /\ Rows(entries, Len(entries)) = FlattenSeq(RowHtmls(entries))
         /\ Rows(entries, Len(entries)) \in Seq(Event)
<1> DEFINE s == RowHtmls(entries)
<1>1. s \in Seq(Seq(Event)) /\ Len(s) = Len(entries)
  BY RowHtmlsType
<1>. HIDE DEF s
<1>2. First(s, Len(s)) = FlattenSeq(s) /\ FlattenSeq(s) \in Seq(Event)
  BY <1>1, FirstAll, FlattenTyped
<1>. QED  BY <1>1, <1>2 DEF Rows, s

LEMMA TableBlocks ==
  ASSUME NEW entries \in RowTexts
  PROVE  /\ BlockType(Table(entries))
         /\ Table(entries).kind = "table"
         /\ Len(Table(entries).source) = Len(entries) + 2
         /\ Table(entries).source[1] = MdLine("row", <<"word">>)
         /\ Table(entries).source[2].kind = "separator"
         /\ \A k \in 3 .. Len(entries) + 2 :
                Table(entries).source[k] = MdLine("row", entries[k - 2])
         /\ Table(entries).html =
                (<<Open("table")>>
                    \o (TableRow("th", <<"word">>) \o Rows(entries, Len(entries))))
                \o <<Close("table")>>
<1> DEFINE n == Len(entries)
           row == MdLine("row", <<"word">>)
           sep == MdLine("separator", <<>>)
           rows == [k \in DOMAIN entries |-> MdLine("row", entries[k])]
           head == <<row, sep>>
           D == TableRow("th", <<"word">>) \o Rows(entries, n)
<1>0. /\ n \in Nat /\ DOMAIN entries = 1 .. n
      /\ \A k \in 1 .. n : entries[k] \in Seq(Words)
  BY RowHtmlsType
<1>1. row \in AnyLine /\ sep \in AnyLine /\ sep.kind = "separator"
  BY WordsOfSpans DEF MdLine, AnyLine, LineKinds
<1>2. /\ Table(entries).source = head \o rows /\ Table(entries).kind = "table"
      /\ Table(entries).html = Element("table", D)
  BY RowsAll DEF Table, Block, RowHtmls
<1>3. /\ rows \in Seq(AnyLine) /\ Len(rows) = n
      /\ \A k \in 1 .. n : rows[k] = MdLine("row", entries[k])
  <2>1. \A k \in 1 .. n : MdLine("row", entries[k]) \in AnyLine
    BY <1>0 DEF MdLine, AnyLine, LineKinds
  <2>. QED  BY <1>0, <2>1
<1>. HIDE DEF row, sep, rows, D, n
<1>4. /\ head \in Seq(AnyLine) /\ Len(head) = 2 /\ head[1] = row /\ head[2] = sep
  BY <1>1
<1>. HIDE DEF head
<1>5. /\ head \o rows \in Seq(AnyLine) /\ Len(head \o rows) = Len(head) + Len(rows)
      /\ \A x \in 1 .. Len(head) : (head \o rows)[x] = head[x]
      /\ \A x \in 1 .. Len(rows) : (head \o rows)[Len(head) + x] = rows[x]
  <2>1. head \in Seq(AnyLine) /\ rows \in Seq(AnyLine)
    BY <1>3, <1>4
  <2>. QED  BY <2>1, ConcatIndex
<1> DEFINE src == head \o rows
<1>. HIDE DEF src
<1>6. /\ src \in Seq(AnyLine) /\ Len(src) = n + 2 /\ src[1] = row /\ src[2] = sep
      /\ \A x \in 1 .. n : src[2 + x] = MdLine("row", entries[x])
  BY <1>0, <1>3, <1>4, <1>5 DEF src
<1>7. ASSUME NEW k \in 3 .. n + 2
      PROVE  src[k] = MdLine("row", entries[k - 2])
  <2>1. k - 2 \in 1 .. n /\ 2 + (k - 2) = k
    BY <1>0
  <2>. QED  BY <1>6, <2>1
<1>8. D \in Seq(Event)
  BY HeaderBalanced, RowsAll, ConcatProperties DEF D, n
<1>9. Table(entries).html \in Seq(Event)
  <2>1. "table" \in Names
    BY DEF Names
  <2>2. Open("table") \in Event /\ Close("table") \in Event
    BY <2>1 DEF Open, Close, Event
  <2>. QED  BY <1>2, <1>8, <2>2, ConcatProperties DEF Element
<1>10. Table(entries).html = (<<Open("table")>> \o D) \o <<Close("table")>>
  BY <1>2 DEF Element
<1>11. BlockType(Table(entries))
  BY <1>2, <1>6, <1>9 DEF BlockType, src
<1>12. /\ Len(Table(entries).source) = n + 2
       /\ Table(entries).source[1] = row /\ Table(entries).source[2].kind = "separator"
       /\ \A k \in 3 .. n + 2 : Table(entries).source[k] = MdLine("row", entries[k - 2])
  BY <1>1, <1>2, <1>6, <1>7 DEF src
<1>. QED  BY <1>2, <1>10, <1>11, <1>12 DEF row, D, n

(* Every block has its type, and at least one line. *)
LEMMA BlockCases ==
  ASSUME NEW blk \in AuthorBlock
  PROVE  /\ BlockType(blk)
         /\ \/ OneLine(blk)
            \/ \E lines \in Seq(ListingLine) : blk = Code(lines)
            \/ \E entries \in RowTexts : blk = Table(entries)
            \/ blk.kind = "unclosed"
<1>1. ASSUME NEW lines \in Seq(ListingLine), blk = Code(lines)
      PROVE  BlockType(blk)
  BY <1>1, CodeBlocks
<1>2. ASSUME NEW lines \in Seq(ListingLine), blk = UnclosedCode(lines)
      PROVE  BlockType(blk) /\ blk.kind = "unclosed"
  BY <1>2, UnclosedBlocks
<1>3. ASSUME NEW entries \in RowTexts, blk = Table(entries)
      PROVE  BlockType(blk)
  BY <1>3, TableBlocks
<1>4. ASSUME blk \in {Empty, Rule, Heading}
      PROVE  BlockType(blk) /\ OneLine(blk)
  BY <1>4, SingleBlocks
<1>5. ASSUME NEW spans \in Seq(Span), blk = Text(spans) \/ blk = Item(spans)
      PROVE  BlockType(blk) /\ OneLine(blk)
  BY <1>5, InlineBlocks
<1>. QED  BY <1>1, <1>2, <1>3, <1>4, <1>5 DEF AuthorBlock

Sources(pg) == [b \in DOMAIN pg |-> pg[b].source]

Htmls(pg) == [b \in DOMAIN pg |-> pg[b].html]

Closed(pg) == \A b \in DOMAIN pg : pg[b].kind # "unclosed"

Spaced(pg) ==
    \A b \in DOMAIN pg :
        /\ pg[b].kind # "unclosed"
        /\ b > 1 /\ pg[b - 1].kind = "table" => pg[b].kind \notin {"table", "code"}

TableTag(it) == IF it THEN <<"table">> ELSE <<>>

TableEnd(it) == IF it THEN <<Close("table")>> ELSE <<>>

(* The loop has rendered b - 1 blocks, and stands before the next one. *)
Before(pg, b, nx, ic, it, h) ==
    /\ b \in 1 .. Len(pg) + 1
    /\ nx = Len(First(Sources(pg), b - 1)) + 1
    /\ ic = FALSE /\ it \in BOOLEAN
    /\ h \in Seq(Event) /\ Nesting(h) = TableTag(it)
    /\ Spaced(pg) =>
          /\ h \o TableEnd(it) = First(Htmls(pg), b - 1)
          /\ it => b > 1 /\ pg[b - 1].kind = "table"

(* It has taken j lines of the code that is block b. *)
WithinCode(pg, b, j, lines, nx, ic, it, h) ==
    /\ b \in 1 .. Len(pg) /\ pg[b] = Code(lines) /\ lines \in Seq(ListingLine)
    /\ j \in 1 .. Len(lines) + 1
    /\ nx = Len(First(Sources(pg), b - 1)) + j + 1
    /\ ic = TRUE /\ it \in BOOLEAN
    /\ h \in Seq(Event) /\ Nesting(h) = TableTag(it) \o <<"pre", "code">>
    /\ Spaced(pg) =>
          /\ ~it
          /\ h = First(Htmls(pg), b - 1) \o (<<Open("pre"), Open("code")>>
                                             \o [k \in 1 .. j - 1 |-> <<"line", lines[k].kind>>])

(* It has taken j lines of the table that is block b. *)
WithinTable(pg, b, j, entries, nx, ic, it, h) ==
    /\ b \in 1 .. Len(pg) /\ pg[b] = Table(entries) /\ entries \in RowTexts
    /\ j \in 1 .. Len(entries) + 2
    /\ nx = Len(First(Sources(pg), b - 1)) + j + 1
    /\ ic = FALSE /\ it = TRUE
    /\ h \in Seq(Event) /\ Nesting(h) = <<"table">>
    /\ Spaced(pg) =>
          h = First(Htmls(pg), b - 1)
                \o (<<Open("table")>> \o (TableRow("th", <<"word">>)
                \o Rows(entries, IF j = 1 THEN 0 ELSE j - 2)))

(* The page is rendered. *)
Finished(pg, nx, h) ==
    /\ nx = Len(First(Sources(pg), Len(pg))) + 2
    /\ Nesting(h) = <<>>
    /\ Spaced(pg) => h = First(Htmls(pg), Len(pg))

LEMMA PageTyping ==
  ASSUME NEW pg \in Seq(AuthorBlock)
  PROVE  /\ Len(pg) \in Nat
         /\ Sources(pg) \in Seq(Seq(AnyLine)) /\ Len(Sources(pg)) = Len(pg)
         /\ Htmls(pg) \in Seq(Seq(Event)) /\ Len(Htmls(pg)) = Len(pg)
         /\ \A b \in 1 .. Len(pg) : /\ pg[b] \in AuthorBlock
                                    /\ Sources(pg)[b] = pg[b].source
                                    /\ Htmls(pg)[b] = pg[b].html
<1>1. DOMAIN pg = 1 .. Len(pg) /\ Len(pg) \in Nat /\ \A b \in 1 .. Len(pg) : pg[b] \in AuthorBlock
  BY LenProperties
<1>2. \A b \in 1 .. Len(pg) : pg[b].source \in Seq(AnyLine) /\ pg[b].html \in Seq(Event)
  BY <1>1, BlockCases DEF BlockType
<1>3. Sources(pg) \in Seq(Seq(AnyLine)) /\ Len(Sources(pg)) = Len(pg)
  BY <1>1, <1>2 DEF Sources
<1>4. Htmls(pg) \in Seq(Seq(Event)) /\ Len(Htmls(pg)) = Len(pg)
  BY <1>1, <1>2 DEF Htmls
<1>5. \A b \in 1 .. Len(pg) : Sources(pg)[b] = pg[b].source /\ Htmls(pg)[b] = pg[b].html
  BY <1>1 DEF Sources, Htmls
<1>. QED  BY <1>1, <1>3, <1>4, <1>5

(* The lines of a block, where they stand in the document. *)
LEMMA BlockLine ==
  ASSUME NEW pg \in Seq(AuthorBlock), NEW b \in 1 .. Len(pg), NEW j \in 1 .. Len(pg[b].source)
  PROVE  /\ Len(First(Sources(pg), b - 1)) + j \in 1 .. Len(FlattenSeq(Sources(pg)))
         /\ FlattenSeq(Sources(pg))[Len(First(Sources(pg), b - 1)) + j] = pg[b].source[j]
<1> DEFINE s == Sources(pg)
<1>1. s \in Seq(Seq(AnyLine)) /\ b \in 1 .. Len(s) /\ s[b] = pg[b].source
  BY PageTyping
<1>. HIDE DEF s
<1>2. j \in 1 .. Len(s[b])
  BY <1>1
<1>3. /\ Len(First(s, b - 1)) + j \in 1 .. Len(FlattenSeq(s))
      /\ FlattenSeq(s)[Len(First(s, b - 1)) + j] = s[b][j]
  BY <1>1, <1>2, LineOf
<1>. QED  BY <1>1, <1>3 DEF s

LEMMA BlockRendered ==
  ASSUME NEW pg \in Seq(AuthorBlock), NEW b \in 1 .. Len(pg)
  PROVE  /\ Len(First(Sources(pg), b - 1)) \in Nat
         /\ Len(First(Sources(pg), b)) = Len(First(Sources(pg), b - 1)) + Len(pg[b].source)
         /\ First(Htmls(pg), b - 1) \in Seq(Event) /\ pg[b].html \in Seq(Event)
         /\ First(Htmls(pg), b) = First(Htmls(pg), b - 1) \o pg[b].html
<1> DEFINE s == Sources(pg)
           t == Htmls(pg)
<1>1. /\ s \in Seq(Seq(AnyLine)) /\ b \in 1 .. Len(s) /\ s[b] = pg[b].source
      /\ t \in Seq(Seq(Event)) /\ b \in 1 .. Len(t) /\ t[b] = pg[b].html
  BY PageTyping
<1>. HIDE DEF s, t
<1>2. /\ First(s, b - 1) \in Seq(AnyLine) /\ s[b] \in Seq(AnyLine)
      /\ First(s, b) = First(s, b - 1) \o s[b]
  BY <1>1, FirstNext
<1>3. /\ First(t, b - 1) \in Seq(Event) /\ t[b] \in Seq(Event)
      /\ First(t, b) = First(t, b - 1) \o t[b]
  BY <1>1, FirstNext
<1>4. /\ Len(First(s, b - 1)) \in Nat
      /\ Len(First(s, b)) = Len(First(s, b - 1)) + Len(s[b])
  <2> DEFINE L == First(s, b - 1)
             R == s[b]
  <2>1. L \in Seq(AnyLine) /\ R \in Seq(AnyLine)
    BY <1>2
  <2>. HIDE DEF L, R
  <2>2. Len(L) \in Nat /\ Len(L \o R) = Len(L) + Len(R)
    BY <2>1, ConcatIndex
  <2>. QED  BY <1>2, <2>2 DEF L, R
<1>. QED  BY <1>1, <1>3, <1>4 DEF s, t

(***************************************************************************)
(* Tags that open and close.                                               *)
(***************************************************************************)
LEMMA TagOpens ==
  ASSUME NEW h \in Seq(Event), NEW tag \in Names
  PROVE  /\ h \o <<Open(tag)>> \in Seq(Event)
         /\ Nesting(h) \in Seq(Names)
         /\ Nesting(h \o <<Open(tag)>>) = Append(Nesting(h), tag)
<1>1. Open(tag) \in Event /\ Open(tag)[1] = "open" /\ Open(tag)[2] = tag
  BY DEF Open, Event
<1>2. Append(h, Open(tag)) = h \o <<Open(tag)>> /\ Append(h, Open(tag)) \in Seq(Event)
  BY <1>1, AppendIsConcat, AppendProperties
<1>3. /\ Nesting(h) \in Seq(Names)
      /\ Nesting(Append(h, Open(tag))) = After(Nesting(h), Open(tag))
  BY <1>1, NestingAppend
<1>. QED  BY <1>1, <1>2, <1>3 DEF After

LEMMA TagCloses ==
  ASSUME NEW h \in Seq(Event), NEW tag \in Names, NEW open \in Seq(Names),
         Nesting(h) = Append(open, tag)
  PROVE  /\ h \o <<Close(tag)>> \in Seq(Event)
         /\ Nesting(h \o <<Close(tag)>>) = open
<1>1. Close(tag) \in Event /\ Close(tag)[1] = "close" /\ Close(tag)[2] = tag
  BY DEF Close, Event
<1>2. Append(h, Close(tag)) = h \o <<Close(tag)>> /\ Append(h, Close(tag)) \in Seq(Event)
  BY <1>1, AppendIsConcat, AppendProperties
<1>3. Nesting(Append(h, Close(tag))) = After(Append(open, tag), Close(tag))
  BY <1>1, NestingAppend
<1>4. /\ Append(open, tag) # <<>> /\ Len(Append(open, tag)) = Len(open) + 1
      /\ Append(open, tag)[Len(open) + 1] = tag
  BY AppendProperties
<1>5. Last(Append(open, tag)) = tag
  BY <1>4 DEF Last
<1>6. Front(Append(open, tag)) = open
  BY DEF Front
<1>7. After(Append(open, tag), Close(tag)) = open
  BY <1>1, <1>4, <1>5, <1>6 DEF After
<1>. QED  BY <1>2, <1>3, <1>7

LEMMA TableClosed ==
  ASSUME NEW h \in Seq(Event), NEW it \in BOOLEAN, Nesting(h) = TableTag(it)
  PROVE  h \o TableEnd(it) \in Seq(Event) /\ Nesting(h \o TableEnd(it)) = <<>>
<1>1. CASE ~ it
  <2>1. TableEnd(it) = <<>> /\ TableTag(it) = <<>>
    BY <1>1 DEF TableEnd, TableTag
  <2>. QED  BY <2>1, ConcatEmptySeq
<1>2. CASE it
  <2>1. TableEnd(it) = <<Close("table")>> /\ TableTag(it) = <<"table">>
    BY <1>2 DEF TableEnd, TableTag
  <2>2. "table" \in Names
    BY DEF Names
  <2>3. <<>> \in Seq(Names) /\ Append(<<>>, "table") = <<"table">>
    OBVIOUS
  <2>. QED  BY <2>1, <2>2, <2>3, TagCloses
<1>. QED  BY <1>1, <1>2

LEMMA ConcatPair ==
  ASSUME NEW T, NEW s \in Seq(T), NEW a \in T, NEW b \in T
  PROVE  /\ (s \o <<a>>) \o <<b>> = s \o <<a, b>>
         /\ Append(s, a) \in Seq(T) /\ Append(Append(s, a), b) = s \o <<a, b>>
<1>1. <<a>> \in Seq(T) /\ <<b>> \in Seq(T) /\ <<a>> \o <<b>> = <<a, b>>
  BY TwoConcat
<1>2. (s \o <<a>>) \o <<b>> = s \o (<<a>> \o <<b>>)
  BY <1>1, ConcatAssociative
<1>3. Append(s, a) = s \o <<a>> /\ Append(s, a) \in Seq(T)
  BY AppendIsConcat, AppendProperties
<1>4. Append(Append(s, a), b) = Append(s, a) \o <<b>>
  BY <1>3, AppendIsConcat
<1>. QED  BY <1>1, <1>2, <1>3, <1>4

LEMMA EventsAssociative ==
  ASSUME NEW a \in Seq(Event), NEW b \in Seq(Event), NEW c \in Seq(Event)
  PROVE  (a \o b) \o c = a \o (b \o c)
BY ConcatAssociative

LEMMA EventPair ==
  ASSUME NEW s \in Seq(Event), NEW a \in Event, NEW b \in Event
  PROVE  (s \o <<a>>) \o <<b>> = s \o <<a, b>>
BY ConcatPair

LEMMA CodeOpens ==
  ASSUME NEW h \in Seq(Event)
  PROVE  /\ h \o <<Open("pre"), Open("code")>> \in Seq(Event)
         /\ Nesting(h \o <<Open("pre"), Open("code")>>) = Nesting(h) \o <<"pre", "code">>
<1> DEFINE h1 == h \o <<Open("pre")>>
           h2 == h1 \o <<Open("code")>>
           N == Nesting(h)
<1>1. "pre" \in Names /\ "code" \in Names
  BY DEF Names
<1>2. Open("pre") \in Event /\ Open("code") \in Event
  BY <1>1 DEF Open, Event
<1>3. h2 = h \o <<Open("pre"), Open("code")>>
  BY <1>2, ConcatPair
<1>4. h1 \in Seq(Event) /\ N \in Seq(Names) /\ Nesting(h1) = Append(N, "pre")
  BY <1>1, TagOpens
<1>. HIDE DEF h1, N
<1>5. h2 \in Seq(Event) /\ Nesting(h2) = Append(Nesting(h1), "code")
  BY <1>1, <1>4, TagOpens
<1>. HIDE DEF h2
<1>6. Append(Append(N, "pre"), "code") = N \o <<"pre", "code">>
  BY <1>1, <1>4, ConcatPair
<1>. QED  BY <1>3, <1>4, <1>5, <1>6 DEF N

LEMMA CodeCloses ==
  ASSUME NEW h \in Seq(Event), NEW open \in Seq(Names), Nesting(h) = open \o <<"pre", "code">>
  PROVE  /\ h \o <<Close("code"), Close("pre")>> \in Seq(Event)
         /\ Nesting(h \o <<Close("code"), Close("pre")>>) = open
<1> DEFINE h1 == h \o <<Close("code")>>
           h2 == h1 \o <<Close("pre")>>
<1>1. "pre" \in Names /\ "code" \in Names
  BY DEF Names
<1>2. Close("pre") \in Event /\ Close("code") \in Event
  BY <1>1 DEF Close, Event
<1>3. h2 = h \o <<Close("code"), Close("pre")>>
  <2> DEFINE a == Close("code")
             c == Close("pre")
  <2>1. a \in Event /\ c \in Event
    BY <1>2
  <2>. HIDE DEF a, c
  <2>2. (h \o <<a>>) \o <<c>> = h \o <<a, c>>
    BY <2>1, EventPair
  <2>. QED  BY <2>2 DEF a, c
<1>4. Append(Append(open, "pre"), "code") = open \o <<"pre", "code">> /\ Append(open, "pre") \in Seq(Names)
  BY <1>1, ConcatPair
<1>5. h1 \in Seq(Event) /\ Nesting(h1) = Append(open, "pre")
  BY <1>1, <1>4, TagCloses
<1>. HIDE DEF h1
<1>6. h2 \in Seq(Event) /\ Nesting(h2) = open
  BY <1>1, <1>5, TagCloses
<1>. QED  BY <1>3, <1>6

(***************************************************************************)
(* What each line does to the renderer, where it stands in its block.      *)
(***************************************************************************)
LEMMA OneLineRendered ==
  ASSUME NEW pg \in Seq(AuthorBlock), NEW b \in 1 .. Len(pg), OneLine(pg[b]),
         NEW nx, NEW ic, NEW it, NEW h, Before(pg, b, nx, ic, it, h)
  PROVE  Before(pg, b + 1, nx + 1, FALSE, FALSE, h \o (TableEnd(it) \o pg[b].html))
<1> DEFINE Hb == First(Htmls(pg), b - 1)
           out == pg[b].html
           more == h \o (TableEnd(it) \o out)
<1>1. /\ Hb \in Seq(Event) /\ out \in Seq(Event) /\ First(Htmls(pg), b) = Hb \o out
      /\ Len(First(Sources(pg), b - 1)) \in Nat
      /\ Len(First(Sources(pg), b)) = Len(First(Sources(pg), b - 1)) + 1
      /\ Balanced(out)
  BY BlockRendered DEF OneLine
<1>2. /\ h \in Seq(Event) /\ it \in BOOLEAN /\ Nesting(h) = TableTag(it)
      /\ nx = Len(First(Sources(pg), b - 1)) + 1
      /\ Spaced(pg) => h \o TableEnd(it) = Hb
  BY DEF Before
<1>3. h \o TableEnd(it) \in Seq(Event) /\ Nesting(h \o TableEnd(it)) = <<>>
  BY <1>2, TableClosed
<1>4. TableEnd(it) \in Seq(Event)
  <2>1. Close("table") \in Event
    BY DEF Close, Event, Names
  <2>2. <<Close("table")>> \in Seq(Event) /\ <<>> \in Seq(Event)
    BY <2>1
  <2>. QED  BY <2>2 DEF TableEnd
<1>5. Len(pg) \in Nat /\ b \in Nat /\ (b + 1) - 1 = b /\ b + 1 \in 1 .. Len(pg) + 1
  BY PageTyping
<1>. HIDE DEF Hb, out
<1>6. more = (h \o TableEnd(it)) \o out
  <2> DEFINE E == TableEnd(it)
  <2>1. E \in Seq(Event) /\ h \in Seq(Event) /\ out \in Seq(Event)
    BY <1>1, <1>2, <1>4
  <2>. HIDE DEF E
  <2>2. (h \o E) \o out = h \o (E \o out)
    BY <2>1, EventsAssociative
  <2>. QED  BY <2>2 DEF E
<1>. HIDE DEF more
<1>7. more \in Seq(Event) /\ Nesting(more) = <<>>
  BY <1>1, <1>3, <1>6, ConcatProperties DEF Balanced
<1>8. more \o TableEnd(FALSE) = more
  BY <1>7, ConcatEmptySeq DEF TableEnd
<1>9. Spaced(pg) => more \o TableEnd(FALSE) = First(Htmls(pg), (b + 1) - 1)
  BY <1>1, <1>2, <1>5, <1>6, <1>8
<1>10. TableTag(FALSE) = <<>>
  BY DEF TableTag
<1>11. nx + 1 = Len(First(Sources(pg), (b + 1) - 1)) + 1
  BY <1>1, <1>2, <1>5
<1>12. Before(pg, b + 1, nx + 1, FALSE, FALSE, more)
  BY <1>5, <1>7, <1>9, <1>10, <1>11 DEF Before
<1>. QED  BY <1>12 DEF more, out

LEMMA CodeBegun ==
  ASSUME NEW pg \in Seq(AuthorBlock), NEW b \in 1 .. Len(pg),
         NEW lines \in Seq(ListingLine), pg[b] = Code(lines),
         NEW nx, NEW ic, NEW it, NEW h, Before(pg, b, nx, ic, it, h)
  PROVE  WithinCode(pg, b, 1, lines, nx + 1, TRUE, it, h \o <<Open("pre"), Open("code")>>)
<1> DEFINE Hb == First(Htmls(pg), b - 1)
           tags == <<Open("pre"), Open("code")>>
           copied == [k \in 1 .. 1 - 1 |-> <<"line", lines[k].kind>>]
<1>1. /\ h \in Seq(Event) /\ it \in BOOLEAN /\ Nesting(h) = TableTag(it)
      /\ nx = Len(First(Sources(pg), b - 1)) + 1
      /\ Spaced(pg) => h \o TableEnd(it) = Hb /\ (it => b > 1 /\ pg[b - 1].kind = "table")
  BY DEF Before
<1>2. Len(First(Sources(pg), b - 1)) \in Nat /\ Len(lines) \in Nat
  BY BlockRendered, LenProperties
<1>3. h \o tags \in Seq(Event) /\ Nesting(h \o tags) = Nesting(h) \o <<"pre", "code">>
  BY <1>1, CodeOpens
<1>4. copied = <<>> /\ tags \in Seq(Event)
  BY DEF Open, Event, Names
<1>5. tags \o copied = tags
  <2>. HIDE DEF tags, copied
  <2>. QED  BY <1>4, ConcatEmptySeq
<1>6. Spaced(pg) => ~ it
  <2>1. pg[b].kind = "code" /\ b \in DOMAIN pg
    BY CodeBlocks, LenProperties
  <2>. QED  BY <1>1, <2>1 DEF Spaced
<1>7. Spaced(pg) => h \o tags = Hb \o (tags \o copied)
  <2>1. Spaced(pg) => h = Hb
    BY <1>1, <1>6, ConcatEmptySeq DEF TableEnd
  <2>. HIDE DEF tags, copied, Hb
  <2>. QED  BY <1>5, <2>1
<1>8. nx + 1 = Len(First(Sources(pg), b - 1)) + 1 + 1 /\ 1 \in 1 .. Len(lines) + 1
  BY <1>1, <1>2
<1>. QED  BY <1>1, <1>3, <1>6, <1>7, <1>8 DEF WithinCode

LEMMA CodeLineCopied ==
  ASSUME NEW pg \in Seq(AuthorBlock), NEW b, NEW lines, NEW j, NEW nx, NEW ic, NEW it, NEW h,
         WithinCode(pg, b, j, lines, nx, ic, it, h), j <= Len(lines)
  PROVE  WithinCode(pg, b, j + 1, lines, nx + 1, TRUE, it, h \o <<<<"line", lines[j].kind>>>>)
<1> DEFINE Hb == First(Htmls(pg), b - 1)
           tags == <<Open("pre"), Open("code")>>
           copied == [k \in 1 .. j - 1 |-> <<"line", lines[k].kind>>]
           copied1 == [k \in 1 .. (j + 1) - 1 |-> <<"line", lines[k].kind>>]
           line == <<"line", lines[j].kind>>
<1>1. /\ b \in 1 .. Len(pg) /\ pg[b] = Code(lines) /\ lines \in Seq(ListingLine)
      /\ j \in 1 .. Len(lines) + 1
      /\ nx = Len(First(Sources(pg), b - 1)) + j + 1
      /\ it \in BOOLEAN
      /\ h \in Seq(Event) /\ Nesting(h) = TableTag(it) \o <<"pre", "code">>
      /\ Spaced(pg) => ~ it /\ h = Hb \o (tags \o copied)
  BY DEF WithinCode
<1>2. /\ Len(First(Sources(pg), b - 1)) \in Nat /\ Len(lines) \in Nat /\ Hb \in Seq(Event)
      /\ j \in 1 .. Len(lines) /\ j + 1 \in 1 .. Len(lines) + 1
  <2>1. b \in 1 .. Len(pg) /\ Len(lines) \in Nat
    BY <1>1, LenProperties
  <2>2. Len(First(Sources(pg), b - 1)) \in Nat /\ Hb \in Seq(Event)
    BY <2>1, BlockRendered
  <2>. QED  BY <1>1, <2>1, <2>2
<1>3. \A k \in 1 .. Len(lines) : <<"line", lines[k].kind>> \in PlainEvent
  <2>. SUFFICES ASSUME NEW k \in 1 .. Len(lines)
                PROVE  <<"line", lines[k].kind>> \in PlainEvent
    OBVIOUS
  <2>1. lines[k] \in ListingLine
    BY <1>1
  <2>2. lines[k].kind \in Names
    BY <2>1 DEF ListingLine, Names
  <2>. QED  BY <2>2 DEF PlainEvent
<1>4. line \in PlainEvent /\ line \in Event /\ <<line>> \in Seq(Event) /\ Balanced(<<line>>)
  <2>1. line \in PlainEvent
    BY <1>2, <1>3
  <2>. HIDE DEF line
  <2>2. <<line>> \in Seq(PlainEvent)
    BY <2>1
  <2>3. line \in Event
    BY <2>1 DEF PlainEvent, Event
  <2>. QED  BY <2>1, <2>2, <2>3, BalancedPlain
<1>5. copied \in Seq(Event) /\ tags \in Seq(Event)
  <2>1. \A k \in 1 .. j - 1 : <<"line", lines[k].kind>> \in Event
    BY <1>2, <1>3 DEF PlainEvent, Event
  <2>2. j - 1 \in Nat
    BY <1>2
  <2>. QED  BY <2>1, <2>2 DEF Open, Event, Names
<1>6. copied1 = copied \o <<line>>
  <2> DEFINE added == Append(copied, line)
  <2>1. Len(copied) = j - 1 /\ \A k \in 1 .. j - 1 : copied[k] = <<"line", lines[k].kind>>
    BY <1>2
  <2>. HIDE DEF copied, line
  <2>2. added = copied \o <<line>>
    BY <1>4, <1>5, AppendIsConcat
  <2>3. /\ added \in Seq(Event) /\ Len(added) = j /\ added[j] = line
        /\ \A k \in 1 .. j - 1 : added[k] = copied[k]
    BY <1>2, <1>4, <1>5, <2>1, AppendProperties
  <2>. HIDE DEF added
  <2>4. added = [k \in 1 .. j |-> added[k]]
    BY <2>3, LenProperties
  <2>5. \A k \in 1 .. j : added[k] = <<"line", lines[k].kind>>
    <3>1. \A k \in 1 .. j : k = j \/ k \in 1 .. j - 1
      BY <1>2
    <3>. QED  BY <2>1, <2>3, <3>1 DEF line
  <2>6. copied1 = [k \in 1 .. j |-> added[k]]
    BY <1>2, <2>5
  <2>. QED  BY <2>2, <2>4, <2>6
<1>. HIDE DEF Hb, tags, copied, copied1, line
<1>7. h \o <<line>> \in Seq(Event) /\ Nesting(h \o <<line>>) = TableTag(it) \o <<"pre", "code">>
  BY <1>1, <1>4, ConcatProperties DEF Balanced
<1>8. Spaced(pg) => h \o <<line>> = Hb \o (tags \o copied1)
  <2>1. tags \o copied \in Seq(Event)
    BY <1>5, ConcatProperties
  <2>2. (Hb \o (tags \o copied)) \o <<line>> = Hb \o ((tags \o copied) \o <<line>>)
    <3> DEFINE D == tags \o copied
    <3>1. Hb \in Seq(Event) /\ D \in Seq(Event) /\ <<line>> \in Seq(Event)
      BY <1>2, <1>4, <2>1
    <3>. HIDE DEF D
    <3>2. (Hb \o D) \o <<line>> = Hb \o (D \o <<line>>)
      BY <3>1, EventsAssociative
    <3>. QED  BY <3>2 DEF D
  <2>3. (tags \o copied) \o <<line>> = tags \o (copied \o <<line>>)
    BY <1>4, <1>5, ConcatAssociative
  <2>. QED  BY <1>1, <1>6, <2>2, <2>3
<1>9. nx + 1 = Len(First(Sources(pg), b - 1)) + (j + 1) + 1
  BY <1>1, <1>2
<1>10. WithinCode(pg, b, j + 1, lines, nx + 1, TRUE, it, h \o <<line>>)
  BY <1>1, <1>2, <1>7, <1>8, <1>9 DEF WithinCode, Hb, tags, copied1
<1>. QED  BY <1>10 DEF line

LEMMA CodeEnded ==
  ASSUME NEW pg \in Seq(AuthorBlock), NEW b, NEW lines, NEW nx, NEW ic, NEW it, NEW h,
         WithinCode(pg, b, Len(lines) + 1, lines, nx, ic, it, h)
  PROVE  /\ b \in 1 .. Len(pg)
         /\ Before(pg, b + 1, nx + 1, FALSE, it, h \o <<Close("code"), Close("pre")>>)
<1> DEFINE Hb == First(Htmls(pg), b - 1)
           tags == <<Open("pre"), Open("code")>>
           copied == [k \in 1 .. (Len(lines) + 1) - 1 |-> <<"line", lines[k].kind>>]
           closing == <<Close("code"), Close("pre")>>
           more == h \o closing
<1>1. /\ b \in 1 .. Len(pg) /\ pg[b] = Code(lines) /\ lines \in Seq(ListingLine)
      /\ nx = Len(First(Sources(pg), b - 1)) + (Len(lines) + 1) + 1
      /\ it \in BOOLEAN
      /\ h \in Seq(Event) /\ Nesting(h) = TableTag(it) \o <<"pre", "code">>
      /\ Spaced(pg) => ~ it /\ h = Hb \o (tags \o copied)
  BY DEF WithinCode
<1>2. Len(lines) \in Nat /\ Len(pg) \in Nat /\ b + 1 \in 1 .. Len(pg) + 1 /\ (b + 1) - 1 = b
  <2>1. Len(lines) \in Nat
    BY <1>1, LenProperties
  <2>2. Len(pg) \in Nat
    BY PageTyping
  <2>. QED  BY <1>1, <2>1, <2>2
<1>3. /\ Len(First(Sources(pg), b - 1)) \in Nat
      /\ Len(First(Sources(pg), b)) = Len(First(Sources(pg), b - 1)) + Len(pg[b].source)
      /\ Hb \in Seq(Event) /\ First(Htmls(pg), b) = Hb \o pg[b].html
  <2>1. b \in 1 .. Len(pg)
    BY <1>1
  <2>. QED  BY <2>1, BlockRendered
<1>4. copied = CopyOf(lines)
  <2>1. (Len(lines) + 1) - 1 = Len(lines) /\ DOMAIN lines = 1 .. Len(lines)
    BY <1>1, <1>2, LenProperties
  <2>. QED  BY <2>1 DEF CopyOf
<1>5. Len(pg[b].source) = Len(lines) + 2 /\ pg[b].html = (tags \o copied) \o closing
  BY <1>1, <1>4, CodeBlocks
<1>6. copied \in Seq(Event) /\ tags \in Seq(Event) /\ closing \in Seq(Event)
  <2>1. copied \in Seq(Event)
    BY <1>1, <1>4, CopyFacts
  <2>2. tags \in Seq(Event) /\ closing \in Seq(Event)
    BY DEF Open, Close, Event, Names
  <2>. QED  BY <2>1, <2>2
<1>7. more \in Seq(Event) /\ Nesting(more) = TableTag(it)
  <2>1. TableTag(it) \in Seq(Names)
    <3>1. <<>> \in Seq(Names) /\ <<"table">> \in Seq(Names)
      BY DEF Names
    <3>. QED  BY <3>1 DEF TableTag
  <2>. QED  BY <1>1, <2>1, CodeCloses
<1>. HIDE DEF Hb, tags, copied, closing, more
<1>8. Spaced(pg) => more \o TableEnd(it) = First(Htmls(pg), (b + 1) - 1)
  <2>. SUFFICES ASSUME Spaced(pg)
                PROVE  more \o TableEnd(it) = First(Htmls(pg), (b + 1) - 1)
    OBVIOUS
  <2> DEFINE D == tags \o copied
  <2>1. D \in Seq(Event)
    BY <1>6, ConcatProperties
  <2>. HIDE DEF D
  <2>2. (Hb \o D) \o closing = Hb \o (D \o closing)
    BY <1>3, <1>6, <2>1, EventsAssociative
  <2>3. ~ it /\ TableEnd(it) = <<>>
    BY <1>1 DEF TableEnd
  <2>4. more \o <<>> = more
    BY <1>7, ConcatEmptySeq
  <2>5. more = (Hb \o D) \o closing
    BY <1>1 DEF D, more
  <2>. QED  BY <1>2, <1>3, <1>5, <2>2, <2>3, <2>4, <2>5 DEF D
<1>9. nx + 1 = Len(First(Sources(pg), (b + 1) - 1)) + 1
  <2>1. Len(First(Sources(pg), (b + 1) - 1)) = Len(First(Sources(pg), b))
    BY <1>2
  <2> DEFINE x == Len(First(Sources(pg), b - 1))
             y == Len(First(Sources(pg), b))
             m == Len(lines)
  <2>2. x \in Nat /\ m \in Nat /\ y = x + (m + 2) /\ nx = x + (m + 1) + 1
    BY <1>1, <1>2, <1>3, <1>5
  <2>. HIDE DEF x, y, m
  <2>3. nx + 1 = y + 1
    BY <2>2
  <2>. QED  BY <2>1, <2>3 DEF y
<1>10. Before(pg, b + 1, nx + 1, FALSE, it, more)
  BY <1>1, <1>2, <1>7, <1>8, <1>9 DEF Before
<1>. QED  BY <1>1, <1>10 DEF more, closing

(* The HTML of a row of a table, and of its header. *)
RowHtml(it, text) ==
    (IF it THEN <<>> ELSE <<Open("table")>>)
      \o Element("tr", Element(IF it THEN "td" ELSE "th", Escaped(text)))

LEMMA TableBegun ==
  ASSUME NEW pg \in Seq(AuthorBlock), NEW b \in 1 .. Len(pg), NEW entries \in RowTexts,
         pg[b] = Table(entries), NEW nx, NEW ic, NEW it, NEW h, Before(pg, b, nx, ic, it, h)
  PROVE  WithinTable(pg, b, 1, entries, nx + 1, FALSE, TRUE, h \o RowHtml(it, <<"word">>))
<1> DEFINE Hb == First(Htmls(pg), b - 1)
           th == TableRow("th", <<"word">>)
           td == TableRow("td", <<"word">>)
           open == <<Open("table")>>
<1>1. /\ h \in Seq(Event) /\ it \in BOOLEAN /\ Nesting(h) = TableTag(it)
      /\ nx = Len(First(Sources(pg), b - 1)) + 1
      /\ Spaced(pg) => h \o TableEnd(it) = Hb /\ (it => b > 1 /\ pg[b - 1].kind = "table")
  BY DEF Before
<1>2. Len(First(Sources(pg), b - 1)) \in Nat
  BY BlockRendered
<1>3. Spaced(pg) => ~ it
  <2>1. pg[b].kind = "table" /\ b \in DOMAIN pg
    BY TableBlocks, LenProperties
  <2>. QED  BY <1>1, <2>1 DEF Spaced
<1>4. th \in Seq(Event) /\ Balanced(th) /\ td \in Seq(Event) /\ Balanced(td)
  BY WordsOfSpans, RowBalanced
<1>5. open \in Seq(Event) /\ "table" \in Names
  BY DEF Open, Event, Names
<1>6. Rows(entries, IF 1 = 1 THEN 0 ELSE 1 - 2) = <<>>
  BY RowsNone
<1>7. nx + 1 = Len(First(Sources(pg), b - 1)) + 1 + 1 /\ 1 \in 1 .. Len(entries) + 2
  BY <1>1, <1>2
<1> DEFINE more == h \o RowHtml(it, <<"word">>)
<1>8. CASE it
  <2>1. RowHtml(it, <<"word">>) = <<>> \o td
    BY <1>8 DEF RowHtml, TableRow
  <2>. HIDE DEF td, more
  <2>2. <<>> \o td = td
    BY <1>4, ConcatEmptySeq
  <2>3. more \in Seq(Event) /\ Nesting(more) = TableTag(it)
    BY <1>1, <1>4, <2>1, <2>2, ConcatProperties DEF Balanced, more
  <2>4. Nesting(more) = <<"table">>
    BY <1>8, <2>3 DEF TableTag
  <2>5. WithinTable(pg, b, 1, entries, nx + 1, FALSE, TRUE, more)
    BY <1>3, <1>7, <1>8, <2>3, <2>4 DEF WithinTable
  <2>. QED  BY <2>5 DEF more
<1>9. CASE ~ it
  <2>1. RowHtml(it, <<"word">>) = open \o th
    BY <1>9 DEF RowHtml, TableRow
  <2>2. Nesting(h) = <<>>
    BY <1>1, <1>9 DEF TableTag
  <2>3. h \o open \in Seq(Event) /\ Nesting(h \o open) = <<"table">>
    <3>1. Append(<<>>, "table") = <<"table">>
      OBVIOUS
    <3>. QED  BY <1>1, <1>5, <2>2, <3>1, TagOpens
  <2>. HIDE DEF th, open, more, Hb
  <2>4. (h \o open) \o th = h \o (open \o th)
    BY <1>1, <1>4, <1>5, EventsAssociative
  <2>5. more \in Seq(Event) /\ Nesting(more) = <<"table">>
    BY <1>4, <2>1, <2>3, <2>4, ConcatProperties DEF Balanced, more
  <2>6. Spaced(pg) => more = Hb \o (open \o (th \o Rows(entries, IF 1 = 1 THEN 0 ELSE 1 - 2)))
    <3>1. th \o <<>> = th
      BY <1>4, ConcatEmptySeq
    <3>2. Spaced(pg) => h = Hb
      BY <1>1, <1>9, ConcatEmptySeq DEF TableEnd
    <3>. QED  BY <1>6, <2>1, <3>1, <3>2 DEF more
  <2>7. WithinTable(pg, b, 1, entries, nx + 1, FALSE, TRUE, more)
    BY <1>7, <2>5, <2>6 DEF WithinTable, Hb, open, th
  <2>. QED  BY <2>7 DEF more
<1>. QED  BY <1>1, <1>8, <1>9

LEMMA SeparatorTaken ==
  ASSUME NEW pg \in Seq(AuthorBlock), NEW b, NEW entries, NEW nx, NEW ic, NEW it, NEW h,
         WithinTable(pg, b, 1, entries, nx, ic, it, h)
  PROVE  WithinTable(pg, b, 2, entries, nx + 1, FALSE, TRUE, h)
<1>1. /\ b \in 1 .. Len(pg) /\ pg[b] = Table(entries) /\ entries \in RowTexts
      /\ nx = Len(First(Sources(pg), b - 1)) + 1 + 1
      /\ h \in Seq(Event) /\ Nesting(h) = <<"table">>
      /\ Spaced(pg) =>
            h = First(Htmls(pg), b - 1)
                  \o (<<Open("table")>> \o (TableRow("th", <<"word">>)
                  \o Rows(entries, IF 1 = 1 THEN 0 ELSE 1 - 2)))
  BY DEF WithinTable
<1>2. Rows(entries, IF 1 = 1 THEN 0 ELSE 1 - 2) = Rows(entries, IF 2 = 1 THEN 0 ELSE 2 - 2)
  <2>1. (IF 1 = 1 THEN 0 ELSE 1 - 2) = (IF 2 = 1 THEN 0 ELSE 2 - 2)
    OBVIOUS
  <2>. QED  BY <2>1
<1>3. Len(First(Sources(pg), b - 1)) \in Nat
  <2>1. b \in 1 .. Len(pg)
    BY <1>1
  <2>. QED  BY <2>1, BlockRendered
<1>4. nx + 1 = Len(First(Sources(pg), b - 1)) + 2 + 1 /\ 2 \in 1 .. Len(entries) + 2
  BY <1>1, <1>3
<1>. QED  BY <1>1, <1>2, <1>4 DEF WithinTable

LEMMA RowTaken ==
  ASSUME NEW pg \in Seq(AuthorBlock), NEW b, NEW j, NEW entries, NEW nx, NEW ic, NEW it, NEW h,
         WithinTable(pg, b, j, entries, nx, ic, it, h), j > 1, j <= Len(entries) + 1
  PROVE  WithinTable(pg, b, j + 1, entries, nx + 1, FALSE, TRUE, h \o RowHtml(TRUE, entries[j - 1]))
<1> DEFINE Hb == First(Htmls(pg), b - 1)
           th == TableRow("th", <<"word">>)
           td == TableRow("td", entries[j - 1])
           open == <<Open("table")>>
           rows == Rows(entries, j - 2)
<1>1. /\ b \in 1 .. Len(pg) /\ pg[b] = Table(entries) /\ entries \in RowTexts
      /\ j \in 1 .. Len(entries) + 2
      /\ nx = Len(First(Sources(pg), b - 1)) + j + 1
      /\ h \in Seq(Event) /\ Nesting(h) = <<"table">>
      /\ Spaced(pg) => h = Hb \o (open \o (th \o Rows(entries, IF j = 1 THEN 0 ELSE j - 2)))
  BY DEF WithinTable
<1>2. /\ j # 1 /\ j + 1 # 1 /\ j - 2 \in Nat /\ (j - 2) + 1 = (j + 1) - 2
      /\ j + 1 \in 1 .. Len(entries) + 2 /\ j - 2 < Len(entries) /\ (j - 2) + 1 = j - 1
      /\ j - 1 \in 1 .. Len(entries)
  BY <1>1, RowHtmlsType
<1>3. Rows(entries, (j + 1) - 2) = rows \o td /\ rows \in Seq(Event)
  BY <1>1, <1>2, RowsNext
<1>4. Len(First(Sources(pg), b - 1)) \in Nat /\ Hb \in Seq(Event)
  <2>1. b \in 1 .. Len(pg)
    BY <1>1
  <2>. QED  BY <2>1, BlockRendered
<1>5. nx + 1 = Len(First(Sources(pg), b - 1)) + (j + 1) + 1
  BY <1>1, <1>4
<1>6. /\ th \in Seq(Event) /\ td \in Seq(Event) /\ Balanced(td) /\ open \in Seq(Event)
  <2>1. open \in Seq(Event)
    BY DEF Open, Event, Names
  <2>. QED  BY <1>1, <1>2, <2>1, RowHtmlsType, RowBalanced, HeaderBalanced
<1>7. RowHtml(TRUE, entries[j - 1]) = td
  <2>1. RowHtml(TRUE, entries[j - 1]) = <<>> \o td
    BY DEF RowHtml, TableRow
  <2>. HIDE DEF td
  <2>. QED  BY <1>6, <2>1, ConcatEmptySeq
<1>. HIDE DEF Hb, th, td, open, rows
<1>8. h \o td \in Seq(Event) /\ Nesting(h \o td) = <<"table">>
  BY <1>1, <1>6, ConcatProperties DEF Balanced
<1>9. Spaced(pg) => h \o td = Hb \o (open \o (th \o Rows(entries, (j + 1) - 2)))
  <2>. SUFFICES ASSUME Spaced(pg)
                PROVE  h \o td = Hb \o (open \o (th \o Rows(entries, (j + 1) - 2)))
    OBVIOUS
  <2> DEFINE D == th \o rows
             E == open \o D
  <2>1. D \in Seq(Event)
    BY <1>3, <1>6, ConcatProperties
  <2>2. E \in Seq(Event)
    <3>. HIDE DEF D
    <3>. QED  BY <1>6, <2>1, ConcatProperties
  <2>3. D \o td = th \o (rows \o td)
    BY <1>3, <1>6, EventsAssociative
  <2>4. E \o td = open \o (D \o td)
    <3>. HIDE DEF D
    <3>. QED  BY <1>6, <2>1, EventsAssociative
  <2>5. h = Hb \o E
    BY <1>1, <1>2 DEF rows
  <2>. HIDE DEF D, E
  <2>6. (Hb \o E) \o td = Hb \o (E \o td)
    BY <1>4, <1>6, <2>2, EventsAssociative
  <2>. QED  BY <1>3, <2>3, <2>4, <2>5, <2>6
<1>10. WithinTable(pg, b, j + 1, entries, nx + 1, FALSE, TRUE, h \o td)
  BY <1>1, <1>2, <1>5, <1>8, <1>9 DEF WithinTable, Hb, open, th
<1>. QED  BY <1>7, <1>10

LEMMA TableEnded ==
  ASSUME NEW pg \in Seq(AuthorBlock), NEW b, NEW entries, NEW nx, NEW ic, NEW it, NEW h,
         WithinTable(pg, b, Len(entries) + 2, entries, nx, ic, it, h)
  PROVE  b \in 1 .. Len(pg) /\ Before(pg, b + 1, nx, ic, it, h)
<1> DEFINE Hb == First(Htmls(pg), b - 1)
           D == TableRow("th", <<"word">>) \o Rows(entries, Len(entries))
           E == <<Open("table")>> \o D
           close == <<Close("table")>>
<1>1. /\ b \in 1 .. Len(pg) /\ pg[b] = Table(entries) /\ entries \in RowTexts /\ ic = FALSE /\ it = TRUE
      /\ nx = Len(First(Sources(pg), b - 1)) + (Len(entries) + 2) + 1
      /\ h \in Seq(Event) /\ Nesting(h) = <<"table">>
      /\ Spaced(pg) =>
            h = Hb \o (<<Open("table")>>
                         \o (TableRow("th", <<"word">>)
                         \o Rows(entries,
                                 IF Len(entries) + 2 = 1 THEN 0 ELSE (Len(entries) + 2) - 2)))
  BY DEF WithinTable
<1>2. Len(entries) + 2 # 1 /\ (Len(entries) + 2) - 2 = Len(entries)
  BY <1>1, RowHtmlsType
<1>3. Spaced(pg) => h = Hb \o E
  BY <1>1, <1>2
<1>4. /\ Len(First(Sources(pg), b - 1)) \in Nat
      /\ Len(First(Sources(pg), b)) = Len(First(Sources(pg), b - 1)) + Len(pg[b].source)
      /\ Hb \in Seq(Event) /\ First(Htmls(pg), b) = Hb \o pg[b].html
  <2>1. b \in 1 .. Len(pg)
    BY <1>1
  <2>. QED  BY <2>1, BlockRendered
<1>5. Len(pg[b].source) = Len(entries) + 2 /\ pg[b].html = E \o close /\ pg[b].kind = "table"
  BY <1>1, TableBlocks
<1>6. close \in Seq(Event) /\ <<Open("table")>> \in Seq(Event)
  BY DEF Open, Close, Event, Names
<1>7. E \in Seq(Event)
  <2>1. D \in Seq(Event)
    BY <1>1, HeaderBalanced, RowsAll, ConcatProperties
  <2>. HIDE DEF D
  <2>. QED  BY <1>6, <2>1, ConcatProperties
<1>. HIDE DEF Hb, E, close
<1>8. (Hb \o E) \o close = Hb \o (E \o close)
  BY <1>4, <1>6, <1>7, EventsAssociative
<1>9. TableEnd(it) = close /\ TableTag(it) = <<"table">>
  BY <1>1 DEF TableEnd, TableTag, close
<1>10. Len(pg) \in Nat /\ b + 1 \in 1 .. Len(pg) + 1 /\ (b + 1) - 1 = b /\ b + 1 > 1
  <2>1. Len(pg) \in Nat
    BY PageTyping
  <2>. QED  BY <1>1, <2>1
<1>11. nx = Len(First(Sources(pg), (b + 1) - 1)) + 1
  BY <1>1, <1>4, <1>5, <1>10
<1>12. Spaced(pg) => /\ h \o TableEnd(it) = First(Htmls(pg), (b + 1) - 1)
                     /\ it => b + 1 > 1 /\ pg[(b + 1) - 1].kind = "table"
  BY <1>3, <1>4, <1>5, <1>8, <1>9, <1>10
<1>. QED  BY <1>1, <1>9, <1>10, <1>11, <1>12 DEF Before

LEMMA PageEnded ==
  ASSUME NEW pg \in Seq(AuthorBlock), NEW nx, NEW ic, NEW it, NEW h,
         Before(pg, Len(pg) + 1, nx, ic, it, h)
  PROVE  Finished(pg, nx + 1, h \o TableEnd(it))
<1>1. Len(pg) \in Nat /\ (Len(pg) + 1) - 1 = Len(pg)
  BY PageTyping
<1>2. /\ nx = Len(First(Sources(pg), Len(pg))) + 1
      /\ it \in BOOLEAN /\ h \in Seq(Event) /\ Nesting(h) = TableTag(it)
      /\ Spaced(pg) => h \o TableEnd(it) = First(Htmls(pg), Len(pg))
  BY <1>1 DEF Before
<1>3. Len(First(Sources(pg), Len(pg))) \in Nat
  <2>1. FlattenSeq(Sources(pg)) \in Seq(AnyLine) /\ First(Sources(pg), Len(pg)) = FlattenSeq(Sources(pg))
    BY PageTyping, FlattenTyped, FirstAll
  <2>. QED  BY <2>1, LenProperties
<1>4. nx + 1 = Len(First(Sources(pg), Len(pg))) + 2
  BY <1>2, <1>3
<1>. QED  BY <1>2, <1>4, TableClosed DEF Finished

(***************************************************************************)
(* The loop of render_markdown.                                            *)
(***************************************************************************)
AtBlock ==
    \E b \in 1 .. Len(page) + 1 : Before(page, b, next, in_code_block, in_table, html)

InsideCode ==
    \E b, j \in Nat, lines \in Seq(ListingLine) :
        WithinCode(page, b, j, lines, next, in_code_block, in_table, html)

InsideTable ==
    \E b, j \in Nat, entries \in RowTexts :
        /\ j <= Len(entries) + 1
        /\ WithinTable(page, b, j, entries, next, in_code_block, in_table, html)

PageInv ==
    /\ page \in Page
    /\ document = FlattenSeq(Sources(page))
    /\ Closed(page) => AtBlock \/ InsideCode \/ InsideTable \/ Finished(page, next, html)

LEMMA PageInitInv ==
  ASSUME Page \subseteq Seq(AuthorBlock), PageInit
  PROVE  PageInv
<1>1. page \in Page /\ page \in Seq(AuthorBlock) /\ document = FlattenSeq(Sources(page))
  BY DEF PageInit, Sources
<1>2. Before(page, 1, next, in_code_block, in_table, html)
  <2>1. First(Sources(page), 1 - 1) = <<>> /\ First(Htmls(page), 1 - 1) = <<>>
    BY FirstNone
  <2>2. Len(<<>>) = 0 /\ Len(page) \in Nat /\ 1 \in 1 .. Len(page) + 1
    BY <1>1, PageTyping
  <2>3. <<>> \in Seq(Event) /\ Nesting(<<>>) = <<>> /\ <<>> \o <<>> = <<>>
    BY NestingEmpty, BalancedEmpty, ConcatEmptySeq
  <2>4. next = 1 /\ in_code_block = FALSE /\ in_table = FALSE /\ html = <<>>
    BY DEF PageInit
  <2>5. next = Len(First(Sources(page), 1 - 1)) + 1
    BY <2>1, <2>2, <2>4
  <2>6. html \o TableEnd(in_table) = First(Htmls(page), 1 - 1) /\ Nesting(html) = TableTag(in_table)
    BY <2>1, <2>3, <2>4 DEF TableTag, TableEnd
  <2>7. in_code_block = FALSE /\ in_table \in BOOLEAN /\ ~ in_table /\ html \in Seq(Event)
    BY <2>3, <2>4
  <2>. QED  BY <2>2, <2>5, <2>6, <2>7 DEF Before
<1>3. 1 \in 1 .. Len(page) + 1
  BY <1>1, PageTyping
<1>. QED  BY <1>1, <1>2, <1>3 DEF PageInv, AtBlock

(* No block the author closes is empty. *)
LEMMA FirstLine ==
  ASSUME NEW pg \in Seq(AuthorBlock), NEW b \in 1 .. Len(pg), Closed(pg)
  PROVE  1 \in 1 .. Len(pg[b].source)
<1> DEFINE blk == pg[b]
<1>1. blk \in AuthorBlock /\ blk.kind # "unclosed"
  BY LenProperties DEF Closed
<1>2. ASSUME OneLine(blk)
      PROVE  1 \in 1 .. Len(blk.source)
  BY <1>2 DEF OneLine
<1>3. ASSUME NEW lines \in Seq(ListingLine), blk = Code(lines)
      PROVE  1 \in 1 .. Len(blk.source)
  BY <1>3, CodeBlocks, LenProperties
<1>4. ASSUME NEW entries \in RowTexts, blk = Table(entries)
      PROVE  1 \in 1 .. Len(blk.source)
  <2>1. Len(blk.source) = Len(entries) + 2 /\ Len(entries) \in Nat
    BY <1>4, TableBlocks, RowHtmlsType
  <2>. QED  BY <2>1
<1>. QED  BY <1>1, <1>2, <1>3, <1>4, BlockCases

(* The line that comes next decides what the loop does. *)
LEMMA LineDecides ==
  ASSUME PageNext, Len(document) \in Nat, next \in 1 .. Len(document)
  PROVE  /\ in_code_block = FALSE /\ document[next].kind = "fence" => OpenCodeBlock
         /\ in_code_block = TRUE /\ document[next].kind = "fence" => CloseCodeBlock
         /\ in_code_block = TRUE /\ document[next].kind # "fence" => CodeLine
         /\ in_code_block = FALSE /\ document[next].kind = "separator" => Separator
         /\ in_code_block = FALSE /\ document[next].kind = "row" => Row
         /\ in_code_block = FALSE
            /\ document[next].kind \in {"heading", "rule", "item", "empty", "text"} => OtherLine
<1>1. ~ EndOfPage /\ ~ Served
  BY DEF EndOfPage, Served, PageDone
<1>. QED  BY <1>1 DEF PageNext, OpenCodeBlock, CloseCodeBlock, CodeLine, Separator, Row,
                      OtherLine, ComesTo

LEMMA PageStays ==
  ASSUME PageNext
  PROVE  page' = page /\ document' = document
BY DEF PageNext, OpenCodeBlock, CloseCodeBlock, CodeLine, Separator, Row, OtherLine, EndOfPage,
       Served, Emit, pageVars

(* From the beginning of a block. *)
LEMMA StepFromBlock ==
  ASSUME page \in Seq(AuthorBlock), document = FlattenSeq(Sources(page)), Closed(page),
         AtBlock, PageNext
  PROVE  AtBlock' \/ InsideCode' \/ InsideTable' \/ Finished(page, next, html)'
<1>1. PICK b \in 1 .. Len(page) + 1 : Before(page, b, next, in_code_block, in_table, html)
  BY DEF AtBlock
<1>2. /\ next = Len(First(Sources(page), b - 1)) + 1
      /\ in_code_block = FALSE
  BY <1>1 DEF Before
<1>3. page' = page /\ document' = document
  BY PageStays
<1>4. Len(page) \in Nat /\ Len(document) \in Nat
  <2>1. document \in Seq(AnyLine)
    BY PageTyping, FlattenTyped
  <2>. QED  BY <2>1, PageTyping, LenProperties
<1>5. CASE b = Len(page) + 1
  <2>1. next = Len(document) + 1
    <3>1. (Len(page) + 1) - 1 = Len(page)
      BY <1>4
    <3>2. First(Sources(page), Len(page)) = document
      BY PageTyping, FirstAll
    <3>. QED  BY <1>2, <1>5, <3>1, <3>2
  <2>2. EndOfPage
    BY <1>4, <2>1 DEF PageNext, OpenCodeBlock, CloseCodeBlock, CodeLine, Separator, Row,
                      OtherLine, ComesTo, Served, PageDone
  <2>3. next' = next + 1 /\ html' = html \o TableEnd(in_table)
    BY <2>2 DEF EndOfPage, Emit, CloseTable, TableEnd
  <2>4. Finished(page, next + 1, html \o TableEnd(in_table))
    BY <1>1, <1>5, PageEnded
  <2>. QED  BY <1>3, <2>3, <2>4
<1>6. CASE b \in 1 .. Len(page)
  <2> DEFINE blk == page[b]
  <2>1. blk \in AuthorBlock /\ blk.kind # "unclosed"
    BY <1>6, PageTyping, LenProperties DEF Closed
  <2>2. ASSUME 1 \in 1 .. Len(blk.source)
        PROVE  next \in 1 .. Len(document) /\ document[next] = blk.source[1]
    BY <1>2, <1>6, <2>2, BlockLine
  <2>3. b + 1 \in 1 .. Len(page') + 1
    BY <1>3, <1>4, <1>6
  <2>4. CASE OneLine(blk)
    <3>1. /\ Len(blk.source) = 1
          /\ blk.source[1].kind \in {"heading", "rule", "item", "empty", "text"}
          /\ Rendered(blk.source[1]) = blk.html
      BY <2>4 DEF OneLine
    <3>2. next \in 1 .. Len(document) /\ document[next] = blk.source[1]
      BY <2>2, <3>1
    <3>3. OtherLine
      BY <1>2, <1>4, <3>1, <3>2, LineDecides
    <3>4. /\ next' = next + 1 /\ in_code_block' = FALSE /\ in_table' = FALSE
          /\ html' = html \o (TableEnd(in_table) \o blk.html)
      BY <1>2, <3>1, <3>2, <3>3 DEF OtherLine, Emit, CloseTable, TableEnd
    <3>5. Before(page, b + 1, next + 1, FALSE, FALSE, html \o (TableEnd(in_table) \o blk.html))
      BY <1>1, <1>6, <2>4, OneLineRendered
    <3>. QED  BY <1>3, <2>3, <3>4, <3>5 DEF AtBlock
  <2>5. ASSUME NEW lines \in Seq(ListingLine), blk = Code(lines)
        PROVE  InsideCode'
    <3>1. blk.source[1].kind = "fence" /\ Len(blk.source) = Len(lines) + 2 /\ Len(lines) \in Nat
      BY <2>5, CodeBlocks, LenProperties
    <3>2. next \in 1 .. Len(document) /\ document[next] = blk.source[1]
      BY <2>2, <3>1
    <3>3. OpenCodeBlock
      BY <1>2, <1>4, <3>1, <3>2, LineDecides
    <3>4. /\ next' = next + 1 /\ in_code_block' = TRUE /\ in_table' = in_table
          /\ html' = html \o <<Open("pre"), Open("code")>>
      BY <3>3 DEF OpenCodeBlock, Emit
    <3>5. WithinCode(page, b, 1, lines, next + 1, TRUE, in_table,
                     html \o <<Open("pre"), Open("code")>>)
      BY <1>1, <1>6, <2>5, CodeBegun
    <3>6. WithinCode(page', b, 1, lines, next', in_code_block', in_table', html')
      BY <1>3, <3>4, <3>5
    <3>7. b \in Nat /\ 1 \in Nat
      OBVIOUS
    <3>. QED  BY <3>6, <3>7 DEF InsideCode
  <2>6. ASSUME NEW entries \in RowTexts, blk = Table(entries)
        PROVE  InsideTable'
    <3>1. blk.source[1] = MdLine("row", <<"word">>) /\ Len(blk.source) = Len(entries) + 2
          /\ Len(entries) \in Nat
      BY <2>6, TableBlocks, RowHtmlsType
    <3>2. next \in 1 .. Len(document) /\ document[next] = MdLine("row", <<"word">>)
      BY <2>2, <3>1
    <3>3. Row
      <4>1. document[next].kind = "row"
        BY <3>2 DEF MdLine
      <4>. QED  BY <1>2, <1>4, <3>2, <4>1, LineDecides
    <3>4. /\ next' = next + 1 /\ in_code_block' = FALSE /\ in_table' = TRUE
          /\ html' = html \o RowHtml(in_table, <<"word">>)
      BY <1>2, <3>2, <3>3 DEF Row, Emit, RowHtml, MdLine
    <3>5. WithinTable(page, b, 1, entries, next + 1, FALSE, TRUE, html \o RowHtml(in_table, <<"word">>))
      BY <1>1, <1>6, <2>6, TableBegun
    <3>6. WithinTable(page', b, 1, entries, next', in_code_block', in_table', html')
      BY <1>3, <3>4, <3>5
    <3>7. b \in Nat /\ 1 \in Nat /\ 1 <= Len(entries) + 1
      BY <3>1
    <3>. QED  BY <3>6, <3>7 DEF InsideTable
  <2>. QED  BY <2>1, <2>4, <2>5, <2>6, BlockCases
<1>. QED  BY <1>4, <1>5, <1>6

LEMMA StepFromCode ==
  ASSUME page \in Seq(AuthorBlock), document = FlattenSeq(Sources(page)), InsideCode, PageNext
  PROVE  AtBlock' \/ InsideCode'
<1>1. PICK b \in Nat, j \in Nat, lines \in Seq(ListingLine) :
         WithinCode(page, b, j, lines, next, in_code_block, in_table, html)
  BY DEF InsideCode
<1>2. /\ b \in 1 .. Len(page) /\ page[b] = Code(lines) /\ j \in 1 .. Len(lines) + 1
      /\ next = Len(First(Sources(page), b - 1)) + j + 1
      /\ in_code_block = TRUE
  BY <1>1 DEF WithinCode
<1>3. page' = page /\ document' = document
  BY PageStays
<1>4. Len(page) \in Nat /\ Len(document) \in Nat /\ Len(lines) \in Nat
  <2>1. document \in Seq(AnyLine)
    BY PageTyping, FlattenTyped
  <2>. QED  BY <2>1, PageTyping, LenProperties
<1>5. next \in 1 .. Len(document) /\ document[next] = page[b].source[j + 1]
  <2>1. j + 1 \in 1 .. Len(page[b].source)
    BY <1>2, <1>4, CodeBlocks
  <2>2. /\ Len(First(Sources(page), b - 1)) + (j + 1) \in 1 .. Len(document)
        /\ document[Len(First(Sources(page), b - 1)) + (j + 1)] = page[b].source[j + 1]
    BY <1>2, <2>1, BlockLine
  <2>3. Len(First(Sources(page), b - 1)) \in Nat
    BY <1>2, BlockRendered
  <2>4. next = Len(First(Sources(page), b - 1)) + (j + 1)
    BY <1>2, <2>3
  <2>. QED  BY <2>2, <2>4
<1>6. CASE j = Len(lines) + 1
  <2>1. document[next].kind = "fence"
    <3>1. j + 1 = Len(lines) + 2
      BY <1>4, <1>6
    <3>. QED  BY <1>2, <1>5, <3>1, CodeBlocks
  <2>2. CloseCodeBlock
    BY <1>2, <1>4, <1>5, <2>1, LineDecides
  <2>3. /\ next' = next + 1 /\ in_code_block' = FALSE /\ in_table' = in_table
        /\ html' = html \o <<Close("code"), Close("pre")>>
    BY <2>2 DEF CloseCodeBlock, Emit
  <2>4. Before(page, b + 1, next + 1, FALSE, in_table, html \o <<Close("code"), Close("pre")>>)
    BY <1>1, <1>6, CodeEnded
  <2>5. b + 1 \in 1 .. Len(page') + 1
    BY <1>2, <1>3, <1>4
  <2>. QED  BY <1>3, <2>3, <2>4, <2>5 DEF AtBlock
<1>7. CASE j \in 1 .. Len(lines)
  <2>1. document[next] = lines[j]
    BY <1>2, <1>5, <1>7, CodeBlocks
  <2>2. lines[j].kind # "fence"
    <3>1. lines[j] \in ListingLine
      BY <1>7
    <3>. QED  BY <3>1 DEF ListingLine
  <2>3. CodeLine
    BY <1>2, <1>4, <1>5, <2>1, <2>2, LineDecides
  <2>4. /\ next' = next + 1 /\ in_code_block' = TRUE /\ in_table' = in_table
        /\ html' = html \o <<<<"line", lines[j].kind>>>>
    BY <1>2, <2>1, <2>3 DEF CodeLine, Emit
  <2>5. WithinCode(page, b, j + 1, lines, next + 1, TRUE, in_table,
                   html \o <<<<"line", lines[j].kind>>>>)
    <3>1. j <= Len(lines)
      BY <1>4, <1>7
    <3>. QED  BY <1>1, <3>1, CodeLineCopied
  <2>6. WithinCode(page', b, j + 1, lines, next', in_code_block', in_table', html')
    BY <1>3, <2>4, <2>5
  <2>7. j + 1 \in Nat
    OBVIOUS
  <2>. QED  BY <2>6, <2>7 DEF InsideCode
<1>. QED  BY <1>2, <1>4, <1>6, <1>7

LEMMA StepFromTable ==
  ASSUME page \in Seq(AuthorBlock), document = FlattenSeq(Sources(page)), InsideTable, PageNext
  PROVE  AtBlock' \/ InsideTable'
<1>1. PICK b \in Nat, j \in Nat, entries \in RowTexts :
         /\ j <= Len(entries) + 1
         /\ WithinTable(page, b, j, entries, next, in_code_block, in_table, html)
  BY DEF InsideTable
<1>2. /\ b \in 1 .. Len(page) /\ page[b] = Table(entries) /\ j \in 1 .. Len(entries) + 1
      /\ next = Len(First(Sources(page), b - 1)) + j + 1
      /\ in_code_block = FALSE /\ in_table = TRUE /\ html \in Seq(Event)
      /\ Len(entries) \in Nat
  BY <1>1, RowHtmlsType DEF WithinTable
<1>3. page' = page /\ document' = document
  BY PageStays
<1>4. Len(page) \in Nat /\ Len(document) \in Nat
  <2>1. document \in Seq(AnyLine)
    BY PageTyping, FlattenTyped
  <2>. QED  BY <2>1, PageTyping, LenProperties
<1>5. next \in 1 .. Len(document) /\ document[next] = page[b].source[j + 1]
  <2>1. j + 1 \in 1 .. Len(page[b].source)
    BY <1>2, TableBlocks
  <2>2. /\ Len(First(Sources(page), b - 1)) + (j + 1) \in 1 .. Len(document)
        /\ document[Len(First(Sources(page), b - 1)) + (j + 1)] = page[b].source[j + 1]
    BY <1>2, <2>1, BlockLine
  <2>3. Len(First(Sources(page), b - 1)) \in Nat
    BY <1>2, BlockRendered
  <2>4. next = Len(First(Sources(page), b - 1)) + (j + 1)
    BY <1>2, <2>3
  <2>. QED  BY <2>2, <2>4
<1>6. WithinTable(page, b, j + 1, entries, next', in_code_block', in_table', html')
  <2>1. CASE j = 1
    <3>1. document[next].kind = "separator"
      BY <1>2, <1>5, <2>1, TableBlocks
    <3>2. Separator
      BY <1>2, <1>4, <1>5, <3>1, LineDecides
    <3>3. /\ next' = next + 1 /\ in_code_block' = FALSE /\ in_table' = TRUE /\ html' = html
      BY <1>2, <3>2, ConcatEmptySeq DEF Separator, Emit
    <3>4. WithinTable(page, b, 2, entries, next + 1, FALSE, TRUE, html)
      BY <1>1, <2>1, SeparatorTaken
    <3>5. j + 1 = 2
      BY <2>1
    <3>. QED  BY <3>3, <3>4, <3>5
  <2>2. CASE j > 1
    <3>1. document[next] = MdLine("row", entries[j - 1])
      <4>1. j + 1 \in 3 .. Len(entries) + 2 /\ (j + 1) - 2 = j - 1
        BY <1>2, <2>2
      <4>. QED  BY <1>2, <1>5, <4>1, TableBlocks
    <3>2. Row
      <4>1. document[next].kind = "row"
        BY <3>1 DEF MdLine
      <4>. QED  BY <1>2, <1>4, <1>5, <4>1, LineDecides
    <3>3. /\ next' = next + 1 /\ in_code_block' = FALSE /\ in_table' = TRUE
          /\ html' = html \o RowHtml(TRUE, entries[j - 1])
      BY <1>2, <3>1, <3>2 DEF Row, Emit, RowHtml, MdLine
    <3>4. WithinTable(page, b, j + 1, entries, next + 1, FALSE, TRUE,
                      html \o RowHtml(TRUE, entries[j - 1]))
      BY <1>1, <2>2, RowTaken
    <3>. QED  BY <3>3, <3>4
  <2>. QED  BY <1>2, <2>1, <2>2
<1>7. CASE j = Len(entries) + 1
  <2>1. j + 1 = Len(entries) + 2
    BY <1>7
  <2>2. Before(page, b + 1, next', in_code_block', in_table', html')
    BY <1>6, <2>1, TableEnded
  <2>3. b + 1 \in 1 .. Len(page') + 1
    BY <1>2, <1>3, <1>4
  <2>. QED  BY <1>3, <2>2, <2>3 DEF AtBlock
<1>8. CASE j <= Len(entries)
  <2>1. j + 1 \in Nat /\ j + 1 <= Len(entries) + 1
    BY <1>8
  <2>. QED  BY <1>3, <1>6, <2>1 DEF InsideTable
<1>. QED  BY <1>2, <1>7, <1>8

LEMMA PageStepInv ==
  ASSUME Page \subseteq Seq(AuthorBlock), PageInv, [PageNext]_pageVars
  PROVE  PageInv'
<1>1. page \in Seq(AuthorBlock) /\ document = FlattenSeq(Sources(page))
  BY DEF PageInv
<1>2. CASE UNCHANGED pageVars
  BY <1>2 DEF PageInv, AtBlock, InsideCode, InsideTable, pageVars
<1>3. CASE PageNext
  <2>1. page' = page /\ document' = document
    BY <1>3, PageStays
  <2>2. ASSUME Closed(page)
        PROVE  AtBlock' \/ InsideCode' \/ InsideTable' \/ Finished(page, next, html)'
    <3>1. CASE AtBlock
      BY <1>1, <1>3, <2>2, <3>1, StepFromBlock
    <3>2. CASE InsideCode
      BY <1>1, <1>3, <3>2, StepFromCode
    <3>3. CASE InsideTable
      BY <1>1, <1>3, <3>3, StepFromTable
    <3>4. CASE Finished(page, next, html)
      <4>1. next = Len(document) + 2 /\ Len(document) \in Nat
        <5>1. First(Sources(page), Len(page)) = document
          BY <1>1, PageTyping, FirstAll
        <5>2. document \in Seq(AnyLine)
          BY <1>1, PageTyping, FlattenTyped
        <5>. QED  BY <3>4, <5>1, <5>2, LenProperties DEF Finished
      <4>2. Served
        BY <1>3, <4>1 DEF PageNext, OpenCodeBlock, CloseCodeBlock, CodeLine, Separator, Row,
                          OtherLine, EndOfPage, ComesTo
      <4>3. next' = next /\ html' = html
        BY <4>2 DEF Served, pageVars
      <4>. QED  BY <2>1, <3>4, <4>3
    <3>. QED  BY <2>2, <3>1, <3>2, <3>3, <3>4 DEF PageInv
  <2>. QED  BY <1>1, <2>1, <2>2 DEF PageInv
<1>. QED  BY <1>2, <1>3

LEMMA PageInvariant ==
  ASSUME Page \subseteq Seq(AuthorBlock)
  PROVE  PageSpec => []PageInv
<1>1. PageInit => PageInv
  BY PageInitInv
<1>2. PageInv /\ [PageNext]_pageVars => PageInv'
  BY PageStepInv
<1>. QED  BY <1>1, <1>2, PTL DEF PageSpec

(* What the invariant says when the page is done. *)
LEMMA DonePage ==
  ASSUME Page \subseteq Seq(AuthorBlock), PageInv, PageDone, Closed(page)
  PROVE  /\ Nesting(html) = <<>>
         /\ Spaced(page) => html = FlattenSeq(Htmls(page))
<1>1. page \in Seq(AuthorBlock) /\ document = FlattenSeq(Sources(page))
  BY DEF PageInv
<1>2. /\ Len(page) \in Nat /\ Len(document) \in Nat
      /\ First(Sources(page), Len(page)) = document
      /\ First(Htmls(page), Len(page)) = FlattenSeq(Htmls(page))
  <2>1. document \in Seq(AnyLine)
    BY <1>1, PageTyping, FlattenTyped
  <2>. QED  BY <1>1, <2>1, PageTyping, FirstAll, LenProperties
<1>3. next = Len(document) + 2
  BY DEF PageDone
<1>4. ~ AtBlock
  <2>. SUFFICES ASSUME NEW b \in 1 .. Len(page) + 1,
                       Before(page, b, next, in_code_block, in_table, html)
                PROVE  FALSE
    BY DEF AtBlock
  <2>1. next = Len(First(Sources(page), b - 1)) + 1
    BY DEF Before
  <2>2. CASE b = Len(page) + 1
    <3>1. b - 1 = Len(page)
      BY <1>2, <2>2
    <3>. QED  BY <1>2, <1>3, <2>1, <3>1
  <2>3. CASE b \in 1 .. Len(page)
    <3>1. 1 \in 1 .. Len(page[b].source)
      BY <1>1, <2>3, FirstLine
    <3>2. Len(First(Sources(page), b - 1)) + 1 \in 1 .. Len(document)
      BY <1>1, <2>3, <3>1, BlockLine
    <3>. QED  BY <1>2, <1>3, <2>1, <3>2
  <2>. QED  BY <1>2, <2>2, <2>3
<1>5. ~ InsideCode
  <2>. SUFFICES ASSUME NEW b \in Nat, NEW j \in Nat, NEW lines \in Seq(ListingLine),
                       WithinCode(page, b, j, lines, next, in_code_block, in_table, html)
                PROVE  FALSE
    BY DEF InsideCode
  <2>1. /\ b \in 1 .. Len(page) /\ page[b] = Code(lines) /\ j \in 1 .. Len(lines) + 1
        /\ next = Len(First(Sources(page), b - 1)) + j + 1
    BY DEF WithinCode
  <2>2. j + 1 \in 1 .. Len(page[b].source)
    BY <2>1, CodeBlocks, LenProperties
  <2>3. Len(First(Sources(page), b - 1)) + (j + 1) \in 1 .. Len(document)
    BY <1>1, <2>1, <2>2, BlockLine
  <2>4. Len(First(Sources(page), b - 1)) \in Nat
    BY <1>1, <2>1, BlockRendered
  <2>. QED  BY <1>2, <1>3, <2>1, <2>3, <2>4
<1>6. ~ InsideTable
  <2>. SUFFICES ASSUME NEW b \in Nat, NEW j \in Nat, NEW entries \in RowTexts,
                       j <= Len(entries) + 1,
                       WithinTable(page, b, j, entries, next, in_code_block, in_table, html)
                PROVE  FALSE
    BY DEF InsideTable
  <2>1. /\ b \in 1 .. Len(page) /\ page[b] = Table(entries) /\ j \in 1 .. Len(entries) + 1
        /\ next = Len(First(Sources(page), b - 1)) + j + 1 /\ Len(entries) \in Nat
    BY RowHtmlsType DEF WithinTable
  <2>2. j + 1 \in 1 .. Len(page[b].source)
    BY <2>1, TableBlocks
  <2>3. Len(First(Sources(page), b - 1)) + (j + 1) \in 1 .. Len(document)
    BY <1>1, <2>1, <2>2, BlockLine
  <2>4. Len(First(Sources(page), b - 1)) \in Nat
    BY <1>1, <2>1, BlockRendered
  <2>. QED  BY <1>2, <1>3, <2>1, <2>3, <2>4
<1>7. Finished(page, next, html)
  BY <1>4, <1>5, <1>6 DEF PageInv
<1>. QED  BY <1>2, <1>7 DEF Finished

(* Once the page is rendered every tag that was opened is closed, after those
   opened inside it, unless the author forgot a fence; also where code comes
   right after a table, which the loop leaves open around the code
   (main.rs:98-161). For documents of any blocks. *)
THEOREM PageAlwaysNests ==
  ASSUME Page \subseteq Seq(AuthorBlock)
  PROVE  PageSpec => []TagsNest
<1>1. PageInv => TagsNest
  <2>. SUFFICES ASSUME PageInv, PageDone, Closed(page)
                PROVE  Nesting(html) = <<>>
    BY DEF TagsNest, Closed
  <2>. QED  BY DonePage
<1>. QED  BY <1>1, PageInvariant, PTL

(* Once the page is rendered its HTML is that of the author's blocks, one
   after the other, if a line stands between a table and a table or code
   after it: the loop has looked at one line at a time and kept two flags, and
   yet copied code whatever its lines look like, given each table one header
   and ended it with its last row (main.rs:98-161), and paired inline markers
   as they were opened (main.rs:167-202). *)
THEOREM PageAlwaysAsWritten ==
  ASSUME Page \subseteq Seq(AuthorBlock)
  PROVE  PageSpec => []BlocksAsWritten
<1>1. PageInv => BlocksAsWritten
  <2>. SUFFICES ASSUME PageInv, PageDone, WellSpaced
                PROVE  html = FlattenSeq(Htmls(page))
    BY DEF BlocksAsWritten, Htmls
  <2>1. Closed(page) /\ Spaced(page)
    BY DEF WellSpaced, Closed, Spaced
  <2>. QED  BY <2>1, DonePage
<1>. QED  BY <1>1, PageInvariant, PTL

-----------------------------------------------------------------------------
(***************************************************************************)
(* The documentation that is served.                                       *)
(***************************************************************************)
SpacedPage == {pg \in Seq(AuthorBlock) : Spaced(pg)}

Leading == {pg \in SpacedPage : pg # <<>> /\ pg[1].kind \notin {"table", "code"}}

Untabled == {blk \in AuthorBlock : blk.kind \notin {"unclosed", "table"}}

LEMMA UntabledSpaced == Seq(Untabled) \subseteq SpacedPage
<1>1. ASSUME NEW pg \in Seq(Untabled)
      PROVE  pg \in Seq(AuthorBlock) /\ Spaced(pg)
  <2>1. pg \in Seq(AuthorBlock) /\ DOMAIN pg = 1 .. Len(pg) /\ Len(pg) \in Nat
    BY DEF Untabled
  <2>2. ASSUME NEW b \in DOMAIN pg
        PROVE  /\ pg[b].kind # "unclosed"
               /\ b > 1 /\ pg[b - 1].kind = "table" => pg[b].kind \notin {"table", "code"}
    <3>1. pg[b] \in Untabled
      BY <2>1
    <3>2. b > 1 => pg[b - 1] \in Untabled
      BY <2>1
    <3>. QED  BY <3>1, <3>2 DEF Untabled
  <2>. QED  BY <2>1, <2>2 DEF Spaced
<1>. QED  BY <1>1 DEF SpacedPage

(* Two pages follow one another if the first does not end with a table or the
   second begins with neither table nor code. *)
MayFollow(c, a) ==
    \/ c \in Leading
    \/ a # <<>> /\ c # <<>> /\ a[Len(a)].kind # "table"

LEMMA PageFollows ==
  ASSUME NEW a \in SpacedPage, NEW c \in SpacedPage, MayFollow(c, a)
  PROVE  a \o c \in SpacedPage /\ (a \in Leading => a \o c \in Leading)
<1> DEFINE pg == a \o c
<1>1. a \in Seq(AuthorBlock) /\ c \in Seq(AuthorBlock) /\ Spaced(a) /\ Spaced(c)
  BY DEF SpacedPage, Leading
<1>2. /\ Len(a) \in Nat /\ Len(c) \in Nat
      /\ DOMAIN a = 1 .. Len(a) /\ DOMAIN c = 1 .. Len(c)
  BY <1>1, LenProperties
<1>3. /\ pg \in Seq(AuthorBlock)
      /\ DOMAIN pg = 1 .. Len(a) + Len(c)
      /\ \A b \in 1 .. Len(a) : pg[b] = a[b]
      /\ \A b \in Len(a) + 1 .. Len(a) + Len(c) : pg[b] = c[b - Len(a)]
  BY <1>1, <1>2, ConcatProperties
<1>4. /\ c # <<>>
      /\ \/ c[1].kind \notin {"table", "code"}
         \/ a # <<>> /\ a[Len(a)].kind # "table"
  BY DEF MayFollow, Leading
<1>5. Spaced(pg)
  <2>. HIDE DEF pg
  <2>. SUFFICES ASSUME NEW b \in DOMAIN pg
                PROVE  /\ pg[b].kind # "unclosed"
                       /\ b > 1 /\ pg[b - 1].kind = "table" => pg[b].kind \notin {"table", "code"}
    BY DEF Spaced
  <2>1. CASE b \in 1 .. Len(a)
    <3>1. pg[b] = a[b] /\ (b > 1 => pg[b - 1] = a[b - 1])
      BY <1>2, <1>3, <2>1
    <3>. QED  BY <1>1, <1>2, <2>1, <3>1 DEF Spaced
  <2>2. CASE b = Len(a) + 1
    <3>1. pg[b] = c[1] /\ 1 \in DOMAIN c
      <4>1. Len(c) \in Nat \ {0}
        BY <1>1, <1>4, EmptySeq
      <4>2. 1 \in 1 .. Len(c) /\ b \in Len(a) + 1 .. Len(a) + Len(c) /\ b - Len(a) = 1
        BY <1>2, <2>2, <4>1
      <4>3. pg[b] = c[b - Len(a)]
        BY <1>3, <4>2
      <4>. QED  BY <1>2, <4>2, <4>3
    <3>2. a # <<>> => pg[b - 1] = a[Len(a)]
      <4>. SUFFICES ASSUME a # <<>>
                    PROVE  pg[b - 1] = a[Len(a)]
        OBVIOUS
      <4>1. Len(a) \in Nat \ {0}
        BY <1>1, EmptySeq
      <4>2. b - 1 = Len(a) /\ Len(a) \in 1 .. Len(a)
        BY <2>2, <4>1
      <4>. QED  BY <1>3, <4>2
    <3>3. a = <<>> => ~ (b > 1)
      BY <2>2, EmptySeq
    <3>. QED  BY <1>1, <1>4, <3>1, <3>2, <3>3 DEF Spaced
  <2>3. CASE b \in Len(a) + 2 .. Len(a) + Len(c)
    <3>1. PICK j \in 2 .. Len(c) : b = Len(a) + j
      <4>1. b - Len(a) \in 2 .. Len(c) /\ b = Len(a) + (b - Len(a))
        BY <1>2, <2>3
      <4>. QED  BY <4>1
    <3>2. /\ b - 1 = Len(a) + (j - 1) /\ j \in 1 .. Len(c) /\ j - 1 \in 1 .. Len(c)
      BY <1>2, <3>1
    <3>3. \A i \in 1 .. Len(c) : pg[Len(a) + i] = c[i]
      BY <1>3, <1>2
    <3>4. pg[b] = c[j] /\ pg[b - 1] = c[j - 1]
      BY <3>1, <3>2, <3>3
    <3>5. j \in DOMAIN c /\ j > 1
      BY <1>2, <3>1, <3>2
    <3>. QED  BY <1>1, <3>4, <3>5 DEF Spaced
  <2>. QED  BY <1>2, <1>3, <2>1, <2>2, <2>3
<1>6. a \in Leading => pg # <<>> /\ pg[1] = a[1]
  <2>. SUFFICES ASSUME a \in Leading
                PROVE  pg # <<>> /\ pg[1] = a[1]
    OBVIOUS
  <2>1. a # <<>>
    BY DEF Leading
  <2>2. 1 \in 1 .. Len(a)
    BY <1>1, <1>2, <2>1, EmptySeq
  <2>. QED  BY <1>2, <1>3, <2>2
<1>. QED  BY <1>3, <1>5, <1>6 DEF SpacedPage, Leading

(* The blocks the documentation is made of. *)
LEMMA DocBlocks ==
  /\ \A n \in Nat : Listing(n) \in Untabled
  /\ \A rows \in RowTexts : Table(rows) \in AuthorBlock /\ Table(rows).kind = "table"
  /\ \A spans \in Seq(Span) : Text(spans) \in Untabled /\ Item(spans) \in Untabled
  /\ {Empty, Rule, Heading, Plain, Label, Setting, Naming} \subseteq Untabled
  /\ /\ Empty.kind = "empty" /\ Heading.kind = "heading"
     /\ \A spans \in Seq(Span) : Item(spans).kind = "item"
<1>1. ASSUME NEW n \in Nat
      PROVE  Listing(n) \in Untabled
  <2>1. MdLine("text", <<>>) \in ListingLine
    BY DEF MdLine, ListingLine, LineKinds
  <2>2. [k \in 1 .. n |-> MdLine("text", <<>>)] \in Seq(ListingLine)
    BY <2>1
  <2>3. Listing(n) \in AuthorBlock
    BY <2>2 DEF Listing, AuthorBlock
  <2>4. Listing(n).kind = "code"
    BY DEF Listing, Code, Block
  <2>. QED  BY <2>3, <2>4 DEF Untabled
<1>2. \A rows \in RowTexts : Table(rows) \in AuthorBlock /\ Table(rows).kind = "table"
  BY DEF AuthorBlock, Table, Block
<1>3. ASSUME NEW spans \in Seq(Span)
      PROVE  Text(spans) \in Untabled /\ Item(spans) \in Untabled /\ Item(spans).kind = "item"
  <2>1. Text(spans) \in AuthorBlock /\ Item(spans) \in AuthorBlock
    BY DEF AuthorBlock
  <2>2. Text(spans).kind = "text" /\ Item(spans).kind = "item"
    BY DEF Text, Item, Inline, Block
  <2>. QED  BY <2>1, <2>2 DEF Untabled
<1>4. /\ <<"word">> \in Seq(Span) /\ <<"bold">> \in Seq(Span)
      /\ <<"bold", "word", "code">> \in Seq(Span) /\ <<"word", "code", "word">> \in Seq(Span)
  BY DEF Span
<1>5. Plain \in Untabled /\ Label \in Untabled /\ Setting \in Untabled /\ Naming \in Untabled
  BY <1>3, <1>4 DEF Plain, Label, Setting, Naming
<1>6. {Empty, Rule, Heading} \subseteq AuthorBlock
  BY DEF AuthorBlock
<1>7. Empty.kind = "empty" /\ Rule.kind = "rule" /\ Heading.kind = "heading"
  BY DEF Empty, Rule, Heading, Block
<1>8. {Empty, Rule, Heading} \subseteq Untabled
  BY <1>6, <1>7 DEF Untabled
<1>. QED  BY <1>1, <1>2, <1>3, <1>5, <1>7, <1>8

(* A page that begins with a block that is neither table nor code. *)
LEMMA UntabledLeading ==
  ASSUME NEW pg \in Seq(Untabled), pg # <<>>, pg[1].kind # "code"
  PROVE  pg \in Leading
<1>1. pg \in SpacedPage
  BY UntabledSpaced
<1>2. 1 \in 1 .. Len(pg)
  BY EmptySeq
<1>3. pg[1] \in Untabled
  BY <1>2
<1>. QED  BY <1>1, <1>3 DEF Leading, Untabled

LEMMA SectionLeads ==
  ASSUME NEW body \in SpacedPage, body # <<>>
  PROVE  DocSection(body) \in Leading
<1> DEFINE start == <<Empty, Rule, Empty, Heading, Empty>>
<1>1. start \in Seq(Untabled)
  BY DocBlocks
<1>2. start # <<>> /\ start[1] = Empty /\ start[Len(start)] = Empty
  OBVIOUS
<1>. HIDE DEF start
<1>3. start \in Leading
  BY <1>1, <1>2, DocBlocks, UntabledLeading
<1>4. start \in SpacedPage /\ MayFollow(body, start)
  BY <1>2, <1>3, DocBlocks DEF Leading, MayFollow
<1>5. DocSection(body) = start \o body
  BY DEF DocSection, start
<1>. QED  BY <1>3, <1>4, <1>5, PageFollows

LEMMA ExampleLeads ==
  ASSUME NEW n \in Nat
  PROVE  Example(n) \in Leading
<1>1. Example(n) \in Seq(Untabled)
  BY DocBlocks DEF Example
<1>2. Example(n) # <<>> /\ Example(n)[1] = Empty
  BY DEF Example
<1>. QED  BY <1>1, <1>2, DocBlocks, UntabledLeading

LEMMA LeadingFollows ==
  ASSUME NEW a \in Leading, NEW c \in Leading
  PROVE  a \o c \in Leading
BY PageFollows DEF Leading, MayFollow

LEMMA LeadingSection ==
  ASSUME NEW body \in Leading
  PROVE  DocSection(body) \in Leading
BY SectionLeads DEF Leading

LEMMA TableAlone ==
  ASSUME NEW rows \in RowTexts
  PROVE  <<Table(rows)>> \in SpacedPage
<1>1. <<Table(rows)>> \in Seq(AuthorBlock)
  BY DocBlocks
<1>. QED  BY <1>1, DocBlocks DEF Spaced, SpacedPage

LEMMA DocRows ==
  /\ \A n \in Nat : PlainRows(n) \in RowTexts /\ NameRows(n) \in RowTexts
  /\ VariableRows \in RowTexts
<1>1. ASSUME NEW n \in Nat
      PROVE  PlainRows(n) \in RowTexts /\ NameRows(n) \in RowTexts
  <2>1. <<"word">> \in Seq(Words) /\ <<"tick", "word", "tick", "word">> \in Seq(Words)
    BY DEF Words
  <2>. QED  BY <2>1 DEF PlainRows, NameRows, RowTexts
<1>2. /\ VariableRow(<<"word">>) \in Seq(Words)
      /\ VariableRow(<<"tick", "word", "tick", "word", "tick", "word", "tick">>) \in Seq(Words)
  <2>1. /\ <<"word">> \in Seq(Words)
        /\ <<"tick", "word", "tick", "tick", "word", "tick">> \in Seq(Words)
        /\ <<"tick", "word", "tick", "word", "tick", "word", "tick">> \in Seq(Words)
    BY DEF Words
  <2>. QED  BY <2>1, ConcatProperties DEF VariableRow
<1>3. VariableRows \in RowTexts
  BY <1>2 DEF VariableRows, RowTexts
<1>. QED  BY <1>1, <1>3

(* The inline texts that have no name of their own. *)
LEMMA InlineTypes ==
  /\ Item(<<"code", "word">>) \in Untabled /\ Item(<<"code", "word">>).kind = "item"
  /\ Item(<<"word", "code">>) \in Untabled /\ Item(<<"word", "code">>).kind = "item"
  /\ Item(<<"word">>) \in Untabled /\ Item(<<"word">>).kind = "item"
  /\ Text(<<"bold", "word", "code", "word">>) \in Untabled
  /\ Text(<<"word", "code", "word", "code", "word">>) \in Untabled
  /\ Text(<<"word", "link", "word">>) \in Untabled /\ Text(<<"word", "link">>) \in Untabled
<1>1. /\ <<"code", "word">> \in Seq(Span) /\ <<"word", "code">> \in Seq(Span)
      /\ <<"word">> \in Seq(Span) /\ <<"bold", "word", "code", "word">> \in Seq(Span)
      /\ <<"word", "code", "word", "code", "word">> \in Seq(Span)
      /\ <<"word", "link", "word">> \in Seq(Span) /\ <<"word", "link">> \in Seq(Span)
  BY DEF Span
<1>. QED  BY <1>1, DocBlocks

LEMMA NamedKinds ==
  /\ Plain.kind = "text" /\ Label.kind = "text" /\ Setting.kind = "text" /\ Naming.kind = "text"
  /\ Text(<<"word", "code", "word", "code", "word">>).kind = "text"
  /\ Text(<<"word", "link">>).kind = "text"
BY DEF Plain, Label, Setting, Naming, Text, Inline, Block

LEMMA CallsLead == Calls \in Leading
<1>1. <<Heading, Empty, Text(<<"word", "link", "word">>), Empty, Heading, Empty, Listing(10)>>
          \in Leading
  <2>1. <<Heading, Empty, Text(<<"word", "link", "word">>), Empty, Heading, Empty, Listing(10)>>
            \in Seq(Untabled)
    BY DocBlocks, InlineTypes
  <2>. QED  BY <2>1, DocBlocks, UntabledLeading
<1>2. DocSection(<<Setting, Setting, Empty, Heading, Empty, Table(NameRows(7))>>) \in Leading
  <2> DEFINE head == <<Setting, Setting, Empty, Heading, Empty>>
  <2>1. head \in Seq(Untabled) /\ head # <<>> /\ head[1] = Setting /\ head[Len(head)] = Empty
    BY DocBlocks
  <2>2. <<Setting, Setting, Empty, Heading, Empty, Table(NameRows(7))>>
            = Append(head, Table(NameRows(7)))
    OBVIOUS
  <2>3. head \in Seq(AuthorBlock) /\ Table(NameRows(7)) \in AuthorBlock
    BY <2>1, DocRows, DocBlocks DEF Untabled
  <2>. HIDE DEF head
  <2>4. Append(head, Table(NameRows(7))) = head \o <<Table(NameRows(7))>>
    BY <2>3, AppendIsConcat
  <2>5. head \in Leading
    BY <2>1, NamedKinds, UntabledLeading
  <2>6. head \o <<Table(NameRows(7))>> \in Leading
    BY <2>1, <2>5, DocRows, TableAlone, DocBlocks, PageFollows DEF MayFollow, Leading
  <2>. QED  BY <2>2, <2>4, <2>6, LeadingSection
<1>3. DocSection(<<Plain, Empty, Listing(6)>> \o Example(3) \o Example(3)) \in Leading
  <2>1. <<Plain, Empty, Listing(6)>> \in Leading
    <3>1. <<Plain, Empty, Listing(6)>> \in Seq(Untabled)
      BY DocBlocks
    <3>. QED  BY <3>1, NamedKinds, UntabledLeading
  <2>. QED  BY <2>1, ExampleLeads, LeadingFollows, LeadingSection
<1>4. <<Plain>> \in Leading
  <2>1. <<Plain>> \in Seq(Untabled)
    BY DocBlocks
  <2>. QED  BY <2>1, NamedKinds, UntabledLeading
<1>5. DocSection(<<Plain>> \o Example(5) \o Example(4)
             \o <<Empty, Label, Item(<<"code", "word">>), Item(<<"code", "word">>),
                  Item(<<"word">>)>>) \in Leading
  <2>1. <<Empty, Label, Item(<<"code", "word">>), Item(<<"code", "word">>), Item(<<"word">>)>>
            \in Seq(Untabled)
    BY DocBlocks, InlineTypes
  <2>2. <<Empty, Label, Item(<<"code", "word">>), Item(<<"code", "word">>), Item(<<"word">>)>>
            \in Leading
    BY <2>1, DocBlocks, UntabledLeading
  <2>. QED  BY <1>4, <2>2, ExampleLeads, LeadingFollows, LeadingSection
<1>6. DocSection(<<Plain>> \o Example(6) \o Example(5)) \in Leading
  BY <1>4, ExampleLeads, LeadingFollows, LeadingSection
<1>. QED  BY <1>1, <1>2, <1>3, <1>5, <1>6, LeadingFollows DEF Calls

LEMMA ListingLeads ==
  ASSUME NEW n \in Nat
  PROVE  <<Listing(n)>> \in SpacedPage /\ DocSection(<<Listing(n)>>) \in Leading
<1>1. <<Listing(n)>> \in SpacedPage
  <2>1. <<Listing(n)>> \in Seq(Untabled)
    BY DocBlocks
  <2>. QED  BY <2>1, UntabledSpaced
<1>. QED  BY <1>1, SectionLeads

LEMMA ParametersLead == Parameters \in Leading
<1>1. DocSection(<<Plain, Empty, Table(PlainRows(6)), Empty, Label>>
              \o [k \in 1 .. 3 |-> Item(<<"word", "code">>)]) \in Leading
  <2> DEFINE pg == <<Plain, Empty, Table(PlainRows(6)), Empty, Label>>
             items == [k \in 1 .. 3 |-> Item(<<"word", "code">>)]
  <2>1. pg \in Seq(AuthorBlock)
    BY DocRows, DocBlocks DEF Untabled
  <2>2. /\ DOMAIN pg = 1 .. 5
        /\ pg[1].kind = "text" /\ pg[2].kind = "empty" /\ pg[3].kind = "table"
        /\ pg[4].kind = "empty" /\ pg[5].kind = "text" /\ pg # <<>>
    BY NamedKinds, DocRows, DocBlocks
  <2>3. items \in Seq(Untabled) /\ items # <<>> /\ items[1].kind = "item"
    <3>1. items \in Seq(Untabled) /\ Len(items) = 3
      BY InlineTypes
    <3>2. items[1] = Item(<<"word", "code">>)
      OBVIOUS
    <3>. HIDE DEF items
    <3>. QED  BY <3>1, <3>2, EmptySeq, InlineTypes
  <2>. HIDE DEF pg, items
  <2>4. Spaced(pg)
    BY <2>2 DEF Spaced
  <2>5. pg \in Leading
    BY <2>1, <2>2, <2>4 DEF SpacedPage, Leading
  <2>6. items \in Leading
    BY <2>3, UntabledLeading
  <2>7. DocSection(pg \o items) \in Leading
    BY <2>5, <2>6, LeadingFollows, LeadingSection
  <2>. QED  BY <2>7 DEF pg, items
<1>2. DocSection(<<Naming, Empty, Listing(5), Empty, Text(<<"bold", "word", "code", "word">>)>>)
          \in Leading
  <2>1. <<Naming, Empty, Listing(5), Empty, Text(<<"bold", "word", "code", "word">>)>>
            \in Seq(Untabled)
    BY DocBlocks, InlineTypes
  <2>. QED  BY <2>1, NamedKinds, UntabledLeading, LeadingSection
<1>3. DocSection(<<Naming, Empty, Listing(5), Empty, Label, Item(<<"word">>), Item(<<"word">>)>>)
          \in Leading
  <2>1. <<Naming, Empty, Listing(5), Empty, Label, Item(<<"word">>), Item(<<"word">>)>>
            \in Seq(Untabled)
    BY DocBlocks, InlineTypes
  <2>. QED  BY <2>1, NamedKinds, UntabledLeading, LeadingSection
<1>4. DocSection(<<Listing(7), Empty, Plain, Listing(1)>>) \in Leading
  <2>1. <<Listing(7), Empty, Plain, Listing(1)>> \in Seq(Untabled)
    BY DocBlocks
  <2>2. <<Listing(7), Empty, Plain, Listing(1)>> \in SpacedPage
    BY <2>1, UntabledSpaced
  <2>. QED  BY <2>2, SectionLeads
<1>. QED  BY <1>1, <1>2, <1>3, <1>4, ListingLeads, LeadingFollows DEF Parameters

LEMMA MoreCallsLead == MoreCalls \in Leading
<1>1. <<Plain, Empty, Listing(3)>> \in Leading
  <2>1. <<Plain, Empty, Listing(3)>> \in Seq(Untabled)
    BY DocBlocks
  <2>. QED  BY <2>1, NamedKinds, UntabledLeading
<1>2. <<Heading, Empty, Plain, Empty, Listing(3), Empty,
        Heading, Empty, Plain, Empty, Listing(4)>> \in Leading
  <2>1. <<Heading, Empty, Plain, Empty, Listing(3), Empty,
          Heading, Empty, Plain, Empty, Listing(4)>> \in Seq(Untabled)
    BY DocBlocks
  <2>. QED  BY <2>1, DocBlocks, UntabledLeading
<1>3. <<Plain, Empty, Listing(7)>> \in Leading
  <2>1. <<Plain, Empty, Listing(7)>> \in Seq(Untabled)
    BY DocBlocks
  <2>. QED  BY <2>1, NamedKinds, UntabledLeading
<1>. QED  BY <1>1, <1>2, <1>3, ExampleLeads, LeadingFollows, LeadingSection DEF MoreCalls

LEMMA OperationLeads == Operation \in Leading
<1>1. ASSUME NEW rows \in RowTexts
      PROVE  DocSection(<<Table(rows)>>) \in Leading
  BY TableAlone, SectionLeads
<1>2. DocSection(<<Text(<<"word", "code", "word", "code", "word">>), Empty, Listing(8), Empty,
                   Plain, Listing(1)>>) \in Leading
  <2>1. <<Text(<<"word", "code", "word", "code", "word">>), Empty, Listing(8), Empty,
          Plain, Listing(1)>> \in Seq(Untabled)
    BY DocBlocks, InlineTypes
  <2>. QED  BY <2>1, NamedKinds, UntabledLeading, LeadingSection
<1>3. DocSection(<<Listing(11)>> \o Example(9)) \in Leading
  <2>1. <<Listing(11)>> \o Example(9) \in SpacedPage
    BY ListingLeads, ExampleLeads, PageFollows DEF MayFollow, Leading
  <2>2. <<Listing(11)>> \o Example(9) # <<>>
    BY ExampleLeads, ConcatEqualIffEmpty DEF SpacedPage, Leading
  <2>. QED  BY <2>1, <2>2, SectionLeads
<1>4. DocSection(<<Text(<<"word", "link">>), Empty, Listing(9)>>) \in Leading
  <2>1. <<Text(<<"word", "link">>), Empty, Listing(9)>> \in Seq(Untabled)
    BY DocBlocks, InlineTypes
  <2>. QED  BY <2>1, NamedKinds, UntabledLeading, LeadingSection
<1>. QED  BY <1>1, <1>2, <1>3, <1>4, DocRows, LeadingFollows DEF Operation

LEMMA DocumentationLeads == DOCUMENTATION \in Leading
BY CallsLead, ParametersLead, MoreCallsLead, OperationLeads, LeadingFollows DEF DOCUMENTATION

(* Of the page that GET /docs serves (main.rs:65-67), DOCUMENTATION of docs.rs:
   once it is rendered every tag is closed, and the blocks of docs.rs appear in
   its order, each with the tags of its own kind: no line of a code block is
   taken for Markdown, every table has one header and all its rows, and the
   code and the bold of each paragraph and item are tagged as they are marked
   (main.rs:98-161). The markers of the tables' cells (docs.rs:31-37, 339-342,
   372-375, 414-416) and the links (3, 422) appear as they are typed. *)
THEOREM ServedPageKeepsItsBlocks ==
  ASSUME Page = {DOCUMENTATION}
  PROVE  PageSpec => [](PageDone => /\ Nesting(html) = <<>>
                                    /\ html = FlattenSeq(Htmls(DOCUMENTATION)))
<1>1. DOCUMENTATION \in Seq(AuthorBlock) /\ Spaced(DOCUMENTATION)
  BY DocumentationLeads DEF Leading, SpacedPage
<1>2. Page \subseteq Seq(AuthorBlock)
  BY <1>1
<1>3. PageInv /\ PageDone => Nesting(html) = <<>> /\ html = FlattenSeq(Htmls(DOCUMENTATION))
  <2>. SUFFICES ASSUME PageInv, PageDone
                PROVE  Nesting(html) = <<>> /\ html = FlattenSeq(Htmls(DOCUMENTATION))
    OBVIOUS
  <2>1. page = DOCUMENTATION
    BY DEF PageInv
  <2>2. Closed(page) /\ Spaced(page)
    BY <1>1, <2>1 DEF Spaced, Closed
  <2>. QED  BY <1>2, <2>1, <2>2, DonePage
<1>. QED  BY <1>2, <1>3, PageInvariant, PTL

=============================================================================
