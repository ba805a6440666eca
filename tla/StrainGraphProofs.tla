-------------------------- MODULE StrainGraphProofs --------------------------
(***************************************************************************)
(* Theorems about StrainGraph, for every resolution of the curves, every   *)
(* width of the sizes and beatmaps of every length.                        *)
(***************************************************************************)
EXTENDS StrainGraph, FiniteSetTheorems, WellFoundedInduction, SequenceTheorems, TLAPS

-----------------------------------------------------------------------------
(***************************************************************************)
(* The largest and the smallest value of a finite sequence.                *)
(***************************************************************************)

(* A smallest set of indices whose values have no maximum would lose that by
   the removal of any of them. *)
LEMMA LargestValue ==
    ASSUME NEW n \in Nat \ {0}, NEW f, \A k \in 1 .. n : f[k] \in Int
    PROVE  \E k \in 1 .. n : \A j \in 1 .. n : f[j] <= f[k]
<1> DEFINE I == 1 .. n
           R == StrictSubsetOrdering(I)
           HasMax(U) == \E k \in U : \A j \in U : f[j] <= f[k]
           Bad == {U \in SUBSET I : U # {} /\ ~HasMax(U)}
<1>1. IsFiniteSet(I) /\ I # {} /\ I \in SUBSET I
  <2>1. IsFiniteSet(I)
    BY FS_Interval
  <2>2. 1 \in I
    OBVIOUS
  <2> QED
    BY <2>1, <2>2
<1>2. FiniteSubsetsOf(I) = SUBSET I
  BY <1>1, FS_FiniteSubsetsOfFinite
<1>3. IsWellFoundedOn(R, SUBSET I)
  BY <1>2, FS_StrictSubsetOrderingWellFounded
<1>4. SUFFICES ASSUME Bad # {} PROVE FALSE
  BY <1>1
<1>5. Bad \subseteq SUBSET I
  OBVIOUS
<1>6. \E U \in Bad : \A V \in Bad : <<V, U>> \notin R
  <2> HIDE DEF Bad, R, I
  <2> QED
    BY <1>3, <1>4, <1>5, WFMin
<1>7. PICK U \in Bad : \A V \in Bad : <<V, U>> \notin R
  BY <1>6
<1>8. PICK x \in U : TRUE
  OBVIOUS
<1> DEFINE V == U \ {x}
<1>9. V # U /\ V \subseteq U /\ V \in SUBSET I /\ U \in SUBSET I
  BY <1>8
<1>10. <<V, U>> \in R
  BY <1>9 DEF StrictSubsetOrdering
<1>11. V = {} \/ HasMax(V)
  BY <1>7, <1>9, <1>10
<1>12. \A j \in U : f[j] \in Int
  BY <1>9
<1>13. HasMax(U)
  <2>1. CASE V = {}
    <3>1. U = {x}
      BY <1>8, <2>1
    <3> QED
      BY <1>12, <3>1
  <2>2. CASE HasMax(V)
    <3>1. PICK k \in V : \A j \in V : f[j] <= f[k]
      BY <2>2
    <3>2. \A j \in U : j = x \/ f[j] <= f[k]
      BY <3>1
    <3>3. CASE f[x] <= f[k]
      BY <3>1, <3>2, <3>3
    <3>4. CASE f[k] < f[x]
      <4>1. \A j \in U : f[j] <= f[x]
        BY <1>8, <1>9, <1>12, <3>1, <3>2, <3>4
      <4> QED
        BY <1>8, <4>1
    <3> QED
      BY <1>8, <1>12, <3>1, <3>3, <3>4
  <2> QED
    BY <1>11, <2>1, <2>2
<1> QED
  BY <1>13

LEMMA SmallestValue ==
    ASSUME NEW n \in Nat \ {0}, NEW f, \A k \in 1 .. n : f[k] \in Int
    PROVE  \E k \in 1 .. n : \A j \in 1 .. n : f[k] <= f[j]
<1> DEFINE g == [k \in 1 .. n |-> -f[k]]
<1>1. \A k \in 1 .. n : g[k] = -f[k] /\ g[k] \in Int
  OBVIOUS
<1> HIDE DEF g
<1>2. PICK k \in 1 .. n : \A j \in 1 .. n : g[j] <= g[k]
  BY <1>1, LargestValue
<1>3. \A j \in 1 .. n : f[k] <= f[j]
  BY <1>1, <1>2
<1> QED
  BY <1>3

-----------------------------------------------------------------------------
(***************************************************************************)
(* Arithmetic of the samples.                                              *)
(***************************************************************************)
LEMMA Times ==
    ASSUME NEW a \in Int, NEW b \in Int, a <= b, NEW c \in Nat
    PROVE  a * c <= b * c
  OBVIOUS

(* A value between two others, by parts. *)
LEMMA Between ==
    ASSUME NEW a \in Int, NEW b \in Int, NEW low \in Int, NEW high \in Int,
           low <= a, a <= high, low <= b, b <= high,
           NEW span \in Nat, NEW rest \in 0 .. span
    PROVE  /\ a * (span - rest) + b * rest \in Int
           /\ low * span <= a * (span - rest) + b * rest
           /\ a * (span - rest) + b * rest <= high * span
<1> DEFINE other == span - rest
<1>1. other \in Nat /\ rest \in Nat /\ span = other + rest
  OBVIOUS
<1> HIDE DEF other
<1>2. /\ low * other <= a * other
      /\ a * other <= high * other
      /\ low * rest <= b * rest
      /\ b * rest <= high * rest
  BY <1>1, Times
<1>3. /\ low * span = low * other + low * rest
      /\ high * span = high * other + high * rest
  BY <1>1
<1>4. /\ low * other \in Int
      /\ low * rest \in Int
      /\ high * other \in Int
      /\ high * rest \in Int
      /\ a * other \in Int
      /\ b * rest \in Int
  BY <1>1
<1>5. /\ a * other + b * rest \in Int
      /\ low * span <= a * other + b * rest
      /\ a * other + b * rest <= high * span
  BY <1>2, <1>3, <1>4
<1> QED
  BY <1>5 DEF other

(* Where sample i of a series of n strains is taken. *)
LEMMA Place ==
    ASSUME NEW n \in Nat \ {0}, NEW span \in Nat \ {0}, NEW i \in 0 .. span
    PROVE  LET left == (i * (n - 1)) \div span
               rest == (i * (n - 1)) % span
           IN  /\ left \in 0 .. n - 1
               /\ rest \in 0 .. span - 1
               /\ rest # 0 => left + 1 \in 1 .. n - 1
<1> DEFINE p == i * (n - 1)
           left == p \div span
           rest == p % span
<1>1. p \in Nat /\ p <= span * (n - 1)
  <2>1. i * (n - 1) <= span * (n - 1)
    BY Times
  <2>2. i * (n - 1) \in Nat
    OBVIOUS
  <2> QED
    BY <2>1, <2>2
<1> HIDE DEF p
<1>2. left \in Nat /\ rest \in 0 .. span - 1 /\ p = span * left + rest
  BY <1>1
<1> HIDE DEF left, rest
<1>3. left <= n - 1
  <2> SUFFICES ASSUME left >= n PROVE FALSE
    BY <1>2
  <2>1. n * span <= left * span
    BY <1>2, Times
  <2> QED
    BY <1>1, <1>2, <2>1
<1>4. ASSUME rest # 0 PROVE left < n - 1
  <2> SUFFICES ASSUME left = n - 1 PROVE FALSE
    BY <1>2, <1>3
  <2> QED
    BY <1>1, <1>2, <1>4
<1>5. left \in 0 .. n - 1 /\ (rest # 0 => left + 1 \in 1 .. n - 1)
  BY <1>2, <1>3, <1>4
<1> QED
  BY <1>2, <1>5 DEF left, rest, p

-----------------------------------------------------------------------------
(***************************************************************************)
(* The curves.                                                             *)
(***************************************************************************)
LEMMA SampleWithin ==
    ASSUME NEW s \in Seq(Int), s # <<>>, NEW i \in 0 .. NEW_STRAIN_COUNT - 1,
           NEW low \in Int, NEW high \in Int,
           \A k \in 1 .. Len(s) : low <= s[k] /\ s[k] <= high
    PROVE  /\ Sample(s, i) \in Int
           /\ low * (NEW_STRAIN_COUNT - 1) <= Sample(s, i)
           /\ Sample(s, i) <= high * (NEW_STRAIN_COUNT - 1)
<1> DEFINE n == Len(s)
           span == NEW_STRAIN_COUNT - 1
           left == (i * (n - 1)) \div span
           rest == (i * (n - 1)) % span
<1>1. n \in Nat \ {0} /\ span \in Nat \ {0} /\ i \in 0 .. span
  BY GraphAssumption, EmptySeq, LenProperties
<1>2. \A k \in 1 .. n : s[k] \in Int /\ low <= s[k] /\ s[k] <= high
  BY ElementOfSeq, LenProperties
<1>3. Sample(s, i) = IF rest = 0 THEN s[left + 1] * span
                    ELSE s[left + 1] * (span - rest) + s[left + 2] * rest
  BY DEF Sample
<1> HIDE DEF n, span
<1>4. /\ left \in 0 .. n - 1
      /\ rest \in 0 .. span - 1
      /\ rest # 0 => left + 1 \in 1 .. n - 1
  BY <1>1, Place
<1> HIDE DEF left, rest
<1>5. left + 1 \in 1 .. n /\ (rest # 0 => left + 2 \in 1 .. n)
  BY <1>1, <1>4
<1>6. CASE rest = 0
  <2>1. s[left + 1] \in Int /\ low <= s[left + 1] /\ s[left + 1] <= high /\ span \in Nat
    BY <1>1, <1>2, <1>5
  <2>2. low * span <= s[left + 1] * span /\ s[left + 1] * span <= high * span
    BY <2>1, Times
  <2>3. s[left + 1] * span \in Int
    BY <2>1
  <2> QED
    BY <1>3, <1>6, <2>2, <2>3 DEF span
<1>7. CASE rest # 0
  <2> DEFINE a == s[left + 1]
             b == s[left + 2]
  <2>1. /\ a \in Int /\ low <= a /\ a <= high
        /\ b \in Int /\ low <= b /\ b <= high
        /\ span \in Nat /\ rest \in 0 .. span
    BY <1>1, <1>2, <1>4, <1>5, <1>7
  <2>2. Sample(s, i) = a * (span - rest) + b * rest
    BY <1>3, <1>7
  <2> HIDE DEF a, b
  <2>3. /\ a * (span - rest) + b * rest \in Int
        /\ low * span <= a * (span - rest) + b * rest
        /\ a * (span - rest) + b * rest <= high * span
    BY <2>1, Between
  <2> QED
    BY <2>2, <2>3 DEF span
<1> QED
  BY <1>6, <1>7

LEMMA SampleAtEnds ==
    ASSUME NEW s \in Seq(Int), s # <<>>
    PROVE  /\ Sample(s, 0) = s[1] * (NEW_STRAIN_COUNT - 1)
           /\ Sample(s, NEW_STRAIN_COUNT - 1) = s[Len(s)] * (NEW_STRAIN_COUNT - 1)
<1> DEFINE n == Len(s)
           span == NEW_STRAIN_COUNT - 1
<1>1. n \in Nat \ {0} /\ span \in Nat \ {0}
  BY GraphAssumption, EmptySeq, LenProperties
<1>2. /\ (0 * (n - 1)) \div span = 0
      /\ (0 * (n - 1)) % span = 0
  <2> HIDE DEF n, span
  <2>1. 0 * (n - 1) = 0
    BY <1>1
  <2> QED
    BY <1>1, <2>1
<1>3. /\ (span * (n - 1)) \div span = n - 1
      /\ (span * (n - 1)) % span = 0
  <2> HIDE DEF n, span
  <2> QED
    BY <1>1
<1> QED
  BY <1>1, <1>2, <1>3 DEF Sample

LEMMA CurveIsASequence ==
    ASSUME NEW s \in Seq(Int)
    PROVE  /\ Curve(s) \in Seq(Int)
           /\ Len(Curve(s)) = NEW_STRAIN_COUNT
           /\ DOMAIN Curve(s) = 1 .. NEW_STRAIN_COUNT
           /\ \A k \in 1 .. NEW_STRAIN_COUNT :
                 Curve(s)[k] = IF s = <<>> THEN 0 ELSE Sample(s, k - 1)
<1>1. ASSUME NEW k \in 1 .. NEW_STRAIN_COUNT, s # <<>>
      PROVE  Sample(s, k - 1) \in Int
  <2> DEFINE n == Len(s)
  <2>1. n \in Nat \ {0}
    BY <1>1, EmptySeq, LenProperties
  <2>2. \A j \in 1 .. n : s[j] \in Int
    BY ElementOfSeq, LenProperties
  <2> HIDE DEF n
  <2>3. PICK high \in 1 .. n : \A j \in 1 .. n : s[j] <= s[high]
    BY <2>1, <2>2, LargestValue
  <2>4. PICK low \in 1 .. n : \A j \in 1 .. n : s[low] <= s[j]
    BY <2>1, <2>2, SmallestValue
  <2>5. k - 1 \in 0 .. NEW_STRAIN_COUNT - 1
    BY GraphAssumption
  <2>6. s[low] \in Int /\ s[high] \in Int
    BY <2>2
  <2> QED
    BY <1>1, <2>3, <2>4, <2>5, <2>6, SampleWithin DEF n
<1>2. Curve(s) \in [1 .. NEW_STRAIN_COUNT -> Int]
  BY <1>1 DEF Curve
<1>3. NEW_STRAIN_COUNT \in Nat
  BY GraphAssumption
<1> QED
  BY <1>2, <1>3 DEF Curve

(* The curve of a series starts and ends as the series and stays within it. *)
LEMMA CurveFollows ==
    ASSUME NEW s \in Seq(Int), s # <<>>
    PROVE  LET scaled == {s[k] * (NEW_STRAIN_COUNT - 1) : k \in DOMAIN s}
               c == Curve(s)
           IN  /\ c[1] = s[1] * (NEW_STRAIN_COUNT - 1)
               /\ c[NEW_STRAIN_COUNT] = s[Len(s)] * (NEW_STRAIN_COUNT - 1)
               /\ \A k \in DOMAIN c : Min(scaled) <= c[k] /\ c[k] <= Max(scaled)
<1> DEFINE n == Len(s)
           span == NEW_STRAIN_COUNT - 1
           scaled == {s[k] * span : k \in DOMAIN s}
           c == Curve(s)
<1>1. n \in Nat \ {0} /\ span \in Nat \ {0} /\ DOMAIN s = 1 .. n
  BY GraphAssumption, EmptySeq, LenProperties
<1>2. \A k \in 1 .. n : s[k] \in Int
  BY ElementOfSeq, LenProperties
<1>3. /\ DOMAIN c = 1 .. NEW_STRAIN_COUNT
      /\ \A k \in DOMAIN c : c[k] = Sample(s, k - 1) /\ k - 1 \in 0 .. NEW_STRAIN_COUNT - 1
      /\ 1 \in DOMAIN c
      /\ NEW_STRAIN_COUNT \in DOMAIN c
  <2>1. /\ DOMAIN c = 1 .. NEW_STRAIN_COUNT
        /\ \A k \in 1 .. NEW_STRAIN_COUNT : c[k] = Sample(s, k - 1)
    BY CurveIsASequence
  <2> HIDE DEF c
  <2>2. NEW_STRAIN_COUNT \in Nat /\ NEW_STRAIN_COUNT > 2
    BY GraphAssumption
  <2> QED
    BY <2>1, <2>2
<1> HIDE DEF c
<1>4. c[1] = s[1] * span /\ c[NEW_STRAIN_COUNT] = s[n] * span
  <2>1. c[1] = Sample(s, 1 - 1) /\ c[NEW_STRAIN_COUNT] = Sample(s, NEW_STRAIN_COUNT - 1)
    BY <1>3
  <2>2. 1 - 1 = 0
    OBVIOUS
  <2> QED
    BY <2>1, <2>2, SampleAtEnds
<1> HIDE DEF n
<1>5. PICK high \in 1 .. n : \A j \in 1 .. n : s[j] <= s[high]
  BY <1>1, <1>2, LargestValue
<1>6. PICK low \in 1 .. n : \A j \in 1 .. n : s[low] <= s[j]
  BY <1>1, <1>2, SmallestValue
<1> HIDE DEF span
<1>7. \A j \in 1 .. n : /\ s[low] * span <= s[j] * span
                        /\ s[j] * span <= s[high] * span
                        /\ s[j] * span \in Int
  <2> TAKE j \in 1 .. n
  <2> DEFINE lowest == s[low]
             highest == s[high]
             x == s[j]
  <2>1. /\ lowest \in Int /\ highest \in Int /\ x \in Int /\ span \in Nat
        /\ lowest <= x /\ x <= highest
    BY <1>1, <1>2, <1>5, <1>6
  <2> HIDE DEF lowest, highest, x
  <2>2. lowest * span <= x * span /\ x * span <= highest * span
    BY <2>1, Times
  <2>3. x * span \in Int
    BY <2>1
  <2> QED
    BY <2>2, <2>3 DEF lowest, highest, x
<1>8. Max(scaled) = s[high] * span
  <2> DEFINE highest == s[high] * span
  <2>1. highest \in scaled
    BY <1>1
  <2>2. \A x \in scaled : x \in Int /\ highest >= x
    BY <1>1, <1>7
  <2> HIDE DEF highest, scaled
  <2> QED
    BY <2>1, <2>2 DEF Max, highest
<1>9. Min(scaled) = s[low] * span
  <2> DEFINE lowest == s[low] * span
  <2>1. lowest \in scaled
    BY <1>1
  <2>2. \A x \in scaled : x \in Int /\ lowest <= x
    BY <1>1, <1>7
  <2> HIDE DEF lowest, scaled
  <2> QED
    BY <2>1, <2>2 DEF Min, lowest
<1>10. ASSUME NEW k \in DOMAIN c
       PROVE  s[low] * span <= c[k] /\ c[k] <= s[high] * span
  <2>1. \A j \in 1 .. n : s[low] <= s[j] /\ s[j] <= s[high]
    BY <1>5, <1>6
  <2>2. s[low] \in Int /\ s[high] \in Int
    BY <1>2
  <2> QED
    BY <1>3, <2>1, <2>2, SampleWithin DEF n, span
<1>11. \A k \in DOMAIN c : Min(scaled) <= c[k] /\ c[k] <= Max(scaled)
  BY <1>8, <1>9, <1>10
<1> QED
  BY <1>4, <1>11 DEF c, n, span

-----------------------------------------------------------------------------
(***************************************************************************)
(* The beatmaps.                                                           *)
(***************************************************************************)
LEMMA SeriesFacts ==
    ASSUME NEW mode \in DOMAIN SeriesOf
    PROVE  /\ mode \in {"osu", "taiko", "catch", "mania"}
           /\ SeriesOf[mode] \in Seq(Names(mode))
           /\ Len(SeriesOf[mode]) \in Nat \ {0}
           /\ DOMAIN SeriesOf[mode] = 1 .. Len(SeriesOf[mode])
           /\ Leading[mode] \in Names(mode)
           /\ "aim_no_sliders" \in Names(mode) => "aim" \in Names(mode)
<1>1. mode \in {"osu", "taiko", "catch", "mania"}
  BY DEF SeriesOf
<1>2. CASE mode = "osu"
  <2>1. /\ SeriesOf[mode] = <<"aim", "aim_no_sliders", "speed", "flashlight">>
        /\ Leading[mode] = SeriesOf[mode][1]
    BY <1>2 DEF SeriesOf, Leading
  <2>2. Names(mode) = {"aim", "aim_no_sliders", "speed", "flashlight"}
    BY <2>1 DEF Names
  <2>3. /\ Len(SeriesOf[mode]) = 4
        /\ DOMAIN SeriesOf[mode] = 1 .. 4
    BY <2>1
  <2>4. SeriesOf[mode] \in Seq(Names(mode))
    BY <2>1, <2>2
  <2>5. Leading[mode] \in Names(mode)
    BY <2>1, <2>2
  <2>6. "aim_no_sliders" \in Names(mode) => "aim" \in Names(mode)
    BY <2>2
  <2> QED
    BY <1>1, <2>3, <2>4, <2>5, <2>6
<1>3. CASE mode = "taiko"
  <2>1. /\ SeriesOf[mode] = <<"stamina", "single_color_stamina", "color", "rhythm", "reading">>
        /\ Leading[mode] = SeriesOf[mode][3]
    BY <1>3 DEF SeriesOf, Leading
  <2>2. Names(mode) = {"stamina", "single_color_stamina", "color", "rhythm", "reading"}
    BY <2>1 DEF Names
  <2>3. /\ Len(SeriesOf[mode]) = 5
        /\ DOMAIN SeriesOf[mode] = 1 .. 5
    BY <2>1
  <2>4. SeriesOf[mode] \in Seq(Names(mode))
    BY <2>1, <2>2
  <2>5. Leading[mode] \in Names(mode)
    BY <2>1, <2>2
  <2>6. "aim_no_sliders" \in Names(mode) => "aim" \in Names(mode)
    BY <2>2
  <2> QED
    BY <1>1, <2>3, <2>4, <2>5, <2>6
<1>4. CASE mode = "catch"
  <2>1. /\ SeriesOf[mode] = <<"movement">>
        /\ Leading[mode] = SeriesOf[mode][1]
    BY <1>4 DEF SeriesOf, Leading
  <2>2. Names(mode) = {"movement"}
    BY <2>1 DEF Names
  <2>3. /\ Len(SeriesOf[mode]) = 1
        /\ DOMAIN SeriesOf[mode] = 1 .. 1
    BY <2>1
  <2>4. SeriesOf[mode] \in Seq(Names(mode))
    BY <2>1, <2>2
  <2>5. Leading[mode] \in Names(mode)
    BY <2>1, <2>2
  <2>6. "aim_no_sliders" \in Names(mode) => "aim" \in Names(mode)
    BY <2>2
  <2> QED
    BY <1>1, <2>3, <2>4, <2>5, <2>6
<1>5. CASE mode = "mania"
  <2>1. /\ SeriesOf[mode] = <<"strains">>
        /\ Leading[mode] = SeriesOf[mode][1]
    BY <1>5 DEF SeriesOf, Leading
  <2>2. Names(mode) = {"strains"}
    BY <2>1 DEF Names
  <2>3. /\ Len(SeriesOf[mode]) = 1
        /\ DOMAIN SeriesOf[mode] = 1 .. 1
    BY <2>1
  <2>4. SeriesOf[mode] \in Seq(Names(mode))
    BY <2>1, <2>2
  <2>5. Leading[mode] \in Names(mode)
    BY <2>1, <2>2
  <2>6. "aim_no_sliders" \in Names(mode) => "aim" \in Names(mode)
    BY <2>2
  <2> QED
    BY <1>1, <2>3, <2>4, <2>5, <2>6
<1> QED
  BY <1>1, <1>2, <1>3, <1>4, <1>5

LEMMA RawFacts ==
    ASSUME raw \in Strains
    PROVE  /\ raw.mode \in DOMAIN SeriesOf
           /\ Counted \in Nat
           /\ \A name \in Names(raw.mode) : Adjusted(name) \in Seq(Int)
<1>1. /\ raw.mode \in DOMAIN SeriesOf
      /\ raw.series \in [Names(raw.mode) -> Seq(Int)]
  BY GraphAssumption
<1>2. Counted \in Nat
  BY <1>1, SeriesFacts, LenProperties DEF Counted
<1>3. ASSUME NEW name \in Names(raw.mode)
      PROVE  Adjusted(name) \in Seq(Int)
  <2> DEFINE s == raw.series[name]
             aim == raw.series.aim
  <2>1. s \in Seq(Int)
    BY <1>1
  <2>2. CASE name # "aim_no_sliders"
    BY <2>1, <2>2 DEF Adjusted
  <2>3. CASE name = "aim_no_sliders"
    <3>1. aim \in Seq(Int)
      BY <1>1, <2>3, SeriesFacts
    <3>2. Adjusted(name) = [k \in DOMAIN s |-> IF k <= Len(aim) THEN aim[k] - s[k] ELSE s[k]]
      BY <2>3 DEF Adjusted
    <3> HIDE DEF s, aim
    <3>3. /\ DOMAIN s = 1 .. Len(s)
          /\ Len(s) \in Nat
          /\ Len(aim) \in Nat
          /\ \A k \in 1 .. Len(s) : s[k] \in Int
          /\ \A k \in 1 .. Len(aim) : aim[k] \in Int
      BY <2>1, <3>1, ElementOfSeq, LenProperties
    <3>4. Adjusted(name) \in [1 .. Len(s) -> Int]
      BY <3>2, <3>3
    <3> QED
      BY <3>3, <3>4
  <2> QED
    BY <2>2, <2>3
<1> QED
  BY <1>1, <1>2, <1>3

(* The curves of a beatmap whose sections are counted. *)
CurvesOf == [name \in Names(raw.mode) |-> Curve(Adjusted(name))]

(* The walk to the end of the shortest series passes over every sample: all
   series have been resampled to one length. *)
LEMMA MaxStrainIsMax ==
    ASSUME raw \in Strains, curves = CurvesOf
    PROVE  /\ MaxStrain \in Nat
           /\ \A name \in DOMAIN curves : \A k \in DOMAIN curves[name] :
                 curves[name][k] <= MaxStrain
<1> DEFINE N == NEW_STRAIN_COUNT
           names == SeriesOf[raw.mode]
           n == Len(names)
           samples == {curves[name][k] : name \in DOMAIN curves, k \in 1 .. N}
<1>1. /\ DOMAIN curves = Names(raw.mode)
      /\ \A name \in DOMAIN curves :
            /\ Len(curves[name]) = N
            /\ DOMAIN curves[name] = 1 .. N
            /\ curves[name] \in Seq(Int)
      /\ N \in Nat \ {0}
  BY RawFacts, CurveIsASequence, GraphAssumption DEF CurvesOf
<1>2. \A name \in DOMAIN curves : \A k \in 1 .. N : curves[name][k] \in Int
  BY <1>1, ElementOfSeq
<1>3. /\ n \in Nat \ {0}
      /\ DOMAIN names = 1 .. n
      /\ Names(raw.mode) = {names[j] : j \in 1 .. n}
  BY RawFacts, SeriesFacts DEF Names
<1>4. Min({Len(curves[name]) : name \in DOMAIN curves}) = N
  <2>1. names[1] \in DOMAIN curves
    BY <1>1, <1>3
  <2>2. {Len(curves[name]) : name \in DOMAIN curves} = {N}
    BY <1>1, <2>1
  <2>3. Min({N}) = N
    BY <1>1 DEF Min
  <2> QED
    BY <2>2, <2>3
<1>5. MaxStrain = Max({0} \cup samples)
  <2> DEFINE shortest == Min({Len(curves[name]) : name \in DOMAIN curves})
  <2>1. MaxStrain = Max({0} \cup {curves[name][k] : name \in DOMAIN curves, k \in 1 .. shortest})
    BY DEF MaxStrain
  <2>2. shortest = N
    BY <1>4
  <2> HIDE DEF shortest
  <2> QED
    BY <2>1, <2>2
<1> HIDE DEF N, n, names
<1>6. \A j \in 1 .. n : names[j] \in DOMAIN curves
  BY <1>1, <1>3
<1>7. \A j \in 1 .. n : \E b \in 1 .. N : \A k \in 1 .. N : curves[names[j]][k] <= curves[names[j]][b]
  BY <1>1, <1>2, <1>6, LargestValue
<1> DEFINE best(j) == CHOOSE b \in 1 .. N : \A k \in 1 .. N : curves[names[j]][k] <= curves[names[j]][b]
           f == [j \in 1 .. n |-> curves[names[j]][best(j)]]
<1>8. \A j \in 1 .. n : best(j) \in 1 .. N
        /\ \A k \in 1 .. N : curves[names[j]][k] <= curves[names[j]][best(j)]
  BY <1>7
<1> HIDE DEF best
<1>9. \A j \in 1 .. n : /\ f[j] \in samples
                        /\ f[j] \in Int
                        /\ \A k \in 1 .. N : curves[names[j]][k] <= f[j]
  BY <1>2, <1>6, <1>8
<1> HIDE DEF f
<1>10. PICK highest \in 1 .. n : \A j \in 1 .. n : f[j] <= f[highest]
  <2>1. n \in Nat \ {0} /\ \A j \in 1 .. n : f[j] \in Int
    BY <1>3, <1>9
  <2> QED
    BY <2>1, LargestValue
<1>11. \A name \in DOMAIN curves : \A k \in 1 .. N :
          curves[name][k] \in Int /\ curves[name][k] <= f[highest]
  <2> TAKE name \in DOMAIN curves
  <2> TAKE k \in 1 .. N
  <2>1. PICK j \in 1 .. n : name = names[j]
    BY <1>1, <1>3
  <2>2. curves[name][k] <= f[j] /\ f[j] <= f[highest] /\ f[j] \in Int /\ f[highest] \in Int
    BY <1>9, <1>10, <2>1
  <2> QED
    BY <1>2, <2>2
<1>12. \A x \in samples : x \in Int /\ x <= f[highest]
  BY <1>11
<1>13. f[highest] \in samples /\ f[highest] \in Int
  BY <1>9
<1> DEFINE m == IF f[highest] < 0 THEN 0 ELSE f[highest]
<1>14. /\ m \in {0} \cup samples
       /\ m \in Nat
       /\ \A x \in {0} \cup samples : x \in Int /\ m >= x
  <2> HIDE DEF samples
  <2> QED
    BY <1>12, <1>13
<1> HIDE DEF m, samples
<1>15. MaxStrain = m
  <2> DEFINE all == {0} \cup samples
  <2>1. m \in all /\ \A x \in all : x \in Int /\ m >= x
    BY <1>14
  <2>2. MaxStrain = Max(all)
    BY <1>5
  <2> HIDE DEF all
  <2>3. \A x \in all : (\A y \in all : x >= y) => x = m
    BY <2>1
  <2> QED
    BY <2>1, <2>2, <2>3 DEF Max
<1>16. \A name \in DOMAIN curves : \A k \in 1 .. N : curves[name][k] \in samples
  BY DEF samples
<1>17. \A name \in DOMAIN curves : \A k \in 1 .. N : curves[name][k] <= m
  BY <1>14, <1>16
<1> QED
  BY <1>1, <1>14, <1>15, <1>17

-----------------------------------------------------------------------------
(***************************************************************************)
(* The invariant.                                                          *)
(***************************************************************************)
NoCurves == [name \in Names(raw.mode) |-> <<>>]

Drawing == {"surface", "background", "series"}

(* What the stages before have left behind. *)
StageInv ==
    /\ args \in [width : SizeArg, height : SizeArg]
    /\ raw \in Strains
    /\ stage \in {"strains", "smooth", "done"} \cup Drawing
    /\ count \in {0, Counted}
    /\ curves \in {NoCurves, CurvesOf}
    /\ stage = "strains" => curves = NoCurves
    /\ stage \in {"smooth"} \cup Drawing => count = Counted /\ curves = CurvesOf
    /\ top \in Nat
    /\ stage \in {"strains", "smooth"} => top = 0
    /\ answer \in {"none", "NoStrainData", "GraphRendering", "PNG"}
    /\ stage # "done" => answer = "none"

DrawnInv ==
    /\ drawn \in Seq(Names(raw.mode))
    /\ Len(drawn) <= Len(SeriesOf[raw.mode])
    /\ \A k \in 1 .. Len(drawn) : drawn[k] = SeriesOf[raw.mode][k]

(* Drawing begins on a surface of the right size, and a graph that was not
   drawn is empty or beneath its axis. *)
SurfaceInv ==
    /\ stage \in {"background", "series"} => surface = Size
    /\ stage \in Drawing => top = MaxStrain
    /\ stage = "done" => curves = NoCurves \/ MaxStrain <= top

GraphInv == StageInv /\ DrawnInv /\ SurfaceInv /\ PngIsComplete

(* A size that becomes a positive i32 is unchanged by that. *)
LEMMA SizeFits ==
    ASSUME args \in [width : SizeArg, height : SizeArg],
           SurfaceSize.width > 0, SurfaceSize.height > 0
    PROVE  SurfaceSize = Size
<1>1. ASSUME NEW n \in 0 .. U32 - 1, AsI32(n) > 0
      PROVE  AsI32(n) = n
  BY <1>1, GraphAssumption DEF AsI32
<1>2. Size.width \in 0 .. U32 - 1 /\ Size.height \in 0 .. U32 - 1
  <2>1. /\ args.width \in 0 .. U32 - 1
        /\ args.height \in 0 .. U32 - 1
        /\ DEFAULT_WIDTH \in 0 .. U32 - 1
        /\ DEFAULT_HEIGHT \in 0 .. U32 - 1
    BY GraphAssumption
  <2> QED
    BY <2>1 DEF Size
<1>3. /\ SurfaceSize.width = AsI32(Size.width)
      /\ SurfaceSize.height = AsI32(Size.height)
  BY DEF SurfaceSize
<1>4. AsI32(Size.width) = Size.width /\ AsI32(Size.height) = Size.height
  BY <1>1, <1>2, <1>3
<1> QED
  BY <1>4 DEF SurfaceSize, Size

LEMMA GraphInitInv == GraphInit => GraphInv
<1> SUFFICES ASSUME GraphInit PROVE GraphInv
  OBVIOUS
<1> USE DEF GraphInit
<1>1. StageInv
  BY DEF StageInv, NoCurves, Drawing
<1>2. DrawnInv
  BY RawFacts, SeriesFacts, EmptySeq DEF DrawnInv
<1>3. SurfaceInv /\ PngIsComplete
  BY DEF SurfaceInv, PngIsComplete, Drawing
<1> QED
  BY <1>1, <1>2, <1>3 DEF GraphInv

LEMMA GraphNextInv == GraphInv /\ [GraphNext]_graphVars => GraphInv'
<1> SUFFICES ASSUME GraphInv, [GraphNext]_graphVars
             PROVE  GraphInv'
  OBVIOUS
<1>1. StageInv /\ DrawnInv /\ SurfaceInv /\ PngIsComplete
  BY DEF GraphInv
<1>2. args' = args /\ raw' = raw
  BY DEF GraphNext, NoSections, Smooth, Flat, FitAxes, MakeSurface, DrawBackground, DrawSeries,
         Encode, RenderingFails, Rendered, graphVars
(* All that is computed from the beatmap and the request stays. *)
<1>3. /\ Counted' = Counted
      /\ CurvesOf' = CurvesOf
      /\ NoCurves' = NoCurves
      /\ Size' = Size
      /\ Names(raw.mode)' = Names(raw.mode)
      /\ SeriesOf[raw.mode]' = SeriesOf[raw.mode]
  BY <1>2 DEF Counted, CurvesOf, NoCurves, Adjusted, Size
<1>4. ASSUME curves' = curves
      PROVE  MaxStrain' = MaxStrain
  BY <1>4 DEF MaxStrain
<1>5. CASE NoSections
  <2> USE DEF NoSections, Answer
  <2>1. StageInv'
    BY <1>1, <1>2, <1>3, <1>5 DEF StageInv, Drawing
  <2>2. DrawnInv'
    BY <1>1, <1>3, <1>5 DEF DrawnInv
  <2>3. SurfaceInv' /\ PngIsComplete'
    BY <1>1, <1>3, <1>5 DEF StageInv, SurfaceInv, PngIsComplete, Drawing
  <2> QED
    BY <2>1, <2>2, <2>3 DEF GraphInv
<1>6. CASE Smooth
  <2> USE DEF Smooth
  <2>1. StageInv'
    BY <1>1, <1>2, <1>3, <1>6 DEF StageInv, CurvesOf, Drawing
  <2>2. DrawnInv'
    BY <1>1, <1>3, <1>6 DEF DrawnInv
  <2>3. SurfaceInv' /\ PngIsComplete'
    BY <1>1, <1>3, <1>6 DEF StageInv, SurfaceInv, PngIsComplete, Drawing
  <2> QED
    BY <2>1, <2>2, <2>3 DEF GraphInv
<1>7. CASE Flat
  <2> USE DEF Flat, Answer
  <2>1. StageInv'
    BY <1>1, <1>2, <1>3, <1>7 DEF StageInv, Drawing
  <2>2. DrawnInv'
    BY <1>1, <1>3, <1>7 DEF DrawnInv
  <2>3. SurfaceInv' /\ PngIsComplete'
    BY <1>1, <1>3, <1>4, <1>7 DEF StageInv, SurfaceInv, PngIsComplete, Drawing
  <2> QED
    BY <2>1, <2>2, <2>3 DEF GraphInv
<1>8. CASE FitAxes
  <2> USE DEF FitAxes
  <2>1. curves = CurvesOf /\ MaxStrain \in Nat
    BY <1>1, <1>8, MaxStrainIsMax DEF StageInv
  <2>2. StageInv'
    BY <1>1, <1>2, <1>3, <1>8, <2>1 DEF StageInv, Drawing
  <2>3. DrawnInv'
    BY <1>1, <1>3, <1>8 DEF DrawnInv
  <2>4. SurfaceInv' /\ PngIsComplete'
    BY <1>1, <1>3, <1>4, <1>8 DEF StageInv, SurfaceInv, PngIsComplete, Drawing
  <2> QED
    BY <2>2, <2>3, <2>4 DEF GraphInv
<1>9. CASE MakeSurface \/ DrawBackground
  <2> USE DEF MakeSurface, DrawBackground
  <2>1. StageInv'
    BY <1>1, <1>2, <1>3, <1>9 DEF StageInv, Drawing
  <2>2. DrawnInv'
    BY <1>1, <1>3, <1>9 DEF DrawnInv
  <2>3. surface' = Size
    BY <1>1, <1>9, SizeFits DEF StageInv, SurfaceInv
  <2>4. SurfaceInv' /\ PngIsComplete'
    BY <1>1, <1>3, <1>4, <1>9, <2>3 DEF StageInv, SurfaceInv, PngIsComplete, Drawing
  <2> QED
    BY <2>1, <2>2, <2>4 DEF GraphInv
<1>10. CASE DrawSeries
  <2> USE DEF DrawSeries
  <2>1. StageInv'
    BY <1>1, <1>2, <1>3, <1>10 DEF StageInv, Drawing
  <2>2. DrawnInv'
    <3> DEFINE names == SeriesOf[raw.mode]
               n == Len(drawn)
               name == names[n + 1]
    <3>1. /\ n \in Nat
          /\ Len(names) \in Nat
          /\ n < Len(names)
          /\ name \in Names(raw.mode)
          /\ drawn \in Seq(Names(raw.mode))
          /\ \A k \in 1 .. n : drawn[k] = names[k]
      <4>1. n \in Nat /\ Len(names) \in Nat /\ n < Len(names) /\ names \in Seq(Names(raw.mode))
        BY <1>1, <1>10, RawFacts, SeriesFacts, LenProperties DEF StageInv, DrawnInv
      <4>2. name \in Names(raw.mode)
        BY <4>1, ElementOfSeq
      <4> QED
        BY <1>1, <4>1, <4>2 DEF DrawnInv
    <3>2. drawn' = Append(drawn, name)
      BY <1>10
    <3> HIDE DEF n, name
    <3>3. /\ drawn' \in Seq(Names(raw.mode))
          /\ Len(drawn') = n + 1
          /\ \A k \in 1 .. n : drawn'[k] = drawn[k]
          /\ drawn'[n + 1] = name
      BY <3>1, <3>2, AppendProperties DEF n
    <3>4. \A k \in 1 .. n + 1 : drawn'[k] = names[k]
      BY <3>1, <3>3 DEF name
    <3> QED
      BY <1>3, <3>1, <3>3, <3>4 DEF DrawnInv
  <2>3. SurfaceInv' /\ PngIsComplete'
    BY <1>1, <1>3, <1>4, <1>10 DEF StageInv, SurfaceInv, PngIsComplete, Drawing
  <2> QED
    BY <2>1, <2>2, <2>3 DEF GraphInv
<1>11. CASE Encode
  <2> USE DEF Encode, Answer
  <2>1. StageInv'
    BY <1>1, <1>2, <1>3, <1>11 DEF StageInv, Drawing
  <2>2. DrawnInv'
    BY <1>1, <1>3, <1>11 DEF DrawnInv
  <2>3. drawn = SeriesOf[raw.mode]
    <3>1. SeriesOf[raw.mode] \in Seq(Names(raw.mode))
      BY <1>1, RawFacts, SeriesFacts DEF StageInv
    <3> QED
      BY <1>1, <1>11, <3>1, SeqEqual DEF DrawnInv
  <2>4. SurfaceInv' /\ PngIsComplete'
    BY <1>1, <1>3, <1>4, <1>11, <2>3 DEF StageInv, SurfaceInv, PngIsComplete, Drawing
  <2> QED
    BY <2>1, <2>2, <2>4 DEF GraphInv
<1>12. CASE RenderingFails
  <2> USE DEF RenderingFails, Answer
  <2>1. StageInv'
    BY <1>1, <1>2, <1>3, <1>12 DEF StageInv, Drawing
  <2>2. DrawnInv'
    BY <1>1, <1>3, <1>12 DEF DrawnInv
  <2>3. SurfaceInv' /\ PngIsComplete'
    <3>1. curves = CurvesOf /\ MaxStrain \in Nat /\ top = MaxStrain
      BY <1>1, <1>12, MaxStrainIsMax DEF StageInv, SurfaceInv, Drawing
    <3> QED
      BY <1>1, <1>3, <1>4, <1>12, <3>1 DEF StageInv, SurfaceInv, PngIsComplete, Drawing
  <2> QED
    BY <2>1, <2>2, <2>3 DEF GraphInv
<1>13. CASE UNCHANGED graphVars
  <2> USE DEF graphVars
  <2>1. StageInv' /\ DrawnInv'
    BY <1>1, <1>2, <1>3, <1>13 DEF StageInv, DrawnInv
  <2>2. SurfaceInv' /\ PngIsComplete'
    BY <1>1, <1>3, <1>4, <1>13 DEF SurfaceInv, PngIsComplete
  <2> QED
    BY <2>1, <2>2 DEF GraphInv
<1> QED
  BY <1>5, <1>6, <1>7, <1>8, <1>9, <1>10, <1>11, <1>12, <1>13 DEF GraphNext, Rendered

(* Each stage of the rendering finds what the earlier ones should have left,
   for any strains and any size (graph.rs:48-163). *)
THEOREM GraphInvariant == GraphSpec => []GraphInv
  BY GraphInitInv, GraphNextInv, PTL DEF GraphSpec

-----------------------------------------------------------------------------
(***************************************************************************)
(* What the invariant is for.                                              *)
(***************************************************************************)
LEMMA CurveFacts ==
    ASSUME GraphInv
    PROVE  /\ DOMAIN curves = Names(raw.mode)
           /\ \A name \in Names(raw.mode) : curves[name] \in {<<>>, Curve(Adjusted(name))}
  BY DEF GraphInv, StageInv, NoCurves, CurvesOf

(* The variables of the rendering keep their types, and every curve has all
   of its samples (graph.rs:347-405). *)
THEOREM GraphTypeCorrect == GraphSpec => []GraphTypeOK
<1>1. GraphInv => GraphTypeOK
  <2> SUFFICES ASSUME GraphInv PROVE GraphTypeOK
    OBVIOUS
  <2>1. /\ raw \in Strains
        /\ count \in {0, Counted}
    BY DEF GraphInv, StageInv
  <2>2. count \in 0 .. Counted
    BY <2>1, RawFacts
  <2>3. \A name \in Names(raw.mode) :
            curves[name] \in Seq(Int) /\ Len(curves[name]) \in {0, NEW_STRAIN_COUNT}
    BY <2>1, CurveFacts, RawFacts, CurveIsASequence, EmptySeq
  <2> QED
    BY <2>2, <2>3, CurveFacts DEF GraphInv, StageInv, GraphTypeOK, Drawing
<1> QED
  BY <1>1, GraphInvariant, PTL

(* No sample of any series is above the axis, whatever the beatmap and the
   resolution: resampling first makes the series equally long, so that the
   walk over them misses none (graph.rs:126-163). *)
THEOREM TopIsTheLargest == GraphSpec => []TopIsTheLargestSample
<1>1. GraphInv => TopIsTheLargestSample
  <2> SUFFICES ASSUME GraphInv, stage \notin {"strains", "smooth"},
                      NEW name \in DOMAIN curves, NEW k \in DOMAIN curves[name]
               PROVE  curves[name][k] <= top
    BY DEF TopIsTheLargestSample
  <2>1. curves # NoCurves
    BY CurveFacts, EmptySeq DEF NoCurves
  <2>2. raw \in Strains /\ curves = CurvesOf /\ top \in Nat
    BY <2>1 DEF GraphInv, StageInv
  <2>3. MaxStrain <= top
    <3>1. MaxStrain \in Nat
      BY <2>2, MaxStrainIsMax
    <3> QED
      BY <2>1, <2>2, <3>1 DEF GraphInv, StageInv, SurfaceInv, Drawing
  <2>4. /\ MaxStrain \in Nat
        /\ curves[name][k] <= MaxStrain
    BY <2>2, MaxStrainIsMax
  <2>5. curves[name][k] \in Int
    <3>1. curves[name] \in Seq(Int)
      BY <2>2, CurveFacts, RawFacts, CurveIsASequence, EmptySeq
    <3> QED
      BY <3>1, ElementOfSeq, LenProperties
  <2> QED
    BY <2>2, <2>3, <2>4, <2>5
<1> QED
  BY <1>1, GraphInvariant, PTL

(* Curves start and end as their series and lie within them, for every
   length of beatmap and every resolution (graph.rs:347-362). *)
THEOREM CurvesFollow == GraphSpec => []CurvesFollowTheStrains
<1>1. GraphInv => CurvesFollowTheStrains
  <2> SUFFICES ASSUME GraphInv PROVE CurvesFollowTheStrains
    OBVIOUS
  <2>1. ASSUME NEW name \in DOMAIN curves, Adjusted(name) # <<>>, curves[name] # <<>>
        PROVE  curves[name] = Curve(Adjusted(name)) /\ Adjusted(name) \in Seq(Int)
    BY <2>1, CurveFacts, RawFacts DEF GraphInv, StageInv
  <2> QED
    BY <2>1, CurveFollows DEF CurvesFollowTheStrains
<1> QED
  BY <1>1, GraphInvariant, PTL

(* Sample by sample, the time of the drawing is that of the strain up to the
   difference between the number of sections and that of the samples
   (graph.rs:210-221, 347-362). *)
THEOREM SamplesDrawnOnTime == GraphSpec => []DrawnOnTime
<1>1. GraphInv => DrawnOnTime
  <2> SUFFICES ASSUME GraphInv, stage \in {"surface", "background", "series"},
                      NEW k \in 1 .. NEW_STRAIN_COUNT
               PROVE  Distance(DrawnAt(k), TakenAt(k))
                        <= Distance(NEW_STRAIN_COUNT, Counted) * (NEW_STRAIN_COUNT - 1)
    BY DEF DrawnOnTime
  <2> DEFINE N == NEW_STRAIN_COUNT
             C == Counted
             i == k - 1
             d == Distance(N, C)
  <2>1. C \in Nat /\ count = C /\ N \in Nat /\ i \in 0 .. N - 1
    BY RawFacts, GraphAssumption DEF GraphInv, StageInv, Drawing
  <2> HIDE DEF N, C, i
  <2>2. DrawnAt(k) = i * (C * (N - 1)) /\ TakenAt(k) = i * ((C - 1) * N)
    BY <2>1 DEF DrawnAt, TakenAt, N, C, i
  <2>3. i * (C * (N - 1)) - i * ((C - 1) * N) = i * (N - C)
    BY <2>1
  <2>4. d \in Nat /\ (d = N - C \/ d = C - N)
    BY <2>1 DEF Distance
  <2>5. Distance(DrawnAt(k), TakenAt(k)) = i * d
    BY <2>1, <2>2, <2>3, <2>4 DEF Distance
  <2> HIDE DEF d
  <2>6. i * d <= (N - 1) * d
    BY <2>1, <2>4, Times
  <2>7. (N - 1) * d = d * (N - 1)
    BY <2>1, <2>4
  <2> QED
    BY <2>5, <2>6, <2>7 DEF d, N, C
<1> QED
  BY <1>1, GraphInvariant, PTL

(* A PNG has the size that was asked for and shows every series once, for
   every width of the integers (graph.rs:56-57, 72-73, 198-208). *)
THEOREM PngsAreComplete == GraphSpec => []PngIsComplete
  BY GraphInvariant, PTL DEF GraphInv

=============================================================================
