-------------------------- MODULE RetrackerProofs --------------------------
(***************************************************************************)
(* Proofs about Retracker, for any waveforms, coherences and filter and    *)
(* any number of records and bins: the edge that a search ends with is a   *)
(* leading edge, and every record gets one verdict.                        *)
(*                                                                         *)
(* The edge is found in two steps, its start and its peak, and may be      *)
(* rejected and searched for again: Edge says what is known of it after    *)
(* each step.  That its height is never NaN is a fact about interpolation: *)
(* a NaN is never alone between two samples that are none.                 *)
(***************************************************************************)
EXTENDS Retracker, FiniteSetTheorems, WellFoundedInduction, TLAPS

-----------------------------------------------------------------------------
(* Numbers.                                                                *)

(* A set of numbers that is not empty has a smallest one, and Min finds it.*)
LEMMA SmallestExists ==
    ASSUME NEW S, S \subseteq Nat, S # {}
    PROVE  \E x \in S : \A y \in S : x <= y
<1>1. \E x \in S : \A y \in S : ~(<<y, x>> \in OpToRel(<, Nat))
  BY NatLessThanWellFounded, WFMin, Zenon
<1>2. \A x, y \in Nat : ~(<<y, x>> \in OpToRel(<, Nat)) => x <= y
  BY DEF OpToRel
<1> QED
  BY <1>1, <1>2

LEMMA MinFacts ==
    ASSUME NEW S, S \subseteq Nat, S # {}
    PROVE  Min(S) \in S /\ \A y \in S : Min(S) <= y
<1>1. \E x \in S : \A y \in S : x <= y
  BY SmallestExists
<1> QED
  BY <1>1, Zenon DEF Min

LEMMA Sizes ==
    /\ W \in Nat /\ W > 1 /\ Q \in Nat /\ Q > 1 /\ N \in Nat /\ Last \in Nat
    /\ Last > 0 /\ 2 * (W - 1) < Last /\ (W - 1) * Q <= Last /\ N = Last + 1
    /\ Samples = 0..Last /\ Samples \subseteq Nat /\ Bins = 0..W - 1 /\ Bins \subseteq Nat
    /\ Bins \subseteq Samples /\ 0 \in Bins /\ 0 \in Samples
<1>1. W \in Nat /\ W > 1 /\ Q \in Nat /\ Q > 1
  BY ParametersAssumption
<1>2. W * Q \in Nat /\ W * Q >= 2 * W /\ (W - 1) * Q = W * Q - Q
  BY <1>1
<1>3. N \in Nat /\ Last \in Nat /\ Last > 0 /\ 2 * (W - 1) < Last /\ N = Last + 1
      /\ (W - 1) * Q <= Last
  BY <1>1, <1>2 DEF N, Last
<1> QED
  BY <1>1, <1>3 DEF Samples, Bins

(* A positive le_dp_threshold is so in the units of the samples.           *)
LEMMA ThresholdPositive ==
    ASSUME NEW t \in Int, t > 0
    PROVE  t * SmScale * Last \in Nat /\ t * SmScale * Last > 0
<1>1. \A a, b, c \in Nat \ {0} : a * b * c \in Nat /\ a * b * c > 0
  OBVIOUS
<1>2. t \in Nat \ {0} /\ SmScale \in Nat \ {0} /\ Last \in Nat \ {0}
  BY ParametersAssumption, Sizes
<1> QED
  BY <1>1, <1>2

(* The bin before sample j, and how far the sample is behind it.           *)
LEMMA Place ==
    ASSUME NEW j \in Samples
    PROVE  /\ j * (W - 1) \in Nat
           /\ (j * (W - 1)) \div Last \in Bins /\ (j * (W - 1)) % Last \in Nat
           /\ (j * (W - 1)) % Last < Last
           /\ j * (W - 1) = Last * ((j * (W - 1)) \div Last) + ((j * (W - 1)) % Last)
           /\ (j * (W - 1)) % Last > 0 => (j * (W - 1)) \div Last + 1 \in Bins
<1> DEFINE x == j * (W - 1)
           k == x \div Last
           f == x % Last
<1>1. W - 1 \in Nat /\ Last \in Nat \ {0} /\ j \in Nat /\ j <= Last
  BY Sizes
<1>2. x \in Nat /\ x <= Last * (W - 1)
  BY <1>1
<1> HIDE DEF x
<1>3. k \in Nat /\ f \in Nat /\ f < Last /\ x = Last * k + f
  BY <1>1, <1>2
<1> HIDE DEF k, f
<1>4. Last * k + f <= Last * (W - 1)
  BY <1>2, <1>3
<1>5. k <= W - 1
  <2> SUFFICES ASSUME k >= W PROVE FALSE
    BY <1>1, <1>3, Sizes
  <2>1. Last * k >= Last * W /\ Last * W = Last * (W - 1) + Last
    BY <1>1, <1>3, Sizes
  <2> QED
    BY <2>1, <1>1, <1>3, <1>4
<1>6. f > 0 => k # W - 1
  BY <1>1, <1>3, <1>4
<1>7. k \in Bins /\ (f > 0 => k + 1 \in Bins)
  BY <1>1, <1>3, <1>5, <1>6 DEF Bins
<1> QED
  BY <1>2, <1>3, <1>7 DEF x, k, f

(* Division is determined by quotient and remainder.                       *)
LEMMA Quotient ==
    ASSUME NEW d \in Nat \ {0}, NEW k \in Nat, NEW f \in Nat, f < d
    PROVE  (d * k + f) \div d = k /\ (d * k + f) % d = f
  OBVIOUS

(* The quotients of neighbouring samples: a step is less than half a bin.  *)
LEMMA NextSample ==
    ASSUME NEW j \in Samples, j + 1 \in Samples
    PROVE  LET k == (j * (W - 1)) \div Last
               f == (j * (W - 1)) % Last
           IN  /\ f + (W - 1) < Last => /\ ((j + 1) * (W - 1)) \div Last = k
                                        /\ ((j + 1) * (W - 1)) % Last = f + (W - 1)
               /\ f + (W - 1) >= Last => ((j + 1) * (W - 1)) \div Last = k + 1
<1> DEFINE k == (j * (W - 1)) \div Last
           f == (j * (W - 1)) % Last
           d == Last
           m == W - 1
           y == (j + 1) * (W - 1)
<1>1. m \in Nat \ {0} /\ d \in Nat \ {0} /\ 2 * m < d /\ j \in Nat
  BY Sizes
<1>2. k \in Nat /\ f \in Nat /\ f < d /\ j * m = d * k + f
  BY Place, Sizes
<1>3. y = d * k + (f + m)
  BY <1>1, <1>2
<1> HIDE DEF k, f, d, m, y
<1>4. CASE f + m < d
  <2>1. f + m \in Nat
    BY <1>1, <1>2
  <2>2. y \div d = k /\ y % d = f + m
    BY <1>1, <1>2, <1>3, <1>4, <2>1, Quotient
  <2> QED
    BY <1>1, <1>2, <1>4, <2>2 DEF d, m, y, k, f
<1>5. CASE f + m >= d
  <2>1. y = d * (k + 1) + (f + m - d) /\ f + m - d \in Nat /\ f + m - d < d /\ k + 1 \in Nat
    BY <1>1, <1>2, <1>3, <1>5
  <2>2. y \div d = k + 1
    BY <1>1, <2>1, Quotient
  <2> QED
    BY <1>1, <1>2, <1>5, <2>2 DEF d, m, y, k, f
<1> QED
  BY <1>1, <1>2, <1>4, <1>5 DEF d, m, y, k, f

LEMMA LastSample == (Last * (W - 1)) \div Last = W - 1 /\ (Last * (W - 1)) % Last = 0
<1> DEFINE m == W - 1
           zero == 0
<1>1. m \in Nat /\ Last \in Nat \ {0} /\ zero \in Nat /\ zero < Last
  BY Sizes
<1>2. Last * m = Last * m + zero
  BY <1>1
<1> HIDE DEF m, zero
<1>3. (Last * m + zero) \div Last = m /\ (Last * m + zero) % Last = zero
  BY <1>1, Quotient
<1> QED
  BY <1>2, <1>3 DEF m, zero

(* Interpolation keeps the type, and a NaN has another one beside it.      *)
LEMMA InterpFacts ==
    ASSUME NEW s \in [Bins -> Int \cup {NaN}]
    PROVE  /\ Interp(s) \in [Samples -> Int \cup {NaN}]
           /\ \A j \in Samples : Interp(s)[j] = NaN =>
                \/ j > 0 /\ Interp(s)[j - 1] = NaN
                \/ j < Last /\ Interp(s)[j + 1] = NaN
<1> DEFINE k(j) == (j * (W - 1)) \div Last
           f(j) == (j * (W - 1)) % Last
           Lost(j) == s[k(j)] = NaN \/ (f(j) > 0 /\ s[k(j) + 1] = NaN)
           Value(j) == s[k(j)] * (Last - f(j)) + (IF f(j) = 0 THEN 0 ELSE s[k(j) + 1] * f(j))
<1>1. \A j \in Samples : /\ k(j) \in Bins /\ f(j) \in Nat /\ f(j) < Last
                         /\ (f(j) > 0 => k(j) + 1 \in Bins)
  BY Place
<1>2. Interp(s) = [j \in Samples |-> IF Lost(j) THEN NaN ELSE Value(j)]
  BY DEF Interp
<1>3. ASSUME NEW j \in Samples, ~Lost(j) PROVE Value(j) \in Int
  <2>1. s[k(j)] \in Int /\ (f(j) > 0 => s[k(j) + 1] \in Int)
    BY <1>1, <1>3
  <2>2. f(j) \in Nat /\ Last \in Nat
    BY <1>1, Sizes
  <2> HIDE DEF k, f
  <2>3. s[k(j)] * (Last - f(j)) \in Int
    BY <2>1, <2>2
  <2>4. CASE f(j) = 0
    BY <2>3, <2>4
  <2>5. CASE f(j) > 0
    <3>1. s[k(j) + 1] * f(j) \in Int
      BY <2>1, <2>2, <2>5
    <3> QED
      BY <2>2, <2>3, <2>5, <3>1
  <2> QED
    BY <2>2, <2>4, <2>5
<1>4. \A j \in Samples : Interp(s)[j] = NaN <=> Lost(j)
  <2> HIDE DEF Lost, Value
  <2> QED
    BY <1>2, <1>3, ParametersAssumption
<1>5. ASSUME NEW j \in Samples, j + 1 \in Samples
      PROVE  /\ f(j) + (W - 1) < Last => k(j + 1) = k(j) /\ f(j + 1) = f(j) + (W - 1)
             /\ f(j) + (W - 1) >= Last => k(j + 1) = k(j) + 1
  BY <1>5, NextSample
<1>k. \A j \in Samples : k(j) \in Nat
  BY <1>1, Sizes
<1>l. k(Last) = W - 1 /\ f(Last) = 0
  BY LastSample
<1>z. f(0) = 0
  BY Sizes, Quotient
<1> HIDE DEF k, f
<1>6. ASSUME NEW j \in Samples, Lost(j)
      PROVE  (j > 0 /\ Lost(j - 1)) \/ (j < Last /\ Lost(j + 1))
  <2>0. j \in Nat /\ j <= Last /\ W - 1 \in Nat \ {0} /\ 2 * (W - 1) < Last /\ Last \in Nat
    BY Sizes
  <2>1. CASE f(j) + (W - 1) < Last /\ j < Last
    <3>1. j + 1 \in Samples
      BY <2>0, <2>1, Sizes
    <3>2. k(j + 1) = k(j) /\ f(j + 1) = f(j) + (W - 1)
      BY <2>1, <3>1, <1>5
    <3>3. f(j) \in Nat
      BY <1>1
    <3>4. f(j + 1) > 0
      BY <3>2, <3>3, Sizes
    <3> QED
      BY <1>6, <2>1, <3>2, <3>4
  <2>2. CASE ~(f(j) + (W - 1) < Last) /\ j < Last /\ f(j) > 0 /\ s[k(j) + 1] = NaN
    <3>1. j + 1 \in Samples
      BY <2>0, <2>2, Sizes
    <3>2. k(j + 1) = k(j) + 1
      BY <2>0, <2>2, <3>1, <1>1, <1>5
    <3> QED
      BY <2>2, <3>2
  <2>3. CASE /\ ~(f(j) + (W - 1) < Last) \/ j = Last
             /\ s[k(j)] = NaN
    <3>1. j > 0 /\ j - 1 \in Samples /\ (j - 1) + 1 = j
      <4>1. j # 0
        BY <1>z, <2>0, <2>3
      <4> QED
        BY <4>1, <2>0, Sizes
    <3>2. CASE f(j - 1) + (W - 1) < Last
      <4>1. k(j) = k(j - 1) /\ f(j) = f(j - 1) + (W - 1)
        BY <3>1, <3>2, <1>5
      <4> QED
        BY <2>3, <3>1, <4>1
    <3>3. CASE f(j - 1) + (W - 1) >= Last
      <4>1. k(j) = k(j - 1) + 1
        BY <3>1, <3>3, <1>5
      <4>2. f(j - 1) > 0
        BY <2>0, <3>1, <3>3, <1>1
      <4> QED
        BY <2>3, <3>1, <4>1, <4>2
    <3> QED
      BY <3>1, <3>2, <3>3, <2>0, <1>1
  <2>4. CASE j = Last /\ ~(s[k(j)] = NaN)
    BY <1>6, <1>l, <2>4
  <2> QED
    BY <1>6, <2>0, <2>1, <2>2, <2>3, <2>4
<1>7. Interp(s) \in [Samples -> Int \cup {NaN}]
  <2> HIDE DEF Lost, Value
  <2> QED
    BY <1>2, <1>3
<1> HIDE DEF Lost, Value
<1>8. \A j \in Samples : (j > 0 => j - 1 \in Samples) /\ (j < Last => j + 1 \in Samples)
  BY Sizes
<1> QED
  BY <1>4, <1>6, <1>7, <1>8

(* The slope at a sample that falls or rises has a value on both sides, so *)
(* the sample has one too.                                                 *)
LEMMA GradientFacts ==
    ASSUME NEW s \in [Bins -> Int \cup {NaN}], NEW j \in Samples,
           Gradient(Interp(s))[j] # NaN
    PROVE  Interp(s)[j] # NaN
<1> DEFINE v == Interp(s)
           a == IF j = 0 THEN 0 ELSE j - 1
           b == IF j = Last THEN Last ELSE j + 1
<1>1. Gradient(v)[j] = IF v[a] = NaN \/ v[b] = NaN THEN NaN ELSE v[b] - v[a]
  BY DEF Gradient
<1>2. v[a] # NaN /\ v[b] # NaN
  BY <1>1
<1>3. v[j] = NaN => (j > 0 /\ v[j - 1] = NaN) \/ (j < Last /\ v[j + 1] = NaN)
  BY InterpFacts
<1>4. j \in Nat /\ Last \in Nat /\ j <= Last
  BY Sizes
<1>5. (j > 0 => a = j - 1) /\ (j < Last => b = j + 1)
  BY <1>4
<1> HIDE DEF v, a, b
<1> QED
  BY <1>2, <1>3, <1>5 DEF v

(* What is computed from a waveform.                                       *)
LEMMA WaveFacts ==
    ASSUME NEW w \in Waveforms
    PROVE  /\ Waves[w].wfi \in [Samples -> Int \cup {NaN}]
           /\ Waves[w].wfi_sm \in [Samples -> Int \cup {NaN}]
           /\ \A j \in Samples : Waves[w].d_wf_sm[j] # NaN => Waves[w].wfi_sm[j] # NaN
<1>1. w \in [Bins -> Int \cup {NaN}]
  BY WaveformsAssumption, ParametersAssumption
<1>2. SavGol(w) \in [Bins -> Int]
  BY WaveformsAssumption
<1>3. Smoothed(w) \in [Bins -> Int \cup {NaN}]
  BY <1>2 DEF Smoothed
<1>4. /\ Waves[w].wfi = Interp(w) /\ Waves[w].wfi_sm = Interp(Smoothed(w))
      /\ Waves[w].d_wf_sm = Gradient(Interp(Smoothed(w)))
  BY DEF Waves, Wave
<1> QED
  BY <1>1, <1>3, <1>4, InterpFacts, GradientFacts

-----------------------------------------------------------------------------
(* The nearest bin.                                                        *)

LEMMA NearestInBins == ASSUME NEW j \in Samples PROVE NearestBin(j) \in Bins
<1> DEFINE k == (j * (W - 1)) \div Last
           f == (j * (W - 1)) % Last
<1>1. k \in Bins /\ f \in Nat /\ (f > 0 => k + 1 \in Bins)
  BY Place
<1>2. NearestBin(j) = IF 2 * f < Last \/ (2 * f = Last /\ k % 2 = 0) THEN k ELSE k + 1
  BY DEF NearestBin
<1> HIDE DEF k, f
<1>3. Last > 0 /\ Last \in Nat
  BY Sizes
<1>4. CASE f > 0
  BY <1>1, <1>2, <1>4
<1>5. CASE f = 0
  BY <1>1, <1>2, <1>3, <1>5
<1> QED
  BY <1>1, <1>4, <1>5

-----------------------------------------------------------------------------
(* The boxcar.                                                             *)

(* The sums of the first elements exist and are numbers.                   *)
LEMMA RunningType ==
    ASSUME NEW L \in Nat, NEW y, \A k \in 0..L - 1 : y[k] \in Int
    PROVE  Running(y, L) \in [0..L -> Int]
<1> DEFINE Step(g, n) == IF n = 0 THEN 0 ELSE g[n - 1] + y[n - 1]
           Sums(g, m) == g \in [0..m -> Int] /\ \A n \in 0..m : g[n] = Step(g, n)
           Bad == {m \in 0..L : ~\E g : Sums(g, m)}
<1>1. Bad = {}
  <2> SUFFICES ASSUME Bad # {} PROVE FALSE
    OBVIOUS
  <2>1. PICK m \in Bad : \A x \in Bad : m <= x
    <3>1. Bad \subseteq Nat
      OBVIOUS
    <3> HIDE DEF Bad
    <3> QED
      BY <3>1, SmallestExists
  <2>2. m \in 0..L /\ ~\E g : Sums(g, m)
    OBVIOUS
  <2>3. CASE m = 0
    <3> DEFINE g == [n \in 0..0 |-> 0]
    <3>1. Sums(g, 0)
      OBVIOUS
    <3> QED
      BY <2>2, <2>3, <3>1
  <2>4. CASE m > 0
    <3>0. m - 1 \in 0..L /\ ~(m <= m - 1)
      BY <2>2, <2>4
    <3>1. m - 1 \in 0..L /\ m - 1 \notin Bad
      <4> HIDE DEF Bad
      <4> QED
        BY <2>1, <3>0
    <3>2. PICK g : Sums(g, m - 1)
      BY <3>1
    <3> DEFINE h == [n \in 0..m |-> IF n = m THEN g[m - 1] + y[m - 1] ELSE g[n]]
    <3>3. y[m - 1] \in Int /\ g[m - 1] \in Int
      BY <2>2, <2>4, <3>2
    <3>4. h \in [0..m -> Int]
      BY <2>2, <2>4, <3>2, <3>3
    <3>5. \A n \in 0..m : h[n] = Step(h, n)
      <4> SUFFICES ASSUME NEW n \in 0..m PROVE h[n] = Step(h, n)
        OBVIOUS
      <4>1. CASE n = m
        <5>1. h[m] = g[m - 1] + y[m - 1] /\ h[m - 1] = g[m - 1]
          BY <2>2, <2>4
        <5> QED
          BY <2>2, <2>4, <4>1, <5>1
      <4>2. CASE n = 0
        BY <2>2, <2>4, <3>2, <4>2
      <4>3. CASE n # m /\ n # 0
        <5>1. n \in 0..m - 1 /\ n - 1 \in 0..m /\ n - 1 # m
          BY <2>2, <4>3
        <5>2. h[n] = g[n] /\ h[n - 1] = g[n - 1] /\ g[n] = g[n - 1] + y[n - 1]
          BY <3>2, <4>3, <5>1
        <5> QED
          BY <4>3, <5>2
      <4> QED
        BY <4>1, <4>2, <4>3
    <3>6. Sums(h, m)
      BY <3>4, <3>5
    <3> QED
      BY <2>2, <3>6
  <2> QED
    BY <2>2, <2>3, <2>4
<1>2. PICK g : Sums(g, L)
  BY <1>1
<1>3. g = [n \in 0..L |-> IF n = 0 THEN 0 ELSE g[n - 1] + y[n - 1]]
  BY <1>2
<1> DEFINE sum == Running(y, L)
<1>4. sum = [n \in 0..L |-> IF n = 0 THEN 0 ELSE sum[n - 1] + y[n - 1]]
  <2>1. sum = CHOOSE t : t = [n \in 0..L |-> IF n = 0 THEN 0 ELSE t[n - 1] + y[n - 1]]
    BY DEF Running
  <2> HIDE DEF sum
  <2> QED
    BY <1>3, <2>1, Zenon
<1> HIDE DEF sum
<1>5. \A n \in 0..L : sum[n] \in Int
  <2> DEFINE Wrong == {n \in 0..L : sum[n] \notin Int}
  <2> SUFFICES ASSUME Wrong # {} PROVE FALSE
    OBVIOUS
  <2>1. PICK n \in Wrong : \A x \in Wrong : n <= x
    <3>1. Wrong \subseteq Nat
      OBVIOUS
    <3> HIDE DEF Wrong
    <3> QED
      BY <3>1, SmallestExists
  <2>2. n \in 0..L /\ sum[n] \notin Int
    OBVIOUS
  <2>3. n # 0
    BY <1>4, <2>2
  <2>4. n - 1 \in 0..L /\ sum[n - 1] \in Int
    BY <2>1, <2>2, <2>3
  <2>5. sum[n] = sum[n - 1] + y[n - 1] /\ y[n - 1] \in Int
    BY <1>4, <2>2, <2>3
  <2> QED
    BY <2>2, <2>4, <2>5
<1>6. sum \in [0..L -> Int]
  BY <1>4, <1>5
<1> QED
  BY <1>6 DEF sum

(* Each smoothed value is a sum of numbers over a positive count.          *)
LEMMA FastsmoothFacts ==
    ASSUME NEW y \in [Bins -> Nat], NEW k \in Bins
    PROVE  /\ Fastsmooth(y, W, Width)[k][1] \in Int
           /\ Fastsmooth(y, W, Width)[k][2] \in Nat \ {0}
<1> DEFINE h == HalfEven(Width)
           st == (Width + 1) \div 2
           R == Running(y, W)
           F == Fastsmooth(y, W, Width)[k]
<1>1. /\ W \in Nat /\ W > 1 /\ Width \in Nat /\ Width % 2 = 1 /\ Width > 1 /\ 2 * Width <= W
      /\ k \in 0..W - 1
  BY WidthAssumption, Sizes
<1>2. R \in [0..W -> Int]
  <2>1. \A n \in 0..W - 1 : y[n] \in Int
    BY <1>1, Sizes
  <2> QED
    BY <1>1, <2>1, RunningType
<1>3. PICK m \in Nat : Width = 2 * m + 1 /\ m > 0
  <2>1. Width \div 2 \in Nat /\ Width = 2 * (Width \div 2) + 1
    BY <1>1
  <2> QED
    BY <1>1, <2>1
<1>4. st = m + 1 /\ h \in {m, m + 1}
  <2>1. Width \div 2 = m /\ Width % 2 = 1 /\ (Width + 1) \div 2 = m + 1
    BY <1>3
  <2> QED
    BY <2>1, <1>3 DEF HalfEven
<1>5. F = CASE k = 0 -> <<y[0] + y[1], 2>>
            [] 1 <= k /\ k < st -> <<R[2 * k + 1] - R[0], 2 * k + 1>>
            [] st <= k /\ k < W - Width + h - 1 ->
                 <<R[k - h + Width + 1] - R[k - h + 1], Width>>
            [] k = W - Width + h - 1 /\ k < W - st ->
                 <<R[W - 1 + 1] - R[W - Width + 1], Width>>
            [] W - st <= k /\ k < W - 1 ->
                 <<R[W - 2 + 1] - R[W - 2 * (W - 1 - k)], 2 * (W - 1 - k) - 1>>
            [] OTHER -> <<0, Width>>
  BY Sizes DEF Fastsmooth
<1> HIDE DEF h, st, R, F
<1>6. CASE k = 0
  <2>1. F = <<y[0] + y[1], 2>>
    BY <1>1, <1>3, <1>4, <1>5, <1>6
  <2>2. y[0] \in Nat /\ y[1] \in Nat
    BY Sizes
  <2> QED
    BY <2>1, <2>2 DEF F
<1>7. CASE 1 <= k /\ k < st
  <2>1. F = <<R[2 * k + 1] - R[0], 2 * k + 1>>
    BY <1>1, <1>3, <1>4, <1>5, <1>7
  <2>2. 2 * k + 1 \in 0..W /\ 0 \in 0..W
    BY <1>1, <1>3, <1>4, <1>7
  <2> QED
    BY <1>1, <1>2, <2>1, <2>2 DEF F
<1>8. CASE st <= k /\ k < W - Width + h - 1
  <2>1. F = <<R[k - h + Width + 1] - R[k - h + 1], Width>>
    BY <1>1, <1>3, <1>4, <1>5, <1>8
  <2>2. k - h + Width + 1 \in 0..W /\ k - h + 1 \in 0..W
    BY <1>1, <1>3, <1>4, <1>8
  <2> QED
    BY <1>1, <1>2, <2>1, <2>2 DEF F
<1>9. CASE k = W - Width + h - 1 /\ k < W - st
  <2>1. F = <<R[W - 1 + 1] - R[W - Width + 1], Width>>
    BY <1>1, <1>3, <1>4, <1>5, <1>9
  <2>2. W - 1 + 1 \in 0..W /\ W - Width + 1 \in 0..W
    BY <1>1
  <2> QED
    BY <1>1, <1>2, <2>1, <2>2 DEF F
<1>10. CASE W - st <= k /\ k < W - 1
  <2>1. F = <<R[W - 2 + 1] - R[W - 2 * (W - 1 - k)], 2 * (W - 1 - k) - 1>>
    BY <1>1, <1>3, <1>4, <1>5, <1>10
  <2>2. /\ W - 2 + 1 \in 0..W /\ W - 2 * (W - 1 - k) \in 0..W
        /\ 2 * (W - 1 - k) - 1 \in Nat \ {0}
    BY <1>1, <1>3, <1>4, <1>10
  <2>3. R[W - 2 + 1] \in Int /\ R[W - 2 * (W - 1 - k)] \in Int
    BY <1>2, <2>2
  <2>4. R[W - 2 + 1] - R[W - 2 * (W - 1 - k)] \in Int
    BY <2>3
  <2>5. F[1] = R[W - 2 + 1] - R[W - 2 * (W - 1 - k)] /\ F[2] = 2 * (W - 1 - k) - 1
    BY <2>1
  <2> QED
    BY <2>2, <2>4, <2>5 DEF F
<1>11. CASE /\ k # 0 /\ ~(1 <= k /\ k < st) /\ ~(st <= k /\ k < W - Width + h - 1)
            /\ ~(k = W - Width + h - 1 /\ k < W - st) /\ ~(W - st <= k /\ k < W - 1)
  <2>1. F = <<0, Width>>
    BY <1>5, <1>11
  <2> QED
    BY <1>1, <2>1 DEF F
<1> QED
  BY <1>6, <1>7, <1>8, <1>9, <1>10, <1>11

-----------------------------------------------------------------------------
(* The most coherent bin.                                                  *)

(* The order of fractions with positive denominators.                      *)
LEMMA FractionsInOrder ==
    ASSUME NEW a \in Int, NEW c \in Int, NEW e \in Int,
           NEW b \in Nat \ {0}, NEW d \in Nat \ {0}, NEW f \in Nat \ {0},
           a * d <= c * b, c * f <= e * d
    PROVE  a * f <= e * b
<1>1. (a * d) * f <= (c * b) * f
  <2>1. \A p, q \in Int : p <= q => p * f <= q * f
    OBVIOUS
  <2> QED
    BY <2>1
<1>2. (c * f) * b <= (e * d) * b
  <2>1. \A p, q \in Int : p <= q => p * b <= q * b
    OBVIOUS
  <2> QED
    BY <2>1
<1>3. (c * b) * f = (c * f) * b
  OBVIOUS
<1>4. d * (a * f) <= d * (e * b)
  <2>1. (a * d) * f = d * (a * f) /\ (e * d) * b = d * (e * b)
    OBVIOUS
  <2>2. (a * d) * f \in Int /\ (c * b) * f \in Int /\ (c * f) * b \in Int /\ (e * d) * b \in Int
    OBVIOUS
  <2> QED
    BY <1>1, <1>2, <1>3, <2>1, <2>2
<1>5. \A p, q \in Int : d * p <= d * q => p <= q
  OBVIOUS
<1> QED
  BY <1>4, <1>5

(* Some bin of a set is the most coherent one.                             *)
LEMMA LargestExists ==
    ASSUME NEW T, T \subseteq Bins, T # {}, NEW u,
           \A k \in T : u[k][1] \in Int /\ u[k][2] \in Nat \ {0}
    PROVE  \E k \in T : \A j \in T : u[j][1] * u[k][2] <= u[k][1] * u[j][2]
<1> DEFINE NotBelow(k, j) == u[j][1] * u[k][2] <= u[k][1] * u[j][2]
           Part(n) == {k \in T : k < n}
           Has(n) == \E k \in Part(n) : \A j \in Part(n) : NotBelow(k, j)
           Bad == {n \in Nat : Part(n) # {} /\ ~Has(n)}
<1>0. T \subseteq Nat /\ \A k \in T : k < W
  BY Sizes
<1>a. \A k, j \in T : NotBelow(k, j) \/ NotBelow(j, k)
  <2> SUFFICES ASSUME NEW k \in T, NEW j \in T PROVE NotBelow(k, j) \/ NotBelow(j, k)
    OBVIOUS
  <2>1. \A p, q \in Int : p <= q \/ q <= p
    OBVIOUS
  <2>2. \A p, q \in Int : p * q \in Int
    OBVIOUS
  <2> QED
    BY <2>1, <2>2
<1>b. \A k, j, l \in T : NotBelow(k, j) /\ NotBelow(j, l) => NotBelow(k, l)
  <2> SUFFICES ASSUME NEW k \in T, NEW j \in T, NEW l \in T, NotBelow(k, j), NotBelow(j, l)
               PROVE  NotBelow(k, l)
    OBVIOUS
  <2>1. /\ u[l][1] \in Int /\ u[j][1] \in Int /\ u[k][1] \in Int
        /\ u[l][2] \in Nat \ {0} /\ u[j][2] \in Nat \ {0} /\ u[k][2] \in Nat \ {0}
    OBVIOUS
  <2>2. u[l][1] * u[j][2] <= u[j][1] * u[l][2] /\ u[j][1] * u[k][2] <= u[k][1] * u[j][2]
    OBVIOUS
  <2>3. u[l][1] * u[k][2] <= u[k][1] * u[l][2]
    <3> DEFINE a == u[l][1]  b == u[l][2]  c == u[j][1]
               d == u[j][2]  e == u[k][1]  f == u[k][2]
    <3>1. /\ a \in Int /\ c \in Int /\ e \in Int
          /\ b \in Nat \ {0} /\ d \in Nat \ {0} /\ f \in Nat \ {0}
          /\ a * d <= c * b /\ c * f <= e * d
      BY <2>1, <2>2
    <3> HIDE DEF a, b, c, d, e, f
    <3>2. a * f <= e * b
      BY <3>1, FractionsInOrder
    <3> QED
      BY <3>2 DEF a, b, c, d, e, f
  <2> QED
    BY <2>3
<1>c. \A k \in T : NotBelow(k, k)
  BY <1>a
<1> HIDE DEF NotBelow
<1>1. Bad = {}
  <2> SUFFICES ASSUME Bad # {} PROVE FALSE
    OBVIOUS
  <2>1. PICK n \in Bad : \A x \in Bad : n <= x
    <3>1. Bad \subseteq Nat
      OBVIOUS
    <3> HIDE DEF Bad
    <3> QED
      BY <3>1, SmallestExists
  <2>2. n \in Nat /\ Part(n) # {} /\ ~Has(n)
    OBVIOUS
  <2>3. n > 0 /\ n - 1 \in Nat /\ ~(n <= n - 1)
    <3>1. PICK k \in T : k < n
      BY <2>2
    <3>2. k \in Nat
      BY <1>0
    <3> QED
      BY <2>2, <3>1, <3>2
  <2>4. Part(n - 1) = {} \/ Has(n - 1)
    <3>1. n - 1 \notin Bad
      <4> HIDE DEF Bad
      <4> QED
        BY <2>1, <2>3
    <3> QED
      BY <2>3, <3>1
  <2>5. \A k : k \in Part(n) <=> (k \in Part(n - 1) \/ (k = n - 1 /\ k \in T))
    <3>1. \A k \in T : k < n <=> (k < n - 1 \/ k = n - 1)
      BY <1>0, <2>2
    <3>2. n - 1 < n
      BY <2>2
    <3> QED
      BY <3>1, <3>2
  <2>6. Part(n) \subseteq T /\ Part(n - 1) \subseteq T
    OBVIOUS
  <2> HIDE DEF Part
  <2>7. CASE Part(n - 1) = {}
    <3>1. \A k : k \in Part(n) => k = n - 1 /\ k \in T
      BY <2>5, <2>7
    <3>2. PICK k : k \in Part(n)
      BY <2>2
    <3>3. k \in T /\ \A j \in Part(n) : j = k
      BY <3>1, <3>2
    <3> QED
      BY <1>c, <2>2, <3>2, <3>3
  <2>8. CASE Has(n - 1) /\ n - 1 \notin T
    <3>1. Part(n) = Part(n - 1)
      BY <2>5, <2>8
    <3> QED
      BY <2>2, <2>8, <3>1
  <2>9. CASE Has(n - 1) /\ n - 1 \in T
    <3>1. PICK k \in Part(n - 1) : \A j \in Part(n - 1) : NotBelow(k, j)
      BY <2>9
    <3> DEFINE t == n - 1
    <3>2. t \in T /\ t \in Part(n) /\ k \in T /\ k \in Part(n)
          /\ \A j \in Part(n) : j \in Part(n - 1) \/ j = t
      BY <2>5, <2>6, <2>9
    <3> HIDE DEF t
    <3>3. CASE NotBelow(k, t)
      BY <2>2, <3>1, <3>2, <3>3
    <3>4. CASE NotBelow(t, k)
      <4>1. \A j \in Part(n) : NotBelow(t, j)
        BY <1>b, <1>c, <2>6, <3>1, <3>2, <3>4
      <4> QED
        BY <2>2, <3>2, <4>1
    <3> QED
      BY <1>a, <3>2, <3>3, <3>4
  <2> QED
    BY <2>4, <2>7, <2>8, <2>9
<1>2. Part(W) = T
  BY <1>0
<1>3. W \in Nat /\ W \notin Bad
  BY <1>1, Sizes
<1>4. Has(W)
  BY <1>2, <1>3
<1> QED
  BY <1>2, <1>4 DEF NotBelow

(* The retracking point of maximum coherence is a bin of the edge.         *)
LEMMA MostCoherentFacts ==
    ASSUME coh \in [Bins -> Nat], TopOfEdge \subseteq Bins, TopOfEdge # {}
    PROVE  MostCoherent \in TopOfEdge
<1> DEFINE u == Fastsmooth(coh, W, Width)
           T == TopOfEdge
           Best == {k \in T : \A j \in T : ~(u[k][1] * u[j][2] < u[j][1] * u[k][2])}
<1>1. \A k \in T : u[k][1] \in Int /\ u[k][2] \in Nat \ {0}
  BY FastsmoothFacts
<1>2. MostCoherent = Min(Best)
  BY DEF MostCoherent
<1>3. Bins \subseteq Nat
  BY Sizes
<1>t. T \subseteq Bins /\ T # {}
  OBVIOUS
<1> HIDE DEF u, T
<1>4. PICK k \in T : \A j \in T : u[j][1] * u[k][2] <= u[k][1] * u[j][2]
  BY <1>1, <1>t, LargestExists, Zenon
<1>5. k \in Best
  <2>1. \A p, q \in Int : p <= q => ~(q < p)
    OBVIOUS
  <2>2. \A p, q \in Int : p * q \in Int
    OBVIOUS
  <2> QED
    BY <1>1, <1>4, <2>1, <2>2
<1>6. Best \subseteq T /\ Best # {}
  BY <1>5
<1> HIDE DEF Best
<1>7. Min(Best) \in Best
  BY <1>3, <1>t, <1>6, MinFacts
<1> QED
  BY <1>2, <1>6, <1>7 DEF T

-----------------------------------------------------------------------------
(* The inductive invariant.                                                *)

(* A record that is searched is one of a waveform, with its coherence.     *)
Loaded ==
    pc \in {"search", "peak"} =>
      /\ i \in Records /\ wf \in Waveforms /\ wave = Waves[wf] /\ coh \in [Bins -> Nat]

(* The records to come have no verdict yet.                                *)
Pending == \A r \in Records : r >= i => flag[r] = {} /\ point[r] = NaN /\ r \notin skipped

(* What is known of the edge: nothing when a search begins, its start, and *)
(* its peak with the height.                                               *)
Edge ==
    /\ pc \in {"check", "take"} => dp = 0
    /\ pc = "peak" => Rising(le)
    /\ pc = "search" => \/ dp = 0
                        \/ /\ Rising(le) /\ le < peak /\ Falling(peak)
                           /\ \A j \in Samples : le < j /\ j < peak => ~Falling(j)
                           /\ dp \in Int /\ dp = wfi_sm[peak] - wfi_sm[le]

Config == cfg.retracker \in {"tcog", "mc"} /\ cfg.le_dp \in Int

Done == pc = "done" => i = NRecords

RInv == TypeOK /\ Config /\ Loaded /\ Pending /\ Edge /\ OneVerdict /\ Done /\ FailuresExact

LEMMA RecordFacts ==
    /\ NRecords \in Nat /\ Records = 0..NRecords - 1 /\ NaN \notin Int /\ NaN \notin Samples
    /\ \A r \in Records : r \in Nat
BY ParametersAssumption, Sizes DEF Records

LEMMA InitRInv == Init => RInv
<1> SUFFICES ASSUME Init PROVE RInv
  OBVIOUS
<1>1. TypeOK
  BY RecordFacts, Sizes DEF Init, TypeOK
<1>2. Loaded /\ Edge /\ Done /\ FailuresExact
  BY DEF Init, Loaded, Edge, Done, FailuresExact
<1>3. Pending /\ OneVerdict
  BY RecordFacts DEF Init, Pending, OneVerdict
<1>4. Config
  BY ParametersAssumption DEF Init, Config
<1> QED
  BY <1>1, <1>2, <1>3, <1>4 DEF RInv

(* The verdicts after a record was looked at.                              *)
LEMMA NextVerdict ==
    ASSUME RInv, i \in Records, NextRecord, cfg' = cfg, failures' = failures,
           flag' \in [Records -> SUBSET {0, 1, 2, 3, 5}],
           point' \in [Records -> Samples \cup {NaN}], skipped' \subseteq skipped \cup {i},
           \A r \in Records \ {i} : flag'[r] = flag[r] /\ point'[r] = point[r]
                                    /\ (r \in skipped' <=> r \in skipped),
           IF i \in skipped' THEN flag'[i] = {} /\ point'[i] = NaN
           ELSE IF point'[i] = NaN THEN Cardinality(flag'[i]) = 1 ELSE flag'[i] = {}
    PROVE  RInv'
<1>1. TypeOK /\ Config /\ Pending /\ OneVerdict
  BY DEF RInv
<1>2. i' = i + 1 /\ pc' = "take" /\ i \in 0..NRecords - 1 /\ NRecords \in Nat
  BY RecordFacts DEF NextRecord
<1>3. TypeOK'
  <2>1. i' \in 0..NRecords
    BY <1>2
  <2>2. prev' = 0 /\ le' = 0 /\ peak' = 0 /\ dp' = 0
    BY DEF NextRecord
  <2>3. skipped' \subseteq Records /\ failures' \in 0..NRecords
    BY <1>1 DEF TypeOK
  <2> QED
    BY <1>2, <2>1, <2>2, <2>3, Sizes DEF TypeOK
<1>4. Config' /\ Loaded' /\ Edge' /\ Done' /\ FailuresExact'
  BY <1>1, <1>2 DEF Config, Loaded, Edge, Done, FailuresExact, NextRecord
<1>5. Pending'
  <2> SUFFICES ASSUME NEW r \in Records, r >= i'
               PROVE  flag'[r] = {} /\ point'[r] = NaN /\ r \notin skipped'
    BY DEF Pending
  <2>1. r # i /\ r >= i
    BY <1>2, RecordFacts
  <2> QED
    BY <1>1, <2>1 DEF Pending
<1>6. OneVerdict'
  <2> SUFFICES ASSUME NEW r \in Records, r < i'
               PROVE  IF r \in skipped' THEN flag'[r] = {} /\ point'[r] = NaN
                      ELSE IF point'[r] = NaN THEN Cardinality(flag'[r]) = 1
                      ELSE flag'[r] = {}
    BY DEF OneVerdict
  <2>1. CASE r = i
    BY <2>1
  <2>2. CASE r # i
    <3>1. r < i
      BY <1>2, <2>2, RecordFacts
    <3> QED
      BY <1>1, <2>2, <3>1 DEF OneVerdict
  <2> QED
    BY <2>1, <2>2
<1> QED
  BY <1>3, <1>4, <1>5, <1>6 DEF RInv

LEMMA FailKeeps ==
    ASSUME RInv, i \in Records, NEW n \in {0, 1, 2, 3, 5}, Fail(n),
           UNCHANGED <<cfg, point, skipped, failures>>
    PROVE  RInv'
<1>1. TypeOK /\ Pending
  BY DEF RInv
<1>2. flag[i] = {} /\ point[i] = NaN /\ i \notin skipped
  BY <1>1, RecordFacts DEF Pending
<1>3. flag \in [Records -> SUBSET {0, 1, 2, 3, 5}] /\ point \in [Records -> Samples \cup {NaN}]
  BY <1>1 DEF TypeOK
<1>4. flag' = [flag EXCEPT ![i] = @ \cup {n}] /\ NextRecord
  BY DEF Fail
<1>5. /\ flag' \in [Records -> SUBSET {0, 1, 2, 3, 5}] /\ flag'[i] = {n}
      /\ \A r \in Records \ {i} : flag'[r] = flag[r]
  BY <1>2, <1>3, <1>4
<1>6. Cardinality(flag'[i]) = 1
  BY <1>5, FS_Singleton
<1> QED
  BY <1>2, <1>3, <1>4, <1>5, <1>6, NextVerdict

LEMMA PointKeeps ==
    ASSUME RInv, i \in Records, NEW p \in Samples, point' = [point EXCEPT ![i] = p],
           NextRecord, UNCHANGED <<cfg, flag, skipped, failures>>
    PROVE  RInv'
<1>1. TypeOK /\ Pending
  BY DEF RInv
<1>2. flag[i] = {} /\ i \notin skipped
  BY <1>1, RecordFacts DEF Pending
<1>3. flag \in [Records -> SUBSET {0, 1, 2, 3, 5}] /\ point \in [Records -> Samples \cup {NaN}]
  BY <1>1 DEF TypeOK
<1>4. /\ point' \in [Records -> Samples \cup {NaN}] /\ point'[i] = p
      /\ \A r \in Records \ {i} : point'[r] = point[r]
  BY <1>3
<1>5. p # NaN
  BY RecordFacts
<1> QED
  BY <1>2, <1>3, <1>4, <1>5, NextVerdict

LEMMA ExcludeKeeps == ASSUME RInv, Exclude PROVE RInv'
<1>1. TypeOK /\ Pending /\ i \in Records
  BY RecordFacts DEF RInv, Exclude, TypeOK
<1>2. flag[i] = {} /\ point[i] = NaN
  BY <1>1, RecordFacts DEF Pending
<1>3. /\ NextRecord /\ skipped' = skipped \cup {i} /\ cfg' = cfg /\ flag' = flag /\ point' = point
      /\ failures' = failures
  BY DEF Exclude
<1>4. flag \in [Records -> SUBSET {0, 1, 2, 3, 5}] /\ point \in [Records -> Samples \cup {NaN}]
  BY <1>1 DEF TypeOK
<1> QED
  BY <1>1, <1>2, <1>3, <1>4, NextVerdict
-----------------------------------------------------------------------------
(* The steps of a search.                                                  *)

LEMMA CandidatesFacts ==
    /\ Candidates \subseteq Samples /\ Falls \subseteq Samples
    /\ Candidates # {} => /\ Min(Candidates) \in Samples /\ Rising(Min(Candidates))
    /\ Falls # {} => /\ Min(Falls) \in Samples /\ Falling(Min(Falls)) /\ le < Min(Falls)
                     /\ \A j \in Falls : Min(Falls) <= j
<1>1. /\ Candidates \subseteq Samples /\ Falls \subseteq Samples
      /\ \A j \in Candidates : Rising(j)
      /\ \A j \in Falls : Falling(j) /\ j > le
  BY DEF Candidates, Falls
<1>2. Candidates \subseteq Nat /\ Falls \subseteq Nat
  BY <1>1, Sizes
<1>3. Candidates # {} => Min(Candidates) \in Candidates
  BY <1>2, MinFacts
<1>4. Falls # {} => Min(Falls) \in Falls /\ \A j \in Falls : Min(Falls) <= j
  BY <1>2, MinFacts
<1> QED
  BY <1>1, <1>3, <1>4

LEMMA BeginKeeps == ASSUME RInv, Begin PROVE RInv'
<1>1. TypeOK /\ Config /\ Pending /\ OneVerdict /\ Done
  BY DEF RInv
<1>2. PICK w \in Waveforms, c \in Coherences :
        wf' = w /\ wave' = Waves[w] /\ coh' = IF cfg.retracker = "mc" THEN c ELSE Zeros
  BY DEF Begin
<1>3. /\ pc = "take" /\ i < NRecords /\ pc' = "search" /\ i' = i
      /\ UNCHANGED <<cfg, search, flag, point, skipped, failures>>
  BY DEF Begin
<1>4. coh' \in [Bins -> Nat]
  BY <1>2, WaveformsAssumption DEF Zeros
<1>5. i \in Records
  BY <1>1, <1>3, RecordFacts DEF TypeOK
<1>6. Loaded'
  BY <1>2, <1>3, <1>4, <1>5 DEF Loaded
<1>7. TypeOK' /\ Config' /\ Pending' /\ OneVerdict' /\ Done' /\ FailuresExact'
  BY <1>1, <1>3 DEF TypeOK, Config, Pending, OneVerdict, Done, FailuresExact, search
<1>8. Edge'
  BY <1>3 DEF RInv, Edge, search
<1> QED
  BY <1>6, <1>7, <1>8 DEF RInv

(* What stays when only the search goes on.                                *)
LEMMA SearchKeeps ==
    ASSUME RInv, pc \in {"search", "peak"}, pc' \in {"search", "peak"},
           UNCHANGED <<cfg, i, wf, coh, wave, flag, point, skipped, failures>>
    PROVE  Config' /\ Loaded' /\ Pending' /\ OneVerdict' /\ Done' /\ FailuresExact'
BY DEF RInv, Config, Loaded, Pending, OneVerdict, Done, FailuresExact

LEMMA EdgeStartKeeps == ASSUME RInv, EdgeStart PROVE RInv'
<1>1. /\ pc = "search" /\ Candidates # {} /\ le' = Min(Candidates) /\ pc' = "peak"
      /\ UNCHANGED <<cfg, i, wf, coh, wave, prev, dp, peak, flag, point, skipped, failures>>
  BY DEF EdgeStart, Searching
<1>2. le' \in Samples /\ Rising(le')
  BY <1>1, CandidatesFacts
<1>3. TypeOK'
  BY <1>1, <1>2 DEF RInv, TypeOK
<1>4. Edge'
  BY <1>1, <1>2 DEF Edge, Rising, wfi_sm, d_wf_sm
<1> QED
  BY <1>1, <1>3, <1>4, SearchKeeps DEF RInv

LEMMA PeakFoundKeeps == ASSUME RInv, PeakFound PROVE RInv'
<1>1. /\ pc = "peak" /\ Falls # {} /\ peak' = Min(Falls) /\ prev' = Min(Falls) /\ pc' = "search"
      /\ dp' = IF wfi_sm[peak'] = NaN THEN NaN ELSE wfi_sm[peak'] - wfi_sm[le]
      /\ UNCHANGED <<cfg, i, wf, coh, wave, le, flag, point, skipped, failures>>
  BY DEF PeakFound
<1>2. /\ peak' \in Samples /\ Falling(peak') /\ le < peak' /\ \A j \in Falls : peak' <= j
  BY <1>1, CandidatesFacts
<1>3. TypeOK /\ Loaded /\ Rising(le) /\ le \in Samples
  BY <1>1 DEF RInv, Edge, TypeOK
<1>4. /\ wfi_sm \in [Samples -> Int \cup {NaN}]
      /\ \A j \in Samples : d_wf_sm[j] # NaN => wfi_sm[j] # NaN
  <2>1. wf \in Waveforms /\ wave = Waves[wf]
    BY <1>1, <1>3 DEF Loaded
  <2> QED
    BY <2>1, WaveFacts DEF wfi_sm, d_wf_sm
<1>5. wfi_sm[peak'] \in Int /\ wfi_sm[le] \in Int
  BY <1>2, <1>3, <1>4 DEF Falling, Rising
<1>6. dp' \in Int /\ dp' = wfi_sm[peak'] - wfi_sm[le]
  BY <1>1, <1>5, RecordFacts
<1>7. TypeOK'
  BY <1>1, <1>2, <1>3, <1>6 DEF TypeOK
<1>8. \A j \in Samples : le < j /\ j < peak' => ~Falling(j)
  <2> SUFFICES ASSUME NEW j \in Samples, le < j, j < peak', Falling(j) PROVE FALSE
    OBVIOUS
  <2>1. j \in Falls
    BY <1>3, Sizes DEF Falls
  <2>2. j \in Nat /\ peak' \in Nat
    BY <1>2, Sizes
  <2> QED
    BY <1>2, <2>1, <2>2
<1>9. /\ Rising(le)' /\ (le < peak)' /\ Falling(peak)'
      /\ (\A j \in Samples : le < j /\ j < peak => ~Falling(j))'
      /\ dp' \in Int /\ (dp = wfi_sm[peak] - wfi_sm[le])'
  BY <1>1, <1>2, <1>3, <1>6, <1>8 DEF Rising, Falling, wfi_sm, d_wf_sm
<1>10. Edge'
  BY <1>1, <1>9 DEF Edge
<1> QED
  BY <1>1, <1>7, <1>10, SearchKeeps DEF RInv

(* When the search ends, its edge has a height.                            *)
LEMMA EdgeIsSound == ASSUME RInv PROVE EdgeSound
<1> SUFFICES ASSUME EdgeFound PROVE EdgeSound
  BY DEF EdgeSound
<1> DEFINE t == cfg.le_dp * SmScale * Last
<1>1. pc = "search" /\ ~(dp # NaN /\ dp < t) /\ cfg.le_dp > 0 /\ cfg.le_dp \in Int
  BY DEF EdgeFound, Searching, RInv, Config
<1>t. t \in Nat /\ t > 0
  BY <1>1, ThresholdPositive
<1> HIDE DEF t
<1>2. dp # 0
  BY <1>1, <1>t, RecordFacts
<1>3. /\ Rising(le) /\ le < peak /\ Falling(peak)
      /\ \A j \in Samples : le < j /\ j < peak => ~Falling(j)
      /\ dp \in Int /\ dp = wfi_sm[peak] - wfi_sm[le]
  BY <1>1, <1>2 DEF RInv, Edge
<1>4. dp # NaN /\ dp >= t
  BY <1>1, <1>3, <1>t, RecordFacts
<1> QED
  BY <1>3, <1>4 DEF EdgeSound, t

LEMMA TopOfEdgeFacts == ASSUME RInv, EdgeFound PROVE TopOfEdge \subseteq Bins
<1>1. le \in Samples /\ peak \in Samples
  BY DEF RInv, TypeOK
<1>2. \A j \in le..peak : j \in Samples
  BY <1>1, Sizes
<1>3. \A b \in TopOfEdge : \E j \in le..peak : b = NearestBin(j)
  BY DEF TopOfEdge
<1> QED
  BY <1>2, <1>3, NearestInBins

(* The two retrackers set a sample or a bin as the point.                  *)
LEMMA TcogPointFacts ==
    ASSUME RInv, TcogPoint
    PROVE  i \in Records /\ Min(AboveThreshold) \in Samples
<1>1. i \in Records
  BY DEF RInv, Loaded, TcogPoint, EdgeFound
<1>2. AboveThreshold \subseteq Samples
  BY DEF AboveThreshold
<1>3. Min(AboveThreshold) \in AboveThreshold
  <2>1. AboveThreshold \subseteq Nat /\ AboveThreshold # {}
    BY <1>2, Sizes DEF TcogPoint
  <2> QED
    BY <2>1, MinFacts
<1> QED
  BY <1>1, <1>2, <1>3

LEMMA McPointFacts ==
    ASSUME RInv, McPoint
    PROVE  i \in Records /\ MostCoherent \in Samples
<1>1. EdgeFound /\ TopOfEdge # {} /\ i \in Records /\ coh \in [Bins -> Nat]
  BY DEF RInv, Loaded, McPoint, McHit, EdgeFound
<1>2. MostCoherent \in TopOfEdge
  BY <1>1, TopOfEdgeFacts, MostCoherentFacts
<1> QED
  BY <1>1, <1>2, TopOfEdgeFacts, Sizes

(* The tests before the first record, and the exceptions.                  *)
LEMMA StopKeeps ==
    ASSUME RInv, Check \/ UnfitFile \/ NoIndex
    PROVE  RInv'
<1>1. /\ UNCHANGED <<cfg, i, wf, coh, wave, search, flag, point, skipped, failures>>
      /\ \/ pc' \in {"raised", "exited"}
         \/ pc = "check" /\ pc' = "take"
  BY DEF Check, UnfitFile, NoIndex
<1>2. TypeOK'
  BY <1>1 DEF RInv, TypeOK, search
<1>3. Config' /\ Loaded' /\ Pending' /\ OneVerdict' /\ Done' /\ FailuresExact'
  BY <1>1 DEF RInv, Config, Loaded, Pending, OneVerdict, Done, FailuresExact
<1>4. Edge'
  BY <1>1 DEF RInv, Edge, search
<1> QED
  BY <1>2, <1>3, <1>4 DEF RInv

(* The count is that of the records without a point.                       *)
LEMMA CountKeeps == ASSUME RInv, CountFailures PROVE RInv'
<1> DEFINE Failed == {r \in Records : flag[r] \cap {0, 1, 2, 3, 5} # {}}
           Missed == {r \in Records \ skipped : point[r] = NaN}
<1>1. /\ pc = "take" /\ i = NRecords /\ failures' = Cardinality(Failed) /\ pc' = "done"
      /\ UNCHANGED <<cfg, i, wf, coh, wave, search, flag, point, skipped>>
  BY DEF CountFailures
<1>2. TypeOK /\ OneVerdict /\ Config /\ Pending
  BY DEF RInv
<1>3. Failed = Missed
  <2> SUFFICES ASSUME NEW r \in Records PROVE r \in Failed <=> r \in Missed
    OBVIOUS
  <2>1. r < i
    BY <1>1, RecordFacts
  <2>2. flag[r] \in SUBSET {0, 1, 2, 3, 5}
    BY <1>2 DEF TypeOK
  <2>3. CASE r \in skipped
    BY <1>2, <2>1, <2>3 DEF OneVerdict
  <2>4. CASE r \notin skipped /\ point[r] = NaN
    <3>1. Cardinality(flag[r]) = 1
      BY <1>2, <2>1, <2>4 DEF OneVerdict
    <3>2. flag[r] # {}
      BY <3>1, FS_EmptySet
    <3> QED
      BY <2>2, <2>4, <3>2
  <2>5. CASE r \notin skipped /\ point[r] # NaN
    BY <1>2, <2>1, <2>5 DEF OneVerdict
  <2> QED
    BY <2>3, <2>4, <2>5
<1>4. failures' \in 0..NRecords
  <2>1. IsFiniteSet(Records) /\ Cardinality(Records) = NRecords
    BY RecordFacts, FS_Interval
  <2>2. Failed \subseteq Records
    OBVIOUS
  <2> HIDE DEF Failed
  <2>3. /\ IsFiniteSet(Failed) /\ Cardinality(Failed) <= Cardinality(Records)
    BY <2>1, <2>2, FS_Subset
  <2>4. Cardinality(Failed) \in Nat
    BY <2>3, FS_CardinalityType
  <2> QED
    BY <1>1, <2>1, <2>3, <2>4, RecordFacts
<1>5. TypeOK'
  BY <1>1, <1>2, <1>4 DEF TypeOK, search
<1>6. FailuresExact'
  BY <1>1, <1>3 DEF FailuresExact
<1>7. Config' /\ Loaded' /\ Pending' /\ Edge' /\ OneVerdict' /\ Done'
  BY <1>1, <1>2 DEF Config, Loaded, Pending, Edge, OneVerdict, Done
<1> QED
  BY <1>5, <1>6, <1>7 DEF RInv

LEMMA StutterKeeps == ASSUME RInv, UNCHANGED vars PROVE RInv'
BY DEF RInv, TypeOK, Config, Loaded, Pending, Edge, OneVerdict, Done, FailuresExact,
       Rising, Falling, wfi_sm, d_wf_sm, vars

LEMMA StepRInv == ASSUME RInv, [Next]_vars PROVE RInv'
<1>0. pc \in {"search", "peak"} => i \in Records
  BY DEF RInv, Loaded
<1>t. i < NRecords => i \in Records
  BY RecordFacts DEF RInv, TypeOK
<1>1. CASE Exclude
  BY <1>1, ExcludeKeeps
<1>2. CASE Unusable
  BY <1>2, <1>t, FailKeeps DEF Unusable
<1>3. CASE Begin
  BY <1>3, BeginKeeps
<1>4. CASE NoEdge
  BY <1>4, <1>0, FailKeeps DEF NoEdge, Searching
<1>5. CASE EdgeStart
  BY <1>5, EdgeStartKeeps
<1>6. CASE NoPeak
  BY <1>6, <1>0, FailKeeps DEF NoPeak
<1>7. CASE AtEnd
  BY <1>7, <1>0, FailKeeps DEF AtEnd
<1>8. CASE PeakFound
  BY <1>8, PeakFoundKeeps
<1>9. CASE TcogPoint
  <2>1. /\ point' = [point EXCEPT ![i] = Min(AboveThreshold)] /\ NextRecord
        /\ UNCHANGED <<cfg, flag, skipped, failures>>
    BY <1>9 DEF TcogPoint
  <2> QED
    BY <1>9, <2>1, TcogPointFacts, PointKeeps
<1>10. CASE McPoint
  <2>1. /\ point' = [point EXCEPT ![i] = MostCoherent] /\ NextRecord
        /\ UNCHANGED <<cfg, flag, skipped, failures>>
    BY <1>10 DEF McPoint
  <2> QED
    BY <1>10, <2>1, McPointFacts, PointKeeps
<1>11. CASE NoPoint
  BY <1>11, <1>0, FailKeeps DEF NoPoint, EdgeFound, LoopSkipped
<1>12. CASE CountFailures
  BY <1>12, CountKeeps
<1>13. CASE UNCHANGED vars
  BY <1>13, StutterKeeps
<1>14. CASE Check \/ UnfitFile \/ NoIndex
  BY <1>14, StopKeeps
<1> QED
  BY <1>1, <1>2, <1>3, <1>4, <1>5, <1>6, <1>7, <1>8, <1>9, <1>10, <1>11, <1>12, <1>13,
     <1>14 DEF Next

LEMMA AlwaysRInv == Spec => []RInv
<1>1. RInv /\ [Next]_vars => RInv'
  BY StepRInv
<1> QED
  BY InitRInv, <1>1, PTL DEF Spec
-----------------------------------------------------------------------------
(* For any waveforms and filter: when the search of either retracker ends  *)
(* the edge rises from le_index, above the noise, to the first peak after  *)
(* it and by le_dp_threshold, and no NaN is part of the comparison.        *)
THEOREM EdgesAreSound == Spec => []EdgeSound
<1>1. RInv => EdgeSound
  BY EdgeIsSound
<1> QED
  BY AlwaysRInv, <1>1, PTL

(* For any number of records: each that is included gets a retracking      *)
(* point or exactly one flag, one left out neither, and the number of      *)
(* failures that alg_retrack makes a percentage of counts those without.   *)
THEOREM VerdictsAreSound == Spec => []Verdicts
<1>1. RInv => Verdicts
  BY DEF RInv, Verdicts
<1> QED
  BY AlwaysRInv, <1>1, PTL
=============================================================================
