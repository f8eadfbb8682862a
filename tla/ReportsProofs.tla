---------------------------- MODULE ReportsProofs ----------------------------
(***************************************************************************)
(* What a report is made from and how it is written.  The preview of a     *)
(* completed intake never changes; every reduction it traces replays; the  *)
(* registry settles every rule of a release, the planner takes what it     *)
(* resolves, and the verifier agrees with the writer; and the command line *)
(* replaces its pair of files without losing the old one.                  *)
(***************************************************************************)
EXTENDS Calculation, ReportPipeline, PairWrite, FiniteSetTheorems, WellFoundedInduction, TLAPS

-----------------------------------------------------------------------------
(* The calculation: the preview of a completed intake.                     *)

\* What is calculated is a bundle, or the failure to make one.
LEMMA BundleIsSomething ==
  ASSUME NEW request
  PROVE  calculateBundle(request) # NoBundle
<1>1. ASSUME NEW b PROVE Complete(b) # NoBundle
  <2>1. "failed" \in DOMAIN Complete(b)
    BY DEF Complete, Failed, EmptyBundle
  <2>2. DOMAIN NoBundle = {}
    BY DEF NoBundle
  <2> QED
    BY <2>1, <2>2
<1>2. Failed # NoBundle
  <2>1. "failed" \in DOMAIN Failed
    BY DEF Failed, EmptyBundle
  <2>2. DOMAIN NoBundle = {}
    BY DEF NoBundle
  <2> QED
    BY <2>1, <2>2
<1> QED
  BY <1>1, <1>2 DEF calculateBundle

\* What complete() kept it calculated, and what a preview showed was calculated from it.
PreviewInv ==
  /\ snapshot # NoSnapshot => bundle # NoBundle
  /\ previewed # NoPreview =>
       /\ snapshot # NoSnapshot
       /\ previewed = Shown(calculateBundle(calculationRequest(snapshot.input, snapshot.asOfDate)))

\* A step keeps the invariant, and the preview that was read.
LEMMA PreviewNextInv ==
  ASSUME PreviewInv, [CalculationNext]_calculationVars
  PROVE  PreviewInv' /\ (previewed # NoPreview => previewed' = previewed)
<1>1. CASE CalculateRequest
  BY <1>1, BundleIsSomething DEF CalculateRequest, PreviewInv
<1>2. CASE CompleteIntake
  BY <1>2, BundleIsSomething DEF CompleteIntake, PreviewInv
<1>3. CASE ReadPreview
  BY <1>3 DEF ReadPreview, preview, PreviewInv
<1>4. CASE DayPasses
  BY <1>4 DEF DayPasses, PreviewInv
<1>5. CASE UNCHANGED calculationVars
  BY <1>5 DEF calculationVars, PreviewInv
<1> QED
  BY <1>1, <1>2, <1>3, <1>4, <1>5 DEF CalculationNext

\* A completed intake has one preview: it is calculated from the snapshot that was kept, so no
\* later day, no second read and no failure of the engine changes it (preview, complete).
THEOREM PreviewStands == CalculationSpec => PreviewIsStable
<1>1. CalculationInit => PreviewInv
  BY DEF CalculationInit, PreviewInv
<1>2. PreviewInv /\ [CalculationNext]_calculationVars
        => [previewed # NoPreview => previewed' = previewed]_calculationVars
  BY PreviewNextInv
<1>3. PreviewInv /\ [CalculationNext]_calculationVars => PreviewInv'
  BY PreviewNextInv
<1> QED
  BY <1>1, <1>2, <1>3, PTL DEF CalculationSpec, PreviewIsStable

-----------------------------------------------------------------------------
(* The calculation: reductions.  The digit sums and the reductions are     *)
(* recursive functions on the numbers: that they are defined at every      *)
(* number follows from every digit sum being a smaller one.                *)

\* A set of numbers has a least one.
LEMMA LeastNatural ==
  ASSUME NEW S \in SUBSET Nat, S # {}
  PROVE  \E n \in S : \A m \in S : n <= m
<1> DEFINE below == {p \in Nat \X Nat : p[1] < p[2]}
<1>1. IsWellFoundedOn(below, Nat)
  BY NatLessThanWellFounded, Zenon DEF OpToRel
<1>2. \A m, n \in Nat : m < n => <<m, n>> \in below
  OBVIOUS
<1> HIDE DEF below
<1>3. PICK n \in S : \A m \in S : ~(<<m, n>> \in below)
  BY <1>1, WFMin
<1>4. n \in Nat /\ \A m \in S : m \in Nat /\ ~(m < n)
  BY <1>2, <1>3
<1> QED
  BY <1>4

\* A function on the numbers, given on B, and elsewhere made from its value at a smaller one.
Recursion(T, B, base, smaller, step) ==
  /\ B \in SUBSET Nat /\ base \in [B -> T] /\ smaller \in [Nat \ B -> Nat]
  /\ step \in [Nat \ B -> [T -> T]] /\ \A n \in Nat \ B : smaller[n] < n
Satisfies(f, B, base, smaller, step) ==
  \A n \in Nat : /\ n \in B => f[n] = base[n]
                 /\ n \notin B => f[n] = step[n][f[smaller[n]]]

\* Such a function exists.
LEMMA RecursionIsDefined ==
  ASSUME NEW T, NEW B, NEW base, NEW smaller, NEW step, Recursion(T, B, base, smaller, step)
  PROVE  \E f \in [Nat -> T] : Satisfies(f, B, base, smaller, step)
<1> USE DEF Recursion
<1> DEFINE Follows(g, n) == g[n] = IF n \in B THEN base[n] ELSE step[n][g[smaller[n]]]
           Starts(m) == {g \in [0 .. m -> T] : \A n \in 0 .. m : Follows(g, n)}
<1>1. 0 \in B
  BY SMT
<1>2. ASSUME NEW m \in Nat, NEW g \in Starts(m), NEW k \in Nat, NEW h \in Starts(k)
      PROVE  \A n \in Nat : n <= m /\ n <= k => g[n] = h[n]
  <2> DEFINE different == {n \in Nat : n <= m /\ n <= k /\ g[n] # h[n]}
  <2> SUFFICES ASSUME different # {} PROVE FALSE
    OBVIOUS
  <2>1. PICK n \in different : \A d \in different : n <= d
    <3> HIDE DEF Starts
    <3> QED BY LeastNatural
  <2>2. Follows(g, n) /\ Follows(h, n)
    BY <2>1
  <2>3. n \notin B
    BY <2>1, <2>2
  <2>4. smaller[n] \in Nat /\ smaller[n] < n /\ smaller[n] \notin different
    BY <2>1, <2>3
  <2>5. g[smaller[n]] = h[smaller[n]]
    BY <2>1, <2>4
  <2> QED
    BY <2>1, <2>2, <2>3, <2>5
<1>3. \A m \in Nat : Starts(m) # {}
  <2> DEFINE empty == {m \in Nat : Starts(m) = {}}
  <2> SUFFICES ASSUME empty # {} PROVE FALSE
    OBVIOUS
  <2>1. PICK m \in empty : \A d \in empty : m <= d
    <3> HIDE DEF Starts
    <3> QED BY LeastNatural
  <2>2. CASE m = 0
    <3> DEFINE g == [n \in 0 .. 0 |-> base[0]]
    <3>1. g \in [0 .. 0 -> T] /\ g[0] = base[0]
      BY <1>1
    <3>2. \A n \in 0 .. 0 : n = 0
      BY SMT
    <3>3. g \in Starts(0)
      <4> HIDE DEF g
      <4> QED BY <1>1, <3>1, <3>2
    <3> QED
      BY <2>1, <2>2, <3>3
  <2>3. CASE m # 0
    <3>1. m - 1 \in Nat /\ m - 1 \notin empty
      <4>1. m \in Nat /\ m - 1 \in Nat /\ ~(m <= m - 1)
        BY <2>3
      <4> HIDE DEF empty
      <4> QED BY <2>1, <4>1
    <3>2. PICK g \in Starts(m - 1) : TRUE
      BY <3>1
    <3> DEFINE new == IF m \in B THEN base[m] ELSE step[m][g[smaller[m]]]
               h == [n \in 0 .. m |-> IF n = m THEN new ELSE g[n]]
    <3>3. g \in [0 .. m - 1 -> T] /\ \A n \in 0 .. m - 1 : Follows(g, n)
      BY <3>2
    <3>4. m \notin B => smaller[m] \in 0 .. m - 1
      BY <2>1
    <3>5. new \in T
      BY <2>1, <3>3, <3>4
    <3>6. h \in [0 .. m -> T]
      <4> HIDE DEF new
      <4>1. \A n \in 0 .. m : n # m => n \in 0 .. m - 1
        BY <2>1
      <4> QED BY <3>3, <3>5, <4>1
    <3>7. Follows(h, m)
      <4>1. h[m] = new /\ (m \notin B => h[smaller[m]] = g[smaller[m]])
        <5> HIDE DEF new
        <5> QED BY <2>1, <3>4
      <4> HIDE DEF h
      <4> QED BY <4>1
    <3>8. ASSUME NEW n \in 0 .. m - 1 PROVE Follows(h, n)
      <4>1. h[n] = g[n] /\ Follows(g, n)
        <5> HIDE DEF new
        <5> QED BY <2>1, <3>3
      <4>2. n \notin B => /\ smaller[n] \in 0 .. m - 1
                          /\ h[smaller[n]] = g[smaller[n]]
        <5> HIDE DEF new
        <5>1. n \notin B => smaller[n] \in 0 .. m - 1 /\ smaller[n] # m
          BY <2>1
        <5> QED BY <2>1, <5>1
      <4> HIDE DEF h
      <4> QED BY <4>1, <4>2
    <3>9. h \in Starts(m)
      <4>1. \A n \in 0 .. m : n = m \/ n \in 0 .. m - 1
        BY <2>1
      <4> HIDE DEF h
      <4> QED BY <3>6, <3>7, <3>8, <4>1
    <3> QED
      BY <2>1, <3>9
  <2> QED
    BY <2>2, <2>3
<1> DEFINE partial(m) == CHOOSE g \in Starts(m) : TRUE
           f == [n \in Nat |-> partial(n)[n]]
<1>4. \A m \in Nat : partial(m) \in Starts(m)
  <2> HIDE DEF Starts
  <2> QED BY <1>3
<1> HIDE DEF partial
<1>5. f \in [Nat -> T]
  BY <1>4
<1>6. ASSUME NEW n \in Nat PROVE Follows(f, n)
  <2>1. f[n] = partial(n)[n] /\ partial(n) \in Starts(n)
    BY <1>4
  <2>2. Follows(partial(n), n)
    BY <2>1
  <2>3. CASE n \notin B
    <3>1. smaller[n] \in Nat /\ smaller[n] < n
      BY <2>3
    <3>2. f[smaller[n]] = partial(smaller[n])[smaller[n]] /\ partial(smaller[n]) \in Starts(smaller[n])
      BY <1>4, <3>1
    <3>3. partial(smaller[n])[smaller[n]] = partial(n)[smaller[n]]
      <4> HIDE DEF Starts
      <4> QED BY <1>2, <2>1, <3>1, <3>2
    <3> HIDE DEF f
    <3> QED BY <2>1, <2>2, <2>3, <3>2, <3>3
  <2> HIDE DEF f
  <2> QED BY <2>1, <2>2, <2>3
<1> HIDE DEF f
<1>7. Satisfies(f, B, base, smaller, step)
  BY <1>6 DEF Satisfies
<1> QED
  BY <1>5, <1>7

\* The digit sum is that of the leading digits and the last one (sumDigits).
LEMMA DigitSumsDef ==
  \A n \in Nat : DigitSums[n] = IF n < 10 THEN n ELSE DigitSums[n \div 10] + (n % 10)
<1> DEFINE B == 0 .. 9
           base == [n \in B |-> n]
           smaller == [n \in Nat \ B |-> n \div 10]
           step == [n \in Nat \ B |-> [t \in Nat |-> t + (n % 10)]]
<1>1. Recursion(Nat, B, base, smaller, step)
  BY DEF Recursion
<1> HIDE DEF B, base, smaller, step
<1>2. PICK f \in [Nat -> Nat] : Satisfies(f, B, base, smaller, step)
  BY <1>1, RecursionIsDefined
<1> USE DEF B, base, smaller, step
<1>3. ASSUME NEW n \in Nat
      PROVE  f[n] = IF n < 10 THEN n ELSE f[n \div 10] + (n % 10)
  <2>1. n \in B <=> n < 10
    OBVIOUS
  <2>2. n \div 10 \in Nat
    OBVIOUS
  <2> QED
    BY <1>2, <2>1, <2>2 DEF Satisfies
<1>4. f = [n \in Nat |-> IF n < 10 THEN n ELSE f[n \div 10] + (n % 10)]
  <2>1. f = [n \in Nat |-> f[n]]
    OBVIOUS
  <2> QED
    BY <1>3, <2>1, Zenon
<1>5. DigitSums = [n \in Nat |-> IF n < 10 THEN n ELSE DigitSums[n \div 10] + (n % 10)]
  BY <1>4, Zenon DEF DigitSums
<1> QED
  BY <1>5, Zenon

\* A digit sum is a smaller number of the same class modulo nine.
DigitSumOK(n) ==
  /\ DigitSums[n] \in Nat /\ DigitSums[n] <= n /\ (n >= 10 => DigitSums[n] < n)
  /\ (n > 0 => DigitSums[n] > 0) /\ DigitSums[n] % 9 = n % 9
LEMMA DigitSumIsSmaller == \A n \in Nat : DigitSumOK(n)
<1> DEFINE wrong == {n \in Nat : ~DigitSumOK(n)}
<1> SUFFICES ASSUME wrong # {} PROVE FALSE
  OBVIOUS
<1>1. PICK n \in wrong : \A m \in wrong : n <= m
  <2>1. wrong \in SUBSET Nat
    OBVIOUS
  <2> HIDE DEF wrong
  <2> QED
    BY <2>1, LeastNatural
<1>2. n >= 10
  <2> SUFFICES ASSUME n < 10 PROVE DigitSumOK(n)
    BY <1>1
  <2>1. DigitSums[n] = n
    BY DigitSumsDef
  <2> QED
    BY <2>1 DEF DigitSumOK
<1> DEFINE tens == n \div 10
           ones == n % 10
<1>3. /\ tens \in Nat /\ tens > 0 /\ tens < n /\ ones \in 0 .. 9 /\ n = 10 * tens + ones
      /\ tens % 9 \in 0 .. 8
  BY <1>2
<1> HIDE DEF tens, ones
<1>4. DigitSumOK(tens)
  BY <1>1, <1>3
<1>5. DigitSums[n] = DigitSums[tens] + ones
  BY <1>2, DigitSumsDef DEF tens, ones
<1>6. (DigitSums[tens] + ones) % 9 = (tens + ones) % 9
  BY <1>3, <1>4 DEF DigitSumOK
<1>7. (10 * tens + ones) % 9 = (tens + ones) % 9
  BY <1>3
<1> HIDE DEF wrong
<1>8. DigitSums[n] \in Nat /\ DigitSums[n] <= n /\ DigitSums[n] < n /\ DigitSums[n] > 0
  <2>1. DigitSums[tens] \in Nat /\ DigitSums[tens] <= tens /\ DigitSums[tens] > 0
    BY <1>3, <1>4 DEF DigitSumOK
  <2>2. tens \in Nat /\ tens > 0 /\ ones \in 0 .. 9 /\ n = 10 * tens + ones
    BY <1>3
  <2> QED
    BY <1>5, <2>1, <2>2
<1>9. DigitSums[n] % 9 = n % 9
  BY <1>3, <1>5, <1>6, <1>7
<1>10. DigitSumOK(n)
  BY <1>8, <1>9 DEF DigitSumOK
<1> USE DEF wrong
<1> QED
  BY <1>1, <1>10

\* Of up to four digits the digit sum is that by place value.
Short(n) == n \in Nat /\ n <= 9999
LEMMA DigitSumByPlace ==
  ASSUME NEW n, Short(n)
  PROVE  sumDigits(n) = DigitSum(n)
<1> USE DEF Short
<1>1. \A k \in 0 .. 9 : DigitSums[k] = k
  BY DigitSumsDef
<1> DEFINE Joins(k, tens, ones) == k = 10 * tens + ones
<1>2. ASSUME NEW k \in Nat, NEW tens \in Nat, NEW ones \in 0 .. 9, Joins(k, tens, ones)
      PROVE  DigitSums[k] = DigitSums[tens] + ones
  <2>1. k \div 10 = tens /\ k % 10 = ones
    BY <1>2
  <2>2. CASE tens = 0
    <3>1. k = ones /\ DigitSums[tens] = 0
      BY <1>1, <1>2, <2>2
    <3> QED
      BY <1>1, <3>1
  <2>3. CASE tens # 0
    BY <1>2, <2>1, <2>3, DigitSumsDef
  <2> QED
    BY <2>2, <2>3
<1> DEFINE a == n \div 1000
           b == (n \div 100) % 10
           c == (n \div 10) % 10
           d == n % 10
<1>3. /\ a \in 0 .. 9 /\ b \in 0 .. 9 /\ c \in 0 .. 9 /\ d \in 0 .. 9
      /\ a % 10 = a
  <2>1. n \in Nat /\ n < 10000
    OBVIOUS
  <2>2. n \div 1000 \in Nat /\ n \div 1000 < 10
    BY <2>1
  <2>3. a \in 0 .. 9 /\ a % 10 = a
    BY <2>2
  <2>4. n \div 100 \in Nat /\ n \div 10 \in Nat
    BY <2>1
  <2>5. b \in 0 .. 9 /\ c \in 0 .. 9 /\ d \in 0 .. 9
    BY <2>1, <2>4
  <2> QED
    BY <2>3, <2>5
<1> DEFINE ab == 10 * a + b
           abc == 10 * ab + c
<1>4. /\ ab \in Nat /\ abc \in Nat /\ n \in Nat /\ a \in Nat
      /\ Joins(n, abc, d) /\ Joins(abc, ab, c) /\ Joins(ab, a, b)
  OBVIOUS
<1>5. DigitSum(n) = d + c + b + a
  BY <1>3 DEF DigitSum
<1> HIDE DEF a, b, c, d, ab, abc, Joins
<1>6. DigitSums[n] = DigitSums[abc] + d
  BY <1>2, <1>3, <1>4
<1>7. DigitSums[abc] = DigitSums[ab] + c
  BY <1>2, <1>3, <1>4
<1>8. DigitSums[ab] = DigitSums[a] + b
  BY <1>2, <1>3, <1>4
<1>9. DigitSums[a] = a
  BY <1>1, <1>3
<1> QED
  BY <1>3, <1>5, <1>6, <1>7, <1>8, <1>9 DEF sumDigits

\* A reduction that is not at its end goes on with the digit sum.
Stops(n, masters) == n < 10 \/ n \in masters
LEMMA ReduceDef ==
  ASSUME NEW masters, NEW n \in Nat
  PROVE  /\ Stops(n, masters) => Reduce(n, masters) = <<n>>
         /\ ~Stops(n, masters) => Reduce(n, masters) = <<n>> \o Reduce(sumDigits(n), masters)
<1> DEFINE B == {k \in Nat : Stops(k, masters)}
           base == [k \in B |-> <<k>>]
           smaller == [k \in Nat \ B |-> sumDigits(k)]
           step == [k \in Nat \ B |-> [t \in Seq(Nat) |-> <<k>> \o t]]
           steps == CHOOSE f : f = [k \in Nat |-> IF k < 10 \/ k \in masters THEN <<k>> ELSE <<k>> \o f[sumDigits(k)]]
<1>1. Recursion(Seq(Nat), B, base, smaller, step)
  <2>1. B \in SUBSET Nat
    OBVIOUS
  <2>2. base \in [B -> Seq(Nat)]
    OBVIOUS
  <2>3. \A k \in Nat \ B : sumDigits(k) \in Nat /\ sumDigits(k) < k
    BY DigitSumIsSmaller DEF DigitSumOK, sumDigits, Stops
  <2>4. \A k \in Nat : \A t \in Seq(Nat) : <<k>> \o t \in Seq(Nat)
    OBVIOUS
  <2>5. step \in [Nat \ B -> [Seq(Nat) -> Seq(Nat)]]
    BY <2>4
  <2>6. smaller \in [Nat \ B -> Nat] /\ \A k \in Nat \ B : smaller[k] < k
    BY <2>3
  <2> HIDE DEF B, base, smaller, step
  <2> QED
    BY <2>1, <2>2, <2>5, <2>6 DEF Recursion
<1> HIDE DEF B, base, smaller, step
<1>2. PICK f \in [Nat -> Seq(Nat)] : Satisfies(f, B, base, smaller, step)
  BY <1>1, RecursionIsDefined
<1> USE DEF B, base, smaller, step
<1>3. ASSUME NEW k \in Nat
      PROVE  f[k] = IF k < 10 \/ k \in masters THEN <<k>> ELSE <<k>> \o f[sumDigits(k)]
  <2>1. k \in B <=> k < 10 \/ k \in masters
    BY DEF Stops
  <2>2. CASE k \in B
    BY <1>2, <2>1, <2>2 DEF Satisfies
  <2>3. CASE k \notin B
    <3>1. f[k] = step[k][f[smaller[k]]]
      BY <1>2, <2>3 DEF Satisfies
    <3>2. smaller[k] = sumDigits(k) /\ smaller[k] \in Nat
      BY <1>1, <2>3 DEF Recursion
    <3>3. f[sumDigits(k)] \in Seq(Nat)
      BY <3>2
    <3>4. step[k][f[sumDigits(k)]] = <<k>> \o f[sumDigits(k)]
      BY <2>3, <3>3
    <3> QED
      BY <2>1, <2>3, <3>1, <3>2, <3>4
  <2> QED
    BY <2>2, <2>3
<1>4. f = [k \in Nat |-> IF k < 10 \/ k \in masters THEN <<k>> ELSE <<k>> \o f[sumDigits(k)]]
  <2>1. f = [k \in Nat |-> f[k]]
    OBVIOUS
  <2> QED
    BY <1>3, <2>1, Zenon
<1>5. steps = [k \in Nat |-> IF k < 10 \/ k \in masters THEN <<k>> ELSE <<k>> \o steps[sumDigits(k)]]
  BY <1>4, Zenon
<1>6. \A k \in Nat : Reduce(k, masters) = steps[k]
  BY Zenon DEF Reduce
<1> HIDE DEF steps
<1>7. steps[n] = IF n < 10 \/ n \in masters THEN <<n>> ELSE <<n>> \o steps[sumDigits(n)]
  BY <1>5, Zenon
<1>8. sumDigits(n) \in Nat
  BY DigitSumIsSmaller DEF DigitSumOK, sumDigits
<1> QED
  BY <1>6, <1>7, <1>8 DEF Stops

\* What a reduction passes through: from the number down to a digit or a master number, each
\* the digit sum of the one before, none a place to stop at, all of one class modulo nine.
Descends(steps, n, masters) ==
  /\ steps \in Seq(Nat) /\ steps # <<>> /\ steps[1] = n
  /\ \A i \in 1 .. Len(steps) - 1 : /\ steps[i + 1] = sumDigits(steps[i])
                                    /\ ~Stops(steps[i], masters)
  /\ Stops(Last(steps), masters)
  /\ Last(steps) % 9 = n % 9
  /\ Last(steps) = 0 => n = 0
LEMMA ReduceDescends ==
  ASSUME NEW masters
  PROVE  \A n \in Nat : Descends(Reduce(n, masters), n, masters)
<1> DEFINE wrong == {n \in Nat : ~Descends(Reduce(n, masters), n, masters)}
<1> SUFFICES ASSUME wrong # {} PROVE FALSE
  OBVIOUS
<1>1. PICK n \in wrong : \A m \in wrong : n <= m
  <2>1. wrong \in SUBSET Nat
    OBVIOUS
  <2> HIDE DEF wrong
  <2> QED
    BY <2>1, LeastNatural
<1>2. CASE Stops(n, masters)
  <2>1. Reduce(n, masters) = <<n>> /\ n \in Nat
    BY <1>2, ReduceDef
  <2>2. Last(<<n>>) = n /\ <<n>> \in Seq(Nat) /\ Len(<<n>>) = 1
    BY <2>1 DEF Last
  <2>3. Descends(<<n>>, n, masters)
    BY <1>2, <2>2 DEF Descends
  <2> QED
    BY <2>1, <2>3
<1>3. CASE ~Stops(n, masters)
  <2> DEFINE m == sumDigits(n)
             rest == Reduce(m, masters)
             steps == <<n>> \o rest
  <2>1. n \in Nat /\ n >= 10 /\ m \in Nat /\ m < n /\ m > 0 /\ m % 9 = n % 9
    BY <1>3, DigitSumIsSmaller DEF DigitSumOK, sumDigits, Stops
  <2>2. Reduce(n, masters) = steps
    BY <1>3, <2>1, ReduceDef
  <2> HIDE DEF m
  <2>3. m \notin wrong
    <3> HIDE DEF wrong
    <3> QED
      BY <1>1, <2>1
  <2>4. Descends(rest, m, masters)
    BY <2>1, <2>3
  <2> HIDE DEF rest
  <2>5. rest \in Seq(Nat) /\ rest # <<>> /\ rest[1] = m /\ Len(rest) \in Nat /\ Len(rest) > 0
    BY <2>4 DEF Descends
  <2>6. /\ steps \in Seq(Nat) /\ Len(steps) = Len(rest) + 1 /\ steps[1] = n
        /\ \A i \in 2 .. Len(steps) : steps[i] = rest[i - 1]
    BY <2>1, <2>5
  <2> HIDE DEF steps
  <2>7. Last(steps) = Last(rest) /\ steps # <<>>
    BY <2>5, <2>6 DEF Last
  <2>8. ASSUME NEW i \in 1 .. Len(steps) - 1
        PROVE  steps[i + 1] = sumDigits(steps[i]) /\ ~Stops(steps[i], masters)
    <3>1. CASE i = 1
      <4>1. steps[i] = n /\ steps[i + 1] = m
        BY <2>5, <2>6, <3>1
      <4> QED
        BY <1>3, <4>1 DEF m
    <3>2. CASE i # 1
      <4>1. i - 1 \in 1 .. Len(rest) - 1 /\ steps[i] = rest[i - 1] /\ steps[i + 1] = rest[(i - 1) + 1]
        BY <2>5, <2>6, <3>2
      <4> QED
        BY <2>4, <4>1 DEF Descends
    <3> QED
      BY <3>1, <3>2
  <2>9. Stops(Last(rest), masters) /\ Last(rest) % 9 = m % 9 /\ Last(rest) # 0
    <3>1. Last(rest) % 9 = m % 9 /\ (Last(rest) = 0 => m = 0) /\ Stops(Last(rest), masters)
      BY <2>4 DEF Descends
    <3> QED
      BY <2>1, <3>1
  <2>10. Descends(steps, n, masters)
    BY <2>1, <2>6, <2>7, <2>8, <2>9 DEF Descends
  <2> QED
    BY <2>2, <2>10
<1> QED
  BY <1>2, <1>3

\* A digit sum of four digits has no more of them.
LEMMA SumIsNotGreater == \A n \in Nat : sumDigits(n) \in Nat /\ sumDigits(n) <= n
BY DigitSumIsSmaller DEF DigitSumOK, sumDigits

LEMMA SumIsShort == \A n : Short(n) => Short(sumDigits(n))
<1> SUFFICES ASSUME NEW n, Short(n) PROVE Short(sumDigits(n))
  OBVIOUS
<1>1. sumDigits(n) \in Nat /\ sumDigits(n) <= n
  BY SumIsNotGreater DEF Short
<1> QED
  BY <1>1 DEF Short

\* The same with the digit sum by place value.
LEMMA DescentByPlace ==
  ASSUME NEW n, Short(n), NEW masters, NEW steps, Descends(steps, n, masters)
  PROVE  \A i \in 1 .. Len(steps) - 1 : steps[i + 1] = DigitSum(steps[i])
<1>1. steps \in Seq(Nat) /\ steps[1] = n /\ Len(steps) \in Nat
  BY DEF Descends
<1>2. \A i \in 1 .. Len(steps) - 1 : steps[i + 1] = sumDigits(steps[i])
  BY DEF Descends
<1> DEFINE long == {i \in Nat : i \in 1 .. Len(steps) - 1 /\ ~Short(steps[i])}
<1>3. long = {}
  <2> SUFFICES ASSUME long # {} PROVE FALSE
    OBVIOUS
  <2>1. PICK i \in long : \A j \in long : i <= j
    <3>1. long \in SUBSET Nat
      OBVIOUS
    <3> HIDE DEF long
    <3> QED
      BY <3>1, LeastNatural
  <2>2. i # 1
    BY <1>1, <2>1
  <2>3. i - 1 \in 1 .. Len(steps) - 1 /\ i - 1 \in Nat /\ ~(i <= i - 1) /\ (i - 1) + 1 = i
    BY <1>1, <2>1, <2>2
  <2>4. i - 1 \notin long
    <3> HIDE DEF long
    <3> QED
      BY <2>1, <2>3
  <2>5. Short(steps[i - 1]) /\ steps[i] = sumDigits(steps[i - 1])
    BY <1>2, <2>3, <2>4
  <2> QED
    BY <2>1, <2>5, SumIsShort
<1>4. \A i \in 1 .. Len(steps) - 1 : i \in Nat
  BY <1>1
<1>5. \A i \in 1 .. Len(steps) - 1 : Short(steps[i])
  BY <1>3, <1>4
<1> QED
  BY <1>2, <1>5, DigitSumByPlace

\* A trace of the bundle for the reduction of n, as its metric reduces.
TracesReduction(t, n) ==
  LET made == reduceTrace(reduceWithPolicy(n, IF KeepsMasters(t.id) THEN Masters ELSE {}))
  IN t.inputs = made.inputs /\ t.intermediates = made.intermediates /\ t.output = made.output

\* Every reduction a bundle traces, of a number of up to four digits, replays: each step is the
\* digit sum of the one before, it stops first at a digit, or at a master number where the metric
\* keeps them, and its result is of the class modulo nine of what it began with
\* (reduceWithPolicy, reduceTrace).
THEOREM ReductionsReplay ==
  ASSUME NEW n, Short(n), NEW t, TracesReduction(t, n)
  PROVE  Reduces(t)
<1> DEFINE masters == IF KeepsMasters(t.id) THEN Masters ELSE {}
           steps == Reduce(n, masters)
           stops == (1 .. 9) \cup masters
<1>1. Descends(steps, n, masters)
  <2>1. n \in Nat
    BY DEF Short
  <2> HIDE DEF masters
  <2> QED
    BY <2>1, ReduceDescends
<1>2. t.inputs = <<Head(steps)>> /\ t.intermediates = Tail(steps) /\ t.output = Last(steps)
  BY DEF TracesReduction, reduceTrace, Trace, reduceWithPolicy, Reduction
<1>3. 0 \notin masters
  BY DEF Masters
<1> HIDE DEF masters, steps
<1>4. /\ steps \in Seq(Nat) /\ steps # <<>> /\ Len(steps) \in Nat /\ Len(steps) > 0
      /\ steps[1] = n /\ Head(steps) = n
  BY <1>1 DEF Descends
<1>5. t.inputs \o t.intermediates = steps
  <2>1. <<Head(steps)>> \o Tail(steps) = steps
    BY <1>4
  <2> QED
    BY <1>2, <2>1
<1>6. t.inputs = <<n>> /\ t.inputs[1] = n /\ t.output = Last(steps) /\ Last(steps) \in Nat
  <2>1. t.inputs = <<n>> /\ t.output = Last(steps)
    BY <1>2, <1>4
  <2>2. Last(steps) \in Nat
    BY <1>4 DEF Last
  <2> QED
    BY <2>1, <2>2
<1>7. ASSUME NEW i \in 1 .. Len(steps) - 1
      PROVE  steps[i + 1] = DigitSum(steps[i]) /\ steps[i] \notin stops
  <2>1. steps[i + 1] = DigitSum(steps[i])
    BY <1>1, DescentByPlace
  <2>2. steps[i] \in Nat /\ ~Stops(steps[i], masters)
    BY <1>1, <1>4 DEF Descends
  <2> QED
    BY <2>1, <2>2 DEF Stops
<1>8. Stops(Last(steps), masters) /\ Last(steps) % 9 = n % 9 /\ (Last(steps) = 0 => n = 0)
  BY <1>1 DEF Descends
<1>9. Last(steps) \in stops \cup {0}
  BY <1>6, <1>8 DEF Stops
<1> DEFINE chain == t.inputs \o t.intermediates
<1>10. chain = steps
  BY <1>5
<1> HIDE DEF chain
<1>11. /\ t.output = Last(chain)
       /\ t.output = 0 => t.inputs = <<0>>
       /\ t.output \in stops \cup {0}
       /\ t.output % 9 = t.inputs[1] % 9
  BY <1>6, <1>8, <1>9, <1>10
<1>12. \A i \in 1 .. Len(chain) - 1 : chain[i + 1] = DigitSum(chain[i]) /\ chain[i] \notin stops
  BY <1>7, <1>10
<1> HIDE DEF stops
<1>13. (1 .. 9) \cup (IF KeepsMasters(t.id) THEN Masters ELSE {}) = stops
  BY DEF stops, masters
<1>14. t.inputs \o t.intermediates = chain
  BY DEF chain
<1> QED
  BY <1>11, <1>12, <1>13, <1>14 DEF Reduces

\* With no master numbers the root of a number is its class modulo nine, nine for none, so
\* that a positive number always has a planet (digitalRoot, planetForRoot).
THEOREM RootsAreClasses ==
  \A n \in Nat : /\ digitalRoot(n) = IF n = 0 THEN 0 ELSE 1 + ((n - 1) % 9)
                 /\ n > 0 => reduceWithPolicy(n, {}).root \in DOMAIN Planets
<1> SUFFICES ASSUME NEW n \in Nat
             PROVE  /\ digitalRoot(n) = IF n = 0 THEN 0 ELSE 1 + ((n - 1) % 9)
                    /\ n > 0 => reduceWithPolicy(n, {}).root \in DOMAIN Planets
  OBVIOUS
<1> DEFINE steps == Reduce(n, {})
           root == Last(steps)
<1>1. digitalRoot(n) = root /\ reduceWithPolicy(n, {}).root = root
  BY DEF digitalRoot, reduceWithPolicy, Reduction
<1>2. Descends(steps, n, {})
  BY ReduceDescends
<1> HIDE DEF steps
<1>3. /\ root \in Nat /\ root < 10 /\ root % 9 = n % 9 /\ (root = 0 => n = 0)
  <2>1. steps \in Seq(Nat) /\ steps # <<>> /\ Len(steps) \in 1 .. Len(steps)
    BY <1>2 DEF Descends
  <2> QED
    BY <1>2, <2>1 DEF Descends, Stops, Last
<1> HIDE DEF root
<1>4. CASE n = 0
  <2>1. Reduce(n, {}) = <<0>>
    <3>1. Stops(n, {})
      BY <1>4 DEF Stops
    <3>2. Reduce(n, {}) = <<n>>
      BY <3>1, ReduceDef
    <3> QED
      BY <1>4, <3>2
  <2>2. root = 0
    BY <2>1 DEF root, steps, Last
  <2> QED
    BY <1>1, <1>4, <2>2
<1>5. CASE n # 0
  <2>1. root \in 1 .. 9
    BY <1>3, <1>5
  <2>2. root = 1 + ((n - 1) % 9)
    <3>1. n - 1 \in Nat /\ root - 1 \in 0 .. 8
      BY <1>5, <2>1
    <3>2. (root - 1) % 9 = (n - 1) % 9
      BY <1>3, <1>5, <2>1
    <3>3. (root - 1) % 9 = root - 1
      BY <3>1
    <3> QED
      BY <2>1, <3>1, <3>2, <3>3
  <2>3. DOMAIN Planets = 1 .. 9
    BY DEF Planets
  <2> QED
    BY <1>1, <1>5, <2>1, <2>2, <2>3
<1> QED
  BY <1>4, <1>5

-----------------------------------------------------------------------------
(* The registry: what it resolves from a release that compiled.  That the   *)
(* suppressor of every rule is defined follows from the suppressions having *)
(* no cycle.                                                                *)

\* A sequence that has every element of a set once.
Lists(s, S) ==
  /\ Cardinality(S) \in Nat /\ s \in [1 .. Cardinality(S) -> S]
  /\ \A i, j \in 1 .. Cardinality(S) : s[i] = s[j] => i = j
  /\ \A x \in S : \E i \in 1 .. Cardinality(S) : s[i] = x

\* What comes preceding each element of a set that is strictly and totally ordered.
Precede(preceding, S) ==
  /\ preceding \in [S -> SUBSET S]
  /\ \A x \in S : x \notin preceding[x]
  /\ \A x, y \in S : x = y \/ x \in preceding[y] \/ y \in preceding[x]
  /\ \A x, y \in S : x \in preceding[y] => preceding[x] \subseteq preceding[y]
\* What has each place.
ListOf(place, S) == [i \in 1 .. Cardinality(S) |-> CHOOSE x \in S : place[x] = i]

\* A finite set is listed in the order of its elements.
LEMMA OrderLists ==
  ASSUME NEW S, IsFiniteSet(S), NEW preceding, Precede(preceding, S)
  PROVE  Lists(ListOf([x \in S |-> 1 + Cardinality(preceding[x])], S), S)
<1> USE DEF Precede
<1> DEFINE place == [x \in S |-> 1 + Cardinality(preceding[x])]
<1> DEFINE N == Cardinality(S)
           s == [i \in 1 .. N |-> CHOOSE x \in S : place[x] = i]
<1>1. N \in Nat /\ IsFiniteSet(1 .. N) /\ Cardinality(1 .. N) = N
  BY FS_CardinalityType, FS_Interval
<1>2. ASSUME NEW x \in S, NEW T \in SUBSET S, x \notin T
      PROVE  IsFiniteSet(T) /\ Cardinality(T) \in Nat /\ Cardinality(T) < N
  <2>1. IsFiniteSet(T) /\ Cardinality(T) \in Nat
    BY FS_Subset, FS_CardinalityType
  <2>2. IsFiniteSet(T \cup {x}) /\ Cardinality(T \cup {x}) = Cardinality(T) + 1
    BY <1>2, <2>1, FS_AddElement
  <2>3. T \cup {x} \in SUBSET S
    OBVIOUS
  <2>4. Cardinality(T \cup {x}) <= N
    BY <2>3, FS_Subset
  <2> QED
    BY <1>1, <2>1, <2>2, <2>4
<1>3. \A x \in S : place[x] \in 1 .. N
  <2> TAKE x \in S
  <2>1. Cardinality(preceding[x]) \in Nat /\ Cardinality(preceding[x]) < N
    BY <1>2
  <2> QED
    BY <1>1, <2>1
<1>4. ASSUME NEW x \in S, NEW y \in S, x \in preceding[y]
      PROVE  place[x] < place[y]
  <2>1. preceding[x] \cup {x} \in SUBSET preceding[y] /\ preceding[y] \in SUBSET S /\ preceding[x] \in SUBSET S
    BY <1>4
  <2>2. IsFiniteSet(preceding[y]) /\ IsFiniteSet(preceding[x])
    BY <2>1, FS_Subset
  <2>3. /\ Cardinality(preceding[y]) \in Nat /\ Cardinality(preceding[x]) \in Nat
        /\ Cardinality(preceding[x] \cup {x}) = Cardinality(preceding[x]) + 1
        /\ Cardinality(preceding[x] \cup {x}) <= Cardinality(preceding[y])
    BY <2>1, <2>2, FS_Subset, FS_AddElement, FS_CardinalityType
  <2> QED
    BY <2>3
<1>5. place \in Injection(S, 1 .. N)
  <2>1. place \in [S -> 1 .. N]
    BY <1>3
  <2>2. \A x, y \in S : place[x] = place[y] => x = y
    <3> SUFFICES ASSUME NEW x \in S, NEW y \in S, place[x] = place[y], x # y PROVE FALSE
      OBVIOUS
    <3>1. place[x] < place[y] \/ place[y] < place[x]
      BY <1>4
    <3>2. place[x] \in Nat
      BY <1>3
    <3> QED
      BY <3>1, <3>2
  <2> QED
    BY <2>1, <2>2 DEF Injection, IsInjective
<1>6. place \in Surjection(S, 1 .. N)
  BY <1>1, <1>5, FS_Injection
<1>7. \A i \in 1 .. N : s[i] \in S /\ place[s[i]] = i
  BY <1>6 DEF Surjection
<1>8. \A x \in S : place[x] \in 1 .. N /\ s[place[x]] = x
  BY <1>3, <1>5, <1>7 DEF Injection, IsInjective
<1> HIDE DEF s, N
<1>9. s \in [1 .. N -> S]
  BY <1>7 DEF s
<1>10. \A i, j \in 1 .. N : s[i] = s[j] => i = j
  BY <1>7
<1>11. \A x \in S : \E i \in 1 .. N : s[i] = x
  BY <1>8
<1>12. N \in Nat
  BY <1>1
<1> USE DEF N
<1>13. Lists(s, S)
  BY <1>9, <1>10, <1>11, <1>12 DEF Lists
<1> QED
  BY <1>13 DEF s, ListOf

\* Numbers in their order.
LEMMA NumbersInOrder ==
  ASSUME NEW P \in SUBSET Nat, IsFiniteSet(P)
  PROVE  Lists(Ascending(P), P)
<1> DEFINE preceding == [x \in P |-> {y \in P : y < x}]
           place == [x \in P |-> 1 + Cardinality(preceding[x])]
<1>1. \A x \in P : preceding[x] = {y \in P : y < x} /\ x \in Nat
  OBVIOUS
<1>2. preceding \in [P -> SUBSET P]
  OBVIOUS
<1>3. place = [x \in P |-> 1 + Cardinality({y \in P : y < x})]
  OBVIOUS
<1> HIDE DEF preceding
<1>4. place = [x \in P |-> 1 + Cardinality(preceding[x])]
  OBVIOUS
<1> HIDE DEF place
<1>5. Precede(preceding, P)
  <2>1. \A x \in P : x \notin preceding[x]
    BY <1>1
  <2>2. \A x, y \in P : x = y \/ x \in preceding[y] \/ y \in preceding[x]
    BY <1>1
  <2>3. ASSUME NEW x \in P, NEW y \in P, x \in preceding[y]
        PROVE  preceding[x] \subseteq preceding[y]
    <3> SUFFICES ASSUME NEW z \in preceding[x] PROVE z \in preceding[y]
      OBVIOUS
    <3>1. z \in P /\ z \in Nat /\ x \in Nat /\ y \in Nat /\ z < x /\ x < y
      BY <1>1, <2>3
    <3>2. z < y
      BY <3>1
    <3> QED
      BY <1>1, <3>1, <3>2
  <2> QED
    BY <1>2, <2>1, <2>2, <2>3 DEF Precede
<1>6. Lists(ListOf([x \in P |-> 1 + Cardinality(preceding[x])], P), P)
  BY <1>5, OrderLists
<1>7. Ascending(P) = ListOf(place, P)
  BY <1>3 DEF Ascending, InOrder, ListOf
<1> QED
  BY <1>4, <1>6, <1>7

\* What is at some places of a sequence, each once.
LEMMA AtPlacesIs ==
  ASSUME NEW s, NEW P \in SUBSET Nat, IsFiniteSet(P)
  PROVE  /\ Cardinality(P) \in Nat
         /\ DOMAIN AtPlaces(s, P) = 1 .. Cardinality(P)
         /\ \A i \in P : \E k \in DOMAIN AtPlaces(s, P) : AtPlaces(s, P)[k] = s[i]
         /\ \A k \in DOMAIN AtPlaces(s, P) : \E i \in P : AtPlaces(s, P)[k] = s[i]
<1> DEFINE order == Ascending(P)
<1>1. Lists(order, P)
  BY NumbersInOrder
<1>2. AtPlaces(s, P) = [k \in DOMAIN order |-> s[order[k]]]
  BY DEF AtPlaces
<1> HIDE DEF order
<1>3. DOMAIN order = 1 .. Cardinality(P)
  BY <1>1 DEF Lists
<1>4. /\ Cardinality(P) \in Nat
      /\ \A k \in 1 .. Cardinality(P) : order[k] \in P
      /\ \A i \in P : \E k \in 1 .. Cardinality(P) : order[k] = i
  BY <1>1 DEF Lists
<1> DEFINE at == AtPlaces(s, P)
<1>5. DOMAIN at = 1 .. Cardinality(P) /\ \A k \in 1 .. Cardinality(P) : at[k] = s[order[k]]
  BY <1>2, <1>3
<1> HIDE DEF at
<1>6. /\ \A i \in P : \E k \in DOMAIN at : at[k] = s[i]
      /\ \A k \in DOMAIN at : \E i \in P : at[k] = s[i]
  <2>1. ASSUME NEW i \in P PROVE \E k \in DOMAIN at : at[k] = s[i]
    <3>1. PICK k \in 1 .. Cardinality(P) : order[k] = i
      BY <1>4
    <3> QED
      BY <1>5, <3>1
  <2>2. ASSUME NEW k \in DOMAIN at PROVE \E i \in P : at[k] = s[i]
    BY <1>4, <1>5
  <2> QED
    BY <2>1, <2>2
<1> QED
  BY <1>4, <1>5, <1>6 DEF at

\* A relation without descending chains: some element of any set is met by none of it.
Grounded(by, D) ==
  /\ by \in [D -> SUBSET D]
  /\ \A T \in SUBSET D : T # {} => \E x \in T : by[x] \cap T = {}

\* For such a relation there is a set of which no element is met by another one of the set,
\* and every element outside it is.
LEMMA SettledSet ==
  ASSUME NEW D, NEW by, Grounded(by, D)
  PROVE  \E F \in SUBSET D : \A x \in D : x \in F <=> by[x] \cap F = {}
<1> USE DEF Grounded
<1> DEFINE Closed(U) == \A x \in U : by[x] \subseteq U
           Settles(U, F) == U \in SUBSET D /\ F \in SUBSET U /\ Closed(U)
                            /\ \A x \in U : x \in F <=> by[x] \cap F = {}
<1>1. ASSUME NEW U, NEW F, Settles(U, F), NEW V, NEW G, Settles(V, G)
      PROVE  F \cap V = G \cap U
  <2> DEFINE T == {x \in U \cap V : ~(x \in F <=> x \in G)}
  <2> SUFFICES T = {}
    BY <1>1
  <2> SUFFICES ASSUME T # {} PROVE FALSE
    OBVIOUS
  <2>1. T \in SUBSET D
    BY <1>1
  <2>2. PICK x \in T : by[x] \cap T = {}
    <3> HIDE DEF T
    <3> QED BY <2>1
  <2>3. x \in U /\ x \in V /\ by[x] \subseteq U /\ by[x] \subseteq V
    BY <1>1, <2>2
  <2>4. by[x] \cap F = by[x] \cap G
    BY <2>2, <2>3
  <2> QED
    BY <1>1, <2>2, <2>3, <2>4
<1> DEFINE known == {x \in D : \E U, F \in SUBSET D : Settles(U, F) /\ x \in U}
           free == {x \in D : \E U, F \in SUBSET D : Settles(U, F) /\ x \in F}
<1>2. Settles(known, free)
  <2>1. known \in SUBSET D /\ free \in SUBSET known
    OBVIOUS
  <2>2. ASSUME NEW U \in SUBSET D, NEW F \in SUBSET D, Settles(U, F)
        PROVE  U \subseteq known /\ free \cap U = F
    <3>1. U \subseteq known /\ F \subseteq free
      BY <2>2
    <3>2. ASSUME NEW x \in free, x \in U PROVE x \in F
      <4>1. PICK V \in SUBSET D, G \in SUBSET D : Settles(V, G) /\ x \in G
        OBVIOUS
      <4>2. F \cap V = G \cap U
        <5> HIDE DEF Settles, known, free
        <5> QED
          BY <1>1, <2>2, <4>1
      <4> QED
        BY <3>2, <4>1, <4>2
    <3>3. F \subseteq U
      BY <2>2
    <3> QED
      BY <3>1, <3>2, <3>3
  <2>3. ASSUME NEW x \in known
        PROVE  by[x] \subseteq known /\ (x \in free <=> by[x] \cap free = {})
    <3>1. PICK U \in SUBSET D, F \in SUBSET D : Settles(U, F) /\ x \in U
      OBVIOUS
    <3>2. U \subseteq known /\ free \cap U = F /\ by[x] \subseteq U
      BY <2>2, <3>1
    <3> HIDE DEF known, free
    <3> QED
      BY <3>1, <3>2
  <2> HIDE DEF known, free
  <2> QED
    BY <2>1, <2>3
<1>3. known = D
  <2> SUFFICES ASSUME D \ known # {} PROVE FALSE
    OBVIOUS
  <2>1. PICK x \in D \ known : by[x] \cap (D \ known) = {}
    <3> HIDE DEF known
    <3> QED OBVIOUS
  <2>2. by[x] \subseteq known /\ x \notin known /\ x \in D
    <3> HIDE DEF known
    <3> QED BY <2>1
  <2> DEFINE U == known \cup {x}
             F == free \cup {y \in {x} : by[x] \cap free = {}}
  <2>3. Settles(U, F)
    <3> HIDE DEF known, free
    <3>1. U \in SUBSET D /\ F \in SUBSET U /\ Closed(U)
      BY <1>2, <2>2
    <3>2. \A y \in known : by[y] \cap F = by[y] \cap free /\ (y \in F <=> y \in free)
      BY <1>2, <2>2
    <3>3. by[x] \cap F = by[x] \cap free /\ (x \in F <=> by[x] \cap free = {})
      BY <1>2, <2>2
    <3> HIDE DEF F
    <3>4. \A y \in U : y \in F <=> by[y] \cap F = {}
      BY <1>2, <3>2, <3>3
    <3> QED
      BY <3>1, <3>4
  <2>4. U \in SUBSET D /\ F \in SUBSET D /\ x \in U
    BY <2>3
  <2>5. x \in known
    <3> HIDE DEF U, F, Settles
    <3> QED BY <2>2, <2>3, <2>4
  <2> HIDE DEF known
  <2> QED
    BY <2>2, <2>5
<1> HIDE DEF known, free
<1> QED
  BY <1>2, <1>3

\* What following the suppressions leads to in a step more.
LEMMA SuppressedAfterDef ==
  ASSUME NEW input, NEW id
  PROVE  /\ SuppressedAfter(input, id)[0] = {id}
         /\ \A n \in Nat \ {0} : SuppressedAfter(input, id)[n] =
                                  Suppressed(input, SuppressedAfter(input, id)[n - 1])
<1> DEFINE Following(f) ==
             f = [n \in Nat |-> IF n = 0 THEN {id} ELSE Suppressed(input, f[n - 1])]
           all == {id} \cup UNION {BindingOf(input, i).suppresses : i \in IdSet(input.bindings)}
           base == [n \in {0} |-> {id}]
           smaller == [n \in Nat \ {0} |-> n - 1]
           step == [n \in Nat \ {0} |-> [from \in SUBSET all |-> Suppressed(input, from)]]
           sets == SUBSET all
<1>1. Recursion(SUBSET all, {0}, base, smaller, step)
  <2>1. \A from \in SUBSET all : Suppressed(input, from) \in SUBSET all
    BY DEF Suppressed
  <2>2. base \in [{0} -> SUBSET all]
    OBVIOUS
  <2>3. smaller \in [Nat \ {0} -> Nat] /\ \A n \in Nat \ {0} : smaller[n] < n
    OBVIOUS
  <2> HIDE DEF all
  <2>4. step \in [Nat \ {0} -> [SUBSET all -> SUBSET all]]
    BY <2>1
  <2>5. base \in [{0} -> sets] /\ step \in [Nat \ {0} -> [sets -> sets]]
    BY <2>2, <2>4
  <2> HIDE DEF base, smaller, step, sets
  <2>6. Recursion(sets, {0}, base, smaller, step)
    BY <2>3, <2>5 DEF Recursion
  <2> QED
    BY <2>6 DEF sets
<1> HIDE DEF base, smaller, step, all, sets
<1>2. PICK f \in [Nat -> SUBSET all] : Satisfies(f, {0}, base, smaller, step)
  BY <1>1, RecursionIsDefined
<1>3. ASSUME NEW n \in Nat
      PROVE  f[n] = IF n = 0 THEN {id} ELSE Suppressed(input, f[n - 1])
  <2>1. CASE n = 0
    BY <1>2, <2>1 DEF Satisfies, base
  <2>2. CASE n # 0
    <3>1. n \in Nat \ {0} /\ smaller[n] = n - 1 /\ n - 1 \in Nat
      BY <2>2 DEF smaller
    <3>2. f[n] = step[n][f[n - 1]]
      BY <1>2, <3>1 DEF Satisfies
    <3>3. step[n][f[n - 1]] = Suppressed(input, f[n - 1])
      BY <3>1 DEF step
    <3> QED
      BY <2>2, <3>2, <3>3
  <2> QED
    BY <2>1, <2>2
<1>4. Following(f)
  <2>1. f = [n \in Nat |-> f[n]]
    OBVIOUS
  <2> QED
    BY <1>3, <2>1, Zenon
<1>5. Following(CHOOSE g : Following(g))
  BY <1>4, Zenon
<1>6. Following(SuppressedAfter(input, id))
  BY <1>5, Zenon DEF SuppressedAfter
<1> DEFINE after == SuppressedAfter(input, id)
<1>7. \A n \in Nat : after[n] = IF n = 0 THEN {id} ELSE Suppressed(input, after[n - 1])
  BY <1>6, Zenon
<1> HIDE DEF after
<1>8. after[0] = {id} /\ \A n \in Nat \ {0} : after[n] = Suppressed(input, after[n - 1])
  BY <1>7
<1> QED
  BY <1>8 DEF after

\* Without a cycle there is a rule, of any some, that none of them suppresses.
LEMMA NoCycleNoDescent ==
  ASSUME NEW input, IsFiniteSet(IdSet(input.bindings)), ~SuppressionCycle(input),
         NEW T \in SUBSET IdSet(input.bindings), T # {}
  PROVE  \E x \in T : \A y \in T : x \notin BindingOf(input, y).suppresses
<1> DEFINE ids == IdSet(input.bindings)
           Supp(y) == BindingOf(input, y).suppresses
           Reached(x) == SuppressedAfter(input, x)
           N == Cardinality(ids)
<1> SUFFICES ASSUME \A x \in T : \E y \in T : x \in Supp(y) PROVE FALSE
  OBVIOUS
<1>1. N \in Nat
  BY FS_CardinalityType
<1> DEFINE pred == [x \in T |-> CHOOSE y \in T : x \in Supp(y)]
<1>2. pred \in [T -> T] /\ \A x \in T : x \in Supp(pred[x])
  <2> HIDE DEF Supp
  <2> QED OBVIOUS
<1> HIDE DEF pred, Supp
<1>3. PICK t \in T : TRUE
  OBVIOUS
<1> DEFINE base == [n \in {0} |-> t]
           smaller == [n \in Nat \ {0} |-> n - 1]
           step == [n \in Nat \ {0} |-> pred]
<1>4. Recursion(T, {0}, base, smaller, step)
  <2>1. base \in [{0} -> T] /\ step \in [Nat \ {0} -> [T -> T]]
    BY <1>2
  <2>2. smaller \in [Nat \ {0} -> Nat] /\ \A n \in Nat \ {0} : smaller[n] < n
    OBVIOUS
  <2> HIDE DEF base, smaller, step
  <2> QED
    BY <2>1, <2>2 DEF Recursion
<1> HIDE DEF base
<1>5. PICK f \in [Nat -> T] : Satisfies(f, {0}, base, smaller, step)
  <2> HIDE DEF smaller, step
  <2> QED BY <1>4, RecursionIsDefined
<1>6. ASSUME NEW n \in Nat PROVE f[n] \in Supp(f[n + 1])
  <2>1. n + 1 \in Nat \ {0} /\ smaller[n + 1] = n /\ n + 1 \in Nat
    OBVIOUS
  <2>2. f[n + 1] = step[n + 1][f[n]]
    <3> HIDE DEF step, smaller
    <3> QED BY <1>5, <2>1 DEF Satisfies
  <2>3. f[n + 1] = pred[f[n]]
    BY <2>1, <2>2
  <2> QED
    BY <1>2, <2>3
<1> HIDE DEF smaller, step
<1>7. ASSUME NEW j \in Nat
      PROVE  \A n \in 0 .. j : f[j - n] \in Reached(f[j])[n]
  <2> DEFINE lost == {n \in Nat : n <= j /\ f[j - n] \notin Reached(f[j])[n]}
  <2> SUFFICES ASSUME lost # {} PROVE FALSE
    OBVIOUS
  <2>1. PICK n \in lost : \A m \in lost : n <= m
    <3>1. lost \in SUBSET Nat
      OBVIOUS
    <3> HIDE DEF lost
    <3> QED BY <3>1, LeastNatural
  <2>2. Reached(f[j])[0] = {f[j]}
    BY SuppressedAfterDef
  <2>3. n # 0
    BY <2>1, <2>2
  <2>4. /\ n \in Nat /\ n - 1 \in Nat /\ n <= j /\ n - 1 <= j /\ j - n \in Nat
        /\ j - (n - 1) = (j - n) + 1 /\ ~(n <= n - 1)
    BY <2>1, <2>3
  <2>5. f[j - (n - 1)] \in Reached(f[j])[n - 1]
    BY <2>1, <2>4
  <2>6. f[j - n] \in Supp(f[j - (n - 1)])
    BY <1>6, <2>4
  <2>7. f[j - (n - 1)] \in ids
    BY <2>4
  <2>8. f[j - n] \in Suppressed(input, Reached(f[j])[n - 1])
    BY <2>5, <2>6, <2>7 DEF Suppressed, Supp
  <2>9. Reached(f[j])[n] = Suppressed(input, Reached(f[j])[n - 1])
    <3>1. n \in Nat \ {0}
      BY <2>3, <2>4
    <3> QED
      BY <3>1, SuppressedAfterDef, SMT
  <2> QED
    BY <2>1, <2>8, <2>9
<1>8. PICK x \in 0 .. N, y \in 0 .. N : x < y /\ f[x] = f[y]
  <2> DEFINE g == [i \in 0 .. N |-> f[i]]
  <2>1. g \in [0 .. N -> ids]
    BY <1>1
  <2>2. IsFiniteSet(0 .. N) /\ Cardinality(0 .. N) = N + 1
    BY <1>1, FS_Interval
  <2>3. PICK x \in 0 .. N, y \in 0 .. N : x # y /\ g[x] = g[y]
    <3>1. Cardinality(ids) < Cardinality(0 .. N)
      BY <1>1, <2>2
    <3> HIDE DEF g, ids, N
    <3> QED BY <2>1, <2>2, <3>1, FS_PigeonHole DEF ids
  <2>4. f[x] = f[y] /\ x \in Nat /\ y \in Nat
    BY <1>1, <2>3
  <2>5. CASE x < y
    BY <2>4, <2>5
  <2>6. CASE y < x
    BY <2>4, <2>6
  <2> QED
    BY <2>3, <2>4, <2>5, <2>6
<1>9. y - x \in 1 .. N /\ y \in Nat /\ y - x \in 0 .. y /\ y - (y - x) = x /\ x \in Nat
  BY <1>1, <1>8
<1>10. f[x] \in Reached(f[x])[y - x]
  BY <1>7, <1>8, <1>9
<1>11. f[x] \in ids
  BY <1>9
<1> QED
  BY <1>9, <1>10, <1>11 DEF SuppressionCycle

\* What the recursion of selectedSuppressor is defined by, for a rule and what it gives others.
Suppressing(e, sup, id) ==
  {i \in DOMAIN e : id \in e[i].binding.suppresses /\ sup[e[i].rule.id] = <<>>}

\* Without a cycle there is a function that satisfies it.
LEMMA SuppressorIs ==
  ASSUME NEW e, NEW D, D = {c.rule.id : c \in Range(e)},
         \A T \in SUBSET D : T # {} =>
           \E x \in T : \A i \in DOMAIN e : e[i].rule.id \in T => x \notin e[i].binding.suppresses
  PROVE  \A id \in D :
           selectedSuppressor(e)[id] =
             IF Suppressing(e, selectedSuppressor(e), id) = {} THEN <<>>
             ELSE <<e[Min(Suppressing(e, selectedSuppressor(e), id))]>>
<1> DEFINE ids == [i \in DOMAIN e |-> e[i].rule.id]
           supp == [i \in DOMAIN e |-> e[i].binding.suppresses]
           by == [x \in D |-> {y \in D : \E i \in DOMAIN e : ids[i] = y /\ x \in supp[i]}]
           First(f, id) == IF Suppressing(e, f, id) = {} THEN <<>> ELSE <<e[Min(Suppressing(e, f, id))]>>
           Suppresses(f) == f = [id \in {c.rule.id : c \in Range(e)} |-> First(f, id)]
<1>1. /\ \A i \in DOMAIN e : ids[i] = e[i].rule.id /\ supp[i] = e[i].binding.suppresses
      /\ \A i \in DOMAIN e : ids[i] \in D
  BY DEF Range
<1> HIDE DEF ids, supp
<1>2. PICK F \in SUBSET D : \A x \in D : x \in F <=> by[x] \cap F = {}
  <2>1. by \in [D -> SUBSET D]
    OBVIOUS
  <2>2. ASSUME NEW T \in SUBSET D, T # {}
        PROVE  \E x \in T : by[x] \cap T = {}
    <3>1. PICK x \in T : \A i \in DOMAIN e : ids[i] \in T => x \notin supp[i]
      BY <1>1, <2>2
    <3> QED
      BY <3>1
  <2> HIDE DEF by
  <2>3. \A T \in SUBSET D : T # {} => \E x \in T : by[x] \cap T = {}
    BY <2>2
  <2>4. Grounded(by, D)
    BY <2>1, <2>3 DEF Grounded
  <2> QED
    BY <2>4, SettledSet
<1>3. \A id \in D : id \in F <=> \A i \in DOMAIN e : id \in supp[i] => ids[i] \notin F
  <2> TAKE id \in D
  <2>1. by[id] = {y \in D : \E i \in DOMAIN e : ids[i] = y /\ id \in supp[i]}
    OBVIOUS
  <2>2. id \in F <=> by[id] \cap F = {}
    BY <1>2
  <2> HIDE DEF by
  <2>3. by[id] \cap F = {} <=> \A i \in DOMAIN e : id \in supp[i] => ids[i] \notin F
    BY <1>1, <2>1
  <2> QED
    BY <2>2, <2>3
<1> HIDE DEF by
<1> DEFINE from == [id \in D |-> {i \in DOMAIN e : id \in supp[i] /\ ids[i] \in F}]
           f == [id \in D |-> IF from[id] = {} THEN <<>> ELSE <<e[Min(from[id])]>>]
<1>4. \A id \in D : f[id] = <<>> <=> id \in F
  <2> TAKE id \in D
  <2>1. from[id] = {} <=> id \in F
    BY <1>3
  <2> HIDE DEF from
  <2>2. <<e[Min(from[id])]>> # <<>>
    OBVIOUS
  <2> QED
    BY <2>1, <2>2
<1>5. \A id \in D : Suppressing(e, f, id) = from[id]
  <2> TAKE id \in D
  <2>1. \A i \in DOMAIN e : f[ids[i]] = <<>> <=> ids[i] \in F
    BY <1>1, <1>4
  <2> HIDE DEF f
  <2> QED
    BY <1>1, <2>1 DEF Suppressing
<1>6. Suppresses(f)
  <2> DEFINE g == [id \in D |-> First(f, id)]
  <2>1. ASSUME NEW id \in D PROVE f[id] = g[id]
    <3>1. f[id] = IF from[id] = {} THEN <<>> ELSE <<e[Min(from[id])]>>
      OBVIOUS
    <3> HIDE DEF f, from
    <3>2. g[id] = First(f, id)
      <4> HIDE DEF First
      <4> QED OBVIOUS
    <3>3. Suppressing(e, f, id) = from[id]
      BY <1>5
    <3> HIDE DEF g, Suppressing
    <3> QED BY <3>1, <3>2, <3>3
  <2>2. f = [id \in D |-> f[id]]
    OBVIOUS
  <2>3. g = [id \in D |-> g[id]]
    <3> HIDE DEF First
    <3> QED OBVIOUS
  <2> HIDE DEF f, g
  <2>4. f = g
    BY <2>1, <2>2, <2>3
  <2> USE DEF g
  <2> QED
    BY <2>4, Zenon
<1>7. Suppresses(CHOOSE g : Suppresses(g))
  BY <1>6, Zenon
<1>8. Suppresses(selectedSuppressor(e))
  BY <1>7, Zenon DEF selectedSuppressor, Suppressing
<1> DEFINE sup == selectedSuppressor(e)
<1>9. ASSUME NEW id \in D
      PROVE  sup[id] = First(sup, id)
  <2> HIDE DEF First, sup
  <2>1. sup = [x \in D |-> First(sup, x)]
    BY <1>8 DEF sup
  <2> QED BY <2>1
<1> QED
  BY <1>9

\* A rule has no suppressor when every one that suppresses it has one.
LEMMA SuppressorIsFree ==
  ASSUME NEW e, NEW D, D = {c.rule.id : c \in Range(e)},
         \A T \in SUBSET D : T # {} =>
           \E x \in T : \A i \in DOMAIN e : e[i].rule.id \in T => x \notin e[i].binding.suppresses
  PROVE  \A id \in D :
           selectedSuppressor(e)[id] = <<>> <=>
             \A i \in DOMAIN e : id \in e[i].binding.suppresses =>
                                   selectedSuppressor(e)[e[i].rule.id] # <<>>
<1> DEFINE sup == selectedSuppressor(e)
<1>1. \A id \in D : sup[id] = IF Suppressing(e, sup, id) = {} THEN <<>>
                              ELSE <<e[Min(Suppressing(e, sup, id))]>>
  BY SuppressorIs
<1> HIDE DEF sup
<1>2. \A id : <<e[Min(Suppressing(e, sup, id))]>> # <<>>
  OBVIOUS
<1>3. \A id \in D : sup[id] = <<>> <=> Suppressing(e, sup, id) = {}
  BY <1>1, <1>2
<1> QED
  BY <1>3 DEF sup, Suppressing

\* Three keys that tell the elements of a set apart order it.
Keys(a, b, c, S) ==
  /\ a \in [S -> Int] /\ b \in [S -> Int] /\ c \in [S -> Int]
  /\ \A x, y \in S : a[x] = a[y] /\ b[x] = b[y] /\ c[x] = c[y] => x = y
Earlier(a, b, c, y, x) ==
  \/ a[y] < a[x]
  \/ a[y] = a[x] /\ b[y] < b[x]
  \/ a[y] = a[x] /\ b[y] = b[x] /\ c[y] < c[x]

LEMMA KeysPrecede ==
  ASSUME NEW S, NEW a, NEW b, NEW c, Keys(a, b, c, S)
  PROVE  Precede([x \in S |-> {y \in S : Earlier(a, b, c, y, x)}], S)
<1> DEFINE preceding == [x \in S |-> {y \in S : Earlier(a, b, c, y, x)}]
<1>1. \A x \in S : preceding[x] = {y \in S : Earlier(a, b, c, y, x)}
  <2> HIDE DEF Earlier
  <2> QED OBVIOUS
<1>2. preceding \in [S -> SUBSET S]
  <2> HIDE DEF Earlier
  <2> QED OBVIOUS
<1> HIDE DEF preceding
<1>3. \A x \in S : a[x] \in Int /\ b[x] \in Int /\ c[x] \in Int
  BY DEF Keys
<1>4. \A x \in S : ~Earlier(a, b, c, x, x)
  BY <1>3 DEF Earlier
<1>5. ASSUME NEW x \in S, NEW y \in S PROVE x = y \/ Earlier(a, b, c, x, y) \/ Earlier(a, b, c, y, x)
  <2>1. CASE a[x] = a[y] /\ b[x] = b[y] /\ c[x] = c[y]
    BY <2>1 DEF Keys
  <2>2. CASE ~(a[x] = a[y] /\ b[x] = b[y] /\ c[x] = c[y])
    BY <1>3, <2>2 DEF Earlier
  <2> QED
    BY <2>1, <2>2
<1>6. ASSUME NEW x \in S, NEW y \in S, NEW z \in S, Earlier(a, b, c, z, x), Earlier(a, b, c, x, y)
      PROVE  Earlier(a, b, c, z, y)
  BY <1>3, <1>6 DEF Earlier
<1>7. ASSUME NEW x \in S, NEW y \in S, x \in preceding[y] PROVE preceding[x] \subseteq preceding[y]
  BY <1>1, <1>6, <1>7
<1>8. Precede(preceding, S)
  <2>1. \A x \in S : x \notin preceding[x]
    BY <1>1, <1>4
  <2>2. \A x, y \in S : x = y \/ x \in preceding[y] \/ y \in preceding[x]
    BY <1>1, <1>5
  <2> QED
    BY <1>2, <1>7, <2>1, <2>2 DEF Precede
<1> QED
  BY <1>8 DEF preceding

\* The facts and the rules have numbers that tell them apart.
Orderly(facts, rules) ==
  /\ IsFiniteSet(facts) /\ IsFiniteSet(rules)
  /\ \A f \in facts : f.id \in Int
  /\ \A f, g \in facts : f.id = g.id => f = g
  /\ \A r \in rules : r.id \in Int /\ r.confidence \in DOMAIN ConfidenceRank
  /\ \A r, s \in rules : r.id = s.id => r = s
Pairs(facts, rules, binding, S) ==
  \A c \in S : \E f \in facts, r \in rules :
    c = [fact |-> f, rule |-> r, binding |-> binding[r.id]]

\* Candidates are put in the order of their confidences, their rules and their facts.
LEMMA CandidatesAreListed ==
  ASSUME NEW facts, NEW rules, Orderly(facts, rules), NEW binding, NEW S, Pairs(facts, rules, binding, S)
  PROVE  Lists(InOrder(S, compareCandidates), S)
<1> DEFINE rank == [c \in S |-> ConfidenceRank[c.rule.confidence]]
           rid == [c \in S |-> c.rule.id]
           fid == [c \in S |-> c.fact.id]
           preceding == [x \in S |-> {y \in S : Earlier(rank, rid, fid, y, x)}]
           place == [x \in S |-> 1 + Cardinality(preceding[x])]
<1>1. ASSUME NEW c \in S
      PROVE  \E f \in facts, r \in rules :
               /\ c = [fact |-> f, rule |-> r, binding |-> binding[r.id]]
               /\ rank[c] = ConfidenceRank[r.confidence] /\ rid[c] = r.id /\ fid[c] = f.id
               /\ rank[c] \in Int /\ rid[c] \in Int /\ fid[c] \in Int
  <2>1. PICK f \in facts, r \in rules :
          c = [fact |-> f, rule |-> r, binding |-> binding[r.id]]
    BY DEF Pairs
  <2>2. rank[c] = ConfidenceRank[r.confidence] /\ rid[c] = r.id /\ fid[c] = f.id
    BY <2>1
  <2>3. r.id \in Int /\ f.id \in Int /\ r.confidence \in DOMAIN ConfidenceRank
    BY DEF Orderly
  <2>4. ConfidenceRank[r.confidence] \in Int
    BY <2>3 DEF ConfidenceRank
  <2> QED
    BY <2>1, <2>2, <2>3, <2>4
<1>2. \A x, y \in S : compareCandidates(y, x) <=> Earlier(rank, rid, fid, y, x)
  BY DEF compareCandidates, Earlier
<1>3. place = [x \in S |-> 1 + Cardinality({y \in S : compareCandidates(y, x)})]
  <2>1. \A x \in S : preceding[x] = {y \in S : compareCandidates(y, x)}
    <3> HIDE DEF rank, rid, fid
    <3>1. \A x \in S : preceding[x] = {y \in S : Earlier(rank, rid, fid, y, x)}
      OBVIOUS
    <3> HIDE DEF preceding
    <3> QED BY <1>2, <3>1
  <2> HIDE DEF preceding
  <2> QED BY <2>1
<1>4. rank \in [S -> Int] /\ rid \in [S -> Int] /\ fid \in [S -> Int]
  <2>1. \A c \in S : rank[c] \in Int /\ rid[c] \in Int /\ fid[c] \in Int
    BY <1>1
  <2>2. rank = [c \in S |-> rank[c]] /\ rid = [c \in S |-> rid[c]] /\ fid = [c \in S |-> fid[c]]
    OBVIOUS
  <2> HIDE DEF rank, rid, fid
  <2> QED BY <2>1, <2>2
<1> HIDE DEF rank, rid, fid
<1>5. ASSUME NEW x \in S, NEW y \in S, rank[x] = rank[y], rid[x] = rid[y], fid[x] = fid[y]
      PROVE  x = y
  <2>1. PICK f \in facts, r \in rules :
          x = [fact |-> f, rule |-> r, binding |-> binding[r.id]] /\ rid[x] = r.id /\ fid[x] = f.id
    BY <1>1
  <2>2. PICK g \in facts, s \in rules :
          y = [fact |-> g, rule |-> s, binding |-> binding[s.id]] /\ rid[y] = s.id /\ fid[y] = g.id
    BY <1>1
  <2>3. f = g /\ r = s
    BY <1>5, <2>1, <2>2 DEF Orderly
  <2> QED
    BY <2>1, <2>2, <2>3
<1>6. Keys(rank, rid, fid, S)
  BY <1>4, <1>5 DEF Keys
<1>7. Precede(preceding, S)
  BY <1>6, KeysPrecede
<1>8. IsFiniteSet(S)
  <2> DEFINE pair == [p \in facts \X rules |->
                        [fact |-> p[1], rule |-> p[2], binding |-> binding[p[2].id]]]
             from == {p \in facts \X rules : pair[p] \in S}
             g == [p \in from |-> pair[p]]
  <2>1. IsFiniteSet(from)
    <3>1. IsFiniteSet(facts \X rules)
      BY FS_Product DEF Orderly
    <3>2. from \in SUBSET (facts \X rules)
      OBVIOUS
    <3> HIDE DEF from
    <3> QED BY <3>1, <3>2, FS_Subset
  <2>2. \A c \in S : \E p \in from : g[p] = c
    <3> TAKE c \in S
    <3>1. PICK f \in facts, r \in rules :
            c = [fact |-> f, rule |-> r, binding |-> binding[r.id]]
      BY DEF Pairs
    <3>2. <<f, r>> \in facts \X rules /\ pair[<<f, r>>] = c
      BY <3>1
    <3> HIDE DEF pair
    <3> QED BY <3>2
  <2>3. g \in [from -> S]
    <3> HIDE DEF pair
    <3> QED OBVIOUS
  <2> HIDE DEF g, from
  <2>4. g \in Surjection(from, S)
    BY <2>2, <2>3 DEF Surjection
  <2> QED
    BY <2>1, <2>4, FS_Surjection
<1> HIDE DEF preceding, place
<1>9. place = [x \in S |-> 1 + Cardinality(preceding[x])]
  BY DEF place
<1>10. InOrder(S, compareCandidates) = ListOf(place, S)
  BY <1>3 DEF InOrder, ListOf
<1> QED
  BY <1>7, <1>8, <1>9, <1>10, OrderLists

\* Of any rules of a sequence there is one that none of them suppresses.
NoDescent(all) ==
  \A T \in SUBSET {all[i].rule.id : i \in DOMAIN all} : T # {} =>
    \E x \in T : \A i \in DOMAIN all : all[i].rule.id \in T => x \notin all[i].binding.suppresses
\* The traces of what was left out, and the rules some traces or evidence are of.
Omitted(told) == {t \in Range(told) : t.outcome = "omitted"}
Rules(told) == {t.rule : t \in told}
\* What a resolution says of the candidates it judged.
Settlement(made, all) ==
  /\ Rules(Range(made.traces)) = {all[i].rule.id : i \in DOMAIN all}
  /\ Rules(Omitted(made.traces)) =
       {all[i].rule.id : i \in {i \in DOMAIN all : all[i].code # "none"}}
  /\ \A id : id \in Rules(Range(made.evidence)) <=>
       /\ \E i \in DOMAIN all : all[i].rule.id = id /\ all[i].code = "none"
       /\ \A i \in DOMAIN all : all[i].code = "none" /\ id \in all[i].binding.suppresses =>
            all[i].rule.id \notin Rules(Range(made.evidence))

\* The evidence and the traces of a settlement, one by one.
LEMMA SettledParts ==
  ASSUME NEW doctrine, NEW facts, NEW all, NEW eligible, NEW sup, NEW free, NEW made,
         free = AtPlaces(eligible, {i \in DOMAIN eligible : sup[eligible[i].rule.id] = <<>>}),
         made = SettledWith(doctrine, facts, all, eligible, sup)
  PROVE  /\ DOMAIN made.traces = DOMAIN all
         /\ \A i \in DOMAIN all : made.traces[i] = OutcomeOf(all[i], sup)
         /\ DOMAIN made.evidence = DOMAIN free
         /\ \A i \in DOMAIN free : made.evidence[i] = toEvidence(free[i], doctrine)
<1>1. made.traces = [i \in DOMAIN all |-> OutcomeOf(all[i], sup)]
  BY DEF SettledWith
<1>2. made.evidence = [i \in DOMAIN free |-> toEvidence(free[i], doctrine)]
  BY DEF SettledWith
<1> QED
  BY <1>1, <1>2

\* What becomes of candidates that have been judged.
LEMMA SettledIs ==
  ASSUME NEW doctrine, NEW facts, NEW all, NEW n \in Nat, DOMAIN all = 1 .. n, NoDescent(all),
         NEW made, made = Settled(doctrine, facts, all)
  PROVE  Settlement(made, all)
<1> DEFINE valid == {i \in DOMAIN all : all[i].code = "none"}
           eligible == AtPlaces(all, valid)
           sup == selectedSuppressor(eligible)
           open == {i \in DOMAIN eligible : sup[eligible[i].rule.id] = <<>>}
           free == AtPlaces(eligible, open)
           rid == [i \in DOMAIN all |-> all[i].rule.id]
           supp == [i \in DOMAIN all |-> all[i].binding.suppresses]
<1>1. made = SettledWith(doctrine, facts, all, eligible, sup)
  BY DEF Settled, SettledFor
<1> HIDE DEF eligible, sup
<1>2. /\ DOMAIN made.traces = DOMAIN all
      /\ \A i \in DOMAIN all : made.traces[i] = OutcomeOf(all[i], sup)
      /\ DOMAIN made.evidence = DOMAIN free
      /\ \A i \in DOMAIN free : made.evidence[i] = toEvidence(free[i], doctrine)
  <2>1. free = AtPlaces(eligible, {i \in DOMAIN eligible : sup[eligible[i].rule.id] = <<>>})
    OBVIOUS
  <2> HIDE DEF free
  <2> QED BY <1>1, <2>1, SettledParts
<1> USE DEF eligible
<1>4. \A i \in DOMAIN all : rid[i] = all[i].rule.id /\ supp[i] = all[i].binding.suppresses
  OBVIOUS
<1>5. IsFiniteSet(DOMAIN all)
  BY FS_Interval
<1>6. /\ IsFiniteSet(valid) /\ valid \in SUBSET Nat /\ valid \subseteq DOMAIN all
      /\ \A i \in DOMAIN all : i \in valid <=> all[i].code = "none"
  BY <1>5, FS_Subset
<1> HIDE DEF valid, rid, supp
<1>7. /\ DOMAIN eligible = 1 .. Cardinality(valid) /\ Cardinality(valid) \in Nat
      /\ \A i \in valid : \E k \in DOMAIN eligible : eligible[k] = all[i]
      /\ \A k \in DOMAIN eligible : \E i \in valid : eligible[k] = all[i]
  BY <1>6, AtPlacesIs
<1>8. /\ IsFiniteSet(open) /\ open \in SUBSET Nat /\ open \subseteq DOMAIN eligible
  <2> HIDE DEF eligible
  <2>1. IsFiniteSet(DOMAIN eligible)
    BY <1>7, FS_Interval
  <2>2. open \in SUBSET DOMAIN eligible
    OBVIOUS
  <2>3. open \in SUBSET Nat
    BY <1>7, <2>2
  <2> HIDE DEF open
  <2> QED BY <2>1, <2>2, <2>3, FS_Subset
<1> HIDE DEF eligible
<1>9. \A k \in DOMAIN eligible : k \in open <=> sup[eligible[k].rule.id] = <<>>
  OBVIOUS
<1> HIDE DEF open
<1>10. /\ \A i \in open : \E k \in DOMAIN free : free[k] = eligible[i]
       /\ \A k \in DOMAIN free : \E i \in open : free[k] = eligible[i]
  BY <1>8, AtPlacesIs
<1> HIDE DEF free
<1> DEFINE evidence == Rules(Range(made.evidence))
<1>11. \A id : id \in evidence <=> \E k \in DOMAIN free : free[k].rule.id = id
  <2>1. DOMAIN made.evidence = DOMAIN free
    BY <1>2
  <2>2. \A k \in DOMAIN free : made.evidence[k].rule = free[k].rule.id
    <3> TAKE k \in DOMAIN free
    <3>1. made.evidence[k] = toEvidence(free[k], doctrine)
      BY <1>2
    <3> QED BY <3>1 DEF toEvidence
  <2> DEFINE e == made.evidence
  <2> HIDE DEF e
  <2> QED BY <2>1, <2>2 DEF Rules, Range, e
<1>12. \A id : id \in evidence <=> \E i \in valid : rid[i] = id /\ sup[id] = <<>>
  <2> HIDE DEF evidence
  <2> TAKE id
  <2>1. ASSUME id \in evidence PROVE \E i \in valid : rid[i] = id /\ sup[id] = <<>>
    <3>1. PICK k \in DOMAIN free : free[k].rule.id = id
      BY <1>11, <2>1
    <3>2. PICK j \in open : free[k] = eligible[j]
      BY <1>10
    <3>3. PICK i \in valid : eligible[j] = all[i]
      BY <1>7, <1>8
    <3> QED BY <1>4, <1>6, <1>8, <1>9, <3>1, <3>2, <3>3
  <2>2. ASSUME NEW i \in valid, rid[i] = id, sup[id] = <<>> PROVE id \in evidence
    <3>1. PICK j \in DOMAIN eligible : eligible[j] = all[i]
      BY <1>7
    <3>2. j \in open
      BY <1>4, <1>6, <1>9, <2>2, <3>1
    <3>3. PICK k \in DOMAIN free : free[k] = eligible[j]
      BY <1>10, <3>2
    <3> QED BY <1>4, <1>6, <1>11, <2>2, <3>1, <3>3
  <2> QED BY <2>1, <2>2
<1> DEFINE D == {c.rule.id : c \in Range(eligible)}
<1>13. \A id : id \in D <=> \E i \in valid : rid[i] = id
  <2>1. \A id : id \in D <=> \E k \in DOMAIN eligible : eligible[k].rule.id = id
    BY DEF Range
  <2> HIDE DEF D
  <2>2. \A id : (\E k \in DOMAIN eligible : eligible[k].rule.id = id) <=> \E i \in valid : rid[i] = id
    <3>1. /\ \A k \in DOMAIN eligible : \E i \in valid : eligible[k] = all[i] /\ rid[i] = all[i].rule.id
          /\ \A i \in valid : \E k \in DOMAIN eligible : eligible[k] = all[i] /\ rid[i] = all[i].rule.id
      BY <1>4, <1>6, <1>7
    <3> QED BY <3>1
  <2> QED BY <2>1, <2>2
<1>14. \A T \in SUBSET D : T # {} =>
         \E x \in T : \A k \in DOMAIN eligible :
           eligible[k].rule.id \in T => x \notin eligible[k].binding.suppresses
  <2> TAKE T \in SUBSET D
  <2> HAVE T # {}
  <2>1. T \in SUBSET {all[i].rule.id : i \in DOMAIN all}
    <3> HIDE DEF D
    <3> SUFFICES ASSUME NEW x \in T PROVE x \in {all[i].rule.id : i \in DOMAIN all}
      OBVIOUS
    <3>1. PICK i \in valid : rid[i] = x
      BY <1>13
    <3> QED BY <1>4, <1>6, <3>1
  <2>2. PICK x \in T : \A i \in DOMAIN all :
          all[i].rule.id \in T => x \notin all[i].binding.suppresses
    <3> HIDE DEF D
    <3> QED BY <2>1 DEF NoDescent
  <2>3. \A k \in DOMAIN eligible : \E i \in DOMAIN all : eligible[k] = all[i]
    BY <1>6, <1>7
  <2>4. \A k \in DOMAIN eligible :
          eligible[k].rule.id \in T => x \notin eligible[k].binding.suppresses
    <3> HIDE DEF D
    <3> TAKE k \in DOMAIN eligible
    <3>1. PICK i \in DOMAIN all : eligible[k] = all[i]
      BY <2>3
    <3> QED BY <2>2, <3>1
  <2> QED BY <2>4
<1>15. \A id \in D : sup[id] = <<>> <=>
         \A k \in DOMAIN eligible : id \in eligible[k].binding.suppresses =>
           sup[eligible[k].rule.id] # <<>>
  BY <1>14, SuppressorIsFree DEF sup
<1>16. \A id \in D : sup[id] = <<>> <=> \A i \in valid : id \in supp[i] => sup[rid[i]] # <<>>
  <2> HIDE DEF D
  <2> TAKE id \in D
  <2>0. /\ \A k \in DOMAIN eligible : \E i \in valid : eligible[k] = all[i] /\ supp[i] = all[i].binding.suppresses
                                                     /\ rid[i] = all[i].rule.id
        /\ \A i \in valid : \E k \in DOMAIN eligible : eligible[k] = all[i] /\ supp[i] = all[i].binding.suppresses
                                                     /\ rid[i] = all[i].rule.id
    <3>1. \A i \in valid : supp[i] = all[i].binding.suppresses /\ rid[i] = all[i].rule.id
      BY <1>4, <1>6
    <3> QED BY <1>7, <3>1
  <2>1. (\A k \in DOMAIN eligible : id \in eligible[k].binding.suppresses =>
           sup[eligible[k].rule.id] # <<>>)
        <=> \A i \in valid : id \in supp[i] => sup[rid[i]] # <<>>
    BY <2>0
  <2> QED BY <1>15, <2>1
<1>17. \A id : id \in evidence <=>
         /\ \E i \in DOMAIN all : all[i].rule.id = id /\ all[i].code = "none"
         /\ \A i \in DOMAIN all : all[i].code = "none" /\ id \in all[i].binding.suppresses =>
              all[i].rule.id \notin evidence
  <2> HIDE DEF D, evidence
  <2> TAKE id
  <2>1. \A i \in valid : rid[i] \in evidence <=> sup[rid[i]] = <<>>
    BY <1>12
  <2>2. id \in evidence <=> /\ \E i \in valid : rid[i] = id
                            /\ \A i \in valid : id \in supp[i] => rid[i] \notin evidence
    BY <1>12, <1>13, <1>16, <2>1
  <2> QED BY <1>4, <1>6, <2>2
<1>18. /\ Rules(Range(made.traces)) = {all[i].rule.id : i \in DOMAIN all}
       /\ Rules(Omitted(made.traces)) =
            {all[i].rule.id : i \in {i \in DOMAIN all : all[i].code # "none"}}
  <2> DEFINE t == made.traces
  <2>1. DOMAIN t = DOMAIN all
    BY <1>2
  <2>2. \A i \in DOMAIN all : t[i].rule = all[i].rule.id /\ (t[i].outcome = "omitted" <=> all[i].code # "none")
    <3> TAKE i \in DOMAIN all
    <3>1. t[i] = OutcomeOf(all[i], sup)
      BY <1>2
    <3> HIDE DEF t
    <3> QED BY <3>1 DEF OutcomeOf
  <2> HIDE DEF t
  <2>3. Rules(Range(t)) = {all[i].rule.id : i \in DOMAIN all}
    BY <2>1, <2>2 DEF Rules, Range
  <2>4. Rules(Omitted(t)) = {all[i].rule.id : i \in {i \in DOMAIN all : all[i].code # "none"}}
    BY <2>1, <2>2 DEF Rules, Range, Omitted
  <2> QED BY <2>3, <2>4 DEF t
<1> QED
  BY <1>17, <1>18 DEF Settlement

\* A rule of the locale that a fact fires, whether or not it is indexed.
Applies(r, f, locale) ==
  /\ r.profile = f.profile /\ r.metric = f.metric
  /\ r.locale = locale /\ evaluateTrigger(r.trigger, f)
\* What the registry is made from when it has parsed a release.
Settleable(doctrine, facts) ==
  /\ Orderly(facts, Range(doctrine.authored.rules))
  /\ \A f \in facts : f.metric # "none"
  /\ \A r \in Range(doctrine.authored.rules) :
       r.id \in IdSet(doctrine.authored.bindings) /\ DOMAIN r.trigger \subseteq Nat
  /\ doctrine.index = buildDoctrineIndex(doctrine.authored.rules)
  /\ IsFiniteSet(IdSet(doctrine.authored.bindings)) /\ ~SuppressionCycle(doctrine.authored)

\* A rule that applies to a fact is filed where the registry looks for the fact.
LEMMA AppliesIsIndexed ==
  ASSUME NEW rules, NEW r \in Range(rules), DOMAIN r.trigger \subseteq Nat,
         NEW f, f.metric # "none", NEW locale, Applies(r, f, locale)
  PROVE  r.id \in indexRuleIds(buildDoctrineIndex(rules), f)
<1> DEFINE filed == [profile |-> r.profile, metric |-> r.metric, root |-> IndexedRoot(r), id |-> r.id]
           asks == {i \in DOMAIN r.trigger : r.trigger[i].op = "eq" /\ r.trigger[i].path = "root"}
<1>1. IndexedRoot(r) \in {f.root, AnyRoot}
  <2>1. CASE asks = {}
    BY <2>1 DEF IndexedRoot
  <2>2. CASE asks # {}
    <3>1. asks \in SUBSET Nat
      OBVIOUS
    <3>2. Min(asks) \in asks
      <4>1. \E i \in asks : \A j \in asks : i <= j
        <5> HIDE DEF asks
        <5> QED BY <2>2, <3>1, LeastNatural
      <4> HIDE DEF asks
      <4> QED BY <4>1 DEF Min
    <3>3. IndexedRoot(r) = r.trigger[Min(asks)].value
      BY <2>2 DEF IndexedRoot
    <3> DEFINE c == r.trigger[Min(asks)]
    <3>4. c.op = "eq" /\ c.path = "root" /\ c \in Range(r.trigger)
      BY <3>2 DEF Range
    <3>5. evaluateCondition(c, f)
      BY <3>4 DEF Applies, evaluateTrigger
    <3> HIDE DEF c, asks
    <3>6. f[c.path] = c.value
      BY <3>4, <3>5 DEF evaluateCondition
    <3>7. f.root = c.value
      BY <3>4, <3>6
    <3> QED
      BY <3>3, <3>7 DEF c
  <2> QED
    BY <2>1, <2>2
<1>2. r.metric # "none" /\ r.profile = f.profile /\ r.metric = f.metric
  BY DEF Applies
<1>3. filed \in buildDoctrineIndex(rules)
  BY <1>2 DEF buildDoctrineIndex
<1>4. /\ filed.profile = f.profile /\ filed.metric = f.metric
      /\ filed.root \in {f.root, AnyRoot} /\ filed.id = r.id
  BY <1>1, <1>2
<1> HIDE DEF filed
<1> QED
  BY <1>3, <1>4 DEF indexRuleIds

\* Why a candidate is left out depends on its rule and its binding.
LEMMA CodeIsOfRule ==
  ASSUME NEW c, NEW d, c.rule = d.rule, c.binding = d.binding, NEW doctrine, NEW asOf
  PROVE  omissionCode(c, doctrine, asOf) = omissionCode(d, doctrine, asOf)
BY DEF omissionCode

\* The candidates that resolve() judges: each pair of a fact and a rule it fires, once.
CodeOf(r, doctrine, asOf) ==
  omissionCode([rule |-> r, binding |-> BindingOf(doctrine.authored, r.id)], doctrine, asOf)
Judgement(doctrine, facts, locale, asOf) == Judged(Candidates(doctrine, facts, locale), doctrine, asOf)
Fires(r, f, doctrine, locale) ==
  r.id \in indexRuleIds(doctrine.index, f) /\ r.locale = locale /\ evaluateTrigger(r.trigger, f)
IsJudgement(all, n, doctrine, facts, locale, asOf) ==
  /\ n \in Nat /\ DOMAIN all = 1 .. n
  /\ \A i \in 1 .. n : /\ all[i].fact \in facts /\ all[i].rule \in Range(doctrine.authored.rules)
                       /\ all[i].binding = BindingOf(doctrine.authored, all[i].rule.id)
                       /\ all[i].code = CodeOf(all[i].rule, doctrine, asOf)
  /\ \A i, j \in 1 .. n : all[i].fact = all[j].fact /\ all[i].rule = all[j].rule => i = j
  /\ \A f \in facts, r \in Range(doctrine.authored.rules) :
       Fires(r, f, doctrine, locale) => \E i \in 1 .. n : all[i].rule = r
  /\ NoDescent(all)

LEMMA JudgementIs ==
  ASSUME NEW doctrine, NEW facts, Settleable(doctrine, facts), NEW locale, NEW asOf
  PROVE  \E n : IsJudgement(Judgement(doctrine, facts, locale, asOf), n, doctrine, facts, locale, asOf)
<1> DEFINE authoredRules == Range(doctrine.authored.rules)
           fired(g) == {q \in authoredRules :
                          /\ q.id \in indexRuleIds(doctrine.index, g)
                          /\ q.locale = locale /\ evaluateTrigger(q.trigger, g)}
           S == UNION {{[fact |-> g, rule |-> q, binding |-> BindingOf(doctrine.authored, q.id)] :
                          q \in fired(g)} : g \in facts}
           binding == [id \in {q.id : q \in authoredRules} |-> BindingOf(doctrine.authored, id)]
           cands == InOrder(S, compareCandidates)
           n == Cardinality(S)
           all == Judged(cands, doctrine, asOf)
           code(c) == omissionCode(c, doctrine, asOf)
<1>1. /\ Orderly(facts, authoredRules)
      /\ \A q \in authoredRules : q.id \in IdSet(doctrine.authored.bindings)
  BY DEF Settleable
<1>2. \A q \in authoredRules : binding[q.id] = BindingOf(doctrine.authored, q.id)
  OBVIOUS
<1>3. \A c \in S : \E g \in facts, q \in authoredRules :
        c = [fact |-> g, rule |-> q, binding |-> BindingOf(doctrine.authored, q.id)]
  <2> HIDE DEF fired
  <2>1. \A g \in facts : fired(g) \subseteq authoredRules
    BY DEF fired
  <2> QED BY <2>1
<1>4. \A g \in facts, q \in authoredRules : Fires(q, g, doctrine, locale) =>
        [fact |-> g, rule |-> q, binding |-> BindingOf(doctrine.authored, q.id)] \in S
  <2>1. \A g \in facts, q \in authoredRules : Fires(q, g, doctrine, locale) => q \in fired(g)
    BY DEF Fires
  <2> HIDE DEF fired
  <2> QED BY <2>1
<1>5. Judgement(doctrine, facts, locale, asOf) = all
  BY DEF Judgement, Candidates
<1> HIDE DEF S, binding
<1>6. Lists(cands, S)
  <2>1. Pairs(facts, authoredRules, binding, S)
    BY <1>2, <1>3 DEF Pairs
  <2> HIDE DEF authoredRules
  <2> QED BY <1>1, <2>1, CandidatesAreListed
<1> HIDE DEF cands
<1>7. /\ n \in Nat /\ DOMAIN cands = 1 .. n
      /\ \A i \in 1 .. n : cands[i] \in S
      /\ \A c \in S : \E i \in 1 .. n : cands[i] = c
      /\ \A i, j \in 1 .. n : cands[i] = cands[j] => i = j
  BY <1>6 DEF Lists
<1> HIDE DEF n
<1>8. /\ DOMAIN all = 1 .. n
      /\ \A i \in 1 .. n : /\ all[i].fact = cands[i].fact /\ all[i].rule = cands[i].rule
                           /\ all[i].binding = cands[i].binding /\ all[i].code = code(cands[i])
  <2> HIDE DEF code
  <2>1. all = [i \in 1 .. n |-> [fact |-> cands[i].fact, rule |-> cands[i].rule,
                                 binding |-> cands[i].binding, code |-> code(cands[i])]]
    BY <1>7 DEF Judged, code
  <2> HIDE DEF all
  <2> QED BY <2>1
<1> HIDE DEF all
<1>9. ASSUME NEW i \in 1 .. n
      PROVE  /\ all[i].fact \in facts /\ all[i].rule \in authoredRules
             /\ all[i].binding = BindingOf(doctrine.authored, all[i].rule.id)
             /\ all[i].code = CodeOf(all[i].rule, doctrine, asOf)
             /\ cands[i] = [fact |-> all[i].fact, rule |-> all[i].rule,
                            binding |-> BindingOf(doctrine.authored, all[i].rule.id)]
  <2>1. PICK g \in facts, q \in authoredRules :
          cands[i] = [fact |-> g, rule |-> q, binding |-> BindingOf(doctrine.authored, q.id)]
    BY <1>3, <1>7
  <2>2. /\ cands[i].rule = q /\ cands[i].binding = BindingOf(doctrine.authored, q.id)
        /\ cands[i].fact = g
    BY <2>1
  <2> DEFINE c == cands[i]
             d == [rule |-> q, binding |-> BindingOf(doctrine.authored, q.id)]
  <2>3. c.rule = d.rule /\ c.binding = d.binding
    BY <2>2
  <2> HIDE DEF c, d
  <2>4. code(c) = code(d)
    BY <2>3, CodeIsOfRule
  <2> USE DEF c, d
  <2> HIDE DEF code
  <2>5. CodeOf(q, doctrine, asOf) = code(cands[i])
    BY <2>4 DEF CodeOf, code
  <2> QED BY <1>8, <2>1, <2>2, <2>5
<1> HIDE DEF code
<1>10. \A i, j \in 1 .. n : all[i].fact = all[j].fact /\ all[i].rule = all[j].rule => i = j
  <2> TAKE i, j \in 1 .. n
  <2> HAVE all[i].fact = all[j].fact /\ all[i].rule = all[j].rule
  <2>1. cands[i] = cands[j]
    BY <1>9
  <2> QED BY <1>7, <2>1
<1>11. \A f \in facts, r \in authoredRules :
         Fires(r, f, doctrine, locale) => \E i \in 1 .. n : all[i].rule = r
  <2> TAKE f \in facts, r \in authoredRules
  <2> HAVE Fires(r, f, doctrine, locale)
  <2>1. PICK i \in 1 .. n : cands[i] = [fact |-> f, rule |-> r, binding |-> BindingOf(doctrine.authored, r.id)]
    BY <1>4, <1>7
  <2> QED BY <1>8, <2>1
<1>12. NoDescent(all)
  <2> SUFFICES ASSUME NEW T \in SUBSET {all[i].rule.id : i \in DOMAIN all}, T # {}
               PROVE  \E x \in T : \A i \in DOMAIN all :
                        all[i].rule.id \in T => x \notin all[i].binding.suppresses
    BY DEF NoDescent
  <2>1. T \in SUBSET IdSet(doctrine.authored.bindings)
    BY <1>1, <1>8, <1>9
  <2>2. PICK x \in T : \A y \in T : x \notin BindingOf(doctrine.authored, y).suppresses
    BY <2>1, NoCycleNoDescent DEF Settleable
  <2> QED
    BY <1>8, <1>9, <2>2
<1>13. IsJudgement(all, n, doctrine, facts, locale, asOf)
  BY <1>7, <1>8, <1>9, <1>10, <1>11, <1>12 DEF IsJudgement
<1> QED
  BY <1>5, <1>13

\* What the registry resolves from a release settles its rules.
LEMMA ResolveSettles ==
  ASSUME NEW doctrine, NEW facts, Settleable(doctrine, facts), NEW locale, NEW asOf,
         NEW made, made = resolve(doctrine, facts, locale, asOf),
         NEW r \in Range(doctrine.authored.rules), NEW f \in facts, Applies(r, f, locale)
  PROVE  LET evidence == Rules(Range(made.evidence))
         IN /\ r.id \in Rules(Range(made.traces))
            /\ r.id \in evidence <=>
                 /\ r.id \notin Rules(Omitted(made.traces))
                 /\ \A s \in Range(doctrine.authored.rules) :
                      s.id \in evidence => r.id \notin BindingOf(doctrine.authored, s.id).suppresses
<1> DEFINE authoredRules == Range(doctrine.authored.rules)
           all == Judgement(doctrine, facts, locale, asOf)
           reason == [q \in authoredRules |-> CodeOf(q, doctrine, asOf)]
           evidence == Rules(Range(made.evidence))
<1>1. \A q, s \in authoredRules : q.id = s.id => q = s
  BY DEF Settleable, Orderly
<1>5. made = Settled(doctrine, facts, all)
  BY DEF resolve, Judgement
<1>6. PICK n : IsJudgement(all, n, doctrine, facts, locale, asOf)
  BY JudgementIs
<1> HIDE DEF all
<1>8. n \in Nat /\ DOMAIN all = 1 .. n /\ NoDescent(all)
  BY <1>6 DEF IsJudgement
<1>9. ASSUME NEW i \in 1 .. n
      PROVE  /\ all[i].rule \in authoredRules
             /\ all[i].binding = BindingOf(doctrine.authored, all[i].rule.id)
             /\ all[i].code = reason[all[i].rule]
  BY <1>6 DEF IsJudgement
<1> HIDE DEF reason
<1>11. /\ Rules(Range(made.traces)) = {all[i].rule.id : i \in DOMAIN all}
       /\ Rules(Omitted(made.traces)) =
            {all[i].rule.id : i \in {i \in DOMAIN all : all[i].code # "none"}}
       /\ \A id : id \in evidence <=>
            /\ \E i \in DOMAIN all : all[i].rule.id = id /\ all[i].code = "none"
            /\ \A i \in DOMAIN all : all[i].code = "none" /\ id \in all[i].binding.suppresses =>
                 all[i].rule.id \notin evidence
  <2>1. Settlement(made, all)
    <3> HIDE DEF evidence
    <3> QED BY <1>5, <1>8, SettledIs
  <2> QED BY <2>1 DEF Settlement
<1>12. PICK k \in 1 .. n : all[k].rule = r
  <2>1. r.id \in indexRuleIds(doctrine.index, f)
    BY AppliesIsIndexed DEF Settleable
  <2>2. Fires(r, f, doctrine, locale)
    BY <2>1 DEF Applies, Fires
  <2> QED BY <1>6, <2>2 DEF IsJudgement
<1> HIDE DEF evidence
<1> DEFINE supp == [q \in authoredRules |-> BindingOf(doctrine.authored, q.id).suppresses]
<1>13. \A q \in authoredRules : supp[q] = BindingOf(doctrine.authored, q.id).suppresses
  OBVIOUS
<1> HIDE DEF supp, authoredRules
<1>14. r \in authoredRules
  BY DEF authoredRules
<1>15. r.id \in Rules(Range(made.traces))
  BY <1>8, <1>11, <1>12
<1>16. \A i \in 1 .. n : all[i].rule.id = r.id => all[i].rule = r
  BY <1>1, <1>9, <1>14
<1>17. r.id \in Rules(Omitted(made.traces)) <=> reason[r] # "none"
  <2>1. r.id \in Rules(Omitted(made.traces)) <=> \E i \in 1 .. n : all[i].rule.id = r.id /\ all[i].code # "none"
    BY <1>8, <1>11
  <2> QED BY <1>9, <1>12, <1>16, <2>1
<1>18. (\E i \in DOMAIN all : all[i].rule.id = r.id /\ all[i].code = "none") <=> reason[r] = "none"
  BY <1>8, <1>9, <1>12, <1>16
<1>19. (\A i \in DOMAIN all : all[i].code = "none" /\ r.id \in all[i].binding.suppresses =>
          all[i].rule.id \notin evidence)
       <=> \A s \in authoredRules : s.id \in evidence => r.id \notin supp[s]
  <2>1. \A i \in 1 .. n : all[i].rule \in authoredRules /\ all[i].binding.suppresses = supp[all[i].rule]
    BY <1>9, <1>13
  <2>2. ASSUME NEW s \in authoredRules, s.id \in evidence
        PROVE  \E i \in 1 .. n : all[i].rule = s /\ all[i].code = "none"
    <3>1. PICK i \in 1 .. n : all[i].rule.id = s.id /\ all[i].code = "none"
      BY <1>8, <1>11, <2>2
    <3> QED BY <1>1, <1>9, <3>1
  <2>3. ASSUME \A i \in 1 .. n : all[i].code = "none" /\ r.id \in all[i].binding.suppresses =>
                 all[i].rule.id \notin evidence,
               NEW s \in authoredRules, s.id \in evidence
        PROVE  r.id \notin supp[s]
    <3>1. PICK i \in 1 .. n : all[i].rule = s /\ all[i].code = "none"
      BY <2>2, <2>3
    <3> QED BY <2>1, <2>3, <3>1
  <2>4. ASSUME \A s \in authoredRules : s.id \in evidence => r.id \notin supp[s],
               NEW i \in 1 .. n, all[i].code = "none", r.id \in all[i].binding.suppresses
        PROVE  all[i].rule.id \notin evidence
    BY <2>1, <2>4
  <2> QED BY <1>8, <2>3, <2>4
<1>20. r.id \in evidence <=> /\ r.id \notin Rules(Omitted(made.traces))
                             /\ \A s \in authoredRules : s.id \in evidence => r.id \notin supp[s]
  BY <1>11, <1>17, <1>18, <1>19
<1> QED
  BY <1>13, <1>15, <1>20 DEF authoredRules, evidence

\* Things of a finite sequence that numbers tell apart are sorted by them.
LEMMA ByIdIs ==
  ASSUME NEW S, IsFiniteSet(S), \A a \in S : a.id \in Int, \A a, b \in S : a.id = b.id => a = b,
         NEW things, Range(things) = S
  PROVE  Range(ById(things)) = S
<1> DEFINE id == [a \in S |-> a.id]
           preceding == [a \in S |-> {b \in S : id[b] < id[a]}]
           place == [a \in S |-> 1 + Cardinality(preceding[a])]
<1>1. \A a \in S : id[a] = a.id /\ id[a] \in Int
  OBVIOUS
<1>2. \A a, b \in S : id[a] = id[b] => a = b
  OBVIOUS
<1> HIDE DEF id
<1>3. \A a \in S : preceding[a] = {b \in S : id[b] < id[a]}
  OBVIOUS
<1>4. preceding \in [S -> SUBSET S]
  OBVIOUS
<1>5. \A a \in S : preceding[a] = {b \in S : b.id < a.id}
  BY <1>1, <1>3
<1> HIDE DEF preceding
<1>6. place = [a \in S |-> 1 + Cardinality({b \in S : b.id < a.id})]
  BY <1>5
<1>7. place = [a \in S |-> 1 + Cardinality(preceding[a])]
  OBVIOUS
<1> HIDE DEF place
<1>8. Precede(preceding, S)
  <2>1. \A x \in S : x \notin preceding[x]
    BY <1>1, <1>3
  <2>2. \A x, y \in S : x = y \/ x \in preceding[y] \/ y \in preceding[x]
    BY <1>1, <1>2, <1>3
  <2>3. ASSUME NEW x \in S, NEW y \in S, x \in preceding[y] PROVE preceding[x] \subseteq preceding[y]
    <3> SUFFICES ASSUME NEW z \in preceding[x] PROVE z \in preceding[y]
      OBVIOUS
    <3>1. z \in S /\ id[z] \in Int /\ id[x] \in Int /\ id[y] \in Int /\ id[z] < id[x] /\ id[x] < id[y]
      BY <1>1, <1>3, <2>3
    <3>2. id[z] < id[y]
      BY <3>1
    <3> QED BY <1>3, <3>1, <3>2
  <2> QED BY <1>4, <2>1, <2>2, <2>3 DEF Precede
<1>9. Lists(ListOf(place, S), S)
  BY <1>7, <1>8, OrderLists
<1>10. ById(things) = ListOf(place, S)
  BY <1>6 DEF ById, InOrder, ListOf
<1> DEFINE s == ListOf(place, S)
<1> HIDE DEF s
<1>11. Range(s) = S
  BY <1>9 DEF Lists, Range, s
<1> QED
  BY <1>10, <1>11 DEF s

\* The rules of a compiled release are the authored ones, in order and with their hashes.
LEMMA CompiledRules ==
  ASSUME NEW input \in Releases, Compiles(input)
  PROVE  LET rules == Range(normalizedForCompilation(input).rules)
         IN /\ IsFiniteSet(rules)
            /\ \A r \in rules : /\ r.id \in Int /\ r.confidence \in DOMAIN ConfidenceRank
                                /\ DOMAIN r.trigger \subseteq Nat
            /\ \A r, s \in rules : r.id = s.id => r = s
<1> DEFINE list == input.rules
           hashed == [i \in DOMAIN list |-> [list[i] EXCEPT !.hash = "right"]]
           S == Range(hashed)
<1>1. "rules" \in DOMAIN input /\ list \in Seq(Range(list))
  BY ReleasesAreParsed
<1>2. normalizedForCompilation(input).rules = ById(hashed)
  BY <1>1 DEF normalizedForCompilation
<1>3. Len(list) \in Nat /\ DOMAIN list = 1 .. Len(list)
  BY <1>1
<1>4. ASSUME NEW i \in DOMAIN list
      PROVE  /\ hashed[i].id = list[i].id /\ hashed[i].id \in Int
             /\ hashed[i].confidence \in DOMAIN ConfidenceRank
             /\ DOMAIN hashed[i].trigger \subseteq Nat
  <2> DEFINE q == list[i]
  <2>1. q \in Range(input.rules)
    BY DEF Range
  <2>2. /\ {"id", "trigger", "confidence", "hash"} \subseteq DOMAIN q
        /\ q.id \in Int /\ q.confidence \in DOMAIN ConfidenceRank
        /\ q.trigger \in Seq(Range(q.trigger))
    BY <2>1, ReleasesAreParsed
  <2>3. hashed[i] = [q EXCEPT !.hash = "right"]
    OBVIOUS
  <2> HIDE DEF q, hashed
  <2>4. hashed[i].id = q.id /\ hashed[i].confidence = q.confidence /\ hashed[i].trigger = q.trigger
    BY <2>2, <2>3
  <2>5. DOMAIN q.trigger \subseteq Nat
    BY <2>2
  <2> QED BY <2>2, <2>4, <2>5 DEF q
<1>5. \A i, j \in DOMAIN list : list[i].id = list[j].id => i = j
  <2>1. IsInjective(Ids(input.rules))
    BY DEF Compiles
  <2> QED BY <2>1 DEF IsInjective, Ids
<1>6. DOMAIN hashed = DOMAIN list
  OBVIOUS
<1> HIDE DEF hashed, list
<1>7. \A r \in S : \E i \in DOMAIN list : r = hashed[i]
  BY <1>6 DEF Range
<1>8. IsFiniteSet(S)
  <2>1. hashed \in Surjection(DOMAIN list, S)
    <3>1. hashed = [i \in DOMAIN list |-> hashed[i]]
      BY DEF hashed
    <3>2. \A i \in DOMAIN list : hashed[i] \in S
      BY <1>6 DEF Range
    <3>3. hashed \in [DOMAIN list -> S]
      <4> HIDE DEF S
      <4> QED BY <3>1, <3>2
    <3> HIDE DEF S
    <3> QED BY <1>7, <3>3 DEF Surjection
  <2>2. IsFiniteSet(DOMAIN list)
    BY <1>3, FS_Interval
  <2> QED BY <2>1, <2>2, FS_Surjection
<1>9. /\ \A r \in S : /\ r.id \in Int /\ r.confidence \in DOMAIN ConfidenceRank
                      /\ DOMAIN r.trigger \subseteq Nat
      /\ \A r, s \in S : r.id = s.id => r = s
  <2> HIDE DEF S
  <2> QED BY <1>4, <1>5, <1>7
<1>10. Range(ById(hashed)) = S
  BY <1>8, <1>9, ByIdIs
<1> QED
  BY <1>2, <1>8, <1>9, <1>10

\* A release that compiled, and is parsed again, can be resolved.
LEMMA CompiledSettles ==
  ASSUME NEW input \in Releases, Compiles(input),
         NEW doctrine, doctrine = compileDoctrine(input), Compiles(doctrine.authored)
  PROVE  Settleable(doctrine, Facts)
<1> DEFINE A == normalizedForCompilation(input)
           R == Range(A.rules)
<1>1. doctrine.authored = A /\ doctrine.index = buildDoctrineIndex(doctrine.authored.rules)
  BY DEF compileDoctrine, Indexed
<1>2. /\ IsFiniteSet(R)
      /\ \A r \in R : /\ r.id \in Int /\ r.confidence \in DOMAIN ConfidenceRank
                      /\ DOMAIN r.trigger \subseteq Nat
      /\ \A r, s \in R : r.id = s.id => r = s
  BY CompiledRules
<1> DEFINE ids == IdSet(A.bindings)
<1>3. IdSet(A.rules) = ids /\ ~SuppressionCycle(A)
  BY <1>1 DEF Compiles
<1> HIDE DEF A
<1>4. \A r \in R : r.id \in IdSet(A.rules)
  BY DEF IdSet, Ids, Range
<1>5. \A x \in IdSet(A.rules) : \E r \in R : r.id = x
  BY DEF IdSet, Ids, Range
<1> HIDE DEF R, ids
<1>6. IsFiniteSet(ids)
  <2> DEFINE g == [r \in R |-> r.id]
  <2>1. g \in [R -> ids] /\ \A x \in ids : \E r \in R : g[r] = x
    BY <1>3, <1>4, <1>5
  <2> HIDE DEF g
  <2> QED BY <1>2, <2>1, FS_Surjection DEF Surjection
<1>7. Orderly(Facts, R)
  BY <1>2, FactsAreABundle DEF Orderly
<1> QED
  BY <1>1, <1>2, <1>3, <1>4, <1>6, <1>7, FactsAreABundle DEF Settleable, R, ids

\* A sequence that has the numbers 1 .. m for its places, each element once, at the places of P.
Picks(at, m, P) ==
  /\ m \in Nat /\ at \in [1 .. m -> P]
  /\ \A k, l \in 1 .. m : at[k] = at[l] => k = l
  /\ \A i \in P : \E k \in 1 .. m : at[k] = i

\* What is at some places of a sequence is picked from it.
LEMMA AtPlacesPicks ==
  ASSUME NEW s, NEW P \in SUBSET Nat, IsFiniteSet(P)
  PROVE  \E m, at : Picks(at, m, P) /\ AtPlaces(s, P) = [k \in 1 .. m |-> s[at[k]]]
<1> DEFINE order == Ascending(P)
           m == Cardinality(P)
<1>1. Lists(order, P)
  BY NumbersInOrder
<1>2. AtPlaces(s, P) = [k \in DOMAIN order |-> s[order[k]]]
  BY DEF AtPlaces
<1> HIDE DEF order
<1>3. Picks(order, m, P) /\ DOMAIN order = 1 .. m
  BY <1>1 DEF Lists, Picks
<1> HIDE DEF m
<1>4. AtPlaces(s, P) = [k \in 1 .. m |-> s[order[k]]]
  BY <1>2, <1>3
<1> QED
  BY <1>3, <1>4, Zenon

\* The candidates that become evidence.
Taken(all, sup) == {i \in DOMAIN all : all[i].code = "none" /\ sup[all[i].rule.id] = <<>>}
\* Everything a settlement is made of, one by one.
SettledBy(made, doctrine, all, sup, at, m) ==
  /\ Picks(at, m, Taken(all, sup))
  /\ made.evidence = [k \in 1 .. m |-> toEvidence(all[at[k]], doctrine)]
  /\ made.traces = [i \in DOMAIN all |-> OutcomeOf(all[i], sup)]
  /\ \A s \in made.suppressions :
       \E i \in DOMAIN all, j \in Taken(all, sup) :
         /\ all[i].code = "none" /\ sup[all[i].rule.id] = <<all[j]>>
         /\ s = Suppression(all[i], all[j])

LEMMA SettlementParts ==
  ASSUME NEW doctrine, NEW facts, NEW all, NEW n \in Nat, DOMAIN all = 1 .. n, NoDescent(all),
         NEW made, made = Settled(doctrine, facts, all)
  PROVE  \E sup, at, m : SettledBy(made, doctrine, all, sup, at, m)
<1> DEFINE valid == {i \in DOMAIN all : all[i].code = "none"}
           eligible == AtPlaces(all, valid)
           sup == selectedSuppressor(eligible)
           open == {i \in DOMAIN eligible : sup[eligible[i].rule.id] = <<>>}
           free == AtPlaces(eligible, open)
           taken == Taken(all, sup)
<1>1. made = SettledWith(doctrine, facts, all, eligible, sup)
  BY DEF Settled, SettledFor
<1> HIDE DEF sup
<1>2. /\ made.traces = [i \in DOMAIN all |-> OutcomeOf(all[i], sup)]
      /\ made.evidence = [k \in DOMAIN free |-> toEvidence(free[k], doctrine)]
      /\ made.suppressions = {Suppression(c, sup[c.rule.id][1]) :
                                c \in {c \in Range(eligible) : sup[c.rule.id] # <<>>}}
  <2> HIDE DEF eligible
  <2> QED BY <1>1 DEF SettledWith
<1>3. \A i : i \in valid <=> i \in DOMAIN all /\ all[i].code = "none"
  OBVIOUS
<1>4. valid \in SUBSET Nat /\ IsFiniteSet(valid)
  BY FS_Interval, FS_Subset
<1> HIDE DEF valid
<1>5. PICK p, first : Picks(first, p, valid) /\ eligible = [k \in 1 .. p |-> all[first[k]]]
  BY <1>4, AtPlacesPicks
<1>6. sup = selectedSuppressor(eligible)
  BY DEF sup
<1> HIDE DEF eligible
<1>7. /\ p \in Nat /\ DOMAIN eligible = 1 .. p
      /\ \A k \in 1 .. p : first[k] \in valid /\ eligible[k] = all[first[k]]
      /\ \A k, l \in 1 .. p : first[k] = first[l] => k = l
      /\ \A i \in valid : \E k \in 1 .. p : first[k] = i
  BY <1>5 DEF Picks
<1>8. \A k : k \in open <=> k \in 1 .. p /\ sup[eligible[k].rule.id] = <<>>
  BY <1>7
<1>9. open \in SUBSET Nat /\ IsFiniteSet(open)
  BY <1>7, FS_Interval, FS_Subset
<1> HIDE DEF open
<1>10. PICK m, second : Picks(second, m, open) /\ free = [k \in 1 .. m |-> eligible[second[k]]]
  BY <1>9, AtPlacesPicks
<1> HIDE DEF free
<1>11. /\ m \in Nat /\ DOMAIN free = 1 .. m
       /\ \A k \in 1 .. m : second[k] \in open /\ free[k] = eligible[second[k]]
       /\ \A k, l \in 1 .. m : second[k] = second[l] => k = l
       /\ \A i \in open : \E k \in 1 .. m : second[k] = i
  BY <1>10 DEF Picks
<1>12. \A i : i \in taken <=> i \in valid /\ sup[all[i].rule.id] = <<>>
  BY <1>3 DEF Taken
<1> HIDE DEF taken
<1> DEFINE at == [k \in 1 .. m |-> first[second[k]]]
<1>13. \A k \in 1 .. m : at[k] = first[second[k]] /\ at[k] \in taken /\ free[k] = all[at[k]]
  <2> TAKE k \in 1 .. m
  <2>1. at[k] = first[second[k]]
    OBVIOUS
  <2> HIDE DEF at
  <2>2. second[k] \in 1 .. p /\ sup[eligible[second[k]].rule.id] = <<>>
    BY <1>8, <1>11
  <2>3. eligible[second[k]] = all[at[k]] /\ at[k] \in valid
    BY <1>7, <2>1, <2>2
  <2>4. free[k] = all[at[k]]
    BY <1>11, <2>3
  <2>5. at[k] \in taken
    BY <1>12, <2>2, <2>3
  <2> QED BY <2>1, <2>4, <2>5
<1>14. Picks(at, m, taken)
  <2>1. at \in [1 .. m -> taken]
    BY <1>13
  <2> HIDE DEF at
  <2>2. \A k, l \in 1 .. m : at[k] = at[l] => k = l
    <3> TAKE k, l \in 1 .. m
    <3> HAVE at[k] = at[l]
    <3>1. second[k] \in 1 .. p /\ second[l] \in 1 .. p
      BY <1>8, <1>11
    <3>2. first[second[k]] = first[second[l]]
      BY <1>13
    <3>3. second[k] = second[l]
      BY <1>7, <3>1, <3>2
    <3> QED BY <1>11, <3>3
  <2>3. ASSUME NEW i \in taken PROVE \E k \in 1 .. m : at[k] = i
    <3>1. PICK k \in 1 .. p : first[k] = i /\ eligible[k] = all[i]
      BY <1>7, <1>12
    <3>2. k \in open
      BY <1>8, <1>12, <3>1
    <3>3. PICK l \in 1 .. m : second[l] = k
      BY <1>11, <3>2
    <3> QED BY <1>13, <3>1, <3>3
  <2> QED
    BY <1>11, <2>1, <2>2, <2>3 DEF Picks
<1> HIDE DEF at
<1>15. made.evidence = [k \in 1 .. m |-> toEvidence(all[at[k]], doctrine)]
  <2>1. \A k \in 1 .. m : toEvidence(free[k], doctrine) = toEvidence(all[at[k]], doctrine)
    BY <1>13
  <2> QED BY <1>2, <1>11, <2>1
<1>16. ASSUME NEW s \in made.suppressions
       PROVE  \E i \in DOMAIN all, j \in taken :
                /\ all[i].code = "none" /\ sup[all[i].rule.id] = <<all[j]>>
                /\ s = Suppression(all[i], all[j])
  <2>1. PICK c \in Range(eligible) : sup[c.rule.id] # <<>> /\ s = Suppression(c, sup[c.rule.id][1])
    BY <1>2
  <2>2. PICK k \in 1 .. p : c = all[first[k]] /\ first[k] \in valid
    BY <1>7 DEF Range
  <2> DEFINE D == {d.rule.id : d \in Range(eligible)}
             giving == Suppressing(eligible, sup, c.rule.id)
  <2>0. \A l \in DOMAIN eligible : first[l] \in DOMAIN all /\ eligible[l] = all[first[l]]
    BY <1>3, <1>7
  <2>3. \A T \in SUBSET D : T # {} =>
          \E x \in T : \A l \in DOMAIN eligible :
            eligible[l].rule.id \in T => x \notin eligible[l].binding.suppresses
    <3> SUFFICES ASSUME NEW T \in SUBSET D, T # {}
                 PROVE  \E x \in T : \A l \in DOMAIN eligible :
                          eligible[l].rule.id \in T => x \notin eligible[l].binding.suppresses
      OBVIOUS
    <3>1. T \in SUBSET {all[i].rule.id : i \in DOMAIN all}
      <4> SUFFICES ASSUME NEW x \in T PROVE x \in {all[i].rule.id : i \in DOMAIN all}
        OBVIOUS
      <4>1. PICK l \in DOMAIN eligible : x = eligible[l].rule.id
        BY DEF Range
      <4> QED BY <2>0, <4>1
    <3>2. PICK x \in T : \A i \in DOMAIN all :
            all[i].rule.id \in T => x \notin all[i].binding.suppresses
      BY <3>1 DEF NoDescent
    <3> HIDE DEF D
    <3>3. \A l \in DOMAIN eligible : eligible[l].rule.id \in T => x \notin eligible[l].binding.suppresses
      BY <2>0, <3>2
    <3> QED BY <3>3
  <2>4. c.rule.id \in D
    OBVIOUS
  <2> HIDE DEF D
  <2>5. sup[c.rule.id] = IF giving = {} THEN <<>> ELSE <<eligible[Min(giving)]>>
    BY <1>6, <2>3, <2>4, SuppressorIs DEF D
  <2>6. giving # {} /\ giving \in SUBSET Nat
    <3>1. giving \in SUBSET DOMAIN eligible
      BY DEF Suppressing
    <3> HIDE DEF giving
    <3> QED BY <1>7, <2>1, <2>5, <3>1
  <2>7. Min(giving) \in giving
    <3>1. \E i \in giving : \A j \in giving : i <= j
      <4> HIDE DEF giving
      <4> QED BY <2>6, LeastNatural
    <3> HIDE DEF giving
    <3> QED BY <3>1 DEF Min
  <2> DEFINE l == Min(giving)
  <2>8. l \in 1 .. p /\ sup[eligible[l].rule.id] = <<>>
    BY <1>7, <2>7 DEF Suppressing
  <2> HIDE DEF l, giving
  <2>9. first[l] \in taken /\ eligible[l] = all[first[l]]
    BY <1>7, <1>12, <2>8
  <2>10. sup[c.rule.id] = <<all[first[l]]>>
    BY <2>5, <2>6, <2>9 DEF l
  <2> QED
    BY <1>3, <2>1, <2>2, <2>9, <2>10
<1>17. SettledBy(made, doctrine, all, sup, at, m)
  BY <1>2, <1>14, <1>15, <1>16 DEF SettledBy, taken
<1> QED
  BY <1>17

\* What a release is parsed and compiled for: its rules are bound to sections of a report.
Bound(doctrine) ==
  /\ Compiles(doctrine.authored)
  /\ \A b \in Range(doctrine.authored.bindings) : b.section \in Range(ReportSectionKeys)

\* A rule that is not omitted is complete.
LEMMA EvidenceIsComplete ==
  ASSUME NEW doctrine, Bound(doctrine), NEW r \in Range(doctrine.authored.rules), NEW asOf,
         NEW c, c.rule = r, c.binding = BindingOf(doctrine.authored, r.id),
         CodeOf(r, doctrine, asOf) = "none"
  PROVE  LET e == toEvidence(c, doctrine)
         IN /\ e.status = "active" /\ e.review = "approved"
            /\ e.claims # {} /\ e.sources # {} /\ e.section \in Range(ReportSectionKeys)
            /\ e.actions = {a.id : a \in e.resolvedActions}
<1> DEFINE b == BindingOf(doctrine.authored, r.id)
           e == toEvidence(c, doctrine)
           bindings == doctrine.authored.bindings
           actions == doctrine.authored.actions
<1>1. r.status = "active"
  BY DEF CodeOf, omissionCode
<1>2. r.review = "approved" /\ r.claims # {} /\ r.sources # {}
  <2>1. RuleCompiles(r, doctrine.authored)
    BY DEF Bound, Compiles
  <2> QED BY <1>1, <2>1 DEF RuleCompiles
<1>3. b \in Range(bindings)
  <2>1. r.id \in IdSet(bindings)
    <3>1. IdSet(doctrine.authored.rules) = IdSet(bindings)
      BY DEF Bound, Compiles
    <3>2. r.id \in IdSet(doctrine.authored.rules)
      BY DEF IdSet, Ids, Range
    <3> QED BY <3>1, <3>2
  <2>2. \E x \in Range(bindings) : x.id = r.id
    BY <2>1 DEF IdSet, Ids, Range
  <2> QED BY <2>2 DEF BindingOf
<1>4. b.actions \subseteq IdSet(actions)
  BY <1>3 DEF Bound, Compiles
<1>5. \A id \in IdSet(actions) : \E a \in Range(actions) : a.id = id
  BY DEF IdSet, Ids, Range
<1>6. /\ e.status = r.status /\ e.review = r.review /\ e.claims = r.claims /\ e.sources = r.sources
      /\ e.section = b.section /\ e.actions = b.actions
      /\ e.resolvedActions = {a \in Range(actions) : a.id \in b.actions}
  BY DEF toEvidence
<1> HIDE DEF b, e, bindings, actions
<1>7. e.actions = {a.id : a \in e.resolvedActions}
  BY <1>4, <1>5, <1>6
<1>8. e.section \in Range(ReportSectionKeys)
  BY <1>3, <1>6 DEF Bound, bindings
<1> QED
  BY <1>1, <1>2, <1>6, <1>7, <1>8 DEF e

\* What the registry resolves passes the boundary of the planner.
LEMMA ResolutionIsTaken ==
  ASSUME NEW doctrine, NEW facts, Settleable(doctrine, facts), Bound(doctrine),
         NEW locale, NEW asOf, NEW made, made = resolve(doctrine, facts, locale, asOf)
  PROVE  assertResolvedEvidenceBoundary(facts, made)
<1> DEFINE all == Judgement(doctrine, facts, locale, asOf)
<1>1. made = Settled(doctrine, facts, all)
  BY DEF resolve, Judgement
<1>2. PICK n : IsJudgement(all, n, doctrine, facts, locale, asOf)
  BY JudgementIs
<1> HIDE DEF all
<1>3. n \in Nat /\ DOMAIN all = 1 .. n /\ NoDescent(all)
  BY <1>2 DEF IsJudgement
<1>4. PICK sup, at, m : SettledBy(made, doctrine, all, sup, at, m)
  BY <1>1, <1>3, SettlementParts
<1> DEFINE taken == Taken(all, sup)
           evidence == made.evidence
           traces == made.traces
           key == [i \in 1 .. n |-> <<all[i].fact.id, all[i].rule.id>>]
           keys == {<<e.fact, e.rule>> : e \in Range(evidence)}
           selected == {<<t.fact, t.rule>> : t \in {t \in Range(traces) : t.outcome = "selected"}}
<1>5. /\ m \in Nat /\ at \in [1 .. m -> taken]
      /\ \A k, l \in 1 .. m : at[k] = at[l] => k = l
      /\ \A i \in taken : \E k \in 1 .. m : at[k] = i
  BY <1>4 DEF SettledBy, Picks
<1>6. \A i : i \in taken <=> i \in 1 .. n /\ all[i].code = "none" /\ sup[all[i].rule.id] = <<>>
  BY <1>3 DEF Taken
<1>7. /\ DOMAIN evidence = 1 .. m
      /\ \A k \in 1 .. m : evidence[k] = toEvidence(all[at[k]], doctrine)
      /\ DOMAIN traces = 1 .. n
      /\ \A i \in 1 .. n : traces[i] = OutcomeOf(all[i], sup)
  BY <1>3, <1>4 DEF SettledBy
<1>8. \A s \in made.suppressions : \E i \in 1 .. n, j \in taken :
        all[i].code = "none" /\ sup[all[i].rule.id] = <<all[j]>> /\ s = Suppression(all[i], all[j])
  <2>1. \A s \in made.suppressions : \E i \in DOMAIN all, j \in taken :
          /\ all[i].code = "none" /\ sup[all[i].rule.id] = <<all[j]>>
          /\ s = Suppression(all[i], all[j])
    BY <1>4, Zenon DEF SettledBy
  <2>2. DOMAIN all = 1 .. n
    BY <1>3
  <2> HIDE DEF taken
  <2> TAKE s \in made.suppressions
  <2>3. PICK i \in DOMAIN all, j \in taken :
          /\ all[i].code = "none" /\ sup[all[i].rule.id] = <<all[j]>>
          /\ s = Suppression(all[i], all[j])
    BY <2>1, Zenon
  <2>4. i \in 1 .. n
    BY <2>2
  <2> QED BY <2>3, <2>4, Zenon
<1> HIDE DEF taken, evidence, traces
<1>9. ASSUME NEW i \in 1 .. n
      PROVE  /\ all[i].fact \in facts /\ all[i].rule \in Range(doctrine.authored.rules)
             /\ all[i].binding = BindingOf(doctrine.authored, all[i].rule.id)
             /\ all[i].code = CodeOf(all[i].rule, doctrine, asOf)
  BY <1>2 DEF IsJudgement
<1>10. \A i, j \in 1 .. n : key[i] = key[j] => i = j
  <2> TAKE i, j \in 1 .. n
  <2> HAVE key[i] = key[j]
  <2>1. all[i].fact.id = all[j].fact.id /\ all[i].rule.id = all[j].rule.id
    OBVIOUS
  <2>2. all[i].fact = all[j].fact /\ all[i].rule = all[j].rule
    BY <1>9, <2>1 DEF Settleable, Orderly
  <2> QED BY <1>2, <2>2 DEF IsJudgement
<1>11. \A i \in 1 .. n : key[i] = <<all[i].fact.id, all[i].rule.id>>
  OBVIOUS
<1> HIDE DEF key
<1>12. ASSUME NEW k \in 1 .. m
       PROVE  LET e == evidence[k]
              IN /\ at[k] \in 1 .. n /\ <<e.fact, e.rule>> = key[at[k]]
                 /\ \E f \in facts : /\ f.id = e.fact /\ f.profile = e.profile
                                     /\ f.metric = e.metric /\ f.traces = e.traces
                 /\ e.status = "active" /\ e.review = "approved"
                 /\ e.claims # {} /\ e.sources # {} /\ e.section \in Range(ReportSectionKeys)
                 /\ e.actions = {a.id : a \in e.resolvedActions}
  <2> DEFINE c == all[at[k]]
             e == toEvidence(c, doctrine)
  <2>1. at[k] \in 1 .. n /\ c.code = "none"
    BY <1>5, <1>6
  <2>2. /\ c.fact \in facts /\ c.rule \in Range(doctrine.authored.rules)
        /\ c.binding = BindingOf(doctrine.authored, c.rule.id)
        /\ CodeOf(c.rule, doctrine, asOf) = "none"
    BY <1>9, <2>1
  <2>3. key[at[k]] = <<c.fact.id, c.rule.id>>
    BY <1>11, <2>1
  <2> HIDE DEF c
  <2>4. /\ e.fact = c.fact.id /\ e.profile = c.fact.profile /\ e.metric = c.fact.metric
        /\ e.traces = c.fact.traces /\ e.rule = c.rule.id
    BY DEF toEvidence
  <2>5. /\ e.status = "active" /\ e.review = "approved"
        /\ e.claims # {} /\ e.sources # {} /\ e.section \in Range(ReportSectionKeys)
        /\ e.actions = {a.id : a \in e.resolvedActions}
    BY <2>2, EvidenceIsComplete
  <2>6. evidence[k] = e
    BY <1>7 DEF c
  <2> HIDE DEF e
  <2> QED
    BY <2>1, <2>2, <2>3, <2>4, <2>5, <2>6
<1>13. keys = {key[i] : i \in taken}
  <2>1. keys = {<<evidence[k].fact, evidence[k].rule>> : k \in 1 .. m}
    BY <1>7 DEF Range
  <2>2. \A k \in 1 .. m : <<evidence[k].fact, evidence[k].rule>> = key[at[k]]
    BY <1>12
  <2> HIDE DEF keys
  <2>3. \A x : x \in keys <=> \E k \in 1 .. m : x = key[at[k]]
    BY <2>1, <2>2
  <2>4. \A x \in keys : \E i \in taken : x = key[i]
    BY <1>5, <2>3
  <2>5. \A i \in taken : key[i] \in keys
    BY <1>5, <2>3
  <2> QED BY <2>4, <2>5
<1>14. selected = {key[i] : i \in taken}
  <2>1. ASSUME NEW i \in 1 .. n
        PROVE  /\ traces[i].fact = all[i].fact.id /\ traces[i].rule = all[i].rule.id
               /\ <<traces[i].fact, traces[i].rule>> = key[i]
               /\ traces[i].outcome = "selected" <=> i \in taken
    BY <1>6, <1>7, <1>11 DEF OutcomeOf
  <2>2. selected = {<<traces[i].fact, traces[i].rule>> : i \in {i \in 1 .. n : traces[i].outcome = "selected"}}
    BY <1>7 DEF Range
  <2> HIDE DEF selected
  <2>3. \A x : x \in selected => \E i \in taken : x = key[i]
    BY <2>1, <2>2
  <2>4. \A i \in taken : key[i] \in selected
    BY <1>6, <2>1, <2>2
  <2> QED BY <2>3, <2>4
<1> HIDE DEF keys, selected
<1>15. Cardinality(keys) = Len(evidence)
  <2> DEFINE g == [k \in 1 .. m |-> key[at[k]]]
  <2>1. g \in [1 .. m -> keys] /\ \A k \in 1 .. m : g[k] = key[at[k]]
    BY <1>5, <1>13
  <2> HIDE DEF g
  <2>2. \A k, l \in 1 .. m : g[k] = g[l] => k = l
    BY <1>5, <1>10, <1>12, <2>1
  <2>3. \A x \in keys : \E k \in 1 .. m : g[k] = x
    BY <1>5, <1>13, <2>1
  <2>4. g \in Bijection(1 .. m, keys)
    BY <2>1, <2>2, <2>3 DEF Bijection, Injection, Surjection, IsInjective
  <2>5. Cardinality(keys) = m
    BY <1>5, <2>4, FS_CountingElements DEF ExistsBijection
  <2>6. Len(evidence) = m
    BY <1>5, <1>7
  <2> QED BY <2>5, <2>6
<1>16. ASSUME NEW s \in made.suppressions
       PROVE  /\ <<s.fact, s.rule>> \notin keys
              /\ <<s.byFact, s.byRule>> \in keys
              /\ \E t \in Range(traces) :
                   t.fact = s.fact /\ t.rule = s.rule /\ t.outcome = "suppressed" /\ t.by = s.byRule
  <2>1. PICK i \in 1 .. n, j \in taken :
          all[i].code = "none" /\ sup[all[i].rule.id] = <<all[j]>> /\ s = Suppression(all[i], all[j])
    BY <1>8
  <2>2. /\ s.fact = all[i].fact.id /\ s.rule = all[i].rule.id
        /\ s.byFact = all[j].fact.id /\ s.byRule = all[j].rule.id
    BY <2>1 DEF Suppression
  <2>3. sup[all[i].rule.id] # <<>> /\ sup[all[i].rule.id][1] = all[j]
    BY <2>1
  <2>4. i \notin taken
    BY <1>6, <2>3
  <2>5. <<s.fact, s.rule>> = key[i] /\ <<s.byFact, s.byRule>> = key[j]
    BY <1>6, <1>11, <2>2
  <2>6. key[i] \notin keys
    BY <1>6, <1>10, <1>13, <2>4
  <2>7. key[j] \in keys
    BY <1>13
  <2> DEFINE t == traces[i]
  <2>8. t.fact = s.fact /\ t.rule = s.rule /\ t.outcome = "suppressed" /\ t.by = s.byRule
    <3>1. t = OutcomeOf(all[i], sup)
      BY <1>7
    <3> HIDE DEF t
    <3>2. all[i].code = "none" /\ sup[all[i].rule.id][1].rule.id = all[j].rule.id
      BY <2>1, <2>3
    <3> QED BY <2>2, <2>3, <3>1, <3>2 DEF OutcomeOf
  <2>9. t \in Range(traces)
    BY <1>7 DEF Range
  <2> HIDE DEF t
  <2> QED BY <2>5, <2>6, <2>7, <2>8, <2>9
<1>17. \A e \in Range(evidence) :
          /\ \E f \in facts : /\ f.id = e.fact /\ f.profile = e.profile
                              /\ f.metric = e.metric /\ f.traces = e.traces
          /\ e.status = "active" /\ e.review = "approved"
          /\ e.claims # {} /\ e.sources # {} /\ e.section \in Range(ReportSectionKeys)
          /\ e.actions = {a.id : a \in e.resolvedActions}
  <2> TAKE e \in Range(evidence)
  <2>1. PICK k \in 1 .. m : e = evidence[k]
    BY <1>7 DEF Range
  <2> QED BY <1>12, <2>1
<1> QED
  BY <1>13, <1>14, <1>15, <1>16, <1>17
     DEF assertResolvedEvidenceBoundary, keys, selected, evidence, traces

-----------------------------------------------------------------------------
(* The writer and the verifier: what the writer makes of a plan, the gates   *)
(* of the verifier find in the plan, the facts and the evidence.             *)

\* The facts of a calculation.
IsBundle(facts) ==
  /\ IsFiniteSet(facts) /\ \A f \in facts : f.id \in Int
  /\ \A f, g \in facts : f.id = g.id => f = g

\* A finite set of integers has a least one.
LEMMA MinIsIn ==
  ASSUME NEW S \in SUBSET Int, IsFiniteSet(S), S # {}
  PROVE  Min(S) \in S
<1> DEFINE below == [x \in S |-> {y \in S : y < x}]
<1>1. \A x \in S : below[x] \in SUBSET S /\ below[x] = {y \in S : y < x}
  OBVIOUS
<1> HIDE DEF below
<1> DEFINE rank == [x \in S |-> Cardinality(below[x])]
<1>2. \A x \in S : rank[x] = Cardinality(below[x]) /\ rank[x] \in Nat
  BY <1>1, FS_Subset, FS_CardinalityType
<1> HIDE DEF rank
<1> DEFINE ranks == {rank[x] : x \in S}
<1>3. ranks \in SUBSET Nat /\ ranks # {}
  BY <1>2
<1>4. PICK n \in ranks : \A m \in ranks : n <= m
  BY <1>3, LeastNatural
<1>5. PICK x \in S : rank[x] = n
  OBVIOUS
<1>6. ASSUME NEW y \in S, y < x PROVE FALSE
  <2>1. below[y] \in SUBSET below[x] /\ y \in below[x] /\ y \notin below[y]
    <3>1. \A z \in below[y] : z \in S /\ z \in Int /\ z < y
      BY <1>1
    <3>2. x \in Int /\ y \in Int
      OBVIOUS
    <3>3. \A z \in below[y] : z \in S /\ z < x
      BY <1>6, <3>1, <3>2
    <3>4. y \in below[x] /\ ~(y < y)
      BY <1>1, <1>6, <3>2
    <3>5. y \notin below[y]
      BY <1>1, <3>4
    <3> QED BY <1>1, <3>3, <3>4, <3>5
  <2>2. below[y] # below[x]
    BY <2>1
  <2>3. IsFiniteSet(below[x])
    BY <1>1, FS_Subset
  <2>4. rank[y] <= rank[x] /\ rank[y] # rank[x]
    BY <1>2, <2>1, <2>2, <2>3, FS_Subset
  <2>5. n <= rank[y]
    BY <1>4
  <2> QED BY <1>2, <1>5, <2>4, <2>5
<1>7. \A y \in S : x <= y
  BY <1>6
<1> QED
  BY <1>7 DEF Min

\* A claim that rests on evidence: all it names is that of some pieces of evidence.
RestsOn(c, support) ==
  /\ c.rules = {e.rule : e \in support} /\ c.facts = {e.fact : e \in support}
  /\ c.traces = UNION {e.traces : e \in support}
  /\ c.profiles = {e.profile : e \in support}
  /\ c.sources = UNION {e.sources : e \in support}
  /\ c.relationship = "contradiction" => ~c.text.tail

LEMMA ClaimRests ==
  ASSUME NEW evidence, NEW facts, NEW c \in claimCandidates(evidence, facts)
  PROVE  \E support \in SUBSET Range(evidence) : RestsOn(c, support)
<1>1. PICK e \in Range(evidence) :
        /\ c.rules = {e.rule} /\ c.facts = {e.fact} /\ c.traces = e.traces
        /\ c.profiles = {e.profile} /\ c.sources = e.sources
        /\ c.relationship = "unique_signal"
  BY DEF claimCandidates
<1>2. RestsOn(c, {e})
  BY <1>1 DEF RestsOn
<1> QED
  BY <1>2

LEMMA ContradictionRests ==
  ASSUME NEW evidence, NEW warnings, NEW c \in contradictionCandidates(warnings, evidence)
  PROVE  \E support \in SUBSET Range(evidence) : RestsOn(c, support)
<1> DEFINE of(profile) == {e \in Range(evidence) : e.profile = profile}
<1>1. PICK w \in Range(warnings) :
        LET support == of(w.a) \cup of(w.b)
        IN
        /\ c.rules = {e.rule : e \in support} /\ c.facts = {e.fact : e \in support}
        /\ c.traces = UNION {e.traces : e \in support}
        /\ c.profiles = {e.profile : e \in support}
        /\ c.sources = UNION {e.sources : e \in support}
        /\ ~c.text.tail
  BY DEF contradictionCandidates
<1>2. of(w.a) \cup of(w.b) \in SUBSET Range(evidence)
  OBVIOUS
<1>3. RestsOn(c, of(w.a) \cup of(w.b))
  BY <1>1 DEF RestsOn
<1> QED
  BY <1>2, <1>3

\* What the verifier asks of a planned claim.
Founded(c, facts, evidence) ==
  /\ c.facts \subseteq {f.id : f \in facts} /\ c.traces \subseteq UNION {f.traces : f \in facts}
  /\ \A rule \in c.rules : \E e \in Range(evidence) :
       /\ e.rule = rule /\ e.fact \in c.facts /\ e.sources \cap c.sources # {}
       /\ e.status = "active" /\ e.review = "approved"
  /\ {f.profile : f \in {f \in facts : f.id \in c.facts}} = c.profiles
  /\ c.relationship = "contradiction" => ~c.text.tail

\* Evidence that passed the boundary founds the claims that rest on it.
LEMMA SupportFounds ==
  ASSUME NEW facts, IsBundle(facts), NEW resolved, assertResolvedEvidenceBoundary(facts, resolved),
         NEW support \in SUBSET Range(resolved.evidence), NEW c, RestsOn(c, support)
  PROVE  Founded(c, facts, resolved.evidence)
<1>1. \A e \in Range(resolved.evidence) :
        /\ \E f \in facts : f.id = e.fact /\ f.profile = e.profile /\ f.traces = e.traces
        /\ e.status = "active" /\ e.review = "approved" /\ e.sources # {}
  BY DEF assertResolvedEvidenceBoundary
<1>2. c.facts \subseteq {f.id : f \in facts}
  BY <1>1 DEF RestsOn
<1>3. c.traces \subseteq UNION {f.traces : f \in facts}
  BY <1>1 DEF RestsOn
<1>4. ASSUME NEW rule \in c.rules
      PROVE  \E e \in Range(resolved.evidence) :
               /\ e.rule = rule /\ e.fact \in c.facts /\ e.sources \cap c.sources # {}
               /\ e.status = "active" /\ e.review = "approved"
  <2>1. PICK e \in support : e.rule = rule
    BY DEF RestsOn
  <2>2. e.fact \in c.facts /\ e.sources \subseteq c.sources
    BY DEF RestsOn
  <2> QED BY <1>1, <2>1, <2>2
<1>5. {f.profile : f \in {f \in facts : f.id \in c.facts}} = c.profiles
  <2>1. ASSUME NEW f \in facts, f.id \in c.facts PROVE f.profile \in c.profiles
    <3>1. PICK e \in support : e.fact = f.id
      BY <2>1 DEF RestsOn
    <3>2. f.profile = e.profile
      BY <1>1, <3>1 DEF IsBundle
    <3> QED BY <3>2 DEF RestsOn
  <2>2. ASSUME NEW p \in c.profiles PROVE \E f \in facts : f.id \in c.facts /\ f.profile = p
    <3>1. PICK e \in support : e.profile = p /\ e.fact \in c.facts
      BY DEF RestsOn
    <3> QED BY <1>1, <3>1
  <2> QED BY <2>1, <2>2
<1>6. c.relationship = "contradiction" => ~c.text.tail
  BY DEF RestsOn
<1> QED
  BY <1>2, <1>3, <1>4, <1>5, <1>6 DEF Founded

\* A plan the gates can be asked about: its claims have evidence and differ in their
\* identifiers, and its sections are those of its claims.
Accountable(plan, facts, evidence) ==
  /\ \A c, d \in Range(plan.claims) : c.id = d.id => c = d
  /\ \A c \in Range(plan.claims) : Founded(c, facts, evidence)
  /\ plan.sections = buildSections(plan.claims, facts)

\* The claims of a plan that its own check accepts differ in their identifiers.
LEMMA ClaimsDiffer ==
  ASSUME NEW n \in Nat, NEW claims, DOMAIN claims = 1 .. n, Len(claims) = n,
         ~(Cardinality({c.id : c \in Range(claims)}) < Len(claims))
  PROVE  \A c, d \in Range(claims) : c.id = d.id => c = d
<1> DEFINE ids == {c.id : c \in Range(claims)}
           g == [i \in 1 .. n |-> claims[i].id]
<1>1. g \in [1 .. n -> ids] /\ \A i \in 1 .. n : g[i] = claims[i].id
  BY DEF Range
<1>2. \A x \in ids : \E i \in 1 .. n : g[i] = x
  BY DEF Range
<1> HIDE DEF g, ids
<1>3. g \in Surjection(1 .. n, ids)
  BY <1>1, <1>2 DEF Surjection
<1>4. IsFiniteSet(1 .. n) /\ Cardinality(1 .. n) = n
  BY FS_Interval
<1>5. Cardinality(ids) <= n /\ IsFiniteSet(ids)
  BY <1>3, <1>4, FS_Surjection
<1>6. Cardinality(ids) \in Nat /\ ~(Cardinality(ids) < n)
  BY <1>5, FS_CardinalityType DEF ids
<1>7. Cardinality(ids) = n
  BY <1>5, <1>6
<1>8. g \in Injection(1 .. n, ids)
  BY <1>3, <1>4, <1>7, FS_Surjection
<1>9. \A i, j \in 1 .. n : claims[i].id = claims[j].id => i = j
  BY <1>1, <1>8 DEF Injection, IsInjective
<1> QED
  BY <1>9 DEF Range

\* What the verifier asks of a block.
Fits(b, section, facts, actions) ==
  /\ b.facts \subseteq section.facts /\ b.facts \subseteq UNION {s.facts : s \in b.sentences}
  /\ b.type = "comparison" =>
       \E f, g \in facts : f.id \in b.facts /\ g.id \in b.facts /\ f.profile # g.profile
  /\ \A s \in b.sentences :
       /\ s.kind # "claim"
       /\ s.kind = "action" =>
            \E a \in Range(actions) : \E i \in a.instructions : s.text = <<i.id, a.id>>

\* A fact is found by its identifier.
LEMMA FactIsFound ==
  ASSUME NEW facts, NEW id \in {f.id : f \in facts}
  PROVE  FactById(facts, id) \in facts /\ FactById(facts, id).id = id
BY DEF FactById

\* A comparison is of two facts of different profiles.
LEMMA ComparisonFits ==
  ASSUME NEW facts, IsBundle(facts), NEW section, section.facts \subseteq {f.id : f \in facts},
         IsFiniteSet(section.facts), NEW actions, NEW lead,
         NEW b \in comparisonBlock(section.facts, facts, lead)
  PROVE  Fits(b, section, facts, actions)
<1> DEFINE reserved == section.facts
           left == Min(reserved)
           others == {id \in reserved : FactById(facts, id).profile # FactById(facts, left).profile}
           pair == {left, Min(others)}
<1>1. reserved # {} /\ others # {} /\ b = Block("comparison", pair, {Own("editorial", pair, lead)})
  BY DEF comparisonBlock
<1>2. reserved \in SUBSET Int
  BY DEF IsBundle
<1>3. left \in reserved
  BY <1>1, <1>2, MinIsIn
<1> DEFINE right == Min(others)
<1>4. right \in others
  <2>1. others \in SUBSET Int /\ IsFiniteSet(others)
    BY <1>2, FS_Subset
  <2> HIDE DEF others
  <2> QED BY <1>1, <2>1, MinIsIn
<1>5. /\ FactById(facts, left) \in facts /\ FactById(facts, left).id = left
      /\ FactById(facts, right) \in facts /\ FactById(facts, right).id = right
      /\ FactById(facts, left).profile # FactById(facts, right).profile
      /\ right \in reserved
  <2>1. right \in reserved /\ FactById(facts, left).profile # FactById(facts, right).profile
    BY <1>4
  <2> HIDE DEF left, right
  <2> QED BY <1>3, <2>1, FactIsFound
<1>6. /\ b.type = "comparison" /\ b.facts = {left, right}
      /\ b.sentences = {Own("editorial", {left, right}, lead)}
  BY <1>1 DEF Block
<1> HIDE DEF left, right, others, reserved
<1>7. Own("editorial", {left, right}, lead).kind = "editorial" /\ Own("editorial", {left, right}, lead).facts = {left, right}
  BY DEF Own, Sentence
<1> HIDE DEF Own
<1> QED
  BY <1>3, <1>5, <1>6, <1>7 DEF Fits, reserved

\* So do the other blocks a section has besides its claims.
LEMMA SpecialFits ==
  ASSUME NEW facts, IsBundle(facts), NEW section, section.facts \subseteq {f.id : f \in facts},
         IsFiniteSet(section.facts), NEW claims, NEW sources, NEW actions, NEW key,
         NEW b \in specialBlocks(key, section, claims, facts, sources, actions)
  PROVE  Fits(b, section, facts, actions)
<1>0. section.facts \in SUBSET Int
  BY DEF IsBundle
<1>1. ASSUME NEW lead, b \in comparisonBlock(section.facts, facts, lead)
      PROVE  Fits(b, section, facts, actions)
  BY <1>1, ComparisonFits
<1>2. ASSUME NEW kind \in {"safety", "method"}, NEW type \in {"prose", "source_note"}, NEW cited,
             b = Block(type, {}, {Own(kind, {}, cited)})
      PROVE  Fits(b, section, facts, actions)
  BY <1>2 DEF Fits, Block, Own, Sentence
<1>3. ASSUME NEW type \in {"number_card", "lo_shu"}, NEW ids \in SUBSET section.facts, ids # {},
             NEW cited, b = Block(type, {Min(ids)}, {Own("editorial", {Min(ids)}, cited)})
      PROVE  Fits(b, section, facts, actions)
  <2>1. Min(ids) \in ids
    BY <1>0, <1>3, FS_Subset, MinIsIn
  <2> DEFINE least == Min(ids)
  <2>2. b = Block(type, {least}, {Own("editorial", {least}, cited)}) /\ least \in section.facts
    BY <1>3, <2>1
  <2> HIDE DEF least
  <2> QED BY <1>3, <2>2 DEF Fits, Block, Own, Sentence
<1>4. ASSUME NEW lead,
             b = Block("timeline", section.facts, {Own("editorial", {f}, lead) : f \in section.facts})
      PROVE  Fits(b, section, facts, actions)
  <2>1. /\ b.type = "timeline" /\ b.facts = section.facts
        /\ b.sentences = {Own("editorial", {f}, lead) : f \in section.facts}
    BY <1>4 DEF Block
  <2>2. \A f : Own("editorial", {f}, lead).facts = {f} /\ Own("editorial", {f}, lead).kind = "editorial"
    BY DEF Own, Sentence
  <2> HIDE DEF Own
  <2>3. ASSUME NEW f \in b.facts PROVE \E s \in b.sentences : f \in s.facts
    <3>1. Own("editorial", {f}, lead) \in b.sentences
      BY <2>1
    <3>2. f \in Own("editorial", {f}, lead).facts
      BY <2>2
    <3> QED BY <3>1, <3>2
  <2>4. \A s \in b.sentences : s.kind = "editorial"
    BY <2>1, <2>2
  <2> QED BY <2>1, <2>3, <2>4 DEF Fits
<1> DEFINE supported(a) == FirstOf({c \in claims : c.id \in a.claims})
           instruction(a, i) == Sentence("action", <<i.id, a.id>>, IsWhole(i), supported(a).id,
                                         supported(a).facts, a.rules, a.sources)
           told == UNION {{instruction(a, i) : i \in a.instructions} : a \in Range(actions)}
<1>5. ASSUME b = Block("prose", {}, {Own("safety", {}, Nothing)} \cup told)
      PROVE  Fits(b, section, facts, actions)
  <2>1. b.type = "prose" /\ b.facts = {} /\ b.sentences = {Own("safety", {}, Nothing)} \cup told
    BY <1>5 DEF Block
  <2>2. Own("safety", {}, Nothing).kind = "safety"
    BY DEF Own, Sentence
  <2>3. ASSUME NEW s \in told
        PROVE  /\ s.kind = "action"
               /\ \E a \in Range(actions) : \E i \in a.instructions : s.text = <<i.id, a.id>>
    <3>1. PICK a \in Range(actions) : s \in {instruction(a, i) : i \in a.instructions}
      OBVIOUS
    <3>2. PICK i \in a.instructions : s = instruction(a, i)
      BY <3>1
    <3> HIDE DEF supported
    <3> QED BY <3>2 DEF Sentence
  <2> HIDE DEF told
  <2> QED BY <2>1, <2>2, <2>3 DEF Fits
<1> DEFINE raw == {id \in section.facts : FactById(facts, id).profile = "loshu_raw"}
           sourced == [Nothing EXCEPT !.sources = sources]
           first == FirstOf({c \in claims : c.id \in section.claims})
<1>6. \/ b \in comparisonBlock(section.facts, facts, first)
      \/ b = Block("prose", {}, {Own("safety", {}, Nothing)})
      \/ b = Block("source_note", {}, {Own("method", {}, sourced)})
      \/ section.facts # {} /\ b = Block("number_card", {Min(section.facts)}, {Own("editorial", {Min(section.facts)}, sourced)})
      \/ raw # {} /\ b = Block("lo_shu", {Min(raw)}, {Own("editorial", {Min(raw)}, sourced)})
      \/ b = Block("timeline", section.facts, {Own("editorial", {f}, first) : f \in section.facts})
      \/ b = Block("prose", {}, {Own("safety", {}, Nothing)} \cup told)
  BY Zenon DEF specialBlocks
<1>7. raw \in SUBSET section.facts
  OBVIOUS
<1> HIDE DEF raw, told, sourced, first
<1> QED
  BY <1>1, <1>2, <1>3, <1>4, <1>5, <1>6, <1>7

\* The facts a section has are those of the calculation.
LEMMA SectionFacts ==
  ASSUME NEW facts, IsBundle(facts), NEW claims, NEW key \in Range(ReportSectionKeys)
  PROVE  LET section == buildSections(claims, facts)[key]
         IN section.facts \subseteq {f.id : f \in facts} /\ IsFiniteSet(section.facts)
<1> DEFINE ids == {f.id : f \in facts}
           section == buildSections(claims, facts)[key]
<1>1. section.facts = reservedFactsForSection(key, facts)
  BY DEF buildSections
<1>2. reservedFactsForSection(key, facts) \subseteq ids
  BY DEF reservedFactsForSection
<1>3. IsFiniteSet(ids)
  <2> DEFINE g == [f \in facts |-> f.id]
  <2>1. g \in [facts -> ids] /\ \A x \in ids : \E f \in facts : g[f] = x
    OBVIOUS
  <2> HIDE DEF g
  <2>2. g \in Surjection(facts, ids)
    BY <2>1 DEF Surjection
  <2> QED BY <2>2, FS_Surjection DEF IsBundle
<1> HIDE DEF ids, section
<1>4. section.facts \subseteq ids /\ IsFiniteSet(section.facts)
  BY <1>1, <1>2, <1>3, FS_Subset
<1> QED
  BY <1>4 DEF ids, section

\* What is written: every claim of the plan, told in full, and sections of which every block
\* fits, and every sentence of a claim is one of a planned claim of the section.
Tells(made, plan, facts) ==
  /\ \A c \in Range(made.claims) :
       \E p \in Range(plan.claims) : c = writeClaim(p, plan) /\ PlannedClaim(plan, c.id) = p
  /\ \A p \in Range(plan.claims) : writeClaim(p, plan) \in Range(made.claims)
  /\ DOMAIN plan.sections = Range(ReportSectionKeys)
  /\ DOMAIN made.sections = Range(ReportSectionKeys)
  /\ \A key \in Range(ReportSectionKeys) :
       LET section == plan.sections[key]
           written == made.sections[key]
       IN /\ section.facts \subseteq {f.id : f \in facts} /\ written.claims = section.claims
          /\ \A b \in written.blocks :
               \/ Fits(b, section, facts, plan.actions)
               \/ /\ b.type = "prose" /\ b.facts = {}
                  /\ \A s \in b.sentences :
                       \/ s = Own("editorial", {}, Nothing)
                       \/ \E p \in Range(plan.claims) :
                            /\ p.id \in section.claims /\ s.kind = "claim" /\ s.claim = p.id
                            /\ s.text \in Range(sentenceParts(p.text))
                            /\ s.facts = p.facts /\ s.rules = p.rules /\ s.sources = p.sources
  /\ \E b \in made.sections["methodology_appendix"].blocks : b.type = "source_note"

LEMMA WriterTells ==
  ASSUME NEW facts, IsBundle(facts), NEW plan, NEW evidence, Accountable(plan, facts, evidence),
         NEW made, made = writeDeterministicReport(plan, facts)
  PROVE  Tells(made, plan, facts)
<1> DEFINE claims == plan.claims
           W == [i \in DOMAIN claims |-> writeClaim(claims[i], plan)]
           keys == Range(ReportSectionKeys)
           sources == sourceIds(plan)
           sourced == [Nothing EXCEPT !.sources = sources]
<1>1. /\ made.claims = W
      /\ made.sections = [key \in DOMAIN plan.sections |->
                              writeSection(key, plan.sections[key], Range(W), facts, sources, plan.actions)]
  BY DEF writeDeterministicReport
<1>2. \A c \in Range(W) : \E p \in Range(claims) : c = writeClaim(p, plan)
  BY DEF Range
<1>3. \A p \in Range(claims) : writeClaim(p, plan) \in Range(W)
  BY DEF Range
<1>4. DOMAIN plan.sections = keys
  BY DEF Accountable, buildSections
<1>5. /\ DOMAIN made.sections = keys
      /\ \A key \in keys : made.sections[key] =
            writeSection(key, plan.sections[key], Range(W), facts, sources, plan.actions)
  BY <1>1, <1>4
<1>6. \A p : /\ writeClaim(p, plan).id = p.id /\ writeClaim(p, plan).body = sentenceParts(p.text)
             /\ writeClaim(p, plan).facts = p.facts /\ writeClaim(p, plan).rules = p.rules
             /\ writeClaim(p, plan).sources = p.sources
  BY DEF writeClaim
<1> HIDE DEF W, keys, sources, sourced
<1>7. ASSUME NEW p \in Range(claims) PROVE PlannedClaim(plan, p.id) = p
  BY DEF PlannedClaim, Accountable
<1>8. \A c \in Range(made.claims) :
        \E p \in Range(plan.claims) : c = writeClaim(p, plan) /\ PlannedClaim(plan, c.id) = p
  BY <1>1, <1>2, <1>6, <1>7
<1>9. ASSUME NEW key \in keys
      PROVE  LET section == plan.sections[key]
                 written == made.sections[key]
             IN /\ section.facts \subseteq {f.id : f \in facts} /\ written.claims = section.claims
                /\ \A b \in written.blocks :
                     \/ Fits(b, section, facts, plan.actions)
                     \/ /\ b.type = "prose" /\ b.facts = {}
                        /\ \A s \in b.sentences :
                             \/ s = Own("editorial", {}, Nothing)
                             \/ \E p \in Range(plan.claims) :
                                  /\ p.id \in section.claims /\ s.kind = "claim" /\ s.claim = p.id
                                  /\ s.text \in Range(sentenceParts(p.text))
                                  /\ s.facts = p.facts /\ s.rules = p.rules /\ s.sources = p.sources
  <2> DEFINE section == plan.sections[key]
             written == made.sections[key]
             of(c) == {Sentence("claim", c.body[i], TRUE, c.id, c.facts, c.rules, c.sources) :
                         i \in DOMAIN c.body}
             inSection == {c \in Range(W) : c.id \in section.claims}
             parts == UNION {of(c) : c \in inSection}
             prose == {Own("editorial", {}, Nothing)} \cup parts
  <2>1. section.facts \subseteq {f.id : f \in facts} /\ IsFiniteSet(section.facts)
    BY SectionFacts DEF Accountable, keys
  <2>2. /\ written.claims = section.claims
        /\ written.blocks = specialBlocks(key, section, Range(W), facts, sources, plan.actions)
                              \cup {Block("prose", {}, prose)}
    <3>1. written = writeSection(key, section, Range(W), facts, sources, plan.actions)
      BY <1>5
    <3>2. written = [claims |-> section.claims,
                     blocks |-> specialBlocks(key, section, Range(W), facts, sources, plan.actions)
                                  \cup {Block("prose", {}, prose)}]
      BY <3>1, Zenon DEF writeSection
    <3> HIDE DEF written, section, prose
    <3> QED BY <3>2
  <2>3. ASSUME NEW s \in prose
        PROVE  \/ s = Own("editorial", {}, Nothing)
               \/ \E p \in Range(plan.claims) :
                    /\ p.id \in section.claims /\ s.kind = "claim" /\ s.claim = p.id
                    /\ s.text \in Range(sentenceParts(p.text))
                    /\ s.facts = p.facts /\ s.rules = p.rules /\ s.sources = p.sources
    <3>1. CASE \E c \in inSection : s \in of(c)
      <4>1. PICK c \in inSection : s \in of(c)
        BY <3>1
      <4>2. PICK p \in Range(claims) : c = writeClaim(p, plan)
        BY <1>2
      <4>3. PICK i \in DOMAIN c.body :
              s = Sentence("claim", c.body[i], TRUE, c.id, c.facts, c.rules, c.sources)
        BY <4>1
      <4>4. /\ s.kind = "claim" /\ s.claim = c.id /\ s.text = c.body[i]
            /\ s.facts = c.facts /\ s.rules = c.rules /\ s.sources = c.sources
        BY <4>3 DEF Sentence
      <4>5. c.id \in section.claims
        BY <4>1
      <4>6. s.text \in Range(c.body)
        BY <4>3, <4>4 DEF Range
      <4> HIDE DEF section
      <4> QED BY <1>6, <4>2, <4>4, <4>5, <4>6
    <3>2. s = Own("editorial", {}, Nothing) \/ \E c \in inSection : s \in of(c)
      <4> HIDE DEF inSection
      <4>1. ASSUME s \in parts PROVE \E c \in inSection : s \in of(c)
        <5>1. PICK T \in {of(c) : c \in inSection} : s \in T
          BY <4>1
        <5>2. PICK c \in inSection : T = of(c)
          OBVIOUS
        <5> QED BY <5>1, <5>2
      <4>2. s \in parts \/ s = Own("editorial", {}, Nothing)
        <5> HIDE DEF parts
        <5> QED OBVIOUS
      <4> QED BY <4>1, <4>2
    <3> QED BY <3>1, <3>2
  <2> HIDE DEF prose, section, written
  <2>4. ASSUME NEW b \in written.blocks
        PROVE  \/ Fits(b, section, facts, plan.actions)
               \/ b.type = "prose" /\ b.facts = {} /\ b.sentences = prose
    <3>1. CASE b \in specialBlocks(key, section, Range(W), facts, sources, plan.actions)
      BY <2>1, <3>1, SpecialFits
    <3>2. CASE b = Block("prose", {}, prose)
      BY <3>2 DEF Block
    <3> QED BY <2>2, <3>1, <3>2
  <2>5. \A b \in written.blocks :
           \/ Fits(b, section, facts, plan.actions)
           \/ /\ b.type = "prose" /\ b.facts = {}
              /\ \A s \in b.sentences :
                   \/ s = Own("editorial", {}, Nothing)
                   \/ \E p \in Range(plan.claims) :
                        /\ p.id \in section.claims /\ s.kind = "claim" /\ s.claim = p.id
                        /\ s.text \in Range(sentenceParts(p.text))
                        /\ s.facts = p.facts /\ s.rules = p.rules /\ s.sources = p.sources
    BY <2>3, <2>4
  <2> QED
    BY <2>1, <2>2, <2>5 DEF section, written
<1>10. \E b \in made.sections["methodology_appendix"].blocks : b.type = "source_note"
  <2> DEFINE key == "methodology_appendix"
             note == Block("source_note", {}, {Own("method", {}, sourced)})
  <2>1. key \in keys
    BY DEF keys, ReportSectionKeys, Range
  <2>2. note \in specialBlocks(key, plan.sections[key], Range(W), facts, sources, plan.actions)
    BY DEF specialBlocks, sourced
  <2>3. note.type = "source_note"
    BY DEF Block
  <2> HIDE DEF note
  <2>4. note \in made.sections[key].blocks
    <3> DEFINE section == plan.sections[key]
    <3>1. made.sections[key] = writeSection(key, section, Range(W), facts, sources, plan.actions)
      BY <1>5, <2>1
    <3> HIDE DEF key, section
    <3>2. specialBlocks(key, section, Range(W), facts, sources, plan.actions)
            \subseteq writeSection(key, section, Range(W), facts, sources, plan.actions).blocks
      <4> DEFINE special == specialBlocks(key, section, Range(W), facts, sources, plan.actions)
      <4>1. \E more : writeSection(key, section, Range(W), facts, sources, plan.actions)
                        = [claims |-> section.claims, blocks |-> special \cup {more}]
        BY Zenon DEF writeSection
      <4> HIDE DEF special
      <4> QED BY <4>1 DEF special
    <3> QED BY <2>2, <3>1, <3>2 DEF section
  <2> QED BY <2>3, <2>4
<1> QED
  BY <1>1, <1>3, <1>4, <1>5, <1>8, <1>9, <1>10 DEF Tells, keys

Expected == {"REPORT_BLOCK_TYPE_MISSING", "REPORT_ACTION_COVERAGE_INCOMPLETE",
             "REPORT_SENTENCE_PROVENANCE_INVALID", "REPORT_SPECIFICITY_BELOW_THRESHOLD"}

\* The gates find nothing in what was written, but for what the writer may have too little of.
LEMMA GatesAgree ==
  ASSUME NEW facts, IsBundle(facts), NEW plan, NEW evidence, Accountable(plan, facts, evidence),
         NEW made, Tells(made, plan, facts)
  PROVE  verifyStructuredReport(made, facts, evidence, plan) \subseteq Expected
<1> DEFINE claims == Range(plan.claims)
           keys == Range(ReportSectionKeys)
<1>1. ASSUME NEW c \in Range(made.claims)
      PROVE  \E p \in claims :
               /\ c = writeClaim(p, plan) /\ PlannedClaim(plan, c.id) = p /\ IsPlanned(plan, c)
               /\ Founded(p, facts, evidence)
  <2>1. PICK p \in claims : c = writeClaim(p, plan) /\ PlannedClaim(plan, c.id) = p
    BY DEF Tells
  <2>2. c.id = p.id
    BY <2>1 DEF writeClaim
  <2> QED BY <2>1, <2>2 DEF Accountable, IsPlanned
<1>2. \A p : LET c == writeClaim(p, plan)
             IN /\ c.id = p.id /\ c.theme = p.theme /\ c.confidence = p.confidence
                /\ c.contradictions = p.contradictions /\ c.facts = p.facts /\ c.rules = p.rules
                /\ c.sources = p.sources /\ c.traces = p.traces /\ c.summary = p.text
                /\ c.kind = IF p.relationship = "contradiction" \/ p.valence = "tension"
                            THEN "tension" ELSE "finding"
                /\ c.body = sentenceParts(p.text) /\ c.action = InstructionsOf(plan, p.id)
  BY DEF writeClaim, IsTension
<1>3. ASSUME NEW b \in Blocks(made)
      PROVE  /\ \E key \in keys : b.facts \subseteq plan.sections[key].facts
                                  /\ plan.sections[key].facts \subseteq {f.id : f \in facts}
             /\ b.facts \subseteq UNION {s.facts : s \in b.sentences}
             /\ b.type = "comparison" =>
                  \E f, g \in facts : f.id \in b.facts /\ g.id \in b.facts /\ f.profile # g.profile
  <2>1. PICK key \in keys : b \in made.sections[key].blocks
    BY DEF Blocks, Tells
  <2>2. /\ plan.sections[key].facts \subseteq {f.id : f \in facts}
        /\ \/ Fits(b, plan.sections[key], facts, plan.actions)
           \/ b.type = "prose" /\ b.facts = {}
    BY <2>1 DEF Tells
  <2> QED BY <2>2 DEF Fits
<1>4. checkFactLinkage(made, facts, plan) = {}
  <2> DEFINE ids == {f.id : f \in facts}
             traces == UNION {f.traces : f \in facts}
             reserved == UNION {plan.sections[key].facts : key \in DOMAIN plan.sections}
  <2>1. ASSUME NEW c \in Range(made.claims)
        PROVE  LET p == PlannedClaim(plan, c.id)
               IN /\ IsPlanned(plan, c) /\ c.facts = p.facts /\ c.traces = p.traces
                  /\ c.theme = p.theme /\ c.confidence = p.confidence
                  /\ c.kind = IF p.relationship = "contradiction" \/ p.valence = "tension"
                              THEN "tension" ELSE "finding"
                  /\ c.facts \subseteq ids /\ c.traces \subseteq traces
    <3>1. PICK p \in claims : /\ c = writeClaim(p, plan) /\ PlannedClaim(plan, c.id) = p
                              /\ IsPlanned(plan, c) /\ Founded(p, facts, evidence)
      BY <1>1
    <3>2. p.facts \subseteq ids /\ p.traces \subseteq traces
      BY <3>1 DEF Founded
    <3> HIDE DEF ids, traces
    <3> QED BY <1>2, <3>1, <3>2
  <2>2. ASSUME NEW b \in Blocks(made) PROVE b.facts \subseteq ids \cap reserved
    <3>1. DOMAIN plan.sections = keys
      BY DEF Tells
    <3> QED BY <1>3, <3>1
  <2> QED
    BY <2>1, <2>2 DEF checkFactLinkage, Diagnostics
<1>5. checkRuleSource(made, evidence, plan) = {}
  <2>1. ASSUME NEW c \in Range(made.claims)
        PROVE  LET p == PlannedClaim(plan, c.id)
               IN /\ IsPlanned(plan, c) /\ c.rules = p.rules /\ c.sources = p.sources
                  /\ c.summary = p.text /\ evidenceSupports(evidence, c)
    <3>1. PICK p \in claims : /\ c = writeClaim(p, plan) /\ PlannedClaim(plan, c.id) = p
                              /\ IsPlanned(plan, c) /\ Founded(p, facts, evidence)
      BY <1>1
    <3>2. evidenceSupports(evidence, c)
      BY <1>2, <3>1 DEF evidenceSupports, Founded
    <3> QED BY <1>2, <3>1, <3>2
  <2> QED
    BY <2>1 DEF checkRuleSource, Diagnostics
<1>6. checkSchoolBoundary(made, facts, plan) = {}
  <2> DEFINE profiles(ids) == {f.profile : f \in {f \in facts : f.id \in ids}}
  <2>1. ASSUME NEW c \in Range(made.claims)
        PROVE  IsPlanned(plan, c) /\ profiles(c.facts) = PlannedClaim(plan, c.id).profiles
    <3>1. PICK p \in claims : /\ c = writeClaim(p, plan) /\ PlannedClaim(plan, c.id) = p
                              /\ IsPlanned(plan, c) /\ Founded(p, facts, evidence)
      BY <1>1
    <3>2. profiles(p.facts) = p.profiles
      BY <3>1 DEF Founded
    <3>3. c.facts = p.facts
      BY <1>2, <3>1
    <3> QED BY <3>1, <3>2, <3>3
  <2>2. ASSUME NEW b \in Blocks(made), b.type = "comparison" PROVE Cardinality(profiles(b.facts)) # 1
    <3> DEFINE P == profiles(b.facts)
    <3>1. IsFiniteSet(P)
      <4> DEFINE of == {f \in facts : f.id \in b.facts}
                 g == [f \in of |-> f.profile]
      <4>1. g \in [of -> P] /\ \A x \in P : \E f \in of : g[f] = x
        OBVIOUS
      <4>2. IsFiniteSet(of)
        BY FS_Subset DEF IsBundle
      <4> HIDE DEF g, of, P
      <4>3. g \in Surjection(of, P)
        BY <4>1 DEF Surjection
      <4> QED BY <4>2, <4>3, FS_Surjection
    <3>2. PICK f, g \in facts : f.profile \in P /\ g.profile \in P /\ f.profile # g.profile
      BY <1>3, <2>2
    <3> HIDE DEF P
    <3>3. ~\E x : P = {x}
      BY <3>2
    <3>4. Cardinality(P) # 1
      BY <3>1, <3>3, FS_Singleton
    <3> QED BY <3>4 DEF P
  <2> DEFINE found == checkSchoolBoundary(made, facts, plan)
  <2>3. found \subseteq {"REPORT_PROFILE_BOUNDARY_MISMATCH", "REPORT_COMPARISON_PROFILE_BLENDED"}
    BY DEF checkSchoolBoundary, Diagnostics
  <2>4. "REPORT_PROFILE_BOUNDARY_MISMATCH" \notin found
    BY <2>1 DEF checkSchoolBoundary, Diagnostics
  <2>5. "REPORT_COMPARISON_PROFILE_BLENDED" \notin found
    BY <2>2 DEF checkSchoolBoundary, Diagnostics
  <2> HIDE DEF found
  <2> QED
    BY <2>3, <2>4, <2>5 DEF found
<1>7. checkContradictions(made, plan) = {}
  <2>1. ASSUME NEW p \in claims, p.relationship = "contradiction"
        PROVE  \E c \in Range(made.claims) :
                 /\ c.id = p.id /\ c.kind = "tension" /\ ~p.text.tail
                 /\ c.rules = p.rules /\ c.facts = p.facts /\ c.sources = p.sources
                 /\ c.traces = p.traces /\ c.contradictions = p.contradictions
                 /\ c.body = sentenceParts(p.text)
    <3>1. writeClaim(p, plan) \in Range(made.claims)
      BY DEF Tells
    <3>2. ~p.text.tail
      BY <2>1 DEF Accountable, Founded
    <3> QED BY <1>2, <2>1, <3>1, <3>2
  <2> QED
    BY <2>1 DEF checkContradictions, Diagnostics
<1>8. checkCompleteness(made, plan) \subseteq Expected
  <2>1. {c.id : c \in Range(made.claims)} = {c.id : c \in claims}
    <3>1. \A c \in Range(made.claims) : \E p \in claims : c.id = p.id
      BY <1>1, <1>2
    <3>2. \A p \in claims : \E c \in Range(made.claims) : c.id = p.id
      BY <1>2 DEF Tells
    <3> QED BY <3>1, <3>2
  <2>2. \A key \in DOMAIN plan.sections : made.sections[key].claims = plan.sections[key].claims
    BY DEF Tells
  <2>3. \E b \in made.sections["methodology_appendix"].blocks : b.type = "source_note"
    BY DEF Tells
  <2> DEFINE found == checkCompleteness(made, plan)
  <2>4. found \subseteq {"REPORT_CLAIM_COVERAGE_INCOMPLETE", "REPORT_SECTION_ORDER_OR_LINK_MISMATCH",
                        "REPORT_METHODOLOGY_APPENDIX_INCOMPLETE"} \cup Expected
    BY DEF checkCompleteness, Diagnostics, Expected
  <2>5. "REPORT_CLAIM_COVERAGE_INCOMPLETE" \notin found
    BY <2>1 DEF checkCompleteness, Diagnostics
  <2>6. "REPORT_SECTION_ORDER_OR_LINK_MISMATCH" \notin found
    BY <2>2 DEF checkCompleteness, Diagnostics
  <2>7. "REPORT_METHODOLOGY_APPENDIX_INCOMPLETE" \notin found
    BY <2>3 DEF checkCompleteness, Diagnostics
  <2> HIDE DEF found
  <2> QED
    BY <2>4, <2>5, <2>6, <2>7 DEF found
<1>9. checkProseProvenance(made, plan) \subseteq Expected
  <2>1. ASSUME NEW c \in Range(made.claims)
        PROVE  /\ IsPlanned(plan, c)
               /\ c.body = sentenceParts(PlannedClaim(plan, c.id).text)
               /\ c.action = InstructionsOf(plan, c.id)
    BY <1>1, <1>2
  <2>2. ASSUME NEW key \in DOMAIN made.sections,
               NEW s \in UNION {b.sentences : b \in made.sections[key].blocks}
        PROVE  /\ s.kind = "claim" =>
                    LET p == CHOOSE p \in Range(plan.claims) : p.id = s.claim
                    IN /\ s.claim \in plan.sections[key].claims
                       /\ s.text \in Range(sentenceParts(p.text))
                       /\ s.facts = p.facts /\ s.rules = p.rules /\ s.sources = p.sources
               /\ s.kind = "action" =>
                    \E a \in Range(plan.actions), i \in UNION {x.instructions : x \in Range(plan.actions)} :
                      i \in a.instructions /\ s.text = <<i.id, a.id>>
    <3>0. PICK b \in made.sections[key].blocks : s \in b.sentences
      OBVIOUS
    <3>1. \/ Fits(b, plan.sections[key], facts, plan.actions)
          \/ s = Own("editorial", {}, Nothing)
          \/ \E p \in claims :
               /\ p.id \in plan.sections[key].claims /\ s.kind = "claim" /\ s.claim = p.id
               /\ s.text \in Range(sentenceParts(p.text))
               /\ s.facts = p.facts /\ s.rules = p.rules /\ s.sources = p.sources
      BY <3>0 DEF Tells
    <3>2. CASE Fits(b, plan.sections[key], facts, plan.actions)
      BY <3>0, <3>2 DEF Fits
    <3>3. CASE s = Own("editorial", {}, Nothing)
      BY <3>3 DEF Own, Sentence
    <3>4. ASSUME NEW p \in claims,
                 /\ p.id \in plan.sections[key].claims /\ s.kind = "claim" /\ s.claim = p.id
                 /\ s.text \in Range(sentenceParts(p.text))
                 /\ s.facts = p.facts /\ s.rules = p.rules /\ s.sources = p.sources
          PROVE  LET q == CHOOSE q \in Range(plan.claims) : q.id = s.claim
                 IN /\ s.claim \in plan.sections[key].claims
                    /\ s.text \in Range(sentenceParts(q.text))
                    /\ s.facts = q.facts /\ s.rules = q.rules /\ s.sources = q.sources
      <4>1. p = CHOOSE q \in Range(plan.claims) : q.id = s.claim
        BY <3>4 DEF Accountable
      <4> QED BY <3>4, <4>1
    <3> QED BY <3>1, <3>2, <3>3, <3>4
  <2>3. \A b \in Blocks(made) : b.facts \subseteq UNION {s.facts : s \in b.sentences}
    BY <1>3
  <2> DEFINE found == checkProseProvenance(made, plan)
  <2>4. found \subseteq {"REPORT_CLAIM_SENTENCE_NOT_BOUND", "REPORT_SECTION_SENTENCE_NOT_BOUND",
                        "REPORT_BLOCK_FACT_NOT_BOUND"} \cup Expected
    BY DEF checkProseProvenance, Diagnostics, Expected
  <2>5. "REPORT_CLAIM_SENTENCE_NOT_BOUND" \notin found
    BY <2>1 DEF checkProseProvenance, Diagnostics
  <2>6. "REPORT_SECTION_SENTENCE_NOT_BOUND" \notin found
    BY <2>2 DEF checkProseProvenance, Diagnostics
  <2>7. "REPORT_BLOCK_FACT_NOT_BOUND" \notin found
    BY <2>3 DEF checkProseProvenance, Diagnostics
  <2> HIDE DEF found
  <2> QED
    BY <2>4, <2>5, <2>6, <2>7 DEF found
<1>10. checkGenericity(made) \subseteq Expected
  BY DEF checkGenericity, Diagnostics, Expected
<1> QED
  BY <1>4, <1>5, <1>6, <1>7, <1>8, <1>9, <1>10 DEF verifyStructuredReport

\* The plan the verifier is given can be accounted for.
LEMMA PlanIsAccountable ==
  ASSUME NEW facts, IsBundle(facts), NEW resolved, assertResolvedEvidenceBoundary(facts, resolved),
         NEW claims, NEW policy, NEW plan, plan = PlanOf(claims, facts, policy),
         claims \in Seq(claimCandidates(resolved.evidence, facts)
                        \cup contradictionCandidates(resolved.warnings, resolved.evidence)),
         validateReportPlan(plan) = {}
  PROVE  Accountable(plan, facts, resolved.evidence)
<1> DEFINE candidates == claimCandidates(resolved.evidence, facts)
                           \cup contradictionCandidates(resolved.warnings, resolved.evidence)
<1>1. plan.claims = claims /\ plan.sections = buildSections(claims, facts)
  BY DEF PlanOf
<1>2. Len(claims) \in Nat /\ DOMAIN claims = 1 .. Len(claims) /\ Range(claims) \subseteq candidates
  <2> HIDE DEF candidates
  <2>1. claims \in Seq(candidates)
    BY DEF candidates
  <2> QED BY <2>1 DEF Range
<1>3. \A c \in candidates : Founded(c, facts, resolved.evidence)
  <2> TAKE c \in candidates
  <2>1. \E support \in SUBSET Range(resolved.evidence) : RestsOn(c, support)
    BY ClaimRests, ContradictionRests
  <2> QED BY <2>1, SupportFounds
<1>4. ~(Cardinality({c.id : c \in Range(claims)}) < Len(claims))
  <2>1. "PLAN_CLAIM_PROVENANCE" \notin validateReportPlan(plan)
    OBVIOUS
  <2> QED BY <1>1, <2>1 DEF validateReportPlan, Diagnostics
<1>5. \A c, d \in Range(claims) : c.id = d.id => c = d
  BY <1>2, <1>4, ClaimsDiffer
<1> HIDE DEF candidates
<1> QED
  BY <1>1, <1>2, <1>3, <1>5 DEF Accountable

\* What the schema of a report takes is small enough: the method notes cite all sources of the
\* plan, every claim what it rests on, and every instruction the rules of its action.
LEMMA WrittenFits ==
  ASSUME NEW plan, NEW facts, DOMAIN plan.sections = Range(ReportSectionKeys),
         validateReportPlan(plan) = {},
         structuredReportSchema(writeDeterministicReport(plan, facts))
  PROVE  FitsReport(plan)
<1> DEFINE claims == plan.claims
           W == [i \in DOMAIN claims |-> writeClaim(claims[i], plan)]
           keys == Range(ReportSectionKeys)
           sources == sourceIds(plan)
           made == writeDeterministicReport(plan, facts)
           special(key) == specialBlocks(key, plan.sections[key], Range(W), facts, sources, plan.actions)
<1>1. /\ made.claims = W
      /\ \A key \in keys : made.sections[key] =
           writeSection(key, plan.sections[key], Range(W), facts, sources, plan.actions)
      /\ DOMAIN made.sections = keys
  BY DEF writeDeterministicReport
<1>2. \A p \in Range(claims) : structuredClaimSchema(writeClaim(p, plan))
  <2>1. \A p \in Range(claims) : writeClaim(p, plan) \in Range(W)
    BY DEF Range
  <2> HIDE DEF W
  <2> QED BY <1>1, <2>1 DEF structuredReportSchema
<1>3. \A p : /\ writeClaim(p, plan).facts = p.facts /\ writeClaim(p, plan).rules = p.rules
             /\ writeClaim(p, plan).summary = p.text
             /\ writeClaim(p, plan).action = InstructionsOf(plan, p.id)
  BY DEF writeClaim
<1> HIDE DEF W, made
<1>4. ASSUME NEW key \in keys, NEW b \in special(key), NEW s \in b.sentences PROVE ReferencesFit(s)
  <2> DEFINE section == plan.sections[key]
  <2>1. \E more : writeSection(key, section, Range(W), facts, sources, plan.actions)
                    = [claims |-> section.claims, blocks |-> special(key) \cup {more}]
    BY Zenon DEF writeSection
  <2>2. b \in made.sections[key].blocks
    <3> HIDE DEF special
    <3> QED BY <1>1, <1>4, <2>1
  <2>3. reportSectionSchema(made.sections[key])
    BY <1>1 DEF structuredReportSchema, made
  <2> HIDE DEF section, special
  <2> QED BY <1>4, <2>2, <2>3 DEF reportSectionSchema
<1>5. Cardinality(UNION {c.sources : c \in Range(claims)}) <= 8
  <2> DEFINE sourced == [Nothing EXCEPT !.sources = sources]
             note == Own("method", {}, sourced)
             block == Block("source_note", {}, {note})
  <2>1. "input_methods" \in keys
    BY DEF ReportSectionKeys, Range
  <2>2. block \in special("input_methods")
    BY DEF specialBlocks
  <2>3. note \in block.sentences /\ note.sources = sources
    BY DEF Block, Own, Sentence, Nothing
  <2>4. ReferencesFit(note)
    <3> HIDE DEF special, block, note, keys
    <3> QED BY <1>4, <2>1, <2>2, <2>3
  <2> HIDE DEF note
  <2> QED BY <2>3, <2>4 DEF ReferencesFit, MaxReferences, sourceIds
<1>6. ASSUME NEW a \in Range(plan.actions) PROVE Cardinality(a.rules) <= 8
  <2> DEFINE supported(x) == FirstOf({c \in Range(W) : c.id \in x.claims})
             instruction(x, i) == Sentence("action", <<i.id, x.id>>, IsWhole(i), supported(x).id,
                                           supported(x).facts, x.rules, x.sources)
             told == UNION {{instruction(x, i) : i \in x.instructions} : x \in Range(plan.actions)}
             block == Block("prose", {}, {Own("safety", {}, Nothing)} \cup told)
  <2>1. "PLAN_ACTION_INVALID" \notin validateReportPlan(plan)
    OBVIOUS
  <2>2. a.instructions # {}
    BY <2>1 DEF validateReportPlan, Diagnostics
  <2>3. PICK i \in a.instructions : TRUE
    BY <2>2
  <2> DEFINE s == instruction(a, i)
  <2>4. s \in told
    <3>1. s \in {instruction(a, j) : j \in a.instructions}
      OBVIOUS
    <3> HIDE DEF instruction, s
    <3> QED BY <3>1
  <2>5. s.rules = a.rules
    BY DEF Sentence
  <2>6. "actions" \in keys
    BY DEF ReportSectionKeys, Range
  <2>7. block \in special("actions")
    BY Zenon DEF specialBlocks
  <2> HIDE DEF s, told
  <2>8. s \in block.sentences
    BY <2>4 DEF Block
  <2>9. ReferencesFit(s)
    <3> HIDE DEF special, block, keys
    <3> QED BY <1>4, <2>6, <2>7, <2>8
  <2> QED BY <2>5, <2>9 DEF ReferencesFit, MaxReferences
<1>7. \A c \in Range(claims) : /\ Cardinality(c.rules) <= 8 /\ Cardinality(c.facts) <= 8
                               /\ c.text.length <= 600 /\ c.text.numbers <= 8
                               /\ Joined(InstructionsOf(plan, c.id)).length <= 400
  BY <1>2, <1>3
    DEF structuredClaimSchema, ReferencesFit, MaxReferences, MaxSummary, MaxNumbers, MaxAction
<1> QED
  BY <1>5, <1>6, <1>7 DEF FitsReport

-----------------------------------------------------------------------------
(* The pipeline.                                                           *)

\* A release that compiled, and is parsed again, binds its rules to sections of a report.
LEMMA CompiledIsBound ==
  ASSUME NEW input \in Releases, Compiles(input),
         NEW doctrine, doctrine = compileDoctrine(input), Compiles(doctrine.authored)
  PROVE  Bound(doctrine)
<1> DEFINE list == input.bindings
           S == Range(list)
<1>1. /\ {"rules", "sources", "actions", "bindings", "contradictions"} \subseteq DOMAIN input
      /\ list \in Seq(S) /\ \A b \in S : b.id \in Int /\ b.section \in Range(ReportSectionKeys)
  BY ReleasesAreParsed
<1>2. doctrine.authored.bindings = ById(list)
  <2>1. normalizedForCompilation(input).bindings = ById(list)
    BY <1>1 DEF normalizedForCompilation
  <2> QED BY <2>1 DEF compileDoctrine, Indexed
<1>3. Len(list) \in Nat /\ DOMAIN list = 1 .. Len(list) /\ \A i \in DOMAIN list : list[i] \in S
  BY <1>1 DEF Range
<1>4. \A i, j \in DOMAIN list : list[i].id = list[j].id => i = j
  <2>1. IsInjective(Ids(list))
    BY DEF Compiles
  <2> QED BY <2>1 DEF IsInjective, Ids
<1>5. \A x \in S : \E i \in DOMAIN list : x = list[i]
  BY DEF Range
<1> HIDE DEF S, list
<1>6. IsFiniteSet(S)
  <2> DEFINE g == [i \in 1 .. Len(list) |-> list[i]]
  <2>1. g \in [1 .. Len(list) -> S] /\ \A x \in S : \E i \in 1 .. Len(list) : g[i] = x
    BY <1>3, <1>5
  <2> HIDE DEF g
  <2>2. g \in Surjection(1 .. Len(list), S)
    BY <2>1 DEF Surjection
  <2>3. IsFiniteSet(1 .. Len(list))
    BY <1>3, FS_Interval
  <2> QED BY <2>2, <2>3, FS_Surjection
<1>7. \A x, y \in S : x.id = y.id => x = y
  BY <1>4, <1>5
<1>8. Range(ById(list)) = S
  BY <1>1, <1>6, <1>7, ByIdIs DEF S
<1> QED
  BY <1>1, <1>2, <1>8 DEF Bound

\* What the stages leave: the compiled release, what its registry resolved from it, the plan
\* of that evidence, and, when nothing is wrong with it, the report and its verdict.
ResolvedFrom(doctrine, resolved) ==
  /\ Compiles(authored) /\ doctrine = compileDoctrine(authored) /\ Compiles(doctrine.authored)
  /\ resolved = resolve(doctrine, Facts, ReportLocale, day)
Planned ==
  /\ ResolvedFrom(release, resolution)
  /\ planned = planReport(Facts, resolution, DefaultPolicy)
Written ==
  /\ Planned /\ planned.errors = {} /\ WriterErrors(planned.plan, Facts) = {}
  /\ report = writeDeterministicReport(planned.plan, Facts)
PipelineInv ==
  /\ authored \in Releases
  /\ stage \in {"authored", "compiled"} => resolution = NotYet
  /\ stage \in {"authored", "compiled", "resolved"} => planned = NotYet
  /\ stage \in {"authored", "compiled", "resolved", "planned"} => report = NotYet
  /\ stage \in {"authored", "compiled", "resolved", "planned", "written"} => verdict = NotVerified
  /\ stage = "compiled" => Compiles(authored) /\ release = compileDoctrine(authored)
  /\ resolution # NotYet \/ stage = "resolved" => ResolvedFrom(release, resolution)
  /\ planned # NotYet \/ stage = "planned" => Planned
  /\ stage = "planned" => planned.errors = {}
  /\ report # NotYet \/ stage = "written" => Written
  /\ verdict # NotVerified =>
       /\ Written
       /\ verdict = verifyStructuredReport(report, Facts, resolution.evidence, planned.plan)

LEMMA PipelineInvInductive == PipelineSpec => []PipelineInv
<1>1. PipelineInit => PipelineInv
  BY DEF PipelineInit, PipelineInv
<1>2. PipelineInv /\ [PipelineNext]_pipelineVars => PipelineInv'
  <2> SUFFICES ASSUME PipelineInv, [PipelineNext]_pipelineVars PROVE PipelineInv'
    OBVIOUS
  <2>1. CASE CompileRelease
    <3>1. /\ stage = "authored" /\ stage' \in {"compiled", "refused"}
          /\ UNCHANGED <<authored, day, resolution, planned, report, verdict>>
          /\ stage' = "compiled" => Compiles(authored) /\ release' = compileDoctrine(authored)
      BY <2>1 DEF CompileRelease, Advance
    <3>2. /\ resolution = NotYet /\ planned = NotYet /\ report = NotYet /\ verdict = NotVerified
          /\ authored \in Releases
      BY <3>1 DEF PipelineInv
    <3> QED
      BY <3>1, <3>2 DEF PipelineInv
  <2>2. CASE ResolveEvidence
    <3>1. /\ stage = "compiled" /\ stage' \in {"resolved", "refused"}
          /\ UNCHANGED <<authored, day, release, planned, report, verdict>>
      BY <2>2 DEF ResolveEvidence, Advance
    <3>2. /\ Compiles(authored) /\ release = compileDoctrine(authored) /\ authored \in Releases
          /\ planned = NotYet /\ report = NotYet /\ verdict = NotVerified
      BY <3>1 DEF PipelineInv
    <3>3. resolution' # NotYet \/ stage' = "resolved" =>
            /\ Compiles(release.authored)
            /\ resolution' = resolve(release, Facts, ReportLocale, day)
      BY <2>2 DEF ResolveEvidence, Advance, validateCompiledDoctrine
    <3>4. resolution' # NotYet \/ stage' = "resolved" => ResolvedFrom(release, resolution)'
      BY <3>1, <3>2, <3>3 DEF ResolvedFrom
    <3> QED
      BY <3>1, <3>2, <3>4 DEF PipelineInv
  <2>3. CASE PlanReport
    <3>1. /\ stage = "resolved" /\ stage' \in {"planned", "refused"}
          /\ UNCHANGED <<authored, day, release, resolution, report, verdict>>
          /\ planned' = planReport(Facts, resolution, DefaultPolicy)
          /\ stage' = "planned" => planned'.errors = {}
      BY <2>3 DEF PlanReport, Advance
    <3>2. /\ ResolvedFrom(release, resolution) /\ report = NotYet /\ verdict = NotVerified
          /\ authored \in Releases
      BY <3>1 DEF PipelineInv
    <3>3. ResolvedFrom(release, resolution)' /\ Planned'
      BY <3>1, <3>2 DEF ResolvedFrom, Planned
    <3> QED
      BY <3>1, <3>2, <3>3 DEF PipelineInv
  <2>4. CASE WriteReport
    <3>1. /\ stage = "planned" /\ stage' \in {"written", "refused"}
          /\ UNCHANGED <<authored, day, release, resolution, planned, verdict>>
          /\ report' # NotYet \/ stage' = "written" =>
               /\ WriterErrors(planned.plan, Facts) = {}
               /\ report' = writeDeterministicReport(planned.plan, Facts)
      BY <2>4 DEF WriteReport, Advance
    <3>2. /\ resolution # NotYet => ResolvedFrom(release, resolution)
          /\ Planned /\ planned.errors = {} /\ verdict = NotVerified /\ authored \in Releases
      BY <3>1 DEF PipelineInv
    <3>3. Planned' /\ (resolution # NotYet => ResolvedFrom(release, resolution))'
      BY <3>1, <3>2 DEF Planned, ResolvedFrom
    <3>4. report' # NotYet \/ stage' = "written" => Written'
      BY <3>1, <3>2, <3>3 DEF Written
    <3> QED
      BY <3>1, <3>2, <3>3, <3>4 DEF PipelineInv
  <2>5. CASE VerifyReport
    <3>1. /\ stage = "written" /\ stage' \in {"verified", "refused"}
          /\ UNCHANGED <<authored, day, release, resolution, planned, report>>
          /\ verdict' = verifyStructuredReport(report, Facts, resolution.evidence, planned.plan)
      BY <2>5 DEF VerifyReport, Advance
    <3>2. /\ resolution # NotYet => ResolvedFrom(release, resolution)
          /\ Written /\ authored \in Releases
      BY <3>1 DEF PipelineInv
    <3>3. Planned' /\ Written' /\ (resolution # NotYet => ResolvedFrom(release, resolution))'
      BY <3>1, <3>2 DEF Written, Planned, ResolvedFrom
    <3> QED
      BY <3>1, <3>2, <3>3 DEF PipelineInv
  <2>6. CASE UNCHANGED pipelineVars
    BY <2>6 DEF PipelineInv, ResolvedFrom, Planned, Written, pipelineVars
  <2> QED
    BY <2>1, <2>2, <2>3, <2>4, <2>5, <2>6 DEF PipelineNext
<1> QED
  BY <1>1, <1>2, PTL DEF PipelineSpec

\* What the registry of a compiled release resolves passes the boundary of the planner.
LEMMA ResolvedIsTaken ==
  ASSUME NEW input \in Releases, Compiles(input),
         NEW doctrine, doctrine = compileDoctrine(input), Compiles(doctrine.authored),
         NEW asOf
  PROVE  assertResolvedEvidenceBoundary(Facts, resolve(doctrine, Facts, ReportLocale, asOf))
BY CompiledSettles, CompiledIsBound, ResolutionIsTaken

\* The planner's boundary asks for the facts, the review, the sections and the actions of the
\* evidence and for a trace of everything selected or suppressed, and what the registry resolved
\* has all of it: no plan is refused for its evidence (EvidenceIsTaken).
THEOREM PlannerTakesEvidence == PipelineSpec => []EvidenceIsTaken
<1>1. PipelineInv => EvidenceIsTaken
  <2> SUFFICES ASSUME PipelineInv, planned # NotYet PROVE "EVIDENCE_INVALID" \notin planned.errors
    BY DEF EvidenceIsTaken
  <2>1. authored \in Releases /\ ResolvedFrom(release, resolution)
        /\ planned = planReport(Facts, resolution, DefaultPolicy)
    BY DEF PipelineInv, Planned
  <2>2. assertResolvedEvidenceBoundary(Facts, resolution)
    BY <2>1, ResolvedIsTaken DEF ResolvedFrom
  <2>3. PICK plan : planned = Checked(plan, Facts, resolution)
    BY <2>1 DEF planReport
  <2>4. \/ planned.errors = {"INSUFFICIENT_INDEPENDENT_PROFILE_FAMILIES"}
        \/ planned.errors = validateReportPlan(plan)
    BY <2>2, <2>3 DEF Checked
  <2>5. "EVIDENCE_INVALID" \notin validateReportPlan(plan)
    BY DEF validateReportPlan, Diagnostics
  <2> QED
    BY <2>4, <2>5
<1> QED
  BY <1>1, PipelineInvInductive, PTL

\* A report is only written for a plan that fits one (half of PlanIsWritten): of twelve to eighty
\* claims, and with no more sources, rules of a disagreement or an action, words or numbers than
\* the schema has room for.
THEOREM WrittenIsReadable ==
  PipelineSpec => [](report # NotYet => /\ Len(planned.plan.claims) \in 12 .. 80
                                        /\ FitsReport(planned.plan))
<1>1. PipelineInv => (report # NotYet => /\ Len(planned.plan.claims) \in 12 .. 80
                                         /\ FitsReport(planned.plan))
  <2> SUFFICES ASSUME PipelineInv, report # NotYet
               PROVE  Len(planned.plan.claims) \in 12 .. 80 /\ FitsReport(planned.plan)
    OBVIOUS
  <2> DEFINE plan == planned.plan
             errors == WriterErrors(plan, Facts)
  <2>1. planned = planReport(Facts, resolution, DefaultPolicy) /\ errors = {}
    BY DEF PipelineInv, Written, Planned
  <2>2. PICK claims : planned = Checked(PlanOf(claims, Facts, DefaultPolicy), Facts, resolution)
    BY <2>1 DEF planReport
  <2>3. plan = PlanOf(claims, Facts, DefaultPolicy)
    BY <2>2 DEF Checked
  <2>4. DOMAIN plan.sections = Range(ReportSectionKeys)
    BY <2>3 DEF PlanOf, buildSections
  <2> HIDE DEF plan
  <2>5. /\ "PLAN_INVALID" \notin errors /\ "WRITER_CLAIM_CARDINALITY" \notin errors
        /\ "REPORT_SCHEMA" \notin errors
    BY <2>1
  <2>6. validateReportPlan(plan) = {}
    BY <2>5 DEF WriterErrors, Diagnostics
  <2>7. Len(plan.claims) \in 12 .. 80
    BY <2>5 DEF WriterErrors, Diagnostics
  <2>8. structuredReportSchema(writeDeterministicReport(plan, Facts))
    BY <2>5 DEF WriterErrors, Diagnostics
  <2> QED
    BY <2>4, <2>6, <2>7, <2>8, WrittenFits DEF plan
<1> QED
  BY <1>1, PipelineInvInductive, PTL

\* Whatever the planner selects from the candidates, the verifier never faults the provenance of
\* what the writer wrote from it: a verdict has no fault of a claim, of a link to a fact, a rule,
\* a source, a profile or a section, of a contradiction or of the sentences of a section
\* (VerdictIsExpected).
THEOREM VerifierAgrees == PipelineSpec => [](PlanIsSelected => VerdictIsExpected)
<1>1. PipelineInv => (PlanIsSelected => VerdictIsExpected)
  <2> SUFFICES ASSUME PipelineInv, PlanIsSelected, verdict # NotVerified PROVE verdict \subseteq Expected
    BY DEF VerdictIsExpected, Expected
  <2> DEFINE plan == planned.plan
  <2>1. /\ authored \in Releases /\ ResolvedFrom(release, resolution)
        /\ planned = planReport(Facts, resolution, DefaultPolicy) /\ planned.errors = {}
        /\ report = writeDeterministicReport(plan, Facts)
        /\ verdict = verifyStructuredReport(report, Facts, resolution.evidence, plan)
    BY DEF PipelineInv, Written, Planned
  <2>2. assertResolvedEvidenceBoundary(Facts, resolution) /\ IsBundle(Facts)
    BY <2>1, ResolvedIsTaken, FactsAreABundle DEF ResolvedFrom, IsBundle
  <2>3. PICK claims : planned = Checked(PlanOf(claims, Facts, DefaultPolicy), Facts, resolution)
    BY <2>1 DEF planReport
  <2>4. plan = PlanOf(claims, Facts, DefaultPolicy) /\ validateReportPlan(plan) = {}
    BY <2>1, <2>2, <2>3 DEF Checked
  <2> HIDE DEF plan
  <2>5. plan.claims = claims
    BY <2>4 DEF PlanOf
  <2>6. planned # NotYet
    <3>1. "plan" \in DOMAIN planned
      BY <2>3 DEF Checked
    <3>2. DOMAIN NotYet = {}
      BY DEF NotYet
    <3> QED BY <3>1, <3>2
  <2>7. claims \in Seq(claimCandidates(resolution.evidence, Facts)
                       \cup contradictionCandidates(resolution.warnings, resolution.evidence))
    BY <2>5, <2>6 DEF PlanIsSelected, plan
  <2>8. Accountable(plan, Facts, resolution.evidence)
    BY <2>2, <2>4, <2>7, PlanIsAccountable
  <2>9. Tells(report, plan, Facts)
    BY <2>1, <2>2, <2>8, WriterTells DEF plan
  <2> QED
    BY <2>1, <2>2, <2>8, <2>9, GatesAgree DEF plan
<1> QED
  BY <1>1, PipelineInvInductive, PTL

\* The registry settles every active rule that applies to a fact: nothing its index hides,
\* and a rule is evidence exactly when nothing speaks against it and no rule that is evidence
\* suppresses it (ResolutionIsSettled).
THEOREM ResolutionSettles == PipelineSpec => []ResolutionIsSettled
<1>1. PipelineInv => ResolutionIsSettled
  <2> SUFFICES ASSUME PipelineInv, resolution # NotYet PROVE ResolutionIsSettled
    BY DEF ResolutionIsSettled
  <2>1. /\ authored \in Releases /\ Compiles(authored) /\ release = compileDoctrine(authored)
        /\ Compiles(release.authored)
        /\ resolution = resolve(release, Facts, ReportLocale, day)
    BY DEF PipelineInv, ResolvedFrom
  <2>2. Settleable(release, Facts)
    BY <2>1, CompiledSettles
  <2> DEFINE authoredRules == Range(release.authored.rules)
             evidence == Rules(Range(resolution.evidence))
             told == Rules(Range(resolution.traces))
             omitted == Rules(Omitted(resolution.traces))
  <2>3. ASSUME NEW r \in authoredRules, NEW f \in Facts, Applies(r, f, ReportLocale)
        PROVE  /\ r.id \in told
               /\ r.id \in evidence <=>
                    /\ r.id \notin omitted
                    /\ \A s \in authoredRules :
                         s.id \in evidence => r.id \notin BindingOf(release.authored, s.id).suppresses
    BY <2>1, <2>2, <2>3, ResolveSettles
  <2>4. \A r \in authoredRules :
          (r.id \in evidence) <=> \E e \in Range(resolution.evidence) : e.rule = r.id
    BY DEF Rules
  <2>5. \A r \in authoredRules :
          (r.id \in omitted) <=> \E t \in Range(resolution.traces) : t.rule = r.id /\ t.outcome = "omitted"
    BY DEF Rules, Omitted
  <2>6. told = {t.rule : t \in Range(resolution.traces)}
    BY DEF Rules
  <2> HIDE DEF evidence, omitted, told
  <2> QED
    BY <2>3, <2>4, <2>5, <2>6 DEF ResolutionIsSettled, Applies
<1> QED
  BY <1>1, PipelineInvInductive, PTL

-----------------------------------------------------------------------------
(* The pair of files: what each loop leaves of an entry.                   *)

\* An entry as it was before the call, with its old file set aside, and with its new file
\* in place.
Untouched(e) == file[e] = before[e] /\ e \notin backups /\ e \notin installed
SetAside(e) ==
  file[e] = "absent" /\ (e \in backups <=> before[e] = "old") /\ e \notin installed
Replaced(e) ==
  file[e] = "new" /\ (e \in backups <=> before[e] = "old") /\ e \in installed
PutBack(e) == file[e] = before[e] /\ e \notin backups
\* The old file can be found, and a roll-back that deletes what was installed keeps it.
Recoverable(e) ==
  before[e] = "old" => e \in backups \/ (file[e] = "old" /\ e \notin installed)
Found(e) == before[e] = "old" => e \in backups \/ file[e] = "old"

\* What each loop has made of the entries it has passed, and of those before it.
RollsForward ==
  /\ phase \in {"stage", "backup", "install", "discard"} => ~swallowed
  /\ phase = "stage" => /\ \A e \in Entries : Untouched(e)
                        /\ staged = IF entry = 1 THEN {} ELSE {1}
                        /\ temporary = staged
  /\ phase = "backup" => /\ \A e \in Entries : IF e < entry THEN SetAside(e) ELSE Untouched(e)
                         /\ temporary = Entries
  /\ phase = "install" => /\ \A e \in Entries : IF e < entry THEN Replaced(e) ELSE SetAside(e)
                          /\ temporary = entry .. 2
  /\ phase = "discard" => temporary = {} /\ \A e \in Entries : Replaced(e)
RollsBack ==
  /\ phase \in {"undo", "restore"} =>
       \A e \in Entries :
         /\ e < entry => Found(e) /\ (~swallowed => PutBack(e))
         /\ e > entry => Recoverable(e) /\ (~swallowed => Untouched(e) \/ SetAside(e) \/ Replaced(e))
  /\ phase = "undo" => /\ Recoverable(entry)
                       /\ ~swallowed => Untouched(entry) \/ SetAside(entry) \/ Replaced(entry)
  /\ phase = "restore" =>
       /\ Found(entry)
       /\ ~swallowed => \/ file[entry] = before[entry] /\ entry \notin backups
                        \/ file[entry] = "absent" /\ (entry \in backups <=> before[entry] = "old")
  /\ phase = "sweep" => \A e \in Entries : Found(e) /\ (~swallowed => PutBack(e))

PairInv ==
  /\ PairTypeOK
  /\ backups \subseteq {e \in Entries : before[e] = "old"}
  /\ phase = "over" <=> outcome # "running"
  /\ RollsForward /\ RollsBack
  /\ phase = "over" => PairIsWhole

LEMMA EntryFacts ==
  ASSUME PairInv
  PROVE  /\ before \in [Entries -> {"old", "absent"}] /\ file \in [Entries -> {"old", "new", "absent"}]
         /\ staged \subseteq Entries /\ temporary \subseteq Entries /\ backups \subseteq Entries
         /\ installed \subseteq Entries /\ entry \in Entries /\ swallowed \in BOOLEAN
         /\ Entries = {1, 2} /\ 3 - entry \in Entries
BY DEF PairInv, PairTypeOK, Entries

LEMMA StageInv ==
  ASSUME PairInv, StageEntry
  PROVE  PairInv'
<1>1. /\ phase = "stage" /\ UNCHANGED <<before, file, backups, installed, outcome, swallowed>>
  BY DEF StageEntry
<1>2. /\ \A e \in Entries : Untouched(e) /\ Untouched(e)'
      /\ ~swallowed /\ outcome = "running"
  BY <1>1 DEF PairInv, RollsForward, Untouched
<1>3. CASE /\ staged' = staged \cup {entry} /\ temporary' = temporary \cup {entry}
           /\ Loop("stage", "backup")
  <2>1. CASE entry = 1
    <3>1. entry' = 2 /\ phase' = "stage" /\ staged' = {1} /\ temporary' = {1}
      BY <1>1, <1>3, <2>1 DEF Loop, PairInv, RollsForward
    <3>2. PairTypeOK'
      BY <1>1, <3>1, EntryFacts DEF PairInv, PairTypeOK, Entries
    <3> QED
      BY <1>1, <1>2, <3>1, <3>2 DEF PairInv, RollsForward, RollsBack
  <2>2. CASE entry = 2
    <3>1. entry' = 1 /\ phase' = "backup" /\ staged' = Entries /\ temporary' = Entries
      BY <1>1, <1>3, <2>2 DEF Loop, PairInv, RollsForward, Entries
    <3>2. PairTypeOK'
      BY <1>1, <3>1, EntryFacts DEF PairInv, PairTypeOK, Entries
    <3>3. \A e \in Entries : ~(e < entry')
      BY <3>1 DEF Entries
    <3> QED
      BY <1>1, <1>2, <3>1, <3>2, <3>3 DEF PairInv, RollsForward, RollsBack
  <2> QED
    BY <2>1, <2>2, EntryFacts
<1>4. CASE temporary' \in {temporary, temporary \cup {entry}} /\ Catch /\ UNCHANGED staged
  <2>1. entry' = 1 /\ phase' = "undo"
    BY <1>4 DEF Catch
  <2>2. PairTypeOK'
    BY <1>1, <1>4, <2>1, EntryFacts DEF PairInv, PairTypeOK, Entries
  <2>3. \A e \in Entries : Recoverable(e)'
    BY <1>2 DEF Recoverable, Untouched
  <2>4. \A e \in Entries : ~(e < entry')
    BY <2>1 DEF Entries
  <2>5. entry' \in Entries
    BY <2>1 DEF Entries
  <2> QED
    BY <1>1, <1>2, <2>1, <2>2, <2>3, <2>4, <2>5 DEF PairInv, RollsForward, RollsBack
<1> QED
  BY <1>3, <1>4 DEF StageEntry

\* An error starts the roll-back with everything recoverable.
LEMMA CatchInv ==
  ASSUME PairInv, Catch, ~swallowed, outcome = "running",
         \A e \in Entries : Untouched(e) \/ SetAside(e) \/ Replaced(e),
         UNCHANGED <<before, file, temporary, backups, staged, installed, outcome, swallowed>>
  PROVE  PairInv'
<1>1. entry' = 1 /\ phase' = "undo"
  BY DEF Catch
<1>2. PairTypeOK'
  BY <1>1, EntryFacts DEF PairInv, PairTypeOK, Entries
<1>3. \A e \in Entries : Recoverable(e)'
  BY DEF Recoverable, Untouched, SetAside, Replaced
<1>4. \A e \in Entries : ~(e < entry') /\ (Untouched(e) \/ SetAside(e) \/ Replaced(e))'
  BY <1>1 DEF Entries, Untouched, SetAside, Replaced
<1>5. entry' \in Entries
  BY <1>1 DEF Entries
<1> QED
  BY <1>1, <1>2, <1>3, <1>4, <1>5 DEF PairInv, RollsForward, RollsBack

LEMMA BackUpInv ==
  ASSUME PairInv, BackUp
  PROVE  PairInv'
<1>1. /\ phase = "backup" /\ ~swallowed /\ outcome = "running"
      /\ UNCHANGED <<before, temporary, staged, installed, outcome, swallowed>>
  BY DEF BackUp, PairInv, RollsForward
<1>2. /\ \A e \in Entries : IF e < entry THEN SetAside(e) ELSE Untouched(e)
      /\ temporary = Entries /\ Untouched(entry)
  BY <1>1, EntryFacts DEF PairInv, RollsForward, Entries
<1>3. CASE Catch /\ UNCHANGED <<file, backups>>
  BY <1>1, <1>2, <1>3, CatchInv
<1>4. CASE /\ Loop("backup", "install")
           /\ \/ file[entry] # "absent" /\ file' = [file EXCEPT ![entry] = "absent"] /\ backups' = backups \cup {entry}
              \/ file[entry] = "absent" /\ UNCHANGED <<file, backups>>
  <2>1. ASSUME NEW e \in Entries, e # entry
        PROVE  (SetAside(e) => SetAside(e)') /\ (Untouched(e) => Untouched(e)')
    BY <1>1, <1>4, <2>1, EntryFacts DEF SetAside, Untouched
  <2>2. \A e \in Entries : e = entry => SetAside(e)'
    BY <1>1, <1>2, <1>4, EntryFacts DEF SetAside, Untouched
  <2>3. /\ file' \in [Entries -> {"old", "new", "absent"}]
        /\ backups' \subseteq {e \in Entries : before'[e] = "old"}
    BY <1>1, <1>2, <1>4, EntryFacts DEF Untouched, PairInv
  <2>4. CASE entry = 1
    <3>1. entry' = 2 /\ phase' = "backup"
      BY <1>4, <2>4 DEF Loop
    <3>2. \A e \in Entries : IF e < entry' THEN SetAside(e)' ELSE Untouched(e)'
      BY <1>2, <2>1, <2>2, <2>4, <3>1, EntryFacts
    <3>3. PairTypeOK'
      BY <1>1, <2>3, <3>1, EntryFacts DEF PairInv, PairTypeOK, Entries
    <3> QED
      BY <1>1, <1>2, <2>3, <3>1, <3>2, <3>3 DEF PairInv, RollsForward, RollsBack
  <2>5. CASE entry = 2
    <3>1. entry' = 1 /\ phase' = "install"
      BY <1>4, <2>5 DEF Loop
    <3>2. \A e \in Entries : IF e < entry' THEN Replaced(e)' ELSE SetAside(e)'
      BY <1>2, <2>1, <2>2, <2>5, <3>1, EntryFacts
    <3>3. PairTypeOK'
      BY <1>1, <2>3, <3>1, EntryFacts DEF PairInv, PairTypeOK, Entries
    <3>4. temporary' = entry' .. 2
      BY <1>1, <1>2, <3>1 DEF Entries
    <3> QED
      BY <1>1, <2>3, <3>1, <3>2, <3>3, <3>4 DEF PairInv, RollsForward, RollsBack
  <2> QED
    BY <2>4, <2>5, EntryFacts
<1> QED
  BY <1>3, <1>4 DEF BackUp

LEMMA InstallInv ==
  ASSUME PairInv, Install
  PROVE  PairInv'
<1>1. /\ phase = "install" /\ ~swallowed /\ outcome = "running"
      /\ UNCHANGED <<before, backups, staged, outcome, swallowed>>
  BY DEF Install, PairInv, RollsForward
<1>2. /\ \A e \in Entries : IF e < entry THEN Replaced(e) ELSE SetAside(e)
      /\ temporary = entry .. 2 /\ SetAside(entry)
  BY <1>1, EntryFacts DEF PairInv, RollsForward, Entries
<1>3. CASE Catch /\ UNCHANGED <<file, temporary, installed>>
  BY <1>1, <1>2, <1>3, CatchInv
<1>4. CASE /\ file' = [file EXCEPT ![entry] = "new"] /\ temporary' = temporary \ {entry}
           /\ installed' = installed \cup {entry}
           /\ Loop("install", "discard")
  <2>1. ASSUME NEW e \in Entries, e # entry
        PROVE  (SetAside(e) => SetAside(e)') /\ (Replaced(e) => Replaced(e)')
    BY <1>1, <1>4, <2>1, EntryFacts DEF SetAside, Replaced
  <2>2. \A e \in Entries : e = entry => Replaced(e)'
    BY <1>1, <1>2, <1>4, EntryFacts DEF SetAside, Replaced
  <2>3. /\ file' \in [Entries -> {"old", "new", "absent"}]
        /\ backups' \subseteq {e \in Entries : before'[e] = "old"}
    BY <1>1, <1>4, EntryFacts DEF PairInv
  <2>4. CASE entry = 1
    <3>1. entry' = 2 /\ phase' = "install" /\ temporary' = entry' .. 2
      BY <1>2, <1>4, <2>4 DEF Loop
    <3>2. \A e \in Entries : IF e < entry' THEN Replaced(e)' ELSE SetAside(e)'
      BY <1>2, <2>1, <2>2, <2>4, <3>1, EntryFacts
    <3>3. PairTypeOK'
      BY <1>1, <1>4, <2>3, <3>1, EntryFacts DEF PairInv, PairTypeOK, Entries
    <3> QED
      BY <1>1, <2>3, <3>1, <3>2, <3>3 DEF PairInv, RollsForward, RollsBack
  <2>5. CASE entry = 2
    <3>1. entry' = 1 /\ phase' = "discard" /\ temporary' = {}
      BY <1>2, <1>4, <2>5 DEF Loop
    <3>2. \A e \in Entries : Replaced(e)'
      BY <1>2, <2>1, <2>2, <2>5, EntryFacts
    <3>3. PairTypeOK'
      BY <1>1, <1>4, <2>3, <3>1, EntryFacts DEF PairInv, PairTypeOK, Entries
    <3> QED
      BY <1>1, <2>3, <3>1, <3>2, <3>3 DEF PairInv, RollsForward, RollsBack
  <2> QED
    BY <2>4, <2>5, EntryFacts
<1> QED
  BY <1>3, <1>4 DEF Install

\* What was installed is deleted only where the old file is in its backup.
LEMMA UndoInv ==
  ASSUME PairInv, Undo
  PROVE  PairInv'
<1>1. /\ phase = "undo" /\ phase' = "restore" /\ outcome = "running"
      /\ UNCHANGED <<before, temporary, backups, staged, installed, entry, outcome>>
      /\ \/ entry \in installed /\ file' = [file EXCEPT ![entry] = "absent"] /\ UNCHANGED swallowed
         \/ entry \in installed /\ swallowed' = TRUE /\ UNCHANGED file
         \/ entry \notin installed /\ UNCHANGED <<file, swallowed>>
  BY DEF Undo, PairInv
<1>2. PairTypeOK' /\ backups' \subseteq {e \in Entries : before'[e] = "old"}
  BY <1>1, EntryFacts DEF PairInv, PairTypeOK
<1>3. ASSUME NEW e \in Entries, e # entry
      PROVE  /\ Found(e) => Found(e)'
             /\ Recoverable(e) => Recoverable(e)'
             /\ ~swallowed' /\ PutBack(e) => PutBack(e)'
             /\ ~swallowed' /\ (Untouched(e) \/ SetAside(e) \/ Replaced(e))
                  => (Untouched(e) \/ SetAside(e) \/ Replaced(e))'
  BY <1>1, <1>3, EntryFacts DEF Found, Recoverable, PutBack, Untouched, SetAside, Replaced
<1>4. /\ Recoverable(entry)
      /\ ~swallowed => Untouched(entry) \/ SetAside(entry) \/ Replaced(entry)
      /\ swallowed => swallowed'
  BY <1>1, EntryFacts DEF PairInv, RollsBack
<1>5. \A e \in Entries : e = entry => Found(e)'
  BY <1>1, <1>4, EntryFacts DEF Recoverable, Found
<1>6. ~swallowed' => \/ file'[entry] = before[entry] /\ entry \notin backups
                     \/ file'[entry] = "absent" /\ (entry \in backups <=> before[entry] = "old")
  BY <1>1, <1>4, EntryFacts DEF Untouched, SetAside, Replaced
<1>7. \A e \in Entries :
        /\ e < entry => Found(e) /\ (~swallowed => PutBack(e))
        /\ e > entry => Recoverable(e) /\ (~swallowed => Untouched(e) \/ SetAside(e) \/ Replaced(e))
  BY <1>1 DEF PairInv, RollsBack
<1>8. RollsBack'
  <2>1. ASSUME NEW e \in Entries
        PROVE  /\ e < entry' => Found(e)' /\ (~swallowed' => PutBack(e)')
               /\ e > entry' => Recoverable(e)' /\ (~swallowed' => (Untouched(e) \/ SetAside(e) \/ Replaced(e))')
    BY <1>1, <1>3, <1>4, <1>7, EntryFacts
  <2>2. Found(entry)'
    BY <1>1, <1>5, EntryFacts
  <2> QED
    BY <1>1, <1>6, <2>1, <2>2 DEF RollsBack
<1> QED
  BY <1>1, <1>2, <1>8 DEF PairInv, RollsForward

LEMMA RestoreInv ==
  ASSUME PairInv, Restore
  PROVE  PairInv'
<1>1. /\ phase = "restore" /\ outcome = "running" /\ Loop("undo", "sweep")
      /\ UNCHANGED <<before, temporary, staged, installed, outcome>>
      /\ \/ /\ entry \in backups /\ file' = [file EXCEPT ![entry] = "old"]
            /\ backups' = backups \ {entry} /\ UNCHANGED swallowed
         \/ entry \in backups /\ swallowed' = TRUE /\ UNCHANGED <<file, backups>>
         \/ entry \notin backups /\ UNCHANGED <<file, backups, swallowed>>
  BY DEF Restore, PairInv
<1>2. /\ file' \in [Entries -> {"old", "new", "absent"}]
      /\ backups' \subseteq {e \in Entries : before'[e] = "old"} /\ swallowed' \in BOOLEAN
  <2>1. file' = file \/ file' = [file EXCEPT ![entry] = "old"]
    BY <1>1
  <2>2. file' \in [Entries -> {"old", "new", "absent"}]
    BY <2>1, EntryFacts
  <2>3. backups' \subseteq backups /\ before' = before
    BY <1>1
  <2>4. backups' \subseteq {e \in Entries : before'[e] = "old"}
    BY <2>3 DEF PairInv
  <2>5. swallowed' = swallowed \/ swallowed' = TRUE
    BY <1>1
  <2>6. swallowed' \in BOOLEAN
    BY <2>5, EntryFacts
  <2> QED
    BY <2>2, <2>4, <2>6
<1>3. ASSUME NEW e \in Entries, e # entry
      PROVE  /\ Found(e) => Found(e)'
             /\ Recoverable(e) => Recoverable(e)'
             /\ ~swallowed' /\ PutBack(e) => PutBack(e)'
             /\ ~swallowed' /\ (Untouched(e) \/ SetAside(e) \/ Replaced(e))
                  => (Untouched(e) \/ SetAside(e) \/ Replaced(e))'
  BY <1>1, <1>3, EntryFacts DEF Found, Recoverable, PutBack, Untouched, SetAside, Replaced
<1>4. /\ Found(entry) /\ (entry \in backups => before[entry] = "old")
      /\ ~swallowed => \/ file[entry] = before[entry] /\ entry \notin backups
                       \/ file[entry] = "absent" /\ (entry \in backups <=> before[entry] = "old")
      /\ swallowed => swallowed'
  BY <1>1, EntryFacts DEF PairInv, RollsBack
<1>5. before[entry] \in {"old", "absent"}
  BY EntryFacts
<1>6. \A e \in Entries : e = entry => Found(e)' /\ (~swallowed' => PutBack(e)')
  BY <1>1, <1>4, <1>5, EntryFacts DEF Found, PutBack
<1>7. \A e \in Entries :
        /\ e < entry => Found(e) /\ (~swallowed => PutBack(e))
        /\ e > entry => Recoverable(e) /\ (~swallowed => Untouched(e) \/ SetAside(e) \/ Replaced(e))
  BY <1>1 DEF PairInv, RollsBack
<1>8. CASE entry = 1
  <2>1. entry' = 2 /\ phase' = "undo"
    BY <1>1, <1>8 DEF Loop
  <2>2. PairTypeOK'
    BY <1>1, <1>2, <2>1, EntryFacts DEF PairInv, PairTypeOK, Entries
  <2>3. \A e \in Entries : e # entry => /\ Recoverable(e)'
                                        /\ ~swallowed' => (Untouched(e) \/ SetAside(e) \/ Replaced(e))'
    BY <1>3, <1>4, <1>7, <1>8, EntryFacts
  <2>4. RollsBack'
    <3>1. \A e \in Entries : ~(e > entry') /\ (e < entry' => e = entry)
      BY <1>8, <2>1, EntryFacts
    <3>2. Recoverable(entry)' /\ (~swallowed' => (Untouched(entry) \/ SetAside(entry) \/ Replaced(entry))')
      BY <1>8, <2>1, <2>3, EntryFacts
    <3> QED
      BY <1>6, <2>1, <3>1, <3>2 DEF RollsBack
  <2> QED
    BY <1>1, <1>2, <2>1, <2>2, <2>4 DEF PairInv, RollsForward
<1>9. CASE entry = 2
  <2>1. entry' = 1 /\ phase' = "sweep"
    BY <1>1, <1>9 DEF Loop
  <2>2. PairTypeOK'
    BY <1>1, <1>2, <2>1, EntryFacts DEF PairInv, PairTypeOK, Entries
  <2>3. \A e \in Entries : Found(e)' /\ (~swallowed' => PutBack(e)')
    BY <1>3, <1>4, <1>6, <1>7, <1>9, EntryFacts
  <2> QED
    BY <1>1, <1>2, <2>1, <2>2, <2>3 DEF PairInv, RollsForward, RollsBack
<1> QED
  BY <1>8, <1>9, EntryFacts

\* Every loop keeps what was old within reach, or has replaced everything.
LEMMA OldIsKept ==
  ASSUME PairInv
  PROVE  OldPairKept
<1>1. CASE phase \in {"stage", "backup", "install", "discard"}
  <2>1. \A e \in Entries : Untouched(e) \/ SetAside(e) \/ Replaced(e)
    BY <1>1 DEF PairInv, RollsForward
  <2> QED
    BY <2>1 DEF OldPairKept, Untouched, SetAside, Replaced
<1>2. CASE phase \in {"undo", "restore", "sweep"}
  <2>1. ASSUME NEW e \in Entries PROVE Found(e)
    <3>1. e < entry \/ e = entry \/ e > entry
      BY EntryFacts
    <3>2. Recoverable(e) => Found(e)
      BY DEF Recoverable, Found
    <3> QED
      BY <1>2, <3>1, <3>2 DEF PairInv, RollsBack
  <2> QED
    BY <2>1 DEF OldPairKept, Found
<1>3. CASE phase = "over"
  BY <1>3 DEF PairInv, PairIsWhole
<1> QED
  BY <1>1, <1>2, <1>3 DEF PairInv, PairTypeOK

\* How the call ends.
LEMMA EndsInv ==
  ASSUME PairInv, Sweep \/ Discard \/ Killed
  PROVE  PairInv'
<1>1. phase # "over" /\ phase' = "over" /\ UNCHANGED <<before, file, staged, installed, entry, swallowed>>
  BY DEF Sweep, Discard, Killed, disk
<1>2. CASE Sweep
  <2>1. /\ \A e \in Entries : Found(e) /\ (~swallowed => PutBack(e))
        /\ UNCHANGED backups /\ outcome' = "failed" /\ temporary' \subseteq temporary
    BY <1>2 DEF Sweep, PairInv, RollsBack
  <2>2. ~swallowed => file = before /\ backups = {}
    BY <2>1, EntryFacts DEF PutBack
  <2>3. PairIsWhole'
    BY <1>1, <2>1, <2>2 DEF PairIsWhole, OldPairKept, OutcomeIsHonest, Found
  <2>4. PairTypeOK'
    BY <1>1, <2>1, EntryFacts DEF PairInv, PairTypeOK
  <2> QED
    BY <1>1, <2>1, <2>3, <2>4 DEF PairInv, RollsForward, RollsBack
<1>3. CASE Discard
  <2>1. /\ temporary = {} /\ AllNew /\ backups' \subseteq backups /\ UNCHANGED temporary
        /\ outcome' = IF backups' = {} THEN "written" ELSE "failed"
    BY <1>3 DEF Discard, PairInv, RollsForward, AllNew, Replaced
  <2>2. AllNew'
    BY <1>1, <2>1 DEF AllNew
  <2>3. PairIsWhole'
    BY <2>1, <2>2 DEF PairIsWhole, OldPairKept, OutcomeIsHonest
  <2>4. PairTypeOK'
    BY <1>1, <2>1, EntryFacts DEF PairInv, PairTypeOK
  <2> QED
    BY <1>1, <2>1, <2>3, <2>4 DEF PairInv, RollsForward, RollsBack
<1>4. CASE Killed
  <2>1. UNCHANGED <<backups, temporary>> /\ outcome' = "killed"
    BY <1>4 DEF Killed, disk
  <2>2. PairIsWhole'
    BY <1>1, <2>1, OldIsKept DEF PairIsWhole, OldPairKept, OutcomeIsHonest, AllNew
  <2>3. PairTypeOK'
    BY <1>1, <2>1, EntryFacts DEF PairInv, PairTypeOK
  <2> QED
    BY <1>1, <2>1, <2>2, <2>3 DEF PairInv, RollsForward, RollsBack
<1> QED
  BY <1>2, <1>3, <1>4

\* Each loop of atomicWritePair leaves the entries it has passed as the next one, or the
\* roll-back, needs them.
THEOREM PairInvariant == PairSpec => []PairInv
<1>1. ASSUME PairInit PROVE PairInv
  <2>1. /\ before \in [Entries -> {"old", "absent"}] /\ file = before
        /\ staged = {} /\ temporary = {} /\ backups = {} /\ installed = {}
        /\ phase = "stage" /\ entry = 1 /\ outcome = "running" /\ swallowed = FALSE
    BY <1>1 DEF PairInit
  <2>2. PairTypeOK
    <3>1. file \in [Entries -> {"old", "new", "absent"}]
      BY <2>1
    <3>2. 1 \in Entries
      BY DEF Entries
    <3> QED
      BY <2>1, <3>1, <3>2 DEF PairTypeOK
  <2> QED
    BY <2>1, <2>2 DEF PairInv, RollsForward, RollsBack, Untouched
<1>2. ASSUME PairInv, [PairNext]_pairVars PROVE PairInv'
  <2>1. CASE PairNext
    BY <1>2, <2>1, StageInv, BackUpInv, InstallInv, UndoInv, RestoreInv, EndsInv DEF PairNext
  <2>2. CASE UNCHANGED pairVars
    BY <1>2, <2>2
    DEF pairVars, disk, PairInv, PairTypeOK, RollsForward, RollsBack, Untouched, SetAside, Replaced,
        PutBack, Recoverable, Found, PairIsWhole, OldPairKept, OutcomeIsHonest, AllNew
  <2> QED
    BY <1>2, <2>1, <2>2
<1> QED
  BY <1>1, <1>2, PTL DEF PairSpec

\* Whatever fails and whenever the process is killed, the new pair is complete or the old one
\* can be found, and the call tells which (atomicWritePair).
THEOREM PairStaysWhole == PairSpec => []PairIsWhole
<1>1. PairInv => PairIsWhole
  <2> SUFFICES ASSUME PairInv PROVE PairIsWhole
    OBVIOUS
  <2>1. phase # "over" => OutcomeIsHonest
    BY DEF PairInv, OutcomeIsHonest
  <2> QED
    BY <2>1, OldIsKept DEF PairIsWhole, PairInv
<1> QED
  BY <1>1, PairInvariant, PTL
==============================================================================
