--------------------------- MODULE FileSinksProofs ---------------------------
(***************************************************************************)
(* Proofs about FileSinks, for any events, periods, retention and faults:  *)
(* what is saved and flushed is in a file until it is due for removal,     *)
(* whatever the other readers do meanwhile, a name that keeps coming keeps *)
(* its sample, and a frame of the counter shows the events of its window.  *)
(***************************************************************************)
EXTENDS FileSinks, FiniteSetTheorems, SequenceTheorems, TLAPS

(***************************************************************************)
(* Sums.  What is said of every sum of the first samples is shown by its   *)
(* least counterexample.                                                   *)
(***************************************************************************)
LEMMA LeastNatural ==
  ASSUME NEW S \in SUBSET Nat, NEW n \in S
  PROVE  \E m \in S : \A k \in S : m <= k
<1>1. PICK R : R = OpToRel(<, Nat)
  OBVIOUS
<1>2. IsWellFoundedOn(R, Nat)
  BY <1>1, NatLessThanWellFounded, Zenon
<1>3. \A j, k \in Nat : j < k => <<j, k>> \in R
  BY <1>1 DEF OpToRel
<1>4. PICK m \in S : \A k \in S : ~(<<k, m>> \in R)
  BY <1>2, WFMin
<1>5. ASSUME NEW k \in S PROVE m <= k
  <2>1. m \in Nat /\ k \in Nat
    OBVIOUS
  <2>2. ~(k < m)
    BY <1>3, <1>4, <2>1
  <2> QED
    BY <2>1, <2>2
<1> QED
  BY <1>5

AddsUp(f, s, n) ==
  /\ f \in [0 .. n -> Nat]
  /\ f[0] = 0
  /\ \A i \in 1 .. n : f[i] = f[i - 1] + s[i]

LEMMA SumsExist ==
  ASSUME NEW s \in Seq(Nat)
  PROVE  \A n \in 0 .. Len(s) : \E f : AddsUp(f, s, n)
<1> DEFINE Bad == {n \in 0 .. Len(s) : ~\E f : AddsUp(f, s, n)}
<1> SUFFICES ASSUME NEW b \in Bad PROVE FALSE
  OBVIOUS
<1>1. Bad \subseteq Nat /\ Len(s) \in Nat /\ \A i \in 1 .. Len(s) : s[i] \in Nat
  OBVIOUS
<1>2. PICK m \in Bad : \A k \in Bad : m <= k
  BY <1>1, LeastNatural
<1>3. CASE m = 0
  <2>1. AddsUp([i \in 0 .. 0 |-> 0], s, 0)
    BY DEF AddsUp
  <2> QED
    BY <1>3, <2>1
<1>4. CASE m # 0
  <2>1. m \in 1 .. Len(s) /\ m - 1 \in 0 .. Len(s) /\ m - 1 \notin Bad /\ m - 1 \in Nat
    <3>1. m \in 0 .. Len(s) /\ m - 1 < m
      BY <1>1
    <3>2. m - 1 \notin Bad
      <4> HIDE DEF Bad
      <4> QED
        BY <1>1, <1>2, <3>1
    <3> QED
      BY <1>1, <1>4, <3>1, <3>2
  <2>2. PICK f : AddsUp(f, s, m - 1)
    BY <2>1
  <2>3. PICK g : g = [i \in 0 .. m |-> IF i = m THEN f[m - 1] + s[m] ELSE f[i]]
    OBVIOUS
  <2>4. /\ g \in [0 .. m -> Nat] /\ g[0] = 0 /\ g[m] = f[m - 1] + s[m]
        /\ \A i \in 0 .. m - 1 : g[i] = f[i]
    BY <1>1, <1>4, <2>1, <2>2, <2>3 DEF AddsUp
  <2>5. \A i \in 1 .. m - 1 : f[i] = f[i - 1] + s[i]
    BY <2>2 DEF AddsUp
  <2>6. \A i \in 1 .. m : g[i] = g[i - 1] + s[i]
    <3> TAKE i \in 1 .. m
    <3>1. CASE i = m
      BY <2>1, <2>4, <3>1
    <3>2. CASE i # m
      <4>1. i \in 1 .. m - 1 /\ i - 1 \in 0 .. m - 1 /\ i \in 0 .. m - 1
        BY <2>1, <3>2
      <4> QED
        BY <2>4, <2>5, <4>1
    <3> QED
      BY <3>1, <3>2
  <2> QED
    BY <2>4, <2>6 DEF AddsUp
<1> QED
  BY <1>3, <1>4

LEMMA SumsAre ==
  ASSUME NEW s \in Seq(Nat)
  PROVE  AddsUp(Sums(s), s, Len(s))
<1> DEFINE Sum(f) == [i \in 0 .. Len(s) |-> IF i = 0 THEN 0 ELSE f[i - 1] + s[i]]
<1>1. Len(s) \in Nat
  OBVIOUS
<1>2. PICK f : AddsUp(f, s, Len(s))
  BY <1>1, SumsExist
<1>3. f = Sum(f)
  BY <1>1, <1>2 DEF AddsUp
<1>4. Sums(s) = Sum(Sums(s))
  BY <1>3 DEF Sums
<1>5. PICK g : g = Sums(s) /\ g = Sum(g)
  BY <1>4
<1>6. g[0] = 0 /\ \A i \in 1 .. Len(s) : g[i] = g[i - 1] + s[i]
  BY <1>1, <1>5
<1> DEFINE Bad == {n \in 0 .. Len(s) : g[n] \notin Nat}
<1>7. Bad = {}
  <2> HIDE DEF Sum
  <2> SUFFICES ASSUME NEW b \in Bad PROVE FALSE
    OBVIOUS
  <2> Bad \subseteq Nat
    BY <1>1
  <2>1. PICK m \in Bad : \A k \in Bad : m <= k
    BY LeastNatural
  <2>2. m # 0
    BY <1>6
  <2>3. m \in 1 .. Len(s) /\ m - 1 \in 0 .. Len(s) /\ m - 1 \notin Bad
    BY <1>1, <2>1, <2>2
  <2>4. g[m - 1] \in Nat /\ s[m] \in Nat /\ g[m] = g[m - 1] + s[m]
    BY <1>6, <2>3
  <2> QED
    BY <2>4
<1>8. g \in [0 .. Len(s) -> Nat]
  <2>1. g = [i \in 0 .. Len(s) |-> g[i]]
    BY <1>5
  <2>2. \A i \in 0 .. Len(s) : g[i] \in Nat
    BY <1>7
  <2> HIDE DEF Sum
  <2> QED
    BY <2>1, <2>2
<1> QED
  BY <1>5, <1>6, <1>8 DEF AddsUp

\* The total of samples that count the members of sets apart from each other.
CountsMembers(s, B) ==
  /\ \A i \in 1 .. Len(s) : IsFiniteSet(B[i]) /\ s[i] = Cardinality(B[i])
  /\ \A i, j \in 1 .. Len(s) : i # j => B[i] \cap B[j] = {}

LEMMA AggregateCounts ==
  ASSUME NEW s \in Seq(Nat), NEW B, CountsMembers(s, B)
  PROVE  Aggregate(s) = Cardinality(UNION {B[i] : i \in 1 .. Len(s)})
<1> DEFINE U(n) == UNION {B[i] : i \in 1 .. n}
           Right(n) == IsFiniteSet(U(n)) /\ Sums(s)[n] = Cardinality(U(n))
           Bad == {n \in 0 .. Len(s) : ~Right(n)}
<1>1. /\ Len(s) \in Nat /\ Sums(s)[0] = 0
      /\ \A i \in 1 .. Len(s) : Sums(s)[i] = Sums(s)[i - 1] + s[i]
  BY SumsAre DEF AddsUp
<1>2. Bad = {}
  <2> SUFFICES ASSUME NEW b \in Bad PROVE FALSE
    OBVIOUS
  <2>1. Bad \subseteq Nat
    BY <1>1
  <2>2. PICK m \in Bad : \A k \in Bad : m <= k
    <3> HIDE DEF Bad
    <3> QED
      BY <2>1, LeastNatural
  <2>3. m # 0
    <3>1. U(0) = {}
      OBVIOUS
    <3> QED
      BY <1>1, <3>1, FS_EmptySet
  <2>4. m \in 1 .. Len(s) /\ m - 1 \in 0 .. Len(s) /\ m - 1 < m /\ m - 1 \in Nat
    BY <1>1, <2>2, <2>3
  <2>5. Right(m - 1)
    <3>1. m - 1 \notin Bad
      <4> HIDE DEF Bad
      <4> QED
        BY <2>1, <2>2, <2>4
    <3> QED
      BY <2>4, <3>1
  <2>6. U(m) = U(m - 1) \cup B[m]
    <3>1. 1 .. m = (1 .. m - 1) \cup {m}
      BY <2>4
    <3> QED
      BY <3>1
  <2>7. U(m - 1) \cap B[m] = {}
    <3>1. \A i \in 1 .. m - 1 : B[i] \cap B[m] = {}
      <4> TAKE i \in 1 .. m - 1
      <4>1. i \in 1 .. Len(s) /\ i # m
        BY <1>1, <2>4
      <4> QED
        BY <2>4, <4>1 DEF CountsMembers
    <3> QED
      BY <3>1
  <2>8. IsFiniteSet(B[m]) /\ s[m] = Cardinality(B[m])
    BY <2>4 DEF CountsMembers
  <2>9. PICK X, Y : X = U(m - 1) /\ Y = B[m]
    OBVIOUS
  <2>10. /\ IsFiniteSet(X) /\ IsFiniteSet(Y) /\ X \cap Y = {}
         /\ Sums(s)[m - 1] = Cardinality(X) /\ s[m] = Cardinality(Y)
         /\ U(m) = X \cup Y
    BY <2>5, <2>6, <2>7, <2>8, <2>9
  <2> HIDE DEF U
  <2>11. /\ IsFiniteSet(X \cup Y) /\ Cardinality({}) = 0
         /\ Cardinality(X) \in Nat /\ Cardinality(Y) \in Nat
    BY <2>10, FS_Union, FS_CardinalityType, FS_EmptySet
  <2>12. Cardinality(X \cup Y) = Cardinality(X) + Cardinality(Y) - Cardinality(X \cap Y)
    BY <2>10, FS_Union
  <2>13. Cardinality(X \cup Y) = Cardinality(X) + Cardinality(Y)
    <3>1. Cardinality(X \cap Y) = 0
      BY <2>10, <2>11
    <3> QED
      BY <2>11, <2>12, <3>1
  <2>14. Sums(s)[m] = Cardinality(X) + Cardinality(Y)
    BY <1>1, <2>4, <2>10
  <2>15. Right(m)
    BY <2>10, <2>11, <2>13, <2>14
  <2> QED
    BY <2>2, <2>15
<1>3. Right(Len(s))
  <2>1. Len(s) \in 0 .. Len(s)
    BY <1>1
  <2> HIDE DEF Right
  <2> QED
    BY <1>2, <2>1
<1> QED
  BY <1>3 DEF Aggregate

(***************************************************************************)
(* The clock, in intervals.                                                *)
(***************************************************************************)
LEMMA DivIs ==
  ASSUME NEW d \in Nat \ {0}, NEW x \in Nat
  PROVE  x \div d \in Nat /\ (x \div d) * d <= x /\ x < (x \div d) * d + d
OBVIOUS

LEMMA DivGrows ==
  ASSUME NEW d \in Nat \ {0}, NEW x \in Nat, NEW y \in Nat, x <= y
  PROVE  x \div d <= y \div d
<1>1. PICK p, q \in Nat : p = x \div d /\ q = y \div d
  BY DivIs
<1>2. p * d <= x /\ y < q * d + d
  BY <1>1, DivIs
<1> SUFFICES ASSUME q < p PROVE FALSE
  BY <1>1
<1>3. PICK e \in Nat : p = q + 1 + e
  <2>1. p - q - 1 \in Nat /\ p = q + 1 + (p - q - 1)
    OBVIOUS
  <2> QED
    BY <2>1
<1>4. p * d = q * d + d + e * d
  BY <1>3
<1>5. e * d \in Nat /\ q * d \in Nat /\ p * d \in Nat
  OBVIOUS
<1> QED
  BY <1>2, <1>4, <1>5

LEMMA RoundedIs ==
  ASSUME NEW d \in Nat \ {0}
  PROVE  /\ \A t \in Nat : Rounded(t, d) \in Nat
         /\ \A t, u \in Nat : t <= u => Rounded(t, d) <= Rounded(u, d)
<1>1. PICK h \in Nat : h = d \div 2
  BY DivIs
<1>2. \A t \in Nat : Rounded(t, d) = (t + h) \div d /\ t + h \in Nat
  BY <1>1 DEF Rounded
<1>3. \A t \in Nat : Rounded(t, d) \in Nat
  BY <1>2, DivIs
<1>4. ASSUME NEW t \in Nat, NEW u \in Nat, t <= u
      PROVE  Rounded(t, d) <= Rounded(u, d)
  <2>1. PICK x, y \in Nat : x = t + h /\ y = u + h /\ x <= y
    BY <1>4
  <2>2. x \div d <= y \div d
    BY <2>1, DivGrows
  <2> QED
    BY <1>2, <2>1, <2>2
<1> QED
  BY <1>3, <1>4

(***************************************************************************)
(* The rings.                                                              *)
(***************************************************************************)
OfAge(f, now, c, age) == {k \in DOMAIN c : Age(f, now, c[k]) = age}
Within(f, now, c) == {k \in DOMAIN c : Age(f, now, c[k]) < f.len}

Framed(f) == f.interval \in Nat \ {0} /\ f.len \in Nat \ {0}

LEMMA CountedAreFinite ==
  ASSUME NEW f, NEW now, NEW c \in Seq(Nat)
  PROVE  /\ \A age : IsFiniteSet(OfAge(f, now, c, age))
         /\ IsFiniteSet(Within(f, now, c))
<1>1. IsFiniteSet(DOMAIN c)
  <2>1. DOMAIN c = 1 .. Len(c) /\ Len(c) \in Int /\ 1 \in Int
    OBVIOUS
  <2> QED
    BY <2>1, FS_Interval
<1>2. Within(f, now, c) \subseteq DOMAIN c
  BY DEF Within
<1>3. \A age : OfAge(f, now, c, age) \subseteq DOMAIN c
  BY DEF OfAge
<1> QED
  BY <1>1, <1>2, <1>3, FS_Subset

LEMMA AgeIs ==
  ASSUME NEW f, Framed(f), NEW c \in Seq(Nat), NEW now \in Nat,
         \A k \in DOMAIN c : c[k] <= now
  PROVE  \A k \in DOMAIN c : Age(f, now, c[k]) \in Nat
<1> SUFFICES ASSUME NEW k \in DOMAIN c PROVE Age(f, now, c[k]) \in Nat
  OBVIOUS
<1>1. PICK x \in Nat : x = c[k] /\ x <= now
  OBVIOUS
<1>2. Rounded(x, f.interval) \in Nat /\ Rounded(now, f.interval) \in Nat
      /\ Rounded(x, f.interval) <= Rounded(now, f.interval)
  BY <1>1, RoundedIs DEF Framed
<1> QED
  BY <1>1, <1>2 DEF Age

\* Sample j of s has the members of c of age j - 1.
SamplesOf(s, f, now, c) ==
  /\ s \in Seq(Nat) /\ Len(s) = f.len
  /\ \A j \in 1 .. f.len : s[j] = CountedAt(f, now, c, j - 1)

\* Samples of the members of each age add up to the members of the window.
LEMMA TotalIs ==
  ASSUME NEW f, Framed(f), NEW c \in Seq(Nat), NEW now \in Nat,
         \A k \in DOMAIN c : c[k] <= now,
         NEW s, SamplesOf(s, f, now, c)
  PROVE  Aggregate(s) = CountedWithin(f, now, c)
<1>0. /\ s \in Seq(Nat) /\ Len(s) = f.len
      /\ \A j \in 1 .. f.len : s[j] = CountedAt(f, now, c, j - 1)
  BY DEF SamplesOf
<1> DEFINE B == [j \in 1 .. Len(s) |-> OfAge(f, now, c, j - 1)]
<1>1. \A j \in 1 .. Len(s) : B[j] = OfAge(f, now, c, j - 1)
  OBVIOUS
<1>2. \A j \in 1 .. Len(s) : IsFiniteSet(B[j]) /\ s[j] = Cardinality(B[j])
  <2>1. \A age : CountedAt(f, now, c, age) = Cardinality(OfAge(f, now, c, age))
    BY DEF CountedAt, OfAge
  <2> QED
    BY <1>0, <1>1, <2>1, CountedAreFinite
<1>3. \A i, j \in 1 .. Len(s) : i # j => B[i] \cap B[j] = {}
  BY <1>1 DEF OfAge
<1>4. UNION {B[j] : j \in 1 .. Len(s)} = Within(f, now, c)
  <2>1. \A k \in DOMAIN c : Age(f, now, c[k]) \in Nat
    BY AgeIs
  <2>2. f.len \in Nat
    BY DEF Framed
  <2>3. ASSUME NEW k \in Within(f, now, c)
        PROVE  \E j \in 1 .. Len(s) : k \in B[j]
    <3>1. k \in DOMAIN c /\ Age(f, now, c[k]) < f.len
      BY DEF Within
    <3>2. PICK a \in Nat : a = Age(f, now, c[k])
      BY <2>1, <3>1
    <3>3. a + 1 \in 1 .. Len(s) /\ (a + 1) - 1 = a
      BY <1>0, <2>2, <3>1, <3>2
    <3>4. k \in OfAge(f, now, c, a)
      BY <3>1, <3>2 DEF OfAge
    <3> QED
      BY <1>1, <3>3, <3>4
  <2>4. ASSUME NEW j \in 1 .. Len(s), NEW k \in B[j]
        PROVE  k \in Within(f, now, c)
    <3>1. k \in DOMAIN c /\ Age(f, now, c[k]) = j - 1
      BY <1>1 DEF OfAge
    <3>2. j - 1 < f.len
      BY <1>0, <2>2
    <3> QED
      BY <3>1, <3>2 DEF Within
  <2> HIDE DEF B
  <2> QED
    BY <2>3, <2>4
<1>5. Aggregate(s) = Cardinality(UNION {B[j] : j \in 1 .. Len(s)})
  <2>1. CountsMembers(s, B)
    BY <1>2, <1>3 DEF CountsMembers
  <2> HIDE DEF B
  <2> QED
    BY <1>0, <2>1, AggregateCounts
<1> QED
  BY <1>4, <1>5 DEF CountedWithin, Within

\* What is shifted shows the same times, later.
LEMMA ShiftedIs ==
  ASSUME NEW f, Framed(f), NEW c \in Seq(Nat), NEW now \in Nat,
         \A k \in DOMAIN c : c[k] <= now,
         NEW s, SamplesOf(s, f, now, c), NEW t \in Nat, NEW roll \in Nat,
         roll = Rounded(t, f.interval) - Rounded(now, f.interval)
  PROVE  SamplesOf(Shifted(s, roll), f, t, c)
<1>0. /\ s \in Seq(Nat) /\ Len(s) = f.len
      /\ \A j \in 1 .. f.len : s[j] = CountedAt(f, now, c, j - 1)
  BY DEF SamplesOf
<1>1. PICK L \in Nat \ {0} : L = f.len /\ DOMAIN s = 1 .. L
  BY <1>0 DEF Framed
<1>2. PICK g : g = Shifted(s, roll)
  OBVIOUS
<1>3. g = [i \in 1 .. L |-> IF i <= roll THEN 0 ELSE s[i - roll]]
  BY <1>1, <1>2 DEF Shifted
<1>4. \A i \in 1 .. L : (IF i <= roll THEN 0 ELSE s[i - roll]) \in Nat
  <2> TAKE i \in 1 .. L
  <2>1. ~(i <= roll) => i - roll \in 1 .. L
    OBVIOUS
  <2>2. \A j \in 1 .. L : s[j] \in Nat
    BY <1>0, <1>1
  <2> QED
    BY <2>1, <2>2
<1>5. g \in [1 .. L -> Nat]
  BY <1>3, <1>4
<1>6. g \in Seq(Nat) /\ Len(g) = L
  BY <1>5
<1>7. PICK N, T \in Nat : N = Rounded(now, f.interval) /\ T = Rounded(t, f.interval)
  BY RoundedIs DEF Framed
<1>8. T = N + roll
  BY <1>7
<1>9. \A k \in DOMAIN c : /\ Age(f, now, c[k]) \in Nat
                          /\ Age(f, t, c[k]) = Age(f, now, c[k]) + roll
  <2> TAKE k \in DOMAIN c
  <2>1. Age(f, now, c[k]) \in Nat
    BY AgeIs
  <2>2. PICK x \in Nat : x = Rounded(c[k], f.interval)
    <3>1. c[k] \in Nat
      OBVIOUS
    <3> QED
      BY <3>1, RoundedIs DEF Framed
  <2>3. Age(f, now, c[k]) = N - x /\ Age(f, t, c[k]) = T - x
    BY <1>7, <2>2 DEF Age
  <2> QED
    BY <1>8, <2>1, <2>3
<1>10. ASSUME NEW j \in 1 .. L
       PROVE  g[j] = CountedAt(f, t, c, j - 1)
  <2>1. CASE j <= roll
    <3>1. \A k \in DOMAIN c : Age(f, t, c[k]) # j - 1
      BY <1>9, <2>1
    <3>2. CountedAt(f, t, c, j - 1) = 0
      BY <3>1, FS_EmptySet DEF CountedAt
    <3> QED
      BY <1>3, <2>1, <3>2
  <2>2. CASE ~(j <= roll)
    <3>1. j - roll \in 1 .. L /\ (j - roll) - 1 = j - 1 - roll
      BY <2>2
    <3>2. g[j] = s[j - roll]
      BY <1>3, <2>2
    <3>3. s[j - roll] = CountedAt(f, now, c, j - 1 - roll)
      BY <1>0, <1>1, <3>1
    <3>4. \A k \in DOMAIN c :
            Age(f, now, c[k]) = j - 1 - roll <=> Age(f, t, c[k]) = j - 1
      BY <1>9
    <3>5. CountedAt(f, now, c, j - 1 - roll) = CountedAt(f, t, c, j - 1)
      BY <3>4 DEF CountedAt
    <3> QED
      BY <3>2, <3>3, <3>5
  <2> QED
    BY <2>1, <2>2
<1> QED
  BY <1>1, <1>2, <1>6, <1>10 DEF SamplesOf

\* Rolled to a later time, a ring shows the same times then.
LEMMA RollShows ==
  ASSUME NEW f, Framed(f), NEW c \in Seq(Nat), NEW ts, Shows(ts, f, c),
         NEW t \in Nat, ts.now <= t
  PROVE  Shows(Roll(ts, t), f, c) /\ Roll(ts, t).now = t
<1>1. PICK now, total \in Nat, s \in Seq(Nat) :
        /\ ts = [interval |-> f.interval, now |-> now, total |-> total, samples |-> s]
        /\ now = ts.now /\ total = ts.total /\ s = ts.samples
  BY DEF Shows
<1>2. /\ now <= t /\ Len(s) = f.len
      /\ \A k \in DOMAIN c : c[k] <= now
      /\ \A j \in 1 .. f.len : s[j] = CountedAt(f, now, c, j - 1)
      /\ total = CountedWithin(f, now, c)
  BY <1>1 DEF Shows
<1>3. PICK N, T \in Nat : /\ N = Rounded(now, f.interval)
                          /\ T = Rounded(t, f.interval) /\ N <= T
  BY <1>2, RoundedIs DEF Framed
<1>4. PICK roll \in Nat : roll = T - N
  BY <1>3
<1>5. \A k \in DOMAIN c : c[k] <= t
  BY <1>2
<1>6. PICK g : g = Shifted(s, roll)
  OBVIOUS
<1>7. Roll(ts, t) = IF roll <= 0 THEN [ts EXCEPT !.now = t]
                    ELSE [ts EXCEPT !.now = t, !.samples = g, !.total = Aggregate(g)]
  BY <1>1, <1>3, <1>4, <1>6 DEF Roll
<1>8. CASE roll <= 0
  <2>1. PICK r : r = [interval |-> f.interval, now |-> t, total |-> total, samples |-> s]
    OBVIOUS
  <2>2. Roll(ts, t) = r
    BY <1>1, <1>7, <1>8, <2>1
  <2>3. N = T
    BY <1>3, <1>4, <1>8
  <2>4. \A k \in DOMAIN c : Age(f, now, c[k]) = Age(f, t, c[k])
    BY <1>3, <2>3 DEF Age
  <2>5. /\ \A j \in 1 .. f.len : CountedAt(f, now, c, j - 1) = CountedAt(f, t, c, j - 1)
        /\ CountedWithin(f, now, c) = CountedWithin(f, t, c)
    BY <2>4 DEF CountedAt, CountedWithin
  <2>6. Shows(r, f, c)
    BY <1>2, <1>5, <2>1, <2>5 DEF Shows
  <2> QED
    BY <2>1, <2>2, <2>6
<1>9. CASE ~(roll <= 0)
  <2>1. SamplesOf(s, f, now, c)
    BY <1>2 DEF SamplesOf
  <2>2. roll = Rounded(t, f.interval) - Rounded(now, f.interval)
    BY <1>3, <1>4
  <2>7. SamplesOf(g, f, t, c)
    BY <1>2, <1>6, <2>1, <2>2, ShiftedIs
  <2>8. Aggregate(g) = CountedWithin(f, t, c)
    BY <1>5, <2>7, TotalIs
  <2>3. PICK sum \in Nat : sum = Aggregate(g)
    <3>1. CountedWithin(f, t, c) \in Nat
      BY CountedAreFinite, FS_CardinalityType DEF CountedWithin, Within
    <3> QED
      BY <2>8, <3>1
  <2>4. PICK r : r = [interval |-> f.interval, now |-> t, total |-> sum, samples |-> g]
    OBVIOUS
  <2>5. Roll(ts, t) = r
    BY <1>1, <1>7, <1>9, <2>3, <2>4
  <2>6. Shows(r, f, c)
    BY <1>5, <2>3, <2>4, <2>7, <2>8 DEF Shows, SamplesOf
  <2> QED
    BY <2>4, <2>5, <2>6
<1> QED
  BY <1>8, <1>9

IsRing(r, d, now, total, s) ==
  r = [interval |-> d, now |-> now, total |-> total, samples |-> s]

LEMMA OneMoreIs ==
  ASSUME NEW ts, NEW d, NEW now, NEW total, NEW s, IsRing(ts, d, now, total, s)
  PROVE  IsRing([ts EXCEPT !.total = @ + 1, !.samples[1] = @ + 1],
                d, now, total + 1, [s EXCEPT ![1] = @ + 1])
<1>1. ts = [interval |-> d, now |-> now, total |-> total, samples |-> s]
  BY DEF IsRing
<1>2. PICK sum, g : sum = total + 1 /\ g = [s EXCEPT ![1] = @ + 1]
  OBVIOUS
<1>3. PICK q : q = [ts EXCEPT !.total = sum]
  OBVIOUS
<1>4. q = [interval |-> d, now |-> now, total |-> sum, samples |-> s]
  BY <1>1, <1>3
<1>5. [q EXCEPT !.samples = g] = [interval |-> d, now |-> now, total |-> sum, samples |-> g]
  BY <1>4
<1>6. [ts EXCEPT !.total = sum, !.samples = g] = [q EXCEPT !.samples = g]
  BY <1>3
<1>7. [ts EXCEPT !.total = @ + 1, !.samples[1] = @ + 1]
        = [ts EXCEPT !.total = sum, !.samples = g]
  <2>1. ts.total = total /\ ts.samples = s
    BY <1>1
  <2> QED
    BY <1>2, <2>1
<1> QED
  BY <1>2, <1>5, <1>6, <1>7 DEF IsRing

\* One more at the ring's own time.
LEMMA OneMoreShows ==
  ASSUME NEW f, Framed(f), NEW c \in Seq(Nat), NEW ts, Shows(ts, f, c)
  PROVE  Shows([ts EXCEPT !.total = @ + 1, !.samples[1] = @ + 1], f, Append(c, ts.now))
<1>1. PICK now, total \in Nat, s \in Seq(Nat) :
        /\ ts = [interval |-> f.interval, now |-> now, total |-> total, samples |-> s]
        /\ now = ts.now /\ total = ts.total /\ s = ts.samples
  BY DEF Shows
<1>2. /\ Len(s) = f.len
      /\ \A k \in DOMAIN c : c[k] <= now
      /\ \A j \in 1 .. f.len : s[j] = CountedAt(f, now, c, j - 1)
      /\ total = CountedWithin(f, now, c)
  BY <1>1 DEF Shows
<1>3. PICK n \in Nat : n = Len(c) /\ DOMAIN c = 1 .. n
  OBVIOUS
<1>4. PICK b \in Seq(Nat) :
        /\ b = Append(c, now) /\ DOMAIN b = 1 .. n + 1 /\ b[n + 1] = now
        /\ \A k \in 1 .. n : b[k] = c[k]
  <2>1. PICK b : b = Append(c, now)
    OBVIOUS
  <2>2. b \in Seq(Nat) /\ Len(b) = n + 1
    BY <1>3, <2>1
  <2>3. b[n + 1] = now /\ \A k \in 1 .. n : b[k] = c[k]
    BY <1>3, <2>1
  <2>4. DOMAIN b = 1 .. n + 1
    BY <2>2
  <2> QED
    BY <2>1, <2>2, <2>3, <2>4
<1>5. PICK g \in Seq(Nat) : /\ g = [s EXCEPT ![1] = @ + 1] /\ Len(g) = f.len
                            /\ g[1] = s[1] + 1
              /\ \A j \in 2 .. f.len : g[j] = s[j]
  <2>1. 1 \in 1 .. Len(s) /\ s[1] + 1 \in Nat
    BY <1>2 DEF Framed
  <2>2. PICK g : g = [s EXCEPT ![1] = s[1] + 1]
    OBVIOUS
  <2>3. g \in Seq(Nat) /\ Len(g) = Len(s) /\ g[1] = s[1] + 1
        /\ \A j \in 1 .. Len(s) : j # 1 => g[j] = s[j]
    BY <2>1, <2>2, ExceptSeq
  <2>4. \A j \in 2 .. f.len : j \in 1 .. Len(s) /\ j # 1
    BY <1>2 DEF Framed
  <2> QED
    BY <1>2, <2>2, <2>3, <2>4
<1>6. Age(f, now, now) = 0
  <2>1. Rounded(now, f.interval) \in Nat
    BY RoundedIs DEF Framed
  <2> QED
    BY <2>1 DEF Age
<1>7. n + 1 \notin 1 .. n
  OBVIOUS
<1>8. \A k \in 1 .. n + 1 : k \in 1 .. n \/ k = n + 1
  OBVIOUS
<1>9. OfAge(f, now, b, 0) = OfAge(f, now, c, 0) \cup {n + 1}
  BY <1>3, <1>4, <1>6, <1>8 DEF OfAge
<1>10. Within(f, now, b) = Within(f, now, c) \cup {n + 1}
  BY <1>3, <1>4, <1>6, <1>8 DEF Within, Framed
<1>11. \A age : age # 0 => OfAge(f, now, b, age) = OfAge(f, now, c, age)
  BY <1>3, <1>4, <1>6, <1>8 DEF OfAge
<1>12. /\ n + 1 \notin OfAge(f, now, c, 0) /\ n + 1 \notin Within(f, now, c)
       /\ IsFiniteSet(OfAge(f, now, c, 0)) /\ IsFiniteSet(Within(f, now, c))
  <2>1. n + 1 \notin OfAge(f, now, c, 0) /\ n + 1 \notin Within(f, now, c)
    BY <1>3, <1>7 DEF OfAge, Within
  <2> QED
    BY <2>1, CountedAreFinite
<1>13. \A S, x : IsFiniteSet(S) /\ x \notin S =>
         Cardinality(S \cup {x}) = Cardinality(S) + 1
  BY FS_AddElement
<1>14. /\ \A age : /\ CountedAt(f, now, b, age) = Cardinality(OfAge(f, now, b, age))
                   /\ CountedAt(f, now, c, age) = Cardinality(OfAge(f, now, c, age))
       /\ CountedWithin(f, now, b) = Cardinality(Within(f, now, b))
       /\ CountedWithin(f, now, c) = Cardinality(Within(f, now, c))
  BY DEF CountedAt, CountedWithin, OfAge, Within
<1>15. /\ CountedAt(f, now, b, 0) = CountedAt(f, now, c, 0) + 1
       /\ CountedWithin(f, now, b) = CountedWithin(f, now, c) + 1
       /\ \A age : age # 0 => CountedAt(f, now, b, age) = CountedAt(f, now, c, age)
  <2>1. Cardinality(OfAge(f, now, b, 0)) = Cardinality(OfAge(f, now, c, 0)) + 1
    BY <1>9, <1>12, <1>13
  <2>2. Cardinality(Within(f, now, b)) = Cardinality(Within(f, now, c)) + 1
    BY <1>10, <1>12, <1>13
  <2> QED
    BY <1>11, <1>14, <2>1, <2>2
<1>16. \A j \in 1 .. f.len : g[j] = CountedAt(f, now, b, j - 1)
  <2> TAKE j \in 1 .. f.len
  <2>1. CASE j = 1
    BY <1>2, <1>5, <1>15, <2>1
  <2>2. CASE j # 1
    <3>1. j \in 2 .. f.len /\ j - 1 # 0
      BY <2>2
    <3> QED
      BY <1>2, <1>5, <1>15, <3>1
  <2> QED
    BY <2>1, <2>2
<1>17. PICK sum \in Nat : sum = total + 1
  OBVIOUS
<1>18. PICK r : r = [ts EXCEPT !.total = @ + 1, !.samples[1] = @ + 1]
  OBVIOUS
<1>19. r = [interval |-> f.interval, now |-> now, total |-> sum, samples |-> g]
  <2>1. IsRing(ts, f.interval, now, total, s)
    BY <1>1 DEF IsRing
  <2>2. IsRing([ts EXCEPT !.total = @ + 1, !.samples[1] = @ + 1],
               f.interval, now, total + 1, [s EXCEPT ![1] = @ + 1])
    BY <2>1, OneMoreIs, Zenon
  <2>3. IsRing(r, f.interval, now, sum, g)
    BY <1>5, <1>17, <1>18, <2>2
  <2> QED
    BY <2>3 DEF IsRing
<1>20. \A k \in DOMAIN b : b[k] <= now
  BY <1>2, <1>3, <1>4, <1>8
<1>21. Shows(r, f, b)
  BY <1>2, <1>5, <1>15, <1>16, <1>17, <1>19, <1>20 DEF Shows
<1> QED
  BY <1>1, <1>4, <1>18, <1>21

LEMMA FrameIs ==
  ASSUME NEW i \in DOMAIN Frames
  PROVE  Framed(Frames[i])
BY FramesAssumption DEF FramesAssumption, ToSet, Framed

LEMMA NewShows ==
  ASSUME NEW f, Framed(f)
  PROVE  Shows(NewTimeseries(f), f, <<>>) /\ NewTimeseries(f).now = 0
<1>1. PICK L \in Nat \ {0}, s \in Seq(Nat) :
        L = f.len /\ s = [i \in 1 .. L |-> 0] /\ Len(s) = L
  <2>1. PICK L \in Nat \ {0} : L = f.len
    BY DEF Framed
  <2>2. PICK s : s = [i \in 1 .. L |-> 0]
    OBVIOUS
  <2>3. s \in [1 .. L -> Nat]
    BY <2>2
  <2>4. s \in Seq(Nat) /\ Len(s) = L
    BY <2>3
  <2> QED
    BY <2>1, <2>2, <2>4
<1>2. PICK r : r = [interval |-> f.interval, now |-> 0, total |-> 0, samples |-> s]
  OBVIOUS
<1>3. NewTimeseries(f) = r
  BY <1>1, <1>2 DEF NewTimeseries
<1>4. PICK c : c = <<>>
  OBVIOUS
<1>5. DOMAIN c = {}
  BY <1>4
<1>6. /\ \A age : CountedAt(f, 0, c, age) = 0
      /\ CountedWithin(f, 0, c) = 0
  BY <1>5, FS_EmptySet DEF CountedAt, CountedWithin
<1>7. Shows(r, f, c)
  BY <1>1, <1>2, <1>5, <1>6 DEF Shows
<1> QED
  BY <1>2, <1>3, <1>4, <1>7

LEMMA NewCounterFits ==
  ASSUME eventsWritten = NewCounter, counted = <<>>, clock \in Nat
  PROVE  CounterInv
<1>1. counted \in Seq(Nat) /\ DOMAIN eventsWritten = DOMAIN Frames
  BY DEF NewCounter
<1>2. \A i \in DOMAIN Frames : eventsWritten[i] = NewTimeseries(Frames[i])
  BY DEF NewCounter
<1>3. \A i \in DOMAIN Frames :
        Shows(eventsWritten[i], Frames[i], counted) /\ eventsWritten[i].now = 0
  BY <1>2, FrameIs, NewShows
<1> QED
  BY <1>1, <1>3 DEF CounterInv

\* An event is counted in every frame.
LEMMA CountedFits ==
  ASSUME CounterInv, clock \in Nat, clock' = clock,
         eventsWritten' = AddAt(eventsWritten, 1, clock),
         counted' = Append(counted, clock)
  PROVE  CounterInv'
<1>1. counted \in Seq(Nat) /\ DOMAIN eventsWritten = DOMAIN Frames
  BY DEF CounterInv
<1>2. counted' \in Seq(Nat)
  BY <1>1
<1>3. /\ DOMAIN eventsWritten' = DOMAIN Frames
      /\ \A i \in DOMAIN Frames :
           eventsWritten'[i] = [Roll(eventsWritten[i], clock) EXCEPT !.total = @ + 1,
                                                                    !.samples[1] = @ + 1]
  BY <1>1 DEF AddAt
<1>4. ASSUME NEW i \in DOMAIN Frames
      PROVE  Shows(eventsWritten'[i], Frames[i], counted') /\ eventsWritten'[i].now <= clock
  <2>1. PICK f : f = Frames[i] /\ Framed(f)
    BY FrameIs
  <2>2. PICK ts : ts = eventsWritten[i] /\ Shows(ts, f, counted) /\ ts.now <= clock
    BY <2>1 DEF CounterInv
  <2>3. PICK r : r = Roll(ts, clock) /\ Shows(r, f, counted) /\ r.now = clock
    BY <1>1, <2>1, <2>2, RollShows
  <2>4. PICK q : q = [r EXCEPT !.total = @ + 1, !.samples[1] = @ + 1]
    OBVIOUS
  <2>5. Shows(q, f, Append(counted, r.now))
    BY <1>1, <2>1, <2>3, <2>4, OneMoreShows
  <2>6. q.now = r.now
    BY <2>3, <2>4 DEF Shows
  <2>7. eventsWritten'[i] = q
    BY <1>3, <2>2, <2>3, <2>4
  <2> QED
    BY <2>1, <2>3, <2>5, <2>6, <2>7
<1> QED
  BY <1>2, <1>3, <1>4 DEF CounterInv

\* Time passes, at most.
LEMMA CounterStays ==
  ASSUME CounterInv, clock \in Nat, clock' \in Nat, clock <= clock',
         UNCHANGED metrics
  PROVE  CounterInv'
<1>1. eventsWritten' = eventsWritten /\ counted' = counted
  BY DEF metrics
<1>2. ASSUME NEW i \in DOMAIN Frames PROVE eventsWritten[i].now <= clock'
  <2>1. eventsWritten[i].now \in Nat /\ eventsWritten[i].now <= clock
    BY DEF CounterInv, Shows
  <2> QED
    BY <2>1
<1> QED
  BY <1>1, <1>2 DEF CounterInv

LEMMA CounterStep ==
  ASSUME TimesInv, CounterInv, [Next]_vars
  PROVE  CounterInv'
<1>1. clock \in Nat
  BY DEF TimesInv
<1>2. CASE Elapse
  BY <1>1, <1>2, CounterStays DEF Elapse
<1>3. ASSUME NEW r \in Readers, WriteSampler(r) PROVE CounterInv'
  <2>1. clock' = clock
    BY <1>3 DEF WriteSampler
  <2>2. \/ UNCHANGED metrics
        \/ /\ eventsWritten' = AddAt(eventsWritten, 1, clock)
           /\ counted' = Append(counted, clock)
    BY <1>3 DEF WriteSampler, metrics
  <2> QED
    BY <1>1, <2>1, <2>2, CountedFits, CounterStays
<1>4. ASSUME NEW r \in Readers,
             \/ SaveBlock(r) \/ FlushBlock(r) \/ WriteFile(r)
             \/ EndFlush(r) \/ EndClean(r) \/ BreakOff(r)
      PROVE  CounterInv'
  <2>1. clock' = clock /\ UNCHANGED metrics
    BY <1>4 DEF SaveBlock, FlushBlock, WriteFile, EndFlush, EndClean, BreakOff
  <2> QED
    BY <1>1, <2>1, CounterStays
<1>5. CASE Reload \/ UNCHANGED vars
  <2>1. clock' = clock /\ UNCHANGED metrics
    BY <1>5 DEF Reload, vars, metrics
  <2> QED
    BY <1>1, <2>1, CounterStays
<1>6. CASE Kill \/ PowerFailure
  <2>1. eventsWritten' = NewCounter /\ counted' = <<>> /\ clock' \in Nat
    BY <1>1, <1>6 DEF Kill, PowerFailure, Restart
  <2>2. counted' \in Seq(Nat) /\ DOMAIN eventsWritten' = DOMAIN Frames
    BY <2>1 DEF NewCounter
  <2>3. \A i \in DOMAIN Frames : eventsWritten'[i] = NewTimeseries(Frames[i])
    BY <2>1 DEF NewCounter
  <2>4. \A i \in DOMAIN Frames :
          Shows(eventsWritten'[i], Frames[i], counted') /\ eventsWritten'[i].now = 0
    BY <2>1, <2>3, FrameIs, NewShows
  <2> QED
    BY <2>1, <2>2, <2>4 DEF CounterInv
<1> QED
  BY <1>2, <1>3, <1>4, <1>5, <1>6 DEF Next

LEMMA WindowNow ==
  ASSUME TimesInv, CounterInv
  PROVE  WindowShown
<1> SUFFICES ASSUME NEW i \in DOMAIN Frames
             PROVE  Shown(eventsWritten, i, clock) = CountedWithin(Frames[i], clock, counted)
  BY DEF WindowShown
<1>1. clock \in Nat /\ counted \in Seq(Nat)
  BY DEF TimesInv, CounterInv
<1>2. Shows(eventsWritten[i], Frames[i], counted) /\ eventsWritten[i].now <= clock
  BY DEF CounterInv
<1>3. PICK r : /\ r = Roll(eventsWritten[i], clock)
               /\ Shows(r, Frames[i], counted) /\ r.now = clock
  BY <1>1, <1>2, FrameIs, RollShows
<1>4. r.total = CountedWithin(Frames[i], clock, counted)
  BY <1>3 DEF Shows
<1> QED
  BY <1>3, <1>4 DEF Shown

-----------------------------------------------------------------------------
USE RotatorAssumption, SamplerAssumption, NameOfAssumption, BoundsAssumption
    DEF RotatorAssumption, SamplerAssumption, NameOfAssumption, BoundsAssumption

(***************************************************************************)
(* Periods.                                                                *)
(***************************************************************************)
LEMMA InPeriod ==
  ASSUME NEW t \in Nat
  PROVE  /\ PeriodOf(t) \in Nat /\ PeriodOf(t) # NoTs
         /\ PeriodOf(t) * Period <= t /\ t < PeriodOf(t) * Period + Period
BY DEF PeriodOf, NoTs

LEMMA PeriodsAre ==
  /\ \A t \in 0 .. MaxTick : t \in Nat /\ PeriodOf(t) \in Periods
  /\ \A h \in Periods : h \in Nat /\ h # NoTs
BY InPeriod DEF Periods, NoTs

\* The file of an event is kept as long as SavedKept asks for.
LEMMA NotYetOld ==
  ASSUME NEW t \in Nat, NEW a \in Nat, t + Period <= a + Retention
  PROVE  ~Old(PeriodOf(a), t)
<1>1. PICK h \in Nat : h = PeriodOf(a)
  BY InPeriod
<1>2. h * Period \in Nat
  BY <1>1
<1>3. a < h * Period + Period
  BY <1>1, InPeriod
<1> QED
  BY <1>1, <1>2, <1>3 DEF Old

LEMMA OldStays ==
  ASSUME NEW h \in Nat, NEW t \in Nat, Old(h, t)
  PROVE  Old(h, t + 1)
<1>1. h * Period \in Nat
  OBVIOUS
<1> QED
  BY <1>1 DEF Old

(***************************************************************************)
(* Directories.                                                            *)
(***************************************************************************)
LEMMA DirectoryIs ==
  ASSUME NEW d
  PROVE  IsDirectory(d) <=>
           /\ DOMAIN d \subseteq Periods
           /\ d \in [DOMAIN d -> Contents]
BY DEF IsDirectory

LEMMA WithIs ==
  ASSUME NEW d, IsDirectory(d), NEW h \in Periods, NEW f \in Contents
  PROVE  /\ IsDirectory(With(d, h, f))
         /\ DOMAIN With(d, h, f) = DOMAIN d \cup {h}
         /\ With(d, h, f)[h] = f
         /\ \A k \in DOMAIN d : k # h => With(d, h, f)[k] = d[k]
<1>1. DOMAIN d \subseteq Periods /\ d \in [DOMAIN d -> Contents]
  BY DirectoryIs
<1>2. /\ DOMAIN With(d, h, f) = DOMAIN d \cup {h}
      /\ With(d, h, f) \in [DOMAIN d \cup {h} -> Contents]
      /\ With(d, h, f)[h] = f
      /\ \A k \in DOMAIN d : k # h => With(d, h, f)[k] = d[k]
  BY <1>1 DEF With
<1> QED
  BY <1>1, <1>2, DirectoryIs

LEMMA RestrictIs ==
  ASSUME NEW d, IsDirectory(d), NEW S
  PROVE  /\ IsDirectory(Restrict(d, DOMAIN d \ S))
         /\ DOMAIN Restrict(d, DOMAIN d \ S) = DOMAIN d \ S
         /\ \A k \in DOMAIN d \ S : Restrict(d, DOMAIN d \ S)[k] = d[k]
<1>1. DOMAIN d \subseteq Periods /\ d \in [DOMAIN d -> Contents]
  BY DirectoryIs
<1>2. /\ DOMAIN Restrict(d, DOMAIN d \ S) = DOMAIN d \ S
      /\ Restrict(d, DOMAIN d \ S) \in [DOMAIN d \ S -> Contents]
      /\ \A k \in DOMAIN d \ S : Restrict(d, DOMAIN d \ S)[k] = d[k]
  BY <1>1 DEF Restrict
<1> QED
  BY <1>1, <1>2, DirectoryIs

LEMMA SyncedOnlyIs ==
  ASSUME NEW d, IsDirectory(d)
  PROVE  /\ IsDirectory(SyncedOnly(d)) /\ DOMAIN SyncedOnly(d) = DOMAIN d
         /\ \A k \in DOMAIN d : /\ SyncedOnly(d)[k].has = d[k].safe
                                /\ SyncedOnly(d)[k].safe = d[k].safe
<1>1. DOMAIN d \subseteq Periods /\ d \in [DOMAIN d -> Contents]
  BY DirectoryIs
<1>2. /\ DOMAIN SyncedOnly(d) = DOMAIN d
      /\ SyncedOnly(d) \in [DOMAIN d -> Contents]
      /\ \A k \in DOMAIN d : /\ SyncedOnly(d)[k].has = d[k].safe
                             /\ SyncedOnly(d)[k].safe = d[k].safe
  BY <1>1 DEF SyncedOnly, Contents
<1> QED
  BY <1>1, <1>2, DirectoryIs

LEMMA OutcomeIs == \A s : /\ Done(s).to = s /\ Done(s).ok = TRUE
                          /\ Failed(s).to = s /\ Failed(s).ok = FALSE
BY DEF Done, Failed

LEMMA NoHandleIs ==
  /\ NoHandle \in Handles /\ NoHandle.open = FALSE /\ NoHandle.linked = FALSE
  /\ NoHandle.hour = NoTs /\ EmptyFile \in Contents
BY DEF NoHandle, Handles, EmptyFile, Contents

(***************************************************************************)
(* The operations of the Rotator.  Whatever they do or fail to do, the     *)
(* handle and the directory stay fit, and what is safe stays so unless its *)
(* file is old; when they succeed, so does what is held, and when they     *)
(* fail it is dropped from its file at worst.                              *)
(***************************************************************************)
SafeStays(r, q, t) ==
  \A e, h : ~Old(h, t) /\ Safe(r, e, h) => Safe(q, e, h)

HeldStays(r, q, t) ==
  \A e, h : ~Old(h, t) /\ (Safe(r, e, h) \/ Held(r, e, h)) =>
              Safe(q, e, h) \/ Held(q, e, h)

Drops(r, q, t) ==
  \A e, h : ~Old(h, t) /\ Held(r, e, h) =>
    Safe(q, e, h) \/ Held(q, e, h) \/ (h \in DOMAIN q.dir /\ e \notin q.dir[h].has)

LEMMA FitParts ==
  ASSUME NEW t, NEW r, Fit(r, t)
  PROVE  /\ r = [ts |-> r.ts, file |-> r.file, dir |-> r.dir]
         /\ r.ts \in Periods \cup {NoTs} /\ r.file \in Handles
         /\ IsDirectory(r.dir)
         /\ DOMAIN r.dir \subseteq Periods
         /\ \A h \in DOMAIN r.dir : r.dir[h] \in Contents
BY DirectoryIs DEF Fit, IsRotator

\* Another directory with the same handle.
LEMMA OtherDirectory ==
  ASSUME NEW t, NEW r, Fit(r, t), NEW d, IsDirectory(d),
         \A h \in DOMAIN d : d[h].safe \subseteq d[h].has,
         r.file.open /\ r.file.linked => r.file.hour \in DOMAIN d,
         NEW q, q = [r EXCEPT !.dir = d]
  PROVE  Fit(q, t) /\ q.ts = r.ts /\ q.file = r.file /\ q.dir = d
<1>1. q.ts = r.ts /\ q.file = r.file /\ q.dir = d /\ IsRotator(q)
  BY DEF Fit, IsRotator
<1> QED
  BY <1>1 DEF Fit

LEMMA SyncOutcome ==
  ASSUME NEW t, NEW r, Fit(r, t), NEW o \in Sync(r)
  PROVE  /\ Fit(o.to, t) /\ o.to.ts = r.ts /\ o.to.file = r.file
         /\ \A e, h : Safe(r, e, h) => Safe(o.to, e, h)
         /\ Drops(r, o.to, t)
         /\ o.ok => \A e, h : Safe(r, e, h) \/ Held(r, e, h) => Safe(o.to, e, h)
<1> DEFINE h0 == r.file.hour
           f0 == r.dir[h0]
<1>1. CASE o = Done(r) /\ (r.file = NoHandle \/ ~r.file.linked)
  <2>1. o.to = r
    BY <1>1, OutcomeIs
  <2>2. \A e, h : ~Held(r, e, h)
    BY <1>1, NoHandleIs DEF Held
  <2> QED
    BY <2>1, <2>2 DEF Drops
<1>2. CASE o = Failed(r)
  <2>1. o.to = r /\ o.ok = FALSE
    BY <1>2, OutcomeIs
  <2> QED
    BY <2>1 DEF Drops
<1>3. ASSUME r.file.open, r.file.linked,
             NEW f \in Contents, f.safe \subseteq f.has, f0.safe \subseteq f.safe,
             o.to = WithFile(r, h0, f)
      PROVE  /\ Fit(o.to, t) /\ o.to.ts = r.ts /\ o.to.file = r.file
             /\ \A e, h : Safe(r, e, h) => Safe(o.to, e, h)
             /\ Drops(r, o.to, t)
             /\ f0.has \subseteq f.safe =>
                  \A e, h : Safe(r, e, h) \/ Held(r, e, h) => Safe(o.to, e, h)
  <2>1. /\ h0 \in DOMAIN r.dir /\ h0 \in Periods /\ IsDirectory(r.dir)
        /\ \A h \in DOMAIN r.dir : r.dir[h].safe \subseteq r.dir[h].has
    BY <1>3, FitParts DEF Fit
  <2> DEFINE d == With(r.dir, h0, f)
  <2>2. /\ IsDirectory(d) /\ DOMAIN d = DOMAIN r.dir /\ d[h0] = f
        /\ \A k \in DOMAIN r.dir : k # h0 => d[k] = r.dir[k]
    <3>1. PICK k0 : k0 = h0
      OBVIOUS
    <3>2. PICK d0 : d0 = r.dir
      OBVIOUS
    <3>3. k0 \in Periods /\ IsDirectory(d0)
      BY <2>1, <3>1, <3>2
    <3>4. /\ IsDirectory(With(d0, k0, f))
          /\ DOMAIN With(d0, k0, f) = DOMAIN d0 \cup {k0}
          /\ With(d0, k0, f)[k0] = f
          /\ \A k \in DOMAIN d0 : k # k0 => With(d0, k0, f)[k] = d0[k]
      BY <3>3, WithIs
    <3> QED
      BY <2>1, <3>1, <3>2, <3>4
  <2>3. o.to = [r EXCEPT !.dir = d]
    BY <1>3 DEF WithFile
  <2> HIDE DEF d
  <2>4. Fit(o.to, t) /\ o.to.ts = r.ts /\ o.to.file = r.file /\ o.to.dir = d
    <3>1. \A h \in DOMAIN d : d[h].safe \subseteq d[h].has
      BY <1>3, <2>1, <2>2
    <3>2. r.file.open /\ r.file.linked => r.file.hour \in DOMAIN d
      BY <2>1, <2>2
    <3> QED
      BY <2>2, <2>3, <3>1, <3>2, OtherDirectory
  <2>5. \A e, h : Safe(r, e, h) => Safe(o.to, e, h)
    BY <1>3, <2>2, <2>4 DEF Safe
  <2>6. ASSUME f0.has \subseteq f.safe, NEW e, NEW h, Held(r, e, h)
        PROVE  Safe(o.to, e, h)
    BY <2>2, <2>4, <2>6 DEF Safe, Held
  <2>7. Drops(r, o.to, t)
    <3>1. ASSUME NEW e, NEW h, Held(r, e, h)
          PROVE  Held(o.to, e, h) \/ (h \in DOMAIN d /\ e \notin d[h].has)
      BY <2>2, <2>4, <3>1 DEF Held
    <3> QED
      BY <2>4, <3>1 DEF Drops
  <2> QED
    BY <2>4, <2>5, <2>6, <2>7
<1>4. CASE r.file.open /\ r.file.linked
           /\ o = Done(WithFile(r, h0, [f0 EXCEPT !.safe = f0.has]))
  <2>1. h0 \in DOMAIN r.dir /\ f0 \in Contents /\ f0.safe \subseteq f0.has
    BY <1>4, FitParts DEF Fit
  <2>2. PICK f : f = [f0 EXCEPT !.safe = f0.has]
    OBVIOUS
  <2>3. f \in Contents /\ f.safe \subseteq f.has /\ f0.safe \subseteq f.safe
        /\ f0.has \subseteq f.safe
    BY <2>1, <2>2 DEF Contents
  <2>4. o.to = WithFile(r, h0, f)
    BY <1>4, <2>2, OutcomeIs
  <2> QED
    BY <1>3, <1>4, <2>3, <2>4
<1>5. CASE r.file.open /\ r.file.linked
           /\ o = Failed(WithFile(r, h0, [f0 EXCEPT !.has = f0.safe]))
  <2>1. h0 \in DOMAIN r.dir /\ f0 \in Contents /\ f0.safe \subseteq f0.has
    BY <1>5, FitParts DEF Fit
  <2>2. PICK f : f = [f0 EXCEPT !.has = f0.safe]
    OBVIOUS
  <2>3. f \in Contents /\ f.safe \subseteq f.has /\ f0.safe \subseteq f.safe
    BY <2>1, <2>2 DEF Contents
  <2>4. o.to = WithFile(r, h0, f) /\ o.ok = FALSE
    BY <1>5, <2>2, OutcomeIs
  <2> QED
    BY <1>3, <1>5, <2>3, <2>4
<1> QED
  BY <1>1, <1>2, <1>4, <1>5 DEF Sync

LEMMA CloseHandleOutcome ==
  ASSUME NEW t, NEW r, Fit(r, t), NEW o \in CloseHandle(r)
  PROVE  /\ Fit(o.to, t) /\ o.to.ts = r.ts /\ o.to.dir = r.dir
         /\ o.ok => o.to.file = NoHandle
<1>1. CASE r.file = NoHandle /\ o = Done(r)
  BY <1>1, OutcomeIs
<1>2. CASE o = Done([r EXCEPT !.file = NoHandle])
  <2>1. PICK q : q = [r EXCEPT !.file = NoHandle]
    OBVIOUS
  <2>2. IsRotator(q) /\ q.ts = r.ts /\ q.dir = r.dir /\ q.file = NoHandle
    BY <2>1, NoHandleIs DEF Fit, IsRotator
  <2>3. Fit(q, t)
    BY <2>2, NoHandleIs DEF Fit
  <2> QED
    BY <1>2, <2>1, <2>2, <2>3, OutcomeIs
<1>3. CASE r.file # NoHandle /\ o = Failed([r EXCEPT !.file.open = FALSE])
  <2>1. PICK q : q = [r EXCEPT !.file.open = FALSE]
    OBVIOUS
  <2>2. /\ IsRotator(q) /\ q.ts = r.ts /\ q.dir = r.dir
        /\ q.file.open = FALSE /\ q.file.linked = r.file.linked
        /\ q.file.hour = r.file.hour
    BY <2>1 DEF Fit, IsRotator, Handles
  <2>3. Fit(q, t)
    BY <1>3, <2>2 DEF Fit
  <2> QED
    BY <1>3, <2>1, <2>2, <2>3, OutcomeIs
<1> QED
  BY <1>1, <1>2, <1>3 DEF CloseHandle

LEMMA OpenOutcome ==
  ASSUME NEW t, NEW r, Fit(r, t), r.file = NoHandle, r.ts \in Periods,
         NEW o \in Open(r)
  PROVE  /\ Fit(o.to, t) /\ o.to.ts = r.ts
         /\ \A e, h : Safe(r, e, h) => Safe(o.to, e, h)
         /\ o.to.file = IF o.ok THEN [hour |-> r.ts, open |-> TRUE, linked |-> TRUE]
                        ELSE NoHandle
<1> DEFINE hd == [hour |-> r.ts, open |-> TRUE, linked |-> TRUE]
           d == IF r.ts \in DOMAIN r.dir THEN r.dir ELSE With(r.dir, r.ts, EmptyFile)
<1>1. CASE o = Done([r EXCEPT !.file = hd, !.dir = d])
  <2>1. PICK q : q = [r EXCEPT !.file = hd, !.dir = d]
    OBVIOUS
  <2>2. /\ IsDirectory(d) /\ r.ts \in DOMAIN d
        /\ \A k \in DOMAIN r.dir : k \in DOMAIN d /\ d[k] = r.dir[k]
        /\ \A k \in DOMAIN d : d[k].safe \subseteq d[k].has
    <3>1. CASE r.ts \in DOMAIN r.dir
      BY <3>1, FitParts DEF Fit
    <3>2. CASE r.ts \notin DOMAIN r.dir
      <4>1. d = With(r.dir, r.ts, EmptyFile)
        BY <3>2
      <4>2. /\ IsDirectory(d) /\ DOMAIN d = DOMAIN r.dir \cup {r.ts}
            /\ d[r.ts] = EmptyFile
            /\ \A k \in DOMAIN r.dir : k # r.ts => d[k] = r.dir[k]
        <5>1. PICK k0 : k0 = r.ts
          OBVIOUS
        <5>2. PICK d0 : d0 = r.dir
          OBVIOUS
        <5>3. k0 \in Periods /\ IsDirectory(d0) /\ EmptyFile \in Contents
          BY <5>1, <5>2, FitParts, NoHandleIs
        <5>4. /\ IsDirectory(With(d0, k0, EmptyFile))
              /\ DOMAIN With(d0, k0, EmptyFile) = DOMAIN d0 \cup {k0}
              /\ With(d0, k0, EmptyFile)[k0] = EmptyFile
              /\ \A k \in DOMAIN d0 : k # k0 => With(d0, k0, EmptyFile)[k] = d0[k]
          BY <5>3, WithIs
        <5> QED
          BY <4>1, <5>1, <5>2, <5>4
      <4>3. EmptyFile.safe \subseteq EmptyFile.has
        BY DEF EmptyFile
      <4> QED
        BY <3>2, <4>2, <4>3 DEF Fit
    <3> QED
      BY <3>1, <3>2
  <2>3. hd \in Handles /\ hd # NoHandle
    BY DEF Handles, NoHandle
  <2> HIDE DEF d
  <2>4. /\ IsRotator(q) /\ q.ts = r.ts /\ q.dir = d /\ q.file = hd
    BY <2>1, <2>2, <2>3 DEF Fit, IsRotator
  <2>5. Fit(q, t)
    BY <2>2, <2>3, <2>4, PeriodsAre DEF Fit
  <2>6. \A e, h : Safe(r, e, h) => Safe(q, e, h)
    BY <2>2, <2>4 DEF Safe
  <2> QED
    <3>1. o.to = q /\ o.ok = TRUE
      BY <1>1, <2>1, OutcomeIs
    <3> HIDE DEF hd
    <3>2. q.file = hd /\ hd = [hour |-> r.ts, open |-> TRUE, linked |-> TRUE]
      BY <2>4 DEF hd
    <3> QED
      BY <2>4, <2>5, <2>6, <3>1, <3>2
<1>2. CASE o = Failed([r EXCEPT !.file = NoHandle])
  <2>1. [r EXCEPT !.file = NoHandle] = r
    BY DEF Fit, IsRotator
  <2> QED
    BY <1>2, <2>1, OutcomeIs
<1> QED
  BY <1>1, <1>2 DEF Open

LEMMA UnlinkOutcome ==
  ASSUME NEW t, NEW r, Fit(r, t), NEW S, \A h \in S : Old(h, t),
         NEW q, q = Unlink(r, S)
  PROVE  /\ Fit(q, t) /\ q.ts = r.ts
         /\ SafeStays(r, q, t) /\ HeldStays(r, q, t)
         /\ q.file.open = r.file.open /\ q.file.hour = r.file.hour
         /\ r.file = NoHandle => q.file = NoHandle
         /\ \A h \in DOMAIN q.dir : h \in DOMAIN r.dir /\ q.dir[h] = r.dir[h]
<1> DEFINE d == Restrict(r.dir, DOMAIN r.dir \ S)
           hd == IF r.file # NoHandle /\ r.file.hour \in S
                 THEN [r.file EXCEPT !.linked = FALSE] ELSE r.file
<1>1. q = [r EXCEPT !.dir = d, !.file = hd]
  BY DEF Unlink
<1>2. /\ IsDirectory(d) /\ DOMAIN d = DOMAIN r.dir \ S
      /\ \A k \in DOMAIN r.dir \ S : d[k] = r.dir[k]
  BY FitParts, RestrictIs
<1>3. /\ hd \in Handles /\ hd.open = r.file.open /\ hd.hour = r.file.hour
      /\ hd.linked => r.file.linked /\ (r.file # NoHandle => r.file.hour \notin S)
      /\ r.file.hour \notin S => hd = r.file
      /\ r.file = NoHandle <=> hd = NoHandle
      /\ ~hd.linked => ~r.file.linked \/ (r.file # NoHandle /\ r.file.hour \in S)
  <2>1. r.file \in Handles
    BY FitParts
  <2>2. CASE r.file # NoHandle /\ r.file.hour \in S
    <3>1. r.file.hour # NoTs
      BY <2>2 DEF Fit
    <3>2. hd = [r.file EXCEPT !.linked = FALSE]
      BY <2>2
    <3>3. /\ hd \in Handles /\ hd.open = r.file.open /\ hd.hour = r.file.hour
          /\ hd.linked = FALSE
      BY <2>1, <3>2 DEF Handles
    <3>4. hd # NoHandle
      BY <3>1, <3>3, NoHandleIs
    <3> HIDE DEF hd
    <3> QED
      BY <2>2, <3>3, <3>4
  <2>3. CASE ~(r.file # NoHandle /\ r.file.hour \in S)
    <3>1. hd = r.file
      BY <2>3
    <3> HIDE DEF hd
    <3> QED
      BY <2>1, <2>3, <3>1, NoHandleIs
  <2> QED
    BY <2>2, <2>3
<1> HIDE DEF d, hd
<1>4. IsRotator(q) /\ q.ts = r.ts /\ q.dir = d /\ q.file = hd
  BY <1>1, <1>2, <1>3 DEF Fit, IsRotator
<1>5. Fit(q, t)
  BY <1>2, <1>3, <1>4 DEF Fit
<1>6. SafeStays(r, q, t)
  BY <1>2, <1>4 DEF SafeStays, Safe
<1>7. HeldStays(r, q, t)
  <2>1. ASSUME NEW e, NEW h, ~Old(h, t), Held(r, e, h) PROVE Held(q, e, h)
    <3>1. h \notin S /\ r.file.hour = h
      BY <2>1 DEF Held
    <3> QED
      BY <1>2, <1>3, <1>4, <2>1, <3>1 DEF Held
  <2> QED
    BY <1>6, <2>1 DEF SafeStays, HeldStays
<1>8. \A h \in DOMAIN q.dir : h \in DOMAIN r.dir /\ q.dir[h] = r.dir[h]
  BY <1>2, <1>4
<1> QED
  BY <1>3, <1>4, <1>5, <1>6, <1>7, <1>8

LEMMA StaysIs ==
  ASSUME NEW t
  PROVE  /\ \A r, q : (\A e, h : Safe(r, e, h) => Safe(q, e, h)) => SafeStays(r, q, t)
         /\ \A r, q, s : SafeStays(r, q, t) /\ SafeStays(q, s, t) => SafeStays(r, s, t)
         /\ \A r, q, s : HeldStays(r, q, t) /\ HeldStays(q, s, t) => HeldStays(r, s, t)
         /\ \A r, q : r.dir = q.dir => \A e, h : Safe(r, e, h) <=> Safe(q, e, h)
         /\ \A r, q : HeldStays(r, q, t) => Drops(r, q, t)
         /\ \A r, q, s : HeldStays(r, q, t) /\ SafeStays(q, s, t) /\ Drops(q, s, t) =>
                         Drops(r, s, t)
BY DEF SafeStays, HeldStays, Drops, Safe

LEMMA CleanOutcome ==
  ASSUME NEW t, NEW r, Fit(r, t), NEW o \in Clean(r, t)
  PROVE  /\ Fit(o.to, t) /\ o.to.ts = r.ts
         /\ SafeStays(r, o.to, t) /\ HeldStays(r, o.to, t)
         /\ o.to.file.open = r.file.open /\ o.to.file.hour = r.file.hour
         /\ r.file = NoHandle => o.to.file = NoHandle
         /\ \A h \in DOMAIN o.to.dir : h \in DOMAIN r.dir /\ o.to.dir[h] = r.dir[h]
<1>1. CASE o = Failed(r)
  BY <1>1, OutcomeIs DEF SafeStays, HeldStays
<1>2. ASSUME NEW S \in SUBSET Expired(r, t), o.to = Unlink(r, S)
      PROVE  /\ Fit(o.to, t) /\ o.to.ts = r.ts
             /\ SafeStays(r, o.to, t) /\ HeldStays(r, o.to, t)
             /\ o.to.file.open = r.file.open /\ o.to.file.hour = r.file.hour
             /\ r.file = NoHandle => o.to.file = NoHandle
             /\ \A h \in DOMAIN o.to.dir : h \in DOMAIN r.dir /\ o.to.dir[h] = r.dir[h]
  <2>1. \A h \in S : Old(h, t)
    BY DEF Expired, Old
  <2> QED
    BY <1>2, <2>1, UnlinkOutcome
<1>3. o # Failed(r) => \E S \in SUBSET Expired(r, t) : o.to = Unlink(r, S)
  BY OutcomeIs DEF Clean
<1> QED
  BY <1>1, <1>2, <1>3

LEMMA CloseFileOutcome ==
  ASSUME NEW t, NEW r, Fit(r, t), NEW o \in CloseFile(r)
  PROVE  /\ Fit(o.to, t) /\ o.to.ts = r.ts /\ Drops(r, o.to, t)
         /\ \A e, h : Safe(r, e, h) => Safe(o.to, e, h)
         /\ o.ok => /\ o.to.file = NoHandle
                    /\ \A e, h : Safe(r, e, h) \/ Held(r, e, h) => Safe(o.to, e, h)
<1>1. CASE o \in Sync(r) /\ ~o.ok
  BY <1>1, SyncOutcome
<1>2. ASSUME NEW p \in Sync(r), p.ok, o \in CloseHandle(p.to)
      PROVE  /\ Fit(o.to, t) /\ o.to.ts = r.ts
             /\ o.ok => o.to.file = NoHandle
             /\ \A e, h : Safe(r, e, h) \/ Held(r, e, h) => Safe(o.to, e, h)
  <2>1. /\ Fit(p.to, t) /\ p.to.ts = r.ts
        /\ \A e, h : Safe(r, e, h) \/ Held(r, e, h) => Safe(p.to, e, h)
    BY <1>2, SyncOutcome
  <2>2. /\ Fit(o.to, t) /\ o.to.ts = p.to.ts /\ o.to.dir = p.to.dir
        /\ o.ok => o.to.file = NoHandle
    BY <1>2, <2>1, CloseHandleOutcome
  <2>3. \A e, h : Safe(p.to, e, h) => Safe(o.to, e, h)
    BY <2>2 DEF Safe
  <2> QED
    BY <2>1, <2>2, <2>3
<1>0. (\A e, h : Safe(r, e, h) \/ Held(r, e, h) => Safe(o.to, e, h)) => Drops(r, o.to, t)
  BY DEF Drops
<1>3. \/ o \in Sync(r) /\ ~o.ok
      \/ \E p \in Sync(r) : p.ok /\ o \in CloseHandle(p.to)
  BY DEF CloseFile, Then
<1> QED
  BY <1>0, <1>1, <1>2, <1>3

\* CloseFile, then Open: the way of Rotate to the file of the new period.
LEMMA ReopenOutcome ==
  ASSUME NEW t, NEW r, Fit(r, t), r.ts \in Periods,
         NEW o \in Then(CloseFile(r), Open)
  PROVE  /\ Fit(o.to, t) /\ o.to.ts = r.ts /\ Drops(r, o.to, t)
         /\ \A e, h : Safe(r, e, h) => Safe(o.to, e, h)
         /\ o.ok => /\ o.to.file.open /\ o.to.file.hour = r.ts
                    /\ \A e, h : Safe(r, e, h) \/ Held(r, e, h) => Safe(o.to, e, h)
<1>1. CASE o \in CloseFile(r) /\ ~o.ok
  BY <1>1, CloseFileOutcome
<1>2. ASSUME NEW p \in CloseFile(r), p.ok, o \in Open(p.to)
      PROVE  /\ Fit(o.to, t) /\ o.to.ts = r.ts
             /\ o.ok => o.to.file.open /\ o.to.file.hour = r.ts
             /\ \A e, h : Safe(r, e, h) \/ Held(r, e, h) => Safe(o.to, e, h)
  <2>1. /\ Fit(p.to, t) /\ p.to.ts = r.ts /\ p.to.file = NoHandle
        /\ \A e, h : Safe(r, e, h) \/ Held(r, e, h) => Safe(p.to, e, h)
    BY <1>2, CloseFileOutcome
  <2>2. /\ Fit(o.to, t) /\ o.to.ts = p.to.ts
        /\ \A e, h : Safe(p.to, e, h) => Safe(o.to, e, h)
        /\ o.to.file = IF o.ok THEN [hour |-> p.to.ts, open |-> TRUE, linked |-> TRUE]
                       ELSE NoHandle
    BY <1>2, <2>1, OpenOutcome
  <2> QED
    BY <2>1, <2>2
<1>3. \/ o \in CloseFile(r) /\ ~o.ok
      \/ \E p \in CloseFile(r) : p.ok /\ o \in Open(p.to)
  BY DEF Then
<1>4. (\A e, h : Safe(r, e, h) \/ Held(r, e, h) => Safe(o.to, e, h)) => Drops(r, o.to, t)
  BY DEF Drops
<1> QED
  BY <1>1, <1>2, <1>3, <1>4

LEMMA RotateOutcome ==
  ASSUME NEW t, NEW r, Fit(r, t), r.ts \in Periods, NEW o \in Rotate(r, t)
  PROVE  /\ Fit(o.to, t) /\ o.to.ts = r.ts /\ SafeStays(r, o.to, t) /\ Drops(r, o.to, t)
         /\ o.ok => /\ o.to.file.open /\ o.to.file.hour = r.ts
                    /\ HeldStays(r, o.to, t)
<1> DEFINE reopened == Then(CloseFile(r), Open)
<1>1. \/ o \in reopened /\ ~o.ok
      \/ \E p \in reopened : p.ok /\ o \in Clean(p.to, t)
  <2> HIDE DEF reopened
  <2>1. Rotate(r, t) = Then(reopened, LAMBDA q : Clean(q, t))
    BY DEF Rotate, reopened
  <2> QED
    BY <2>1 DEF Then
<1> HIDE DEF reopened
<1>2. ASSUME NEW p \in reopened
      PROVE  /\ Fit(p.to, t) /\ p.to.ts = r.ts /\ SafeStays(r, p.to, t)
             /\ Drops(r, p.to, t)
             /\ p.ok => /\ p.to.file.open /\ p.to.file.hour = r.ts
                        /\ HeldStays(r, p.to, t)
  <2>1. /\ Fit(p.to, t) /\ p.to.ts = r.ts /\ Drops(r, p.to, t)
        /\ \A e, h : Safe(r, e, h) => Safe(p.to, e, h)
        /\ p.ok => /\ p.to.file.open /\ p.to.file.hour = r.ts
                   /\ \A e, h : Safe(r, e, h) \/ Held(r, e, h) => Safe(p.to, e, h)
    BY ReopenOutcome DEF reopened
  <2> QED
    BY <2>1 DEF SafeStays, HeldStays
<1>3. CASE o \in reopened /\ ~o.ok
  BY <1>2, <1>3
<1>4. ASSUME NEW p \in reopened, p.ok, o \in Clean(p.to, t)
      PROVE  /\ Fit(o.to, t) /\ o.to.ts = r.ts /\ SafeStays(r, o.to, t)
             /\ o.to.file.open /\ o.to.file.hour = r.ts
             /\ HeldStays(r, o.to, t)
  <2>1. /\ Fit(p.to, t) /\ p.to.ts = r.ts /\ SafeStays(r, p.to, t)
        /\ p.to.file.open /\ p.to.file.hour = r.ts /\ HeldStays(r, p.to, t)
    BY <1>2, <1>4
  <2>2. /\ Fit(o.to, t) /\ o.to.ts = p.to.ts
        /\ SafeStays(p.to, o.to, t) /\ HeldStays(p.to, o.to, t)
        /\ o.to.file.open = p.to.file.open /\ o.to.file.hour = p.to.file.hour
    BY <1>4, <2>1, CleanOutcome
  <2> QED
    BY <2>1, <2>2, StaysIs
<1>5. HeldStays(r, o.to, t) => Drops(r, o.to, t)
  BY StaysIs
<1> QED
  BY <1>1, <1>3, <1>4, <1>5

LEMMA SetPeriod ==
  ASSUME NEW t, NEW r, Fit(r, t), NEW p \in Periods, NEW q, q = [r EXCEPT !.ts = p]
  PROVE  /\ Fit(q, t) /\ q.ts = p /\ q.file = r.file /\ q.dir = r.dir
         /\ \A e, h : Safe(q, e, h) <=> Safe(r, e, h)
         /\ \A e, h : Held(q, e, h) <=> Held(r, e, h)
<1>1. q.ts = p /\ q.file = r.file /\ q.dir = r.dir /\ IsRotator(q)
  BY DEF Fit, IsRotator
<1>2. p # NoTs
  BY PeriodsAre
<1> QED
  BY <1>1, <1>2 DEF Fit, Safe, Held

\* An event given to the handle of the current period p is held by its file,
\* unless that file is old already.
LEMMA AppendOutcome ==
  ASSUME NEW t, NEW r, Fit(r, t), NEW e \in Events, NEW o \in AppendEvent(r, e)
  PROVE  /\ Fit(o.to, t) /\ o.to.ts = r.ts /\ o.to.file = r.file
         /\ SafeStays(r, o.to, t) /\ HeldStays(r, o.to, t)
         /\ o.ok => Old(r.file.hour, t) \/ Held(o.to, e, r.file.hour)
<1> DEFINE h0 == r.file.hour
           f0 == r.dir[h0]
<1>1. CASE o = Failed(r)
  BY <1>1, OutcomeIs DEF SafeStays, HeldStays
<1>2. CASE r.file.open /\ ~r.file.linked /\ o = Done(r)
  <2>1. o.to = r
    BY <1>2, OutcomeIs
  <2>2. Old(h0, t)
    BY <1>2 DEF Fit
  <2> QED
    BY <2>1, <2>2 DEF SafeStays, HeldStays
<1>3. CASE r.file.open /\ r.file.linked
           /\ o = Done(WithFile(r, h0, [f0 EXCEPT !.has = @ \cup {e}]))
  <2>1. /\ h0 \in DOMAIN r.dir /\ h0 \in Periods /\ IsDirectory(r.dir)
        /\ f0 \in Contents /\ r.file \in Handles
        /\ \A h \in DOMAIN r.dir : r.dir[h].safe \subseteq r.dir[h].has
    BY <1>3, FitParts DEF Fit
  <2>2. PICK f : f = [f0 EXCEPT !.has = @ \cup {e}]
    OBVIOUS
  <2>3. /\ f \in Contents /\ f.safe = f0.safe /\ f0.has \subseteq f.has /\ e \in f.has
        /\ f.safe \subseteq f.has
    BY <2>1, <2>2 DEF Contents
  <2>4. o.to = WithFile(r, h0, f)
    BY <1>3, <2>2, OutcomeIs
  <2> DEFINE d == With(r.dir, h0, f)
  <2>5. /\ IsDirectory(d) /\ DOMAIN d = DOMAIN r.dir /\ d[h0] = f
        /\ \A k \in DOMAIN r.dir : k # h0 => d[k] = r.dir[k]
    <3>1. PICK k0 : k0 = h0
      OBVIOUS
    <3>2. PICK d0 : d0 = r.dir
      OBVIOUS
    <3>3. k0 \in Periods /\ IsDirectory(d0) /\ f \in Contents
      BY <2>1, <2>3, <3>1, <3>2
    <3>4. /\ IsDirectory(With(d0, k0, f))
          /\ DOMAIN With(d0, k0, f) = DOMAIN d0 \cup {k0}
          /\ With(d0, k0, f)[k0] = f
          /\ \A k \in DOMAIN d0 : k # k0 => With(d0, k0, f)[k] = d0[k]
      BY <3>3, WithIs, Zenon
    <3> QED
      BY <2>1, <3>1, <3>2, <3>4
  <2>6. o.to = [r EXCEPT !.dir = d]
    BY <2>4 DEF WithFile
  <2> HIDE DEF d
  <2>7. Fit(o.to, t) /\ o.to.ts = r.ts /\ o.to.file = r.file /\ o.to.dir = d
    <3>1. \A h \in DOMAIN d : d[h].safe \subseteq d[h].has
      BY <2>1, <2>3, <2>5
    <3>2. r.file.open /\ r.file.linked => r.file.hour \in DOMAIN d
      BY <2>1, <2>5
    <3> QED
      BY <2>5, <2>6, <3>1, <3>2, OtherDirectory
  <2>8. \A x, h : Safe(r, x, h) => Safe(o.to, x, h)
    BY <2>3, <2>5, <2>7 DEF Safe
  <2>9. \A x, h : Held(r, x, h) => Held(o.to, x, h)
    BY <2>3, <2>5, <2>7 DEF Held
  <2>10. r.file = [hour |-> h0, open |-> TRUE, linked |-> TRUE]
    BY <1>3, <2>1 DEF Handles
  <2>11. Held(o.to, e, h0)
    BY <2>1, <2>3, <2>5, <2>7, <2>10 DEF Held
  <2> QED
    BY <2>7, <2>8, <2>9, <2>11 DEF SafeStays, HeldStays
<1> QED
  BY <1>1, <1>2, <1>3 DEF AppendEvent

\* Write up to the event itself: whatever happens, ts is the current period
\* or nothing is open; when it succeeds the handle is the file of the
\* current period, unless ts was that period already.
LEMMA TurnOutcome ==
  ASSUME NEW t \in 0 .. MaxTick, NEW r, Fit(r, t), r.ts # NoTs,
         NEW o \in IF r.ts = PeriodOf(t) THEN {Done(r)}
                   ELSE Rotate([r EXCEPT !.ts = PeriodOf(t)], t)
  PROVE  /\ Fit(o.to, t) /\ o.to.ts = PeriodOf(t)
         /\ SafeStays(r, o.to, t) /\ Drops(r, o.to, t)
         /\ o.ok => /\ HeldStays(r, o.to, t)
                    /\ \/ r.ts = PeriodOf(t) /\ o.to = r
                       \/ o.to.file.open /\ o.to.file.hour = PeriodOf(t)
<1>1. CASE r.ts = PeriodOf(t)
  <2>1. o.to = r
    BY <1>1, OutcomeIs
  <2> QED
    BY <1>1, <2>1 DEF SafeStays, HeldStays, Drops
<1>2. CASE r.ts # PeriodOf(t)
  <2>1. PICK p : p = PeriodOf(t)
    OBVIOUS
  <2>2. PICK q : q = [r EXCEPT !.ts = p]
    OBVIOUS
  <2>3. p \in Periods /\ o \in Rotate(q, t)
    BY <1>2, <2>1, <2>2, PeriodsAre
  <2>4. /\ Fit(q, t) /\ q.ts = p
        /\ \A e, h : Safe(q, e, h) <=> Safe(r, e, h)
        /\ \A e, h : Held(q, e, h) <=> Held(r, e, h)
    BY <2>2, <2>3, SetPeriod
  <2>5. /\ Fit(o.to, t) /\ o.to.ts = p /\ SafeStays(q, o.to, t) /\ Drops(q, o.to, t)
        /\ o.ok => /\ o.to.file.open /\ o.to.file.hour = p
                   /\ HeldStays(q, o.to, t)
    BY <2>3, <2>4, RotateOutcome
  <2>6. SafeStays(r, o.to, t) /\ (HeldStays(q, o.to, t) => HeldStays(r, o.to, t))
    BY <2>4, <2>5 DEF SafeStays, HeldStays
  <2>7. Drops(r, o.to, t)
    BY <2>4, <2>5 DEF Drops
  <2> QED
    BY <2>1, <2>5, <2>6, <2>7
<1> QED
  BY <1>1, <1>2

LEMMA OpenedOutcome ==
  ASSUME NEW t \in 0 .. MaxTick, NEW r, Fit(r, t),
         NEW p \in Periods, p = IF r.ts = NoTs THEN PeriodOf(t) ELSE r.ts,
         NEW o \in IF r.file = NoHandle THEN Open([r EXCEPT !.ts = p])
                   ELSE {Done([r EXCEPT !.ts = p])}
  PROVE  /\ Fit(o.to, t) /\ o.to.ts = p /\ SafeStays(r, o.to, t) /\ Drops(r, o.to, t)
         /\ ~o.ok => o.to.file = NoHandle
         /\ o.ok => /\ HeldStays(r, o.to, t)
                    /\ \/ r.file # NoHandle /\ r.ts = p /\ o.to.file = r.file
                       \/ o.to.file.open /\ o.to.file.hour = p
<1>1. PICK q : q = [r EXCEPT !.ts = p]
  OBVIOUS
<1>2. /\ Fit(q, t) /\ q.ts = p /\ q.file = r.file
      /\ \A e, h : Safe(q, e, h) <=> Safe(r, e, h)
      /\ \A e, h : Held(q, e, h) <=> Held(r, e, h)
  BY <1>1, SetPeriod
<1>3. CASE r.file = NoHandle
  <2>1. o \in Open(q)
    BY <1>1, <1>3
  <2>2. /\ Fit(o.to, t) /\ o.to.ts = p
        /\ \A e, h : Safe(q, e, h) => Safe(o.to, e, h)
        /\ o.to.file = IF o.ok THEN [hour |-> p, open |-> TRUE, linked |-> TRUE]
                       ELSE NoHandle
    BY <1>2, <1>3, <2>1, OpenOutcome
  <2>3. \A e, h : ~Held(r, e, h)
    BY <1>3, NoHandleIs DEF Held
  <2> QED
    BY <1>2, <2>2, <2>3 DEF SafeStays, HeldStays, Drops
<1>4. CASE r.file # NoHandle
  <2>1. o.to = q /\ o.ok = TRUE
    BY <1>1, <1>4, OutcomeIs
  <2>2. r.ts # NoTs
    BY <1>4 DEF Fit
  <2> QED
    BY <1>2, <1>4, <2>1, <2>2 DEF SafeStays, HeldStays, Drops
<1> QED
  BY <1>3, <1>4

LEMMA WriteEventOutcome ==
  ASSUME NEW t \in 0 .. MaxTick, NEW r, Fit(r, t), NEW e \in Events,
         NEW f, Follows(r, f), NEW o \in WriteEvent(r, e, t)
  PROVE  /\ Fit(o.to, t) /\ SafeStays(r, o.to, t) /\ Drops(r, o.to, t)
         /\ ~o.ok => o.to.ts = PeriodOf(t) \/ o.to.file = NoHandle
         /\ o.ok => /\ HeldStays(r, o.to, t) /\ Follows(o.to, f)
                    /\ f = PeriodOf(t) \/ Old(PeriodOf(t), t)
                         \/ Held(o.to, e, PeriodOf(t))
<1> DEFINE now == PeriodOf(t)
           first == [r EXCEPT !.ts = IF @ = NoTs THEN now ELSE @]
           opened == IF r.file = NoHandle THEN Open(first) ELSE {Done(first)}
           Turn(q) == IF q.ts = now THEN {Done(q)}
                      ELSE Rotate([q EXCEPT !.ts = now], t)
           turned == Then(opened, Turn)
<1>1. \/ o \in opened /\ ~o.ok
      \/ \E p \in opened : p.ok /\
           \/ o \in Turn(p.to) /\ ~o.ok
           \/ \E u \in Turn(p.to) : u.ok /\ o \in AppendEvent(u.to, e)
  <2>1. \/ o \in turned /\ ~o.ok
        \/ \E u \in turned : u.ok /\ o \in AppendEvent(u.to, e)
    <3>1. WriteEvent(r, e, t) = Then(turned, LAMBDA q : AppendEvent(q, e))
      BY DEF WriteEvent
    <3> HIDE DEF turned
    <3> QED
      BY <3>1 DEF Then
  <2>2. \A u \in turned : \/ u \in opened /\ ~u.ok
                          \/ \E p \in opened : p.ok /\ u \in Turn(p.to)
    <3> HIDE DEF opened, Turn
    <3> QED
      BY DEF Then, turned
  <2> HIDE DEF turned, opened, Turn
  <2> QED
    BY <2>1, <2>2
<1>2. PICK p0 \in Periods : p0 = IF r.ts = NoTs THEN now ELSE r.ts
  BY PeriodsAre, FitParts
<1>3. ASSUME NEW p \in opened
      PROVE  /\ Fit(p.to, t) /\ p.to.ts = p0
             /\ SafeStays(r, p.to, t) /\ Drops(r, p.to, t)
             /\ ~p.ok => p.to.file = NoHandle
             /\ p.ok => /\ HeldStays(r, p.to, t)
                        /\ \/ r.file # NoHandle /\ r.ts = p0 /\ p.to.file = r.file
                           \/ p.to.file.open /\ p.to.file.hour = p0
  <2>1. first = [r EXCEPT !.ts = p0]
    BY <1>2
  <2>2. p \in IF r.file = NoHandle THEN Open([r EXCEPT !.ts = p0])
              ELSE {Done([r EXCEPT !.ts = p0])}
    BY <1>3, <2>1
  <2> QED
    BY <1>2, <2>2, OpenedOutcome
<1>4. ASSUME NEW p \in opened, p.ok, NEW u \in Turn(p.to)
      PROVE  /\ Fit(u.to, t) /\ u.to.ts = now
             /\ SafeStays(r, u.to, t) /\ Drops(r, u.to, t)
             /\ u.ok => /\ HeldStays(r, u.to, t)
                        /\ f = now \/ (u.to.file.open /\ u.to.file.hour = now)
  <2>1. /\ Fit(p.to, t) /\ p.to.ts = p0 /\ SafeStays(r, p.to, t)
        /\ HeldStays(r, p.to, t)
        /\ \/ r.file # NoHandle /\ r.ts = p0 /\ p.to.file = r.file
           \/ p.to.file.open /\ p.to.file.hour = p0
    BY <1>3, <1>4
  <2>2. p.to.ts # NoTs
    BY <2>1, PeriodsAre
  <2>3. u \in IF p.to.ts = PeriodOf(t) THEN {Done(p.to)}
              ELSE Rotate([p.to EXCEPT !.ts = PeriodOf(t)], t)
    BY <1>4
  <2>4. /\ Fit(u.to, t) /\ u.to.ts = PeriodOf(t)
        /\ SafeStays(p.to, u.to, t) /\ Drops(p.to, u.to, t)
        /\ u.ok => /\ HeldStays(p.to, u.to, t)
                   /\ \/ p.to.ts = PeriodOf(t) /\ u.to = p.to
                      \/ u.to.file.open /\ u.to.file.hour = PeriodOf(t)
    <3>1. PICK q : q = p.to
      OBVIOUS
    <3>2. Fit(q, t) /\ q.ts # NoTs
      BY <2>1, <2>2, <3>1
    <3>3. u \in IF q.ts = PeriodOf(t) THEN {Done(q)}
                ELSE Rotate([q EXCEPT !.ts = PeriodOf(t)], t)
      BY <2>3, <3>1
    <3>4. /\ Fit(u.to, t) /\ u.to.ts = PeriodOf(t)
          /\ SafeStays(q, u.to, t) /\ Drops(q, u.to, t)
          /\ u.ok => /\ HeldStays(q, u.to, t)
                     /\ \/ q.ts = PeriodOf(t) /\ u.to = q
                        \/ u.to.file.open /\ u.to.file.hour = PeriodOf(t)
      BY <3>2, <3>3, TurnOutcome
    <3> QED
      BY <3>1, <3>4, Zenon
  <2>5. ASSUME p.to.ts = PeriodOf(t), u.to = p.to
        PROVE  f = now \/ (u.to.file.open /\ u.to.file.hour = now)
    BY <2>1, <2>5 DEF Follows
  <2>6. SafeStays(r, u.to, t) /\ (u.ok => HeldStays(r, u.to, t))
    BY <2>1, <2>4, StaysIs
  <2>7. Drops(r, u.to, t)
    BY <2>1, <2>4, StaysIs
  <2> HIDE DEF opened, Turn
  <2> QED
    BY <2>4, <2>5, <2>6, <2>7
<1> HIDE DEF opened, Turn, turned, first
<1>5. CASE o \in opened /\ ~o.ok
  BY <1>3, <1>5
<1>6. ASSUME NEW p \in opened, p.ok, o \in Turn(p.to), ~o.ok
      PROVE  /\ Fit(o.to, t) /\ o.to.ts = PeriodOf(t)
             /\ SafeStays(r, o.to, t) /\ Drops(r, o.to, t)
  BY <1>4, <1>6
<1>7. ASSUME NEW p \in opened, p.ok, NEW u \in Turn(p.to), u.ok,
             o \in AppendEvent(u.to, e)
      PROVE  /\ Fit(o.to, t) /\ o.to.ts = PeriodOf(t)
             /\ SafeStays(r, o.to, t) /\ Drops(r, o.to, t)
             /\ o.ok => /\ HeldStays(r, o.to, t) /\ Follows(o.to, f)
                        /\ f = PeriodOf(t) \/ Old(PeriodOf(t), t)
                             \/ Held(o.to, e, PeriodOf(t))
  <2>1. /\ Fit(u.to, t) /\ u.to.ts = now /\ SafeStays(r, u.to, t)
        /\ HeldStays(r, u.to, t)
        /\ f = now \/ (u.to.file.open /\ u.to.file.hour = now)
    BY <1>4, <1>7
  <2>2. /\ Fit(o.to, t) /\ o.to.ts = u.to.ts /\ o.to.file = u.to.file
        /\ SafeStays(u.to, o.to, t) /\ HeldStays(u.to, o.to, t)
        /\ o.ok => Old(u.to.file.hour, t) \/ Held(o.to, e, u.to.file.hour)
    BY <1>7, <2>1, AppendOutcome
  <2>3. SafeStays(r, o.to, t) /\ HeldStays(r, o.to, t) /\ Drops(r, o.to, t)
    BY <2>1, <2>2, StaysIs
  <2>4. Follows(o.to, f)
    BY <2>1, <2>2 DEF Follows
  <2> QED
    BY <2>1, <2>2, <2>3, <2>4
<1> QED
  BY <1>1, <1>5, <1>6, <1>7

(***************************************************************************)
(* The steps.  The parts of the invariant about the readers and the files  *)
(* first.                                                                  *)
(***************************************************************************)
FilesInv == ReadersInv /\ TimesInv /\ RotatorInv /\ KeptInv

LEMMA EventsAre ==
  ASSUME NEW r \in Readers
  PROVE  /\ Len(NameOf[r]) \in Nat
         /\ \A n : <<r, n>> \in Events <=> n \in 1 .. Len(NameOf[r])
         /\ \A n \in 1 .. Len(NameOf[r]) : NameOf[r][n] \in Names
<1>1. NameOf[r] \in Seq(Names)
  OBVIOUS
<1>2. Len(NameOf[r]) \in Nat /\ DOMAIN NameOf[r] = 1 .. Len(NameOf[r])
  BY <1>1
<1>3. \A n : <<r, n>> \in Events <=> n \in DOMAIN NameOf[r]
  BY DEF Events
<1> QED
  BY <1>1, <1>2, <1>3

LEMMA InstantsAre == /\ \A t \in 0 .. MaxTick : t \in Instants /\ t # Never
                     /\ \A t \in Instants : t \in Int
BY DEF Instants, Never

\* A step of r leaves the other readers where they are.
OthersStay(r) ==
  \A q \in Readers \ {r} : /\ saved'[q] = saved[q] /\ next'[q] = next[q]
                           /\ flushed'[q] = flushed[q] /\ pc'[q] = pc[q]

LEMMA ReaderMoves ==
  ASSUME ReadersInv, NEW r \in Readers,
         NEW s \in Nat, NEW x \in Nat, NEW f \in Nat, NEW p \in Places,
         saved' = [saved EXCEPT ![r] = s], next' = [next EXCEPT ![r] = x],
         flushed' = [flushed EXCEPT ![r] = f], pc' = [pc EXCEPT ![r] = p]
  PROVE  /\ saved' \in [Readers -> Nat] /\ next' \in [Readers -> Nat]
         /\ flushed' \in [Readers -> Nat] /\ pc' \in [Readers -> Places]
         /\ saved'[r] = s /\ next'[r] = x /\ flushed'[r] = f /\ pc'[r] = p
         /\ OthersStay(r)
BY DEF ReadersInv, OthersStay

LEMMA ReadersStay ==
  ASSUME ReadersInv, NEW r \in Readers, OthersStay(r), ReaderInv(r)',
         saved' \in [Readers -> Nat], next' \in [Readers -> Nat],
         flushed' \in [Readers -> Nat], pc' \in [Readers -> Places]
  PROVE  /\ ReadersInv'
         /\ \A q \in Readers \ {r} : LastWritten(q)' = LastWritten(q)
<1>1. \A q \in Readers \ {r} : LastWritten(q)' = LastWritten(q) /\ ReaderInv(q)'
  BY DEF ReadersInv, OthersStay, ReaderInv, LastWritten
<1> QED
  BY <1>1 DEF ReadersInv

LEMMA LastWrittenIs ==
  ASSUME ReadersInv, NEW r \in Readers
  PROVE  /\ LastWritten(r) \in Nat /\ saved[r] \in Nat /\ next[r] \in Nat
         /\ flushed[r] \in Nat /\ pc[r] \in Places /\ saved[r] < next[r]
         /\ saved[r] <= LastWritten(r) /\ LastWritten(r) <= Len(NameOf[r])
         /\ pc[r] = "sample" => LastWritten(r) = next[r]
         /\ pc[r] # "sample" => LastWritten(r) = next[r] - 1
         /\ pc[r] # "flush" => saved[r] <= flushed[r]
         /\ pc[r] \notin {"flush", "clean"} => flushed[r] = saved[r]
         /\ pc[r] = "clean" => flushed[r] = next[r] - 1
         /\ pc[r] = "flush" => flushed[r] <= saved[r]
BY EventsAre DEF ReadersInv, ReaderInv, LastWritten

\* A poll that ends early: the next one reads from the saved position.
LEMMA FailReaders ==
  ASSUME ReadersInv, NEW r \in Readers, Fail(r)
  PROVE  /\ ReadersInv' /\ saved' = saved /\ OthersStay(r)
         /\ LastWritten(r)' = saved[r] /\ flushed'[r] = saved[r]
         /\ \A q \in Readers \ {r} : LastWritten(q)' = LastWritten(q)
<1>1. /\ saved[r] \in Nat /\ "row" \in Places /\ saved[r] <= Len(NameOf[r])
      /\ Len(NameOf[r]) \in Nat
  BY LastWrittenIs, EventsAre DEF Places
<1>2. saved' = [saved EXCEPT ![r] = saved[r]]
  BY DEF Fail, ReadersInv
<1>3. /\ saved' \in [Readers -> Nat] /\ next' \in [Readers -> Nat]
      /\ flushed' \in [Readers -> Nat] /\ pc' \in [Readers -> Places]
      /\ saved'[r] = saved[r] /\ next'[r] = saved[r] + 1
      /\ flushed'[r] = saved[r] /\ pc'[r] = "row"
      /\ OthersStay(r)
  <2>1. PICK s \in Nat : s = saved[r]
    BY <1>1
  <2>2. PICK x \in Nat : x = saved[r] + 1
    BY <1>1
  <2>3. /\ saved' = [saved EXCEPT ![r] = s] /\ next' = [next EXCEPT ![r] = x]
        /\ flushed' = [flushed EXCEPT ![r] = s] /\ pc' = [pc EXCEPT ![r] = "row"]
    BY <1>2, <2>1, <2>2 DEF Fail, GoTo
  <2>4. /\ saved' \in [Readers -> Nat] /\ next' \in [Readers -> Nat]
        /\ flushed' \in [Readers -> Nat] /\ pc' \in [Readers -> Places]
        /\ saved'[r] = s /\ next'[r] = x /\ flushed'[r] = s /\ pc'[r] = "row"
        /\ OthersStay(r)
    BY <1>1, <2>3, ReaderMoves
  <2> QED
    BY <2>1, <2>2, <2>4
<1>4. ReaderInv(r)' /\ LastWritten(r)' = saved[r]
  BY <1>1, <1>3 DEF ReaderInv, LastWritten
<1> QED
  BY <1>3, <1>4, ReadersStay DEF Fail

\* The files keep an event of r, whatever moved in them: it was flushed
\* before, or need not be yet, or everything held is safe now.
LEMMA KeptOn ==
  ASSUME FilesInv, clock' = clock,
         SafeStays(rot, rot', clock), Drops(rot, rot', clock),
         Dropped(rot, rot') \subseteq lapsed',
         NEW r \in Readers, NEW n \in 1 .. LastWritten(r),
         <<r, n>> \in lapsed => <<r, n>> \in lapsed',
         wrote'[<<r, n>>] = wrote[<<r, n>>], flushed'[r] \in Nat,
         \/ n <= flushed[r] \/ n > flushed'[r] \/ <<r, n>> \in lapsed'
         \/ \A e, h : Held(rot, e, h) => Safe(rot', e, h)
  PROVE  Kept(r, n)'
<1>1. PICK e : e = <<r, n>>
  OBVIOUS
<1>2. PICK p : p = PeriodOf(wrote[e].at)
  OBVIOUS
<1> SUFFICES ASSUME wrote[e].clear, e \notin lapsed', clock + Period <= wrote[e].at + Retention
             PROVE  Safe(rot', e, p) \/ (n > flushed'[r] /\ Held(rot', e, p))
  BY <1>1, <1>2 DEF Kept
<1>3. /\ clock \in Nat /\ wrote[e].at \in Nat /\ flushed[r] \in Nat /\ n \in Nat
  BY <1>1, LastWrittenIs DEF FilesInv, TimesInv
<1>4. ~Old(p, clock)
  BY <1>2, <1>3, NotYetOld
<1>5. Safe(rot, e, p) \/ (n > flushed[r] /\ Held(rot, e, p))
  BY <1>1, <1>2 DEF FilesInv, KeptInv, Kept
<1>6. CASE Safe(rot, e, p)
  BY <1>4, <1>6 DEF SafeStays
<1>7. CASE n > flushed[r] /\ Held(rot, e, p)
  <2>1. Safe(rot', e, p) \/ Held(rot', e, p)
        \/ (p \in DOMAIN rot'.dir /\ e \notin rot'.dir[p].has)
    BY <1>4, <1>7 DEF Drops
  <2>2. p \in DOMAIN rot'.dir /\ e \notin rot'.dir[p].has => e \in Dropped(rot, rot')
    BY <1>7 DEF Held, Dropped
  <2>3. ~(p \in DOMAIN rot'.dir /\ e \notin rot'.dir[p].has)
    BY <2>2
  <2>4. n > flushed'[r] \/ Safe(rot', e, p)
    BY <1>1, <1>3, <1>7
  <2> QED
    BY <2>1, <2>3, <2>4
<1> QED
  BY <1>5, <1>6, <1>7

\* No event is written, or only one that is not due.
LEMMA AllKept ==
  ASSUME FilesInv, clock' = clock,
         SafeStays(rot, rot', clock), Drops(rot, rot', clock),
         lapsed \cup Dropped(rot, rot') \subseteq lapsed', wrote' = wrote,
         flushed' \in [Readers -> Nat],
         \A q \in Readers : \A n \in 1 .. LastWritten(q)' :
           /\ n \in 1 .. LastWritten(q)
           /\ \/ n <= flushed[q] \/ n > flushed'[q] \/ <<q, n>> \in lapsed'
              \/ \A e, h : Held(rot, e, h) => Safe(rot', e, h)
  PROVE  KeptInv'
<1> SUFFICES ASSUME NEW r \in Readers, NEW n \in 1 .. LastWritten(r)' PROVE Kept(r, n)'
  BY DEF KeptInv
<1>1. /\ n \in 1 .. LastWritten(r)
      /\ \/ n <= flushed[r] \/ n > flushed'[r] \/ <<r, n>> \in lapsed'
         \/ \A e, h : Held(rot, e, h) => Safe(rot', e, h)
  OBVIOUS
<1>2. flushed'[r] \in Nat /\ wrote'[<<r, n>>] = wrote[<<r, n>>]
      /\ (<<r, n>> \in lapsed => <<r, n>> \in lapsed') /\ Dropped(rot, rot') \subseteq lapsed'
  OBVIOUS
<1> QED
  BY <1>1, <1>2, KeptOn

\* Nothing is written: the times stay, of fewer events at most.
LEMMA TimesStay ==
  ASSUME TimesInv, clock' = clock, faults' \in 0 .. MaxFaults, wrote' = wrote,
         \A q \in Readers : \A n \in 1 .. LastWritten(q)' : n \in 1 .. LastWritten(q)
  PROVE  TimesInv'
BY DEF TimesInv

\* The end of a poll that fails; what its own reader had saved and not
\* flushed has lapsed.
LEMMA FailFiles ==
  ASSUME FilesInv, NEW r \in Readers, Fail(r), clock' = clock, wrote' = wrote,
         SafeStays(rot, rot', clock), Drops(rot, rot', clock),
         lapsed \cup Dropped(rot, rot') \subseteq lapsed',
         pc[r] = "flush" => Unflushed(r) \subseteq lapsed'
  PROVE  ReadersInv' /\ TimesInv' /\ KeptInv'
<1>1. /\ ReadersInv' /\ OthersStay(r)
      /\ LastWritten(r)' = saved[r] /\ flushed'[r] = saved[r]
      /\ \A q \in Readers \ {r} : LastWritten(q)' = LastWritten(q)
  BY FailReaders DEF FilesInv
<1>2. ASSUME NEW q \in Readers, NEW n \in 1 .. LastWritten(q)'
      PROVE  /\ n \in 1 .. LastWritten(q)
             /\ n <= flushed[q] \/ n > flushed'[q] \/ <<q, n>> \in lapsed'
  <2>1. CASE q # r
    <3>1. LastWritten(q)' = LastWritten(q) /\ flushed'[q] = flushed[q]
      BY <1>1, <2>1 DEF OthersStay
    <3>2. flushed[q] \in Nat /\ n \in Nat
      BY LastWrittenIs DEF FilesInv
    <3> QED
      BY <1>2, <3>1, <3>2
  <2>2. CASE q = r
    <3>1. /\ saved[r] \in Nat /\ LastWritten(r) \in Nat /\ saved[r] <= LastWritten(r)
          /\ flushed[r] \in Nat /\ (pc[r] # "flush" => saved[r] <= flushed[r])
      BY LastWrittenIs DEF FilesInv
    <3>2. n \in 1 .. saved[r]
      BY <1>1, <2>2
    <3>3. ASSUME pc[r] = "flush", n > flushed[r] PROVE <<r, n>> \in lapsed'
      <4>1. n \in flushed[r] + 1 .. saved[r]
        BY <3>1, <3>2, <3>3
      <4>2. <<r, n>> \in Unflushed(r)
        BY <4>1 DEF Unflushed
      <4> QED
        BY <3>3, <4>2
    <3> QED
      BY <2>2, <3>1, <3>2, <3>3
  <2> QED
    BY <2>1, <2>2
<1>3. flushed' \in [Readers -> Nat]
  BY <1>1 DEF ReadersInv
<1>4. KeptInv'
  BY <1>2, <1>3, AllKept
<1>5. faults' \in 0 .. MaxFaults
  BY DEF Fail, FilesInv, TimesInv
<1>6. TimesInv'
  BY <1>2, <1>5, TimesStay DEF FilesInv
<1> QED
  BY <1>1, <1>4, <1>6

LEMMA SameFiles ==
  ASSUME NEW r, NEW t
  PROVE  SafeStays(r, r, t) /\ HeldStays(r, r, t) /\ Drops(r, r, t) /\ Dropped(r, r) = {}
BY DEF SafeStays, HeldStays, Drops, Dropped

LEMMA ElapseFiles ==
  ASSUME FilesInv, Elapse
  PROVE  FilesInv'
<1>1. /\ clock' = clock + 1 /\ clock' \in 0 .. MaxTick /\ clock \in Nat /\ rot' = rot
      /\ UNCHANGED <<saved, next, pc, flushed, lapsed, faults, wrote, fell>>
  BY DEF Elapse, FilesInv, TimesInv, reading, written
<1>2. ReadersInv' /\ \A r \in Readers : LastWritten(r)' = LastWritten(r)
  BY <1>1 DEF FilesInv, ReadersInv, ReaderInv, LastWritten
<1>3. TimesInv'
  <2>1. ASSUME NEW r \in Readers, NEW n \in 1 .. LastWritten(r)'
        PROVE  wrote'[<<r, n>>].at \in 0 .. clock'
    <3>1. wrote[<<r, n>>].at \in 0 .. clock
      BY <1>2 DEF FilesInv, TimesInv
    <3> QED
      BY <1>1, <3>1
  <2> QED
    BY <1>1, <2>1 DEF FilesInv, TimesInv
<1>4. Fit(rot, clock + 1)
  <2>1. Fit(rot, clock)
    BY DEF FilesInv, RotatorInv
  <2>2. ASSUME rot.file # NoHandle, Old(rot.file.hour, clock)
        PROVE  Old(rot.file.hour, clock + 1)
    <3>1. rot.file.hour # NoTs /\ rot.file.hour \in Periods \cup {NoTs}
      BY <2>1, <2>2, FitParts DEF Fit, Handles
    <3> QED
      BY <1>1, <2>2, <3>1, PeriodsAre, OldStays
  <2> QED
    BY <2>1, <2>2 DEF Fit
<1>5. RotatorInv'
  BY <1>1, <1>4 DEF FilesInv, RotatorInv
<1>6. KeptInv'
  <2> SUFFICES ASSUME NEW r \in Readers, NEW n \in 1 .. LastWritten(r) PROVE Kept(r, n)'
    BY <1>2 DEF KeptInv
  <2>1. Kept(r, n) /\ wrote[<<r, n>>].at \in Nat
    BY <1>1 DEF FilesInv, KeptInv, TimesInv
  <2>2. clock + 1 + Period <= wrote[<<r, n>>].at + Retention =>
          clock + Period <= wrote[<<r, n>>].at + Retention
    BY <1>1, <2>1
  <2> QED
    BY <1>1, <2>1, <2>2 DEF Kept
<1> QED
  BY <1>2, <1>3, <1>5, <1>6 DEF FilesInv

LEMMA SaveBlockFiles ==
  ASSUME FilesInv, NEW r \in Readers, SaveBlock(r)
  PROVE  FilesInv'
<1>1. /\ LastWritten(r) = next[r] - 1 /\ saved[r] < next[r] /\ flushed[r] = saved[r]
      /\ saved[r] \in Nat /\ next[r] \in Nat /\ LastWritten(r) <= Len(NameOf[r])
      /\ flushed[r] \in Nat
  BY LastWrittenIs DEF FilesInv, SaveBlock
<1>2. PICK s \in Nat : s = next[r] - 1
  BY <1>1
<1>3. /\ saved' = [saved EXCEPT ![r] = s] /\ next' = [next EXCEPT ![r] = next[r]]
      /\ flushed' = [flushed EXCEPT ![r] = flushed[r]] /\ pc' = [pc EXCEPT ![r] = "flush"]
      /\ UNCHANGED <<clock, rot, flushed, lapsed, faults, wrote, fell>>
  BY <1>2 DEF SaveBlock, GoTo, FilesInv, ReadersInv, written
<1>4. /\ saved' \in [Readers -> Nat] /\ next' \in [Readers -> Nat]
      /\ flushed' \in [Readers -> Nat] /\ pc' \in [Readers -> Places]
      /\ saved'[r] = s /\ next'[r] = next[r] /\ flushed'[r] = flushed[r] /\ pc'[r] = "flush"
      /\ OthersStay(r)
  <2>1. "flush" \in Places
    BY DEF Places
  <2> QED
    BY <1>1, <1>3, <2>1, ReaderMoves DEF FilesInv
<1>5. ReaderInv(r)' /\ LastWritten(r)' = LastWritten(r)
  BY <1>1, <1>2, <1>4 DEF ReaderInv, LastWritten
<1>6. ReadersInv' /\ \A q \in Readers : LastWritten(q)' = LastWritten(q)
  BY <1>4, <1>5, ReadersStay DEF FilesInv
<1>7. TimesInv' /\ RotatorInv'
  BY <1>3, <1>6 DEF FilesInv, TimesInv, RotatorInv
<1>8. KeptInv'
  BY <1>3, <1>6 DEF FilesInv, KeptInv, Kept
<1> QED
  BY <1>6, <1>7, <1>8 DEF FilesInv

\* The file stays what it is in a Sync and in a Clean: the Rotator follows.
LEMMA RotatorStays ==
  ASSUME RotatorInv, clock' = clock, fell' = fell, Fit(rot', clock), rot'.ts = rot.ts,
         rot'.file.open = rot.file.open, rot'.file.hour = rot.file.hour,
         rot.file = NoHandle => rot'.file = NoHandle
  PROVE  RotatorInv'
BY DEF RotatorInv, Follows

LEMMA FlushBlockFiles ==
  ASSUME FilesInv, NEW r \in Readers, FlushBlock(r)
  PROVE  FilesInv'
<1>1. PICK f \in Sync(rot) :
        /\ rot' = f.to /\ lapsed \cup Dropped(rot, f.to) \subseteq lapsed'
        /\ clock' = clock /\ wrote' = wrote /\ fell' = fell /\ pc[r] = "flush"
        /\ \/ /\ f.ok /\ flushed' = [flushed EXCEPT ![r] = saved[r]]
              /\ pc' = [pc EXCEPT ![r] = "block"]
              /\ UNCHANGED <<saved, next, faults>>
           \/ /\ ~f.ok /\ Fail(r) /\ Unflushed(r) \subseteq lapsed'
  BY DEF FlushBlock, GoTo, written
<1>2. Fit(rot, clock)
  BY DEF FilesInv, RotatorInv
<1>3. /\ Fit(f.to, clock) /\ f.to.ts = rot.ts /\ f.to.file = rot.file
      /\ \A e, h : Safe(rot, e, h) => Safe(f.to, e, h)
      /\ Drops(rot, f.to, clock)
      /\ f.ok => \A e, h : Safe(rot, e, h) \/ Held(rot, e, h) => Safe(f.to, e, h)
  BY <1>1, <1>2, SyncOutcome
<1>4. SafeStays(rot, rot', clock) /\ Drops(rot, rot', clock)
  BY <1>1, <1>3 DEF SafeStays
<1>5. RotatorInv'
  BY <1>1, <1>3, RotatorStays DEF FilesInv
<1>6. CASE ~f.ok /\ Fail(r) /\ Unflushed(r) \subseteq lapsed'
  <2>1. lapsed \cup Dropped(rot, rot') \subseteq lapsed'
    BY <1>1
  <2>2. ReadersInv' /\ TimesInv' /\ KeptInv'
    BY <1>1, <1>4, <1>6, <2>1, FailFiles
  <2> QED
    BY <1>5, <2>2 DEF FilesInv
<1>7. CASE /\ f.ok /\ flushed' = [flushed EXCEPT ![r] = saved[r]]
           /\ pc' = [pc EXCEPT ![r] = "block"]
           /\ UNCHANGED <<saved, next, faults>>
  <2>1. /\ LastWritten(r) = next[r] - 1 /\ saved[r] < next[r]
        /\ saved[r] \in Nat /\ next[r] \in Nat /\ LastWritten(r) <= Len(NameOf[r])
    BY <1>1, LastWrittenIs DEF FilesInv
  <2>2. /\ saved' = [saved EXCEPT ![r] = saved[r]] /\ next' = [next EXCEPT ![r] = next[r]]
    BY <1>7 DEF FilesInv, ReadersInv
  <2>3. /\ saved' \in [Readers -> Nat] /\ next' \in [Readers -> Nat]
        /\ flushed' \in [Readers -> Nat] /\ pc' \in [Readers -> Places]
        /\ saved'[r] = saved[r] /\ next'[r] = next[r] /\ flushed'[r] = saved[r]
        /\ pc'[r] = "block" /\ OthersStay(r)
    <3>1. "block" \in Places
      BY DEF Places
    <3> QED
      <4>1. PICK b \in Nat : b = saved[r]
        BY <2>1
      <4>2. PICK x \in Nat : x = next[r]
        BY <2>1
      <4>3. /\ saved' = [saved EXCEPT ![r] = b] /\ next' = [next EXCEPT ![r] = x]
            /\ flushed' = [flushed EXCEPT ![r] = b] /\ pc' = [pc EXCEPT ![r] = "block"]
        BY <1>7, <2>2, <4>1, <4>2
      <4>4. /\ saved' \in [Readers -> Nat] /\ next' \in [Readers -> Nat]
            /\ flushed' \in [Readers -> Nat] /\ pc' \in [Readers -> Places]
            /\ saved'[r] = b /\ next'[r] = x /\ flushed'[r] = b
            /\ pc'[r] = "block" /\ OthersStay(r)
        BY <3>1, <4>3, ReaderMoves DEF FilesInv
      <4> QED
        BY <4>1, <4>2, <4>4
  <2>4. ReaderInv(r)' /\ LastWritten(r)' = LastWritten(r)
    BY <2>1, <2>3 DEF ReaderInv, LastWritten
  <2>5. ReadersInv' /\ \A q \in Readers : LastWritten(q)' = LastWritten(q)
    BY <2>3, <2>4, ReadersStay DEF FilesInv
  <2>6. TimesInv'
    BY <1>1, <1>7, <2>5 DEF FilesInv, TimesInv
  <2>7. /\ \A e, h : Held(rot, e, h) => Safe(rot', e, h)
        /\ lapsed \cup Dropped(rot, rot') \subseteq lapsed'
    BY <1>1, <1>3, <1>7
  <2>8. KeptInv'
    BY <1>1, <1>4, <2>3, <2>5, <2>7, AllKept
  <2> QED
    BY <1>5, <2>5, <2>6, <2>8 DEF FilesInv
<1> QED
  BY <1>1, <1>6, <1>7

\* A step of r that only takes it to another place.
LEMMA ReaderGoes ==
  ASSUME ReadersInv, NEW r \in Readers, NEW p \in Places, GoOn(r, p),
         \/ pc[r] \in {"row", "block"} /\ next[r] <= Len(NameOf[r]) /\ p = "sample"
         \/ pc[r] \in {"row", "block"} /\ p = "unflushed"
  PROVE  /\ ReadersInv' /\ OthersStay(r) /\ flushed' = flushed
         /\ LastWritten(r)' = IF p = "sample" THEN next[r] ELSE LastWritten(r)
         /\ \A q \in Readers \ {r} : LastWritten(q)' = LastWritten(q)
<1>1. /\ saved[r] \in Nat /\ next[r] \in Nat /\ flushed[r] = saved[r] /\ saved[r] < next[r]
      /\ LastWritten(r) = next[r] - 1 /\ LastWritten(r) <= Len(NameOf[r])
  BY LastWrittenIs
<1>2. /\ saved' = [saved EXCEPT ![r] = saved[r]] /\ next' = [next EXCEPT ![r] = next[r]]
      /\ flushed' = [flushed EXCEPT ![r] = saved[r]] /\ pc' = [pc EXCEPT ![r] = p]
      /\ flushed' = flushed
  BY <1>1 DEF GoOn, GoTo, ReadersInv
<1>3. /\ saved' \in [Readers -> Nat] /\ next' \in [Readers -> Nat]
      /\ flushed' \in [Readers -> Nat] /\ pc' \in [Readers -> Places]
      /\ saved'[r] = saved[r] /\ next'[r] = next[r] /\ flushed'[r] = saved[r]
      /\ pc'[r] = p /\ OthersStay(r)
  <2>1. PICK b \in Nat : b = saved[r]
    BY <1>1
  <2>2. PICK x \in Nat : x = next[r]
    BY <1>1
  <2>3. /\ saved' = [saved EXCEPT ![r] = b] /\ next' = [next EXCEPT ![r] = x]
        /\ flushed' = [flushed EXCEPT ![r] = b] /\ pc' = [pc EXCEPT ![r] = p]
    BY <1>2, <2>1, <2>2
  <2>4. /\ saved' \in [Readers -> Nat] /\ next' \in [Readers -> Nat]
        /\ flushed' \in [Readers -> Nat] /\ pc' \in [Readers -> Places]
        /\ saved'[r] = b /\ next'[r] = x /\ flushed'[r] = b
        /\ pc'[r] = p /\ OthersStay(r)
    BY <2>3, ReaderMoves
  <2> QED
    BY <2>1, <2>2, <2>4
<1>4. ReaderInv(r)' /\ LastWritten(r)' = IF p = "sample" THEN next[r] ELSE LastWritten(r)
  BY <1>1, <1>3 DEF ReaderInv, LastWritten
<1> QED
  BY <1>2, <1>3, <1>4, ReadersStay

LEMMA WriteFileFiles ==
  ASSUME FilesInv, NEW r \in Readers, WriteFile(r)
  PROVE  FilesInv'
<1>1. PICK e : e = <<r, next[r]>>
  OBVIOUS
<1>2. PICK f \in WriteEvent(rot, e, clock) :
        /\ e \in Events /\ rot' = f.to /\ clock' = clock /\ pc[r] \in {"row", "block"}
        /\ \/ /\ f.ok /\ fell' = fell /\ GoOn(r, "sample")
              /\ wrote' = [wrote EXCEPT ![e] =
                             [at |-> clock, clear |-> fell # PeriodOf(clock)]]
              /\ lapsed' = (lapsed \ {e}) \cup Dropped(rot, f.to)
           \/ /\ ~f.ok /\ fell' = PeriodOf(clock) /\ Fail(r) /\ wrote' = wrote
              /\ lapsed' = lapsed \cup Dropped(rot, f.to)
  BY <1>1, Zenon DEF WriteFile
<1>3. /\ clock \in 0 .. MaxTick /\ clock \in Nat /\ Fit(rot, clock) /\ Follows(rot, fell)
  BY DEF FilesInv, TimesInv, RotatorInv
<1>4. /\ Fit(f.to, clock) /\ SafeStays(rot, f.to, clock) /\ Drops(rot, f.to, clock)
      /\ ~f.ok => f.to.ts = PeriodOf(clock) \/ f.to.file = NoHandle
      /\ f.ok => /\ HeldStays(rot, f.to, clock) /\ Follows(f.to, fell)
                 /\ fell = PeriodOf(clock) \/ Old(PeriodOf(clock), clock)
                      \/ Held(f.to, e, PeriodOf(clock))
  BY <1>2, <1>3, WriteEventOutcome
<1>5. RotatorInv'
  BY <1>2, <1>4 DEF RotatorInv, Follows
<1>6. CASE /\ ~f.ok /\ fell' = PeriodOf(clock) /\ Fail(r) /\ wrote' = wrote
           /\ lapsed' = lapsed \cup Dropped(rot, f.to)
  <2>1. SafeStays(rot, rot', clock) /\ Drops(rot, rot', clock)
        /\ lapsed \cup Dropped(rot, rot') \subseteq lapsed' /\ pc[r] # "flush"
    BY <1>2, <1>4, <1>6
  <2>2. ReadersInv' /\ TimesInv' /\ KeptInv'
    BY <1>2, <1>6, <2>1, FailFiles
  <2> QED
    BY <1>5, <2>2 DEF FilesInv
<1>7. CASE /\ f.ok /\ fell' = fell /\ GoOn(r, "sample")
           /\ wrote' = [wrote EXCEPT ![e] =
                          [at |-> clock, clear |-> fell # PeriodOf(clock)]]
           /\ lapsed' = (lapsed \ {e}) \cup Dropped(rot, f.to)
  <2>1. /\ next[r] \in Nat /\ saved[r] \in Nat /\ flushed[r] = saved[r] /\ saved[r] < next[r]
        /\ LastWritten(r) = next[r] - 1 /\ next[r] <= Len(NameOf[r])
    <3>1. next[r] \in 1 .. Len(NameOf[r])
      BY <1>1, <1>2, EventsAre
    <3> QED
      BY <1>2, <3>1, LastWrittenIs DEF FilesInv
  <2>2. /\ ReadersInv' /\ OthersStay(r) /\ flushed' = flushed
        /\ LastWritten(r)' = next[r]
        /\ \A q \in Readers \ {r} : LastWritten(q)' = LastWritten(q)
    <3>1. "sample" \in Places
      BY DEF Places
    <3>2. /\ ReadersInv' /\ OthersStay(r) /\ flushed' = flushed
          /\ LastWritten(r)' = IF "sample" = "sample" THEN next[r] ELSE LastWritten(r)
          /\ \A q \in Readers \ {r} : LastWritten(q)' = LastWritten(q)
      BY <1>2, <1>7, <2>1, <3>1, ReaderGoes DEF FilesInv
    <3> QED
      BY <3>2
  <2>3. PICK w : w = [at |-> clock, clear |-> fell # PeriodOf(clock)]
    OBVIOUS
  <2>4. /\ w \in [at : Instants, clear : BOOLEAN] /\ w.at = clock
        /\ w.clear => fell # PeriodOf(clock)
    BY <1>3, <2>3, InstantsAre
  <2>5. /\ wrote' = [wrote EXCEPT ![e] = w]
        /\ wrote \in [Events -> [at : Instants, clear : BOOLEAN]]
    BY <1>7, <2>3 DEF FilesInv, TimesInv
  <2>6. /\ wrote' \in [Events -> [at : Instants, clear : BOOLEAN]] /\ wrote'[e] = w
        /\ \A x \in Events : x # e => wrote'[x] = wrote[x]
    BY <1>2, <2>4, <2>5
  <2>7. ASSUME NEW q \in Readers, NEW n \in 1 .. LastWritten(q)'
        PROVE  \/ n \in 1 .. LastWritten(q) /\ wrote'[<<q, n>>] = wrote[<<q, n>>]
                    /\ <<q, n>> # e
               \/ q = r /\ n = next[r]
    <3>1. CASE q = r /\ n = next[r]
      BY <3>1
    <3>2. CASE ~(q = r /\ n = next[r])
      <4>1. <<q, n>> # e
        BY <1>1, <3>2
      <4>2. n \in 1 .. LastWritten(q)
        BY <2>1, <2>2, <2>7, <3>2
      <4>3. <<q, n>> \in Events
        <5>1. LastWritten(q) <= Len(NameOf[q]) /\ LastWritten(q) \in Nat
              /\ Len(NameOf[q]) \in Nat
          BY LastWrittenIs, EventsAre DEF FilesInv
        <5>2. n \in 1 .. Len(NameOf[q])
          BY <4>2, <5>1
        <5> QED
          BY <5>2, EventsAre
      <4> QED
        BY <2>6, <4>1, <4>2, <4>3
    <3> QED
      BY <3>1, <3>2
  <2>8. TimesInv'
    <3>1. faults' = faults
      BY <1>7 DEF GoOn
    <3>2. ASSUME NEW q \in Readers, NEW n \in 1 .. LastWritten(q)'
          PROVE  wrote'[<<q, n>>].at \in 0 .. clock'
      <4>1. CASE n \in 1 .. LastWritten(q) /\ wrote'[<<q, n>>] = wrote[<<q, n>>]
        BY <1>2, <4>1 DEF FilesInv, TimesInv
      <4>2. CASE q = r /\ n = next[r]
        BY <1>1, <1>2, <1>3, <2>4, <2>6, <4>2
      <4> QED
        BY <2>7, <4>1, <4>2
    <3> QED
      BY <1>2, <2>6, <3>1, <3>2 DEF FilesInv, TimesInv
  <2>9. ASSUME NEW q \in Readers, NEW n \in 1 .. LastWritten(q)' PROVE Kept(q, n)'
    <3>1. CASE n \in 1 .. LastWritten(q) /\ wrote'[<<q, n>>] = wrote[<<q, n>>]
                 /\ <<q, n>> # e
      <4>1. /\ SafeStays(rot, rot', clock) /\ Drops(rot, rot', clock)
            /\ Dropped(rot, rot') \subseteq lapsed'
            /\ <<q, n>> \in lapsed => <<q, n>> \in lapsed'
        BY <1>2, <1>4, <1>7, <3>1
      <4>2. /\ flushed'[q] = flushed[q] /\ flushed'[q] \in Nat /\ n \in Nat
        BY <2>2, LastWrittenIs DEF FilesInv
      <4>3. n <= flushed[q] \/ n > flushed'[q]
        BY <4>2
      <4> QED
        BY <1>2, <3>1, <4>1, <4>2, <4>3, KeptOn
    <3>2. CASE q = r /\ n = next[r]
      <4>1. <<q, n>> = e
        BY <1>1, <3>2
      <4> SUFFICES ASSUME w.clear, clock + Period <= w.at + Retention
                   PROVE  n > flushed'[q] /\ Held(rot', e, PeriodOf(w.at))
        BY <1>2, <2>6, <4>1 DEF Kept
      <4>2. ~Old(PeriodOf(clock), clock)
        BY <1>3, <2>4, NotYetOld
      <4>3. Held(rot', e, PeriodOf(clock))
        BY <1>2, <1>4, <1>7, <2>4, <4>2
      <4>4. n > flushed'[q]
        BY <2>1, <2>2, <3>2
      <4> QED
        BY <2>4, <4>3, <4>4
    <3> QED
      BY <2>7, <3>1, <3>2
  <2> QED
    BY <1>5, <2>2, <2>8, <2>9 DEF FilesInv, KeptInv
<1> QED
  BY <1>2, <1>6, <1>7

LEMMA WriteSamplerFiles ==
  ASSUME FilesInv, NEW r \in Readers, WriteSampler(r)
  PROVE  FilesInv'
<1>1. /\ UNCHANGED <<clock, rot, lapsed, wrote, fell>> /\ pc[r] = "sample"
      /\ \/ Fail(r)
         \/ /\ next' = [next EXCEPT ![r] = @ + 1] /\ pc' = [pc EXCEPT ![r] = "row"]
            /\ UNCHANGED <<saved, flushed, faults>>
  BY DEF WriteSampler, GoTo, written
<1>2. /\ SafeStays(rot, rot', clock) /\ Drops(rot, rot', clock)
      /\ lapsed \cup Dropped(rot, rot') \subseteq lapsed'
  BY <1>1, SameFiles
<1>3. RotatorInv'
  BY <1>1 DEF FilesInv, RotatorInv
<1>4. CASE Fail(r)
  <2>1. ReadersInv' /\ TimesInv' /\ KeptInv'
    BY <1>1, <1>2, <1>4, FailFiles
  <2> QED
    BY <1>3, <2>1 DEF FilesInv
<1>5. CASE /\ next' = [next EXCEPT ![r] = @ + 1] /\ pc' = [pc EXCEPT ![r] = "row"]
           /\ UNCHANGED <<saved, flushed, faults>>
  <2>1. /\ saved[r] \in Nat /\ next[r] \in Nat /\ flushed[r] = saved[r]
        /\ saved[r] < next[r] /\ LastWritten(r) = next[r] /\ LastWritten(r) <= Len(NameOf[r])
    BY <1>1, LastWrittenIs DEF FilesInv
  <2>2. PICK b \in Nat : b = saved[r]
    BY <2>1
  <2>3. PICK x \in Nat : x = next[r] + 1
    BY <2>1
  <2>4. /\ saved' = [saved EXCEPT ![r] = b] /\ next' = [next EXCEPT ![r] = x]
        /\ flushed' = [flushed EXCEPT ![r] = b] /\ pc' = [pc EXCEPT ![r] = "row"]
    BY <1>5, <2>1, <2>2, <2>3 DEF FilesInv, ReadersInv
  <2>5. /\ saved' \in [Readers -> Nat] /\ next' \in [Readers -> Nat]
        /\ flushed' \in [Readers -> Nat] /\ pc' \in [Readers -> Places]
        /\ saved'[r] = b /\ next'[r] = x /\ flushed'[r] = b
        /\ pc'[r] = "row" /\ OthersStay(r)
    <3>1. "row" \in Places
      BY DEF Places
    <3> QED
      BY <2>4, <3>1, ReaderMoves DEF FilesInv
  <2>6. ReaderInv(r)' /\ LastWritten(r)' = LastWritten(r)
    BY <2>1, <2>2, <2>3, <2>5 DEF ReaderInv, LastWritten
  <2>7. ReadersInv' /\ \A q \in Readers : LastWritten(q)' = LastWritten(q)
    BY <2>5, <2>6, ReadersStay DEF FilesInv
  <2>8. TimesInv' /\ KeptInv'
    BY <1>1, <1>5, <2>7 DEF FilesInv, TimesInv, KeptInv, Kept
  <2> QED
    BY <1>3, <2>7, <2>8 DEF FilesInv
<1> QED
  BY <1>1, <1>4, <1>5

LEMMA EndFlushFiles ==
  ASSUME FilesInv, NEW r \in Readers, EndFlush(r)
  PROVE  FilesInv'
<1>1. PICK f \in Sync(rot) :
        /\ rot' = f.to /\ lapsed' = lapsed \cup Dropped(rot, f.to)
        /\ UNCHANGED <<clock, saved, next, faults, wrote, fell>> /\ pc[r] \in {"row", "block"}
        /\ \/ /\ f.ok /\ flushed' = [flushed EXCEPT ![r] = next[r] - 1]
              /\ pc' = [pc EXCEPT ![r] = "clean"]
           \/ /\ ~f.ok /\ flushed' = flushed /\ pc' = [pc EXCEPT ![r] = "unflushed"]
  BY DEF EndFlush, GoTo, written
<1>2. Fit(rot, clock)
  BY DEF FilesInv, RotatorInv
<1>3. /\ Fit(f.to, clock) /\ f.to.ts = rot.ts /\ f.to.file = rot.file
      /\ \A e, h : Safe(rot, e, h) => Safe(f.to, e, h)
      /\ Drops(rot, f.to, clock)
      /\ f.ok => \A e, h : Safe(rot, e, h) \/ Held(rot, e, h) => Safe(f.to, e, h)
  BY <1>1, <1>2, SyncOutcome
<1>4. /\ SafeStays(rot, rot', clock) /\ Drops(rot, rot', clock)
      /\ lapsed \cup Dropped(rot, rot') \subseteq lapsed'
  BY <1>1, <1>3 DEF SafeStays
<1>5. RotatorInv'
  BY <1>1, <1>3, RotatorStays DEF FilesInv
<1>6. /\ saved[r] \in Nat /\ next[r] \in Nat /\ flushed[r] = saved[r] /\ saved[r] < next[r]
      /\ LastWritten(r) = next[r] - 1 /\ LastWritten(r) <= Len(NameOf[r])
  BY <1>1, LastWrittenIs DEF FilesInv
<1>7. CASE ~f.ok /\ flushed' = flushed /\ pc' = [pc EXCEPT ![r] = "unflushed"]
  <2>1. PICK p \in Places : p = "unflushed"
    BY DEF Places
  <2>2. GoOn(r, p) /\ p # "sample"
    BY <1>1, <1>7, <2>1 DEF GoOn, GoTo
  <2>3. /\ ReadersInv' /\ flushed' = flushed
        /\ LastWritten(r)' = IF p = "sample" THEN next[r] ELSE LastWritten(r)
        /\ \A q \in Readers \ {r} : LastWritten(q)' = LastWritten(q)
    BY <1>1, <2>1, <2>2, ReaderGoes DEF FilesInv
  <2>4. \A q \in Readers : LastWritten(q)' = LastWritten(q)
    BY <2>2, <2>3
  <2>5. TimesInv'
    BY <1>1, <2>4 DEF FilesInv, TimesInv
  <2>6. ASSUME NEW q \in Readers, NEW n \in 1 .. LastWritten(q)'
        PROVE  n \in 1 .. LastWritten(q) /\ (n <= flushed[q] \/ n > flushed'[q])
    <3>1. n \in Nat /\ flushed[q] \in Nat
      BY LastWrittenIs DEF FilesInv
    <3> QED
      BY <2>3, <2>4, <3>1
  <2>7. flushed' \in [Readers -> Nat]
    BY <2>3 DEF ReadersInv
  <2>8. KeptInv'
    BY <1>1, <1>4, <2>6, <2>7, AllKept
  <2> QED
    BY <1>5, <2>3, <2>5, <2>8 DEF FilesInv
<1>8. CASE /\ f.ok /\ flushed' = [flushed EXCEPT ![r] = next[r] - 1]
           /\ pc' = [pc EXCEPT ![r] = "clean"]
  <2>1. PICK b \in Nat : b = saved[r]
    BY <1>6
  <2>2. PICK x \in Nat : x = next[r]
    BY <1>6
  <2>3. PICK k \in Nat : k = next[r] - 1
    BY <1>6
  <2>4. /\ saved' = [saved EXCEPT ![r] = b] /\ next' = [next EXCEPT ![r] = x]
        /\ flushed' = [flushed EXCEPT ![r] = k] /\ pc' = [pc EXCEPT ![r] = "clean"]
    BY <1>1, <1>8, <2>1, <2>2, <2>3 DEF FilesInv, ReadersInv
  <2>5. /\ saved' \in [Readers -> Nat] /\ next' \in [Readers -> Nat]
        /\ flushed' \in [Readers -> Nat] /\ pc' \in [Readers -> Places]
        /\ saved'[r] = b /\ next'[r] = x /\ flushed'[r] = k
        /\ pc'[r] = "clean" /\ OthersStay(r)
    <3>1. "clean" \in Places
      BY DEF Places
    <3> QED
      BY <2>4, <3>1, ReaderMoves DEF FilesInv
  <2>6. ReaderInv(r)' /\ LastWritten(r)' = LastWritten(r)
    BY <1>6, <2>1, <2>2, <2>3, <2>5 DEF ReaderInv, LastWritten
  <2>7. ReadersInv' /\ \A q \in Readers : LastWritten(q)' = LastWritten(q)
    BY <2>5, <2>6, ReadersStay DEF FilesInv
  <2>8. TimesInv'
    BY <1>1, <2>7 DEF FilesInv, TimesInv
  <2>9. \A e, h : Held(rot, e, h) => Safe(rot', e, h)
    BY <1>1, <1>3, <1>8
  <2>10. KeptInv'
    BY <1>1, <1>4, <2>5, <2>7, <2>9, AllKept
  <2> QED
    BY <1>5, <2>7, <2>8, <2>10 DEF FilesInv
<1> QED
  BY <1>1, <1>7, <1>8

LEMMA EndCleanFiles ==
  ASSUME FilesInv, NEW r \in Readers, EndClean(r)
  PROVE  FilesInv'
<1>1. PICK c \in Clean(rot, clock) :
        /\ rot' = c.to /\ UNCHANGED <<clock, lapsed, wrote, fell>>
        /\ \/ /\ pc[r] = "clean" /\ saved' = [saved EXCEPT ![r] = next[r] - 1]
              /\ pc' = [pc EXCEPT ![r] = "row"] /\ UNCHANGED <<next, flushed, faults>>
           \/ pc[r] # "flush" /\ Fail(r)
  BY DEF EndClean, GoTo, written
<1>2. Fit(rot, clock)
  BY DEF FilesInv, RotatorInv
<1>3. /\ Fit(c.to, clock) /\ c.to.ts = rot.ts
      /\ SafeStays(rot, c.to, clock) /\ HeldStays(rot, c.to, clock)
      /\ c.to.file.open = rot.file.open /\ c.to.file.hour = rot.file.hour
      /\ rot.file = NoHandle => c.to.file = NoHandle
      /\ \A h \in DOMAIN c.to.dir : h \in DOMAIN rot.dir /\ c.to.dir[h] = rot.dir[h]
  BY <1>1, <1>2, CleanOutcome
<1>4. /\ SafeStays(rot, rot', clock) /\ Drops(rot, rot', clock)
      /\ lapsed \cup Dropped(rot, rot') \subseteq lapsed'
  <2>1. Dropped(rot, c.to) = {}
    BY <1>3 DEF Dropped
  <2> QED
    BY <1>1, <1>3, <2>1, StaysIs
<1>5. RotatorInv'
  BY <1>1, <1>3, RotatorStays DEF FilesInv
<1>6. CASE pc[r] # "flush" /\ Fail(r)
  <2>1. ReadersInv' /\ TimesInv' /\ KeptInv'
    BY <1>1, <1>4, <1>6, FailFiles
  <2> QED
    BY <1>5, <2>1 DEF FilesInv
<1>7. CASE /\ pc[r] = "clean" /\ saved' = [saved EXCEPT ![r] = next[r] - 1]
           /\ pc' = [pc EXCEPT ![r] = "row"] /\ UNCHANGED <<next, flushed, faults>>
  <2>1. /\ saved[r] \in Nat /\ next[r] \in Nat /\ flushed[r] = next[r] - 1
        /\ saved[r] < next[r]
        /\ LastWritten(r) = next[r] - 1 /\ LastWritten(r) <= Len(NameOf[r])
    BY <1>7, LastWrittenIs DEF FilesInv
  <2>2. PICK b \in Nat : b = next[r] - 1
    BY <2>1
  <2>3. PICK x \in Nat : x = next[r]
    BY <2>1
  <2>4. /\ saved' = [saved EXCEPT ![r] = b] /\ next' = [next EXCEPT ![r] = x]
        /\ flushed' = [flushed EXCEPT ![r] = b] /\ pc' = [pc EXCEPT ![r] = "row"]
    BY <1>7, <2>1, <2>2, <2>3 DEF FilesInv, ReadersInv
  <2>5. /\ saved' \in [Readers -> Nat] /\ next' \in [Readers -> Nat]
        /\ flushed' \in [Readers -> Nat] /\ pc' \in [Readers -> Places]
        /\ saved'[r] = b /\ next'[r] = x /\ flushed'[r] = b
        /\ pc'[r] = "row" /\ OthersStay(r)
    <3>1. "row" \in Places
      BY DEF Places
    <3> QED
      BY <2>4, <3>1, ReaderMoves DEF FilesInv
  <2>6. ReaderInv(r)' /\ LastWritten(r)' = LastWritten(r)
    BY <2>1, <2>2, <2>3, <2>5 DEF ReaderInv, LastWritten
  <2>7. ReadersInv' /\ \A q \in Readers : LastWritten(q)' = LastWritten(q)
    BY <2>5, <2>6, ReadersStay DEF FilesInv
  <2>8. TimesInv'
    BY <1>1, <1>7, <2>7 DEF FilesInv, TimesInv
  <2>9. ASSUME NEW q \in Readers, NEW n \in 1 .. LastWritten(q)'
        PROVE  n \in 1 .. LastWritten(q) /\ (n <= flushed[q] \/ n > flushed'[q])
    <3>1. n \in Nat /\ flushed[q] \in Nat
      BY LastWrittenIs DEF FilesInv
    <3> QED
      BY <1>7, <2>7, <3>1
  <2>10. KeptInv'
    BY <1>1, <1>4, <2>5, <2>9, AllKept
  <2> QED
    BY <1>5, <2>7, <2>8, <2>10 DEF FilesInv
<1> QED
  BY <1>1, <1>6, <1>7

LEMMA BreakOffFiles ==
  ASSUME FilesInv, NEW r \in Readers, BreakOff(r)
  PROVE  FilesInv'
<1>1. /\ Fail(r) /\ UNCHANGED <<clock, rot, lapsed, wrote, fell>> /\ pc[r] # "flush"
  BY DEF BreakOff, written
<1>2. /\ SafeStays(rot, rot', clock) /\ Drops(rot, rot', clock)
      /\ lapsed \cup Dropped(rot, rot') \subseteq lapsed'
  BY <1>1, SameFiles
<1>3. ReadersInv' /\ TimesInv' /\ KeptInv'
  BY <1>1, <1>2, FailFiles
<1>4. RotatorInv'
  BY <1>1 DEF FilesInv, RotatorInv
<1> QED
  BY <1>3, <1>4 DEF FilesInv

(***************************************************************************)
(* The program.                                                            *)
(***************************************************************************)
LEMMA NewRotatorFits ==
  ASSUME NEW t, NEW d, IsDirectory(d), \A h \in DOMAIN d : d[h].safe \subseteq d[h].has,
         NEW f
  PROVE  Fit(NewRotator(d), t) /\ Follows(NewRotator(d), f) /\ NewRotator(d).dir = d
BY NoHandleIs DEF Fit, Follows, NewRotator, IsRotator

\* New sinks on a directory that keeps what is safe, when every event of
\* every reader has been flushed for or has lapsed.
LEMMA NewSinks ==
  ASSUME FilesInv, clock' = clock, wrote' = wrote, lapsed \subseteq lapsed',
         faults' \in 0 .. MaxFaults, ReadersInv',
         NEW d, IsDirectory(d), \A h \in DOMAIN d : d[h].safe \subseteq d[h].has,
         \A e, h : Safe(rot, e, h) => h \in DOMAIN d /\ e \in d[h].safe,
         rot' = NewRotator(d),
         \A q \in Readers : \A n \in 1 .. LastWritten(q)' :
           n \in 1 .. LastWritten(q) /\ (n <= flushed[q] \/ <<q, n>> \in lapsed')
  PROVE  FilesInv'
<1>1. RotatorInv'
  BY NewRotatorFits DEF RotatorInv
<1>2. TimesInv'
  BY TimesStay DEF FilesInv
<1>3. ASSUME NEW q \in Readers, NEW n \in 1 .. LastWritten(q)' PROVE Kept(q, n)'
  <2>1. n \in 1 .. LastWritten(q) /\ (n <= flushed[q] \/ <<q, n>> \in lapsed')
    OBVIOUS
  <2>2. PICK e : e = <<q, n>>
    OBVIOUS
  <2>3. PICK p : p = PeriodOf(wrote[e].at)
    OBVIOUS
  <2> SUFFICES ASSUME wrote[e].clear, e \notin lapsed',
                      clock + Period <= wrote[e].at + Retention
               PROVE  Safe(rot', e, p)
    BY <2>2, <2>3 DEF Kept
  <2>4. Safe(rot, e, p) \/ (n > flushed[q] /\ Held(rot, e, p))
    BY <2>1, <2>2, <2>3 DEF FilesInv, KeptInv, Kept
  <2>5. ~(n > flushed[q])
    <3>1. n \in Nat /\ flushed[q] \in Nat
      BY LastWrittenIs DEF FilesInv
    <3> QED
      BY <2>1, <2>2, <3>1
  <2>6. Safe(rot, e, p)
    BY <2>4, <2>5
  <2> QED
    BY <2>6, NewRotatorFits DEF Safe
<1> QED
  BY <1>1, <1>2, <1>3 DEF FilesInv, KeptInv

LEMMA ReloadFiles ==
  ASSUME FilesInv, Reload
  PROVE  FilesInv'
<1>1. PICK f \in Sync(rot) : rot' = NewRotator(f.to.dir) /\ lapsed \subseteq lapsed'
  BY DEF Reload
<1>2. Fit(f.to, clock) /\ \A e, h : Safe(rot, e, h) => Safe(f.to, e, h)
  BY SyncOutcome DEF FilesInv, RotatorInv
<1>3. /\ IsDirectory(f.to.dir)
      /\ \A h \in DOMAIN f.to.dir : f.to.dir[h].safe \subseteq f.to.dir[h].has
      /\ \A e, h : Safe(rot, e, h) => h \in DOMAIN f.to.dir /\ e \in f.to.dir[h].safe
  BY <1>2, FitParts DEF Fit, Safe
<1>4. /\ UNCHANGED <<clock, saved, next, pc, flushed, wrote>>
      /\ faults' \in 0 .. MaxFaults
      /\ \A q \in Readers : pc[q] = "row" /\ next[q] = saved[q] + 1
  BY DEF Reload, BetweenPolls, reading, written, FilesInv, TimesInv
<1>5. ReadersInv' /\ \A q \in Readers : LastWritten(q)' = LastWritten(q)
  BY <1>4 DEF FilesInv, ReadersInv, ReaderInv, LastWritten
<1>6. ASSUME NEW q \in Readers, NEW n \in 1 .. LastWritten(q)'
      PROVE  n \in 1 .. LastWritten(q) /\ n <= flushed[q]
  <2>1. flushed[q] = saved[q] /\ LastWritten(q) = next[q] - 1 /\ saved[q] \in Nat
    BY <1>4, LastWrittenIs DEF FilesInv
  <2> QED
    BY <1>4, <1>5, <2>1
<1> QED
  BY <1>1, <1>3, <1>4, <1>5, <1>6, NewSinks

LEMMA RestartFiles ==
  ASSUME FilesInv, Restart,
         NEW d, IsDirectory(d), \A h \in DOMAIN d : d[h].safe \subseteq d[h].has,
         \A e, h : Safe(rot, e, h) => h \in DOMAIN d /\ e \in d[h].safe,
         rot' = NewRotator(d)
  PROVE  FilesInv'
<1>1. /\ UNCHANGED <<clock, saved, wrote>> /\ faults' \in 0 .. MaxFaults
      /\ next' = [q \in Readers |-> saved[q] + 1] /\ pc' = [q \in Readers |-> "row"]
      /\ flushed' = saved /\ lapsed \subseteq lapsed'
      /\ \A q \in Readers : Unflushed(q) \subseteq lapsed'
  BY DEF Restart, written, FilesInv, TimesInv
<1>2. \A q \in Readers : /\ saved[q] \in Nat /\ saved[q] <= Len(NameOf[q])
                         /\ LastWritten(q) \in Nat /\ flushed[q] \in Nat
                         /\ saved[q] <= LastWritten(q) /\ Len(NameOf[q]) \in Nat
  BY LastWrittenIs, EventsAre DEF FilesInv
<1>3. ReadersInv' /\ \A q \in Readers : LastWritten(q)' = saved[q]
  <2>1. saved \in [Readers -> Nat] /\ "row" \in Places
    BY DEF FilesInv, ReadersInv, Places
  <2>2. /\ saved' \in [Readers -> Nat] /\ next' \in [Readers -> Nat]
        /\ flushed' \in [Readers -> Nat] /\ pc' \in [Readers -> Places]
    BY <1>1, <2>1
  <2>3. \A q \in Readers : ReaderInv(q)' /\ LastWritten(q)' = saved[q]
    BY <1>1, <1>2 DEF ReaderInv, LastWritten
  <2> QED
    BY <2>2, <2>3 DEF ReadersInv
<1>4. ASSUME NEW q \in Readers, NEW n \in 1 .. LastWritten(q)'
      PROVE  n \in 1 .. LastWritten(q) /\ (n <= flushed[q] \/ <<q, n>> \in lapsed')
  <2>1. n \in 1 .. saved[q] /\ n \in 1 .. LastWritten(q)
    BY <1>2, <1>3
  <2>2. ASSUME ~(n <= flushed[q]) PROVE <<q, n>> \in lapsed'
    <3>1. n \in flushed[q] + 1 .. saved[q]
      BY <1>2, <2>1, <2>2
    <3>2. <<q, n>> \in Unflushed(q)
      BY <3>1 DEF Unflushed
    <3> QED
      BY <1>1, <3>2
  <2> QED
    BY <2>1, <2>2
<1> QED
  BY <1>1, <1>3, <1>4, NewSinks

LEMMA KillFiles ==
  ASSUME FilesInv, Kill
  PROVE  FilesInv'
<1>1. Restart /\ rot' = NewRotator(rot.dir) /\ Fit(rot, clock)
  BY DEF Kill, FilesInv, RotatorInv
<1>2. /\ IsDirectory(rot.dir)
      /\ \A h \in DOMAIN rot.dir : rot.dir[h].safe \subseteq rot.dir[h].has
      /\ \A e, h : Safe(rot, e, h) => h \in DOMAIN rot.dir /\ e \in rot.dir[h].safe
  BY <1>1, FitParts DEF Fit, Safe
<1> QED
  BY <1>1, <1>2, RestartFiles

LEMMA PowerFailureFiles ==
  ASSUME FilesInv, PowerFailure
  PROVE  FilesInv'
<1>1. PICK d : d = SyncedOnly(rot.dir)
  OBVIOUS
<1>2. /\ IsDirectory(d) /\ DOMAIN d = DOMAIN rot.dir
      /\ \A k \in DOMAIN rot.dir : d[k].has = rot.dir[k].safe
                                   /\ d[k].safe = rot.dir[k].safe
  BY <1>1, FitParts, SyncedOnlyIs DEF FilesInv, RotatorInv
<1>3. Restart /\ rot' = NewRotator(d)
  BY <1>1 DEF PowerFailure
<1>4. /\ \A h \in DOMAIN d : d[h].safe \subseteq d[h].has
      /\ \A e, h : Safe(rot, e, h) => h \in DOMAIN d /\ e \in d[h].safe
  BY <1>2 DEF Safe
<1> QED
  BY <1>2, <1>3, <1>4, RestartFiles

(***************************************************************************)
(* The parts about the sampler.                                            *)
(***************************************************************************)
SamplesInv == SamplerInv /\ SampleFollows

LEMMA ElapseSamples ==
  ASSUME TimesInv, SamplesInv, Elapse
  PROVE  SamplesInv'
<1>1. clock' = clock + 1 /\ clock \in Nat
      /\ smp' = smp /\ seen' = seen /\ missed' = missed
  BY DEF Elapse, TimesInv, sampled
<1>2. \A n \in Names : seen[n] <= clock => seen[n] <= clock + 1
  BY <1>1, InstantsAre DEF SamplesInv, SamplerInv
<1>3. SamplerInv'
  BY <1>1, <1>2 DEF SamplesInv, SamplerInv
<1>4. SampleFollows'
  BY <1>1 DEF SamplesInv, SampleFollows
<1> QED
  BY <1>3, <1>4 DEF SamplesInv

\* An event is accepted, for one reason or the other.
LEMMA Accepted ==
  ASSUME TimesInv, SamplesInv, clock' = clock, NEW n \in Names,
         seen' = [seen EXCEPT ![n] = clock], missed' = missed,
         \/ smp' = smp /\ smp.noted[n] # Never /\ clock < smp.noted[n] + Duration
         \/ smp' = [smp EXCEPT !.noted[n] = clock, !.sample[n] = clock]
  PROVE  SamplesInv'
<1>1. /\ clock \in Nat /\ clock \in Instants /\ clock # Never /\ clock \in Int
      /\ smp \in [noted : [Names -> Instants], sample : [Names -> Instants]]
      /\ seen \in [Names -> Instants] /\ missed \in [Names -> Instants]
      /\ \A k \in Names : /\ seen[k] <= clock
                          /\ smp.noted[k] \in {Never, smp.sample[k], missed[k]}
  BY InstantsAre DEF TimesInv, SamplesInv, SamplerInv
<1>2. /\ seen' \in [Names -> Instants] /\ seen'[n] = clock
      /\ \A k \in Names : k # n => seen'[k] = seen[k]
  BY <1>1
<1>3. CASE smp' = smp /\ smp.noted[n] # Never /\ clock < smp.noted[n] + Duration
  <2>1. SamplerInv'
    BY <1>1, <1>2, <1>3 DEF SamplerInv
  <2>2. Covers(smp'.sample[n], clock) \/ Covers(missed'[n], clock)
    BY <1>1, <1>3 DEF Covers
  <2>3. SampleFollows'
    BY <1>2, <1>3, <2>2 DEF SamplesInv, SampleFollows
  <2> QED
    BY <2>1, <2>3 DEF SamplesInv
<1>4. CASE smp' = [smp EXCEPT !.noted[n] = clock, !.sample[n] = clock]
  <2>1. /\ smp' \in [noted : [Names -> Instants], sample : [Names -> Instants]]
        /\ smp'.noted[n] = clock /\ smp'.sample[n] = clock
        /\ \A k \in Names : k # n => /\ smp'.noted[k] = smp.noted[k]
                                     /\ smp'.sample[k] = smp.sample[k]
    BY <1>1, <1>4
  <2>2. SamplerInv'
    BY <1>1, <1>2, <2>1 DEF SamplerInv
  <2>3. Covers(clock, clock)
    BY <1>1 DEF Covers
  <2>4. SampleFollows'
    BY <1>2, <2>1, <2>3 DEF SamplesInv, SampleFollows
  <2> QED
    BY <2>2, <2>4 DEF SamplesInv
<1> QED
  BY <1>3, <1>4

\* A sample that fails: the name was noted, and the file may be empty.
LEMMA Missed ==
  ASSUME TimesInv, SamplesInv, clock' = clock, NEW n \in Names,
         missed' = [missed EXCEPT ![n] = clock], seen' = seen,
         \/ smp' = [smp EXCEPT !.noted[n] = clock]
         \/ smp' = [smp EXCEPT !.noted[n] = clock, !.sample[n] = Never]
  PROVE  SamplesInv'
<1>1. /\ clock \in Nat /\ clock \in Instants /\ clock # Never /\ Never \in Instants
      /\ smp \in [noted : [Names -> Instants], sample : [Names -> Instants]]
      /\ seen \in [Names -> Instants] /\ missed \in [Names -> Instants]
      /\ \A k \in Names : /\ seen[k] <= clock
                          /\ smp.noted[k] \in {Never, smp.sample[k], missed[k]}
  BY InstantsAre DEF TimesInv, SamplesInv, SamplerInv, Instants
<1>2. /\ missed' \in [Names -> Instants] /\ missed'[n] = clock
      /\ \A k \in Names : k # n => missed'[k] = missed[k]
  BY <1>1
<1>3. /\ smp' \in [noted : [Names -> Instants], sample : [Names -> Instants]]
      /\ smp'.noted[n] = clock
      /\ \A k \in Names : k # n => /\ smp'.noted[k] = smp.noted[k]
                                   /\ smp'.sample[k] = smp.sample[k]
  <2>1. CASE smp' = [smp EXCEPT !.noted[n] = clock]
    BY <1>1, <2>1
  <2>2. CASE smp' = [smp EXCEPT !.noted[n] = clock, !.sample[n] = Never]
    BY <1>1, <2>2
  <2> QED
    BY <2>1, <2>2
<1>4. SamplerInv'
  BY <1>1, <1>2, <1>3 DEF SamplerInv
<1>5. Covers(missed'[n], seen'[n])
  BY <1>1, <1>2 DEF Covers
<1>6. SampleFollows'
  BY <1>2, <1>3, <1>5 DEF SamplesInv, SampleFollows
<1> QED
  BY <1>4, <1>6 DEF SamplesInv

LEMMA WriteSamplerSamples ==
  ASSUME ReadersInv, TimesInv, SamplesInv, NEW r \in Readers, WriteSampler(r)
  PROVE  SamplesInv'
<1>1. clock' = clock /\ NameOf[r][next[r]] \in Names
  <2>1. next[r] \in Nat /\ saved[r] \in Nat /\ saved[r] < next[r]
        /\ next[r] <= Len(NameOf[r])
    BY LastWrittenIs DEF WriteSampler
  <2>2. next[r] \in 1 .. Len(NameOf[r])
    BY <2>1, EventsAre
  <2> QED
    BY <2>2, EventsAre DEF WriteSampler
<1>2. ASSUME NEW s \in WriteSample(smp, NameOf[r][next[r]], clock), smp' = s.to,
             \/ /\ s.ok /\ seen' = [seen EXCEPT ![NameOf[r][next[r]]] = clock]
                /\ missed' = missed
             \/ /\ ~s.ok /\ missed' = [missed EXCEPT ![NameOf[r][next[r]]] = clock]
                /\ seen' = seen
      PROVE  SamplesInv'
  <2>1. PICK n \in Names : n = NameOf[r][next[r]]
    BY <1>1
  <2> DEFINE marked == [smp EXCEPT !.noted[n] = clock]
  <2>2. \/ s = Done(smp) /\ smp.noted[n] # Never /\ clock < smp.noted[n] + Duration
        \/ s = Done([marked EXCEPT !.sample[n] = clock])
        \/ s = Failed(marked)
        \/ s = Failed([marked EXCEPT !.sample[n] = Never])
    BY <2>1 DEF WriteSample
  <2>3. /\ smp \in [noted : [Names -> Instants], sample : [Names -> Instants]]
        /\ [marked EXCEPT !.sample[n] = clock]
             = [smp EXCEPT !.noted[n] = clock, !.sample[n] = clock]
        /\ [marked EXCEPT !.sample[n] = Never]
             = [smp EXCEPT !.noted[n] = clock, !.sample[n] = Never]
    BY DEF SamplesInv, SamplerInv
  <2>4. CASE s.ok
    <3>1. \/ smp' = smp /\ smp.noted[n] # Never /\ clock < smp.noted[n] + Duration
          \/ smp' = [smp EXCEPT !.noted[n] = clock, !.sample[n] = clock]
      BY <1>2, <2>2, <2>3, <2>4, OutcomeIs
    <3>2. seen' = [seen EXCEPT ![n] = clock] /\ missed' = missed
      BY <1>2, <2>1, <2>4
    <3> QED
      BY <1>1, <3>1, <3>2, Accepted
  <2>5. CASE ~s.ok
    <3>1. \/ smp' = [smp EXCEPT !.noted[n] = clock]
          \/ smp' = [smp EXCEPT !.noted[n] = clock, !.sample[n] = Never]
      BY <1>2, <2>2, <2>3, <2>5, OutcomeIs
    <3>2. missed' = [missed EXCEPT ![n] = clock] /\ seen' = seen
      BY <1>2, <2>1, <2>5
    <3> QED
      BY <1>1, <3>1, <3>2, Missed
  <2> QED
    BY <2>4, <2>5
<1>3. \E s \in WriteSample(smp, NameOf[r][next[r]], clock) :
        /\ smp' = s.to
        /\ \/ /\ s.ok /\ seen' = [seen EXCEPT ![NameOf[r][next[r]]] = clock]
              /\ missed' = missed
           \/ /\ ~s.ok /\ missed' = [missed EXCEPT ![NameOf[r][next[r]]] = clock]
              /\ seen' = seen
  BY Zenon DEF WriteSampler
<1> QED
  BY <1>2, <1>3

\* New sinks: the names are forgotten, the samples are there.
LEMMA KeptSamples ==
  ASSUME TimesInv, SamplesInv, Reload \/ Kill
  PROVE  SamplesInv'
<1>1. /\ clock' = clock /\ seen' = seen /\ missed' = missed
      /\ smp' = [noted |-> [n \in Names |-> Never], sample |-> smp.sample]
  BY DEF Reload, Kill, Restart, NewSampler
<1>2. smp \in [noted : [Names -> Instants], sample : [Names -> Instants]]
      /\ Never \in Instants
  BY DEF SamplesInv, SamplerInv, Instants
<1>3. /\ smp' \in [noted : [Names -> Instants], sample : [Names -> Instants]]
      /\ smp'.sample = smp.sample /\ \A n \in Names : smp'.noted[n] = Never
  BY <1>1, <1>2
<1> QED
  BY <1>1, <1>3 DEF SamplesInv, SamplerInv, SampleFollows

LEMMA PowerFailureSamples ==
  ASSUME TimesInv, SamplesInv, PowerFailure
  PROVE  SamplesInv'
<1>1. /\ clock' = clock /\ missed' = missed /\ seen' = [n \in Names |-> Never]
      /\ smp' = [noted |-> [n \in Names |-> Never], sample |-> [n \in Names |-> Never]]
  BY DEF PowerFailure, Restart, NewSampler
<1>2. Never \in Instants /\ clock \in Nat /\ Never <= clock
  BY DEF TimesInv, Instants, Never
<1>3. /\ smp' \in [noted : [Names -> Instants], sample : [Names -> Instants]]
      /\ seen' \in [Names -> Instants]
      /\ \A n \in Names : smp'.noted[n] = Never /\ seen'[n] = Never
  BY <1>1, <1>2
<1> QED
  BY <1>1, <1>2, <1>3 DEF SamplesInv, SamplerInv, SampleFollows

(***************************************************************************)
(* The invariant.                                                          *)
(***************************************************************************)
LEMMA InitInv == Init => IInv
<1> SUFFICES ASSUME Init PROVE IInv
  OBVIOUS
<1>1. Never \in Instants /\ Never <= 0
  BY DEF Instants, Never
<1>2. ReadersInv /\ \A r \in Readers : LastWritten(r) = 0
  <2>1. \A r \in Readers : Len(NameOf[r]) \in Nat
    BY EventsAre
  <2> QED
    BY <2>1 DEF Init, ReadersInv, ReaderInv, LastWritten, Places
<1>3. TimesInv
  BY <1>1, <1>2 DEF Init, TimesInv, Unwritten
<1>4. RotatorInv
  <2>1. PICK d : d = <<>>
    OBVIOUS
  <2>2. d \in Seq(Contents) /\ Len(d) = 0
    BY <2>1
  <2>3. DOMAIN d = {} /\ d \in [DOMAIN d -> Contents]
    BY <2>2
  <2>4. IsDirectory(d) /\ \A h \in DOMAIN d : d[h].safe \subseteq d[h].has
    BY <2>3, DirectoryIs
  <2> QED
    BY <2>1, <2>4, NewRotatorFits DEF Init, RotatorInv
<1>5. KeptInv
  BY <1>2 DEF KeptInv
<1>6. SamplerInv /\ SampleFollows
  BY <1>1 DEF Init, SamplerInv, SampleFollows, NewSampler
<1>7. CounterInv
  BY NewCounterFits DEF Init
<1> QED
  BY <1>2, <1>3, <1>4, <1>5, <1>6, <1>7 DEF IInv

LEMMA StepInv ==
  ASSUME IInv, [Next]_vars
  PROVE  IInv'
<1> SUFFICES FilesInv' /\ SamplesInv'
  <2>1. CounterInv'
    BY CounterStep DEF IInv
  <2> QED
    BY <2>1 DEF IInv, FilesInv, SamplesInv
<1>1. FilesInv /\ SamplesInv /\ TimesInv /\ ReadersInv
  BY DEF IInv, FilesInv, SamplesInv
<1>2. UNCHANGED <<clock, sampled>> => SamplesInv'
  BY <1>1 DEF SamplesInv, SamplerInv, SampleFollows, sampled
<1>3. CASE Elapse
  BY <1>1, <1>3, ElapseFiles, ElapseSamples
<1>4. ASSUME NEW r \in Readers, SaveBlock(r) PROVE FilesInv' /\ SamplesInv'
  BY <1>1, <1>2, <1>4, SaveBlockFiles DEF SaveBlock
<1>5. ASSUME NEW r \in Readers, FlushBlock(r) PROVE FilesInv' /\ SamplesInv'
  BY <1>1, <1>2, <1>5, FlushBlockFiles DEF FlushBlock
<1>6. ASSUME NEW r \in Readers, WriteFile(r) PROVE FilesInv' /\ SamplesInv'
  BY <1>1, <1>2, <1>6, WriteFileFiles DEF WriteFile
<1>7. ASSUME NEW r \in Readers, WriteSampler(r) PROVE FilesInv' /\ SamplesInv'
  BY <1>1, <1>7, WriteSamplerFiles, WriteSamplerSamples
<1>8. ASSUME NEW r \in Readers, EndFlush(r) PROVE FilesInv' /\ SamplesInv'
  BY <1>1, <1>2, <1>8, EndFlushFiles DEF EndFlush
<1>9. ASSUME NEW r \in Readers, EndClean(r) PROVE FilesInv' /\ SamplesInv'
  BY <1>1, <1>2, <1>9, EndCleanFiles DEF EndClean
<1>10. ASSUME NEW r \in Readers, BreakOff(r) PROVE FilesInv' /\ SamplesInv'
  BY <1>1, <1>2, <1>10, BreakOffFiles DEF BreakOff
<1>11. CASE Reload
  BY <1>1, <1>11, ReloadFiles, KeptSamples
<1>12. CASE Kill
  BY <1>1, <1>12, KillFiles, KeptSamples
<1>13. CASE PowerFailure
  BY <1>1, <1>13, PowerFailureFiles, PowerFailureSamples
<1>14. CASE UNCHANGED vars
  <2>1. UNCHANGED <<clock, rot, saved, next, pc, flushed, lapsed, faults, wrote, fell>>
        /\ UNCHANGED <<clock, sampled>>
    BY <1>14 DEF vars, reading, written
  <2>2. ReadersInv' /\ \A r \in Readers : LastWritten(r)' = LastWritten(r)
    BY <1>1, <2>1 DEF ReadersInv, ReaderInv, LastWritten
  <2>3. FilesInv'
    BY <1>1, <2>1, <2>2 DEF FilesInv, TimesInv, RotatorInv, KeptInv, Kept
  <2> QED
    BY <1>2, <2>1, <2>3
<1> QED
  BY <1>3, <1>4, <1>5, <1>6, <1>7, <1>8, <1>9, <1>10, <1>11, <1>12, <1>13, <1>14
  DEF Next

(***************************************************************************)
(* The invariant holds of every run: in particular an event that has been  *)
(* flushed for is safe in the file of its period, whoever rotated the file *)
(* between its Write and that Flush, and a handle that can be written to   *)
(* is that of the period the Rotator believes in, unless the Rotator       *)
(* failed in that period (rotator.go Write, rotate; process_session.go,    *)
(* the Save before the Flush between blocks).                              *)
(***************************************************************************)
THEOREM InvariantHolds == Spec => []IInv
BY InitInv, StepInv, PTL DEF Spec

\* Types, and no more: a reader is behind its saved position, and in a file
\* what is safe is a part of what it has (sink_file_2.go, Flush and Write).
THEOREM TypeCorrect == Spec => []TypeOK
<1>1. IInv => TypeOK
  <2> SUFFICES ASSUME IInv PROVE TypeOK
    OBVIOUS
  <2>1. ReadersInv /\ TimesInv /\ Fit(rot, clock)
    BY DEF IInv, RotatorInv
  <2>2. \A h \in DOMAIN rot.dir :
          rot.dir[h].safe \subseteq rot.dir[h].has /\ rot.dir[h].has \subseteq Events
    BY <2>1, FitParts DEF Fit, Contents
  <2>3. rot.file.open /\ rot.file.linked => rot.file.hour \in DOMAIN rot.dir
    BY <2>1 DEF Fit
  <2>4. ASSUME NEW r \in Readers
        PROVE  /\ saved[r] \in 0 .. Len(NameOf[r])
               /\ next[r] \in saved[r] + 1 .. Len(NameOf[r]) + 1
               /\ pc[r] \in Places
    <3>1. /\ saved[r] \in Nat /\ next[r] \in Nat /\ pc[r] \in Places /\ saved[r] < next[r]
          /\ saved[r] <= LastWritten(r) /\ LastWritten(r) <= Len(NameOf[r])
          /\ LastWritten(r) \in Nat /\ Len(NameOf[r]) \in Nat
          /\ LastWritten(r) = next[r] \/ LastWritten(r) = next[r] - 1
      BY <2>1, LastWrittenIs, EventsAre
    <3> QED
      BY <3>1
  <2> QED
    BY <2>1, <2>2, <2>3, <2>4 DEF TypeOK, TimesInv
<1> QED
  BY <1>1, InvariantHolds, PTL

\* What is saved is in a file that a power failure leaves, until a period
\* before its retention ends, whatever the other readers do to the file: but
\* for the block whose Flush, after the Save, has not come or has failed, and
\* for what a failed sync dropped (process_session.go:145, rotator.go).
THEOREM SavedKeptHolds == Spec => []SavedKept
<1>1. IInv => SavedKept
  <2> SUFFICES ASSUME IInv, NEW r \in Readers, NEW n \in 1 .. saved[r]
               PROVE  \/ <<r, n>> \in SafeIn(rot)
                      \/ n > flushed[r] \/ <<r, n>> \in lapsed
                      \/ ~wrote[<<r, n>>].clear
                      \/ clock + Period > wrote[<<r, n>>].at + Retention
    BY DEF SavedKept
  <2>1. PICK e : e = <<r, n>>
    OBVIOUS
  <2> SUFFICES ASSUME ~(n > flushed[r]), e \notin lapsed, wrote[e].clear,
                      ~(clock + Period > wrote[e].at + Retention)
               PROVE  e \in SafeIn(rot)
    BY <2>1
  <2>2. n \in 1 .. LastWritten(r)
    BY LastWrittenIs DEF IInv
  <2>3. Kept(r, n) /\ clock \in Nat /\ wrote[e].at \in Nat
    BY <2>1, <2>2 DEF IInv, KeptInv, TimesInv
  <2>4. clock + Period <= wrote[e].at + Retention
    BY <2>3
  <2>5. PICK p : p = PeriodOf(wrote[e].at)
    OBVIOUS
  <2>6. Safe(rot, e, p)
    BY <2>1, <2>3, <2>4, <2>5 DEF Kept
  <2> QED
    BY <2>6 DEF Safe, SafeIn
<1> QED
  BY <1>1, InvariantHolds, PTL

\* A name that keeps coming keeps its sample (sampler.go Write), for any
\* interval between samples, 0 included.
THEOREM SampleFollowsHolds == Spec => []SampleFollows
<1>1. IInv => SampleFollows
  BY DEF IInv
<1> QED
  BY <1>1, InvariantHolds, PTL

\* Every frame of the counter shows the events of its last intervals and
\* nothing older (metric.go roll, Aggregate), however long it was idle.
THEOREM WindowShownHolds == Spec => []WindowShown
<1>1. IInv => WindowShown
  BY WindowNow DEF IInv
<1> QED
  BY <1>1, InvariantHolds, PTL

=============================================================================
