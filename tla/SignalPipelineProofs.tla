-------------------------- MODULE SignalPipelineProofs --------------------------
(***************************************************************************)
(* What signals promise on data of any length, for any feed.               *)
(***************************************************************************)
EXTENDS SignalPipeline, FiniteSetTheorems, SequenceTheorems, WellFoundedInduction, TLAPS

-----------------------------------------------------------------------------
(* Least and greatest of sets of integers *)

LEMMA LeastNatural == \A T : T # {} /\ T \subseteq Nat => \E m \in T : \A n \in T : m <= n
<1> SUFFICES ASSUME NEW T, T # {}, T \subseteq Nat PROVE \E m \in T : \A n \in T : m <= n
  OBVIOUS
<1> DEFINE Less == OpToRel(<, Nat)
<1>1. \A x, y \in Nat : x < y => <<x, y>> \in Less
  BY DEF OpToRel
<1>2. IsWellFoundedOn(Less, Nat)
  BY NatLessThanWellFounded
<1> HIDE DEF Less
<1>3. PICK m \in T : \A n \in T : ~(<<n, m>> \in Less)
  BY <1>2, WFMin
<1>4. ASSUME NEW n \in T PROVE m <= n
  <2>1. m \in Nat /\ n \in Nat
    OBVIOUS
  <2>2. ~(n < m)
    BY <2>1, <1>1, <1>3
  <2> QED
    BY <2>1, <2>2
<1> QED
  BY <1>4

\* Induction over the naturals, with a set for the predicate.
LEMMA Counting == ASSUME NEW N \in SUBSET Nat, 0 \in N, \A n \in N : n + 1 \in N PROVE N = Nat
<1> SUFFICES ASSUME N # Nat PROVE FALSE
  OBVIOUS
<1>1. PICK m \in Nat \ N : \A n \in Nat \ N : m <= n
  <2>1. Nat \ N # {} /\ Nat \ N \subseteq Nat
    OBVIOUS
  <2> QED
    BY <2>1, LeastNatural
<1>2. m - 1 \in Nat /\ m = (m - 1) + 1
  <2>1. m # 0 /\ m \in Nat
    BY <1>1
  <2> QED
    BY <2>1
<1>3. m - 1 \in N
  BY <1>1, <1>2
<1> QED
  BY <1>1, <1>2, <1>3

LEMMA MaxIs ==
    ASSUME NEW S, S \subseteq Int, NEW m \in S, \A x \in S : x <= m
    PROVE  Max(S) = m
<1>1. Max(S) \in S /\ \A y \in S : Max(S) >= y
  <2>1. \E x \in S : \A y \in S : x >= y
    <3>1. \A y \in S : m >= y
      OBVIOUS
    <3> QED
      BY <3>1
  <2> QED
    BY <2>1 DEF Max
<1>2. Max(S) \in Int /\ m \in Int /\ Max(S) >= m /\ Max(S) <= m
  BY <1>1
<1> QED
  BY <1>2

LEMMA MinIs ==
    ASSUME NEW S, S \subseteq Int, NEW m \in S, \A x \in S : m <= x
    PROVE  Min(S) = m
<1>1. Min(S) \in S /\ \A y \in S : Min(S) <= y
  BY DEF Min
<1>2. Min(S) \in Int /\ m \in Int /\ Min(S) >= m /\ Min(S) <= m
  BY <1>1
<1> QED
  BY <1>2

LEMMA MinOfNaturals ==
    ASSUME NEW S, S \subseteq Nat, S # {}
    PROVE  Min(S) \in S /\ \A y \in S : Min(S) <= y
  BY LeastNatural DEF Min

LEMMA OfOne == ASSUME NEW x \in Int PROVE Max({x}) = x /\ Min({x}) = x
<1>1. {x} \subseteq Int /\ x \in {x} /\ (\A y \in {x} : y <= x) /\ (\A y \in {x} : x <= y)
  OBVIOUS
<1> QED
  BY <1>1, MaxIs, MinIs

LEMMA OfTwo ==
    ASSUME NEW x \in Int, NEW y \in Int
    PROVE  /\ Max({x, y}) = IF x <= y THEN y ELSE x
           /\ Min({x, y}) = IF x <= y THEN x ELSE y
<1>1. CASE x <= y
  <2>1. /\ {x, y} \subseteq Int /\ x \in {x, y} /\ y \in {x, y}
        /\ (\A z \in {x, y} : z <= y) /\ (\A z \in {x, y} : x <= z)
    BY <1>1
  <2> QED
    BY <1>1, <2>1, MaxIs, MinIs
<1>2. CASE ~(x <= y)
  <2>1. /\ {x, y} \subseteq Int /\ x \in {x, y} /\ y \in {x, y}
        /\ (\A z \in {x, y} : z <= x) /\ (\A z \in {x, y} : y <= z)
    BY <1>2
  <2> QED
    BY <1>2, <2>1, MaxIs, MinIs
<1> QED
  BY <1>1, <1>2

\* First is 0 of nothing and otherwise the least.
LEMMA FirstIs ==
    ASSUME NEW S, S \subseteq Nat \ {0}
    PROVE  /\ First(S) \in Nat
           /\ First(S) = 0 <=> S = {}
           /\ First(S) # 0 => First(S) \in S /\ \A y \in S : First(S) <= y
<1>1. CASE S = {}
  BY <1>1 DEF First
<1>2. CASE S # {}
  <2>1. S \subseteq Nat
    OBVIOUS
  <2>2. Min(S) \in S /\ \A y \in S : Min(S) <= y
    BY <1>2, <2>1, MinOfNaturals
  <2> QED
    BY <1>2, <2>2 DEF First
<1> QED
  BY <1>1, <1>2

LEMMA FirstSame ==
    ASSUME NEW S, S \subseteq Nat \ {0}, NEW m \in S, \A y \in S : m <= y
    PROVE  First(S) = m
<1>1. First(S) \in S /\ First(S) <= m /\ First(S) \in Nat /\ m \in Nat
  BY FirstIs
<1>2. m <= First(S)
  BY <1>1
<1> QED
  BY <1>1, <1>2

-----------------------------------------------------------------------------
(* Recursive functions: each value from the one before *)

StepsOn(n, D) == [(1..n) \X D -> D]
IsChain(g, n, D, first, e) ==
    g \in [0..n -> D] /\ g[0] = first /\ \A i \in 1..n : g[i] = e[<<i, g[i - 1]>>]

LEMMA ChainExists ==
    ASSUME NEW n \in Nat, NEW D, NEW first \in D, NEW e \in StepsOn(n, D)
    PROVE  \E g : IsChain(g, n, D, first, e)
<1>0. e \in [(1..n) \X D -> D]
  BY DEF StepsOn
<1> SUFFICES \E g \in [0..n -> D] : g[0] = first /\ \A i \in 1..n : g[i] = e[<<i, g[i - 1]>>]
  BY DEF IsChain
<1> DEFINE Chain(g, m) == g[0] = first /\ \A i \in 1..m : g[i] = e[<<i, g[i - 1]>>]
           N == {m \in Nat : m <= n => \E g \in [0..m -> D] : Chain(g, m)}
<1>1. 0 \in N
  <2>1. [i \in 0..0 |-> first] \in [0..0 -> D] /\ Chain([i \in 0..0 |-> first], 0)
    OBVIOUS
  <2> QED
    BY <2>1
<1>2. ASSUME NEW m \in N PROVE m + 1 \in N
  <2> SUFFICES ASSUME m + 1 <= n PROVE \E g \in [0..(m + 1) -> D] : Chain(g, m + 1)
    OBVIOUS
  <2>1. m \in Nat /\ m <= n
    OBVIOUS
  <2>2. PICK g \in [0..m -> D] : Chain(g, m)
    BY <2>1
  <2> DEFINE new == e[<<m + 1, g[m]>>]
             h == [i \in 0..(m + 1) |-> IF i <= m THEN g[i] ELSE new]
  <2>3. new \in D
    BY <1>0, <2>1
  <2> HIDE DEF new
  <2>4. h \in [0..(m + 1) -> D] /\ h[0] = g[0] /\ h[m + 1] = new /\ \A i \in 0..m : h[i] = g[i]
    BY <2>1, <2>3
  <2> HIDE DEF h
  <2>5. ASSUME NEW i \in 1..(m + 1) PROVE h[i] = e[<<i, h[i - 1]>>]
    <3>1. CASE i = m + 1
      <4>1. i - 1 = m /\ m \in 0..m
        BY <2>1, <3>1
      <4> QED
        BY <2>4, <3>1, <4>1 DEF new
    <3>2. CASE i # m + 1
      <4>1. i \in 1..m /\ i \in 0..m /\ i - 1 \in 0..m
        BY <2>1, <3>2
      <4> QED
        BY <2>2, <2>4, <4>1
    <3> QED
      BY <3>1, <3>2
  <2> QED
    BY <2>2, <2>4, <2>5
<1>3. N = Nat
  <2> HIDE DEF N
  <2> QED
    BY <1>1, <1>2, Counting DEF N
<1>4. \E g \in [0..n -> D] : Chain(g, n)
  <2>1. n \in N /\ n <= n
    BY <1>3
  <2> QED
    BY <2>1
<1> QED
  BY <1>4

-----------------------------------------------------------------------------
(* Naked levels *)

Forms(d, i, l) ==
    i = 1 \/ l \notin DOMAIN d[i - 1].levels \/ d[i - 1].levels[l] # d[i].levels[l]

StillNaked(d, i, before) ==
    {l \in DOMAIN d[i].levels : Forms(d, i, l) \/ (l \in before /\ ~TradesAt(d[i], d[i].levels[l]))}

IsNaked(g, d) == g = [i \in 0..Len(d) |-> IF i = 0 THEN {} ELSE StillNaked(d, i, g[i - 1])]

LEMMA NakedIsChosen == ASSUME NEW d PROVE NakedLevels(d) = CHOOSE g : IsNaked(g, d)
  BY DEF NakedLevels, IsNaked, StillNaked, Forms

LEMMA NakedIs ==
    ASSUME NEW d, Len(d) \in Nat
    PROVE  /\ NakedLevels(d)[0] = {}
           /\ \A i \in 1..Len(d) : NakedLevels(d)[i] = StillNaked(d, i, NakedLevels(d)[i - 1])
<1> DEFINE U == UNION {DOMAIN d[i].levels : i \in 1..Len(d)}
           e == [x \in (1..Len(d)) \X SUBSET U |-> StillNaked(d, x[1], x[2])]
<1>1. ASSUME NEW i \in 1..Len(d), NEW s \in SUBSET U
      PROVE  StillNaked(d, i, s) \in SUBSET U /\ e[<<i, s>>] = StillNaked(d, i, s)
  <2>1. StillNaked(d, i, s) \subseteq DOMAIN d[i].levels
    BY DEF StillNaked
  <2>2. DOMAIN d[i].levels \subseteq U
    OBVIOUS
  <2>3. e[<<i, s>>] = StillNaked(d, i, s)
    OBVIOUS
  <2> QED
    BY <2>1, <2>2, <2>3
<1>2. e \in [(1..Len(d)) \X SUBSET U -> SUBSET U]
  <2>1. ASSUME NEW x \in (1..Len(d)) \X SUBSET U PROVE StillNaked(d, x[1], x[2]) \in SUBSET U
    BY <1>1
  <2> QED
    BY <2>1
<1> HIDE DEF U, e
<1>3. PICK g : g \in [0..Len(d) -> SUBSET U] /\ g[0] = {} /\ \A i \in 1..Len(d) : g[i] = e[<<i, g[i - 1]>>]
  <2>1. {} \in SUBSET U /\ e \in StepsOn(Len(d), SUBSET U)
    BY <1>2 DEF StepsOn
  <2>2. \E g : IsChain(g, Len(d), SUBSET U, {}, e)
    BY <2>1, ChainExists
  <2> QED
    BY <2>2 DEF IsChain
<1>4. ASSUME NEW i \in 1..Len(d) PROVE g[i] = StillNaked(d, i, g[i - 1])
  <2>1. g[i - 1] \in SUBSET U
    BY <1>3
  <2> QED
    BY <1>1, <1>3, <2>1
<1>5. IsNaked(g, d)
  <2>1. \A i \in 0..Len(d) : g[i] = IF i = 0 THEN {} ELSE StillNaked(d, i, g[i - 1])
    BY <1>3, <1>4
  <2> QED
    BY <1>3, <2>1 DEF IsNaked
<1>6. IsNaked(NakedLevels(d), d)
  BY <1>5, NakedIsChosen
<1> DEFINE nk == NakedLevels(d)
<1>7. nk = [i \in 0..Len(d) |-> IF i = 0 THEN {} ELSE StillNaked(d, i, nk[i - 1])]
  BY <1>6 DEF IsNaked
<1> HIDE DEF nk
<1>8. \A i \in 0..Len(d) : nk[i] = IF i = 0 THEN {} ELSE StillNaked(d, i, nk[i - 1])
  BY <1>7, Zenon
<1>9. nk[0] = {} /\ \A i \in 1..Len(d) : nk[i] = StillNaked(d, i, nk[i - 1])
  BY <1>8
<1> QED
  BY <1>9 DEF nk

Holds(d, n, l, i) == l \in DOMAIN d[i].levels /\ d[i].levels[l] = d[n].levels[l]

LEMMA UntouchedIs ==
    ASSUME NEW d, NEW n \in Nat \ {0}, NEW l
    PROVE  Untouched(d, n, l) <=>
              \E f \in 1..n :
                 /\ \A i \in f..n : Holds(d, n, l, i)
                 /\ f = 1 \/ ~Holds(d, n, l, f - 1)
                 /\ \A i \in f + 1..n : ~TradesAt(d[i], d[n].levels[l])
  BY DEF Untouched, Holds

\* The flag the program carries from bar to bar is what the trader reads off the past.
LEMMA UntouchedNext ==
    ASSUME NEW d, NEW n \in Nat \ {0}, NEW l \in DOMAIN d[n + 1].levels
    PROVE  Untouched(d, n + 1, l) <=>
              Forms(d, n + 1, l) \/ (Untouched(d, n, l) /\ ~TradesAt(d[n + 1], d[n + 1].levels[l]))
<1> DEFINE m == n + 1
           W(k, f) == /\ \A i \in f..k : Holds(d, k, l, i)
                      /\ f = 1 \/ ~Holds(d, k, l, f - 1)
                      /\ \A i \in f + 1..k : ~TradesAt(d[i], d[k].levels[l])
<1>0. m \in Nat \ {0} /\ m - 1 = n /\ m # 1 /\ m \in 1..m /\ n \in m - 1..m /\ \A f \in 1..n : f \in 1..m
  OBVIOUS
<1>1. /\ Untouched(d, m, l) <=> \E f \in 1..m : W(m, f)
      /\ Untouched(d, n, l) <=> \E f \in 1..n : W(n, f)
  BY <1>0, UntouchedIs
<1>2. ASSUME NEW f \in 1..m, W(m, f)
      PROVE  Forms(d, m, l) \/ (Untouched(d, n, l) /\ ~TradesAt(d[m], d[m].levels[l]))
  <2>1. CASE f = m
    <3>1. ~Holds(d, m, l, n)
      BY <1>0, <1>2, <2>1
    <3> QED
      BY <1>0, <3>1 DEF Holds, Forms
  <2>2. CASE f # m
    <3>1. f \in 1..n /\ f - 1 \in Int /\ m \in f + 1..m /\ n \in f..m /\ (\A i \in f..n : i \in f..m)
          /\ (\A i \in f + 1..n : i \in f + 1..m)
      BY <2>2
    <3>2. Holds(d, m, l, n)
      BY <1>2, <3>1
    <3>3. \A i : Holds(d, m, l, i) <=> Holds(d, n, l, i)
      BY <3>2 DEF Holds
    <3>4. d[n].levels[l] = d[m].levels[l]
      BY <3>2 DEF Holds
    <3>5. W(n, f)
      BY <1>2, <3>1, <3>3, <3>4
    <3> QED
      BY <1>1, <1>2, <3>1, <3>5
  <2> QED
    BY <2>1, <2>2
<1>3. ASSUME Forms(d, m, l) PROVE W(m, m)
  <2>1. ~Holds(d, m, l, n)
    BY <1>0, <1>3 DEF Forms, Holds
  <2>2. \A i \in m..m : Holds(d, m, l, i)
    <3>1. \A i \in m..m : i = m
      BY <1>0
    <3> QED
      BY <3>1 DEF Holds
  <2>3. m + 1..m = {}
    BY <1>0
  <2> QED
    BY <1>0, <2>1, <2>2, <2>3
<1>4. ASSUME ~Forms(d, m, l), ~TradesAt(d[m], d[m].levels[l]), NEW f \in 1..n, W(n, f)
      PROVE  W(m, f)
  <2>1. l \in DOMAIN d[n].levels /\ d[n].levels[l] = d[m].levels[l]
    BY <1>0, <1>4 DEF Forms
  <2>2. \A i : Holds(d, m, l, i) <=> Holds(d, n, l, i)
    BY <2>1 DEF Holds
  <2>3. (\A i \in f..m : i \in f..n \/ i = m) /\ (\A i \in f + 1..m : i \in f + 1..n \/ i = m)
    OBVIOUS
  <2>4. Holds(d, m, l, m)
    BY DEF Holds
  <2> QED
    BY <1>4, <2>1, <2>2, <2>3, <2>4
<1> HIDE DEF W, m
<1>5. Untouched(d, m, l) => Forms(d, m, l) \/ (Untouched(d, n, l) /\ ~TradesAt(d[m], d[m].levels[l]))
  BY <1>1, <1>2
<1>6. Forms(d, m, l) => Untouched(d, m, l)
  BY <1>0, <1>1, <1>3
<1>7. Untouched(d, n, l) /\ ~TradesAt(d[m], d[m].levels[l]) => Untouched(d, m, l)
  <2>1. CASE Forms(d, m, l)
    BY <2>1, <1>6
  <2>2. CASE ~Forms(d, m, l)
    BY <1>0, <1>1, <1>4, <2>2
  <2> QED
    BY <2>1, <2>2
<1>8. Untouched(d, m, l) <=> Forms(d, m, l) \/ (Untouched(d, n, l) /\ ~TradesAt(d[m], d[m].levels[l]))
  BY <1>5, <1>6, <1>7
<1> QED
  BY <1>8 DEF m

UntouchedAt(d, i) == {l \in DOMAIN d[i].levels : Untouched(d, i, l)}

LEMMA NakedIsUntouched ==
    ASSUME NEW d, Len(d) \in Nat
    PROVE  \A i \in 1..Len(d) : NakedLevels(d)[i] = UntouchedAt(d, i)
<1> DEFINE nk == NakedLevels(d)
           N == {n \in Nat : n + 1 <= Len(d) => nk[n + 1] = UntouchedAt(d, n + 1)}
<1>1. nk[0] = {} /\ \A i \in 1..Len(d) : nk[i] = StillNaked(d, i, nk[i - 1])
  BY NakedIs
<1> HIDE DEF nk
<1>2. 0 \in N
  <2> SUFFICES ASSUME 1 <= Len(d) PROVE nk[1] = UntouchedAt(d, 1)
    OBVIOUS
  <2>1. nk[1] = DOMAIN d[1].levels
    <3>1. 1 \in 1..Len(d) /\ nk[1] = StillNaked(d, 1, nk[1 - 1])
      BY <1>1
    <3> QED
      BY <3>1 DEF StillNaked, Forms
  <2>2. ASSUME NEW l \in DOMAIN d[1].levels PROVE Untouched(d, 1, l)
    <3>1. \A i \in 1..1 : Holds(d, 1, l, i)
      BY DEF Holds
    <3> QED
      BY <3>1, UntouchedIs
  <2> QED
    BY <2>1, <2>2 DEF UntouchedAt
<1>3. ASSUME NEW n \in N PROVE n + 1 \in N
  <2> SUFFICES ASSUME n + 1 + 1 <= Len(d) PROVE nk[n + 1 + 1] = UntouchedAt(d, n + 1 + 1)
    OBVIOUS
  <2> DEFINE m == n + 1
  <2>1. n \in Nat /\ m \in Nat \ {0} /\ m <= Len(d) /\ m + 1 \in 1..Len(d) /\ m + 1 - 1 = m
    OBVIOUS
  <2>2. nk[m] = UntouchedAt(d, m) /\ nk[m + 1] = StillNaked(d, m + 1, nk[m])
    BY <1>1, <2>1
  <2> HIDE DEF m
  <2>3. ASSUME NEW l \in DOMAIN d[m + 1].levels
        PROVE  l \in nk[m + 1] <=> Untouched(d, m + 1, l)
    <3>1. Untouched(d, m + 1, l) <=>
            Forms(d, m + 1, l) \/ (Untouched(d, m, l) /\ ~TradesAt(d[m + 1], d[m + 1].levels[l]))
      BY <2>1, UntouchedNext
    <3>2. ~Forms(d, m + 1, l) => (l \in nk[m] <=> Untouched(d, m, l))
      BY <2>1, <2>2 DEF Forms, UntouchedAt
    <3> QED
      BY <2>2, <3>1, <3>2 DEF StillNaked
  <2>4. nk[m + 1] \subseteq DOMAIN d[m + 1].levels
    BY <2>2 DEF StillNaked
  <2>5. nk[m + 1] = UntouchedAt(d, m + 1)
    BY <2>3, <2>4 DEF UntouchedAt
  <2> QED
    BY <2>5 DEF m
<1>4. N = Nat
  <2> HIDE DEF N
  <2> QED
    BY <1>2, <1>3, Counting DEF N
<1>5. ASSUME NEW i \in 1..Len(d) PROVE nk[i] = UntouchedAt(d, i)
  <2>1. i - 1 \in Nat /\ i - 1 + 1 = i /\ i <= Len(d)
    OBVIOUS
  <2>2. i - 1 \in N
    BY <1>4, <2>1
  <2>3. i - 1 + 1 <= Len(d) => nk[i - 1 + 1] = UntouchedAt(d, i - 1 + 1)
    BY <2>2
  <2> QED
    BY <2>1, <2>3
<1> QED
  BY <1>5 DEF nk

\* What is read off the past does not change with what follows.
SameUpto(d, e, n) == \A i \in 1..n : d[i] = e[i]

LEMMA UntouchedStays ==
    ASSUME NEW d, NEW e, NEW n \in Nat \ {0}, SameUpto(d, e, n), NEW l
    PROVE  Untouched(d, n, l) <=> Untouched(e, n, l)
<1>1. \A i \in 1..n : d[i] = e[i]
  BY DEF SameUpto
<1>2. \A i \in 1..n : Holds(d, n, l, i) <=> Holds(e, n, l, i)
  BY <1>1 DEF Holds
<1>3. ASSUME NEW f \in 1..n
      PROVE  /\ \A i \in f..n : i \in 1..n
             /\ f = 1 \/ f - 1 \in 1..n
             /\ \A i \in f + 1..n : i \in 1..n
  OBVIOUS
<1>4. n \in 1..n
  OBVIOUS
<1> QED
  BY <1>1, <1>2, <1>3, <1>4, UntouchedIs

ZonesAt(d, i, setup) ==
    {z \in DetectZones(d[i].levels, setup) : NakedEnough(z, UntouchedAt(d, i), setup.naked)}

LEMMA ZonesAre ==
    ASSUME NEW d, Len(d) \in Nat, DOMAIN d = 1..Len(d), NEW setup
    PROVE  /\ DOMAIN AdmittedZones(d, setup) = 1..Len(d)
           /\ \A i \in 1..Len(d) : AdmittedZones(d, setup)[i] = ZonesAt(d, i, setup)
<1>1. \A i \in 1..Len(d) : NakedLevels(d)[i] = UntouchedAt(d, i)
  BY NakedIsUntouched
<1> QED
  BY <1>1 DEF AdmittedZones, ZonesAt

LEMMA ZonesStay ==
    ASSUME NEW d, NEW e, NEW n \in Nat \ {0}, SameUpto(d, e, n), NEW setup
    PROVE  ZonesAt(d, n, setup) = ZonesAt(e, n, setup)
<1>1. d[n] = e[n]
  BY DEF SameUpto
<1>2. UntouchedAt(d, n) = UntouchedAt(e, n)
  BY <1>1, UntouchedStays DEF UntouchedAt
<1> QED
  BY <1>1, <1>2 DEF ZonesAt

-----------------------------------------------------------------------------
(* What becomes of an arrival *)

Framed(d, tb) ==
    /\ Len(d) \in Nat /\ Len(tb) \in Nat /\ DOMAIN tb = 1..Len(tb)
    /\ \A k \in 1..Len(tb) : tb[k].first \in Nat /\ tb[k].last \in Nat

\* The first trigger bar after k that is not inside it.
Out(tb, k) == First({j \in k + 1..Len(tb) : ~Inside(tb[j], tb[k])})

LEMMA OutIs ==
    ASSUME NEW tb, Len(tb) \in Nat, NEW k \in Nat
    PROVE  /\ Out(tb, k) \in Nat
           /\ Out(tb, k) = 0 <=> \A j \in k + 1..Len(tb) : Inside(tb[j], tb[k])
           /\ Out(tb, k) # 0 => /\ Out(tb, k) \in k + 1..Len(tb)
                                /\ ~Inside(tb[Out(tb, k)], tb[k])
                                /\ \A j \in k + 1..Out(tb, k) - 1 : Inside(tb[j], tb[k])
<1> DEFINE S == {j \in k + 1..Len(tb) : ~Inside(tb[j], tb[k])}
           o == First(S)
<1>1. S \subseteq Nat \ {0}
  OBVIOUS
<1>2. o \in Nat /\ (o = 0 <=> S = {}) /\ (o # 0 => o \in S /\ \A y \in S : o <= y)
  BY <1>1, FirstIs
<1>3. ASSUME o # 0, NEW j \in k + 1..o - 1 PROVE Inside(tb[j], tb[k])
  <2>1. o \in k + 1..Len(tb) /\ j \in k + 1..Len(tb) /\ ~(o <= j)
    BY <1>2, <1>3
  <2> QED
    BY <1>2, <1>3, <2>1
<1> QED
  BY <1>2, <1>3 DEF Out

\* An Out is found by what it is.
LEMMA OutFound ==
    ASSUME NEW tb, Len(tb) \in Nat, NEW k \in Nat, NEW o \in k + 1..Len(tb), ~Inside(tb[o], tb[k]),
           \A j \in k + 1..o - 1 : Inside(tb[j], tb[k])
    PROVE  Out(tb, k) = o
<1> DEFINE S == {j \in k + 1..Len(tb) : ~Inside(tb[j], tb[k])}
<1>1. S \subseteq Nat \ {0} /\ o \in S
  OBVIOUS
<1>2. ASSUME NEW y \in S PROVE o <= y
  BY <1>2
<1> HIDE DEF S
<1>3. First(S) = o
  BY <1>1, <1>2, FirstSame
<1> QED
  BY <1>3 DEF Out, S

LEMMA WatchedIs ==
    ASSUME NEW d, NEW tb, Framed(d, tb), NEW w \in Nat, NEW r \in 1..Len(tb)
    PROVE  Watched(d, tb, w, r) \subseteq 1..Len(d)
<1>1. Len(d) \in Nat /\ Len(tb) \in Nat /\ tb[r].last \in Nat
  BY DEF Framed
<1>2. CASE w = 0
  <2>1. r \in Int /\ Len(d) \in Int /\ r + MaxWait \in Int /\ r >= 1
    BY <1>1, MaxWaitAssumption
  <2>2. Min({Len(d), r + MaxWait}) = IF Len(d) <= r + MaxWait THEN Len(d) ELSE r + MaxWait
    BY <2>1, OfTwo
  <2> QED
    BY <1>2, <2>1, <2>2 DEF Watched
<1>3. CASE w # 0
  BY <1>1, <1>3 DEF Watched
<1> QED
  BY <1>2, <1>3

LEMMA FillIs ==
    ASSUME NEW d, NEW tb, Framed(d, tb), NEW w \in Nat, NEW r \in 1..Len(tb), NEW dir
    PROVE  /\ Watched(d, tb, w, r) \subseteq Nat \ {0}
           /\ Retraces(d, tb, w, r, dir) \subseteq Watched(d, tb, w, r)
           /\ Fill(d, tb, w, r, dir) \in Nat
           /\ Fill(d, tb, w, r, dir) = 0 <=> Retraces(d, tb, w, r, dir) = {}
           /\ Fill(d, tb, w, r, dir) # 0 =>
                 /\ Fill(d, tb, w, r, dir) \in Retraces(d, tb, w, r, dir)
                 /\ \A i \in Retraces(d, tb, w, r, dir) : Fill(d, tb, w, r, dir) <= i
<1>1. Watched(d, tb, w, r) \subseteq Nat \ {0}
  <2>1. CASE w = 0
    BY <2>1 DEF Watched, Framed
  <2>2. CASE w # 0
    BY <2>2 DEF Watched, Framed
  <2> QED
    BY <2>1, <2>2
<1>2. Retraces(d, tb, w, r, dir) \subseteq Watched(d, tb, w, r)
  BY DEF Retraces
<1> QED
  BY <1>1, <1>2, FirstIs DEF Fill

\* What a level is silent until for a turn at trigger bar o.
Silence(d, tb, w, o, dir) ==
    IF w # 0 THEN o + MaxWait
    ELSE IF Fill(d, tb, w, o, dir) # 0 THEN Fill(d, tb, w, o, dir)
    ELSE IF Len(tb) <= o + MaxWait THEN Len(tb) ELSE o + MaxWait

LEMMA ResolutionIs ==
    ASSUME NEW d, NEW tb, Framed(d, tb), NEW w \in Nat, NEW k \in 1..Len(tb), NEW dir
    PROVE  LET o == Out(tb, k) IN
           /\ o = 0 => Resolution(d, tb, w, k, dir) = [reversal |-> 0, entry |-> 0, until |-> 0]
           /\ o # 0 /\ ~Turns(tb[o], tb[k], dir) =>
                 Resolution(d, tb, w, k, dir) = [reversal |-> 0, entry |-> 0, until |-> o]
           /\ o # 0 /\ Turns(tb[o], tb[k], dir) =>
                 /\ Resolution(d, tb, w, k, dir) =
                       [reversal |-> o, entry |-> Fill(d, tb, w, o, dir), until |-> Silence(d, tb, w, o, dir)]
                 /\ Silence(d, tb, w, o, dir) \in Nat
<1> DEFINE o == Out(tb, k)
<1>1. o = First({j \in k + 1..Len(tb) : ~Inside(tb[j], tb[k])})
  BY DEF Out
<1>2. Len(tb) \in Nat /\ o \in Nat /\ (o # 0 => o \in 1..Len(tb))
  BY OutIs DEF Framed
<1>3. Min({Len(tb), o + MaxWait}) = IF Len(tb) <= o + MaxWait THEN Len(tb) ELSE o + MaxWait
  <2>1. Len(tb) \in Int /\ o + MaxWait \in Int
    BY <1>2, MaxWaitAssumption
  <2> HIDE DEF o
  <2> QED
    BY <2>1, OfTwo
<1>4. o # 0 => Fill(d, tb, w, o, dir) \in Nat
  BY <1>2, FillIs
<1>5. o # 0 => Silence(d, tb, w, o, dir) \in Nat
  BY <1>2, <1>4, MaxWaitAssumption DEF Silence
<1> HIDE DEF o
<1>6. o = 0 => Resolution(d, tb, w, k, dir) = [reversal |-> 0, entry |-> 0, until |-> 0]
  BY <1>1 DEF Resolution
<1>7. o # 0 /\ ~Turns(tb[o], tb[k], dir) =>
         Resolution(d, tb, w, k, dir) = [reversal |-> 0, entry |-> 0, until |-> o]
  BY <1>1 DEF Resolution
<1>8. o # 0 /\ Turns(tb[o], tb[k], dir) =>
         Resolution(d, tb, w, k, dir) =
               [reversal |-> o, entry |-> Fill(d, tb, w, o, dir), until |-> Silence(d, tb, w, o, dir)]
  BY <1>1, <1>3 DEF Resolution, Silence
<1> QED
  BY <1>5, <1>6, <1>7, <1>8 DEF o

LEMMA UntilIsNat ==
    ASSUME NEW d, NEW tb, Framed(d, tb), NEW w \in Nat, NEW k \in 1..Len(tb), NEW dir
    PROVE  Resolution(d, tb, w, k, dir).until \in Nat
<1>1. Out(tb, k) \in Nat
  BY OutIs DEF Framed
<1> QED
  BY <1>1, ResolutionIs

-----------------------------------------------------------------------------
(* Which arrivals are taken up *)

Silenced(d, zones, tb, w, p, dir, k, before) ==
    IF k > before /\ Arrives(zones, tb, k, p, dir)
    THEN Max({before, Resolution(d, tb, w, k, dir).until}) ELSE before

IsActive(g, d, zones, tb, w, p, dir) ==
    g = [k \in 0..Len(tb) |-> IF k = 0 THEN 0 ELSE Silenced(d, zones, tb, w, p, dir, k, g[k - 1])]

LEMMA ActiveIsChosen ==
    ASSUME NEW d, NEW zones, NEW tb, NEW w, NEW p, NEW dir
    PROVE  ActiveUntil(d, zones, tb, w, p, dir) = CHOOSE g : IsActive(g, d, zones, tb, w, p, dir)
  BY DEF ActiveUntil, IsActive, Silenced

LEMMA ActiveIs ==
    ASSUME NEW d, NEW zones, NEW tb, Framed(d, tb), NEW w \in Nat, NEW p, NEW dir
    PROVE  LET A == ActiveUntil(d, zones, tb, w, p, dir) IN
           /\ A \in [0..Len(tb) -> Nat] /\ A[0] = 0
           /\ \A k \in 1..Len(tb) : A[k] = Silenced(d, zones, tb, w, p, dir, k, A[k - 1])
<1> DEFINE n == Len(tb)
           S(k, x) == Silenced(d, zones, tb, w, p, dir, k, x)
           e == [x \in (1..n) \X Nat |-> S(x[1], x[2])]
<1>0. n \in Nat
  BY DEF Framed
<1>1. ASSUME NEW k \in 1..n, NEW x \in Nat PROVE S(k, x) \in Nat /\ e[<<k, x>>] = S(k, x)
  <2>1. Resolution(d, tb, w, k, dir).until \in Nat
    BY UntilIsNat
  <2>2. Max({x, Resolution(d, tb, w, k, dir).until}) \in Nat
    BY <2>1, OfTwo
  <2> QED
    BY <2>2 DEF Silenced
<1>2. e \in [(1..n) \X Nat -> Nat]
  <2>1. \A x \in (1..n) \X Nat : S(x[1], x[2]) \in Nat
    BY <1>1
  <2> QED
    BY <2>1
<1> HIDE DEF e, n, S
<1>3. PICK g : g \in [0..n -> Nat] /\ g[0] = 0 /\ \A k \in 1..n : g[k] = e[<<k, g[k - 1]>>]
  <2>1. e \in StepsOn(n, Nat)
    BY <1>2 DEF StepsOn
  <2>2. \E g : IsChain(g, n, Nat, 0, e)
    BY <1>0, <2>1, ChainExists
  <2> QED
    BY <2>2 DEF IsChain
<1>4. ASSUME NEW k \in 1..n PROVE g[k] = S(k, g[k - 1])
  <2>1. g[k - 1] \in Nat
    BY <1>0, <1>3
  <2> QED
    BY <1>1, <1>3, <2>1
<1>5. IsActive(g, d, zones, tb, w, p, dir)
  <2>1. \A k \in 0..n : g[k] = IF k = 0 THEN 0 ELSE S(k, g[k - 1])
    <3>1. \A k \in 1..n : k # 0
      BY <1>0
    <3>2. \A k \in 0..n : k = 0 \/ k \in 1..n
      BY <1>0
    <3> QED
      BY <1>3, <1>4, <3>1, <3>2
  <2>2. g = [k \in 0..n |-> IF k = 0 THEN 0 ELSE S(k, g[k - 1])]
    BY <1>3, <2>1
  <2> QED
    BY <2>2 DEF IsActive, n, S
<1> DEFINE A == ActiveUntil(d, zones, tb, w, p, dir)
<1>6. IsActive(A, d, zones, tb, w, p, dir)
  BY <1>5, ActiveIsChosen
<1>7. A = [k \in 0..n |-> IF k = 0 THEN 0 ELSE S(k, A[k - 1])]
  BY <1>6 DEF IsActive, n, S
<1> HIDE DEF A
<1>8. \A k \in 0..n : A[k] = IF k = 0 THEN 0 ELSE S(k, A[k - 1])
  BY <1>7, Zenon
<1>9. DOMAIN A = 0..n /\ A[0] = 0 /\ \A k \in 1..n : A[k] = S(k, A[k - 1])
  BY <1>0, <1>7, <1>8
<1>10. A \in [0..n -> Nat]
  <2> DEFINE N == {k \in Nat : k <= n => A[k] \in Nat}
  <2>1. 0 \in N
    BY <1>9
  <2>2. ASSUME NEW k \in N PROVE k + 1 \in N
    <3> SUFFICES ASSUME k + 1 <= n PROVE A[k + 1] \in Nat
      OBVIOUS
    <3>1. k \in Nat /\ k + 1 \in 1..n /\ A[k] \in Nat /\ (k + 1) - 1 = k
      BY <1>0
    <3> QED
      BY <1>1, <1>9, <3>1
  <2>3. N = Nat
    <3> HIDE DEF N
    <3> QED
      BY <2>1, <2>2, Counting DEF N
  <2>4. \A k \in 0..n : A[k] \in Nat
    BY <1>0, <2>3
  <2> QED
    BY <1>7, <2>4
<1> QED
  BY <1>9, <1>10 DEF A, n, S

LEMMA TakenUpIs ==
    ASSUME NEW d, NEW zones, NEW tb, Framed(d, tb), NEW w \in Nat, NEW p, NEW dir, NEW k
    PROVE  k \in TakenUp(d, zones, tb, w, p, dir) <=>
              /\ k \in 1..Len(tb) /\ Arrives(zones, tb, k, p, dir)
              /\ k > ActiveUntil(d, zones, tb, w, p, dir)[k - 1]
  BY DEF TakenUp, Framed

\* Silence never ends earlier than it did.
LEMMA ActiveGrows ==
    ASSUME NEW d, NEW zones, NEW tb, Framed(d, tb), NEW w \in Nat, NEW p, NEW dir
    PROVE  LET A == ActiveUntil(d, zones, tb, w, p, dir) IN
           /\ \A k \in 1..Len(tb) : A[k - 1] <= A[k]
           /\ \A k \in TakenUp(d, zones, tb, w, p, dir) : Resolution(d, tb, w, k, dir).until <= A[k]
           /\ \A k \in (1..Len(tb)) \ TakenUp(d, zones, tb, w, p, dir) : A[k] = A[k - 1]
           /\ \A k \in 0..Len(tb) : \A j \in 0..k : A[j] <= A[k]
<1> DEFINE A == ActiveUntil(d, zones, tb, w, p, dir)
           n == Len(tb)
<1>1. /\ n \in Nat /\ A \in [0..n -> Nat] /\ A[0] = 0
      /\ \A k \in 1..n : A[k] = Silenced(d, zones, tb, w, p, dir, k, A[k - 1])
  <2>1. n \in Nat
    BY DEF Framed
  <2> QED
    BY <2>1, ActiveIs, SMTT(60)
<1> HIDE DEF A
<1>2. ASSUME NEW k \in 1..n
      PROVE  /\ A[k - 1] <= A[k]
             /\ Arrives(zones, tb, k, p, dir) /\ k > A[k - 1] => Resolution(d, tb, w, k, dir).until <= A[k]
             /\ ~(Arrives(zones, tb, k, p, dir) /\ k > A[k - 1]) => A[k] = A[k - 1]
  <2>1. A[k - 1] \in Nat /\ A[k] \in Nat /\ Resolution(d, tb, w, k, dir).until \in Nat
    BY <1>1, UntilIsNat
  <2>2. A[k] = Silenced(d, zones, tb, w, p, dir, k, A[k - 1])
    BY <1>1
  <2> QED
    BY <2>1, <2>2, OfTwo DEF Silenced
<1>3. \A k \in 1..n : k \in TakenUp(d, zones, tb, w, p, dir) <=> Arrives(zones, tb, k, p, dir) /\ k > A[k - 1]
  BY TakenUpIs DEF A
<1>4. TakenUp(d, zones, tb, w, p, dir) \subseteq 1..n
  BY TakenUpIs
<1>5. \A k \in 0..n : \A j \in 0..k : A[j] <= A[k]
  <2> DEFINE N == {k \in Nat : k <= n => \A j \in 0..k : A[j] <= A[k]}
  <2>1. 0 \in N
    BY <1>1
  <2>2. ASSUME NEW k \in N PROVE k + 1 \in N
    <3> SUFFICES ASSUME k + 1 <= n, NEW j \in 0..(k + 1) PROVE A[j] <= A[k + 1]
      OBVIOUS
    <3>0. k \in Nat /\ n \in Nat
      BY <1>1
    <3>1. k + 1 \in 1..n /\ (k + 1) - 1 = k /\ (j = k + 1 \/ j \in 0..k) /\ k \in 0..n /\ j \in 0..n
      BY <3>0
    <3>4. j \in 0..k => A[j] <= A[k]
      <4>1. k <= n
        BY <3>0
      <4> QED
        BY <4>1
    <3>2. A[k] <= A[k + 1]
      BY <1>2, <3>1
    <3>3. A[k] \in Nat /\ A[k + 1] \in Nat /\ A[j] \in Nat
      <4>1. k \in 0..n /\ k + 1 \in 0..n /\ j \in 0..n
        BY <3>0, <3>1
      <4> QED
        BY <1>1, <4>1
    <3>5. CASE j = k + 1
      BY <3>3, <3>5
    <3>6. CASE j \in 0..k
      BY <3>2, <3>3, <3>4, <3>6
    <3> QED
      BY <3>1, <3>5, <3>6
  <2>3. N = Nat
    <3> HIDE DEF N
    <3> QED
      BY <2>1, <2>2, Counting DEF N
  <2>4. ASSUME NEW k \in 0..n PROVE \A j \in 0..k : A[j] <= A[k]
    <3>1. k \in N /\ k <= n
      BY <1>1, <2>3
    <3> QED
      BY <3>1
  <2> QED
    BY <2>4
<1>6. \A k \in 1..n : A[k - 1] <= A[k]
  BY <1>2
<1>7. \A k \in TakenUp(d, zones, tb, w, p, dir) : Resolution(d, tb, w, k, dir).until <= A[k]
  BY <1>2, <1>3, <1>4
<1>8. \A k \in (1..n) \ TakenUp(d, zones, tb, w, p, dir) : A[k] = A[k - 1]
  BY <1>2, <1>3
<1> QED
  BY <1>5, <1>6, <1>7, <1>8 DEF A


\* Two ways of looking at the same arrivals, with the same silences, silence the same ones.
LEMMA ActiveAgrees ==
    ASSUME NEW d, NEW zd, NEW tb, Framed(d, tb), NEW e, NEW ze, NEW tc, Framed(e, tc),
           NEW w \in Nat, NEW p, NEW dir, NEW b \in Nat, b <= Len(tb), b <= Len(tc),
           \A k \in 1..b : Arrives(zd, tb, k, p, dir) <=> Arrives(ze, tc, k, p, dir),
           \A k \in 1..b : k \in TakenUp(d, zd, tb, w, p, dir) =>
                               Resolution(d, tb, w, k, dir).until = Resolution(e, tc, w, k, dir).until
    PROVE  /\ \A k \in 0..b : ActiveUntil(d, zd, tb, w, p, dir)[k] = ActiveUntil(e, ze, tc, w, p, dir)[k]
           /\ \A k \in 1..b : k \in TakenUp(d, zd, tb, w, p, dir) <=> k \in TakenUp(e, ze, tc, w, p, dir)
<1> DEFINE A == ActiveUntil(d, zd, tb, w, p, dir)
           C == ActiveUntil(e, ze, tc, w, p, dir)
<1>0. Len(tb) \in Nat /\ Len(tc) \in Nat
  BY DEF Framed
<1>1. /\ A[0] = 0 /\ \A k \in 1..Len(tb) : A[k] = Silenced(d, zd, tb, w, p, dir, k, A[k - 1])
      /\ C[0] = 0 /\ \A k \in 1..Len(tc) : C[k] = Silenced(e, ze, tc, w, p, dir, k, C[k - 1])
  BY ActiveIs
<1>2. /\ \A k \in 1..Len(tb) : k \in TakenUp(d, zd, tb, w, p, dir) <=> Arrives(zd, tb, k, p, dir) /\ k > A[k - 1]
      /\ \A k \in 1..Len(tc) : k \in TakenUp(e, ze, tc, w, p, dir) <=> Arrives(ze, tc, k, p, dir) /\ k > C[k - 1]
  BY TakenUpIs
<1> HIDE DEF A, C
<1>3. \A k \in 0..b : A[k] = C[k]
  <2> DEFINE N == {k \in Nat : k <= b => A[k] = C[k]}
  <2>1. 0 \in N
    BY <1>1
  <2>2. ASSUME NEW k \in N PROVE k + 1 \in N
    <3> SUFFICES ASSUME k + 1 <= b PROVE A[k + 1] = C[k + 1]
      OBVIOUS
    <3> DEFINE j == k + 1
    <3>1. k \in Nat /\ j \in 1..b /\ j \in 1..Len(tb) /\ j \in 1..Len(tc) /\ j - 1 = k
      BY <1>0
    <3>2. A[k] = C[k]
      OBVIOUS
    <3> HIDE DEF j
    <3>3. A[j] = Silenced(d, zd, tb, w, p, dir, j, A[k]) /\ C[j] = Silenced(e, ze, tc, w, p, dir, j, A[k])
      BY <1>1, <3>1, <3>2
    <3>4. Arrives(zd, tb, j, p, dir) <=> Arrives(ze, tc, j, p, dir)
      BY <3>1
    <3>5. CASE j > A[k] /\ Arrives(zd, tb, j, p, dir)
      <4>1. j \in TakenUp(d, zd, tb, w, p, dir)
        BY <1>2, <3>1, <3>5
      <4>2. Resolution(d, tb, w, j, dir).until = Resolution(e, tc, w, j, dir).until
        BY <3>1, <4>1
      <4> QED
        BY <3>3, <3>4, <3>5, <4>2 DEF Silenced, j
    <3>6. CASE ~(j > A[k] /\ Arrives(zd, tb, j, p, dir))
      BY <3>3, <3>4, <3>6 DEF Silenced, j
    <3> QED
      BY <3>5, <3>6
  <2>3. N = Nat
    <3> HIDE DEF N
    <3> QED
      BY <2>1, <2>2, Counting DEF N
  <2>4. ASSUME NEW k \in 0..b PROVE A[k] = C[k]
    <3>1. k \in N /\ k <= b
      BY <2>3
    <3> QED
      BY <3>1
  <2> QED
    BY <2>4
<1>4. ASSUME NEW k \in 1..b
      PROVE  k \in TakenUp(d, zd, tb, w, p, dir) <=> k \in TakenUp(e, ze, tc, w, p, dir)
  <2>1. k \in 1..Len(tb) /\ k \in 1..Len(tc) /\ k - 1 \in 0..b
    BY <1>0
  <2>2. A[k - 1] = C[k - 1]
    BY <1>3, <2>1
  <2>3. Arrives(zd, tb, k, p, dir) <=> Arrives(ze, tc, k, p, dir)
    OBVIOUS
  <2> QED
    BY <1>2, <2>1, <2>2, <2>3
<1> QED
  BY <1>3, <1>4 DEF A, C

-----------------------------------------------------------------------------
(* One more bar *)

\* Data e is d with one more bar; the trigger bars tb and tc of both agree up to c, and
\* the one after them is the one the new bar is in.
Grows(d, tb, e, tc, w, c) ==
    /\ Framed(d, tb) /\ Framed(e, tc)
    /\ Len(e) = Len(d) + 1 /\ SameUpto(d, e, Len(d))
    /\ DOMAIN d = 1..Len(d) /\ DOMAIN e = 1..Len(e)
    /\ c \in Nat /\ c <= Len(tb) /\ Len(tb) <= c + 1 /\ Len(tc) = c + 1
    /\ \A k \in 1..c : /\ tb[k] = tc[k] /\ tb[k].first >= 1
                       /\ tb[k].first <= tb[k].last /\ tb[k].last <= Len(d)
    /\ w = 0 => c = Len(d) /\ Len(tb) = Len(d)

LEMMA GrowsIs ==
    ASSUME NEW d, NEW tb, NEW e, NEW tc, NEW w, NEW c, Grows(d, tb, e, tc, w, c)
    PROVE  /\ Framed(d, tb) /\ Framed(e, tc)
           /\ Len(d) \in Nat /\ Len(tb) \in Nat /\ c \in Nat /\ Len(e) = Len(d) + 1
           /\ c <= Len(tb) /\ Len(tb) <= c + 1 /\ Len(tc) = c + 1
           /\ w = 0 => c = Len(d) /\ Len(tb) = Len(d)
           /\ \A i \in 1..Len(d) : d[i] = e[i]
           /\ \A k \in 1..c : /\ k \in 1..Len(tb) /\ k \in 1..Len(tc)
                              /\ tb[k] = tc[k] /\ tb[k].first >= 1 /\ tb[k].last <= Len(d)
                              /\ tb[k].first \in Nat /\ tb[k].last \in Nat /\ tb[k].last >= 1
<1>1. Framed(d, tb) /\ Framed(e, tc)
  BY DEF Grows
<1>2. /\ Len(d) \in Nat /\ Len(tb) \in Nat
      /\ \A k \in 1..Len(tb) : tb[k].first \in Nat /\ tb[k].last \in Nat
  BY <1>1 DEF Framed
<1>3. /\ c \in Nat /\ c <= Len(tb) /\ Len(tb) <= c + 1 /\ Len(tc) = c + 1 /\ Len(e) = Len(d) + 1
      /\ w = 0 => c = Len(d) /\ Len(tb) = Len(d)
      /\ \A k \in 1..c : /\ tb[k] = tc[k] /\ tb[k].first >= 1
                         /\ tb[k].first <= tb[k].last /\ tb[k].last <= Len(d)
  BY DEF Grows
<1>4. \A i \in 1..Len(d) : d[i] = e[i]
  BY DEF Grows, SameUpto
<1>5. \A k \in 1..c : k \in 1..Len(tb) /\ k \in 1..Len(tc)
  BY <1>2, <1>3
<1>6. \A k \in 1..c : tb[k].last >= 1
  <2> SUFFICES ASSUME NEW k \in 1..c PROVE tb[k].last >= 1
    OBVIOUS
  <2>1. tb[k].first \in Nat /\ tb[k].last \in Nat /\ tb[k].first >= 1 /\ tb[k].first <= tb[k].last
    BY <1>2, <1>3, <1>5
  <2> QED
    BY <2>1
<1> QED
  BY <1>1, <1>2, <1>3, <1>4, <1>5, <1>6

LEMMA OutStays ==
    ASSUME NEW d, NEW tb, NEW e, NEW tc, NEW w, NEW c, Grows(d, tb, e, tc, w, c), NEW k \in 1..c,
           Out(tb, k) \in 1..c \/ Out(tc, k) \in 1..c
    PROVE  Out(tb, k) = Out(tc, k) /\ Out(tb, k) \in k + 1..c
<1>1. /\ c \in Nat /\ c <= Len(tb) /\ c <= Len(tc) /\ Len(tb) \in Nat /\ Len(tc) \in Nat
      /\ \A j \in 1..c : tb[j] = tc[j]
  <2>1. /\ c \in Nat /\ c <= Len(tb) /\ Len(tc) = c + 1 /\ Len(tb) \in Nat
        /\ \A j \in 1..c : tb[j] = tc[j]
    BY GrowsIs
  <2> QED
    BY <2>1
<1>2. CASE Out(tb, k) \in 1..c
  <2> DEFINE o == Out(tb, k)
  <2>1. o # 0 /\ k \in Nat
    BY <1>1, <1>2
  <2>2. o \in k + 1..Len(tb) /\ ~Inside(tb[o], tb[k]) /\ \A j \in k + 1..o - 1 : Inside(tb[j], tb[k])
    BY <1>1, <2>1, OutIs
  <2> HIDE DEF o
  <2>3. o \in 1..c
    BY <1>2 DEF o
  <2>4. o \in k + 1..Len(tc) /\ o \in k + 1..c /\ k \in Nat /\ (\A j \in k + 1..o - 1 : j \in 1..c)
    BY <1>1, <2>2, <2>3
  <2>5. ~Inside(tc[o], tc[k]) /\ \A j \in k + 1..o - 1 : Inside(tc[j], tc[k])
    BY <1>1, <2>2, <2>3, <2>4
  <2>6. Out(tc, k) = o
    BY <1>1, <2>4, <2>5, OutFound
  <2> QED
    BY <2>4, <2>6 DEF o
<1>3. CASE Out(tc, k) \in 1..c
  <2> DEFINE o == Out(tc, k)
  <2>1. o # 0 /\ k \in Nat
    BY <1>1, <1>3
  <2>2. o \in k + 1..Len(tc) /\ ~Inside(tc[o], tc[k]) /\ \A j \in k + 1..o - 1 : Inside(tc[j], tc[k])
    BY <1>1, <2>1, OutIs
  <2> HIDE DEF o
  <2>3. o \in 1..c
    BY <1>3 DEF o
  <2>4. o \in k + 1..Len(tb) /\ o \in k + 1..c /\ k \in Nat /\ (\A j \in k + 1..o - 1 : j \in 1..c)
    BY <1>1, <2>2, <2>3
  <2>5. ~Inside(tb[o], tb[k]) /\ \A j \in k + 1..o - 1 : Inside(tb[j], tb[k])
    BY <1>1, <2>2, <2>3, <2>4
  <2>6. Out(tb, k) = o
    BY <1>1, <2>4, <2>5, OutFound
  <2> QED
    BY <2>4, <2>6 DEF o
<1> QED
  BY <1>2, <1>3

LEMMA RetracesGrow ==
    ASSUME NEW d, NEW tb, NEW e, NEW tc, NEW w \in Nat, NEW c, Grows(d, tb, e, tc, w, c), NEW r \in 1..c, NEW dir
    PROVE  Retraces(d, tb, w, r, dir) = Retraces(e, tc, w, r, dir) \ {Len(e)}
<1>1. /\ c \in Nat /\ Len(d) \in Nat /\ Len(e) = Len(d) + 1
      /\ tb[r] = tc[r] /\ tb[r].last \in Nat /\ tb[r].last <= Len(d)
      /\ \A i \in 1..Len(d) : d[i] = e[i]
      /\ w = 0 => c = Len(d)
  BY GrowsIs
<1>2. Watched(d, tb, w, r) = Watched(e, tc, w, r) \ {Len(e)}
  <2>1. CASE w = 0
    <3>1. r \in Int /\ Len(d) \in Int /\ Len(e) \in Int /\ r + MaxWait \in Int
      BY <1>1, MaxWaitAssumption
    <3>2. /\ Min({Len(d), r + MaxWait}) = IF Len(d) <= r + MaxWait THEN Len(d) ELSE r + MaxWait
          /\ Min({Len(e), r + MaxWait}) = IF Len(e) <= r + MaxWait THEN Len(e) ELSE r + MaxWait
      BY <3>1, OfTwo
    <3>3. r <= Len(d)
      BY <1>1, <2>1
    <3> QED
      BY <1>1, <2>1, <3>1, <3>2, <3>3 DEF Watched
  <2>2. CASE w # 0
    <3>1. tb[r].last + 1..Len(d) = (tb[r].last + 1..Len(e)) \ {Len(e)}
      BY <1>1
    <3>2. \A i \in tb[r].last + 1..Len(d) : i \in 1..Len(d)
      BY <1>1
    <3>3. /\ Watched(d, tb, w, r) = {i \in tb[r].last + 1..Len(d) :
                                        d[i].slot \in tb[r].end + 1..tb[r].end + MaxWait * w}
          /\ Watched(e, tc, w, r) = {i \in tb[r].last + 1..Len(e) :
                                        e[i].slot \in tb[r].end + 1..tb[r].end + MaxWait * w}
      BY <1>1, <2>2 DEF Watched
    <3> QED
      BY <1>1, <3>1, <3>2, <3>3
  <2> QED
    BY <2>1, <2>2
<1>3. Watched(d, tb, w, r) \subseteq 1..Len(d)
  <2>1. CASE w = 0
    <3>1. r \in Int /\ Len(d) \in Int /\ r + MaxWait \in Int /\ r >= 1
      BY <1>1, MaxWaitAssumption
    <3>2. Min({Len(d), r + MaxWait}) = IF Len(d) <= r + MaxWait THEN Len(d) ELSE r + MaxWait
      BY <3>1, OfTwo
    <3> QED
      BY <1>1, <2>1, <3>1, <3>2 DEF Watched
  <2>2. CASE w # 0
    BY <1>1, <2>2 DEF Watched
  <2> QED
    BY <2>1, <2>2
<1> QED
  BY <1>1, <1>2, <1>3 DEF Retraces

LEMMA FillGrows ==
    ASSUME NEW d, NEW tb, NEW e, NEW tc, NEW w \in Nat, NEW c, Grows(d, tb, e, tc, w, c), NEW r \in 1..c, NEW dir
    PROVE  LET x == Fill(d, tb, w, r, dir)
               y == Fill(e, tc, w, r, dir)
           IN /\ x \in Nat /\ y \in Nat /\ x <= Len(d) /\ y <= Len(e)
              /\ y = IF x # 0 THEN x ELSE IF Len(e) \in Retraces(e, tc, w, r, dir) THEN Len(e) ELSE 0
<1> DEFINE x == Fill(d, tb, w, r, dir)
           y == Fill(e, tc, w, r, dir)
           X == Retraces(d, tb, w, r, dir)
           Y == Retraces(e, tc, w, r, dir)
<1>1. /\ Framed(d, tb) /\ Framed(e, tc) /\ r \in 1..Len(tb) /\ r \in 1..Len(tc)
      /\ Len(d) \in Nat /\ Len(e) = Len(d) + 1
  BY GrowsIs
<1>2. /\ x \in Nat /\ (x = 0 <=> X = {}) /\ (x # 0 => x \in X /\ \A i \in X : x <= i)
      /\ y \in Nat /\ (y = 0 <=> Y = {}) /\ (y # 0 => y \in Y /\ \A i \in Y : y <= i)
      /\ X \subseteq Nat \ {0} /\ Y \subseteq Nat \ {0}
  BY <1>1, FillIs
<1>3. X = Y \ {Len(e)}
  BY RetracesGrow
<1>4. Y \subseteq 1..Len(e)
  <2>1. Y \subseteq Watched(e, tc, w, r)
    BY DEF Retraces
  <2>2. CASE w = 0
    <3>1. r \in Int /\ Len(e) \in Int /\ r + MaxWait \in Int /\ r >= 1
      BY <1>1, MaxWaitAssumption
    <3>2. Min({Len(e), r + MaxWait}) = IF Len(e) <= r + MaxWait THEN Len(e) ELSE r + MaxWait
      BY <3>1, OfTwo
    <3> QED
      BY <1>1, <2>1, <2>2, <3>1, <3>2 DEF Watched
  <2>3. CASE w # 0
    <3>1. tc[r].last \in Nat
      BY <1>1 DEF Framed
    <3> QED
      BY <1>1, <2>1, <2>3, <3>1 DEF Watched
  <2> QED
    BY <2>2, <2>3
<1> HIDE DEF x, y, X, Y
<1>5. CASE x # 0
  <2>1. x \in Y /\ x < Len(e) /\ y # 0 /\ y \in Y /\ y <= x /\ x <= Len(d)
    BY <1>1, <1>2, <1>3, <1>4, <1>5
  <2>2. y \in X
    BY <1>1, <1>2, <1>3, <2>1
  <2>3. x <= y
    BY <1>2, <1>5, <2>2
  <2> QED
    BY <1>1, <1>2, <1>5, <2>1, <2>3 DEF x, y, Y
<1>6. CASE x = 0
  <2>1. Y \subseteq {Len(e)}
    BY <1>2, <1>3, <1>6
  <2> QED
    BY <1>1, <1>2, <1>6, <2>1 DEF x, y, Y
<1> QED
  BY <1>5, <1>6

\* Whether the turn at trigger bar o is filled or can no longer be filled on d, where
\* trigger bars are the bars themselves.
Done(d, tb, w, o, dir) == w # 0 \/ Fill(d, tb, w, o, dir) # 0 \/ o + MaxWait <= Len(d)

LEMMA SilenceStays ==
    ASSUME NEW d, NEW tb, NEW e, NEW tc, NEW w \in Nat, NEW c, Grows(d, tb, e, tc, w, c), NEW o \in 1..c, NEW dir
    PROVE  /\ Done(d, tb, w, o, dir) => Silence(e, tc, w, o, dir) = Silence(d, tb, w, o, dir)
           /\ Done(d, tb, w, o, dir) /\ w = 0 => Fill(e, tc, w, o, dir) = Fill(d, tb, w, o, dir)
           /\ Silence(d, tb, w, o, dir) < Len(d) => Done(d, tb, w, o, dir)
           /\ Silence(e, tc, w, o, dir) <= Len(d) => Done(d, tb, w, o, dir)
           /\ Silence(d, tb, w, o, dir) \in Nat /\ Silence(e, tc, w, o, dir) \in Nat
           /\ o <= Silence(d, tb, w, o, dir) /\ o <= Silence(e, tc, w, o, dir)
<1> DEFINE x == Fill(d, tb, w, o, dir)
           y == Fill(e, tc, w, o, dir)
<1>1. /\ x \in Nat /\ y \in Nat /\ x <= Len(d) /\ y <= Len(e)
      /\ y = IF x # 0 THEN x ELSE IF Len(e) \in Retraces(e, tc, w, o, dir) THEN Len(e) ELSE 0
  BY FillGrows
<1>2. /\ Len(d) \in Nat /\ Len(e) = Len(d) + 1 /\ o \in Nat /\ MaxWait \in Nat
      /\ w = 0 => Len(tb) = Len(d) /\ Len(tc) = Len(e) /\ o <= Len(d)
  BY GrowsIs, MaxWaitAssumption
<1>3. /\ x # 0 /\ w = 0 => x >= o
      /\ y # 0 /\ w = 0 => y >= o
      /\ y # 0 /\ w = 0 => y <= o + MaxWait
  <2>1. /\ x # 0 => x \in Watched(d, tb, w, o)
        /\ y # 0 => y \in Watched(e, tc, w, o)
    <3>1. Framed(d, tb) /\ Framed(e, tc) /\ o \in 1..Len(tb) /\ o \in 1..Len(tc)
      BY GrowsIs
    <3> QED
      BY <3>1, FillIs
  <2> SUFFICES ASSUME w = 0
               PROVE  (x # 0 => x >= o) /\ (y # 0 => y >= o) /\ (y # 0 => y <= o + MaxWait)
    OBVIOUS
  <2>2. o \in Int /\ Len(d) \in Int /\ Len(e) \in Int /\ o + MaxWait \in Int
    BY <1>2
  <2>3. /\ Min({Len(d), o + MaxWait}) = IF Len(d) <= o + MaxWait THEN Len(d) ELSE o + MaxWait
        /\ Min({Len(e), o + MaxWait}) = IF Len(e) <= o + MaxWait THEN Len(e) ELSE o + MaxWait
    BY <2>2, OfTwo
  <2> HIDE DEF x, y
  <2>4. (x # 0 => x \in o + 1..Min({Len(d), o + MaxWait})) /\ (y # 0 => y \in o + 1..Min({Len(e), o + MaxWait}))
    BY <2>1 DEF Watched
  <2> QED
    BY <1>1, <1>2, <2>2, <2>3, <2>4
<1>4. /\ Silence(d, tb, w, o, dir) = IF w # 0 THEN o + MaxWait
                                     ELSE IF x # 0 THEN x
                                     ELSE IF Len(tb) <= o + MaxWait THEN Len(tb) ELSE o + MaxWait
      /\ Silence(e, tc, w, o, dir) = IF w # 0 THEN o + MaxWait
                                     ELSE IF y # 0 THEN y
                                     ELSE IF Len(tc) <= o + MaxWait THEN Len(tc) ELSE o + MaxWait
  BY DEF Silence
<1>5. Done(d, tb, w, o, dir) <=> (w # 0 \/ x # 0 \/ o + MaxWait <= Len(d))
  BY DEF Done
<1> HIDE DEF x, y
<1>6. CASE w # 0
  <2>1. Silence(d, tb, w, o, dir) = o + MaxWait /\ Silence(e, tc, w, o, dir) = o + MaxWait
    BY <1>4, <1>6
  <2> QED
    BY <1>2, <1>5, <1>6, <2>1
<1>7. CASE w = 0
  <2>1. /\ Silence(d, tb, w, o, dir) =
              IF x # 0 THEN x ELSE IF Len(d) <= o + MaxWait THEN Len(d) ELSE o + MaxWait
        /\ Silence(e, tc, w, o, dir) =
              IF y # 0 THEN y ELSE IF Len(e) <= o + MaxWait THEN Len(e) ELSE o + MaxWait
    BY <1>2, <1>4, <1>7
  <2>2. y = x \/ (x = 0 /\ y = Len(e))
    BY <1>1
  <2>3. Done(d, tb, w, o, dir) <=> (x # 0 \/ o + MaxWait <= Len(d))
    BY <1>5, <1>7
  <2>4. Done(d, tb, w, o, dir) => y = x
    BY <1>1, <1>2, <1>3, <1>7, <2>2, <2>3
  <2> HIDE DEF Done
  <2>5. Done(d, tb, w, o, dir) => Silence(e, tc, w, o, dir) = Silence(d, tb, w, o, dir)
    BY <1>1, <1>2, <2>1, <2>3, <2>4
  <2>6. /\ Silence(d, tb, w, o, dir) < Len(d) => Done(d, tb, w, o, dir)
        /\ Silence(e, tc, w, o, dir) <= Len(d) => Done(d, tb, w, o, dir)
    BY <1>1, <1>2, <2>1, <2>2, <2>3
  <2>7. /\ Silence(d, tb, w, o, dir) \in Nat /\ Silence(e, tc, w, o, dir) \in Nat
        /\ o <= Silence(d, tb, w, o, dir) /\ o <= Silence(e, tc, w, o, dir)
    BY <1>1, <1>2, <1>3, <1>7, <2>1
  <2> QED
    BY <2>4, <2>5, <2>6, <2>7 DEF x, y
<1> QED
  BY <1>6, <1>7

LEMMA DoneStays ==
    ASSUME NEW d, NEW tb, NEW e, NEW tc, NEW w \in Nat, NEW c, Grows(d, tb, e, tc, w, c), NEW o \in 1..c, NEW dir,
           Done(d, tb, w, o, dir)
    PROVE  Silence(e, tc, w, o, dir) = Silence(d, tb, w, o, dir)
<1>1. /\ Done(d, tb, w, o, dir) => Silence(e, tc, w, o, dir) = Silence(d, tb, w, o, dir)
      /\ Done(d, tb, w, o, dir) /\ w = 0 => Fill(e, tc, w, o, dir) = Fill(d, tb, w, o, dir)
      /\ Silence(d, tb, w, o, dir) < Len(d) => Done(d, tb, w, o, dir)
      /\ Silence(e, tc, w, o, dir) <= Len(d) => Done(d, tb, w, o, dir)
      /\ Silence(d, tb, w, o, dir) \in Nat /\ Silence(e, tc, w, o, dir) \in Nat
      /\ o <= Silence(d, tb, w, o, dir) /\ o <= Silence(e, tc, w, o, dir)
  BY SilenceStays
<1> QED
  BY <1>1

LEMMA ArrivesStays ==
    ASSUME NEW d, NEW tb, NEW e, NEW tc, NEW w, NEW c, Grows(d, tb, e, tc, w, c), NEW k \in 1..c,
           NEW setup, NEW p, NEW dir
    PROVE  Arrives(AdmittedZones(d, setup), tb, k, p, dir) <=> Arrives(AdmittedZones(e, setup), tc, k, p, dir)
<1>1. /\ Len(d) \in Nat /\ Len(e) = Len(d) + 1 /\ SameUpto(d, e, Len(d))
      /\ DOMAIN d = 1..Len(d) /\ DOMAIN e = 1..Len(e)
      /\ tb[k] = tc[k] /\ tb[k].first >= 1 /\ tb[k].last <= Len(d) /\ tb[k].first \in Nat /\ tb[k].last \in Nat
  <2>1. SameUpto(d, e, Len(d)) /\ DOMAIN d = 1..Len(d) /\ DOMAIN e = 1..Len(e)
    BY DEF Grows
  <2> QED
    BY <2>1, GrowsIs, ZenonT(60)
<1>2. ASSUME NEW i \in tb[k].first..tb[k].last PROVE AdmittedZones(d, setup)[i] = AdmittedZones(e, setup)[i]
  <2>1. i \in 1..Len(d) /\ i \in 1..Len(e) /\ i \in Nat \ {0}
    BY <1>1
  <2>2. SameUpto(d, e, i)
    BY <1>1, <2>1 DEF SameUpto
  <2>3. ZonesAt(d, i, setup) = ZonesAt(e, i, setup)
    BY <2>1, <2>2, ZonesStay
  <2>4. AdmittedZones(d, setup)[i] = ZonesAt(d, i, setup)
    BY <1>1, <2>1, ZonesAre
  <2>5. AdmittedZones(e, setup)[i] = ZonesAt(e, i, setup)
    BY <1>1, <2>1, ZonesAre
  <2> QED
    BY <2>3, <2>4, <2>5
<1>3. Candidates(AdmittedZones(d, setup), tb, k) = Candidates(AdmittedZones(e, setup), tc, k)
  BY <1>1, <1>2 DEF Candidates
<1> QED
  BY <1>1, <1>3 DEF Arrives

-----------------------------------------------------------------------------
(* On the base time frame a trigger bar is a bar *)

Data(d) ==
    /\ Len(d) \in Nat /\ DOMAIN d = 1..Len(d)
    /\ \A i \in 1..Len(d) : d[i].slot \in Nat /\ d[i].high \in Int /\ d[i].low \in Int /\ d[i].close \in Int
    /\ \A i, j \in 1..Len(d) : i < j => d[i].slot < d[j].slot

Base(d) == TriggerBars(d, 0)

LEMMA BaseIs ==
    ASSUME NEW d, Data(d)
    PROVE  /\ DOMAIN Base(d) = 1..Len(d) /\ Len(Base(d)) = Len(d) /\ Framed(d, Base(d))
           /\ \A k \in 1..Len(d) :
                 Base(d)[k] = [high |-> d[k].high, low |-> d[k].low, close |-> d[k].close,
                               first |-> k, last |-> k, end |-> d[k].slot]
<1> DEFINE Bar(k) == [high |-> HighOf(d, {k}), low |-> LowOf(d, {k}), close |-> d[Max({k})].close,
                      first |-> Min({k}), last |-> Max({k}), end |-> d[k].slot]
<1>1. DOMAIN d = 1..Len(d) /\ Len(d) \in Nat
  BY DEF Data
<1>2. Base(d) = [k \in 1..Len(d) |-> Bar(k)]
  BY <1>1 DEF Base, TriggerBars
<1>3. ASSUME NEW k \in 1..Len(d)
      PROVE  Bar(k) = [high |-> d[k].high, low |-> d[k].low, close |-> d[k].close,
                       first |-> k, last |-> k, end |-> d[k].slot]
  <2>1. d[k].high \in Int /\ d[k].low \in Int /\ k \in Int
    BY DEF Data
  <2>2. {d[i].high : i \in {k}} = {d[k].high} /\ {d[i].low : i \in {k}} = {d[k].low}
    OBVIOUS
  <2>3. HighOf(d, {k}) = d[k].high
    BY <2>1, <2>2, OfOne DEF HighOf
  <2>4. LowOf(d, {k}) = d[k].low
    BY <2>1, <2>2, OfOne DEF LowOf
  <2>5. Max({k}) = k /\ Min({k}) = k
    BY <2>1, OfOne
  <2> QED
    BY <2>3, <2>4, <2>5
<1> HIDE DEF Bar
<1>4. DOMAIN Base(d) = 1..Len(d)
  BY <1>2
<1>5. Len(Base(d)) = Len(d)
  BY <1>1, <1>2
<1>6. ASSUME NEW k \in 1..Len(d)
      PROVE  Base(d)[k] = [high |-> d[k].high, low |-> d[k].low, close |-> d[k].close,
                           first |-> k, last |-> k, end |-> d[k].slot]
  BY <1>2, <1>3
<1>7. Framed(d, Base(d))
  <2>1. ASSUME NEW k \in 1..Len(d) PROVE Base(d)[k].first \in Nat /\ Base(d)[k].last \in Nat
    <3>0. Base(d)[k] = [high |-> d[k].high, low |-> d[k].low, close |-> d[k].close,
                        first |-> k, last |-> k, end |-> d[k].slot]
      BY <1>6
    <3> DEFINE b == Base(d)[k]
    <3>1. b.first = k /\ b.last = k
      <4> HIDE DEF b
      <4>1. b = [high |-> d[k].high, low |-> d[k].low, close |-> d[k].close,
                 first |-> k, last |-> k, end |-> d[k].slot]
        BY <3>0 DEF b
      <4> QED
        BY <4>1
    <3> QED
      BY <1>1, <3>1
  <2> QED
    BY <1>1, <1>4, <1>5, <2>1 DEF Framed
<1> QED
  BY <1>4, <1>5, <1>6, <1>7

LEMMA BaseAgrees ==
    ASSUME NEW d, Data(d), NEW k \in 1..Len(d)
    PROVE  /\ \A j \in 1..Len(d) : Inside(Base(d)[k], Base(d)[j]) <=> Inside(d[k], d[j])
           /\ \A j \in 1..Len(d) : \A dir : Turns(Base(d)[k], Base(d)[j], dir) <=> Turns(d[k], d[j], dir)
           /\ \A dir : TriggerPrice(Base(d)[k], dir) = TriggerPrice(d[k], dir)
           /\ \A p : \A dir : ArrivesAt(Base(d)[k], p, dir) <=> ArrivesAt(d[k], p, dir)
<1>1. ASSUME NEW j \in 1..Len(d)
      PROVE  /\ Base(d)[j].high = d[j].high /\ Base(d)[j].low = d[j].low
             /\ Base(d)[j].close = d[j].close
  <2> DEFINE b == Base(d)[j]
  <2>1. b = [high |-> d[j].high, low |-> d[j].low, close |-> d[j].close,
             first |-> j, last |-> j, end |-> d[j].slot]
    BY BaseIs
  <2> HIDE DEF b
  <2>2. b.high = d[j].high /\ b.low = d[j].low /\ b.close = d[j].close
    BY <2>1
  <2> QED
    BY <2>2 DEF b
<1> QED
  BY <1>1 DEF Inside, Turns, TriggerPrice, ArrivesAt

LEMMA BaseArrives ==
    ASSUME NEW d, Data(d), NEW setup, NEW k \in 1..Len(d), NEW p, NEW dir
    PROVE  Arrives(AdmittedZones(d, setup), Base(d), k, p, dir) <=>
              p \in CandidatePrices(ZonesAt(d, k, setup)) /\ ArrivesAt(d[k], p, dir)
<1>1. Base(d)[k].first = k /\ Base(d)[k].last = k /\ k..k = {k}
  <2>1. Base(d)[k] = [high |-> d[k].high, low |-> d[k].low, close |-> d[k].close,
                      first |-> k, last |-> k, end |-> d[k].slot]
    BY BaseIs
  <2> QED
    BY <2>1
<1>2. Candidates(AdmittedZones(d, setup), Base(d), k) = CandidatePrices(AdmittedZones(d, setup)[k])
  BY <1>1 DEF Candidates
<1>3. AdmittedZones(d, setup)[k] = ZonesAt(d, k, setup)
  BY ZonesAre DEF Data
<1> QED
  BY <1>2, <1>3, BaseAgrees DEF Arrives

LEMMA BaseGrows ==
    ASSUME NEW d, NEW e, Data(d), Data(e), Len(e) = Len(d) + 1, SameUpto(d, e, Len(d))
    PROVE  Grows(d, Base(d), e, Base(e), 0, Len(d))
<1>1. Len(d) \in Nat /\ DOMAIN d = 1..Len(d) /\ DOMAIN e = 1..Len(e)
  BY DEF Data
<1>2. /\ Len(Base(d)) = Len(d) /\ Len(Base(e)) = Len(e) /\ Framed(d, Base(d)) /\ Framed(e, Base(e))
  BY BaseIs
<1>3. ASSUME NEW k \in 1..Len(d)
      PROVE  /\ Base(d)[k] = Base(e)[k] /\ Base(d)[k].first >= 1
             /\ Base(d)[k].first <= Base(d)[k].last /\ Base(d)[k].last <= Len(d)
  <2>1. k \in 1..Len(e) /\ d[k] = e[k]
    BY <1>1 DEF SameUpto
  <2>2. /\ Base(d)[k] = [high |-> d[k].high, low |-> d[k].low, close |-> d[k].close,
                          first |-> k, last |-> k, end |-> d[k].slot]
        /\ Base(e)[k] = [high |-> e[k].high, low |-> e[k].low, close |-> e[k].close,
                          first |-> k, last |-> k, end |-> e[k].slot]
    BY <2>1, BaseIs
  <2> QED
    BY <1>1, <2>1, <2>2
<1> QED
  BY <1>1, <1>2, <1>3 DEF Grows

\* Silence does not reach beyond the data.
LEMMA BaseSilence ==
    ASSUME NEW d, Data(d), NEW o \in 1..Len(d), NEW dir
    PROVE  /\ Fill(d, Base(d), 0, o, dir) \in Nat /\ Fill(d, Base(d), 0, o, dir) <= Len(d)
           /\ Silence(d, Base(d), 0, o, dir) \in Nat
           /\ o <= Silence(d, Base(d), 0, o, dir) /\ Silence(d, Base(d), 0, o, dir) <= Len(d)
<1> DEFINE x == Fill(d, Base(d), 0, o, dir)
<1>1. Len(Base(d)) = Len(d) /\ Framed(d, Base(d)) /\ o \in 1..Len(Base(d)) /\ Len(d) \in Nat
  BY BaseIs DEF Data
<1>2. x \in Nat /\ (x # 0 => x \in Watched(d, Base(d), 0, o))
  BY <1>1, FillIs
<1>3. o \in Int /\ Len(d) \in Int /\ o + MaxWait \in Int /\ o >= 1 /\ MaxWait \in Nat
  BY <1>1, MaxWaitAssumption
<1>4. Min({Len(d), o + MaxWait}) = IF Len(d) <= o + MaxWait THEN Len(d) ELSE o + MaxWait
  BY <1>3, OfTwo
<1>5. x # 0 => x \in o + 1..Len(d)
  BY <1>2, <1>3, <1>4 DEF Watched
<1>6. Silence(d, Base(d), 0, o, dir) =
        IF x # 0 THEN x ELSE IF Len(d) <= o + MaxWait THEN Len(d) ELSE o + MaxWait
  BY <1>1 DEF Silence
<1> HIDE DEF x
<1>7. /\ x \in Nat /\ x <= Len(d)
      /\ Silence(d, Base(d), 0, o, dir) \in Nat
      /\ o <= Silence(d, Base(d), 0, o, dir) /\ Silence(d, Base(d), 0, o, dir) <= Len(d)
  BY <1>1, <1>2, <1>3, <1>5, <1>6
<1> QED
  BY <1>7 DEF x

LEMMA BaseResolution ==
    ASSUME NEW d, Data(d), NEW k \in 1..Len(d), NEW dir
    PROVE  LET o == Out(Base(d), k)
               r == Resolution(d, Base(d), 0, k, dir)
           IN /\ o \in Nat /\ o <= Len(d) /\ (o # 0 => o \in k + 1..Len(d))
              /\ o = 0 => r = [reversal |-> 0, entry |-> 0, until |-> 0]
              /\ o # 0 /\ ~Turns(d[o], d[k], dir) => r = [reversal |-> 0, entry |-> 0, until |-> o]
              /\ o # 0 /\ Turns(d[o], d[k], dir) =>
                    r = [reversal |-> o, entry |-> Fill(d, Base(d), 0, o, dir),
                         until |-> Silence(d, Base(d), 0, o, dir)]
              /\ r.until \in Nat /\ r.until <= Len(d) /\ (o # 0 => o <= r.until)
<1> DEFINE o == Out(Base(d), k)
           r == Resolution(d, Base(d), 0, k, dir)
<1>1. Len(Base(d)) = Len(d) /\ Framed(d, Base(d)) /\ Len(d) \in Nat /\ k \in Nat /\ k \in 1..Len(Base(d))
  BY BaseIs DEF Data
<1>2. o \in Nat /\ (o # 0 => o \in k + 1..Len(d))
  BY <1>1, OutIs
<1> HIDE DEF o
<1>3. o <= Len(d) /\ (o # 0 => o \in 1..Len(d))
  BY <1>1, <1>2
<1>4. o # 0 => (Turns(Base(d)[o], Base(d)[k], dir) <=> Turns(d[o], d[k], dir))
  BY <1>3, BaseAgrees
<1>5. /\ o = 0 => r = [reversal |-> 0, entry |-> 0, until |-> 0]
      /\ o # 0 /\ ~Turns(d[o], d[k], dir) => r = [reversal |-> 0, entry |-> 0, until |-> o]
      /\ o # 0 /\ Turns(d[o], d[k], dir) =>
            r = [reversal |-> o, entry |-> Fill(d, Base(d), 0, o, dir),
                 until |-> Silence(d, Base(d), 0, o, dir)]
  BY <1>1, <1>4, ResolutionIs DEF o
<1>6. o # 0 => /\ Silence(d, Base(d), 0, o, dir) \in Nat
               /\ o <= Silence(d, Base(d), 0, o, dir) /\ Silence(d, Base(d), 0, o, dir) <= Len(d)
  BY <1>3, BaseSilence
<1> HIDE DEF r
<1>7. r.until \in Nat /\ r.until <= Len(d) /\ (o # 0 => o <= r.until)
  <2>1. CASE o = 0
    BY <1>1, <1>5, <2>1
  <2>2. CASE o # 0 /\ ~Turns(d[o], d[k], dir)
    BY <1>2, <1>3, <1>5, <2>2
  <2>3. CASE o # 0 /\ Turns(d[o], d[k], dir)
    BY <1>5, <1>6, <2>3
  <2> QED
    BY <2>1, <2>2, <2>3
<1> QED
  BY <1>2, <1>3, <1>5, <1>7 DEF o, r

Upcoming(d, setup, p, dir) == TakenUp(d, AdmittedZones(d, setup), Base(d), 0, p, dir)
Until(d, setup, p, dir)    == ActiveUntil(d, AdmittedZones(d, setup), Base(d), 0, p, dir)

LEMMA BaseUntil ==
    ASSUME NEW d, Data(d), NEW setup, NEW p, NEW dir
    PROVE  \A k \in 0..Len(d) : Until(d, setup, p, dir)[k] \in 0..Len(d)
<1> DEFINE A == Until(d, setup, p, dir)
           n == Len(d)
           zones == AdmittedZones(d, setup)
<1>1. Len(Base(d)) = n /\ Framed(d, Base(d)) /\ n \in Nat
  BY BaseIs DEF Data
<1>2. /\ A[0] = 0 /\ \A k \in 1..n : A[k] = Silenced(d, zones, Base(d), 0, p, dir, k, A[k - 1])
  BY <1>1, ActiveIs DEF Until
<1> HIDE DEF A
<1> DEFINE N == {k \in Nat : k <= n => A[k] \in 0..n}
<1>3. 0 \in N
  BY <1>1, <1>2
<1>4. ASSUME NEW k \in N PROVE k + 1 \in N
  <2> SUFFICES ASSUME k + 1 <= n PROVE A[k + 1] \in 0..n
    OBVIOUS
  <2> DEFINE j == k + 1
             u == Resolution(d, Base(d), 0, j, dir).until
  <2>0. k \in Nat
    OBVIOUS
  <2>1. j \in 1..n /\ j - 1 = k
    BY <1>1, <2>0
  <2>2. A[k] \in 0..n
    BY <1>1, <2>0
  <2> HIDE DEF j
  <2>3. u \in Nat /\ u <= n
    BY <2>1, BaseResolution
  <2>4. A[j] = A[k] \/ A[j] = Max({A[k], u})
    BY <1>2, <2>1 DEF Silenced
  <2> HIDE DEF u
  <2>5. A[k] \in Int /\ u \in Int
    BY <2>2, <2>3
  <2>6. Max({A[k], u}) = IF A[k] <= u THEN u ELSE A[k]
    BY <2>5, OfTwo
  <2>7. A[j] \in 0..n
    BY <1>1, <2>2, <2>3, <2>4, <2>6
  <2> QED
    BY <2>7 DEF j
<1>5. N = Nat
  <2> HIDE DEF N
  <2> QED
    BY <1>3, <1>4, Counting DEF N
<1>6. ASSUME NEW k \in 0..n PROVE A[k] \in 0..n
  <2>1. k \in N /\ k <= n
    BY <1>1, <1>5
  <2> QED
    BY <2>1
<1> QED
  BY <1>6 DEF A

LEMMA UpcomingIs ==
    ASSUME NEW d, Data(d), NEW setup, NEW p, NEW dir
    PROVE  /\ \A k : k \in Upcoming(d, setup, p, dir) <=>
                        /\ k \in 1..Len(d) /\ k > Until(d, setup, p, dir)[k - 1]
                        /\ Arrives(AdmittedZones(d, setup), Base(d), k, p, dir)
           /\ \A k \in Upcoming(d, setup, p, dir) : \A j \in k..Len(d) :
                 Resolution(d, Base(d), 0, k, dir).until <= Until(d, setup, p, dir)[j]
<1> DEFINE A == Until(d, setup, p, dir)
           T == Upcoming(d, setup, p, dir)
<1>1. Len(Base(d)) = Len(d) /\ Framed(d, Base(d)) /\ Len(d) \in Nat
  BY BaseIs DEF Data
<1>2. \A k : k \in T <=> /\ k \in 1..Len(d) /\ k > A[k - 1]
                         /\ Arrives(AdmittedZones(d, setup), Base(d), k, p, dir)
  BY <1>1, TakenUpIs DEF Upcoming, Until
<1>3. /\ \A k \in T : Resolution(d, Base(d), 0, k, dir).until <= A[k]
      /\ \A k \in 0..Len(d) : \A j \in 0..k : A[j] <= A[k]
  BY <1>1, ActiveGrows DEF Upcoming, Until
<1>4. \A k \in 0..Len(d) : A[k] \in 0..Len(d)
  BY BaseUntil
<1> HIDE DEF A, T
<1>5. ASSUME NEW k \in T, NEW j \in k..Len(d) PROVE Resolution(d, Base(d), 0, k, dir).until <= A[j]
  <2>1. k \in 1..Len(d)
    BY <1>2
  <2>2. k \in 0..Len(d) /\ j \in 0..Len(d) /\ k \in 0..j
    BY <1>1, <2>1
  <2>3. /\ Resolution(d, Base(d), 0, k, dir).until \in Nat
        /\ Resolution(d, Base(d), 0, k, dir).until <= A[k] /\ A[k] <= A[j]
    BY <1>3, <2>1, <2>2, BaseResolution
  <2>4. A[k] \in Int /\ A[j] \in Int
    BY <1>1, <1>4, <2>2
  <2> QED
    BY <2>3, <2>4
<1> QED
  BY <1>2, <1>5 DEF A, T

-----------------------------------------------------------------------------
(* The trader and the scan, on one level in one direction *)

\* Nothing that is still to come changes what became of the arrival on bar k.
Settled(d, k, dir) ==
    LET o == Out(Base(d), k)
    IN o # 0 /\ (Turns(d[o], d[k], dir) => Done(d, Base(d), 0, o, dir))

\* The trader waiting for w is where the scan of d is.
Follows(d, setup, p, dir, w) ==
    /\ w.phase \in {"idle", "inside", "retrace"}
    /\ w.phase = "idle" => \A k \in Upcoming(d, setup, p, dir) : Settled(d, k, dir)
    /\ w.phase # "idle" =>
          /\ w.arrival \in Upcoming(d, setup, p, dir)
          /\ \A k \in Upcoming(d, setup, p, dir) : k < w.arrival => Settled(d, k, dir)
    /\ w.phase = "inside" => Out(Base(d), w.arrival) = 0
    /\ w.phase = "retrace" =>
          /\ w.reversal = Out(Base(d), w.arrival) /\ w.reversal # 0
          /\ Turns(d[w.reversal], d[w.arrival], dir)
          /\ Fill(d, Base(d), 0, w.reversal, dir) = 0 /\ Len(d) < w.reversal + MaxWait

\* The arrivals taken up whose outcome the trader has seen, and their entries.
Seen0(d, setup, p, dir, w) ==
    {k \in Upcoming(d, setup, p, dir) : w.phase # "idle" => k < w.arrival}

Found(d, k, dir) == Resolution(d, Base(d), 0, k, dir)

Entries(d, setup, p, dir, w) ==
    {[level |-> p, direction |-> dir, arrival |-> k, entry |-> Found(d, k, dir).entry] :
        k \in {x \in Seen0(d, setup, p, dir, w) : Found(d, x, dir).entry # 0}}

\* What is settled stays.
LEMMA SettledStays ==
    ASSUME NEW d, NEW e, Data(d), Data(e), Len(e) = Len(d) + 1, SameUpto(d, e, Len(d)),
           NEW k \in 1..Len(d), NEW dir, Settled(d, k, dir)
    PROVE  Settled(e, k, dir) /\ Found(e, k, dir) = Found(d, k, dir)
<1> DEFINE o == Out(Base(d), k)
<1>1. Grows(d, Base(d), e, Base(e), 0, Len(d))
  BY BaseGrows
<1>2. Len(d) \in Nat /\ k \in 1..Len(e) /\ d[k] = e[k]
  BY DEF SameUpto, Data
<1>3. o # 0 /\ o \in k + 1..Len(d) /\ o \in 1..Len(d)
  <2>1. o # 0
    BY DEF Settled
  <2>2. o \in Nat /\ o <= Len(d) /\ (o # 0 => o \in k + 1..Len(d))
    BY BaseResolution
  <2> HIDE DEF o
  <2> QED
    BY <1>2, <2>1, <2>2
<1>4. Out(Base(e), k) = o
  BY <1>1, <1>3, OutStays
<1> HIDE DEF o
<1>5. o \in 1..Len(e) /\ d[o] = e[o]
  BY <1>2, <1>3 DEF SameUpto
<1>6. CASE ~Turns(d[o], d[k], dir)
  <2>1. Found(d, k, dir) = [reversal |-> 0, entry |-> 0, until |-> o]
    BY <1>3, <1>6, BaseResolution DEF Found, o
  <2>2. Found(e, k, dir) = [reversal |-> 0, entry |-> 0, until |-> o]
    BY <1>2, <1>3, <1>4, <1>5, <1>6, BaseResolution DEF Found
  <2> QED
    BY <1>2, <1>3, <1>4, <1>5, <1>6, <2>1, <2>2 DEF Settled
<1>7. CASE Turns(d[o], d[k], dir)
  <2>1. Done(d, Base(d), 0, o, dir)
    BY <1>7 DEF Settled, o
  <2>2. /\ Silence(e, Base(e), 0, o, dir) = Silence(d, Base(d), 0, o, dir)
        /\ Fill(e, Base(e), 0, o, dir) = Fill(d, Base(d), 0, o, dir)
    BY <1>1, <1>3, <2>1, SilenceStays, SMTT(60)
  <2>3. Found(d, k, dir) = [reversal |-> o, entry |-> Fill(d, Base(d), 0, o, dir),
                            until |-> Silence(d, Base(d), 0, o, dir)]
    BY <1>3, <1>7, BaseResolution DEF Found, o
  <2>4. Found(e, k, dir) = [reversal |-> o, entry |-> Fill(e, Base(e), 0, o, dir),
                            until |-> Silence(e, Base(e), 0, o, dir)]
    BY <1>2, <1>3, <1>4, <1>5, <1>7, BaseResolution DEF Found
  <2>5. Done(e, Base(e), 0, o, dir)
    <3>1. o + MaxWait \in Int
      BY <1>3, MaxWaitAssumption
    <3> QED
      BY <1>2, <2>1, <2>2, <3>1 DEF Done
  <2> QED
    BY <1>3, <1>4, <2>2, <2>3, <2>4, <2>5 DEF Settled
<1> QED
  BY <1>6, <1>7

\* Up to where everything is settled the same arrivals are taken up.
LEMMA UpcomingStays ==
    ASSUME NEW d, NEW e, Data(d), Data(e), Len(e) = Len(d) + 1, SameUpto(d, e, Len(d)),
           NEW setup, NEW p, NEW dir, NEW b \in 0..Len(d),
           \A k \in Upcoming(d, setup, p, dir) : k <= b => Settled(d, k, dir)
    PROVE  /\ \A k \in 0..b : Until(e, setup, p, dir)[k] = Until(d, setup, p, dir)[k]
           /\ \A k \in 1..b : k \in Upcoming(e, setup, p, dir) <=> k \in Upcoming(d, setup, p, dir)
<1>1. Grows(d, Base(d), e, Base(e), 0, Len(d))
  BY BaseGrows
<1>2. /\ Len(d) \in Nat /\ b \in Nat /\ b <= Len(Base(d)) /\ b <= Len(Base(e))
      /\ Framed(d, Base(d)) /\ Framed(e, Base(e))
  <2>1. Len(d) \in Nat
    BY DEF Data
  <2> QED
    BY <2>1, BaseIs
<1>3. \A k \in 1..b : k \in 1..Len(d)
  BY <1>2
<1>4. \A k \in 1..b : Arrives(AdmittedZones(d, setup), Base(d), k, p, dir) <=>
                      Arrives(AdmittedZones(e, setup), Base(e), k, p, dir)
  BY <1>1, <1>3, ArrivesStays
<1>5. ASSUME NEW k \in 1..b, k \in TakenUp(d, AdmittedZones(d, setup), Base(d), 0, p, dir)
      PROVE  Resolution(d, Base(d), 0, k, dir).until = Resolution(e, Base(e), 0, k, dir).until
  <2>1. k <= b /\ k \in Upcoming(d, setup, p, dir) /\ k \in 1..Len(d)
    BY <1>2, <1>3, <1>5 DEF Upcoming
  <2>2. Found(e, k, dir) = Found(d, k, dir)
    BY <2>1, SettledStays
  <2> QED
    BY <2>2 DEF Found
<1> DEFINE zd == AdmittedZones(d, setup)
           ze == AdmittedZones(e, setup)
           tb == Base(d)
           tc == Base(e)
<1>6. /\ b \in Nat /\ b <= Len(tb) /\ b <= Len(tc) /\ Framed(d, tb) /\ Framed(e, tc)
      /\ \A k \in 1..b : Arrives(zd, tb, k, p, dir) <=> Arrives(ze, tc, k, p, dir)
      /\ \A k \in 1..b : k \in TakenUp(d, zd, tb, 0, p, dir) =>
                              Resolution(d, tb, 0, k, dir).until = Resolution(e, tc, 0, k, dir).until
  BY <1>2, <1>4, <1>5
<1>7. /\ \A k : k \in Upcoming(d, setup, p, dir) <=> k \in TakenUp(d, zd, tb, 0, p, dir)
      /\ \A k : k \in Upcoming(e, setup, p, dir) <=> k \in TakenUp(e, ze, tc, 0, p, dir)
      /\ Until(d, setup, p, dir) = ActiveUntil(d, zd, tb, 0, p, dir)
      /\ Until(e, setup, p, dir) = ActiveUntil(e, ze, tc, 0, p, dir)
  BY DEF Upcoming, Until
<1> HIDE DEF zd, ze, tb, tc
<1>8. /\ \A k \in 0..b : ActiveUntil(d, zd, tb, 0, p, dir)[k] = ActiveUntil(e, ze, tc, 0, p, dir)[k]
      /\ \A k \in 1..b : k \in TakenUp(d, zd, tb, 0, p, dir) <=> k \in TakenUp(e, ze, tc, 0, p, dir)
  <2>1. 0 \in Nat
    OBVIOUS
  <2> QED
    BY <1>6, <2>1, ActiveAgrees, Z3
<1> QED
  BY <1>7, <1>8

\* Once the waiting arrival is settled nothing after it has been taken up.
LEMMA NothingAfter ==
    ASSUME NEW d, Data(d), NEW setup, NEW p, NEW dir, NEW a \in Upcoming(d, setup, p, dir),
           Found(d, a, dir).until = Len(d)
    PROVE  \A k \in Upcoming(d, setup, p, dir) : k <= a
<1>1. Len(d) \in Nat /\ a \in 1..Len(d)
  BY UpcomingIs DEF Data
<1> SUFFICES ASSUME NEW k \in Upcoming(d, setup, p, dir), ~(k <= a) PROVE FALSE
  OBVIOUS
<1>2. k \in 1..Len(d) /\ k > Until(d, setup, p, dir)[k - 1]
  BY UpcomingIs
<1>3. k - 1 \in a..Len(d) /\ k - 1 \in 0..Len(d)
  BY <1>1, <1>2
<1>4. Found(d, a, dir).until <= Until(d, setup, p, dir)[k - 1]
  BY <1>3, UpcomingIs DEF Found
<1>5. Until(d, setup, p, dir)[k - 1] \in 0..Len(d)
  BY <1>3, BaseUntil
<1> QED
  BY <1>1, <1>2, <1>4, <1>5

\* No arrival can be found to have turned on the last bar and been filled.
LEMMA NoFillYet ==
    ASSUME NEW d, Data(d), Len(d) > 0, NEW dir
    PROVE  Fill(d, Base(d), 0, Len(d), dir) = 0
<1>1. Len(d) \in Nat /\ Len(d) \in 1..Len(d) /\ Framed(d, Base(d)) /\ Len(Base(d)) = Len(d)
  <2>1. Len(d) \in Nat
    BY DEF Data
  <2> QED
    BY <2>1, BaseIs
<1>2. Watched(d, Base(d), 0, Len(d)) = {}
  <2>1. Len(d) \in Int /\ Len(d) + MaxWait \in Int
    BY <1>1, MaxWaitAssumption
  <2>2. Min({Len(d), Len(d) + MaxWait}) = Len(d)
    <3>1. Len(d) <= Len(d) + MaxWait
      BY <1>1, MaxWaitAssumption
    <3> QED
      BY <2>1, <3>1, OfTwo
  <2> QED
    BY <1>1, <2>2 DEF Watched
<1>3. Retraces(d, Base(d), 0, Len(d), dir) = {}
  BY <1>2 DEF Retraces
<1> QED
  BY <1>3 DEF Fill, First

\* A waiting set-up and one more bar.
LEMMA StillInside ==
    ASSUME NEW d, NEW e, Data(d), Data(e), Len(e) = Len(d) + 1, SameUpto(d, e, Len(d)),
           NEW a \in 1..Len(d), Out(Base(d), a) = 0
    PROVE  Out(Base(e), a) = IF Inside(e[Len(e)], e[a]) THEN 0 ELSE Len(e)
<1> DEFINE n == Len(d)
           m == Len(e)
<1>1. n \in Nat /\ m = n + 1 /\ Len(Base(d)) = n /\ Len(Base(e)) = m /\ a \in 1..m /\ m \in 1..m /\ m \in a + 1..m
  <2>1. n \in Nat /\ Len(Base(d)) = n /\ Len(Base(e)) = m
    BY BaseIs DEF Data
  <2> QED
    BY <2>1
<1>2. \A j \in 1..n : d[j] = e[j]
  BY DEF SameUpto
<1>3. \A j \in a + 1..n : Inside(Base(d)[j], Base(d)[a])
  <2>1. Len(Base(d)) \in Nat /\ a \in Nat
    BY <1>1
  <2> QED
    BY <1>1, <2>1, OutIs
<1>4. ASSUME NEW j \in a + 1..n PROVE Inside(Base(e)[j], Base(e)[a])
  <2>1. j \in 1..n /\ j \in 1..m /\ a \in 1..m
    BY <1>1
  <2>2. Inside(d[j], d[a])
    BY <1>3, <2>1, BaseAgrees
  <2>3. Inside(e[j], e[a])
    BY <1>2, <2>1, <2>2
  <2> QED
    BY <2>1, <2>3, BaseAgrees
<1>5. Inside(Base(e)[m], Base(e)[a]) <=> Inside(e[m], e[a])
  BY <1>1, BaseAgrees
<1> HIDE DEF n, m
<1>6. CASE Inside(e[m], e[a])
  <2>1. \A j \in a + 1..m : j \in a + 1..n \/ j = m
    BY <1>1
  <2>2. \A j \in a + 1..Len(Base(e)) : Inside(Base(e)[j], Base(e)[a])
    BY <1>1, <1>4, <1>5, <1>6, <2>1
  <2>3. Len(Base(e)) \in Nat /\ a \in Nat
    BY <1>1
  <2>4. Out(Base(e), a) = 0
    BY <2>2, <2>3, OutIs
  <2> QED
    BY <1>6, <2>4 DEF m
<1>7. CASE ~Inside(e[m], e[a])
  <2>1. Len(Base(e)) \in Nat /\ a \in Nat /\ m \in a + 1..Len(Base(e))
    BY <1>1
  <2>2. \A j \in a + 1..m - 1 : Inside(Base(e)[j], Base(e)[a])
    BY <1>1, <1>4
  <2>3. ~Inside(Base(e)[m], Base(e)[a])
    BY <1>5, <1>7
  <2>4. Out(Base(e), a) = m
    BY <2>1, <2>2, <2>3, OutFound
  <2> QED
    BY <1>7, <2>4 DEF m
<1> QED
  BY <1>6, <1>7

LEMMA StepIdle ==
    ASSUME NEW d, NEW e, Data(d), Data(e), Len(e) = Len(d) + 1, SameUpto(d, e, Len(d)),
           NEW setup, NEW p, NEW dir, NEW w, Follows(d, setup, p, dir, w), w.phase = "idle",
           NEW v, v = IF Arrives(AdmittedZones(e, setup), Base(e), Len(e), p, dir)
                      THEN [phase |-> "inside", arrival |-> Len(e)] ELSE Idle
    PROVE  Follows(e, setup, p, dir, v) /\ Entries(e, setup, p, dir, v) = Entries(d, setup, p, dir, w)
<1> DEFINE n == Len(d)
           m == Len(e)
           T == Upcoming(d, setup, p, dir)
           U == Upcoming(e, setup, p, dir)
<1>1. n \in Nat /\ m = n + 1
  BY DEF Data
<1>2. \A k \in T : Settled(d, k, dir)
  BY DEF Follows
<1>3. T \subseteq 1..n /\ U \subseteq 1..m
  BY UpcomingIs
<1>4. /\ \A k \in 1..n : k \in U <=> k \in T
      /\ Until(e, setup, p, dir)[n] \in 0..n
  <2>1. n \in 0..n
    BY <1>1
  <2>2. /\ \A k \in 0..n : Until(e, setup, p, dir)[k] = Until(d, setup, p, dir)[k]
        /\ \A k \in 1..n : k \in U <=> k \in T
    BY <1>2, <2>1, UpcomingStays
  <2> QED
    BY <2>1, <2>2, BaseUntil
<1>5. m \in U <=> Arrives(AdmittedZones(e, setup), Base(e), m, p, dir)
  <2>1. m \in 1..Len(e) /\ m - 1 = n /\ m > Until(e, setup, p, dir)[n]
    BY <1>1, <1>4
  <2> QED
    BY <2>1, UpcomingIs
<1>6. \A k \in T : k \in 1..n /\ Settled(e, k, dir) /\ Found(e, k, dir) = Found(d, k, dir)
  BY <1>2, <1>3, SettledStays
<1>7. Seen0(d, setup, p, dir, w) = T
  BY DEF Seen0
<1>8. Seen0(e, setup, p, dir, v) = T
  <2>1. CASE m \in U
    <3>1. v.phase # "idle" /\ v.arrival = m
      BY <1>5, <2>1
    <3>2. {k \in U : k < m} = T
      BY <1>1, <1>3, <1>4
    <3> QED
      BY <3>1, <3>2 DEF Seen0
  <2>2. CASE m \notin U
    <3>1. v.phase = "idle"
      BY <1>5, <2>2 DEF Idle
    <3>2. U = T
      <4>1. \A k \in 1..m : k \in 1..n \/ k = m
        BY <1>1
      <4>2. U \subseteq 1..n
        BY <1>3, <2>2, <4>1
      <4> QED
        BY <1>3, <1>4, <4>2
    <3> QED
      BY <3>1, <3>2 DEF Seen0
  <2> QED
    BY <2>1, <2>2
<1> HIDE DEF T, U
<1>9. Entries(e, setup, p, dir, v) = Entries(d, setup, p, dir, w)
  BY <1>6, <1>7, <1>8 DEF Entries
<1>10. Follows(e, setup, p, dir, v)
  <2>1. CASE m \in U
    <3>1. v.phase = "inside" /\ v.arrival = m
      BY <1>5, <2>1
    <3>2. \A k \in U : k < m => Settled(e, k, dir)
      BY <1>1, <1>3, <1>4, <1>6
    <3>3. Out(Base(e), m) = 0
      <4>1. Len(Base(e)) = m /\ m \in Nat /\ m + 1..m = {}
        BY <1>1, BaseIs
      <4>2. \A j \in m + 1..Len(Base(e)) : Inside(Base(e)[j], Base(e)[m])
        BY <4>1
      <4> QED
        BY <4>1, <4>2, OutIs
    <3> QED
      BY <2>1, <3>1, <3>2, <3>3 DEF Follows, U
  <2>2. CASE m \notin U
    <3>1. v = Idle
      BY <1>5, <2>2
    <3>2. \A k \in U : Settled(e, k, dir)
      BY <1>1, <1>3, <1>4, <1>6, <2>2
    <3> QED
      BY <3>1, <3>2 DEF Follows, U, Idle
  <2> QED
    BY <2>1, <2>2
<1> QED
  BY <1>9, <1>10

LEMMA StepWaiting ==
    ASSUME NEW d, NEW e, Data(d), Data(e), Len(e) = Len(d) + 1, SameUpto(d, e, Len(d)),
           NEW setup, NEW p, NEW dir, NEW w, Follows(d, setup, p, dir, w), w.phase # "idle"
    PROVE  /\ w.arrival \in Upcoming(e, setup, p, dir) /\ w.arrival \in 1..Len(d)
           /\ \A k \in Upcoming(e, setup, p, dir) : k < w.arrival => Settled(e, k, dir)
           /\ \A v : v.phase # "idle" /\ v.arrival = w.arrival =>
                 Entries(e, setup, p, dir, v) = Entries(d, setup, p, dir, w)
           /\ Settled(e, w.arrival, dir) /\ Found(e, w.arrival, dir).until = Len(e) =>
                 /\ Follows(e, setup, p, dir, Idle)
                 /\ Entries(e, setup, p, dir, Idle) =
                       Entries(d, setup, p, dir, w) \cup
                          IF Found(e, w.arrival, dir).entry # 0
                          THEN {[level |-> p, direction |-> dir, arrival |-> w.arrival,
                                 entry |-> Found(e, w.arrival, dir).entry]} ELSE {}
<1> DEFINE n == Len(d)
           m == Len(e)
           a == w.arrival
           T == Upcoming(d, setup, p, dir)
           U == Upcoming(e, setup, p, dir)
<1>1. n \in Nat /\ m = n + 1
  BY DEF Data
<1>2. a \in T /\ \A k \in T : k < a => Settled(d, k, dir)
  BY DEF Follows
<1>3. T \subseteq 1..n /\ U \subseteq 1..m /\ a \in 1..n /\ a \in 1..m
  <2>1. T \subseteq 1..n /\ U \subseteq 1..m
    BY UpcomingIs
  <2> QED
    BY <1>1, <1>2, <2>1
<1>4. /\ \A k \in 1..n : k < a => (k \in U <=> k \in T)
      /\ a \in U
  <2>1. a - 1 \in 0..n
    BY <1>1, <1>3
  <2>2. \A k \in T : k <= a - 1 => Settled(d, k, dir)
    BY <1>2, <1>3
  <2> HIDE DEF a
  <2>3. /\ \A k \in 0..a - 1 : Until(e, setup, p, dir)[k] = Until(d, setup, p, dir)[k]
        /\ \A k \in 1..a - 1 : k \in U <=> k \in T
    BY <2>1, <2>2, UpcomingStays
  <2>4. Until(e, setup, p, dir)[a - 1] = Until(d, setup, p, dir)[a - 1]
    <3>1. a - 1 \in 0..a - 1
      BY <1>3
    <3> QED
      BY <2>3, <3>1
  <2>5. a > Until(d, setup, p, dir)[a - 1] /\ Arrives(AdmittedZones(d, setup), Base(d), a, p, dir)
    BY <1>2, UpcomingIs
  <2>6. Arrives(AdmittedZones(e, setup), Base(e), a, p, dir)
    BY <1>3, <2>5, BaseGrows, ArrivesStays
  <2>7. a \in U
    BY <1>3, <2>4, <2>5, <2>6, UpcomingIs
  <2> QED
    BY <1>3, <2>3, <2>7
<1>5. \A k \in T : k < a => Settled(e, k, dir) /\ Found(e, k, dir) = Found(d, k, dir)
  BY <1>2, <1>3, SettledStays
<1>6. {k \in U : k < a} = {k \in T : k < a}
  BY <1>1, <1>3, <1>4
<1>7. Seen0(d, setup, p, dir, w) = {k \in T : k < a}
  BY DEF Seen0
<1>8. Entries(d, setup, p, dir, w) =
         {[level |-> p, direction |-> dir, arrival |-> k, entry |-> Found(e, k, dir).entry] :
             k \in {x \in {y \in T : y < a} : Found(e, x, dir).entry # 0}}
  <2> DEFINE S == {k \in T : k < a}
  <2>1. \A k \in S : Found(e, k, dir) = Found(d, k, dir)
    BY <1>5
  <2>2. Seen0(d, setup, p, dir, w) = S
    BY <1>7
  <2> HIDE DEF S
  <2>3. Entries(d, setup, p, dir, w) =
          {[level |-> p, direction |-> dir, arrival |-> k, entry |-> Found(e, k, dir).entry] :
             k \in {x \in S : Found(e, x, dir).entry # 0}}
    BY <2>1, <2>2 DEF Entries
  <2> QED
    BY <2>3 DEF S
<1>9. ASSUME NEW v, v.phase # "idle", v.arrival = a
      PROVE  Entries(e, setup, p, dir, v) = Entries(d, setup, p, dir, w)
  <2>1. Seen0(e, setup, p, dir, v) = {k \in T : k < a}
    BY <1>6, <1>9 DEF Seen0
  <2> QED
    BY <1>8, <2>1 DEF Entries
<1>10. \A k \in U : k < a => Settled(e, k, dir)
  BY <1>5, <1>6
<1>11. ASSUME Settled(e, a, dir), Found(e, a, dir).until = m
       PROVE  /\ Follows(e, setup, p, dir, Idle)
              /\ Entries(e, setup, p, dir, Idle) =
                    Entries(d, setup, p, dir, w) \cup
                       IF Found(e, a, dir).entry # 0
                       THEN {[level |-> p, direction |-> dir, arrival |-> a,
                              entry |-> Found(e, a, dir).entry]} ELSE {}
  <2> HIDE DEF a
  <2>1. \A k \in U : k <= a
    BY <1>4, <1>11, NothingAfter
  <2>2. U = {k \in T : k < a} \cup {a}
    BY <1>3, <1>4, <1>6, <2>1
  <2>3. \A k \in U : Settled(e, k, dir)
    BY <1>5, <1>11, <2>2
  <2>4. Idle.phase = "idle"
    BY DEF Idle
  <2>5. Follows(e, setup, p, dir, Idle)
    BY <2>3, <2>4 DEF Follows
  <2>6. Seen0(e, setup, p, dir, Idle) = {k \in T : k < a} \cup {a}
    BY <2>2, <2>4 DEF Seen0
  <2> DEFINE S == {k \in T : k < a}
             F(k) == Found(e, k, dir)
             R(k) == [level |-> p, direction |-> dir, arrival |-> k, entry |-> F(k).entry]
  <2>7. Entries(e, setup, p, dir, Idle) = {R(k) : k \in {x \in S \cup {a} : F(x).entry # 0}}
    BY <2>6 DEF Entries
  <2>8. Entries(d, setup, p, dir, w) = {R(k) : k \in {x \in S : F(x).entry # 0}}
    BY <1>8
  <2> HIDE DEF S, F, R
  <2>9. {R(k) : k \in {x \in S \cup {a} : F(x).entry # 0}} =
          {R(k) : k \in {x \in S : F(x).entry # 0}} \cup IF F(a).entry # 0 THEN {R(a)} ELSE {}
    OBVIOUS
  <2>10. F(a) = Found(e, a, dir) /\ R(a) = [level |-> p, direction |-> dir, arrival |-> a, entry |-> F(a).entry]
    BY DEF F, R
  <2> QED
    BY <2>5, <2>7, <2>8, <2>9, <2>10
<1> QED
  BY <1>3, <1>4, <1>9, <1>10, <1>11

\* What the trader may act on is what the program admits on that bar.
LEMMA OfferedIs ==
    ASSUME NEW d, NEW n \in Nat \ {0}, feed.setup.naked \in {"off", "any", "all"}
    PROVE  Offered(d, n) = ZonesAt(d, n, feed.setup)
<1>1. \A l : Untouched(d, n, l) => l \in DOMAIN d[n].levels
  <2> SUFFICES ASSUME NEW l, Untouched(d, n, l) PROVE l \in DOMAIN d[n].levels
    OBVIOUS
  <2>1. PICK f \in 1..n : \A i \in f..n : Holds(d, n, l, i)
    BY UntouchedIs
  <2>2. n \in f..n
    OBVIOUS
  <2> QED
    BY <2>1, <2>2 DEF Holds
<1>2. ASSUME NEW z
      PROVE  NakedEnough(z, {l \in DOMAIN z.levels : Untouched(d, n, l)}, feed.setup.naked) <=>
             NakedEnough(z, UntouchedAt(d, n), feed.setup.naked)
  <2>1. UntouchedAt(d, n) = {l \in DOMAIN d[n].levels : Untouched(d, n, l)}
    BY DEF UntouchedAt
  <2>2. DOMAIN z.levels \cap {l \in DOMAIN z.levels : Untouched(d, n, l)} = DOMAIN z.levels \cap UntouchedAt(d, n)
    BY <1>1, <2>1
  <2>3. DOMAIN z.levels \subseteq {l \in DOMAIN z.levels : Untouched(d, n, l)} <=> DOMAIN z.levels \subseteq UntouchedAt(d, n)
    BY <1>1, <2>1
  <2> QED
    BY <2>2, <2>3 DEF NakedEnough
<1> QED
  BY <1>2 DEF Offered, ZonesAt

\* One bar more, for the trader on one level in one direction: Seen and Enters keep up
\* with the scan.
LEMMA TradeStep ==
    ASSUME NEW d, NEW e, Data(d), Data(e), Len(e) = Len(d) + 1, SameUpto(d, e, Len(d)),
           feed.setup.naked \in {"off", "any", "all"},
           NEW p, NEW dir, NEW w, Follows(d, feed.setup, p, dir, w)
    PROVE  LET v == Seen(e, Len(e), <<p, dir>>, w) IN
           /\ Follows(e, feed.setup, p, dir, v)
           /\ Entries(e, feed.setup, p, dir, v) =
                 Entries(d, feed.setup, p, dir, w) \cup
                    IF Enters(e, Len(e), <<p, dir>>, w) THEN {Entry(<<p, dir>>, Len(e), w)} ELSE {}
<1> DEFINE n == Len(d)
           m == Len(e)
           v == Seen(e, m, <<p, dir>>, w)
           setup == feed.setup
           enters == Enters(e, m, <<p, dir>>, w)
<1>1. n \in Nat /\ m = n + 1 /\ m \in Nat \ {0} /\ m \in 1..m /\ m > 0
  BY DEF Data
<1>2. w.phase \in {"idle", "inside", "retrace"}
  BY DEF Follows
<1>3. enters <=> w.phase = "retrace" /\ Reaches(e[m], TriggerPrice(e[w.reversal], dir), dir)
  BY DEF Enters
<1>4. CASE w.phase = "idle"
  <2>1. v = IF p \in CandidatePrices(Offered(e, m)) /\ ArrivesAt(e[m], p, dir)
            THEN [phase |-> "inside", arrival |-> m] ELSE Idle
    BY <1>4 DEF Seen
  <2>2. Arrives(AdmittedZones(e, setup), Base(e), m, p, dir) <=>
           p \in CandidatePrices(Offered(e, m)) /\ ArrivesAt(e[m], p, dir)
    BY <1>1, OfferedIs, BaseArrives
  <2> HIDE DEF v, enters, setup
  <2>3. v = IF Arrives(AdmittedZones(e, setup), Base(e), m, p, dir)
            THEN [phase |-> "inside", arrival |-> m] ELSE Idle
    BY <2>1, <2>2
  <2>4. Follows(d, setup, p, dir, w)
    BY DEF setup
  <2>5. Follows(e, setup, p, dir, v) /\ Entries(e, setup, p, dir, v) = Entries(d, setup, p, dir, w)
    BY <1>4, <2>3, <2>4, StepIdle
  <2>6. ~enters
    BY <1>3, <1>4
  <2> QED
    BY <2>5, <2>6 DEF v, setup, enters
<1> DEFINE a == w.arrival
<1>5. ASSUME w.phase # "idle"
      PROVE  /\ a \in Upcoming(e, setup, p, dir) /\ a \in 1..n /\ a \in 1..m
             /\ \A k \in Upcoming(e, setup, p, dir) : k < a => Settled(e, k, dir)
             /\ \A u : u.phase # "idle" /\ u.arrival = a =>
                   Entries(e, setup, p, dir, u) = Entries(d, setup, p, dir, w)
             /\ Settled(e, a, dir) /\ Found(e, a, dir).until = m =>
                   /\ Follows(e, setup, p, dir, Idle)
                   /\ Entries(e, setup, p, dir, Idle) =
                         Entries(d, setup, p, dir, w) \cup
                            IF Found(e, a, dir).entry # 0
                            THEN {[level |-> p, direction |-> dir, arrival |-> a,
                                   entry |-> Found(e, a, dir).entry]} ELSE {}
  <2> HIDE DEF setup
  <2>1. Follows(d, setup, p, dir, w)
    BY DEF setup
  <2>2. a \in 1..n
    BY <1>5, <2>1, StepWaiting
  <2>3. a \in 1..m
    BY <1>1, <2>2
  <2> QED
    BY <1>5, <2>1, <2>2, <2>3, StepWaiting
<1>6. MaxWait \in Nat
  BY MaxWaitAssumption
<1>7. CASE w.phase = "inside"
  <2>1. Out(Base(d), a) = 0
    BY <1>7 DEF Follows
  <2>2. Out(Base(e), a) = IF Inside(e[m], e[a]) THEN 0 ELSE m
    BY <1>5, <1>7, <2>1, StillInside
  <2>3. v = IF Inside(e[m], e[a]) THEN w
            ELSE IF Turns(e[m], e[a], dir) /\ ~(m >= m + MaxWait)
                 THEN [phase |-> "retrace", arrival |-> a, reversal |-> m] ELSE Idle
    BY <1>7 DEF Seen
  <2>4. ~enters
    BY <1>3, <1>7
  <2>5. Fill(e, Base(e), 0, m, dir) = 0
    BY <1>1, NoFillYet
  <2> HIDE DEF v, enters, setup, a
  <2>6. CASE Inside(e[m], e[a])
    <3>1. v = w /\ v.phase = "inside" /\ v.arrival = a
      BY <1>7, <2>3, <2>6 DEF a
    <3>2. Follows(e, setup, p, dir, v)
      BY <1>5, <1>7, <2>2, <2>6, <3>1 DEF Follows
    <3>3. Entries(e, setup, p, dir, v) = Entries(d, setup, p, dir, w)
      BY <1>5, <1>7, <3>1
    <3> QED
      BY <2>4, <3>2, <3>3 DEF v, setup, enters
  <2>7. CASE ~Inside(e[m], e[a]) /\ Turns(e[m], e[a], dir) /\ ~(m >= m + MaxWait)
    <3>1. v.phase = "retrace" /\ v.arrival = a /\ v.reversal = m
      BY <2>3, <2>7
    <3>2. m < m + MaxWait /\ m # 0
      BY <1>1, <1>6, <2>7
    <3>3. Follows(e, setup, p, dir, v)
      BY <1>5, <1>7, <2>2, <2>5, <2>7, <3>1, <3>2 DEF Follows
    <3>4. Entries(e, setup, p, dir, v) = Entries(d, setup, p, dir, w)
      BY <1>5, <1>7, <3>1
    <3> QED
      BY <2>4, <3>3, <3>4 DEF v, setup, enters
  <2>8. CASE ~Inside(e[m], e[a]) /\ ~(Turns(e[m], e[a], dir) /\ ~(m >= m + MaxWait))
    <3>1. v = Idle
      BY <2>3, <2>8
    <3>2. Out(Base(e), a) = m /\ m # 0
      BY <1>1, <2>2, <2>8
    <3>3. Turns(e[m], e[a], dir) => m + MaxWait <= m
      BY <1>1, <1>6, <2>8
    <3>4. Settled(e, a, dir)
      BY <3>2, <3>3 DEF Settled, Done
    <3>5. a \in 1..Len(e)
      BY <1>5, <1>7
    <3>6. Found(e, a, dir).until = m /\ Found(e, a, dir).entry = 0
      <4>1. CASE ~Turns(e[m], e[a], dir)
        <5>1. Found(e, a, dir) = [reversal |-> 0, entry |-> 0, until |-> m]
          BY <3>2, <3>5, <4>1, BaseResolution DEF Found
        <5> QED
          BY <5>1
      <4>2. CASE Turns(e[m], e[a], dir)
        <5>1. Found(e, a, dir) = [reversal |-> m, entry |-> Fill(e, Base(e), 0, m, dir),
                                  until |-> Silence(e, Base(e), 0, m, dir)]
          BY <3>2, <3>5, <4>2, BaseResolution DEF Found
        <5>2. /\ Silence(e, Base(e), 0, m, dir) \in Nat
              /\ m <= Silence(e, Base(e), 0, m, dir) /\ Silence(e, Base(e), 0, m, dir) <= m
          BY <1>1, BaseSilence
        <5>3. Silence(e, Base(e), 0, m, dir) = m
          BY <1>1, <5>2
        <5> QED
          BY <2>5, <5>1, <5>3
      <4> QED
        BY <4>1, <4>2
    <3>7. Follows(e, setup, p, dir, Idle) /\ Entries(e, setup, p, dir, Idle) = Entries(d, setup, p, dir, w)
      BY <1>5, <1>7, <3>4, <3>6
    <3> QED
      BY <2>4, <3>1, <3>7 DEF v, setup, enters
  <2> QED
    BY <2>6, <2>7, <2>8
<1>8. CASE w.phase = "retrace"
  <2> DEFINE r == w.reversal
             reaches == Reaches(e[m], TriggerPrice(e[r], dir), dir)
  <2>1. r = Out(Base(d), a) /\ r # 0 /\ Turns(d[r], d[a], dir) /\ Fill(d, Base(d), 0, r, dir) = 0 /\ n < r + MaxWait
    BY <1>8 DEF Follows
  <2>2. v = IF reaches \/ m >= r + MaxWait THEN Idle ELSE w
    BY <1>8 DEF Seen
  <2>3. enters <=> reaches
    BY <1>3, <1>8
  <2> HIDE DEF v, enters, setup, a, r, reaches
  <2>4. r \in 1..n
    <3>1. Out(Base(d), a) \in Nat /\ Out(Base(d), a) <= n
      BY <1>5, <1>8, BaseResolution
    <3> QED
      BY <1>1, <2>1, <3>1
  <2>5. Grows(d, Base(d), e, Base(e), 0, n)
    BY BaseGrows
  <2>6. Out(Base(e), a) = r
    BY <1>5, <1>8, <2>1, <2>4, <2>5, OutStays
  <2>7. r \in 1..m /\ e[r] = d[r] /\ e[a] = d[a]
    BY <1>1, <1>5, <1>8, <2>4 DEF SameUpto
  <2>8. Turns(e[r], e[a], dir)
    BY <2>1, <2>7
  <2>9. m \in Retraces(e, Base(e), 0, r, dir) <=> reaches
    <3>1. r \in Int /\ m \in Int /\ r + MaxWait \in Int /\ m <= r + MaxWait
      BY <1>1, <1>6, <2>1, <2>4
    <3>2. Min({m, r + MaxWait}) = m
      BY <3>1, OfTwo
    <3>3. m \in r + 1..m
      BY <1>1, <2>4
    <3>4. m \in Watched(e, Base(e), 0, r)
      BY <3>2, <3>3 DEF Watched
    <3>5. TriggerPrice(Base(e)[r], dir) = TriggerPrice(e[r], dir)
      BY <2>7, BaseAgrees
    <3> QED
      BY <3>4, <3>5 DEF Retraces, reaches
  <2>10. Fill(e, Base(e), 0, r, dir) = IF reaches THEN m ELSE 0
    BY <2>1, <2>4, <2>5, <2>9, FillGrows
  <2>11. Found(e, a, dir) = [reversal |-> r, entry |-> Fill(e, Base(e), 0, r, dir),
                             until |-> Silence(e, Base(e), 0, r, dir)]
    BY <1>5, <1>8, <2>1, <2>6, <2>8, BaseResolution DEF Found
  <2>12. CASE reaches \/ m >= r + MaxWait
    <3>1. v = Idle
      BY <2>2, <2>12
    <3>2. Silence(e, Base(e), 0, r, dir) = m
      <4>1. Len(Base(e)) = m
        BY BaseIs
      <4>2. CASE reaches
        BY <1>1, <2>10, <4>1, <4>2 DEF Silence
      <4>3. CASE ~reaches
        <5>1. r + MaxWait = m
          BY <1>1, <1>6, <2>1, <2>4, <2>12, <4>3
        <5> QED
          BY <1>1, <2>10, <4>1, <4>3, <5>1 DEF Silence
      <4> QED
        BY <4>2, <4>3
    <3>3. Settled(e, a, dir)
      <4>1. Done(e, Base(e), 0, r, dir)
        BY <1>1, <1>6, <2>4, <2>10, <2>12 DEF Done
      <4> QED
        BY <2>1, <2>6, <4>1 DEF Settled
    <3>4. Found(e, a, dir).until = m /\ Found(e, a, dir).entry = IF reaches THEN m ELSE 0
      BY <2>10, <2>11, <3>2
    <3>5. Entry(<<p, dir>>, m, w) = [level |-> p, direction |-> dir, arrival |-> a, entry |-> m]
      BY DEF Entry, a
    <3>6. /\ Follows(e, setup, p, dir, Idle)
          /\ Entries(e, setup, p, dir, Idle) =
                Entries(d, setup, p, dir, w) \cup IF reaches THEN {Entry(<<p, dir>>, m, w)} ELSE {}
      <4>1. m # 0
        BY <1>1
      <4> QED
        BY <1>5, <1>8, <3>3, <3>4, <3>5, <4>1
    <3> QED
      BY <2>3, <3>1, <3>6 DEF v, setup, enters
  <2>13. CASE ~(reaches \/ m >= r + MaxWait)
    <3>1. v = w
      BY <2>2, <2>13
    <3>2. m < r + MaxWait
      BY <1>1, <1>6, <2>4, <2>13
    <3>3. Fill(e, Base(e), 0, r, dir) = 0
      BY <2>10, <2>13
    <3>4. Follows(e, setup, p, dir, v)
      BY <1>5, <1>8, <2>1, <2>6, <2>8, <3>1, <3>2, <3>3 DEF Follows, r, a
    <3>5. Entries(e, setup, p, dir, v) = Entries(d, setup, p, dir, w)
      BY <1>5, <1>8, <3>1 DEF a
    <3> QED
      BY <2>3, <2>13, <3>4, <3>5 DEF v, setup, enters
  <2> QED
    BY <2>12, <2>13
<1> QED
  BY <1>2, <1>4, <1>7, <1>8

-----------------------------------------------------------------------------
(* The signals of three candles *)

SetupSignal(d, tb, w, p, dir, k) ==
    LET r == Resolution(d, tb, w, k, dir)
    IN [trigger |-> "3c", direction |-> dir, level |-> p,
        arrival |-> tb[k].last, entry |-> r.entry, time |-> tb[r.reversal].end,
        bar |-> IF r.entry # 0 THEN r.entry ELSE tb[r.reversal].last,
        status |-> IF r.entry # 0 THEN "filled" ELSE "void"]

\* s is the signal of an arrival on trigger bar k that is taken up and turns.
IsSetup(s, d, zones, tb, w, p, dir, k) ==
    /\ dir \in Directions /\ k \in TakenUp(d, zones, tb, w, p, dir)
    /\ Resolution(d, tb, w, k, dir).reversal # 0
    /\ s = SetupSignal(d, tb, w, p, dir, k)

LEMMA SetupsAre ==
    ASSUME NEW d, NEW zones, NEW w
    PROVE  \A s : s \in SetupSignals(d, zones, w) <=>
                     \E p, dir, k : IsSetup(s, d, zones, TriggerBars(d, w), w, p, dir, k)
<1> DEFINE tb == TriggerBars(d, w)
           R(p, dir, k) == [price |-> p, direction |-> dir, arrival |-> k, found |-> Resolution(d, tb, w, k, dir)]
           prices == UNION {Candidates(zones, tb, k) : k \in DOMAIN tb}
           Signal(s, reversal, entry) ==
            [trigger |-> "3c", direction |-> s.direction, level |-> s.price,
             arrival |-> tb[s.arrival].last, entry |-> entry, time |-> reversal.end,
             bar |-> IF entry # 0 THEN entry ELSE reversal.last,
             status |-> IF entry # 0 THEN "filled" ELSE "void"]
           Of(s) == Signal(s, tb[s.found.reversal], s.found.entry)
<1>1. \A s : s \in Setups(d, zones, w) <=>
                \E p \in prices, dir \in Directions : \E k \in TakenUp(d, zones, tb, w, p, dir) :
                   s = R(p, dir, k) /\ Resolution(d, tb, w, k, dir).reversal # 0
  <2> DEFINE On(p, dir) == {R(p, dir, k) : k \in TakenUp(d, zones, tb, w, p, dir)}
  <2>1. Setups(d, zones, w) = {s \in UNION {On(p, dir) : p \in prices, dir \in Directions} : s.found.reversal # 0}
    BY DEF Setups
  <2>2. \A p, dir, k : R(p, dir, k).found = Resolution(d, tb, w, k, dir)
    OBVIOUS
  <2> HIDE DEF tb, R, prices
  <2>3. \A s : s \in UNION {On(p, dir) : p \in prices, dir \in Directions} <=>
                  \E p \in prices, dir \in Directions : \E k \in TakenUp(d, zones, tb, w, p, dir) : s = R(p, dir, k)
    <3> DEFINE S == {On(p, dir) : p \in prices, dir \in Directions}
    <3>1. \A x : x \in S <=> \E p \in prices, dir \in Directions : x = On(p, dir)
      OBVIOUS
    <3>2. \A s, p, dir : s \in On(p, dir) <=> \E k \in TakenUp(d, zones, tb, w, p, dir) : s = R(p, dir, k)
      OBVIOUS
    <3> HIDE DEF On, S
    <3>3. \A s : s \in UNION S <=> \E x \in S : s \in x
      OBVIOUS
    <3>4. \A s : s \in UNION S <=>
                  \E p \in prices, dir \in Directions : \E k \in TakenUp(d, zones, tb, w, p, dir) : s = R(p, dir, k)
      BY <3>1, <3>2, <3>3
    <3> QED
      BY <3>4 DEF S
  <2> HIDE DEF On
  <2> QED
    BY <2>1, <2>2, <2>3
<1>2. \A p, dir : \A k \in TakenUp(d, zones, tb, w, p, dir) : p \in prices
  BY DEF TakenUp, Arrives
<1>3. \A p, dir, k : Of(R(p, dir, k)) = SetupSignal(d, tb, w, p, dir, k)
  BY DEF SetupSignal
<1>4. \A s : s \in SetupSignals(d, zones, w) <=> \E x \in Setups(d, zones, w) : s = Of(x)
  BY DEF SetupSignals
<1> HIDE DEF tb, R, prices, Signal, Of
<1>5. ASSUME NEW s, s \in SetupSignals(d, zones, w)
      PROVE  \E p, dir, k : IsSetup(s, d, zones, tb, w, p, dir, k)
  <2>1. PICK x \in Setups(d, zones, w) : s = Of(x)
    BY <1>4, <1>5
  <2>2. PICK p \in prices, dir \in Directions : \E k \in TakenUp(d, zones, tb, w, p, dir) :
                   x = R(p, dir, k) /\ Resolution(d, tb, w, k, dir).reversal # 0
    BY <1>1, <2>1
  <2>3. PICK k \in TakenUp(d, zones, tb, w, p, dir) :
                   x = R(p, dir, k) /\ Resolution(d, tb, w, k, dir).reversal # 0
    BY <2>2
  <2>4. s = SetupSignal(d, tb, w, p, dir, k)
    BY <1>3, <2>1, <2>3
  <2>5. IsSetup(s, d, zones, tb, w, p, dir, k)
    BY <2>2, <2>3, <2>4 DEF IsSetup
  <2> QED
    BY <2>5
<1>6. ASSUME NEW s, NEW p, NEW dir, NEW k, IsSetup(s, d, zones, tb, w, p, dir, k)
      PROVE  s \in SetupSignals(d, zones, w)
  <2>1. dir \in Directions /\ k \in TakenUp(d, zones, tb, w, p, dir)
        /\ Resolution(d, tb, w, k, dir).reversal # 0 /\ s = SetupSignal(d, tb, w, p, dir, k)
    BY <1>6 DEF IsSetup
  <2>2. p \in prices
    BY <1>2, <2>1
  <2>3. R(p, dir, k) \in Setups(d, zones, w)
    BY <1>1, <2>1, <2>2
  <2>4. s = Of(R(p, dir, k))
    BY <1>3, <2>1
  <2> QED
    BY <1>4, <2>3, <2>4
<1>7. \A s : s \in SetupSignals(d, zones, w) <=> \E p, dir, k : IsSetup(s, d, zones, tb, w, p, dir, k)
  BY <1>5, <1>6
<1> QED
  BY <1>7 DEF tb

SimpleSignal(tb, k, z, t, dir) ==
    [trigger |-> t, direction |-> dir, level |-> z.low, arrival |-> 0,
     bar |-> tb[k].last, entry |-> 0, status |-> "candidate", time |-> tb[k].end]

IsSimple(s, zones, tb, confirm, k, z, t, dir) ==
    /\ k \in DOMAIN tb /\ z \in zones[tb[k].last] /\ t \in SimpleTriggers /\ dir \in Directions
    /\ Fires(tb, k, z, t, dir, confirm)
    /\ s = SimpleSignal(tb, k, z, t, dir)

LEMMA SimplesAre ==
    ASSUME NEW d, NEW zones, NEW w, NEW confirm
    PROVE  \A s : s \in SimpleSignals(d, zones, w, confirm) <=>
                     \E k, z, t, dir : IsSimple(s, zones, TriggerBars(d, w), confirm, k, z, t, dir)
<1> DEFINE tb == TriggerBars(d, w)
           On(k) == {<<k, z, t, dir>> : z \in zones[tb[k].last], t \in SimpleTriggers, dir \in Directions}
           G == UNION {On(k) : k \in DOMAIN tb}
           Of(f) == [trigger |-> f[3], direction |-> f[4], level |-> f[2].low, arrival |-> 0,
                     bar |-> tb[f[1]].last, entry |-> 0, status |-> "candidate", time |-> tb[f[1]].end]
           F(g) == Fires(tb, g[1], g[2], g[3], g[4], confirm)
<1>1. SimpleSignals(d, zones, w, confirm) = {Of(f) : f \in {g \in G : F(g)}}
  BY DEF SimpleSignals
<1>2. \A g : g \in G <=> \E k \in DOMAIN tb : \E z \in zones[tb[k].last], t \in SimpleTriggers, dir \in Directions :
                            g = <<k, z, t, dir>>
  OBVIOUS
<1>3. \A k, z, t, dir : /\ Of(<<k, z, t, dir>>) = SimpleSignal(tb, k, z, t, dir)
                        /\ F(<<k, z, t, dir>>) <=> Fires(tb, k, z, t, dir, confirm)
  BY DEF SimpleSignal
<1> HIDE DEF tb, On, G, Of, F
<1>4. ASSUME NEW s, s \in SimpleSignals(d, zones, w, confirm)
      PROVE  \E k, z, t, dir : IsSimple(s, zones, tb, confirm, k, z, t, dir)
  <2>1. PICK g \in G : F(g) /\ s = Of(g)
    BY <1>1, <1>4
  <2>2. PICK k \in DOMAIN tb : \E z \in zones[tb[k].last], t \in SimpleTriggers, dir \in Directions :
                            g = <<k, z, t, dir>>
    BY <1>2, <2>1
  <2>3. PICK z \in zones[tb[k].last], t \in SimpleTriggers, dir \in Directions : g = <<k, z, t, dir>>
    BY <2>2
  <2>4. IsSimple(s, zones, tb, confirm, k, z, t, dir)
    BY <1>3, <2>1, <2>2, <2>3 DEF IsSimple
  <2> QED
    BY <2>4
<1>5. ASSUME NEW s, NEW k, NEW z, NEW t, NEW dir, IsSimple(s, zones, tb, confirm, k, z, t, dir)
      PROVE  s \in SimpleSignals(d, zones, w, confirm)
  <2>1. <<k, z, t, dir>> \in G
    BY <1>2, <1>5 DEF IsSimple
  <2>2. F(<<k, z, t, dir>>) /\ s = Of(<<k, z, t, dir>>)
    BY <1>3, <1>5 DEF IsSimple
  <2> QED
    BY <1>1, <2>1, <2>2
<1>6. \A s : s \in SimpleSignals(d, zones, w, confirm) <=> \E k, z, t, dir : IsSimple(s, zones, tb, confirm, k, z, t, dir)
  BY <1>4, <1>5
<1> QED
  BY <1>6 DEF tb

LEMMA SignalsAre ==
    ASSUME NEW d, d # << >>, NEW w, NEW setup
    PROVE  LET zones == AdmittedZones(d, setup)
               tb == TriggerBars(d, w)
           IN \A s : s \in Signals(d, w, setup) <=>
                        \/ \E k, z, t, dir : IsSimple(s, zones, tb, setup.confirm, k, z, t, dir)
                        \/ \E p, dir, k : IsSetup(s, d, zones, tb, w, p, dir, k)
<1> DEFINE zones == AdmittedZones(d, setup)
<1>1. Signals(d, w, setup) = SimpleSignals(d, zones, w, setup.confirm) \cup SetupSignals(d, zones, w)
  BY DEF Signals
<1> HIDE DEF zones
<1>2. \A s : s \in Signals(d, w, setup) <=>
                        \/ \E k, z, t, dir : IsSimple(s, zones, TriggerBars(d, w), setup.confirm, k, z, t, dir)
                        \/ \E p, dir, k : IsSetup(s, d, zones, TriggerBars(d, w), w, p, dir, k)
  BY <1>1, SimplesAre, SetupsAre
<1> QED
  BY <1>2 DEF zones

LEMMA SimpleIsNot3c ==
    ASSUME NEW s, NEW zones, NEW tb, NEW confirm, NEW k, NEW z, NEW t, NEW dir,
           IsSimple(s, zones, tb, confirm, k, z, t, dir)
    PROVE  s.trigger # "3c" /\ s.entry = 0 /\ s.bar = tb[k].last /\ s.status = "candidate" /\ s.time = tb[k].end
<1>1. s = SimpleSignal(tb, k, z, t, dir) /\ t \in SimpleTriggers
  BY DEF IsSimple
<1> QED
  BY <1>1 DEF SimpleSignal, SimpleTriggers

-----------------------------------------------------------------------------
(* The inductive invariant *)

Levels == UNION {UNION {{b.levels : b \in f.bars[n]} : n \in DOMAIN f.bars} : f \in Feeds}
Bar    == [slot : Nat, high : Int, low : Int, close : Int, levels : Levels]

\* The data is that of a feed, and the signals are those of the data.
Built ==
    /\ feed \in Feeds
    /\ df \in Seq(Bar) /\ Data(df)
    /\ \A i \in 1..Len(df) : CandidatePrices(DetectZones(df[i].levels, feed.setup)) \subseteq Prices
    /\ signals = Signals(df, feed.trigger_timeframe, feed.setup)
    /\ DOMAIN watch = Keys

\* On the base time frame the trader is on every level where the scan is, and has taken
\* what the scan fills.
Live ==
    feed.trigger_timeframe = 0 =>
       /\ \A key \in Keys : Follows(df, feed.setup, key[1], key[2], watch[key])
       /\ taken = UNION {Entries(df, feed.setup, key[1], key[2], watch[key]) : key \in Keys}

LEMMA FeedIs ==
    ASSUME NEW f \in Feeds
    PROVE  /\ \A n \in DOMAIN f.bars : n \in Nat /\ \A b \in f.bars[n] :
                 /\ b \in [slot : Nat, high : Int, low : Int, close : Int, levels : {b.levels}]
                 /\ CandidatePrices(DetectZones(b.levels, f.setup)) \subseteq Prices
           /\ f.gaps \subseteq Nat \ {0} /\ f.trigger_timeframe \in Nat
           /\ f.setup.naked \in {"off", "any", "all"}
  BY FeedsAssumption DEF IsFeed, IsBar

LEMMA OnMore ==
    ASSUME Built, Next
    PROVE  /\ feed' = feed /\ df' \in Seq(Bar) /\ Data(df')
           /\ Len(df') = Len(df) + 1 /\ SameUpto(df, df', Len(df))
           /\ \A i \in 1..Len(df') : CandidatePrices(DetectZones(df'[i].levels, feed.setup)) \subseteq Prices
           /\ signals' = Signals(df', feed.trigger_timeframe, feed.setup)
           /\ watch' = [key \in Keys |-> Seen(df', Len(df'), key, watch[key])]
           /\ taken' = taken \cup {Entry(key, Len(df'), watch[key]) :
                                      key \in {k \in Keys : Enters(df', Len(df'), k, watch[k])}}
<1>1. PICK slot \in NextSlots \cap DOMAIN feed.bars : \E bar \in feed.bars[slot] : NextBar(slot, bar)
  BY DEF Next
<1>2. PICK bar \in feed.bars[slot] : NextBar(slot, bar)
  BY <1>1
<1>3. feed \in Feeds /\ df \in Seq(Bar) /\ Data(df)
  BY DEF Built
<1>4. /\ slot \in Nat /\ bar \in [slot : Nat, high : Int, low : Int, close : Int, levels : {bar.levels}]
      /\ CandidatePrices(DetectZones(bar.levels, feed.setup)) \subseteq Prices
      /\ feed.gaps \subseteq Nat \ {0}
  BY <1>1, <1>2, <1>3, FeedIs
<1>5. bar.levels \in Levels
  BY <1>1, <1>2, <1>3 DEF Levels
<1> DEFINE new == [bar EXCEPT !.slot = slot]
<1>6. new \in Bar /\ new.slot = slot /\ new.levels = bar.levels
  BY <1>4, <1>5 DEF Bar
<1> HIDE DEF new
<1>7. /\ df' = Append(df, new) /\ feed' = feed
      /\ signals' = Signals(df', feed.trigger_timeframe, feed.setup)
      /\ watch' = [key \in Keys |-> Seen(df', Len(df) + 1, key, watch[key])]
      /\ taken' = taken \cup {Entry(key, Len(df) + 1, watch[key]) :
                                 key \in {k \in Keys : Enters(df', Len(df) + 1, k, watch[k])}}
  BY <1>2 DEF NextBar, new
<1>8. /\ df' \in Seq(Bar) /\ Len(df') = Len(df) + 1 /\ df'[Len(df) + 1] = new
      /\ \A i \in 1..Len(df) : df'[i] = df[i]
      /\ Len(df) \in Nat
  BY <1>3, <1>6, <1>7
<1>9. SameUpto(df, df', Len(df))
  BY <1>8 DEF SameUpto
<1>10. \A i \in 1..Len(df') : i \in 1..Len(df) \/ i = Len(df) + 1
  BY <1>8
<1>11. Data(df')
  <2>1. Len(df') \in Nat /\ DOMAIN df' = 1..Len(df')
    BY <1>8
  <2>2. ASSUME NEW i \in 1..Len(df')
        PROVE  df'[i].slot \in Nat /\ df'[i].high \in Int /\ df'[i].low \in Int /\ df'[i].close \in Int
    <3>1. df'[i] \in Bar
      BY <1>8
    <3> QED
      BY <3>1 DEF Bar
  <2>3. \A i \in 1..Len(df) : df[i].slot < slot
    <3> SUFFICES ASSUME NEW i \in 1..Len(df) PROVE df[i].slot < slot
      OBVIOUS
    <3>1. df # << >>
      BY <1>8
    <3>2. PICK g \in feed.gaps : slot = df[Len(df)].slot + g
      BY <1>1, <3>1 DEF NextSlots
    <3>3. Len(df) \in 1..Len(df) /\ (i = Len(df) \/ i < Len(df))
      BY <1>8
    <3>4. df[i].slot \in Nat /\ df[Len(df)].slot \in Nat /\ (i < Len(df) => df[i].slot < df[Len(df)].slot)
      BY <1>3, <3>3 DEF Data
    <3>5. g \in Nat \ {0}
      BY <1>4, <3>2
    <3> QED
      BY <3>2, <3>3, <3>4, <3>5
  <2>4. ASSUME NEW i \in 1..Len(df'), NEW j \in 1..Len(df'), i < j PROVE df'[i].slot < df'[j].slot
    <3>1. i \in 1..Len(df) /\ df'[i] = df[i]
      BY <1>8, <2>4
    <3>2. CASE j \in 1..Len(df)
      BY <1>3, <1>8, <2>4, <3>1, <3>2 DEF Data
    <3>3. CASE j = Len(df) + 1
      BY <1>6, <1>8, <2>3, <3>1, <3>3
    <3> QED
      BY <1>10, <3>2, <3>3
  <2> QED
    BY <2>1, <2>2, <2>4 DEF Data
<1>12. ASSUME NEW i \in 1..Len(df')
       PROVE  CandidatePrices(DetectZones(df'[i].levels, feed.setup)) \subseteq Prices
  <2>1. CASE i \in 1..Len(df)
    BY <1>8, <2>1 DEF Built
  <2>2. CASE i = Len(df) + 1
    BY <1>4, <1>6, <1>8, <2>2
  <2> QED
    BY <1>10, <2>1, <2>2
<1> QED
  BY <1>7, <1>8, <1>9, <1>11, <1>12

LEMMA BuiltInit == Init => Built
<1> SUFFICES ASSUME Init PROVE Built
  OBVIOUS
<1>1. feed \in Feeds /\ df = << >> /\ signals = {} /\ watch = [key \in Keys |-> Idle]
  BY DEF Init
<1>2. df \in Seq(Bar) /\ Len(df) = 0 /\ DOMAIN df = 1..Len(df) /\ 1..Len(df) = {}
  BY <1>1
<1>3. Data(df)
  BY <1>2 DEF Data
<1>4. signals = Signals(df, feed.trigger_timeframe, feed.setup)
  BY <1>1 DEF Signals
<1>5. \A i \in 1..Len(df) : CandidatePrices(DetectZones(df[i].levels, feed.setup)) \subseteq Prices
  BY <1>2
<1> QED
  BY <1>1, <1>2, <1>3, <1>4, <1>5 DEF Built

LEMMA BuiltStep == Built /\ [Next]_vars => Built'
<1> SUFFICES ASSUME Built, [Next]_vars PROVE Built'
  OBVIOUS
<1>1. CASE Next
  <2>1. feed' \in Feeds /\ feed' = feed
    BY <1>1, OnMore DEF Built
  <2>2. /\ df' \in Seq(Bar) /\ Data(df')
        /\ \A i \in 1..Len(df') : CandidatePrices(DetectZones(df'[i].levels, feed.setup)) \subseteq Prices
        /\ signals' = Signals(df', feed.trigger_timeframe, feed.setup)
        /\ DOMAIN watch' = Keys
    BY <1>1, OnMore
  <2> QED
    BY <2>1, <2>2 DEF Built
<1>2. CASE UNCHANGED vars
  BY <1>2 DEF vars, Built
<1> QED
  BY <1>1, <1>2

LEMMA KeysAre == \A key : key \in Keys <=> \E p \in Prices, dir \in Directions : key = <<p, dir>>
  BY DEF Keys

LEMMA LiveInit == Init => Live
<1> SUFFICES ASSUME Init PROVE Live
  OBVIOUS
<1>1. df = << >> /\ taken = {} /\ watch = [key \in Keys |-> Idle]
  BY DEF Init
<1>2. Built /\ Len(df) = 0
  BY <1>1, BuiltInit
<1>3. ASSUME NEW key \in Keys
      PROVE  /\ Follows(df, feed.setup, key[1], key[2], watch[key])
             /\ Entries(df, feed.setup, key[1], key[2], watch[key]) = {}
  <2>1. watch[key].phase = "idle"
    BY <1>1 DEF Idle
  <2>2. Data(df) /\ 1..Len(df) = {}
    BY <1>2 DEF Built
  <2>3. Upcoming(df, feed.setup, key[1], key[2]) = {}
    BY <2>2, UpcomingIs
  <2>4. Follows(df, feed.setup, key[1], key[2], watch[key])
    BY <2>1, <2>3 DEF Follows
  <2>5. Seen0(df, feed.setup, key[1], key[2], watch[key]) = {}
    BY <2>3 DEF Seen0
  <2> QED
    BY <2>4, <2>5 DEF Entries
<1>4. taken = UNION {Entries(df, feed.setup, key[1], key[2], watch[key]) : key \in Keys}
  <2> DEFINE S == {Entries(df, feed.setup, key[1], key[2], watch[key]) : key \in Keys}
  <2>1. \A x \in S : x = {}
    BY <1>3
  <2> HIDE DEF S
  <2>2. UNION S = {}
    BY <2>1
  <2> QED
    BY <1>1, <2>2 DEF S
<1> QED
  BY <1>3, <1>4 DEF Live

LEMMA LiveStep == Built /\ Live /\ [Next]_vars => Live'
<1> SUFFICES ASSUME Built, Live, [Next]_vars PROVE Live'
  OBVIOUS
<1>1. CASE UNCHANGED vars
  BY <1>1 DEF vars, Live
<1>2. CASE Next
  <2>1. /\ feed' = feed /\ Data(df') /\ Data(df) /\ Len(df') = Len(df) + 1 /\ SameUpto(df, df', Len(df))
        /\ watch' = [key \in Keys |-> Seen(df', Len(df'), key, watch[key])]
        /\ taken' = taken \cup {Entry(key, Len(df'), watch[key]) :
                                   key \in {k \in Keys : Enters(df', Len(df'), k, watch[k])}}
    BY <1>2, OnMore DEF Built
  <2>2. feed.setup.naked \in {"off", "any", "all"}
    BY FeedIs DEF Built
  <2> SUFFICES ASSUME feed.trigger_timeframe = 0
               PROVE  /\ \A key \in Keys : Follows(df', feed.setup, key[1], key[2], watch'[key])
                      /\ taken' = UNION {Entries(df', feed.setup, key[1], key[2], watch'[key]) : key \in Keys}
    BY <2>1 DEF Live
  <2>3. /\ \A key \in Keys : Follows(df, feed.setup, key[1], key[2], watch[key])
        /\ taken = UNION {Entries(df, feed.setup, key[1], key[2], watch[key]) : key \in Keys}
    BY DEF Live
  <2> DEFINE E(key) == Entries(df, feed.setup, key[1], key[2], watch[key])
             F(key) == Entries(df', feed.setup, key[1], key[2], watch'[key])
             enters(key) == Enters(df', Len(df'), key, watch[key])
             entry(key) == Entry(key, Len(df'), watch[key])
  <2>4. ASSUME NEW key \in Keys
        PROVE  /\ Follows(df', feed.setup, key[1], key[2], watch'[key])
               /\ F(key) = E(key) \cup IF enters(key) THEN {entry(key)} ELSE {}
    <3>1. PICK p \in Prices, dir \in Directions : key = <<p, dir>>
      BY KeysAre
    <3>2. watch'[key] = Seen(df', Len(df'), <<p, dir>>, watch[key])
      BY <2>1, <3>1
    <3>3. Follows(df, feed.setup, p, dir, watch[key])
      BY <2>3, <3>1
    <3>4. /\ Follows(df', feed.setup, p, dir, Seen(df', Len(df'), <<p, dir>>, watch[key]))
          /\ Entries(df', feed.setup, p, dir, Seen(df', Len(df'), <<p, dir>>, watch[key])) =
                Entries(df, feed.setup, p, dir, watch[key]) \cup
                   IF Enters(df', Len(df'), <<p, dir>>, watch[key]) THEN {Entry(<<p, dir>>, Len(df'), watch[key])} ELSE {}
      BY <2>1, <2>2, <3>3, TradeStep
    <3>5. key[1] = p /\ key[2] = dir
      BY <3>1
    <3> QED
      BY <3>1, <3>2, <3>4, <3>5
  <2>5. taken = UNION {E(key) : key \in Keys}
    BY <2>3
  <2>6. taken' = taken \cup {entry(key) : key \in {k \in Keys : enters(k)}}
    BY <2>1
  <2>7. \A key \in Keys : F(key) = E(key) \cup IF enters(key) THEN {entry(key)} ELSE {}
    BY <2>4
  <2> HIDE DEF E, F, enters, entry
  <2>8. taken' = UNION {F(key) : key \in Keys}
    <3>1. ASSUME NEW x PROVE x \in taken' <=> \E key \in Keys : x \in F(key)
      BY <2>5, <2>6, <2>7
    <3> QED
      BY <3>1
  <2> QED
    BY <2>4, <2>8 DEF F
<1> QED
  BY <1>1, <1>2

\* The signals filled before the waiting arrival are the entries of those seen.
LEMMA FilledAreEntries ==
    ASSUME NEW d, Data(d), NEW setup, NEW p, NEW dir, NEW w, Follows(d, setup, p, dir, w),
           NEW k \in Upcoming(d, setup, p, dir), Found(d, k, dir).entry # 0
    PROVE  k \in Seen0(d, setup, p, dir, w) <=> ~(w.phase = "inside" /\ k > w.arrival)
<1> DEFINE a == w.arrival
           T == Upcoming(d, setup, p, dir)
<1>1. k \in 1..Len(d) /\ Len(d) \in Nat
  BY UpcomingIs DEF Data
<1>2. w.phase \in {"idle", "inside", "retrace"}
  BY DEF Follows
<1>3. CASE w.phase = "idle"
  BY <1>3 DEF Seen0
<1>4. ASSUME w.phase # "idle" PROVE a \in T /\ a \in 1..Len(d)
  <2>1. a \in T
    BY <1>4 DEF Follows
  <2> QED
    BY <2>1, UpcomingIs
<1>5. CASE w.phase = "inside"
  <2>1. Out(Base(d), a) = 0
    BY <1>5 DEF Follows
  <2>2. Found(d, a, dir).entry = 0
    <3>1. Found(d, a, dir) = [reversal |-> 0, entry |-> 0, until |-> 0]
      BY <1>4, <1>5, <2>1, BaseResolution DEF Found
    <3> QED
      BY <3>1
  <2>3. k # a
    BY <2>2
  <2>4. a \in Int /\ k \in Int
    BY <1>1, <1>4, <1>5
  <2> QED
    BY <1>5, <2>3, <2>4 DEF Seen0
<1>6. CASE w.phase = "retrace"
  <2> DEFINE r == w.reversal
  <2>1. /\ r = Out(Base(d), a) /\ r # 0 /\ Turns(d[r], d[a], dir)
        /\ Fill(d, Base(d), 0, r, dir) = 0 /\ Len(d) < r + MaxWait
    BY <1>6 DEF Follows
  <2> HIDE DEF r
  <2>2. Found(d, a, dir) = [reversal |-> r, entry |-> 0, until |-> Silence(d, Base(d), 0, r, dir)]
    BY <1>4, <1>6, <2>1, BaseResolution DEF Found
  <2>3. Silence(d, Base(d), 0, r, dir) = Len(d)
    <3>1. Len(Base(d)) = Len(d) /\ r \in Nat
      BY <1>4, <1>6, <2>1, BaseIs, BaseResolution
    <3> QED
      BY <1>1, <2>1, <3>1, MaxWaitAssumption DEF Silence
  <2>4. Found(d, a, dir).until = Len(d) /\ Found(d, a, dir).entry = 0
    BY <2>2, <2>3
  <2>5. k <= a
    BY <1>4, <1>6, <2>4, NothingAfter
  <2>6. k # a
    BY <2>4
  <2>7. a \in Int /\ k \in Int
    BY <1>1, <1>4, <1>6
  <2>8. k < a
    BY <2>5, <2>6, <2>7
  <2> QED
    BY <1>6, <2>8 DEF Seen0
<1> QED
  BY <1>2, <1>3, <1>5, <1>6

LEMMA LiveIsBatch == Built /\ Live => BatchIsLive
<1> SUFFICES ASSUME Built, Live, feed.trigger_timeframe = 0
             PROVE  {[level |-> s.level, direction |-> s.direction, arrival |-> s.arrival, entry |-> s.entry] :
                        s \in {x \in signals : x.trigger = "3c" /\ x.status = "filled" /\ ~Provisional(x)}} = taken
  BY DEF BatchIsLive
<1> DEFINE setup == feed.setup
           E(key) == Entries(df, setup, key[1], key[2], watch[key])
           R(s) == [level |-> s.level, direction |-> s.direction, arrival |-> s.arrival, entry |-> s.entry]
           P(x) == x.trigger = "3c" /\ x.status = "filled" /\ ~Provisional(x)
           zones == AdmittedZones(df, setup)
<1>1. /\ Data(df) /\ signals = Signals(df, 0, setup) /\ feed \in Feeds
      /\ \A i \in 1..Len(df) : CandidatePrices(DetectZones(df[i].levels, setup)) \subseteq Prices
  BY DEF Built
<1>2. /\ \A key \in Keys : Follows(df, setup, key[1], key[2], watch[key])
      /\ \A x : x \in taken <=> \E key \in Keys : x \in E(key)
  BY DEF Live
<1>3. ASSUME NEW p, NEW dir \in Directions, NEW k \in Upcoming(df, setup, p, dir)
      PROVE  /\ k \in 1..Len(df) /\ df # << >> /\ Base(df)[k].last = k
             /\ p \in Prices /\ <<p, dir>> \in Keys
  <2>1. k \in 1..Len(df) /\ Arrives(zones, Base(df), k, p, dir)
    BY <1>1, UpcomingIs
  <2>2. p \in CandidatePrices(ZonesAt(df, k, setup))
    BY <1>1, <2>1, BaseArrives
  <2>3. CandidatePrices(ZonesAt(df, k, setup)) \subseteq CandidatePrices(DetectZones(df[k].levels, setup))
    BY DEF CandidatePrices, ZonesAt
  <2>4. p \in Prices
    BY <1>1, <2>1, <2>2, <2>3
  <2>5. Base(df)[k].last = k
    <3> DEFINE b == Base(df)[k]
    <3>1. b = [high |-> df[k].high, low |-> df[k].low, close |-> df[k].close,
               first |-> k, last |-> k, end |-> df[k].slot]
      BY <1>1, <2>1, BaseIs
    <3> HIDE DEF b
    <3>2. b.last = k
      BY <3>1
    <3> QED
      BY <3>2 DEF b
  <2>6. df # << >>
    <3>1. df = << >> => Len(df) = 0
      OBVIOUS
    <3> QED
      BY <2>1, <3>1
  <2> QED
    BY <2>1, <2>4, <2>5, <2>6, KeysAre
<1>4. ASSUME NEW p, NEW dir \in Directions, NEW k \in Upcoming(df, setup, p, dir), Found(df, k, dir).entry # 0
      PROVE  LET s == SetupSignal(df, Base(df), 0, p, dir, k) IN
             /\ s.trigger = "3c" /\ s.status = "filled"
             /\ R(s) = [level |-> p, direction |-> dir, arrival |-> k, entry |-> Found(df, k, dir).entry]
             /\ Provisional(s) <=> watch[<<p, dir>>].phase = "inside" /\ k > watch[<<p, dir>>].arrival
  <2> DEFINE s == SetupSignal(df, Base(df), 0, p, dir, k)
  <2>1. /\ s.trigger = "3c" /\ s.status = "filled" /\ s.level = p /\ s.direction = dir
        /\ s.arrival = k /\ s.entry = Found(df, k, dir).entry
    BY <1>3, <1>4 DEF SetupSignal, Found
  <2> HIDE DEF s
  <2> QED
    BY <2>1 DEF Provisional, s
<1>5. ASSUME NEW p, NEW dir \in Directions, NEW k \in Upcoming(df, setup, p, dir), Found(df, k, dir).entry # 0
      PROVE  /\ <<p, dir>> \in Keys
             /\ k \in Seen0(df, setup, p, dir, watch[<<p, dir>>]) <=>
                   ~(watch[<<p, dir>>].phase = "inside" /\ k > watch[<<p, dir>>].arrival)
  <2>1. <<p, dir>> \in Keys /\ <<p, dir>>[1] = p /\ <<p, dir>>[2] = dir
    BY <1>3
  <2>2. Follows(df, setup, p, dir, watch[<<p, dir>>])
    BY <1>2, <2>1
  <2> HIDE DEF setup
  <2> QED
    BY <1>1, <1>5, <2>1, <2>2, FilledAreEntries
<1>6. ASSUME NEW s \in signals, P(s) PROVE R(s) \in taken
  <2>1. df # << >>
    BY <1>1 DEF Signals
  <2>2. PICK p, dir, k : IsSetup(s, df, zones, Base(df), 0, p, dir, k)
    <3>1. s \in Signals(df, 0, setup)
      BY <1>1
    <3>2. ~\E k, z, t, dir : IsSimple(s, zones, Base(df), setup.confirm, k, z, t, dir)
      BY <1>6, SimpleIsNot3c
    <3> HIDE DEF setup
    <3>3. \/ \E k, z, t, dir : IsSimple(s, zones, Base(df), setup.confirm, k, z, t, dir)
          \/ \E p, dir, k : IsSetup(s, df, zones, Base(df), 0, p, dir, k)
      BY <2>1, <3>1, SignalsAre DEF Base
    <3> QED
      BY <3>2, <3>3
  <2>3. /\ dir \in Directions /\ k \in Upcoming(df, setup, p, dir)
        /\ s = SetupSignal(df, Base(df), 0, p, dir, k)
    BY <2>2 DEF IsSetup, Upcoming
  <2>4. Found(df, k, dir).entry # 0
    <3>1. s.status = "filled"
      BY <1>6
    <3> QED
      BY <2>3, <3>1 DEF SetupSignal, Found
  <2> DEFINE key == <<p, dir>>
  <2>5. ~Provisional(s)
    BY <1>6
  <2> DEFINE q == SetupSignal(df, Base(df), 0, p, dir, k)
  <2>9. /\ R(q) = [level |-> p, direction |-> dir, arrival |-> k, entry |-> Found(df, k, dir).entry]
        /\ Provisional(q) <=> watch[<<p, dir>>].phase = "inside" /\ k > watch[<<p, dir>>].arrival
    BY <1>4, <2>3, <2>4
  <2>10. q = s
    BY <2>3
  <2> HIDE DEF q
  <2>6. key \in Keys /\ key[1] = p /\ key[2] = dir /\ k \in Seen0(df, setup, p, dir, watch[key])
    BY <1>5, <2>3, <2>4, <2>5, <2>9, <2>10
  <2>7. R(s) = [level |-> p, direction |-> dir, arrival |-> k, entry |-> Found(df, k, dir).entry]
    BY <2>9, <2>10
  <2>8. R(s) \in Entries(df, setup, p, dir, watch[key])
    BY <2>4, <2>6, <2>7 DEF Entries
  <2> QED
    BY <1>2, <2>6, <2>8
<1>7. ASSUME NEW x \in taken PROVE \E s \in signals : P(s) /\ x = R(s)
  <2>1. PICK key \in Keys : x \in E(key)
    BY <1>2
  <2>2. PICK p \in Prices, dir \in Directions : key = <<p, dir>>
    BY KeysAre
  <2>3. PICK k \in Seen0(df, setup, p, dir, watch[key]) :
           /\ Found(df, k, dir).entry # 0
           /\ x = [level |-> p, direction |-> dir, arrival |-> k, entry |-> Found(df, k, dir).entry]
    BY <2>1, <2>2 DEF Entries
  <2>4. k \in Upcoming(df, setup, p, dir)
    BY DEF Seen0
  <2> DEFINE s == SetupSignal(df, Base(df), 0, p, dir, k)
  <2>5. ~Provisional(s) /\ s.trigger = "3c" /\ s.status = "filled" /\ R(s) = x
    BY <1>4, <1>5, <2>2, <2>3, <2>4
  <2>6. s \in signals
    <3>1. Found(df, k, dir).reversal # 0
      <4>1. k \in 1..Len(df)
        BY <1>3, <2>4
      <4> DEFINE o == Out(Base(df), k)
      <4>2. /\ o = 0 => Found(df, k, dir) = [reversal |-> 0, entry |-> 0, until |-> 0]
            /\ o # 0 /\ ~Turns(df[o], df[k], dir) => Found(df, k, dir) = [reversal |-> 0, entry |-> 0, until |-> o]
            /\ o # 0 /\ Turns(df[o], df[k], dir) =>
                  Found(df, k, dir) = [reversal |-> o, entry |-> Fill(df, Base(df), 0, o, dir),
                                       until |-> Silence(df, Base(df), 0, o, dir)]
        BY <1>1, <4>1, BaseResolution DEF Found
      <4> HIDE DEF o
      <4> QED
        BY <2>3, <4>2
    <3>2. IsSetup(s, df, zones, Base(df), 0, p, dir, k)
      BY <2>4, <3>1 DEF IsSetup, Upcoming, Found
    <3>3. df # << >>
      BY <1>3, <2>4
    <3> HIDE DEF setup, s
    <3> QED
      BY <1>1, <3>2, <3>3, SignalsAre DEF Base
  <2> QED
    BY <2>5, <2>6
<1> HIDE DEF R, P
<1>8. {R(s) : s \in {x \in signals : P(x)}} = taken
  BY <1>6, <1>7
<1> QED
  BY <1>8 DEF R, P

\* detect_3c_setups, which scans ahead of every arrival over the whole data and keeps
\* levels silent by what it finds there, finds on the base time frame the entries of a
\* trader who saw one bar at a time, however long the data.
THEOREM ScanIsCausal == Spec => []BatchIsLive
<1>1. Init => Built /\ Live
  BY BuiltInit, LiveInit
<1>2. Built /\ Live /\ [Next]_vars => Built' /\ Live'
  BY BuiltStep, LiveStep
<1>3. Built /\ Live => BatchIsLive
  BY LiveIsBatch
<1> QED
  BY <1>1, <1>2, <1>3, PTL DEF Spec

-----------------------------------------------------------------------------
(* Which signals stand *)

ClosedBy(d, e, w, i) == w = 0 \/ d[i].slot \div w # e[Len(e)].slot \div w

\* What the proof needs of the trigger bars of d and e beyond Grows.
InOrder(d, tb, e, tc, w, c) ==
    /\ tc[c + 1].last = Len(e)
    /\ Len(tb) = c + 1 => \A k \in 1..c : Inside(tc[c + 1], tc[k]) => Inside(tb[c + 1], tb[k])
    /\ \A o \in 1..Len(tb) : \A i \in Watched(d, tb, w, o) : ClosedBy(d, e, w, i) => o <= c
    /\ \A o \in 1..Len(tc) : \A i \in Watched(e, tc, w, o) : i <= Len(d) => o <= c
    /\ \A k \in 1..Len(tb) : ClosedBy(d, e, w, tb[k].last) => k <= c
    /\ \A j, k \in 1..Len(tb) : j < k => tb[j].last < tb[k].last

LEMMA ZonesGrow ==
    ASSUME NEW d, NEW e, Len(d) \in Nat, Len(e) = Len(d) + 1, SameUpto(d, e, Len(d)),
           DOMAIN d = 1..Len(d), DOMAIN e = 1..Len(e), NEW setup, NEW i \in 1..Len(d)
    PROVE  AdmittedZones(d, setup)[i] = AdmittedZones(e, setup)[i]
<1>1. i \in 1..Len(e) /\ i \in Nat \ {0} /\ Len(e) \in Nat
  OBVIOUS
<1>2. SameUpto(d, e, i)
  BY DEF SameUpto
<1>3. ZonesAt(d, i, setup) = ZonesAt(e, i, setup)
  BY <1>1, <1>2, ZonesStay
<1>4. AdmittedZones(d, setup)[i] = ZonesAt(d, i, setup)
  BY ZonesAre
<1>5. AdmittedZones(e, setup)[i] = ZonesAt(e, i, setup)
  BY <1>1, ZonesAre
<1> QED
  BY <1>3, <1>4, <1>5

\* On the trigger bars that both have, the simple triggers fire in both or in neither.
LEMMA SimpleStays ==
    ASSUME NEW d, NEW tb, NEW e, NEW tc, NEW w, NEW c, Grows(d, tb, e, tc, w, c), NEW k \in 1..c,
           NEW setup, NEW s, NEW z, NEW t, NEW dir
    PROVE  IsSimple(s, AdmittedZones(d, setup), tb, setup.confirm, k, z, t, dir) <=>
           IsSimple(s, AdmittedZones(e, setup), tc, setup.confirm, k, z, t, dir)
<1>1. /\ k \in 1..Len(tb) /\ k \in 1..Len(tc) /\ c \in Nat
      /\ tb[k] = tc[k] /\ tb[k].first >= 1 /\ tb[k].last <= Len(d)
      /\ tb[k].first \in Nat /\ tb[k].last \in Nat
      /\ \A j \in 1..c : tb[j] = tc[j]
  BY GrowsIs
<1>2. DOMAIN tb = 1..Len(tb) /\ DOMAIN tc = 1..Len(tc)
  BY DEF Grows, Framed
<1>3. Fires(tb, k, z, t, dir, setup.confirm) <=> Fires(tc, k, z, t, dir, setup.confirm)
  <2>1. k > 1 => tb[k - 1] = tc[k - 1]
    <3>1. k > 1 => k - 1 \in 1..c
      BY <1>1
    <3> QED
      BY <1>1, <3>1
  <2>2. CASE k > 1
    <3>1. tb[k - 1] = tc[k - 1] /\ tb[k] = tc[k]
      BY <1>1, <2>1, <2>2
    <3> QED
      BY <3>1 DEF Fires
  <2>3. CASE ~(k > 1)
    BY <1>1, <2>3 DEF Fires
  <2> QED
    BY <2>2, <2>3
<1>4. SimpleSignal(tb, k, z, t, dir) = SimpleSignal(tc, k, z, t, dir)
  BY <1>1 DEF SimpleSignal
<1>5. AdmittedZones(d, setup)[tb[k].last] = AdmittedZones(e, setup)[tc[k].last]
  <2>1. tb[k].last \in 1..Len(d)
    <3>1. tb[k].last >= 1
      BY GrowsIs
    <3> QED
      BY <1>1, <3>1
  <2>2. /\ Len(d) \in Nat /\ Len(e) = Len(d) + 1 /\ SameUpto(d, e, Len(d))
        /\ DOMAIN d = 1..Len(d) /\ DOMAIN e = 1..Len(e)
    BY DEF Grows, Framed
  <2> QED
    BY <1>1, <2>1, <2>2, ZonesGrow
<1> QED
  BY <1>1, <1>2, <1>3, <1>4, <1>5 DEF IsSimple

\* A level is silent up to k in both for the same reasons when it is settled in both.
LEMMA UntilStays ==
    ASSUME NEW d, NEW tb, NEW e, NEW tc, NEW w \in Nat, NEW c, Grows(d, tb, e, tc, w, c), NEW k \in 1..c, NEW dir,
           Out(tb, k) \in 1..c \/ Out(tc, k) \in 1..c,
           Resolution(d, tb, w, k, dir).until < c \/ Resolution(e, tc, w, k, dir).until <= c
    PROVE  Resolution(e, tc, w, k, dir).until = Resolution(d, tb, w, k, dir).until
<1> DEFINE o == Out(tb, k)
<1>1. o = Out(tc, k) /\ o \in 1..c /\ o # 0
  <2>1. Out(tb, k) = Out(tc, k) /\ Out(tb, k) \in k + 1..c
    BY OutStays
  <2> HIDE DEF o
  <2>2. o \in k + 1..c /\ k \in Nat /\ c \in Nat
    BY <2>1, GrowsIs DEF o
  <2> QED
    BY <2>1, <2>2 DEF o
<1>2. /\ Framed(d, tb) /\ Framed(e, tc) /\ k \in 1..Len(tb) /\ k \in 1..Len(tc)
      /\ tb[o] = tc[o] /\ tb[k] = tc[k] /\ (w = 0 => c = Len(d))
  BY <1>1, GrowsIs
<1> HIDE DEF o
<1>3. CASE ~Turns(tb[o], tb[k], dir)
  <2>1. Resolution(d, tb, w, k, dir) = [reversal |-> 0, entry |-> 0, until |-> o]
    BY <1>1, <1>2, <1>3, ResolutionIs DEF o
  <2>2. Resolution(e, tc, w, k, dir) = [reversal |-> 0, entry |-> 0, until |-> o]
    BY <1>1, <1>2, <1>3, ResolutionIs
  <2> QED
    BY <2>1, <2>2
<1>4. CASE Turns(tb[o], tb[k], dir)
  <2>1. Resolution(d, tb, w, k, dir) = [reversal |-> o, entry |-> Fill(d, tb, w, o, dir), until |-> Silence(d, tb, w, o, dir)]
    BY <1>1, <1>2, <1>4, ResolutionIs DEF o
  <2>2. Resolution(e, tc, w, k, dir) = [reversal |-> o, entry |-> Fill(e, tc, w, o, dir), until |-> Silence(e, tc, w, o, dir)]
    BY <1>1, <1>2, <1>4, ResolutionIs
  <2>3. /\ Resolution(d, tb, w, k, dir).until = Silence(d, tb, w, o, dir)
        /\ Resolution(e, tc, w, k, dir).until = Silence(e, tc, w, o, dir)
    BY <2>1, <2>2
  <2>4. Done(d, tb, w, o, dir)
    <3>1. CASE w # 0
      BY <3>1 DEF Done
    <3>2. CASE w = 0
      <4>1. Silence(d, tb, w, o, dir) < Len(d) \/ Silence(e, tc, w, o, dir) <= Len(d)
        BY <1>2, <2>3, <3>2
      <4> QED
        BY <1>1, <4>1, SilenceStays
    <3> QED
      BY <3>1, <3>2
  <2>5. Silence(e, tc, w, o, dir) = Silence(d, tb, w, o, dir)
    <3>1. o \in 1..c
      BY <1>1
    <3> QED
      BY <2>4, <3>1, DoneStays
  <2> QED
    BY <2>3, <2>5
<1> QED
  BY <1>3, <1>4

\* until is 0 of an arrival every later trigger bar is inside, and only of one.
LEMMA UntilZero ==
    ASSUME NEW d, NEW tb, Framed(d, tb), NEW w \in Nat, NEW k \in 1..Len(tb), NEW dir
    PROVE  /\ Resolution(d, tb, w, k, dir).until \in Nat
           /\ Resolution(d, tb, w, k, dir).until = 0 <=> Out(tb, k) = 0
           /\ Out(tb, k) <= Resolution(d, tb, w, k, dir).until
<1> DEFINE o == Out(tb, k)
           r == Resolution(d, tb, w, k, dir)
<1>1. o \in Nat /\ (o # 0 => o \in 1..Len(tb))
  <2>1. Len(tb) \in Nat /\ k \in Nat
    BY DEF Framed
  <2>2. o \in Nat /\ (o # 0 => o \in k + 1..Len(tb))
    BY <2>1, OutIs
  <2> HIDE DEF o
  <2> QED
    BY <2>1, <2>2
<1>2. o # 0 /\ Turns(tb[o], tb[k], dir) => /\ r.until = Silence(d, tb, w, o, dir)
                                           /\ Silence(d, tb, w, o, dir) \in Nat
  <2>1. o # 0 /\ Turns(tb[o], tb[k], dir) =>
           /\ r = [reversal |-> o, entry |-> Fill(d, tb, w, o, dir), until |-> Silence(d, tb, w, o, dir)]
           /\ Silence(d, tb, w, o, dir) \in Nat
    BY ResolutionIs
  <2> HIDE DEF o, r
  <2> QED
    BY <2>1
<1>3. /\ o = 0 => r.until = 0
      /\ o # 0 /\ ~Turns(tb[o], tb[k], dir) => r.until = o
  <2>1. /\ o = 0 => r = [reversal |-> 0, entry |-> 0, until |-> 0]
        /\ o # 0 /\ ~Turns(tb[o], tb[k], dir) => r = [reversal |-> 0, entry |-> 0, until |-> o]
    BY ResolutionIs
  <2> HIDE DEF o, r
  <2> QED
    BY <2>1
<1>4. o # 0 => o <= Silence(d, tb, w, o, dir)
  <2> HIDE DEF o
  <2> SUFFICES ASSUME o # 0 PROVE o <= Silence(d, tb, w, o, dir)
    OBVIOUS
  <2>1. o \in 1..Len(tb) /\ o \in Nat /\ Len(tb) \in Nat /\ MaxWait \in Nat
    BY <1>1, MaxWaitAssumption DEF Framed
  <2> DEFINE x == Fill(d, tb, w, o, dir)
  <2>2. x \in Nat /\ (x # 0 => x \in Watched(d, tb, w, o))
    BY <2>1, FillIs
  <2>3. w = 0 /\ x # 0 => x >= o
    <3>1. Len(d) \in Int /\ o + MaxWait \in Int
      BY <2>1 DEF Framed
    <3>2. Min({Len(d), o + MaxWait}) = IF Len(d) <= o + MaxWait THEN Len(d) ELSE o + MaxWait
      BY <3>1, OfTwo
    <3> HIDE DEF x
    <3> QED
      BY <2>1, <2>2, <3>1, <3>2 DEF Watched
  <2>4. Silence(d, tb, w, o, dir) =
           IF w # 0 THEN o + MaxWait
           ELSE IF x # 0 THEN x ELSE IF Len(tb) <= o + MaxWait THEN Len(tb) ELSE o + MaxWait
    BY DEF Silence
  <2> HIDE DEF x
  <2> QED
    BY <2>1, <2>2, <2>3, <2>4
<1> HIDE DEF o, r
<1>5. r.until \in Nat /\ (r.until = 0 <=> o = 0) /\ o <= r.until
  BY <1>1, <1>2, <1>3, <1>4
<1> QED
  BY <1>5 DEF o, r

\* What each later trigger bar is inside of on longer data it was inside of before.
LEMMA OutGone ==
    ASSUME NEW d, NEW tb, NEW e, NEW tc, NEW w, NEW c, Grows(d, tb, e, tc, w, c),
           InOrder(d, tb, e, tc, w, c), NEW j \in 1..c, Out(tc, j) = 0
    PROVE  Out(tb, j) = 0
<1>1. /\ c \in Nat /\ Len(tb) \in Nat /\ c <= Len(tb) /\ Len(tb) <= c + 1 /\ Len(tc) = c + 1
      /\ \A i \in 1..c : tb[i] = tc[i]
  BY GrowsIs
<1>2. \A i \in j + 1..Len(tc) : Inside(tc[i], tc[j])
  <2>1. Len(tc) \in Nat /\ j \in Nat
    BY <1>1
  <2> QED
    BY <2>1, OutIs
<1>3. ASSUME NEW i \in j + 1..Len(tb) PROVE Inside(tb[i], tb[j])
  <2>1. CASE i <= c
    <3>1. i \in 1..c /\ i \in j + 1..Len(tc)
      BY <1>1, <2>1
    <3> QED
      BY <1>1, <1>2, <3>1
  <2>2. CASE ~(i <= c)
    <3>1. i = c + 1 /\ Len(tb) = c + 1 /\ i \in j + 1..Len(tc)
      BY <1>1, <2>2
    <3> QED
      BY <1>2, <3>1 DEF InOrder
  <2> QED
    BY <2>1, <2>2
<1>4. Len(tb) \in Nat /\ j \in Nat
  BY <1>1
<1> QED
  BY <1>3, <1>4, OutIs

\* What a filled signal says of its arrival.
LEMMA FilledIs ==
    ASSUME NEW d, NEW zones, NEW tb, Framed(d, tb), NEW w \in Nat, NEW p, NEW dir, NEW k, NEW s,
           IsSetup(s, d, zones, tb, w, p, dir, k), s.status # "void"
    PROVE  LET o == Out(tb, k) IN
           /\ k \in 1..Len(tb) /\ o \in k + 1..Len(tb) /\ Turns(tb[o], tb[k], dir)
           /\ Fill(d, tb, w, o, dir) # 0 /\ Fill(d, tb, w, o, dir) \in Watched(d, tb, w, o)
           /\ s = [trigger |-> "3c", direction |-> dir, level |-> p, arrival |-> tb[k].last,
                   entry |-> Fill(d, tb, w, o, dir), time |-> tb[o].end, bar |-> Fill(d, tb, w, o, dir),
                   status |-> "filled"]
<1> DEFINE o == Out(tb, k)
           r == Resolution(d, tb, w, k, dir)
           x == Fill(d, tb, w, o, dir)
<1>1. k \in TakenUp(d, zones, tb, w, p, dir) /\ r.reversal # 0 /\ s = SetupSignal(d, tb, w, p, dir, k)
  BY DEF IsSetup
<1>2. k \in 1..Len(tb) /\ Len(tb) \in Nat /\ k \in Nat
  <2>1. k \in 1..Len(tb) /\ Len(tb) \in Nat
    BY <1>1, TakenUpIs DEF Framed
  <2> QED
    BY <2>1
<1>3. o \in Nat /\ (o # 0 => o \in k + 1..Len(tb))
  BY <1>2, OutIs
<1>4. /\ o = 0 => r = [reversal |-> 0, entry |-> 0, until |-> 0]
      /\ o # 0 /\ ~Turns(tb[o], tb[k], dir) => r = [reversal |-> 0, entry |-> 0, until |-> o]
      /\ o # 0 /\ Turns(tb[o], tb[k], dir) => r = [reversal |-> o, entry |-> x, until |-> Silence(d, tb, w, o, dir)]
  BY <1>2, ResolutionIs
<1>5. s = [trigger |-> "3c", direction |-> dir, level |-> p,
           arrival |-> tb[k].last, entry |-> r.entry, time |-> tb[r.reversal].end,
           bar |-> IF r.entry # 0 THEN r.entry ELSE tb[r.reversal].last,
           status |-> IF r.entry # 0 THEN "filled" ELSE "void"]
  BY <1>1 DEF SetupSignal
<1> HIDE DEF o, r
<1>6. r.entry # 0
  BY <1>5
<1>7. o # 0 /\ Turns(tb[o], tb[k], dir) /\ r = [reversal |-> o, entry |-> x, until |-> Silence(d, tb, w, o, dir)]
  BY <1>1, <1>4
<1>8. r.entry = x /\ r.reversal = o
  BY <1>7
<1>9. o \in 1..Len(tb) /\ o \in k + 1..Len(tb)
  BY <1>2, <1>3, <1>7
<1>10. x # 0 => x \in Watched(d, tb, w, o)
  BY <1>9, FillIs
<1> HIDE DEF x
<1>11. s = [trigger |-> "3c", direction |-> dir, level |-> p, arrival |-> tb[k].last,
            entry |-> x, time |-> tb[o].end, bar |-> x, status |-> "filled"]
  BY <1>5, <1>6, <1>8
<1> QED
  BY <1>2, <1>6, <1>7, <1>8, <1>9, <1>10, <1>11 DEF o, x

\* And back: an arrival taken up that turns and is filled is a signal.
LEMMA FilledIsSetup ==
    ASSUME NEW d, NEW zones, NEW tb, Framed(d, tb), NEW w \in Nat, NEW p, NEW dir \in Directions, NEW k,
           k \in TakenUp(d, zones, tb, w, p, dir), Out(tb, k) # 0, Turns(tb[Out(tb, k)], tb[k], dir),
           Fill(d, tb, w, Out(tb, k), dir) # 0
    PROVE  IsSetup([trigger |-> "3c", direction |-> dir, level |-> p, arrival |-> tb[k].last,
                    entry |-> Fill(d, tb, w, Out(tb, k), dir), time |-> tb[Out(tb, k)].end,
                    bar |-> Fill(d, tb, w, Out(tb, k), dir), status |-> "filled"],
                   d, zones, tb, w, p, dir, k)
<1> DEFINE o == Out(tb, k)
           r == Resolution(d, tb, w, k, dir)
           x == Fill(d, tb, w, o, dir)
           s == [trigger |-> "3c", direction |-> dir, level |-> p, arrival |-> tb[k].last,
                 entry |-> x, time |-> tb[o].end, bar |-> x, status |-> "filled"]
<1>1. k \in 1..Len(tb)
  BY TakenUpIs
<1>2. r = [reversal |-> o, entry |-> x, until |-> Silence(d, tb, w, o, dir)]
  BY <1>1, ResolutionIs
<1>3. o # 0 /\ x # 0
  OBVIOUS
<1>4. SetupSignal(d, tb, w, p, dir, k) =
         [trigger |-> "3c", direction |-> dir, level |-> p,
          arrival |-> tb[k].last, entry |-> r.entry, time |-> tb[r.reversal].end,
          bar |-> IF r.entry # 0 THEN r.entry ELSE tb[r.reversal].last,
          status |-> IF r.entry # 0 THEN "filled" ELSE "void"]
  BY DEF SetupSignal
<1>5. k \in TakenUp(d, zones, tb, w, p, dir) /\ dir \in Directions
  OBVIOUS
<1> HIDE DEF o, x, r
<1>6. r.reversal = o /\ r.entry = x
  BY <1>2
<1>7. s = SetupSignal(d, tb, w, p, dir, k)
  BY <1>3, <1>4, <1>6
<1>8. Resolution(d, tb, w, k, dir).reversal # 0
  BY <1>3, <1>6 DEF r
<1> HIDE DEF s
<1>9. IsSetup(s, d, zones, tb, w, p, dir, k)
  BY <1>5, <1>7, <1>8 DEF IsSetup
<1> QED
  BY <1>9 DEF s, o, x

\* A filled signal whose bucket was over and before which nothing is unresolved stays.
LEMMA SetupStays ==
    ASSUME NEW d, NEW tb, NEW e, NEW tc, NEW w \in Nat, NEW c, Grows(d, tb, e, tc, w, c),
           InOrder(d, tb, e, tc, w, c), NEW setup, NEW p, NEW dir, NEW k, NEW s,
           IsSetup(s, d, AdmittedZones(d, setup), tb, w, p, dir, k), s.status # "void",
           ClosedBy(d, e, w, s.bar),
           \A j \in 1..Len(tb) : tb[j].last < s.arrival /\ Arrives(AdmittedZones(d, setup), tb, j, p, dir) =>
                                    Resolution(d, tb, w, j, dir).until # 0
    PROVE  IsSetup(s, e, AdmittedZones(e, setup), tc, w, p, dir, k)
<1> DEFINE zd == AdmittedZones(d, setup)
           ze == AdmittedZones(e, setup)
           o == Out(tb, k)
           x == Fill(d, tb, w, o, dir)
<1>1. /\ c \in Nat /\ Len(tb) \in Nat /\ Len(tc) \in Nat /\ c <= Len(tb) /\ c <= Len(tc)
      /\ Framed(d, tb) /\ Framed(e, tc) /\ \A j \in 1..c : tb[j] = tc[j]
  <2>1. /\ c \in Nat /\ Len(tb) \in Nat /\ c <= Len(tb) /\ Len(tc) = c + 1
        /\ Framed(d, tb) /\ Framed(e, tc) /\ \A j \in 1..c : tb[j] = tc[j]
    BY GrowsIs
  <2> QED
    BY <2>1
<1>2. \A j \in 1..c : Arrives(zd, tb, j, p, dir) <=> Arrives(ze, tc, j, p, dir)
  BY ArrivesStays
<1>3. \A j \in 1..Len(tb) : tb[j].last < s.arrival /\ Arrives(zd, tb, j, p, dir) =>
                               Resolution(d, tb, w, j, dir).until # 0
  OBVIOUS
<1>4. IsSetup(s, d, zd, tb, w, p, dir, k)
  OBVIOUS
<1> HIDE DEF zd, ze
<1>5. /\ k \in 1..Len(tb) /\ o \in k + 1..Len(tb) /\ Turns(tb[o], tb[k], dir)
      /\ x # 0 /\ x \in Watched(d, tb, w, o)
      /\ s = [trigger |-> "3c", direction |-> dir, level |-> p, arrival |-> tb[k].last,
              entry |-> x, time |-> tb[o].end, bar |-> x, status |-> "filled"]
  BY <1>1, <1>4, FilledIs
<1>6. s.bar = x /\ s.arrival = tb[k].last
  <2> HIDE DEF x, o
  <2> QED
    BY <1>5
<1>7. o <= c
  <2> HIDE DEF x, o
  <2>1. ClosedBy(d, e, w, x)
    BY <1>6
  <2>2. o \in 1..Len(tb)
    BY <1>1, <1>5
  <2> QED
    BY <1>5, <2>1, <2>2 DEF InOrder
<1>8. k \in 1..c /\ o \in 1..c /\ o # 0
  <2> HIDE DEF x, o
  <2> QED
    BY <1>1, <1>5, <1>7
<1>9. Out(tc, k) = o
  BY <1>8, OutStays
<1>10. Fill(e, tc, w, o, dir) = x
  BY <1>5, <1>8, FillGrows
<1>11. tb[k] = tc[k] /\ tb[o] = tc[o]
  BY <1>1, <1>8
<1> HIDE DEF o, x
<1> DEFINE A == ActiveUntil(d, zd, tb, w, p, dir)
           C == ActiveUntil(e, ze, tc, w, p, dir)
           T == TakenUp(d, zd, tb, w, p, dir)
           b == k - 1
<1>12. k \in T /\ dir \in Directions
  BY <1>4 DEF IsSetup
<1>13. /\ \A j \in T : j \in 1..Len(tb) /\ Arrives(zd, tb, j, p, dir) /\ j > A[j - 1]
       /\ \A i \in 0..Len(tb) : A[i] \in Nat
       /\ \A j \in T : Resolution(d, tb, w, j, dir).until <= A[j]
       /\ \A i \in 0..Len(tb) : \A j \in 0..i : A[j] <= A[i]
  <2>1. /\ \A j \in T : j \in 1..Len(tb) /\ Arrives(zd, tb, j, p, dir) /\ j > A[j - 1]
    BY <1>1, TakenUpIs
  <2>2. A \in [0..Len(tb) -> Nat]
    BY <1>1, ActiveIs
  <2>3. /\ \A j \in T : Resolution(d, tb, w, j, dir).until <= A[j]
        /\ \A i \in 0..Len(tb) : \A j \in 0..i : A[j] <= A[i]
    BY <1>1, ActiveGrows
  <2> HIDE DEF A, T
  <2> QED
    BY <2>1, <2>2, <2>3
<1> HIDE DEF A, T
<1>14. b \in Nat /\ b <= Len(tb) /\ b <= Len(tc) /\ \A j \in 1..b : j \in 1..c /\ j \in 1..Len(tb) /\ j < k
  BY <1>1, <1>8
<1>15. ASSUME NEW j \in 1..b, j \in T
       PROVE  Resolution(d, tb, w, j, dir).until = Resolution(e, tc, w, j, dir).until
  <2>1. j \in 1..c /\ j \in 1..Len(tb) /\ j < k /\ j \in 0..b /\ b \in 0..Len(tb) /\ j \in 0..Len(tb)
    BY <1>1, <1>14
  <2>2. Resolution(d, tb, w, j, dir).until \in Nat /\ Resolution(d, tb, w, j, dir).until < k
    <3>1. Resolution(d, tb, w, j, dir).until \in Nat
      BY <1>1, <2>1, UntilIsNat
    <3>2. Resolution(d, tb, w, j, dir).until <= A[j] /\ A[j] <= A[b] /\ A[b] < k
      BY <1>12, <1>13, <1>15, <2>1
    <3>3. A[j] \in Nat /\ A[b] \in Nat /\ k \in Nat
      BY <1>8, <1>13, <2>1
    <3> QED
      BY <3>1, <3>2, <3>3
  <2>3. Resolution(d, tb, w, j, dir).until # 0
    <3>1. tb[j].last < tb[k].last
      BY <1>5, <2>1 DEF InOrder
    <3> QED
      BY <1>3, <1>6, <1>13, <1>15, <3>1
  <2>4. Out(tb, j) \in Nat /\ Out(tb, j) # 0 /\ Out(tb, j) <= Resolution(d, tb, w, j, dir).until
    <3>1. Len(tb) \in Nat /\ j \in Nat
      BY <1>1, <2>1
    <3>2. Out(tb, j) \in Nat
      BY <3>1, OutIs
    <3> QED
      BY <1>1, <2>1, <2>3, <3>2, UntilZero
  <2>5. Out(tb, j) \in 1..c /\ Resolution(d, tb, w, j, dir).until < c
    BY <1>1, <1>8, <2>2, <2>4
  <2>6. Resolution(e, tc, w, j, dir).until = Resolution(d, tb, w, j, dir).until
    BY <2>1, <2>5, UntilStays
  <2> QED
    BY <2>6
<1>16. \A j \in 1..b : Arrives(zd, tb, j, p, dir) <=> Arrives(ze, tc, j, p, dir)
  BY <1>2, <1>14
<1>17. \A j \in 0..b : A[j] = C[j]
  <2> HIDE DEF b
  <2>1. \A j \in 1..b : j \in TakenUp(d, zd, tb, w, p, dir) =>
             Resolution(d, tb, w, j, dir).until = Resolution(e, tc, w, j, dir).until
    BY <1>15 DEF T
  <2>2. b \in Nat /\ b <= Len(tb) /\ b <= Len(tc)
    BY <1>14
  <2>3. /\ \A j \in 0..b : ActiveUntil(d, zd, tb, w, p, dir)[j] = ActiveUntil(e, ze, tc, w, p, dir)[j]
        /\ \A j \in 1..b : j \in TakenUp(d, zd, tb, w, p, dir) <=> j \in TakenUp(e, ze, tc, w, p, dir)
    BY <1>1, <1>16, <2>1, <2>2, ActiveAgrees, ZenonT(60)
  <2> QED
    BY <2>3 DEF A
<1>18. k \in TakenUp(e, ze, tc, w, p, dir)
  <2>1. C[k - 1] = A[k - 1]
    <3>1. k - 1 \in 0..b
      BY <1>14
    <3> QED
      BY <1>17, <3>1
  <2>2. Arrives(ze, tc, k, p, dir)
    BY <1>2, <1>8, <1>12, <1>13
  <2>3. k \in 1..Len(tc) /\ k > C[k - 1]
    BY <1>1, <1>8, <1>12, <1>13, <2>1
  <2> HIDE DEF b
  <2> QED
    BY <1>1, <2>2, <2>3, TakenUpIs
<1>19. Turns(tc[Out(tc, k)], tc[k], dir) /\ Out(tc, k) # 0 /\ Fill(e, tc, w, Out(tc, k), dir) = x /\ x # 0
  BY <1>5, <1>8, <1>9, <1>10, <1>11
<1>20. IsSetup([trigger |-> "3c", direction |-> dir, level |-> p, arrival |-> tc[k].last,
                entry |-> Fill(e, tc, w, Out(tc, k), dir), time |-> tc[Out(tc, k)].end,
                bar |-> Fill(e, tc, w, Out(tc, k), dir), status |-> "filled"],
               e, ze, tc, w, p, dir, k)
  BY <1>1, <1>12, <1>18, <1>19, FilledIsSetup
<1>21. IsSetup(s, e, ze, tc, w, p, dir, k)
  BY <1>5, <1>9, <1>10, <1>11, <1>20
<1> QED
  BY <1>21 DEF ze

LEMMA UntilWas ==
    ASSUME NEW d, NEW tb, NEW e, NEW tc, NEW w \in Nat, NEW c, Grows(d, tb, e, tc, w, c), NEW k \in 1..c, NEW dir,
           Out(tc, k) \in 1..c, Resolution(e, tc, w, k, dir).until <= c
    PROVE  Resolution(e, tc, w, k, dir).until = Resolution(d, tb, w, k, dir).until
<1> DEFINE u == Resolution(d, tb, w, k, dir).until
           v == Resolution(e, tc, w, k, dir).until
<1>1. Out(tb, k) \in 1..c \/ Out(tc, k) \in 1..c
  OBVIOUS
<1>2. u < c \/ v <= c
  OBVIOUS
<1>3. v = u
  BY <1>1, <1>2, UntilStays
<1> QED
  BY <1>3

\* A filled signal of longer data that is not of the new bar was there before.
LEMMA SetupWas ==
    ASSUME NEW d, NEW tb, NEW e, NEW tc, NEW w \in Nat, NEW c, Grows(d, tb, e, tc, w, c),
           InOrder(d, tb, e, tc, w, c), NEW setup, NEW p, NEW dir, NEW k, NEW s,
           IsSetup(s, e, AdmittedZones(e, setup), tc, w, p, dir, k), s.status # "void", s.bar <= Len(d)
    PROVE  IsSetup(s, d, AdmittedZones(d, setup), tb, w, p, dir, k) /\ k \in 1..c
<1> DEFINE zd == AdmittedZones(d, setup)
           ze == AdmittedZones(e, setup)
           o == Out(tc, k)
           x == Fill(e, tc, w, o, dir)
<1>1. /\ c \in Nat /\ Len(tb) \in Nat /\ Len(tc) \in Nat /\ c <= Len(tb) /\ c <= Len(tc)
      /\ Framed(d, tb) /\ Framed(e, tc) /\ \A j \in 1..c : tb[j] = tc[j]
      /\ Len(d) \in Nat /\ Len(e) = Len(d) + 1
  <2>1. /\ c \in Nat /\ Len(tb) \in Nat /\ c <= Len(tb) /\ Len(tc) = c + 1
        /\ Framed(d, tb) /\ Framed(e, tc) /\ \A j \in 1..c : tb[j] = tc[j]
        /\ Len(d) \in Nat /\ Len(e) = Len(d) + 1
    BY GrowsIs
  <2> QED
    BY <2>1
<1>2. \A j \in 1..c : Arrives(ze, tc, j, p, dir) <=> Arrives(zd, tb, j, p, dir)
  BY ArrivesStays
<1>4. IsSetup(s, e, ze, tc, w, p, dir, k)
  OBVIOUS
<1> HIDE DEF zd, ze
<1>5. /\ k \in 1..Len(tc) /\ o \in k + 1..Len(tc) /\ Turns(tc[o], tc[k], dir)
      /\ x # 0 /\ x \in Watched(e, tc, w, o)
      /\ s = [trigger |-> "3c", direction |-> dir, level |-> p, arrival |-> tc[k].last,
              entry |-> x, time |-> tc[o].end, bar |-> x, status |-> "filled"]
  BY <1>1, <1>4, FilledIs
<1>6. s.bar = x /\ s.arrival = tc[k].last
  <2> HIDE DEF x, o
  <2> QED
    BY <1>5
<1>7. o <= c /\ x <= Len(d)
  <2> HIDE DEF x, o
  <2>1. x <= Len(d)
    BY <1>6
  <2>2. o \in 1..Len(tc)
    BY <1>1, <1>5
  <2> QED
    BY <1>5, <2>1, <2>2 DEF InOrder
<1>8. k \in 1..c /\ o \in 1..c /\ o # 0
  <2> HIDE DEF x, o
  <2> QED
    BY <1>1, <1>5, <1>7
<1>9. Out(tb, k) = o
  BY <1>8, OutStays
<1>10. Fill(d, tb, w, o, dir) = x
  <2>1. /\ Fill(d, tb, w, o, dir) \in Nat /\ x \in Nat /\ Fill(d, tb, w, o, dir) <= Len(d) /\ x <= Len(e)
        /\ x = IF Fill(d, tb, w, o, dir) # 0 THEN Fill(d, tb, w, o, dir)
               ELSE IF Len(e) \in Retraces(e, tc, w, o, dir) THEN Len(e) ELSE 0
    BY <1>8, FillGrows
  <2> HIDE DEF x, o
  <2> QED
    BY <1>1, <1>5, <1>7, <2>1
<1>11. tb[k] = tc[k] /\ tb[o] = tc[o]
  BY <1>1, <1>8
<1> HIDE DEF o, x
<1> DEFINE A == ActiveUntil(d, zd, tb, w, p, dir)
           C == ActiveUntil(e, ze, tc, w, p, dir)
           T == TakenUp(e, ze, tc, w, p, dir)
           b == k - 1
<1>12. k \in T /\ dir \in Directions
  BY <1>4 DEF IsSetup
<1>13. /\ \A j \in T : j \in 1..Len(tc) /\ Arrives(ze, tc, j, p, dir) /\ j > C[j - 1]
       /\ \A i \in 0..Len(tc) : C[i] \in Nat
       /\ \A j \in T : Resolution(e, tc, w, j, dir).until <= C[j]
       /\ \A i \in 0..Len(tc) : \A j \in 0..i : C[j] <= C[i]
  <2>1. /\ \A j \in T : j \in 1..Len(tc) /\ Arrives(ze, tc, j, p, dir) /\ j > C[j - 1]
    BY <1>1, TakenUpIs
  <2>2. C \in [0..Len(tc) -> Nat]
    BY <1>1, ActiveIs
  <2>3. /\ \A j \in T : Resolution(e, tc, w, j, dir).until <= C[j]
        /\ \A i \in 0..Len(tc) : \A j \in 0..i : C[j] <= C[i]
    BY <1>1, ActiveGrows
  <2> HIDE DEF C, T
  <2> QED
    BY <2>1, <2>2, <2>3
<1> HIDE DEF C, T
<1>14. /\ b \in Nat /\ b <= Len(tb) /\ b <= Len(tc)
       /\ \A j \in 1..b : j \in 1..c /\ j \in 1..Len(tb) /\ j \in 1..Len(tc) /\ j < k
  BY <1>1, <1>8
<1>15. ASSUME NEW j \in 1..b, j \in T
       PROVE  Resolution(e, tc, w, j, dir).until = Resolution(d, tb, w, j, dir).until
  <2>1. /\ j \in 1..c /\ j \in 1..Len(tb) /\ j \in 1..Len(tc) /\ j < k /\ j \in 0..b
        /\ b \in 0..Len(tc) /\ j \in 0..Len(tc)
    BY <1>1, <1>14
  <2>2. Resolution(e, tc, w, j, dir).until \in Nat /\ Resolution(e, tc, w, j, dir).until < k
    <3>1. Resolution(e, tc, w, j, dir).until \in Nat
      BY <1>1, <2>1, UntilIsNat
    <3>2. Resolution(e, tc, w, j, dir).until <= C[j] /\ C[j] <= C[b] /\ C[b] < k
      BY <1>12, <1>13, <1>15, <2>1
    <3>3. C[j] \in Nat /\ C[b] \in Nat /\ k \in Nat
      BY <1>8, <1>13, <2>1
    <3> QED
      BY <3>1, <3>2, <3>3
  <2>3. Out(tc, j) \in Nat
    <3>1. Len(tc) \in Nat /\ j \in Nat
      BY <1>1, <2>1
    <3> QED
      BY <3>1, OutIs
  <2>4. /\ Resolution(e, tc, w, j, dir).until \in Nat
        /\ Resolution(e, tc, w, j, dir).until = 0 <=> Out(tc, j) = 0
        /\ Out(tc, j) <= Resolution(e, tc, w, j, dir).until
    BY <1>1, <2>1, UntilZero
  <2>5. CASE Out(tc, j) = 0
    <3>1. Out(tb, j) = 0
      BY <2>1, <2>5, OutGone
    <3>2. /\ Resolution(d, tb, w, j, dir).until \in Nat
          /\ Resolution(d, tb, w, j, dir).until = 0 <=> Out(tb, j) = 0
          /\ Out(tb, j) <= Resolution(d, tb, w, j, dir).until
      BY <1>1, <2>1, UntilZero
    <3> QED
      BY <2>4, <2>5, <3>1, <3>2
  <2>6. CASE Out(tc, j) # 0
    <3>1. Out(tc, j) \in 1..c /\ Resolution(e, tc, w, j, dir).until <= c
      BY <1>1, <1>8, <2>2, <2>3, <2>4, <2>6
    <3> QED
      BY <2>1, <3>1, UntilWas
  <2> QED
    BY <2>5, <2>6
<1>16. \A j \in 1..b : Arrives(ze, tc, j, p, dir) <=> Arrives(zd, tb, j, p, dir)
  BY <1>2, <1>14
<1>17. \A j \in 0..b : A[j] = C[j]
  <2> HIDE DEF b
  <2>1. \A j \in 1..b : j \in TakenUp(e, ze, tc, w, p, dir) =>
             Resolution(e, tc, w, j, dir).until = Resolution(d, tb, w, j, dir).until
    BY <1>15 DEF T
  <2>2. b \in Nat /\ b <= Len(tb) /\ b <= Len(tc)
    BY <1>14
  <2>3. /\ \A j \in 0..b : ActiveUntil(e, ze, tc, w, p, dir)[j] = ActiveUntil(d, zd, tb, w, p, dir)[j]
        /\ \A j \in 1..b : j \in TakenUp(e, ze, tc, w, p, dir) <=> j \in TakenUp(d, zd, tb, w, p, dir)
    BY <1>1, <1>16, <2>1, <2>2, ActiveAgrees, ZenonT(60)
  <2> QED
    BY <2>3 DEF C
<1>18. k \in TakenUp(d, zd, tb, w, p, dir)
  <2>1. C[k - 1] = A[k - 1]
    <3>1. k - 1 \in 0..b
      BY <1>14
    <3> QED
      BY <1>17, <3>1
  <2>2. Arrives(zd, tb, k, p, dir)
    BY <1>2, <1>8, <1>12, <1>13
  <2>3. k \in 1..Len(tb) /\ k > A[k - 1]
    BY <1>1, <1>8, <1>12, <1>13, <2>1
  <2> HIDE DEF b
  <2> QED
    BY <1>1, <2>2, <2>3, TakenUpIs
<1>19. Turns(tb[Out(tb, k)], tb[k], dir) /\ Out(tb, k) # 0 /\ Fill(d, tb, w, Out(tb, k), dir) = x /\ x # 0
  BY <1>5, <1>8, <1>9, <1>10, <1>11
<1>20. IsSetup([trigger |-> "3c", direction |-> dir, level |-> p, arrival |-> tb[k].last,
                entry |-> Fill(d, tb, w, Out(tb, k), dir), time |-> tb[Out(tb, k)].end,
                bar |-> Fill(d, tb, w, Out(tb, k), dir), status |-> "filled"],
               d, zd, tb, w, p, dir, k)
  BY <1>1, <1>12, <1>18, <1>19, FilledIsSetup
<1>21. IsSetup(s, d, zd, tb, w, p, dir, k)
  BY <1>5, <1>9, <1>10, <1>11, <1>20
<1> QED
  BY <1>8, <1>21 DEF zd

\* generate_signals on data and on data with one more bar.
LEMMA SignalsOnMore ==
    ASSUME NEW d, NEW e, NEW w \in Nat, NEW c, Grows(d, TriggerBars(d, w), e, TriggerBars(e, w), w, c),
           InOrder(d, TriggerBars(d, w), e, TriggerBars(e, w), w, c), NEW setup, NEW s, s.status # "void"
    PROVE  /\ s \in Signals(d, w, setup) /\ s \notin Signals(e, w, setup) /\ ClosedBy(d, e, w, s.bar) =>
                 /\ s.trigger = "3c"
                 /\ \E j \in 1..Len(TriggerBars(d, w)) :
                       /\ TriggerBars(d, w)[j].last < s.arrival
                       /\ Arrives(AdmittedZones(d, setup), TriggerBars(d, w), j, s.level, s.direction)
                       /\ Resolution(d, TriggerBars(d, w), w, j, s.direction).until = 0
           /\ s \in Signals(e, w, setup) /\ s \notin Signals(d, w, setup) => s.bar = Len(e)
<1> DEFINE tb == TriggerBars(d, w)
           tc == TriggerBars(e, w)
           zd == AdmittedZones(d, setup)
           ze == AdmittedZones(e, setup)
           S == Signals(d, w, setup)
           Z == Signals(e, w, setup)
<1>1. /\ Grows(d, tb, e, tc, w, c) /\ InOrder(d, tb, e, tc, w, c)
  OBVIOUS
<1>2. e # << >> /\ (d = << >> => S = {}) /\ (c # 0 => d # << >>)
  <2>1. /\ Len(d) \in Nat /\ Len(e) = Len(d) + 1 /\ c \in Nat
        /\ \A k \in 1..c : tb[k].last <= Len(d) /\ tb[k].last \in Nat /\ tb[k].last >= 1
    BY GrowsIs
  <2> HIDE DEF tb
  <2>2. e # << >>
    BY <2>1
  <2>3. c # 0 => d # << >>
    <3> SUFFICES ASSUME c # 0, d = << >> PROVE FALSE
      OBVIOUS
    <3>1. 1 \in 1..c /\ Len(d) = 0
      BY <2>1
    <3>2. tb[1].last <= 0 /\ tb[1].last \in Nat /\ tb[1].last >= 1
      BY <2>1, <3>1
    <3> QED
      BY <3>2
  <2> QED
    BY <2>2, <2>3 DEF Signals
<1>3. /\ d # << >> => (s \in S <=> \/ \E k, z, t, dir : IsSimple(s, zd, tb, setup.confirm, k, z, t, dir)
                                   \/ \E p, dir, k : IsSetup(s, d, zd, tb, w, p, dir, k))
      /\ s \in Z <=> \/ \E k, z, t, dir : IsSimple(s, ze, tc, setup.confirm, k, z, t, dir)
                     \/ \E p, dir, k : IsSetup(s, e, ze, tc, w, p, dir, k)
  BY <1>2, SignalsAre
<1>4. /\ c \in Nat /\ Framed(d, tb) /\ Framed(e, tc) /\ Len(tc) = c + 1
      /\ DOMAIN tb = 1..Len(tb) /\ DOMAIN tc = 1..Len(tc) /\ Len(tb) \in Nat
      /\ Len(d) \in Nat /\ Len(e) = Len(d) + 1
  <2>1. /\ c \in Nat /\ Framed(d, tb) /\ Framed(e, tc) /\ Len(tc) = c + 1
        /\ Len(d) \in Nat /\ Len(e) = Len(d) + 1
    BY GrowsIs
  <2> HIDE DEF tb, tc
  <2> QED
    BY <2>1 DEF Framed
<1> HIDE DEF S, Z, tb, tc
<1>5. ASSUME s \in S, s \notin Z, ClosedBy(d, e, w, s.bar)
      PROVE  /\ s.trigger = "3c"
             /\ \E j \in 1..Len(tb) : /\ tb[j].last < s.arrival
                                      /\ Arrives(zd, tb, j, s.level, s.direction)
                                      /\ Resolution(d, tb, w, j, s.direction).until = 0
  <2>1. d # << >>
    BY <1>2, <1>5
  <2>2. ~\E k, z, t, dir : IsSimple(s, zd, tb, setup.confirm, k, z, t, dir)
    <3> SUFFICES ASSUME NEW k, NEW z, NEW t, NEW dir, IsSimple(s, zd, tb, setup.confirm, k, z, t, dir) PROVE FALSE
      OBVIOUS
    <3>1. k \in 1..Len(tb) /\ s.bar = tb[k].last
      BY <1>4, SimpleIsNot3c DEF IsSimple
    <3>2. k <= c
      BY <1>1, <1>5, <3>1 DEF InOrder
    <3>3. k \in 1..c
      BY <1>4, <3>1, <3>2
    <3>4. IsSimple(s, ze, tc, setup.confirm, k, z, t, dir)
      BY <1>1, <3>3, SimpleStays
    <3> QED
      BY <1>3, <1>5, <3>4
  <2>3. PICK p, dir, k : IsSetup(s, d, zd, tb, w, p, dir, k)
    BY <1>3, <1>5, <2>1, <2>2
  <2>4. s.trigger = "3c" /\ s.level = p /\ s.direction = dir
    <3>1. s = SetupSignal(d, tb, w, p, dir, k)
      BY <2>3 DEF IsSetup
    <3> QED
      BY <3>1 DEF SetupSignal
  <2>5. ~IsSetup(s, e, ze, tc, w, p, dir, k)
    BY <1>3, <1>5
  <2>6. ~\A j \in 1..Len(tb) : tb[j].last < s.arrival /\ Arrives(zd, tb, j, p, dir) =>
                                    Resolution(d, tb, w, j, dir).until # 0
    BY <1>1, <1>5, <2>3, <2>5, SetupStays
  <2> QED
    BY <2>4, <2>6
<1>6. ASSUME s \in Z, s \notin S PROVE s.bar = Len(e)
  <2>1. CASE \E k, z, t, dir : IsSimple(s, ze, tc, setup.confirm, k, z, t, dir)
    <3>1. PICK k, z, t, dir : IsSimple(s, ze, tc, setup.confirm, k, z, t, dir)
      BY <2>1
    <3>2. k \in 1..Len(tc) /\ s.bar = tc[k].last
      BY <1>4, <3>1, SimpleIsNot3c DEF IsSimple
    <3>3. CASE k \in 1..c
      <4>1. d # << >>
        BY <1>2, <1>4, <3>3
      <4>2. IsSimple(s, zd, tb, setup.confirm, k, z, t, dir)
        BY <1>1, <3>1, <3>3, SimpleStays
      <4> QED
        BY <1>3, <1>6, <4>1, <4>2
    <3>4. CASE k \notin 1..c
      <4>1. k = c + 1
        BY <1>4, <3>2, <3>4
      <4>2. s.bar = Len(e)
        BY <1>1, <3>2, <4>1 DEF InOrder
      <4> QED
        BY <1>4, <4>2
    <3> QED
      BY <3>3, <3>4
  <2>2. CASE \E p, dir, k : IsSetup(s, e, ze, tc, w, p, dir, k)
    <3>1. PICK p, dir, k : IsSetup(s, e, ze, tc, w, p, dir, k)
      BY <2>2
    <3> SUFFICES ASSUME s.bar # Len(e) PROVE FALSE
      OBVIOUS
    <3>2. s.bar \in 1..Len(e)
      <4> DEFINE o == Out(tc, k)
                 x == Fill(e, tc, w, o, dir)
      <4>1. /\ k \in 1..Len(tc) /\ o \in k + 1..Len(tc)
            /\ x \in Watched(e, tc, w, o)
            /\ s = [trigger |-> "3c", direction |-> dir, level |-> p, arrival |-> tc[k].last,
                    entry |-> x, time |-> tc[o].end, bar |-> x, status |-> "filled"]
        BY <1>4, <3>1, FilledIs
      <4>2. o \in 1..Len(tc)
        <5> HIDE DEF o
        <5> QED
          BY <1>4, <4>1
      <4>3. x \in 1..Len(e)
        BY <1>4, <4>1, <4>2, WatchedIs
      <4> HIDE DEF o, x
      <4> QED
        BY <4>1, <4>3
    <3>3. s.bar <= Len(d)
      BY <1>4, <3>2
    <3>4. IsSetup(s, d, zd, tb, w, p, dir, k) /\ k \in 1..c
      BY <1>1, <3>1, <3>3, SetupWas
    <3>5. d # << >>
      BY <1>2, <1>4, <3>4
    <3> QED
      BY <1>3, <1>6, <3>4, <3>5
  <2> QED
    BY <1>3, <1>6, <2>1, <2>2
<1> QED
  BY <1>5, <1>6 DEF S, Z, tb, tc

-----------------------------------------------------------------------------
(* The members of a finite set of integers in order *)

Under(S, x) == {y \in S : y < x}

LEMMA UnderIs ==
    ASSUME NEW S, IsFiniteSet(S), S \subseteq Int, NEW x \in S
    PROVE  /\ IsFiniteSet(Under(S, x)) /\ Cardinality(Under(S, x)) \in Nat
           /\ Cardinality(S) \in Nat /\ Cardinality(Under(S, x)) < Cardinality(S)
           /\ \A y \in S : x < y => Cardinality(Under(S, x)) < Cardinality(Under(S, y))
<1>1. \A T : T \subseteq S => /\ IsFiniteSet(T) /\ Cardinality(T) \in Nat
                              /\ Cardinality(T) <= Cardinality(S) /\ (Cardinality(S) = Cardinality(T) => S = T)
  <2> SUFFICES ASSUME NEW T, T \subseteq S
               PROVE  /\ IsFiniteSet(T) /\ Cardinality(T) \in Nat
                      /\ Cardinality(T) <= Cardinality(S) /\ (Cardinality(S) = Cardinality(T) => S = T)
    OBVIOUS
  <2>1. T \in SUBSET S
    OBVIOUS
  <2>2. IsFiniteSet(T) /\ Cardinality(T) <= Cardinality(S) /\ (Cardinality(S) = Cardinality(T) => S = T)
    BY <2>1, FS_Subset
  <2>3. Cardinality(T) \in Nat
    BY <2>2, FS_CardinalityType
  <2> QED
    BY <2>2, <2>3
<1> DEFINE U == Under(S, x)
<1>2. U \subseteq S /\ x \notin U
  BY DEF Under
<1>3. IsFiniteSet(U) /\ Cardinality(U) \in Nat
  BY <1>1, <1>2
<1> HIDE DEF U
<1> DEFINE P == U \cup {x}
<1>4. IsFiniteSet(P) /\ Cardinality(P) = Cardinality(U) + 1
  BY <1>2, <1>3, FS_AddElement
<1>5. ASSUME NEW T, P \subseteq T, T \subseteq S
      PROVE  Cardinality(U) < Cardinality(T) /\ Cardinality(T) \in Nat
  <2>1. IsFiniteSet(T) /\ Cardinality(T) \in Nat
    BY <1>1, <1>5
  <2>2. P \in SUBSET T
    BY <1>5
  <2>3. Cardinality(P) <= Cardinality(T)
    BY <2>1, <2>2, FS_Subset
  <2> QED
    BY <1>3, <1>4, <2>1, <2>3
<1>6. P \subseteq S /\ S \subseteq S
  BY <1>2
<1>7. Cardinality(U) < Cardinality(S) /\ Cardinality(S) \in Nat
  BY <1>5, <1>6
<1>8. ASSUME NEW y \in S, x < y PROVE Cardinality(U) < Cardinality(Under(S, y))
  <2>1. Under(S, y) \subseteq S
    BY DEF Under
  <2>2. P \subseteq Under(S, y)
    <3>1. x \in Under(S, y)
      BY <1>8 DEF Under
    <3>2. ASSUME NEW z \in U PROVE z \in Under(S, y)
      <4>1. z \in S /\ z < x
        BY <3>2 DEF U, Under
      <4>2. z \in Int /\ x \in Int /\ y \in Int
        BY <4>1
      <4>3. z < y
        BY <1>8, <4>1, <4>2
      <4> QED
        BY <4>1, <4>3 DEF Under
    <3> QED
      BY <3>1, <3>2
  <2> QED
    BY <1>5, <2>1, <2>2
<1> HIDE DEF P
<1> QED
  BY <1>3, <1>7, <1>8 DEF U

\* One with any number of members under it.
LEMMA RankExists ==
    \A S : IsFiniteSet(S) /\ S \subseteq Nat =>
              \A k \in 1..Cardinality(S) : \E x \in S : Cardinality(Under(S, x)) = k - 1
<1> DEFINE Ranked(S) == \A k \in 1..Cardinality(S) : \E x \in S : Cardinality(Under(S, x)) = k - 1
           N == {n \in Nat : \A S : IsFiniteSet(S) /\ S \subseteq Nat /\ Cardinality(S) = n => Ranked(S)}
<1>1. 0 \in N
  <2> SUFFICES ASSUME NEW S, IsFiniteSet(S) /\ S \subseteq Nat /\ Cardinality(S) = 0 PROVE Ranked(S)
    OBVIOUS
  <2>1. 1..Cardinality(S) = {}
    OBVIOUS
  <2> QED
    BY <2>1
<1>2. ASSUME NEW n \in N PROVE n + 1 \in N
  <2> SUFFICES ASSUME NEW S, IsFiniteSet(S) /\ S \subseteq Nat /\ Cardinality(S) = n + 1,
                      NEW k \in 1..Cardinality(S)
               PROVE  \E x \in S : Cardinality(Under(S, x)) = k - 1
    OBVIOUS
  <2>1. n \in Nat /\ S # {}
    <3>1. n \in Nat
      OBVIOUS
    <3> QED
      BY <3>1, FS_EmptySet
  <2>2. PICK m \in S : \A x \in S : m <= x
    BY <2>1, LeastNatural
  <2> DEFINE T == S \ {m}
  <2>3. IsFiniteSet(T) /\ Cardinality(T) = n
    BY <2>1, FS_RemoveElement
  <2>4. T \subseteq Nat
    OBVIOUS
  <2>5. Ranked(T)
    BY <2>3, <2>4
  <2>6. CASE k = 1
    <3>1. Under(S, m) = {}
      <4> SUFFICES ASSUME NEW x \in S, x < m PROVE FALSE
        BY DEF Under
      <4>1. m <= x /\ x \in Nat /\ m \in Nat
        BY <2>2
      <4> QED
        BY <4>1
    <3>2. Cardinality(Under(S, m)) = 0
      BY <3>1, FS_EmptySet
    <3> QED
      BY <2>6, <3>2
  <2>7. CASE k # 1
    <3>1. k - 1 \in 1..Cardinality(T)
      BY <2>1, <2>3, <2>7
    <3>2. PICK x \in T : Cardinality(Under(T, x)) = (k - 1) - 1
      BY <2>5, <3>1
    <3>3. x \in Nat /\ m \in Nat /\ m < x /\ x \in S
      <4>1. x \in S /\ x # m /\ m <= x /\ x \in Nat /\ m \in Nat
        BY <2>2
      <4> QED
        BY <4>1
    <3>4. Under(S, x) = Under(T, x) \cup {m} /\ m \notin Under(T, x)
      BY <2>2, <3>3 DEF Under
    <3>5. IsFiniteSet(Under(T, x))
      <4>1. Under(T, x) \in SUBSET T
        BY DEF Under
      <4> QED
        BY <2>3, <4>1, FS_Subset
    <3> DEFINE V == Under(T, x)
    <3>6. Cardinality(V \cup {m}) = Cardinality(V) + 1
      <4>1. m \notin V /\ IsFiniteSet(V)
        BY <3>4, <3>5
      <4> HIDE DEF V
      <4> QED
        BY <4>1, FS_AddElement
    <3>7. Cardinality(Under(S, x)) = k - 1
      <4>1. k \in Int
        OBVIOUS
      <4> QED
        BY <3>2, <3>4, <3>6, <4>1
    <3> QED
      BY <3>3, <3>7
  <2> QED
    BY <2>6, <2>7
<1>3. N = Nat
  <2> HIDE DEF N
  <2> QED
    BY <1>1, <1>2, Counting DEF N
<1>4. ASSUME NEW S, IsFiniteSet(S), S \subseteq Nat PROVE Ranked(S)
  <2>1. Cardinality(S) \in N
    BY <1>3, <1>4, FS_CardinalityType
  <2> QED
    BY <1>4, <2>1
<1> QED
  BY <1>4

LEMMA OrderedIs ==
    ASSUME NEW S, IsFiniteSet(S), S \subseteq Nat
    PROVE  /\ Cardinality(S) \in Nat
           /\ DOMAIN Ordered(S) = 1..Cardinality(S) /\ Len(Ordered(S)) = Cardinality(S)
           /\ \A k \in 1..Cardinality(S) : Ordered(S)[k] \in S /\ Cardinality(Under(S, Ordered(S)[k])) = k - 1
           /\ \A k \in 1..Cardinality(S) : \A x \in S : Cardinality(Under(S, x)) = k - 1 => x = Ordered(S)[k]
           /\ \A j, k \in 1..Cardinality(S) : j < k => Ordered(S)[j] < Ordered(S)[k]
           /\ \A x \in S : \E k \in 1..Cardinality(S) : x = Ordered(S)[k]
<1> DEFINE n == Cardinality(S)
           O == Ordered(S)
           R(x) == Cardinality(Under(S, x))
<1>1. n \in Nat
  BY FS_CardinalityType
<1>2. O = [k \in 1..n |-> CHOOSE x \in S : R(x) = k - 1]
  BY DEF Ordered, Under
<1>3. \A k \in 1..n : \E x \in S : R(x) = k - 1
  BY RankExists
<1>4. \A x \in S : R(x) \in Nat /\ R(x) < n /\ \A y \in S : x < y => R(x) < R(y)
  <2> SUFFICES ASSUME NEW x \in S PROVE R(x) \in Nat /\ R(x) < n /\ \A y \in S : x < y => R(x) < R(y)
    OBVIOUS
  <2>1. S \subseteq Int
    OBVIOUS
  <2> QED
    BY <2>1, UnderIs
<1> HIDE DEF R, n, O
<1>5. \A k \in 1..n : O[k] \in S /\ R(O[k]) = k - 1
  BY <1>2, <1>3
<1>6. DOMAIN O = 1..n
  BY <1>2
<1>7. Len(O) = n
  BY <1>1, <1>2
<1>8. \A x, y \in S : R(x) = R(y) => x = y
  <2> SUFFICES ASSUME NEW x \in S, NEW y \in S, R(x) = R(y) PROVE x = y
    OBVIOUS
  <2>1. x \in Nat /\ y \in Nat /\ R(x) \in Nat /\ R(y) \in Nat
    BY <1>4
  <2>2. (x < y => R(x) < R(y)) /\ (y < x => R(y) < R(x))
    BY <1>4
  <2> QED
    BY <2>1, <2>2
<1>9. ASSUME NEW k \in 1..n, NEW x \in S, R(x) = k - 1 PROVE x = O[k]
  BY <1>5, <1>8, <1>9
<1>10. ASSUME NEW j \in 1..n, NEW k \in 1..n, j < k PROVE O[j] < O[k]
  <2>1. O[j] \in S /\ O[k] \in S /\ R(O[j]) = j - 1 /\ R(O[k]) = k - 1
    BY <1>5
  <2>2. O[j] \in Nat /\ O[k] \in Nat /\ j \in Nat /\ k \in Nat
    <3>1. O[j] \in Nat /\ O[k] \in Nat
      BY <2>1
    <3>2. j \in Nat /\ k \in Nat
      BY <1>1
    <3> QED
      BY <3>1, <3>2
  <2>3. R(O[j]) < R(O[k])
    BY <1>10, <2>1, <2>2
  <2>4. O[k] < O[j] => R(O[k]) < R(O[j])
    BY <1>4, <2>1
  <2>5. O[k] # O[j]
    BY <2>1, <2>2, <1>10
  <2>6. ~(O[k] < O[j])
    BY <1>10, <2>1, <2>2, <2>4
  <2> QED
    BY <2>2, <2>5, <2>6
<1>11. ASSUME NEW x \in S PROVE \E k \in 1..n : x = O[k]
  <2>1. R(x) \in Nat /\ R(x) < n
    BY <1>4
  <2> DEFINE k == R(x) + 1
  <2>2. k \in 1..n /\ R(x) = k - 1
    <3> HIDE DEF k
    <3>1. R(x) \in Nat /\ R(x) < n /\ n \in Nat /\ k = R(x) + 1
      BY <1>1, <2>1 DEF k
    <3> DEFINE r == R(x)
    <3> HIDE DEF r
    <3>2. k \in 1..n /\ r = k - 1
      BY <3>1 DEF r
    <3> QED
      BY <3>2 DEF r
  <2> HIDE DEF k
  <2> QED
    BY <1>9, <2>2
<1> QED
  BY <1>1, <1>5, <1>6, <1>7, <1>9, <1>10, <1>11 DEF R, n, O

\* A greater member comes last and leaves the order of the others alone.
LEMMA OrderedMore ==
    ASSUME NEW S, IsFiniteSet(S), S \subseteq Nat, NEW b \in Nat, \A x \in S : x < b
    PROVE  /\ IsFiniteSet(S \cup {b}) /\ Cardinality(S \cup {b}) = Cardinality(S) + 1
           /\ \A k \in 1..Cardinality(S) : Ordered(S \cup {b})[k] = Ordered(S)[k]
           /\ Ordered(S \cup {b})[Cardinality(S) + 1] = b
<1> DEFINE T == S \cup {b}
           n == Cardinality(S)
<1>1. b \notin S /\ n \in Nat
  <2>1. ~(b < b)
    OBVIOUS
  <2> QED
    BY <2>1, FS_CardinalityType
<1>2. IsFiniteSet(T) /\ Cardinality(T) = n + 1
  BY <1>1, FS_AddElement
<1>3. T \subseteq Nat
  OBVIOUS
<1>4. \A x \in S : Under(T, x) = Under(S, x)
  <2> SUFFICES ASSUME NEW x \in S PROVE Under(T, x) = Under(S, x)
    OBVIOUS
  <2>1. x \in Nat /\ x < b /\ ~(b < x)
    OBVIOUS
  <2> QED
    BY <2>1 DEF Under
<1>5. Under(T, b) = S
  <2>1. ~(b < b)
    OBVIOUS
  <2> QED
    BY <2>1 DEF Under
<1>6. S \subseteq T /\ b \in T
  OBVIOUS
<1> HIDE DEF T
<1>7. \A k \in 1..Cardinality(T) : \A x \in T : Cardinality(Under(T, x)) = k - 1 => x = Ordered(T)[k]
  BY <1>2, <1>3, OrderedIs
<1>8. \A k \in 1..n : Ordered(S)[k] \in S /\ Cardinality(Under(S, Ordered(S)[k])) = k - 1
  BY OrderedIs
<1> HIDE DEF n
<1>9. ASSUME NEW k \in 1..n PROVE Ordered(T)[k] = Ordered(S)[k]
  <2>1. k \in 1..Cardinality(T)
    BY <1>1, <1>2
  <2>2. Cardinality(Under(T, Ordered(S)[k])) = k - 1
    BY <1>4, <1>8
  <2> QED
    BY <1>6, <1>7, <1>8, <2>1, <2>2
<1>10. Ordered(T)[n + 1] = b
  <2>1. n + 1 \in 1..Cardinality(T) /\ Cardinality(Under(T, b)) = (n + 1) - 1
    BY <1>1, <1>2, <1>5 DEF n
  <2> QED
    BY <1>6, <1>7, <2>1
<1> QED
  BY <1>2, <1>9, <1>10 DEF T, n

-----------------------------------------------------------------------------
(* Trigger bars of buckets *)

LEMMA DivIs ==
    ASSUME NEW w \in Nat \ {0}, NEW a \in Nat
    PROVE  a \div w \in Nat /\ w * (a \div w) <= a /\ a < w * (a \div w) + w
<1>1. w \in Int /\ a \in Int /\ w > 0
  OBVIOUS
<1>2. a = w * (a \div w) + (a % w) /\ 0 <= a % w /\ a % w < w /\ a \div w \in Int
  BY <1>1
<1>3. a \div w \in Nat
  BY <1>1
<1> DEFINE q == a \div w
           m == w * q
<1>4. m \in Int
  BY <1>1, <1>2
<1>5. m <= a /\ a < m + w
  <2> HIDE DEF q
  <2>1. a = m + (a % w) /\ a % w \in Int
    BY <1>1, <1>2 DEF q
  <2> HIDE DEF m
  <2> QED
    BY <1>1, <1>2, <1>4, <2>1
<1> QED
  BY <1>3, <1>5

LEMMA DivGrows ==
    ASSUME NEW w \in Nat \ {0}, NEW a \in Nat, NEW b \in Nat, a <= b
    PROVE  a \div w <= b \div w
<1> DEFINE p == a \div w
           q == b \div w
<1>1. p \in Nat /\ q \in Nat /\ w * p <= a /\ b < w * q + w
  BY DivIs
<1> HIDE DEF p, q
<1> SUFFICES ASSUME q < p PROVE FALSE
  BY <1>1 DEF p, q
<1>2. w * (q + 1) <= w * p
  BY <1>1
<1>3. w * (q + 1) = w * q + w
  BY <1>1
<1>4. w * q \in Nat /\ w * p \in Nat
  BY <1>1
<1> DEFINE x == w * q
           y == w * p
<1> HIDE DEF x, y
<1>5. x \in Nat /\ y \in Nat /\ y <= a /\ b < x + w /\ x + w <= y
  BY <1>1, <1>2, <1>3, <1>4 DEF x, y
<1> QED
  BY <1>5

\* A value that no other one of the image of an interval exceeds, and one that exceeds none.
LEMMA ImageBounds ==
    \A n \in Nat : \A f : \A S : S # {} /\ S \subseteq 1..n /\ (\A i \in S : f[i] \in Int) =>
       /\ \E i \in S : \A j \in S : f[j] <= f[i]
       /\ \E i \in S : \A j \in S : f[i] <= f[j]
<1> DEFINE P(n) == \A f : \A S : S # {} /\ S \subseteq 1..n /\ (\A i \in S : f[i] \in Int) =>
                       /\ \E i \in S : \A j \in S : f[j] <= f[i]
                       /\ \E i \in S : \A j \in S : f[i] <= f[j]
           N == {n \in Nat : P(n)}
<1>1. 0 \in N
  OBVIOUS
<1>2. ASSUME NEW n \in N PROVE n + 1 \in N
  <2>00. n \in Nat /\ n + 1 \in Nat
    OBVIOUS
  <2> SUFFICES ASSUME NEW f, NEW S, S # {} /\ S \subseteq 1..n + 1 /\ (\A i \in S : f[i] \in Int)
               PROVE  /\ \E i \in S : \A j \in S : f[j] <= f[i]
                      /\ \E i \in S : \A j \in S : f[i] <= f[j]
    BY <2>00, Zenon
  <2> DEFINE T == S \ {n + 1}
  <2>0. n \in Nat /\ P(n)
    OBVIOUS
  <2> HIDE DEF N, P
  <2>1. n \in Nat /\ T \subseteq 1..n
    <3>1. n \in Nat
      BY <2>0
    <3>2. ASSUME NEW i \in T PROVE i \in 1..n
      <4>1. i \in 1..n + 1 /\ i # n + 1
        OBVIOUS
      <4> QED
        BY <3>1, <4>1
    <3> QED
      BY <3>1, <3>2
  <2>2. CASE T = {}
    <3>1. S = {n + 1}
      BY <2>2
    <3>2. f[n + 1] \in Int
      BY <3>1
    <3>3. \A j \in S : f[j] <= f[n + 1] /\ f[n + 1] <= f[j]
      BY <3>1, <3>2
    <3> QED
      BY <3>1, <3>3
  <2>3. CASE T # {}
    <3>1. /\ \E i \in T : \A j \in T : f[j] <= f[i]
          /\ \E i \in T : \A j \in T : f[i] <= f[j]
      BY <2>0, <2>1, <2>3 DEF P
    <3>2. PICK a \in T : \A j \in T : f[j] <= f[a]
      BY <3>1
    <3>3. PICK b \in T : \A j \in T : f[b] <= f[j]
      BY <3>1
    <3>4. \A j \in T : j \in S /\ f[j] \in Int
      OBVIOUS
    <3>5. a \in S /\ b \in S /\ f[a] \in Int /\ f[b] \in Int
      BY <3>4
    <3>6. CASE n + 1 \notin S
      <4>1. T = S
        BY <3>6
      <4> QED
        BY <3>2, <3>3, <4>1
    <3>7. CASE n + 1 \in S
      <4> DEFINE m == n + 1
      <4>1. m \in S /\ f[m] \in Int /\ \A j \in S : j \in T \/ j = m
        BY <3>7
      <4> HIDE DEF m, T
      <4>2. \E i \in S : \A j \in S : f[j] <= f[i]
        <5>1. CASE f[m] <= f[a]
          BY <3>2, <3>5, <4>1, <5>1
        <5>2. CASE ~(f[m] <= f[a])
          <6>1. \A j \in S : f[j] <= f[m]
            BY <3>2, <3>4, <3>5, <4>1, <5>2
          <6> QED
            BY <4>1, <6>1
        <5> QED
          BY <5>1, <5>2
      <4>3. \E i \in S : \A j \in S : f[i] <= f[j]
        <5>1. CASE f[b] <= f[m]
          BY <3>3, <3>5, <4>1, <5>1
        <5>2. CASE ~(f[b] <= f[m])
          <6>1. \A j \in S : f[m] <= f[j]
            BY <3>3, <3>4, <3>5, <4>1, <5>2
          <6> QED
            BY <4>1, <6>1
        <5> QED
          BY <5>1, <5>2
      <4> QED
        BY <4>2, <4>3
    <3> QED
      BY <3>6, <3>7
  <2> QED
    BY <2>2, <2>3
<1>3. N = Nat
  <2> HIDE DEF N
  <2> QED
    BY <1>1, <1>2, Counting DEF N
<1> QED
  BY <1>3

LEMMA EndsAre ==
    ASSUME NEW n \in Nat, NEW S, S # {}, S \subseteq 1..n
    PROVE  /\ Min(S) \in S /\ Max(S) \in S /\ Min(S) \in Nat /\ Max(S) \in Nat
           /\ \A i \in S : Min(S) <= i /\ i <= Max(S)
<1> DEFINE f == [i \in S |-> i]
<1>1. \A i \in S : f[i] \in Int /\ f[i] = i
  OBVIOUS
<1> HIDE DEF f
<1>2. /\ \E i \in S : \A j \in S : f[j] <= f[i]
      /\ \E i \in S : \A j \in S : f[i] <= f[j]
  BY <1>1, ImageBounds
<1>3. PICK a \in S : \A j \in S : j <= a
  BY <1>1, <1>2
<1>4. PICK b \in S : \A j \in S : b <= j
  BY <1>1, <1>2
<1>5. S \subseteq Int
  OBVIOUS
<1>6. Max(S) = a /\ Min(S) = b
  BY <1>3, <1>4, <1>5, MaxIs, MinIs
<1> QED
  BY <1>3, <1>4, <1>6

LEMMA HighIs ==
    ASSUME NEW d, Data(d), NEW S, S # {}, S \subseteq 1..Len(d)
    PROVE  /\ HighOf(d, S) \in Int /\ (\E i \in S : HighOf(d, S) = d[i].high) /\ \A i \in S : d[i].high <= HighOf(d, S)
           /\ LowOf(d, S) \in Int /\ (\E i \in S : LowOf(d, S) = d[i].low) /\ \A i \in S : LowOf(d, S) <= d[i].low
<1> DEFINE f == [i \in S |-> d[i].high]
           g == [i \in S |-> d[i].low]
           H == {d[i].high : i \in S}
           L == {d[i].low : i \in S}
<1>1. Len(d) \in Nat /\ \A i \in S : f[i] = d[i].high /\ g[i] = d[i].low /\ f[i] \in Int /\ g[i] \in Int
  BY DEF Data
<1> HIDE DEF f, g
<1>2. PICK a \in S : \A j \in S : f[j] <= f[a]
  BY <1>1, ImageBounds
<1>3. PICK b \in S : \A j \in S : g[b] <= g[j]
  BY <1>1, ImageBounds
<1>4. H \subseteq Int /\ L \subseteq Int
  BY <1>1
<1>5. d[a].high \in H /\ \A x \in H : x <= d[a].high
  BY <1>1, <1>2
<1>6. d[b].low \in L /\ \A x \in L : d[b].low <= x
  BY <1>1, <1>3
<1> HIDE DEF H, L
<1>7. Max(H) = d[a].high
  BY <1>4, <1>5, MaxIs
<1>8. Min(L) = d[b].low
  BY <1>4, <1>6, MinIs
<1>9. HighOf(d, S) = d[a].high /\ LowOf(d, S) = d[b].low
  BY <1>7, <1>8 DEF HighOf, LowOf, H, L
<1>10. d[a].high \in Int /\ d[b].low \in Int
  BY <1>1
<1> QED
  BY <1>1, <1>2, <1>3, <1>9, <1>10

BarOf(d, w, b) ==
    LET own == InBucket(d, w, b) IN
    [high |-> HighOf(d, own), low |-> LowOf(d, own), close |-> d[Max(own)].close,
     first |-> Min(own), last |-> Max(own), end |-> (b + 1) * w]

LEMMA BucketsAre ==
    ASSUME NEW d, Data(d), NEW w \in Nat \ {0}
    PROVE  /\ IsFiniteSet(Buckets(d, w)) /\ Buckets(d, w) \subseteq Nat
           /\ \A i \in 1..Len(d) : d[i].slot \div w \in Buckets(d, w)
           /\ \A b \in Buckets(d, w) : \E i \in 1..Len(d) : b = d[i].slot \div w
           /\ \A b : \A i : i \in InBucket(d, w, b) <=> i \in 1..Len(d) /\ d[i].slot \div w = b
<1> DEFINE B == Buckets(d, w)
           f == [i \in 1..Len(d) |-> d[i].slot \div w]
<1>1. DOMAIN d = 1..Len(d) /\ Len(d) \in Nat /\ \A i \in 1..Len(d) : d[i].slot \in Nat
  BY DEF Data
<1>2. \A i \in 1..Len(d) : d[i].slot \div w \in Nat
  BY <1>1, DivIs
<1>3. B = {d[i].slot \div w : i \in 1..Len(d)}
  BY <1>1 DEF Buckets
<1>4. B \subseteq Nat
  BY <1>2, <1>3
<1>5. f \in Surjection(1..Len(d), B)
  BY <1>3 DEF Surjection
<1>6. IsFiniteSet(1..Len(d))
  <2>1. 1 \in Int /\ Len(d) \in Int
    BY <1>1
  <2> QED
    BY <2>1, FS_Interval
<1> HIDE DEF f, B
<1>7. IsFiniteSet(B)
  BY <1>5, <1>6, FS_Surjection
<1>8. \A b : \A i : i \in InBucket(d, w, b) <=> i \in 1..Len(d) /\ d[i].slot \div w = b
  BY <1>1 DEF InBucket
<1> QED
  BY <1>3, <1>4, <1>7, <1>8 DEF B

LEMMA BarIs ==
    ASSUME NEW d, Data(d), NEW w \in Nat \ {0}, NEW b \in Buckets(d, w)
    PROVE  /\ InBucket(d, w, b) # {} /\ InBucket(d, w, b) \subseteq 1..Len(d)
           /\ BarOf(d, w, b).high = HighOf(d, InBucket(d, w, b))
           /\ BarOf(d, w, b).low = LowOf(d, InBucket(d, w, b))
           /\ BarOf(d, w, b).first \in InBucket(d, w, b) /\ BarOf(d, w, b).last \in InBucket(d, w, b)
           /\ BarOf(d, w, b).first \in Nat /\ BarOf(d, w, b).last \in Nat
           /\ BarOf(d, w, b).first >= 1 /\ BarOf(d, w, b).last <= Len(d)
           /\ \A i \in InBucket(d, w, b) : BarOf(d, w, b).first <= i /\ i <= BarOf(d, w, b).last
<1> DEFINE own == InBucket(d, w, b)
           x == BarOf(d, w, b)
<1>1. own # {} /\ own \subseteq 1..Len(d)
  <2>1. /\ \A c \in Buckets(d, w) : \E i \in 1..Len(d) : c = d[i].slot \div w
        /\ \A c : \A i : i \in InBucket(d, w, c) <=> i \in 1..Len(d) /\ d[i].slot \div w = c
    BY BucketsAre, ZenonT(60)
  <2>2. PICK i \in 1..Len(d) : b = d[i].slot \div w
    BY <2>1
  <2>3. i \in own
    BY <2>1, <2>2
  <2> QED
    BY <2>1, <2>3
<1>2. Len(d) \in Nat
  BY DEF Data
<1>3. x = [high |-> HighOf(d, own), low |-> LowOf(d, own), close |-> d[Max(own)].close,
           first |-> Min(own), last |-> Max(own), end |-> (b + 1) * w]
  BY DEF BarOf
<1> HIDE DEF own, x
<1>4. /\ Min(own) \in own /\ Max(own) \in own /\ Min(own) \in Nat /\ Max(own) \in Nat
      /\ \A i \in own : Min(own) <= i /\ i <= Max(own)
  BY <1>1, <1>2, EndsAre
<1>5. x.high = HighOf(d, own) /\ x.low = LowOf(d, own) /\ x.first = Min(own) /\ x.last = Max(own)
  BY <1>3
<1>6. Min(own) >= 1 /\ Max(own) <= Len(d)
  BY <1>1, <1>2, <1>4
<1> QED
  BY <1>1, <1>4, <1>5, <1>6 DEF own, x

LEMMA BucketBars ==
    ASSUME NEW d, Data(d), NEW w \in Nat \ {0}
    PROVE  /\ Len(TriggerBars(d, w)) = Cardinality(Buckets(d, w)) /\ Framed(d, TriggerBars(d, w))
           /\ \A k \in 1..Len(TriggerBars(d, w)) :
                 /\ Ordered(Buckets(d, w))[k] \in Buckets(d, w)
                 /\ TriggerBars(d, w)[k] = BarOf(d, w, Ordered(Buckets(d, w))[k])
<1> DEFINE O == Ordered(Buckets(d, w))
           n == Cardinality(Buckets(d, w))
           tb == TriggerBars(d, w)
<1>1. n \in Nat /\ DOMAIN O = 1..n /\ \A k \in 1..n : O[k] \in Buckets(d, w)
  BY BucketsAre, OrderedIs
<1>2. w # 0
  OBVIOUS
<1>3. tb = [k \in DOMAIN O |-> BarOf(d, w, O[k])]
  BY <1>2 DEF TriggerBars, BarOf
<1> HIDE DEF O, n, tb
<1>4. DOMAIN tb = 1..n /\ \A k \in 1..n : tb[k] = BarOf(d, w, O[k])
  BY <1>1, <1>3
<1>5. Len(tb) = n
  BY <1>1, <1>3
<1>6. \A k \in 1..n : tb[k].first \in Nat /\ tb[k].last \in Nat
  <2> SUFFICES ASSUME NEW k \in 1..n PROVE tb[k].first \in Nat /\ tb[k].last \in Nat
    OBVIOUS
  <2>1. O[k] \in Buckets(d, w) /\ tb[k] = BarOf(d, w, O[k])
    BY <1>1, <1>4
  <2> QED
    BY <2>1, BarIs
<1>7. Framed(d, tb)
  BY <1>1, <1>4, <1>5, <1>6 DEF Framed, Data
<1> QED
  BY <1>1, <1>4, <1>5, <1>7 DEF O, n, tb

\* The buckets of d before that of the bar that was added to it.
Before(d, e, w) == {b \in Buckets(d, w) : b < e[Len(e)].slot \div w}

LEMMA BucketsGrow ==
    ASSUME NEW d, NEW e, Data(d), Data(e), Len(e) = Len(d) + 1, SameUpto(d, e, Len(d)), NEW w \in Nat \ {0}
    PROVE  LET bn == e[Len(e)].slot \div w IN
           /\ bn \in Nat /\ Buckets(e, w) = Before(d, e, w) \cup {bn}
           /\ Buckets(d, w) = Before(d, e, w) \/ Buckets(d, w) = Before(d, e, w) \cup {bn}
           /\ \A b \in Before(d, e, w) : InBucket(e, w, b) = InBucket(d, w, b) /\ BarOf(e, w, b) = BarOf(d, w, b)
           /\ InBucket(e, w, bn) = InBucket(d, w, bn) \cup {Len(e)}
           /\ bn \in Buckets(d, w) => Len(d) \in InBucket(d, w, bn)
<1> DEFINE L == Before(d, e, w)
           bn == e[Len(e)].slot \div w
<1>1. Len(d) \in Nat /\ Len(e) = Len(d) + 1 /\ Len(e) \in 1..Len(e)
      /\ (\A i \in 1..Len(d) : i \in 1..Len(e) /\ e[i] = d[i] /\ i # Len(e))
      /\ (\A i \in 1..Len(e) : i \in 1..Len(d) \/ i = Len(e))
  BY DEF Data, SameUpto
<1>2. e[Len(e)].slot \in Nat /\ \A i \in 1..Len(d) : d[i].slot \in Nat /\ d[i].slot <= e[Len(e)].slot
  <2>1. \A i \in 1..Len(e) : e[i].slot \in Nat
    BY DEF Data
  <2>2. \A i \in 1..Len(d) : e[i].slot < e[Len(e)].slot
    BY <1>1 DEF Data
  <2> QED
    BY <1>1, <2>1, <2>2
<1>3. bn \in Nat /\ \A i \in 1..Len(d) : d[i].slot \div w <= bn /\ d[i].slot \div w \in Nat
  BY <1>2, DivIs, DivGrows
<1>4. /\ \A i \in 1..Len(d) : d[i].slot \div w \in Buckets(d, w)
      /\ \A b \in Buckets(d, w) : \E i \in 1..Len(d) : b = d[i].slot \div w
      /\ \A b : \A i : i \in InBucket(d, w, b) <=> i \in 1..Len(d) /\ d[i].slot \div w = b
  BY BucketsAre
<1>5. /\ \A i \in 1..Len(e) : e[i].slot \div w \in Buckets(e, w)
      /\ \A b \in Buckets(e, w) : \E i \in 1..Len(e) : b = e[i].slot \div w
      /\ \A b : \A i : i \in InBucket(e, w, b) <=> i \in 1..Len(e) /\ e[i].slot \div w = b
  BY BucketsAre, ZenonT(60)
<1>6. \A b \in Buckets(d, w) : b \in L \/ b = bn
  <2> SUFFICES ASSUME NEW b \in Buckets(d, w) PROVE b \in L \/ b = bn
    OBVIOUS
  <2>1. b <= bn /\ b \in Nat
    BY <1>3, <1>4
  <2>2. b < bn \/ b = bn
    BY <1>3, <2>1
  <2> QED
    BY <2>2 DEF Before
<1>7. L \subseteq Buckets(d, w) /\ bn \notin L /\ \A b \in L : b # bn
  <2>1. ~(bn < bn)
    BY <1>3
  <2> QED
    BY <2>1 DEF Before
<1> HIDE DEF L, bn
<1>8. bn = e[Len(e)].slot \div w
  BY DEF bn
<1>9. Buckets(e, w) = L \cup {bn}
  <2>1. ASSUME NEW b \in Buckets(e, w) PROVE b \in L \cup {bn}
    <3>1. PICK i \in 1..Len(e) : b = e[i].slot \div w
      BY <1>5
    <3>2. CASE i = Len(e)
      BY <1>8, <3>1, <3>2
    <3>3. CASE i \in 1..Len(d)
      BY <1>1, <1>4, <1>6, <3>1, <3>3
    <3> QED
      BY <1>1, <3>2, <3>3
  <2>2. ASSUME NEW b \in L PROVE b \in Buckets(e, w)
    <3>1. PICK i \in 1..Len(d) : b = d[i].slot \div w
      BY <1>4, <1>7
    <3> QED
      BY <1>1, <1>5, <3>1
  <2>3. bn \in Buckets(e, w)
    BY <1>1, <1>5, <1>8
  <2> QED
    BY <2>1, <2>2, <2>3
<1>10. Buckets(d, w) = L \/ Buckets(d, w) = L \cup {bn}
  BY <1>6, <1>7
<1>11. ASSUME NEW b \in L PROVE InBucket(e, w, b) = InBucket(d, w, b) /\ BarOf(e, w, b) = BarOf(d, w, b)
  <2>1. InBucket(e, w, b) = InBucket(d, w, b)
    <3>1. \A i : i \in InBucket(e, w, b) <=> i \in InBucket(d, w, b)
      <4> SUFFICES ASSUME NEW i PROVE i \in InBucket(e, w, b) <=> i \in InBucket(d, w, b)
        OBVIOUS
      <4>1. i \in InBucket(e, w, b) <=> i \in 1..Len(e) /\ e[i].slot \div w = b
        BY <1>5
      <4>2. i \in InBucket(d, w, b) <=> i \in 1..Len(d) /\ d[i].slot \div w = b
        BY <1>4
      <4>3. i = Len(e) => e[i].slot \div w # b
        BY <1>7, <1>8
      <4>4. i \in 1..Len(d) => i \in 1..Len(e) /\ e[i] = d[i]
        BY <1>1
      <4>5. i \in 1..Len(e) => i \in 1..Len(d) \/ i = Len(e)
        BY <1>1
      <4> QED
        BY <4>1, <4>2, <4>3, <4>4, <4>5, Zenon
    <3> QED
      BY <3>1
  <2> DEFINE own == InBucket(d, w, b)
  <2>2. \A i \in own : e[i] = d[i]
    BY <1>1, <1>4
  <2>3. Max(own) \in own
    <3>1. own # {} /\ own \subseteq 1..Len(d)
      BY <1>7, BarIs
    <3> HIDE DEF own
    <3> QED
      BY <1>1, <3>1, EndsAre
  <2> HIDE DEF own
  <2>4. HighOf(e, own) = HighOf(d, own) /\ LowOf(e, own) = LowOf(d, own) /\ e[Max(own)] = d[Max(own)]
    <3>1. {e[i].high : i \in own} = {d[i].high : i \in own} /\ {e[i].low : i \in own} = {d[i].low : i \in own}
      BY <2>2
    <3> QED
      BY <2>2, <2>3, <3>1 DEF HighOf, LowOf
  <2>5. BarOf(e, w, b) = BarOf(d, w, b)
    BY <2>1, <2>4 DEF own, BarOf
  <2> QED
    BY <2>1, <2>5
<1>12. InBucket(e, w, bn) = InBucket(d, w, bn) \cup {Len(e)}
  <2>1. \A i : i \in InBucket(e, w, bn) <=> i \in InBucket(d, w, bn) \/ i = Len(e)
    <3> SUFFICES ASSUME NEW i PROVE i \in InBucket(e, w, bn) <=> i \in InBucket(d, w, bn) \/ i = Len(e)
      OBVIOUS
    <3>1. i \in InBucket(e, w, bn) <=> i \in 1..Len(e) /\ e[i].slot \div w = bn
      BY <1>5
    <3>2. i \in InBucket(d, w, bn) <=> i \in 1..Len(d) /\ d[i].slot \div w = bn
      BY <1>4
    <3>3. i = Len(e) => i \in 1..Len(e) /\ e[i].slot \div w = bn
      BY <1>1, <1>8
    <3>4. i \in 1..Len(d) => i \in 1..Len(e) /\ e[i] = d[i]
      BY <1>1
    <3>5. i \in 1..Len(e) => i \in 1..Len(d) \/ i = Len(e)
      BY <1>1
    <3> QED
      BY <3>1, <3>2, <3>3, <3>4, <3>5, Zenon
  <2> QED
    BY <2>1
<1>13. ASSUME bn \in Buckets(d, w) PROVE Len(d) \in InBucket(d, w, bn)
  <2>1. PICK i \in 1..Len(d) : bn = d[i].slot \div w
    BY <1>4, <1>13
  <2>2. Len(d) \in 1..Len(d) /\ (i < Len(d) \/ i = Len(d))
    BY <1>1
  <2>3. i < Len(d) => d[i].slot < d[Len(d)].slot
    BY <2>2 DEF Data
  <2>4. d[i].slot \in Nat /\ d[Len(d)].slot \in Nat /\ d[i].slot <= d[Len(d)].slot
    BY <1>2, <2>2, <2>3
  <2>5. d[i].slot \div w <= d[Len(d)].slot \div w
    BY <2>4, DivGrows
  <2> DEFINE q == d[Len(d)].slot \div w
  <2>6. q <= bn /\ q \in Nat /\ bn <= q
    BY <1>3, <2>1, <2>2, <2>5
  <2> HIDE DEF q
  <2>7. q = bn
    BY <1>3, <2>6
  <2> QED
    BY <1>4, <2>2, <2>7 DEF q
<1>14. bn \in Nat
  BY <1>3
<1> QED
  BY <1>9, <1>10, <1>11, <1>12, <1>13, <1>14 DEF L, bn

LEMMA BarsGrow ==
    ASSUME NEW d, NEW e, Data(d), Data(e), Len(e) = Len(d) + 1, SameUpto(d, e, Len(d)), NEW w \in Nat
    PROVE  \E c : /\ Grows(d, TriggerBars(d, w), e, TriggerBars(e, w), w, c)
                  /\ InOrder(d, TriggerBars(d, w), e, TriggerBars(e, w), w, c)
<1> DEFINE tb == TriggerBars(d, w)
           tc == TriggerBars(e, w)
<1>1. /\ Len(d) \in Nat /\ DOMAIN d = 1..Len(d) /\ DOMAIN e = 1..Len(e) /\ Len(e) \in Nat
      /\ Len(e) = Len(d) + 1
  BY DEF Data
<1>2. CASE w = 0
  <2> DEFINE c == Len(d)
  <2>1. Grows(d, tb, e, tc, w, c)
    BY <1>2, BaseGrows DEF Base
  <2>2. /\ Len(tb) = Len(d) /\ Len(tc) = Len(e)
        /\ \A k \in 1..Len(d) : tb[k].last = k
        /\ \A k \in 1..Len(e) : tc[k].last = k
    <3>1. /\ Len(tb) = Len(d) /\ Len(tc) = Len(e)
          /\ \A k \in 1..Len(d) : tb[k] = [high |-> d[k].high, low |-> d[k].low, close |-> d[k].close,
                                          first |-> k, last |-> k, end |-> d[k].slot]
          /\ \A k \in 1..Len(e) : tc[k] = [high |-> e[k].high, low |-> e[k].low, close |-> e[k].close,
                                          first |-> k, last |-> k, end |-> e[k].slot]
      BY <1>2, BaseIs DEF Base
    <3> HIDE DEF tb, tc
    <3>2. ASSUME NEW k \in 1..Len(d) PROVE tb[k].last = k
      <4> DEFINE x == tb[k]
      <4> HIDE DEF x
      <4>1. x = [high |-> d[k].high, low |-> d[k].low, close |-> d[k].close,
                 first |-> k, last |-> k, end |-> d[k].slot]
        BY <3>1 DEF x
      <4>2. x.last = k
        BY <4>1
      <4> QED
        BY <4>2 DEF x
    <3>3. ASSUME NEW k \in 1..Len(e) PROVE tc[k].last = k
      <4> DEFINE x == tc[k]
      <4> HIDE DEF x
      <4>1. x = [high |-> e[k].high, low |-> e[k].low, close |-> e[k].close,
                 first |-> k, last |-> k, end |-> e[k].slot]
        BY <3>1 DEF x
      <4>2. x.last = k
        BY <4>1
      <4> QED
        BY <4>2 DEF x
    <3> QED
      BY <3>1, <3>2, <3>3
  <2>3. /\ \A o \in 1..Len(tb) : \A i \in Watched(d, tb, w, o) : i > o /\ i \in Int
        /\ \A o \in 1..Len(tc) : \A i \in Watched(e, tc, w, o) : i > o /\ i \in Int
    <3>1. \A o \in 1..Len(tb) : o \in Nat
      BY <1>1, <2>2
    <3>2. \A o \in 1..Len(tc) : o \in Nat
      BY <1>1, <2>2
    <3> HIDE DEF tb, tc
    <3> QED
      BY <1>2, <3>1, <3>2 DEF Watched
  <2> HIDE DEF tb, tc
  <2>4. tc[c + 1].last = Len(e)
    <3>1. c + 1 \in 1..Len(e)
      BY <1>1
    <3> QED
      BY <1>1, <2>2, <3>1
  <2>5. \A o \in 1..Len(tc) : \A i \in Watched(e, tc, w, o) : i <= Len(d) => o <= c
    <3> SUFFICES ASSUME NEW o \in 1..Len(tc), NEW i \in Watched(e, tc, w, o), i <= Len(d) PROVE o <= c
      OBVIOUS
    <3>1. i > o /\ i \in Int /\ o \in Int
      BY <1>1, <2>2, <2>3
    <3> QED
      BY <1>1, <3>1
  <2>6. InOrder(d, tb, e, tc, w, c)
    <3>1. ~(Len(tb) = c + 1)
      <4>1. Len(tb) = Len(d)
        BY <2>2
      <4>2. c \in Nat
        BY <1>1
      <4> HIDE DEF c
      <4>3. c # c + 1
        BY <4>2
      <4> QED
        BY <4>1, <4>3 DEF c
    <3>2. \A k \in 1..Len(tb) : k <= c
      BY <1>1, <2>2
    <3>3. \A j, k \in 1..Len(tb) : j < k => tb[j].last < tb[k].last
      BY <2>2
    <3> HIDE DEF c
    <3> QED
      BY <2>4, <2>5, <3>1, <3>2, <3>3 DEF InOrder
  <2> QED
    BY <2>1, <2>6 DEF tb, tc
<1>3. CASE w # 0
  <2> DEFINE L == Before(d, e, w)
             B == Buckets(d, w)
             E == Buckets(e, w)
             bn == e[Len(e)].slot \div w
             c == Cardinality(L)
  <2>0. w \in Nat \ {0}
    BY <1>3
  <2>1. /\ bn \in Nat /\ Buckets(e, w) = L \cup {bn}
        /\ Buckets(d, w) = L \/ Buckets(d, w) = L \cup {bn}
        /\ \A b \in L : InBucket(e, w, b) = InBucket(d, w, b) /\ BarOf(e, w, b) = BarOf(d, w, b)
        /\ InBucket(e, w, bn) = InBucket(d, w, bn) \cup {Len(e)}
        /\ bn \in Buckets(d, w) => Len(d) \in InBucket(d, w, bn)
    BY <2>0, BucketsGrow
  <2>2. /\ IsFiniteSet(B) /\ B \subseteq Nat
        /\ \A b : \A i : i \in InBucket(d, w, b) <=> i \in 1..Len(d) /\ d[i].slot \div w = b
    BY <2>0, BucketsAre
  <2>3. L \subseteq B /\ \A x \in L : x < bn
    BY DEF Before
  <2>4. /\ Len(tb) = Cardinality(B) /\ Framed(d, tb)
        /\ \A k \in 1..Len(tb) : Ordered(B)[k] \in B /\ tb[k] = BarOf(d, w, Ordered(B)[k])
    BY <2>0, BucketBars
  <2>5. /\ Len(tc) = Cardinality(E) /\ Framed(e, tc)
        /\ \A k \in 1..Len(tc) : Ordered(E)[k] \in E /\ tc[k] = BarOf(e, w, Ordered(E)[k])
    BY <2>0, BucketBars
  <2>6. /\ \A b \in B : /\ InBucket(d, w, b) # {} /\ InBucket(d, w, b) \subseteq 1..Len(d)
                        /\ BarOf(d, w, b).last \in InBucket(d, w, b)
                        /\ BarOf(d, w, b).first \in Nat /\ BarOf(d, w, b).last \in Nat
                        /\ BarOf(d, w, b).first >= 1 /\ BarOf(d, w, b).last <= Len(d)
                        /\ BarOf(d, w, b).first <= BarOf(d, w, b).last
                        /\ \A i \in InBucket(d, w, b) : i <= BarOf(d, w, b).last
    <3> SUFFICES ASSUME NEW b \in Buckets(d, w)
                 PROVE  /\ InBucket(d, w, b) # {} /\ InBucket(d, w, b) \subseteq 1..Len(d)
                        /\ BarOf(d, w, b).last \in InBucket(d, w, b)
                        /\ BarOf(d, w, b).first \in Nat /\ BarOf(d, w, b).last \in Nat
                        /\ BarOf(d, w, b).first >= 1 /\ BarOf(d, w, b).last <= Len(d)
                        /\ BarOf(d, w, b).first <= BarOf(d, w, b).last
                        /\ \A i \in InBucket(d, w, b) : i <= BarOf(d, w, b).last
      OBVIOUS
    <3> QED
      BY <2>0, BarIs
  <2>7. BarOf(e, w, bn).last \in InBucket(e, w, bn) /\ \A i \in InBucket(e, w, bn) : i <= BarOf(e, w, bn).last
    <3>1. bn \in Buckets(e, w)
      BY <2>1
    <3> HIDE DEF bn
    <3> QED
      BY <2>0, <3>1, BarIs
  <2>8. Len(e) \in InBucket(e, w, bn) /\ InBucket(d, w, bn) \subseteq 1..Len(d)
    BY <2>1, <2>2
  <2>9. BarOf(e, w, bn).last = Len(e)
    <3> DEFINE z == BarOf(e, w, bn).last
    <3>1. z \in InBucket(d, w, bn) \cup {Len(e)} /\ Len(e) <= z
      BY <2>1, <2>7, <2>8
    <3> HIDE DEF z, bn
    <3>2. z \in 1..Len(d) \/ z = Len(e)
      BY <2>8, <3>1
    <3>3. z = Len(e)
      BY <1>1, <3>1, <3>2
    <3> QED
      BY <3>3 DEF z
  <2>10. bn \in B => BarOf(d, w, bn).last = Len(d)
    <3> SUFFICES ASSUME bn \in B PROVE BarOf(d, w, bn).last = Len(d)
      OBVIOUS
    <3> DEFINE z == BarOf(d, w, bn).last
    <3>1. z \in Nat /\ z <= Len(d) /\ Len(d) <= z
      BY <2>1, <2>6
    <3> HIDE DEF z
    <3>2. z = Len(d)
      <4>1. z \in Nat /\ z <= Len(d) /\ Len(d) <= z /\ Len(d) \in Nat
        BY <1>1, <3>1
      <4> HIDE DEF bn, B
      <4> QED
        BY <4>1
    <3> QED
      BY <3>2 DEF z
  <2>11. bn = e[Len(e)].slot \div w
    OBVIOUS
  <2>111. \A b \in L : b \in Nat /\ b \in B /\ b # bn
    <3> HIDE DEF L, B, bn
    <3>1. \A b \in L : b \in Nat /\ b \in B /\ b < bn
      BY <2>2, <2>3
    <3> QED
      BY <2>1, <3>1
  <2> HIDE DEF bn, L, B, E
  <2>12. IsFiniteSet(L) /\ L \subseteq Nat
    <3>1. L \in SUBSET B
      BY <2>3
    <3> QED
      BY <2>2, <2>3, <3>1, FS_Subset
  <2>13. /\ Cardinality(E) = c + 1
         /\ \A k \in 1..c : Ordered(E)[k] = Ordered(L)[k]
         /\ Ordered(E)[c + 1] = bn
    <3>1. /\ Cardinality(L \cup {bn}) = Cardinality(L) + 1
          /\ \A k \in 1..Cardinality(L) : Ordered(L \cup {bn})[k] = Ordered(L)[k]
          /\ Ordered(L \cup {bn})[Cardinality(L) + 1] = bn
      BY <2>1, <2>3, <2>12, OrderedMore
    <3> QED
      BY <2>1, <3>1 DEF E
  <2>14. /\ c \in Nat /\ \A k \in 1..c : Ordered(L)[k] \in L
    BY <2>12, OrderedIs
  <2>15. \/ B = L /\ Cardinality(B) = c
         \/ B = E /\ Cardinality(B) = c + 1 /\ bn \in B
    BY <2>1, <2>13 DEF B, E
  <2> DEFINE O(k) == Ordered(B)[k]
  <2>16. /\ Len(tb) \in Nat /\ c <= Len(tb) /\ Len(tb) <= c + 1 /\ Len(tc) = c + 1
         /\ \A k \in 1..c : k \in 1..Len(tb) /\ k \in 1..Len(tc)
         /\ \A k \in 1..Len(tb) : k \in 1..c \/ (k = c + 1 /\ Len(tb) = c + 1)
    <3> HIDE DEF c, tb, tc
    <3>1. Len(tb) = c \/ Len(tb) = c + 1
      BY <2>4, <2>15
    <3>2. Len(tc) = c + 1
      BY <2>5, <2>13
    <3> QED
      BY <2>14, <3>1, <3>2
  <2>17. \A k \in 1..c : O(k) \in L /\ Ordered(E)[k] = O(k)
    BY <2>13, <2>14, <2>15
  <2>18. Len(tb) = c + 1 => O(c + 1) = bn /\ bn \in B
    <3> HIDE DEF c
    <3>1. c # c + 1
      BY <2>14
    <3> QED
      BY <2>4, <2>13, <2>15, <3>1
  <2> HIDE DEF c, O
  <2>19. \A k \in 1..c : tb[k] = BarOf(d, w, O(k)) /\ tc[k] = BarOf(d, w, O(k)) /\ O(k) \in B /\ O(k) \in L
    <3> SUFFICES ASSUME NEW k \in 1..c
                 PROVE  tb[k] = BarOf(d, w, O(k)) /\ tc[k] = BarOf(d, w, O(k)) /\ O(k) \in B /\ O(k) \in L
      OBVIOUS
    <3>1. O(k) \in L /\ Ordered(E)[k] = O(k)
      BY <2>17
    <3>2. tb[k] = BarOf(d, w, O(k))
      BY <2>4, <2>16 DEF O
    <3>3. tc[k] = BarOf(e, w, O(k))
      BY <2>5, <2>16, <3>1
    <3>4. BarOf(e, w, O(k)) = BarOf(d, w, O(k))
      BY <2>1, <3>1
    <3>5. O(k) \in B
      BY <2>3, <3>1
    <3> QED
      BY <3>1, <3>2, <3>3, <3>4, <3>5
  <2>20. Len(tb) = c + 1 => tb[c + 1] = BarOf(d, w, bn) /\ tb[c + 1].last = Len(d)
    <3> SUFFICES ASSUME Len(tb) = c + 1 PROVE tb[c + 1] = BarOf(d, w, bn) /\ tb[c + 1].last = Len(d)
      OBVIOUS
    <3>1. c + 1 \in 1..Len(tb)
      BY <2>14, <2>16
    <3>2. tb[c + 1] = BarOf(d, w, O(c + 1))
      BY <2>4, <3>1 DEF O
    <3> QED
      BY <2>10, <2>18, <3>2
  <2>21. tc[c + 1] = BarOf(e, w, bn) /\ tc[c + 1].last = Len(e)
    <3>1. c + 1 \in 1..Len(tc)
      BY <2>14, <2>16
    <3>2. tc[c + 1] = BarOf(e, w, Ordered(E)[c + 1])
      BY <2>5, <3>1
    <3> QED
      BY <2>9, <2>13, <3>2
  <2>22. Grows(d, tb, e, tc, w, c)
    <3>1. \A k \in 1..c : /\ tb[k] = tc[k] /\ tb[k].first >= 1
                          /\ tb[k].first <= tb[k].last /\ tb[k].last <= Len(d)
      BY <2>6, <2>19
    <3>2. Framed(d, tb) /\ Framed(e, tc) /\ c \in Nat
      BY <2>4, <2>5, <2>14
    <3> HIDE DEF tb, tc
    <3> QED
      BY <1>1, <1>3, <2>16, <3>1, <3>2 DEF Grows
  <2>23. Len(tb) = c + 1 => \A k \in 1..c : Inside(tc[c + 1], tc[k]) => Inside(tb[c + 1], tb[k])
    <3> SUFFICES ASSUME Len(tb) = c + 1, NEW k \in 1..c, Inside(tc[c + 1], tc[k]) PROVE Inside(tb[c + 1], tb[k])
      OBVIOUS
    <3>0. bn \in B /\ bn \in E
      BY <2>1, <2>18 DEF E
    <3> DEFINE x == BarOf(e, w, bn)
               y == BarOf(d, w, bn)
               z == BarOf(d, w, O(k))
               S == InBucket(e, w, bn)
               T == InBucket(d, w, bn)
    <3>1. S # {} /\ S \subseteq 1..Len(e) /\ x.high = HighOf(e, S) /\ x.low = LowOf(e, S)
      BY <2>0, <3>0, BarIs DEF E
    <3>2. T # {} /\ T \subseteq 1..Len(d) /\ y.high = HighOf(d, T) /\ y.low = LowOf(d, T)
      BY <2>0, <3>0, BarIs DEF B
    <3>3. z.high \in Int /\ z.low \in Int
      <4>1. O(k) \in B
        BY <2>19
      <4> DEFINE b == O(k)
                 own == InBucket(d, w, b)
      <4>2. b \in Buckets(d, w)
        BY <4>1 DEF B
      <4> HIDE DEF b
      <4>3. own # {} /\ own \subseteq 1..Len(d) /\ BarOf(d, w, b).high = HighOf(d, own) /\ BarOf(d, w, b).low = LowOf(d, own)
        BY <2>0, <4>2, BarIs
      <4>4. HighOf(d, own) \in Int /\ LowOf(d, own) \in Int
        BY <4>3, HighIs
      <4> QED
        BY <4>3, <4>4 DEF b
    <3> HIDE DEF S, T, x, y, z
    <3>4. /\ HighOf(e, S) \in Int /\ \A i \in S : e[i].high <= HighOf(e, S)
          /\ LowOf(e, S) \in Int /\ \A i \in S : LowOf(e, S) <= e[i].low
      BY <3>1, HighIs
    <3>5. /\ HighOf(d, T) \in Int /\ \E i \in T : HighOf(d, T) = d[i].high
          /\ LowOf(d, T) \in Int /\ \E i \in T : LowOf(d, T) = d[i].low
      BY <3>2, HighIs
    <3>6. \A i \in T : i \in S /\ d[i] = e[i]
      <4>1. \A i \in 1..Len(d) : d[i] = e[i]
        BY DEF SameUpto
      <4> QED
        BY <2>1, <3>2, <4>1 DEF S, T
    <3>7. y.high <= x.high /\ x.low <= y.low /\ x.high \in Int /\ y.high \in Int /\ x.low \in Int /\ y.low \in Int
      BY <3>1, <3>2, <3>4, <3>5, <3>6
    <3>8. x.high <= z.high /\ x.low >= z.low
      BY <2>19, <2>21 DEF Inside, x, z
    <3>9. y.high <= z.high /\ y.low >= z.low
      BY <3>3, <3>7, <3>8
    <3> QED
      BY <2>19, <2>20, <3>9 DEF Inside, y, z
  <2>24. \A o \in 1..Len(tb) : \A i \in Watched(d, tb, w, o) : o <= c
    <3> SUFFICES ASSUME NEW o \in 1..Len(tb), NEW i \in Watched(d, tb, w, o) PROVE o <= c
      OBVIOUS
    <3>1. CASE o \in 1..c
      BY <2>14, <3>1
    <3>2. CASE o = c + 1 /\ Len(tb) = c + 1
      <4>1. i \in tb[o].last + 1..Len(d)
        BY <1>3 DEF Watched
      <4> QED
        BY <1>1, <2>20, <3>2, <4>1
    <3> QED
      BY <2>16, <3>1, <3>2
  <2>25. \A o \in 1..Len(tc) : \A i \in Watched(e, tc, w, o) : o <= c
    <3> SUFFICES ASSUME NEW o \in 1..Len(tc), NEW i \in Watched(e, tc, w, o) PROVE o <= c
      OBVIOUS
    <3>1. o <= c \/ o = c + 1
      BY <2>14, <2>16
    <3>2. CASE o = c + 1
      <4>1. i \in tc[o].last + 1..Len(e)
        BY <1>3 DEF Watched
      <4> QED
        BY <1>1, <2>21, <3>2, <4>1
    <3> QED
      BY <3>1, <3>2
  <2>26. \A k \in 1..Len(tb) : ClosedBy(d, e, w, tb[k].last) => k <= c
    <3> SUFFICES ASSUME NEW k \in 1..Len(tb), ClosedBy(d, e, w, tb[k].last) PROVE k <= c
      OBVIOUS
    <3>1. CASE k \in 1..c
      BY <2>14, <3>1
    <3>2. CASE k = c + 1 /\ Len(tb) = c + 1
      <4>1. tb[k].last = Len(d) /\ bn \in B
        BY <2>18, <2>20, <3>2
      <4>2. d[Len(d)].slot \div w = bn
        BY <2>1, <2>2, <4>1 DEF B
      <4> QED
        BY <1>3, <2>11, <4>1, <4>2 DEF ClosedBy
    <3> QED
      BY <2>16, <3>1, <3>2
  <2>27. \A j, k \in 1..Len(tb) : j < k => tb[j].last < tb[k].last
    <3> SUFFICES ASSUME NEW j \in 1..Len(tb), NEW k \in 1..Len(tb), j < k PROVE tb[j].last < tb[k].last
      OBVIOUS
    <3> DEFINE x == Ordered(B)[j]
               y == Ordered(B)[k]
               p == BarOf(d, w, x).last
               q == BarOf(d, w, y).last
    <3>1. x \in B /\ y \in B /\ tb[j] = BarOf(d, w, x) /\ tb[k] = BarOf(d, w, y)
      BY <2>4
    <3>2. x < y
      <4>1. \A a, b \in 1..Cardinality(B) : a < b => Ordered(B)[a] < Ordered(B)[b]
        BY <2>2, OrderedIs
      <4> QED
        BY <2>4, <4>1
    <3> HIDE DEF x, y
    <3>3. p \in InBucket(d, w, x) /\ q \in InBucket(d, w, y)
      BY <2>6, <3>1
    <3> HIDE DEF p, q
    <3>4. /\ p \in 1..Len(d) /\ q \in 1..Len(d) /\ d[p].slot \div w = x /\ d[q].slot \div w = y
      BY <2>2, <3>3
    <3>5. x \in Nat /\ y \in Nat
      BY <2>2, <3>1
    <3>6. ~(q <= p)
      <4> SUFFICES ASSUME q <= p PROVE FALSE
        OBVIOUS
      <4>1. q = p \/ q < p
        BY <1>1, <3>4
      <4>2. d[q].slot \in Nat /\ d[p].slot \in Nat /\ d[q].slot <= d[p].slot
        <5>1. /\ \A i \in 1..Len(d) : d[i].slot \in Nat
              /\ \A i, m \in 1..Len(d) : i < m => d[i].slot < d[m].slot
          BY DEF Data
        <5> QED
          BY <3>4, <4>1, <5>1
      <4>3. d[q].slot \div w <= d[p].slot \div w
        BY <2>0, <4>2, DivGrows
      <4>4. y <= x
        BY <3>4, <4>3
      <4> QED
        BY <3>2, <3>5, <4>4
    <3>7. p < q
      BY <1>1, <3>4, <3>6
    <3> QED
      BY <3>1, <3>7 DEF p, q
  <2>28. InOrder(d, tb, e, tc, w, c)
    <3> HIDE DEF tb, tc
    <3> QED
      BY <2>21, <2>23, <2>24, <2>25, <2>26, <2>27 DEF InOrder
  <2> QED
    BY <2>22, <2>28 DEF tb, tc
<1> QED
  BY <1>2, <1>3

\* generate_signals on longer data leaves alone every signal to trade that was read off
\* trigger bars which were over and that no unresolved arrival comes before, and finds no
\* new one but on the new bar, however the scan for set-ups and the silence of levels
\* overlap.
THEOREM SignalsKeepStanding == Spec => SignalsStand
<1> DEFINE Stand == /\ \A s \in Traded(signals) \ signals' :
                          ~Closed(s.bar) \/ (s.trigger = "3c" /\ Unresolved(s))
                    /\ \A s \in Traded(signals') \ signals : s.bar = Len(df')
<1>1. ASSUME Built, Next PROVE Stand
  <2> DEFINE w == feed.trigger_timeframe
             setup == feed.setup
  <2>1. /\ df' \in Seq(Bar) /\ Data(df') /\ Len(df') = Len(df) + 1 /\ SameUpto(df, df', Len(df))
        /\ signals' = Signals(df', w, setup)
    BY <1>1, OnMore
  <2>2. /\ Data(df) /\ w \in Nat /\ signals = Signals(df, w, setup)
    BY <1>1, FeedIs DEF Built
  <2> HIDE DEF w, setup
  <2>3. PICK c : /\ Grows(df, TriggerBars(df, w), df', TriggerBars(df', w), w, c)
                 /\ InOrder(df, TriggerBars(df, w), df', TriggerBars(df', w), w, c)
    BY <2>1, <2>2, BarsGrow
  <2>4. ASSUME NEW s, s.status # "void"
        PROVE  /\ s \in Signals(df, w, setup) /\ s \notin Signals(df', w, setup) /\ ClosedBy(df, df', w, s.bar) =>
                     /\ s.trigger = "3c"
                     /\ \E j \in 1..Len(TriggerBars(df, w)) :
                           /\ TriggerBars(df, w)[j].last < s.arrival
                           /\ Arrives(AdmittedZones(df, setup), TriggerBars(df, w), j, s.level, s.direction)
                           /\ Resolution(df, TriggerBars(df, w), w, j, s.direction).until = 0
               /\ s \in Signals(df', w, setup) /\ s \notin Signals(df, w, setup) => s.bar = Len(df')
    BY <2>2, <2>3, <2>4, SignalsOnMore
  <2>5. DOMAIN TriggerBars(df, w) = 1..Len(TriggerBars(df, w))
    BY <2>3 DEF Grows, Framed
  <2>6. ASSUME NEW s \in Traded(signals) \ signals', Closed(s.bar)
        PROVE  s.trigger = "3c" /\ Unresolved(s)
    <3>1. s.status # "void" /\ s \in signals /\ s \notin signals'
      BY <2>6 DEF Traded
    <3>2. ClosedBy(df, df', w, s.bar)
      BY <2>6 DEF Closed, ClosedBy, w
    <3>3. /\ s.trigger = "3c"
          /\ \E j \in 1..Len(TriggerBars(df, w)) :
                /\ TriggerBars(df, w)[j].last < s.arrival
                /\ Arrives(AdmittedZones(df, setup), TriggerBars(df, w), j, s.level, s.direction)
                /\ Resolution(df, TriggerBars(df, w), w, j, s.direction).until = 0
      BY <2>1, <2>2, <2>4, <3>1, <3>2
    <3>4. Unresolved(s)
      BY <2>5, <3>3 DEF Unresolved, w, setup
    <3> QED
      BY <3>3, <3>4
  <2>7. ASSUME NEW s \in Traded(signals') \ signals PROVE s.bar = Len(df')
    <3>1. s.status # "void" /\ s \in signals' /\ s \notin signals
      BY <2>7 DEF Traded
    <3> QED
      BY <2>1, <2>2, <2>4, <3>1
  <2> QED
    BY <2>6, <2>7
<1>2. Built /\ [Next]_vars => [Stand]_vars
  BY <1>1
<1> QED
  BY <1>2, BuiltInit, BuiltStep, PTL DEF Spec, SignalsStand

-----------------------------------------------------------------------------
(* Which window trades a signal *)

EntryTo(s)     == IF s.trigger = "3c" THEN s.entry ELSE s.bar + 1
Owns(s, w, plan) ==
    /\ Within(EntryTo(s), w)
    /\ plan.fold_mode = "sessions" \/ Within(s.bar, w)

\* What the proof needs of a signal.
Proper(s) ==
    /\ s.trigger = "3c" /\ s.status # "void" => s.entry \in Nat \ {0} /\ s.bar = s.entry
    /\ s.trigger # "3c" => s.entry = 0 /\ s.bar \in Nat \ {0}

LEMMA FramedBars ==
    ASSUME NEW d, Data(d), NEW w \in Nat
    PROVE  /\ Framed(d, TriggerBars(d, w))
           /\ \A k \in 1..Len(TriggerBars(d, w)) : TriggerBars(d, w)[k].last \in 1..Len(d)
<1> DEFINE tb == TriggerBars(d, w)
<1>1. CASE w = 0
  <2>1. /\ Len(tb) = Len(d) /\ Framed(d, tb)
        /\ \A k \in 1..Len(d) : tb[k] = [high |-> d[k].high, low |-> d[k].low, close |-> d[k].close,
                                        first |-> k, last |-> k, end |-> d[k].slot]
    BY <1>1, BaseIs DEF Base
  <2> HIDE DEF tb
  <2>2. ASSUME NEW k \in 1..Len(tb) PROVE tb[k].last \in 1..Len(d)
    <3> DEFINE x == tb[k]
    <3> HIDE DEF x
    <3>1. x = [high |-> d[k].high, low |-> d[k].low, close |-> d[k].close,
               first |-> k, last |-> k, end |-> d[k].slot]
      BY <2>1 DEF x
    <3>2. x.last = k
      BY <3>1
    <3> QED
      BY <2>1, <3>2 DEF x
  <2> QED
    BY <2>1, <2>2 DEF tb
<1>2. CASE w # 0
  <2>0. w \in Nat \ {0}
    BY <1>2
  <2>1. /\ Framed(d, tb)
        /\ \A k \in 1..Len(tb) :
              /\ Ordered(Buckets(d, w))[k] \in Buckets(d, w)
              /\ tb[k] = BarOf(d, w, Ordered(Buckets(d, w))[k])
    BY <2>0, BucketBars
  <2> HIDE DEF tb
  <2>2. ASSUME NEW k \in 1..Len(tb) PROVE tb[k].last \in 1..Len(d)
    <3> DEFINE b == Ordered(Buckets(d, w))[k]
    <3>1. b \in Buckets(d, w) /\ tb[k] = BarOf(d, w, b)
      BY <2>1
    <3> HIDE DEF b
    <3>2. BarOf(d, w, b).last \in InBucket(d, w, b) /\ InBucket(d, w, b) \subseteq 1..Len(d)
      BY <2>0, <3>1, BarIs
    <3> QED
      BY <3>1, <3>2
  <2> QED
    BY <2>1, <2>2 DEF tb
<1> QED
  BY <1>1, <1>2

LEMMA SignalsAreProper ==
    ASSUME NEW d, Data(d), NEW w \in Nat, NEW setup, NEW s \in Signals(d, w, setup)
    PROVE  Proper(s)
<1> DEFINE tb == TriggerBars(d, w)
           zones == AdmittedZones(d, setup)
<1>1. d # << >>
  BY DEF Signals
<1>2. \/ \E k, z, t, dir : IsSimple(s, zones, tb, setup.confirm, k, z, t, dir)
      \/ \E p, dir, k : IsSetup(s, d, zones, tb, w, p, dir, k)
  BY <1>1, SignalsAre
<1>3. Framed(d, tb) /\ \A k \in 1..Len(tb) : tb[k].last \in 1..Len(d)
  BY FramedBars
<1>4. Len(d) \in Nat /\ DOMAIN tb = 1..Len(tb) /\ Len(tb) \in Nat
  BY <1>3 DEF Framed
<1> HIDE DEF tb, zones
<1>5. CASE \E k, z, t, dir : IsSimple(s, zones, tb, setup.confirm, k, z, t, dir)
  <2>1. PICK k, z, t, dir : IsSimple(s, zones, tb, setup.confirm, k, z, t, dir)
    BY <1>5
  <2>2. s.trigger # "3c" /\ s.entry = 0 /\ s.bar = tb[k].last /\ k \in 1..Len(tb)
    <3>1. s.trigger # "3c" /\ s.entry = 0 /\ s.bar = tb[k].last /\ s.status = "candidate" /\ s.time = tb[k].end
      BY <2>1, SimpleIsNot3c
    <3>2. k \in DOMAIN tb
      BY <2>1 DEF IsSimple
    <3> QED
      BY <1>4, <3>1, <3>2
  <2>3. s.bar \in 1..Len(d)
    BY <1>3, <2>2
  <2>4. s.bar \in Nat \ {0}
    BY <1>4, <2>3
  <2> QED
    BY <2>2, <2>4 DEF Proper
<1>6. CASE \E p, dir, k : IsSetup(s, d, zones, tb, w, p, dir, k)
  <2>1. PICK p, dir, k : IsSetup(s, d, zones, tb, w, p, dir, k)
    BY <1>6
  <2>2. s.trigger = "3c"
    <3>1. s = SetupSignal(d, tb, w, p, dir, k)
      BY <2>1 DEF IsSetup
    <3> QED
      BY <3>1 DEF SetupSignal
  <2>3. ASSUME s.status # "void" PROVE s.entry \in Nat \ {0} /\ s.bar = s.entry
    <3> DEFINE o == Out(tb, k)
               x == Fill(d, tb, w, o, dir)
    <3>1. /\ k \in 1..Len(tb) /\ o \in k + 1..Len(tb)
          /\ x # 0 /\ x \in Watched(d, tb, w, o)
          /\ s = [trigger |-> "3c", direction |-> dir, level |-> p, arrival |-> tb[k].last,
                  entry |-> x, time |-> tb[o].end, bar |-> x, status |-> "filled"]
      BY <1>3, <2>1, <2>3, FilledIs
    <3>2. o \in 1..Len(tb)
      <4> HIDE DEF o
      <4> QED
        BY <1>4, <3>1
    <3>3. x \in 1..Len(d)
      BY <1>3, <3>1, <3>2, WatchedIs
    <3> HIDE DEF o, x
    <3> QED
      BY <1>4, <3>1, <3>3
  <2> QED
    BY <2>2, <2>3 DEF Proper
<1> QED
  BY <1>2, <1>5, <1>6

\* The indices of a window, and those of the data.
Local(s, w) ==
    [sig |-> s, bar |-> s.bar - w.start + 1,
     entry |-> IF s.entry = 0 THEN 0 ELSE s.entry - w.start + 1]

LEMMA SlicedIs ==
    ASSUME NEW sigs, NEW w, NEW plan
    PROVE  \A l : l \in Sliced(sigs, w, plan) <=>
              \E s \in sigs : /\ Within(Actionable(s, plan), w) /\ l = Local(s, w)
                              /\ plan.fold_mode = "sessions" \/ l.bar \in 1..Size(w)
                              /\ s.trigger = "3c" => s.entry # 0 /\ l.entry \in 1..Size(w)
<1>1. \A s : Local(s, w).sig = s
  BY DEF Local
<1> DEFINE S == {Local(s, w) : s \in {x \in sigs : Within(Actionable(x, plan), w)}}
<1>2. Sliced(sigs, w, plan) =
         {l \in S : /\ plan.fold_mode = "sessions" \/ l.bar \in 1..Size(w)
                    /\ l.sig.trigger = "3c" => l.sig.entry # 0 /\ l.entry \in 1..Size(w)}
  BY DEF Sliced, Local
<1> QED
  BY <1>1, <1>2

LEMMA RowIs ==
    ASSUME NEW s, Proper(s), NEW w, w.start \in Int, w.stop \in Int, NEW plan,
           plan.fold_mode \in {"bars", "sessions"}
    PROVE  LET l == Local(s, w)
               Row == /\ Within(Actionable(s, plan), w)
                      /\ plan.fold_mode = "sessions" \/ l.bar \in 1..Size(w)
                      /\ s.trigger = "3c" => s.entry # 0 /\ l.entry \in 1..Size(w)
                      /\ EntryBar(l, Size(w)) # 0
           IN /\ Row <=> s.status # "void" /\ Owns(s, w, plan)
              /\ Row => EntryBar(l, Size(w)) + w.start - 1 = EntryTo(s)
<1> DEFINE l == Local(s, w)
           a == w.start
           b == w.stop
           n == Size(w)
<1>1. a \in Int /\ b \in Int /\ n = b - a + 1 /\ n \in Int
  BY DEF Size
<1>2. l.sig = s /\ l.bar = s.bar - a + 1 /\ l.entry = IF s.entry = 0 THEN 0 ELSE s.entry - a + 1
  BY DEF Local
<1>3. EntryBar(l, n) = LET e == IF s.trigger = "3c" THEN l.entry ELSE l.bar + 1
                       IN IF s.status # "void" /\ e <= n THEN e ELSE 0
  BY <1>2 DEF EntryBar
<1>4. \A i : Within(i, w) <=> i \in a..b
  BY DEF Within
<1> HIDE DEF l, a, b, n
<1>5. CASE s.status = "void"
  <2>1. EntryBar(l, n) = 0
    BY <1>3, <1>5
  <2> QED
    BY <1>5, <2>1 DEF l, n
<1>6. CASE s.status # "void" /\ s.trigger = "3c"
  <2>1. s.entry \in Nat \ {0} /\ s.bar = s.entry
    BY <1>6 DEF Proper
  <2>2. Actionable(s, plan) = s.entry /\ EntryTo(s) = s.entry
    BY <1>6, <2>1 DEF Actionable, EntryTo
  <2> DEFINE e == s.entry
             m == e - a + 1
  <2>3. l.entry = m /\ l.bar = m /\ e \in Int /\ m \in Int
    BY <1>1, <1>2, <2>1
  <2>4. EntryBar(l, n) = IF m <= n THEN m ELSE 0
    BY <1>3, <1>6, <2>3
  <2>5. (e \in a..b <=> m \in 1..n) /\ (m \in 1..n => m <= n /\ m # 0 /\ m + a - 1 = e)
    <3> HIDE DEF e
    <3> QED
      BY <1>1, <2>3
  <2>6. Owns(s, w, plan) <=> e \in a..b
    BY <1>4, <2>1, <2>2 DEF Owns
  <2>7. s.entry # 0 /\ s.bar = e
    BY <2>1
  <2> HIDE DEF e, m
  <2>8. /\ (/\ Within(Actionable(s, plan), w)
            /\ plan.fold_mode = "sessions" \/ l.bar \in 1..n
            /\ s.trigger = "3c" => s.entry # 0 /\ l.entry \in 1..n
            /\ EntryBar(l, n) # 0) <=> e \in a..b
        /\ e \in a..b => EntryBar(l, n) + a - 1 = EntryTo(s)
    <3>1. CASE m \in 1..n
      <4>1. e \in a..b /\ m <= n /\ m # 0 /\ m + a - 1 = e /\ EntryBar(l, n) = m
        BY <2>4, <2>5, <3>1
      <4>2. Within(Actionable(s, plan), w)
        BY <1>4, <2>2, <4>1 DEF e
      <4>3. EntryBar(l, n) + a - 1 = EntryTo(s)
        BY <2>2, <4>1 DEF e
      <4> QED
        BY <2>3, <2>7, <3>1, <4>1, <4>2, <4>3
    <3>2. CASE m \notin 1..n
      <4>1. e \notin a..b /\ l.entry \notin 1..n
        BY <2>3, <2>5, <3>2
      <4> QED
        BY <1>6, <4>1
    <3> QED
      BY <3>1, <3>2
  <2> QED
    BY <1>6, <2>6, <2>8 DEF l, n, a
<1>7. CASE s.status # "void" /\ s.trigger # "3c"
  <2>1. s.entry = 0 /\ s.bar \in Nat \ {0}
    BY <1>7 DEF Proper
  <2> DEFINE c == s.bar
             m == c - a + 1
  <2>2. EntryTo(s) = c + 1 /\ Actionable(s, plan) = IF plan.fold_mode = "sessions" THEN c + 1 ELSE c
    BY <1>7, <2>1 DEF Actionable, EntryTo
  <2>3. l.bar = m /\ c \in Int /\ m \in Int
    BY <1>1, <1>2, <2>1
  <2>4. EntryBar(l, n) = IF m + 1 <= n THEN m + 1 ELSE 0
    BY <1>3, <1>7, <2>3
  <2>5. Owns(s, w, plan) <=> c + 1 \in a..b /\ (plan.fold_mode = "sessions" \/ c \in a..b)
    BY <1>4, <2>2 DEF Owns
  <2>6. s.trigger # "3c"
    BY <1>7
  <2> HIDE DEF c, m
  <2>7. m = c - a + 1
    BY DEF c, m
  <2>8. /\ (/\ Within(Actionable(s, plan), w)
            /\ plan.fold_mode = "sessions" \/ l.bar \in 1..n
            /\ EntryBar(l, n) # 0) <=> c + 1 \in a..b /\ (plan.fold_mode = "sessions" \/ c \in a..b)
        /\ c + 1 \in a..b => EntryBar(l, n) + a - 1 = EntryTo(s)
    <3>1. c + 1 \in a..b => EntryBar(l, n) = m + 1 /\ EntryBar(l, n) + a - 1 = EntryTo(s)
      BY <1>1, <2>2, <2>3, <2>4, <2>7
    <3>2. CASE plan.fold_mode = "sessions"
      <4>1. Within(Actionable(s, plan), w) <=> c + 1 \in a..b
        BY <1>4, <2>2, <3>2
      <4>2. c + 1 \in a..b => m + 1 # 0
        BY <1>1, <2>3, <2>7
      <4> QED
        BY <3>1, <3>2, <4>1, <4>2
    <3>3. CASE plan.fold_mode # "sessions"
      <4>1. Within(Actionable(s, plan), w) <=> c \in a..b
        BY <1>4, <2>2, <3>3
      <4>2. c \in a..b <=> m \in 1..n
        BY <1>1, <2>3, <2>7
      <4>3. c \in a..b => (EntryBar(l, n) # 0 <=> c + 1 \in a..b)
        BY <1>1, <2>3, <2>4, <2>7
      <4> QED
        BY <2>3, <3>1, <3>3, <4>1, <4>2, <4>3
    <3> QED
      BY <3>2, <3>3
  <2> QED
    BY <1>7, <2>5, <2>6, <2>8 DEF l, n, a
<1> QED
  BY <1>5, <1>6, <1>7

-----------------------------------------------------------------------------
(* Folds *)

Ranges(d, plan) ==
    IF plan.fold_mode = "bars" THEN [i \in DOMAIN d |-> [start |-> i, stop |-> i]] ELSE SessionRanges(d, plan.otf)

FoldOf(d, plan, n) ==
    [id |-> n,
     train |-> [start |-> Ranges(d, plan)[IF plan.window_mode = "anchored" THEN 1 ELSE n - plan.train].start,
                stop  |-> Ranges(d, plan)[n - 1].stop],
     test  |-> [start |-> Ranges(d, plan)[n].start, stop |-> Ranges(d, plan)[n + plan.test - 1].stop]]

LEMMA RangesAre ==
    ASSUME NEW d, Data(d), NEW plan, IsPlan(plan)
    PROVE  /\ Len(Ranges(d, plan)) \in Nat
           /\ \A k \in 1..Len(Ranges(d, plan)) :
                 /\ Ranges(d, plan)[k].start \in 1..Len(d) /\ Ranges(d, plan)[k].stop \in 1..Len(d)
<1> DEFINE R == Ranges(d, plan)
<1>1. Len(d) \in Nat /\ DOMAIN d = 1..Len(d)
  BY DEF Data
<1>2. CASE plan.fold_mode = "bars"
  <2>1. R = [i \in 1..Len(d) |-> [start |-> i, stop |-> i]]
    BY <1>1, <1>2 DEF Ranges
  <2> HIDE DEF R
  <2>2. Len(R) = Len(d) /\ \A k \in 1..Len(d) : R[k].start = k /\ R[k].stop = k
    BY <1>1, <2>1
  <2> QED
    BY <1>1, <2>2 DEF R
<1>3. CASE plan.fold_mode # "bars"
  <2> DEFINE w == plan.otf.session
             B == Buckets(d, w)
             ids == Ordered(B)
             Own(k) == InBucket(d, w, ids[k])
  <2>0. w \in Nat \ {0}
    BY DEF IsPlan
  <2>1. R = [k \in DOMAIN ids |-> [start |-> Min(Own(k)), stop |-> Max(Own(k))]]
    BY <1>3 DEF Ranges, SessionRanges, SessionOf, Buckets, InBucket
  <2>2. DOMAIN ids = 1..Cardinality(B) /\ Cardinality(B) \in Nat /\ \A k \in 1..Cardinality(B) : ids[k] \in B
    BY <2>0, BucketsAre, OrderedIs
  <2>3. \A b \in B : InBucket(d, w, b) # {} /\ InBucket(d, w, b) \subseteq 1..Len(d)
    BY <2>0, BarIs
  <2> HIDE DEF R, B, ids
  <2>4. Len(R) = Cardinality(B) /\ \A k \in 1..Cardinality(B) : R[k].start = Min(Own(k)) /\ R[k].stop = Max(Own(k))
    BY <2>1, <2>2
  <2>5. ASSUME NEW k \in 1..Cardinality(B) PROVE Min(Own(k)) \in 1..Len(d) /\ Max(Own(k)) \in 1..Len(d)
    <3>1. Own(k) # {} /\ Own(k) \subseteq 1..Len(d)
      BY <2>2, <2>3
    <3> HIDE DEF Own
    <3>2. Min(Own(k)) \in Own(k) /\ Max(Own(k)) \in Own(k)
      BY <1>1, <3>1, EndsAre
    <3> QED
      BY <3>1, <3>2
  <2> QED
    BY <2>2, <2>4, <2>5 DEF R
<1> QED
  BY <1>2, <1>3

LEMMA FoldsAre ==
    ASSUME NEW d, Data(d), NEW plan, IsPlan(plan)
    PROVE  /\ Folds(d, plan) = {FoldOf(d, plan, n) : n \in TestStarts(Len(Ranges(d, plan)), plan)}
           /\ Len(Ranges(d, plan)) \in Nat
           /\ \A f \in Folds(d, plan) :
                 /\ f = FoldOf(d, plan, f.id)
                 /\ f.id \in 1..Len(Ranges(d, plan))
                 /\ f.test.start \in 1..Len(d) /\ f.test.stop \in 1..Len(d)
                 /\ f.train.start \in 1..Len(d) /\ f.train.stop \in 1..Len(d)
<1> DEFINE R == Ranges(d, plan)
           N == TestStarts(Len(R), plan)
<1>1. Folds(d, plan) = {FoldOf(d, plan, n) : n \in N}
  <2>1. R = IF plan.fold_mode = "bars" THEN [i \in DOMAIN d |-> [start |-> i, stop |-> i]]
            ELSE SessionRanges(d, plan.otf)
    BY DEF Ranges
  <2> QED
    BY <2>1 DEF Folds, FoldOf
<1>2. Len(R) \in Nat /\ \A k \in 1..Len(R) : R[k].start \in 1..Len(d) /\ R[k].stop \in 1..Len(d)
  BY RangesAre
<1>3. plan.train \in Nat \ {0} /\ plan.test \in Nat \ {0}
  BY DEF IsPlan
<1> DEFINE t == plan.train
           m == plan.test
           u == Len(R)
<1>4. \A n \in N : n \in t + 1..u - m + 1
  BY DEF TestStarts
<1> HIDE DEF t, m, u, N
<1>5. \A n \in N : n \in 1..u /\ n - 1 \in 1..u /\ n + m - 1 \in 1..u /\ n - t \in 1..u /\ 1 \in 1..u
  BY <1>2, <1>3, <1>4, Z3T(60) DEF t, m, u
<1>6. ASSUME NEW f \in Folds(d, plan)
      PROVE  /\ f = FoldOf(d, plan, f.id) /\ f.id \in 1..u
             /\ f.test.start \in 1..Len(d) /\ f.test.stop \in 1..Len(d)
             /\ f.train.start \in 1..Len(d) /\ f.train.stop \in 1..Len(d)
  <2>1. PICK n \in N : f = FoldOf(d, plan, n)
    BY <1>1
  <2> DEFINE i == IF plan.window_mode = "anchored" THEN 1 ELSE n - plan.train
  <2>2. f = [id |-> n, train |-> [start |-> R[i].start, stop |-> R[n - 1].stop],
             test |-> [start |-> R[n].start, stop |-> R[n + plan.test - 1].stop]]
    BY <2>1 DEF FoldOf
  <2>3. i \in 1..u /\ n \in 1..u /\ n - 1 \in 1..u /\ n + plan.test - 1 \in 1..u
    BY <1>5 DEF t, m
  <2> HIDE DEF i, R
  <2>4. /\ f.id = n /\ f.test.start = R[n].start /\ f.test.stop = R[n + plan.test - 1].stop
        /\ f.train.start = R[i].start /\ f.train.stop = R[n - 1].stop
    BY <2>2
  <2> QED
    BY <1>2, <2>1, <2>3, <2>4 DEF u
<1> QED
  BY <1>1, <1>2, <1>6 DEF u, N

\* The rows of a fold are the signals its test window owns, at their entries.
RowsOf(sigs, f, plan) ==
    {[sig |-> s, fold |-> f.id, entry |-> EntryTo(s)] : s \in {x \in Traded(sigs) : Owns(x, f.test, plan)}}

LEMMA RowsAre ==
    ASSUME NEW d, Data(d), NEW sigs, \A s \in sigs : Proper(s), NEW plan, IsPlan(plan), ~plan.filter,
           NEW f \in Folds(d, plan)
    PROVE  OutOfSample(d, sigs, plan, f) = RowsOf(sigs, f, plan)
<1> DEFINE w == f.test
           n == Size(w)
           Row(s) == /\ Within(Actionable(s, plan), w)
                     /\ plan.fold_mode = "sessions" \/ Local(s, w).bar \in 1..n
                     /\ s.trigger = "3c" => s.entry # 0 /\ Local(s, w).entry \in 1..n
                     /\ EntryBar(Local(s, w), n) # 0
<1>1. f.test.start \in 1..Len(d) /\ f.test.stop \in 1..Len(d)
  BY FoldsAre
<1>2. w.start \in Int /\ w.stop \in Int /\ plan.fold_mode \in {"bars", "sessions"}
  <2>1. w.start \in Int /\ w.stop \in Int
    BY <1>1
  <2>2. plan.fold_mode \in {"bars", "sessions"}
    BY DEF IsPlan
  <2> QED
    BY <2>1, <2>2
<1> HIDE DEF w
<1>3. ASSUME NEW s \in sigs
      PROVE  /\ Row(s) <=> s.status # "void" /\ Owns(s, w, plan)
             /\ Row(s) => EntryBar(Local(s, w), n) + w.start - 1 = EntryTo(s)
  <2>1. Proper(s)
    OBVIOUS
  <2> QED
    BY <1>2, <2>1, RowIs
<1>4. Admitted(d, sigs, w, plan) = Sliced(sigs, w, plan)
  BY DEF Admitted
<1>5. \A l : l \in Sliced(sigs, w, plan) /\ EntryBar(l, n) # 0 <=> \E s \in sigs : l = Local(s, w) /\ Row(s)
  <2>1. \A l : l \in Sliced(sigs, w, plan) <=>
              \E s \in sigs : /\ Within(Actionable(s, plan), w) /\ l = Local(s, w)
                              /\ plan.fold_mode = "sessions" \/ l.bar \in 1..Size(w)
                              /\ s.trigger = "3c" => s.entry # 0 /\ l.entry \in 1..Size(w)
    BY SlicedIs
  <2> QED
    BY <2>1
<1>6. \A s : Local(s, w).sig = s
  BY DEF Local
<1> DEFINE S == {l \in Sliced(sigs, w, plan) : EntryBar(l, n) # 0}
           T == {x \in Traded(sigs) : Owns(x, w, plan)}
<1>7. OutOfSample(d, sigs, plan, f) =
         {[sig |-> l.sig, fold |-> f.id, entry |-> EntryBar(l, n) + w.start - 1] : l \in S}
  BY <1>4 DEF OutOfSample, w
<1>8. \A l : l \in S <=> \E s \in T : l = Local(s, w)
  BY <1>3, <1>5 DEF Traded
<1>9. \A s \in T : Local(s, w).sig = s /\ EntryBar(Local(s, w), n) + w.start - 1 = EntryTo(s)
  BY <1>3, <1>6 DEF Traded
<1> HIDE DEF S, T, n, Row
<1>10. OutOfSample(d, sigs, plan, f) = {[sig |-> s, fold |-> f.id, entry |-> EntryTo(s)] : s \in T}
  <2> DEFINE O == OutOfSample(d, sigs, plan, f)
             A(s) == [sig |-> s, fold |-> f.id, entry |-> EntryTo(s)]
  <2>1. \A r : r \in O <=> \E l \in S : r = [sig |-> l.sig, fold |-> f.id, entry |-> EntryBar(l, n) + w.start - 1]
    BY <1>7
  <2>2. \A r : r \in O <=> \E s \in T : r = A(s)
    BY <1>8, <1>9, <2>1
  <2> HIDE DEF O, A
  <2>3. O = {A(s) : s \in T}
    BY <2>2
  <2> QED
    BY <2>3 DEF O, A
<1> QED
  BY <1>10 DEF T, w, RowsOf

OwnersOf(d, s, plan) == {f.id : f \in {g \in Folds(d, plan) : Owns(s, g.test, plan)}}
OwnerOf(d, s, plan)  == IF plan.overlap = "last" THEN Max(OwnersOf(d, s, plan)) ELSE Min(OwnersOf(d, s, plan))
RowOf(s, i)          == [sig |-> s, fold |-> i, entry |-> EntryTo(s)]

LEMMA OwnersAre ==
    ASSUME NEW d, Data(d), NEW plan, IsPlan(plan), NEW s
    PROVE  /\ \A i \in OwnersOf(d, s, plan) : i \in Nat
           /\ OwnersOf(d, s, plan) # {} =>
                 /\ OwnerOf(d, s, plan) \in OwnersOf(d, s, plan)
           /\ ~Overlapping(Folds(d, plan)) => \A i, j \in OwnersOf(d, s, plan) : i = j
<1> DEFINE F == Folds(d, plan)
           O == OwnersOf(d, s, plan)
           n == Len(Ranges(d, plan))
<1>1. /\ n \in Nat
      /\ \A f \in F : f = FoldOf(d, plan, f.id) /\ f.id \in 1..n /\ f.test.start \in 1..Len(d) /\ f.test.stop \in 1..Len(d)
  BY FoldsAre
<1>2. Len(d) \in Nat
  BY DEF Data
<1>3. \A i : i \in O <=> \E f \in F : Owns(s, f.test, plan) /\ i = f.id
  BY DEF OwnersOf
<1> HIDE DEF F, O, n
<1>4. O \subseteq 1..n /\ \A i \in O : i \in Nat
  BY <1>1, <1>3
<1>5. O # {} => Min(O) \in O /\ Max(O) \in O
  BY <1>1, <1>4, EndsAre
<1>6. O # {} => OwnerOf(d, s, plan) \in O
  BY <1>5 DEF OwnerOf, O
<1>7. ASSUME ~Overlapping(F), NEW i \in O, NEW j \in O PROVE i = j
  <2>1. \A f, g \in F : Owns(s, f.test, plan) /\ Owns(s, g.test, plan) => ~(f.id < g.id)
    <3> SUFFICES ASSUME NEW f \in F, NEW g \in F, Owns(s, f.test, plan), Owns(s, g.test, plan), f.id < g.id
                 PROVE  FALSE
      OBVIOUS
    <3>1. ~(g.test.start <= f.test.stop)
      BY <1>7 DEF Overlapping
    <3>2. EntryTo(s) \in f.test.start..f.test.stop /\ EntryTo(s) \in g.test.start..g.test.stop
      BY DEF Owns, Within
    <3>3. f.test.stop \in Int /\ g.test.start \in Int
      BY <1>1, <1>2
    <3> DEFINE x == EntryTo(s)
               a == g.test.start
               b == f.test.stop
    <3>4. x \in Int /\ a <= x /\ x <= b
      BY <1>1, <1>2, <3>2
    <3> HIDE DEF x, a, b
    <3>5. a \in Int /\ b \in Int /\ ~(a <= b)
      BY <3>1, <3>3 DEF a, b
    <3> QED
      BY <3>4, <3>5
  <2>2. ~(i < j) /\ ~(j < i)
    BY <1>3, <2>1
  <2>3. i \in Nat /\ j \in Nat
    BY <1>4
  <2> QED
    BY <2>2, <2>3
<1> QED
  BY <1>4, <1>6, <1>7 DEF F, O

StitchedRows(d, sigs, plan) ==
    {RowOf(s, OwnerOf(d, s, plan)) : s \in {x \in Traded(sigs) : OwnersOf(d, x, plan) # {}}}

LEMMA StitchedIs ==
    ASSUME NEW d, Data(d), NEW sigs, \A s \in sigs : Proper(s), NEW plan, IsPlan(plan), ~plan.filter,
           ~(Overlapping(Folds(d, plan)) /\ plan.overlap = "reject")
    PROVE  Stitched(d, sigs, plan) = StitchedRows(d, sigs, plan)
<1> DEFINE F == Folds(d, plan)
           raw == UNION {OutOfSample(d, sigs, plan, f) : f \in F}
           O(s) == OwnersOf(d, s, plan)
           T == Traded(sigs)
           Same(r) == {q.fold : q \in {x \in raw : x.sig = r.sig /\ x.entry = r.entry}}
           Owner(s) == OwnerOf(d, s, plan)
           Rows == {RowOf(s, Owner(s)) : s \in {x \in T : O(x) # {}}}
<1>1. ASSUME NEW f \in F
      PROVE  OutOfSample(d, sigs, plan, f) = {RowOf(s, f.id) : s \in {x \in T : Owns(x, f.test, plan)}}
  <2>1. OutOfSample(d, sigs, plan, f) = RowsOf(sigs, f, plan)
    BY RowsAre
  <2> QED
    BY <2>1 DEF RowOf, RowsOf
<1>2. \A s : \A i : i \in O(s) <=> \E f \in F : Owns(s, f.test, plan) /\ i = f.id
  BY DEF OwnersOf
<1>3. \A r : r \in raw <=> \E s \in T : \E i \in O(s) : r = RowOf(s, i)
  <2> HIDE DEF F, O, T
  <2>1. ASSUME NEW r \in raw PROVE \E s \in T : \E i \in O(s) : r = RowOf(s, i)
    <3>1. PICK f \in F : r \in OutOfSample(d, sigs, plan, f)
      OBVIOUS
    <3>2. PICK s \in T : Owns(s, f.test, plan) /\ r = RowOf(s, f.id)
      BY <1>1, <3>1
    <3> QED
      BY <1>2, <3>2
  <2>2. ASSUME NEW s \in T, NEW i \in O(s) PROVE RowOf(s, i) \in raw
    <3>1. PICK f \in F : Owns(s, f.test, plan) /\ i = f.id
      BY <1>2
    <3>2. RowOf(s, i) \in OutOfSample(d, sigs, plan, f)
      BY <1>1, <3>1
    <3> QED
      BY <3>2
  <2> HIDE DEF raw
  <2> QED
    BY <2>1, <2>2
<1>4. /\ \A s : \A i \in O(s) : i \in Nat
      /\ \A s : O(s) # {} => Owner(s) \in O(s)
      /\ ~Overlapping(F) => \A s : \A i, j \in O(s) : i = j
  <2>1. ASSUME NEW s
        PROVE  /\ \A i \in O(s) : i \in Nat
               /\ O(s) # {} => Owner(s) \in O(s)
               /\ ~Overlapping(F) => \A i, j \in O(s) : i = j
    BY OwnersAre
  <2> HIDE DEF F, O, Owner
  <2> QED
    BY <2>1
<1>5. \A s : \A i : RowOf(s, i).sig = s /\ RowOf(s, i).fold = i /\ RowOf(s, i).entry = EntryTo(s)
  BY DEF RowOf
<1>60. StitchedRows(d, sigs, plan) = Rows
  BY DEF StitchedRows
<1>6. \A r : r \in Rows <=> \E s \in T : O(s) # {} /\ r = RowOf(s, Owner(s))
  OBVIOUS
<1> HIDE DEF F, O, T, raw, Rows
<1>7. CASE ~Overlapping(F)
  <2>1. Stitched(d, sigs, plan) = raw
    BY <1>7 DEF Stitched, F, raw
  <2>2. \A s : \A i \in O(s) : i = Owner(s)
    <3> HIDE DEF Owner
    <3> QED
      BY <1>4, <1>7
  <2>3. \A r : r \in raw <=> r \in Rows
    <3> HIDE DEF Owner
    <3>1. ASSUME NEW r \in raw PROVE r \in Rows
      <4>1. PICK s \in T : \E i \in O(s) : r = RowOf(s, i)
        BY <1>3
      <4>2. PICK i \in O(s) : r = RowOf(s, i)
        BY <4>1
      <4>3. r = RowOf(s, Owner(s)) /\ O(s) # {}
        BY <2>2, <4>2
      <4> QED
        BY <1>6, <4>3
    <3>2. ASSUME NEW r \in Rows PROVE r \in raw
      BY <1>3, <1>4, <1>6
    <3> QED
      BY <3>1, <3>2
  <2> QED
    BY <1>60, <2>1, <2>3
<1>8. CASE Overlapping(F)
  <2>1. plan.overlap # "reject" /\ plan.overlap \in {"first", "last"}
    BY <1>8 DEF IsPlan, F
  <2>2. Stitched(d, sigs, plan) =
           {r \in raw : r.fold = IF plan.overlap = "first" THEN Min(Same(r)) ELSE Max(Same(r))}
    BY <1>8, <2>1 DEF Stitched, F, raw
  <2>3. ASSUME NEW s \in T, NEW i \in O(s) PROVE Same(RowOf(s, i)) = O(s)
    <3>1. \A x : x \in raw /\ x.sig = s /\ x.entry = EntryTo(s) <=> \E j \in O(s) : x = RowOf(s, j)
      <4>1. ASSUME NEW x \in raw, x.sig = s PROVE \E j \in O(s) : x = RowOf(s, j)
        <5>1. PICK q \in T : \E j \in O(q) : x = RowOf(q, j)
          BY <1>3
        <5>2. q = s
          BY <1>5, <4>1, <5>1
        <5> QED
          BY <5>1, <5>2
      <4>2. ASSUME NEW j \in O(s) PROVE RowOf(s, j) \in raw
        BY <1>3
      <4> QED
        BY <1>5, <4>1, <4>2
    <3> DEFINE r == RowOf(s, i)
    <3>2. r.sig = s /\ r.entry = EntryTo(s)
      BY <1>5
    <3> HIDE DEF r
    <3>3. \A j : j \in Same(r) <=> \E x \in raw : x.sig = s /\ x.entry = EntryTo(s) /\ j = x.fold
      BY <3>2
    <3> HIDE DEF Same
    <3>4. \A j : j \in Same(r) <=> j \in O(s)
      BY <1>5, <3>1, <3>3
    <3> QED
      BY <3>4 DEF r
  <2> HIDE DEF Same
  <2>4. ASSUME NEW s \in T, NEW i \in O(s)
        PROVE  (IF plan.overlap = "first" THEN Min(Same(RowOf(s, i))) ELSE Max(Same(RowOf(s, i)))) = Owner(s)
    BY <2>1, <2>3 DEF OwnerOf, O
  <2> DEFINE Kept == {r \in raw : r.fold = IF plan.overlap = "first" THEN Min(Same(r)) ELSE Max(Same(r))}
  <2>5. \A r : r \in Kept <=> r \in Rows
    <3> HIDE DEF Owner
    <3>1. ASSUME NEW r \in raw, r.fold = IF plan.overlap = "first" THEN Min(Same(r)) ELSE Max(Same(r))
          PROVE  r \in Rows
      <4>1. PICK s \in T : \E i \in O(s) : r = RowOf(s, i)
        BY <1>3
      <4>2. PICK i \in O(s) : r = RowOf(s, i)
        BY <4>1
      <4>3. r.fold = i /\ r.fold = Owner(s)
        BY <1>5, <2>4, <3>1, <4>2
      <4> QED
        BY <1>6, <4>2, <4>3
    <3>2. ASSUME NEW r \in Rows PROVE r \in Kept
      <4>1. PICK s \in T : O(s) # {} /\ r = RowOf(s, Owner(s))
        BY <1>6
      <4>2. Owner(s) \in O(s)
        BY <1>4, <4>1
      <4> DEFINE i == Owner(s)
      <4>3. r \in raw /\ r.fold = i
        BY <1>3, <1>5, <4>1, <4>2
      <4>4. (IF plan.overlap = "first" THEN Min(Same(r)) ELSE Max(Same(r))) = i
        BY <2>4, <4>1, <4>2
      <4> QED
        BY <4>3, <4>4
    <3> QED
      BY <3>1, <3>2
  <2> QED
    <3>1. Kept = Rows
      <4> HIDE DEF Kept
      <4> QED
        BY <2>5
    <3> QED
      BY <1>60, <2>2, <3>1
<1> QED
  BY <1>7, <1>8

\* A row of the stitched walk-forward stands for a signal exactly once, in the window that
\* owns its entry bar and on that bar, however long the data, for every plan: the
\* arithmetic of windows, of local and global indices and of overlaps loses and doubles
\* none (walk_forward.py, _slice_signals and _stitch_walk_forward_oos).
THEOREM EveryEntryOwnedOnce == Spec => []OwnedOnce
<1>1. ASSUME Built PROVE OwnedOnce
  <2> SUFFICES ASSUME NEW plan \in Plans, ~plan.filter /\ ~(Overlapping(Folds(df, plan)) /\ plan.overlap = "reject")
               PROVE  Stitched(df, signals, plan) = StitchedRows(df, signals, plan)
    BY DEF OwnedOnce, StitchedRows, RowOf, OwnerOf, OwnersOf, Owns, EntryTo
  <2>1. Data(df) /\ feed.trigger_timeframe \in Nat /\ signals = Signals(df, feed.trigger_timeframe, feed.setup)
    BY <1>1, FeedIs DEF Built
  <2>2. \A s \in signals : Proper(s)
    BY <2>1, SignalsAreProper
  <2>3. IsPlan(plan)
    BY PlansAssumption
  <2> QED
    BY <2>1, <2>2, <2>3, StitchedIs
<1> QED
  BY <1>1, BuiltInit, BuiltStep, PTL DEF Spec
-----------------------------------------------------------------------------
(* Stretches of the data *)

LEMMA PartIs ==
    ASSUME NEW d, Data(d), NEW x \in Nat \ {0}, NEW y \in Int, y <= Len(d)
    PROVE  /\ Data(SubSeq(d, x, y))
           /\ Len(SubSeq(d, x, y)) = IF x <= y THEN y - x + 1 ELSE 0
           /\ \A i \in 1..Len(SubSeq(d, x, y)) : x + i - 1 \in x..y /\ SubSeq(d, x, y)[i] = d[x + i - 1]
           /\ \A j \in x..y : /\ j - x + 1 \in 1..Len(SubSeq(d, x, y))
                              /\ SubSeq(d, x, y)[j - x + 1] = d[j]
<1> DEFINE a == SubSeq(d, x, y)
           S == {d[i] : i \in x..y}
           n == IF x <= y THEN y - x + 1 ELSE 0
<1>1. /\ Len(d) \in Nat
      /\ \A i \in 1..Len(d) : d[i].slot \in Nat /\ d[i].high \in Int /\ d[i].low \in Int /\ d[i].close \in Int
      /\ \A i, j \in 1..Len(d) : i < j => d[i].slot < d[j].slot
  BY DEF Data
<1>2. \A i \in x..y : d[i] \in S
  OBVIOUS
<1>3. x \in Int /\ y \in Int
  OBVIOUS
<1>4. a \in Seq(S) /\ Len(a) = n /\ \A i \in 1..y - x + 1 : a[i] = d[x + i - 1]
  BY <1>2, <1>3, SubSeqProperties
<1> HIDE DEF a, S
<1>5. n \in Nat /\ DOMAIN a = 1..n
  BY <1>3, <1>4
<1>6. \A i \in 1..n : i \in 1..y - x + 1 /\ x + i - 1 \in x..y /\ x + i - 1 \in 1..Len(d)
  BY <1>1
<1>7. \A j \in x..y : j - x + 1 \in 1..n /\ x + (j - x + 1) - 1 = j
  OBVIOUS
<1>8. \A i \in 1..n : a[i] = d[x + i - 1]
  BY <1>4, <1>6
<1>9. \A i, j \in 1..n : i < j => a[i].slot < a[j].slot
  <2> SUFFICES ASSUME NEW i \in 1..n, NEW j \in 1..n, i < j PROVE a[i].slot < a[j].slot
    OBVIOUS
  <2>1. x + i - 1 < x + j - 1
    BY <1>5
  <2> QED
    BY <1>1, <1>6, <1>8, <2>1
<1>10. \A i \in 1..n : a[i].slot \in Nat /\ a[i].high \in Int /\ a[i].low \in Int /\ a[i].close \in Int
  BY <1>1, <1>6, <1>8
<1> HIDE DEF n
<1>11. Data(a)
  BY <1>4, <1>5, <1>9, <1>10 DEF Data
<1> QED
  BY <1>4, <1>6, <1>7, <1>8, <1>11 DEF a, n

\* How many bars had closed by t.
Heard(d, t) == Cardinality({i \in DOMAIN d : d[i].slot < t})

LEMMA HeardIs ==
    ASSUME NEW d, Data(d), NEW t \in Int
    PROVE  Heard(d, t) \in 0..Len(d) /\ \A i \in 1..Len(d) : d[i].slot < t <=> i <= Heard(d, t)
<1> DEFINE T == {i \in DOMAIN d : d[i].slot < t}
<1>1. /\ Len(d) \in Nat /\ DOMAIN d = 1..Len(d) /\ \A i \in 1..Len(d) : d[i].slot \in Nat
      /\ \A i, j \in 1..Len(d) : i < j => d[i].slot < d[j].slot
  BY DEF Data
<1>2. PICK m \in 0..Len(d) : \A i \in 1..Len(d) : d[i].slot < t <=> i <= m
  <2>1. CASE T = {}
    <3>1. \A i \in 1..Len(d) : ~(d[i].slot < t) /\ ~(i <= 0)
      BY <1>1, <2>1
    <3>2. 0 \in 0..Len(d)
      BY <1>1
    <3> QED
      BY <3>1, <3>2
  <2>2. CASE T # {}
    <3>1. T \subseteq 1..Len(d)
      BY <1>1
    <3> HIDE DEF T
    <3>2. Max(T) \in T /\ \A i \in T : i <= Max(T)
      BY <1>1, <2>2, <3>1, EndsAre
    <3>3. Max(T) \in 1..Len(d) /\ d[Max(T)].slot < t
      BY <1>1, <3>2 DEF T
    <3> DEFINE m == Max(T)
    <3> HIDE DEF m
    <3>4. ASSUME NEW i \in 1..Len(d), i <= m PROVE d[i].slot < t
      <4>1. i = m \/ d[i].slot < d[m].slot
        BY <1>1, <3>3, <3>4 DEF m
      <4> QED
        BY <1>1, <3>3, <4>1 DEF m
    <3>5. ASSUME NEW i \in 1..Len(d), d[i].slot < t PROVE i <= m
      BY <1>1, <3>2, <3>5 DEF T, m
    <3>6. m \in 0..Len(d)
      BY <1>1, <3>3 DEF m
    <3> QED
      BY <3>4, <3>5, <3>6
  <2> QED
    BY <2>1, <2>2
<1>3. T = 1..m
  BY <1>1, <1>2
<1>4. Cardinality(1..m) = m
  BY <1>1, <1>2, FS_Interval
<1>5. Heard(d, t) = m
  BY <1>3, <1>4 DEF Heard
<1> QED
  BY <1>2, <1>5

-----------------------------------------------------------------------------
(* One-timeframing on a part of the bars *)

Counts(bars) == Len(bars) \in Nat /\ DOMAIN bars = 1..Len(bars)

IsStreaks(g, breaks) == g = [k \in DOMAIN breaks |-> IF breaks[k] THEN 0 ELSE g[k - 1] + 1]

LEMMA StreaksAreChosen == ASSUME NEW breaks PROVE Streaks(breaks) = CHOOSE g : IsStreaks(g, breaks)
  BY DEF Streaks, IsStreaks

LEMMA StreaksAre ==
    ASSUME NEW n \in Nat, NEW breaks, DOMAIN breaks = 1..n, n > 0 => breaks[1]
    PROVE  \A k \in 1..n : /\ Streaks(breaks)[k] \in Nat
                           /\ Streaks(breaks)[k] = IF breaks[k] THEN 0 ELSE Streaks(breaks)[k - 1] + 1
                           /\ ~breaks[k] => k - 1 \in 1..n
<1> DEFINE e == [z \in (1..n) \X Nat |-> IF breaks[z[1]] THEN 0 ELSE z[2] + 1]
<1>1. e \in StepsOn(n, Nat) /\ \A i \in 1..n : \A v \in Nat : e[<<i, v>>] = IF breaks[i] THEN 0 ELSE v + 1
  BY DEF StepsOn
<1> HIDE DEF e
<1>2. PICK h : IsChain(h, n, Nat, 0, e)
  BY <1>1, ChainExists
<1>3. h \in [0..n -> Nat] /\ \A i \in 1..n : h[i] = e[<<i, h[i - 1]>>]
  BY <1>2 DEF IsChain
<1>4. \A k \in 1..n : k \in 0..n /\ k - 1 \in 0..n /\ (k # 1 => k - 1 \in 1..n) /\ (~breaks[k] => k # 1)
  OBVIOUS
<1>5. \A k \in 1..n : h[k] = IF breaks[k] THEN 0 ELSE h[k - 1] + 1
  BY <1>1, <1>3, <1>4
<1> DEFINE g == [k \in 1..n |-> h[k]]
<1>6. \A k \in 1..n : g[k] = IF breaks[k] THEN 0 ELSE g[k - 1] + 1
  BY <1>4, <1>5
<1>7. g = [k \in 1..n |-> IF breaks[k] THEN 0 ELSE g[k - 1] + 1]
  BY <1>6
<1> HIDE DEF g
<1>8. IsStreaks(g, breaks)
  BY <1>7 DEF IsStreaks
<1>9. IsStreaks(Streaks(breaks), breaks)
  BY <1>8, StreaksAreChosen
<1> DEFINE u == Streaks(breaks)
<1>10. u = [k \in 1..n |-> IF breaks[k] THEN 0 ELSE u[k - 1] + 1]
  BY <1>9 DEF IsStreaks
<1> HIDE DEF u
<1>11. \A k \in 1..n : u[k] = IF breaks[k] THEN 0 ELSE u[k - 1] + 1
  BY <1>10, Zenon
<1> DEFINE N == {k \in Nat : k \in 1..n => u[k] \in Nat}
<1>12. 0 \in N
  OBVIOUS
<1>13. ASSUME NEW k \in N PROVE k + 1 \in N
  <2> SUFFICES ASSUME k + 1 \in 1..n PROVE u[k + 1] \in Nat
    OBVIOUS
  <2> DEFINE m == k + 1
  <2>1. m \in 1..n /\ m - 1 = k /\ k \in Nat
    OBVIOUS
  <2> HIDE DEF m
  <2>2. CASE breaks[m]
    BY <1>11, <2>1, <2>2 DEF m
  <2>3. CASE ~breaks[m]
    <3>1. u[k] \in Nat
      BY <1>4, <2>1, <2>3
    <3>2. u[k] + 1 \in Nat
      BY <3>1
    <3> QED
      BY <1>11, <2>1, <2>3, <3>2 DEF m
  <2> QED
    BY <2>2, <2>3
<1> HIDE DEF N
<1>14. N = Nat
  <2>1. N \in SUBSET Nat
    BY DEF N
  <2> QED
    BY <1>12, <1>13, <2>1, Counting
<1>15. \A k \in 1..n : u[k] \in Nat
  BY <1>14 DEF N
<1> QED
  BY <1>4, <1>11, <1>15 DEF u

LEMMA RunsAre ==
    ASSUME NEW bars, Counts(bars)
    PROVE  \A k \in 1..Len(bars) :
              /\ HigherLows(bars)[k] \in Nat /\ LowerHighs(bars)[k] \in Nat
              /\ HigherLows(bars)[k] = IF Opens(bars, k) \/ bars[k].low <= bars[k - 1].low THEN 0
                                       ELSE HigherLows(bars)[k - 1] + 1
              /\ LowerHighs(bars)[k] = IF Opens(bars, k) \/ bars[k].high >= bars[k - 1].high THEN 0
                                       ELSE LowerHighs(bars)[k - 1] + 1
              /\ ~Opens(bars, k) => k - 1 \in 1..Len(bars)
<1> DEFINE n == Len(bars)
           b == [k \in DOMAIN bars |-> Opens(bars, k) \/ bars[k].low <= bars[k - 1].low]
           c == [k \in DOMAIN bars |-> Opens(bars, k) \/ bars[k].high >= bars[k - 1].high]
<1>1. n \in Nat /\ DOMAIN bars = 1..n
  BY DEF Counts
<1>2. /\ DOMAIN b = 1..n /\ DOMAIN c = 1..n
      /\ \A k \in 1..n : /\ b[k] = (Opens(bars, k) \/ bars[k].low <= bars[k - 1].low)
                         /\ c[k] = (Opens(bars, k) \/ bars[k].high >= bars[k - 1].high)
  BY <1>1
<1>3. HigherLows(bars) = Streaks(b) /\ LowerHighs(bars) = Streaks(c)
  BY DEF HigherLows, LowerHighs
<1>4. \A k \in 1..n : ~Opens(bars, k) => k - 1 \in 1..n
  BY <1>1 DEF Opens
<1> HIDE DEF b, c, n
<1>5. n > 0 => b[1] /\ c[1]
  <2>1. Opens(bars, 1)
    BY DEF Opens
  <2>2. n > 0 => 1 \in 1..n
    BY <1>1
  <2> QED
    BY <1>2, <2>1, <2>2
<1>6. \A k \in 1..n : /\ Streaks(b)[k] \in Nat
                      /\ Streaks(b)[k] = IF b[k] THEN 0 ELSE Streaks(b)[k - 1] + 1
  BY <1>1, <1>2, <1>5, StreaksAre
<1>7. \A k \in 1..n : /\ Streaks(c)[k] \in Nat
                      /\ Streaks(c)[k] = IF c[k] THEN 0 ELSE Streaks(c)[k - 1] + 1
  BY <1>1, <1>2, <1>5, StreaksAre
<1> QED
  BY <1>2, <1>3, <1>4, <1>6, <1>7 DEF n

\* A run of the later bars alone is that of all of them, cut at some length D.
Cut(u, v, D) == u = IF v <= D THEN v ELSE D

LEMMA CutNext ==
    ASSUME NEW u \in Nat, NEW v \in Nat, NEW D \in Nat, Cut(u, v, D)
    PROVE  Cut(u + 1, v + 1, D + 1) /\ Cut(0, 0, D + 1) /\ Cut(0, v, 0)
  BY DEF Cut

LEMMA RunsOfAPart ==
    ASSUME NEW a, NEW b, Counts(a), Counts(b), NEW j \in Nat, NEW K \in Nat, K <= Len(a), j + K <= Len(b),
           \A k \in 1..K : a[k] = b[k + j]
    PROVE  \A k \in 1..K : \E D \in Nat : /\ Cut(HigherLows(a)[k], HigherLows(b)[k + j], D)
                                          /\ Cut(LowerHighs(a)[k], LowerHighs(b)[k + j], D)
<1> DEFINE ua == HigherLows(a)
           ub == HigherLows(b)
           da == LowerHighs(a)
           db == LowerHighs(b)
           Cuts(k) == \E D \in Nat : Cut(ua[k], ub[k + j], D) /\ Cut(da[k], db[k + j], D)
           N == {k \in Nat : k \in 1..K => Cuts(k)}
<1>1. Len(a) \in Nat /\ Len(b) \in Nat
  BY DEF Counts
<1>2. \A k \in 1..K : k \in 1..Len(a) /\ k + j \in 1..Len(b) /\ k + j - 1 = (k - 1) + j
  BY <1>1
<1>3. \A k \in 1..Len(a) :
         /\ ua[k] \in Nat /\ da[k] \in Nat
         /\ ua[k] = IF Opens(a, k) \/ a[k].low <= a[k - 1].low THEN 0 ELSE ua[k - 1] + 1
         /\ da[k] = IF Opens(a, k) \/ a[k].high >= a[k - 1].high THEN 0 ELSE da[k - 1] + 1
  BY RunsAre
<1>4. \A k \in 1..Len(b) :
         /\ ub[k] \in Nat /\ db[k] \in Nat
         /\ ub[k] = IF Opens(b, k) \/ b[k].low <= b[k - 1].low THEN 0 ELSE ub[k - 1] + 1
         /\ db[k] = IF Opens(b, k) \/ b[k].high >= b[k - 1].high THEN 0 ELSE db[k - 1] + 1
  BY RunsAre
<1> HIDE DEF ua, ub, da, db
<1>5. 0 \in N
  OBVIOUS
<1>6. ASSUME NEW k \in N PROVE k + 1 \in N
  <2> SUFFICES ASSUME k + 1 \in 1..K PROVE Cuts(k + 1)
    OBVIOUS
  <2> DEFINE m == k + 1
             q == m + j
  <2>1. k \in Nat /\ m \in 1..K /\ m - 1 = k /\ m \in 1..Len(a)
    BY <1>2
  <2>2. q \in 1..Len(b) /\ q - 1 = k + j /\ a[m] = b[q]
    BY <1>2, <2>1
  <2> HIDE DEF m, q
  <2>3. ua[m] \in Nat /\ ub[q] \in Nat /\ da[m] \in Nat /\ db[q] \in Nat
    BY <1>3, <1>4, <2>1, <2>2
  <2>4. CASE Opens(a, m)
    <3>1. ua[m] = 0 /\ da[m] = 0
      BY <1>3, <2>1, <2>4
    <3>2. Cut(ua[m], ub[q], 0) /\ Cut(da[m], db[q], 0)
      BY <2>3, <3>1 DEF Cut
    <3> QED
      BY <3>2 DEF m, q
  <2>5. CASE ~Opens(a, m)
    <3>1. m # 1 /\ a[m].session = a[m - 1].session
      BY <2>5 DEF Opens
    <3>2. k \in 1..K /\ k \in 1..Len(a) /\ k + j \in 1..Len(b) /\ a[k] = b[k + j] /\ q # 1
      <4>1. k \in 1..K
        BY <2>1, <3>1
      <4>2. q # 1
        BY <2>1, <3>1 DEF q
      <4> QED
        BY <1>2, <4>1, <4>2
    <3>3. a[m - 1] = b[q - 1]
      BY <2>1, <2>2, <3>2
    <3>4. ~Opens(b, q)
      BY <2>2, <3>1, <3>2, <3>3 DEF Opens
    <3>5. PICK D \in Nat : Cut(ua[k], ub[k + j], D) /\ Cut(da[k], db[k + j], D)
      BY <3>2
    <3>6. D + 1 \in Nat
      OBVIOUS
    <3>7. /\ ua[k] \in Nat /\ ub[k + j] \in Nat /\ da[k] \in Nat /\ db[k + j] \in Nat
      BY <1>3, <1>4, <3>2
    <3>8. /\ Cut(ua[k] + 1, ub[k + j] + 1, D + 1) /\ Cut(0, 0, D + 1)
          /\ Cut(da[k] + 1, db[k + j] + 1, D + 1)
      BY <3>5, <3>7, CutNext
    <3>9. Cut(ua[m], ub[q], D + 1)
      <4>1. ua[m] = IF a[m].low <= a[m - 1].low THEN 0 ELSE ua[k] + 1
        BY <1>3, <2>1, <2>5
      <4>2. ub[q] = IF a[m].low <= a[m - 1].low THEN 0 ELSE ub[k + j] + 1
        BY <1>4, <2>2, <3>3, <3>4
      <4> QED
        BY <3>8, <4>1, <4>2
    <3>10. Cut(da[m], db[q], D + 1)
      <4>1. da[m] = IF a[m].high >= a[m - 1].high THEN 0 ELSE da[k] + 1
        BY <1>3, <2>1, <2>5
      <4>2. db[q] = IF a[m].high >= a[m - 1].high THEN 0 ELSE db[k + j] + 1
        BY <1>4, <2>2, <3>3, <3>4
      <4> QED
        BY <3>8, <4>1, <4>2
    <3> QED
      BY <3>6, <3>9, <3>10 DEF m, q
  <2> QED
    BY <2>4, <2>5
<1> HIDE DEF N
<1>7. N = Nat
  <2>1. N \in SUBSET Nat
    BY DEF N
  <2> QED
    BY <1>5, <1>6, <2>1, Counting
<1>8. ASSUME NEW k \in 1..K PROVE Cuts(k)
  <2> HIDE DEF Cuts
  <2>1. k \in N
    BY <1>7
  <2> QED
    BY <2>1 DEF N
<1> QED
  BY <1>8 DEF ua, ub, da, db

\* What a part of the bars admits, all of them admit.
LEMMA StateOfAPart ==
    ASSUME NEW a, NEW b, Counts(a), Counts(b), NEW j \in Nat, NEW K \in Nat \ {0}, K <= Len(a), j + K <= Len(b),
           \A k \in 1..K : a[k] = b[k + j],
           NEW o, o.minimum \in Nat, States(a, o)[K] \in {"up", "down"}
    PROVE  States(b, o)[K + j] = States(a, o)[K]
<1> DEFINE q == K + j
           m == o.minimum
           u == HigherLows(a)[K]
           d == LowerHighs(a)[K]
           v == HigherLows(b)[q]
           e == LowerHighs(b)[q]
           S(bars, k) == CASE Opens(bars, k) -> "unknown"
                           [] ~Opens(bars, k) /\ HigherLows(bars)[k] >= m /\ ~(LowerHighs(bars)[k] >= m) -> "up"
                           [] ~Opens(bars, k) /\ LowerHighs(bars)[k] >= m /\ ~(HigherLows(bars)[k] >= m) -> "down"
                           [] OTHER -> "neutral"
<1>1. Len(a) \in Nat /\ DOMAIN a = 1..Len(a) /\ Len(b) \in Nat /\ DOMAIN b = 1..Len(b)
  BY DEF Counts
<1>2. K \in 1..K /\ K \in DOMAIN a /\ q \in DOMAIN b /\ K \in 1..Len(a) /\ q \in 1..Len(b) /\ q - 1 = (K - 1) + j
  BY <1>1
<1>3. States(a, o) = [k \in DOMAIN a |-> S(a, k)] /\ States(b, o) = [k \in DOMAIN b |-> S(b, k)]
  BY DEF States
<1>4. States(a, o)[K] = S(a, K) /\ States(b, o)[q] = S(b, q)
  BY <1>2, <1>3
<1>5. PICK D \in Nat : Cut(u, v, D) /\ Cut(d, e, D)
  BY <1>2, RunsOfAPart
<1>6. u \in Nat /\ d \in Nat /\ v \in Nat /\ e \in Nat /\ m \in Nat
  BY <1>2, RunsAre
<1>7. ~Opens(a, K) /\ \/ S(a, K) = "up" /\ u >= m /\ ~(d >= m)
                      \/ S(a, K) = "down" /\ d >= m /\ ~(u >= m)
  BY <1>4
<1>8. ~Opens(b, q)
  <2>1. K # 1 /\ a[K].session = a[K - 1].session
    BY <1>7 DEF Opens
  <2>2. K - 1 \in 1..K /\ q # 1
    BY <2>1
  <2>3. a[K] = b[q] /\ a[K - 1] = b[q - 1]
    BY <1>2, <2>2
  <2> QED
    BY <2>1, <2>2, <2>3 DEF Opens
<1> HIDE DEF u, d, v, e, m, q
<1>9. (u >= m \/ d >= m) => D >= m
  BY <1>5, <1>6 DEF Cut
<1>10. D >= m => (u >= m <=> v >= m) /\ (d >= m <=> e >= m)
  BY <1>5, <1>6 DEF Cut
<1>11. \/ S(a, K) = "up" /\ v >= m /\ ~(e >= m)
       \/ S(a, K) = "down" /\ e >= m /\ ~(v >= m)
  BY <1>7, <1>9, <1>10
<1>12. S(b, q) = S(a, K)
  BY <1>8, <1>11 DEF v, e
<1> QED
  BY <1>4, <1>12 DEF q

-----------------------------------------------------------------------------
(* Higher bars of a part of the data *)

\* The interval is the gap between two bars.
LEMMA IntervalIs ==
    ASSUME NEW a, Data(a), Len(a) >= 2
    PROVE  Interval(a) \in Nat \ {0}
<1> DEFINE g == Gaps(a)
           n == Len(a) - 1
           C(x) == Cardinality({i \in DOMAIN g : g[i] = x})
           T == {i \in DOMAIN g : \A j \in DOMAIN g : C(g[j]) <= C(g[i])}
           f == [i \in 1..n |-> C(g[i])]
<1>1. /\ Len(a) \in Nat
      /\ \A i \in 1..Len(a) : a[i].slot \in Nat
      /\ \A i, j \in 1..Len(a) : i < j => a[i].slot < a[j].slot
  BY DEF Data
<1>2. n \in Nat /\ n >= 1
  BY <1>1
<1>3. DOMAIN g = 1..n /\ \A i \in 1..n : g[i] = a[i + 1].slot - a[i].slot
  BY DEF Gaps
<1>4. \A i \in 1..n : g[i] \in Nat \ {0}
  <2> SUFFICES ASSUME NEW i \in 1..n PROVE g[i] \in Nat \ {0}
    OBVIOUS
  <2>1. i \in 1..Len(a) /\ i + 1 \in 1..Len(a) /\ i < i + 1
    BY <1>1
  <2>2. a[i].slot < a[i + 1].slot /\ a[i].slot \in Nat /\ a[i + 1].slot \in Nat
    BY <1>1, <2>1
  <2> QED
    BY <1>3, <2>2
<1>5. Interval(a) = g[Min(T)]
  BY DEF Interval
<1> HIDE DEF g, n
<1>6. \A x : C(x) \in Nat
  <2> SUFFICES ASSUME NEW x PROVE C(x) \in Nat
    OBVIOUS
  <2> DEFINE S == {i \in DOMAIN g : g[i] = x}
  <2>1. IsFiniteSet(1..n)
    BY <1>2, FS_Interval
  <2>2. S \in SUBSET (1..n)
    BY <1>3
  <2> HIDE DEF S
  <2>3. IsFiniteSet(S)
    BY <2>1, <2>2, FS_Subset
  <2>4. Cardinality(S) \in Nat
    BY <2>3, FS_CardinalityType
  <2> QED
    BY <2>4 DEF S
<1> HIDE DEF C
<1>7. 1..n # {} /\ 1..n \subseteq 1..n /\ \A i \in 1..n : f[i] \in Int /\ f[i] = C(g[i])
  <2>1. 1 \in 1..n
    BY <1>2
  <2>2. \A i \in 1..n : f[i] = C(g[i])
    OBVIOUS
  <2>3. \A i \in 1..n : C(g[i]) \in Int
    BY <1>6
  <2> QED
    BY <2>1, <2>2, <2>3
<1> HIDE DEF f
<1>8. \E i \in 1..n : \A j \in 1..n : f[j] <= f[i]
  BY <1>2, <1>7, ImageBounds
<1>9. T # {} /\ T \subseteq 1..n
  <2>1. PICK i \in 1..n : \A j \in 1..n : f[j] <= f[i]
    BY <1>8
  <2>2. i \in T
    BY <1>3, <1>7, <2>1
  <2> QED
    BY <1>3, <2>2
<1> HIDE DEF T
<1>10. Min(T) \in T
  BY <1>2, <1>9, EndsAre
<1> QED
  BY <1>4, <1>5, <1>9, <1>10

Slots(a) == {a[i].slot : i \in DOMAIN a}

LEMMA SlotsAre ==
    ASSUME NEW a, Data(a), Len(a) >= 1
    PROVE  /\ Slots(a) \subseteq Nat /\ Max(Slots(a)) \in Nat
           /\ \A s \in Slots(a) : s <= Max(Slots(a))
<1> DEFINE S == Slots(a)
           n == Len(a)
           m == a[n].slot
<1>1. /\ n \in Nat /\ DOMAIN a = 1..n
      /\ \A i \in 1..n : a[i].slot \in Nat
      /\ \A i, j \in 1..n : i < j => a[i].slot < a[j].slot
  BY DEF Data
<1>2. n \in 1..n
  BY <1>1
<1>3. m \in S /\ S \subseteq Nat
  BY <1>1, <1>2 DEF Slots
<1>4. ASSUME NEW s \in S PROVE s <= m
  <2>1. PICK i \in 1..n : s = a[i].slot
    BY <1>1 DEF Slots
  <2>2. i = n \/ i < n
    <3>1. i \in Int /\ n \in Int /\ i <= n
      BY <1>1, <2>1
    <3> QED
      BY <3>1
  <2>3. s = m \/ s < m
    BY <1>1, <1>2, <2>1, <2>2
  <2> QED
    BY <1>3, <2>3
<1> HIDE DEF S, m
<1>5. Max(S) = m
  <2>1. S \subseteq Int
    BY <1>3
  <2> QED
    BY <1>3, <1>4, <2>1, MaxIs
<1> QED
  BY <1>3, <1>4, <1>5 DEF S

Grid(b, w, step) == {b * w + k * step : k \in 0..(w \div step) - 1}

\* The ends of the grid of a bucket.
LEMMA GridIs ==
    ASSUME NEW b \in Nat, NEW w \in Nat \ {0}, NEW step \in Nat \ {0}, step < w, w % step = 0
    PROVE  b * w \in Grid(b, w, step) /\ (b * w + w) - step \in Grid(b, w, step)
<1> DEFINE q == w \div step
           start == b * w
<1>1. q \in Nat /\ w = step * q
  <2>1. w = step * (w \div step) + (w % step) /\ w \div step \in Int
    OBVIOUS
  <2>2. w \div step \in Nat
    BY DivIs
  <2>3. step * (w \div step) \in Int
    BY <2>2
  <2> QED
    BY <2>1, <2>2, <2>3
<1>2. start \in Nat
  OBVIOUS
<1> HIDE DEF start, q
<1>3. q # 0
  <2> SUFFICES ASSUME q = 0 PROVE FALSE
    OBVIOUS
  <2>1. w = 0
    BY <1>1
  <2> QED
    BY <2>1
<1>4. 0 \in 0..q - 1 /\ q - 1 \in 0..q - 1
  BY <1>1, <1>3
<1>5. start + 0 * step = start
  BY <1>2
<1>6. start + (q - 1) * step = (start + w) - step
  <2>1. (q - 1) * step = step * q - step
    BY <1>1
  <2>2. step * q \in Nat
    BY <1>1
  <2> QED
    BY <1>1, <1>2, <2>1, <2>2
<1>7. Grid(b, w, step) = {start + k * step : k \in 0..q - 1}
  BY DEF Grid, start, q
<1>8. start \in Grid(b, w, step) /\ (start + w) - step \in Grid(b, w, step)
  BY <1>4, <1>5, <1>6, <1>7
<1> QED
  BY <1>8 DEF start

IsWidth(o) == o.width \in Nat \ {0} /\ o.session \in Nat \ {0} /\ o.minimum \in Nat \ {0}

\* A bucket is complete when the bars in it are its grid; the other conditions follow.
LEMMA CompleteIs ==
    ASSUME NEW a, Data(a), NEW o, IsWidth(o), Usable(a, o), NEW b \in Nat
    PROVE  /\ Complete(a, o, b) <=> {s \in Slots(a) : s \div o.width = b} = Grid(b, o.width, Interval(a))
           /\ Complete(a, o, b) => b * o.width \in Slots(a) /\ b \in Buckets(a, o.width)
<1> DEFINE w == o.width
           S == Slots(a)
           start == b * w
           step == Interval(a)
           G == Grid(b, w, step)
           own == {s \in S : s \div w = b}
           P == {s \in S : SessionOf(s, o) = SessionOf(start, o)}
<1>1. Len(a) >= 2 /\ step < w /\ w % step = 0
  BY DEF Usable
<1>2. step \in Nat \ {0} /\ w \in Nat \ {0} /\ start \in Nat
  BY <1>1, IntervalIs DEF IsWidth
<1>3. start \in G /\ (start + w) - step \in G
  BY <1>1, <1>2, GridIs
<1>4. Len(a) >= 1
  BY <1>1 DEF Data
<1>5. S \subseteq Nat /\ Max(S) \in Nat /\ \A s \in S : s <= Max(S)
  BY <1>4, SlotsAre
<1>6. Complete(a, o, b) <=> /\ own = G
                            /\ start + w <= Max(S) + step
                            /\ start >= Min(P)
  BY DEF Complete, Slots, Grid
<1>7. Buckets(a, w) = {s \div w : s \in S}
  BY DEF Buckets, Slots
<1> HIDE DEF S, start, step, G, w
<1>8. ASSUME own = G PROVE start + w <= Max(S) + step /\ start >= Min(P) /\ start \in S /\ b \in Buckets(a, w)
  <2>1. start \in S /\ (start + w) - step \in S /\ start \div w = b
    BY <1>3, <1>8
  <2>2. (start + w) - step <= Max(S)
    BY <1>5, <2>1
  <2>3. start + w <= Max(S) + step
    BY <1>2, <1>5, <2>2
  <2>4. start \in P /\ P \subseteq Nat /\ P # {}
    BY <1>5, <2>1
  <2> HIDE DEF P
  <2>5. Min(P) <= start /\ Min(P) \in Nat
    BY <2>4, MinOfNaturals
  <2>6. start >= Min(P)
    BY <1>2, <2>5
  <2>7. b \in Buckets(a, w)
    BY <1>7, <2>1
  <2> QED
    BY <2>1, <2>3, <2>6, <2>7
<1>9. Complete(a, o, b) <=> own = G
  BY <1>6, <1>8
<1> QED
  BY <1>8, <1>9 DEF S, start, G, step, w

Whole(a, o) == {b \in Buckets(a, o.width) : Complete(a, o, b)}

InPart(d, x, y, w, b) == {i \in x..y : d[i].slot \div w = b}

SlotsIn(a, w, b) == {s \in Slots(a) : s \div w = b}
SlotsOf(d, S)    == {d[i].slot : i \in S}

LEMMA PartSlots ==
    ASSUME NEW d, Data(d), NEW x \in Nat \ {0}, NEW y \in Int, y <= Len(d), NEW w, NEW b
    PROVE  /\ Slots(SubSeq(d, x, y)) = SlotsOf(d, x..y)
           /\ SlotsIn(SubSeq(d, x, y), w, b) = SlotsOf(d, InPart(d, x, y, w, b))
<1> DEFINE a == SubSeq(d, x, y)
           n == Len(a)
<1>1. /\ Data(a)
      /\ \A i \in 1..n : x + i - 1 \in x..y /\ a[i] = d[x + i - 1]
      /\ \A j \in x..y : j - x + 1 \in 1..n /\ a[j - x + 1] = d[j]
  BY PartIs
<1> HIDE DEF a
<1>2. DOMAIN a = 1..n
  BY <1>1 DEF Data
<1> HIDE DEF n
<1>3. Slots(a) = {d[i].slot : i \in x..y}
  <2>1. ASSUME NEW s \in Slots(a) PROVE s \in {d[i].slot : i \in x..y}
    <3>1. PICK i \in 1..n : s = a[i].slot
      BY <1>2 DEF Slots
    <3>2. x + i - 1 \in x..y /\ s = d[x + i - 1].slot
      BY <1>1, <3>1
    <3> DEFINE k == x + i - 1
    <3> HIDE DEF k
    <3>3. k \in x..y /\ s = d[k].slot
      BY <3>2 DEF k
    <3> QED
      BY <3>3
  <2>2. ASSUME NEW j \in x..y PROVE d[j].slot \in Slots(a)
    <3> DEFINE k == j - x + 1
    <3>1. k \in 1..n /\ a[k] = d[j]
      BY <1>1
    <3> HIDE DEF k
    <3> QED
      BY <1>2, <3>1 DEF Slots
  <2> QED
    BY <2>1, <2>2
<1>4. SlotsIn(a, w, b) = {d[i].slot : i \in InPart(d, x, y, w, b)}
  BY <1>3 DEF InPart, SlotsIn
<1> QED
  BY <1>3, <1>4 DEF a, SlotsOf

LEMMA PartBar ==
    ASSUME NEW d, Data(d), NEW x \in Nat \ {0}, NEW y \in Int, y <= Len(d), NEW w, NEW b
    PROVE  /\ HighOf(SubSeq(d, x, y), InBucket(SubSeq(d, x, y), w, b)) = HighOf(d, InPart(d, x, y, w, b))
           /\ LowOf(SubSeq(d, x, y), InBucket(SubSeq(d, x, y), w, b)) = LowOf(d, InPart(d, x, y, w, b))
<1> DEFINE a == SubSeq(d, x, y)
           n == Len(a)
           P == InBucket(a, w, b)
           Q == InPart(d, x, y, w, b)
<1>1. /\ Data(a)
      /\ \A i \in 1..n : x + i - 1 \in x..y /\ a[i] = d[x + i - 1]
      /\ \A j \in x..y : j - x + 1 \in 1..n /\ a[j - x + 1] = d[j]
  BY PartIs
<1> HIDE DEF a
<1>2. DOMAIN a = 1..n
  BY <1>1 DEF Data
<1> HIDE DEF n
<1>3. \A i \in P : x + i - 1 \in Q /\ a[i] = d[x + i - 1]
  <2> SUFFICES ASSUME NEW i \in P PROVE x + i - 1 \in Q /\ a[i] = d[x + i - 1]
    OBVIOUS
  <2>1. i \in 1..n /\ a[i].slot \div w = b
    BY <1>2 DEF InBucket
  <2> QED
    BY <1>1, <2>1 DEF InPart
<1>4. \A j \in Q : j - x + 1 \in P /\ a[j - x + 1] = d[j]
  <2> SUFFICES ASSUME NEW j \in Q PROVE j - x + 1 \in P /\ a[j - x + 1] = d[j]
    OBVIOUS
  <2>1. j \in x..y /\ d[j].slot \div w = b
    BY DEF InPart
  <2>2. j - x + 1 \in 1..n /\ a[j - x + 1] = d[j]
    BY <1>1, <2>1
  <2> QED
    BY <1>2, <2>1, <2>2 DEF InBucket
<1> HIDE DEF P, Q
<1>5. {a[i].high : i \in P} = {d[i].high : i \in Q} /\ {a[i].low : i \in P} = {d[i].low : i \in Q}
  <2>1. ASSUME NEW i \in P PROVE a[i].high \in {d[j].high : j \in Q} /\ a[i].low \in {d[j].low : j \in Q}
    <3> DEFINE k == x + i - 1
    <3>1. k \in Q /\ a[i] = d[k]
      BY <1>3
    <3> HIDE DEF k
    <3> QED
      BY <3>1
  <2>2. ASSUME NEW j \in Q PROVE d[j].high \in {a[i].high : i \in P} /\ d[j].low \in {a[i].low : i \in P}
    <3> DEFINE k == j - x + 1
    <3>1. k \in P /\ a[k] = d[j]
      BY <1>4
    <3> HIDE DEF k
    <3> QED
      BY <3>1
  <2> QED
    BY <2>1, <2>2
<1>6. HighOf(a, P) = HighOf(d, Q) /\ LowOf(a, P) = LowOf(d, Q)
  BY <1>5 DEF HighOf, LowOf
<1> QED
  BY <1>6 DEF a, P, Q

\* Bars x..y and bars 1..z of d, all of which have every bar that had closed by t.
Parts(d, x, y, z, t) ==
    /\ Data(d) /\ t \in Int
    /\ x \in Nat \ {0} /\ y \in Int /\ x <= y /\ y <= Len(d)
    /\ z \in Nat \ {0} /\ z <= Len(d)
    /\ \A i \in 1..Len(d) : d[i].slot < t => i <= y /\ i <= z

LEMMA SameBucket ==
    ASSUME NEW d, NEW x, NEW y, NEW z, NEW t, Parts(d, x, y, z, t), NEW w \in Nat \ {0}, NEW b \in Nat,
           (b + 1) * w <= t, d[x].slot <= b * w
    PROVE  InPart(d, x, y, w, b) = InPart(d, 1, z, w, b)
<1>1. /\ Len(d) \in Nat /\ \A i \in 1..Len(d) : d[i].slot \in Nat
      /\ \A i, j \in 1..Len(d) : i < j => d[i].slot < d[j].slot
  BY DEF Parts, Data
<1>2. /\ x \in 1..Len(d) /\ x \in Int /\ y \in Int /\ z \in Int /\ t \in Int /\ x >= 1 /\ y <= Len(d) /\ z <= Len(d)
      /\ \A i \in 1..Len(d) : d[i].slot < t => i <= y /\ i <= z
  BY <1>1 DEF Parts
<1>3. ASSUME NEW i \in 1..Len(d), d[i].slot \div w = b PROVE x <= i /\ i <= y /\ i <= z
  <2> DEFINE s == d[i].slot
             m == w * b
  <2>1. s \in Nat
    BY <1>1
  <2>2. w * (s \div w) <= s /\ s < w * (s \div w) + w
    BY <2>1, DivIs
  <2>3. s \div w = b
    BY <1>3
  <2> HIDE DEF s
  <2>4. m <= s /\ s < m + w
    BY <2>2, <2>3
  <2>5. m \in Nat /\ (b + 1) * w = m + w /\ b * w = m
    OBVIOUS
  <2> HIDE DEF m
  <2>6. m + w <= t /\ d[x].slot <= m /\ d[x].slot \in Nat
    BY <1>1, <1>2, <2>5
  <2>7. s < t /\ d[x].slot <= s
    BY <1>2, <2>1, <2>4, <2>5, <2>6
  <2>8. x <= i
    <3> SUFFICES ASSUME ~(x <= i) PROVE FALSE
      OBVIOUS
    <3>1. i < x
      BY <1>2
    <3>2. s < d[x].slot
      BY <1>1, <1>2, <3>1 DEF s
    <3> QED
      BY <2>1, <2>6, <2>7, <3>2
  <2> QED
    BY <1>2, <2>7, <2>8 DEF s
<1>4. \A i \in x..y : i \in 1..Len(d)
  BY <1>1, <1>2
<1>5. \A i \in 1..z : i \in 1..Len(d)
  BY <1>1, <1>2
<1>6. ASSUME NEW i \in 1..Len(d), d[i].slot \div w = b PROVE i \in x..y /\ i \in 1..z
  BY <1>2, <1>3, <1>6
<1> QED
  BY <1>4, <1>5, <1>6 DEF InPart

LEMMA WholeAgrees ==
    ASSUME NEW d, NEW x, NEW y, NEW z, NEW t, Parts(d, x, y, z, t), NEW o, IsWidth(o),
           Usable(SubSeq(d, x, y), o), Usable(SubSeq(d, 1, z), o),
           Interval(SubSeq(d, x, y)) = Interval(SubSeq(d, 1, z)),
           NEW b \in Nat, (b + 1) * o.width <= t
    PROVE  b \in Whole(SubSeq(d, x, y), o) <=> b \in Whole(SubSeq(d, 1, z), o) /\ d[x].slot <= b * o.width
<1> DEFINE a == SubSeq(d, x, y)
           c == SubSeq(d, 1, z)
           w == o.width
           G == Grid(b, w, Interval(a))
           A == {s \in Slots(a) : s \div w = b}
           C == {s \in Slots(c) : s \div w = b}
<1>1. Data(d) /\ x \in Nat \ {0} /\ y \in Int /\ y <= Len(d) /\ z \in Int /\ z <= Len(d) /\ 1 \in Nat \ {0}
  BY DEF Parts
<1>2. Data(a) /\ Data(c)
  BY <1>1, PartIs
<1>3. /\ Complete(a, o, b) <=> A = G
      /\ Complete(a, o, b) => b * w \in Slots(a) /\ b \in Buckets(a, w)
  BY <1>2, CompleteIs
<1>4. /\ Complete(c, o, b) <=> C = Grid(b, w, Interval(c))
      /\ Complete(c, o, b) => b * w \in Slots(c) /\ b \in Buckets(c, w)
  BY <1>2, CompleteIs
<1>5. Slots(a) = {d[i].slot : i \in x..y} /\ A = SlotsOf(d, InPart(d, x, y, w, b))
  BY <1>1, PartSlots DEF SlotsIn, SlotsOf
<1>6. C = SlotsOf(d, InPart(d, 1, z, w, b))
  BY <1>1, PartSlots DEF SlotsIn
<1>7. Interval(c) = Interval(a) /\ w \in Nat \ {0}
  BY DEF IsWidth
<1>8. d[x].slot <= b * w => A = C
  <2>1. (b + 1) * w <= t
    OBVIOUS
  <2> HIDE DEF A, C, w
  <2>2. ASSUME d[x].slot <= b * w PROVE InPart(d, x, y, w, b) = InPart(d, 1, z, w, b)
    BY <1>7, <2>1, <2>2, SameBucket
  <2> QED
    BY <1>5, <1>6, <2>2
<1>9. \A s \in Slots(a) : d[x].slot <= s
  <2> SUFFICES ASSUME NEW i \in x..y PROVE d[x].slot <= d[i].slot
    BY <1>5
  <2>1. x \in 1..Len(d) /\ i \in 1..Len(d) /\ (i = x \/ x < i)
    BY <1>1 DEF Data
  <2>2. d[x].slot \in Nat /\ (i = x \/ d[x].slot < d[i].slot) /\ d[i].slot \in Nat
    BY <1>1, <2>1 DEF Data
  <2> QED
    BY <2>2
<1> HIDE DEF a, c, w, G, A, C
<1>10. Complete(a, o, b) <=> Complete(c, o, b) /\ d[x].slot <= b * w
  <2>1. Complete(c, o, b) <=> C = G
    BY <1>4, <1>7 DEF G
  <2>2. Complete(a, o, b) => d[x].slot <= b * w
    BY <1>3, <1>9
  <2> QED
    BY <1>3, <1>8, <2>1, <2>2
<1>11. /\ b \in Whole(a, o) <=> b \in Buckets(a, w) /\ Complete(a, o, b)
       /\ b \in Whole(c, o) <=> b \in Buckets(c, w) /\ Complete(c, o, b)
  BY DEF Whole, w
<1>12. b \in Whole(a, o) <=> b \in Whole(c, o) /\ d[x].slot <= b * w
  BY <1>3, <1>4, <1>10, <1>11
<1> QED
  BY <1>12 DEF a, c, w

HigherBar(a, o, b) ==
    [high |-> HighOf(a, InBucket(a, o.width, b)), low |-> LowOf(a, InBucket(a, o.width, b)),
     session |-> SessionOf(b * o.width, o), close |-> (b + 1) * o.width]

LEMMA WholeIs ==
    ASSUME NEW a, Data(a), NEW o, IsWidth(o)
    PROVE  IsFiniteSet(Whole(a, o)) /\ Whole(a, o) \subseteq Nat
<1> DEFINE B == Buckets(a, o.width)
           W == Whole(a, o)
<1>1. o.width \in Nat \ {0}
  BY DEF IsWidth
<1>2. IsFiniteSet(B) /\ B \subseteq Nat
  BY <1>1, BucketsAre
<1>3. W \in SUBSET B
  BY DEF Whole
<1> HIDE DEF B, W
<1>4. IsFiniteSet(W)
  BY <1>2, <1>3, FS_Subset
<1> QED
  BY <1>2, <1>3, <1>4 DEF W

LEMMA HigherBarsAre ==
    ASSUME NEW a, Data(a), NEW o, IsWidth(o)
    PROVE  /\ Counts(HigherBars(a, o)) /\ Len(HigherBars(a, o)) = Cardinality(Whole(a, o))
           /\ \A k \in 1..Cardinality(Whole(a, o)) : HigherBars(a, o)[k] = HigherBar(a, o, Ordered(Whole(a, o))[k])
<1> DEFINE O == Ordered(Whole(a, o))
           n == Cardinality(Whole(a, o))
           h == HigherBars(a, o)
<1>1. n \in Nat /\ DOMAIN O = 1..n
  BY WholeIs, OrderedIs
<1>2. h = [k \in DOMAIN O |-> HigherBar(a, o, O[k])]
  BY DEF HigherBars, HigherBar, Whole
<1> HIDE DEF O, n, h
<1>3. DOMAIN h = 1..n /\ \A k \in 1..n : h[k] = HigherBar(a, o, O[k])
  BY <1>1, <1>2
<1>4. Len(h) = n
  BY <1>1, <1>2
<1> QED
  BY <1>1, <1>3, <1>4 DEF O, n, h, Counts

LEMMA SameBar ==
    ASSUME NEW d, NEW x, NEW y, NEW z, NEW t, Parts(d, x, y, z, t), NEW o, IsWidth(o), NEW b \in Nat,
           (b + 1) * o.width <= t, d[x].slot <= b * o.width
    PROVE  HigherBar(SubSeq(d, x, y), o, b) = HigherBar(SubSeq(d, 1, z), o, b)
<1> DEFINE w == o.width
           P == InPart(d, x, y, w, b)
           Q == InPart(d, 1, z, w, b)
<1>1. Data(d) /\ x \in Nat \ {0} /\ y \in Int /\ y <= Len(d) /\ z \in Int /\ z <= Len(d) /\ 1 \in Nat \ {0}
  BY DEF Parts
<1>2. w \in Nat \ {0} /\ (b + 1) * w <= t /\ d[x].slot <= b * w
  BY DEF IsWidth
<1> HIDE DEF w
<1>3. P = Q
  BY <1>2, SameBucket
<1> HIDE DEF P, Q
<1>4. /\ HighOf(SubSeq(d, x, y), InBucket(SubSeq(d, x, y), w, b)) = HighOf(d, P)
      /\ LowOf(SubSeq(d, x, y), InBucket(SubSeq(d, x, y), w, b)) = LowOf(d, P)
  BY <1>1, PartBar DEF P
<1>5. /\ HighOf(SubSeq(d, 1, z), InBucket(SubSeq(d, 1, z), w, b)) = HighOf(d, Q)
      /\ LowOf(SubSeq(d, 1, z), InBucket(SubSeq(d, 1, z), w, b)) = LowOf(d, Q)
  BY <1>1, PartBar DEF Q
<1> QED
  BY <1>3, <1>4, <1>5 DEF HigherBar, w

\* Two sets that have the same members in U, but for some of the second that are less
\* than all of the first: those come first, in order, and then the members of the first.
Preceded(A, C, U, L) ==
    /\ IsFiniteSet(A) /\ IsFiniteSet(C) /\ A \subseteq Nat /\ C \subseteq Nat
    /\ L \subseteq C /\ \A l \in L : \A x \in A : l < x
    /\ \A x \in A \cup C : \A y \in U : x < y => x \in U
    /\ \A x \in U : x \in A <=> x \in C /\ x \notin L

LEMMA Suffix ==
    ASSUME NEW A, NEW C, NEW U, NEW L, Preceded(A, C, U, L)
    PROVE  /\ Cardinality(L) \in Nat
           /\ \A k \in 1..Cardinality(A) : Ordered(A)[k] \in U =>
                 /\ k + Cardinality(L) \in 1..Cardinality(C)
                 /\ Ordered(C)[k + Cardinality(L)] = Ordered(A)[k]
<1>0. /\ IsFiniteSet(A) /\ IsFiniteSet(C) /\ A \subseteq Nat /\ C \subseteq Nat
      /\ L \subseteq C /\ \A l \in L : \A x \in A : l < x
      /\ \A x \in A \cup C : \A y \in U : x < y => x \in U
      /\ \A x \in U : x \in A <=> x \in C /\ x \notin L
  BY DEF Preceded
<1>1. IsFiniteSet(L) /\ Cardinality(L) \in Nat
  <2>1. L \in SUBSET C
    BY <1>0
  <2>2. IsFiniteSet(L)
    BY <1>0, <2>1, FS_Subset
  <2> QED
    BY <2>2, FS_CardinalityType
<1>2. ASSUME NEW k \in 1..Cardinality(A), Ordered(A)[k] \in U
      PROVE  /\ k + Cardinality(L) \in 1..Cardinality(C)
             /\ Ordered(C)[k + Cardinality(L)] = Ordered(A)[k]
  <2> DEFINE x == Ordered(A)[k]
             V == Under(A, x)
             W == Under(C, x)
             m == Cardinality(L)
  <2>1. x \in A /\ Cardinality(V) = k - 1 /\ Cardinality(A) \in Nat
    BY <1>0, OrderedIs
  <2>2. x \in U
    BY <1>2
  <2> HIDE DEF x
  <2>3. x \in C /\ x \in Nat
    BY <1>0, <2>1, <2>2
  <2>4. W = L \cup V
    BY <1>0, <2>1, <2>2, <2>3 DEF Under
  <2>5. L \cap V = {}
    <3> SUFFICES ASSUME NEW l \in L, l \in V PROVE FALSE
      OBVIOUS
    <3>1. l \in A /\ l \in Nat
      BY <1>0 DEF Under
    <3>2. l < l
      BY <1>0, <3>1
    <3> QED
      BY <3>1, <3>2
  <2>6. IsFiniteSet(V)
    <3>1. A \subseteq Int
      BY <1>0
    <3> QED
      BY <1>0, <2>1, <3>1, UnderIs
  <2>7. Cardinality(W) < Cardinality(C) /\ Cardinality(C) \in Nat
    <3>1. C \subseteq Int
      BY <1>0
    <3> QED
      BY <1>0, <2>3, <3>1, UnderIs
  <2> HIDE DEF V, W
  <2>8. Cardinality(W) = Cardinality(L) + Cardinality(V)
    <3>1. IsFiniteSet(L) /\ IsFiniteSet(V)
      BY <1>1, <2>6
    <3>2. Cardinality(L \cup V) = Cardinality(L) + Cardinality(V) - Cardinality(L \cap V)
      BY <3>1, FS_Union
    <3>3. Cardinality({}) = 0
      BY FS_EmptySet
    <3>4. Cardinality(V) \in Int /\ Cardinality(L) \in Int
      BY <1>1, <2>1
    <3>5. Cardinality(L \cap V) = 0
      BY <2>5, <3>3
    <3> DEFINE p == Cardinality(L)
               q == Cardinality(V)
               r == Cardinality(L \cap V)
               s == Cardinality(W)
    <3>6. p \in Int /\ q \in Int /\ r = 0 /\ s = p + q - r
      BY <2>4, <3>2, <3>4, <3>5
    <3> HIDE DEF p, q, r, s
    <3>7. s = p + q
      BY <3>6
    <3> QED
      BY <3>7 DEF p, q, s
  <2> HIDE DEF m
  <2>9. Cardinality(W) = m + (k - 1)
    BY <2>1, <2>8 DEF m
  <2>10. k \in Nat /\ k >= 1 /\ m \in Nat
    BY <1>1, <2>1 DEF m
  <2>11. k + m \in 1..Cardinality(C) /\ Cardinality(W) = (k + m) - 1
    BY <2>7, <2>9, <2>10
  <2>12. \A j \in 1..Cardinality(C) : \A u \in C : Cardinality(Under(C, u)) = j - 1 => u = Ordered(C)[j]
    BY <1>0, OrderedIs
  <2>13. x = Ordered(C)[k + m]
    BY <2>3, <2>11, <2>12 DEF W
  <2> QED
    BY <2>11, <2>13 DEF x, m
<1> QED
  BY <1>1, <1>2

StateOn(a, o, t) == StateAt(HigherBars(a, o), States(HigherBars(a, o), o), t)

Over(o, t) == {b \in Nat : (b + 1) * o.width <= t}

\* The whole buckets of bars 1..z that start before bar x.
BeforePart(d, x, z, o) == {b \in Whole(SubSeq(d, 1, z), o) : ~(d[x].slot <= b * o.width)}

\* They come before those of bars x..y, which of the others have those that had closed by t.
LEMMA WholeOfAPart ==
    ASSUME NEW d, NEW x, NEW y, NEW z, NEW t, Parts(d, x, y, z, t), NEW o, IsWidth(o),
           Usable(SubSeq(d, x, y), o), Usable(SubSeq(d, 1, z), o),
           Interval(SubSeq(d, x, y)) = Interval(SubSeq(d, 1, z))
    PROVE  /\ Preceded(Whole(SubSeq(d, x, y), o), Whole(SubSeq(d, 1, z), o), Over(o, t), BeforePart(d, x, z, o))
           /\ \A b \in Whole(SubSeq(d, x, y), o) : d[x].slot <= b * o.width
<1> DEFINE a == SubSeq(d, x, y)
           c == SubSeq(d, 1, z)
           w == o.width
           A == Whole(a, o)
           C == Whole(c, o)
           U == Over(o, t)
           L == BeforePart(d, x, z, o)
<1>1. /\ Data(d) /\ x \in Nat \ {0} /\ y \in Int /\ y <= Len(d) /\ z \in Int /\ z <= Len(d) /\ 1 \in Nat \ {0}
      /\ x <= y /\ t \in Int
  BY DEF Parts
<1>2. Data(a) /\ Data(c)
  BY <1>1, PartIs
<1>3. w \in Nat \ {0}
  BY DEF IsWidth
<1>4. /\ Usable(a, o) /\ A = Whole(a, o) /\ C = Whole(c, o)
      /\ U = {b \in Nat : (b + 1) * o.width <= t} /\ L = {b \in C : ~(d[x].slot <= b * o.width)}
  BY DEF Over, BeforePart
<1>14. \A b \in Nat : (b + 1) * o.width <= t => (b \in A <=> b \in C /\ d[x].slot <= b * o.width)
  BY WholeAgrees
<1>5. Slots(a) = SlotsOf(d, x..y)
  BY <1>1, PartSlots
<1> HIDE DEF a, c, A, C, U, L
<1>6. IsFiniteSet(A) /\ IsFiniteSet(C) /\ A \subseteq Nat /\ C \subseteq Nat
  BY <1>2, <1>4, WholeIs
<1>7. x \in 1..Len(d) /\ d[x].slot \in Nat
  BY <1>1 DEF Data
<1>8. \A s \in Slots(a) : d[x].slot <= s
  <2> SUFFICES ASSUME NEW i \in x..y PROVE d[x].slot <= d[i].slot
    BY <1>5 DEF SlotsOf
  <2>1. x \in 1..Len(d) /\ i \in 1..Len(d) /\ (i = x \/ x < i)
    BY <1>1 DEF Data
  <2>2. d[x].slot \in Nat /\ (i = x \/ d[x].slot < d[i].slot) /\ d[i].slot \in Nat
    BY <1>1, <2>1 DEF Data
  <2> QED
    BY <2>2
<1>9. ASSUME NEW b \in A PROVE d[x].slot <= b * w
  <2>1. b \in Nat /\ Complete(a, o, b)
    BY <1>4, <1>6 DEF Whole
  <2>2. b * w \in Slots(a)
    BY <1>2, <1>4, <2>1, CompleteIs DEF w
  <2> QED
    BY <1>8, <2>2
<1>10. ASSUME NEW l \in L, NEW b \in A PROVE l < b
  <2>1. l \in Nat /\ b \in Nat /\ ~(d[x].slot <= l * w) /\ d[x].slot <= b * w
    BY <1>4, <1>6, <1>9
  <2> SUFFICES ASSUME ~(l < b) PROVE FALSE
    OBVIOUS
  <2>2. b <= l
    BY <2>1
  <2>3. b * w <= l * w
    BY <1>3, <2>1, <2>2
  <2>4. b * w \in Nat /\ l * w \in Nat
    BY <1>3, <2>1
  <2> QED
    BY <1>7, <2>1, <2>3, <2>4
<1>11. ASSUME NEW b \in A \cup C, NEW e \in U, b < e PROVE b \in U
  <2>1. b \in Nat /\ e \in Nat /\ (e + 1) * w <= t
    BY <1>4, <1>6
  <2>2. (b + 1) * w <= (e + 1) * w
    BY <1>3, <1>11, <2>1
  <2>3. (b + 1) * w \in Nat /\ (e + 1) * w \in Nat
    BY <1>3, <2>1
  <2>4. (b + 1) * w <= t
    BY <1>1, <2>1, <2>2, <2>3
  <2> QED
    BY <1>4, <2>1, <2>4
<1>12. ASSUME NEW b \in U PROVE b \in A <=> b \in C /\ b \notin L
  <2>1. b \in Nat /\ (b + 1) * o.width <= t
    BY <1>4
  <2>2. b \in A <=> b \in C /\ d[x].slot <= b * o.width
    BY <1>14, <2>1
  <2> QED
    BY <1>4, <2>2
<1>13. L \subseteq C
  BY <1>4
<1> QED
  BY <1>6, <1>9, <1>10, <1>11, <1>12, <1>13 DEF w, Preceded, a, c, A, C, U, L

\* A state that part of the data has run into is that of all the data so far.
LEMMA StateAgrees ==
    ASSUME NEW d, NEW x, NEW y, NEW z, NEW t, Parts(d, x, y, z, t), NEW o, IsWidth(o),
           Usable(SubSeq(d, x, y), o), Usable(SubSeq(d, 1, z), o),
           Interval(SubSeq(d, x, y)) = Interval(SubSeq(d, 1, z)),
           StateOn(SubSeq(d, x, y), o, t) \in {"up", "down"}
    PROVE  StateOn(SubSeq(d, 1, z), o, t) = StateOn(SubSeq(d, x, y), o, t)
<1> DEFINE a == SubSeq(d, x, y)
           c == SubSeq(d, 1, z)
           w == o.width
           A == Whole(a, o)
           C == Whole(c, o)
           U == Over(o, t)
           L == BeforePart(d, x, z, o)
           g == HigherBars(a, o)
           h == HigherBars(c, o)
           n == Cardinality(A)
           m == Cardinality(C)
           j == Cardinality(L)
<1>1. /\ Preceded(A, C, U, L) /\ \A b \in A : d[x].slot <= b * o.width
      /\ IsFiniteSet(A) /\ IsFiniteSet(C) /\ A \subseteq Nat /\ C \subseteq Nat
      /\ L \subseteq C /\ \A l \in L : \A b \in A : l < b
      /\ \A b \in A \cup C : \A e \in U : b < e => b \in U
      /\ \A b \in U : b \in A <=> b \in C /\ b \notin L
  <2>1. Preceded(A, C, U, L) /\ \A b \in A : d[x].slot <= b * o.width
    BY WholeOfAPart
  <2> QED
    BY <2>1 DEF Preceded
<1>2. Data(a) /\ Data(c)
  <2>1. Data(d) /\ x \in Nat \ {0} /\ y \in Int /\ y <= Len(d) /\ z \in Int /\ z <= Len(d) /\ 1 \in Nat \ {0}
    BY DEF Parts
  <2> QED
    BY <2>1, PartIs
<1>3. \A b \in U : b \in Nat /\ (b + 1) * o.width <= t
  BY DEF Over
<1>4. \A b \in Nat : (b + 1) * o.width <= t => b \in U
  BY DEF Over
<1>5. ASSUME NEW b \in U, d[x].slot <= b * o.width PROVE HigherBar(a, o, b) = HigherBar(c, o, b)
  BY <1>3, <1>5, SameBar
<1>6. StateAt(g, States(g, o), t) \in {"up", "down"}
  BY DEF StateOn
<1> HIDE DEF a, c, U, L
<1>7. Counts(g) /\ Len(g) = n /\ \A k \in 1..n : g[k] = HigherBar(a, o, Ordered(A)[k])
  BY <1>2, HigherBarsAre
<1>8. Counts(h) /\ Len(h) = m /\ \A k \in 1..m : h[k] = HigherBar(c, o, Ordered(C)[k])
  BY <1>2, HigherBarsAre
<1> HIDE DEF A, C, g, h
<1>9. /\ j \in Nat
      /\ \A k \in 1..n : Ordered(A)[k] \in U => k + j \in 1..m /\ Ordered(C)[k + j] = Ordered(A)[k]
  BY <1>1, Suffix
<1>10. /\ n \in Nat /\ \A k \in 1..n : Ordered(A)[k] \in A
       /\ \A i, k \in 1..n : i < k => Ordered(A)[i] < Ordered(A)[k]
       /\ \A b \in A : \E k \in 1..n : b = Ordered(A)[k]
  BY <1>1, OrderedIs
<1>11. /\ m \in Nat /\ \A k \in 1..m : Ordered(C)[k] \in C
       /\ \A i, k \in 1..m : i < k => Ordered(C)[i] < Ordered(C)[k]
  BY <1>1, OrderedIs
<1> HIDE DEF n, m, j
<1>12. DOMAIN g = 1..n /\ DOMAIN h = 1..m
  BY <1>7, <1>8 DEF Counts
<1>13. ASSUME NEW k \in 1..n PROVE g[k].close <= t <=> Ordered(A)[k] \in U
  <2>1. g[k].close = (Ordered(A)[k] + 1) * o.width
    BY <1>7 DEF HigherBar
  <2>2. Ordered(A)[k] \in Nat
    BY <1>1, <1>10
  <2> QED
    BY <1>3, <1>4, <2>1, <2>2
<1>14. ASSUME NEW k \in 1..m PROVE h[k].close <= t <=> Ordered(C)[k] \in U
  <2>1. h[k].close = (Ordered(C)[k] + 1) * o.width
    BY <1>8 DEF HigherBar
  <2>2. Ordered(C)[k] \in Nat
    BY <1>1, <1>11
  <2> QED
    BY <1>3, <1>4, <2>1, <2>2
<1> DEFINE R == {k \in DOMAIN g : g[k].close <= t}
           S == {k \in DOMAIN h : h[k].close <= t}
<1>15. /\ StateAt(g, States(g, o), t) = IF R = {} THEN "unknown" ELSE States(g, o)[Max(R)]
       /\ StateAt(h, States(h, o), t) = IF S = {} THEN "unknown" ELSE States(h, o)[Max(S)]
  BY DEF StateAt
<1>16. R \subseteq 1..n /\ S \subseteq 1..m /\ \A k \in 1..n : k \in R <=> Ordered(A)[k] \in U
  BY <1>12, <1>13
<1>17. \A k \in 1..m : k \in S <=> Ordered(C)[k] \in U
  BY <1>12, <1>14
<1> HIDE DEF R, S
<1>18. R # {}
  BY <1>6, <1>15
<1> DEFINE K == Max(R)
           q == K + j
<1>19. K \in R /\ K \in Nat /\ \A i \in R : i <= K
  BY <1>10, <1>16, <1>18, EndsAre
<1>20. /\ StateAt(g, States(g, o), t) = States(g, o)[K]
  BY <1>15, <1>18
<1> HIDE DEF K
<1>21. K \in 1..n /\ Ordered(A)[K] \in U
  BY <1>16, <1>19
<1>22. q \in 1..m /\ Ordered(C)[q] = Ordered(A)[K]
  BY <1>9, <1>21
<1> HIDE DEF q
<1>23. q \in S
  BY <1>17, <1>21, <1>22
<1>24. ASSUME NEW i \in S PROVE i <= q
  <2> SUFFICES ASSUME q < i PROVE FALSE
    BY <1>11, <1>16, <1>22
  <2> DEFINE e == Ordered(C)[i]
             f == Ordered(A)[K]
  <2>1. i \in 1..m /\ e \in U /\ e \in C
    BY <1>11, <1>16, <1>17
  <2>2. f < e
    BY <1>11, <1>22, <2>1
  <2>3. f \in A /\ f \in Nat /\ e \in Nat
    BY <1>1, <1>10, <1>21, <2>1
  <2>4. e \notin L
    <3> SUFFICES ASSUME e \in L PROVE FALSE
      OBVIOUS
    <3>1. e < f
      BY <1>1, <2>3
    <3> HIDE DEF e, f
    <3> QED
      BY <2>2, <2>3, <3>1
  <2>5. e \in A
    BY <1>1, <2>1, <2>4
  <2>6. PICK k \in 1..n : e = Ordered(A)[k]
    BY <1>10, <2>5
  <2>7. k <= K /\ k \in Nat /\ K \in Nat
    BY <1>16, <1>19, <2>1, <2>6
  <2>8. k = K \/ k < K
    BY <2>7
  <2>9. e = f \/ e < f
    BY <1>10, <1>21, <2>6, <2>8
  <2> HIDE DEF e, f
  <2> QED
    BY <2>2, <2>3, <2>9
<1>25. Max(S) = q
  <2>1. S \subseteq Int /\ q \in Int
    BY <1>11, <1>16, <1>22
  <2> QED
    BY <1>23, <1>24, <2>1, MaxIs
<1>26. StateAt(h, States(h, o), t) = States(h, o)[q]
  BY <1>15, <1>23, <1>25
<1>27. \A k \in 1..K : g[k] = h[k + j]
  <2> SUFFICES ASSUME NEW k \in 1..K PROVE g[k] = h[k + j]
    OBVIOUS
  <2> DEFINE e == Ordered(A)[k]
  <2>1. k \in 1..n /\ (k = K \/ k < K)
    BY <1>10, <1>21
  <2>2. e = Ordered(A)[K] \/ e < Ordered(A)[K]
    BY <1>10, <1>21, <2>1
  <2>3. e \in A
    BY <1>10, <2>1
  <2>4. e \in U
    BY <1>1, <1>21, <2>2, <2>3
  <2>5. k + j \in 1..m /\ Ordered(C)[k + j] = e
    BY <1>9, <2>1, <2>4
  <2>6. g[k] = HigherBar(a, o, e)
    BY <1>7, <2>1
  <2>7. h[k + j] = HigherBar(c, o, e)
    BY <1>8, <2>5
  <2>8. HigherBar(a, o, e) = HigherBar(c, o, e)
    BY <1>1, <1>5, <2>3, <2>4
  <2> QED
    BY <2>6, <2>7, <2>8
<1>28. States(h, o)[K + j] = States(g, o)[K]
  <2>1. K \in Nat \ {0} /\ K <= Len(g)
    BY <1>7, <1>10, <1>21
  <2>2. j + K <= Len(h)
    BY <1>8, <1>9, <1>11, <1>19, <1>22 DEF q
  <2>3. o.minimum \in Nat
    BY DEF IsWidth
  <2>4. States(g, o)[K] \in {"up", "down"}
    BY <1>6, <1>20
  <2> QED
    BY <1>7, <1>8, <1>9, <1>27, <2>1, <2>2, <2>3, <2>4, StateOfAPart
<1>29. StateAt(h, States(h, o), t) = StateAt(g, States(g, o), t)
  BY <1>20, <1>26, <1>28 DEF q
<1> QED
  BY <1>29 DEF StateOn, g, h, a, c

-----------------------------------------------------------------------------
(* When a signal is decided *)

\* A trigger bar ends before the bars after it.
LEMMA EndIs ==
    ASSUME NEW d, Data(d), NEW w \in Nat, NEW k \in 1..Len(TriggerBars(d, w))
    PROVE  /\ TriggerBars(d, w)[k].end \in Int
           /\ \A i \in 1..Len(d) : d[i].slot < TriggerBars(d, w)[k].end => i <= TriggerBars(d, w)[k].last
<1> DEFINE tb == TriggerBars(d, w)
<1>1. /\ Len(d) \in Nat /\ \A i \in 1..Len(d) : d[i].slot \in Nat
      /\ \A i, j \in 1..Len(d) : i < j => d[i].slot < d[j].slot
  BY DEF Data
<1>2. CASE w = 0
  <2>1. /\ Len(tb) = Len(d)
        /\ \A i \in 1..Len(d) : tb[i] = [high |-> d[i].high, low |-> d[i].low, close |-> d[i].close,
                                        first |-> i, last |-> i, end |-> d[i].slot]
    BY <1>2, BaseIs DEF Base
  <2>2. k \in 1..Len(tb)
    OBVIOUS
  <2> HIDE DEF tb
  <2>3. tb[k].end = d[k].slot /\ tb[k].last = k /\ k \in 1..Len(d)
    <3> DEFINE x == tb[k]
    <3> HIDE DEF x
    <3>1. x = [high |-> d[k].high, low |-> d[k].low, close |-> d[k].close,
               first |-> k, last |-> k, end |-> d[k].slot]
      BY <2>1, <2>2 DEF x
    <3>2. x.end = d[k].slot /\ x.last = k
      BY <3>1
    <3> QED
      BY <2>1, <2>2, <3>2 DEF x
  <2>4. ASSUME NEW i \in 1..Len(d), d[i].slot < d[k].slot PROVE i <= k
    <3> SUFFICES ASSUME k < i PROVE FALSE
      BY <1>1, <2>3
    <3>1. d[k].slot < d[i].slot /\ d[k].slot \in Nat /\ d[i].slot \in Nat
      BY <1>1, <2>3
    <3> QED
      BY <2>4, <3>1
  <2>5. tb[k].end \in Int /\ \A i \in 1..Len(d) : d[i].slot < tb[k].end => i <= tb[k].last
    BY <1>1, <2>3, <2>4
  <2> QED
    BY <2>5 DEF tb
<1>3. CASE w # 0
  <2>0. w \in Nat \ {0}
    BY <1>3
  <2> DEFINE b == Ordered(Buckets(d, w))[k]
             m == w * b
  <2>1. b \in Buckets(d, w) /\ tb[k] = BarOf(d, w, b)
    BY <2>0, BucketBars
  <2> HIDE DEF tb, b
  <2>2. b \in Nat /\ \A i : i \in InBucket(d, w, b) <=> i \in 1..Len(d) /\ d[i].slot \div w = b
    <3>1. Buckets(d, w) \subseteq Nat
      BY <2>0, BucketsAre
    <3>2. \A c : \A i : i \in InBucket(d, w, c) <=> i \in 1..Len(d) /\ d[i].slot \div w = c
      BY <2>0, BucketsAre, ZenonT(60)
    <3> QED
      BY <2>1, <3>1, <3>2
  <2>3. tb[k].end = (b + 1) * w
    BY <2>1 DEF BarOf
  <2>4. /\ tb[k].last \in InBucket(d, w, b) /\ tb[k].last \in Nat
        /\ \A i \in InBucket(d, w, b) : i <= tb[k].last
    <3>1. /\ BarOf(d, w, b).last \in InBucket(d, w, b) /\ BarOf(d, w, b).last \in Nat
          /\ \A i \in InBucket(d, w, b) : BarOf(d, w, b).first <= i /\ i <= BarOf(d, w, b).last
      BY <2>0, <2>1, BarIs
    <3> QED
      BY <2>1, <3>1
  <2> DEFINE e == tb[k].last
  <2> HIDE DEF e
  <2>5. e \in 1..Len(d) /\ e \in Nat /\ d[e].slot \div w = b /\ \A i \in InBucket(d, w, b) : i <= e
    BY <2>2, <2>4 DEF e
  <2>6. m \in Nat /\ (b + 1) * w = m + w
    BY <2>2
  <2>7. m <= d[e].slot
    <3> DEFINE s == d[e].slot
    <3>1. s \in Nat /\ s \div w = b
      BY <1>1, <2>5
    <3> HIDE DEF s
    <3>2. w * (s \div w) <= s
      BY <2>0, <3>1, DivIs
    <3>3. w * b <= s
      BY <3>1, <3>2
    <3> QED
      BY <3>3 DEF s
  <2>8. ASSUME NEW i \in 1..Len(d), d[i].slot < m + w PROVE i <= e
    <3> SUFFICES ASSUME e < i PROVE FALSE
      BY <1>1, <2>5
    <3> DEFINE s == d[i].slot
               q == s \div w
               n == w * q
    <3>1. d[e].slot < s /\ s \in Nat /\ d[e].slot \in Nat /\ s < m + w
      BY <1>1, <2>5, <2>8
    <3> HIDE DEF s
    <3>2. q \in Nat /\ n <= s /\ s < n + w
      BY <2>0, <3>1, DivIs
    <3>3. q = b
      <4>1. m < n + w /\ n < m + w
        <5>1. n \in Nat
          BY <2>0, <3>2
        <5> HIDE DEF n, m, q
        <5> QED
          BY <2>0, <2>6, <2>7, <3>1, <3>2, <5>1
      <4>2. w * b < w * (q + 1) /\ w * q < w * (b + 1)
        <5>1. w * (q + 1) = w * q + w /\ w * (b + 1) = w * b + w
          BY <2>0, <2>2, <3>2
        <5> QED
          BY <4>1, <5>1
      <4> HIDE DEF q
      <4>3. b < q + 1 /\ q < b + 1
        <5>1. q + 1 <= b => w * (q + 1) <= w * b
          BY <2>0, <2>2, <3>2
        <5>2. b + 1 <= q => w * (b + 1) <= w * q
          BY <2>0, <2>2, <3>2
        <5>3. w * b \in Nat /\ w * q \in Nat /\ w * (q + 1) \in Nat /\ w * (b + 1) \in Nat
          BY <2>0, <2>2, <3>2
        <5>4. ~(q + 1 <= b) /\ ~(b + 1 <= q)
          BY <4>2, <5>1, <5>2, <5>3
        <5> QED
          BY <2>2, <3>2, <5>4
      <4> QED
        BY <2>2, <3>2, <4>3
    <3>4. i \in InBucket(d, w, b)
      BY <2>2, <3>3 DEF s
    <3>5. i <= e
      BY <2>5, <3>4
    <3> QED
      BY <2>5, <3>5
  <2>9. tb[k].end \in Int /\ \A i \in 1..Len(d) : d[i].slot < tb[k].end => i <= tb[k].last
    <3>1. tb[k].end = m + w /\ m + w \in Int
      BY <2>0, <2>3, <2>6
    <3> HIDE DEF m
    <3> QED
      BY <2>8, <3>1 DEF e
  <2> QED
    BY <2>9 DEF tb
<1> QED
  BY <1>2, <1>3

\* A signal is decided by its bar at the latest.
Due(d, s) ==
    /\ s.time \in Int /\ s.bar \in Nat
    /\ \A i \in 1..Len(d) : d[i].slot < s.time => i <= s.bar

LEMMA SignalsAreDue ==
    ASSUME NEW d, Data(d), NEW w \in Nat, NEW setup, NEW s \in Traded(Signals(d, w, setup))
    PROVE  Due(d, s)
<1> DEFINE tb == TriggerBars(d, w)
           zones == AdmittedZones(d, setup)
<1>0. s \in Signals(d, w, setup) /\ s.status # "void"
  BY DEF Traded
<1>1. d # << >>
  BY <1>0 DEF Signals
<1>2. \/ \E k, z, t, dir : IsSimple(s, zones, tb, setup.confirm, k, z, t, dir)
      \/ \E p, dir, k : IsSetup(s, d, zones, tb, w, p, dir, k)
  BY <1>0, <1>1, SignalsAre
<1>3. Framed(d, tb) /\ \A k \in 1..Len(tb) : tb[k].last \in 1..Len(d)
  BY FramedBars
<1>4. Len(d) \in Nat /\ DOMAIN tb = 1..Len(tb) /\ Len(tb) \in Nat
  BY <1>3 DEF Framed
<1>5. \A k \in 1..Len(tb) : tb[k].end \in Int /\ \A i \in 1..Len(d) : d[i].slot < tb[k].end => i <= tb[k].last
  BY EndIs
<1>6. \A r \in 1..Len(tb) : \A i \in Watched(d, tb, w, r) : i \in 1..Len(d) /\ tb[r].last < i
  <2> SUFFICES ASSUME NEW r \in 1..Len(tb), NEW i \in Watched(d, tb, w, r)
               PROVE  i \in 1..Len(d) /\ tb[r].last < i
    OBVIOUS
  <2>1. i \in 1..Len(d)
    BY <1>3, WatchedIs
  <2>2. tb[r].last \in Nat
    BY <1>3 DEF Framed
  <2>3. CASE w = 0
    <3>1. tb[r] = [high |-> d[r].high, low |-> d[r].low, close |-> d[r].close,
                   first |-> r, last |-> r, end |-> d[r].slot]
      BY <2>3, BaseIs DEF Base
    <3> DEFINE x == tb[r]
               m == Min({Len(d), r + MaxWait})
    <3>2. i \in r + 1..m
      BY <2>3 DEF Watched
    <3> HIDE DEF m
    <3>3. r < i
      BY <1>4, <2>1, <3>2
    <3>4. x = [high |-> d[r].high, low |-> d[r].low, close |-> d[r].close,
               first |-> r, last |-> r, end |-> d[r].slot]
      BY <3>1
    <3> HIDE DEF x
    <3>5. x.last = r
      BY <3>4
    <3> QED
      BY <2>1, <3>3, <3>5 DEF x
  <2>4. CASE w # 0
    <3>1. i \in tb[r].last + 1..Len(d)
      BY <2>4 DEF Watched
    <3> HIDE DEF tb
    <3> QED
      BY <1>4, <2>1, <2>2, <3>1
  <2> QED
    BY <2>3, <2>4
<1> HIDE DEF tb, zones
<1>7. CASE \E k, z, t, dir : IsSimple(s, zones, tb, setup.confirm, k, z, t, dir)
  <2>1. PICK k, z, t, dir : IsSimple(s, zones, tb, setup.confirm, k, z, t, dir)
    BY <1>7
  <2>2. s.bar = tb[k].last /\ s.time = tb[k].end
    BY <2>1, SimpleIsNot3c
  <2>3. k \in 1..Len(tb)
    BY <1>4, <2>1 DEF IsSimple
  <2> QED
    BY <1>3, <1>4, <1>5, <2>2, <2>3 DEF Due
<1>8. CASE \E p, dir, k : IsSetup(s, d, zones, tb, w, p, dir, k)
  <2>1. PICK p, dir, k : IsSetup(s, d, zones, tb, w, p, dir, k)
    BY <1>8
  <2> DEFINE o == Out(tb, k)
             x == Fill(d, tb, w, o, dir)
  <2>2. /\ k \in 1..Len(tb) /\ o \in k + 1..Len(tb) /\ x \in Watched(d, tb, w, o)
        /\ s = [trigger |-> "3c", direction |-> dir, level |-> p, arrival |-> tb[k].last,
                entry |-> x, time |-> tb[o].end, bar |-> x, status |-> "filled"]
    BY <1>0, <1>3, <2>1, FilledIs
  <2> HIDE DEF o, x
  <2>3. o \in 1..Len(tb) /\ s.time = tb[o].end /\ s.bar = x
    BY <1>4, <2>2
  <2>4. x \in 1..Len(d) /\ tb[o].last < x
    BY <1>6, <2>2, <2>3
  <2>5. s.time \in Int /\ \A i \in 1..Len(d) : d[i].slot < s.time => i <= tb[o].last
    BY <1>5, <2>3
  <2>6. tb[o].last \in Int /\ x \in Int /\ x \in Nat
    BY <1>3, <1>4, <2>3, <2>4
  <2>7. ASSUME NEW i \in 1..Len(d), d[i].slot < s.time PROVE i <= x
    <3>1. i <= tb[o].last
      BY <2>5, <2>7
    <3> QED
      BY <1>4, <2>4, <2>6, <3>1
  <2> QED
    BY <2>3, <2>5, <2>6, <2>7 DEF Due
<1> QED
  BY <1>2, <1>7, <1>8

-----------------------------------------------------------------------------
(* Signals admitted by what had closed *)

\* Data src admits s, whatever other signals it is asked of.
Admits(src, o, s) ==
    \A v \in o.widths : Usable(src, OneWidth(o, v)) /\ StateOn(src, OneWidth(o, v), s.time) = Required(s)

LEMMA AcceptedIs ==
    ASSUME NEW src, NEW o, NEW S
    PROVE  \A s : s \in Accepted(src, o, S) <=> s \in S /\ Admits(src, o, s)
<1> DEFINE R(v) == IF Usable(src, OneWidth(o, v))
                   THEN {s \in S : StateOn(src, OneWidth(o, v), s.time) # Required(s)} ELSE S
           T == {R(v) : v \in o.widths}
<1>1. Accepted(src, o, S) = S \ UNION T
  BY DEF Accepted, StateOn
<1>2. \A v : \A s \in S : s \in R(v) <=> ~(/\ Usable(src, OneWidth(o, v))
                                           /\ StateOn(src, OneWidth(o, v), s.time) = Required(s))
  OBVIOUS
<1>3. \A u : u \in T <=> \E v \in o.widths : u = R(v)
  OBVIOUS
<1> HIDE DEF R, T
<1>4. \A s : s \in UNION T <=> \E v \in o.widths : s \in R(v)
  BY <1>3
<1> QED
  BY <1>1, <1>2, <1>4 DEF Admits

LEMMA RequiredIs == \A s : Required(s) \in {"up", "down"}
  BY DEF Required

\* Known(time) of data d.
KnownOf(d, t) == SubSeq(d, 1, Heard(d, t))

\* Part of the data that holds all that had closed admits no signal that what had
\* closed does not, and exactly those when it goes back to the start.
LEMMA AdmitsAgree ==
    ASSUME NEW d, Data(d), NEW x \in Nat \ {0}, NEW y \in Int, y <= Len(d), NEW o,
           o.widths \subseteq Nat \ {0}, o.session \in Nat \ {0}, o.minimum \in Nat \ {0},
           NEW s, s.time \in Int, \A i \in 1..Len(d) : d[i].slot < s.time => i <= y,
           SameInterval(SubSeq(d, x, y), KnownOf(d, s.time), o)
    PROVE  /\ Admits(SubSeq(d, x, y), o, s) => Admits(KnownOf(d, s.time), o, s)
           /\ x = 1 => (Admits(KnownOf(d, s.time), o, s) => Admits(SubSeq(d, x, y), o, s))
<1> DEFINE a == SubSeq(d, x, y)
           z == Heard(d, s.time)
           c == SubSeq(d, 1, z)
           t == s.time
<1>1. /\ Len(d) \in Nat /\ t \in Int /\ 1 \in Nat \ {0}
      /\ z \in 0..Len(d) /\ \A i \in 1..Len(d) : d[i].slot < t <=> i <= z
  <2>1. Len(d) \in Nat
    BY DEF Data
  <2>2. Heard(d, t) \in 0..Len(d) /\ \A i \in 1..Len(d) : d[i].slot < t <=> i <= Heard(d, t)
    BY HeardIs
  <2> QED
    BY <2>1, <2>2
<1>2. z \in Nat /\ z \in Int /\ z <= Len(d)
  BY <1>1
<1>3. c = KnownOf(d, s.time)
  BY DEF KnownOf
<1>4. Interval(a) = Interval(c) /\ \A v \in o.widths : Usable(a, OneWidth(o, v)) /\ Usable(c, OneWidth(o, v))
  BY <1>3 DEF SameInterval
<1>5. \A i \in 1..Len(d) : d[i].slot < t => i <= y /\ i <= z
  BY <1>1
<1>6. Len(a) = (IF x <= y THEN y - x + 1 ELSE 0) /\ Len(c) = (IF 1 <= z THEN z - 1 + 1 ELSE 0)
  <2>1. Len(a) = IF x <= y THEN y - x + 1 ELSE 0
    BY PartIs
  <2>2. Len(c) = IF 1 <= z THEN z - 1 + 1 ELSE 0
    BY <1>1, <1>2, PartIs
  <2> QED
    BY <2>1, <2>2
<1> HIDE DEF z, t
<1>7. ASSUME NEW v \in o.widths
      PROVE  /\ IsWidth(OneWidth(o, v)) /\ Parts(d, x, y, z, t)
             /\ x = 1 => Parts(d, x, z, y, t)
  <2>1. IsWidth(OneWidth(o, v))
    BY DEF IsWidth, OneWidth
  <2>2. Len(a) >= 2 /\ Len(c) >= 2
    BY <1>4, <1>7 DEF Usable
  <2>3. x <= y /\ z \in Nat \ {0} /\ y \in Nat \ {0}
    BY <1>2, <1>6, <2>2
  <2>4. Parts(d, x, y, z, t)
    BY <1>1, <1>2, <1>5, <2>3 DEF Parts
  <2>5. x = 1 => Parts(d, x, z, y, t)
    BY <1>1, <1>2, <1>5, <2>3 DEF Parts
  <2> QED
    BY <2>1, <2>4, <2>5
<1>8. ASSUME NEW v \in o.widths, StateOn(a, OneWidth(o, v), t) \in {"up", "down"}
      PROVE  StateOn(c, OneWidth(o, v), t) = StateOn(a, OneWidth(o, v), t)
  <2>1. IsWidth(OneWidth(o, v)) /\ Parts(d, x, y, z, t)
    BY <1>7, <1>8
  <2>2. Usable(SubSeq(d, x, y), OneWidth(o, v)) /\ Usable(SubSeq(d, 1, z), OneWidth(o, v))
    BY <1>4, <1>8
  <2>3. Interval(SubSeq(d, x, y)) = Interval(SubSeq(d, 1, z))
    BY <1>4
  <2> QED
    BY <1>8, <2>1, <2>2, <2>3, StateAgrees
<1>9. ASSUME x = 1, NEW v \in o.widths, StateOn(c, OneWidth(o, v), t) \in {"up", "down"}
      PROVE  StateOn(a, OneWidth(o, v), t) = StateOn(c, OneWidth(o, v), t)
  <2>1. IsWidth(OneWidth(o, v)) /\ Parts(d, 1, z, y, t)
    BY <1>7, <1>9
  <2>2. Usable(SubSeq(d, 1, z), OneWidth(o, v)) /\ Usable(SubSeq(d, 1, y), OneWidth(o, v))
    BY <1>4, <1>9
  <2>3. Interval(SubSeq(d, 1, z)) = Interval(SubSeq(d, 1, y))
    BY <1>4, <1>9
  <2>4. StateOn(SubSeq(d, 1, z), OneWidth(o, v), t) \in {"up", "down"}
    BY <1>9
  <2>5. StateOn(SubSeq(d, 1, y), OneWidth(o, v), t) = StateOn(SubSeq(d, 1, z), OneWidth(o, v), t)
    BY <2>1, <2>2, <2>3, <2>4, StateAgrees
  <2> QED
    BY <1>9, <2>5
<1> HIDE DEF a, c
<1>10. Admits(a, o, s) => Admits(c, o, s)
  BY <1>4, <1>8, RequiredIs DEF Admits, t
<1>11. x = 1 => (Admits(c, o, s) => Admits(a, o, s))
  BY <1>4, <1>9, RequiredIs DEF Admits, t
<1> QED
  BY <1>3, <1>10, <1>11 DEF a

RightOf(o) == UNION {Accepted(Known(t), o, DecidedAt(t)) : t \in Times}

ComparableTo(src, o) ==
    UNION {DecidedAt(t) : t \in {u \in Times : SameInterval(src, Known(u), o)}}

LEMMA KnownIs == \A t : Known(t) = KnownOf(df, t)
  BY DEF Known, KnownOf, Heard

LEMMA DecidedIs ==
    /\ \A s, t : s \in DecidedAt(t) <=> s \in Traded(signals) /\ s.time = t
    /\ \A t : t \in Times <=> \E s \in Traded(signals) : t = s.time
  BY DEF DecidedAt, Times

LEMMA RightIs ==
    ASSUME NEW o
    PROVE  \A s : s \in RightOf(o) <=> s \in Traded(signals) /\ Admits(KnownOf(df, s.time), o, s)
<1> DEFINE R(t) == Accepted(Known(t), o, DecidedAt(t))
           T == {R(t) : t \in Times}
<1>1. \A t, s : s \in R(t) <=> s \in DecidedAt(t) /\ Admits(KnownOf(df, t), o, s)
  <2> SUFFICES ASSUME NEW t PROVE \A s : s \in R(t) <=> s \in DecidedAt(t) /\ Admits(KnownOf(df, t), o, s)
    OBVIOUS
  <2>1. \A s : s \in Accepted(Known(t), o, DecidedAt(t)) <=> s \in DecidedAt(t) /\ Admits(Known(t), o, s)
    BY AcceptedIs
  <2> QED
    BY <2>1, KnownIs
<1>2. \A u : u \in T <=> \E t \in Times : u = R(t)
  OBVIOUS
<1>3. RightOf(o) = UNION T
  BY DEF RightOf
<1> HIDE DEF R, T
<1>4. \A s : s \in UNION T <=> \E t \in Times : s \in R(t)
  BY <1>2
<1>5. \A s : (\E t \in Times : s \in R(t)) <=> s \in Traded(signals) /\ Admits(KnownOf(df, s.time), o, s)
  BY <1>1, DecidedIs
<1> QED
  BY <1>3, <1>4, <1>5

LEMMA ComparableIs ==
    ASSUME NEW src, NEW o
    PROVE  \A s : s \in ComparableTo(src, o) <=>
                     s \in Traded(signals) /\ SameInterval(src, KnownOf(df, s.time), o)
<1> DEFINE T == {DecidedAt(t) : t \in {u \in Times : SameInterval(src, Known(u), o)}}
<1>1. \A x : x \in T <=> \E t \in Times : SameInterval(src, Known(t), o) /\ x = DecidedAt(t)
  OBVIOUS
<1>2. ComparableTo(src, o) = UNION T
  BY DEF ComparableTo
<1> HIDE DEF T
<1>3. \A s : s \in UNION T <=> \E t \in Times : SameInterval(src, Known(t), o) /\ s \in DecidedAt(t)
  BY <1>1
<1>4. \A s : (\E t \in Times : SameInterval(src, Known(t), o) /\ s \in DecidedAt(t)) <=>
                s \in Traded(signals) /\ SameInterval(src, KnownOf(df, s.time), o)
  BY DecidedIs, KnownIs
<1> QED
  BY <1>2, <1>3, <1>4

\* The signals of a window are over by its end, and are filtered one by one.
LEMMA SlicedBy ==
    ASSUME NEW sigs, \A s \in Traded(sigs) : Proper(s), NEW w, w.stop \in Nat, NEW plan,
           NEW l \in Sliced(sigs, w, plan), l.sig \in Traded(sigs)
    PROVE  l.sig.bar <= w.stop
<1>1. PICK s \in sigs : Within(Actionable(s, plan), w) /\ l = Local(s, w)
  BY SlicedIs
<1>2. l.sig = s
  BY <1>1 DEF Local
<1>3. s \in Traded(sigs) /\ s.status # "void" /\ Proper(s)
  BY <1>2 DEF Traded
<1>4. Actionable(s, plan) \in w.start..w.stop
  BY <1>1 DEF Within
<1> DEFINE a == Actionable(s, plan)
<1>5. s.bar \in Nat /\ (a = s.bar \/ a = s.bar + 1)
  BY <1>3 DEF Proper, Actionable
<1> HIDE DEF a
<1>6. a \in Int /\ a <= w.stop
  BY <1>4, <1>5 DEF a
<1> QED
  BY <1>2, <1>5, <1>6

OwnOf(sigs, w, plan)      == {l.sig : l \in Sliced(sigs, w, plan)}
AdmittedOf(d, sigs, w, plan) == {l.sig : l \in Admitted(d, sigs, w, plan)}

LEMMA AdmittedIs ==
    ASSUME NEW d, NEW sigs, NEW w, NEW plan, plan.filter
    PROVE  \A s : s \in AdmittedOf(d, sigs, w, plan) <=>
                     s \in OwnOf(sigs, w, plan) /\ Admits(Source(d, w, plan), plan.otf, s)
<1> DEFINE S == Sliced(sigs, w, plan)
           O == {m.sig : m \in S}
           C == Accepted(Source(d, w, plan), plan.otf, O)
<1>1. Admitted(d, sigs, w, plan) = {l \in S : l.sig \in C}
  BY DEF Admitted
<1>2. \A s : s \in C <=> s \in O /\ Admits(Source(d, w, plan), plan.otf, s)
  BY AcceptedIs
<1>3. OwnOf(sigs, w, plan) = O
  BY DEF OwnOf
<1>4. \A s : s \in O <=> \E l \in S : s = l.sig
  OBVIOUS
<1> HIDE DEF S, O, C
<1>5. \A s : s \in AdmittedOf(d, sigs, w, plan) <=> \E l \in S : l.sig \in C /\ s = l.sig
  BY <1>1 DEF AdmittedOf
<1> QED
  BY <1>2, <1>3, <1>4, <1>5

\* What a window admits, for a window of the data.
SoundFor(w, plan) ==
    LET sigs == ComparableTo(Source(df, w, plan), plan.otf)
        own  == OwnOf(signals, w, plan) \cap sigs
        adm  == AdmittedOf(df, signals, w, plan) \cap sigs
    IN IF plan.history = "causal_prefix" THEN adm = own \cap RightOf(plan.otf) ELSE adm \subseteq RightOf(plan.otf)

LEMMA WindowIsSound ==
    ASSUME Built, NEW plan \in Plans, plan.filter, NEW w, w.start \in 1..Len(df), w.stop \in 1..Len(df)
    PROVE  SoundFor(w, plan)
<1> DEFINE o == plan.otf
           x == IF plan.history = "fold_local" THEN w.start ELSE 1
           y == w.stop
           src == Source(df, w, plan)
           sigs == ComparableTo(src, o)
           own == OwnOf(signals, w, plan)
           adm == AdmittedOf(df, signals, w, plan)
<1>1. Data(df) /\ Len(df) \in Nat /\ feed.trigger_timeframe \in Nat /\ signals = Signals(df, feed.trigger_timeframe, feed.setup)
  BY FeedIs DEF Built, Data
<1>2. IsPlan(plan)
  BY PlansAssumption
<1>3. o.widths \subseteq Nat \ {0} /\ o.session \in Nat \ {0} /\ o.minimum \in Nat \ {0}
      /\ plan.history \in {"fold_local", "causal_prefix"}
  BY <1>2 DEF IsPlan
<1>4. x \in Nat \ {0} /\ y \in Nat /\ y \in Int /\ y <= Len(df) /\ src = SubSeq(df, x, y)
  BY <1>1 DEF Source
<1>5. plan.history = "causal_prefix" => x = 1
  OBVIOUS
<1>6. \A s \in Traded(signals) : Proper(s) /\ Due(df, s)
  <2>1. \A s \in signals : Proper(s)
    BY <1>1, SignalsAreProper
  <2>2. \A s \in Traded(signals) : Due(df, s)
    BY <1>1, SignalsAreDue
  <2> QED
    BY <2>1, <2>2 DEF Traded
<1>7. \A s : s \in sigs <=> s \in Traded(signals) /\ SameInterval(src, KnownOf(df, s.time), o)
  BY ComparableIs
<1>8. \A s : s \in RightOf(o) <=> s \in Traded(signals) /\ Admits(KnownOf(df, s.time), o, s)
  BY RightIs
<1>9. \A s : s \in adm <=> s \in own /\ Admits(src, o, s)
  BY AdmittedIs
<1> HIDE DEF src, o, sigs, x, y
<1>10. ASSUME NEW s, s \in own, s \in sigs
       PROVE  /\ Admits(src, o, s) => Admits(KnownOf(df, s.time), o, s)
              /\ x = 1 => (Admits(KnownOf(df, s.time), o, s) => Admits(src, o, s))
  <2>1. s \in Traded(signals) /\ SameInterval(src, KnownOf(df, s.time), o)
    BY <1>7, <1>10
  <2>2. PICK l \in Sliced(signals, w, plan) : s = l.sig
    BY <1>10 DEF OwnOf
  <2>3. s.bar <= y
    <3>1. l.sig.bar <= w.stop
      BY <1>4, <1>6, <2>1, <2>2, SlicedBy DEF y
    <3> QED
      BY <2>2, <3>1 DEF y
  <2>4. s.time \in Int /\ s.bar \in Nat /\ \A i \in 1..Len(df) : df[i].slot < s.time => i <= s.bar
    BY <1>6, <2>1 DEF Due
  <2>5. \A i \in 1..Len(df) : df[i].slot < s.time => i <= y
    <3> SUFFICES ASSUME NEW i \in 1..Len(df), df[i].slot < s.time PROVE i <= y
      OBVIOUS
    <3>1. i <= s.bar
      BY <2>4
    <3> DEFINE b == s.bar
    <3>2. i <= b /\ b <= y /\ b \in Nat /\ y \in Nat /\ i \in Int
      BY <1>1, <1>4, <2>3, <2>4, <3>1
    <3> HIDE DEF b
    <3> QED
      BY <3>2
  <2>6. SameInterval(SubSeq(df, x, y), KnownOf(df, s.time), o)
    BY <1>4, <2>1
  <2>7. /\ Admits(SubSeq(df, x, y), o, s) => Admits(KnownOf(df, s.time), o, s)
        /\ x = 1 => (Admits(KnownOf(df, s.time), o, s) => Admits(SubSeq(df, x, y), o, s))
    BY <1>1, <1>3, <1>4, <2>4, <2>5, <2>6, AdmitsAgree
  <2> QED
    BY <1>4, <2>7
<1> HIDE DEF own, adm
<1>11. adm \cap sigs \subseteq RightOf(o)
  BY <1>7, <1>8, <1>9, <1>10
<1>12. ASSUME plan.history = "causal_prefix" PROVE adm \cap sigs = (own \cap sigs) \cap RightOf(o)
  BY <1>5, <1>7, <1>8, <1>9, <1>10, <1>12
<1> QED
  BY <1>11, <1>12 DEF SoundFor, src, sigs, own, adm, o

LEMMA WholeDataIsSound ==
    ASSUME Built, NEW plan \in Plans
    PROVE  Accepted(df, plan.otf, ComparableTo(df, plan.otf)) = ComparableTo(df, plan.otf) \cap RightOf(plan.otf)
<1> DEFINE o == plan.otf
           n == Len(df)
           sigs == ComparableTo(df, o)
<1>1. Data(df) /\ n \in Nat /\ feed.trigger_timeframe \in Nat /\ signals = Signals(df, feed.trigger_timeframe, feed.setup)
  BY FeedIs DEF Built, Data
<1>2. df = SubSeq(df, 1, n)
  BY SubSeqFull DEF Built
<1>3. o.widths \subseteq Nat \ {0} /\ o.session \in Nat \ {0} /\ o.minimum \in Nat \ {0}
  BY PlansAssumption DEF IsPlan
<1>4. \A s \in Traded(signals) : Due(df, s)
  BY <1>1, SignalsAreDue
<1>5. \A s : s \in sigs <=> s \in Traded(signals) /\ SameInterval(df, KnownOf(df, s.time), o)
  BY ComparableIs
<1>6. \A s : s \in RightOf(o) <=> s \in Traded(signals) /\ Admits(KnownOf(df, s.time), o, s)
  BY RightIs
<1>7. \A s : s \in Accepted(df, o, sigs) <=> s \in sigs /\ Admits(df, o, s)
  BY AcceptedIs
<1> HIDE DEF o, sigs
<1>8. ASSUME NEW s \in sigs PROVE Admits(df, o, s) <=> Admits(KnownOf(df, s.time), o, s)
  <2>1. s \in Traded(signals) /\ SameInterval(SubSeq(df, 1, n), KnownOf(df, s.time), o)
    BY <1>2, <1>5
  <2>2. s.time \in Int
    BY <1>4, <2>1 DEF Due
  <2>3. \A i \in 1..Len(df) : df[i].slot < s.time => i <= n
    BY <1>1
  <2>4. 1 \in Nat \ {0} /\ n \in Int /\ n <= Len(df)
    BY <1>1
  <2>5. /\ Admits(SubSeq(df, 1, n), o, s) => Admits(KnownOf(df, s.time), o, s)
        /\ 1 = 1 => (Admits(KnownOf(df, s.time), o, s) => Admits(SubSeq(df, 1, n), o, s))
    BY <1>1, <1>3, <2>1, <2>2, <2>3, <2>4, AdmitsAgree
  <2> QED
    BY <1>2, <2>5
<1>9. Accepted(df, o, sigs) = sigs \cap RightOf(o)
  BY <1>5, <1>6, <1>7, <1>8
<1> QED
  BY <1>9 DEF sigs, o

\* What a filter lets through is decided by what had closed when the signal was decided,
\* for data of any length, any widths and sessions and every walk-forward plan: whole
\* data and whole histories admit exactly those signals, a window with only its own bars
\* none but those (otf_filter.py, apply_otf_filter; walk_forward.py, _otf_source_for_fold).
THEOREM FiltersKnowThePast == Spec => []FilteredByTheKnown
<1>1. ASSUME Built PROVE FilteredByTheKnown
  <2> SUFFICES ASSUME NEW plan \in Plans, plan.filter
               PROVE  /\ Accepted(df, plan.otf, ComparableTo(df, plan.otf)) = ComparableTo(df, plan.otf) \cap RightOf(plan.otf)
                      /\ \A f \in Folds(df, plan) : SoundFor(f.train, plan) /\ SoundFor(f.test, plan)
    BY DEF FilteredByTheKnown, ComparableTo, RightOf, SoundFor, OwnOf, AdmittedOf
  <2>1. Data(df) /\ IsPlan(plan)
    BY <1>1, PlansAssumption DEF Built
  <2>2. \A f \in Folds(df, plan) : /\ f.test.start \in 1..Len(df) /\ f.test.stop \in 1..Len(df)
                                  /\ f.train.start \in 1..Len(df) /\ f.train.stop \in 1..Len(df)
    BY <2>1, FoldsAre
  <2>3. \A f \in Folds(df, plan) : SoundFor(f.train, plan) /\ SoundFor(f.test, plan)
    BY <1>1, <2>2, WindowIsSound
  <2> QED
    BY <1>1, <2>3, WholeDataIsSound
<1> QED
  BY <1>1, BuiltInit, BuiltStep, PTL DEF Spec
=============================================================================
