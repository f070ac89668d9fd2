--------------------------- MODULE JournalPairsProofs ---------------------------
(***************************************************************************)
(* What pairing a journal promises, for any fills, groups, contracts and   *)
(* sessions: of every trade, of every fill's quantity and of every day's   *)
(* profit. A quantity and a profit are sums over sets that grow, so the    *)
(* second part is about sums.                                              *)
(***************************************************************************)
EXTENDS JournalPairs, FiniteSetTheorems, WellFoundedInduction, TLAPS

TypeOK ==
    /\ rows \in Seq(Fill)
    /\ NoGroup \notin todo
    /\ pending \in [Fills -> Nat] /\ opens \in [Fills -> Nat]
    /\ book.fills \subseteq Fills
    /\ \A t \in trades : t.entry \in Fills /\ t.exit \in Fills \cup {NoFill}

\* What is open is of the book at work, whose fills belong together, and came before
\* everything the book has yet to take.
BookInOrder ==
    /\ \A f \in Fills : opens[f] > 0 => f \in book.fills
    /\ \A f, g \in book.fills : Linked(f, g)
    /\ \A f \in Fills, g \in book.fills : opens[f] > 0 /\ pending[g] > 0 => f < g

OneSided   == \A f, g \in Fills : opens[f] > 0 /\ opens[g] > 0 => rows[f].side = rows[g].side
RoundTrips == \A t \in trades : t.exit # NoFill =>
                 /\ t.entry < t.exit /\ rows[t.entry].side # rows[t.exit].side
                 /\ Linked(t.entry, t.exit) /\ t.qty > 0

IInv == TypeOK /\ BookInOrder /\ OneSided /\ RoundTrips

-----------------------------------------------------------------------------
LEMMA LeastNatural == \A T : T # {} /\ T \subseteq Nat => \E m \in T : \A n \in T : m <= n
<1> SUFFICES ASSUME NEW T, T # {}, T \subseteq Nat PROVE \E m \in T : \A n \in T : m <= n
  OBVIOUS
<1> DEFINE Less == OpToRel(<, Nat)
<1>1. \A x, y \in Nat : x < y => <<x, y>> \in Less
  BY DEF OpToRel
<1>2. IsWellFoundedOn(Less, Nat)
  BY NatLessThanWellFounded
<1> HIDE DEF Less
<1>3. PICK m \in T : \A n \in T : ~(<<n, m>> \in Less)
  BY <1>2, WFMin
<1>4. ASSUME NEW n \in T PROVE m <= n
  <2>1. m \in Nat /\ n \in Nat
    OBVIOUS
  <2>2. ~(n < m)
    BY <2>1, <1>1, <1>3
  <2> QED
    BY <2>1, <2>2
<1> QED
  BY <1>4

LEMMA RowFacts ==
    ASSUME TypeOK
    PROVE  /\ Fills \subseteq Nat
           /\ \A f \in Fills : rows[f] \in Fill /\ rows[f].side \in Sides
           /\ NoFill \notin Fills
<1>1. Fills = 1..Len(rows) /\ Len(rows) \in Nat
  BY DEF TypeOK, Fills
<1>2. \A f \in Fills : rows[f] \in Fill
  BY <1>1 DEF TypeOK, Fills
<1> QED
  BY <1>1, <1>2 DEF Fill, NoFill

\* There is nothing open between two books.
LEMMA IdleIsClosed ==
    ASSUME TypeOK, BookInOrder, book.fills = {}
    PROVE  \A f \in Fills : opens[f] = 0
  BY DEF TypeOK, BookInOrder

LEMMA InvInit == Init => IInv
<1> SUFFICES ASSUME Init PROVE IInv
  OBVIOUS
<1>1. PICK i \in Inputs : rows = i.rows
  BY DEF Init
<1>2. rows \in Seq(Fill) /\ Fills = 1..Len(rows) /\ \A f \in Fills : rows[f].qty \in Nat
  <2>1. rows \in Seq(Fill)
    BY <1>1, InputsAssumption
  <2>2. Fills = 1..Len(rows) /\ \A f \in Fills : rows[f] \in Fill
    BY <2>1 DEF Fills
  <2> QED
    BY <2>1, <2>2 DEF Fill
<1>3. pending \in [Fills -> Nat] /\ opens \in [Fills -> Nat] /\ \A f \in Fills : opens[f] = 0
  BY <1>2 DEF Init, NoLots
<1>4. book.fills = {} /\ trades = {} /\ NoGroup \notin todo
  BY DEF Init, NoBook
<1> QED
  BY <1>2, <1>3, <1>4 DEF IInv, TypeOK, BookInOrder, OneSided, RoundTrips

-----------------------------------------------------------------------------
(* The steps of a book *)

\* A lot more: it is later than the ones before, and on their side as it is on the first one's.
LEMMA OpenLotKeeps == ASSUME IInv, NEW f \in Fills, OpenLot(f) PROVE IInv'
<1>1. /\ f \in book.fills /\ pending[f] > 0 /\ \A g \in book.fills : pending[g] > 0 => f <= g
      /\ \A l \in Fills : Front(l) => rows[l].side = rows[f].side
      /\ opens' = [opens EXCEPT ![f] = pending[f]] /\ pending' = [pending EXCEPT ![f] = 0]
      /\ UNCHANGED <<rows, todo, book, trades>> /\ Fills' = Fills
  BY DEF OpenLot, Turn, Fills
<1>2. TypeOK'
  BY <1>1 DEF IInv, TypeOK
<1>3. Fills \subseteq Nat
  BY RowFacts DEF IInv
<1>4. BookInOrder'
  <2>1. \A h \in Fills : opens'[h] > 0 => h \in book.fills
    BY <1>1 DEF IInv, TypeOK, BookInOrder
  <2>2. \A g, h \in book.fills : Linked(g, h)'
    BY <1>1 DEF IInv, BookInOrder, Linked
  <2>3. \A h \in Fills, g \in book.fills : opens'[h] > 0 /\ pending'[g] > 0 => h < g
    <3> SUFFICES ASSUME NEW h \in Fills, NEW g \in book.fills, opens'[h] > 0, pending'[g] > 0
                 PROVE  h < g
      OBVIOUS
    <3>1. g # f /\ pending[g] > 0 /\ f <= g /\ g \in Fills
      BY <1>1 DEF IInv, TypeOK
    <3>2. ASSUME h = f PROVE h < g
      <4>1. f \in Nat /\ g \in Nat
        BY <3>1, <1>3
      <4> QED
        BY <4>1, <3>1, <3>2
    <3>3. ASSUME h # f PROVE h < g
      BY <3>1, <3>3, <1>1 DEF IInv, TypeOK, BookInOrder
    <3> QED
      BY <3>2, <3>3
  <2> QED
    BY <1>1, <2>1, <2>2, <2>3 DEF BookInOrder
<1>5. \A h \in Fills : opens[h] > 0 => rows[h].side = rows[f].side
  <2> SUFFICES ASSUME NEW h \in Fills, opens[h] > 0
               PROVE  rows[h].side = rows[f].side
    OBVIOUS
  <2> DEFINE Lots == {g \in Fills : opens[g] > 0}
  <2>1. PICK l \in Lots : \A g \in Lots : l <= g
    <3>1. Lots # {} /\ Lots \subseteq Nat
      BY <1>3
    <3> QED
      BY <3>1, LeastNatural
  <2>2. Front(l)
    BY <2>1 DEF Front
  <2>3. rows[l].side = rows[f].side
    BY <1>1, <2>1, <2>2
  <2> QED
    BY <2>1, <2>3 DEF IInv, OneSided
<1>6. OneSided'
  BY <1>1, <1>5 DEF IInv, TypeOK, OneSided
<1>7. RoundTrips'
  BY <1>1 DEF IInv, RoundTrips, Linked
<1> QED
  BY <1>2, <1>4, <1>6, <1>7 DEF IInv

\* A trade: with the first lot, which is earlier and belongs with the fill.
LEMMA MatchLotKeeps == ASSUME IInv, NEW f \in Fills, NEW l \in Fills, MatchLot(f, l) PROVE IInv'
<1> DEFINE take == IF opens[l] < pending[f] THEN opens[l] ELSE pending[f]
           t    == Trade(count, l, f, take)
<1>1. /\ f \in book.fills /\ pending[f] > 0 /\ opens[l] > 0 /\ rows[l].side # rows[f].side
      /\ opens' = [opens EXCEPT ![l] = @ - take] /\ pending' = [pending EXCEPT ![f] = @ - take]
      /\ trades' = trades \cup {t}
      /\ UNCHANGED <<rows, todo, book>> /\ Fills' = Fills
  BY DEF MatchLot, Turn, Front, Fills
<1>2. /\ take \in Nat /\ take > 0 /\ opens[l] - take \in Nat /\ pending[f] - take \in Nat
      /\ opens[l] \in Nat /\ pending[f] \in Nat
  BY <1>1 DEF IInv, TypeOK
<1>3. t.entry = l /\ t.exit = f /\ t.qty = take
  BY DEF Trade
<1> HIDE DEF take, t
<1>4. /\ opens' \in [Fills -> Nat] /\ pending' \in [Fills -> Nat]
      /\ \A h \in Fills : (opens'[h] > 0 => opens[h] > 0) /\ (pending'[h] > 0 => pending[h] > 0)
  BY <1>1, <1>2 DEF IInv, TypeOK
<1>5. TypeOK'
  BY <1>1, <1>3, <1>4 DEF IInv, TypeOK
<1>6. BookInOrder'
  BY <1>1, <1>4 DEF IInv, TypeOK, BookInOrder, Linked
<1>7. OneSided'
  BY <1>1, <1>4 DEF IInv, OneSided
<1>8. l < f /\ Linked(l, f)
  BY <1>1 DEF IInv, BookInOrder
<1>9. RoundTrips'
  BY <1>1, <1>2, <1>3, <1>8 DEF IInv, RoundTrips, Linked
<1> QED
  BY <1>5, <1>6, <1>7, <1>9 DEF IInv

-----------------------------------------------------------------------------
(* The books *)

LEMMA StartKeeps ==
    ASSUME IInv, NEW key, NEW method, NEW S \in SUBSET Fills, Start(key, method, S),
           NoGroup \notin todo', \A f, g \in S : Linked(f, g)
    PROVE  IInv'
<1>1. /\ book.fills = {} /\ book'.fills = S
      /\ UNCHANGED <<rows, pending, opens, trades>> /\ Fills' = Fills
  BY DEF Start, NoBook, Fills
<1>2. \A f \in Fills : opens[f] = 0
  BY <1>1, IdleIsClosed DEF IInv
<1>3. TypeOK'
  BY <1>1 DEF IInv, TypeOK
<1>4. BookInOrder'
  BY <1>1, <1>2 DEF BookInOrder, Linked
<1>5. OneSided' /\ RoundTrips'
  BY <1>1 DEF IInv, OneSided, RoundTrips, Linked
<1> QED
  BY <1>3, <1>4, <1>5 DEF IInv

\* A group is of one contract.
LEMMA PairGroupKeeps == ASSUME IInv, NEW g \in todo, PairGroup(g) PROVE IInv'
<1>1. Members(g) \in SUBSET Fills /\ g # NoGroup /\ NoGroup \notin todo'
  BY DEF Members, IInv, TypeOK, PairGroup
<1>2. \A f, h \in Members(g) : Linked(f, h)
  BY <1>1 DEF PairGroup, Homogeneous, Members, Linked
<1> DEFINE method == IF NetsFlatOneOpenSide(Members(g)) THEN "spread_id" ELSE "fifo_fallback"
<1>3. Start(<<g>>, method, Members(g))
  BY DEF PairGroup
<1> QED
  BY <1>1, <1>2, <1>3, StartKeeps

LEMMA PairSessionKeeps == ASSUME IInv, NEW c, NEW d, PairSession(c, d) PROVE IInv'
<1> DEFINE S == {f \in Fills : pending[f] > 0 /\ rows[f].contract = c /\ rows[f].day = d}
<1>1. S \in SUBSET Fills /\ NoGroup \notin todo'
  BY DEF IInv, TypeOK, PairSession
<1>2. \A f, h \in S : Linked(f, h)
  BY DEF Linked
<1>3. Start(<<c, d>>, "fifo_fallback", S)
  BY DEF PairSession
<1> QED
  BY <1>1, <1>2, <1>3, StartKeeps

\* What the end of a book has in common.
LEMMA ClosedBook ==
    ASSUME IInv, opens' = NoLots, book' = NoBook, UNCHANGED <<rows, todo>>,
           pending' \in [Fills -> Nat],
           \A t \in trades' : t \in trades \/ (t.exit = NoFill /\ t.entry \in Fills)
    PROVE  IInv'
<1>1. Fills' = Fills /\ book'.fills = {} /\ opens' \in [Fills -> Nat] /\ \A f \in Fills : opens'[f] = 0
  BY DEF Fills, NoBook, NoLots
<1>2. TypeOK'
  BY <1>1 DEF IInv, TypeOK
<1>3. BookInOrder' /\ OneSided'
  BY <1>1 DEF BookInOrder, OneSided
<1>4. RoundTrips'
  BY DEF IInv, RoundTrips, Linked
<1> QED
  BY <1>2, <1>3, <1>4 DEF IInv

LEMMA ReleaseGroupKeeps == ASSUME IInv, ReleaseGroup PROVE IInv'
<1>1. pending' \in [Fills -> Nat]
  BY DEF IInv, TypeOK, ReleaseGroup
<1> QED
  BY <1>1, ClosedBook DEF ReleaseGroup

LEMMA EndBookKeeps == ASSUME IInv, EndBook PROVE IInv'
<1>1. ASSUME NEW t \in trades', t \notin trades PROVE t.exit = NoFill /\ t.entry \in Fills
  <2>1. PICK f \in Fills : t = OpenTrade(f)
    BY <1>1 DEF EndBook
  <2> QED
    BY <2>1 DEF OpenTrade, Trade
<1>2. pending' \in [Fills -> Nat]
  BY DEF IInv, TypeOK, EndBook
<1> QED
  BY <1>1, <1>2, ClosedBook DEF EndBook

LEMMA MixedGroupKeeps == ASSUME IInv, NEW g, MixedGroup(g) PROVE IInv'
<1>1. /\ book.fills = {} /\ book'.fills = {} /\ Fills' = Fills
      /\ UNCHANGED <<rows, todo, pending, opens, trades>>
  BY DEF MixedGroup, NoBook, Raised, Fills
<1> QED
  BY <1>1 DEF IInv, TypeOK, BookInOrder, OneSided, RoundTrips, Linked

LEMMA StutterKeeps == ASSUME IInv, UNCHANGED vars PROVE IInv'
  BY DEF vars, IInv, TypeOK, BookInOrder, OneSided, RoundTrips, Linked, Fills

LEMMA InvNext == IInv /\ [Next]_vars => IInv'
<1> SUFFICES ASSUME IInv, [Next]_vars PROVE IInv'
  OBVIOUS
<1>1. ASSUME NEW f \in Fills, OpenLot(f) PROVE IInv'
  BY <1>1, OpenLotKeeps
<1>2. ASSUME NEW f \in Fills, NEW l \in Fills, MatchLot(f, l) PROVE IInv'
  BY <1>2, MatchLotKeeps
<1>3. ASSUME NEW g \in todo, PairGroup(g) \/ MixedGroup(g) PROVE IInv'
  BY <1>3, PairGroupKeeps, MixedGroupKeeps
<1>4. ASSUME NEW f \in Fills, PairSession(rows[f].contract, rows[f].day) PROVE IInv'
  BY <1>4, PairSessionKeeps
<1>5. ASSUME ReleaseGroup \/ EndBook PROVE IInv'
  BY <1>5, ReleaseGroupKeeps, EndBookKeeps
<1>6. ASSUME Rest \/ UNCHANGED vars PROVE IInv'
  BY <1>6, StutterKeeps DEF Rest
<1> QED
  BY <1>1, <1>2, <1>3, <1>4, <1>5, <1>6 DEF Next

-----------------------------------------------------------------------------
(* Sums over finite sets. The induction is over a set in place of a predicate. *)

\* The fold that MapThenSumSet is, of a function f over T.
Pick(s) == CHOOSE x \in s : TRUE
IsSum(g, f, T) == g = [s \in SUBSET T |-> IF s = {} THEN 0 ELSE f[Pick(s)] + g[s \ {Pick(s)}]]
SumOf(f, T) == (CHOOSE g : IsSum(g, f, T))[T]

\* Induction, over a set in place of a predicate.
LEMMA Counting == ASSUME NEW N \in SUBSET Nat, 0 \in N, \A n \in N : n + 1 \in N PROVE N = Nat
<1> SUFFICES ASSUME Nat \ N # {} PROVE FALSE
  OBVIOUS
<1>1. PICK m \in Nat \ N : \A n \in Nat \ N : m <= n
  BY LeastNatural
<1>2. m # 0 /\ m - 1 \in Nat /\ ~(m <= m - 1)
  BY <1>1
<1>3. m - 1 \in N
  BY <1>1, <1>2
<1>4. (m - 1) + 1 \in N /\ (m - 1) + 1 = m
  BY <1>3
<1> QED
  BY <1>4

\* What a step of a fold leaves of a finite set.
LEMMA Without ==
    ASSUME NEW T, IsFiniteSet(T), NEW x \in T
    PROVE  /\ IsFiniteSet(T \ {x}) /\ Cardinality(T) \in Nat /\ Cardinality(T \ {x}) \in Nat
           /\ Cardinality(T) = Cardinality(T \ {x}) + 1
<1>1. IsFiniteSet(T \ {x}) /\ Cardinality(T \ {x}) = Cardinality(T) - 1
  BY FS_RemoveElement
<1>2. Cardinality(T) \in Nat /\ Cardinality(T \ {x}) \in Nat
  BY <1>1, FS_CardinalityType
<1> QED
  BY <1>1, <1>2

LEMMA Picked == ASSUME NEW T, T # {} PROVE Pick(T) \in T
  BY DEF Pick

LEMMA EmptyOrNot == ASSUME NEW T, IsFiniteSet(T) PROVE Cardinality(T) \in Nat /\ (Cardinality(T) = 0 <=> T = {})
  BY FS_EmptySet, FS_CardinalityType

\* Induction over a finite set.
LEMMA Growing ==
    ASSUME NEW T, IsFiniteSet(T), NEW P \in SUBSET (SUBSET T), {} \in P,
           \A s \in SUBSET T : s # {} /\ (\A x \in s : s \ {x} \in P) => s \in P
    PROVE  P = SUBSET T
<1> DEFINE N == {n \in Nat : \A s \in SUBSET T : Cardinality(s) = n => s \in P}
<1>0. \A s \in SUBSET T : IsFiniteSet(s) /\ Cardinality(s) \in Nat /\ (Cardinality(s) = 0 <=> s = {})
  BY FS_Subset, EmptyOrNot
<1>1. 0 \in N
  BY <1>0
<1>2. ASSUME NEW n \in N PROVE n + 1 \in N
  <2>0. n \in Nat /\ n + 1 \in Nat /\ \A s \in SUBSET T : Cardinality(s) = n => s \in P
    OBVIOUS
  <2>1. ASSUME NEW s \in SUBSET T, Cardinality(s) = n + 1 PROVE s \in P
    <3>1. s # {} /\ IsFiniteSet(s)
      BY <1>0, <2>0, <2>1
    <3>2. ASSUME NEW x \in s PROVE s \ {x} \in P
      <4>1. Cardinality(s) = Cardinality(s \ {x}) + 1 /\ Cardinality(s \ {x}) \in Nat
        BY <3>1, Without
      <4>2. Cardinality(s \ {x}) = n /\ s \ {x} \in SUBSET T
        BY <4>1, <2>0, <2>1
      <4> QED
        BY <4>2, <2>0
    <3> QED
      BY <3>1, <3>2
  <2> QED
    BY <2>0, <2>1
<1>3. N = Nat
  <2> HIDE DEF N
  <2> QED BY <1>1, <1>2, Counting DEF N
<1> QED
  BY <1>0, <1>3

\* There is a fold of every function over every finite set.
LEMMA SumExists == ASSUME NEW f, NEW T, IsFiniteSet(T) PROVE \E g : IsSum(g, f, T)
<1> DEFINE Upto(n) == {s \in SUBSET T : Cardinality(s) <= n}
           Fold(g, n) == g = [s \in Upto(n) |-> IF s = {} THEN 0 ELSE f[Pick(s)] + g[s \ {Pick(s)}]]
           N == {n \in Nat : \E g : Fold(g, n)}
<1>0. \A s \in SUBSET T : IsFiniteSet(s) /\ Cardinality(s) \in Nat /\ (Cardinality(s) = 0 <=> s = {})
  BY FS_Subset, EmptyOrNot
<1>1. 0 \in N
  <2> DEFINE g == [s \in Upto(0) |-> 0]
  <2>1. \A s \in Upto(0) : s = {}
    BY <1>0
  <2>2. Fold(g, 0)
    BY <2>1
  <2> QED
    BY <2>2
<1>2. ASSUME NEW n \in N PROVE n + 1 \in N
  <2>1. PICK h : Fold(h, n)
    OBVIOUS
  <2> DEFINE g == [s \in Upto(n + 1) |-> IF s = {} THEN 0 ELSE f[Pick(s)] + h[s \ {Pick(s)}]]
  <2>2. ASSUME NEW s \in Upto(n + 1), s # {} PROVE s \ {Pick(s)} \in Upto(n)
    <3>1. Pick(s) \in s /\ IsFiniteSet(s)
      BY <2>2, <1>0, Picked
    <3>2. Cardinality(s) = Cardinality(s \ {Pick(s)}) + 1 /\ Cardinality(s \ {Pick(s)}) \in Nat
      BY <3>1, Without
    <3> QED
      BY <3>2
  <2>3. \A s \in Upto(n) : s \in Upto(n + 1)
    BY <1>0
  <2>4. ASSUME NEW s \in Upto(n) PROVE g[s] = h[s]
    BY <2>1, <2>3, <2>4
  <2>5. Fold(g, n + 1)
    BY <2>2, <2>4
  <2> HIDE DEF g, Fold
  <2>6. \E k : Fold(k, n + 1)
    BY <2>5
  <2> QED
    BY <2>6
<1>3. N = Nat
  <2> HIDE DEF N
  <2> QED BY <1>1, <1>2, Counting DEF N
<1>4. PICK g : Fold(g, Cardinality(T))
  BY <1>0, <1>3
<1>5. Upto(Cardinality(T)) = SUBSET T
  <2>1. \A s \in SUBSET T : Cardinality(s) <= Cardinality(T)
    BY FS_Subset
  <2> QED
    BY <2>1
<1>6. IsSum(g, f, T)
  BY <1>4, <1>5 DEF IsSum
<1> QED
  BY <1>6

\* A sum depends on the summands only.
LEMMA SumUnique ==
    ASSUME NEW f, NEW e, NEW T, NEW U, NEW g, NEW h, IsSum(g, f, T), IsSum(h, e, U),
           NEW S, S \subseteq T, S \subseteq U, IsFiniteSet(S), \A x \in S : f[x] = e[x]
    PROVE  g[S] = h[S]
<1> DEFINE P == {s \in SUBSET S : g[s] = h[s]}
<1>1. {} \in P
  BY DEF IsSum
<1>2. ASSUME NEW s \in SUBSET S, s # {}, \A x \in s : s \ {x} \in P PROVE s \in P
  <2>1. Pick(s) \in s
    BY <1>2, Picked
  <2>2. g[s] = f[Pick(s)] + g[s \ {Pick(s)}] /\ h[s] = e[Pick(s)] + h[s \ {Pick(s)}]
    BY <1>2 DEF IsSum
  <2>3. g[s \ {Pick(s)}] = h[s \ {Pick(s)}] /\ f[Pick(s)] = e[Pick(s)]
    BY <1>2, <2>1
  <2> QED
    BY <2>2, <2>3
<1>3. P = SUBSET S
  <2> HIDE DEF P
  <2>1. P \in SUBSET (SUBSET S)
    BY DEF P
  <2> QED
    BY <1>1, <1>2, <2>1, Growing
<1> QED
  BY <1>3

LEMMA SumIsSum == ASSUME NEW f, NEW T, IsFiniteSet(T) PROVE \E g : IsSum(g, f, T) /\ SumOf(f, T) = g[T]
  BY SumExists DEF SumOf

LEMMA SumEqual ==
    ASSUME NEW f, NEW e, NEW T, IsFiniteSet(T), \A x \in T : f[x] = e[x]
    PROVE  SumOf(f, T) = SumOf(e, T)
<1>1. PICK g : IsSum(g, f, T) /\ SumOf(f, T) = g[T]
  BY SumIsSum
<1>2. PICK h : IsSum(h, e, T) /\ SumOf(e, T) = h[T]
  BY SumIsSum
<1> QED
  BY <1>1, <1>2, SumUnique

LEMMA SumEmpty == ASSUME NEW f PROVE SumOf(f, {}) = 0
<1>1. PICK g : IsSum(g, f, {}) /\ SumOf(f, {}) = g[{}]
  BY SumIsSum, FS_EmptySet
<1> QED
  BY <1>1 DEF IsSum

LEMMA SumStep ==
    ASSUME NEW f, NEW T, IsFiniteSet(T), T # {}
    PROVE  SumOf(f, T) = f[Pick(T)] + SumOf(f, T \ {Pick(T)})
<1>1. PICK g : IsSum(g, f, T) /\ SumOf(f, T) = g[T]
  BY SumIsSum
<1>2. IsFiniteSet(T \ {Pick(T)})
  BY FS_RemoveElement
<1>3. PICK h : IsSum(h, f, T \ {Pick(T)}) /\ SumOf(f, T \ {Pick(T)}) = h[T \ {Pick(T)}]
  BY <1>2, SumIsSum
<1>4. g[T \ {Pick(T)}] = h[T \ {Pick(T)}]
  BY <1>1, <1>2, <1>3, SumUnique
<1>5. g[T] = f[Pick(T)] + g[T \ {Pick(T)}]
  BY <1>1 DEF IsSum
<1> QED
  BY <1>1, <1>3, <1>4, <1>5

LEMMA SumInt == ASSUME NEW f, NEW T, IsFiniteSet(T), \A x \in T : f[x] \in Int PROVE SumOf(f, T) \in Int
<1> DEFINE P == {s \in SUBSET T : SumOf(f, s) \in Int}
<1>1. {} \in P
  BY SumEmpty
<1>2. ASSUME NEW s \in SUBSET T, s # {}, \A x \in s : s \ {x} \in P PROVE s \in P
  <2>1. Pick(s) \in s /\ IsFiniteSet(s)
    BY <1>2, Picked, FS_Subset
  <2>2. SumOf(f, s) = f[Pick(s)] + SumOf(f, s \ {Pick(s)})
    BY <1>2, <2>1, SumStep
  <2> QED
    BY <1>2, <2>1, <2>2
<1>3. P = SUBSET T
  <2> HIDE DEF P
  <2>1. P \in SUBSET (SUBSET T)
    BY DEF P
  <2> QED
    BY <1>1, <1>2, <2>1, Growing
<1> QED
  BY <1>3

\* Any element may be taken first.
LEMMA SumRemove ==
    ASSUME NEW f, NEW T, IsFiniteSet(T), \A x \in T : f[x] \in Int
    PROVE  \A y \in T : SumOf(f, T) = f[y] + SumOf(f, T \ {y})
<1> DEFINE P == {s \in SUBSET T : \A y \in s : SumOf(f, s) = f[y] + SumOf(f, s \ {y})}
<1>1. {} \in P
  OBVIOUS
<1>2. ASSUME NEW s \in SUBSET T, s # {}, \A x \in s : s \ {x} \in P PROVE s \in P
  <2> DEFINE p == Pick(s)
  <2>1. p \in s /\ IsFiniteSet(s) /\ SumOf(f, s) = f[p] + SumOf(f, s \ {p})
    BY <1>2, Picked, FS_Subset, SumStep
  <2> HIDE DEF p
  <2>2. ASSUME NEW y \in s, y # p PROVE SumOf(f, s) = f[y] + SumOf(f, s \ {y})
    <3>1. SumOf(f, s \ {p}) = f[y] + SumOf(f, (s \ {p}) \ {y})
      BY <1>2, <2>1, <2>2
    <3>2. SumOf(f, s \ {y}) = f[p] + SumOf(f, (s \ {y}) \ {p})
      BY <1>2, <2>1, <2>2
    <3>3. (s \ {p}) \ {y} = (s \ {y}) \ {p}
      OBVIOUS
    <3>4. SumOf(f, (s \ {y}) \ {p}) \in Int
      <4>1. IsFiniteSet((s \ {y}) \ {p}) /\ \A x \in (s \ {y}) \ {p} : f[x] \in Int
        BY FS_Subset
      <4> QED
        BY <4>1, SumInt
    <3>5. SumOf(f, s \ {p}) = f[y] + SumOf(f, (s \ {y}) \ {p})
      BY <3>1, <3>3
    <3>6. f[y] \in Int /\ f[p] \in Int
      BY <2>1
    <3> QED
      BY <2>1, <3>2, <3>4, <3>5, <3>6
  <2> QED
    BY <2>1, <2>2
<1>3. P = SUBSET T
  <2> HIDE DEF P
  <2>1. P \in SUBSET (SUBSET T)
    BY DEF P
  <2> QED
    BY <1>1, <1>2, <2>1, Growing
<1> QED
  BY <1>3

\* One summand more, of those that count.
LEMMA SumAdd ==
    ASSUME NEW f, NEW T, IsFiniteSet(T), \A x \in T : f[x] \in Int, NEW y, y \notin T, f[y] \in Int
    PROVE  SumOf(f, T \cup {y}) = f[y] + SumOf(f, T)
<1>1. IsFiniteSet(T \cup {y}) /\ (T \cup {y}) \ {y} = T
  BY FS_AddElement
<1> QED
  BY <1>1, SumRemove

LEMMA SumPlus ==
    ASSUME NEW T, IsFiniteSet(T), NEW f, NEW e, NEW k,
           \A x \in T : f[x] \in Int /\ e[x] \in Int /\ k[x] = f[x] + e[x]
    PROVE  SumOf(k, T) = SumOf(f, T) + SumOf(e, T)
<1> DEFINE P == {s \in SUBSET T : SumOf(k, s) = SumOf(f, s) + SumOf(e, s)}
<1>1. {} \in P
  BY SumEmpty
<1>2. ASSUME NEW s \in SUBSET T, s # {}, \A x \in s : s \ {x} \in P PROVE s \in P
  <2> DEFINE p == Pick(s)
  <2>1. p \in s /\ IsFiniteSet(s) /\ IsFiniteSet(s \ {p})
    BY <1>2, Picked, FS_Subset, FS_RemoveElement
  <2>2. /\ SumOf(k, s) = k[p] + SumOf(k, s \ {p})
        /\ SumOf(f, s) = f[p] + SumOf(f, s \ {p})
        /\ SumOf(e, s) = e[p] + SumOf(e, s \ {p})
    BY <1>2, <2>1, SumStep
  <2>3. SumOf(f, s \ {p}) \in Int /\ SumOf(e, s \ {p}) \in Int
    BY <2>1, SumInt
  <2> HIDE DEF p
  <2> QED
    BY <1>2, <2>1, <2>2, <2>3
<1>3. P = SUBSET T
  <2> HIDE DEF P
  <2>1. P \in SUBSET (SUBSET T)
    BY DEF P
  <2> QED
    BY <1>1, <1>2, <2>1, Growing
<1> QED
  BY <1>3

\* Summands that are 0 do not count.
LEMMA SumZero ==
    ASSUME NEW T, IsFiniteSet(T), NEW f, \A x \in T : f[x] = 0
    PROVE  SumOf(f, T) = 0
<1> DEFINE P == {s \in SUBSET T : SumOf(f, s) = 0}
<1>1. {} \in P
  BY SumEmpty
<1>2. ASSUME NEW s \in SUBSET T, s # {}, \A x \in s : s \ {x} \in P PROVE s \in P
  <2>1. Pick(s) \in s /\ IsFiniteSet(s) /\ SumOf(f, s) = f[Pick(s)] + SumOf(f, s \ {Pick(s)})
    BY <1>2, Picked, FS_Subset, SumStep
  <2> QED
    BY <1>2, <2>1
<1>3. P = SUBSET T
  <2> HIDE DEF P
  <2>1. P \in SUBSET (SUBSET T)
    BY DEF P
  <2> QED
    BY <1>1, <1>2, <2>1, Growing
<1> QED
  BY <1>3

\* A sum of naturals is no less than any of them.
LEMMA SumOfNaturals ==
    ASSUME NEW T, IsFiniteSet(T), NEW f, \A x \in T : f[x] \in Nat
    PROVE  SumOf(f, T) \in Nat /\ \A x \in T : f[x] <= SumOf(f, T)
<1> DEFINE P == {s \in SUBSET T : SumOf(f, s) \in Nat}
<1>1. {} \in P
  BY SumEmpty
<1>2. ASSUME NEW s \in SUBSET T, s # {}, \A x \in s : s \ {x} \in P PROVE s \in P
  <2>1. Pick(s) \in s /\ IsFiniteSet(s) /\ SumOf(f, s) = f[Pick(s)] + SumOf(f, s \ {Pick(s)})
    BY <1>2, Picked, FS_Subset, SumStep
  <2> QED
    BY <1>2, <2>1
<1>3. P = SUBSET T
  <2> HIDE DEF P
  <2>1. P \in SUBSET (SUBSET T)
    BY DEF P
  <2> QED
    BY <1>1, <1>2, <2>1, Growing
<1>4. ASSUME NEW x \in T PROVE f[x] <= SumOf(f, T)
  <2>1. SumOf(f, T) = f[x] + SumOf(f, T \ {x})
    BY SumRemove
  <2>2. SumOf(f, T \ {x}) \in Nat
    BY <1>3
  <2> QED
    BY <2>1, <2>2
<1> QED
  BY <1>3, <1>4

\* A table adds up to the same by rows and by columns.
LEMMA SumByColumns ==
    ASSUME NEW S, IsFiniteSet(S), NEW T, IsFiniteSet(T), NEW m, \A x \in S, y \in T : m[x][y] \in Int
    PROVE  SumOf([x \in S |-> SumOf([y \in T |-> m[x][y]], T)], S)
             = SumOf([y \in T |-> SumOf([x \in S |-> m[x][y]], S)], T)
<1> DEFINE Row(x)    == [y \in T |-> m[x][y]]
           Column(y) == [x \in S |-> m[x][y]]
           Rows(t)   == [x \in S |-> SumOf(Row(x), t)]
           columns   == [y \in T |-> SumOf(Column(y), S)]
           P == {t \in SUBSET T : SumOf(Rows(t), S) = SumOf(columns, t)}
<1>0. (\A x \in S, y \in T : Row(x)[y] = m[x][y] /\ Column(y)[x] = m[x][y] /\ m[x][y] \in Int)
      /\ (\A y \in T : columns[y] = SumOf(Column(y), S))
      /\ (\A t : \A x \in S : Rows(t)[x] = SumOf(Row(x), t))
  OBVIOUS
<1> HIDE DEF Row, Column, Rows, columns
<1>1. {} \in P
  <2>1. \A x \in S : Rows({})[x] = 0
    BY <1>0, SumEmpty
  <2> QED
    BY <2>1, SumEmpty, SumZero
<1>2. ASSUME NEW t \in SUBSET T, t # {}, \A y \in t : t \ {y} \in P PROVE t \in P
  <2> DEFINE p == Pick(t)
  <2>1. p \in t /\ IsFiniteSet(t) /\ IsFiniteSet(t \ {p})
    BY <1>2, Picked, FS_Subset, FS_RemoveElement
  <2>2. SumOf(columns, t) = columns[p] + SumOf(columns, t \ {p})
    BY <1>2, <2>1, SumStep
  <2>3. \A x \in S : SumOf(Row(x), t) = Row(x)[p] + SumOf(Row(x), t \ {p})
    BY <1>2, <2>1, SumStep
  <2> HIDE DEF p
  <2>4. \A x \in S : SumOf(Row(x), t \ {p}) \in Int
    <3> SUFFICES ASSUME NEW x \in S PROVE SumOf(Row(x), t \ {p}) \in Int
      OBVIOUS
    <3>1. \A y \in t \ {p} : Row(x)[y] \in Int
      BY <1>0
    <3> QED
      BY <2>1, <3>1, SumInt
  <2>5. SumOf(Rows(t), S) = SumOf(Column(p), S) + SumOf(Rows(t \ {p}), S)
    <3>1. \A x \in S : /\ Column(p)[x] \in Int /\ Rows(t \ {p})[x] \in Int
                       /\ Rows(t)[x] = Column(p)[x] + Rows(t \ {p})[x]
      BY <1>0, <2>1, <2>3, <2>4
    <3> QED
      BY <3>1, SumPlus
  <2>6. SumOf(Rows(t \ {p}), S) = SumOf(columns, t \ {p})
    BY <1>2, <2>1
  <2> QED
    BY <1>0, <2>1, <2>2, <2>5, <2>6
<1>3. P = SUBSET T
  <2> HIDE DEF P
  <2>1. P \in SUBSET (SUBSET T)
    BY DEF P
  <2> QED
    BY <1>1, <1>2, <2>1, Growing
<1>4. SumOf(Rows(T), S) = SumOf(columns, T)
  BY <1>3
<1> QED
  BY <1>4 DEF Rows, Row, columns, Column

LEMMA Distribute == \A a, x, y \in Int : a * (x + y) = a * x + a * y /\ a * x \in Int
  OBVIOUS

LEMMA SumScale ==
    ASSUME NEW T, IsFiniteSet(T), NEW a \in Int, NEW f, NEW e, \A x \in T : f[x] \in Int /\ e[x] = a * f[x]
    PROVE  SumOf(e, T) = a * SumOf(f, T)
<1> DEFINE P == {s \in SUBSET T : SumOf(e, s) = a * SumOf(f, s)}
<1>1. {} \in P
  BY SumEmpty
<1>2. ASSUME NEW s \in SUBSET T, s # {}, \A x \in s : s \ {x} \in P PROVE s \in P
  <2> DEFINE p == Pick(s)
  <2>1. p \in s /\ IsFiniteSet(s) /\ IsFiniteSet(s \ {p})
    BY <1>2, Picked, FS_Subset, FS_RemoveElement
  <2>2. SumOf(e, s) = e[p] + SumOf(e, s \ {p}) /\ SumOf(f, s) = f[p] + SumOf(f, s \ {p})
    BY <1>2, <2>1, SumStep
  <2>3. SumOf(f, s \ {p}) \in Int /\ f[p] \in Int /\ e[p] = a * f[p]
    BY <2>1, SumInt
  <2> HIDE DEF p
  <2>4. SumOf(e, s \ {p}) = a * SumOf(f, s \ {p})
    BY <1>2, <2>1
  <2> QED
    BY <2>2, <2>3, <2>4, Distribute
<1>3. P = SUBSET T
  <2> HIDE DEF P
  <2>1. P \in SUBSET (SUBSET T)
    BY DEF P
  <2> QED
    BY <1>1, <1>2, <2>1, Growing
<1> QED
  BY <1>3

LEMMA SumConstant ==
    ASSUME NEW T, IsFiniteSet(T), NEW a \in Int, NEW f, \A x \in T : f[x] = a
    PROVE  SumOf(f, T) = a * Cardinality(T)
<1> DEFINE P == {s \in SUBSET T : SumOf(f, s) = a * Cardinality(s)}
<1>1. {} \in P
  BY SumEmpty, FS_EmptySet
<1>2. ASSUME NEW s \in SUBSET T, s # {}, \A x \in s : s \ {x} \in P PROVE s \in P
  <2> DEFINE p == Pick(s)
  <2>1. p \in s /\ IsFiniteSet(s)
    BY <1>2, Picked, FS_Subset
  <2>2. SumOf(f, s) = f[p] + SumOf(f, s \ {p})
    BY <1>2, <2>1, SumStep
  <2> HIDE DEF p
  <2>3. Cardinality(s \ {p}) \in Nat /\ Cardinality(s) = Cardinality(s \ {p}) + 1
    BY <2>1, Without
  <2>4. SumOf(f, s \ {p}) = a * Cardinality(s \ {p}) /\ f[p] = a /\ a * 1 = a
    BY <1>2, <2>1
  <2>5. a * (Cardinality(s \ {p}) + 1) = a * Cardinality(s \ {p}) + a * 1
    BY <2>3, Distribute
  <2>6. a * Cardinality(s \ {p}) \in Int
    BY <2>3, Distribute
  <2> QED
    BY <2>2, <2>3, <2>4, <2>5, <2>6
<1>3. P = SUBSET T
  <2> HIDE DEF P
  <2>1. P \in SUBSET (SUBSET T)
    BY DEF P
  <2> QED
    BY <1>1, <1>2, <2>1, Growing
<1> QED
  BY <1>3

\* What is 0 elsewhere adds up to what it does on a part.
LEMMA SumPart ==
    ASSUME NEW T, IsFiniteSet(T), NEW U, U \subseteq T, NEW f, \A x \in T : f[x] \in Int,
           \A x \in T \ U : f[x] = 0
    PROVE  SumOf(f, T) = SumOf(f, U)
<1> DEFINE P == {s \in SUBSET T : SumOf(f, s) = SumOf(f, s \cap U)}
<1>1. {} \in P
  <2>1. {} \cap U = {}
    OBVIOUS
  <2> QED
    BY <2>1
<1>2. ASSUME NEW s \in SUBSET T, s # {}, \A x \in s : s \ {x} \in P PROVE s \in P
  <2> DEFINE p == Pick(s)
  <2>1. p \in s /\ IsFiniteSet(s) /\ IsFiniteSet(s \cap U)
    BY <1>2, Picked, FS_Subset
  <2>2. SumOf(f, s) = f[p] + SumOf(f, s \ {p})
    BY <1>2, <2>1, SumStep
  <2> HIDE DEF p
  <2>3. SumOf(f, s \ {p}) = SumOf(f, (s \ {p}) \cap U)
    BY <1>2, <2>1
  <2>4. CASE p \in U
    <3>1. p \in s \cap U /\ (s \cap U) \ {p} = (s \ {p}) \cap U /\ \A x \in s \cap U : f[x] \in Int
      BY <2>1, <2>4
    <3>2. SumOf(f, s \cap U) = f[p] + SumOf(f, (s \cap U) \ {p})
      BY <2>1, <3>1, SumRemove
    <3> QED
      BY <2>2, <2>3, <3>1, <3>2
  <2>5. CASE p \notin U
    <3>1. (s \ {p}) \cap U = s \cap U /\ f[p] = 0 /\ \A x \in s \cap U : f[x] \in Int
      BY <2>1, <2>5
    <3>2. SumOf(f, s \cap U) \in Int
      BY <2>1, <3>1, SumInt
    <3>3. SumOf(f, s \ {p}) = SumOf(f, s \cap U)
      BY <2>3, <3>1
    <3>4. SumOf(f, s) = SumOf(f, s \cap U)
      BY <2>2, <3>1, <3>2, <3>3
    <3> QED
      BY <3>4
  <2> QED
    BY <2>4, <2>5
<1>3. P = SUBSET T
  <2> HIDE DEF P
  <2>1. P \in SUBSET (SUBSET T)
    BY DEF P
  <2> QED
    BY <1>1, <1>2, <2>1, Growing
<1>4. T \cap U = U
  OBVIOUS
<1> QED
  BY <1>3, <1>4
-----------------------------------------------------------------------------
(* The numbers of trades, and which books are still to come *)

\* A key is of one book only: a group that is no longer to do, or a session that was begun
\* after the last group and of which nothing is waiting any more.
OfSession(f, c, d) == rows[f].contract = c /\ rows[f].day = d

Typed ==
    /\ todo \subseteq Nat /\ count \in Nat /\ IsFiniteSet(trades)
    /\ \A t \in trades : t.qty \in Nat \ {0} /\ t.seq \in Nat

UniqueIds == \A t, u \in trades : t.key = u.key /\ t.seq = u.seq => t = u
Numbered  == book.fills # {} => \A t \in trades : t.key = book.key => t.seq < count /\ t.exit # NoFill

GroupAtWork(g) ==
    /\ book.key = <<g>> /\ g \notin todo /\ book.method \in {"spread_id", "fifo_fallback"}
    /\ \A f \in book.fills : rows[f].group = g
SessionAtWork(c, d) ==
    /\ book.key = <<c, d>> /\ todo = {} /\ book.method = "fifo_fallback"
    /\ \A f \in book.fills : OfSession(f, c, d)
    /\ \A f \in Fills : pending[f] > 0 /\ OfSession(f, c, d) => f \in book.fills
BookKeyed == book.fills # {} => (\E g \in Nat : GroupAtWork(g)) \/ (\E c, d \in Nat : SessionAtWork(c, d))

TradedInGroup(t, g) == t.key = <<g>> /\ g \notin todo
TradedInSession(t, c, d) ==
    /\ t.key = <<c, d>> /\ todo = {} /\ ~OfGroup
    /\ t.key = book.key \/ \A f \in Fills : OfSession(f, c, d) => pending[f] = 0
TradesKeyed ==
    \A t \in trades : \/ \E g \in Nat : TradedInGroup(t, g)
                      \/ \E c, d \in Nat : TradedInSession(t, c, d)

\* No book has touched a fill of a group that is still to do.
GroupsWhole == \A f \in Fills : rows[f].group \in todo => pending[f] \in {0, rows[f].qty} /\ f \notin book.fills

KInv == IInv /\ Typed /\ UniqueIds /\ Numbered /\ BookKeyed /\ TradesKeyed /\ GroupsWhole

LEMMA KeysDiffer ==
    \A g, h, c, d : /\ <<g>> # <<c, d>> /\ <<g>> # <<>> /\ <<c, d>> # <<>>
                    /\ Len(<<g>>) = 1 /\ Len(<<c, d>>) = 2 /\ Len(<<>>) = 0
                    /\ <<g>> = <<h>> => g = h
  OBVIOUS

LEMMA SessionsDiffer == \A c, d, e, h : <<c, d>> = <<e, h>> => c = e /\ d = h
  OBVIOUS

LEMMA KeysInit == Init => KInv
<1> SUFFICES ASSUME Init PROVE KInv
  OBVIOUS
<1>1. IInv
  BY InvInit
<1>2. book.fills = {} /\ trades = {} /\ count = 0 /\ IsFiniteSet({})
  BY FS_EmptySet DEF Init, NoBook
<1>3. \A f \in Fills : rows[f] \in Fill
  BY <1>1, RowFacts DEF IInv
<1>4. todo \subseteq Nat
  <2>1. \A f \in Fills : rows[f].group \in Nat
    BY <1>3 DEF Fill
  <2> QED
    BY <2>1 DEF Init
<1>5. GroupsWhole
  BY <1>2 DEF Init, GroupsWhole
<1> QED
  BY <1>1, <1>2, <1>4, <1>5 DEF KInv, Typed, UniqueIds, Numbered, BookKeyed, TradesKeyed

LEMMA OpenLotKeys == ASSUME KInv, NEW f \in Fills, OpenLot(f) PROVE KInv'
<1>1. /\ f \in book.fills /\ pending' = [pending EXCEPT ![f] = 0]
      /\ UNCHANGED <<rows, todo, book, count, trades>> /\ Fills' = Fills
  BY DEF OpenLot, Turn, Fills
<1>2. IInv'
  BY OpenLotKeeps DEF KInv
<1>3. pending \in [Fills -> Nat]
  BY DEF KInv, IInv, TypeOK
<1>4. \A h \in Fills : (pending'[h] > 0 => pending[h] > 0) /\ (pending[h] = 0 => pending'[h] = 0)
  BY <1>1, <1>3
<1>5. Typed' /\ UniqueIds' /\ Numbered'
  BY <1>1 DEF KInv, Typed, UniqueIds, Numbered
<1>6. BookKeyed'
  BY <1>1, <1>4 DEF KInv, BookKeyed, GroupAtWork, SessionAtWork, OfSession
<1>7. TradesKeyed'
  BY <1>1, <1>4 DEF KInv, TradesKeyed, TradedInGroup, TradedInSession, OfSession, OfGroup
<1>8. GroupsWhole'
  BY <1>1, <1>3 DEF KInv, GroupsWhole
<1> QED
  BY <1>2, <1>5, <1>6, <1>7, <1>8 DEF KInv

LEMMA MatchLotKeys == ASSUME KInv, NEW f \in Fills, NEW l \in Fills, MatchLot(f, l) PROVE KInv'
<1> DEFINE take == IF opens[l] < pending[f] THEN opens[l] ELSE pending[f]
           t    == Trade(count, l, f, take)
<1>1. /\ f \in book.fills /\ pending[f] > 0 /\ opens[l] > 0
      /\ pending' = [pending EXCEPT ![f] = @ - take]
      /\ trades' = trades \cup {t} /\ count' = count + 1
      /\ UNCHANGED <<rows, todo, book>> /\ Fills' = Fills
  BY DEF MatchLot, Turn, Front, Fills
<1>2. pending \in [Fills -> Nat] /\ opens \in [Fills -> Nat] /\ NoFill \notin Fills
  BY RowFacts DEF KInv, IInv, TypeOK
<1>3. take \in Nat \ {0} /\ pending[f] - take \in Nat
  BY <1>1, <1>2
<1>4. t.key = book.key /\ t.seq = count /\ t.exit = f /\ t.qty = take
  BY DEF Trade
<1> HIDE DEF take, t
<1>5. IInv'
  BY MatchLotKeeps DEF KInv
<1>6. \A h \in Fills : (pending'[h] > 0 => pending[h] > 0) /\ (pending[h] = 0 => pending'[h] = 0)
  BY <1>1, <1>2, <1>3
<1>7. Typed'
  BY <1>1, <1>3, <1>4, FS_AddElement DEF KInv, Typed
<1>8. \A u \in trades : u.key = t.key => u.seq < t.seq /\ u.exit # NoFill
  BY <1>1, <1>4 DEF KInv, Numbered
<1>9. UniqueIds'
  BY <1>1, <1>4, <1>8 DEF KInv, Typed, UniqueIds
<1>10. Numbered'
  <2> SUFFICES ASSUME NEW u \in trades', u.key = book.key PROVE u.seq < count + 1 /\ u.exit # NoFill
    BY <1>1 DEF Numbered
  <2>1. CASE u \in trades
    BY <1>1, <1>4, <1>8, <2>1 DEF KInv, Typed
  <2>2. CASE u = t
    BY <1>2, <1>4, <2>2 DEF KInv, Typed
  <2> QED
    BY <1>1, <2>1, <2>2
<1>11. BookKeyed'
  BY <1>1, <1>6 DEF KInv, BookKeyed, GroupAtWork, SessionAtWork, OfSession
<1>12. TradesKeyed'
  <2>1. ASSUME NEW u \in trades
        PROVE  (\E g \in Nat : TradedInGroup(u, g)') \/ (\E c, d \in Nat : TradedInSession(u, c, d)')
    BY <1>1, <1>6 DEF KInv, TradesKeyed, TradedInGroup, TradedInSession, OfSession, OfGroup
  <2>2. ASSUME NEW u \in trades', u.key = book.key
        PROVE  (\E g \in Nat : TradedInGroup(u, g)') \/ (\E c, d \in Nat : TradedInSession(u, c, d)')
    <3>1. ASSUME NEW g \in Nat, GroupAtWork(g) PROVE TradedInGroup(u, g)'
      BY <1>1, <2>2, <3>1 DEF GroupAtWork, TradedInGroup
    <3>2. ASSUME NEW c \in Nat, NEW d \in Nat, SessionAtWork(c, d) PROVE TradedInSession(u, c, d)'
      <4>1. book.key = <<c, d>> /\ todo = {} /\ Len(<<c, d>>) = 2
        BY <3>2, KeysDiffer DEF SessionAtWork
      <4> QED
        BY <1>1, <2>2, <4>1 DEF TradedInSession, OfGroup
    <3> QED
      BY <1>1, <3>1, <3>2 DEF KInv, BookKeyed
  <2>3. \A u \in trades' : u \in trades \/ u.key = book.key
    BY <1>1, <1>4
  <2> QED
    BY <2>1, <2>2, <2>3 DEF TradesKeyed
<1>13. GroupsWhole'
  BY <1>1, <1>2 DEF KInv, GroupsWhole
<1> QED
  BY <1>5, <1>7, <1>9, <1>10, <1>11, <1>12, <1>13 DEF KInv

LEMMA PairGroupKeys == ASSUME KInv, NEW g \in todo, PairGroup(g) PROVE KInv'
<1>1. /\ book.fills = {} /\ todo' = todo \ {g}
      /\ book'.key = <<g>> /\ book'.fills = Members(g) /\ book'.method \in {"spread_id", "fifo_fallback"}
      /\ count' = 0 /\ UNCHANGED <<rows, pending, opens, trades>> /\ Fills' = Fills
  BY DEF PairGroup, Start, NoBook, Fills
<1>2. IInv'
  BY PairGroupKeeps DEF KInv
<1>3. g \in Nat /\ todo # {}
  BY DEF KInv, Typed
<1>4. \A t \in trades : \E h \in Nat : t.key = <<h>> /\ h \notin todo
  BY <1>3 DEF KInv, TradesKeyed, TradedInGroup, TradedInSession
<1>5. Typed' /\ UniqueIds'
  BY <1>1 DEF KInv, Typed, UniqueIds
<1>6. Numbered'
  <2>1. \A t \in trades : t.key # <<g>>
    BY <1>4, KeysDiffer
  <2> QED
    BY <1>1, <2>1 DEF Numbered
<1>7. BookKeyed'
  <2>1. GroupAtWork(g)'
    BY <1>1 DEF GroupAtWork, Members
  <2> QED
    BY <1>3, <2>1 DEF BookKeyed
<1>8. TradesKeyed'
  BY <1>1, <1>4 DEF TradesKeyed, TradedInGroup
<1>9. GroupsWhole'
  BY <1>1 DEF KInv, GroupsWhole, Members
<1> QED
  BY <1>2, <1>5, <1>6, <1>7, <1>8, <1>9 DEF KInv

LEMMA PairSessionKeys == ASSUME KInv, NEW c \in Nat, NEW d \in Nat, PairSession(c, d) PROVE KInv'
<1> DEFINE S == {f \in Fills : pending[f] > 0 /\ rows[f].contract = c /\ rows[f].day = d}
<1>1. /\ book = NoBook /\ todo = {} /\ S # {}
      /\ book'.key = <<c, d>> /\ book'.fills = S /\ book'.method = "fifo_fallback"
      /\ count' = 0 /\ UNCHANGED <<rows, todo, pending, opens, trades>> /\ Fills' = Fills
  BY DEF PairSession, Start, Fills
<1>2. IInv'
  BY PairSessionKeeps DEF KInv
<1>3. PICK s \in Fills : pending[s] > 0 /\ OfSession(s, c, d)
  BY <1>1 DEF OfSession
<1>4. \A t \in trades : \/ \E h \in Nat : t.key = <<h>>
                        \/ \E a, b \in Nat : t.key = <<a, b>> /\ \A f \in Fills : OfSession(f, a, b) => pending[f] = 0
  BY <1>1, KeysDiffer DEF KInv, TradesKeyed, TradedInGroup, TradedInSession, NoBook
<1>5. Typed' /\ UniqueIds'
  BY <1>1 DEF KInv, Typed, UniqueIds
<1>6. Numbered'
  <2>1. ASSUME NEW t \in trades, t.key = <<c, d>> PROVE FALSE
    <3>1. ~ \E h \in Nat : t.key = <<h>>
      BY <2>1, KeysDiffer
    <3>2. PICK a, b \in Nat : t.key = <<a, b>> /\ \A f \in Fills : OfSession(f, a, b) => pending[f] = 0
      BY <1>4, <3>1
    <3>3. a = c /\ b = d
      BY <2>1, <3>2, SessionsDiffer
    <3> QED
      BY <1>3, <3>2, <3>3
  <2> QED
    BY <1>1, <2>1 DEF Numbered
<1>7. BookKeyed'
  <2>1. SessionAtWork(c, d)'
    BY <1>1 DEF SessionAtWork, OfSession
  <2> QED
    BY <2>1 DEF BookKeyed
<1>8. TradesKeyed'
  <2>1. ~OfGroup'
    BY <1>1, KeysDiffer DEF OfGroup
  <2> QED
    BY <1>1, <1>4, <2>1 DEF TradesKeyed, TradedInGroup, TradedInSession, OfSession
<1>9. GroupsWhole'
  BY <1>1 DEF GroupsWhole
<1> QED
  BY <1>2, <1>5, <1>6, <1>7, <1>8, <1>9 DEF KInv

\* While a group is at work there are trades of groups only.
LEMMA ReleaseGroupKeys == ASSUME KInv, ReleaseGroup PROVE KInv'
<1>1. /\ book' = NoBook /\ OfGroup /\ pending' = [f \in Fills |-> pending[f] + opens[f]]
      /\ UNCHANGED <<rows, todo, count, trades>> /\ Fills' = Fills
  BY DEF ReleaseGroup, Fills
<1>2. IInv'
  BY ReleaseGroupKeeps DEF KInv
<1>3. Typed' /\ UniqueIds' /\ Numbered' /\ BookKeyed'
  BY <1>1 DEF KInv, Typed, UniqueIds, Numbered, BookKeyed, NoBook
<1>4. TradesKeyed'
  BY <1>1 DEF KInv, TradesKeyed, TradedInGroup, TradedInSession
<1>5. GroupsWhole'
  <2>1. \A f \in Fills : rows[f].group \in todo => opens[f] = 0 /\ pending[f] \in {0, rows[f].qty} /\ pending[f] \in Nat
    BY DEF KInv, IInv, TypeOK, BookInOrder, GroupsWhole
  <2> QED
    BY <1>1, <2>1 DEF GroupsWhole, NoBook
<1> QED
  BY <1>2, <1>3, <1>4, <1>5 DEF KInv

\* Nothing but the book at work is open, and what is traded in it keeps its number.
LEMMA OpenIsOfBook ==
    ASSUME KInv
    PROVE  /\ \A f \in Fills : opens[f] \in Nat /\ (opens[f] > 0 => f \in book.fills)
           /\ IsFiniteSet(Fills)
<1>1. Fills = 1..Len(rows) /\ Len(rows) \in Nat
  BY DEF KInv, IInv, TypeOK, Fills
<1>2. IsFiniteSet(1..Len(rows))
  BY <1>1, FS_Interval
<1> QED
  BY <1>1, <1>2 DEF KInv, IInv, TypeOK, BookInOrder

\* An open trade is numbered by how many fills are open before it.
OpenFills == {f \in Fills : opens[f] > 0}
Before(f) == {g \in Fills : opens[g] > 0 /\ g < f}

LEMMA OpenNumbers ==
    ASSUME KInv
    PROVE  /\ \A f \in Fills : IsFiniteSet(Before(f)) /\ Cardinality(Before(f)) \in Nat
           /\ \A f, g \in OpenFills : Cardinality(Before(f)) = Cardinality(Before(g)) => f = g
<1>1. \A f \in Fills : Before(f) \in SUBSET Fills
  BY DEF Before
<1>2. \A f \in Fills : IsFiniteSet(Before(f)) /\ Cardinality(Before(f)) \in Nat
  BY <1>1, OpenIsOfBook, FS_Subset, FS_CardinalityType
<1>3. ASSUME NEW f \in OpenFills, NEW g \in OpenFills, f < g,
             Cardinality(Before(f)) = Cardinality(Before(g))
      PROVE  FALSE
  <2>1. f \in Nat /\ g \in Nat /\ Fills \subseteq Nat
    BY RowFacts DEF OpenFills, KInv, IInv
  <2>2. Before(f) \in SUBSET Before(g)
    <3> SUFFICES ASSUME NEW h \in Before(f) PROVE h \in Before(g)
      OBVIOUS
    <3>1. h \in Fills /\ opens[h] > 0 /\ h < f /\ h \in Nat
      BY <2>1 DEF Before
    <3>2. h < g
      BY <1>3, <2>1, <3>1
    <3> QED
      BY <3>1, <3>2 DEF Before
  <2>3. f \in Before(g) /\ f \notin Before(f)
    BY <1>3, <2>1 DEF Before, OpenFills
  <2>4. IsFiniteSet(Before(g))
    BY <1>2 DEF OpenFills
  <2>5. Before(g) = Before(f)
    BY <1>3, <2>2, <2>4, FS_Subset
  <2> QED
    BY <2>3, <2>5
<1>4. OpenFills \subseteq Nat
  BY RowFacts DEF OpenFills, KInv, IInv
<1> QED
  BY <1>2, <1>3, <1>4

LEMMA OpenTradesAre ==
    ASSUME KInv, book.fills # {}
    PROVE  /\ IsFiniteSet({OpenTrade(f) : f \in OpenFills})
           /\ \A f \in OpenFills :
                 /\ OpenTrade(f).key = book.key /\ OpenTrade(f).exit = NoFill /\ OpenTrade(f).entry = f
                 /\ OpenTrade(f).method = book.method /\ OpenTrade(f).qty = opens[f]
                 /\ OpenTrade(f).seq \in Nat /\ OpenTrade(f).seq >= count
                 /\ opens[f] \in Nat \ {0}
           /\ \A f, g \in OpenFills : OpenTrade(f).seq = OpenTrade(g).seq => f = g
           /\ \A f \in OpenFills : OpenTrade(f) \notin trades
<1> DEFINE New == {OpenTrade(f) : f \in OpenFills}
           by  == [f \in OpenFills |-> OpenTrade(f)]
<1>1. by \in Surjection(OpenFills, New)
  BY DEF Surjection
<1>2. IsFiniteSet(OpenFills)
  BY OpenIsOfBook, FS_Subset DEF OpenFills
<1>3. IsFiniteSet(New)
  BY <1>1, <1>2, FS_Surjection
<1>4. \A f \in OpenFills :
         /\ OpenTrade(f).key = book.key /\ OpenTrade(f).exit = NoFill /\ OpenTrade(f).entry = f
         /\ OpenTrade(f).method = book.method /\ OpenTrade(f).qty = opens[f]
         /\ OpenTrade(f).seq = count + Cardinality(Before(f))
  BY DEF OpenTrade, Trade, Before
<1>5. count \in Nat /\ \A f \in OpenFills : Cardinality(Before(f)) \in Nat
  BY OpenNumbers DEF KInv, Typed, OpenFills
<1>6. \A f \in OpenFills : opens[f] \in Nat \ {0}
  BY OpenIsOfBook DEF OpenFills
<1>7. ASSUME NEW f \in OpenFills, OpenTrade(f) \in trades PROVE FALSE
  BY <1>4, <1>7 DEF KInv, Numbered
<1> QED
  BY <1>3, <1>4, <1>5, <1>6, <1>7, OpenNumbers

LEMMA EndBookKeys == ASSUME KInv, EndBook PROVE KInv'
<1> DEFINE New == {OpenTrade(f) : f \in OpenFills}
<1>1. /\ book.fills # {} /\ \A f \in book.fills : pending[f] = 0
      /\ ~(OfGroup /\ book.method = "fifo_fallback")
      /\ trades' = trades \cup New /\ book' = NoBook
      /\ UNCHANGED <<rows, todo, pending, count>> /\ Fills' = Fills
  BY DEF EndBook, Over, OpenFills, Fills
<1>2. IInv'
  BY EndBookKeeps DEF KInv
<1>3. /\ IsFiniteSet(New)
      /\ \A n \in New : /\ n.key = book.key /\ n.qty \in Nat \ {0} /\ n.seq \in Nat /\ n.seq >= count
                        /\ n.exit = NoFill
      /\ \A n, m \in New : n.seq = m.seq => n = m
  <2>1. ASSUME NEW n \in New
        PROVE  /\ n.key = book.key /\ n.qty \in Nat \ {0} /\ n.seq \in Nat /\ n.seq >= count
               /\ n.exit = NoFill
    <3>1. PICK f \in OpenFills : n = OpenTrade(f)
      OBVIOUS
    <3> QED
      BY <1>1, <3>1, OpenTradesAre
  <2>2. ASSUME NEW n \in New, NEW m \in New, n.seq = m.seq PROVE n = m
    <3>1. PICK f \in OpenFills : n = OpenTrade(f)
      OBVIOUS
    <3>2. PICK g \in OpenFills : m = OpenTrade(g)
      OBVIOUS
    <3>3. f = g
      BY <1>1, <2>2, <3>1, <3>2, OpenTradesAre
    <3> QED
      BY <3>1, <3>2, <3>3
  <2> QED
    BY <1>1, <2>1, <2>2, OpenTradesAre
<1> HIDE DEF New
<1>4. Typed'
  BY <1>1, <1>3, FS_Union DEF KInv, Typed
<1>5. UniqueIds'
  <2>1. \A t \in trades, n \in New : t.key = n.key => t.seq # n.seq
    BY <1>1, <1>3 DEF KInv, Typed, Numbered
  <2> QED
    BY <1>1, <1>3, <2>1 DEF KInv, UniqueIds
<1>6. Numbered' /\ BookKeyed'
  BY <1>1 DEF Numbered, BookKeyed, NoBook
<1>7. ASSUME NEW c \in Nat, NEW d \in Nat, SessionAtWork(c, d)
      PROVE  \A f \in Fills : OfSession(f, c, d) => pending[f] = 0
  BY <1>1, <1>7 DEF SessionAtWork, KInv, IInv, TypeOK
<1>8. ~OfGroup'
  BY <1>1, KeysDiffer DEF OfGroup, NoBook
<1>9. ASSUME NEW t \in trades', t.key = book.key
      PROVE  (\E g \in Nat : TradedInGroup(t, g)') \/ (\E c, d \in Nat : TradedInSession(t, c, d)')
  <2>1. ASSUME NEW g \in Nat, GroupAtWork(g) PROVE TradedInGroup(t, g)'
    BY <1>1, <1>9, <2>1 DEF GroupAtWork, TradedInGroup
  <2>2. ASSUME NEW c \in Nat, NEW d \in Nat, SessionAtWork(c, d) PROVE TradedInSession(t, c, d)'
    BY <1>1, <1>7, <1>8, <1>9, <2>2 DEF SessionAtWork, TradedInSession, OfSession
  <2> QED
    BY <1>1, <2>1, <2>2 DEF KInv, BookKeyed
<1>10. ASSUME NEW t \in trades, t.key # book.key
       PROVE  (\E g \in Nat : TradedInGroup(t, g)') \/ (\E c, d \in Nat : TradedInSession(t, c, d)')
  BY <1>1, <1>8, <1>10 DEF KInv, TradesKeyed, TradedInGroup, TradedInSession, OfSession
<1>11. TradesKeyed'
  <2>1. \A t \in trades' : t.key = book.key \/ t \in trades
    BY <1>1, <1>3
  <2> QED
    BY <1>9, <1>10, <2>1 DEF TradesKeyed
<1>12. GroupsWhole'
  BY <1>1 DEF KInv, GroupsWhole, NoBook
<1> QED
  BY <1>2, <1>4, <1>5, <1>6, <1>11, <1>12 DEF KInv

LEMMA MixedGroupKeys == ASSUME KInv, NEW g \in todo, MixedGroup(g) PROVE KInv'
<1>1. /\ book'.fills = {} /\ todo # {}
      /\ UNCHANGED <<rows, todo, pending, opens, count, trades>> /\ Fills' = Fills
  BY DEF MixedGroup, Raised, Fills
<1>2. IInv'
  BY MixedGroupKeeps DEF KInv
<1> QED
  BY <1>1, <1>2
     DEF KInv, Typed, UniqueIds, Numbered, BookKeyed, TradesKeyed, GroupsWhole, TradedInGroup, TradedInSession

LEMMA StutterKeys == ASSUME KInv, UNCHANGED vars PROVE KInv'
<1>1. IInv'
  BY StutterKeeps DEF KInv
<1>2. UNCHANGED <<rows, todo, pending, book, count, trades>> /\ Fills' = Fills
  BY DEF vars, Fills
<1>3. Typed' /\ UniqueIds' /\ Numbered' /\ GroupsWhole'
  BY <1>2 DEF KInv, Typed, UniqueIds, Numbered, GroupsWhole
<1>4. BookKeyed'
  BY <1>2 DEF KInv, BookKeyed, GroupAtWork, SessionAtWork, OfSession
<1>5. TradesKeyed'
  BY <1>2 DEF KInv, TradesKeyed, TradedInGroup, TradedInSession, OfSession, OfGroup
<1> QED
  BY <1>1, <1>3, <1>4, <1>5 DEF KInv
-----------------------------------------------------------------------------
(* Where a fill's quantity is *)

LotsLeft  == [f \in Fills |-> pending[f] + opens[f]]
OnSide(s) == {f \in book.fills : rows[f].side = s}
Alive     == {f \in Fills : LotsLeft[f] > 0}
Closed    == {t \in trades : t.exit # NoFill}

\* What the trades X have of a fill.
Touching(X, f)     == {t \in X : f \in {t.entry, t.exit}}
Traded(X, f) == SumOf([t \in X |-> t.qty], Touching(X, f))

\* What is waiting, open and traded is what was filled.
Accounted == \A f \in Fills : rows[f].kind = "imported" \/ manual =>
                pending[f] + opens[f] + Traded(trades, f) = rows[f].qty

\* A book of a group that nets flat has as much on one side as on the other, whatever of it
\* has been matched.
Balanced == book.method = "spread_id" => SumOf(LotsLeft, OnSide("buy")) = SumOf(LotsLeft, OnSide("sell"))

\* What stays open is what is left of a session, on one side.
OpenOfSession ==
    /\ \A t \in trades : t.exit = NoFill =>
          t.method # "spread_id" /\ t.key = <<rows[t.entry].contract, rows[t.entry].day>>
    /\ \A t, u \in trades : t.exit = NoFill /\ u.exit = NoFill /\ t.key = u.key =>
          rows[t.entry].side = rows[u.entry].side

\* A closed trade uses up a lot or a fill.
FewClosed == Cardinality(Closed) + Cardinality(Alive) <= Len(rows)

QInv == KInv /\ Accounted /\ Balanced /\ OpenOfSession /\ FewClosed

LEMMA TradedMore ==
    ASSUME NEW X, IsFiniteSet(X), \A u \in X : u.qty \in Nat, NEW t, t \notin X, t.qty \in Nat, NEW f
    PROVE  Traded(X \cup {t}, f) = Traded(X, f) + (IF f \in {t.entry, t.exit} THEN t.qty ELSE 0)
<1> DEFINE Q == [u \in X |-> u.qty]
           R == [u \in X \cup {t} |-> u.qty]
<1>1. IsFiniteSet(Touching(X, f)) /\ t \notin Touching(X, f) /\ Touching(X, f) \subseteq X
  BY FS_Subset DEF Touching
<1>2. /\ \A u \in Touching(X, f) : R[u] = Q[u] /\ R[u] \in Int
      /\ R[t] = t.qty /\ R[t] \in Int
  BY <1>1
<1>3. SumOf(R, Touching(X, f)) = SumOf(Q, Touching(X, f)) /\ SumOf(R, Touching(X, f)) \in Int
  <2> HIDE DEF Q, R
  <2> QED
    BY <1>1, <1>2, SumEqual, SumInt
<1>4. CASE f \in {t.entry, t.exit}
  <2>1. Touching(X \cup {t}, f) = Touching(X, f) \cup {t}
    BY <1>4 DEF Touching
  <2>2. SumOf(R, Touching(X, f) \cup {t}) = R[t] + SumOf(R, Touching(X, f))
    <3> HIDE DEF R
    <3> QED
      BY <1>1, <1>2, SumAdd
  <2>3. Traded(X \cup {t}, f) = SumOf(R, Touching(X, f) \cup {t}) /\ Traded(X, f) = SumOf(Q, Touching(X, f))
    BY <2>1 DEF Traded
  <2> HIDE DEF Q, R
  <2> QED
    BY <1>2, <1>3, <1>4, <2>2, <2>3
<1>5. CASE f \notin {t.entry, t.exit}
  <2>1. Touching(X \cup {t}, f) = Touching(X, f)
    BY <1>5 DEF Touching
  <2> QED
    BY <1>3, <1>5, <2>1 DEF Traded
<1> QED
  BY <1>4, <1>5

LEMMA TradedElsewhere ==
    ASSUME NEW X, NEW Y, IsFiniteSet(Y), X \subseteq Y, NEW f,
           \A t \in Y \ X : f \notin {t.entry, t.exit}
    PROVE  Traded(Y, f) = Traded(X, f)
<1> DEFINE Q == [u \in X |-> u.qty]
           R == [u \in Y |-> u.qty]
<1>1. Touching(X, f) = Touching(Y, f) /\ IsFiniteSet(Touching(X, f)) /\ Touching(X, f) \subseteq X
  BY FS_Subset DEF Touching
<1>2. \A u \in Touching(X, f) : R[u] = Q[u]
  BY <1>1
<1>3. SumOf(R, Touching(X, f)) = SumOf(Q, Touching(X, f))
  <2> HIDE DEF Q, R
  <2> QED
    BY <1>1, <1>2, SumEqual
<1> QED
  BY <1>1, <1>3 DEF Traded

LEMMA TradedIsNat == ASSUME KInv, NEW f PROVE Traded(trades, f) \in Nat
<1> DEFINE Q == [u \in trades |-> u.qty]
<1>1. IsFiniteSet(Touching(trades, f)) /\ \A u \in Touching(trades, f) : Q[u] \in Nat
  BY FS_Subset DEF Touching, KInv, Typed
<1> HIDE DEF Q
<1>2. SumOf(Q, Touching(trades, f)) \in Nat
  BY <1>1, SumOfNaturals
<1> QED
  BY <1>2 DEF Traded, Q

\* The sums of the model are these sums.
LEMMA TradedTotal ==
    ASSUME NEW X, IsFiniteSet(X), NEW f
    PROVE  Total({t \in X : f \in {t.entry, t.exit}}, LAMBDA t : t.qty) = Traded(X, f)
<1> DEFINE T    == Touching(X, f)
           q    == [t \in X |-> t.qty]
           H(g) == g = [s \in SUBSET T |-> IF s = {} THEN 0 ELSE LET x == CHOOSE x \in s : TRUE IN x.qty + g[s \ {x}]]
<1>1. IsFiniteSet(T)
  BY FS_Subset DEF Touching
<1>2. \A g : H(g) <=> IsSum(g, q, T)
  <2>1. \A s \in SUBSET T : s # {} => q[Pick(s)] = Pick(s).qty
    BY Picked DEF Touching
  <2> HIDE DEF q
  <2> QED
    BY <2>1 DEF IsSum, Pick
<1>3. Total(T, LAMBDA t : t.qty) = (CHOOSE g : H(g))[T]
  BY DEF Total, MapThenSumSet, MapThenFoldSet
<1>4. (CHOOSE g : H(g))[T] = SumOf(q, T)
  <2> HIDE DEF H, q, T
  <2>1. \E g : H(g)
    BY <1>1, <1>2, SumExists
  <2>2. IsSum(CHOOSE g : H(g), q, T)
    BY <1>2, <2>1
  <2>3. PICK g : IsSum(g, q, T) /\ SumOf(q, T) = g[T]
    BY <1>1, SumIsSum
  <2> QED
    BY <1>1, <2>2, <2>3, SumUnique
<1> QED
  BY <1>3, <1>4 DEF Traded, Touching

LEMMA FilledTotal ==
    ASSUME NEW T, IsFiniteSet(T)
    PROVE  Total(T, LAMBDA f : rows[f].qty) = SumOf([f \in T |-> rows[f].qty], T)
<1> DEFINE q    == [f \in T |-> rows[f].qty]
           H(g) == g = [s \in SUBSET T |-> IF s = {} THEN 0 ELSE LET x == CHOOSE x \in s : TRUE IN rows[x].qty + g[s \ {x}]]
<1>1. \A g : H(g) <=> IsSum(g, q, T)
  BY DEF IsSum, Pick
<1>2. Total(T, LAMBDA f : rows[f].qty) = (CHOOSE g : H(g))[T]
  BY DEF Total, MapThenSumSet, MapThenFoldSet
<1>3. (CHOOSE g : H(g))[T] = SumOf(q, T)
  <2> HIDE DEF H, q
  <2>1. \E g : H(g)
    BY <1>1, SumExists
  <2>2. IsSum(CHOOSE g : H(g), q, T)
    BY <1>1, <2>1
  <2>3. PICK g : IsSum(g, q, T) /\ SumOf(q, T) = g[T]
    BY SumIsSum
  <2> QED
    BY <2>2, <2>3, SumUnique
<1> QED
  BY <1>2, <1>3

LEMMA FillFacts ==
    ASSUME KInv
    PROVE  /\ IsFiniteSet(Fills) /\ Cardinality(Fills) = Len(rows) /\ Len(rows) \in Nat
           /\ pending \in [Fills -> Nat] /\ opens \in [Fills -> Nat] /\ book.fills \subseteq Fills
           /\ \A f \in Fills : LotsLeft[f] = pending[f] + opens[f] /\ LotsLeft[f] \in Nat
           /\ \A f \in Fills : rows[f].qty \in Nat \ {0} /\ rows[f].price \in Nat /\ rows[f].side \in Sides
           /\ IsFiniteSet(Alive) /\ Cardinality(Alive) \in Nat
           /\ IsFiniteSet(Closed) /\ Cardinality(Closed) \in Nat
<1>1. Fills = 1..Len(rows) /\ Len(rows) \in Nat
  BY DEF KInv, IInv, TypeOK, Fills
<1>2. IsFiniteSet(Fills) /\ Cardinality(Fills) = Len(rows)
  BY <1>1, FS_Interval
<1>3. pending \in [Fills -> Nat] /\ opens \in [Fills -> Nat] /\ book.fills \subseteq Fills
  BY DEF KInv, IInv, TypeOK
<1>4. \A f \in Fills : rows[f].qty \in Nat \ {0} /\ rows[f].price \in Nat /\ rows[f].side \in Sides
  BY RowFacts DEF KInv, IInv, Fill
<1>5. IsFiniteSet(Alive) /\ IsFiniteSet(Closed)
  BY <1>2, FS_Subset DEF Alive, Closed, KInv, Typed
<1>6. Cardinality(Alive) \in Nat /\ Cardinality(Closed) \in Nat
  BY <1>5, FS_CardinalityType
<1>7. \A f \in Fills : LotsLeft[f] = pending[f] + opens[f] /\ LotsLeft[f] \in Nat
  BY <1>3 DEF LotsLeft
<1> QED
  BY <1>1, <1>2, <1>3, <1>4, <1>5, <1>6, <1>7

LEMMA QtyInit == Init => QInv
<1> SUFFICES ASSUME Init PROVE QInv
  OBVIOUS
<1>1. KInv
  BY KeysInit
<1>2. trades = {} /\ book.method = "none" /\ opens = NoLots
      /\ pending = [f \in Fills |-> IF rows[f].kind = "imported" \/ manual THEN rows[f].qty ELSE 0]
  BY DEF Init, NoBook
<1>3. Accounted
  <2>1. \A f : Traded({}, f) = 0
    BY SumEmpty DEF Traded, Touching
  <2>2. \A f \in Fills : rows[f].qty \in Nat
    BY <1>1, FillFacts
  <2> QED
    BY <1>2, <2>1, <2>2 DEF Accounted, NoLots
<1>4. FewClosed
  <2>1. Closed = {} /\ Cardinality({}) = 0 /\ Alive \in SUBSET Fills
    BY <1>2, FS_EmptySet DEF Closed, Alive
  <2>2. Cardinality(Alive) <= Cardinality(Fills)
    BY <1>1, <2>1, FillFacts, FS_Subset
  <2>3. Cardinality(Alive) \in Nat /\ Cardinality(Fills) = Len(rows) /\ Len(rows) \in Nat
    BY <1>1, FillFacts
  <2> QED
    BY <2>1, <2>2, <2>3 DEF FewClosed
<1> QED
  BY <1>1, <1>2, <1>3, <1>4 DEF QInv, Balanced, OpenOfSession

\* A step that leaves each fill what it has left, and all trades.
LEMMA NothingMoves ==
    ASSUME QInv, KInv', UNCHANGED <<rows, manual, trades>>,
           \A f \in Fills : pending'[f] + opens'[f] = pending[f] + opens[f],
           Balanced'
    PROVE  QInv'
<1>1. Fills' = Fills
  BY DEF Fills
<1>2. Accounted'
  BY <1>1 DEF QInv, Accounted, Traded, Touching
<1>3. OpenOfSession'
  BY DEF QInv, OpenOfSession
<1>4. FewClosed'
  <2>1. LotsLeft' = LotsLeft
    BY <1>1 DEF LotsLeft
  <2>2. Alive' = Alive /\ Closed' = Closed
    BY <1>1, <2>1 DEF Alive, Closed
  <2> QED
    BY <2>2 DEF QInv, FewClosed
<1> QED
  BY <1>2, <1>3, <1>4 DEF QInv

LEMMA OpenLotQty == ASSUME QInv, NEW f \in Fills, OpenLot(f) PROVE QInv'
<1>1. /\ f \in book.fills /\ pending[f] > 0
      /\ opens' = [opens EXCEPT ![f] = pending[f]] /\ pending' = [pending EXCEPT ![f] = 0]
      /\ UNCHANGED <<rows, manual, book, trades>> /\ Fills' = Fills
  BY DEF OpenLot, Turn, Fills
<1>2. KInv'
  BY OpenLotKeys DEF QInv
<1>3. pending \in [Fills -> Nat] /\ opens \in [Fills -> Nat] /\ f \in Nat
  BY RowFacts DEF QInv, KInv, IInv, TypeOK
<1>4. opens[f] = 0
  BY <1>1, <1>3 DEF QInv, KInv, IInv, BookInOrder
<1>5. \A h \in Fills : pending'[h] + opens'[h] = pending[h] + opens[h]
  BY <1>1, <1>3, <1>4
<1>6. Balanced'
  <2>1. LotsLeft' = LotsLeft /\ \A s : OnSide(s)' = OnSide(s)
    BY <1>1, <1>5 DEF LotsLeft, OnSide
  <2> QED
    BY <1>1, <2>1 DEF QInv, Balanced
<1> QED
  BY <1>1, <1>2, <1>5, <1>6, NothingMoves

\* One summand less by d.
LEMMA SumLess ==
    ASSUME NEW T, IsFiniteSet(T), NEW f, NEW e, \A x \in T : f[x] \in Int, NEW y \in T, NEW d \in Int,
           e[y] = f[y] - d, \A x \in T : x # y => e[x] = f[x]
    PROVE  SumOf(e, T) = SumOf(f, T) - d
<1>1. IsFiniteSet(T \ {y}) /\ \A x \in T \ {y} : e[x] = f[x] /\ f[x] \in Int
  BY FS_RemoveElement
<1>2. SumOf(e, T \ {y}) = SumOf(f, T \ {y}) /\ SumOf(f, T \ {y}) \in Int
  BY <1>1, SumEqual, SumInt
<1>3. SumOf(f, T) = f[y] + SumOf(f, T \ {y})
  BY SumRemove
<1>4. \A x \in T : e[x] \in Int
  OBVIOUS
<1>5. SumOf(e, T) = e[y] + SumOf(e, T \ {y})
  BY <1>4, SumRemove
<1>6. f[y] \in Int
  OBVIOUS
<1> QED
  BY <1>2, <1>3, <1>5, <1>6

LEMMA MatchLotQty == ASSUME QInv, NEW f \in Fills, NEW l \in Fills, MatchLot(f, l) PROVE QInv'
<1> DEFINE take == IF opens[l] < pending[f] THEN opens[l] ELSE pending[f]
           t    == Trade(count, l, f, take)
<1>1. /\ f \in book.fills /\ pending[f] > 0 /\ opens[l] > 0 /\ rows[l].side # rows[f].side
      /\ opens' = [opens EXCEPT ![l] = @ - take] /\ pending' = [pending EXCEPT ![f] = @ - take]
      /\ trades' = trades \cup {t}
      /\ UNCHANGED <<rows, manual, book>> /\ Fills' = Fills
  BY DEF MatchLot, Turn, Front, Fills
<1>2. /\ pending \in [Fills -> Nat] /\ opens \in [Fills -> Nat] /\ NoFill \notin Fills
      /\ l \in book.fills /\ l # f
  BY <1>1, RowFacts DEF QInv, KInv, IInv, TypeOK, BookInOrder
<1>3. take \in Nat \ {0} /\ take <= opens[l] /\ take <= pending[f] /\ (take = opens[l] \/ take = pending[f])
  BY <1>1, <1>2
<1>4. t.key = book.key /\ t.seq = count /\ t.entry = l /\ t.exit = f /\ t.qty = take
  BY DEF Trade
<1>5. t \notin trades
  BY <1>1, <1>4 DEF QInv, KInv, Numbered, Typed
<1> HIDE DEF take, t
<1>6. KInv'
  BY MatchLotKeys DEF QInv
<1>7. /\ \A h \in Fills : h # l => opens'[h] = opens[h]
      /\ \A h \in Fills : h # f => pending'[h] = pending[h]
      /\ opens'[l] = opens[l] - take /\ pending'[f] = pending[f] - take
  BY <1>1, <1>2
<1>8. \A h : Traded(trades', h) = Traded(trades, h) + (IF h \in {l, f} THEN take ELSE 0)
  <2>1. IsFiniteSet(trades) /\ (\A u \in trades : u.qty \in Nat) /\ t.qty \in Nat
    BY <1>3, <1>4 DEF QInv, KInv, Typed
  <2> QED
    BY <1>1, <1>4, <1>5, <2>1, TradedMore
<1>9. Accounted'
  <2> SUFFICES ASSUME NEW h \in Fills, rows[h].kind = "imported" \/ manual
               PROVE  pending'[h] + opens'[h] + Traded(trades', h) = rows[h].qty
    BY <1>1 DEF Accounted, Traded, Touching
  <2>1. Traded(trades, h) \in Nat /\ pending[h] \in Nat /\ opens[h] \in Nat
    BY <1>2, TradedIsNat DEF QInv
  <2>2. pending[h] + opens[h] + Traded(trades, h) = rows[h].qty
    BY DEF QInv, Accounted
  <2>3. CASE h = l
    BY <1>2, <1>3, <1>7, <1>8, <2>1, <2>2, <2>3
  <2>4. CASE h = f
    BY <1>2, <1>3, <1>7, <1>8, <2>1, <2>2, <2>4
  <2>5. CASE h \notin {l, f}
    BY <1>7, <1>8, <2>1, <2>2, <2>5
  <2> QED
    BY <2>3, <2>4, <2>5
<1>10. /\ \A h \in Fills : LotsLeft[h] = pending[h] + opens[h] /\ LotsLeft'[h] = pending'[h] + opens'[h]
       /\ \A h \in Fills : LotsLeft[h] \in Nat
       /\ LotsLeft'[l] = LotsLeft[l] - take /\ LotsLeft'[f] = LotsLeft[f] - take
       /\ \A h \in Fills \ {l, f} : LotsLeft'[h] = LotsLeft[h]
  <2>1. \A h \in Fills : LotsLeft[h] = pending[h] + opens[h] /\ LotsLeft'[h] = pending'[h] + opens'[h]
    BY <1>1 DEF LotsLeft
  <2>2. /\ \A h \in Fills : LotsLeft[h] \in Nat
        /\ \A h \in Fills : pending[h] \in Nat /\ opens[h] \in Nat
    BY <1>2, <2>1
  <2>3. LotsLeft'[l] = LotsLeft[l] - take
    BY <1>2, <1>3, <1>7, <2>1, <2>2
  <2>4. LotsLeft'[f] = LotsLeft[f] - take
    BY <1>2, <1>3, <1>7, <2>1, <2>2
  <2>5. \A h \in Fills \ {l, f} : LotsLeft'[h] = LotsLeft[h]
    BY <1>7, <2>1
  <2> QED
    BY <2>1, <2>2, <2>3, <2>4, <2>5
<1>11. ASSUME NEW s \in Sides
       PROVE  OnSide(s)' = OnSide(s) /\ SumOf(LotsLeft', OnSide(s)) = SumOf(LotsLeft, OnSide(s)) - take
  <2>1. OnSide(s)' = OnSide(s)
    BY <1>1 DEF OnSide
  <2>2. IsFiniteSet(OnSide(s)) /\ OnSide(s) \subseteq Fills
    BY FillFacts, FS_Subset DEF OnSide, QInv
  <2>3. rows[l].side \in Sides /\ rows[f].side \in Sides
    BY FillFacts DEF QInv
  <2>4. CASE rows[l].side = s
    <3>1. l \in OnSide(s) /\ f \notin OnSide(s)
      BY <1>1, <1>2, <2>4 DEF OnSide
    <3> QED
      BY <1>3, <1>10, <2>1, <2>2, <3>1, SumLess
  <2>5. CASE rows[f].side = s
    <3>1. f \in OnSide(s) /\ l \notin OnSide(s)
      BY <1>1, <1>2, <2>5 DEF OnSide
    <3> QED
      BY <1>3, <1>10, <2>1, <2>2, <3>1, SumLess
  <2> QED
    BY <1>1, <2>3, <2>4, <2>5 DEF Sides
<1>12. Balanced'
  <2>1. SumOf(LotsLeft', OnSide("buy")) = SumOf(LotsLeft, OnSide("buy")) - take
        /\ OnSide("buy")' = OnSide("buy")
    BY <1>11 DEF Sides
  <2>2. SumOf(LotsLeft', OnSide("sell")) = SumOf(LotsLeft, OnSide("sell")) - take
        /\ OnSide("sell")' = OnSide("sell")
    BY <1>11 DEF Sides
  <2> QED
    BY <1>1, <2>1, <2>2 DEF QInv, Balanced
<1>13. OpenOfSession'
  <2>1. \A u \in trades' : u.exit = NoFill => u \in trades
    BY <1>1, <1>2, <1>4
  <2> QED
    BY <1>1, <2>1 DEF QInv, OpenOfSession
<1>14. FewClosed'
  <2>1. Closed' = Closed \cup {t} /\ t \notin Closed
    BY <1>1, <1>2, <1>4, <1>5 DEF Closed
  <2>2. Cardinality(Closed') = Cardinality(Closed) + 1
    BY <2>1, FillFacts, FS_AddElement DEF QInv
  <2>3. pending[l] = 0 /\ opens[f] = 0
    <3>1. l \in Nat /\ f \in Nat
      BY RowFacts DEF QInv, KInv, IInv
    <3> QED
      BY <1>1, <1>2, <3>1 DEF QInv, KInv, IInv, BookInOrder
  <2>4. PICK x \in {l, f} : LotsLeft'[x] = 0
    <3>1. LotsLeft[l] = opens[l] /\ LotsLeft[f] = pending[f]
      BY <1>2, <1>10, <2>3
    <3>2. CASE take = opens[l]
      <4>1. LotsLeft'[l] = 0
        BY <1>2, <1>10, <3>1, <3>2
      <4> QED
        BY <4>1
    <3>3. CASE take = pending[f]
      <4>1. LotsLeft'[f] = 0
        BY <1>2, <1>10, <3>1, <3>3
      <4> QED
        BY <4>1
    <3> QED
      BY <1>3, <3>2, <3>3
  <2>5. x \in Alive /\ Alive' \subseteq Alive \ {x}
    <3>1. \A h \in Fills : LotsLeft'[h] <= LotsLeft[h] /\ LotsLeft'[h] \in Int
      BY <1>3, <1>10
    <3>2. LotsLeft[l] > 0 /\ LotsLeft[f] > 0
      BY <1>1, <1>2, <1>10
    <3> QED
      BY <1>1, <1>10, <2>4, <3>1, <3>2 DEF Alive
  <2>6. /\ IsFiniteSet(Alive \ {x}) /\ Cardinality(Alive \ {x}) = Cardinality(Alive) - 1
        /\ Cardinality(Alive') <= Cardinality(Alive \ {x})
    BY <2>5, FillFacts, FS_RemoveElement, FS_Subset DEF QInv
  <2>7. Cardinality(Alive') \in Nat
    BY <2>5, <2>6, FS_Subset, FS_CardinalityType
  <2> QED
    BY <1>1, <2>2, <2>6, <2>7, FillFacts DEF QInv, FewClosed
<1> QED
  BY <1>6, <1>9, <1>12, <1>13, <1>14 DEF QInv

\* _nets_flat_one_open_side: a group that is paired as a spread was filled to the same
\* quantity on both sides, and no book has had any of it.
LEMMA PairGroupQty == ASSUME QInv, NEW g \in todo, PairGroup(g) PROVE QInv'
<1> DEFINE M == Members(g)
<1>1. /\ book.fills = {} /\ book'.fills = M
      /\ book'.method = "spread_id" => NetsFlatOneOpenSide(M)
      /\ UNCHANGED <<rows, manual, pending, opens, trades>> /\ Fills' = Fills
  BY DEF PairGroup, Start, NoBook, Fills
<1>2. KInv'
  BY PairGroupKeys DEF QInv
<1>3. LotsLeft' = LotsLeft
  BY <1>1 DEF LotsLeft
<1>4. \A f \in M : f \in Fills /\ LotsLeft[f] = rows[f].qty
  <2> SUFFICES ASSUME NEW f \in M PROVE f \in Fills /\ LotsLeft[f] = rows[f].qty
    OBVIOUS
  <2>1. f \in Fills /\ pending[f] > 0 /\ rows[f].group \in todo
    BY DEF Members
  <2>2. pending[f] = rows[f].qty /\ opens[f] = 0 /\ rows[f].qty \in Nat
    BY <1>1, <2>1, FillFacts DEF QInv, KInv, IInv, TypeOK, BookInOrder, GroupsWhole
  <2> QED
    BY <2>1, <2>2, FillFacts DEF QInv
<1>5. Balanced'
  <2> SUFFICES ASSUME book'.method = "spread_id"
               PROVE  SumOf(LotsLeft, OnSide("buy")') = SumOf(LotsLeft, OnSide("sell")')
    BY <1>3 DEF Balanced
  <2>1. BoughtIn(M) = SoldIn(M)
    BY <1>1 DEF NetsFlatOneOpenSide
  <2> DEFINE On(s)   == {f \in M : rows[f].side = s}
             Qty(s)  == [f \in On(s) |-> rows[f].qty]
  <2>2. OnSide("buy")' = On("buy") /\ OnSide("sell")' = On("sell")
    BY <1>1 DEF OnSide
  <2>3. \A s : IsFiniteSet(On(s)) /\ \A f \in On(s) : Qty(s)[f] = LotsLeft[f]
    <3>1. \A s : On(s) \in SUBSET Fills
      BY <1>4
    <3>2. \A s : IsFiniteSet(On(s))
      BY <3>1, FillFacts, FS_Subset DEF QInv
    <3> QED
      BY <1>4, <3>2
  <2>4. BoughtIn(M) = SumOf(Qty("buy"), On("buy")) /\ SoldIn(M) = SumOf(Qty("sell"), On("sell"))
    BY <2>3, FilledTotal DEF BoughtIn, SoldIn
  <2> HIDE DEF Qty, On, M
  <2>5. \A s : SumOf(Qty(s), On(s)) = SumOf(LotsLeft, On(s))
    BY <2>3, SumEqual
  <2> QED
    BY <2>1, <2>2, <2>4, <2>5
<1> QED
  BY <1>1, <1>2, <1>5, NothingMoves

LEMMA PairSessionQty == ASSUME QInv, NEW c \in Nat, NEW d \in Nat, PairSession(c, d) PROVE QInv'
<1>1. /\ book'.method = "fifo_fallback"
      /\ UNCHANGED <<rows, manual, pending, opens, trades>> /\ Fills' = Fills
  BY DEF PairSession, Start, Fills
<1>2. KInv'
  BY PairSessionKeys DEF QInv
<1>3. Balanced'
  BY <1>1 DEF Balanced
<1> QED
  BY <1>1, <1>2, <1>3, NothingMoves

LEMMA ReleaseGroupQty == ASSUME QInv, ReleaseGroup PROVE QInv'
<1>1. /\ book'.method = "none" /\ opens' = NoLots
      /\ pending' = [f \in Fills |-> pending[f] + opens[f]]
      /\ UNCHANGED <<rows, manual, trades>>
  BY DEF ReleaseGroup, NoBook
<1>2. KInv'
  BY ReleaseGroupKeys DEF QInv
<1>3. Balanced'
  BY <1>1 DEF Balanced
<1>4. \A f \in Fills : pending'[f] + opens'[f] = pending[f] + opens[f]
  BY <1>1, FillFacts DEF QInv, NoLots
<1> QED
  BY <1>1, <1>2, <1>3, <1>4, NothingMoves

\* "Net-flat + one open side should consume every lot": at the end of a spread nothing is
\* waiting, what is open is on one side, and there is as much on the other.
LEMMA SpreadIsConsumed ==
    ASSUME QInv, Over, book.method = "spread_id"
    PROVE  OpenFills = {}
<1> SUFFICES ASSUME NEW l \in OpenFills PROVE FALSE
  OBVIOUS
<1>1. l \in book.fills /\ l \in Fills /\ opens[l] > 0 /\ opens[l] \in Nat
  BY OpenIsOfBook DEF OpenFills, QInv
<1>2. \A h \in book.fills : h \in Fills /\ LotsLeft[h] = opens[h] /\ opens[h] \in Nat
  BY FillFacts DEF Over, QInv
<1>3. \A s : OnSide(s) \in SUBSET Fills /\ IsFiniteSet(OnSide(s))
  <2>1. \A s : OnSide(s) \in SUBSET Fills
    BY <1>2 DEF OnSide
  <2> QED
    BY <2>1, FillFacts, FS_Subset DEF QInv
<1>4. \A s : s # rows[l].side => SumOf(LotsLeft, OnSide(s)) = 0
  <2> SUFFICES ASSUME NEW s, s # rows[l].side PROVE SumOf(LotsLeft, OnSide(s)) = 0
    OBVIOUS
  <2>1. \A h \in OnSide(s) : LotsLeft[h] = 0
    BY <1>1, <1>2 DEF OnSide, QInv, KInv, IInv, OneSided
  <2> QED
    BY <1>3, <2>1, SumZero
<1>5. SumOf(LotsLeft, OnSide(rows[l].side)) >= opens[l] /\ SumOf(LotsLeft, OnSide(rows[l].side)) \in Nat
  <2>1. l \in OnSide(rows[l].side) /\ \A h \in OnSide(rows[l].side) : LotsLeft[h] \in Nat
    BY <1>1, <1>2 DEF OnSide
  <2>2. /\ SumOf(LotsLeft, OnSide(rows[l].side)) \in Nat
        /\ LotsLeft[l] <= SumOf(LotsLeft, OnSide(rows[l].side))
    BY <1>3, <2>1, SumOfNaturals
  <2> QED
    BY <1>1, <1>2, <2>2
<1>6. rows[l].side \in Sides
  BY <1>1, FillFacts DEF QInv
<1>7. SumOf(LotsLeft, OnSide("buy")) = SumOf(LotsLeft, OnSide("sell"))
  BY DEF QInv, Balanced
<1> QED
  BY <1>1, <1>4, <1>5, <1>6, <1>7 DEF Sides

LEMMA EndBookQty == ASSUME QInv, EndBook PROVE QInv'
<1> DEFINE New == {OpenTrade(f) : f \in OpenFills}
<1>1. /\ book.fills # {} /\ Over /\ ~(OfGroup /\ book.method = "fifo_fallback")
      /\ trades' = trades \cup New /\ book' = NoBook /\ opens' = NoLots
      /\ UNCHANGED <<rows, manual, pending>> /\ Fills' = Fills
  BY DEF EndBook, Over, OpenFills, Fills
<1>2. KInv'
  BY EndBookKeys DEF QInv
<1>3. /\ \A f \in OpenFills : /\ OpenTrade(f).entry = f /\ OpenTrade(f).exit = NoFill
                              /\ OpenTrade(f).qty = opens[f] /\ opens[f] \in Nat \ {0}
                              /\ OpenTrade(f) \notin trades /\ OpenTrade(f).key = book.key
                              /\ OpenTrade(f).method = book.method
      /\ IsFiniteSet(New) /\ IsFiniteSet(trades) /\ (\A u \in trades : u.qty \in Nat)
      /\ NoFill \notin Fills
  BY <1>1, OpenTradesAre, RowFacts DEF QInv, KInv, IInv, Typed
<1>4. \A n \in New : \E f \in OpenFills : n = OpenTrade(f)
  OBVIOUS
<1>5. \A f \in OpenFills : OpenTrade(f) \in New
  OBVIOUS
<1> HIDE DEF New
<1>6. ASSUME NEW f \in Fills PROVE Traded(trades', f) = Traded(trades, f) + opens[f]
  <2>0. opens[f] \in Nat /\ Traded(trades, f) \in Nat /\ IsFiniteSet(trades \cup New)
    BY <1>3, FillFacts, TradedIsNat, FS_Union DEF QInv
  <2>1. CASE opens[f] = 0
    <3>1. \A n \in (trades \cup New) \ trades : f \notin {n.entry, n.exit}
      BY <1>3, <1>4, <2>1 DEF OpenFills
    <3>2. Traded(trades \cup New, f) = Traded(trades, f)
      BY <2>0, <3>1, TradedElsewhere
    <3> QED
      BY <1>1, <2>0, <2>1, <3>2
  <2>2. CASE opens[f] > 0
    <3> DEFINE o == OpenTrade(f)
               X == trades \cup {o}
    <3>1. f \in OpenFills
      BY <2>2 DEF OpenFills
    <3>2. o \in New /\ o.entry = f /\ o.qty = opens[f] /\ o \notin trades
      BY <1>3, <1>5, <3>1
    <3> HIDE DEF o
    <3>3. \A n \in (trades \cup New) \ X : f \notin {n.entry, n.exit}
      BY <1>3, <1>4, <3>2 DEF o
    <3>4. Traded(X, f) = Traded(trades, f) + o.qty
      <4>1. o.qty \in Nat /\ f \in {o.entry, o.exit}
        BY <2>0, <3>2
      <4>2. Traded(X, f) = Traded(trades, f) + (IF f \in {o.entry, o.exit} THEN o.qty ELSE 0)
        BY <1>3, <3>2, <4>1, TradedMore
      <4> QED
        BY <4>1, <4>2
    <3>5. X \subseteq trades \cup New
      BY <3>2
    <3>6. Traded(trades \cup New, f) = Traded(X, f)
      <4> HIDE DEF X
      <4> QED
        BY <2>0, <3>3, <3>5, TradedElsewhere
    <3> QED
      BY <1>1, <3>2, <3>4, <3>6
  <2> QED
    BY <2>0, <2>1, <2>2
<1>7. Accounted'
  <2> SUFFICES ASSUME NEW f \in Fills, rows[f].kind = "imported" \/ manual
               PROVE  pending[f] + opens'[f] + Traded(trades', f) = rows[f].qty
    BY <1>1 DEF Accounted, Traded, Touching
  <2>1. Traded(trades, f) \in Nat /\ pending[f] \in Nat /\ opens[f] \in Nat /\ opens'[f] = 0
    BY <1>1, FillFacts, TradedIsNat DEF QInv, NoLots
  <2>2. pending[f] + opens[f] + Traded(trades, f) = rows[f].qty
    BY DEF QInv, Accounted
  <2> QED
    BY <1>6, <2>1, <2>2
<1>8. Balanced'
  BY <1>1 DEF Balanced, NoBook
<1>9. ASSUME NEW f \in OpenFills
      PROVE  book.method # "spread_id" /\ book.key = <<rows[f].contract, rows[f].day>>
  <2>1. book.method # "spread_id"
    BY <1>1, <1>9, SpreadIsConsumed
  <2>2. f \in book.fills
    BY OpenIsOfBook DEF OpenFills, QInv
  <2>3. ASSUME NEW g \in Nat, GroupAtWork(g) PROVE FALSE
    BY <1>1, <2>1, <2>3, KeysDiffer DEF GroupAtWork, OfGroup
  <2>4. PICK c, d \in Nat : SessionAtWork(c, d)
    BY <1>1, <2>3 DEF QInv, KInv, BookKeyed
  <2> QED
    BY <2>1, <2>2, <2>4 DEF SessionAtWork, OfSession
<1>10. OpenOfSession'
  <2>1. ASSUME NEW t \in trades', t.exit = NoFill
        PROVE  t.method # "spread_id" /\ t.key = <<rows[t.entry].contract, rows[t.entry].day>>
    <3>1. CASE t \in trades
      BY <2>1, <3>1 DEF QInv, OpenOfSession
    <3>2. CASE t \in New
      BY <1>3, <1>4, <1>9, <3>2
    <3> QED
      BY <1>1, <3>1, <3>2
  <2>2. ASSUME NEW t \in trades', NEW u \in trades', t.exit = NoFill, u.exit = NoFill, t.key = u.key
        PROVE  rows[t.entry].side = rows[u.entry].side
    <3>1. CASE t \in trades /\ u \in trades
      BY <2>2, <3>1 DEF QInv, OpenOfSession
    <3>2. CASE t \in New /\ u \in New
      <4>1. t.entry \in OpenFills /\ u.entry \in OpenFills
        BY <1>3, <1>4, <3>2
      <4> QED
        BY <4>1 DEF OpenFills, QInv, KInv, IInv, OneSided
    <3>3. \A v \in trades : v.exit = NoFill => v.key # book.key
      BY <1>1 DEF QInv, KInv, Numbered
    <3>4. \A n \in New : n.key = book.key
      BY <1>3, <1>4
    <3> QED
      BY <1>1, <2>2, <3>1, <3>2, <3>3, <3>4
  <2> QED
    BY <1>1, <2>1, <2>2 DEF OpenOfSession
<1>11. FewClosed'
  <2>1. Closed' = Closed
    BY <1>1, <1>3, <1>4 DEF Closed
  <2>2. Alive' \subseteq Alive
    <3>1. \A f \in Fills : LotsLeft'[f] <= LotsLeft[f] /\ LotsLeft'[f] \in Nat /\ LotsLeft[f] \in Nat
      BY <1>1, FillFacts DEF QInv, LotsLeft, NoLots
    <3> QED
      BY <1>1, <3>1 DEF Alive
  <2>3. IsFiniteSet(Alive) /\ Cardinality(Alive') <= Cardinality(Alive) /\ IsFiniteSet(Alive')
    BY <2>2, FillFacts, FS_Subset DEF QInv
  <2>4. Cardinality(Alive') \in Nat
    BY <2>3, FS_CardinalityType
  <2> QED
    BY <1>1, <2>1, <2>3, <2>4, FillFacts DEF QInv, FewClosed
<1> QED
  BY <1>2, <1>7, <1>8, <1>10, <1>11 DEF QInv

LEMMA MixedGroupQty == ASSUME QInv, NEW g \in todo, MixedGroup(g) PROVE QInv'
<1>1. book'.method = "raised" /\ UNCHANGED <<rows, manual, pending, opens, trades>>
  BY DEF MixedGroup, Raised
<1>2. KInv'
  BY MixedGroupKeys DEF QInv
<1>3. Balanced'
  BY <1>1 DEF Balanced
<1> QED
  BY <1>1, <1>2, <1>3, NothingMoves

LEMMA StutterQty == ASSUME QInv, UNCHANGED vars PROVE QInv'
<1>1. UNCHANGED <<rows, manual, pending, opens, book, trades>> /\ Fills' = Fills
  BY DEF vars, Fills
<1>2. KInv'
  BY StutterKeys DEF QInv
<1>3. Balanced'
  BY <1>1 DEF QInv, Balanced, LotsLeft, OnSide
<1> QED
  BY <1>1, <1>2, <1>3, NothingMoves

LEMMA QtyNext == QInv /\ [Next]_vars => QInv'
<1> SUFFICES ASSUME QInv, [Next]_vars PROVE QInv'
  OBVIOUS
<1>1. ASSUME NEW f \in Fills, OpenLot(f) PROVE QInv'
  BY <1>1, OpenLotQty
<1>2. ASSUME NEW f \in Fills, NEW l \in Fills, MatchLot(f, l) PROVE QInv'
  BY <1>2, MatchLotQty
<1>3. ASSUME NEW g \in todo, PairGroup(g) \/ MixedGroup(g) PROVE QInv'
  BY <1>3, PairGroupQty, MixedGroupQty
<1>4. ASSUME NEW f \in Fills, PairSession(rows[f].contract, rows[f].day) PROVE QInv'
  <2>1. rows[f].contract \in Nat /\ rows[f].day \in Nat
    BY RowFacts DEF QInv, KInv, IInv, Fill
  <2> QED
    BY <1>4, <2>1, PairSessionQty
<1>5. ASSUME ReleaseGroup \/ EndBook PROVE QInv'
  BY <1>5, ReleaseGroupQty, EndBookQty
<1>6. ASSUME Rest \/ UNCHANGED vars PROVE QInv'
  BY <1>6, StutterQty DEF Rest
<1> QED
  BY <1>1, <1>2, <1>3, <1>4, <1>5, <1>6 DEF Next

\* _fifo_match, _fill_from_lot and _fifo_pair, whatever is paired: quantities are passed on
\* and none is lost or counted twice, ids are given once, and a spread leaves nothing open.
THEOREM QuantitiesAreAccounted == Spec => []LotsAreAccounted
<1>1. ASSUME QInv PROVE LotsAreAccounted
  <2>1. ASSUME NEW f \in Fills
        PROVE  Total({t \in trades : f \in {t.entry, t.exit}}, LAMBDA t : t.qty) = Traded(trades, f)
    BY <1>1, TradedTotal DEF QInv, KInv, Typed
  <2> QED
    BY <1>1, <2>1 DEF QInv, KInv, Accounted, UniqueIds, OpenOfSession, LotsAreAccounted
<1> QED
  BY <1>1, QtyInit, QtyNext, PTL DEF Spec
-----------------------------------------------------------------------------
(* The profit of a day *)

\* A price of fills by weights a is the same by trades: a trade moves its quantity at both
\* its ends.
Ends(F, a, t) == (IF t.entry \in F THEN a[t.entry] ELSE 0) + (IF t.exit \in F THEN a[t.exit] ELSE 0)

LEMMA WeightByFill ==
    ASSUME NEW X, IsFiniteSet(X), \A t \in X : t.qty \in Int, NEW f, NEW w \in Int
    PROVE  SumOf([t \in X |-> IF f \in {t.entry, t.exit} THEN w * t.qty ELSE 0], X) = w * Traded(X, f)
<1> DEFINE g == [t \in X |-> IF f \in {t.entry, t.exit} THEN w * t.qty ELSE 0]
           q == [t \in X |-> t.qty]
<1>1. Touching(X, f) \subseteq X /\ IsFiniteSet(Touching(X, f))
  BY FS_Subset DEF Touching
<1>2. \A t \in X : g[t] \in Int /\ (t \notin Touching(X, f) => g[t] = 0)
  BY Distribute DEF Touching
<1>3. \A t \in Touching(X, f) : q[t] \in Int /\ g[t] = w * q[t]
  BY DEF Touching
<1> HIDE DEF g, q
<1>4. SumOf(g, X) = SumOf(g, Touching(X, f))
  BY <1>1, <1>2, SumPart
<1>5. SumOf(g, Touching(X, f)) = w * SumOf(q, Touching(X, f))
  BY <1>1, <1>3, SumScale
<1> QED
  BY <1>4, <1>5 DEF Traded, g, q

LEMMA WeightByTrade ==
    ASSUME NEW F, IsFiniteSet(F), NEW a, \A f \in F : a[f] \in Int, NEW t, t.qty \in Int, t.entry # t.exit
    PROVE  SumOf([f \in F |-> IF f \in {t.entry, t.exit} THEN a[f] * t.qty ELSE 0], F) = t.qty * Ends(F, a, t)
<1> DEFINE g   == [f \in F |-> IF f \in {t.entry, t.exit} THEN a[f] * t.qty ELSE 0]
           one == F \cap {t.entry}
           two == F \cap {t.exit}
           A   == [f \in F |-> IF f \in one THEN t.qty * a[f] ELSE 0]
           B   == [f \in F |-> IF f \in two THEN t.qty * a[f] ELSE 0]
<1>1. /\ \A f \in F : A[f] \in Int /\ B[f] \in Int /\ g[f] = A[f] + B[f]
      /\ \A f \in F \ one : A[f] = 0
      /\ \A f \in F \ two : B[f] = 0
  <2>1. \A f \in F : t.qty * a[f] \in Int /\ a[f] * t.qty = t.qty * a[f]
    OBVIOUS
  <2> QED
    BY <2>1
<1>2. /\ t.entry \in F => A[t.entry] = t.qty * a[t.entry] /\ A[t.entry] \in Int
      /\ t.exit \in F => B[t.exit] = t.qty * a[t.exit] /\ B[t.exit] \in Int
  BY <1>1
<1> HIDE DEF g, A, B
<1>3. SumOf(g, F) = SumOf(A, F) + SumOf(B, F)
  BY <1>1, SumPlus
<1>4. SumOf(A, F) = SumOf(A, one) /\ SumOf(B, F) = SumOf(B, two)
  BY <1>1, SumPart
<1>5. \A h, x : h[x] \in Int => SumOf(h, {x}) = h[x]
  <2> SUFFICES ASSUME NEW h, NEW x, h[x] \in Int PROVE SumOf(h, {x}) = h[x]
    OBVIOUS
  <2>1. SumOf(h, {} \cup {x}) = h[x] + SumOf(h, {})
    BY FS_EmptySet, SumAdd
  <2>2. {} \cup {x} = {x}
    OBVIOUS
  <2> QED
    BY <2>1, <2>2, SumEmpty
<1>6. SumOf(A, one) = t.qty * (IF t.entry \in F THEN a[t.entry] ELSE 0)
  <2>1. CASE t.entry \in F
    <3>1. one = {t.entry}
      BY <2>1
    <3> HIDE DEF one
    <3> QED
      BY <1>2, <1>5, <2>1, <3>1
  <2>2. CASE t.entry \notin F
    <3>1. one = {}
      BY <2>2
    <3> HIDE DEF one
    <3> QED
      BY <2>2, <3>1, SumEmpty
  <2> QED
    BY <2>1, <2>2
<1>7. SumOf(B, two) = t.qty * (IF t.exit \in F THEN a[t.exit] ELSE 0)
  <2>1. CASE t.exit \in F
    <3>1. two = {t.exit}
      BY <2>1
    <3> HIDE DEF two
    <3> QED
      BY <1>2, <1>5, <2>1, <3>1
  <2>2. CASE t.exit \notin F
    <3>1. two = {}
      BY <2>2
    <3> HIDE DEF two
    <3> QED
      BY <2>2, <3>1, SumEmpty
  <2> QED
    BY <2>1, <2>2
<1>8. (IF t.entry \in F THEN a[t.entry] ELSE 0) \in Int /\ (IF t.exit \in F THEN a[t.exit] ELSE 0) \in Int
  OBVIOUS
<1>9. SumOf(g, F) = t.qty * Ends(F, a, t)
  BY <1>3, <1>4, <1>6, <1>7, <1>8, Distribute DEF Ends
<1> QED
  BY <1>9 DEF g

LEMMA Exchange ==
    ASSUME NEW F, IsFiniteSet(F), NEW X, IsFiniteSet(X), \A t \in X : t.qty \in Int /\ t.entry # t.exit,
           NEW a, \A f \in F : a[f] \in Int
    PROVE  SumOf([f \in F |-> a[f] * Traded(X, f)], F) = SumOf([t \in X |-> t.qty * Ends(F, a, t)], X)
<1> DEFINE m    == [f \in F |-> [t \in X |-> IF f \in {t.entry, t.exit} THEN a[f] * t.qty ELSE 0]]
           R    == [f \in F |-> SumOf([t \in X |-> m[f][t]], X)]
           C    == [t \in X |-> SumOf([f \in F |-> m[f][t]], F)]
<1>1. \A f \in F, t \in X : m[f][t] \in Int
  BY Distribute
<1>2. SumOf(R, F) = SumOf(C, X)
  <2> HIDE DEF m
  <2> QED
    BY <1>1, SumByColumns
<1>3. \A f \in F : R[f] = a[f] * Traded(X, f)
  <2> SUFFICES ASSUME NEW f \in F PROVE R[f] = a[f] * Traded(X, f)
    OBVIOUS
  <2>1. [t \in X |-> m[f][t]] = [t \in X |-> IF f \in {t.entry, t.exit} THEN a[f] * t.qty ELSE 0]
    OBVIOUS
  <2> HIDE DEF m
  <2> QED
    BY <2>1, WeightByFill
<1>4. \A t \in X : C[t] = t.qty * Ends(F, a, t)
  <2> SUFFICES ASSUME NEW t \in X PROVE C[t] = t.qty * Ends(F, a, t)
    OBVIOUS
  <2>1. [f \in F |-> m[f][t]] = [f \in F |-> IF f \in {t.entry, t.exit} THEN a[f] * t.qty ELSE 0]
    OBVIOUS
  <2> HIDE DEF m
  <2> QED
    BY <2>1, WeightByTrade
<1>5. R = [f \in F |-> a[f] * Traded(X, f)] /\ C = [t \in X |-> t.qty * Ends(F, a, t)]
  <2> HIDE DEF m
  <2> QED
    BY <1>3, <1>4
<1> QED
  BY <1>2, <1>5

LEMMA AtTheEnd ==
    ASSUME QInv, Done
    PROVE  /\ \A f \in Fills : rows[f].kind = "imported" => Traded(trades, f) = rows[f].qty
           /\ IsFiniteSet(trades)
           /\ \A t \in trades : /\ t.entry \in Fills /\ t.entry # t.exit /\ t.qty \in Nat \ {0}
                                /\ t.exit \in Fills \/ t.exit = NoFill
           /\ NoFill \notin Fills
<1>1. \A f \in Fills : pending[f] = 0 /\ opens[f] = 0
  <2>1. \A f \in Fills : opens[f] \in Nat /\ ~(opens[f] > 0)
    BY OpenIsOfBook DEF Done, NoBook, QInv
  <2> QED
    BY <2>1 DEF Done
<1>2. ASSUME NEW f \in Fills, rows[f].kind = "imported" PROVE Traded(trades, f) = rows[f].qty
  <2>1. Traded(trades, f) \in Nat
    BY TradedIsNat DEF QInv
  <2>2. 0 + 0 + Traded(trades, f) = rows[f].qty
    BY <1>1, <1>2 DEF QInv, Accounted
  <2> QED
    BY <2>1, <2>2
<1>3. NoFill \notin Fills
  BY RowFacts DEF QInv, KInv, IInv
<1>4. ASSUME NEW t \in trades PROVE t.entry # t.exit
  <2>1. CASE t.exit = NoFill
    BY <1>3, <2>1 DEF QInv, KInv, IInv, TypeOK
  <2>2. CASE t.exit # NoFill
    BY <2>2 DEF QInv, KInv, IInv, RoundTrips
  <2> QED
    BY <2>1, <2>2
<1> QED
  BY <1>2, <1>3, <1>4 DEF QInv, KInv, IInv, TypeOK, Typed

\* Were a lot of a settled day open, those of its contract and day would be on its side, and
\* more would have been filled on that side than on the other.
LEMMA NothingLeftOpen ==
    ASSUME QInv, Done, NEW day, Settled(day), NEW o \in trades, o.exit = NoFill, o.entry \in Imported(day)
    PROVE  FALSE
<1> DEFINE S == Imported(day)
           F == {g \in S : rows[g].contract = rows[o.entry].contract}
           s == rows[o.entry].side
           a == [f \in F |-> IF rows[f].side = s THEN 1 ELSE -1]
           L == [f \in F |-> a[f] * Traded(trades, f)]
           R == [t \in trades |-> t.qty * Ends(F, a, t)]
           q == [f \in F |-> rows[f].qty]
           k == [f \in F |-> IF rows[f].side = s THEN rows[f].qty ELSE 0]
           e == [f \in F |-> IF rows[f].side = s THEN 0 ELSE rows[f].qty]
           On(x) == {f \in F : rows[f].side = x}
<1>1. /\ F \subseteq Fills /\ IsFiniteSet(F) /\ o.entry \in F /\ NoFill \notin F
      /\ \A f \in F : Traded(trades, f) = rows[f].qty /\ rows[f].qty \in Nat /\ rows[f].side \in Sides
      /\ \A x : IsFiniteSet(On(x)) /\ On(x) \subseteq F
  <2>1. F \subseteq Fills
    BY DEF Imported
  <2>2. IsFiniteSet(F)
    BY <2>1, FillFacts, FS_Subset DEF QInv
  <2>3. \A f \in F : rows[f].kind = "imported"
    BY DEF Imported
  <2>4. \A x : On(x) \in SUBSET F
    OBVIOUS
  <2>5. \A x : IsFiniteSet(On(x))
    <3> HIDE DEF On, F
    <3> QED
      BY <2>2, <2>4, FS_Subset
  <2> QED
    BY <2>1, <2>2, <2>3, <2>4, <2>5, AtTheEnd, FillFacts DEF QInv
<1>2. BoughtIn(F) = SoldIn(F)
  BY <1>1 DEF Settled
<1>3. SumOf(L, F) = SumOf(R, trades)
  <2>1. \A f \in F : a[f] \in Int
    OBVIOUS
  <2>2. IsFiniteSet(trades) /\ \A t \in trades : t.qty \in Int /\ t.entry # t.exit
    BY AtTheEnd
  <2>3. IsFiniteSet(F)
    BY <1>1
  <2> HIDE DEF F, a
  <2> QED
    BY <2>1, <2>2, <2>3, Exchange
<1>4. SumOf(L, F) = 0
  <2>1. \A f \in F : /\ L[f] \in Int /\ e[f] \in Int /\ k[f] \in Int /\ k[f] = L[f] + e[f]
                     /\ (f \notin On(s) => k[f] = 0) /\ (f \in On(s) => k[f] = q[f] /\ e[f] = 0)
                     /\ (f \notin On(s) => e[f] = q[f])
    BY <1>1
  <2>2. On("buy") = {f \in F : rows[f].side = "buy"} /\ On("sell") = {f \in F : rows[f].side = "sell"}
    OBVIOUS
  <2>3. BoughtIn(F) = SumOf(q, On("buy")) /\ SoldIn(F) = SumOf(q, On("sell"))
    <3>1. ASSUME NEW x PROVE SumOf([f \in On(x) |-> rows[f].qty], On(x)) = SumOf(q, On(x))
      <4> DEFINE r == [f \in On(x) |-> rows[f].qty]
      <4>1. \A f \in On(x) : r[f] = q[f]
        BY <1>1
      <4>2. IsFiniteSet(On(x))
        BY <1>1
      <4> HIDE DEF On, F, q, r
      <4>3. SumOf(r, On(x)) = SumOf(q, On(x))
        BY <4>1, <4>2, SumEqual
      <4> QED
        BY <4>3 DEF r
    <3>2. /\ BoughtIn(F) = SumOf([f \in On("buy") |-> rows[f].qty], On("buy"))
          /\ SoldIn(F) = SumOf([f \in On("sell") |-> rows[f].qty], On("sell"))
      BY <1>1, FilledTotal DEF BoughtIn, SoldIn
    <3> QED
      BY <3>1, <3>2
  <2>4. s \in Sides
    BY <1>1
  <2>5. PICK z \in Sides : z # s /\ (\A f \in F : f \in On(z) <=> f \notin On(s))
    <3>1. \A z \in Sides : z # s => \A f \in F : f \in On(z) <=> f \notin On(s)
      BY <1>1, <2>4 DEF Sides
    <3> QED
      BY <2>4, <3>1 DEF Sides
  <2>6. IsFiniteSet(F) /\ \A x : IsFiniteSet(On(x)) /\ On(x) \subseteq F
    BY <1>1
  <2>7. {s, z} = {"buy", "sell"}
    BY <2>4, <2>5 DEF Sides
  <2> HIDE DEF F, s, L, q, k, e, On
  <2>8. SumOf(k, F) = SumOf(L, F) + SumOf(e, F) /\ SumOf(L, F) \in Int /\ SumOf(e, F) \in Int
    BY <2>1, <2>6, SumPlus, SumInt
  <2>9. SumOf(k, F) = SumOf(k, On(s)) /\ SumOf(k, On(s)) = SumOf(q, On(s))
    BY <2>1, <2>6, SumPart, SumEqual
  <2>10. SumOf(e, F) = SumOf(e, On(z)) /\ SumOf(e, On(z)) = SumOf(q, On(z))
    <3>1. (\A f \in F \ On(z) : e[f] = 0) /\ (\A f \in On(z) : e[f] = q[f])
      BY <2>1, <2>5, <2>6
    <3> QED
      BY <2>1, <2>6, <3>1, SumPart, SumEqual
  <2>11. SumOf(q, On(s)) = SumOf(q, On(z))
    BY <1>2, <2>3, <2>7
  <2> QED
    BY <2>8, <2>9, <2>10, <2>11
<1>5. ASSUME NEW t \in trades PROVE R[t] \in Nat /\ (t = o => R[t] > 0)
  <2>1. t.qty \in Nat \ {0} /\ t.entry \in Fills /\ (t.exit \in Fills \/ t.exit = NoFill)
    BY AtTheEnd
  <2>2. CASE t.exit # NoFill
    <3>1. t.entry \in S <=> t.exit \in S
      BY <2>2 DEF Settled
    <3>2. rows[t.entry].contract = rows[t.exit].contract /\ rows[t.entry].side # rows[t.exit].side
      BY <2>2 DEF QInv, KInv, IInv, RoundTrips, Linked
    <3>3. t.entry \in F <=> t.exit \in F
      BY <3>1, <3>2
    <3>4. t.entry \in F => a[t.entry] + a[t.exit] = 0
      <4>1. t.entry \in F => rows[t.entry].side \in Sides /\ rows[t.exit].side \in Sides /\ s \in Sides
        BY <1>1, <3>3
      <4> QED
        BY <3>2, <3>3, <4>1 DEF Sides
    <3>5. Ends(F, a, t) = 0
      <4> HIDE DEF F, a
      <4> QED
        BY <3>3, <3>4 DEF Ends
    <3> QED
      BY <2>1, <2>2, <3>5
  <2>3. CASE t.exit = NoFill
    <3>1. t.entry \in F => rows[t.entry].side = s
      <4>1. t.entry \in F => t.key = o.key
        BY <1>1, <2>3 DEF QInv, OpenOfSession, Imported
      <4> QED
        BY <2>3, <4>1 DEF QInv, OpenOfSession
    <3>2. Ends(F, a, t) = IF t.entry \in F THEN 1 ELSE 0
      BY <1>1, <2>3, <3>1 DEF Ends
    <3> HIDE DEF F, a
    <3> QED
      BY <1>1, <2>1, <3>2
  <2> QED
    BY <2>2, <2>3
<1>6. R[o] <= SumOf(R, trades)
  <2>1. IsFiniteSet(trades) /\ \A t \in trades : R[t] \in Nat
    BY <1>5, AtTheEnd
  <2> HIDE DEF R
  <2> QED
    BY <2>1, SumOfNaturals
<1> HIDE DEF R, L
<1> QED
  BY <1>3, <1>4, <1>5, <1>6

LEMMA BookedAre ==
    ASSUME QInv, Done, NEW day, Settled(day)
    PROVE  /\ Booked(day) \subseteq trades
           /\ \A t \in Booked(day) : t.entry \in Imported(day) /\ t.exit \in Imported(day) /\ t.exit # NoFill
           /\ \A t \in trades \ Booked(day) : t.entry \notin Imported(day) /\ t.exit \notin Imported(day)
<1>1. ASSUME NEW t \in Booked(day) PROVE t.entry \in Imported(day) /\ t.exit \in Imported(day) /\ t.exit # NoFill
  BY DEF Booked, Settled
<1>2. ASSUME NEW t \in trades, t.entry \in Imported(day) PROVE t \in Booked(day)
  BY <1>2, NothingLeftOpen DEF Booked
<1>3. ASSUME NEW t \in trades, t.exit \in Imported(day) PROVE t \in Booked(day)
  <2>1. t.exit # NoFill
    BY <1>3, AtTheEnd DEF Imported
  <2> QED
    BY <1>3, <2>1 DEF Booked, Settled
<1> QED
  BY <1>1, <1>2, <1>3 DEF Booked

\* What the fills of a settled day weigh, its trades weigh.
LEMMA DayExchange ==
    ASSUME QInv, Done, NEW day, Settled(day), NEW a, \A f \in Imported(day) : a[f] \in Int
    PROVE  SumOf([f \in Imported(day) |-> a[f] * rows[f].qty], Imported(day))
             = SumOf([t \in Booked(day) |-> t.qty * (a[t.entry] + a[t.exit])], Booked(day))
<1> DEFINE S == Imported(day)
           B == Booked(day)
           L == [f \in S |-> a[f] * Traded(trades, f)]
           R == [t \in trades |-> t.qty * Ends(S, a, t)]
           Q == [t \in B |-> t.qty * (a[t.entry] + a[t.exit])]
<1>1. IsFiniteSet(S) /\ \A f \in S : Traded(trades, f) = rows[f].qty
  <2>1. S \in SUBSET Fills /\ \A f \in S : rows[f].kind = "imported"
    BY DEF Imported
  <2> QED
    BY <2>1, AtTheEnd, FillFacts, FS_Subset DEF QInv
<1>2. IsFiniteSet(trades) /\ \A t \in trades : t.qty \in Int /\ t.entry # t.exit
  BY AtTheEnd
<1>3. SumOf(L, S) = SumOf(R, trades)
  <2> HIDE DEF S
  <2> QED
    BY <1>1, <1>2, Exchange DEF S
<1>4. B \subseteq trades /\ IsFiniteSet(B)
  BY <1>2, BookedAre, FS_Subset
<1>5. /\ \A t \in trades : R[t] \in Int
      /\ \A t \in trades \ B : R[t] = 0
      /\ \A t \in B : R[t] = Q[t]
  <2>1. ASSUME NEW t \in trades PROVE R[t] \in Int
    <3>1. Ends(S, a, t) \in Int
      BY DEF Ends
    <3> HIDE DEF S
    <3> QED
      BY <1>2, <3>1
  <2>2. ASSUME NEW t \in trades \ B PROVE R[t] = 0
    <3>1. Ends(S, a, t) = 0
      BY BookedAre DEF Ends
    <3> HIDE DEF S
    <3> QED
      BY <1>2, <3>1
  <2>3. ASSUME NEW t \in B PROVE R[t] = Q[t]
    <3>1. Ends(S, a, t) = a[t.entry] + a[t.exit] /\ t \in trades
      BY BookedAre DEF Ends
    <3> HIDE DEF S, B
    <3> QED
      BY <3>1
  <2> QED
    BY <2>1, <2>2, <2>3
<1> HIDE DEF R, Q, B
<1>6. SumOf(R, trades) = SumOf(R, B) /\ SumOf(R, B) = SumOf(Q, B)
  BY <1>2, <1>4, <1>5, SumPart, SumEqual
<1>7. L = [f \in S |-> a[f] * rows[f].qty]
  BY <1>1
<1> QED
  BY <1>3, <1>6, <1>7 DEF Q, B

LEMMA SomethingIsBooked ==
    ASSUME QInv, Done, NEW day, Settled(day)
    PROVE  /\ Booked(day) # {} /\ IsFiniteSet(Booked(day))
           /\ Cardinality(Booked(day)) \in 1..Len(rows)
<1>1. IsFiniteSet(Booked(day)) /\ Booked(day) \in SUBSET Closed
  <2>1. Booked(day) \in SUBSET Closed
    BY DEF Booked, Closed
  <2> QED
    BY <2>1, FillFacts, FS_Subset DEF QInv
<1>2. Booked(day) # {}
  <2>1. PICK f \in Imported(day) : TRUE
    BY DEF Settled
  <2>2. f \in Fills /\ Traded(trades, f) = rows[f].qty /\ rows[f].qty \in Nat \ {0}
    BY AtTheEnd, FillFacts DEF Imported, QInv
  <2>3. Touching(trades, f) # {}
    BY <2>2, SumEmpty DEF Traded
  <2>4. PICK t \in trades : f \in {t.entry, t.exit}
    BY <2>3 DEF Touching
  <2>5. t \in Booked(day)
    BY <2>4, BookedAre
  <2> QED
    BY <2>5
<1>3. Cardinality(Booked(day)) <= Cardinality(Closed) /\ Cardinality(Booked(day)) \in Nat
      /\ Cardinality(Booked(day)) # 0
  BY <1>1, <1>2, FillFacts, FS_Subset, FS_CardinalityType, FS_EmptySet DEF QInv
<1>4. Cardinality(Closed) <= Len(rows) /\ Len(rows) \in Nat
  BY FillFacts DEF QInv, FewClosed
<1>5. Cardinality(Closed) \in Nat
  BY FillFacts DEF QInv
<1> QED
  BY <1>1, <1>2, <1>3, <1>4, <1>5

\* The other sums of the model.
PaidFor(f) == rows[f].qty * (IF rows[f].side = "sell" THEN rows[f].price ELSE -rows[f].price)

LEMMA GrossTotal ==
    ASSUME NEW T, IsFiniteSet(T)
    PROVE  Total(T, Gross) = SumOf([t \in T |-> Gross(t)], T)
<1> DEFINE q    == [t \in T |-> Gross(t)]
           H(g) == g = [s \in SUBSET T |-> IF s = {} THEN 0 ELSE LET x == CHOOSE x \in s : TRUE IN Gross(x) + g[s \ {x}]]
<1>1. \A g : H(g) <=> IsSum(g, q, T)
  BY DEF IsSum, Pick
<1>2. Total(T, Gross) = (CHOOSE g : H(g))[T]
  BY DEF Total, MapThenSumSet, MapThenFoldSet
<1>3. (CHOOSE g : H(g))[T] = SumOf(q, T)
  <2> HIDE DEF H, q
  <2>1. \E g : H(g)
    BY <1>1, SumExists
  <2>2. IsSum(CHOOSE g : H(g), q, T)
    BY <1>1, <2>1
  <2>3. PICK g : IsSum(g, q, T) /\ SumOf(q, T) = g[T]
    BY SumIsSum
  <2> QED
    BY <2>2, <2>3, SumUnique
<1> QED
  BY <1>2, <1>3

LEMMA PaidTotal ==
    ASSUME NEW T, IsFiniteSet(T)
    PROVE  Total(T, PaidFor) = SumOf([f \in T |-> PaidFor(f)], T)
<1> DEFINE q    == [f \in T |-> PaidFor(f)]
           H(g) == g = [s \in SUBSET T |-> IF s = {} THEN 0 ELSE LET x == CHOOSE x \in s : TRUE IN PaidFor(x) + g[s \ {x}]]
<1>1. \A g : H(g) <=> IsSum(g, q, T)
  BY DEF IsSum, Pick
<1>2. Total(T, PaidFor) = (CHOOSE g : H(g))[T]
  BY DEF Total, MapThenSumSet, MapThenFoldSet
<1>3. (CHOOSE g : H(g))[T] = SumOf(q, T)
  <2> HIDE DEF H, q
  <2>1. \E g : H(g)
    BY <1>1, SumExists
  <2>2. IsSum(CHOOSE g : H(g), q, T)
    BY <1>1, <2>1
  <2>3. PICK g : IsSum(g, q, T) /\ SumOf(q, T) = g[T]
    BY SumIsSum
  <2> QED
    BY <2>2, <2>3, SumUnique
<1> QED
  BY <1>2, <1>3

LEMMA NetTotal ==
    ASSUME NEW T, IsFiniteSet(T), NEW day
    PROVE  Total(T, LAMBDA t : Net(t, day)) = SumOf([t \in T |-> Net(t, day)], T)
<1> DEFINE q    == [t \in T |-> Net(t, day)]
           H(g) == g = [s \in SUBSET T |-> IF s = {} THEN 0 ELSE LET x == CHOOSE x \in s : TRUE IN Net(x, day) + g[s \ {x}]]
<1>1. \A g : H(g) <=> IsSum(g, q, T)
  BY DEF IsSum, Pick
<1>2. Total(T, LAMBDA t : Net(t, day)) = (CHOOSE g : H(g))[T]
  BY DEF Total, MapThenSumSet, MapThenFoldSet
<1>3. (CHOOSE g : H(g))[T] = SumOf(q, T)
  <2> HIDE DEF H, q
  <2>1. \E g : H(g)
    BY <1>1, SumExists
  <2>2. IsSum(CHOOSE g : H(g), q, T)
    BY <1>1, <2>1
  <2>3. PICK g : IsSum(g, q, T) /\ SumOf(q, T) = g[T]
    BY SumIsSum
  <2> QED
    BY <2>2, <2>3, SumUnique
<1> QED
  BY <1>2, <1>3

LEMMA DayIsFinite == ASSUME QInv, NEW day PROVE Imported(day) \subseteq Fills /\ IsFiniteSet(Imported(day))
<1>1. Imported(day) \in SUBSET Fills
  BY DEF Imported
<1> QED
  BY <1>1, FillFacts, FS_Subset DEF QInv

\* The gross of the trades is what was sold less what was bought.
LEMMA GrossIsPaid ==
    ASSUME QInv, Done, NEW day, Settled(day)
    PROVE  Total(Booked(day), Gross) = Total(Imported(day), PaidFor)
<1> DEFINE S == Imported(day)
           B == Booked(day)
           a == [f \in S |-> IF rows[f].side = "sell" THEN rows[f].price ELSE -rows[f].price]
<1>1. \A f \in S : rows[f].qty \in Nat /\ rows[f].price \in Nat /\ rows[f].side \in Sides
  BY DayIsFinite, FillFacts DEF QInv
<1>2. \A f \in S : a[f] \in Int
  BY <1>1
<1>3. [f \in S |-> a[f] * rows[f].qty] = [f \in S |-> PaidFor(f)]
  <2>1. \A f \in S : a[f] * rows[f].qty = PaidFor(f)
    BY <1>1 DEF PaidFor
  <2> HIDE DEF a, S
  <2> QED
    BY <2>1
<1>4. [t \in B |-> t.qty * (a[t.entry] + a[t.exit])] = [t \in B |-> Gross(t)]
  <2>1. ASSUME NEW t \in B PROVE t.qty * (a[t.entry] + a[t.exit]) = Gross(t)
    <3>1. /\ t.entry \in S /\ t.exit \in S /\ t.exit # NoFill /\ t \in trades
      BY BookedAre
    <3>2. rows[t.entry].side # rows[t.exit].side
      BY <3>1 DEF QInv, KInv, IInv, RoundTrips
    <3>3. a[t.entry] + a[t.exit] = IF rows[t.entry].side = "buy"
                                     THEN rows[t.exit].price - rows[t.entry].price
                                     ELSE -(rows[t.exit].price - rows[t.entry].price)
      BY <1>1, <3>1, <3>2 DEF Sides
    <3> HIDE DEF a, S
    <3> QED
      BY <3>3 DEF Gross
  <2> HIDE DEF a, B
  <2> QED
    BY <2>1
<1>5. SumOf([f \in S |-> a[f] * rows[f].qty], S) = SumOf([t \in B |-> t.qty * (a[t.entry] + a[t.exit])], B)
  <2> HIDE DEF a
  <2> QED
    BY <1>2, DayExchange
<1>6. SumOf([t \in B |-> Gross(t)], B) = SumOf([f \in S |-> PaidFor(f)], S)
  BY <1>3, <1>4, <1>5
<1> QED
  BY <1>6, DayIsFinite, SomethingIsBooked, GrossTotal, PaidTotal

\* Every lot has two sides.
LEMMA LotsHaveTwoSides ==
    ASSUME QInv, Done, NEW day, Settled(day)
    PROVE  Total(Imported(day), LAMBDA f : rows[f].qty)
             = SumOf([t \in Booked(day) |-> 2 * t.qty], Booked(day))
<1> DEFINE S == Imported(day)
           B == Booked(day)
           a == [f \in S |-> 1]
<1>1. \A f \in S : a[f] \in Int /\ a[f] * rows[f].qty = rows[f].qty
  BY DayIsFinite, FillFacts DEF QInv
<1>2. \A t \in B : t.qty * (a[t.entry] + a[t.exit]) = 2 * t.qty
  <2>1. \A t \in B : t.entry \in S /\ t.exit \in S /\ t.qty \in Nat
    BY BookedAre, AtTheEnd
  <2> QED
    BY <2>1
<1> HIDE DEF a
<1>3. SumOf([f \in S |-> a[f] * rows[f].qty], S) = SumOf([t \in B |-> t.qty * (a[t.entry] + a[t.exit])], B)
  BY <1>1, DayExchange
<1> HIDE DEF S, B
<1>4. /\ [f \in S |-> a[f] * rows[f].qty] = [f \in S |-> rows[f].qty]
      /\ [t \in B |-> t.qty * (a[t.entry] + a[t.exit])] = [t \in B |-> 2 * t.qty]
  BY <1>1, <1>2
<1>5. IsFiniteSet(S)
  BY DayIsFinite DEF S
<1> QED
  BY <1>3, <1>4, <1>5, FilledTotal DEF S, B

FromInputs == \E i \in Inputs : rows = i.rows

LEMMA SharesAreWhole ==
    ASSUME NEW n \in Nat \ {0}, Extra % n = 0
    PROVE  (Extra \div n) * n = Extra /\ Extra \div n \in Int
<1>1. Extra \in Nat
  BY CostsAssumption
<1> QED
  BY <1>1

LEMMA NetsAddUp ==
    ASSUME QInv, FromInputs, Done, NEW day, Settled(day)
    PROVE  Total(Booked(day), LAMBDA t : Net(t, day))
             = Total(Imported(day), PaidFor) - (PerSide * Total(Imported(day), LAMBDA f : rows[f].qty) + Extra)
<1> DEFINE B     == Booked(day)
           n     == Cardinality(B)
           net   == [t \in B |-> Net(t, day)]
           gross == [t \in B |-> Gross(t)]
           lots  == [t \in B |-> 2 * t.qty]
           fees  == [t \in B |-> PerSide * (2 * t.qty)]
           share == [t \in B |-> Extra \div n]
           costs == [t \in B |-> PerSide * (2 * t.qty) + Extra \div n]
<1>1. IsFiniteSet(B) /\ n \in 1..Len(rows) /\ Len(rows) \in Nat /\ PerSide \in Int
  BY SomethingIsBooked, FillFacts, CostsAssumption DEF QInv
<1>2. Extra % n = 0
  <2>1. PICK i \in Inputs : rows = i.rows
    BY DEF FromInputs
  <2> QED
    BY <1>1, <2>1, SharesAssumption
<1>3. (Extra \div n) * n = Extra /\ Extra \div n \in Int
  <2>1. n \in Nat \ {0}
    BY <1>1
  <2> HIDE DEF n
  <2> QED
    BY <1>2, <2>1, SharesAreWhole
<1>4. \A t \in B : t.qty \in Nat /\ Gross(t) \in Int
  <2> SUFFICES ASSUME NEW t \in B PROVE t.qty \in Nat /\ Gross(t) \in Int
    OBVIOUS
  <2>1. t.qty \in Nat /\ t.entry \in Fills /\ t.exit \in Fills
    BY BookedAre, AtTheEnd, DayIsFinite
  <2>2. rows[t.entry].price \in Nat /\ rows[t.exit].price \in Nat
    BY <2>1, FillFacts DEF QInv
  <2>3. (IF rows[t.entry].side = "buy" THEN rows[t.exit].price - rows[t.entry].price
                                       ELSE -(rows[t.exit].price - rows[t.entry].price)) \in Int
    BY <2>2
  <2> QED
    BY <2>1, <2>3, Distribute DEF Gross
<1>5. \A t \in B : /\ lots[t] \in Int /\ fees[t] = PerSide * lots[t] /\ fees[t] \in Int
                   /\ share[t] = Extra \div n /\ share[t] \in Int
                   /\ costs[t] = fees[t] + share[t] /\ costs[t] \in Int
                   /\ net[t] = gross[t] - costs[t] /\ gross[t] \in Int /\ net[t] \in Int
                   /\ gross[t] = net[t] + costs[t]
  <2> SUFFICES ASSUME NEW t \in B
               PROVE  /\ lots[t] \in Int /\ fees[t] = PerSide * lots[t] /\ fees[t] \in Int
                      /\ share[t] = Extra \div n /\ share[t] \in Int
                      /\ costs[t] = fees[t] + share[t] /\ costs[t] \in Int
                      /\ net[t] = gross[t] - costs[t] /\ gross[t] \in Int /\ net[t] \in Int
                      /\ gross[t] = net[t] + costs[t]
    OBVIOUS
  <2>1. t.qty \in Nat /\ Gross(t) \in Int /\ 2 * t.qty \in Int /\ PerSide * (2 * t.qty) \in Int
    BY <1>1, <1>4, Distribute
  <2>2. Net(t, day) = Gross(t) - PerSide * 2 * t.qty - Extra \div n
    BY DEF Net
  <2>3. PerSide * 2 * t.qty = PerSide * (2 * t.qty)
    BY <1>1, <2>1
  <2> HIDE DEF n
  <2>4. Net(t, day) = Gross(t) - (PerSide * (2 * t.qty) + Extra \div n)
    BY <1>3, <2>1, <2>2, <2>3
  <2> QED
    BY <1>3, <2>1, <2>4
<1>6. Total(B, LAMBDA t : Net(t, day)) = SumOf(net, B) /\ Total(B, Gross) = SumOf(gross, B)
  BY <1>1, NetTotal, GrossTotal
<1>7. Total(Imported(day), LAMBDA f : rows[f].qty) = SumOf(lots, B)
  BY LotsHaveTwoSides
<1>8. Total(B, Gross) = Total(Imported(day), PaidFor)
  BY GrossIsPaid
<1> HIDE DEF B, n, net, gross, lots, fees, share, costs
<1>9. /\ SumOf(gross, B) = SumOf(net, B) + SumOf(costs, B)
      /\ SumOf(costs, B) = SumOf(fees, B) + SumOf(share, B)
      /\ SumOf(fees, B) = PerSide * SumOf(lots, B)
      /\ SumOf(share, B) = (Extra \div n) * n
  <2>1. SumOf(gross, B) = SumOf(net, B) + SumOf(costs, B)
    BY <1>1, <1>5, SumPlus
  <2>2. SumOf(costs, B) = SumOf(fees, B) + SumOf(share, B)
    BY <1>1, <1>5, SumPlus
  <2>3. SumOf(fees, B) = PerSide * SumOf(lots, B)
    BY <1>1, <1>5, SumScale
  <2>4. SumOf(share, B) = (Extra \div n) * n
    BY <1>1, <1>3, <1>5, SumConstant DEF n
  <2> QED
    BY <2>1, <2>2, <2>3, <2>4
<1>10. SumOf(net, B) \in Int /\ SumOf(fees, B) \in Int /\ SumOf(share, B) \in Int
  BY <1>1, <1>5, SumInt
<1>11. SumOf(net, B) = SumOf(gross, B) - (SumOf(fees, B) + SumOf(share, B))
  BY <1>9, <1>10
<1>12. SumOf(net, B) = SumOf(gross, B) - (PerSide * SumOf(lots, B) + Extra)
  BY <1>3, <1>9, <1>11
<1>13. /\ SumOf(net, B) = Total(B, LAMBDA t : Net(t, day))
       /\ SumOf(gross, B) = Total(Imported(day), PaidFor)
       /\ SumOf(lots, B) = Total(Imported(day), LAMBDA f : rows[f].qty)
  BY <1>6, <1>7, <1>8
<1>14. Total(B, LAMBDA t : Net(t, day))
         = Total(Imported(day), PaidFor) - (PerSide * Total(Imported(day), LAMBDA f : rows[f].qty) + Extra)
  BY <1>12, <1>13
<1> QED
  BY <1>14 DEF B

\* _reconcile_day, _apply_costs: however the fills of a settled day were paired, the day
\* reconciles with a statement of the same fills and their profit, and the net of its trades
\* is that profit less all the fees.
THEOREM DaysReconcile == Spec => []DaysAddUp
<1>1. Init => FromInputs
  BY DEF Init, FromInputs
<1>2. FromInputs /\ [Next]_vars => FromInputs'
  BY DEF FromInputs, Next, vars, OpenLot, MatchLot, PairGroup, MixedGroup, PairSession, Start,
         ReleaseGroup, EndBook, Rest
<1>3. ASSUME QInv, FromInputs PROVE DaysAddUp
  <2> SUFFICES ASSUME Done, NEW day \in {rows[f].day : f \in Fills}, Settled(day)
               PROVE  LET st == [fills |-> Imported(day), ps |-> Total(Imported(day), PaidFor)]
                      IN  /\ Status(day, st) = "reconciled"
                          /\ Total(Booked(day), LAMBDA t : Net(t, day)) = st.ps - Fees(st)
    BY DEF DaysAddUp, PaidFor
  <2> DEFINE st == [fills |-> Imported(day), ps |-> Total(Imported(day), PaidFor)]
  <2>1. st.fills = Imported(day) /\ st.ps = Total(Imported(day), PaidFor)
    OBVIOUS
  <2>2. Imported(day) # {} /\ Booked(day) # {} /\ Total(Booked(day), Gross) = st.ps
    BY <1>3, SomethingIsBooked, GrossIsPaid DEF Settled
  <2> HIDE DEF st
  <2>3. Status(day, st) = "reconciled"
    BY <2>1, <2>2 DEF Status
  <2>4. Fees(st) = PerSide * Total(Imported(day), LAMBDA f : rows[f].qty) + Extra
    BY <2>1 DEF Fees
  <2>5. Total(Booked(day), LAMBDA t : Net(t, day)) = st.ps - Fees(st)
    BY <1>3, <2>1, <2>4, NetsAddUp
  <2> QED
    BY <2>3, <2>5 DEF st
<1> QED
  BY <1>1, <1>2, <1>3, QtyInit, QtyNext, PTL DEF Spec
\* _fifo_match, whatever fills, groups, contracts and sessions it is given and in whatever
\* order the groups and sessions come: a book is never open on both sides, and a closed
\* trade is a lot and a later fill of the other side that belong together.
THEOREM TradesRoundTrip == Spec => []TradesAreRoundTrips
<1>1. IInv => TradesAreRoundTrips
  BY DEF IInv, OneSided, RoundTrips, TradesAreRoundTrips
<1> QED
  BY <1>1, InvInit, InvNext, PTL DEF Spec

\* What is waiting and what is open stays a quantity by fill, the book at work takes fills
\* of the journal, and trades are between them.
THEOREM TypeCorrect == Spec => []TypeOK
<1>1. IInv => TypeOK
  BY DEF IInv
<1> QED
  BY <1>1, InvInit, InvNext, PTL DEF Spec
================================================================================
