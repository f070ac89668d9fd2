----------------------------- MODULE TradeWalkProofs -----------------------------
(***************************************************************************)
(* For every trade, every sequence of bars and every combination of        *)
(* break-even and trailing stop: the stop only tightens, covers the entry  *)
(* once break-even is armed and is the one the completed bars call for;    *)
(* the two implementations of the walk agree; no exit is overlooked; and   *)
(* sl_first is never the better of the two models of a bar.                *)
(***************************************************************************)
EXTENDS TradeWalk, TLAPS

StopTyped == trade \in Trades /\ stop \in Stops

\* Once break-even is armed no stop lies behind the slipped entry, whatever the
\* trailing stop does.
ArmedCoversEntry == stop.armed => ~Tighter(Entry, stop.effective)

-----------------------------------------------------------------------------
LEMMA TradePrices ==
    ASSUME trade \in Trades
    PROVE  /\ Entry \in Int /\ InitialStop \in Int
           /\ trade.trailing_distance \in Int /\ Long \in BOOLEAN
<1>1. IsTrade(trade)
  BY TradesAssumption
<1>2. /\ trade.theoretical \in Int /\ trade.slip \in Int /\ trade.sl_pts \in Int
      /\ trade.trailing_distance \in Int
  BY <1>1 DEF IsTrade
<1> QED
  BY <1>2 DEF Entry, InitialStop, Long

\* The tighter of two stops is one of them and no looser than either.
LEMMA BestIsTighter ==
    ASSUME NEW p \in Int, NEW q \in Int
    PROVE  /\ Best(p, q) \in Int
           /\ ~Tighter(q, Best(p, q)) /\ ~Tighter(p, Best(p, q))
  BY DEF Best, Tighter

LEMMA TighterIsTransitive ==
    ASSUME NEW p \in Int, NEW q \in Int, NEW r \in Int, ~Tighter(p, q), ~Tighter(q, r)
    PROVE  ~Tighter(p, r)
  BY DEF Tighter

\* Break-even.
LEMMA ToBreakevenTightens ==
    ASSUME trade \in Trades, NEW st \in Stops
    PROVE  LET new == ToBreakeven(st) IN
           /\ new \in Stops
           /\ ~Tighter(st.effective, new.effective)
           /\ (st.armed => ~Tighter(Entry, st.effective)) =>
                 (new.armed => ~Tighter(Entry, new.effective))
<1> DEFINE new == ToBreakeven(st)
           moved == Best(Entry, st.effective)
           reason == IF Tighter(Entry, st.effective) THEN "BE" ELSE st.reason
<1>1. st.effective \in Int /\ st.reason \in {"SL", "BE", "TRAIL"} /\ st.best \in Int
  BY DEF Stops
<1>2. moved \in Int /\ ~Tighter(st.effective, moved) /\ ~Tighter(Entry, moved)
  BY <1>1, TradePrices, BestIsTighter
<1>3. ~Tighter(st.effective, st.effective)
  BY <1>1 DEF Tighter
<1>4. \/ new = st
      \/ new = [effective |-> moved, reason |-> reason, best |-> st.best, armed |-> TRUE]
  BY DEF ToBreakeven, Stops
<1>5. reason \in {"SL", "BE", "TRAIL"}
  BY <1>1
<1> HIDE DEF new, moved, reason
<1>6. CASE new = st
  BY <1>3, <1>6 DEF new
<1>7. CASE new = [effective |-> moved, reason |-> reason, best |-> st.best, armed |-> TRUE]
  <2>1. new \in Stops
    BY <1>1, <1>2, <1>5, <1>7 DEF Stops
  <2>2. new.effective = moved
    BY <1>7
  <2> QED
    BY <1>2, <2>1, <2>2 DEF new
<1> QED
  BY <1>4, <1>6, <1>7

\* The trailing stop.
LEMMA TrailTightens ==
    ASSUME trade \in Trades, NEW st \in Stops
    PROVE  LET new == Trail(st) IN
           /\ new \in Stops
           /\ ~Tighter(st.effective, new.effective)
           /\ new.armed = st.armed
<1> DEFINE new == Trail(st)
           candidate == Behind(st.best, trade.trailing_distance)
           moved == Best(candidate, st.effective)
           reason == IF Tighter(candidate, st.effective) THEN "TRAIL" ELSE st.reason
<1>1. st.effective \in Int /\ st.reason \in {"SL", "BE", "TRAIL"} /\ st.best \in Int
  BY DEF Stops
<1>2. candidate \in Int
  BY <1>1, TradePrices DEF Behind
<1>3. moved \in Int /\ ~Tighter(st.effective, moved) /\ ~Tighter(st.effective, st.effective)
  <2>1. ~Tighter(st.effective, st.effective)
    BY <1>1 DEF Tighter
  <2> HIDE DEF candidate
  <2> QED
    BY <1>1, <1>2, <2>1, BestIsTighter
<1>4. \/ new = st
      \/ new = [effective |-> moved, reason |-> reason, best |-> st.best, armed |-> st.armed]
  BY DEF Trail, Stops
<1>5. reason \in {"SL", "BE", "TRAIL"}
  BY <1>1
<1> HIDE DEF new, candidate, moved, reason
<1>6. CASE new = st
  BY <1>3, <1>6 DEF new
<1>7. CASE new = [effective |-> moved, reason |-> reason, best |-> st.best, armed |-> st.armed]
  <2>1. new \in Stops
    BY <1>1, <1>3, <1>5, <1>7 DEF Stops
  <2>2. new.effective = moved /\ new.armed = st.armed
    BY <1>7
  <2> QED
    BY <1>3, <2>1, <2>2 DEF new
<1> QED
  BY <1>4, <1>6, <1>7

\* One completed bar.
LEMMA AfterBarTightens ==
    ASSUME trade \in Trades, NEW st \in Stops, NEW bar \in Bars
    PROVE  LET new == AfterBar(st, bar) IN
           /\ new \in Stops
           /\ ~Tighter(st.effective, new.effective)
           /\ (st.armed => ~Tighter(Entry, st.effective)) =>
                 (new.armed => ~Tighter(Entry, new.effective))
<1> DEFINE best == Best(Extreme(bar), st.best)
           followed == [st EXCEPT !.best = best]
           even == ToBreakeven(followed)
           new == Trail(even)
<1>1. best \in Int
  <2>1. Extreme(bar) \in Int
    BY BarsAssumption DEF IsBar, Extreme
  <2>2. st.best \in Int
    BY DEF Stops
  <2> QED
    BY <2>1, <2>2, BestIsTighter
<1>2. /\ followed \in Stops
      /\ followed.effective = st.effective /\ followed.armed = st.armed
  <2> HIDE DEF best
  <2> QED
    BY <1>1 DEF Stops
<1> HIDE DEF best, followed
<1>3. /\ even \in Stops
      /\ ~Tighter(st.effective, even.effective)
      /\ (st.armed => ~Tighter(Entry, st.effective)) =>
            (even.armed => ~Tighter(Entry, even.effective))
  BY <1>2, ToBreakevenTightens
<1> HIDE DEF even
<1>4. new \in Stops /\ ~Tighter(even.effective, new.effective) /\ new.armed = even.armed
  BY <1>3, TrailTightens
<1> HIDE DEF new
<1>5. /\ Entry \in Int
      /\ st.effective \in Int /\ even.effective \in Int /\ new.effective \in Int
  BY <1>3, <1>4, TradePrices DEF Stops
<1>6. ~Tighter(st.effective, new.effective)
  BY <1>3, <1>4, <1>5, TighterIsTransitive
<1>7. (even.armed => ~Tighter(Entry, even.effective)) => (new.armed => ~Tighter(Entry, new.effective))
  BY <1>4, <1>5, TighterIsTransitive
<1>8. AfterBar(st, bar) = new
  BY DEF AfterBar, new, even, followed, best
<1> QED
  BY <1>3, <1>4, <1>6, <1>7, <1>8

-----------------------------------------------------------------------------
\* A bar that is drawn, and what it does to the stop.
LEMMA StopStep ==
    ASSUME StopTyped, [Next]_vars
    PROVE  /\ trade' = trade
           /\ stop' = stop \/ \E bar \in Bars : stop' = AfterBar(stop, bar)
<1>1. CASE ForceExit
  BY <1>1 DEF ForceExit
<1>2. ASSUME NEW bar \in Bars, PassEntryBar(bar) PROVE trade' = trade /\ (stop' = stop \/ stop' = AfterBar(stop, bar))
  BY <1>2 DEF PassEntryBar, Draw
<1>3. ASSUME NEW bar \in Bars, WalkBar(bar) PROVE trade' = trade /\ (stop' = stop \/ stop' = AfterBar(stop, bar))
  BY <1>3 DEF WalkBar, Draw
<1>4. CASE UNCHANGED vars
  BY <1>4 DEF vars
<1> QED
  BY <1>1, <1>2, <1>3, <1>4 DEF Next

LEMMA StopInit == Init => StopTyped /\ ArmedCoversEntry
  BY TradePrices DEF Init, InitialState, StopTyped, Stops, ArmedCoversEntry

LEMMA StopInvariantStep == StopTyped /\ ArmedCoversEntry /\ [Next]_vars => (StopTyped /\ ArmedCoversEntry)'
<1> SUFFICES ASSUME StopTyped, ArmedCoversEntry, [Next]_vars PROVE (StopTyped /\ ArmedCoversEntry)'
  OBVIOUS
<1>1. trade' = trade
  BY StopStep
<1>2. (StopTyped /\ ArmedCoversEntry)' = (/\ trade \in Trades /\ stop' \in Stops
                                          /\ stop'.armed => ~Tighter(Entry, stop'.effective))
  BY <1>1 DEF StopTyped, ArmedCoversEntry, Tighter, Entry, Long
<1>3. CASE stop' = stop
  BY <1>2, <1>3 DEF StopTyped, ArmedCoversEntry
<1>4. ASSUME NEW bar \in Bars, stop' = AfterBar(stop, bar)
      PROVE  (StopTyped /\ ArmedCoversEntry)'
  BY <1>2, <1>4, AfterBarTightens DEF StopTyped, ArmedCoversEntry
<1> QED
  BY <1>3, <1>4, StopStep

LEMMA StopTightens == StopTyped /\ [Next]_vars => ~Tighter(stop.effective, stop'.effective)
<1> SUFFICES ASSUME StopTyped, [Next]_vars PROVE ~Tighter(stop.effective, stop'.effective)
  OBVIOUS
<1>1. CASE stop' = stop
  BY <1>1 DEF StopTyped, Stops, Tighter
<1>2. ASSUME NEW bar \in Bars, stop' = AfterBar(stop, bar)
      PROVE  ~Tighter(stop.effective, stop'.effective)
  BY <1>2, AfterBarTightens DEF StopTyped
<1> QED
  BY <1>1, <1>2, StopStep

\* Whatever bars follow one another, no step loosens the stop.
THEOREM StopsOnlyTighten == Spec => StopNeverLoosens
<1>1. Spec => []StopTyped
  BY StopInit, StopInvariantStep, PTL DEF Spec
<1>2. StopTyped /\ [Next]_vars => [~Tighter(stop.effective, stop'.effective)]_vars
  BY StopTightens
<1> QED
  BY <1>1, <1>2, PTL DEF Spec, StopNeverLoosens

\* Break-even, once armed, is never given up.
THEOREM BreakevenIsKept == Spec => []ArmedCoversEntry
  BY StopInit, StopInvariantStep, PTL DEF Spec

-----------------------------------------------------------------------------
(* Types                                                                    *)

LEMMA MaxOfTwo ==
    ASSUME NEW p \in Int, NEW q \in Int
    PROVE  Max({p, q}) \in {p, q} /\ Max({p, q}) >= p /\ Max({p, q}) >= q
<1>1. \E x \in {p, q} : \A y \in {p, q} : x >= y
  <2>1. CASE p >= q
    BY <2>1
  <2>2. CASE q >= p
    BY <2>2
  <2> QED
    BY <2>1, <2>2
<1> QED
  BY <1>1 DEF Max

LEMMA MaxOfZero ==
    ASSUME NEW p \in Int
    PROVE  Max({0, p}) = IF p >= 0 THEN p ELSE 0
<1>1. 0 \in Int
  OBVIOUS
<1>2. Max({0, p}) \in {0, p} /\ Max({0, p}) >= 0 /\ Max({0, p}) >= p
  BY <1>1, MaxOfTwo
<1> QED
  BY <1>2

LEMMA MinOfThree ==
    ASSUME NEW S \in SUBSET Int, NEW n \in S, NEW p, NEW q, S \subseteq {n, p, q}
    PROVE  Min(S) \in S /\ \A x \in S : Min(S) <= x
<1>1. \E x \in S : \A y \in S : x <= y
  OBVIOUS
<1> QED
  BY <1>1 DEF Min

LEMMA CapFacts ==
    ASSUME trade \in Trades
    PROVE  Cap \in Nat \ {0} /\ Cap <= NBars
<1> DEFINE S == {NBars} \cup {c \in {trade.max_holding_bars, trade.session_cap_bar} : c # 0}
<1>1. trade.max_holding_bars \in Nat /\ trade.session_cap_bar \in Nat
  BY TradesAssumption, NBarsAssumption DEF IsTrade
<1>2. S \in SUBSET Int /\ S \subseteq Nat \ {0} /\ NBars \in S
  BY <1>1, NBarsAssumption
<1>3. S \subseteq {NBars, trade.max_holding_bars, trade.session_cap_bar}
  OBVIOUS
<1>4. Cap = Min(S)
  BY DEF Cap
<1> HIDE DEF S
<1>5. Min(S) \in S /\ \A x \in S : Min(S) <= x
  BY <1>2, <1>3, MinOfThree
<1> QED
  BY <1>2, <1>4, <1>5

LEMMA DrawFacts ==
    ASSUME TypeOK, NEW bar \in Bars, Draw(bar)
    PROVE  /\ trade' = trade /\ Cap' = Cap
           /\ seen' \in Seq(Bars) /\ Len(seen') = Len(seen) + 1 /\ Len(seen') <= Cap
<1>1. trade' = trade /\ seen' = Append(seen, bar) /\ Len(seen) < Cap
  BY DEF Draw
<1>2. Cap' = Cap
  BY <1>1 DEF Cap
<1>3. Cap \in Nat
  BY CapFacts DEF TypeOK
<1> QED
  BY <1>1, <1>2, <1>3 DEF TypeOK

LEMMA WidenedType ==
    ASSUME TypeOK, NEW bar \in Bars
    PROVE  Widened(bar) \in Excursions
<1>1. Adverse(bar) \in Int /\ Favoring(bar) \in Int
  BY TradePrices, BarsAssumption DEF TypeOK, IsBar, Adverse, Favoring
<1>2. excursion.mae \in Nat /\ excursion.mfe \in Nat
  BY DEF TypeOK, Excursions
<1>3. ASSUME NEW n \in Nat, NEW d \in Int
      PROVE  Max({n, d}) \in Nat
  <2>1. Max({n, d}) \in {n, d} /\ Max({n, d}) >= n
    BY MaxOfTwo
  <2> QED
    BY <2>1
<1>4. Max({excursion.mae, Adverse(bar)}) \in Nat
  BY <1>1, <1>2, <1>3
<1>5. Max({excursion.mfe, Favoring(bar)}) \in Nat
  BY <1>1, <1>2, <1>3
<1> QED
  BY <1>4, <1>5 DEF Widened, Excursions

LEMMA TypeInit == Init => TypeOK
<1> SUFFICES ASSUME Init PROVE TypeOK
  OBVIOUS
<1>1. stop \in Stops /\ trade \in Trades
  BY StopInit DEF StopTyped
<1>2. Cap \in Nat
  BY <1>1, CapFacts
<1> QED
  BY <1>1, <1>2 DEF Init, TypeOK, Open, Excursions, Exits, Reasons

LEMMA TypeStep == TypeOK /\ [Next]_vars => TypeOK'
<1> SUFFICES ASSUME TypeOK, [Next]_vars PROVE TypeOK'
  OBVIOUS
<1>1. trade' = trade /\ trade' \in Trades /\ stop' \in Stops /\ Cap' = Cap
  <2>1. StopTyped
    BY DEF TypeOK, StopTyped
  <2>2. trade' = trade
    BY <2>1, StopStep
  <2>3. stop' \in Stops
    BY <2>1, StopStep, AfterBarTightens DEF StopTyped
  <2> QED
    BY <2>2, <2>3 DEF TypeOK, Cap
<1>2. ASSUME NEW bar \in Bars, PassEntryBar(bar)
      PROVE  TypeOK'
  <2>1. Draw(bar) /\ UNCHANGED <<excursion, exit>>
    BY <1>2 DEF PassEntryBar
  <2>2. Len(seen') \in Nat /\ exit'.bar <= Len(seen')
    BY <2>1, DrawFacts DEF TypeOK, Exits
  <2> QED
    BY <1>1, <2>1, <2>2, DrawFacts DEF TypeOK
<1>3. ASSUME NEW bar \in Bars, WalkBar(bar)
      PROVE  TypeOK'
  <2>1. Draw(bar) /\ excursion' = Widened(bar)
    BY <1>3 DEF WalkBar
  <2>2. excursion' \in Excursions
    BY <2>1, WidenedType
  <2>3. /\ stop.effective \in Int /\ stop.reason \in Reasons
        /\ Target \in Int /\ Len(seen) \in Nat
    BY TradePrices, TradesAssumption DEF TypeOK, Stops, Target, Reasons, IsTrade
  <2>4. exit' = exit \/ \E k \in {"SL", "TP"}, price \in Int : exit' = [bar |-> Len(seen) + 1, reason |-> HitReason(k), price |-> price]
    <3> DEFINE kind == Resolve(bar, Len(seen) + 1, stop.effective, Target)
               price == IF kind = "SL" THEN stop.effective ELSE Target
    <3>1. exit' = exit \/ exit' = [bar |-> Len(seen) + 1, reason |-> HitReason(kind), price |-> price]
      BY <1>3 DEF WalkBar
    <3>2. HitReason(kind) = HitReason("SL") \/ HitReason(kind) = HitReason("TP")
      BY DEF HitReason
    <3>3. price \in Int
      BY <2>3
    <3> HIDE DEF kind, price
    <3> QED
      BY <3>1, <3>2, <3>3
  <2>5. \A k : HitReason(k) \in Reasons
    BY <2>3 DEF HitReason, Reasons
  <2>6. exit' \in Exits /\ exit'.bar <= Len(seen) + 1
    BY <2>3, <2>4, <2>5 DEF TypeOK, Exits
  <2> QED
    BY <1>1, <2>1, <2>2, <2>6, DrawFacts DEF TypeOK
<1>4. CASE ForceExit
  <2>1. Cap \in Nat \ {0} /\ Len(seen) = Cap /\ UNCHANGED <<seen, excursion>>
    BY <1>4, CapFacts DEF ForceExit, TypeOK
  <2>2. seen[Cap].close \in Int
    BY <2>1, BarsAssumption DEF TypeOK, IsBar
  <2>3. ForcedReason \in Reasons
    BY DEF ForcedReason, Reasons
  <2> QED
    BY <1>1, <1>4, <2>1, <2>2, <2>3 DEF ForceExit, TypeOK, Exits
<1>5. CASE UNCHANGED vars
  BY <1>1, <1>5 DEF vars, TypeOK
<1> QED
  BY <1>2, <1>3, <1>4, <1>5 DEF Next

\* A walk is always somewhere: at most Cap bars are seen, the exit is on one of them,
\* excursions are never negative (walk_trade_exit).
THEOREM TypeCorrect == Spec => []TypeOK
  BY TypeInit, TypeStep, PTL DEF Spec

-----------------------------------------------------------------------------
(* The stop is the one the completed bars call for.  By induction the walk  *)
(* keeps the furthest price of those bars, and the tightest of the stops    *)
(* that price calls for; both only grow, so nothing of the past is needed.  *)

Calls(p, x) ==
    \/ x = InitialStop
    \/ trade.breakeven_after # 0 /\ Favorable(p) >= trade.breakeven_after /\ x = Entry
    \/ /\ trade.trailing_after # 0 /\ Favorable(p) >= trade.trailing_after
       /\ x = Behind(p, trade.trailing_distance)

Tightest(st) ==
    /\ Calls(st.best, st.effective)
    /\ \A x \in Int : Calls(st.best, x) => ~Tighter(x, st.effective)

BestIsFurthest ==
    /\ ~Tighter(Entry, stop.best)
    /\ \A b \in Completed : ~Tighter(Extreme(seen[b]), stop.best)
    /\ stop.best = Entry \/ \E b \in Completed : stop.best = Extreme(seen[b])

WalkInv == TypeOK /\ BestIsFurthest /\ Tightest(stop)

LEMMA FavorableGrows ==
    ASSUME trade \in Trades, NEW p \in Int, NEW q \in Int, ~Tighter(p, q)
    PROVE  Favorable(p) \in Nat /\ Favorable(q) \in Nat /\ Favorable(p) <= Favorable(q)
<1>1. Entry \in Int
  BY TradePrices
<1>2. ASSUME NEW d \in Int, NEW e \in Int, d <= e
      PROVE  Max({0, d}) \in Nat /\ Max({0, e}) \in Nat /\ Max({0, d}) <= Max({0, e})
  BY <1>2, MaxOfZero
<1>3. CASE Long
  BY <1>1, <1>2, <1>3 DEF Favorable, Tighter
<1>4. CASE ~Long
  BY <1>1, <1>2, <1>4 DEF Favorable, Tighter
<1> QED
  BY <1>3, <1>4

LEMMA AfterBarCalls ==
    ASSUME trade \in Trades, NEW st \in Stops, NEW bar \in Bars, Tightest(st)
    PROVE  /\ AfterBar(st, bar).best = Best(Extreme(bar), st.best)
           /\ Tightest(AfterBar(st, bar))
<1> DEFINE best == Best(Extreme(bar), st.best)
           followed == [st EXCEPT !.best = best]
           even == ToBreakeven(followed)
           new == Trail(even)
           be == trade.breakeven_after # 0 /\ Favorable(best) >= trade.breakeven_after
           tr == trade.trailing_after # 0 /\ Favorable(best) >= trade.trailing_after
           behind == Behind(best, trade.trailing_distance)
           eff == IF be THEN Best(Entry, st.effective) ELSE st.effective
<1>1. /\ Extreme(bar) \in Int /\ st.best \in Int /\ st.effective \in Int
      /\ Entry \in Int /\ InitialStop \in Int /\ trade.trailing_distance \in Int
      /\ trade.breakeven_after \in Nat /\ trade.trailing_after \in Nat
  BY TradePrices, TradesAssumption, BarsAssumption DEF IsBar, Extreme, Stops, IsTrade
<1>2. best \in Int /\ ~Tighter(st.best, best)
  BY <1>1, BestIsTighter
<1> HIDE DEF best
<1>3. followed.best = best /\ followed.effective = st.effective /\ followed \in Stops
  BY <1>2 DEF Stops
<1> HIDE DEF followed
<1>4. even.best = best /\ even.effective = eff /\ even \in Stops
  <2>1. even \in Stops
    BY <1>3, ToBreakevenTightens
  <2>2. CASE be
    <3>1. even = [followed EXCEPT !.armed = TRUE, !.effective = Best(Entry, @),
                     !.reason = IF Tighter(Entry, followed.effective) THEN "BE" ELSE @]
      <4>1. Favorable(best) \in Nat /\ ~(Favorable(best) < trade.breakeven_after)
        BY <1>1, <1>2, <2>2, FavorableGrows
      <4> QED
        BY <1>3, <2>2, <4>1 DEF ToBreakeven
    <3> QED
      BY <1>3, <2>1, <2>2, <3>1 DEF Stops
  <2>3. CASE ~be
    <3>1. Favorable(best) \in Nat
      BY <1>1, <1>2, FavorableGrows
    <3>2. even = followed
      BY <1>1, <1>3, <2>3, <3>1 DEF ToBreakeven
    <3> QED
      BY <1>3, <2>3, <3>2
  <2> QED
    BY <2>2, <2>3
<1> HIDE DEF even
<1>5. new.best = best /\ new.effective = IF tr THEN Best(behind, eff) ELSE eff
  <2>1. Favorable(best) \in Nat
    BY <1>1, <1>2, FavorableGrows
  <2>2. CASE tr
    <3>1. ~(trade.trailing_after = 0 \/ Favorable(even.best) < trade.trailing_after)
      BY <1>1, <1>4, <2>1, <2>2
    <3>2. new = [even EXCEPT !.effective = Best(Behind(even.best, trade.trailing_distance), @),
                     !.reason = IF Tighter(Behind(even.best, trade.trailing_distance), even.effective)
                                THEN "TRAIL" ELSE @]
      BY <3>1 DEF Trail
    <3> QED
      BY <1>4, <2>2, <3>2 DEF Stops
  <2>3. CASE ~tr
    <3>1. new = even
      BY <1>1, <1>4, <2>1, <2>3 DEF Trail
    <3> QED
      BY <1>4, <2>3, <3>1
  <2> QED
    BY <2>2, <2>3
<1>6. AfterBar(st, bar) = new
  BY DEF AfterBar, new, even, followed, best
<1> HIDE DEF new
<1>7. behind \in Int
  BY <1>1, <1>2 DEF Behind
<1>8. ~Tighter(Behind(st.best, trade.trailing_distance), behind)
  BY <1>1, <1>2 DEF Behind, Tighter
<1>9. Favorable(st.best) \in Nat /\ Favorable(best) \in Nat /\ Favorable(st.best) <= Favorable(best)
  BY <1>1, <1>2, FavorableGrows
<1>10. eff \in Int /\ (be => ~Tighter(Entry, eff)) /\ ~Tighter(st.effective, eff) /\ eff \in {Entry, st.effective}
  BY <1>1, BestIsTighter DEF Best, Tighter
<1>11. Calls(best, eff) \/ (tr /\ ~Tighter(eff, behind))
  <2>1. CASE be /\ eff = Entry
    BY <2>1 DEF Calls
  <2>2. CASE eff = st.effective
    BY <1>1, <1>8, <1>9, <2>2 DEF Calls, Tightest
  <2> QED
    BY <1>10, <2>1, <2>2
<1>12. new.effective \in Int /\ Calls(best, new.effective)
  <2>1. CASE tr
    BY <1>5, <1>7, <1>10, <1>11, <2>1 DEF Best, Tighter, Calls
  <2>2. CASE ~tr
    BY <1>5, <1>10, <1>11, <2>2
  <2> QED
    BY <2>1, <2>2
<1>13. /\ ~Tighter(eff, new.effective)
       /\ tr => ~Tighter(behind, new.effective)
  BY <1>5, <1>7, <1>10, BestIsTighter DEF Tighter
<1>14. ~Tighter(st.effective, new.effective)
  BY <1>1, <1>10, <1>12, <1>13, TighterIsTransitive
<1>15. ASSUME NEW x \in Int, Calls(best, x)
       PROVE  ~Tighter(x, new.effective)
  <2>1. CASE x = InitialStop
    <3>1. ~Tighter(x, st.effective)
      BY <2>1 DEF Tightest, Calls
    <3> QED
      BY <1>1, <1>12, <1>14, <3>1, TighterIsTransitive
  <2>2. CASE be /\ x = Entry
    BY <1>1, <1>10, <1>12, <1>13, <2>2, TighterIsTransitive
  <2>3. CASE tr /\ x = behind
    BY <1>13, <2>3
  <2> QED
    BY <1>15, <2>1, <2>2, <2>3 DEF Calls
<1> QED
  BY <1>5, <1>6, <1>12, <1>15 DEF Tightest, best

\* What a step does to the bars that have moved the stop, and to the stop.
LEMMA StepOfWalk ==
    ASSUME TypeOK, [Next]_vars
    PROVE  \/ /\ stop' = stop /\ Completed' = Completed
              /\ \A b \in Completed : seen'[b] = seen[b]
           \/ \E bar \in Bars :
                 /\ stop' = AfterBar(stop, bar) /\ Completed' = Completed \cup {Len(seen) + 1}
                 /\ \A b \in Completed : seen'[b] = seen[b]
                 /\ seen'[Len(seen) + 1] = bar
<1> DEFINE n == Len(seen)
           moving == {b \in 1..n : MovesStop(b)}
<1>1. n \in Nat /\ seen \in Seq(Bars) /\ Cap \in Nat \ {0}
  BY CapFacts DEF TypeOK
<1>2. exit = Open => Completed = moving
  BY <1>1 DEF Completed, Open
<1>3. ASSUME NEW bar \in Bars, PassEntryBar(bar) \/ WalkBar(bar)
      PROVE  /\ \/ stop' = stop /\ Completed' = Completed
                \/ stop' = AfterBar(stop, bar) /\ Completed' = Completed \cup {n + 1}
             /\ \A b \in Completed : seen'[b] = seen[b]
             /\ seen'[n + 1] = bar
  <2>1. /\ exit = Open /\ seen' = Append(seen, bar) /\ trade' = trade
        /\ exit' = Open \/ exit'.bar = n + 1
    BY <1>3 DEF PassEntryBar, WalkBar, Draw
  <2>2. n' = n + 1 /\ seen'[n + 1] = bar /\ \A b \in 1..n : seen'[b] = seen[b]
    BY <1>1, <2>1
  <2>3. \A b : MovesStop(b)' = MovesStop(b)
    BY <2>1 DEF MovesStop, Managed, Cap
  <2>4. Completed' = {b \in 1..(n' - (IF exit'.bar = n' THEN 1 ELSE 0)) : MovesStop(b)}
    BY <2>3 DEF Completed
  <2>5. Completed = moving
    BY <1>2, <2>1
  <2>6. CASE exit'.bar = n + 1
    <3>1. Completed' = Completed
      BY <1>1, <2>2, <2>4, <2>5, <2>6
    <3>2. stop' = stop
      BY <1>1, <1>3, <2>1, <2>6 DEF PassEntryBar, WalkBar, Open
    <3> QED
      BY <2>2, <2>5, <3>1, <3>2
  <2>7. CASE exit' = Open
    <3>1. Completed' = {b \in 1..(n + 1) : MovesStop(b)}
      BY <1>1, <2>2, <2>4, <2>7 DEF Open
    <3>2. stop' = IF MovesStop(n + 1) THEN AfterBar(stop, bar) ELSE stop
      <4>1. CASE PassEntryBar(bar)
        BY <4>1 DEF PassEntryBar
      <4>2. CASE WalkBar(bar)
        <5>1. UNCHANGED exit
          BY <2>1, <2>7
        <5>2. Resolve(bar, n + 1, stop.effective, Target) = "none"
          BY <1>1, <4>2, <2>7 DEF WalkBar, Open
        <5> QED
          BY <4>2, <5>2 DEF WalkBar
      <4> QED
        BY <1>3, <4>1, <4>2
    <3>3. CASE MovesStop(n + 1)
      BY <1>1, <2>2, <2>5, <3>1, <3>2, <3>3
    <3>4. CASE ~MovesStop(n + 1)
      BY <1>1, <2>2, <2>5, <3>1, <3>2, <3>4
    <3> QED
      BY <3>3, <3>4
  <2> QED
    BY <2>1, <2>6, <2>7
<1>4. CASE ForceExit
  <2>1. /\ exit = Open /\ n = Cap /\ exit'.bar = Cap /\ UNCHANGED <<trade, seen, stop>>
    BY <1>4 DEF ForceExit
  <2>2. \A b : MovesStop(b)' = MovesStop(b)
    BY <2>1 DEF MovesStop, Managed, Cap
  <2>3. Completed' = {b \in 1..(n - 1) : MovesStop(b)}
    BY <2>1, <2>2 DEF Completed
  <2>4. ~MovesStop(n)
    BY <1>1, <2>1 DEF MovesStop
  <2>5. Completed' = Completed
    BY <1>1, <1>2, <2>1, <2>3, <2>4
  <2> QED
    BY <2>1, <2>5
<1>5. CASE UNCHANGED vars
  BY <1>5 DEF vars, Completed, MovesStop, Managed, Cap
<1> QED
  BY <1>3, <1>4, <1>5 DEF Next

LEMMA WalkInit == Init => BestIsFurthest /\ Tightest(stop)
<1> SUFFICES ASSUME Init PROVE BestIsFurthest /\ Tightest(stop)
  OBVIOUS
<1>1. trade \in Trades /\ stop = InitialState /\ seen = <<>> /\ exit = Open
  BY DEF Init
<1>2. Entry \in Int /\ InitialStop \in Int
  BY <1>1, TradePrices
<1>3. Completed = {}
  BY <1>1 DEF Completed, Open
<1>4. BestIsFurthest
  BY <1>1, <1>2, <1>3 DEF BestIsFurthest, InitialState, Tighter
<1>5. IsTrade(trade)
  BY <1>1, TradesAssumption
<1>6. Favorable(Entry) = 0
  BY <1>2, MaxOfZero DEF Favorable
<1>7. Tightest(stop)
  BY <1>1, <1>2, <1>5, <1>6 DEF Tightest, Calls, InitialState, Tighter, IsTrade
<1> QED
  BY <1>4, <1>7

LEMMA WalkStep == WalkInv /\ [Next]_vars => WalkInv'
<1> SUFFICES ASSUME WalkInv, [Next]_vars PROVE WalkInv'
  OBVIOUS
<1>1. TypeOK /\ TypeOK' /\ StopTyped
  BY TypeStep DEF WalkInv, TypeOK, StopTyped
<1>2. trade' = trade /\ trade \in Trades /\ stop \in Stops
  BY <1>1, StopStep DEF TypeOK
<1>3. Entry' = Entry /\ InitialStop' = InitialStop /\ Entry \in Int
  BY <1>2, TradePrices DEF Entry, InitialStop, Long
<1>4. \A x, y : Tighter(x, y)' = Tighter(x, y)
  BY <1>2 DEF Tighter, Long
<1>5. Tightest(stop)' = Tightest(stop')
  BY <1>2 DEF Tightest, Calls, Tighter, Favorable, Behind, InitialStop, Entry, Long
<1>6. BestIsFurthest' =
        (/\ ~Tighter(Entry, stop'.best)
         /\ \A b \in Completed' : ~Tighter(Extreme(seen'[b]), stop'.best)
         /\ stop'.best = Entry \/ \E b \in Completed' : stop'.best = Extreme(seen'[b]))
  BY <1>2, <1>3 DEF BestIsFurthest, Tighter, Extreme, Long
<1>7. CASE /\ stop' = stop /\ Completed' = Completed
           /\ \A b \in Completed : seen'[b] = seen[b]
  BY <1>1, <1>5, <1>6, <1>7 DEF WalkInv, BestIsFurthest
<1>8. ASSUME NEW bar \in Bars, stop' = AfterBar(stop, bar), Completed' = Completed \cup {Len(seen) + 1},
             \A b \in Completed : seen'[b] = seen[b], seen'[Len(seen) + 1] = bar
      PROVE  WalkInv'
  <2>1. stop'.best = Best(Extreme(bar), stop.best) /\ Tightest(stop')
    BY <1>2, <1>8, AfterBarCalls DEF WalkInv
  <2>2. Extreme(bar) \in Int /\ stop.best \in Int
    BY <1>2, BarsAssumption DEF IsBar, Extreme, Stops
  <2>3. \A b \in Completed : Extreme(seen[b]) \in Int
    <3>1. \A b \in Completed : b \in 1..Len(seen)
      BY <1>1 DEF Completed, TypeOK, Exits
    <3> QED
      BY <1>1, <3>1, BarsAssumption DEF IsBar, Extreme, TypeOK
  <2>4. /\ stop'.best \in Int /\ stop'.best \in {Extreme(bar), stop.best}
        /\ ~Tighter(Extreme(bar), stop'.best) /\ ~Tighter(stop.best, stop'.best)
    BY <2>1, <2>2, BestIsTighter DEF Best
  <2>5. ~Tighter(Entry, stop'.best)
    BY <1>3, <2>2, <2>4, TighterIsTransitive DEF WalkInv, BestIsFurthest
  <2>6. \A b \in Completed' : ~Tighter(Extreme(seen'[b]), stop'.best)
    BY <1>8, <2>2, <2>3, <2>4, TighterIsTransitive DEF WalkInv, BestIsFurthest
  <2>7. stop'.best = Entry \/ \E b \in Completed' : stop'.best = Extreme(seen'[b])
    BY <1>8, <2>4 DEF WalkInv, BestIsFurthest
  <2> QED
    BY <1>1, <1>5, <1>6, <2>1, <2>5, <2>6, <2>7 DEF WalkInv
<1> QED
  BY <1>1, <1>7, <1>8, StepOfWalk

LEMMA MaxIs ==
    ASSUME NEW S \in SUBSET Int, NEW m \in S, \A x \in S : x <= m
    PROVE  Max(S) = m
<1>1. \E x \in S : \A y \in S : x >= y
  OBVIOUS
<1>2. Max(S) \in S /\ \A y \in S : Max(S) >= y
  BY <1>1 DEF Max
<1>3. Max(S) \in Int /\ m \in Int /\ Max(S) >= m /\ m >= Max(S)
  BY <1>2
<1> QED
  BY <1>3

LEMMA MinIs ==
    ASSUME NEW S \in SUBSET Int, NEW m \in S, \A x \in S : m <= x
    PROVE  Min(S) = m
<1>1. \E x \in S : \A y \in S : x <= y
  OBVIOUS
<1>2. Min(S) \in S /\ \A y \in S : Min(S) <= y
  BY <1>1 DEF Min
<1>3. Min(S) \in Int /\ m \in Int /\ Min(S) <= m /\ m <= Min(S)
  BY <1>2
<1> QED
  BY <1>3

\* A stop is never moved by the bar it is hit on, nor by anything but the furthest price
\* of the bars completed before, however long the walk
\* (update_exit_management_after_bar, called after the bar is resolved).
THEOREM StopsFollow == Spec => []StopFollowsCompletedBars
<1>1. ASSUME WalkInv
      PROVE  StopFollowsCompletedBars
  <2> DEFINE prices == {Entry} \cup (IF Long THEN {seen[b].high : b \in Completed}
                                     ELSE {seen[b].low : b \in Completed})
             best == IF Completed = {} THEN Entry
                     ELSE IF Long THEN Max({Entry} \cup {seen[b].high : b \in Completed})
                     ELSE Min({Entry} \cup {seen[b].low : b \in Completed})
             stops == {InitialStop}
                      \cup (IF trade.breakeven_after # 0 /\ Favorable(best) >= trade.breakeven_after
                            THEN {Entry} ELSE {})
                      \cup (IF trade.trailing_after # 0 /\ Favorable(best) >= trade.trailing_after
                            THEN {Behind(best, trade.trailing_distance)} ELSE {})
  <2>1. /\ trade \in Trades /\ stop.best \in Int /\ stop.effective \in Int
        /\ Entry \in Int /\ InitialStop \in Int /\ trade.trailing_distance \in Int
    BY <1>1, TradePrices DEF WalkInv, TypeOK, Stops
  <2>2. \A b \in Completed : seen[b] \in Bars
    BY <1>1 DEF WalkInv, TypeOK, Exits, Completed
  <2>3. prices \in SUBSET Int
    BY <2>1, <2>2, BarsAssumption DEF IsBar
  <2>4. stop.best \in prices
    BY <1>1 DEF WalkInv, BestIsFurthest, Extreme
  <2>5. \A x \in prices : ~Tighter(x, stop.best)
    BY <1>1 DEF WalkInv, BestIsFurthest, Extreme
  <2>6. best = stop.best
    <3>1. CASE Completed = {}
      BY <1>1, <3>1 DEF WalkInv, BestIsFurthest
    <3>2. CASE Completed # {} /\ Long
      <4>1. \A x \in prices : x <= stop.best
        BY <2>1, <2>3, <2>5, <3>2 DEF Tighter
      <4>2. Max(prices) = stop.best
        BY <2>3, <2>4, <4>1, MaxIs
      <4> QED
        BY <3>2, <4>2
    <3>3. CASE Completed # {} /\ ~Long
      <4>1. \A x \in prices : stop.best <= x
        BY <2>1, <2>3, <2>5, <3>3 DEF Tighter
      <4>2. Min(prices) = stop.best
        BY <2>3, <2>4, <4>1, MinIs
      <4> QED
        BY <3>3, <4>2
    <3> QED
      BY <3>1, <3>2, <3>3
  <2> HIDE DEF best
  <2>7. \A x : x \in stops <=> Calls(stop.best, x)
    BY <2>6 DEF Calls
  <2>8. stops \in SUBSET Int
    BY <2>1, <2>6 DEF Behind
  <2> HIDE DEF stops
  <2>9. stop.effective \in stops /\ \A x \in stops : ~Tighter(x, stop.effective)
    BY <1>1, <2>7, <2>8 DEF WalkInv, Tightest
  <2>10. stop.effective = IF Long THEN Max(stops) ELSE Min(stops)
    <3>1. CASE Long
      <4>1. \A x \in stops : x <= stop.effective
        BY <2>1, <2>8, <2>9, <3>1 DEF Tighter
      <4> QED
        BY <2>8, <2>9, <3>1, <4>1, MaxIs
    <3>2. CASE ~Long
      <4>1. \A x \in stops : stop.effective <= x
        BY <2>1, <2>8, <2>9, <3>2 DEF Tighter
      <4> QED
        BY <2>8, <2>9, <3>2, <4>1, MinIs
    <3> QED
      BY <3>1, <3>2
  <2> QED
    BY <2>10 DEF StopFollowsCompletedBars, stops, best
<1>2. Init => WalkInv
  BY TypeInit, WalkInit DEF WalkInv
<1> QED
  BY <1>1, <1>2, WalkStep, PTL DEF Spec

-----------------------------------------------------------------------------
(* Both implementations of the walk agree.  On a trade that is vectorized   *)
(* the stop never moves and no bar is an entry in the middle, so the serial *)
(* walk ends on the first bar that reaches stop or target.                  *)

HitOn(b) == Hits(seen[b].low, seen[b].high, InitialStop, Target)
Struck(b) == HitOn(b)[1] \/ HitOn(b)[2]
Walked == Start..Len(seen)

HitExit(b) == IF HitOn(b)[1] THEN [bar |-> b, price |-> InitialStop, reason |-> "SL"]
              ELSE [bar |-> b, price |-> Target, reason |-> "TP"]

EndsOnFirstHit ==
    \/ /\ exit.reason \notin {"SL", "TP"}
       /\ \A b \in Walked : ~Struck(b)
    \/ /\ exit = HitExit(Len(seen)) /\ Len(seen) \in Walked
       /\ Struck(Len(seen))
       /\ \A b \in Walked : Struck(b) => b = Len(seen)

PeaksAreKept ==
    /\ \A b \in Walked : Adverse(seen[b]) <= excursion.mae /\ Favoring(seen[b]) <= excursion.mfe
    /\ excursion.mae = 0 \/ \E b \in Walked : excursion.mae = Adverse(seen[b])
    /\ excursion.mfe = 0 \/ \E b \in Walked : excursion.mfe = Favoring(seen[b])

VectorInv ==
    /\ TypeOK
    /\ CanVectorize => stop = InitialState /\ EndsOnFirstHit /\ PeaksAreKept

\* A step of the walk of such a trade on one bar.
LEMMA VectorBar ==
    ASSUME VectorInv, CanVectorize, NEW bar \in Bars, WalkBar(bar)
    PROVE  /\ stop' = stop
           /\ LET hits == Hits(bar.low, bar.high, InitialStop, Target) IN
              \/ ~hits[1] /\ ~hits[2] /\ exit' = exit
              \/ hits[1] /\ exit' = [bar |-> Len(seen) + 1, price |-> InitialStop, reason |-> "SL"]
              \/ ~hits[1] /\ hits[2] /\ exit' = [bar |-> Len(seen) + 1, price |-> Target, reason |-> "TP"]
<1> DEFINE b == Len(seen) + 1
           kind == Resolve(bar, b, stop.effective, Target)
           hits == Hits(bar.low, bar.high, InitialStop, Target)
<1>1. stop = InitialState /\ stop.effective = InitialStop /\ stop.reason = "SL"
  BY DEF VectorInv, InitialState
<1>2. ~MovesStop(b) /\ ~Activated(b)
  <2>1. b \in Nat /\ b >= Start
    BY DEF WalkBar, VectorInv, TypeOK
  <2> QED
    BY <2>1 DEF CanVectorize, MovesStop, Activated, Start
<1>3. kind = IF hits[1] THEN "SL" ELSE IF hits[2] THEN "TP" ELSE "none"
  BY <1>1, <1>2 DEF CanVectorize, Resolve, SlFirst
<1>4. CASE kind = "none"
  BY <1>2, <1>3, <1>4 DEF WalkBar
<1>5. CASE kind # "none"
  <2>1. stop' = stop /\ exit' = [bar |-> b, reason |-> HitReason(kind),
                                 price |-> IF kind = "SL" THEN stop.effective ELSE Target]
    BY <1>5 DEF WalkBar
  <2>2. HitReason(kind) = IF kind = "SL" THEN "SL" ELSE "TP"
    BY <1>1 DEF HitReason
  <2> QED
    BY <1>1, <1>3, <1>5, <2>1, <2>2
<1> QED
  BY <1>4, <1>5

\* The bar that is drawn comes after those seen, which stay as they are.
LEMMA DrawnFacts ==
    ASSUME VectorInv, NEW bar \in Bars, Draw(bar)
    PROVE  /\ Len(seen) \in Nat /\ Len(seen') = Len(seen) + 1
           /\ seen'[Len(seen')] = bar
           /\ \A b \in 1..Len(seen) : seen'[b] = seen[b]
           /\ Start \in {1, 2} /\ Start' = Start /\ Walked \subseteq 1..Len(seen)
           /\ Len(seen') >= Start => Walked' = Walked \cup {Len(seen')}
           /\ Len(seen') < Start => Walked = {} /\ Walked' = {}
<1>1. seen \in Seq(Bars) /\ seen' = Append(seen, bar) /\ trade' = trade
  BY DEF VectorInv, TypeOK, Draw
<1>2. Len(seen) \in Nat /\ Len(seen') = Len(seen) + 1 /\ seen'[Len(seen')] = bar
      /\ \A b \in 1..Len(seen) : seen'[b] = seen[b]
  BY <1>1
<1>3. Start \in {1, 2} /\ Start' = Start
  BY <1>1 DEF Start
<1> QED
  BY <1>2, <1>3 DEF Walked

LEMMA VectorStep == VectorInv /\ [Next]_vars => VectorInv'
<1> SUFFICES ASSUME VectorInv, [Next]_vars PROVE VectorInv'
  OBVIOUS
<1>1. TypeOK' /\ trade' = trade
  BY TypeStep, StopStep DEF VectorInv, TypeOK, StopTyped
<1>2. /\ CanVectorize' = CanVectorize /\ InitialState' = InitialState /\ InitialStop' = InitialStop
      /\ Target' = Target /\ Start' = Start
  BY <1>1 DEF CanVectorize, Managed, Activated, Start, InitialState, InitialStop, Target, Entry, Long
<1>3. /\ \A b : HitOn(b)' = Hits(seen'[b].low, seen'[b].high, InitialStop, Target)
      /\ \A bar : Adverse(bar)' = Adverse(bar) /\ Favoring(bar)' = Favoring(bar)
  BY <1>1, <1>2 DEF HitOn, Hits, Long, Adverse, Favoring, Entry
<1> SUFFICES ASSUME CanVectorize
             PROVE  (stop = InitialState)' /\ EndsOnFirstHit' /\ PeaksAreKept'
  BY <1>1, <1>2 DEF VectorInv
<1>4. stop = InitialState /\ EndsOnFirstHit /\ PeaksAreKept
  BY DEF VectorInv
<1>5. ASSUME NEW bar \in Bars, PassEntryBar(bar)
      PROVE  (stop = InitialState)' /\ EndsOnFirstHit' /\ PeaksAreKept'
  <2>1. /\ Draw(bar) /\ Len(seen) = 0 /\ Start = 2 /\ UNCHANGED <<excursion, exit>>
    BY <1>5 DEF PassEntryBar
  <2>2. stop' = stop
    BY <1>5 DEF PassEntryBar, CanVectorize, MovesStop
  <2>3. Walked = {} /\ Walked' = {}
    BY <2>1, DrawnFacts
  <2> QED
    BY <1>2, <1>4, <2>1, <2>2, <2>3 DEF EndsOnFirstHit, PeaksAreKept
<1>6. ASSUME NEW bar \in Bars, WalkBar(bar)
      PROVE  (stop = InitialState)' /\ EndsOnFirstHit' /\ PeaksAreKept'
  <2>0. PICK n \in Nat : n = Len(seen) + 1
    BY DEF VectorInv, TypeOK
  <2>1. Draw(bar) /\ Len(seen) + 1 >= Start /\ excursion' = Widened(bar) /\ exit = Open
    BY <1>6 DEF WalkBar, Draw
  <2>2. /\ Len(seen') = n /\ seen'[n] = bar /\ Walked' = Walked \cup {n}
        /\ Walked \subseteq 1..Len(seen) /\ \A b \in Walked : seen'[b] = seen[b] /\ b # n
    BY <2>0, <2>1, DrawnFacts
  <2>3. \A b \in Walked : ~Struck(b)' /\ HitOn(b)' = HitOn(b)
    <3>1. \A b \in Walked : HitOn(b)' = HitOn(b)
      BY <1>3, <2>2 DEF HitOn
    <3>2. \A b \in Walked : ~Struck(b)
      BY <1>4, <2>1 DEF EndsOnFirstHit, HitExit, Open
    <3> QED
      BY <3>1, <3>2 DEF Struck
  <2>4. HitOn(n)' = Hits(bar.low, bar.high, InitialStop, Target)
    BY <1>3, <2>2
  <2>5. EndsOnFirstHit'
    <3>1. CASE ~HitOn(n)'[1] /\ ~HitOn(n)'[2]
      <4>1. exit' = Open
        BY <1>6, <2>1, <2>4, <3>1, VectorBar
      <4> QED
        BY <2>2, <2>3, <3>1, <4>1 DEF EndsOnFirstHit, Struck, Open
    <3>2. CASE HitOn(n)'[1] \/ HitOn(n)'[2]
      <4>1. exit' = IF HitOn(n)'[1] THEN [bar |-> n, price |-> InitialStop, reason |-> "SL"]
                    ELSE [bar |-> n, price |-> Target, reason |-> "TP"]
        BY <1>6, <2>0, <2>4, <3>2, VectorBar
      <4>2. exit' = HitExit(n)'
        BY <1>2, <4>1 DEF HitExit
      <4> QED
        BY <2>2, <2>3, <3>2, <4>2 DEF EndsOnFirstHit, Struck
    <3> QED
      BY <3>1, <3>2
  <2>6. /\ Adverse(bar) \in Int /\ Favoring(bar) \in Int
        /\ excursion.mae \in Nat /\ excursion.mfe \in Nat
        /\ \A b \in Walked : Adverse(seen[b]) \in Int /\ Favoring(seen[b]) \in Int
    <3>1. trade \in Trades /\ seen \in Seq(Bars) /\ excursion \in Excursions
      BY DEF VectorInv, TypeOK
    <3>2. \A x \in Bars : Adverse(x) \in Int /\ Favoring(x) \in Int
      BY <3>1, TradePrices, BarsAssumption DEF IsBar, Adverse, Favoring
    <3> QED
      BY <2>2, <3>1, <3>2 DEF Excursions
  <2>7. /\ excursion'.mae \in {excursion.mae, Adverse(bar)}
        /\ excursion'.mae >= excursion.mae /\ excursion'.mae >= Adverse(bar)
    <3>1. PICK x \in Int, y \in Int : x = excursion.mae /\ y = Adverse(bar)
      BY <2>6
    <3>2. excursion'.mae = Max({x, y})
      BY <2>1, <3>1 DEF Widened
    <3>3. Max({x, y}) \in {x, y} /\ Max({x, y}) >= x /\ Max({x, y}) >= y
      BY MaxOfTwo
    <3> QED
      BY <3>1, <3>2, <3>3
  <2>8. /\ excursion'.mfe \in {excursion.mfe, Favoring(bar)}
        /\ excursion'.mfe >= excursion.mfe /\ excursion'.mfe >= Favoring(bar)
    <3>1. PICK x \in Int, y \in Int : x = excursion.mfe /\ y = Favoring(bar)
      BY <2>6
    <3>2. excursion'.mfe = Max({x, y})
      BY <2>1, <3>1 DEF Widened
    <3>3. Max({x, y}) \in {x, y} /\ Max({x, y}) >= x /\ Max({x, y}) >= y
      BY MaxOfTwo
    <3> QED
      BY <3>1, <3>2, <3>3
  <2>9. PeaksAreKept' =
          (/\ \A b \in Walked' : Adverse(seen'[b]) <= excursion'.mae /\ Favoring(seen'[b]) <= excursion'.mfe
           /\ excursion'.mae = 0 \/ \E b \in Walked' : excursion'.mae = Adverse(seen'[b])
           /\ excursion'.mfe = 0 \/ \E b \in Walked' : excursion'.mfe = Favoring(seen'[b]))
    BY <1>1 DEF PeaksAreKept, Adverse, Favoring, Long, Entry
  <2>10. \A b \in Walked' : Adverse(seen'[b]) <= excursion'.mae /\ Favoring(seen'[b]) <= excursion'.mfe
    BY <1>4, <2>2, <2>6, <2>7, <2>8 DEF PeaksAreKept
  <2>11. /\ excursion'.mae = 0 \/ \E b \in Walked' : excursion'.mae = Adverse(seen'[b])
         /\ excursion'.mfe = 0 \/ \E b \in Walked' : excursion'.mfe = Favoring(seen'[b])
    BY <1>4, <2>2, <2>7, <2>8 DEF PeaksAreKept
  <2>12. (stop = InitialState)'
    BY <1>2, <1>4, <1>6, VectorBar
  <2> QED
    BY <2>5, <2>9, <2>10, <2>11, <2>12
<1>7. CASE ForceExit
  <2>1. UNCHANGED <<trade, seen, stop, excursion>> /\ exit'.reason \notin {"SL", "TP"} /\ exit = Open
    BY <1>7 DEF ForceExit, ForcedReason
  <2>2. Walked' = Walked /\ \A b : HitOn(b)' = HitOn(b)
    BY <1>2, <1>3, <2>1 DEF Walked, HitOn
  <2>3. EndsOnFirstHit'
    BY <1>4, <2>1, <2>2 DEF EndsOnFirstHit, Struck, HitExit, Open
  <2>4. PeaksAreKept'
    BY <1>3, <1>4, <2>1, <2>2 DEF PeaksAreKept
  <2> QED
    BY <1>2, <1>4, <2>1, <2>3, <2>4
<1>8. CASE UNCHANGED vars
  <2>1. EndsOnFirstHit' /\ PeaksAreKept'
    BY <1>2, <1>3, <1>4, <1>8 DEF vars, EndsOnFirstHit, PeaksAreKept, Walked, Struck, HitOn, HitExit
  <2> QED
    BY <1>2, <1>4, <1>8, <2>1 DEF vars
<1> QED
  BY <1>5, <1>6, <1>7, <1>8 DEF Next

\* For every trade it is used for, _walk_trade_exit_sl_first_vectorized has found at every
\* bar what the serial walk has found: same hit, same price, same excursions.
THEOREM ImplementationsAgree == Spec => []VectorizedIsSerial
<1>1. ASSUME VectorInv, CanVectorize
      PROVE  /\ VectorWalk.exit = IF exit.reason \in {"SL", "TP"} THEN exit ELSE Open
             /\ VectorWalk.excursion = excursion
  <2> DEFINE hits == {b \in Walked : Struck(b)}
             first == Min(hits)
             window == Start..(IF hits = {} THEN Len(seen) ELSE first)
             found == IF hits = {} THEN Open ELSE HitExit(first)
             peaks == [mae |-> Peak(Adverse, window), mfe |-> Peak(Favoring, window)]
  <2>1. VectorWalk = [exit |-> found, excursion |-> peaks]
    BY DEF VectorWalk, HitExit, HitOn, Struck, Walked
  <2>2. Len(seen) \in Nat /\ Start \in {1, 2} /\ Walked \subseteq 1..Len(seen)
    BY <1>1 DEF VectorInv, TypeOK, Start, Walked
  <2>3. \/ exit.reason \notin {"SL", "TP"} /\ hits = {}
        \/ exit = HitExit(Len(seen)) /\ hits = {Len(seen)}
    BY <1>1 DEF VectorInv, EndsOnFirstHit
  <2>4. window = Walked /\ found = IF exit.reason \in {"SL", "TP"} THEN exit ELSE Open
    <3>1. CASE exit.reason \notin {"SL", "TP"} /\ hits = {}
      BY <3>1 DEF Walked
    <3>2. CASE exit = HitExit(Len(seen)) /\ hits = {Len(seen)}
      <4>1. Min({Len(seen)}) = Len(seen)
        <5>1. PICK m \in Int : m = Len(seen)
          BY <2>2
        <5>2. Min({m}) = m
          BY MinIs
        <5> QED
          BY <5>1, <5>2
      <4>2. exit.reason \in {"SL", "TP"}
        BY <3>2 DEF HitExit
      <4> QED
        BY <3>2, <4>1, <4>2 DEF Walked
    <3> QED
      BY <2>3, <3>1, <3>2
  <2>5. excursion \in Excursions /\ PeaksAreKept
    BY <1>1 DEF VectorInv, TypeOK
  <2>6. \A b \in Walked : Adverse(seen[b]) \in Int /\ Favoring(seen[b]) \in Int
    <3>1. trade \in Trades /\ seen \in Seq(Bars)
      BY <1>1 DEF VectorInv, TypeOK
    <3>2. \A x \in Bars : Adverse(x) \in Int /\ Favoring(x) \in Int
      BY <3>1, TradePrices, BarsAssumption DEF IsBar, Adverse, Favoring
    <3> QED
      BY <2>2, <3>1, <3>2
  <2>7. Max({0} \cup {Adverse(seen[b]) : b \in Walked}) = excursion.mae
    <3> DEFINE S == {0} \cup {Adverse(seen[b]) : b \in Walked}
    <3>1. S \in SUBSET Int /\ excursion.mae \in S /\ \A x \in S : x <= excursion.mae
      BY <2>5, <2>6 DEF PeaksAreKept, Excursions
    <3> HIDE DEF S
    <3>2. Max(S) = excursion.mae
      BY <3>1, MaxIs
    <3> QED
      BY <3>2 DEF S
  <2>8. Max({0} \cup {Favoring(seen[b]) : b \in Walked}) = excursion.mfe
    <3> DEFINE S == {0} \cup {Favoring(seen[b]) : b \in Walked}
    <3>1. S \in SUBSET Int /\ excursion.mfe \in S /\ \A x \in S : x <= excursion.mfe
      BY <2>5, <2>6 DEF PeaksAreKept, Excursions
    <3> HIDE DEF S
    <3>2. Max(S) = excursion.mfe
      BY <3>1, MaxIs
    <3> QED
      BY <3>2 DEF S
  <2>9. peaks = excursion
    <3>1. peaks = [mae |-> Max({0} \cup {Adverse(seen[b]) : b \in Walked}),
                   mfe |-> Max({0} \cup {Favoring(seen[b]) : b \in Walked})]
      BY <2>4 DEF Peak
    <3> QED
      BY <2>5, <2>7, <2>8, <3>1 DEF Excursions
  <2> QED
    BY <2>1, <2>4, <2>9
<1>2. VectorInv => VectorizedIsSerial
  BY <1>1 DEF VectorizedIsSerial
<1>3. Init => VectorInv
  <2> SUFFICES ASSUME Init PROVE VectorInv
    OBVIOUS
  <2>1. Walked = {}
    BY DEF Init, Walked, Start
  <2> QED
    BY <2>1, TypeInit DEF Init, VectorInv, EndsOnFirstHit, PeaksAreKept, Open
<1> QED
  BY <1>2, <1>3, VectorStep, PTL DEF Spec

-----------------------------------------------------------------------------
(* What a bar may do after the entry: both models of intrabar.py look at   *)
(* the same two paths through it.                                          *)

LEMMA SameSequence ==
    ASSUME NEW s \in Seq(Int), NEW u \in Seq(Int), Len(s) = Len(u), \A i \in 1..Len(s) : s[i] = u[i]
    PROVE  s = u
  OBVIOUS

LEMMA CutPaths ==
    ASSUME NEW a \in Int, NEW b \in Int, NEW c \in Int, NEW d \in Int, NEW e \in Int
    PROVE  /\ <<e>> \o SubSeq(<<a, b, c, d>>, 2, 4) = <<e, b, c, d>>
           /\ <<e>> \o SubSeq(<<a, b, c, d>>, 3, 4) = <<e, c, d>>
<1>1. PICK s : s = <<a, b, c, d>>
  OBVIOUS
<1>2. s \in Seq(Int) /\ Len(s) = 4 /\ s[2] = b /\ s[3] = c /\ s[4] = d
  BY <1>1
<1>3. PICK p, q, o : p = SubSeq(s, 2, 4) /\ q = SubSeq(s, 3, 4) /\ o = <<e>>
  OBVIOUS
<1>31. p \in Seq(Int) /\ q \in Seq(Int) /\ o \in Seq(Int)
  BY <1>2, <1>3
<1>4. /\ Len(p) = 3 /\ p[1] = b /\ p[2] = c /\ p[3] = d
      /\ Len(q) = 2 /\ q[1] = c /\ q[2] = d
      /\ Len(o) = 1 /\ o[1] = e
  BY <1>2, <1>3, <1>31
<1>5. PICK x, y : x = o \o p /\ y = o \o q
  OBVIOUS
<1>51. x \in Seq(Int) /\ y \in Seq(Int)
  BY <1>31, <1>5
<1>6. /\ Len(x) = 4 /\ x[1] = e /\ x[2] = b /\ x[3] = c /\ x[4] = d
      /\ Len(y) = 3 /\ y[1] = e /\ y[2] = c /\ y[3] = d
  <2>1. Len(x) = Len(o) + Len(p) /\ Len(y) = Len(o) + Len(q)
    BY <1>31, <1>5
  <2>2. /\ \A i \in 1..Len(o) : x[i] = o[i] /\ y[i] = o[i]
        /\ \A i \in 1..Len(p) : x[Len(o) + i] = p[i]
        /\ \A i \in 1..Len(q) : y[Len(o) + i] = q[i]
    BY <1>31, <1>5
  <2>3. x[1] = e /\ y[1] = e
    BY <1>4, <2>2
  <2>4. x[1 + 1] = b /\ x[1 + 2] = c /\ x[1 + 3] = d
    BY <1>4, <2>2
  <2>5. y[1 + 1] = c /\ y[1 + 2] = d
    BY <1>4, <2>2
  <2> QED
    BY <1>4, <2>1, <2>3, <2>4, <2>5
<1>7. x = <<e, b, c, d>>
  <2>1. <<e, b, c, d>> \in Seq(Int) /\ Len(<<e, b, c, d>>) = 4
    OBVIOUS
  <2>2. \A i \in 1..4 : x[i] = <<e, b, c, d>>[i]
    BY <1>6
  <2> QED
    BY <1>51, <1>6, <2>1, <2>2, SameSequence
<1>8. y = <<e, c, d>>
  <2>1. <<e, c, d>> \in Seq(Int) /\ Len(<<e, c, d>>) = 3
    OBVIOUS
  <2>2. \A i \in 1..3 : y[i] = <<e, c, d>>[i]
    BY <1>6
  <2> QED
    BY <1>51, <1>6, <2>1, <2>2, SameSequence
<1> QED
  BY <1>1, <1>3, <1>5, <1>7, <1>8

\* A path of four prices, cut where it first meets the entry: what is left of it when
\* the third leg meets nothing that the second does not.
LEMMA CutAtEntry ==
    ASSUME NEW a \in Int, NEW b \in Int, NEW c \in Int, NEW d \in Int, trade.theoretical \in Int,
           Between(d, b, c)
    PROVE  LET e == trade.theoretical IN
           PathAfterEntry(<<a, b, c, d>>, TRUE) =
               IF Between(e, a, b) THEN <<e, b, c, d>>
               ELSE IF Between(e, b, c) THEN <<e, c, d>> ELSE <<>>
<1> DEFINE e == trade.theoretical
           path == <<a, b, c, d>>
           legs == {i \in 1..(Len(path) - 1) : Between(e, path[i], path[i + 1])}
<1>1. /\ 1 \in legs <=> Between(e, a, b)
      /\ 2 \in legs <=> Between(e, b, c)
      /\ 3 \in legs <=> Between(e, c, d)
      /\ legs \subseteq {1, 2, 3}
  OBVIOUS
<1>2. Between(e, c, d) => Between(e, b, c)
  BY DEF Between
<1>3. PathAfterEntry(path, TRUE) = IF legs = {} THEN <<>> ELSE <<e>> \o SubSeq(path, Min(legs) + 1, 4)
  BY DEF PathAfterEntry
<1> HIDE DEF legs
<1>4. CASE Between(e, a, b)
  <2>1. Min(legs) = 1
    BY <1>1, <1>4, MinIs
  <2>2. Min(legs) + 1 = 2 /\ legs # {}
    BY <1>1, <1>4, <2>1
  <2>3. PathAfterEntry(path, TRUE) = <<e>> \o SubSeq(path, 2, 4)
    BY <1>3, <2>2
  <2>4. <<e>> \o SubSeq(path, 2, 4) = <<e, b, c, d>>
    BY CutPaths
  <2> QED
    BY <1>4, <2>3, <2>4
<1>5. CASE ~Between(e, a, b) /\ Between(e, b, c)
  <2>1. Min(legs) = 2
    BY <1>1, <1>5, MinIs
  <2>2. Min(legs) + 1 = 3 /\ legs # {}
    BY <1>1, <1>5, <2>1
  <2>3. PathAfterEntry(path, TRUE) = <<e>> \o SubSeq(path, 3, 4)
    BY <1>3, <2>2
  <2>4. <<e>> \o SubSeq(path, 3, 4) = <<e, c, d>>
    BY CutPaths
  <2> QED
    BY <1>5, <2>3, <2>4
<1>6. CASE ~Between(e, a, b) /\ ~Between(e, b, c)
  BY <1>1, <1>2, <1>3, <1>6
<1> QED
  BY <1>4, <1>5, <1>6

LEMMA PathsAfterEntry ==
    ASSUME trade \in Trades, NEW bar, IsBar(bar)
    PROVE  LET e == trade.theoretical IN
           /\ PathAfterEntry(HighFirst(bar), TRUE) =
                  IF bar.open <= e /\ e <= bar.high THEN <<e, bar.high, bar.low, bar.close>>
                  ELSE IF bar.low <= e /\ e <= bar.high THEN <<e, bar.low, bar.close>> ELSE <<>>
           /\ PathAfterEntry(LowFirst(bar), TRUE) =
                  IF bar.low <= e /\ e <= bar.open THEN <<e, bar.low, bar.high, bar.close>>
                  ELSE IF bar.low <= e /\ e <= bar.high THEN <<e, bar.high, bar.close>> ELSE <<>>
<1> DEFINE e == trade.theoretical
<1>1. /\ trade.theoretical \in Int
      /\ bar.open \in Int /\ bar.high \in Int /\ bar.low \in Int /\ bar.close \in Int
      /\ bar.low <= bar.open /\ bar.open <= bar.high /\ bar.low <= bar.close /\ bar.close <= bar.high
  BY TradesAssumption DEF IsTrade, IsBar
<1>2. /\ Between(bar.close, bar.high, bar.low) /\ Between(bar.close, bar.low, bar.high)
      /\ Between(e, bar.open, bar.high) <=> bar.open <= e /\ e <= bar.high
      /\ Between(e, bar.open, bar.low) <=> bar.low <= e /\ e <= bar.open
      /\ Between(e, bar.high, bar.low) <=> bar.low <= e /\ e <= bar.high
      /\ Between(e, bar.low, bar.high) <=> bar.low <= e /\ e <= bar.high
  BY <1>1 DEF Between
<1>3. PathAfterEntry(HighFirst(bar), TRUE) =
          IF Between(e, bar.open, bar.high) THEN <<e, bar.high, bar.low, bar.close>>
          ELSE IF Between(e, bar.high, bar.low) THEN <<e, bar.low, bar.close>> ELSE <<>>
  <2>1. Between(bar.close, bar.high, bar.low)
    BY <1>2
  <2>2. PathAfterEntry(<<bar.open, bar.high, bar.low, bar.close>>, TRUE) =
            IF Between(e, bar.open, bar.high) THEN <<e, bar.high, bar.low, bar.close>>
            ELSE IF Between(e, bar.high, bar.low) THEN <<e, bar.low, bar.close>> ELSE <<>>
    BY <1>1, <2>1, CutAtEntry
  <2> QED
    BY <2>2 DEF HighFirst
<1>4. PathAfterEntry(LowFirst(bar), TRUE) =
          IF Between(e, bar.open, bar.low) THEN <<e, bar.low, bar.high, bar.close>>
          ELSE IF Between(e, bar.low, bar.high) THEN <<e, bar.high, bar.close>> ELSE <<>>
  <2>1. Between(bar.close, bar.low, bar.high)
    BY <1>2
  <2>2. PathAfterEntry(<<bar.open, bar.low, bar.high, bar.close>>, TRUE) =
            IF Between(e, bar.open, bar.low) THEN <<e, bar.low, bar.high, bar.close>>
            ELSE IF Between(e, bar.low, bar.high) THEN <<e, bar.high, bar.close>> ELSE <<>>
    BY <1>1, <2>1, CutAtEntry
  <2> QED
    BY <2>2 DEF LowFirst
<1>5. PathAfterEntry(HighFirst(bar), TRUE) =
          IF bar.open <= e /\ e <= bar.high THEN <<e, bar.high, bar.low, bar.close>>
          ELSE IF bar.low <= e /\ e <= bar.high THEN <<e, bar.low, bar.close>> ELSE <<>>
  BY <1>2, <1>3
<1>6. PathAfterEntry(LowFirst(bar), TRUE) =
          IF bar.low <= e /\ e <= bar.open THEN <<e, bar.low, bar.high, bar.close>>
          ELSE IF bar.low <= e /\ e <= bar.high THEN <<e, bar.high, bar.close>> ELSE <<>>
  BY <1>2, <1>4
<1> QED
  BY <1>5, <1>6

\* Between stop and target.
Inside(x, s, g) == Tighter(x, s) /\ Tighter(g, x)

LEMMA LegMissesBoth ==
    ASSUME NEW x \in Int, NEW y \in Int, NEW s \in Int, NEW g \in Int, Inside(x, s, g),
           ~Between(s, x, y), ~Between(g, x, y)
    PROVE  Inside(y, s, g)
  BY DEF Inside, Tighter, Between

LEMMA HitsMean ==
    ASSUME NEW low \in Int, NEW high \in Int, NEW s \in Int, NEW g \in Int
    PROVE  /\ Long => (Hits(low, high, s, g)[1] <=> ~Tighter(low, s))
           /\ Long => (Hits(low, high, s, g)[2] <=> ~Tighter(g, high))
           /\ ~Long => (Hits(low, high, s, g)[1] <=> ~Tighter(high, s))
           /\ ~Long => (Hits(low, high, s, g)[2] <=> ~Tighter(g, low))
<1>1. Long => (Hits(low, high, s, g)[1] <=> low <= s)
  BY Zenon DEF Hits
<1>2. Long => (Hits(low, high, s, g)[2] <=> high >= g)
  BY Zenon DEF Hits
<1>3. ~Long => (Hits(low, high, s, g)[1] <=> high >= s)
  BY Zenon DEF Hits
<1>4. ~Long => (Hits(low, high, s, g)[2] <=> low <= g)
  BY Zenon DEF Hits
<1>5. Long => (low <= s <=> ~Tighter(low, s)) /\ (high >= g <=> ~Tighter(g, high))
  BY DEF Tighter
<1>6. ~Long => (high >= s <=> ~Tighter(high, s)) /\ (low <= g <=> ~Tighter(g, low))
  BY DEF Tighter
<1> QED
  BY <1>1, <1>2, <1>3, <1>4, <1>5, <1>6, Zenon

LEMMA EventFacts ==
    ASSUME NEW p \in Seq(Int), NEW n \in {2, 3, 4}, Len(p) = n, NEW s \in Int, NEW g \in Int
    PROVE  LET event == FirstEvent(p, s, g) IN
           /\ event \in {"SL", "TP", "none"}
           /\ event = "none" => Inside(p[n], s, g)
           /\ event = "SL" => \E i \in 1..n : ~Tighter(p[i], s)
           /\ Tighter(p[1], s) /\ Tighter(p[2], s) /\ ~Tighter(g, p[2]) => event = "TP"
<1> DEFINE event == FirstEvent(p, s, g)
           Legs == {i \in 1..(n - 1) : Between(s, p[i], p[i + 1]) \/ Between(g, p[i], p[i + 1])}
           leg == Min(Legs)
           Stopped(i) == /\ Between(s, p[i], p[i + 1])
                         /\ Between(g, p[i], p[i + 1]) => Distance(s, p[i]) <= Distance(g, p[i])
<1>1. \A i \in 1..n : p[i] \in Int
  OBVIOUS
<1>2. /\ Hits(p[1], p[1], s, g)[1] <=> ~Tighter(p[1], s)
      /\ Hits(p[1], p[1], s, g)[2] <=> ~Tighter(g, p[1])
  <2>1. p[1] \in Int
    BY <1>1
  <2> QED
    BY <2>1, HitsMean
<1>3. event = IF ~Tighter(p[1], s) THEN "SL" ELSE IF ~Tighter(g, p[1]) THEN "TP"
              ELSE IF Legs = {} THEN "none" ELSE IF Stopped(leg) THEN "SL" ELSE "TP"
  BY <1>2 DEF FirstEvent
<1>4. \A i \in Legs : i \in {1, 2, 3} /\ i \in 1..n /\ i + 1 \in 1..n
  OBVIOUS
<1>5. Legs # {} => leg \in Legs /\ \A i \in Legs : leg <= i
  <2>1. Legs \subseteq {1, 2, 3}
    BY <1>4
  <2> HIDE DEF Legs
  <2>2. ASSUME NEW i \in Legs PROVE Min(Legs) \in Legs /\ \A j \in Legs : Min(Legs) <= j
    <3>1. Legs \in SUBSET Int
      BY <2>1
    <3>2. \E j \in Legs : \A k \in Legs : j <= k
      BY <2>1, <2>2
    <3> QED
      BY <3>2 DEF Min
  <2> QED
    BY <2>2
<1> HIDE DEF event, leg
<1>6. event \in {"SL", "TP", "none"}
  BY <1>3
<1>7. ASSUME event = "none" PROVE Inside(p[n], s, g)
  <2>1. Inside(p[1], s, g) /\ Legs = {}
    BY <1>3, <1>7 DEF Inside
  <2>2. ASSUME NEW i \in 1..(n - 1), Inside(p[i], s, g) PROVE Inside(p[i + 1], s, g)
    <3>1. p[i] \in Int /\ p[i + 1] \in Int
      BY <1>1
    <3>2. ~Between(s, p[i], p[i + 1]) /\ ~Between(g, p[i], p[i + 1])
      BY <2>1
    <3> QED
      BY <2>2, <3>1, <3>2, LegMissesBoth
  <2>3. Inside(p[1 + 1], s, g)
    BY <2>1, <2>2
  <2>4. CASE n = 2
    BY <2>3, <2>4
  <2>5. CASE n = 3
    <3>1. Inside(p[2 + 1], s, g)
      BY <2>2, <2>3, <2>5
    <3> QED
      BY <2>5, <3>1
  <2>6. CASE n = 4
    <3>1. Inside(p[2 + 1], s, g)
      BY <2>2, <2>3, <2>6
    <3>2. Inside(p[3 + 1], s, g)
      BY <2>2, <3>1, <2>6
    <3> QED
      BY <2>6, <3>2
  <2> QED
    BY <2>4, <2>5, <2>6
<1>8. ASSUME event = "SL" PROVE \E i \in 1..n : ~Tighter(p[i], s)
  <2>1. CASE ~Tighter(p[1], s)
    BY <2>1
  <2>2. CASE leg \in Legs /\ Between(s, p[leg], p[leg + 1])
    <3>1. leg \in 1..n /\ leg + 1 \in 1..n
      BY <1>4, <2>2
    <3>2. ~Tighter(p[leg], s) \/ ~Tighter(p[leg + 1], s)
      BY <1>1, <2>2, <3>1 DEF Tighter, Between
    <3> QED
      BY <3>1, <3>2
  <2> QED
    BY <1>3, <1>5, <1>8, <2>1, <2>2
<1>9. ASSUME Tighter(p[1], s), Tighter(p[2], s), ~Tighter(g, p[2]) PROVE event = "TP"
  <2>1. p[1] \in Int /\ p[1 + 1] \in Int /\ p[2] = p[1 + 1]
    BY <1>1
  <2>2. CASE Tighter(g, p[1])
    <3>1. Between(g, p[1], p[1 + 1]) /\ ~Between(s, p[1], p[1 + 1])
      BY <1>9, <2>1, <2>2 DEF Tighter, Between
    <3>2. 1 \in Legs
      BY <3>1
    <3>3. leg = 1
      BY <1>4, <1>5, <3>2
    <3>4. ~Stopped(leg)
      BY <3>1, <3>3
    <3> QED
      BY <1>3, <1>9, <3>2, <3>4
  <2> QED
    BY <1>3, <1>9, <2>2
<1> QED
  BY <1>6, <1>7, <1>8, <1>9 DEF event

LEMMA Extremes ==
    ASSUME NEW p \in Seq(Int), NEW n \in {2, 3, 4}, Len(p) = n
    PROVE  LET S == {p[i] : i \in DOMAIN p} IN
           /\ Min(S) \in Int /\ Max(S) \in Int
           /\ \A i \in 1..n : p[i] \in Int /\ Min(S) <= p[i] /\ p[i] <= Max(S)
           /\ \E i \in 1..n : Min(S) = p[i]
           /\ \E i \in 1..n : Max(S) = p[i]
<1> DEFINE S == {p[i] : i \in DOMAIN p}
<1>1. S = {p[i] : i \in 1..n} /\ \A i \in 1..n : p[i] \in Int
  OBVIOUS
<1>2. PICK c \in Int, d \in Int : S = {p[1], p[2], c, d} /\ p[1] \in Int /\ p[2] \in Int
  <2>1. CASE n = 2
    BY <1>1, <2>1
  <2>2. CASE n = 3
    BY <1>1, <2>2
  <2>3. CASE n = 4
    BY <1>1, <2>3
  <2> QED
    BY <2>1, <2>2, <2>3
<1>3. (\E x \in S : \A y \in S : x <= y) /\ (\E x \in S : \A y \in S : x >= y)
  <2> HIDE DEF S
  <2>1. PICK a \in Int, b \in Int : a = p[1] /\ b = p[2]
    BY <1>2
  <2>2. S = {a, b, c, d}
    BY <1>2, <2>1
  <2>3. \E x \in {a, b, c, d} : x <= a /\ x <= b /\ x <= c /\ x <= d
    OBVIOUS
  <2>4. \E x \in {a, b, c, d} : x >= a /\ x >= b /\ x >= c /\ x >= d
    OBVIOUS
  <2> QED
    BY <2>2, <2>3, <2>4
<1>4. /\ Min(S) \in S /\ \A y \in S : Min(S) <= y
      /\ Max(S) \in S /\ \A y \in S : Max(S) >= y
  BY <1>3 DEF Min, Max
<1> HIDE DEF S
<1>5. /\ Min(S) \in Int /\ Max(S) \in Int
      /\ (\E i \in 1..n : Min(S) = p[i]) /\ \E i \in 1..n : Max(S) = p[i]
  BY <1>1, <1>4
<1>6. ASSUME NEW i \in 1..n PROVE p[i] \in Int /\ Min(S) <= p[i] /\ p[i] <= Max(S)
  <2>1. p[i] \in S /\ p[i] \in Int
    BY <1>1
  <2> QED
    BY <1>4, <1>5, <2>1
<1> QED
  BY <1>5, <1>6 DEF S

\* A path meets a stop or a target if one of its prices does.
LEMMA PathHits ==
    ASSUME NEW p \in Seq(Int), NEW n \in {2, 3, 4}, Len(p) = n, NEW s \in Int, NEW g \in Int
    PROVE  LET S == {p[i] : i \in DOMAIN p}
               hits == Hits(Min(S), Max(S), s, g)
           IN  /\ hits[1] <=> \E i \in 1..n : ~Tighter(p[i], s)
               /\ hits[2] <=> \E i \in 1..n : ~Tighter(g, p[i])
<1>1. PICK lo, hi : lo = Min({p[i] : i \in DOMAIN p}) /\ hi = Max({p[i] : i \in DOMAIN p})
  OBVIOUS
<1>2. /\ lo \in Int /\ hi \in Int
      /\ \A i \in 1..n : p[i] \in Int /\ lo <= p[i] /\ p[i] <= hi
      /\ \E i \in 1..n : lo = p[i]
      /\ \E i \in 1..n : hi = p[i]
  BY <1>1, Extremes
<1>3. CASE Long
  <2>1. /\ ~Tighter(lo, s) <=> \E i \in 1..n : ~Tighter(p[i], s)
        /\ ~Tighter(g, hi) <=> \E i \in 1..n : ~Tighter(g, p[i])
    BY <1>2, <1>3 DEF Tighter
  <2>2. /\ Hits(lo, hi, s, g)[1] <=> ~Tighter(lo, s)
        /\ Hits(lo, hi, s, g)[2] <=> ~Tighter(g, hi)
    BY <1>2, <1>3, HitsMean
  <2> QED
    BY <1>1, <2>1, <2>2, Zenon
<1>4. CASE ~Long
  <2>1. /\ ~Tighter(hi, s) <=> \E i \in 1..n : ~Tighter(p[i], s)
        /\ ~Tighter(g, lo) <=> \E i \in 1..n : ~Tighter(g, p[i])
    BY <1>2, <1>4 DEF Tighter
  <2>2. /\ Hits(lo, hi, s, g)[1] <=> ~Tighter(hi, s)
        /\ Hits(lo, hi, s, g)[2] <=> ~Tighter(g, lo)
    BY <1>2, <1>4, HitsMean
  <2> QED
    BY <1>1, <2>1, <2>2, Zenon
<1> QED
  BY <1>3, <1>4

\* A bar that reaches neither is between the two.
LEMMA BarHits ==
    ASSUME NEW bar, IsBar(bar), NEW s \in Int, NEW g \in Int
    PROVE  LET whole == Hits(bar.low, bar.high, s, g) IN
           /\ whole[1] <=> ~Tighter(bar.low, s) \/ ~Tighter(bar.high, s)
           /\ whole[2] <=> ~Tighter(g, bar.low) \/ ~Tighter(g, bar.high)
           /\ ~whole[1] /\ ~whole[2] => Inside(bar.close, s, g)
<1>1. /\ bar.low \in Int /\ bar.high \in Int /\ bar.close \in Int
      /\ bar.low <= bar.close /\ bar.close <= bar.high
  BY DEF IsBar
<1>2. CASE Long
  <2>1. /\ Hits(bar.low, bar.high, s, g)[1] <=> ~Tighter(bar.low, s)
        /\ Hits(bar.low, bar.high, s, g)[2] <=> ~Tighter(g, bar.high)
    BY <1>1, <1>2, HitsMean
  <2>2. /\ ~Tighter(bar.high, s) => ~Tighter(bar.low, s)
        /\ ~Tighter(g, bar.low) => ~Tighter(g, bar.high)
        /\ Tighter(bar.low, s) /\ Tighter(g, bar.high) => Inside(bar.close, s, g)
    BY <1>1, <1>2 DEF Tighter, Inside
  <2> QED
    BY <2>1, <2>2, Zenon
<1>3. CASE ~Long
  <2>1. /\ Hits(bar.low, bar.high, s, g)[1] <=> ~Tighter(bar.high, s)
        /\ Hits(bar.low, bar.high, s, g)[2] <=> ~Tighter(g, bar.low)
    BY <1>1, <1>3, HitsMean
  <2>2. /\ ~Tighter(bar.low, s) => ~Tighter(bar.high, s)
        /\ ~Tighter(g, bar.high) => ~Tighter(g, bar.low)
        /\ Tighter(bar.high, s) /\ Tighter(g, bar.low) => Inside(bar.close, s, g)
    BY <1>1, <1>3 DEF Tighter, Inside
  <2> QED
    BY <2>1, <2>2, Zenon
<1> QED
  BY <1>2, <1>3

\* A path through a bar, whole or after the entry, ends at its close.
Through(p, bar) == \E n \in {3, 4} : p \in Seq(Int) /\ Len(p) = n /\ p[n] = bar.close

LEMMA PathsThrough ==
    ASSUME trade \in Trades, NEW bar, IsBar(bar)
    PROVE  /\ Through(HighFirst(bar), bar) /\ Through(LowFirst(bar), bar)
           /\ trade.theoretical \in bar.low..bar.high =>
                  /\ Through(PathAfterEntry(HighFirst(bar), TRUE), bar)
                  /\ Through(PathAfterEntry(LowFirst(bar), TRUE), bar)
           /\ trade.theoretical \notin bar.low..bar.high =>
                  /\ PathAfterEntry(HighFirst(bar), TRUE) = <<>>
                  /\ PathAfterEntry(LowFirst(bar), TRUE) = <<>>
           /\ ~Through(<<>>, bar)
<1>1. PICK e \in Int, o \in Int, h \in Int, l \in Int, c \in Int :
          /\ e = trade.theoretical /\ o = bar.open /\ h = bar.high /\ l = bar.low /\ c = bar.close
          /\ l <= o /\ o <= h
  BY TradesAssumption DEF IsTrade, IsBar
<1>2. ASSUME NEW x \in Int, NEW y \in Int, NEW z \in Int
      PROVE  Through(<<x, y, z, c>>, bar) /\ Through(<<x, y, c>>, bar)
  <2>1. <<x, y, z, c>> \in Seq(Int) /\ Len(<<x, y, z, c>>) = 4 /\ <<x, y, z, c>>[4] = bar.close
    BY <1>1
  <2>2. <<x, y, c>> \in Seq(Int) /\ Len(<<x, y, c>>) = 3 /\ <<x, y, c>>[3] = bar.close
    BY <1>1
  <2>3. \E n \in {3, 4} : <<x, y, z, c>> \in Seq(Int) /\ Len(<<x, y, z, c>>) = n /\ <<x, y, z, c>>[n] = bar.close
    BY <2>1
  <2>4. \E n \in {3, 4} : <<x, y, c>> \in Seq(Int) /\ Len(<<x, y, c>>) = n /\ <<x, y, c>>[n] = bar.close
    BY <2>2
  <2> QED
    BY <2>3, <2>4 DEF Through
<1>3. HighFirst(bar) = <<o, h, l, c>> /\ LowFirst(bar) = <<o, l, h, c>>
  BY <1>1 DEF HighFirst, LowFirst
<1>4. /\ PathAfterEntry(HighFirst(bar), TRUE) = IF o <= e /\ e <= h THEN <<e, h, l, c>>
                                                ELSE IF l <= e /\ e <= h THEN <<e, l, c>> ELSE <<>>
      /\ PathAfterEntry(LowFirst(bar), TRUE) = IF l <= e /\ e <= o THEN <<e, l, h, c>>
                                               ELSE IF l <= e /\ e <= h THEN <<e, h, c>> ELSE <<>>
  BY <1>1, PathsAfterEntry
<1>5. Through(HighFirst(bar), bar) /\ Through(LowFirst(bar), bar)
  BY <1>2, <1>3
<1>6. ASSUME l <= e, e <= h
      PROVE  /\ Through(PathAfterEntry(HighFirst(bar), TRUE), bar)
             /\ Through(PathAfterEntry(LowFirst(bar), TRUE), bar)
  <2>1. PathAfterEntry(HighFirst(bar), TRUE) \in {<<e, h, l, c>>, <<e, l, c>>}
    BY <1>4, <1>6
  <2>2. PathAfterEntry(LowFirst(bar), TRUE) \in {<<e, l, h, c>>, <<e, h, c>>}
    BY <1>4, <1>6
  <2> QED
    BY <1>2, <2>1, <2>2
<1>7. ASSUME ~(l <= e /\ e <= h)
      PROVE  PathAfterEntry(HighFirst(bar), TRUE) = <<>> /\ PathAfterEntry(LowFirst(bar), TRUE) = <<>>
  <2>1. ~(o <= e /\ e <= h) /\ ~(l <= e /\ e <= o)
    BY <1>1, <1>7
  <2> QED
    BY <1>4, <1>7, <2>1
<1>8. ~Through(<<>>, bar)
  BY DEF Through
<1>9. trade.theoretical \in bar.low..bar.high <=> l <= e /\ e <= h
  BY <1>1
<1> QED
  BY <1>5, <1>6, <1>7, <1>8, <1>9

-----------------------------------------------------------------------------
(* The two models                                                           *)

\* The paths of a bar after the entry on it.
After(bar) == {PathAfterEntry(p, TRUE) : p \in {HighFirst(bar), LowFirst(bar)}} \ {<<>>}

Met(p, s)     == \E i \in DOMAIN p : ~Tighter(p[i], s)
Reached(p, g) == \E i \in DOMAIN p : ~Tighter(g, p[i])

LEMMA AfterFacts ==
    ASSUME trade \in Trades, NEW bar, IsBar(bar)
    PROVE  /\ trade.theoretical \in bar.low..bar.high =>
                  After(bar) = {PathAfterEntry(HighFirst(bar), TRUE), PathAfterEntry(LowFirst(bar), TRUE)}
           /\ trade.theoretical \notin bar.low..bar.high => After(bar) = {}
           /\ \A p \in After(bar) : Through(p, bar)
<1>1. CASE trade.theoretical \in bar.low..bar.high
  <2>1. PICK h, l : h = PathAfterEntry(HighFirst(bar), TRUE) /\ l = PathAfterEntry(LowFirst(bar), TRUE)
    OBVIOUS
  <2>2. Through(h, bar) /\ Through(l, bar) /\ h # <<>> /\ l # <<>>
    BY <1>1, <2>1, PathsThrough
  <2>3. After(bar) = {h, l}
    BY <2>1, <2>2 DEF After
  <2> QED
    BY <1>1, <2>1, <2>2, <2>3
<1>2. CASE trade.theoretical \notin bar.low..bar.high
  <2>1. After(bar) = {}
    BY <1>2, PathsThrough DEF After
  <2> QED
    BY <1>2, <2>1
<1> QED
  BY <1>1, <1>2

LEMMA ThroughHits ==
    ASSUME NEW bar, NEW p, Through(p, bar), NEW s \in Int, NEW g \in Int
    PROVE  LET hits == Hits(Min({p[i] : i \in DOMAIN p}), Max({p[i] : i \in DOMAIN p}), s, g) IN
           /\ hits[1] <=> Met(p, s)
           /\ hits[2] <=> Reached(p, g)
           /\ Met(p, s) \/ Tighter(bar.close, s)
           /\ Reached(p, g) \/ Tighter(g, bar.close)
<1>1. PICK n \in {3, 4} : p \in Seq(Int) /\ Len(p) = n /\ p[n] = bar.close
  BY DEF Through
<1>2. DOMAIN p = 1..n /\ n \in 1..n
  BY <1>1
<1>3. LET hits == Hits(Min({p[i] : i \in DOMAIN p}), Max({p[i] : i \in DOMAIN p}), s, g) IN
      /\ hits[1] <=> \E i \in 1..n : ~Tighter(p[i], s)
      /\ hits[2] <=> \E i \in 1..n : ~Tighter(g, p[i])
  BY <1>1, PathHits
<1> QED
  BY <1>1, <1>2, <1>3, Zenon DEF Met, Reached

\* _sl_first_hits_after_entry
LEMMA SlFirstMeans ==
    ASSUME trade \in Trades, NEW bar, IsBar(bar), NEW s \in Int, NEW g \in Int
    PROVE  LET whole == Hits(bar.low, bar.high, s, g) IN
           /\ SlFirst(bar, FALSE, s, g) = IF whole[1] THEN "SL" ELSE IF whole[2] THEN "TP" ELSE "none"
           /\ ~whole[1] /\ ~whole[2] => SlFirst(bar, TRUE, s, g) = "none"
           /\ SlFirst(bar, TRUE, s, g) = "none" =>
                  \/ ~whole[1] /\ ~whole[2]
                  \/ After(bar) = {}
                  \/ (\E p \in After(bar) : ~Met(p, s)) /\ \E p \in After(bar) : ~Reached(p, g)
           /\ SlFirst(bar, TRUE, s, g) = "TP" =>
                  /\ \E p \in After(bar) : ~Met(p, s)
                  /\ \A p \in After(bar) : Reached(p, g)
<1> DEFINE whole == Hits(bar.low, bar.high, s, g)
           HitsOn(p) == Hits(Min({p[i] : i \in DOMAIN p}), Max({p[i] : i \in DOMAIN p}), s, g)
           all(k) == After(bar) # {} /\ \A p \in After(bar) : HitsOn(p)[k]
<1>1. SlFirst(bar, FALSE, s, g) = IF whole[1] THEN "SL" ELSE IF whole[2] THEN "TP" ELSE "none"
  BY DEF SlFirst
<1>2. SlFirst(bar, TRUE, s, g) =
          IF ~whole[1] /\ ~whole[2] THEN "none"
          ELSE IF <<all(1), all(2)>>[1] THEN "SL" ELSE IF <<all(1), all(2)>>[2] THEN "TP" ELSE "none"
  BY DEF SlFirst, After
<1>3. (<<all(1), all(2)>>[1] <=> all(1)) /\ (<<all(1), all(2)>>[2] <=> all(2))
  BY Zenon
<1> HIDE DEF whole
<1>0. \A p \in After(bar) : (HitsOn(p)[1] <=> Met(p, s)) /\ (HitsOn(p)[2] <=> Reached(p, g))
  <2> SUFFICES ASSUME NEW p \in After(bar) PROVE (HitsOn(p)[1] <=> Met(p, s)) /\ (HitsOn(p)[2] <=> Reached(p, g))
    OBVIOUS
  <2>1. Through(p, bar)
    BY AfterFacts
  <2> QED
    BY <2>1, ThroughHits
<1> HIDE DEF HitsOn
<1>4. /\ all(1) <=> After(bar) # {} /\ \A p \in After(bar) : Met(p, s)
      /\ all(2) <=> After(bar) # {} /\ \A p \in After(bar) : Reached(p, g)
  BY <1>0, Zenon
<1> HIDE DEF all
<1> QED
  BY <1>1, <1>2, <1>3, <1>4 DEF whole

\* A bar on which sl_first finds neither has closed between stop and target.
LEMMA SlFirstMisses ==
    ASSUME trade \in Trades, NEW bar, IsBar(bar), NEW s \in Int, NEW g \in Int, NEW activated \in BOOLEAN,
           activated => trade.theoretical \in bar.low..bar.high,
           SlFirst(bar, activated, s, g) = "none"
    PROVE  Inside(bar.close, s, g)
<1> DEFINE whole == Hits(bar.low, bar.high, s, g)
<1>1. CASE ~whole[1] /\ ~whole[2]
  BY <1>1, BarHits
<1>2. CASE ~activated
  <2>1. SlFirst(bar, FALSE, s, g) = "none"
    BY <1>2
  <2>2. ~whole[1] /\ ~whole[2]
    BY <2>1, SlFirstMeans
  <2> QED
    BY <2>2, BarHits
<1>3. CASE activated /\ ~(~whole[1] /\ ~whole[2])
  <2>1. SlFirst(bar, TRUE, s, g) = "none" /\ After(bar) # {}
    BY <1>3, AfterFacts
  <2>2. (\E p \in After(bar) : ~Met(p, s)) /\ \E p \in After(bar) : ~Reached(p, g)
    BY <1>3, <2>1, SlFirstMeans
  <2>3. PICK p \in After(bar), q \in After(bar) : ~Met(p, s) /\ ~Reached(q, g)
    BY <2>2
  <2>4. Through(p, bar) /\ Through(q, bar)
    BY AfterFacts
  <2>5. Tighter(bar.close, s)
    BY <2>3, <2>4, ThroughHits
  <2>6. Tighter(g, bar.close)
    BY <2>3, <2>4, ThroughHits
  <2> QED
    BY <2>5, <2>6 DEF Inside
<1> QED
  BY <1>1, <1>2, <1>3

\* The paths resolve_ohlc_bar follows: the nearer extreme comes first, both when they are as near.
PathsOf(bar, activated) ==
    LET up == bar.high - bar.open
        down == bar.open - bar.low
    IN  {PathAfterEntry(p, activated) :
            p \in (IF up <= down THEN {HighFirst(bar)} ELSE {})
                  \cup (IF down <= up THEN {LowFirst(bar)} ELSE {})} \ {<<>>}

LEMMA PathsOfFacts ==
    ASSUME trade \in Trades, NEW bar, IsBar(bar), NEW activated \in BOOLEAN
    PROVE  /\ \A p \in PathsOf(bar, activated) : Through(p, bar)
           /\ activated => PathsOf(bar, activated) \subseteq After(bar)
           /\ (activated => trade.theoretical \in bar.low..bar.high) => PathsOf(bar, activated) # {}
<1> DEFINE up == bar.high - bar.open
           down == bar.open - bar.low
           whole == (IF up <= down THEN {HighFirst(bar)} ELSE {})
                    \cup (IF down <= up THEN {LowFirst(bar)} ELSE {})
<1>1. whole # {} /\ whole \subseteq {HighFirst(bar), LowFirst(bar)}
  <2>1. up \in Int /\ down \in Int
    BY DEF IsBar
  <2> HIDE DEF up, down
  <2> QED
    BY <2>1
<1> HIDE DEF whole
<1>2. PathsOf(bar, activated) = {PathAfterEntry(p, activated) : p \in whole} \ {<<>>}
  BY DEF PathsOf, whole
<1>3. CASE ~activated
  <2>1. \A p : PathAfterEntry(p, activated) = p
    BY <1>3 DEF PathAfterEntry
  <2>2. Through(HighFirst(bar), bar) /\ Through(LowFirst(bar), bar) /\ ~Through(<<>>, bar)
    BY PathsThrough
  <2>3. PathsOf(bar, activated) = whole
    BY <1>1, <1>2, <2>1, <2>2
  <2> QED
    BY <1>1, <1>3, <2>2, <2>3
<1>4. CASE activated
  <2>0. PathsOf(bar, activated) = {PathAfterEntry(p, TRUE) : p \in whole} \ {<<>>}
    BY <1>2, <1>4
  <2>1. PathsOf(bar, activated) \subseteq After(bar)
    BY <1>1, <2>0 DEF After
  <2>2. ASSUME trade.theoretical \in bar.low..bar.high PROVE PathsOf(bar, activated) # {}
    <3>1. PICK p \in whole : p \in {HighFirst(bar), LowFirst(bar)}
      BY <1>1
    <3>2. PathAfterEntry(p, TRUE) # <<>>
      BY <2>2, <3>1, PathsThrough
    <3> QED
      BY <2>0, <3>1, <3>2
  <2> QED
    BY <1>4, <2>1, <2>2, AfterFacts
<1> QED
  BY <1>3, <1>4

\* One path through a bar.
LEMMA OnePath ==
    ASSUME NEW bar, NEW p, Through(p, bar), NEW s \in Int, NEW g \in Int
    PROVE  LET event == FirstEvent(p, s, g) IN
           /\ event \in {"SL", "TP", "none"}
           /\ event = "none" => Inside(bar.close, s, g)
           /\ event = "SL" => Met(p, s)
<1>1. PICK n \in {3, 4} : p \in Seq(Int) /\ Len(p) = n /\ p[n] = bar.close
  BY DEF Through
<1>2. n \in {2, 3, 4} /\ DOMAIN p = 1..n
  BY <1>1
<1>3. LET event == FirstEvent(p, s, g) IN
      /\ event \in {"SL", "TP", "none"}
      /\ event = "none" => Inside(p[n], s, g)
      /\ event = "SL" => \E i \in 1..n : ~Tighter(p[i], s)
  BY <1>1, <1>2, EventFacts
<1> QED
  BY <1>1, <1>2, <1>3 DEF Met

LEMMA OnPathMeans ==
    ASSUME NEW bar, NEW s \in Int, NEW g \in Int, NEW activated \in BOOLEAN
    PROVE  LET whole == Hits(bar.low, bar.high, s, g)
               events == {FirstEvent(p, s, g) : p \in PathsOf(bar, activated)}
           IN  OnPath(bar, activated, s, g) =
                   IF ~whole[1] /\ ~whole[2] THEN "none"
                   ELSE IF ~(whole[1] /\ whole[2]) /\ ~activated THEN IF whole[1] THEN "SL" ELSE "TP"
                   ELSE IF "SL" \in events THEN "SL"
                   ELSE IF events = {"TP"} THEN "TP" ELSE "none"
  BY DEF OnPath, PathsOf

\* And so has a bar on which path_open_proximity finds neither.
LEMMA OnPathMisses ==
    ASSUME trade \in Trades, NEW bar, IsBar(bar), NEW s \in Int, NEW g \in Int, NEW activated \in BOOLEAN,
           activated => trade.theoretical \in bar.low..bar.high,
           OnPath(bar, activated, s, g) = "none"
    PROVE  Inside(bar.close, s, g)
<1> DEFINE whole == Hits(bar.low, bar.high, s, g)
           events == {FirstEvent(p, s, g) : p \in PathsOf(bar, activated)}
<1>1. CASE ~whole[1] /\ ~whole[2]
  BY <1>1, BarHits
<1>2. CASE ~(~whole[1] /\ ~whole[2])
  <2>1. "SL" \notin events /\ events # {"TP"}
    BY <1>2, OnPathMeans
  <2>2. PathsOf(bar, activated) # {} /\ \A p \in PathsOf(bar, activated) : Through(p, bar)
    BY PathsOfFacts
  <2>3. events \subseteq {"SL", "TP", "none"}
    BY <2>2, OnePath
  <2>4. events # {}
    BY <2>2
  <2>5. "none" \in events
    <3> HIDE DEF events
    <3> QED
      BY <2>1, <2>3, <2>4
  <2>6. PICK p \in PathsOf(bar, activated) : FirstEvent(p, s, g) = "none"
    BY <2>5
  <2> QED
    BY <2>2, <2>6, OnePath
<1> QED
  BY <1>1, <1>2

LEMMA ResolveMisses ==
    ASSUME trade \in Trades, NEW bar, IsBar(bar), NEW s \in Int, NEW g \in Int, NEW b \in Nat,
           Activated(b) => trade.theoretical \in bar.low..bar.high,
           Resolve(bar, b, s, g) = "none"
    PROVE  Inside(bar.close, s, g)
<1>1. PICK activated \in BOOLEAN : activated = Activated(b)
  BY DEF Activated
<1>2. activated => trade.theoretical \in bar.low..bar.high
  BY <1>1
<1>3. SlFirst(bar, activated, s, g) = "none" \/ OnPath(bar, activated, s, g) = "none"
  BY <1>1 DEF Resolve
<1> QED
  BY <1>2, <1>3, SlFirstMisses, OnPathMisses

\* The bars of ForcedExitMissesNothing.
Walkable(bar, b) == b >= Start /\ (Activated(b) => trade.theoretical \in bar.low..bar.high)

\* A trade that is still open after its last bar stands between stop and target there.
LastBarMissed ==
    exit = Open /\ Len(seen) = Cap /\ Walkable(seen[Cap], Cap) =>
        Inside(seen[Cap].close, stop.effective, Target)

ForcedOut(e) == e.reason \in {"TIME", "SESSION_CLOSE", "EOD"}

MissInv == TypeOK /\ LastBarMissed /\ ForcedExitMissesNothing

LEMMA PricesAreWhole ==
    ASSUME TypeOK
    PROVE  stop.effective \in Int /\ Target \in Int
<1>1. trade.tp_pts \in Int /\ Entry \in Int
  BY TradesAssumption, TradePrices DEF TypeOK, IsTrade
<1> QED
  BY <1>1 DEF TypeOK, Stops, Target

LEMMA MissStep == MissInv /\ [Next]_vars => MissInv'
<1> SUFFICES ASSUME MissInv, [Next]_vars PROVE MissInv'
  OBVIOUS
<1>1. TypeOK /\ TypeOK' /\ trade' = trade
  BY TypeStep, StopStep DEF MissInv, TypeOK, StopTyped
<1>2. Cap' = Cap /\ Start' = Start /\ Target' = Target /\ Cap \in Nat \ {0} /\ Start \in {1, 2}
  BY <1>1, CapFacts DEF TypeOK, Cap, Start, Target, Entry, Long
<1>31. LastBarMissed' <=> (exit' = Open /\ Len(seen') = Cap /\ Walkable(seen'[Cap], Cap) =>
                               Inside(seen'[Cap].close, stop'.effective, Target))
  BY <1>1, <1>2 DEF LastBarMissed, Walkable, Activated, Inside, Tighter, Long, Open
<1>32. ForcedExitMissesNothing' <=> (ForcedOut(exit') /\ Walkable(seen'[exit'.bar], exit'.bar) =>
                                         Inside(exit'.price, stop'.effective, Target))
  BY <1>1, <1>2 DEF ForcedExitMissesNothing, ForcedOut, Walkable, Activated, Inside, Tighter, Long
<1>3. /\ LastBarMissed' <=> (exit' = Open /\ Len(seen') = Cap /\ Walkable(seen'[Cap], Cap) =>
                                  Inside(seen'[Cap].close, stop'.effective, Target))
      /\ ForcedExitMissesNothing' <=> (ForcedOut(exit') /\ Walkable(seen'[exit'.bar], exit'.bar) =>
                                            Inside(exit'.price, stop'.effective, Target))
  BY <1>31, <1>32
<1>4. ASSUME NEW bar \in Bars, PassEntryBar(bar)
      PROVE  LastBarMissed' /\ ForcedExitMissesNothing'
  <2>1. Draw(bar) /\ Len(seen) = 0 /\ Start = 2 /\ exit' = Open
    BY <1>4 DEF PassEntryBar, Draw
  <2>2. Len(seen') = 1
    BY <1>1, <2>1, DrawFacts
  <2>3. Len(seen') = Cap => ~Walkable(seen'[Cap], Cap)
    BY <2>1, <2>2 DEF Walkable
  <2> QED
    BY <1>3, <2>1, <2>3 DEF Open, ForcedOut
<1>5. ASSUME NEW bar \in Bars, WalkBar(bar)
      PROVE  LastBarMissed' /\ ForcedExitMissesNothing'
  <2> DEFINE kind == Resolve(bar, Len(seen) + 1, stop.effective, Target)
  <2>1. Draw(bar) /\ exit = Open
    BY <1>5 DEF WalkBar, Draw
  <2>2. Len(seen') = Len(seen) + 1 /\ seen'[Len(seen) + 1] = bar /\ IsBar(bar)
    BY <1>1, <2>1, DrawFacts, BarsAssumption DEF Draw, TypeOK
  <2>3. CASE kind = "none"
    <3>1. exit' = Open
      BY <1>5, <2>1, <2>3 DEF WalkBar
    <3>2. ASSUME Len(seen') = Cap, Walkable(seen'[Cap], Cap)
          PROVE  Inside(seen'[Cap].close, stop'.effective, Target)
      <4>1. Len(seen) + 1 = Cap /\ seen'[Cap] = bar
        BY <2>2, <3>2
      <4>2. stop' = stop
        BY <1>2, <1>5, <2>3, <4>1 DEF WalkBar, MovesStop
      <4>3. Inside(bar.close, stop.effective, Target)
        <5>1. Activated(Cap) => trade.theoretical \in bar.low..bar.high
          BY <3>2, <4>1 DEF Walkable
        <5>2. Resolve(bar, Cap, stop.effective, Target) = "none"
          BY <2>3, <4>1
        <5> QED
          BY <1>1, <1>2, <2>2, <5>1, <5>2, PricesAreWhole, ResolveMisses DEF TypeOK
      <4> QED
        BY <4>1, <4>2, <4>3
    <3> QED
      BY <1>3, <3>1, <3>2 DEF Open, ForcedOut
  <2>4. CASE kind # "none"
    <3>1. /\ exit'.bar = Len(seen) + 1 /\ exit'.reason = HitReason(kind)
          /\ stop.reason \in {"SL", "BE", "TRAIL"}
      BY <1>1, <1>5, <2>4 DEF WalkBar, TypeOK, Stops
    <3>2. exit' # Open /\ ~ForcedOut(exit')
      BY <1>1, <3>1 DEF ForcedOut, HitReason, Open, TypeOK
    <3> QED
      BY <1>3, <3>2
  <2> QED
    BY <2>3, <2>4
<1>6. CASE ForceExit
  <2>1. /\ exit = Open /\ Len(seen) = Cap /\ exit' # Open
        /\ exit'.bar = Cap /\ exit'.price = seen[Cap].close
        /\ UNCHANGED <<seen, stop>>
    BY <1>2, <1>6 DEF ForceExit, Open
  <2>2. Walkable(seen[Cap], Cap) => Inside(seen[Cap].close, stop.effective, Target)
    BY <2>1 DEF MissInv, LastBarMissed
  <2> QED
    BY <1>1, <1>3, <2>1, <2>2 DEF MissInv
<1>7. CASE UNCHANGED vars
  <2>1. UNCHANGED <<trade, seen, stop, excursion, exit>>
    BY <1>7 DEF vars
  <2>2. LastBarMissed
    BY DEF MissInv
  <2>3. LastBarMissed'
    BY <1>3, <2>1, <2>2 DEF LastBarMissed
  <2>4. ForcedExitMissesNothing
    BY DEF MissInv
  <2>5. ForcedExitMissesNothing'
    BY <1>3, <2>1, <2>4 DEF ForcedExitMissesNothing, ForcedOut, Walkable, Inside
  <2> QED
    BY <1>1, <2>3, <2>5 DEF MissInv
<1> QED
  BY <1>1, <1>4, <1>5, <1>6, <1>7 DEF Next, MissInv

\* Whatever the bars, the stops and the model, a trade that the clock closes was between
\* its stop and its target on every path through its last bar: walk_trade_exit never forces
\* out a trade whose bracket resolve_ohlc_bar should have found.
THEOREM ClocksCloseWhatNothingHit == Spec => []ForcedExitMissesNothing
<1>1. Init => MissInv
  <2> SUFFICES ASSUME Init PROVE MissInv
    OBVIOUS
  <2>1. TypeOK /\ Cap \in Nat \ {0}
    BY TypeInit, CapFacts DEF TypeOK
  <2>2. Len(seen) = 0 /\ exit = Open
    BY DEF Init
  <2> QED
    BY <2>1, <2>2 DEF MissInv, LastBarMissed, ForcedExitMissesNothing, Open
<1>2. MissInv => ForcedExitMissesNothing
  BY DEF MissInv
<1> QED
  BY <1>1, <1>2, MissStep, PTL DEF Spec

-----------------------------------------------------------------------------
(* sl_first is never the better fill of the two                             *)

LEMMA PathOfThree ==
    ASSUME NEW x \in Int, NEW y \in Int, NEW z \in Int, NEW s \in Int, NEW g \in Int
    PROVE  /\ Met(<<x, y, z>>, s) <=> ~Tighter(x, s) \/ ~Tighter(y, s) \/ ~Tighter(z, s)
           /\ Reached(<<x, y, z>>, g) <=> ~Tighter(g, x) \/ ~Tighter(g, y) \/ ~Tighter(g, z)
<1>1. PICK p : p = <<x, y, z>>
  OBVIOUS
<1>2. DOMAIN p = {1, 2, 3} /\ p[1] = x /\ p[2] = y /\ p[3] = z
  BY <1>1
<1>3. /\ Met(p, s) <=> ~Tighter(p[1], s) \/ ~Tighter(p[2], s) \/ ~Tighter(p[3], s)
      /\ Reached(p, g) <=> ~Tighter(g, p[1]) \/ ~Tighter(g, p[2]) \/ ~Tighter(g, p[3])
  BY <1>2 DEF Met, Reached
<1> QED
  BY <1>1, <1>2, <1>3

LEMMA PathOfFour ==
    ASSUME NEW w \in Int, NEW x \in Int, NEW y \in Int, NEW z \in Int, NEW s \in Int, NEW g \in Int
    PROVE  /\ Met(<<w, x, y, z>>, s) <=>
                  ~Tighter(w, s) \/ ~Tighter(x, s) \/ ~Tighter(y, s) \/ ~Tighter(z, s)
           /\ Tighter(w, s) /\ Tighter(x, s) /\ ~Tighter(g, x) => FirstEvent(<<w, x, y, z>>, s, g) = "TP"
<1>1. PICK p : p = <<w, x, y, z>>
  OBVIOUS
<1>2. p \in Seq(Int) /\ Len(p) = 4 /\ p[1] = w /\ p[2] = x /\ p[3] = y /\ p[4] = z
  BY <1>1
<1>3. DOMAIN p = {1, 2, 3, 4}
  BY <1>1
<1>4. Met(p, s) <=> ~Tighter(p[1], s) \/ ~Tighter(p[2], s) \/ ~Tighter(p[3], s) \/ ~Tighter(p[4], s)
  BY <1>3 DEF Met
<1>5. Tighter(p[1], s) /\ Tighter(p[2], s) /\ ~Tighter(g, p[2]) => FirstEvent(p, s, g) = "TP"
  BY <1>2, EventFacts
<1> QED
  BY <1>1, <1>2, <1>4, <1>5

\* On an entry bar: a path that is stopped while the other one is not has met the target
\* first, if both have.
LEMMA StoppedOrBoth ==
    ASSUME trade \in Trades, NEW bar, IsBar(bar), NEW s \in Int, NEW g \in Int,
           trade.theoretical \in bar.low..bar.high,
           \E p \in After(bar) : ~Met(p, s), \A p \in After(bar) : Reached(p, g),
           NEW p \in After(bar), Met(p, s)
    PROVE  FirstEvent(p, s, g) = "TP"
<1>1. PICK e \in Int, o \in Int, h \in Int, l \in Int, c \in Int :
          /\ e = trade.theoretical /\ o = bar.open /\ h = bar.high /\ l = bar.low /\ c = bar.close
          /\ l <= o /\ o <= h /\ l <= c /\ c <= h /\ l <= e /\ e <= h
  BY TradesAssumption DEF IsTrade, IsBar
<1>2. PICK H, L : H = PathAfterEntry(HighFirst(bar), TRUE) /\ L = PathAfterEntry(LowFirst(bar), TRUE)
  OBVIOUS
<1>3. After(bar) = {H, L}
  BY <1>2, AfterFacts
<1>4. /\ H = IF o <= e THEN <<e, h, l, c>> ELSE <<e, l, c>>
      /\ L = IF e <= o THEN <<e, l, h, c>> ELSE <<e, h, c>>
  BY <1>1, <1>2, PathsAfterEntry
<1>5. (p = H /\ ~Met(L, s) /\ Reached(L, g)) \/ (p = L /\ ~Met(H, s) /\ Reached(H, g))
  BY <1>3
<1>6. /\ Met(<<e, h, l, c>>, s) <=> ~Tighter(e, s) \/ ~Tighter(h, s) \/ ~Tighter(l, s) \/ ~Tighter(c, s)
      /\ Met(<<e, l, h, c>>, s) <=> ~Tighter(e, s) \/ ~Tighter(l, s) \/ ~Tighter(h, s) \/ ~Tighter(c, s)
      /\ Met(<<e, l, c>>, s) <=> ~Tighter(e, s) \/ ~Tighter(l, s) \/ ~Tighter(c, s)
      /\ Met(<<e, h, c>>, s) <=> ~Tighter(e, s) \/ ~Tighter(h, s) \/ ~Tighter(c, s)
  BY PathOfThree, PathOfFour
<1>7. /\ Reached(<<e, l, c>>, g) => ~Tighter(g, e) \/ ~Tighter(g, l) \/ ~Tighter(g, c)
      /\ Reached(<<e, h, c>>, g) => ~Tighter(g, e) \/ ~Tighter(g, h) \/ ~Tighter(g, c)
  BY PathOfThree
<1>8. CASE Long
  <2>1. ASSUME Tighter(l, s) PROVE Tighter(e, s) /\ Tighter(h, s) /\ Tighter(c, s)
    BY <1>1, <1>8, <2>1 DEF Tighter
  <2>2. ~Met(H, s) => ~Met(L, s)
    BY <1>4, <1>6, <2>1
  <2>3. p = H /\ ~Met(L, s) /\ Reached(L, g)
    BY <1>5, <2>2
  <2>4. ~(e <= o)
    BY <1>4, <1>6, <2>1, <2>3
  <2>5. L = <<e, h, c>> /\ H = <<e, h, l, c>>
    BY <1>1, <1>4, <2>4
  <2>6. Tighter(e, s) /\ Tighter(h, s)
    BY <1>6, <2>3, <2>5
  <2>7. ~Tighter(g, h)
    <3>1. ~Tighter(g, e) \/ ~Tighter(g, h) \/ ~Tighter(g, c)
      BY <1>7, <2>3, <2>5
    <3> QED
      BY <1>1, <1>8, <3>1 DEF Tighter
  <2> QED
    BY <2>3, <2>5, <2>6, <2>7, PathOfFour
<1>9. CASE ~Long
  <2>1. ASSUME Tighter(h, s) PROVE Tighter(e, s) /\ Tighter(l, s) /\ Tighter(c, s)
    BY <1>1, <1>9, <2>1 DEF Tighter
  <2>2. ~Met(L, s) => ~Met(H, s)
    BY <1>4, <1>6, <2>1
  <2>3. p = L /\ ~Met(H, s) /\ Reached(H, g)
    BY <1>5, <2>2
  <2>4. ~(o <= e)
    BY <1>4, <1>6, <2>1, <2>3
  <2>5. H = <<e, l, c>> /\ L = <<e, l, h, c>>
    BY <1>1, <1>4, <2>4
  <2>6. Tighter(e, s) /\ Tighter(l, s)
    BY <1>6, <2>3, <2>5
  <2>7. ~Tighter(g, l)
    <3>1. ~Tighter(g, e) \/ ~Tighter(g, l) \/ ~Tighter(g, c)
      BY <1>7, <2>3, <2>5
    <3> QED
      BY <1>1, <1>9, <3>1 DEF Tighter
  <2> QED
    BY <2>3, <2>5, <2>6, <2>7, PathOfFour
<1> QED
  BY <1>8, <1>9

LEMMA Pessimistic ==
    ASSUME trade \in Trades, NEW bar, IsBar(bar), NEW s \in Int, NEW g \in Int, NEW activated \in BOOLEAN,
           OnPath(bar, activated, s, g) = "SL"
    PROVE  SlFirst(bar, activated, s, g) # "TP" /\ (activated \/ SlFirst(bar, activated, s, g) = "SL")
<1> DEFINE whole == Hits(bar.low, bar.high, s, g)
           events == {FirstEvent(p, s, g) : p \in PathsOf(bar, activated)}
<1>1. CASE ~activated
  <2>1. whole[1]
    BY <1>1, OnPathMeans
  <2>2. SlFirst(bar, FALSE, s, g) = "SL"
    BY <2>1, SlFirstMeans
  <2> QED
    BY <1>1, <2>2
<1>2. CASE activated
  <2>1. "SL" \in events
    BY <1>2, OnPathMeans
  <2>2. PICK p \in PathsOf(bar, activated) : FirstEvent(p, s, g) = "SL"
    BY <2>1
  <2>3. p \in After(bar) /\ Through(p, bar)
    BY <1>2, PathsOfFacts
  <2>4. Met(p, s)
    BY <2>2, <2>3, OnePath
  <2>5. ASSUME SlFirst(bar, TRUE, s, g) = "TP" PROVE FALSE
    <3>1. (\E u \in After(bar) : ~Met(u, s)) /\ \A u \in After(bar) : Reached(u, g)
      BY <2>5, SlFirstMeans
    <3>2. trade.theoretical \in bar.low..bar.high
      BY <2>3, AfterFacts
    <3>3. FirstEvent(p, s, g) = "TP"
      BY <2>3, <2>4, <3>1, <3>2, StoppedOrBoth
    <3> QED
      BY <2>2, <3>3
  <2> QED
    BY <1>2, <2>5
<1> QED
  BY <1>1, <1>2

\* On every bar that is walked, with the stop and target of the moment: where
\* resolve_ohlc_bar stops the trade under path_open_proximity, sl_first stops it too, or,
\* on an entry bar, at least never pays the target.
THEOREM PathStopsAreSlFirstStops == Spec => SlFirstIsPessimistic
<1> DEFINE Step == seen' # seen =>
                     LET b == Len(seen')
                         path == OnPath(seen'[b], Activated(b), stop.effective, Target)
                         first == SlFirst(seen'[b], Activated(b), stop.effective, Target)
                     IN  path = "SL" => first # "TP" /\ (Activated(b) \/ first = "SL")
<1>1. TypeOK /\ [Next]_vars => Step
  <2> SUFFICES ASSUME TypeOK, [Next]_vars, seen' # seen
               PROVE  LET b == Len(seen')
                          path == OnPath(seen'[b], Activated(b), stop.effective, Target)
                          first == SlFirst(seen'[b], Activated(b), stop.effective, Target)
                      IN  path = "SL" => first # "TP" /\ (Activated(b) \/ first = "SL")
    OBVIOUS
  <2>1. PICK bar \in Bars : Draw(bar)
    BY DEF Next, ForceExit, PassEntryBar, WalkBar, vars
  <2>2. PICK b \in Nat : b = Len(seen')
    BY <2>1, DrawFacts
  <2>3. seen'[b] = bar /\ IsBar(bar)
    BY <2>1, <2>2, BarsAssumption DEF Draw, TypeOK
  <2>4. PICK activated \in BOOLEAN : activated = Activated(b)
    BY DEF Activated
  <2>5. OnPath(bar, activated, stop.effective, Target) = "SL" =>
            /\ SlFirst(bar, activated, stop.effective, Target) # "TP"
            /\ activated \/ SlFirst(bar, activated, stop.effective, Target) = "SL"
    BY <2>3, PricesAreWhole, Pessimistic DEF TypeOK
  <2> QED
    BY <2>2, <2>3, <2>4, <2>5
<1>2. SlFirstIsPessimistic <=> [][Step]_vars
  BY DEF SlFirstIsPessimistic
<1> HIDE DEF Step
<1> QED
  BY <1>1, <1>2, TypeInit, TypeStep, PTL DEF Spec
============================================================================
