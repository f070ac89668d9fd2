------------------------------ MODULE BacktestProofs ------------------------------
(***************************************************************************)
(* What simulate_trades promises of occupancy and order, for every number  *)
(* of signals and bars, every policy and every way the trades end.         *)
(***************************************************************************)
EXTENDS Backtest, TLAPS

-----------------------------------------------------------------------------
(* Type correctness *)

LEMMA TypeInit == Init => TypeOK
  BY DEF Init, TypeOK

\* A row of the frame.
LEMMA AdmitKeepsType == ASSUME TypeOK, NEW s \in Signals, Admit(s) PROVE TypeOK'
<1> DEFINE n == Len(signals)
<1>1. n \in Nat /\ DOMAIN signals = 1..n
  BY DEF TypeOK
<1>2. signals' \in Seq(Signals) /\ DOMAIN signals' = 1..(n + 1) /\ DOMAIN signals \subseteq DOMAIN signals'
  BY <1>1 DEF Admit, TypeOK
<1>3. candidates' \subseteq DOMAIN signals'
  BY <1>1, <1>2 DEF Admit, TypeOK
<1>4. conflicts' \subseteq DOMAIN signals'
  BY <1>2 DEF Admit, TypeOK
<1>5. skipped' \subseteq [signal : DOMAIN signals', blocker : Nat,
          reason : (Verdicts \ {"admit"}) \cup {"direction_conflict", "overlapping", "cooldown_active"}]
  BY <1>1, <1>2 DEF Admit, TypeOK, SkipRow, Verdicts
<1> QED
  BY <1>2, <1>3, <1>4, <1>5 DEF Admit, TypeOK

\* What the turn of a candidate has in common, whatever it comes to.
LEMMA TurnFacts == ASSUME TypeOK, NEW i, Turn(i)
                   PROVE /\ i \in DOMAIN signals /\ signals[i] \in Signals
                         /\ i \in candidates /\ candidates' \subseteq candidates
                         /\ pc = "trade"
                         /\ UNCHANGED <<config, gate, signals, conflicts, pc>>
  BY DEF TypeOK, Turn

\* A refusal.
LEMMA SkipKeepsType ==
    ASSUME TypeOK, NEW i, Turn(i), UNCHANGED trades, NEW k \in Nat,
           NEW reason \in {"direction_conflict", "overlapping", "cooldown_active", "empty_session_close_cap"},
           skipped' = skipped \cup {SkipRow(i, reason, k)}
    PROVE  TypeOK'
<1>1. skipped' \subseteq [signal : DOMAIN signals, blocker : Nat,
          reason : (Verdicts \ {"admit"}) \cup {"direction_conflict", "overlapping", "cooldown_active"}]
  BY TurnFacts DEF TypeOK, SkipRow, Verdicts
<1> QED
  BY <1>1, TurnFacts DEF TypeOK

\* The record of a trade that closes on bar e.
TradeOf(i, e) == [signal |-> i, entry |-> signals[i].entry, exit |-> e,
                  direction |-> signals[i].direction, group |-> signals[i].group]

LEMMA TradeFacts ==
    ASSUME TypeOK, NEW i, Trade(i)
    PROVE  /\ Blockers(signals[i]) = {}
           /\ \E e \in Nat : /\ trades' = Append(trades, TradeOf(i, e))
                             /\ TradeOf(i, e) \in TradeRecords
<1>1. PICK e \in signals[i].entry..NBars : trades' = Append(trades, TradeOf(i, e))
  BY DEF Trade, TradeOf
<1>2. /\ i \in Nat
      /\ signals[i].entry \in Nat
      /\ signals[i].direction \in Directions /\ signals[i].group \in Groups
  BY TurnFacts, SizesAssumption DEF Trade, Signals, BarIndexes, TypeOK
<1>3. e \in Nat
  BY <1>2, SizesAssumption
<1> QED
  BY <1>1, <1>2, <1>3 DEF Trade, TradeOf, TradeRecords

LEMMA TradeKeepsType == ASSUME TypeOK, NEW i, Trade(i) PROVE TypeOK'
<1>1. trades' \in Seq(TradeRecords)
  BY TradeFacts DEF TypeOK
<1>2. Turn(i) /\ UNCHANGED skipped
  BY DEF Trade
<1> QED
  BY <1>1, <1>2, TurnFacts DEF TypeOK

LEMMA TypeStep == TypeOK /\ [Next]_vars => TypeOK'
<1> SUFFICES ASSUME TypeOK, [Next]_vars PROVE TypeOK'
  OBVIOUS
<1>1. ASSUME NEW s \in Signals, Admit(s) PROVE TypeOK'
  BY <1>1, AdmitKeepsType
<1>2. CASE Collide
  BY <1>2 DEF Collide, TypeOK
<1>3. ASSUME NEW i \in candidates, SkipConflict(i) PROVE TypeOK'
  BY <1>3, SkipKeepsType DEF SkipConflict
<1>4. ASSUME NEW i \in candidates, SkipBlocked(i) PROVE TypeOK'
  <2>1. PICK k \in DOMAIN trades : \E reason \in {"overlapping", "cooldown_active"} :
            skipped' = skipped \cup {SkipRow(i, reason, k)}
    BY <1>4 DEF SkipBlocked
  <2>2. k \in Nat
    BY DEF TypeOK
  <2> QED
    BY <1>4, <2>1, <2>2, SkipKeepsType DEF SkipBlocked
<1>5. ASSUME NEW i \in candidates, SkipAfterClose(i) PROVE TypeOK'
  BY <1>5, SkipKeepsType DEF SkipAfterClose
<1>6. ASSUME NEW i \in candidates, Trade(i) PROVE TypeOK'
  BY <1>6, TradeKeepsType
<1>7. CASE UNCHANGED vars
  BY <1>7 DEF vars, TypeOK
<1> QED
  BY <1>1, <1>2, <1>3, <1>4, <1>5, <1>6, <1>7 DEF Next

\* Type correctness of the frame loop, for every size.
THEOREM TypeCorrect == Spec => []TypeOK
  BY TypeInit, TypeStep, PTL DEF Spec

-----------------------------------------------------------------------------
(* Occupancy and order                                                     *)
(*                                                                         *)
(* NeverTogether is kept by the guard on Blockers alone.  That what blocks *)
(* a signal was entered before it needs the order of the candidates:       *)
(* everything traded was entered no later than everything still to come.   *)

Restricted == config.policy # "allow_all"

TradesComeLast == pc # "trade" => trades = <<>>

TradedBeforeCandidates ==
    Restricted =>
        \A k \in DOMAIN trades, i \in candidates : trades[k].entry <= signals[i].entry

Occupied(row) == row.reason \in {"overlapping", "cooldown_active"}

SkipsNameTrades == \A row \in skipped : Occupied(row) => row.blocker \in DOMAIN trades

Safe ==
    /\ TypeOK
    /\ TradesComeLast
    /\ TradedBeforeCandidates
    /\ NeverTogether
    /\ SkipsNameTrades
    /\ SkipsAreJustified

LEMMA SafeInit == Init => Safe
  BY TypeInit DEF Init, Safe, TradesComeLast, TradedBeforeCandidates, NeverTogether,
                  SkipsNameTrades, SkipsAreJustified

\* No step reads a signal that is not there, and the frame only grows.
LEMMA AdmitKeepsSafe == ASSUME Safe, NEW s \in Signals, Admit(s) PROVE Safe'
<1>1. trades = <<>> /\ trades' = <<>>
  BY DEF Admit, Safe, TradesComeLast
<1>2. TypeOK'
  BY AdmitKeepsType DEF Safe
<1>3. \A row \in skipped : ~Occupied(row)
  BY <1>1 DEF Safe, SkipsNameTrades
<1>4. \A row \in skipped' : ~Occupied(row)
  BY <1>3 DEF Admit, SkipRow, Occupied
<1>5. SkipsNameTrades' /\ SkipsAreJustified'
  BY <1>4 DEF SkipsNameTrades, SkipsAreJustified, Occupied
<1> QED
  BY <1>1, <1>2, <1>5 DEF Safe, TradesComeLast, TradedBeforeCandidates, NeverTogether

\* A refusal that is not for occupancy, and one that is.
LEMMA SkipKeepsSafe ==
    ASSUME Safe, NEW i, Turn(i), UNCHANGED trades, NEW row, skipped' = skipped \cup {row},
           TypeOK',
           Occupied(row) => /\ row.blocker \in DOMAIN trades
                            /\ trades[row.blocker].entry <= signals[row.signal].entry
                            /\ row.reason = "overlapping" =>
                                  signals[row.signal].entry <= trades[row.blocker].exit
                            /\ row.reason = "cooldown_active" =>
                                  signals[row.signal].entry \in (trades[row.blocker].exit + 1)..
                                      (trades[row.blocker].exit + config.cooldown)
    PROVE  Safe'
<1>1. /\ UNCHANGED <<config, signals, trades, pc>> /\ candidates' \subseteq candidates /\ pc = "trade"
  BY TurnFacts DEF Safe
<1>2. TradesComeLast' /\ TradedBeforeCandidates' /\ NeverTogether'
  BY <1>1 DEF Safe, TradesComeLast, TradedBeforeCandidates, NeverTogether, Compete, Restricted
<1>3. SkipsNameTrades'
  BY <1>1 DEF Safe, SkipsNameTrades
<1>4. SkipsAreJustified'
  BY <1>1 DEF Safe, SkipsAreJustified, Occupied
<1> QED
  BY <1>2, <1>3, <1>4 DEF Safe

LEMMA SkipBlockedKeepsSafe == ASSUME Safe, NEW i, SkipBlocked(i) PROVE Safe'
<1> DEFINE Row(k) == SkipRow(i, IF signals[i].entry > trades[k].exit THEN "cooldown_active"
                                ELSE "overlapping", k)
<1>1. PICK k \in DOMAIN trades : IsBlocker(k, signals[i]) /\ skipped' = skipped \cup {Row(k)}
  BY DEF SkipBlocked
<1>2. TypeOK /\ Turn(i) /\ UNCHANGED trades /\ k \in Nat
  BY DEF SkipBlocked, Safe, TypeOK
<1>3. TypeOK'
  BY <1>1, <1>2, SkipKeepsType DEF SkipBlocked
<1>4. Compete(trades[k], signals[i]) /\ signals[i].entry <= trades[k].exit + config.cooldown
  BY <1>1 DEF IsBlocker, Blockers
<1>5. trades[k].entry <= signals[i].entry
  <2>1. Restricted
    BY <1>4 DEF Compete, Restricted
  <2> QED
    BY <1>2, <2>1, TurnFacts DEF Safe, TradedBeforeCandidates
<1>6. /\ signals[i].entry \in Nat /\ trades[k].exit \in Nat /\ config.cooldown \in Nat
  <2>1. signals[i] \in Signals
    BY <1>2, TurnFacts
  <2>2. trades[k] \in TradeRecords
    BY <1>2 DEF TypeOK
  <2>3. config.cooldown \in Nat
    BY <1>2, ConfigsAssumption DEF TypeOK
  <2> QED
    BY <2>1, <2>2, <2>3, SizesAssumption DEF TradeRecords, Signals
<1>7. /\ Row(k).signal = i /\ Row(k).blocker = k
      /\ Row(k).reason = IF signals[i].entry > trades[k].exit THEN "cooldown_active" ELSE "overlapping"
  BY DEF SkipRow
<1>8. /\ Row(k).reason = "overlapping" => signals[i].entry <= trades[k].exit
      /\ Row(k).reason = "cooldown_active" =>
            signals[i].entry \in (trades[k].exit + 1)..(trades[k].exit + config.cooldown)
  BY <1>4, <1>6, <1>7
<1> HIDE DEF Row
<1> QED
  BY <1>1, <1>2, <1>3, <1>5, <1>7, <1>8, SkipKeepsSafe

LEMMA FreeSkipKeepsSafe ==
    ASSUME Safe, NEW i, SkipConflict(i) \/ SkipAfterClose(i)
    PROVE  Safe'
<1>1. PICK reason \in {"direction_conflict", "empty_session_close_cap"} :
          skipped' = skipped \cup {SkipRow(i, reason, 0)}
  BY DEF SkipConflict, SkipAfterClose
<1>2. TypeOK /\ Turn(i) /\ UNCHANGED trades
  BY DEF SkipConflict, SkipAfterClose, Safe
<1>3. TypeOK'
  BY <1>1, <1>2, SkipKeepsType
<1>4. ~Occupied(SkipRow(i, reason, 0))
  BY DEF Occupied, SkipRow
<1> QED
  BY <1>1, <1>2, <1>3, <1>4, SkipKeepsSafe

LEMMA TradeKeepsSafe == ASSUME Safe, NEW i, Trade(i) PROVE Safe'
<1> DEFINE n == Len(trades)
           s == signals[i]
<1>1. /\ TypeOK /\ Turn(i)
      /\ UNCHANGED skipped
  BY DEF Trade, Safe
<1>2. PICK e \in Nat : trades' = Append(trades, TradeOf(i, e)) /\ TradeOf(i, e) \in TradeRecords
  BY <1>1, TradeFacts
<1>3. /\ n \in Nat /\ DOMAIN trades = 1..n
      /\ DOMAIN trades' = 1..(n + 1)
      /\ \A k \in DOMAIN trades : trades'[k] = trades[k]
      /\ trades'[n + 1] = TradeOf(i, e)
  BY <1>1, <1>2 DEF TypeOK
<1>4. /\ UNCHANGED <<config, signals, pc>> /\ candidates' \subseteq candidates /\ pc = "trade"
      /\ i \in candidates /\ \A j \in candidates : Precedes(i, j)
  BY <1>1, TurnFacts DEF Turn
<1>5. /\ TradeOf(i, e).entry = s.entry /\ TradeOf(i, e).direction = s.direction
      /\ TradeOf(i, e).group = s.group
  BY DEF TradeOf
<1>6. \A k \in DOMAIN trades : Compete(trades[k], s) => s.entry > trades[k].exit + config.cooldown
  <2>1. Blockers(s) = {}
    BY <1>1, TradeFacts
  <2>2. s.entry \in Nat
    BY <1>1, TurnFacts, SizesAssumption DEF Signals
  <2>3. config.cooldown \in Nat
    BY <1>1, ConfigsAssumption DEF TypeOK
  <2>4. \A k \in DOMAIN trades : trades[k] \in TradeRecords
    BY <1>1 DEF TypeOK
  <2> QED
    BY <2>1, <2>2, <2>3, <2>4 DEF Blockers, TradeRecords
<1>7. TypeOK'
  BY <1>1, TradeKeepsType
<1>8. TradesComeLast'
  BY <1>4 DEF TradesComeLast
<1>9. TradedBeforeCandidates'
  <2> SUFFICES ASSUME Restricted, NEW k \in DOMAIN trades', NEW j \in candidates
               PROVE  trades'[k].entry <= signals[j].entry
    BY <1>4 DEF TradedBeforeCandidates, Restricted
  <2>1. CASE k \in DOMAIN trades
    BY <1>3, <2>1 DEF Safe, TradedBeforeCandidates
  <2>2. CASE k = n + 1
    <3>1. signals[i].entry \in Nat /\ signals[j].entry \in Nat
      <4>1. \A c \in candidates : signals[c] \in Signals
        BY <1>1 DEF TypeOK
      <4> QED
        BY <1>4, <4>1, SizesAssumption DEF Signals
    <3>2. signals[i].entry <= signals[j].entry
      BY <1>4, <3>1 DEF Precedes, Restricted
    <3> QED
      BY <1>3, <1>5, <2>2, <3>2
  <2> QED
    BY <1>3, <2>1, <2>2
<1>10. NeverTogether'
  <2> SUFFICES ASSUME NEW l \in DOMAIN trades', NEW k \in 1..(l - 1), Compete(trades'[k], trades'[l])
               PROVE  trades'[l].entry > trades'[k].exit + config.cooldown
    BY <1>4 DEF NeverTogether, Compete
  <2>1. k \in DOMAIN trades
    BY <1>3
  <2>2. CASE l \in DOMAIN trades
    BY <1>3, <2>1, <2>2 DEF Safe, NeverTogether
  <2>3. CASE l = n + 1
    <3>1. Compete(trades[k], s)
      BY <1>3, <1>5, <2>1, <2>3 DEF Compete
    <3> QED
      BY <1>3, <1>5, <1>6, <2>1, <2>3, <3>1
  <2> QED
    BY <1>3, <2>2, <2>3
<1>11. SkipsNameTrades'
  BY <1>1, <1>3 DEF Safe, SkipsNameTrades
<1>12. SkipsAreJustified'
  <2> SUFFICES ASSUME NEW row \in skipped, Occupied(row)
               PROVE  trades'[row.blocker] = trades[row.blocker]
    BY <1>1, <1>4 DEF Safe, SkipsAreJustified, Occupied
  <2> QED
    BY <1>3 DEF Safe, SkipsNameTrades
<1> QED
  BY <1>7, <1>8, <1>9, <1>10, <1>11, <1>12 DEF Safe

LEMMA SafeStep == Safe /\ [Next]_vars => Safe'
<1> SUFFICES ASSUME Safe, [Next]_vars PROVE Safe'
  OBVIOUS
<1>1. ASSUME NEW s \in Signals, Admit(s) PROVE Safe'
  BY <1>1, AdmitKeepsSafe
<1>2. CASE Collide
  <2>1. TypeOK'
    BY <1>2, TypeStep DEF Safe, Next
  <2>2. trades = <<>> /\ UNCHANGED <<config, signals, candidates, trades, skipped>>
    BY <1>2 DEF Collide, Safe, TradesComeLast
  <2> QED
    BY <2>1, <2>2 DEF Safe, TradesComeLast, TradedBeforeCandidates, NeverTogether, Compete,
                      SkipsNameTrades, SkipsAreJustified
<1>3. ASSUME NEW i \in candidates, SkipConflict(i) \/ SkipAfterClose(i) PROVE Safe'
  BY <1>3, FreeSkipKeepsSafe
<1>4. ASSUME NEW i \in candidates, SkipBlocked(i) PROVE Safe'
  BY <1>4, SkipBlockedKeepsSafe
<1>5. ASSUME NEW i \in candidates, Trade(i) PROVE Safe'
  BY <1>5, TradeKeepsSafe
<1>6. CASE UNCHANGED vars
  BY <1>6 DEF vars, Safe, TypeOK, TradesComeLast, TradedBeforeCandidates, NeverTogether, Compete,
              Restricted, SkipsNameTrades, SkipsAreJustified
<1> QED
  BY <1>1, <1>2, <1>3, <1>4, <1>5, <1>6 DEF Next

\* Every conjunct of Safe holds in every reachable state of the admission loop.
THEOREM SafeAlways == Spec => []Safe
  BY SafeInit, SafeStep, PTL DEF Spec

\* Trades that compete under the exposure policy are never open together, nor
\* within the cooldown of one another.
THEOREM OccupancyExcludes == Spec => []NeverTogether
  BY SafeAlways, PTL DEF Safe

\* A signal is refused for a trade that was entered no later than it and is still
\* open, or cooling down.
THEOREM RefusalsAreJustified == Spec => []SkipsAreJustified
  BY SafeAlways, PTL DEF Safe

-----------------------------------------------------------------------------
(* Answers                                                                 *)
(*                                                                         *)
(* A signal waits, is answered once, or has no entry bar; and who waited   *)
(* when pairs were looked for is a matter of the gates of the entry bar,   *)
(* so both sides of a pair did.                                            *)

Answers(i)  == {k \in DOMAIN trades : trades[k].signal = i}
Refusals(i) == {row \in skipped : row.signal = i}

AnsweredOnce(i) ==
    \/ Refusals(i) = {} /\ \E k \in Answers(i) : Answers(i) = {k}
    \/ Answers(i) = {} /\ \E row \in Refusals(i) : Refusals(i) = {row}
Unanswered(i) == Answers(i) = {} /\ Refusals(i) = {}

AnswersAddUp ==
    \A i \in DOMAIN signals :
        IF i \in candidates \/ signals[i].entry > NBars THEN Unanswered(i) ELSE AnsweredOnce(i)

Admitted(i) ==
    signals[i].entry <= NBars /\ gate[signals[i].entry] \in {"admit", "empty_session_close_cap"}

Pair(i, j) ==
    /\ signals[j].entry = signals[i].entry /\ signals[j].bar = signals[i].bar
    /\ signals[j].direction # signals[i].direction
    /\ \/ config.policy = "single_position"
       \/ config.policy = "single_setup" /\ signals[j].group = signals[i].group

CandidatesAreAdmitted ==
    /\ \A i \in candidates : Admitted(i)
    /\ pc = "admit" => \A i \in DOMAIN signals : Admitted(i) => i \in candidates

ConflictsArePairs ==
    pc = "trade" /\ config.same_bar = "skip_both" =>
        \A i, j \in DOMAIN signals : Admitted(i) /\ Admitted(j) /\ Pair(i, j) => i \in conflicts

TradesAreAdmitted ==
    \A k \in DOMAIN trades :
        LET i == trades[k].signal IN i \in DOMAIN signals /\ Admitted(i) /\ i \notin conflicts

Settled ==
    /\ TypeOK
    /\ TradesComeLast
    /\ AnswersAddUp
    /\ CandidatesAreAdmitted
    /\ ConflictsArePairs
    /\ TradesAreAdmitted

LEMMA SettledInit == Init => Settled
  BY TypeInit DEF Init, Settled, TradesComeLast, AnswersAddUp, CandidatesAreAdmitted,
                  ConflictsArePairs, TradesAreAdmitted

LEMMA AdmitSettles == ASSUME Settled, NEW s \in Signals, Admit(s) PROVE Settled'
<1>1. /\ TypeOK /\ TypeOK' /\ trades = <<>> /\ UNCHANGED <<config, gate, conflicts, trades, pc>>
      /\ pc = "admit" /\ signals' = Append(signals, s)
  BY AdmitKeepsType DEF Settled, Admit, TradesComeLast
<1>2. PICK n \in Nat : n = Len(signals) + 1
  BY <1>1 DEF TypeOK
<1>3. /\ DOMAIN signals' = DOMAIN signals \cup {n} /\ n \notin DOMAIN signals
      /\ signals'[n] = s /\ \A i \in DOMAIN signals : signals'[i] = signals[i]
  BY <1>1, <1>2 DEF TypeOK
<1>4. /\ \A i \in DOMAIN signals : Admitted(i)' = Admitted(i)
      /\ Admitted(n)' <=> s.entry <= NBars /\ gate[s.entry] \in {"admit", "empty_session_close_cap"}
  BY <1>1, <1>3 DEF Admitted
<1>5. \A row \in skipped : row.signal \in DOMAIN signals
  BY <1>1 DEF TypeOK
<1>6. candidates \subseteq DOMAIN signals /\ s.entry \in Nat /\ NBars \in Nat
  BY <1>1, SizesAssumption DEF TypeOK, Signals
<1>7. s.entry <= NBars => gate[s.entry] \in Verdicts
  BY <1>1, <1>6, SizesAssumption, GatesAssumption DEF TypeOK, BarIndexes, Signals
<1>8. \/ s.entry > NBars /\ UNCHANGED <<candidates, skipped>>
      \/ s.entry <= NBars /\ ~Admitted(n)' /\ UNCHANGED candidates
         /\ \E row : row.signal = n /\ skipped' = skipped \cup {row}
      \/ s.entry <= NBars /\ Admitted(n)' /\ candidates' = candidates \cup {n} /\ UNCHANGED skipped
  BY <1>1, <1>2, <1>4 DEF Admit, SkipRow
<1>9. AnswersAddUp'
  <2>1. \A i : Answers(i)' = {}
    BY <1>1 DEF Answers
  <2>2. \A i \in DOMAIN signals : Refusals(i)' = Refusals(i) /\ Answers(i) = {}
    BY <1>1, <1>3, <1>8 DEF Refusals, Answers
  <2>3. \A i \in DOMAIN signals : i \in candidates' <=> i \in candidates
    BY <1>3, <1>8
  <2>4. Refusals(n) = {} /\ n \notin candidates
    BY <1>3, <1>5, <1>6 DEF Refusals
  <2>5. IF n \in candidates' \/ s.entry > NBars THEN Refusals(n)' = {}
        ELSE \E row \in Refusals(n)' : Refusals(n)' = {row}
    <3>1. CASE s.entry > NBars /\ UNCHANGED <<candidates, skipped>>
      BY <2>4, <3>1 DEF Refusals
    <3>2. CASE s.entry <= NBars /\ Admitted(n)' /\ candidates' = candidates \cup {n} /\ UNCHANGED skipped
      BY <2>4, <3>2 DEF Refusals
    <3>3. ASSUME NEW row, s.entry <= NBars, UNCHANGED candidates, row.signal = n,
                 skipped' = skipped \cup {row}
          PROVE  n \notin candidates' /\ Refusals(n)' = {row} /\ ~(s.entry > NBars)
      BY <1>6, <2>4, <3>3 DEF Refusals
    <3> QED
      BY <1>8, <3>1, <3>2, <3>3
  <2> QED
    BY <1>3, <2>1, <2>2, <2>3, <2>5 DEF Settled, AnswersAddUp, Unanswered, AnsweredOnce
<1>10. CandidatesAreAdmitted'
  <2>1. \A i \in candidates : Admitted(i)
    BY DEF Settled, CandidatesAreAdmitted
  <2>2. \A i \in DOMAIN signals : Admitted(i) => i \in candidates
    BY <1>1 DEF Settled, CandidatesAreAdmitted
  <2>3. \/ candidates' = candidates
        \/ candidates' = candidates \cup {n} /\ Admitted(n)'
    BY <1>8
  <2>4. ASSUME Admitted(n)'
        PROVE  n \in candidates'
    <3>1. s.entry <= NBars
      BY <1>4, <2>4
    <3>2. ~(s.entry > NBars)
      BY <1>6, <3>1
    <3> QED
      BY <1>8, <2>4, <3>2
  <2>5. \A i \in candidates' : Admitted(i)'
    BY <1>4, <1>6, <2>1, <2>3
  <2>6. \A i \in DOMAIN signals' : Admitted(i)' => i \in candidates'
    BY <1>3, <1>4, <2>2, <2>3, <2>4
  <2> QED
    BY <2>5, <2>6 DEF CandidatesAreAdmitted
<1> QED
  BY <1>1, <1>9, <1>10 DEF Settled, TradesComeLast, ConflictsArePairs, TradesAreAdmitted

LEMMA CollideSettles == ASSUME Settled, Collide PROVE Settled'
<1>1. /\ TypeOK' /\ trades = <<>> /\ pc = "admit" /\ pc' # "admit"
      /\ UNCHANGED <<config, gate, signals, candidates, trades, skipped>>
  BY TypeStep DEF Settled, Collide, TradesComeLast, Next
<1>2. \A i, j : Admitted(i)' = Admitted(i) /\ Pair(i, j)' = Pair(i, j)
  BY <1>1 DEF Admitted, Pair
<1>3. ConflictsArePairs'
  <2> SUFFICES ASSUME config.same_bar = "skip_both", NEW i \in DOMAIN signals, NEW j \in DOMAIN signals,
                      Admitted(i), Admitted(j), Pair(i, j)
               PROVE  i \in conflicts'
    BY <1>1, <1>2 DEF ConflictsArePairs
  <2>1. i \in candidates /\ j \in candidates
    BY <1>1 DEF Settled, CandidatesAreAdmitted
  <2>2. Colliding(i)
    BY <2>1 DEF Colliding, Pair
  <2> QED
    BY <2>1, <2>2 DEF Collide
<1>4. AnswersAddUp'
  BY <1>1 DEF Settled, AnswersAddUp, AnsweredOnce, Unanswered, Answers, Refusals
<1> QED
  BY <1>1, <1>2, <1>3, <1>4 DEF Settled, TradesComeLast, CandidatesAreAdmitted, TradesAreAdmitted

\* The turn of a signal: it is answered in one way, and no other is.
LEMMA TurnSettles ==
    ASSUME Settled, NEW i, Turn(i), TypeOK',
           \/ UNCHANGED trades /\ \E row : row.signal = i /\ skipped' = skipped \cup {row}
           \/ /\ UNCHANGED skipped /\ i \notin conflicts
              /\ \E t : t.signal = i /\ trades' = Append(trades, t)
    PROVE  Settled'
<1>1. /\ pc = "trade" /\ i \in candidates /\ candidates' = candidates \ {i}
      /\ UNCHANGED <<config, gate, signals, conflicts, pc>>
  BY DEF Turn
<1>2. TypeOK /\ Len(trades) \in Nat /\ i \in DOMAIN signals /\ Admitted(i) /\ Unanswered(i)
  BY <1>1 DEF Settled, TypeOK, CandidatesAreAdmitted, AnswersAddUp
<1>3. \A j, k : Admitted(j)' = Admitted(j) /\ Pair(j, k)' = Pair(j, k)
  BY <1>1 DEF Admitted, Pair
<1>4. ~(signals[i].entry > NBars)
  <2>1. signals[i].entry \in Nat /\ NBars \in Nat
    BY <1>2, SizesAssumption DEF TypeOK, Signals
  <2> QED
    BY <1>2, <2>1 DEF Admitted
<1>5. AnsweredOnce(i)' /\ \A j : j # i => Answers(j)' = Answers(j) /\ Refusals(j)' = Refusals(j)
  <2>1. ASSUME NEW row, row.signal = i, skipped' = skipped \cup {row}, UNCHANGED trades
        PROVE  /\ Refusals(i)' = {row} /\ Answers(i)' = {}
               /\ \A j : j # i => Answers(j)' = Answers(j) /\ Refusals(j)' = Refusals(j)
    BY <1>2, <2>1 DEF Unanswered, Answers, Refusals
  <2>2. ASSUME NEW t, t.signal = i, trades' = Append(trades, t), UNCHANGED skipped
        PROVE  /\ Refusals(i)' = {} /\ Answers(i)' = {Len(trades) + 1}
               /\ \A j : j # i => Answers(j)' = Answers(j) /\ Refusals(j)' = Refusals(j)
    <3>1. /\ DOMAIN trades' = DOMAIN trades \cup {Len(trades) + 1} /\ trades'[Len(trades) + 1] = t
          /\ Len(trades) + 1 \notin DOMAIN trades /\ \A k \in DOMAIN trades : trades'[k] = trades[k]
      BY <1>2, <2>2 DEF TypeOK
    <3> QED
      BY <1>2, <2>2, <3>1 DEF Unanswered, Answers, Refusals
  <2> QED
    BY <2>1, <2>2 DEF AnsweredOnce
<1>6. AnswersAddUp'
  BY <1>1, <1>2, <1>4, <1>5 DEF Settled, AnswersAddUp, AnsweredOnce, Unanswered
<1>7. TradesAreAdmitted'
  <2>1. CASE UNCHANGED trades
    BY <1>1, <1>3, <2>1 DEF Settled, TradesAreAdmitted
  <2>2. ASSUME NEW t, t.signal = i, trades' = Append(trades, t), i \notin conflicts
        PROVE  TradesAreAdmitted'
    <3>1. /\ DOMAIN trades' = DOMAIN trades \cup {Len(trades) + 1} /\ trades'[Len(trades) + 1] = t
          /\ \A k \in DOMAIN trades : trades'[k] = trades[k]
      BY <1>2, <2>2 DEF TypeOK
    <3> QED
      BY <1>1, <1>2, <1>3, <2>2, <3>1 DEF Settled, TradesAreAdmitted
  <2> QED
    BY <2>1, <2>2
<1> QED
  BY <1>1, <1>3, <1>6, <1>7 DEF Settled, TradesComeLast, CandidatesAreAdmitted, ConflictsArePairs

LEMMA SettledStep == Settled /\ [Next]_vars => Settled'
<1> SUFFICES ASSUME Settled, [Next]_vars PROVE Settled'
  OBVIOUS
<1>0. TypeOK'
  BY TypeStep DEF Settled
<1>1. ASSUME NEW s \in Signals, Admit(s) PROVE Settled'
  BY <1>1, AdmitSettles
<1>2. CASE Collide
  BY <1>2, CollideSettles
<1>3. ASSUME NEW i \in candidates, SkipConflict(i) \/ SkipBlocked(i) \/ SkipAfterClose(i) PROVE Settled'
  <2>1. Turn(i) /\ UNCHANGED trades /\ \E row : row.signal = i /\ skipped' = skipped \cup {row}
    <3>1. \A reason, k : SkipRow(i, reason, k).signal = i
      BY DEF SkipRow
    <3> QED
      BY <1>3, <3>1 DEF SkipConflict, SkipBlocked, SkipAfterClose
  <2> QED
    BY <1>0, <2>1, TurnSettles
<1>4. ASSUME NEW i \in candidates, Trade(i) PROVE Settled'
  <2>1. Turn(i) /\ UNCHANGED skipped /\ i \notin conflicts
        /\ \E t : t.signal = i /\ trades' = Append(trades, t)
    BY <1>4 DEF Trade
  <2> QED
    BY <1>0, <2>1, TurnSettles
<1>5. CASE UNCHANGED vars
  BY <1>0, <1>5 DEF vars, Settled, TradesComeLast, AnswersAddUp, AnsweredOnce, Unanswered, Answers,
     Refusals, CandidatesAreAdmitted, ConflictsArePairs, TradesAreAdmitted, Admitted, Pair
<1> QED
  BY <1>1, <1>2, <1>3, <1>4, <1>5 DEF Next

LEMMA SettledAlways == Spec => []Settled
  BY SettledInit, SettledStep, PTL DEF Spec

\* Of a same-bar pair neither side trades under skip_both: what is refused before pairs are
\* looked for depends on the entry bar, which both sides share
\* (_admit_entry_candidates, _same_bar_collision_groups).
THEOREM PairsNeverTrade == Spec => []PairsAreSkipped
<1>1. ASSUME Settled, config.same_bar = "skip_both", config.policy \in {"single_position", "single_setup"},
             NEW k \in DOMAIN trades, NEW j \in DOMAIN signals,
             LET s == signals[trades[k].signal]
                 r == signals[j]
             IN  /\ r.entry = s.entry /\ r.bar = s.bar /\ r.direction # s.direction
                 /\ config.policy = "single_setup" => r.group = s.group
      PROVE  FALSE
  <2>1. PICK i \in DOMAIN signals : i = trades[k].signal /\ Admitted(i) /\ i \notin conflicts
    BY <1>1 DEF Settled, TradesAreAdmitted
  <2>2. Admitted(j) /\ Pair(i, j)
    BY <1>1, <2>1 DEF Admitted, Pair
  <2>3. pc = "trade"
    BY <1>1 DEF Settled, TradesComeLast
  <2> QED
    BY <1>1, <2>1, <2>2, <2>3 DEF Settled, ConflictsArePairs
<1>2. Settled => PairsAreSkipped
  BY <1>1 DEF PairsAreSkipped
<1> QED
  BY <1>2, SettledAlways, PTL

\* When the run is over every signal with an entry bar has one answer, a trade or a row of
\* skipped_signals (_record_closed_trade, _exposure_skip_for_candidate).
THEOREM SignalsAreAnswered == Spec => []EverySignalIsAnswered
<1>1. Settled => EverySignalIsAnswered
  BY DEF Settled, AnswersAddUp, EverySignalIsAnswered, AnsweredOnce, Unanswered, Answers, Refusals
<1> QED
  BY <1>1, SettledAlways, PTL
============================================================================
