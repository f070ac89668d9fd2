-------------------------------- MODULE Backtest --------------------------------
(***************************************************************************)
(* Which signals become trades (simulate_trades in                         *)
(* thesistester/engine/backtest.py): signals are admitted one by one, the  *)
(* candidates are put in order, and each is refused, or traded to its exit *)
(* before the next one is looked at.                                       *)
(*                                                                         *)
(* The walk of a trade is in TradeWalk; here it ends on any bar from its   *)
(* entry bar to the end of the data, which is what TradeWalk allows.       *)
(***************************************************************************)
EXTENDS Integers, Sequences

CONSTANTS
    NSignals,   \* bound on the signals of the frame
    NBars,      \* bars of the data
    Groups,     \* exposure group keys of single_setup
    Gates,      \* what an entry on each bar meets, see Verdicts
    Configs     \* exposure_policy, cooldown_bars_after_exit, same_bar_opposite_direction

Policies   == {"allow_all", "single_position", "single_direction", "single_setup"}
Directions == {"long", "short"}
BarIndexes == 1..NBars

\* Window, cutoff and session close are judged by the time of the entry bar.
Verdicts == {"admit", "outside_entry_window", "after_entry_cutoff", "empty_session_close_cap"}

ASSUME SizesAssumption == NSignals \in Nat /\ NBars \in Nat
ASSUME GatesAssumption == Gates \subseteq [BarIndexes -> Verdicts]
ASSUME ConfigsAssumption ==
    Configs \subseteq [policy : Policies, cooldown : Nat, same_bar : {"legacy", "skip_both", "raise"}]

\* A simple trigger enters on the bar after its own, a retrace or a stop-limit
\* fill on its own; a void signal and one on the last bar have no entry bar.
Signals ==
    {s \in [bar : BarIndexes, entry : 1..(NBars + 1), direction : Directions, group : Groups] :
        s.entry \in {s.bar, s.bar + 1}}

VARIABLES
    config, gate,   \* constant
    signals,        \* rows read from the frame, in the order of signal_id
    candidates,     \* candidate_rows not yet looked at
    conflicts,      \* conflict_candidate_ids
    trades,         \* accepted_for_blocking, in the order of trade_id
    skipped,        \* skipped_signals
    pc

vars == <<config, gate, signals, candidates, conflicts, trades, skipped, pc>>

Init ==
    /\ config \in Configs
    /\ gate \in Gates
    /\ signals = <<>>
    /\ candidates = {} /\ conflicts = {}
    /\ trades = <<>>
    /\ skipped = {}
    /\ pc = "admit"

SkipRow(i, reason, blocker) == [signal |-> i, reason |-> reason, blocker |-> blocker]

-----------------------------------------------------------------------------
\* _admit_entry_candidates, one row of the frame.
Admit(s) ==
    LET i == Len(signals) + 1 IN
    /\ pc = "admit" /\ Len(signals) < NSignals
    /\ signals' = Append(signals, s)
    /\ \/ /\ s.entry > NBars
          /\ UNCHANGED <<candidates, skipped>>
       \/ /\ s.entry <= NBars
          /\ gate[s.entry] \in {"outside_entry_window", "after_entry_cutoff"}
          /\ skipped' = skipped \cup {SkipRow(i, gate[s.entry], 0)}
          /\ UNCHANGED candidates
       \/ /\ s.entry <= NBars
          /\ gate[s.entry] \in {"admit", "empty_session_close_cap"}
          /\ candidates' = candidates \cup {i}
          /\ UNCHANGED skipped
    /\ UNCHANGED <<config, gate, conflicts, trades, pc>>

\* Mutant: pairs are looked for within one setup under single_position too.
CollidingInSetup(i) ==
    \E j \in candidates :
        /\ config.policy \in {"single_position", "single_setup"}
        /\ signals[j].entry = signals[i].entry /\ signals[j].bar = signals[i].bar
        /\ signals[j].direction # signals[i].direction
        /\ signals[j].group = signals[i].group

\* _same_bar_collision_groups
Colliding(i) ==
    \E j \in candidates :
        /\ signals[j].entry = signals[i].entry /\ signals[j].bar = signals[i].bar
        /\ signals[j].direction # signals[i].direction
        /\ \/ config.policy = "single_position"
           \/ config.policy = "single_setup" /\ signals[j].group = signals[i].group

\* _order_candidates_and_da3, collisions.
Collide ==
    /\ pc = "admit"
    /\ LET collisions == {i \in candidates : Colliding(i)} IN
       /\ conflicts' = IF config.same_bar = "skip_both" THEN collisions ELSE {}
       /\ pc' = IF config.same_bar = "raise" /\ collisions # {} THEN "refused" ELSE "trade"
    /\ UNCHANGED <<config, gate, signals, candidates, trades, skipped>>

\* Mutant: candidates come in the order of the frame under every policy.
PrecedesInFrame(i, j) == i <= j

\* _order_candidates_and_da3, the sort.
Precedes(i, j) ==
    LET s == signals[i]
        t == signals[j]
    IN  \/ config.policy = "allow_all" /\ i <= j
        \/ /\ config.policy # "allow_all"
           /\ \/ s.entry < t.entry
              \/ s.entry = t.entry /\ s.bar < t.bar
              \/ s.entry = t.entry /\ s.bar = t.bar /\ i <= j

-----------------------------------------------------------------------------
(* _exposure_skip_for_candidate *)

\* Whether trade t and a signal s compete.
Compete(t, s) ==
    \/ config.policy = "single_position"
    \/ config.policy = "single_direction" /\ t.direction = s.direction
    \/ config.policy = "single_setup" /\ t.group = s.group

\* Mutant: the bar a trade exits on is free.
BlockersOffByOne(s) ==
    {k \in DOMAIN trades : Compete(trades[k], s) /\ s.entry < trades[k].exit + config.cooldown}

Blockers(s) ==
    {k \in DOMAIN trades : Compete(trades[k], s) /\ s.entry <= trades[k].exit + config.cooldown}

\* The last to exit, and of those the first.
IsBlocker(k, s) ==
    /\ k \in Blockers(s)
    /\ \A l \in Blockers(s) : \/ trades[l].exit < trades[k].exit
                              \/ trades[l].exit = trades[k].exit /\ k <= l

Turn(i) ==
    /\ pc = "trade"
    /\ i \in candidates /\ \A j \in candidates : Precedes(i, j)
    /\ candidates' = candidates \ {i}
    /\ UNCHANGED <<config, gate, signals, conflicts, pc>>

SkipConflict(i) ==
    /\ Turn(i) /\ i \in conflicts
    /\ skipped' = skipped \cup {SkipRow(i, "direction_conflict", 0)}
    /\ UNCHANGED trades

\* Mutant: a signal that comes while a trade is open is dropped without a row.
DropBlocked(i) ==
    /\ Turn(i) /\ i \notin conflicts
    /\ Blockers(signals[i]) # {}
    /\ UNCHANGED <<skipped, trades>>

SkipBlocked(i) ==
    /\ Turn(i) /\ i \notin conflicts
    /\ \E k \in DOMAIN trades :
          /\ IsBlocker(k, signals[i])
          /\ skipped' = skipped \cup
                {SkipRow(i, IF signals[i].entry > trades[k].exit THEN "cooldown_active"
                            ELSE "overlapping", k)}
    /\ UNCHANGED trades

\* compute_session_close_cap finds no bar at or before the close.
SkipAfterClose(i) ==
    /\ Turn(i) /\ i \notin conflicts /\ Blockers(signals[i]) = {}
    /\ gate[signals[i].entry] = "empty_session_close_cap"
    /\ skipped' = skipped \cup {SkipRow(i, "empty_session_close_cap", 0)}
    /\ UNCHANGED trades

\* _simulate_trade_exit and _record_closed_trade
Trade(i) ==
    LET s == signals[i] IN
    /\ Turn(i) /\ i \notin conflicts /\ Blockers(s) = {}
    /\ gate[s.entry] = "admit"
    /\ \E e \in s.entry..NBars :
          trades' = Append(trades, [signal |-> i, entry |-> s.entry, exit |-> e,
                                    direction |-> s.direction, group |-> s.group])
    /\ UNCHANGED skipped

Next ==
    \/ \E s \in Signals : Admit(s)
    \/ Collide
    \/ \E i \in candidates :
          SkipConflict(i) \/ SkipBlocked(i) \/ SkipAfterClose(i) \/ Trade(i)

Spec == Init /\ [][Next]_vars

-----------------------------------------------------------------------------
(* Properties *)

TradeRecords == [signal : Nat, entry : Nat, exit : Nat, direction : Directions, group : Groups]

TypeOK ==
    /\ config \in Configs /\ gate \in Gates
    /\ signals \in Seq(Signals)
    /\ candidates \subseteq DOMAIN signals
    /\ conflicts \subseteq DOMAIN signals
    /\ trades \in Seq(TradeRecords)
    /\ skipped \subseteq [signal : DOMAIN signals, blocker : Nat,
          reason : (Verdicts \ {"admit"}) \cup {"direction_conflict", "overlapping", "cooldown_active"}]
    /\ pc \in {"admit", "trade", "refused"}

\* Trades that compete under the exposure policy are never open on one bar, nor
\* within the cooldown, whatever the order of the signals.
NeverTogether ==
    \A j \in DOMAIN trades : \A i \in 1..(j - 1) :
        Compete(trades[i], trades[j]) => trades[j].entry > trades[i].exit + config.cooldown

\* What a signal is refused for is a trade that was entered no later than the signal
\* and is open, or cooling down, on its entry bar: the future blocks nothing.
SkipsAreJustified ==
    \A row \in skipped : row.reason \in {"overlapping", "cooldown_active"} =>
        LET t == trades[row.blocker]
            s == signals[row.signal]
        IN  /\ t.entry <= s.entry
            /\ row.reason = "overlapping" => s.entry <= t.exit
            /\ row.reason = "cooldown_active" => s.entry \in (t.exit + 1)..(t.exit + config.cooldown)

\* Under skip_both neither side of a same-bar pair trades, also when the other side
\* would have been refused for something else.
PairsAreSkipped ==
    config.same_bar = "skip_both" /\ config.policy \in {"single_position", "single_setup"} =>
        \A k \in DOMAIN trades, i \in DOMAIN signals :
            LET s == signals[trades[k].signal]
                r == signals[i]
            IN  ~(/\ r.entry = s.entry /\ r.bar = s.bar /\ r.direction # s.direction
                  /\ config.policy = "single_setup" => r.group = s.group)

\* Every signal with an entry bar has been traded or refused, and once, when the run
\* is over.
EverySignalIsAnswered ==
    pc = "trade" /\ candidates = {} =>
        \A i \in DOMAIN signals :
            LET answers == {k \in DOMAIN trades : trades[k].signal = i}
                refusals == {row \in skipped : row.signal = i}
            IN  IF signals[i].entry > NBars THEN answers = {} /\ refusals = {}
                ELSE \/ refusals = {} /\ \E k \in answers : answers = {k}
                     \/ answers = {} /\ \E row \in refusals : refusals = {row}
============================================================================
