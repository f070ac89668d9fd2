-------------------------------- MODULE TradeWalk --------------------------------
(***************************************************************************)
(* The exit walk of one trade (thesistester/engine/sim_core.py with        *)
(* exit_management.py and intrabar.py): bar by bar a stop and a target are *)
(* looked for, and a completed bar may move the stop for the next one,     *)
(* until a hit or the last bar the trade may live on.                      *)
(*                                                                         *)
(* Bars are numbered from the entry bar, which is 1, and are drawn one at  *)
(* a time, so that nothing can be known of a bar before it is walked.      *)
(* Prices are whole ticks, and thresholds in R are given in ticks.         *)
(***************************************************************************)
EXTENDS Integers, Sequences, FiniteSetsExt

CONSTANTS
    Bars,       \* the OHLC bars that may follow one another
    Trades,     \* the trades walked, see Trade
    NBars       \* bars from the entry bar to the end of the data

Directions  == {"long", "short"}
Models      == {"sl_first", "path_open_proximity"}
EntryModels == {"next_bar_open", "3c_retrace_market", "bar3_stop_limit_fill"}

\* Thresholds and caps are 0 when they are not set.
IsTrade(t) ==
    /\ t.direction \in Directions /\ t.model \in Models /\ t.entry_model \in EntryModels
    /\ t.theoretical \in Nat /\ t.slip \in Nat /\ t.sl_pts \in Nat \ {0} /\ t.tp_pts \in Nat
    /\ t.breakeven_after \in Nat /\ t.trailing_after \in Nat /\ t.trailing_distance \in Nat
    /\ (t.trailing_after = 0) = (t.trailing_distance = 0)
    /\ t.same_bar \in BOOLEAN
    /\ t.max_holding_bars \in Nat /\ t.session_cap_bar \in 0..NBars

IsBar(b) == /\ b.low \in Int /\ b.high \in Int
            /\ b.open \in b.low..b.high /\ b.close \in b.low..b.high

ASSUME BarsAssumption == \A b \in Bars : IsBar(b)
ASSUME TradesAssumption == \A t \in Trades : IsTrade(t)
ASSUME NBarsAssumption == NBars \in Nat \ {0}

VARIABLES
    trade,      \* the trade, constant
    seen,       \* the bars up to the one walked last
    stop,       \* ExitManagementState
    excursion,  \* mae_pts and mfe_pts
    exit        \* the outcome, of reason "none" while the trade is open

vars == <<trade, seen, stop, excursion, exit>>

-----------------------------------------------------------------------------
(* Where a trade begins and what bounds it *)

Long == trade.direction = "long"

\* _admit_entry_candidates: slippage is adverse.
Entry == IF Long THEN trade.theoretical + trade.slip ELSE trade.theoretical - trade.slip

\* _fixed_bracket_prices
InitialStop == IF Long THEN Entry - trade.sl_pts ELSE Entry + trade.sl_pts
Target      == IF Long THEN Entry + trade.tp_pts ELSE Entry - trade.tp_pts

\* _exit_walk_bounds
Cap == Min({NBars} \cup {c \in {trade.max_holding_bars, trade.session_cap_bar} : c # 0})
Start == IF trade.same_bar THEN 1 ELSE 2

Managed == trade.breakeven_after # 0 \/ trade.trailing_after # 0

\* The price the bracket is activated at, on the entry bar of a retrace or a
\* stop-limit fill.
Activated(b) == b = 1 /\ trade.entry_model # "next_bar_open"

\* What the program may find as entry bar: a next_bar_open trade enters at its
\* open, a retrace where the bar has come back to its price or gapped through it,
\* a stop-limit fill at or beyond the open.
EntersOn(bar) ==
    \/ /\ trade.entry_model = "next_bar_open"
       /\ bar.open = trade.theoretical
    \/ /\ trade.entry_model = "3c_retrace_market"
       /\ IF Long THEN bar.low <= trade.theoretical ELSE bar.high >= trade.theoretical
    \/ /\ trade.entry_model = "bar3_stop_limit_fill"
       /\ trade.theoretical \in IF Long THEN bar.open..bar.high ELSE bar.low..bar.open

-----------------------------------------------------------------------------
(* intrabar.py: which of stop s and target g a bar meets first *)

\* Mutant: a stop that is just reached is not hit.
StrictHits(low, high, s, g) == IF Long THEN <<low < s, high >= g>> ELSE <<high > s, low <= g>>

Hits(low, high, s, g) == IF Long THEN <<low <= s, high >= g>> ELSE <<high >= s, low <= g>>

Between(x, a, b) == (a <= x /\ x <= b) \/ (b <= x /\ x <= a)
Distance(a, b) == IF a <= b THEN b - a ELSE a - b

HighFirst(bar) == <<bar.open, bar.high, bar.low, bar.close>>
LowFirst(bar)  == <<bar.open, bar.low, bar.high, bar.close>>

\* _path_after_entry; empty when the path does not meet the entry.
PathAfterEntry(path, activated) ==
    LET legs == {i \in 1..(Len(path) - 1) : Between(trade.theoretical, path[i], path[i + 1])} IN
    IF ~activated THEN path
    ELSE IF legs = {} THEN <<>>
    ELSE <<trade.theoretical>> \o SubSeq(path, Min(legs) + 1, Len(path))

\* _first_event_on_path. A tie on one leg is a stop.
FirstEvent(path, s, g) ==
    LET at == Hits(path[1], path[1], s, g)
        Legs == {i \in 1..(Len(path) - 1) : Between(s, path[i], path[i + 1])
                                            \/ Between(g, path[i], path[i + 1])}
        leg == Min(Legs)
        StopOn(i)   == Between(s, path[i], path[i + 1])
        TargetOn(i) == Between(g, path[i], path[i + 1])
    IN  IF at[1] THEN "SL" ELSE IF at[2] THEN "TP"
        ELSE IF Legs = {} THEN "none"
        ELSE IF StopOn(leg) /\ (TargetOn(leg) => Distance(s, path[leg]) <= Distance(g, path[leg]))
             THEN "SL" ELSE "TP"

\* Mutant: the target wins a bar that reaches both.
TargetFirst(bar, activated, s, g) ==
    LET hits == Hits(bar.low, bar.high, s, g) IN
    IF hits[2] THEN "TP" ELSE IF hits[1] THEN "SL" ELSE "none"

\* resolve_ohlc_bar, model "sl_first". On an entry bar only what every path meets
\* after the entry counts (_sl_first_hits_after_entry).
SlFirst(bar, activated, s, g) ==
    LET paths == {PathAfterEntry(p, TRUE) : p \in {HighFirst(bar), LowFirst(bar)}} \ {<<>>}
        HitsOn(p) == Hits(Min({p[i] : i \in DOMAIN p}), Max({p[i] : i \in DOMAIN p}), s, g)
        whole == Hits(bar.low, bar.high, s, g)
        hits == IF ~activated THEN whole
                ELSE <<paths # {} /\ \A p \in paths : HitsOn(p)[1],
                       paths # {} /\ \A p \in paths : HitsOn(p)[2]>>
    IN  IF ~whole[1] /\ ~whole[2] THEN "none"
        ELSE IF hits[1] THEN "SL" ELSE IF hits[2] THEN "TP" ELSE "none"

\* resolve_ohlc_bar, model "path_open_proximity".
OnPath(bar, activated, s, g) ==
    LET whole == Hits(bar.low, bar.high, s, g)
        up == bar.high - bar.open
        down == bar.open - bar.low
        paths == {PathAfterEntry(p, activated) :
                     p \in (IF up <= down THEN {HighFirst(bar)} ELSE {})
                           \cup (IF down <= up THEN {LowFirst(bar)} ELSE {})} \ {<<>>}
        events == {FirstEvent(p, s, g) : p \in paths}
    IN  IF ~whole[1] /\ ~whole[2] THEN "none"
        ELSE IF ~(whole[1] /\ whole[2]) /\ ~activated THEN IF whole[1] THEN "SL" ELSE "TP"
        ELSE IF "SL" \in events THEN "SL"
        ELSE IF events = {"TP"} THEN "TP" ELSE "none"

\* resolve_trade_bar
Resolve(bar, b, s, g) ==
    IF trade.model = "sl_first" THEN SlFirst(bar, Activated(b), s, g)
    ELSE OnPath(bar, Activated(b), s, g)

-----------------------------------------------------------------------------
(* exit_management.py: the stop of the next bar *)

Tighter(p, q) == IF Long THEN p > q ELSE p < q
Best(p, q) == IF Tighter(p, q) THEN p ELSE q
Behind(p, d) == IF Long THEN p - d ELSE p + d
Favorable(p) == IF Long THEN Max({0, p - Entry}) ELSE Max({0, Entry - p})
Extreme(bar) == IF Long THEN bar.high ELSE bar.low

\* initial_exit_management_state
InitialState == [effective |-> InitialStop, reason |-> "SL", best |-> Entry, armed |-> FALSE]

ToBreakeven(st) ==
    IF trade.breakeven_after = 0 \/ Favorable(st.best) < trade.breakeven_after THEN st
    ELSE [st EXCEPT !.armed = TRUE,
                    !.effective = Best(Entry, @),
                    !.reason = IF Tighter(Entry, st.effective) THEN "BE" ELSE @]

\* Mutant: the stop follows the best price also when that loosens it.
TrailLoosely(st) ==
    IF trade.trailing_after = 0 \/ Favorable(st.best) < trade.trailing_after THEN st
    ELSE [st EXCEPT !.effective = Behind(st.best, trade.trailing_distance), !.reason = "TRAIL"]

Trail(st) ==
    LET candidate == Behind(st.best, trade.trailing_distance) IN
    IF trade.trailing_after = 0 \/ Favorable(st.best) < trade.trailing_after THEN st
    ELSE [st EXCEPT !.effective = Best(candidate, @),
                    !.reason = IF Tighter(candidate, st.effective) THEN "TRAIL" ELSE @]

\* update_exit_management_after_bar
AfterBar(st, bar) == Trail(ToBreakeven([st EXCEPT !.best = Best(Extreme(bar), @)]))

\* A bar moves the stop when it completes and another one follows, the entry bar
\* only for a trade that was in it from its open.
MovesStop(b) == Managed /\ b < Cap /\ (b > 1 \/ trade.entry_model = "next_bar_open")

-----------------------------------------------------------------------------
(* walk_trade_exit *)

Open == [bar |-> 0, price |-> 0, reason |-> "none"]

Init ==
    /\ trade \in Trades
    /\ seen = <<>>
    /\ stop = InitialState
    /\ excursion = [mae |-> 0, mfe |-> 0]
    /\ exit = Open

Draw(bar) ==
    /\ exit = Open
    /\ Len(seen) < Cap
    /\ seen = <<>> => EntersOn(bar)
    /\ seen' = Append(seen, bar)
    /\ UNCHANGED trade

\* allow_same_bar_exit is off: the entry bar is not walked.
PassEntryBar(bar) ==
    /\ Draw(bar) /\ seen = <<>> /\ Start = 2
    /\ stop' = IF MovesStop(1) THEN AfterBar(stop, bar) ELSE stop
    /\ UNCHANGED <<excursion, exit>>

Adverse(bar)   == IF Long THEN Entry - bar.low ELSE bar.high - Entry
Favoring(bar)  == IF Long THEN bar.high - Entry ELSE Entry - bar.low

Widened(bar) == [mae |-> Max({excursion.mae, Adverse(bar)}),
                 mfe |-> Max({excursion.mfe, Favoring(bar)})]

\* What _finalize_exit_walk makes of a stop that was hit.
HitReason(kind) == IF kind = "SL" THEN stop.reason ELSE "TP"

\* Mutant: a bar moves the stop it is then tested against.
WalkBarAhead(bar) ==
    LET b == Len(seen) + 1
        moved == IF MovesStop(b) THEN AfterBar(stop, bar) ELSE stop
        kind == Resolve(bar, b, moved.effective, Target)
    IN  /\ Draw(bar) /\ b >= Start
        /\ excursion' = Widened(bar)
        /\ stop' = moved
        /\ exit' = IF kind = "none" THEN exit
                   ELSE [bar |-> b, reason |-> HitReason(kind),
                         price |-> IF kind = "SL" THEN moved.effective ELSE Target]

WalkBar(bar) ==
    LET b == Len(seen) + 1
        kind == Resolve(bar, b, stop.effective, Target)
    IN  /\ Draw(bar) /\ b >= Start
        /\ excursion' = Widened(bar)
        /\ IF kind = "none"
           THEN /\ stop' = IF MovesStop(b) THEN AfterBar(stop, bar) ELSE stop
                /\ UNCHANGED exit
           ELSE /\ exit' = [bar |-> b, reason |-> HitReason(kind),
                            price |-> IF kind = "SL" THEN stop.effective ELSE Target]
                /\ UNCHANGED stop

\* _finalize_exit_walk, nothing was hit.
ForcedReason ==
    IF trade.max_holding_bars = Cap THEN "TIME"
    ELSE IF trade.session_cap_bar = Cap THEN "SESSION_CLOSE" ELSE "EOD"

ForceExit ==
    /\ exit = Open /\ Len(seen) = Cap
    /\ exit' = [bar |-> Cap, price |-> seen[Cap].close, reason |-> ForcedReason]
    /\ UNCHANGED <<trade, seen, stop, excursion>>

Next == ForceExit \/ \E bar \in Bars : PassEntryBar(bar) \/ WalkBar(bar)

Spec == Init /\ [][Next]_vars

-----------------------------------------------------------------------------
(* _walk_trade_exit_sl_first_vectorized: the same walk over arrays *)

CanVectorize == trade.model = "sl_first" /\ ~Managed /\ ~Activated(Start)

Peak(distance(_), bars) == Max({0} \cup {distance(seen[b]) : b \in bars})

\* Mutant: the slice of the excursions ends before the bar of the hit.
ShortVectorWalk ==
    LET Hit(b) == Hits(seen[b].low, seen[b].high, InitialStop, Target)
        hits == {b \in Start..Len(seen) : Hit(b)[1] \/ Hit(b)[2]}
        first == Min(hits)
        window == Start..(IF hits = {} THEN Len(seen) ELSE first - 1)
    IN  [exit |-> IF hits = {} THEN Open
                  ELSE IF Hit(first)[1] THEN [bar |-> first, price |-> InitialStop, reason |-> "SL"]
                  ELSE [bar |-> first, price |-> Target, reason |-> "TP"],
         excursion |-> [mae |-> Peak(Adverse, window), mfe |-> Peak(Favoring, window)]]

VectorWalk ==
    LET Hit(b) == Hits(seen[b].low, seen[b].high, InitialStop, Target)
        hits == {b \in Start..Len(seen) : Hit(b)[1] \/ Hit(b)[2]}
        first == Min(hits)
        window == Start..(IF hits = {} THEN Len(seen) ELSE first)
    IN  [exit |-> IF hits = {} THEN Open
                  ELSE IF Hit(first)[1] THEN [bar |-> first, price |-> InitialStop, reason |-> "SL"]
                  ELSE [bar |-> first, price |-> Target, reason |-> "TP"],
         excursion |-> [mae |-> Peak(Adverse, window), mfe |-> Peak(Favoring, window)]]

-----------------------------------------------------------------------------
(* Properties *)

Reasons == {"none", "SL", "TP", "BE", "TRAIL", "TIME", "SESSION_CLOSE", "EOD"}

Stops      == [effective : Int, reason : {"SL", "BE", "TRAIL"}, best : Int, armed : BOOLEAN]
Excursions == [mae : Nat, mfe : Nat]
Exits      == [bar : Nat, price : Int, reason : Reasons]

TypeOK ==
    /\ trade \in Trades
    /\ seen \in Seq(Bars) /\ Len(seen) <= Cap
    /\ stop \in Stops /\ excursion \in Excursions
    /\ exit \in Exits /\ exit.bar <= Len(seen)

\* The stop never loosens (docs/ASSUMPTIONS_AND_LIMITATIONS.md 2a).
StopNeverLoosens == [][~Tighter(stop.effective, stop'.effective)]_vars

\* The bars that have moved the stop by now: completed without a hit, and
\* followed by another.
Completed == {b \in 1..(Len(seen) - (IF exit.bar = Len(seen) THEN 1 ELSE 0)) : MovesStop(b)}

\* However it got there, the stop is what the best price of the completed bars
\* calls for, and the bar the trade exits on has no part in it: no bar arms a stop
\* that it is then stopped by (update_exit_management_after_bar).
StopFollowsCompletedBars ==
    LET best == IF Completed = {} THEN Entry
                ELSE IF Long THEN Max({Entry} \cup {seen[b].high : b \in Completed})
                ELSE Min({Entry} \cup {seen[b].low : b \in Completed})
        stops == {InitialStop}
                 \cup (IF trade.breakeven_after # 0 /\ Favorable(best) >= trade.breakeven_after
                       THEN {Entry} ELSE {})
                 \cup (IF trade.trailing_after # 0 /\ Favorable(best) >= trade.trailing_after
                       THEN {Behind(best, trade.trailing_distance)} ELSE {})
    IN  stop.effective = IF Long THEN Max(stops) ELSE Min(stops)

\* A trade that is closed by a clock closes between its stop and its target: no
\* model overlooks a bracket, except on an entry bar that is not walked or that
\* has gapped through the entry.
ForcedExitMissesNothing ==
    exit.reason \in {"TIME", "SESSION_CLOSE", "EOD"}
    /\ exit.bar >= Start
    /\ (Activated(exit.bar) => trade.theoretical \in seen[exit.bar].low..seen[exit.bar].high) =>
        /\ Tighter(exit.price, stop.effective)
        /\ Tighter(Target, exit.price)

\* The vectorized walk and the serial one agree ("trade outputs stay
\* byte-identical to the serial reference").
VectorizedIsSerial ==
    CanVectorize =>
        /\ VectorWalk.exit = IF exit.reason \in {"SL", "TP"} THEN exit ELSE Open
        /\ VectorWalk.excursion = excursion

\* sl_first is the pessimistic model: where the path model is stopped, it is
\* stopped too, and on entry bars, where it may be neither, it never takes a target
\* on a bar the path model is stopped on.
SlFirstIsPessimistic ==
    [][seen' # seen =>
         LET b == Len(seen')
             path == OnPath(seen'[b], Activated(b), stop.effective, Target)
             first == SlFirst(seen'[b], Activated(b), stop.effective, Target)
         IN  path = "SL" => first # "TP" /\ (Activated(b) \/ first = "SL")]_vars
============================================================================
