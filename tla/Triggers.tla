-------------------------------- MODULE Triggers --------------------------------
(***************************************************************************)
(* From bars and zones to signals (thesistester/engine/signals.py and      *)
(* signals_3c.py): trigger bars, the triggers that look at one or two of   *)
(* them, and the detection of three-candle set-ups, which scans ahead of   *)
(* every arrival. All of it is a function of the whole data and of the     *)
(* zones admitted on each of its bars.                                     *)
(***************************************************************************)
EXTENDS Zones

CONSTANTS
    MaxWait,    \* max_entry_wait_bars_after_reversal
    Retrace     \* entry_retrace_ticks

ASSUME MaxWaitAssumption == MaxWait \in Nat
ASSUME RetraceAssumption == Retrace \in Nat

Directions == {"long", "short"}

-----------------------------------------------------------------------------
(* Trigger bars *)

\* _prepare_trigger_dataframe: the buckets of w slots that hold a bar, the last one
\* perhaps not over yet; w = 0 is the base time frame, where a trigger bar ends when it
\* starts.
TriggerBars(df, w) ==
    LET keys   == IF w = 0 THEN [i \in DOMAIN df |-> i] ELSE Ordered(Buckets(df, w))
        Bar(k) == LET own == IF w = 0 THEN {k} ELSE InBucket(df, w, keys[k]) IN
                  [high |-> HighOf(df, own), low |-> LowOf(df, own), close |-> df[Max(own)].close,
                   first |-> Min(own), last |-> Max(own),
                   end |-> IF w = 0 THEN df[k].slot ELSE (keys[k] + 1) * w]
    IN [k \in DOMAIN keys |-> Bar(k)]

-----------------------------------------------------------------------------
(* touch, reject, break, reclaim, fade, continuation *)

Touched(bar, z) == bar.low <= z.high /\ bar.high >= z.low
Beyond(price, z, d) == IF d = "long" THEN price > z.high ELSE price < z.low

\* _check_reclaim: through the zone and closed back on the trade's side of it.
Reclaims(bar, z, d) ==
    /\ IF d = "long" THEN bar.low < z.low ELSE bar.high > z.high
    /\ Beyond(bar.close, z, d)

Opposite(d) == IF d = "long" THEN "short" ELSE "long"

\* The direction an approach implies: a fade trades back to the side the last close was
\* on, a continuation through the zone.
Approached(prev, z, trigger, d) == Beyond(prev.close, z, IF trigger = "fade" THEN d ELSE Opposite(d))

Fires(tb, k, z, trigger, d, confirm) ==
    CASE trigger = "touch"   -> Touched(tb[k], z)
      [] trigger = "reject"  -> Touched(tb[k], z) /\ Beyond(tb[k].close, z, d)
      [] trigger = "reclaim" -> Reclaims(tb[k], z, d)
      [] trigger = "break"   -> /\ k > 1
                                /\ ~Beyond(tb[k - 1].close, z, d)
                                /\ Beyond(tb[k].close, z, d)
      [] OTHER               -> /\ k > 1
                                /\ Approached(tb[k - 1], z, trigger, d)
                                /\ Touched(tb[k], z)
                                /\ confirm => Beyond(tb[k].close, z, d)

SimpleTriggers == {"touch", "reject", "reclaim", "break", "fade", "continuation"}

\* _dispatch_simple_triggers and _dispatch_approach_side_triggers, over the zones that
\* _admit_zones_for_signals lets in: those of the last bar of a bucket.
SimpleSignals(df, zones, w, confirm) ==
    LET tb == TriggerBars(df, w)
        On(k) == {<<k, z, t, d>> : z \in zones[tb[k].last], t \in SimpleTriggers, d \in Directions}
    IN {[trigger |-> f[3], direction |-> f[4], level |-> f[2].low, arrival |-> 0,
         bar |-> tb[f[1]].last, entry |-> 0, status |-> "candidate", time |-> tb[f[1]].end] :
           f \in {g \in UNION {On(k) : k \in DOMAIN tb} : Fires(tb, g[1], g[2], g[3], g[4], confirm)}}

-----------------------------------------------------------------------------
(* Three candles: an arrival at a level, any number of candles inside it, and the first
   one outside closing beyond it; then a retrace fills the set-up, or does not in time. *)

ArrivesAt(bar, p, d) ==
    IF d = "long" THEN bar.low <= p /\ bar.close > p ELSE bar.high >= p /\ bar.close < p

Inside(bar, outer) == bar.high <= outer.high /\ bar.low >= outer.low
Turns(bar, outer, d) == IF d = "long" THEN bar.close > outer.high ELSE bar.close < outer.low

\* _entry_trigger_price
TriggerPrice(reversal, d) == IF d = "long" THEN reversal.close - Retrace ELSE reversal.close + Retrace
Reaches(bar, price, d) == IF d = "long" THEN bar.low <= price ELSE bar.high >= price

\* The bars a retrace may come on, after the reversal r: the next MaxWait ones, or those
\* that start after the end of the bucket and no later than MaxWait buckets on.
Watched(df, tb, w, r) ==
    IF w = 0 THEN r + 1..Min({Len(df), r + MaxWait})
    ELSE {i \in tb[r].last + 1..Len(df) : df[i].slot \in tb[r].end + 1..tb[r].end + MaxWait * w}

Retraces(df, tb, w, r, d) == {i \in Watched(df, tb, w, r) : Reaches(df[i], TriggerPrice(tb[r], d), d)}

\* Mutant: the last retrace fills.
FillLast(df, tb, w, r, d) == Max({0} \cup Retraces(df, tb, w, r, d))

\* _scan_retrace_fill and _scan_retrace_after_trigger_ts
Fill(df, tb, w, r, d) == First(Retraces(df, tb, w, r, d))

\* What becomes of an arrival on trigger bar k, and the trigger bar until which the level
\* is silent for it: 0 as long as every later bar is inside.
Resolution(df, tb, w, k, d) ==
    LET out   == First({j \in k + 1..Len(tb) : ~Inside(tb[j], tb[k])})
        fill  == Fill(df, tb, w, out, d)
        until == IF w # 0 THEN out + MaxWait
                 ELSE IF fill # 0 THEN fill ELSE Min({Len(tb), out + MaxWait})
    IN CASE out = 0 -> [reversal |-> 0, entry |-> 0, until |-> 0]
         [] out # 0 /\ ~Turns(tb[out], tb[k], d) -> [reversal |-> 0, entry |-> 0, until |-> out]
         [] OTHER -> [reversal |-> out, entry |-> fill, until |-> until]

\* _project_zones_to_trigger_df: the candidates of a trigger bar are those of its bars.
Candidates(zones, tb, k) ==
    UNION {CandidatePrices(zones[i]) : i \in tb[k].first..tb[k].last}

Arrives(zones, tb, k, p, d) == p \in Candidates(zones, tb, k) /\ ArrivesAt(tb[k], p, d)

\* Mutant: a level is not silent while a set-up on it is being resolved.
TakenUpAll(df, zones, tb, w, p, d) == {k \in DOMAIN tb : Arrives(zones, tb, k, p, d)}

\* Until which trigger bar a level is silent in one direction, after each of them.
ActiveUntil(df, zones, tb, w, p, d) ==
    LET active[k \in 0..Len(tb)] ==
            IF k = 0 THEN 0
            ELSE IF k > active[k - 1] /\ Arrives(zones, tb, k, p, d)
                 THEN Max({active[k - 1], Resolution(df, tb, w, k, d).until})
                 ELSE active[k - 1]
    IN active

\* The arrivals detect_3c_setups takes up on one level in one direction: those that come
\* after the bar until which an earlier one keeps it silent (_3c_is_suppressed).
TakenUp(df, zones, tb, w, p, d) ==
    LET active == ActiveUntil(df, zones, tb, w, p, d)
    IN {k \in DOMAIN tb : Arrives(zones, tb, k, p, d) /\ k > active[k - 1]}

\* detect_3c_setups and detect_3c_setups_with_trigger_timeframe; one row for a level, a
\* direction and an arrival, however many zones share the level (_merge_3c_setup_rows).
Setups(df, zones, w) ==
    LET tb == TriggerBars(df, w)
        On(p, d) == {[price |-> p, direction |-> d, arrival |-> k, found |-> Resolution(df, tb, w, k, d)] :
                        k \in TakenUp(df, zones, tb, w, p, d)}
        prices == UNION {Candidates(zones, tb, k) : k \in DOMAIN tb}
    IN {s \in UNION {On(p, d) : p \in prices, d \in Directions} : s.found.reversal # 0}

\* _map_3c_setup_to_signal: indices of the data, and the end of the reversal bar as the
\* time of decision.
SetupSignals(df, zones, w) ==
    LET tb == TriggerBars(df, w)
        Signal(s, reversal, entry) ==
            [trigger |-> "3c", direction |-> s.direction, level |-> s.price,
             arrival |-> tb[s.arrival].last, entry |-> entry, time |-> reversal.end,
             bar |-> IF entry # 0 THEN entry ELSE reversal.last,
             status |-> IF entry # 0 THEN "filled" ELSE "void"]
    IN {Signal(s, tb[s.found.reversal], s.found.entry) : s \in Setups(df, zones, w)}

\* generate_signals, for all triggers at once; confirm is require_close_confirmation.
Signals(df, w, setup) ==
    LET zones == AdmittedZones(df, setup)
    IN IF df = <<>> THEN {} ELSE SimpleSignals(df, zones, w, setup.confirm) \cup SetupSignals(df, zones, w)
=============================================================================
