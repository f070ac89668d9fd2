-------------------------------- MODULE OtfFilter --------------------------------
(***************************************************************************)
(* One-timeframing (thesistester/engine/otf.py, otf_filter.py): bars of a  *)
(* higher time frame, the state they are in, and the state a signal is     *)
(* admitted by. A source is a sequence of bars; a setting                  *)
(* is [widths, session, minimum]: the slots of higher bars and of a        *)
(* trading session, and minimum_consecutive_bars; below, o is a setting    *)
(* with one width.                                                         *)
(***************************************************************************)
EXTENDS Bars

Gaps(src) == [i \in 1..Len(src) - 1 |-> src[i + 1].slot - src[i].slot]

\* infer_base_interval: the most frequent gap, the first to appear among equals.
Interval(src) ==
    LET g == Gaps(src)
        Count(x) == Cardinality({i \in DOMAIN g : g[i] = x})
    IN g[Min({i \in DOMAIN g : \A j \in DOMAIN g : Count(g[j]) <= Count(g[i])})]

\* _infer_validated_source_interval does not raise.
Usable(src, o) ==
    Len(src) >= 2 /\ LET i == Interval(src) IN /\ \A k \in DOMAIN Gaps(src) : Gaps(src)[k] % i = 0
                                               /\ i < o.width /\ o.width % i = 0

SessionOf(slot, o) == slot \div o.session

\* Mutant: a bucket counts as soon as it holds a bar.
CompleteEver(src, o, b) == TRUE

\* _filter_complete_htf_buckets and _discard_partial_first_buckets: every bar of the
\* bucket is there, and none of its session's bars is missing before them.
Complete(src, o, b) ==
    LET slots == {src[i].slot : i \in DOMAIN src}
        start == b * o.width
        step  == Interval(src)
    IN /\ {s \in slots : s \div o.width = b} = {start + k * step : k \in 0..(o.width \div step) - 1}
       /\ start + o.width <= Max(slots) + step
       /\ start >= Min({s \in slots : SessionOf(s, o) = SessionOf(start, o)})

HigherBars(src, o) ==
    LET starts == Ordered({b \in Buckets(src, o.width) : Complete(src, o, b)})
    IN [k \in DOMAIN starts |->
           LET own == InBucket(src, o.width, starts[k]) IN
           [high |-> HighOf(src, own), low |-> LowOf(src, own),
            session |-> SessionOf(starts[k] * o.width, o), close |-> (starts[k] + 1) * o.width]]

\* _run_state_machine: runs of higher lows and of lower highs, from the first bar of a
\* session on.
Opens(bars, k) == k = 1 \/ bars[k].session # bars[k - 1].session

\* How many bars there have been in a row since one that breaks the run.
Streaks(breaks) ==
    LET run[k \in DOMAIN breaks] == IF breaks[k] THEN 0 ELSE run[k - 1] + 1 IN run

HigherLows(bars) ==
    Streaks([k \in DOMAIN bars |-> Opens(bars, k) \/ bars[k].low <= bars[k - 1].low])
LowerHighs(bars) ==
    Streaks([k \in DOMAIN bars |-> Opens(bars, k) \/ bars[k].high >= bars[k - 1].high])

States(bars, o) ==
    LET up   == HigherLows(bars)
        down == LowerHighs(bars)
        Long(run) == run >= o.minimum
    IN [k \in DOMAIN bars |->
           CASE Opens(bars, k) -> "unknown"
             [] ~Opens(bars, k) /\ Long(up[k]) /\ ~Long(down[k]) -> "up"
             [] ~Opens(bars, k) /\ Long(down[k]) /\ ~Long(up[k]) -> "down"
             [] OTHER -> "neutral"]

\* _align_otf_state: the last higher bar that was closed by the time of decision.
StateAt(bars, states, time) ==
    LET closed == {k \in DOMAIN bars : bars[k].close <= time}
    IN IF closed = {} THEN "unknown" ELSE states[Max(closed)]

\* _evaluate_signal_eligibility
Required(sig) == IF sig.direction = "long" THEN "up" ELSE "down"

OneWidth(setting, w) == [width |-> w, session |-> setting.session, minimum |-> setting.minimum]

\* apply_otf_filter: alignment_mode "all" asks every time frame; and
\* _filter_fold_signals_with_otf: a source that one of them cannot use rejects every signal.
Accepted(src, setting, sigs) ==
    LET Refused(w) == LET o      == OneWidth(setting, w)
                          bars   == HigherBars(src, o)
                          states == States(bars, o)
                      IN IF Usable(src, o)
                         THEN {s \in sigs : StateAt(bars, states, s.time) # Required(s)} ELSE sigs
    IN sigs \ UNION {Refused(w) : w \in setting.widths}
=============================================================================
