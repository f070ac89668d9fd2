------------------------------- MODULE WalkForward -------------------------------
(***************************************************************************)
(* Walk-forward windows (thesistester/analytics/walk_forward.py): where    *)
(* the folds lie, which signals a window gets and at which of its own      *)
(* indices, which history the signals of a window are filtered with, and   *)
(* how the out-of-sample entries of all windows are put together.          *)
(*                                                                         *)
(* A plan is [fold_mode, window_mode, train, test, step, overlap, history, *)
(* otf]: lengths are in bars or in sessions; otf is a setting of OtfFilter.*)
(* A window is the bars start..stop, from 1.                               *)
(***************************************************************************)
EXTENDS OtfFilter

IsPlan(p) ==
    /\ p.fold_mode \in {"bars", "sessions"} /\ p.window_mode \in {"rolling", "anchored"}
    /\ p.overlap \in {"reject", "first", "last"} /\ p.history \in {"fold_local", "causal_prefix"}
    /\ {p.train, p.test, p.step, p.otf.session, p.otf.minimum} \subseteq Nat \ {0}
    /\ p.otf.widths \subseteq Nat \ {0} /\ p.filter \in BOOLEAN

\* The units test windows start with: bars, or the sessions of the data.
TestStarts(units, plan) ==
    {n \in plan.train + 1..units - plan.test + 1 : (n - plan.train - 1) % plan.step = 0}

\* _session_fold_boundaries: sessions in order, and the bars of each.
SessionRanges(df, o) ==
    LET ids == Ordered({SessionOf(df[i].slot, o) : i \in DOMAIN df})
        Own(k) == {i \in DOMAIN df : SessionOf(df[i].slot, o) = ids[k]}
    IN [k \in DOMAIN ids |-> [start |-> Min(Own(k)), stop |-> Max(Own(k))]]

\* _bar_fold_boundaries or _session_fold_boundaries; folds are known by the unit their
\* test window starts with.
Folds(df, plan) ==
    LET ranges == IF plan.fold_mode = "bars" THEN [i \in DOMAIN df |-> [start |-> i, stop |-> i]]
                  ELSE SessionRanges(df, plan.otf)
        Window(a, b) == [start |-> ranges[a].start, stop |-> ranges[b].stop]
    IN {[id |-> n,
         train |-> Window(IF plan.window_mode = "anchored" THEN 1 ELSE n - plan.train, n - 1),
         test  |-> Window(n, n + plan.test - 1)] : n \in TestStarts(Len(ranges), plan)}

Within(n, w) == n \in w.start..w.stop
Size(w) == w.stop - w.start + 1

\* Mutant: a signal always belongs to the window that triggered it.
ActionableAtTrigger(sig, plan) == IF sig.entry # 0 THEN sig.entry ELSE sig.bar

\* _actionable_index_column: the entry where it is known; otherwise the bar that triggered
\* or, where windows own entries, the bar after it.
Actionable(sig, plan) ==
    IF sig.entry # 0 THEN sig.entry
    ELSE IF plan.fold_mode = "sessions" THEN sig.bar + 1 ELSE sig.bar

\* _slice_signals: a signal in the indices of window w, with the signal it came from.
Sliced(sigs, w, plan) ==
    LET Local(sig) == [sig |-> sig, bar |-> sig.bar - w.start + 1,
                       entry |-> IF sig.entry = 0 THEN 0 ELSE sig.entry - w.start + 1]
    IN {l \in {Local(sig) : sig \in {s \in sigs : Within(Actionable(s, plan), w)}} :
           /\ plan.fold_mode = "sessions" \/ l.bar \in 1..Size(w)
           /\ l.sig.trigger = "3c" => l.sig.entry # 0 /\ l.entry \in 1..Size(w)}

\* _otf_source_for_fold
Source(df, w, plan) == SubSeq(df, IF plan.history = "fold_local" THEN w.start ELSE 1, w.stop)

\* A window's signals, after _filter_fold_signals_with_otf when the filter is on.
Admitted(df, sigs, w, plan) ==
    LET own == Sliced(sigs, w, plan) IN
    IF plan.filter
    THEN {l \in own : l.sig \in Accepted(Source(df, w, plan), plan.otf, {m.sig : m \in own})}
    ELSE own

\* The entry bar the simulator takes a signal of n bars at, 0 when it is beyond them
\* (backtest.py, _admit_entry_candidates).
EntryBar(l, n) ==
    LET e == IF l.sig.trigger = "3c" THEN l.entry ELSE l.bar + 1
    IN IF l.sig.status # "void" /\ e <= n THEN e ELSE 0

\* run_walk_forward_sl_tp: the entries of a fold's test window, in the indices of the data.
\* Every fold's training selected something, and no policy refuses an entry.
OutOfSample(df, sigs, plan, fold) ==
    {[sig |-> l.sig, fold |-> fold.id, entry |-> EntryBar(l, Size(fold.test)) + fold.test.start - 1] :
        l \in {m \in Admitted(df, sigs, fold.test, plan) : EntryBar(m, Size(fold.test)) # 0}}

Overlapping(folds) ==
    \E f, g \in folds : f.id < g.id /\ g.test.start <= f.test.stop

\* _stitch_walk_forward_oos: the trades of the stitched equity are none, all, or of every
\* signal and entry the row of the first or of the last fold.  (What is returned beside it
\* as oos_trades is the same, but all rows where folds that overlap are rejected.)
Stitched(df, sigs, plan) ==
    LET folds == Folds(df, plan)
        raw   == UNION {OutOfSample(df, sigs, plan, f) : f \in folds}
        Same(r) == {q.fold : q \in {x \in raw : x.sig = r.sig /\ x.entry = r.entry}}
    IN CASE ~Overlapping(folds)      -> raw
         [] Overlapping(folds) /\ plan.overlap = "reject" -> {}
         [] OTHER -> {r \in raw : r.fold = IF plan.overlap = "first" THEN Min(Same(r)) ELSE Max(Same(r))}
=============================================================================
