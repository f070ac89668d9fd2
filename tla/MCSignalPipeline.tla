----------------------------- MODULE MCSignalPipeline -----------------------------
EXTENDS SignalPipeline

MCPrices == 1..16

\* Setups: one level, two levels close together, an anchor with its rules; with the naked
\* filter off, "any" and "all".
Cluster(selected, tolerance, minimum, naked, confirm) ==
    [mode |-> "global_cluster", selected |-> selected, tolerance |-> tolerance, minimum |-> minimum,
     maximum |-> 2, naked |-> naked, confirm |-> confirm]
Anchor(rules, minimum, naked) ==
    [mode |-> "anchor_rules", anchor |-> "a", rules |-> rules, minimum |-> minimum,
     naked |-> naked, confirm |-> FALSE]
Near(required) == [level |-> "b", tolerance |-> 1, required |-> required]

B(h, l, c, levels) == [slot |-> 0, high |-> h, low |-> l, close |-> c, levels |-> levels]
None   == [l \in {} |-> 0]
A(p)   == [l \in {"a"} |-> p]
AB(p, q) == [l \in {"a", "b"} |-> IF l = "a" THEN p ELSE q]

\* Arrivals, candles inside them, reversals with and without a sweep, a collapse.
Candles == {B(4, 2, 3, A(2)), B(3, 2, 3, A(2)), B(6, 3, 6, A(2)), B(5, 1, 5, A(2)), B(3, 1, 1, A(2))}
Coarse  == {B(4, 2, 3, A(2)), B(5, 3, 5, A(2)), B(3, 1, 1, A(2))}
Steps   == {B(3, 2, 3, A(2)), B(4, 3, 3, A(2))}

\* A level that moves or goes away, beside one that stays; a reversal off all of them.
Moving  == {B(4, 2, 4, AB(2, 3)), B(4, 2, 4, AB(3, 3)), B(6, 5, 6, AB(2, 3)), B(6, 4, 6, A(2))}

\* A market that only rises, with something to touch on its way.
Rising(n) == {B(n + 2, n + 1, n + 2, AB(n + 1, n + 2))}

Feed(bars, gaps, w, setup) ==
    [bars |-> bars, gaps |-> gaps, trigger_timeframe |-> w, setup |-> setup]
MCFeeds == {
    Feed([n \in 0..4 |-> Candles], {1}, 0, Cluster(<<"a">>, 0, 1, "off", FALSE)),
    Feed([n \in 0..6 |-> Coarse], {1, 2}, 2, Anchor(<<>>, 0, "off")),
    Feed([n \in 0..6 |-> Steps], {1, 2}, 0, Cluster(<<"a">>, 0, 1, "off", FALSE)),
    Feed([n \in 0..12 |-> Rising(n)], {1, 2}, 0, Cluster(<<"a", "b">>, 1, 2, "off", FALSE)),
    Feed([n \in 0..3 |-> Moving], {1}, 0, Cluster(<<"a", "b">>, 0, 1, "any", TRUE)),
    Feed([n \in 0..3 |-> Moving], {1}, 0, Anchor(<<Near(TRUE)>>, 1, "all")),
    Feed([n \in 0..3 |-> Moving], {1}, 2, Anchor(<<Near(FALSE)>>, 0, "any"))}

Unfiltered(fold, window, test, step, overlap) ==
    [fold_mode |-> fold, window_mode |-> window, train |-> 1, test |-> test, step |-> step,
     overlap |-> overlap, filter |-> FALSE, history |-> "fold_local",
     otf |-> [widths |-> {2}, session |-> 2, minimum |-> 1]]

Filtered(fold, train, test, history, widths) ==
    [fold_mode |-> fold, window_mode |-> "rolling", train |-> train, test |-> test, step |-> 1,
     overlap |-> "first", filter |-> TRUE, history |-> history,
     otf |-> [widths |-> widths, session |-> 3 * Max(widths), minimum |-> 1]]

MCPlans == {
    Unfiltered("bars", "rolling", 2, 2, "reject"),
    Unfiltered("bars", "anchored", 2, 1, "first"),
    Unfiltered("sessions", "rolling", 1, 1, "reject"),
    Unfiltered("sessions", "anchored", 2, 1, "last"),
    Filtered("bars", 3, 3, "causal_prefix", {2}),
    Filtered("bars", 3, 3, "fold_local", {2}),
    Filtered("bars", 4, 4, "causal_prefix", {2, 4}),
    Filtered("sessions", 1, 1, "causal_prefix", {2})}
================================================================================
