----------------------------- MODULE MCJournalPairs -----------------------------
EXTENDS JournalPairs

Row(group, contract, day, side, qty, n, kind) ==
    [group |-> group, contract |-> contract, day |-> day, side |-> side, qty |-> qty,
     price |-> <<3, 10, 4, 21, 7>>[n], kind |-> kind]

\* Frames of n fills whose fields are functions of the fill.
Frames(n, groups, contracts, days, quantities, kinds) ==
    {[k \in 1..n |-> Row(g[k], c[k], d[k], s[k], q[k], k, m[k])] :
        g \in [1..n -> groups], c \in [1..n -> contracts],
        d \in {x \in [1..n -> days] : \A k \in 1..n - 1 : x[k] <= x[k + 1]},
        s \in {x \in [1..n -> Sides] : x[1] = "buy"}, q \in [1..n -> quantities], m \in kinds}

AllImported(n) == {[k \in 1..n |-> "imported"]}
SomeManual(n, m) ==
    {[k \in 1..n |-> IF k \in x THEN "manual" ELSE "imported"] :
        x \in {y \in SUBSET (1..n) : Cardinality(y) = m}}

\* The second group comes after the first, and both are there.
TwoGroups(r) == LET Of(g) == {k \in DOMAIN r : r[k].group = g} IN
    Of(1) # {} /\ Of(2) # {} /\ Min(Of(1)) < Min(Of(2))

MCInputs ==
    {[rows |-> r, manual |-> FALSE] :
        r \in Frames(4, {0, 1}, {1}, {1, 2}, 1..2, AllImported(4))
              \cup {x \in Frames(4, 0..2, {1}, {1}, 1..2, AllImported(4)) : TwoGroups(x)}
              \cup Frames(3, {0, 1}, {1, 2}, {1}, 1..2, AllImported(3))}
    \cup {[rows |-> r, manual |-> m] :
        r \in Frames(3, {0, 1}, {1}, {1}, 1..3, SomeManual(3, 1))
              \cup Frames(4, {0, 1}, {1}, {1}, {1}, SomeManual(4, 2)), m \in BOOLEAN}
================================================================================
