---------------------------------- MODULE Zones ----------------------------------
(***************************************************************************)
(* From levels to zones (thesistester/engine/confluence.py,                *)
(* anchor_confluence.py, naked.py): where levels of a bar lie together,    *)
(* which levels price has not traded back to, and which zones a setup      *)
(* admits.                                                                 *)
(*                                                                         *)
(* A setup is [mode, naked, confirm, ...]: for global_cluster with         *)
(* selected (a sequence of names), tolerance, minimum and maximum; for     *)
(* anchor_rules with anchor, rules (a sequence of [level, tolerance,       *)
(* required]) and minimum. A zone is [low, high, levels]; it is made of    *)
(* the prices of the levels of one bar, a function of their names.         *)
(***************************************************************************)
EXTENDS Bars, SequencesExt

Abs(x) == IF x < 0 THEN -x ELSE x

Zone(prices, names) ==
    LET levels == Restrict(prices, names)
    IN [low |-> Min(Range(levels)), high |-> Max(Range(levels)), levels |-> levels]

\* detect_confluence_zones: levels by price, equal ones in the order selected; from the
\* lowest on, every level within the tolerance above it, if they are enough, and then on
\* from the next; of too many the lowest make the zone.
Clusters(prices, setup) ==
    LET name   == setup.selected
        P(i)   == prices[name[i]]
        sorted == SetToSortSeq({i \in DOMAIN name : name[i] \in DOMAIN prices},
                               LAMBDA i, j : P(i) < P(j) \/ (P(i) = P(j) /\ i < j))
        Upto(j)  == Max({k \in j..Len(sorted) : P(sorted[k]) - P(sorted[j]) <= setup.tolerance})
        Names(j) == {name[sorted[k]] : k \in j..Min({Upto(j), j + Min({setup.maximum, 5}) - 1})}
        from[j \in 1..Len(sorted) + 1] ==
            IF j > Len(sorted) THEN {}
            ELSE IF Upto(j) - j + 1 >= setup.minimum
                 THEN {Zone(prices, Names(j))} \cup from[Upto(j) + 1] ELSE from[j + 1]
    IN from[1]

\* detect_anchor_confluence_zones: the anchor with the levels whose rule holds, if those
\* required are among them and they are enough.
Anchored(prices, setup) ==
    LET Holds(r) == /\ r.level \in DOMAIN prices
                    /\ Abs(prices[r.level] - prices[setup.anchor]) <= r.tolerance
        valid    == {i \in DOMAIN setup.rules : Holds(setup.rules[i])}
        required == {i \in DOMAIN setup.rules : setup.rules[i].required}
    IN IF setup.anchor \in DOMAIN prices /\ required \subseteq valid /\ Cardinality(valid) >= setup.minimum
       THEN {Zone(prices, {setup.anchor} \cup {setup.rules[i].level : i \in valid})} ELSE {}

DetectZones(prices, setup) ==
    IF setup.mode = "global_cluster" THEN Clusters(prices, setup) ELSE Anchored(prices, setup)

-----------------------------------------------------------------------------
TradesAt(bar, p) == bar.low <= p /\ bar.high >= p

\* flag_naked_levels: a level is naked on the bar it appears or moves on, whatever that
\* bar trades at, and from then on until a bar trades at it.
NakedLevels(df) ==
    LET Forms(i, l) == i = 1 \/ l \notin DOMAIN df[i - 1].levels \/ df[i - 1].levels[l] # df[i].levels[l]
        naked[i \in 0..Len(df)] ==
            IF i = 0 THEN {}
            ELSE {l \in DOMAIN df[i].levels :
                     Forms(i, l) \/ (l \in naked[i - 1] /\ ~TradesAt(df[i], df[i].levels[l]))}
    IN naked

\* naked_only with naked_requirement, or "off"
NakedEnough(zone, naked, requirement) ==
    CASE requirement = "off" -> TRUE
      [] requirement = "any" -> DOMAIN zone.levels \cap naked # {}
      [] requirement = "all" -> DOMAIN zone.levels \subseteq naked

\* _admit_zones_for_signals, by bar; the simple triggers take those of a bucket's last bar.
AdmittedZones(df, setup) ==
    LET naked == NakedLevels(df)
    IN [i \in DOMAIN df |-> {z \in DetectZones(df[i].levels, setup) : NakedEnough(z, naked[i], setup.naked)}]

\* from_global_cluster_zones, from_anchor_zones: every level of every zone.
CandidatePrices(zones) == UNION {Range(z.levels) : z \in zones}
=============================================================================
