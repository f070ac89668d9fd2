------------------------------- MODULE MCBacktest -------------------------------
EXTENDS Backtest, TLC

CONSTANTS g1, g2

MCConfigs ==
    [policy : Policies, cooldown : {0, 1}, same_bar : {"legacy", "skip_both"}]
    \cup [policy : {"single_position", "single_setup"}, cooldown : {0}, same_bar : {"raise"}]

MCGates ==
    {[b \in BarIndexes |-> "admit"],
     [b \in BarIndexes |-> IF b = 1 THEN "outside_entry_window"
                           ELSE IF b = NBars THEN "after_entry_cutoff" ELSE "admit"],
     [b \in BarIndexes |-> IF b = 2 THEN "empty_session_close_cap" ELSE "admit"]}

Symmetry == Permutations(Groups)
================================================================================
