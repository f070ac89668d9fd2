SPECIFICATION Spec
CONSTANTS
    g1 = g1
    g2 = g2
    Groups = {g1, g2}
    NSignals = 3
    NBars = 3
    Gates <- MCGates
    Configs <- MCConfigs
SYMMETRY Symmetry
INVARIANTS NeverTogether SkipsAreJustified PairsAreSkipped EverySignalIsAnswered
CHECK_DEADLOCK FALSE
