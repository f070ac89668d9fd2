SPECIFICATION Spec
CONSTANTS
    Inputs <- MCInputs
    PerSide = 1
    Extra = 60
INVARIANTS LotsAreAccounted TradesAreRoundTrips DaysAddUp
