SPECIFICATION Spec
CONSTANTS
    MaxPrice = 5
    NBars = 3
    Bars <- MCBars
    Trades <- MCTrades
INVARIANTS StopFollowsCompletedBars ForcedExitMissesNothing VectorizedIsSerial
PROPERTIES StopNeverLoosens SlFirstIsPessimistic
CHECK_DEADLOCK FALSE
