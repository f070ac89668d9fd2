SPECIFICATION Spec
CONSTANTS
    MaxWait = 2
    Retrace = 1
    Prices <- MCPrices
    Feeds <- MCFeeds
    Plans <- MCPlans
INVARIANTS BatchIsLive FilteredByTheKnown OwnedOnce
PROPERTIES SignalsStand
CHECK_DEADLOCK FALSE
