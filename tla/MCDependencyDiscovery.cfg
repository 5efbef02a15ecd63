SPECIFICATION FairSpec
CONSTANTS
    Deps <- AllDeps
    Followed <- TwoOfThree
    MaxFaults = 1
    Faults = {"throw", "crash", "off"}
    Tokens = {"meta", "usdc"}
    Usdc = "usdc"
    Spot = {"meta"}
    Amms = {"amm"}
    Openbooks = {"ob"}
    Initially = {"ob", "meta"}
    Runs = {1, 2}
CHECK_DEADLOCK FALSE
INVARIANTS TypeOK StartedOnce OnlyMissedUnstarted
PROPERTIES MarketIndexed TokenPriced
