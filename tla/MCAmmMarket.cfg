SPECIFICATION FairSpec
CONSTANTS
    MaxSlot = 3
    MaxVersion = 2
    LiveFrom = 2
    Start = Start
    Ticks = {tick1, tick2}
    tick1 = tick1
    tick2 = tick2
    MaxFaults = 1
    Faults = {"throw", "crash", "lost"}
CHECK_DEADLOCK FALSE
INVARIANTS TypeOK OnePricePerSlot TwapGetsPrice
PROPERTIES PriceCatchesUp
