SPECIFICATION FairJobSpec
CONSTANTS
    NumProposals = 1
    Daos = {"meta"}
    Known = {"meta"}
    DaoOf <- OneDao
    Decimals <- SixDecimals
    EndSlot <- EndsAtFirst
    Book <- MoreTrades
    SpotAt <- RisingSpot
    MaxTime = 1
    Runs = {r1}
    r1 = r1
    MaxInserts = 1
    MaxFaults = 1
    Faults = {"throw", "crash"}
    JobRetries = 1
    maxResets = 1
CHECK_DEADLOCK FALSE
PROPERTIES PerformanceSettles
