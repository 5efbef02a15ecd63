SPECIFICATION FairJobSpec
CONSTANTS
    NumProposals = 2
    Daos = {"meta","drift"}
    Known = {"meta"}
    DaoOf <- OwnDaos
    Decimals <- SixDecimals
    EndSlot <- EndsAtFirst
    Book <- NoTrades
    SpotAt <- RisingSpot
    MaxTime = 1
    Runs = {r1}
    r1 = r1
    MaxInserts = 1
    MaxFaults = 1
    Faults = {"throw", "crash"}
    JobRetries = 1
    maxResets = 1
CHECK_DEADLOCK FALSE
PROPERTIES Settles
