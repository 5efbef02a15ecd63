SPECIFICATION Spec
CONSTANTS
    NumProposals = 1
    Daos = {"meta"}
    Known = {"meta"}
    DaoOf <- OneDao
    Decimals <- SixDecimals
    EndSlot <- EndsAtFirst
    Book <- NoTrades
    SpotAt <- RisingSpot
    MaxTime = 2
    Runs = {r1, r2}
    r1 = r1
    r2 = r2
    MaxInserts = 2
    MaxFaults = 1
    Faults = {"throw", "crash"}
CHECK_DEADLOCK FALSE
SYMMETRY RunSymmetry
INVARIANTS TypeOK OutcomesAgree
PROPERTIES CompletedOnce SettledVaultStays
