SPECIFICATION FairSpec
CONSTANTS
    NumTxs = 6
    SlotOf <- SixTxs
    PageSize = 2
    maxRetries = 3
    None = None
    MaxFaults = 2
    Faults = {"throw", "order", "crash"}
    Idls <- TwoPrograms
    IdlDepth = 2
    Responses <- LastOdd
CHECK_DEADLOCK FALSE
INVARIANTS TypeOK CallsKept BalancesKept NamesApart
PROPERTIES AnswersInFull PagingEnds
