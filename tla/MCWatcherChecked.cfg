SPECIFICATION Spec
CONSTANTS
    Accts <- TwoAccts
    NumTxs = 3
    SlotOf <- SharedSlot
    Mentions <- DaoInSecond
    MaxSlot = 2
    Insts = {1, 2}
    AcctOf <- OneEach
    MAX_RETRIES = 12
    MaxVersion = 1
    MaxCrashes = 1
    Faults = {"throw", "crash", "rpcError"}
CHECK_DEADLOCK FALSE
INVARIANTS TypeOK CheckedImpliesStored
PROPERTIES BackedUpInOrder CheckedNeverMovesBack
