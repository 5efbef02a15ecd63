SPECIFICATION FairSpec
CONSTANTS
    Accts <- OneAcct
    NumTxs = 3
    SlotOf <- SharedSlot
    Mentions <- AmmOnly
    MaxSlot = 3
    Insts = {1}
    AcctOf <- AmmObject
    MAX_RETRIES = 12
    MaxVersion = 1
    MaxCrashes = 0
    Faults = {"rpcLoss"}
CHECK_DEADLOCK FALSE
PROPERTIES EventuallyStored CheckedCatchesUp
