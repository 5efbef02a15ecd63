SPECIFICATION FairSpec
CONSTANTS
    Accts <- AmmAndDao
    Indexed <- JustAmm
    NumTxs = 2
    MaxSlot = 1
    SlotOf <- SameSlot
    Mentions <- DaoInSecond
    Swaps = {1, 2}
    Refused = {2}
    Subscribed = {1}
    MaxCrashes = 1
    Faults = {"crash", "lostLogs", "nullTx"}
CHECK_DEADLOCK FALSE
INVARIANTS TypeOK OrderGetsTake StoredIsCarried
PROPERTIES NoSwapLost ReplayCovers
