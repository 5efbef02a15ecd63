SPECIFICATION FairSpec
CONSTANTS
    Accts <- OneAcct
    NumTxs = 1
    SlotOf <- OneTx
    Mentions <- JustAmm
    MaxSlot = 1
    Insts = {1}
    AcctOf <- AmmObject
    MAX_RETRIES = 12
    MaxVersion = 1
    MaxCrashes = 0
    Faults = {"rpcError"}
CHECK_DEADLOCK FALSE
PROPERTIES RetriesAfterError
