SPECIFICATION Spec
CONSTANTS
    Accts <- OneAcct
    NumTxs = 3
    SlotOf <- SharedSlot
    Mentions <- AmmOnly
    MaxSlot = 2
    w1 = w1
    w2 = w2
    Insts = {w1, w2}
    AcctOf <- AmmObjects
    MAX_RETRIES = 0
    MaxVersion = 2
    MaxCrashes = 1
    Faults = {"crash", "parse", "rpcError", "upgrade", "disable"}
CHECK_DEADLOCK FALSE
SYMMETRY ObjectSymmetry
VIEW OrderView
INVARIANTS LatestIsPrefix FirstIsEarliest
PROPERTIES BackedUpInOrder
