SPECIFICATION FairSpec
CONSTANTS
    Deps <- MintAndMarket
    Jobs <- MintJobs
    AcctOf <- AcctsOfRows
    Retries <- OnlyQuoteRetries
    maxResets = 2
    MaxRuns = 2
    MaxRestarts = 1
    Faults = {"crash", "throw"}
CHECK_DEADLOCK FALSE
INVARIANTS TypeOK DisabledByFinalFailure PausedWillResume
PROPERTIES KeepsFetching GivesUp
