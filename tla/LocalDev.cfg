SPECIFICATION FairSpec
CONSTANTS
    Accounts = {a1, a2}
    Spender = spender
    Funded = {a2}
    MaxAccounts = 2
    Attempts = 2
    MaxJobs = 2
CHECK_DEADLOCK FALSE
INVARIANTS
    TypeOK
    ListedWereSent
    ListedWalletsHaveFunds
    SentAsAsked
    CleanExit
PROPERTIES
    OperationEnds
    OperationComesNearer
