SPECIFICATION Spec
CONSTANTS
    Accounts = {a1, a2}
    Spender = spender
    Funded = {a2}
    MaxAccounts = 2
    Attempts = 3
    MaxJobs = 1
CHECK_DEADLOCK FALSE
INVARIANT RecipientWalletsClosed
