\* Two failures in a row, three sizes of the signed transaction, which may use up
\* the attempts, a wallet that is sometimes too poor for the largest size, a crash.
SPECIFICATION PublisherFairSpec
CONSTANTS
    ValidFor = 16
    RenewInterval = 4
    MaxDelay = 1
    MaxFails = 2
    FeeRate = 2
    Dust = 1
    Balances = {7, 10}
    Sizes = {2, 3, 4}
    MaxAttempts = 3
    MaxCrashes = 1
INVARIANTS
    StaysRegistered
    FeeIsPaid
PROPERTY RegisteredAgain
CHECK_DEADLOCK FALSE
