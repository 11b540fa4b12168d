\* Three blocks, a crash.
SPECIFICATION FairSpec
CONSTANTS
    a1 = a1
    a2 = a2
    b1 = b1
    txA = txA
    txB = txB
    Pin = {a1, a2, b1}
    Tx = {txA, txB}
    Blocks <- MCBlocks
    TxPins <- MCTxPins
    StartHeight = 0
    DedupeTTL = 1
    MaxCrashes = 1
INVARIANTS
    NoBlockLost
    SeenIsRouted
PROPERTIES
    CatchesUp
    ImplementsLog
CHECK_DEADLOCK FALSE
