CONSTANTS
    TxRingSize = 3
    MaxTxProcess = 2
    MaxFrags = 2
    Protection = TRUE
    Aggregation = {TRUE}
    TxSmp = FALSE
    MaxTxPackets = 2
    MaxTxUpsets = 1
SPECIFICATION TxSpec
INVARIANTS NoPacketLost
CHECK_DEADLOCK FALSE
