CONSTANTS
    TxRingSize = 3
    MaxTxProcess = 2
    MaxFrags = 2
    Protection = TRUE
    Aggregation = {TRUE, FALSE}
    TxSmp = FALSE
    MaxTxPackets = 2
    MaxTxUpsets = 2
    RxRingSize = 2
    SeqSpace = 3
    FirstSeqs = {2}
    MaxMsdus = 2
    EapolTakers = {"daemon", "mlme"}
    Tkip = {TRUE, FALSE}
    MaxMsduFrags = 2
    Broadcasts = TRUE
    MaxRxQueue = 0
    MaxRxUpsets = 2
    LifeFailures = {"device", "table", "regions", "map", "netdev", "adapter", "chip", "request", "size", "crc", "version", "mcu", "register", "tx", "buffers", "irq", "resume"}
    RadioSwitch = TRUE
    ClosedCalls = FALSE
    NKeys = 2
    WepKeys <- MCWepKeys
    WpaKeys = {"k"}
    KeyScenarios <- MCKeyScenarios
SPECIFICATION DataPathSpec
INVARIANTS PacketsConserved RingWindow  NoBufferTwice  NothingLeftBehind RingsWhileListening InterruptsComeBack ChipHasTheKey
PROPERTIES PlainDataNeedsOpenPort
CHECK_DEADLOCK FALSE
