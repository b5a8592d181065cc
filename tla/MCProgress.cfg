CONSTANTS
    Modes = {"WPAPSK", "WPA2PSK"}
    Failures = {"pool", "random", "prf", "out", "key", "skb"}
    MaxFaults = 3
    MaxTries = 3
    MaxRekeys = 1
    Networks <- MCNetworks
    Pers = {0, 60}
    Dbms <- MCDbms
    PsSecured = TRUE
    MaxTxQueued = 2
    MaxHeld = 2
    MaxPsUpsets = 3
    s1 = s1
    s2 = s2
    s3 = s3
    Station = {s1, s2, s3}
    NBytes = 2
    Own <- Chain
SPECIFICATION ProgressSpec
INVARIANTS DoneMeansSameKey OpenPortHasGroupKey
PROPERTIES PortOpensEncrypted MergesUpwards HandshakeCompletes ClimbsToMax KeptIsFetched IbssConverges
CHECK_DEADLOCK FALSE
