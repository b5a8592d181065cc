CONSTANTS
    TableLen = 2
    OverlapSize = 3
    Beacons <- MCBeacons
    Ssids = {"x"}
    NewChannels = {36}
    MaxRewritten = 1
    MaxCiphers = 3
    Networks <- MCNetworks
    Pers = {0, 60}
    Dbms <- MCDbms
SPECIFICATION NetworkSpec
INVARIANTS NoTwins ShownIsAnnounced CandidatesSorted PairCiphersKept CandidateSpeaksOurCipher RateOnAirLegal
PROPERTIES LinkEntryStays
CHECK_DEADLOCK FALSE
