CONSTANTS
    ap1 = ap1
    ap2 = ap2
    peer = peer
    zero = zero
    fresh = fresh
    NoBss = zero
    NewIbss = fresh
    MaxLen = 6
    Scenarios <- SelfWaitScenarios
SPECIFICATION Spec
INVARIANTS NoSelfWait
