CONSTANTS
    rx = rx
    periodic = periodic
    user = user
    auth = auth
    tx = tx
    a = a
    b = b
    none = none
    MaxLen = 2
    Msg = {a}
    NoMsg = none
    Rx = rx
    Periodic = periodic
    User = user
    MlmeTimers = {auth}
    Txs = {}
SPECIFICATION RestartSpec
INVARIANTS OneRunner NoLostWakeup
