SPECIFICATION NonceSpec
CONSTANTS
    Nonce = {"k1", "k2"}
    Timestamp <- MCTimestamp
    Handler = {"h1", "h2"}
    Drift = 2
    MaxDelay = 3
    MaxTime = 8
CHECK_DEADLOCK FALSE
INVARIANTS Evicts
PROPERTIES ReuseGap OncePerWindow
