CONSTANTS
    h1 = h1
    h2 = h2
    Hashes <- MCHashes
    MaxChain = 3
SPECIFICATION Spec
INVARIANT RejectCloses
CHECK_DEADLOCK FALSE
