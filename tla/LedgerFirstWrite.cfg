CONSTANTS
    Base = base
    Runs = {r1, r2}
    Bases = {base}
    Builds = {"nightly", "rc"}
    Legacy <- MCLegacy
    NumberFloor = 2
    Parallel = {1}
    MaxAttempts = 3
    None = None
SPECIFICATION Spec
CHECK_DEADLOCK FALSE
INVARIANTS
    LedgerReadable
