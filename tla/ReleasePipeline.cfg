CONSTANTS
    Base = base
    Runs = {r1, r2, r3}
    Bases = {base}
    Builds = {"nightly", "rc"}
    Legacy <- MCLegacy
    NumberFloor = 2
    Parallel = {1, 2}
    MaxAttempts = 4
    None = None
SPECIFICATION Spec
SYMMETRY Symmetry
CHECK_DEADLOCK FALSE
INVARIANTS
    PublishedConsumed
    StableIsCandidate
PROPERTIES
    ImplementsAllocator
    NoDowngrade
    NoCandidateAfterStable
    TagsAreImmutable
