\* Two failures open the breaker and the streak goes on for two more probes; the
\* clock covers two reset timeouts after them and several discoveries.  The bounds
\* of the clock and of the streak end every behaviour, so deadlock is not checked.
CONSTANTS
    Threshold = 2
    ResetTimeout = 2
    MaxTime = 6
    MaxStreak = 4
    Meters = {m1, m2}
    NoMeter = none
    Interval = 2
SYMMETRY MeterSymmetry
SPECIFICATION CollectionSpec
CHECK_DEADLOCK FALSE
INVARIANTS
    OpensAtThreshold
    OneMeter
    CollectedSinceStart
PROPERTIES
    ProbesAreSpaced
    DiscoveriesAreSpaced
