\* Six setpoints: below the range, its end, steps of exactly the tolerance from
\* there, one of twice that, and one above the range.
CONSTANTS
    MaxCurrent = 4
    Tolerance = 1
    Setpoints <- MCSetpoints
    SwitchEntity = FALSE
    None = None
SPECIFICATION ServiceSpec
INVARIANTS
    NoOldReadings
    OneSnapshotShown
    SetpointMirrored
    StartStopMirrored
