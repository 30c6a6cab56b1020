\* One input that the artifact declares and one that it does not; two edits
\* are an edit and its undoing.
CONSTANTS
    Inputs = {"version", "uv.lock"}
    Inspected = {"version"}
    Plans = {"beta.2", "rc.1", "rc.2"}
    Package <- PackageOf
    Base = 0
    MaxEdits = 2
    MaxStops = 1
SPECIFICATION BuildFairSpec
INVARIANTS
    PublishedIsReceipted
PROPERTIES
    NoEditLost
    SyncRecovers
