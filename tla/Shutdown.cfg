\* Two fields, because one must not renew the other.  The clock reaches the
\* expiry of a field received after a reconnection; two connections follow each
\* other; one field is retained; the join of the handler ends one tick after a
\* signal that finds the main thread anywhere.  No symmetry: the liveness
\* properties are checked in the same run.
CONSTANTS
    Fields = {status, power}
    Fresh = 2
    Retained = {power}
    MaxTime = 3
    MaxEpoch = 2
    JoinLimit = 1
SPECIFICATION FairShutdownSpec
INVARIANTS
    ExposedIsGenuine
    NoStampWithoutConnection
    LoopAccountedFor
    DisconnectNeverStuck
PROPERTIES
    ShutdownExits
