\* Two items show every mixture of two releases, three updates a recovery after a
\* failed or interrupted one and an update after that, two boots a second power cut
\* before the recovery has ended.  The kill
\* and the end of the wait are some seconds apart, as in the script.
CONSTANTS
    NumItems = 2
    KillAfter = 1
    GiveUpAfter = 3
    MaxUpdates = 3
    MaxBoots = 2
SPECIFICATION FairSpec
CHECK_DEADLOCK FALSE
INVARIANTS
    WorkerDownWhileReplacing
    RunsWholeRelease
    CompletesExactly
PROPERTIES
    UpdateEnds
    ServiceComesBack
