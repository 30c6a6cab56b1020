\* Signals at every point of the main thread.  A signal inside Queue.put or
\* inside the Event.set of an earlier one blocks the main thread for good, and
\* one before mainloop.run is forgotten by GLib, so the system can stop.
CONSTANTS
    MaxSignals = 2
    EarlySignal = TRUE
SPECIFICATION FairSpec
CHECK_DEADLOCK FALSE
INVARIANTS
    NoOverflowBeforeStop
    NoLostWakeup
PROPERTIES
    ImplementsJobSlot
    PollAnswered
    LoopSignalExits
