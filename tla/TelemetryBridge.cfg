\* Snapshots live 4 units, MQTT fields 2, jobs take up to 5: a result may be
\* expired when it is delivered.  The clock covers
\* the longest job and the life of what it delivers.
CONSTANTS
    PollInterval = 2
    HaTimeout = 1
    Fresh = 2
    MaxJob = 5
    MqttUp = TRUE
    MaxTime = 7
SPECIFICATION Spec
CHECK_DEADLOCK FALSE
PROPERTIES
    ImplementsFreshTelemetry
    PollsAreSpaced
    StaysConnected
