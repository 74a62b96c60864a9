SPECIFICATION FairStreamSpec
CONSTANTS
    LastStage = 3
    MaxEmits = 2
CHECK_DEADLOCK FALSE
INVARIANTS
    OkMeansDone
    OneComplete
PROPERTIES
    WorkStops
