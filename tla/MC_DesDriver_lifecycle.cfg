\* The driver loop under a strategy that delays each recipient by 0 or 1 or
\* drops it, checked against the abstract message lifecycle.
CONSTANTS
    Validators <- MC_Validators
    Faulty <- MC_Faulty
    TargetIds <- MC_TargetIds
    Payloads <- MC_Payloads
    Values <- MC_Values
    InitMessages <- MC_InitMessages
    MaxTime <- MC_MaxTime
    Strategy = "Lossy"
    MaxDelay = 1
    MaxMsgs = 2
    MaxCalls = 3
    MaxBatch = 1

SPECIFICATION DriverSpec
PROPERTY ImplementsLifecycle
\* The scenario ends: the driver stops once the queue is empty or after teardown.
CHECK_DEADLOCK FALSE
