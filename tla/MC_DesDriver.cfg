\* The driver loop under a strategy that delays each recipient by 0 or 1.
CONSTANTS
    Validators <- MC_Validators
    Faulty <- MC_Faulty
    TargetIds <- MC_TargetIds
    Payloads <- MC_Payloads
    Values <- MC_Values
    InitMessages <- MC_InitMessages
    MaxTime <- MC_MaxTime
    Strategy = "RandomDelay"
    MaxDelay = 1
    MaxMsgs = 3
    MaxCalls = 4
    MaxBatch = 1

SPECIFICATION DriverSpec
INVARIANT ReceivedOnlyAddressed
PROPERTY DeliveredInTimeOrder
PROPERTY ScheduledEventuallyReceived
\* The scenario ends: the driver stops once the queue is empty or after teardown.
CHECK_DEADLOCK FALSE
