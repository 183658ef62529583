\* messages_are_dispatched as written: validators 1 and 2, NoOpDelay, one broadcast at time 2.
CONSTANTS
    Validators = {1, 2}
    Faulty = {}
    TargetIds = {1, 2}
    Payloads = {1}
    Values = {}
    InitMessages <- NoInitMessages
    Strategy = "NoOpDelay"
    MaxDelay = 0
    MaxTime = 2
    MaxCalls = 1
    MaxBatch = 1

SPECIFICATION DispatchedSpec
INVARIANT DispatchedInTestOrder
CHECK_DEADLOCK FALSE
