\* Arbitrary use of the VirtualNet API under a delaying and dropping strategy.
CONSTANTS
    Validators <- MC_Validators
    Faulty <- MC_Faulty
    TargetIds <- MC_TargetIds
    Payloads <- MC_Payloads
    Values <- MC_Values
    InitMessages <- MC_InitMessages
    Strategy = "Lossy"
    MaxDelay = 1
    MaxTime = 1
    MaxCalls = 2
    MaxBatch = 2

SPECIFICATION Spec
INVARIANT TypeOK
