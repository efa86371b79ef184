CONSTANTS
    SetupKeys <- MCSetupKeys
    Amps <- MCAmps
    Requests <- MCRequests
    MaxEvents = 1
SPECIFICATION LiveSpec
INVARIANTS TypeOK KeyFindsItsScreen OperatorIsTold
PROPERTIES RestoredWhenReported NoKeyAfterAbort TransactionEnds
