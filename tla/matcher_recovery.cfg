SPECIFICATION Spec
CONSTANTS
    Requests <- MCRequests
    Records <- MCRecords
    EngineStates <- MCStates
    InitEngine <- MCNew
    ApplyRecord <- MCApply
    MaxInbound = 3
    BatchSize = 2
    Configs = {conf, other}
    NoCheckpoint = NoCheckpoint
    MaxFaults = 3
INVARIANTS
    TypeOK
    ExactlyOnce
    InStep
    CheckpointIsConsistent
    RecoveryIsNotShort
    NeverReadsPastAGap
PROPERTIES
    ImplementsAnswerLog
