SPECIFICATION FairSpec
CONSTANTS
    Requests <- MCTwoRequests
    Records <- MCRecords
    EngineStates <- MCStates
    InitEngine <- MCNew
    ApplyRecord <- MCApply
    MaxInbound = 3
    BatchSize = 2
    Configs = {conf}
    NoCheckpoint = NoCheckpoint
    MaxFaults = 2
INVARIANTS
    NeverRefused
PROPERTIES
    EveryRecordIsAnswered
    ImplementsFairAnswerLog
