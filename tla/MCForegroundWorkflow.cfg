CONSTANTS
    Capacity = 16
    MaxAttempts = 7
SPECIFICATION FairSpec
INVARIANTS
    CompletionOwned
    AnsweredOnce
    PairingResultOwned
    SomeoneWillAnswer
    ConfirmMatchesQuestion
    WorkflowFitsRing
PROPERTIES
    WaitEnds
