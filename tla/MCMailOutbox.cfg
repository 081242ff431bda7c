SPECIFICATION FairSpec
CONSTANTS
    Message = {1, 2}
    KindOf <- MCKindOf
    MaxAttempts = 2
    MaxFaults = 1
    MaxRetries = 1
INVARIANTS
    TypeOK
    DuplicatesAreExplained
    SecretsLiveAsLongAsNeeded
PROPERTIES
    BarredIsNotSent
    MessagesSettle
