SPECIFICATION ListsSpec
CONSTANTS
    MaxSlotID = 5
    MaxCreated = 4
    MaxParsed = 2
    MaxImported = 2
INVARIANTS
    ListsTypeOK
    ListedOnce
    SourceAgreesWithSets
PROPERTIES
    ImplementsSlotSets
    MovesNormalize
    CreatedStaysComplete
CHECK_DEADLOCK FALSE
