SPECIFICATION FairSpec
CONSTANTS
    InitTables <- MCTables
    Walks = {"page", "cursor", "cursor only"}
    PageSizes = {1, 2, 3}
    MaxInserts = 2
    MaxDeletes = 1
INVARIANT TypeOK
INVARIANT QuietWalkIsExact
INVARIANT InsertsHideOnlyUncounted
INVARIANT DeletesRepeatNothing
INVARIANT CursorMissesNothing
PROPERTY WalkEnds
