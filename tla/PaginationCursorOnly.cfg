SPECIFICATION Spec
CONSTANTS
    InitTables <- MCTables
    Walks = {"cursor only"}
    PageSizes = {2}
    MaxInserts = 1
    MaxDeletes = 1
INVARIANT PageOrCursorSuffices
