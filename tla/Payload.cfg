SPECIFICATION Spec
CONSTANTS
    Resources <- All
    Sent = {"empty", "zero", "fraction", "valid", "big", "list"}
    MaxOdd = 1
    MaxCalls = 3
    MaxListed = 1
    MaxParams = 2
INVARIANT TypeOK
INVARIANT RequiredIsNeverEmptied
INVARIANT OnlyKnownGapsFail
INVARIANT BoundsAreKept
PROPERTY NarrowingNeverWidens
