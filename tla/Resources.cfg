SPECIFICATION Spec
CONSTANTS
    e1 = e1
    e2 = e2
    n1 = n1
    n2 = n2
    r1 = r1
    r2 = r2
    r3 = r3
    Req = {r1, r2, r3}
    Emails = {e1, e2}
    Names = {n1, n2}
    Parents = {0, 3, 4, 9}
    InitRows <- MCRows
    Asked <- AllCalls
    MaxFaults = 1
SYMMETRY Symmetric
INVARIANT TypeOK
INVARIANT DeletedOnce
INVARIANT KeysAreUnique
PROPERTY DeletedIsFrozen
PROPERTY ImplementsLiveStore
