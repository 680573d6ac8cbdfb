SPECIFICATION Spec
CONSTANTS
    NoUser = NoUser
    NoCompany = NoCompany
    ann = ann
    bob = bob
    acme = acme
    busy = busy
    k1 = k1
    k2 = k2
    k3 = k3
    fileA = fileA
    fileB = fileB
    fileBad = fileBad
    r1 = r1
    r2 = r2
    r3 = r3
    Users <- MCUsers
    Keys <- MCKeys
    Files <- MCFiles
    Content <- MCContent
    Companies <- MCCompanies
    InitCompanies <- MCInitCompanies
    Req = {r1, r2, r3}
    InitUploads <- TwoUploads
    Calls <- SaveCalls
    Edits = {"createPerson", "setStatus", "deletePerson", "assignCompany", "deleteCompany"}
    MaxEdits = 1
    MaxFaults = 2
SYMMETRY Symmetric
INVARIANT RowsInsertedOnce
INVARIANT SavedCompletely
PROPERTY HalfSavedIsFinal
 
