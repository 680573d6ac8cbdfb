SPECIFICATION Spec
CONSTANTS
    e1 = e1
    e2 = e2
    e3 = e3
    r1 = r1
    r2 = r2
    r3 = r3
    Req = {r1, r2}
    Emails = {e1, e2, e3}
    InitUsers <- TwoUsers
    LoggedIn = {1, 2}
    Asked <- MCCalls
    MaxUsers = 3
INVARIANT MyInformationIsMine
