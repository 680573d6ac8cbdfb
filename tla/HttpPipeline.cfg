SPECIFICATION FairSpec
CONSTANTS
    r1 = r1
    r2 = r2
    Req = {r1, r2}
    Timeout = 2
INVARIANT TypeOK
INVARIANT StatusTellsEffect
INVARIANT HealthAnswersItself
PROPERTY Answered
