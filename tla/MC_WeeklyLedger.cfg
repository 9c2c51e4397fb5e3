CONSTANTS
    Users = {alice}
    Awards = {w1, w2}
    Loop = loop
    Logins = {}
    Batch = 1
    Week = 2
    MaxTime = 3
    Nobody = Nobody
SPECIFICATION Spec
INVARIANT OneAwardAWeek
CHECK_DEADLOCK FALSE
