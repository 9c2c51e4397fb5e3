CONSTANTS
    Threads = {t1, t2}
    Stamps = {s1}
    Tiers = {1}
    MaxBodies = 2
    MaxSends = 1
    MaxFetches = 2
    MaxComing = 1
    Anew = Anew
    Closed = Closed
SPECIFICATION Spec
INVARIANTS TypeOK NoTextLost PaidAsChosen
PROPERTIES EverySendEnds
CHECK_DEADLOCK FALSE
