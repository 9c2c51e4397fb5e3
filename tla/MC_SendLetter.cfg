CONSTANTS
    alice = alice
    bob = bob
    a1 = a1
    a2 = a2
    s1 = s1
    s2 = s2
    Users = {alice, bob}
    Letters = {l1, l2, l3}
    Stamps = {s1, s2}
    Sessions = {a1, a2}
    UserOf <- MC_UserOf
    Orders <- MC_Orders
    PairLimit = 1
    TotalLimit = 1
    Day = 1
    MaxTime = 1
    InMail = InMail
    Free = Free
    None = None
SPECIFICATION FairSpec
INVARIANTS TypeOK PairLimitSlack BlockSlack
PROPERTIES StampsKeepThePromise EveryRequestEnds
CHECK_DEADLOCK FALSE
