CONSTANTS
    Users = {alice, bob}
    System = penpal
    Letters = {l1, l2}
    s1 = s1
    s2 = s2
    Stamps = {s1, s2}
    flag = flag
    heart = heart
    Kinds = {flag, heart}
    KindOf <- MC_KindOf
    InMail = InMail
    Unissued = Unissued
    Postage = {1, 2}
    MaxTime = 2
SPECIFICATION FairSpec
INVARIANTS TypeOK StampCustody NothingDangles TransfersDiscovered
PROPERTIES KeepsThePromise EveryLetterArrives
\* The bounded world ends when the clock stands and both letters have been read.
CHECK_DEADLOCK FALSE
