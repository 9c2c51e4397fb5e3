CONSTANTS
    Users = {alice, bob}
    Awards = {w1, w2, w3}
    Loop = loop
    Logins = {login}
    Batch = 1
    Week = 2
    MaxTime = 4
    Nobody = Nobody
SPECIFICATION Spec
INVARIANTS TypeOK FreshStampsBounded
SYMMETRY Symmetry
\* The bounded world ends when the clock stands.
CHECK_DEADLOCK FALSE
