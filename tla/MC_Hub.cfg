CONSTANTS
    ann = ann
    Conns = {c1, c2}
    Users = {ann}
    Letters = {l1}
    To <- MC_To
    QueueSize = 1
    Nobody = Nobody
SPECIFICATION Spec
INVARIANTS TypeOK LiveIsRegistered GoneIsForgotten NothingMissed
PROPERTIES LostConnectionsLeave
CHECK_DEADLOCK FALSE
