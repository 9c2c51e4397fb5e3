CONSTANTS
    Callers = {c1, c2}
    Nobody = Nobody
    MaxRequests = 5
    MaxConns = 2
SPECIFICATION FairSpec
INVARIANTS TypeOK ConnectedIsSignedIn PanicNeedsLapse
PROPERTIES RequestsAreExchanged EveryCallReturns
CHECK_DEADLOCK FALSE
