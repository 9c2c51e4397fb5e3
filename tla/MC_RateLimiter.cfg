CONSTANTS
    home = home
    Ips = {home}
    Sockets = {c1, c2, c3}
    IpOf <- MC_IpOf
    Registrations = {r1, r2, r3, r4, r5}
    MaxConns = 2
    MaxRegs = 2
    Window = 2
    MaxTime = 7
    Absent = Absent
SPECIFICATION LimitsSpec
INVARIANTS LimitsTypeOK ConnsCounted RegistrationsBounded
SYMMETRY Symmetry
CHECK_DEADLOCK FALSE
