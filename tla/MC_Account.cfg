CONSTANTS
    Machines = {laptop}
    Keys = {k1, k2}
    Names = {ann, bob}
    Discs = {zero, one}
    ann = ann
    bob = bob
    zero = zero
    one = one
    Taken <- TakenAddresses
    None = None
    Gifts = 1
    MaxAsks = 2
    MaxAddresses = 2
SPECIFICATION Spec
INVARIANTS TypeOK GiftsOnce  
SYMMETRY Symmetry
CHECK_DEADLOCK FALSE
