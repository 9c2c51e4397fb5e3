CONSTANTS
    Letters = {l1, l2, l3}
    PageSize = 1
    Ahead = 1
    MaxPasses = 3
    MaxLoads = 2
    MaxShown = 3
    MaxComing = 1
    Nothing = Nothing
SYMMETRY Alike
SPECIFICATION Spec
INVARIANTS TypeOK ListIsFaithful DeletesAsAsked CursorOnList
CHECK_DEADLOCK FALSE
