\* Three rows at three dates, pages of one or two, one change during a walk.
SPECIFICATION Spec
CONSTANTS
    N = 3
    LastDate = 3
    Limits = {1, 2}
    MaxChanges = 1
    None = None
CHECK_DEADLOCK FALSE
INVARIANTS
    TypeOK
    
    
PROPERTIES
    KeepsOrder
    WalkEnds
    CursorAdvances
