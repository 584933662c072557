CONSTANTS
    Keys = {1, 2, 3, 4, 5, 6}
    Limits = {1, 2}
    End = End
SPECIFICATION LiveWalk
INVARIANTS
    WalkOK
    NoRepeats
    OnlyPoppedSkipped
PROPERTY WalkEnds
