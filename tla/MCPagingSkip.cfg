CONSTANTS
    Keys = {1, 2, 3, 4, 5}
    Limits = {1, 2}
    End = End
SPECIFICATION WalkSpec
INVARIANT NothingSkipped
