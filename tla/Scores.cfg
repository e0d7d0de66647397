SPECIFICATION Spec
CONSTANTS
    MinBaseline = 3
    MinPoints = 3
    MinSpan = 3
    Hour = 1
    Values = {0, 1, 2, 6}
    Gaps = {1, 2}
    Floors = {1, 2}
    Limits = {4, 9, 40, 200}
    MaxLength = 5
INVARIANTS MedianIsMiddle SpikesDoNotMask LineCrossesInTime DecliningIsSilent
CHECK_DEADLOCK FALSE
