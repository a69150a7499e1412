CONSTANTS
    Images = {i1, i2, i3}
    MaxTaps = 2
    Nil = Nil
SPECIFICATION RequestFairSpec
INVARIANTS RequestInv NotifyAfterAll NotStranded LastArrivalShown
PROPERTY EveryTapShown
