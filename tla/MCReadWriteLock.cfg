CONSTANTS
    Rounds = 3
    Workers = 4
SPECIFICATION FairSpec
INVARIANTS Exclusion PrintedCountsItself Restored IInv
PROPERTIES AllReturn ImplementsSharedExclusive
