CONSTANT N = 5
SPECIFICATION FairSpec
INVARIANT MergeAfterAll
PROPERTY Merged
