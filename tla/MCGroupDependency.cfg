CONSTANTS
    MaxTaps = 3
    Workers = 4
    MaxFailures = 2
SPECIFICATION FairSpec
INVARIANT ThirdAfterBoth
PROPERTY ThirdShown
