CONSTANTS
    MaxTaps = 1
    Workers = 3
    MaxFailures = 1
SPECIFICATION FairSpec
PROPERTY ThirdFollows
