CONSTANTS
    u1 = u1
    u2 = u2
    n1 = n1
    n2 = n2
    Urls = {u1, u2}
    Names = {n1, n2}
    NameOf <- Distinct
    Size = 3
    MaxLive = 1
    Responses = {"range"}
    Overlap = FALSE
    None = None
SPECIFICATION Spec
INVARIANT CacheFaithful
PROPERTIES CompletionCaches NothingLost ImplementsVideoStore
