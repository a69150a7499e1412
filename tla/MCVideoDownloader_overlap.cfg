CONSTANTS
    u1 = u1
    u2 = u2
    n1 = n1
    n2 = n2
    Urls = {u1, u2}
    Names = {n1, n2}
    NameOf <- Distinct
    Size = 3
    MaxLive = 2
    Responses = {"range"}
    Overlap = TRUE
    None = None
SPECIFICATION Spec
INVARIANT CacheFaithful
