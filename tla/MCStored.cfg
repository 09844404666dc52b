\* Three postings on two sources, two overlapping runs.
SPECIFICATION FairStoredSpec
CONSTANTS
    k1 = k1
    k2 = k2
    k3 = k3
    x = x
    y = y
    u1 = u1
    u2 = u2
    u3 = u3
    p = p
    pq = pq
    Keys = {k1, k2, k3}
    Precedes <- MCPrecedes
    LooksOf <- MCLooksOf
    None = None
    NoJob = NoJob
    NoListing = NoListing
    Gone = Gone
    Answers <- MCAnswers
    Runs = {r1, r2}
INVARIANTS
    IdsAreFound
PROPERTIES
    SameAgainIsQuiet
    EventuallyStored
