\* Two fetches on one host with two slots, one retry; five postings, two of them
\* without an id, on up to three pages' worth of listings.
SPECIFICATION FairFetchSpec
CONSTANTS
    f1 = f1
    f2 = f2
    server = server
    a = a
    b = b
    c3 = c3
    d = d
    e = e
    Callers = {f1, f2}
    Hosts = {server}
    HostOf <- MCHostOf
    Slots = 2
    Delay = 2
    MaxRetries = 1
    Nobody = Nobody
    Queries = 2
    MaxPages = 2
    KindsOf <- MCKindsOf
    Postings = {a, b, c3, d, e}
    Faults <- MCFaults
    Lists <- MCLists
    PageSize = 2
    FallbackPages = 1
    NoPage = NoPage
INVARIANTS
    IdsTellPostingsApart
    StillListsAreRead
PROPERTIES
    HostsAreSpared
    EveryFetchEnds
