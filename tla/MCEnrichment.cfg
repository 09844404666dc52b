\* Three postings, one the model need not be able to read and one that fits no role, two of
\* which are looked at; a run and a command with two calls each, a commit after each reading.
SPECIFICATION FairEnrichmentSpec
CONSTANTS
    best = best
    good = good
    odd = odd
    h1 = h1
    h2 = h2
    t1 = t1
    t2 = t2
    Jobs = {best, good, odd}
    Texts = {t1, t2}
    Hashes = {h1, h2}
    SightingsOf <- MCSightingsOf
    NoText = NoText
    NotRead = NotRead
    Affinity <- MCAffinity
    MayGo = {best}
    MinAffinity = 1
    Unreadable = {best}
    ScanLimit = 2
    MaxCalls = 2
    CommitEvery = 1
    Runs = {r1}
    Commands = {c1}
    NoCall = NoCall
    Idle = Idle
INVARIANTS
    ReadingsAreOfTheText
PROPERTIES
    InterruptionsLoseLittle
    PostingsAreRead
