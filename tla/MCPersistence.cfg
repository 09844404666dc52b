\* One job, two sources, five listings, an expiry grace of two days.
SPECIFICATION NightlySpec
CONSTANTS
    employer = employer
    aggregator = aggregator
    d1 = d1
    d2 = d2
    low = low
    high = high
    higher = higher
    offered = offered
    urlA = urlA
    urlB = urlB
    urlLong = urlLong
    Unknown = Unknown
    NoFact = NoFact
    NoPosting = NoPosting
    NoJob = NoJob
    Jobs = {j1}
    GraceDays = 2
    Values <- MCValues
    Sources <- MCSources
    Postings <- MCPostings
    Clamped <- MCClamped
    Authority <- MCAuthority
    UrlRank <- MCUrlRank
INVARIANTS
    TypeOK
    WithdrawnIsConsistent
    PayRangeFromOneSource
PROPERTIES
    FilledFactsStay
    UpdateChangesAFact
    RepostFollowsWithdrawal
    TakenDownExpires
