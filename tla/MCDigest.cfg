\* One user, one edited job, two overlapping runs that may fail.
SPECIFICATION DigestSpec
CONSTANTS
    board = board
    site = site
    ann = ann
    bob = bob
    top = top
    next = next
    d1 = d1
    d2 = d2
    offered = offered
    urlA = urlA
    urlB = urlB
    Unknown = Unknown
    NoFact = NoFact
    NoPosting = NoPosting
    NoJob = NoJob
    NoUser = NoUser
    Values <- MCValues
    Clamped <- MCClamped
    Authority <- MCAuthority
    UrlRank <- MCUrlRank
    Score <- ScoresOf
    MinScore <- Minimum
    NotifyOnUpdates = TRUE
    IncludeDismissed = FALSE
    Users = {ann}
    Jobs = {top}
    Sources = {board}
    Runs = {r1, r2}
    Postings <- EditedPosting
    GraceDays = 1
    CooldownDays = 1
    MaxJobs = 1
    Faults = TRUE
    Decisions = {"new", "applied"}
INVARIANTS
    DigestTypeOK
    NotifiedWasTold
    OnlyChangesResurface
PROPERTIES
    ImplementsLedger
