\* One user, two jobs that never change, a cap of one job a mail.
SPECIFICATION FairDigestSpec
CONSTANTS
    board = board
    site = site
    ann = ann
    bob = bob
    top = top
    next = next
    d1 = d1
    d2 = d2
    offered = offered
    urlA = urlA
    urlB = urlB
    Unknown = Unknown
    NoFact = NoFact
    NoPosting = NoPosting
    NoJob = NoJob
    NoUser = NoUser
    Values <- MCValues
    Clamped <- MCClamped
    Authority <- MCAuthority
    UrlRank <- MCUrlRank
    Score <- ScoresOf
    MinScore <- Minimum
    NotifyOnUpdates = TRUE
    IncludeDismissed = FALSE
    Users = {ann}
    Jobs = {top, next}
    Sources = {board}
    Runs = {r1}
    Postings <- FixedPosting
    GraceDays = 0
    CooldownDays = 1
    MaxJobs = 1
    Faults = FALSE
    Decisions = {"applied"}
PROPERTIES
    EventuallyTold
