\* Two overlapping requests on one job; single decisions, a bulk decision,
\* reasons, visits, notes and scores, on two days.
SPECIFICATION TrackerSpec
CONSTANTS
    Jobs = {j1}
    Requests = {r1, r2}
    Statuses = {"new", "applied", "dismissed"}
    BulkStatuses = {"applied"}
    Reasons = {too_senior}
    NoReason = NoReason
    Scores = {low}
    NoScore = NoScore
    LastDay = 1
    NoDay = NoDay
    NoRow = NoRow
    NoCard = NoCard
SYMMETRY Interchangeable
INVARIANTS
    TrackerTypeOK
    DatesHaveScores
    RowAndCardAgree
    RestoreIsComplete
PROPERTIES
    FirstDatesKept
