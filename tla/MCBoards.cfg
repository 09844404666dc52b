\* Three boards, room for two a run, two overlapping runs; backed off at the
\* second failure, disabled at the fourth.
SPECIFICATION FairBoardsSpec
CONSTANTS
    acme = acme
    bolt = bolt
    core = core
    greenhouse = greenhouse
    lever = lever
    NoBoard = NoBoard
    NotRunning = NotRunning
    SourceOf <- MCSourceOf
    Sources = {greenhouse, lever}
    Disabled = {}
    Boards = {acme, bolt, core}
    Curated = {acme, core}
    Limit = 2
    BackOffAt = 2
    PruneAt = 4
    Runs = {r1, r2}
INVARIANTS
    BoardsTypeOK
    CountStaysLow
PROPERTIES
    CleanBoardsComeRound
