\* Four listings of one company; one question to the model.
SPECIFICATION DedupeSpec
CONSTANTS
    None = None
    board = board
    site = site
    austin = austin
    boston = boston
    Batches <- MCBatches
    Axes <- MCAxes
    Apart <- MCApart
    TitleLike <- MCTitleLike
    TextLike <- MCTextLike
    MaxBlock = 4
    MaxCalls = 1
CHECK_DEADLOCK FALSE
INVARIANTS
    RanksRise
    ClustersAreConnected
PROPERTIES
    ImplementsPartition
