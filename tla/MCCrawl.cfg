\* Two boards of one source, one of them guessable, four other sources, two
\* overlapping runs; backed off at the second failure, disabled at the third.
SPECIFICATION CrawlSpec
CONSTANTS
    acme = acme
    bolt = bolt
    core = core
    greenhouse = greenhouse
    lever = lever
    api = api
    keyed = keyed
    news = news
    lists = lists
    page = page
    NoBoard = NoBoard
    NotRunning = NotRunning
    SourceOf <- MCSourceOf
    PartsOf <- MCPartsOf
    Sources = {greenhouse}
    Searched = {api, keyed}
    Listed = {news, lists}
    Indexed = {news}
    Unconfigured = {keyed}
    NoRecord = NoRecord
    Guessable = {bolt}
    Disabled = {lists}
    Boards = {acme, bolt}
    Curated = {acme}
    Limit = 2
    BackOffAt = 2
    PruneAt = 3
    Runs = {r1, r2}
INVARIANTS
    GuessesAreFree
PROPERTIES
    ImplementsBoards
    OnlyFailuresCount
    FailuresAreReal
