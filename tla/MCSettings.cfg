\* One account, one posting, one request and one run at a time; no mail server.
SPECIFICATION FairSettingsSpec
CONSTANTS
    ann = ann
    early = early
    Users = {ann}
    Oldest = ann
    Jobs = {j1}
    Texts = {t1}
    Gone = Gone
    Keywords = {Blank}
    Blank = Blank
    Skills = {"none"}
    Schedules <- MCSchedules
    NoTime = NoTime
    EnvSchedule <- MCDaily
    Hosts = {}
    EnvChannel <- MCNoChannel
    Passwords = {FALSE}
    Digests = {FALSE}
    DefaultPrefs <- MCPrefs
    DefaultProfile <- MCProfile
    Requests = {q1}
    Runs = {r1}
    NoDoc = NoDoc
    Unscored = Unscored
    Same = Same
    Idle = Idle
INVARIANTS
    LiveMatchesSaved
PROPERTIES
    SavesReachTheFeed
    ScoresCatchUp
