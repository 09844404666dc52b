\* Two keywords, one mail server: what one page does to the other.
SPECIFICATION SettingsSpec
CONSTANTS
    ann = ann
    early = early
    Users = {ann}
    Oldest = ann
    Jobs = {j1}
    Texts = {t1}
    Gone = Gone
    Keywords = {Blank, fpga}
    Blank = Blank
    Skills = {"none"}
    Schedules <- MCSchedules
    NoTime = NoTime
    EnvSchedule <- MCDaily
    Hosts = {smtp}
    EnvChannel <- MCNoChannel
    Passwords = {FALSE, TRUE}
    Digests = {FALSE, TRUE}
    DefaultPrefs <- MCPrefs
    DefaultProfile <- MCProfile
    Requests = {q1}
    Runs = {r1}
    NoDoc = NoDoc
    Unscored = Unscored
    Same = Same
    Idle = Idle
PROPERTIES
    PagesKeepToThemselves
