------------------------------ MODULE Settings ------------------------------
(***************************************************************************)
(* Preferences, profiles and what depends on them: the scores of the       *)
(* stored jobs, the channel digests go through, and the live schedule.     *)
(* Pages, the API, the command line and search runs read the documents,    *)
(* work, and commit; nothing holds a lock between the reading and the      *)
(* writing, and the ORM writes back only what it has changed.              *)
(*                                                                         *)
(* A score is represented by what it was computed from.  Fields of the     *)
(* preferences that every form leaves alone or carries are left out.       *)
(***************************************************************************)
EXTENDS FiniteSets

CONSTANTS
    Users, Oldest,        \* accounts; the one meant when none is named
    Jobs, Texts,          \* shared postings and what they may say
    Gone,                 \* the text of a posting that is not active
    Keywords, Blank,      \* answers on the search page; the empty one
    Skills,               \* answers on the profile page
    Schedules,            \* records: enabled, morning, afternoon (a time, or NoTime)
    NoTime,
    EnvSchedule,          \* the schedule of the environment
    Hosts, EnvChannel,    \* mail servers; what the environment says of one
    Passwords, Digests,   \* sets of BOOLEAN: a form has a mail password; mails are switched on
    DefaultPrefs, DefaultProfile,
    Requests, Runs,       \* web requests and commands; search runs
    NoDoc, Unscored, Same, Idle

VARIABLES
    prefs, profile,       \* the documents of each user, or NoDoc
    text,                 \* the jobs
    scores,               \* the user_job_state rows, as far as scoring goes
    channel,              \* notify.* in app_config: the mail server, and whether there is a password
    live,                 \* the jobs the scheduler of this process has
    txn,                  \* what each request or run is about to commit
    touched,              \* the jobs a run has persisted and not yet scored, or Idle
    calm                  \* no save has overlapped another, and only Oldest has saved, since the boot

docs == <<prefs, profile, text>>
settingsVars == <<docs, scores, channel, live, txn, touched, calm>>

Prefs == [keywords : Keywords, sponsor : BOOLEAN, digests : Digests, schedule : Schedules]
Profiles == [skills : Skills, sponsor : BOOLEAN]
Channels == [host : Hosts \cup {Blank}, secret : BOOLEAN]
Scores == [keywords : Keywords, skills : Skills, sponsor : BOOLEAN, text : Texts \cup {Gone}]

ASSUME SettingsAssumption ==
    /\ Oldest \in Users /\ Blank \in Keywords /\ Gone \notin Texts
    /\ Requests \cap Runs = {} /\ Passwords \subseteq BOOLEAN
    /\ Digests \subseteq BOOLEAN /\ FALSE \in Digests
    /\ DefaultPrefs \in Prefs /\ DefaultProfile \in Profiles

\* What stands for an absent value is none of the values.
ASSUME AbsentAssumption ==
    /\ NoDoc \notin Prefs \cup Profiles /\ Same \notin Prefs \cup Profiles \cup Scores
    /\ Unscored \notin [of : Scores, aged : BOOLEAN]
    /\ \A rules \in Schedules : Idle # [op |-> "apply", rules |-> rules]

Active == {j \in Jobs : text[j] # Gone}
Workers == Requests \cup Runs

-----------------------------------------------------------------------------
(* Documents and scores. *)

\* load_preferences, load_profile: defaults for a user who has none.
PrefsOf(u) == IF prefs[u] = NoDoc THEN DefaultPrefs ELSE prefs[u]
ProfileOf(u) == IF profile[u] = NoDoc THEN DefaultProfile ELSE profile[u]

\* score_constraints: sponsorship is needed if either document says so.
NeedsSponsorship(p, f) == p.sponsor \/ f.sponsor

\* score_job
ScoreWith(p, f, t) ==
    [keywords |-> p.keywords, skills |-> f.skills, sponsor |-> NeedsSponsorship(p, f), text |-> t]

\* What a transaction writes for one user.  `missing' are rows it has not found
\* and inserts.
NoChange == [prefs |-> Same, profile |-> Same, scores |-> [j \in Jobs |-> Same],
             stamped |-> {}, missing |-> {}]

Written(old, new) == IF old = new THEN Same ELSE new

\* The documents are loaded, inserted if there are none, and set to p and f;
\* then the jobs J are scored.
Change(u, p, f, J) ==
    [prefs   |-> Written(prefs[u], p),
     profile |-> Written(profile[u], f),
     scores  |-> [j \in Jobs |->
                    IF j \notin J \/ (scores[u][j] # Unscored /\ scores[u][j].of = ScoreWith(p, f, text[j]))
                    THEN Same ELSE ScoreWith(p, f, text[j])],
     stamped |-> J,
     missing |-> {d \in {"prefs"} : prefs[u] = NoDoc} \cup {d \in {"profile"} : profile[u] = NoDoc}
                 \cup {j \in J : scores[u][j] = Unscored}]

\* A document that is not loaded.
Without(change, doc) == [change EXCEPT ![doc] = Same, !.missing = @ \ {doc}]

\* rescore_for_run that scores everything once and never again.
DueOnce(u) == {j \in Active : scores[u][j] # Unscored} = {}

\* rescore_for_run: no active job is scored, or some score is a day old.
FullRescoreDue(u) ==
    LET scored == {j \in Active : scores[u][j] # Unscored}
    IN  scored = {} \/ \E j \in scored : scores[u][j].aged

RunScores(u, J) == IF FullRescoreDue(u) THEN Active ELSE J \cap Active

-----------------------------------------------------------------------------
(* The schedule. *)

\* The jobs that rules which are enabled ask for: the digests, of which one that
\* is switched off has no time, and the nightly job, whose time is fixed.
Entries(rules) ==
    {<<d, rules[d]>> : d \in {e \in {"morning", "afternoon"} : rules[e] # NoTime}}
        \cup {<<"nightly", NoTime>>}

\* reschedule that returns before it removes jobs.
EntriesKept(old, rules) == IF ~rules.enabled THEN old ELSE Entries(rules)

\* reschedule: with the schedule switched off, the nightly job goes as well.
Rescheduled(old, rules) == IF ~rules.enabled THEN {} ELSE Entries(rules)

SettingsInit ==
    /\ prefs = [u \in Users |-> NoDoc] /\ profile = [u \in Users |-> NoDoc]
    /\ text = [j \in Jobs |-> Gone]
    /\ scores = [u \in Users |-> [j \in Jobs |-> Unscored]]
    /\ channel = [host |-> Blank, secret |-> FALSE]
    /\ live = Rescheduled({}, DefaultPrefs.schedule)
    /\ txn = [w \in Workers |-> Idle] /\ touched = [r \in Runs |-> Idle]
    /\ calm = TRUE

-----------------------------------------------------------------------------
(* Transactions. *)

Saving(q) == txn[q] # Idle /\ txn[q].op \in {"search", "mail", "put"}
Committed(q) == txn[q] # Idle /\ txn[q].op = "apply"

Open(w, op, u, changes, newChannel) ==
    /\ txn[w] = Idle
    /\ txn' = [txn EXCEPT ![w] = [op |-> op, user |-> u, changes |-> changes, channel |-> newChannel,
                                 alone |-> TRUE, aged |-> FALSE]]

\* Something is committed while other transactions are under way.
Disturbed ==
    [w \in Workers |-> IF txn[w] = Idle \/ Committed(w) THEN txn[w] ELSE [txn[w] EXCEPT !.alone = FALSE]]

For(u, change) == [v \in Users |-> IF v = u THEN change ELSE NoChange]

\* notify_config.save: a blank secret is kept, a blank host is a host cleared.
ChannelAfter(host, secret) == [host |-> host, secret |-> channel.secret \/ secret]

Over(old, new) == IF new = Same THEN old ELSE new

\* notify_config.load: what is stored, over the environment.
Resolved(c) ==
    [host   |-> IF c.host = Blank THEN EnvChannel.host ELSE c.host,
     secret |-> c.secret \/ EnvChannel.secret]

\* ready_for the provider chosen, which is mail.
Ready(c) == Resolved(c).host # Blank /\ Resolved(c).secret

\* get_provider: where the digests of someone with preferences p go.
MailsVia(p, c) == IF ~p.digests THEN "nowhere" ELSE IF Ready(c) THEN "email" ELSE "file"

\* settings_save, with the copy of the sponsorship answer left alone.
SettingsUnmirrored(u, p) == Change(u, p, ProfileOf(u), Active)

\* settings_save: the profile's copy of the answer follows the page's, then
\* everything is scored again.
SettingsChange(u, p) == Change(u, p, [ProfileOf(u) EXCEPT !.sponsor = p.sponsor], Active)

\* The page of what is searched for.  It declares neither notifications nor the
\* schedule, and its form has no mail fields, which are taken for blank ones.
SaveSearchPage(q, u) ==
    \E k \in Keywords, s \in BOOLEAN :
        LET c == ChannelAfter(Blank, FALSE)
            p == [PrefsOf(u) EXCEPT !.keywords = k, !.sponsor = s,
                                    !.digests = @ /\ Ready(c)]
        IN  Open(q, "search", u, For(u, SettingsChange(u, p)), Written(channel, c))

\* The page of mails and times.  Only some sections are guarded by what the form
\* declares: keywords and constraints, which are not on it, are taken for empty.
SaveMailPage(q, u) ==
    \E d \in Digests, s \in Schedules, h \in Hosts \cup {Blank}, secret \in Passwords :
        LET c == ChannelAfter(h, secret)
            p == [keywords |-> Blank, sponsor |-> FALSE, digests |-> d /\ Ready(c), schedule |-> s]
        IN  Open(q, "mail", u, For(u, SettingsChange(u, p)), Written(channel, c))

SaveProfilePage(q, u) ==
    \E s \in Skills :
        LET c == Change(u, PrefsOf(u), [ProfileOf(u) EXCEPT !.skills = s], Active)
        IN  Open(q, "profile", u, For(u, IF Active = {} THEN Without(c, "prefs") ELSE c), Same)

\* PUT /api/preferences and PUT /api/profile: whole documents of the oldest
\* account; nothing is scored.
PutPreferences(q) ==
    \E p \in Prefs :
        Open(q, "put", Oldest,
             For(Oldest, Without(Change(Oldest, p, ProfileOf(Oldest), {}), "profile")), Same)

PutProfile(q) ==
    \E f \in Profiles :
        Open(q, "profile", Oldest,
             For(Oldest, Without(Change(Oldest, PrefsOf(Oldest), f, {}), "prefs")), Same)

\* The command line scores everything, for everybody.
RescoreAll(q) ==
    Open(q, "rescore", Oldest,
         [u \in Users |-> Change(u, PrefsOf(u), ProfileOf(u), Active)], Same)

Submit(q) ==
    /\ \/ \E u \in Users : SaveSearchPage(q, u) \/ SaveMailPage(q, u) \/ SaveProfilePage(q, u)
       \/ PutPreferences(q) \/ PutProfile(q) \/ RescoreAll(q)
    /\ calm' = (calm /\ ~\E o \in Requests : Saving(o) \/ Committed(o))
    /\ UNCHANGED <<docs, scores, channel, live, touched>>

-----------------------------------------------------------------------------
(* Search runs. *)

\* The persist transaction: what is stored changes.  A new or reposted job is always
\* reported, a changed one only if something material has.
RunPersist(r) ==
    /\ touched[r] = Idle
    /\ \E now \in [Jobs -> Texts \cup {Gone}] :
         LET changed == {j \in Jobs : now[j] \notin {text[j], Gone}} IN
         \E reported \in SUBSET changed :
            /\ {j \in changed : text[j] = Gone} \subseteq reported
            /\ text' = now
            /\ touched' = [touched EXCEPT ![r] = reported]
    /\ txn' = Disturbed
    /\ UNCHANGED <<prefs, profile, scores, channel, live, calm>>

\* The notify transaction: every user is scored, then mailed.  The documents of
\* all users are read together here, one user after the other in the code.
RunScore(r) ==
    /\ touched[r] # Idle
    /\ Open(r, "run", Oldest,
            [u \in Users |-> Change(u, PrefsOf(u), ProfileOf(u), RunScores(u, touched[r]))], Same)
    /\ UNCHANGED <<docs, scores, channel, live, touched, calm>>

\* A run that is not to notify scores nobody.
RunQuietly(r) ==
    /\ touched[r] # Idle /\ txn[r] = Idle
    /\ touched' = [touched EXCEPT ![r] = Idle]
    /\ UNCHANGED <<docs, scores, channel, live, txn, calm>>

-----------------------------------------------------------------------------
(* The end of a transaction. *)

Ends(w) == touched' = [r \in Runs |-> IF r = w THEN Idle ELSE touched[r]]

\* Another transaction has inserted a row this one inserts too.
Conflicts(w) ==
    \E u \in Users : LET m == txn[w].changes[u].missing IN
        \/ "prefs" \in m /\ prefs[u] # NoDoc
        \/ "profile" \in m /\ profile[u] # NoDoc
        \/ \E j \in m \cap Jobs : scores[u][j] # Unscored

\* What is left to do after the commit of preferences.
Applying(t) ==
    [op |-> "apply", rules |-> Over(PrefsOf(t.user), t.changes[t.user].prefs).schedule]

Commit(w) ==
    /\ txn[w] # Idle /\ txn[w].op # "apply" /\ ~Conflicts(w)
    /\ LET t == txn[w] IN
         /\ prefs' = [u \in Users |-> Over(prefs[u], t.changes[u].prefs)]
         /\ profile' = [u \in Users |-> Over(profile[u], t.changes[u].profile)]
         /\ scores' = [u \in Users |-> [j \in Jobs |->
              IF j \notin t.changes[u].stamped THEN scores[u][j]
              ELSE [of   |-> IF t.changes[u].scores[j] = Same THEN scores[u][j].of
                             ELSE t.changes[u].scores[j],
                    aged |-> t.aged]]]
         /\ channel' = Over(channel, t.channel)
         /\ txn' = [Disturbed EXCEPT ![w] = IF Saving(w) THEN Applying(t) ELSE Idle]
         /\ calm' = (calm /\ (Saving(w) => t.user = Oldest))
    /\ Ends(w)
    /\ UNCHANGED <<text, live>>

ApplySchedule(q) ==
    /\ Committed(q)
    /\ live' = Rescheduled(live, txn[q].rules)
    /\ txn' = [txn EXCEPT ![q] = Idle]
    /\ UNCHANGED <<docs, scores, channel, touched, calm>>

\* A row inserted twice, a database that is locked or away: everything is rolled
\* back.
Fail(w) ==
    /\ txn[w] # Idle /\ txn[w].op # "apply"
    /\ txn' = [txn EXCEPT ![w] = Idle]
    /\ Ends(w)
    /\ UNCHANGED <<docs, scores, channel, live, calm>>

-----------------------------------------------------------------------------
(* The process and the clock. *)

\* load_schedule_rules: the schedule of the oldest account; if it cannot be read,
\* that of the environment.
LoadedRules == {PrefsOf(Oldest).schedule, EnvSchedule}

\* The scheduler is built anew.  Requests under way are lost.
Restart ==
    /\ \E rules \in LoadedRules :
          /\ live' = Rescheduled({}, rules)
          /\ calm' = (rules = PrefsOf(Oldest).schedule)
    /\ txn' = [w \in Workers |-> IF w \in Requests THEN Idle ELSE txn[w]]
    /\ UNCHANGED <<docs, scores, channel, touched>>

\* Twenty hours: FULL_RESCORE_INTERVAL.
DayPasses ==
    /\ scores' = [u \in Users |-> [j \in Jobs |->
                    IF scores[u][j] = Unscored THEN Unscored ELSE [scores[u][j] EXCEPT !.aged = TRUE]]]
    /\ txn' = [w \in Workers |-> IF txn[w] = Idle \/ Committed(w) THEN txn[w] ELSE [txn[w] EXCEPT !.aged = TRUE]]
    /\ UNCHANGED <<docs, channel, live, touched, calm>>

SettingsNext ==
    \/ \E q \in Requests : Submit(q) \/ ApplySchedule(q)
    \/ \E r \in Runs : RunPersist(r) \/ RunScore(r) \/ RunQuietly(r)
    \/ \E w \in Workers : Commit(w) \/ Fail(w)
    \/ Restart \/ DayPasses

\* Days pass, transactions end, and cron keeps starting runs, not all of which
\* are quiet or fail.
SettingsFairness ==
    /\ WF_settingsVars(DayPasses)
    /\ \A w \in Workers : WF_settingsVars(Commit(w) \/ Fail(w))
    /\ \A r \in Runs : /\ WF_settingsVars(RunPersist(r))
                       /\ SF_settingsVars(RunScore(r)) /\ SF_settingsVars(Commit(r))

SettingsSpec == SettingsInit /\ [][SettingsNext]_settingsVars
FairSettingsSpec == SettingsSpec /\ SettingsFairness

-----------------------------------------------------------------------------
(* Properties. *)

Saves(q, page) == txn[q] # Idle /\ txn[q].op = page /\ txn'[q] # Idle /\ txn'[q].op = "apply"

\* "removing a target role ... left every job already in the database ranked as
\* though the role were still wanted": a page that is saved while nothing else
\* commits leaves every active job scored with the answers on it, the one on
\* sponsorship included, which the profile has a copy of.
SavesReachTheFeed ==
    [][\A q \in Requests : (Saves(q, "search") \/ Saves(q, "mail")) /\ txn[q].alone
         => LET u == txn[q].user IN
            \A j \in Active : scores'[u][j].of = [keywords |-> prefs'[u].keywords, sponsor |-> prefs'[u].sponsor,
                                                 skills |-> profile'[u].skills, text |-> text[j]]]_settingsVars

UpToDate(u, j) ==
    j \in Active => scores[u][j] # Unscored /\ scores[u][j].of = ScoreWith(PrefsOf(u), ProfileOf(u), text[j])

\* Whatever overlaps, fails, or is saved without scoring: once documents and jobs
\* stay as they are, every score comes to be the one they give, and stays it.
ScoresCatchUp ==
    <>[][FALSE]_docs => <>[](\A u \in Users, j \in Jobs : UpToDate(u, j))

\* The dashboard promises mails "from the live scheduler": unless saves overlapped,
\* or another account saved, that is what the oldest account has chosen, and what
\* a restart would set up.
LiveMatchesSaved ==
    calm /\ ~(\E q \in Requests : Committed(q)) => live = Rescheduled({}, PrefsOf(Oldest).schedule)

\* "only the sections the form declares are written, so the two pages cannot
\* overwrite each other": the one leaves mails and times as they are, the other
\* what is searched for.
PagesKeepToThemselves ==
    [][\A q \in Requests : (Saves(q, "search") \/ Saves(q, "mail")) /\ txn[q].alone =>
         LET u == txn[q].user IN
         /\ Saves(q, "search") => /\ prefs'[u].schedule = PrefsOf(u).schedule
                                  /\ MailsVia(prefs'[u], channel') = MailsVia(PrefsOf(u), channel)
         /\ Saves(q, "mail") => /\ prefs'[u].keywords = PrefsOf(u).keywords
                                /\ prefs'[u].sponsor = PrefsOf(u).sponsor]_settingsVars
=============================================================================
