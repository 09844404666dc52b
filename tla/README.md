# A verification development for the Internship Search Agent

This directory holds TLA+ models of the agent in `src/app`, the TLC runs that
check them on small instances, and TLAPS proofs of what holds for every value
of the constants. It is written for somebody who has the repository at hand.

## 1. The system

The agent is one Python process (FastAPI, SQLAlchemy, APScheduler) and a
command line that runs the same pipeline; a cron workflow may run it a third
time elsewhere. What they share is the database.

A **search run** (`pipeline/runner.py: run_search`) is a sequence of
transactions with long unlocked stretches in between:

    setup txn      SearchRun row, curated boards, boards to crawl, guesses
    collect        every source over HTTP, no transaction open
    pure stages    prefilter, normalise, deduplicate, merge, score
    persist txn    companies, boards, board results, prune, jobs, expiry, enrichment
    notify txn     for each user in turn: re-score, select, send a mail, mark
    final txn      status of the SearchRun row

Scheduler, dashboard, API and command line start runs without excluding each
other, the dashboard and mailed links record decisions and settings meanwhile,
and a nightly job expires rows and disables boards.

### Inventory

| component | state it keeps | operations | interacts with | hard behaviours | what makes it correct |
|---|---|---|---|---|---|
| Persistence of jobs (`services/persistence.py`) | `jobs` rows: facts, status, freshness, ages; listings | `persist_clusters`, `find_existing_job`, `expire_stale_jobs` | run, maintenance; the digest reads it | sources answering in different runs; expiry and repost in one transaction; two runs inserting one id | withdrawn is one notion in four columns; known facts are kept; an update is a change; a posting is found again, and stored in the end |
| Cluster merging, deduplication (`pipeline/dedupe.py`) | a union-find forest per run | `deduplicate`, `merge_cluster_facts`, `elect_application_url` | feeds persistence | stages in an order, pairs passed over, pairwise guards against transitive merging | clusters are what the pairs connect; a pay range has one origin |
| Search run (`pipeline/runner.py`, `db.py`) | SearchRun, source records | the transactions above | everything | crash between transactions, roll-back over many users, overlap | no record without a mail; partial failures stay partial; failures are charged to what failed |
| Digest (`notify/digest.py`, `engine.py`) | notifications, marks in `UserJobState` | select, send, mark | run, tracker, jobs table | at-least-once delivery, cap, cooldown, decisions racing mails | nothing is on record that was not mailed; nobody is forgotten |
| Providers (`notify/providers.py`) | none | `send`, fallback to a file | digest, settings | refusal, a lost answer | refusal marks nothing |
| Scheduler (`scheduler.py`) | cron jobs | `reschedule`, `_run_digest`, `_run_maintenance` | starts runs, follows settings | overlap with manual runs, a restart between a save and its effect, a nightly job that is switched off with the digests | the live schedule is the saved one |
| Board registry (`pipeline/discovery.py`, `services/bootstrap.py`) | `ats_boards` | seed, register, select, record, prune, guess | run, sources, maintenance | booking from a stale pick, rotation under a cap, back-off that never ends | every healthy board is covered; failures stay bounded |
| Job sources (`sources/base.py`) | statistics of a fetch | `JobSource.run`, the three kinds of `fetch` | run, registry | some targets answer and some do not | guesses are free, failures real |
| HTTP client (`sources/http.py`) | cache, semaphore, a lock and a clock per host | `request`, `RateLimiter.acquire` | adapters | retries, spacing, slots | hosts are spared; every request ends |
| Source adapters (`sources/ats`, `boards`, `lists`) | none | `fetch_board`, `fetch_query`, `fetch` | HTTP client | lists that move while they are paged through, items without an id | what keeps still is read; ids tell postings apart |
| Per-user state and tracker (`services/user_jobs.py`, `actions.py`) | `UserJobState`, `Application` | `set_status`, `bulk_set_status`, undo, `rescore_for_run`, `mark_notified` | digest, dashboard, mailed links | two rows for one decision; first-reached timestamps; undo | the two rows agree; an undo undoes everything; a first date is not lost |
| Preferences and profiles (`services/preferences.py`, `routes/pages.py`) | a document of each kind per user, mail settings | load, save, score | scores, digests, schedule | two forms over one document, copies, scoring that is skipped | what is saved reaches the feed, and scores catch up |
| Enrichment (`services/enrichment.py`, `pipeline/llm.py`) | hashes and facts of read jobs, a budget of calls | `enrich_jobs`, `apply_facts`, `chat` | persist txn, command line | rows loaded hours ago, checkpoints, quotas | facts are of the text they stand with; stops lose little; what can be read is |
| Accounts, queries, normalisation, ranking, learning, migrations | | | | | not modelled, see section 8 |

`PROJECT.json` lists these component by component, and under `hazards` each
place where the code is hard to test, at its line.

## 2. The modules

| module | what it is |
|---|---|
| `JobRow` | one row of `jobs`, and creating, re-seeing and expiring it, as pure operators |
| `Persistence` | the jobs table over many runs: sources that edit and take down postings, `SearchRun` (merge, persist, expire: one transaction), `Maintenance`, days |
| `Nightly` | `Persistence` with a schedule that may be switched off, and the nightly job with it |
| `StoredJobs` | which row a cluster belongs to: the index and lookups of a persist transaction, its inserts and conflicts, under overlapping runs |
| `Dedupe`, `Partition` | the union-find over the stages, step by step; the abstract growing partition it implements |
| `Digest`, `AlertLedger` | runs with their notify transaction over `Persistence`, trackers, crashes, refusals, lost answers, decisions; the abstract ledger of single mails it implements |
| `Boards` | the registry: seeding, picking, booking from a stale pick, pruning |
| `Crawl` | a whole run with an answer for every board, guess, query and list; refines `Boards` |
| `HttpClient` | slots, pacing, retries of the shared client |
| `Adapters`, `Fetch` | what the adapters ask for and drop; fetches that page through moving lists over `HttpClient` and a cache |
| `Tracker` | one user's `UserJobState` and `Application` rows under overlapping requests |
| `Settings` | preferences, profiles, scores, mail settings and the live schedule under requests, commands, runs and restarts |
| `Enrichment` | reading postings with a model, in a run and by the command, under quotas and interruption |
| `Digest_proofs` | theorems about `JobRow`, `Persistence` and `Digest` |
| `Crawl_proofs` | theorems about `Boards` and `Crawl` |
| `Fetch_proofs` | theorems about `HttpClient`, `Adapters` and `Fetch` |
| `Stored_proofs`, `Dedupe_proofs`, `Tracker_proofs`, `Settings_proofs`, `Enrichment_proofs` | theorems about the module of that name (`StoredJobs`, ...) |
| `MC*` | constants for TLC |

`Digest` and `Nightly` EXTEND `Persistence`, which EXTENDS `JobRow`; `Crawl`
EXTENDS `Boards`; `Fetch` EXTENDS `HttpClient` and `Adapters`. `StoredJobs`
takes its clusters from what `Partition` promises of `Dedupe`. The other modules
meet in a value: `Persistence` leaves open which source answers, `Digest` takes
a score as a constant, `Tracker` looks inside the requests `Digest` takes as one
step (`SetStatus`).

### How state and actions correspond to the code

*JobRow.* A row is a record of the columns that steer control flow. Facts are
the `MATERIAL_FIELDS`, grouped by how `persist_clusters` writes them:
`FillFields` through `_set_if_present` (or under a test, the deadline),
`PayFields` as a pair when the incoming minimum is known, `OverwrittenFields`
always. What is written is what the column takes (`InColumn`: the models cut
`location_raw` and `application_url` on assignment, models/base.py:81-93), while
`MaterialChanges` compares the value as it came, as `_material_changes` does.
Times are capped ages, `unseen` for `last_seen_at` and `age` for
`date_discovered`: the code only compares them with the grace period and with
one day. `SightedJob` is the loop body of `persist_clusters` for a known job,
`AfterExpiry` the one of `expire_stale_jobs`.

*Persistence.* `SearchRun` picks which sources answered (`up`) and which
clusters the scorer kept (`kept`), merges each cluster by `MergedFacts`
(members in authority order, gaps filled from the next, the pay range as a pair,
the URL elected by site) and writes and expires in one step, as the code does in
one transaction. `NewJob` is the insert. A listing is a function from
fields to values; `PostingsAssumption` names what normalisation guarantees.
`TooLong` are the jobs of which some listing says more than a column holds.

*Nightly.* `scheduled` is whether the scheduler has `_run_maintenance`:
`Reschedule` is a save of the schedule or a restart, either way round, and
`Night` the job itself.

*StoredJobs.* A posting has a look: an ATS identity, an opening (requisition and
discriminators), a URL and a fingerprint, each of which may change between runs.
`Load` is everything up to the start of the loop: the clusters, any that
deduplication may have made of what answered, and a copy of both tables for the
index. `StoreCluster` is a turn of the loop, largest cluster first;
`FindExistingJob` is `find_existing_job` with its four lookups, each going
through the members in their order. Where a query may return one of several
rows, either is possible. `Commit` writes changed columns, `Fail` is the
constraint that two inserts of one id or one listing run into.

*Dedupe.* `TakePair` is a turn of the loop of a stage (exact keys, fingerprints,
contents, similarity within a company), `Climb` one halving of a path inside
`find`, `Union` the join by rank, `Ask` a call to the model. `MergeGuard` and
`Similarity` are translated in full over listings whose fields are values; how
alike two titles or texts are is a parameter.

*Digest.* `run[r].pc` is where a run stands in the notify transaction: `users`
(between two users), `sending` (mail built, provider not called), `delivered`
(the mail is out, its jobs not yet marked). `marks` is what the open
transaction has written and nobody else can see. `Commit` publishes the marks,
`RollBack` throws them away: that is the process dying, or a flush that fails
and makes the `load_preferences` of the next user, which is outside the `try`,
raise. `NotSent` is a refusal, an exception inside `send_digest`, a rehearsal,
or an answer that was lost after the server had taken the mail. `StartRun` is
everything up to and including the persist transaction, in one step: until
then nothing the digest reads has changed. Users are served in any order.
`told` is a history variable: what really reached a user, which the program
itself cannot know, and what became of it: `sent`, on record with the flag of
an update still up (`flagged`), on record and `settled`, or `stale` because the
posting changed. A day may pass in the middle of a run.

*Boards.* `Setup` registers curated boards and picks, `Finish` books the
outcome with the rows as they are then, `Abandon` is a run that dies or raises
in between, `SeedRegistry` the start of a server or the command.
`last_crawled_at` is a rank among crawls and a bit for the last three days.

*Crawl.* `work[r]` is the SearchRun row and what the run holds before there is
one. `Collect` lets each target answer or not; `OutcomeOf` is what
`BoardJobSource.fetch`, `QueryJobSource.fetch` and the lists make of that in
`JobSource.run`. A list that starts from an index (Hacker News, `Indexed`) fails
if the index cannot be had; one that gathers several (GitHub) is always well.
`Persist` books boards through the sources that failed (`_failed_board_ids`), as
`Boards` says, and the source records; `Close` sets the status. `Die` leaves the
row RUNNING.

*HttpClient, Fetch.* A request waits for a slot, then for the lock and delay of
its host (`Pace`, `WakeUp`: the clock is read under the lock and slept on), is
sent, and is answered, refused or given up. Retries wait outside the semaphore.
`since` counts ticks up to the delay. A fetch asks for a page, from the cache if
it is there, and `Ends` is the condition each adapter ends a query by: a short
page, the total (which Workday gives with the first page only), nothing new, a
page count, or `MAX_PAGES`. A page that cannot be had fails the fetch
(`GiveUp`), except with the lists on GitHub, which go on with the next
(`PassOver`). `Facets` is Workday's discovery of the internship facet, with its
fallback. A posting has faults (no id, off topic, no employer, blank, inactive),
and `Adapters` says which of them each adapter drops.

*Tracker.* A request is a transaction of three steps: it loads its rows
(`Decide`, `BulkDecide`, `GiveReason`, `Visit`, `Note`, `ScoreJobs`: the route
or stage that starts it), writes them to the database (`Flush`, where the card
is looked up next, as `actions.set_status` does) and commits (`Commit`).
`Edited` and `EditedCard` are what the handlers do to the objects they loaded.
What reaches the table is column-wise, as the mapper's UPDATE is: a column the
request did not change keeps what another request has put there meanwhile
(`WriteRow`). A request dates what it writes by the clock as it arrived (`now`),
and the clock moves whoever is under way (`Midnight`). A row that is flushed and
not committed is `Held`, and an insert that finds the row there already can only
roll back. `opened_at` and `notified` matter here only because a request that
sets them creates a missing row (`Visit`). A mailed link is a `Decide` at any
time. `clean` and `alone` are history: whether the last decision on a job was a
single one with nothing overlapping it or coming after it in bulk.

*Settings.* `live` are the jobs of the scheduler, the nightly one included,
which `Rescheduled` takes away with the digests when the schedule is switched
off. A transaction reads what it needs when it opens and knows what it will
write (`txn[w].changes`, one `Change` per user); `Commit` writes what is not
`Same` as it was loaded, `Conflicts` is a row inserted twice. `ApplySchedule` is
the `reschedule` after the commit, `Restart` a process that reads the schedule
anew. A score is the set of answers it was computed from. `aged` stands for
twenty hours since a job was scored. `SaveSearchPage` and `SaveMailPage` are the
two forms that post to `settings_save`, with what each declares.

*Enrichment.* A sighting of a posting is a hash and a text, since the hash is taken
from the leading listing of its cluster (title, company, place, the first 6000
characters) and the text from whichever listings have one. `base` is a row as a
worker loaded it, `mine` as it holds it in memory; `Flushed` writes the columns
in which they differ. `Persist` is the run's sighting of postings and the expiry
of others, with the reading that follows in the same transaction, `Backfill` the
command. `Targets` are picked as the code picks them: any `ScanLimit` (5000) of
the candidates, since the query states no order; of those the ones that fit a
role; of those the best. `Ask` takes the best posting left; `Limited`,
`QuotaGone`, `OutOfRoom`, `Unusable` and `Facts` are the answers `chat` tells
apart. `Facts` changes the rows in memory and, with every `CommitEvery`-th
reading, makes a checkpoint due; `Checkpoint` commits it, and `Interrupt` may come
between.

## 3. What is checked

| run | states | shows |
|---|---|---|
| `persistence` | 12,096 | one job, two sources, a schedule that is switched off and on: `WithdrawnIsConsistent`, `PayRangeFromOneSource`, `FilledFactsStay`, `UpdateChangesAFact`, `RepostFollowsWithdrawal`, `TakenDownExpires` |
| `stored` | 152,560 | two overlapping runs over three postings: `IdsAreFound`, `SameAgainIsQuiet`, `EventuallyStored` |
| `dedupe` | 141,372 | every batch of four listings over a choice of keys: `RanksRise`, `ClustersAreConnected`, refinement `ImplementsPartition` |
| `digest` | 126,078 | two overlapping runs, edits, roll-backs and lost answers anywhere: `NotifiedWasTold`, `OnlyChangesResurface`, refinement `ImplementsLedger` |
| `digest_told` | 37,336 | unedited jobs under a cap of one, no overlap and no faults: `EventuallyTold` |
| `boards` | 45,324 | `CountStaysLow`, `CleanBoardsComeRound` |
| `crawl` | 247,579 | whole runs: `GuessesAreFree`, `OnlyFailuresCount`, `FailuresAreReal`, refinement `ImplementsBoards` |
| `fetch` | 226,872 | two fetches over one host: `IdsTellPostingsApart`, `StillListsAreRead`, `HostsAreSpared`, `EveryFetchEnds` |
| `tracker` | 3,169,460 | two overlapping requests on one job: `DatesHaveScores`, `FirstDatesKept`, and where nothing overlapped `RowAndCardAgree`, `RestoreIsComplete` |
| `settings` | 171,651 | a request and a run over one user: `LiveMatchesSaved`, `SavesReachTheFeed`, `ScoresCatchUp` |
| `enrichment` | 320,481 | a run and a command: `ReadingsAreOfTheText`, `InterruptionsLoseLittle`, `PostingsAreRead` |
| `settings_pages` | | violated: `PagesKeepToThemselves`, see section 7 |

What each property says stands as a comment before it in its module. The types
of `Crawl`, `StoredJobs`, `Dedupe`, `Fetch`, `Settings` and `Enrichment` are part
of the inductive invariants of section 4: they are proved and not run.

### Bounds, and why they are enough

* `persistence`: one job, two sources (the ATS and an aggregator), five
  listings between them that know different facts, one with an address that its
  column cuts to another's, grace of two days. Rows do
  not interact, so one job shows everything a row can go through. Two sources
  are needed for facts that come and go, the grace period must have an inside
  and an outside, and `unseen` has both.
* `stored`: three postings, one on the board, one of the same job on a site that
  words it differently, and one without an identity that reads like the first;
  the board, the aggregator or both answer. It takes three for a cluster to
  resolve one way by its identity and another by its looks, and two runs for an
  insert to be lost.
* `dedupe`: four listings of one company from two sources, whose addresses, ids,
  places, ATS identities and words vary (3,456 batches); one call to the model. A
  path to halve and a chain of guarded listings take three, joining two trees of
  rank one takes four. Titles and texts are alike or not at one value each, on
  either side of both thresholds as the other signals add up.
* `digest`: one user, one job with two contents, two runs, cooldown of one day.
  The hazards are two runs over one row, a roll-back after a mail, and an edit
  before, during and after one, which this holds; the proof is for any number of
  users, jobs and runs.
* `digest_told`: two jobs and a cap of one, so that one job always waits behind
  another; postings do not change.
* `boards`: three boards of two sources, a budget of two (half of it is one),
  two runs, back-off at two failures, prune at four. A budget below the number
  of boards is what makes rotation a question, and two runs reach the highest
  failure count, `BackOffAt - 1 + Cardinality(Runs)`.
* `crawl`: two boards of one source, one of which may also be a guess, a searched
  source, one without credentials, and two lists, one of which fails without its
  index; it shares its fate with the searched source. The other passes over what it
  cannot have, and is switched off: with it no run can fail. Two runs. A sibling
  that answers and a guess that does not is all that the outcome of a source
  depends on.
* `fetch`: any adapter next to a fetch from a small board on the same host, two
  slots, one retry, two queries of up to two pages of two rows, lists of two
  contents. A page boundary, an item without an id on either side of it, and a
  list that moves across it are what can go wrong.
* `tracker`: one job, since requests only meet on a job they share (a bulk
  decision or a scoring of many jobs is that many rows in one transaction, and
  the theorems hold for any number); two requests, which is what a lost update
  or a conflicting insert takes; two values of the clock, so that a date can be
  overwritten by another, also within a request's lifetime; one status of each
  kind (restored, dated in both rows, frozen). Requests that would write nothing
  modelled (a visit to a row that exists, a score that stays) are not started.
  There is one score, so a frozen score can only be missing in this run, not
  wrong: `FrozenScoresKept` is proved instead.
* `settings`: one account, one posting, one request and one run at a time, a
  schedule that is on or off. A save meets a run, a restart or a day; two saves
  that overlap are excused by the properties, or caught up with by scoring. The
  keywords are one value there, so what `SavesReachTheFeed` tells apart are
  the two answers on sponsorship and the text. `settings_pages` has two
  keywords and a mail server with and without a password.
* `enrichment`: three postings, of which the best need not be readable and may
  expire, the next is edited between two texts, and the third fits no role; two
  are looked at, so that the third can keep a fitting one out; two calls, and a
  commit after every reading. `OneToOne` holds of all three; without it
  `ReadingsAreOfTheText` fails at once, as section 7 describes.

Capped quantities: `unseen`, `age` (`JobRow`), `since`, `quiet` (`Digest`),
`since` (`HttpClient`) at the value beyond which no test of the code tells them
apart; `rank` (`Boards`) is renumbered without gaps. `day` stops at `LastDay`
(`Tracker`), the one bound that is not the code's. Calls, attempts, pages and the
postings looked at are bounded as the code bounds them, by constants that the
configurations give small values: `MaxCalls`, `MaxRetries`, `MaxPages`,
`ScanLimit`, `Limit`, `MaxJobs`.

### Fairness

* `NightlyFairness`: time goes on, and a scheduler that has the nightly job, and
  keeps it, runs it (`WF(Night)`; cron with a misfire grace of two hours). That it
  has the job is not assumed: with the schedule switched off nothing expires unless
  searches are started by hand. `TakenDownExpires` is about a schedule that comes
  to stay on, and then needs no searches.
* `DigestFairness`: cron starts digests for ever (`SF(StartRun)`: strong, since
  the run it waits for may be under way each time it looks); a run that is not
  killed goes on (`WF` on its own steps); a provider that is asked again and
  again delivers in the end (`SF(Deliver)`: what the code owes in return is
  to ask again). Nothing is assumed of users, roll-backs or sources.
* `BoardsFairness`: days pass, runs go on being started, and not every run of a
  slot is abandoned (`SF(Finish)`).
* `StoredFairness`: a run that is open finishes, and runs in which every source
  answers come again and again. Who wins a race is left open.
* `FetchFairness`: coroutines go on when they can and a request is answered or
  times out; `asyncio`'s semaphore and locks serve waiters in order, hence
  `SF` for taking a slot and for a host's lock; ticks pass.
* `SettingsFairness`: days pass, transactions end, and of the runs cron starts
  some score their users and commit.
* `EnrichmentFairness`: runs come that have not spent their calls before they
  read (`SF(Persist(r, 0))`), since one with `llm_dedup_adjudication` and
  `llm_semantic_matching` switched off spends none; a worker goes on
  (`WF(Work)`); and about a readable posting it is not always told the limit or
  nonsense (`SF` on its facts). Interruptions and the 5000-row limit are
  premises of `PostingsAreRead`.

`Dedupe`, `Crawl` and `settings_pages` are safety only. `dedupe` has no check for
deadlock, since a batch is finished at some point.

## 4. What is proved

Every safety invariant, every action property and every refinement that a run
checks is also a theorem: a run shows it on a small instance, the theorem for
every value of the constants. The exceptions are the liveness properties, named
at the end of this section. Three theorems have a hypothesis about the constants
(`CooldownKept`: `Alone`; `IdsAreAlwaysFound`: `LooksStay`;
`StillListsAreAlwaysRead`: `PagesBringNews`); each is explained where it occurs.
The last two are met by the instance their run checks.

`Digest_proofs`, first of `Persistence`, from the named assumptions on the
constants in `JobRow` and `Persistence`, for any jobs, sources, listings and
grace period:

* `IInv == TypeOK /\ SystemOwnedStatus /\ WithdrawnIsConsistent` is inductive.
  `WithdrawnIsConsistent` alone is not: a row whose shared status were
  `rejected` or `applied` would keep it through expiry, or escape expiry, so
  that the columns disagree. `SystemOwnedStatus` says what only the whole code
  base shows: `Job.status` is never anything but `new` or `expired`, decisions
  live in `UserJobState`. The step splits per row, not per action:
  `StepOfARow` shows that any step leaves a row alone, inserts it, re-sees it,
  or ages it, and each of those keeps `GoodRow`.
* From it `TypeCorrect`, `WithdrawnConsistent`, `PayRangeKept` (with its own
  strengthening, rows whose range is a listing's), and the action properties
  `UpdatesAreChanges`, `FilledFactsKept`, `RepostsFollowWithdrawals`.
* `UpdatesAreChanges` excuses the jobs with a listing that is too long for its
  column (`TooLong`): what is flagged is compared before the cut, what is kept is
  the cut value, and only where nothing is cut are the two the same
  (`RepresentativeFits`).

Then of `Digest`, for any users, jobs, runs, scores, cap and cooldown, with or
without faults:

* `DigestKeepsTable`: `Digest` refines `Persistence`, so all of the above
  holds under digests.
* `LInv == TrackerType /\ MailAtHand /\ NotifiedWasTold` is inductive.
  `MailAtHand` ties a run's program counter to what it holds: a mail in hand is
  within the cap and has an addressee, one that is `delivered` has been heard of.
  Without it `Mark` could mark what was never sent.
* `DigestTypeCorrect`, `NotifiedOnlyWhatWasTold`, and `DigestKeepsLedger`: the
  transaction over all users implements a ledger of single mails.
* `ChangesAloneResurface`, for any runs that overlap, are rolled back and started
  anew, and for any edits. `OnlyChangesResurface` is about what `Selection` reads,
  two tables that different transactions write; `KInv` says what the history
  knows of both (`Known`): a mail on record is on record for good, and where it
  is `settled` the row's update flag is down. A flag goes up only over a change,
  which makes the mail `stale` in the same step, and comes down when a run sees the
  posting another day (`FlagGoesDown`). Between the mail and that run the
  property promises nothing, and the code mails again after the cooldown.

Then, for any users, jobs, postings and cap, where runs neither overlap nor are
rolled back (`Alone`):

* `CooldownKept`: nobody is mailed about a job again before the cooldown is
  over. The digest decides by `notified_at`, the user counts from the last mail,
  and between the mail and the commit the two differ. The invariant `CInv` says
  that every mail is `Remembered` by the tracker (its clock not ahead of the
  user's) or `Pending` in the open transaction, and that a run holds nothing
  pending for a user it still has to serve (`Tidy`): so what `Select` reads for
  that user is up to date. With a second run, or a roll-back, a mail may be
  pending or forgotten while somebody else selects, and the property fails.
  `RateLimited` is proved only; no run checks it.

`Crawl_proofs`, first of `Boards`, for any boards, sources, runs and thresholds
(finite sets):

* `BInv`: the types, and for each board that its failures plus the number of runs
  that have it in hand stay within `BackOffAt - 1 + Cardinality(Runs)`.
  `CountStaysLow` is not inductive: a run that books a failure raises the count,
  and only because it lets go of the board does the sum stay. Picking is where
  the bound enters (a picked board is below the back-off).
* `BoardsTypeCorrect` (with the renumbering of ranks: an image of the boards
  not crawled has fewer members than there are boards) and `FailuresStayLow`.

Then of `Crawl`, for any boards, guesses, sources of the three kinds, targets and
runs:

* `CInv`: the types (with: a run has boards in hand exactly while it crawls), that
  the status a run holds for each source is what the answers say (`Judged`), and
  that whatever answered and was no guess belongs to a source that is well or
  degraded (`Credited`). The books are written a transaction after the answers
  came in, so neither `OnlyFailuresCount` nor `FailuresAreReal` follows without
  them. A list that starts from an index fails without it (`Indexed`); one
  that answers in part never does, and keeps every run it is in from failing.
* `CrawlKeepsRegistry`: `Crawl` refines `Boards`. The step that matters is
  `Persist`: the sources that failed outright are `FailedSources` of some set of
  boards that answered (`FailuresAreKnown`).
* `CrawlTypeCorrect`, `GuessesGoUnpunished`, `NoBoardIsBlamed`,
  `FailuresHaveCauses`, and, through the refinement, `CrawlFailuresStayLow`.

`Tracker_proofs`, for any jobs and requests, all of them overlapping at will:

* `TInv == TrackerTypeOK /\ DatesHaveScores /\ OneInserter /\ Informed`, the
  last two per request. A request writes over rows that may have changed since
  it loaded them, so `DatesHaveScores` is not inductive: a date from one request
  might meet the score column of another. `Informed` says what cannot have
  happened since: a row does not vanish, a date that was there is not gone, and
  a frozen score is still there (`Since`). `OneInserter` says that of two requests
  that insert the same row at most one has flushed it.
* `TrackerTypeCorrect`, `DatesAreScored`.

And with what holds of jobs on which nothing overlapped:

* `LoneView` says that what a request that was alone has loaded is still what
  is committed; so its commit is a sequential step, and the invariant `AInv`
  adds row and card to `TInv`.
* `CardTellsTheStory`, `RestoresAreComplete`, `FrozenScoresStay`.
* `FirstDatesStay`, of all requests: a date that is there is never lost, and
  one commit replaces it by another date only if its request had found none and
  was not alone (`CommitDates`: where it was alone, what it found is what is
  there). That an overlapping request may do so is what the code does.

`Dedupe_proofs`, for any batch, any measure of likeness, any block size and any
number of calls:

* `RootOf`, where a find arrives, is a recursive function, and nothing can be
  proved of it by induction here. Instead the invariant carries what an
  induction would give: `Rooted(parent, RootOf)` says that the equation of
  `RootOf` has this solution, that it leads to roots, and that it is the only
  one. Each step then exhibits the solution for the new forest: the same map
  after a halving (`HalvingKeepsRoots`), the map with one root renamed after a
  union (`UnionOfRoots`). Halving needs that no two places are each other's parents,
  which `RanksRise` gives.
* `DedupeInv` adds `InHand` (the two finds have not left the trees they started
  in), `NothingElse` (only what judged pairs connect is together: every set that
  the pairs do not leave is not left by a cluster either) and `NothingLost` (a
  pair whose turn is over and that was to be linked is together for good).
* `RanksAlwaysRise`, `ClustersAreAlwaysConnected`, and
  `DedupeImplementsPartition`: a union joins two parts over a pair that may be
  linked, every other step changes none.

`Stored_proofs`, for any postings, clusterings, answers and overlapping runs:

* `JInv`: `Sound` says that every listing has a job and that every job has a
  listing whose posting its id was taken from; it is kept of the tables, and of
  what each open run has loaded and what it is about to write. `Builds` says what
  cannot have happened since a run loaded: no row vanishes, so that a commit,
  which writes single columns over what other runs have committed, leaves `Sound`
  tables. That alone gives `ListingsAlwaysHaveJobs`.
* `IdsAreAlwaysFound` needs `LooksStay`: a posting keeps its ATS identity and
  its URL (its words, its opening and its fingerprint may change). Without it the
  property is false, and TLC finds the counterexample: a posting without an ATS
  identity moves to another URL, its job keeps the id made of the first, and when
  a second posting appears under that first URL, no listing leads to the job
  (`find_existing_job` asks the listings' URLs, never the id), so that the run
  tries to insert the id again. Sources that are keyed by the URL itself, and
  ATS boards, satisfy the hypothesis; the run `stored` does.
* `SameAgainIsAlwaysQuiet`, without hypothesis. `QuietInv` says that the
  listings of a cluster stored last are in one job and look as the postings do
  (`Together`), and that what a run by itself has loaded is what is there
  (`ByItself`). Then a cluster that comes again is led to that one job by its first
  member (`TogetherIsFound`).

`Fetch_proofs`, for any callers, hosts, slots, delays, retries, lists and pages:

* `HttpInv`: a request that sleeps holds the lock of its host, and sleeps until
  the delay is over even if others looked at the clock meanwhile. The second half
  is why `HostsAreAlwaysSpared` holds although a request is sent long after it
  has read the clock.
* `IdsAlwaysTellPostingsApart`: an adapter either drops what has no id, or has an
  id of its own for it, or is one of the `Trusting` (`IdlessAreDropped`).
* `StillListsAreAlwaysRead`. `ReadInv` says, for a fetch whose lists kept still:
  the cached pages are those the server would answer (`CacheIsFresh`), what was
  found in the first query is exactly what is on the pages before this one, in
  later queries at least that, and queries that are over were read up to the
  limit (`ReadSoFar`). `TakeOutcome` and `EndsRight` go through the conditions
  adapters end by. The exactness in the first query is needed for the adapters
  that end where nothing is new: they compare a page with everything found, and
  a full page without news would end them early. `PagesBringNews` is the
  hypothesis that no list does that to them; it concerns no other adapter.
  Workday's queries after the first need none, since it never ends on that ground.

`Settings_proofs`, for any number of users, jobs, answers, requests and runs:

* `SInv`: while no two saves overlapped and no other account saved (`calm`), at
  most one save is under way (`OneSave`), a schedule that waits to be applied is the
  saved one (`AboutToBeLive`), and the live one is it unless one waits (`Live`).
  That needs `Modest`: whoever is not a page or the API writes preferences only
  where there are none, and then the defaults. `Grounded` and `Fresh` are about
  scores: a score a transaction leaves alone exists, and a page that is alone
  holds for every active job the score that its two documents give.
* `LiveAlwaysMatchesSaved`, `SavesAlwaysReachTheFeed`. They rest on
  `SettingsAssumption`, among it that digests can be switched off on a form
  (a box that is not ticked).

`Enrichment_proofs`, for any postings, texts, workers, limits and quotas:

* `RowsMoveTogether`: for a posting whose hash tells its texts apart (`OneToOne`),
  hash and text are those of one sighting, and so are facts and the hash they were
  read under, in the table, in what a worker loaded and in what it holds
  (`Together`). A worker writes the columns in which its copies differ; because the
  two columns of a pair differ together, it writes both or neither over what
  others have written. That is why `ReadingsAreAlwaysOfTheText` holds between
  workers that never saw each other.
* `FewAreUnsaved`: the rows a command has changed since its last commit are no more
  than its readings modulo `CommitEvery`, or `CommitEvery` while a checkpoint is
  due (with `RemainderCounts`, the lemma that a remainder counts up to the next
  multiple); `CheckpointsComeFirst`: nobody is asked before it. Hence
  `InterruptionsAlwaysLoseLittle`, whose bound is reached by a stop between the
  reading and its checkpoint.

Only model-checked: the liveness properties `TakenDownExpires`, `EventuallyTold`,
`CleanBoardsComeRound`, `EventuallyStored`, `EveryFetchEnds`, `ScoresCatchUp` and
`PostingsAreRead`. They need `ENABLED` and induction along a behaviour, which the
prover does not have.

## 5. Assumptions of the models

* Transactions read what is committed (PostgreSQL's default). On SQLite the
  open notify transaction holds the write lock, so other writers wait or time
  out: fewer interleavings, plus failures that are `RollBack` here.
* A score is a constant of user and job in `Digest`; `rescore_for_run` may change
  it between runs (`Settings`). Nothing in the properties of the digest depends on
  when it does except `EventuallyTold`, where a score that falls takes the job
  out of it.
* `enabled` is on and `send_when_empty` off, the defaults; an empty digest
  marks nothing.
* The columns that cut are `location_raw` and `application_url`; cutting twice is
  cutting once (`ClampAssumption`). Titles, names and ids are cut too, and steer
  nothing here.
* Deadlines are explicit when present, a maximum of pay never comes without a
  minimum: both hold of everything `normalize.py` produces.
* `Booked` writes failure counts atomically. Two runs booking at once may lose
  one increment in the code, which only makes counts lower.
* In `Tracker` a written row is locked until the commit (PostgreSQL), the
  shared score is read at the commit, and a request that finds its row gone or
  taken rolls back as a whole. Dates are values of a clock that moves at any time;
  that clocks differ between processes is left out.
* In `StoredJobs` postings change between runs only, and what deduplication does
  is any clustering that its guard and its exact keys allow.
* In `Crawl` a source ends failed only through its own answers; the `except
  Exception` of `JobSource.run` (base.py:141), which would catch a slip in an
  adapter, is left out.
* In `Fetch` the pages of a fetch in a cache expire together, after its end.
* In `Settings` a run reads the documents of all users together, the code one
  user after the other within a transaction; documents that no longer validate,
  roles, location rules, weights and scope are left out, a field standing for its
  section; so is the shared `Job.relevance_score`, which the command also
  writes, and Telegram, the provider that is not mail. That a score decays
  with the age of a posting is `aged`.
* In `Enrichment` calls used before a run reads are none or all. With as many
  unreadable postings as calls, `PostingsAreRead` fails: the code asks about the
  same ones in every run. The query for candidates and `needs_enrichment` differ
  only in what they make of a blank description, and the test of the budget inside
  the loop (enrichment.py:230) never binds, since no more is loaded than there are
  calls: both are one here. Waiting out a 429 changes nothing, and is no step.
* In `Nightly` a restart and a save both switch `scheduled`; which rules lead to it
  is `Settings`.

## 6. Mutants

Every property of a passing run has a mutant in `PROJECT.json`: a plausible slip
in the code (a dropped guard, one column forgotten, the flag of an update that
stays up, a pair written bound by bound, expiry before persisting, a mark on
refusal, a commit that writes every row, a rotation turned round, ranks that
never rise, a paging that looks one page ahead, a lock that is not taken,
guesses that count, a checkpoint that is not due) that makes TLC find the
property violated. The mutated forms stand before their originals in the
modules.

## 7. Disagreements between code and documentation

One has a run. `settings_pages`: "only the sections the form declares are written,
so the two pages cannot overwrite each other" (pages.py:619-620), but keywords,
companies and constraints are written from any form, and the mail fields go to
`notify_config.save` whether the form has them or not. Saving the page of mails
and times blanks the keywords; saving the search page clears the mail server,
and digests then go to a file.

The rest came up while modelling and is described here:

* "a source that omits a fact this run must not erase what another source told us
  earlier" (persistence.py:425-426), but sponsorship is assigned on every
  sighting, UNKNOWN included, and the upper end of a pay range goes with the lower.
* "do not notify me about this twice ... across runs and restarts"
  (engine.py:3-5), but the record shares one transaction with every later user's
  digest; and a mail whose acknowledgement is lost counts as not sent. "Only
  a material change may re-surface it" (digest.py:122), but the flag of an update outlives
  the mail about it (digest.py:124 reads it, and only a later sighting takes it
  down): a job that was edited once and is not seen again is mailed after every
  cooldown until it expires (`flagged` in `OnlyChangesResurface`).
* An address or a place longer than its column is cut when it is stored
  (models/base.py:81-93) and compared uncut (persistence.py:291-321): such a
  posting is "updated" in every run, with nothing changed (`TooLong`).
* "a job moving from Indeed to LinkedIn does not re-alert you"
  (README.md:264-267), but `application_url` is a material field.
* "an applied or saved job stays put" (persistence.py:547-548), but the sweep
  tests the shared status, which no decision ever writes.
* "backed off but never permanently dropped" (discovery.py:162-163), but a board
  with eight failures is never picked, and only being picked resets it. Picking
  stops at eight and the prune begins at twelve, so that it disables a board only
  if five or more runs that picked it overlap (`CountStaysLow`).
* "Undo has to undo" (tests/test_decision_signal.py:92), but only going back to
  `new` clears the reason, and undo goes back to `saved` for a job that was
  saved, and always from a mailed link. Overlapping requests can leave a reason
  on a job that was just restored, although pages.py:403-404 says the reason then
  "does not apply", or leave row and card with two statuses.
* "First reached, not last" (user_jobs.py:107), say the dates of decisions, but each
  request tests the row it has loaded and writes its own clock
  (user_jobs.py:140-141, actions.py:72-73): of two first decisions that overlap,
  the later commit replaces the earlier date (`CommitsOver` in `FirstDatesKept`).
* The guard of deduplication says what "must never collapse" into one job
  (dedupe.py:109-115) of two listings; a third that is compatible with both, or
  one key, still brings them together.
* The lookup by fingerprint "gets the same guards the in-run deduplicator applies"
  (persistence.py:264-267), but `_stored_job_conflicts` has no counterpart of the
  guard against two listings of one source at two addresses: openings of one
  employer with one title, kept apart within a run, become one job if a later run
  brings the second.
* The "stable public identifier" of a job without an ATS identity
  (persistence.py:69) is made of the URL it was first seen at, and no lookup asks
  for it: when the posting has moved and another appears at that URL, the run
  inserts the id a second time and fails (section 4, `LooksStay`).
* A board that failed while a sibling of its source answered is booked as a
  success (runner.py:412), and so are boards of a source that is disabled or
  lacks its credentials, which nobody fetched (runner.py:423). Lists on GitHub
  that cannot be had leave their source "ok" (github_lists.py:49-52), so that with
  them switched on no run can fail, whatever else is down; Hacker News fails its
  source when its index cannot be had (hackernews.py:46).
* A run that dies leaves its SearchRun row RUNNING for ever (runner.py:191).
* "stale facts about it are worse than none" (enrichment.py:80), but the next
  sighting overwrites the skills that were read (persistence.py:448) and leaves
  the hash by which the posting counts as read.
* The hash that tells whether a posting has changed covers title, company, place
  and the first 6000 characters of the leading listing (normalize.py:221), while
  requirements come from whichever listing has some (dedupe.py:446-455): where a
  second source edits them, facts of the old text go on counting as read
  (`OneToOne` in `ReadingsAreOfTheText`).
* "leaves the jobs it already read enriched" (enrichment.py:23) holds up to the last
  checkpoint: a command stopped between a reading and its checkpoint loses all
  `CommitEvery` of them (enrichment.py:233-238), which `InterruptionsLoseLittle`
  allows.
* "Postings worth spending a model call on, best first" (enrichment.py:96) are the
  best of any 5000 unread ones (enrichment.py:126), which are taken before their
  titles are looked at: 5000 that fit no role keep a fitting one out for as long as
  the database returns them (the premise `AllAreScanned` of `PostingsAreRead`).
* Switching the digests off takes the nightly job away too (scheduler.py:94-101):
  without searches, nothing expires then (`TakenDownExpires`).
* The one scheduler of the process follows whoever saved last (pages.py:882), the
  next start the oldest account.
* A job whose higher ranked neighbours are edited for ever can wait for ever
  under the cap (the premise of `EventuallyTold`).

## 8. What is not modelled, and why

* **Accounts** (`auth.py`, `password_reset.py`, `appconfig.py`,
  `routes/accounts.py`): short transactions on tables of their own that nothing
  else reads. Their races were read: two first sign-ups that overlap can both
  adopt the legacy account (auth.py:240), and the loser of the race for the
  signing key rolls back whatever its caller had written (appconfig.py:48).
* **Normalisation and extraction**, and the arithmetic of **ranking**: pure
  functions of text; their results enter as constants or choices.
* **Queries and pages** that read: they change nothing. What they must agree on is
  stated of the rows (`WithdrawnIsConsistent`).
* **Learning and resumes**: computed on demand from what is stored.
* **Migrations**: table definitions, run once per release.
* The counters of a run's report, job events, the companies table, opened and
  impression columns, rendering of mails, prompts, and the checking of a model's
  answer field by field. Locks and lock timeouts of SQLite appear only as
  roll-backs.

## 9. Plan

Built: all of section 2, with a theorem for every safety property that is run.
Next, in this order:

1. The step from safety to liveness as far as it is safety: that a job in the
   digest's backlog is never lost from it (what `EventuallyTold` rests on), and
   that a board with a clean record is never passed over by a fresher one
   (`CleanBoardsComeRound`), as action properties with proofs.
2. Abstract specifications for `Settings` (one saved document per user) and
   `StoredJobs` (a map from postings to jobs that only grows), with refinements.
3. `FrozenScoresKept` and `RateLimited` as properties of a run, and the types of the
   modules that have none in a run.
4. `Accounts`, and the status of a run through crashes, once the code repairs it.
