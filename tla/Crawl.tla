------------------------------- MODULE Crawl -------------------------------
(***************************************************************************)
(* A search run from its setup to its last transaction, as far as boards   *)
(* and sources are concerned (pipeline/runner.py, sources/base.py,         *)
(* services of pipeline/discovery.py).  Every enabled source tries its     *)
(* targets: boards that were picked, boards guessed from company names,    *)
(* queries, or lists.  What it makes of the answers becomes the outcome of *)
(* the source, the failures of its boards and the status of the run.       *)
(*                                                                         *)
(* Boards says what may happen to the registry; here each target has an    *)
(* answer of its own.                                                      *)
(***************************************************************************)
EXTENDS Boards

CONSTANTS
    Guessable,     \* boards whose names can be guessed from the preferred companies
    Searched,      \* sources that are searched with queries
    Listed,        \* sources that read public lists
    Indexed,       \* those of them that must be told by an index what to read
    PartsOf,       \* the queries or lists of such a source, or its index
    Unconfigured,  \* sources whose credentials are missing
    NoRecord

ASSUME CrawlAssumption ==
    /\ Guessable \subseteq Boards
    /\ (Searched \cup Listed) \cap Sources = {} /\ Searched \cap Listed = {}
    /\ Indexed \subseteq Listed /\ \A s \in Indexed : PartsOf[s] # {}
    /\ \A boards \in SUBSET Boards : boards # NotRunning

VARIABLES
    work,     \* work[r]: what run r has in hand, and when it is over, how it is booked
    sources   \* the job_sources table

crawlVars == <<registry, crawl, work, sources>>

AllSources == Sources \cup Searched \cup Listed
Enabled == AllSources \ Disabled
Parts == UNION {PartsOf[s] : s \in Searched \cup Listed}

Outcomes == {"ok", "degraded", "failed", "unconfigured"}

\* JobSourceRecord; `failing' stands for a positive consecutive_failures.
SourceRecords == [health : Outcomes, failing : BOOLEAN]

\* What the row of the last run says when no run is under way: RUNNING, if that
\* one died.
Over == {"none", "running", "success", "partial", "failed"}

\* A run: its SearchRun row, and what it holds before there is one.
RunRows == [stage    : Over \cup {"collecting", "collected", "persisted"},
            guessed  : SUBSET Boards,
            answered : SUBSET (Boards \cup Parts),
            status   : [Enabled -> Outcomes]]

Idle == [stage |-> "none", guessed |-> {}, answered |-> {}, status |-> [s \in Enabled |-> "ok"]]

CrawlInit ==
    /\ BoardsInit
    /\ work = [r \in Runs |-> Idle]
    /\ sources = [s \in AllSources |-> NoRecord]

\* seed_boards_for_companies: guesses at boards that are not registered.
Guesses(table) == {b \in Guessable : table[b] = NoBoard}

SetUp(r) ==
    /\ work[r].stage \in Over
    /\ Setup(r)
    /\ work' = [work EXCEPT ![r] = [Idle EXCEPT !.stage = "collecting",
                                               !.guessed = Guesses(registry')]]
    /\ UNCHANGED sources

-----------------------------------------------------------------------------
(* Outcomes. *)

Tried(boards, s) == {b \in boards : SourceOf[b] = s}

\* Guesses counted like boards that are known.
OutcomeWithGuesses(picked, guessed, answered, s) ==
    LET tried == Tried(picked \cup guessed, s)  good == tried \cap answered IN
    IF tried # {} /\ good = {} THEN "failed" ELSE IF good # tried THEN "degraded" ELSE "ok"

\* BoardJobSource: failed if registered boards were tried and none answered,
\* degraded if some did; a guess that misses is neither.
BoardOutcome(picked, guessed, answered, s) ==
    LET tried == Tried(picked, s)  good == tried \cap answered IN
    IF tried # {} /\ good = {} THEN "failed" ELSE IF good # tried THEN "degraded" ELSE "ok"

\* QueryJobSource: failed if every query failed.
QueryOutcome(answered, s) ==
    IF PartsOf[s] # {} /\ PartsOf[s] \cap answered = {} THEN "failed" ELSE "ok"

\* Lists that cannot be had are passed over; an index that cannot be had is an
\* error of its source.
ListOutcome(answered, s) ==
    IF s \in Indexed /\ PartsOf[s] \cap answered = {} THEN "failed" ELSE "ok"

\* JobSource.run
OutcomeOf(picked, guessed, answered, s) ==
    IF s \in Unconfigured THEN "unconfigured"
    ELSE IF s \in Sources THEN BoardOutcome(picked, guessed, answered, s)
    ELSE IF s \in Searched THEN QueryOutcome(answered, s)
    ELSE ListOutcome(answered, s)

\* What the run asks of a source: nothing, if it may not or cannot.
Asked(s, boards) ==
    IF s \notin Enabled \ Unconfigured THEN {}
    ELSE IF s \in Sources THEN Tried(boards, s) ELSE PartsOf[s]

\* collect: no transaction is open.
Collect(r) ==
    /\ work[r].stage = "collecting"
    /\ \E answered \in SUBSET UNION {Asked(s, crawl[r] \cup work[r].guessed) : s \in AllSources} :
          work' = [work EXCEPT ![r].stage = "collected", ![r].answered = answered,
                     ![r].status = [s \in Enabled |->
                                      OutcomeOf(crawl[r], work[r].guessed, answered, s)]]
    /\ UNCHANGED <<boardVars, sources>>

-----------------------------------------------------------------------------
(* The books. *)

With(status, outcomes) == {s \in Enabled : status[s] \in outcomes}

\* A source that lost any board taken for one that failed.
FailedOrDegraded(status) == With(status, {"failed", "degraded"})

\* _failed_board_ids, by source.
FailedOutright(status) == With(status, {"failed"})

\* _update_source_records: what is missing is not a failure, nor does it end one.
SourceRecord(old, status) ==
    [health  |-> status,
     failing |-> status = "failed" \/ (status = "unconfigured" /\ old # NoRecord /\ old.failing)]

SourcesAfter(status) ==
    [s \in AllSources |-> IF s \in Enabled THEN SourceRecord(sources[s], status[s]) ELSE sources[s]]

\* _record_run: the counts, and a row for every source.  The status of the run is
\* left for later.
Recorded(run) == [run EXCEPT !.stage = "persisted"]

\* The persist transaction without the pruning.
PersistUnpruned(r) ==
    /\ work[r].stage = "collected"
    /\ \E found \in Harvests :
          registry' = Booked(WithNew(registry, found), crawl[r], FailedOutright(work[r].status))
    /\ crawl' = [crawl EXCEPT ![r] = NotRunning]
    /\ sources' = SourcesAfter(work[r].status)
    /\ work' = [work EXCEPT ![r] = Recorded(@)]

\* The persist transaction.
Persist(r) ==
    /\ work[r].stage = "collected"
    /\ \E found \in Harvests :
          registry' = Pruned(Booked(WithNew(registry, found), crawl[r],
                                    FailedOutright(work[r].status)))
    /\ crawl' = [crawl EXCEPT ![r] = NotRunning]
    /\ sources' = SourcesAfter(work[r].status)
    /\ work' = [work EXCEPT ![r] = Recorded(@)]

StatusNoPartial(status) ==
    IF FailedOutright(status) = {} THEN "success" ELSE "failed"

\* The status of a run.
StatusOf(status) ==
    IF FailedOutright(status) = {} THEN "success"
    ELSE IF With(status, {"ok", "degraded"}) # {} THEN "partial" ELSE "failed"

\* The last transaction, after the digest.
Close(r) ==
    /\ work[r].stage = "persisted"
    /\ work' = [work EXCEPT ![r] = [Idle EXCEPT !.stage = StatusOf(work[r].status)]]
    /\ UNCHANGED <<boardVars, sources>>

\* The process dies, a stage raises, or a row another run has inserted meanwhile
\* makes the persist transaction fail: the row of the run stays RUNNING.
Die(r) ==
    /\ work[r].stage \notin Over
    /\ crawl' = [crawl EXCEPT ![r] = NotRunning]
    /\ work' = [work EXCEPT ![r] = [Idle EXCEPT !.stage = "running"]]
    /\ UNCHANGED <<registry, sources>>

Upkeep == (SeedRegistry \/ Prune \/ DaysPass) /\ UNCHANGED <<work, sources>>

CrawlNext ==
    \/ \E r \in Runs : SetUp(r) \/ Collect(r) \/ Persist(r) \/ Close(r) \/ Die(r)
    \/ Upkeep

CrawlSpec == CrawlInit /\ [][CrawlNext]_crawlVars

-----------------------------------------------------------------------------
(* Properties. *)

\* Tables and runs are well typed, and a run has boards in hand exactly while it
\* crawls.
CrawlTypeOK ==
    /\ BoardsTypeOK
    /\ work \in [Runs -> RunRows]
    /\ sources \in [AllSources -> SourceRecords \cup {NoRecord}]
    /\ \A r \in Runs : crawl[r] # NotRunning <=> work[r].stage \in {"collecting", "collected"}

\* With an outcome for every board, the registry behaves as Boards says.
ImplementsBoards == BoardsSpec

Books(r) == work[r].stage = "collected" /\ work'[r].stage = "persisted"

\* No board is punished for another: a failure is only counted against a board
\* that the run has tried and that did not answer.
OnlyFailuresCount ==
    [][\A r \in Runs, b \in Registered :
          Books(r) /\ registry'[b].failures > registry[b].failures
             => b \in crawl[r] \ work[r].answered]_crawlVars

\* "a guess which does not exist is never reported as a source failure": neither
\* in the status of the source nor in the failures of a board.
GuessesAreFree ==
    \A r \in Runs, s \in Enabled \cap Sources :
        work[r].stage = "collected" /\ work[r].status[s] \in {"failed", "degraded"}
            => \E b \in crawl[r] \ work[r].answered : SourceOf[b] = s

\* Failures are real: a run is booked as failed only if nothing but guesses has
\* answered, and a source enters a failing streak only through a run that asked it
\* for something and heard nothing.
FailuresAreReal ==
    [][\A r \in Runs :
         /\ work[r].stage = "persisted" /\ work'[r].stage = "failed"
              => work[r].answered \subseteq work[r].guessed
         /\ Books(r) => \A s \in Enabled : sources'[s].failing
              => \/ sources[s] # NoRecord /\ sources[s].failing
                 \/ Asked(s, crawl[r]) # {} /\ Asked(s, crawl[r]) \cap work[r].answered = {}]_crawlVars
=============================================================================
