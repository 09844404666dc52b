-------------------------------- MODULE Boards --------------------------------
(***************************************************************************)
(* The registry of job boards.  A run picks boards in one transaction,     *)
(* crawls them with no transaction open, and books the outcome in another: *)
(* runs overlap, so what is booked is not what was picked from.  Outages   *)
(* are known per source (every Greenhouse board shares one), and only an   *)
(* outage of a whole source counts against its boards.                     *)
(*                                                                         *)
(* last_crawled_at is kept as a rank in the order of crawls (0: never) and *)
(* whether it lies within the last three days.                             *)
(***************************************************************************)
EXTENDS Integers, FiniteSets

CONSTANTS
    Boards,
    Sources,
    SourceOf,      \* provider_to_source, for the board's provider
    Curated,       \* boards written down in the code
    Limit,         \* max_ats_boards_per_run
    BackOffAt,     \* 8: failures at which a board is no longer picked
    PruneAt,       \* 12: failures at which it is disabled
    Runs,          \* runs that may be under way together
    Disabled,      \* sources switched off in the preferences
    NoBoard,
    NotRunning

ASSUME BoardsAssumption ==
    /\ SourceOf \in [Boards -> Sources]
    /\ Curated \subseteq Boards
    /\ IsFiniteSet(Boards) /\ IsFiniteSet(Runs)
    /\ Limit \in Nat /\ BackOffAt \in Nat \ {0} /\ PruneAt \in Nat

VARIABLES
    registry,      \* the ats_boards table
    crawl          \* crawl[r]: the boards a run has picked, or NotRunning

boardVars == <<registry, crawl>>

Rows == [enabled  : BOOLEAN,
         failures : Nat,
         rank     : 0 .. Cardinality(Boards),
         recent   : BOOLEAN]

NewRow == [enabled |-> TRUE, failures |-> 0, rank |-> 0, recent |-> FALSE]

Registered == {b \in Boards : registry[b] # NoBoard}

BoardsInit ==
    /\ registry = [b \in Boards |-> NoBoard]
    /\ crawl = [r \in Runs |-> NotRunning]

-----------------------------------------------------------------------------
(* Picking. *)

\* register_boards: a board that is known is left alone.
WithNew(table, found) ==
    [b \in Boards |-> IF b \in found /\ table[b] = NoBoard THEN NewRow ELSE table[b]]

\* seed_curated_boards.
Seeded(table) == WithNew(table, Curated)

\* The query without its failure filter.
AllEnabled(table) == {b \in Boards : table[b] # NoBoard /\ table[b].enabled}

Eligible(table) ==
    {b \in Boards : /\ table[b] # NoBoard
                    /\ table[b].enabled
                    /\ table[b].failures < BackOffAt}

\* The order with the last crawl turned round.
AheadNewestFirst(table, a, b) ==
    \/ table[a].failures < table[b].failures
    \/ table[a].failures = table[b].failures /\ table[a].rank > table[b].rank

\* ORDER BY consecutive_failures, never crawled first, last_crawled_at.
Ahead(table, a, b) ==
    \/ table[a].failures < table[b].failures
    \/ table[a].failures = table[b].failures /\ table[a].rank < table[b].rank

\* What the first n rows of S may be; ties are broken either way.
FirstRows(table, S, n) ==
    {T \in SUBSET S : /\ Cardinality(T) = (IF n < Cardinality(S) THEN n ELSE Cardinality(S))
                      /\ \A a \in T, b \in S \ T : ~Ahead(table, b, a)}

\* Of the first Limit rows, the first half whatever they are, and from the rest
\* those not crawled very recently.
Picks(table) ==
    UNION {{head \cup {b \in rows : ~table[b].recent} :
               head \in FirstRows(table, rows, Limit \div 2)} :
           rows \in FirstRows(table, Eligible(table), Limit)}

\* The setup transaction of a run.
Setup(r) ==
    /\ crawl[r] = NotRunning
    /\ registry' = Seeded(registry)
    /\ \E picked \in Picks(registry') : crawl' = [crawl EXCEPT ![r] = picked]

-----------------------------------------------------------------------------
(* Booking. *)

\* Sources that raised: boards of theirs were tried and not one answered.
FailedSources(picked, answered) ==
    {s \in Sources \ Disabled : /\ \E b \in picked : SourceOf[b] = s
                               /\ \A b \in answered : SourceOf[b] # s}

\* A rank that counts crawls instead.
RankCounts(table, picked, b) ==
    IF b \in picked THEN table[b].rank + 1 ELSE table[b].rank

\* Crawled boards move to the end of the order, together.
RankAfter(table, picked, b) ==
    LET kept == {table[c].rank : c \in {d \in Boards \ picked : table[d] # NoBoard}} \ {0}
    IN  IF b \in picked THEN Cardinality(kept) + 1
        ELSE Cardinality({n \in kept : n =< table[b].rank})

\* record_board_results.  A disabled source failed nowhere, so its boards, which
\* nobody fetched, are booked as crawled and well.
Booked(table, picked, failed) ==
    [b \in Boards |->
        IF table[b] = NoBoard THEN NoBoard
        ELSE IF b \notin picked
        THEN [table[b] EXCEPT !.rank = RankAfter(table, picked, b)]
        ELSE [enabled  |-> table[b].enabled,
              failures |-> IF SourceOf[b] \in failed THEN table[b].failures + 1 ELSE 0,
              rank     |-> RankAfter(table, picked, b),
              recent   |-> TRUE]]

\* prune_failed_boards.
Pruned(table) ==
    [b \in Boards |->
        IF table[b] # NoBoard /\ table[b].failures >= PruneAt
        THEN [table[b] EXCEPT !.enabled = FALSE] ELSE table[b]]

\* harvest_boards: the boards that the URLs somebody has met may give away.
Harvests == SUBSET (Boards \ Registered)

\* The persist transaction of a run: boards harvested from the URLs it met are
\* registered, those it crawled are booked, and dead ones disabled.
Finish(r) ==
    /\ crawl[r] # NotRunning
    /\ \E found \in Harvests :
         \E failed \in {FailedSources(crawl[r], answered) : answered \in SUBSET crawl[r]} :
            registry' = Pruned(Booked(WithNew(registry, found), crawl[r], failed))
    /\ crawl' = [crawl EXCEPT ![r] = NotRunning]

\* The process dies while it crawls, or a stage after the crawl raises.
Abandon(r) ==
    /\ crawl[r] # NotRunning
    /\ crawl' = [crawl EXCEPT ![r] = NotRunning]
    /\ UNCHANGED registry

\* seed_registry, at the first boot or by the command: boards that public lists
\* give away are registered, whatever runs are under way.
SeedRegistry ==
    /\ \E found \in Harvests : registry' = WithNew(registry, found)
    /\ UNCHANGED crawl

\* The nightly job.
Prune ==
    /\ registry' = Pruned(registry)
    /\ UNCHANGED crawl

\* Three days go by.
DaysPass ==
    /\ registry' = [b \in Boards |-> IF registry[b] = NoBoard THEN NoBoard
                                     ELSE [registry[b] EXCEPT !.recent = FALSE]]
    /\ UNCHANGED crawl

BoardsNext ==
    \/ \E r \in Runs : Setup(r) \/ Finish(r) \/ Abandon(r)
    \/ SeedRegistry \/ Prune \/ DaysPass

\* Cron starts runs, days pass, and not every run is abandoned.
BoardsFairness ==
    /\ WF_boardVars(DaysPass)
    /\ \A r \in Runs : WF_boardVars(Setup(r)) /\ SF_boardVars(Finish(r))

BoardsSpec == BoardsInit /\ [][BoardsNext]_boardVars

FairBoardsSpec == BoardsSpec /\ BoardsFairness

-----------------------------------------------------------------------------
(* Properties. *)

BoardsTypeOK ==
    /\ registry \in [Boards -> Rows \cup {NoBoard}]
    /\ crawl \in [Runs -> (SUBSET Boards) \cup {NotRunning}]

\* Only runs that picked a board before its last failure was booked can push it
\* past the back-off: with fewer overlapping runs than lie between the two
\* thresholds nothing is ever disabled.
MostFailures == BackOffAt - 1 + Cardinality(Runs)

CountStaysLow ==
    \A b \in Registered :
        /\ registry[b].failures =< MostFailures
        /\ PruneAt > MostFailures => registry[b].enabled

InCrawl(b) == \E r \in Runs : crawl[r] # NotRunning /\ b \in crawl[r]

\* "the whole registry is covered over successive runs": a board whose record is
\* clean from some point on is crawled again and again, whatever the cap, and
\* however runs overlap and fail.
CleanBoardsComeRound ==
    \A b \in Boards :
        <>[](b \in Registered /\ registry[b].failures = 0) => []<>InCrawl(b)
=============================================================================
