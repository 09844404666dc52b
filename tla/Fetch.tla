------------------------------- MODULE Fetch -------------------------------
(***************************************************************************)
(* Fetches of boards and queries at work over the shared client: each      *)
(* pages through lists that may move under it, and returns what it met,    *)
(* goes on with the next list, or fails as a whole.  A fetch is done again *)
(* in the next run, and pages that were answered not long ago then come    *)
(* from the cache.                                                         *)
(***************************************************************************)
EXTENDS HttpClient, Adapters, Sequences, Functions

CONSTANTS
    KindsOf(_),    \* the adapters a caller may be
    Postings,
    Faults(_),     \* what a posting may be dropped for
    Lists(_, _),   \* what a query may show
    PageSize,      \* PAGE_SIZE
    FallbackPages, \* SEARCH_FALLBACK_PAGES of Workday
    NoPage

VARIABLES
    kind,     \* kind[c]: the adapter of a fetch
    shown,    \* shown[c][q]: what the server lists for a query now
    fetch,    \* fetch[c]: where the fetch stands
    cache,    \* cache[c]: the cached pages
    still     \* history: whether no list has moved since the oldest page in use

fetchVars == <<request, since, lock, kind, shown, fetch, cache, still>>

QueryIds == 1 .. Queries
PageIds == 1 .. MaxPages

\* There is a page to read of every query, and a fallback reads no further than a search.
ASSUME FetchAssumption ==
    /\ {Queries, MaxPages, FallbackPages, PageSize} \subseteq Nat \ {0}
    /\ FallbackPages <= MaxPages
    /\ \A c \in Callers, q \in QueryIds : Lists(c, q) \subseteq Seq(Postings)

EmptyCache == [q \in QueryIds |-> [p \in PageIds |-> NoPage]]

Start(k) ==
    [stage   |-> IF k = "workday" THEN "facets" ELSE "pages",
     queries |-> Adapter[k].queries, pages |-> Adapter[k].pages,
     query   |-> 1, page |-> 1, total |-> 0, found |-> {}]

FetchInit ==
    /\ HttpInit
    /\ kind \in [Callers -> DOMAIN Adapter]
    /\ \A c \in Callers : kind[c] \in KindsOf(c)
    /\ shown \in [Callers -> [QueryIds -> UNION {Lists(c, q) : c \in Callers, q \in QueryIds}]]
    /\ \A c \in Callers, q \in QueryIds : shown[c][q] \in Lists(c, q)
    /\ fetch = [c \in Callers |-> Start(kind[c])]
    /\ cache = [c \in Callers |-> EmptyCache]
    /\ still = [c \in Callers |-> TRUE]

-----------------------------------------------------------------------------
(* Pages. *)

Prefix(list, n) == SubSeq(list, 1, IF n < Len(list) THEN n ELSE Len(list))

PagesOf(list) == (Len(list) + PageSize - 1) \div PageSize

\* What the server answers: the rows of a page, the total of the query on its
\* first page only, and the number of pages.
Payload(c) ==
    LET f == fetch[c]  list == shown[c][f.query]
        upTo == Prefix(list, f.page * PageSize)
    IN [rows  |-> IF Adapter[kind[c]].ends = {} THEN list
                  ELSE SubSeq(upTo, (f.page - 1) * PageSize + 1, Len(upTo)),
        total |-> IF f.page = 1 THEN Len(list) ELSE 0,
        count |-> PagesOf(list)]

Total(f, answer) == IF f.page = 1 THEN answer.total ELSE f.total

\* The total compared with the rows that the next page would reach.
EndsBeforeTotal(c, answer) ==
    LET f == fetch[c]
        new == {i \in Range(answer.rows) : "no id" \notin Faults(i)} \ f.found
    IN answer.rows = <<>> \/ f.page = f.pages \/ new = {}
       \/ (f.page + 1) * PageSize >= Total(f, answer)

\* Whether a query is over after a page.
Ends(c, answer) ==
    LET f == fetch[c]  ends == Adapter[kind[c]].ends
        new == {i \in Range(answer.rows) : "no id" \notin Faults(i)} \ f.found
    IN \/ answer.rows = <<>>
       \/ f.page = f.pages
       \/ "short page" \in ends /\ Len(answer.rows) < PageSize
       \/ "nothing new" \in ends /\ new = {}
       \/ "page count" \in ends /\ f.page >= answer.count
       \/ /\ "total" \in ends
          /\ Total(f, answer) # 0 /\ f.page * PageSize >= Total(f, answer)

\* After the last page of a query.
NextQuery(f) ==
    IF f.query < f.queries THEN [f EXCEPT !.query = @ + 1, !.page = 1, !.total = 0]
    ELSE [f EXCEPT !.stage = "done"]

TakePage(c, answer) ==
    LET f == fetch[c]
        next == [f EXCEPT !.found = @ \cup Range(answer.rows), !.total = Total(f, answer)]
    IN fetch' = [fetch EXCEPT ![c] =
          IF Ends(c, answer) THEN NextQuery(next) ELSE [next EXCEPT !.page = @ + 1]]

Cached(c) == cache[c][fetch[c].query][fetch[c].page]

AskForPage(c) ==
    /\ \/ fetch[c].stage = "facets"
       \/ fetch[c].stage = "pages" /\ Cached(c) = NoPage
    /\ Request(c)
    /\ UNCHANGED <<kind, shown, fetch, cache, still>>

PageFromCache(c) ==
    /\ fetch[c].stage = "pages" /\ At(c, "none") /\ Cached(c) # NoPage
    /\ TakePage(c, Cached(c))
    /\ UNCHANGED <<request, since, lock, kind, shown, cache, still>>

PageFromServer(c) ==
    /\ fetch[c].stage = "pages" /\ At(c, "answered")
    /\ TakePage(c, Payload(c))
    /\ cache' = [cache EXCEPT ![c][fetch[c].query][fetch[c].page] = Payload(c)]
    /\ request' = [request EXCEPT ![c] = NoRequest]
    /\ UNCHANGED <<since, lock, kind, shown, still>>

\* Workday: the tenant's facets for internships, each a query; without any, or
\* with an error, the top pages of a search.
Facets(c) ==
    /\ fetch[c].stage = "facets"
    /\ \/ /\ At(c, "answered")
          /\ fetch' = [fetch EXCEPT ![c].stage = "pages"]
       \/ /\ At(c, "answered") \/ At(c, "failed")
          /\ fetch' = [fetch EXCEPT ![c].stage = "pages", ![c].queries = 1,
                                    ![c].pages = FallbackPages]
    /\ request' = [request EXCEPT ![c] = NoRequest]
    /\ UNCHANGED <<since, lock, kind, shown, cache, still>>

\* A page that cannot be had fails the fetch, pages read before included.
GiveUp(c) ==
    /\ fetch[c].stage = "pages" /\ At(c, "failed") /\ kind[c] \notin Forgiving
    /\ fetch' = [fetch EXCEPT ![c] = [Start(kind[c]) EXCEPT !.stage = "failed"]]
    /\ request' = [request EXCEPT ![c] = NoRequest]
    /\ UNCHANGED <<since, lock, kind, shown, cache, still>>

\* Except that one list of several is done without.
PassOver(c) ==
    /\ fetch[c].stage = "pages" /\ At(c, "failed") /\ kind[c] \in Forgiving
    /\ fetch' = [fetch EXCEPT ![c] = NextQuery(@)]
    /\ request' = [request EXCEPT ![c] = NoRequest]
    /\ UNCHANGED <<since, lock, kind, shown, cache, still>>

\* The next run, with what the cache still has.
Again(c) ==
    /\ fetch[c].stage \in {"done", "failed"}
    /\ fetch' = [fetch EXCEPT ![c] = Start(kind[c])]
    /\ still' = [still EXCEPT ![c] = @ \/ cache[c] = EmptyCache]
    /\ UNCHANGED <<request, since, lock, kind, shown, cache>>

Expire(c) ==
    /\ fetch[c].stage \in {"done", "failed"} /\ cache[c] # EmptyCache
    /\ cache' = [cache EXCEPT ![c] = EmptyCache]
    /\ UNCHANGED <<request, since, lock, kind, shown, fetch, still>>

\* The server's list for a query changes.
Moves(c) ==
    /\ \E q \in QueryIds : \E list \in Lists(c, q) \ {shown[c][q]} :
          shown' = [shown EXCEPT ![c][q] = list]
    /\ still' = [still EXCEPT ![c] = FALSE]
    /\ UNCHANGED <<request, since, lock, kind, fetch, cache>>

ClientStep(c) == HttpStep(c) /\ UNCHANGED <<kind, shown, fetch, cache, still>>

TimePasses == Tick /\ UNCHANGED <<kind, shown, fetch, cache, still>>

FetchStep(c) ==
    \/ AskForPage(c) \/ PageFromCache(c) \/ PageFromServer(c) \/ Facets(c)
    \/ GiveUp(c) \/ PassOver(c) \/ ClientStep(c)

FetchNext ==
    \/ \E c \in Callers : FetchStep(c) \/ Again(c) \/ Expire(c) \/ Moves(c)
    \/ TimePasses

\* Coroutines are resumed when they can go on, the semaphore and the locks are
\* handed out in order, an answer or a timeout comes, and time passes.
FetchFairness ==
    /\ WF_fetchVars(TimePasses)
    /\ \A c \in Callers :
          /\ WF_fetchVars(FetchStep(c))
          /\ SF_fetchVars(TakeSlot(c) /\ ClientStep(c))
          /\ SF_fetchVars(Pace(c) /\ ClientStep(c))

FetchSpec == FetchInit /\ [][FetchNext]_fetchVars

FairFetchSpec == FetchSpec /\ FetchFairness

-----------------------------------------------------------------------------
(* Properties. *)

\* The listings a fetch returns.
Returned(c) == {i \in fetch[c].found : Faults(i) \cap Adapter[kind[c]].drops = {}}

\* The id a posting is returned under: its link for want of one, or str(None).
SourceJobId(k, i) ==
    IF "no id" \in Faults(i) /\ k \notin {"github_lists", "serpapi"} THEN "None" ELSE i

\* Two postings of a source never come back under one id, which the first stage of
\* deduplication would take for one listing seen twice.
IdsTellPostingsApart ==
    \A c \in Callers : fetch[c].stage = "done" /\ kind[c] \notin Trusting =>
        \A i, j \in Returned(c) : SourceJobId(kind[c], i) = SourceJobId(kind[c], j) => i = j

\* A list that keeps still is read to its end or to the page limit: the first
\* query always, and with Workday's exact filter every one of them ("pagination
\* stays correct all the way through").  Who goes on without a list promises nothing.
StillListsAreRead ==
    \A c \in Callers : LET f == fetch[c] IN
        f.stage = "done" /\ still[c] =>
            \A q \in IF kind[c] = "workday" THEN 1 .. f.queries
                    ELSE IF kind[c] \in Forgiving THEN {} ELSE {1} :
                Range(Prefix(shown[c][q], f.pages * PageSize)) \subseteq f.found

\* Every fetch ends, however the lists move while it pages through them and
\* whatever the servers answer.
EveryFetchEnds == \A c \in Callers : []<>(fetch[c].stage \in {"done", "failed"})
=============================================================================
