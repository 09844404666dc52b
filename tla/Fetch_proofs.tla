---------------------------- MODULE Fetch_proofs ----------------------------
(***************************************************************************)
(* That the shared client spares every host whatever the fetches over it   *)
(* do, that what a fetch returns can be told apart by its ids, and that a  *)
(* list that keeps still is read to its end: for any callers, hosts,       *)
(* delays, lists and page sizes.                                           *)
(***************************************************************************)
EXTENDS Fetch, TLAPS

-----------------------------------------------------------------------------
(* The client. *)

Stages == {"none", "queued", "admitted", "pacing", "sent", "backing off", "answered", "failed"}

RequestState == [stage : Stages, attempt : Nat, wait : Nat]

HttpType ==
    /\ request \in [Callers -> RequestState]
    /\ since \in [Hosts -> 0 .. Delay]
    /\ lock \in [Hosts -> Callers \cup {Nobody}]

\* Who sleeps holds the lock of the host, and sleeps until the delay is over even
\* if others had a look at the clock meanwhile.
SleepersHoldTheLock ==
    \A c \in Callers : At(c, "pacing") =>
        /\ lock[HostOf[c]] = c
        /\ request[c].wait + since[HostOf[c]] >= Delay

HttpInv == HttpType /\ SleepersHoldTheLock

\* A step of the client for one caller, or of the fetch that uses it.
CallerStep(c) ==
    \/ Request(c) \/ HttpStep(c)
    \/ request' = [request EXCEPT ![c] = NoRequest] /\ UNCHANGED <<since, lock>>

LEMMA InitHttpInv == HttpInit => HttpInv
BY HttpAssumption
   DEF HttpInit, HttpInv, HttpType, SleepersHoldTheLock, NoRequest, RequestState, Stages, At

\* A caller that only moves on without being let through, going to sleep or waking.
LEMMA QuietStep ==
    ASSUME HttpInv, NEW c \in Callers, NEW r \in RequestState,
           r.stage \notin {"pacing", "sent"},
           request' = [request EXCEPT ![c] = r], UNCHANGED <<since, lock>>
    PROVE  HttpInv' /\ \A d \in Callers : ~Sends(d)
<1>1. HttpType'
  BY DEF HttpInv, HttpType
<1>2. \A d \in Callers : request'[d] = IF d = c THEN r ELSE request[d]
  BY DEF HttpInv, HttpType
<1>3. SleepersHoldTheLock'
  BY <1>2 DEF HttpInv, SleepersHoldTheLock, At
<1>4. \A d \in Callers : ~Sends(d)
  BY <1>2 DEF Sends
<1> QED
  BY <1>1, <1>3, <1>4 DEF HttpInv

\* What a step of one caller keeps, and who is let through by it.
LEMMA CallerStepKeeps ==
    ASSUME HttpInv, NEW c \in Callers, CallerStep(c)
    PROVE  /\ HttpInv'
           /\ \A d \in Callers : Sends(d) => d = c /\ since[HostOf[d]] >= Delay
<1> DEFINE h == HostOf[c]
<1>1. /\ request \in [Callers -> RequestState]
      /\ since \in [Hosts -> 0 .. Delay] /\ lock \in [Hosts -> Callers \cup {Nobody}]
      /\ Delay \in Nat /\ HostOf \in [Callers -> Hosts] /\ h \in Hosts /\ Nobody \notin Callers
  BY HttpAssumption DEF HttpInv, HttpType
<1>2. ASSUME NEW r \in RequestState,
             r.stage \notin {"pacing", "sent"},
             request' = [request EXCEPT ![c] = r], UNCHANGED <<since, lock>>
      PROVE  /\ HttpInv'
             /\ \A d \in Callers : Sends(d) => d = c /\ since[HostOf[d]] >= Delay
  BY <1>2, QuietStep
<1>3. ASSUME NEW s \in Stages \ {"pacing", "sent"}, Goes(c, s), UNCHANGED <<since, lock>>
      PROVE  /\ HttpInv'
             /\ \A d \in Callers : Sends(d) => d = c /\ since[HostOf[d]] >= Delay
  <2> DEFINE r == [request[c] EXCEPT !.stage = s]
  <2>1. /\ r \in RequestState
        /\ r.stage \notin {"pacing", "sent"}
        /\ request' = [request EXCEPT ![c] = r]
    BY <1>1, <1>3 DEF Goes, RequestState
  <2> QED
    BY <2>1, <1>2, <1>3
<1>4. ASSUME Goes(c, "sent"), since' = [since EXCEPT ![h] = 0], since[h] >= Delay,
             lock' = lock \/ lock' = [lock EXCEPT ![h] = Nobody],
             lock[h] \in {c, Nobody}
      PROVE  /\ HttpInv'
             /\ \A d \in Callers : Sends(d) => d = c /\ since[HostOf[d]] >= Delay
  <2>1. /\ request'[c].stage = "sent"
        /\ \A d \in Callers : d # c => request'[d] = request[d]
    BY <1>1, <1>4 DEF Goes
  <2>2. HttpType'
    <3>1. request' \in [Callers -> RequestState]
      <4>1. [request[c] EXCEPT !.stage = "sent"] \in RequestState
        BY <1>1 DEF RequestState, Stages
      <4>2. request' = [request EXCEPT ![c] = [request[c] EXCEPT !.stage = "sent"]]
        BY <1>4 DEF Goes
      <4> QED
        BY <4>1, <4>2, <1>1
    <3>2. since' \in [Hosts -> 0 .. Delay]
      BY <1>1, <1>4
    <3>3. lock' \in [Hosts -> Callers \cup {Nobody}]
      BY <1>1, <1>4
    <3> QED
      BY <3>1, <3>2, <3>3 DEF HttpType
  <2>3. SleepersHoldTheLock'
    <3> SUFFICES ASSUME NEW d \in Callers, request'[d].stage = "pacing"
                 PROVE  /\ lock'[HostOf[d]] = d
                        /\ request'[d].wait + since'[HostOf[d]] >= Delay
      BY DEF SleepersHoldTheLock, At
    <3>1. d # c /\ request'[d] = request[d]
      BY <2>1
    <3>2. lock[HostOf[d]] = d /\ request[d].wait + since[HostOf[d]] >= Delay
      BY <3>1 DEF HttpInv, SleepersHoldTheLock, At
    <3>3. HostOf[d] # h
      BY <3>1, <3>2, <1>1, <1>4
    <3> QED
      BY <3>1, <3>2, <3>3, <1>1, <1>4
  <2> QED
    BY <2>1, <2>2, <2>3, <1>4 DEF HttpInv, Sends
<1>5. CASE Request(c)
  BY <1>3, <1>5 DEF Request, Stages
<1>6. CASE TakeSlot(c)
  BY <1>3, <1>6 DEF TakeSlot, Stages
<1>7. CASE Pace(c)
  <2>1. At(c, "admitted") /\ lock[h] = Nobody
    BY <1>7 DEF Pace
  <2>2. CASE since[h] >= Delay
    BY <1>4, <1>7, <2>1, <2>2 DEF Pace
  <2>3. CASE ~(since[h] >= Delay)
    <3>1. /\ request' = [request EXCEPT ![c].stage = "pacing", ![c].wait = Delay - since[h]]
          /\ lock' = [lock EXCEPT ![h] = c] /\ since' = since
      BY <1>7, <2>3 DEF Pace
    <3>2. Delay - since[h] \in Nat
      BY <1>1, <2>3
    <3>3. /\ request'[c].stage = "pacing" /\ request'[c].wait = Delay - since[h]
          /\ \A d \in Callers : d # c => request'[d] = request[d]
      BY <1>1, <3>1
    <3>4. HttpType'
      BY <1>1, <3>1, <3>2 DEF HttpType, Stages, RequestState
    <3>5. SleepersHoldTheLock'
      <4> SUFFICES ASSUME NEW d \in Callers, request'[d].stage = "pacing"
                   PROVE  /\ lock'[HostOf[d]] = d
                          /\ request'[d].wait + since'[HostOf[d]] >= Delay
        BY DEF SleepersHoldTheLock, At
      <4>1. CASE d = c
        BY <4>1, <3>1, <3>3, <1>1
      <4>2. CASE d # c
        <5>1. lock[HostOf[d]] = d /\ request[d].wait + since[HostOf[d]] >= Delay
          BY <4>2, <3>3 DEF HttpInv, SleepersHoldTheLock, At
        <5> QED
          BY <5>1, <4>2, <3>1, <3>3, <2>1, <1>1
      <4> QED
        BY <4>1, <4>2
    <3> QED
      BY <3>3, <3>4, <3>5 DEF HttpInv, Sends
  <2> QED
    BY <2>2, <2>3
<1>8. CASE WakeUp(c)
  <2>1. At(c, "pacing") /\ request[c].wait = 0
    BY <1>8 DEF WakeUp
  <2>2. lock[h] = c /\ since[h] >= Delay
    BY <1>1, <2>1 DEF HttpInv, SleepersHoldTheLock
  <2> QED
    BY <1>4, <1>8, <2>2 DEF WakeUp
<1>9. CASE Answer(c)
  BY <1>3, <1>9 DEF Answer, Stages
<1>10. CASE Refused(c)
  BY <1>3, <1>10 DEF Refused, Stages
<1>11. CASE Retry(c)
  <2>1. CASE request[c].attempt = MaxRetries
    BY <1>3, <1>11, <2>1 DEF Retry, Stages
  <2>2. CASE request[c].attempt # MaxRetries
    <3> DEFINE r == [request[c] EXCEPT !.stage = "queued", !.attempt = @ + 1]
    <3>1. /\ r \in RequestState
          /\ r.stage \notin {"pacing", "sent"}
      <4>1. request[c] \in RequestState /\ "queued" \in Stages
        BY <1>1 DEF Stages
      <4>2. request[c].attempt + 1 \in Nat
        BY <4>1 DEF RequestState
      <4>3. r \in RequestState /\ r.stage = "queued"
        BY <4>1, <4>2 DEF RequestState
      <4> QED
        BY <4>3
    <3>2. request' = [request EXCEPT ![c] = r]
      BY <1>1, <1>11, <2>2 DEF Retry
    <3> QED
      BY <3>1, <3>2, <1>2, <1>11 DEF Retry
  <2> QED
    BY <2>1, <2>2
<1>12. CASE request' = [request EXCEPT ![c] = NoRequest] /\ UNCHANGED <<since, lock>>
  BY <1>2, <1>12 DEF NoRequest, Stages, RequestState
<1> QED
  BY <1>5, <1>6, <1>7, <1>8, <1>9, <1>10, <1>11, <1>12 DEF CallerStep, HttpStep

\* Time takes from the sleep what it gives to the host.
LEMMA TickKeeps ==
    ASSUME HttpInv, Tick
    PROVE  HttpInv' /\ \A d \in Callers : ~Sends(d)
<1>1. /\ request \in [Callers -> RequestState]
      /\ since \in [Hosts -> 0 .. Delay] /\ lock' = lock
      /\ Delay \in Nat /\ HostOf \in [Callers -> Hosts]
  BY HttpAssumption DEF HttpInv, HttpType, Tick
<1>2. \A h \in Hosts : since'[h] = IF since[h] < Delay THEN since[h] + 1 ELSE Delay
  BY DEF Tick
<1>3. \A c \in Callers : /\ request'[c].stage = request[c].stage
                         /\ request'[c].wait = IF request[c].wait > 0 THEN request[c].wait - 1 ELSE 0
  BY <1>1 DEF Tick, RequestState
<1>4. HttpType'
  <2>1. ASSUME NEW c \in Callers
        PROVE  [request[c] EXCEPT !.wait = IF @ > 0 THEN @ - 1 ELSE 0] \in RequestState
    <3>1. request[c] \in RequestState /\ request[c].wait \in Nat
      BY <1>1 DEF RequestState
    <3>2. (IF request[c].wait > 0 THEN request[c].wait - 1 ELSE 0) \in Nat
      BY <3>1
    <3> QED
      BY <3>1, <3>2 DEF RequestState
  <2>2. request' \in [Callers -> RequestState]
    BY <2>1 DEF Tick
  <2>3. since' \in [Hosts -> 0 .. Delay]
    BY <1>1 DEF Tick
  <2> QED
    BY <2>2, <2>3, <1>1 DEF HttpInv, HttpType
<1>5. SleepersHoldTheLock'
  <2> SUFFICES ASSUME NEW c \in Callers, request'[c].stage = "pacing"
               PROVE  /\ lock'[HostOf[c]] = c
                      /\ request'[c].wait + since'[HostOf[c]] >= Delay
    BY DEF SleepersHoldTheLock, At
  <2>1. lock[HostOf[c]] = c /\ request[c].wait + since[HostOf[c]] >= Delay
    BY <1>3 DEF HttpInv, SleepersHoldTheLock, At
  <2>2. /\ HostOf[c] \in Hosts /\ request[c].wait \in Nat
        /\ since[HostOf[c]] \in Nat /\ since[HostOf[c]] <= Delay
    BY <1>1 DEF RequestState
  <2> QED
    BY <2>1, <2>2, <1>1, <1>2, <1>3
<1> QED
  BY <1>3, <1>4, <1>5 DEF HttpInv, Sends

\* Every step of a fetch is a step of the client for one caller, or none.
LEMMA FetchStepsOfClient ==
    FetchNext => \/ \E c \in Callers : CallerStep(c)
                 \/ Tick
                 \/ UNCHANGED httpVars
BY DEF FetchNext, FetchStep, AskForPage, PageFromCache, PageFromServer, Facets, GiveUp, PassOver, Again,
       Expire, Moves, ClientStep, TimePasses, CallerStep, httpVars

LEMMA NextHttpInv ==
    ASSUME HttpInv, [FetchNext]_fetchVars
    PROVE  /\ HttpInv'
           /\ \A c \in Callers : Sends(c) => since[HostOf[c]] >= Delay
           /\ \A c, d \in Callers : Sends(c) /\ Sends(d) => c = d
<1>1. CASE UNCHANGED httpVars
  BY <1>1 DEF httpVars, HttpInv, HttpType, SleepersHoldTheLock, At, Sends
<1>2. CASE Tick
  BY <1>2, TickKeeps
<1>3. ASSUME NEW c \in Callers, CallerStep(c)
      PROVE  /\ HttpInv'
             /\ \A d \in Callers : Sends(d) => since[HostOf[d]] >= Delay
             /\ \A d, e \in Callers : Sends(d) /\ Sends(e) => d = e
  BY <1>3, CallerStepKeeps
<1>4. CASE UNCHANGED fetchVars
  BY <1>1, <1>4 DEF fetchVars, httpVars
<1> QED
  BY <1>1, <1>2, <1>3, <1>4, FetchStepsOfClient

\* A host's lock, the requests that sleep under it and its clock always fit together
\* (RateLimiter.acquire in sources/http.py).
THEOREM HttpInvariant == FetchSpec => []HttpInv
<1>1. FetchInit => HttpInv
  BY InitHttpInv DEF FetchInit
<1>2. HttpInv /\ [FetchNext]_fetchVars => HttpInv'
  BY NextHttpInv
<1> QED
  BY <1>1, <1>2, PTL DEF FetchSpec

\* Two requests to one host are never closer than the delay, however many fetches,
\* retries and hosts there are (RateLimiter.acquire in sources/http.py).
THEOREM HostsAreAlwaysSpared == FetchSpec => HostsAreSpared
<1>1. HttpInv /\ [FetchNext]_fetchVars =>
        [/\ \A c \in Callers : Sends(c) => since[HostOf[c]] >= Delay
         /\ \A c, d \in Callers : Sends(c) /\ Sends(d) /\ HostOf[c] = HostOf[d] => c = d]_httpVars
  BY NextHttpInv
<1> QED
  BY <1>1, HttpInvariant, PTL DEF FetchSpec, HostsAreSpared

-----------------------------------------------------------------------------
(* The fetches. *)

KindType == kind \in [Callers -> DOMAIN Adapter]

LEMMA KindsAreAdapters == FetchSpec => []KindType
<1>1. FetchInit => KindType
  BY DEF FetchInit, KindType
<1>2. KindType /\ [FetchNext]_fetchVars => KindType'
  BY DEF FetchNext, FetchStep, AskForPage, PageFromCache, PageFromServer, Facets, GiveUp, PassOver, Again,
         Expire, Moves, ClientStep, TimePasses, fetchVars, KindType
<1> QED
  BY <1>1, <1>2, PTL DEF FetchSpec

\* An adapter that does not trust its postings to have ids drops the ones without,
\* or has the address to go by.
LEMMA IdlessAreDropped ==
    \A k \in DOMAIN Adapter \ Trusting :
        k \in {"github_lists", "serpapi"} \/ "no id" \in Adapter[k].drops
<1>1. /\ DOMAIN Adapter = {"workday", "eightfold", "phenom", "apple", "themuse", "google",
            "greenhouse", "lever", "ashby", "smartrecruiters", "workable", "recruitee", "remotive",
            "arbeitnow", "adzuna", "jsearch", "usajobs", "jooble", "serpapi", "github_lists",
            "hackernews"}
      /\ Adapter.workday = Workday /\ Adapter.eightfold = Eightfold /\ Adapter.phenom = Phenom
      /\ Adapter.apple = Apple /\ Adapter.google = Google /\ Adapter.greenhouse = Greenhouse
      /\ Adapter.lever = Lever /\ Adapter.ashby = Ashby
      /\ Adapter.smartrecruiters = SmartRecruiters /\ Adapter.workable = Workable
      /\ Adapter.recruitee = Recruitee /\ Adapter.hackernews = HackerNews
  BY DEF Adapter
<1>2. \A ends, drops : "no id" \in drops => "no id" \in Paged(ends, drops).drops
  BY DEF Paged
<1>3. \A drops : "no id" \in drops => "no id" \in Whole(drops).drops
  BY DEF Whole
<1>4. /\ "no id" \in Workday.drops /\ "no id" \in Eightfold.drops /\ "no id" \in Phenom.drops
      /\ "no id" \in Apple.drops /\ "no id" \in Google.drops /\ "no id" \in Greenhouse.drops
      /\ "no id" \in Lever.drops /\ "no id" \in Ashby.drops
      /\ "no id" \in SmartRecruiters.drops /\ "no id" \in Workable.drops
      /\ "no id" \in Recruitee.drops /\ "no id" \in HackerNews.drops
  BY <1>2, <1>3 DEF Workday, Eightfold, Phenom, Apple, Google, Greenhouse, Lever, Ashby,
     SmartRecruiters, Workable, Recruitee, HackerNews
<1> QED
  BY <1>1, <1>4 DEF Trusting

\* What a fetch returns can be told apart by the ids it is returned under, whatever
\* postings lack an id, unless the adapter trusts that none does (parse in sources/).
THEOREM IdsAlwaysTellPostingsApart == FetchSpec => []IdsTellPostingsApart
<1>1. KindType => IdsTellPostingsApart
  <2> SUFFICES ASSUME KindType,
                      NEW c \in Callers, kind[c] \notin Trusting,
                      NEW i \in Returned(c), NEW j \in Returned(c),
                      SourceJobId(kind[c], i) = SourceJobId(kind[c], j)
               PROVE  i = j
    BY DEF IdsTellPostingsApart
  <2>1. kind[c] \in {"github_lists", "serpapi"} \/ "no id" \in Adapter[kind[c]].drops
    BY IdlessAreDropped DEF KindType
  <2> QED
    BY <2>1 DEF Returned, SourceJobId
<1> QED
  BY <1>1, KindsAreAdapters, PTL

-----------------------------------------------------------------------------
(* Lists that keep still. *)

\* What the server answers for a page of a query, for an adapter.
PageAt(k, lists, q, p) ==
    LET upTo == Prefix(lists[q], p * PageSize)
    IN [rows  |-> IF Adapter[k].ends = {} THEN lists[q]
                  ELSE SubSeq(upTo, (p - 1) * PageSize + 1, Len(upTo)),
        total |-> IF p = 1 THEN Len(lists[q]) ELSE 0,
        count |-> PagesOf(lists[q])]

\* The postings on the first pages of a query.
FirstPages(lists, q, n) == Range(Prefix(lists[q], n * PageSize))

\* The queries that are to be read to the end.
Due(k, f) == IF k = "workday" THEN 1 .. f.queries ELSE IF k \in Forgiving THEN {} ELSE {1}

\* Where a fetch may stand.
Placed(k, f) ==
    /\ f.query <= f.queries /\ f.page <= f.pages
    /\ f.stage = "facets" => k = "workday" /\ f.query = 1 /\ f.page = 1 /\ f.found = {}
    /\ Adapter[k].ends = {} => f.pages = 1

\* The cached pages are those that the server would still answer.
CacheIsFresh(k, lists, pages) ==
    \A q \in QueryIds, p \in PageIds : pages[q][p] # NoPage => pages[q][p] = PageAt(k, lists, q, p)

\* What is before the page is read, and of the first query nothing else is.
ReadSoFar(k, lists, f) ==
    /\ f.stage = "pages" =>
          /\ f.query = 1 => f.found = FirstPages(lists, 1, f.page - 1)
          /\ FirstPages(lists, f.query, f.page - 1) \subseteq f.found
          /\ f.page # 1 => f.total = Len(lists[f.query])
          /\ \A q \in Due(k, f) : q < f.query => FirstPages(lists, q, f.pages) \subseteq f.found
    /\ f.stage = "done" => \A q \in Due(k, f) : FirstPages(lists, q, f.pages) \subseteq f.found

FetchRecords ==
    [stage : {"facets", "pages", "done", "failed"}, queries : QueryIds, pages : PageIds,
     query : QueryIds, page : PageIds, total : Nat, found : SUBSET Postings]

Payloads == [rows : Seq(Postings), total : Nat, count : Int]

FetchType ==
    /\ kind \in [Callers -> DOMAIN Adapter] /\ \A c \in Callers : kind[c] \in KindsOf(c)
    /\ shown \in [Callers -> [QueryIds -> Seq(Postings)]]
    /\ \A c \in Callers, q \in QueryIds : shown[c][q] \in Lists(c, q)
    /\ fetch \in [Callers -> FetchRecords]
    /\ cache \in [Callers -> [QueryIds -> [PageIds -> Payloads \cup {NoPage}]]]
    /\ still \in [Callers -> BOOLEAN]

ReadInv ==
    /\ FetchType
    /\ \A c \in Callers :
          /\ Placed(kind[c], fetch[c])
          /\ still[c] => /\ CacheIsFresh(kind[c], shown[c], cache[c])
                         /\ ReadSoFar(kind[c], shown[c], fetch[c])

\* Every full page of a list shows something with an id that the pages before it do
\* not: without it an adapter that ends where nothing is new ends too early.
PagesBringNews ==
    \A c \in Callers : (\E k \in KindsOf(c) : "nothing new" \in Adapter[k].ends) =>
        \A list \in Lists(c, 1), p \in PageIds : p * PageSize < Len(list) =>
            \E i \in ((p - 1) * PageSize + 1) .. (p * PageSize) :
                /\ "no id" \notin Faults(list[i])
                /\ \A j \in 1 .. ((p - 1) * PageSize) : list[j] # list[i]

LEMMA Sizes ==
    /\ PageSize \in Nat /\ PageSize > 0 /\ Queries \in Nat /\ Queries > 0
    /\ MaxPages \in Nat /\ MaxPages > 0 /\ 1 \in QueryIds /\ 1 \in PageIds
    /\ FallbackPages \in PageIds /\ QueryIds \subseteq Nat /\ PageIds \subseteq Nat
BY FetchAssumption DEF QueryIds, PageIds

\* An adapter asks at least for one page of one query, and for no other page if it
\* gets everything in one response.
LEMMA AdapterFacts ==
    ASSUME NEW k \in DOMAIN Adapter
    PROVE  /\ Adapter[k].queries \in QueryIds /\ Adapter[k].pages \in PageIds
           /\ Adapter[k].ends = {} => Adapter[k].pages = 1
           /\ k = "workday" => Adapter[k].ends # {} /\ "nothing new" \notin Adapter[k].ends
<1> DEFINE Fine(a) == /\ a.queries \in QueryIds /\ a.pages \in PageIds
                      /\ a.ends = {} => a.pages = 1
<1>1. \A ends, drops : ends # {} => Fine(Paged(ends, drops))
  BY FetchAssumption DEF Paged, QueryIds, PageIds
<1>2. \A drops : Fine(Whole(drops))
  BY Sizes DEF Whole
<1>3. Fine(TheMuse)
  <2>1. TheMuse.queries = 1 /\ TheMuse.pages = MaxPages /\ TheMuse.ends = {"page count"}
    BY DEF TheMuse, Paged
  <2>2. 1 \in QueryIds /\ MaxPages \in PageIds
    BY Sizes DEF PageIds
  <2>3. {"page count"} # {}
    OBVIOUS
  <2> QED
    BY <2>1, <2>2, <2>3
<1> HIDE DEF Fine
<1>4. /\ Fine(Workday) /\ Fine(Eightfold) /\ Fine(Phenom) /\ Fine(Apple) /\ Fine(Google)
      /\ Fine(Greenhouse) /\ Fine(Lever) /\ Fine(Ashby) /\ Fine(SmartRecruiters)
      /\ Fine(Workable) /\ Fine(Recruitee)
  BY <1>1, <1>2 DEF Workday, Eightfold, Phenom, Apple, Google, Greenhouse, Lever, Ashby,
     SmartRecruiters, Workable, Recruitee
<1>5. /\ Fine(Remotive) /\ Fine(Arbeitnow) /\ Fine(Adzuna) /\ Fine(JSearch) /\ Fine(USAJobs)
      /\ Fine(Jooble) /\ Fine(SerpApi) /\ Fine(HackerNews)
  BY <1>2 DEF Remotive, Arbeitnow, Adzuna, JSearch, USAJobs, Jooble, SerpApi, HackerNews
<1>9. Fine(GithubLists)
  <2>1. GithubLists.queries = Queries /\ GithubLists.pages = 1
    BY DEF GithubLists, Whole
  <2>2. Queries \in QueryIds /\ 1 \in PageIds
    BY Sizes DEF QueryIds
  <2> QED
    BY <2>1, <2>2 DEF Fine
<1>6. Fine(Adapter[k])
  BY <1>3, <1>4, <1>5, <1>9 DEF Adapter
<1>7. Workday.ends # {} /\ "nothing new" \notin Workday.ends
  BY DEF Workday, Paged
<1>8. Adapter["workday"] = Workday
  BY DEF Adapter
<1> QED
  BY <1>6, <1>7, <1>8 DEF Fine

\* The first n of a list.
LEMMA PrefixFacts ==
    ASSUME NEW list \in Seq(Postings), NEW n \in Nat
    PROVE  /\ Prefix(list, n) \in Seq(Postings)
           /\ Len(Prefix(list, n)) = IF n < Len(list) THEN n ELSE Len(list)
           /\ \A i \in 1 .. Len(Prefix(list, n)) : Prefix(list, n)[i] = list[i]
           /\ \A x : x \in Range(Prefix(list, n)) <=> \E i \in 1 .. Len(list) : i <= n /\ x = list[i]
<1> DEFINE top == IF n < Len(list) THEN n ELSE Len(list)
<1>1. top \in Nat /\ top <= Len(list) /\ Len(list) \in Nat
  OBVIOUS
<1>2. Prefix(list, n) = SubSeq(list, 1, top)
  BY DEF Prefix
<1> HIDE DEF top
<1>3. /\ SubSeq(list, 1, top) \in Seq(Postings) /\ Len(SubSeq(list, 1, top)) = top
      /\ \A i \in 1 .. top : SubSeq(list, 1, top)[i] = list[i]
      /\ DOMAIN SubSeq(list, 1, top) = 1 .. top
  BY <1>1
<1>4. \A x : x \in Range(Prefix(list, n)) <=> \E i \in 1 .. top : x = list[i]
  BY <1>2, <1>3 DEF Range
<1>5. \A i : i \in 1 .. top <=> i \in 1 .. Len(list) /\ i <= n
  BY <1>1 DEF top
<1> QED
  BY <1>2, <1>3, <1>4, <1>5 DEF top

\* What of these comes after the first m.
Between(list, m, n) == SubSeq(Prefix(list, n), m + 1, Len(Prefix(list, n)))

LEMMA RowsFacts ==
    ASSUME NEW list \in Seq(Postings), NEW m \in Nat, NEW n \in Nat, m <= n
    PROVE  /\ Between(list, m, n) \in Seq(Postings)
           /\ Len(list) > m => Len(Between(list, m, n)) = (IF n < Len(list) THEN n ELSE Len(list)) - m
           /\ \A x : x \in Range(Between(list, m, n)) <=> \E i \in 1 .. Len(list) : m < i /\ i <= n /\ x = list[i]
<1> DEFINE pre == Prefix(list, n)
           top == Len(pre)
           rows == SubSeq(pre, m + 1, top)
<1>0. Between(list, m, n) = rows
  BY DEF Between
<1>1. /\ pre \in Seq(Postings) /\ top = (IF n < Len(list) THEN n ELSE Len(list))
      /\ \A i \in 1 .. top : pre[i] = list[i]
      /\ top \in Nat /\ Len(list) \in Nat
  BY PrefixFacts
<1> HIDE DEF pre
<1>2. CASE top <= m
  <2>1. rows = << >> /\ rows \in Seq(Postings) /\ DOMAIN rows = {}
    BY <1>1, <1>2
  <2>2. Range(rows) = {} /\ rows \in Seq(Postings)
    <3> HIDE DEF rows
    <3> QED
      BY <2>1 DEF Range
  <2>3. ~(\E i \in 1 .. Len(list) : m < i /\ i <= n)
    BY <1>1, <1>2
  <2> HIDE DEF rows
  <2>4. Len(list) > m => Len(rows) = (IF n < Len(list) THEN n ELSE Len(list)) - m
    BY <1>1, <1>2, <2>1
  <2> QED
    BY <1>0, <2>2, <2>3, <2>4
<1>3. CASE top > m
  <2>1. /\ rows \in Seq(Postings) /\ Len(rows) = top - m
        /\ \A i \in 1 .. (top - m) : rows[i] = pre[i + m]
        /\ DOMAIN rows = 1 .. (top - m)
    BY <1>1, <1>3
  <2> HIDE DEF rows
  <2>2. \A i \in 1 .. (top - m) : rows[i] = list[i + m]
    BY <1>1, <2>1
  <2>3. ASSUME NEW x \in Range(rows)
        PROVE  \E i \in 1 .. Len(list) : m < i /\ i <= n /\ x = list[i]
    <3>1. PICK i \in 1 .. (top - m) : x = rows[i]
      BY <2>1, <2>3 DEF Range
    <3>2. i + m \in 1 .. Len(list) /\ m < i + m /\ i + m <= n /\ x = list[i + m]
      BY <1>1, <2>2, <3>1
    <3> QED
      BY <3>2
  <2>4. ASSUME NEW i \in 1 .. Len(list), m < i, i <= n
        PROVE  list[i] \in Range(rows)
    <3>1. i - m \in 1 .. (top - m) /\ (i - m) + m = i
      BY <1>1, <2>4
    <3>2. rows[i - m] = list[i]
      BY <2>2, <3>1
    <3> QED
      BY <2>1, <3>1, <3>2 DEF Range
  <2> QED
    BY <1>0, <1>1, <2>1, <2>3, <2>4
<1> QED
  BY <1>1, <1>2, <1>3

\* Where a page begins and ends.
LEMMA PageBounds ==
    ASSUME NEW p \in Nat, p >= 1
    PROVE  /\ (p - 1) * PageSize \in Nat /\ p * PageSize \in Nat
           /\ p * PageSize = (p - 1) * PageSize + PageSize
           /\ (p - 1) * PageSize < p * PageSize
BY Sizes

\* A page brings what lies between the pages before it and itself.
LEMMA PageFacts ==
    ASSUME NEW k \in DOMAIN Adapter, NEW lists \in [QueryIds -> Seq(Postings)],
           NEW q \in QueryIds, NEW p \in PageIds
    PROVE  /\ PageAt(k, lists, q, p) \in Payloads
           /\ PageAt(k, lists, q, p).total = IF p = 1 THEN Len(lists[q]) ELSE 0
           /\ PageAt(k, lists, q, p).count = PagesOf(lists[q])
           /\ Adapter[k].ends = {} => PageAt(k, lists, q, p).rows = lists[q]
           /\ Adapter[k].ends # {} =>
                 /\ FirstPages(lists, q, p) = FirstPages(lists, q, p - 1) \cup Range(PageAt(k, lists, q, p).rows)
                 /\ Len(lists[q]) > (p - 1) * PageSize =>
                       Len(PageAt(k, lists, q, p).rows)
                          = (IF p * PageSize < Len(lists[q]) THEN p * PageSize ELSE Len(lists[q]))
                               - (p - 1) * PageSize
                 /\ \A i \in 1 .. Len(lists[q]) :
                       (p - 1) * PageSize < i /\ i <= p * PageSize
                         => lists[q][i] \in Range(PageAt(k, lists, q, p).rows)
<1> DEFINE list == lists[q]
           m == (p - 1) * PageSize
           n == p * PageSize
           page == PageAt(k, lists, q, p)
           part == Between(list, m, n)
<1>1. list \in Seq(Postings) /\ Len(list) \in Nat
  OBVIOUS
<1>2. m \in Nat /\ n \in Nat /\ m < n /\ m <= n
  BY PageBounds, Sizes DEF PageIds
<1>3. page = [rows |-> IF Adapter[k].ends = {} THEN list ELSE part,
              total |-> IF p = 1 THEN Len(list) ELSE 0, count |-> PagesOf(list)]
  BY DEF PageAt, Between
<1>4. FirstPages(lists, q, p) = Range(Prefix(list, n)) /\ FirstPages(lists, q, p - 1) = Range(Prefix(list, m))
  BY DEF FirstPages
<1> HIDE DEF list, m, n, page, part
<1>5. /\ part \in Seq(Postings)
      /\ Len(list) > m => Len(part) = (IF n < Len(list) THEN n ELSE Len(list)) - m
      /\ \A x : x \in Range(part) <=> \E i \in 1 .. Len(list) : m < i /\ i <= n /\ x = list[i]
  <2>1. /\ Between(list, m, n) \in Seq(Postings)
        /\ Len(list) > m => Len(Between(list, m, n)) = (IF n < Len(list) THEN n ELSE Len(list)) - m
        /\ \A x : x \in Range(Between(list, m, n)) <=> \E i \in 1 .. Len(list) : m < i /\ i <= n /\ x = list[i]
    BY <1>1, <1>2, RowsFacts
  <2> QED
    BY <2>1 DEF part
<1>6. /\ \A x : x \in Range(Prefix(list, n)) <=> \E i \in 1 .. Len(list) : i <= n /\ x = list[i]
      /\ \A x : x \in Range(Prefix(list, m)) <=> \E i \in 1 .. Len(list) : i <= m /\ x = list[i]
  BY <1>1, <1>2, PrefixFacts
<1>7. \A i \in 1 .. Len(list) : i <= n <=> (i <= m \/ (m < i /\ i <= n))
  BY <1>1, <1>2
<1>8. Range(Prefix(list, n)) = Range(Prefix(list, m)) \cup Range(part)
  BY <1>5, <1>6, <1>7
<1>9. PagesOf(list) \in Int
  BY <1>1, Sizes DEF PagesOf
<1>10. page \in Payloads
  BY <1>1, <1>3, <1>5, <1>9 DEF Payloads
<1>11. /\ page.total = (IF p = 1 THEN Len(list) ELSE 0) /\ page.count = PagesOf(list)
       /\ Adapter[k].ends = {} => page.rows = list
       /\ Adapter[k].ends # {} => page.rows = part
  BY <1>3
<1>12. Adapter[k].ends # {} =>
         /\ Len(list) > m => Len(page.rows) = (IF n < Len(list) THEN n ELSE Len(list)) - m
         /\ \A i \in 1 .. Len(list) : m < i /\ i <= n => list[i] \in Range(page.rows)
  BY <1>5, <1>11
<1> QED
  BY <1>4, <1>8, <1>10, <1>11, <1>12 DEF list, m, n, page

\* A list that ends on a page is on the pages up to it.
LEMMA LastPage ==
    ASSUME NEW lists \in [QueryIds -> Seq(Postings)], NEW q \in QueryIds, NEW p \in Nat, NEW n \in Nat,
           Len(lists[q]) <= p * PageSize
    PROVE  FirstPages(lists, q, n) \subseteq FirstPages(lists, q, p)
<1> DEFINE list == lists[q]
           a == n * PageSize
           b == p * PageSize
<1>1. list \in Seq(Postings) /\ Len(list) \in Nat /\ a \in Nat /\ b \in Nat /\ Len(list) <= b
  BY Sizes
<1>2. FirstPages(lists, q, n) = Range(Prefix(list, a)) /\ FirstPages(lists, q, p) = Range(Prefix(list, b))
  BY DEF FirstPages
<1> HIDE DEF list, a, b
<1>3. /\ \A x : x \in Range(Prefix(list, a)) <=> \E i \in 1 .. Len(list) : i <= a /\ x = list[i]
      /\ \A x : x \in Range(Prefix(list, b)) <=> \E i \in 1 .. Len(list) : i <= b /\ x = list[i]
  BY <1>1, PrefixFacts
<1>4. \A i \in 1 .. Len(list) : i <= b
  BY <1>1
<1> QED
  BY <1>2, <1>3, <1>4

\* No page is no posting, and what is on a page is on the list.
LEMMA NoPages ==
    ASSUME NEW lists \in [QueryIds -> Seq(Postings)], NEW q \in QueryIds
    PROVE  /\ FirstPages(lists, q, 0) = {}
           /\ \A n \in Nat : FirstPages(lists, q, n) \subseteq Range(lists[q])
<1>1. lists[q] \in Seq(Postings) /\ 0 * PageSize = 0
  BY Sizes
<1>2. FirstPages(lists, q, 0) = {}
  <2>1. FirstPages(lists, q, 0) = Range(Prefix(lists[q], 0))
    BY <1>1 DEF FirstPages
  <2>2. \A x : x \in Range(Prefix(lists[q], 0)) <=> \E i \in 1 .. Len(lists[q]) : i <= 0 /\ x = lists[q][i]
    BY <1>1, PrefixFacts
  <2> QED
    BY <1>1, <2>1, <2>2
<1>3. ASSUME NEW n \in Nat
      PROVE  FirstPages(lists, q, n) \subseteq Range(lists[q])
  <2>1. n * PageSize \in Nat
    BY Sizes
  <2>2. \A x : x \in Range(Prefix(lists[q], n * PageSize))
                 <=> \E i \in 1 .. Len(lists[q]) : i <= n * PageSize /\ x = lists[q][i]
    BY <1>1, <2>1, PrefixFacts
  <2>3. \A i \in 1 .. Len(lists[q]) : lists[q][i] \in Range(lists[q])
    BY <1>1 DEF Range
  <2>4. FirstPages(lists, q, n) = Range(Prefix(lists[q], n * PageSize))
    BY DEF FirstPages
  <2> QED
    BY <2>2, <2>3, <2>4
<1> QED
  BY <1>2, <1>3

\* A query that ends has been read as far as it goes.
LEMMA EndsRight ==
    ASSUME ReadInv, PagesBringNews, NEW c \in Callers, fetch[c].stage = "pages", still[c],
           fetch[c].query = 1 \/ kind[c] = "workday",
           Ends(c, PageAt(kind[c], shown[c], fetch[c].query, fetch[c].page))
    PROVE  FirstPages(shown[c], fetch[c].query, fetch[c].pages)
             \subseteq fetch[c].found
                         \cup Range(PageAt(kind[c], shown[c], fetch[c].query, fetch[c].page).rows)
<1> DEFINE f == fetch[c]
           k == kind[c]
           lists == shown[c]
           q == f.query
           p == f.page
           answer == PageAt(k, lists, q, p)
           list == lists[q]
           m == (p - 1) * PageSize
           n == p * PageSize
           new == {i \in Range(answer.rows) : "no id" \notin Faults(i)} \ f.found
<1>1. /\ k \in DOMAIN Adapter /\ k \in KindsOf(c) /\ lists \in [QueryIds -> Seq(Postings)]
      /\ f \in FetchRecords /\ Placed(k, f) /\ ReadSoFar(k, lists, f)
      /\ lists[q] \in Lists(c, q)
  BY DEF ReadInv, FetchType, FetchRecords
<1>2. /\ q \in QueryIds /\ p \in PageIds /\ f.pages \in PageIds /\ p \in Nat /\ p >= 1 /\ f.pages \in Nat
      /\ list \in Seq(Postings) /\ Len(list) \in Nat /\ m \in Nat /\ n \in Nat /\ n = m + PageSize
      /\ (p - 1) \in Nat
  <2>1. q \in QueryIds /\ p \in PageIds /\ f.pages \in PageIds /\ p \in Nat /\ p >= 1 /\ f.pages \in Nat
    BY <1>1, Sizes DEF FetchRecords, PageIds
  <2>2. m \in Nat /\ n \in Nat /\ n = m + PageSize
    BY <2>1, PageBounds
  <2> QED
    BY <1>1, <2>1, <2>2
<1>3. /\ FirstPages(lists, q, p - 1) \subseteq f.found
      /\ q = 1 => f.found = FirstPages(lists, q, p - 1)
      /\ p # 1 => f.total = Len(list)
  BY <1>1 DEF ReadSoFar
<1>4. /\ answer.total = IF p = 1 THEN Len(list) ELSE 0
      /\ answer.count = PagesOf(list)
      /\ Adapter[k].ends = {} => answer.rows = list
      /\ Adapter[k].ends # {} =>
            /\ FirstPages(lists, q, p) = FirstPages(lists, q, p - 1) \cup Range(answer.rows)
            /\ Len(list) > m => Len(answer.rows) = (IF n < Len(list) THEN n ELSE Len(list)) - m
            /\ \A i \in 1 .. Len(list) : m < i /\ i <= n => list[i] \in Range(answer.rows)
  <2> HIDE DEF k, lists, q, p, f
  <2>1. k \in DOMAIN Adapter /\ lists \in [QueryIds -> Seq(Postings)] /\ q \in QueryIds /\ p \in PageIds
    BY <1>1, <1>2
  <2> QED
    BY <2>1, PageFacts
<1>5. \/ answer.rows = <<>>
      \/ p = f.pages
      \/ Len(answer.rows) < PageSize
      \/ "nothing new" \in Adapter[k].ends /\ new = {}
      \/ p >= answer.count
      \/ Total(f, answer) # 0 /\ p * PageSize >= Total(f, answer)
  BY DEF Ends
<1>6. PageSize \in Nat /\ PageSize > 0
  BY Sizes
<1>7. Total(f, answer) = Len(list)
  BY <1>3, <1>4 DEF Total
<1>8. (q = 1 /\ "nothing new" \in Adapter[k].ends) \/ "nothing new" \notin Adapter[k].ends
  BY <1>1, AdapterFacts
<1> HIDE DEF k, answer, list, m, n, lists, q, p, f
<1>9. CASE Adapter[k].ends = {}
  <2>1. FirstPages(lists, q, f.pages) \subseteq Range(list)
    BY <1>1, <1>2, NoPages DEF list
  <2> QED
    BY <1>4, <1>9, <2>1 DEF answer, k, lists, q, p, f
<1>10. ASSUME Len(list) <= n, Adapter[k].ends # {}
       PROVE  FirstPages(lists, q, f.pages) \subseteq f.found \cup Range(answer.rows)
  <2>1. FirstPages(lists, q, f.pages) \subseteq FirstPages(lists, q, p)
    BY <1>1, <1>2, <1>10, LastPage DEF list, n
  <2> QED
    BY <1>3, <1>4, <1>10, <2>1
<1>11. ASSUME p = f.pages, Adapter[k].ends # {}
       PROVE  FirstPages(lists, q, f.pages) \subseteq f.found \cup Range(answer.rows)
  BY <1>3, <1>4, <1>11
<1>12. ASSUME Adapter[k].ends # {}, answer.rows = <<>> \/ Len(answer.rows) < PageSize
       PROVE  Len(list) <= n
  <2>1. Len(answer.rows) < PageSize
    BY <1>6, <1>12
  <2> QED
    BY <1>2, <1>4, <1>6, <1>12, <2>1
<1>13. ASSUME Adapter[k].ends # {}, "nothing new" \in Adapter[k].ends, new = {}
       PROVE  Len(list) <= n
  <2> SUFFICES ASSUME n < Len(list)
               PROVE  FALSE
    BY <1>2
  <2>1. q = 1
    BY <1>8, <1>13
  <2>2. PICK i \in (m + 1) .. n : /\ "no id" \notin Faults(list[i])
                                  /\ \A j \in 1 .. m : list[j] # list[i]
    <3> DEFINE News(l, a, b) == \E i \in (a + 1) .. b : /\ "no id" \notin Faults(l[i])
                                                        /\ \A j \in 1 .. a : l[j] # l[i]
    <3>1. \A l \in Lists(c, 1), e \in PageIds :
            e * PageSize < Len(l) => News(l, (e - 1) * PageSize, e * PageSize)
      BY <1>1, <1>13 DEF PagesBringNews
    <3> HIDE DEF News
    <3>2. list \in Lists(c, 1)
      BY <1>1, <2>1 DEF list
    <3>3. p \in PageIds /\ p * PageSize < Len(list)
      BY <1>2 DEF n
    <3>4. News(list, m, n)
      BY <3>1, <3>2, <3>3 DEF m, n
    <3> QED
      BY <3>4 DEF News
  <2>3. i \in 1 .. Len(list) /\ m < i /\ i <= n
    <3>1. m \in Nat /\ n \in Nat /\ Len(list) \in Nat
      BY <1>2
    <3> HIDE DEF new
    <3> QED
      BY <3>1
  <2>4. list[i] \in Range(answer.rows)
    BY <1>4, <1>13, <2>3
  <2>5. list[i] \in f.found
    BY <1>13, <2>2, <2>4
  <2>6. list[i] \in Range(Prefix(list, m))
    BY <1>3, <2>1, <2>5 DEF FirstPages, m, list
  <2>7. \A x : x \in Range(Prefix(list, m)) <=> \E j \in 1 .. Len(list) : j <= m /\ x = list[j]
    BY <1>2, PrefixFacts
  <2>8. PICK j \in 1 .. Len(list) : j <= m /\ list[i] = list[j]
    BY <2>6, <2>7
  <2>9. j \in 1 .. m
    BY <1>2, <2>8
  <2> QED
    BY <2>2, <2>8, <2>9
<1>14. ASSUME p >= answer.count
       PROVE  Len(list) <= n
  <2>1. p >= (Len(list) + PageSize - 1) \div PageSize
    BY <1>4, <1>14 DEF PagesOf
  <2>2. \A a, b, d \in Nat : d > 0 /\ a >= (b + d - 1) \div d => b <= a * d
    OBVIOUS
  <2> QED
    BY <1>2, <1>6, <2>1, <2>2 DEF n
<1>15. ASSUME p * PageSize >= Total(f, answer)
       PROVE  Len(list) <= n
  BY <1>2, <1>7, <1>15 DEF n
<1> QED
  BY <1>5, <1>9, <1>10, <1>11, <1>12, <1>13, <1>14, <1>15 DEF k, answer, lists, q, p, f

\* A page that is taken leads to the next page, the next query or the end.
LEMMA TakeOutcome ==
    ASSUME ReadInv, NEW c \in Callers, NEW answer \in Payloads,
           fetch[c].stage = "pages", TakePage(c, answer)
    PROVE  \E g \in FetchRecords : LET f == fetch[c] IN
             /\ fetch' = [fetch EXCEPT ![c] = g]
             /\ g.queries = f.queries /\ g.pages = f.pages
             /\ g.found = f.found \cup Range(answer.rows)
             /\ \/ /\ ~Ends(c, answer) /\ f.page < f.pages
                   /\ g.stage = "pages" /\ g.query = f.query /\ g.page = f.page + 1
                   /\ g.total = Total(f, answer)
                \/ /\ Ends(c, answer) /\ f.query < f.queries
                   /\ g.stage = "pages" /\ g.query = f.query + 1 /\ g.page = 1
                \/ /\ Ends(c, answer) /\ f.query = f.queries
                   /\ g.stage = "done" /\ g.query = f.query /\ g.page = f.page
<1> DEFINE f == fetch[c]
           found == f.found \cup Range(answer.rows)
           total == Total(f, answer)
<1>1. f \in FetchRecords /\ f.query <= f.queries /\ f.page <= f.pages
  BY DEF ReadInv, FetchType, Placed
<1>2. /\ f.queries \in QueryIds /\ f.pages \in PageIds /\ f.query \in QueryIds /\ f.page \in PageIds
      /\ f.total \in Nat /\ f.found \in SUBSET Postings
  BY <1>1 DEF FetchRecords
<1>3. found \in SUBSET Postings
  <2>1. answer.rows \in Seq(Postings)
    BY DEF Payloads
  <2>2. Range(answer.rows) \subseteq Postings
    BY <2>1 DEF Range
  <2> QED
    BY <1>2, <2>2
<1>4. total \in Nat
  BY <1>2 DEF Total, Payloads
<1>5. ~Ends(c, answer) => f.page # f.pages
  BY DEF Ends
<1>6. fetch \in [Callers -> FetchRecords]
  BY DEF ReadInv, FetchType
<1>7. f = [stage |-> "pages", queries |-> f.queries, pages |-> f.pages, query |-> f.query,
           page |-> f.page, total |-> f.total, found |-> f.found]
  BY <1>1 DEF FetchRecords
<1> DEFINE next == [f EXCEPT !.found = found, !.total = total]
<1>8. fetch' = [fetch EXCEPT ![c] =
          IF Ends(c, answer) THEN NextQuery(next) ELSE [next EXCEPT !.page = @ + 1]]
  BY DEF TakePage
<1>9. next = [stage |-> "pages", queries |-> f.queries, pages |-> f.pages, query |-> f.query,
              page |-> f.page, total |-> total, found |-> found]
  <2>0. f.stage = "pages"
    BY <1>7
  <2> HIDE DEF f, found, total
  <2>1. next \in FetchRecords
    BY <1>1, <1>3, <1>4 DEF FetchRecords
  <2>2. /\ next.stage = "pages" /\ next.queries = f.queries /\ next.pages = f.pages
        /\ next.query = f.query /\ next.page = f.page /\ next.total = total /\ next.found = found
    BY <1>1, <2>0 DEF FetchRecords
  <2> HIDE DEF next
  <2> QED
    BY <2>1, <2>2 DEF FetchRecords
<1>10. /\ f.page \in Nat /\ f.pages \in Nat /\ f.query \in Nat /\ f.queries \in Nat
       /\ f.pages <= MaxPages /\ f.queries <= Queries /\ 1 \in PageIds
  BY <1>2, Sizes DEF PageIds, QueryIds
<1> HIDE DEF f, next, found, total
<1>11. CASE ~Ends(c, answer)
  <2> DEFINE g == [next EXCEPT !.page = @ + 1]
  <2>1. g = [stage |-> "pages", queries |-> f.queries, pages |-> f.pages, query |-> f.query,
             page |-> f.page + 1, total |-> total, found |-> found]
    BY <1>9
  <2>2. f.page + 1 \in PageIds /\ f.page < f.pages
    BY <1>1, <1>5, <1>10, <1>11, Sizes DEF PageIds
  <2>3. fetch' = [fetch EXCEPT ![c] = g]
    BY <1>8, <1>11
  <2> HIDE DEF g
  <2>4. g \in FetchRecords
    BY <1>2, <1>3, <1>4, <2>1, <2>2 DEF FetchRecords
  <2>5. /\ g.queries = f.queries /\ g.pages = f.pages /\ g.found = found
        /\ g.stage = "pages" /\ g.query = f.query /\ g.page = f.page + 1 /\ g.total = total
    BY <2>1
  <2> QED
    BY <1>11, <2>2, <2>3, <2>4, <2>5 DEF f, found, total
<1>12. CASE Ends(c, answer) /\ f.query < f.queries
  <2> DEFINE g == [next EXCEPT !.query = @ + 1, !.page = 1, !.total = 0]
  <2>0. next \in FetchRecords
    BY <1>2, <1>3, <1>4, <1>9 DEF FetchRecords
  <2>2. f.query + 1 \in QueryIds
    BY <1>10, <1>12, Sizes DEF QueryIds
  <2>1. next.query = f.query /\ next.queries = f.queries
    BY <1>9
  <2>3. fetch' = [fetch EXCEPT ![c] = g]
    BY <1>8, <1>12, <2>1 DEF NextQuery
  <2>4. g \in FetchRecords
    BY <1>10, <2>0, <2>1, <2>2 DEF FetchRecords
  <2>5. /\ g.queries = f.queries /\ g.pages = f.pages /\ g.found = found
        /\ g.stage = "pages" /\ g.query = f.query + 1 /\ g.page = 1
    BY <1>9, <2>0 DEF FetchRecords
  <2> QED
    BY <1>12, <2>3, <2>4, <2>5 DEF f, found, total
<1>13. CASE Ends(c, answer) /\ ~(f.query < f.queries)
  <2> DEFINE g == [next EXCEPT !.stage = "done"]
  <2>1. g = [stage |-> "done", queries |-> f.queries, pages |-> f.pages, query |-> f.query,
             page |-> f.page, total |-> total, found |-> found]
    BY <1>9
  <2>2. f.query = f.queries
    BY <1>1, <1>10, <1>13
  <2>0. next.query = f.query /\ next.queries = f.queries
    BY <1>9
  <2>3. fetch' = [fetch EXCEPT ![c] = g]
    BY <1>8, <1>13, <2>0 DEF NextQuery
  <2> HIDE DEF g
  <2>4. g \in FetchRecords
    BY <1>2, <1>3, <1>4, <2>1 DEF FetchRecords
  <2>5. /\ g.queries = f.queries /\ g.pages = f.pages /\ g.found = found
        /\ g.stage = "done" /\ g.query = f.query /\ g.page = f.page
    BY <2>1
  <2> QED
    BY <1>13, <2>2, <2>3, <2>4, <2>5 DEF f, found, total
<1> QED
  BY <1>11, <1>12, <1>13

\* Reading a page that the server would still answer keeps what has been read right.
LEMMA TakeKeeps ==
    ASSUME ReadInv, PagesBringNews, NEW c \in Callers, NEW answer \in Payloads,
           fetch[c].stage = "pages", TakePage(c, answer),
           still[c] => answer = PageAt(kind[c], shown[c], fetch[c].query, fetch[c].page)
    PROVE  \E g \in FetchRecords :
             /\ fetch' = [fetch EXCEPT ![c] = g]
             /\ Placed(kind[c], g)
             /\ still[c] => ReadSoFar(kind[c], shown[c], g)
<1> DEFINE f == fetch[c]
           k == kind[c]
           lists == shown[c]
<1>1. PICK g \in FetchRecords :
             /\ fetch' = [fetch EXCEPT ![c] = g]
             /\ g.queries = f.queries /\ g.pages = f.pages
             /\ g.found = f.found \cup Range(answer.rows)
             /\ \/ /\ ~Ends(c, answer) /\ f.page < f.pages
                   /\ g.stage = "pages" /\ g.query = f.query /\ g.page = f.page + 1
                   /\ g.total = Total(f, answer)
                \/ /\ Ends(c, answer) /\ f.query < f.queries
                   /\ g.stage = "pages" /\ g.query = f.query + 1 /\ g.page = 1
                \/ /\ Ends(c, answer) /\ f.query = f.queries
                   /\ g.stage = "done" /\ g.query = f.query /\ g.page = f.page
  BY TakeOutcome
<1>2. /\ k \in DOMAIN Adapter /\ lists \in [QueryIds -> Seq(Postings)]
      /\ f \in FetchRecords /\ Placed(k, f) /\ (still[c] => ReadSoFar(k, lists, f))
  BY DEF ReadInv, FetchType
<1>3. /\ f.queries \in QueryIds /\ f.pages \in PageIds /\ f.query \in QueryIds /\ f.page \in PageIds
      /\ f.page \in Nat /\ f.pages \in Nat /\ f.query \in Nat /\ f.queries \in Nat
      /\ 1 <= f.query /\ 1 <= f.page /\ 1 <= f.pages
      /\ f.query <= f.queries /\ f.page <= f.pages
  <2>1. /\ f.queries \in QueryIds /\ f.pages \in PageIds /\ f.query \in QueryIds /\ f.page \in PageIds
    BY <1>2 DEF FetchRecords
  <2>2. f.query <= f.queries /\ f.page <= f.pages
    BY <1>2 DEF Placed
  <2> QED
    BY <2>1, <2>2, Sizes DEF QueryIds, PageIds
<1>4. Placed(k, g)
  BY <1>1, <1>2, <1>3 DEF Placed
<1>5. ASSUME still[c]
      PROVE  ReadSoFar(k, lists, g)
  <2>1. /\ answer = PageAt(k, lists, f.query, f.page) /\ ReadSoFar(k, lists, f)
    BY <1>2, <1>5
  <2>2. /\ f.query = 1 => f.found = FirstPages(lists, 1, f.page - 1)
        /\ FirstPages(lists, f.query, f.page - 1) \subseteq f.found
        /\ f.page # 1 => f.total = Len(lists[f.query])
        /\ \A q \in Due(k, f) : q < f.query => FirstPages(lists, q, f.pages) \subseteq f.found
    BY <2>1 DEF ReadSoFar
  <2>3. Due(k, g) = Due(k, f) /\ Due(k, f) \subseteq Nat
    BY <1>1, <1>3 DEF Due
  <2>4. CASE ~Ends(c, answer)
    <3>1. /\ f.page < f.pages /\ g.stage = "pages" /\ g.query = f.query /\ g.page = f.page + 1
          /\ g.total = Total(f, answer)
      BY <1>1, <2>4
    <3>2. Adapter[k].ends # {}
      BY <1>2, <1>3, <3>1 DEF Placed
    <3> HIDE DEF k, lists, f
    <3>3. /\ FirstPages(lists, f.query, f.page) = FirstPages(lists, f.query, f.page - 1) \cup Range(answer.rows)
          /\ answer.total = IF f.page = 1 THEN Len(lists[f.query]) ELSE 0
      BY <1>2, <1>3, <2>1, <3>2, PageFacts
    <3>4. g.total = Len(lists[f.query])
      BY <2>2, <3>1, <3>3 DEF Total
    <3>5. g.page - 1 = f.page
      BY <1>3, <3>1
    <3>6. /\ g.query = 1 => g.found = FirstPages(lists, 1, g.page - 1)
          /\ FirstPages(lists, g.query, g.page - 1) \subseteq g.found
      BY <1>1, <2>2, <3>1, <3>3, <3>5
    <3>7. \A q \in Due(k, g) : q < g.query => FirstPages(lists, q, g.pages) \subseteq g.found
      BY <1>1, <2>2, <2>3, <3>1
    <3> QED
      BY <3>1, <3>4, <3>6, <3>7 DEF ReadSoFar
  <2>5. CASE Ends(c, answer)
    <3>1. f.query = 1 \/ k = "workday" => FirstPages(lists, f.query, f.pages) \subseteq g.found
      BY <1>1, <1>5, <2>1, <2>5, EndsRight
    <3>2. f.query \in Due(k, f) => f.query = 1 \/ k = "workday"
      BY DEF Due
    <3> HIDE DEF k, lists, f
    <3>3. \A q \in Due(k, g) : q <= f.query => FirstPages(lists, q, g.pages) \subseteq g.found
      <4> SUFFICES ASSUME NEW q \in Due(k, g), q <= f.query
                   PROVE  FirstPages(lists, q, g.pages) \subseteq g.found
        OBVIOUS
      <4>1. CASE q = f.query
        BY <1>1, <2>3, <3>1, <3>2, <4>1
      <4>2. CASE q # f.query
        <5>1. q < f.query
          BY <1>3, <2>3, <4>2
        <5>2. FirstPages(lists, q, f.pages) \subseteq f.found
          BY <2>2, <2>3, <5>1
        <5> QED
          BY <1>1, <5>2
      <4> QED
        BY <4>1, <4>2
    <3>4. CASE g.stage = "pages"
      <4>1. g.query = f.query + 1 /\ g.page = 1
        BY <1>1, <2>5, <3>4
      <4>2. g.query \in QueryIds /\ g.query # 1
        BY <1>3, <4>1 DEF FetchRecords
      <4>3. FirstPages(lists, g.query, g.page - 1) = {}
        BY <1>2, <4>1, <4>2, NoPages
      <4>4. \A q \in Due(k, g) : q < g.query => FirstPages(lists, q, g.pages) \subseteq g.found
        BY <1>3, <2>3, <3>3, <4>1
      <4> QED
        BY <3>4, <4>1, <4>2, <4>3, <4>4 DEF ReadSoFar
    <3>5. CASE g.stage = "done"
      <4>1. f.query = f.queries
        BY <1>1, <2>5, <3>5
      <4>2. \A q \in Due(k, g) : q <= f.query
        BY <1>1, <1>3, <4>1 DEF Due
      <4> QED
        BY <3>3, <3>5, <4>2 DEF ReadSoFar
    <3> QED
      BY <1>1, <2>5, <3>4, <3>5
  <2> QED
    BY <2>4, <2>5
<1> QED
  BY <1>1, <1>4, <1>5

\* A list that is done without, by an adapter that owes none.
LEMMA NextQueryFacts ==
    ASSUME NEW k \in Forgiving, NEW lists \in [QueryIds -> Seq(Postings)],
           NEW f \in FetchRecords, f.stage = "pages", Placed(k, f)
    PROVE  LET g == NextQuery(f) IN
           /\ g \in FetchRecords /\ Placed(k, g) /\ ReadSoFar(k, lists, g)
<1> DEFINE g == NextQuery(f)
<1>1. /\ f.query \in QueryIds /\ f.queries \in QueryIds /\ f.page \in PageIds /\ f.pages \in PageIds
      /\ f.query <= f.queries /\ (Adapter[k].ends = {} => f.pages = 1)
  BY DEF FetchRecords, Placed
<1>2. 1 \in PageIds /\ 1 <= f.pages /\ f.query \in Nat /\ 1 <= f.query
  BY <1>1, Sizes DEF PageIds, QueryIds
<1>3. Due(k, g) = {}
  BY DEF Due, Forgiving
<1>4. CASE f.query < f.queries
  <2>1. f.query + 1 \in QueryIds /\ f.query + 1 <= f.queries
    BY <1>1, <1>4, Sizes DEF QueryIds
  <2>2. g = [f EXCEPT !.query = @ + 1, !.page = 1, !.total = 0]
    BY <1>4 DEF NextQuery
  <2> HIDE DEF g
  <2>3. /\ g \in FetchRecords /\ g.stage = "pages" /\ g.query = f.query + 1 /\ g.page = 1
        /\ g.queries = f.queries /\ g.pages = f.pages
    BY <1>1, <1>2, <2>1, <2>2 DEF FetchRecords
  <2>4. FirstPages(lists, g.query, 0) = {} /\ g.query # 1 /\ g.page - 1 = 0
    BY <1>2, <2>1, <2>3, NoPages
  <2>5. Placed(k, g)
    BY <1>1, <1>2, <2>1, <2>3 DEF Placed
  <2>6. ReadSoFar(k, lists, g)
    BY <1>3, <2>3, <2>4 DEF ReadSoFar
  <2> QED
    BY <2>3, <2>5, <2>6 DEF g
<1>5. CASE ~(f.query < f.queries)
  <2>1. g = [f EXCEPT !.stage = "done"]
    BY <1>5 DEF NextQuery
  <2>2. /\ g \in FetchRecords /\ g.stage = "done" /\ g.query = f.query /\ g.page = f.page
        /\ g.queries = f.queries /\ g.pages = f.pages
    BY <2>1 DEF FetchRecords
  <2> HIDE DEF g
  <2>3. Placed(k, g) /\ ReadSoFar(k, lists, g)
    BY <1>3, <2>2 DEF Placed, ReadSoFar
  <2> QED
    BY <2>2, <2>3 DEF g
<1> QED
  BY <1>4, <1>5 DEF g

\* Where every fetch starts.
LEMMA StartFacts ==
    ASSUME NEW k \in DOMAIN Adapter, NEW lists \in [QueryIds -> Seq(Postings)]
    PROVE  /\ Start(k) \in FetchRecords /\ Placed(k, Start(k)) /\ ReadSoFar(k, lists, Start(k))
           /\ [Start(k) EXCEPT !.stage = "failed"] \in FetchRecords
           /\ Placed(k, [Start(k) EXCEPT !.stage = "failed"])
           /\ ReadSoFar(k, lists, [Start(k) EXCEPT !.stage = "failed"])
<1> DEFINE f == Start(k)
           g == [f EXCEPT !.stage = "failed"]
<1>1. /\ Adapter[k].queries \in QueryIds /\ Adapter[k].pages \in PageIds
      /\ Adapter[k].ends = {} => Adapter[k].pages = 1
  BY AdapterFacts
<1>2. f = [stage |-> IF k = "workday" THEN "facets" ELSE "pages",
           queries |-> Adapter[k].queries, pages |-> Adapter[k].pages,
           query |-> 1, page |-> 1, total |-> 0, found |-> {}]
  BY DEF Start
<1>3. 1 \in QueryIds /\ 1 \in PageIds /\ 1 <= Adapter[k].queries /\ 1 <= Adapter[k].pages
  BY <1>1, Sizes DEF QueryIds, PageIds
<1>4. FirstPages(lists, 1, 0) = {}
  BY Sizes, NoPages
<1> HIDE DEF f
<1>5. /\ f.stage \in {"facets", "pages"} /\ (f.stage = "facets" => k = "workday")
      /\ f.queries = Adapter[k].queries /\ f.pages = Adapter[k].pages
      /\ f.query = 1 /\ f.page = 1 /\ f.total = 0 /\ f.found = {}
  BY <1>2
<1>6. f \in FetchRecords
  BY <1>1, <1>2, <1>3 DEF FetchRecords
<1>7. Placed(k, f)
  BY <1>1, <1>3, <1>5 DEF Placed
<1>8. ReadSoFar(k, lists, f)
  <2>1. \A q \in Due(k, f) : ~(q < f.query)
    BY <1>1, <1>5, Sizes DEF Due, QueryIds
  <2>2. f.page - 1 = 0
    BY <1>5
  <2> QED
    BY <1>4, <1>5, <2>1, <2>2 DEF ReadSoFar
<1>9. /\ g \in FetchRecords /\ g.stage = "failed" /\ g.queries = f.queries /\ g.pages = f.pages
      /\ g.query = f.query /\ g.page = f.page
  BY <1>6 DEF FetchRecords
<1>10. Placed(k, g) /\ ReadSoFar(k, lists, g)
  <2> HIDE DEF g
  <2> QED
    BY <1>7, <1>9 DEF Placed, ReadSoFar
<1> QED
  BY <1>6, <1>7, <1>8, <1>9, <1>10 DEF f

\* The pages of one fetch and what is made of them.
Sees(k, lists, f, pages, calm) ==
    /\ Placed(k, f)
    /\ calm => CacheIsFresh(k, lists, pages) /\ ReadSoFar(k, lists, f)

LEMMA ReadInvIsSees ==
    ReadInv <=> FetchType /\ \A c \in Callers : Sees(kind[c], shown[c], fetch[c], cache[c], still[c])
BY DEF ReadInv, Sees

\* One fetch moves on, while the others stay where they are.
LEMMA OneMovesOn ==
    ASSUME ReadInv, NEW c \in Callers, NEW g \in FetchRecords,
           NEW pages \in [QueryIds -> [PageIds -> Payloads \cup {NoPage}]], NEW calm \in BOOLEAN,
           kind' = kind, shown' = shown,
           fetch' = [fetch EXCEPT ![c] = g],
           cache' = [cache EXCEPT ![c] = pages],
           still' = [still EXCEPT ![c] = calm],
           Sees(kind[c], shown[c], g, pages, calm)
    PROVE  ReadInv'
<1>1. FetchType
  BY DEF ReadInv
<1>2. FetchType'
  BY <1>1 DEF FetchType
<1>3. ASSUME NEW d \in Callers
      PROVE  Sees(kind'[d], shown'[d], fetch'[d], cache'[d], still'[d])
  <2>1. CASE d = c
    <3>1. fetch'[d] = g /\ cache'[d] = pages /\ still'[d] = calm
      BY <1>1, <2>1 DEF FetchType
    <3> QED
      BY <2>1, <3>1
  <2>2. CASE d # c
    <3>1. fetch'[d] = fetch[d] /\ cache'[d] = cache[d] /\ still'[d] = still[d]
      BY <1>1, <2>2 DEF FetchType
    <3>2. Sees(kind[d], shown[d], fetch[d], cache[d], still[d])
      BY ReadInvIsSees
    <3> QED
      BY <3>1, <3>2
  <2> QED
    BY <2>1, <2>2
<1> QED
  BY <1>2, <1>3 DEF ReadInv, Sees

LEMMA CacheAgain ==
    ASSUME FetchType, NEW c \in Callers
    PROVE  /\ cache[c] \in [QueryIds -> [PageIds -> Payloads \cup {NoPage}]] /\ still[c] \in BOOLEAN
           /\ cache = [cache EXCEPT ![c] = cache[c]] /\ still = [still EXCEPT ![c] = still[c]]
           /\ fetch = [fetch EXCEPT ![c] = fetch[c]] /\ fetch[c] \in FetchRecords
           /\ kind[c] \in DOMAIN Adapter /\ shown[c] \in [QueryIds -> Seq(Postings)]
           /\ EmptyCache \in [QueryIds -> [PageIds -> Payloads \cup {NoPage}]]
BY DEF FetchType, EmptyCache

\* Nothing cached is nothing stale.
LEMMA EmptyIsFresh ==
    ASSUME NEW k, NEW lists
    PROVE  CacheIsFresh(k, lists, EmptyCache)
BY DEF CacheIsFresh, EmptyCache

LEMMA InitReadInv == FetchInit => ReadInv
<1> SUFFICES ASSUME FetchInit
             PROVE  ReadInv
  OBVIOUS
<1>1. ASSUME NEW c \in Callers
      PROVE  /\ kind[c] \in DOMAIN Adapter /\ kind[c] \in KindsOf(c)
             /\ shown[c] \in [QueryIds -> Seq(Postings)] /\ fetch[c] = Start(kind[c])
             /\ cache[c] = EmptyCache
  <2>1. \A q \in QueryIds : shown[c][q] \in Lists(c, q) /\ Lists(c, q) \subseteq Seq(Postings)
    BY FetchAssumption DEF FetchInit
  <2>2. shown[c] = [q \in QueryIds |-> shown[c][q]]
    BY DEF FetchInit
  <2> QED
    BY <2>1, <2>2 DEF FetchInit
<1>2. ASSUME NEW c \in Callers
      PROVE  fetch[c] \in FetchRecords /\ Sees(kind[c], shown[c], fetch[c], cache[c], still[c])
  BY <1>1, StartFacts, EmptyIsFresh DEF Sees
<1>3. shown \in [Callers -> [QueryIds -> Seq(Postings)]]
  BY <1>1 DEF FetchInit
<1>4. EmptyCache \in [QueryIds -> [PageIds -> Payloads \cup {NoPage}]]
  BY DEF EmptyCache
<1>5. FetchType
  <2>1. fetch \in [Callers -> FetchRecords]
    BY <1>2 DEF FetchInit
  <2>2. cache \in [Callers -> [QueryIds -> [PageIds -> Payloads \cup {NoPage}]]]
    BY <1>4 DEF FetchInit
  <2>3. kind \in [Callers -> DOMAIN Adapter] /\ still \in [Callers -> BOOLEAN]
    BY DEF FetchInit
  <2>4. /\ \A c \in Callers : kind[c] \in KindsOf(c)
        /\ \A c \in Callers, q \in QueryIds : shown[c][q] \in Lists(c, q)
    BY DEF FetchInit
  <2> QED
    BY <1>3, <2>1, <2>2, <2>3, <2>4 DEF FetchType
<1> QED
  BY <1>2, <1>5, ReadInvIsSees

LEMMA FacetsKeeps ==
    ASSUME ReadInv, NEW c \in Callers, Facets(c)
    PROVE  ReadInv'
<1> DEFINE f == fetch[c]
           k == kind[c]
<1>1. /\ FetchType /\ f \in FetchRecords /\ f.stage = "facets"
      /\ k \in DOMAIN Adapter /\ shown[c] \in [QueryIds -> Seq(Postings)]
      /\ Sees(k, shown[c], f, cache[c], still[c])
  BY CacheAgain, ReadInvIsSees DEF ReadInv, Facets
<1>2. k = "workday" /\ f.query = 1 /\ f.page = 1 /\ f.found = {} /\ Adapter[k].ends # {}
  BY <1>1, AdapterFacts DEF Sees, Placed
<1>3. ASSUME NEW g \in FetchRecords, fetch' = [fetch EXCEPT ![c] = g],
             g.stage = "pages", g.query = 1, g.page = 1, g.found = {}
      PROVE  ReadInv'
  <2>1. 1 \in QueryIds /\ FirstPages(shown[c], 1, 0) = {}
    BY <1>1, Sizes, NoPages
  <2>2. g.queries \in QueryIds /\ g.pages \in PageIds /\ 1 <= g.queries /\ 1 <= g.pages
    BY Sizes DEF FetchRecords, QueryIds, PageIds
  <2>3. Placed(k, g)
    BY <1>2, <1>3, <2>2 DEF Placed
  <2>4. \A q \in Due(k, g) : ~(q < g.query)
    BY <1>3, <2>2, Sizes DEF Due, QueryIds
  <2>5. ReadSoFar(k, shown[c], g)
    BY <1>3, <2>1, <2>4 DEF ReadSoFar
  <2>6. Sees(k, shown[c], g, cache[c], still[c])
    BY <1>1, <2>3, <2>5 DEF Sees
  <2>7. kind' = kind /\ shown' = shown /\ cache' = cache /\ still' = still
    BY DEF Facets
  <2>8. /\ cache[c] \in [QueryIds -> [PageIds -> Payloads \cup {NoPage}]] /\ still[c] \in BOOLEAN
        /\ cache' = [cache EXCEPT ![c] = cache[c]] /\ still' = [still EXCEPT ![c] = still[c]]
    BY <1>1, <2>7, CacheAgain
  <2> QED
    BY <1>3, <2>6, <2>7, <2>8, OneMovesOn
<1>4. ASSUME fetch' = [fetch EXCEPT ![c].stage = "pages"]
      PROVE  ReadInv'
  <2> DEFINE g == [f EXCEPT !.stage = "pages"]
  <2>1. /\ g \in FetchRecords /\ g.stage = "pages" /\ g.query = 1 /\ g.page = 1 /\ g.found = {}
    BY <1>1, <1>2 DEF FetchRecords
  <2>2. fetch' = [fetch EXCEPT ![c] = g]
    BY <1>4
  <2> HIDE DEF g
  <2> QED
    BY <1>3, <2>1, <2>2
<1>5. ASSUME fetch' = [fetch EXCEPT ![c].stage = "pages", ![c].queries = 1, ![c].pages = FallbackPages]
      PROVE  ReadInv'
  <2> DEFINE g == [f EXCEPT !.stage = "pages", !.queries = 1, !.pages = FallbackPages]
  <2>1. /\ g \in FetchRecords /\ g.stage = "pages" /\ g.query = 1 /\ g.page = 1 /\ g.found = {}
    BY <1>1, <1>2, Sizes DEF FetchRecords
  <2>2. fetch' = [fetch EXCEPT ![c] = g]
    BY <1>1, <1>5 DEF FetchType
  <2> HIDE DEF g
  <2> QED
    BY <1>3, <2>1, <2>2
<1> QED
  BY <1>4, <1>5 DEF Facets

LEMMA PageKeeps ==
    ASSUME ReadInv, PagesBringNews, NEW c \in Callers, PageFromCache(c) \/ PageFromServer(c)
    PROVE  ReadInv'
<1> DEFINE f == fetch[c]
           k == kind[c]
           page == PageAt(k, shown[c], f.query, f.page)
<1>1. /\ FetchType /\ f \in FetchRecords /\ f.stage = "pages"
      /\ f.query \in QueryIds /\ f.page \in PageIds
      /\ k \in DOMAIN Adapter /\ shown[c] \in [QueryIds -> Seq(Postings)]
      /\ Sees(k, shown[c], f, cache[c], still[c])
      /\ cache[c] \in [QueryIds -> [PageIds -> Payloads \cup {NoPage}]] /\ still[c] \in BOOLEAN
      /\ cache = [cache EXCEPT ![c] = cache[c]] /\ still = [still EXCEPT ![c] = still[c]]
      /\ kind' = kind /\ shown' = shown /\ still' = still
  BY CacheAgain, ReadInvIsSees DEF ReadInv, PageFromCache, PageFromServer, FetchRecords
<1>2. ASSUME PageFromCache(c)
      PROVE  ReadInv'
  <2>1. /\ Cached(c) # NoPage /\ TakePage(c, Cached(c)) /\ cache' = cache
        /\ Cached(c) = cache[c][f.query][f.page]
    BY <1>2 DEF PageFromCache, Cached
  <2>2. Cached(c) \in Payloads
    BY <1>1, <2>1
  <2>3. still[c] => Cached(c) = page
    BY <1>1, <2>1 DEF Sees, CacheIsFresh
  <2>4. PICK g \in FetchRecords :
             /\ fetch' = [fetch EXCEPT ![c] = g]
             /\ Placed(k, g) /\ (still[c] => ReadSoFar(k, shown[c], g))
    BY <1>1, <2>1, <2>2, <2>3, TakeKeeps
  <2>5. Sees(k, shown[c], g, cache[c], still[c])
    BY <1>1, <2>4 DEF Sees
  <2> QED
    BY <1>1, <2>1, <2>4, <2>5, OneMovesOn
<1>3. ASSUME PageFromServer(c)
      PROVE  ReadInv'
  <2>1. /\ TakePage(c, page) /\ cache' = [cache EXCEPT ![c][f.query][f.page] = page]
    BY <1>3 DEF PageFromServer, Payload, PageAt
  <2>2. page \in Payloads
    BY <1>1, PageFacts
  <2>3. PICK g \in FetchRecords :
             /\ fetch' = [fetch EXCEPT ![c] = g]
             /\ Placed(k, g) /\ (still[c] => ReadSoFar(k, shown[c], g))
    BY <1>1, <2>1, <2>2, TakeKeeps
  <2> DEFINE row == [cache[c][f.query] EXCEPT ![f.page] = page]
             pages == [cache[c] EXCEPT ![f.query] = row]
  <2>4. cache' = [cache EXCEPT ![c] = pages]
    BY <2>1
  <2> HIDE DEF page, f, k
  <2>5. row \in [PageIds -> Payloads \cup {NoPage}]
    BY <1>1, <2>2
  <2>6. pages \in [QueryIds -> [PageIds -> Payloads \cup {NoPage}]]
    BY <1>1, <2>5
  <2>7. \A q \in QueryIds, p \in PageIds :
          pages[q][p] = IF q = f.query /\ p = f.page THEN page ELSE cache[c][q][p]
    BY <1>1
  <2> HIDE DEF pages
  <2>8. still[c] => CacheIsFresh(k, shown[c], pages)
    BY <1>1, <2>7 DEF Sees, CacheIsFresh, page
  <2>9. Sees(k, shown[c], g, pages, still[c])
    BY <2>3, <2>8 DEF Sees
  <2> QED
    BY <1>1, <2>3, <2>4, <2>6, <2>9, OneMovesOn DEF k
<1> QED
  BY <1>2, <1>3

LEMMA MovesKeeps ==
    ASSUME ReadInv, NEW c \in Callers, Moves(c)
    PROVE  ReadInv'
<1>1. FetchType
  BY DEF ReadInv
<1>2. PICK q \in QueryIds : \E list \in Lists(c, q) \ {shown[c][q]} : shown' = [shown EXCEPT ![c][q] = list]
  BY DEF Moves
<1>3. PICK list \in Lists(c, q) : shown' = [shown EXCEPT ![c][q] = list]
  BY <1>2
<1>4. list \in Seq(Postings)
  BY FetchAssumption
<1>5. /\ shown' \in [Callers -> [QueryIds -> Seq(Postings)]]
      /\ \A d \in Callers, e \in QueryIds : shown'[d][e] \in Lists(d, e)
      /\ \A d \in Callers : d # c => shown'[d] = shown[d]
  BY <1>1, <1>3, <1>4 DEF FetchType
<1>6. /\ kind' = kind /\ fetch' = fetch /\ cache' = cache
      /\ still' \in [Callers -> BOOLEAN] /\ ~still'[c] /\ \A d \in Callers : d # c => still'[d] = still[d]
  BY <1>1 DEF Moves, FetchType
<1>7. FetchType'
  BY <1>1, <1>5, <1>6 DEF FetchType
<1>8. ASSUME NEW d \in Callers
      PROVE  Sees(kind'[d], shown'[d], fetch'[d], cache'[d], still'[d])
  <2>1. Sees(kind[d], shown[d], fetch[d], cache[d], still[d])
    BY ReadInvIsSees
  <2> QED
    BY <1>5, <1>6, <2>1 DEF Sees
<1> QED
  BY <1>7, <1>8 DEF ReadInv, Sees

LEMMA NextReadInv == PagesBringNews /\ ReadInv /\ [FetchNext]_fetchVars => ReadInv'
<1> SUFFICES ASSUME PagesBringNews, ReadInv, [FetchNext]_fetchVars
             PROVE  ReadInv'
  OBVIOUS
<1>0. FetchType
  BY DEF ReadInv
<1>1. ASSUME UNCHANGED <<kind, shown, fetch, cache, still>>
      PROVE  ReadInv'
  BY <1>1 DEF ReadInv, FetchType
<1>2. ASSUME NEW c \in Callers, AskForPage(c) \/ ClientStep(c)
      PROVE  ReadInv'
  BY <1>1, <1>2 DEF AskForPage, ClientStep
<1>3. ASSUME NEW c \in Callers, PageFromCache(c) \/ PageFromServer(c)
      PROVE  ReadInv'
  BY <1>3, PageKeeps
<1>4. ASSUME NEW c \in Callers, Facets(c)
      PROVE  ReadInv'
  BY <1>4, FacetsKeeps
<1>5. ASSUME NEW c \in Callers, GiveUp(c)
      PROVE  ReadInv'
  <2> DEFINE g == [Start(kind[c]) EXCEPT !.stage = "failed"]
  <2>1. /\ kind' = kind /\ shown' = shown /\ cache' = cache /\ still' = still
        /\ fetch' = [fetch EXCEPT ![c] = g]
    BY <1>5 DEF GiveUp
  <2>2. g \in FetchRecords /\ Placed(kind[c], g) /\ ReadSoFar(kind[c], shown[c], g)
    BY <1>0, CacheAgain, StartFacts
  <2> HIDE DEF g
  <2>3. Sees(kind[c], shown[c], g, cache[c], still[c])
    BY <2>2, ReadInvIsSees DEF Sees
  <2>4. /\ cache[c] \in [QueryIds -> [PageIds -> Payloads \cup {NoPage}]] /\ still[c] \in BOOLEAN
        /\ cache' = [cache EXCEPT ![c] = cache[c]] /\ still' = [still EXCEPT ![c] = still[c]]
    BY <1>0, <2>1, CacheAgain
  <2> QED
    BY <2>1, <2>2, <2>3, <2>4, OneMovesOn
<1>10. ASSUME NEW c \in Callers, PassOver(c)
      PROVE  ReadInv'
  <2> DEFINE k == kind[c]
             f == fetch[c]
             g == NextQuery(f)
  <2>1. /\ kind' = kind /\ shown' = shown /\ cache' = cache /\ still' = still
        /\ fetch' = [fetch EXCEPT ![c] = g] /\ f.stage = "pages" /\ k \in Forgiving
    BY <1>10 DEF PassOver
  <2>2. /\ f \in FetchRecords /\ k \in DOMAIN Adapter /\ shown[c] \in [QueryIds -> Seq(Postings)]
        /\ Sees(k, shown[c], f, cache[c], still[c])
    BY <1>0, CacheAgain, ReadInvIsSees
  <2> HIDE DEF f, k
  <2>3. /\ g \in FetchRecords /\ Placed(k, g)
        /\ still[c] => ReadSoFar(k, shown[c], g)
    BY <2>1, <2>2, NextQueryFacts DEF Sees
  <2> HIDE DEF g
  <2>4. Sees(k, shown[c], g, cache[c], still[c])
    BY <2>2, <2>3 DEF Sees
  <2>5. /\ cache[c] \in [QueryIds -> [PageIds -> Payloads \cup {NoPage}]] /\ still[c] \in BOOLEAN
        /\ cache' = [cache EXCEPT ![c] = cache[c]] /\ still' = [still EXCEPT ![c] = still[c]]
    BY <1>0, <2>1, CacheAgain
  <2> QED
    BY <2>1, <2>3, <2>4, <2>5, OneMovesOn DEF k
<1>6. ASSUME NEW c \in Callers, Again(c)
      PROVE  ReadInv'
  <2> DEFINE g == Start(kind[c])
             calm == still[c] \/ cache[c] = EmptyCache
  <2>1. /\ kind' = kind /\ shown' = shown /\ cache' = cache /\ fetch' = [fetch EXCEPT ![c] = g]
        /\ still' = [still EXCEPT ![c] = calm]
    BY <1>6 DEF Again
  <2>2. g \in FetchRecords /\ Placed(kind[c], g) /\ ReadSoFar(kind[c], shown[c], g)
    BY <1>0, CacheAgain, StartFacts
  <2>3. calm \in BOOLEAN
    BY <1>0, CacheAgain
  <2>4. calm => CacheIsFresh(kind[c], shown[c], cache[c])
    BY EmptyIsFresh, ReadInvIsSees DEF Sees
  <2> HIDE DEF g, calm
  <2>5. Sees(kind[c], shown[c], g, cache[c], calm)
    BY <2>2, <2>4 DEF Sees
  <2>6. /\ cache[c] \in [QueryIds -> [PageIds -> Payloads \cup {NoPage}]]
        /\ cache' = [cache EXCEPT ![c] = cache[c]]
    BY <1>0, <2>1, CacheAgain
  <2> QED
    BY <2>1, <2>2, <2>3, <2>5, <2>6, OneMovesOn
<1>7. ASSUME NEW c \in Callers, Expire(c)
      PROVE  ReadInv'
  <2>1. /\ kind' = kind /\ shown' = shown /\ cache' = [cache EXCEPT ![c] = EmptyCache]
        /\ fetch' = fetch /\ still' = still
    BY <1>7 DEF Expire
  <2>2. Sees(kind[c], shown[c], fetch[c], EmptyCache, still[c])
    BY EmptyIsFresh, ReadInvIsSees DEF Sees
  <2>3. /\ EmptyCache \in [QueryIds -> [PageIds -> Payloads \cup {NoPage}]]
        /\ still[c] \in BOOLEAN /\ fetch[c] \in FetchRecords
        /\ fetch' = [fetch EXCEPT ![c] = fetch[c]] /\ still' = [still EXCEPT ![c] = still[c]]
    BY <1>0, <2>1, CacheAgain
  <2> QED
    BY <2>1, <2>2, <2>3, OneMovesOn
<1>8. ASSUME NEW c \in Callers, Moves(c)
      PROVE  ReadInv'
  BY <1>8, MovesKeeps
<1>9. ASSUME TimePasses \/ UNCHANGED fetchVars
      PROVE  ReadInv'
  BY <1>1, <1>9 DEF TimePasses, fetchVars
<1> QED
  BY <1>2, <1>3, <1>4, <1>5, <1>6, <1>7, <1>8, <1>9, <1>10 DEF FetchNext, FetchStep

\* A list that keeps still is read to its end or to the page limit, from the cache or
\* the server, whatever was retried and however often: if every full page of it
\* brings something new where an adapter goes by that (_paginate, fetch_board in
\* sources/).
THEOREM StillListsAreAlwaysRead ==
    ASSUME PagesBringNews
    PROVE  FetchSpec => []StillListsAreRead
<1>1. FetchInit => ReadInv
  BY InitReadInv
<1>2. ReadInv /\ [FetchNext]_fetchVars => ReadInv'
  BY NextReadInv
<1>3. ReadInv => StillListsAreRead
  BY DEF ReadInv, ReadSoFar, StillListsAreRead, Due, FirstPages
<1> QED
  BY <1>1, <1>2, <1>3, PTL DEF FetchSpec
=============================================================================
