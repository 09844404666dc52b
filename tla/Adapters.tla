------------------------------ MODULE Adapters ------------------------------
(***************************************************************************)
(* What the adapters of sources/ differ in: how many queries they ask of a *)
(* board or an API, how far they page through each, which of the postings  *)
(* they meet they drop, and for what.                                      *)
(*                                                                         *)
(* queries, pages: how many at most.  ends: what else ends a query.        *)
(* drops: a posting without an id, one the title gate (or, client-side,    *)
(* the query) refuses, one without an employer, or without title or link,  *)
(* or marked inactive.  The payload's fields are only carried over.        *)
(***************************************************************************)
EXTENDS Integers

CONSTANTS
    Queries,       \* search terms, or facets of a tenant, of a paging adapter; lists
    MaxPages       \* MAX_PAGES

Paged(ends, drops) ==
    [queries |-> Queries, pages |-> MaxPages, ends |-> ends, drops |-> drops]

\* Everything in one response.
Whole(drops) == [queries |-> 1, pages |-> 1, ends |-> {}, drops |-> drops]

Workday   == Paged({"short page", "total"}, {"no id", "off topic", "blank"})
Eightfold == Paged({"nothing new"}, {"no id", "off topic"})
Phenom    == Paged({"nothing new", "short page"}, {"no id", "off topic"})
Apple     == Paged({"nothing new", "short page"}, {"no id", "off topic"})
TheMuse   == [Paged({"page count"}, {"off topic", "no employer"}) EXCEPT !.queries = 1]

GreenhouseAll   == Whole({"off topic"})

Google          == Whole({"no id", "off topic"})
Greenhouse      == Whole({"no id", "off topic"})
Lever           == Whole({"no id", "off topic"})
Ashby           == Whole({"no id", "off topic"})
SmartRecruiters == Whole({"no id", "off topic"})
Workable        == Whole({"no id", "off topic"})
Recruitee       == Whole({"no id", "off topic"})

Remotive  == Whole({"no employer"})
Arbeitnow == Whole({"off topic", "no employer"})
Adzuna    == Whole({"no employer"})
JSearch   == Whole({"no employer"})
USAJobs   == Whole({"no employer"})
Jooble    == Whole({"no employer"})
SerpApi   == Whole({"no employer"})

\* Several lists, each in one response.
GithubLists == [Whole({"no employer", "blank", "inactive"}) EXCEPT !.queries = Queries]
HackerNews  == Whole({"no id", "no employer"})

Adapter ==
    [workday |-> Workday, eightfold |-> Eightfold, phenom |-> Phenom, apple |-> Apple,
     themuse |-> TheMuse, google |-> Google, greenhouse |-> Greenhouse, lever |-> Lever,
     ashby |-> Ashby, smartrecruiters |-> SmartRecruiters, workable |-> Workable,
     recruitee |-> Recruitee, remotive |-> Remotive, arbeitnow |-> Arbeitnow,
     adzuna |-> Adzuna, jsearch |-> JSearch, usajobs |-> USAJobs, jooble |-> Jooble,
     serpapi |-> SerpApi, github_lists |-> GithubLists, hackernews |-> HackerNews]

\* The adapters that go on without a list they cannot have.
Forgiving == {"github_lists"}

\* The adapters that take it for granted that every posting has an id.
Trusting == {"themuse", "remotive", "arbeitnow", "adzuna", "jsearch", "usajobs", "jooble"}
=============================================================================
