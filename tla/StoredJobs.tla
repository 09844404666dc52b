----------------------------- MODULE StoredJobs -----------------------------
(***************************************************************************)
(* How the clusters of a run find the stored jobs they belong to           *)
(* (services/persistence.py): the bulk index, the lookup in descending     *)
(* order of certainty, the insert under a canonical id, and the listings   *)
(* that are attached or pointed at another job.                            *)
(*                                                                         *)
(* A persist transaction loads what the index needs, takes its clusters    *)
(* one by one in memory, and writes at the end.  Runs may overlap.  A job  *)
(* is named by its canonical id, which is unique in the table.             *)
(***************************************************************************)
EXTENDS Integers, FiniteSets

CONSTANTS
    Keys,        \* (source, source_job_id) of postings
    Precedes(_, _),  \* the order of authority among keys
    LooksOf(_),  \* how the posting of a key may look
    None,
    NoJob,
    NoListing,
    Gone,        \* a posting that no source shows
    Answers,     \* the postings that may come back together, by the sources that answer
    Runs

\* A look: its ATS identity and opening (requisition and discriminators) if
\* stated, its canonical URL and its fingerprint.
Looks == UNION {LooksOf(k) : k \in Keys}

VARIABLES
    world,    \* world[k]: how a posting looks now, or Gone
    jobs,     \* jobs[id]: the committed job with that canonical id, or NoJob
    listing,  \* listing[k]: the committed row, or NoListing
    run,      \* run[r]: an open persist transaction
    stored    \* history: the clusters of the last commit, if nothing overlapped it
              \* and no posting has changed since

storedVars == <<world, jobs, listing, run, stored>>

-----------------------------------------------------------------------------
(* Clusters. *)

Identical(a, b) == a.url = b.url \/ (a.ats # None /\ a.ats = b.ats)

Differ(a, b) == a # None /\ b # None /\ a # b

Compatible(a, b) == ~Differ(a.ats, b.ats) /\ ~Differ(a.opening, b.opening)

Member(k) == world[k]

\* What deduplication promises of its clusters (Partition): each is connected by
\* identical and compatible postings, and identical ones are never apart.
Connected(c) ==
    \A S \in (SUBSET c) \ {{}, c} :
        \E k \in S, l \in c \ S :
            Identical(Member(k), Member(l)) \/ Compatible(Member(k), Member(l))

IsClustering(P) ==
    /\ \A c, d \in P : c # d => c \cap d = {}
    /\ \A c \in P : Connected(c)
    /\ \A c, d \in P : \A k \in c, l \in d :
          Identical(Member(k), Member(l)) => c = d
    \* a fingerprint is compared with the head of its bucket
    /\ \A k \in UNION P : \E h \in UNION P :
          /\ Member(h).print = Member(k).print
          /\ \A l \in UNION P : \A c \in P :
                /\ Member(l).print = Member(h).print
                /\ Compatible(Member(l), Member(h))
                /\ h \in c
                => l \in c

Clusterings(S) == {P \in SUBSET ((SUBSET S) \ {{}}) : UNION P = S /\ IsClustering(P)}

Leader(c) == CHOOSE k \in c : \A l \in c \ {k} : Precedes(k, l)

\* The first that knows, in the order of authority.
FirstKnown(c, field) ==
    LET known == {k \in c : Member(k)[field] # None} IN
    IF known = {} THEN None ELSE Member(Leader(known))[field]

\* The representative of a cluster.
Rep(c) == [ats     |-> FirstKnown(c, "ats"),
           opening |-> FirstKnown(c, "opening"),
           url     |-> Member(Leader(c)).url,
           print   |-> Member(Leader(c)).print]

CanonicalId(rep) == IF rep.ats # None THEN rep.ats ELSE rep.url

-----------------------------------------------------------------------------
(* The index and the lookup. *)

Ids == ({l.ats : l \in Looks} \ {None}) \cup {l.url : l \in Looks}

JobRows == [ats     : {l.ats : l \in Looks} \cup {None},
            opening : {l.opening : l \in Looks} \cup {None},
            print   : {l.print : l \in Looks}]

Listings == [job : Ids, ats : {l.ats : l \in Looks}, url : {l.url : l \in Looks}]

\* A cluster, sorted, has a first member; every posting has a URL, and no ATS
\* identity looks like one; what stands for an absent row is none.
ASSUME StoredAssumption ==
    /\ \A S \in (SUBSET Keys) \ {{}} : \E k \in S : \A l \in S \ {k} : Precedes(k, l)
    /\ \A l, m \in Looks : l.url \notin {m.ats, None}
    /\ Answers \subseteq SUBSET Keys
    /\ Gone \notin Looks /\ NoJob \notin JobRows /\ NoListing \notin Listings

\* A job that another opening is stored in.
StoredJobConflicts(job, rep) == Differ(job.ats, rep.ats) \/ Differ(job.opening, rep.opening)

\* Rows that were loaded come before those registered later, and whichever of
\* several the database returned first stands for a key.
FirstRows(loaded, later) == IF loaded # {} THEN loaded ELSE later

\* The jobs behind one ATS identity.
ByFreshIdentity(q, a) == {j \in DOMAIN q.born : q.born[j].ats = a}

ByIdentity(q, a) ==
    LET oldJobs == {j \in Ids : q.oldJobs[j] # NoJob /\ q.oldJobs[j].ats = a}
        newJobs == {j \in DOMAIN q.born : q.born[j].ats = a}
        old == {k \in Keys : q.old[k] # NoListing /\ q.old[k].ats = a}
        new == {k \in q.written : q.listing[k].ats = a}
    IN IF oldJobs \cup newJobs # {} THEN FirstRows(oldJobs, newJobs)
       ELSE {q.listing[k].job : k \in FirstRows(old, new)}

ByUrl(q, u) ==
    LET old == {k \in Keys : q.old[k] # NoListing /\ q.old[k].url = u}
        new == {k \in q.written : q.listing[k].url = u}
    IN {q.listing[k].job : k \in FirstRows(old, new)}

ByPrint(q, rep) ==
    LET Fits(j) == ~StoredJobConflicts(q.jobs[j], rep)
        old == {j \in Ids : q.oldJobs[j] # NoJob /\ q.oldJobs[j].print = rep.print /\ Fits(j)}
        new == {j \in DOMAIN q.born : q.born[j].print = rep.print /\ Fits(j)}
    IN FirstRows(old, new)

\* What the first member finds that finds something by a lookup.
FoundBy(c, finds) ==
    LET hits == {k \in c : finds[k] # {}} IN
    IF hits = {} THEN {} ELSE finds[Leader(hits)]

FindByLooks(q, c) ==
    LET byPrint == ByPrint(q, Rep(c))
        byUrl == FoundBy(c, [k \in c |-> ByUrl(q, Member(k).url)])
    IN IF byPrint # {} THEN byPrint ELSE byUrl

FindExistingJob(q, c) ==
    LET byKey == FoundBy(c, [k \in c |-> IF q.listing[k] = NoListing THEN {}
                                         ELSE {q.listing[k].job}])
        byAts == FoundBy(c, [k \in c |-> IF Member(k).ats = None THEN {}
                                         ELSE ByIdentity(q, Member(k).ats)])
        byUrl == FoundBy(c, [k \in c |-> ByUrl(q, Member(k).url)])
        byPrint == ByPrint(q, Rep(c))
    IN CASE byKey # {} -> byKey
         [] byKey = {} /\ byAts # {} -> byAts
         [] byKey = {} /\ byAts = {} /\ byUrl # {} -> byUrl
         [] OTHER -> byPrint

-----------------------------------------------------------------------------
(* Runs. *)

IdleRun == [pc |-> "idle", clusters |-> {}, rest |-> {}, doomed |-> FALSE, lone |-> FALSE,
            oldJobs |-> [j \in Ids |-> NoJob], old |-> [k \in Keys |-> NoListing],
            jobs |-> [j \in Ids |-> NoJob], listing |-> [k \in Keys |-> NoListing],
            born |-> [j \in {} |-> NoJob], written |-> {}]

StoredInit ==
    /\ world \in [Keys -> Looks \cup {Gone}]
    /\ \A k \in Keys : world[k] \in LooksOf(k) \cup {Gone}
    /\ jobs = [j \in Ids |-> NoJob]
    /\ listing = [k \in Keys |-> NoListing]
    /\ run = [r \in Runs |-> IdleRun]
    /\ stored = {}

Alone(r) == \A s \in Runs \ {r} : run[s].pc = "idle"

Shown == {k \in Keys : world[k] # Gone}

\* The clusters that were found, scored and kept, and all the index needs.
Load(r) ==
    /\ run[r].pc = "idle"
    /\ \E A \in Answers :
       \E P \in Clusterings({k \in A : world[k] # Gone}) :
          run' = [s \in Runs |->
             IF s # r THEN [run[s] EXCEPT !.lone = FALSE]
             ELSE [IdleRun EXCEPT !.pc = "open", !.clusters = P, !.rest = P, !.lone = Alone(r),
                                  !.oldJobs = jobs, !.old = listing,
                                  !.jobs = jobs, !.listing = listing]]
    /\ UNCHANGED <<world, jobs, listing, stored>>

Written(job, rep) ==
    [ats     |-> IF rep.ats # None THEN rep.ats ELSE job.ats,
     opening |-> IF rep.opening # None THEN rep.opening ELSE job.opening,
     print   |-> rep.print]

UpsertListings(q, c, j) ==
    [k \in Keys |-> IF k \in c THEN [job |-> j, ats |-> Member(k).ats, url |-> Member(k).url]
                    ELSE q.listing[k]]

\* The next cluster, the larger ones first: a known job is written again, or a
\* new one is added and registered in the index.
StoreCluster(r) ==
    LET q == run[r] IN
    /\ q.pc = "open"
    /\ \E c \in q.rest :
       LET rep == Rep(c)  found == FindExistingJob(q, c)  id == CanonicalId(rep)
           blank == [ats |-> None, opening |-> None, print |-> rep.print]
       IN
       /\ \A d \in q.rest : Cardinality(d) <= Cardinality(c)
       /\ \/ \E j \in found :
                run' = [run EXCEPT ![r].rest = @ \ {c},
                                   ![r].jobs[j] = Written(@, rep),
                                   ![r].listing = UpsertListings(q, c, j),
                                   ![r].written = @ \cup c]
          \/ /\ found = {}
             /\ run' = IF q.jobs[id] # NoJob
                       THEN [run EXCEPT ![r].rest = {}, ![r].doomed = TRUE]
                       ELSE [run EXCEPT
                               ![r].rest = @ \ {c},
                               ![r].jobs[id] = Written(blank, rep),
                               ![r].listing = UpsertListings(q, c, id),
                               ![r].written = @ \cup c,
                               ![r].born = [j \in DOMAIN @ \cup {id} |->
                                              IF j = id THEN Written(blank, rep) ELSE @[j]]]
    /\ UNCHANGED <<world, jobs, listing, stored>>

Column(now, loaded, new) == IF new = loaded THEN now ELSE new

\* An insert where there was no row, an update of the changed columns elsewhere.
WriteJob(j, q) ==
    IF q.jobs[j] = q.oldJobs[j] THEN jobs[j]
    ELSE IF q.oldJobs[j] = NoJob THEN q.jobs[j]
    ELSE [ats     |-> Column(jobs[j].ats, q.oldJobs[j].ats, q.jobs[j].ats),
          opening |-> Column(jobs[j].opening, q.oldJobs[j].opening, q.jobs[j].opening),
          print   |-> Column(jobs[j].print, q.oldJobs[j].print, q.jobs[j].print)]

WriteListing(k, q) ==
    IF q.listing[k] = q.old[k] THEN listing[k]
    ELSE IF q.old[k] = NoListing THEN q.listing[k]
    ELSE [job |-> Column(listing[k].job, q.old[k].job, q.listing[k].job),
          ats |-> Column(listing[k].ats, q.old[k].ats, q.listing[k].ats),
          url |-> Column(listing[k].url, q.old[k].url, q.listing[k].url)]

\* A row it means to insert is there already.
CollidesOrLate(q) ==
    q.doomed \/ \E k \in q.written : listing[k] # q.old[k] \/ listing[k] = NoListing

Collides(q) ==
    \/ q.doomed
    \/ \E j \in DOMAIN q.born : jobs[j] # NoJob
    \/ \E k \in q.written : q.old[k] = NoListing /\ listing[k] # NoListing

Commit(r) ==
    LET q == run[r] IN
    /\ q.pc = "open" /\ q.rest = {} /\ ~Collides(q)
    /\ jobs' = [j \in Ids |-> WriteJob(j, q)]
    /\ listing' = [k \in Keys |-> WriteListing(k, q)]
    /\ stored' = IF q.lone THEN q.clusters ELSE {}
    /\ run' = [run EXCEPT ![r] = IdleRun]
    /\ UNCHANGED world

\* The whole transaction is rolled back and the run reported as failed.
Fail(r) ==
    /\ run[r].pc = "open" /\ run[r].rest = {} /\ Collides(run[r])
    /\ run' = [run EXCEPT ![r] = IdleRun]
    /\ UNCHANGED <<world, jobs, listing, stored>>

\* A source shows a posting, changes how it looks or takes it down.
Changes(k) ==
    /\ \A r \in Runs : run[r].pc = "idle"
    /\ \E look \in LooksOf(k) \cup {Gone} :
          /\ look # world[k]
          /\ world' = [world EXCEPT ![k] = look]
    /\ stored' = {}
    /\ UNCHANGED <<jobs, listing, run>>

StoredNext ==
    \/ \E r \in Runs : Load(r) \/ StoreCluster(r) \/ Commit(r) \/ Fail(r)
    \/ \E k \in Keys : Changes(k)

StoredSpec == StoredInit /\ [][StoredNext]_storedVars

\* Runs go on being started and finish, and every source answers again and again.
StoredFairness ==
    \A r \in Runs :
       /\ SF_storedVars(Load(r) /\ Shown \subseteq UNION run'[r].clusters)
       /\ WF_storedVars(StoreCluster(r) \/ Commit(r) \/ Fail(r))

FairStoredSpec == StoredSpec /\ StoredFairness

-----------------------------------------------------------------------------
(* Properties. *)

\* As long as postings keep their ATS identity and URL, no run meets a stored job
\* under the id it means to give a new one: whatever has this id is found by one
\* lookup or another (LookupIndex, find_existing_job).
IdsAreFound == \A r \in Runs : ~run[r].doomed

\* A run that finds what the run before it has stored, with nothing overlapping,
\* adds no job and moves no listing: the lookups lead every cluster to the one
\* job its listings are in (find_existing_job, _upsert_listings).
SameAgainIsQuiet ==
    [][\A r \in Runs :
          run[r].pc = "open" /\ run'[r].pc = "idle" /\ run[r].lone
          /\ run[r].clusters = stored
          => listing' = listing /\ \A j \in Ids : (jobs'[j] = NoJob) = (jobs[j] = NoJob)]_storedVars

\* A posting that stays up is stored in the end, whoever else inserts it first: a
\* run that lost a race is rolled back, and a later one finds what won.
EventuallyStored ==
    \A k \in Keys : <>[](world[k] # Gone) => <>(listing[k] # NoListing)
=============================================================================
