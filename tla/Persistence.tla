----------------------------- MODULE Persistence -----------------------------
(***************************************************************************)
(* The shared jobs table over many search runs.  The world outside is a    *)
(* set of sources, each of which carries, edits and takes down postings.   *)
(* A search run hears from the sources that answered, folds the listings   *)
(* of a job into one representative, writes it, and expires what has not   *)
(* been seen, all in one transaction.  Nightly maintenance expires too.    *)
(*                                                                         *)
(* A job here is one that identity resolution has already told apart.      *)
(***************************************************************************)
EXTENDS JobRow

CONSTANTS
    Jobs,
    Sources,
    Postings,      \* the listings a source may carry for a job
    Authority,     \* Authority[s]: rank of a source, the lowest leads a cluster
    UrlRank,       \* UrlRank[v]: rank of the site an application URL leads to
    NoPosting,
    NoJob

\* A finite cluster, sorted, has a first member.
ASSUME AuthorityAssumption ==
    \A S \in (SUBSET Sources) \ {{}} :
        \E s \in S : \A t \in S : Authority[s] =< Authority[t]

ASSUME UrlRankAssumption ==
    \A V \in (SUBSET Values) \ {{}} :
        \E v \in V : \A w \in V : UrlRank[v] =< UrlRank[w]

\* What normalisation guarantees of a listing that is kept: sponsorship and an
\* application URL always have a value, and a maximum comes with a minimum.
ASSUME PostingsAssumption ==
    /\ Postings \subseteq Facts
    /\ \A p \in Postings :
        /\ p["sponsorship"] # NoFact
        /\ p["application_url"] # NoFact
        /\ p["salary_max"] # NoFact => p["salary_min"] # NoFact

ASSUME SentinelAssumption == NoPosting \notin Postings /\ NoJob \notin JobRows

VARIABLES
    posting,       \* posting[j][s]: what source s carries for job j now
    job            \* the jobs table

jobVars == <<posting, job>>

Init ==
    /\ posting \in [Jobs -> [Sources -> {NoPosting}]]
    /\ job = [j \in Jobs |-> NoJob]

Stored == {j \in Jobs : job[j] # NoJob}

-----------------------------------------------------------------------------
(* Folding a cluster of listings into one representative. *)

Carriers(j, up) == {s \in up : posting[j][s] # NoPosting}

\* The member that comes first in authority order.
Leader(S) == CHOOSE s \in S : \A t \in S : Authority[s] =< Authority[t]

\* Each end of the pay range filled from whoever has it.
InformedSeparately(j, S, f) == {s \in S : posting[j][s][f] \notin {NoFact, Unknown}}

\* The members that state a field; the two ends of a pay range go together.
Informed(j, S, f) ==
    LET key == IF f = "salary_max" THEN "salary_min" ELSE f
    IN  {s \in S : posting[j][s][key] \notin {NoFact, Unknown}}

\* The members whose URL leads to the best kind of site.
BestUrls(j, S) ==
    {s \in S : \A t \in S : UrlRank[posting[j][s]["application_url"]]
                            =< UrlRank[posting[j][t]["application_url"]]}

ElectedFrom(j, S, f) ==
    IF f = "application_url" THEN Leader(BestUrls(j, S))
    ELSE IF Informed(j, S, f) = {} THEN Leader(S)
    ELSE Leader(Informed(j, S, f))

MergedFacts(j, S) ==
    [f \in MaterialFields |-> posting[j][ElectedFrom(j, S, f)][f]]

-----------------------------------------------------------------------------
(* The transactions. *)

\* The row of a job after persist_clusters met its cluster S.
Persisted(j, S) ==
    IF job[j] = NoJob THEN NewJob(MergedFacts(j, S))
                      ELSE SightedJob(job[j], MergedFacts(j, S))

Expired(row) == IF row = NoJob THEN NoJob ELSE AfterExpiry(row)

\* Stale rows expired before the run's own sightings are written.
ExpireThenPersist(up, kept) ==
    job' = [j \in Jobs |->
              IF j \in kept /\ job[j] # NoJob
              THEN SightedJob(Expired(job[j]), MergedFacts(j, Carriers(j, up)))
              ELSE IF j \in kept THEN NewJob(MergedFacts(j, Carriers(j, up)))
              ELSE Expired(job[j])]

\* The persist transaction of a run: `up' are the sources that answered, `kept'
\* the clusters the scorer neither excluded nor put below the storing score.
PersistTxn(up, kept) ==
    job' = [j \in Jobs |->
              IF j \in kept THEN Expired(Persisted(j, Carriers(j, up)))
                            ELSE Expired(job[j])]

SearchRun ==
    /\ \E up \in SUBSET Sources :
         \E kept \in SUBSET {j \in Jobs : Carriers(j, up) # {}} :
            PersistTxn(up, kept)
    /\ UNCHANGED posting

\* The nightly job.
Maintenance ==
    /\ job' = [j \in Jobs |-> Expired(job[j])]
    /\ UNCHANGED posting

\* A source starts to carry a job, edits its listing, or takes it down.
SourceChanges ==
    /\ \E j \in Jobs, s \in Sources, p \in Postings \cup {NoPosting} :
            posting' = [posting EXCEPT ![j][s] = p]
    /\ UNCHANGED job

Day ==
    /\ job' = [j \in Jobs |-> IF job[j] = NoJob THEN NoJob ELSE OlderJob(job[j])]
    /\ UNCHANGED posting

Next == SearchRun \/ Maintenance \/ SourceChanges \/ Day

Spec == Init /\ [][Next]_jobVars

-----------------------------------------------------------------------------
(* Properties. *)

TypeOK ==
    /\ posting \in [Jobs -> [Sources -> Postings \cup {NoPosting}]]
    /\ job \in [Jobs -> JobRows \cup {NoJob}]

\* The four columns that say a posting is gone agree: is_active, freshness,
\* expired_at and status are written in two functions, and the dashboard, the
\* digest and the repost test each read a different one of them.
WithdrawnIsConsistent ==
    \A j \in Stored :
        LET row == job[j]
            gone == ~row.is_active
        IN  /\ gone <=> row.freshness = "expired"
            /\ gone <=> row.expired_at
            /\ gone <=> row.status = "expired"

\* A stored pay range is one that some source stated: merging a cluster and
\* writing over an older row never pair the minimum of one listing with the
\* maximum of another.
PayRangeFromOneSource ==
    \A j \in Stored :
        LET now == job[j].facts
        IN  \/ now["salary_min"] = NoFact /\ now["salary_max"] = NoFact
            \/ \E p \in Postings : /\ p["salary_min"] = now["salary_min"]
                                   /\ p["salary_max"] = now["salary_max"]

\* What a row knows of these fields it never forgets, whichever sources answer
\* in later runs ("Only real values overwrite").
FilledFactsStay ==
    [][\A j \in Stored, f \in FillFields \cup {"salary_min"} :
          job[j].facts[f] # NoFact => job'[j].facts[f] # NoFact]_jobVars

\* A source states something of the job that its column has no room for.
TooLong(j) ==
    \E s \in Sources, f \in ClampedFields :
        /\ posting[j][s] # NoPosting
        /\ InColumn(f, posting[j][s][f]) # posting[j][s][f]

\* A row becomes "updated" only in a step that changes a material fact of it:
\* what is reported as a change is also written, so that seeing the same
\* listings again is not a second change.  Only of a listing that states what its
\* column has no room for is that not so: what comes in never is what was kept.
UpdateChangesAFact ==
    [][\A j \in Stored :
          (job'[j].freshness = "updated" /\ job[j].freshness # "updated")
          => job'[j].facts # job[j].facts \/ TooLong(j)]_jobVars

\* Only a job that an earlier transaction withdrew is reposted: a run that finds
\* a long unseen job does not expire it on the way.
RepostFollowsWithdrawal ==
    [][\A j \in Stored :
          (job'[j].freshness = "reposted" /\ job[j].freshness # "reposted")
          => ~job[j].is_active]_jobVars
=============================================================================
