---------------------------- MODULE Digest_proofs ----------------------------
(***************************************************************************)
(* Theorems about Persistence.tla and Digest.tla: the jobs table for every *)
(* set of jobs, sources and listings and every grace period; then the runs *)
(* that end in a digest, which do to the table what Persistence says.      *)
(***************************************************************************)
EXTENDS Digest, TLAPS

\* No transaction of the pipeline gives Job.status a value a user would set,
\* so the expiry never meets a row it has to spare.
SystemOwnedStatus == \A j \in Stored : job[j].status \in {"new", "expired"}

IInv == TypeOK /\ SystemOwnedStatus /\ WithdrawnIsConsistent

-----------------------------------------------------------------------------
(* Clusters. *)

\* A non-empty set of sources has a first member in authority order.
LEMMA LeaderIsMember ==
    ASSUME NEW S \in SUBSET Sources, S # {}
    PROVE  Leader(S) \in S
  BY AuthorityAssumption DEF Leader

\* Some member of a non-empty cluster has a URL of the best kind of site.
LEMMA BestUrlsExist ==
    ASSUME TypeOK, NEW j \in Jobs, NEW S \in SUBSET Sources, S # {},
           \A s \in S : posting[j][s] # NoPosting
    PROVE  BestUrls(j, S) \in SUBSET S /\ BestUrls(j, S) # {}
  <1> DEFINE Urls == {posting[j][s]["application_url"] : s \in S}
  <1>1. \A s \in S : posting[j][s] \in Postings
    BY DEF TypeOK
  <1>2. "application_url" \in MaterialFields
    BY DEF MaterialFields, OverwrittenFields
  <1>3. \A s \in S : posting[j][s]["application_url"] \in Values
    BY <1>1, <1>2, PostingsAssumption DEF Facts
  <1>4. Urls \in (SUBSET Values) \ {{}}
    BY <1>3
  <1>5. PICK v \in Urls : \A w \in Urls : UrlRank[v] =< UrlRank[w]
    BY <1>4, UrlRankAssumption
  <1>6. PICK s \in S : posting[j][s]["application_url"] = v
    BY <1>5
  <1>7. s \in BestUrls(j, S)
    BY <1>5, <1>6 DEF BestUrls
  <1>8. QED
    BY <1>7 DEF BestUrls

\* Every field of the representative comes from a member of the cluster.
LEMMA ElectedIsMember ==
    ASSUME TypeOK, NEW j \in Jobs, NEW S \in SUBSET Sources, S # {},
           \A s \in S : posting[j][s] # NoPosting,
           NEW f \in MaterialFields
    PROVE  ElectedFrom(j, S, f) \in S
  <1>1. CASE f = "application_url"
    <2>1. BestUrls(j, S) \in SUBSET Sources /\ BestUrls(j, S) # {}
      BY BestUrlsExist
    <2>2. Leader(BestUrls(j, S)) \in BestUrls(j, S)
      BY <2>1, LeaderIsMember
    <2>3. QED
      BY <1>1, <2>2, BestUrlsExist DEF ElectedFrom
  <1>2. CASE f # "application_url" /\ Informed(j, S, f) = {}
    BY <1>2, LeaderIsMember DEF ElectedFrom
  <1>3. CASE f # "application_url" /\ Informed(j, S, f) # {}
    <2>1. Informed(j, S, f) \in SUBSET S
      BY DEF Informed
    <2>2. Leader(Informed(j, S, f)) \in Informed(j, S, f)
      BY <1>3, <2>1, LeaderIsMember
    <2>3. QED
      BY <1>3, <2>1, <2>2 DEF ElectedFrom
  <1>4. QED
    BY <1>1, <1>2, <1>3

\* The representative is well formed, its pay range is that of one of the listings,
\* and each of its facts is stated by one of them.
LEMMA MergedIsAListing ==
    ASSUME TypeOK, NEW j \in Jobs, NEW S \in SUBSET Sources, S # {},
           \A s \in S : posting[j][s] # NoPosting
    PROVE  LET m == MergedFacts(j, S)
           IN  /\ m \in Facts
               /\ \E p \in Postings : /\ p["salary_min"] = m["salary_min"]
                                      /\ p["salary_max"] = m["salary_max"]
               /\ \A f \in MaterialFields : \E s \in S : m[f] = posting[j][s][f]
  <1> DEFINE m == MergedFacts(j, S)
             from(f) == ElectedFrom(j, S, f)
  <1>1. \A s \in S : posting[j][s] \in Postings
    BY DEF TypeOK
  <1>2. \A f \in MaterialFields : from(f) \in S
    BY ElectedIsMember
  <1>3. \A f \in MaterialFields : posting[j][from(f)][f] \in Values \cup {NoFact}
    BY <1>1, <1>2, PostingsAssumption DEF Facts
  <1>4. m \in Facts
    BY <1>3 DEF MergedFacts, Facts
  <1>5. {"salary_min", "salary_max"} \subseteq MaterialFields
    BY DEF MaterialFields, PayFields
  <1>6. Informed(j, S, "salary_max") = Informed(j, S, "salary_min")
    BY DEF Informed
  <1>7. from("salary_max") = from("salary_min")
    BY <1>6 DEF ElectedFrom
  <1>8. /\ m["salary_min"] = posting[j][from("salary_min")]["salary_min"]
        /\ m["salary_max"] = posting[j][from("salary_min")]["salary_max"]
    BY <1>5, <1>7 DEF MergedFacts
  <1>9. posting[j][from("salary_min")] \in Postings
    BY <1>1, <1>2, <1>5
  <1>10. \A f \in MaterialFields : m[f] = posting[j][from(f)][f]
    BY DEF MergedFacts
  <1>11. QED
    BY <1>2, <1>4, <1>8, <1>9, <1>10

-----------------------------------------------------------------------------
(* Rows. *)

\* A column keeps a value of a value, and nothing of nothing.
LEMMA InColumnType ==
    ASSUME NEW f \in MaterialFields, NEW v \in Values \cup {NoFact}
    PROVE  /\ InColumn(f, v) \in Values \cup {NoFact}
           /\ InColumn(f, v) = NoFact <=> v = NoFact
           /\ f \in PayFields => InColumn(f, v) = v
  <1>1. f \in PayFields => f \notin ClampedFields
    BY DEF PayFields, ClampedFields
  <1>2. f \in ClampedFields /\ v # NoFact => Clamped[f][v] \in Values
    BY ClampAssumption
  <1> QED
    BY <1>1, <1>2, ValuesAssumption DEF InColumn

\* Writing a representative over known facts gives well-formed facts.
LEMMA WrittenFactsType ==
    ASSUME NEW old \in Facts, NEW new \in Facts
    PROVE  WrittenFacts(old, new) \in Facts
  <1>1. \A f \in MaterialFields : new[f] \in Values \cup {NoFact}
    BY DEF Facts
  <1>2. \A f \in MaterialFields : InColumn(f, new[f]) \in Values \cup {NoFact}
    BY <1>1, InColumnType
  <1> QED
    BY <1>2 DEF WrittenFacts, Facts

\* A row that agrees with itself about being withdrawn, as one of the pipeline.
GoodRow(row) ==
    /\ row \in JobRows
    /\ row.status \in {"new", "expired"}
    /\ ~row.is_active <=> row.freshness = "expired"
    /\ ~row.is_active <=> row.expired_at
    /\ ~row.is_active <=> row.status = "expired"

\* A row made from a cluster is well typed and agrees with itself.
LEMMA NewJobIsGood ==
    ASSUME NEW new \in Facts
    PROVE  GoodRow(NewJob(new))
  <1>1. NoFacts \in Facts
    BY DEF NoFacts, Facts
  <1>2. WrittenFacts(NoFacts, new) \in Facts
    BY <1>1, WrittenFactsType
  <1>3. NewJob(new) \in JobRows
    BY <1>2, GraceAssumption DEF NewJob, JobRows, JobStatus, Freshness
  <1>4. /\ NewJob(new).is_active = TRUE
        /\ NewJob(new).expired_at = FALSE
        /\ NewJob(new).status = "new"
        /\ NewJob(new).freshness = "new"
    BY DEF NewJob
  <1>5. QED
    BY <1>3, <1>4 DEF GoodRow

\* A row that is seen again stays well typed.
LEMMA SightedJobType ==
    ASSUME NEW row \in JobRows, NEW new \in Facts
    PROVE  SightedJob(row, new) \in JobRows
  <1> DEFINE status == IF row.status = "expired" THEN "new" ELSE row.status
             expired_at == IF WasExpired(row) THEN FALSE ELSE row.expired_at
  <1>1. WrittenFacts(row.facts, new) \in Facts
    BY WrittenFactsType DEF JobRows
  <1>2. FreshnessAfter(row, new) \in Freshness
    BY DEF FreshnessAfter, JobRows, Freshness
  <1>3. status \in JobStatus /\ expired_at \in BOOLEAN /\ row.age \in 0 .. 1
    BY DEF JobRows, JobStatus
  <1>4. 0 \in 0 .. GraceDays + 1
    BY GraceAssumption
  <1>5. SightedJob(row, new) =
          [status |-> status, freshness |-> FreshnessAfter(row, new),
           is_active |-> TRUE, expired_at |-> expired_at, unseen |-> 0,
           age |-> row.age, facts |-> WrittenFacts(row.facts, new)]
    BY DEF SightedJob
  <1> HIDE DEF status, expired_at
  <1>6. QED
    BY <1>1, <1>2, <1>3, <1>4, <1>5 DEF JobRows

\* A sighting undoes every column of a withdrawal, so the row agrees with itself.
LEMMA SightedJobIsGood ==
    ASSUME NEW row, GoodRow(row), NEW new \in Facts
    PROVE  GoodRow(SightedJob(row, new))
  <1>1. FreshnessAfter(row, new) # "expired"
    BY DEF FreshnessAfter, WasExpired, GoodRow
  <1>2. SightedJob(row, new) \in JobRows
    BY SightedJobType DEF GoodRow
  <1>3. /\ SightedJob(row, new).is_active = TRUE
        /\ SightedJob(row, new).expired_at = FALSE
        /\ SightedJob(row, new).status = "new"
        /\ SightedJob(row, new).freshness = FreshnessAfter(row, new)
    BY DEF GoodRow, SightedJob, WasExpired, JobRows
  <1>4. QED
    BY <1>1, <1>2, <1>3 DEF GoodRow

\* The staleness sweep writes the four columns together or none of them.
LEMMA AfterExpiryIsGood ==
    ASSUME NEW row, GoodRow(row)
    PROVE  GoodRow(AfterExpiry(row))
  BY DEF GoodRow, AfterExpiry, IsStale, ExpiredJob, TerminalStatuses, JobRows,
         JobStatus, Freshness, Protected

\* A day passing moves the ages within their caps and nothing else.
LEMMA OlderJobIsGood ==
    ASSUME NEW row, GoodRow(row)
    PROVE  GoodRow(OlderJob(row))
  <1>1. row.unseen \in 0 .. GraceDays + 1
    BY DEF GoodRow, JobRows
  <1>2. (IF row.unseen > GraceDays THEN row.unseen ELSE row.unseen + 1)
        \in 0 .. GraceDays + 1
    BY <1>1, GraceAssumption
  <1> DEFINE unseen == IF row.unseen > GraceDays THEN row.unseen ELSE row.unseen + 1
  <1>3. OlderJob(row) \in JobRows
    <2>1. OlderJob(row) = [row EXCEPT !.unseen = unseen, !.age = 1]
      BY DEF OlderJob
    <2>2. unseen \in 0 .. GraceDays + 1
      BY <1>2
    <2>3. row \in JobRows /\ 1 \in 0 .. 1
      BY DEF GoodRow
    <2> HIDE DEF unseen
    <2>4. QED
      BY <2>1, <2>2, <2>3 DEF JobRows
  <1>4. /\ OlderJob(row).is_active = row.is_active
        /\ OlderJob(row).expired_at = row.expired_at
        /\ OlderJob(row).status = row.status
        /\ OlderJob(row).freshness = row.freshness
    BY DEF OlderJob, GoodRow, JobRows
  <1>5. QED
    BY <1>3, <1>4 DEF GoodRow

-----------------------------------------------------------------------------
(* Steps. *)

\* A representative that a cluster of listings of job j can have.
Representative(j, new) ==
    /\ new \in Facts
    /\ \E p \in Postings : /\ p["salary_min"] = new["salary_min"]
                           /\ p["salary_max"] = new["salary_max"]
    /\ \A f \in MaterialFields :
          \E s \in Sources : posting[j][s] # NoPosting /\ new[f] = posting[j][s][f]

Discovered(j) ==
    /\ job[j] = NoJob
    /\ \E new : Representative(j, new) /\ job'[j] = NewJob(new)

SeenAgain(j) ==
    /\ job[j] # NoJob
    /\ \E new : Representative(j, new) /\ job'[j] = SightedJob(job[j], new)

Aged(j) == job[j] # NoJob /\ job'[j] \in {OlderJob(job[j]), AfterExpiry(job[j])}

\* A row that was seen in this very transaction is not stale.
LEMMA FreshRowStays ==
    ASSUME NEW row, row.unseen = 0
    PROVE  AfterExpiry(row) = row
  BY GraceAssumption DEF AfterExpiry, IsStale

\* A row is left alone, discovered, seen again, or aged, and nothing else.
LEMMA StepOfARow ==
    ASSUME TypeOK, [Next]_jobVars, NEW j \in Jobs
    PROVE  job'[j] = job[j] \/ Discovered(j) \/ SeenAgain(j) \/ Aged(j)
  <1>1. CASE SearchRun
    <2>0. PICK up \in SUBSET Sources :
            \E kept \in SUBSET {k \in Jobs : Carriers(k, up) # {}} : PersistTxn(up, kept)
      BY <1>1 DEF SearchRun
    <2>1. PICK kept \in SUBSET {k \in Jobs : Carriers(k, up) # {}} : PersistTxn(up, kept)
      BY <2>0
    <2> DEFINE S == Carriers(j, up)
               new == MergedFacts(j, S)
    <2>2. CASE j \notin kept
      BY <2>1, <2>2 DEF PersistTxn, Expired, Aged
    <2>3. CASE j \in kept
      <3>1. S \in SUBSET Sources /\ S # {} /\ \A s \in S : posting[j][s] # NoPosting
        BY <2>1, <2>3 DEF Carriers
      <3>2. Representative(j, new)
        BY <3>1, MergedIsAListing DEF Representative
      <3>3. job'[j] = Expired(Persisted(j, S))
        BY <2>1, <2>3 DEF PersistTxn
      <3>4. CASE job[j] = NoJob
        <4>1. Persisted(j, S) = NewJob(new)
          BY <3>4 DEF Persisted
        <4>2. NewJob(new) # NoJob
          BY <3>2, NewJobIsGood, SentinelAssumption DEF Representative, GoodRow
        <4>3. Expired(NewJob(new)) = NewJob(new)
          BY <4>2, FreshRowStays DEF Expired, NewJob
        <4>4. QED
          BY <3>2, <3>3, <3>4, <4>1, <4>3 DEF Discovered
      <3>5. CASE job[j] # NoJob
        <4>1. Persisted(j, S) = SightedJob(job[j], new)
          BY <3>5 DEF Persisted
        <4>2. SightedJob(job[j], new).unseen = 0
          BY DEF SightedJob
        <4>3. CASE SightedJob(job[j], new) = NoJob
          <5>1. SightedJob(job[j], new) \in JobRows
            <6>1. job[j] \in JobRows
              BY <3>5 DEF TypeOK
            <6>2. QED
              BY <3>2, <6>1, SightedJobType DEF Representative
          <5>2. QED
            BY <4>3, <5>1, SentinelAssumption
        <4>4. CASE SightedJob(job[j], new) # NoJob
          <5>1. Expired(SightedJob(job[j], new)) = SightedJob(job[j], new)
            BY <4>2, <4>4, FreshRowStays DEF Expired
          <5>2. QED
            BY <3>2, <3>3, <3>5, <4>1, <5>1 DEF SeenAgain
        <4>5. QED
          BY <4>3, <4>4
      <3>6. QED
        BY <3>4, <3>5
    <2>4. QED
      BY <2>2, <2>3
  <1>2. CASE Maintenance
    BY <1>2 DEF Maintenance, Expired, Aged
  <1>3. CASE SourceChanges
    BY <1>3 DEF SourceChanges
  <1>4. CASE Day
    BY <1>4 DEF Day, Aged
  <1>5. CASE UNCHANGED jobVars
    BY <1>5 DEF jobVars
  <1>6. QED
    BY <1>1, <1>2, <1>3, <1>4, <1>5 DEF Next

-----------------------------------------------------------------------------
(* The invariant. *)

\* The invariant, row by row.
LEMMA IInvByRow ==
    IInv <=> /\ posting \in [Jobs -> [Sources -> Postings \cup {NoPosting}]]
             /\ job \in [Jobs -> JobRows \cup {NoJob}]
             /\ \A j \in Jobs : job[j] # NoJob => GoodRow(job[j])
  BY DEF IInv, TypeOK, SystemOwnedStatus, WithdrawnIsConsistent, Stored, GoodRow

\* An empty jobs table satisfies the invariant.
LEMMA InitIInv == Init => IInv
  BY IInvByRow DEF Init

\* Whatever a step does to a row, the row still agrees with itself.
LEMMA RowStaysGood ==
    ASSUME IInv, [Next]_jobVars, NEW j \in Jobs
    PROVE  job'[j] = NoJob \/ GoodRow(job'[j])
  <1>1. TypeOK /\ (job[j] # NoJob => GoodRow(job[j]))
    BY IInvByRow DEF IInv
  <1>2. CASE job'[j] = job[j]
    BY <1>1, <1>2
  <1>3. CASE Discovered(j)
    BY <1>3, NewJobIsGood DEF Discovered, Representative
  <1>4. CASE SeenAgain(j)
    BY <1>1, <1>4, SightedJobIsGood DEF SeenAgain, Representative
  <1>5. CASE Aged(j)
    BY <1>1, <1>5, OlderJobIsGood, AfterExpiryIsGood DEF Aged
  <1>6. QED
    BY <1>1, <1>2, <1>3, <1>4, <1>5, StepOfARow

\* The invariant survives every step.
LEMMA NextIInv == IInv /\ [Next]_jobVars => IInv'
  <1> SUFFICES ASSUME IInv, [Next]_jobVars
               PROVE  IInv'
    OBVIOUS
  <1>1. posting' \in [Jobs -> [Sources -> Postings \cup {NoPosting}]]
    BY DEF IInv, TypeOK, Next, SearchRun, Maintenance, SourceChanges, Day, jobVars
  <1>2. \A j \in Jobs : job'[j] = NoJob \/ GoodRow(job'[j])
    BY RowStaysGood
  <1>3. job' = [j \in Jobs |-> job'[j]]
    BY DEF IInv, TypeOK, Next, SearchRun, PersistTxn, Maintenance, SourceChanges, Day,
           jobVars
  <1>4. job' \in [Jobs -> JobRows \cup {NoJob}]
    BY <1>2, <1>3 DEF GoodRow
  <1>5. \A j \in Jobs : job'[j] # NoJob => GoodRow(job'[j])
    BY <1>2
  <1>6. QED
    BY <1>1, <1>4, <1>5
    DEF IInv, TypeOK, SystemOwnedStatus, WithdrawnIsConsistent, Stored, GoodRow

\* The jobs table is well typed in every reachable state.
THEOREM TypeCorrect == Spec => []TypeOK
  <1>1. IInv => TypeOK
    BY DEF IInv
  <1>2. QED
    BY <1>1, InitIInv, NextIInv, PTL DEF Spec

\* is_active, freshness, expired_at and Job.status never disagree about whether
\* a posting is gone, whatever the sources carry and whenever runs and
\* maintenance happen.
THEOREM WithdrawnConsistent == Spec => []WithdrawnIsConsistent
  <1>1. IInv => WithdrawnIsConsistent
    BY DEF IInv
  <1>2. QED
    BY <1>1, InitIInv, NextIInv, PTL DEF Spec

-----------------------------------------------------------------------------
(* What the facts of a row can be. *)

PayIsOne(known) ==
    \/ known["salary_min"] = NoFact /\ known["salary_max"] = NoFact
    \/ \E p \in Postings : /\ p["salary_min"] = known["salary_min"]
                           /\ p["salary_max"] = known["salary_max"]

\* Ageing and expiring touch no fact.
LEMMA AgedFacts ==
    ASSUME NEW row \in JobRows
    PROVE  OlderJob(row).facts = row.facts /\ AfterExpiry(row).facts = row.facts
  BY DEF OlderJob, AfterExpiry, ExpiredJob, JobRows

\* A pay range is written over whole or not at all.
LEMMA WrittenPay ==
    ASSUME NEW old, PayIsOne(old), NEW new, NEW j \in Jobs, Representative(j, new)
    PROVE  PayIsOne(WrittenFacts(old, new))
  <1> DEFINE w == WrittenFacts(old, new)
  <1>1. {"salary_min", "salary_max"} \subseteq MaterialFields
    BY DEF MaterialFields, PayFields
  <1>2. \A f \in {"salary_min", "salary_max"} :
          /\ Overwrites(new, f) <=> new["salary_min"] # NoFact
          /\ InColumn(f, new[f]) = new[f]
    BY DEF Overwrites, OverwrittenFields, FillFields, PayFields, InColumn, ClampedFields
  <1>3. CASE new["salary_min"] # NoFact
    <2>1. w["salary_min"] = new["salary_min"] /\ w["salary_max"] = new["salary_max"]
      BY <1>1, <1>2, <1>3 DEF WrittenFacts
    <2>2. QED
      BY <2>1 DEF PayIsOne, Representative
  <1>4. CASE new["salary_min"] = NoFact
    <2>1. w["salary_min"] = old["salary_min"] /\ w["salary_max"] = old["salary_max"]
      BY <1>1, <1>2, <1>4 DEF WrittenFacts
    <2>2. QED
      BY <2>1 DEF PayIsOne
  <1>5. QED
    BY <1>3, <1>4

\* The pay range of a row is always one that a single source stated.
THEOREM PayRangeKept == Spec => []PayRangeFromOneSource
  <1>1. Init => PayRangeFromOneSource
    BY DEF Init, PayRangeFromOneSource, Stored
  <1>2. IInv /\ PayRangeFromOneSource /\ [Next]_jobVars => PayRangeFromOneSource'
    <2> SUFFICES ASSUME IInv, PayRangeFromOneSource, [Next]_jobVars,
                        NEW j \in Jobs, job'[j] # NoJob
                 PROVE  PayIsOne(job'[j].facts)
      BY DEF PayRangeFromOneSource, Stored, PayIsOne
    <2>1. job[j] # NoJob => job[j] \in JobRows /\ PayIsOne(job[j].facts)
      BY DEF IInv, TypeOK, PayRangeFromOneSource, Stored, PayIsOne
    <2>2. CASE job'[j] = job[j]
      BY <2>1, <2>2
    <2>3. CASE Discovered(j)
      <3>1. PICK new : Representative(j, new) /\ job'[j] = NewJob(new)
        BY <2>3 DEF Discovered
      <3>2. PayIsOne(NoFacts)
        BY DEF PayIsOne, NoFacts, MaterialFields, PayFields
      <3>3. job'[j].facts = WrittenFacts(NoFacts, new)
        BY <3>1 DEF NewJob
      <3>4. QED
        BY <3>1, <3>2, <3>3, WrittenPay
    <2>4. CASE SeenAgain(j)
      <3>1. PICK new : Representative(j, new) /\ job'[j] = SightedJob(job[j], new)
        BY <2>4 DEF SeenAgain
      <3>2. job'[j].facts = WrittenFacts(job[j].facts, new)
        BY <3>1 DEF SightedJob
      <3>3. QED
        BY <2>1, <2>4, <3>1, <3>2, WrittenPay DEF SeenAgain
    <2>5. CASE Aged(j)
      BY <2>1, <2>5, AgedFacts DEF Aged
    <2>6. QED
      BY <2>2, <2>3, <2>4, <2>5, StepOfARow DEF IInv
  <1>3. QED
    BY <1>1, <1>2, InitIInv, NextIInv, PTL DEF Spec

\* What is flagged as a change is also written, if it fits: a field of the
\* representative that differs from a known one replaces it.
LEMMA ChangeIsWritten ==
    ASSUME NEW old \in Facts, NEW new \in Facts, MaterialChanges(old, new) # {},
           new["salary_max"] # NoFact => new["salary_min"] # NoFact,
           \A f \in ClampedFields : InColumn(f, new[f]) = new[f]
    PROVE  WrittenFacts(old, new) # old
  <1>1. PICK f \in MaterialFields : new[f] # NoFact /\ old[f] # new[f]
    BY DEF MaterialChanges
  <1>2. Overwrites(new, f)
    BY <1>1 DEF Overwrites, MaterialFields, FillFields, PayFields, OverwrittenFields
  <1>3. InColumn(f, new[f]) = new[f]
    BY DEF InColumn
  <1>4. WrittenFacts(old, new)[f] = new[f]
    BY <1>2, <1>3 DEF WrittenFacts
  <1>5. QED
    BY <1>1, <1>4

\* Where no listing of the job is too long for its columns, neither is what is
\* made of them.
LEMMA RepresentativeFits ==
    ASSUME NEW j \in Jobs, NEW new, Representative(j, new), ~TooLong(j)
    PROVE  /\ \A f \in ClampedFields : InColumn(f, new[f]) = new[f]
           /\ new["salary_max"] # NoFact => new["salary_min"] # NoFact
  <1>1. ClampedFields \subseteq MaterialFields
    BY DEF ClampedFields, MaterialFields, FillFields, OverwrittenFields
  <1> QED
    BY <1>1, PostingsAssumption DEF Representative, TooLong

\* A row becomes "updated" only when it is seen again, over facts that differ, and
\* then they change or were too long.
LEMMA UpdateChanges ==
    ASSUME IInv, [Next]_jobVars, NEW j \in Stored,
           job'[j].freshness = "updated", job[j].freshness # "updated"
    PROVE  job'[j].facts # job[j].facts \/ TooLong(j)
  <1> SUFFICES ASSUME ~TooLong(j) PROVE job'[j].facts # job[j].facts
    OBVIOUS
  <1>1. j \in Jobs /\ job[j] # NoJob /\ job[j] \in JobRows
    BY DEF Stored, IInv, TypeOK
  <1>2. ~Discovered(j) /\ job'[j] # job[j]
    BY <1>1 DEF Discovered
  <1>3. ~Aged(j)
    BY <1>1 DEF Aged, OlderJob, AfterExpiry, ExpiredJob, JobRows
  <1>4. SeenAgain(j)
    BY <1>1, <1>2, <1>3, StepOfARow DEF IInv
  <1>5. PICK new : Representative(j, new) /\ job'[j] = SightedJob(job[j], new)
    BY <1>4 DEF SeenAgain
  <1>6. /\ FreshnessAfter(job[j], new) = "updated"
        /\ job'[j].facts = WrittenFacts(job[j].facts, new)
    BY <1>5 DEF SightedJob
  <1>7. MaterialChanges(job[j].facts, new) # {}
    BY <1>6 DEF FreshnessAfter
  <1>8. /\ \A f \in ClampedFields : InColumn(f, new[f]) = new[f]
        /\ new["salary_max"] # NoFact => new["salary_min"] # NoFact
    BY <1>1, <1>5, RepresentativeFits
  <1>9. QED
    BY <1>1, <1>5, <1>6, <1>7, <1>8, ChangeIsWritten DEF Representative, JobRows

\* No row becomes "updated" unless a material fact of it changes in that step, so
\* an unchanged posting is never reported as updated twice; except for what a
\* source states at a length that its column cuts.
THEOREM UpdatesAreChanges == Spec => UpdateChangesAFact
  <1>1. IInv /\ [Next]_jobVars =>
          [\A j \in Stored :
              (job'[j].freshness = "updated" /\ job[j].freshness # "updated")
              => job'[j].facts # job[j].facts \/ TooLong(j)]_jobVars
    BY UpdateChanges
  <1>2. QED
    BY <1>1, InitIInv, NextIInv, PTL DEF Spec, UpdateChangesAFact

\* A known fact of these fields stays known through every sighting.
LEMMA FilledStays ==
    ASSUME NEW old, NEW new \in Facts, NEW f \in FillFields \cup {"salary_min"},
           old[f] # NoFact
    PROVE  WrittenFacts(old, new)[f] # NoFact
  <1>1. f \in MaterialFields
    BY DEF MaterialFields, FillFields, PayFields
  <1>2. Overwrites(new, f) => new[f] # NoFact
    BY DEF Overwrites, FillFields, PayFields, OverwrittenFields
  <1>3. InColumn(f, new[f]) = NoFact <=> new[f] = NoFact
    BY <1>1, InColumnType DEF Facts
  <1>4. QED
    BY <1>1, <1>2, <1>3 DEF WrittenFacts

\* Whichever sources answer in later runs, a location, a requirements text, a
\* deadline or a minimum pay once known is never lost.
THEOREM FilledFactsKept == Spec => FilledFactsStay
  <1>1. IInv /\ [Next]_jobVars =>
          [\A j \in Stored, f \in FillFields \cup {"salary_min"} :
              job[j].facts[f] # NoFact => job'[j].facts[f] # NoFact]_jobVars
    <2> SUFFICES ASSUME IInv, [Next]_jobVars, NEW j \in Stored,
                        NEW f \in FillFields \cup {"salary_min"},
                        job[j].facts[f] # NoFact
                 PROVE  job'[j].facts[f] # NoFact
      OBVIOUS
    <2>1. j \in Jobs /\ job[j] # NoJob /\ job[j] \in JobRows
      BY DEF Stored, IInv, TypeOK
    <2>2. CASE job'[j] = job[j]
      BY <2>2
    <2>3. CASE SeenAgain(j)
      <3>1. PICK new \in Facts : job'[j] = SightedJob(job[j], new)
        BY <2>3 DEF SeenAgain, Representative
      <3>2. job'[j].facts = WrittenFacts(job[j].facts, new)
        BY <3>1 DEF SightedJob
      <3>3. QED
        BY <3>2, FilledStays
    <2>4. CASE Aged(j)
      BY <2>1, <2>4, AgedFacts DEF Aged
    <2>5. QED
      BY <2>1, <2>2, <2>3, <2>4, StepOfARow DEF IInv, Discovered
  <1>2. QED
    BY <1>1, InitIInv, NextIInv, PTL DEF Spec, FilledFactsStay

\* A run reposts only what an earlier transaction withdrew: the columns agree,
\* so the status test of the repost adds nothing to the is_active test.
THEOREM RepostsFollowWithdrawals == Spec => RepostFollowsWithdrawal
  <1>1. IInv /\ [Next]_jobVars =>
          [\A j \in Stored :
              (job'[j].freshness = "reposted" /\ job[j].freshness # "reposted")
              => ~job[j].is_active]_jobVars
    <2> SUFFICES ASSUME IInv, [Next]_jobVars, NEW j \in Stored,
                        job'[j].freshness = "reposted", job[j].freshness # "reposted"
                 PROVE  ~job[j].is_active
      OBVIOUS
    <2>1. j \in Jobs /\ job[j] # NoJob /\ job[j] \in JobRows
      BY DEF Stored, IInv, TypeOK
    <2>2. ~Discovered(j) /\ job'[j] # job[j]
      BY <2>1 DEF Discovered
    <2>3. ~Aged(j)
      BY <2>1 DEF Aged, OlderJob, AfterExpiry, ExpiredJob, JobRows
    <2>4. PICK new : job'[j] = SightedJob(job[j], new)
      BY <2>1, <2>2, <2>3, StepOfARow DEF IInv, SeenAgain
    <2>5. FreshnessAfter(job[j], new) = "reposted"
      BY <2>4 DEF SightedJob
    <2>6. WasExpired(job[j])
      BY <2>5 DEF FreshnessAfter
    <2>7. QED
      BY <2>6 DEF WasExpired, IInv, WithdrawnIsConsistent
  <1>2. QED
    BY <1>1, InitIInv, NextIInv, PTL DEF Spec, RepostFollowsWithdrawal

-----------------------------------------------------------------------------
(***************************************************************************)
(* What holds of the digest for every number of users, jobs, sources and   *)
(* overlapping runs, with or without crashes.  The argument is about one   *)
(* alert <<u, j>>: once heard it stays heard, only a heard alert is        *)
(* marked, and only a marked one is recorded.                              *)
(***************************************************************************)

Heard(u, j) == told[u][j].seen # "never"

-----------------------------------------------------------------------------
(* The jobs table. *)

\* Whatever a digest does to the jobs table is a step of Persistence.
LEMMA DigestStepIsJobStep == [DigestNext]_digestVars => [Next]_jobVars
  BY DEF DigestNext, digestVars, Next, jobVars, StartRun, SearchOnly, SkipEmpty,
         Select, Deliver, NotSent, Mark, NextUser, Commit, RollBack, SetStatus,
         DayPasses, Upkeep, World

\* Runs that notify, overlap and fail leave the jobs table as the persistence
\* model describes it, so all that is proved there holds here.
THEOREM DigestKeepsTable == DigestSpec => Spec
  <1>1. DigestInit => Init
    BY DEF DigestInit
  <1> QED
    BY <1>1, DigestStepIsJobStep, PTL DEF DigestSpec, Spec

-----------------------------------------------------------------------------
(* The invariant behind the ledger. *)

TrackerType ==
    /\ state \in [Users -> [Jobs -> States]]
    /\ run \in [Runs -> RunStates]
    /\ told \in [Users -> [Jobs -> Told]]

\* A run has a user at hand exactly while there is a mail for them, which is
\* within the cap; and once it is delivered they have heard of all its jobs.
MailAtHand ==
    \A r \in Runs :
        /\ run[r].pc \in {"sending", "delivered"} =>
              run[r].user \in Users /\ Cardinality(run[r].jobs) =< Cap
        /\ run[r].pc = "delivered" => \A j \in run[r].jobs : Heard(run[r].user, j)

LInv == TrackerType /\ MailAtHand /\ NotifiedWasTold

\* Time, in days since the last alert, stays within its bound.
LEMMA CountStays ==
    ASSUME NEW n \in 0 .. CooldownDays
    PROVE  (IF n < CooldownDays THEN n + 1 ELSE n) \in 0 .. CooldownDays
  BY DigestAssumption

\* Before the first run nobody has heard of anything.
LEMMA InitLInv == DigestInit => LInv
  <1> SUFFICES ASSUME DigestInit PROVE LInv
    OBVIOUS
  <1>1. 0 \in 0 .. CooldownDays
    BY DigestAssumption
  <1>2. TrackerType
    BY <1>1 DEF DigestInit, TrackerType, States, RunStates, Told, IdleRun, JobStatus
  <1>3. MailAtHand /\ NotifiedWasTold
    BY DEF DigestInit, MailAtHand, NotifiedWasTold, IdleRun
  <1> QED
    BY <1>2, <1>3 DEF LInv

-----------------------------------------------------------------------------
(* Types. *)

\* A search run marks what it changed as stale news, and nothing more.
LEMMA ContentMovesType ==
    ASSUME TrackerType, ContentMoves
    PROVE  /\ told' \in [Users -> [Jobs -> Told]]
           /\ \A u \in Users, j \in Jobs : Heard(u, j)' <=> Heard(u, j)
  <1> DEFINE New(u, j) == IF Changes(j) /\ told[u][j].seen # "never"
                          THEN [told[u][j] EXCEPT !.seen = "stale"]
                          ELSE IF SeenAnotherDay(j) /\ told[u][j].seen = "flagged"
                          THEN [told[u][j] EXCEPT !.seen = "settled"]
                          ELSE told[u][j]
  <1>1. told' = [u \in Users |-> [j \in Jobs |-> New(u, j)]]
    BY DEF ContentMoves
  <1>2. ASSUME NEW u \in Users, NEW j \in Jobs
        PROVE  New(u, j) \in Told /\ (New(u, j).seen # "never" <=> Heard(u, j))
    <2>1. told[u][j] \in Told
      BY DEF TrackerType
    <2> QED
      BY <2>1 DEF Told, Heard
  <1> HIDE DEF New
  <1> QED
    BY <1>1, <1>2 DEF Heard

\* Putting mails on record changes neither who has heard of what nor when.
LEMMA PutOnRecordType ==
    ASSUME TrackerType, NEW r \in Runs, PutOnRecord(r)
    PROVE  /\ told' \in [Users -> [Jobs -> Told]]
           /\ \A u \in Users, j \in Jobs : /\ Heard(u, j)' <=> Heard(u, j)
                                          /\ told'[u][j].quiet = told[u][j].quiet
  <1> DEFINE New(u, j) == IF <<u, j>> \in run[r].marks /\ told[u][j].seen = "sent"
                          THEN [told[u][j] EXCEPT !.seen = IF job[j].freshness = "updated"
                                                           THEN "flagged" ELSE "settled"]
                          ELSE told[u][j]
  <1>1. told' = [u \in Users |-> [j \in Jobs |-> New(u, j)]]
    BY DEF PutOnRecord
  <1>2. ASSUME NEW u \in Users, NEW j \in Jobs
        PROVE  /\ New(u, j) \in Told
               /\ New(u, j).seen # "never" <=> Heard(u, j)
               /\ New(u, j).quiet = told[u][j].quiet
    <2>1. told[u][j] \in Told
      BY DEF TrackerType
    <2> QED
      BY <2>1 DEF Told, Heard
  <1> HIDE DEF New
  <1> QED
    BY <1>1, <1>2 DEF Heard

\* Types survive every step.
LEMMA TypeStays == LInv /\ [DigestNext]_digestVars => TrackerType'
  <1> SUFFICES ASSUME LInv, [DigestNext]_digestVars PROVE TrackerType'
    OBVIOUS
  <1> USE DEF LInv
  <1>0. CASE UNCHANGED digestVars
    BY <1>0 DEF TrackerType, digestVars
  <1>1. CASE \E r \in Runs, dry \in BOOLEAN : StartRun(r, dry)
    <2> PICK r \in Runs, dry \in BOOLEAN : StartRun(r, dry)
      BY <1>1
    <2>1. told' \in [Users -> [Jobs -> Told]]
      BY ContentMovesType DEF StartRun
    <2>2. run' \in [Runs -> RunStates]
      BY DEF StartRun, TrackerType, RunStates, IdleRun
    <2> QED
      BY <2>1, <2>2 DEF TrackerType, StartRun
  <1>2. CASE SearchOnly
    BY <1>2, ContentMovesType DEF SearchOnly, TrackerType
  <1>3. CASE \E r \in Runs, u \in Users : SkipEmpty(r, u)
    <2> PICK r \in Runs, u \in Users : SkipEmpty(r, u)
      BY <1>3
    <2>1. run[r] \in RunStates
      BY DEF TrackerType
    <2>2. [run[r] EXCEPT !.todo = @ \ {u}] \in RunStates
      BY <2>1 DEF RunStates
    <2>3. run' = [run EXCEPT ![r] = [run[r] EXCEPT !.todo = @ \ {u}]]
      BY DEF SkipEmpty
    <2> QED
      BY <2>2, <2>3 DEF SkipEmpty, TrackerType
  <1>4. CASE \E r \in Runs, u \in Users : Select(r, u)
    <2> PICK r \in Runs, u \in Users : Select(r, u)
      BY <1>4
    <2> PICK urgent \in SUBSET Closing(u) : \E B \in Batches(u, urgent) :
               run' = [run EXCEPT ![r].pc = "sending", ![r].todo = @ \ {u},
                                  ![r].user = u, ![r].jobs = B]
      BY DEF Select
    <2> PICK B \in Batches(u, urgent) :
               run' = [run EXCEPT ![r].pc = "sending", ![r].todo = @ \ {u},
                                  ![r].user = u, ![r].jobs = B]
      BY DEF Select
    <2>1. B \in SUBSET Jobs
      BY DEF Batches, Selection, Candidates, Stored
    <2>2. run[r] \in RunStates
      BY DEF TrackerType
    <2>3. run' \in [Runs -> RunStates]
      BY <2>1, <2>2 DEF TrackerType, RunStates
    <2> QED
      BY <2>3 DEF TrackerType, Select
  <1>5. CASE \E r \in Runs : Deliver(r)
    <2> PICK r \in Runs : Deliver(r)
      BY <1>5
    <2>1. [seen |-> "sent", quiet |-> 0] \in Told
      BY DigestAssumption DEF Told
    <2>2. told' \in [Users -> [Jobs -> Told]]
      BY <2>1 DEF Deliver, TrackerType
    <2>3. run' \in [Runs -> RunStates]
      <3>1. [run[r] EXCEPT !.pc = "delivered"] \in RunStates
        BY DEF TrackerType, RunStates
      <3> QED
        BY <3>1 DEF Deliver, TrackerType
    <2> QED
      BY <2>2, <2>3 DEF Deliver, TrackerType
  <1>6. CASE \E r \in Runs : NotSent(r) \/ Mark(r)
    <2> PICK r \in Runs : NotSent(r) \/ Mark(r)
      BY <1>6
    <2>1. run[r] \in RunStates /\ (run[r].pc = "delivered" => run[r].user \in Users)
      BY DEF TrackerType, MailAtHand
    <2>2. PICK marks \in SUBSET (Users \X Jobs) : NextUser(r, marks)
      BY <2>1 DEF NotSent, Mark, RunStates
    <2>3. run' \in [Runs -> RunStates]
      BY <2>1, <2>2 DEF NextUser, TrackerType, RunStates
    <2> QED
      BY <2>2, <2>3 DEF NextUser, TrackerType
  <1>7. CASE \E r \in Runs : Commit(r)
    <2> PICK r \in Runs : Commit(r)
      BY <1>7
    <2>1. ASSUME NEW u \in Users, NEW j \in Jobs
          PROVE  /\ state[u][j] \in States
                 /\ [state[u][j] EXCEPT !.notified = TRUE, !.since = 0] \in States
      <3>1. state[u][j] \in States /\ 0 \in 0 .. CooldownDays
        BY DigestAssumption DEF TrackerType
      <3> QED
        BY <3>1 DEF States
    <2>2. state' \in [Users -> [Jobs -> States]]
      BY <2>1 DEF Commit
    <2>3. run' \in [Runs -> RunStates]
      BY DEF Commit, TrackerType, RunStates, IdleRun
    <2>4. told' \in [Users -> [Jobs -> Told]]
      BY PutOnRecordType DEF Commit
    <2> QED
      BY <2>2, <2>3, <2>4 DEF TrackerType
  <1>8. CASE \E r \in Runs : RollBack(r)
    BY <1>8 DEF RollBack, TrackerType, RunStates, IdleRun
  <1>9. CASE \E u \in Users, j \in Jobs, status \in Decisions : SetStatus(u, j, status)
    <2> PICK u \in Users, j \in Jobs, status \in Decisions : SetStatus(u, j, status)
      BY <1>9
    <2>1. [state[u][j] EXCEPT !.status = status] \in States
      <3>1. status \in JobStatus
        BY DigestAssumption
      <3>2. state[u][j] \in States
        BY DEF TrackerType
      <3> QED
        BY <3>1, <3>2 DEF States
    <2>2. state' \in [Users -> [Jobs -> States]]
      BY <2>1 DEF SetStatus, TrackerType
    <2> QED
      BY <2>2 DEF SetStatus, TrackerType
  <1>10. CASE DayPasses
    <2>1. ASSUME NEW u \in Users, NEW j \in Jobs
          PROVE  /\ [state[u][j] EXCEPT
                        !.since = IF @ < CooldownDays THEN @ + 1 ELSE @] \in States
                 /\ [told[u][j] EXCEPT
                        !.quiet = IF @ < CooldownDays THEN @ + 1 ELSE @] \in Told
      <3>1. state[u][j] \in States /\ told[u][j] \in Told
        BY DEF TrackerType
      <3> QED
        BY <3>1, CountStays DEF States, Told
    <2> QED
      BY <1>10, <2>1 DEF DayPasses, TrackerType
  <1>11. CASE Upkeep \/ World
    BY <1>11 DEF Upkeep, World, TrackerType
  <1> QED
    BY <1>0, <1>1, <1>2, <1>3, <1>4, <1>5, <1>6, <1>7, <1>8, <1>9, <1>10, <1>11
       DEF DigestNext

-----------------------------------------------------------------------------
(* Alerts. *)

\* What a user has heard of they have heard of for good.
LEMMA HeardStays ==
    ASSUME LInv, [DigestNext]_digestVars, NEW u \in Users, NEW j \in Jobs, Heard(u, j)
    PROVE  Heard(u, j)'
  <1> USE DEF Heard
  <1>1. CASE \E r \in Runs, dry \in BOOLEAN : StartRun(r, dry)
    BY <1>1, ContentMovesType DEF StartRun, LInv
  <1>2. CASE SearchOnly
    BY <1>2, ContentMovesType DEF SearchOnly, LInv
  <1>3. CASE \E r \in Runs : Deliver(r)
    <2> PICK r \in Runs : Deliver(r)
      BY <1>3
    <2>1. told'[u] = [told EXCEPT ![run[r].user] =
                        [k \in Jobs |-> IF k \in run[r].jobs
                                        THEN [seen |-> "sent", quiet |-> 0]
                                        ELSE @[k]]][u]
      BY DEF Deliver
    <2>2. told'[u][j] = told[u][j] \/ told'[u][j] = [seen |-> "sent", quiet |-> 0]
      BY <2>1 DEF LInv, TrackerType
    <2> QED
      BY <2>2
  <1>4. CASE DayPasses
    <2>1. told[u][j] \in Told
      BY DEF LInv, TrackerType
    <2>2. told'[u][j] = [told[u][j] EXCEPT
                           !.quiet = IF @ < CooldownDays THEN @ + 1 ELSE @]
      BY <1>4 DEF DayPasses
    <2> QED
      BY <2>1, <2>2 DEF Told
  <1>5. CASE \E r \in Runs : Commit(r)
    BY <1>5, PutOnRecordType DEF Commit, LInv
  <1>6. CASE UNCHANGED told
    BY <1>6
  <1> QED
    BY <1>1, <1>2, <1>3, <1>4, <1>5, <1>6 DEF DigestNext, SkipEmpty, Select, NotSent, Mark,
       NextUser, RollBack, SetStatus, Upkeep, World, digestVars

\* A run that is over, or has just begun, holds no mail and no mark.
LEMMA RunAtRest ==
    ASSUME run \in [Runs -> RunStates], NEW q \in Runs, NEW r \in Runs,
           \/ \E dry \in BOOLEAN : StartRun(r, dry)
           \/ Commit(r) \/ RollBack(r)
    PROVE  \/ run'[q] = run[q]
           \/ run'[q].pc \in {"idle", "users"} /\ run'[q].marks = {}
  <1>1. /\ IdleRun.pc = "idle" /\ IdleRun.marks = {}
        /\ \A dry \in BOOLEAN :
              LET begun == [IdleRun EXCEPT !.pc = "users", !.dry = dry, !.todo = Users]
              IN  begun.pc = "users" /\ begun.marks = {}
    BY DEF IdleRun
  <1>2. CASE Commit(r) \/ RollBack(r)
    <2>1. run' = [run EXCEPT ![r] = IdleRun]
      BY <1>2 DEF Commit, RollBack
    <2> QED
      BY <1>1, <2>1
  <1>3. CASE \E dry \in BOOLEAN : StartRun(r, dry)
    <2> PICK dry \in BOOLEAN : StartRun(r, dry)
      BY <1>3
    <2>1. run' = [run EXCEPT ![r] = [IdleRun EXCEPT !.pc = "users", !.dry = dry,
                                                    !.todo = Users]]
      BY DEF StartRun
    <2> QED
      BY <1>1, <2>1
  <1> QED
    BY <1>2, <1>3

\* A mail in hand stays within the cap, and delivering it is hearing of it.
LEMMA MailStays == LInv /\ [DigestNext]_digestVars => MailAtHand'
  <1> SUFFICES ASSUME LInv, [DigestNext]_digestVars, NEW q \in Runs
               PROVE  /\ run'[q].pc \in {"sending", "delivered"} =>
                            run'[q].user \in Users /\ Cardinality(run'[q].jobs) =< Cap
                      /\ run'[q].pc = "delivered" =>
                            \A j \in run'[q].jobs : told'[run'[q].user][j].seen # "never"
    BY DEF MailAtHand, Cap, Heard
  <1>0. run \in [Runs -> RunStates] /\ run'[q] \in RunStates /\ run[q] \in RunStates
    BY TypeStays DEF LInv, TrackerType
  <1>1. CASE run'[q] = run[q]
    <2>1. run[q].pc = "delivered" =>
            \A j \in run[q].jobs : run[q].user \in Users /\ j \in Jobs
      BY <1>0 DEF LInv, MailAtHand, RunStates
    <2> QED
      BY <1>1, <2>1, HeardStays DEF LInv, MailAtHand, Heard
  <1>2. CASE run'[q].pc \in {"idle", "users"}
    BY <1>2
  <1>3. CASE \E u \in Users : Select(q, u)
    <2> PICK u \in Users : Select(q, u)
      BY <1>3
    <2> PICK urgent \in SUBSET Closing(u) : \E B \in Batches(u, urgent) :
               run' = [run EXCEPT ![q].pc = "sending", ![q].todo = @ \ {u},
                                  ![q].user = u, ![q].jobs = B]
      BY DEF Select
    <2> PICK B \in Batches(u, urgent) :
               run' = [run EXCEPT ![q].pc = "sending", ![q].todo = @ \ {u},
                                  ![q].user = u, ![q].jobs = B]
      OBVIOUS
    <2>1. Cardinality(B) =< Cap
      BY DEF Batches
    <2>2. run'[q].pc = "sending" /\ run'[q].user = u /\ run'[q].jobs = B
      BY <1>0 DEF RunStates
    <2> QED
      BY <2>1, <2>2
  <1>4. CASE Deliver(q)
    <2>1. /\ run'[q].user = run[q].user /\ run'[q].jobs = run[q].jobs
          /\ run[q].pc = "sending"
      BY <1>0, <1>4 DEF Deliver, RunStates
    <2>2. run[q].user \in Users /\ Cardinality(run[q].jobs) =< Cap
      BY <2>1 DEF LInv, MailAtHand
    <2>3. ASSUME NEW j \in run[q].jobs
          PROVE  told'[run[q].user][j].seen = "sent"
      <3>1. j \in Jobs
        BY <1>0 DEF RunStates
      <3> QED
        BY <1>4, <2>2, <3>1 DEF Deliver, LInv, TrackerType
    <2> QED
      BY <2>1, <2>2, <2>3
  <1>5. ASSUME NEW r \in Runs, \/ \E dry \in BOOLEAN : StartRun(r, dry)
                               \/ \E u \in Users : SkipEmpty(r, u)
                               \/ NotSent(r) \/ Mark(r) \/ Commit(r) \/ RollBack(r)
        PROVE  run'[q] = run[q] \/ run'[q].pc \in {"idle", "users"}
    <2>1. CASE (\E dry \in BOOLEAN : StartRun(r, dry)) \/ Commit(r) \/ RollBack(r)
      BY <1>0, <2>1, RunAtRest
    <2>2. CASE \E u \in Users : SkipEmpty(r, u)
      BY <1>0, <2>2 DEF SkipEmpty, RunStates
    <2>3. CASE NotSent(r) \/ Mark(r)
      BY <1>0, <2>3 DEF NotSent, Mark, NextUser, RunStates
    <2> QED
      BY <1>5, <2>1, <2>2, <2>3
  <1>6. CASE \E r \in Runs \ {q} : Deliver(r) \/ \E u \in Users : Select(r, u)
    BY <1>0, <1>1, <1>6 DEF Deliver, Select
  <1>7. CASE UNCHANGED run
    BY <1>1, <1>7
  <1> QED
    BY <1>1, <1>2, <1>3, <1>4, <1>5, <1>6, <1>7 DEF DigestNext, SearchOnly, SetStatus,
       DayPasses, Upkeep, World, digestVars

\* A mark is new only if a mail was delivered, and so is a record.
LEMMA MarkedWasTold ==
    ASSUME LInv, [DigestNext]_digestVars, NEW u \in Users, NEW j \in Jobs
    PROVE  /\ state'[u][j].notified =>
                 state[u][j].notified \/ \E r \in Runs : <<u, j>> \in run[r].marks
           /\ \A q \in Runs : <<u, j>> \in run'[q].marks =>
                 <<u, j>> \in run[q].marks \/ Heard(u, j)
  <1>0. /\ run \in [Runs -> RunStates] /\ run' \in [Runs -> RunStates]
        /\ state \in [Users -> [Jobs -> States]]
    BY TypeStays DEF LInv, TrackerType
  <1>1. state'[u][j].notified =>
          state[u][j].notified \/ \E r \in Runs : <<u, j>> \in run[r].marks
    <2>1. CASE \E r \in Runs : Commit(r)
      <3> PICK r \in Runs : Commit(r)
        BY <2>1
      <3>1. <<u, j>> \notin run[r].marks => state'[u][j] = state[u][j]
        BY DEF Commit
      <3> QED
        BY <3>1
    <2>2. CASE \E v \in Users, k \in Jobs, status \in Decisions : SetStatus(v, k, status)
      <3> PICK v \in Users, k \in Jobs, status \in Decisions : SetStatus(v, k, status)
        BY <2>2
      <3>1. state' = [state EXCEPT ![v][k] = [state[v][k] EXCEPT !.status = status]]
        BY DEF SetStatus
      <3>2. [state[v][k] EXCEPT !.status = status].notified = state[v][k].notified
        BY <1>0 DEF States
      <3>3. state'[u][j] = state[u][j] \/ state'[u][j].notified = state[u][j].notified
        BY <1>0, <3>1, <3>2
      <3> QED
        BY <3>3
    <2>3. CASE DayPasses
      <3>1. state'[u][j] = [state[u][j] EXCEPT
                              !.since = IF @ < CooldownDays THEN @ + 1 ELSE @]
        BY <2>3 DEF DayPasses
      <3>2. state[u][j] \in States
        BY <1>0
      <3> QED
        BY <3>1, <3>2 DEF States
    <2>4. CASE UNCHANGED state
      BY <2>4
    <2> QED
      BY <2>1, <2>2, <2>3, <2>4 DEF DigestNext, StartRun, SearchOnly, SkipEmpty,
         Select, Deliver, NotSent, Mark, NextUser, RollBack, Upkeep, World, digestVars
  <1>2. ASSUME NEW q \in Runs, <<u, j>> \in run'[q].marks
        PROVE  <<u, j>> \in run[q].marks \/ Heard(u, j)
    <2>1. CASE run'[q].marks = run[q].marks \/ run'[q].marks = {}
      BY <1>2, <2>1
    <2>2. CASE Mark(q)
      <3>1. run'[q].marks = run[q].marks \cup ({run[q].user} \X run[q].jobs)
        BY <1>0, <2>2 DEF Mark, NextUser, RunStates
      <3>2. run[q].pc = "delivered"
        BY <2>2 DEF Mark
      <3> QED
        BY <1>2, <3>1, <3>2 DEF LInv, MailAtHand
    <2>3. ASSUME NEW r \in Runs,
                 (\E dry \in BOOLEAN : StartRun(r, dry)) \/ Commit(r) \/ RollBack(r)
          PROVE  run'[q].marks = run[q].marks \/ run'[q].marks = {}
      BY <1>0, <2>3, RunAtRest
    <2>4. ASSUME NEW r \in Runs, NEW v \in Users, SkipEmpty(r, v) \/ Select(r, v)
          PROVE  run'[q].marks = run[q].marks
      BY <1>0, <2>4 DEF SkipEmpty, Select, RunStates
    <2>5. ASSUME NEW r \in Runs, Deliver(r) \/ NotSent(r) \/ (r # q /\ Mark(r))
          PROVE  run'[q].marks = run[q].marks
      BY <1>0, <2>5 DEF Deliver, NotSent, Mark, NextUser, RunStates
    <2>6. CASE UNCHANGED run
      BY <2>1, <2>6
    <2> QED
      BY <2>1, <2>2, <2>3, <2>4, <2>5, <2>6 DEF DigestNext, SearchOnly,
         SetStatus, DayPasses, Upkeep, World, digestVars
  <1> QED
    BY <1>1, <1>2

\* The invariant survives every step.
LEMMA NextLInv == LInv /\ [DigestNext]_digestVars => LInv'
  <1> SUFFICES ASSUME LInv, [DigestNext]_digestVars PROVE LInv'
    OBVIOUS
  <1>1. ASSUME NEW u \in Users, NEW j \in Jobs,
               state'[u][j].notified \/ \E r \in Runs : <<u, j>> \in run'[r].marks
        PROVE  Heard(u, j)'
    BY <1>1, MarkedWasTold, HeardStays DEF LInv, NotifiedWasTold, Heard
  <1>2. NotifiedWasTold'
    BY <1>1 DEF NotifiedWasTold, Heard
  <1> QED
    BY <1>2, TypeStays, MailStays DEF LInv

\* Only a delivery and a commit change what is heard of and what is on record.
LEMMA OtherStepsAreQuiet ==
    ASSUME LInv, [DigestNext]_digestVars, \A r \in Runs : ~Deliver(r) /\ ~Commit(r),
           NEW u \in Users, NEW j \in Jobs
    PROVE  /\ Heard(u, j)' <=> Heard(u, j)
           /\ state'[u][j].notified = state[u][j].notified
  <1>0. state[u][j] \in States /\ told[u][j] \in Told
    BY DEF LInv, TrackerType
  <1>1. CASE UNCHANGED <<state, told>>
    BY <1>1 DEF Heard
  <1>2. CASE SearchOnly \/ \E r \in Runs, dry \in BOOLEAN : StartRun(r, dry)
    <2>1. ContentMoves /\ UNCHANGED state
      BY <1>2 DEF SearchOnly, StartRun
    <2> QED
      BY <2>1, ContentMovesType DEF LInv
  <1>3. CASE \E v \in Users, k \in Jobs, status \in Decisions : SetStatus(v, k, status)
    <2> PICK v \in Users, k \in Jobs, status \in Decisions : SetStatus(v, k, status)
      BY <1>3
    <2>1. state' = [state EXCEPT ![v][k] = [state[v][k] EXCEPT !.status = status]]
      BY DEF SetStatus
    <2>2. [state[v][k] EXCEPT !.status = status].notified = state[v][k].notified
      BY DEF LInv, TrackerType, States
    <2>3. state'[u][j] = state[u][j] \/ state'[u][j].notified = state[u][j].notified
      BY <2>1, <2>2 DEF LInv, TrackerType
    <2> QED
      BY <2>3 DEF SetStatus, Heard
  <1>4. CASE DayPasses
    <2>1. /\ state'[u][j] = [state[u][j] EXCEPT
                               !.since = IF @ < CooldownDays THEN @ + 1 ELSE @]
          /\ told'[u][j] = [told[u][j] EXCEPT
                              !.quiet = IF @ < CooldownDays THEN @ + 1 ELSE @]
      BY <1>4 DEF DayPasses
    <2> QED
      BY <1>0, <2>1 DEF States, Told, Heard
  <1> QED
    BY <1>1, <1>2, <1>3, <1>4 DEF DigestNext, SkipEmpty, Select, NotSent, Mark,
       NextUser, RollBack, Upkeep, World, digestVars

-----------------------------------------------------------------------------
(* Theorems. *)

\* The invariant holds of every behaviour.
LEMMA LedgerInvariant == DigestSpec => []LInv
  BY InitLInv, NextLInv, PTL DEF DigestSpec

\* The jobs table, the trackers, the runs and the history are well typed.
THEOREM DigestTypeCorrect == DigestSpec => []DigestTypeOK
  <1>1. TypeOK /\ LInv => DigestTypeOK
    BY DEF DigestTypeOK, LInv, TrackerType
  <1> QED
    BY <1>1, DigestKeepsTable, TypeCorrect, LedgerInvariant, PTL

\* Nothing is on record, or about to be committed, as notified of which no mail
\* went out: whatever is refused, rehearsed, overlapped or rolled back.
THEOREM NotifiedOnlyWhatWasTold == DigestSpec => []NotifiedWasTold
  <1>1. LInv => NotifiedWasTold
    BY DEF LInv
  <1> QED
    BY <1>1, LedgerInvariant, PTL

\* A digest run, however it ends, is a sequence of sends and records of the
\* ledger: the transaction that spans all users refines one of single mails.
THEOREM DigestKeepsLedger == DigestSpec => ImplementsLedger
  <1> DEFINE delivered == {w \in Users \X Jobs : told[w[1]][w[2]].seen # "never"}
             recorded == {w \in Users \X Jobs : state[w[1]][w[2]].notified}
  <1>1. DigestInit => Ledger!LedgerInit
    BY DEF DigestInit, Ledger!LedgerInit
  <1>2. LInv /\ LInv' /\ [DigestNext]_digestVars => [Ledger!LedgerNext]_(Ledger!ledgerVars)
    <2> SUFFICES ASSUME LInv, [DigestNext]_digestVars
                 PROVE  [Ledger!LedgerNext]_(Ledger!ledgerVars)
      OBVIOUS
    <2>1. CASE \E r \in Runs : Deliver(r)
      <3> PICK r \in Runs : Deliver(r)
        BY <2>1
      <3>1. /\ run[r].user \in Users /\ Cardinality(run[r].jobs) =< Cap
            /\ run[r].jobs \in SUBSET Jobs
        BY DEF Deliver, LInv, MailAtHand, TrackerType, RunStates
      <3>2. ASSUME NEW u \in Users, NEW j \in Jobs
            PROVE  told'[u][j].seen # "never" <=>
                     Heard(u, j) \/ (u = run[r].user /\ j \in run[r].jobs)
        BY <3>1 DEF Deliver, LInv, TrackerType, Heard
      <3>3. delivered' = delivered \cup ({run[r].user} \X run[r].jobs)
        BY <3>1, <3>2 DEF Heard
      <3>4. recorded' = recorded
        BY DEF Deliver
      <3>5. Ledger!Send(run[r].user, run[r].jobs)
        BY <3>3, <3>4 DEF Ledger!Send
      <3> QED
        BY <3>1, <3>5 DEF Ledger!LedgerNext, Ledger!Send
    <2>2. CASE \E r \in Runs : Commit(r)
      <3> PICK r \in Runs : Commit(r)
        BY <2>2
      <3>1. run[r].marks \in SUBSET (Users \X Jobs)
        BY DEF LInv, TrackerType, RunStates
      <3>2. run[r].marks \in SUBSET delivered
        BY <3>1 DEF LInv, NotifiedWasTold
      <3>3. ASSUME NEW u \in Users, NEW j \in Jobs
            PROVE  state'[u][j].notified <=>
                     state[u][j].notified \/ <<u, j>> \in run[r].marks
        <4>1. state[u][j] \in States
          BY DEF LInv, TrackerType
        <4>2. state'[u][j] = IF <<u, j>> \in run[r].marks
                             THEN [state[u][j] EXCEPT !.notified = TRUE, !.since = 0]
                             ELSE state[u][j]
          BY DEF Commit
        <4> QED
          BY <4>1, <4>2 DEF States
      <3>4. recorded' = recorded \cup run[r].marks
        BY <3>1, <3>3
      <3>5. delivered' = delivered
        BY PutOnRecordType DEF Commit, LInv, Heard
      <3>6. Ledger!Record(run[r].marks)
        BY <3>4, <3>5 DEF Ledger!Record
      <3> QED
        BY <3>2, <3>6 DEF Ledger!LedgerNext, Ledger!Record
    <2>3. CASE \A r \in Runs : ~Deliver(r) /\ ~Commit(r)
      <3>1. delivered' = delivered /\ recorded' = recorded
        BY <2>3, OtherStepsAreQuiet DEF Heard
      <3> QED
        BY <3>1 DEF Ledger!ledgerVars
    <2> QED
      BY <2>1, <2>2, <2>3
  <1> QED
    BY <1>1, <1>2, LedgerInvariant, PTL DEF DigestSpec, ImplementsLedger, Ledger!LedgerSpec

-----------------------------------------------------------------------------
(***************************************************************************)
(* The update cooldown, for every number of users, jobs and postings, when *)
(* search runs neither overlap nor fail.  What has to be shown is that     *)
(* the record a digest decides by, notified_at, is never older than the    *)
(* last mail: until it is written the mail is pending in the run's own     *)
(* transaction, and the run does not come back to the same user.           *)
(***************************************************************************)

Alone == ~Faults /\ \A r, q \in Runs : r = q

\* The tracker knows of the last mail about the job.
Remembered(u, j) ==
    \/ told[u][j].seen = "never"
    \/ state[u][j].notified /\ state[u][j].since =< told[u][j].quiet

\* The open transaction does.
Pending(u, j) ==
    \E r \in Runs : \/ <<u, j>> \in run[r].marks
                    \/ run[r].pc = "delivered" /\ run[r].user = u /\ j \in run[r].jobs

Rested(u, j) == told[u][j].seen = "never" \/ told[u][j].quiet >= CooldownDays

\* A run has not yet written anything about the users it still has to serve, and
\* the mail in its hands may be sent.
Tidy(r) ==
    /\ run[r].pc = "idle" => run[r].marks = {}
    /\ run[r].pc \in {"sending", "delivered"} => run[r].user \notin run[r].todo
    /\ \A u \in run[r].todo, j \in Jobs : <<u, j>> \notin run[r].marks
    /\ run[r].pc = "sending" => \A j \in run[r].jobs : Rested(run[r].user, j)

CInv ==
    /\ LInv
    /\ \A u \in Users, j \in Jobs : Remembered(u, j) \/ Pending(u, j)
    /\ \A r \in Runs : Tidy(r)

-----------------------------------------------------------------------------
(* What a step does to one alert. *)

\* A search run touches neither the clock of an alert nor whether it was sent.
LEMMA ContentMovesClock ==
    ASSUME TrackerType, ContentMoves, NEW u \in Users, NEW j \in Jobs
    PROVE  /\ told'[u][j].seen = "never" <=> told[u][j].seen = "never"
           /\ told'[u][j].quiet = told[u][j].quiet
  <1>1. told[u][j] \in Told
    BY DEF TrackerType
  <1>2. \/ told'[u][j] = told[u][j]
        \/ told'[u][j] = [told[u][j] EXCEPT !.seen = "stale"]
        \/ told'[u][j] = [told[u][j] EXCEPT !.seen = "settled"]
    BY DEF ContentMoves
  <1>3. told'[u][j].seen = "never" <=> told[u][j].seen = "never"
    BY ContentMovesType DEF Heard
  <1>4. told'[u][j].quiet = told[u][j].quiet
    BY <1>1, <1>2 DEF Told
  <1> QED
    BY <1>3, <1>4

\* A day moves both clocks of an alert alike.
LEMMA DayMovesBothClocks ==
    ASSUME TrackerType, DayPasses, NEW u \in Users, NEW j \in Jobs
    PROVE  /\ told'[u][j].seen = told[u][j].seen
           /\ state'[u][j].notified = state[u][j].notified
           /\ state[u][j].since =< told[u][j].quiet =>
                 state'[u][j].since =< told'[u][j].quiet
  <1>0. state[u][j] \in States /\ told[u][j] \in Told
    BY DEF TrackerType
  <1>1. /\ state'[u][j] = [state[u][j] EXCEPT
                             !.since = IF @ < CooldownDays THEN @ + 1 ELSE @]
        /\ told'[u][j] = [told[u][j] EXCEPT
                            !.quiet = IF @ < CooldownDays THEN @ + 1 ELSE @]
    BY DEF DayPasses
  <1>2. /\ state'[u][j].since = IF state[u][j].since < CooldownDays
                                THEN state[u][j].since + 1 ELSE state[u][j].since
        /\ state'[u][j].notified = state[u][j].notified
    BY <1>0, <1>1 DEF States
  <1>3. /\ told'[u][j].quiet = IF told[u][j].quiet < CooldownDays
                               THEN told[u][j].quiet + 1 ELSE told[u][j].quiet
        /\ told'[u][j].seen = told[u][j].seen
    BY <1>0, <1>1 DEF Told
  <1>4. state[u][j].since \in 0 .. CooldownDays /\ told[u][j].quiet \in 0 .. CooldownDays
    BY <1>0 DEF States, Told
  <1>5. state[u][j].since =< told[u][j].quiet =>
           state'[u][j].since =< told'[u][j].quiet
    BY <1>2, <1>3, <1>4, DigestAssumption
  <1> QED
    BY <1>2, <1>3, <1>5

\* A commit puts the clock of what it marks to zero.
LEMMA CommitRemembers ==
    ASSUME TrackerType, NEW r \in Runs, Commit(r), NEW u \in Users, NEW j \in Jobs,
           Remembered(u, j) \/ <<u, j>> \in run[r].marks
    PROVE  Remembered(u, j)'
  <1>0. state[u][j] \in States /\ told[u][j] \in Told
    BY DEF TrackerType
  <1>1. state'[u][j] = (IF <<u, j>> \in run[r].marks
                        THEN [state[u][j] EXCEPT !.notified = TRUE, !.since = 0]
                        ELSE state[u][j])
    BY DEF Commit
  <1>2. /\ Heard(u, j)' <=> Heard(u, j)
        /\ told'[u][j].quiet = told[u][j].quiet
    BY PutOnRecordType DEF Commit
  <1>3. /\ told'[u][j].seen = "never" <=> told[u][j].seen = "never"
        /\ told'[u][j].quiet = told[u][j].quiet
    BY <1>2 DEF Heard
  <1>4. CASE <<u, j>> \in run[r].marks
    <2>1. state'[u][j].notified /\ state'[u][j].since = 0
      BY <1>0, <1>1, <1>4 DEF States
    <2>2. 0 =< told[u][j].quiet
      BY <1>0, DigestAssumption DEF Told
    <2> QED
      BY <1>3, <2>1, <2>2 DEF Remembered
  <1>5. CASE <<u, j>> \notin run[r].marks
    <2>1. state'[u][j] = state[u][j]
      BY <1>1, <1>5
    <2> QED
      BY <1>3, <1>5, <2>1 DEF Remembered
  <1> QED
    BY <1>4, <1>5

\* Nothing but a delivery makes the tracker's record older than the last mail.
LEMMA RememberedStays ==
    ASSUME LInv, Alone, [DigestNext]_digestVars, \A r \in Runs : ~Deliver(r),
           NEW u \in Users, NEW j \in Jobs, Remembered(u, j)
    PROVE  Remembered(u, j)'
  <1>0. TrackerType
    BY DEF LInv
  <1>1. CASE UNCHANGED <<state, told>>
    BY <1>1 DEF Remembered
  <1>2. CASE SearchOnly \/ \E r \in Runs, dry \in BOOLEAN : StartRun(r, dry)
    <2>1. ContentMoves /\ UNCHANGED state
      BY <1>2 DEF SearchOnly, StartRun
    <2> QED
      BY <1>0, <2>1, ContentMovesClock DEF Remembered
  <1>3. CASE \E v \in Users, k \in Jobs, status \in Decisions : SetStatus(v, k, status)
    <2> PICK v \in Users, k \in Jobs, status \in Decisions : SetStatus(v, k, status)
      BY <1>3
    <2>1. state' = [state EXCEPT ![v][k] = [state[v][k] EXCEPT !.status = status]]
      BY DEF SetStatus
    <2>2. LET row == [state[v][k] EXCEPT !.status = status]
          IN  row.notified = state[v][k].notified /\ row.since = state[v][k].since
      BY <1>0 DEF TrackerType, States
    <2>3. \/ state'[u][j] = state[u][j]
          \/ /\ state'[u][j].notified = state[u][j].notified
             /\ state'[u][j].since = state[u][j].since
      BY <1>0, <2>1, <2>2 DEF TrackerType
    <2> QED
      BY <2>3 DEF SetStatus, Remembered
  <1>4. CASE DayPasses
    BY <1>0, <1>4, DayMovesBothClocks DEF Remembered
  <1>5. CASE \E r \in Runs : Commit(r)
    BY <1>0, <1>5, CommitRemembers
  <1> QED
    BY <1>1, <1>2, <1>3, <1>4, <1>5 DEF DigestNext, SkipEmpty, Select, NotSent, Mark,
       NextUser, RollBack, Upkeep, World, digestVars

\* What a run has written or is about to write is not lost before it commits.
LEMMA PendingStays ==
    ASSUME CInv, Alone, [DigestNext]_digestVars,
           NEW u \in Users, NEW j \in Jobs, Pending(u, j)
    PROVE  Remembered(u, j)' \/ Pending(u, j)'
  <1>0. TrackerType /\ run \in [Runs -> RunStates]
    BY DEF CInv, LInv, TrackerType
  <1> PICK q \in Runs : \/ <<u, j>> \in run[q].marks
                        \/ run[q].pc = "delivered" /\ run[q].user = u /\ j \in run[q].jobs
    BY DEF Pending
  <1>1. CASE \/ <<u, j>> \in run'[q].marks
             \/ run'[q].pc = "delivered" /\ run'[q].user = u /\ j \in run'[q].jobs
    BY <1>1 DEF Pending
  <1>2. CASE Commit(q)
    <2>1. <<u, j>> \in run[q].marks
      BY <1>2 DEF Commit
    <2> QED
      BY <1>0, <1>2, <2>1, CommitRemembers
  <1>3. CASE \E dry \in BOOLEAN : StartRun(q, dry)
    BY <1>3 DEF StartRun, CInv, Tidy
  <1>4. CASE Mark(q)
    <2>1. run'[q].marks = run[q].marks \cup ({run[q].user} \X run[q].jobs)
      BY <1>0, <1>4 DEF Mark, NextUser, RunStates
    <2> QED
      BY <1>1, <2>1
  <1>5. CASE Deliver(q) \/ NotSent(q) \/ \E v \in Users : SkipEmpty(q, v) \/ Select(q, v)
    <2>1. run[q].pc # "delivered"
      BY <1>5 DEF Alone, Deliver, NotSent, SkipEmpty, Select
    <2>2. CASE Deliver(q)
      <3>1. run'[q].marks = run[q].marks
        BY <1>0, <2>2 DEF Deliver, RunStates
      <3> QED
        BY <1>1, <2>1, <3>1
    <2>3. CASE NotSent(q)
      <3>1. run'[q].marks = run[q].marks
        BY <1>0, <2>3 DEF NotSent, NextUser, RunStates
      <3> QED
        BY <1>1, <2>1, <3>1
    <2>4. CASE \E v \in Users : SkipEmpty(q, v)
      <3>1. run'[q].marks = run[q].marks
        BY <1>0, <2>4 DEF SkipEmpty, RunStates
      <3> QED
        BY <1>1, <2>1, <3>1
    <2>5. CASE \E v \in Users : Select(q, v)
      <3>1. run'[q].marks = run[q].marks
        BY <1>0, <2>5 DEF Select, RunStates
      <3> QED
        BY <1>1, <2>1, <3>1
    <2> QED
      BY <1>5, <2>2, <2>3, <2>4, <2>5
  <1>6. CASE UNCHANGED run
    BY <1>1, <1>6
  <1> QED
    BY <1>1, <1>2, <1>3, <1>4, <1>5, <1>6 DEF Alone, DigestNext, SearchOnly, SetStatus,
       DayPasses, Upkeep, World, RollBack, digestVars

\* A delivery makes pending what it sends, and touches nothing else.
LEMMA DeliveryPends ==
    ASSUME CInv, NEW r \in Runs, Deliver(r), NEW u \in Users, NEW j \in Jobs,
           Remembered(u, j)
    PROVE  Remembered(u, j)' \/ Pending(u, j)'
  <1>0. /\ run \in [Runs -> RunStates] /\ told \in [Users -> [Jobs -> Told]]
        /\ run[r].user \in Users
    BY DEF CInv, LInv, TrackerType, MailAtHand, Deliver
  <1>1. CASE u = run[r].user /\ j \in run[r].jobs
    <2>1. run'[r].pc = "delivered" /\ run'[r].user = u /\ j \in run'[r].jobs
      BY <1>0, <1>1 DEF Deliver, RunStates
    <2> QED
      BY <2>1 DEF Pending
  <1>2. CASE ~(u = run[r].user /\ j \in run[r].jobs)
    <2>1. told'[u][j] = told[u][j] /\ state' = state
      BY <1>0, <1>2 DEF Deliver
    <2> QED
      BY <2>1 DEF Remembered
  <1> QED
    BY <1>1, <1>2

-----------------------------------------------------------------------------
(* Runs. *)

\* The only run there is holds nothing about a user it still has to serve, so
\* what it selects for that user has rested.
LEMMA SelectedIsRested ==
    ASSUME CInv, Alone, NEW r \in Runs, NEW u \in Users, Select(r, u),
           NEW j \in Selection(u)
    PROVE  Rested(u, j)
  <1>1. run[r].pc = "users" /\ u \in run[r].todo
    BY DEF Select
  <1>2. j \in Jobs
    BY DEF Selection, Candidates, Stored
  <1>3. ~Pending(u, j)
    BY <1>1, <1>2 DEF Alone, Pending, CInv, Tidy
  <1>4. Remembered(u, j)
    BY <1>2, <1>3 DEF CInv
  <1>5. state[u][j].notified => state[u][j].since >= CooldownDays
    BY DEF Selection, UpdateDue
  <1>6. state[u][j] \in States /\ told[u][j] \in Told
    BY <1>2 DEF CInv, LInv, TrackerType
  <1>7. state[u][j].since \in 0 .. CooldownDays /\ told[u][j].quiet \in 0 .. CooldownDays
    BY <1>6 DEF States, Told
  <1>8. CASE state[u][j].notified /\ state[u][j].since =< told[u][j].quiet
    <2>1. state[u][j].since >= CooldownDays
      BY <1>5, <1>8
    <2>2. told[u][j].quiet >= CooldownDays
      BY <1>7, <1>8, <2>1, DigestAssumption
    <2> QED
      BY <2>2 DEF Rested
  <1> QED
    BY <1>4, <1>8 DEF Remembered, Rested

\* Who has rested has rested a day later.
LEMMA RestLasts ==
    ASSUME TrackerType, DayPasses, NEW u \in Users, NEW j \in Jobs, Rested(u, j)
    PROVE  Rested(u, j)'
  <1>1. told[u][j] \in Told
    BY DEF TrackerType
  <1>2. told'[u][j] = [told[u][j] EXCEPT
                         !.quiet = IF @ < CooldownDays THEN @ + 1 ELSE @]
    BY DEF DayPasses
  <1>3. /\ told'[u][j].seen = told[u][j].seen
        /\ told'[u][j].quiet = IF told[u][j].quiet < CooldownDays
                               THEN told[u][j].quiet + 1 ELSE told[u][j].quiet
    BY <1>1, <1>2 DEF Told
  <1>4. told[u][j].quiet \in Nat
    BY <1>1, DigestAssumption DEF Told
  <1> QED
    BY <1>3, <1>4, DigestAssumption DEF Rested

\* Runs stay tidy.
LEMMA TidyStays ==
    ASSUME CInv, Alone, [DigestNext]_digestVars, NEW q \in Runs
    PROVE  Tidy(q)'
  <1>0. /\ run \in [Runs -> RunStates] /\ run[q] \in RunStates
        /\ TrackerType
    BY DEF CInv, LInv, TrackerType
  <1>1. Tidy(q)
    BY DEF CInv
  <1>2. CASE \E dry \in BOOLEAN : StartRun(q, dry)
    <2> PICK dry \in BOOLEAN : StartRun(q, dry)
      BY <1>2
    <2>1. run'[q] = [IdleRun EXCEPT !.pc = "users", !.dry = dry, !.todo = Users]
      BY <1>0 DEF StartRun
    <2>2. run'[q].pc = "users" /\ run'[q].marks = {}
      BY <2>1 DEF IdleRun
    <2> QED
      BY <2>2 DEF Tidy
  <1>3. CASE Commit(q)
    <2>1. run'[q] = IdleRun
      BY <1>0, <1>3 DEF Commit
    <2>2. run'[q].pc = "idle" /\ run'[q].marks = {}
      BY <2>1 DEF IdleRun
    <2> QED
      BY <2>2 DEF Tidy
  <1>4. ASSUME NEW u \in Users, SkipEmpty(q, u)
        PROVE  Tidy(q)'
    <2>1. /\ run'[q].pc = "users" /\ run'[q].marks = run[q].marks
          /\ run'[q].todo = run[q].todo \ {u}
      BY <1>0, <1>4 DEF SkipEmpty, RunStates
    <2> QED
      BY <1>1, <2>1 DEF Tidy
  <1>5. ASSUME NEW u \in Users, Select(q, u)
        PROVE  Tidy(q)'
    <2> PICK urgent \in SUBSET Closing(u) : \E B \in Batches(u, urgent) :
               run' = [run EXCEPT ![q].pc = "sending", ![q].todo = @ \ {u},
                                  ![q].user = u, ![q].jobs = B]
      BY <1>5 DEF Select
    <2> PICK B \in Batches(u, urgent) :
               run' = [run EXCEPT ![q].pc = "sending", ![q].todo = @ \ {u},
                                  ![q].user = u, ![q].jobs = B]
      OBVIOUS
    <2>1. /\ run'[q].pc = "sending" /\ run'[q].todo = run[q].todo \ {u}
          /\ run'[q].user = u /\ run'[q].jobs = B /\ run'[q].marks = run[q].marks
      BY <1>0 DEF RunStates
    <2>2. B \subseteq Selection(u)
      BY DEF Batches
    <2>3. \A j \in B : Rested(u, j)
      BY <1>5, <2>2, SelectedIsRested
    <2>4. told' = told
      BY <1>5 DEF Select
    <2> QED
      BY <1>1, <2>1, <2>3, <2>4 DEF Tidy, Rested
  <1>6. CASE Deliver(q)
    <2>1. /\ run[q].pc = "sending" /\ run'[q].pc = "delivered"
          /\ run'[q].todo = run[q].todo /\ run'[q].user = run[q].user
          /\ run'[q].marks = run[q].marks
      BY <1>0, <1>6 DEF Deliver, RunStates
    <2> QED
      BY <1>1, <2>1 DEF Tidy
  <1>7. CASE NotSent(q)
    <2>1. /\ run'[q].pc = "users" /\ run'[q].todo = run[q].todo
          /\ run'[q].marks = run[q].marks
      BY <1>0, <1>7 DEF NotSent, NextUser, RunStates
    <2> QED
      BY <1>1, <2>1 DEF Tidy
  <1>8. CASE Mark(q)
    <2>1. /\ run[q].pc = "delivered" /\ run'[q].pc = "users"
          /\ run'[q].todo = run[q].todo
          /\ run'[q].marks = run[q].marks \cup ({run[q].user} \X run[q].jobs)
      BY <1>0, <1>8 DEF Mark, NextUser, RunStates
    <2> QED
      BY <1>1, <2>1 DEF Tidy
  <1>9. CASE UNCHANGED <<run, told>>
    BY <1>1, <1>9 DEF Tidy, Rested
  <1>10. CASE SearchOnly
    <2>1. ContentMoves /\ run' = run
      BY <1>10 DEF SearchOnly
    <2>2. run[q].pc = "sending" => run[q].user \in Users /\ run[q].jobs \subseteq Jobs
      BY <1>0 DEF CInv, LInv, MailAtHand, RunStates
    <2>3. ASSUME run[q].pc = "sending", NEW j \in run[q].jobs
          PROVE  Rested(run[q].user, j)'
      BY <1>0, <1>1, <2>1, <2>2, <2>3, ContentMovesClock DEF Tidy, Rested
    <2> QED
      BY <1>1, <2>1, <2>3 DEF Tidy
  <1>11. CASE DayPasses
    <2>1. run' = run
      BY <1>11 DEF DayPasses
    <2>2. run[q].pc = "sending" => run[q].user \in Users /\ run[q].jobs \subseteq Jobs
      BY <1>0 DEF CInv, LInv, MailAtHand, RunStates
    <2>3. ASSUME run[q].pc = "sending", NEW j \in run[q].jobs
          PROVE  Rested(run[q].user, j)'
      BY <1>0, <1>1, <1>11, <2>1, <2>2, <2>3, RestLasts DEF Tidy
    <2> QED
      BY <1>1, <2>1, <2>3 DEF Tidy
  <1> QED
    BY <1>2, <1>3, <1>4, <1>5, <1>6, <1>7, <1>8, <1>9, <1>10, <1>11 DEF Alone, DigestNext,
       RollBack, SetStatus, Upkeep, World, digestVars

-----------------------------------------------------------------------------
(* The theorem. *)

\* Before the first run nothing has been sent, and nothing is pending.
LEMMA InitCInv == DigestInit => CInv
  <1> SUFFICES ASSUME DigestInit PROVE CInv
    OBVIOUS
  <1>1. \A u \in Users, j \in Jobs : Remembered(u, j)
    BY DEF DigestInit, Remembered
  <1>2. \A r \in Runs : Tidy(r)
    BY DEF DigestInit, IdleRun, Tidy
  <1> QED
    BY <1>1, <1>2, InitLInv DEF CInv

\* The invariant survives every step.
LEMMA NextCInv == Alone /\ CInv /\ [DigestNext]_digestVars => CInv'
  <1> SUFFICES ASSUME Alone, CInv, [DigestNext]_digestVars PROVE CInv'
    OBVIOUS
  <1>1. LInv'
    BY NextLInv DEF CInv
  <1>2. ASSUME NEW u \in Users, NEW j \in Jobs
        PROVE  Remembered(u, j)' \/ Pending(u, j)'
    <2>1. CASE Pending(u, j)
      BY <2>1, PendingStays
    <2>2. CASE Remembered(u, j) /\ \E r \in Runs : Deliver(r)
      BY <2>2, DeliveryPends
    <2>3. CASE Remembered(u, j) /\ \A r \in Runs : ~Deliver(r)
      BY <2>3, RememberedStays DEF CInv
    <2> QED
      BY <2>1, <2>2, <2>3 DEF CInv
  <1>3. \A r \in Runs : Tidy(r)'
    BY TidyStays
  <1> QED
    BY <1>1, <1>2, <1>3 DEF CInv

\* Where runs neither overlap nor are rolled back, no user is mailed about a job
\* again before the cooldown is over, however often its posting changes and
\* however many users share a run.
THEOREM CooldownKept ==
    ASSUME Alone
    PROVE  DigestSpec => RateLimited
  <1>1. CInv /\ [DigestNext]_digestVars =>
          [\A r \in Runs : Delivering(r) =>
              \A j \in run[r].jobs :
                 LET last == told[run[r].user][j]
                 IN  last.seen = "never" \/ last.quiet >= CooldownDays]_digestVars
    BY DEF CInv, Tidy, Rested, Delivering
  <1>2. CInv /\ [DigestNext]_digestVars => CInv'
    BY NextCInv
  <1> QED
    BY <1>1, <1>2, InitCInv, PTL DEF DigestSpec, RateLimited

-----------------------------------------------------------------------------
(***************************************************************************)
(* Mails about the same thing, for any runs, overlapping and rolled back   *)
(* as they may be, and any edits.  What is on record is on record for      *)
(* good, and a row whose update flag is down gets a new one only from a    *)
(* change.                                                                 *)
(***************************************************************************)

\* What the history says of a mail is true of the record and of the row.
Known(u, j) ==
    /\ told[u][j].seen \in {"flagged", "settled"} => state[u][j].notified
    /\ told[u][j].seen = "settled" /\ job[j] # NoJob => job[j].freshness # "updated"

KInv == LInv /\ IInv /\ \A u \in Users, j \in Jobs : Known(u, j)

\* Days and sweeps take the flag of an update down, if anything.
LEMMA AgedFlag ==
    ASSUME NEW row \in JobRows
    PROVE  /\ OlderJob(row).freshness = row.freshness
           /\ AfterExpiry(row).freshness \in {row.freshness, "expired"}
  BY DEF OlderJob, AfterExpiry, ExpiredJob, JobRows

\* A run that sees a posting another day and changes nothing of its row leaves no
\* flag of an update on it.
LEMMA FlagGoesDown ==
    ASSUME IInv, [Next]_jobVars, NEW j \in Jobs, SeenAnotherDay(j), ~Changes(j)
    PROVE  job'[j].freshness # "updated"
  <1>1. job[j] # NoJob /\ job[j] \in JobRows /\ job'[j].facts = job[j].facts /\ ~TooLong(j)
    BY DEF SeenAnotherDay, Changes, IInv, TypeOK
  <1>2. /\ OlderJob(job[j]).unseen # 0
        /\ AfterExpiry(job[j]).unseen = job[j].unseen
    BY <1>1 DEF SeenAnotherDay, OlderJob, AfterExpiry, ExpiredJob, JobRows
  <1>3. SeenAgain(j)
    BY <1>1, <1>2, StepOfARow DEF IInv, SeenAnotherDay, Discovered, Aged
  <1>4. PICK new : Representative(j, new) /\ job'[j] = SightedJob(job[j], new)
    BY <1>3 DEF SeenAgain
  <1>5. /\ job'[j].facts = WrittenFacts(job[j].facts, new)
        /\ job'[j].freshness = FreshnessAfter(job[j], new)
    BY <1>4 DEF SightedJob
  <1>6. /\ \A f \in ClampedFields : InColumn(f, new[f]) = new[f]
        /\ new["salary_max"] # NoFact => new["salary_min"] # NoFact
    BY <1>1, <1>4, RepresentativeFits
  <1>7. MaterialChanges(job[j].facts, new) = {}
    BY <1>1, <1>4, <1>5, <1>6, ChangeIsWritten DEF Representative, JobRows
  <1> QED
    BY <1>5, <1>7 DEF FreshnessAfter, SeenAnotherDay

\* A persist transaction raises a flag only where the history says stale.
LEMMA SearchKeepsKnown ==
    ASSUME KInv, [Next]_jobVars, ContentMoves, UNCHANGED state,
           NEW u \in Users, NEW j \in Jobs
    PROVE  Known(u, j)'
  <1>1. told[u][j] \in Told /\ Known(u, j) /\ IInv
    BY DEF KInv, LInv, TrackerType
  <1>2. told'[u][j] =
           IF Changes(j) /\ told[u][j].seen # "never"
           THEN [told[u][j] EXCEPT !.seen = "stale"]
           ELSE IF SeenAnotherDay(j) /\ told[u][j].seen = "flagged"
           THEN [told[u][j] EXCEPT !.seen = "settled"]
           ELSE told[u][j]
    BY DEF ContentMoves
  <1>3. CASE Changes(j) /\ told[u][j].seen # "never"
    <2>1. told'[u][j].seen = "stale"
      BY <1>1, <1>2, <1>3 DEF Told
    <2> QED
      BY <2>1 DEF Known
  <1>4. CASE ~Changes(j) /\ SeenAnotherDay(j) /\ told[u][j].seen = "flagged"
    <2>1. job'[j].freshness # "updated"
      BY <1>1, <1>4, FlagGoesDown
    <2>2. told'[u][j].seen = "settled"
      BY <1>1, <1>2, <1>4 DEF Told
    <2> QED
      BY <1>1, <1>4, <2>1, <2>2 DEF Known
  <1>5. CASE ~Changes(j) /\ told'[u][j] = told[u][j]
    <2> SUFFICES ASSUME told[u][j].seen = "settled", job'[j] # NoJob
                 PROVE  job'[j].freshness # "updated"
      BY <1>1, <1>5 DEF Known
    <2>1. CASE job[j] = NoJob
      <3>1. Discovered(j)
        BY <1>1, <2>1, StepOfARow DEF IInv, SeenAgain, Aged
      <3> QED
        BY <3>1 DEF Discovered, NewJob
    <2>2. CASE job[j] # NoJob
      <3>1. j \in Stored /\ job[j].freshness # "updated"
        BY <1>1, <2>2 DEF Stored, Known
      <3> QED
        BY <1>1, <1>5, <3>1, UpdateChanges DEF Changes, Stored
    <2> QED
      BY <2>1, <2>2
  <1>6. CASE told[u][j].seen = "never"
    <2>1. told'[u][j].seen = "never"
      BY <1>2, <1>6
    <2> QED
      BY <2>1 DEF Known
  <1> QED
    BY <1>2, <1>3, <1>4, <1>5, <1>6

\* A commit records what it says it records.
LEMMA CommitKeepsKnown ==
    ASSUME KInv, NEW r \in Runs, Commit(r), NEW u \in Users, NEW j \in Jobs
    PROVE  Known(u, j)'
  <1>1. told[u][j] \in Told /\ state[u][j] \in States /\ Known(u, j)
    BY DEF KInv, LInv, TrackerType
  <1>2. /\ state'[u][j] = (IF <<u, j>> \in run[r].marks
                           THEN [state[u][j] EXCEPT !.notified = TRUE, !.since = 0]
                           ELSE state[u][j])
        /\ job' = job
    BY DEF Commit
  <1>3. told'[u][j] =
           IF <<u, j>> \in run[r].marks /\ told[u][j].seen = "sent"
           THEN [told[u][j] EXCEPT !.seen = IF job[j].freshness = "updated"
                                            THEN "flagged" ELSE "settled"]
           ELSE told[u][j]
    BY DEF Commit, PutOnRecord
  <1>4. state[u][j].notified \/ <<u, j>> \in run[r].marks => state'[u][j].notified
    BY <1>1, <1>2 DEF States
  <1>5. CASE <<u, j>> \in run[r].marks /\ told[u][j].seen = "sent"
    <2>1. told'[u][j].seen = IF job[j].freshness = "updated" THEN "flagged" ELSE "settled"
      BY <1>1, <1>3, <1>5 DEF Told
    <2> QED
      BY <1>2, <1>4, <1>5, <2>1 DEF Known
  <1>6. CASE told'[u][j] = told[u][j]
    BY <1>1, <1>2, <1>4, <1>6 DEF Known
  <1> QED
    BY <1>3, <1>5, <1>6

\* The history stays true.
LEMMA KnownStays ==
    ASSUME KInv, [DigestNext]_digestVars, NEW u \in Users, NEW j \in Jobs
    PROVE  Known(u, j)'
  <1>0. /\ told \in [Users -> [Jobs -> Told]] /\ state \in [Users -> [Jobs -> States]]
        /\ told[u][j] \in Told /\ state[u][j] \in States
        /\ Known(u, j) /\ IInv /\ [Next]_jobVars
    BY DigestStepIsJobStep DEF KInv, LInv, TrackerType
  <1>1. job[j] # NoJob => job[j] \in JobRows
    BY <1>0 DEF IInv, TypeOK
  <1>2. CASE SearchOnly \/ \E r \in Runs, dry \in BOOLEAN : StartRun(r, dry)
    BY <1>0, <1>2, SearchKeepsKnown DEF SearchOnly, StartRun
  <1>3. CASE \E r \in Runs : Commit(r)
    BY <1>3, CommitKeepsKnown
  <1>4. CASE \E r \in Runs : Deliver(r)
    <2> PICK r \in Runs : Deliver(r)
      BY <1>4
    <2>1. told'[u][j] = told[u][j] \/ told'[u][j] = [seen |-> "sent", quiet |-> 0]
      BY <1>0 DEF Deliver
    <2>2. told'[u][j] = told[u][j] \/ told'[u][j].seen = "sent"
      BY <2>1
    <2> QED
      BY <1>0, <2>2 DEF Deliver, Known
  <1>5. CASE \E v \in Users, k \in Jobs, status \in Decisions : SetStatus(v, k, status)
    <2> PICK v \in Users, k \in Jobs, status \in Decisions : SetStatus(v, k, status)
      BY <1>5
    <2>1. [state[v][k] EXCEPT !.status = status].notified = state[v][k].notified
      BY <1>0 DEF States
    <2>2. state'[u][j].notified = state[u][j].notified
      BY <1>0, <2>1 DEF SetStatus
    <2> QED
      BY <1>0, <2>2 DEF SetStatus, Known
  <1>6. CASE DayPasses
    <2>1. /\ state'[u][j].notified = state[u][j].notified
          /\ told'[u][j].seen = told[u][j].seen
      BY <1>6, DayMovesBothClocks DEF KInv, LInv
    <2>2. job'[j] = IF job[j] = NoJob THEN NoJob ELSE OlderJob(job[j])
      BY <1>6 DEF DayPasses, Day
    <2> QED
      BY <1>0, <1>1, <2>1, <2>2, AgedFlag DEF Known
  <1>7. CASE Upkeep
    <2>1. job'[j] = Expired(job[j])
      BY <1>7 DEF Upkeep, Maintenance
    <2> QED
      BY <1>0, <1>1, <1>7, <2>1, AgedFlag DEF Upkeep, Expired, Known
  <1>8. CASE UNCHANGED <<job, state, told>>
    BY <1>0, <1>8 DEF Known
  <1> QED
    BY <1>2, <1>3, <1>4, <1>5, <1>6, <1>7, <1>8 DEF DigestNext, SkipEmpty, Select, NotSent,
       Mark, NextUser, RollBack, World, SourceChanges, digestVars

\* Whoever edits what, however runs overlap and whichever are rolled back: a job
\* whose mail is on record is not picked again until its posting changes, once the
\* flag of an update that the mail was about is down.
THEOREM ChangesAloneResurface == DigestSpec => []OnlyChangesResurface
  <1>1. DigestInit => KInv
    BY InitLInv, InitIInv DEF DigestInit, KInv, Known
  <1>2. KInv /\ [DigestNext]_digestVars => KInv'
    BY NextLInv, NextIInv, DigestStepIsJobStep, KnownStays DEF KInv
  <1>3. KInv => OnlyChangesResurface
    BY DEF KInv, Known, OnlyChangesResurface, Selection, Candidates, Stored, UpdateDue
  <1> QED
    BY <1>1, <1>2, <1>3, PTL DEF DigestSpec
==============================================================================
