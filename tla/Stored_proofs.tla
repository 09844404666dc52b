---------------------------- MODULE Stored_proofs ----------------------------
(***************************************************************************)
(* That a run never meets a stored job under the id it means to give to a  *)
(* new one, for any postings, clusterings and overlapping runs, as long as *)
(* a posting keeps its ATS identity and its URL; that no listing is left   *)
(* without its job; and that what is found again is left as it is.         *)
(***************************************************************************)
EXTENDS StoredJobs, TLAPS

-----------------------------------------------------------------------------
(* The inductive invariant. *)

\* What a posting says of itself may change, but not who it is.
LooksStay == \A k \in Keys : \A l, m \in LooksOf(k) : l.ats = m.ats /\ l.url = m.url

JobTables == [Ids -> JobRows \cup {NoJob}]
ListingTables == [Keys -> Listings \cup {NoListing}]

RunRecords == [pc : {"idle", "open"}, clusters : SUBSET SUBSET Keys, rest : SUBSET SUBSET Keys,
               doomed : BOOLEAN, lone : BOOLEAN,
               oldJobs : JobTables, old : ListingTables,
               jobs : JobTables, listing : ListingTables,
               born : UNION {[S -> JobRows] : S \in SUBSET Ids}, written : SUBSET Keys]

StoredType ==
    /\ world \in [Keys -> Looks \cup {Gone}]
    /\ \A k \in Keys : world[k] \in LooksOf(k) \cup {Gone}
    /\ jobs \in JobTables /\ listing \in ListingTables
    /\ run \in [Runs -> RunRecords]

\* The id is one that a posting may be stored under.
Names(id, k) == \E l \in LooksOf(k) : id = l.ats \/ id = l.url

\* Every listing is in a job and looks as its posting may; every job has a listing
\* that leads to its id.
Sound(table, rows) ==
    /\ \A k \in Keys : rows[k] # NoListing =>
          /\ table[rows[k].job] # NoJob
          /\ \E l \in LooksOf(k) : rows[k].ats = l.ats
          /\ \E l \in LooksOf(k) : rows[k].url = l.url
    /\ \A id \in Ids : table[id] # NoJob => \E k \in Keys : rows[k] # NoListing /\ Names(id, k)

\* What a transaction has loaded is still there, and in what it is about to write.
Builds(q) ==
    /\ \A k \in Keys : q.old[k] # NoListing => q.listing[k] # NoListing /\ listing[k] # NoListing
    /\ \A id \in Ids : q.oldJobs[id] # NoJob => q.jobs[id] # NoJob /\ jobs[id] # NoJob
    /\ \A id \in DOMAIN q.born : q.jobs[id] # NoJob
    /\ \A k \in Keys \ q.written : q.listing[k] = q.old[k]
    /\ \A k \in q.written : q.listing[k] # NoListing

Ready(q) ==
    /\ LooksStay => ~q.doomed
    /\ q.pc = "idle" => q.rest = {}
    /\ \A c \in q.rest : c # {} /\ \A k \in c : world[k] # Gone
    /\ Sound(q.oldJobs, q.old) /\ Sound(q.jobs, q.listing)
    /\ Builds(q)

JInv == StoredType /\ Sound(jobs, listing) /\ \A r \in Runs : Ready(run[r])

-----------------------------------------------------------------------------
(* Clusters. *)

LEMMA LeaderIsMember ==
    ASSUME NEW S \in SUBSET Keys, S # {}
    PROVE  Leader(S) \in S
  BY StoredAssumption DEF Leader

\* What a cluster is stored with, one of its members says.
LEMMA FirstKnownFacts ==
    ASSUME NEW c \in SUBSET Keys, NEW field
    PROVE  FirstKnown(c, field) # None => \E k \in c : FirstKnown(c, field) = world[k][field]
<1> DEFINE known == {k \in c : Member(k)[field] # None}
<1>1. CASE known = {}
  BY <1>1 DEF FirstKnown
<1>2. CASE known # {}
  <2>1. Leader(known) \in known
    BY <1>2, LeaderIsMember
  <2>2. FirstKnown(c, field) = Member(Leader(known))[field]
    BY <1>2 DEF FirstKnown
  <2> QED
    BY <2>1, <2>2 DEF Member
<1> QED
  BY <1>1, <1>2

\* A posting that is shown looks like something.
LEMMA ShownLook ==
    ASSUME StoredType, NEW k \in Keys, world[k] # Gone
    PROVE  /\ world[k] \in LooksOf(k) /\ world[k] \in Looks
           /\ world[k].ats \in {l.ats : l \in Looks} /\ world[k].url \in {l.url : l \in Looks}
           /\ world[k].opening \in {l.opening : l \in Looks} /\ world[k].print \in {l.print : l \in Looks}
  BY DEF StoredType, Looks

LEMMA RepFacts ==
    ASSUME StoredType, NEW c \in SUBSET Keys, c # {}, \A k \in c : world[k] # Gone
    PROVE  /\ Rep(c).ats \in {l.ats : l \in Looks} \cup {None}
           /\ Rep(c).opening \in {l.opening : l \in Looks} \cup {None}
           /\ Rep(c).print \in {l.print : l \in Looks}
           /\ Rep(c).ats # None => \E k \in c : Rep(c).ats = world[k].ats
           /\ \E k \in c : Rep(c).url = world[k].url
<1>1. Leader(c) \in c
  BY LeaderIsMember
<1>2. Rep(c).url = world[Leader(c)].url /\ Rep(c).print = world[Leader(c)].print
  BY DEF Rep, Member
<1>3. Rep(c).ats = FirstKnown(c, "ats") /\ Rep(c).opening = FirstKnown(c, "opening")
  BY DEF Rep
<1>4. Rep(c).ats # None => \E k \in c : Rep(c).ats = world[k].ats
  BY <1>3, FirstKnownFacts
<1>5. Rep(c).opening # None => \E k \in c : Rep(c).opening = world[k].opening
  BY <1>3, FirstKnownFacts
<1> QED
  BY <1>1, <1>2, <1>4, <1>5, ShownLook

\* The id of a new job.
LEMMA IdFacts ==
    ASSUME StoredType, NEW c \in SUBSET Keys, c # {}, \A k \in c : world[k] # Gone
    PROVE  /\ CanonicalId(Rep(c)) \in Ids
           /\ \E k \in c : Names(CanonicalId(Rep(c)), k)
           /\ \E k \in c : \/ world[k].ats # None /\ CanonicalId(Rep(c)) = world[k].ats
                           \/ CanonicalId(Rep(c)) = world[k].url
<1>1. \E k \in c : \/ world[k].ats # None /\ CanonicalId(Rep(c)) = world[k].ats
                   \/ CanonicalId(Rep(c)) = world[k].url
  BY RepFacts DEF CanonicalId
<1>2. PICK k \in c : \/ world[k].ats # None /\ CanonicalId(Rep(c)) = world[k].ats
                     \/ CanonicalId(Rep(c)) = world[k].url
  BY <1>1
<1>3. world[k] \in LooksOf(k) /\ world[k] \in Looks
  BY ShownLook
<1> QED
  BY <1>2, <1>3 DEF Names, Ids

-----------------------------------------------------------------------------
(* The lookups. *)

\* A lookup that some member answers is answered for the cluster.
LEMMA FoundByFacts ==
    ASSUME NEW c \in SUBSET Keys, NEW finds
    PROVE  /\ (\E k \in c : finds[k] # {}) => FoundBy(c, finds) # {}
           /\ FoundBy(c, finds) # {} => \E k \in c : FoundBy(c, finds) = finds[k]
<1> DEFINE hits == {k \in c : finds[k] # {}}
<1>1. CASE hits = {}
  BY <1>1 DEF FoundBy
<1>2. CASE hits # {}
  <2>1. Leader(hits) \in hits
    BY <1>2, LeaderIsMember
  <2>2. FoundBy(c, finds) = finds[Leader(hits)]
    BY <1>2 DEF FoundBy
  <2> QED
    BY <2>1, <2>2
<1> QED
  BY <1>1, <1>2

\* The four lookups are tried in turn.
LEMMA FindInTurn ==
    ASSUME NEW q, NEW c \in SUBSET Keys
    PROVE  LET byKey == FoundBy(c, [k \in c |-> IF q.listing[k] = NoListing THEN {}
                                                ELSE {q.listing[k].job}])
               byAts == FoundBy(c, [k \in c |-> IF Member(k).ats = None THEN {}
                                                ELSE ByIdentity(q, Member(k).ats)])
               byUrl == FoundBy(c, [k \in c |-> ByUrl(q, Member(k).url)])
           IN  /\ FindExistingJob(q, c) \in {byKey, byAts, byUrl, ByPrint(q, Rep(c))}
               /\ byAts # {} \/ byUrl # {} => FindExistingJob(q, c) # {}
  BY DEF FindExistingJob

\* Rows found are rows there are.
LEMMA LookupFacts ==
    ASSUME NEW q \in RunRecords, Builds(q), Sound(q.jobs, q.listing), NEW x
    PROVE  /\ \A j \in ByIdentity(q, x) \cup ByUrl(q, x) : j \in Ids /\ q.jobs[j] # NoJob
           /\ \A k \in Keys : q.listing[k] # NoListing /\ q.listing[k].ats = x => ByIdentity(q, x) # {}
           /\ \A k \in Keys : q.listing[k] # NoListing /\ q.listing[k].url = x => ByUrl(q, x) # {}
<1> DEFINE oldJobs == {j \in Ids : q.oldJobs[j] # NoJob /\ q.oldJobs[j].ats = x}
           newJobs == {j \in DOMAIN q.born : q.born[j].ats = x}
           oldAts == {k \in Keys : q.old[k] # NoListing /\ q.old[k].ats = x}
           newAts == {k \in q.written : q.listing[k].ats = x}
           oldUrl == {k \in Keys : q.old[k] # NoListing /\ q.old[k].url = x}
           newUrl == {k \in q.written : q.listing[k].url = x}
<1>1. /\ q.written \subseteq Keys /\ DOMAIN q.born \subseteq Ids
      /\ \A k \in Keys : q.listing[k] # NoListing => q.listing[k].job \in Ids
  <2>1. PICK S \in SUBSET Ids : q.born \in [S -> JobRows]
    BY DEF RunRecords
  <2> QED
    BY <2>1 DEF RunRecords, ListingTables, Listings
<1>2. \A k \in oldAts \cup newAts \cup oldUrl \cup newUrl :
        k \in Keys /\ q.listing[k] # NoListing
  BY <1>1 DEF Builds
<1>3. \A k \in oldAts \cup newAts \cup oldUrl \cup newUrl :
        q.listing[k].job \in Ids /\ q.jobs[q.listing[k].job] # NoJob
  BY <1>1, <1>2 DEF Sound
<1>4. \A j \in oldJobs \cup newJobs : j \in Ids /\ q.jobs[j] # NoJob
  BY <1>1 DEF Builds
<1>5. /\ FirstRows(oldJobs, newJobs) \subseteq oldJobs \cup newJobs
      /\ FirstRows(oldAts, newAts) \subseteq oldAts \cup newAts
      /\ FirstRows(oldUrl, newUrl) \subseteq oldUrl \cup newUrl
      /\ oldJobs \cup newJobs # {} => FirstRows(oldJobs, newJobs) # {}
      /\ oldAts \cup newAts # {} => FirstRows(oldAts, newAts) # {}
      /\ oldUrl \cup newUrl # {} => FirstRows(oldUrl, newUrl) # {}
  BY DEF FirstRows
<1>6. /\ ByIdentity(q, x) = IF oldJobs \cup newJobs # {} THEN FirstRows(oldJobs, newJobs)
                            ELSE {q.listing[k].job : k \in FirstRows(oldAts, newAts)}
      /\ ByUrl(q, x) = {q.listing[k].job : k \in FirstRows(oldUrl, newUrl)}
  BY DEF ByIdentity, ByUrl
<1>7. ASSUME NEW k \in Keys, q.listing[k] # NoListing
      PROVE  /\ q.listing[k].ats = x => k \in oldAts \cup newAts
             /\ q.listing[k].url = x => k \in oldUrl \cup newUrl
  BY <1>7 DEF Builds
<1> HIDE DEF oldJobs, newJobs, oldAts, newAts, oldUrl, newUrl
<1>8. \A j \in ByIdentity(q, x) \cup ByUrl(q, x) : j \in Ids /\ q.jobs[j] # NoJob
  BY <1>3, <1>4, <1>5, <1>6
<1>9. \A k \in Keys : q.listing[k] # NoListing /\ q.listing[k].ats = x => ByIdentity(q, x) # {}
  <2> SUFFICES ASSUME NEW k \in Keys, q.listing[k] # NoListing, q.listing[k].ats = x
               PROVE  ByIdentity(q, x) # {}
    OBVIOUS
  <2>1. PICK l \in FirstRows(oldAts, newAts) : TRUE
    BY <1>5, <1>7
  <2>2. {q.listing[i].job : i \in FirstRows(oldAts, newAts)} # {}
    BY <2>1
  <2> QED
    BY <1>5, <1>6, <2>2
<1>10. \A k \in Keys : q.listing[k] # NoListing /\ q.listing[k].url = x => ByUrl(q, x) # {}
  BY <1>5, <1>6, <1>7
<1> QED
  BY <1>8, <1>9, <1>10

LEMMA FoundExists ==
    ASSUME NEW q \in RunRecords, Builds(q), Sound(q.jobs, q.listing), NEW c \in SUBSET Keys
    PROVE  \A j \in FindExistingJob(q, c) : j \in Ids /\ q.jobs[j] # NoJob
<1> DEFINE keyed == [k \in c |-> IF q.listing[k] = NoListing THEN {} ELSE {q.listing[k].job}]
           named == [k \in c |-> IF Member(k).ats = None THEN {} ELSE ByIdentity(q, Member(k).ats)]
           linked == [k \in c |-> ByUrl(q, Member(k).url)]
           Good(J) == \A j \in J : j \in Ids /\ q.jobs[j] # NoJob
<1>1. \A k \in c : Good(keyed[k])
  BY DEF RunRecords, ListingTables, Listings, Sound
<1>2. \A k \in c : Good(named[k]) /\ Good(linked[k])
  BY LookupFacts
<1>3. Good(ByPrint(q, Rep(c)))
  <2>1. \A id \in DOMAIN q.born : id \in Ids /\ q.jobs[id] # NoJob
    <3>1. PICK S \in SUBSET Ids : q.born \in [S -> JobRows]
      BY DEF RunRecords
    <3> QED
      BY <3>1 DEF Builds
  <2> QED
    BY <2>1 DEF ByPrint, FirstRows, Builds
<1>4. FindExistingJob(q, c) \in {FoundBy(c, keyed), FoundBy(c, named), FoundBy(c, linked), ByPrint(q, Rep(c))}
  BY FindInTurn
<1> HIDE DEF keyed, named, linked
<1>5. Good(FoundBy(c, keyed)) /\ Good(FoundBy(c, named)) /\ Good(FoundBy(c, linked))
  BY <1>1, <1>2, FoundByFacts
<1> QED
  BY <1>3, <1>4, <1>5

\* Whatever has the id that a cluster would be given is found.
LEMMA IdLeadsToJob ==
    ASSUME LooksStay, StoredType, NEW q \in RunRecords, Builds(q), Sound(q.jobs, q.listing),
           NEW c \in SUBSET Keys, c # {}, \A k \in c : world[k] # Gone,
           q.jobs[CanonicalId(Rep(c))] # NoJob
    PROVE  FindExistingJob(q, c) # {}
<1> DEFINE id == CanonicalId(Rep(c))
           named == [k \in c |-> IF Member(k).ats = None THEN {} ELSE ByIdentity(q, Member(k).ats)]
           linked == [k \in c |-> ByUrl(q, Member(k).url)]
<1>1. PICK m \in c : \/ world[m].ats # None /\ id = world[m].ats
                     \/ id = world[m].url
  BY IdFacts
<1>2. m \in Keys /\ world[m] \in Looks
  BY ShownLook
<1>3. PICK k \in Keys : q.listing[k] # NoListing /\ Names(id, k)
  BY IdFacts DEF Sound
<1>4. PICK l \in LooksOf(k) : q.listing[k].ats = l.ats /\ q.listing[k].url = l.url
  BY <1>3 DEF Sound, LooksStay
<1>5. l \in Looks /\ (id = l.ats \/ id = l.url)
  BY <1>3, <1>4 DEF Names, LooksStay, Looks
<1>6. CASE world[m].ats # None /\ id = world[m].ats
  <2>1. id = l.ats
    BY <1>2, <1>5, <1>6, StoredAssumption
  <2>2. ByIdentity(q, id) # {}
    BY <1>3, <1>4, <2>1, LookupFacts
  <2>3. named[m] # {}
    BY <1>6, <2>2 DEF Member
  <2> HIDE DEF named
  <2>4. FoundBy(c, named) # {}
    BY <2>3, FoundByFacts
  <2> QED
    BY <2>4, FindInTurn DEF named
<1>7. CASE id = world[m].url
  <2>1. id = l.url
    BY <1>2, <1>5, <1>7, StoredAssumption
  <2>2. ByUrl(q, id) # {}
    BY <1>3, <1>4, <2>1, LookupFacts
  <2>3. linked[m] # {}
    BY <1>7, <2>2 DEF Member
  <2> HIDE DEF linked
  <2>4. FoundBy(c, linked) # {}
    BY <2>3, FoundByFacts
  <2> QED
    BY <2>4, FindInTurn DEF linked
<1> QED
  BY <1>1, <1>6, <1>7

-----------------------------------------------------------------------------
(* Step by step. *)

\* A run that has nothing open has nothing to go wrong.
LEMMA IdleIsReady ==
    /\ IdleRun \in RunRecords
    /\ Ready(IdleRun)
<1>1. IdleRun.born \in [{} -> JobRows]
  BY DEF IdleRun
<1>2. IdleRun.born \in UNION {[S -> JobRows] : S \in SUBSET Ids}
  BY <1>1
<1>3. IdleRun.jobs \in JobTables /\ IdleRun.listing \in ListingTables
  BY DEF IdleRun, JobTables, ListingTables
<1>4. IdleRun \in RunRecords
  BY <1>2, <1>3 DEF IdleRun, RunRecords
<1>5. /\ ~IdleRun.doomed /\ IdleRun.rest = {} /\ IdleRun.written = {} /\ DOMAIN IdleRun.born = {}
      /\ IdleRun.oldJobs = [id \in Ids |-> NoJob] /\ IdleRun.old = [k \in Keys |-> NoListing]
      /\ IdleRun.jobs = [id \in Ids |-> NoJob] /\ IdleRun.listing = [k \in Keys |-> NoListing]
  BY DEF IdleRun
<1>6. Sound(IdleRun.oldJobs, IdleRun.old) /\ Sound(IdleRun.jobs, IdleRun.listing)
  BY <1>5 DEF Sound
<1>7. Builds(IdleRun)
  BY <1>5 DEF Builds
<1> QED
  BY <1>4, <1>5, <1>6, <1>7 DEF Ready

LEMMA InitJInv == StoredInit => JInv
<1> SUFFICES ASSUME StoredInit
             PROVE  JInv
  OBVIOUS
<1>1. StoredType
  BY IdleIsReady DEF StoredInit, StoredType, JobTables, ListingTables
<1>2. Sound(jobs, listing)
  BY DEF StoredInit, Sound
<1>3. \A r \in Runs : Ready(run[r])
  BY IdleIsReady DEF StoredInit
<1> QED
  BY <1>1, <1>2, <1>3 DEF JInv

\* A cluster is of postings that are shown.
LEMMA ClusteringFacts ==
    ASSUME NEW S \in SUBSET Keys, NEW P \in Clusterings(S)
    PROVE  P \in SUBSET SUBSET Keys /\ \A c \in P : c # {} /\ c \subseteq S
  BY DEF Clusterings

LEMMA LoadKeeps ==
    ASSUME JInv, NEW r \in Runs, Load(r), NEW s \in Runs
    PROVE  run'[s] \in RunRecords /\ Ready(run'[s])
<1>1. StoredType /\ run[s] \in RunRecords /\ Ready(run[s])
  BY DEF JInv, StoredType
<1>2. CASE s # r
  <2>1. run'[s] = [run[s] EXCEPT !.lone = FALSE]
    BY <1>2 DEF Load
  <2>2. run'[s] \in RunRecords
    BY <1>1, <2>1 DEF RunRecords
  <2>3. Ready([run[s] EXCEPT !.lone = FALSE])
    BY <1>1 DEF Ready, Builds, RunRecords
  <2> QED
    BY <2>1, <2>2, <2>3
<1>3. CASE s = r
  <2>1. PICK A \in Answers : \E P \in Clusterings({k \in A : world[k] # Gone}) :
          run' = [t \in Runs |->
             IF t # r THEN [run[t] EXCEPT !.lone = FALSE]
             ELSE [IdleRun EXCEPT !.pc = "open", !.clusters = P, !.rest = P, !.lone = Alone(r),
                                  !.oldJobs = jobs, !.old = listing,
                                  !.jobs = jobs, !.listing = listing]]
    BY DEF Load
  <2>2. PICK P \in Clusterings({k \in A : world[k] # Gone}) :
          run' = [t \in Runs |->
             IF t # r THEN [run[t] EXCEPT !.lone = FALSE]
             ELSE [IdleRun EXCEPT !.pc = "open", !.clusters = P, !.rest = P, !.lone = Alone(r),
                                  !.oldJobs = jobs, !.old = listing,
                                  !.jobs = jobs, !.listing = listing]]
    BY <2>1
  <2> DEFINE q == run'[r]
  <2>3. A \subseteq Keys
    BY StoredAssumption
  <2>4. P \in SUBSET SUBSET Keys /\ \A c \in P : c # {} /\ \A k \in c : world[k] # Gone
    BY <2>3, ClusteringFacts
  <2>5. q = [IdleRun EXCEPT !.pc = "open", !.clusters = P, !.rest = P, !.lone = Alone(r),
                            !.oldJobs = jobs, !.old = listing, !.jobs = jobs, !.listing = listing]
    BY <2>2
  <2>6. /\ q.pc = "open" /\ q.clusters = P /\ q.rest = P /\ q.lone = Alone(r)
        /\ q.oldJobs = jobs /\ q.old = listing /\ q.jobs = jobs /\ q.listing = listing
        /\ q.doomed = FALSE /\ q.born = [j \in {} |-> NoJob] /\ q.written = {}
        /\ DOMAIN q.born = {}
        /\ q = [pc |-> "open", clusters |-> P, rest |-> P, doomed |-> FALSE, lone |-> Alone(r),
                oldJobs |-> jobs, old |-> listing, jobs |-> jobs, listing |-> listing,
                born |-> IdleRun.born, written |-> {}]
    BY <2>5 DEF IdleRun
  <2>7. Alone(r) \in BOOLEAN
    BY DEF Alone
  <2>8. q \in RunRecords
    <3>1. IdleRun.born \in UNION {[S -> JobRows] : S \in SUBSET Ids}
      BY IdleIsReady DEF RunRecords
    <3>2. jobs \in JobTables /\ listing \in ListingTables
      BY <1>1 DEF StoredType
    <3> HIDE DEF q
    <3> QED
      BY <2>4, <2>6, <2>7, <3>1, <3>2 DEF RunRecords
  <2> HIDE DEF q
  <2>9. Ready(q)
    BY <1>1, <2>4, <2>6 DEF JInv, Ready, Builds
  <2> QED
    BY <1>3, <2>8, <2>9 DEF q
<1> QED
  BY <1>2, <1>3

\* The listings of a cluster point at its job and look as the postings do.
LEMMA UpsertFacts ==
    ASSUME StoredType, NEW q, NEW c \in SUBSET Keys, NEW k \in c, world[k] # Gone, NEW j \in Ids
    PROVE  /\ UpsertListings(q, c, j)[k].job = j
           /\ UpsertListings(q, c, j)[k].ats = world[k].ats
           /\ UpsertListings(q, c, j)[k].url = world[k].url
           /\ UpsertListings(q, c, j)[k] \in Listings
           /\ world[k] \in LooksOf(k)
<1>1. /\ world[k] \in LooksOf(k)
      /\ world[k].ats \in {l.ats : l \in Looks} /\ world[k].url \in {l.url : l \in Looks}
  BY ShownLook
<1>2. UpsertListings(q, c, j)[k] = [job |-> j, ats |-> world[k].ats, url |-> world[k].url]
  BY DEF UpsertListings, Member
<1> QED
  BY <1>1, <1>2 DEF Listings

\* What a job is written with is a row of the table.
LEMMA WrittenFacts ==
    ASSUME StoredType, NEW c \in SUBSET Keys, c # {}, \A k \in c : world[k] # Gone
    PROVE  /\ \A row \in JobRows : Written(row, Rep(c)) \in JobRows
           /\ Written([ats |-> None, opening |-> None, print |-> Rep(c).print], Rep(c)) \in JobRows
<1>1. /\ Rep(c).ats \in {l.ats : l \in Looks} \cup {None}
      /\ Rep(c).opening \in {l.opening : l \in Looks} \cup {None}
      /\ Rep(c).print \in {l.print : l \in Looks}
  BY RepFacts
<1> QED
  BY <1>1 DEF Written, JobRows

\* What a cluster leaves of the tables of its transaction.
LEMMA TablesAfterCluster ==
    ASSUME StoredType, NEW q \in RunRecords, Ready(q), NEW c \in q.rest, NEW j \in Ids, NEW x \in JobRows,
           q.jobs[j] # NoJob \/ \E k \in c : Names(j, k)
    PROVE  /\ [q.jobs EXCEPT ![j] = x] \in JobTables
           /\ UpsertListings(q, c, j) \in ListingTables
           /\ Sound([q.jobs EXCEPT ![j] = x], UpsertListings(q, c, j))
           /\ \A id \in Ids : q.jobs[id] # NoJob => [q.jobs EXCEPT ![j] = x][id] # NoJob
           /\ \A k \in Keys : q.listing[k] # NoListing => UpsertListings(q, c, j)[k] # NoListing
           /\ \A k \in c : UpsertListings(q, c, j)[k] # NoListing
           /\ \A k \in Keys \ c : UpsertListings(q, c, j)[k] = q.listing[k]
<1> DEFINE table == [q.jobs EXCEPT ![j] = x]
           rows == UpsertListings(q, c, j)
<1>1. q.jobs \in JobTables /\ q.listing \in ListingTables /\ c \in SUBSET Keys
      /\ \A k \in c : world[k] # Gone
  BY DEF RunRecords, Ready
<1>2. table \in JobTables /\ table[j] = x /\ \A id \in Ids \ {j} : table[id] = q.jobs[id]
  BY <1>1 DEF JobTables
<1>3. x # NoJob
  BY StoredAssumption
<1>4. \A k \in Keys : rows[k] = IF k \in c THEN [job |-> j, ats |-> world[k].ats, url |-> world[k].url]
                                ELSE q.listing[k]
  BY DEF UpsertListings, Member
<1>5. \A k \in c : /\ rows[k].job = j /\ rows[k].ats = world[k].ats /\ rows[k].url = world[k].url
                   /\ rows[k] \in Listings /\ world[k] \in LooksOf(k)
  <2> SUFFICES ASSUME NEW k \in c
               PROVE  /\ rows[k].job = j /\ rows[k].ats = world[k].ats /\ rows[k].url = world[k].url
                      /\ rows[k] \in Listings /\ world[k] \in LooksOf(k)
    OBVIOUS
  <2>1. world[k] # Gone /\ c \in SUBSET Keys
    BY <1>1
  <2> HIDE DEF rows
  <2>2. /\ UpsertListings(q, c, j)[k].job = j
        /\ UpsertListings(q, c, j)[k].ats = world[k].ats
        /\ UpsertListings(q, c, j)[k].url = world[k].url
        /\ UpsertListings(q, c, j)[k] \in Listings
        /\ world[k] \in LooksOf(k)
    BY <2>1, UpsertFacts
  <2> QED
    BY <2>2 DEF rows
<1>6. rows \in ListingTables
  BY <1>1, <1>4, <1>5 DEF UpsertListings, ListingTables
<1>7. \A k \in c : rows[k] # NoListing
  BY <1>5, StoredAssumption
<1> HIDE DEF table, rows
<1>8. \A k \in Keys : rows[k] # NoListing => table[rows[k].job] # NoJob
  <2> SUFFICES ASSUME NEW k \in Keys, rows[k] # NoListing
               PROVE  table[rows[k].job] # NoJob
    OBVIOUS
  <2>1. CASE k \in c
    BY <1>2, <1>3, <1>5, <2>1
  <2>2. CASE k \notin c
    <3>1. rows[k] = q.listing[k] /\ q.listing[k] \in Listings
      BY <1>1, <1>4, <2>2 DEF ListingTables
    <3>2. q.jobs[q.listing[k].job] # NoJob /\ q.listing[k].job \in Ids
      BY <3>1 DEF Ready, Sound, Listings
    <3> QED
      BY <1>2, <1>3, <3>1, <3>2
  <2> QED
    BY <2>1, <2>2
<1>9. \A k \in Keys : rows[k] # NoListing => /\ \E l \in LooksOf(k) : rows[k].ats = l.ats
                                             /\ \E l \in LooksOf(k) : rows[k].url = l.url
  <2> SUFFICES ASSUME NEW k \in Keys, rows[k] # NoListing
               PROVE  /\ \E l \in LooksOf(k) : rows[k].ats = l.ats
                      /\ \E l \in LooksOf(k) : rows[k].url = l.url
    OBVIOUS
  <2>1. CASE k \in c
    BY <1>5, <2>1
  <2>2. CASE k \notin c
    <3>1. rows[k] = q.listing[k]
      BY <1>4, <2>2
    <3>2. Sound(q.jobs, q.listing)
      BY DEF Ready
    <3> QED
      BY <3>1, <3>2 DEF Sound
  <2> QED
    BY <2>1, <2>2
<1>10. \A k \in Keys : q.listing[k] # NoListing => rows[k] # NoListing
  BY <1>4, <1>7
<1>11. ASSUME NEW id \in Ids, table[id] # NoJob
       PROVE  \E k \in Keys : rows[k] # NoListing /\ Names(id, k)
  <2>1. CASE q.jobs[id] # NoJob
    <3>1. PICK k \in Keys : q.listing[k] # NoListing /\ Names(id, k)
      BY <2>1 DEF Ready, Sound
    <3> QED
      BY <1>10, <3>1
  <2>2. CASE q.jobs[id] = NoJob
    <3>1. id = j
      BY <1>2, <1>11, <2>2
    <3>2. PICK k \in c : Names(id, k)
      BY <2>2, <3>1
    <3> QED
      BY <1>1, <1>7, <3>2
  <2> QED
    BY <2>1, <2>2
<1>12. Sound(table, rows)
  BY <1>8, <1>9, <1>11 DEF Sound
<1> QED
  BY <1>2, <1>3, <1>4, <1>6, <1>7, <1>10, <1>12 DEF table, rows

\* The run goes on with a cluster less.
LEMMA ClusterLess ==
    ASSUME StoredType, NEW q \in RunRecords, Ready(q), q.pc = "open", NEW c \in q.rest,
           NEW j \in Ids, NEW x \in JobRows, q.jobs[j] # NoJob \/ \E k \in c : Names(j, k),
           NEW p \in RunRecords,
           /\ p.pc = "open" /\ p.doomed = q.doomed /\ p.rest = q.rest \ {c}
           /\ p.oldJobs = q.oldJobs /\ p.old = q.old
           /\ p.jobs = [q.jobs EXCEPT ![j] = x] /\ p.listing = UpsertListings(q, c, j)
           /\ p.written = q.written \cup c,
           \A id \in DOMAIN p.born : id \in DOMAIN q.born \/ id = j
    PROVE  Ready(p)
<1>1. /\ Sound(p.jobs, p.listing)
      /\ \A id \in Ids : q.jobs[id] # NoJob => p.jobs[id] # NoJob
      /\ \A k \in Keys : q.listing[k] # NoListing => p.listing[k] # NoListing
      /\ \A k \in c : p.listing[k] # NoListing
      /\ \A k \in Keys \ c : p.listing[k] = q.listing[k]
  BY TablesAfterCluster
<1>2. p.jobs[j] # NoJob
  BY StoredAssumption DEF RunRecords, JobTables
<1>3. DOMAIN q.born \subseteq Ids /\ q.written \subseteq Keys
  <2>1. PICK S \in SUBSET Ids : q.born \in [S -> JobRows]
    BY DEF RunRecords
  <2> QED
    BY <2>1 DEF RunRecords
<1>4. Builds(p)
  BY <1>1, <1>2, <1>3 DEF Ready, Builds
<1> QED
  BY <1>1, <1>4 DEF Ready

LEMMA StoreClusterKeeps ==
    ASSUME JInv, NEW r \in Runs, StoreCluster(r), NEW s \in Runs
    PROVE  run'[s] \in RunRecords /\ Ready(run'[s])
<1> DEFINE q == run[r]
<1>1. StoredType /\ run \in [Runs -> RunRecords] /\ q \in RunRecords /\ Ready(q) /\ q.pc = "open"
      /\ run[s] \in RunRecords /\ Ready(run[s])
  BY DEF JInv, StoredType, StoreCluster
<1>2. PICK c \in q.rest :
       LET rep == Rep(c)  found == FindExistingJob(q, c)  id == CanonicalId(rep)
           blank == [ats |-> None, opening |-> None, print |-> rep.print]
       IN
          \/ \E j \in found :
                run' = [run EXCEPT ![r].rest = @ \ {c},
                                   ![r].jobs[j] = Written(@, rep),
                                   ![r].listing = UpsertListings(q, c, j),
                                   ![r].written = @ \cup c]
          \/ /\ found = {}
             /\ run' = IF q.jobs[id] # NoJob
                       THEN [run EXCEPT ![r].rest = {}, ![r].doomed = TRUE]
                       ELSE [run EXCEPT
                               ![r].rest = @ \ {c},
                               ![r].jobs[id] = Written(blank, rep),
                               ![r].listing = UpsertListings(q, c, id),
                               ![r].written = @ \cup c,
                               ![r].born = [j \in DOMAIN @ \cup {id} |->
                                              IF j = id THEN Written(blank, rep) ELSE @[j]]]
  BY DEF StoreCluster
<1> DEFINE rep == Rep(c)
           id == CanonicalId(rep)
           blank == [ats |-> None, opening |-> None, print |-> rep.print]
<1>3. /\ c \in SUBSET Keys /\ c # {} /\ \A k \in c : world[k] # Gone
      /\ Builds(q) /\ Sound(q.jobs, q.listing)
  BY <1>1 DEF Ready, RunRecords
<1>5. id \in Ids /\ \E k \in c : Names(id, k)
  BY <1>1, <1>3, IdFacts
<1>6. (\A row \in JobRows : Written(row, rep) \in JobRows) /\ Written(blank, rep) \in JobRows
  BY <1>1, <1>3, WrittenFacts
<1>8. q.clusters \in SUBSET SUBSET Keys /\ q.rest \ {c} \in SUBSET SUBSET Keys /\ q.written \cup c \in SUBSET Keys
      /\ q.lone \in BOOLEAN /\ q.oldJobs \in JobTables /\ q.old \in ListingTables
      /\ q.born \in UNION {[S -> JobRows] : S \in SUBSET Ids} /\ q.doomed \in BOOLEAN
      /\ q.jobs \in JobTables
  BY <1>1, <1>3 DEF RunRecords
<1>9. ASSUME NEW j \in FindExistingJob(q, c),
             run' = [run EXCEPT ![r].rest = @ \ {c},
                                ![r].jobs[j] = Written(@, rep),
                                ![r].listing = UpsertListings(q, c, j),
                                ![r].written = @ \cup c]
      PROVE  run'[r] \in RunRecords /\ Ready(run'[r]) /\ \A t \in Runs \ {r} : run'[t] = run[t]
  <2>1. j \in Ids /\ q.jobs[j] # NoJob
    BY <1>1, <1>3, FoundExists
  <2>2. Written(q.jobs[j], rep) \in JobRows
    BY <1>6, <1>8, <2>1 DEF JobTables
  <2> DEFINE x == Written(q.jobs[j], rep)
             p == [pc |-> q.pc, clusters |-> q.clusters, rest |-> q.rest \ {c}, doomed |-> q.doomed,
                   lone |-> q.lone, oldJobs |-> q.oldJobs, old |-> q.old,
                   jobs |-> [q.jobs EXCEPT ![j] = x], listing |-> UpsertListings(q, c, j),
                   born |-> q.born, written |-> q.written \cup c]
  <2>3. run'[r] = p
    BY <1>1, <1>9 DEF RunRecords
  <2> HIDE DEF x, rep
  <2>4. [q.jobs EXCEPT ![j] = x] \in JobTables /\ UpsertListings(q, c, j) \in ListingTables
    BY <1>1, <2>1, <2>2, TablesAfterCluster DEF x
  <2>5. p \in RunRecords
    BY <1>1, <1>8, <2>4 DEF RunRecords
  <2>6. /\ p.pc = "open" /\ p.doomed = q.doomed /\ p.rest = q.rest \ {c}
        /\ p.oldJobs = q.oldJobs /\ p.old = q.old
        /\ p.jobs = [q.jobs EXCEPT ![j] = x] /\ p.listing = UpsertListings(q, c, j)
        /\ p.written = q.written \cup c /\ p.born = q.born
    BY <1>1
  <2> HIDE DEF p, q
  <2>7. Ready(p)
    BY <1>1, <2>1, <2>2, <2>5, <2>6, ClusterLess DEF x
  <2> QED
    BY <1>1, <1>9, <2>3, <2>5, <2>7
<1>10. ASSUME FindExistingJob(q, c) = {}, q.jobs[id] # NoJob,
              run' = [run EXCEPT ![r].rest = {}, ![r].doomed = TRUE]
       PROVE  run'[r] \in RunRecords /\ Ready(run'[r]) /\ \A t \in Runs \ {r} : run'[t] = run[t]
  <2>1. ~LooksStay
    BY <1>1, <1>3, <1>10, IdLeadsToJob
  <2> DEFINE p == [pc |-> q.pc, clusters |-> q.clusters, rest |-> {}, doomed |-> TRUE,
                   lone |-> q.lone, oldJobs |-> q.oldJobs, old |-> q.old,
                   jobs |-> q.jobs, listing |-> q.listing, born |-> q.born, written |-> q.written]
  <2>2. run'[r] = p
    BY <1>1, <1>10 DEF RunRecords
  <2>3. p \in RunRecords
    BY <1>1, <1>8 DEF RunRecords
  <2>4. Ready(p)
    BY <1>1, <1>3, <2>1 DEF Ready, Builds
  <2>5. \A t \in Runs \ {r} : run'[t] = run[t]
    BY <1>1, <1>10
  <2> QED
    BY <2>2, <2>3, <2>4, <2>5
<1>11. ASSUME run' = [run EXCEPT
                        ![r].rest = @ \ {c},
                        ![r].jobs[id] = Written(blank, rep),
                        ![r].listing = UpsertListings(q, c, id),
                        ![r].written = @ \cup c,
                        ![r].born = [j \in DOMAIN @ \cup {id} |->
                                       IF j = id THEN Written(blank, rep) ELSE @[j]]]
       PROVE  run'[r] \in RunRecords /\ Ready(run'[r]) /\ \A t \in Runs \ {r} : run'[t] = run[t]
  <2> DEFINE x == Written(blank, rep)
             born == [j \in DOMAIN q.born \cup {id} |-> IF j = id THEN x ELSE q.born[j]]
             p == [pc |-> q.pc, clusters |-> q.clusters, rest |-> q.rest \ {c}, doomed |-> q.doomed,
                   lone |-> q.lone, oldJobs |-> q.oldJobs, old |-> q.old,
                   jobs |-> [q.jobs EXCEPT ![id] = x], listing |-> UpsertListings(q, c, id),
                   born |-> born, written |-> q.written \cup c]
  <2>1. run'[r] = p
    BY <1>1, <1>11 DEF RunRecords
  <2>2. x \in JobRows
    BY <1>6
  <2>3. born \in UNION {[S -> JobRows] : S \in SUBSET Ids} /\ DOMAIN born = DOMAIN q.born \cup {id}
    <3>1. PICK S \in SUBSET Ids : q.born \in [S -> JobRows]
      BY <1>8
    <3>2. S \cup {id} \in SUBSET Ids
      BY <1>5, <3>1
    <3> HIDE DEF x, id
    <3>3. born \in [S \cup {id} -> JobRows]
      BY <2>2, <3>1
    <3> QED
      BY <3>2, <3>3
  <2> HIDE DEF x, rep, born, id
  <2>4. [q.jobs EXCEPT ![id] = x] \in JobTables /\ UpsertListings(q, c, id) \in ListingTables
    BY <1>1, <1>5, <2>2, TablesAfterCluster
  <2>5. p \in RunRecords
    BY <1>1, <1>8, <2>3, <2>4 DEF RunRecords
  <2>6. /\ p.pc = "open" /\ p.doomed = q.doomed /\ p.rest = q.rest \ {c}
        /\ p.oldJobs = q.oldJobs /\ p.old = q.old
        /\ p.jobs = [q.jobs EXCEPT ![id] = x] /\ p.listing = UpsertListings(q, c, id)
        /\ p.written = q.written \cup c /\ p.born = born
    BY <1>1
  <2> HIDE DEF p, q
  <2>7. Ready(p)
    BY <1>1, <1>5, <2>2, <2>3, <2>5, <2>6, ClusterLess
  <2>8. \A t \in Runs \ {r} : run'[t] = run[t]
    BY <1>1, <1>11
  <2> QED
    BY <2>1, <2>5, <2>7, <2>8
<1>12. run'[r] \in RunRecords /\ Ready(run'[r]) /\ \A t \in Runs \ {r} : run'[t] = run[t]
  BY <1>2, <1>9, <1>10, <1>11
<1> QED
  BY <1>1, <1>12

\* What a commit leaves of the tables: nothing is taken out, and all that the
\* transaction holds is in.
LEMMA CommitGrows ==
    ASSUME StoredType, NEW q \in RunRecords, Builds(q)
    PROVE  /\ \A id \in Ids : /\ WriteJob(id, q) \in JobRows \cup {NoJob}
                              /\ jobs[id] # NoJob \/ q.jobs[id] # NoJob <=> WriteJob(id, q) # NoJob
           /\ \A k \in Keys : /\ WriteListing(k, q) \in Listings \cup {NoListing}
                              /\ listing[k] # NoListing \/ q.listing[k] # NoListing
                                    <=> WriteListing(k, q) # NoListing
<1>1. ASSUME NEW id \in Ids
      PROVE  /\ WriteJob(id, q) \in JobRows \cup {NoJob}
             /\ jobs[id] # NoJob \/ q.jobs[id] # NoJob <=> WriteJob(id, q) # NoJob
  <2>1. /\ jobs[id] \in JobRows \cup {NoJob} /\ q.jobs[id] \in JobRows \cup {NoJob}
        /\ q.oldJobs[id] # NoJob => q.jobs[id] # NoJob /\ jobs[id] # NoJob
    BY DEF StoredType, RunRecords, JobTables, Builds
  <2>2. CASE q.jobs[id] = q.oldJobs[id] \/ q.oldJobs[id] = NoJob
    BY <2>1, <2>2 DEF WriteJob
  <2>3. CASE q.jobs[id] # q.oldJobs[id] /\ q.oldJobs[id] # NoJob
    <3>1. jobs[id] \in JobRows /\ q.jobs[id] \in JobRows
      BY <2>1, <2>3
    <3>2. WriteJob(id, q) =
             [ats     |-> Column(jobs[id].ats, q.oldJobs[id].ats, q.jobs[id].ats),
              opening |-> Column(jobs[id].opening, q.oldJobs[id].opening, q.jobs[id].opening),
              print   |-> Column(jobs[id].print, q.oldJobs[id].print, q.jobs[id].print)]
      BY <2>3 DEF WriteJob
    <3>3. WriteJob(id, q) \in JobRows
      BY <3>1, <3>2 DEF JobRows, Column
    <3> QED
      BY <2>1, <2>3, <3>3, StoredAssumption
  <2> QED
    BY <2>2, <2>3
<1>2. ASSUME NEW k \in Keys
      PROVE  /\ WriteListing(k, q) \in Listings \cup {NoListing}
             /\ listing[k] # NoListing \/ q.listing[k] # NoListing <=> WriteListing(k, q) # NoListing
  <2>1. /\ listing[k] \in Listings \cup {NoListing} /\ q.listing[k] \in Listings \cup {NoListing}
        /\ q.old[k] # NoListing => q.listing[k] # NoListing /\ listing[k] # NoListing
    BY DEF StoredType, RunRecords, ListingTables, Builds
  <2>2. CASE q.listing[k] = q.old[k] \/ q.old[k] = NoListing
    BY <2>1, <2>2 DEF WriteListing
  <2>3. CASE q.listing[k] # q.old[k] /\ q.old[k] # NoListing
    <3>1. listing[k] \in Listings /\ q.listing[k] \in Listings
      BY <2>1, <2>3
    <3>2. WriteListing(k, q) =
             [job |-> Column(listing[k].job, q.old[k].job, q.listing[k].job),
              ats |-> Column(listing[k].ats, q.old[k].ats, q.listing[k].ats),
              url |-> Column(listing[k].url, q.old[k].url, q.listing[k].url)]
      BY <2>3 DEF WriteListing
    <3>3. WriteListing(k, q) \in Listings
      BY <3>1, <3>2 DEF Listings, Column
    <3> QED
      BY <2>1, <2>3, <3>3, StoredAssumption
  <2> QED
    BY <2>2, <2>3
<1> QED
  BY <1>1, <1>2

\* A listing written column by column is still in a job there is, and still looks
\* as its posting may.
LEMMA WrittenListing ==
    ASSUME StoredType, Sound(jobs, listing),
           NEW q \in RunRecords, Builds(q), Sound(q.jobs, q.listing),
           NEW k \in Keys, WriteListing(k, q) # NoListing
    PROVE  LET row == WriteListing(k, q) IN
           /\ row.job \in Ids /\ (jobs[row.job] # NoJob \/ q.jobs[row.job] # NoJob)
           /\ \E l \in LooksOf(k) : row.ats = l.ats
           /\ \E l \in LooksOf(k) : row.url = l.url
<1> DEFINE row == WriteListing(k, q)
           Fine(x) == /\ x.job \in Ids /\ (jobs[x.job] # NoJob \/ q.jobs[x.job] # NoJob)
                      /\ \E l \in LooksOf(k) : x.ats = l.ats
                      /\ \E l \in LooksOf(k) : x.url = l.url
<1>1. /\ listing[k] \in Listings \cup {NoListing} /\ q.listing[k] \in Listings \cup {NoListing}
      /\ q.old[k] # NoListing => q.listing[k] # NoListing /\ listing[k] # NoListing
  BY DEF StoredType, RunRecords, ListingTables, Builds
<1>2. (listing[k] # NoListing => Fine(listing[k])) /\ (q.listing[k] # NoListing => Fine(q.listing[k]))
  BY <1>1 DEF Sound, Listings
<1>3. CASE q.listing[k] = q.old[k] \/ q.old[k] = NoListing
  <2>1. row = listing[k] \/ row = q.listing[k]
    BY <1>3 DEF WriteListing
  <2> QED
    BY <1>2, <2>1
<1>4. CASE q.listing[k] # q.old[k] /\ q.old[k] # NoListing
  <2>1. Fine(listing[k]) /\ Fine(q.listing[k])
    BY <1>1, <1>2, <1>4
  <2>2. row = [job |-> Column(listing[k].job, q.old[k].job, q.listing[k].job),
               ats |-> Column(listing[k].ats, q.old[k].ats, q.listing[k].ats),
               url |-> Column(listing[k].url, q.old[k].url, q.listing[k].url)]
    BY <1>4 DEF WriteListing
  <2>3. /\ row.job \in {listing[k].job, q.listing[k].job}
        /\ row.ats \in {listing[k].ats, q.listing[k].ats}
        /\ row.url \in {listing[k].url, q.listing[k].url}
    BY <2>2 DEF Column
  <2> HIDE DEF row
  <2>4. Fine(row)
    BY <2>1, <2>3
  <2> QED
    BY <2>4 DEF row
<1> QED
  BY <1>3, <1>4

LEMMA CommitKeeps ==
    ASSUME JInv, NEW r \in Runs, Commit(r)
    PROVE  JInv'
<1> DEFINE q == run[r]
<1>1. /\ StoredType /\ Sound(jobs, listing) /\ q \in RunRecords /\ Ready(q)
      /\ Builds(q) /\ Sound(q.jobs, q.listing)
  BY DEF JInv, StoredType, Ready
<1>2. /\ jobs' = [id \in Ids |-> WriteJob(id, q)] /\ listing' = [k \in Keys |-> WriteListing(k, q)]
      /\ run' = [run EXCEPT ![r] = IdleRun] /\ world' = world
  BY DEF Commit
<1> HIDE DEF q
<1>3. /\ jobs' \in JobTables /\ listing' \in ListingTables
      /\ \A id \in Ids : jobs'[id] = WriteJob(id, q)
      /\ \A k \in Keys : listing'[k] = WriteListing(k, q)
  BY <1>1, <1>2, CommitGrows DEF JobTables, ListingTables
<1>4. /\ \A id \in Ids : jobs[id] # NoJob \/ q.jobs[id] # NoJob <=> jobs'[id] # NoJob
      /\ \A k \in Keys : listing[k] # NoListing \/ q.listing[k] # NoListing <=> listing'[k] # NoListing
  BY <1>1, <1>3, CommitGrows
<1>5. run' \in [Runs -> RunRecords] /\ run'[r] = IdleRun /\ \A s \in Runs \ {r} : run'[s] = run[s]
  BY <1>1, <1>2, IdleIsReady DEF StoredType
<1>6. StoredType'
  BY <1>1, <1>2, <1>3, <1>5 DEF StoredType
<1>7. Sound(jobs', listing')
  <2>1. ASSUME NEW k \in Keys, listing'[k] # NoListing
        PROVE  /\ jobs'[listing'[k].job] # NoJob
               /\ \E l \in LooksOf(k) : listing'[k].ats = l.ats
               /\ \E l \in LooksOf(k) : listing'[k].url = l.url
    BY <1>1, <1>3, <1>4, <2>1, WrittenListing
  <2>2. ASSUME NEW id \in Ids, jobs'[id] # NoJob
        PROVE  \E k \in Keys : listing'[k] # NoListing /\ Names(id, k)
    BY <1>1, <1>4, <2>2 DEF Sound
  <2> QED
    BY <2>1, <2>2 DEF Sound
<1>8. ASSUME NEW s \in Runs
      PROVE  Ready(run[s])'
  <2>1. CASE s = r
    <3>1. run'[s] = IdleRun
      BY <1>5, <2>1
    <3>2. /\ ~IdleRun.doomed /\ IdleRun.rest = {} /\ IdleRun.written = {} /\ DOMAIN IdleRun.born = {}
          /\ \A id \in Ids : IdleRun.oldJobs[id] = NoJob
          /\ \A k \in Keys : IdleRun.old[k] = NoListing
          /\ Sound(IdleRun.oldJobs, IdleRun.old) /\ Sound(IdleRun.jobs, IdleRun.listing)
          /\ \A k \in Keys : IdleRun.listing[k] = NoListing
      BY IdleIsReady DEF Ready, IdleRun
    <3> HIDE DEF IdleRun
    <3> QED
      BY <3>1, <3>2 DEF Ready, Builds, Sound
  <2>2. CASE s # r
    <3>1. run'[s] = run[s] /\ Ready(run[s])
      BY <1>5, <2>2 DEF JInv
    <3>2. Ready(run[s])' <=>
            /\ LooksStay => ~run'[s].doomed
            /\ run'[s].pc = "idle" => run'[s].rest = {}
            /\ \A c \in run'[s].rest : c # {} /\ \A k \in c : world'[k] # Gone
            /\ Sound(run'[s].oldJobs, run'[s].old) /\ Sound(run'[s].jobs, run'[s].listing)
            /\ Builds(run[s])'
      BY DEF Ready, Sound, LooksStay
    <3>3. Builds(run[s])'
      BY <1>4, <3>1 DEF Ready, Builds
    <3> QED
      BY <1>2, <3>1, <3>2, <3>3 DEF Ready
  <2> QED
    BY <2>1, <2>2
<1> QED
  BY <1>6, <1>7, <1>8 DEF JInv

\* A posting changes only while nothing is open.
LEMMA ChangesKeep ==
    ASSUME JInv, NEW k \in Keys, Changes(k)
    PROVE  JInv'
<1>1. PICK look \in LooksOf(k) \cup {Gone} : world' = [world EXCEPT ![k] = look]
  BY DEF Changes
<1>2. jobs' = jobs /\ listing' = listing /\ run' = run
  BY DEF Changes
<1>3. StoredType
  BY DEF JInv
<1>4. look \in Looks \cup {Gone}
  BY DEF Looks
<1>5. world' \in [Keys -> Looks \cup {Gone}] /\ \A l \in Keys : world'[l] \in LooksOf(l) \cup {Gone}
  BY <1>1, <1>3, <1>4 DEF StoredType
<1>6. StoredType'
  BY <1>2, <1>3, <1>5 DEF StoredType
<1>7. ASSUME NEW r \in Runs
      PROVE  Ready(run[r])'
  <2>1. Ready(run[r]) /\ run[r].pc = "idle"
    BY DEF JInv, Changes
  <2>2. run[r].rest = {}
    BY <2>1 DEF Ready
  <2> QED
    BY <1>2, <2>1, <2>2 DEF Ready, Sound, Builds
<1> QED
  BY <1>2, <1>6, <1>7 DEF JInv, Sound

\* What changes neither postings nor tables keeps the rest of the invariant.
LEMMA RunsOnly ==
    ASSUME JInv, world' = world, jobs' = jobs, listing' = listing, run' \in [Runs -> RunRecords],
           \A s \in Runs : Ready(run'[s])
    PROVE  JInv'
<1>1. StoredType' /\ Sound(jobs', listing')
  BY DEF JInv, StoredType
<1>2. \A s \in Runs : Ready(run[s])'
  BY DEF Ready, Builds, Sound
<1> QED
  BY <1>1, <1>2 DEF JInv

LEMMA NextJInv == JInv /\ [StoredNext]_storedVars => JInv'
<1> SUFFICES ASSUME JInv, [StoredNext]_storedVars
             PROVE  JInv'
  OBVIOUS
<1>0. StoredType
  BY DEF JInv
<1>1. ASSUME NEW r \in Runs, Load(r)
      PROVE  JInv'
  <2>1. run' = [s \in Runs |-> run'[s]] /\ world' = world /\ jobs' = jobs /\ listing' = listing
    BY <1>1 DEF Load
  <2> QED
    BY <1>1, <2>1, LoadKeeps, RunsOnly
<1>2. ASSUME NEW r \in Runs, StoreCluster(r)
      PROVE  JInv'
  <2>1. \A s \in Runs : run'[s] \in RunRecords /\ Ready(run'[s])
    BY <1>2, StoreClusterKeeps
  <2>2. run' = [s \in Runs |-> run'[s]]
    BY <1>0, <1>2 DEF StoreCluster, StoredType
  <2>3. run' \in [Runs -> RunRecords]
    BY <2>1, <2>2
  <2> QED
    BY <1>2, <2>1, <2>3, RunsOnly DEF StoreCluster
<1>3. ASSUME NEW r \in Runs, Commit(r)
      PROVE  JInv'
  BY <1>3, CommitKeeps
<1>4. ASSUME NEW r \in Runs, Fail(r)
      PROVE  JInv'
  <2>1. /\ run' = [run EXCEPT ![r] = IdleRun]
        /\ world' = world /\ jobs' = jobs /\ listing' = listing
    BY <1>4 DEF Fail
  <2>2. run' \in [Runs -> RunRecords] /\ \A s \in Runs : Ready(run'[s])
    BY <1>0, <2>1, IdleIsReady DEF StoredType, JInv
  <2> QED
    BY <2>1, <2>2, RunsOnly
<1>5. ASSUME NEW k \in Keys, Changes(k)
      PROVE  JInv'
  BY <1>5, ChangesKeep
<1>6. ASSUME UNCHANGED storedVars
      PROVE  JInv'
  BY <1>6 DEF storedVars, JInv, StoredType, Ready, Builds, Sound
<1> QED
  BY <1>1, <1>2, <1>3, <1>4, <1>5, <1>6 DEF StoredNext

-----------------------------------------------------------------------------
(* What follows. *)

\* The inductive invariant of the stored jobs holds in every state.
THEOREM StoredInvariant == StoredSpec => []JInv
<1>1. StoredInit => JInv
  BY InitJInv
<1>2. JInv /\ [StoredNext]_storedVars => JInv'
  BY NextJInv
<1> QED
  BY <1>1, <1>2, PTL DEF StoredSpec

\* As long as no posting changes its ATS identity or its URL, no run meets a stored
\* job under the id it means to give to a new one, whatever else it overlaps: a stored
\* id always leads to its job through the ATS identity or the URL of a listing
\* (LookupIndex, find_existing_job).
THEOREM IdsAreAlwaysFound ==
    ASSUME LooksStay
    PROVE  StoredSpec => []IdsAreFound
<1>1. JInv => IdsAreFound
  BY DEF JInv, Ready, IdsAreFound
<1> QED
  BY <1>1, StoredInvariant, PTL

\* No listing is left without its job and no job without a listing, although
\* overlapping runs write the columns of one row each on its own
\* (_upsert_listings, the unit of work of the session).
ListingsHaveJobs ==
    /\ \A k \in Keys : listing[k] # NoListing => jobs[listing[k].job] # NoJob
    /\ \A id \in Ids : jobs[id] # NoJob => \E k \in Keys : listing[k] # NoListing /\ Names(id, k)

\* The same, in every state of the specification.
THEOREM ListingsAlwaysHaveJobs == StoredSpec => []ListingsHaveJobs
<1>1. JInv => ListingsHaveJobs
  BY DEF JInv, Sound, ListingsHaveJobs
<1> QED
  BY <1>1, StoredInvariant, PTL

-----------------------------------------------------------------------------
(* A run that finds what the one before it has stored. *)

\* The listings of a cluster are in one job and look as the postings do.
Together(rows, c) ==
    \A k \in c : /\ rows[k] # NoListing
                 /\ rows[k].ats = world[k].ats /\ rows[k].url = world[k].url
                 /\ \A l \in c : rows[l].job = rows[k].job

\* What a run that nothing overlaps has loaded is what is there, and the clusters
\* it has taken are together.
ByItself(r) ==
    LET q == run[r] IN
    /\ \A s \in Runs \ {r} : run[s].pc = "idle"
    /\ q.oldJobs = jobs /\ q.old = listing
    /\ q.rest \subseteq q.clusters
    /\ \A c, d \in q.clusters : c # d => c \cap d = {}
    /\ ~q.doomed => \A c \in q.clusters \ q.rest : Together(q.listing, c)
    /\ q.clusters = stored =>
          /\ q.listing = listing
          /\ \A id \in Ids : (q.jobs[id] = NoJob) = (jobs[id] = NoJob)

QuietInv ==
    /\ \A c \in stored : Together(listing, c)
    /\ \A r \in Runs : run[r].pc = "open" /\ run[r].lone => ByItself(r)

\* A cluster whose listings are in one job is led to it by its first member.
LEMMA TogetherIsFound ==
    ASSUME NEW q, NEW c \in SUBSET Keys, c # {}, Together(q.listing, c)
    PROVE  \A k \in c : FindExistingJob(q, c) = {q.listing[k].job}
<1> DEFINE keyed == [k \in c |-> IF q.listing[k] = NoListing THEN {} ELSE {q.listing[k].job}]
<1>1. \A k \in c : keyed[k] = {q.listing[k].job} /\ \A l \in c : q.listing[l].job = q.listing[k].job
  BY DEF Together
<1> HIDE DEF keyed
<1>2. {k \in c : keyed[k] # {}} = c
  BY <1>1
<1>3. FoundBy(c, keyed) = keyed[Leader(c)] /\ Leader(c) \in c
  BY <1>2, LeaderIsMember DEF FoundBy
<1>4. FoundBy(c, keyed) # {}
  BY <1>1, <1>3
<1>5. FindExistingJob(q, c) = FoundBy(c, keyed)
  BY <1>4 DEF FindExistingJob, keyed
<1> QED
  BY <1>1, <1>3, <1>5

\* What a step of a run does to the run: a job that is found, a new one, or none.
LEMMA ClusterOutcome ==
    ASSUME JInv, NEW r \in Runs, StoreCluster(r)
    PROVE  \E c \in run[r].rest :
             LET q == run[r]  p == run'[r] IN
             /\ p.pc = "open" /\ p.clusters = q.clusters /\ p.lone = q.lone
             /\ p.oldJobs = q.oldJobs /\ p.old = q.old
             /\ \/ \E j \in FindExistingJob(q, c) :
                      /\ p.rest = q.rest \ {c} /\ p.doomed = q.doomed
                      /\ p.listing = UpsertListings(q, c, j)
                      /\ p.jobs = [q.jobs EXCEPT ![j] = Written(q.jobs[j], Rep(c))]
                \/ /\ FindExistingJob(q, c) = {}
                   /\ p.rest = q.rest \ {c} /\ p.doomed = q.doomed
                   /\ p.listing = UpsertListings(q, c, CanonicalId(Rep(c)))
                \/ /\ FindExistingJob(q, c) = {}
                   /\ p.rest = {} /\ p.doomed
<1>1. run \in [Runs -> RunRecords] /\ run[r].pc = "open"
  BY DEF JInv, StoredType, StoreCluster
<1>2. PICK c \in run[r].rest :
       LET q == run[r]  rep == Rep(c)  found == FindExistingJob(q, c)  id == CanonicalId(rep)
           blank == [ats |-> None, opening |-> None, print |-> rep.print]
       IN
          \/ \E j \in found :
                run' = [run EXCEPT ![r].rest = @ \ {c},
                                   ![r].jobs[j] = Written(@, rep),
                                   ![r].listing = UpsertListings(q, c, j),
                                   ![r].written = @ \cup c]
          \/ /\ found = {}
             /\ run' = IF q.jobs[id] # NoJob
                       THEN [run EXCEPT ![r].rest = {}, ![r].doomed = TRUE]
                       ELSE [run EXCEPT
                               ![r].rest = @ \ {c},
                               ![r].jobs[id] = Written(blank, rep),
                               ![r].listing = UpsertListings(q, c, id),
                               ![r].written = @ \cup c,
                               ![r].born = [j \in DOMAIN @ \cup {id} |->
                                              IF j = id THEN Written(blank, rep) ELSE @[j]]]
  BY DEF StoreCluster
<1> DEFINE q == run[r]
           rep == Rep(c)
           id == CanonicalId(rep)
           blank == [ats |-> None, opening |-> None, print |-> rep.print]
<1>3. ASSUME NEW j \in FindExistingJob(q, c),
             run' = [run EXCEPT ![r].rest = @ \ {c},
                                ![r].jobs[j] = Written(@, rep),
                                ![r].listing = UpsertListings(q, c, j),
                                ![r].written = @ \cup c]
      PROVE  /\ run'[r].pc = "open" /\ run'[r].clusters = q.clusters /\ run'[r].lone = q.lone
             /\ run'[r].oldJobs = q.oldJobs /\ run'[r].old = q.old
             /\ run'[r].rest = q.rest \ {c} /\ run'[r].doomed = q.doomed
             /\ run'[r].listing = UpsertListings(q, c, j)
             /\ run'[r].jobs = [q.jobs EXCEPT ![j] = Written(q.jobs[j], rep)]
  BY <1>1, <1>3 DEF RunRecords
<1>4. ASSUME run' = [run EXCEPT ![r].rest = {}, ![r].doomed = TRUE]
      PROVE  /\ run'[r].pc = "open" /\ run'[r].clusters = q.clusters /\ run'[r].lone = q.lone
             /\ run'[r].oldJobs = q.oldJobs /\ run'[r].old = q.old
             /\ run'[r].rest = {} /\ run'[r].doomed
  BY <1>1, <1>4 DEF RunRecords
<1>5. ASSUME run' = [run EXCEPT
                       ![r].rest = @ \ {c},
                       ![r].jobs[id] = Written(blank, rep),
                       ![r].listing = UpsertListings(q, c, id),
                       ![r].written = @ \cup c,
                       ![r].born = [j \in DOMAIN @ \cup {id} |->
                                      IF j = id THEN Written(blank, rep) ELSE @[j]]]
      PROVE  /\ run'[r].pc = "open" /\ run'[r].clusters = q.clusters /\ run'[r].lone = q.lone
             /\ run'[r].oldJobs = q.oldJobs /\ run'[r].old = q.old
             /\ run'[r].rest = q.rest \ {c} /\ run'[r].doomed = q.doomed
             /\ run'[r].listing = UpsertListings(q, c, id)
  BY <1>1, <1>5 DEF RunRecords
<1> QED
  BY <1>2, <1>3, <1>4, <1>5

\* The run that is by itself stays so with every cluster it takes.
LEMMA ByItselfGoesOn ==
    ASSUME JInv, QuietInv, NEW r \in Runs, StoreCluster(r), run[r].lone
    PROVE  ByItself(r)'
<1> DEFINE q == run[r]
           p == run'[r]
<1>1. /\ StoredType /\ q \in RunRecords /\ Ready(q) /\ Builds(q) /\ Sound(q.jobs, q.listing)
      /\ q.pc = "open"
  BY DEF JInv, StoredType, StoreCluster, Ready
<1>2. ByItself(r)
  BY <1>1 DEF QuietInv
<1>3. PICK c \in q.rest :
             /\ p.pc = "open" /\ p.clusters = q.clusters /\ p.lone = q.lone
             /\ p.oldJobs = q.oldJobs /\ p.old = q.old
             /\ \/ \E j \in FindExistingJob(q, c) :
                      /\ p.rest = q.rest \ {c} /\ p.doomed = q.doomed
                      /\ p.listing = UpsertListings(q, c, j)
                      /\ p.jobs = [q.jobs EXCEPT ![j] = Written(q.jobs[j], Rep(c))]
                \/ /\ FindExistingJob(q, c) = {}
                   /\ p.rest = q.rest \ {c} /\ p.doomed = q.doomed
                   /\ p.listing = UpsertListings(q, c, CanonicalId(Rep(c)))
                \/ /\ FindExistingJob(q, c) = {}
                   /\ p.rest = {} /\ p.doomed
  BY ClusterOutcome
<1>4. /\ world' = world /\ jobs' = jobs /\ listing' = listing /\ stored' = stored
      /\ \A s \in Runs \ {r} : run'[s] = run[s]
  BY <1>1 DEF StoreCluster, StoredType
<1>5. /\ c \in SUBSET Keys /\ c # {} /\ \A k \in c : world[k] # Gone
  BY <1>1 DEF Ready, RunRecords
<1>6. c \in q.clusters /\ \A d \in q.clusters : d # c => d \cap c = {}
  BY <1>2, <1>3 DEF ByItself
<1>7. \A j \in FindExistingJob(q, c) : j \in Ids /\ q.jobs[j] # NoJob
  BY <1>1, <1>5, FoundExists
<1>8. CanonicalId(Rep(c)) \in Ids
  BY <1>1, <1>5, IdFacts
<1>9. ASSUME NEW j \in Ids, p.listing = UpsertListings(q, c, j), p.rest = q.rest \ {c},
             p.doomed = q.doomed, ~p.doomed, NEW d \in p.clusters \ p.rest
      PROVE  Together(p.listing, d)
  <2>1. CASE d = c
    <3>1. \A k \in c : /\ p.listing[k].job = j /\ p.listing[k].ats = world[k].ats
                       /\ p.listing[k].url = world[k].url /\ p.listing[k] \in Listings
      <4> SUFFICES ASSUME NEW k \in c
                   PROVE  /\ p.listing[k].job = j /\ p.listing[k].ats = world[k].ats
                          /\ p.listing[k].url = world[k].url /\ p.listing[k] \in Listings
        OBVIOUS
      <4>1. world[k] # Gone /\ c \in SUBSET Keys /\ StoredType
        BY <1>1, <1>5
      <4> HIDE DEF p, q
      <4>2. /\ UpsertListings(q, c, j)[k].job = j
            /\ UpsertListings(q, c, j)[k].ats = world[k].ats
            /\ UpsertListings(q, c, j)[k].url = world[k].url
            /\ UpsertListings(q, c, j)[k] \in Listings
        BY <4>1, UpsertFacts
      <4> QED
        BY <1>9, <4>2
    <3> QED
      BY <2>1, <3>1, StoredAssumption DEF Together
  <2>2. CASE d # c
    <3>1. d \in q.clusters \ q.rest /\ d \cap c = {}
      BY <1>3, <1>6, <1>9, <2>2
    <3>2. Together(q.listing, d) /\ d \subseteq Keys
      BY <1>1, <1>2, <1>9, <3>1 DEF ByItself, RunRecords
    <3>3. \A k \in d : p.listing[k] = q.listing[k]
      BY <1>9, <3>1, <3>2 DEF UpsertListings
    <3> QED
      BY <3>2, <3>3 DEF Together
  <2> QED
    BY <2>1, <2>2
<1>10. ~p.doomed => \A d \in p.clusters \ p.rest : Together(p.listing, d)
  BY <1>3, <1>7, <1>8, <1>9
<1>11. ASSUME q.clusters = stored
       PROVE  p.listing = listing /\ \A id \in Ids : (p.jobs[id] = NoJob) = (jobs[id] = NoJob)
  <2>1. /\ q.listing = listing /\ Together(listing, c)
        /\ \A id \in Ids : (q.jobs[id] = NoJob) = (jobs[id] = NoJob)
    BY <1>2, <1>6, <1>11 DEF ByItself, QuietInv
  <2>2. \A k \in c : FindExistingJob(q, c) = {listing[k].job}
    BY <1>5, <2>1, TogetherIsFound
  <2>3. PICK j \in FindExistingJob(q, c) :
            /\ p.listing = UpsertListings(q, c, j)
            /\ p.jobs = [q.jobs EXCEPT ![j] = Written(q.jobs[j], Rep(c))]
    BY <1>3, <1>5, <2>2
  <2>4. \A k \in c : listing[k].job = j
    BY <2>2, <2>3
  <2>5. \A k \in Keys : p.listing[k] = listing[k]
    <3> SUFFICES ASSUME NEW k \in Keys
                 PROVE  p.listing[k] = listing[k]
      OBVIOUS
    <3>1. CASE k \notin c
      BY <2>1, <2>3, <3>1 DEF UpsertListings
    <3>2. CASE k \in c
      <4>1. p.listing[k] = [job |-> j, ats |-> world[k].ats, url |-> world[k].url]
        BY <2>3, <3>2 DEF UpsertListings, Member
      <4>2. listing[k] \in Listings
        BY <1>1, <2>1, <3>2 DEF Together, StoredType, ListingTables
      <4>3. listing[k].job = j /\ listing[k].ats = world[k].ats /\ listing[k].url = world[k].url
        BY <2>1, <2>4, <3>2 DEF Together
      <4> QED
        BY <4>1, <4>2, <4>3 DEF Listings
    <3> QED
      BY <3>1, <3>2
  <2>6. p.listing = listing
    <3>1. p.listing = [k \in Keys |-> p.listing[k]]
      BY <2>3 DEF UpsertListings
    <3>2. listing = [k \in Keys |-> listing[k]]
      BY <1>1 DEF StoredType, ListingTables
    <3> QED
      BY <2>5, <3>1, <3>2
  <2>7. q.jobs \in JobTables /\ j \in Ids /\ q.jobs[j] # NoJob
    BY <1>1, <1>7 DEF RunRecords
  <2>8. Written(q.jobs[j], Rep(c)) # NoJob
    <3>1. q.jobs[j] \in JobRows
      BY <2>7 DEF JobTables
    <3>2. \A row \in JobRows : Written(row, Rep(c)) \in JobRows
      BY <1>1, <1>5, WrittenFacts
    <3> QED
      BY <3>1, <3>2, StoredAssumption
  <2>9. \A id \in Ids : p.jobs[id] = NoJob <=> q.jobs[id] = NoJob
    BY <2>3, <2>7, <2>8 DEF JobTables
  <2> QED
    BY <2>1, <2>6, <2>9
<1>12. p.rest \subseteq p.clusters
  BY <1>2, <1>3 DEF ByItself
<1> QED
  BY <1>2, <1>3, <1>4, <1>10, <1>11, <1>12 DEF ByItself, Together

\* A run that nothing overlapped writes what it holds.
LEMMA LoneCommit ==
    ASSUME JInv, QuietInv, NEW r \in Runs, Commit(r), run[r].lone
    PROVE  listing' = run[r].listing
<1> DEFINE q == run[r]
<1>1. /\ StoredType /\ q \in RunRecords /\ Builds(q) /\ q.pc = "open"
      /\ listing' = [k \in Keys |-> WriteListing(k, q)]
  BY DEF JInv, StoredType, Ready, Commit
<1>2. q.old = listing
  BY <1>1 DEF QuietInv, ByItself
<1>3. q.listing \in ListingTables /\ listing \in ListingTables
  BY <1>1 DEF StoredType, RunRecords
<1> HIDE DEF q
<1>4. ASSUME NEW k \in Keys
      PROVE  WriteListing(k, q) = q.listing[k]
  <2>1. CASE q.listing[k] = listing[k] \/ listing[k] = NoListing
    BY <1>2, <2>1 DEF WriteListing
  <2>2. CASE q.listing[k] # listing[k] /\ listing[k] # NoListing
    <3>1. q.listing[k] \in Listings /\ listing[k] \in Listings
      BY <1>1, <1>2, <1>3, <2>2 DEF Builds, ListingTables
    <3>2. WriteListing(k, q) =
             [job |-> Column(listing[k].job, listing[k].job, q.listing[k].job),
              ats |-> Column(listing[k].ats, listing[k].ats, q.listing[k].ats),
              url |-> Column(listing[k].url, listing[k].url, q.listing[k].url)]
      BY <1>2, <2>2 DEF WriteListing
    <3>3. WriteListing(k, q) =
             [job |-> q.listing[k].job, ats |-> q.listing[k].ats, url |-> q.listing[k].url]
      BY <3>2 DEF Column
    <3> QED
      BY <3>1, <3>3 DEF Listings
  <2> QED
    BY <2>1, <2>2
<1>5. q.listing = [k \in Keys |-> q.listing[k]]
  BY <1>3 DEF ListingTables
<1> QED
  BY <1>1, <1>4, <1>5 DEF q

LEMMA NextQuietInv == JInv /\ QuietInv /\ [StoredNext]_storedVars => QuietInv'
<1> SUFFICES ASSUME JInv, QuietInv, [StoredNext]_storedVars
             PROVE  QuietInv'
  OBVIOUS
<1>0. StoredType /\ run \in [Runs -> RunRecords]
  BY DEF JInv, StoredType
<1>1. ASSUME NEW r \in Runs, Load(r)
      PROVE  QuietInv'
  <2>1. PICK A \in Answers : \E P \in Clusterings({k \in A : world[k] # Gone}) :
          run' = [t \in Runs |->
             IF t # r THEN [run[t] EXCEPT !.lone = FALSE]
             ELSE [IdleRun EXCEPT !.pc = "open", !.clusters = P, !.rest = P, !.lone = Alone(r),
                                  !.oldJobs = jobs, !.old = listing,
                                  !.jobs = jobs, !.listing = listing]]
    BY <1>1 DEF Load
  <2>2. PICK P \in Clusterings({k \in A : world[k] # Gone}) :
          run' = [t \in Runs |->
             IF t # r THEN [run[t] EXCEPT !.lone = FALSE]
             ELSE [IdleRun EXCEPT !.pc = "open", !.clusters = P, !.rest = P, !.lone = Alone(r),
                                  !.oldJobs = jobs, !.old = listing,
                                  !.jobs = jobs, !.listing = listing]]
    BY <2>1
  <2>3. \A s \in Runs \ {r} : run'[s].lone = FALSE /\ run'[s].pc = run[s].pc
    BY <1>0, <2>2 DEF RunRecords
  <2>4. /\ run'[r].lone = Alone(r) /\ run'[r].clusters = P /\ run'[r].rest = P
        /\ run'[r].oldJobs = jobs /\ run'[r].old = listing
        /\ run'[r].jobs = jobs /\ run'[r].listing = listing
    BY <2>2 DEF IdleRun
  <2>5. \A c, d \in P : c # d => c \cap d = {}
    BY DEF Clusterings, IsClustering
  <2>6. world' = world /\ jobs' = jobs /\ listing' = listing /\ stored' = stored
    BY <1>1 DEF Load
  <2>7. run'[r].lone => ByItself(r)'
    BY <2>3, <2>4, <2>5, <2>6 DEF ByItself, Alone
  <2> QED
    BY <2>3, <2>6, <2>7 DEF QuietInv, Together
<1>2. ASSUME NEW r \in Runs, StoreCluster(r)
      PROVE  QuietInv'
  <2>1. /\ world' = world /\ listing' = listing /\ stored' = stored /\ run[r].pc = "open"
        /\ \A s \in Runs \ {r} : run'[s] = run[s]
    BY <1>0, <1>2 DEF StoreCluster
  <2>2. run'[r].lone = run[r].lone
    BY <1>2, ClusterOutcome
  <2>3. \A s \in Runs \ {r} : ~(run[s].pc = "open" /\ run[s].lone)
    BY <2>1 DEF QuietInv, ByItself
  <2>4. run[r].lone => ByItself(r)'
    BY <1>2, ByItselfGoesOn
  <2> QED
    BY <2>1, <2>2, <2>3, <2>4 DEF QuietInv, Together
<1>3. ASSUME NEW r \in Runs, Commit(r)
      PROVE  QuietInv'
  <2>1. /\ run[r].pc = "open" /\ run[r].rest = {} /\ ~run[r].doomed
        /\ stored' = (IF run[r].lone THEN run[r].clusters ELSE {}) /\ world' = world
        /\ run'[r] = IdleRun /\ \A s \in Runs \ {r} : run'[s] = run[s]
    BY <1>0, <1>3 DEF Commit, Collides
  <2>2. \A s \in Runs : ~(run'[s].pc = "open" /\ run'[s].lone)
    <3>1. IdleRun.pc = "idle"
      BY DEF IdleRun
    <3> QED
      BY <2>1, <3>1 DEF QuietInv, ByItself
  <2>3. ASSUME NEW c \in stored'
        PROVE  Together(listing, c)'
    <3>1. run[r].lone /\ c \in run[r].clusters
      BY <2>1, <2>3
    <3>2. Together(run[r].listing, c)
      BY <2>1, <3>1 DEF QuietInv, ByItself
    <3>3. listing' = run[r].listing
      BY <1>3, <3>1, LoneCommit
    <3> QED
      BY <2>1, <3>2, <3>3 DEF Together
  <2> QED
    BY <2>2, <2>3 DEF QuietInv
<1>4. ASSUME NEW r \in Runs, Fail(r)
      PROVE  QuietInv'
  <2>1. /\ world' = world /\ listing' = listing /\ stored' = stored /\ run[r].pc = "open"
        /\ run'[r] = IdleRun /\ \A s \in Runs \ {r} : run'[s] = run[s]
    BY <1>0, <1>4 DEF Fail
  <2>2. \A s \in Runs : ~(run'[s].pc = "open" /\ run'[s].lone)
    <3>1. IdleRun.pc = "idle"
      BY DEF IdleRun
    <3> QED
      BY <2>1, <3>1 DEF QuietInv, ByItself
  <2> QED
    BY <2>1, <2>2 DEF QuietInv, Together
<1>5. ASSUME NEW k \in Keys, Changes(k)
      PROVE  QuietInv'
  <2>1. stored' = {} /\ run' = run /\ \A r \in Runs : run[r].pc = "idle"
    BY <1>5 DEF Changes
  <2> QED
    BY <2>1 DEF QuietInv
<1>6. ASSUME UNCHANGED storedVars
      PROVE  QuietInv'
  BY <1>6 DEF storedVars, QuietInv, ByItself, Together
<1> QED
  BY <1>1, <1>2, <1>3, <1>4, <1>5, <1>6 DEF StoredNext

\* A run that finds what the run before it has stored, with nothing overlapping,
\* adds no job and moves no listing, for any postings and clusterings
\* (find_existing_job, _upsert_listings).
THEOREM SameAgainIsAlwaysQuiet == StoredSpec => SameAgainIsQuiet
<1>1. StoredInit => JInv /\ QuietInv
  <2>1. StoredInit => QuietInv
    BY DEF StoredInit, QuietInv, IdleRun
  <2> QED
    BY <2>1, InitJInv
<1>2. JInv /\ QuietInv /\ [StoredNext]_storedVars => (JInv /\ QuietInv)'
  BY NextJInv, NextQuietInv
<1>3. JInv /\ QuietInv /\ [StoredNext]_storedVars
        => [\A r \in Runs :
              run[r].pc = "open" /\ run'[r].pc = "idle" /\ run[r].lone
              /\ run[r].clusters = stored
              => listing' = listing /\ \A j \in Ids : (jobs'[j] = NoJob) = (jobs[j] = NoJob)]_storedVars
  <2> SUFFICES ASSUME JInv, QuietInv, StoredNext, NEW r \in Runs,
                      run[r].pc = "open", run'[r].pc = "idle", run[r].lone, run[r].clusters = stored
               PROVE  listing' = listing /\ \A j \in Ids : (jobs'[j] = NoJob) = (jobs[j] = NoJob)
    OBVIOUS
  <2>1. /\ StoredType /\ run \in [Runs -> RunRecords] /\ Builds(run[r])
        /\ run[r].listing = listing /\ \A id \in Ids : (run[r].jobs[id] = NoJob) = (jobs[id] = NoJob)
    BY DEF JInv, StoredType, Ready, QuietInv, ByItself
  <2>2. ASSUME Commit(r)
        PROVE  listing' = listing /\ \A j \in Ids : (jobs'[j] = NoJob) = (jobs[j] = NoJob)
    <3>1. listing' = listing
      BY <2>1, <2>2, LoneCommit
    <3>2. \A id \in Ids : jobs'[id] = WriteJob(id, run[r])
      BY <2>2 DEF Commit
    <3>3. \A id \in Ids : jobs[id] # NoJob \/ run[r].jobs[id] # NoJob <=> WriteJob(id, run[r]) # NoJob
      BY <2>1, CommitGrows
    <3> QED
      BY <2>1, <3>1, <3>2, <3>3
  <2>3. ASSUME listing' = listing, jobs' = jobs
        PROVE  listing' = listing /\ \A j \in Ids : (jobs'[j] = NoJob) = (jobs[j] = NoJob)
    BY <2>3
  <2>4. ASSUME NEW s \in Runs, Commit(s)
        PROVE  s = r
    BY <2>1, <2>4 DEF Commit
  <2>5. ASSUME NEW s \in Runs, Load(s) \/ StoreCluster(s) \/ Fail(s)
        PROVE  listing' = listing /\ jobs' = jobs
    BY <2>5 DEF Load, StoreCluster, Fail
  <2>6. ASSUME NEW k \in Keys, Changes(k)
        PROVE  listing' = listing /\ jobs' = jobs
    BY <2>6 DEF Changes
  <2> QED
    BY <2>2, <2>3, <2>4, <2>5, <2>6 DEF StoredNext
<1> QED
  BY <1>1, <1>2, <1>3, PTL DEF StoredSpec, SameAgainIsQuiet
=============================================================================
