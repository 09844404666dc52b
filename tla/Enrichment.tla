----------------------------- MODULE Enrichment -----------------------------
(***************************************************************************)
(* A language model reads postings and its facts are stored with them      *)
(* (services/enrichment.py, pipeline/llm.py).  A search run reads within   *)
(* its persist transaction; the command reads a backlog for hours, keeps   *)
(* the rows it has loaded in memory, and commits as it goes.  Provider     *)
(* answers are rate limited, run out of room, are unusable, or say that    *)
(* the quota is gone.                                                      *)
(*                                                                         *)
(* A text stands for what the prompt shows of a posting, description and   *)
(* requirements, and for the facts read from it.  The hash is another      *)
(* matter: of the title, company, place and first 6000 characters of the   *)
(* leading listing alone, while other listings of the cluster fill in what *)
(* it leaves out.                                                          *)
(***************************************************************************)
EXTENDS Integers, FiniteSets

CONSTANTS
    Jobs,
    Texts, Hashes,
    SightingsOf,      \* what the clusters of a posting say: a hash, and a text or NoText
    MayGo,            \* postings that may go off their lists
    NoText,           \* a cluster without a description; a posting without one
    NotRead,
    Affinity,         \* how well a title fits the roles looked for
    MinAffinity,
    Unreadable,       \* postings the model need never give a usable answer about
    ScanLimit,        \* the candidates whose titles are looked at
    MaxCalls,         \* calls of a run, and postings the command is to read
    CommitEvery,
    Runs, Commands,
    NoCall, Idle

Sightings == [hash : Hashes, text : Texts \cup {NoText}]

ASSUME EnrichmentAssumption ==
    /\ SightingsOf \in [Jobs -> SUBSET Sightings]
    /\ NoText \notin Texts \cup Hashes /\ NotRead \notin Texts \cup Hashes \cup {NoText}
    /\ Affinity \in [Jobs -> Nat] /\ MinAffinity \in Nat /\ Unreadable \cup MayGo \subseteq Jobs
    /\ MaxCalls \in Nat /\ ScanLimit \in Nat /\ CommitEvery \in Nat \ {0}
    /\ Runs \cap Commands = {} /\ IsFiniteSet(Jobs)

VARIABLES
    row,      \* the jobs table: is_active, text, content_hash, enrichment_hash, enrichment
    work      \* what each run or command has loaded, changed, and left to do

enrichmentVars == <<row, work>>

Workers == Runs \cup Commands

\* `read' is the hash the facts were read under.
Rows == [active : BOOLEAN, text : Texts \cup {NoText}, hash : Hashes \cup {NoText},
         read : Hashes \cup {NoText, NotRead}, facts : Texts \cup {NotRead}]

NewRow == [active |-> FALSE, text |-> NoText, hash |-> NoText, read |-> NotRead, facts |-> NotRead]

EnrichmentInit ==
    /\ row = [j \in Jobs |-> NewRow]
    /\ work = [w \in Workers |-> Idle]

\* What the run writes of a cluster: a text is kept if the cluster has none, the hash
\* is the cluster's.  (Where only a part of the text is missing, the sighting's text is
\* the one that comes of it.)
Sighted(old, s) ==
    [old EXCEPT !.active = TRUE, !.text = IF s.text = NoText THEN @ ELSE s.text, !.hash = s.hash]

\* What it writes of a posting nobody lists any more.
Expired(old) == [old EXCEPT !.active = FALSE]

-----------------------------------------------------------------------------
(* What is read. *)

\* Postings never read, without those that have changed since.
NeverRead(rows) ==
    {j \in Jobs : rows[j].active /\ rows[j].text # NoText /\ rows[j].read = NotRead}

\* The postings still listed that have a text and were not read as they are now.
Candidates(rows) ==
    {j \in Jobs : rows[j].active /\ rows[j].text # NoText /\ rows[j].read # rows[j].hash}

\* Some of them, as many as the query returns: it states no order.
Scans(rows) ==
    LET C == Candidates(rows) IN
    {S \in SUBSET C : Cardinality(S) = IF Cardinality(C) < ScanLimit THEN Cardinality(C) ELSE ScanLimit}

Fitting == {j \in Jobs : Affinity[j] >= MinAffinity}

\* Those whose title fits a role, the best of them up to a limit; ties are broken
\* either way.
Targets(rows, limit) ==
    UNION {LET F == S \cap Fitting
               n == IF Cardinality(F) < limit THEN Cardinality(F) ELSE limit
           IN  {T \in SUBSET F : Cardinality(T) = n
                                 /\ \A j \in T, k \in F \ T : Affinity[j] >= Affinity[k]}
           : S \in Scans(rows)}

\* A posting costs one call, and no more are loaded than there are calls.
Loaded(mine, todo) ==
    [base |-> row, mine |-> mine, todo |-> todo, call |-> NoCall, enriched |-> 0, due |-> FALSE]

\* What deduplication and score_all may have spent of the calls of a run: nothing
\* where both are switched off, or, asking about posting after posting, all of them.
CallsUsedBefore == {0, MaxCalls}

\* A run stores what it has found and expires what it has missed, in a transaction that
\* stays open; earlier stages have used some of its calls.
Persist(r, used) ==
    /\ work[r] = Idle
    /\ \E seen \in SUBSET Jobs :
         \E found \in {f \in [seen -> Sightings] : \A j \in seen : f[j] \in SightingsOf[j]},
            gone \in SUBSET {j \in MayGo \ seen : row[j].active} :
            LET mine == [j \in Jobs |-> IF j \in seen THEN Sighted(row[j], found[j])
                                       ELSE IF j \in gone THEN Expired(row[j]) ELSE row[j]] IN
            \E todo \in Targets(mine, MaxCalls - used) :
               work' = [work EXCEPT ![r] = Loaded(mine, todo)]
    /\ UNCHANGED row

\* The command.
Backfill(c) ==
    /\ work[c] = Idle
    /\ \E todo \in Targets(row, MaxCalls) :
          work' = [work EXCEPT ![c] = Loaded(row, todo)]
    /\ UNCHANGED row

-----------------------------------------------------------------------------
(* Calls. *)

Asking(w) == work[w] # Idle /\ work[w].call # NoCall

\* The next call is on the best posting left.
Ask(w) ==
    /\ work[w] # Idle /\ ~Asking(w) /\ ~work[w].due
    /\ \E j \in work[w].todo :
         /\ \A k \in work[w].todo : Affinity[j] >= Affinity[k]
         /\ work' = [work EXCEPT ![w].call = [job |-> j, roomy |-> FALSE],
                                ![w].todo = @ \ {j}]
    /\ UNCHANGED row

\* A 429 that will pass is waited out RATE_LIMIT_RETRIES times, during which nothing
\* changes, and then given up.
Limited(w) ==
    /\ Asking(w)
    /\ work' = [work EXCEPT ![w].call = NoCall]
    /\ UNCHANGED row

\* A 429 that will not: the rest is left for another time.
QuotaGone(w) ==
    /\ Asking(w)
    /\ work' = [work EXCEPT ![w].call = NoCall, ![w].todo = {}]
    /\ UNCHANGED row

\* The model was still thinking at the limit: asked once more, with more room.
OutOfRoom(w) ==
    /\ Asking(w) /\ ~work[w].call.roomy
    /\ work' = [work EXCEPT ![w].call.roomy = TRUE]
    /\ UNCHANGED row

\* An error, a time-out, or no JSON: the posting is passed over.
Unusable(w, j) ==
    /\ Asking(w) /\ work[w].call.job = j
    /\ work' = [work EXCEPT ![w].call = NoCall]
    /\ UNCHANGED row

\* The ORM writes the columns that are not as they were loaded.
Flushed(w, mine) ==
    [j \in Jobs |-> [c \in DOMAIN row[j] |->
        IF mine[j][c] = work[w].base[j][c] THEN row[j][c] ELSE mine[j][c]]]

\* apply_facts that asks the database for the hash again.
FactsNow(mine, j) ==
    [mine EXCEPT ![j].read = row[j].hash, ![j].facts = mine[j].text]

\* apply_facts.
WithFacts(mine, j) ==
    [mine EXCEPT ![j].read = mine[j].hash, ![j].facts = mine[j].text]

\* A command that commits once, as a run does.
NeverDue(w) == FALSE

\* commit_every, of the command; a run commits once.
CheckpointDue(w) == w \in Commands /\ (work[w].enriched + 1) % CommitEvery = 0

Facts(w, j) ==
    /\ Asking(w) /\ work[w].call.job = j
    /\ work' = [work EXCEPT ![w].mine = WithFacts(@, j), ![w].call = NoCall,
                           ![w].enriched = @ + 1, ![w].due = CheckpointDue(w)]
    /\ UNCHANGED row

\* What is read so far is committed; the rows stay loaded.
Checkpoint(w) ==
    /\ work[w] # Idle /\ work[w].due
    /\ row' = Flushed(w, work[w].mine)
    /\ work' = [work EXCEPT ![w].base = work[w].mine, ![w].due = FALSE]

\* The batch is over and what is left of it is committed.
Finish(w) ==
    /\ work[w] # Idle /\ ~Asking(w) /\ ~work[w].due /\ work[w].todo = {}
    /\ row' = Flushed(w, work[w].mine)
    /\ work' = [work EXCEPT ![w] = Idle]

\* The process is stopped, or its transaction fails, at a checkpoint too.
Interrupt(w) ==
    /\ work[w] # Idle
    /\ work' = [work EXCEPT ![w] = Idle]
    /\ UNCHANGED row

Answer(w) ==
    \/ Limited(w) \/ QuotaGone(w) \/ OutOfRoom(w)
    \/ \E j \in Jobs : Unusable(w, j) \/ Facts(w, j)

Work(w) == Ask(w) \/ Answer(w) \/ Checkpoint(w) \/ Finish(w)

EnrichmentNext ==
    \/ \E r \in Runs, used \in CallsUsedBefore : Persist(r, used)
    \/ \E c \in Commands : Backfill(c)
    \/ \E w \in Workers : Work(w) \/ Interrupt(w)

\* Cron starts runs, and not all of them spend their calls before they read; who
\* is asked answers: not always that the limit is reached, and about a readable
\* posting not always uselessly.
EnrichmentFairness ==
    /\ \A r \in Runs : SF_enrichmentVars(Persist(r, 0))
    /\ \A w \in Workers : WF_enrichmentVars(Work(w))
    /\ \A r \in Runs, j \in Fitting : SF_enrichmentVars(Facts(r, j) \/ (j \in Unreadable /\ Unusable(r, j)))

EnrichmentSpec == EnrichmentInit /\ [][EnrichmentNext]_enrichmentVars
FairEnrichmentSpec == EnrichmentSpec /\ EnrichmentFairness

-----------------------------------------------------------------------------
(* Properties. *)

\* One source lists the posting, with its description, and the hash covers all of it.
OneToOne(j) ==
    \A s, u \in SightingsOf[j] : s.text # NoText /\ (s.hash = u.hash <=> s.text = u.text)

\* "stale facts about it are worse than none": a posting that counts as read has the
\* facts of its text, whoever edits it while the model is reading.  (Only where the
\* hash tells the texts of a posting apart: an edit beyond the 6000th character, or of
\* requirements another source fills in, changes the text under the same hash.)
ReadingsAreOfTheText ==
    \A j \in {k \in Jobs : OneToOne(k)} :
        row[j].read = row[j].hash => row[j].facts = row[j].text

\* "leaves the jobs it already read enriched": stopping the command, between a reading
\* and its checkpoint too, costs no more readings than a checkpoint saves.
InterruptionsLoseLittle ==
    [][\A c \in Commands : Interrupt(c) =>
          Cardinality({j \in Jobs : work[c].mine[j] # work[c].base[j]}) <= CommitEvery]_enrichmentVars

\* Not the end of a batch that has nothing to write.
CutShort(w) == Interrupt(w) /\ (Asking(w) \/ work[w].todo # {} \/ work[w].mine # work[w].base)

Settled(j, h) == row[j].active /\ row[j].text # NoText /\ row[j].hash = h

\* A run looks at the titles of all that is unread.
AllAreScanned(r) == work[r] # Idle => Cardinality(Candidates(work[r].mine)) <= ScanLimit

\* Postings the model cannot make sense of are asked about again by every run,
\* before those that fit less well.  As long as they are fewer than a run has
\* calls, all that is unread is within the limit of the query, and runs are not cut
\* short for ever, any posting that fits and stays listed as it is comes to be read.
PostingsAreRead ==
    /\ <>[][\A w \in Workers : ~CutShort(w)]_enrichmentVars
    /\ <>[](\A r \in Runs : AllAreScanned(r))
    => \A j \in Fitting \ Unreadable :
          \A h \in {s.hash : s \in SightingsOf[j]} : <>[]Settled(j, h) => <>[](row[j].read = h)
=============================================================================
