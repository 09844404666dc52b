------------------------- MODULE Enrichment_proofs -------------------------
(***************************************************************************)
(* That a posting whose hash tells its texts apart carries the facts of its *)
(* text once it counts as read, and that a command stopped at any time      *)
(* loses no more than a checkpoint saves: for any postings, texts, workers, *)
(* limits and quotas.                                                       *)
(***************************************************************************)
EXTENDS Enrichment, FiniteSetTheorems, TLAPS

-----------------------------------------------------------------------------
(* Counting up to the next checkpoint. *)

LEMMA QuotientIsUnique ==
    ASSUME NEW k \in Nat \ {0}, NEW q \in Int, NEW p \in Int, NEW r \in Nat, NEW s \in Nat,
           r < k, s < k, k * q + r = k * p + s
    PROVE  q = p
<1>1. k * (q - p) = s - r /\ k * (p - q) = r - s
  OBVIOUS
<1>2. CASE q > p
  <2>1. k * (q - p) >= k * 1
    BY <1>2
  <2> QED
    BY <1>1, <2>1
<1>3. CASE q < p
  <2>1. k * (p - q) >= k * 1
    BY <1>3
  <2> QED
    BY <1>1, <2>1
<1> QED
  BY <1>2, <1>3

\* Between two multiples the remainder counts.
LEMMA RemainderCounts ==
    ASSUME NEW n \in Nat, NEW k \in Nat \ {0}, (n + 1) % k # 0
    PROVE  (n + 1) % k = (n % k) + 1
<1> DEFINE q == n \div k
           r == n % k
           p == (n + 1) \div k
           s == (n + 1) % k
<1>1. n = k * q + r /\ n + 1 = k * p + s
  OBVIOUS
<1>2. q \in Int /\ p \in Int /\ r \in Nat /\ s \in Nat /\ r < k /\ s < k
  OBVIOUS
<1> HIDE DEF q, r, p, s
<1>3. CASE r + 1 = k
  <2>1. k * (q + 1) = k * q + k
    BY <1>2
  <2>2. k * (q + 1) + 0 = k * p + s
    BY <1>1, <1>2, <1>3, <2>1
  <2>3. p = q + 1
    BY <2>2, <1>2, QuotientIsUnique
  <2>4. s = 0
    BY <2>2, <2>3, <1>2
  <2> QED
    BY <2>4 DEF s
<1>4. CASE r + 1 < k
  <2>1. k * q + (r + 1) = k * p + s
    BY <1>1, <1>2
  <2>2. p = q
    BY <2>1, <1>2, <1>4, QuotientIsUnique
  <2>3. s = r + 1
    BY <2>1, <2>2, <1>2
  <2> QED
    BY <2>3 DEF s, r
<1> QED
  BY <1>2, <1>3, <1>4

-----------------------------------------------------------------------------
(* The inductive invariant. *)

Table == [Jobs -> Rows]

Calls == [job : Jobs, roomy : BOOLEAN]

Session == [base : Table, mine : Table, todo : SUBSET Jobs,
            call : Calls \cup {NoCall}, enriched : Nat, due : BOOLEAN]

EnrichmentType ==
    /\ row \in Table
    /\ work \in [Workers -> Session \cup {Idle}]

\* Only postings with a text are asked about.
TextsAreAskedAbout ==
    \A w \in Workers : work[w] # Idle =>
        /\ \A j \in work[w].todo : work[w].mine[j].text # NoText
        /\ work[w].call # NoCall => work[w].mine[work[w].call.job].text # NoText

\* Where hash and text tell each other, they are those of one sighting, wherever a row
\* is kept, and so are the facts and the hash they were read under.
OfOneSighting(j, h, t) == [hash |-> h, text |-> t] \in SightingsOf[j]

Together(j, r) ==
    OneToOne(j) =>
        /\ (r.hash = NoText /\ r.text = NoText) \/ OfOneSighting(j, r.hash, r.text)
        /\ (r.read = NotRead /\ r.facts = NotRead) \/ OfOneSighting(j, r.read, r.facts)

RowsMoveTogether ==
    /\ \A j \in Jobs : Together(j, row[j])
    /\ \A w \in Workers : work[w] # Idle =>
          \A j \in Jobs : Together(j, work[w].base[j]) /\ Together(j, work[w].mine[j])

\* The postings a worker has changed since it last committed.
Unsaved(s) == {j \in Jobs : s.mine[j] # s.base[j]}

\* Before a checkpoint that is due, as many as it saves; else, as many as were read
\* since the last.
FewUnsaved(s) == Cardinality(Unsaved(s)) <= IF s.due THEN CommitEvery ELSE s.enriched % CommitEvery

FewAreUnsaved ==
    \A c \in Commands : work[c] # Idle => FewUnsaved(work[c])

\* Nobody is asked before a checkpoint that is due.
CheckpointsComeFirst ==
    \A w \in Workers : (work[w] # Idle /\ work[w].call # NoCall) => ~work[w].due

EnrichmentInv ==
    /\ EnrichmentType /\ TextsAreAskedAbout /\ RowsMoveTogether
    /\ FewAreUnsaved /\ CheckpointsComeFirst

\* What is said of one worker.
SessionOk(w, s) ==
    s # Idle =>
        /\ s \in Session
        /\ \A j \in s.todo : s.mine[j].text # NoText
        /\ s.call # NoCall => s.mine[s.call.job].text # NoText
        /\ \A j \in Jobs : Together(j, s.base[j]) /\ Together(j, s.mine[j])
        /\ w \in Commands => FewUnsaved(s)
        /\ s.call # NoCall => ~s.due

RowOk == row \in Table /\ \A j \in Jobs : Together(j, row[j])

LEMMA InvByWorker ==
    EnrichmentInv <=> /\ RowOk
                      /\ work \in [Workers -> Session \cup {Idle}]
                      /\ \A w \in Workers : SessionOk(w, work[w])
BY DEF EnrichmentInv, EnrichmentType, TextsAreAskedAbout, RowsMoveTogether, FewAreUnsaved,
       CheckpointsComeFirst, SessionOk, RowOk, Workers

\* A step of one worker: what has to be shown.
LEMMA WorkerStep ==
    ASSUME EnrichmentInv, NEW w \in Workers, NEW s,
           work' = [work EXCEPT ![w] = s], SessionOk(w, s), RowOk'
    PROVE  EnrichmentInv'
<1>1. work \in [Workers -> Session \cup {Idle}] /\ \A v \in Workers : SessionOk(v, work[v])
  BY InvByWorker
<1>2. work' \in [Workers -> Session \cup {Idle}]
  BY <1>1 DEF SessionOk
<1>3. \A v \in Workers : SessionOk(v, work'[v])
  BY <1>1
<1>4. EnrichmentInv' <=> /\ RowOk'
                         /\ work' \in [Workers -> Session \cup {Idle}]
                         /\ \A v \in Workers : SessionOk(v, work'[v])
  BY DEF EnrichmentInv, EnrichmentType, TextsAreAskedAbout, RowsMoveTogether, FewAreUnsaved,
         CheckpointsComeFirst, SessionOk, RowOk, Workers
<1> QED
  BY <1>2, <1>3, <1>4

-----------------------------------------------------------------------------
(* Rows. *)

LEMMA NothingUnsaved ==
    ASSUME NEW s, s.mine = s.base
    PROVE  Unsaved(s) = {} /\ Cardinality(Unsaved(s)) = 0
<1>1. Unsaved(s) = {}
  BY DEF Unsaved
<1> QED
  BY <1>1, FS_EmptySet

\* A sighting puts its own hash and text into the row.
LEMMA SightedRow ==
    ASSUME NEW j \in Jobs, NEW old \in Rows, NEW s \in SightingsOf[j], Together(j, old)
    PROVE  Sighted(old, s) \in Rows /\ Together(j, Sighted(old, s))
<1> DEFINE new == Sighted(old, s)
<1>1. s \in Sightings
  BY EnrichmentAssumption
<1>2. /\ new = [old EXCEPT !.active = TRUE, !.text = IF s.text = NoText THEN @ ELSE s.text,
                          !.hash = s.hash]
  BY DEF Sighted
<1>3. /\ new.hash = s.hash /\ new.read = old.read /\ new.facts = old.facts
      /\ s.text # NoText => new.text = s.text
  BY <1>2 DEF Rows
<1>4. new \in Rows
  BY <1>1, <1>2 DEF Rows, Sightings
<1> HIDE DEF new
<1>5. ASSUME OneToOne(j)
      PROVE  OfOneSighting(j, new.hash, new.text)
  <2>1. s.text # NoText
    BY <1>5 DEF OneToOne
  <2>2. [hash |-> s.hash, text |-> s.text] = s
    BY <1>1 DEF Sightings
  <2> QED
    BY <1>3, <2>1, <2>2 DEF OfOneSighting
<1>6. Together(j, new)
  BY <1>3, <1>5 DEF Together
<1> QED
  BY <1>4, <1>6 DEF new

LEMMA ExpiredRow ==
    ASSUME NEW j \in Jobs, NEW old \in Rows, Together(j, old)
    PROVE  Expired(old) \in Rows /\ Together(j, Expired(old))
BY DEF Expired, Rows, Together

\* Of two rows, both columns of a pair differ or neither does.
LEMMA PairsDiffer ==
    ASSUME NEW j \in Jobs, NEW m \in Rows, NEW b \in Rows,
           OneToOne(j), Together(j, m), Together(j, b)
    PROVE  /\ m.text = b.text <=> m.hash = b.hash
           /\ m.read = b.read <=> m.facts = b.facts
<1>1. ASSUME NEW h, NEW t, OfOneSighting(j, h, t)
      PROVE  h \in Hashes /\ t \in Texts
  <2>1. [hash |-> h, text |-> t] \in Sightings /\ [hash |-> h, text |-> t].text # NoText
    BY <1>1, EnrichmentAssumption DEF OfOneSighting, OneToOne
  <2> QED
    BY <2>1 DEF Sightings
<1>2. ASSUME NEW h, NEW t, NEW g, NEW u, OfOneSighting(j, h, t), OfOneSighting(j, g, u)
      PROVE  h = g <=> t = u
  <2>1. [hash |-> h, text |-> t].hash = [hash |-> g, text |-> u].hash
          <=> [hash |-> h, text |-> t].text = [hash |-> g, text |-> u].text
    BY <1>2 DEF OfOneSighting, OneToOne
  <2> QED
    BY <2>1
<1>3. NoText \notin Texts \cup Hashes /\ NotRead \notin Texts \cup Hashes
  BY EnrichmentAssumption
<1>4. /\ (m.hash = NoText /\ m.text = NoText) \/ OfOneSighting(j, m.hash, m.text)
      /\ (b.hash = NoText /\ b.text = NoText) \/ OfOneSighting(j, b.hash, b.text)
  BY DEF Together
<1>5. m.text = b.text <=> m.hash = b.hash
  BY <1>1, <1>2, <1>3, <1>4
<1>6. /\ (m.read = NotRead /\ m.facts = NotRead) \/ OfOneSighting(j, m.read, m.facts)
      /\ (b.read = NotRead /\ b.facts = NotRead) \/ OfOneSighting(j, b.read, b.facts)
  BY DEF Together
<1>7. m.read = b.read <=> m.facts = b.facts
  BY <1>1, <1>2, <1>3, <1>6
<1> QED
  BY <1>5, <1>7

\* Writing the changed columns over a row keeps its pairs together.
LEMMA FlushedRow ==
    ASSUME NEW j \in Jobs, NEW m \in Rows, NEW b \in Rows, NEW r \in Rows,
           Together(j, m), Together(j, b), Together(j, r),
           NEW f, f = [c \in DOMAIN r |-> IF m[c] = b[c] THEN r[c] ELSE m[c]]
    PROVE  f \in Rows /\ Together(j, f)
<1>1. DOMAIN r = {"active", "text", "hash", "read", "facts"}
  BY DEF Rows
<1>2. /\ f = [c \in {"active", "text", "hash", "read", "facts"} |-> f[c]]
      /\ f["active"] = IF m.active = b.active THEN r.active ELSE m.active
      /\ f["text"] = IF m.text = b.text THEN r.text ELSE m.text
      /\ f["hash"] = IF m.hash = b.hash THEN r.hash ELSE m.hash
      /\ f["read"] = IF m.read = b.read THEN r.read ELSE m.read
      /\ f["facts"] = IF m.facts = b.facts THEN r.facts ELSE m.facts
  BY <1>1
<1>3. f = [active |-> f["active"], text |-> f["text"], hash |-> f["hash"],
           read |-> f["read"], facts |-> f["facts"]]
  BY <1>2
<1>4. f \in Rows
  BY <1>2, <1>3 DEF Rows
<1>5. Together(j, f)
  <2> SUFFICES ASSUME OneToOne(j)
               PROVE  Together(j, f)
    BY DEF Together
  <2>1. /\ m.text = b.text <=> m.hash = b.hash
        /\ m.read = b.read <=> m.facts = b.facts
    BY PairsDiffer
  <2>2. \/ f.text = r.text /\ f.hash = r.hash
        \/ f.text = m.text /\ f.hash = m.hash
    BY <1>2, <2>1
  <2>3. \/ f.read = r.read /\ f.facts = r.facts
        \/ f.read = m.read /\ f.facts = m.facts
    BY <1>2, <2>1
  <2> QED
    BY <2>2, <2>3 DEF Together
<1> QED
  BY <1>4, <1>5

LEMMA FlushedTable ==
    ASSUME EnrichmentInv, NEW w \in Workers, work[w] # Idle, NEW mine \in Table,
           \A j \in Jobs : Together(j, mine[j])
    PROVE  /\ Flushed(w, mine) \in Table
           /\ \A j \in Jobs : Together(j, Flushed(w, mine)[j])
<1>1. RowOk /\ SessionOk(w, work[w])
  BY InvByWorker
<1>2. work[w].base \in Table /\ \A j \in Jobs : Together(j, work[w].base[j])
  BY <1>1 DEF SessionOk, Session
<1>3. ASSUME NEW j \in Jobs
      PROVE  Flushed(w, mine)[j] \in Rows /\ Together(j, Flushed(w, mine)[j])
  <2>1. mine[j] \in Rows /\ work[w].base[j] \in Rows /\ row[j] \in Rows
    BY <1>1, <1>2 DEF Table, RowOk
  <2>2. Flushed(w, mine)[j] =
          [c \in DOMAIN row[j] |-> IF mine[j][c] = work[w].base[j][c] THEN row[j][c] ELSE mine[j][c]]
    BY DEF Flushed
  <2> QED
    BY <2>1, <2>2, <1>1, <1>2, FlushedRow DEF RowOk
<1> QED
  BY <1>3 DEF Flushed, Table

\* What is read is read of the text, under its hash.
LEMMA ReadRow ==
    ASSUME NEW j \in Jobs, NEW r \in Rows, Together(j, r), r.text # NoText
    PROVE  LET now == [r EXCEPT !.read = r.hash, !.facts = r.text] IN
           now \in Rows /\ Together(j, now) /\ now.text = r.text
BY DEF Rows, Together

-----------------------------------------------------------------------------
(* The steps. *)

LEMMA InitEnrichmentInv == EnrichmentInit => EnrichmentInv
<1> SUFFICES ASSUME EnrichmentInit
             PROVE  EnrichmentInv
  OBVIOUS
<1>1. RowOk
  BY DEF EnrichmentInit, RowOk, Table, Rows, NewRow, Together
<1>2. work \in [Workers -> Session \cup {Idle}] /\ \A w \in Workers : SessionOk(w, work[w])
  BY DEF EnrichmentInit, SessionOk
<1> QED
  BY <1>1, <1>2, InvByWorker

\* What a run or command starts with.
LEMMA LoadedSession ==
    ASSUME EnrichmentInv, NEW w \in Workers,
           NEW mine \in Table, \A j \in Jobs : Together(j, mine[j]),
           NEW m, NEW todo \in Targets(mine, m),
           w \in Commands => mine = row
    PROVE  SessionOk(w, Loaded(mine, todo))
<1> DEFINE s == Loaded(mine, todo)
<1>1. RowOk
  BY InvByWorker
<1>2. todo \in SUBSET Jobs /\ \A j \in todo : mine[j].text # NoText
  BY DEF Targets, Scans, Candidates
<1>3. s \in Session
  BY <1>1, <1>2 DEF Loaded, Session, RowOk
<1>4. /\ s.base = row /\ s.mine = mine /\ s.todo = todo /\ s.call = NoCall /\ s.enriched = 0
      /\ s.due = FALSE
  BY DEF Loaded
<1>5. w \in Commands => FewUnsaved(s)
  <2>1. 0 % CommitEvery \in Nat
    BY EnrichmentAssumption
  <2> QED
    BY <1>4, <2>1, NothingUnsaved DEF FewUnsaved
<1> HIDE DEF s
<1>6. SessionOk(w, s)
  BY <1>1, <1>2, <1>3, <1>4, <1>5 DEF SessionOk, RowOk
<1> QED
  BY <1>6 DEF s

LEMMA PersistKeeps ==
    ASSUME EnrichmentInv, NEW r \in Runs, NEW used \in CallsUsedBefore, Persist(r, used)
    PROVE  EnrichmentInv'
<1>1. RowOk /\ r \in Workers /\ r \notin Commands /\ row' = row
  BY InvByWorker, EnrichmentAssumption DEF Workers, Persist
<1>2. PICK seen \in SUBSET Jobs :
        \E found \in {f \in [seen -> Sightings] : \A j \in seen : f[j] \in SightingsOf[j]},
           gone \in SUBSET {j \in MayGo \ seen : row[j].active} :
            LET mine == [j \in Jobs |-> IF j \in seen THEN Sighted(row[j], found[j])
                                       ELSE IF j \in gone THEN Expired(row[j]) ELSE row[j]] IN
            \E todo \in Targets(mine, MaxCalls - used) :
               work' = [work EXCEPT ![r] = Loaded(mine, todo)]
  BY DEF Persist
<1>3. PICK found \in {f \in [seen -> Sightings] : \A j \in seen : f[j] \in SightingsOf[j]},
           gone \in SUBSET {j \in MayGo \ seen : row[j].active} :
            LET mine == [j \in Jobs |-> IF j \in seen THEN Sighted(row[j], found[j])
                                       ELSE IF j \in gone THEN Expired(row[j]) ELSE row[j]] IN
            \E todo \in Targets(mine, MaxCalls - used) :
               work' = [work EXCEPT ![r] = Loaded(mine, todo)]
  BY <1>2
<1> DEFINE mine == [j \in Jobs |-> IF j \in seen THEN Sighted(row[j], found[j])
                                  ELSE IF j \in gone THEN Expired(row[j]) ELSE row[j]]
<1>4. PICK todo \in Targets(mine, MaxCalls - used) :
        work' = [work EXCEPT ![r] = Loaded(mine, todo)]
  BY <1>3
<1>5. ASSUME NEW j \in Jobs
      PROVE  mine[j] \in Rows /\ Together(j, mine[j])
  <2>1. row[j] \in Rows /\ Together(j, row[j])
    BY <1>1 DEF RowOk, Table
  <2>2. CASE j \in seen
    <3>1. found[j] \in SightingsOf[j] /\ mine[j] = Sighted(row[j], found[j])
      BY <2>2
    <3> QED
      BY <2>1, <3>1, SightedRow
  <2>3. CASE j \notin seen /\ j \in gone
    <3>1. mine[j] = Expired(row[j])
      BY <2>3
    <3> QED
      BY <2>1, <3>1, ExpiredRow
  <2> QED
    BY <2>1, <2>2, <2>3
<1>6. mine \in Table /\ \A j \in Jobs : Together(j, mine[j])
  BY <1>5 DEF Table
<1> HIDE DEF mine
<1>7. SessionOk(r, Loaded(mine, todo))
  BY <1>1, <1>6, LoadedSession
<1> QED
  BY <1>1, <1>4, <1>7, WorkerStep DEF RowOk

LEMMA BackfillKeeps ==
    ASSUME EnrichmentInv, NEW c \in Commands, Backfill(c)
    PROVE  EnrichmentInv'
<1>1. RowOk /\ c \in Workers /\ row' = row
  BY InvByWorker DEF Workers, Backfill
<1>2. PICK todo \in Targets(row, MaxCalls) :
        work' = [work EXCEPT ![c] = Loaded(row, todo)]
  BY DEF Backfill
<1>3. SessionOk(c, Loaded(row, todo))
  BY <1>1, LoadedSession DEF RowOk
<1> QED
  BY <1>1, <1>2, <1>3, WorkerStep DEF RowOk

\* The next call, and answers that bring nothing.
LEMMA CallKeeps ==
    ASSUME EnrichmentInv, NEW w \in Workers,
           \/ Ask(w) \/ Limited(w) \/ QuotaGone(w) \/ OutOfRoom(w)
           \/ \E j \in Jobs : Unusable(w, j)
    PROVE  EnrichmentInv'
<1> DEFINE old == work[w]
<1>1. RowOk /\ RowOk'
  BY InvByWorker DEF RowOk, Ask, Limited, QuotaGone, OutOfRoom, Unusable
<1>2. /\ old # Idle /\ old \in Session
      /\ \A j \in old.todo : old.mine[j].text # NoText
      /\ old.call # NoCall => old.mine[old.call.job].text # NoText
      /\ \A j \in Jobs : Together(j, old.base[j]) /\ Together(j, old.mine[j])
      /\ w \in Commands => FewUnsaved(old)
      /\ old.call # NoCall => ~old.due
      /\ ~old.due
  BY InvByWorker DEF SessionOk, Ask, Limited, QuotaGone, OutOfRoom, Unusable, Asking
<1>3. ASSUME NEW s \in Session, work' = [work EXCEPT ![w] = s],
             s.base = old.base, s.mine = old.mine, s.enriched = old.enriched, s.due = old.due,
             s.todo \subseteq old.todo,
             s.call # NoCall => \/ s.call.job \in old.todo
                                \/ old.call # NoCall /\ s.call.job = old.call.job
      PROVE  EnrichmentInv'
  <2>1. Unsaved(s) = Unsaved(old)
    BY <1>3 DEF Unsaved
  <2>2. SessionOk(w, s)
    BY <1>2, <1>3, <2>1 DEF SessionOk, FewUnsaved
  <2> QED
    BY <1>1, <1>3, <2>2, WorkerStep
<1>4. /\ old.todo \in SUBSET Jobs /\ old.call \in Calls \cup {NoCall}
  BY <1>2, EnrichmentAssumption DEF Session
<1> HIDE DEF old
<1>5. CASE Ask(w)
  <2>1. PICK j \in old.todo :
          work' = [work EXCEPT ![w] = [old EXCEPT !.call = [job |-> j, roomy |-> FALSE],
                                                  !.todo = @ \ {j}]]
    BY <1>5 DEF Ask, old
  <2> DEFINE s == [old EXCEPT !.call = [job |-> j, roomy |-> FALSE], !.todo = @ \ {j}]
  <2>3. s \in Session
    <3>1. [job |-> j, roomy |-> FALSE] \in Calls
      BY <1>4 DEF Calls
    <3>2. old.todo \ {j} \in SUBSET Jobs
      BY <1>4
    <3> QED
      BY <1>2, <3>1, <3>2 DEF Session
  <2>4. /\ s.base = old.base /\ s.mine = old.mine /\ s.enriched = old.enriched
        /\ s.due = old.due /\ s.todo = old.todo \ {j} /\ s.call.job = j
    BY <1>2 DEF Session
  <2> QED
    BY <1>3, <2>1, <2>3, <2>4
<1>6. CASE Limited(w)
  <2> DEFINE s == [old EXCEPT !.call = NoCall]
  <2>1. work' = [work EXCEPT ![w] = s]
    BY <1>6 DEF Limited, old
  <2>2. s \in Session
    BY <1>2 DEF Session
  <2>3. /\ s.base = old.base /\ s.mine = old.mine /\ s.enriched = old.enriched
        /\ s.due = old.due /\ s.todo = old.todo /\ s.call = NoCall
    BY <1>2 DEF Session
  <2> QED
    BY <1>3, <2>1, <2>2, <2>3
<1>7. CASE QuotaGone(w)
  <2> DEFINE s == [old EXCEPT !.call = NoCall, !.todo = {}]
  <2>1. work' = [work EXCEPT ![w] = s]
    BY <1>7 DEF QuotaGone, old
  <2>2. s \in Session
    BY <1>2 DEF Session
  <2>3. /\ s.base = old.base /\ s.mine = old.mine /\ s.enriched = old.enriched
        /\ s.due = old.due /\ s.todo = {} /\ s.call = NoCall
    BY <1>2 DEF Session
  <2> QED
    BY <1>3, <2>1, <2>2, <2>3
<1>8. CASE OutOfRoom(w)
  <2> DEFINE call == [old.call EXCEPT !.roomy = TRUE]
             s == [old EXCEPT !.call = call]
  <2>1. work' = [work EXCEPT ![w] = s] /\ old.call # NoCall
    BY <1>2, <1>8 DEF OutOfRoom, Asking, old, Session
  <2>2. call \in Calls /\ call.job = old.call.job
    BY <1>4, <2>1 DEF Calls
  <2> HIDE DEF call
  <2>3. s \in Session
    BY <1>2, <2>2 DEF Session
  <2>4. /\ s.base = old.base /\ s.mine = old.mine /\ s.enriched = old.enriched
        /\ s.due = old.due /\ s.todo = old.todo /\ s.call = call
    BY <1>2 DEF Session
  <2> QED
    BY <1>3, <2>1, <2>2, <2>3, <2>4
<1>9. ASSUME NEW j \in Jobs, Unusable(w, j)
      PROVE  EnrichmentInv'
  <2> DEFINE s == [old EXCEPT !.call = NoCall]
  <2>1. work' = [work EXCEPT ![w] = s]
    BY <1>9 DEF Unusable, old
  <2>2. s \in Session
    BY <1>2 DEF Session
  <2>3. /\ s.base = old.base /\ s.mine = old.mine /\ s.enriched = old.enriched
        /\ s.due = old.due /\ s.todo = old.todo /\ s.call = NoCall
    BY <1>2 DEF Session
  <2> QED
    BY <1>3, <2>1, <2>2, <2>3
<1> QED
  BY <1>5, <1>6, <1>7, <1>8, <1>9

\* Facts, kept with all that is unsaved.
LEMMA FactsKeep ==
    ASSUME EnrichmentInv, NEW w \in Workers, NEW j \in Jobs, Facts(w, j)
    PROVE  EnrichmentInv'
<1> DEFINE old == work[w]
           mine == WithFacts(old.mine, j)
           due == CheckpointDue(w)
           more == old.enriched + 1
           s == [old EXCEPT !.mine = mine, !.call = NoCall, !.enriched = more, !.due = due]
<1>1. /\ old # Idle /\ old \in Session /\ old.call # NoCall /\ old.call.job = j
      /\ work' = [work EXCEPT ![w] = s]
      /\ row' = row
  <2>1. old # Idle /\ old \in Session /\ old.call # NoCall /\ old.call.job = j
    BY InvByWorker DEF SessionOk, Facts, Asking
  <2> QED
    BY <2>1 DEF Facts, Session
<1>2. /\ RowOk
      /\ \A k \in old.todo : old.mine[k].text # NoText
      /\ old.mine[j].text # NoText
      /\ \A k \in Jobs : Together(k, old.base[k]) /\ Together(k, old.mine[k])
      /\ w \in Commands => FewUnsaved(old)
      /\ ~old.due
  BY <1>1, InvByWorker DEF SessionOk
<1>3. /\ old.mine \in Table /\ old.base \in Table /\ old.enriched \in Nat
      /\ due \in BOOLEAN
  BY <1>1 DEF Session, CheckpointDue
<1> HIDE DEF old, due
<1>4. /\ mine \in Table
      /\ \A k \in Jobs : Together(k, mine[k]) /\ mine[k].text = old.mine[k].text
      /\ \A k \in Jobs : k # j => mine[k] = old.mine[k]
  <2>1. /\ DOMAIN mine = Jobs
        /\ mine[j] = [old.mine[j] EXCEPT !.read = old.mine[j].hash, !.facts = old.mine[j].text]
        /\ \A k \in Jobs : k # j => mine[k] = old.mine[k]
    BY <1>3 DEF WithFacts, Table, Rows
  <2>2. mine[j] \in Rows /\ Together(j, mine[j]) /\ mine[j].text = old.mine[j].text
    BY <1>2, <1>3, <2>1, ReadRow DEF Table
  <2>3. \A k \in Jobs : mine[k] \in Rows
    BY <1>3, <2>1, <2>2 DEF Table
  <2>4. mine = [k \in Jobs |-> mine[k]]
    BY <1>3 DEF WithFacts, Table
  <2>5. mine \in Table
    BY <2>3, <2>4 DEF Table
  <2> QED
    BY <1>2, <2>1, <2>2, <2>5
<1> HIDE DEF mine
<1>5. /\ s \in Session /\ s.mine = mine /\ s.base = old.base
      /\ s.todo = old.todo /\ s.call = NoCall /\ s.enriched = old.enriched + 1 /\ s.due = due
  <2>1. more \in Nat /\ more = old.enriched + 1
    BY <1>3
  <2>2. s = [old EXCEPT !.mine = mine, !.call = NoCall, !.enriched = more, !.due = due]
    OBVIOUS
  <2> HIDE DEF more, s
  <2> QED
    BY <1>1, <1>3, <1>4, <2>1, <2>2 DEF Session
<1> HIDE DEF s
<1>6. ASSUME w \in Commands
      PROVE  FewUnsaved(s)
  <2>1. Cardinality(Unsaved(s)) <= (old.enriched % CommitEvery) + 1
    <3>1. Unsaved(s) \subseteq Unsaved(old) \cup {j}
      BY <1>4, <1>5 DEF Unsaved
    <3>2. IsFiniteSet(Unsaved(old))
      BY EnrichmentAssumption, FS_Subset DEF Unsaved
    <3>3. /\ IsFiniteSet(Unsaved(old) \cup {j})
          /\ Cardinality(Unsaved(old) \cup {j}) <= Cardinality(Unsaved(old)) + 1
      <4>1. /\ IsFiniteSet(Unsaved(old) \cup {j})
            /\ Cardinality(Unsaved(old) \cup {j}) =
                 IF j \in Unsaved(old) THEN Cardinality(Unsaved(old))
                 ELSE Cardinality(Unsaved(old)) + 1
        BY <3>2, FS_AddElement
      <4>2. Cardinality(Unsaved(old)) \in Nat
        BY <3>2, FS_CardinalityType
      <4> QED
        BY <4>1, <4>2
    <3>4. /\ Cardinality(Unsaved(s)) <= Cardinality(Unsaved(old) \cup {j})
          /\ IsFiniteSet(Unsaved(s))
      BY <3>1, <3>3, FS_Subset
    <3>5. /\ Cardinality(Unsaved(s)) \in Nat /\ Cardinality(Unsaved(old)) \in Nat
          /\ Cardinality(Unsaved(old) \cup {j}) \in Nat
      BY <3>2, <3>3, <3>4, FS_CardinalityType
    <3>6. old.enriched % CommitEvery \in Nat
      BY <1>3, EnrichmentAssumption
    <3>7. Cardinality(Unsaved(old)) <= old.enriched % CommitEvery
      BY <1>2, <1>6 DEF FewUnsaved
    <3> QED
      BY <3>3, <3>4, <3>5, <3>6, <3>7
  <2>2. IsFiniteSet(Unsaved(s))
    BY EnrichmentAssumption, FS_Subset DEF Unsaved
  <2>3. Cardinality(Unsaved(s)) \in Nat
    BY <2>2, FS_CardinalityType
  <2>4. old.enriched % CommitEvery \in 0 .. CommitEvery - 1
    BY <1>3, EnrichmentAssumption
  <2>5. CASE due
    <3>1. Cardinality(Unsaved(s)) <= CommitEvery
      BY <2>1, <2>3, <2>4, EnrichmentAssumption
    <3> QED
      BY <1>5, <2>5, <3>1 DEF FewUnsaved
  <2>6. CASE ~due
    <3>1. (old.enriched + 1) % CommitEvery # 0
      BY <1>6, <2>6 DEF due, CheckpointDue, old
    <3>2. (old.enriched + 1) % CommitEvery = (old.enriched % CommitEvery) + 1
      BY <1>3, <3>1, RemainderCounts, EnrichmentAssumption
    <3> QED
      BY <1>5, <2>1, <2>6, <3>2 DEF FewUnsaved
  <2> QED
    BY <2>5, <2>6
<1>7. SessionOk(w, s)
  <2>1. s.todo \subseteq Jobs
    BY <1>5 DEF Session
  <2> QED
    BY <1>2, <1>4, <1>5, <1>6, <2>1 DEF SessionOk
<1>8. RowOk'
  BY <1>1, <1>2 DEF RowOk
<1> QED
  BY <1>1, <1>7, <1>8, WorkerStep

\* All that is unsaved is committed, and the rows stay loaded.
LEMMA CheckpointKeeps ==
    ASSUME EnrichmentInv, NEW w \in Workers, Checkpoint(w)
    PROVE  EnrichmentInv'
<1> DEFINE old == work[w]
           s == [old EXCEPT !.base = old.mine, !.due = FALSE]
<1>1. /\ RowOk /\ old # Idle /\ old \in Session
      /\ \A k \in old.todo : old.mine[k].text # NoText
      /\ old.call # NoCall => old.mine[old.call.job].text # NoText
      /\ \A k \in Jobs : Together(k, old.mine[k])
      /\ work' = [work EXCEPT ![w] = s] /\ row' = Flushed(w, old.mine)
  BY InvByWorker DEF SessionOk, Checkpoint
<1>2. old.mine \in Table /\ old.enriched \in Nat
  BY <1>1 DEF Session
<1>3. RowOk'
  BY <1>1, <1>2, FlushedTable DEF RowOk
<1>4. /\ s \in Session /\ s.mine = old.mine /\ s.base = old.mine /\ s.todo = old.todo
      /\ s.call = old.call /\ s.enriched = old.enriched /\ s.due = FALSE
  BY <1>1, <1>2 DEF Session
<1> HIDE DEF s, old
<1>5. FewUnsaved(s)
  <2>1. Cardinality(Unsaved(s)) = 0
    BY <1>4, NothingUnsaved
  <2>2. old.enriched % CommitEvery \in Nat
    BY <1>2, EnrichmentAssumption
  <2> QED
    BY <1>4, <2>1, <2>2 DEF FewUnsaved
<1>6. SessionOk(w, s)
  BY <1>1, <1>4, <1>5 DEF SessionOk
<1> QED
  BY <1>1, <1>3, <1>6, WorkerStep

\* The end of a worker, of its own accord or not.
LEMMA EndKeeps ==
    ASSUME EnrichmentInv, NEW w \in Workers, Finish(w) \/ Interrupt(w)
    PROVE  EnrichmentInv'
<1>1. /\ RowOk /\ work[w] # Idle /\ work[w].mine \in Table
      /\ \A j \in Jobs : Together(j, work[w].mine[j])
  BY InvByWorker DEF SessionOk, Session, Finish, Interrupt
<1>2. RowOk'
  BY <1>1, FlushedTable DEF RowOk, Finish, Interrupt
<1>3. SessionOk(w, Idle)
  BY DEF SessionOk
<1> QED
  BY <1>2, <1>3, WorkerStep DEF Finish, Interrupt

LEMMA NextEnrichmentInv == EnrichmentInv /\ [EnrichmentNext]_enrichmentVars => EnrichmentInv'
<1> SUFFICES ASSUME EnrichmentInv, [EnrichmentNext]_enrichmentVars
             PROVE  EnrichmentInv'
  OBVIOUS
<1>1. CASE UNCHANGED enrichmentVars
  BY <1>1 DEF enrichmentVars, EnrichmentInv, EnrichmentType, TextsAreAskedAbout,
     RowsMoveTogether, FewAreUnsaved, FewUnsaved, CheckpointsComeFirst
<1>2. ASSUME NEW w \in Workers, Answer(w)
      PROVE  EnrichmentInv'
  BY <1>2, CallKeeps, FactsKeep DEF Answer
<1> QED
  BY <1>1, <1>2, <1>2, PersistKeeps, BackfillKeeps, CallKeeps, CheckpointKeeps, EndKeeps
  DEF EnrichmentNext, Work

\* Types, what workers hold of rows others write, and the distance from the last
\* checkpoint stay in order, for any rows, workers, texts and calls (enrich_jobs).
THEOREM EnrichmentInvariant == EnrichmentSpec => []EnrichmentInv
BY InitEnrichmentInv, NextEnrichmentInv, PTL DEF EnrichmentSpec

\* A posting that counts as read has the facts of the text it has, when its hash tells
\* its texts apart: whichever runs and commands read it side by side, are edited under,
\* and are stopped (apply_facts, enrich_jobs in services/enrichment.py).
THEOREM ReadingsAreAlwaysOfTheText == EnrichmentSpec => []ReadingsAreOfTheText
<1>1. ASSUME EnrichmentInv
      PROVE  ReadingsAreOfTheText
  <2> SUFFICES ASSUME NEW j \in Jobs, OneToOne(j), row[j].read = row[j].hash
               PROVE  row[j].facts = row[j].text
    BY DEF ReadingsAreOfTheText
  <2>1. row[j] \in Rows /\ Together(j, row[j])
    BY <1>1 DEF EnrichmentInv, EnrichmentType, RowsMoveTogether, Table
  <2>2. /\ row[j].hash \in Hashes \cup {NoText}
        /\ NotRead \notin Hashes \cup {NoText} /\ NoText \notin Hashes
    BY <2>1, EnrichmentAssumption DEF Rows
  <2>3. OfOneSighting(j, row[j].read, row[j].facts)
    BY <2>1, <2>2 DEF Together
  <2>4. [hash |-> row[j].read, text |-> row[j].facts] \in Sightings
    BY <2>3, EnrichmentAssumption DEF OfOneSighting
  <2>5. row[j].read \in Hashes
    BY <2>4 DEF Sightings
  <2>6. OfOneSighting(j, row[j].hash, row[j].text)
    BY <2>1, <2>2, <2>5 DEF Together
  <2>7. [hash |-> row[j].read, text |-> row[j].facts].text = [hash |-> row[j].hash, text |-> row[j].text].text
    BY <2>3, <2>6 DEF OfOneSighting, OneToOne
  <2> QED
    BY <2>7
<1> QED
  BY <1>1, EnrichmentInvariant, PTL

\* A command that is stopped, between a reading and its checkpoint too, loses no more
\* readings than a checkpoint saves, whatever the number of postings, calls and other
\* workers (commit_every).
THEOREM InterruptionsAlwaysLoseLittle == EnrichmentSpec => InterruptionsLoseLittle
<1>1. ASSUME EnrichmentInv, NEW c \in Commands, Interrupt(c)
      PROVE  Cardinality({j \in Jobs : work[c].mine[j] # work[c].base[j]}) <= CommitEvery
  <2>1. /\ c \in Workers /\ work[c] # Idle
        /\ work[c].enriched \in Nat
        /\ FewUnsaved(work[c])
    BY <1>1, InvByWorker DEF SessionOk, Session, Interrupt, Workers
  <2>2. work[c].enriched % CommitEvery \in 0 .. CommitEvery - 1
    BY <2>1, EnrichmentAssumption
  <2>3. IsFiniteSet(Unsaved(work[c]))
    BY EnrichmentAssumption, FS_Subset DEF Unsaved
  <2>4. Cardinality(Unsaved(work[c])) \in Nat
    BY <2>3, FS_CardinalityType
  <2>5. Cardinality(Unsaved(work[c])) <= CommitEvery
    BY <2>1, <2>2, <2>4, EnrichmentAssumption DEF FewUnsaved
  <2> QED
    BY <2>5 DEF Unsaved
<1>2. EnrichmentInv /\ [EnrichmentNext]_enrichmentVars =>
        [\A c \in Commands : Interrupt(c) =>
          Cardinality({j \in Jobs : work[c].mine[j] # work[c].base[j]}) <= CommitEvery]_enrichmentVars
  BY <1>1
<1> QED
  BY <1>2, EnrichmentInvariant, PTL DEF EnrichmentSpec, InterruptionsLoseLittle
=============================================================================
