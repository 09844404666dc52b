--------------------------- MODULE Tracker_proofs ---------------------------
(***************************************************************************)
(* Theorems about Tracker.tla, for any number of requests that overlap in  *)
(* any order.                                                              *)
(***************************************************************************)
EXTENDS Tracker, TLAPS

-----------------------------------------------------------------------------
(* What an edit does to the row and to the card it starts from. *)

\* A status can be stamped on every row.
LEMMA StampType ==
    ASSUME TrackerTypeOK, NEW x \in Rows, NEW j \in Jobs, NEW s \in JobStatus
    PROVE  \A now \in Days : StampStatus(x, j, s, now) \in Rows
<1>1. shared[j] \in Scores
  BY DEF TrackerTypeOK
<1>2. ScoreOf(x, j) \in Scores \cup {NoScore}
  BY <1>1 DEF ScoreOf, Rows
<1>. QED
  BY <1>2 DEF StampStatus, Rows

\* An edit of a row is a row.
LEMMA EditedType ==
    ASSUME TrackerTypeOK, NEW q \in RequestRecords, NEW j \in Jobs
    PROVE  Loaded(q, j) \in Rows /\ Edited(q, j) \in Rows
<1>1. FreshRow \in Rows
  BY DEF FreshRow, Rows, JobStatus
<1>2. Loaded(q, j) \in Rows
  BY <1>1 DEF Loaded, RequestRecords
<1>3. ASSUME NEW x \in Rows, NEW s, NEW why \in Reasons \cup {NoReason}
      PROVE  WithReason(x, s, why) \in Rows
  BY DEF WithReason, Rows
<1>4. q.status \in JobStatus /\ q.reason \in Reasons \cup {NoReason}
      /\ q.score \in Scores \cup {NoScore} /\ q.now \in Days
  BY DEF RequestRecords
<1>5. [Loaded(q, j) EXCEPT !.reason = q.reason] \in Rows
  BY <1>2, <1>4 DEF Rows
<1>6. [Loaded(q, j) EXCEPT !.score = q.score] \in Rows
  BY <1>2, <1>4 DEF Rows
<1>. QED
  BY <1>2, <1>3, <1>4, <1>5, <1>6, StampType DEF Edited

\* An edit dates an arrival only where it found no date, and never without a
\* score.
LEMMA EditedStamps ==
    ASSUME TrackerAssumption, TrackerTypeOK, NEW q \in RequestRecords, NEW j \in Jobs
    PROVE  LET x == Loaded(q, j)
               e == Edited(q, j)
           IN /\ \A s \in {"saved", "applied"} :
                    e.at[s] # x.at[s] => x.at[s] = NoDay /\ e.at[s] = q.now
              /\ \A s \in Frozen :
                    /\ e.frozen[s] # x.frozen[s] => x.frozen[s] = NoScore
                    /\ e.at[s] # x.at[s] /\ e.at[s] # NoDay => e.frozen[s] # NoScore
<1>. DEFINE x == Loaded(q, j)
<1>. DEFINE Good(e) ==
        /\ \A s \in {"saved", "applied"} :
              e.at[s] # x.at[s] => x.at[s] = NoDay /\ e.at[s] = q.now
        /\ \A s \in Frozen :
              /\ e.frozen[s] # x.frozen[s] => x.frozen[s] = NoScore
              /\ e.at[s] # x.at[s] /\ e.at[s] # NoDay => e.frozen[s] # NoScore
<1>2. x \in Rows
  BY EditedType
<1>3. shared[j] \in Scores /\ NoScore \notin Scores
     /\ q.now \in Days /\ NoDay \notin Days
  BY DEF TrackerTypeOK, TrackerAssumption, RequestRecords, Days
<1>4. ASSUME NEW s \in JobStatus
      PROVE  Good(StampStatus(x, j, s, q.now))
  <2>1. ScoreOf(x, j) \in Scores
    BY <1>2, <1>3 DEF ScoreOf, Rows
  <2>2. \A t \in Stamped :
           StampStatus(x, j, s, q.now).at[t] =
              IF t = s /\ x.at[t] = NoDay THEN q.now
              ELSE IF s = "new" /\ t = "dismissed" THEN NoDay ELSE x.at[t]
    BY <1>2 DEF StampStatus, Rows
  <2>3. \A t \in Frozen :
           StampStatus(x, j, s, q.now).frozen[t] =
              IF t = s /\ x.frozen[t] = NoScore THEN ScoreOf(x, j) ELSE x.frozen[t]
    BY <1>2 DEF StampStatus, Rows
  <2>. QED
    BY <1>3, <2>1, <2>2, <2>3 DEF Stamped, Frozen
<1>5. Good(x)
  OBVIOUS
<1>6. ASSUME NEW e \in Rows, Good(e), NEW s, NEW why
      PROVE  Good(WithReason(e, s, why))
  BY <1>6 DEF WithReason, Rows
<1>7. ASSUME NEW s \in JobStatus
      PROVE  StampStatus(x, j, s, q.now) \in Rows
  BY <1>2, <1>3, StampType
<1>8. Good([x EXCEPT !.reason = q.reason]) /\ Good([x EXCEPT !.score = q.score])
  BY <1>2 DEF Rows
<1>9. q.status \in JobStatus
  BY DEF RequestRecords
<1>10. Good(Edited(q, j))
  <2>. HIDE DEF Good, x
  <2>. QED
    BY <1>4, <1>5, <1>6, <1>7, <1>8, <1>9 DEF Edited, x
<1>. QED
  BY <1>10

\* A card is a card after the edit; the edit dates an arrival only where it found
\* no date.
LEMMA EditedCardStamps ==
    ASSUME TrackerAssumption, TrackerTypeOK, NEW q \in RequestRecords, NEW j \in Jobs
    PROVE  LET c == IF q.card = NoCard THEN FreshCard(q.status) ELSE q.card
               e == EditedCard(q, j)
           IN /\ c \in Cards /\ e \in Cards
              /\ \A s \in Dated :
                    e.at[s] # c.at[s] => c.at[s] = NoDay /\ e.at[s] = q.now
              /\ e.score # c.score => c.score = NoScore /\ e.score # NoScore
              /\ q.kind # "note" => e.status = q.status
              /\ q.kind = "note" => e = c
              /\ e.at["applied"] # c.at["applied"] => e.score # NoScore
              /\ e.score # c.score => e.at["applied"] # NoDay
<1>. DEFINE c == IF q.card = NoCard THEN FreshCard(q.status) ELSE q.card
<1>. DEFINE e == EditedCard(q, j)
<1>1. q.status \in JobStatus /\ q.card \in Cards \cup {NoCard}
  BY DEF RequestRecords
<1>2. FreshCard(q.status) \in Cards
  BY <1>1 DEF FreshCard, Cards
<1>3. c \in Cards
  BY <1>1, <1>2
<1>4. shared[j] \in Scores /\ NoScore \notin Scores
      /\ q.now \in Days /\ NoDay \notin Days
  BY DEF TrackerTypeOK, TrackerAssumption, Days, RequestRecords
<1>5. CASE q.kind = "note"
  <2>1. e = c
    BY <1>5 DEF EditedCard
  <2>. QED
    BY <1>3, <1>5, <2>1
<1>6. CASE q.kind # "note"
  <2>1. e = [c EXCEPT
              !.status = q.status,
              !.at = [d \in Dated |-> IF d = q.status /\ @[d] = NoDay THEN q.now ELSE @[d]],
              !.score = IF q.status = "applied" /\ @ = NoScore THEN shared[j] ELSE @]
    BY <1>6 DEF EditedCard
  <2>2. /\ e \in Cards
        /\ e.status = q.status
        /\ \A d \in Dated : e.at[d] = IF d = q.status /\ c.at[d] = NoDay
                                      THEN q.now ELSE c.at[d]
        /\ e.score = IF q.status = "applied" /\ c.score = NoScore
                     THEN shared[j] ELSE c.score
    <3>1. [d \in Dated |-> IF d = q.status /\ c.at[d] = NoDay THEN q.now ELSE c.at[d]]
             \in [Dated -> Days \cup {NoDay}]
      BY <1>3, <1>4 DEF Cards
    <3>. HIDE DEF c, e
    <3>. QED
      BY <1>1, <1>3, <1>4, <2>1, <3>1 DEF Cards
  <2>3. "applied" \in Dated
    BY DEF Dated
  <2>4. e.at["applied"] # c.at["applied"] => e.score # NoScore
    BY <1>4, <2>2, <2>3
  <2>5. e.score # c.score => e.at["applied"] # NoDay
    BY <1>4, <2>2, <2>3
  <2>. QED
    BY <1>3, <1>4, <1>6, <2>2, <2>4, <2>5
<1>. QED
  BY <1>5, <1>6

-----------------------------------------------------------------------------
(* Type correctness. *)

\* A new request is well formed.
LEMMA BeginType ==
    ASSUME TrackerTypeOK, NEW r \in Requests, NEW kind \in Kinds, NEW jobs \in SUBSET Jobs,
           NEW s \in JobStatus, NEW why \in Reasons \cup {NoReason},
           NEW points \in Scores \cup {NoScore}, Begin(r, kind, jobs, s, why, points)
    PROVE  TrackerTypeOK'
<1>1. ASSUME NEW o \in Requests
      PROVE  request'[o] \in RequestRecords
  <2>1. request[o] \in RequestRecords
    BY DEF TrackerTypeOK
  <2>2. [request[o] EXCEPT !.alone = FALSE] \in RequestRecords
    BY <2>1 DEF RequestRecords
  <2>3. [j \in Jobs |-> IF j \in jobs /\ kind # "note" THEN row[j] ELSE NoRow]
           \in [Jobs -> Rows \cup {NoRow}]
    BY DEF TrackerTypeOK
  <2>4. ASSUME NEW b \in BOOLEAN
        PROVE  [pc |-> "loaded", kind |-> kind, jobs |-> jobs, status |-> s,
                reason |-> why, score |-> points,
                seen |-> [j \in Jobs |-> IF j \in jobs /\ kind # "note"
                                         THEN row[j] ELSE NoRow],
                card |-> NoCard, alone |-> b,
                now |-> IF kind \in Dating THEN day ELSE 0] \in RequestRecords
    BY <2>3, TrackerAssumption DEF RequestRecords, TrackerTypeOK, TrackerAssumption, Days
  <2>. QED
    BY <2>1, <2>2, <2>4 DEF Begin
<1>2. request' \in [Requests -> RequestRecords]
  BY <1>1 DEF Begin
<1>. QED
  BY <1>2 DEF Begin, TrackerTypeOK

\* An idle request is well formed.
LEMMA IdleType == IdleRequest \in RequestRecords
  BY TrackerAssumption
     DEF IdleRequest, RequestRecords, NoRows, Kinds, JobStatus, Days, TrackerAssumption

\* Initially the types are right.
LEMMA InitType == TrackerAssumption /\ TrackerInit => TrackerTypeOK
  BY IdleType DEF TrackerAssumption, TrackerInit, TrackerTypeOK, NoRows, Days

-----------------------------------------------------------------------------
(* The inductive invariant.  Dates and scores are filled in and never        *)
(* emptied, so the committed row has those of the row a request has loaded;  *)
(* and an insert that was flushed keeps others from inserting.               *)

\* Row y is a later state of row x: nothing that was filled in is missing.
Since(x, y) ==
    /\ \A s \in {"saved", "applied"} : x.at[s] # NoDay => y.at[s] # NoDay
    /\ \A s \in Frozen : x.frozen[s] # NoScore => y.frozen[s] # NoScore

SinceCard(x, y) ==
    /\ \A s \in Dated : x.at[s] # NoDay => y.at[s] # NoDay
    /\ x.score # NoScore => y.score # NoScore

Scored(x) == \A s \in Frozen : x.at[s] # NoDay => x.frozen[s] # NoScore

ScoredCard(x) == x.at["applied"] # NoDay <=> x.score # NoScore

\* What request r has found filled in of job j still is.
Informed(r, j) ==
    LET q == request[r] IN
    /\ q.pc # "idle"
    /\ HasCard(q) => q.jobs = {j}
    /\ q.seen[j] # NoRow => row[j] # NoRow /\ Since(q.seen[j], row[j])
                                           /\ Scored(q.seen[j])
    /\ q.card # NoCard => /\ HasCard(q)
                          /\ card[j] # NoCard
                          /\ SinceCard(q.card, card[j])
                          /\ ScoredCard(q.card)
    /\ q.pc = "flushed" /\ Inserts(q, j) => row[j] = NoRow

\* One inserter of a row at a time has been flushed.
OneInserter ==
    \A r, o \in Requests : \A j \in request[r].jobs \cap request[o].jobs :
        /\ r # o
        /\ request[r].pc = "flushed" /\ request[o].pc = "flushed"
        => ~(Inserts(request[r], j) /\ Inserts(request[o], j))

TInv ==
    /\ TrackerTypeOK
    /\ DatesHaveScores
    /\ OneInserter
    /\ \A r \in Requests : \A j \in request[r].jobs : Informed(r, j)

\* What a commit makes of one row.
RowStep(j) ==
    /\ row'[j] \in Rows \cup {NoRow}
    /\ row[j] # NoRow => row'[j] # NoRow /\ Since(row[j], row'[j])
    /\ row'[j] # NoRow => Scored(row'[j])

CardStep(j) ==
    /\ card'[j] \in Cards \cup {NoCard}
    /\ card[j] # NoCard => card'[j] # NoCard /\ SinceCard(card[j], card'[j])
    /\ card'[j] # NoCard => ScoredCard(card'[j])

\* Writing the changed columns of a row over a later state of it.
LEMMA WriteRowSince ==
    ASSUME TrackerAssumption, TrackerTypeOK, NEW q \in RequestRecords, NEW j \in Jobs,
           q.seen[j] # NoRow, row[j] # NoRow, Since(q.seen[j], row[j]),
           Scored(q.seen[j]), Scored(row[j])
    PROVE  LET y == WriteRow(row[j], q.seen[j], Edited(q, j))
           IN y \in Rows /\ Since(row[j], y) /\ Scored(y)
<1>. DEFINE x == q.seen[j]
<1>. DEFINE e == Edited(q, j)
<1>. DEFINE y == WriteRow(row[j], x, e)
<1>1. x = Loaded(q, j) /\ x \in Rows /\ e \in Rows /\ row[j] \in Rows
  BY EditedType DEF Loaded, TrackerTypeOK
<1>2. /\ \A s \in {"saved", "applied"} :
            e.at[s] # x.at[s] => x.at[s] = NoDay /\ e.at[s] = q.now
      /\ \A s \in Frozen :
            /\ e.frozen[s] # x.frozen[s] => x.frozen[s] = NoScore
            /\ e.at[s] # x.at[s] /\ e.at[s] # NoDay => e.frozen[s] # NoScore
  BY <1>1, EditedStamps
<1>3. y \in Rows
  <2>. HIDE DEF e, x
  <2>. QED
    BY <1>1 DEF y, WriteRow, Column, Rows
<1>4. /\ \A s \in Stamped : y.at[s] = Column(row[j].at[s], x.at[s], e.at[s])
      /\ \A s \in Frozen : y.frozen[s] = Column(row[j].frozen[s], x.frozen[s], e.frozen[s])
  BY DEF WriteRow
<1>5. Since(row[j], y)
  <2>1. q.now # NoDay
    BY DEF TrackerAssumption, RequestRecords, Days
  <2>. HIDE DEF e, x, y
  <2>. QED
    BY <1>2, <1>4, <2>1 DEF Since, Column, x, Stamped
<1>6. Scored(y)
  <2>. SUFFICES ASSUME NEW s \in Frozen, y.at[s] # NoDay
                PROVE  y.frozen[s] # NoScore
    BY DEF Scored
  <2>1. s \in Stamped
    BY DEF Frozen, Stamped
  <2>2. x.frozen[s] # NoScore => row[j].frozen[s] # NoScore
    BY DEF Since
  <2>3. y.frozen[s] = IF e.frozen[s] = x.frozen[s] THEN row[j].frozen[s] ELSE e.frozen[s]
    BY <1>4 DEF Column
  <2>4. CASE e.at[s] = x.at[s]
    <3>1. row[j].frozen[s] # NoScore
      BY <1>4, <2>1, <2>4 DEF Column, Scored
    <3>2. CASE e.frozen[s] # x.frozen[s]
      <4>1. x.frozen[s] = NoScore /\ y.frozen[s] = e.frozen[s]
        BY <1>2, <2>3, <3>2
      <4>. QED
        BY <3>2, <4>1
    <3>. QED
      BY <2>3, <3>1, <3>2
  <2>5. CASE e.at[s] # x.at[s]
    <3>1. e.frozen[s] # NoScore
      BY <1>2, <1>4, <2>1, <2>5 DEF Column
    <3>. QED
      BY <2>2, <2>3, <3>1
  <2>. QED
    BY <2>4, <2>5
<1>. QED
  BY <1>3, <1>5, <1>6

\* A commit leaves every row stamped that was, and with its score.
LEMMA CommitRow ==
    ASSUME TrackerAssumption, AbsenceAssumption, TInv, NEW r \in Requests, Commit(r),
           NEW j \in Jobs
    PROVE  RowStep(j)
<1>. DEFINE q == request[r]
<1>1. q \in RequestRecords /\ row[j] \in Rows \cup {NoRow}
  BY DEF TInv, TrackerTypeOK
<1>2. row'[j] = RowAfter(q, j)
  BY DEF Commit
<1>3. row[j] # NoRow => Scored(row[j])
  BY DEF TInv, DatesHaveScores, Tracked, Scored
<1>4. CASE row'[j] = row[j]
  BY <1>1, <1>3, <1>4 DEF RowStep, Since
<1>5. CASE j \in q.jobs /\ Inserts(q, j)
  <2>1. row[j] = NoRow
    BY <1>5 DEF TInv, Informed, Commit
  <2>2. row'[j] = Edited(q, j) /\ Loaded(q, j) = FreshRow
    BY <1>2, <1>5 DEF RowAfter, Inserts, Loaded
  <2>3. row'[j] \in Rows
    BY <1>1, <2>2, EditedType DEF TInv
  <2>4. Scored(row'[j])
    <3>1. \A s \in Frozen : FreshRow.at[s] = NoDay
      BY DEF FreshRow, Frozen, Stamped
    <3>2. \A s \in Frozen : row'[j].at[s] # FreshRow.at[s] /\ row'[j].at[s] # NoDay
                               => row'[j].frozen[s] # NoScore
      BY <1>1, <2>2, EditedStamps DEF TInv
    <3>. QED
      BY <3>1, <3>2 DEF Scored
  <2>. QED
    BY <2>1, <2>3, <2>4 DEF RowStep
<1>6. CASE j \in q.jobs /\ q.seen[j] # NoRow
  <2>1. row[j] # NoRow /\ Since(q.seen[j], row[j]) /\ Scored(q.seen[j])
    BY <1>6 DEF TInv, Informed
  <2>2. row'[j] = WriteRow(row[j], q.seen[j], Edited(q, j))
    BY <1>2, <1>6 DEF RowAfter, Inserts
  <2>3. row'[j] \in Rows /\ Since(row[j], row'[j]) /\ Scored(row'[j])
    BY <1>1, <1>3, <1>6, <2>1, <2>2, WriteRowSince DEF TInv
  <2>. QED
    BY <2>1, <2>3 DEF RowStep, AbsenceAssumption
<1>. QED
  BY <1>2, <1>4, <1>5, <1>6 DEF RowAfter

\* Writing the changed columns of a card over a later state of it.
LEMMA WriteCardSince ==
    ASSUME TrackerAssumption, TrackerTypeOK, NEW q \in RequestRecords, NEW j \in Jobs,
           q.card # NoCard, card[j] # NoCard, SinceCard(q.card, card[j]),
           ScoredCard(q.card), ScoredCard(card[j])
    PROVE  LET y == WriteCard(card[j], q.card, EditedCard(q, j))
           IN y \in Cards /\ SinceCard(card[j], y) /\ ScoredCard(y)
<1>. DEFINE x == q.card
<1>. DEFINE e == EditedCard(q, j)
<1>. DEFINE y == WriteCard(card[j], x, e)
<1>1. x \in Cards /\ e \in Cards /\ card[j] \in Cards
  BY EditedCardStamps DEF RequestRecords, TrackerTypeOK
<1>2. /\ \A s \in Dated : e.at[s] # x.at[s] => x.at[s] = NoDay /\ e.at[s] = q.now
      /\ e.score # x.score => x.score = NoScore /\ e.score # NoScore
      /\ e.at["applied"] # x.at["applied"] => e.score # NoScore
      /\ e.score # x.score => e.at["applied"] # NoDay
  BY EditedCardStamps
<1>3. y \in Cards
  <2>. HIDE DEF e, x
  <2>. QED
    BY <1>1 DEF y, WriteCard, Column, Cards
<1>4. /\ \A s \in Dated : y.at[s] = Column(card[j].at[s], x.at[s], e.at[s])
      /\ y.score = Column(card[j].score, x.score, e.score)
  BY DEF WriteCard
<1>5. SinceCard(card[j], y)
  <2>1. q.now # NoDay
    BY DEF TrackerAssumption, RequestRecords, Days
  <2>. HIDE DEF e, x, y
  <2>. QED
    BY <1>2, <1>4, <2>1 DEF SinceCard, Column, x
<1>6. ScoredCard(y)
  <2>1. "applied" \in Dated
    BY DEF Dated
  <2>2. q.now # NoDay
    BY DEF TrackerAssumption, RequestRecords, Days
  <2>3. y.at["applied"] = IF e.at["applied"] = x.at["applied"]
                          THEN card[j].at["applied"] ELSE e.at["applied"]
    BY <1>4, <2>1 DEF Column
  <2>4. y.score = IF e.score = x.score THEN card[j].score ELSE e.score
    BY <1>4 DEF Column
  <2>5. (x.at["applied"] # NoDay <=> x.score # NoScore)
        /\ (card[j].at["applied"] # NoDay <=> card[j].score # NoScore)
    BY DEF ScoredCard
  <2>6. x.at["applied"] # NoDay => card[j].at["applied"] # NoDay
    BY <2>1 DEF SinceCard
  <2>. HIDE DEF e, x, y
  <2>. QED
    BY <1>2, <2>1, <2>2, <2>3, <2>4, <2>5, <2>6 DEF ScoredCard
<1>. QED
  BY <1>3, <1>5, <1>6

\* A commit leaves every card stamped that was, and with its score.
LEMMA CommitCard ==
    ASSUME TrackerAssumption, AbsenceAssumption, TInv, NEW r \in Requests, Commit(r),
           NEW j \in Jobs
    PROVE  CardStep(j)
<1>. DEFINE q == request[r]
<1>1. q \in RequestRecords /\ card[j] \in Cards \cup {NoCard}
  BY DEF TInv, TrackerTypeOK
<1>2. card'[j] = CardAfter(q, j)
  BY DEF Commit
<1>3. card[j] # NoCard => ScoredCard(card[j])
  BY DEF TInv, DatesHaveScores, Carded, ScoredCard
<1>4. CASE card'[j] = card[j]
  BY <1>1, <1>3, <1>4 DEF CardStep, SinceCard
<1>5. CASE j \in q.jobs /\ HasCard(q) /\ q.card = NoCard
  <2>1. card[j] = NoCard
    BY <1>5 DEF Commit
  <2>2. card'[j] = EditedCard(q, j)
    BY <1>2, <1>5 DEF CardAfter
  <2>3. card'[j] \in Cards
    BY <1>1, <2>2, EditedCardStamps DEF TInv
  <2>4. "applied" \in Dated
    BY DEF Dated
  <2>5. FreshCard(q.status).at["applied"] = NoDay /\ FreshCard(q.status).score = NoScore
    BY <2>4 DEF FreshCard
  <2>6. /\ card'[j].at["applied"] # FreshCard(q.status).at["applied"]
              => card'[j].score # NoScore
        /\ card'[j].score # FreshCard(q.status).score => card'[j].at["applied"] # NoDay
    BY <1>1, <1>5, <2>2, EditedCardStamps DEF TInv
  <2>7. ScoredCard(card'[j])
    BY <2>5, <2>6 DEF ScoredCard
  <2>. QED
    BY <2>1, <2>3, <2>7 DEF CardStep
<1>6. CASE j \in q.jobs /\ HasCard(q) /\ q.card # NoCard
  <2>1. card[j] # NoCard /\ SinceCard(q.card, card[j]) /\ ScoredCard(q.card)
    BY <1>6 DEF TInv, Informed
  <2>2. card'[j] = WriteCard(card[j], q.card, EditedCard(q, j))
    BY <1>2, <1>6 DEF CardAfter
  <2>3. card'[j] \in Cards /\ SinceCard(card[j], card'[j]) /\ ScoredCard(card'[j])
    BY <1>1, <1>3, <1>6, <2>1, <2>2, WriteCardSince DEF TInv
  <2>. QED
    BY <2>1, <2>3 DEF CardStep, AbsenceAssumption
<1>. QED
  BY <1>2, <1>4, <1>5, <1>6 DEF CardAfter

\* Later than a later state is later.
LEMMA SinceChain ==
    ASSUME NEW x, NEW y, NEW z, Since(x, y), Since(y, z)
    PROVE  Since(x, z)
  BY DEF Since

\* And so for cards.
LEMMA SinceCardChain ==
    ASSUME NEW x, NEW y, NEW z, SinceCard(x, y), SinceCard(y, z)
    PROVE  SinceCard(x, z)
  BY DEF SinceCard

-----------------------------------------------------------------------------
(* Every step keeps the invariant. *)

\* A commit keeps the invariant.
LEMMA CommitKeeps ==
    ASSUME TrackerAssumption, AbsenceAssumption, TInv, NEW r \in Requests, Commit(r)
    PROVE  TInv'
<1>. DEFINE q == request[r]
<1>1. \A j \in Jobs : RowStep(j) /\ CardStep(j)
  BY CommitRow, CommitCard
<1>2. request' = [request EXCEPT ![r] = IdleRequest] /\ day' = day /\ shared' = shared
  BY DEF Commit, Drop
<1>3. TrackerTypeOK'
  <2>1. row' \in [Jobs -> Rows \cup {NoRow}] /\ card' \in [Jobs -> Cards \cup {NoCard}]
    BY <1>1 DEF Commit, RowStep, CardStep
  <2>2. request' \in [Requests -> RequestRecords]
    BY <1>2, IdleType DEF TInv, TrackerTypeOK
  <2>3. clean' \in [Jobs -> BOOLEAN]
    <3>1. \A j \in Jobs : CleanAfter(q, j) \in BOOLEAN
      BY DEF CleanAfter, TInv, TrackerTypeOK
    <3>. QED
      BY <3>1 DEF Commit
  <2>. QED
    BY <1>2, <2>1, <2>2, <2>3 DEF TInv, TrackerTypeOK
<1>4. DatesHaveScores'
  BY <1>1 DEF RowStep, CardStep, DatesHaveScores, Tracked, Carded, Scored, ScoredCard
<1>5. \A o \in Requests : request'[o] = IF o = r THEN IdleRequest ELSE request[o]
  BY <1>2 DEF TInv, TrackerTypeOK
<1>6. OneInserter'
  <2>1. IdleRequest.pc = "idle"
    BY DEF IdleRequest
  <2>. QED
    BY <1>5, <2>1 DEF OneInserter, TInv, Inserts, Creates
<1>7. ASSUME NEW o \in Requests, NEW j \in request'[o].jobs
      PROVE  Informed(o, j)'
  <2>1. o # r /\ request'[o] = request[o]
    BY <1>5, <1>7 DEF IdleRequest
  <2>2. j \in Jobs /\ Informed(o, j)
    BY <1>7, <2>1 DEF TInv, TrackerTypeOK, RequestRecords
  <2>3. RowStep(j) /\ CardStep(j)
    BY <1>1, <2>2
  <2>4. request[o].seen[j] # NoRow => row'[j] # NoRow /\ Since(request[o].seen[j], row'[j])
    BY <2>2, <2>3, SinceChain DEF Informed, RowStep, TInv
  <2>5. request[o].card # NoCard => card'[j] # NoCard /\ SinceCard(request[o].card, card'[j])
    BY <2>2, <2>3, SinceCardChain DEF Informed, CardStep, TInv
  <2>6. ASSUME request[o].pc = "flushed", Inserts(request[o], j)
        PROVE  row'[j] = NoRow
    <3>1. row[j] = NoRow
      BY <2>2, <2>6 DEF Informed
    <3>2. row'[j] = RowAfter(q, j)
      BY <2>2 DEF Commit
    <3>3. ~(j \in q.jobs /\ Inserts(q, j))
      BY <1>7, <2>1, <2>6 DEF OneInserter, TInv, Commit
    <3>4. ~(j \in q.jobs /\ q.seen[j] # NoRow)
      BY <3>1 DEF TInv, Informed
    <3>. QED
      BY <3>1, <3>2, <3>3, <3>4 DEF RowAfter
  <2>7. (Since(request[o].seen[j], row[j]))' <=> Since(request[o].seen[j], row'[j])
    BY <1>2, <2>1 DEF Since
  <2>8. (SinceCard(request[o].card, card[j]))' <=> SinceCard(request[o].card, card'[j])
    BY <1>2, <2>1 DEF SinceCard
  <2>. QED
    BY <2>1, <2>2, <2>4, <2>5, <2>6, <2>7, <2>8
       DEF Informed, HasCard, Inserts, Creates, Scored, ScoredCard
<1>. QED
  BY <1>3, <1>4, <1>6, <1>7 DEF TInv

\* A request that arrives knows the rows as they are.
LEMMA BeginKeeps ==
    ASSUME TrackerAssumption, AbsenceAssumption, TInv, NEW r \in Requests,
           NEW kind \in Kinds, NEW jobs \in SUBSET Jobs,
           NEW s \in JobStatus, NEW why \in Reasons \cup {NoReason},
           NEW points \in Scores \cup {NoScore}, Begin(r, kind, jobs, s, why, points),
           kind \in {"decide", "note"} => \E j \in Jobs : jobs = {j}
    PROVE  TInv'
<1>1. TrackerTypeOK'
  BY BeginType DEF TInv
<1>2. UNCHANGED <<row, card, shared, day, clean>>
  BY DEF Begin
<1>3. DatesHaveScores'
  BY <1>2 DEF TInv, DatesHaveScores, Tracked, Carded
<1>4. /\ request'[r].pc = "loaded" /\ request'[r].kind = kind /\ request'[r].jobs = jobs
      /\ request'[r].card = NoCard
      /\ \A j \in Jobs : request'[r].seen[j] \in {row[j], NoRow}
  BY DEF Begin
<1>5. ASSUME NEW o \in Requests, o # r
      PROVE  /\ request'[o].pc = request[o].pc /\ request'[o].kind = request[o].kind
             /\ request'[o].jobs = request[o].jobs /\ request'[o].seen = request[o].seen
             /\ request'[o].card = request[o].card
  <2>1. request[o] \in RequestRecords
    BY DEF TInv, TrackerTypeOK
  <2>2. request'[o] \in {request[o], [request[o] EXCEPT !.alone = FALSE]}
    BY <1>5 DEF Begin
  <2>. QED
    BY <2>1, <2>2 DEF RequestRecords
<1>6. OneInserter'
  BY <1>4, <1>5 DEF TInv, OneInserter, Inserts, Creates
<1>7. ASSUME NEW o \in Requests, NEW j \in request'[o].jobs
      PROVE  Informed(o, j)'
  <2>1. CASE o = r
    <3>1. j \in Jobs
      BY <1>4, <1>7, <2>1
    <3>2. request'[r].seen[j] \in {row[j], NoRow}
      BY <1>4, <3>1
    <3>3. Since(row[j], row[j])' /\ (row[j] # NoRow => Scored(row[j]))
      BY <1>2, <3>1 DEF Since, Scored, TInv, DatesHaveScores, Tracked
    <3>4. HasCard(request'[r]) => request'[r].jobs = {j}
      BY <1>4, <1>7, <2>1 DEF HasCard
    <3>. QED
      BY <1>2, <1>4, <2>1, <3>2, <3>3, <3>4 DEF Informed, Since, Scored, HasCard
  <2>2. CASE o # r
    <3>1. Informed(o, j)
      BY <1>5, <1>7, <2>2 DEF TInv
    <3>. QED
      BY <1>2, <1>5, <2>2, <3>1
         DEF Informed, HasCard, Since, SinceCard, Scored, ScoredCard, Inserts, Creates
  <2>. QED
    BY <2>1, <2>2
<1>. QED
  BY <1>1, <1>3, <1>6, <1>7 DEF TInv

\* What is flushed waits for whoever has written the row.
LEMMA FlushKeeps ==
    ASSUME TrackerAssumption, AbsenceAssumption, TInv, NEW r \in Requests, Flush(r)
    PROVE  TInv'
<1>. DEFINE q == request[r]
<1>1. UNCHANGED <<row, card, shared, day, clean>>
  BY DEF Flush
<1>2. q \in RequestRecords /\ q.jobs \subseteq Jobs /\ q.pc = "loaded"
  BY DEF TInv, TrackerTypeOK, RequestRecords, Flush
<1>3. PICK c \in Cards \cup {NoCard}, s \in JobStatus :
         /\ request' = [request EXCEPT ![r].pc = "flushed", ![r].card = c, ![r].status = s]
         /\ HasCard(q) => \E j \in q.jobs : c = card[j]
         /\ ~HasCard(q) => c = q.card
  <2>1. CASE HasCard(q)
    <3>1. PICK j \in q.jobs :
            request' = [request EXCEPT
                  ![r].pc = "flushed",
                  ![r].card = card[j],
                  ![r].status = IF q.kind = "note" THEN StatusOf(row[j]) ELSE @]
      BY <2>1 DEF Flush
    <3>2. card[j] \in Cards \cup {NoCard} /\ StatusOf(row[j]) \in JobStatus
          /\ q.status \in JobStatus
      BY <1>2 DEF TInv, TrackerTypeOK, StatusOf, Rows, JobStatus, RequestRecords
    <3>3. request' = [request EXCEPT
                  ![r].pc = "flushed",
                  ![r].card = card[j],
                  ![r].status = IF q.kind = "note" THEN StatusOf(row[j]) ELSE q.status]
      BY <3>1
    <3>. QED
      BY <2>1, <3>2, <3>3
  <2>2. CASE ~HasCard(q)
    <3>1. request' = [request EXCEPT ![r].pc = "flushed"]
      BY <2>2 DEF Flush
    <3>2. request' = [request EXCEPT ![r].pc = "flushed", ![r].card = q.card,
                                     ![r].status = q.status]
      BY <1>2, <3>1 DEF TInv, TrackerTypeOK, RequestRecords
    <3>3. q.card \in Cards \cup {NoCard} /\ q.status \in JobStatus
      BY <1>2 DEF RequestRecords
    <3>. QED
      BY <2>2, <3>2, <3>3
  <2>. QED
    BY <2>1, <2>2
<1>4. /\ request'[r].pc = "flushed" /\ request'[r].kind = q.kind
      /\ request'[r].jobs = q.jobs /\ request'[r].seen = q.seen
      /\ request'[r].card = c
      /\ request'[r] \in RequestRecords
  BY <1>2, <1>3 DEF TInv, TrackerTypeOK, RequestRecords
<1>5. \A o \in Requests : o # r => request'[o] = request[o]
  BY <1>3 DEF TInv, TrackerTypeOK
<1>6. TrackerTypeOK'
  <2>1. request' \in [Requests -> RequestRecords]
    BY <1>3, <1>4, <1>5 DEF TInv, TrackerTypeOK
  <2>. QED
    BY <1>1, <2>1 DEF TInv, TrackerTypeOK
<1>7. DatesHaveScores'
  BY <1>1 DEF TInv, DatesHaveScores, Tracked, Carded
<1>8. ASSUME NEW o \in Requests, o # r, NEW j \in q.jobs \cap request[o].jobs,
             request[o].pc = "flushed", Inserts(q, j)
      PROVE  ~Inserts(request[o], j)
  <2>1. ~Held(r, j)
    BY <1>8 DEF Flush, Writes
  <2>. QED
    BY <1>8, <2>1 DEF Held, Writes
<1>9. OneInserter'
  <2>. SUFFICES ASSUME NEW a \in Requests, NEW b \in Requests, a # b,
                       NEW j \in request'[a].jobs \cap request'[b].jobs,
                       request'[a].pc = "flushed", request'[b].pc = "flushed",
                       Inserts(request'[a], j), Inserts(request'[b], j)
                PROVE  FALSE
    BY DEF OneInserter
  <2>1. CASE a = r
    BY <1>4, <1>5, <1>8, <2>1 DEF Inserts, Creates
  <2>2. CASE b = r
    BY <1>4, <1>5, <1>8, <2>2 DEF Inserts, Creates
  <2>3. CASE a # r /\ b # r
    BY <1>5, <2>3 DEF TInv, OneInserter
  <2>. QED
    BY <2>1, <2>2, <2>3
<1>10. ASSUME NEW o \in Requests, NEW j \in request'[o].jobs
       PROVE  Informed(o, j)'
  <2>1. CASE o = r
    <3>1. Informed(r, j) /\ j \in q.jobs /\ j \in Jobs
      BY <1>2, <1>4, <1>10, <2>1 DEF TInv
    <3>2. HasCard(q) => c = card[j]
      BY <1>3, <3>1 DEF Informed
    <3>3. card[j] # NoCard => SinceCard(card[j], card[j]) /\ ScoredCard(card[j])
      BY <3>1 DEF SinceCard, ScoredCard, TInv, DatesHaveScores, Carded
    <3>4. Inserts(q, j) => row[j] = NoRow
      BY <3>1 DEF Flush
    <3>5. /\ HasCard(request'[r]) <=> HasCard(q)
          /\ Inserts(request'[r], j) <=> Inserts(q, j)
      BY <1>4 DEF HasCard, Inserts, Creates
    <3>6. CASE HasCard(q)
      BY <1>1, <1>4, <2>1, <3>1, <3>2, <3>3, <3>4, <3>5, <3>6
         DEF Informed, Since, SinceCard, Scored, ScoredCard
    <3>7. CASE ~HasCard(q)
      BY <1>1, <1>3, <1>4, <2>1, <3>1, <3>4, <3>5, <3>7
         DEF Informed, Since, SinceCard, Scored, ScoredCard
    <3>. QED
      BY <3>6, <3>7
  <2>2. CASE o # r
    <3>1. Informed(o, j)
      BY <1>5, <1>10, <2>2 DEF TInv
    <3>. QED
      BY <1>1, <1>5, <2>2, <3>1
         DEF Informed, HasCard, Since, SinceCard, Scored, ScoredCard, Inserts, Creates
  <2>. QED
    BY <2>1, <2>2
<1>. QED
  BY <1>6, <1>7, <1>9, <1>10 DEF TInv

\* A request that is rolled back leaves nothing.
LEMMA RollBackKeeps ==
    ASSUME TInv, NEW r \in Requests, RollBack(r)
    PROVE  TInv'
<1>1. \A o \in Requests : request'[o] = IF o = r THEN IdleRequest ELSE request[o]
  BY DEF RollBack, Drop, TInv, TrackerTypeOK
<1>2. UNCHANGED <<row, card, shared, day, clean>>
  BY DEF RollBack
<1>3. TrackerTypeOK'
  <2>1. request' \in [Requests -> RequestRecords]
    BY IdleType DEF RollBack, Drop, TInv, TrackerTypeOK
  <2>. QED
    BY <1>2, <2>1 DEF TInv, TrackerTypeOK
<1>4. DatesHaveScores'
  BY <1>2 DEF TInv, DatesHaveScores, Tracked, Carded
<1>5. OneInserter'
  BY <1>1 DEF TInv, OneInserter, IdleRequest
<1>6. ASSUME NEW o \in Requests, NEW j \in request'[o].jobs
      PROVE  Informed(o, j)'
  <2>1. o # r /\ request'[o] = request[o]
    BY <1>1, <1>6 DEF IdleRequest
  <2>2. Informed(o, j)
    BY <1>6, <2>1 DEF TInv
  <2>. QED
    BY <1>2, <2>1, <2>2
       DEF Informed, HasCard, Since, SinceCard, Scored, ScoredCard, Inserts, Creates
<1>. QED
  BY <1>3, <1>4, <1>5, <1>6 DEF TInv

\* Neither do the shared scores and the clock disturb it.
LEMMA BackgroundKeeps ==
    ASSUME TrackerAssumption, TInv, ScoreShared \/ Midnight
    PROVE  TInv'
<1>1. UNCHANGED <<row, card, request, clean>>
  BY DEF ScoreShared, Midnight
<1>2. TrackerTypeOK'
  BY <1>1 DEF TInv, TrackerTypeOK, ScoreShared, Midnight, Days, TrackerAssumption
<1>3. DatesHaveScores'
  BY <1>1 DEF TInv, DatesHaveScores, Tracked, Carded
<1>4. OneInserter'
  BY <1>1 DEF TInv, OneInserter, Inserts, Creates
<1>5. ASSUME NEW o \in Requests, NEW j \in request'[o].jobs
      PROVE  Informed(o, j)'
  <2>1. Informed(o, j)
    BY <1>1, <1>5 DEF TInv
  <2>. QED
    BY <1>1, <2>1
       DEF Informed, HasCard, Since, SinceCard, Scored, ScoredCard, Inserts, Creates
<1>. QED
  BY <1>2, <1>3, <1>4, <1>5 DEF TInv

\* Every step keeps the invariant.
LEMMA TInvKept ==
    ASSUME TrackerAssumption, AbsenceAssumption, TInv, [TrackerNext]_trackerVars
    PROVE  TInv'
<1>1. ASSUME NEW r \in Requests, Decide(r)
      PROVE  TInv'
  BY <1>1, BeginKeeps DEF Decide, Kinds, TrackerAssumption
<1>2. ASSUME NEW r \in Requests, BulkDecide(r)
      PROVE  TInv'
  BY <1>2, BeginKeeps DEF BulkDecide, Kinds, TrackerAssumption
<1>3. ASSUME NEW r \in Requests, GiveReason(r)
      PROVE  TInv'
  BY <1>3, BeginKeeps DEF GiveReason, Kinds, JobStatus
<1>4. ASSUME NEW r \in Requests, Visit(r)
      PROVE  TInv'
  BY <1>4, BeginKeeps DEF Visit, Kinds, JobStatus
<1>5. ASSUME NEW r \in Requests, Note(r)
      PROVE  TInv'
  BY <1>5, BeginKeeps DEF Note, Kinds, JobStatus
<1>6. ASSUME NEW r \in Requests, ScoreJobs(r)
      PROVE  TInv'
  BY <1>6, BeginKeeps DEF ScoreJobs, Kinds, JobStatus
<1>7. CASE UNCHANGED trackerVars
  BY <1>7 DEF trackerVars, TInv, TrackerTypeOK, DatesHaveScores, Tracked, Carded,
              OneInserter, Informed, HasCard, Since, SinceCard, Scored, ScoredCard,
              Inserts, Creates
<1>. QED
  BY <1>1, <1>2, <1>3, <1>4, <1>5, <1>6, <1>7,
     FlushKeeps, RollBackKeeps, CommitKeeps, BackgroundKeeps DEF TrackerNext

\* It holds initially.
LEMMA TInvInitially == TrackerAssumption /\ TrackerInit => TInv
<1>. SUFFICES ASSUME TrackerAssumption, TrackerInit
              PROVE  TInv
  OBVIOUS
<1>1. TrackerTypeOK
  BY InitType
<1>2. Tracked = {} /\ Carded = {}
  BY DEF TrackerInit, NoRows, Tracked, Carded
<1>3. \A r \in Requests : request[r].jobs = {}
  BY DEF TrackerInit, IdleRequest
<1>. QED
  BY <1>1, <1>2, <1>3 DEF TInv, DatesHaveScores, OneInserter

-----------------------------------------------------------------------------
(* Theorems. *)

\* The invariant holds in every reachable state.
LEMMA TInvAlways == TrackerSpec => []TInv
  BY TrackerAssumption, AbsenceAssumption, TInvInitially, TInvKept, PTL DEF TrackerSpec

\* Every column of the tables and of what requests hold has its type.
THEOREM TrackerTypeCorrect == TrackerSpec => []TrackerTypeOK
<1>1. TInv => TrackerTypeOK
  BY DEF TInv
<1>. QED
  BY <1>1, TInvAlways, PTL

\* Saves, dismissals and applications that are dated have the score they were made
\* against, however requests overlap.
THEOREM DatesAreScored == TrackerSpec => []DatesHaveScores
<1>1. TInv => DatesHaveScores
  BY DEF TInv
<1>. QED
  BY <1>1, TInvAlways, PTL

-----------------------------------------------------------------------------
(***************************************************************************)
(* What holds of a job as long as nothing overlaps on it.  A request that  *)
(* was alone on its jobs from its arrival commits over the very rows and   *)
(* the card it has loaded, so its commit is a sequential step.             *)
(***************************************************************************)

\* What request r knows of job j, if it is alone, is what is committed.
LoneView(r, j) ==
    LET q == request[r] IN
    q.alone =>
        /\ \A o \in Requests : o # r => j \notin request[o].jobs
        /\ q.seen[j] = IF q.kind = "note" THEN NoRow ELSE row[j]
        /\ q.kind = "reason" => row[j] # NoRow /\ row[j].status = "dismissed"
        /\ q.pc = "flushed" /\ HasCard(q) => q.card = card[j]
        /\ q.pc = "flushed" /\ q.kind = "note" => q.status = StatusOf(row[j])

AInv ==
    /\ TInv
    /\ RowAndCardAgree
    /\ RestoreIsComplete
    /\ \A r \in Requests : \A j \in request[r].jobs : LoneView(r, j)

-----------------------------------------------------------------------------
(* The commit of a request that was alone. *)

\* An edit keeps a frozen score, and the column it does not mean to change.
LEMMA EditedColumns ==
    ASSUME TrackerTypeOK, NEW q \in RequestRecords, NEW j \in Jobs
    PROVE  LET x == Loaded(q, j)
               e == Edited(q, j)
           IN /\ q.kind = "decide" => e.status = q.status
              /\ q.kind = "decide" /\ q.status = "new" =>
                    e.reason = NoReason /\ e.at["dismissed"] = NoDay
              /\ q.kind = "reason" => e.status = x.status
              /\ q.kind \in {"visit", "score"} =>
                    /\ e.status = x.status
                    /\ e.reason = x.reason
                    /\ e.at["dismissed"] = x.at["dismissed"]
<1>. DEFINE x == Loaded(q, j)
<1>. DEFINE e == Edited(q, j)
<1>1. x \in Rows
  BY EditedType
<1>2. CASE q.kind = "decide"
  <2>1. e = WithReason(StampStatus(x, j, q.status, q.now), q.status, q.reason)
    BY <1>2 DEF Edited
  <2>2. q.status \in JobStatus /\ q.now \in Days
    BY DEF RequestRecords
  <2>3. StampStatus(x, j, q.status, q.now) \in Rows
    BY <1>1, <2>2, StampType
  <2>4. StampStatus(x, j, q.status, q.now).status = q.status
    BY <1>1 DEF StampStatus, Rows
  <2>5. e.status = q.status
    BY <2>1, <2>3, <2>4 DEF WithReason, Rows
  <2>6. ASSUME q.status = "new"
        PROVE  e.reason = NoReason /\ e.at["dismissed"] = NoDay
    <3>1. e = StampStatus(x, j, "new", q.now)
      BY <2>1, <2>6 DEF WithReason
    <3>2. "dismissed" \in Stamped
      BY DEF Stamped
    <3>. QED
      BY <1>1, <3>1, <3>2 DEF StampStatus, Rows
  <2>. QED
    BY <1>2, <2>5, <2>6
<1>3. CASE q.kind = "reason"
  BY <1>1, <1>3 DEF Edited, Rows
<1>4. CASE q.kind = "visit"
  BY <1>4 DEF Edited
<1>5. CASE q.kind = "score"
  BY <1>1, <1>5 DEF Edited, Rows
<1>. QED
  BY <1>2, <1>3, <1>4, <1>5

\* Where a request was alone, its edit is what is committed, column by column.
LEMMA LoneCommit ==
    ASSUME TrackerAssumption, AbsenceAssumption, AInv, NEW r \in Requests, Commit(r),
           NEW j \in request[r].jobs, request[r].alone, request[r].kind # "note",
           Creates(request[r]) \/ row[j] # NoRow
    PROVE  LET e == Edited(request[r], j)
           IN /\ j \in Jobs
              /\ Loaded(request[r], j) = IF row[j] = NoRow THEN FreshRow ELSE row[j]
              /\ row'[j].status = e.status
              /\ row'[j].reason = e.reason
              /\ \A s \in Stamped : row'[j].at[s] = e.at[s]
              /\ \A s \in Frozen : row'[j].frozen[s] = e.frozen[s]
<1>. DEFINE q == request[r]
<1>. DEFINE e == Edited(q, j)
<1>1. q \in RequestRecords /\ j \in Jobs
  BY DEF AInv, TInv, TrackerTypeOK, RequestRecords
<1>2. q.seen[j] = row[j]
  BY DEF AInv, LoneView
<1>3. row'[j] = RowAfter(q, j)
  BY <1>1 DEF Commit
<1>4. Loaded(q, j) = IF row[j] = NoRow THEN FreshRow ELSE row[j]
  BY <1>2 DEF Loaded
<1>5. CASE row[j] = NoRow
  <2>1. row'[j] = e
    BY <1>2, <1>3, <1>5 DEF RowAfter, Inserts
  <2>. QED
    BY <1>1, <1>4, <2>1
<1>6. CASE row[j] # NoRow
  <2>1. row'[j] = WriteRow(row[j], row[j], e)
    BY <1>2, <1>3, <1>6 DEF RowAfter, Inserts
  <2>. HIDE DEF e
  <2>2. /\ row'[j].status = e.status
        /\ row'[j].reason = e.reason
        /\ \A s \in Stamped : row'[j].at[s] = e.at[s]
        /\ \A s \in Frozen : row'[j].frozen[s] = e.frozen[s]
    BY <2>1 DEF WriteRow, Column
  <2>. QED
    BY <1>1, <1>4, <2>2 DEF e
<1>. QED
  BY <1>5, <1>6

\* Where nothing overlapped, a commit keeps the row and the card together, and
\* leaves nothing of a dismissal on a job that is new.
LEMMA CommitAgrees ==
    ASSUME TrackerAssumption, AbsenceAssumption, AInv, NEW r \in Requests, Commit(r)
    PROVE  RowAndCardAgree' /\ RestoreIsComplete'
<1>. DEFINE q == request[r]
<1>1. q \in RequestRecords
  BY DEF AInv, TInv, TrackerTypeOK
<1>. SUFFICES ASSUME NEW j \in Jobs, clean'[j]
              PROVE  /\ card'[j] # NoCard => card'[j].status = StatusOf(row'[j])
                     /\ row'[j] # NoRow /\ row'[j].status = "new" =>
                           row'[j].reason = NoReason /\ row'[j].at["dismissed"] = NoDay
  BY DEF RowAndCardAgree, RestoreIsComplete, Carded, Tracked, StatusOf
<1>2. /\ row'[j] = RowAfter(q, j) /\ card'[j] = CardAfter(q, j)
      /\ clean'[j] = CleanAfter(q, j)
  BY DEF Commit
<1>3. "dismissed" \in Stamped
  BY DEF Stamped
<1>4. clean[j] => /\ card[j] # NoCard => card[j].status = StatusOf(row[j])
                  /\ row[j] # NoRow /\ row[j].status = "new" =>
                        row[j].reason = NoReason /\ row[j].at["dismissed"] = NoDay
  BY DEF AInv, RowAndCardAgree, RestoreIsComplete, Carded, Tracked
<1>5. CASE j \notin q.jobs
  BY <1>2, <1>4, <1>5 DEF RowAfter, CardAfter, CleanAfter
<1>6. CASE j \in q.jobs
  <2>1. q.alone /\ q.kind # "bulk" /\ (q.kind = "decide" \/ clean[j])
    BY <1>2, <1>6 DEF CleanAfter
  <2>2. LoneView(r, j)
    BY <1>6 DEF AInv
  <2>3. CASE q.kind = "note"
    <3>1. row'[j] = row[j]
      BY <1>2, <2>1, <2>2, <2>3 DEF RowAfter, Inserts, Creates, LoneView
    <3>2. q.card = card[j] /\ q.status = StatusOf(row[j])
      BY <2>1, <2>2, <2>3 DEF LoneView, HasCard, Commit
    <3>3. card'[j] # NoCard => card'[j].status = StatusOf(row[j])
      <4>1. CASE q.card = NoCard
        BY <1>2, <1>6, <2>3, <3>2, <4>1 DEF CardAfter, HasCard, EditedCard, FreshCard
      <4>2. CASE q.card # NoCard
        <5>1. card'[j] = WriteCard(card[j], card[j], card[j])
          BY <1>2, <1>6, <2>3, <3>2, <4>2 DEF CardAfter, HasCard, EditedCard
        <5>. QED
          BY <1>4, <2>1, <2>3, <3>2, <4>2, <5>1 DEF WriteCard, Column
      <4>. QED
        BY <4>1, <4>2
    <3>. QED
      BY <1>4, <2>1, <2>3, <3>1, <3>3
  <2>4. CASE q.kind = "decide"
    <3>1. /\ row'[j].status = Edited(q, j).status
          /\ row'[j].reason = Edited(q, j).reason
          /\ row'[j].at["dismissed"] = Edited(q, j).at["dismissed"]
      BY <1>3, <1>6, <2>1, <2>4, LoneCommit DEF Creates
    <3>2. /\ row'[j].status = q.status
          /\ q.status = "new" => row'[j].reason = NoReason /\ row'[j].at["dismissed"] = NoDay
      BY <1>1, <2>4, <3>1, EditedColumns DEF AInv, TInv
    <3>3. q.card = card[j]
      BY <2>1, <2>2, <2>4 DEF LoneView, HasCard, Commit
    <3>4. EditedCard(q, j).status = q.status
      BY <1>1, <2>4, EditedCardStamps DEF AInv, TInv
    <3>5. card'[j].status = q.status
      <4>1. CASE q.card = NoCard
        BY <1>2, <1>6, <2>4, <3>4, <4>1 DEF CardAfter, HasCard
      <4>2. CASE q.card # NoCard
        <5>1. card'[j] = WriteCard(card[j], card[j], EditedCard(q, j))
          BY <1>2, <1>6, <2>4, <3>3, <4>2 DEF CardAfter, HasCard
        <5>. QED
          BY <3>4, <5>1 DEF WriteCard, Column
      <4>. QED
        BY <4>1, <4>2
    <3>6. row'[j] # NoRow
      <4>1. Edited(q, j) \in Rows
        BY <1>1, EditedType DEF AInv, TInv
      <4>2. row[j] = NoRow => row'[j] = Edited(q, j)
        BY <1>2, <1>6, <2>1, <2>2, <2>4 DEF LoneView, RowAfter, Inserts, Creates
      <4>3. row[j] # NoRow => row'[j] # NoRow
        BY CommitRow DEF AInv, RowStep
      <4>. QED
        BY <4>1, <4>2, <4>3 DEF AbsenceAssumption
    <3>. QED
      BY <3>2, <3>5, <3>6 DEF StatusOf
  <2>5. CASE q.kind \in {"reason", "visit", "score"}
    <3>1. card'[j] = card[j] /\ clean[j]
      BY <1>2, <2>1, <2>5 DEF CardAfter, HasCard
    <3>2. q.kind = "reason" => row[j] # NoRow /\ row[j].status = "dismissed"
      BY <2>1, <2>2 DEF LoneView
    <3>3. q.kind # "reason" => Creates(q)
      BY <2>5 DEF Creates
    <3>4. /\ Loaded(q, j) = IF row[j] = NoRow THEN FreshRow ELSE row[j]
          /\ row'[j].status = Edited(q, j).status
          /\ row'[j].reason = Edited(q, j).reason
          /\ row'[j].at["dismissed"] = Edited(q, j).at["dismissed"]
      BY <1>3, <1>6, <2>1, <2>5, <3>2, <3>3, LoneCommit
    <3>5. /\ q.kind = "reason" => row'[j].status = row[j].status
          /\ q.kind # "reason" => /\ row'[j].status = Loaded(q, j).status
                                  /\ row'[j].reason = Loaded(q, j).reason
                                  /\ row'[j].at["dismissed"] = Loaded(q, j).at["dismissed"]
      BY <1>1, <2>5, <3>2, <3>4, EditedColumns DEF AInv, TInv
    <3>6. FreshRow.status = "new" /\ FreshRow.reason = NoReason
          /\ FreshRow.at["dismissed"] = NoDay
      BY <1>3 DEF FreshRow
    <3>7. row'[j].status = StatusOf(row[j])
      BY <3>2, <3>4, <3>5, <3>6 DEF StatusOf
    <3>8. row'[j] # NoRow
      <4>1. Edited(q, j) \in Rows
        BY <1>1, EditedType DEF AInv, TInv
      <4>2. row[j] = NoRow => row'[j] = Edited(q, j)
        BY <1>2, <1>6, <2>1, <2>2, <2>5, <3>2, <3>3 DEF LoneView, RowAfter, Inserts
      <4>3. row[j] # NoRow => row'[j] # NoRow
        BY CommitRow DEF AInv, RowStep
      <4>. QED
        BY <4>1, <4>2, <4>3 DEF AbsenceAssumption
    <3>. QED
      BY <1>4, <3>1, <3>2, <3>4, <3>5, <3>6, <3>7, <3>8 DEF StatusOf
  <2>. QED
    BY <1>1, <2>1, <2>3, <2>4, <2>5 DEF RequestRecords, Kinds
<1>. QED
  BY <1>5, <1>6

-----------------------------------------------------------------------------
(* Every step keeps the invariant. *)

\* An arrival takes a request's claim to be alone away from whoever is on the job.
LEMMA BeginLone ==
    ASSUME AInv, NEW r \in Requests, NEW kind \in Kinds, NEW jobs \in SUBSET Jobs,
           NEW s, NEW why, NEW points, Begin(r, kind, jobs, s, why, points),
           kind = "reason" => \A j \in jobs : StatusOf(row[j]) = "dismissed",
           NEW o \in Requests, NEW j \in request'[o].jobs
    PROVE  LoneView(o, j)'
<1>1. UNCHANGED <<row, card>>
  BY DEF Begin
<1>. DEFINE others == {a \in Requests \ {r} : request[a].jobs \cap jobs # {}}
<1>2. /\ request'[r].jobs = jobs /\ request'[r].kind = kind
      /\ request'[r].pc = "loaded"
      /\ request'[r].alone = (others = {})
      /\ \A i \in Jobs : request'[r].seen[i] = IF i \in jobs /\ kind # "note"
                                               THEN row[i] ELSE NoRow
  BY DEF Begin
<1>3. ASSUME NEW a \in Requests, a # r
      PROVE  /\ request'[a].pc = request[a].pc /\ request'[a].kind = request[a].kind
             /\ request'[a].jobs = request[a].jobs /\ request'[a].seen = request[a].seen
             /\ request'[a].card = request[a].card
             /\ request'[a].status = request[a].status
             /\ request'[a].alone => request[a].alone /\ a \notin others
  <2>1. request[a] \in RequestRecords
    BY DEF AInv, TInv, TrackerTypeOK
  <2>2. request'[a] = IF a \in others THEN [request[a] EXCEPT !.alone = FALSE] ELSE request[a]
    BY <1>3 DEF Begin
  <2>. QED
    BY <2>1, <2>2 DEF RequestRecords
<1>4. CASE o = r
  <2>1. j \in jobs /\ j \in Jobs
    BY <1>2, <1>4
  <2>2. request'[r].alone => \A a \in Requests : a # r => j \notin request'[a].jobs
    BY <1>2, <1>3, <2>1
  <2>3. kind = "reason" => row[j] # NoRow /\ row[j].status = "dismissed"
    BY <2>1 DEF StatusOf
  <2>. QED
    BY <1>1, <1>2, <1>4, <2>1, <2>2, <2>3 DEF LoneView
<1>5. CASE o # r
  <2>1. LoneView(o, j) /\ j \in request[o].jobs
    BY <1>3, <1>5 DEF AInv
  <2>2. request'[o].alone => \A a \in Requests : a # o => j \notin request'[a].jobs
    BY <1>2, <1>3, <1>5, <2>1 DEF LoneView
  <2>. QED
    BY <1>1, <1>3, <1>5, <2>1, <2>2 DEF LoneView, HasCard, StatusOf
<1>. QED
  BY <1>4, <1>5

\* A flush looks the card up.
LEMMA FlushLone ==
    ASSUME AInv, NEW r \in Requests, Flush(r), NEW o \in Requests, NEW j \in request'[o].jobs
    PROVE  LoneView(o, j)'
<1>1. UNCHANGED <<row, card>>
  BY DEF Flush
<1>2. ASSUME NEW a \in Requests
      PROVE  /\ request'[a].kind = request[a].kind /\ request'[a].jobs = request[a].jobs
             /\ request'[a].seen = request[a].seen /\ request'[a].alone = request[a].alone
             /\ a # r => request'[a] = request[a]
  <2>1. request[a] \in RequestRecords
    BY DEF AInv, TInv, TrackerTypeOK
  <2>2. request \in [Requests -> RequestRecords]
    BY DEF AInv, TInv, TrackerTypeOK
  <2>3. CASE HasCard(request[r])
    <3>1. PICK i \in request[r].jobs :
            request' = [request EXCEPT
                    ![r].pc = "flushed",
                    ![r].card = card[i],
                    ![r].status = IF request[r].kind = "note" THEN StatusOf(row[i]) ELSE @]
      BY <2>3 DEF Flush
    <3>. QED
      BY <2>1, <2>2, <3>1 DEF RequestRecords
  <2>4. CASE ~HasCard(request[r])
    <3>1. request' = [request EXCEPT ![r].pc = "flushed"]
      BY <2>4 DEF Flush
    <3>. QED
      BY <2>1, <2>2, <3>1 DEF RequestRecords
  <2>. QED
    BY <2>3, <2>4
<1>3. LoneView(o, j) /\ Informed(o, j)
  BY <1>2 DEF AInv, TInv
<1>4. CASE o = r /\ HasCard(request[r])
  <2>1. PICK i \in request[r].jobs :
          request' = [request EXCEPT
                  ![r].pc = "flushed",
                  ![r].card = card[i],
                  ![r].status = IF request[r].kind = "note" THEN StatusOf(row[i]) ELSE @]
    BY <1>4 DEF Flush
  <2>2. i = j
    BY <1>3, <1>4, <2>1 DEF Informed
  <2>3. request[r] \in RequestRecords /\ request \in [Requests -> RequestRecords]
    BY DEF AInv, TInv, TrackerTypeOK
  <2>4. /\ request'[r].card = card[j]
        /\ request[r].kind = "note" => request'[r].status = StatusOf(row[j])
    BY <2>1, <2>2, <2>3 DEF RequestRecords
  <2>. QED
    BY <1>1, <1>2, <1>3, <1>4, <2>4 DEF LoneView, StatusOf
<1>5. CASE o = r /\ ~HasCard(request[r])
  BY <1>1, <1>2, <1>3, <1>5 DEF LoneView, HasCard, StatusOf
<1>6. CASE o # r
  BY <1>1, <1>2, <1>3, <1>6 DEF LoneView, HasCard, StatusOf
<1>. QED
  BY <1>4, <1>5, <1>6

\* A commit does not touch the jobs another request is alone on.
LEMMA CommitLone ==
    ASSUME AInv, NEW r \in Requests, Commit(r), NEW o \in Requests, NEW j \in request'[o].jobs
    PROVE  LoneView(o, j)'
<1>1. \A a \in Requests : request'[a] = IF a = r THEN IdleRequest ELSE request[a]
  BY DEF Commit, Drop, AInv, TInv, TrackerTypeOK
<1>2. o # r /\ j \in request[o].jobs /\ LoneView(o, j)
  BY <1>1 DEF IdleRequest, AInv
<1>3. j \in Jobs
  BY <1>2 DEF AInv, TInv, TrackerTypeOK, RequestRecords
<1>4. request[o].alone => j \notin request[r].jobs
  BY <1>2 DEF LoneView
<1>5. request[o].alone => row'[j] = row[j] /\ card'[j] = card[j]
  BY <1>3, <1>4 DEF Commit, RowAfter, CardAfter
<1>. QED
  BY <1>1, <1>2, <1>5 DEF LoneView, HasCard, StatusOf, IdleRequest

\* Every step keeps the invariant.
LEMMA AInvKept ==
    ASSUME TrackerAssumption, AbsenceAssumption, AInv, [TrackerNext]_trackerVars
    PROVE  AInv'
<1>1. TInv'
  BY TInvKept DEF AInv
<1>2. ASSUME NEW r \in Requests, NEW kind \in Kinds, NEW jobs \in SUBSET Jobs,
             NEW s, NEW why, NEW points, Begin(r, kind, jobs, s, why, points),
             kind = "reason" => \A j \in jobs : StatusOf(row[j]) = "dismissed"
      PROVE  AInv'
  <2>1. \A o \in Requests : \A j \in request'[o].jobs : LoneView(o, j)'
    BY <1>2, BeginLone
  <2>2. RowAndCardAgree' /\ RestoreIsComplete'
    BY <1>2 DEF Begin, AInv, RowAndCardAgree, RestoreIsComplete, Carded, Tracked, StatusOf
  <2>. QED
    BY <1>1, <2>1, <2>2 DEF AInv
<1>3. ASSUME NEW r \in Requests,
             \/ Decide(r) \/ BulkDecide(r) \/ GiveReason(r) \/ Visit(r) \/ Note(r)
             \/ ScoreJobs(r)
      PROVE  AInv'
  <2>1. CASE Decide(r)
    BY <1>2, <2>1 DEF Decide, Kinds
  <2>2. CASE BulkDecide(r)
    BY <1>2, <2>2 DEF BulkDecide, Kinds
  <2>3. CASE GiveReason(r)
    BY <1>2, <2>3 DEF GiveReason, Kinds
  <2>4. CASE Visit(r)
    BY <1>2, <2>4 DEF Visit, Kinds
  <2>5. CASE Note(r)
    BY <1>2, <2>5 DEF Note, Kinds
  <2>6. CASE ScoreJobs(r)
    BY <1>2, <2>6 DEF ScoreJobs, Kinds
  <2>. QED
    BY <1>3, <2>1, <2>2, <2>3, <2>4, <2>5, <2>6
<1>4. ASSUME NEW r \in Requests, Flush(r)
      PROVE  AInv'
  <2>1. RowAndCardAgree' /\ RestoreIsComplete'
    BY <1>4 DEF Flush, AInv, RowAndCardAgree, RestoreIsComplete, Carded, Tracked, StatusOf
  <2>. QED
    BY <1>1, <1>4, <2>1, FlushLone DEF AInv
<1>5. ASSUME NEW r \in Requests, RollBack(r)
      PROVE  AInv'
  <2>1. RowAndCardAgree' /\ RestoreIsComplete'
    BY <1>5 DEF RollBack, AInv, RowAndCardAgree, RestoreIsComplete, Carded, Tracked, StatusOf
  <2>2. \A o \in Requests : request'[o] = IF o = r THEN IdleRequest ELSE request[o]
    BY <1>5 DEF RollBack, Drop, AInv, TInv, TrackerTypeOK
  <2>3. ASSUME NEW o \in Requests, NEW j \in request'[o].jobs
        PROVE  LoneView(o, j)'
    BY <1>5, <2>2, <2>3 DEF RollBack, IdleRequest, AInv, LoneView, HasCard, StatusOf
  <2>. QED
    BY <1>1, <2>1, <2>3 DEF AInv
<1>6. ASSUME NEW r \in Requests, Commit(r)
      PROVE  AInv'
  BY <1>1, <1>6, CommitAgrees, CommitLone DEF AInv
<1>7. CASE UNCHANGED <<row, card, request, clean>>
  <2>1. RowAndCardAgree' /\ RestoreIsComplete'
    BY <1>7 DEF AInv, RowAndCardAgree, RestoreIsComplete, Carded, Tracked, StatusOf
  <2>2. \A o \in Requests : \A j \in request'[o].jobs : LoneView(o, j)'
    BY <1>7 DEF AInv, LoneView, HasCard, StatusOf
  <2>. QED
    BY <1>1, <2>1, <2>2 DEF AInv
<1>8. UNCHANGED trackerVars \/ ScoreShared \/ Midnight => UNCHANGED <<row, card, request, clean>>
  BY DEF trackerVars, ScoreShared, Midnight
<1>. QED
  BY <1>3, <1>4, <1>5, <1>6, <1>7, <1>8 DEF TrackerNext

\* It holds initially.
LEMMA AInvInitially == TrackerAssumption /\ TrackerInit => AInv
<1>. SUFFICES ASSUME TrackerAssumption, TrackerInit
              PROVE  AInv
  OBVIOUS
<1>1. Tracked = {} /\ Carded = {}
  BY DEF TrackerInit, NoRows, Tracked, Carded
<1>2. \A r \in Requests : request[r].jobs = {}
  BY DEF TrackerInit, IdleRequest
<1>. QED
  BY <1>1, <1>2, TInvInitially DEF AInv, RowAndCardAgree, RestoreIsComplete

-----------------------------------------------------------------------------
(* Theorems. *)

\* The invariant holds in every reachable state.
LEMMA AInvAlways == TrackerSpec => []AInv
  BY TrackerAssumption, AbsenceAssumption, AInvInitially, AInvKept, PTL DEF TrackerSpec

\* As long as decisions on a job are single and do not overlap, its card says what
\* its row says.
THEOREM CardTellsTheStory == TrackerSpec => []RowAndCardAgree
<1>1. AInv => RowAndCardAgree
  BY DEF AInv
<1>. QED
  BY <1>1, AInvAlways, PTL

\* As long as nothing overlaps on it, a job that is new has no trace of a dismissal.
THEOREM RestoresAreComplete == TrackerSpec => []RestoreIsComplete
<1>1. AInv => RestoreIsComplete
  BY DEF AInv
<1>. QED
  BY <1>1, AInvAlways, PTL

\* As long as nothing overlaps on the job, a score that was frozen with a decision
\* is never written again.
THEOREM FrozenScoresStay == TrackerSpec => FrozenScoresKept
<1>. DEFINE Kept ==
        \A j \in Jobs : clean'[j] =>
          /\ row[j] # NoRow =>
                \A s \in Frozen : row[j].frozen[s] # NoScore
                                     => row'[j].frozen[s] = row[j].frozen[s]
          /\ card[j] # NoCard =>
                (card[j].score # NoScore => card'[j].score = card[j].score)
<1>1. ASSUME AInv, [TrackerNext]_trackerVars
      PROVE  [Kept]_trackerVars
  <2>1. ASSUME NEW r \in Requests, Commit(r), NEW j \in Jobs, clean'[j]
        PROVE  /\ row[j] # NoRow =>
                     \A s \in Frozen : row[j].frozen[s] # NoScore
                                          => row'[j].frozen[s] = row[j].frozen[s]
               /\ card[j] # NoCard =>
                     (card[j].score # NoScore => card'[j].score = card[j].score)
    <3>. DEFINE q == request[r]
    <3>0. q \in RequestRecords /\ TrackerTypeOK
      BY <1>1 DEF AInv, TInv, TrackerTypeOK
    <3>1. /\ row'[j] = RowAfter(q, j) /\ card'[j] = CardAfter(q, j)
          /\ clean'[j] = CleanAfter(q, j)
      BY <2>1 DEF Commit
    <3>2. CASE j \notin q.jobs
      BY <3>1, <3>2 DEF RowAfter, CardAfter
    <3>3. CASE j \in q.jobs
      <4>1. q.alone /\ LoneView(r, j)
        BY <1>1, <2>1, <3>1, <3>3 DEF CleanAfter, AInv
      <4>2. ASSUME row[j] # NoRow, NEW s \in Frozen, row[j].frozen[s] # NoScore
            PROVE  row'[j].frozen[s] = row[j].frozen[s]
        <5>1. CASE q.kind = "note"
          BY <3>1, <4>1, <5>1 DEF RowAfter, Inserts, Creates, LoneView
        <5>2. CASE q.kind # "note"
          <6>1. /\ Loaded(q, j) = row[j]
                /\ row'[j].frozen[s] = Edited(q, j).frozen[s]
            BY <1>1, <2>1, <3>3, <4>1, <4>2, <5>2, LoneCommit,
               TrackerAssumption, AbsenceAssumption
          <6>2. Edited(q, j).frozen[s] # Loaded(q, j).frozen[s]
                   => Loaded(q, j).frozen[s] = NoScore
            BY <3>0, EditedStamps, TrackerAssumption
          <6>. QED
            BY <4>2, <6>1, <6>2
        <5>. QED
          BY <5>1, <5>2
      <4>3. ASSUME card[j] # NoCard, card[j].score # NoScore
            PROVE  card'[j].score = card[j].score
        <5>1. CASE ~HasCard(q)
          BY <3>1, <5>1 DEF CardAfter
        <5>2. CASE HasCard(q)
          <6>1. q.card = card[j]
            BY <2>1, <4>1, <5>2 DEF LoneView, Commit
          <6>2. card'[j] = WriteCard(card[j], card[j], EditedCard(q, j))
            BY <3>1, <3>3, <4>3, <5>2, <6>1 DEF CardAfter
          <6>3. EditedCard(q, j).score # card[j].score => card[j].score = NoScore
            BY <3>0, <4>3, <6>1, EditedCardStamps, TrackerAssumption
          <6>. QED
            BY <4>3, <6>2, <6>3 DEF WriteCard, Column
        <5>. QED
          BY <5>1, <5>2
      <4>. QED
        BY <4>2, <4>3
    <3>. QED
      BY <3>2, <3>3
  <2>2. CASE UNCHANGED <<row, card>>
    BY <2>2
  <2>. QED
    BY <1>1, <2>1, <2>2
       DEF TrackerNext, trackerVars, Decide, BulkDecide, GiveReason, Visit, Note, ScoreJobs,
           Begin, Flush, RollBack, ScoreShared, Midnight
<1>. QED
  BY <1>1, AInvAlways, PTL DEF TrackerSpec, FrozenScoresKept

\* A commit replaces a date that is there only if its request had found none, and
\* so was not alone; it never takes the date away.
LEMMA CommitDates ==
    ASSUME TrackerAssumption, AbsenceAssumption, AInv, NEW r \in Requests, Commit(r),
           NEW j \in Jobs
    PROVE  /\ \A s \in {"saved", "applied"} :
                 row[j] # NoRow /\ row[j].at[s] # NoDay /\ row'[j].at[s] # row[j].at[s] =>
                    row'[j].at[s] # NoDay /\ CommitsOver(r, j, request[r].seen[j].at[s])
           /\ \A s \in Dated :
                 card[j] # NoCard /\ card[j].at[s] # NoDay /\ card'[j].at[s] # card[j].at[s] =>
                    card'[j].at[s] # NoDay /\ CommitsOver(r, j, request[r].card.at[s])
<1>. DEFINE q == request[r]
<1>1. q \in RequestRecords /\ TrackerTypeOK /\ q.pc = "flushed" /\ request'[r].pc = "idle"
  BY DEF AInv, TInv, TrackerTypeOK, Commit, Drop, IdleRequest
<1>2. row'[j] = RowAfter(q, j) /\ card'[j] = CardAfter(q, j)
  BY DEF Commit
<1>3. j \in q.jobs => LoneView(r, j) /\ Informed(r, j)
  BY DEF AInv, TInv
<1>4. RowStep(j) /\ CardStep(j)
  BY CommitRow, CommitCard DEF AInv
<1>5. ASSUME NEW s \in {"saved", "applied"}, row[j] # NoRow, row[j].at[s] # NoDay,
             row'[j].at[s] # row[j].at[s]
      PROVE  row'[j].at[s] # NoDay /\ CommitsOver(r, j, q.seen[j].at[s])
  <2>1. row'[j].at[s] # NoDay
    BY <1>4, <1>5 DEF RowStep, Since
  <2>2. j \in q.jobs /\ ~Inserts(q, j) /\ q.seen[j] # NoRow
    BY <1>1, <1>2, <1>3, <1>5 DEF RowAfter, Informed
  <2>3. row'[j] = WriteRow(row[j], q.seen[j], Edited(q, j))
    BY <1>2, <2>2 DEF RowAfter
  <2>4. s \in Stamped
    BY DEF Stamped
  <2>5. Edited(q, j).at[s] # q.seen[j].at[s]
    BY <1>5, <2>3, <2>4 DEF WriteRow, Column
  <2>6. q.seen[j] = Loaded(q, j)
    BY <2>2 DEF Loaded
  <2>7. q.seen[j].at[s] = NoDay
    BY <1>1, <2>5, <2>6, EditedStamps
  <2>8. ~q.alone
    BY <1>3, <1>5, <2>2, <2>7 DEF LoneView
  <2>. QED
    BY <1>1, <2>1, <2>2, <2>7, <2>8 DEF CommitsOver
<1>6. ASSUME NEW s \in Dated, card[j] # NoCard, card[j].at[s] # NoDay,
             card'[j].at[s] # card[j].at[s]
      PROVE  card'[j].at[s] # NoDay /\ CommitsOver(r, j, q.card.at[s])
  <2>1. card'[j].at[s] # NoDay
    BY <1>4, <1>6 DEF CardStep, SinceCard
  <2>2. j \in q.jobs /\ HasCard(q) /\ q.card # NoCard
    BY <1>2, <1>6 DEF CardAfter, Commit
  <2>3. card'[j] = WriteCard(card[j], q.card, EditedCard(q, j))
    BY <1>2, <2>2 DEF CardAfter
  <2>4. EditedCard(q, j).at[s] # q.card.at[s]
    BY <1>6, <2>3 DEF WriteCard, Column
  <2>5. q.card.at[s] = NoDay
    BY <1>1, <2>2, <2>4, EditedCardStamps
  <2>6. ~q.alone
    BY <1>1, <1>3, <1>6, <2>2, <2>5 DEF LoneView
  <2>. QED
    BY <1>1, <2>1, <2>2, <2>5, <2>6 DEF CommitsOver
<1>. QED
  BY <1>5, <1>6

\* The date of a first save, of a first application and of every step of a card is
\* never lost; only a request that overlapped another one and had found no date
\* replaces it.
THEOREM FirstDatesStay == TrackerSpec => FirstDatesKept
<1>. DEFINE Kept ==
        /\ \A j \in Tracked, s \in {"saved", "applied"} :
              row[j].at[s] # NoDay /\ row'[j].at[s] # row[j].at[s] =>
                 /\ row'[j].at[s] # NoDay
                 /\ \E r \in Requests : CommitsOver(r, j, request[r].seen[j].at[s])
        /\ \A j \in Carded, s \in Dated :
              card[j].at[s] # NoDay /\ card'[j].at[s] # card[j].at[s] =>
                 /\ card'[j].at[s] # NoDay
                 /\ \E r \in Requests : CommitsOver(r, j, request[r].card.at[s])
<1>1. ASSUME AInv, [TrackerNext]_trackerVars
      PROVE  [Kept]_trackerVars
  <2>1. ASSUME NEW r \in Requests, Commit(r)
        PROVE  Kept
    BY <1>1, <2>1, CommitDates, TrackerAssumption, AbsenceAssumption DEF Tracked, Carded
  <2>2. CASE UNCHANGED <<row, card>>
    BY <2>2 DEF Tracked, Carded
  <2>. QED
    BY <1>1, <2>1, <2>2
       DEF TrackerNext, trackerVars, Decide, BulkDecide, GiveReason, Visit, Note, ScoreJobs,
           Begin, Flush, RollBack, ScoreShared, Midnight
<1>. QED
  BY <1>1, AInvAlways, PTL DEF TrackerSpec, FirstDatesKept
=============================================================================
