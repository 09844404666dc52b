------------------------------ MODULE Tracker ------------------------------
(***************************************************************************)
(* What one user has decided about jobs: the UserJobState row behind the   *)
(* feed and the digests, and the Application card behind the analytics.    *)
(*                                                                         *)
(* The routes run in a thread pool and the search run in another thread,   *)
(* so each is a transaction of three steps: it loads the rows, flushes its *)
(* changes, and commits.  The database holds a row that has been written   *)
(* until the writer commits.  The mapper writes the columns a request has  *)
(* changed with respect to the row it loaded, and no others; an insert     *)
(* that meets the unique constraint rolls the whole request back.          *)
(***************************************************************************)
EXTENDS Integers

CONSTANTS
    Jobs,
    Requests,      \* what may be under way together
    Statuses,      \* the statuses users give, by button, undo or mailed link
    BulkStatuses,  \* the ones they give to a whole selection
    Reasons,       \* DISMISS_REASONS
    NoReason,
    Scores,
    NoScore,
    LastDay,       \* the bound on the clock
    NoDay,
    NoRow,
    NoCard

JobStatus == {"new", "saved", "applied", "assessment", "interview", "offer",
              "rejected", "dismissed", "expired"}

ASSUME TrackerAssumption ==
    /\ BulkStatuses \subseteq Statuses
    /\ Statuses \subseteq JobStatus
    /\ LastDay \in Nat
    /\ NoDay \notin 0 .. LastDay
    /\ NoReason \notin Reasons
    /\ NoScore \notin Scores

VARIABLES
    row,       \* row[j]: the committed UserJobState, or NoRow
    card,      \* card[j]: the committed Application, or NoCard
    shared,    \* shared[j]: Job.relevance_score
    day,
    request,   \* request[r]: what a request wants and what it has loaded
    clean      \* clean[j]: history, whether the last decision was a single one
               \* and nothing that overlapped another request came after it

trackerVars == <<row, card, shared, day, request, clean>>

-----------------------------------------------------------------------------
(* The two rows. *)

\* STATUS_TIMESTAMP, SCORE_SNAPSHOT and STATUS_DATE_FIELD: the statuses whose
\* arrival a row dates, whose score it freezes, and that a card dates.
Stamped == {"saved", "applied", "dismissed"}
Frozen == {"saved", "dismissed"}
Dated == {"saved", "applied", "assessment", "interview", "offer", "rejected"}

Days == 0 .. LastDay

Rows == [status : JobStatus,
         at     : [Stamped -> Days \cup {NoDay}],
         score  : Scores \cup {NoScore},
         frozen : [Frozen -> Scores \cup {NoScore}],
         reason : Reasons \cup {NoReason}]

Cards == [status : JobStatus,
          at     : [Dated -> Days \cup {NoDay}],
          score  : Scores \cup {NoScore}]

ASSUME AbsenceAssumption == NoRow \notin Rows /\ NoCard \notin Cards

FreshRow == [status |-> "new",
             at     |-> [s \in Stamped |-> NoDay],
             score  |-> NoScore,
             frozen |-> [s \in Frozen |-> NoScore],
             reason |-> NoReason]

FreshCard(s) == [status |-> s,
                 at     |-> [d \in Dated |-> NoDay],
                 score  |-> NoScore]

\* A missing row has no status.
StatusIfAny(x) == IF x = NoRow THEN NoRow ELSE x.status

StatusOf(x) == IF x = NoRow THEN "new" ELSE x.status

\* An UPDATE of the columns in which `new' differs from the row that was loaded.
Column(now, loaded, new) == IF new = loaded THEN now ELSE new

\* Every column, changed or not.
WriteWholeRow(now, loaded, new) == new

WriteRow(now, loaded, new) ==
    [status |-> Column(now.status, loaded.status, new.status),
     at     |-> [s \in Stamped |-> Column(now.at[s], loaded.at[s], new.at[s])],
     score  |-> Column(now.score, loaded.score, new.score),
     frozen |-> [s \in Frozen |->
                    Column(now.frozen[s], loaded.frozen[s], new.frozen[s])],
     reason |-> Column(now.reason, loaded.reason, new.reason)]

WriteCard(now, loaded, new) ==
    [status |-> Column(now.status, loaded.status, new.status),
     at     |-> [s \in Dated |-> Column(now.at[s], loaded.at[s], new.at[s])],
     score  |-> Column(now.score, loaded.score, new.score)]

-----------------------------------------------------------------------------
(* What a handler does to a row it has loaded. *)

\* The user's own score only.
OwnScore(x, j) == x.score

ScoreOf(x, j) == IF x.score = NoScore THEN shared[j] ELSE x.score

\* The restore leaves the reason behind.
StampKeepingReason(x, j, s, now) ==
    [x EXCEPT
        !.status = s,
        !.at = [t \in Stamped |->
                   IF t = s /\ @[t] = NoDay THEN now
                   ELSE IF s = "new" /\ t = "dismissed" THEN NoDay ELSE @[t]],
        !.frozen = [t \in Frozen |->
                       IF t = s /\ @[t] = NoScore THEN ScoreOf(x, j) ELSE @[t]]]

\* The first arrival counts, for the date and for the score; going back to new
\* takes a dismissal back.
StampStatus(x, j, s, now) ==
    [x EXCEPT
        !.status = s,
        !.at = [t \in Stamped |->
                   IF t = s /\ @[t] = NoDay THEN now
                   ELSE IF s = "new" /\ t = "dismissed" THEN NoDay ELSE @[t]],
        !.frozen = [t \in Frozen |->
                       IF t = s /\ @[t] = NoScore THEN ScoreOf(x, j) ELSE @[t]],
        !.reason = IF s = "new" THEN NoReason ELSE @]

WithReason(x, s, why) ==
    IF s = "dismissed" /\ why # NoReason THEN [x EXCEPT !.reason = why] ELSE x

Loaded(q, j) == IF q.seen[j] = NoRow THEN FreshRow ELSE q.seen[j]

\* The row object of request q just before it is flushed.
Edited(q, j) ==
    LET x == Loaded(q, j) IN
    CASE q.kind = "decide"      -> WithReason(StampStatus(x, j, q.status, q.now),
                                        q.status, q.reason)
      [] q.kind = "bulk"        -> IF x.status = q.status THEN x
                               ELSE StampStatus(x, j, q.status, q.now)
      [] q.kind = "reason"      -> [x EXCEPT !.reason = q.reason]
      [] q.kind = "score"       -> [x EXCEPT !.score = q.score]
      [] OTHER                  -> x

\* Notes and application fields need no state row; a reason finds one.
Creates(q) == q.kind \notin {"reason", "note"}

Inserts(q, j) == Creates(q) /\ q.seen[j] = NoRow

Writes(q, j) == Inserts(q, j) \/ (q.seen[j] # NoRow /\ Edited(q, j) # q.seen[j])

HasCard(q) == q.kind \in {"decide", "note"}

\* A card keeps the status it was created with.
EditedCardOnce(q, j) ==
    LET c == IF q.card = NoCard THEN FreshCard(q.status) ELSE q.card IN
    IF q.kind = "note" THEN c
    ELSE [c EXCEPT
            !.at = [d \in Dated |-> IF d = q.status /\ @[d] = NoDay THEN q.now ELSE @[d]],
            !.score = IF q.status = "applied" /\ @ = NoScore THEN shared[j] ELSE @]

\* The card object of request q just before it is committed.
EditedCard(q, j) ==
    LET c == IF q.card = NoCard THEN FreshCard(q.status) ELSE q.card IN
    IF q.kind = "note" THEN c
    ELSE [c EXCEPT
            !.status = q.status,
            !.at = [d \in Dated |-> IF d = q.status /\ @[d] = NoDay THEN q.now ELSE @[d]],
            !.score = IF q.status = "applied" /\ @ = NoScore THEN shared[j] ELSE @]

-----------------------------------------------------------------------------
(* Requests. *)

Kinds == {"decide", "bulk", "reason", "visit", "note", "score"}

\* The requests that date what they write in a modelled column.
Dating == {"decide", "bulk"}

RequestRecords == [pc     : {"idle", "loaded", "flushed"},
                   kind   : Kinds,
                   jobs   : SUBSET Jobs,
                   status : JobStatus,
                   reason : Reasons \cup {NoReason},
                   score  : Scores \cup {NoScore},
                   seen   : [Jobs -> Rows \cup {NoRow}],  \* the rows it loaded
                   card   : Cards \cup {NoCard},          \* the card it loaded
                   now    : Days,                         \* when it arrived
                   alone  : BOOLEAN]    \* history: no other on its jobs meanwhile

NoRows == [j \in Jobs |-> NoRow]

IdleRequest == [pc |-> "idle", kind |-> "note", jobs |-> {}, status |-> "new",
                reason |-> NoReason, score |-> NoScore, seen |-> NoRows,
                card |-> NoCard, now |-> 0, alone |-> TRUE]

TrackerInit ==
    /\ row = NoRows
    /\ card = [j \in Jobs |-> NoCard]
    /\ shared \in [Jobs -> Scores]
    /\ day = 0
    /\ request = [r \in Requests |-> IdleRequest]
    /\ clean = [j \in Jobs |-> TRUE]

\* A request arrives, reads the clock and loads the rows of its jobs.
Begin(r, kind, jobs, s, why, points) ==
    LET others == {o \in Requests \ {r} : request[o].jobs \cap jobs # {}} IN
    /\ request[r].pc = "idle"
    /\ request' = [o \in Requests |->
          IF o = r THEN [pc |-> "loaded", kind |-> kind, jobs |-> jobs, status |-> s,
                         reason |-> why, score |-> points,
                         seen |-> [j \in Jobs |-> IF j \in jobs /\ kind # "note"
                                                   THEN row[j] ELSE NoRow],
                         card |-> NoCard, alone |-> others = {},
                         now |-> IF kind \in Dating THEN day ELSE 0]
          ELSE IF o \in others THEN [request[o] EXCEPT !.alone = FALSE]
          ELSE request[o]]
    /\ UNCHANGED <<row, card, shared, day, clean>>

\* The status buttons and their undo, the API, and a mailed link.
Decide(r) ==
    \E j \in Jobs, s \in Statuses, why \in Reasons \cup {NoReason} :
        /\ s # "dismissed" => why = NoReason
        /\ Begin(r, "decide", {j}, s, why, NoScore)

\* One decision for everything selected.
BulkDecide(r) ==
    \E S \in SUBSET Jobs \ {{}}, s \in BulkStatuses :
        Begin(r, "bulk", S, s, NoReason, NoScore)

\* A chip in the toast: only where the row it loads is a dismissal; the reason
\* that is there already is not written again.
GiveReason(r) ==
    \E j \in Jobs, why \in Reasons :
        /\ StatusOf(row[j]) = "dismissed"
        /\ row[j].reason # why
        /\ Begin(r, "reason", {j}, "new", why, NoScore)

\* Opened, "not yet", or marked notified: columns of their own (opened_at,
\* notified), in a row that is created when there is none; where there is one,
\* nothing that is modelled changes.
Visit(r) ==
    \E j \in Jobs :
        /\ row[j] = NoRow
        /\ Begin(r, "visit", {j}, "new", NoReason, NoScore)

\* A note, or the application form: likewise for the card.
Note(r) ==
    \E j \in Jobs :
        /\ card[j] = NoCard
        /\ Begin(r, "note", {j}, "new", NoReason, NoScore)

\* A run scores what it touched, or the whole corpus, for this user; a score that
\* stays what it was is not written.
ScoreJobs(r) ==
    \E points \in Scores :
        LET stale == {j \in Jobs : row[j] = NoRow \/ row[j].score # points} IN
        \E S \in SUBSET stale \ {{}} : Begin(r, "score", S, "new", NoReason, points)

Drop(r) == request' = [request EXCEPT ![r] = IdleRequest]

\* A row that another request has written and not committed.
Held(r, j) ==
    \E o \in Requests \ {r} :
        request[o].pc = "flushed" /\ j \in request[o].jobs /\ Writes(request[o], j)

\* The changed rows go to the database, and then the card is looked up.
Flush(r) ==
    LET q == request[r] IN
    /\ q.pc = "loaded"
    /\ \A j \in q.jobs : /\ Writes(q, j) => ~Held(r, j)
                         /\ Inserts(q, j) => row[j] = NoRow
    /\ IF HasCard(q)
       THEN \E j \in q.jobs :
              request' = [request EXCEPT
                  ![r].pc = "flushed",
                  ![r].card = card[j],
                  ![r].status = IF q.kind = "note" THEN StatusOf(row[j]) ELSE @]
       ELSE request' = [request EXCEPT ![r].pc = "flushed"]
    /\ UNCHANGED <<row, card, shared, day, clean>>

\* A row or a card it meant to insert is there by now, the lock is not released
\* in time, or the handler raises.
RollBack(r) ==
    /\ request[r].pc # "idle"
    /\ Drop(r)
    /\ UNCHANGED <<row, card, shared, day, clean>>

RowAfter(q, j) ==
    IF j \notin q.jobs THEN row[j]
    ELSE IF Inserts(q, j) THEN Edited(q, j)
    ELSE IF q.seen[j] = NoRow THEN row[j]
    ELSE WriteRow(row[j], q.seen[j], Edited(q, j))

CardAfter(q, j) ==
    IF j \notin q.jobs \/ ~HasCard(q) THEN card[j]
    ELSE IF q.card = NoCard THEN EditedCard(q, j)
    ELSE WriteCard(card[j], q.card, EditedCard(q, j))

CleanAfter(q, j) ==
    IF j \notin q.jobs THEN clean[j]
    ELSE IF q.kind = "bulk" \/ ~q.alone THEN FALSE
    ELSE q.kind = "decide" \/ clean[j]

Commit(r) ==
    LET q == request[r] IN
    /\ q.pc = "flushed"
    /\ HasCard(q) /\ q.card = NoCard => \A j \in q.jobs : card[j] = NoCard
    /\ row' = [j \in Jobs |-> RowAfter(q, j)]
    /\ card' = [j \in Jobs |-> CardAfter(q, j)]
    /\ clean' = [j \in Jobs |-> CleanAfter(q, j)]
    /\ Drop(r)
    /\ UNCHANGED <<shared, day>>

\* A run persists a sighting, and with it the score every user shares.
ScoreShared ==
    /\ \E j \in Jobs, points \in Scores : shared' = [shared EXCEPT ![j] = points]
    /\ UNCHANGED <<row, card, day, request, clean>>

\* The clock moves on, whoever is under way.
Midnight ==
    /\ day < LastDay
    /\ day' = day + 1
    /\ UNCHANGED <<row, card, shared, request, clean>>

TrackerNext ==
    \/ \E r \in Requests :
          \/ Decide(r) \/ BulkDecide(r) \/ GiveReason(r) \/ Visit(r)
          \/ Note(r) \/ ScoreJobs(r)
          \/ Flush(r) \/ Commit(r) \/ RollBack(r)
    \/ ScoreShared
    \/ Midnight

TrackerSpec == TrackerInit /\ [][TrackerNext]_trackerVars

-----------------------------------------------------------------------------
(* Properties. *)

\* Type correctness: every column holds what its type allows, in the tables and
\* in what requests have loaded.
TrackerTypeOK ==
    /\ row \in [Jobs -> Rows \cup {NoRow}]
    /\ card \in [Jobs -> Cards \cup {NoCard}]
    /\ shared \in [Jobs -> Scores]
    /\ day \in Days
    /\ clean \in [Jobs -> BOOLEAN]
    /\ request \in [Requests -> RequestRecords]

Tracked == {j \in Jobs : row[j] # NoRow}

Carded == {j \in Jobs : card[j] # NoCard}

\* A decision that is dated has the score it was made against: saves and
\* dismissals in the row, also when they came in bulk or created the row, and
\* applications in the card (user_jobs._snapshot_score, actions.set_status).
DatesHaveScores ==
    /\ \A j \in Tracked, s \in Frozen :
          row[j].at[s] # NoDay => row[j].frozen[s] # NoScore
    /\ \A j \in Carded : card[j].at["applied"] # NoDay <=> card[j].score # NoScore

\* Request r commits job j over a column that it found empty and that another
\* request has filled since.
CommitsOver(r, j, found) ==
    /\ request[r].pc = "flushed" /\ request'[r].pc = "idle"
    /\ j \in request[r].jobs /\ ~request[r].alone
    /\ found = NoDay

\* The date of a first save, of a first application and of every step of a card is
\* never lost, and it changes only where two requests overlapped: the later commit
\* then dates the arrival by its own clock if it had found no date.  No other
\* request moves it, a repeated decision or a stale one included
\* (user_jobs.stamp_status, actions.set_status: "first reached, not last").
FirstDatesKept ==
    [][/\ \A j \in Tracked, s \in {"saved", "applied"} :
             row[j].at[s] # NoDay /\ row'[j].at[s] # row[j].at[s] =>
                /\ row'[j].at[s] # NoDay
                /\ \E r \in Requests : CommitsOver(r, j, request[r].seen[j].at[s])
       /\ \A j \in Carded, s \in Dated :
             card[j].at[s] # NoDay /\ card'[j].at[s] # card[j].at[s] =>
                /\ card'[j].at[s] # NoDay
                /\ \E r \in Requests : CommitsOver(r, j, request[r].card.at[s])]_trackerVars

\* A frozen score never changes again, unless two requests overlapped
\* (user_jobs._snapshot_score: "written once and never overwritten").
FrozenScoresKept ==
    [][\A j \in Jobs : clean'[j] =>
          /\ row[j] # NoRow =>
                \A s \in Frozen : row[j].frozen[s] # NoScore
                                     => row'[j].frozen[s] = row[j].frozen[s]
          /\ card[j] # NoCard =>
                (card[j].score # NoScore => card'[j].score = card[j].score)]_trackerVars

\* The card the analytics count and the row behind the feed tell one story, as
\* long as decisions are made one at a time (actions.set_status against
\* bulk_set_status and get_or_create_application).
RowAndCardAgree ==
    \A j \in Carded : clean[j] => card[j].status = StatusOf(row[j])

\* A job that is back to new carries neither the date nor the reason of its
\* dismissal, unless requests overlapped (user_jobs.stamp_status).
RestoreIsComplete ==
    \A j \in Tracked :
        clean[j] /\ row[j].status = "new" =>
            row[j].reason = NoReason /\ row[j].at["dismissed"] = NoDay
=============================================================================
