------------------------------- MODULE Digest -------------------------------
(***************************************************************************)
(* Search runs that end in a digest, over the jobs table of                *)
(* Persistence.tla and one tracker per user.  A run persists in one        *)
(* transaction and notifies in another, which stays open over every user   *)
(* and every mail sent: what it records about a mail is visible to nobody, *)
(* and safe from a crash, only at its end.  The scheduler's two digests,   *)
(* the dashboard's button and a cron job outside the process may each be   *)
(* a run, so runs may overlap.                                             *)
(***************************************************************************)
EXTENDS Persistence, FiniteSets

CONSTANTS
    Users,
    Runs,              \* run_search calls that may be under way together
    Score,             \* Score[u][j]: what the user's ranking gives the job
    MinScore,          \* NotificationRules.min_score, per user
    MaxJobs,           \* max_jobs_per_notification
    CooldownDays,      \* update_cooldown_hours, in days
    NotifyOnUpdates,
    IncludeDismissed,
    Decisions,         \* the statuses a user gives a job
    Faults,            \* whether a process may die, a flush fail, an answer be lost
    NoUser

ASSUME DigestAssumption ==
    /\ Score \in [Users -> [Jobs -> Nat]]
    /\ MinScore \in [Users -> Nat]
    /\ MaxJobs \in Nat
    /\ CooldownDays \in Nat
    /\ {NotifyOnUpdates, IncludeDismissed, Faults} \subseteq BOOLEAN
    /\ Decisions \subseteq JobStatus
    /\ NoUser \notin Users

VARIABLES
    state,     \* state[u][j]: the committed UserJobState row
    run,       \* run[r]: where the run stands, and what it has not committed
    told       \* told[u][j]: history, what has really reached the user

digestVars == <<posting, job, state, run, told>>

ActedOn == {"dismissed", "applied", "assessment", "interview", "offer", "rejected"}

States == [status : JobStatus, notified : BOOLEAN, since : 0 .. CooldownDays]

RunStates == [pc    : {"idle", "users", "sending", "delivered"},
              dry   : BOOLEAN,
              todo  : SUBSET Users,
              user  : Users \cup {NoUser},
              jobs  : SUBSET Jobs,
              marks : SUBSET (Users \X Jobs)]

\* What became of the last mail about a job to a user (history):
\*   sent      it went out, and no commit has put it on record since
\*   flagged   it is on record, and the update it may have been about still
\*             stands as one on the row
\*   settled   it is on record, and the row is known as it is
\*   stale     the posting has changed since
\* quiet: days since.
Told == [seen : {"never", "sent", "flagged", "settled", "stale"}, quiet : 0 .. CooldownDays]

IdleRun == [pc |-> "idle", dry |-> FALSE, todo |-> {}, user |-> NoUser,
            jobs |-> {}, marks |-> {}]

DigestInit ==
    /\ Init
    /\ state = [u \in Users |-> [j \in Jobs |->
                   [status |-> "new", notified |-> FALSE, since |-> 0]]]
    /\ run = [r \in Runs |-> IdleRun]
    /\ told = [u \in Users |-> [j \in Jobs |-> [seen |-> "never", quiet |-> 0]]]

-----------------------------------------------------------------------------
(* Which jobs a digest may hold. *)

\* Active, and at or above the user's minimum.
Candidates(u) ==
    {j \in Stored : job[j].is_active /\ Score[u][j] >= MinScore[u]}

Dealt(u, j) == state[u][j].status \in ActedOn /\ ~IncludeDismissed

\* Told once already, so only an update after the cooldown brings it back.
UpdateDue(u, j) ==
    /\ NotifyOnUpdates
    /\ job[j].freshness = "updated"
    /\ state[u][j].since >= CooldownDays

Selection(u) ==
    {j \in Candidates(u) : ~Dealt(u, j) /\ (state[u][j].notified => UpdateDue(u, j))}

Cap == IF MaxJobs < 1 THEN 1 ELSE MaxJobs

\* Jobs with a deadline close enough to go to the front; the clock says which.
Closing(u) == {j \in Selection(u) : job[j].facts["deadline"] # NoFact}

Before(u, urgent, a, b) ==
    \/ a \in urgent /\ b \notin urgent
    \/ (a \in urgent <=> b \in urgent) /\ Score[u][a] >= Score[u][b]

\* The first Cap jobs of the sorted selection; ties are broken either way.
Batches(u, urgent) ==
    {B \in SUBSET Selection(u) :
        /\ B # {}
        /\ Cardinality(B) =< Cap
        /\ B # Selection(u) => Cardinality(B) = Cap
        /\ \A b \in B, rest \in Selection(u) \ B : Before(u, urgent, b, rest)}

-----------------------------------------------------------------------------
(* A run. *)

\* A fact of the row changes; a value that is cut to its column is taken for a
\* change each time.
Changes(j) == job[j] # NoJob /\ (job'[j].facts # job[j].facts \/ TooLong(j))

\* The posting is seen again, on a later day than it was discovered and seen last.
SeenAnotherDay(j) == /\ job[j] # NoJob
                     /\ job[j].age = 1
                     /\ job[j].unseen > 0
                     /\ job'[j].unseen = 0

\* History: what a persist transaction finds changed, or finds the same.
ContentMoves ==
    told' = [u \in Users |-> [j \in Jobs |->
                IF Changes(j) /\ told[u][j].seen # "never"
                THEN [told[u][j] EXCEPT !.seen = "stale"]
                ELSE IF SeenAnotherDay(j) /\ told[u][j].seen = "flagged"
                THEN [told[u][j] EXCEPT !.seen = "settled"]
                ELSE told[u][j]]]

\* Collect, persist, and open the notify transaction.
StartRun(r, dry) ==
    /\ run[r].pc = "idle"
    /\ SearchRun
    /\ ContentMoves
    /\ run' = [run EXCEPT ![r] = [IdleRun EXCEPT !.pc = "users", !.dry = dry,
                                                 !.todo = Users]]
    /\ UNCHANGED state

\* A run without notifications: the dashboard's and the API's default.
SearchOnly ==
    /\ SearchRun
    /\ ContentMoves
    /\ UNCHANGED <<state, run>>

\* The next user's digest is empty, and send_when_empty is off.
SkipEmpty(r, u) ==
    /\ run[r].pc = "users"
    /\ u \in run[r].todo
    /\ Selection(u) = {}
    /\ run' = [run EXCEPT ![r].todo = @ \ {u}]
    /\ UNCHANGED <<posting, job, state, told>>

\* The next user's digest is built from what is committed now.
Select(r, u) ==
    /\ run[r].pc = "users"
    /\ u \in run[r].todo
    /\ \E urgent \in SUBSET Closing(u) : \E B \in Batches(u, urgent) :
         run' = [run EXCEPT ![r].pc = "sending", ![r].todo = @ \ {u},
                            ![r].user = u, ![r].jobs = B]
    /\ UNCHANGED <<posting, job, state, told>>

\* The mail server has taken the mail.
Deliver(r) ==
    /\ run[r].pc = "sending"
    /\ ~run[r].dry
    /\ run' = [run EXCEPT ![r].pc = "delivered"]
    /\ told' = [told EXCEPT ![run[r].user] =
                  [j \in Jobs |-> IF j \in run[r].jobs
                                  THEN [seen |-> "sent", quiet |-> 0]
                                  ELSE @[j]]]
    /\ UNCHANGED <<posting, job, state>>

NextUser(r, marks) ==
    /\ run' = [run EXCEPT ![r].pc = "users", ![r].user = NoUser, ![r].jobs = {},
                          ![r].marks = marks]
    /\ UNCHANGED <<posting, job, state, told>>

\* The jobs of a mail marked whatever became of it.
MarkUnsent(r) ==
    /\ run[r].pc = "sending"
    /\ NextUser(r, run[r].marks \cup ({run[r].user} \X run[r].jobs))

\* The provider refused or raised, or the run is a rehearsal: a Notification row
\* says so, and no job is marked; nor is any if the mail was taken and the
\* connection lost before that was said.
NotSent(r) ==
    /\ run[r].pc = "sending" \/ (Faults /\ run[r].pc = "delivered")
    /\ NextUser(r, run[r].marks)

\* A mail that went out is forgotten.
DropMarks(r) ==
    /\ run[r].pc = "delivered"
    /\ NextUser(r, run[r].marks)

\* Every job of the mail is marked notified, inside the open transaction.
Mark(r) ==
    /\ run[r].pc = "delivered"
    /\ NextUser(r, run[r].marks \cup ({run[r].user} \X run[r].jobs))

\* History: the mails of the run are on record.
PutOnRecord(r) ==
    told' = [u \in Users |-> [j \in Jobs |->
                IF <<u, j>> \in run[r].marks /\ told[u][j].seen = "sent"
                THEN [told[u][j] EXCEPT !.seen = IF job[j].freshness = "updated"
                                                 THEN "flagged" ELSE "settled"]
                ELSE told[u][j]]]

\* A commit that writes the run's own view of every row.
CommitAllRows(r) ==
    /\ run[r].pc = "users"
    /\ run[r].todo = {}
    /\ state' = [u \in Users |-> [j \in Jobs |->
                    [state[u][j] EXCEPT !.notified = <<u, j>> \in run[r].marks,
                                        !.since = 0]]]
    /\ PutOnRecord(r)
    /\ run' = [run EXCEPT ![r] = IdleRun]
    /\ UNCHANGED <<posting, job>>

\* All users served: the transaction commits, and the run is over.
Commit(r) ==
    /\ run[r].pc = "users"
    /\ run[r].todo = {}
    /\ state' = [u \in Users |-> [j \in Jobs |->
                    IF <<u, j>> \in run[r].marks
                    THEN [state[u][j] EXCEPT !.notified = TRUE, !.since = 0]
                    ELSE state[u][j]]]
    /\ PutOnRecord(r)
    /\ run' = [run EXCEPT ![r] = IdleRun]
    /\ UNCHANGED <<posting, job>>

\* The process dies, or a flush fails: session_scope rolls the whole notify
\* transaction back, the marks of users served before included.
RollBack(r) ==
    /\ Faults
    /\ run[r].pc # "idle"
    /\ run' = [run EXCEPT ![r] = IdleRun]
    /\ UNCHANGED <<posting, job, state, told>>

-----------------------------------------------------------------------------
(* The rest of the world. *)

\* A decision on the dashboard or through a mailed link.
SetStatus(u, j, status) ==
    /\ job[j] # NoJob
    /\ state[u][j].status # status
    /\ state' = [state EXCEPT ![u][j].status = status]
    /\ UNCHANGED <<posting, job, run, told>>

\* A day whose count never stops.
DayCounts ==
    /\ Day
    /\ state' = [u \in Users |-> [j \in Jobs |-> [state[u][j] EXCEPT !.since = @ + 1]]]
    /\ told' = [u \in Users |-> [j \in Jobs |->
                    [told[u][j] EXCEPT !.quiet = IF @ < CooldownDays THEN @ + 1 ELSE @]]]
    /\ UNCHANGED run

\* A day, which may pass in the middle of a run.
DayPasses ==
    /\ Day
    /\ state' = [u \in Users |-> [j \in Jobs |->
                    [state[u][j] EXCEPT !.since = IF @ < CooldownDays THEN @ + 1 ELSE @]]]
    /\ told' = [u \in Users |-> [j \in Jobs |->
                    [told[u][j] EXCEPT !.quiet = IF @ < CooldownDays THEN @ + 1 ELSE @]]]
    /\ UNCHANGED run

Upkeep == Maintenance /\ UNCHANGED <<state, run, told>>

World == SourceChanges /\ UNCHANGED <<state, run, told>>

DigestNext ==
    \/ \E r \in Runs :
          \/ \E dry \in BOOLEAN : StartRun(r, dry)
          \/ \E u \in Users : SkipEmpty(r, u) \/ Select(r, u)
          \/ Deliver(r) \/ NotSent(r) \/ Mark(r) \/ Commit(r) \/ RollBack(r)
    \/ \E u \in Users, j \in Jobs, status \in Decisions : SetStatus(u, j, status)
    \/ SearchOnly \/ DayPasses \/ Upkeep \/ World

DigestSpec == DigestInit /\ [][DigestNext]_digestVars

\* Cron starts a digest again and again, a run that is under way goes on, and a
\* provider that is asked again and again delivers in the end.
DigestFairness ==
    \A r \in Runs :
        /\ SF_digestVars(StartRun(r, FALSE))
        /\ \A u \in Users : WF_digestVars(SkipEmpty(r, u) \/ Select(r, u))
        /\ SF_digestVars(Deliver(r))
        /\ WF_digestVars(NotSent(r))
        /\ WF_digestVars(Mark(r))
        /\ WF_digestVars(Commit(r))

FairDigestSpec == DigestSpec /\ DigestFairness

-----------------------------------------------------------------------------
(* Properties. *)

DigestTypeOK ==
    /\ TypeOK
    /\ state \in [Users -> [Jobs -> States]]
    /\ run \in [Runs -> RunStates]
    /\ told \in [Users -> [Jobs -> Told]]

\* A job is never on record as notified without a mail about it having gone out:
\* not after a refusal, not after a rehearsal, not after a roll-back.
NotifiedWasTold ==
    \A u \in Users, j \in Jobs :
        (state[u][j].notified \/ \E r \in Runs : <<u, j>> \in run[r].marks)
        => told[u][j].seen # "never"

Delivering(r) == run[r].pc = "sending" /\ run'[r].pc = "delivered"

\* A user is not mailed about a job again before the cooldown is over, however
\* often its posting changes.
RateLimited ==
    [][\A r \in Runs : Delivering(r) =>
          \A j \in run[r].jobs :
             LET last == told[run[r].user][j]
             IN  last.seen = "never" \/ last.quiet >= CooldownDays]_digestVars

\* A job whose mail is on record is not picked for another until something about
\* the posting changes ("only a material change may re-surface it"), through edits,
\* overlapping runs, roll-backs and restarts.  The flag of the update that a mail was
\* about is not taken down by it, but by the next run that sees the posting another
\* day: that is the one time the code picks a job again that has not changed.
OnlyChangesResurface ==
    \A u \in Users, j \in Jobs : told[u][j].seen = "settled" => j \notin Selection(u)

\* What the digest promises, without a run, a transaction or a jobs table.
Ledger == INSTANCE AlertLedger WITH
    Mails     <- {batch \in SUBSET Jobs : Cardinality(batch) =< Cap},
    delivered <- {w \in Users \X Jobs : told[w[1]][w[2]].seen # "never"},
    recorded  <- {w \in Users \X Jobs : state[w[1]][w[2]].notified}

\* Runs, overlapping and rolled back as they may be, keep the promise.
ImplementsLedger == Ledger!LedgerSpec

\* A job that deserves a user's attention and that no mail was about is in the end
\* mailed, decided on, or gone: neither the cap nor refused sends starve it, as
\* long as postings are not edited for ever (an update competes for the cap) and
\* not every run is rolled back.
Awaiting(u, j) ==
    /\ j \in Candidates(u)
    /\ state[u][j].status \notin ActedOn
    /\ told[u][j].seen = "never"

EventuallyTold ==
    \A u \in Users, j \in Jobs : Awaiting(u, j) ~> ~Awaiting(u, j)
=============================================================================
