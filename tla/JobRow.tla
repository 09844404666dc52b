------------------------------- MODULE JobRow -------------------------------
(***************************************************************************)
(* One row of the shared jobs table, and the three things the program does *)
(* to it: create it from a cluster of listings, update it from a later     *)
(* sighting, and expire it.  The operators are pure; Persistence.tla runs  *)
(* them inside transactions.                                               *)
(*                                                                         *)
(* Time is kept as capped ages.  `unseen' is the number of whole days      *)
(* since last_seen_at, `age' the number of whole days since                *)
(* date_discovered; the code compares the first with EXPIRY_GRACE_DAYS and *)
(* the second with one day, and nothing else, so the caps lose nothing.    *)
(***************************************************************************)
EXTENDS Integers

CONSTANTS
    Values,      \* what a stated fact can be
    Unknown,     \* SponsorshipStatus.UNKNOWN, a value like any other
    NoFact,      \* None
    Clamped,     \* Clamped[f][v]: what is left of v in the column of f
    GraceDays    \* EXPIRY_GRACE_DAYS

ASSUME GraceAssumption == GraceDays \in Nat

ASSUME ValuesAssumption == Unknown \in Values /\ NoFact \notin Values

-----------------------------------------------------------------------------
(* MATERIAL_FIELDS, grouped by how persist_clusters writes them back. *)

\* Written through _set_if_present, or only when present (the deadline).
FillFields == {"location_raw", "requirements", "deadline"}

\* Written as a pair, when the incoming minimum is known.
PayFields == {"salary_min", "salary_max"}

\* Assigned on every sighting.
OverwrittenFields == {"sponsorship", "application_url"}

MaterialFields == FillFields \cup PayFields \cup OverwrittenFields

\* Columns of a limited width; the others are texts, dates and numbers, or
\* hold one of a few short names.
ClampedFields == {"location_raw", "application_url"}

\* What was cut once fits.
ASSUME ClampAssumption ==
    /\ Clamped \in [ClampedFields -> [Values -> Values]]
    /\ \A f \in ClampedFields, v \in Values : Clamped[f][Clamped[f][v]] = Clamped[f][v]

Facts == [MaterialFields -> Values \cup {NoFact}]

NoFacts == [f \in MaterialFields |-> NoFact]

JobStatus == {"new", "saved", "applied", "assessment", "interview", "offer",
              "rejected", "dismissed", "expired"}

TerminalStatuses == {"rejected", "dismissed", "expired"}

Freshness == {"new", "updated", "reposted", "old", "expired"}

JobRows == [status     : JobStatus,
            freshness  : Freshness,
            is_active  : BOOLEAN,
            expired_at : BOOLEAN,          \* whether the timestamp is set
            unseen     : 0 .. GraceDays + 1,
            age        : 0 .. 1,
            facts      : Facts]

-----------------------------------------------------------------------------
(* A sighting. *)

\* The fields _material_changes reports: what comes in, at its full length, is
\* compared with what the column has kept.  A deadline moved by less than an
\* hour, or requirements that differ in white space, are one value here.
MaterialChanges(old, new) ==
    {f \in MaterialFields : /\ new[f] # NoFact
                            /\ old[f] # NoFact
                            /\ old[f] # new[f]}

\* The natural repair of a sponsorship that is lost, made in one place only.
OverwritesKnownSponsorship(new, f) ==
    \/ f = "application_url"
    \/ f = "sponsorship" /\ new[f] # Unknown
    \/ f \in FillFields /\ new[f] # NoFact
    \/ f \in PayFields /\ new["salary_min"] # NoFact

\* Each bound of the pay range taken on its own.
OverwritesBoundByBound(new, f) ==
    \/ f \in OverwrittenFields
    \/ f \in FillFields \cup PayFields /\ new[f] # NoFact

\* Every field assigned, as the columns that carry no evidence are.
OverwritesAlways(new, f) == f \in MaterialFields

\* Whether persist_clusters lets the incoming value of a field into the row.
Overwrites(new, f) ==
    \/ f \in OverwrittenFields
    \/ f \in FillFields /\ new[f] # NoFact
    \/ f \in PayFields /\ new["salary_min"] # NoFact

\* What a column keeps of a value, after the mapper's before_insert and
\* before_update.
InColumn(f, v) == IF f \in ClampedFields /\ v # NoFact THEN Clamped[f][v] ELSE v

WrittenFacts(old, new) ==
    [f \in MaterialFields |-> IF Overwrites(new, f) THEN InColumn(f, new[f]) ELSE old[f]]

WasExpired(row) == ~row.is_active \/ row.status = "expired"

\* An update that stays one until the next.
FreshnessFlagged(row, new) ==
    IF WasExpired(row) THEN "reposted"
    ELSE IF MaterialChanges(row.facts, new) # {} THEN "updated"
    ELSE IF row.freshness = "new" /\ row.age >= 1 THEN "old"
    ELSE row.freshness

FreshnessAfter(row, new) ==
    IF WasExpired(row) THEN "reposted"
    ELSE IF MaterialChanges(row.facts, new) # {} THEN "updated"
    ELSE IF row.freshness \in {"new", "updated"} /\ row.age >= 1 THEN "old"
    ELSE row.freshness

NewJob(new) ==
    [status |-> "new", freshness |-> "new", is_active |-> TRUE,
     expired_at |-> FALSE, unseen |-> 0, age |-> 0,
     facts |-> WrittenFacts(NoFacts, new)]

\* A repost that forgets to clear what the expiry wrote.
SightedStillExpired(row, new) ==
    [row EXCEPT !.freshness = FreshnessAfter(row, new),
                !.facts = WrittenFacts(row.facts, new),
                !.unseen = 0,
                !.is_active = TRUE]

SightedJob(row, new) ==
    [status     |-> IF row.status = "expired" THEN "new" ELSE row.status,
     freshness  |-> FreshnessAfter(row, new),
     is_active  |-> TRUE,
     expired_at |-> IF WasExpired(row) THEN FALSE ELSE row.expired_at,
     unseen     |-> 0,
     age        |-> row.age,
     facts      |-> WrittenFacts(row.facts, new)]

-----------------------------------------------------------------------------
(* Expiry. *)

\* Everything but what was withdrawn or turned down.
ProtectedAndNew == {"new", "applied", "assessment", "interview", "offer", "saved"}

\* The local `protected' set of expire_stale_jobs, tested against Job.status.
Protected == {"applied", "assessment", "interview", "offer", "saved"}

IsStale(row) ==
    /\ row.is_active
    /\ row.unseen > GraceDays
    /\ row.status \notin Protected

ExpiredJob(row) ==
    [row EXCEPT !.is_active  = FALSE,
                !.freshness  = "expired",
                !.expired_at = TRUE,
                !.status     = IF @ \in TerminalStatuses THEN @ ELSE "expired"]

AfterExpiry(row) == IF IsStale(row) THEN ExpiredJob(row) ELSE row

\* A day passing, the age not capped.
EverOlderJob(row) == [row EXCEPT !.unseen = @ + 1, !.age = 1]

\* A day passing.
OlderJob(row) ==
    [row EXCEPT !.unseen = IF @ > GraceDays THEN @ ELSE @ + 1,
                !.age    = 1]
=============================================================================
