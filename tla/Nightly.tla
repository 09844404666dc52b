------------------------------- MODULE Nightly -------------------------------
(***************************************************************************)
(* The jobs table with a schedule that can be switched off.  `reschedule'  *)
(* takes the nightly job away together with the digests, and puts it back  *)
(* only if the saved rules are on; a process that is started without a     *)
(* scheduler has none either.  Searches may be started by hand meanwhile.  *)
(***************************************************************************)
EXTENDS Persistence

VARIABLE scheduled     \* whether the nightly job is in the scheduler

nightlyVars == <<posting, job, scheduled>>

NightlyInit == Init /\ scheduled \in BOOLEAN

\* The rules are saved and applied, or the process starts again.
Reschedule ==
    /\ scheduled' = ~scheduled
    /\ UNCHANGED jobVars

\* Half past three.
Night == scheduled /\ Maintenance /\ UNCHANGED scheduled

Elsewhere == (SearchRun \/ SourceChanges \/ Day) /\ UNCHANGED scheduled

NightlyNext == Reschedule \/ Night \/ Elsewhere

\* Days pass, and a scheduler that has the nightly job and keeps it runs it.
NightlyFairness ==
    /\ WF_nightlyVars(Day /\ UNCHANGED scheduled)
    /\ WF_nightlyVars(Night)

NightlySpec == NightlyInit /\ [][NightlyNext]_nightlyVars /\ NightlyFairness

-----------------------------------------------------------------------------
(* Properties. *)

\* A job every source has taken down for good is in the end withdrawn, though no
\* search be started any more, if only the schedule is not switched off for good
\* or off and on for ever.
TakenDownExpires ==
    \A j \in Jobs :
        <>[](scheduled /\ \A s \in Sources : posting[j][s] = NoPosting)
        => <>[](job[j] = NoJob \/ ~job[j].is_active)
=============================================================================
