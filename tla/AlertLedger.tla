----------------------------- MODULE AlertLedger -----------------------------
(***************************************************************************)
(* What the digest promises of one mailbox after another: mails go out a   *)
(* few jobs at a time, a job is on record for a user only once a mail      *)
(* about it is out, and what is on record stays there.  A mail that never  *)
(* gets on record may be sent again: delivery is at least once.            *)
(***************************************************************************)
CONSTANTS
    Users,
    Jobs,
    Mails      \* the sets of jobs one mail may be about

VARIABLES
    delivered,     \* <<u, j>>: a mail to u about j has gone out
    recorded       \* <<u, j>>: j is notified for u, in a committed row

ledgerVars == <<delivered, recorded>>

LedgerInit == delivered = {} /\ recorded = {}

\* One mail.
Send(u, batch) ==
    /\ delivered' = delivered \cup ({u} \X batch)
    /\ UNCHANGED recorded

\* One commit, of what several mails held.
Record(alerts) ==
    /\ recorded' = recorded \cup alerts
    /\ UNCHANGED delivered

LedgerNext ==
    \/ \E u \in Users, batch \in Mails : Send(u, batch)
    \/ \E alerts \in SUBSET delivered : Record(alerts)

LedgerSpec == LedgerInit /\ [][LedgerNext]_ledgerVars
=============================================================================
