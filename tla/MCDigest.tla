------------------------------- MODULE MCDigest -------------------------------
(* Small worlds for Digest.tla: who looks for jobs, what the postings say, and *)
(* what each user's ranking makes of them.                                     *)
EXTENDS Digest

CONSTANTS board, site, ann, bob, top, next, d1, d2, offered, urlA, urlB

MCValues == {d1, d2, offered, urlA, urlB, Unknown}
MCAuthority == [s \in {board, site} |-> IF s = board THEN 1 ELSE 3]
MCClamped == [f \in ClampedFields |-> [v \in MCValues |-> v]]
MCUrlRank == [v \in MCValues |-> IF v = urlA THEN 1 ELSE 2]

Listing(deadline, url) ==
    [f \in MaterialFields |->
        CASE f = "deadline"        -> deadline
          [] f = "sponsorship"     -> offered
          [] f = "application_url" -> url
          [] OTHER                 -> NoFact]

\* One posting that never changes; one whose deadline is edited.
FixedPosting == {Listing(d1, urlA)}
EditedPosting == {Listing(d1, urlA), Listing(d2, urlA)}

\* Everybody ranks `top' above `next', and both are worth a mail.
MCScore == [u \in {ann, bob} |-> [j \in {top, next} |-> IF j = top THEN 95 ELSE 85]]
ScoresOf == [u \in Users |-> [j \in Jobs |-> MCScore[u][j]]]
Minimum == [u \in Users |-> 80]
=============================================================================
