------------------------------ MODULE MCStored ------------------------------
(* Three postings of two sources for StoredJobs.tla.                          *)
EXTENDS StoredJobs

CONSTANTS k1, k2, k3, x, y, u1, u2, u3, p, pq

Look(ats, url, print) == [ats |-> ats, url |-> url, print |-> print, opening |-> None]

\* One job on the board (k1), on a site that words it differently (k3), and a
\* posting without an identity that reads like the first one (k2).
MCLooksOf(k) == CASE k = k1 -> {Look(x, u1, p)}
                  [] k = k2 -> {Look(None, u2, p)}
                  [] k = k3 -> {Look(x, u3, pq)}

\* The board k1 is on, the aggregator that has the other two, or both answer.
MCAnswers == {{k1}, {k2, k3}, {k1, k2, k3}}

Rank(k) == CASE k = k1 -> 1 [] k = k2 -> 2 [] k = k3 -> 3
MCPrecedes(k, l) == Rank(k) < Rank(l)
=============================================================================
