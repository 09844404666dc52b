---------------------------- MODULE MCPersistence ----------------------------
(* A small world for Nightly.tla: an employer's own site and an aggregator    *)
(* that know different things about one job.                                   *)
EXTENDS Nightly

CONSTANTS employer, aggregator, d1, d2, low, high, higher, offered, urlA, urlB, urlLong

MCSources == {employer, aggregator}
MCValues == {d1, d2, low, high, higher, offered, urlA, urlB, urlLong, Unknown}
MCAuthority == [s \in MCSources |-> IF s = employer THEN 0 ELSE 3]
MCUrlRank == [v \in MCValues |-> IF v = urlA THEN 0 ELSE 2]

\* Of the long address only the beginning is kept, which is as good as urlB.
MCClamped == [f \in ClampedFields |->
                [v \in MCValues |-> IF v = urlLong THEN urlB ELSE v]]

Listing(deadline, min, max, sponsorship, url) ==
    [f \in MaterialFields |->
        CASE f = "deadline"        -> deadline
          [] f = "salary_min"      -> min
          [] f = "salary_max"      -> max
          [] f = "sponsorship"     -> sponsorship
          [] f = "application_url" -> url
          [] OTHER                 -> NoFact]

\* Rich and poor listings, a range with and without a maximum, two deadlines,
\* two sites and an address that is too long for its column.
MCPostings == {Listing(d1, low, high, offered, urlA),
               Listing(NoFact, low, NoFact, Unknown, urlB),
               Listing(NoFact, NoFact, NoFact, offered, urlA),
               Listing(d2, high, higher, Unknown, urlB),
               Listing(d2, high, higher, Unknown, urlLong)}
=============================================================================
