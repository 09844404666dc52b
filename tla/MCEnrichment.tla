---------------------------- MODULE MCEnrichment ----------------------------
(* The best posting may never be read, and may expire; the next one is      *)
(* edited; the third fits no role, and is looked at all the same.           *)
EXTENDS Enrichment

CONSTANTS best, good, odd, h1, h2, t1, t2

MCSightingsOf == [j \in Jobs |->
    CASE j = best -> {[hash |-> h1, text |-> t1]}
      [] j = good -> {[hash |-> h1, text |-> t1], [hash |-> h2, text |-> t2]}
      [] OTHER    -> {[hash |-> h1, text |-> t1]}]
MCAffinity == [j \in Jobs |-> IF j = best THEN 2 ELSE IF j = good THEN 1 ELSE 0]
=============================================================================
