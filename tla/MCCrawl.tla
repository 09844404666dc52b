------------------------------ MODULE MCCrawl ------------------------------
(* Boards; a searched source and one that starts from an index, which stand or fall *)
(* together; one that lacks its credentials; and one that passes over the lists it  *)
(* cannot have, switched off: with it no run can fail.                              *)
EXTENDS Crawl

CONSTANTS acme, bolt, core, greenhouse, lever, api, keyed, news, lists, page

MCSourceOf == [b \in Boards |-> IF b = core THEN lever ELSE greenhouse]
MCPartsOf == [s \in {api, keyed, news, lists} |-> {page}]
=============================================================================
