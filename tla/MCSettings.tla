----------------------------- MODULE MCSettings -----------------------------
(* One account with a schedule it may switch off, one posting.               *)
EXTENDS Settings

CONSTANTS early, ann

MCDaily == [enabled |-> TRUE, morning |-> early, afternoon |-> NoTime]
MCOff == [enabled |-> FALSE, morning |-> early, afternoon |-> NoTime]
MCSchedules == {MCDaily, MCOff}
MCNoChannel == [host |-> Blank, secret |-> FALSE]
MCPrefs == [keywords |-> Blank, sponsor |-> FALSE, digests |-> FALSE, schedule |-> MCDaily]
MCProfile == [skills |-> "none", sponsor |-> FALSE]
=============================================================================
