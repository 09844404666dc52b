------------------------------ MODULE MCDedupe ------------------------------
(***************************************************************************)
(* Batches of four listings of one company from two sources.  Which keys a *)
(* listing has is left open; what is like what is not.                     *)
(***************************************************************************)
EXTENDS Dedupe

CONSTANTS board, site, austin, boston

Listing(src, id, core, place, ats, url, words, text, posted) ==
    [source |-> src, id |-> id, company |-> "acme", requisition |-> None,
     ats |-> ats, url |-> url, words |-> words, employment |-> None,
     place |-> place, core |-> core, title |-> core, text |-> text,
     posted |-> posted, pay |-> None]

MCPlaces == {None, austin, boston}
MCApart(p, q) == p # q
MCAxes == {{"summer", "fall"}}

\* The third may be the second again, the last may have no address; the two of
\* one source are told apart by their addresses.
MCBatches ==
    {<<Listing(board, 1, "fpga", austin, x, 1, {"summer"}, "text", 1),
       Listing(site, 2, "fpga", b, y, 2, {}, None, None),
       Listing(site, i, "fpga", c, z, u, w, "text", 2),
       Listing(board, 4, "asic", d, None, v, {}, "other", 4)>> :
        b \in MCPlaces, c \in {None, austin}, d \in {None, boston},
        x \in {None, 7}, y \in {None, 7}, z \in {None, 7, 8},
        i \in {2, 3}, u \in {2, 3}, v \in {3, 4, None}, w \in {{}, {"fall"}}}

\* One core is one title; another title and another text are somewhat alike.
MCTitleLike(t, u) == IF t = u THEN 100 ELSE 60
MCTextLike(t, u) == IF t = u THEN 100 ELSE 80
=============================================================================
