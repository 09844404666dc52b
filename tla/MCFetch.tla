------------------------------ MODULE MCFetch ------------------------------
(* Two fetches for Fetch.tla: one of any kind, and one of a small board on the *)
(* same host.                                                                  *)
EXTENDS Fetch

CONSTANTS f1, f2, server, a, b, c3, d, e

MCHostOf == [c \in {f1, f2} |-> server]
MCKindsOf(c) == IF c = f1 THEN DOMAIN Adapter ELSE {"greenhouse"}
MCFaults(i) == CASE i = c3 -> {"off topic"} [] i \in {d, e} -> {"no id"} [] OTHER -> {}
MCLists(c, q) ==
    CASE c = f2 -> {<<a>>}
      [] c = f1 /\ q = 1 -> {<<a, d, b>>, <<c3, d, a, b, e>>}
      [] OTHER -> {<<b, a>>}
=============================================================================
