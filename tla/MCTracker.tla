----------------------------- MODULE MCTracker -----------------------------
(***************************************************************************)
(* One user's tracker on small instances.  Requests are alike but for what *)
(* they choose when they begin, so permuting them is a symmetry.           *)
(***************************************************************************)
EXTENDS Tracker, TLC

Interchangeable == Permutations(Requests)
=============================================================================
