------------------------------- MODULE MCBoards -------------------------------
(* Three boards, two of them on one source.                                    *)
EXTENDS Boards

CONSTANTS acme, bolt, core, greenhouse, lever

MCSourceOf == [b \in Boards |-> IF b = core THEN lever ELSE greenhouse]
=============================================================================
