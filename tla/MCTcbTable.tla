----------------------------- MODULE MCTcbTable -----------------------------
(***************************************************************************)
(* TcbTable with the values its runs need.  The pids other than Root are   *)
(* interchangeable: nothing orders them.                                   *)
(***************************************************************************)
EXTENDS TcbTable, TLC

Created == Permutations(Pids \ {Root})
=============================================================================
