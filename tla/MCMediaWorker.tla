---------------------------- MODULE MCMediaWorker ----------------------------
(***************************************************************************)
(* Small instances of MediaWorker.                                         *)
(***************************************************************************)
EXTENDS MediaWorker, TLC

Symmetry == Permutations(Worker) \cup Permutations(Content)
=============================================================================
