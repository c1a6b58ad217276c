---------------------------- MODULE MCBlockGraph -----------------------------
(* The instances of BlockGraph.                                             *)
EXTENDS BlockGraph

NoParallel == {}
ParallelRemove == {"remove"}
=============================================================================
