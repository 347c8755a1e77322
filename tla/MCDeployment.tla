---------------------------- MODULE MCDeployment ----------------------------
(***************************************************************************)
(* Values of Deployment's constants for the runs.                          *)
(***************************************************************************)
EXTENDS Deployment, TLC

CONSTANTS t1, t2

Symmetry == Permutations(Terminals)
=============================================================================
