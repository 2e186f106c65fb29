---------------------------- MODULE MCCutCommand ----------------------------
(* Instances of CutCommand for TLC: a plan of two candidates.              *)
EXTENDS CutCommand, TLC
CONSTANTS k1, k2, c1, c2, c3
MCPlan == <<k1, k2>>
Symmetry == Permutations(Commands)
=============================================================================
