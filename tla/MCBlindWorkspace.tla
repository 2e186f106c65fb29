-------------------------- MODULE MCBlindWorkspace --------------------------
(* A small instance of BlindWorkspace for TLC.                             *)
EXTENDS BlindWorkspace, TLC

(* Others edit at most one of the files, of the demo its last one.         *)
OneFileEdited ==
  \A p \in Paths : Edits(p) > 0 =>
    (tool = "demo" => p = Seal) /\ \A q \in Paths \ {p} : Edits(q) = 0

Symmetry == Permutations(Builders) \cup Permutations(Freezers) \cup Permutations(Runs)
=============================================================================
