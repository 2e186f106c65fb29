--------------------------- MODULE MCPlanExecution ---------------------------
(* Small instances of PlanExecution for TLC.                               *)
EXTENDS PlanExecution, TLC

CONSTANTS e1, e2, c1, c2

(* Plans that meet in one candidate, in opposite positions.                *)
CrossingPlans == e1 :> <<c1, c2>> @@ e2 :> <<c2>>
OnePlan == e1 :> <<c1, c2>>

OneSidecar == e1 :> FALSE @@ e2 :> TRUE
BothAdmissible == e1 :> TRUE @@ e2 :> TRUE
WithSidecar == e1 :> TRUE
IsAdmissible == e1 :> TRUE

(* Others write the source while no candidate fails, or have a file where  *)
(* the first candidate's clip or the last one's sidecar is to be, or both. *)
OneHazard ==
  LET foreign == {p \in Paths : fs[p] # NoFile /\ fs[p].by = Outsider} IN
  IF src.mtime > 0
  THEN foreign = {} /\ \A e \in Execs : StepsOf(e) \cap Failures = {}
  ELSE foreign \subseteq {<<"clip", c1>>, <<"sub", c2>>}

InodeSymmetry == Permutations(Inodes)
=============================================================================
