------------------------- MODULE PlanExecutionProofs --------------------------
(***************************************************************************)
(* Proofs about PlanExecution, for every number of executions, candidates  *)
(* and inodes, every plan, and any number of writes of the source: who     *)
(* creates and removes an output; then what an execution reports, which is *)
(* its record, its status, the source a success was cut from and the       *)
(* conflict a preflight finds; and that the executions implement           *)
(* OutputLedger.                                                           *)
(***************************************************************************)
EXTENDS PlanExecution, TLAPS

EarlyPhases == {"validate", "stat_source", "preflight"}
LoopPhases == {"render", "link", "stat", "cleanup", "record", "abort",
               "rollback_stat", "rollback_unlink"}

(* The position is one of the plan whenever the execution uses it.         *)
PositionOK(e) ==
  /\ phase[e] \in LoopPhases \cup {"preflight"} => idx[e] \in 1..Len(PlanOf[e])
  /\ phase[e] \in {"validate", "stat_source"} => idx[e] = 1

TypeInv == TypeOK /\ \A e \in Execs : PositionOK(e)

-----------------------------------------------------------------------------
(* Type correctness.                                                       *)

LEMMA CandInPlan ==
  ASSUME NEW e \in Execs, TypeOK, PositionOK(e),
         phase[e] \in LoopPhases \cup {"preflight"}
  PROVE  Cand(e) \in Cands
BY PlansAreInjective DEF PositionOK, Cand

LEMMA PlanLength ==
  ASSUME NEW e \in Execs
  PROVE  /\ Len(PlanOf[e]) \in Nat
         /\ PlanOf[e] # <<>> => Len(PlanOf[e]) > 0
BY PlansAreInjective

LEMMA OutputFacts ==
  ASSUME NEW e \in Execs
  PROVE  /\ OutputKinds(e) \subseteq Kinds
         /\ "clip" \in OutputKinds(e)
         /\ LastKind(e) \in OutputKinds(e)
BY DEF OutputKinds, LastKind, Kinds

LEMMA StatusType ==
  ASSUME NEW steps, NEW artifacts
  PROVE  FinalStatus(steps, artifacts) \in Statuses \ {"none"}
BY DEF FinalStatus, Statuses, Failures

LEMMA RenderType ==
  ASSUME TypeInv, NEW e \in Execs, Render(e)
  PROVE  TypeInv'
<1>1. temp' \in [Execs -> [Kinds -> Files \cup {NoFile}]]
  <2>1. PICK new \in [OutputKinds(e) -> FreeInodes] :
          temp' = [temp EXCEPT ![e] = [k \in Kinds |->
            IF k \notin OutputKinds(e) THEN NoFile
            ELSE [ino |-> new[k], by |-> e,
                  data |-> IF k = "clip" THEN src.data ELSE "planned"]]]
    BY DEF Render
  <2>2. \A k \in OutputKinds(e) : new[k] \in Inodes
    BY <2>1 DEF FreeInodes
  <2>3. src.data \in Data /\ "planned" \in Data
    BY DEF TypeInv, TypeOK, Data
  <2>4. \A k \in Kinds : temp'[e][k] \in Files \cup {NoFile}
    BY <2>1, <2>2, <2>3 DEF TypeInv, TypeOK, Files
  <2> QED
    BY <2>1, <2>2, <2>3 DEF TypeInv, TypeOK, Files
<1> QED
  BY <1>1, OutputFacts DEF TypeInv, TypeOK, PositionOK, LoopPhases, Phases, Kinds, Render, Goto

LEMMA TypeStep ==
  ASSUME TypeInv, [Next]_vars
  PROVE  TypeInv'
<1> USE DEF TypeInv
<1>0. ASSUME NEW e \in Execs, idx' = [idx EXCEPT ![e] = @ + 1]
      PROVE  idx' \in [Execs -> Nat \ {0}]
  <2>1. idx \in [Execs -> Nat \ {0}] /\ idx[e] + 1 \in Nat \ {0}
    BY DEF TypeOK
  <2> QED
    BY <1>0, <2>1
<1>1. ASSUME NEW e \in Execs, NEW o \in Failures, NEW ph \in LoopPhases,
             phase[e] \in LoopPhases, FailCandidate(e, o, ph)
      PROVE  TypeInv'
  BY <1>1, CandInPlan DEF TypeOK, PositionOK, FailCandidate, Goto, LoopPhases, Phases,
     Outcomes, Kinds
<1>2. ASSUME NEW e \in Execs, Reject(e)
      PROVE  TypeInv'
  BY <1>2 DEF Reject, Goto, locals, TypeOK, PositionOK, LoopPhases, Phases, Statuses, Failures
<1>3. ASSUME NEW e \in Execs, NEW steps, Finish(e, steps)
      PROVE  TypeInv'
  BY <1>3, StatusType DEF Finish, Goto, locals, TypeOK, PositionOK, LoopPhases, Phases
<1>4. ASSUME NEW e \in Execs, AfterCandidate(e) = phase'[e], phase[e] \in LoopPhases
      PROVE  /\ phase'[e] \in Phases
             /\ phase'[e] \notin {"validate", "stat_source", "preflight"}
             /\ phase'[e] \in LoopPhases => idx[e] + 1 \in 1..Len(PlanOf[e])
  BY <1>4, PlanLength DEF AfterCandidate, TypeOK, PositionOK, LoopPhases, Phases
<1>5. ASSUME NEW e \in Execs, NextRollback(e), phase[e] \in LoopPhases,
             UNCHANGED <<src, mtime0, temp, arts, outcome, status>>,
             fs' \in [Paths -> Files \cup {NoFile}]
      PROVE  TypeInv'
  <2>1. /\ idx' \in [Execs -> Nat \ {0}]
        /\ kind' \in [Execs -> Kinds]
        /\ pub' \in [Execs -> [Kinds -> Inodes \cup {NoInode}]]
    <3>1. CASE kind[e] = LastKind(e)
      <4>1. /\ idx' = [idx EXCEPT ![e] = @ + 1]
            /\ kind' = [kind EXCEPT ![e] = "clip"]
            /\ pub' = [pub EXCEPT ![e] = NothingPublished]
        BY <1>5, <3>1 DEF NextRollback
      <4>2. kind' \in [Execs -> Kinds]
        BY <4>1 DEF TypeOK, Kinds
      <4>3. pub' \in [Execs -> [Kinds -> Inodes \cup {NoInode}]]
        BY <4>1 DEF TypeOK, NothingPublished
      <4> QED BY <1>0, <4>1, <4>2, <4>3
    <3>2. CASE kind[e] # LastKind(e)
      BY <1>5, <3>2 DEF NextRollback, TypeOK, Kinds
    <3> QED BY <3>1, <3>2
  <2>3. phase' \in [Execs -> Phases]
    BY <1>5 DEF NextRollback, Goto, AfterCandidate, TypeOK, Phases
  <2>2. \A d \in Execs : PositionOK(d)'
    BY <1>4, <1>5, PlanLength DEF NextRollback, Goto, TypeOK, PositionOK, LoopPhases, Phases
  <2> QED
    BY <1>5, <2>1, <2>2, <2>3 DEF TypeOK
<1>10. ASSUME NEW e \in Execs, Validate(e) PROVE TypeInv'
  <2>1. CASE Reject(e)
    BY <1>2, <2>1
  <2>2. CASE ~Reject(e)
    BY <1>10, <2>2 DEF Validate, Goto, locals, TypeOK, PositionOK, LoopPhases, Phases
  <2> QED BY <2>1, <2>2
<1>11. ASSUME NEW e \in Execs, StatSource(e) PROVE TypeInv'
  BY <1>11, PlanLength DEF StatSource, StartLoop, Goto, TypeOK, PositionOK, LoopPhases, Phases
<1>12. ASSUME NEW e \in Execs, PreflightFault(e) PROVE TypeInv'
  BY <1>2, <1>12 DEF PreflightFault
<1>13. ASSUME NEW e \in Execs, PreflightOutput(e) PROVE TypeInv'
  <2>1. CASE Reject(e)
    BY <1>2, <2>1
  <2>2. CASE ~Reject(e)
    <3>1. /\ UNCHANGED <<fs, src, kind, mtime0, temp, pub, arts, outcome, status>>
          /\ \/ idx[e] < Len(PlanOf[e]) /\ idx' = [idx EXCEPT ![e] = @ + 1] /\ UNCHANGED phase
             \/ idx' = [idx EXCEPT ![e] = 1] /\ Goto(e, "render")
      BY <1>13, <2>2 DEF PreflightOutput
    <3>2. phase[e] = "preflight" /\ idx[e] \in 1..Len(PlanOf[e]) /\ Len(PlanOf[e]) \in Nat
      BY <1>13, PlanLength DEF PreflightOutput, PositionOK
    <3>3. idx' \in [Execs -> Nat \ {0}]
      <4>1. CASE idx' = [idx EXCEPT ![e] = @ + 1]
        BY <1>0, <4>1
      <4>2. CASE idx' = [idx EXCEPT ![e] = 1]
        BY <4>2 DEF TypeOK
      <4> QED BY <3>1, <4>1, <4>2
    <3>5. phase' \in [Execs -> Phases]
      BY <3>1 DEF Goto, TypeOK, Phases
    <3>4. \A d \in Execs : PositionOK(d)'
      BY <3>1, <3>2 DEF Goto, TypeOK, PositionOK, LoopPhases
    <3> QED
      BY <3>1, <3>3, <3>4, <3>5 DEF TypeOK
  <2> QED BY <2>1, <2>2
<1>14. ASSUME NEW e \in Execs, Render(e) PROVE TypeInv'
  BY <1>14, RenderType
<1>15. ASSUME NEW e \in Execs, NEW o \in Failures, RenderFails(e, o) PROVE TypeInv'
  BY <1>1, <1>15 DEF RenderFails, LoopPhases
<1>16. ASSUME NEW e \in Execs, Link(e) PROVE TypeInv'
  <2>1. Cand(e) \in Cands
    BY <1>16, CandInPlan DEF Link, LoopPhases
  <2>2. temp[e][kind[e]] \in Files \cup {NoFile}
    BY DEF TypeOK
  <2> QED
    BY <1>16, <2>1, <2>2 DEF Link, Goto, locals, TypeOK, PositionOK, LoopPhases, Phases
<1>17. ASSUME NEW e \in Execs, LinkFails(e) PROVE TypeInv'
  BY <1>1, <1>17 DEF LinkFails, LoopPhases, Failures
<1>18. ASSUME NEW e \in Execs, StatOutput(e) PROVE TypeInv'
  <2>1. Path(e) \in Paths
    BY <1>18, CandInPlan DEF StatOutput, Path, Paths, TypeOK, LoopPhases
  <2>2. fs[Path(e)].ino \in Inodes
    BY <1>18, <2>1 DEF StatOutput, TypeOK, Files
  <2> QED
    BY <1>18, <2>2, OutputFacts
       DEF StatOutput, Goto, TypeOK, PositionOK, LoopPhases, Phases
<1>19. ASSUME NEW e \in Execs, StatFails(e) PROVE TypeInv'
  BY <1>1, <1>19 DEF StatFails, LoopPhases, Failures
<1>20. ASSUME NEW e \in Execs, Cleanup(e) PROVE TypeInv'
  BY <1>20 DEF Cleanup, Goto, TypeOK, PositionOK, LoopPhases, Phases, NothingRendered
<1>21. ASSUME NEW e \in Execs, RecordArtifact(e) PROVE TypeInv'
  <2>1. Path(e) \in Paths
    BY <1>21, CandInPlan DEF RecordArtifact, Path, Paths, TypeOK, LoopPhases
  <2>2. CASE kind[e] = "clip"
    <3>1. phase'[e] = AfterCandidate(e) /\ phase[e] \in LoopPhases
      BY <1>21, <2>2 DEF RecordArtifact, Goto, TypeOK, LoopPhases
    <3>2. TypeOK'
      <4>0. /\ idx' = [idx EXCEPT ![e] = @ + 1]
            /\ phase' = [phase EXCEPT ![e] = AfterCandidate(e)]
            /\ outcome' = [outcome EXCEPT ![e][Cand(e)] = "completed"]
            /\ pub' = [pub EXCEPT ![e] = NothingPublished]
        BY <1>21, <2>2 DEF RecordArtifact, Goto
      <4>1. phase' \in [Execs -> Phases] /\ idx' \in [Execs -> Nat \ {0}]
        BY <1>0, <4>0 DEF AfterCandidate, Phases, TypeOK
      <4>2. arts' \in [Execs -> SUBSET Paths] /\ kind' \in [Execs -> Kinds]
        BY <1>21, <2>1 DEF RecordArtifact, TypeOK, Kinds
      <4>3. outcome' \in [Execs -> [Cands -> Outcomes]]
        BY <4>0 DEF TypeOK, Outcomes
      <4>4. pub' \in [Execs -> [Kinds -> Inodes \cup {NoInode}]]
        BY <4>0 DEF TypeOK, NothingPublished
      <4> QED
        BY <1>21, <4>1, <4>2, <4>3, <4>4 DEF RecordArtifact, TypeOK
    <3>3. \A d \in Execs : PositionOK(d)'
      BY <1>21, <1>4, <2>2, <3>1
         DEF RecordArtifact, Goto, TypeOK, PositionOK, LoopPhases
    <3> QED BY <3>2, <3>3
  <2>3. CASE kind[e] # "clip"
    BY <1>21, <2>1, <2>3 DEF RecordArtifact, TypeOK, PositionOK, Kinds
  <2> QED BY <2>2, <2>3
<1>22. ASSUME NEW e \in Execs, RecordFails(e) PROVE TypeInv'
  BY <1>1, <1>22 DEF RecordFails, LoopPhases, Failures
<1>23. ASSUME NEW e \in Execs, RollbackStat(e) PROVE TypeInv'
  <2>1. CASE NextRollback(e)
    BY <1>5, <1>23, <2>1 DEF RollbackStat, LoopPhases, TypeOK
  <2>2. CASE ~NextRollback(e)
    BY <1>23, <2>2 DEF RollbackStat, Goto, TypeOK, PositionOK, LoopPhases, Phases
  <2> QED BY <2>1, <2>2
<1>24. ASSUME NEW e \in Execs, RollbackUnlink(e) PROVE TypeInv'
  <2>1. fs' \in [Paths -> Files \cup {NoFile}]
    BY <1>24 DEF RollbackUnlink, TypeOK
  <2> QED
    BY <1>5, <1>24, <2>1 DEF RollbackUnlink, LoopPhases
<1>25. ASSUME NEW e \in Execs, VerifyHash(e) PROVE TypeInv'
  <2>1. CASE Finish(e, StepsOf(e) \cup {"failed"})
    BY <1>3, <2>1
  <2>2. CASE ~Finish(e, StepsOf(e) \cup {"failed"})
    BY <1>25, <2>2 DEF VerifyHash, Goto, locals, TypeOK, PositionOK, LoopPhases, Phases
  <2> QED BY <2>1, <2>2
<1>26. ASSUME NEW e \in Execs, VerifyMtime(e) PROVE TypeInv'
  BY <1>3, <1>26 DEF VerifyMtime
<1>27. ASSUME NEW e \in Execs, Crash(e) PROVE TypeInv'
  BY <1>27 DEF Crash, Goto, locals, TypeOK, PositionOK, LoopPhases, Phases
<1>28. ASSUME NEW p \in Outputs, ForeignCreate(p) PROVE TypeInv'
  <2>1. PICK i \in Inodes :
          fs' = [fs EXCEPT ![p] = [ino |-> i, by |-> Outsider, data |-> "planned"]]
    BY <1>28 DEF ForeignCreate, FreeInodes
  <2>2. [ino |-> i, by |-> Outsider, data |-> "planned"] \in Files
    BY DEF Files, Data
  <2> QED
    BY <1>28, <2>1, <2>2 DEF ForeignCreate, locals, TypeOK, PositionOK
<1>29. ASSUME NEW p \in Outputs, ForeignRemove(p) PROVE TypeInv'
  BY <1>29 DEF ForeignRemove, locals, TypeOK, PositionOK
<1>30. ASSUME SourceWrite PROVE TypeInv'
  BY <1>30 DEF SourceWrite, locals, TypeOK, PositionOK
<1>31. ASSUME UNCHANGED vars PROVE TypeInv'
  BY <1>31 DEF vars, TypeOK, PositionOK
<1> QED
  BY <1>10, <1>11, <1>12, <1>13, <1>14, <1>15, <1>16, <1>17, <1>18, <1>19, <1>20, <1>21,
     <1>22, <1>23, <1>24, <1>25, <1>26, <1>27, <1>28, <1>29, <1>30, <1>31
     DEF Next, Step, Environment

(* Every state of the executions has the declared shape, and an execution  *)
(* that touches a path does so for a candidate of its own plan.            *)
THEOREM TypeCorrect == Spec => []TypeOK
<1>1. Init => TypeInv
  BY DEF Init, TypeInv, TypeOK, PositionOK, LoopPhases, Phases, Kinds, Statuses, Outcomes,
     Data, NothingRendered, NothingPublished
<1>2. TypeInv /\ [Next]_vars => TypeInv'
  BY TypeStep
<1> QED
  BY <1>1, <1>2, PTL DEF Spec, TypeInv

-----------------------------------------------------------------------------
(***************************************************************************)
(* What an execution has on disk, at every moment of every behaviour: the  *)
(* outputs of its completed candidates, those of the current one that are  *)
(* published and not yet rolled back, and nothing else.  Proved as long as *)
(* other processes only create files (they may not remove ours) and the    *)
(* stat after os.link does not fail on a file that is there.               *)
(***************************************************************************)
NobodyRemoves == "remove" \notin Foreign /\ "stat" \notin Faults

Holds(e, p) == fs[p] # NoFile /\ fs[p].by = e
RollingBack(e) == phase[e] \in {"rollback_stat", "rollback_unlink"}

(* The output of this kind of the current candidate is on disk.            *)
InHand(e, k) ==
  \/ phase[e] = "stat" /\ k = kind[e]
  \/ pub[e][k] # NoInode /\ (RollingBack(e) => kind[e] = "clip" \/ k = "sub")
Current(e, c) == phase[e] \in LoopPhases /\ c = Cand(e)
Done(e, c) == outcome[e][c] = "completed"

Ownership(e) ==
  \A k \in Kinds, c \in Cands : phase[e] # "dead" =>
    (Holds(e, <<k, c>>) <=> (k \in OutputKinds(e) /\ Done(e, c)) \/ (Current(e, c) /\ InHand(e, k)))

(* A killed execution at least keeps what it completed.                    *)
DoneIsHeld(e) ==
  \A k \in OutputKinds(e), c \in Cands : Done(e, c) => Holds(e, <<k, c>>)
DoneIsRecorded(e) ==
  \A k \in OutputKinds(e), c \in Cands : Done(e, c) => <<k, c>> \in arts[e]

(* Nothing is completed ahead of the position.                             *)
NotAhead(e) ==
  /\ phase[e] \in EarlyPhases => \A c \in Cands : ~Done(e, c)
  /\ phase[e] \in LoopPhases => \A j \in idx[e]..Len(PlanOf[e]) : ~Done(e, PlanOf[e][j])

(* What the local variables hold in each phase.                            *)
KindOK(e) ==
  /\ kind[e] \in OutputKinds(e)
  /\ phase[e] \in EarlyPhases \cup {"render", "abort"} => kind[e] = "clip"
  /\ phase[e] = "cleanup" => kind[e] = LastKind(e)
PubOK(e) ==
  /\ pub[e]["sub"] # NoInode => Sidecar[e]
  /\ phase[e] \in EarlyPhases \cup {"render", "verify_hash", "verify_mtime", "done"} =>
       pub[e] = NothingPublished
  /\ phase[e] \in {"link", "stat"} =>
       \A k \in Kinds : pub[e][k] # NoInode <=> kind[e] = "sub" /\ k = "clip"
  /\ phase[e] \in {"cleanup", "record"} => \A k \in OutputKinds(e) : pub[e][k] # NoInode
  /\ phase[e] = "rollback_unlink" => pub[e][kind[e]] # NoInode
TempOK(e) ==
  /\ phase[e] \in {"link", "stat"} =>
       \A k \in OutputKinds(e) : temp[e][k].ino \in Inodes /\ temp[e][k].by = e
  /\ phase[e] \in EarlyPhases \cup {"render", "record", "rollback_stat", "rollback_unlink",
                                     "verify_hash", "verify_mtime", "done"} =>
       temp[e] = NothingRendered
SidecarFirst(e) ==
  phase[e] = "record" /\ kind[e] = "clip" /\ Sidecar[e] => <<"sub", Cand(e)>> \in arts[e]

(* The identities in published_outputs are those of the files on disk.     *)
Identity(e) ==
  phase[e] \in LoopPhases => \A k \in Kinds : pub[e][k] # NoInode /\ InHand(e, k) =>
    fs[<<k, Cand(e)>>].ino = pub[e][k]

Inv(e) == /\ Ownership(e) /\ DoneIsHeld(e) /\ DoneIsRecorded(e) /\ NotAhead(e)
          /\ KindOK(e) /\ PubOK(e) /\ TempOK(e) /\ SidecarFirst(e) /\ Identity(e)
IInv == TypeInv /\ \A e \in Execs : Inv(e)

-----------------------------------------------------------------------------
(* An execution is not disturbed by a step that leaves its own variables   *)
(* and its own files alone.                                                *)
LocalSame(e) ==
  /\ phase'[e] = phase[e] /\ idx'[e] = idx[e] /\ kind'[e] = kind[e] /\ temp'[e] = temp[e]
  /\ pub'[e] = pub[e] /\ arts'[e] = arts[e] /\ outcome'[e] = outcome[e]
FilesSame(e) ==
  \A p \in Paths : (Holds(e, p)' <=> Holds(e, p)) /\ (Holds(e, p) => fs'[p] = fs[p])

LEMMA Undisturbed ==
  ASSUME TypeInv, NEW e \in Execs, Inv(e), LocalSame(e), FilesSame(e)
  PROVE  Inv(e)'
<1>1. /\ Cand(e)' = Cand(e)
      /\ \A k \in Kinds : InHand(e, k)' <=> InHand(e, k)
      /\ \A c \in Cands : Current(e, c)' <=> Current(e, c)
      /\ \A c \in Cands : Done(e, c)' <=> Done(e, c)
  BY DEF LocalSame, Cand, InHand, RollingBack, Current, Done
<1>2. \A k \in Kinds, c \in Cands : Holds(e, <<k, c>>)' <=> Holds(e, <<k, c>>)
  BY DEF FilesSame, Paths
<1>3. OutputKinds(e) \subseteq Kinds
  BY OutputFacts
<1>4. Ownership(e)'
  BY <1>1, <1>2 DEF Inv, Ownership, LocalSame
<1>5. DoneIsHeld(e)' /\ DoneIsRecorded(e)'
  BY <1>1, <1>2, <1>3 DEF Inv, DoneIsHeld, DoneIsRecorded, LocalSame
<1>6. NotAhead(e)'
  BY PlansAreInjective DEF Inv, NotAhead, LocalSame, Done
<1>7. KindOK(e)' /\ PubOK(e)' /\ TempOK(e)'
  BY DEF Inv, KindOK, PubOK, TempOK, LocalSame
<1>8. SidecarFirst(e)'
  BY <1>1 DEF Inv, SidecarFirst, LocalSame
<1>9. Identity(e)'
  <2> SUFFICES ASSUME phase'[e] \in LoopPhases, NEW k \in Kinds, pub'[e][k] # NoInode,
                      InHand(e, k)'
               PROVE  fs'[<<k, Cand(e)>>].ino = pub'[e][k]
    BY <1>1 DEF Identity
  <2>1. Cand(e) \in Cands
    BY CandInPlan DEF LocalSame, TypeInv
  <2>2. Holds(e, <<k, Cand(e)>>)
    BY <1>1, <2>1 DEF Inv, Ownership, Current, LocalSame, LoopPhases
  <2> QED
    BY <1>1, <2>1, <2>2 DEF Inv, Identity, LocalSame, FilesSame, Paths
<1> QED
  BY <1>4, <1>5, <1>6, <1>7, <1>8, <1>9 DEF Inv

(* A step of one execution leaves the variables of the others alone.       *)
LEMMA StepIsLocal ==
  ASSUME TypeInv, NEW e \in Execs, NEW d \in Execs, d # e, Step(e) \/ Crash(e)
  PROVE  LocalSame(d)
<1> USE DEF TypeInv, TypeOK, Goto, locals, LocalSame
<1>1. ASSUME NEW o, NEW ph, FailCandidate(e, o, ph) PROVE LocalSame(d)
  BY <1>1 DEF FailCandidate
<1>2. ASSUME Reject(e) PROVE LocalSame(d)
  BY <1>2 DEF Reject
<1>3. ASSUME NEW steps, Finish(e, steps) PROVE LocalSame(d)
  BY <1>3 DEF Finish
<1>4. ASSUME NextRollback(e), UNCHANGED <<temp, arts, outcome>> PROVE LocalSame(d)
  BY <1>4 DEF NextRollback
<1>5. CASE Validate(e)        BY <1>2, <1>5 DEF Validate
<1>6. CASE StatSource(e)      BY <1>6 DEF StatSource
<1>7. CASE PreflightFault(e)  BY <1>2, <1>7 DEF PreflightFault
<1>8. CASE PreflightOutput(e) BY <1>2, <1>8 DEF PreflightOutput
<1>9. CASE Render(e)          BY <1>9 DEF Render
<1>10. CASE \E o \in Failures : RenderFails(e, o)  BY <1>1, <1>10 DEF RenderFails
<1>11. CASE Link(e)           BY <1>11 DEF Link
<1>12. CASE LinkFails(e)      BY <1>1, <1>12 DEF LinkFails
<1>13. CASE StatOutput(e)     BY <1>13 DEF StatOutput
<1>14. CASE StatFails(e)      BY <1>1, <1>14 DEF StatFails
<1>15. CASE Cleanup(e)        BY <1>15 DEF Cleanup
<1>16. CASE RecordArtifact(e) BY <1>16 DEF RecordArtifact
<1>17. CASE RecordFails(e)    BY <1>1, <1>17 DEF RecordFails
<1>18. CASE RollbackStat(e)
  BY <1>4, <1>18 DEF RollbackStat
<1>19. CASE RollbackUnlink(e) BY <1>4, <1>19 DEF RollbackUnlink
<1>20. CASE VerifyHash(e)     BY <1>3, <1>20 DEF VerifyHash
<1>21. CASE VerifyMtime(e)    BY <1>3, <1>21 DEF VerifyMtime
<1>22. CASE Crash(e)          BY <1>22 DEF Crash
<1> QED
  BY <1>5, <1>6, <1>7, <1>8, <1>9, <1>10, <1>11, <1>12, <1>13, <1>14, <1>15, <1>16,
     <1>17, <1>18, <1>19, <1>20, <1>21, <1>22 DEF Step

-----------------------------------------------------------------------------
(* The steps of an execution, one lemma each where files or outcomes       *)
(* change.                                                                 *)

LEMMA NoFileFacts ==
  /\ NoFile.ino = NoInode /\ NoInode \notin Inodes
  /\ \A k \in Kinds : NothingPublished[k] = NoInode /\ NothingRendered[k] = NoFile
BY ConstantTypes DEF NoFile, NothingPublished, NothingRendered

(* Before the loop nothing is published and nothing changes.               *)
LEMMA EarlyStep ==
  ASSUME TypeInv, TypeInv', NEW e \in Execs, Inv(e), FilesSame(e),
         phase[e] \in EarlyPhases,
         phase'[e] \in EarlyPhases \cup {"render", "verify_hash", "done", "dead"},
         kind'[e] = kind[e], pub'[e] = pub[e], temp'[e] = temp[e],
         arts'[e] = arts[e], outcome'[e] = outcome[e]
  PROVE  Inv(e)'
<1>1. \A k \in Kinds : pub[e][k] = NoInode
  BY NoFileFacts DEF Inv, PubOK, EarlyPhases
<1>2. \A p \in Paths : Holds(e, p)' <=> Holds(e, p)
  BY DEF FilesSame
<1>3. \A c \in Cands : ~Done(e, c) /\ ~Done(e, c)'
  BY DEF Inv, NotAhead, Done
<1>4. \A k \in Kinds : ~InHand(e, k) /\ ~InHand(e, k)'
  BY <1>1 DEF InHand, EarlyPhases
<1>5. OutputKinds(e) \subseteq Kinds
  BY OutputFacts
<1>6. Ownership(e)' /\ DoneIsHeld(e)' /\ DoneIsRecorded(e)'
  BY <1>2, <1>3, <1>4, <1>5
     DEF Inv, Ownership, DoneIsHeld, DoneIsRecorded, EarlyPhases, Paths
<1>7. NotAhead(e)'
  <2>1. \A j \in idx'[e]..Len(PlanOf[e]) : PlanOf[e][j] \in Cands
    BY PlansAreInjective DEF TypeInv, TypeOK
  <2> QED BY <1>3, <2>1 DEF NotAhead
<1>8. KindOK(e)' /\ PubOK(e)' /\ TempOK(e)' /\ SidecarFirst(e)' /\ Identity(e)'
  BY <1>1, <1>4 DEF Inv, KindOK, PubOK, TempOK, SidecarFirst, Identity, EarlyPhases
<1> QED
  BY <1>6, <1>7, <1>8 DEF Inv

LEMMA CurrentIsNotDone ==
  ASSUME TypeInv, NEW e \in Execs, NotAhead(e), phase[e] \in LoopPhases
  PROVE  Cand(e) \in Cands /\ ~Done(e, Cand(e)) /\ idx[e] \in 1..Len(PlanOf[e])
<1>1. idx[e] \in 1..Len(PlanOf[e]) /\ Len(PlanOf[e]) \in Nat
  BY PlanLength DEF TypeInv, PositionOK
<1>2. idx[e] \in idx[e]..Len(PlanOf[e])
  BY <1>1
<1> QED
  BY <1>1, <1>2, CandInPlan DEF NotAhead, Cand, TypeInv

LEMMA RenderStep ==
  ASSUME TypeInv, NEW e \in Execs, Inv(e), Render(e)
  PROVE  Inv(e)'
<1> USE DEF TypeInv, TypeOK
<1>1. /\ phase[e] = "render" /\ phase'[e] = "link" /\ kind[e] = "clip" /\ kind'[e] = "clip"
      /\ UNCHANGED <<fs, idx, pub, arts, outcome>>
  BY DEF Render, Goto, Inv, KindOK
<1>2. \A k \in Kinds : pub[e][k] = NoInode
  BY <1>1, NoFileFacts DEF Inv, PubOK
<1>3. \A k \in Kinds : ~InHand(e, k) /\ ~InHand(e, k)'
  BY <1>1, <1>2 DEF InHand
<1>4. \A c \in Cands : (Done(e, c)' <=> Done(e, c)) /\ (Current(e, c)' <=> Current(e, c))
  BY <1>1 DEF Done, Current, Cand, LoopPhases
<1>5. \A k \in Kinds, c \in Cands : Holds(e, <<k, c>>)' <=> Holds(e, <<k, c>>)
  BY <1>1 DEF Holds
<1>6. OutputKinds(e) \subseteq Kinds
  BY OutputFacts
<1>7. Ownership(e)' /\ DoneIsHeld(e)' /\ DoneIsRecorded(e)' /\ NotAhead(e)'
  BY <1>1, <1>3, <1>4, <1>5, <1>6
     DEF Inv, Ownership, DoneIsHeld, DoneIsRecorded, NotAhead, Done, LoopPhases, EarlyPhases
<1>8. \A k \in OutputKinds(e) : temp'[e][k].ino \in Inodes /\ temp'[e][k].by = e
  <2>1. PICK new \in [OutputKinds(e) -> FreeInodes] :
          temp' = [temp EXCEPT ![e] = [k \in Kinds |->
            IF k \notin OutputKinds(e) THEN NoFile
            ELSE [ino |-> new[k], by |-> e,
                  data |-> IF k = "clip" THEN src.data ELSE "planned"]]]
    BY DEF Render
  <2>2. ASSUME NEW k \in OutputKinds(e)
        PROVE  temp'[e][k].ino = new[k] /\ temp'[e][k].by = e
    <3>1. temp'[e][k] = [ino |-> new[k], by |-> e,
                         data |-> IF k = "clip" THEN src.data ELSE "planned"]
      BY <1>6, <2>1
    <3> QED BY <3>1
  <2>3. \A k \in OutputKinds(e) : new[k] \in Inodes
    BY <2>1 DEF FreeInodes
  <2> QED BY <2>2, <2>3
<1>9. KindOK(e)' /\ SidecarFirst(e)'
  BY <1>1, OutputFacts DEF KindOK, SidecarFirst, EarlyPhases
<1>10. PubOK(e)'
  BY <1>1, <1>2 DEF PubOK, EarlyPhases, Kinds
<1>11. TempOK(e)'
  BY <1>1, <1>8 DEF TempOK, EarlyPhases
<1>12. Identity(e)'
  BY <1>3 DEF Identity
<1> QED
  BY <1>7, <1>9, <1>10, <1>11, <1>12 DEF Inv

(* A failing candidate goes on to its rollback with what it published.     *)
LEMMA FailStep ==
  ASSUME TypeInv, NEW e \in Execs, Inv(e), NEW o \in Failures, NEW ph,
         FailCandidate(e, o, ph),
         \/ ph = "abort" /\ phase[e] \in {"render", "link"}
         \/ ph = "rollback_stat" /\ phase[e] = "record"
  PROVE  Inv(e)'
<1> USE DEF TypeInv, TypeOK
<1>1. /\ phase'[e] = ph /\ kind'[e] = "clip" /\ phase[e] \in LoopPhases
      /\ UNCHANGED <<fs, idx, pub, temp, arts>>
      /\ outcome' = [outcome EXCEPT ![e][Cand(e)] = o]
  BY DEF FailCandidate, Goto, LoopPhases
<1>2. Cand(e) \in Cands /\ ~Done(e, Cand(e)) /\ idx[e] \in 1..Len(PlanOf[e])
  BY <1>1, CurrentIsNotDone DEF Inv
<1>3. \A c \in Cands : (Done(e, c)' <=> Done(e, c)) /\ (Current(e, c)' <=> Current(e, c))
  BY <1>1, <1>2 DEF Done, Current, Cand, LoopPhases, Failures
<1>4. \A k \in Kinds : InHand(e, k)' <=> InHand(e, k)
  BY <1>1 DEF InHand, RollingBack
<1>5. \A k \in Kinds, c \in Cands : Holds(e, <<k, c>>)' <=> Holds(e, <<k, c>>)
  BY <1>1 DEF Holds
<1>6. OutputKinds(e) \subseteq Kinds /\ "clip" \in OutputKinds(e)
  BY OutputFacts
<1>7. Ownership(e)' /\ DoneIsHeld(e)' /\ DoneIsRecorded(e)'
  BY <1>1, <1>3, <1>4, <1>5, <1>6
     DEF Inv, Ownership, DoneIsHeld, DoneIsRecorded, LoopPhases
<1>8. NotAhead(e)'
  <2>1. \A j \in idx[e]..Len(PlanOf[e]) : PlanOf[e][j] \in Cands
    BY PlansAreInjective
  <2> QED
    BY <1>1, <1>3, <2>1 DEF Inv, NotAhead, EarlyPhases
<1>9. KindOK(e)' /\ PubOK(e)' /\ TempOK(e)' /\ SidecarFirst(e)'
  BY <1>1, <1>6 DEF Inv, KindOK, PubOK, TempOK, SidecarFirst, EarlyPhases
<1>10. Identity(e)'
  BY <1>1, <1>4 DEF Inv, Identity, Cand
<1> QED
  BY <1>7, <1>8, <1>9, <1>10 DEF Inv

LEMMA LinkStep ==
  ASSUME TypeInv, NEW e \in Execs, Inv(e), Link(e)
  PROVE  Inv(e)'
<1> USE DEF TypeInv, TypeOK
<1>1. /\ phase[e] = "link" /\ phase'[e] = "stat"
      /\ UNCHANGED <<idx, kind, pub, temp, arts, outcome>>
      /\ fs' = [fs EXCEPT ![Path(e)] = temp[e][kind[e]]]
  BY DEF Link, Goto, locals
<1>2. Cand(e) \in Cands /\ kind[e] \in OutputKinds(e) /\ OutputKinds(e) \subseteq Kinds
  BY <1>1, CandInPlan, OutputFacts DEF Inv, KindOK, LoopPhases
<1>3. temp[e][kind[e]].ino \in Inodes /\ temp[e][kind[e]].by = e
  BY <1>1, <1>2 DEF Inv, TempOK
<1>4. \A p \in Paths : fs'[p] = IF p = Path(e) THEN temp[e][kind[e]] ELSE fs[p]
  BY <1>1
<1>5. Path(e) \in Paths
  BY <1>2 DEF Path, Paths
<1>6. fs'[Path(e)] # NoFile /\ fs'[Path(e)].by = e
  BY <1>3, <1>4, <1>5, NoFileFacts
<1>7. \A k \in Kinds, c \in Cands :
        Holds(e, <<k, c>>)' <=> Holds(e, <<k, c>>) \/ (k = kind[e] /\ c = Cand(e))
  BY <1>4, <1>6 DEF Holds, Path, Paths
<1>8. \A k \in Kinds : InHand(e, k)' <=> InHand(e, k) \/ k = kind[e]
  BY <1>1 DEF InHand, RollingBack
<1>9. \A c \in Cands : (Done(e, c)' <=> Done(e, c)) /\ (Current(e, c)' <=> Current(e, c))
  BY <1>1 DEF Done, Current, Cand, LoopPhases
<1>10. Ownership(e)' /\ DoneIsHeld(e)' /\ DoneIsRecorded(e)'
  <2>1. \A c \in Cands : Current(e, c) <=> c = Cand(e)
    BY <1>1 DEF Current, LoopPhases
  <2> QED
    BY <1>1, <1>2, <1>7, <1>8, <1>9, <2>1
       DEF Inv, Ownership, DoneIsHeld, DoneIsRecorded
<1>11. NotAhead(e)' /\ KindOK(e)' /\ PubOK(e)' /\ TempOK(e)' /\ SidecarFirst(e)'
  BY <1>1 DEF Inv, NotAhead, Done, KindOK, PubOK, TempOK, SidecarFirst, LoopPhases,
              EarlyPhases
<1>12. Identity(e)'
  <2>1. \A k \in Kinds : pub[e][k] # NoInode => k # kind[e]
    BY <1>1 DEF Inv, PubOK
  <2>2. \A k \in Kinds : k # kind[e] => fs'[<<k, Cand(e)>>] = fs[<<k, Cand(e)>>]
    BY <1>2, <1>4 DEF Path, Paths
  <2> QED
    BY <1>1, <1>8, <2>1, <2>2 DEF Inv, Identity, Cand, LoopPhases
<1> QED
  BY <1>10, <1>11, <1>12 DEF Inv

LEMMA StatStep ==
  ASSUME TypeInv, NEW e \in Execs, Inv(e), StatOutput(e)
  PROVE  Inv(e)'
<1> USE DEF TypeInv, TypeOK
<1>1. /\ phase[e] = "stat" /\ phase[e] \in LoopPhases
      /\ phase'[e] = IF kind[e] = LastKind(e) THEN "cleanup" ELSE "link"
      /\ kind'[e] = LastKind(e)
      /\ pub' = [pub EXCEPT ![e][kind[e]] = fs[Path(e)].ino]
      /\ UNCHANGED <<fs, idx, temp, arts, outcome>>
  BY DEF StatOutput, Goto, LoopPhases
<1>2. Cand(e) \in Cands /\ kind[e] \in OutputKinds(e) /\ OutputKinds(e) \subseteq Kinds
  BY <1>1, CurrentIsNotDone, OutputFacts DEF Inv, KindOK
<1>3. fs[Path(e)].ino \in Inodes
  BY <1>2, NoFileFacts DEF StatOutput, Path, Paths, Files
<1>4. \A k \in Kinds : pub'[e][k] = IF k = kind[e] THEN fs[Path(e)].ino ELSE pub[e][k]
  BY <1>1
<1>5. \A k \in Kinds : InHand(e, k)' <=> InHand(e, k)
  BY <1>1, <1>3, <1>4, NoFileFacts DEF InHand, RollingBack
<1>6. \A c \in Cands : (Done(e, c)' <=> Done(e, c)) /\ (Current(e, c)' <=> Current(e, c))
  BY <1>1 DEF Done, Current, Cand, LoopPhases
<1>7. \A k \in Kinds, c \in Cands : Holds(e, <<k, c>>)' <=> Holds(e, <<k, c>>)
  BY <1>1 DEF Holds
<1>8. Ownership(e)' /\ DoneIsHeld(e)' /\ DoneIsRecorded(e)' /\ NotAhead(e)'
  BY <1>1, <1>2, <1>5, <1>6, <1>7
     DEF Inv, Ownership, DoneIsHeld, DoneIsRecorded, NotAhead, Done, LoopPhases, EarlyPhases
<1>9. KindOK(e)' /\ TempOK(e)' /\ SidecarFirst(e)'
  BY <1>1, OutputFacts DEF Inv, KindOK, TempOK, SidecarFirst, EarlyPhases
<1>10. PubOK(e)'
  BY <1>1, <1>2, <1>3, <1>4, NoFileFacts
     DEF Inv, PubOK, KindOK, LastKind, OutputKinds, Kinds, EarlyPhases
<1>11. Identity(e)'
  <2>1. \A k \in Kinds : k = kind[e] => fs[<<k, Cand(e)>>].ino = pub'[e][k]
    BY <1>4 DEF Path
  <2> QED
    BY <1>1, <1>4, <1>5, <2>1 DEF Inv, Identity, Cand, LoopPhases
<1> QED
  BY <1>8, <1>9, <1>10, <1>11 DEF Inv

LEMMA CleanupStep ==
  ASSUME TypeInv, NEW e \in Execs, Inv(e), Cleanup(e)
  PROVE  Inv(e)'
<1> USE DEF TypeInv, TypeOK
<1>1. /\ phase[e] \in {"cleanup", "abort"}
      /\ phase'[e] = IF phase[e] = "cleanup" THEN "record" ELSE "rollback_stat"
      /\ temp'[e] = NothingRendered
      /\ UNCHANGED <<fs, idx, kind, pub, arts, outcome>>
  BY DEF Cleanup, Goto
<1>2. phase[e] = "abort" => kind[e] = "clip"
  BY DEF Inv, KindOK
<1>3. \A k \in Kinds : InHand(e, k)' <=> InHand(e, k)
  BY <1>1, <1>2 DEF InHand, RollingBack
<1>4. \A c \in Cands : (Done(e, c)' <=> Done(e, c)) /\ (Current(e, c)' <=> Current(e, c))
  BY <1>1 DEF Done, Current, Cand, LoopPhases
<1>5. \A k \in Kinds, c \in Cands : Holds(e, <<k, c>>)' <=> Holds(e, <<k, c>>)
  BY <1>1 DEF Holds
<1>6. Ownership(e)' /\ DoneIsHeld(e)' /\ DoneIsRecorded(e)' /\ NotAhead(e)'
  BY <1>1, <1>3, <1>4, <1>5, OutputFacts
     DEF Inv, Ownership, DoneIsHeld, DoneIsRecorded, NotAhead, Done, LoopPhases, EarlyPhases
<1>7. KindOK(e)' /\ PubOK(e)' /\ TempOK(e)'
  BY <1>1 DEF Inv, KindOK, PubOK, TempOK, EarlyPhases
<1>8. SidecarFirst(e)'
  BY <1>1 DEF Inv, SidecarFirst, KindOK, LastKind
<1>9. Identity(e)'
  BY <1>1, <1>3 DEF Inv, Identity, Cand, LoopPhases
<1> QED
  BY <1>6, <1>7, <1>8, <1>9 DEF Inv

(* The position moves on: nothing of the candidate is in hand any more.    *)
LEMMA AdvanceFacts ==
  ASSUME TypeInv, NEW e \in Execs, Inv(e), phase[e] \in LoopPhases,
         idx'[e] = idx[e] + 1, phase'[e] = AfterCandidate(e),
         \A c \in Cands \ {Cand(e)} : Done(e, c)' <=> Done(e, c)
  PROVE  /\ NotAhead(e)'
         /\ phase'[e] \in {"render", "verify_hash"}
<1>1. Cand(e) \in Cands /\ idx[e] \in 1..Len(PlanOf[e]) /\ Len(PlanOf[e]) \in Nat
  BY CurrentIsNotDone, PlanLength DEF Inv
<1>2. phase'[e] \in {"render", "verify_hash"}
  BY DEF AfterCandidate
<1>3. ASSUME NEW j \in (idx[e] + 1)..Len(PlanOf[e])
      PROVE  ~Done(e, PlanOf[e][j])'
  <2>1. j \in idx[e]..Len(PlanOf[e]) /\ j \in 1..Len(PlanOf[e]) /\ j # idx[e]
    BY <1>1, <1>3
  <2>2. PlanOf[e][j] \in Cands \ {Cand(e)}
    BY <1>1, <2>1, PlansAreInjective DEF Cand
  <2> QED
    BY <2>1, <2>2 DEF Inv, NotAhead, Done
<1> QED
  BY <1>2, <1>3 DEF NotAhead, Done, EarlyPhases

LEMMA RecordStep ==
  ASSUME TypeInv, NEW e \in Execs, Inv(e), RecordArtifact(e)
  PROVE  Inv(e)'
<1> USE DEF TypeInv, TypeOK
<1>1. /\ phase[e] = "record" /\ phase[e] \in LoopPhases /\ kind'[e] = "clip"
      /\ UNCHANGED <<fs, temp>>
      /\ arts'[e] = arts[e] \cup {Path(e)}
  BY DEF RecordArtifact, LoopPhases
<1>2. /\ Cand(e) \in Cands /\ ~Done(e, Cand(e)) /\ kind[e] \in OutputKinds(e)
      /\ OutputKinds(e) \subseteq Kinds
  BY <1>1, CurrentIsNotDone, OutputFacts DEF Inv, KindOK
<1>3. \A k \in OutputKinds(e) : pub[e][k] # NoInode
  BY <1>1 DEF Inv, PubOK
<1>4. \A k \in Kinds : pub[e][k] # NoInode => k \in OutputKinds(e)
  BY <1>2 DEF Inv, PubOK, OutputKinds, Kinds
<1>5. \A k \in Kinds : InHand(e, k) <=> k \in OutputKinds(e)
  BY <1>1, <1>2, <1>3, <1>4 DEF InHand, RollingBack
<1>6. \A k \in Kinds, c \in Cands : Holds(e, <<k, c>>)' <=> Holds(e, <<k, c>>)
  BY <1>1 DEF Holds
<1>7. CASE kind[e] = "sub"
  <2>1. UNCHANGED <<outcome, pub, idx, phase>>
    BY <1>7 DEF RecordArtifact
  <2>2. \A k \in Kinds : InHand(e, k)' <=> InHand(e, k)
    BY <1>1, <2>1 DEF InHand, RollingBack
  <2>3. \A c \in Cands : (Done(e, c)' <=> Done(e, c)) /\ (Current(e, c)' <=> Current(e, c))
    BY <2>1 DEF Done, Current, Cand
  <2>4. Ownership(e)' /\ DoneIsHeld(e)' /\ DoneIsRecorded(e)' /\ NotAhead(e)'
    BY <1>1, <1>2, <1>6, <2>1, <2>2, <2>3
       DEF Inv, Ownership, DoneIsHeld, DoneIsRecorded, NotAhead, Done
  <2>5. KindOK(e)' /\ PubOK(e)' /\ TempOK(e)'
    BY <1>1, <2>1, OutputFacts DEF Inv, KindOK, PubOK, TempOK, EarlyPhases
  <2>6. SidecarFirst(e)'
    BY <1>1, <1>7, <2>1 DEF SidecarFirst, Path, Cand
  <2>7. Identity(e)'
    BY <1>1, <2>1, <2>2 DEF Inv, Identity, Cand
  <2> QED
    BY <2>4, <2>5, <2>6, <2>7 DEF Inv
<1>8. CASE kind[e] = "clip"
  <2>1. /\ outcome' = [outcome EXCEPT ![e][Cand(e)] = "completed"]
        /\ pub' = [pub EXCEPT ![e] = NothingPublished]
        /\ idx' = [idx EXCEPT ![e] = @ + 1]
        /\ phase' = [phase EXCEPT ![e] = AfterCandidate(e)]
    BY <1>8 DEF RecordArtifact, Goto
  <2>2. idx'[e] = idx[e] + 1 /\ phase'[e] = AfterCandidate(e)
    BY <2>1
  <2>3. \A c \in Cands : Done(e, c)' <=> Done(e, c) \/ c = Cand(e)
    BY <1>2, <2>1 DEF Done
  <2>4. NotAhead(e)' /\ phase'[e] \in {"render", "verify_hash"}
    BY <1>1, <2>2, <2>3, AdvanceFacts
  <2>5. \A k \in Kinds : pub'[e][k] = NoInode /\ ~InHand(e, k)'
    BY <2>1, <2>4, NoFileFacts DEF InHand
  <2>6. Ownership(e)'
    BY <1>1, <1>2, <1>5, <1>6, <2>3, <2>5 DEF Inv, Ownership, Current
  <2>7. DoneIsHeld(e)'
    BY <1>1, <1>2, <1>5, <1>6, <2>3 DEF Inv, Ownership, DoneIsHeld, Current
  <2>8. DoneIsRecorded(e)'
    <3>1. \A k \in OutputKinds(e) : <<k, Cand(e)>> \in arts'[e]
      BY <1>1, <1>8 DEF Inv, SidecarFirst, Path, OutputKinds, Kinds
    <3> QED
      BY <1>1, <2>3, <3>1 DEF Inv, DoneIsRecorded
  <2>9. KindOK(e)' /\ PubOK(e)' /\ TempOK(e)' /\ SidecarFirst(e)' /\ Identity(e)'
    BY <1>1, <2>1, <2>4, <2>5, OutputFacts
       DEF Inv, KindOK, PubOK, TempOK, SidecarFirst, Identity, EarlyPhases, Kinds
  <2> QED
    BY <2>4, <2>6, <2>7, <2>8, <2>9 DEF Inv
<1> QED
  BY <1>7, <1>8 DEF Kinds

(* The loop of the rollback: the output it was at is no longer held.       *)
LEMMA NextRollbackStep ==
  ASSUME TypeInv, NEW e \in Execs, Inv(e), RollingBack(e), NextRollback(e),
         UNCHANGED <<temp, arts, outcome>>,
         \A k \in Kinds, c \in Cands :
           Holds(e, <<k, c>>)' <=> Holds(e, <<k, c>>) /\ ~(k = kind[e] /\ c = Cand(e)),
         \A k \in Kinds : k # kind[e] => fs'[<<k, Cand(e)>>] = fs[<<k, Cand(e)>>]
  PROVE  Inv(e)'
<1> USE DEF TypeInv, TypeOK
<1>1. phase[e] \in {"rollback_stat", "rollback_unlink"} /\ phase[e] \in LoopPhases
  BY DEF RollingBack, LoopPhases
<1>2. /\ Cand(e) \in Cands /\ ~Done(e, Cand(e)) /\ kind[e] \in OutputKinds(e)
      /\ OutputKinds(e) \subseteq Kinds
  BY <1>1, CurrentIsNotDone, OutputFacts DEF Inv, KindOK
<1>3. \A c \in Cands : Done(e, c)' <=> Done(e, c)
  BY DEF Done
<1>4. DoneIsHeld(e)' /\ DoneIsRecorded(e)'
  BY <1>2, <1>3 DEF Inv, DoneIsHeld, DoneIsRecorded
<1>5. CASE kind[e] = LastKind(e)
  <2>1. /\ idx' = [idx EXCEPT ![e] = @ + 1]
        /\ kind' = [kind EXCEPT ![e] = "clip"]
        /\ pub' = [pub EXCEPT ![e] = NothingPublished]
        /\ phase' = [phase EXCEPT ![e] = AfterCandidate(e)]
    BY <1>5 DEF NextRollback, Goto
  <2>2. idx'[e] = idx[e] + 1 /\ phase'[e] = AfterCandidate(e) /\ kind'[e] = "clip"
    BY <2>1
  <2>3. NotAhead(e)' /\ phase'[e] \in {"render", "verify_hash"}
    BY <1>1, <1>3, <2>2, AdvanceFacts
  <2>4. \A k \in Kinds : pub'[e][k] = NoInode /\ ~InHand(e, k)'
    BY <2>1, <2>3, NoFileFacts DEF InHand
  <2>5. \A k \in Kinds : InHand(e, k) => k = kind[e]
    BY <1>1, <1>5 DEF Inv, InHand, RollingBack, PubOK, LastKind, Kinds
  <2>6. Ownership(e)'
    BY <1>1, <1>2, <1>3, <2>4, <2>5 DEF Inv, Ownership, Current
  <2>7. KindOK(e)' /\ PubOK(e)' /\ TempOK(e)' /\ SidecarFirst(e)' /\ Identity(e)'
    BY <1>1, <2>1, <2>2, <2>3, <2>4, OutputFacts
       DEF Inv, KindOK, PubOK, TempOK, SidecarFirst, Identity, EarlyPhases, Kinds
  <2> QED
    BY <1>4, <2>3, <2>6, <2>7 DEF Inv
<1>6. CASE kind[e] # LastKind(e)
  <2>1. /\ kind[e] = "clip" /\ Sidecar[e]
    BY <1>2, <1>6 DEF LastKind, OutputKinds, Kinds
  <2>2. kind'[e] = "sub" /\ phase'[e] = "rollback_stat" /\ UNCHANGED <<pub, idx>>
    BY <1>6 DEF NextRollback, Goto
  <2>3. \A c \in Cands : Current(e, c)' <=> Current(e, c)
    BY <1>1, <2>2 DEF Current, Cand, LoopPhases
  <2>4. \A k \in Kinds : InHand(e, k)' <=> InHand(e, k) /\ k # "clip"
    BY <1>1, <2>1, <2>2 DEF InHand, RollingBack, Kinds
  <2>5. Ownership(e)'
    BY <1>1, <1>2, <1>3, <2>1, <2>2, <2>3, <2>4 DEF Inv, Ownership, Current
  <2>6. NotAhead(e)' /\ KindOK(e)' /\ PubOK(e)' /\ TempOK(e)' /\ SidecarFirst(e)'
    BY <1>1, <1>3, <2>1, <2>2
       DEF Inv, NotAhead, Done, KindOK, PubOK, TempOK, SidecarFirst, EarlyPhases,
           OutputKinds, Kinds
  <2>7. Identity(e)'
    BY <1>1, <2>1, <2>2, <2>4 DEF Inv, Identity, Cand
  <2> QED
    BY <1>4, <2>5, <2>6, <2>7 DEF Inv
<1> QED
  BY <1>5, <1>6

LEMMA RollbackStatStep ==
  ASSUME TypeInv, NEW e \in Execs, Inv(e), RollbackStat(e)
  PROVE  Inv(e)'
<1> USE DEF TypeInv, TypeOK
<1>1. /\ phase[e] = "rollback_stat" /\ phase[e] \in LoopPhases /\ RollingBack(e)
      /\ UNCHANGED <<fs, temp, arts, outcome>>
  BY DEF RollbackStat, LoopPhases, RollingBack
<1>2. /\ Cand(e) \in Cands /\ ~Done(e, Cand(e)) /\ kind[e] \in OutputKinds(e)
      /\ OutputKinds(e) \subseteq Kinds
  BY <1>1, CurrentIsNotDone, OutputFacts DEF Inv, KindOK
<1>3. pub[e][kind[e]] # NoInode <=> InHand(e, kind[e])
  BY <1>1, <1>2 DEF InHand, Kinds
<1>4. CASE pub[e][kind[e]] # NoInode
  <2>1. fs[Path(e)].ino = pub[e][kind[e]]
    BY <1>1, <1>2, <1>3, <1>4 DEF Inv, Identity, Path
  <2>2. phase'[e] = "rollback_unlink" /\ UNCHANGED <<kind, pub, idx>>
    BY <1>4, <2>1 DEF RollbackStat, Goto
  <2>3. \A k \in Kinds : InHand(e, k)' <=> InHand(e, k)
    BY <1>1, <2>2 DEF InHand, RollingBack
  <2>4. \A c \in Cands : (Done(e, c)' <=> Done(e, c)) /\ (Current(e, c)' <=> Current(e, c))
    BY <1>1, <2>2 DEF Done, Current, Cand, LoopPhases
  <2>5. \A k \in Kinds, c \in Cands : Holds(e, <<k, c>>)' <=> Holds(e, <<k, c>>)
    BY <1>1 DEF Holds
  <2>6. Ownership(e)' /\ DoneIsHeld(e)' /\ DoneIsRecorded(e)' /\ NotAhead(e)'
    BY <1>1, <1>2, <2>2, <2>3, <2>4, <2>5
       DEF Inv, Ownership, DoneIsHeld, DoneIsRecorded, NotAhead, Done, LoopPhases, EarlyPhases
  <2>7. KindOK(e)' /\ PubOK(e)' /\ TempOK(e)' /\ SidecarFirst(e)'
    BY <1>1, <1>4, <2>2 DEF Inv, KindOK, PubOK, TempOK, SidecarFirst, EarlyPhases
  <2>8. Identity(e)'
    BY <1>1, <2>2, <2>3 DEF Inv, Identity, Cand
  <2> QED
    BY <2>6, <2>7, <2>8 DEF Inv
<1>5. CASE pub[e][kind[e]] = NoInode
  <2>1. NextRollback(e)
    BY <1>5 DEF RollbackStat
  <2>2. ~Holds(e, <<kind[e], Cand(e)>>)
    BY <1>1, <1>2, <1>3, <1>5 DEF Inv, Ownership, Current
  <2>3. \A k \in Kinds, c \in Cands :
          Holds(e, <<k, c>>)' <=> Holds(e, <<k, c>>) /\ ~(k = kind[e] /\ c = Cand(e))
    BY <1>1, <2>2 DEF Holds
  <2> QED
    BY <1>1, <2>1, <2>3, NextRollbackStep
<1> QED
  BY <1>4, <1>5

LEMMA RollbackUnlinkStep ==
  ASSUME TypeInv, NEW e \in Execs, Inv(e), RollbackUnlink(e)
  PROVE  Inv(e)' /\ Holds(e, Path(e))
<1> USE DEF TypeInv, TypeOK
<1>1. /\ phase[e] = "rollback_unlink" /\ phase[e] \in LoopPhases /\ RollingBack(e)
      /\ UNCHANGED <<temp, arts, outcome>> /\ NextRollback(e)
      /\ fs' = [fs EXCEPT ![Path(e)] = NoFile]
  BY DEF RollbackUnlink, LoopPhases, RollingBack
<1>2. /\ Cand(e) \in Cands /\ kind[e] \in OutputKinds(e)
      /\ OutputKinds(e) \subseteq Kinds
  BY <1>1, CurrentIsNotDone, OutputFacts DEF Inv, KindOK
<1>3. InHand(e, kind[e])
  BY <1>1, <1>2 DEF Inv, PubOK, InHand, Kinds
<1>4. Holds(e, <<kind[e], Cand(e)>>)
  BY <1>1, <1>2, <1>3 DEF Inv, Ownership, Current
<1>5. \A p \in Paths : fs'[p] = IF p = Path(e) THEN NoFile ELSE fs[p]
  BY <1>1
<1>6. \A k \in Kinds, c \in Cands :
        Holds(e, <<k, c>>)' <=> Holds(e, <<k, c>>) /\ ~(k = kind[e] /\ c = Cand(e))
  BY <1>5 DEF Holds, Path, Paths
<1>7. \A k \in Kinds : k # kind[e] => fs'[<<k, Cand(e)>>] = fs[<<k, Cand(e)>>]
  BY <1>2, <1>5 DEF Path, Paths
<1> QED
  BY <1>1, <1>4, <1>6, <1>7, NextRollbackStep DEF Path

(* Nothing happens to files after the loop, nor when the process dies.     *)
LEMMA EndStep ==
  ASSUME TypeInv, NEW e \in Execs, Inv(e), FilesSame(e),
         \/ phase'[e] = "dead"
         \/ phase[e] \in {"verify_hash", "verify_mtime"} /\ phase'[e] \in {"verify_mtime", "done"},
         idx'[e] = idx[e], kind'[e] = kind[e], pub'[e] = pub[e], temp'[e] = temp[e],
         arts'[e] = arts[e], outcome'[e] = outcome[e]
  PROVE  Inv(e)'
<1>1. \A k \in Kinds, c \in Cands : Holds(e, <<k, c>>)' <=> Holds(e, <<k, c>>)
  BY DEF FilesSame, Paths
<1>2. phase'[e] \in {"dead", "verify_mtime", "done"}
  OBVIOUS
<1>3. \A c \in Cands : (Done(e, c)' <=> Done(e, c)) /\ ~Current(e, c)'
  BY <1>2 DEF Done, Current, LoopPhases
<1>4. phase[e] \in {"verify_hash", "verify_mtime"} => \A c \in Cands : ~Current(e, c)
  BY DEF Current, LoopPhases
<1>5. Ownership(e)' /\ DoneIsHeld(e)' /\ DoneIsRecorded(e)' /\ NotAhead(e)'
  BY <1>1, <1>2, <1>3, <1>4, OutputFacts
     DEF Inv, Ownership, DoneIsHeld, DoneIsRecorded, NotAhead, EarlyPhases, LoopPhases
<1>6. KindOK(e)' /\ PubOK(e)' /\ TempOK(e)' /\ SidecarFirst(e)' /\ Identity(e)'
  BY <1>2 DEF Inv, KindOK, PubOK, TempOK, SidecarFirst, Identity, EarlyPhases, LoopPhases
<1> QED
  BY <1>5, <1>6 DEF Inv

-----------------------------------------------------------------------------
(* Every step, seen from the execution that takes it and from the others.  *)

LEMMA SameFilesSuffices ==
  ASSUME NEW e \in Execs, fs' = fs PROVE FilesSame(e)
BY DEF FilesSame, Holds

LEMMA OwnStep ==
  ASSUME IInv, TypeInv', NobodyRemoves, NEW e \in Execs, Step(e) \/ Crash(e)
  PROVE  Inv(e)'
<1> DEFINE Kept == /\ idx'[e] = idx[e] /\ kind'[e] = kind[e] /\ pub'[e] = pub[e]
                   /\ temp'[e] = temp[e] /\ arts'[e] = arts[e] /\ outcome'[e] = outcome[e]
<1>1. TypeInv /\ Inv(e)
  BY DEF IInv
<1>2. ASSUME Reject(e), phase[e] \in EarlyPhases PROVE Inv(e)'
  <2>1. phase'[e] = "done" /\ Kept /\ FilesSame(e)
    BY <1>1, <1>2, SameFilesSuffices DEF Reject, Goto, locals, TypeInv, TypeOK
  <2> QED BY <1>1, <1>2, <2>1, EarlyStep
<1>3. ASSUME NEW steps, Finish(e, steps), phase[e] \in {"verify_hash", "verify_mtime"}
      PROVE  Inv(e)'
  <2>1. phase'[e] = "done" /\ Kept /\ FilesSame(e)
    BY <1>1, <1>3, SameFilesSuffices DEF Finish, Goto, locals, TypeInv, TypeOK
  <2> QED BY <1>1, <1>3, <2>1, EndStep
<1>5. CASE Validate(e)
  <2>1. CASE Reject(e)
    BY <1>2, <1>5, <2>1 DEF Validate, EarlyPhases
  <2>2. CASE ~Reject(e)
    <3>1. phase[e] = "validate" /\ phase'[e] = "stat_source" /\ Kept /\ FilesSame(e)
      BY <1>1, <1>5, <2>2, SameFilesSuffices DEF Validate, Goto, locals, TypeInv, TypeOK
    <3> QED BY <1>1, <3>1, EarlyStep DEF EarlyPhases
  <2> QED BY <2>1, <2>2
<1>6. CASE StatSource(e)
  <2>1. /\ phase[e] = "stat_source" /\ phase'[e] \in {"preflight", "verify_hash"}
        /\ Kept /\ FilesSame(e)
    BY <1>1, <1>6, SameFilesSuffices DEF StatSource, StartLoop, Goto, TypeInv, TypeOK
  <2> QED BY <1>1, <2>1, EarlyStep DEF EarlyPhases
<1>7. CASE PreflightFault(e)
  BY <1>2, <1>7 DEF PreflightFault, EarlyPhases
<1>8. CASE PreflightOutput(e)
  <2>1. CASE Reject(e)
    BY <1>2, <1>8, <2>1 DEF PreflightOutput, EarlyPhases
  <2>2. CASE ~Reject(e)
    <3>1. /\ phase[e] = "preflight" /\ phase'[e] \in {"preflight", "render"}
          /\ UNCHANGED <<fs, kind, pub, temp, arts, outcome>>
      BY <1>1, <1>8, <2>2 DEF PreflightOutput, Goto, TypeInv, TypeOK
    <3> QED BY <1>1, <3>1, EarlyStep, SameFilesSuffices DEF EarlyPhases
  <2> QED BY <2>1, <2>2
<1>9. CASE Render(e)
  BY <1>1, <1>9, RenderStep
<1>10. CASE \E o \in Failures : RenderFails(e, o)
  BY <1>1, <1>10, FailStep DEF RenderFails
<1>11. CASE Link(e)
  BY <1>1, <1>11, LinkStep
<1>12. CASE LinkFails(e)
  BY <1>1, <1>12, FailStep DEF LinkFails, Failures
<1>13. CASE StatOutput(e)
  BY <1>1, <1>13, StatStep
<1>14. CASE StatFails(e)
  <2>1. phase[e] = "stat" /\ fs[Path(e)] = NoFile
    BY <1>14 DEF StatFails, NobodyRemoves
  <2>2. Cand(e) \in Cands /\ kind[e] \in Kinds /\ phase[e] \in LoopPhases
    BY <1>1, <2>1, CandInPlan DEF TypeInv, TypeOK, LoopPhases
  <2>3. Holds(e, Path(e))
    BY <1>1, <2>1, <2>2 DEF Inv, Ownership, Current, InHand, Path
  <2> QED BY <2>1, <2>3 DEF Holds
<1>15. CASE Cleanup(e)
  BY <1>1, <1>15, CleanupStep
<1>16. CASE RecordArtifact(e)
  BY <1>1, <1>16, RecordStep
<1>17. CASE RecordFails(e)
  BY <1>1, <1>17, FailStep DEF RecordFails, Failures
<1>18. CASE RollbackStat(e)
  BY <1>1, <1>18, RollbackStatStep
<1>19. CASE RollbackUnlink(e)
  BY <1>1, <1>19, RollbackUnlinkStep
<1>20. CASE VerifyHash(e)
  <2>1. CASE Finish(e, StepsOf(e) \cup {"failed"})
    BY <1>3, <1>20, <2>1 DEF VerifyHash
  <2>2. CASE ~Finish(e, StepsOf(e) \cup {"failed"})
    <3>1. phase[e] = "verify_hash" /\ phase'[e] = "verify_mtime" /\ Kept /\ FilesSame(e)
      BY <1>1, <1>20, <2>2, SameFilesSuffices DEF VerifyHash, Goto, locals, TypeInv, TypeOK
    <3> QED BY <1>1, <3>1, EndStep
  <2> QED BY <2>1, <2>2
<1>21. CASE VerifyMtime(e)
  BY <1>3, <1>21 DEF VerifyMtime
<1>22. CASE Crash(e)
  <2>1. phase'[e] = "dead" /\ Kept /\ FilesSame(e)
    BY <1>1, <1>22, SameFilesSuffices DEF Crash, Goto, locals, TypeInv, TypeOK
  <2> QED BY <1>1, <2>1, EndStep
<1> QED
  BY <1>5, <1>6, <1>7, <1>8, <1>9, <1>10, <1>11, <1>12, <1>13, <1>14, <1>15, <1>16,
     <1>17, <1>18, <1>19, <1>20, <1>21, <1>22 DEF Step

(* What a step of an execution can do to the output root.                  *)
LEMMA FileStep ==
  ASSUME IInv, NEW e \in Execs, Step(e) \/ Crash(e)
  PROVE  \/ fs' = fs
         \/ /\ Path(e) \in Paths /\ fs[Path(e)] = NoFile
            /\ \E f : f.by = e /\ fs' = [fs EXCEPT ![Path(e)] = f]
         \/ /\ Path(e) \in Paths /\ Holds(e, Path(e)) /\ phase[e] = "rollback_unlink"
            /\ fs' = [fs EXCEPT ![Path(e)] = NoFile]
<1>1. TypeInv /\ Inv(e)
  BY DEF IInv
<1>2. ASSUME phase[e] \in LoopPhases PROVE Path(e) \in Paths
  BY <1>1, <1>2, CandInPlan DEF Path, Paths, TypeInv, TypeOK
<1>3. CASE Link(e)
  <2>1. temp[e][kind[e]].by = e
    BY <1>1, <1>3 DEF Link, Inv, TempOK, KindOK
  <2> QED
    BY <1>2, <1>3, <2>1 DEF Link, LoopPhases
<1>4. CASE RollbackUnlink(e)
  BY <1>1, <1>2, <1>4, RollbackUnlinkStep DEF RollbackUnlink, LoopPhases
<1>5. CASE ~Link(e) /\ ~RollbackUnlink(e)
  BY <1>5 DEF Step, Crash, Validate, StatSource, PreflightFault, PreflightOutput, Reject,
     Render, RenderFails, FailCandidate, LinkFails, StatOutput, StatFails, Cleanup,
     RecordArtifact, RecordFails, RollbackStat, VerifyHash, VerifyMtime, Finish
<1> QED
  BY <1>3, <1>4, <1>5

LEMMA OthersStep ==
  ASSUME IInv, NEW e \in Execs, NEW d \in Execs, d # e, Step(e) \/ Crash(e)
  PROVE  Inv(d)'
<1>1. TypeInv /\ Inv(d) /\ fs \in [Paths -> Files \cup {NoFile}]
  BY DEF IInv, TypeInv, TypeOK
<1>2. LocalSame(d)
  BY <1>1, StepIsLocal
<1>3. FilesSame(d)
  <2>1. CASE fs' = fs
    BY <2>1, SameFilesSuffices
  <2>2. CASE /\ Path(e) \in Paths /\ fs[Path(e)] = NoFile
             /\ \E f : f.by = e /\ fs' = [fs EXCEPT ![Path(e)] = f]
    <3>1. PICK f : f.by = e /\ fs' = [fs EXCEPT ![Path(e)] = f]
      BY <2>2
    <3>2. \A p \in Paths : fs'[p] = IF p = Path(e) THEN f ELSE fs[p]
      BY <1>1, <3>1
    <3> QED
      BY <2>2, <3>1, <3>2 DEF FilesSame, Holds
  <2>3. CASE /\ Path(e) \in Paths /\ Holds(e, Path(e))
             /\ fs' = [fs EXCEPT ![Path(e)] = NoFile]
    <3>1. \A p \in Paths : fs'[p] = IF p = Path(e) THEN NoFile ELSE fs[p]
      BY <1>1, <2>3
    <3> QED
      BY <2>3, <3>1 DEF FilesSame, Holds
  <2> QED
    BY <2>1, <2>2, <2>3, FileStep
<1> QED
  BY <1>1, <1>2, <1>3, Undisturbed

LEMMA IInvStep ==
  ASSUME IInv, NobodyRemoves, [Next]_vars
  PROVE  IInv'
<1>1. TypeInv'
  BY TypeStep DEF IInv
<1>2. ASSUME NEW e \in Execs, Step(e) \/ Crash(e), NEW d \in Execs PROVE Inv(d)'
  BY <1>1, <1>2, OwnStep, OthersStep
<1>3. ASSUME NEW d \in Execs, UNCHANGED <<phase, locals>>, FilesSame(d) PROVE Inv(d)'
  BY <1>3, Undisturbed DEF IInv, LocalSame, locals
<1>4. ASSUME NEW p \in Outputs, ForeignCreate(p), NEW d \in Execs PROVE Inv(d)'
  <2>1. PICK i \in FreeInodes :
          fs' = [fs EXCEPT ![p] = [ino |-> i, by |-> Outsider, data |-> "planned"]]
    BY <1>4 DEF ForeignCreate
  <2>2. fs \in [Paths -> Files \cup {NoFile}]
    BY DEF IInv, TypeInv, TypeOK
  <2>3. \A q \in Paths : \/ fs'[q] = fs[q]
                         \/ fs[q] = NoFile /\ fs'[q].by = Outsider
    BY <1>4, <2>1, <2>2 DEF ForeignCreate
  <2>4. FilesSame(d)
    BY <2>3, ConstantTypes DEF FilesSame, Holds
  <2> QED
    BY <1>3, <1>4, <2>4 DEF ForeignCreate
<1>5. ASSUME SourceWrite, NEW d \in Execs PROVE Inv(d)'
  BY <1>3, <1>5, SameFilesSuffices DEF SourceWrite
<1>6. ASSUME UNCHANGED vars, NEW d \in Execs PROVE Inv(d)'
  BY <1>3, <1>6, SameFilesSuffices DEF vars, locals
<1> QED
  BY <1>1, <1>2, <1>4, <1>5, <1>6 DEF IInv, Next, Environment, NobodyRemoves, ForeignRemove

LEMMA IInvInit == Init => IInv
<1> SUFFICES ASSUME Init PROVE IInv
  OBVIOUS
<1>1. TypeInv
  BY DEF Init, TypeInv, TypeOK, PositionOK, LoopPhases, Phases, Kinds, Statuses, Outcomes,
     Data, NothingRendered, NothingPublished
<1>2. ASSUME NEW e \in Execs PROVE Inv(e)
  <2>1. /\ phase[e] = "validate" /\ kind[e] = "clip" /\ \A c \in Cands : ~Done(e, c)
        /\ pub[e] = NothingPublished /\ temp[e] = NothingRendered
        /\ \A p \in Paths : ~Holds(e, p)
    BY DEF Init, Done, Holds
  <2>2. \A k \in Kinds : pub[e][k] = NoInode /\ ~InHand(e, k)
    BY <2>1, NoFileFacts DEF InHand
  <2>3. Ownership(e) /\ DoneIsHeld(e) /\ DoneIsRecorded(e) /\ NotAhead(e)
    BY <2>1, <2>2 DEF Ownership, DoneIsHeld, DoneIsRecorded, NotAhead, LoopPhases, Paths
  <2>4. KindOK(e) /\ PubOK(e) /\ TempOK(e) /\ SidecarFirst(e) /\ Identity(e)
    BY <2>1, <2>2, OutputFacts
       DEF KindOK, PubOK, TempOK, SidecarFirst, Identity, LoopPhases, EarlyPhases, Kinds
  <2> QED BY <2>3, <2>4 DEF Inv
<1> QED BY <1>1, <1>2 DEF IInv

LEMMA Invariance ==
  ASSUME NobodyRemoves
  PROVE  Spec => []IInv
<1>1. Init => IInv
  BY IInvInit
<1>2. IInv /\ [Next]_vars => IInv'
  BY IInvStep
<1> QED
  BY <1>1, <1>2, PTL DEF Spec

-----------------------------------------------------------------------------
(* A completed candidate keeps its outputs and its place in the record,    *)
(* whatever the other executions publish, fail and roll back.              *)
THEOREM CompletedStays ==
  ASSUME NobodyRemoves
  PROVE  Spec => []CompletedIsPublished
<1>1. IInv => CompletedIsPublished
  <2> SUFFICES ASSUME IInv, NEW e \in Execs, NEW k \in OutputKinds(e), NEW c \in Completed(e)
               PROVE  <<k, c>> \in MadeBy(e) \cap arts[e]
    <3>1. ASSUME NEW e \in Execs,
                 \A k \in OutputKinds(e), c \in Completed(e) : <<k, c>> \in MadeBy(e) \cap arts[e]
          PROVE  OutputsOf(e, Completed(e)) \subseteq MadeBy(e) \cap arts[e]
      BY <3>1 DEF OutputsOf
    <3> QED
      BY <3>1 DEF CompletedIsPublished
  <2>1. c \in Cands /\ Done(e, c) /\ <<k, c>> \in Paths
    BY OutputFacts DEF Completed, Done, Paths
  <2> QED
    BY <2>1 DEF IInv, Inv, DoneIsHeld, DoneIsRecorded, MadeBy, Holds
<1> QED
  BY <1>1, Invariance, PTL

LEMMA OwnedAtTheEnd == IInv => NoOrphans
<1> SUFFICES ASSUME IInv, NEW e \in Execs, phase[e] = "done"
             PROVE  MadeBy(e) = OutputsOf(e, Completed(e)) /\ temp[e] = NothingRendered
  BY DEF NoOrphans
<1>1. Inv(e) /\ ~\E c \in Cands : Current(e, c)
  BY DEF IInv, Current, LoopPhases
<1>2. \A k \in Kinds, c \in Cands : Holds(e, <<k, c>>) <=> k \in OutputKinds(e) /\ Done(e, c)
  BY <1>1 DEF Inv, Ownership
<1>3. MadeBy(e) = OutputsOf(e, Completed(e))
  BY <1>2, OutputFacts DEF MadeBy, OutputsOf, Completed, Holds, Done, Paths
<1> QED
  BY <1>1, <1>3 DEF Inv, TempOK

(* A record returned means that nothing of a failed candidate is left.     *)
THEOREM NothingLeftBehind ==
  ASSUME NobodyRemoves
  PROVE  Spec => []NoOrphans
BY OwnedAtTheEnd, Invariance, PTL

(* No step of the system overwrites a file at an output path, and none but *)
(* the rollback of the execution that made it removes it.                  *)
THEOREM NoTakeover ==
  ASSUME NobodyRemoves
  PROVE  Spec => OnlyTheCreatorRemoves
<1> DEFINE Kept == \A p \in Paths : fs[p] # NoFile =>
             \/ fs'[p] = fs[p]
             \/ fs'[p] = NoFile /\ fs[p].by \in Execs /\ RollsBack(fs[p].by, p)
<1>1. ASSUME IInv, [Next]_vars PROVE Kept
  <2>0. fs \in [Paths -> Files \cup {NoFile}]
    BY <1>1 DEF IInv, TypeInv, TypeOK
  <2>1. ASSUME NEW e \in Execs, Step(e) \/ Crash(e) PROVE Kept
    BY <1>1, <2>0, <2>1, FileStep DEF Holds, RollsBack
  <2>2. ASSUME NEW q \in Outputs, ForeignCreate(q) PROVE Kept
    BY <2>0, <2>2 DEF ForeignCreate
  <2>3. CASE fs' = fs
    BY <2>3
  <2> QED
    BY <1>1, <2>1, <2>2, <2>3
       DEF Next, Environment, NobodyRemoves, ForeignRemove, SourceWrite, vars
<1> QED
  BY <1>1, Invariance, PTL DEF Spec, OnlyTheCreatorRemoves

-----------------------------------------------------------------------------
(* What an execution reports.                                              *)

(* A published file that is there can be hashed for the record.            *)
HashesSucceed == "hash" \notin Faults

-----------------------------------------------------------------------------
(* The record and the status of an execution.                              *)

(* The artifacts are those of the completed candidates; while the current  *)
(* one is recorded, its sidecar comes first.                               *)
SidecarListed(e, k, c) ==
  phase[e] = "record" /\ kind[e] = "clip" /\ Sidecar[e] /\ k = "sub" /\ c = Cand(e)
Listed(e) ==
  \A k \in Kinds, c \in Cands : phase[e] # "dead" =>
    (<<k, c>> \in arts[e] <=> (k \in OutputKinds(e) /\ Done(e, c)) \/ SidecarListed(e, k, c))

(* Every candidate before the position has an outcome, no other has.       *)
Tried(e, c) == outcome[e][c] # "none"
Attempts(e) ==
  /\ \A c \in Cands : Tried(e, c) => c \in Planned(e)
  /\ phase[e] \in EarlyPhases => \A c \in Cands : ~Tried(e, c)
  /\ phase[e] \in LoopPhases => \A j \in 1..(idx[e] - 1) : Tried(e, PlanOf[e][j])
  /\ RollingBack(e) => Tried(e, Cand(e))
  /\ phase[e] = "abort" => Tried(e, Cand(e))
  /\ phase[e] \in {"verify_hash", "verify_mtime"} => \A c \in Planned(e) : Tried(e, c)

StatusOK(e) ==
  /\ phase[e] # "done" => status[e] = "none"
  /\ status[e] = "success" => Completed(e) = Planned(e)
  /\ status[e] = "partial" => Completed(e) # {}
  /\ status[e] \in Failures => Completed(e) = {}

Report(e) == Listed(e) /\ Attempts(e) /\ StatusOK(e)
RInv == IInv /\ \A e \in Execs : Report(e)

-----------------------------------------------------------------------------
(* The source of a success, and the conflict a preflight finds.            *)

(* An execution has nothing on disk before its loop.                       *)
FromTemp(e) ==
  /\ \A k \in Kinds : temp[e][k].by \in {e, Outsider}
  /\ phase[e] \in EarlyPhases => temp[e] = NothingRendered /\ \A p \in Paths : ~Holds(e, p)

(* As long as the mtime is the one of the beginning, what was cut since    *)
(* has the bytes the source has now.                                       *)
CutFrom(e) ==
  /\ mtime0[e] <= src.mtime
  /\ phase[e] \notin EarlyPhases \cup {"done", "dead"} /\ src.mtime = mtime0[e] =>
       /\ \A k \in Kinds : temp[e][k].data \in {src.data, "planned"}
       /\ \A p \in Paths : Holds(e, p) => fs[p].data \in {src.data, "planned"}
       /\ phase[e] = "verify_mtime" => src.data = "planned"
SuccessOK(e) ==
  /\ phase[e] # "done" => status[e] = "none"
  /\ status[e] = "success" => \A p \in Paths : Holds(e, p) => fs[p].data = "planned"

Source(e) == FromTemp(e) /\ CutFrom(e) /\ SuccessOK(e)
SInv == TypeInv /\ \A e \in Execs : Source(e)

(* The preflight has not passed the candidate of the conflict.             *)
Stopped(e, p) ==
  /\ fs[p] # NoFile
  /\ phase[e] \in EarlyPhases \cup {"done", "dead"}
  /\ phase[e] = "preflight" => \A j \in 1..Len(PlanOf[e]) : PlanOf[e][j] = p[2] => idx[e] <= j
  /\ \A q \in Paths : ~Holds(e, q)

-----------------------------------------------------------------------------
(* How the steps of an execution change its report.                        *)

LEMMA ReportUndisturbed ==
  ASSUME TypeInv, NEW e \in Execs, Report(e), LocalSame(e), status'[e] = status[e]
  PROVE  Report(e)'
<1>1. /\ Cand(e)' = Cand(e) /\ RollingBack(e)' = RollingBack(e) /\ Completed(e)' = Completed(e)
      /\ \A k \in Kinds, c \in Cands : SidecarListed(e, k, c)' <=> SidecarListed(e, k, c)
      /\ \A c \in Cands : (Done(e, c)' <=> Done(e, c)) /\ (Tried(e, c)' <=> Tried(e, c))
  BY DEF LocalSame, Cand, RollingBack, Completed, SidecarListed, Done, Tried
<1>2. Listed(e)'
  BY <1>1 DEF Report, Listed, LocalSame
<1>3. Attempts(e)'
  BY <1>1 DEF Report, Attempts, LocalSame, Tried, RollingBack, Planned, Cand
<1>4. StatusOK(e)'
  BY <1>1 DEF Report, StatusOK, LocalSame
<1> QED
  BY <1>2, <1>3, <1>4 DEF Report

(* Before the loop: no candidate was tried, no artifact listed.            *)
LEMMA ReportEarly ==
  ASSUME TypeInv, NEW e \in Execs, Report(e), phase[e] \in EarlyPhases,
         \/ phase'[e] \in EarlyPhases
         \/ phase'[e] = "render" /\ idx'[e] = 1
         \/ phase'[e] = "verify_hash" /\ PlanOf[e] = <<>>
         \/ phase'[e] = "done",
         arts'[e] = arts[e], outcome'[e] = outcome[e],
         phase'[e] # "done" => status'[e] = status[e],
         phase'[e] = "done" => status'[e] = "failed"
  PROVE  Report(e)'
<1>1. \A c \in Cands : ~Tried(e, c) /\ ~Tried(e, c)' /\ ~Done(e, c) /\ ~Done(e, c)'
  BY DEF Report, Attempts, Tried, Done
<1>2. Listed(e)'
  BY <1>1 DEF Report, Listed, SidecarListed, EarlyPhases
<1>3. Attempts(e)'
  BY <1>1 DEF Attempts, RollingBack, EarlyPhases, LoopPhases, Planned
<1>4. Completed(e)' = {}
  BY <1>1 DEF Completed, Done
<1>5. StatusOK(e)'
  BY <1>4 DEF Report, StatusOK, EarlyPhases, Failures
<1> QED
  BY <1>2, <1>3, <1>5 DEF Report

(* The current candidate goes on, or gets its failed step.                 *)
LEMMA SamePosition ==
  ASSUME TypeInv, NEW e \in Execs, Inv(e), Report(e),
         phase[e] \in LoopPhases \ {"record"}, phase'[e] \in LoopPhases,
         phase'[e] = "record" => (Sidecar[e] => kind'[e] = "sub"),
         idx'[e] = idx[e], arts'[e] = arts[e], status'[e] = status[e],
         \/ \E o \in Failures : outcome' = [outcome EXCEPT ![e][Cand(e)] = o]
         \/ /\ outcome'[e] = outcome[e]
            /\ phase'[e] \in {"abort", "rollback_stat", "rollback_unlink"} =>
                 phase[e] \in {"abort", "rollback_stat", "rollback_unlink"}
  PROVE  Report(e)'
<1>1. Cand(e) \in Cands /\ ~Done(e, Cand(e)) /\ Cand(e)' = Cand(e) /\ Cand(e) \in Planned(e)
  BY CurrentIsNotDone DEF Inv, Cand, Planned
<1>2. \A c \in Cands : (Done(e, c)' <=> Done(e, c)) /\ (Tried(e, c) => Tried(e, c)')
                       /\ (Tried(e, c)' => Tried(e, c) \/ c = Cand(e))
  BY <1>1 DEF Done, Tried, Failures, TypeInv, TypeOK
<1>3. \A k \in Kinds, c \in Cands : ~SidecarListed(e, k, c) /\ ~SidecarListed(e, k, c)'
  BY DEF SidecarListed
<1>4. Listed(e)'
  BY <1>2, <1>3 DEF Report, Listed, LoopPhases
<1>5. RollingBack(e)' \/ phase'[e] = "abort" => Tried(e, Cand(e))'
  <2>1. CASE \E o \in Failures : outcome' = [outcome EXCEPT ![e][Cand(e)] = o]
    BY <1>1, <2>1 DEF Tried, Failures, TypeInv, TypeOK
  <2>2. CASE outcome'[e] = outcome[e] /\ (RollingBack(e) \/ phase[e] = "abort")
    BY <1>1, <1>2, <2>2 DEF Report, Attempts, RollingBack
  <2> QED
    BY <2>1, <2>2 DEF RollingBack
<1>6. \A j \in 1..(idx[e] - 1) : PlanOf[e][j] \in Cands
  BY CurrentIsNotDone, PlansAreInjective DEF Inv, TypeInv, TypeOK
<1>7. Attempts(e)'
  BY <1>1, <1>2, <1>5, <1>6 DEF Report, Attempts, EarlyPhases, LoopPhases
<1>8. StatusOK(e)'
  BY DEF Report, StatusOK, LoopPhases, Failures
<1> QED
  BY <1>4, <1>7, <1>8 DEF Report

(* The position moves on once the current candidate has an outcome.        *)
LEMMA NextPosition ==
  ASSUME TypeInv, NEW e \in Execs, Inv(e), Report(e), phase[e] \in LoopPhases,
         idx'[e] = idx[e] + 1, phase'[e] = AfterCandidate(e), status'[e] = status[e],
         \A c \in Cands \ {Cand(e)} : Tried(e, c)' <=> Tried(e, c),
         outcome'[e][Cand(e)] # "none"
  PROVE  Attempts(e)' /\ StatusOK(e)'
<1>1. Cand(e) \in Planned(e) /\ idx[e] \in 1..Len(PlanOf[e]) /\ Len(PlanOf[e]) \in Nat
  BY CurrentIsNotDone, PlanLength DEF Inv, Cand, Planned
<1>2. phase'[e] = IF idx[e] < Len(PlanOf[e]) THEN "render" ELSE "verify_hash"
  BY DEF AfterCandidate
<1>3. \A j \in 1..Len(PlanOf[e]) : PlanOf[e][j] \in Cands
  BY PlansAreInjective
<1>4. \A c \in Cands : Tried(e, c) => Tried(e, c)'
  BY DEF Tried
<1>5. \A j \in 1..idx[e] : Tried(e, PlanOf[e][j])'
  <2> SUFFICES ASSUME NEW j \in 1..idx[e] PROVE Tried(e, PlanOf[e][j])'
    OBVIOUS
  <2>1. CASE j = idx[e]
    BY <2>1 DEF Cand, Tried
  <2>2. CASE j # idx[e]
    <3>1. j \in 1..(idx[e] - 1) /\ j \in 1..Len(PlanOf[e])
      BY <1>1, <2>2
    <3>2. Tried(e, PlanOf[e][j])
      BY <3>1 DEF Report, Attempts
    <3> QED
      BY <1>3, <1>4, <3>1, <3>2
  <2> QED BY <2>1, <2>2
<1>6. Attempts(e)'
  <2>1. \A c \in Cands : Tried(e, c)' => c \in Planned(e)
    BY <1>1 DEF Report, Attempts
  <2>2. phase'[e] \in LoopPhases => \A j \in 1..(idx'[e] - 1) : Tried(e, PlanOf[e][j])'
    BY <1>1, <1>5
  <2>3. phase'[e] = "verify_hash" => \A c \in Planned(e) : Tried(e, c)'
    BY <1>1, <1>2, <1>5 DEF Planned
  <2> QED
    BY <1>2, <2>1, <2>2, <2>3 DEF Attempts, RollingBack, EarlyPhases, Tried
<1>7. StatusOK(e)'
  BY <1>2 DEF Report, StatusOK, LoopPhases, Failures
<1> QED
  BY <1>6, <1>7

(* The artifacts of a candidate are listed one by one, and with the clip's *)
(* the candidate is completed.                                             *)
LEMMA ReportRecord ==
  ASSUME TypeInv, NEW e \in Execs, Inv(e), Report(e), RecordArtifact(e)
  PROVE  Report(e)'
<1> USE DEF TypeInv, TypeOK
<1>1. /\ phase[e] = "record" /\ phase[e] \in LoopPhases /\ kind'[e] = "clip"
      /\ arts'[e] = arts[e] \cup {Path(e)} /\ UNCHANGED status
  BY DEF RecordArtifact, LoopPhases
<1>2. /\ Cand(e) \in Cands /\ ~Done(e, Cand(e)) /\ kind[e] \in OutputKinds(e)
      /\ OutputKinds(e) \subseteq Kinds
  BY <1>1, CurrentIsNotDone, OutputFacts DEF Inv, KindOK
<1>3. CASE kind[e] = "sub"
  <2>1. UNCHANGED <<outcome, idx, phase>> /\ Sidecar[e]
    BY <1>2, <1>3 DEF RecordArtifact, OutputKinds
  <2>2. \A c \in Cands : Done(e, c)' <=> Done(e, c)
    BY <2>1 DEF Done
  <2>3. \A k \in Kinds, c \in Cands :
          ~SidecarListed(e, k, c) /\ (SidecarListed(e, k, c)' <=> <<k, c>> = Path(e))
    BY <1>1, <1>3, <2>1 DEF SidecarListed, Path, Cand
  <2>4. Listed(e)'
    BY <1>1, <2>1, <2>2, <2>3 DEF Report, Listed
  <2>5. Attempts(e)' /\ StatusOK(e)'
    BY <1>1, <2>1 DEF Report, Attempts, StatusOK, Tried, RollingBack, Completed, Planned, Cand
  <2> QED
    BY <2>4, <2>5 DEF Report
<1>4. CASE kind[e] = "clip"
  <2>1. /\ outcome' = [outcome EXCEPT ![e][Cand(e)] = "completed"]
        /\ idx' = [idx EXCEPT ![e] = @ + 1]
        /\ phase' = [phase EXCEPT ![e] = AfterCandidate(e)]
    BY <1>4 DEF RecordArtifact, Goto
  <2>2. idx'[e] = idx[e] + 1 /\ phase'[e] = AfterCandidate(e) /\ phase'[e] # "record"
    BY <2>1 DEF AfterCandidate
  <2>3. /\ \A c \in Cands : Done(e, c)' <=> Done(e, c) \/ c = Cand(e)
        /\ \A c \in Cands \ {Cand(e)} : Tried(e, c)' <=> Tried(e, c)
        /\ outcome'[e][Cand(e)] # "none"
    BY <1>2, <2>1 DEF Done, Tried
  <2>4. Attempts(e)' /\ StatusOK(e)'
    BY <1>1, <2>2, <2>3, NextPosition
  <2>5. \A k \in Kinds, c \in Cands : k \in OutputKinds(e) /\ c = Cand(e) <=>
          <<k, c>> = Path(e) \/ SidecarListed(e, k, c)
    BY <1>1, <1>2, <1>4 DEF SidecarListed, Path, OutputKinds, Kinds
  <2>6. \A k \in Kinds, c \in Cands : ~SidecarListed(e, k, c)'
    BY <2>2 DEF SidecarListed
  <2>7. Listed(e)'
    BY <1>1, <2>3, <2>5, <2>6 DEF Report, Listed
  <2> QED
    BY <2>4, <2>7 DEF Report
<1> QED
  BY <1>3, <1>4 DEF Kinds

(* The rollback lists nothing; after it the loop goes on.                  *)
LEMMA ReportRollback ==
  ASSUME TypeInv, NEW e \in Execs, Inv(e), Report(e), RollingBack(e),
         NextRollback(e), UNCHANGED <<arts, outcome, status>>
  PROVE  Report(e)'
<1> USE DEF TypeInv, TypeOK
<1>1. phase[e] \in {"rollback_stat", "rollback_unlink"} /\ phase[e] \in LoopPhases
  BY DEF RollingBack, LoopPhases
<1>2. CASE kind[e] = LastKind(e)
  <2>1. /\ idx' = [idx EXCEPT ![e] = @ + 1]
        /\ phase' = [phase EXCEPT ![e] = AfterCandidate(e)]
    BY <1>2 DEF NextRollback, Goto
  <2>2. idx'[e] = idx[e] + 1 /\ phase'[e] = AfterCandidate(e) /\ phase'[e] # "record"
    BY <2>1 DEF AfterCandidate
  <2>3. /\ \A c \in Cands : (Tried(e, c)' <=> Tried(e, c)) /\ (Done(e, c)' <=> Done(e, c))
        /\ outcome'[e][Cand(e)] # "none"
    BY DEF Tried, Done, Report, Attempts
  <2>4. Attempts(e)' /\ StatusOK(e)'
    BY <1>1, <2>2, <2>3, NextPosition
  <2>5. Listed(e)'
    BY <1>1, <2>2, <2>3 DEF Report, Listed, SidecarListed
  <2> QED
    BY <2>4, <2>5 DEF Report
<1>3. CASE kind[e] # LastKind(e)
  <2>1. phase'[e] = "rollback_stat" /\ UNCHANGED idx
    BY <1>3 DEF NextRollback, Goto
  <2> QED
    BY <1>1, <2>1, SamePosition DEF LoopPhases
<1> QED
  BY <1>2, <1>3

(* The status is that of the outcomes of a plan tried to its end.          *)
LEMMA ReportFinish ==
  ASSUME TypeInv, NEW e \in Execs, Report(e), NEW steps, Finish(e, steps),
         phase[e] \in {"verify_hash", "verify_mtime"}, StepsOf(e) \subseteq steps
  PROVE  Report(e)'
<1> USE DEF TypeInv, TypeOK
<1>1. /\ phase'[e] = "done" /\ status'[e] = FinalStatus(steps, arts[e])
      /\ arts'[e] = arts[e] /\ outcome'[e] = outcome[e]
  BY DEF Finish, Goto, locals
<1>2. Listed(e)'
  <2>1. \A k \in Kinds, c \in Cands :
          (Done(e, c)' <=> Done(e, c)) /\ ~SidecarListed(e, k, c) /\ ~SidecarListed(e, k, c)'
    BY <1>1 DEF Done, SidecarListed
  <2> QED
    BY <1>1, <2>1 DEF Report, Listed
<1>3. Attempts(e)'
  BY <1>1 DEF Report, Attempts, Tried, RollingBack, EarlyPhases, LoopPhases
<1>4. Completed(e)' = Completed(e) /\ Completed(e) \subseteq Planned(e)
  BY <1>1 DEF Completed, Report, Attempts, Tried
<1>5. ASSUME steps \cap Failures = {} PROVE Completed(e) = Planned(e)
  <2>1. ASSUME NEW c \in Planned(e) PROVE c \in Completed(e)
    <3>1. c \in Cands /\ Tried(e, c)
      BY PlansAreInjective DEF Report, Attempts, Planned
    <3>2. outcome[e][c] \in Outcomes /\ outcome[e][c] \in steps
      BY <3>1 DEF StepsOf
    <3> QED
      BY <1>5, <3>1, <3>2 DEF Outcomes, Tried, Completed
  <2> QED
    BY <1>4, <2>1
<1>6. arts[e] = {} <=> Completed(e) = {}
  <2>1. ASSUME NEW c \in Completed(e) PROVE <<"clip", c>> \in arts[e]
    BY OutputFacts DEF Completed, Done, Report, Listed, Kinds
  <2>2. ASSUME NEW p \in arts[e] PROVE Completed(e) # {}
    <3>1. PICK k \in Kinds, c \in Cands : p = <<k, c>>
      BY <2>2 DEF Paths
    <3>2. Done(e, c)
      BY <2>2, <3>1 DEF Report, Listed, SidecarListed
    <3> QED
      BY <3>2 DEF Done, Completed
  <2> QED
    BY <2>1, <2>2
<1>7. StatusOK(e)'
  <2>1. status'[e] = "success" => Completed(e) = Planned(e)
    <3> SUFFICES ASSUME status'[e] = "success" PROVE steps \cap Failures = {}
      BY <1>5
    <3> QED
      BY <1>1 DEF FinalStatus, Failures
  <2>2. status'[e] = "partial" => arts[e] # {}
    BY <1>1 DEF FinalStatus
  <2>3. status'[e] \in Failures => arts[e] = {}
    BY <1>1 DEF FinalStatus, Failures
  <2> QED
    BY <1>1, <1>4, <1>6, <2>1, <2>2, <2>3 DEF StatusOK, Planned
<1> QED
  BY <1>2, <1>3, <1>7 DEF Report

LEMMA OwnReport ==
  ASSUME RInv, TypeInv', NobodyRemoves, HashesSucceed, NEW e \in Execs, Step(e) \/ Crash(e)
  PROVE  Report(e)'
<1>1. TypeInv /\ Inv(e) /\ Report(e)
  BY DEF RInv, IInv
<1> USE DEF Goto, locals
<1>2. ASSUME Reject(e), phase[e] \in EarlyPhases PROVE Report(e)'
  BY <1>1, <1>2, ReportEarly DEF Reject, TypeInv, TypeOK
<1>3. ASSUME NEW o \in Failures, NEW ph \in {"abort", "rollback_stat"},
             FailCandidate(e, o, ph), phase[e] \in LoopPhases \ {"record"}
      PROVE  Report(e)'
  BY <1>1, <1>3, SamePosition DEF FailCandidate, LoopPhases, TypeInv, TypeOK
<1>4. phase[e] \in {"stat", "record"} => fs[Path(e)] # NoFile
  <2> SUFFICES ASSUME phase[e] \in {"stat", "record"} PROVE Holds(e, Path(e))
    BY DEF Holds
  <2>1. Cand(e) \in Cands /\ kind[e] \in OutputKinds(e) /\ OutputKinds(e) \subseteq Kinds
    BY <1>1, CurrentIsNotDone, OutputFacts DEF Inv, KindOK, LoopPhases
  <2>2. InHand(e, kind[e])
    BY <1>1, <2>1 DEF Inv, PubOK, InHand, RollingBack
  <2> QED
    BY <1>1, <2>1, <2>2 DEF Inv, Ownership, Current, Path, LoopPhases
<1>5. CASE Validate(e)
  BY <1>1, <1>2, <1>5, ReportEarly DEF Validate, EarlyPhases, TypeInv, TypeOK
<1>6. CASE StatSource(e)
  BY <1>1, <1>6, ReportEarly DEF StatSource, StartLoop, EarlyPhases, TypeInv, TypeOK
<1>7. CASE PreflightFault(e)
  BY <1>2, <1>7 DEF PreflightFault, EarlyPhases
<1>8. CASE PreflightOutput(e)
  <2>1. CASE Reject(e)
    BY <1>2, <1>8, <2>1 DEF PreflightOutput, EarlyPhases
  <2>2. CASE ~Reject(e)
    <3>1. /\ phase[e] = "preflight" /\ UNCHANGED <<arts, outcome, status>>
          /\ phase'[e] = "preflight" \/ (phase'[e] = "render" /\ idx'[e] = 1)
      BY <1>1, <1>8, <2>2 DEF PreflightOutput, TypeInv, TypeOK
    <3> QED
      BY <1>1, <3>1, ReportEarly DEF EarlyPhases
  <2> QED BY <2>1, <2>2
<1>9. CASE Render(e)
  BY <1>1, <1>9, SamePosition DEF Render, LoopPhases, TypeInv, TypeOK
<1>10. CASE \E o \in Failures : RenderFails(e, o)
  BY <1>3, <1>10 DEF RenderFails, LoopPhases
<1>11. CASE Link(e)
  BY <1>1, <1>11, SamePosition DEF Link, LoopPhases, TypeInv, TypeOK
<1>12. CASE LinkFails(e)
  BY <1>3, <1>12 DEF LinkFails, LoopPhases, Failures
<1>13. CASE StatOutput(e)
  BY <1>1, <1>13, SamePosition DEF StatOutput, LoopPhases, TypeInv, TypeOK
<1>14. CASE StatFails(e)
  BY <1>4, <1>14 DEF StatFails, NobodyRemoves
<1>15. CASE Cleanup(e)
  <2>1. phase[e] = "cleanup" => (Sidecar[e] => kind[e] = "sub")
    BY <1>1 DEF Inv, KindOK, LastKind
  <2> QED
    BY <1>1, <1>15, <2>1, SamePosition DEF Cleanup, LoopPhases, TypeInv, TypeOK
<1>16. CASE RecordArtifact(e)
  BY <1>1, <1>16, ReportRecord
<1>17. CASE RecordFails(e)
  BY <1>4, <1>17 DEF RecordFails, HashesSucceed
<1>18. CASE RollbackStat(e)
  <2>1. CASE NextRollback(e)
    BY <1>1, <1>18, <2>1, ReportRollback DEF RollbackStat, RollingBack
  <2>2. CASE ~NextRollback(e)
    BY <1>1, <1>18, <2>2, SamePosition DEF RollbackStat, LoopPhases, TypeInv, TypeOK
  <2> QED BY <2>1, <2>2
<1>19. CASE RollbackUnlink(e)
  BY <1>1, <1>19, ReportRollback DEF RollbackUnlink, RollingBack
<1>20. CASE VerifyHash(e)
  <2>1. CASE Finish(e, StepsOf(e) \cup {"failed"})
    BY <1>1, <1>20, <2>1, ReportFinish DEF VerifyHash
  <2>2. CASE ~Finish(e, StepsOf(e) \cup {"failed"})
    <3>1. /\ phase[e] = "verify_hash" /\ phase'[e] = "verify_mtime"
          /\ UNCHANGED <<arts, outcome, status>>
      BY <1>1, <1>20, <2>2 DEF VerifyHash, TypeInv, TypeOK
    <3>2. /\ \A k \in Kinds, c \in Cands : ~SidecarListed(e, k, c) /\ ~SidecarListed(e, k, c)'
          /\ \A c \in Cands : (Done(e, c)' <=> Done(e, c)) /\ (Tried(e, c)' <=> Tried(e, c))
          /\ ~RollingBack(e)' /\ \A c \in Planned(e) : c \in Cands
      BY <3>1, PlansAreInjective DEF SidecarListed, Done, Tried, RollingBack, Planned
    <3> QED
      BY <1>1, <3>1, <3>2
         DEF Report, Listed, Attempts, StatusOK, EarlyPhases, LoopPhases, Failures, Planned
  <2> QED BY <2>1, <2>2
<1>21. CASE VerifyMtime(e)
  BY <1>1, <1>21, ReportFinish DEF VerifyMtime
<1>22. CASE Crash(e)
  <2>1. /\ phase[e] # "done" /\ phase'[e] = "dead" /\ UNCHANGED <<arts, outcome, status>>
    BY <1>1, <1>22 DEF Crash, TypeInv, TypeOK
  <2> QED
    BY <1>1, <2>1 DEF Report, Listed, Attempts, StatusOK, Tried, RollingBack, EarlyPhases,
       LoopPhases, Failures
<1> QED
  BY <1>5, <1>6, <1>7, <1>8, <1>9, <1>10, <1>11, <1>12, <1>13, <1>14, <1>15, <1>16,
     <1>17, <1>18, <1>19, <1>20, <1>21, <1>22 DEF Step

(* Only its own end gives an execution a status.                           *)
LEMMA StatusIsLocal ==
  ASSUME TypeInv, NEW e \in Execs, NEW d \in Execs, d # e, Step(e) \/ Crash(e)
  PROVE  status'[d] = status[d]
<1>1. \/ UNCHANGED status
      \/ \E s : status' = [status EXCEPT ![e] = s]
  BY DEF Step, Crash, Validate, StatSource, PreflightFault, PreflightOutput, Reject, Render,
     RenderFails, FailCandidate, Link, LinkFails, StatOutput, StatFails, Cleanup,
     RecordArtifact, RecordFails, RollbackStat, RollbackUnlink, VerifyHash, VerifyMtime, Finish
<1> QED
  BY <1>1 DEF TypeInv, TypeOK

LEMMA RInvStep ==
  ASSUME RInv, NobodyRemoves, HashesSucceed, [Next]_vars
  PROVE  RInv'
<1>1. TypeInv /\ IInv' /\ TypeInv'
  BY IInvStep DEF RInv, IInv
<1>2. ASSUME NEW e \in Execs, Step(e) \/ Crash(e), NEW d \in Execs PROVE Report(d)'
  BY <1>1, <1>2, OwnReport, ReportUndisturbed, StepIsLocal, StatusIsLocal DEF RInv
<1>3. ASSUME UNCHANGED <<phase, locals, status>>, NEW d \in Execs PROVE Report(d)'
  BY <1>1, <1>3, ReportUndisturbed DEF RInv, LocalSame, locals
<1> QED
  BY <1>1, <1>2, <1>3
     DEF RInv, Next, Environment, ForeignCreate, ForeignRemove, SourceWrite, vars, locals

LEMMA RInvInit == Init => RInv
<1> SUFFICES ASSUME Init, NEW e \in Execs PROVE Report(e)
  BY IInvInit DEF RInv
<1>1. /\ phase[e] = "validate" /\ arts[e] = {} /\ status[e] = "none"
      /\ \A c \in Cands : ~Tried(e, c) /\ ~Done(e, c)
  BY DEF Init, Tried, Done
<1> QED
  BY <1>1 DEF Report, Listed, SidecarListed, Attempts, StatusOK, RollingBack, EarlyPhases,
     LoopPhases, Failures

LEMMA RecordInvariance ==
  ASSUME NobodyRemoves, HashesSucceed
  PROVE  Spec => []RInv
<1>1. Init => RInv
  BY RInvInit
<1>2. RInv /\ [Next]_vars => RInv'
  BY RInvStep
<1> QED
  BY <1>1, <1>2, PTL DEF Spec

LEMMA ListedAtTheEnd == RInv => RecordTruthful
<1> SUFFICES ASSUME RInv, NEW e \in Execs, phase[e] = "done"
             PROVE  arts[e] = OutputsOf(e, Completed(e))
  BY DEF RecordTruthful
<1>1. \A k \in Kinds, c \in Cands :
        <<k, c>> \in arts[e] <=> k \in OutputKinds(e) /\ Done(e, c)
  BY DEF RInv, Report, Listed, SidecarListed
<1>2. arts[e] \subseteq Paths
  BY DEF RInv, IInv, TypeInv, TypeOK
<1> QED
  BY <1>1, <1>2, OutputFacts DEF OutputsOf, Completed, Done, Paths

(* A record returned lists the outputs of the completed candidates, no     *)
(* more and no less, whatever happened to the others.                      *)
THEOREM RecordIsTrue ==
  ASSUME NobodyRemoves, HashesSucceed
  PROVE  Spec => []RecordTruthful
BY ListedAtTheEnd, RecordInvariance, PTL

(* The status of a record says what happened to the candidates: all of     *)
(* them completed, some did, or none.                                      *)
THEOREM StatusIsTrue ==
  ASSUME NobodyRemoves, HashesSucceed
  PROVE  Spec => []StatusTruthful
<1>1. RInv => StatusTruthful
  BY DEF RInv, Report, StatusOK, StatusTruthful
<1> QED
  BY <1>1, RecordInvariance, PTL

-----------------------------------------------------------------------------
(* The executions implement OutputLedger.                                  *)

Owner == [p \in Paths |-> IF fs[p] = NoFile THEN Nobody ELSE fs[p].by]
Open == {e \in Execs : phase[e] \notin {"done", "dead"}}
Records == [e \in Execs |-> IF phase[e] = "done" THEN {arts[e]} ELSE {}]
Bundle == [e \in Execs |-> {OutputsOf(e, {c}) : c \in Planned(e)}]

LEMMA OwnerIsMaker ==
  ASSUME NEW e \in Execs
  PROVE  {p \in Paths : Owner[p] = e} = MadeBy(e)
BY ConstantTypes DEF Owner, MadeBy

(* What a step leaves as it was in the ledger.                             *)
LEMMA LedgerFrame ==
  ASSUME TypeInv, NEW e \in Execs, Step(e) \/ Crash(e)
  PROVE  /\ phase[e] \notin {"done", "dead"}
         /\ \A d \in Execs \ {e} : phase'[d] = phase[d] /\ arts'[d] = arts[d]
         /\ phase'[e] = "dead" => Crash(e)
         /\ ~Link(e) /\ ~RollbackUnlink(e) => fs' = fs
         /\ Link(e) \/ RollbackUnlink(e) => phase'[e] \notin {"done", "dead"}
<1> USE DEF TypeInv, TypeOK, Goto, locals
<1>1. phase[e] \notin {"done", "dead"}
  BY DEF Step, Crash, Validate, StatSource, PreflightFault, PreflightOutput, Render,
     RenderFails, Link, LinkFails, StatOutput, StatFails, Cleanup, RecordArtifact,
     RecordFails, RollbackStat, RollbackUnlink, VerifyHash, VerifyMtime
<1>2. \A d \in Execs \ {e} : phase'[d] = phase[d] /\ arts'[d] = arts[d]
  BY StepIsLocal DEF LocalSame
<1>3. ~Crash(e) => phase'[e] # "dead"
  <2>1. NextRollback(e) /\ phase[e] # "dead" => phase'[e] # "dead"
    BY DEF NextRollback, AfterCandidate
  <2>2. ASSUME NEW o, NEW ph, ph # "dead", FailCandidate(e, o, ph) PROVE phase'[e] # "dead"
    BY <2>2 DEF FailCandidate
  <2> QED
    BY <1>1, <2>1, <2>2
       DEF Step, Validate, StatSource, StartLoop, PreflightFault, PreflightOutput, Reject,
           Render, RenderFails, Link, LinkFails, StatOutput, StatFails, Cleanup,
           RecordArtifact, AfterCandidate, RecordFails, RollbackStat, RollbackUnlink,
           VerifyHash, VerifyMtime, Finish
<1>4. ~Link(e) /\ ~RollbackUnlink(e) => fs' = fs
  BY DEF Step, Crash, Validate, StatSource, PreflightFault, PreflightOutput, Reject,
     Render, RenderFails, FailCandidate, LinkFails, StatOutput, StatFails, Cleanup,
     RecordArtifact, RecordFails, RollbackStat, VerifyHash, VerifyMtime, Finish
<1>5. Link(e) \/ RollbackUnlink(e) => phase'[e] \notin {"done", "dead"}
  BY DEF Link, RollbackUnlink, NextRollback, AfterCandidate
<1> QED
  BY <1>1, <1>2, <1>3, <1>4, <1>5

(* A step that publishes claims the path, a rollback releases it, the end  *)
(* of an execution closes it with the record of what it owns.              *)
LEMMA StepKeepsLedger ==
  ASSUME RInv, NoOrphans', RecordTruthful', NEW e \in Execs, Step(e) \/ Crash(e)
  PROVE  [Ledger!Next]_(Ledger!ledger)
<1>1. /\ IInv /\ TypeInv /\ Inv(e) /\ fs \in [Paths -> Files \cup {NoFile}]
      /\ phase \in [Execs -> Phases] /\ arts \in [Execs -> SUBSET Paths]
  BY DEF RInv, IInv, TypeInv, TypeOK
<1>2. /\ phase[e] \notin {"done", "dead"}
      /\ \A d \in Execs \ {e} : phase'[d] = phase[d] /\ arts'[d] = arts[d]
      /\ phase'[e] = "dead" => Crash(e)
      /\ ~Link(e) /\ ~RollbackUnlink(e) => fs' = fs
      /\ Link(e) \/ RollbackUnlink(e) => phase'[e] \notin {"done", "dead"}
  BY <1>1, LedgerFrame
<1>3. e \in Open /\ (phase'[e] \notin {"done", "dead"} => Open' = Open /\ Records' = Records)
  BY <1>2 DEF Open, Records
<1>4. CASE Link(e)
  <2>1. /\ Path(e) \in Paths /\ fs[Path(e)] = NoFile /\ temp[e][kind[e]].by = e
        /\ temp[e][kind[e]] # NoFile /\ fs' = [fs EXCEPT ![Path(e)] = temp[e][kind[e]]]
    <3>1. Cand(e) \in Cands /\ kind[e] \in OutputKinds(e) /\ OutputKinds(e) \subseteq Kinds
      BY <1>1, <1>4, CandInPlan, OutputFacts DEF Link, Inv, KindOK, TypeInv, LoopPhases
    <3> QED
      BY <1>1, <1>4, <3>1, NoFileFacts DEF Link, Inv, TempOK, Path, Paths
  <2>2. Owner[Path(e)] = Nobody /\ Owner' = [Owner EXCEPT ![Path(e)] = e]
    BY <1>1, <2>1 DEF Owner
  <2>3. ASSUME NEW p \in Paths, p = Path(e) PROVE Ledger!Claim(e, p)
    BY <2>3, <1>2, <1>3, <1>4, <2>1, <2>2 DEF Ledger!Claim, Owner, Open, Records
  <2> QED
    BY <2>1, <2>3 DEF Ledger!Next
<1>5. CASE RollbackUnlink(e)
  <2>1. Path(e) \in Paths /\ Holds(e, Path(e)) /\ fs' = [fs EXCEPT ![Path(e)] = NoFile]
    <3>1. Cand(e) \in Cands
      BY <1>1, <1>5, CandInPlan DEF RollbackUnlink, TypeInv, LoopPhases
    <3> QED
      BY <1>1, <1>5, <3>1, RollbackUnlinkStep DEF RollbackUnlink, Path, Paths, TypeInv, TypeOK
  <2>2. Owner[Path(e)] = e /\ Owner' = [Owner EXCEPT ![Path(e)] = Nobody]
    BY <1>1, <2>1 DEF Owner, Holds
  <2>3. ASSUME NEW p \in Paths, p = Path(e) PROVE Ledger!Release(e, p)
    BY <2>3, <1>2, <1>3, <1>5, <2>1, <2>2 DEF Ledger!Release, Owner, Open, Records
  <2> QED
    BY <2>1, <2>3 DEF Ledger!Next
<1>6. CASE fs' = fs /\ phase'[e] = "done"
  <2>1. Owner' = Owner /\ Open' = Open \ {e}
    BY <1>2, <1>6 DEF Owner, Open
  <2>2. MadeBy(e) = OutputsOf(e, Completed(e)') /\ arts'[e] = MadeBy(e)
    BY <1>6 DEF NoOrphans, RecordTruthful, MadeBy, OutputsOf, OutputKinds
  <2>3. Records' = [Records EXCEPT ![e] = {MadeBy(e)}]
    BY <1>2, <1>6, <2>2 DEF Records
  <2>4. \A B \in Bundle[e] : B \subseteq MadeBy(e) \/ B \cap MadeBy(e) = {}
    <3> SUFFICES ASSUME NEW c \in Planned(e)
                 PROVE  LET B == OutputsOf(e, {c}) IN
                        B \subseteq MadeBy(e) \/ B \cap MadeBy(e) = {}
      BY DEF Bundle
    <3> QED
      BY <2>2 DEF OutputsOf
  <2>5. Ledger!Close(e)
    BY <1>3, <2>1, <2>3, <2>4, OwnerIsMaker
       DEF Ledger!Close, Ledger!OwnedBy, Owner, Open, Records, Bundle
  <2> QED
    BY <2>5 DEF Ledger!Next
<1>7. CASE fs' = fs /\ phase'[e] = "dead"
  <2>1. Owner' = Owner /\ Open' = Open \ {e} /\ Records' = Records
    BY <1>2, <1>7 DEF Owner, Open, Records
  <2>2. Ledger!Abandon(e)
    BY <1>3, <2>1 DEF Ledger!Abandon, Owner, Open, Records
  <2> QED
    BY <2>2 DEF Ledger!Next
<1>8. CASE fs' = fs /\ phase'[e] \notin {"done", "dead"}
  <2>1. Owner' = Owner
    BY <1>8 DEF Owner
  <2> QED
    BY <1>3, <1>8, <2>1 DEF Ledger!ledger, Owner, Open, Records
<1> QED
  BY <1>2, <1>4, <1>5, <1>6, <1>7, <1>8

(* What concurrent executions do to an output root is what the ledger      *)
(* allows: paths change owner one by one, and a record lists exactly what  *)
(* its execution owns from then on, whole candidates only.                 *)
THEOREM ImplementsLedger ==
  ASSUME NobodyRemoves, HashesSucceed
  PROVE  Spec => KeepsLedger
<1>1. Init => Ledger!Init
  BY DEF Init, Ledger!Init
<1>2. (IInv => NoOrphans)' /\ (RInv => RecordTruthful)'
  BY OwnedAtTheEnd, ListedAtTheEnd, PTL
<1>3. ASSUME RInv, RInv', [Next]_vars PROVE [Ledger!Next]_(Ledger!ledger)
  <2>1. NoOrphans' /\ RecordTruthful'
    BY <1>2, <1>3 DEF RInv
  <2>2. CASE \E e \in Execs : Step(e) \/ Crash(e)
    BY <1>3, <2>1, <2>2, StepKeepsLedger
  <2>3. ASSUME NEW p \in Outputs, ForeignCreate(p) PROVE Ledger!Next
    <3>1. PICK i \in FreeInodes :
            fs' = [fs EXCEPT ![p] = [ino |-> i, by |-> Outsider, data |-> "planned"]]
      BY <2>3 DEF ForeignCreate
    <3>2. p \in Paths /\ i # NoInode /\ fs \in [Paths -> Files \cup {NoFile}]
      BY <1>3, ConstantTypes, PlansAreInjective, OutputFacts
         DEF Outputs, OutputsOf, Planned, Paths, FreeInodes, RInv, IInv, TypeInv, TypeOK
    <3>3. Owner[p] = Nobody /\ Owner' = [Owner EXCEPT ![p] = Outsider]
      BY <2>3, <3>1, <3>2 DEF Owner, ForeignCreate, NoFile
    <3>4. Ledger!Occupy(p)
      BY <2>3, <3>2, <3>3 DEF Ledger!Occupy, Owner, ForeignCreate, locals
    <3> QED
      BY <3>2, <3>4 DEF Ledger!Next
  <2>4. CASE UNCHANGED <<fs, phase, arts>>
    BY <2>4 DEF Ledger!ledger
  <2> QED
    BY <1>3, <2>2, <2>3, <2>4
       DEF Next, Environment, ForeignRemove, NobodyRemoves, SourceWrite, vars, locals
<1> QED
  BY <1>1, <1>3, RecordInvariance, PTL DEF Spec, KeepsLedger, Ledger!Spec

-----------------------------------------------------------------------------
(* A success was cut from the source the plan names.                       *)

(* What is new on disk in the name of an execution, it has just linked.    *)
LEMMA MadeFromTemp ==
  ASSUME TypeInv, NEW e \in Execs, FromTemp(e), Step(e) \/ Crash(e), NEW d \in Execs,
         NEW p \in Paths, Holds(d, p)'
  PROVE  \/ Holds(d, p) /\ fs'[p] = fs[p]
         \/ d = e /\ Link(e) /\ fs'[p] = temp[e][kind[e]]
<1>1. fs \in [Paths -> Files \cup {NoFile}] /\ kind[e] \in Kinds
  BY DEF TypeInv, TypeOK
<1>2. CASE Link(e)
  <2>1. fs' = [fs EXCEPT ![Path(e)] = temp[e][kind[e]]] /\ temp[e][kind[e]].by \in {e, Outsider}
    BY <1>1, <1>2 DEF Link, FromTemp
  <2> QED
    BY <1>1, <1>2, <2>1, ConstantTypes DEF Holds
<1>3. CASE RollbackUnlink(e)
  <2>1. fs' = [fs EXCEPT ![Path(e)] = NoFile]
    BY <1>3 DEF RollbackUnlink
  <2> QED
    BY <1>1, <2>1 DEF Holds
<1>4. CASE ~Link(e) /\ ~RollbackUnlink(e)
  BY <1>4, LedgerFrame DEF Holds
<1> QED
  BY <1>2, <1>3, <1>4

(* Steps of others and writes of the source: an execution sees its files   *)
(* go, and a source whose mtime has moved on.                              *)
LEMMA SourceUndisturbed ==
  ASSUME TypeInv, TypeInv', NEW e \in Execs, Source(e),
         phase'[e] = phase[e], temp'[e] = temp[e], mtime0'[e] = mtime0[e],
         status'[e] = status[e], src' = src \/ src'.mtime = src.mtime + 1,
         \A p \in Paths : Holds(e, p)' => Holds(e, p) /\ fs'[p] = fs[p]
  PROVE  Source(e)'
<1>1. FromTemp(e)'
  BY DEF Source, FromTemp
<1>2. mtime0[e] \in Nat /\ src.mtime \in Nat /\ mtime0[e] <= src.mtime
  BY DEF TypeInv, TypeOK, Source, CutFrom
<1>3. CutFrom(e)'
  <2>1. CASE src' = src
    BY <2>1 DEF Source, CutFrom
  <2>2. CASE src'.mtime = src.mtime + 1
    <3>1. mtime0'[e] <= src'.mtime /\ src'.mtime # mtime0'[e]
      BY <1>2, <2>2
    <3> QED
      BY <3>1 DEF CutFrom
  <2> QED BY <2>1, <2>2
<1>4. SuccessOK(e)'
  BY DEF Source, SuccessOK
<1> QED
  BY <1>1, <1>3, <1>4 DEF Source

(* Before the loop, and when the process dies.                             *)
LEMMA SourceEarly ==
  ASSUME TypeInv, NEW e \in Execs, Source(e), src' = src,
         \/ phase[e] \in EarlyPhases /\ phase'[e] \in EarlyPhases \cup {"render", "verify_hash"}
            /\ status'[e] = status[e]
         \/ phase[e] \in EarlyPhases /\ phase'[e] = "done" /\ status'[e] = "failed"
         \/ phase[e] # "done" /\ phase'[e] = "dead" /\ status'[e] = status[e],
         temp'[e] = temp[e], mtime0'[e] \in {mtime0[e], src.mtime},
         \A p \in Paths : Holds(e, p)' => Holds(e, p) /\ fs'[p] = fs[p]
  PROVE  Source(e)'
<1>1. FromTemp(e)'
  BY DEF Source, FromTemp, EarlyPhases
<1>2. mtime0'[e] <= src'.mtime
  BY DEF Source, CutFrom, TypeInv, TypeOK
<1>3. phase[e] \in EarlyPhases => temp[e] = NothingRendered /\ \A p \in Paths : ~Holds(e, p)'
  BY DEF Source, FromTemp
<1>4. \A k \in Kinds : NothingRendered[k].data = "planned"
  BY DEF NothingRendered, NoFile
<1>5. CutFrom(e)'
  BY <1>2, <1>3, <1>4 DEF CutFrom, EarlyPhases
<1>6. SuccessOK(e)'
  BY DEF Source, SuccessOK, EarlyPhases
<1> QED
  BY <1>1, <1>5, <1>6 DEF Source

(* In the loop, what is linked comes from the temporary directory.         *)
LEMMA SourceLoop ==
  ASSUME TypeInv, NEW e \in Execs, Source(e), src' = src, mtime0'[e] = mtime0[e],
         phase[e] \in LoopPhases, phase'[e] \in LoopPhases \cup {"verify_hash"},
         status'[e] = status[e],
         \A k \in Kinds : /\ temp'[e][k].by \in {e, Outsider}
                          /\ temp'[e][k].data \in {temp[e][k].data, src.data, "planned"},
         \A p \in Paths : Holds(e, p)' => \/ Holds(e, p) /\ fs'[p] = fs[p]
                                          \/ \E k \in Kinds : fs'[p] = temp[e][k]
  PROVE  Source(e)'
<1>1. FromTemp(e)'
  BY DEF FromTemp, EarlyPhases, LoopPhases
<1>2. CutFrom(e)'
  BY DEF Source, CutFrom, EarlyPhases, LoopPhases
<1>3. SuccessOK(e)'
  BY DEF Source, SuccessOK, LoopPhases
<1> QED
  BY <1>1, <1>2, <1>3 DEF Source

(* At the end, a success has seen the planned hash and the same mtime.     *)
LEMMA SourceFinish ==
  ASSUME TypeInv, NEW e \in Execs, Source(e), NEW steps, Finish(e, steps),
         phase[e] \in {"verify_hash", "verify_mtime"},
         "failed" \notin steps => phase[e] = "verify_mtime" /\ src.mtime = mtime0[e]
  PROVE  Source(e)'
<1>1. /\ phase'[e] = "done" /\ status'[e] = FinalStatus(steps, arts[e])
      /\ UNCHANGED <<fs, src, mtime0, temp>>
  BY DEF Finish, Goto, locals, TypeInv, TypeOK
<1>2. status'[e] = "success" => "failed" \notin steps
  BY <1>1 DEF FinalStatus, Failures
<1>3. status'[e] = "success" => \A p \in Paths : Holds(e, p) => fs[p].data = "planned"
  BY <1>2 DEF Source, CutFrom, EarlyPhases
<1> QED
  BY <1>1, <1>3 DEF Source, FromTemp, CutFrom, SuccessOK, EarlyPhases, Holds

LEMMA SourceOwn ==
  ASSUME SInv, NEW e \in Execs, Step(e) \/ Crash(e)
  PROVE  Source(e)'
<1> USE DEF Goto, locals
<1>1. /\ TypeInv /\ Source(e) /\ FromTemp(e) /\ kind[e] \in Kinds
      /\ \A k \in Kinds : NothingRendered[k] = NoFile /\ NoFile.by = Outsider
                          /\ NoFile.data = "planned"
  BY DEF SInv, Source, TypeInv, TypeOK, NothingRendered, NoFile
<1>2. \A p \in Paths : Holds(e, p)' => \/ Holds(e, p) /\ fs'[p] = fs[p]
                                       \/ Link(e) /\ fs'[p] = temp[e][kind[e]]
  BY <1>1, MadeFromTemp
<1>3. ASSUME phase[e] # "link" PROVE \A p \in Paths : Holds(e, p)' => Holds(e, p) /\ fs'[p] = fs[p]
  BY <1>2, <1>3 DEF Link
<1>4. ASSUME Reject(e), phase[e] \in EarlyPhases PROVE Source(e)'
  BY <1>1, <1>3, <1>4, SourceEarly DEF Reject, EarlyPhases, TypeInv, TypeOK
<1>5. ASSUME NEW o, NEW ph \in {"abort", "rollback_stat"}, FailCandidate(e, o, ph),
             phase[e] \in LoopPhases
      PROVE  Source(e)'
  BY <1>1, <1>2, <1>5, SourceLoop DEF FailCandidate, FromTemp, LoopPhases, TypeInv, TypeOK
<1>6. ASSUME NextRollback(e), phase[e] \in {"rollback_stat", "rollback_unlink"},
             UNCHANGED <<src, mtime0, temp, status>>
      PROVE  Source(e)'
  BY <1>1, <1>2, <1>6, SourceLoop
     DEF NextRollback, AfterCandidate, FromTemp, LoopPhases, TypeInv, TypeOK
<1>10. CASE Validate(e)
  BY <1>1, <1>3, <1>4, <1>10, SourceEarly DEF Validate, EarlyPhases, TypeInv, TypeOK
<1>11. CASE StatSource(e)
  BY <1>1, <1>3, <1>11, SourceEarly DEF StatSource, StartLoop, EarlyPhases, TypeInv, TypeOK
<1>12. CASE PreflightFault(e)
  BY <1>4, <1>12 DEF PreflightFault, EarlyPhases
<1>13. CASE PreflightOutput(e)
  <2>1. CASE Reject(e)
    BY <1>4, <1>13, <2>1 DEF PreflightOutput, EarlyPhases
  <2>2. CASE ~Reject(e)
    BY <1>1, <1>3, <1>13, <2>2, SourceEarly DEF PreflightOutput, EarlyPhases, TypeInv, TypeOK
  <2> QED BY <2>1, <2>2
<1>14. CASE Render(e)
  <2>1. PICK new \in [OutputKinds(e) -> FreeInodes] :
          temp' = [temp EXCEPT ![e] = [k \in Kinds |->
            IF k \notin OutputKinds(e) THEN NoFile
            ELSE [ino |-> new[k], by |-> e,
                  data |-> IF k = "clip" THEN src.data ELSE "planned"]]]
    BY <1>14 DEF Render
  <2>2. \A k \in Kinds : temp'[e][k] = IF k \notin OutputKinds(e) THEN NoFile
            ELSE [ino |-> new[k], by |-> e,
                  data |-> IF k = "clip" THEN src.data ELSE "planned"]
    BY <1>1, <2>1 DEF TypeInv, TypeOK
  <2>3. \A k \in Kinds : temp'[e][k].by \in {e, Outsider}
                         /\ temp'[e][k].data \in {src.data, "planned"}
    <3> SUFFICES ASSUME NEW k \in Kinds
                 PROVE  temp'[e][k].by \in {e, Outsider} /\ temp'[e][k].data \in {src.data, "planned"}
      OBVIOUS
    <3>1. CASE k \notin OutputKinds(e)
      <4>1. temp'[e][k] = NoFile
        BY <2>2, <3>1
      <4> QED
        BY <4>1 DEF NoFile
    <3>2. CASE k \in OutputKinds(e)
      <4>1. temp'[e][k] = [ino |-> new[k], by |-> e,
                           data |-> IF k = "clip" THEN src.data ELSE "planned"]
        BY <2>2, <3>2
      <4> QED
        BY <4>1
    <3> QED BY <3>1, <3>2
  <2> QED
    BY <1>1, <1>3, <1>14, <2>3, SourceLoop DEF Render, LoopPhases, TypeInv, TypeOK
<1>15. CASE \E o \in Failures : RenderFails(e, o)
  BY <1>5, <1>15 DEF RenderFails, LoopPhases
<1>16. CASE Link(e)
  BY <1>1, <1>2, <1>16, SourceLoop DEF Link, FromTemp, LoopPhases, TypeInv, TypeOK
<1>17. CASE LinkFails(e)
  BY <1>5, <1>17 DEF LinkFails, LoopPhases
<1>18. CASE StatOutput(e)
  BY <1>1, <1>2, <1>18, SourceLoop DEF StatOutput, FromTemp, LoopPhases, TypeInv, TypeOK
<1>19. CASE StatFails(e)
  BY <1>5, <1>19 DEF StatFails, LoopPhases
<1>20. CASE Cleanup(e)
  BY <1>1, <1>2, <1>20, SourceLoop DEF Cleanup, LoopPhases, TypeInv, TypeOK
<1>21. CASE RecordArtifact(e)
  BY <1>1, <1>2, <1>21, SourceLoop
     DEF RecordArtifact, AfterCandidate, FromTemp, LoopPhases, TypeInv, TypeOK
<1>22. CASE RecordFails(e)
  BY <1>5, <1>22 DEF RecordFails, LoopPhases
<1>23. CASE RollbackStat(e)
  <2>1. CASE NextRollback(e)
    BY <1>6, <1>23, <2>1 DEF RollbackStat
  <2>2. CASE ~NextRollback(e)
    BY <1>1, <1>2, <1>23, <2>2, SourceLoop DEF RollbackStat, FromTemp, LoopPhases, TypeInv, TypeOK
  <2> QED BY <2>1, <2>2
<1>24. CASE RollbackUnlink(e)
  BY <1>6, <1>24 DEF RollbackUnlink
<1>25. CASE VerifyHash(e)
  <2>1. CASE Finish(e, StepsOf(e) \cup {"failed"})
    BY <1>1, <1>25, <2>1, SourceFinish DEF VerifyHash
  <2>2. CASE ~Finish(e, StepsOf(e) \cup {"failed"})
    <3>1. /\ phase[e] = "verify_hash" /\ phase'[e] = "verify_mtime" /\ src.data = "planned"
          /\ UNCHANGED <<fs, src, mtime0, temp, status>>
      BY <1>1, <1>25, <2>2 DEF VerifyHash, TypeInv, TypeOK
    <3> QED
      BY <1>1, <3>1 DEF Source, FromTemp, CutFrom, SuccessOK, EarlyPhases, Holds
  <2> QED BY <2>1, <2>2
<1>26. CASE VerifyMtime(e)
  BY <1>1, <1>26, SourceFinish DEF VerifyMtime
<1>27. CASE Crash(e)
  <2>1. phase[e] # "done" /\ phase'[e] = "dead" /\ UNCHANGED <<fs, src, mtime0, temp, status>>
    BY <1>1, <1>27 DEF Crash, TypeInv, TypeOK
  <2> QED
    BY <1>1, <2>1, SourceEarly DEF Holds
<1> QED
  BY <1>10, <1>11, <1>12, <1>13, <1>14, <1>15, <1>16, <1>17, <1>18, <1>19, <1>20, <1>21,
     <1>22, <1>23, <1>24, <1>25, <1>26, <1>27 DEF Step

LEMMA SInvStep ==
  ASSUME SInv, [Next]_vars
  PROVE  SInv'
<1>1. TypeInv /\ TypeInv' /\ fs \in [Paths -> Files \cup {NoFile}]
  BY TypeStep DEF SInv, TypeInv, TypeOK
<1>2. ASSUME NEW e \in Execs, Step(e) \/ Crash(e), NEW d \in Execs PROVE Source(d)'
  <2>1. CASE d = e
    BY <1>2, <2>1, SourceOwn
  <2>2. CASE d # e
    <3>1. phase'[d] = phase[d] /\ temp'[d] = temp[d] /\ status'[d] = status[d]
      BY <1>1, <1>2, <2>2, StepIsLocal, StatusIsLocal DEF LocalSame
    <3>2. mtime0'[d] = mtime0[d] /\ src' = src
      <4>1. src' = src /\ (UNCHANGED mtime0 \/ mtime0' = [mtime0 EXCEPT ![e] = src.mtime])
        BY <1>2 DEF Step, Crash, Validate, StatSource, PreflightFault, PreflightOutput, Reject,
           Render, RenderFails, FailCandidate, Link, LinkFails, StatOutput, StatFails, Cleanup,
           RecordArtifact, RecordFails, RollbackStat, RollbackUnlink, VerifyHash, VerifyMtime,
           Finish, locals
      <4> QED
        BY <1>1, <2>2, <4>1 DEF TypeInv, TypeOK
    <3>3. \A p \in Paths : Holds(d, p)' => Holds(d, p) /\ fs'[p] = fs[p]
      BY <1>1, <1>2, <2>2, MadeFromTemp DEF SInv, Source
    <3> QED
      BY <1>1, <3>1, <3>2, <3>3, SourceUndisturbed DEF SInv
  <2> QED BY <2>1, <2>2
<1>3. ASSUME NEW d \in Execs, UNCHANGED <<phase, locals, status>>,
             src' = src \/ src'.mtime = src.mtime + 1,
             \A p \in Paths : Holds(d, p)' => Holds(d, p) /\ fs'[p] = fs[p]
      PROVE  Source(d)'
  BY <1>1, <1>3, SourceUndisturbed DEF SInv, locals
<1>4. ASSUME NEW p \in Outputs, ForeignCreate(p) \/ ForeignRemove(p), NEW d \in Execs
      PROVE  Source(d)'
  <2>1. \A q \in Paths : fs'[q] = fs[q] \/ fs'[q] = NoFile \/ fs'[q].by = Outsider
    BY <1>1, <1>4 DEF ForeignCreate, ForeignRemove
  <2>2. \A q \in Paths : Holds(d, q)' => Holds(d, q) /\ fs'[q] = fs[q]
    BY <2>1, ConstantTypes DEF Holds
  <2> QED
    BY <1>3, <1>4, <2>2 DEF ForeignCreate, ForeignRemove
<1>5. ASSUME SourceWrite, NEW d \in Execs PROVE Source(d)'
  BY <1>3, <1>5 DEF SourceWrite, Holds
<1>6. ASSUME UNCHANGED vars, NEW d \in Execs PROVE Source(d)'
  BY <1>3, <1>6 DEF vars, locals, Holds
<1> QED
  BY <1>1, <1>2, <1>4, <1>5, <1>6 DEF SInv, Next, Environment

LEMMA SInvInit == Init => SInv
<1> SUFFICES ASSUME Init, NEW e \in Execs PROVE Source(e)
  BY IInvInit DEF SInv, IInv
<1>1. /\ phase[e] = "validate" /\ status[e] = "none" /\ mtime0[e] = 0 /\ src.mtime = 0
      /\ temp[e] = NothingRendered /\ \A p \in Paths : ~Holds(e, p)
  BY DEF Init, Holds
<1> QED
  BY <1>1 DEF Source, FromTemp, CutFrom, SuccessOK, EarlyPhases, NothingRendered, NoFile

LEMMA SourceInvariance == Spec => []SInv
<1>1. Init => SInv
  BY SInvInit
<1>2. SInv /\ [Next]_vars => SInv'
  BY SInvStep
<1> QED
  BY <1>1, <1>2, PTL DEF Spec

(* Whatever is written to the source, and restored, between any two of its *)
(* reads: a success has no clip cut from other bytes than the planned ones.*)
THEOREM SuccessIsFaithful == Spec => []SuccessIsFromThePlannedSource
<1>1. SInv => SuccessIsFromThePlannedSource
  BY DEF SInv, Source, SuccessOK, SuccessIsFromThePlannedSource, MadeBy, Holds
<1> QED
  BY <1>1, SourceInvariance, PTL

-----------------------------------------------------------------------------
(* A conflict that was there before an execution started.                  *)

(* As long as the file stays, the execution does not get past it.          *)
LEMMA ConflictStops ==
  ASSUME SInv, [Next]_vars, NEW e \in Execs, NEW p \in OutputsOf(e, Planned(e)),
         Stopped(e, p), fs'[p] # NoFile
  PROVE  Stopped(e, p)'
<1>1. /\ TypeInv /\ Source(e) /\ PositionOK(e) /\ idx[e] \in Nat \ {0}
      /\ Len(PlanOf[e]) \in Nat /\ PlanOf[e] \in Seq(Cands) /\ phase[e] \in Phases
  BY PlansAreInjective DEF SInv, TypeInv, TypeOK
<1>2. PICK i \in 1..Len(PlanOf[e]) : PlanOf[e][i] = p[2] /\ p[1] \in OutputKinds(e)
  BY DEF OutputsOf, Planned
<1>3. \A j \in 1..Len(PlanOf[e]) : PlanOf[e][j] = p[2] => j = i
  BY <1>2, PlansAreInjective
<1>4. PlanOf[e] # <<>>
  BY <1>2
<1> DEFINE At == \/ phase'[e] \in {"validate", "stat_source", "done", "dead"}
                 \/ phase'[e] = "preflight" /\ idx'[e] <= i
<1>5. At => phase'[e] \in EarlyPhases \cup {"done", "dead"} /\
            (phase'[e] = "preflight" =>
               \A j \in 1..Len(PlanOf[e]) : PlanOf[e][j] = p[2] => idx'[e] <= j)
  BY <1>3 DEF EarlyPhases
<1>6. ASSUME phase'[e] = phase[e], idx'[e] = idx[e] PROVE At
  BY <1>2, <1>6 DEF Stopped, EarlyPhases
<1>7. ASSUME Step(e) \/ Crash(e) PROVE At
  <2>1. phase[e] \in EarlyPhases
    BY <1>1, <1>7, LedgerFrame DEF Stopped
  <2>2. ASSUME Reject(e) PROVE At
    BY <1>1, <2>2 DEF Reject, Goto, TypeInv, TypeOK
  <2>3. CASE Validate(e)
    BY <1>1, <2>2, <2>3 DEF Validate, Goto, TypeInv, TypeOK
  <2>4. CASE StatSource(e)
    BY <1>1, <1>2, <1>4, <2>4 DEF StatSource, StartLoop, Goto, PositionOK, TypeInv, TypeOK
  <2>5. CASE PreflightFault(e)
    BY <2>2, <2>5 DEF PreflightFault
  <2>6. CASE PreflightOutput(e)
    <3>1. idx[e] <= i /\ idx[e] \in 1..Len(PlanOf[e])
      BY <1>1, <1>2, <2>6 DEF Stopped, PreflightOutput, PositionOK
    <3>2. CASE Cand(e) = p[2]
      <4>1. p \in OutputsOf(e, {Cand(e)})
        BY <1>2, <3>2 DEF OutputsOf
      <4> QED
        BY <2>2, <2>6, <4>1 DEF PreflightOutput, Stopped
    <3>3. CASE Cand(e) # p[2]
      <4>1. idx[e] < i /\ idx[e] < Len(PlanOf[e])
        BY <1>1, <1>2, <3>1, <3>3 DEF Cand
      <4>2. Reject(e) \/ (phase'[e] = "preflight" /\ idx'[e] = idx[e] + 1)
        BY <1>1, <2>6, <4>1 DEF PreflightOutput, TypeInv, TypeOK
      <4> QED
        BY <1>1, <2>2, <4>1, <4>2
    <3> QED BY <3>2, <3>3
  <2>7. CASE Crash(e)
    BY <1>1, <2>7 DEF Crash, Goto, TypeInv, TypeOK
  <2> QED
    BY <1>7, <2>1, <2>3, <2>4, <2>5, <2>6, <2>7
       DEF Step, EarlyPhases, Render, RenderFails, Link, LinkFails, StatOutput, StatFails,
           Cleanup, RecordArtifact, RecordFails, RollbackStat, RollbackUnlink, VerifyHash,
           VerifyMtime
<1>8. At
  <2>1. ASSUME NEW d \in Execs, d # e, Step(d) \/ Crash(d)
        PROVE  phase'[e] = phase[e] /\ idx'[e] = idx[e]
    BY <1>1, <2>1, StepIsLocal DEF LocalSame
  <2>2. \/ \E d \in Execs : Step(d) \/ Crash(d)
        \/ phase'[e] = phase[e] /\ idx'[e] = idx[e]
    BY DEF Next, Environment, ForeignCreate, ForeignRemove, SourceWrite, vars, locals
  <2> QED
    BY <1>6, <1>7, <2>1, <2>2
<1>9. \A q \in Paths : ~Holds(e, q)'
  <2>1. ASSUME NEW d \in Execs, Step(d) \/ Crash(d), NEW q \in Paths PROVE ~Holds(e, q)'
    <3>1. ~Link(e)
      BY DEF Link, Stopped, EarlyPhases
    <3> QED
      BY <1>1, <2>1, <3>1, MadeFromTemp DEF Stopped, SInv, Source
  <2>2. ASSUME NEW r \in Outputs, ForeignCreate(r) \/ ForeignRemove(r), NEW q \in Paths
        PROVE  ~Holds(e, q)'
    <3>1. fs'[q] = fs[q] \/ fs'[q] = NoFile \/ fs'[q].by = Outsider
      BY <1>1, <2>2 DEF ForeignCreate, ForeignRemove, TypeInv, TypeOK
    <3> QED
      BY <3>1, ConstantTypes DEF Holds, Stopped
  <2>3. CASE fs' = fs
    BY <2>3 DEF Holds, Stopped
  <2> QED
    BY <2>1, <2>2, <2>3 DEF Next, Environment, SourceWrite, vars
<1> QED
  BY <1>5, <1>8, <1>9 DEF Stopped

(* A conflict that is there before an execution starts, and stays, leaves  *)
(* the output root without any file of that execution.                     *)
THEOREM ConflictIsHarmless == Spec => ConflictPublishesNothing
<1>1. ASSUME NEW e \in Execs, NEW p \in OutputsOf(e, Planned(e))
      PROVE  Spec => ConflictIsFound(e, p)
  <2> DEFINE Start == phase[e] = "validate" /\ fs[p] # NoFile
             Gone == fs[p] = NoFile
             Nothing == MadeBy(e) = {}
             J == Stopped(e, p)
  <2>1. SInv /\ Start => J
    BY DEF SInv, Source, FromTemp, Stopped, EarlyPhases
  <2>2. SInv /\ J /\ [Next]_vars => J' \/ Gone'
    BY ConflictStops
  <2>3. J => Nothing
    BY DEF Stopped, MadeBy, Holds
  <2> HIDE DEF Start, Gone, Nothing, J
  <2>4. Spec => []((Start) => ([]Nothing \/ <>Gone))
    BY <2>1, <2>2, <2>3, SourceInvariance, PTL DEF Spec
  <2> QED
    BY <2>4 DEF ConflictIsFound, Start, Gone, Nothing
<1> QED
  BY <1>1 DEF ConflictPublishesNothing
=============================================================================
