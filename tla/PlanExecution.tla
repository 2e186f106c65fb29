---------------------------- MODULE PlanExecution ----------------------------
(***************************************************************************)
(* execute_external_plan (media/executor.py): several executions of cut    *)
(* plans that share one output root and one source file.                   *)
(*                                                                         *)
(* An execution validates the source, preflights every output path,        *)
(* renders each selected candidate into a temporary directory, verifies    *)
(* it, and publishes the result with os.link, which never overwrites.  A   *)
(* failing candidate is rolled back, the others go on, and the execution   *)
(* ends with a record.  Every system call that another process can race    *)
(* with is a step of its own.  Other processes may create and remove files *)
(* under the output root, and write the source.                            *)
(***************************************************************************)
EXTENDS Naturals, Sequences

CONSTANTS
  Execs,        \* the executions
  Cands,        \* candidate ids
  Inodes,       \* inode numbers of the file system of the output root
  PlanOf,       \* execution -> its selected candidates, in decision order
  Sidecar,      \* execution -> does its subtitle mode write a sidecar file?
  Admissible,   \* execution -> do the checks that read no file pass?
  Faults,       \* the phases in which a system call may fail with OSError
  Foreign,      \* what other processes do under the output root
  MaxWrites,    \* bound: how often the source is written
  NoInode, Outsider, Nobody

Kinds == {"clip", "sub"}
Paths == Kinds \X Cands

ASSUME PlansAreInjective ==
  /\ PlanOf \in [Execs -> Seq(Cands)]
  /\ \A e \in Execs : \A i, j \in 1..Len(PlanOf[e]) :
       PlanOf[e][i] = PlanOf[e][j] => i = j

ASSUME ConstantTypes ==
  /\ Sidecar \in [Execs -> BOOLEAN]
  /\ Admissible \in [Execs -> BOOLEAN]
  /\ Faults \subseteq {"preflight", "render", "link", "stat", "hash"}
  /\ Foreign \subseteq {"create", "remove"}
  /\ MaxWrites \in Nat
  /\ NoInode \notin Inodes
  /\ Outsider \notin Execs
  /\ Nobody \notin Execs \cup {Outsider}

Data == {"planned", "changed"}   \* "planned": the bytes whose hash the plan names
Files == [ino : Inodes, by : Execs \cup {Outsider}, data : Data]
NoFile == [ino |-> NoInode, by |-> Outsider, data |-> "planned"]
NothingRendered == [k \in Kinds |-> NoFile]
NothingPublished == [k \in Kinds |-> NoInode]

Failures == {"failed", "cancelled", "timed_out"}
Outcomes == {"none", "completed"} \cup Failures
Statuses == {"none", "success", "partial"} \cup Failures
Phases == {"validate", "stat_source", "preflight", "render", "link", "stat",
           "cleanup", "record", "abort", "rollback_stat", "rollback_unlink",
           "verify_hash", "verify_mtime", "done", "dead"}

VARIABLES
  fs,       \* path -> the file linked there: its inode, its creator, its data
  src,      \* the source file: its data and its mtime
  phase,    \* execution -> what it does next
  idx,      \* execution -> its position in its plan
  kind,     \* execution -> the output it publishes, records or rolls back
  mtime0,   \* execution -> source_mtime_ns
  temp,     \* execution -> kind -> file in the temporary directory
  pub,      \* execution -> kind -> inode in published_outputs
  arts,     \* execution -> paths of the artifacts of its record
  outcome,  \* execution -> candidate -> status of its execute-candidate step
  status    \* execution -> status of its ExecutionRecord, "none" before

locals == <<idx, kind, mtime0, temp, pub, arts, outcome>>
vars == <<fs, src, phase, idx, kind, mtime0, temp, pub, arts, outcome, status>>

TypeOK ==
  /\ fs \in [Paths -> Files \cup {NoFile}]
  /\ src \in [data : Data, mtime : Nat]
  /\ phase \in [Execs -> Phases]
  /\ idx \in [Execs -> Nat \ {0}]
  /\ kind \in [Execs -> Kinds]
  /\ mtime0 \in [Execs -> Nat]
  /\ temp \in [Execs -> [Kinds -> Files \cup {NoFile}]]
  /\ pub \in [Execs -> [Kinds -> Inodes \cup {NoInode}]]
  /\ arts \in [Execs -> SUBSET Paths]
  /\ outcome \in [Execs -> [Cands -> Outcomes]]
  /\ status \in [Execs -> Statuses]

-----------------------------------------------------------------------------
Cand(e) == PlanOf[e][idx[e]]
Path(e) == <<kind[e], Cand(e)>>
OutputKinds(e) == IF Sidecar[e] THEN Kinds ELSE {"clip"}
Planned(e) == {PlanOf[e][i] : i \in 1..Len(PlanOf[e])}
OutputsOf(e, C) == OutputKinds(e) \X C
Outputs == UNION {OutputsOf(e, Planned(e)) : e \in Execs}
LastKind(e) == IF Sidecar[e] THEN "sub" ELSE "clip"

Linked == {fs[p].ino : p \in Paths} \cup {temp[e][k].ino : e \in Execs, k \in Kinds}
FreeInodes == Inodes \ Linked

(* Faulty variants, named Bad..., show that the properties can fail.       *)
BadStatusOfStep(steps, artifacts) ==
  IF steps \cap Failures # {} THEN "failed" ELSE "completed"
BadStatusIgnoresArtifacts(steps, artifacts) ==
  IF "timed_out" \in steps THEN "timed_out"
  ELSE IF "cancelled" \in steps THEN "cancelled"
  ELSE IF "failed" \in steps THEN "failed" ELSE "success"

(* The last tests of execute_external_plan, in their order.                *)
FinalStatus(steps, artifacts) ==
  IF artifacts = {} /\ "timed_out" \in steps THEN "timed_out"
  ELSE IF artifacts = {} /\ "cancelled" \in steps THEN "cancelled"
  ELSE IF artifacts # {} /\ steps \cap Failures # {} THEN "partial"
  ELSE IF "failed" \in steps THEN "failed"
  ELSE "success"

StepsOf(e) == {outcome[e][c] : c \in Cands}
Goto(e, ph) == phase' = [phase EXCEPT ![e] = ph]
StartLoop(e, ph) == IF PlanOf[e] = <<>> THEN "verify_hash" ELSE ph
AfterCandidate(e) == IF idx[e] < Len(PlanOf[e]) THEN "render" ELSE "verify_hash"

Init ==
  /\ fs = [p \in Paths |-> NoFile]
  /\ src \in {[data |-> d, mtime |-> 0] : d \in Data}
  /\ phase = [e \in Execs |-> "validate"]
  /\ idx = [e \in Execs |-> 1]
  /\ kind = [e \in Execs |-> "clip"]
  /\ mtime0 = [e \in Execs |-> 0]
  /\ temp = [e \in Execs |-> NothingRendered]
  /\ pub = [e \in Execs |-> NothingPublished]
  /\ arts = [e \in Execs |-> {}]
  /\ outcome = [e \in Execs |-> [c \in Cands |-> "none"]]
  /\ status = [e \in Execs |-> "none"]

-----------------------------------------------------------------------------
(* Before anything is written: one failed step, no artifact.               *)

Reject(e) ==
  /\ Goto(e, "done")
  /\ status' = [status EXCEPT ![e] = "failed"]
  /\ UNCHANGED <<fs, src, locals>>

(* The checks on the plan alone, then rights, binding and the hash.        *)
Validate(e) ==
  /\ phase[e] = "validate"
  /\ IF Admissible[e] /\ src.data = "planned"
     THEN Goto(e, "stat_source") /\ UNCHANGED <<fs, src, locals, status>>
     ELSE Reject(e)

StatSource(e) ==
  /\ phase[e] = "stat_source"
  /\ mtime0' = [mtime0 EXCEPT ![e] = src.mtime]
  /\ Goto(e, StartLoop(e, "preflight"))
  /\ UNCHANGED <<fs, src, idx, kind, temp, pub, arts, outcome, status>>

(* An unreadable source, a root that is not writable, a failing probe.     *)
PreflightFault(e) ==
  /\ "preflight" \in Faults
  /\ phase[e] \in {"validate", "stat_source", "preflight"}
  /\ idx[e] = 1
  /\ Reject(e)

BadPreflightClipOnly(e) ==
  /\ phase[e] = "preflight"
  /\ IF fs[<<"clip", Cand(e)>>] # NoFile
     THEN Reject(e)
     ELSE /\ IF idx[e] < Len(PlanOf[e])
             THEN idx' = [idx EXCEPT ![e] = @ + 1] /\ UNCHANGED phase
             ELSE idx' = [idx EXCEPT ![e] = 1] /\ Goto(e, "render")
          /\ UNCHANGED <<fs, src, kind, mtime0, temp, pub, arts, outcome, status>>

(* resolve_output for the paths of one candidate.                          *)
PreflightOutput(e) ==
  /\ phase[e] = "preflight"
  /\ IF \E p \in OutputsOf(e, {Cand(e)}) : fs[p] # NoFile
     THEN Reject(e)
     ELSE /\ IF idx[e] < Len(PlanOf[e])
             THEN idx' = [idx EXCEPT ![e] = @ + 1] /\ UNCHANGED phase
             ELSE idx' = [idx EXCEPT ![e] = 1] /\ Goto(e, "render")
          /\ UNCHANGED <<fs, src, kind, mtime0, temp, pub, arts, outcome, status>>

-----------------------------------------------------------------------------
(* One candidate: render, publish, record.                                 *)

FailCandidate(e, o, ph) ==
  /\ outcome' = [outcome EXCEPT ![e][Cand(e)] = o]
  /\ kind' = [kind EXCEPT ![e] = "clip"]
  /\ Goto(e, ph)
  /\ UNCHANGED <<fs, src, idx, mtime0, temp, pub, arts, status>>

(* The subtitle is written from the plan, the clip is cut from the source. *)
Render(e) ==
  /\ phase[e] = "render"
  /\ \E new \in [OutputKinds(e) -> FreeInodes] :
       /\ \A k, l \in OutputKinds(e) : new[k] = new[l] => k = l
       /\ temp' = [temp EXCEPT ![e] = [k \in Kinds |->
            IF k \notin OutputKinds(e) THEN NoFile
            ELSE [ino |-> new[k], by |-> e,
                  data |-> IF k = "clip" THEN src.data ELSE "planned"]]]
  /\ kind' = [kind EXCEPT ![e] = "clip"]
  /\ Goto(e, "link")
  /\ UNCHANGED <<fs, src, idx, mtime0, pub, arts, outcome, status>>

(* The subtitle writer, ffmpeg, the burn-in, the probe or the duration     *)
(* check fails, the process is cancelled or runs out of time.              *)
RenderFails(e, o) ==
  /\ phase[e] = "render"
  /\ "render" \in Faults
  /\ FailCandidate(e, o, "abort")

BadLinkReplaces(e) ==   \* os.replace in the place of os.link
  /\ phase[e] = "link"
  /\ fs' = [fs EXCEPT ![Path(e)] = temp[e][kind[e]]]
  /\ Goto(e, "stat")
  /\ UNCHANGED <<src, locals, status>>

Link(e) ==
  /\ phase[e] = "link"
  /\ fs[Path(e)] = NoFile
  /\ fs' = [fs EXCEPT ![Path(e)] = temp[e][kind[e]]]
  /\ Goto(e, "stat")
  /\ UNCHANGED <<src, locals, status>>

LinkFails(e) ==
  /\ phase[e] = "link"
  /\ fs[Path(e)] # NoFile \/ "link" \in Faults
  /\ FailCandidate(e, "failed", "abort")

BadRecordsClipOnly(e) ==
  /\ phase[e] = "stat"
  /\ fs[Path(e)] # NoFile
  /\ pub' = [pub EXCEPT ![e][kind[e]] = fs[Path(e)].ino]
  /\ kind' = [kind EXCEPT ![e] = IF kind[e] = LastKind(e) THEN "clip" ELSE "sub"]
  /\ Goto(e, IF kind[e] = LastKind(e) THEN "cleanup" ELSE "link")
  /\ UNCHANGED <<fs, src, idx, mtime0, temp, arts, outcome, status>>

(* _publish_no_overwrite stats the path and returns the identity to roll   *)
(* back; only then is the output in published_outputs.                     *)
StatOutput(e) ==
  /\ phase[e] = "stat"
  /\ fs[Path(e)] # NoFile
  /\ pub' = [pub EXCEPT ![e][kind[e]] = fs[Path(e)].ino]
  /\ kind' = [kind EXCEPT ![e] = LastKind(e)]
  /\ Goto(e, IF kind[e] = LastKind(e) THEN "cleanup" ELSE "link")
  /\ UNCHANGED <<fs, src, idx, mtime0, temp, arts, outcome, status>>

StatFails(e) ==
  /\ phase[e] = "stat"
  /\ fs[Path(e)] = NoFile \/ "stat" \in Faults
  /\ FailCandidate(e, "failed", "abort")

(* Leaving the with block removes the temporary directory.                 *)
Cleanup(e) ==
  /\ phase[e] \in {"cleanup", "abort"}
  /\ temp' = [temp EXCEPT ![e] = NothingRendered]
  /\ Goto(e, IF phase[e] = "cleanup" THEN "record" ELSE "rollback_stat")
  /\ UNCHANGED <<fs, src, idx, kind, mtime0, pub, arts, outcome, status>>

(* _artifact hashes the sidecar first, then the clip.                      *)
RecordArtifact(e) ==
  /\ phase[e] = "record"
  /\ fs[Path(e)] # NoFile
  /\ arts' = [arts EXCEPT ![e] = @ \cup {Path(e)}]
  /\ kind' = [kind EXCEPT ![e] = "clip"]
  /\ IF kind[e] = "clip"
     THEN /\ outcome' = [outcome EXCEPT ![e][Cand(e)] = "completed"]
          /\ pub' = [pub EXCEPT ![e] = NothingPublished]
          /\ idx' = [idx EXCEPT ![e] = @ + 1]
          /\ Goto(e, AfterCandidate(e))
     ELSE UNCHANGED <<outcome, pub, idx, phase>>
  /\ UNCHANGED <<fs, src, mtime0, temp, status>>

RecordFails(e) ==
  /\ phase[e] = "record"
  /\ fs[Path(e)] = NoFile \/ "hash" \in Faults
  /\ FailCandidate(e, "failed", "rollback_stat")

-----------------------------------------------------------------------------
(* rollback_if_owned for each published output, then the failed step.      *)

BadRollbackOfClipOnly(e) ==
  /\ kind' = [kind EXCEPT ![e] = "clip"]
  /\ pub' = [pub EXCEPT ![e] = NothingPublished]
  /\ idx' = [idx EXCEPT ![e] = @ + 1]
  /\ Goto(e, AfterCandidate(e))

BadRollbackRetries(e) ==
  /\ kind' = [kind EXCEPT ![e] = "clip"]
  /\ pub' = [pub EXCEPT ![e] = NothingPublished]
  /\ Goto(e, "render")
  /\ UNCHANGED idx

NextRollback(e) ==
  IF kind[e] = LastKind(e)
  THEN /\ kind' = [kind EXCEPT ![e] = "clip"]
       /\ pub' = [pub EXCEPT ![e] = NothingPublished]
       /\ idx' = [idx EXCEPT ![e] = @ + 1]
       /\ Goto(e, AfterCandidate(e))
  ELSE /\ kind' = [kind EXCEPT ![e] = "sub"]
       /\ Goto(e, "rollback_stat")
       /\ UNCHANGED <<pub, idx>>

BadRollbackOfPlanned(e) ==   \* whatever is at the planned path
  /\ phase[e] = "rollback_stat"
  /\ IF fs[Path(e)] # NoFile
     THEN Goto(e, "rollback_unlink") /\ UNCHANGED <<kind, pub, idx>>
     ELSE NextRollback(e)
  /\ UNCHANGED <<fs, src, mtime0, temp, arts, outcome, status>>

BadNoRollback(e) ==
  /\ phase[e] = "rollback_stat"
  /\ NextRollback(e)
  /\ UNCHANGED <<fs, src, mtime0, temp, arts, outcome, status>>

RollbackStat(e) ==
  /\ phase[e] = "rollback_stat"
  /\ IF pub[e][kind[e]] # NoInode /\ fs[Path(e)].ino = pub[e][kind[e]]
     THEN Goto(e, "rollback_unlink") /\ UNCHANGED <<kind, pub, idx>>
     ELSE NextRollback(e)
  /\ UNCHANGED <<fs, src, mtime0, temp, arts, outcome, status>>

RollbackUnlink(e) ==
  /\ phase[e] = "rollback_unlink"
  /\ fs' = [fs EXCEPT ![Path(e)] = NoFile]
  /\ NextRollback(e)
  /\ UNCHANGED <<src, mtime0, temp, arts, outcome, status>>

-----------------------------------------------------------------------------
(* After the last candidate the source must be what it was.                *)

Finish(e, steps) ==
  /\ status' = [status EXCEPT ![e] = FinalStatus(steps, arts[e])]
  /\ Goto(e, "done")
  /\ UNCHANGED <<fs, src, locals>>

VerifyHash(e) ==
  /\ phase[e] = "verify_hash"
  /\ IF src.data = "planned"
     THEN Goto(e, "verify_mtime") /\ UNCHANGED <<fs, src, locals, status>>
     ELSE Finish(e, StepsOf(e) \cup {"failed"})

BadNoMtime(e) ==
  /\ phase[e] = "verify_mtime"
  /\ Finish(e, StepsOf(e))

VerifyMtime(e) ==
  /\ phase[e] = "verify_mtime"
  /\ Finish(e, StepsOf(e) \cup IF src.mtime = mtime0[e] THEN {} ELSE {"failed"})

(* The process is killed, or an exception nobody catches ends it: an       *)
(* OSError of the last hash is not in a try block.                         *)
Crash(e) ==
  /\ phase[e] \notin {"done", "dead"}
  /\ Goto(e, "dead")
  /\ UNCHANGED <<fs, src, locals, status>>

-----------------------------------------------------------------------------
(* Other processes, at the paths some execution looks at.                  *)

ForeignCreate(p) ==
  /\ "create" \in Foreign
  /\ fs[p] = NoFile
  /\ \E i \in FreeInodes :
       fs' = [fs EXCEPT ![p] = [ino |-> i, by |-> Outsider, data |-> "planned"]]
  /\ UNCHANGED <<src, phase, locals, status>>

ForeignRemove(p) ==
  /\ "remove" \in Foreign
  /\ fs[p] # NoFile
  /\ fs' = [fs EXCEPT ![p] = NoFile]
  /\ UNCHANGED <<src, phase, locals, status>>

SourceWrite ==
  /\ src.mtime < MaxWrites
  /\ \E d \in Data : src' = [data |-> d, mtime |-> src.mtime + 1]
  /\ UNCHANGED <<fs, phase, locals, status>>

-----------------------------------------------------------------------------
Step(e) ==
  \/ Validate(e) \/ StatSource(e) \/ PreflightFault(e) \/ PreflightOutput(e)
  \/ Render(e) \/ \E o \in Failures : RenderFails(e, o)
  \/ Link(e) \/ LinkFails(e) \/ StatOutput(e) \/ StatFails(e)
  \/ Cleanup(e) \/ RecordArtifact(e) \/ RecordFails(e)
  \/ RollbackStat(e) \/ RollbackUnlink(e)
  \/ VerifyHash(e) \/ VerifyMtime(e)

Environment ==
  \/ \E e \in Execs : Crash(e)
  \/ \E p \in Outputs : ForeignCreate(p) \/ ForeignRemove(p)
  \/ SourceWrite

Next == (\E e \in Execs : Step(e)) \/ Environment
Spec == Init /\ [][Next]_vars

(* An execution that is not killed keeps being scheduled; every subprocess *)
(* it waits for has a timeout.                                             *)
FairSpec == Spec /\ \A e \in Execs : WF_vars(Step(e))

-----------------------------------------------------------------------------
Completed(e) == {c \in Cands : outcome[e][c] = "completed"}
MadeBy(e) == {p \in Paths : fs[p] # NoFile /\ fs[p].by = e}

(* No-overwrite (README): a file at an output path is never replaced, and  *)
(* only the execution that published it takes it away again, while it      *)
(* rolls that very output back.                                            *)
RollsBack(e, p) == phase[e] = "rollback_unlink" /\ Path(e) = p
OnlyTheCreatorRemoves ==
  [][\A p \in Paths : fs[p] # NoFile =>
       \/ fs'[p] = fs[p]
       \/ fs'[p] = NoFile /\ fs[p].by \in Execs /\ RollsBack(fs[p].by, p)]_vars

(* A completed candidate has all its outputs on disk, made by the          *)
(* execution that reports it and listed in its record, whatever the        *)
(* executions beside it publish, fail and roll back.                       *)
CompletedIsPublished ==
  \A e \in Execs : OutputsOf(e, Completed(e)) \subseteq MadeBy(e) \cap arts[e]

(* When an execution returns its record, what it left under the output     *)
(* root are the outputs of its completed candidates: a failed, cancelled   *)
(* or timed out candidate leaves neither its clip nor its sidecar, and the *)
(* temporary directory is gone.                                            *)
NoOrphans ==
  \A e \in Execs : phase[e] = "done" =>
    /\ MadeBy(e) = OutputsOf(e, Completed(e))
    /\ temp[e] = NothingRendered

(* The record lists what is there, no more and no less.                    *)
RecordTruthful ==
  \A e \in Execs : phase[e] = "done" => arts[e] = OutputsOf(e, Completed(e))

(* The status says what happened to the candidates: success when all of    *)
(* them completed, partial when some did, the others when none did.        *)
StatusTruthful ==
  \A e \in Execs :
    /\ status[e] = "success" => Completed(e) = Planned(e)
    /\ status[e] = "partial" => Completed(e) # {}
    /\ status[e] \in Failures => Completed(e) = {}

(* A success was cut from the bytes whose hash the plan names, although    *)
(* the source may be written between any two of its reads, and restored.   *)
SuccessIsFromThePlannedSource ==
  \A e \in Execs : status[e] = "success" =>
    \A p \in MadeBy(e) : fs[p].data = "planned"

(* A conflict that is there before an execution starts, and stays, is      *)
(* found by the preflight, before any candidate is published: also one on  *)
(* the last candidate's sidecar leaves the output root as it was.          *)
ConflictIsFound(e, p) ==
  []((phase[e] = "validate" /\ fs[p] # NoFile) => ([](MadeBy(e) = {}) \/ <>(fs[p] = NoFile)))
ConflictPublishesNothing ==
  \A e \in Execs : \A p \in OutputsOf(e, Planned(e)) : ConflictIsFound(e, p)

(* An execution that is not killed ends with a record: no failure stops    *)
(* the loop or makes it try a candidate again.                             *)
EveryExecutionEnds == \A e \in Execs : <>(phase[e] \in {"done", "dead"})

(* The executions keep the promises of OutputLedger.                       *)
Ledger == INSTANCE OutputLedger WITH
  Bundles <- [e \in Execs |-> {OutputsOf(e, {c}) : c \in Planned(e)}],
  owner <- [p \in Paths |-> IF fs[p] = NoFile THEN Nobody ELSE fs[p].by],
  open <- {e \in Execs : phase[e] \notin {"done", "dead"}},
  record <- [e \in Execs |-> IF phase[e] = "done" THEN {arts[e]} ELSE {}]
KeepsLedger == Ledger!Spec
=============================================================================
