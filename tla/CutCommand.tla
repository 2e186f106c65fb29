----------------------------- MODULE CutCommand -----------------------------
(***************************************************************************)
(* The commands cut and full (cli.py): run one plan into an output         *)
(* directory, store execution-record.json beside the clips, emit the       *)
(* record, exit with a code.  Several commands may be given the same       *)
(* directory, at the same time or one after the other, and be killed.      *)
(*                                                                         *)
(* The execution itself is PlanExecution; here it publishes the outputs of *)
(* one candidate in one step, which is what OutputLedger promises of it.   *)
(***************************************************************************)
EXTENDS Naturals, Sequences

CONSTANTS
  Commands,
  Plan,        \* the candidates of the plan, in decision order
  Faults,      \* what may fail: "execute" a candidate or a check, "write" the record
  Nobody

ASSUME CutConstants ==
  /\ \A i, j \in 1..Len(Plan) : Plan[i] = Plan[j] => i = j
  /\ Plan \in Seq({Plan[i] : i \in 1..Len(Plan)})
  /\ Faults \subseteq {"execute", "write"}
  /\ Nobody \notin Commands

Clips == {Plan[i] : i \in 1..Len(Plan)}
Phases == {"check", "preflight", "execute", "store", "write", "emit", "exited", "killed"}

VARIABLES
  clips,     \* candidate -> the command whose outputs are on disk
  file,      \* execution-record.json: who created it, and is it all there?
  phase,     \* command -> what it does next
  idx,       \* command -> position in the plan
  failed,    \* command -> is there a failed step?
  emitted,   \* command -> was the record written to stdout?
  exit       \* command -> exit code, 1 while it has none

vars == <<clips, file, phase, idx, failed, emitted, exit>>

TypeOK ==
  /\ clips \in [Clips -> Commands \cup {Nobody}]
  /\ file \in [by : Commands \cup {Nobody}, whole : BOOLEAN]
  /\ phase \in [Commands -> Phases]
  /\ idx \in [Commands -> 1..(Len(Plan) + 1)]
  /\ failed \in [Commands -> BOOLEAN]
  /\ emitted \in [Commands -> BOOLEAN]
  /\ exit \in [Commands -> {0, 1, 2, 4}]

Init ==
  /\ clips = [k \in Clips |-> Nobody]
  /\ file = [by |-> Nobody, whole |-> FALSE]
  /\ phase = [c \in Commands |-> "check"]
  /\ idx = [c \in Commands |-> 1]
  /\ failed = [c \in Commands |-> FALSE]
  /\ emitted = [c \in Commands |-> FALSE]
  /\ exit = [c \in Commands |-> 1]

Goto(c, ph) == phase' = [phase EXCEPT ![c] = ph]
Exits(c, code) == Goto(c, "exited") /\ exit' = [exit EXCEPT ![c] = code]

(* _error: nothing but the error is emitted.                               *)
Error(c) == Exits(c, 2) /\ UNCHANGED <<clips, file, idx, failed, emitted>>

(* _require_output_available.                                              *)
Check(c) ==
  /\ phase[c] = "check"
  /\ IF file.by # Nobody THEN Error(c)
     ELSE Goto(c, "preflight") /\ UNCHANGED <<clips, file, idx, failed, emitted, exit>>

(* An unreadable plan or media file, before the execution.                 *)
Unreadable(c) ==
  /\ phase[c] = "check" /\ "execute" \in Faults
  /\ Error(c)

Preflight(c) ==
  /\ phase[c] = "preflight"
  /\ \/ /\ \A k \in Clips : clips[k] = Nobody
        /\ Goto(c, "execute") /\ UNCHANGED failed
     \/ /\ "execute" \in Faults \/ \E k \in Clips : clips[k] # Nobody
        /\ Goto(c, "store") /\ failed' = [failed EXCEPT ![c] = TRUE]
  /\ UNCHANGED <<clips, file, idx, emitted, exit>>

Publish(c) ==
  /\ phase[c] = "execute" /\ idx[c] <= Len(Plan)
  /\ clips[Plan[idx[c]]] = Nobody
  /\ clips' = [clips EXCEPT ![Plan[idx[c]]] = c]
  /\ idx' = [idx EXCEPT ![c] = @ + 1]
  /\ UNCHANGED <<file, phase, failed, emitted, exit>>

BadClipFails(c) ==   \* a candidate whose outputs exist is taken for done
  /\ phase[c] = "execute" /\ idx[c] <= Len(Plan)
  /\ clips[Plan[idx[c]]] # Nobody
  /\ idx' = [idx EXCEPT ![c] = @ + 1]
  /\ UNCHANGED <<clips, file, phase, failed, emitted, exit>>

ClipFails(c) ==
  /\ phase[c] = "execute" /\ idx[c] <= Len(Plan)
  /\ "execute" \in Faults \/ clips[Plan[idx[c]]] # Nobody
  /\ failed' = [failed EXCEPT ![c] = TRUE]
  /\ idx' = [idx EXCEPT ![c] = @ + 1]
  /\ UNCHANGED <<clips, file, phase, emitted, exit>>

(* verify-source, and the record is built.                                 *)
Verify(c) ==
  /\ phase[c] = "execute" /\ idx[c] > Len(Plan)
  /\ failed' \in {failed} \cup
       IF "execute" \in Faults THEN {[failed EXCEPT ![c] = TRUE]} ELSE {}
  /\ Goto(c, "store")
  /\ UNCHANGED <<clips, file, idx, emitted, exit>>

-----------------------------------------------------------------------------
BadStore(c) ==   \* open("w")
  /\ phase[c] = "store"
  /\ file' = [by |-> c, whole |-> FALSE]
  /\ Goto(c, "write")
  /\ UNCHANGED <<clips, idx, failed, emitted, exit>>

(* open("x"): the conflict is a CutupError, which suppress(OSError) lets   *)
(* pass, so that also a failed record is then not emitted.                 *)
Store(c) ==
  /\ phase[c] = "store"
  /\ IF file.by # Nobody THEN Error(c)
     ELSE /\ file' = [by |-> c, whole |-> FALSE]
          /\ Goto(c, "write")
          /\ UNCHANGED <<clips, idx, failed, emitted, exit>>

Write(c) ==
  /\ phase[c] = "write"
  /\ file' = [file EXCEPT !.whole = TRUE]
  /\ Goto(c, "emit")
  /\ UNCHANGED <<clips, idx, failed, emitted, exit>>

(* mkdir, open or write fails with another OSError.                        *)
StoreFails(c) ==
  /\ "write" \in Faults /\ phase[c] \in {"store", "write"}
  /\ IF failed[c]
     THEN Goto(c, "emit") /\ UNCHANGED <<clips, file, idx, failed, emitted, exit>>
     ELSE Error(c)

Emit(c) ==
  /\ phase[c] = "emit"
  /\ emitted' = [emitted EXCEPT ![c] = TRUE]
  /\ Exits(c, IF failed[c] THEN 4 ELSE 0)
  /\ UNCHANGED <<clips, file, idx, failed>>

Kill(c) ==
  /\ phase[c] \notin {"exited", "killed"}
  /\ Goto(c, "killed")
  /\ UNCHANGED <<clips, file, idx, failed, emitted, exit>>

Next ==
  \E c \in Commands :
    \/ Check(c) \/ Unreadable(c) \/ Preflight(c) \/ Publish(c) \/ ClipFails(c)
    \/ Verify(c) \/ Store(c) \/ Write(c) \/ StoreFails(c) \/ Emit(c) \/ Kill(c)

Spec == Init /\ [][Next]_vars

-----------------------------------------------------------------------------
Made(c) == {k \in Clips : clips[k] = c}

(* Exit code 0 is the whole promise, whoever else uses the directory:      *)
(* every clip of the plan is there and is this command's, its record is    *)
(* stored and was emitted.                                                 *)
ExitZeroIsComplete ==
  \A c \in Commands : exit[c] = 0 =>
    /\ Made(c) = Clips
    /\ file = [by |-> c, whole |-> TRUE]
    /\ emitted[c]

=============================================================================
