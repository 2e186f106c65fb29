--------------------------- MODULE BlindWorkspace ---------------------------
(***************************************************************************)
(* One result directory, used by everybody at the same time: processes of  *)
(* one of the tools fill it (ResultTree), freezers and readers of the      *)
(* blind run hash it (BlindRun), others edit its files.                    *)
(***************************************************************************)
EXTENDS ResultTree

CONSTANTS
  Freezers, Readers, Runs, Anonymous, ByCommand,
  Outsider,
  MaxEdits     \* bound: edits by others

(* What a file can hold.                                                   *)
Contents == [by : Builders \cup {Outsider}, whole : BOOLEAN, edits : Nat]

ASSUME BlindConstants ==
  /\ ByCommand \subseteq Freezers
  /\ Anonymous \notin Runs
  /\ Outsider \notin Builders
  /\ NoFile \notin Freezers /\ NoFile \notin Contents

VARIABLES run, manifest, fpc, ftodo, fgot, rpc, rtodo, rgot, expected, began, saw, asked

(* The order of the names does not matter, only that it is always the same. *)
Sorted == <<"boundary-records", "clips", "demo-report", "documents", "media",
            "report", "run-index", "tasks", "trials">>

Blind == INSTANCE BlindRun

blindVars == <<run, manifest, fpc, ftodo, fgot, rpc, rtodo, rgot, expected, began, saw, asked>>
vars == <<treeVars, blindVars>>

Init == TreeInit /\ Blind!BlindInit

(* Somebody edits a file of the directory, or adds one.                    *)
Edit(p) ==
  /\ root /\ Edits(p) < MaxEdits
  /\ p \in {Parts[i] : i \in 1..Len(Parts)}
  /\ file' = [file EXCEPT ![p] = [by |-> Outsider, whole |-> TRUE, edits |-> Edits(p) + 1]]
  /\ UNCHANGED <<tool, root, pc, next, blindVars>>

Next ==
  \/ \E b \in Builders : Build(b) /\ UNCHANGED blindVars
  \/ \E f \in Freezers : root /\ Blind!Freeze(f) /\ UNCHANGED <<treeVars, run>>
  \/ \E r \in Readers : Blind!Read(r) /\ UNCHANGED <<treeVars, run>>
  \/ \E p \in Paths : Edit(p)

Spec == Init /\ [][Next]_vars

-----------------------------------------------------------------------------
OpenedMeansUntouched == Blind!OpenedMeansUntouched
NoFalseAlarm == Blind!NoFalseAlarm
FrozenForGood == Blind!FrozenForGood
ReferenceOfTheRun == Blind!ReferenceOfTheRun

=============================================================================
