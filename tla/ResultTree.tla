----------------------------- MODULE ResultTree -----------------------------
(***************************************************************************)
(* The tools that fill a new directory with result files: the standard     *)
(* benchmark, the four-track evaluation, the materialization of a Skill's  *)
(* output and the demo.  Several processes may be given the same           *)
(* directory, and a tool may be started again on what another one left     *)
(* when it was killed, or failed, between two files: such a process simply *)
(* takes no further step.                                                  *)
(*                                                                         *)
(* A part stands for the files written together (the fourteen files of a   *)
(* task, the index of a trial, the clips of a track); the last part of a   *)
(* tool is the document a reader looks for: the index or the report.       *)
(***************************************************************************)
EXTENDS Naturals, Sequences

CONSTANTS
  Builders,    \* processes that run the tool
  Tools,       \* the tools considered
  NoFile

ASSUME TreeConstants == Tools \subseteq {"benchmark", "four_track", "skill", "demo"}

PartsOf(t) ==
  CASE t = "benchmark"  -> <<"tasks", "run-index">>
    [] t = "four_track" -> <<"trials", "report">>
    [] t = "skill"      -> <<"documents", "boundary-records">>
    [] t = "demo"       -> <<"media", "clips", "demo-report">>

Paths == UNION {{PartsOf(t)[i] : i \in 1..Len(PartsOf(t))} : t \in Tools}

VARIABLES
  tool,   \* the tool all processes run
  root,   \* does the output directory exist?
  file,   \* path -> NoFile, or who wrote it last, is it whole, how often was it edited
  pc,     \* builder -> what it does next
  next    \* builder -> the part it writes

Written(p) == file[p] # NoFile
Edits(p) == IF Written(p) THEN file[p].edits ELSE 0

treeVars == <<tool, root, file, pc, next>>

Parts == PartsOf(tool)
Seal == Parts[Len(Parts)]

TreeInit ==
  /\ tool \in Tools
  /\ root = FALSE
  /\ file = [p \in Paths |-> NoFile]
  /\ pc = [b \in Builders |-> "start"]
  /\ next = [b \in Builders |-> 1]

Goto(b, where) == pc' = [pc EXCEPT ![b] = where]

Fails(b) == Goto(b, "failed") /\ UNCHANGED <<tool, root, file, next>>

(* output_root.exists(), which only the Skill's tool does not ask; then    *)
(* the inputs are read and validated, and the Skill's tool builds all its  *)
(* documents.                                                              *)
Start(b) ==
  /\ pc[b] = "start"
  /\ IF root /\ tool # "skill" THEN Fails(b)
     ELSE Goto(b, "make") /\ UNCHANGED <<tool, root, file, next>>

BadMake(b) ==   \* mkdir(parents=True, exist_ok=True)
  /\ pc[b] = "make"
  /\ Goto(b, "open") /\ root' = TRUE /\ UNCHANGED <<tool, file, next>>

(* mkdir without exist_ok; only the demo lets its directory exist, after   *)
(* it asked whether its media does.                                        *)
Make(b) ==
  /\ pc[b] = "make"
  /\ IF \/ root /\ tool # "demo"
        \/ tool = "demo" /\ file["media"] # NoFile
     THEN Fails(b)
     ELSE Goto(b, "open") /\ root' = TRUE /\ UNCHANGED <<tool, file, next>>

Part(b) == Parts[next[b]]
Exclusive == tool \in {"skill", "demo"}

(* A part is computed, which may raise, and its file is opened: with "x",  *)
(* or with write_text, which truncates what is there.  ffmpeg is told not  *)
(* to overwrite (-n) and clips are published by PlanExecution.             *)
Open(b) ==
  /\ pc[b] = "open"
  /\ IF Exclusive /\ Written(Part(b)) THEN Fails(b)
     ELSE /\ file' = [file EXCEPT ![Part(b)] =
                        [by |-> b, whole |-> FALSE, edits |-> Edits(Part(b))]]
          /\ Goto(b, "fill") /\ UNCHANGED <<tool, root, next>>

BadFill(b) ==   \* the index is written first and completed as parts appear
  /\ pc[b] = "fill"
  /\ file' = [file EXCEPT ![Part(b)] = [@ EXCEPT !.whole = TRUE],
                          ![Seal] = [by |-> b, whole |-> TRUE, edits |-> Edits(Seal)]]
  /\ next' = [next EXCEPT ![b] = @ + 1]
  /\ Goto(b, IF Part(b) = Seal THEN "done" ELSE "open")
  /\ UNCHANGED <<tool, root>>

Fill(b) ==
  /\ pc[b] = "fill"
  /\ file' = [file EXCEPT ![Part(b)] = [@ EXCEPT !.by = b, !.whole = TRUE]]
  /\ next' = [next EXCEPT ![b] = IF Part(b) = Seal THEN @ ELSE @ + 1]
  /\ Goto(b, IF Part(b) = Seal THEN "done" ELSE "open")
  /\ UNCHANGED <<tool, root>>

Build(b) == Start(b) \/ Make(b) \/ Open(b) \/ Fill(b)

-----------------------------------------------------------------------------
Built(p) == Written(p) /\ file[p].by \in Builders

(* Whoever finds the index or the report of a tool finds every part it     *)
(* speaks of, whole and, unless somebody edited it, written by the same    *)
(* process, although others were started on the directory and any of them  *)
(* was killed.                                                             *)
SealedIsWhole ==
  Built(Seal) /\ file[Seal].whole =>
    \A i \in 1..Len(Parts) :
      /\ Written(Parts[i]) /\ file[Parts[i]].whole
      /\ Built(Parts[i]) => file[Parts[i]].by = file[Seal].by

(* A directory is filled by one process only: what a killed one left is    *)
(* never completed or replaced by the next.                                *)
OneBuilder ==
  \A p, q \in Paths : Built(p) /\ Built(q) => file[p].by = file[q].by
=============================================================================
