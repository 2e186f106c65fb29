------------------------------ MODULE BlindRun ------------------------------
(***************************************************************************)
(* Blind runs (application/blind_runs.py): a freezer hashes the files of a *)
(* result directory one by one and creates the manifest; a reader checks   *)
(* the directory against the manifest, again file by file, and only then   *)
(* opens the curated reference.  The directory is not locked: anybody may  *)
(* write to it meanwhile, and several freezers and readers may run.  One   *)
(* that is killed, between two files or inside the write of the manifest,  *)
(* takes no further step.                                                  *)
(*                                                                         *)
(* A hash is taken for the file it was taken of: file[p] stands for both.  *)
(* edits counts what others did to a file, so no content ever comes back.  *)
(***************************************************************************)
EXTENDS Naturals, Sequences

CONSTANTS
  Freezers,
  Readers,
  Paths,
  Sorted,       \* the paths in the order of sorted()
  Runs,         \* the identities (suite, case, track) a run or a reference has
  Anonymous,    \* of a manifest that was given no suite and case
  ByCommand,    \* freezers started as the command blind-freeze
  NoFile

VARIABLES
  file,         \* path -> NoFile or a content: the result directory
  run,          \* the identity of the blind input the results were made for
  manifest,     \* the manifest on disk: who created it, is it whole, its contents
  fpc, ftodo, fgot,       \* freezer: what next, paths listed, hashes taken
  rpc, rtodo, rgot,       \* reader: the same
  expected,     \* reader -> the manifest it read
  began,        \* history: the directory when the freezer listed it, and
  saw,          \*          when the reader read the manifest
  asked         \* reader -> the identity of the reference it was given

freezing == <<manifest, fpc, ftodo, fgot, began>>
reading == <<rpc, rtodo, rgot, expected, saw, asked>>
blindVars == <<run, manifest, fpc, ftodo, fgot, began,
               rpc, rtodo, rgot, expected, saw, asked>>

Existing == {p \in Paths : file[p] # NoFile}
Snapshot == [p \in Existing |-> file[p]]
Nothing == [p \in {} |-> NoFile]
NoManifest == [by |-> NoFile, whole |-> FALSE, artifacts |-> Nothing, identity |-> Anonymous]

BlindInit ==
  /\ run \in Runs
  /\ manifest = NoManifest
  /\ fpc = [f \in Freezers |-> "test"]
  /\ ftodo = [f \in Freezers |-> {}]
  /\ fgot = [f \in Freezers |-> Nothing]
  /\ began = [f \in Freezers |-> Nothing]
  /\ rpc = [r \in Readers |-> "read"]
  /\ rtodo = [r \in Readers |-> {}]
  /\ rgot = [r \in Readers |-> Nothing]
  /\ expected = [r \in Readers |-> NoManifest]
  /\ saw = [r \in Readers |-> Nothing]
  /\ asked = [r \in Readers |-> Anonymous]

(* The next path of a listing.                                            *)
First(todo) == LET i == CHOOSE i \in 1..Len(Sorted) :
                         Sorted[i] \in todo /\ \A j \in 1..(i - 1) : Sorted[j] \notin todo
               IN Sorted[i]

With(got, p) == [q \in DOMAIN got \cup {p} |-> IF q = p THEN file[p] ELSE got[q]]

-----------------------------------------------------------------------------
FreezeGoes(f, where) == fpc' = [fpc EXCEPT ![f] = where]
FreezeFails(f) ==
  /\ FreezeGoes(f, "failed") /\ fgot' = [fgot EXCEPT ![f] = Nothing]
  /\ began' = [began EXCEPT ![f] = Nothing] /\ UNCHANGED <<manifest, ftodo, reading>>

(* output_path.exists(), then rglob: one listing, sorted, without the      *)
(* manifest.  An empty directory cannot be frozen.                         *)
FreezeList(f) ==
  /\ fpc[f] = "test"
  /\ IF manifest # NoManifest \/ Existing = {} THEN FreezeFails(f)
     ELSE /\ ftodo' = [ftodo EXCEPT ![f] = Existing]
          /\ began' = [began EXCEPT ![f] = Snapshot]
          /\ FreezeGoes(f, "hash") /\ UNCHANGED <<manifest, fgot, reading>>

BadHash(f) ==   \* stops after the first file
  /\ fpc[f] = "hash"
  /\ ftodo' = [ftodo EXCEPT ![f] = {}]
  /\ fgot' = [fgot EXCEPT ![f] = With(@, First(ftodo[f]))]
  /\ FreezeGoes(f, "create")
  /\ UNCHANGED <<manifest, began, reading>>

FreezeHash(f) ==
  /\ fpc[f] = "hash"
  /\ ftodo' = [ftodo EXCEPT ![f] = @ \ {First(@)}]
  /\ fgot' = [fgot EXCEPT ![f] = With(@, First(ftodo[f]))]
  /\ FreezeGoes(f, IF ftodo[f] = {First(ftodo[f])} THEN "create" ELSE "hash")
  /\ UNCHANGED <<manifest, began, reading>>

BadCreate(f) ==   \* open("w")
  /\ fpc[f] = "create"
  /\ manifest' = [NoManifest EXCEPT !.by = f]
  /\ FreezeGoes(f, "write") /\ UNCHANGED <<ftodo, fgot, began, reading>>

(* open("x"): of two freezers that passed the test, the second fails.      *)
FreezeCreate(f) ==
  /\ fpc[f] = "create"
  /\ IF manifest # NoManifest THEN FreezeFails(f)
     ELSE /\ manifest' = [NoManifest EXCEPT !.by = f]
          /\ FreezeGoes(f, "write") /\ UNCHANGED <<ftodo, fgot, began, reading>>

(* The identity a freezer may be given.  The command gives freeze_blind_run *)
(* no blind input: suite, case and track stay None.  A caller of the        *)
(* library may give none either, or one without suite and case.            *)
Given(f) == {Anonymous} \cup (IF f \in ByCommand THEN {} ELSE {run})

FreezeWrite(f) ==
  /\ fpc[f] = "write"
  /\ \E identity \in Given(f) :
       manifest' = [by |-> f, whole |-> TRUE, artifacts |-> fgot[f], identity |-> identity]
  /\ fgot' = [fgot EXCEPT ![f] = Nothing]
  /\ FreezeGoes(f, "done") /\ UNCHANGED <<ftodo, began, reading>>

Freeze(f) ==
  FreezeList(f) \/ FreezeHash(f) \/ FreezeCreate(f) \/ FreezeWrite(f)

-----------------------------------------------------------------------------
ReadGoes(r, where) == rpc' = [rpc EXCEPT ![r] = where]

(* A missing manifest, or one cut off in its write, is an error.           *)
ReadManifest(r) ==
  /\ rpc[r] = "read"
  /\ manifest.whole
  /\ expected' = [expected EXCEPT ![r] = manifest]
  /\ saw' = [saw EXCEPT ![r] = Snapshot]
  /\ ReadGoes(r, "list") /\ UNCHANGED <<freezing, rtodo, rgot, asked>>

ReadList(r) ==
  /\ rpc[r] = "list"
  /\ rtodo' = [rtodo EXCEPT ![r] = Existing]
  /\ ReadGoes(r, "hash") /\ UNCHANGED <<freezing, rgot, expected, saw, asked>>

ReadHash(r) ==
  /\ rpc[r] = "hash" /\ rtodo[r] # {}
  /\ rtodo' = [rtodo EXCEPT ![r] = @ \ {First(@)}]
  /\ rgot' = [rgot EXCEPT ![r] = With(@, First(rtodo[r]))]
  /\ UNCHANGED <<freezing, rpc, expected, saw, asked>>

BadCompare(r) ==   \* the artifacts of the manifest are looked up one by one
  /\ rpc[r] = "hash" /\ rtodo[r] = {}
  /\ ReadGoes(r, IF \A p \in DOMAIN expected[r].artifacts :
                      p \in DOMAIN rgot[r] /\ rgot[r][p] = expected[r].artifacts[p]
                 THEN "verified" ELSE "refused")
  /\ rgot' = [rgot EXCEPT ![r] = Nothing]
  /\ UNCHANGED <<freezing, rtodo, expected, saw, asked>>

(* actual != expected compares the sorted tuples, names included.          *)
Compare(r) ==
  /\ rpc[r] = "hash" /\ rtodo[r] = {}
  /\ ReadGoes(r, IF rgot[r] = expected[r].artifacts THEN "verified" ELSE "refused")
  /\ rgot' = [rgot EXCEPT ![r] = Nothing]
  /\ UNCHANGED <<freezing, rtodo, expected, saw, asked>>

(* load_reference_after_freeze: the identity is compared only when the     *)
(* manifest has one.  The file name of a reference is left out.            *)
OpenReference(r, ref) ==
  /\ rpc[r] = "verified"
  /\ asked' = [asked EXCEPT ![r] = ref]
  /\ ReadGoes(r, IF expected[r].identity \in {Anonymous, ref} THEN "opened" ELSE "mismatch")
  /\ UNCHANGED <<freezing, rtodo, rgot, expected, saw>>

Read(r) ==
  \/ ReadManifest(r) \/ ReadList(r) \/ ReadHash(r) \/ Compare(r)
  \/ \E ref \in Runs : OpenReference(r, ref)

-----------------------------------------------------------------------------
(* The reference is opened only for results nobody touched, from the       *)
(* moment each file was hashed for the manifest to the moment the reader   *)
(* started: no file changed, none was added, and the manifest it believed  *)
(* is the one on disk.                                                     *)
OpenedMeansUntouched ==
  \A r \in Readers : rpc[r] = "opened" =>
    saw[r] = expected[r].artifacts /\ manifest = expected[r]

(* Results are refused only when something did change after the freezer    *)
(* had listed them.                                                        *)
NoFalseAlarm ==
  \A r \in Readers : rpc[r] = "refused" => Snapshot # began[expected[r].by]

(* A complete manifest is final: no other freezer, and no restart of a     *)
(* killed one, replaces it.                                                *)
FrozenForGood == [][manifest.whole => manifest' = manifest]_manifest

(* The reference that is opened is the one of the run that was frozen: what *)
(* the project's Skill asks for.  It fails where the manifest was given no *)
(* identity.                                                               *)
ReferenceOfTheRun == \A r \in Readers : rpc[r] = "opened" => asked[r] = run
=============================================================================
