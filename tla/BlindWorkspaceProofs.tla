------------------------- MODULE BlindWorkspaceProofs -------------------------
(***************************************************************************)
(* One result directory for any number of builders, freezers, readers and  *)
(* edits: one process fills it, its index or report comes last, and the    *)
(* blind reference is opened only for results nobody touched.              *)
(***************************************************************************)
EXTENDS BlindWorkspace, TLAPS

-----------------------------------------------------------------------------
(* The tools.                                                              *)

Working(b) ==
  \/ pc[b] \in {"fill", "done"}
  \/ pc[b] = "open" /\ (tool = "demo" => next[b] > 1)

(* Nobody works before the directory is made; the demo's directory is      *)
(* taken with its first file.                                              *)
Fresh == IF tool = "demo" THEN ~Written("media") ELSE ~root

TreeTypes ==
  /\ tool \in Tools /\ root \in BOOLEAN
  /\ file \in [Paths -> Contents \cup {NoFile}]
  /\ pc \in [Builders -> {"start", "make", "open", "fill", "done", "failed"}]
  /\ next \in [Builders -> 1..Len(Parts)]

Unmade == ~root => /\ \A p \in Paths : ~Written(p)
                   /\ \A b \in Builders : pc[b] \in {"start", "make", "failed"}

Untaken == Fresh => \A b \in Builders : ~Working(b) /\ \A p \in Paths : ~Built(p)

(* All that is built is built by the one that works.                       *)
OneWorks == \A b, c \in Builders : Working(b) /\ Working(c) => b = c
WorksAlone == \A b \in Builders, p \in Paths : Working(b) /\ Built(p) => file[p].by = b

(* The parts before its position are whole, those after it are not built.  *)
Progress(b) ==
  /\ pc[b] \in {"start", "make"} => next[b] = 1
  /\ pc[b] \in {"open", "fill"} => \A i \in 1..(next[b] - 1) :
       Written(Parts[i]) /\ file[Parts[i]].whole
  /\ Working(b) /\ pc[b] # "done" => \A i \in (next[b] + 1)..Len(Parts) : ~Built(Parts[i])
  /\ Working(b) /\ pc[b] = "open" => ~Built(Part(b))
  /\ pc[b] = "fill" => Written(Part(b)) /\ (Built(Part(b)) => ~file[Part(b)].whole)
SealedByDone == Built(Seal) /\ file[Seal].whole => pc[file[Seal].by] = "done"

TreeInv ==
  /\ TreeTypes /\ Unmade /\ Untaken /\ OneWorks /\ WorksAlone
  /\ OneBuilder /\ SealedIsWhole /\ SealedByDone
  /\ \A b \in Builders : Progress(b)

-----------------------------------------------------------------------------
(* The freezers and the readers.                                           *)

(* A content never comes back: each change of a file is a later one.       *)
Age(c) ==
  IF c = NoFile THEN 0
  ELSE 4 * c.edits + (IF c.by = Outsider THEN 1 ELSE IF c.whole THEN 3 ELSE 2)
Before(c, d) == c = d \/ Age(c) < Age(d)

(* What is known of the directory: a content for some of its paths.        *)
Chart(g) == DOMAIN g \subseteq Paths /\ g \in [DOMAIN g -> Contents]
Follows(g, h) ==   \* h was seen after g
  DOMAIN g \subseteq DOMAIN h /\ \A p \in DOMAIN g : Before(g[p], h[p])
Now == Blind!Snapshot

FreezerInv(f) ==
  /\ fpc[f] \in {"test", "hash", "create", "write", "done", "failed"}
  /\ Chart(began[f]) /\ Chart(fgot[f]) /\ Follows(began[f], Now)
  /\ fpc[f] = "test" => fgot[f] = Blind!Nothing
  /\ fpc[f] = "hash" => /\ ftodo[f] # {} /\ ftodo[f] \subseteq DOMAIN began[f]
                        /\ ftodo[f] \cup DOMAIN fgot[f] = DOMAIN began[f]
  /\ fpc[f] \in {"create", "write"} => DOMAIN fgot[f] = DOMAIN began[f]
  /\ fpc[f] \in {"hash", "create", "write"} =>
       /\ \A p \in DOMAIN fgot[f] : Before(began[f][p], fgot[f][p])
       /\ Follows(fgot[f], Now)
  /\ fpc[f] = "write" => manifest = [Blind!NoManifest EXCEPT !.by = f]

(* A complete manifest holds what its freezer found, file by file.         *)
ManifestInv ==
  manifest.whole =>
    /\ manifest.by \in Freezers /\ fpc[manifest.by] = "done"
    /\ Chart(manifest.artifacts)
    /\ Follows(began[manifest.by], manifest.artifacts) /\ Follows(manifest.artifacts, Now)

ReaderInv(r) ==
  /\ rpc[r] \in {"read", "list", "hash", "verified", "refused", "opened", "mismatch"}
  /\ Chart(saw[r]) /\ Chart(rgot[r])
  /\ rpc[r] \in {"read", "list"} => rgot[r] = Blind!Nothing
  /\ rpc[r] # "read" => /\ manifest.whole /\ expected[r] = manifest
                        /\ Follows(expected[r].artifacts, saw[r]) /\ Follows(saw[r], Now)
  /\ rpc[r] = "hash" =>
       /\ rtodo[r] \subseteq DOMAIN Now /\ DOMAIN saw[r] \subseteq rtodo[r] \cup DOMAIN rgot[r]
       /\ \A p \in DOMAIN saw[r] \cap DOMAIN rgot[r] : Before(saw[r][p], rgot[r][p])
       /\ Follows(rgot[r], Now)
  /\ rpc[r] \in {"verified", "opened"} => saw[r] = expected[r].artifacts
  /\ rpc[r] = "refused" => Now # began[expected[r].by]

BlindTypes ==
  /\ run \in Runs
  /\ DOMAIN fpc = Freezers /\ DOMAIN ftodo = Freezers
  /\ DOMAIN fgot = Freezers /\ DOMAIN began = Freezers
  /\ DOMAIN rpc = Readers /\ DOMAIN rtodo = Readers /\ DOMAIN rgot = Readers
  /\ DOMAIN expected = Readers /\ DOMAIN saw = Readers /\ DOMAIN asked = Readers

BlindInv ==
  /\ BlindTypes /\ ManifestInv
  /\ \A f \in Freezers : FreezerInv(f)
  /\ \A r \in Readers : ReaderInv(r)

-----------------------------------------------------------------------------
(* The parts of the tools, and the order of the paths.                     *)

LEMMA PartsFacts ==
  ASSUME tool \in Tools
  PROVE  /\ Len(Parts) \in {2, 3}
         /\ \A i \in 1..Len(Parts) : Parts[i] \in Paths
         /\ \A i, j \in 1..Len(Parts) : Parts[i] = Parts[j] => i = j
         /\ tool = "demo" => Parts[1] = "media" /\ Len(Parts) = 3
<1>1. tool \in {"benchmark", "four_track", "skill", "demo"}
  BY TreeConstants
<1>2. \A i \in 1..Len(Parts) : Parts[i] \in Paths
  BY DEF Parts, Paths
<1>3. CASE tool = "benchmark"
  <2>1. Parts = <<"tasks", "run-index">>
    BY <1>3 DEF Parts, PartsOf
  <2> QED BY <1>2, <1>3, <2>1
<1>4. CASE tool = "four_track"
  <2>1. Parts = <<"trials", "report">>
    BY <1>4 DEF Parts, PartsOf
  <2> QED BY <1>2, <1>4, <2>1
<1>5. CASE tool = "skill"
  <2>1. Parts = <<"documents", "boundary-records">>
    BY <1>5 DEF Parts, PartsOf
  <2> QED BY <1>2, <1>5, <2>1
<1>6. CASE tool = "demo"
  <2>1. Parts = <<"media", "clips", "demo-report">>
    BY <1>6 DEF Parts, PartsOf
  <2> QED BY <1>2, <1>6, <2>1
<1> QED
  BY <1>1, <1>3, <1>4, <1>5, <1>6

LEMMA SortedFacts ==
  /\ Len(Sorted) = 9
  /\ \A p \in Paths : \E i \in 1..9 : Sorted[i] = p
<1>1. Len(Sorted) = 9
  BY DEF Sorted
<1>2. ASSUME NEW t \in Tools, NEW i \in 1..Len(PartsOf(t))
      PROVE  PartsOf(t)[i] \in {"boundary-records", "clips", "demo-report", "documents", "media",
                                "report", "run-index", "tasks", "trials"}
  <2>1. \/ PartsOf(t) = <<"tasks", "run-index">>
        \/ PartsOf(t) = <<"trials", "report">>
        \/ PartsOf(t) = <<"documents", "boundary-records">>
        \/ PartsOf(t) = <<"media", "clips", "demo-report">>
    BY TreeConstants DEF PartsOf
  <2> QED
    BY <2>1
<1>3. /\ Sorted[1] = "boundary-records" /\ Sorted[2] = "clips" /\ Sorted[3] = "demo-report"
      /\ Sorted[4] = "documents" /\ Sorted[5] = "media" /\ Sorted[6] = "report"
      /\ Sorted[7] = "run-index" /\ Sorted[8] = "tasks" /\ Sorted[9] = "trials"
  BY DEF Sorted
<1>4. ASSUME NEW p \in Paths PROVE \E i \in 1..9 : Sorted[i] = p
  <2>1. p \in {"boundary-records", "clips", "demo-report", "documents", "media",
               "report", "run-index", "tasks", "trials"}
    BY <1>2 DEF Paths
  <2> QED
    BY <1>3, <2>1
<1> QED
  BY <1>1, <1>4

(* The next path of a listing is one of the listing.                       *)
LEMMA FirstIsListed ==
  ASSUME NEW todo, todo \subseteq Paths, todo # {}
  PROVE  Blind!First(todo) \in todo
<1> DEFINE Hit(i) == Sorted[i] \in todo
           Least(i) == i \in 1..Len(Sorted) /\ Hit(i) /\ \A j \in 1..(i - 1) : ~Hit(j)
<1>1. \E i \in 1..9 : Hit(i)
  BY SortedFacts
<1>2. \E i \in 1..9 : Hit(i) /\ \A j \in 1..(i - 1) : ~Hit(j)
  <2> HIDE DEF Hit
  <2>1. CASE Hit(1) BY <2>1
  <2>2. CASE ~Hit(1) /\ Hit(2) BY <2>2
  <2>3. CASE ~Hit(1) /\ ~Hit(2) /\ Hit(3) BY <2>3
  <2>4. CASE ~Hit(1) /\ ~Hit(2) /\ ~Hit(3) /\ Hit(4) BY <2>4
  <2>5. CASE ~Hit(1) /\ ~Hit(2) /\ ~Hit(3) /\ ~Hit(4)
    <3>1. CASE Hit(5) BY <2>5, <3>1
    <3>2. CASE ~Hit(5) /\ Hit(6) BY <2>5, <3>2
    <3>3. CASE ~Hit(5) /\ ~Hit(6) /\ Hit(7) BY <2>5, <3>3
    <3>4. CASE ~Hit(5) /\ ~Hit(6) /\ ~Hit(7) /\ Hit(8) BY <2>5, <3>4
    <3>5. CASE ~Hit(5) /\ ~Hit(6) /\ ~Hit(7) /\ ~Hit(8) BY <1>1, <2>5, <3>5
    <3> QED BY <3>1, <3>2, <3>3, <3>4, <3>5
  <2> QED BY <2>1, <2>2, <2>3, <2>4, <2>5
<1>3. Least(CHOOSE i \in 1..Len(Sorted) : Hit(i) /\ \A j \in 1..(i - 1) : ~Hit(j))
  BY <1>2, SortedFacts
<1> QED
  BY <1>3 DEF Blind!First

-----------------------------------------------------------------------------
(* The steps of the tools and of those who edit.                           *)

(* The rest of a builder's state when it changes none of the files.        *)
LEMMA FilesKept ==
  ASSUME TreeInv, tool' = tool, file' = file
  PROVE  /\ Parts' = Parts /\ Seal' = Seal
         /\ \A p \in Paths : (Written(p)' <=> Written(p)) /\ (Built(p)' <=> Built(p))
         /\ OneBuilder' /\ SealedIsWhole'
BY DEF TreeInv, Parts, Seal, Written, Built, OneBuilder, SealedIsWhole

(* A process that gives up, or passes its first test, works not more than  *)
(* before.                                                                 *)
LEMMA PcStep ==
  ASSUME TreeInv, NEW b \in Builders, NEW where \in {"make", "failed"}, Goto(b, where),
         pc[b] # "done", where = "make" => pc[b] = "start",
         UNCHANGED <<tool, root, file, next>>
  PROVE  TreeInv'
<1> USE DEF TreeInv, TreeTypes, Goto
<1>1. \A c \in Builders : pc'[c] = IF c = b THEN where ELSE pc[c]
  OBVIOUS
<1>2. /\ Parts' = Parts /\ Seal' = Seal /\ tool' = tool
      /\ \A p \in Paths : (Written(p)' <=> Written(p)) /\ (Built(p)' <=> Built(p))
      /\ OneBuilder' /\ SealedIsWhole'
  BY FilesKept
<1>3. \A c \in Builders : Working(c)' => Working(c) /\ pc'[c] = pc[c]
  BY <1>1 DEF Working
<1>4. TreeTypes' /\ Unmade'
  BY <1>1, <1>2 DEF Unmade
<1>5. Untaken' /\ OneWorks' /\ WorksAlone'
  BY <1>2, <1>3 DEF Untaken, Fresh, Written, OneWorks, WorksAlone
<1>6. SealedByDone'
  <2>1. Seal \in Paths /\ (Built(Seal) => file[Seal].by \in Builders)
    BY PartsFacts DEF Seal, Built
  <2> QED
    BY <1>1, <1>2, <2>1 DEF SealedByDone
<1>7. ASSUME NEW c \in Builders PROVE Progress(c)'
  BY <1>1, <1>2, <1>3 DEF Progress, Part, Built, Written
<1> QED
  BY <1>2, <1>4, <1>5, <1>6, <1>7

(* The directory is made, or in the demo taken as it is.                   *)
LEMMA MakeStep ==
  ASSUME TreeInv, NEW b \in Builders, Make(b), ~Fails(b)
  PROVE  TreeInv'
<1> USE DEF TreeInv, TreeTypes, Goto
<1>1. /\ pc[b] = "make" /\ root' = TRUE /\ UNCHANGED <<tool, file, next>>
      /\ pc' = [pc EXCEPT ![b] = "open"]
      /\ \A c \in Builders : pc'[c] = IF c = b THEN "open" ELSE pc[c]
      /\ IF tool = "demo" THEN TRUE ELSE ~root
  BY DEF Make
<1>2. /\ Parts' = Parts /\ Seal' = Seal
      /\ \A p \in Paths : (Written(p)' <=> Written(p)) /\ (Built(p)' <=> Built(p))
      /\ OneBuilder' /\ SealedIsWhole'
  BY <1>1, FilesKept
<1>3. next[b] = 1 /\ ~Working(b)
  BY <1>1 DEF Progress, Working
<1>4. \A c \in Builders : Working(c)' =>
        \/ Working(c) /\ c # b /\ pc'[c] = pc[c]
        \/ c = b /\ tool # "demo" /\ Fresh
  BY <1>1, <1>3 DEF Working, Fresh
<1>5. Fresh' => Fresh
  BY <1>1 DEF Fresh, Written
<1>6. Unmade'
  BY <1>1 DEF Unmade
<1>7. Untaken' /\ OneWorks' /\ WorksAlone'
  <2>1. Untaken'
    BY <1>1, <1>2, <1>4, <1>5 DEF Untaken, Fresh
  <2>2. OneWorks'
    BY <1>1, <1>4 DEF Untaken, OneWorks
  <2>3. WorksAlone'
    BY <1>1, <1>2, <1>4 DEF Untaken, WorksAlone
  <2> QED BY <2>1, <2>2, <2>3
<1>8. SealedByDone'
  <2>1. Seal \in Paths /\ (Built(Seal) => file[Seal].by \in Builders)
    BY PartsFacts DEF Seal, Built
  <2> QED
    BY <1>1, <1>2, <2>1 DEF SealedByDone
<1>9. ASSUME NEW c \in Builders PROVE Progress(c)'
  <2>1. CASE c = b
    <3>1. Working(b)' => \A p \in Paths : ~Built(p)
      BY <1>3, <1>4 DEF Untaken
    <3> QED
      BY <1>1, <1>2, <1>3, <2>1, <3>1, PartsFacts DEF Progress, Part
  <2>2. CASE c # b
    BY <1>1, <1>2, <1>4, <2>2 DEF Progress, Part, Built, Written
  <2> QED BY <2>1, <2>2
<1>10. TreeTypes'
  BY <1>1, <1>2
<1> QED
  BY <1>2, <1>6, <1>7, <1>8, <1>9, <1>10

(* A part is opened by the only one that works, or by the first to start.  *)
LEMMA OpenStep ==
  ASSUME TreeInv, NEW b \in Builders, Open(b), ~Fails(b)
  PROVE  TreeInv' /\ \A p \in Paths : file'[p] = file[p] \/ Age(file[p]) < Age(file'[p])
<1> USE DEF TreeInv, TreeTypes, Goto
<1> DEFINE new == [by |-> b, whole |-> FALSE, edits |-> Edits(Part(b))]
<1>1. /\ pc[b] = "open" /\ UNCHANGED <<tool, root, next>>
      /\ pc' = [pc EXCEPT ![b] = "fill"]
      /\ \A c \in Builders : pc'[c] = IF c = b THEN "fill" ELSE pc[c]
      /\ file' = [file EXCEPT ![Part(b)] = new]
      /\ Exclusive => ~Written(Part(b))
  BY DEF Open
<1>2. /\ Part(b) \in Paths /\ next[b] \in 1..Len(Parts) /\ Part(b) = Parts[next[b]]
      /\ Part(b)' = Part(b) /\ Parts' = Parts /\ Seal' = Seal /\ Seal \in Paths /\ Seal = Parts[Len(Parts)]
      /\ \A i \in 1..Len(Parts) : Parts[i] \in Paths
      /\ \A i, j \in 1..Len(Parts) : Parts[i] = Parts[j] => i = j
  BY <1>1, PartsFacts DEF Part, Parts, Seal
<1>3. new \in Contents /\ new # NoFile
  <2>1. Edits(Part(b)) \in Nat
    BY <1>2 DEF Edits, Written, Contents
  <2>2. new \in Contents
    BY <2>1 DEF Contents
  <2> QED
    BY <2>2, BlindConstants
<1> HIDE DEF new
<1>4. /\ file'[Part(b)] = new
      /\ \A p \in Paths : p # Part(b) => file'[p] = file[p]
  BY <1>1, <1>2
<1>5. new.by = b /\ new.whole = FALSE /\ new.edits = Edits(Part(b))
  BY DEF new
<1>6. /\ Written(Part(b))' /\ Built(Part(b))'
      /\ \A p \in Paths : p # Part(b) => (Written(p)' <=> Written(p)) /\ (Built(p)' <=> Built(p))
  BY <1>2, <1>3, <1>4, <1>5 DEF Written, Built
<1>7. ~Built(Part(b)) /\ \A p \in Paths : Built(p) => file[p].by = b
  <2>1. CASE Working(b)
    BY <1>1, <2>1 DEF Progress, WorksAlone
  <2>2. CASE ~Working(b)
    <3>1. tool = "demo" /\ next[b] = 1
      BY <1>1, <2>2 DEF Working
    <3>2. Part(b) = "media" /\ Fresh
      BY <1>1, <1>2, <3>1, PartsFacts DEF Exclusive, Fresh
    <3> QED
      BY <1>2, <3>2 DEF Untaken
  <2> QED BY <2>1, <2>2
<1>8. \A c \in Builders \ {b} : ~Working(c)
  <2>1. CASE Working(b)
    BY <2>1 DEF OneWorks
  <2>2. CASE ~Working(b)
    <3>1. tool = "demo" /\ next[b] = 1
      BY <1>1, <2>2 DEF Working
    <3>2. Part(b) = "media" /\ Fresh
      BY <1>1, <1>2, <3>1, PartsFacts DEF Exclusive, Fresh
    <3> QED
      BY <3>2 DEF Untaken
  <2> QED BY <2>1, <2>2
<1>9. \A c \in Builders \ {b} : ~Working(c)'
  BY <1>1, <1>8 DEF Working
<1>10. ~Fresh'
  <2>1. CASE tool = "demo"
    <3>1. Written("media")'
      <4>1. CASE Part(b) = "media"
        BY <1>2, <1>6, <4>1 DEF Written
      <4>2. CASE Part(b) # "media"
        <5>1. Working(b) /\ "media" \in Paths
          BY <1>1, <1>2, <2>1, <4>2, PartsFacts DEF Working
        <5>2. Written("media")
          BY <2>1, <5>1 DEF Untaken, Fresh
        <5> QED
          BY <1>6, <4>2, <5>1, <5>2
      <4> QED BY <4>1, <4>2
    <3> QED
      BY <1>1, <2>1, <3>1 DEF Fresh
  <2>2. CASE tool # "demo"
    BY <1>1, <2>2 DEF Fresh, Unmade
  <2> QED BY <2>1, <2>2
<1>11. ~(Built(Seal) /\ file[Seal].whole)
  <2> SUFFICES ASSUME Built(Seal), file[Seal].whole PROVE FALSE
    OBVIOUS
  <2>1. file[Seal].by = b
    BY <1>2, <1>7
  <2> QED
    BY <1>1, <2>1 DEF SealedByDone
<1>12. ~(Built(Seal)' /\ file'[Seal].whole)
  <2>1. CASE Seal = Part(b)
    BY <1>4, <1>5, <2>1
  <2>2. CASE Seal # Part(b)
    BY <1>2, <1>4, <1>6, <1>11, <2>2
  <2> QED BY <2>1, <2>2
<1>13. TreeTypes' /\ Unmade' /\ Untaken'
  BY <1>1, <1>2, <1>3, <1>10 DEF Unmade, Untaken
<1>14. OneWorks' /\ WorksAlone' /\ OneBuilder'
  BY <1>2, <1>4, <1>5, <1>6, <1>7, <1>9 DEF OneWorks, WorksAlone, OneBuilder
<1>15. SealedIsWhole' /\ SealedByDone'
  BY <1>2, <1>12 DEF SealedIsWhole, SealedByDone
<1>16. ASSUME NEW c \in Builders PROVE Progress(c)'
  <2>1. CASE c = b
    <3>1. \A i \in 1..(next[b] - 1) : Written(Parts[i])' /\ file'[Parts[i]].whole
      <4> SUFFICES ASSUME NEW i \in 1..(next[b] - 1)
                   PROVE  Written(Parts[i])' /\ file'[Parts[i]].whole
        BY <1>2 DEF Written
      <4>1. i \in 1..Len(Parts) /\ Parts[i] # Part(b) /\ Parts[i] \in Paths
        BY <1>2
      <4>2. Written(Parts[i]) /\ file[Parts[i]].whole
        BY <1>1 DEF Progress
      <4> QED
        BY <1>2, <1>4, <4>1, <4>2 DEF Written
    <3>2. \A i \in (next[b] + 1)..Len(Parts) : ~Built(Parts[i])'
      <4> SUFFICES ASSUME NEW i \in (next[b] + 1)..Len(Parts), Built(Parts[i])' PROVE FALSE
        BY <1>2 DEF Built, Written
      <4>1. i \in 1..Len(Parts) /\ Parts[i] # Part(b) /\ Parts[i] \in Paths
        BY <1>2
      <4>2. Built(Parts[i])
        BY <1>2, <1>4, <4>1 DEF Built, Written
      <4>3. CASE Working(b)
        BY <1>1, <4>2, <4>3 DEF Progress
      <4>4. CASE ~Working(b)
        <5>1. Fresh
          BY <1>1, <1>2, <4>4, PartsFacts DEF Working, Exclusive, Fresh
        <5> QED
          BY <4>1, <4>2, <5>1 DEF Untaken
      <4> QED BY <4>3, <4>4
    <3> QED
      BY <1>1, <1>2, <1>4, <1>5, <1>6, <2>1, <3>1, <3>2 DEF Progress, Part, Built, Written
  <2>2. CASE c # b
    <3>1. next'[c] = next[c] /\ pc'[c] = pc[c] /\ ~Working(c)' /\ pc[c] # "fill"
      BY <1>1, <1>8, <1>9, <2>2 DEF Working
    <3>2. pc[c] = "open" => next[c] = 1
      BY <1>8, <2>2 DEF Working
    <3> QED
      BY <1>2, <3>1, <3>2 DEF Progress
  <2> QED BY <2>1, <2>2
<1>17. Age(file[Part(b)]) < Age(file'[Part(b)])
  <2>1. Age(new) = 4 * Edits(Part(b)) + 2
    BY <1>3, <1>5, BlindConstants DEF Age
  <2>2. CASE file[Part(b)] = NoFile
    BY <1>4, <2>1, <2>2 DEF Age, Edits, Written
  <2>3. CASE file[Part(b)] # NoFile
    <3>1. file[Part(b)] \in Contents /\ file[Part(b)].by = Outsider
      BY <1>2, <1>7, <2>3 DEF Built, Written, Contents
    <3>2. Age(file[Part(b)]) = 4 * Edits(Part(b)) + 1 /\ Edits(Part(b)) \in Nat
      BY <2>3, <3>1 DEF Age, Edits, Written, Contents
    <3> QED
      BY <1>4, <2>1, <3>2
  <2> QED BY <2>2, <2>3
<1> QED
  BY <1>4, <1>13, <1>14, <1>15, <1>16, <1>17

(* A part is completed; with the last one the directory is sealed.         *)
LEMMA FillStep ==
  ASSUME TreeInv, NEW b \in Builders, Fill(b)
  PROVE  TreeInv' /\ \A p \in Paths : file'[p] = file[p] \/ Age(file[p]) < Age(file'[p])
<1> USE DEF TreeInv, TreeTypes, Goto
<1> DEFINE new == [file[Part(b)] EXCEPT !.by = b, !.whole = TRUE]
<1>1. /\ pc[b] = "fill" /\ UNCHANGED <<tool, root>> /\ Working(b)
      /\ pc' = [pc EXCEPT ![b] = IF Part(b) = Seal THEN "done" ELSE "open"]
      /\ next' = [next EXCEPT ![b] = IF Part(b) = Seal THEN @ ELSE @ + 1]
      /\ file' = [file EXCEPT ![Part(b)] = new]
  BY DEF Fill, Working
<1>2. /\ Part(b) \in Paths /\ next[b] \in 1..Len(Parts) /\ Part(b) = Parts[next[b]]
      /\ Parts' = Parts /\ Seal' = Seal /\ Seal \in Paths /\ Seal = Parts[Len(Parts)]
      /\ Len(Parts) \in Nat \ {0}
      /\ \A i \in 1..Len(Parts) : Parts[i] \in Paths
      /\ \A i, j \in 1..Len(Parts) : Parts[i] = Parts[j] => i = j
  BY <1>1, PartsFacts DEF Part, Parts, Seal
<1>3. /\ file[Part(b)] \in Contents /\ file[Part(b)] # NoFile
      /\ file[Part(b)].by = Outsider \/ ~file[Part(b)].whole
  BY <1>1, <1>2 DEF Progress, Built, Written, Contents
<1>4. new \in Contents /\ new.by = b /\ new.whole = TRUE /\ new.edits = file[Part(b)].edits
  BY <1>3 DEF Contents
<1>5. new # NoFile
  BY <1>4, BlindConstants
<1> HIDE DEF new
<1>6. /\ file'[Part(b)] = new
      /\ \A p \in Paths : p # Part(b) => file'[p] = file[p]
  BY <1>1, <1>2
<1>7. \A p \in Paths : /\ Written(p)' <=> Written(p)
                       /\ Built(p)' <=> Built(p) \/ p = Part(b)
  BY <1>2, <1>3, <1>4, <1>5, <1>6 DEF Written, Built
<1>8. /\ \A p \in Paths : Built(p) => file[p].by = b
      /\ \A p \in Paths : Built(p)' => file'[p].by = b
  <2>1. \A p \in Paths : Built(p) => file[p].by = b
    BY <1>1 DEF WorksAlone
  <2> QED
    BY <1>2, <1>4, <1>6, <1>7, <2>1
<1>9. /\ \A c \in Builders \ {b} : ~Working(c) /\ pc'[c] = pc[c] /\ next'[c] = next[c]
      /\ \A c \in Builders \ {b} : ~Working(c)'
  <2>1. \A c \in Builders \ {b} : ~Working(c) /\ pc'[c] = pc[c] /\ next'[c] = next[c]
    BY <1>1 DEF OneWorks
  <2> QED
    BY <1>1, <2>1 DEF Working
<1>10. /\ pc'[b] = IF Part(b) = Seal THEN "done" ELSE "open"
       /\ next'[b] = IF Part(b) = Seal THEN next[b] ELSE next[b] + 1
       /\ Part(b) = Seal <=> next[b] = Len(Parts)
  BY <1>1, <1>2
<1>11. \A i \in 1..next[b] : Written(Parts[i])' /\ file'[Parts[i]].whole
  <2> SUFFICES ASSUME NEW i \in 1..next[b]
               PROVE  Written(Parts[i])' /\ file'[Parts[i]].whole
    BY <1>2 DEF Written
  <2>1. CASE i = next[b]
    BY <1>2, <1>4, <1>5, <1>6, <2>1 DEF Written
  <2>2. CASE i # next[b]
    <3>1. i \in 1..(next[b] - 1) /\ i \in 1..Len(Parts) /\ Parts[i] # Part(b)
      BY <1>2, <2>2
    <3>2. Written(Parts[i]) /\ file[Parts[i]].whole
      BY <1>1, <3>1 DEF Progress
    <3> QED
      BY <1>2, <1>6, <3>1, <3>2 DEF Written
  <2> QED BY <2>1, <2>2
<1>12. ~Fresh'
  BY <1>1, <1>7, PartsFacts DEF Fresh, Untaken, Written
<1>13. TreeTypes' /\ Unmade' /\ Untaken'
  <2>1. next' \in [Builders -> 1..Len(Parts)]
    BY <1>1, <1>2, <1>10
  <2>2. file' \in [Paths -> Contents \cup {NoFile}]
    BY <1>1, <1>4
  <2> QED
    BY <1>1, <1>2, <1>12, <2>1, <2>2 DEF Unmade, Untaken
<1>14. OneWorks' /\ WorksAlone' /\ OneBuilder'
  BY <1>8, <1>9 DEF OneWorks, WorksAlone, OneBuilder
<1>15. SealedIsWhole' /\ SealedByDone'
  <2>1. CASE Part(b) = Seal
    BY <1>2, <1>8, <1>10, <1>11, <2>1 DEF SealedIsWhole, SealedByDone
  <2>2. CASE Part(b) # Seal
    <3>1. ~(Built(Seal) /\ file[Seal].whole)
      BY <1>1, <1>2, <1>8 DEF SealedByDone
    <3> QED
      BY <1>2, <1>6, <1>7, <2>2, <3>1 DEF SealedIsWhole, SealedByDone
  <2> QED BY <2>1, <2>2
<1>16. ASSUME NEW c \in Builders PROVE Progress(c)'
  <2>1. CASE c = b /\ Part(b) = Seal
    BY <1>10, <2>1 DEF Progress
  <2>2. CASE c = b /\ Part(b) # Seal
    <3>1. \A i \in (next[b] + 1)..Len(Parts) : ~Built(Parts[i])'
      <4> SUFFICES ASSUME NEW i \in (next[b] + 1)..Len(Parts), Built(Parts[i])' PROVE FALSE
        BY <1>2 DEF Built, Written
      <4>1. i \in 1..Len(Parts) /\ i # next[b]
        BY <1>2
      <4>2. Parts[i] \in Paths /\ Parts[i] # Part(b)
        BY <1>2, <4>1
      <4>3. ~Built(Parts[i])
        BY <1>1 DEF Progress
      <4> QED
        BY <1>2, <1>6, <4>2, <4>3 DEF Built, Written
    <3>2. pc'[b] = "open" /\ next'[b] = next[b] + 1 /\ next'[b] \in 1..Len(Parts)
      BY <1>2, <1>10, <2>2
    <3>3. ~Built(Part(b))'
      BY <1>2, <3>1, <3>2 DEF Part, Built, Written
    <3>4. \A i \in (next'[b] + 1)..Len(Parts) : ~Built(Parts[i])'
      BY <1>2, <3>1, <3>2
    <3>5. \A i \in 1..(next'[b] - 1) : Written(Parts[i])' /\ file'[Parts[i]].whole
      BY <1>2, <1>11, <3>2
    <3> QED
      BY <1>2, <2>2, <3>2, <3>3, <3>4, <3>5 DEF Progress, Built, Written
  <2>3. CASE c # b
    <3>1. next'[c] = next[c] /\ pc'[c] = pc[c] /\ ~Working(c)' /\ pc[c] # "fill"
      BY <1>9, <2>3 DEF Working
    <3>2. pc[c] = "open" => next[c] = 1
      BY <1>9, <2>3 DEF Working
    <3> QED
      BY <1>2, <3>1, <3>2 DEF Progress
  <2> QED BY <2>1, <2>2, <2>3
<1>17. Age(file[Part(b)]) < Age(file'[Part(b)])
  <2>1. b # Outsider /\ file[Part(b)].edits \in Nat
    BY <1>3, BlindConstants DEF Contents
  <2>2. Age(new) = 4 * file[Part(b)].edits + 3
    BY <1>4, <1>5, <2>1 DEF Age
  <2>3. Age(file[Part(b)]) < 4 * file[Part(b)].edits + 3
    BY <1>3, <2>1 DEF Age
  <2> QED
    BY <1>6, <2>2, <2>3
<1> QED
  BY <1>6, <1>13, <1>14, <1>15, <1>16, <1>17

(* Others edit or add a file of a directory that is there.                 *)
LEMMA EditStep ==
  ASSUME TreeInv, NEW p \in Paths, Edit(p)
  PROVE  TreeInv' /\ \A q \in Paths : file'[q] = file[q] \/ Age(file[q]) < Age(file'[q])
<1> USE DEF TreeInv, TreeTypes
<1> DEFINE new == [by |-> Outsider, whole |-> TRUE, edits |-> Edits(p) + 1]
<1>1. /\ root /\ UNCHANGED <<tool, root, pc, next>>
      /\ file' = [file EXCEPT ![p] = new]
      /\ Parts' = Parts /\ Seal' = Seal /\ Seal \in Paths
      /\ \A i \in 1..Len(Parts) : Parts[i] \in Paths
      /\ \A b \in Builders : Part(b) \in Paths /\ Part(b)' = Part(b)
                             /\ (Working(b)' <=> Working(b))
  BY PartsFacts DEF Edit, Parts, Part, Seal, Working
<1>2. Edits(p) \in Nat
  BY DEF Edits, Written, Contents
<1>3. new \in Contents /\ new.by = Outsider /\ new.whole = TRUE /\ new.edits = Edits(p) + 1
  BY <1>2 DEF Contents
<1>4. new # NoFile
  BY <1>3, BlindConstants
<1> HIDE DEF new
<1>5. file'[p] = new /\ \A q \in Paths : q # p => file'[q] = file[q]
  BY <1>1
<1>6. \A q \in Paths : /\ Written(q) => Written(q)' /\ (file[q].whole => file'[q].whole)
                       /\ Built(q)' => Built(q) /\ file'[q] = file[q]
  BY <1>3, <1>4, <1>5, BlindConstants DEF Written, Built
<1>7. Fresh' => Fresh
  BY <1>1, <1>6, PartsFacts DEF Fresh
<1>8. TreeTypes' /\ Unmade' /\ Untaken'
  BY <1>1, <1>3, <1>6, <1>7 DEF Unmade, Untaken
<1>9. OneWorks' /\ WorksAlone' /\ OneBuilder'
  BY <1>1, <1>6 DEF OneWorks, WorksAlone, OneBuilder
<1>10. SealedIsWhole' /\ SealedByDone'
  BY <1>1, <1>6 DEF SealedIsWhole, SealedByDone, Built, Written
<1>11. ASSUME NEW b \in Builders PROVE Progress(b)'
  BY <1>1, <1>6 DEF Progress, Built, Written
<1>12. Age(file[p]) < Age(file'[p])
  <2>1. Age(new) = 4 * Edits(p) + 5
    BY <1>2, <1>3, <1>4 DEF Age
  <2>2. Age(file[p]) <= 4 * Edits(p) + 3
    BY <1>2 DEF Age, Edits, Written, Contents
  <2>3. Age(file[p]) \in Nat
    BY DEF Age, Contents
  <2> QED
    BY <1>2, <1>5, <2>1, <2>2, <2>3
<1> QED
  BY <1>5, <1>8, <1>9, <1>10, <1>11, <1>12

(* The tools and the edits together: the tree stays in order, and each     *)
(* file that changes becomes a later one.                                  *)
LEMMA TreeStep ==
  ASSUME TreeInv,
         \/ \E b \in Builders : Build(b)
         \/ \E p \in Paths : Edit(p)
         \/ UNCHANGED treeVars
  PROVE  TreeInv' /\ \A p \in Paths : file'[p] = file[p] \/ Age(file[p]) < Age(file'[p])
<1>1. ASSUME NEW b \in Builders, Fails(b), pc[b] # "done"
      PROVE  TreeInv' /\ file' = file
  BY <1>1, PcStep DEF Fails
<1>2. ASSUME NEW b \in Builders, Start(b)
      PROVE  TreeInv' /\ file' = file
  <2>1. CASE Fails(b)
    BY <1>1, <1>2, <2>1 DEF Start
  <2>2. CASE ~Fails(b)
    <3>1. Goto(b, "make") /\ UNCHANGED <<tool, root, file, next>> /\ pc[b] = "start"
      BY <1>2, <2>2 DEF Start
    <3> QED
      BY <3>1, PcStep
  <2> QED BY <2>1, <2>2
<1>3. ASSUME NEW b \in Builders, Make(b)
      PROVE  TreeInv' /\ file' = file
  <2>1. CASE Fails(b)
    BY <1>1, <1>3, <2>1 DEF Make
  <2>2. CASE ~Fails(b)
    BY <1>3, <2>2, MakeStep DEF Make
  <2> QED BY <2>1, <2>2
<1>4. ASSUME NEW b \in Builders, Open(b)
      PROVE  TreeInv' /\ \A p \in Paths : file'[p] = file[p] \/ Age(file[p]) < Age(file'[p])
  <2>1. CASE Fails(b)
    BY <1>1, <1>4, <2>1 DEF Open
  <2>2. CASE ~Fails(b)
    BY <1>4, <2>2, OpenStep
  <2> QED BY <2>1, <2>2
<1>5. ASSUME UNCHANGED treeVars
      PROVE  TreeInv' /\ file' = file
  BY <1>5 DEF treeVars, TreeInv, TreeTypes, Unmade, Untaken, Fresh, OneWorks, WorksAlone,
              OneBuilder, SealedIsWhole, SealedByDone, Progress, Working, Written, Built,
              Part, Parts, Seal
<1> QED
  BY <1>2, <1>3, <1>4, <1>5, FillStep, EditStep DEF Build

LEMMA TreeStart == TreeInit => TreeInv
<1> SUFFICES ASSUME TreeInit PROVE TreeInv
  OBVIOUS
<1>1. /\ \A p \in Paths : ~Written(p) /\ ~Built(p)
      /\ Seal \in Paths /\ Len(Parts) \in Nat \ {0}
      /\ tool \in Tools /\ root = FALSE /\ (tool = "demo" => "media" \in Paths)
      /\ \A b \in Builders : ~Working(b) /\ pc[b] = "start" /\ next[b] = 1
  BY PartsFacts DEF TreeInit, Written, Built, Seal, Working
<1>2. TreeTypes
  <2>1. 1 \in 1..Len(Parts)
    BY <1>1
  <2>2. pc = [b \in Builders |-> "start"] /\ next = [b \in Builders |-> 1]
    BY DEF TreeInit
  <2>3. file = [p \in Paths |-> NoFile]
    BY DEF TreeInit
  <2> HIDE DEF Parts
  <2> QED
    BY <1>1, <2>1, <2>2, <2>3 DEF TreeTypes
<1>3. Unmade /\ Untaken /\ OneWorks /\ WorksAlone
  BY <1>1 DEF Unmade, Untaken, OneWorks, WorksAlone
<1>4. OneBuilder /\ SealedIsWhole /\ SealedByDone
  BY <1>1 DEF OneBuilder, SealedIsWhole, SealedByDone
<1>5. ASSUME NEW b \in Builders PROVE Progress(b)
  BY <1>1 DEF Progress
<1> QED
  BY <1>2, <1>3, <1>4, <1>5 DEF TreeInv

-----------------------------------------------------------------------------
(* What was seen of the directory, in the order in which it was seen.      *)

LEMMA AgeIsNat == \A c \in Contents \cup {NoFile} : Age(c) \in Nat
BY DEF Age, Contents

LEMMA FollowsOn ==
  ASSUME NEW g, NEW h, NEW k, Chart(g), Chart(h), Chart(k), Follows(g, h), Follows(h, k)
  PROVE  Follows(g, k)
<1> SUFFICES ASSUME NEW p \in DOMAIN g PROVE p \in DOMAIN k /\ Before(g[p], k[p])
  BY DEF Follows
<1>1. /\ p \in DOMAIN h /\ p \in DOMAIN k
      /\ Before(g[p], h[p]) /\ Before(h[p], k[p])
  BY DEF Follows
<1>2. Age(g[p]) \in Nat /\ Age(h[p]) \in Nat /\ Age(k[p]) \in Nat
  BY <1>1, AgeIsNat DEF Chart
<1> QED
  BY <1>1, <1>2 DEF Before

(* What is seen both before and after the same is the same.                *)
LEMMA Squeezed ==
  ASSUME NEW g, NEW h, Chart(g), Chart(h), Follows(g, h), Follows(h, g)
  PROVE  g = h
<1>1. DOMAIN g = DOMAIN h
  BY DEF Follows
<1>2. ASSUME NEW p \in DOMAIN g PROVE g[p] = h[p]
  <2>1. Age(g[p]) \in Nat /\ Age(h[p]) \in Nat
    BY <1>1, AgeIsNat DEF Chart
  <2>2. Before(g[p], h[p]) /\ Before(h[p], g[p])
    BY <1>1 DEF Follows
  <2> QED
    BY <2>1, <2>2 DEF Before
<1> QED
  BY <1>1, <1>2 DEF Chart

LEMMA FollowsItself == \A g : Follows(g, g)
BY DEF Follows, Before

LEMMA NothingFirst == Chart(Blind!Nothing) /\ \A g : Follows(Blind!Nothing, g)
BY DEF Chart, Follows, Blind!Nothing

LEMMA NowIsChart ==
  ASSUME TreeInv
  PROVE  /\ Chart(Now) /\ DOMAIN Now = Blind!Existing /\ Blind!Existing \subseteq Paths
         /\ \A p \in DOMAIN Now : Now[p] = file[p] /\ file[p] \in Contents
BY DEF TreeInv, TreeTypes, Chart, Now, Blind!Snapshot, Blind!Existing

LEMMA NowStaysChart == TreeInv' => Chart(Now)'
<1>1. TreeInv => Chart(Now)
  BY NowIsChart
<1> QED
  BY <1>1, PTL

(* The directory as it becomes follows the directory as it was.            *)
LEMMA NowMovesOn ==
  ASSUME TreeInv, TreeInv',
         \A p \in Paths : file'[p] = file[p] \/ Age(file[p]) < Age(file'[p])
  PROVE  Chart(Now') /\ Follows(Now, Now')
<1>1. Chart(Now')
  BY NowStaysChart
<1>2. ASSUME NEW p \in Paths, file[p] # NoFile PROVE file'[p] # NoFile
  <2>1. Age(file[p]) \in Nat
    BY AgeIsNat DEF TreeInv, TreeTypes
  <2>2. Age(NoFile) = 0
    BY DEF Age
  <2> QED
    BY <1>2, <2>1, <2>2
<1> QED
  BY <1>1, <1>2 DEF Follows, Now, Blind!Snapshot, Blind!Existing, Before

(* One more file is hashed.                                                *)
LEMMA HashOne ==
  ASSUME TreeInv, NEW got, Chart(got), Follows(got, Now), NEW p \in DOMAIN Now
  PROVE  /\ Chart(Blind!With(got, p)) /\ Follows(Blind!With(got, p), Now)
         /\ DOMAIN Blind!With(got, p) = DOMAIN got \cup {p}
         /\ Blind!With(got, p)[p] = Now[p]
         /\ \A q \in DOMAIN got \ {p} : Blind!With(got, p)[q] = got[q]
<1> DEFINE new == Blind!With(got, p)
<1>1. /\ DOMAIN new = DOMAIN got \cup {p}
      /\ new[p] = Now[p] /\ Now[p] \in Contents
      /\ \A q \in DOMAIN got \ {p} : new[q] = got[q]
  BY NowIsChart DEF Blind!With
<1>2. new \in [DOMAIN got \cup {p} -> Contents]
  BY NowIsChart DEF Blind!With, Chart
<1> HIDE DEF new
<1>3. Chart(new)
  BY <1>1, <1>2, NowIsChart DEF Chart
<1>4. Follows(new, Now)
  BY <1>1 DEF Follows, Before
<1> QED
  BY <1>1, <1>3, <1>4 DEF new

-----------------------------------------------------------------------------
(* The freezers and the readers, while others take their steps.            *)

LEMMA FreezerKept ==
  ASSUME NEW f \in Freezers, FreezerInv(f), Chart(Now), Chart(Now)', Follows(Now, Now'),
         fpc'[f] = fpc[f], ftodo'[f] = ftodo[f], fgot'[f] = fgot[f], began'[f] = began[f],
         fpc[f] = "write" => manifest' = manifest
  PROVE  FreezerInv(f)'
<1>1. Follows(began[f], Now')
  BY FollowsOn DEF FreezerInv
<1>2. fpc[f] \in {"hash", "create", "write"} => Follows(fgot[f], Now')
  BY FollowsOn DEF FreezerInv
<1> QED
  BY <1>1, <1>2 DEF FreezerInv

LEMMA ManifestKept ==
  ASSUME ManifestInv, Chart(Now), Chart(Now)', Follows(Now, Now'),
         manifest' = manifest, run' = run,
         manifest.whole => /\ fpc'[manifest.by] = fpc[manifest.by]
                           /\ began'[manifest.by] = began[manifest.by]
  PROVE  ManifestInv'
<1>1. manifest.whole => Follows(manifest.artifacts, Now')
  BY FollowsOn DEF ManifestInv
<1> QED
  BY <1>1 DEF ManifestInv

(* What a reader refused stays refusable: the directory does not return to *)
(* what the freezer listed.                                                *)
LEMMA ReaderKept ==
  ASSUME NEW r \in Readers, ReaderInv(r), ManifestInv,
         manifest.whole => FreezerInv(manifest.by),
         Chart(Now), Chart(Now)', Follows(Now, Now'),
         rpc'[r] = rpc[r], rtodo'[r] = rtodo[r], rgot'[r] = rgot[r],
         expected'[r] = expected[r], saw'[r] = saw[r], asked'[r] = asked[r],
         rpc[r] # "read" => manifest' = manifest /\ began'[manifest.by] = began[manifest.by]
  PROVE  ReaderInv(r)'
<1>1. rpc[r] # "read" => Follows(saw[r], Now')
  BY FollowsOn DEF ReaderInv
<1>2. rpc[r] = "hash" => Follows(rgot[r], Now') /\ rtodo[r] \subseteq DOMAIN Now'
  BY FollowsOn DEF ReaderInv, Follows
<1>3. ASSUME rpc[r] = "refused", Now' = began[expected[r].by] PROVE FALSE
  <2>1. /\ expected[r] = manifest /\ manifest.whole
        /\ FreezerInv(manifest.by) /\ Now # began[manifest.by]
    BY <1>3 DEF ReaderInv
  <2>2. Chart(began[manifest.by]) /\ Follows(began[manifest.by], Now)
    BY <2>1 DEF FreezerInv
  <2> QED
    BY <1>3, <2>1, <2>2, Squeezed
<1> QED
  BY <1>1, <1>2, <1>3 DEF ReaderInv

(* A step of the tools, or of those who edit.                              *)
LEMMA FilesMove ==
  ASSUME BlindInv, Chart(Now), Chart(Now)', Follows(Now, Now'), UNCHANGED blindVars
  PROVE  BlindInv'
<1> USE DEF blindVars
<1>1. manifest.whole => manifest.by \in Freezers
  BY DEF BlindInv, ManifestInv
<1>2. ManifestInv'
  BY ManifestKept DEF BlindInv
<1>3. ASSUME NEW f \in Freezers PROVE FreezerInv(f)'
  BY FreezerKept DEF BlindInv
<1>4. ASSUME NEW r \in Readers PROVE ReaderInv(r)'
  BY <1>1, ReaderKept DEF BlindInv
<1> QED
  BY <1>2, <1>3, <1>4 DEF BlindInv, BlindTypes

-----------------------------------------------------------------------------
(* The steps of a freezer.                                                 *)

(* What a step of one freezer leaves to the others.                        *)
LEMMA OthersAtFreeze ==
  ASSUME BlindInv, Chart(Now), UNCHANGED <<file, run, rpc, rtodo, rgot, expected, saw, asked>>,
         NEW f \in Freezers, fpc[f] # "done", manifest' = manifest, BlindTypes',
         \A g \in Freezers \ {f} : /\ fpc'[g] = fpc[g] /\ ftodo'[g] = ftodo[g]
                                   /\ fgot'[g] = fgot[g] /\ began'[g] = began[g],
         FreezerInv(f)'
  PROVE  BlindInv'
<1>1. Now' = Now /\ Chart(Now)' /\ Follows(Now, Now')
  BY FollowsItself DEF Now, Blind!Snapshot, Blind!Existing
<1>2. manifest.whole => manifest.by \in Freezers \ {f}
  BY DEF BlindInv, ManifestInv
<1>3. ManifestInv'
  BY <1>1, <1>2, ManifestKept DEF BlindInv
<1>4. ASSUME NEW g \in Freezers PROVE FreezerInv(g)'
  BY <1>1, FreezerKept DEF BlindInv
<1>5. ASSUME NEW r \in Readers PROVE ReaderInv(r)'
  <2>1. rpc[r] # "read" => manifest.by \in Freezers \ {f}
    BY <1>2 DEF BlindInv, ReaderInv
  <2> QED
    BY <1>1, <1>2, <2>1, ReaderKept DEF BlindInv
<1> QED
  BY <1>3, <1>4, <1>5 DEF BlindInv

LEMMA ListStep ==
  ASSUME TreeInv, BlindInv, NEW f \in Freezers, Blind!FreezeList(f), UNCHANGED <<treeVars, run>>
  PROVE  BlindInv'
<1> USE DEF treeVars, Blind!FreezeGoes, Blind!reading
<1>1. /\ Chart(Now) /\ DOMAIN Now = Blind!Existing /\ Blind!Existing \subseteq Paths
      /\ Now' = Now
  BY NowIsChart DEF Now, Blind!Snapshot, Blind!Existing
<1>2. /\ fpc[f] = "test" /\ manifest' = manifest
      /\ UNCHANGED <<file, run, rpc, rtodo, rgot, expected, saw, asked>>
  BY DEF Blind!FreezeList, Blind!FreezeFails
<1>3. CASE manifest # Blind!NoManifest \/ Blind!Existing = {}
  <2>1. Blind!FreezeFails(f)
    BY <1>3 DEF Blind!FreezeList
  <2>2. BlindTypes'
    BY <1>2, <2>1 DEF Blind!FreezeFails, BlindInv, BlindTypes
  <2>3. FreezerInv(f)'
    <3>1. fpc'[f] = "failed" /\ fgot'[f] = Blind!Nothing /\ began'[f] = Blind!Nothing
      BY <2>1 DEF Blind!FreezeFails, BlindInv, BlindTypes
    <3> QED
      BY <1>1, <3>1, NothingFirst DEF FreezerInv
  <2> QED
    BY <1>1, <1>2, <2>1, <2>2, <2>3, OthersAtFreeze DEF Blind!FreezeFails
<1>4. CASE ~(manifest # Blind!NoManifest \/ Blind!Existing = {})
  <2>1. /\ ftodo' = [ftodo EXCEPT ![f] = Blind!Existing] /\ began' = [began EXCEPT ![f] = Now]
        /\ fpc' = [fpc EXCEPT ![f] = "hash"] /\ UNCHANGED fgot
    BY <1>4 DEF Blind!FreezeList, Now
  <2>2. BlindTypes'
    BY <1>2, <2>1 DEF BlindInv, BlindTypes
  <2>3. FreezerInv(f)'
    <3>1. /\ fpc'[f] = "hash" /\ ftodo'[f] = DOMAIN Now /\ DOMAIN Now # {}
          /\ began'[f] = Now /\ fgot'[f] = Blind!Nothing
      BY <1>1, <1>2, <1>4, <2>1 DEF BlindInv, BlindTypes, FreezerInv
    <3>2. Blind!Nothing' = Blind!Nothing /\ DOMAIN Blind!Nothing = {}
      BY DEF Blind!Nothing
    <3> QED
      BY <1>1, <3>1, <3>2, NothingFirst, FollowsItself DEF FreezerInv
  <2> QED
    BY <1>1, <1>2, <2>1, <2>2, <2>3, OthersAtFreeze
<1> QED
  BY <1>3, <1>4

LEMMA HashStep ==
  ASSUME TreeInv, BlindInv, NEW f \in Freezers, Blind!FreezeHash(f), UNCHANGED <<treeVars, run>>
  PROVE  BlindInv'
<1> USE DEF treeVars, Blind!FreezeGoes, Blind!reading
<1> DEFINE p == Blind!First(ftodo[f])
           new == Blind!With(fgot[f], p)
<1>1. Chart(Now) /\ Now' = Now /\ DOMAIN Now \subseteq Paths
  BY NowIsChart DEF Now, Blind!Snapshot, Blind!Existing
<1>2. /\ fpc[f] = "hash" /\ manifest' = manifest /\ UNCHANGED began
      /\ UNCHANGED <<file, run, rpc, rtodo, rgot, expected, saw, asked>>
      /\ ftodo' = [ftodo EXCEPT ![f] = @ \ {p}]
      /\ fgot' = [fgot EXCEPT ![f] = new]
      /\ fpc' = [fpc EXCEPT ![f] = IF ftodo[f] = {p} THEN "create" ELSE "hash"]
  BY DEF Blind!FreezeHash
<1>3. /\ ftodo[f] # {} /\ ftodo[f] \subseteq DOMAIN began[f]
      /\ ftodo[f] \cup DOMAIN fgot[f] = DOMAIN began[f]
      /\ \A q \in DOMAIN fgot[f] : Before(began[f][q], fgot[f][q])
      /\ Follows(fgot[f], Now) /\ Follows(began[f], Now) /\ Chart(began[f]) /\ Chart(fgot[f])
  BY <1>2 DEF BlindInv, FreezerInv
<1>4. p \in ftodo[f] /\ p \in DOMAIN Now
  <2>1. ftodo[f] \subseteq DOMAIN Now
    BY <1>3 DEF Follows
  <2> QED
    BY <1>1, <1>3, <2>1, FirstIsListed
<1> HIDE DEF p
<1>5. /\ Chart(new) /\ Follows(new, Now) /\ DOMAIN new = DOMAIN fgot[f] \cup {p}
      /\ new[p] = Now[p] /\ \A q \in DOMAIN fgot[f] \ {p} : new[q] = fgot[f][q]
  BY <1>3, <1>4, HashOne
<1> HIDE DEF new
<1>6. BlindTypes'
  BY <1>2 DEF BlindInv, BlindTypes
<1>7. FreezerInv(f)'
  <2>1. \A q \in DOMAIN new : Before(began[f][q], new[q])
    BY <1>3, <1>4, <1>5 DEF Follows
  <2>2. /\ fpc'[f] = IF ftodo[f] = {p} THEN "create" ELSE "hash"
        /\ ftodo'[f] = ftodo[f] \ {p} /\ fgot'[f] = new /\ began'[f] = began[f]
    BY <1>2 DEF BlindInv, BlindTypes
  <2>3. ftodo'[f] # {} \/ fpc'[f] = "create"
    BY <1>4, <2>2
  <2> QED
    BY <1>1, <1>3, <1>4, <1>5, <2>1, <2>2, <2>3 DEF FreezerInv
<1> QED
  BY <1>1, <1>2, <1>6, <1>7, OthersAtFreeze

(* While there is no complete manifest no reader has started, and the one  *)
(* who writes has created what is there.                                   *)
LEMMA NobodyReads ==
  ASSUME BlindInv, ~manifest.whole
  PROVE  \A r \in Readers : rpc[r] = "read"
BY DEF BlindInv, ReaderInv

LEMMA CreateStep ==
  ASSUME TreeInv, BlindInv, NEW f \in Freezers, Blind!FreezeCreate(f), UNCHANGED <<treeVars, run>>
  PROVE  BlindInv' /\ (manifest.whole => manifest' = manifest)
<1> USE DEF treeVars, Blind!FreezeGoes, Blind!reading
<1>1. Chart(Now) /\ Chart(Now)' /\ Now' = Now /\ Follows(Now, Now')
  BY NowIsChart, FollowsItself DEF Now, Blind!Snapshot, Blind!Existing
<1>2. fpc[f] = "create" /\ UNCHANGED <<file, run, rpc, rtodo, rgot, expected, saw, asked>>
  BY DEF Blind!FreezeCreate, Blind!FreezeFails
<1>3. CASE manifest # Blind!NoManifest
  <2>1. Blind!FreezeFails(f)
    BY <1>3 DEF Blind!FreezeCreate
  <2>2. BlindTypes' /\ manifest' = manifest
    BY <1>2, <2>1 DEF Blind!FreezeFails, BlindInv, BlindTypes
  <2>3. FreezerInv(f)'
    <3>1. fpc'[f] = "failed" /\ fgot'[f] = Blind!Nothing /\ began'[f] = Blind!Nothing
      BY <2>1 DEF Blind!FreezeFails, BlindInv, BlindTypes
    <3> QED
      BY <1>1, <3>1, NothingFirst DEF FreezerInv
  <2> QED
    BY <1>1, <1>2, <2>1, <2>2, <2>3, OthersAtFreeze DEF Blind!FreezeFails
<1>4. CASE manifest = Blind!NoManifest
  <2>1. /\ manifest' = [Blind!NoManifest EXCEPT !.by = f]
        /\ fpc' = [fpc EXCEPT ![f] = "write"] /\ UNCHANGED <<ftodo, fgot, began>>
    BY <1>4 DEF Blind!FreezeCreate
  <2>2. ~manifest.whole /\ ~manifest'.whole
    BY <1>4, <2>1 DEF Blind!NoManifest
  <2>3. BlindTypes'
    BY <1>2, <2>1 DEF BlindInv, BlindTypes
  <2>4. ASSUME NEW g \in Freezers PROVE fpc[g] # "write"
    <3>1. manifest.by = NoFile
      BY <1>4 DEF Blind!NoManifest
    <3>2. fpc[g] = "write" => manifest = [Blind!NoManifest EXCEPT !.by = g]
      BY DEF BlindInv, FreezerInv
    <3>3. [Blind!NoManifest EXCEPT !.by = g].by = g
      BY DEF Blind!NoManifest
    <3> QED
      BY <3>1, <3>2, <3>3, BlindConstants
  <2>5. ASSUME NEW g \in Freezers PROVE FreezerInv(g)'
    <3>1. CASE g = f
      <4>1. /\ fpc'[f] = "write" /\ ftodo'[f] = ftodo[f] /\ fgot'[f] = fgot[f]
            /\ began'[f] = began[f]
        BY <2>1 DEF BlindInv, BlindTypes
      <4>2. manifest' = [Blind!NoManifest' EXCEPT !.by = f]
        BY <2>1 DEF Blind!NoManifest, Blind!Nothing
      <4> QED
        BY <1>1, <1>2, <3>1, <4>1, <4>2 DEF BlindInv, FreezerInv
    <3>2. CASE g # f
      BY <1>1, <2>1, <2>4, <3>2, FreezerKept DEF BlindInv
    <3> QED BY <3>1, <3>2
  <2>6. ASSUME NEW r \in Readers PROVE ReaderInv(r)'
    BY <1>1, <1>2, <2>2, NobodyReads, ReaderKept DEF BlindInv
  <2>7. ManifestInv'
    BY <2>2 DEF ManifestInv
  <2> QED
    BY <2>2, <2>3, <2>5, <2>6, <2>7 DEF BlindInv
<1> QED
  BY <1>3, <1>4

LEMMA WriteStep ==
  ASSUME TreeInv, BlindInv, NEW f \in Freezers, Blind!FreezeWrite(f), UNCHANGED <<treeVars, run>>
  PROVE  BlindInv' /\ (manifest.whole => manifest' = manifest)
<1> USE DEF treeVars, Blind!FreezeGoes, Blind!reading
<1>1. Chart(Now) /\ Chart(Now)' /\ Now' = Now /\ Follows(Now, Now')
  BY NowIsChart, FollowsItself DEF Now, Blind!Snapshot, Blind!Existing
<1>2. PICK identity \in Blind!Given(f) :
      /\ fpc[f] = "write" /\ UNCHANGED <<file, run, ftodo, began, rpc, rtodo, rgot, expected, saw, asked>>
      /\ manifest' = [by |-> f, whole |-> TRUE, artifacts |-> fgot[f], identity |-> identity]
      /\ fgot' = [fgot EXCEPT ![f] = Blind!Nothing]
      /\ fpc' = [fpc EXCEPT ![f] = "done"]
  BY DEF Blind!FreezeWrite
<1>3. /\ DOMAIN fgot[f] = DOMAIN began[f] /\ Chart(fgot[f]) /\ Chart(began[f])
      /\ \A p \in DOMAIN fgot[f] : Before(began[f][p], fgot[f][p])
      /\ Follows(fgot[f], Now) /\ Follows(began[f], Now)
      /\ manifest = [Blind!NoManifest EXCEPT !.by = f]
  BY <1>2 DEF BlindInv, FreezerInv
<1>4. ~manifest.whole /\ manifest.by = f
  BY <1>3 DEF Blind!NoManifest
<1>5. BlindTypes'
  BY <1>2 DEF BlindInv, BlindTypes
<1>6. ASSUME NEW g \in Freezers \ {f} PROVE fpc[g] # "write"
  <2>1. fpc[g] = "write" => manifest = [Blind!NoManifest EXCEPT !.by = g]
    BY DEF BlindInv, FreezerInv
  <2>2. [Blind!NoManifest EXCEPT !.by = g].by = g
    BY DEF Blind!NoManifest
  <2> QED
    BY <1>4, <2>1, <2>2
<1>7. fpc'[f] = "done" /\ fgot'[f] = Blind!Nothing /\ began'[f] = began[f]
  BY <1>2 DEF BlindInv, BlindTypes
<1>8. ASSUME NEW g \in Freezers PROVE FreezerInv(g)'
  <2>1. CASE g = f
    BY <1>1, <1>3, <1>7, <2>1, NothingFirst DEF FreezerInv
  <2>2. CASE g # f
    BY <1>1, <1>2, <1>6, <2>2, FreezerKept DEF BlindInv
  <2> QED BY <2>1, <2>2
<1>9. ASSUME NEW r \in Readers PROVE ReaderInv(r)'
  BY <1>1, <1>2, <1>4, NobodyReads, ReaderKept DEF BlindInv
<1>10. ManifestInv'
  <2>1. Follows(began[f], fgot[f])
    BY <1>3 DEF Follows
  <2> QED
    BY <1>1, <1>2, <1>3, <1>7, <2>1 DEF ManifestInv
<1> QED
  BY <1>4, <1>5, <1>8, <1>9, <1>10 DEF BlindInv

-----------------------------------------------------------------------------
(* The steps of a reader.                                                  *)

(* What a step of one reader leaves to the others.                         *)
LEMMA OthersAtRead ==
  ASSUME TreeInv, BlindInv, UNCHANGED <<treeVars, run, manifest, fpc, ftodo, fgot, began>>,
         NEW r \in Readers, BlindTypes',
         \A s \in Readers \ {r} : /\ rpc'[s] = rpc[s] /\ rtodo'[s] = rtodo[s]
                                  /\ rgot'[s] = rgot[s] /\ expected'[s] = expected[s]
                                  /\ saw'[s] = saw[s] /\ asked'[s] = asked[s],
         ReaderInv(r)'
  PROVE  BlindInv'
<1> USE DEF treeVars
<1>1. Chart(Now) /\ Chart(Now)' /\ Now' = Now /\ Follows(Now, Now')
  BY NowIsChart, FollowsItself DEF Now, Blind!Snapshot, Blind!Existing
<1>2. manifest.whole => manifest.by \in Freezers
  BY DEF BlindInv, ManifestInv
<1>3. ManifestInv'
  BY <1>1, ManifestKept DEF BlindInv
<1>4. ASSUME NEW g \in Freezers PROVE FreezerInv(g)'
  BY <1>1, FreezerKept DEF BlindInv
<1>5. ASSUME NEW s \in Readers PROVE ReaderInv(s)'
  BY <1>1, <1>2, ReaderKept DEF BlindInv
<1> QED
  BY <1>3, <1>4, <1>5 DEF BlindInv

LEMMA ReadStep ==
  ASSUME TreeInv, BlindInv, NEW r \in Readers, Blind!Read(r), UNCHANGED <<treeVars, run>>
  PROVE  BlindInv' /\ manifest' = manifest
<1> USE DEF treeVars, Blind!ReadGoes, Blind!freezing
<1>1. /\ Chart(Now) /\ Chart(Now)' /\ Now' = Now /\ Follows(Now, Now')
      /\ DOMAIN Now = Blind!Existing /\ Blind!Existing \subseteq Paths
  BY NowIsChart, FollowsItself DEF Now, Blind!Snapshot, Blind!Existing
<1>2. /\ UNCHANGED <<run, manifest, fpc, ftodo, fgot, began>> /\ BlindTypes'
      /\ \A s \in Readers \ {r} : /\ rpc'[s] = rpc[s] /\ rtodo'[s] = rtodo[s]
                                  /\ rgot'[s] = rgot[s] /\ expected'[s] = expected[s]
                                  /\ saw'[s] = saw[s] /\ asked'[s] = asked[s]
  BY DEF Blind!Read, Blind!ReadManifest, Blind!ReadList, Blind!ReadHash, Blind!Compare,
         Blind!OpenReference, BlindInv, BlindTypes
<1>3. ReaderInv(r) /\ Blind!Nothing' = Blind!Nothing
  BY DEF BlindInv, Blind!Nothing
<1>4. CASE Blind!ReadManifest(r)
  <2>1. /\ rpc'[r] = "list" /\ manifest.whole /\ expected'[r] = manifest /\ saw'[r] = Now
        /\ rgot'[r] = Blind!Nothing
    BY <1>3, <1>4 DEF Blind!ReadManifest, BlindInv, BlindTypes, ReaderInv, Now
  <2>2. Follows(manifest.artifacts, Now)
    BY <2>1 DEF BlindInv, ManifestInv
  <2>3. ReaderInv(r)'
    BY <1>1, <1>2, <1>3, <2>1, <2>2, NothingFirst DEF ReaderInv
  <2> QED BY <1>2, <2>3, OthersAtRead
<1>5. CASE Blind!ReadList(r)
  <2>1. /\ rpc[r] = "list" /\ rpc'[r] = "hash" /\ rtodo'[r] = DOMAIN Now
        /\ UNCHANGED <<rgot, expected, saw, asked>>
    BY <1>1, <1>5 DEF Blind!ReadList, BlindInv, BlindTypes
  <2>2. rgot[r] = Blind!Nothing /\ DOMAIN Blind!Nothing = {} /\ DOMAIN saw[r] \subseteq DOMAIN Now
    BY <1>3, <2>1 DEF ReaderInv, Follows, Blind!Nothing
  <2>3. ReaderInv(r)'
    BY <1>1, <1>2, <1>3, <2>1, <2>2, NothingFirst DEF ReaderInv
  <2> QED BY <1>2, <2>3, OthersAtRead
<1>6. CASE Blind!ReadHash(r)
  <2> DEFINE p == Blind!First(rtodo[r])
             new == Blind!With(rgot[r], p)
  <2>1. /\ rpc[r] = "hash" /\ rtodo[r] # {} /\ UNCHANGED <<rpc, expected, saw, asked>>
        /\ rtodo'[r] = rtodo[r] \ {p} /\ rgot'[r] = new
    BY <1>6 DEF Blind!ReadHash, BlindInv, BlindTypes
  <2>2. /\ rtodo[r] \subseteq DOMAIN Now /\ DOMAIN saw[r] \subseteq rtodo[r] \cup DOMAIN rgot[r]
        /\ \A q \in DOMAIN saw[r] \cap DOMAIN rgot[r] : Before(saw[r][q], rgot[r][q])
        /\ Follows(rgot[r], Now) /\ Follows(saw[r], Now) /\ Chart(rgot[r])
    BY <1>3, <2>1 DEF ReaderInv
  <2>3. p \in rtodo[r] /\ p \in DOMAIN Now
    BY <1>1, <2>1, <2>2, FirstIsListed
  <2> HIDE DEF p
  <2>4. /\ Chart(new) /\ Follows(new, Now) /\ DOMAIN new = DOMAIN rgot[r] \cup {p}
        /\ new[p] = Now[p] /\ \A q \in DOMAIN rgot[r] \ {p} : new[q] = rgot[r][q]
    BY <2>2, <2>3, HashOne
  <2> HIDE DEF new
  <2>5. \A q \in DOMAIN saw[r] \cap DOMAIN new : Before(saw[r][q], new[q])
    BY <2>2, <2>4 DEF Follows
  <2>6. DOMAIN saw[r] \subseteq rtodo'[r] \cup DOMAIN new
    BY <2>1, <2>2, <2>4
  <2>7. ReaderInv(r)'
    BY <1>1, <1>2, <1>3, <2>1, <2>2, <2>4, <2>5, <2>6 DEF ReaderInv
  <2> QED BY <1>2, <2>7, OthersAtRead
<1>7. CASE Blind!Compare(r)
  <2>1. /\ rpc[r] = "hash" /\ rtodo[r] = {} /\ UNCHANGED <<rtodo, expected, saw, asked>>
        /\ rpc'[r] = IF rgot[r] = expected[r].artifacts THEN "verified" ELSE "refused"
        /\ rgot'[r] = Blind!Nothing
    BY <1>7 DEF Blind!Compare, BlindInv, BlindTypes
  <2>2. /\ manifest.whole /\ expected[r] = manifest /\ Chart(saw[r]) /\ Chart(rgot[r])
        /\ Follows(manifest.artifacts, saw[r]) /\ Follows(rgot[r], Now)
        /\ Follows(saw[r], rgot[r])
    BY <1>3, <2>1 DEF ReaderInv, Follows
  <2>3. /\ manifest.by \in Freezers /\ Chart(manifest.artifacts)
        /\ Chart(began[manifest.by]) /\ Follows(began[manifest.by], manifest.artifacts)
    BY <2>2 DEF BlindInv, ManifestInv, FreezerInv
  <2>4. rpc'[r] = "verified" => saw[r] = manifest.artifacts
    BY <2>1, <2>2, <2>3, Squeezed
  <2>5. ASSUME rgot[r] # manifest.artifacts, Now = began[manifest.by] PROVE FALSE
    <3>1. Follows(manifest.artifacts, rgot[r])
      BY <2>2, <2>3, FollowsOn
    <3>2. Follows(rgot[r], manifest.artifacts)
      BY <2>2, <2>3, <2>5, FollowsOn
    <3> QED
      BY <2>2, <2>3, <2>5, <3>1, <3>2, Squeezed
  <2>6. ReaderInv(r)'
    BY <1>1, <1>2, <1>3, <2>1, <2>2, <2>4, <2>5, NothingFirst DEF ReaderInv
  <2> QED BY <1>2, <2>6, OthersAtRead
<1>8. ASSUME NEW ref \in Runs, Blind!OpenReference(r, ref)
      PROVE  BlindInv' /\ manifest' = manifest
  <2>1. /\ rpc[r] = "verified" /\ UNCHANGED <<rtodo, rgot, expected, saw>> /\ asked'[r] = ref
        /\ rpc'[r] = IF expected[r].identity \in {Anonymous, ref} THEN "opened" ELSE "mismatch"
    BY <1>8 DEF Blind!OpenReference, BlindInv, BlindTypes
  <2>2. ReaderInv(r)'
    BY <1>1, <1>2, <1>3, <2>1 DEF ReaderInv
  <2> QED BY <1>2, <2>2, OthersAtRead
<1> QED
  BY <1>4, <1>5, <1>6, <1>7, <1>8 DEF Blind!Read

-----------------------------------------------------------------------------
(* The results.                                                            *)

IInv == TreeInv /\ BlindInv

LEMMA InvStarts == Init => IInv
<1> SUFFICES ASSUME Init PROVE IInv
  OBVIOUS
<1>1. TreeInv
  BY TreeStart DEF Init
<1>2. Chart(Now)
  BY <1>1, NowIsChart
<1> USE DEF Init, Blind!BlindInit
<1>3. BlindTypes /\ ~manifest.whole
  BY DEF BlindTypes, Blind!NoManifest
<1>4. ManifestInv
  BY <1>3 DEF ManifestInv
<1>5. ASSUME NEW f \in Freezers PROVE FreezerInv(f)
  BY <1>2, NothingFirst DEF FreezerInv
<1>6. ASSUME NEW r \in Readers PROVE ReaderInv(r)
  BY NothingFirst DEF ReaderInv
<1> QED
  BY <1>1, <1>3, <1>4, <1>5, <1>6 DEF IInv, BlindInv

LEMMA InvKept ==
  ASSUME IInv, [Next]_vars
  PROVE  IInv' /\ (manifest.whole => manifest' = manifest)
<1> USE DEF IInv
<1>1. ASSUME \/ \E b \in Builders : Build(b)
             \/ \E p \in Paths : Edit(p)
             \/ UNCHANGED treeVars,
             UNCHANGED blindVars
      PROVE  IInv' /\ manifest' = manifest
  <2>1. TreeInv' /\ \A p \in Paths : file'[p] = file[p] \/ Age(file[p]) < Age(file'[p])
    BY <1>1, TreeStep
  <2>2. Chart(Now) /\ Chart(Now)' /\ Follows(Now, Now')
    BY <2>1, NowIsChart, NowStaysChart, NowMovesOn
  <2> QED
    BY <1>1, <2>1, <2>2, FilesMove DEF blindVars
<1>2. ASSUME NEW f \in Freezers, Blind!Freeze(f), UNCHANGED <<treeVars, run>>
      PROVE  IInv' /\ (manifest.whole => manifest' = manifest)
  <2>1. TreeInv'
    BY <1>2, TreeStep
  <2>2. BlindInv' /\ (manifest.whole => manifest' = manifest)
    BY <1>2, ListStep, HashStep, CreateStep, WriteStep
       DEF Blind!Freeze, Blind!FreezeList, Blind!FreezeHash, Blind!FreezeFails
  <2> QED BY <2>1, <2>2
<1>3. ASSUME NEW r \in Readers, Blind!Read(r), UNCHANGED <<treeVars, run>>
      PROVE  IInv' /\ manifest' = manifest
  <2>1. TreeInv'
    BY <1>3, TreeStep
  <2> QED BY <1>3, <2>1, ReadStep
<1> QED
  BY <1>1, <1>2, <1>3 DEF Next, vars, Edit

LEMMA InvHolds == Spec => []IInv
<1>1. IInv /\ [Next]_vars => IInv'
  BY InvKept
<1> QED
  BY InvStarts, <1>1, PTL DEF Spec

(* Whoever finds the index or the report of a tool finds every part whole  *)
(* and, unless edited, of one process, however many processes are started  *)
(* on the directory and whenever they die (benchmarking.py,                *)
(* four_track_evaluation.py, skill_materialization.py, demo.py).           *)
THEOREM SealIsLast == Spec => []SealedIsWhole
<1>1. IInv => SealedIsWhole
  BY DEF IInv, TreeInv
<1> QED
  BY InvHolds, <1>1, PTL

(* A directory is filled by one process only: none completes or replaces   *)
(* what another one left.                                                  *)
THEOREM FilledByOne == Spec => []OneBuilder
<1>1. IInv => OneBuilder
  BY DEF IInv, TreeInv
<1> QED
  BY InvHolds, <1>1, PTL

(* The reference of a blind run is opened only when no file of the results *)
(* changed between its hash for the manifest and the start of the reader,  *)
(* and the manifest the reader believed is the one on disk.                *)
THEOREM OpenedIsUntouched == Spec => []OpenedMeansUntouched
<1>1. IInv => OpenedMeansUntouched
  BY DEF IInv, BlindInv, ReaderInv, OpenedMeansUntouched, Blind!OpenedMeansUntouched
<1> QED
  BY InvHolds, <1>1, PTL

(* Results are refused only when the directory is not what the freezer     *)
(* listed, and it will never again be.                                     *)
THEOREM RefusedIsChanged == Spec => []NoFalseAlarm
<1>1. IInv => NoFalseAlarm
  BY DEF IInv, BlindInv, ReaderInv, NoFalseAlarm, Blind!NoFalseAlarm, Now
<1> QED
  BY InvHolds, <1>1, PTL

(* A complete manifest is final, whichever freezers are started later.     *)
THEOREM ManifestIsFinal == Spec => FrozenForGood
<1>1. IInv /\ [Next]_vars => [manifest.whole => manifest' = manifest]_manifest
  BY InvKept
<1> QED
  BY InvHolds, <1>1, PTL DEF Spec, FrozenForGood, Blind!FrozenForGood
===============================================================================
