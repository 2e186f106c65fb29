--------------------------- MODULE TranscriptPlans ---------------------------
(***************************************************************************)
(* Plans from a transcript: by the deterministic strategy                  *)
(* (strategies/deterministic.py, application/services.py) and for an       *)
(* educational request (application/educational.py,                        *)
(* strategies/educational.py).                                             *)
(***************************************************************************)
EXTENDS Education

CONSTANT LeastSelected     \* MIN_SELECTED_DURATION_MS

(* resolve_educational_request.  An instruction names signal types, each   *)
(* by markers of which some are negated, and has words that no rule knows. *)
Request(said, topics) ==
  [forbidden |-> {t \in DOMAIN said.names : TRUE \in said.names[t]},
   required |-> {t \in DOMAIN said.names : said.names[t] = {FALSE}},
   count |-> said.count, maximum |-> said.maximum, topics |-> topics,
   unresolved |-> said.directed /\ said.otherWords /\ topics = {}]

(* qualify_educational_candidate: the reasons against it.  A summary that  *)
(* leans on what precedes is searched for topics in its whole evidence.    *)
TopicsFor(c) == IF c.opening \in LeaningOpenings THEN c.snapshot ELSE c.about
Reasons(c, request) ==
  (IF request.required \subseteq Types(c) THEN {} ELSE {"missing_signal"})
    \cup (IF HasStructure(c) THEN {} ELSE {"emphasis_alone"})
    \cup (IF c.words < EnoughWords THEN {"insufficient_statement"} ELSE {})
    \cup ContextRoles(c)
    \cup (IF \E g \in request.topics : g \cap TopicsFor(c) = {} THEN {"missing_topics"} ELSE {})
    \cup (IF request.maximum # None /\ Duration(c) > request.maximum THEN {"too_long"} ELSE {})
    \cup (IF request.unresolved THEN {"topics_unresolved"} ELSE {})
    \cup (IF Types(c) \cap request.forbidden # {} THEN {"forbidden_type"} ELSE {})
Qualified(c, request) == Reasons(c, request) = {} /\ ProfileQualifies(c)

(* The sort key, the greater the better; equal ones keep their order.      *)
KeyOf(c) ==
  <<IF "teacher_emphasis" \in Types(c) THEN 1 ELSE 0, Cardinality(Types(c)),
    -Min({c.stutters, 20}), -c.start, -Duration(c)>>
FirstDifference(a, b) == {n \in DOMAIN a : a[n] # b[n] /\ \A k \in 1..(n - 1) : a[k] = b[k]}
RanksBefore(candidates, i, j) ==
  LET a == KeyOf(candidates[i])  b == KeyOf(candidates[j]) IN
  IF a = b THEN i < j ELSE \A n \in FirstDifference(a, b) : a[n] > b[n]
Ranked(candidates, request) ==
  LET good == {n \in DOMAIN candidates : Qualified(candidates[n], request)}
      order == OrderedBy(good, {p \in good \X good : RanksBefore(candidates, p[1], p[2])})
  IN [n \in DOMAIN order |-> candidates[order[n]]]

StructureOf(c) == Types(c) \cap Structural
CoveredBy(s) == UNION {StructureOf(c) : c \in Range(s)}

(* The greedy loop: a candidate with a structural type that is new.        *)
BadPick(picked, c, count) == IF Len(picked) = count THEN picked ELSE Append(picked, c)
Pick(picked, c, count) ==
  IF Len(picked) = count \/ StructureOf(c) \subseteq CoveredBy(picked) THEN picked
  ELSE Append(picked, c)
Greedy(ranked, count) ==
  LET after[n \in 0..Len(ranked)] ==
        IF n = 0 THEN <<>> ELSE Pick(after[n - 1], ranked[n], count)
  IN after[Len(ranked)]
Selection(ranked, count) ==
  LET greedy == Greedy(ranked, count)
      rest == Those(ranked, {n \in DOMAIN ranked : ranked[n] \notin Range(greedy)})
      all == IF Len(greedy) < count THEN greedy \o rest ELSE greedy
  IN SubSeq(all, 1, Min({count, Len(all)}))

(* select_educational_for_request.                                         *)
Eligible(c, request) ==
  ProfileQualifies(c) /\ StructureOf(c) # {} /\ Types(c) \cap request.forbidden = {}
RequiredCount(candidates, request) ==
  IF request.count # None THEN request.count
  ELSE Max({1, Min({3, Cardinality({n \in DOMAIN candidates : Eligible(candidates[n], request)})})})
SelectForRequest(candidates, request) ==
  LET count == RequiredCount(candidates, request)
      chosen == Selection(Ranked(candidates, request), count)
  IN [ids |-> [n \in DOMAIN chosen |-> chosen[n].id],
      unsatisfied |-> Len(chosen) < count \/ request.unresolved]

-----------------------------------------------------------------------------
(* create_educational_plan: propose, prepare, select and build.            *)
EducationalPlan(cues, lasts, prepared, request) ==
  LET chosen == SelectForRequest(prepared, request) IN
  PlanOver(cues, lasts, prepared, LAMBDA id : id \in Range(chosen.ids))
CreateEducationalPlan(cues, lasts, proposed, request) ==
  IF ~proposed.valid \/ \E c \in Range(proposed.candidates) : Unsplittable(c)
  THEN Failure("ValueError")
  ELSE EducationalPlan(cues, lasts, PrepareAll(proposed.candidates), request)

-----------------------------------------------------------------------------
(* transcript_to_plan with the deterministic strategy: a candidate for     *)
(* each segment, whose id is a hash of its times and text; it is selected  *)
(* if it says anything and is long enough.                                 *)
SegmentCandidate(cue) ==
  [id |-> <<cue.start, cue.end, cue.pieces>>, start |-> cue.start, end |-> cue.end,
   cues |-> <<cue>>, evidence |-> {cue.id}, score |-> Words(FragmentsOf(cue)),
   translated |-> <<>>, spans |-> <<>>, units |-> <<>>, records |-> <<>>, signals |-> {},
   profile |-> None, event |-> None, series |-> None, index |-> None, total |-> None]
SelectsSegment(c) == c.score > 0 /\ Duration(c) >= LeastSelected

TranscriptToPlan(cues, lasts) ==
  LET candidates == [n \in DOMAIN cues |-> SegmentCandidate(cues[n])] IN
  PlanOver(cues, lasts, candidates,
           LAMBDA id : \E c \in Range(candidates) : c.id = id /\ SelectsSegment(c))
=============================================================================
