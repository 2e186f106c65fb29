---------------------------- MODULE CutCandidates ----------------------------
(***************************************************************************)
(* What a CutCandidate and a CutPlan must fulfil to be created             *)
(* (domain/candidates.py, domain/plans.py).  model_copy, with which the program changes     *)
(* candidates, does not check it again.  There is one source, so that      *)
(* source ids agree; a text is the sequence of the ids of what it says.    *)
(***************************************************************************)
EXTENDS SemanticSpans, DurationSplit

CONSTANT SourceTolerance    \* SOURCE_DURATION_TOLERANCE_MS

DistinctBy(F(_), s) == \A i, j \in DOMAIN s : F(s[i]) = F(s[j]) => i = j
StartsInOrder(s, first) ==
  \A n \in DOMAIN s : s[n].start >= (IF n = 1 THEN first ELSE s[n - 1].start)

Covered(c, ids) == {cue \in Range(c.cues) : cue.id \in ids}
FirstStart(cues) == CHOOSE t \in {x.start : x \in cues} : \A x \in cues : t <= x.start
LastEnd(cues) == CHOOSE t \in {x.end : x \in cues} : \A x \in cues : t >= x.end
Known(c, ids) == ids \subseteq {cue.id : cue \in Range(c.cues)}

ValidCues(c, cues) ==
  /\ DistinctBy(LAMBDA x : x.id, cues)
  /\ \A x \in Range(cues) : Overlaps(x, c)

ValidSpans(c) ==
  /\ \A s \in Range(c.spans) :
       /\ Known(c, s.cues)
       /\ s.start >= FirstStart(Covered(c, s.cues))
       /\ s.end <= LastEnd(Covered(c, s.cues))
  /\ StartsInOrder(c.spans, c.start)

TranslationOf(c, u) == CHOOSE r \in Range(c.records) : r.id = u.translation
ValidUnit(c, u) ==
  LET ids == Range(u.cues) IN
  /\ Overlaps(u, c) /\ Known(c, ids)
  /\ u.translation \in {r.id : r \in Range(c.records)}
  /\ u.start = FirstStart(Covered(c, ids)) /\ u.end = LastEnd(Covered(c, ids))
  /\ u.text = u.cues
  /\ u.translated = TranslationOf(c, u).translated
ValidUnits(c) ==
  (\A u \in Range(c.units) : ValidUnit(c, u)) /\ StartsInOrder(c.units, c.start)
ValidRecords(c) ==
  /\ DistinctBy(LAMBDA r : r.id, c.records)
  /\ \A r \in Range(c.records) : Known(c, Range(r.cues)) /\ r.text = r.cues

(* Education signals of a candidate, and the profile made for it.          *)
ValidSignals(c) ==
  /\ \A s \in c.signals : s.refs \subseteq c.evidence /\ Overlaps(s, c)
  /\ c.profile # None => c.profile = c.id
ValidEvent(c) ==
  c.event # None => Overlaps(c.event, c)
ValidSeries(c) ==
  (c.series = None <=> c.index = None) /\ (c.index # None => c.index <= c.total)

ValidCandidate(c) ==
  /\ c.end > c.start
  /\ ValidCues(c, c.cues) /\ ValidCues(c, c.translated)
  /\ ValidSpans(c) /\ ValidUnits(c) /\ ValidRecords(c)
  /\ ValidSignals(c) /\ ValidEvent(c) /\ ValidSeries(c)
-----------------------------------------------------------------------------
(* The validator of CutPlan, for what these plans have.                    *)
Distinct(s) == Cardinality(Range(s)) = Len(s)
EvidenceOf(candidates) == UNION {c.evidence : c \in Range(candidates)}
ValidPlan(p) ==
  /\ Distinct([n \in DOMAIN p.candidates |-> p.candidates[n].id])
  /\ DOMAIN p.selected = {c.id : c \in Range(p.candidates)}
  /\ Cardinality(EvidenceOf(p.candidates)) =
       FoldLeft(LAMBDA k, c : k + Cardinality(c.evidence), 0, p.candidates)
  /\ p.lasts # None => \A c \in Range(p.candidates) : c.end <= p.lasts + SourceTolerance
  /\ \A c \in Range(p.candidates) : {x.id : x \in Range(c.cues)} \subseteq p.segments
CutPlan(p) == IF ValidPlan(p) THEN p ELSE Failure("ValueError")

PlanOver(cues, lasts, candidates, Chosen(_)) ==
  CutPlan([candidates |-> candidates, lasts |-> lasts, segments |-> {x.id : x \in Range(cues)},
           selected |-> [id \in {c.id : c \in Range(candidates)} |-> Chosen(id)]])
=============================================================================
