---------------------------- MODULE DurationSplit ----------------------------
(***************************************************************************)
(* Candidates longer than AbsolutePart become series of parts, and their   *)
(* assessments follow them (application/duration.py).  The cues of a       *)
(* candidate are in the order of the transcript; an id is a sequence, the  *)
(* name and, of a part, its number.                                        *)
(***************************************************************************)
EXTENDS Resolution, SequenceTools, SequencesExt

CONSTANTS
  MinimumPart     \* MINIMUM_PART_DURATION_MS

ASSUME SplitConstants ==
  MinimumPart \in Nat /\ MinimumPart <= DefaultPart

(* CandidateProposalBundle and AssessmentBundle, validated: candidates     *)
(* with unique ids, none of them the id of a part, and an assessment each. *)
Timed(x) == x.start \in Nat /\ x.end \in Nat
ValidProposal(c) ==
  /\ {"id", "start", "end", "cues", "extended", "series"} \subseteq DOMAIN c
  /\ c.id = <<c.id[1]>> /\ Timed(c)
  /\ c.cues \in Seq(Range(c.cues)) /\ \A x \in Range(c.cues) : Timed(x)
ValidProposals(bundle) ==
  /\ DOMAIN bundle = {"candidates", "assessed"}
  /\ bundle.candidates \in Seq(Range(bundle.candidates))
  /\ \A c \in Range(bundle.candidates) : ValidProposal(c)
  /\ \A k, l \in DOMAIN bundle.candidates :
       k # l => bundle.candidates[k].id # bundle.candidates[l].id
  /\ DOMAIN bundle.assessed = {c.id : c \in Range(bundle.candidates)}

Duration(c) == c.end - c.start
SpanOf(group) == Last(group).end - group[1].start

BadFull(group, cue) ==   \* the minimum is not asked for
  cue.end - group[1].start > DefaultPart
Full(group, cue) ==
  cue.end - group[1].start > DefaultPart /\ SpanOf(group) >= MinimumPart

AddCue(groups, cue) ==
  IF groups = <<>> \/ Full(Last(groups), cue) THEN Append(groups, <<cue>>)
  ELSE [groups EXCEPT ![Len(groups)] = Append(@, cue)]

(* A last group that is too short joins the one before, if that is allowed. *)
JoinShortLast(groups) ==
  LET n == Len(groups) IN
  IF /\ n > 1
     /\ SpanOf(groups[n]) < MinimumPart
     /\ Last(groups[n]).end - groups[n - 1][1].start <= AbsolutePart
  THEN Append(SubSeq(groups, 1, n - 2), groups[n - 1] \o groups[n])
  ELSE groups

(* The groups after each cue.                                              *)
GroupsAfter(cues) ==
  LET groups[n \in 0..Len(cues)] == IF n = 0 THEN <<>> ELSE AddCue(groups[n - 1], cues[n])
  IN groups
CueGroups(cues) == JoinShortLast(GroupsAfter(cues)[Len(cues)])

Overlaps(x, c) == x.end > c.start /\ x.start < c.end
CuesWithin(c) == Those(c.cues, {n \in DOMAIN c.cues : Overlaps(c.cues[n], c)})

PartId(c, n) == <<c.id[1], n>>

(* The n-th part: its own range, evidence and place in the series; the     *)
(* rest is the candidate's.                                                *)
PartOf(c, groups, n) ==
  LET group == groups[n] IN
  [c EXCEPT !.id = PartId(c, n),
            !.start = group[1].start, !.end = Last(group).end,
            !.cues = group, !.evidence = {<<CHOOSE e \in c.evidence : TRUE, PartId(c, n)>>},
            !.units = Those(c.units, {k \in DOMAIN c.units : /\ c.units[k].start >= group[1].start
                                                            /\ c.units[k].end <= Last(group).end}),
            !.extended = SpanOf(group) > DefaultPart,
            !.series = c.id, !.index = n]

PartsOf(c, groups) == [n \in DOMAIN groups |-> PartOf(c, groups, n)]

SplitCandidate(c) ==
  IF Duration(c) <= AbsolutePart \/ CuesWithin(c) = <<>> THEN <<c>>
  ELSE PartsOf(c, CueGroups(CuesWithin(c)))

Unsplittable(c) ==
  Duration(c) > AbsolutePart /\ \E g \in Range(CueGroups(CuesWithin(c))) : SpanOf(g) > AbsolutePart

AllowsExplicitLongForm(task) ==
  task.mode = "directed" /\ task.requested # None /\ task.requested > AbsolutePart

(* prepare_candidates_for_task: candidates and assessments, in step.  The  *)
(* assessment of a part still refers to the evidence of the whole.         *)
PreparedWith(bundle, parts) ==
  LET whole(p) == IF p.series \in DOMAIN bundle.assessed THEN p.series ELSE p.id IN
  [candidates |-> parts,
   assessed |-> [id \in {p.id : p \in Range(parts)} |->
      bundle.assessed[whole(CHOOSE p \in Range(parts) : p.id = id)]]]

Prepare(bundle, task) ==
  IF AllowsExplicitLongForm(task) THEN bundle
  ELSE IF \E c \in Range(bundle.candidates) : Unsplittable(c) THEN Failure("ValueError")
  ELSE PreparedWith(bundle, FlattenSeq([n \in DOMAIN bundle.candidates |->
                                          SplitCandidate(bundle.candidates[n])]))
=============================================================================
