-------------------------- MODULE AdaptiveSelection --------------------------
(***************************************************************************)
(* Aggregation of assessments and the adaptive selection                   *)
(* (strategies/adaptive.py).  The selection goes through the ranked        *)
(* candidates once, in their order: queue is the set of indices still to   *)
(* be considered, chosen the sequence of those selected, why the reason    *)
(* recorded for each one seen.  An overall score is a fraction             *)
(* <<sum, weight>>; gist stands for a summary, equal gists for a           *)
(* similarity over the threshold.                                          *)
(***************************************************************************)
EXTENDS DurationSplit

CONSTANT IdBefore(_, _)   \* the order of candidate ids as strings

VARIABLES
  prep,    \* the prepared candidates and assessments
  goal,    \* the task
  score,   \* the aggregates: id -> [overall, excluded]
  queue, chosen, why

(* The reasons and errors given; None stands for none.                     *)
Reasons == {"host_hard_exclude", "required", "semantic_qualification", "duration_constraint",
            "count_limit", "overlap_limit", "duplicate_content", "track_diversity",
            "host_hard_include", "ranked_selection"}
Errors == {"ASSESSMENT_INVALID", "HOST_INTENT_CONFLICT", "ValueError"}
ASSUME NoneIsNoReason == None \notin Reasons \cup Errors

selectionVars == <<prep, goal, score, queue, chosen, why>>

-----------------------------------------------------------------------------
(* aggregate_candidate.                                                    *)
Takes(task, a, d) ==
  task.policies[d].applies \in {"weighted", "required"} /\ task.policies[d].weight # None
    /\ a.scores[d] # None
Excluded(task, a) ==
  {<<d, "unavailable">> : d \in {d \in Dimensions :
      task.policies[d].applies = "required" /\ a.scores[d] = None}}
  \cup
  {<<d, "below_minimum">> : d \in {d \in Dimensions :
      /\ task.policies[d].applies = "required" /\ a.scores[d] # None
      /\ task.policies[d].minimum # None /\ a.scores[d] < task.policies[d].minimum}}
Overall(task, a) ==
  LET used == {d \in Dimensions : Takes(task, a, d)}
      weight == MapThenSumSet(LAMBDA d : task.policies[d].weight, used)
  IN IF weight = 0 THEN None
     ELSE <<MapThenSumSet(LAMBDA d : a.scores[d] * task.policies[d].weight, used), weight>>

(* aggregate_bundle.                                                       *)
Aggregate(bundle, task) ==
  IF \E c \in Range(bundle.candidates) : ~(bundle.assessed[c.id].refs \subseteq c.evidence)
  THEN Failure("ASSESSMENT_INVALID")
  ELSE [aggregates |-> [id \in DOMAIN bundle.assessed |->
          [overall |-> Overall(task, bundle.assessed[id]),
           excluded |-> Excluded(task, bundle.assessed[id])]]]

-----------------------------------------------------------------------------
Cand(i) == prep.candidates[i]
Indices == DOMAIN prep.candidates
Ids == {c.id : c \in Range(prep.candidates)}
Tracks(i) == prep.assessed[Cand(i).id].tracks
TracksOf(S) == UNION {Tracks(i) : i \in S}
Included(i) == Cand(i).id \in goal.include
Limit(x) == Field(goal.limits, x)

SameSeries(a, b) == a.series # None /\ a.series = b.series

(* Over a fifth of the shorter one.                                        *)
OverlapsTooMuch(a, b) ==
  LET both == Min({a.end, b.end}) - Max({a.start, b.start})
  IN both > 0 /\ 5 * both > Min({Duration(a), Duration(b)})

WithinDuration(c, task) ==
  LET least == Field(task.limits, "minimum_duration")
      most == Field(task.limits, "maximum_duration")
  IN /\ least = None \/ Duration(c) >= least
     /\ most = None \/ Duration(c) <= most
     /\ Duration(c) <= DefaultPart \/ task.requested # None \/ c.extended

Missing(c, r) ==
  IF r = None THEN {}
  ELSE UNION {{"semantic_type"} \X (r.types \ c.types),
              {"structure"} \X (IF r.count = 1 /\ c.series = None
                                THEN r.structure \ c.structure ELSE {}),
              {"forbidden_type"} \X (r.forbidden \cap c.types),
              {"about"} \X (r.about \ c.about),
              {"sequence"} \X (IF c.series = None THEN r.sequence \ c.structure ELSE {})}

-----------------------------------------------------------------------------
(* Sorted by a key, in reverse: short ones, then those with a score, the   *)
(* higher score, the earlier start.                                        *)
Preferred(c) == Duration(c) <= Or(Limit("preferred_duration"), DefaultPart)
Points(i) == LET o == score[Cand(i).id].overall IN IF o = None THEN <<0, 1>> ELSE o
Higher(i, j) == Points(i)[1] * Points(j)[2] > Points(j)[1] * Points(i)[2]
Better(i, j) ==
  LET p == Preferred(Cand(i))  q == Preferred(Cand(j))
      s == score[Cand(i).id].overall # None  t == score[Cand(j).id].overall # None
  IN \/ p /\ ~q
     \/ p = q /\ s /\ ~t
     \/ p = q /\ s = t /\ Higher(i, j)
     \/ p = q /\ s = t /\ ~Higher(i, j) /\ ~Higher(j, i) /\ Cand(i).start < Cand(j).start

RanksBefore(i, j) == Better(i, j) \/ (~Better(j, i) /\ i < j)

(* Those that bring a track which none ranked before them has go ahead;    *)
(* nothing is dropped.                                                     *)
BringsNewTrack(i) == ~(Tracks(i) \subseteq TracksOf({j \in Indices : RanksBefore(j, i)}))
PreferredBefore(i, j) ==
  IF goal.prefer /\ BringsNewTrack(i) # BringsNewTrack(j) THEN BringsNewTrack(i)
  ELSE RanksBefore(i, j)

BadGoesBefore(i, j) == PreferredBefore(i, j)   \* the last sort is missing
(* ordered: hard includes before all others.                               *)
GoesBefore(i, j) ==
  IF Included(i) # Included(j) THEN Included(i) ELSE PreferredBefore(i, j)

(* _validate_hard_selection_requirements.  Sorted by id, a hard include    *)
(* must bring a track the ones before it have not.                         *)
IncludesConflict ==
  LET hard == {i \in Indices : Included(i)}
      earlier(i) == {j \in hard : IdBefore(Cand(j).id, Cand(i).id)}
  IN \/ Limit("maximum_count") # None /\ Cardinality(hard) > Limit("maximum_count")
     \/ \E i \in hard : ~WithinDuration(Cand(i), goal)
     \/ goal.diverse /\ \E i \in hard :
          TracksOf(earlier(i)) # {} /\ Tracks(i) \subseteq TracksOf(earlier(i))

Target == Or(Limit("target_count"), Or(Limit("maximum_count"), Len(prep.candidates)))

(* What the selection starts with, or the error it ends with.              *)
Refusal(bundle, task, aggregates) ==
  IF DOMAIN aggregates # DOMAIN bundle.assessed THEN "ASSESSMENT_INVALID"
  ELSE IF ~(task.include \cup task.exclude \subseteq DOMAIN bundle.assessed)
  THEN "HOST_INTENT_CONFLICT" ELSE None

-----------------------------------------------------------------------------
Near(i) == {j \in Range(chosen) : ~SameSeries(Cand(i), Cand(j))}
BadTooClose(i) ==   \* to one considered, selected or not
  \E j \in Indices : /\ j # i /\ why[Cand(j).id] # None
                     /\ ~SameSeries(Cand(i), Cand(j)) /\ OverlapsTooMuch(Cand(i), Cand(j))
TooClose(i) == \E j \in Near(i) : OverlapsTooMuch(Cand(i), Cand(j))
Repeats(i) == \E j \in Near(i) : Cand(i).gist = Cand(j).gist
OldTracks(i) == goal.diverse /\ chosen # <<>> /\ Tracks(i) \subseteq TracksOf(Range(chosen))

BadReason(i) ==   \* a hard include passes the count only
  IF Cand(i).id \in goal.exclude THEN "host_hard_exclude"
  ELSE IF score[Cand(i).id].excluded # {} THEN "required"
  ELSE IF Missing(Cand(i), goal.requirements) # {} THEN "semantic_qualification"
  ELSE IF ~WithinDuration(Cand(i), goal) THEN "duration_constraint"
  ELSE IF Len(chosen) >= Target /\ ~Included(i) THEN "count_limit"
  ELSE IF TooClose(i) THEN "overlap_limit"
  ELSE IF Repeats(i) THEN "duplicate_content"
  ELSE IF OldTracks(i) THEN "track_diversity"
  ELSE None

(* Why a candidate is rejected, in the order of the tests; None if not.    *)
Reason(i) ==
  IF Cand(i).id \in goal.exclude THEN "host_hard_exclude"
  ELSE IF Included(i) THEN None
  ELSE IF score[Cand(i).id].excluded # {} THEN "required"
  ELSE IF Missing(Cand(i), goal.requirements) # {} THEN "semantic_qualification"
  ELSE IF ~WithinDuration(Cand(i), goal) THEN "duration_constraint"
  ELSE IF Len(chosen) >= Target THEN "count_limit"
  ELSE IF TooClose(i) THEN "overlap_limit"
  ELSE IF Repeats(i) THEN "duplicate_content"
  ELSE IF OldTracks(i) THEN "track_diversity"
  ELSE None

(* One turn of the loop.                                                   *)
Consider ==
  /\ \E i \in queue :
       /\ \A j \in queue \ {i} : GoesBefore(i, j)
       /\ why' = [why EXCEPT ![Cand(i).id] =
                    Or(Reason(i), IF Included(i) THEN "host_hard_include" ELSE "ranked_selection")]
       /\ chosen' = IF Reason(i) = None THEN Append(chosen, i) ELSE chosen
       /\ queue' = queue \ {i}
  /\ UNCHANGED <<prep, goal, score>>

-----------------------------------------------------------------------------
(* The result has the chosen ones in turn, with preserve_time_order by     *)
(* their start.                                                            *)
ComesBefore(m, n) ==
  LET start(k) == Cand(chosen[k]).start
  IN IF goal.order /\ start(m) # start(n) THEN start(m) < start(n) ELSE m < n

ChosenIds == {Cand(i).id : i \in Range(chosen)}
Ranks ==
  [id \in ChosenIds |->
     LET n == CHOOSE n \in DOMAIN chosen : Cand(chosen[n]).id = id
     IN 1 + Cardinality({m \in DOMAIN chosen : ComesBefore(m, n)})]

Chronological ==
  /\ \A i \in Range(chosen) : Cand(i).index # None
  /\ \A m, n \in DOMAIN chosen :
       ComesBefore(m, n) => Cand(chosen[m]).index <= Cand(chosen[n]).index

Unsatisfied ==
  LET r == goal.requirements
      least == Limit("minimum_count")
  IN UNION {
      IF least # None /\ Len(chosen) < least THEN {<<"minimum_count", least>>} ELSE {},
      IF goal.include \subseteq ChosenIds THEN {} ELSE {<<"hard_include", None>>},
      IF r # None /\ Len(chosen) < r.count THEN {<<"semantic_required_count", r.count>>} ELSE {},
      IF r = None \/ chosen = <<>> THEN {}
      ELSE {"semantic_structure"} \X
             (r.structure \ UNION {Cand(i).structure : i \in Range(chosen)}),
      IF r # None /\ chosen # <<>> /\ r.sequence = {"chronological"} /\ ~Chronological
      THEN {<<"sequence", "chronological">>} ELSE {}}

(* Of the rejected candidates, the three that miss the fewest qualities,   *)
(* and of those the ones that miss any.                                    *)
Nearest ==
  LET lacks(i) == Cardinality(Missing(Cand(i), goal.requirements))
      closer(i, j) == \/ lacks(i) < lacks(j)
                      \/ lacks(i) = lacks(j) /\ Higher(i, j)
                      \/ lacks(i) = lacks(j) /\ ~Higher(i, j) /\ ~Higher(j, i) /\ i < j
      sorted == SortSeq(SelectSeq([i \in Indices |-> i], LAMBDA i : i \notin Range(chosen)), closer)
  IN SelectSeq(SubSeq(sorted, 1, LeastOf(3, Len(sorted))), LAMBDA i : lacks(i) > 0)

IdsOf(s) == [n \in DOMAIN s |-> Cand(s[n]).id]
=============================================================================
