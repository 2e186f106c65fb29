----------------------------- MODULE Highlights -----------------------------
(***************************************************************************)
(* The host's workflow (application/intelligence.py): it resolves tasks,   *)
(* aggregates assessments, selects and creates a plan, each by a call of   *)
(* its own that is handed documents.  The host keeps the documents; what   *)
(* it hands over may stem from different tasks or proposals, as after the  *)
(* user has changed his mind, and may be handed over again.                *)
(***************************************************************************)
EXTENDS AdaptiveSelection

CONSTANTS
  Asks,       \* the requests a host may have: sequences of intent, profile, preset
  Bundles,    \* the proposals with their assessments: sequences
  Offered     \* the capability profile: features nobody offers, the longest clip

ASSUME DocumentsAreValid ==
  /\ \A a \in Asks : \A n \in DOMAIN a :
       /\ NumericLimits(a[n].intent.limits) /\ a[n].intent.include \cap a[n].intent.exclude = {}
       /\ a[n].profile # None => NumericLimits(a[n].profile.limits)
  /\ \A b \in Bundles : \A m \in DOMAIN b : ValidProposals(b[m])

VARIABLES
  ask, bundle,  \* what this host has
  task,         \* n -> the resolved task, None, or a failure
  aggregated,   \* the last aggregates and what they were made from
  using,        \* the selection that is going on: its task, bundle, aggregates
  selection,    \* the last selection
  plan          \* the last plan

hostVars == <<ask, bundle, task, aggregated, using, selection, plan>>
vars == <<selectionVars, hostVars>>

NoCall == [task |-> 0, bundle |-> 0, result |-> Failure("none")]
Call(n, m, result) == [task |-> n, bundle |-> m, result |-> result]
NothingPrepared == [candidates |-> <<>>, assessed |-> Empty]

Idle == /\ prep = NothingPrepared /\ goal = None /\ score = Empty
        /\ queue = {} /\ chosen = <<>> /\ why = Empty

Forget == /\ prep' = NothingPrepared /\ goal' = None /\ score' = Empty
          /\ queue' = {} /\ chosen' = <<>> /\ why' = Empty

Init ==
  /\ bundle \in Bundles /\ ask \in Asks
  /\ task = [n \in DOMAIN ask |-> None]
  /\ aggregated = NoCall /\ selection = NoCall /\ plan = NoCall
  /\ using = NoCall
  /\ Idle

Ready(n) == task[n] # None /\ ~Fails(task[n])
Free == using = NoCall

(* resolve_intelligence_task.                                              *)
Resolve(n) ==
  /\ task[n] = None
  /\ task' = [task EXCEPT ![n] =
       ResolveTask(ask[n].intent, ask[n].profile, ask[n].preset, Offered)]
  /\ UNCHANGED <<ask, bundle, aggregated, using, selection, plan, selectionVars>>

(* aggregate_intelligence.  Each call prepares the proposals anew.         *)
AggregateIntelligence(n, m, prepared) ==
  /\ aggregated' = Call(n, m, IF Fails(prepared) THEN prepared ELSE Aggregate(prepared, task[n]))
  /\ UNCHANGED <<ask, bundle, task, using, selection, plan, selectionVars>>

(* select_intelligence, up to the loop.  Only the candidate ids of the     *)
(* aggregates are compared with the other documents.                       *)
Select(n, m, prepared) ==
  LET refused == IF Fails(prepared) THEN prepared.error
                 ELSE Refusal(prepared, task[n], aggregated.result.aggregates)
  IN
  /\ aggregated # NoCall /\ ~Fails(aggregated.result)
  /\ IF refused # None
     THEN selection' = Call(n, m, Failure(refused)) /\ UNCHANGED <<using, selectionVars>>
     ELSE /\ prep' = prepared /\ goal' = task[n] /\ score' = aggregated.result.aggregates
          /\ using' = [Call(n, m, None) EXCEPT !.result = aggregated.task]
          /\ why' = [id \in DOMAIN prepared.assessed |-> None]
          /\ chosen' = <<>> /\ queue' = DOMAIN prepared.candidates
          /\ UNCHANGED selection
  /\ UNCHANGED <<ask, bundle, task, aggregated, plan>>

(* The hard includes are checked before the loop.                          *)
Conflict ==
  /\ ~Free /\ queue = Indices /\ IncludesConflict
  /\ selection' = Call(using.task, using.bundle, Failure("HOST_INTENT_CONFLICT"))
  /\ using' = NoCall
  /\ Forget
  /\ UNCHANGED <<ask, bundle, task, aggregated, plan>>

Loop ==
  /\ ~Free /\ ~(queue = Indices /\ IncludesConflict)
  /\ Consider
  /\ UNCHANGED hostVars

(* The result, after the loop.                                             *)
Selected ==
  [ranks |-> Ranks, why |-> why, unsatisfied |-> Unsatisfied,
   nearest |-> IdsOf(Nearest), aggregatesOf |-> using.result]

Finish ==
  /\ ~Free /\ queue = {}
  /\ selection' = Call(using.task, using.bundle, Selected)
  /\ using' = NoCall
  /\ Forget
  /\ UNCHANGED <<ask, bundle, task, aggregated, plan>>

BadPlanFrom(prepared, chosenIds, decided) ==   \* no decision: rejected
  [candidates |-> prepared.candidates,
   selected |-> {id \in DOMAIN prepared.assessed : id \in chosenIds}]

Uses(cs) == FoldLeft(LAMBDA k, c : k + Cardinality(c.evidence), 0, cs)

(* create_adaptive_plan, with the validators of CutPlan that can fail: a   *)
(* candidate without a decision is a RuntimeError, evidence used twice a   *)
(* ValueError.                                                             *)
PlanFrom(prepared, chosenIds, decided) ==
  LET evidence == UNION {c.evidence : c \in Range(prepared.candidates)}
  IN IF ~(DOMAIN prepared.assessed \subseteq decided) THEN Failure("RuntimeError")
     ELSE IF Cardinality(evidence) # Uses(prepared.candidates) THEN Failure("ValueError")
     ELSE [candidates |-> prepared.candidates,
           selected |-> {id \in DOMAIN prepared.assessed : id \in chosenIds}]

CreatePlan(n, m, prepared) ==
  /\ selection # NoCall /\ ~Fails(selection.result)
  /\ plan' = Call(n, m,
       IF Fails(prepared) THEN prepared
       ELSE PlanFrom(prepared, DOMAIN selection.result.ranks, DOMAIN selection.result.why))
  /\ UNCHANGED <<ask, bundle, task, aggregated, using, selection, selectionVars>>

(* The host stops when it has a plan.                                      *)
Step(n, m, prepared) ==
  \/ AggregateIntelligence(n, m, prepared)
  \/ Select(n, m, prepared)
  \/ CreatePlan(n, m, prepared)

Next ==
  \/ \E n \in DOMAIN ask : Resolve(n)
  \/ \E n \in DOMAIN ask, m \in DOMAIN bundle :
       /\ Ready(n) /\ Free /\ plan = NoCall
       /\ \E prepared \in {Prepare(bundle[m], task[n])} : Step(n, m, prepared)
  \/ Conflict \/ Loop \/ Finish

Spec == Init /\ [][Next]_vars

-----------------------------------------------------------------------------
Picked == {Cand(i) : i \in Range(chosen)}
Hard(c) == c.id \in goal.include

(* Of two selected candidates, unless they are parts of one series or the  *)
(* host insists on both, none repeats the other and they hardly overlap:   *)
(* the one insisted on is always considered first.                         *)
SelectedFitTogether ==
  \A a, b \in Picked :
    a # b /\ ~SameSeries(a, b) /\ ~(Hard(a) /\ Hard(b)) =>
      a.gist # b.gist /\ ~OverlapsTooMuch(a, b)

(* What the host said of candidates and numbers holds of every selection:  *)
(* his candidates are in it, none he excluded, not more than he asked for  *)
(* unless he insists on more, and no other one when the limit is reached.  *)
(* Nothing can be done if there are too few, but then, and only then, the  *)
(* selection says so: for the minimum he gave and for the number his words *)
(* are taken to require.  It never says that it lacks one of his.          *)
HostDecides ==
  Free /\ selection # NoCall /\ ~Fails(selection.result) =>
    LET intent == ask[selection.task].intent
        ids == DOMAIN selection.result.ranks
        most == Or(Field(intent.limits, "target_count"), Field(intent.limits, "maximum_count"))
        least == Field(intent.limits, "minimum_count")
        r == task[selection.task].requirements
    IN /\ intent.include \subseteq ids /\ intent.exclude \cap ids = {}
       /\ most # None => Cardinality(ids) <= most \/ ids = intent.include
       /\ Field(intent.limits, "maximum_count") # None =>
            Cardinality(ids) <= intent.limits["maximum_count"]
       /\ least # None =>
            (<<"minimum_count", least>> \in selection.result.unsatisfied <=> Cardinality(ids) < least)
       /\ r # None =>
            (<<"semantic_required_count", r.count>> \in selection.result.unsatisfied
               <=> Cardinality(ids) < r.count)
       /\ <<"hard_include", None>> \notin selection.result.unsatisfied

(* A reason given for a rejection is true of the final selection, too,     *)
(* although it was found out while the selection was incomplete; and a     *)
(* candidate that was selected was not rejected.                           *)
ReasonsAreTrue ==
  \A i \in Indices : LET c == Cand(i)  r == why[c.id] IN
    CASE r = "count_limit" -> Len(chosen) >= Target
      [] r = "overlap_limit" -> \E b \in Picked : OverlapsTooMuch(c, b)
      [] r = "duplicate_content" -> \E b \in Picked : b # c /\ b.gist = c.gist
      [] r = "track_diversity" -> Tracks(i) \subseteq TracksOf(Range(chosen))
      [] r \in {"ranked_selection", "host_hard_include"} -> c \in Picked
      [] OTHER -> c \notin Picked

(* The clips of a plan have the lengths the host asked for, whatever       *)
(* profile, cap and splitting did to them on the way, if one task and one  *)
(* set of proposals were used for both calls.                              *)
PlanHasTheLengthsAsked ==
  ~Fails(plan.result) /\ plan.task = selection.task /\ plan.bundle = selection.bundle =>
    LET limits == ask[plan.task].intent.limits IN
    \A c \in Range(plan.result.candidates) : c.id \in plan.result.selected =>
      /\ Field(limits, "minimum_duration") # None => Duration(c) >= limits["minimum_duration"]
      /\ Field(limits, "maximum_duration") # None => Duration(c) <= limits["maximum_duration"]

(* A plan made from the proposals that were selected from has exactly the  *)
(* candidates that were selected, even if it was made with another task,   *)
(* for which these proposals are cut into other parts.                     *)
PlanKeepsTheChoice ==
  ~Fails(plan.result) /\ plan.bundle = selection.bundle =>
    plan.result.selected = DOMAIN selection.result.ranks

Places(cs, c) == {k \in DOMAIN cs : Len(cs[k].id) = 2 /\ cs[k].id[1] = c.id[1]}
PartsIn(cs, c) ==
  [n \in {cs[k].id[2] : k \in Places(cs, c)} |->
     cs[CHOOSE k \in Places(cs, c) : cs[k].id[2] = n]]

(* A plan has the cues of a long candidate in numbered parts that follow   *)
(* each other, each cue once and in order, and no part is too long or, but *)
(* for the last, too short.                                                *)
PartsAreSound ==
  ~Fails(plan.result) =>
    \A c \in Range(bundle[plan.bundle].candidates) :
      LET cs == plan.result.candidates
          parts == PartsIn(cs, c)
      IN Places(cs, c) # {} =>
           /\ \A k, l \in Places(cs, c) : k < l => cs[k].id[2] < cs[l].id[2]
           /\ FlattenSeq([n \in DOMAIN parts |-> parts[n].cues]) = CuesWithin(c)
           /\ \A n \in DOMAIN parts :
                /\ Duration(parts[n]) <= AbsolutePart
                /\ n + 1 \in DOMAIN parts => Duration(parts[n]) >= MinimumPart
                /\ parts[n].extended <=> Duration(parts[n]) > DefaultPart
=============================================================================
