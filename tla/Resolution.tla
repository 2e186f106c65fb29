----------------------------- MODULE Resolution -----------------------------
(***************************************************************************)
(* From the host's intent, the content profile and a preset to the task a  *)
(* selection works by (application/resolution.py).  A document is a        *)
(* record; the limits and the policies somebody gave are functions on what *)
(* he gave, so that a missing key is a field that is None.                 *)
(***************************************************************************)
EXTENDS Integers, FiniteSets

CONSTANTS
  Dimensions,     \* DimensionKey
  None,
  DefaultPart,    \* DEFAULT_PART_DURATION_MS, also the preferred and the default maximum
  AbsolutePart,   \* ABSOLUTE_AUTO_MAX_DURATION_MS
  HookObjectives,
  Markers         \* objective -> the semantic requirements it stands for

ASSUME ResolutionConstants ==
  /\ None \notin Nat /\ {"hook", "completion", "visual_independence"} \subseteq Dimensions
  /\ DefaultPart \in Nat /\ AbsolutePart \in Nat /\ DefaultPart <= AbsolutePart

Empty == [x \in {} |-> None]
Merge(first, second) ==
  [x \in DOMAIN first \cup DOMAIN second |-> IF x \in DOMAIN first THEN first[x] ELSE second[x]]
Field(limits, x) == IF x \in DOMAIN limits THEN limits[x] ELSE None
Or(x, otherwise) == IF x # None THEN x ELSE otherwise
LeastOf(a, b) == IF a <= b THEN a ELSE b

Policy(applies, weight, minimum) ==
  [applies |-> applies, weight |-> weight, minimum |-> minimum]
Advisory == Policy("advisory", None, None)

(* What the content says of each dimension.                                *)
ContentPolicies(profile) ==
  [d \in Dimensions |->
     IF profile = None THEN Advisory
     ELSE IF d = "visual_independence" /\ profile.visual THEN Policy("not_applicable", None, None)
     ELSE IF d \in profile.emphasized THEN Policy("weighted", 1, None) ELSE Advisory]

(* The host's policies over the preset's over the content's; a hook asked  *)
(* for as an outcome overrides even the host's own policy for it.          *)
Policies(intent, profile, preset) ==
  LET layered == Merge(intent.policies, Merge(preset.policies, ContentPolicies(profile)))
      hooked == [layered EXCEPT
                   !["hook"] = Policy("required", None, 0),
                   !["completion"] = IF "completion" \in DOMAIN intent.policies
                                     THEN @ ELSE Advisory]
  IN IF intent.outcomes \cap HookObjectives = {} THEN layered ELSE hooked

(* ClipConstraints: every limit is a number.                               *)
NumericLimits(limits) == \A x \in DOMAIN limits : limits[x] \in Nat

(* ClipConstraints.validate_constraints.                                   *)
Exceeds(limits, x, y) ==
  Field(limits, x) # None /\ Field(limits, y) # None /\ limits[x] > limits[y]
Contradictory(limits) ==
  \/ Exceeds(limits, "minimum_count", "maximum_count")
  \/ Exceeds(limits, "minimum_count", "target_count")
  \/ Exceeds(limits, "target_count", "maximum_count")
  \/ Exceeds(limits, "minimum_duration", "maximum_duration")
  \/ Exceeds(limits, "minimum_duration", "target_duration")
  \/ Exceeds(limits, "target_duration", "maximum_duration")

DurationFields == {"minimum_duration", "maximum_duration", "target_duration"}

BadLimits(intent, profile) ==   \* the profile's values first
  Merge(IF profile = None THEN Empty ELSE profile.limits, intent.limits)

(* The host's limits over the inferred ones, which DIRECTED does without;  *)
(* the maximum is capped unless a DIRECTED host named a duration.          *)
Limits(intent, profile) ==
  LET inferred == IF profile = None \/ intent.mode = "directed" THEN Empty ELSE profile.limits
      merged == Merge(intent.limits, inferred)
      longForm == intent.mode = "directed" /\ DOMAIN intent.limits \cap DurationFields # {}
      capped == LeastOf(Or(Field(merged, "maximum_duration"), AbsolutePart), AbsolutePart)
  IN IF longForm THEN merged ELSE Merge([x \in {"maximum_duration"} |-> capped], merged)

Requested(intent) ==
  Or(Field(intent.limits, "target_duration"),
     Or(Field(intent.limits, "maximum_duration"), Field(intent.limits, "minimum_duration")))

(* The first marker found in the objectives, unless the host gave          *)
(* requirements himself.  A minimum of zero counts as none.                *)
SemanticRequirements(intent, objectives) ==
  LET found == objectives \cap DOMAIN Markers
      minimum == Field(intent.limits, "minimum_count")
      count == Or(Field(intent.limits, "target_count"), IF minimum \in {None, 0} THEN 1 ELSE minimum)
  IN IF intent.requirements # None THEN intent.requirements
     ELSE IF found = {} THEN None
     ELSE [Markers[CHOOSE m \in found : TRUE] EXCEPT !.count = count]

Objectives(intent, profile, preset) ==
  IF intent.outcomes # {} THEN intent.outcomes
  ELSE IF preset.objectives # {} THEN preset.objectives
  ELSE IF profile # None THEN profile.objectives
  ELSE {"produce_explainable_candidates"}

NoPreset == [objectives |-> {}, policies |-> Empty, order |-> None, diversity |-> None]
Failure(code) == [error |-> code]
Fails(document) == "error" \in DOMAIN document

(* _capability_conflicts: features nobody offers, or longer clips.         *)
CapabilityConflict(intent, offered) ==
  LET target == Field(intent.limits, "target_duration") IN
  \/ intent.needs \cap offered.unavailable # {}
  \/ offered.longest # None /\ target # None /\ target > offered.longest

(* resolve_task_profile, for a capability profile.                         *)
ResolveTask(intent, profile, preset, offered) ==
  LET limits == Limits(intent, profile) IN
  IF intent.mode = "auto" /\ profile = None THEN Failure("PROVIDER_REQUIRED")
  ELSE IF CapabilityConflict(intent, offered) THEN Failure("CAPABILITY_CONFLICT")
  ELSE IF Contradictory(limits) THEN Failure("HOST_INTENT_CONFLICT")
  ELSE [mode |-> intent.mode, limits |-> limits, requested |-> Requested(intent),
        policies |-> Policies(intent, profile, preset),
        include |-> intent.include, exclude |-> intent.exclude,
        order |-> Or(intent.order, Or(preset.order, profile # None /\ profile.narrative)),
        prefer |-> profile # None /\ profile.manyTracks,
        diverse |-> Or(intent.diversity, Or(preset.diversity, FALSE)),
        requirements |-> SemanticRequirements(intent, Objectives(intent, profile, preset))]
=============================================================================
