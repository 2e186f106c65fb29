-------------------------------- MODULE Sports --------------------------------
(***************************************************************************)
(* Sports clips from observations of a game (strategies/sports.py,         *)
(* application/sports.py, domain/sports.py): observations become events,   *)
(* events become candidates, a request selects among them.  A correlation  *)
(* key is a positive number, the key of the n-th temporal cluster is -n;   *)
(* an event and its candidate are named by their key.                      *)
(***************************************************************************)
EXTENDS CutCandidates, FiniteSetsExt

CONSTANTS
  ClusterGap,              \* the 2 s between observations of one cluster
  Margin,                  \* the 5 s before and after an event
  LeastClip, MostClip      \* 8 s and 60 s

ASSUME SportsConstants ==
  ClusterGap \in Nat /\ Margin \in Nat /\ LeastClip \in Nat /\ MostClip \in Nat

(* The validators of an observation and of a bundle.                       *)
SaysReplay(o) == o.role = "replay" \/ o.type \in {"replay_start", "replay_end"}
ValidObservation(o) == o.end > o.start /\ (SaysReplay(o) <=> o.replayOf # None)
PrimaryKeys(bundle) == {o.key : o \in {o \in Range(bundle) : o.role # "replay" /\ o.key # None}}
ValidBundle(bundle) ==
  /\ \A k, n \in DOMAIN bundle : bundle[k].id = bundle[n].id => k = n
  /\ \A o \in Range(bundle) :
       ValidObservation(o) /\ (o.replayOf # None => o.replayOf \in PrimaryKeys(bundle))

EarlierIn(bundle) ==
  {p \in (DOMAIN bundle) \X (DOMAIN bundle) :
     LET a == bundle[p[1]]  b == bundle[p[2]] IN
     a.start < b.start \/ (a.start = b.start /\ p[1] < p[2])}
ByStart(bundle) ==
  LET order == OrderedBy(DOMAIN bundle, EarlierIn(bundle))
  IN [n \in DOMAIN order |-> bundle[order[n]]]

-----------------------------------------------------------------------------
(* aggregate_sports_events.  What has no key belongs to the cluster of     *)
(* what came before, unless it starts too late after all of that.          *)
BadAddObservation(acc, o) ==   \* too late after the one before
  LET opens == o.key = None /\ (acc.end = None \/ o.start - acc.end > ClusterGap)
      clusters == IF opens THEN acc.clusters + 1 ELSE acc.clusters
  IN [clusters |-> clusters, end |-> o.end,
      keys |-> Append(acc.keys, IF o.key = None THEN -clusters ELSE o.key)]
AddObservation(acc, o) ==
  LET opens == o.key = None /\ (acc.end = None \/ o.start - acc.end > ClusterGap)
      clusters == IF opens THEN acc.clusters + 1 ELSE acc.clusters
  IN [clusters |-> clusters, end |-> IF acc.end # None /\ acc.end > o.end THEN acc.end ELSE o.end,
      keys |-> Append(acc.keys, IF o.key = None THEN -clusters ELSE o.key)]
NothingAdded == [clusters |-> 0, end |-> None, keys |-> <<>>]
KeysOf(sorted) ==
  LET upTo[n \in 0..Len(sorted)] ==
        IF n = 0 THEN NothingAdded ELSE AddObservation(upTo[n - 1], sorted[n])
  IN upTo[Len(sorted)].keys

(* The hint of the most confident observation, of the first among equals.  *)
EventType(seen) ==
  LET hinted == {n \in DOMAIN seen : seen[n].hint # None}
      best == {n \in hinted : \A k \in hinted : seen[k].confidence <= seen[n].confidence}
  IN IF hinted = {} THEN "unknown" ELSE seen[Min(best)].hint

HasPrimary(sorted, keys, key) ==
  \E n \in DOMAIN sorted : keys[n] = key /\ sorted[n].role # "replay"
ReplayTarget(sorted, keys, seen) ==
  LET targets == {o.replayOf : o \in Range(seen)} \ {None} IN
  IF targets # {} /\ HasPrimary(sorted, keys, Min(targets)) THEN Min(targets) ELSE None

EventOf(sorted, keys, key) ==
  LET seen == Those(sorted, {n \in DOMAIN keys : keys[n] = key}) IN
  [id |-> key, start |-> FirstStart(Range(seen)), end |-> LastEnd(Range(seen)),
   type |-> EventType(seen), seen |-> {o.id : o \in Range(seen)},
   roles |-> {o.role : o \in Range(seen)}, modalities |-> {o.modality : o \in Range(seen)},
   types |-> {o.type : o \in Range(seen)}, said |-> UNION {o.cues : o \in Range(seen)},
   confidence |-> FoldLeft(LAMBDA k, o : k + o.confidence, 0, seen), count |-> Len(seen),
   replayOf |-> ReplayTarget(sorted, keys, seen)]

(* In the order of their first observations.                               *)
EventsIn(sorted, keys) ==
  LET first == Increasing({n \in DOMAIN keys : \A k \in 1..(n - 1) : keys[k] # keys[n]}, Len(keys))
  IN [n \in DOMAIN first |-> EventOf(sorted, keys, keys[first[n]])]
EventsOf(bundle) ==
  LET sorted == ByStart(bundle) IN EventsIn(sorted, KeysOf(sorted))
ValidSportsEvent(e) == e.replayOf # None => "replay" \in e.roles

-----------------------------------------------------------------------------
(* build_sports_profile: what is known of an event is enough for a clip.   *)
ReplayOnly(e) == e.roles = {"replay"}
StrongScoreboard(e) == "scoreboard_change" \in e.types /\ "outcome" \in e.roles
StrongText(e) ==
  /\ e.types = {"event_classification"} /\ e.roles = {"outcome"} /\ e.modalities = {"text"}
  /\ e.confidence >= 85 * e.count
Confirmed(e) ==
  /\ e.type # "unknown" /\ e.roles \cap {"action", "outcome"} # {}
  /\ Cardinality(e.modalities) >= 2 \/ StrongScoreboard(e) \/ StrongText(e)
ProfileQualified(e) == Confirmed(e) \/ (ReplayOnly(e) /\ e.replayOf # None)

(* _candidate_range.                                                       *)
CandidateRange(e, lasts) ==
  LET start == Max({0, e.start - Margin})
      end == Min({lasts, e.end + Margin})
      missing == Max({0, LeastClip - (end - start)})
      first == Max({0, start - (missing \div 2)})
      last == Min({lasts, end + missing - (missing \div 2)})
  IN [start |-> first, end |-> IF last - first > MostClip THEN first + MostClip ELSE last]

SportsCandidate(e, range) ==
  [id |-> e.id, start |-> range.start, end |-> range.end, event |-> e, evidence |-> {e.id},
   profile |-> None, cues |-> <<>>, translated |-> <<>>, spans |-> <<>>, units |-> <<>>,
   records |-> <<>>, signals |-> {}, series |-> None, index |-> None, total |-> None]

ProposeSportsCandidates(bundle, lasts) ==
  LET events == EventsOf(bundle) IN
  IF \E e \in Range(events) : ~ValidSportsEvent(e) THEN Failure("ValueError")
  ELSE LET candidates == [n \in DOMAIN events |->
                            SportsCandidate(events[n], CandidateRange(events[n], lasts))]
       IN IF \A c \in Range(candidates) : ValidCandidate(c) THEN [candidates |-> candidates]
          ELSE Failure("ValueError")

-----------------------------------------------------------------------------
(* resolve_sports_request.  An instruction names an event type by markers, *)
(* each negated or not, and some of "score" name only a kind of it.        *)
Conflicting(type, marks) ==
  \/ {m.negated : m \in marks} = BOOLEAN
  \/ type = "score" /\ \E m \in marks : m.negated /\ m.narrow
SportsRequest(said) ==
  IF \E t \in DOMAIN said.names : Conflicting(t, said.names[t])
  THEN Failure("HOST_INTENT_CONFLICT")
  ELSE [required |-> {t \in DOMAIN said.names : \E m \in said.names[t] : ~m.negated},
        forbidden |-> {t \in DOMAIN said.names : \E m \in said.names[t] : m.negated},
        said |-> said.cues, replays |-> said.replays = "wanted", count |-> said.count]

(* qualify_sports_candidate: the reasons against it.                       *)
AgainstEvent(e, request) ==
  (IF ProfileQualified(e) THEN {} ELSE {"insufficient_evidence"})
    \cup (IF request.required # {} /\ e.type \notin request.required THEN {"missing_type"} ELSE {})
    \cup (IF request.said \subseteq e.said THEN {} ELSE {"missing_cue"})
    \cup (IF e.type \in request.forbidden THEN {"forbidden_type"} ELSE {})
    \cup (IF ReplayOnly(e) /\ ~request.replays THEN {"replay_excluded"} ELSE {})

(* The rank: modalities, with which the completeness grows, then the mean  *)
(* confidence, then the earlier one; equal ones keep their order.          *)
BetterEvent(a, b) ==
  LET m == Cardinality(a.modalities)  n == Cardinality(b.modalities) IN
  \/ m > n
  \/ m = n /\ a.confidence * b.count > b.confidence * a.count
SelectSports(candidates, request) ==
  LET good == {n \in DOMAIN candidates : AgainstEvent(candidates[n].event, request) = {}}
      Before(i, j) ==
        LET a == candidates[i].event  b == candidates[j].event IN
        \/ BetterEvent(a, b)
        \/ ~BetterEvent(b, a) /\ candidates[i].start < candidates[j].start
        \/ ~BetterEvent(b, a) /\ candidates[i].start = candidates[j].start /\ i < j
      ranked == OrderedBy(good, {p \in good \X good : Before(p[1], p[2])})
      count == IF request.count # None THEN request.count ELSE Min({3, Len(ranked)})
  IN {candidates[ranked[n]].id : n \in 1..Min({count, Len(ranked)})}

(* create_sports_plan, build_sports_plan: refs are the provider records    *)
(* that the bundle refers to.                                              *)
CreateSportsPlan(bundle, refs, lasts, records, request) ==
  LET proposed == ProposeSportsCandidates(bundle, lasts) IN
  IF "error" \in DOMAIN proposed THEN proposed
  ELSE IF ~(refs \subseteq records) THEN Failure("ValueError")
  ELSE LET selected == SelectSports(proposed.candidates, request) IN
       PlanOver(bundle, lasts, proposed.candidates, LAMBDA id : id \in selected)
=============================================================================
