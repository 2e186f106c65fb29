------------------------------ MODULE SportsText ------------------------------
(***************************************************************************)
(* Observations of a game read from its transcript                         *)
(* (providers/sports_text.py).  A segment's text is the set of the         *)
(* patterns that it matches, its words, the rules of the profile that it   *)
(* matches, and whether it ends in the middle of a sentence.  Of two texts *)
(* joined, the patterns are those of both and a hypothesis that begins in  *)
(* one and ends in the other.                                              *)
(***************************************************************************)
EXTENDS Sports

CONSTANTS
  ContextGap,        \* CONTEXT_MAX_GAP_MS
  Lookback,          \* CANCELLATION_LOOKBACK_MS
  DuplicateGap       \* ROLLING_DUPLICATE_MAX_GAP_MS

(* _classify_current_segment_result_assertion: the first that matches.     *)
Assertion(text) ==
  LET order == <<"cancelled", "negated", "attempt_or_future", "explicit_result">>
      found == SelectSeq(order, LAMBDA a : a \in text.matches)
  IN IF found = <<>> THEN "nominal_or_unknown" ELSE found[1]

ShouldInherit(previous, assertion) ==
  \/ previous.matches \cap {"retrospective", "inherited_hypothetical"} # {}
  \/ assertion # "explicit_result" /\ "conditional" \in previous.matches

(* What the context of segment n matches: its text, or that of two.        *)
Joined(a, b) ==
  a.matches \cup b.matches
    \cup (IF "conditional" \in a.matches /\ "result_word" \in b.matches
          THEN {"hypothetical"} ELSE {})
ContextOf(segments, n) ==
  LET s == segments[n] IN
  IF /\ n > 1
     /\ s.start - segments[n - 1].end <= ContextGap
     /\ segments[n - 1].text.open
     /\ ShouldInherit(segments[n - 1].text, Assertion(s.text))
  THEN Joined(segments[n - 1].text, s.text) ELSE s.text.matches

-----------------------------------------------------------------------------
(* _detect_segment.  A rule is [signal, type, strong, confidence, cues].   *)
Detection(s, type, signal, confidence, strong, cues) ==
  [segment |-> s.id, start |-> s.start, end |-> s.end, type |-> type, signal |-> signal,
   confidence |-> confidence, strong |-> strong, words |-> s.text.words, cues |-> cues]

TypeFor(s, rule) ==
  IF rule.type = "score" /\ "failed" \in s.text.matches THEN "attempt" ELSE rule.type
Ruled(s, rule) ==
  LET type == TypeFor(s, rule)  real == type # "attempt" IN
  Detection(s, type, rule.signal, rule.confidence, rule.strong /\ real,
            IF real THEN rule.cues ELSE {})
FirstOfTypes(found) ==
  Those(found, {n \in DOMAIN found : \A k \in 1..(n - 1) : found[k].type # found[n].type})

DetectSegment(s, context) ==
  IF "retrospective" \in context THEN <<>>
  ELSE IF Assertion(s.text) = "cancelled"
       THEN <<Detection(s, "controversy", "cancelled_score", 92, TRUE, {})>>
  ELSE IF Assertion(s.text) \in {"negated", "attempt_or_future"} \/ "hypothetical" \in context
       THEN <<>>
  ELSE FirstOfTypes([n \in DOMAIN s.text.rules |-> Ruled(s, s.text.rules[n])])

(* _detect_segments: the latest result within the lookback is taken back,  *)
(* and what repeats one of the last three is left out.                     *)
Retractable(found, s) ==
  {n \in DOMAIN found : /\ found[n].type \in {"score", "finish"}
                        /\ s.start - found[n].end \in 0..Lookback}
BadRetract(found, s) ==   \* the first one
  IF Retractable(found, s) = {} THEN found ELSE RemoveAt(found, Min(Retractable(found, s)))
Retract(found, s) ==
  IF Retractable(found, s) = {} THEN found ELSE RemoveAt(found, Max(Retractable(found, s)))

Similar(a, b) ==   \* 80 %
  5 * Cardinality(a.words \cap b.words)
    >= 4 * Max({1, Min({Cardinality(a.words), Cardinality(b.words)})})
RollingDuplicate(d, found) ==
  \E n \in Max({1, Len(found) - 2})..Len(found) :
    LET e == found[n] IN
    /\ d.type = e.type /\ d.signal = e.signal
    /\ Overlaps(d, e) \/ d.start - e.end \in 0..DuplicateGap
    /\ Similar(d, e)

AddDetection(found, d) == IF RollingDuplicate(d, found) THEN found ELSE Append(found, d)
AddAll(found, current) ==
  LET after[n \in 0..Len(current)] ==
        IF n = 0 THEN found ELSE AddDetection(after[n - 1], current[n])
  IN after[Len(current)]
DetectNext(found, s, context) ==
  LET current == DetectSegment(s, context)
      kept == IF \E d \in Range(current) : d.signal = "cancelled_score"
              THEN Retract(found, s) ELSE found
  IN AddAll(kept, current)
DetectSegments(segments) ==
  LET after[n \in 0..Len(segments)] ==
        IF n = 0 THEN <<>> ELSE DetectNext(after[n - 1], segments[n], ContextOf(segments, n))
  IN after[Len(segments)]

(* _observation: its key is a hash of segment, type and signal, here its   *)
(* place, as no two have these in common.                                  *)
ObservationOf(found, n) ==
  LET d == found[n] IN
  [id |-> <<d.segment, d.type, d.signal>>, start |-> d.start, end |-> d.end,
   role |-> IF d.strong THEN "outcome" ELSE "action", modality |-> "text",
   type |-> "event_classification", confidence |-> d.confidence, hint |-> d.type,
   cues |-> d.cues, key |-> n, replayOf |-> None, provider |-> "sports_text"]
Detect(segments) ==
  LET found == DetectSegments(segments) IN
  [n \in DOMAIN found |-> ObservationOf(found, n)]
=============================================================================
