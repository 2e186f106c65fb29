------------------------------ MODULE Education ------------------------------
(***************************************************************************)
(* Educational clips from a transcript alone (application/educational.py,  *)
(* strategies/educational.py, domain/education.py): propose, prepare,      *)
(* select, plan.  A piece of text keeps what the patterns find in it:      *)
(* words, says (signal types), opening, refers, waits, topics, stutters.   *)
(***************************************************************************)
EXTENDS CutCandidates, FiniteSetsExt

CONSTANTS
  Structural,        \* STRUCTURAL_EDUCATION_SIGNAL_TYPES
  EnoughTime,        \* MINIMUM_EDUCATIONAL_CANDIDATE_DURATION_MS
  WeakWords,         \* 3: fewer words are a weak boundary
  EnoughWords        \* 5: fewer words are no educational statement

ASSUME TimeConstant == EnoughTime \in Nat
ASSUME NoneIsNoName == None \notin Nat /\ None \notin Seq(Nat)   \* of a part or a candidate

(* How a text opens, for the patterns anchored at its start.               *)
DependentOpenings == {"then", "therefore", "assume"}   \* DEPENDENT_SEMANTIC_START_PATTERN
PreviousOpenings == {"then", "therefore"}              \* PREVIOUS_CONTEXT_PATTERN
LeaningOpenings == {"therefore", "because"}            \* DEPENDENT_TOPIC_CONTEXT_PATTERN

Words(text) == FoldLeft(LAMBDA k, f : k + f.piece.words, 0, text)
Stutters(text) == SumOf([n \in DOMAIN text |-> text[n].piece.stutters])
Says(text) == UNION {f.piece.says : f \in Range(text)}
TopicsOf(text) == UNION {f.piece.topics : f \in Range(text)}
Opening(text) == IF text = <<>> THEN "plain" ELSE text[1].piece.opening
Waits(text) == text # <<>> /\ Last(text).piece.waits
EndsInClause(text) == text # <<>> /\ Last(text).piece.ends = "clause"

Weak(span) == Words(span.text) < WeakWords
Dependent(span) ==
  Opening(span.text) \in DependentOpenings \/ \E f \in Range(span.text) : f.piece.refers
UnsafePrevious(span) == Weak(span) \/ Dependent(span)

-----------------------------------------------------------------------------
(* _expand_semantic_spans: the window of spans around one of them.         *)
GapBetween(a, b) == IF b.start > a.end THEN b.start - a.end ELSE 0
WindowLasts(spans, w) == spans[w.last].end - spans[w.first].start
WholeTranscript(spans, w) == w.first = 1 /\ w.last = Len(spans)

(* A safe neighbour before one after; the nearer one of two safe ones.     *)
PrefersPrevious(spans, w) ==
  /\ w.first > 1
  /\ \/ w.last = Len(spans)
     \/ /\ ~UnsafePrevious(spans[w.first - 1])
        /\ GapBetween(spans[w.first - 1], spans[w.first])
             <= GapBetween(spans[w.last], spans[w.last + 1])
Widen(spans, w) ==
  IF WindowLasts(spans, w) >= EnoughTime \/ WholeTranscript(spans, w) THEN w
  ELSE IF PrefersPrevious(spans, w) THEN [w EXCEPT !.first = @ - 1]
  ELSE [w EXCEPT !.last = @ + 1]

(* Back to a span that is not weak while the first depends on what precedes. *)
BadReachBack(spans, w) ==   \* one span back, whatever it is
  IF w.first > 1 /\ Dependent(spans[w.first]) THEN [w EXCEPT !.first = @ - 1] ELSE w
ReachBack(spans, w) ==
  LET strong == {k \in 1..(w.first - 1) : ~Weak(spans[k])} IN
  IF Dependent(spans[w.first]) /\ strong # {} THEN [w EXCEPT !.first = Max(strong)] ELSE w

ReachForward(spans, w) ==
  [w EXCEPT !.last = Min({k \in w.last..Len(spans) : ~Weak(spans[k])} \cup {Len(spans)})]

(* Each as often as there are spans, which is often enough.                *)
Widened(spans, n) ==
  LET after[k \in 0..Len(spans)] ==
        IF k = 0 THEN [first |-> n, last |-> n] ELSE Widen(spans, after[k - 1])
  IN after[Len(spans)]
ReachedBack(spans, w) ==
  LET after[k \in 0..Len(spans)] == IF k = 0 THEN w ELSE ReachBack(spans, after[k - 1])
  IN after[Len(spans)]
Window(spans, n) == ReachForward(spans, ReachedBack(spans, Widened(spans, n)))

-----------------------------------------------------------------------------
(* What is read of a candidate: its spans, or its cues.                    *)
CueText(cue) == FragmentsOf(cue)
TextsOf(c) ==
  IF c.spans # <<>> THEN [n \in DOMAIN c.spans |-> [c.spans[n] EXCEPT !.cues = {}]]
  ELSE [n \in DOMAIN c.cues |-> [text |-> CueText(c.cues[n]), start |-> c.cues[n].start,
                                 end |-> c.cues[n].end, cues |-> {}]]

RolesOf(text) ==
  (IF Opening(text) \in PreviousOpenings THEN {"requires_previous"} ELSE {})
    \cup (IF Waits(text) THEN {"requires_following"} ELSE {})

NewIn(texts, n) ==
  Says(texts[n].text) \ UNION {Says(texts[k].text) : k \in 1..(n - 1)}

(* extract_education_signals: the first text that has a type stands for it. *)
SignalsIn(texts, refs) ==
  UNION {{[type |-> t, roles |-> RolesOf(texts[n].text), start |-> texts[n].start,
           end |-> texts[n].end, refs |-> refs] : t \in NewIn(texts, n)} : n \in DOMAIN texts}

Types(c) == {s.type : s \in c.signals}
HasStructure(c) == Types(c) \cap Structural # {}

(* build_educational_profile.                                              *)
ContextRoles(c) ==
  LET first == TextsOf(c)[1].text  last == Last(TextsOf(c)).text IN
  UNION {s.roles : s \in c.signals}
    \cup (IF Waits(last) \/ EndsInClause(last) THEN {"requires_following"} ELSE {})
    \cup (IF "definition" \notin Types(c) /\ Opening(first) \in PreviousOpenings
          THEN {"requires_previous"} ELSE {})
ProfileQualifies(c) ==
  HasStructure(c) /\ c.words >= EnoughWords /\ ContextRoles(c) = {}

-----------------------------------------------------------------------------
(* propose_educational_candidates: one for each span that says something   *)
(* structural, with its window.  Each is validated before its signals and  *)
(* its profile are added, and one that is invalid fails the whole call.    *)
Bare(cues, spans, n, w) ==
  LET window == SubSeq(spans, w.first, w.last)
      covered == UNION {s.cues : s \in Range(window)}
  IN [id |-> <<n>>, start |-> window[1].start, end |-> Last(window).end,
      opening |-> Opening(spans[n].text),
      words |-> Words(spans[n].text), stutters |-> Stutters(spans[n].text),
      about |-> TopicsOf(spans[n].text), evidence |-> {<<n>>}, spans |-> window,
      snapshot |-> UNION {TopicsOf(s.text) : s \in Range(window)},
      cues |-> Those(cues, {k \in DOMAIN cues : cues[k].id \in covered}),
      translated |-> <<>>, units |-> <<>>, records |-> <<>>, signals |-> {},
      profile |-> None, event |-> None, extended |-> FALSE, series |-> None, index |-> None,
      total |-> None]
Proposed(cues, spans, n, w) ==
  LET bare == Bare(cues, spans, n, w) IN
  [bare EXCEPT !.signals = SignalsIn(<<spans[n]>>, bare.evidence), !.profile = bare.id]
CanPropose(cues, spans, windows) ==
  \A n \in DOMAIN spans : ValidCandidate(Bare(cues, spans, n, windows[n]))

WindowsOf(spans) == [n \in DOMAIN spans |-> Window(spans, n)]
ProposedFrom(cues, spans, windows) ==
  LET all == [n \in DOMAIN spans |-> Proposed(cues, spans, n, windows[n])]
  IN Those(all, {n \in DOMAIN spans : HasStructure(all[n])})

(* prepare_educational_duration: a part reads its own texts again.  Its    *)
(* summary has " (Part i/n)" added, which are three words, and of the last *)
(* part two equal ones.                                                    *)
BadPartTexts(c, p) ==   \* spans that only touch the part
  [p EXCEPT !.spans = SelectSeq(c.spans, LAMBDA s : Overlaps(s, p))]
PartTexts(c, p) ==
  [p EXCEPT !.spans = Those(c.spans, {k \in DOMAIN c.spans : /\ c.spans[k].start >= p.start
                                                             /\ c.spans[k].end <= p.end})]
PreparedPart(c, p, total) ==
  LET q == PartTexts(c, [p EXCEPT !.total = total, !.profile = p.id,
                 !.words = @ + 3, !.stutters = IF p.index = total THEN @ + 5 ELSE @,
                 !.snapshot = UNION {TopicsOf(CueText(x)) : x \in Range(p.cues)}])
  IN [q EXCEPT !.signals = SignalsIn(TextsOf(q), q.evidence)]

PrepareDuration(c) ==
  IF Duration(c) <= DefaultPart THEN <<c>>
  ELSE IF Duration(c) <= AbsolutePart THEN <<[c EXCEPT !.extended = TRUE]>>
  ELSE LET parts == SplitCandidate(c)
       IN [n \in DOMAIN parts |-> PreparedPart(c, parts[n], Len(parts))]
PrepareAll(candidates) == FlattenSeq([n \in DOMAIN candidates |-> PrepareDuration(candidates[n])])
=============================================================================
