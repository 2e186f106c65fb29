---------------------------- MODULE SemanticSpans ----------------------------
(***************************************************************************)
(* The timed cues of a transcript regrouped by meaning                     *)
(* (application/subtitle_display.py, domain/subtitles.py).  The text of a  *)
(* cue is a sequence of pieces, as SEMANTIC_FRAGMENT_PATTERN cuts it: each *)
(* ends in a sentence or clause mark or, only the last, in neither.  What  *)
(* strip() skips is a blank piece, a mark that the pattern skips because   *)
(* it follows another is a bare one.  Of its words a piece keeps what the  *)
(* callers tell apart.                                                     *)
(***************************************************************************)
EXTENDS SequenceTools, SequencesExt, FiniteSets

CONSTANTS
  MaximumGap,        \* maximum_gap_ms
  MaximumDisplay,    \* maximum_display_duration_ms
  Nobody

ASSUME SpanConstants == MaximumGap \in Nat /\ MaximumDisplay \in Nat \ {0}

(* round(n / d), which rounds a half to the even neighbour.                *)
Rounded(n, d) ==
  LET q == n \div d IN
  IF 2 * (n % d) > d \/ (2 * (n % d) = d /\ q % 2 = 1) THEN q + 1 ELSE q

Lasts(x) == x.end - x.start

(* The fragments of a cue share its time in proportion to their length.    *)
Sizes(pieces) == SumOf([n \in DOMAIN pieces |-> pieces[n].size])
At(cue, n) ==   \* the time at which piece n ends
  cue.start + Rounded(Lasts(cue) * Sizes(SubSeq(cue.pieces, 1, n)), Sizes(cue.pieces))
Skipped(piece) == piece.ends = "blank" \/ piece.bare
FragmentsOf(cue) ==
  Those([n \in DOMAIN cue.pieces |->
           [piece |-> cue.pieces[n], cue |-> cue.id, nth |-> n,
            start |-> At(cue, n - 1), end |-> At(cue, n)]],
        {n \in DOMAIN cue.pieces : ~Skipped(cue.pieces[n])})

SpeakerChanged(a, b) ==
  a.speaker # Nobody /\ b.speaker # Nobody /\ a.speaker # b.speaker
BadSevered(a, b) == b.start - a.end > MaximumGap   \* whoever speaks
Severed(a, b) == b.start - a.end > MaximumGap \/ SpeakerChanged(a, b)

(* A span in the making is a sequence of fragments, the last of acc.       *)
Opened(acc) == Last(acc) # <<>>
Flush(acc) == IF Opened(acc) THEN Append(acc, <<>>) ELSE acc
AddFragment(acc, f) ==
  LET current == Last(acc)
      late == /\ Opened(acc)
              /\ f.end - current[1].start > MaximumDisplay
              /\ Last(current).piece.ends = "clause"
      ready == IF late THEN Flush(acc) ELSE acc
      grown == [ready EXCEPT ![Len(ready)] = Append(@, f)]
  IN IF f.piece.ends = "sentence" THEN Flush(grown) ELSE grown

AddFragments(acc, fragments) ==
  LET after[k \in 0..Len(fragments)] ==
        IF k = 0 THEN acc ELSE AddFragment(after[k - 1], fragments[k])
  IN after[Len(fragments)]
AddCueText(cues, acc, n) ==
  AddFragments(IF n > 1 /\ Severed(cues[n - 1], cues[n]) THEN Flush(acc) ELSE acc,
               FragmentsOf(cues[n]))

Grouped(cues) ==
  LET after[n \in 0..Len(cues)] ==
        IF n = 0 THEN << <<>> >> ELSE AddCueText(cues, after[n - 1], n)
      acc == after[Len(cues)]
  IN IF Opened(acc) THEN acc ELSE Front(acc)

SpanOfText(fragments) ==
  [text |-> fragments, start |-> fragments[1].start, end |-> Last(fragments).end,
   cues |-> {f.cue : f \in Range(fragments)}]

(* The validators of SubtitleSemanticSpan: one span without duration, or   *)
(* of a single function word, and there are no spans at all.               *)
ValidSpan(s) == s.end > s.start /\ ~(Len(s.text) = 1 /\ s.text[1].piece.lone)
SemanticSourceSpans(cues) ==
  LET spans == [n \in DOMAIN Grouped(cues) |-> SpanOfText(Grouped(cues)[n])]
  IN [spans |-> spans, valid |-> \A s \in Range(spans) : ValidSpan(s)]

-----------------------------------------------------------------------------
(* semantic_source_groups: whole cues, split at the latest clause end when *)
(* a group has become too long.                                            *)
EndOf(cue) ==
  LET p == SelectSeq(cue.pieces, LAMBDA piece : piece.ends # "blank")
  IN IF p = <<>> THEN "phrase" ELSE Last(p).ends

LatestClause(group) == {n \in 1..(Len(group) - 1) : EndOf(group[n]) = "clause"}
SplitLong(done, group) ==
  IF Lasts([start |-> group[1].start, end |-> Last(group).end]) < MaximumDisplay
     \/ LatestClause(group) = {}
  THEN [done |-> done, group |-> group]
  ELSE LET k == CHOOSE k \in LatestClause(group) : \A j \in LatestClause(group) : j <= k
       IN [done |-> Append(done, SubSeq(group, 1, k)),
           group |-> SubSeq(group, k + 1, Len(group))]

GroupCue(acc, cue) ==
  LET cut == acc.group # <<>> /\ Severed(Last(acc.group), cue)
      done == IF cut THEN Append(acc.done, acc.group) ELSE acc.done
      group == IF cut THEN <<cue>> ELSE Append(acc.group, cue)
  IN IF EndOf(cue) = "sentence" THEN [done |-> Append(done, group), group |-> <<>>]
     ELSE SplitLong(done, group)

SemanticSourceGroups(cues) ==
  LET after[n \in 0..Len(cues)] ==
        IF n = 0 THEN [done |-> <<>>, group |-> <<>>] ELSE GroupCue(after[n - 1], cues[n])
      acc == after[Len(cues)]
  IN IF acc.group = <<>> THEN acc.done ELSE Append(acc.done, acc.group)

-----------------------------------------------------------------------------
(* materialize_display_units: a translation record names the cues it       *)
(* covers and the text it found there, here the ids of the cues it read.   *)
IdsOfCues(cues) == [n \in DOMAIN cues |-> cues[n].id]
Positions(cues, record) ==
  [n \in DOMAIN record.cues |-> CHOOSE k \in DOMAIN cues : cues[k].id = record.cues[n]]
Contiguous(p) == \A n \in DOMAIN p : p[n] = p[1] + n - 1

RecordFits(cues, records, k) ==
  /\ Range(records[k].cues) \subseteq Range(IdsOfCues(cues))
  /\ Contiguous(Positions(cues, records[k]))
  /\ \A j \in 1..(k - 1) : Range(records[j].cues) \cap Range(records[k].cues) = {}
  /\ records[k].text = records[k].cues

UnitOf(cues, record) ==
  LET covered == {c \in Range(cues) : c.id \in Range(record.cues)}
  IN [start |-> CHOOSE t \in {c.start : c \in covered} : \A c \in covered : t <= c.start,
      end |-> CHOOSE t \in {c.end : c \in covered} : \A c \in covered : t >= c.end,
      cues |-> record.cues, text |-> record.text, translation |-> record.id,
      language |-> record.language, translated |-> record.translated]

MaterializeDisplayUnits(cues, records) ==
  IF \E k \in DOMAIN records : ~RecordFits(cues, records, k) THEN "ValueError"
  ELSE SortSeq([k \in DOMAIN records |-> UnitOf(cues, records[k])],
               LAMBDA a, b : a.start < b.start)
=============================================================================
