-------------------------- MODULE DurationSplitFacts --------------------------
(***************************************************************************)
(* What candidates are split into, by induction over their cues: groups    *)
(* that have all of them, in order, and parts with ids of their own.       *)
(***************************************************************************)
EXTENDS DurationSplit, SequenceFacts

-----------------------------------------------------------------------------
(* The groups of cues.                                                     *)

Groups(cues, g, n) ==
  g = [k \in 0..n |-> IF k = 0 THEN <<>> ELSE AddCue(g[k - 1], cues[k])]

LEMMA GroupsExist ==
  ASSUME NEW cues, NEW n \in Nat
  PROVE  \E g : Groups(cues, g, n)
<1> DEFINE S == {m \in Nat : \E g : Groups(cues, g, m)}
<1>1. 0 \in S
  <2>1. Groups(cues, [k \in 0..0 |-> <<>>], 0)
    BY DEF Groups
  <2> QED BY <2>1
<1>2. ASSUME NEW m \in S PROVE m + 1 \in S
  <2>1. PICK g : Groups(cues, g, m)
    OBVIOUS
  <2> DEFINE h == [k \in 0..(m + 1) |-> IF k = m + 1 THEN AddCue(g[m], cues[m + 1]) ELSE g[k]]
  <2>2. \A k \in 0..m : g[k] = IF k = 0 THEN <<>> ELSE AddCue(g[k - 1], cues[k])
    BY <2>1 DEF Groups
  <2>3. \A k \in 0..(m + 1) : h[k] = IF k = 0 THEN <<>> ELSE AddCue(h[k - 1], cues[k])
    BY <2>2
  <2>4. h = [k \in 0..(m + 1) |-> IF k = 0 THEN <<>> ELSE AddCue(h[k - 1], cues[k])]
    BY <2>3
  <2> HIDE DEF h
  <2>5. Groups(cues, h, m + 1)
    BY <2>4 DEF Groups
  <2> QED BY <2>5
<1> HIDE DEF S
<1>3. S = Nat
  <2>1. S \in SUBSET Nat
    BY DEF S
  <2> QED BY <1>1, <1>2, <2>1, Induct
<1> QED BY <1>3 DEF S

LEMMA GroupsAfterEach ==
  ASSUME NEW cues, Len(cues) \in Nat
  PROVE  Groups(cues, GroupsAfter(cues), Len(cues))
<1>1. GroupsAfter(cues) = CHOOSE g : Groups(cues, g, Len(cues))
  BY DEF GroupsAfter, Groups
<1> QED BY <1>1, GroupsExist

(* Groups of the first n cues: none is empty, and only the last one may be *)
(* too short for a part.                                                   *)
NonEmpty(C) == Seq(C) \ {<<>>}
GroupsOf(C, groups, cues, n) ==
  /\ groups \in Seq(NonEmpty(C)) /\ FlattenSeq(groups) = SubSeq(cues, 1, n)
  /\ \A k \in 1..(Len(groups) - 1) : SpanOf(groups[k]) >= MinimumPart

LEMMA OneMoreCue ==
  ASSUME NEW C, NEW cues \in Seq(C), NEW n \in 0..(Len(cues) - 1)
  PROVE  /\ cues[n + 1] \in C /\ SubSeq(cues, 1, n) \in Seq(C)
         /\ SubSeq(cues, 1, n) \o <<cues[n + 1]>> = SubSeq(cues, 1, n + 1)
<1>1. Len(cues) \in Nat /\ n + 1 \in 1..Len(cues) /\ 1 \in 1..Len(cues) /\ n + 1 - 1 = n
  OBVIOUS
<1>2. \A k \in 1..n : cues[k] \in C
  BY <1>1
<1>3. SubSeq(cues, 1, n) \in Seq(C)
  BY <1>2, SubSeqProperties
<1>4. SubSeq(cues, 1, n + 1) = SubSeq(cues, 1, n + 1 - 1) \o <<cues[n + 1]>>
  BY <1>1, SubSeqRecursiveSecond
<1> QED BY <1>1, <1>3, <1>4

LEMMA AddCueGroups ==
  ASSUME NEW C, NEW cues \in Seq(C), NEW n \in 0..(Len(cues) - 1),
         NEW groups, GroupsOf(C, groups, cues, n)
  PROVE  GroupsOf(C, AddCue(groups, cues[n + 1]), cues, n + 1)
<1> DEFINE cue == cues[n + 1]
           before == SubSeq(cues, 1, n)
           N == Len(groups)
<1>1. cue \in C /\ before \in Seq(C) /\ before \o <<cue>> = SubSeq(cues, 1, n + 1)
  BY OneMoreCue
<1>2. groups \in Seq(NonEmpty(C)) /\ groups \in Seq(Seq(C)) /\ N \in Nat
  BY SeqMonotonic DEF GroupsOf, NonEmpty
<1>3. FlattenSeq(groups) = before /\ \A k \in 1..(N - 1) : SpanOf(groups[k]) >= MinimumPart
  BY DEF GroupsOf
<1> HIDE DEF cue, before
<1>4. CASE groups = <<>> \/ Full(Last(groups), cue)
  <2> DEFINE new == Append(groups, <<cue>>)
  <2>1. AddCue(groups, cue) = new
    BY <1>4 DEF AddCue
  <2>2. <<cue>> \in Seq(C) /\ <<cue>> \in NonEmpty(C)
    BY <1>1 DEF NonEmpty
  <2>3. FlattenSeq(new) = before \o <<cue>>
    BY <1>2, <1>3, <2>2, FlattenAppend
  <2>4. new \in Seq(NonEmpty(C)) /\ Len(new) = N + 1 /\ \A k \in 1..N : new[k] = groups[k]
    BY <1>2, <2>2, AppendProperties
  <2> HIDE DEF new
  <2>5. \A k \in 1..N : SpanOf(groups[k]) >= MinimumPart
    <3>1. CASE groups = <<>>
      BY <3>1
    <3>2. CASE Full(Last(groups), cue)
      <4>1. SpanOf(groups[N]) >= MinimumPart
        BY <3>2 DEF Full, Last
      <4> QED BY <1>2, <1>3, <4>1
    <3> QED BY <1>4, <3>1, <3>2
  <2>6. \A k \in 1..(Len(new) - 1) : SpanOf(new[k]) >= MinimumPart
    BY <1>2, <2>4, <2>5
  <2> QED BY <1>1, <2>1, <2>3, <2>4, <2>6 DEF GroupsOf, cue
<1>5. CASE groups # <<>> /\ ~Full(Last(groups), cue)
  <2> DEFINE last == Append(groups[N], cue)
             front == Front(groups)
             new == Append(front, last)
  <2>1. AddCue(groups, cue) = [groups EXCEPT ![N] = last]
    BY <1>5 DEF AddCue
  <2>2. /\ N \in Nat \ {0} /\ groups[N] \in NonEmpty(C)
        /\ front \in Seq(NonEmpty(C)) /\ Len(front) = N - 1
        /\ \A k \in 1..(N - 1) : front[k] = groups[k]
        /\ groups = Append(front, groups[N])
    BY <1>2, <1>5, FrontAndLast
  <2>3. groups[N] \in Seq(C) /\ front \in Seq(Seq(C))
    BY <2>2, SeqMonotonic DEF NonEmpty
  <2> HIDE DEF front
  <2>4. last \in Seq(C) /\ last \in NonEmpty(C) /\ last = groups[N] \o <<cue>>
    BY <1>1, <2>3, AppendProperties, AppendIsConcat DEF NonEmpty
  <2> HIDE DEF last
  <2>5. /\ new \in Seq(NonEmpty(C)) /\ Len(new) = N - 1 + 1 /\ new[N - 1 + 1] = last
        /\ \A k \in 1..(N - 1) : new[k] = front[k]
    BY <2>2, <2>4, AppendProperties
  <2>6. FlattenSeq(new) = FlattenSeq(front) \o last /\ FlattenSeq(front) \in Seq(C)
    BY <2>3, <2>4, FlattenAppend
  <2>7. before = FlattenSeq(front) \o groups[N]
    BY <1>3, <2>2, <2>3, FlattenAppend
  <2>8. FlattenSeq(front) \o (groups[N] \o <<cue>>) = before \o <<cue>>
    <3> DEFINE one == <<cue>>
               g == groups[N]
               F == FlattenSeq(front)
    <3>1. one \in Seq(C) /\ g \in Seq(C) /\ F \in Seq(C)
      BY <1>1, <2>3, <2>6
    <3> HIDE DEF one, g, F
    <3>2. (F \o g) \o one = F \o (g \o one)
      BY <3>1, ConcatAssociative
    <3> QED BY <2>7, <3>2 DEF one, g, F
  <2> HIDE DEF new
  <2>9. Len(new) = N /\ new[N] = last /\ \A k \in 1..(N - 1) : new[k] = groups[k]
    BY <2>2, <2>5
  <2>10. [groups EXCEPT ![N] = last] = new
    <3> DEFINE changed == [groups EXCEPT ![N] = last]
    <3>1. /\ changed \in Seq(NonEmpty(C)) /\ Len(changed) = N
          /\ \A k \in 1..N : changed[k] = IF k = N THEN last ELSE groups[k]
      BY <1>2, <2>2, <2>4, ExceptSeq
    <3> HIDE DEF changed
    <3>2. \A k \in 1..N : changed[k] = new[k]
      BY <2>2, <2>9, <3>1
    <3>3. changed = new
      BY <2>5, <2>9, <3>1, <3>2, SeqEqual
    <3> QED BY <3>3 DEF changed
  <2>11. \A k \in 1..(Len(new) - 1) : SpanOf(new[k]) >= MinimumPart
    BY <1>3, <2>9
  <2>12. AddCue(groups, cue) = new
    BY <2>1, <2>10
  <2>13. FlattenSeq(new) = SubSeq(cues, 1, n + 1)
    BY <1>1, <2>4, <2>6, <2>8
  <2> QED BY <2>5, <2>11, <2>12, <2>13 DEF GroupsOf, cue
<1> QED BY <1>4, <1>5

LEMMA GroupsAreOfCues ==
  ASSUME NEW C, NEW cues \in Seq(C)
  PROVE  \A n \in 0..Len(cues) : GroupsOf(C, GroupsAfter(cues)[n], cues, n)
<1> DEFINE g == GroupsAfter(cues)
           S == {n \in Nat : n <= Len(cues) => GroupsOf(C, g[n], cues, n)}
<1>1. Len(cues) \in Nat
  OBVIOUS
<1>2. \A n \in 0..Len(cues) : g[n] = IF n = 0 THEN <<>> ELSE AddCue(g[n - 1], cues[n])
  BY <1>1, GroupsAfterEach DEF Groups
<1> HIDE DEF g
<1>3. 0 \in S
  <2>1. g[0] = <<>>
    BY <1>1, <1>2
  <2>2. FlattenSeq(<<>>) = <<>>
    BY DEF FlattenSeq
  <2>3. SubSeq(cues, 1, 0) = <<>>
    BY SubSeqEmpty
  <2>4. <<>> \in Seq(NonEmpty(C)) /\ \A k \in 1..(Len(<<>>) - 1) : FALSE
    BY EmptySeq
  <2>5. GroupsOf(C, <<>>, cues, 0)
    BY <2>2, <2>3, <2>4 DEF GroupsOf
  <2> QED BY <2>1, <2>5
<1>4. ASSUME NEW n \in S PROVE n + 1 \in S
  <2> SUFFICES ASSUME n + 1 <= Len(cues) PROVE GroupsOf(C, g[n + 1], cues, n + 1)
    OBVIOUS
  <2>1. GroupsOf(C, g[n], cues, n) /\ n \in 0..(Len(cues) - 1)
    BY <1>1
  <2>2. g[n + 1] = AddCue(g[n], cues[n + 1])
    BY <1>1, <1>2, <2>1
  <2> QED BY <2>1, <2>2, AddCueGroups
<1> HIDE DEF S
<1>5. S = Nat
  <2>1. S \in SUBSET Nat
    BY DEF S
  <2> QED BY <1>3, <1>4, <2>1, Induct
<1> QED BY <1>1, <1>5 DEF S, g

(* Joining the last two groups keeps the cues.                             *)
LEMMA CueGroupsAreOfCues ==
  ASSUME NEW C, NEW cues \in Seq(C)
  PROVE  GroupsOf(C, CueGroups(cues), cues, Len(cues))
<1> DEFINE groups == GroupsAfter(cues)[Len(cues)]
           N == Len(groups)
           front == Front(groups)
           front2 == Front(front)
           joined == groups[N - 1] \o groups[N]
<1>1. GroupsOf(C, groups, cues, Len(cues))
  <2>1. Len(cues) \in 0..Len(cues)
    OBVIOUS
  <2> QED BY <2>1, GroupsAreOfCues
<1>2. CueGroups(cues) = JoinShortLast(groups)
  BY DEF CueGroups
<1> HIDE DEF groups
<1>3. groups \in Seq(NonEmpty(C)) /\ groups \in Seq(Seq(C)) /\ N \in Nat
  BY <1>1, SeqMonotonic DEF GroupsOf, NonEmpty
<1>4. ASSUME N > 1
      PROVE  GroupsOf(C, Append(SubSeq(groups, 1, N - 2), joined), cues, Len(cues))
  <2>1. /\ groups[N] \in NonEmpty(C) /\ front \in Seq(NonEmpty(C)) /\ Len(front) = N - 1
        /\ \A k \in 1..(N - 1) : front[k] = groups[k]
        /\ groups = Append(front, groups[N])
    BY <1>3, <1>4, FrontAndLast
  <2> HIDE DEF front
  <2>2. front # <<>>
    BY <1>4, <2>1
  <2>3. /\ front[N - 1] \in NonEmpty(C) /\ front2 \in Seq(NonEmpty(C)) /\ Len(front2) = N - 2
        /\ \A k \in 1..(N - 2) : front2[k] = front[k]
        /\ front = Append(front2, front[N - 1])
    <3>1. Len(front) - 1 = N - 2
      BY <1>3, <2>1
    <3> QED BY <2>1, <2>2, <3>1, FrontAndLast
  <2> HIDE DEF front2
  <2>4. ASSUME NEW k \in 1..(N - 2) PROVE front2[k] = groups[k]
    <3>1. k \in 1..(N - 1)
      BY <1>3
    <3> QED BY <2>1, <2>3, <3>1
  <2>5. front[N - 1] = groups[N - 1]
    BY <1>3, <1>4, <2>1
  <2>6. /\ groups[N] \in Seq(C) /\ groups[N - 1] \in Seq(C) /\ groups[N - 1] # <<>>
        /\ front \in Seq(Seq(C)) /\ front2 \in Seq(Seq(C))
    BY <2>1, <2>3, <2>5, SeqMonotonic DEF NonEmpty
  <2>7. joined \in Seq(C) /\ joined \in NonEmpty(C)
    BY <2>6, ConcatProperties, ConcatEqualIffEmpty DEF NonEmpty
  <2>8. FlattenSeq(groups) = FlattenSeq(front) \o groups[N]
    BY <2>1, <2>6, FlattenAppend
  <2>9. FlattenSeq(front) = FlattenSeq(front2) \o groups[N - 1] /\ FlattenSeq(front2) \in Seq(C)
    BY <2>3, <2>5, <2>6, FlattenAppend
  <2>10. FlattenSeq(groups) = FlattenSeq(front2) \o joined
    <3> DEFINE a == groups[N - 1]
               z == groups[N]
               F == FlattenSeq(front2)
    <3>1. a \in Seq(C) /\ z \in Seq(C) /\ F \in Seq(C)
      BY <2>6, <2>9
    <3> HIDE DEF a, z, F
    <3>2. (F \o a) \o z = F \o (a \o z)
      BY <3>1, ConcatAssociative
    <3> QED BY <2>8, <2>9, <3>2 DEF a, z, F
  <2> HIDE DEF joined
  <2> DEFINE new == Append(front2, joined)
  <2>11. FlattenSeq(new) = FlattenSeq(groups)
    BY <2>6, <2>7, <2>10, FlattenAppend
  <2>12. /\ new \in Seq(NonEmpty(C)) /\ Len(new) = N - 2 + 1
         /\ \A k \in 1..(N - 2) : new[k] = front2[k]
    BY <2>3, <2>7, AppendProperties
  <2> HIDE DEF new
  <2>13. \A k \in 1..(Len(new) - 1) : SpanOf(new[k]) >= MinimumPart
    BY <1>1, <1>3, <2>4, <2>12 DEF GroupsOf
  <2>14. GroupsOf(C, new, cues, Len(cues))
    BY <1>1, <2>11, <2>12, <2>13 DEF GroupsOf
  <2>15. SubSeq(groups, 1, N - 2) = front2
    <3> DEFINE short == SubSeq(groups, 1, N - 2)
    <3>1. N - 2 \in 0..N
      BY <1>3, <1>4
    <3>3. /\ short \in Seq(NonEmpty(C)) /\ Len(short) = N - 2
          /\ \A k \in 1..(N - 2) : short[k] = groups[k]
      BY <1>3, <3>1, FirstOnes
    <3> HIDE DEF short
    <3>4. short = front2
      BY <2>3, <2>4, <3>3, SeqEqual
    <3> QED BY <3>4 DEF short
  <2> QED BY <2>14, <2>15 DEF new
<1> HIDE DEF joined
<1>5. JoinShortLast(groups) \in {groups, Append(SubSeq(groups, 1, N - 2), joined)}
      /\ (N > 1 \/ JoinShortLast(groups) = groups)
  BY DEF JoinShortLast, joined
<1> QED BY <1>1, <1>2, <1>4, <1>5

-----------------------------------------------------------------------------
(* The preparation of proposals.                                           *)

LEMMA CuesWithinAreSequences ==
  ASSUME NEW c, NEW C, c.cues \in Seq(C)
  PROVE  CuesWithin(c) \in Seq(C)
BY ThoseFacts DEF CuesWithin

(* Cues of a candidate have times.                                         *)
TimedCues(c) == {x \in Range(c.cues) : Timed(x)}

LEMMA CuesHaveTimes ==
  ASSUME NEW c, ValidProposal(c)
  PROVE  /\ CuesWithin(c) \in Seq(TimedCues(c))
         /\ GroupsOf(TimedCues(c), CueGroups(CuesWithin(c)), CuesWithin(c), Len(CuesWithin(c)))
<1>1. TimedCues(c) = Range(c.cues) /\ c.cues \in Seq(Range(c.cues))
  BY DEF ValidProposal, TimedCues
<1>2. CuesWithin(c) \in Seq(TimedCues(c))
  BY <1>1, CuesWithinAreSequences
<1> QED BY <1>2, CueGroupsAreOfCues

LEMMA GroupHasSpan ==
  ASSUME NEW c, NEW group \in NonEmpty(TimedCues(c))
  PROVE  SpanOf(group) \in Int
<1>1. group[1] \in TimedCues(c) /\ group[Len(group)] \in TimedCues(c)
  BY DEF NonEmpty
<1> QED BY <1>1 DEF SpanOf, Last, TimedCues, Timed

LEMMA PartHas ==
  ASSUME NEW c, NEW groups, NEW n, ValidProposal(c)
  PROVE  /\ PartOf(c, groups, n).id = <<c.id[1], n>>
         /\ PartOf(c, groups, n).cues = groups[n]
         /\ PartOf(c, groups, n).extended = (SpanOf(groups[n]) > DefaultPart)
         /\ Duration(PartOf(c, groups, n)) = SpanOf(groups[n])
<1> DEFINE p == PartOf(c, groups, n)
<1>1. p.id = PartId(c, n) /\ p.cues = groups[n] /\ p.extended = (SpanOf(groups[n]) > DefaultPart)
  BY DEF PartOf, ValidProposal
<1>2. p.start = groups[n][1].start /\ p.end = Last(groups[n]).end
  BY DEF PartOf, ValidProposal
<1> QED BY <1>1, <1>2 DEF PartId, Duration, SpanOf

LEMMA SomeGroups ==
  ASSUME NEW C, NEW cues \in Seq(C), cues # <<>>
  PROVE  CueGroups(cues) # <<>>
<1>1. FlattenSeq(CueGroups(cues)) = cues
  BY CueGroupsAreOfCues, SubSeqFull DEF GroupsOf
<1>2. FlattenSeq(<<>>) = <<>>
  BY DEF FlattenSeq
<1> QED BY <1>1, <1>2

(* What a candidate is split into has ids of its own, with its name.       *)
IsSplitOf(s, c) ==
  /\ s \in Seq(Range(s)) /\ InTurn(s)
  /\ \A k \in 1..Len(s) : s[k].id[1] = c.id[1] /\ Duration(s[k]) \in Int
  /\ s = <<c>> \/ (Len(s) > 0 /\ \A k \in 1..Len(s) : s[k].id = <<c.id[1], k>>)

LEMMA SplitHasItsIds ==
  ASSUME NEW c, ValidProposal(c)
  PROVE  IsSplitOf(SplitCandidate(c), c)
<1> DEFINE groups == CueGroups(CuesWithin(c))
           parts == PartsOf(c, groups)
           N == Len(groups)
<1>1. IsSplitOf(<<c>>, c)
  <2>1. <<c>> \in Seq(Range(<<c>>))
    BY DEF Range
  <2>2. Duration(c) \in Int
    BY DEF ValidProposal, Timed, Duration
  <2> QED BY <2>1, <2>2 DEF IsSplitOf, InTurn
<1>2. ASSUME CuesWithin(c) # <<>> PROVE IsSplitOf(parts, c)
  <2>1. groups \in Seq(NonEmpty(TimedCues(c))) /\ groups # <<>>
    BY <1>2, CuesHaveTimes, SomeGroups DEF GroupsOf
  <2>2. DOMAIN groups = 1..N /\ N \in Nat \ {0} /\ \A n \in 1..N : groups[n] \in NonEmpty(TimedCues(c))
    BY <2>1
  <2>3. parts = [n \in 1..N |-> PartOf(c, groups, n)]
    BY <2>2 DEF PartsOf
  <2> HIDE DEF N
  <2>4. \A n \in 1..N : parts[n].id = <<c.id[1], n>> /\ Duration(parts[n]) \in Int
    <3> HIDE DEF groups
    <3>1. SUFFICES ASSUME NEW n \in 1..N PROVE parts[n].id = <<c.id[1], n>> /\ Duration(parts[n]) \in Int
      OBVIOUS
    <3>2. parts[n] = PartOf(c, groups, n) /\ SpanOf(groups[n]) \in Int
      BY <2>2, <2>3, GroupHasSpan
    <3> QED BY <3>2, PartHas
  <2> HIDE DEF groups, parts
  <2>5. parts \in Seq(Range(parts)) /\ Len(parts) = N
    BY <2>2, <2>3 DEF Range
  <2>6. InTurn(parts)
    <3>1. SUFFICES ASSUME NEW k \in 1..N, NEW l \in 1..N
                   PROVE  /\ k < l => parts[k].id[2] < parts[l].id[2]
                          /\ parts[k].id = parts[l].id => k = l
      BY <2>5 DEF InTurn
    <3> QED BY <2>4
  <2>7. \A n \in 1..N : parts[n].id[1] = c.id[1]
    BY <2>4
  <2> QED BY <2>2, <2>4, <2>5, <2>6, <2>7 DEF IsSplitOf
<1> QED BY <1>1, <1>2 DEF SplitCandidate
=============================================================================
