--------------------------- MODULE HighlightsProofs ---------------------------
(***************************************************************************)
(* Selections and plans, for any requests, any proposals and any order of  *)
(* the host's calls.  That every prepared candidate has an id of its own,  *)
(* and that the parts of one have its cues, is shown first.                *)
(***************************************************************************)
EXTENDS Highlights, DurationSplitFacts

-----------------------------------------------------------------------------
(* The preparation of proposals.                                           *)

(* What is selected from: candidates with ids of their own, each of them   *)
(* with an assessment.                                                     *)
SoundlyPrepared(p) ==
  /\ ~Fails(p)
  /\ DOMAIN p.candidates = 1..Len(p.candidates) /\ Len(p.candidates) \in Nat
  /\ IdsDiffer(p.candidates)
  /\ \A k \in 1..Len(p.candidates) : Duration(p.candidates[k]) \in Int
  /\ DOMAIN p.assessed = {c.id : c \in Range(p.candidates)}

(* What each candidate of a bundle is split into.                          *)
Splits(b) == [n \in DOMAIN b.candidates |-> SplitCandidate(b.candidates[n])]
AllParts(b) == UNION {Range(Splits(b)[n]) : n \in DOMAIN b.candidates}
Proposed(b) == {c.id : c \in Range(b.candidates)}
PartIds(b) == {p.id : p \in Range(FlattenSeq(Splits(b)))}

LEMMA EachIsSplit ==
  ASSUME NEW b, ValidProposals(b)
  PROVE  /\ DOMAIN b.candidates = 1..Len(b.candidates) /\ Len(b.candidates) \in Nat
         /\ \A n \in DOMAIN b.candidates : IsSplitOf(Splits(b)[n], b.candidates[n])
BY SplitHasItsIds DEF ValidProposals, Range, Splits

LEMMA SplitsFlatten ==
  ASSUME NEW b, ValidProposals(b), b.candidates # <<>>
  PROVE  FlatUpTo(Splits(b), AllParts(b), FlattenSeq(Splits(b)), Len(b.candidates))
<1> DEFINE cs == b.candidates
           seqs == Splits(b)
           U == AllParts(b)
           N == Len(cs)
<1>1. DOMAIN cs = 1..N /\ N \in Nat
  BY EachIsSplit
<1>2. \A n \in 1..N : SplitCandidate(cs[n]) \in Seq(U)
  <2>1. SUFFICES ASSUME NEW n \in DOMAIN cs PROVE seqs[n] \in Seq(U)
    BY <1>1 DEF Splits
  <2>2. seqs[n] \in Seq(Range(seqs[n])) /\ Range(seqs[n]) \subseteq U
    BY EachIsSplit DEF IsSplitOf, AllParts
  <2> HIDE DEF U, seqs
  <2> QED BY <2>2
<1>3. Len(seqs) = N /\ N # 0 /\ seqs = [n \in 1..N |-> SplitCandidate(cs[n])]
  <2>1. cs \in Seq(Range(cs))
    BY DEF ValidProposals
  <2> QED BY <1>1, <2>1 DEF Splits
<1> HIDE DEF N, seqs, U
<1>4. seqs \in Seq(Seq(U))
  BY <1>1, <1>2, <1>3
<1> QED BY <1>3, <1>4, FlattenIsOf DEF N, seqs, U

(* Parts of different candidates differ by their name.                     *)
LEMMA SplitsDiffer ==
  ASSUME NEW b, ValidProposals(b),
         NEW m \in DOMAIN b.candidates, NEW n \in DOMAIN b.candidates, m # n
  PROVE  /\ b.candidates[m].id[1] # b.candidates[n].id[1]
         /\ Apart(Splits(b)[m], Splits(b)[n])
<1> DEFINE cs == b.candidates
           seqs == Splits(b)
<1>1. cs[m].id # cs[n].id /\ cs[m].id = <<cs[m].id[1]>> /\ cs[n].id = <<cs[n].id[1]>>
  BY DEF ValidProposals, ValidProposal, Range
<1>2. cs[m].id[1] # cs[n].id[1]
  BY <1>1
<1>3. \A k \in 1..Len(seqs[m]) : seqs[m][k].id[1] = cs[m].id[1]
  BY EachIsSplit DEF IsSplitOf
<1>4. \A k \in 1..Len(seqs[n]) : seqs[n][k].id[1] = cs[n].id[1]
  BY EachIsSplit DEF IsSplitOf
<1> QED BY <1>2, <1>3, <1>4 DEF Apart

LEMMA PartsInTurn ==
  ASSUME NEW b, ValidProposals(b)
  PROVE  LET flat == FlattenSeq(Splits(b)) IN
         /\ DOMAIN flat = 1..Len(flat) /\ Len(flat) \in Nat /\ InTurn(flat) /\ IdsDiffer(flat)
         /\ \A k \in 1..Len(flat) : Duration(flat[k]) \in Int
<1> DEFINE cs == b.candidates
           seqs == Splits(b)
           flat == FlattenSeq(seqs)
<1>1. CASE cs = <<>>
  <2>1. seqs = <<>>
    BY EachIsSplit, <1>1 DEF Splits
  <2>2. flat = <<>>
    BY <2>1 DEF FlattenSeq
  <2> QED BY <2>2 DEF IdsDiffer, InTurn
<1>2. CASE cs # <<>>
  <2>1. FlatUpTo(seqs, AllParts(b), flat, Len(cs))
    BY <1>2, SplitsFlatten
  <2>2. \A m \in 1..Len(cs) : /\ InTurn(seqs[m])
                              /\ \A n \in 1..Len(cs) : m # n => Apart(seqs[m], seqs[n])
    BY EachIsSplit, SplitsDiffer DEF IsSplitOf
  <2>3. \A m \in 1..Len(cs) : \A k \in 1..Len(seqs[m]) : Duration(seqs[m][k]) \in Int
    BY EachIsSplit DEF IsSplitOf
  <2> HIDE DEF flat, seqs
  <2>4. InTurn(flat) /\ DOMAIN flat = 1..Len(flat) /\ Len(flat) \in Nat
    BY <2>1, <2>2 DEF FlatUpTo
  <2>5. IdsDiffer(flat)
    BY <2>4 DEF InTurn, IdsDiffer
  <2>6. ASSUME NEW k \in 1..Len(flat) PROVE Duration(flat[k]) \in Int
    BY <2>1, <2>3 DEF FlatUpTo, From
  <2> QED BY <2>4, <2>5, <2>6 DEF flat, seqs
<1> QED BY <1>1, <1>2

LEMMA PreparedIsSound ==
  ASSUME NEW b, ValidProposals(b), NEW t
  PROVE  Prepare(b, t) = Failure("ValueError") \/ SoundlyPrepared(Prepare(b, t))
<1> DEFINE flat == FlattenSeq(Splits(b))
<1>1. SoundlyPrepared(b)
  <2>1. DOMAIN b.candidates = 1..Len(b.candidates) /\ Len(b.candidates) \in Nat
    BY EachIsSplit
  <2>2. \A k \in 1..Len(b.candidates) : Duration(b.candidates[k]) \in Int
    <3>1. SUFFICES ASSUME NEW k \in 1..Len(b.candidates)
                   PROVE  Duration(b.candidates[k]) \in Int
      OBVIOUS
    <3>2. ValidProposal(b.candidates[k])
      BY <2>1 DEF ValidProposals, Range
    <3> QED BY <3>2 DEF ValidProposal, Timed, Duration
  <2> QED BY <2>1, <2>2 DEF SoundlyPrepared, ValidProposals, IdsDiffer, Fails
<1>2. SoundlyPrepared(PreparedWith(b, flat))
  <2>1. /\ DOMAIN flat = 1..Len(flat) /\ Len(flat) \in Nat /\ IdsDiffer(flat)
        /\ \A k \in 1..Len(flat) : Duration(flat[k]) \in Int
    BY PartsInTurn
  <2> HIDE DEF flat
  <2> QED BY <2>1 DEF SoundlyPrepared, PreparedWith, Fails
<1>3. Prepare(b, t) \in {b, Failure("ValueError"), PreparedWith(b, flat)}
  BY DEF Prepare, Splits
<1> HIDE DEF flat
<1> QED BY <1>1, <1>2, <1>3

(* One bundle, prepared for different tasks, is either split or not.  If   *)
(* the ids of one way are among the ids of the other, nothing was split.   *)
LEMMA SplitOrWhole ==
  ASSUME NEW b, ValidProposals(b), b.candidates # <<>>,
         PartIds(b) \subseteq Proposed(b) \/ Proposed(b) \subseteq PartIds(b)
  PROVE  PartIds(b) = Proposed(b)
<1> DEFINE cs == b.candidates
           seqs == Splits(b)
           flat == FlattenSeq(seqs)
           N == Len(cs)
<1>1. FlatUpTo(seqs, AllParts(b), flat, N)
  BY SplitsFlatten
<1>2. DOMAIN cs = 1..N /\ DOMAIN flat = 1..Len(flat)
  BY EachIsSplit, <1>1 DEF FlatUpTo
<1>3. \A x : x \in PartIds(b) <=> \E k \in 1..Len(flat) : x = flat[k].id
  BY <1>2 DEF PartIds, Range
<1>4. \A x : x \in Proposed(b) <=> \E n \in 1..N : x = cs[n].id
  BY <1>2 DEF Proposed, Range
<1>5. \A n \in 1..N : cs[n].id = <<cs[n].id[1]>>
  BY <1>2 DEF ValidProposals, ValidProposal, Range
<1>6. \A n \in 1..N : IsSplitOf(seqs[n], cs[n])
  BY <1>2, EachIsSplit
<1>7. \A n \in 1..N : \A k \in 1..Len(seqs[n]) : seqs[n][k].id \in PartIds(b)
  BY <1>1, <1>3 DEF FlatUpTo, Into
<1>8. \A x \in PartIds(b) : \E n \in 1..N : \E k \in 1..Len(seqs[n]) : x = seqs[n][k].id
  <2>1. SUFFICES ASSUME NEW x \in PartIds(b)
                 PROVE  \E n \in 1..N : \E k \in 1..Len(seqs[n]) : x = seqs[n][k].id
    OBVIOUS
  <2>2. PICK j \in 1..Len(flat) : x = flat[j].id
    BY <1>3
  <2>3. PICK n \in 1..N : \E k \in 1..Len(seqs[n]) : flat[j] = seqs[n][k]
    BY <1>1 DEF FlatUpTo, From
  <2>4. PICK k \in 1..Len(seqs[n]) : flat[j] = seqs[n][k]
    BY <2>3
  <2>5. x = seqs[n][k].id
    BY <2>2, <2>4
  <2> QED BY <2>5
<1>9. \A m, n \in 1..N : m # n => cs[m].id[1] # cs[n].id[1]
  BY <1>2, SplitsDiffer
<1> HIDE DEF cs, seqs, flat, N
<1>10. ASSUME PartIds(b) \subseteq Proposed(b) PROVE Proposed(b) \subseteq PartIds(b)
  <2>1. SUFFICES ASSUME NEW n \in 1..N PROVE cs[n].id \in PartIds(b)
    BY <1>4
  <2>2. CASE seqs[n] = <<cs[n]>>
    <3>1. 1 \in 1..Len(seqs[n]) /\ seqs[n][1] = cs[n]
      BY <2>2
    <3> QED BY <1>7, <3>1
  <2>3. CASE Len(seqs[n]) > 0 /\ \A k \in 1..Len(seqs[n]) : seqs[n][k].id = <<cs[n].id[1], k>>
    <3>1. 1 \in 1..Len(seqs[n])
      BY <1>6, <2>3 DEF IsSplitOf
    <3>2. <<cs[n].id[1], 1>> \in Proposed(b)
      BY <1>7, <1>10, <2>3, <3>1
    <3>3. PICK m \in 1..N : <<cs[n].id[1], 1>> = cs[m].id
      BY <1>4, <3>2
    <3>4. <<cs[n].id[1], 1>> = <<cs[m].id[1]>>
      BY <1>5, <3>3
    <3> QED BY <3>4
  <2> QED BY <1>6, <2>2, <2>3 DEF IsSplitOf
<1>11. ASSUME Proposed(b) \subseteq PartIds(b) PROVE PartIds(b) \subseteq Proposed(b)
  <2>1. SUFFICES ASSUME NEW x \in PartIds(b) PROVE x \in Proposed(b)
    OBVIOUS
  <2>2. PICK n \in 1..N : \E k \in 1..Len(seqs[n]) : x = seqs[n][k].id
    BY <1>8
  <2>3. PICK k \in 1..Len(seqs[n]) : x = seqs[n][k].id
    BY <2>2
  <2>4. CASE seqs[n] = <<cs[n]>>
    <3>1. x = cs[n].id
      BY <2>3, <2>4
    <3> QED BY <1>4, <3>1
  <2>5. CASE Len(seqs[n]) > 0 /\ \A l \in 1..Len(seqs[n]) : seqs[n][l].id = <<cs[n].id[1], l>>
    <3>1. cs[n].id \in PartIds(b)
      BY <1>4, <1>11
    <3>2. PICK m \in 1..N : \E l \in 1..Len(seqs[m]) : cs[n].id = seqs[m][l].id
      BY <1>8, <3>1
    <3>3. PICK l \in 1..Len(seqs[m]) : cs[n].id = seqs[m][l].id
      BY <3>2
    <3>4. cs[n].id[1] = cs[m].id[1]
      BY <1>6, <3>3 DEF IsSplitOf
    <3>5. m = n
      BY <1>9, <3>4
    <3>6. cs[n].id = <<cs[n].id[1], l>>
      BY <2>5, <3>3, <3>5
    <3>7. <<cs[n].id[1]>> = <<cs[n].id[1], l>>
      BY <1>5, <3>6
    <3> QED BY <3>7
  <2> QED BY <1>6, <2>4, <2>5 DEF IsSplitOf
<1> QED BY <1>10, <1>11

LEMMA PreparationsAgree ==
  ASSUME NEW b, ValidProposals(b), NEW t, NEW u,
         ~Fails(Prepare(b, t)), ~Fails(Prepare(b, u)),
         DOMAIN Prepare(b, u).assessed \subseteq DOMAIN Prepare(b, t).assessed
  PROVE  DOMAIN Prepare(b, u).assessed = DOMAIN Prepare(b, t).assessed
<1> DEFINE parts == FlattenSeq(Splits(b))
<1>1. DOMAIN b.assessed = Proposed(b)
  BY DEF ValidProposals, Proposed
<1>2. DOMAIN PreparedWith(b, parts).assessed = PartIds(b)
  BY DEF PreparedWith, PartIds
<1>3. CASE b.candidates = <<>>
  <2>1. Splits(b) = <<>>
    BY EachIsSplit, <1>3 DEF Splits
  <2>2. Range(parts) = {} /\ Range(b.candidates) = {}
    BY <1>3, <2>1 DEF FlattenSeq, Range
  <2>3. PartIds(b) = {} /\ Proposed(b) = {}
    BY <2>2 DEF PartIds, Proposed
  <2>4. \A v \in {t, u} : Prepare(b, v) \in {b, Failure("ValueError"), PreparedWith(b, parts)}
    BY DEF Prepare, Splits
  <2> HIDE DEF parts
  <2> QED BY <1>1, <1>2, <2>3, <2>4 DEF Fails, Failure
<1>4. CASE b.candidates # <<>>
  <2>1. \A v \in {t, u} : Prepare(b, v) \in {b, Failure("ValueError"), PreparedWith(b, parts)}
    BY DEF Prepare, Splits
  <2> HIDE DEF parts
  <2>2. \A v \in {t, u} : ~Fails(Prepare(b, v)) =>
          DOMAIN Prepare(b, v).assessed \in {Proposed(b), PartIds(b)}
    BY <1>1, <1>2, <2>1 DEF Fails, Failure
  <2> QED BY <1>4, <2>2, SplitOrWhole
<1> QED BY <1>3, <1>4

-----------------------------------------------------------------------------
(* The limits of a task.                                                   *)

LEMMA MergedLimits ==
  ASSUME NEW a, NEW b, NumericLimits(a), NumericLimits(b)
  PROVE  NumericLimits(Merge(a, b))
BY DEF NumericLimits, Merge

LEMMA LimitsAreNumbers ==
  ASSUME NEW intent, NEW profile, NumericLimits(intent.limits),
         profile # None => NumericLimits(profile.limits)
  PROVE  NumericLimits(Limits(intent, profile))
<1> DEFINE inferred == IF profile = None \/ intent.mode = "directed" THEN Empty ELSE profile.limits
           merged == Merge(intent.limits, inferred)
           longForm == intent.mode = "directed" /\ DOMAIN intent.limits \cap DurationFields # {}
           capped == LeastOf(Or(Field(merged, "maximum_duration"), AbsolutePart), AbsolutePart)
           cap == [x \in {"maximum_duration"} |-> capped]
<1>1. NumericLimits(merged)
  <2>1. NumericLimits(inferred)
    BY DEF NumericLimits, Empty
  <2> QED BY <2>1, MergedLimits
<1>2. Limits(intent, profile) = IF longForm THEN merged ELSE Merge(cap, merged)
  BY DEF Limits
<1> HIDE DEF merged, longForm
<1>3. NumericLimits(cap)
  BY <1>1, ResolutionConstants DEF NumericLimits, LeastOf, Or, Field
<1> HIDE DEF cap
<1> QED BY <1>1, <1>2, <1>3, MergedLimits

(* What a task has of the host's request.                                  *)
Resolved(n) == ResolveTask(ask[n].intent, ask[n].profile, ask[n].preset, Offered)
IsTaskOf(t, r) ==
  /\ t.limits = Limits(r.intent, r.profile) /\ NumericLimits(t.limits) /\ ~Contradictory(t.limits)
  /\ t.include = r.intent.include /\ t.exclude = r.intent.exclude
  /\ t.include \cap t.exclude = {}

LEMMA ResolvedIsTask ==
  ASSUME ask \in Asks, NEW n \in DOMAIN ask, ~Fails(Resolved(n))
  PROVE  IsTaskOf(Resolved(n), ask[n])
<1> DEFINE limits == Limits(ask[n].intent, ask[n].profile)
<1>1. NumericLimits(limits) /\ ask[n].intent.include \cap ask[n].intent.exclude = {}
  BY DocumentsAreValid, LimitsAreNumbers
<1>2. /\ Resolved(n).limits = limits /\ ~Contradictory(limits)
      /\ Resolved(n).include = ask[n].intent.include /\ Resolved(n).exclude = ask[n].intent.exclude
  BY DEF Resolved, ResolveTask, Fails, Failure
<1> QED BY <1>1, <1>2 DEF IsTaskOf

-----------------------------------------------------------------------------
(* The selection loop.                                                     *)

(* The host's candidates come first.  Without this a candidate chosen      *)
(* before one that he insists on would not have been compared with it.     *)
InsistedFirst == \A i \in Range(chosen) : \A j \in queue : Included(j) => Included(i)

(* Everybody seen has his reason, all others are waiting.                  *)
Waiting ==
  /\ queue \subseteq Indices /\ chosen \in Seq(Indices \ queue)
  /\ \A i \in Indices : Cand(i).id \in DOMAIN why
  /\ \A i \in queue : why[Cand(i).id] = None

Prepared ==
  /\ Indices = 1..Len(prep.candidates) /\ Len(prep.candidates) \in Nat
  /\ IdsDiffer(prep.candidates)
  /\ using # NoCall => NumericLimits(goal.limits)

LoopInv == Prepared /\ Waiting /\ InsistedFirst /\ SelectedFitTogether /\ ReasonsAreTrue

Documents ==
  /\ bundle \in Bundles /\ ask \in Asks /\ DOMAIN task = DOMAIN ask
  /\ \A n \in DOMAIN ask : task[n] \in {None, Resolved(n)}

HighlightsInv == Documents /\ LoopInv

LEMMA OverlapIsMutual ==
  ASSUME NEW a, NEW b PROVE OverlapsTooMuch(a, b) <=> OverlapsTooMuch(b, a)
<1>1. {a.end, b.end} = {b.end, a.end} /\ {a.start, b.start} = {b.start, a.start}
      /\ {Duration(a), Duration(b)} = {Duration(b), Duration(a)}
  OBVIOUS
<1> QED BY <1>1 DEF OverlapsTooMuch

LEMMA TargetIsNumber ==
  ASSUME NumericLimits(goal.limits), Indices = 1..Len(prep.candidates), Len(prep.candidates) \in Nat
  PROVE  Target \in Nat
BY DEF Target, Limit, Field, Or, NumericLimits

(* One turn of the loop, when candidate i is at its head.                  *)
Turn(i) ==
  /\ i \in queue /\ \A j \in queue \ {i} : GoesBefore(i, j)
  /\ why' = [why EXCEPT ![Cand(i).id] =
               Or(Reason(i), IF Included(i) THEN "host_hard_include" ELSE "ranked_selection")]
  /\ chosen' = IF Reason(i) = None THEN Append(chosen, i) ELSE chosen
  /\ queue' = queue \ {i}
  /\ UNCHANGED <<prep, goal, score>>

LEMMA TurnWaits ==
  ASSUME Prepared, Waiting, NEW i, Turn(i)
  PROVE  /\ Waiting'
         /\ Range(chosen') = IF Reason(i) = None THEN Range(chosen) \cup {i} ELSE Range(chosen)
         /\ Len(chosen) \in Nat /\ Len(chosen') >= Len(chosen)
<1>1. Indices' = Indices /\ \A k : Cand(k)' = Cand(k)
  BY DEF Turn, Indices, Cand
<1>2. chosen \in Seq(Indices \ queue) /\ i \in queue /\ i \in Indices
  BY DEF Waiting, Turn
<1>3. chosen' \in Seq(Indices' \ queue')
  <2>1. chosen \in Seq((Indices \ queue) \cup {i})
    BY <1>2
  <2>2. Append(chosen, i) \in Seq((Indices \ queue) \cup {i})
    BY <2>1, AppendProperties
  <2>3. Indices' \ queue' = (Indices \ queue) \cup {i}
    BY <1>1, <1>2 DEF Turn
  <2> QED BY <2>1, <2>2, <2>3 DEF Turn
<1>4. \A k \in Indices : Cand(k).id \in DOMAIN why'
  BY DEF Waiting, Turn
<1>5. ASSUME NEW k \in queue' PROVE why'[Cand(k).id] = None
  <2>1. k \in queue /\ k # i /\ k \in Indices
    BY <1>5 DEF Waiting, Turn
  <2>2. Cand(k).id # Cand(i).id
    BY <1>2, <2>1 DEF Prepared, IdsDiffer, Cand
  <2> QED BY <2>1, <2>2 DEF Waiting, Turn
<1>6. Range(chosen') = IF Reason(i) = None THEN Range(chosen) \cup {i} ELSE Range(chosen)
  BY <1>2, AppendedRange DEF Turn
<1>7. Len(chosen) \in Nat /\ Len(chosen') >= Len(chosen)
  BY <1>2 DEF Turn
<1>8. queue' \subseteq Indices'
  BY <1>1 DEF Waiting, Turn
<1> QED BY <1>1, <1>3, <1>4, <1>5, <1>6, <1>7, <1>8 DEF Waiting

(* A candidate the host does not insist on is taken when no reason speaks  *)
(* against it.                                                             *)
LEMMA NoReason ==
  ASSUME NEW i, Reason(i) = None, ~Included(i)
  PROVE  ~TooClose(i) /\ ~Repeats(i)
BY NoneIsNoReason DEF Reason, Reasons

LEMMA TurnIsInOrder ==
  ASSUME Prepared, Waiting, InsistedFirst, NEW i, Turn(i)
  PROVE  InsistedFirst'
<1>1. \A k : Included(k)' = Included(k)
  BY DEF Turn, Included, Cand
<1>2. ASSUME NEW j \in queue \ {i}, Included(j) PROVE Included(i)
  BY <1>2 DEF Turn, GoesBefore
<1>3. ASSUME NEW k \in Range(chosen'), NEW j \in queue', Included(j) PROVE Included(k)
  <2>1. k \in Range(chosen) \/ k = i
    BY TurnWaits
  <2>2. j \in queue \ {i}
    BY DEF Turn
  <2> QED BY <1>2, <1>3, <2>1, <2>2 DEF InsistedFirst
<1> QED BY <1>1, <1>3 DEF InsistedFirst

LEMMA TurnFits ==
  ASSUME Prepared, Waiting, InsistedFirst, SelectedFitTogether, NEW i, Turn(i)
  PROVE  SelectedFitTogether'
<1> DEFINE Fit(a, b) == a # b /\ ~SameSeries(a, b) /\ ~(Hard(a) /\ Hard(b)) =>
                          a.gist # b.gist /\ ~OverlapsTooMuch(a, b)
<1>1. ASSUME NEW n \in Range(chosen), Reason(i) = None
      PROVE  Fit(Cand(i), Cand(n)) /\ Fit(Cand(n), Cand(i))
  <2>1. CASE Included(i)
    <3>1. Included(n)
      BY <2>1 DEF InsistedFirst, Turn
    <3> QED BY <2>1, <3>1 DEF Included, Hard
  <2>2. CASE ~Included(i)
    <3>1. ~TooClose(i) /\ ~Repeats(i)
      BY <1>1, <2>2, NoReason
    <3>2. SameSeries(Cand(i), Cand(n)) <=> SameSeries(Cand(n), Cand(i))
      BY DEF SameSeries
    <3>3. OverlapsTooMuch(Cand(i), Cand(n)) <=> OverlapsTooMuch(Cand(n), Cand(i))
      BY OverlapIsMutual
    <3> QED BY <3>1, <3>2, <3>3 DEF TooClose, Repeats, Near
  <2> QED BY <2>1, <2>2
<1>2. Fit(Cand(i), Cand(i))
  OBVIOUS
<1>3. \A m, n \in Range(chosen) : Fit(Cand(m), Cand(n))
  BY DEF SelectedFitTogether, Picked
<1> HIDE DEF Fit
<1>4. \A m, n \in Range(chosen') : Fit(Cand(m), Cand(n))
  BY <1>1, <1>2, <1>3, TurnWaits
<1>5. \A a, b \in Picked' : Fit(a, b)
  BY <1>4 DEF Picked, Cand, Turn
<1>6. \A a, b : (a # b /\ ~SameSeries(a, b) /\ ~(Hard(a)' /\ Hard(b)') =>
                   a.gist # b.gist /\ ~OverlapsTooMuch(a, b)) <=> Fit(a, b)
  BY DEF Fit, Hard, Turn
<1> QED BY <1>5, <1>6 DEF SelectedFitTogether

(* The reason of one candidate is as ReasonsAreTrue says.                  *)
TrueReason(k) ==
  LET c == Cand(k)  r == why[c.id] IN
    CASE r = "count_limit" -> Len(chosen) >= Target
      [] r = "overlap_limit" -> \E b \in Picked : OverlapsTooMuch(c, b)
      [] r = "duplicate_content" -> \E b \in Picked : b # c /\ b.gist = c.gist
      [] r = "track_diversity" -> Tracks(k) \subseteq TracksOf(Range(chosen))
      [] r \in {"ranked_selection", "host_hard_include"} -> c \in Picked
      [] OTHER -> c \notin Picked

LEMMA TrueReasons == ReasonsAreTrue <=> \A k \in Indices : TrueReason(k)
BY DEF ReasonsAreTrue, TrueReason

(* What has been rejected for a reason can only be rejected the more.      *)
LEMMA OldReasonStays ==
  ASSUME Prepared, Waiting, using # NoCall, NEW i, Turn(i), NEW k \in Indices, k # i, TrueReason(k)
  PROVE  TrueReason(k)'
<1>1. Cand(k).id # Cand(i).id /\ Cand(k) # Cand(i)
  BY DEF Prepared, Waiting, IdsDiffer, Cand, Turn
<1>2. why'[Cand(k).id] = why[Cand(k).id] /\ Cand(k)' = Cand(k)
  BY <1>1 DEF Waiting, Turn, Cand
<1>3. Picked \subseteq Picked' /\ Picked' \subseteq Picked \cup {Cand(i)}
  <2>1. \A n : Cand(n)' = Cand(n)
    BY DEF Cand, Turn
  <2> QED BY <2>1, TurnWaits DEF Picked
<1>4. Len(chosen) >= Target => Len(chosen') >= Target'
  <2>1. Target' = Target
    BY DEF Target, Limit, Turn
  <2>2. Target \in Nat /\ Len(chosen) \in Nat /\ Len(chosen') \in Nat
    <3>1. Target \in Nat
      BY TargetIsNumber DEF Prepared
    <3>2. chosen' \in Seq((Indices \ queue)')
      BY TurnWaits DEF Waiting
    <3> QED BY <3>1, <3>2, TurnWaits
  <2> QED BY <2>1, <2>2, TurnWaits
<1>5. Tracks(k) \subseteq TracksOf(Range(chosen)) => Tracks(k)' \subseteq TracksOf(Range(chosen))'
  <2>1. \A n : Tracks(n)' = Tracks(n)
    BY DEF Tracks, Cand, Turn
  <2>2. Range(chosen) \subseteq Range(chosen')
    BY TurnWaits
  <2> QED BY <2>1, <2>2 DEF TracksOf
<1> DEFINE r == why[Cand(k).id]
<1>6. CASE r = "count_limit"
  BY <1>2, <1>4, <1>6 DEF TrueReason
<1>7. CASE r = "overlap_limit"
  BY <1>2, <1>3, <1>7 DEF TrueReason
<1>8. CASE r = "duplicate_content"
  BY <1>2, <1>3, <1>8 DEF TrueReason
<1>9. CASE r = "track_diversity"
  BY <1>2, <1>5, <1>9 DEF TrueReason
<1>10. CASE r \in {"ranked_selection", "host_hard_include"}
  BY <1>2, <1>3, <1>10 DEF TrueReason
<1>11. CASE r \notin {"count_limit", "overlap_limit", "duplicate_content", "track_diversity",
                      "ranked_selection", "host_hard_include"}
  BY <1>1, <1>2, <1>3, <1>11 DEF TrueReason
<1> QED BY <1>6, <1>7, <1>8, <1>9, <1>10, <1>11

LEMMA NewReasonIsTrue ==
  ASSUME Prepared, Waiting, using # NoCall, NEW i, Turn(i)
  PROVE  TrueReason(i)'
<1>1. i \in Indices /\ why'[Cand(i).id] = Or(Reason(i), IF Included(i) THEN "host_hard_include"
                                                        ELSE "ranked_selection")
  BY DEF Waiting, Turn
<1>2. Cand(i)' = Cand(i)
  BY DEF Cand, Turn
<1> DEFINE r == why'[Cand(i).id]
<1>3. CASE Reason(i) = None
  <2>1. r \in {"host_hard_include", "ranked_selection"}
    BY <1>1, <1>3 DEF Or
  <2>2. Cand(i) \in Picked'
    BY <1>2, <1>3, TurnWaits DEF Picked
  <2> QED BY <1>2, <2>1, <2>2 DEF TrueReason
<1>4. CASE Reason(i) # None
  <2>1. r = Reason(i)
    BY <1>1, <1>4 DEF Or
  <2>2. Picked' = Picked /\ chosen' = chosen /\ Target' = Target
    BY <1>4 DEF Turn, Picked, Cand, Target, Limit
  <2>3. Cand(i) \notin Picked
    <3>1. SUFFICES ASSUME NEW j \in Range(chosen), Cand(j) = Cand(i) PROVE FALSE
      BY DEF Picked
    <3>2. j \in Indices /\ j # i
      BY DEF Waiting, Range, Turn
    <3> QED BY <1>1, <3>1, <3>2 DEF Prepared, IdsDiffer, Cand
  <2>4. CASE r = "count_limit"
    <3>1. Len(chosen) >= Target
      BY <1>4, <2>1, <2>4 DEF Reason
    <3> QED BY <1>2, <2>2, <2>4, <3>1 DEF TrueReason
  <2>5. CASE r = "overlap_limit"
    <3>1. TooClose(i)
      BY <1>4, <2>1, <2>5 DEF Reason
    <3>2. \E b \in Picked : OverlapsTooMuch(Cand(i), b)
      BY <3>1 DEF TooClose, Near, Picked
    <3> QED BY <1>2, <2>2, <2>5, <3>2 DEF TrueReason
  <2>6. CASE r = "duplicate_content"
    <3>1. Repeats(i)
      BY <1>4, <2>1, <2>6 DEF Reason
    <3>2. \E b \in Picked : b.gist = Cand(i).gist
      BY <3>1 DEF Repeats, Near, Picked
    <3> QED BY <1>2, <2>2, <2>3, <2>6, <3>2 DEF TrueReason
  <2>7. CASE r = "track_diversity"
    <3>1. Tracks(i) \subseteq TracksOf(Range(chosen))
      BY <1>4, <2>1, <2>7 DEF Reason, OldTracks
    <3>2. (Tracks(i) \subseteq TracksOf(Range(chosen)))'
      BY <2>2, <3>1 DEF Tracks, TracksOf, Cand, Turn
    <3> QED BY <1>2, <2>7, <3>2 DEF TrueReason
  <2>8. CASE r \notin {"count_limit", "overlap_limit", "duplicate_content", "track_diversity"}
    <3>1. r \notin {"ranked_selection", "host_hard_include"}
      BY <2>1, <1>4 DEF Reason
    <3> QED BY <1>2, <2>2, <2>3, <2>8, <3>1 DEF TrueReason
  <2> QED BY <2>4, <2>5, <2>6, <2>7, <2>8
<1> QED BY <1>3, <1>4

LEMMA DocumentsStay ==
  ASSUME Documents, UNCHANGED <<ask, bundle, task>>
  PROVE  Documents'
<1>1. \A n : Resolved(n)' = Resolved(n)
  BY DEF Resolved
<1> QED BY <1>1 DEF Documents

LEMMA LoopKeeps ==
  ASSUME HighlightsInv, Loop
  PROVE  HighlightsInv'
<1>1. using # NoCall /\ UNCHANGED hostVars
  BY DEF Loop, Free
<1>2. PICK i \in queue : Turn(i)
  BY DEF Loop, Consider, Turn
<1>3. Prepared /\ Waiting /\ InsistedFirst /\ SelectedFitTogether /\ ReasonsAreTrue
  BY DEF HighlightsInv, LoopInv
<1>4. Prepared'
  BY <1>1, <1>2, <1>3 DEF Prepared, Turn, Indices, hostVars, NoCall, Call, Failure
<1>5. Waiting' /\ InsistedFirst' /\ SelectedFitTogether'
  BY <1>2, <1>3, TurnWaits, TurnIsInOrder, TurnFits
<1>6. ReasonsAreTrue'
  <2>1. Indices' = Indices
    BY <1>2 DEF Turn, Indices
  <2>2. \A k \in Indices : TrueReason(k)'
    BY <1>1, <1>2, <1>3, OldReasonStays, NewReasonIsTrue, TrueReasons
  <2> QED BY <2>1, <2>2 DEF ReasonsAreTrue, TrueReason
<1>7. Documents'
  BY <1>1, DocumentsStay DEF HighlightsInv, hostVars
<1> QED BY <1>4, <1>5, <1>6, <1>7 DEF HighlightsInv, LoopInv

-----------------------------------------------------------------------------
(* The calls.                                                              *)

LEMMA NothingFits ==
  ASSUME prep = NothingPrepared, queue = {}, chosen = <<>>, using = NoCall
  PROVE  LoopInv
<1>1. Indices = {} /\ Range(chosen) = {} /\ Picked = {}
  BY DEF Indices, NothingPrepared, Range, Picked
<1>2. Prepared
  BY DEF Prepared, IdsDiffer, NothingPrepared, Indices
<1>3. Waiting
  BY <1>1 DEF Waiting
<1> QED BY <1>1, <1>2, <1>3 DEF LoopInv, InsistedFirst, SelectedFitTogether, ReasonsAreTrue

LEMMA InitKeeps == Init => HighlightsInv
<1> SUFFICES ASSUME Init PROVE HighlightsInv
  OBVIOUS
<1>1. LoopInv
  BY NothingFits DEF Init, Idle
<1>2. Documents
  BY DEF Init, Documents
<1> QED BY <1>1, <1>2 DEF HighlightsInv

LEMMA ForgetKeeps ==
  ASSUME Forget, using' = NoCall
  PROVE  LoopInv'
<1>1. Indices' = {} /\ Range(chosen') = {} /\ Picked' = {}
  BY DEF Forget, Indices, NothingPrepared, Range, Picked
<1>2. Prepared'
  BY DEF Forget, Prepared, IdsDiffer, NothingPrepared, Indices
<1>3. Waiting'
  BY <1>1 DEF Forget, Waiting
<1> QED BY <1>1, <1>2, <1>3 DEF LoopInv, InsistedFirst, SelectedFitTogether, ReasonsAreTrue

LEMMA OtherCallsKeep ==
  ASSUME LoopInv, UNCHANGED <<selectionVars, using>>
  PROVE  LoopInv'
<1>1. UNCHANGED <<prep, goal, score, queue, chosen, why, using>>
  BY DEF selectionVars
<1>2. Prepared' /\ Waiting' /\ InsistedFirst'
  BY <1>1 DEF LoopInv, Prepared, Waiting, InsistedFirst, Indices, Cand, Included, NoCall, Call,
              Failure
<1>3. SelectedFitTogether'
  BY <1>1 DEF LoopInv, SelectedFitTogether, Picked, Cand, Hard
<1>4. \A k : TrueReason(k)' = TrueReason(k)
  BY <1>1 DEF TrueReason, Picked, Cand, Target, Limit, Tracks, TracksOf
<1>5. ReasonsAreTrue'
  <2>1. Indices' = Indices
    BY <1>1 DEF Indices
  <2>2. \A k \in Indices : TrueReason(k)'
    BY <1>4, TrueReasons DEF LoopInv
  <2> QED BY <2>1, <2>2 DEF ReasonsAreTrue, TrueReason
<1> QED BY <1>2, <1>3, <1>5 DEF LoopInv

LEMMA ResolveKeeps ==
  ASSUME HighlightsInv, NEW n \in DOMAIN ask, Resolve(n)
  PROVE  HighlightsInv'
<1>1. LoopInv'
  BY OtherCallsKeep DEF HighlightsInv, Resolve
<1>2. Documents'
  BY DEF HighlightsInv, Documents, Resolve, Resolved
<1> QED BY <1>1, <1>2 DEF HighlightsInv

LEMMA SelectKeeps ==
  ASSUME HighlightsInv, NEW n \in DOMAIN ask, NEW m \in DOMAIN bundle, Ready(n),
         Select(n, m, Prepare(bundle[m], task[n]))
  PROVE  HighlightsInv'
<1> DEFINE prepared == Prepare(bundle[m], task[n])
           refused == IF Fails(prepared) THEN prepared.error
                      ELSE Refusal(prepared, task[n], aggregated.result.aggregates)
<1>1. Documents'
  BY DocumentsStay DEF HighlightsInv, Select
<1>2. CASE refused # None
  BY <1>1, <1>2, OtherCallsKeep DEF HighlightsInv, Select
<1>3. CASE refused = None
  <2>1. /\ prep' = prepared /\ goal' = task[n]
        /\ why' = [id \in DOMAIN prepared.assessed |-> None]
        /\ chosen' = <<>> /\ queue' = DOMAIN prepared.candidates
    BY <1>3 DEF Select
  <2>2. SoundlyPrepared(prepared)
    <3>1. ValidProposals(bundle[m])
      BY DocumentsAreValid DEF HighlightsInv, Documents
    <3>2. prepared # Failure("ValueError")
      BY <1>3, NoneIsNoReason DEF Failure, Fails, Errors
    <3> QED BY <3>1, <3>2, PreparedIsSound
  <2> HIDE DEF prepared
  <2>3. Prepared'
    <3>1. NumericLimits(task[n].limits)
      BY ResolvedIsTask DEF Ready, HighlightsInv, Documents, IsTaskOf
    <3> QED BY <2>1, <2>2, <3>1 DEF Prepared, SoundlyPrepared, Indices
  <2>4. Waiting'
    <3>1. \A i \in Indices' : prepared.candidates[i].id \in DOMAIN prepared.assessed
      BY <2>1, <2>2 DEF SoundlyPrepared, Indices, Range
    <3> QED BY <2>1, <3>1 DEF Waiting, Indices, Cand
  <2>5. Range(chosen') = {} /\ Picked' = {}
    BY <2>1 DEF Range, Picked
  <2>6. ReasonsAreTrue'
    <3>1. \A i \in Indices' : why'[Cand(i)'.id] = None
      BY <2>1, <2>4 DEF Waiting, Indices, Cand
    <3>2. SUFFICES ASSUME NEW i \in Indices' PROVE TrueReason(i)'
      BY DEF ReasonsAreTrue, TrueReason
    <3> QED BY <2>5, <3>1, <3>2, NoneIsNoReason DEF TrueReason, Reasons
  <2> QED BY <1>1, <2>3, <2>4, <2>5, <2>6
          DEF HighlightsInv, LoopInv, InsistedFirst, SelectedFitTogether
<1> QED BY <1>2, <1>3

LEMMA NextKeeps == HighlightsInv /\ [Next]_vars => HighlightsInv'
<1> SUFFICES ASSUME HighlightsInv, [Next]_vars PROVE HighlightsInv'
  OBVIOUS
<1>1. ASSUME NEW n \in DOMAIN ask, Resolve(n) PROVE HighlightsInv'
  BY <1>1, ResolveKeeps
<1>2. ASSUME NEW n \in DOMAIN ask, NEW m \in DOMAIN bundle, Ready(n),
             Step(n, m, Prepare(bundle[m], task[n]))
      PROVE  HighlightsInv'
  <2> DEFINE prepared == Prepare(bundle[m], task[n])
  <2>1. CASE AggregateIntelligence(n, m, prepared)
    BY <2>1, OtherCallsKeep, DocumentsStay DEF AggregateIntelligence, HighlightsInv
  <2>2. CASE Select(n, m, prepared)
    BY <1>2, <2>2, SelectKeeps
  <2>3. CASE CreatePlan(n, m, prepared)
    BY <2>3, OtherCallsKeep, DocumentsStay DEF CreatePlan, HighlightsInv
  <2> QED BY <1>2, <2>1, <2>2, <2>3 DEF Step
<1>3. CASE Conflict
  BY <1>3, ForgetKeeps, DocumentsStay DEF Conflict, HighlightsInv
<1>4. CASE Loop
  BY <1>4, LoopKeeps
<1>5. CASE Finish
  BY <1>5, ForgetKeeps, DocumentsStay DEF Finish, HighlightsInv
<1>6. CASE UNCHANGED vars
  BY <1>6, OtherCallsKeep, DocumentsStay DEF vars, hostVars, HighlightsInv
<1> QED BY <1>1, <1>2, <1>3, <1>4, <1>5, <1>6 DEF Next

(* Whatever documents are handed to which call, two selected candidates    *)
(* that are not of one series and not both insisted on fit together        *)
(* (select_adaptive).                                                      *)
THEOREM SelectionFits == Spec => []SelectedFitTogether
<1>1. HighlightsInv => SelectedFitTogether
  BY DEF HighlightsInv, LoopInv
<1> QED BY <1>1, InitKeeps, NextKeeps, PTL DEF Spec

(* The reason recorded for a candidate when it was considered is still     *)
(* true at each later moment of the selection (select_adaptive).           *)
THEOREM ReasonsStayTrue == Spec => []ReasonsAreTrue
<1>1. HighlightsInv => ReasonsAreTrue
  BY DEF HighlightsInv, LoopInv
<1> QED BY <1>1, InitKeeps, NextKeeps, PTL DEF Spec

-----------------------------------------------------------------------------
(* What the host said.                                                     *)

(* During a selection: its documents, and what holds of those chosen.  The *)
(* numbers hold because the host's candidates are counted first.           *)
Using ==
  using # NoCall =>
    /\ using.task \in DOMAIN ask /\ using.bundle \in DOMAIN bundle
    /\ goal = Resolved(using.task) /\ task[using.task] = goal /\ ~Fails(goal)
    /\ prep = Prepare(bundle[using.bundle], goal) /\ SoundlyPrepared(prep)
    /\ DOMAIN why = DOMAIN prep.assessed
    /\ goal.include \subseteq DOMAIN prep.assessed

Choice ==
  /\ \A i \in Range(chosen) : Cand(i).id \notin goal.exclude /\ WithinDuration(Cand(i), goal)
  /\ \A i \in Indices \ queue : Included(i) => i \in Range(chosen)
  /\ (\E i \in Range(chosen) : ~Included(i)) => Len(chosen) <= Target
  /\ queue = Indices \/ ~IncludesConflict
  /\ \A m, n \in DOMAIN chosen : m # n => chosen[m] # chosen[n]

(* Of a selection that was made of the prepared candidates p for task t.   *)
FollowsHost(ids, p, t) ==
  /\ ids \subseteq DOMAIN p.assessed
  /\ t.include \subseteq ids /\ t.exclude \cap ids = {}
  /\ \A c \in Range(p.candidates) : c.id \in ids => WithinDuration(c, t)
  /\ Cardinality(ids) \in Nat
  /\ Field(t.limits, "target_count") # None =>
       ids = t.include \/ Cardinality(ids) <= t.limits["target_count"]
  /\ Field(t.limits, "maximum_count") # None => Cardinality(ids) <= t.limits["maximum_count"]

(* What a selection reports of too few is so.                              *)
TellsTooFew(unsatisfied, ids, t) ==
  /\ Field(t.limits, "minimum_count") # None =>
       (<<"minimum_count", t.limits["minimum_count"]>> \in unsatisfied
          <=> Cardinality(ids) < t.limits["minimum_count"])
  /\ t.requirements # None =>
       (<<"semantic_required_count", t.requirements.count>> \in unsatisfied
          <=> Cardinality(ids) < t.requirements.count)
  /\ <<"hard_include", None>> \notin unsatisfied

SelectionInv ==
  ~Fails(selection.result) =>
    LET t == task[selection.task]  p == Prepare(bundle[selection.bundle], t) IN
    /\ selection.task \in DOMAIN ask /\ selection.bundle \in DOMAIN bundle
    /\ t = Resolved(selection.task) /\ ~Fails(t)
    /\ SoundlyPrepared(p)
    /\ DOMAIN selection.result.why = DOMAIN p.assessed
    /\ FollowsHost(DOMAIN selection.result.ranks, p, t)
    /\ TellsTooFew(selection.result.unsatisfied, DOMAIN selection.result.ranks, t)

HostInv == Using /\ Choice /\ SelectionInv

LEMMA ConflictStays ==
  ASSUME UNCHANGED <<prep, goal>>
  PROVE  IncludesConflict' = IncludesConflict
BY DEF IncludesConflict, Included, Tracks, TracksOf, Cand, Indices, Limit

LEMMA ChoiceStays ==
  ASSUME Choice, UNCHANGED selectionVars
  PROVE  Choice'
<1>1. UNCHANGED <<prep, goal, score, queue, chosen, why>>
  BY DEF selectionVars
<1>2. IncludesConflict' = IncludesConflict
  BY <1>1, ConflictStays
<1>3. \A k : Included(k)' = Included(k) /\ Cand(k)' = Cand(k)
  BY <1>1 DEF Included, Cand
<1>4. Indices' = Indices /\ Target' = Target
  BY <1>1 DEF Indices, Target, Limit
<1> QED BY <1>1, <1>2, <1>3, <1>4 DEF Choice

LEMMA TakenForNoReason ==
  ASSUME NEW i, Reason(i) = None, ~Included(i), Len(chosen) \in Nat, Target \in Nat
  PROVE  WithinDuration(Cand(i), goal) /\ Len(chosen) < Target
BY NoneIsNoReason DEF Reason, Reasons

LEMMA TurnChooses ==
  ASSUME Prepared, Waiting, InsistedFirst, Choice, using # NoCall, ~IncludesConflict,
         goal.include \cap goal.exclude = {}, NEW i, Turn(i)
  PROVE  Choice'
<1>1. \A k : Included(k)' = Included(k) /\ Cand(k)' = Cand(k)
  BY DEF Included, Cand, Turn
<1>2. Indices' = Indices /\ goal' = goal /\ Target' = Target /\ queue' = queue \ {i} /\ i \in Indices
  BY DEF Indices, Target, Limit, Turn, Waiting
<1>3. Target \in Nat /\ Len(chosen) \in Nat
  BY TargetIsNumber, TurnWaits DEF Prepared
<1>4. ASSUME Reason(i) = None
      PROVE  Cand(i).id \notin goal.exclude /\ WithinDuration(Cand(i), goal)
  <2>1. Cand(i).id \notin goal.exclude
    BY <1>4, NoneIsNoReason DEF Reason, Reasons
  <2>2. CASE Included(i)
    BY <1>2, <2>1, <2>2 DEF IncludesConflict
  <2>3. CASE ~Included(i)
    BY <1>3, <1>4, <2>1, <2>3, TakenForNoReason
  <2> QED BY <2>2, <2>3
<1>5. \A k \in Range(chosen') : Cand(k).id \notin goal.exclude /\ WithinDuration(Cand(k), goal)
  BY <1>4, TurnWaits DEF Choice
<1>6. ASSUME NEW k \in Indices \ queue', Included(k) PROVE k \in Range(chosen')
  <2>1. CASE k = i
    <3>1. Reason(i) = None
      BY <1>6, <2>1 DEF Reason, Included
    <3> QED BY <2>1, <3>1, TurnWaits
  <2>2. CASE k # i
    BY <1>2, <1>6, <2>2, TurnWaits DEF Choice
  <2> QED BY <2>1, <2>2
<1>7. ASSUME NEW k \in Range(chosen'), ~Included(k) PROVE Len(chosen') <= Target
  <2>1. CASE Reason(i) # None
    BY <1>7, <2>1 DEF Turn, Choice
  <2>2. CASE Reason(i) = None
    <3>1. Len(chosen') = Len(chosen) + 1
      BY <2>2 DEF Turn, Waiting
    <3>2. ~Included(i)
      <4>1. k \in Range(chosen) \/ k = i
        BY TurnWaits
      <4> QED BY <1>7, <4>1 DEF InsistedFirst, Turn
    <3> QED BY <1>3, <2>2, <3>1, <3>2, TakenForNoReason
  <2> QED BY <2>1, <2>2
<1>8. ~IncludesConflict'
  BY ConflictStays DEF Turn
<1>9. ASSUME NEW m \in DOMAIN chosen', NEW n \in DOMAIN chosen', m # n
      PROVE  chosen'[m] # chosen'[n]
  <2>1. CASE Reason(i) # None
    BY <1>9, <2>1 DEF Turn, Choice
  <2>2. CASE Reason(i) = None
    <3>1. chosen' = Append(chosen, i) /\ chosen \in Seq(Indices \ queue) /\ i \in queue
      BY <2>2 DEF Turn, Waiting
    <3>2. \A k \in DOMAIN chosen : chosen[k] # i
      BY <3>1
    <3> QED BY <1>9, <3>1, <3>2 DEF Choice
  <2> QED BY <2>1, <2>2
<1> QED BY <1>1, <1>2, <1>5, <1>6, <1>7, <1>8, <1>9 DEF Choice

LEMMA LoopChooses ==
  ASSUME HighlightsInv, HostInv, Loop
  PROVE  HostInv'
<1>1. using # NoCall /\ UNCHANGED hostVars
  BY DEF Loop, Free
<1>2. PICK i \in queue : Turn(i)
  BY DEF Loop, Consider, Turn
<1>3. Prepared /\ Waiting /\ InsistedFirst /\ Using /\ Choice /\ SelectionInv
  BY DEF HighlightsInv, LoopInv, HostInv
<1>4. ~IncludesConflict
  BY <1>3 DEF Loop, Choice
<1>5. goal.include \cap goal.exclude = {}
  BY <1>1, <1>3, ResolvedIsTask DEF Using, HighlightsInv, Documents, IsTaskOf
<1>6. Choice'
  BY <1>1, <1>2, <1>3, <1>4, <1>5, TurnChooses
<1>7. \A n : Resolved(n)' = Resolved(n)
  BY <1>1 DEF Resolved, hostVars
<1>8. Using'
  <2>1. DOMAIN why' = DOMAIN why
    BY <1>2 DEF Turn
  <2>2. UNCHANGED <<prep, goal, ask, bundle, task, using>>
    BY <1>1, <1>2 DEF Turn, hostVars
  <2> QED BY <1>1, <1>3, <1>7, <2>1, <2>2 DEF Using
<1>9. SelectionInv'
  BY <1>1, <1>3, <1>7 DEF SelectionInv, hostVars
<1> QED BY <1>6, <1>8, <1>9 DEF HostInv

(* A set made from one of finitely many has not more elements.             *)
LEMMA ImageIsSmall ==
  ASSUME NEW S, IsFiniteSet(S), NEW f, NEW T, \A y \in T : \E x \in S : y = f[x]
  PROVE  IsFiniteSet(T) /\ Cardinality(T) <= Cardinality(S)
         /\ Cardinality(T) \in Nat /\ Cardinality(S) \in Nat
<1> DEFINE S2 == {x \in S : f[x] \in T}
           g == [x \in S2 |-> f[x]]
<1>1. IsFiniteSet(S2) /\ Cardinality(S2) <= Cardinality(S)
  BY FS_Subset
<1>2. g \in Surjection(S2, T)
  BY DEF Surjection
<1>3. IsFiniteSet(T) /\ Cardinality(T) <= Cardinality(S2)
  BY <1>1, <1>2, FS_Surjection
<1>4. Cardinality(T) \in Nat /\ Cardinality(S) \in Nat /\ Cardinality(S2) \in Nat
  BY <1>1, <1>3, FS_CardinalityType
<1> QED BY <1>1, <1>3, <1>4

(* The numbers of a task do not contradict each other.                     *)
LEMMA LimitsAgree ==
  ASSUME NEW limits, NumericLimits(limits), ~Contradictory(limits),
         Field(limits, "target_count") # None, Field(limits, "maximum_count") # None
  PROVE  limits["target_count"] <= limits["maximum_count"]
BY DEF NumericLimits, Contradictory, Exceeds, Field

(* When nobody is waiting any more, the chosen ones are as the host wishes. *)
LEMMA ChosenFollow ==
  ASSUME HighlightsInv, HostInv, using # NoCall, queue = {}
  PROVE  FollowsHost(ChosenIds, prep, goal)
<1>1. Prepared /\ Waiting /\ Using /\ Choice
  BY DEF HighlightsInv, LoopInv, HostInv
<1>2. IsTaskOf(goal, ask[using.task]) /\ SoundlyPrepared(prep)
  BY <1>1, ResolvedIsTask DEF Using, HighlightsInv, Documents
<1>3. \A id \in DOMAIN prep.assessed : \E i \in Indices : Cand(i).id = id
  BY <1>2 DEF SoundlyPrepared, Indices, Cand, Range
<1>4. chosen \in Seq(Indices) /\ Range(chosen) \subseteq Indices /\ Len(chosen) \in Nat
      /\ DOMAIN chosen = 1..Len(chosen)
  BY <1>1 DEF Waiting, Range
<1>5. ChosenIds \subseteq DOMAIN prep.assessed
  BY <1>2, <1>4 DEF ChosenIds, SoundlyPrepared, Indices, Cand, Range
<1>6. goal.include \subseteq ChosenIds
  <2>1. SUFFICES ASSUME NEW id \in goal.include PROVE id \in ChosenIds
    OBVIOUS
  <2>2. PICK i \in Indices : Cand(i).id = id
    BY <1>1, <1>3 DEF Using
  <2>3. i \in Range(chosen)
    BY <1>1, <2>2 DEF Choice, Included
  <2> QED BY <2>2, <2>3 DEF ChosenIds
<1>7. goal.exclude \cap ChosenIds = {}
  BY <1>1 DEF Choice, ChosenIds
<1>8. ASSUME NEW c \in Range(prep.candidates), c.id \in ChosenIds PROVE WithinDuration(c, goal)
  <2>1. PICK k \in Indices : c = Cand(k)
    BY DEF Range, Indices, Cand
  <2>2. PICK i \in Range(chosen) : Cand(i).id = c.id
    BY <1>8 DEF ChosenIds
  <2>3. k = i
    BY <1>1, <1>4, <2>1, <2>2 DEF Prepared, IdsDiffer, Cand
  <2> QED BY <1>1, <2>1, <2>2, <2>3 DEF Choice
<1>9. Cardinality(ChosenIds) \in Nat /\ Cardinality(ChosenIds) <= Len(chosen)
  <2> DEFINE f == [n \in 1..Len(chosen) |-> Cand(chosen[n]).id]
  <2>1. \A y \in ChosenIds : \E x \in 1..Len(chosen) : y = f[x]
    BY <1>4 DEF ChosenIds, Range
  <2>2. IsFiniteSet(1..Len(chosen)) /\ Cardinality(1..Len(chosen)) = Len(chosen)
    BY <1>4, FS_Interval
  <2> HIDE DEF f
  <2> QED BY <2>1, <2>2, ImageIsSmall
<1>10. ChosenIds = goal.include \/ Len(chosen) <= Target
  <2>1. CASE \E i \in Range(chosen) : ~Included(i)
    BY <1>1, <2>1 DEF Choice
  <2>2. CASE \A i \in Range(chosen) : Included(i)
    BY <1>6, <2>2 DEF ChosenIds, Included
  <2> QED BY <2>1, <2>2
<1>11. Target \in Nat
  BY <1>1, TargetIsNumber DEF Prepared
<1>12. ASSUME Field(goal.limits, "target_count") # None
       PROVE  Target = goal.limits["target_count"]
  BY <1>12 DEF Target, Limit, Or, Field
<1>13. ASSUME Field(goal.limits, "maximum_count") # None
       PROVE  Cardinality(ChosenIds) <= goal.limits["maximum_count"]
  <2> DEFINE most == goal.limits["maximum_count"]
  <2>1. most \in Nat /\ Limit("maximum_count") = most
    BY <1>2, <1>13 DEF IsTaskOf, NumericLimits, Field, Limit
  <2>2. CASE ChosenIds = goal.include
    <3> DEFINE hard == {i \in Indices : Included(i)}
               f == [i \in Indices |-> Cand(i).id]
    <3>1. IsFiniteSet(hard)
      <4>1. hard \in SUBSET Indices /\ IsFiniteSet(Indices)
        BY <1>1, FS_Interval DEF Prepared
      <4> QED BY <4>1, FS_Subset
    <3>2. \A y \in ChosenIds : \E x \in hard : y = f[x]
      BY <1>4, <2>2 DEF ChosenIds, Included
    <3> HIDE DEF f
    <3>3. Cardinality(ChosenIds) <= Cardinality(hard) /\ Cardinality(hard) \in Nat
      BY <3>1, <3>2, ImageIsSmall
    <3>4. CASE Indices = {}
      <4>1. hard = {}
        BY <3>4
      <4> HIDE DEF hard
      <4>2. Cardinality(hard) = 0
        BY <4>1, FS_EmptySet
      <4> QED BY <1>9, <2>1, <3>3, <4>2
    <3>5. CASE Indices # {}
      <4>1. ~(Cardinality(hard) > most)
        BY <1>1, <1>13, <2>1, <3>5 DEF Choice, IncludesConflict, Limit
      <4> QED BY <1>9, <2>1, <3>3, <4>1
    <3> QED BY <3>4, <3>5
  <2>3. CASE Len(chosen) <= Target
    <3>1. Target <= most
      <4>1. CASE Field(goal.limits, "target_count") # None
        BY <1>2, <1>12, <1>13, <4>1, LimitsAgree DEF IsTaskOf
      <4>2. CASE Field(goal.limits, "target_count") = None
        BY <1>13, <2>1, <4>2 DEF Target, Limit, Or
      <4> QED BY <4>1, <4>2
    <3> QED BY <1>4, <1>9, <1>11, <2>1, <2>3, <3>1
  <2> QED BY <1>10, <2>2, <2>3
<1>14. ASSUME Field(goal.limits, "target_count") # None
       PROVE  ChosenIds = goal.include \/ Cardinality(ChosenIds) <= goal.limits["target_count"]
  BY <1>4, <1>9, <1>10, <1>11, <1>12, <1>14
<1> QED BY <1>5, <1>6, <1>7, <1>8, <1>9, <1>13, <1>14 DEF FollowsHost

(* What is reported counts the chosen ones, who differ.                    *)
LEMMA TooFewIsTold ==
  ASSUME HighlightsInv, HostInv, using # NoCall, queue = {}
  PROVE  TellsTooFew(Unsatisfied, ChosenIds, goal)
<1>1. Prepared /\ Waiting /\ Choice
  BY DEF HighlightsInv, LoopInv, HostInv
<1>2. /\ chosen \in Seq(Indices) /\ Range(chosen) = {chosen[n] : n \in 1..Len(chosen)}
      /\ Len(chosen) \in Nat /\ DOMAIN chosen = 1..Len(chosen)
  BY <1>1 DEF Waiting, Range
<1>3. Cardinality(ChosenIds) = Len(chosen)
  <2> DEFINE f == [n \in 1..Len(chosen) |-> Cand(chosen[n]).id]
  <2>1. ChosenIds = {f[n] : n \in 1..Len(chosen)}
    BY <1>2 DEF ChosenIds
  <2>2. ASSUME NEW m \in 1..Len(chosen), NEW n \in 1..Len(chosen), f[m] = f[n] PROVE m = n
    <3>1. chosen[m] \in Indices /\ chosen[n] \in Indices
      BY <1>2
    <3>2. chosen[m] = chosen[n]
      BY <1>1, <2>2, <3>1 DEF Prepared, IdsDiffer, Cand
    <3> QED BY <1>1, <1>2, <3>2 DEF Choice
  <2>3. f \in Bijection(1..Len(chosen), ChosenIds)
    <3>1. f \in [1..Len(chosen) -> ChosenIds]
      BY <2>1
    <3>2. f \in Surjection(1..Len(chosen), ChosenIds)
      BY <2>1, <3>1 DEF Surjection
    <3> HIDE DEF f
    <3>3. f \in Injection(1..Len(chosen), ChosenIds)
      BY <2>2, <3>1 DEF Injection, IsInjective
    <3> QED BY <3>2, <3>3 DEF Bijection
  <2>4. IsFiniteSet(1..Len(chosen)) /\ Cardinality(1..Len(chosen)) = Len(chosen)
    BY <1>2, FS_Interval
  <2> HIDE DEF f
  <2> QED BY <2>3, <2>4, FS_Bijection DEF ExistsBijection
<1>4. goal.include \subseteq ChosenIds
  BY ChosenFollow DEF FollowsHost
<1> DEFINE least == Limit("minimum_count")
           r == goal.requirements
           structures == {"semantic_structure"} \X
                           (r.structure \ UNION {Cand(i).structure : i \in Range(chosen)})
<1>5. <<"hard_include", None>> \notin Unsatisfied
  BY <1>4 DEF Unsatisfied
<1>6. least # None => (<<"minimum_count", least>> \in Unsatisfied <=> Len(chosen) < least)
  BY <1>4 DEF Unsatisfied
<1>7. r # None => (<<"semantic_required_count", r.count>> \in Unsatisfied <=> Len(chosen) < r.count)
  BY <1>4 DEF Unsatisfied
<1>8. least # None => least = goal.limits["minimum_count"]
      /\ Field(goal.limits, "minimum_count") = least
  BY DEF Limit, Field
<1> QED BY <1>3, <1>5, <1>6, <1>7, <1>8 DEF TellsTooFew, Limit

LEMMA SelectionStays ==
  ASSUME SelectionInv, Documents, UNCHANGED <<ask, bundle, selection>>,
         \A n \in DOMAIN ask : task[n] # None => task'[n] = task[n],
         \A n \in DOMAIN ask : task'[n] \in {None, Resolved(n)}
  PROVE  SelectionInv'
<1>1. \A n : Resolved(n)' = Resolved(n)
  BY DEF Resolved
<1> DEFINE t == task[selection.task]
<1>2. SUFFICES ASSUME ~Fails(selection.result) PROVE SelectionInv'
  BY DEF SelectionInv
<1>3. selection.task \in DOMAIN ask /\ t = Resolved(selection.task)
  BY <1>2 DEF SelectionInv
<1>4. task'[selection.task] = t
  <2>1. CASE t = None
    BY <1>3, <2>1
  <2>2. CASE t # None
    BY <1>3, <2>2
  <2> QED BY <2>1, <2>2
<1> QED BY <1>1, <1>2, <1>3, <1>4 DEF SelectionInv

LEMMA InitChooses == Init => HostInv
<1> SUFFICES ASSUME Init PROVE HostInv
  OBVIOUS
<1>1. Indices = {} /\ Range(chosen) = {}
  BY DEF Init, Idle, Indices, NothingPrepared, Range
<1>2. Choice
  BY <1>1 DEF Choice, Init, Idle
<1>3. Fails(selection.result)
  BY DEF Init, NoCall, Call, Failure, Fails
<1> QED BY <1>2, <1>3 DEF HostInv, Using, SelectionInv, Init

(* After a selection has ended, one way or the other.                      *)
LEMMA ForgetChooses ==
  ASSUME Forget, using' = NoCall
  PROVE  Using' /\ Choice'
<1>1. Indices' = {} /\ Range(chosen') = {}
  BY DEF Forget, Indices, NothingPrepared, Range
<1>2. Choice'
  BY <1>1 DEF Choice, Forget
<1> QED BY <1>2 DEF Using

LEMMA FinishChooses ==
  ASSUME HighlightsInv, HostInv, Finish
  PROVE  HostInv'
<1>1. using # NoCall /\ queue = {} /\ UNCHANGED <<ask, bundle, task>>
  BY DEF Finish, Free
<1>2. FollowsHost(ChosenIds, prep, goal)
  BY <1>1, ChosenFollow
<1>3. /\ selection'.task = using.task /\ selection'.bundle = using.bundle
      /\ selection'.result = Selected
  BY DEF Finish, Call
<1>4. /\ DOMAIN Selected.ranks = ChosenIds /\ Selected.why = why
      /\ Selected.unsatisfied = Unsatisfied /\ TellsTooFew(Unsatisfied, ChosenIds, goal)
  BY <1>1, TooFewIsTold DEF Selected, Ranks
<1>5. \A n : Resolved(n)' = Resolved(n)
  BY <1>1 DEF Resolved
<1>6. SelectionInv'
  BY <1>1, <1>2, <1>3, <1>4, <1>5 DEF SelectionInv, HostInv, Using
<1> QED BY <1>6, ForgetChooses DEF HostInv, Finish

LEMMA SelectChooses ==
  ASSUME HighlightsInv, HostInv, NEW n \in DOMAIN ask, NEW m \in DOMAIN bundle, Ready(n),
         Free, Select(n, m, Prepare(bundle[m], task[n]))
  PROVE  HostInv'
<1> DEFINE prepared == Prepare(bundle[m], task[n])
           refused == IF Fails(prepared) THEN prepared.error
                      ELSE Refusal(prepared, task[n], aggregated.result.aggregates)
<1>1. UNCHANGED <<ask, bundle, task>>
  BY DEF Select
<1>2. \A k : Resolved(k)' = Resolved(k)
  BY <1>1 DEF Resolved
<1>3. task[n] = Resolved(n) /\ ~Fails(task[n])
  BY DEF Ready, HighlightsInv, Documents
<1>4. CASE refused # None
  <2>1. UNCHANGED <<using, selectionVars>> /\ selection' = Call(n, m, Failure(refused))
    BY <1>4 DEF Select
  <2>2. Fails(selection'.result)
    BY <2>1 DEF Call, Failure, Fails
  <2>3. Using' /\ Choice'
    <3>1. Using'
      BY <1>1, <1>2, <2>1 DEF HostInv, Using, selectionVars
    <3> QED BY <2>1, <3>1, ChoiceStays DEF HostInv
  <2> QED BY <2>2, <2>3 DEF HostInv, SelectionInv
<1>5. CASE refused = None
  <2>1. /\ prep' = prepared /\ goal' = task[n] /\ UNCHANGED selection
        /\ using' = [Call(n, m, None) EXCEPT !.result = aggregated.task]
        /\ why' = [id \in DOMAIN prepared.assessed |-> None]
        /\ chosen' = <<>> /\ queue' = DOMAIN prepared.candidates
    BY <1>5 DEF Select
  <2>2. SoundlyPrepared(prepared)
    <3>1. ValidProposals(bundle[m])
      BY DocumentsAreValid DEF HighlightsInv, Documents
    <3>2. prepared # Failure("ValueError")
      BY <1>5, NoneIsNoReason DEF Failure, Fails, Errors
    <3> QED BY <3>1, <3>2, PreparedIsSound
  <2>3. task[n].include \subseteq DOMAIN prepared.assessed
    BY <1>5, <2>2, NoneIsNoReason DEF Refusal, SoundlyPrepared, Errors
  <2> HIDE DEF prepared
  <2>4. using'.task = n /\ using'.bundle = m
    BY <2>1 DEF Call
  <2>5. Using'
    BY <1>1, <1>2, <1>3, <2>1, <2>2, <2>3, <2>4 DEF Using, prepared
  <2>6. Choice'
    <3>1. Range(chosen') = {} /\ Indices' = queue'
      BY <2>1 DEF Range, Indices
    <3>2. DOMAIN chosen' = {}
      BY <2>1
    <3> QED BY <3>1, <3>2 DEF Choice
  <2>7. SelectionInv'
    BY <1>1, <1>2, <2>1 DEF HostInv, SelectionInv
  <2> QED BY <2>5, <2>6, <2>7 DEF HostInv
<1> QED BY <1>4, <1>5

-----------------------------------------------------------------------------
(* The plan.                                                               *)

(* A plan is the last thing the host has made; nothing it was made of      *)
(* changes afterwards.                                                     *)
PlanInv ==
  ~Fails(plan.result) =>
    LET t == task[plan.task]  p == Prepare(bundle[plan.bundle], t) IN
    /\ Free /\ ~Fails(selection.result)
    /\ plan.task \in DOMAIN ask /\ plan.bundle \in DOMAIN bundle
    /\ t = Resolved(plan.task) /\ ~Fails(t) /\ ~Fails(p)
    /\ plan.result = PlanFrom(p, DOMAIN selection.result.ranks, DOMAIN selection.result.why)

WholeInv == HighlightsInv /\ HostInv /\ PlanInv

LEMMA PlanStays ==
  ASSUME PlanInv, Documents, UNCHANGED <<ask, bundle, using, selection, plan>>,
         \A n \in DOMAIN ask : task[n] # None => task'[n] = task[n],
         \A n \in DOMAIN ask : task'[n] \in {None, Resolved(n)}
  PROVE  PlanInv'
<1>1. \A n : Resolved(n)' = Resolved(n)
  BY DEF Resolved
<1>2. SUFFICES ASSUME ~Fails(plan.result) PROVE PlanInv'
  BY DEF PlanInv
<1>3. plan.task \in DOMAIN ask /\ task[plan.task] = Resolved(plan.task)
  BY <1>2 DEF PlanInv
<1>4. task'[plan.task] = task[plan.task]
  BY <1>3
<1> QED BY <1>1, <1>2, <1>3, <1>4 DEF PlanInv, Free

(* Until there is a plan, nothing else has to be shown of a step.          *)
LEMMA NoPlanYet ==
  ASSUME Fails(plan.result), UNCHANGED plan
  PROVE  PlanInv'
BY DEF PlanInv

LEMMA UnplannedFails == Fails(NoCall.result)
BY DEF NoCall, Call, Failure, Fails

(* While a selection goes on there is no plan.                             *)
LEMMA SelectingKeepsPlan ==
  ASSUME PlanInv, ~Free, UNCHANGED plan
  PROVE  PlanInv'
BY DEF PlanInv

LEMMA CreateKeepsPlan ==
  ASSUME Documents, Free, NEW n \in DOMAIN ask, NEW m \in DOMAIN bundle, Ready(n),
         CreatePlan(n, m, Prepare(bundle[m], task[n]))
  PROVE  PlanInv'
<1> DEFINE p == Prepare(bundle[m], task[n])
<1>1. UNCHANGED <<ask, bundle, task, using, selection>> /\ ~Fails(selection.result)
  BY DEF CreatePlan
<1>2. Resolved(n)' = Resolved(n) /\ task[n] = Resolved(n) /\ ~Fails(task[n])
  BY <1>1 DEF Resolved, Documents, Ready
<1>3. /\ plan'.task = n /\ plan'.bundle = m
      /\ plan'.result = IF Fails(p) THEN p
           ELSE PlanFrom(p, DOMAIN selection.result.ranks, DOMAIN selection.result.why)
  BY DEF CreatePlan, Call
<1>4. CASE Fails(p)
  BY <1>3, <1>4 DEF PlanInv
<1>5. CASE ~Fails(p)
  <2> HIDE DEF p
  <2>1. plan'.result = PlanFrom(p, DOMAIN selection.result.ranks, DOMAIN selection.result.why)
    BY <1>3, <1>5
  <2>2. p = Prepare(bundle[m], task[n])
    BY DEF p
  <2> QED BY <1>1, <1>2, <1>3, <1>5, <2>1, <2>2 DEF PlanInv, Free
<1> QED BY <1>4, <1>5

LEMMA InitPlans == Init => WholeInv
<1>1. Init => PlanInv
  BY UnplannedFails DEF Init, PlanInv
<1> QED BY <1>1, InitKeeps, InitChooses DEF WholeInv

LEMMA TasksStay ==
  ASSUME Documents, UNCHANGED <<ask, bundle, task>>
  PROVE  /\ \A n \in DOMAIN ask : task[n] # None => task'[n] = task[n]
         /\ \A n \in DOMAIN ask : task'[n] \in {None, Resolved(n)}
BY DEF Documents

LEMMA IdleKeepsHost ==
  ASSUME HostInv, Documents, UNCHANGED <<ask, bundle, task, using, selection, selectionVars>>
  PROVE  HostInv'
<1>1. \A n : Resolved(n)' = Resolved(n)
  BY DEF Resolved
<1>2. Using'
  BY <1>1 DEF HostInv, Using, selectionVars
<1>3. Choice'
  BY ChoiceStays DEF HostInv
<1>4. SelectionInv'
  BY SelectionStays, TasksStay DEF HostInv
<1> QED BY <1>2, <1>3, <1>4 DEF HostInv

LEMMA ResolveKeepsHost ==
  ASSUME HostInv, PlanInv, Documents, NEW n \in DOMAIN ask, Resolve(n)
  PROVE  HostInv' /\ PlanInv'
<1>1. UNCHANGED <<ask, bundle, using, selection, plan, selectionVars>> /\ task[n] = None
  BY DEF Resolve
<1>2. task' = [task EXCEPT ![n] = Resolved(n)]
  BY DEF Resolve, Resolved
<1>3. \A k \in DOMAIN ask : task[k] # None => task'[k] = task[k]
  BY <1>1, <1>2 DEF Documents
<1>4. \A k \in DOMAIN ask : task'[k] \in {None, Resolved(k)}
  BY <1>2 DEF Documents
<1>5. PlanInv' /\ SelectionInv'
  BY <1>1, <1>3, <1>4, PlanStays, SelectionStays DEF HostInv
<1>6. Choice'
  BY <1>1, ChoiceStays DEF HostInv
<1>7. Using'
  <2>1. \A k : Resolved(k)' = Resolved(k)
    BY <1>1 DEF Resolved
  <2>2. SUFFICES ASSUME using # NoCall PROVE Using'
    BY <1>1 DEF Using, NoCall, Call, Failure
  <2>3. using.task \in DOMAIN ask /\ goal = Resolved(using.task) /\ task[using.task] = goal
    BY <2>2 DEF HostInv, Using
  <2>4. task'[using.task] = task[using.task]
    BY <1>4, <1>2, <2>3 DEF Documents
  <2> QED BY <1>1, <2>1, <2>2, <2>3, <2>4 DEF HostInv, Using, selectionVars
<1> QED BY <1>5, <1>6, <1>7 DEF HostInv

LEMMA ConflictKeepsHost ==
  ASSUME HostInv, Conflict
  PROVE  HostInv'
<1>1. Using' /\ Choice'
  BY ForgetChooses DEF Conflict
<1>2. Fails(selection'.result)
  BY DEF Conflict, Call, Failure, Fails
<1> QED BY <1>1, <1>2 DEF HostInv, SelectionInv

LEMMA WholeKeeps == WholeInv /\ [Next]_vars => WholeInv'
<1> SUFFICES ASSUME WholeInv, [Next]_vars PROVE WholeInv'
  OBVIOUS
<1> USE DEF WholeInv
<1>1. HighlightsInv'
  BY NextKeeps
<1>2. Documents
  BY DEF HighlightsInv
<1>3. ASSUME NEW n \in DOMAIN ask, Resolve(n) PROVE HostInv' /\ PlanInv'
  BY <1>2, <1>3, ResolveKeepsHost
<1>4. ASSUME NEW n \in DOMAIN ask, NEW m \in DOMAIN bundle, Ready(n), Free, plan = NoCall,
             Step(n, m, Prepare(bundle[m], task[n]))
      PROVE  HostInv' /\ PlanInv'
  <2> DEFINE prepared == Prepare(bundle[m], task[n])
  <2>0. Fails(plan.result)
    BY <1>4, UnplannedFails
  <2>1. CASE AggregateIntelligence(n, m, prepared)
    BY <1>2, <2>0, <2>1, IdleKeepsHost, NoPlanYet DEF AggregateIntelligence
  <2>2. CASE Select(n, m, prepared)
    <3>1. UNCHANGED plan
      BY <2>2 DEF Select
    <3> QED BY <1>4, <2>0, <2>2, <3>1, SelectChooses, NoPlanYet
  <2>3. CASE CreatePlan(n, m, prepared)
    <3>1. HostInv'
      BY <1>2, <2>3, IdleKeepsHost DEF CreatePlan
    <3> QED BY <1>2, <1>4, <2>3, <3>1, CreateKeepsPlan
  <2> QED BY <1>4, <2>1, <2>2, <2>3 DEF Step
<1>5. CASE Conflict
  <2>1. ~Free /\ UNCHANGED plan
    BY <1>5 DEF Conflict
  <2> QED BY <1>1, <1>5, <2>1, ConflictKeepsHost, SelectingKeepsPlan
<1>6. CASE Loop
  <2>1. ~Free /\ UNCHANGED plan
    BY <1>6 DEF Loop, hostVars
  <2> QED BY <1>1, <1>6, <2>1, LoopChooses, SelectingKeepsPlan
<1>7. CASE Finish
  <2>1. ~Free /\ UNCHANGED plan
    BY <1>7 DEF Finish
  <2> QED BY <1>1, <1>7, <2>1, FinishChooses, SelectingKeepsPlan
<1>8. CASE UNCHANGED vars
  <2>1. UNCHANGED <<ask, bundle, task, using, selection, plan, selectionVars>>
    BY <1>8 DEF vars, hostVars
  <2> QED BY <1>1, <1>2, <2>1, IdleKeepsHost, PlanStays, TasksStay
<1> QED BY <1>1, <1>3, <1>4, <1>5, <1>6, <1>7, <1>8 DEF Next

(* What the host said of numbers is in his task; only his maximum duration *)
(* may have been capped.                                                   *)
LEMMA HostLimitsStay ==
  ASSUME ask \in Asks, NEW n \in DOMAIN ask, ~Fails(Resolved(n)),
         NEW x, Field(ask[n].intent.limits, x) # None
  PROVE  /\ x # "maximum_duration" => Field(Resolved(n).limits, x) = ask[n].intent.limits[x]
         /\ x = "maximum_duration" =>
              /\ Field(Resolved(n).limits, x) # None
              /\ Field(Resolved(n).limits, x) \in Nat
              /\ Field(Resolved(n).limits, x) <= ask[n].intent.limits[x]
<1> DEFINE intent == ask[n].intent
           profile == ask[n].profile
           inferred == IF profile = None \/ intent.mode = "directed" THEN Empty ELSE profile.limits
           merged == Merge(intent.limits, inferred)
           longForm == intent.mode = "directed" /\ DOMAIN intent.limits \cap DurationFields # {}
           capped == LeastOf(Or(Field(merged, "maximum_duration"), AbsolutePart), AbsolutePart)
           cap == [y \in {"maximum_duration"} |-> capped]
<1>1. x \in DOMAIN intent.limits /\ intent.limits[x] \in Nat
  BY DocumentsAreValid DEF Field, NumericLimits
<1>2. x \in DOMAIN merged /\ merged[x] = intent.limits[x]
  BY <1>1 DEF Merge
<1>3. Resolved(n).limits = IF longForm THEN merged ELSE Merge(cap, merged)
  BY ResolvedIsTask DEF IsTaskOf, Limits
<1>4. None \notin Nat /\ AbsolutePart \in Nat
  BY ResolutionConstants
<1> HIDE DEF merged, longForm, intent
<1>5. CASE longForm
  BY <1>1, <1>2, <1>3, <1>4, <1>5 DEF Field, intent
<1>6. CASE ~longForm
  <2>1. Resolved(n).limits = Merge(cap, merged)
    BY <1>3, <1>6
  <2>2. CASE x # "maximum_duration"
    BY <1>2, <2>1, <2>2 DEF Merge, Field, intent
  <2>3. CASE x = "maximum_duration"
    <3>1. capped = LeastOf(intent.limits[x], AbsolutePart)
      BY <1>1, <1>2, <1>4, <2>3 DEF Or, Field
    <3>2. Field(Resolved(n).limits, x) = capped
      BY <2>1, <2>3 DEF Merge, Field
    <3>3. capped \in Nat /\ capped <= intent.limits[x]
      BY <1>1, <1>4, <3>1 DEF LeastOf
    <3> HIDE DEF capped
    <3> QED BY <1>4, <2>3, <3>2, <3>3 DEF intent
  <2> QED BY <2>2, <2>3
<1> QED BY <1>5, <1>6

LEMMA ChoiceIsTheHosts == WholeInv => HostDecides
<1> SUFFICES ASSUME WholeInv, selection # NoCall, ~Fails(selection.result)
             PROVE  HostDecides
  BY DEF HostDecides
<1> DEFINE n == selection.task
           t == task[n]
           limits == ask[n].intent.limits
           ids == DOMAIN selection.result.ranks
           p == Prepare(bundle[selection.bundle], t)
           unsatisfied == selection.result.unsatisfied
<1>1. /\ n \in DOMAIN ask /\ t = Resolved(n) /\ ~Fails(t) /\ FollowsHost(ids, p, t)
      /\ TellsTooFew(unsatisfied, ids, t)
  BY DEF WholeInv, HostInv, SelectionInv
<1>2. ask \in Asks /\ IsTaskOf(t, ask[n])
  BY <1>1, ResolvedIsTask DEF WholeInv, HighlightsInv, Documents
<1>3. /\ ask[n].intent.include \subseteq ids /\ ask[n].intent.exclude \cap ids = {}
      /\ t.include = ask[n].intent.include
  BY <1>1, <1>2 DEF FollowsHost, IsTaskOf
<1>4. \A x \in {"target_count", "maximum_count", "minimum_count"} : Field(limits, x) # None =>
        x \in DOMAIN t.limits /\ t.limits[x] = limits[x] /\ Field(t.limits, x) # None
  <2>1. SUFFICES ASSUME NEW x \in {"target_count", "maximum_count", "minimum_count"},
                        Field(limits, x) # None
                 PROVE  x \in DOMAIN t.limits /\ t.limits[x] = limits[x] /\ Field(t.limits, x) # None
    OBVIOUS
  <2>2. Field(t.limits, x) = limits[x]
    BY <1>1, <1>2, <2>1, HostLimitsStay
  <2>3. limits[x] # None
    BY <2>1 DEF Field
  <2> QED BY <2>2, <2>3 DEF Field
<1> HIDE DEF ids, t, p, unsatisfied
<1>5. Field(limits, "target_count") # None =>
        ids = t.include \/ Cardinality(ids) <= limits["target_count"]
  BY <1>1, <1>4 DEF FollowsHost
<1>6. Field(limits, "maximum_count") # None => Cardinality(ids) <= limits["maximum_count"]
  BY <1>1, <1>4 DEF FollowsHost
<1>7. /\ Field(limits, "target_count") # None => Field(limits, "target_count") = limits["target_count"]
      /\ Field(limits, "maximum_count") # None => Field(limits, "maximum_count") = limits["maximum_count"]
  BY DEF Field
<1>8. Field(limits, "minimum_count") # None =>
        (<<"minimum_count", Field(limits, "minimum_count")>> \in unsatisfied
           <=> Cardinality(ids) < Field(limits, "minimum_count"))
  BY <1>1, <1>4 DEF TellsTooFew, Field
<1>9. /\ t.requirements # None =>
           (<<"semantic_required_count", t.requirements.count>> \in unsatisfied
              <=> Cardinality(ids) < t.requirements.count)
      /\ <<"hard_include", None>> \notin unsatisfied
  BY <1>1 DEF TellsTooFew
<1> QED BY <1>3, <1>5, <1>6, <1>7, <1>8, <1>9 DEF HostDecides, Or, ids, t, unsatisfied

LEMMA WhatIsPlanned ==
  ASSUME NEW p, NEW ids, NEW seen, ~Fails(PlanFrom(p, ids, seen))
  PROVE  /\ DOMAIN p.assessed \subseteq seen
         /\ PlanFrom(p, ids, seen).candidates = p.candidates
         /\ PlanFrom(p, ids, seen).selected = {id \in DOMAIN p.assessed : id \in ids}
BY DEF PlanFrom, Fails, Failure

(* A plan of the proposals that were selected from.                        *)
LEMMA PlanOfTheChoice ==
  ASSUME WholeInv, ~Fails(plan.result), plan.bundle = selection.bundle
  PROVE  /\ plan.result.selected = DOMAIN selection.result.ranks
         /\ plan.result.candidates =
              Prepare(bundle[plan.bundle], task[plan.task]).candidates
<1> DEFINE b == bundle[plan.bundle]
           t == task[plan.task]
           u == task[selection.task]
           ids == DOMAIN selection.result.ranks
           seen == DOMAIN selection.result.why
<1>1. /\ ~Fails(selection.result) /\ ~Fails(Prepare(b, t)) /\ plan.bundle \in DOMAIN bundle
      /\ plan.result = PlanFrom(Prepare(b, t), ids, seen)
  BY DEF WholeInv, PlanInv
<1>2. /\ SoundlyPrepared(Prepare(b, u)) /\ seen = DOMAIN Prepare(b, u).assessed
      /\ ids \subseteq DOMAIN Prepare(b, u).assessed
  BY <1>1 DEF WholeInv, HostInv, SelectionInv, FollowsHost
<1>3. ValidProposals(b)
  BY <1>1, DocumentsAreValid DEF WholeInv, HighlightsInv, Documents
<1> DEFINE prepared == Prepare(b, t)
<1>4. DOMAIN prepared.assessed \subseteq seen
  BY <1>1, WhatIsPlanned
<1>5. DOMAIN prepared.assessed = seen
  BY <1>1, <1>2, <1>3, <1>4, PreparationsAgree DEF SoundlyPrepared
<1> HIDE DEF prepared, seen, ids
<1>6. plan.result = PlanFrom(prepared, ids, seen)
  BY <1>1 DEF prepared
<1>7. /\ plan.result.selected = {id \in DOMAIN prepared.assessed : id \in ids}
      /\ plan.result.candidates = prepared.candidates
  BY <1>6, WhatIsPlanned
<1>8. ids \subseteq DOMAIN prepared.assessed
  BY <1>2, <1>5
<1>9. plan.result.selected = ids
  BY <1>7, <1>8
<1> QED BY <1>7, <1>9 DEF prepared, ids

LEMMA LengthsAreTheHosts == WholeInv => PlanHasTheLengthsAsked
<1> SUFFICES ASSUME WholeInv, ~Fails(plan.result), plan.task = selection.task,
                    plan.bundle = selection.bundle,
                    NEW c \in Range(plan.result.candidates), c.id \in plan.result.selected
             PROVE  LET limits == ask[plan.task].intent.limits IN
                    /\ Field(limits, "minimum_duration") # None => Duration(c) >= limits["minimum_duration"]
                    /\ Field(limits, "maximum_duration") # None => Duration(c) <= limits["maximum_duration"]
  BY DEF PlanHasTheLengthsAsked
<1> DEFINE n == plan.task
           t == task[n]
           limits == ask[n].intent.limits
           p == Prepare(bundle[plan.bundle], t)
           ids == DOMAIN selection.result.ranks
<1>1. ~Fails(selection.result) /\ n \in DOMAIN ask /\ t = Resolved(n) /\ ~Fails(t)
  BY DEF WholeInv, PlanInv
<1>2. FollowsHost(ids, p, t)
  BY <1>1 DEF WholeInv, HostInv, SelectionInv
<1>3. c \in Range(p.candidates) /\ c.id \in ids
  BY PlanOfTheChoice
<1>4. WithinDuration(c, t) /\ Duration(c) \in Int
  BY <1>1, <1>2, <1>3 DEF FollowsHost, WholeInv, HostInv, SelectionInv, SoundlyPrepared, Range
<1>5. ask \in Asks
  BY DEF WholeInv, HighlightsInv, Documents
<1> HIDE DEF limits, t
<1>6. ASSUME Field(limits, "minimum_duration") # None
      PROVE  Duration(c) >= limits["minimum_duration"]
  <2>1. Field(t.limits, "minimum_duration") = limits["minimum_duration"]
    BY <1>1, <1>5, <1>6, HostLimitsStay DEF limits
  <2>2. limits["minimum_duration"] # None
    BY <1>6 DEF Field
  <2> QED BY <1>4, <2>1, <2>2 DEF WithinDuration
<1>7. ASSUME Field(limits, "maximum_duration") # None
      PROVE  Duration(c) <= limits["maximum_duration"]
  <2>1. /\ Field(t.limits, "maximum_duration") # None
        /\ Field(t.limits, "maximum_duration") \in Nat
        /\ Field(t.limits, "maximum_duration") <= limits["maximum_duration"]
    BY <1>1, <1>5, <1>7, HostLimitsStay DEF limits
  <2>2. Duration(c) <= Field(t.limits, "maximum_duration")
    BY <1>4, <2>1 DEF WithinDuration
  <2>3. limits["maximum_duration"] \in Nat
    BY <1>1, <1>5, <1>7, DocumentsAreValid DEF limits, Field, NumericLimits
  <2> QED BY <1>4, <2>1, <2>2, <2>3
<1> QED BY <1>6, <1>7 DEF limits

(* What the host says of candidates and numbers decides every selection,   *)
(* and one with fewer than his minimum or than the required count, but no  *)
(* other, says so (resolve_task_profile, select_adaptive).                 *)
THEOREM HostHasHisWay == Spec => []HostDecides
<1> QED BY InitPlans, WholeKeeps, ChoiceIsTheHosts, PTL DEF Spec

(* A plan made of the proposals that were selected from has the candidates *)
(* that were selected, whichever of the host's tasks it was made with:     *)
(* preparation splits all of a bundle or none of it, and ids of parts      *)
(* never are ids of whole candidates (create_adaptive_plan).               *)
THEOREM PlanHasTheChoice == Spec => []PlanKeepsTheChoice
<1>1. WholeInv => PlanKeepsTheChoice
  BY PlanOfTheChoice DEF PlanKeepsTheChoice
<1> QED BY <1>1, InitPlans, WholeKeeps, PTL DEF Spec

(* The clips of a plan have the lengths the host asked for, through        *)
(* profile, cap, splitting and selection (resolve_task_profile,            *)
(* prepare_candidates_for_task, select_adaptive, create_adaptive_plan).    *)
THEOREM PlanHasItsLengths == Spec => []PlanHasTheLengthsAsked
<1> QED BY InitPlans, WholeKeeps, LengthsAreTheHosts, PTL DEF Spec

-----------------------------------------------------------------------------
(* The parts in a plan.                                                    *)

SoundParts(cs, c) ==
  Places(cs, c) # {} =>
    /\ \A k, l \in Places(cs, c) : k < l => cs[k].id[2] < cs[l].id[2]
    /\ FlattenSeq([n \in DOMAIN PartsIn(cs, c) |-> PartsIn(cs, c)[n].cues]) = CuesWithin(c)
    /\ \A n \in DOMAIN PartsIn(cs, c) :
         /\ Duration(PartsIn(cs, c)[n]) <= AbsolutePart
         /\ n + 1 \in DOMAIN PartsIn(cs, c) => Duration(PartsIn(cs, c)[n]) >= MinimumPart
         /\ PartsIn(cs, c)[n].extended <=> Duration(PartsIn(cs, c)[n]) > DefaultPart

(* The parts found in a plan are those that a candidate was split into.    *)
HasTheParts(cs, c, groups, N) ==
  /\ InTurn(cs) /\ DOMAIN cs = 1..Len(cs) /\ Len(cs) \in Nat /\ N \in Nat
  /\ \A k \in Places(cs, c) : \E n \in 1..N : cs[k] = PartOf(c, groups, n)
  /\ \A n \in 1..N : \E k \in 1..Len(cs) : cs[k] = PartOf(c, groups, n)

LEMMA PartsAreFound ==
  ASSUME NEW c, ValidProposal(c), NEW cs, NEW groups, NEW N, HasTheParts(cs, c, groups, N)
  PROVE  /\ \A k, l \in Places(cs, c) : k < l => cs[k].id[2] < cs[l].id[2]
         /\ PartsIn(cs, c) = [n \in 1..N |-> PartOf(c, groups, n)]
<1> DEFINE P == Places(cs, c)
<1> USE DEF HasTheParts
<1>1. \A k \in P : k \in 1..Len(cs) /\ cs[k].id[1] = c.id[1]
  BY DEF Places
<1>2. \A k, l \in P : k < l => cs[k].id[2] < cs[l].id[2]
  BY <1>1 DEF InTurn
<1>3. \A k \in P : cs[k].id[2] \in 1..N /\ cs[k] = PartOf(c, groups, cs[k].id[2])
  <2>1. SUFFICES ASSUME NEW k \in P
                 PROVE  cs[k].id[2] \in 1..N /\ cs[k] = PartOf(c, groups, cs[k].id[2])
    OBVIOUS
  <2>2. PICK n \in 1..N : cs[k] = PartOf(c, groups, n)
    OBVIOUS
  <2>3. cs[k].id = <<c.id[1], n>>
    BY <2>2, PartHas
  <2>4. cs[k].id[2] = n
    BY <2>3
  <2> QED BY <2>2, <2>4
<1>4. \A n \in 1..N : \E k \in P : cs[k].id[2] = n
  <2>1. SUFFICES ASSUME NEW n \in 1..N PROVE \E k \in P : cs[k].id[2] = n
    OBVIOUS
  <2>2. PICK k \in 1..Len(cs) : cs[k] = PartOf(c, groups, n)
    OBVIOUS
  <2>3. cs[k].id = <<c.id[1], n>>
    BY <2>2, PartHas
  <2>4. cs[k].id[2] = n /\ cs[k].id[1] = c.id[1] /\ Len(cs[k].id) = 2
    BY <2>3
  <2> QED BY <2>4 DEF Places
<1>5. {cs[k].id[2] : k \in P} = 1..N
  BY <1>3, <1>4
<1>6. ASSUME NEW n \in 1..N
      PROVE  cs[CHOOSE k \in P : cs[k].id[2] = n] = PartOf(c, groups, n)
  BY <1>3, <1>4
<1>7. PartsIn(cs, c) = [n \in {cs[k].id[2] : k \in P} |-> cs[CHOOSE k \in P : cs[k].id[2] = n]]
  BY DEF PartsIn
<1>8. PartsIn(cs, c) = [n \in 1..N |-> cs[CHOOSE k \in P : cs[k].id[2] = n]]
  BY <1>5, <1>7
<1> HIDE DEF P
<1>9. [n \in 1..N |-> cs[CHOOSE k \in P : cs[k].id[2] = n]] = [n \in 1..N |-> PartOf(c, groups, n)]
  BY <1>6
<1> QED BY <1>2, <1>8, <1>9 DEF P

LEMMA SplitPartsAreSound ==
  ASSUME NEW b, ValidProposals(b), NEW m \in DOMAIN b.candidates,
         ~Unsplittable(b.candidates[m])
  PROVE  SoundParts(FlattenSeq(Splits(b)), b.candidates[m])
<1> DEFINE c == b.candidates[m]
           seqs == Splits(b)
           cs == FlattenSeq(seqs)
           cues == CuesWithin(c)
           groups == CueGroups(cues)
           N == Len(groups)
<1>1. m \in 1..Len(b.candidates) /\ b.candidates # <<>> /\ DOMAIN b.candidates = 1..Len(b.candidates)
  BY EachIsSplit
<1>2. FlatUpTo(seqs, AllParts(b), cs, Len(b.candidates))
  BY <1>1, SplitsFlatten
<1>3. ValidProposal(c) /\ seqs[m] = SplitCandidate(c)
  BY DEF ValidProposals, Splits, Range
<1>4. \A k \in Places(cs, c) : \E j \in 1..Len(seqs[m]) : cs[k] = seqs[m][j]
  <2>1. SUFFICES ASSUME NEW k \in Places(cs, c)
                 PROVE  \E j \in 1..Len(seqs[m]) : cs[k] = seqs[m][j]
    OBVIOUS
  <2>2. k \in 1..Len(cs) /\ cs[k].id[1] = c.id[1]
    BY PartsInTurn DEF Places
  <2>3. PICK n \in 1..Len(b.candidates) : \E j \in 1..Len(seqs[n]) : cs[k] = seqs[n][j]
    BY <1>2, <2>2 DEF FlatUpTo, From
  <2>4. PICK j \in 1..Len(seqs[n]) : cs[k] = seqs[n][j]
    BY <2>3
  <2>5. b.candidates[n].id[1] = c.id[1]
    <3>1. IsSplitOf(seqs[n], b.candidates[n])
      BY <1>1, EachIsSplit
    <3>2. seqs[n][j].id[1] = b.candidates[n].id[1]
      BY <3>1 DEF IsSplitOf
    <3> QED BY <2>2, <2>4, <3>2
  <2>6. n = m
    BY <1>1, <2>5, SplitsDiffer
  <2> QED BY <2>4, <2>6
<1>5. CASE seqs[m] = <<c>>
  <2>1. ASSUME NEW k \in Places(cs, c) PROVE FALSE
    <3>1. cs[k] = c /\ Len(cs[k].id) = 2
      BY <1>4, <1>5 DEF Places
    <3>2. c.id = <<c.id[1]>>
      BY <1>3 DEF ValidProposal
    <3> QED BY <3>1, <3>2
  <2> QED BY <2>1 DEF SoundParts
<1>6. CASE seqs[m] # <<c>>
  <2>1. seqs[m] = PartsOf(c, groups) /\ ~(Duration(c) <= AbsolutePart)
    BY <1>3, <1>6 DEF SplitCandidate
  <2>2. GroupsOf(TimedCues(c), groups, cues, Len(cues)) /\ cues \in Seq(TimedCues(c))
    BY <1>3, CuesHaveTimes
  <2>3. ~(\E g \in Range(groups) : SpanOf(g) > AbsolutePart)
    <3>1. Duration(c) \in Int /\ AbsolutePart \in Nat
      BY <1>3, ResolutionConstants DEF ValidProposal, Timed, Duration
    <3>2. Duration(c) > AbsolutePart
      BY <2>1, <3>1
    <3> QED BY <3>2 DEF Unsplittable
  <2> HIDE DEF cues, groups
  <2>4. N \in Nat /\ DOMAIN groups = 1..N /\ \A n \in 1..N : groups[n] \in NonEmpty(TimedCues(c))
    BY <2>2 DEF GroupsOf
  <2>5. seqs[m] = [n \in 1..N |-> PartOf(c, groups, n)]
    BY <2>1, <2>4 DEF PartsOf
  <2>6. Len(seqs[m]) = N
    BY <2>4, <2>5
  <2>9. InTurn(cs) /\ DOMAIN cs = 1..Len(cs) /\ Len(cs) \in Nat
    BY PartsInTurn
  <2> HIDE DEF N, seqs, c, cs
  <2>7. ASSUME NEW n \in 1..N PROVE \E k \in 1..Len(cs) : cs[k] = PartOf(c, groups, n)
    <3>1. PICK k \in 1..Len(cs) : cs[k] = seqs[m][n]
      BY <1>1, <1>2, <2>6 DEF FlatUpTo, Into
    <3> QED BY <2>5, <3>1
  <2>8. \A k \in Places(cs, c) : \E n \in 1..N : cs[k] = PartOf(c, groups, n)
    BY <1>4, <2>5, <2>6
  <2>10. /\ \A k, l \in Places(cs, c) : k < l => cs[k].id[2] < cs[l].id[2]
         /\ PartsIn(cs, c) = [n \in 1..N |-> PartOf(c, groups, n)]
    <3>1. HasTheParts(cs, c, groups, N)
      BY <2>4, <2>7, <2>8, <2>9 DEF HasTheParts
    <3>2. ValidProposal(c)
      BY <1>3
    <3> QED BY <3>1, <3>2, PartsAreFound
  <2> DEFINE parts == PartsIn(cs, c)
  <2>11. DOMAIN parts = 1..N /\ \A n \in 1..N : parts[n] = PartOf(c, groups, n)
    BY <2>10
  <2> HIDE DEF parts
  <2>12. \A n \in 1..N : /\ parts[n].cues = groups[n]
                         /\ parts[n].extended = (SpanOf(groups[n]) > DefaultPart)
                         /\ Duration(parts[n]) = SpanOf(groups[n])
    BY <1>3, <2>11, PartHas
  <2>13. FlattenSeq([n \in DOMAIN parts |-> parts[n].cues]) = cues
    <3>1. [n \in DOMAIN parts |-> parts[n].cues] = [n \in 1..N |-> groups[n]]
      BY <2>11, <2>12
    <3>2. groups = [n \in 1..N |-> groups[n]]
      <4>1. groups \in Seq(NonEmpty(TimedCues(c))) /\ N = Len(groups)
        BY <2>2 DEF GroupsOf, N
      <4> QED BY <4>1
    <3>3. FlattenSeq(groups) = cues
      BY <2>2, SubSeqFull DEF GroupsOf
    <3> QED BY <3>1, <3>2, <3>3
  <2>14. ASSUME NEW n \in DOMAIN parts
         PROVE  /\ Duration(parts[n]) <= AbsolutePart
                /\ n + 1 \in DOMAIN parts => Duration(parts[n]) >= MinimumPart
                /\ parts[n].extended <=> Duration(parts[n]) > DefaultPart
    <3>1. n \in 1..N
      BY <2>11
    <3>2. SpanOf(groups[n]) \in Int /\ groups[n] \in Range(groups)
      BY <2>4, <3>1, GroupHasSpan DEF Range
    <3>3. SpanOf(groups[n]) <= AbsolutePart
      BY <2>3, <3>2, ResolutionConstants
    <3>4. n + 1 \in DOMAIN parts => SpanOf(groups[n]) >= MinimumPart
      BY <2>2, <2>4, <2>11, <3>1 DEF GroupsOf, N
    <3>5. parts[n].extended = (SpanOf(groups[n]) > DefaultPart) /\ Duration(parts[n]) = SpanOf(groups[n])
      BY <2>12, <3>1
    <3> QED BY <3>3, <3>4, <3>5
  <2> QED BY <2>10, <2>13, <2>14 DEF SoundParts, parts, cues, cs, c, seqs
<1> QED BY <1>5, <1>6

LEMMA PreparedParts ==
  ASSUME NEW b, NEW parts
  PROVE  PreparedWith(b, parts).candidates = parts
BY DEF PreparedWith

LEMMA WholeHasNoParts ==
  ASSUME NEW b, ValidProposals(b), NEW c
  PROVE  SoundParts(b.candidates, c)
<1>1. ASSUME NEW k \in Places(b.candidates, c) PROVE FALSE
  <2>1. k \in DOMAIN b.candidates /\ Len(b.candidates[k].id) = 2
    BY DEF Places
  <2>2. b.candidates[k].id = <<b.candidates[k].id[1]>>
    BY <2>1 DEF ValidProposals, ValidProposal, Range
  <2> QED BY <2>1, <2>2
<1> QED BY <1>1 DEF SoundParts

LEMMA PlanHasSoundParts == WholeInv => PartsAreSound
<1> SUFFICES ASSUME WholeInv, ~Fails(plan.result),
                    NEW c \in Range(bundle[plan.bundle].candidates)
             PROVE  SoundParts(plan.result.candidates, c)
  BY DEF PartsAreSound, SoundParts
<1> DEFINE b == bundle[plan.bundle]
           t == task[plan.task]
           p == Prepare(b, t)
<1>1. /\ plan.bundle \in DOMAIN bundle /\ ~Fails(p)
      /\ plan.result = PlanFrom(p, DOMAIN selection.result.ranks, DOMAIN selection.result.why)
  BY DEF WholeInv, PlanInv
<1>2. ValidProposals(b)
  BY <1>1, DocumentsAreValid DEF WholeInv, HighlightsInv, Documents
<1>3. plan.result.candidates = p.candidates
  BY <1>1, WhatIsPlanned
<1>4. PICK m \in DOMAIN b.candidates : c = b.candidates[m]
  BY DEF Range
<1>5. CASE AllowsExplicitLongForm(t)
  <2>1. p = b
    BY <1>5 DEF Prepare
  <2> QED BY <1>2, <1>3, <2>1, WholeHasNoParts
<1>6. CASE ~AllowsExplicitLongForm(t)
  <2>1. ~(\E d \in Range(b.candidates) : Unsplittable(d))
    BY <1>1, <1>6 DEF Prepare, Fails, Failure
  <2>2. p = PreparedWith(b, FlattenSeq(Splits(b)))
    BY <1>6, <2>1 DEF Prepare, Splits
  <2>3. p.candidates = FlattenSeq(Splits(b))
    BY <2>2, PreparedParts
  <2>4. ~Unsplittable(c)
    BY <2>1
  <2> QED BY <1>2, <1>3, <1>4, <2>3, <2>4, SplitPartsAreSound
<1> QED BY <1>5, <1>6

(* However long the candidates and however many their cues, the parts of a *)
(* plan have every cue of theirs once, in order, and have the lengths of   *)
(* parts (split_candidate, _cue_groups, prepare_candidates_for_task,       *)
(* create_adaptive_plan).                                                  *)
THEOREM PlanHasAllCues == Spec => []PartsAreSound
<1> QED BY InitPlans, WholeKeeps, PlanHasSoundParts, PTL DEF Spec
===============================================================================
