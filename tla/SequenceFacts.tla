----------------------------- MODULE SequenceFacts -----------------------------
(***************************************************************************)
(* Induction over the naturals, and what it says of sequences: of their    *)
(* concatenations, of the elements at some places, of sums, of sorting.    *)
(***************************************************************************)
EXTENDS SequenceTools, SequencesExt, WellFoundedInduction, SequenceTheorems, FiniteSetTheorems,
        TLAPS

-----------------------------------------------------------------------------
(* Induction over the naturals as a statement about sets.                  *)

Less == {p \in Nat \X Nat : p[1] < p[2]}

LEMMA LessIsWellFounded == IsWellFoundedOn(Less, Nat)
BY NatLessThanWellFounded DEF OpToRel, Less

LEMMA HasLeast ==
  ASSUME NEW S \in SUBSET Nat, S # {}
  PROVE  \E n \in S : \A m \in S : n <= m
<1>1. \E x \in S : \A y \in S : ~(<<y, x>> \in Less)
  BY LessIsWellFounded, WFMin
<1>2. PICK x \in S : \A y \in S : ~(<<y, x>> \in Less)
  BY <1>1
<1>3. ASSUME NEW y \in S PROVE x <= y
  <2>1. <<y, x>> \in Less <=> y < x
    BY DEF Less
  <2>2. ~(<<y, x>> \in Less)
    BY <1>2
  <2> QED BY <2>1, <2>2
<1> QED BY <1>3

LEMMA Induct ==
  ASSUME NEW S \in SUBSET Nat, 0 \in S, \A n \in S : n + 1 \in S
  PROVE  S = Nat
<1> SUFFICES ASSUME Nat \ S # {} PROVE FALSE
  OBVIOUS
<1>1. PICK n \in Nat \ S : \A m \in Nat \ S : n <= m
  BY HasLeast
<1>2. n - 1 \in S
  BY <1>1
<1> QED BY <1>1, <1>2

-----------------------------------------------------------------------------
(* Concatenations of sequences.                                            *)

Flat(seqs, f, n) ==
  f = [k \in 1..n |-> IF k = 1 THEN seqs[k] ELSE f[k - 1] \o seqs[k]]

LEMMA FlatExists ==
  ASSUME NEW seqs, NEW n \in Nat
  PROVE  \E f : Flat(seqs, f, n)
<1> DEFINE S == {m \in Nat : \E f : Flat(seqs, f, m)}
<1>1. 0 \in S
  <2>1. Flat(seqs, [k \in 1..0 |-> <<>>], 0)
    BY DEF Flat
  <2> QED BY <2>1
<1>2. ASSUME NEW m \in S PROVE m + 1 \in S
  <2>1. PICK f : Flat(seqs, f, m)
    OBVIOUS
  <2> DEFINE last == IF m = 0 THEN seqs[m + 1] ELSE f[m] \o seqs[m + 1]
             h == [k \in 1..(m + 1) |-> IF k = m + 1 THEN last ELSE f[k]]
  <2>2. \A k \in 1..m : f[k] = IF k = 1 THEN seqs[k] ELSE f[k - 1] \o seqs[k]
    BY <2>1 DEF Flat
  <2>3. \A k \in 1..(m + 1) : h[k] = IF k = 1 THEN seqs[k] ELSE h[k - 1] \o seqs[k]
    BY <2>2
  <2>4. h = [k \in 1..(m + 1) |-> IF k = 1 THEN seqs[k] ELSE h[k - 1] \o seqs[k]]
    BY <2>3
  <2> HIDE DEF h
  <2>5. Flat(seqs, h, m + 1)
    BY <2>4 DEF Flat
  <2> QED BY <2>5
<1> HIDE DEF S
<1>3. S = Nat
  <2>1. S \in SUBSET Nat
    BY DEF S
  <2> QED BY <1>1, <1>2, <2>1, Induct
<1> QED BY <1>3 DEF S

(* An element of the result is one of one of the sequences; its place says *)
(* which, if they have no id in common.                                    *)
From(seqs, x, n) == \E m \in 1..n : \E k \in 1..Len(seqs[m]) : x = seqs[m][k]
IdsDiffer(s) == \A k, l \in 1..Len(s) : s[k].id = s[l].id => k = l
InTurn(s) == \A k, l \in 1..Len(s) : s[k].id[1] = s[l].id[1] =>
               (k < l => s[k].id[2] < s[l].id[2]) /\ (s[k].id = s[l].id => k = l)
Apart(s, t) == \A k \in 1..Len(s), l \in 1..Len(t) : s[k].id[1] # t[l].id[1]
Into(seqs, s, n) == \A m \in 1..n : \A k \in 1..Len(seqs[m]) :
                      \E j \in 1..Len(s) : s[j] = seqs[m][k]
FlatUpTo(seqs, U, s, n) ==
  /\ s \in Seq(U) /\ (\A k \in 1..Len(s) : From(seqs, s[k], n)) /\ Into(seqs, s, n)
  /\ (\A m \in 1..n : InTurn(seqs[m]) /\ \A l \in 1..n : m # l => Apart(seqs[m], seqs[l]))
     => InTurn(s)

LEMMA FlattenIsOf ==
  ASSUME NEW U, NEW seqs \in Seq(Seq(U)), Len(seqs) # 0
  PROVE  FlatUpTo(seqs, U, FlattenSeq(seqs), Len(seqs))
<1> DEFINE N == Len(seqs)
           f == CHOOSE f : Flat(seqs, f, N)
           S == {n \in Nat : n + 1 <= N => FlatUpTo(seqs, U, f[n + 1], n + 1)}
<1>1. N \in Nat \ {0} /\ \A n \in 1..N : seqs[n] \in Seq(U)
  OBVIOUS
<1>2. FlattenSeq(seqs) = f[N]
  BY <1>1 DEF FlattenSeq, Flat
<1> HIDE DEF f
<1>3. \A k \in 1..N : f[k] = IF k = 1 THEN seqs[k] ELSE f[k - 1] \o seqs[k]
  <2>1. Flat(seqs, f, N)
    BY <1>1, FlatExists DEF f
  <2> QED BY <2>1 DEF Flat
<1>4. 0 \in S
  <2>1. f[1] = seqs[1]
    BY <1>1, <1>3
  <2>2. FlatUpTo(seqs, U, seqs[1], 1)
    BY <1>1 DEF FlatUpTo, From, Into
  <2> QED BY <2>1, <2>2
<1>5. ASSUME NEW n \in S PROVE n + 1 \in S
  <2> SUFFICES ASSUME n + 2 <= N PROVE FlatUpTo(seqs, U, f[n + 2], n + 2)
    OBVIOUS
  <2> DEFINE s == f[n + 1]
             t == seqs[n + 2]
  <2>1. n \in Nat /\ FlatUpTo(seqs, U, s, n + 1)
    BY <1>1
  <2>2. f[n + 2] = s \o t
    <3>1. n + 2 \in 1..N /\ n + 2 # 1 /\ n + 2 - 1 = n + 1
      BY <1>1, <2>1
    <3>2. PICK k \in 1..N : k = n + 2
      BY <3>1
    <3>3. f[k] = f[k - 1] \o seqs[k]
      BY <1>3, <3>1, <3>2
    <3>4. k - 1 = n + 1
      BY <3>1, <3>2
    <3> QED BY <3>2, <3>3, <3>4
  <2>3. s \in Seq(U) /\ t \in Seq(U)
    BY <1>1, <2>1 DEF FlatUpTo
  <2>0. t = seqs[n + 2]
    OBVIOUS
  <2> HIDE DEF s, t
  <2>4. /\ s \o t \in Seq(U) /\ Len(s \o t) = Len(s) + Len(t)
        /\ \A k \in 1..Len(s) : (s \o t)[k] = s[k]
        /\ \A k \in (Len(s) + 1)..(Len(s) + Len(t)) : (s \o t)[k] = t[k - Len(s)]
    BY <2>3, ConcatProperties
  <2>5. Len(s) \in Nat /\ Len(t) \in Nat
    BY <2>3
  <2>6. ASSUME NEW k \in 1..Len(s \o t) PROVE From(seqs, (s \o t)[k], n + 2)
    <3>1. CASE k <= Len(s)
      <4>1. (s \o t)[k] = s[k] /\ From(seqs, s[k], n + 1)
        BY <2>1, <2>4, <2>5, <3>1 DEF FlatUpTo
      <4>2. \A m \in 1..(n + 1) : m \in 1..(n + 2)
        BY <2>1
      <4> QED BY <4>1, <4>2, Zenon DEF From
    <3>2. CASE k > Len(s)
      <4>1. (s \o t)[k] = t[k - Len(s)] /\ k - Len(s) \in 1..Len(t)
        BY <2>4, <2>5, <3>2
      <4>2. n + 2 \in 1..(n + 2)
        BY <2>1
      <4>3. \E j \in 1..Len(seqs[n + 2]) : (s \o t)[k] = seqs[n + 2][j]
        BY <2>0, <4>1
      <4> QED BY <4>2, <4>3, Zenon DEF From
    <3> QED BY <2>4, <2>5, <3>1, <3>2
  <2>7. ASSUME \A m \in 1..(n + 2) : /\ InTurn(seqs[m])
                                     /\ \A l \in 1..(n + 2) : m # l => Apart(seqs[m], seqs[l])
        PROVE  InTurn(s \o t)
    <3>1. InTurn(s) /\ InTurn(t)
      <4>1. n + 2 \in 1..(n + 2) /\ \A m \in 1..(n + 1) : m \in 1..(n + 2)
        BY <2>1
      <4>2. \A m \in 1..(n + 1) : /\ InTurn(seqs[m])
                                 /\ \A l \in 1..(n + 1) : m # l => Apart(seqs[m], seqs[l])
        BY <2>7, <4>1, Zenon
      <4>3. InTurn(t)
        BY <2>0, <2>7, <4>1, Zenon
      <4> QED BY <2>1, <4>2, <4>3, Zenon DEF FlatUpTo
    <3>2. ASSUME NEW k \in 1..Len(s), NEW l \in 1..Len(t) PROVE s[k].id[1] # t[l].id[1]
      <4>1. PICK m \in 1..(n + 1) : \E j \in 1..Len(seqs[m]) : s[k] = seqs[m][j]
        BY <2>1 DEF FlatUpTo, From
      <4>2. PICK j \in 1..Len(seqs[m]) : s[k] = seqs[m][j]
        BY <4>1
      <4>3. Apart(seqs[m], t)
        BY <2>0, <2>1, <2>7
      <4> QED BY <4>2, <4>3 DEF Apart
    <3>3. SUFFICES ASSUME NEW k \in 1..Len(s \o t), NEW l \in 1..Len(s \o t),
                          (s \o t)[k].id[1] = (s \o t)[l].id[1]
                   PROVE  /\ k < l => (s \o t)[k].id[2] < (s \o t)[l].id[2]
                          /\ (s \o t)[k].id = (s \o t)[l].id => k = l
      BY DEF InTurn
    <3>4. k \in Nat /\ l \in Nat /\ k <= Len(s) + Len(t) /\ l <= Len(s) + Len(t)
          /\ k >= 1 /\ l >= 1
      BY <2>4, <2>5
    <3>5. CASE k <= Len(s) /\ l <= Len(s)
      <4>1. k \in 1..Len(s) /\ l \in 1..Len(s) /\ (s \o t)[k] = s[k] /\ (s \o t)[l] = s[l]
        BY <2>4, <2>5, <3>4, <3>5
      <4>2. s[k].id[1] = s[l].id[1]
        BY <3>3, <4>1
      <4>3. (k < l => s[k].id[2] < s[l].id[2]) /\ (s[k].id = s[l].id => k = l)
        BY <3>1, <4>1, <4>2 DEF InTurn
      <4> QED BY <4>1, <4>3, Zenon
    <3>6. CASE k <= Len(s) /\ l > Len(s)
      <4>1. k \in 1..Len(s) /\ l - Len(s) \in 1..Len(t)
        BY <2>5, <3>4, <3>6
      <4>2. (s \o t)[k] = s[k] /\ (s \o t)[l] = t[l - Len(s)]
        BY <2>4, <2>5, <3>4, <3>6
      <4> QED BY <3>2, <3>3, <4>1, <4>2
    <3>7. CASE k > Len(s) /\ l <= Len(s)
      <4>1. k - Len(s) \in 1..Len(t) /\ l \in 1..Len(s)
        BY <2>5, <3>4, <3>7
      <4>2. (s \o t)[k] = t[k - Len(s)] /\ (s \o t)[l] = s[l]
        BY <2>4, <2>5, <3>4, <3>7
      <4> QED BY <3>2, <3>3, <4>1, <4>2
    <3>8. CASE k > Len(s) /\ l > Len(s)
      <4>1. k - Len(s) \in 1..Len(t) /\ l - Len(s) \in 1..Len(t)
        BY <2>5, <3>4, <3>8
      <4>2. (s \o t)[k] = t[k - Len(s)] /\ (s \o t)[l] = t[l - Len(s)]
        BY <2>4, <2>5, <3>4, <3>8
      <4>3. /\ k - Len(s) < l - Len(s) => t[k - Len(s)].id[2] < t[l - Len(s)].id[2]
            /\ t[k - Len(s)].id = t[l - Len(s)].id => k - Len(s) = l - Len(s)
        BY <3>1, <3>3, <4>1, <4>2 DEF InTurn
      <4> QED BY <2>5, <3>4, <4>2, <4>3
    <3> QED BY <2>5, <3>4, <3>5, <3>6, <3>7, <3>8
  <2>8. ASSUME NEW m \in 1..(n + 2), NEW k \in 1..Len(seqs[m])
        PROVE  \E j \in 1..Len(s \o t) : (s \o t)[j] = seqs[m][k]
    <3>1. CASE m = n + 2
      <4>1. Len(s) + k \in 1..Len(s \o t) /\ (s \o t)[Len(s) + k] = t[Len(s) + k - Len(s)]
        BY <2>0, <2>4, <2>5, <2>8, <3>1
      <4>2. Len(s) + k - Len(s) = k
        BY <2>5
      <4> QED BY <2>0, <3>1, <4>1, <4>2
    <3>2. CASE m # n + 2
      <4>1. m \in 1..(n + 1)
        BY <2>1, <3>2
      <4>2. PICK j \in 1..Len(s) : s[j] = seqs[m][k]
        BY <2>1, <4>1 DEF FlatUpTo, Into
      <4>3. j \in 1..Len(s \o t) /\ (s \o t)[j] = s[j]
        BY <2>4, <2>5
      <4> QED BY <4>2, <4>3
    <3> QED BY <3>1, <3>2
  <2>9. Into(seqs, s \o t, n + 2)
    BY <2>8 DEF Into
  <2> QED BY <2>2, <2>4, <2>6, <2>7, <2>9 DEF FlatUpTo
<1> HIDE DEF S
<1>6. S = Nat
  <2>1. S \in SUBSET Nat
    BY DEF S
  <2> QED BY <1>4, <1>5, <2>1, Induct
<1>7. N - 1 \in S
  BY <1>1, <1>6
<1>8. FlatUpTo(seqs, U, f[N - 1 + 1], N - 1 + 1)
  BY <1>1, <1>7 DEF S
<1>9. N - 1 + 1 = N
  BY <1>1
<1> QED BY <1>2, <1>8, <1>9

LEMMA FlattenIs ==
  ASSUME NEW seqs, Len(seqs) # 0
  PROVE  FlattenSeq(seqs) = (CHOOSE f : Flat(seqs, f, Len(seqs)))[Len(seqs)]
BY DEF FlattenSeq, Flat

(* One more sequence at the end.                                           *)
LEMMA FlattenAppend ==
  ASSUME NEW C, NEW s \in Seq(Seq(C)), NEW x \in Seq(C)
  PROVE  FlattenSeq(Append(s, x)) = FlattenSeq(s) \o x /\ FlattenSeq(s) \in Seq(C)
<1> DEFINE t == Append(s, x)
           N == Len(s)
           f == CHOOSE f : Flat(s, f, N)
           h == CHOOSE h : Flat(t, h, N + 1)
           S == {n \in Nat : n + 1 <= N => h[n + 1] = f[n + 1]}
<1>1. N \in Nat /\ Len(t) = N + 1 /\ t[N + 1] = x /\ \A k \in 1..N : t[k] = s[k]
  BY AppendProperties
<1> HIDE DEF t
<1>2. FlattenSeq(t) = h[N + 1]
  <2>1. Len(t) # 0
    BY <1>1
  <2>2. FlattenSeq(t) = (CHOOSE g : Flat(t, g, Len(t)))[Len(t)]
    BY <2>1, FlattenIs
  <2> QED BY <1>1, <2>2
<1>3. N # 0 => FlattenSeq(s) = f[N]
  BY FlattenIs
<1>4. Flat(s, f, N)
  BY <1>1, FlatExists
<1>5. Flat(t, h, N + 1)
  BY <1>1, FlatExists
<1> HIDE DEF f, h
<1>6. \A k \in 1..N : f[k] = IF k = 1 THEN s[k] ELSE f[k - 1] \o s[k]
  BY <1>4 DEF Flat
<1>7. \A k \in 1..(N + 1) : h[k] = IF k = 1 THEN t[k] ELSE h[k - 1] \o t[k]
  BY <1>5 DEF Flat
<1> HIDE DEF N
<1>8. 0 \in S
  BY <1>1, <1>6, <1>7
<1>9. ASSUME NEW n \in S PROVE n + 1 \in S
  <2> SUFFICES ASSUME n + 2 <= N PROVE h[n + 2] = f[n + 2]
    OBVIOUS
  <2>1. PICK k \in 1..N : k = n + 2
    BY <1>1
  <2>2. k # 1 /\ k \in 1..(N + 1) /\ k - 1 = n + 1 /\ n + 1 <= N
    BY <1>1, <2>1
  <2>3. h[k] = h[k - 1] \o t[k] /\ f[k] = f[k - 1] \o s[k]
    BY <1>6, <1>7, <2>2
  <2>4. h[k - 1] = f[k - 1] /\ t[k] = s[k]
    BY <1>1, <2>2
  <2> QED BY <2>1, <2>3, <2>4
<1> HIDE DEF S
<1>10. S = Nat
  <2>1. S \in SUBSET Nat
    BY DEF S
  <2> QED BY <1>8, <1>9, <2>1, Induct
<1>11. CASE N = 0
  <2>1. s = <<>> /\ FlattenSeq(s) = <<>>
    BY <1>11 DEF FlattenSeq, N
  <2>2. 1 \in 1..(N + 1) /\ N + 1 = 1
    BY <1>11
  <2>3. h[N + 1] = x
    BY <1>1, <1>7, <2>2
  <2>4. <<>> \o x = x /\ <<>> \in Seq(C)
    BY ConcatEmptySeq
  <2> QED BY <1>2, <2>1, <2>3, <2>4 DEF t
<1>12. CASE N # 0
  <2>1. N - 1 \in S /\ N - 1 + 1 = N
    BY <1>1, <1>10, <1>12
  <2>2. h[N - 1 + 1] = f[N - 1 + 1]
    BY <2>1 DEF S
  <2>3. PICK k \in 1..(N + 1) : k = N + 1
    BY <1>1
  <2>4. k # 1 /\ k - 1 = N
    BY <1>1, <1>12, <2>3
  <2>5. h[k] = h[k - 1] \o t[k]
    BY <1>7, <2>4
  <2>6. FlattenSeq(t) = FlattenSeq(s) \o x
    BY <1>1, <1>2, <1>3, <1>12, <2>1, <2>2, <2>3, <2>4, <2>5
  <2>7. FlattenSeq(s) \in Seq(C)
    BY <1>12, FlattenIsOf DEF FlatUpTo, N
  <2> QED BY <2>6, <2>7 DEF t
<1> QED BY <1>11, <1>12

(* First and last elements.                                                *)

LEMMA FirstOnes ==
  ASSUME NEW S, NEW s \in Seq(S), NEW n \in 0..Len(s)
  PROVE  /\ SubSeq(s, 1, n) \in Seq(S) /\ Len(SubSeq(s, 1, n)) = n
         /\ \A k \in 1..n : SubSeq(s, 1, n)[k] = s[k]
<1>1. n \in Nat /\ \A k \in 1..n : s[k] \in S
  OBVIOUS
<1>2. /\ SubSeq(s, 1, n) \in Seq(S)
      /\ Len(SubSeq(s, 1, n)) = IF 1 <= n THEN n - 1 + 1 ELSE 0
      /\ \A k \in 1..(n - 1 + 1) : SubSeq(s, 1, n)[k] = s[1 + k - 1]
  BY <1>1, SubSeqProperties
<1> DEFINE t == SubSeq(s, 1, n)
<1>3. t \in Seq(S) /\ Len(t) = (IF 1 <= n THEN n - 1 + 1 ELSE 0)
      /\ \A k \in 1..(n - 1 + 1) : t[k] = s[1 + k - 1]
  BY <1>2
<1> HIDE DEF t
<1>4. Len(t) = n
  BY <1>1, <1>3
<1>5. ASSUME NEW k \in 1..n PROVE t[k] = s[k]
  <2>1. k \in 1..(n - 1 + 1) /\ 1 + k - 1 = k
    BY <1>1
  <2> QED BY <1>3, <2>1
<1> QED BY <1>3, <1>4, <1>5 DEF t

(* A sequence that is not empty is its last element after its front.       *)
LEMMA FrontAndLast ==
  ASSUME NEW S, NEW s \in Seq(S), s # <<>>
  PROVE  /\ Len(s) \in Nat \ {0} /\ s[Len(s)] \in S
         /\ Front(s) \in Seq(S) /\ Len(Front(s)) = Len(s) - 1
         /\ \A k \in 1..(Len(s) - 1) : Front(s)[k] = s[k]
         /\ s = Append(Front(s), s[Len(s)])
<1> DEFINE n == Len(s)
<1>1. n \in Nat \ {0} /\ \A k \in 1..n : s[k] \in S
  OBVIOUS
<1>2. n - 1 \in 0..n
  BY <1>1
<1>5. /\ Front(s) \in Seq(S) /\ Len(Front(s)) = n - 1
      /\ \A k \in 1..(n - 1) : Front(s)[k] = s[k]
  BY <1>2, FirstOnes DEF Front
<1> HIDE DEF n
<1> DEFINE t == Append(Front(s), s[n])
<1>6. /\ t \in Seq(S) /\ Len(t) = n - 1 + 1 /\ t[n - 1 + 1] = s[n]
      /\ \A k \in 1..(n - 1) : t[k] = Front(s)[k]
  BY <1>1, <1>5, AppendProperties
<1> HIDE DEF t
<1>7. s = t
  <2>1. Len(t) = n /\ t[n] = s[n]
    BY <1>1, <1>6
  <2>2. \A k \in 1..n : s[k] = t[k]
    BY <1>1, <1>5, <1>6, <2>1
  <2> QED BY <1>6, <2>1, <2>2, SeqEqual DEF n
<1> QED BY <1>1, <1>5, <1>7 DEF n, t

LEMMA AppendedRange ==
  ASSUME NEW S, NEW s \in Seq(S), NEW x
  PROVE  Range(Append(s, x)) = Range(s) \cup {x}
<1>1. s \in Seq(S \cup {x}) /\ Len(s) \in Nat /\ DOMAIN s = 1..Len(s)
  OBVIOUS
<1>2. /\ Len(Append(s, x)) = Len(s) + 1 /\ DOMAIN Append(s, x) = 1..(Len(s) + 1)
      /\ \A k \in 1..Len(s) : Append(s, x)[k] = s[k]
      /\ Append(s, x)[Len(s) + 1] = x
  BY <1>1
<1> QED BY <1>1, <1>2 DEF Range

-----------------------------------------------------------------------------
(* What is computed element by element: a recursive function exists, as    *)
(* every step stays in a set D.                                            *)
Steps(f, D, e, step, n) ==
  f \in [0..n -> D] /\ f[0] = e /\ \A k \in 1..n : f[k] = step[<<f[k - 1], k>>]

LEMMA StepsExist ==
  ASSUME NEW D, NEW e \in D, NEW N \in Nat, NEW step \in [D \X (1..N) -> D]
  PROVE  \E f : Steps(f, D, e, step, N)
<1> DEFINE S == {n \in Nat : n <= N => \E f : Steps(f, D, e, step, n)}
<1>1. 0 \in S
  <2>1. Steps([k \in 0..0 |-> e], D, e, step, 0)
    BY DEF Steps
  <2> QED BY <2>1
<1>2. ASSUME NEW n \in S PROVE n + 1 \in S
  <2> SUFFICES ASSUME n + 1 <= N PROVE \E f : Steps(f, D, e, step, n + 1)
    OBVIOUS
  <2>1. PICK f : Steps(f, D, e, step, n)
    OBVIOUS
  <2>2. PICK x \in D : x = step[<<f[n], n + 1>>]
    BY <2>1 DEF Steps
  <2> DEFINE g == [k \in 0..(n + 1) |-> IF k = n + 1 THEN x ELSE f[k]]
  <2>3. g \in [0..(n + 1) -> D] /\ g[0] = e
    BY <2>1 DEF Steps
  <2>4. ASSUME NEW k \in 1..(n + 1) PROVE g[k] = step[<<g[k - 1], k>>]
    <3>1. CASE k = n + 1
      <4>1. k - 1 = n /\ g[n] = f[n] /\ g[k] = x
        BY <3>1
      <4> QED BY <2>2, <3>1, <4>1
    <3>2. CASE k # n + 1
      <4>1. k \in 1..n /\ g[k] = f[k] /\ g[k - 1] = f[k - 1]
        BY <3>2
      <4> QED BY <2>1, <4>1 DEF Steps
    <3> QED BY <3>1, <3>2
  <2> HIDE DEF g
  <2>5. Steps(g, D, e, step, n + 1)
    BY <2>3, <2>4 DEF Steps
  <2> QED BY <2>5
<1> HIDE DEF S
<1>3. S = Nat
  <2>1. S \in SUBSET Nat
    BY DEF S
  <2> QED BY <1>1, <1>2, <2>1, Induct
<1>4. N \in S
  BY <1>3
<1> QED BY <1>4 DEF S

(* The members of a set up to n, in order.                                 *)
AllInOrder(p, I, n) ==
  /\ p \in Seq(1..n)
  /\ \A k \in 1..Len(p) : p[k] \in I
  /\ \A k, l \in 1..Len(p) : k < l => p[k] < p[l]
  /\ \A m \in 1..n : m \in I => \E k \in 1..Len(p) : p[k] = m

LEMMA OneMorePlace ==
  ASSUME NEW n \in Nat, NEW I, NEW p, AllInOrder(p, I, n)
  PROVE  AllInOrder(IF n + 1 \in I THEN Append(p, n + 1) ELSE p, I, n + 1)
<1>1. p \in Seq(1..n) /\ p \in Seq(1..(n + 1)) /\ Len(p) \in Nat
      /\ \A k \in 1..Len(p) : p[k] \in 1..n
  BY SeqMonotonic, ElementOfSeq, LenProperties DEF AllInOrder
<1>2. CASE n + 1 \notin I
  BY <1>1, <1>2 DEF AllInOrder
<1>3. CASE n + 1 \in I
  <2> DEFINE q == Append(p, n + 1)
  <2>1. /\ q \in Seq(1..(n + 1)) /\ Len(q) = Len(p) + 1 /\ q[Len(p) + 1] = n + 1
        /\ \A k \in 1..Len(p) : q[k] = p[k]
    BY <1>1, AppendProperties
  <2> HIDE DEF q
  <2>2. ASSUME NEW k \in 1..Len(q) PROVE q[k] \in I
    <3>1. k = Len(p) + 1 \/ k \in 1..Len(p)
      BY <1>1, <2>1
    <3> QED BY <1>3, <2>1, <3>1 DEF AllInOrder
  <2>3. ASSUME NEW k \in 1..Len(q), NEW l \in 1..Len(q), k < l PROVE q[k] < q[l]
    <3>1. k \in 1..Len(p) /\ q[k] = p[k]
      BY <1>1, <2>1, <2>3
    <3>2. CASE l = Len(p) + 1
      BY <1>1, <2>1, <3>1, <3>2
    <3>3. CASE l # Len(p) + 1
      <4>1. l \in 1..Len(p) /\ q[l] = p[l]
        BY <1>1, <2>1, <3>3
      <4> QED BY <2>3, <3>1, <4>1 DEF AllInOrder
    <3> QED BY <3>2, <3>3
  <2>4. ASSUME NEW m \in 1..(n + 1), m \in I PROVE \E k \in 1..Len(q) : q[k] = m
    <3>1. CASE m = n + 1
      <4>1. Len(p) + 1 \in 1..Len(q)
        BY <1>1, <2>1
      <4> QED BY <2>1, <3>1, <4>1
    <3>2. CASE m # n + 1
      <4>1. PICK k \in 1..Len(p) : p[k] = m
        BY <2>4, <3>2 DEF AllInOrder
      <4>2. k \in 1..Len(q) /\ q[k] = m
        BY <1>1, <2>1, <4>1
      <4> QED BY <4>2
    <3> QED BY <3>1, <3>2
  <2> QED BY <1>3, <2>1, <2>2, <2>3, <2>4 DEF AllInOrder, q
<1> QED BY <1>2, <1>3

LEMMA IncreasingFacts ==
  ASSUME NEW I, NEW N \in Nat
  PROVE  AllInOrder(Increasing(I, N), I, N)
<1> DEFINE D == Seq(1..N)
           step == [a \in D \X (1..N) |-> IF a[2] \in I THEN Append(a[1], a[2]) ELSE a[1]]
           Is(f) == f = [k \in 0..N |-> IF k = 0 THEN <<>>
                                        ELSE IF k \in I THEN Append(f[k - 1], k) ELSE f[k - 1]]
           f == CHOOSE f : Is(f)
           S == {n \in Nat : n <= N => AllInOrder(f[n], I, n)}
<1>1. Increasing(I, N) = f[N]
  BY DEF Increasing
<1>2. Is(f)
  <2>1. step \in [D \X (1..N) -> D] /\ <<>> \in D
    BY AppendProperties, EmptySeq
  <2>2. PICK g : Steps(g, D, <<>>, step, N)
    BY <2>1, StepsExist
  <2>3. ASSUME NEW k \in 1..N
        PROVE  g[k] = IF k \in I THEN Append(g[k - 1], k) ELSE g[k - 1]
    <3> HIDE DEF step, D
    <3>1. g[k - 1] \in D /\ g[k] = step[<<g[k - 1], k>>]
      BY <2>2 DEF Steps
    <3>2. step[<<g[k - 1], k>>] = IF k \in I THEN Append(g[k - 1], k) ELSE g[k - 1]
      BY <3>1 DEF step
    <3> QED BY <3>1, <3>2
  <2>4. DOMAIN g = 0..N /\ g = [k \in DOMAIN g |-> g[k]]
    BY <2>2 DEF Steps
  <2>5. ASSUME NEW k \in 0..N
        PROVE  g[k] = IF k = 0 THEN <<>>
                      ELSE IF k \in I THEN Append(g[k - 1], k) ELSE g[k - 1]
    <3>1. k = 0 \/ k \in 1..N
      OBVIOUS
    <3>2. g[0] = <<>>
      BY <2>2 DEF Steps
    <3> QED BY <2>3, <3>1, <3>2
  <2> HIDE DEF step
  <2>6. Is(g)
    BY <2>4, <2>5
  <2> QED BY <2>6
<1> HIDE DEF f
<1>a. \A k \in 0..N : f[k] = IF k = 0 THEN <<>>
                             ELSE IF k \in I THEN Append(f[k - 1], k) ELSE f[k - 1]
  BY <1>2
<1>3. f[0] = <<>> /\ \A k \in 1..N : f[k] = IF k \in I THEN Append(f[k - 1], k) ELSE f[k - 1]
  <2>1. 0 \in 0..N
    OBVIOUS
  <2>2. ASSUME NEW k \in 1..N PROVE k \in 0..N /\ k # 0
    OBVIOUS
  <2> QED BY <1>a, <2>1, <2>2
<1>4. 0 \in S
  <2>1. AllInOrder(<<>>, I, 0)
    BY EmptySeq DEF AllInOrder
  <2> QED BY <1>3, <2>1
<1>5. ASSUME NEW n \in S PROVE n + 1 \in S
  <2> SUFFICES ASSUME n + 1 <= N PROVE AllInOrder(f[n + 1], I, n + 1)
    OBVIOUS
  <2>1. n + 1 \in 1..N /\ n + 1 - 1 = n /\ AllInOrder(f[n], I, n)
    OBVIOUS
  <2>2. f[n + 1] = IF n + 1 \in I THEN Append(f[n], n + 1) ELSE f[n]
    BY <1>3, <2>1
  <2> QED BY <2>1, <2>2, OneMorePlace
<1> HIDE DEF S
<1>6. S = Nat
  <2>1. S \in SUBSET Nat
    BY DEF S
  <2> QED BY <1>4, <1>5, <2>1, Induct
<1> QED BY <1>1, <1>6 DEF S

(* The elements at these places.                                           *)
LEMMA ThoseFacts ==
  ASSUME NEW S, NEW s \in Seq(S), NEW I
  PROVE  /\ AllInOrder(Increasing(I, Len(s)), I, Len(s)) /\ Len(s) \in Nat
         /\ Those(s, I) \in Seq(S) /\ Len(Those(s, I)) = Len(Increasing(I, Len(s)))
         /\ \A k \in 1..Len(Those(s, I)) :
              /\ Increasing(I, Len(s))[k] \in 1..Len(s)
              /\ Those(s, I)[k] = s[Increasing(I, Len(s))[k]]
<1> DEFINE p == Increasing(I, Len(s))
<1>1. Len(s) \in Nat /\ \A k \in 1..Len(s) : s[k] \in S
  BY LenProperties, ElementOfSeq
<1>2. AllInOrder(p, I, Len(s))
  BY <1>1, IncreasingFacts
<1>3. Those(s, I) = [k \in DOMAIN p |-> s[p[k]]]
  BY DEF Those
<1> HIDE DEF p
<1>4. p \in Seq(1..Len(s)) /\ DOMAIN p = 1..Len(p) /\ Len(p) \in Nat
      /\ \A k \in 1..Len(p) : p[k] \in 1..Len(s)
  BY <1>2, LenProperties, ElementOfSeq DEF AllInOrder
<1>5. Those(s, I) \in [1..Len(p) -> S]
  BY <1>1, <1>3, <1>4
<1>6. Those(s, I) \in Seq(S) /\ Len(Those(s, I)) = Len(p)
  <2>1. \A t \in [1..Len(p) -> S] : t \in Seq(S) /\ Len(t) = Len(p)
    BY <1>4
  <2> QED BY <1>5, <2>1
<1> QED BY <1>1, <1>2, <1>3, <1>4, <1>6 DEF p

(* In terms of membership.                                                 *)
LEMMA ThoseHas ==
  ASSUME NEW S, NEW s \in Seq(S), NEW I
  PROVE  Range(Those(s, I)) = {s[n] : n \in I \cap 1..Len(s)}
<1> DEFINE t == Those(s, I)
           p == Increasing(I, Len(s))
<1>1. /\ AllInOrder(p, I, Len(s)) /\ t \in Seq(S) /\ Len(t) = Len(p)
      /\ \A k \in 1..Len(t) : p[k] \in 1..Len(s) /\ t[k] = s[p[k]]
  BY ThoseFacts
<1> HIDE DEF t, p
<1>2. Range(t) = {t[k] : k \in 1..Len(t)}
  BY <1>1 DEF Range
<1>3. ASSUME NEW n \in I \cap 1..Len(s) PROVE s[n] \in Range(t)
  BY <1>1, <1>2 DEF AllInOrder
<1>4. ASSUME NEW k \in 1..Len(t) PROVE t[k] \in {s[n] : n \in I \cap 1..Len(s)}
  BY <1>1 DEF AllInOrder
<1> QED BY <1>2, <1>3, <1>4 DEF t

-----------------------------------------------------------------------------
(* Sums.                                                                   *)

Sums(f, s, n) ==
  f \in [0..n -> Int] /\ f[0] = 0 /\ \A k \in 1..n : f[k] = f[k - 1] + s[k]

LEMMA SumSteps ==
  ASSUME NEW s \in Seq(Int)
  PROVE  \E f : Sums(f, s, Len(s)) /\ SumOf(s) = f[Len(s)]
<1> DEFINE N == Len(s)
           Is(f) == f = [k \in 0..N |-> IF k = 0 THEN 0 ELSE f[k - 1] + s[k]]
           step == [a \in Int \X (1..N) |-> a[1] + s[a[2]]]
           f == CHOOSE f : Is(f)
<1>1. N \in Nat /\ \A k \in 1..N : s[k] \in Int
  BY LenProperties, ElementOfSeq
<1>2. SumOf(s) = f[N]
  BY DEF SumOf
<1> HIDE DEF N
<1>3. PICK g : Sums(g, s, N) /\ Is(g)
  <2>1. step \in [Int \X (1..N) -> Int] /\ 0 \in Int
    BY <1>1
  <2>2. PICK g : Steps(g, Int, 0, step, N)
    BY <1>1, <2>1, StepsExist
  <2>3. ASSUME NEW k \in 1..N PROVE g[k] = g[k - 1] + s[k]
    <3> HIDE DEF step
    <3>1. g[k - 1] \in Int /\ g[k] = step[<<g[k - 1], k>>]
      BY <1>1, <2>2 DEF Steps
    <3>2. step[<<g[k - 1], k>>] = g[k - 1] + s[k]
      BY <3>1 DEF step
    <3> QED BY <3>1, <3>2
  <2>4. DOMAIN g = 0..N /\ g = [k \in DOMAIN g |-> g[k]]
    BY <2>2 DEF Steps
  <2>5. \A k \in 0..N : g[k] = IF k = 0 THEN 0 ELSE g[k - 1] + s[k]
    BY <1>1, <2>2, <2>3 DEF Steps
  <2> HIDE DEF step
  <2>6. Is(g)
    BY <2>4, <2>5
  <2>7. Sums(g, s, N)
    BY <2>2, <2>3 DEF Steps, Sums
  <2> QED BY <2>6, <2>7
<1>4. Is(f)
  BY <1>3
<1> HIDE DEF f
<1> DEFINE S == {n \in Nat : n <= N => f[n] = g[n]}
<1>5. 0 \in S
  BY <1>1, <1>3, <1>4
<1>6. ASSUME NEW n \in S PROVE n + 1 \in S
  <2> SUFFICES ASSUME n + 1 <= N PROVE f[n + 1] = g[n + 1]
    OBVIOUS
  <2>1. PICK k \in 1..N : k = n + 1 /\ k - 1 = n
    BY <1>1
  <2>2. f[k] = f[k - 1] + s[k] /\ g[k] = g[k - 1] + s[k]
    BY <1>1, <1>3, <1>4
  <2>3. f[k - 1] = g[k - 1]
    BY <1>1, <2>1
  <2> QED BY <2>1, <2>2, <2>3
<1> HIDE DEF S
<1>7. S = Nat
  <2>1. S \in SUBSET Nat
    BY DEF S
  <2> QED BY <1>5, <1>6, <2>1, Induct
<1>8. f[N] = g[N]
  BY <1>1, <1>7 DEF S
<1> QED BY <1>2, <1>3, <1>8 DEF N

LEMMA SumIsWhole ==
  ASSUME NEW s \in Seq(Int)
  PROVE  SumOf(s) \in Int
BY SumSteps, LenProperties DEF Sums

-----------------------------------------------------------------------------
(* Functions that are sequences, one element less, the largest of some.    *)

LEMMA FunctionIsSeq ==
  ASSUME NEW n \in Nat, NEW f, f = [k \in 1..n |-> f[k]]
  PROVE  f \in Seq(Range(f)) /\ Len(f) = n /\ \A k \in 1..n : f[k] \in Range(f)
<1>1. DOMAIN f = 1..n /\ \A k \in 1..n : f[k] \in Range(f)
  BY DEF Range
<1>2. f \in [1..n -> Range(f)]
  BY <1>1
<1>3. \A S : \A g \in [1..n -> S] : g \in Seq(S) /\ Len(g) = n
  OBVIOUS
<1> QED BY <1>1, <1>2, <1>3

LEMMA RemoveAtFacts ==
  ASSUME NEW S, NEW s \in Seq(S), NEW r \in 1..Len(s)
  PROVE  /\ RemoveAt(s, r) \in Seq(S) /\ Len(RemoveAt(s, r)) = Len(s) - 1
         /\ \A k \in 1..(r - 1) : RemoveAt(s, r)[k] = s[k]
         /\ \A k \in r..(Len(s) - 1) : RemoveAt(s, r)[k] = s[k + 1]
<1>1. Len(s) \in Nat /\ r \in Nat \ {0} /\ \A k \in 1..Len(s) : s[k] \in S
  BY LenProperties, ElementOfSeq
<1> DEFINE a == SubSeq(s, 1, r - 1)
           z == SubSeq(s, r + 1, Len(s))
<1>2. a \in Seq(S) /\ Len(a) = r - 1 /\ \A k \in 1..(r - 1) : a[k] = s[k]
  <2>1. r - 1 \in 0..Len(s)
    BY <1>1
  <2> QED BY <2>1, FirstOnes
<1>3. /\ z \in Seq(S) /\ Len(z) = Len(s) - r
      /\ \A k \in 1..(Len(s) - r) : z[k] = s[k + r]
  <2>1. \A k \in (r + 1)..Len(s) : s[k] \in S
    BY <1>1
  <2>2. /\ z \in Seq(S) /\ Len(z) = IF r + 1 <= Len(s) THEN Len(s) - (r + 1) + 1 ELSE 0
        /\ \A k \in 1..(Len(s) - (r + 1) + 1) : z[k] = s[r + 1 + k - 1]
    BY <1>1, <2>1, SubSeqProperties
  <2> HIDE DEF z
  <2>3. ASSUME NEW k \in 1..(Len(s) - r) PROVE z[k] = s[k + r]
    <3>1. k \in 1..(Len(s) - (r + 1) + 1) /\ r + 1 + k - 1 = k + r
      BY <1>1
    <3> QED BY <2>2, <3>1
  <2>4. Len(z) = Len(s) - r
    BY <1>1, <2>2
  <2> QED BY <2>2, <2>3, <2>4
<1>4. RemoveAt(s, r) = a \o z
  BY DEF RemoveAt
<1> HIDE DEF a, z
<1>5. /\ a \o z \in Seq(S) /\ Len(a \o z) = Len(s) - 1
      /\ \A k \in 1..(r - 1) : (a \o z)[k] = s[k]
      /\ \A k \in r..(Len(s) - 1) : (a \o z)[k] = z[k - (r - 1)]
  <2>1. /\ a \o z \in Seq(S) /\ Len(a \o z) = Len(a) + Len(z)
        /\ \A k \in 1..Len(a) : (a \o z)[k] = a[k]
        /\ \A k \in (Len(a) + 1)..(Len(a) + Len(z)) : (a \o z)[k] = z[k - Len(a)]
    <3>1. a \in Seq(S) /\ z \in Seq(S)
      BY <1>2, <1>3
    <3> QED BY <3>1, ConcatProperties
  <2>2. Len(a) + Len(z) = Len(s) - 1 /\ Len(a) + 1 = r
    BY <1>1, <1>2, <1>3
  <2> QED BY <1>2, <2>1, <2>2
<1>6. ASSUME NEW k \in r..(Len(s) - 1) PROVE (a \o z)[k] = s[k + 1]
  <2>1. k - (r - 1) \in 1..(Len(s) - r) /\ k - (r - 1) + r = k + 1
    BY <1>1
  <2>2. z[k - (r - 1)] = s[k - (r - 1) + r]
    BY <1>3, <2>1
  <2> QED BY <1>5, <2>1, <2>2
<1> QED BY <1>4, <1>5, <1>6

LEMMA RemovedIsOther ==
  ASSUME NEW U, NEW f \in Seq(U), NEW r \in 1..Len(f), NEW z \in Range(RemoveAt(f, r))
  PROVE  \E j \in 1..Len(f) : j # r /\ z = f[j]
<1> DEFINE g == RemoveAt(f, r)
<1>1. /\ g \in Seq(U) /\ Len(g) = Len(f) - 1
      /\ \A k \in 1..(r - 1) : g[k] = f[k]
      /\ \A k \in r..(Len(f) - 1) : g[k] = f[k + 1]
  BY RemoveAtFacts
<1>z. z \in Range(g)
  OBVIOUS
<1> HIDE DEF g
<1>2. DOMAIN g = 1..Len(g) /\ Len(f) \in Nat /\ r \in Nat
  BY <1>1, LenProperties
<1>3. PICK k \in 1..Len(g) : z = g[k]
  BY <1>2, <1>z DEF Range
<1>4. CASE k < r
  <2>1. k \in 1..(r - 1) /\ k \in 1..Len(f) /\ k # r
    BY <1>1, <1>2, <1>4
  <2> QED BY <1>1, <1>3, <2>1
<1>5. CASE ~(k < r)
  <2>1. k \in r..(Len(f) - 1) /\ k + 1 \in 1..Len(f) /\ k + 1 # r
    BY <1>1, <1>2, <1>5
  <2> QED BY <1>1, <1>3, <2>1
<1> QED BY <1>4, <1>5

LEMMA OthersRemain ==
  ASSUME NEW U, NEW f \in Seq(U), NEW r \in 1..Len(f), NEW j \in 1..Len(f), j # r
  PROVE  f[j] \in Range(RemoveAt(f, r))
<1> DEFINE g == RemoveAt(f, r)
<1>1. /\ g \in Seq(U) /\ Len(g) = Len(f) - 1
      /\ \A k \in 1..(r - 1) : g[k] = f[k]
      /\ \A k \in r..(Len(f) - 1) : g[k] = f[k + 1]
  BY RemoveAtFacts
<1> HIDE DEF g
<1>2. DOMAIN g = 1..Len(g) /\ Len(f) \in Nat /\ r \in Nat /\ j \in Nat
  BY <1>1, LenProperties
<1>3. CASE j < r
  <2>1. j \in 1..(r - 1) /\ j \in 1..Len(g)
    BY <1>1, <1>2, <1>3
  <2>2. g[j] = f[j]
    BY <1>1, <2>1
  <2> QED BY <1>2, <2>1, <2>2 DEF Range, g
<1>4. CASE ~(j < r)
  <2>1. j - 1 \in r..(Len(f) - 1) /\ j - 1 \in 1..Len(g) /\ j - 1 + 1 = j
    BY <1>1, <1>2, <1>4
  <2>2. g[j - 1] = f[j]
    BY <1>1, <2>1
  <2> QED BY <1>2, <2>1, <2>2 DEF Range, g
<1> QED BY <1>3, <1>4

LEMMA LargestIs ==
  ASSUME NEW n \in Nat, NEW S \in SUBSET (1..n), S # {}
  PROVE  Max(S) \in S /\ \A k \in S : k <= Max(S)
<1> DEFINE T == {n - k : k \in S}
<1>1. T \in SUBSET Nat /\ T # {}
  <2>1. \A k \in S : k \in 1..n /\ n - k \in Nat
    OBVIOUS
  <2>2. PICK k \in S : TRUE
    OBVIOUS
  <2> QED BY <2>1, <2>2
<1>2. PICK least \in T : \A m \in T : least <= m
  BY <1>1, HasLeast
<1>3. PICK x \in S : least = n - x
  OBVIOUS
<1>4. ASSUME NEW y \in S PROVE x >= y
  <2>1. n - x <= n - y
    BY <1>2, <1>3
  <2>2. x \in 1..n /\ y \in 1..n
    OBVIOUS
  <2> QED BY <2>1, <2>2
<1> QED BY <1>4 DEF Max

(* A recursive function that takes these steps has its values in D.        *)
LEMMA StepsStay ==
  ASSUME NEW D, NEW e \in D, NEW N \in Nat, NEW step \in [D \X (1..N) -> D],
         NEW h, h = [k \in DOMAIN h |-> h[k]], DOMAIN h = 0..N, h[0] = e,
         \A k \in 1..N : h[k - 1] \in D => h[k] = step[<<h[k - 1], k>>]
  PROVE  Steps(h, D, e, step, N)
<1> DEFINE S == {n \in Nat : n <= N => h[n] \in D}
<1>1. 0 \in S
  OBVIOUS
<1>2. ASSUME NEW n \in S PROVE n + 1 \in S
  <2> SUFFICES ASSUME n + 1 <= N PROVE h[n + 1] \in D
    OBVIOUS
  <2>1. PICK k \in 1..N : k = n + 1 /\ k - 1 = n
    OBVIOUS
  <2>2. h[k - 1] \in D
    BY <2>1
  <2>3. step[<<h[k - 1], k>>] \in D
    BY <2>2
  <2> QED BY <2>1, <2>2, <2>3
<1> HIDE DEF S
<1>3. S = Nat
  <2>1. S \in SUBSET Nat
    BY DEF S
  <2> QED BY <1>1, <1>2, <2>1, Induct
<1>4. \A n \in 0..N : h[n] \in D
  BY <1>3 DEF S
<1>5. \A k \in 1..N : h[k - 1] \in D
  BY <1>4
<1>6. h \in [0..N -> D]
  BY <1>4
<1> QED BY <1>5, <1>6 DEF Steps

-----------------------------------------------------------------------------
(* Sequences that grow at their end.                                       *)

LEMMA LastAppended ==
  ASSUME NEW S, NEW s \in Seq(S), NEW x \in S
  PROVE  Last(Append(s, x)) = x /\ Front(Append(s, x)) = s /\ Append(s, x) # <<>>
         /\ Append(s, x) \in Seq(S)
<1> DEFINE t == Append(s, x)
<1>1. /\ t \in Seq(S) /\ t # <<>> /\ Len(t) = Len(s) + 1 /\ t[Len(s) + 1] = x
      /\ \A k \in 1..Len(s) : t[k] = s[k]
  BY AppendProperties
<1>2. Len(s) \in Nat
  BY LenProperties
<1> HIDE DEF t
<1>3. Last(t) = x
  BY <1>1 DEF Last
<1>4. /\ Front(t) \in Seq(S) /\ Len(Front(t)) = Len(t) - 1
      /\ \A k \in 1..(Len(t) - 1) : Front(t)[k] = t[k]
  BY <1>1, FrontAndLast
<1>5. Len(Front(t)) = Len(s) /\ \A k \in 1..Len(s) : Front(t)[k] = s[k]
  <2>1. Len(t) - 1 = Len(s)
    BY <1>1, <1>2
  <2> QED BY <1>1, <1>4, <2>1
<1>6. Front(t) = s
  BY <1>4, <1>5, SeqEqual
<1> QED BY <1>1, <1>3, <1>6 DEF t

(* all is s and t, and more is t and x: then s and more are all and x.     *)
Chained(S, s, t, x, all, more) ==
  s \in Seq(S) /\ t \in Seq(S) /\ x \in S /\ all = s \o t /\ more = Append(t, x)
LongerBy(s, x, all, more) == Append(all, x) = s \o more

LEMMA AppendedMore ==
  ASSUME NEW S, NEW s, NEW t, NEW x, NEW all, NEW more, Chained(S, s, t, x, all, more)
  PROVE  LongerBy(s, x, all, more)
<1>0. s \in Seq(S) /\ t \in Seq(S) /\ x \in S /\ all = s \o t /\ more = Append(t, x)
  BY DEF Chained
<1>1. s \o t \in Seq(S) /\ <<x>> \in Seq(S)
  BY <1>0, ConcatProperties
<1>2. Append(all, x) = (s \o t) \o <<x>> /\ more = t \o <<x>>
  BY <1>0, <1>1, AppendIsConcat
<1>3. (s \o t) \o <<x>> = s \o (t \o <<x>>)
  BY <1>0, <1>1, ConcatAssociative
<1> QED BY <1>2, <1>3 DEF LongerBy

LEMMA OneLonger ==
  ASSUME NEW S, NEW s \in Seq(S), NEW n \in 0..(Len(s) - 1)
  PROVE  SubSeq(s, 1, n + 1) = Append(SubSeq(s, 1, n), s[n + 1]) /\ s[n + 1] \in S
<1>1. Len(s) \in Nat /\ n \in 0..Len(s) /\ n + 1 \in 0..Len(s) /\ n + 1 \in 1..Len(s)
  BY LenProperties
<1>2. s[n + 1] \in S
  BY <1>1, ElementOfSeq
<1> DEFINE a == SubSeq(s, 1, n)
           b == SubSeq(s, 1, n + 1)
<1>3. a \in Seq(S) /\ Len(a) = n /\ \A k \in 1..n : a[k] = s[k]
  BY <1>1, FirstOnes
<1>4. b \in Seq(S) /\ Len(b) = n + 1 /\ \A k \in 1..(n + 1) : b[k] = s[k]
  BY <1>1, FirstOnes
<1> HIDE DEF a, b
<1> DEFINE c == Append(a, s[n + 1])
<1>5. c \in Seq(S) /\ Len(c) = n + 1 /\ c[n + 1] = s[n + 1] /\ \A k \in 1..n : c[k] = a[k]
  BY <1>2, <1>3, AppendProperties
<1> HIDE DEF c
<1>6. \A k \in 1..(n + 1) : b[k] = c[k]
  BY <1>1, <1>3, <1>4, <1>5
<1>7. b = c
  BY <1>4, <1>5, <1>6, SeqEqual
<1> QED BY <1>2, <1>7 DEF a, b, c

LEMMA LastGrown ==
  ASSUME NEW S, NEW s \in Seq(Seq(S)), NEW g \in Seq(S), NEW f \in S
  PROVE  [Append(s, g) EXCEPT ![Len(Append(s, g))] = Append(@, f)] = Append(s, Append(g, f))
<1> DEFINE t == Append(s, g)
           u == Append(s, Append(g, f))
           v == [t EXCEPT ![Len(t)] = Append(@, f)]
<1>1. Append(g, f) \in Seq(S)
  BY AppendProperties
<1>2. /\ t \in Seq(Seq(S)) /\ Len(t) = Len(s) + 1 /\ t[Len(s) + 1] = g
      /\ \A k \in 1..Len(s) : t[k] = s[k]
  BY AppendProperties
<1>3. /\ u \in Seq(Seq(S)) /\ Len(u) = Len(s) + 1 /\ u[Len(s) + 1] = Append(g, f)
      /\ \A k \in 1..Len(s) : u[k] = s[k]
  BY <1>1, AppendProperties
<1>4. Len(s) \in Nat
  BY LenProperties
<1> HIDE DEF t, u
<1>5. v \in Seq(Seq(S)) /\ Len(v) = Len(t)
      /\ \A k \in 1..Len(t) : v[k] = IF k = Len(t) THEN Append(t[k], f) ELSE t[k]
  <2>1. \A k \in 1..Len(t) : v[k] = IF k = Len(t) THEN Append(t[k], f) ELSE t[k]
    BY <1>2
  <2>2. \A k \in 1..Len(t) : t[k] \in Seq(S)
    BY <1>2
  <2>3. \A k \in 1..Len(t) : v[k] \in Seq(S)
    BY <1>1, <1>2, <2>1, <2>2
  <2>d. DOMAIN t = 1..Len(t) /\ Len(t) \in Nat
    BY <1>2, <1>4
  <2>e. DOMAIN v = DOMAIN t /\ v = [k \in DOMAIN v |-> v[k]]
    OBVIOUS
  <2>4. v = [k \in 1..Len(t) |-> v[k]] /\ Len(t) \in Nat
    <3> HIDE DEF v
    <3> QED BY <2>d, <2>e
  <2>5. v \in Seq(Range(v)) /\ Len(v) = Len(t)
    BY <2>4, FunctionIsSeq
  <2>6. Range(v) \subseteq Seq(S)
    BY <2>3, <2>4 DEF Range
  <2> HIDE DEF v
  <2> QED BY <2>1, <2>5, <2>6, SeqMonotonic
<1> HIDE DEF v
<1>6. ASSUME NEW k \in 1..Len(v) PROVE v[k] = u[k]
  <2>1. CASE k = Len(t)
    BY <1>2, <1>3, <1>5, <2>1
  <2>2. CASE k # Len(t)
    <3>1. k \in 1..Len(s) /\ k \in 1..Len(t)
      BY <1>2, <1>4, <1>5, <2>2
    <3> QED BY <1>2, <1>3, <1>5, <2>2, <3>1
  <2> QED BY <2>1, <2>2
<1>7. v = u
  BY <1>2, <1>3, <1>5, <1>6, SeqEqual
<1> QED BY <1>7 DEF t, u, v

(* The concatenation of the first ones.                                    *)
LEMMA FlattenMore ==
  ASSUME NEW C, NEW s \in Seq(Seq(C)), NEW n \in 0..(Len(s) - 1)
  PROVE  /\ FlattenSeq(SubSeq(s, 1, n + 1)) = FlattenSeq(SubSeq(s, 1, n)) \o s[n + 1]
         /\ FlattenSeq(SubSeq(s, 1, n)) \in Seq(C)
<1>1. SubSeq(s, 1, n + 1) = Append(SubSeq(s, 1, n), s[n + 1]) /\ s[n + 1] \in Seq(C)
  BY OneLonger
<1>2. SubSeq(s, 1, n) \in Seq(Seq(C))
  <2>1. n \in 0..Len(s)
    BY LenProperties
  <2> QED BY <2>1, FirstOnes
<1> QED BY <1>1, <1>2, FlattenAppend

LEMMA WholeAndEmpty ==
  ASSUME NEW S, NEW s \in Seq(S)
  PROVE  SubSeq(s, 1, Len(s)) = s /\ SubSeq(s, 1, 0) = <<>>
<1>1. Len(s) \in Nat /\ Len(s) \in 0..Len(s) /\ 0 \in 0..Len(s)
  BY LenProperties
<1> DEFINE a == SubSeq(s, 1, Len(s))
<1>2. a \in Seq(S) /\ Len(a) = Len(s) /\ \A k \in 1..Len(s) : a[k] = s[k]
  BY <1>1, FirstOnes
<1> HIDE DEF a
<1>3. a = s
  BY <1>2, SeqEqual
<1>4. SubSeq(s, 1, 0) = <<>>
  BY SubSeqEmpty
<1> QED BY <1>3, <1>4 DEF a

-----------------------------------------------------------------------------
(* Counting.                                                               *)

(* No more elements than places; as many if they differ.                   *)
LEMMA RangeCounted ==
  ASSUME NEW S, NEW s \in Seq(S)
  PROVE  /\ IsFiniteSet(Range(s)) /\ Cardinality(Range(s)) \in Nat
         /\ Cardinality(Range(s)) <= Len(s)
         /\ (\A k, l \in 1..Len(s) : s[k] = s[l] => k = l) => Cardinality(Range(s)) = Len(s)
<1> DEFINE n == Len(s)
<1>1. n \in Nat /\ DOMAIN s = 1..n /\ s \in [1..n -> S]
  BY LenProperties
<1>2. IsFiniteSet(1..n) /\ Cardinality(1..n) = n
  BY <1>1, FS_Interval
<1>3. s \in Surjection(1..n, Range(s))
  BY <1>1 DEF Range, Surjection
<1> HIDE DEF n
<1>4. /\ IsFiniteSet(Range(s)) /\ Cardinality(Range(s)) <= n
      /\ Cardinality(Range(s)) = n <=> s \in Injection(1..n, Range(s))
  <2>1. /\ IsFiniteSet(Range(s)) /\ Cardinality(Range(s)) <= Cardinality(1..n)
        /\ Cardinality(Range(s)) = Cardinality(1..n) <=> s \in Injection(1..n, Range(s))
    BY <1>2, <1>3, FS_Surjection
  <2> QED BY <1>2, <2>1
<1>5. (\A k, l \in 1..n : s[k] = s[l] => k = l) => s \in Injection(1..n, Range(s))
  BY <1>3 DEF Injection, Surjection, IsInjective
<1> QED BY <1>4, <1>5, FS_CardinalityType DEF n

(* Sets that have as many elements together as one after another do not    *)
(* meet.                                                                   *)
Together(R, n) == UNION {R[k] : k \in 1..n}
CountedTo(R, f, n) ==
  /\ IsFiniteSet(Together(R, n)) /\ Cardinality(Together(R, n)) <= f[n]
  /\ Cardinality(Together(R, n)) = f[n] => \A k, l \in 1..n : k # l => R[k] \cap R[l] = {}

LEMMA CountedMore ==
  ASSUME NEW R, NEW f, NEW n \in Nat, CountedTo(R, f, n), NEW size \in Nat,
         IsFiniteSet(R[n + 1]), Cardinality(R[n + 1]) <= size,
         f[n] \in Int, f[n + 1] = f[n] + size
  PROVE  CountedTo(R, f, n + 1)
<1> DEFINE A == Together(R, n)
           B == R[n + 1]
<1>1. Together(R, n + 1) = A \cup B
  <2>1. \A k \in 1..(n + 1) : k \in 1..n \/ k = n + 1
    OBVIOUS
  <2>2. n + 1 \in 1..(n + 1) /\ \A k \in 1..n : k \in 1..(n + 1)
    OBVIOUS
  <2> QED BY <2>1, <2>2, Zenon DEF Together
<1>2. IsFiniteSet(A) /\ Cardinality(A) <= f[n]
  BY DEF CountedTo
<1>3. \A k \in 1..n : R[k] \subseteq A
  BY DEF Together
<1>b. IsFiniteSet(B) /\ Cardinality(B) <= size
  OBVIOUS
<1>c. Cardinality(A) = f[n] => \A k, l \in 1..n : k # l => R[k] \cap R[l] = {}
  BY DEF CountedTo
<1> HIDE DEF A
<1>4. /\ IsFiniteSet(A \cup B) /\ IsFiniteSet(A \cap B)
      /\ Cardinality(A \cup B) = Cardinality(A) + Cardinality(B) - Cardinality(A \cap B)
  BY <1>2, <1>b, FS_Union, FS_Intersection
<1>5. Cardinality(A) \in Nat /\ Cardinality(B) \in Nat /\ Cardinality(A \cap B) \in Nat
  BY <1>2, <1>b, <1>4, FS_CardinalityType
<1>6. Cardinality(A \cup B) <= f[n + 1]
  BY <1>2, <1>b, <1>4, <1>5
<1>7. ASSUME Cardinality(A \cup B) = f[n + 1], NEW k \in 1..(n + 1), NEW l \in 1..(n + 1), k # l
      PROVE  R[k] \cap R[l] = {}
  <2>1. Cardinality(A) = f[n] /\ Cardinality(A \cap B) = 0
    BY <1>2, <1>b, <1>4, <1>5, <1>7
  <2>2. A \cap B = {}
    BY <1>4, <2>1, FS_EmptySet
  <2>3. CASE k \in 1..n /\ l \in 1..n
    BY <1>7, <1>c, <2>1, <2>3
  <2>4. CASE k \in 1..n /\ l = n + 1
    BY <1>3, <2>2, <2>4
  <2>5. CASE k = n + 1 /\ l \in 1..n
    BY <1>3, <2>2, <2>5
  <2>6. (k \in 1..n \/ k = n + 1) /\ (l \in 1..n \/ l = n + 1)
    OBVIOUS
  <2> QED BY <1>7, <2>3, <2>4, <2>5, <2>6
<1> QED BY <1>1, <1>4, <1>6, <1>7 DEF CountedTo

LEMMA CountedOnce ==
  ASSUME NEW R, NEW sizes \in Seq(Nat),
         \A k \in 1..Len(sizes) : IsFiniteSet(R[k]) /\ Cardinality(R[k]) <= sizes[k],
         Cardinality(Together(R, Len(sizes))) = SumOf(sizes)
  PROVE  \A k, l \in 1..Len(sizes) : k # l => R[k] \cap R[l] = {}
<1> DEFINE N == Len(sizes)
<1>1. sizes \in Seq(Int) /\ N \in Nat /\ \A k \in 1..N : sizes[k] \in Nat
  BY SeqMonotonic, LenProperties, ElementOfSeq
<1>2. PICK f : Sums(f, sizes, N) /\ SumOf(sizes) = f[N]
  BY <1>1, SumSteps
<1> DEFINE S == {n \in Nat : n <= N => CountedTo(R, f, n)}
<1>3. 0 \in S
  <2>1. Together(R, 0) = {}
    BY DEF Together
  <2>2. f[0] = 0
    BY <1>2 DEF Sums
  <2>3. IsFiniteSet({}) /\ Cardinality({}) = 0 /\ 1..0 = {}
    BY FS_EmptySet
  <2>4. IsFiniteSet(Together(R, 0)) /\ Cardinality(Together(R, 0)) = 0
    BY <2>1, <2>3, Zenon
  <2>5. CountedTo(R, f, 0)
    BY <2>2, <2>3, <2>4 DEF CountedTo
  <2> QED BY <2>5
<1>4. ASSUME NEW n \in S PROVE n + 1 \in S
  <2> SUFFICES ASSUME n + 1 <= N PROVE CountedTo(R, f, n + 1)
    OBVIOUS
  <2>1. n \in Nat /\ CountedTo(R, f, n)
    BY <1>1
  <2>2. PICK k \in 1..N : k = n + 1 /\ k - 1 = n
    BY <1>1, <2>1
  <2>3. f[k] = f[k - 1] + sizes[k] /\ sizes[k] \in Nat
    BY <1>1, <1>2 DEF Sums
  <2>4. f[n] \in Int
    <3>1. f \in [0..N -> Int] /\ n \in 0..N
      BY <1>1, <1>2, <2>1 DEF Sums
    <3> QED BY <3>1
  <2>5. f[n + 1] = f[n] + sizes[k]
    BY <2>2, <2>3
  <2>6. IsFiniteSet(R[n + 1]) /\ Cardinality(R[n + 1]) <= sizes[k]
    BY <2>2
  <2> QED BY <2>1, <2>3, <2>4, <2>5, <2>6, CountedMore
<1> HIDE DEF S
<1>5. S = Nat
  <2>1. S \in SUBSET Nat
    BY DEF S
  <2> QED BY <1>3, <1>4, <2>1, Induct
<1>6. CountedTo(R, f, N)
  BY <1>1, <1>5 DEF S
<1> QED BY <1>2, <1>6 DEF CountedTo

-----------------------------------------------------------------------------
(* Sorting.                                                                *)
StrictOrder(R, I) ==
  /\ \A x \in I : <<x, x>> \notin R
  /\ \A x, y \in I : x # y => <<x, y>> \in R \/ <<y, x>> \in R
  /\ \A x, y, z \in I : <<x, y>> \in R /\ <<y, z>> \in R => <<x, z>> \in R

Firsts(R, T) == {x \in T : \A y \in T \ {x} : <<x, y>> \in R}

LEMMA SomeAreFirst ==
  ASSUME NEW I, NEW R, StrictOrder(R, I),
         NEW T \in SUBSET I, IsFiniteSet(T), T # {}
  PROVE  Firsts(R, T) # {}
<1> DEFINE S == {n \in Nat : \A U \in SUBSET I :
                   IsFiniteSet(U) /\ U # {} /\ Cardinality(U) = n => Firsts(R, U) # {}}
<1>1. 0 \in S
  BY FS_EmptySet
<1>2. ASSUME NEW n \in S PROVE n + 1 \in S
  <2> SUFFICES ASSUME NEW U \in SUBSET I, IsFiniteSet(U), U # {}, Cardinality(U) = n + 1
               PROVE  Firsts(R, U) # {}
    OBVIOUS
  <2>1. PICK x \in U : TRUE
    OBVIOUS
  <2>2. IsFiniteSet(U \ {x}) /\ Cardinality(U \ {x}) = n
    <3>1. n \in Nat
      OBVIOUS
    <3> HIDE DEF S
    <3>2. IsFiniteSet(U \ {x}) /\ Cardinality(U \ {x}) = Cardinality(U) - 1
      BY FS_RemoveElement
    <3> QED BY <3>1, <3>2
  <2>3. CASE U \ {x} = {}
    BY <2>1, <2>3 DEF Firsts
  <2>4. CASE U \ {x} # {}
    <3>1. PICK y \in U \ {x} : \A z \in (U \ {x}) \ {y} : <<y, z>> \in R
      BY <2>2, <2>4 DEF Firsts
    <3>2. CASE <<y, x>> \in R
      <4>1. \A z \in U \ {y} : <<y, z>> \in R
        BY <3>1, <3>2
      <4> QED BY <4>1 DEF Firsts
    <3>3. CASE <<x, y>> \in R
      <4>1. \A z \in U \ {x} : <<x, z>> \in R
        BY <3>1, <3>3 DEF StrictOrder
      <4> QED BY <4>1 DEF Firsts
    <3> QED BY <3>2, <3>3 DEF StrictOrder
  <2> QED BY <2>3, <2>4
<1> HIDE DEF S
<1>3. S = Nat
  <2>1. S \in SUBSET Nat
    BY DEF S
  <2> QED BY <1>1, <1>2, <2>1, Induct
<1>4. Cardinality(T) \in S
  BY <1>3, FS_CardinalityType
<1> QED BY <1>4 DEF S

(* The first ones, each before the others.                                 *)
Taken(q, I, R, k) ==
  /\ q \in Seq(I) /\ Len(q) = k
  /\ \A i, j \in 1..k : i < j => <<q[i], q[j]>> \in R
  /\ \A i \in 1..k : \A y \in I : (\A j \in 1..k : q[j] # y) => <<q[i], y>> \in R

LEMMA TakesOneMore ==
  ASSUME NEW I, IsFiniteSet(I), NEW R, StrictOrder(R, I), NEW k \in Nat, k < Cardinality(I),
         NEW q, Taken(q, I, R, k)
  PROVE  Taken(Append(q, Foremost(I \ Range(q), R)), I, R, k + 1)
<1> DEFINE rest == I \ Range(q)
           x == Foremost(rest, R)
           g == Append(q, x)
<1>1. /\ q \in Seq(I) /\ Len(q) = k /\ DOMAIN q = 1..k
      /\ Range(q) = {q[j] : j \in 1..k} /\ Range(q) \subseteq I
  <2>1. q \in Seq(I) /\ Len(q) = k
    BY DEF Taken
  <2>2. DOMAIN q = 1..k /\ \A j \in 1..k : q[j] \in I
    BY <2>1, LenProperties, ElementOfSeq
  <2> QED BY <2>1, <2>2 DEF Range
<1>2. rest # {}
  <2> SUFFICES ASSUME rest = {} PROVE FALSE
    OBVIOUS
  <2>1. I = Range(q)
    BY <1>1
  <2>2. Cardinality(Range(q)) <= k
    BY <1>1, RangeCounted
  <2>3. Cardinality(I) \in Nat
    BY FS_CardinalityType
  <2> QED BY <2>1, <2>2, <2>3
<1>3. x \in rest /\ \A y \in rest \ {x} : <<x, y>> \in R
  <2>1. rest \in SUBSET I /\ IsFiniteSet(rest)
    BY FS_Subset
  <2> HIDE DEF rest
  <2>2. Firsts(R, rest) # {}
    BY <1>2, <2>1, SomeAreFirst
  <2> QED BY <2>2 DEF Firsts, Foremost
<1> HIDE DEF x, rest
<1>4. /\ g \in Seq(I) /\ Len(g) = k + 1 /\ g[k + 1] = x
      /\ \A j \in 1..k : g[j] = q[j]
  <2>1. x \in I
    BY <1>3 DEF rest
  <2> QED BY <1>1, <2>1, AppendProperties
<1> HIDE DEF g
<1>5. ASSUME NEW i \in 1..(k + 1), NEW j \in 1..(k + 1), i < j PROVE <<g[i], g[j]>> \in R
  <2>1. i \in 1..k /\ g[i] = q[i]
    BY <1>4, <1>5
  <2>2. CASE j \in 1..k
    BY <1>4, <1>5, <2>1, <2>2 DEF Taken
  <2>3. CASE j = k + 1
    <3>1. x \in I /\ \A l \in 1..k : q[l] # x
      BY <1>1, <1>3 DEF rest
    <3> QED BY <1>4, <2>1, <2>3, <3>1 DEF Taken
  <2> QED BY <2>2, <2>3
<1>6. ASSUME NEW i \in 1..(k + 1), NEW y \in I, \A j \in 1..(k + 1) : g[j] # y
      PROVE  <<g[i], y>> \in R
  <2>1. \A j \in 1..k : q[j] # y
    <3>1. \A j \in 1..k : j \in 1..(k + 1)
      OBVIOUS
    <3> QED BY <1>4, <1>6, <3>1
  <2>2. CASE i \in 1..k
    BY <1>4, <2>1, <2>2 DEF Taken
  <2>3. CASE i = k + 1
    <3>1. y # x
      BY <1>4, <1>6, <2>3
    <3>2. y \in rest \ {x}
      BY <1>1, <2>1, <3>1 DEF rest
    <3> QED BY <1>3, <1>4, <2>3, <3>2
  <2> QED BY <2>2, <2>3
<1>7. Taken(g, I, R, k + 1)
  BY <1>4, <1>5, <1>6 DEF Taken
<1> QED BY <1>7 DEF g, x, rest

LEMMA OrderedFacts ==
  ASSUME NEW I, IsFiniteSet(I), NEW R, StrictOrder(R, I)
  PROVE  LET p == OrderedBy(I, R) IN
         /\ Taken(p, I, R, Cardinality(I)) /\ Cardinality(I) \in Nat
         /\ \A x \in I : \E k \in 1..Len(p) : p[k] = x
         /\ \A k, l \in 1..Len(p) : p[k] = p[l] => k = l
<1> DEFINE N == Cardinality(I)
           D == Seq(I \cup {Foremost({}, R)})
           Step(q) == Append(q, Foremost(I \ Range(q), R))
           step == [a \in D \X (1..N) |-> Step(a[1])]
           Is(f) == f = [k \in 0..N |-> IF k = 0 THEN <<>> ELSE Step(f[k - 1])]
           f == CHOOSE f : Is(f)
           S == {n \in Nat : n <= N => Taken(f[n], I, R, n)}
<1>0. N \in Nat
  BY FS_CardinalityType
<1>1. OrderedBy(I, R) = f[N]
  BY DEF OrderedBy
<1>2. Is(f)
  <2>1. step \in [D \X (1..N) -> D] /\ <<>> \in D
    <3> SUFFICES ASSUME NEW q \in D PROVE Step(q) \in D
      BY EmptySeq
    <3> DEFINE rest == I \ Range(q)
    <3>1. rest \in SUBSET I /\ IsFiniteSet(rest)
      BY FS_Subset
    <3> HIDE DEF rest
    <3>2. Foremost(rest, R) \in I \cup {Foremost({}, R)}
      <4>1. CASE rest = {}
        BY <4>1
      <4>2. CASE rest # {}
        <5>1. Firsts(R, rest) # {}
          BY <3>1, <4>2, SomeAreFirst
        <5>2. Foremost(rest, R) \in rest
          BY <5>1 DEF Firsts, Foremost
        <5> QED BY <3>1, <5>2
      <4> QED BY <4>1, <4>2
    <3> QED BY <3>2, AppendProperties DEF rest
  <2> HIDE DEF Step, D
  <2>2. PICK g : Steps(g, D, <<>>, step, N)
    BY <1>0, <2>1, StepsExist
  <2>3. ASSUME NEW k \in 1..N PROVE g[k] = Step(g[k - 1])
    <3> HIDE DEF step
    <3>1. g[k - 1] \in D /\ g[k] = step[<<g[k - 1], k>>]
      BY <1>0, <2>2 DEF Steps
    <3>2. step[<<g[k - 1], k>>] = Step(g[k - 1])
      BY <3>1 DEF step
    <3> QED BY <3>1, <3>2
  <2>4. DOMAIN g = 0..N /\ g = [k \in DOMAIN g |-> g[k]]
    BY <2>2 DEF Steps
  <2>5. ASSUME NEW k \in 0..N PROVE g[k] = IF k = 0 THEN <<>> ELSE Step(g[k - 1])
    <3>1. k = 0 \/ k \in 1..N
      BY <1>0
    <3>2. g[0] = <<>>
      BY <2>2 DEF Steps
    <3> QED BY <2>3, <3>1, <3>2
  <2>6. Is(g)
    BY <2>4, <2>5
  <2> QED BY <2>6
<1> HIDE DEF f
<1>3. f[0] = <<>> /\ \A k \in 1..N : f[k] = Step(f[k - 1])
  <2> HIDE DEF Step
  <2>a. \A k \in 0..N : f[k] = IF k = 0 THEN <<>> ELSE Step(f[k - 1])
    BY <1>2
  <2>1. 0 \in 0..N
    BY <1>0
  <2>2. ASSUME NEW k \in 1..N PROVE k \in 0..N /\ k # 0
    BY <1>0
  <2> QED BY <2>a, <2>1, <2>2
<1>4. 0 \in S
  <2>1. Taken(<<>>, I, R, 0)
    BY EmptySeq DEF Taken
  <2> QED BY <1>3, <2>1
<1> HIDE DEF N
<1>5. ASSUME NEW n \in S PROVE n + 1 \in S
  <2> SUFFICES ASSUME n + 1 <= N PROVE Taken(f[n + 1], I, R, n + 1)
    OBVIOUS
  <2>1. n \in Nat /\ n + 1 \in 1..N /\ n + 1 - 1 = n /\ n < N /\ Taken(f[n], I, R, n)
    BY <1>0
  <2>2. f[n + 1] = Step(f[n])
    <3> HIDE DEF Step
    <3>1. PICK k \in 1..N : k = n + 1 /\ k - 1 = n
      BY <2>1
    <3> QED BY <1>3, <3>1
  <2> QED BY <2>1, <2>2, TakesOneMore DEF N
<1> HIDE DEF S
<1>6. S = Nat
  <2>1. S \in SUBSET Nat
    BY DEF S
  <2> QED BY <1>4, <1>5, <2>1, Induct
<1> DEFINE p == OrderedBy(I, R)
<1>7. Taken(p, I, R, N)
  BY <1>0, <1>1, <1>6 DEF S
<1> HIDE DEF p
<1>8. p \in Seq(I) /\ Len(p) = N /\ \A k \in 1..N : p[k] \in I
  <2>1. p \in Seq(I) /\ Len(p) = N
    BY <1>7 DEF Taken
  <2> QED BY <2>1, ElementOfSeq
<1>9. \A k, l \in 1..N : p[k] = p[l] => k = l
  <2> SUFFICES ASSUME NEW k \in 1..N, NEW l \in 1..N, p[k] = p[l], k < l PROVE FALSE
    BY <1>0
  <2>1. <<p[k], p[l]>> \in R
    BY <1>7 DEF Taken
  <2> QED BY <1>8, <2>1 DEF StrictOrder
<1>10. Range(p) = I
  <2>1. IsFiniteSet(Range(p)) /\ Cardinality(Range(p)) = N
    BY <1>8, <1>9, RangeCounted
  <2>2. Range(p) \subseteq I
    BY <1>8, LenProperties DEF Range
  <2> QED BY <2>1, <2>2, FS_Subset DEF N
<1>11. \A x \in I : \E k \in 1..N : p[k] = x
  <2>1. DOMAIN p = 1..N
    BY <1>8, LenProperties
  <2> QED BY <1>10, <2>1 DEF Range
<1> QED BY <1>0, <1>7, <1>8, <1>9, <1>11 DEF p, N

(* The largest of some numbers.                                            *)
LEMMA LargestOf ==
  ASSUME NEW S \in SUBSET Nat, IsFiniteSet(S), S # {}
  PROVE  \E n \in S : \A m \in S : n >= m
<1> DEFINE R == {p \in Nat \X Nat : p[1] > p[2]}
<1>1. \A x, y \in Nat : <<x, y>> \in R <=> x > y
  OBVIOUS
<1> HIDE DEF R
<1>2. StrictOrder(R, Nat)
  BY <1>1 DEF StrictOrder
<1>3. Firsts(R, S) # {}
  BY <1>2, SomeAreFirst
<1>4. PICK n \in S : \A m \in S \ {n} : <<n, m>> \in R
  BY <1>3 DEF Firsts
<1>5. ASSUME NEW m \in S PROVE n >= m
  <2>1. n \in Nat /\ m \in Nat
    OBVIOUS
  <2>2. n = m \/ <<n, m>> \in R
    BY <1>4
  <2> QED BY <1>1, <2>1, <2>2
<1> QED BY <1>5

LEMMA LargerOfTwo ==
  ASSUME NEW a \in Int, NEW b \in Int
  PROVE  Max({a, b}) = IF a >= b THEN a ELSE b
<1>1. CASE a <= b
  BY <1>1 DEF Max
<1>2. CASE a > b
  BY <1>2 DEF Max
<1> QED BY <1>1, <1>2

LEMMA SmallerOfTwo ==
  ASSUME NEW a \in Int, NEW b \in Int
  PROVE  Min({a, b}) = IF a <= b THEN a ELSE b
<1>1. CASE a <= b
  BY <1>1 DEF Min
<1>2. CASE a > b
  BY <1>2 DEF Min
<1> QED BY <1>1, <1>2
===============================================================================
