----------------------------- MODULE LibraryProofs -----------------------------
(***************************************************************************)
(* The library calls: calls of models within their limits; the crop of a   *)
(* picture and the place of its subtitles, for pictures of any size; the   *)
(* bytes kept of a stream; the results read from a commentary; the spans   *)
(* of a lecture and their windows; the subtitles of a clip, a given one or *)
(* one of a plan; the candidates of a plan and which of them are selected; *)
(* and the moments of a game.                                              *)
(***************************************************************************)
EXTENDS Library, ModelRouting, BoundedCapture, DurationSplitFacts

-----------------------------------------------------------------------------
(* Calls of models.                                                        *)

RequiredFor(c) == RequiredTier(BaseTiers[c.task], c.reasons)
FrontierCalls == {c \in calls : c.selected = Frontier}

(* A call has a number of its own, and was given the tier that its task    *)
(* and its reasons require; what is left of a budget are the frontier      *)
(* calls not made yet.                                                     *)
Given(c) ==
  /\ c.n \in 0..(Cardinality(calls) - 1)
  /\ c.task \in DOMAIN BaseTiers /\ BaseTiers[c.task] # 0
  /\ c.base = BaseTiers[c.task]
  /\ c.selected = RequiredFor(c) /\ c.selected \in 1..3 /\ c.selected <= c.maximum
RoutingInv ==
  /\ budget \in Nat \cup {Unlimited} /\ IsFiniteSet(calls)
  /\ \A c \in calls : Given(c)
  /\ IF budget = Unlimited THEN remaining = Unlimited
     ELSE remaining \in Nat /\ remaining + Cardinality(FrontierCalls) = budget

LEMMA TierFacts ==
  ASSUME NEW base \in 0..3, NEW reasons
  PROVE  /\ RequiredTier(base, reasons) \in base..3
         /\ base # 0 => RequiredTier(base, reasons) # 0
         /\ reasons = {} => RequiredTier(base, reasons) = base
BY DEF RequiredTier, NextTier, Frontier

(* More reasons never require a lesser tier.                               *)
LEMMA TierGrows ==
  ASSUME NEW base \in 0..3, NEW few, NEW many, few \subseteq many
  PROVE  RequiredTier(base, few) <= RequiredTier(base, many)
BY DEF RequiredTier, NextTier, Frontier

LEMMA RoutingStep ==
  ASSUME RoutingInv, [RoutingNext]_routingVars
  PROVE  RoutingInv'
<1>1. CASE UNCHANGED routingVars
  BY <1>1 DEF routingVars, RoutingInv, Given, RequiredFor, FrontierCalls
<1>2. ASSUME NEW task \in DOMAIN BaseTiers, NEW reasons, NEW maximum \in 0..3,
             CallModel(task, reasons, maximum)
      PROVE  RoutingInv'
  <2> DEFINE request == [task |-> task, reasons |-> reasons, maximum |-> maximum,
                         remaining |-> remaining]
             required == RequiredTier(BaseTiers[task], reasons)
  <2>k. PICK k : k = Cardinality(calls)
    OBVIOUS
  <2>n. PICK new : new = [n |-> k, task |-> task, reasons |-> reasons, maximum |-> maximum,
                          base |-> BaseTiers[task], selected |-> required]
    OBVIOUS
  <2>1. PICK tier \in Route(request).selected \ {0} :
          /\ calls' = calls \cup {[new EXCEPT !.selected = tier]}
          /\ remaining' = IF tier = Frontier /\ remaining # Unlimited THEN remaining - 1
                          ELSE remaining
    BY <1>2, <2>k, <2>n DEF CallModel
  <2>2. /\ tier = required /\ required # 0 /\ required <= maximum
        /\ required = Frontier => remaining # 0
    BY <2>1, TierFacts, RoutingConstants DEF Route
  <2>3. /\ calls' = calls \cup {new} /\ budget' = budget
        /\ ValidRequest(request)
    BY <1>2, <2>1, <2>2, <2>n DEF CallModel
  <2>4. BaseTiers[task] \in 1..3 /\ required \in 1..3
    <3>1. BaseTiers[task] \in 0..3
      BY RoutingConstants
    <3>2. BaseTiers[task] # 0
      BY <2>2, <2>3, <3>1, TierFacts DEF ValidRequest
    <3> QED
      BY <2>2, <3>1, <3>2, TierFacts
  <2>5. k \in Nat /\ IsFiniteSet(calls) /\ new \notin calls
    <3>1. k \in Nat
      BY <2>k, FS_CardinalityType DEF RoutingInv
    <3> QED
      BY <3>1, <2>k, <2>n DEF RoutingInv, Given
  <2>6. IsFiniteSet(calls') /\ Cardinality(calls') = k + 1
    BY <2>3, <2>5, <2>k, FS_AddElement
  <2>7. new.n = k /\ new.task = task /\ new.reasons = reasons /\ new.maximum = maximum
        /\ new.base = BaseTiers[task] /\ new.selected = required
    BY <2>n
  <2>8. \A c \in calls' : Given(c)'
    <3>1. ASSUME NEW c \in calls PROVE Given(c)'
      BY <2>5, <2>6, <2>k, <3>1 DEF RoutingInv, Given, RequiredFor
    <3>2. Given(new)'
      BY <2>2, <2>4, <2>5, <2>6, <2>7 DEF Given, RequiredFor
    <3> QED BY <2>3, <3>1, <3>2
  <2>9. IF budget' = Unlimited THEN remaining' = Unlimited
        ELSE remaining' \in Nat /\ remaining' + Cardinality(FrontierCalls') = budget'
    <3>1. CASE budget = Unlimited
      BY <2>1, <2>3, <3>1 DEF RoutingInv
    <3>2. CASE budget # Unlimited
      <4>1. IsFiniteSet(FrontierCalls) /\ Cardinality(FrontierCalls) \in Nat
        BY <2>5, FS_Subset, FS_CardinalityType DEF FrontierCalls
      <4>2. remaining \in Nat /\ remaining + Cardinality(FrontierCalls) = budget
            /\ remaining # Unlimited
        BY <3>2, RoutingConstants DEF RoutingInv
      <4>3. CASE required = Frontier
        <5>1. FrontierCalls' = FrontierCalls \cup {new} /\ new \notin FrontierCalls
          BY <2>3, <2>5, <2>7, <4>3 DEF FrontierCalls
        <5>2. Cardinality(FrontierCalls') = Cardinality(FrontierCalls) + 1
          BY <4>1, <5>1, FS_AddElement
        <5> QED
          BY <2>1, <2>2, <2>3, <3>2, <4>1, <4>2, <4>3, <5>2
      <4>4. CASE required # Frontier
        <5>1. FrontierCalls' = FrontierCalls
          BY <2>3, <2>7, <4>4 DEF FrontierCalls
        <5> QED
          BY <2>1, <2>2, <2>3, <3>2, <4>2, <4>4, <5>1
      <4> QED BY <4>3, <4>4
    <3> QED BY <3>1, <3>2
  <2> QED
    BY <2>3, <2>6, <2>8, <2>9 DEF RoutingInv
<1> QED
  BY <1>1, <1>2 DEF RoutingNext, Frontier

LEMMA RoutingStart == RoutingInit => RoutingInv
<1> SUFFICES ASSUME RoutingInit PROVE RoutingInv
  OBVIOUS
<1>1. calls = {} /\ FrontierCalls = {}
  BY DEF RoutingInit, FrontierCalls
<1> QED
  BY <1>1, FS_EmptySet, RoutingConstants DEF RoutingInit, RoutingInv

(* A host that counts his frontier calls makes no more of them than his    *)
(* budget and none above his limit, each of them can be recorded, and more *)
(* reasons never lead to a lesser model (domain/model_routing.py).         *)
THEOREM LimitsAreKept ==
  RoutingInit /\ [][RoutingNext]_routingVars => []CallsKeepTheLimits
<1>1. RoutingInv /\ [RoutingNext]_routingVars => RoutingInv'
  BY RoutingStep
<1>2. ASSUME RoutingInv PROVE CallsKeepTheLimits
  <2>1. budget # Unlimited => Cardinality({c \in calls : c.selected = Frontier}) <= budget
    <3>1. Cardinality(FrontierCalls) \in Nat
      BY <1>2, FS_Subset, FS_CardinalityType DEF RoutingInv, FrontierCalls
    <3> QED
      BY <1>2, <3>1 DEF RoutingInv, FrontierCalls
  <2>2. ASSUME NEW c \in calls PROVE c.selected <= c.maximum /\ ValidRecord(c)
    <3> DEFINE request == [task |-> c.task, reasons |-> c.reasons, maximum |-> Frontier,
                           remaining |-> Unlimited]
    <3>1. Given(c) /\ BaseTiers[c.task] \in 0..3
      BY <1>2, RoutingConstants DEF RoutingInv, Given
    <3>2. Route(request).required = c.selected
      BY <3>1 DEF Route, Given, RequiredFor
    <3>3. c.selected >= c.base /\ (c.selected > c.base => c.reasons # {})
      BY <3>1, TierFacts DEF Given, RequiredFor
    <3> QED
      BY <3>1, <3>2, <3>3 DEF ValidRecord, Given
  <2>3. ASSUME NEW c \in calls, NEW d \in calls, c.task = d.task, c.reasons \subseteq d.reasons
        PROVE  c.selected <= d.selected
    <3>1. Given(c) /\ Given(d) /\ BaseTiers[c.task] \in 0..3
      BY <1>2, RoutingConstants DEF RoutingInv, Given
    <3> QED
      BY <2>3, <3>1, TierGrows DEF Given, RequiredFor
  <2> QED
    BY <2>1, <2>2, <2>3 DEF CallsKeepTheLimits
<1> QED
  BY RoutingStart, <1>1, <1>2, PTL

-----------------------------------------------------------------------------
(* Pictures: rounding first.                                               *)

LEMMA RoundIsNear ==
  ASSUME NEW n \in Int, NEW d \in Nat \ {0}
  PROVE  /\ Round(n, d) \in Int
         /\ 2 * (d * Round(n, d)) <= 2 * n + d
         /\ 2 * (d * Round(n, d)) >= 2 * n - d
<1> DEFINE q == n \div d
           r == n % d
<1>1. q \in Int /\ r \in Int /\ n = d * q + r /\ 0 <= r /\ r < d
  OBVIOUS
<1>2. d * (q + 1) = d * q + d
  BY <1>1
<1>3. Round(n, d) = q \/ Round(n, d) = q + 1
  BY DEF Round
<1>4. CASE 2 * r > d \/ (2 * r = d /\ q % 2 = 1)
  <2>1. Round(n, d) = q + 1
    BY <1>4 DEF Round
  <2> HIDE DEF q, r
  <2> QED BY <1>1, <1>2, <1>4, <2>1
<1>5. CASE ~(2 * r > d \/ (2 * r = d /\ q % 2 = 1))
  <2>1. Round(n, d) = q
    BY <1>5 DEF Round
  <2>2. 2 * r <= d
    BY <1>1, <1>5
  <2> HIDE DEF q, r
  <2> QED BY <1>1, <2>1, <2>2
<1> QED BY <1>4, <1>5

LEMMA EvenIsEven ==
  ASSUME NEW n \in Int, NEW d \in Nat \ {0}
  PROVE  /\ Even(n, d) \in Int /\ Even(n, d) % 2 = 0
         /\ Even(n, d) = Round(n, d) \/ Even(n, d) = Round(n, d) + 1
<1>1. PICK r \in Int : r = Round(n, d)
  BY RoundIsNear
<1> QED
  BY <1>1 DEF Even

LEMMA EvenIsPositive ==
  ASSUME NEW n \in Int, NEW d \in Nat \ {0}, n >= d
  PROVE  Even(n, d) \in Int /\ Even(n, d) % 2 = 0 /\ Even(n, d) >= 2
<1>1. PICK r \in Int : r = Round(n, d) /\ 2 * (d * r) >= 2 * n - d
  BY RoundIsNear
<1>2. r >= 1
  <2> SUFFICES ASSUME r <= 0 PROVE FALSE
    OBVIOUS
  <2>1. d * r <= 0
    OBVIOUS
  <2> QED BY <1>1, <2>1
<1> QED
  BY <1>1, <1>2 DEF Even

LEMMA FloorIsBelow ==
  ASSUME NEW n \in Nat, n >= 2
  PROVE  EvenFloor(n) \in 2..n /\ EvenFloor(n) % 2 = 0
BY DEF EvenFloor, Larger

LEMMA BoundedIsInside ==
  ASSUME NEW n \in Int, NEW d \in Nat \ {0}, NEW most \in Nat, most >= 2
  PROVE  /\ BoundedEven(n, d, most) \in Int
         /\ BoundedEven(n, d, most) % 2 = 0 /\ BoundedEven(n, d, most) <= most
<1>1. PICK a \in Int : a = Even(n, d) /\ a % 2 = 0
  BY EvenIsEven
<1>2. PICK b \in Int : b = EvenFloor(most) /\ b <= most /\ b % 2 = 0
  BY FloorIsBelow
<1> QED BY <1>1, <1>2 DEF BoundedEven, Smaller

(* _clamp: an even number in the range, and not far from the value it is   *)
(* the nearest to.                                                         *)
ClampedNear(at, n, d, most) ==
  \/ n <= 0 /\ at = 0
  \/ n >= d * most /\ at \in {most - 1, most}
  \/ 2 * (d * at) <= 2 * n + d /\ 2 * (d * at) >= 2 * n - 3 * d
LEMMA ClampIsInside ==
  ASSUME NEW n \in Int, NEW d \in Nat \ {0}, NEW most \in Nat
  PROVE  /\ Clamp(n, d, most) \in 0..most /\ Clamp(n, d, most) % 2 = 0
         /\ ClampedNear(Clamp(n, d, most), n, d, most)
<1> DEFINE near == IF n <= 0 THEN 0 ELSE IF n >= d * most THEN most ELSE Round(n, d)
<1>1. near \in 0..most
  <2>1. CASE 0 < n /\ n < d * most
    <3>1. PICK e \in Int : e = Round(n, d)
      BY RoundIsNear
    <3>2. 2 * (d * e) <= 2 * n + d /\ 2 * (d * e) >= 2 * n - d
      BY <3>1, RoundIsNear
    <3>3. ~(e >= most + 1)
      <4> SUFFICES ASSUME e >= most + 1 PROVE FALSE
        OBVIOUS
      <4>1. d * e >= d * (most + 1)
        OBVIOUS
      <4>2. d * (most + 1) = d * most + d
        OBVIOUS
      <4> QED BY <2>1, <3>2, <4>1, <4>2
    <3>4. ~(e <= -1)
      <4> SUFFICES ASSUME e <= -1 PROVE FALSE
        OBVIOUS
      <4>1. d * e <= -d
        OBVIOUS
      <4> QED BY <2>1, <3>2, <4>1
    <3> QED BY <2>1, <3>1, <3>3, <3>4
  <2> QED BY <2>1
<1>2. PICK r \in 0..most : r = near
  BY <1>1
<1>5. PICK c \in Int : c = Clamp(n, d, most) /\ c \in {r, r - 1} /\ c \in 0..most /\ c % 2 = 0
                      /\ (r = 0 => c = 0)
  <2>1. Clamp(n, d, most) = Larger(0, r - (r % 2))
    BY <1>2 DEF Clamp
  <2>2. r % 2 \in 0..1 /\ (r - (r % 2)) % 2 = 0 /\ r - (r % 2) \in 0..most
    OBVIOUS
  <2> QED BY <2>1, <2>2 DEF Larger
<1>3. CASE n <= 0 \/ n >= d * most
  BY <1>2, <1>3, <1>5 DEF ClampedNear
<1>4. CASE 0 < n /\ n < d * most
  <2>1. r = Round(n, d)
    BY <1>2, <1>4
  <2>2. 2 * (d * r) <= 2 * n + d /\ 2 * (d * r) >= 2 * n - d
    BY <2>1, RoundIsNear
  <2>4. d * (r - 1) = d * r - d
    OBVIOUS
  <2> HIDE DEF near
  <2> QED BY <1>5, <2>2, <2>4 DEF ClampedNear
<1> HIDE DEF near
<1> QED BY <1>3, <1>4

(* A size with even sides that fits into another one.                      *)
Fits(size, w, h) ==
  /\ size.w \in Int /\ size.h \in Int /\ size.w <= w /\ size.h <= h
  /\ size.w % 2 = 0 /\ size.h % 2 = 0

LEMMA CropFits ==
  ASSUME NEW w \in Nat, NEW h \in Nat, w >= 2, h >= 2
  PROVE  /\ Fits(CropSize(w, h), w, h)
         /\ CropSize(w, h).w >= 2 /\ CropSize(w, h).h >= 2
<1>1. PICK u \in 2..w, v \in 2..h : u = EvenFloor(w) /\ v = EvenFloor(h) /\ u % 2 = 0 /\ v % 2 = 0
  BY FloorIsBelow
<1>2. PICK a \in Int : a = Even(v * 9, 16) /\ a % 2 = 0 /\ a >= 2
  <2>1. v * 9 \in Int /\ v * 9 >= 16 /\ 16 \in Nat \ {0}
    OBVIOUS
  <2> QED BY <2>1, EvenIsPositive
<1>3. PICK b \in Int : b = Even(u * 16, 9) /\ b % 2 = 0 /\ b >= 2
  <2>1. u * 16 \in Int /\ u * 16 >= 9 /\ 9 \in Nat \ {0}
    OBVIOUS
  <2> QED BY <2>1, EvenIsPositive
<1>4. CropSize(w, h) = IF 16 * u >= 9 * v THEN [w |-> Smaller(u, a), h |-> v]
                       ELSE [w |-> u, h |-> Smaller(v, b)]
  BY <1>1, <1>2, <1>3 DEF CropSize
<1> QED
  BY <1>1, <1>2, <1>3, <1>4 DEF Fits, Smaller

LEMMA TargetIsEven ==
  ASSUME NEW f, ValidFrame(f), ~RefusesSize(f), NEW crop,
         crop.w \in Nat \ {0}, crop.h \in Nat \ {0}, crop.w % 2 = 0, crop.h % 2 = 0
  PROVE  LET want == VerticalTarget(f, crop)
         IN want.w \in Int /\ want.h \in Int /\ want.w > 0 /\ want.h > 0
            /\ want.w % 2 = 0 /\ want.h % 2 = 0
<1>1. CASE f.size # NoSize
  <2>1. f.size.w % 2 # 1 /\ f.size.h % 2 # 1
    BY <1>1 DEF RefusesSize
  <2>2. f.size.w \in Nat \ {0} /\ f.size.h \in Nat \ {0}
    BY <1>1 DEF ValidFrame
  <2>3. f.size.w % 2 = 0 /\ f.size.h % 2 = 0
    BY <2>1, <2>2
  <2> QED BY <1>1, <2>2, <2>3 DEF VerticalTarget
<1>2. CASE f.size = NoSize /\ f.mode = "source"
  BY <1>2 DEF VerticalTarget
<1>3. CASE f.size = NoSize /\ f.mode # "source"
  <2>1. PICK t \in Nat \ {0} : t = TargetHeights[f.mode] /\ t % 2 = 0
    BY <1>3, RenderingConstants DEF ValidFrame
  <2>2. PICK b \in Int : b = Even(t * 16, 9) /\ b % 2 = 0 /\ b > 0
    <3>1. t * 16 \in Int /\ t * 16 >= 9 /\ 9 \in Nat \ {0}
      OBVIOUS
    <3> QED BY <3>1, EvenIsPositive
  <2>3. VerticalTarget(f, crop) = [w |-> t, h |-> b]
    BY <1>3, <2>1, <2>2 DEF VerticalTarget
  <2> QED BY <2>1, <2>2, <2>3
<1> QED BY <1>1, <1>2, <1>3

LEMMA ScaledFits ==
  ASSUME NEW u \in Nat, NEW v \in Nat, u >= 2, v >= 2, NEW room, room.w = u, room.h = v,
         NEW want, want.w \in Int, want.h \in Int, want.w > 0, want.h > 0
  PROVE  Fits(ScaledTo(room, want), u, v)
<1>1. PICK a \in Nat \ {0}, b \in Nat \ {0} : want.w = a /\ want.h = b
  OBVIOUS
<1>2. b * u \in Int /\ a * v \in Int /\ u \in Int /\ v \in Int /\ 1 \in Nat \ {0}
  OBVIOUS
<1>3. \A n \in Int, d \in Nat \ {0} : /\ BoundedEven(n, d, u) \in Int /\ BoundedEven(n, d, u) % 2 = 0
                                    /\ BoundedEven(n, d, u) <= u
  BY BoundedIsInside
<1>4. \A n \in Int, d \in Nat \ {0} : /\ BoundedEven(n, d, v) \in Int /\ BoundedEven(n, d, v) % 2 = 0
                                    /\ BoundedEven(n, d, v) <= v
  BY BoundedIsInside
<1>5. \/ ScaledTo(room, want) = [w |-> BoundedEven(u, 1, u), h |-> BoundedEven(b * u, a, v)]
      \/ ScaledTo(room, want) = [w |-> BoundedEven(a * v, b, u), h |-> BoundedEven(v, 1, v)]
  BY <1>1 DEF ScaledTo
<1>6. CASE ScaledTo(room, want) = [w |-> BoundedEven(u, 1, u), h |-> BoundedEven(b * u, a, v)]
  <2>1. /\ BoundedEven(u, 1, u) \in Int /\ BoundedEven(u, 1, u) % 2 = 0 /\ BoundedEven(u, 1, u) <= u
    BY <1>2, <1>3, Zenon
  <2>2. /\ BoundedEven(b * u, a, v) \in Int /\ BoundedEven(b * u, a, v) % 2 = 0
        /\ BoundedEven(b * u, a, v) <= v
    BY <1>2, <1>4, Zenon
  <2> QED BY <1>6, <2>1, <2>2 DEF Fits
<1>7. CASE ScaledTo(room, want) = [w |-> BoundedEven(a * v, b, u), h |-> BoundedEven(v, 1, v)]
  <2>1. /\ BoundedEven(v, 1, v) \in Int /\ BoundedEven(v, 1, v) % 2 = 0 /\ BoundedEven(v, 1, v) <= v
    BY <1>2, <1>4, Zenon
  <2>2. /\ BoundedEven(a * v, b, u) \in Int /\ BoundedEven(a * v, b, u) % 2 = 0
        /\ BoundedEven(a * v, b, u) <= u
    BY <1>2, <1>3, Zenon
  <2> QED BY <1>7, <2>1, <2>2 DEF Fits
<1> QED BY <1>5, <1>6, <1>7

LEMMA ShareIsLess ==
  ASSUME NEW length \in Nat, NEW most \in Nat, NEW part \in Int, 0 <= part, part <= most
  PROVE  part * length \in Int /\ 0 <= part * length /\ part * length <= most * length
<1>1. PICK rest \in Nat : most = part + rest
  <2>1. most - part \in Nat /\ most = part + (most - part)
    OBVIOUS
  <2> QED BY <2>1
<1>2. part * length \in Nat /\ rest * length \in Nat
  OBVIOUS
<1>3. (part + rest) * length = part * length + rest * length
  OBVIOUS
<1> QED BY <1>1, <1>2, <1>3

(* A crop of a side: a part of the length of the picture, and where its    *)
(* start would have its anchor on the focus, n / d.                        *)
Crop(of, length, rest, point, shift, n, d) ==
  /\ of \in Int /\ length \in Int /\ rest \in Int /\ point \in Int /\ shift \in Int
  /\ n \in Int /\ d \in Int
  /\ 0 <= length /\ 0 <= rest /\ rest = of - length
  /\ n = 100 * point - shift /\ d = 100000
  /\ 0 <= point /\ point <= 1000 * of /\ 0 <= shift /\ shift <= 100000 * length
About(point, at, length) == 1000 * (at - 2) <= point /\ point <= 1000 * (at + length + 2)

LEMMA PlacedAbout ==
  ASSUME NEW of, NEW length, NEW rest, NEW point, NEW shift, NEW n, NEW d, NEW at, at \in Int,
         Crop(of, length, rest, point, shift, n, d), ClampedNear(at, n, d, rest)
  PROVE  About(point, at, length)
<1>1. CASE n <= 0 /\ at = 0
  BY <1>1, SMT DEF Crop, About
<1>2. CASE n >= d * rest /\ at \in {rest - 1, rest}
  BY <1>2, SMT DEF Crop, About
<1>3. CASE 2 * (d * at) <= 2 * n + d /\ 2 * (d * at) >= 2 * n - 3 * d
  BY <1>3, SMT DEF Crop, About
<1> QED
  BY <1>1, <1>2, <1>3, SMT DEF ClampedNear

(* The crop lies in the picture on each side, near its focus.              *)
LEMMA PlacedInside ==
  ASSUME NEW of, NEW length, NEW rest, NEW point, NEW shift, NEW n, NEW d,
         Crop(of, length, rest, point, shift, n, d)
  PROVE  Inside(Clamp(n, d, rest), length, of) /\ About(point, Clamp(n, d, rest), length)
<1>1. /\ n \in Int /\ d \in Nat \ {0} /\ rest \in Nat
      /\ of \in Int /\ length \in Int /\ rest = of - length
  BY SMT DEF Crop
<1>2. Clamp(n, d, rest) \in 0..rest /\ Clamp(n, d, rest) % 2 = 0 /\ ClampedNear(Clamp(n, d, rest), n, d, rest)
  BY <1>1, ClampIsInside, SMT
<1>3. PICK at \in Int : at = Clamp(n, d, rest)
  BY <1>2, SMT
<1>4. 0 <= at /\ at <= rest /\ at % 2 = 0 /\ ClampedNear(at, n, d, rest)
  BY <1>2, <1>3, SMT
<1>5. Inside(at, length, of)
  BY <1>1, <1>4, SMT DEF Inside
<1> QED
  BY <1>3, <1>4, <1>5, PlacedAbout, SMT

Side(of, length, focus, anchor) ==
  /\ of \in Nat /\ length \in Nat /\ length <= of
  /\ focus \in Int /\ 0 <= focus /\ focus <= 1000
  /\ anchor \in Int /\ 0 <= anchor /\ anchor <= 100000
LEMMA CropPlaced ==
  ASSUME NEW of, NEW length, NEW focus, NEW anchor, Side(of, length, focus, anchor)
  PROVE  LET at == Clamp(100 * focus * of - anchor * length, 100000, of - length)
         IN  Inside(at, length, of) /\ Near(focus, at, length, of)
<1>0. /\ of \in Nat /\ length \in Nat /\ length <= of
      /\ focus \in Int /\ 0 <= focus /\ focus <= 1000
      /\ anchor \in Int /\ 0 <= anchor /\ anchor <= 100000
  BY SMT DEF Side
<1>1. focus * of \in Int /\ 0 <= focus * of /\ focus * of <= 1000 * of
  BY <1>0, ShareIsLess, SMT
<1>2. anchor * length \in Int /\ 0 <= anchor * length /\ anchor * length <= 100000 * length
  BY <1>0, ShareIsLess, SMT
<1>3. 100 * focus * of - anchor * length \in Int
      /\ 100 * focus * of - anchor * length = 100 * (focus * of) - anchor * length
  BY <1>0, SMT
<1>4. Crop(of, length, of - length, focus * of, anchor * length,
           100 * focus * of - anchor * length, 100000)
  BY <1>0, <1>1, <1>2, <1>3, SMT DEF Crop
<1> DEFINE point == focus * of
           shift == anchor * length
           n == 100 * focus * of - anchor * length
           d == 100000
           rest == of - length
           at == Clamp(n, d, rest)
<1>5. point \in Int /\ shift \in Int /\ n \in Int /\ d \in Int /\ rest \in Int
  BY <1>0, <1>1, <1>2, <1>3, SMT
<1>8. point = focus * of
  BY SMT
<1>6. Crop(of, length, rest, point, shift, n, d)
  BY <1>4, SMT
<1>7. Inside(at, length, of) /\ Near(focus, at, length, of)
  <2> HIDE DEF point, shift, n, d, rest
  <2>1. Inside(at, length, of) /\ About(point, at, length)
    BY <1>5, <1>6, PlacedInside, SMT
  <2> HIDE DEF at
  <2> QED BY <1>8, <2>1, SMT DEF About, Near
<1> QED
  BY <1>7, SMT

LEMMA AnchorIsInside ==
  ASSUME NEW f, ValidFrame(f)
  PROVE  /\ AnchorOf(f).x \in Int /\ 0 <= AnchorOf(f).x /\ AnchorOf(f).x <= 100000
         /\ AnchorOf(f).y \in Int /\ 0 <= AnchorOf(f).y /\ AnchorOf(f).y <= 100000
<1>1. CASE f.how = "fixed_subject"
  <2>1. PICK l \in Nat, r \in Nat, t \in Nat, b \in Nat :
          /\ l = f.safe.left /\ r = f.safe.right /\ t = f.safe.top /\ b = f.safe.bottom
          /\ l + r <= 1000 /\ t + b <= 1000
    BY SMT DEF ValidFrame, Leaves
  <2>2. AnchorOf(f) = [x |-> 100 * l + 50 * (1000 - l - r), y |-> 100 * t + 33 * (1000 - t - b)]
    BY <1>1, <2>1, SMT DEF AnchorOf, Anchor
  <2> QED BY <2>1, <2>2, SMT
<1>2. CASE f.how # "fixed_subject"
  <2>1. AnchorOf(f).x = 50000 /\ AnchorOf(f).y = 50000
    BY <1>2, SMT DEF AnchorOf
  <2> QED BY <2>1, SMT
<1> QED BY <1>1, <1>2, SMT

LEMMA FocusIsInside ==
  ASSUME NEW f, ValidFrame(f)
  PROVE  Ratio(FocusOf(f).x) /\ Ratio(FocusOf(f).y)
BY SMT DEF FocusOf, ValidFrame, Ratio

LEMMA CropOfAFrame ==
  ASSUME NEW f, ValidFrame(f), f.how # "center_crop", NEW w \in Int, NEW h \in Int, NEW crop,
         crop.w \in Int, crop.h \in Int, 0 <= crop.w, crop.w <= w, 0 <= crop.h, crop.h <= h
  PROVE  LET at == CropAt(f, crop, w, h) IN
         /\ Inside(at.x, crop.w, w) /\ Inside(at.y, crop.h, h)
         /\ Near(FocusOf(f).x, at.x, crop.w, w) /\ Near(FocusOf(f).y, at.y, crop.h, h)
<1>1. /\ FocusOf(f).x \in Int /\ 0 <= FocusOf(f).x /\ FocusOf(f).x <= 1000
      /\ FocusOf(f).y \in Int /\ 0 <= FocusOf(f).y /\ FocusOf(f).y <= 1000
  BY FocusIsInside, SMT DEF Ratio
<1>2. /\ AnchorOf(f).x \in Int /\ 0 <= AnchorOf(f).x /\ AnchorOf(f).x <= 100000
      /\ AnchorOf(f).y \in Int /\ 0 <= AnchorOf(f).y /\ AnchorOf(f).y <= 100000
  BY AnchorIsInside, SMT
<1> DEFINE x == Clamp(100 * FocusOf(f).x * w - AnchorOf(f).x * crop.w, 100000, w - crop.w)
           y == Clamp(100 * FocusOf(f).y * h - AnchorOf(f).y * crop.h, 100000, h - crop.h)
<1>3. CropAt(f, crop, w, h).x = x /\ CropAt(f, crop, w, h).y = y
  BY SMT DEF CropAt
<1>4. Inside(x, crop.w, w) /\ Near(FocusOf(f).x, x, crop.w, w)
  <2>1. Side(w, crop.w, FocusOf(f).x, AnchorOf(f).x)
    BY <1>1, <1>2, SMT DEF Side
  <2> QED BY <2>1, CropPlaced, SMT
<1>5. Inside(y, crop.h, h) /\ Near(FocusOf(f).y, y, crop.h, h)
  <2>1. Side(h, crop.h, FocusOf(f).y, AnchorOf(f).y)
    BY <1>1, <1>2, SMT DEF Side
  <2> QED BY <2>1, CropPlaced, SMT
<1> HIDE DEF x, y
<1> QED
  BY <1>3, <1>4, <1>5, SMT

LEMMA CenterIsInside ==
  ASSUME NEW of \in Nat, NEW length \in Int, 0 <= length, length <= of
  PROVE  Inside(Clamp(of - length, 2, of - length), length, of)
<1>1. PICK rest \in Nat : rest = of - length
  BY SMT
<1>2. 2 \in Nat \ {0} /\ rest \in Int
  BY SMT
<1>3. Clamp(rest, 2, rest) \in 0..rest /\ Clamp(rest, 2, rest) % 2 = 0
  BY <1>2, ClampIsInside, SMT
<1> QED
  BY <1>1, <1>3, SMT DEF Inside

LEMMA CropIsInside ==
  ASSUME NEW f, ValidFrame(f), NEW w \in Int, NEW h \in Int, NEW crop,
         crop.w \in Int, crop.h \in Int, 0 <= crop.w, crop.w <= w, 0 <= crop.h, crop.h <= h
  PROVE  LET at == CropAt(f, crop, w, h) IN
         /\ Inside(at.x, crop.w, w) /\ Inside(at.y, crop.h, h)
         /\ f.how # "center_crop" =>
              Near(FocusOf(f).x, at.x, crop.w, w) /\ Near(FocusOf(f).y, at.y, crop.h, h)
<1>1. CASE f.how = "center_crop"
  <2>1. CropAt(f, crop, w, h) = [x |-> Clamp(w - crop.w, 2, w - crop.w),
                                 y |-> Clamp(h - crop.h, 2, h - crop.h)]
    BY <1>1, SMT DEF CropAt
  <2>2. Inside(Clamp(w - crop.w, 2, w - crop.w), crop.w, w)
    BY CenterIsInside, SMT
  <2>3. Inside(Clamp(h - crop.h, 2, h - crop.h), crop.h, h)
    BY CenterIsInside, SMT
  <2> QED BY <1>1, <2>1, <2>2, <2>3, SMT
<1>2. CASE f.how # "center_crop"
  BY <1>2, CropOfAFrame, SMT
<1> QED BY <1>1, <1>2

LEMMA SizeFits ==
  ASSUME NEW f, ValidFrame(f), NEW w \in Nat, NEW h \in Nat, w >= 2, h >= 2,
         "error" \notin DOMAIN ResolveReframe(f, w, h)
  PROVE  LET r == ResolveReframe(f, w, h) IN
         /\ r.crop = CropSize(w, h)
         /\ r.at = IF f.how = "fit_background" THEN NoSize ELSE CropAt(f, r.crop, w, h)
         /\ r.size.w % 2 = 0 /\ r.size.h % 2 = 0
         /\ f.upscale \/ (r.size.w <= w /\ r.size.h <= h)
<1> DEFINE r == ResolveReframe(f, w, h)
           crop == CropSize(w, h)
           want == VerticalTarget(f, crop)
           room == IF f.how = "fit_background" THEN [w |-> w, h |-> h] ELSE crop
<1>1. /\ ~RefusesSize(f) /\ f.how \notin {"none", "tracked_focus"}
      /\ r = Reframed(f, crop, room, want, w, h)
  BY SMT DEF ResolveReframe
<1>2. /\ r.crop = crop /\ r.size = (IF f.upscale \/ ~TooSmall(room, want) THEN want ELSE ScaledTo(room, want))
      /\ r.at = IF f.how = "fit_background" THEN NoSize ELSE CropAt(f, crop, w, h)
  BY <1>1, SMT DEF Reframed
<1>3. Fits(crop, w, h) /\ crop.w >= 2 /\ crop.h >= 2
  BY CropFits, SMT
<1>4. /\ room.w \in Nat /\ room.h \in Nat /\ room.w >= 2 /\ room.h >= 2 /\ room.w <= w /\ room.h <= h
  BY <1>3, SMT DEF Fits
<1>5. /\ want.w \in Int /\ want.h \in Int /\ want.w > 0 /\ want.h > 0
      /\ want.w % 2 = 0 /\ want.h % 2 = 0
  <2>1. crop.w \in Nat \ {0} /\ crop.h \in Nat \ {0} /\ crop.w % 2 = 0 /\ crop.h % 2 = 0
    BY <1>3, SMT DEF Fits
  <2> HIDE DEF crop
  <2> QED BY <1>1, <2>1, TargetIsEven, SMT
<1> HIDE DEF crop, want, room, r
<1>6. r.size.w % 2 = 0 /\ r.size.h % 2 = 0 /\ (f.upscale \/ (r.size.w <= w /\ r.size.h <= h))
  <2>1. CASE f.upscale \/ ~TooSmall(room, want)
    <3>1. f.upscale \/ (want.w <= room.w /\ want.h <= room.h)
      BY <1>4, <1>5, <2>1, SMT DEF TooSmall
    <3> QED BY <1>2, <1>4, <1>5, <2>1, <3>1, SMT
  <2>2. CASE ~(f.upscale \/ ~TooSmall(room, want))
    <3>1. PICK u \in Nat, v \in Nat : u = room.w /\ v = room.h /\ u >= 2 /\ v >= 2 /\ u <= w /\ v <= h
      BY <1>4, SMT
    <3>2. Fits(ScaledTo(room, want), u, v)
      BY <1>5, <3>1, ScaledFits, SMT
    <3> QED BY <1>2, <2>2, <3>1, <3>2, SMT DEF Fits
  <2> QED BY <2>1, <2>2
<1> QED
  BY <1>2, <1>6, SMT DEF r, crop

-----------------------------------------------------------------------------
(* What a picture was made to is what the code computes from its size.     *)
PictureInv ==
  /\ input \in Inputs
  /\ picture # None =>
       /\ input.kind = "picture" /\ picture.does \in {"reframe", "resize", "layout"}
       /\ picture.does = "reframe" =>
            /\ picture.spec \in Frames
            /\ picture.result = ResolveReframe(picture.spec, input.w, input.h)
       /\ picture.does = "layout" =>
            /\ picture.spec \in Layouts
            /\ picture.area = SafeArea(picture.spec.given, picture.spec.platform, input.w, input.h)
            /\ picture.overlay = OverlayHeight(picture.spec, picture.area, input.h)
            /\ picture.edge = EdgeMargin(picture.spec, picture.area)

LEMMA PictureStep ==
  ASSUME PictureInv, [LibraryNext]_libraryVars
  PROVE  PictureInv'
<1>1. CASE UNCHANGED <<input, picture>>
  BY <1>1 DEF PictureInv
<1>2. ASSUME NEW frame \in Frames, Reframe(frame) PROVE PictureInv'
  BY <1>2 DEF Reframe, PictureInv
<1>3. ASSUME NEW spec \in Resolutions, Resize(spec) PROVE PictureInv'
  BY <1>3 DEF Resize, PictureInv
<1>4. ASSUME NEW layout \in Layouts, LayOut(layout) PROVE PictureInv'
  <2>1. PICK area \in {SafeArea(layout.given, layout.platform, input.w, input.h)} :
          picture' = [does |-> "layout", spec |-> layout, area |-> area,
                      overlay |-> OverlayHeight(layout, area, input.h),
                      edge |-> EdgeMargin(layout, area),
                      margins |-> AssMargins(layout, area, input.h),
                      sides |-> HorizontalMargin(layout, area, input.w)]
    BY <1>4 DEF LayOut
  <2>2. area = SafeArea(layout.given, layout.platform, input.w, input.h)
        /\ input' = input /\ input.kind = "picture"
    BY <1>4, <2>1 DEF LayOut
  <2> QED
    BY <2>1, <2>2 DEF PictureInv
<1>5. CASE UNCHANGED libraryVars
  BY <1>1, <1>5 DEF libraryVars
<1>6. CASE \/ ReadLecture \/ ProposeEducational \/ CreatePlan \/ DetectSports \/ ProposeSports
           \/ \E said \in Sayings : PlanEducational(said)
           \/ \E said \in SportsSayings : PlanSports(said)
           \/ \E c \in ClipsToShow, spec \in SubtitleSpecs, host \in Hosts : ProcessSubtitles(c, spec, host)
  BY <1>1, <1>6 DEF ReadLecture, ProposeEducational, CreatePlan, DetectSports, ProposeSports,
                    PlanEducational, PlanSports, ProcessSubtitles
<1> QED
  BY <1>2, <1>3, <1>4, <1>5, <1>6 DEF LibraryNext

(* A reframed clip shows a part of the picture that lies in it, with what  *)
(* the host points at, and comes out with even sides and no larger than it *)
(* was unless that is allowed: for pictures of any size (resolve_reframe). *)
THEOREM SubjectIsKept ==
  LibraryInit /\ [][LibraryNext]_libraryVars => []SubjectStaysInside
<1>1. LibraryInit => PictureInv
  BY DEF LibraryInit, PictureInv
<1>2. PictureInv /\ [LibraryNext]_libraryVars => PictureInv'
  BY PictureStep
<1>3. ASSUME PictureInv PROVE SubjectStaysInside
  <2> SUFFICES ASSUME picture # None, picture.does = "reframe",
                      "error" \notin DOMAIN picture.result, input.w >= 2, input.h >= 2
               PROVE  LET r == picture.result  spec == picture.spec  focus == FocusOf(spec) IN
                      /\ r.at # NoSize =>
                           /\ Inside(r.at.x, r.crop.w, input.w) /\ Inside(r.at.y, r.crop.h, input.h)
                           /\ spec.how # "center_crop" =>
                                /\ Near(focus.x, r.at.x, r.crop.w, input.w)
                                /\ Near(focus.y, r.at.y, r.crop.h, input.h)
                      /\ r.size.w % 2 = 0 /\ r.size.h % 2 = 0
                      /\ spec.upscale \/ (r.size.w <= input.w /\ r.size.h <= input.h)
    BY Zenon DEF SubjectStaysInside
  <2>0. /\ input.w \in Nat /\ input.h \in Nat /\ ValidFrame(picture.spec)
        /\ picture.result = ResolveReframe(picture.spec, input.w, input.h)
    BY <1>3, PictureConstants, SMT DEF PictureInv
  <2>w. PICK w \in Nat : w = input.w
    BY <2>0, Zenon
  <2>h. PICK h \in Nat : h = input.h
    BY <2>0, Zenon
  <2>f. PICK f : f = picture.spec
    OBVIOUS
  <2>1. /\ f = picture.spec /\ w = input.w /\ h = input.h /\ w >= 2 /\ h >= 2
        /\ ValidFrame(f) /\ picture.result = ResolveReframe(f, w, h)
    BY <2>0, <2>w, <2>h, <2>f, SMT
  <2>2. PICK r, crop : /\ r = picture.result /\ r.crop = crop /\ crop = CropSize(w, h)
                       /\ r.at = IF f.how = "fit_background" THEN NoSize ELSE CropAt(f, crop, w, h)
                       /\ r.size.w % 2 = 0 /\ r.size.h % 2 = 0
                       /\ f.upscale \/ (r.size.w <= w /\ r.size.h <= h)
    BY <2>1, SizeFits, SMT
  <2>3. crop.w \in Int /\ crop.h \in Int /\ 0 <= crop.w /\ crop.w <= w /\ 0 <= crop.h /\ crop.h <= h
    BY <2>1, <2>2, CropFits, SMT DEF Fits
  <2>4. LET at == CropAt(f, crop, w, h) IN
        /\ Inside(at.x, crop.w, w) /\ Inside(at.y, crop.h, h)
        /\ f.how # "center_crop" =>
             Near(FocusOf(f).x, at.x, crop.w, w) /\ Near(FocusOf(f).y, at.y, crop.h, h)
    BY <2>1, <2>3, CropIsInside, SMT
  <2> QED
    BY <2>1, <2>2, <2>4, SMT
<1> QED
  BY <1>1, <1>2, <1>3, PTL

-----------------------------------------------------------------------------
(* Subtitles that are burned in.                                           *)

LEMMA RoundIsWhole ==
  ASSUME NEW n \in Int, NEW d \in Nat \ {0}
  PROVE  Round(n, d) \in Int
BY RoundIsNear

LEMMA FontIsWhole ==
  ASSUME NEW preferred \in Nat, NEW h \in Nat
  PROVE  FontSize(preferred, h) \in Int
<1>1. Round(preferred * h, 720) \in Int
  <2>1. preferred * h \in Int /\ 720 \in Nat \ {0}
    BY SMT
  <2> QED BY <2>1, RoundIsWhole, SMT
<1> QED BY <1>1, SMT DEF FontSize, Larger

LEMMA DesiredIsWhole ==
  ASSUME NEW l, ValidLayout(l), NEW h \in Nat
  PROVE  Desired(l, h) \in Int
<1>1. PICK a \in Int : a = FontSize(l.font, h)
  BY FontIsWhole, SMT DEF ValidLayout
<1>2. PICK b \in Int : b = IF l.bilingual THEN FontSize(l.translationFont, h) ELSE 0
  BY FontIsWhole, SMT DEF ValidLayout
<1>3. PICK k \in Nat : k = l.lines
  BY SMT DEF ValidLayout
<1>4. (a + b) * k * 135 + 1600 \in Int /\ 100 \in Nat \ {0}
  BY SMT
<1>5. Desired(l, h) = Round((a + b) * k * 135 + 1600, 100)
  BY <1>1, <1>2, <1>3, SMT DEF Desired
<1> QED BY <1>4, <1>5, RoundIsWhole, SMT

(* The overlay is one line, or at most what the safe area leaves and at    *)
(* most a fifth of the picture.                                            *)
LEMMA OverlayFits ==
  ASSUME NEW l, ValidLayout(l), NEW area, area.top \in Int, area.bottom \in Int, NEW h \in Nat
  PROVE  /\ OverlayHeight(l, area, h) \in Int
         /\ \/ OverlayHeight(l, area, h) = 1
            \/ /\ OverlayHeight(l, area, h) <= h - area.top - area.bottom
               /\ 2000 * OverlayHeight(l, area, h) <= 400 * h + 1000
<1>1. PICK share \in Nat : share = (IF l.bilingual THEN 200 ELSE 140) /\ share <= 200
  BY SMT DEF ValidLayout
<1>2. h * share \in Int /\ h * share <= 200 * h
  BY <1>1, SMT
<1>3. PICK part \in Int : part = Round(h * share, 1000) /\ 2000 * part <= 400 * h + 1000
  <2>1. h * share \in Int /\ 1000 \in Nat \ {0}
    BY <1>2, SMT
  <2>2. Round(h * share, 1000) \in Int /\ 2 * (1000 * Round(h * share, 1000)) <= 2 * (h * share) + 1000
    BY <2>1, RoundIsNear, SMT
  <2> QED BY <1>2, <2>2, SMT
<1>4. PICK wanted \in Int : wanted = Desired(l, h)
  BY DesiredIsWhole
<1>5. PICK left \in Int : left = h - area.top - area.bottom
  BY SMT
<1>6. OverlayHeight(l, area, h) = Larger(1, Smaller(Larger(32, wanted), Smaller(part, left)))
  BY <1>1, <1>3, <1>4, <1>5, SMT DEF OverlayHeight
<1> QED
  BY <1>3, <1>5, <1>6, SMT DEF Larger, Smaller

(* Of two shares of a height that leave a tenth of it.                     *)
Edges(h, t, b) ==
  /\ h \in Nat /\ t \in Nat /\ b \in Nat
  /\ h >= 144 /\ t <= 450 /\ b <= 450 /\ t + b <= 899
LEMMA EdgesLeaveRoom ==
  ASSUME NEW h, NEW t, NEW b, Edges(h, t, b)
  PROVE  /\ Round(h * t, 1000) \in Int /\ Round(h * b, 1000) \in Int
         /\ 2000 * Round(h * t, 1000) <= 900 * h + 1000
         /\ 2000 * Round(h * b, 1000) <= 900 * h + 1000
         /\ Round(h * t, 1000) + Round(h * b, 1000) <= h - 1
<1>0. /\ h \in Nat /\ t \in Nat /\ b \in Nat
      /\ h >= 144 /\ t <= 450 /\ b <= 450 /\ t + b <= 899
  BY DEF Edges
<1>1. /\ t * h \in Int /\ t * h <= 450 * h /\ b * h \in Int /\ b * h <= 450 * h
      /\ (t + b) * h <= 899 * h /\ (t + b) * h = t * h + b * h
  BY <1>0, ShareIsLess, SMT
<1>2. h * t = t * h /\ h * b = b * h
  BY <1>0, SMT
<1>3. PICK p \in Int : p = h * t /\ p <= 450 * h
  BY <1>1, <1>2, SMT
<1>4. PICK q \in Int : q = h * b /\ q <= 450 * h /\ p + q <= 899 * h
  BY <1>1, <1>2, <1>3, SMT
<1>5. 1000 \in Nat \ {0}
  BY SMT
<1>6. PICK x \in Int : x = Round(p, 1000) /\ 2 * (1000 * x) <= 2 * p + 1000
  <2>1. Round(p, 1000) \in Int /\ 2 * (1000 * Round(p, 1000)) <= 2 * p + 1000
    BY <1>5, RoundIsNear, SMT
  <2> QED BY <2>1, SMT
<1>7. PICK y \in Int : y = Round(q, 1000) /\ 2 * (1000 * y) <= 2 * q + 1000
  <2>1. Round(q, 1000) \in Int /\ 2 * (1000 * Round(q, 1000)) <= 2 * q + 1000
    BY <1>5, RoundIsNear, SMT
  <2> QED BY <2>1, SMT
<1>8. 2000 * x <= 900 * h + 1000 /\ 2000 * y <= 900 * h + 1000 /\ x + y <= h - 1
  BY <1>0, <1>3, <1>4, <1>6, <1>7, SMT
<1> QED BY <1>3, <1>4, <1>6, <1>7, <1>8, SMT

LEMMA AreaLeavesRoom ==
  ASSUME NEW l, ValidLayout(l), NEW w, NEW h \in Nat, h >= 144, NEW area,
         area = SafeArea(l.given, l.platform, w, h)
  PROVE  /\ area.top \in Int /\ area.bottom \in Int
         /\ 2000 * area.top <= 900 * h + 1000 /\ 2000 * area.bottom <= 900 * h + 1000
         /\ area.top + area.bottom <= h - 1
<1>1. /\ l.given.top \in Nat /\ l.given.bottom \in Nat /\ l.given.top <= 450 /\ l.given.bottom <= 450
      /\ l.given.top + l.given.bottom <= 899
      /\ l.platform.top \in Nat /\ l.platform.bottom \in Nat
      /\ l.platform.top <= 120 /\ l.platform.bottom <= 250
  BY SMT DEF ValidLayout, Leaves
<1>2. PICK t \in Nat : t = Larger(l.given.top, l.platform.top) /\ t <= 450
                       /\ (t = l.given.top \/ t <= 120)
  BY <1>1, SMT DEF Larger
<1>3. PICK b \in Nat : b = Larger(l.given.bottom, l.platform.bottom) /\ b <= 450
                       /\ (b = l.given.bottom \/ b <= 250)
  BY <1>1, SMT DEF Larger
<1>4. Edges(h, t, b)
  BY <1>1, <1>2, <1>3, SMT DEF Edges
<1>5. area.top = Round(h * t, 1000) /\ area.bottom = Round(h * b, 1000)
  BY <1>2, <1>3, SMT DEF SafeArea
<1>6. /\ Round(h * t, 1000) \in Int /\ Round(h * b, 1000) \in Int
      /\ 2000 * Round(h * t, 1000) <= 900 * h + 1000
      /\ 2000 * Round(h * b, 1000) <= 900 * h + 1000
      /\ Round(h * t, 1000) + Round(h * b, 1000) <= h - 1
  BY <1>4, EdgesLeaveRoom, SMT
<1> QED
  BY <1>5, <1>6, SMT

(* The overlay that a line is drawn in stays clear of both safe areas, in  *)
(* every picture of at least 144 lines and with every layout whose margin  *)
(* is at most the default one (_burn_with_macos_system_font).              *)
THEOREM SubtitleIsKeptInside ==
  LibraryInit /\ [][LibraryNext]_libraryVars => []SubtitleStaysInSafeArea
<1>1. LibraryInit => PictureInv
  BY DEF LibraryInit, PictureInv
<1>2. PictureInv /\ [LibraryNext]_libraryVars => PictureInv'
  BY PictureStep
<1>3. ASSUME PictureInv PROVE SubtitleStaysInSafeArea
  <2> SUFFICES ASSUME picture # None, picture.does = "layout", input.h >= 144,
                      picture.spec.margin <= 48
               PROVE  LET inner == picture.edge  outer == picture.edge + picture.overlay
                          near == IF picture.spec.atTop THEN picture.area.top ELSE picture.area.bottom
                          far == IF picture.spec.atTop THEN picture.area.bottom ELSE picture.area.top
                      IN near <= inner /\ outer <= input.h - far
    BY SMT DEF SubtitleStaysInSafeArea
  <2>1. /\ input.h \in Nat /\ ValidLayout(picture.spec)
        /\ picture.area = SafeArea(picture.spec.given, picture.spec.platform, input.w, input.h)
        /\ picture.overlay = OverlayHeight(picture.spec, picture.area, input.h)
        /\ picture.edge = EdgeMargin(picture.spec, picture.area)
    BY <1>3, PictureConstants, SMT DEF PictureInv
  <2>2. PICK h \in Nat : h = input.h /\ h >= 144
    BY <2>1, SMT
  <2>a. /\ picture.area.top \in Int /\ picture.area.bottom \in Int
        /\ 2000 * picture.area.top <= 900 * h + 1000 /\ 2000 * picture.area.bottom <= 900 * h + 1000
        /\ picture.area.top + picture.area.bottom <= h - 1
    BY <2>1, <2>2, AreaLeavesRoom, SMT
  <2>t. PICK top \in Int : top = picture.area.top
    BY <2>a, SMT
  <2>b. PICK bottom \in Int : bottom = picture.area.bottom
    BY <2>a, SMT
  <2>3. /\ top = picture.area.top /\ bottom = picture.area.bottom
        /\ 2000 * top <= 900 * h + 1000 /\ 2000 * bottom <= 900 * h + 1000 /\ top + bottom <= h - 1
    BY <2>a, <2>t, <2>b, SMT
  <2>4. PICK overlay \in Int :
          /\ overlay = picture.overlay
          /\ overlay = 1 \/ (overlay <= h - top - bottom /\ 2000 * overlay <= 400 * h + 1000)
    BY <2>1, <2>2, <2>3, OverlayFits, SMT
  <2>5. PICK margin \in Nat : margin = picture.spec.margin /\ margin <= 48
    BY <2>1, SMT DEF ValidLayout
  <2>6. picture.edge = Larger(margin, IF picture.spec.atTop THEN top ELSE bottom)
    BY <2>1, <2>3, <2>5, SMT DEF EdgeMargin
  <2>7. CASE picture.spec.atTop
    BY <2>2, <2>3, <2>4, <2>5, <2>6, <2>7, SMT DEF Larger
  <2>8. CASE ~picture.spec.atTop
    BY <2>2, <2>3, <2>4, <2>5, <2>6, <2>8, SMT DEF Larger
  <2> QED
    BY <2>7, <2>8
<1> QED
  BY <1>1, <1>2, <1>3, PTL

-----------------------------------------------------------------------------
(* The capture of a stream, for any limits and any chunks.                 *)
LEMMA LimitFacts ==
  /\ HeadLimit \in Nat \ {0} /\ TailLimit \in Nat \ {0}
  /\ Limit \in Nat /\ HeadLimit + TailLimit <= Limit
BY CaptureConstants DEF Limit

LEMMA LastFacts ==
  ASSUME NEW S, NEW s \in Seq(S), NEW n \in Nat \ {0}
  PROVE  /\ LastOf(s, n) \in Seq(S)
         /\ Len(LastOf(s, n)) = IF Len(s) <= n THEN Len(s) ELSE n
         /\ \A i \in 1..Len(LastOf(s, n)) :
              LastOf(s, n)[i] = s[Len(s) - Len(LastOf(s, n)) + i]
<1>1. Len(s) \in Nat /\ \A i \in 1..Len(s) : s[i] \in S
  BY LenProperties, ElementOfSeq
<1>2. CASE Len(s) <= n
  BY <1>1, <1>2 DEF LastOf
<1>3. CASE Len(s) > n
  <2>1. LastOf(s, n) = SubSeq(s, Len(s) - n + 1, Len(s))
    BY <1>1, <1>3 DEF LastOf
  <2>2. \A i \in (Len(s) - n + 1)..Len(s) : s[i] \in S
    BY <1>1, <1>3
  <2>3. Len(s) - n + 1 \in Int /\ Len(s) \in Int
    BY <1>1
  <2> HIDE DEF LastOf
  <2> QED BY <1>1, <1>3, <2>1, <2>2, <2>3, SubSeqProperties
<1> QED BY <1>1, <1>2, <1>3

LEMMA FirstFacts ==
  ASSUME NEW S, NEW s \in Seq(S), NEW n \in Nat \ {0}
  PROVE  /\ FirstOf(s, n) \in Seq(S)
         /\ Len(FirstOf(s, n)) = IF Len(s) <= n THEN Len(s) ELSE n
         /\ \A i \in 1..Len(FirstOf(s, n)) : FirstOf(s, n)[i] = s[i]
<1>1. Len(s) \in Nat /\ \A i \in 1..Len(s) : s[i] \in S
  BY LenProperties, ElementOfSeq
<1>2. CASE Len(s) <= n
  BY <1>1, <1>2 DEF FirstOf
<1>3. CASE Len(s) > n
  <2>1. FirstOf(s, n) = SubSeq(s, 1, n)
    BY <1>1, <1>3 DEF FirstOf
  <2>2. \A i \in 1..n : s[i] \in S
    BY <1>1, <1>3
  <2> QED BY <1>1, <1>3, <2>1, <2>2, SubSeqProperties
<1> QED BY <1>1, <1>2, <1>3

(* Sequences that agree from the end have the same last n elements.        *)
LEMMA LastEqual ==
  ASSUME NEW S, NEW v \in Seq(S), NEW w \in Seq(S), NEW n \in Nat \ {0},
         Len(v) = Len(w) \/ (Len(v) >= n /\ Len(w) >= n),
         \A j \in 0..(n - 1) : j < Len(v) => v[Len(v) - j] = w[Len(w) - j]
  PROVE  LastOf(v, n) = LastOf(w, n)
<1> DEFINE a == LastOf(v, n)
           b == LastOf(w, n)
<1>1. Len(v) \in Nat /\ Len(w) \in Nat
  BY LenProperties
<1>2. /\ a \in Seq(S) /\ Len(a) = (IF Len(v) <= n THEN Len(v) ELSE n)
      /\ \A i \in 1..Len(a) : a[i] = v[Len(v) - Len(a) + i]
  BY LastFacts
<1>3. /\ b \in Seq(S) /\ Len(b) = (IF Len(w) <= n THEN Len(w) ELSE n)
      /\ \A i \in 1..Len(b) : b[i] = w[Len(w) - Len(b) + i]
  BY LastFacts
<1> HIDE DEF a, b
<1>4. Len(a) = Len(b) /\ Len(a) \in Nat /\ Len(a) <= n /\ Len(a) <= Len(v)
  BY <1>1, <1>2, <1>3
<1>5. ASSUME NEW i \in 1..Len(a) PROVE a[i] = b[i]
  <2> DEFINE j == Len(a) - i
  <2>1. j \in 0..(n - 1) /\ j < Len(v)
    BY <1>1, <1>4
  <2>2. v[Len(v) - j] = w[Len(w) - j]
    BY <2>1
  <2>3. Len(v) - j = Len(v) - Len(a) + i /\ Len(w) - j = Len(w) - Len(b) + i
    BY <1>1, <1>4
  <2> HIDE DEF j
  <2> QED BY <1>2, <1>3, <1>4, <2>2, <2>3
<1>6. a = b
  BY <1>2, <1>3, <1>4, <1>5, SeqEqual
<1> QED BY <1>6 DEF a, b

(* The last n bytes need only the last n bytes so far and the new chunk.   *)
LEMMA LastSlides ==
  ASSUME NEW S, NEW s \in Seq(S), NEW t \in Seq(S), NEW n \in Nat \ {0}
  PROVE  LastOf(LastOf(s, n) \o t, n) = LastOf(s \o t, n)
<1> DEFINE u == LastOf(s, n)
           v == u \o t
           w == s \o t
<1>1. /\ u \in Seq(S) /\ Len(u) = (IF Len(s) <= n THEN Len(s) ELSE n)
      /\ \A i \in 1..Len(u) : u[i] = s[Len(s) - Len(u) + i]
  BY LastFacts
<1> HIDE DEF u
<1>2. Len(s) \in Nat /\ Len(t) \in Nat /\ Len(u) \in Nat
  BY <1>1, LenProperties
<1>3. /\ v \in Seq(S) /\ Len(v) = Len(u) + Len(t)
      /\ \A i \in 1..(Len(u) + Len(t)) : v[i] = IF i <= Len(u) THEN u[i] ELSE t[i - Len(u)]
  BY <1>1, ConcatProperties
<1>4. /\ w \in Seq(S) /\ Len(w) = Len(s) + Len(t)
      /\ \A i \in 1..(Len(s) + Len(t)) : w[i] = IF i <= Len(s) THEN s[i] ELSE t[i - Len(s)]
  BY ConcatProperties
<1> HIDE DEF v, w
<1>5. Len(v) = Len(w) \/ (Len(v) >= n /\ Len(w) >= n)
  BY <1>1, <1>2, <1>3, <1>4
<1>6. ASSUME NEW j \in 0..(n - 1), j < Len(v) PROVE v[Len(v) - j] = w[Len(w) - j]
  <2>1. Len(v) - j \in 1..(Len(u) + Len(t)) /\ Len(w) - j \in 1..(Len(s) + Len(t))
    BY <1>1, <1>2, <1>3, <1>4, <1>6
  <2>2. CASE j < Len(t)
    <3>1. v[Len(v) - j] = t[Len(v) - j - Len(u)] /\ w[Len(w) - j] = t[Len(w) - j - Len(s)]
      <4>1. ~(Len(v) - j <= Len(u)) /\ ~(Len(w) - j <= Len(s))
        BY <1>2, <1>3, <1>4, <2>2
      <4>2. v[Len(v) - j] = t[Len(v) - j - Len(u)]
        BY <1>3, <2>1, <4>1
      <4>3. w[Len(w) - j] = t[Len(w) - j - Len(s)]
        BY <1>4, <2>1, <4>1
      <4> QED BY <4>2, <4>3
    <3>2. Len(v) - j - Len(u) = Len(w) - j - Len(s)
      BY <1>2, <1>3, <1>4
    <3> QED BY <3>1, <3>2
  <2>3. CASE j >= Len(t)
    <3>1. v[Len(v) - j] = u[Len(v) - j] /\ w[Len(w) - j] = s[Len(w) - j]
      <4>1. Len(v) - j <= Len(u) /\ Len(w) - j <= Len(s)
        BY <1>2, <1>3, <1>4, <2>3
      <4>2. v[Len(v) - j] = u[Len(v) - j]
        BY <1>3, <2>1, <4>1
      <4>3. w[Len(w) - j] = s[Len(w) - j]
        BY <1>4, <2>1, <4>1
      <4> QED BY <4>2, <4>3
    <3>2. Len(v) - j \in 1..Len(u)
      BY <1>2, <1>3, <2>1, <2>3
    <3>3. Len(s) - Len(u) + (Len(v) - j) = Len(w) - j
      BY <1>2, <1>3, <1>4
    <3> QED BY <1>1, <3>1, <3>2, <3>3
  <2> QED BY <1>2, <2>2, <2>3
<1>7. LastOf(v, n) = LastOf(w, n)
  BY <1>3, <1>4, <1>5, <1>6, LastEqual
<1> QED BY <1>7 DEF u, v, w

(* The first n bytes do not change once there are n.                       *)
LEMMA FirstStays ==
  ASSUME NEW S, NEW s \in Seq(S), NEW t \in Seq(S), NEW n \in Nat \ {0}, n <= Len(s)
  PROVE  FirstOf(s \o t, n) = FirstOf(s, n)
<1>1. Len(s) \in Nat /\ Len(t) \in Nat
  BY LenProperties
<1>2. /\ s \o t \in Seq(S) /\ Len(s \o t) = Len(s) + Len(t)
      /\ \A i \in 1..(Len(s) + Len(t)) :
           (s \o t)[i] = IF i <= Len(s) THEN s[i] ELSE t[i - Len(s)]
  BY ConcatProperties
<1>3. /\ FirstOf(s, n) \in Seq(S) /\ Len(FirstOf(s, n)) = n
      /\ \A i \in 1..n : FirstOf(s, n)[i] = s[i]
  BY <1>1, FirstFacts
<1>4. /\ FirstOf(s \o t, n) \in Seq(S) /\ Len(FirstOf(s \o t, n)) = n
      /\ \A i \in 1..n : FirstOf(s \o t, n)[i] = (s \o t)[i]
  <2> DEFINE w == s \o t
  <2>1. w \in Seq(S) /\ Len(w) >= n /\ Len(w) \in Nat
    BY <1>1, <1>2
  <2> HIDE DEF w
  <2>2. /\ FirstOf(w, n) \in Seq(S) /\ Len(FirstOf(w, n)) = n
        /\ \A i \in 1..n : FirstOf(w, n)[i] = w[i]
    BY <2>1, FirstFacts
  <2> QED BY <2>2 DEF w
<1>5. \A i \in 1..n : (s \o t)[i] = s[i]
  BY <1>1, <1>2
<1> QED BY <1>3, <1>4, <1>5, SeqEqual

(* Until the limit is crossed all is in the buffer, afterwards nothing is. *)
Counted == total = Len(fed)
Whole == total <= Limit => buffer = fed /\ head = <<>> /\ tail = <<>>
Cut == total > Limit =>
  buffer = <<>> /\ head = FirstOf(fed, HeadLimit) /\ tail = LastOf(fed, TailLimit)
IInv == TypeOK /\ Counted /\ Whole /\ Cut

LEMMA IInvInit == Init => IInv
BY LimitFacts DEF Init, IInv, TypeOK, Counted, Whole, Cut

LEMMA IInvStep ==
  ASSUME IInv, [Next]_vars
  PROVE  IInv'
<1>1. CASE UNCHANGED vars
  BY <1>1 DEF vars, IInv, TypeOK, Counted, Whole, Cut
<1>2. ASSUME NEW n \in 1..MaxBytes, NEW chunk \in [1..n -> Bytes], Feed(chunk)
      PROVE  IInv'
  <2>1. chunk \in Seq(Bytes) /\ Len(chunk) = n /\ n \in Nat
    BY CaptureConstants
  <2>2. fed' \in Seq(Bytes) /\ Len(fed') = Len(fed) + n /\ fed' = fed \o chunk
    BY <1>2, <2>1, ConcatProperties DEF Feed, IInv, TypeOK
  <2>3. total' \in Nat /\ total' = total + n /\ Counted'
    BY <1>2, <2>1, <2>2 DEF Feed, IInv, TypeOK, Counted
  <2>4. CASE total <= Limit
    <3>1. buffer = fed /\ Collect(chunk) /\ head = <<>> /\ tail = <<>>
      BY <1>2, <2>4 DEF Feed, IInv, Whole
    <3>2. CASE total' <= Limit
      <4>1. buffer' = fed' /\ head' = <<>> /\ tail' = <<>>
        BY <2>2, <2>3, <3>1, <3>2 DEF Collect, Counted, IInv
      <4> QED BY <2>2, <2>3, <3>2, <4>1, LimitFacts, EmptySeq DEF IInv, TypeOK, Whole, Cut
    <3>3. CASE total' > Limit
      <4>1. /\ head' = FirstOf(fed', HeadLimit) /\ tail' = LastOf(fed', TailLimit)
            /\ buffer' = <<>>
        BY <2>2, <2>3, <3>1, <3>3, LimitFacts DEF Collect, Counted, IInv
      <4>2. head' \in Seq(Bytes) /\ tail' \in Seq(Bytes) /\ buffer' \in Seq(Bytes)
        BY <2>2, <4>1, LimitFacts, FirstFacts, LastFacts, EmptySeq
      <4> QED BY <2>2, <2>3, <3>3, <4>1, <4>2, LimitFacts DEF IInv, TypeOK, Whole, Cut
    <3> QED BY <2>3, <3>2, <3>3, LimitFacts
  <2>5. CASE total > Limit
    <3>1. fed \in Seq(Bytes) /\ Len(fed) \in Nat /\ HeadLimit <= Len(fed)
      BY <2>5, LimitFacts, LenProperties DEF IInv, TypeOK, Counted
    <3>2. /\ head = FirstOf(fed, HeadLimit) /\ tail = LastOf(fed, TailLimit)
          /\ buffer = <<>>
      BY <2>5 DEF IInv, Cut
    <3>3. Len(head) = HeadLimit
      BY <3>1, <3>2, LimitFacts, FirstFacts
    <3>4. head # <<>>
      BY <3>3, LimitFacts, EmptySeq
    <3>5. Slide(chunk)
      BY <1>2, <3>4 DEF Feed
    <3>6. tail' = LastOf(fed', TailLimit)
      BY <2>1, <2>2, <3>1, <3>2, <3>5, LimitFacts, LastSlides DEF Slide
    <3>7. head' = FirstOf(fed', HeadLimit)
      BY <2>1, <2>2, <3>1, <3>2, <3>5, LimitFacts, FirstStays DEF Slide
    <3>8. buffer' = <<>>
      BY <3>2, <3>5 DEF Slide
    <3>9. head' \in Seq(Bytes) /\ tail' \in Seq(Bytes) /\ buffer' \in Seq(Bytes)
      BY <2>2, <3>6, <3>7, <3>8, LimitFacts, FirstFacts, LastFacts, EmptySeq
    <3>10. total' > Limit
      BY <2>1, <2>3, <2>5, LimitFacts DEF IInv, TypeOK
    <3> QED
      BY <2>2, <2>3, <3>6, <3>7, <3>8, <3>9, <3>10, LimitFacts DEF IInv, TypeOK, Whole, Cut
  <2> QED BY <2>4, <2>5, LimitFacts DEF IInv, TypeOK
<1> QED BY <1>1, <1>2 DEF Next

(* However the bytes are cut into chunks, the text is that of all of them. *)
THEOREM TextIsOfTheBytes == Spec => []TextIsExact
<1>1. IInv /\ [Next]_vars => IInv'
  BY IInvStep
<1>2. IInv => TextIsExact
  BY LimitFacts DEF IInv, TypeOK, Whole, Cut, TextIsExact, truncated
<1> QED BY IInvInit, <1>1, <1>2, PTL DEF Spec

(* The capture never holds more than its limit between two chunks.         *)
THEOREM MemoryHolds == Spec => []MemoryIsBounded
<1>1. IInv /\ [Next]_vars => IInv'
  BY IInvStep
<1>2. ASSUME IInv PROVE MemoryIsBounded
  <2>1. CASE total <= Limit
    BY <1>2, <2>1, LimitFacts, EmptySeq DEF IInv, TypeOK, Counted, Whole, MemoryIsBounded
  <2>2. CASE total > Limit
    <3>1. fed \in Seq(Bytes) /\ Len(fed) \in Nat /\ Len(fed) > Limit
      BY <1>2, <2>2, LenProperties DEF IInv, TypeOK, Counted
    <3>2. Len(head) = HeadLimit /\ Len(tail) = TailLimit /\ Len(buffer) = 0
      BY <1>2, <2>2, <3>1, LimitFacts, FirstFacts, LastFacts, EmptySeq DEF IInv, Cut
    <3> QED BY <3>2, LimitFacts DEF MemoryIsBounded
  <2> QED BY <1>2, <2>1, <2>2, LimitFacts DEF IInv, TypeOK
<1> QED BY IInvInit, <1>1, <1>2, PTL DEF Spec

-----------------------------------------------------------------------------
(* Commentaries.                                                           *)

(* What the n-th segment of a commentary says by itself.                   *)
Heard(said, n) == DetectSegment(said[n], ContextOf(said, n))
OneOfAType(found) == \A i, j \in 1..Len(found) : i # j => found[i].type # found[j].type
Cancelling(s, context) == Assertion(s.text) = "cancelled" /\ "retrospective" \notin context

LEMMA FirstOfTypesFacts ==
  ASSUME NEW U, NEW found \in Seq(U)
  PROVE  /\ FirstOfTypes(found) \in Seq(U) /\ OneOfAType(FirstOfTypes(found))
         /\ \A x \in Range(FirstOfTypes(found)) : x \in Range(found)
<1> DEFINE I == {n \in DOMAIN found : \A k \in 1..(n - 1) : found[k].type # found[n].type}
           t == Those(found, I)
           p == Increasing(I, Len(found))
<1>1. FirstOfTypes(found) = t
  BY DEF FirstOfTypes
<1> HIDE DEF I
<1>2. /\ AllInOrder(p, I, Len(found)) /\ Len(found) \in Nat /\ t \in Seq(U) /\ Len(t) = Len(p)
      /\ \A k \in 1..Len(t) : p[k] \in 1..Len(found) /\ t[k] = found[p[k]]
  BY ThoseFacts
<1>3. Range(t) = {found[n] : n \in I \cap 1..Len(found)}
  BY ThoseHas
<1> HIDE DEF t, p
<1>4. ASSUME NEW i \in 1..Len(t), NEW j \in 1..Len(t), i < j PROVE t[i].type # t[j].type
  <2>1. p[i] < p[j] /\ p[i] \in 1..Len(found) /\ p[j] \in I
    BY <1>2, <1>4 DEF AllInOrder
  <2>2. p[i] \in 1..(p[j] - 1)
    BY <1>2, <2>1
  <2>3. found[p[i]].type # found[p[j]].type
    BY <2>1, <2>2 DEF I
  <2> QED BY <1>2, <2>3
<1>5. ASSUME NEW i \in 1..Len(t), NEW j \in 1..Len(t), i # j PROVE t[i].type # t[j].type
  <2>1. i < j \/ j < i
    BY <1>2, <1>5, LenProperties
  <2> QED BY <1>4, <2>1
<1>6. \A x \in Range(t) : x \in Range(found)
  BY <1>3 DEF Range
<1> QED BY <1>1, <1>2, <1>5, <1>6 DEF OneOfAType

(* A segment's observations are of different types and have its times; a   *)
(* cancellation is the only one of its segment.                            *)
LEMMA DetectedIn ==
  ASSUME NEW s, NEW context, ValidRules(s.text.rules),
         NEW found, found = DetectSegment(s, context)
  PROVE  /\ found \in Seq(Range(found)) /\ OneOfAType(found)
         /\ \A d \in Range(found) :
              /\ d.segment = s.id /\ d.start = s.start /\ d.end = s.end
              /\ d.signal = "cancelled_score" => Cancelling(s, context)
         /\ Cancelling(s, context) =>
              \E c : found = <<c>> /\ c.signal = "cancelled_score" /\ c.type = "controversy"
<1> DEFINE c == Detection(s, "controversy", "cancelled_score", 92, TRUE, {})
           rules == s.text.rules
           ruled == [n \in DOMAIN rules |-> Ruled(s, rules[n])]
<1>1. CASE found = <<>>
  <2>0. \A x : <<x>> # <<>>
    OBVIOUS
  <2>1. ~Cancelling(s, context)
    BY <1>1, <2>0 DEF DetectSegment, Cancelling
  <2> QED BY <1>1, <2>1 DEF OneOfAType, Range
<1>2. CASE found = <<c>> /\ Cancelling(s, context)
  <2>1. /\ c.segment = s.id /\ c.start = s.start /\ c.end = s.end
        /\ c.signal = "cancelled_score" /\ c.type = "controversy"
    BY DEF Detection
  <2> HIDE DEF c
  <2>2. Range(<<c>>) = {c} /\ Len(<<c>>) = 1 /\ <<c>> \in Seq({c})
    BY DEF Range
  <2> QED BY <1>2, <2>1, <2>2 DEF OneOfAType
<1>3. CASE found = FirstOfTypes(ruled) /\ ~Cancelling(s, context)
  <2>1. /\ DOMAIN rules = 1..Len(rules) /\ Len(rules) \in Nat
        /\ \A n \in 1..Len(rules) : rules[n].signal # "cancelled_score"
    BY DEF ValidRules, Range
  <2>2. \A n \in 1..Len(rules) :
          /\ ruled[n].segment = s.id /\ ruled[n].start = s.start /\ ruled[n].end = s.end
          /\ ruled[n].signal # "cancelled_score"
    BY <2>1 DEF Ruled, Detection
  <2>3. ruled = [n \in 1..Len(rules) |-> ruled[n]]
    BY <2>1
  <2> HIDE DEF ruled
  <2>4. ruled \in Seq(Range(ruled)) /\ Len(ruled) = Len(rules) /\ DOMAIN ruled = 1..Len(rules)
    BY <2>1, <2>3, FunctionIsSeq
  <2>5. /\ found \in Seq(Range(ruled)) /\ OneOfAType(found)
        /\ \A x \in Range(found) : x \in Range(ruled)
    BY <1>3, <2>4, FirstOfTypesFacts
  <2>6. \A x \in Range(found) :
          x.segment = s.id /\ x.start = s.start /\ x.end = s.end /\ x.signal # "cancelled_score"
    BY <2>2, <2>4, <2>5 DEF Range
  <2>7. found \in Seq(Range(found))
    BY <2>5 DEF Range
  <2> QED BY <1>3, <2>5, <2>6, <2>7
<1> QED
  BY <1>1, <1>2, <1>3 DEF DetectSegment, Cancelling

-----------------------------------------------------------------------------
(* What a commentary says up to its n-th segment.                          *)

SaidIn(said, x, k) == k \in 1..Len(said) /\ x \in Range(Heard(said, k))
AllHeard(said) == UNION {Range(Heard(said, k)) : k \in 1..Len(said)}
Commentary(said) ==
  InOrder(said) /\ \A s \in Range(said) : ValidRules(s.text.rules)

InSegments(f, said, n) ==
  /\ f \in Seq(AllHeard(said))
  /\ \A i \in 1..Len(f) : \E k \in 1..n : SaidIn(said, f[i], k)
  /\ \A i, j \in 1..Len(f) : \A k, l \in 1..Len(said) :
       i < j /\ SaidIn(said, f[i], k) /\ SaidIn(said, f[j], l) =>
         k <= l /\ (k = l => f[i].type # f[j].type)

LEMMA HeardFacts ==
  ASSUME NEW said, Commentary(said)
  PROVE  /\ Len(said) \in Nat /\ DOMAIN said = 1..Len(said)
         /\ \A n \in 1..Len(said) :
              /\ Heard(said, n) \in Seq(AllHeard(said)) /\ OneOfAType(Heard(said, n))
              /\ \A d \in Range(Heard(said, n)) :
                   /\ d.segment = said[n].id /\ d.start = said[n].start /\ d.end = said[n].end
                   /\ d.signal = "cancelled_score" => Cancelling(said[n], ContextOf(said, n))
              /\ Cancelling(said[n], ContextOf(said, n)) =>
                   \E c : Heard(said, n) = <<c>> /\ c.signal = "cancelled_score" /\ c.type = "controversy"
         /\ \A x, k, l : SaidIn(said, x, k) /\ SaidIn(said, x, l) => k = l
         /\ \A k, l \in 1..Len(said) : said[k].id = said[l].id => k = l
<1>1. Len(said) \in Nat /\ DOMAIN said = 1..Len(said)
  BY LenProperties DEF Commentary, InOrder
<1>2. ASSUME NEW n \in 1..Len(said)
      PROVE  /\ Heard(said, n) \in Seq(AllHeard(said)) /\ OneOfAType(Heard(said, n))
             /\ \A d \in Range(Heard(said, n)) :
                  /\ d.segment = said[n].id /\ d.start = said[n].start /\ d.end = said[n].end
                  /\ d.signal = "cancelled_score" => Cancelling(said[n], ContextOf(said, n))
             /\ Cancelling(said[n], ContextOf(said, n)) =>
                  \E c : Heard(said, n) = <<c>> /\ c.signal = "cancelled_score" /\ c.type = "controversy"
  <2>1. ValidRules(said[n].text.rules)
    BY <1>1 DEF Commentary, Range
  <2> DEFINE found == Heard(said, n)
  <2>2. found = DetectSegment(said[n], ContextOf(said, n))
    BY DEF Heard
  <2>d. Range(found) \subseteq AllHeard(said)
    BY DEF AllHeard
  <2> HIDE DEF found
  <2>3. /\ found \in Seq(Range(found)) /\ OneOfAType(found)
        /\ \A d \in Range(found) :
             /\ d.segment = said[n].id /\ d.start = said[n].start /\ d.end = said[n].end
             /\ d.signal = "cancelled_score" => Cancelling(said[n], ContextOf(said, n))
        /\ Cancelling(said[n], ContextOf(said, n)) =>
             \E c : found = <<c>> /\ c.signal = "cancelled_score" /\ c.type = "controversy"
    BY <2>1, <2>2, DetectedIn
  <2>4. found \in Seq(AllHeard(said))
    BY <2>d, <2>3, SeqMonotonic
  <2> QED BY <2>3, <2>4 DEF found
<1>3. ASSUME NEW k \in 1..Len(said), NEW l \in 1..Len(said), said[k].id = said[l].id PROVE k = l
  <2>1. k < l \/ l < k \/ k = l
    BY <1>1
  <2> QED BY <1>1, <1>3, <2>1 DEF Commentary, InOrder, ForSomeTime
<1>4. ASSUME NEW x, NEW k, NEW l, SaidIn(said, x, k), SaidIn(said, x, l) PROVE k = l
  <2>1. x.segment = said[k].id /\ x.segment = said[l].id /\ k \in 1..Len(said) /\ l \in 1..Len(said)
    BY <1>2, <1>4 DEF SaidIn
  <2> QED BY <1>3, <2>1
<1> QED BY <1>1, <1>2, <1>3, <1>4

(* Leaving some out, in order.                                             *)
LEMMA RemovingKeepsOrder ==
  ASSUME NEW said, NEW n, NEW f, InSegments(f, said, n), NEW r \in 1..Len(f)
  PROVE  InSegments(RemoveAt(f, r), said, n)
<1> DEFINE g == RemoveAt(f, r)
           old(k) == IF k < r THEN k ELSE k + 1
<1>1. f \in Seq(AllHeard(said)) /\ Len(f) \in Nat /\ r \in Nat
  BY LenProperties DEF InSegments
<1>2. /\ g \in Seq(AllHeard(said)) /\ Len(g) = Len(f) - 1
      /\ \A k \in 1..(Len(f) - 1) : g[k] = f[old(k)]
  <2>1. /\ g \in Seq(AllHeard(said)) /\ Len(g) = Len(f) - 1
        /\ \A k \in 1..(r - 1) : g[k] = f[k]
        /\ \A k \in r..(Len(f) - 1) : g[k] = f[k + 1]
    BY <1>1, RemoveAtFacts
  <2> HIDE DEF g
  <2>2. ASSUME NEW k \in 1..(Len(f) - 1) PROVE g[k] = f[old(k)]
    <3>1. CASE k < r
      <4>1. k \in 1..(r - 1) /\ old(k) = k
        BY <1>1, <3>1
      <4> QED BY <2>1, <4>1
    <3>2. CASE ~(k < r)
      <4>1. k \in r..(Len(f) - 1) /\ old(k) = k + 1
        BY <1>1, <3>2
      <4> QED BY <2>1, <4>1
    <3> QED BY <3>1, <3>2
  <2> QED BY <2>1, <2>2
<1>3. \A k \in 1..(Len(f) - 1) : old(k) \in 1..Len(f)
  BY <1>1
<1>4. \A i, j \in 1..(Len(f) - 1) : i < j => old(i) < old(j)
  BY <1>1
<1> HIDE DEF g, old
<1>5. Len(f) - 1 = Len(g) /\ \A i \in 1..Len(f) : \E k \in 1..n : SaidIn(said, f[i], k)
  BY <1>2 DEF InSegments
<1>6. \A i, j \in 1..Len(f) : \A k, l \in 1..Len(said) :
        i < j /\ SaidIn(said, f[i], k) /\ SaidIn(said, f[j], l) =>
          k <= l /\ (k = l => f[i].type # f[j].type)
  BY DEF InSegments
<1>7. \A i \in 1..Len(g) : \E k \in 1..n : SaidIn(said, g[i], k)
  BY <1>2, <1>3, <1>5
<1>8. ASSUME NEW i \in 1..Len(g), NEW j \in 1..Len(g), NEW k \in 1..Len(said),
             NEW l \in 1..Len(said),
             i < j, SaidIn(said, g[i], k), SaidIn(said, g[j], l)
      PROVE  k <= l /\ (k = l => g[i].type # g[j].type)
  <2>1. /\ old(i) \in 1..Len(f) /\ old(j) \in 1..Len(f) /\ old(i) < old(j)
        /\ g[i] = f[old(i)] /\ g[j] = f[old(j)]
    BY <1>2, <1>3, <1>4, <1>5, <1>8
  <2> QED BY <1>6, <1>8, <2>1
<1> QED BY <1>2, <1>7, <1>8 DEF InSegments, g

(* Adding what the next segment says.                                      *)
AddsOf(g, f, current, n) ==
  /\ g \in [0..n -> Seq(Range(current) \cup Range(f))] /\ g[0] = f
  /\ \A k \in 1..n : g[k] \in {g[k - 1], Append(g[k - 1], current[k])}

LEMMA AddAllSteps ==
  ASSUME NEW U, NEW f \in Seq(U), NEW current \in Seq(U)
  PROVE  \E g : AddsOf(g, f, current, Len(current)) /\ AddAll(f, current) = g[Len(current)]
<1> DEFINE N == Len(current)
           D == Seq(Range(current) \cup Range(f))
           step == [a \in D \X (1..N) |-> AddDetection(a[1], current[a[2]])]
           Is(g) == g = [n \in 0..N |-> IF n = 0 THEN f ELSE AddDetection(g[n - 1], current[n])]
           h == CHOOSE h : Is(h)
<1>1. N \in Nat /\ \A k \in 1..N : current[k] \in Range(current)
  BY LenProperties DEF Range
<1>2. f \in D
  BY LenProperties DEF Range
<1>3. step \in [D \X (1..N) -> D]
  <2> SUFFICES ASSUME NEW a \in D, NEW k \in 1..N PROVE AddDetection(a, current[k]) \in D
    OBVIOUS
  <2>1. Append(a, current[k]) \in D
    BY <1>1, AppendProperties
  <2> QED BY <2>1 DEF AddDetection
<1>4. AddAll(f, current) = h[N]
  BY DEF AddAll
<1> HIDE DEF N, D
<1>5. PICK g : Steps(g, D, f, step, N)
  BY <1>1, <1>2, <1>3, StepsExist
<1>6. ASSUME NEW k \in 1..N PROVE g[k] = AddDetection(g[k - 1], current[k])
  <2> HIDE DEF step
  <2>1. g[k - 1] \in D /\ g[k] = step[<<g[k - 1], k>>]
    BY <1>1, <1>5 DEF Steps
  <2>2. step[<<g[k - 1], k>>] = AddDetection(g[k - 1], current[k])
    BY <2>1 DEF step
  <2> QED BY <2>1, <2>2
<1> HIDE DEF step
<1>7. DOMAIN g = 0..N /\ g = [k \in DOMAIN g |-> g[k]] /\ g[0] = f
  BY <1>5 DEF Steps
<1>8. \A k \in 0..N : g[k] = IF k = 0 THEN f ELSE AddDetection(g[k - 1], current[k])
  BY <1>1, <1>6, <1>7
<1>9. Is(g)
  BY <1>7, <1>8
<1>10. Is(h)
  BY <1>9
<1> HIDE DEF h
<1>11. DOMAIN h = 0..N /\ h[0] = f
  BY <1>1, <1>10
<1>12. ASSUME NEW k \in 1..N PROVE h[k] = AddDetection(h[k - 1], current[k])
  BY <1>1, <1>10
<1> DEFINE S == {n \in Nat : n <= N => h[n] = g[n]}
<1>13. 0 \in S
  BY <1>7, <1>11
<1>14. ASSUME NEW n \in S PROVE n + 1 \in S
  <2> SUFFICES ASSUME n + 1 <= N PROVE h[n + 1] = g[n + 1]
    OBVIOUS
  <2>1. PICK k \in 1..N : k = n + 1 /\ k - 1 = n
    BY <1>1
  <2>2. h[k] = AddDetection(h[k - 1], current[k]) /\ g[k] = AddDetection(g[k - 1], current[k])
    BY <1>6, <1>12
  <2>3. h[k - 1] = g[k - 1]
    BY <1>1, <2>1
  <2> QED BY <2>1, <2>2, <2>3
<1> HIDE DEF S
<1>15. S = Nat
  <2>1. S \in SUBSET Nat
    BY DEF S
  <2> QED BY <1>13, <1>14, <2>1, Induct
<1>16. h[N] = g[N]
  BY <1>1, <1>15 DEF S
<1>17. \A k \in 1..N : g[k] \in {g[k - 1], Append(g[k - 1], current[k])}
  BY <1>6 DEF AddDetection
<1>18. AddsOf(g, f, current, N)
  BY <1>5, <1>17 DEF AddsOf, Steps, D
<1> QED BY <1>4, <1>16, <1>18 DEF N

(* Behind what was there come some of those that are added.                *)
Extended(e, f, current, n) ==
  /\ Len(f) <= Len(e) /\ \A i \in 1..Len(f) : e[i] = f[i]
  /\ \A i \in (Len(f) + 1)..Len(e) : \E k \in 1..n : e[i] = current[k]
  /\ \A i, j \in (Len(f) + 1)..Len(e) : i < j => e[i].type # e[j].type

LEMMA AddAllExtends ==
  ASSUME NEW U, NEW f \in Seq(U), NEW current \in Seq(U), OneOfAType(current)
  PROVE  AddAll(f, current) \in Seq(U) /\ Extended(AddAll(f, current), f, current, Len(current))
<1> DEFINE N == Len(current)
<1>1. PICK g : AddsOf(g, f, current, N) /\ AddAll(f, current) = g[N]
  BY AddAllSteps
<1>2. N \in Nat /\ Len(f) \in Nat
  BY LenProperties
<1> HIDE DEF N
<1> DEFINE V == Range(current) \cup Range(f)
<1>3. \A k \in 0..N : g[k] \in Seq(V) /\ Len(g[k]) \in Nat
  BY <1>1, LenProperties DEF AddsOf
<1>v. V \subseteq U
  BY DEF Range
<1> DEFINE S == {n \in Nat : n <= N => Extended(g[n], f, current, n)}
<1>4. 0 \in S
  BY <1>1, <1>2 DEF AddsOf, Extended
<1>5. ASSUME NEW n \in S PROVE n + 1 \in S
  <2> SUFFICES ASSUME n + 1 <= N PROVE Extended(g[n + 1], f, current, n + 1)
    OBVIOUS
  <2>0. n \in Nat /\ n \in 0..N /\ n + 1 \in 1..N /\ n + 1 - 1 = n
    BY <1>2
  <2>1. PICK e : e = g[n]
    OBVIOUS
  <2>2. PICK x : x = current[n + 1]
    OBVIOUS
  <2>3. Extended(e, f, current, n) /\ g[n + 1] \in {e, Append(e, x)} /\ e \in Seq(V) /\ Len(e) \in Nat
    BY <1>1, <1>3, <2>0, <2>1, <2>2 DEF AddsOf
  <2>4. CASE g[n + 1] = e
    BY <2>0, <2>3, <2>4 DEF Extended
  <2>5. CASE g[n + 1] = Append(e, x)
    <3> DEFINE h == Append(e, x)
    <3>1. Len(h) = Len(e) + 1 /\ h[Len(e) + 1] = x /\ \A i \in 1..Len(e) : h[i] = e[i]
      BY <2>3
    <3> HIDE DEF h
    <3>2. \A i \in (Len(f) + 1)..Len(e) : \E k \in 1..n : h[i] = current[k] /\ h[i] = e[i]
      BY <1>2, <2>3, <3>1 DEF Extended
    <3>3. ASSUME NEW i \in (Len(f) + 1)..Len(h) PROVE \E k \in 1..(n + 1) : h[i] = current[k]
      <4>1. i = Len(e) + 1 \/ i \in (Len(f) + 1)..Len(e)
        BY <1>2, <2>3, <3>1
      <4>2. n + 1 \in 1..(n + 1) /\ \A k \in 1..n : k \in 1..(n + 1)
        BY <2>0
      <4> QED BY <2>2, <3>1, <3>2, <4>1, <4>2
    <3>4. ASSUME NEW i \in (Len(f) + 1)..Len(h), NEW j \in (Len(f) + 1)..Len(h), i < j
          PROVE  h[i].type # h[j].type
      <4>1. i \in (Len(f) + 1)..Len(e)
        BY <1>2, <2>3, <3>1, <3>4
      <4>2. CASE j = Len(e) + 1
        <5>1. PICK k \in 1..n : h[i] = current[k]
          BY <3>2, <4>1
        <5>2. h[j] = current[n + 1]
          BY <2>2, <3>1, <4>2
        <5>3. k # n + 1 /\ k \in 1..N /\ n + 1 \in 1..N
          BY <1>2, <2>0
        <5>4. current[k].type # current[n + 1].type
          BY <5>3 DEF OneOfAType, N
        <5> QED BY <5>1, <5>2, <5>4
      <4>3. CASE j # Len(e) + 1
        <5>1. j \in (Len(f) + 1)..Len(e)
          BY <1>2, <2>3, <3>1, <4>3
        <5>2. h[i] = e[i] /\ h[j] = e[j]
          BY <3>2, <4>1, <5>1
        <5>3. e[i].type # e[j].type
          BY <2>3, <3>4, <4>1, <5>1 DEF Extended
        <5> QED BY <5>2, <5>3
      <4> QED BY <4>2, <4>3
    <3>5. Len(f) <= Len(h) /\ \A i \in 1..Len(f) : h[i] = f[i]
      BY <1>2, <2>3, <3>1 DEF Extended
    <3>6. Extended(h, f, current, n + 1)
      BY <3>3, <3>4, <3>5 DEF Extended
    <3> QED BY <2>5, <3>6 DEF h
  <2> QED BY <2>3, <2>4, <2>5
<1> HIDE DEF S
<1>6. S = Nat
  <2>1. S \in SUBSET Nat
    BY DEF S
  <2> QED BY <1>4, <1>5, <2>1, Induct
<1>7. Extended(g[N], f, current, N) /\ N \in 0..N
  BY <1>2, <1>6 DEF S
<1>8. g[N] \in Seq(U)
  BY <1>3, <1>7, <1>v, SeqMonotonic
<1> QED BY <1>1, <1>7, <1>8 DEF N

LEMMA AddingKeepsOrder ==
  ASSUME NEW said, Commentary(said), NEW n \in 1..Len(said),
         NEW f, InSegments(f, said, n - 1), NEW g, NEW current, current = Heard(said, n),
         g = AddAll(f, current)
  PROVE  /\ InSegments(g, said, n)
         /\ \A x \in Range(g) : x \in Range(f) \/ x \in Range(current)
<1>1. /\ f \in Seq(AllHeard(said)) /\ current \in Seq(AllHeard(said)) /\ OneOfAType(current)
      /\ Len(current) \in Nat /\ Len(f) \in Nat /\ n \in Nat /\ n - 1 \in Nat
  BY HeardFacts, LenProperties DEF InSegments
<1>2. g \in Seq(AllHeard(said)) /\ Extended(g, f, current, Len(current))
  BY <1>1, AddAllExtends
<1>3. Len(g) \in Nat
  BY <1>2, LenProperties
<1>4. \A i \in 1..Len(f) : \E k \in 1..(n - 1) : SaidIn(said, f[i], k)
  BY DEF InSegments
<1>5. \A i \in 1..Len(f) : \A k : SaidIn(said, f[i], k) => k <= n - 1
  BY <1>4, HeardFacts
<1>6. \A k \in 1..Len(current) : SaidIn(said, current[k], n)
  <2>1. DOMAIN current = 1..Len(current)
    BY <1>1
  <2> QED BY <2>1 DEF SaidIn, Range
<1>7. \A i \in (Len(f) + 1)..Len(g) : SaidIn(said, g[i], n) /\ \E k \in 1..Len(current) : g[i] = current[k]
  BY <1>2, <1>6 DEF Extended
<1>8. \A i \in (Len(f) + 1)..Len(g) : \A k : SaidIn(said, g[i], k) => k = n
  BY <1>7, HeardFacts
<1>9. \A i \in 1..Len(g) : i \in (Len(f) + 1)..Len(g) \/ (i \in 1..Len(f) /\ g[i] = f[i])
  BY <1>1, <1>2, <1>3 DEF Extended
<1>10. ASSUME NEW i \in 1..Len(g) PROVE \E k \in 1..n : SaidIn(said, g[i], k)
  <2>1. n \in 1..n /\ \A k \in 1..(n - 1) : k \in 1..n
    BY <1>1
  <2> QED BY <1>4, <1>7, <1>9, <2>1
<1>11. ASSUME NEW i \in 1..Len(g), NEW j \in 1..Len(g), NEW k \in 1..Len(said),
              NEW l \in 1..Len(said), i < j, SaidIn(said, g[i], k), SaidIn(said, g[j], l)
       PROVE  k <= l /\ (k = l => g[i].type # g[j].type)
  <2>1. CASE i \in 1..Len(f) /\ j \in 1..Len(f)
    <3>1. g[i] = f[i] /\ g[j] = f[j]
      BY <1>2, <2>1 DEF Extended
    <3> QED BY <1>11, <2>1, <3>1 DEF InSegments
  <2>2. CASE i \in 1..Len(f) /\ j \in (Len(f) + 1)..Len(g)
    <3>1. g[i] = f[i]
      BY <1>2, <2>2 DEF Extended
    <3>2. k <= n - 1 /\ l = n
      BY <1>5, <1>8, <1>11, <2>2, <3>1
    <3> QED BY <1>1, <3>2
  <2>3. CASE i \in (Len(f) + 1)..Len(g) /\ j \in (Len(f) + 1)..Len(g)
    <3>1. k = n /\ l = n
      BY <1>8, <1>11, <2>3
    <3>2. g[i].type # g[j].type
      BY <1>2, <1>11, <2>3 DEF Extended
    <3> QED BY <3>1, <3>2
  <2>4. ~(i \in (Len(f) + 1)..Len(g) /\ j \in 1..Len(f))
    BY <1>1, <1>11
  <2> QED BY <1>9, <2>1, <2>2, <2>3, <2>4
<1>12. ASSUME NEW x \in Range(g) PROVE x \in Range(f) \/ x \in Range(current)
  <2>1. /\ DOMAIN g = 1..Len(g) /\ DOMAIN f = 1..Len(f) /\ DOMAIN current = 1..Len(current)
    BY <1>1, <1>2
  <2>2. PICK i \in 1..Len(g) : x = g[i]
    BY <2>1 DEF Range
  <2> QED BY <1>7, <1>9, <2>1, <2>2 DEF Range
<1> QED BY <1>2, <1>10, <1>11, <1>12 DEF InSegments

(* What is taken back.                                                     *)
LEMMA RetractFacts ==
  ASSUME NEW U, NEW f \in Seq(U), NEW s
  PROVE  \/ Retractable(f, s) = {} /\ Retract(f, s) = f
         \/ \E r \in 1..Len(f) :
              /\ Retract(f, s) = RemoveAt(f, r) /\ r \in Retractable(f, s)
              /\ \A k \in Retractable(f, s) : k <= r
<1>1. Len(f) \in Nat /\ DOMAIN f = 1..Len(f)
  BY LenProperties
<1>2. Retractable(f, s) \in SUBSET (1..Len(f))
  BY <1>1 DEF Retractable
<1>3. CASE Retractable(f, s) = {}
  BY <1>3 DEF Retract
<1>4. CASE Retractable(f, s) # {}
  <2>1. /\ Max(Retractable(f, s)) \in Retractable(f, s)
        /\ \A k \in Retractable(f, s) : k <= Max(Retractable(f, s))
    BY <1>1, <1>2, <1>4, LargestIs
  <2>2. Retract(f, s) = RemoveAt(f, Max(Retractable(f, s)))
    BY <1>4 DEF Retract
  <2> QED BY <1>2, <2>1, <2>2
<1> QED BY <1>3, <1>4

LEMMA RetractStays ==
  ASSUME NEW U, NEW f \in Seq(U), NEW s
  PROVE  Retract(f, s) \in Seq(U) /\ \A x \in Range(Retract(f, s)) : x \in Range(f)
<1>1. CASE Retract(f, s) = f
  BY <1>1
<1>2. ASSUME NEW r \in 1..Len(f), Retract(f, s) = RemoveAt(f, r)
      PROVE  Retract(f, s) \in Seq(U) /\ \A x \in Range(Retract(f, s)) : x \in Range(f)
  <2> DEFINE g == RemoveAt(f, r)
  <2>1. /\ g \in Seq(U) /\ Len(g) = Len(f) - 1
        /\ \A k \in 1..(r - 1) : g[k] = f[k]
        /\ \A k \in r..(Len(f) - 1) : g[k] = f[k + 1]
    BY RemoveAtFacts
  <2> HIDE DEF g
  <2>2. DOMAIN g = 1..Len(g) /\ DOMAIN f = 1..Len(f) /\ Len(f) \in Nat
    BY <2>1, LenProperties
  <2>3. ASSUME NEW k \in 1..Len(g) PROVE g[k] \in Range(f)
    <3>1. k \in 1..(r - 1) \/ k \in r..(Len(f) - 1)
      BY <2>1, <2>2
    <3>2. k \in 1..Len(f) /\ k + 1 \in 1..Len(f)
      BY <2>1, <2>2
    <3> QED BY <2>1, <2>2, <3>1, <3>2 DEF Range
  <2>4. \A x \in Range(g) : x \in Range(f)
    BY <2>2, <2>3 DEF Range
  <2> QED BY <1>2, <2>1, <2>4 DEF g
<1> QED BY <1>1, <1>2, RetractFacts

Next1(f, said, n) == DetectNext(f, said[n], ContextOf(said, n))

LEMMA NextStays ==
  ASSUME NEW said, Commentary(said), NEW n \in 1..Len(said), NEW f \in Seq(AllHeard(said))
  PROVE  Next1(f, said, n) \in Seq(AllHeard(said))
<1> DEFINE current == DetectSegment(said[n], ContextOf(said, n))
<1>1. current \in Seq(AllHeard(said)) /\ OneOfAType(current)
  BY HeardFacts DEF Heard
<1>2. Retract(f, said[n]) \in Seq(AllHeard(said))
  BY RetractStays
<1>3. \E kept \in Seq(AllHeard(said)) : Next1(f, said, n) = AddAll(kept, current)
  BY <1>2 DEF Next1, DetectNext
<1> HIDE DEF current
<1> QED BY <1>1, <1>3, AddAllExtends

LEMMA NextKeepsOrder ==
  ASSUME NEW said, Commentary(said), NEW n \in 1..Len(said), NEW f, InSegments(f, said, n - 1)
  PROVE  /\ InSegments(Next1(f, said, n), said, n)
         /\ \A x \in Range(Next1(f, said, n)) : x \in Range(f) \/ x \in Range(Heard(said, n))
         /\ Cancelling(said[n], ContextOf(said, n)) =>
              \A x \in Range(Next1(f, said, n)) :
                x \in Range(Retract(f, said[n])) \/ x.type = "controversy"
<1> DEFINE current == DetectSegment(said[n], ContextOf(said, n))
           back == Retract(f, said[n])
           g == Next1(f, said, n)
<1>1. f \in Seq(AllHeard(said)) /\ current = Heard(said, n)
  BY DEF InSegments, Heard
<1>2. InSegments(back, said, n - 1) /\ \A x \in Range(back) : x \in Range(f)
  <2>1. back = f \/ \E r \in 1..Len(f) : back = RemoveAt(f, r)
    BY <1>1, RetractFacts
  <2>2. InSegments(back, said, n - 1)
    BY <2>1, RemovingKeepsOrder
  <2> QED BY <1>1, <2>2, RetractStays
<1>3. g = AddAll(IF \E d \in Range(current) : d.signal = "cancelled_score" THEN back ELSE f, current)
  BY DEF Next1, DetectNext
<1> HIDE DEF g, back, current
<1>4. PICK kept : /\ kept = IF \E d \in Range(current) : d.signal = "cancelled_score" THEN back ELSE f
                  /\ kept \in {back, f}
  OBVIOUS
<1>5. InSegments(kept, said, n - 1) /\ \A x \in Range(kept) : x \in Range(f)
  BY <1>2, <1>4
<1>6. InSegments(g, said, n) /\ \A x \in Range(g) : x \in Range(kept) \/ x \in Range(current)
  <2>1. g = AddAll(kept, current)
    BY <1>3, <1>4
  <2> QED BY <1>1, <1>5, <2>1, AddingKeepsOrder
<1>7. ASSUME Cancelling(said[n], ContextOf(said, n)), NEW x \in Range(g)
      PROVE  x \in Range(back) \/ x.type = "controversy"
  <2>1. PICK c : Heard(said, n) = <<c>> /\ c.signal = "cancelled_score" /\ c.type = "controversy"
    BY <1>7, HeardFacts
  <2>2. Range(current) = {c}
    <3>1. Range(<<c>>) = {c}
      BY DEF Range
    <3> QED BY <1>1, <2>1, <3>1
  <2>3. kept = back
    BY <1>4, <2>1, <2>2
  <2> QED BY <1>6, <2>1, <2>2, <2>3
<1> QED BY <1>1, <1>5, <1>6, <1>7 DEF g, back

FoundUpTo(g, said) ==
  /\ g \in [0..Len(said) -> Seq(AllHeard(said))] /\ g[0] = <<>>
  /\ \A n \in 1..Len(said) : g[n] = Next1(g[n - 1], said, n)

LEMMA FoundSteps ==
  ASSUME NEW said, Commentary(said)
  PROVE  \E g : FoundUpTo(g, said) /\ DetectSegments(said) = g[Len(said)]
<1> DEFINE N == Len(said)
           D == Seq(AllHeard(said))
           step == [a \in D \X (1..N) |-> Next1(a[1], said, a[2])]
           Is(g) == g = [n \in 0..N |-> IF n = 0 THEN <<>> ELSE Next1(g[n - 1], said, n)]
           h == CHOOSE h : Is(h)
<1>1. N \in Nat
  BY HeardFacts
<1>2. <<>> \in D
  BY EmptySeq
<1>3. step \in [D \X (1..N) -> D]
  BY NextStays
<1>4. DetectSegments(said) = h[N]
  BY DEF DetectSegments, Next1
<1> HIDE DEF N, D
<1>5. PICK g : Steps(g, D, <<>>, step, N)
  BY <1>1, <1>2, <1>3, StepsExist
<1>6. ASSUME NEW k \in 1..N PROVE g[k] = Next1(g[k - 1], said, k)
  <2> HIDE DEF step
  <2>1. g[k - 1] \in D /\ g[k] = step[<<g[k - 1], k>>]
    BY <1>1, <1>5 DEF Steps
  <2>2. step[<<g[k - 1], k>>] = Next1(g[k - 1], said, k)
    BY <2>1 DEF step
  <2> QED BY <2>1, <2>2
<1> HIDE DEF step
<1>7. DOMAIN g = 0..N /\ g = [k \in DOMAIN g |-> g[k]] /\ g[0] = <<>>
  BY <1>5 DEF Steps
<1>8. \A k \in 0..N : g[k] = IF k = 0 THEN <<>> ELSE Next1(g[k - 1], said, k)
  BY <1>1, <1>6, <1>7
<1>9. Is(g)
  BY <1>7, <1>8
<1>10. Is(h)
  BY <1>9
<1> HIDE DEF h
<1>11. DOMAIN h = 0..N /\ h[0] = <<>>
  BY <1>1, <1>10
<1>12. ASSUME NEW k \in 1..N PROVE h[k] = Next1(h[k - 1], said, k)
  BY <1>1, <1>10
<1> DEFINE S == {n \in Nat : n <= N => h[n] = g[n]}
<1>13. 0 \in S
  BY <1>7, <1>11
<1>14. ASSUME NEW n \in S PROVE n + 1 \in S
  <2> SUFFICES ASSUME n + 1 <= N PROVE h[n + 1] = g[n + 1]
    OBVIOUS
  <2>1. PICK k \in 1..N : k = n + 1 /\ k - 1 = n
    BY <1>1
  <2>2. h[k] = Next1(h[k - 1], said, k) /\ g[k] = Next1(g[k - 1], said, k)
    BY <1>6, <1>12
  <2>3. h[k - 1] = g[k - 1]
    BY <1>1, <2>1
  <2> QED BY <2>1, <2>2, <2>3
<1> HIDE DEF S
<1>15. S = Nat
  <2>1. S \in SUBSET Nat
    BY DEF S
  <2> QED BY <1>13, <1>14, <2>1, Induct
<1>16. h[N] = g[N]
  BY <1>1, <1>15 DEF S
<1>17. FoundUpTo(g, said)
  BY <1>5, <1>6 DEF FoundUpTo, Steps, D, N
<1> QED BY <1>4, <1>16, <1>17 DEF N

LEMMA FoundInOrder ==
  ASSUME NEW said, Commentary(said), NEW g, FoundUpTo(g, said), NEW n \in 0..Len(said)
  PROVE  InSegments(g[n], said, n)
<1> DEFINE S == {k \in Nat : k <= Len(said) => InSegments(g[k], said, k)}
<1>1. Len(said) \in Nat
  BY HeardFacts
<1>2. 0 \in S
  <2>1. InSegments(<<>>, said, 0)
    BY EmptySeq DEF InSegments
  <2> QED BY <2>1 DEF FoundUpTo
<1>3. ASSUME NEW k \in S PROVE k + 1 \in S
  <2> SUFFICES ASSUME k + 1 <= Len(said) PROVE InSegments(g[k + 1], said, k + 1)
    OBVIOUS
  <2>1. PICK m \in 1..Len(said) : m = k + 1 /\ m - 1 = k
    BY <1>1
  <2>2. InSegments(g[m - 1], said, m - 1)
    BY <1>1, <2>1
  <2>3. g[m] = Next1(g[m - 1], said, m)
    BY DEF FoundUpTo
  <2> QED BY <2>1, <2>2, <2>3, NextKeepsOrder
<1> HIDE DEF S
<1>4. S = Nat
  <2>1. S \in SUBSET Nat
    BY DEF S
  <2> QED BY <1>2, <1>3, <2>1, Induct
<1>5. n \in S
  BY <1>4
<1> QED BY <1>5 DEF S

(* What is found in the end of a segment was found when it was heard, and  *)
(* ever since.                                                             *)
LEMMA FoundEverSince ==
  ASSUME NEW said, Commentary(said), NEW g, FoundUpTo(g, said),
         NEW x \in Range(g[Len(said)]), NEW k, SaidIn(said, x, k), NEW n \in k..Len(said)
  PROVE  x \in Range(g[n])
<1> DEFINE N == Len(said)
           S == {j \in Nat : j <= N - n => x \in Range(g[N - j])}
<1>1. N \in Nat /\ k \in 1..N /\ n \in Nat /\ n >= k /\ n <= N
  BY HeardFacts DEF SaidIn
<1> HIDE DEF N
<1>2. 0 \in S
  BY <1>1 DEF N
<1>3. ASSUME NEW j \in S PROVE j + 1 \in S
  <2> SUFFICES ASSUME j + 1 <= N - n PROVE x \in Range(g[N - (j + 1)])
    OBVIOUS
  <2>1. PICK m \in 1..N : m = N - j /\ m - 1 = N - (j + 1) /\ m > k
    BY <1>1
  <2>2. x \in Range(g[m])
    BY <1>1, <2>1
  <2>3. InSegments(g[m - 1], said, m - 1) /\ g[m] = Next1(g[m - 1], said, m) /\ m \in 1..Len(said)
    <3>1. m - 1 \in 0..Len(said) /\ m \in 1..Len(said)
      BY <1>1 DEF N
    <3> QED BY <3>1, FoundInOrder DEF FoundUpTo
  <2>4. x \in Range(g[m - 1]) \/ x \in Range(Heard(said, m))
    BY <2>2, <2>3, NextKeepsOrder
  <2>5. x \notin Range(Heard(said, m))
    <3>1. SUFFICES ASSUME x \in Range(Heard(said, m)) PROVE FALSE
      OBVIOUS
    <3>2. SaidIn(said, x, m)
      BY <2>3, <3>1 DEF SaidIn
    <3>3. m = k
      BY <3>2, HeardFacts
    <3> QED BY <1>1, <2>1, <3>3
  <2> QED BY <2>1, <2>4, <2>5
<1> HIDE DEF S
<1>4. S = Nat
  <2>1. S \in SUBSET Nat
    BY DEF S
  <2> QED BY <1>2, <1>3, <2>1, Induct
<1>5. N - n \in S /\ N - n <= N - n /\ N - (N - n) = n
  BY <1>1, <1>4
<1> QED BY <1>5 DEF S

(* What a step loses: a result that is taken back, the last one in reach.   *)
Alike(x, y) == x.segment = y.segment /\ x.type = y.type /\ x.signal = y.signal
Lost(f, h) == {i \in 1..Len(f) : ~\E y \in Range(h) : Alike(f[i], y)}

LEMMA StepLoses ==
  ASSUME NEW said, Commentary(said), NEW n \in 1..Len(said), NEW f, InSegments(f, said, n - 1),
         NEW h, h = Next1(f, said, n)
  PROVE  IF Cancelling(said[n], ContextOf(said, n)) /\ Retractable(f, said[n]) # {}
         THEN \E r \in Retractable(f, said[n]) :
                Lost(f, h) = {r} /\ \A k \in Retractable(f, said[n]) : k <= r
         ELSE Lost(f, h) = {}
<1> DEFINE current == DetectSegment(said[n], ContextOf(said, n))
           back == Retract(f, said[n])
           cancelling == Cancelling(said[n], ContextOf(said, n))
<1>1. /\ f \in Seq(AllHeard(said)) /\ current = Heard(said, n) /\ current \in Seq(AllHeard(said))
      /\ OneOfAType(current) /\ Len(f) \in Nat /\ DOMAIN f = 1..Len(f) /\ n \in Nat
  BY HeardFacts, LenProperties DEF InSegments, Heard
<1>2. (\E d \in Range(current) : d.signal = "cancelled_score") <=> cancelling
  <2>1. ASSUME cancelling PROVE \E d \in Range(current) : d.signal = "cancelled_score"
    <3>1. PICK c : current = <<c>> /\ c.signal = "cancelled_score"
      BY <1>1, <2>1, HeardFacts
    <3>2. Range(<<c>>) = {c}
      BY DEF Range
    <3> QED BY <3>1, <3>2
  <2>2. \A d \in Range(current) : d.signal = "cancelled_score" => cancelling
    BY <1>1, HeardFacts
  <2> QED BY <2>1, <2>2
<1>3. PICK kept : kept = IF cancelling THEN back ELSE f
  OBVIOUS
<1>4. h = AddAll(kept, current)
  BY <1>2, <1>3 DEF Next1, DetectNext
<1>5. kept \in Seq(AllHeard(said))
  BY <1>1, <1>3, RetractStays
<1> HIDE DEF current, back, cancelling
<1>6. h \in Seq(AllHeard(said)) /\ Extended(h, kept, current, Len(current))
  BY <1>1, <1>4, <1>5, AddAllExtends
<1>7. \A x \in Range(kept) : x \in Range(h)
  <2>1. DOMAIN kept = 1..Len(kept) /\ DOMAIN h = 1..Len(h) /\ Len(kept) \in Nat /\ Len(h) \in Nat
    BY <1>5, <1>6, LenProperties
  <2> QED BY <1>6, <2>1 DEF Extended, Range
<1>8. CASE kept = f /\ ~(cancelling /\ Retractable(f, said[n]) # {})
  <2>1. \A i \in 1..Len(f) : f[i] \in Range(h) /\ Alike(f[i], f[i])
    BY <1>1, <1>7, <1>8 DEF Range, Alike
  <2> QED BY <1>8, <2>1 DEF Lost, cancelling
<1>9. ASSUME cancelling, NEW r \in 1..Len(f), back = RemoveAt(f, r), r \in Retractable(f, said[n]),
             \A k \in Retractable(f, said[n]) : k <= r
      PROVE  Lost(f, h) = {r}
  <2>1. kept = RemoveAt(f, r)
    BY <1>3, <1>9
  <2>2. ASSUME NEW i \in 1..Len(f), i # r PROVE i \notin Lost(f, h)
    <3>1. f[i] \in Range(h) /\ Alike(f[i], f[i])
      BY <1>1, <1>7, <2>1, <2>2, OthersRemain DEF Alike
    <3> QED BY <3>1 DEF Lost
  <2>3. ASSUME NEW z \in Range(h), Alike(f[r], z) PROVE FALSE
    <3>1. PICK k \in 1..(n - 1) : SaidIn(said, f[r], k)
      BY DEF InSegments
    <3>2. k \in 1..Len(said) /\ f[r].segment = said[k].id
      BY <3>1, HeardFacts DEF SaidIn
    <3>3. InSegments(kept, said, n - 1)
      BY <2>1, RemovingKeepsOrder
    <3>4. z \in Range(kept) \/ z \in Range(current)
      BY <1>1, <1>4, <3>3, AddingKeepsOrder
    <3>5. CASE z \in Range(current)
      <4>1. z.segment = said[n].id
        BY <1>1, <3>5, HeardFacts
      <4>2. k = n
        BY <2>3, <3>2, <4>1, HeardFacts DEF Alike
      <4> QED BY <1>1, <4>2
    <3>6. CASE z \in Range(kept)
      <4>1. PICK j \in 1..Len(f) : j # r /\ z = f[j]
        BY <1>1, <2>1, <3>6, RemovedIsOther
      <4>2. PICK l \in 1..(n - 1) : SaidIn(said, f[j], l)
        BY DEF InSegments
      <4>3. l \in 1..Len(said) /\ f[j].segment = said[l].id
        BY <4>2, HeardFacts DEF SaidIn
      <4>4. l = k
        <5>1. f[r].segment = z.segment
          BY <2>3 DEF Alike
        <5>2. said[k].id = said[l].id
          BY <3>2, <4>1, <4>3, <5>1
        <5> QED BY <3>2, <4>3, <5>2, HeardFacts
      <4>5. j < r \/ r < j
        BY <1>1, <4>1
      <4>6. f[j].type # f[r].type
        BY <3>1, <3>2, <4>2, <4>4, <4>5 DEF InSegments
      <4> QED BY <2>3, <4>1, <4>6 DEF Alike
    <3> QED BY <3>4, <3>5, <3>6
  <2> QED BY <2>2, <2>3 DEF Lost
<1>10. CASE cancelling /\ Retractable(f, said[n]) # {}
  <2>1. PICK r \in 1..Len(f) : /\ back = RemoveAt(f, r) /\ r \in Retractable(f, said[n])
                               /\ \A k \in Retractable(f, said[n]) : k <= r
    BY <1>1, <1>10, RetractFacts DEF back
  <2>2. Lost(f, h) = {r}
    BY <1>9, <1>10, <2>1
  <2> QED BY <1>10, <2>1, <2>2 DEF cancelling
<1>11. CASE ~(cancelling /\ Retractable(f, said[n]) # {})
  <2>1. Retractable(f, said[n]) = {} => back = f
    BY <1>1, RetractFacts DEF back
  <2>2. kept = f
    BY <1>3, <1>11, <2>1
  <2> QED BY <1>8, <1>11, <2>2
<1> QED BY <1>10, <1>11

(* A commentary that ended earlier would be read in the same way.          *)
LEMMA FoundInPrefix ==
  ASSUME NEW said, Commentary(said), NEW g, FoundUpTo(g, said), NEW n \in 0..Len(said)
  PROVE  DetectSegments(SubSeq(said, 1, n)) = g[n]
<1> DEFINE first == SubSeq(said, 1, n)
<1>1. Len(said) \in Nat /\ DOMAIN said = 1..Len(said) /\ n \in Nat /\ said \in Seq(Range(said))
  BY HeardFacts DEF Commentary, InOrder
<1>2. Len(first) = n /\ \A k \in 1..n : first[k] = said[k] /\ k \in 1..Len(said)
  BY <1>1
<1>3. first \in Seq(Range(said)) /\ DOMAIN first = 1..n
  BY <1>1
<1> HIDE DEF first
<1>4. Commentary(first)
  <2>1. \A s \in Range(first) : s \in Range(said)
    BY <1>1, <1>2, <1>3 DEF Range
  <2>2. first \in Seq(Range(first))
    <3>1. \A k \in 1..n : first[k] \in Range(first)
      BY <1>3 DEF Range
    <3>2. first = [k \in 1..n |-> first[k]]
      BY <1>3
    <3> HIDE DEF Range
    <3> QED BY <1>1, <3>1, <3>2
  <2> QED BY <1>1, <1>2, <1>3, <2>1, <2>2 DEF Commentary, InOrder
<1>5. PICK e : FoundUpTo(e, first) /\ DetectSegments(first) = e[n]
  BY <1>2, <1>4, FoundSteps
<1>6. ASSUME NEW k \in 1..n PROVE ContextOf(first, k) = ContextOf(said, k)
  <2>1. k > 1 => k - 1 \in 1..n
    BY <1>1
  <2> QED BY <1>2, <2>1 DEF ContextOf
<1> DEFINE S == {k \in Nat : k <= n => e[k] = g[k]}
<1>7. 0 \in S
  BY <1>5 DEF FoundUpTo
<1>8. ASSUME NEW k \in S PROVE k + 1 \in S
  <2> SUFFICES ASSUME k + 1 <= n PROVE e[k + 1] = g[k + 1]
    OBVIOUS
  <2>1. PICK m \in 1..n : m = k + 1 /\ m - 1 = k
    BY <1>1
  <2>2. e[m] = Next1(e[m - 1], first, m) /\ g[m] = Next1(g[m - 1], said, m)
    BY <1>2, <1>5 DEF FoundUpTo
  <2>3. e[m - 1] = g[m - 1]
    BY <1>1, <2>1
  <2>4. Next1(e[m - 1], first, m) = Next1(e[m - 1], said, m)
    BY <1>2, <1>6 DEF Next1
  <2> QED BY <2>1, <2>2, <2>3, <2>4
<1> HIDE DEF S
<1>9. S = Nat
  <2>1. S \in SUBSET Nat
    BY DEF S
  <2> QED BY <1>7, <1>8, <2>1, Induct
<1>10. n \in S
  BY <1>1, <1>9
<1> QED BY <1>5, <1>10 DEF S, first

(* What was made of a commentary was made of this one.                     *)
CommentaryInv ==
  /\ input \in Inputs
  /\ input.kind = "commentary" /\ heard # None => heard = Detect(input.segments)

LEMMA CommentaryStep ==
  ASSUME CommentaryInv, [LibraryNext]_libraryVars
  PROVE  CommentaryInv'
<1>1. CASE UNCHANGED <<input, heard>>
  BY <1>1 DEF CommentaryInv
<1>2. CASE ReadLecture \/ DetectSports
  BY <1>2 DEF ReadLecture, DetectSports, CommentaryInv
<1>3. CASE UNCHANGED libraryVars
  BY <1>1, <1>3 DEF libraryVars
<1>4. CASE \/ ProposeEducational \/ CreatePlan \/ ProposeSports
           \/ \E said \in Sayings : PlanEducational(said)
           \/ \E said \in SportsSayings : PlanSports(said)
           \/ \E c \in ClipsToShow, spec \in SubtitleSpecs, host \in Hosts : ProcessSubtitles(c, spec, host)
           \/ \E frame \in Frames : Reframe(frame)
           \/ \E spec \in Resolutions : Resize(spec)
           \/ \E layout \in Layouts : LayOut(layout)
  BY <1>1, <1>4 DEF ProposeEducational, CreatePlan, ProposeSports, PlanEducational, PlanSports,
                    ProcessSubtitles, Reframe, Resize, LayOut
<1> QED
  BY <1>2, <1>3, <1>4 DEF LibraryNext

LEMMA TakenBackAtOnce ==
  ASSUME CommentaryInv
  PROVE  LatestResultTakenBack
<1> DEFINE said == input.segments
           N == Len(said)
<1> SUFFICES ASSUME input.kind = "commentary", heard # None, NEW n \in DOMAIN said
             PROVE  LET reach == {o \in UpTo(n - 1) : /\ o.hint \in {"score", "finish"}
                                                     /\ said[n].start - o.end \in 0..Lookback}
                        lost == {o \in UpTo(n - 1) : ~Told(o, UpTo(n))}
                    IN IF TakesBack(n) /\ reach # {}
                       THEN \E o \in reach : /\ lost = {o} /\ ~Told(o, Range(heard))
                                             /\ \A r \in reach : r.start <= o.start
                       ELSE lost = {}
  BY DEF LatestResultTakenBack
<1> DEFINE reach == {o \in UpTo(n - 1) : /\ o.hint \in {"score", "finish"}
                                        /\ said[n].start - o.end \in 0..Lookback}
           lost == {o \in UpTo(n - 1) : ~Told(o, UpTo(n))}
<1>1. Commentary(said) /\ heard = Detect(said)
  BY CommentaryConstants DEF CommentaryInv, Commentary
<1>2. PICK g : FoundUpTo(g, said) /\ DetectSegments(said) = g[N]
  BY <1>1, FoundSteps
<1>3. N \in Nat /\ DOMAIN said = 1..N /\ n \in 1..N /\ n - 1 \in 0..N /\ n \in 0..N /\ N \in 0..N
  BY <1>1, HeardFacts
<1> DEFINE f == g[n - 1]
           h == g[n]
           last == g[N]
           s == said[n]
           O(i) == ObservationOf(f, i)
<1>4. h = Next1(f, said, n) /\ InSegments(f, said, n - 1) /\ InSegments(h, said, n)
      /\ InSegments(last, said, N)
  BY <1>1, <1>2, <1>3, FoundInOrder DEF FoundUpTo
<1>5. /\ UpTo(n - 1) = {ObservationOf(f, i) : i \in DOMAIN f}
      /\ UpTo(n) = {ObservationOf(h, i) : i \in DOMAIN h}
      /\ Range(heard) = {ObservationOf(last, i) : i \in DOMAIN last}
  <2>1. DetectSegments(SubSeq(said, 1, n - 1)) = f /\ DetectSegments(SubSeq(said, 1, n)) = h
    BY <1>1, <1>2, <1>3, FoundInPrefix
  <2>2. ASSUME NEW e PROVE Range([i \in DOMAIN e |-> ObservationOf(e, i)]) = {ObservationOf(e, i) : i \in DOMAIN e}
    BY DEF Range
  <2>3. /\ Detect(SubSeq(said, 1, n - 1)) = [i \in DOMAIN f |-> ObservationOf(f, i)]
        /\ Detect(SubSeq(said, 1, n)) = [i \in DOMAIN h |-> ObservationOf(h, i)]
        /\ heard = [i \in DOMAIN last |-> ObservationOf(last, i)]
    BY <1>1, <1>2, <2>1 DEF Detect
  <2> HIDE DEF f, h, last, said
  <2> QED BY <2>2, <2>3 DEF UpTo, said
<1> HIDE DEF f, h, last, N
<1>6. /\ DOMAIN f = 1..Len(f) /\ DOMAIN h = 1..Len(h) /\ DOMAIN last = 1..Len(last)
      /\ Len(f) \in Nat
  BY <1>4, LenProperties DEF InSegments
<1>7. \A e, i : /\ ObservationOf(e, i).id = <<e[i].segment, e[i].type, e[i].signal>>
                /\ ObservationOf(e, i).start = e[i].start /\ ObservationOf(e, i).end = e[i].end
                /\ ObservationOf(e, i).hint = e[i].type /\ ObservationOf(e, i).key = i
  BY DEF ObservationOf
<1>8. ASSUME NEW e, NEW i, NEW d, NEW j
      PROVE  ObservationOf(e, i).id = ObservationOf(d, j).id <=> Alike(e[i], d[j])
  <2>1. ObservationOf(e, i).id = <<e[i].segment, e[i].type, e[i].signal>>
    BY <1>7
  <2>2. ObservationOf(d, j).id = <<d[j].segment, d[j].type, d[j].signal>>
    BY <1>7
  <2>3. \A a, b, c, u, v, w : <<a, b, c>> = <<u, v, w>> <=> a = u /\ b = v /\ c = w
    OBVIOUS
  <2> QED BY <2>1, <2>2, <2>3 DEF Alike
<1>9. \A i \in 1..Len(f) : Told(O(i), UpTo(n)) <=> \E y \in Range(h) : Alike(f[i], y)
  <2> SUFFICES ASSUME NEW i \in 1..Len(f)
               PROVE  Told(O(i), UpTo(n)) <=> \E y \in Range(h) : Alike(f[i], y)
    OBVIOUS
  <2>1. Told(O(i), UpTo(n)) <=> \E j \in DOMAIN h : ObservationOf(h, j).id = O(i).id
    BY <1>5 DEF Told
  <2>2. \A j : ObservationOf(h, j).id = O(i).id <=> Alike(f[i], h[j])
    BY <1>8
  <2> QED BY <2>1, <2>2 DEF Range
<1>10. \A i \in 1..Len(f) : O(i) \in lost <=> i \in Lost(f, h)
  BY <1>5, <1>6, <1>9 DEF Lost
<1>11. \A i \in 1..Len(f) : O(i) \in reach <=> i \in Retractable(f, s)
  BY <1>5, <1>6, <1>7 DEF Retractable
<1>12. /\ \A o \in lost : \E i \in Lost(f, h) : o = O(i)
       /\ \A o \in reach : \E i \in Retractable(f, s) : o = O(i)
  BY <1>5, <1>6, <1>10, <1>11
<1>13. Lost(f, h) \subseteq 1..Len(f) /\ Retractable(f, s) \subseteq 1..Len(f)
  BY <1>6 DEF Lost, Retractable
<1>14. TakesBack(n) <=> Cancelling(s, ContextOf(said, n))
  BY DEF TakesBack, Cancelling
<1>15. reach # {} <=> Retractable(f, s) # {}
  BY <1>11, <1>12, <1>13
<1>16. IF TakesBack(n) /\ reach # {}
       THEN \E r \in Retractable(f, s) : Lost(f, h) = {r} /\ \A k \in Retractable(f, s) : k <= r
       ELSE Lost(f, h) = {}
  <2> HIDE DEF reach
  <2> QED BY <1>1, <1>3, <1>4, <1>14, <1>15, StepLoses DEF N
<1>17. CASE ~(TakesBack(n) /\ reach # {})
  BY <1>12, <1>16, <1>17
<1>18. CASE TakesBack(n) /\ reach # {}
  <2>1. PICK r \in Retractable(f, s) : Lost(f, h) = {r} /\ \A k \in Retractable(f, s) : k <= r
    BY <1>16, <1>18
  <2>2. O(r) \in reach /\ lost = {O(r)} /\ r \in 1..Len(f)
    <3>1. r \in 1..Len(f) /\ r \in Lost(f, h)
      BY <1>13, <2>1
    <3> QED BY <1>10, <1>11, <1>12, <2>1, <3>1
  <2>3. ASSUME NEW o \in reach PROVE o.start <= O(r).start
    <3>1. PICK i \in Retractable(f, s) : o = O(i)
      BY <1>12
    <3>2. i \in 1..Len(f) /\ i <= r
      BY <1>13, <2>1, <3>1
    <3>3. PICK k \in 1..(n - 1) : SaidIn(said, f[i], k)
      BY <1>4, <3>2 DEF InSegments
    <3>4. PICK l \in 1..(n - 1) : SaidIn(said, f[r], l)
      BY <1>4, <2>2 DEF InSegments
    <3>5. /\ k \in 1..N /\ l \in 1..N
          /\ f[i].start = said[k].start /\ f[r].start = said[l].start
      BY <1>1, <3>3, <3>4, HeardFacts DEF SaidIn, N
    <3>6. k <= l
      <4>1. CASE i = r
        BY <1>1, <3>3, <3>4, <4>1, HeardFacts
      <4>2. CASE i < r
        BY <1>4, <2>2, <3>2, <3>3, <3>4, <3>5, <4>2 DEF InSegments, N
      <4> QED BY <1>6, <2>2, <3>2, <4>1, <4>2
    <3>7. said[k].start <= said[l].start
      <4>1. CASE k = l
        <5>1. said[k] \in Range(said)
          BY <1>3, <3>5 DEF Range
        <5>2. said[k].start \in Nat
          BY <1>1, <5>1 DEF Commentary, InOrder, ForSomeTime
        <5> QED BY <4>1, <5>2
      <4>2. CASE k < l
        BY <1>1, <1>3, <3>5, <4>2 DEF Commentary, InOrder
      <4> QED BY <3>5, <3>6, <4>1, <4>2
    <3>8. f[i].start <= f[r].start
      BY <3>5, <3>7
    <3>9. ObservationOf(f, i).start = f[i].start /\ ObservationOf(f, r).start = f[r].start
      BY <1>7
    <3> QED BY <3>1, <3>8, <3>9
  <2>4. ~Told(O(r), Range(heard))
    <3> SUFFICES ASSUME Told(O(r), Range(heard)) PROVE FALSE
      OBVIOUS
    <3>1. PICK j \in DOMAIN last : Alike(f[r], last[j])
      <4>1. PICK j \in DOMAIN last : ObservationOf(last, j).id = O(r).id
        BY <1>5 DEF Told
      <4> QED BY <1>8, <4>1
    <3>2. PICK z : z = last[j] /\ z \in Range(last)
      BY DEF Range
    <3>3. PICK k \in 1..(n - 1) : SaidIn(said, f[r], k)
      BY <1>4, <2>2 DEF InSegments
    <3>4. PICK l \in 1..N : SaidIn(said, z, l)
      BY <1>4, <1>6, <3>2 DEF InSegments
    <3>5. k \in 1..N /\ said[k].id = said[l].id
      BY <1>1, <3>1, <3>2, <3>3, <3>4, HeardFacts DEF SaidIn, Alike, N
    <3>6. l = k /\ n \in l..N
      BY <1>1, <1>3, <3>3, <3>4, <3>5, HeardFacts DEF N
    <3>7. z \in Range(h)
      <4>1. z \in Range(g[Len(said)]) /\ n \in l..Len(said)
        BY <3>2, <3>6 DEF last, N
      <4> QED BY <1>1, <1>2, <3>4, <4>1, FoundEverSince DEF h
    <3>8. r \in Lost(f, h)
      BY <2>1
    <3> QED BY <3>1, <3>2, <3>7, <3>8 DEF Lost
  <2> QED BY <1>18, <2>2, <2>3, <2>4
<1> QED BY <1>17, <1>18

(* Each segment that cancels takes back, for good, the result in reach     *)
(* that was said last, and nothing else that was reported is ever lost:    *)
(* for commentaries of any length and any rules (_detect_segments).        *)
THEOREM ResultsAreTakenBack ==
  LibraryInit /\ [][LibraryNext]_libraryVars => []LatestResultTakenBack
<1>1. LibraryInit => CommentaryInv
  BY DEF LibraryInit, CommentaryInv
<1>2. CommentaryInv /\ [LibraryNext]_libraryVars => CommentaryInv'
  BY CommentaryStep
<1>3. CommentaryInv => LatestResultTakenBack
  BY TakenBackAtOnce
<1> QED
  BY <1>1, <1>2, <1>3, PTL

-----------------------------------------------------------------------------
(* Lectures: the spans of their cues.                                      *)

LectureCues(cues) == InOrder(cues) /\ \A cue \in Range(cues) : SaysSomething(cue)
AllFragments(cues) == UNION {Range(FragmentsOf(cues[n])) : n \in 1..Len(cues)}

LEMMA CueFacts ==
  ASSUME NEW cues, LectureCues(cues)
  PROVE  /\ Len(cues) \in Nat /\ DOMAIN cues = 1..Len(cues) /\ cues \in Seq(Range(cues))
         /\ \A n \in 1..Len(cues) :
              /\ cues[n] \in Range(cues) /\ cues[n].start \in Nat /\ cues[n].end \in Nat
              /\ cues[n].start < cues[n].end
         /\ \A k, n \in 1..Len(cues) : cues[k].id = cues[n].id => k = n
         /\ \A k, n \in 1..Len(cues) : k <= n => cues[k].start <= cues[n].start
<1>1. Len(cues) \in Nat /\ DOMAIN cues = 1..Len(cues) /\ cues \in Seq(Range(cues))
  BY LenProperties DEF LectureCues, InOrder
<1>2. \A n \in 1..Len(cues) : cues[n] \in Range(cues)
  BY <1>1 DEF Range
<1>3. \A n \in 1..Len(cues) : /\ cues[n].start \in Nat /\ cues[n].end \in Nat
                              /\ cues[n].start < cues[n].end
  BY <1>2 DEF LectureCues, InOrder, ForSomeTime
<1>4. ASSUME NEW k \in 1..Len(cues), NEW n \in 1..Len(cues), cues[k].id = cues[n].id PROVE k = n
  <2>1. k < n \/ n < k \/ k = n
    BY <1>1
  <2> QED BY <1>1, <1>4, <2>1 DEF LectureCues, InOrder
<1>5. ASSUME NEW k \in 1..Len(cues), NEW n \in 1..Len(cues), k <= n
      PROVE  cues[k].start <= cues[n].start
  <2>1. k < n \/ k = n
    BY <1>1, <1>5
  <2>2. CASE k < n
    BY <1>1, <2>2 DEF LectureCues, InOrder
  <2>3. CASE k = n
    BY <1>3, <2>3
  <2> QED BY <2>1, <2>2, <2>3
<1> QED BY <1>1, <1>2, <1>3, <1>4, <1>5

LEMMA FragmentsFacts ==
  ASSUME NEW cue, cue.pieces \in Seq(Range(cue.pieces))
  PROVE  /\ FragmentsOf(cue) \in Seq(Range(FragmentsOf(cue)))
         /\ \A f \in Range(FragmentsOf(cue)) : \E n \in 1..Len(cue.pieces) :
              f = [piece |-> cue.pieces[n], cue |-> cue.id, nth |-> n,
                   start |-> At(cue, n - 1), end |-> At(cue, n)]
<1> DEFINE pieces == cue.pieces
           all == [n \in DOMAIN pieces |->
                     [piece |-> pieces[n], cue |-> cue.id, nth |-> n,
                      start |-> At(cue, n - 1), end |-> At(cue, n)]]
           I == {n \in DOMAIN pieces : ~Skipped(pieces[n])}
           t == Those(all, I)
<1>1. DOMAIN pieces = 1..Len(pieces) /\ Len(pieces) \in Nat
  BY LenProperties
<1>2. FragmentsOf(cue) = t
  BY DEF FragmentsOf
<1>3. \A n \in 1..Len(pieces) : all[n] = [piece |-> pieces[n], cue |-> cue.id, nth |-> n,
                                          start |-> At(cue, n - 1), end |-> At(cue, n)]
  BY <1>1
<1>4. all = [n \in 1..Len(pieces) |-> all[n]]
  BY <1>1
<1> HIDE DEF all, I
<1>5. all \in Seq(Range(all)) /\ Len(all) = Len(pieces)
  BY <1>1, <1>4, FunctionIsSeq
<1>6. t \in Seq(Range(all)) /\ Range(t) = {all[n] : n \in I \cap 1..Len(all)}
  BY <1>5, ThoseFacts, ThoseHas
<1> HIDE DEF t
<1>7. t \in Seq(Range(t))
  BY <1>6 DEF Range
<1>8. ASSUME NEW f \in Range(t)
      PROVE  \E n \in 1..Len(pieces) : f = [piece |-> pieces[n], cue |-> cue.id, nth |-> n,
                                            start |-> At(cue, n - 1), end |-> At(cue, n)]
  <2>1. PICK n \in 1..Len(pieces) : f = all[n]
    BY <1>5, <1>6
  <2> QED BY <1>3, <2>1
<1> QED BY <1>2, <1>7, <1>8

LEMMA FragmentsOfCues ==
  ASSUME NEW cues, LectureCues(cues), NEW n \in 1..Len(cues)
  PROVE  /\ FragmentsOf(cues[n]) \in Seq(AllFragments(cues))
         /\ \A k \in 1..Len(FragmentsOf(cues[n])) :
              FragmentsOf(cues[n])[k].cue = cues[n].id /\ FragmentsOf(cues[n])[k] \in AllFragments(cues)
<1> DEFINE fs == FragmentsOf(cues[n])
<1>1. cues[n] \in Range(cues)
  BY CueFacts
<1>2. cues[n].pieces \in Seq(Range(cues[n].pieces))
  BY <1>1 DEF LectureCues, SaysSomething
<1>3. fs \in Seq(Range(fs)) /\ \A f \in Range(fs) : f.cue = cues[n].id
  BY <1>2, FragmentsFacts
<1>4. Range(fs) \subseteq AllFragments(cues)
  BY DEF AllFragments
<1> HIDE DEF fs
<1>5. \A k \in 1..Len(fs) : fs[k] \in Range(fs)
  BY <1>3 DEF Range
<1>6. fs \in Seq(AllFragments(cues))
  BY <1>3, <1>4, SeqMonotonic
<1> QED BY <1>3, <1>4, <1>5, <1>6 DEF fs

(* Spans in the making: no sentence ends within one, and no pause and no   *)
(* other speaker comes between two of its fragments; they say what was     *)
(* said so far, in order.                                                  *)
Close(cues, i, j) == \A m \in i..(j - 1) : ~Severed(cues[m], cues[m + 1])
OfCue(f, cues, i) == i \in 1..Len(cues) /\ f.cue = cues[i].id
Grown(g, cues, n) ==
  /\ g \in Seq(AllFragments(cues))
  /\ \A k \in 1..Len(g) : \E i \in 1..n : OfCue(g[k], cues, i)
  /\ \A k \in 1..(Len(g) - 1) : g[k].piece.ends # "sentence"
  /\ \A k, l \in 1..Len(g) : \A i, j : OfCue(g[k], cues, i) /\ OfCue(g[l], cues, j) => Close(cues, i, j)
Closed(g, cues, n) == Grown(g, cues, n) /\ g # <<>>
Growing(g, cues, n) ==
  /\ Grown(g, cues, n)
  /\ \A k \in 1..Len(g) : /\ g[k].piece.ends # "sentence"
                          /\ \A i : OfCue(g[k], cues, i) => Close(cues, i, n)
AllClosed(front, cues, n) ==
  front \in Seq(Seq(AllFragments(cues))) /\ \A p \in 1..Len(front) : Closed(front[p], cues, n)
InTheMaking(acc, front, g, said, cues, n) ==
  /\ acc = Append(front, g) /\ AllClosed(front, cues, n) /\ Growing(g, cues, n)
  /\ said = FlattenSeq(front) \o g
SpansInv(acc, said, cues, n) == \E front, g : InTheMaking(acc, front, g, said, cues, n)

Closing(acc, front, g, cues, n) ==
  AllClosed(front, cues, n) /\ Grown(g, cues, n) /\ g # <<>> /\ acc = Append(front, g)
AllClosedNow(acc, front, g, cues, n) ==
  AllClosed(acc, cues, n) /\ FlattenSeq(acc) = FlattenSeq(front) \o g

LEMMA ClosesAll ==
  ASSUME NEW cues, NEW n, NEW front, NEW g, NEW acc, Closing(acc, front, g, cues, n)
  PROVE  AllClosedNow(acc, front, g, cues, n)
<1>0. AllClosed(front, cues, n) /\ Grown(g, cues, n) /\ g # <<>> /\ acc = Append(front, g)
  BY DEF Closing
<1>1. front \in Seq(Seq(AllFragments(cues))) /\ g \in Seq(AllFragments(cues)) /\ Len(front) \in Nat
  BY <1>0, LenProperties DEF AllClosed, Grown
<1> DEFINE t == Append(front, g)
<1>2. /\ t \in Seq(Seq(AllFragments(cues))) /\ Len(t) = Len(front) + 1 /\ t[Len(front) + 1] = g
      /\ \A k \in 1..Len(front) : t[k] = front[k]
  BY <1>1, AppendProperties
<1>3. FlattenSeq(t) = FlattenSeq(front) \o g
  BY <1>1, FlattenAppend
<1> HIDE DEF t
<1>4. ASSUME NEW p \in 1..Len(t) PROVE Closed(t[p], cues, n)
  <2>1. p = Len(front) + 1 \/ p \in 1..Len(front)
    BY <1>1, <1>2
  <2> QED BY <1>0, <1>2, <2>1 DEF AllClosed, Closed
<1>5. acc = t
  BY <1>0 DEF t
<1> QED BY <1>2, <1>3, <1>4, <1>5 DEF AllClosed, AllClosedNow

LEMMA EmptyGrows ==
  ASSUME NEW cues, NEW n
  PROVE  Growing(<<>>, cues, n)
BY EmptySeq DEF Growing, Grown

LEMMA FlushKeeps ==
  ASSUME NEW cues, NEW n, NEW acc, NEW front, NEW g, NEW said,
         InTheMaking(acc, front, g, said, cues, n)
  PROVE  /\ Last(acc) = g
         /\ \E front2 : InTheMaking(Flush(acc), front2, <<>>, said, cues, n)
<1>1. /\ front \in Seq(Seq(AllFragments(cues))) /\ g \in Seq(AllFragments(cues))
      /\ acc = Append(front, g) /\ acc \in Seq(Seq(AllFragments(cues)))
      /\ FlattenSeq(front) \in Seq(AllFragments(cues))
  BY AppendProperties, FlattenAppend DEF InTheMaking, AllClosed, Growing, Grown
<1>2. Last(acc) = g
  BY <1>1, LastAppended
<1>3. CASE g = <<>>
  <2>1. Flush(acc) = acc
    BY <1>2, <1>3 DEF Flush, Opened
  <2> QED BY <1>2, <1>3, <2>1
<1>4. CASE g # <<>>
  <2>1. Flush(acc) = Append(acc, <<>>)
    BY <1>2, <1>4 DEF Flush, Opened
  <2>2. AllClosed(acc, cues, n) /\ FlattenSeq(acc) = said
    <3>1. Grown(g, cues, n) /\ AllClosed(front, cues, n) /\ said = FlattenSeq(front) \o g
      BY DEF InTheMaking, Growing
    <3>2. Closing(acc, front, g, cues, n)
      BY <1>1, <1>4, <3>1 DEF Closing
    <3> QED BY <3>1, <3>2, ClosesAll DEF AllClosedNow
  <2>3. said \o <<>> = said
    <3>1. said \in Seq(AllFragments(cues))
      BY <1>1, ConcatProperties DEF InTheMaking
    <3> QED BY <3>1, ConcatEmptySeq
  <2>4. InTheMaking(Flush(acc), acc, <<>>, said, cues, n)
    BY <2>1, <2>2, <2>3, EmptyGrows DEF InTheMaking
  <2> QED BY <1>2, <2>4
<1> QED BY <1>3, <1>4

(* One more fragment of the n-th cue.                                      *)
LEMMA GrowsBy ==
  ASSUME NEW cues, LectureCues(cues), NEW n \in 1..Len(cues), NEW g, Growing(g, cues, n),
         NEW f \in AllFragments(cues), f.cue = cues[n].id
  PROVE  /\ Grown(Append(g, f), cues, n) /\ Append(g, f) # <<>>
         /\ f.piece.ends # "sentence" => Growing(Append(g, f), cues, n)
<1> DEFINE h == Append(g, f)
<1>1. g \in Seq(AllFragments(cues)) /\ Len(g) \in Nat /\ n \in Nat
  BY LenProperties DEF Growing, Grown
<1>2. /\ h \in Seq(AllFragments(cues)) /\ h # <<>> /\ Len(h) = Len(g) + 1 /\ h[Len(g) + 1] = f
      /\ \A k \in 1..Len(g) : h[k] = g[k]
  BY <1>1, AppendProperties
<1> HIDE DEF h
<1>3. \A i : OfCue(f, cues, i) <=> i = n
  BY CueFacts DEF OfCue
<1>4. \A k \in 1..Len(h) : k = Len(g) + 1 \/ k \in 1..Len(g)
  BY <1>1, <1>2
<1>5. ASSUME NEW k \in 1..Len(h) PROVE \E i \in 1..n : OfCue(h[k], cues, i)
  <2>1. n \in 1..n
    BY <1>1
  <2> QED BY <1>2, <1>3, <1>4, <2>1 DEF Growing, Grown
<1>6. \A k \in 1..(Len(h) - 1) : h[k].piece.ends # "sentence"
  <2>1. Len(h) - 1 = Len(g)
    BY <1>1, <1>2
  <2> QED BY <1>2, <2>1 DEF Growing
<1>7. Close(cues, n, n) /\ \A i \in 1..n : Close(cues, n, i)
  BY <1>1 DEF Close
<1>8. ASSUME NEW k \in 1..Len(h), NEW i, OfCue(h[k], cues, i) PROVE Close(cues, i, n)
  <2>1. CASE k = Len(g) + 1
    BY <1>2, <1>3, <1>7, <1>8, <2>1
  <2>2. CASE k \in 1..Len(g)
    BY <1>2, <1>8, <2>2 DEF Growing
  <2> QED BY <1>4, <2>1, <2>2
<1>9. ASSUME NEW k \in 1..Len(h), NEW i, OfCue(h[k], cues, i) PROVE i \in 1..n
  <2>1. PICK j \in 1..n : OfCue(h[k], cues, j)
    BY <1>5
  <2>2. i = j
    BY <1>9, <2>1, CueFacts DEF OfCue
  <2> QED BY <2>2
<1>10. ASSUME NEW k \in 1..Len(h), NEW l \in 1..Len(h), NEW i, NEW j,
              OfCue(h[k], cues, i), OfCue(h[l], cues, j)
       PROVE  Close(cues, i, j)
  <2>1. CASE l = Len(g) + 1
    <3>1. j = n
      BY <1>2, <1>3, <1>10, <2>1
    <3> QED BY <1>8, <1>10, <3>1
  <2>2. CASE k = Len(g) + 1
    <3>1. i = n /\ j \in 1..n
      BY <1>2, <1>3, <1>9, <1>10, <2>2
    <3> QED BY <1>7, <3>1
  <2>3. CASE k \in 1..Len(g) /\ l \in 1..Len(g)
    BY <1>2, <1>10, <2>3 DEF Growing, Grown
  <2> QED BY <1>4, <2>1, <2>2, <2>3
<1>11. Grown(h, cues, n)
  BY <1>2, <1>5, <1>6, <1>10 DEF Grown
<1>12. ASSUME f.piece.ends # "sentence" PROVE Growing(h, cues, n)
  <2>1. \A k \in 1..Len(h) : h[k].piece.ends # "sentence"
    BY <1>2, <1>4, <1>12 DEF Growing
  <2> QED BY <1>8, <1>11, <2>1 DEF Growing
<1> QED BY <1>2, <1>11, <1>12 DEF h

LEMMA FragmentKeeps ==
  ASSUME NEW cues, LectureCues(cues), NEW n \in 1..Len(cues), NEW acc, NEW said,
         SpansInv(acc, said, cues, n), NEW f \in AllFragments(cues), f.cue = cues[n].id
  PROVE  SpansInv(AddFragment(acc, f), Append(said, f), cues, n)
<1> DEFINE C == AllFragments(cues)
           late == /\ Opened(acc) /\ f.end - Last(acc)[1].start > MaximumDisplay
                   /\ Last(Last(acc)).piece.ends = "clause"
           ready == IF late THEN Flush(acc) ELSE acc
           grown == [ready EXCEPT ![Len(ready)] = Append(@, f)]
<1>1. AddFragment(acc, f) = IF f.piece.ends = "sentence" THEN Flush(grown) ELSE grown
  BY DEF AddFragment
<1>2. \E front, g : InTheMaking(ready, front, g, said, cues, n)
  <2>1. PICK front, g : InTheMaking(acc, front, g, said, cues, n)
    BY DEF SpansInv
  <2>2. \E front2 : InTheMaking(Flush(acc), front2, <<>>, said, cues, n)
    BY <2>1, FlushKeeps
  <2>3. ready = acc \/ ready = Flush(acc)
    OBVIOUS
  <2> QED BY <2>1, <2>2, <2>3
<1> HIDE DEF ready
<1>3. PICK front, g : InTheMaking(ready, front, g, said, cues, n)
  BY <1>2
<1> DEFINE h == Append(g, f)
<1>4. /\ front \in Seq(Seq(C)) /\ g \in Seq(C) /\ ready = Append(front, g)
      /\ said = FlattenSeq(front) \o g /\ Growing(g, cues, n) /\ AllClosed(front, cues, n)
  BY <1>3 DEF InTheMaking, AllClosed, Growing, Grown
<1>5. grown = Append(front, h)
  BY <1>4, LastGrown
<1>6. FlattenSeq(front) \in Seq(C)
  BY <1>4, FlattenAppend
<1>7. Append(said, f) = FlattenSeq(front) \o h
  <2>1. f \in C /\ g \in Seq(C) /\ h = Append(g, f)
    BY <1>4
  <2> HIDE DEF C, h
  <2>2. Chained(C, FlattenSeq(front), g, f, said, h)
    BY <1>4, <1>6, <2>1 DEF Chained
  <2> QED BY <2>2, AppendedMore DEF LongerBy
<1>8. Grown(h, cues, n) /\ h # <<>> /\ (f.piece.ends # "sentence" => Growing(h, cues, n))
  BY <1>4, GrowsBy
<1>9. h \in Seq(C)
  BY <1>8 DEF Grown
<1> HIDE DEF h, grown
<1>10. CASE f.piece.ends # "sentence"
  <2>1. InTheMaking(grown, front, h, Append(said, f), cues, n)
    BY <1>4, <1>5, <1>7, <1>8, <1>10 DEF InTheMaking
  <2> QED BY <1>1, <1>10, <2>1 DEF SpansInv
<1>11. CASE f.piece.ends = "sentence"
  <2>1. AllClosed(grown, cues, n) /\ FlattenSeq(grown) = Append(said, f)
    <3>1. Closing(grown, front, h, cues, n)
      BY <1>4, <1>5, <1>8 DEF Closing
    <3> QED BY <1>7, <3>1, ClosesAll DEF AllClosedNow
  <2>2. Last(grown) = h
    BY <1>4, <1>5, <1>9, LastAppended
  <2>3. Flush(grown) = Append(grown, <<>>)
    BY <1>8, <2>2 DEF Flush, Opened
  <2>4. Append(said, f) \o <<>> = Append(said, f)
    <3>1. FlattenSeq(front) \o h \in Seq(C)
      BY <1>6, <1>9, ConcatProperties
    <3> QED BY <1>7, <3>1, ConcatEmptySeq
  <2>5. InTheMaking(Flush(grown), grown, <<>>, Append(said, f), cues, n)
    BY <2>1, <2>3, <2>4, EmptyGrows DEF InTheMaking
  <2> QED BY <1>1, <1>11, <2>5 DEF SpansInv
<1> QED BY <1>10, <1>11

(* Any sequence of sequences that is not empty stays one.                  *)
Spans(C) == {acc \in Seq(Seq(C)) : acc # <<>>}

LEMMA SpansStay ==
  ASSUME NEW C, NEW acc \in Spans(C), NEW f \in C
  PROVE  Flush(acc) \in Spans(C) /\ AddFragment(acc, f) \in Spans(C)
<1>1. ASSUME NEW a \in Spans(C) PROVE Flush(a) \in Spans(C)
  <2>1. <<>> \in Seq(C)
    BY EmptySeq
  <2>2. Append(a, <<>>) \in Spans(C)
    BY <2>1, AppendProperties DEF Spans
  <2> QED BY <2>2 DEF Flush
<1>2. ASSUME NEW a \in Spans(C)
      PROVE  [a EXCEPT ![Len(a)] = Append(@, f)] \in Spans(C)
  <2>1. PICK front \in Seq(Seq(C)), g \in Seq(C) : a = Append(front, g)
    BY SequenceEmptyOrAppend DEF Spans
  <2>2. [a EXCEPT ![Len(a)] = Append(@, f)] = Append(front, Append(g, f))
    BY <2>1, LastGrown
  <2>3. Append(g, f) \in Seq(C)
    BY AppendProperties
  <2> QED BY <2>2, <2>3, AppendProperties DEF Spans
<1> DEFINE late == /\ Opened(acc) /\ f.end - Last(acc)[1].start > MaximumDisplay
                   /\ Last(Last(acc)).piece.ends = "clause"
           ready == IF late THEN Flush(acc) ELSE acc
           grown == [ready EXCEPT ![Len(ready)] = Append(@, f)]
<1>3. AddFragment(acc, f) = IF f.piece.ends = "sentence" THEN Flush(grown) ELSE grown
  BY DEF AddFragment
<1>4. ready \in Spans(C)
  BY <1>1
<1> HIDE DEF ready
<1>5. grown \in Spans(C)
  BY <1>2, <1>4
<1> HIDE DEF grown
<1> QED BY <1>1, <1>3, <1>5

LEMMA AddFragmentsSteps ==
  ASSUME NEW C, NEW acc \in Spans(C), NEW fs \in Seq(C)
  PROVE  \E g : /\ g \in [0..Len(fs) -> Spans(C)] /\ g[0] = acc
                /\ \A k \in 1..Len(fs) : g[k] = AddFragment(g[k - 1], fs[k])
                /\ AddFragments(acc, fs) = g[Len(fs)]
<1> DEFINE N == Len(fs)
           D == Spans(C)
           step == [a \in D \X (1..N) |-> AddFragment(a[1], fs[a[2]])]
           Is(g) == g = [k \in 0..N |-> IF k = 0 THEN acc ELSE AddFragment(g[k - 1], fs[k])]
           h == CHOOSE h : Is(h)
<1>1. N \in Nat /\ \A k \in 1..N : fs[k] \in C
  BY LenProperties, ElementOfSeq
<1>2. step \in [D \X (1..N) -> D]
  BY <1>1, SpansStay
<1>3. AddFragments(acc, fs) = h[N]
  BY DEF AddFragments
<1> HIDE DEF N, D
<1>4. \A a \in D, k \in 1..N : step[<<a, k>>] = AddFragment(a, fs[k])
  OBVIOUS
<1> HIDE DEF step
<1>5. PICK g : Steps(g, D, acc, step, N)
  BY <1>1, <1>2, StepsExist DEF D
<1>6. DOMAIN g = 0..N /\ g = [k \in DOMAIN g |-> g[k]] /\ g[0] = acc
  BY <1>5 DEF Steps
<1>7. ASSUME NEW k \in 1..N PROVE g[k] = AddFragment(g[k - 1], fs[k])
  <2>1. g[k - 1] \in D /\ g[k] = step[<<g[k - 1], k>>]
    BY <1>1, <1>5 DEF Steps
  <2> QED BY <1>4, <2>1
<1>8. \A k \in 0..N : g[k] = IF k = 0 THEN acc ELSE AddFragment(g[k - 1], fs[k])
  BY <1>1, <1>6, <1>7
<1>9. Is(h)
  <2>1. Is(g)
    BY <1>6, <1>8
  <2> QED BY <2>1
<1> HIDE DEF h
<1>10. DOMAIN h = 0..N /\ h = [k \in DOMAIN h |-> h[k]] /\ h[0] = acc
  BY <1>1, <1>9
<1>11. \A k \in 1..N : h[k] = AddFragment(h[k - 1], fs[k])
  BY <1>1, <1>9
<1>12. Steps(h, D, acc, step, N)
  <2>1. \A k \in 1..N : h[k - 1] \in D => h[k] = step[<<h[k - 1], k>>]
    BY <1>4, <1>11
  <2>2. acc \in D
    BY DEF D
  <2> QED BY <1>1, <1>2, <1>10, <2>1, <2>2, StepsStay
<1> QED BY <1>3, <1>10, <1>11, <1>12 DEF Steps, N, D

LEMMA FragmentsKeep ==
  ASSUME NEW cues, LectureCues(cues), NEW n \in 1..Len(cues),
         NEW acc \in Spans(AllFragments(cues)), NEW said \in Seq(AllFragments(cues)),
         SpansInv(acc, said, cues, n)
  PROVE  /\ AddFragments(acc, FragmentsOf(cues[n])) \in Spans(AllFragments(cues))
         /\ SpansInv(AddFragments(acc, FragmentsOf(cues[n])), said \o FragmentsOf(cues[n]), cues, n)
<1> DEFINE C == AllFragments(cues)
           fs == FragmentsOf(cues[n])
           N == Len(fs)
<1>1. fs \in Seq(C) /\ \A k \in 1..N : fs[k].cue = cues[n].id /\ fs[k] \in C
  BY FragmentsOfCues
<1>2. N \in Nat
  BY <1>1, LenProperties
<1> HIDE DEF fs
<1>3. PICK g : /\ g \in [0..N -> Spans(C)] /\ g[0] = acc
               /\ \A k \in 1..N : g[k] = AddFragment(g[k - 1], fs[k])
               /\ AddFragments(acc, fs) = g[N]
  BY <1>1, AddFragmentsSteps
<1> DEFINE S == {k \in Nat : k <= N => SpansInv(g[k], said \o SubSeq(fs, 1, k), cues, n)}
<1>4. 0 \in S
  <2>1. SubSeq(fs, 1, 0) = <<>> /\ said \o <<>> = said
    BY <1>1, WholeAndEmpty, ConcatEmptySeq
  <2> QED BY <1>3, <2>1
<1>5. ASSUME NEW k \in S PROVE k + 1 \in S
  <2> SUFFICES ASSUME k + 1 <= N PROVE SpansInv(g[k + 1], said \o SubSeq(fs, 1, k + 1), cues, n)
    OBVIOUS
  <2>0. k \in 0..(N - 1) /\ k + 1 \in 1..N /\ k + 1 - 1 = k /\ k \in 0..N
    BY <1>2
  <2>1. SpansInv(g[k], said \o SubSeq(fs, 1, k), cues, n)
    BY <2>0
  <2>2. SubSeq(fs, 1, k + 1) = Append(SubSeq(fs, 1, k), fs[k + 1]) /\ SubSeq(fs, 1, k) \in Seq(C)
    BY <1>1, <2>0, OneLonger, FirstOnes
  <2>3. g[k + 1] = AddFragment(g[k], fs[k + 1]) /\ fs[k + 1] \in C /\ fs[k + 1].cue = cues[n].id
    BY <1>1, <1>3, <2>0
  <2>4. SpansInv(g[k + 1], Append(said \o SubSeq(fs, 1, k), fs[k + 1]), cues, n)
    BY <2>1, <2>3, FragmentKeeps
  <2>5. Append(said \o SubSeq(fs, 1, k), fs[k + 1]) = said \o SubSeq(fs, 1, k + 1)
    <3> DEFINE a == SubSeq(fs, 1, k)
               b == SubSeq(fs, 1, k + 1)
               x == fs[k + 1]
               all == said \o a
    <3>1. said \in Seq(C) /\ a \in Seq(C) /\ x \in C /\ b = Append(a, x) /\ all = said \o a
      BY <2>2, <2>3
    <3> HIDE DEF C, a, b, x, all
    <3>2. Chained(C, said, a, x, all, b)
      BY <3>1 DEF Chained
    <3>3. Append(all, x) = said \o b
      BY <3>2, AppendedMore DEF LongerBy
    <3> QED BY <3>3 DEF a, b, x, all
  <2> QED BY <2>4, <2>5
<1> HIDE DEF S
<1>6. S = Nat
  <2>1. S \in SUBSET Nat
    BY DEF S
  <2> QED BY <1>4, <1>5, <2>1, Induct
<1>7. SpansInv(g[N], said \o SubSeq(fs, 1, N), cues, n) /\ N \in 0..N
  BY <1>2, <1>6 DEF S
<1>8. SubSeq(fs, 1, N) = fs
  BY <1>1, WholeAndEmpty
<1> QED BY <1>3, <1>7, <1>8 DEF fs

(* The next cue, after a pause or not.                                     *)
LEMMA NextCueKeeps ==
  ASSUME NEW cues, LectureCues(cues), NEW n \in 0..(Len(cues) - 1), NEW acc, NEW said,
         SpansInv(acc, said, cues, n)
  PROVE  SpansInv(IF n + 1 > 1 /\ Severed(cues[n], cues[n + 1]) THEN Flush(acc) ELSE acc,
                  said, cues, n + 1)
<1>0. n \in Nat /\ Len(cues) \in Nat /\ n + 1 \in 1..Len(cues) /\ \A i \in 1..n : i \in 1..(n + 1)
  BY CueFacts
<1>1. ASSUME NEW g, Grown(g, cues, n) PROVE Grown(g, cues, n + 1)
  BY <1>0, <1>1 DEF Grown
<1>2. ASSUME NEW front, AllClosed(front, cues, n) PROVE AllClosed(front, cues, n + 1)
  BY <1>1, <1>2 DEF AllClosed, Closed
<1>3. PICK front, g : InTheMaking(acc, front, g, said, cues, n)
  BY DEF SpansInv
<1>4. CASE n + 1 > 1 /\ Severed(cues[n], cues[n + 1])
  <2>1. PICK front2 : InTheMaking(Flush(acc), front2, <<>>, said, cues, n)
    BY <1>3, FlushKeeps
  <2>2. InTheMaking(Flush(acc), front2, <<>>, said, cues, n + 1)
    BY <1>2, <2>1, EmptyGrows DEF InTheMaking
  <2> QED BY <1>4, <2>2 DEF SpansInv
<1>5. CASE ~(n + 1 > 1 /\ Severed(cues[n], cues[n + 1]))
  <2>1. Growing(g, cues, n) /\ AllClosed(front, cues, n)
    BY <1>3 DEF InTheMaking
  <2>2. ASSUME NEW k \in 1..Len(g), NEW i, OfCue(g[k], cues, i) PROVE Close(cues, i, n + 1)
    <3>1. PICK j \in 1..n : OfCue(g[k], cues, j)
      BY <2>1 DEF Growing, Grown
    <3>n. n > 0
      BY <1>0, <3>1
    <3>i. i \in 1..Len(cues) /\ j \in 1..Len(cues) /\ cues[i].id = cues[j].id
      BY <2>2, <3>1 DEF OfCue
    <3>2. i = j /\ n > 0
      BY <3>n, <3>i, CueFacts
    <3>3. Close(cues, i, n)
      BY <2>1, <2>2 DEF Growing
    <3>4. ~Severed(cues[n], cues[n + 1])
      BY <1>0, <1>5, <3>2
    <3>5. ASSUME NEW m \in i..(n + 1 - 1) PROVE ~Severed(cues[m], cues[m + 1])
      <4>1. m = n \/ m \in i..(n - 1)
        BY <1>0, <3>2
      <4> QED BY <3>3, <3>4, <4>1 DEF Close
    <3> QED BY <3>5 DEF Close
  <2>3. Growing(g, cues, n + 1)
    BY <1>1, <2>1, <2>2 DEF Growing
  <2>4. InTheMaking(acc, front, g, said, cues, n + 1)
    BY <1>2, <1>3, <2>1, <2>3 DEF InTheMaking
  <2> QED BY <1>5, <2>4 DEF SpansInv
<1> QED BY <1>4, <1>5

GroupedUpTo(h, cues) ==
  /\ h \in [0..Len(cues) -> Spans(AllFragments(cues))] /\ h[0] = << <<>> >>
  /\ \A n \in 1..Len(cues) : h[n] = AddCueText(cues, h[n - 1], n)

LEMMA GroupedSteps ==
  ASSUME NEW cues, LectureCues(cues)
  PROVE  \E h : GroupedUpTo(h, cues) /\ Grouped(cues) = LET acc == h[Len(cues)] IN
                                          IF Opened(acc) THEN acc ELSE Front(acc)
<1> DEFINE N == Len(cues)
           C == AllFragments(cues)
           D == Spans(C)
           start == << <<>> >>
           step == [a \in D \X (1..N) |-> AddCueText(cues, a[1], a[2])]
           Is(g) == g = [n \in 0..N |-> IF n = 0 THEN start ELSE AddCueText(cues, g[n - 1], n)]
           h == CHOOSE h : Is(h)
<1>1. N \in Nat
  BY CueFacts
<1>2. start \in D
  <2>1. <<>> \in Seq(C) /\ \A x \in Seq(C) : <<x>> \in Seq(Seq(C)) /\ <<x>> # <<>>
    OBVIOUS
  <2> QED BY <2>1 DEF Spans
<1>3. ASSUME NEW a \in D, NEW n \in 1..N PROVE AddCueText(cues, a, n) \in D
  <2> DEFINE fs == FragmentsOf(cues[n])
  <2>1. fs \in Seq(C) /\ Len(fs) \in Nat
    BY FragmentsOfCues, LenProperties
  <2>2. ASSUME NEW b \in D PROVE AddFragments(b, fs) \in D
    <3> HIDE DEF fs
    <3>1. PICK g : g \in [0..Len(fs) -> D] /\ AddFragments(b, fs) = g[Len(fs)]
      BY <2>1, AddFragmentsSteps
    <3> QED BY <2>1, <3>1
  <2>3. Flush(a) \in D
    <3>1. <<>> \in Seq(C)
      BY EmptySeq
    <3>2. Append(a, <<>>) \in D
      BY <3>1, AppendProperties DEF Spans
    <3> QED BY <3>2 DEF Flush
  <2> HIDE DEF D
  <2> QED BY <2>2, <2>3 DEF AddCueText
<1>4. Grouped(cues) = LET acc == h[N] IN IF Opened(acc) THEN acc ELSE Front(acc)
  BY DEF Grouped
<1> HIDE DEF N, D, start
<1>5. \A a \in D, k \in 1..N : step[<<a, k>>] = AddCueText(cues, a, k)
  OBVIOUS
<1>6. step \in [D \X (1..N) -> D]
  BY <1>3
<1> HIDE DEF step
<1>7. PICK g : Steps(g, D, start, step, N)
  BY <1>1, <1>2, <1>6, StepsExist
<1>8. DOMAIN g = 0..N /\ g = [k \in DOMAIN g |-> g[k]] /\ g[0] = start
  BY <1>7 DEF Steps
<1>9. ASSUME NEW k \in 1..N PROVE g[k] = AddCueText(cues, g[k - 1], k)
  <2>1. g[k - 1] \in D /\ g[k] = step[<<g[k - 1], k>>]
    BY <1>1, <1>7 DEF Steps
  <2> QED BY <1>5, <2>1
<1>10. \A k \in 0..N : g[k] = IF k = 0 THEN start ELSE AddCueText(cues, g[k - 1], k)
  BY <1>1, <1>8, <1>9
<1>11. Is(h)
  <2>1. Is(g)
    BY <1>8, <1>10
  <2> QED BY <2>1
<1> HIDE DEF h
<1>12. DOMAIN h = 0..N /\ h = [k \in DOMAIN h |-> h[k]] /\ h[0] = start
  BY <1>1, <1>11
<1>13. \A k \in 1..N : h[k] = AddCueText(cues, h[k - 1], k)
  BY <1>1, <1>11
<1>14. Steps(h, D, start, step, N)
  <2>1. \A k \in 1..N : h[k - 1] \in D => h[k] = step[<<h[k - 1], k>>]
    BY <1>5, <1>13
  <2> QED BY <1>1, <1>2, <1>6, <1>12, <2>1, StepsStay
<1>15. h \in [0..N -> D]
  BY <1>14 DEF Steps
<1>16. GroupedUpTo(h, cues)
  BY <1>12, <1>13, <1>15 DEF GroupedUpTo, N, D, start
<1> QED BY <1>4, <1>16 DEF N

Texts(cues) == [n \in DOMAIN cues |-> FragmentsOf(cues[n])]

LEMMA GroupedInv ==
  ASSUME NEW cues, LectureCues(cues), NEW h, GroupedUpTo(h, cues), NEW n \in 0..Len(cues)
  PROVE  SpansInv(h[n], FlattenSeq(SubSeq(Texts(cues), 1, n)), cues, n)
<1> DEFINE C == AllFragments(cues)
           N == Len(cues)
           t == Texts(cues)
           S == {k \in Nat : k <= N => SpansInv(h[k], FlattenSeq(SubSeq(t, 1, k)), cues, k)}
<1>1. N \in Nat /\ DOMAIN cues = 1..N
  BY CueFacts
<1>2. t \in Seq(Seq(C)) /\ Len(t) = N /\ \A k \in 1..N : t[k] = FragmentsOf(cues[k])
  <2>1. \A k \in 1..N : t[k] = FragmentsOf(cues[k]) /\ t[k] \in Seq(C)
    BY <1>1, FragmentsOfCues DEF Texts
  <2>2. t = [k \in 1..N |-> t[k]]
    BY <1>1 DEF Texts
  <2> HIDE DEF t
  <2>3. t \in Seq(Range(t)) /\ Len(t) = N
    BY <1>1, <2>2, FunctionIsSeq
  <2>4. Range(t) \subseteq Seq(C)
    BY <2>1, <2>2 DEF Range
  <2> QED BY <2>1, <2>3, <2>4, SeqMonotonic
<1> HIDE DEF N, t
<1>3. 0 \in S
  <2>1. h[0] = << <<>> >> /\ FlattenSeq(SubSeq(t, 1, 0)) = <<>>
    BY <1>2, WholeAndEmpty DEF GroupedUpTo, FlattenSeq
  <2>2. <<>> \in Seq(C) /\ <<>> \in Seq(Seq(C)) /\ \A x : Append(<<>>, x) = <<x>>
    OBVIOUS
  <2>3. AllClosed(<<>>, cues, 0)
    BY <2>2 DEF AllClosed
  <2>4. FlattenSeq(<<>>) = <<>> /\ <<>> \o <<>> = <<>>
    BY DEF FlattenSeq
  <2>5. InTheMaking(<< <<>> >>, <<>>, <<>>, <<>>, cues, 0)
    BY <2>2, <2>3, <2>4, EmptyGrows DEF InTheMaking
  <2>6. SpansInv(h[0], FlattenSeq(SubSeq(t, 1, 0)), cues, 0)
    BY <2>1, <2>5 DEF SpansInv
  <2> QED BY <2>6
<1>4. ASSUME NEW k \in S PROVE k + 1 \in S
  <2> SUFFICES ASSUME k + 1 <= N
               PROVE  SpansInv(h[k + 1], FlattenSeq(SubSeq(t, 1, k + 1)), cues, k + 1)
    OBVIOUS
  <2>0. k \in 0..(Len(cues) - 1) /\ k + 1 \in 1..Len(cues) /\ k + 1 - 1 = k /\ k \in 0..Len(cues)
        /\ k \in 0..(Len(t) - 1)
    BY <1>1, <1>2 DEF N
  <2> DEFINE said == FlattenSeq(SubSeq(t, 1, k))
             acc == IF k + 1 > 1 /\ Severed(cues[k], cues[k + 1]) THEN Flush(h[k]) ELSE h[k]
  <2>1. SpansInv(h[k], said, cues, k)
    BY <2>0 DEF S, N
  <2>2. SpansInv(acc, said, cues, k + 1)
    BY <2>0, <2>1, NextCueKeeps
  <2>3. h[k + 1] = AddFragments(acc, FragmentsOf(cues[k + 1]))
    BY <2>0 DEF GroupedUpTo, AddCueText
  <2>4. /\ FlattenSeq(SubSeq(t, 1, k + 1)) = said \o FragmentsOf(cues[k + 1])
        /\ said \in Seq(C)
    <3>1. t[k + 1] = FragmentsOf(cues[k + 1])
      BY <1>2, <2>0 DEF N
    <3> QED BY <1>2, <2>0, <3>1, FlattenMore
  <2>5. acc \in Spans(C)
    <3>1. h[k] \in Spans(C)
      BY <2>0 DEF GroupedUpTo
    <3>2. <<>> \in Seq(C)
      BY EmptySeq
    <3>3. Append(h[k], <<>>) \in Spans(C)
      BY <3>1, <3>2, AppendProperties DEF Spans
    <3> QED BY <3>1, <3>3 DEF Flush
  <2> HIDE DEF said, acc
  <2>6. SpansInv(h[k + 1], said \o FragmentsOf(cues[k + 1]), cues, k + 1)
    BY <2>0, <2>2, <2>3, <2>4, <2>5, FragmentsKeep
  <2> QED BY <2>4, <2>6
<1> HIDE DEF S
<1>5. S = Nat
  <2>1. S \in SUBSET Nat
    BY DEF S
  <2> QED BY <1>3, <1>4, <2>1, Induct
<1>6. n \in S /\ n <= N
  BY <1>1, <1>5 DEF N
<1> QED BY <1>6 DEF S, t, N

LEMMA GroupedIs ==
  ASSUME NEW cues, LectureCues(cues)
  PROVE  /\ AllClosed(Grouped(cues), cues, Len(cues))
         /\ FlattenSeq(Grouped(cues)) = FlattenSeq(Texts(cues))
<1> DEFINE C == AllFragments(cues)
           N == Len(cues)
           t == Texts(cues)
<1>1. PICK h : GroupedUpTo(h, cues) /\ Grouped(cues) = LET acc == h[N] IN
                                         IF Opened(acc) THEN acc ELSE Front(acc)
  BY GroupedSteps
<1>2. N \in Nat /\ DOMAIN cues = 1..N
  BY CueFacts
<1>3. t \in Seq(Seq(C)) /\ Len(t) = N
  <2>1. \A k \in 1..N : t[k] \in Seq(C)
    BY <1>2, FragmentsOfCues DEF Texts
  <2>2. t = [k \in 1..N |-> t[k]]
    BY <1>2 DEF Texts
  <2> HIDE DEF t
  <2>3. t \in Seq(Range(t)) /\ Len(t) = N
    BY <1>2, <2>2, FunctionIsSeq
  <2>4. Range(t) \subseteq Seq(C)
    BY <2>1, <2>2 DEF Range
  <2> QED BY <2>3, <2>4, SeqMonotonic
<1> DEFINE acc == h[N]
           said == FlattenSeq(t)
<1> HIDE DEF t
<1>4. SubSeq(t, 1, N) = t
  BY <1>3, WholeAndEmpty
<1>5. SpansInv(acc, said, cues, N)
  <2>1. SpansInv(h[N], FlattenSeq(SubSeq(t, 1, N)), cues, N)
    BY <1>1, <1>2, GroupedInv DEF t
  <2> QED BY <1>4, <2>1
<1>6. Grouped(cues) = IF Opened(acc) THEN acc ELSE Front(acc)
  BY <1>1
<1> HIDE DEF acc, said
<1>7. PICK front, g : InTheMaking(acc, front, g, said, cues, N)
  BY <1>5 DEF SpansInv
<1>8. /\ front \in Seq(Seq(C)) /\ g \in Seq(C) /\ acc = Append(front, g)
      /\ AllClosed(front, cues, N) /\ Grown(g, cues, N) /\ said = FlattenSeq(front) \o g
  BY <1>7 DEF InTheMaking, AllClosed, Growing, Grown
<1>9. Last(acc) = g /\ Front(acc) = front
  BY <1>8, LastAppended
<1>10. CASE g = <<>>
  <2>1. Grouped(cues) = front
    BY <1>6, <1>9, <1>10 DEF Opened
  <2>2. FlattenSeq(front) \in Seq(C)
    BY <1>8, FlattenAppend
  <2>3. FlattenSeq(front) \o <<>> = FlattenSeq(front)
    BY <2>2, ConcatEmptySeq
  <2> QED BY <1>8, <1>10, <2>1, <2>3 DEF said, t
<1>11. CASE g # <<>>
  <2>1. Grouped(cues) = acc
    BY <1>6, <1>9, <1>11 DEF Opened
  <2>2. Closing(acc, front, g, cues, N)
    BY <1>8, <1>11 DEF Closing
  <2>3. AllClosed(acc, cues, N) /\ FlattenSeq(acc) = said
    BY <1>8, <2>2, ClosesAll DEF AllClosedNow
  <2> QED BY <2>1, <2>3 DEF said, t
<1> QED BY <1>10, <1>11

(* A closed span reaches over no pause and from no speaker to another.     *)
LEMMA ClosedReaches ==
  ASSUME NEW cues, LectureCues(cues), NEW g, Closed(g, cues, Len(cues)),
         NEW n, NEW i \in DOMAIN cues, NEW j \in DOMAIN cues, n \in DOMAIN cues, i <= n, n < j,
         cues[i].id \in {f.cue : f \in Range(g)}, cues[j].id \in {f.cue : f \in Range(g)}
  PROVE  cues[n + 1].start - cues[n].end <= MaximumGap /\ Spoken(cues[n], cues[n + 1])
<1>1. DOMAIN cues = 1..Len(cues) /\ Len(cues) \in Nat
  BY CueFacts
<1>2. g \in Seq(AllFragments(cues)) /\ DOMAIN g = 1..Len(g)
  BY LenProperties DEF Closed, Grown
<1>3. PICK k \in 1..Len(g) : g[k].cue = cues[i].id
  BY <1>2 DEF Range
<1>4. PICK l \in 1..Len(g) : g[l].cue = cues[j].id
  BY <1>2 DEF Range
<1>5. OfCue(g[k], cues, i) /\ OfCue(g[l], cues, j)
  BY <1>1, <1>3, <1>4 DEF OfCue
<1>6. Close(cues, i, j)
  BY <1>5 DEF Closed, Grown
<1>7. n \in i..(j - 1) /\ n + 1 \in 1..Len(cues)
  BY <1>1
<1>8. ~Severed(cues[n], cues[n + 1])
  BY <1>6, <1>7 DEF Close
<1>9. cues[n + 1].start \in Nat /\ cues[n].end \in Nat
  BY <1>1, <1>7, CueFacts
<1>10. cues[n + 1].start - cues[n].end <= MaximumGap
  BY <1>8, <1>9, SpanConstants DEF Severed
<1>11. Spoken(cues[n], cues[n + 1])
  BY <1>8 DEF Severed, SpeakerChanged, Spoken
<1> QED BY <1>10, <1>11

-----------------------------------------------------------------------------
(* Groups of whole cues.                                                   *)
Holds(R, done, group, said) ==
  done \in Seq(Seq(R)) /\ group \in Seq(R) /\ said = FlattenSeq(done) \o group

LEMMA HoldsDone ==
  ASSUME NEW R, NEW done, NEW group, NEW said, Holds(R, done, group, said)
  PROVE  Holds(R, Append(done, group), <<>>, said)
<1>1. done \in Seq(Seq(R)) /\ group \in Seq(R) /\ said = FlattenSeq(done) \o group
  BY DEF Holds
<1>2. FlattenSeq(Append(done, group)) = said /\ FlattenSeq(done) \in Seq(R)
  BY <1>1, FlattenAppend
<1>3. said \in Seq(R) /\ said \o <<>> = said /\ <<>> \in Seq(R)
  BY <1>1, <1>2, ConcatProperties, ConcatEmptySeq
<1>4. Append(done, group) \in Seq(Seq(R))
  BY <1>1, AppendProperties
<1> QED BY <1>2, <1>3, <1>4 DEF Holds

LEMMA HoldsMore ==
  ASSUME NEW R, NEW done, NEW group, NEW said, Holds(R, done, group, said), NEW cue \in R
  PROVE  Holds(R, done, Append(group, cue), Append(said, cue))
<1>1. done \in Seq(Seq(R)) /\ group \in Seq(R) /\ said = FlattenSeq(done) \o group
  BY DEF Holds
<1>2. FlattenSeq(done) \in Seq(R)
  BY <1>1, FlattenAppend
<1> DEFINE more == Append(group, cue)
<1>3. more \in Seq(R)
  BY <1>1, AppendProperties
<1>4. Chained(R, FlattenSeq(done), group, cue, said, more)
  BY <1>1, <1>2 DEF Chained
<1> HIDE DEF more
<1>5. Append(said, cue) = FlattenSeq(done) \o more
  BY <1>4, AppendedMore DEF LongerBy
<1>6. Holds(R, done, more, Append(said, cue))
  BY <1>1, <1>3, <1>5 DEF Holds
<1> QED BY <1>6 DEF more

LEMMA HoldsSplit ==
  ASSUME NEW R, NEW done, NEW group, NEW said, Holds(R, done, group, said),
         NEW k \in 1..(Len(group) - 1)
  PROVE  Holds(R, Append(done, SubSeq(group, 1, k)), SubSeq(group, k + 1, Len(group)), said)
<1>1. done \in Seq(Seq(R)) /\ group \in Seq(R) /\ said = FlattenSeq(done) \o group
  BY DEF Holds
<1> DEFINE a == SubSeq(group, 1, k)
           b == SubSeq(group, k + 1, Len(group))
<1>2. Len(group) \in Nat /\ \A m \in 1..Len(group) : group[m] \in R
  BY <1>1, LenProperties, ElementOfSeq
<1>3. a \in Seq(R) /\ b \in Seq(R) /\ a \o b = group
  <2>1. k \in 0..Len(group)
    BY <1>2
  <2>2. a \in Seq(R)
    BY <1>1, <2>1, FirstOnes
  <2>3. k + 1 \in Nat /\ \A m \in (k + 1)..Len(group) : group[m] \in R
    BY <1>2
  <2>4. b \in Seq(R)
    BY <1>2, <2>3, SubSeqProperties
  <2>5. a \o b = SubSeq(group, 1, Len(group))
    <3>1. 1 \in 1..(Len(group) + 1) /\ k \in 0..Len(group) /\ Len(group) \in k..Len(group)
      BY <1>2
    <3> QED BY <1>1, <1>2, <3>1, ConcatAdjacentSubSeq
  <2>6. SubSeq(group, 1, Len(group)) = group
    BY <1>1, WholeAndEmpty
  <2> QED BY <2>2, <2>4, <2>5, <2>6
<1> HIDE DEF a, b
<1>4. FlattenSeq(Append(done, a)) = FlattenSeq(done) \o a /\ FlattenSeq(done) \in Seq(R)
  BY <1>1, <1>3, FlattenAppend
<1>5. (FlattenSeq(done) \o a) \o b = FlattenSeq(done) \o (a \o b)
  <2> DEFINE base == FlattenSeq(done)
  <2>1. base \in Seq(R) /\ a \in Seq(R) /\ b \in Seq(R)
    BY <1>3, <1>4
  <2> HIDE DEF base
  <2>2. (base \o a) \o b = base \o (a \o b)
    BY <2>1, ConcatAssociative
  <2> QED BY <2>2 DEF base
<1>6. Append(done, a) \in Seq(Seq(R))
  BY <1>1, <1>3, AppendProperties
<1>7. Holds(R, Append(done, a), b, said)
  BY <1>1, <1>3, <1>4, <1>5, <1>6 DEF Holds
<1> QED BY <1>7 DEF a, b

LEMMA GroupCueKeeps ==
  ASSUME NEW R, NEW acc, NEW said, Holds(R, acc.done, acc.group, said), NEW cue \in R
  PROVE  Holds(R, GroupCue(acc, cue).done, GroupCue(acc, cue).group, Append(said, cue))
<1> DEFINE cut == acc.group # <<>> /\ Severed(Last(acc.group), cue)
           done == IF cut THEN Append(acc.done, acc.group) ELSE acc.done
           group == IF cut THEN <<cue>> ELSE Append(acc.group, cue)
           more == Append(said, cue)
           split == SplitLong(done, group)
<1>1. GroupCue(acc, cue) = IF EndOf(cue) = "sentence"
                           THEN [done |-> Append(done, group), group |-> <<>>] ELSE split
  BY DEF GroupCue
<1>2. Holds(R, done, group, more)
  <2>1. CASE cut
    <3>1. Holds(R, Append(acc.done, acc.group), <<>>, said)
      BY HoldsDone
    <3>2. Holds(R, Append(acc.done, acc.group), Append(<<>>, cue), more)
      BY <3>1, HoldsMore
    <3>3. Append(<<>>, cue) = <<cue>>
      OBVIOUS
    <3> QED BY <2>1, <3>2, <3>3
  <2>2. CASE ~cut
    BY <2>2, HoldsMore
  <2> QED BY <2>1, <2>2
<1> HIDE DEF done, group, more, cut
<1>3. Holds(R, Append(done, group), <<>>, more)
  BY <1>2, HoldsDone
<1>4. Holds(R, split.done, split.group, more)
  <2> DEFINE L == LatestClause(group)
             k == CHOOSE k \in L : \A j \in L : j <= k
             whole == \/ Lasts([start |-> group[1].start, end |-> Last(group).end]) < MaximumDisplay
                      \/ L = {}
  <2>1. split = IF whole THEN [done |-> done, group |-> group]
                ELSE [done |-> Append(done, SubSeq(group, 1, k)),
                      group |-> SubSeq(group, k + 1, Len(group))]
    BY DEF SplitLong
  <2>2. CASE whole
    <3> HIDE DEF whole, split
    <3>1. split = [done |-> done, group |-> group]
      BY <2>1, <2>2
    <3> QED BY <1>2, <3>1
  <2>3. CASE ~whole
    <3>1. L # {} /\ L \subseteq 1..(Len(group) - 1) /\ Len(group) \in Nat
      BY <1>2, <2>3, LenProperties DEF LatestClause, Holds
    <3>2. \E m \in L : \A j \in L : j <= m
      <4> HIDE DEF L
      <4>1. L \in SUBSET (1..Len(group)) /\ L # {} /\ Len(group) \in Nat
        BY <3>1
      <4>2. Max(L) \in L /\ \A j \in L : j <= Max(L)
        BY <4>1, LargestIs
      <4> QED BY <4>2
    <3>3. k \in L
      <4> HIDE DEF L
      <4> QED BY <3>2
    <3> HIDE DEF whole, split, k
    <3>4. k \in 1..(Len(group) - 1)
      BY <3>1, <3>3
    <3>5. Holds(R, Append(done, SubSeq(group, 1, k)), SubSeq(group, k + 1, Len(group)), more)
      BY <1>2, <3>4, HoldsSplit
    <3>6. split = [done |-> Append(done, SubSeq(group, 1, k)),
                   group |-> SubSeq(group, k + 1, Len(group))]
      BY <2>1, <2>3
    <3> QED BY <3>5, <3>6
  <2> QED BY <2>2, <2>3
<1> HIDE DEF split
<1>5. CASE EndOf(cue) = "sentence"
  <2>1. GroupCue(acc, cue) = [done |-> Append(done, group), group |-> <<>>]
    BY <1>1, <1>5
  <2> QED BY <1>3, <2>1 DEF more
<1>6. CASE EndOf(cue) # "sentence"
  <2>1. GroupCue(acc, cue) = split
    BY <1>1, <1>6
  <2> QED BY <1>4, <2>1 DEF more
<1> QED BY <1>5, <1>6

(* The groups so far are whole sequences of the cues so far.               *)
Grouping(R) == [done : Seq(Seq(R)), group : Seq(R)]

LEMMA GroupsSteps ==
  ASSUME NEW cues, LectureCues(cues)
  PROVE  \E h : /\ h[0] = [done |-> <<>>, group |-> <<>>]
                /\ \A n \in 1..Len(cues) : h[n] = GroupCue(h[n - 1], cues[n])
                /\ SemanticSourceGroups(cues) = LET acc == h[Len(cues)] IN
                     IF acc.group = <<>> THEN acc.done ELSE Append(acc.done, acc.group)
<1> DEFINE N == Len(cues)
           R == Range(cues)
           D == Grouping(R)
           start == [done |-> <<>>, group |-> <<>>]
           step == [a \in D \X (1..N) |-> GroupCue(a[1], cues[a[2]])]
           Is(g) == g = [n \in 0..N |-> IF n = 0 THEN start ELSE GroupCue(g[n - 1], cues[n])]
           h == CHOOSE h : Is(h)
<1>1. N \in Nat /\ \A n \in 1..N : cues[n] \in R
  BY CueFacts
<1>2. start \in D
  <2>1. <<>> \in Seq(Seq(R)) /\ <<>> \in Seq(R)
    BY EmptySeq
  <2> QED BY <2>1 DEF Grouping
<1>3. ASSUME NEW a \in D, NEW n \in 1..N PROVE GroupCue(a, cues[n]) \in D
  <2>1. a.done \in Seq(Seq(R)) /\ a.group \in Seq(R) /\ cues[n] \in R
    BY <1>1 DEF Grouping
  <2>2. Holds(R, a.done, a.group, FlattenSeq(a.done) \o a.group)
    BY <2>1 DEF Holds
  <2>3. /\ GroupCue(a, cues[n]).done \in Seq(Seq(R))
        /\ GroupCue(a, cues[n]).group \in Seq(R)
    BY <2>1, <2>2, GroupCueKeeps DEF Holds
  <2>4. \E d, g : GroupCue(a, cues[n]) = [done |-> d, group |-> g]
    BY DEF GroupCue, SplitLong
  <2>5. PICK d, g : GroupCue(a, cues[n]) = [done |-> d, group |-> g]
    BY <2>4
  <2> QED BY <2>3, <2>5 DEF Grouping
<1>4. SemanticSourceGroups(cues) = LET acc == h[N] IN
                     IF acc.group = <<>> THEN acc.done ELSE Append(acc.done, acc.group)
  BY DEF SemanticSourceGroups
<1> HIDE DEF N, D, start
<1>5. \A a \in D, k \in 1..N : step[<<a, k>>] = GroupCue(a, cues[k])
  OBVIOUS
<1>6. step \in [D \X (1..N) -> D]
  BY <1>3
<1> HIDE DEF step
<1>7. PICK g : Steps(g, D, start, step, N)
  BY <1>1, <1>2, <1>6, StepsExist
<1>8. DOMAIN g = 0..N /\ g = [k \in DOMAIN g |-> g[k]] /\ g[0] = start
  BY <1>7 DEF Steps
<1>9. ASSUME NEW k \in 1..N PROVE g[k] = GroupCue(g[k - 1], cues[k])
  <2>1. g[k - 1] \in D /\ g[k] = step[<<g[k - 1], k>>]
    BY <1>1, <1>7 DEF Steps
  <2> QED BY <1>5, <2>1
<1>10. \A k \in 0..N : g[k] = IF k = 0 THEN start ELSE GroupCue(g[k - 1], cues[k])
  BY <1>1, <1>8, <1>9
<1>11. Is(h)
  <2>1. Is(g)
    BY <1>8, <1>10
  <2> QED BY <2>1
<1> HIDE DEF h
<1>12. h[0] = start
  BY <1>1, <1>11
<1>13. \A k \in 1..N : h[k] = GroupCue(h[k - 1], cues[k])
  BY <1>1, <1>11
<1> QED BY <1>4, <1>12, <1>13 DEF N, start

LEMMA GroupsHoldTheCues ==
  ASSUME NEW cues, LectureCues(cues)
  PROVE  FlattenSeq(SemanticSourceGroups(cues)) = cues
<1> DEFINE N == Len(cues)
           R == Range(cues)
<1>1. N \in Nat /\ cues \in Seq(R) /\ \A n \in 1..N : cues[n] \in R
  BY CueFacts
<1>2. PICK h : /\ h[0] = [done |-> <<>>, group |-> <<>>]
               /\ \A n \in 1..N : h[n] = GroupCue(h[n - 1], cues[n])
               /\ SemanticSourceGroups(cues) = LET acc == h[N] IN
                     IF acc.group = <<>> THEN acc.done ELSE Append(acc.done, acc.group)
  BY GroupsSteps
<1> DEFINE S == {k \in Nat : k <= N => Holds(R, h[k].done, h[k].group, SubSeq(cues, 1, k))}
<1>3. 0 \in S
  <2>1. SubSeq(cues, 1, 0) = <<>>
    BY <1>1, WholeAndEmpty
  <2>2. FlattenSeq(<<>>) = <<>> /\ <<>> \o <<>> = <<>> /\ <<>> \in Seq(Seq(R)) /\ <<>> \in Seq(R)
    BY EmptySeq DEF FlattenSeq
  <2>3. Holds(R, <<>>, <<>>, <<>>)
    BY <2>2 DEF Holds
  <2>4. h[0].done = <<>> /\ h[0].group = <<>>
    BY <1>2
  <2> QED BY <2>1, <2>3, <2>4
<1>4. ASSUME NEW k \in S PROVE k + 1 \in S
  <2> SUFFICES ASSUME k + 1 <= N
               PROVE  Holds(R, h[k + 1].done, h[k + 1].group, SubSeq(cues, 1, k + 1))
    OBVIOUS
  <2>1. k \in 0..(N - 1) /\ k + 1 \in 1..N /\ k + 1 - 1 = k /\ k \in Nat /\ k <= N
    BY <1>1
  <2>2. Holds(R, h[k].done, h[k].group, SubSeq(cues, 1, k))
    BY <2>1
  <2>3. h[k + 1] = GroupCue(h[k], cues[k + 1]) /\ cues[k + 1] \in R
    BY <1>1, <1>2, <2>1
  <2>4. SubSeq(cues, 1, k + 1) = Append(SubSeq(cues, 1, k), cues[k + 1])
    BY <1>1, <2>1, OneLonger
  <2> DEFINE more == Append(SubSeq(cues, 1, k), cues[k + 1])
  <2>5. Holds(R, GroupCue(h[k], cues[k + 1]).done, GroupCue(h[k], cues[k + 1]).group, more)
    BY <2>2, <2>3, GroupCueKeeps
  <2> HIDE DEF more
  <2>6. SubSeq(cues, 1, k + 1) = more
    BY <2>4 DEF more
  <2> QED BY <2>3, <2>5, <2>6
<1> HIDE DEF S
<1>5. S = Nat
  <2>1. S \in SUBSET Nat
    BY DEF S
  <2> QED BY <1>3, <1>4, <2>1, Induct
<1> DEFINE done == h[N].done
           group == h[N].group
<1>6. Holds(R, done, group, SubSeq(cues, 1, N))
  BY <1>1, <1>5 DEF S
<1>7. SubSeq(cues, 1, N) = cues
  BY <1>1, WholeAndEmpty
<1>8. SemanticSourceGroups(cues) = IF group = <<>> THEN done ELSE Append(done, group)
  BY <1>2
<1> HIDE DEF done, group
<1>9. done \in Seq(Seq(R)) /\ group \in Seq(R) /\ cues = FlattenSeq(done) \o group
  BY <1>6, <1>7 DEF Holds
<1>10. FlattenSeq(done) \in Seq(R) /\ FlattenSeq(Append(done, group)) = FlattenSeq(done) \o group
  BY <1>9, FlattenAppend
<1>11. FlattenSeq(done) \o <<>> = FlattenSeq(done)
  BY <1>10, ConcatEmptySeq
<1> QED BY <1>8, <1>9, <1>10, <1>11

-----------------------------------------------------------------------------
SpansOf(cues) ==
  heard.spans = [n \in DOMAIN Grouped(cues) |-> SpanOfText(Grouped(cues)[n])]
LectureInv ==
  /\ input \in Inputs
  /\ input.kind = "lecture" /\ heard # None => SpansOf(input.cues)

LEMMA LectureStep ==
  ASSUME LectureInv, [LibraryNext]_libraryVars
  PROVE  LectureInv'
<1> USE DEF LectureInv
<1>1. ASSUME ReadLecture PROVE LectureInv'
  <2>1. input' = input /\ heard' = SemanticSourceSpans(input.cues)
    BY <1>1 DEF ReadLecture
  <2>2. SpansOf(input.cues)'
    BY <2>1 DEF SemanticSourceSpans, SpansOf
  <2> QED BY <2>1, <2>2
<1>2. ASSUME input' = input, heard' = heard PROVE LectureInv'
  BY <1>2 DEF SpansOf
<1>3. ASSUME DetectSports PROVE LectureInv'
  BY <1>3 DEF DetectSports
<1> QED BY <1>1, <1>2, <1>3
      DEF LibraryNext, libraryVars, ProposeEducational, CreatePlan, PlanEducational,
          ProcessSubtitles, ProposeSports, PlanSports, Reframe, Resize, LayOut

(* The text of a lecture is in its spans, whole and in order, no span      *)
(* reaches over a pause or to another speaker, and the groups of cues      *)
(* hold each cue once.                                                     *)
THEOREM SpansKeepAll == LibraryInit /\ [][LibraryNext]_libraryVars => []SpansKeepTheText
<1>1. LibraryInit => LectureInv
  BY DEF LibraryInit, LectureInv
<1>2. LectureInv /\ [LibraryNext]_libraryVars => LectureInv'
  BY LectureStep
<1>3. LectureInv => SpansKeepTheText
  <2> SUFFICES ASSUME LectureInv, input.kind = "lecture", heard # None
               PROVE  SpansKeepTheText
    BY DEF SpansKeepTheText
  <2> DEFINE cues == input.cues
             G == Grouped(cues)
             N == Len(cues)
             Reached(s) == {n \in DOMAIN cues : \E i, j \in DOMAIN cues :
                              i <= n /\ n < j /\ cues[i].id \in s.cues /\ cues[j].id \in s.cues}
  <2>1. LectureCues(cues)
    BY LectureConstants DEF LectureInv, LectureCues
  <2>2. heard.spans = [n \in DOMAIN G |-> SpanOfText(G[n])]
    BY DEF LectureInv, SpansOf
  <2>3. AllClosed(G, cues, N) /\ FlattenSeq(G) = FlattenSeq(Texts(cues))
    BY <2>1, GroupedIs
  <2>4. FlattenSeq(SemanticSourceGroups(cues)) = cues
    BY <2>1, GroupsHoldTheCues
  <2> HIDE DEF G, cues
  <2>5. G \in Seq(Seq(AllFragments(cues))) /\ \A p \in 1..Len(G) : Closed(G[p], cues, N)
    BY <2>3 DEF AllClosed
  <2>6. DOMAIN G = 1..Len(G) /\ G = [n \in DOMAIN G |-> G[n]]
    BY <2>5, LenProperties
  <2>7. DOMAIN heard.spans = DOMAIN G /\ \A n \in DOMAIN G : heard.spans[n] = SpanOfText(G[n])
    BY <2>2
  <2>t. \A x : SpanOfText(x).text = x
    BY DEF SpanOfText
  <2>8. \A n \in DOMAIN G : heard.spans[n].text = G[n]
    <3> HIDE DEF LectureInv
    <3> QED BY ONLY <2>7, <2>t
  <2>9. [n \in DOMAIN heard.spans |-> heard.spans[n].text] = G
    BY <2>6, <2>7, <2>8
  <2>10. ASSUME NEW s \in Range(heard.spans)
         PROVE  /\ \A n \in 1..(Len(s.text) - 1) : s.text[n].piece.ends # "sentence"
                /\ \A n \in Reached(s) : /\ cues[n + 1].start - cues[n].end <= MaximumGap
                                        /\ Spoken(cues[n], cues[n + 1])
    <3>1. PICK p \in DOMAIN G : s = SpanOfText(G[p])
      BY <2>7 DEF Range
    <3> DEFINE g == G[p]
    <3>2. Closed(g, cues, N) /\ s.text = g /\ s.cues = {f.cue : f \in Range(g)}
      BY <2>5, <2>6, <3>1 DEF SpanOfText
    <3> HIDE DEF g
    <3>3. \A n \in 1..(Len(g) - 1) : g[n].piece.ends # "sentence"
      BY <3>2 DEF Closed, Grown
    <3>4. ASSUME NEW n \in Reached(s)
          PROVE  /\ cues[n + 1].start - cues[n].end <= MaximumGap
                 /\ Spoken(cues[n], cues[n + 1])
      <4>1. PICK i \in DOMAIN cues, j \in DOMAIN cues :
              i <= n /\ n < j /\ cues[i].id \in s.cues /\ cues[j].id \in s.cues
        OBVIOUS
      <4>2. n \in DOMAIN cues
        OBVIOUS
      <4> QED BY <2>1, <3>2, <4>1, <4>2, ClosedReaches
    <3> QED BY <3>2, <3>3, <3>4
  <2> QED BY <2>3, <2>4, <2>9, <2>10 DEF SpansKeepTheText, Texts, cues
<1> QED BY <1>1, <1>2, <1>3, PTL

-----------------------------------------------------------------------------
(* The window of one span; it is long enough for spans that follow one     *)
(* another in time.                                                        *)
TimedSpans(spans) ==
  /\ \A k \in 1..Len(spans) : spans[k].start \in Int /\ spans[k].end \in Int
  /\ \A k, l \in 1..Len(spans) :
       k <= l => spans[k].start <= spans[l].start /\ spans[k].end <= spans[l].end
Around(spans, n) ==
  {w \in [first : 1..Len(spans), last : 1..Len(spans)] : w.first <= n /\ n <= w.last}

(* It is long enough or all there is; where it begins is not weak, unless  *)
(* nothing was taken in before or all that follows.                        *)
LongEnough(spans, w) ==
  \/ spans[w.last].end - spans[w.first].start >= EnoughTime
  \/ w.first = 1 /\ w.last = Len(spans)
StrongStart(spans, n, w) == w.last = Len(spans) \/ w.first = n \/ ~Weak(spans[w.first])

LEMMA WidenKeeps ==
  ASSUME NEW spans, Len(spans) \in Nat, NEW n \in 1..Len(spans), NEW w \in Around(spans, n),
         StrongStart(spans, n, w)
  PROVE  /\ Widen(spans, w) \in Around(spans, n)
         /\ StrongStart(spans, n, Widen(spans, w))
         /\ LongEnough(spans, w) => Widen(spans, w) = w
         /\ ~LongEnough(spans, w) =>
              Widen(spans, w).last - Widen(spans, w).first = w.last - w.first + 1
<1> DEFINE N == Len(spans)
<1>1. N \in Nat /\ n \in Nat /\ w.first \in 1..N /\ w.last \in 1..N /\ w.first <= n /\ n <= w.last
      /\ w = [first |-> w.first, last |-> w.last]
  BY DEF Around
<1>2. LongEnough(spans, w) <=> WindowLasts(spans, w) >= EnoughTime \/ WholeTranscript(spans, w)
  BY DEF LongEnough, WindowLasts, WholeTranscript
<1>3. CASE LongEnough(spans, w)
  <2>1. Widen(spans, w) = w
    BY <1>2, <1>3 DEF Widen
  <2> QED BY <1>3, <2>1
<1>4. CASE ~LongEnough(spans, w) /\ PrefersPrevious(spans, w)
  <2>1. Widen(spans, w) = [first |-> w.first - 1, last |-> w.last]
    BY <1>1, <1>2, <1>4 DEF Widen
  <2>2. w.first - 1 \in 1..N /\ (w.last = N \/ ~Weak(spans[w.first - 1]))
    BY <1>1, <1>4 DEF PrefersPrevious, UnsafePrevious
  <2> QED BY <1>1, <1>4, <2>1, <2>2 DEF Around, StrongStart
<1>5. CASE ~LongEnough(spans, w) /\ ~PrefersPrevious(spans, w)
  <2>1. Widen(spans, w) = [first |-> w.first, last |-> w.last + 1]
    BY <1>1, <1>2, <1>5 DEF Widen
  <2>2. w.last # N
    BY <1>1, <1>2, <1>5 DEF PrefersPrevious, WholeTranscript
  <2> QED BY <1>1, <1>5, <2>1, <2>2 DEF Around, StrongStart
<1> QED BY <1>3, <1>4, <1>5

LEMMA WidenedIs ==
  ASSUME NEW spans, Len(spans) \in Nat, NEW n \in 1..Len(spans)
  PROVE  /\ Widened(spans, n) \in Around(spans, n)
         /\ StrongStart(spans, n, Widened(spans, n)) /\ LongEnough(spans, Widened(spans, n))
<1> DEFINE N == Len(spans)
           D == {w \in Around(spans, n) : StrongStart(spans, n, w)}
           start == [first |-> n, last |-> n]
           step == [a \in D \X (1..N) |-> Widen(spans, a[1])]
           Is(g) == g = [k \in 0..N |-> IF k = 0 THEN start ELSE Widen(spans, g[k - 1])]
           h == CHOOSE h : Is(h)
<1>1. N \in Nat /\ n \in Nat
  OBVIOUS
<1>2. start \in D
  BY <1>1 DEF Around, StrongStart
<1>3. \A a \in D : Widen(spans, a) \in D
  BY WidenKeeps
<1>4. Widened(spans, n) = h[N]
  BY DEF Widened
<1> HIDE DEF N, D, start
<1>5. \A a \in D, k \in 1..N : step[<<a, k>>] = Widen(spans, a)
  OBVIOUS
<1>6. step \in [D \X (1..N) -> D]
  BY <1>3
<1> HIDE DEF step
<1>7. PICK g : Steps(g, D, start, step, N)
  BY <1>1, <1>2, <1>6, StepsExist
<1>8. DOMAIN g = 0..N /\ g = [k \in DOMAIN g |-> g[k]] /\ g[0] = start
  BY <1>7 DEF Steps
<1>9. ASSUME NEW k \in 1..N PROVE g[k] = Widen(spans, g[k - 1])
  <2>1. g[k - 1] \in D /\ g[k] = step[<<g[k - 1], k>>]
    BY <1>1, <1>7 DEF Steps
  <2> QED BY <1>5, <2>1
<1>10. \A k \in 0..N : g[k] = IF k = 0 THEN start ELSE Widen(spans, g[k - 1])
  BY <1>1, <1>8, <1>9
<1>11. Is(h)
  <2>1. Is(g)
    BY <1>8, <1>10
  <2> QED BY <2>1
<1> HIDE DEF h
<1>12. DOMAIN h = 0..N /\ h = [k \in DOMAIN h |-> h[k]] /\ h[0] = start
  BY <1>1, <1>11
<1>13. \A k \in 1..N : h[k] = Widen(spans, h[k - 1])
  BY <1>1, <1>11
<1>14. Steps(h, D, start, step, N)
  <2>1. \A k \in 1..N : h[k - 1] \in D => h[k] = step[<<h[k - 1], k>>]
    BY <1>5, <1>13
  <2> QED BY <1>1, <1>2, <1>6, <1>12, <2>1, StepsStay
<1>15. \A k \in 0..N : h[k] \in D
  BY <1>14 DEF Steps
(* It gets longer with every step until it is long enough.                 *)
<1> DEFINE S == {k \in Nat : k <= N => LongEnough(spans, h[k]) \/ h[k].last - h[k].first >= k}
<1>16. 0 \in S
  BY <1>1, <1>12 DEF start
<1>17. ASSUME NEW k \in S PROVE k + 1 \in S
  <2> SUFFICES ASSUME k + 1 <= N
               PROVE  LongEnough(spans, h[k + 1]) \/ h[k + 1].last - h[k + 1].first >= k + 1
    OBVIOUS
  <2>1. k \in 0..N /\ k + 1 \in 1..N /\ k + 1 - 1 = k /\ k \in Nat
    BY <1>1
  <2>2. h[k + 1] = Widen(spans, h[k]) /\ h[k] \in D
    BY <1>13, <1>15, <2>1
  <2>3. h[k] \in Around(spans, n) /\ StrongStart(spans, n, h[k])
    BY <2>2 DEF D
  <2>4. LongEnough(spans, h[k]) \/ h[k].last - h[k].first >= k
    BY <2>1
  <2>5. h[k].last \in Int /\ h[k].first \in Int
    BY <2>3 DEF Around
  <2>6. CASE LongEnough(spans, h[k])
    <3>1. h[k + 1] = h[k]
      BY <2>2, <2>3, <2>6, WidenKeeps
    <3> QED BY <2>6, <3>1
  <2>7. CASE ~LongEnough(spans, h[k])
    <3>1. h[k + 1].last - h[k + 1].first = h[k].last - h[k].first + 1
      BY <2>2, <2>3, <2>7, WidenKeeps
    <3> QED BY <2>1, <2>4, <2>5, <2>7, <3>1
  <2> QED BY <2>6, <2>7
<1> HIDE DEF S
<1>18. S = Nat
  <2>1. S \in SUBSET Nat
    BY DEF S
  <2> QED BY <1>16, <1>17, <2>1, Induct
<1>19. h[N] \in Around(spans, n) /\ StrongStart(spans, n, h[N])
  BY <1>1, <1>15 DEF D
<1>20. LongEnough(spans, h[N]) \/ h[N].last - h[N].first >= N
  BY <1>1, <1>18 DEF S
<1>21. h[N].first \in 1..N /\ h[N].last \in 1..N
  BY <1>19 DEF Around, N
<1>22. LongEnough(spans, h[N])
  BY <1>1, <1>20, <1>21
<1> QED BY <1>4, <1>19, <1>22

(* Back to what can stand alone.                                           *)
Weakest(spans, w) == Dependent(spans[w.first]) => \A k \in 1..(w.first - 1) : Weak(spans[k])
Widest(spans, n) ==
  {w \in Around(spans, n) : /\ StrongStart(spans, n, w)
                            /\ TimedSpans(spans) => LongEnough(spans, w)}

LEMMA ReachBackKeeps ==
  ASSUME NEW spans, Len(spans) \in Nat, NEW n \in 1..Len(spans),
         NEW w \in Widest(spans, n)
  PROVE  /\ ReachBack(spans, w) \in Widest(spans, n) /\ ReachBack(spans, w).last = w.last
         /\ Weakest(spans, w) => ReachBack(spans, w) = w
         /\ ~Weakest(spans, w) => ReachBack(spans, w).first < w.first
<1> DEFINE N == Len(spans)
           strong == {k \in 1..(w.first - 1) : ~Weak(spans[k])}
           v == [w EXCEPT !.first = Max(strong)]
<1>1. N \in Nat /\ n \in Nat /\ w.first \in 1..N /\ w.last \in 1..N /\ w.first <= n /\ n <= w.last
      /\ w = [first |-> w.first, last |-> w.last]
  BY DEF Around, Widest
<1>2. ReachBack(spans, w) = IF Dependent(spans[w.first]) /\ strong # {} THEN v ELSE w
  BY DEF ReachBack
<1>3. Weakest(spans, w) <=> ~(Dependent(spans[w.first]) /\ strong # {})
  BY DEF Weakest
<1>4. CASE Weakest(spans, w)
  BY <1>2, <1>3, <1>4
<1>5. CASE ~Weakest(spans, w)
  <2>1. strong \in SUBSET (1..N) /\ strong # {}
    BY <1>1, <1>3, <1>5
  <2> DEFINE m == Max(strong)
  <2>2. m \in strong
    <3> HIDE DEF strong
    <3> QED BY <1>1, <2>1, LargestIs
  <2> HIDE DEF m
  <2>3. m \in 1..N /\ m < w.first /\ ~Weak(spans[m])
    BY <1>1, <2>2
  <2>4. v = [first |-> m, last |-> w.last]
    BY <1>1 DEF m
  <2> HIDE DEF v, strong
  <2>5. v \in Around(spans, n) /\ StrongStart(spans, n, v)
    BY <1>1, <2>3, <2>4 DEF Around, StrongStart
  <2>6. ASSUME TimedSpans(spans) PROVE LongEnough(spans, v)
    <3>1. v.first = m /\ v.last = w.last
      BY <2>4
    <3>2. /\ spans[w.last].end \in Int /\ spans[w.first].start \in Int /\ spans[m].start \in Int
          /\ spans[m].start <= spans[w.first].start
      <4>1. m <= w.first
        BY <1>1, <2>3
      <4> QED BY <1>1, <2>3, <2>6, <4>1 DEF TimedSpans
    <3>3. ~(w.first = 1 /\ w.last = Len(spans))
      BY <1>1, <2>3
    <3>4. spans[w.last].end - spans[w.first].start >= EnoughTime
      BY <2>6, <3>3 DEF LongEnough, Widest
    <3>5. spans[v.last].end - spans[v.first].start >= EnoughTime
      BY <3>1, <3>2, <3>4, TimeConstant
    <3> QED BY <3>5 DEF LongEnough
  <2> QED BY <1>2, <1>3, <1>5, <2>3, <2>4, <2>5, <2>6 DEF Widest
<1> QED BY <1>4, <1>5

LEMMA ReachedBackIs ==
  ASSUME NEW spans, Len(spans) \in Nat, NEW n \in 1..Len(spans),
         NEW w \in Widest(spans, n)
  PROVE  ReachedBack(spans, w) \in Widest(spans, n) /\ Weakest(spans, ReachedBack(spans, w))
<1> DEFINE N == Len(spans)
           D == Widest(spans, n)
           step == [a \in D \X (1..N) |-> ReachBack(spans, a[1])]
           Is(g) == g = [k \in 0..N |-> IF k = 0 THEN w ELSE ReachBack(spans, g[k - 1])]
           h == CHOOSE h : Is(h)
<1>1. N \in Nat /\ n \in Nat
  OBVIOUS
<1>2. w \in D
  OBVIOUS
<1>3. \A a \in D : ReachBack(spans, a) \in D
  BY ReachBackKeeps
<1>4. ReachedBack(spans, w) = h[N]
  BY DEF ReachedBack
<1> HIDE DEF N, D
<1>5. \A a \in D, k \in 1..N : step[<<a, k>>] = ReachBack(spans, a)
  OBVIOUS
<1>6. step \in [D \X (1..N) -> D]
  BY <1>3
<1> HIDE DEF step
<1>7. PICK g : Steps(g, D, w, step, N)
  BY <1>1, <1>2, <1>6, StepsExist
<1>8. DOMAIN g = 0..N /\ g = [k \in DOMAIN g |-> g[k]] /\ g[0] = w
  BY <1>7 DEF Steps
<1>9. ASSUME NEW k \in 1..N PROVE g[k] = ReachBack(spans, g[k - 1])
  <2>1. g[k - 1] \in D /\ g[k] = step[<<g[k - 1], k>>]
    BY <1>1, <1>7 DEF Steps
  <2> QED BY <1>5, <2>1
<1>10. \A k \in 0..N : g[k] = IF k = 0 THEN w ELSE ReachBack(spans, g[k - 1])
  BY <1>1, <1>8, <1>9
<1>11. Is(h)
  <2>1. Is(g)
    BY <1>8, <1>10
  <2> QED BY <2>1
<1> HIDE DEF h
<1>12. DOMAIN h = 0..N /\ h = [k \in DOMAIN h |-> h[k]] /\ h[0] = w
  BY <1>1, <1>11
<1>13. \A k \in 1..N : h[k] = ReachBack(spans, h[k - 1])
  BY <1>1, <1>11
<1>14. Steps(h, D, w, step, N)
  <2>1. \A k \in 1..N : h[k - 1] \in D => h[k] = step[<<h[k - 1], k>>]
    BY <1>5, <1>13
  <2> QED BY <1>1, <1>2, <1>6, <1>12, <2>1, StepsStay
<1>15. \A k \in 0..N : h[k] \in D /\ h[k].first \in 1..N
  BY <1>14 DEF Steps, D, N, Widest, Around
(* It begins earlier with every step until it can stand alone.             *)
<1> DEFINE S == {k \in Nat : k <= N => Weakest(spans, h[k]) \/ h[k].first + k <= N}
<1>16. 0 \in S
  BY <1>1, <1>15
<1>17. ASSUME NEW k \in S PROVE k + 1 \in S
  <2> SUFFICES ASSUME k + 1 <= N PROVE Weakest(spans, h[k + 1]) \/ h[k + 1].first + (k + 1) <= N
    OBVIOUS
  <2>1. k \in 0..N /\ k + 1 \in 1..N /\ k + 1 - 1 = k /\ k \in Nat /\ k + 1 \in 0..N
    BY <1>1
  <2>2. h[k + 1] = ReachBack(spans, h[k]) /\ h[k] \in Widest(spans, n)
    BY <1>13, <1>15, <2>1 DEF D
  <2>3. Weakest(spans, h[k]) \/ h[k].first + k <= N
    BY <2>1
  <2>4. CASE Weakest(spans, h[k])
    <3>1. h[k + 1] = h[k]
      BY <2>2, <2>4, ReachBackKeeps
    <3> QED BY <2>4, <3>1
  <2>5. CASE ~Weakest(spans, h[k])
    <3>1. h[k + 1].first < h[k].first
      BY <2>2, <2>5, ReachBackKeeps
    <3>2. h[k].first \in Int /\ h[k + 1].first \in Int
      BY <1>15, <2>1
    <3> QED BY <1>1, <2>1, <2>3, <2>5, <3>1, <3>2
  <2> QED BY <2>4, <2>5
<1> HIDE DEF S
<1>18. S = Nat
  <2>1. S \in SUBSET Nat
    BY DEF S
  <2> QED BY <1>16, <1>17, <2>1, Induct
<1>19. Weakest(spans, h[N]) \/ h[N].first + N <= N
  BY <1>1, <1>18 DEF S
<1>20. h[N] \in D /\ h[N].first \in 1..N
  BY <1>1, <1>15
<1>21. Weakest(spans, h[N])
  BY <1>1, <1>19, <1>20
<1> QED BY <1>4, <1>20, <1>21 DEF D

LEMMA SmallestIs ==
  ASSUME NEW S \in SUBSET Nat, S # {}
  PROVE  Min(S) \in S /\ \A k \in S : Min(S) <= k
<1>1. PICK x \in S : \A y \in S : x <= y
  BY HasLeast
<1> QED BY <1>1 DEF Min

LEMMA WindowIsWhole ==
  ASSUME NEW spans, Len(spans) \in Nat, NEW n \in 1..Len(spans)
  PROVE  LET w == Window(spans, n) IN
         /\ w \in Around(spans, n) /\ StrongStart(spans, n, w)
         /\ TimedSpans(spans) => LongEnough(spans, w)
         /\ Weakest(spans, w) /\ (w.last = Len(spans) \/ ~Weak(spans[w.last]))
<1> DEFINE N == Len(spans)
           v == ReachedBack(spans, Widened(spans, n))
           later == {k \in v.last..N : ~Weak(spans[k])} \cup {N}
           m == Min(later)
           w == [v EXCEPT !.last = m]
<1>1. v \in Widest(spans, n) /\ Weakest(spans, v)
  <2>1. Widened(spans, n) \in Widest(spans, n)
    BY WidenedIs DEF Widest
  <2> QED BY <2>1, ReachedBackIs
<1>2. Window(spans, n) = w
  BY DEF Window, ReachForward
<1> HIDE DEF v
<1>3. N \in Nat /\ n \in Nat /\ v.first \in 1..N /\ v.last \in 1..N /\ v.first <= n /\ n <= v.last
      /\ v = [first |-> v.first, last |-> v.last]
  BY <1>1 DEF Around, Widest
<1>4. m \in later
  <2>1. later \in SUBSET Nat /\ later # {}
    BY <1>3
  <2> HIDE DEF later
  <2> QED BY <2>1, SmallestIs
<1> HIDE DEF m
<1>5. m \in 1..N /\ v.last <= m /\ (m = N \/ ~Weak(spans[m]))
  BY <1>3, <1>4
<1>6. w = [first |-> v.first, last |-> m]
  BY <1>3
<1> HIDE DEF w
<1>7. w \in Around(spans, n) /\ w.first = v.first /\ w.last = m
  BY <1>3, <1>5, <1>6 DEF Around
<1>8. StrongStart(spans, n, w)
  <2>1. StrongStart(spans, n, v)
    BY <1>1 DEF Widest
  <2> QED BY <1>3, <1>5, <1>7, <2>1 DEF StrongStart
<1>9. ASSUME TimedSpans(spans) PROVE LongEnough(spans, w)
  <2>1. LongEnough(spans, v)
    BY <1>1, <1>9 DEF Widest
  <2>2. /\ spans[m].end \in Int /\ spans[v.last].end \in Int /\ spans[v.first].start \in Int
        /\ spans[v.last].end <= spans[m].end
    BY <1>3, <1>5, <1>9 DEF TimedSpans
  <2> QED BY <1>3, <1>5, <1>7, <2>1, <2>2, TimeConstant DEF LongEnough
<1>10. Weakest(spans, w)
  BY <1>1, <1>7 DEF Weakest
<1> QED BY <1>2, <1>5, <1>7, <1>8, <1>9, <1>10

-----------------------------------------------------------------------------
(* When the fragments of a cue begin and end.                              *)
LEMMA TimesMonotone ==
  ASSUME NEW a \in Nat, NEW b \in Nat, NEW d \in Nat, a <= b
  PROVE  a * d <= b * d
<1> DEFINE S == {k \in Nat : a * k <= b * k}
<1>1. 0 \in S
  OBVIOUS
<1>2. ASSUME NEW k \in S PROVE k + 1 \in S
  <2>1. a * (k + 1) = a * k + a /\ b * (k + 1) = b * k + b /\ a * k \in Nat /\ b * k \in Nat
    OBVIOUS
  <2> QED BY <2>1
<1> HIDE DEF S
<1>3. S = Nat
  <2>1. S \in SUBSET Nat
    BY DEF S
  <2> QED BY <1>1, <1>2, <2>1, Induct
<1> QED BY <1>3 DEF S

LEMMA RoundedFacts ==
  ASSUME NEW a \in Nat, NEW b \in Nat, NEW d \in Nat \ {0}, a <= b
  PROVE  /\ Rounded(a, d) \in Nat /\ Rounded(a, d) <= Rounded(b, d)
<1> DEFINE qa == a \div d  qb == b \div d  ra == a % d  rb == b % d
<1>1. /\ qa \in Nat /\ ra \in 0..(d - 1) /\ a = qa * d + ra
      /\ qb \in Nat /\ rb \in 0..(d - 1) /\ b = qb * d + rb
  OBVIOUS
<1>2. Rounded(a, d) = IF 2 * ra > d \/ (2 * ra = d /\ qa % 2 = 1) THEN qa + 1 ELSE qa
  BY DEF Rounded
<1>3. Rounded(b, d) = IF 2 * rb > d \/ (2 * rb = d /\ qb % 2 = 1) THEN qb + 1 ELSE qb
  BY DEF Rounded
<1> HIDE DEF qa, qb, ra, rb
<1>4. qa <= qb
  <2> SUFFICES ASSUME qb + 1 <= qa PROVE FALSE
    BY <1>1
  <2>1. (qb + 1) * d <= qa * d
    BY <1>1, TimesMonotone
  <2>2. (qb + 1) * d = qb * d + d /\ qb * d \in Nat /\ qa * d \in Nat
    BY <1>1
  <2> QED BY <1>1, <2>1, <2>2
<1>5. CASE qa = qb
  <2>1. qa * d = qb * d /\ qa * d \in Nat
    BY <1>1, <1>5
  <2>2. ra <= rb
    BY <1>1, <2>1
  <2> QED BY <1>1, <1>2, <1>3, <1>5, <2>2
<1>6. CASE qa # qb
  BY <1>1, <1>2, <1>3, <1>4, <1>6
<1> QED BY <1>5, <1>6

LEMMA RoundedWhole ==
  ASSUME NEW a \in Nat, NEW d \in Nat \ {0}
  PROVE  Rounded(a * d, d) = a
<1> DEFINE p == a * d  q == p \div d  r == p % d
<1>1. p \in Nat /\ q \in Nat /\ r \in 0..(d - 1) /\ p = q * d + r
  OBVIOUS
<1>2. Rounded(p, d) = IF 2 * r > d \/ (2 * r = d /\ q % 2 = 1) THEN q + 1 ELSE q
  BY DEF Rounded
<1>3. p = a * d
  OBVIOUS
<1> HIDE DEF p, q, r
<1>4. a <= q
  <2> SUFFICES ASSUME q + 1 <= a PROVE FALSE
    BY <1>1
  <2>1. (q + 1) * d <= a * d
    BY <1>1, TimesMonotone
  <2>2. (q + 1) * d = q * d + d /\ q * d \in Nat
    BY <1>1
  <2> QED BY <1>1, <1>3, <2>1, <2>2
<1>5. a * d <= q * d /\ q * d \in Nat /\ a * d \in Nat
  BY <1>1, <1>4, TimesMonotone
<1>6. q <= a
  <2> SUFFICES ASSUME a + 1 <= q PROVE FALSE
    BY <1>1
  <2>1. (a + 1) * d <= q * d
    BY <1>1, TimesMonotone
  <2>2. (a + 1) * d = a * d + d
    OBVIOUS
  <2> QED BY <1>1, <1>3, <1>5, <2>1, <2>2
<1>7. q = a /\ r = 0
  BY <1>1, <1>3, <1>4, <1>5, <1>6
<1>8. Rounded(p, d) = a
  BY <1>2, <1>7
<1> QED BY <1>8 DEF p

LEMMA SumOfFirst ==
  ASSUME NEW s \in Seq(Int), NEW f, Sums(f, s, Len(s)), NEW n \in 0..Len(s)
  PROVE  SumOf(SubSeq(s, 1, n)) = f[n]
<1> DEFINE t == SubSeq(s, 1, n)
<1>1. t \in Seq(Int) /\ Len(t) = n /\ \A k \in 1..n : t[k] = s[k]
  BY FirstOnes
<1>2. Len(s) \in Nat /\ n \in Nat /\ n <= Len(s)
  BY LenProperties
<1> HIDE DEF t
<1>3. PICK g : Sums(g, t, n) /\ SumOf(t) = g[n]
  BY <1>1, SumSteps
<1> DEFINE S == {m \in Nat : m <= n => g[m] = f[m]}
<1>4. 0 \in S
  BY <1>3 DEF Sums
<1>5. ASSUME NEW m \in S PROVE m + 1 \in S
  <2> SUFFICES ASSUME m + 1 <= n PROVE g[m + 1] = f[m + 1]
    OBVIOUS
  <2>1. PICK k \in 1..n : k = m + 1 /\ k - 1 = m
    BY <1>2
  <2>2. g[k] = g[k - 1] + t[k]
    BY <1>3 DEF Sums
  <2>3. k \in 1..Len(s)
    BY <1>2
  <2>4. f[k] = f[k - 1] + s[k]
    BY <2>3 DEF Sums
  <2>5. g[k - 1] = f[k - 1]
    BY <2>1
  <2> QED BY <1>1, <2>1, <2>2, <2>4, <2>5
<1> HIDE DEF S
<1>6. S = Nat
  <2>1. S \in SUBSET Nat
    BY DEF S
  <2> QED BY <1>4, <1>5, <2>1, Induct
<1>7. g[n] = f[n]
  BY <1>2, <1>6 DEF S
<1> QED BY <1>3, <1>7 DEF t

LEMMA SumsGrow ==
  ASSUME NEW s \in Seq(Nat), NEW f, Sums(f, s, Len(s))
  PROVE  \A n \in 0..Len(s) : f[n] \in Nat /\ \A m \in 0..n : f[m] <= f[n]
<1>1. Len(s) \in Nat /\ \A k \in 1..Len(s) : s[k] \in Nat
  BY LenProperties, ElementOfSeq
<1>2. f[0] = 0 /\ \A k \in 1..Len(s) : f[k] = f[k - 1] + s[k]
  BY DEF Sums
<1> DEFINE S == {n \in Nat : n <= Len(s) => f[n] \in Nat /\ \A m \in 0..n : f[m] <= f[n]}
<1>3. 0 \in S
  BY <1>2
<1>4. ASSUME NEW n \in S PROVE n + 1 \in S
  <2> SUFFICES ASSUME n + 1 <= Len(s)
               PROVE  f[n + 1] \in Nat /\ \A m \in 0..(n + 1) : f[m] <= f[n + 1]
    OBVIOUS
  <2>1. f[n] \in Nat /\ \A m \in 0..n : f[m] <= f[n]
    BY <1>1
  <2>2. PICK k \in 1..Len(s) : k = n + 1 /\ k - 1 = n
    BY <1>1
  <2>3. f[n + 1] = f[n] + s[k] /\ s[k] \in Nat
    BY <1>1, <1>2, <2>2
  <2>4. ASSUME NEW m \in 0..(n + 1) PROVE f[m] <= f[n + 1]
    <3>1. m = n + 1 \/ m \in 0..n
      OBVIOUS
    <3>2. CASE m \in 0..n
      <4>1. f[m] <= f[n] /\ f[m] \in Int
        <5>1. m \in 0..Len(s) /\ f \in [0..Len(s) -> Int]
          BY <1>1, <3>2 DEF Sums
        <5> QED BY <2>1, <3>2, <5>1
      <4> QED BY <2>1, <2>3, <4>1
    <3>3. CASE m = n + 1
      BY <2>1, <2>3, <3>3
    <3> QED BY <3>1, <3>2, <3>3
  <2> QED BY <2>1, <2>3, <2>4
<1> HIDE DEF S
<1>5. S = Nat
  <2>1. S \in SUBSET Nat
    BY DEF S
  <2> QED BY <1>3, <1>4, <2>1, Induct
<1> QED BY <1>1, <1>5 DEF S

LEMMA AtFacts ==
  ASSUME NEW cue, ValidCue(cue)
  PROVE  /\ \A n \in 0..Len(cue.pieces) : At(cue, n) \in Nat
         /\ \A m, n \in 0..Len(cue.pieces) : m <= n => At(cue, m) <= At(cue, n)
         /\ At(cue, 0) = cue.start /\ At(cue, Len(cue.pieces)) = cue.end
<1> DEFINE pieces == cue.pieces
           N == Len(pieces)
           L == Lasts(cue)
           z == [n \in DOMAIN pieces |-> pieces[n].size]
<1>1. N \in Nat /\ N # 0 /\ DOMAIN pieces = 1..N /\ pieces \in Seq(Range(pieces))
      /\ \A n \in 1..N : pieces[n] \in Range(pieces)
  BY LenProperties DEF ValidCue, ForSomeTime, SaysSomething, Range
<1>2. L \in Nat /\ cue.start \in Nat /\ cue.end = cue.start + L
  BY DEF ValidCue, ForSomeTime, SaysSomething, Lasts
<1>3. \A n \in 1..N : z[n] \in Nat \ {0}
  BY <1>1 DEF ValidCue, ForSomeTime, SaysSomething
<1>4. z \in Seq(Nat) /\ z \in Seq(Int) /\ Len(z) = N
  <2>1. z = [n \in 1..N |-> z[n]] /\ DOMAIN z = 1..N
    BY <1>1
  <2> HIDE DEF z
  <2>2. z \in Seq(Range(z)) /\ Len(z) = N
    BY <1>1, <2>1, FunctionIsSeq
  <2>3. Range(z) \subseteq Nat /\ Range(z) \subseteq Int
    <3>1. DOMAIN z = 1..N
      BY <2>1
    <3> QED BY ONLY <1>3, <3>1 DEF Range
  <2> QED BY <2>2, <2>3, SeqMonotonic
<1>5. PICK f : Sums(f, z, N)
  BY <1>4, SumSteps
<1>6. ASSUME NEW n \in 0..N PROVE Sizes(SubSeq(pieces, 1, n)) = f[n]
  <2> DEFINE a == SubSeq(pieces, 1, n)
             b == SubSeq(z, 1, n)
             c == [k \in DOMAIN a |-> a[k].size]
  <2>1. a \in Seq(Range(pieces)) /\ Len(a) = n /\ \A k \in 1..n : a[k] = pieces[k]
    BY <1>1, FirstOnes
  <2>2. b \in Seq(Nat) /\ Len(b) = n /\ \A k \in 1..n : b[k] = z[k]
    BY <1>4, FirstOnes
  <2>3. \A k \in 1..n : z[k] = pieces[k].size
    BY <1>1
  <2>4. Sizes(a) = SumOf(c)
    BY DEF Sizes
  <2>n. n \in Nat
    BY <1>1
  <2> HIDE DEF a, b, z
  <2>5. c = b
    <3>1. DOMAIN a = 1..n /\ DOMAIN b = 1..n
      BY <2>1, <2>2, LenProperties
    <3>2. \A k \in 1..n : c[k] = b[k]
      BY <2>1, <2>2, <2>3, <3>1
    <3>3. c = [k \in 1..n |-> c[k]] /\ Len(b) = n
      BY <2>2, <3>1
    <3> HIDE DEF c
    <3>4. c \in Seq(Range(c)) /\ Len(c) = n
      BY <2>n, <3>3, FunctionIsSeq
    <3> QED BY <2>2, <3>2, <3>4, SeqEqual
  <2>6. SumOf(b) = f[n]
    BY <1>4, <1>5, SumOfFirst DEF b
  <2> QED BY <2>4, <2>5, <2>6 DEF a
<1> HIDE DEF z
<1>7. \A n \in 0..N : f[n] \in Nat /\ \A m \in 0..n : f[m] <= f[n]
  BY <1>4, <1>5, SumsGrow
<1>8. f[0] = 0 /\ f[N] \in Nat \ {0}
  <2>1. f[0] = 0 /\ f[N] = f[N - 1] + z[N]
    BY <1>1, <1>5 DEF Sums
  <2>2. f[N - 1] \in Nat /\ z[N] \in Nat \ {0}
    BY <1>1, <1>3, <1>7
  <2> QED BY <2>1, <2>2
<1>9. Sizes(pieces) = f[N]
  <2>1. SubSeq(pieces, 1, N) = pieces
    BY <1>1, WholeAndEmpty
  <2>2. N \in 0..N
    BY <1>1
  <2> QED BY <1>6, <2>1, <2>2
<1>10. ASSUME NEW n \in 0..N PROVE At(cue, n) = cue.start + Rounded(L * f[n], f[N])
  BY <1>6, <1>9 DEF At
<1> HIDE DEF L, N, pieces
<1>11. ASSUME NEW m \in 0..N, NEW n \in 0..N, m <= n
       PROVE  At(cue, m) \in Nat /\ At(cue, m) <= At(cue, n)
  <2>1. m \in 0..n /\ f[m] \in Nat /\ f[n] \in Nat /\ f[m] <= f[n]
    BY <1>1, <1>7, <1>11
  <2>2. f[m] * L <= f[n] * L /\ f[m] * L = L * f[m] /\ f[n] * L = L * f[n]
        /\ L * f[m] \in Nat /\ L * f[n] \in Nat
    BY <1>2, <2>1, TimesMonotone
  <2> DEFINE a == L * f[m]  b == L * f[n]
  <2>3. a \in Nat /\ b \in Nat /\ a <= b
    BY <2>2
  <2> HIDE DEF a, b
  <2>4. Rounded(a, f[N]) \in Nat /\ Rounded(b, f[N]) \in Nat /\ Rounded(a, f[N]) <= Rounded(b, f[N])
    BY <1>8, <2>3, RoundedFacts
  <2>5. At(cue, m) = cue.start + Rounded(a, f[N]) /\ At(cue, n) = cue.start + Rounded(b, f[N])
    BY <1>10 DEF a, b
  <2> QED BY <1>2, <2>4, <2>5
<1>12. \A n \in 0..N : At(cue, n) \in Nat
  BY <1>1, <1>11
<1>13. At(cue, 0) = cue.start
  <2>1. At(cue, 0) = cue.start + Rounded(L * f[0], f[N])
    BY <1>1, <1>10
  <2>2. L * f[0] = 0 * f[N]
    BY <1>2, <1>8
  <2>3. Rounded(0 * f[N], f[N]) = 0
    BY <1>8, RoundedWhole
  <2> QED BY <1>2, <2>1, <2>2, <2>3
<1>14. At(cue, N) = cue.end
  <2>1. At(cue, N) = cue.start + Rounded(L * f[N], f[N])
    BY <1>1, <1>10
  <2>2. Rounded(L * f[N], f[N]) = L
    BY <1>2, <1>8, RoundedWhole
  <2> QED BY <1>2, <2>1, <2>2
<1> QED BY <1>11, <1>12, <1>13, <1>14 DEF N, pieces

(* The fragments of a cue follow one another within its time.              *)
Sorted(s) == \A k, l \in 1..Len(s) : k < l => s[k].end <= s[l].start
Within(s, start, end) ==
  \A k \in 1..Len(s) : /\ s[k].start \in Nat /\ s[k].end \in Nat
                       /\ start <= s[k].start /\ s[k].start <= s[k].end /\ s[k].end <= end

LEMMA FragmentsSorted ==
  ASSUME NEW cue, ValidCue(cue)
  PROVE  Sorted(FragmentsOf(cue)) /\ Within(FragmentsOf(cue), cue.start, cue.end)
<1> DEFINE pieces == cue.pieces
           all == [n \in DOMAIN pieces |->
                     [piece |-> pieces[n], cue |-> cue.id, nth |-> n,
                      start |-> At(cue, n - 1), end |-> At(cue, n)]]
           I == {n \in DOMAIN pieces : ~Skipped(pieces[n])}
           t == Those(all, I)
           N == Len(pieces)
<1>1. DOMAIN pieces = 1..N /\ N \in Nat
  BY LenProperties DEF ValidCue, ForSomeTime, SaysSomething
<1>2. FragmentsOf(cue) = t
  BY DEF FragmentsOf
<1>3. \A n \in 1..N : all[n].start = At(cue, n - 1) /\ all[n].end = At(cue, n)
  BY <1>1
<1>4. all = [n \in 1..N |-> all[n]]
  BY <1>1
<1> HIDE DEF all, I
<1>5. all \in Seq(Range(all)) /\ Len(all) = N
  BY <1>1, <1>4, FunctionIsSeq
<1> DEFINE p == Increasing(I, Len(all))
<1>6. /\ AllInOrder(p, I, Len(all)) /\ t \in Seq(Range(all)) /\ Len(t) = Len(p)
      /\ \A k \in 1..Len(t) : p[k] \in 1..Len(all) /\ t[k] = all[p[k]]
  BY <1>5, ThoseFacts
<1> HIDE DEF p, t, pieces
<1>7. \A m, n \in 0..N : At(cue, m) \in Nat /\ (m <= n => At(cue, m) <= At(cue, n))
  BY AtFacts DEF N, pieces
<1>8. At(cue, 0) = cue.start /\ At(cue, N) = cue.end
  BY AtFacts DEF N, pieces
<1> HIDE DEF N
<1>9. ASSUME NEW k \in 1..Len(t), NEW l \in 1..Len(t), k < l PROVE t[k].end <= t[l].start
  <2>1. p[k] < p[l] /\ p[k] \in 1..N /\ p[l] \in 1..N
    BY <1>5, <1>6, <1>9 DEF AllInOrder
  <2>2. p[k] \in 0..N /\ p[l] - 1 \in 0..N /\ p[k] <= p[l] - 1
    BY <1>1, <2>1
  <2>3. At(cue, p[k]) <= At(cue, p[l] - 1)
    BY <1>7, <2>2
  <2> QED BY <1>3, <1>6, <2>1, <2>3
<1>10. ASSUME NEW k \in 1..Len(t)
       PROVE  /\ t[k].start \in Nat /\ t[k].end \in Nat
              /\ cue.start <= t[k].start /\ t[k].start <= t[k].end /\ t[k].end <= cue.end
  <2>1. p[k] \in 1..N
    BY <1>5, <1>6
  <2> DEFINE m == p[k]
  <2>2. m - 1 \in 0..N /\ m \in 0..N /\ 0 <= m - 1 /\ m - 1 <= m /\ m <= N /\ 0 \in 0..N /\ N \in 0..N
    BY <1>1, <2>1
  <2>3. t[k].start = At(cue, m - 1) /\ t[k].end = At(cue, m)
    BY <1>3, <1>6, <2>1
  <2> HIDE DEF m
  <2>4. At(cue, 0) <= At(cue, m - 1) /\ At(cue, m - 1) <= At(cue, m) /\ At(cue, m) <= At(cue, N)
        /\ At(cue, m - 1) \in Nat /\ At(cue, m) \in Nat
    BY <1>7, <2>2
  <2> QED BY <1>8, <2>3, <2>4
<1> QED BY <1>2, <1>9, <1>10 DEF Sorted, Within

Both(C, a, b, ab) == a \in Seq(C) /\ b \in Seq(C) /\ ab = a \o b
SortedParts(a, b, ab) ==
  /\ Sorted(ab) <=> /\ Sorted(a) /\ Sorted(b)
                    /\ \A k \in 1..Len(a), l \in 1..Len(b) : a[k].end <= b[l].start
  /\ \A k \in 1..Len(a) : k \in 1..Len(ab) /\ ab[k] = a[k]
  /\ \A l \in 1..Len(b) : Len(a) + l \in 1..Len(ab) /\ ab[Len(a) + l] = b[l]
  /\ \A n \in 1..Len(ab) : \/ n \in 1..Len(a)
                           \/ n - Len(a) \in 1..Len(b) /\ n = Len(a) + (n - Len(a))

LEMMA SortedBoth ==
  ASSUME NEW C, NEW a, NEW b, NEW ab, Both(C, a, b, ab)
  PROVE  SortedParts(a, b, ab)
<1>0. a \in Seq(C) /\ b \in Seq(C) /\ ab = a \o b
  BY DEF Both
<1>1. /\ ab \in Seq(C) /\ Len(ab) = Len(a) + Len(b)
      /\ \A k \in 1..Len(a) : ab[k] = a[k]
      /\ \A k \in (Len(a) + 1)..(Len(a) + Len(b)) : ab[k] = b[k - Len(a)]
  BY <1>0, ConcatProperties
<1>2. Len(a) \in Nat /\ Len(b) \in Nat
  BY <1>0, LenProperties
<1>3. \A k \in 1..Len(a) : k \in 1..Len(ab) /\ ab[k] = a[k]
  BY <1>1, <1>2
<1>4. ASSUME NEW l \in 1..Len(b) PROVE Len(a) + l \in 1..Len(ab) /\ ab[Len(a) + l] = b[l]
  <2>1. Len(a) + l \in (Len(a) + 1)..(Len(a) + Len(b)) /\ Len(a) + l - Len(a) = l
    BY <1>2
  <2>2. ab[Len(a) + l] = b[Len(a) + l - Len(a)]
    BY <1>1, <2>1
  <2> QED BY <1>1, <1>2, <2>1, <2>2
<1>5. \A n \in 1..Len(ab) : \/ n \in 1..Len(a)
                            \/ n - Len(a) \in 1..Len(b) /\ n = Len(a) + (n - Len(a))
  BY <1>1, <1>2
<1>6. ASSUME Sorted(ab)
      PROVE  /\ Sorted(a) /\ Sorted(b)
             /\ \A k \in 1..Len(a), l \in 1..Len(b) : a[k].end <= b[l].start
  <2>1. Sorted(a)
    <3> SUFFICES ASSUME NEW k \in 1..Len(a), NEW l \in 1..Len(a), k < l PROVE a[k].end <= a[l].start
      BY DEF Sorted
    <3>1. ab[k].end <= ab[l].start
      BY <1>3, <1>6 DEF Sorted
    <3> QED BY <1>3, <3>1
  <2>2. Sorted(b)
    <3> SUFFICES ASSUME NEW k \in 1..Len(b), NEW l \in 1..Len(b), k < l PROVE b[k].end <= b[l].start
      BY DEF Sorted
    <3>1. Len(a) + k < Len(a) + l
      BY <1>2
    <3>2. ab[Len(a) + k].end <= ab[Len(a) + l].start
      BY <1>4, <1>6, <3>1 DEF Sorted
    <3> QED BY <1>4, <3>2
  <2>3. ASSUME NEW k \in 1..Len(a), NEW l \in 1..Len(b) PROVE a[k].end <= b[l].start
    <3>1. k < Len(a) + l
      BY <1>2
    <3>2. ab[k].end <= ab[Len(a) + l].start
      BY <1>3, <1>4, <1>6, <3>1 DEF Sorted
    <3> QED BY <1>3, <1>4, <3>2
  <2> QED BY <2>1, <2>2, <2>3
<1>7. ASSUME Sorted(a), Sorted(b), \A k \in 1..Len(a), l \in 1..Len(b) : a[k].end <= b[l].start
      PROVE  Sorted(ab)
  <2> SUFFICES ASSUME NEW k \in 1..Len(ab), NEW l \in 1..Len(ab), k < l PROVE ab[k].end <= ab[l].start
    BY DEF Sorted
  <2>1. CASE k \in 1..Len(a) /\ l \in 1..Len(a)
    <3>1. a[k].end <= a[l].start
      BY <1>7, <2>1 DEF Sorted
    <3> QED BY <1>3, <2>1, <3>1
  <2>2. CASE k \in 1..Len(a) /\ l - Len(a) \in 1..Len(b)
    <3> DEFINE m == l - Len(a)
    <3>1. l = Len(a) + m
      BY <1>2
    <3> HIDE DEF m
    <3>2. m \in 1..Len(b)
      BY <2>2 DEF m
    <3>3. ab[l] = b[m]
      BY <1>4, <3>1, <3>2
    <3> QED BY <1>3, <1>7, <2>2, <3>2, <3>3
  <2>3. CASE ~(k \in 1..Len(a))
    <3> DEFINE m == l - Len(a)  n == k - Len(a)
    <3>1. l = Len(a) + m /\ k = Len(a) + n /\ n < m /\ n \in 1..Len(b) /\ m \in 1..Len(b)
      BY <1>1, <1>2, <2>3
    <3> HIDE DEF m, n
    <3>2. ab[l] = b[m] /\ ab[k] = b[n]
      BY <1>4, <3>1
    <3>3. b[n].end <= b[m].start
      BY <1>7, <3>1 DEF Sorted
    <3> QED BY <3>2, <3>3
  <2> QED BY <1>5, <1>2, <2>1, <2>2, <2>3
<1>8. Sorted(ab) <=> /\ Sorted(a) /\ Sorted(b)
                     /\ \A k \in 1..Len(a), l \in 1..Len(b) : a[k].end <= b[l].start
  BY <1>6, <1>7
<1> QED BY <1>3, <1>4, <1>5, <1>8 DEF SortedParts

(* Of a sorted concatenation, each part comes after those before it.       *)
Ordered(G, n) ==
  /\ \A p \in 1..n : Sorted(G[p])
  /\ \A p, q \in 1..n : p < q => \A k \in 1..Len(G[p]), l \in 1..Len(G[q]) : G[p][k].end <= G[q][l].start
Occur(G, s, n) == \A p \in 1..n : \A k \in 1..Len(G[p]) : \E a \in 1..Len(s) : s[a] = G[p][k]
PartsOrdered(G, s, n) == Occur(G, s, n) /\ (Sorted(s) => Ordered(G, n))

LEMMA PartsInOrder ==
  ASSUME NEW C, NEW G \in Seq(Seq(C))
  PROVE  PartsOrdered(G, FlattenSeq(G), Len(G))
<1> DEFINE N == Len(G)
           F(n) == FlattenSeq(SubSeq(G, 1, n))
           S == {n \in Nat : n <= N => PartsOrdered(G, F(n), n)}
<1>1. N \in Nat /\ \A n \in 1..N : G[n] \in Seq(C)
  BY LenProperties, ElementOfSeq
<1>2. 0 \in S
  BY DEF PartsOrdered, Occur, Ordered
<1>3. ASSUME NEW n \in S PROVE n + 1 \in S
  <2> SUFFICES ASSUME n + 1 <= N PROVE PartsOrdered(G, F(n + 1), n + 1)
    OBVIOUS
  <2> DEFINE a == F(n)  b == G[n + 1]  ab == F(n + 1)
  <2>1. n \in 0..(N - 1) /\ n \in Nat /\ n + 1 \in 1..N /\ PartsOrdered(G, a, n)
    BY <1>1
  <2>2. a \in Seq(C) /\ b \in Seq(C) /\ ab = a \o b
    BY <1>1, <2>1, FlattenMore
  <2>b. b = G[n + 1]
    OBVIOUS
  <2> HIDE DEF a, b, ab
  <2>3. /\ Sorted(ab) <=> /\ Sorted(a) /\ Sorted(b)
                          /\ \A k \in 1..Len(a), l \in 1..Len(b) : a[k].end <= b[l].start
        /\ \A k \in 1..Len(a) : k \in 1..Len(ab) /\ ab[k] = a[k]
        /\ \A l \in 1..Len(b) : Len(a) + l \in 1..Len(ab) /\ ab[Len(a) + l] = b[l]
    <3>1. Both(C, a, b, ab)
      BY <2>2 DEF Both
    <3>2. SortedParts(a, b, ab)
      BY <3>1, SortedBoth
    <3> QED BY <3>2 DEF SortedParts
  <2>4. \A p \in 1..(n + 1) : p \in 1..n \/ p = n + 1
    BY <2>1
  <2>5. ASSUME NEW p \in 1..(n + 1), NEW k \in 1..Len(G[p])
        PROVE  \E c \in 1..Len(ab) : ab[c] = G[p][k]
    <3>1. CASE p \in 1..n
      <4>1. PICK c \in 1..Len(a) : a[c] = G[p][k]
        BY <2>1, <3>1 DEF PartsOrdered, Occur
      <4> QED BY <2>3, <4>1
    <3>2. CASE p = n + 1
      BY <2>3, <2>b, <3>2
    <3> QED BY <2>4, <3>1, <3>2
  <2>6. ASSUME Sorted(ab) PROVE Ordered(G, n + 1)
    <3>1. Sorted(a) /\ Sorted(b) /\ \A k \in 1..Len(a), l \in 1..Len(b) : a[k].end <= b[l].start
      BY <2>3, <2>6
    <3>2. Ordered(G, n) /\ Occur(G, a, n)
      BY <2>1, <3>1 DEF PartsOrdered
    <3>3. \A p \in 1..(n + 1) : Sorted(G[p])
      BY <2>4, <2>b, <3>1, <3>2 DEF Ordered
    <3>4. ASSUME NEW p \in 1..(n + 1), NEW q \in 1..(n + 1), p < q,
                 NEW k \in 1..Len(G[p]), NEW l \in 1..Len(G[q])
          PROVE  G[p][k].end <= G[q][l].start
      <4>1. p \in 1..n
        BY <2>1, <3>4
      <4>2. CASE q \in 1..n
        BY <3>2, <3>4, <4>1, <4>2 DEF Ordered
      <4>3. CASE q = n + 1
        <5>1. PICK c \in 1..Len(a) : a[c] = G[p][k]
          BY <3>2, <4>1 DEF Occur
        <5>2. l \in 1..Len(b) /\ G[q][l] = b[l]
          BY <2>b, <4>3
        <5> QED BY <3>1, <5>1, <5>2
      <4> QED BY <2>4, <4>2, <4>3
    <3> QED BY <3>3, <3>4 DEF Ordered
  <2>7. PartsOrdered(G, ab, n + 1)
    BY <2>5, <2>6 DEF PartsOrdered, Occur
  <2> QED BY <2>7 DEF ab
<1> HIDE DEF S, F
<1>4. S = Nat
  <2>1. S \in SUBSET Nat
    BY DEF S
  <2> QED BY <1>2, <1>3, <2>1, Induct
<1>5. PartsOrdered(G, F(N), N)
  BY <1>1, <1>4 DEF S
<1>6. SubSeq(G, 1, N) = G
  BY WholeAndEmpty
<1> QED BY <1>5, <1>6 DEF F

-----------------------------------------------------------------------------
(* Where the cues do not overlap, what is said is in the order of time.    *)
FollowOn(cues) == \A k, n \in DOMAIN cues : k < n => cues[k].end <= cues[n].start
TimedAll(s) ==
  \A k \in 1..Len(s) : s[k].start \in Nat /\ s[k].end \in Nat /\ s[k].start <= s[k].end
SaidInTime(s, cues, n) ==
  /\ Sorted(s) /\ TimedAll(s)
  /\ \A k \in 1..Len(s), m \in (n + 1)..Len(cues) : s[k].end <= cues[m].start

LEMMA TextInTime ==
  ASSUME NEW cues, LectureCues(cues), FollowOn(cues)
  PROVE  /\ Texts(cues) \in Seq(Seq(AllFragments(cues)))
         /\ Sorted(FlattenSeq(Texts(cues))) /\ TimedAll(FlattenSeq(Texts(cues)))
<1> DEFINE C == AllFragments(cues)
           N == Len(cues)
           t == Texts(cues)
           F(n) == FlattenSeq(SubSeq(t, 1, n))
           S == {n \in Nat : n <= N => SaidInTime(F(n), cues, n)}
<1>1. N \in Nat /\ DOMAIN cues = 1..N
  BY CueFacts
<1>2. t \in Seq(Seq(C)) /\ Len(t) = N /\ \A k \in 1..N : t[k] = FragmentsOf(cues[k])
  <2>1. \A k \in 1..N : t[k] = FragmentsOf(cues[k]) /\ t[k] \in Seq(C)
    BY <1>1, FragmentsOfCues DEF Texts
  <2>2. t = [k \in 1..N |-> t[k]]
    BY <1>1 DEF Texts
  <2> HIDE DEF t
  <2>3. t \in Seq(Range(t)) /\ Len(t) = N
    BY <1>1, <2>2, FunctionIsSeq
  <2>4. Range(t) \subseteq Seq(C)
    BY <2>1, <2>2 DEF Range
  <2> QED BY <2>1, <2>3, <2>4, SeqMonotonic
<1> HIDE DEF t
<1>3. 0 \in S
  <2>1. F(0) = <<>>
    BY <1>2, WholeAndEmpty DEF FlattenSeq
  <2>2. SaidInTime(<<>>, cues, 0)
    BY DEF SaidInTime, Sorted, TimedAll
  <2> QED BY <2>1, <2>2
<1>4. ASSUME NEW n \in S PROVE n + 1 \in S
  <2> SUFFICES ASSUME n + 1 <= N PROVE SaidInTime(F(n + 1), cues, n + 1)
    OBVIOUS
  <2> DEFINE a == F(n)  b == FragmentsOf(cues[n + 1])  ab == F(n + 1)
  <2>1. n \in 0..(N - 1) /\ n \in Nat /\ n + 1 \in 1..N /\ SaidInTime(a, cues, n)
        /\ n \in 0..(Len(t) - 1)
    BY <1>1, <1>2
  <2>2. a \in Seq(C) /\ b \in Seq(C) /\ ab = a \o b
    <3>1. t[n + 1] = b /\ t[n + 1] \in Seq(C)
      BY <1>2, <2>1, ElementOfSeq
    <3> QED BY <1>2, <2>1, <3>1, FlattenMore
  <2>3. Sorted(b) /\ Within(b, cues[n + 1].start, cues[n + 1].end)
    <3>1. ValidCue(cues[n + 1])
      <4>1. cues[n + 1] \in Range(cues) /\ cues[n + 1].start \in Nat /\ cues[n + 1].end \in Nat
            /\ cues[n + 1].start < cues[n + 1].end
        BY <2>1, CueFacts
      <4> QED BY <4>1 DEF ValidCue, ForSomeTime, SaysSomething, LectureCues
    <3> QED BY <3>1, FragmentsSorted
  <2> HIDE DEF a, b, ab
  <2>4. /\ Sorted(ab) <=> /\ Sorted(a) /\ Sorted(b)
                          /\ \A k \in 1..Len(a), l \in 1..Len(b) : a[k].end <= b[l].start
        /\ \A k \in 1..Len(a) : k \in 1..Len(ab) /\ ab[k] = a[k]
        /\ \A l \in 1..Len(b) : Len(a) + l \in 1..Len(ab) /\ ab[Len(a) + l] = b[l]
        /\ \A m \in 1..Len(ab) : \/ m \in 1..Len(a)
                                 \/ m - Len(a) \in 1..Len(b) /\ m = Len(a) + (m - Len(a))
    <3>1. Both(C, a, b, ab)
      BY <2>2 DEF Both
    <3>2. SortedParts(a, b, ab)
      BY <3>1, SortedBoth
    <3> QED BY <3>2 DEF SortedParts
  <2>5. \A m \in 1..N : cues[m].start \in Nat /\ cues[m].end \in Nat
    BY CueFacts
  <2>6. ASSUME NEW k \in 1..Len(a) PROVE a[k].end \in Nat /\ a[k].end <= cues[n + 1].start
    <3>1. n + 1 \in (n + 1)..N
      BY <2>1
    <3> QED BY <2>1, <3>1 DEF SaidInTime, TimedAll
  <2>7. ASSUME NEW l \in 1..Len(b)
        PROVE  /\ b[l].start \in Nat /\ b[l].end \in Nat /\ b[l].start <= b[l].end
               /\ cues[n + 1].start <= b[l].start /\ b[l].end <= cues[n + 1].end
    BY <2>3 DEF Within
  <2>8. ASSUME NEW k \in 1..Len(a), NEW l \in 1..Len(b) PROVE a[k].end <= b[l].start
    <3>1. a[k].end \in Nat /\ a[k].end <= cues[n + 1].start
      BY <2>6
    <3>2. b[l].start \in Nat /\ cues[n + 1].start <= b[l].start
      BY <2>7
    <3>3. cues[n + 1].start \in Nat
      BY <2>1, <2>5
    <3> QED BY <3>1, <3>2, <3>3
  <2>9. Sorted(ab)
    BY <2>1, <2>3, <2>4, <2>8 DEF SaidInTime
  <2>10. ASSUME NEW m \in (n + 2)..N
         PROVE  cues[n + 1].end <= cues[m].start
    <3>1. m \in 1..N /\ n + 1 < m
      BY <1>1, <2>1
    <3> QED BY <1>1, <2>1, <3>1 DEF FollowOn
  <2>11. ASSUME NEW k \in 1..Len(ab)
         PROVE  /\ ab[k].start \in Nat /\ ab[k].end \in Nat /\ ab[k].start <= ab[k].end
                /\ \A m \in (n + 2)..N : ab[k].end <= cues[m].start
    <3>1. CASE k \in 1..Len(a)
      <4>1. ab[k] = a[k]
        BY <2>4, <3>1
      <4>2. a[k].start \in Nat /\ a[k].end \in Nat /\ a[k].start <= a[k].end
        BY <2>1, <3>1 DEF SaidInTime, TimedAll
      <4>3. \A m \in (n + 2)..N : m \in (n + 1)..N
        BY <2>1
      <4>4. \A m \in (n + 2)..N : a[k].end <= cues[m].start
        BY <2>1, <3>1, <4>3 DEF SaidInTime
      <4> QED BY <4>1, <4>2, <4>4
    <3>2. CASE k - Len(a) \in 1..Len(b) /\ k = Len(a) + (k - Len(a))
      <4> DEFINE l == k - Len(a)
      <4>1. l \in 1..Len(b) /\ k = Len(a) + l
        BY <3>2
      <4> HIDE DEF l
      <4>2. ab[k] = b[l]
        BY <2>4, <4>1
      <4>3. ASSUME NEW m \in (n + 2)..N PROVE b[l].end <= cues[m].start
        <5>1. m \in 1..N
          BY <1>1, <2>1
        <5>2. b[l].end <= cues[n + 1].end /\ b[l].end \in Nat
          BY <2>7, <4>1
        <5>3. cues[n + 1].end <= cues[m].start
          BY <2>10
        <5>4. cues[n + 1].end \in Nat /\ cues[m].start \in Nat
          BY <2>1, <2>5, <5>1
        <5> HIDE DEF l
        <5> QED BY <5>2, <5>3, <5>4
      <4> QED BY <2>7, <4>1, <4>2, <4>3
    <3> QED BY <2>4, <3>1, <3>2
  <2>12. n + 1 + 1 = n + 2
    BY <2>1
  <2>13. SaidInTime(ab, cues, n + 1)
    BY <2>9, <2>11, <2>12 DEF SaidInTime, TimedAll
  <2> QED BY <2>13 DEF ab
<1> HIDE DEF S, F
<1>5. S = Nat
  <2>1. S \in SUBSET Nat
    BY DEF S
  <2> QED BY <1>3, <1>4, <2>1, Induct
<1>6. SaidInTime(F(N), cues, N)
  BY <1>1, <1>5 DEF S
<1>7. F(N) = FlattenSeq(t)
  BY <1>2, WholeAndEmpty DEF F
<1> QED BY <1>2, <1>6, <1>7 DEF SaidInTime, t

SpansFrom(G) == [n \in DOMAIN G |-> SpanOfText(G[n])]

LEMMA SpansAreTimed ==
  ASSUME NEW cues, LectureCues(cues), FollowOn(cues)
  PROVE  /\ TimedSpans(SpansFrom(Grouped(cues)))
         /\ \A k \in 1..Len(SpansFrom(Grouped(cues))) :
              /\ SpansFrom(Grouped(cues))[k].start \in Nat /\ SpansFrom(Grouped(cues))[k].end \in Nat
<1> DEFINE G == Grouped(cues)
           C == AllFragments(cues)
           F == FlattenSeq(G)
           M == Len(G)
           spans == SpansFrom(G)
<1>1. AllClosed(G, cues, Len(cues)) /\ FlattenSeq(G) = FlattenSeq(Texts(cues))
  BY GroupedIs
<1>2. G \in Seq(Seq(C)) /\ \A p \in 1..M : G[p] \in Seq(C) /\ G[p] # <<>>
  BY <1>1 DEF AllClosed, Closed, Grown
<1>3. Sorted(F) /\ TimedAll(F)
  <2>1. Sorted(FlattenSeq(Texts(cues))) /\ TimedAll(FlattenSeq(Texts(cues)))
    BY TextInTime
  <2> QED BY <1>1, <2>1
<1> HIDE DEF C
<1>4. PartsOrdered(G, F, M)
  BY <1>2, PartsInOrder
<1> HIDE DEF F
<1>5. Occur(G, F, M) /\ Ordered(G, M)
  BY <1>3, <1>4 DEF PartsOrdered
<1>6. DOMAIN G = 1..M /\ M \in Nat
  BY <1>2, LenProperties
<1>7. spans = [n \in 1..M |-> SpanOfText(G[n])]
  BY <1>6 DEF SpansFrom
<1> HIDE DEF G, M, spans
<1>8. Len(spans) = M
  <2>1. spans = [n \in 1..M |-> spans[n]]
    BY <1>7
  <2> QED BY <1>6, <2>1, FunctionIsSeq
<1>9. ASSUME NEW p \in 1..M
      PROVE  /\ Len(G[p]) \in Nat \ {0}
             /\ spans[p].start = G[p][1].start /\ spans[p].end = G[p][Len(G[p])].end
  <2>1. Len(G[p]) \in Nat \ {0}
    BY <1>2, EmptySeq, LenProperties
  <2>2. spans[p] = SpanOfText(G[p])
    BY <1>7
  <2> QED BY <2>1, <2>2 DEF SpanOfText, Last
<1>10. ASSUME NEW p \in 1..M, NEW k \in 1..Len(G[p])
       PROVE  G[p][k].start \in Nat /\ G[p][k].end \in Nat /\ G[p][k].start <= G[p][k].end
  <2>1. PICK a \in 1..Len(F) : F[a] = G[p][k]
    BY <1>5 DEF Occur
  <2> QED BY <1>3, <2>1 DEF TimedAll
<1>11. ASSUME NEW p \in 1..M
       PROVE  spans[p].start \in Nat /\ spans[p].end \in Nat
  <2>1. 1 \in 1..Len(G[p]) /\ Len(G[p]) \in 1..Len(G[p])
    BY <1>9
  <2> QED BY <1>9, <1>10, <2>1
<1>12. ASSUME NEW k \in 1..M, NEW l \in 1..M, k <= l
       PROVE  spans[k].start <= spans[l].start /\ spans[k].end <= spans[l].end
  <2>1. CASE k = l
    BY <1>11, <2>1
  <2>2. CASE k < l
    <3> DEFINE a == Len(G[k])  b == Len(G[l])
    <3>1. 1 \in 1..a /\ a \in 1..a /\ 1 \in 1..b /\ b \in 1..b
      BY <1>9
    <3>2. G[k][1].end <= G[l][1].start /\ G[k][a].end <= G[l][b].start
      BY <1>5, <2>2, <3>1 DEF Ordered
    <3> HIDE DEF a, b
    <3>3. /\ G[k][1].start \in Nat /\ G[k][1].end \in Nat /\ G[k][1].start <= G[k][1].end
          /\ G[l][1].start \in Nat /\ G[k][a].end \in Nat
          /\ G[l][b].start \in Nat /\ G[l][b].end \in Nat /\ G[l][b].start <= G[l][b].end
      BY <1>10, <3>1 DEF a, b
    <3>4. /\ spans[k].start = G[k][1].start /\ spans[k].end = G[k][a].end
          /\ spans[l].start = G[l][1].start /\ spans[l].end = G[l][b].end
      BY <1>9 DEF a, b
    <3> QED BY <3>2, <3>3, <3>4
  <2> QED BY <1>6, <1>12, <2>1, <2>2
<1>13. TimedSpans(spans)
  <2>1. \A k \in 1..M : spans[k].start \in Int /\ spans[k].end \in Int
    BY <1>11
  <2> QED BY <1>8, <1>12, <2>1, Zenon DEF TimedSpans
<1> QED BY <1>8, <1>11, <1>13 DEF spans, G

(* The windows are those of the spans that were heard.                     *)
WindowInv ==
  /\ LectureInv
  /\ input.kind = "lecture" /\ heard = None => proposed = None
  /\ input.kind = "lecture" /\ proposed # None =>
       proposed.windows \in {WindowsOf(heard.spans), <<>>}

LEMMA WindowStep ==
  ASSUME WindowInv, [LibraryNext]_libraryVars
  PROVE  WindowInv'
<1>1. LectureInv'
  BY LectureStep DEF WindowInv
<1>2. ASSUME ReadLecture PROVE WindowInv'
  <2>1. input.kind = "lecture" /\ heard = None /\ input' = input /\ proposed' = proposed
    BY <1>2 DEF ReadLecture
  <2>2. proposed' = None
    BY <2>1 DEF WindowInv
  <2> QED BY <1>1, <2>2 DEF WindowInv
<1>3. ASSUME ProposeEducational PROVE WindowInv'
  <2>1. input' = input /\ heard' = heard /\ heard # None /\ input.kind = "lecture"
    BY <1>3 DEF ProposeEducational
  <2>2. proposed'.windows \in {WindowsOf(heard.spans), <<>>}
    BY <1>3 DEF ProposeEducational
  <2>3. WindowsOf(heard.spans)' = WindowsOf(heard.spans)
    BY <2>1
  <2> QED BY <1>1, <2>1, <2>2, <2>3 DEF WindowInv
<1>4. ASSUME input' = input, heard' = heard, proposed' = proposed PROVE WindowInv'
  BY <1>1, <1>4 DEF WindowInv
<1>5. ASSUME DetectSports PROVE WindowInv'
  BY <1>1, <1>5 DEF DetectSports, WindowInv
<1>6. ASSUME ProposeSports PROVE WindowInv'
  BY <1>1, <1>6 DEF ProposeSports, WindowInv
<1> QED BY <1>2, <1>3, <1>4, <1>5, <1>6
      DEF LibraryNext, libraryVars, CreatePlan, PlanEducational,
          ProcessSubtitles, PlanSports, Reframe, Resize, LayOut

(* Where the cues of a lecture do not overlap, an educational clip holds   *)
(* the span it is for, is long enough, does not stop in a few stray words, *)
(* nor reaches back to some, and does not start with what refers to        *)
(* something earlier that it could have taken in.                          *)
THEOREM WindowsKeepContext ==
  ASSUME \A i \in Inputs : i.kind = "lecture" => FollowOn(i.cues)
  PROVE  LibraryInit /\ [][LibraryNext]_libraryVars => []WindowsAreWhole
<1>1. LibraryInit => WindowInv
  BY DEF LibraryInit, WindowInv, LectureInv
<1>2. WindowInv /\ [LibraryNext]_libraryVars => WindowInv'
  BY WindowStep
<1>3. WindowInv => WindowsAreWhole
  <2> SUFFICES ASSUME WindowInv, input.kind = "lecture", proposed # None,
                      NEW n \in DOMAIN proposed.windows
               PROVE  LET w == proposed.windows[n]  spans == heard.spans  final == Len(spans) IN
                      /\ w.first <= n /\ n <= w.last
                      /\ spans[w.last].end - spans[w.first].start >= EnoughTime
                           \/ (w.first = 1 /\ w.last = final)
                      /\ w.last = final \/ ~Weak(spans[w.last])
                      /\ w.last = final \/ w.first = n \/ ~Weak(spans[w.first])
                      /\ Dependent(spans[w.first]) => \A k \in 1..(w.first - 1) : Weak(spans[k])
    BY DEF WindowsAreWhole
  <2> DEFINE spans == heard.spans
             cues == input.cues
  <2>1. heard # None /\ SpansOf(cues) /\ input \in Inputs
    BY DEF WindowInv, LectureInv
  <2>2. LectureCues(cues) /\ FollowOn(cues)
    BY <2>1, LectureConstants DEF LectureCues
  <2>3. spans = SpansFrom(Grouped(cues))
    BY <2>1 DEF SpansOf, SpansFrom
  <2>4. TimedSpans(spans)
    BY <2>2, <2>3, SpansAreTimed
  <2>5. proposed.windows = WindowsOf(spans)
    <3>1. DOMAIN proposed.windows # {}
      OBVIOUS
    <3> QED BY <3>1 DEF WindowInv
  <2>6. DOMAIN spans = 1..Len(spans) /\ Len(spans) \in Nat
    <3>1. LET G == Grouped(cues) IN DOMAIN G = 1..Len(G) /\ Len(G) \in Nat
      BY <2>2, GroupedIs, LenProperties DEF AllClosed
    <3> DEFINE G == Grouped(cues)
    <3>2. spans = [k \in 1..Len(G) |-> SpanOfText(G[k])] /\ Len(G) \in Nat
      BY <2>3, <3>1 DEF SpansFrom
    <3> HIDE DEF G, spans
    <3>3. spans = [k \in 1..Len(G) |-> spans[k]] /\ DOMAIN spans = 1..Len(G)
      BY <3>2
    <3>4. Len(spans) = Len(G)
      BY <3>2, <3>3, FunctionIsSeq
    <3> QED BY <3>2, <3>3, <3>4
  <2> HIDE DEF spans
  <2>7. n \in 1..Len(spans) /\ proposed.windows[n] = Window(spans, n)
    BY <2>5, <2>6 DEF WindowsOf
  <2> DEFINE w == Window(spans, n)
  <2>8. /\ w \in Around(spans, n) /\ StrongStart(spans, n, w) /\ LongEnough(spans, w)
        /\ Weakest(spans, w) /\ (w.last = Len(spans) \/ ~Weak(spans[w.last]))
    BY <2>4, <2>6, <2>7, WindowIsWhole
  <2> HIDE DEF w
  <2>9. w.first <= n /\ n <= w.last
    BY <2>8 DEF Around
  <2> QED BY <2>7, <2>8, <2>9 DEF StrongStart, LongEnough, Weakest, w, spans
<1> QED BY <1>1, <1>2, <1>3, PTL

-----------------------------------------------------------------------------
(* The subtitles of a clip: lines within the clip, for what can be         *)
(* displayed.                                                              *)
Displayable(c) ==
  /\ c.start \in Nat /\ c.end \in Nat
  /\ c.cues \in Seq(Range(c.cues)) /\ \A x \in Range(c.cues) : ValidCue(x)
  /\ c.translated \in Seq(Range(c.translated)) /\ \A x \in Range(c.translated) : ValidCue(x)
  /\ c.spans \in Seq(Range(c.spans)) /\ \A x \in Range(c.spans) : ValidText(x)
  /\ c.units \in Seq(Range(c.units)) /\ \A x \in Range(c.units) : ValidDisplay(x)

IsLine(x) ==
  /\ x = [start |-> x.start, end |-> x.end, for |-> x.for, chars |-> x.chars, chinese |-> x.chinese]
  /\ x.start \in Nat /\ x.end \in Nat /\ x.chars \in Int
LinesOf(lines, N) == lines = [n \in 1..N |-> lines[n]] /\ \A n \in 1..N : IsLine(lines[n])
InClip(c, x) ==
  /\ x.start \in Nat /\ x.end \in Nat /\ x.chars \in Int
  /\ x.start < x.end /\ x.end <= Lasts(c)

LEMMA OfTwo ==
  ASSUME NEW a \in Nat, NEW b \in Nat
  PROVE  Max({a, b}) = (IF a >= b THEN a ELSE b) /\ Min({a, b}) = (IF a <= b THEN a ELSE b)
<1>1. CASE a <= b
  BY <1>1 DEF Max, Min
<1>2. CASE a > b
  BY <1>2 DEF Max, Min
<1> QED BY <1>1, <1>2

LEMMA ShiftedIs ==
  ASSUME NEW c, c.start \in Nat, c.end \in Nat, NEW x, IsLine(x)
  PROVE  /\ Shifted(c, x).start = (IF x.start >= c.start THEN x.start ELSE c.start) - c.start
         /\ Shifted(c, x).end = (IF x.end <= c.end THEN x.end ELSE c.end) - c.start
         /\ Shifted(c, x).for = x.for /\ Shifted(c, x).chars = x.chars
         /\ Shifted(c, x).chinese = x.chinese
<1>1. /\ Max({x.start, c.start}) = (IF x.start >= c.start THEN x.start ELSE c.start)
      /\ Min({x.end, c.end}) = (IF x.end <= c.end THEN x.end ELSE c.end)
  BY OfTwo DEF IsLine
<1> DEFINE a == Max({x.start, c.start}) - c.start
           b == Min({x.end, c.end}) - c.start
<1>2. Shifted(c, x) = [x EXCEPT !.start = a, !.end = b]
  BY DEF Shifted
<1> HIDE DEF a, b
<1>3. Shifted(c, x) =
        [start |-> a, end |-> b, for |-> x.for, chars |-> x.chars, chinese |-> x.chinese]
  BY <1>2 DEF IsLine
<1> QED BY <1>1, <1>3 DEF a, b

(* Which of the lines are in the clip.                                     *)
Kept(c, lines, N) == {n \in 1..N : Shifted(c, lines[n]).end > Shifted(c, lines[n]).start}
Places(c, lines, N) == Increasing(Kept(c, lines, N), N)

ClippedFrom(c, lines, N, t, p) ==
  /\ AllInOrder(p, Kept(c, lines, N), N)
  /\ t \in Seq(Range(t)) /\ Len(t) = Len(p) /\ Len(t) \in Nat /\ DOMAIN t = 1..Len(t)
  /\ \A k \in 1..Len(t) : p[k] \in 1..N /\ t[k] = Shifted(c, lines[p[k]]) /\ t[k] \in Range(t)

LEMMA ClippedIs ==
  ASSUME NEW c, NEW N \in Nat, NEW lines, LinesOf(lines, N)
  PROVE  ClippedFrom(c, lines, N, Clipped(c, lines), Places(c, lines, N))
<1> DEFINE shifted == [n \in DOMAIN lines |-> Shifted(c, lines[n])]
           I == {n \in DOMAIN lines : shifted[n].end > shifted[n].start}
           p == Places(c, lines, N)
           t == Clipped(c, lines)
<1>1. DOMAIN lines = 1..N
  BY DEF LinesOf
<1>2. \A n \in 1..N : shifted[n] = Shifted(c, lines[n])
  BY <1>1
<1>3. I = Kept(c, lines, N)
  BY <1>1, <1>2 DEF Kept
<1>4. shifted = [n \in 1..N |-> shifted[n]]
  BY <1>1
<1>5. t = Those(shifted, I)
  BY DEF Clipped
<1> HIDE DEF shifted, I
<1>6. shifted \in Seq(Range(shifted)) /\ Len(shifted) = N
  BY <1>4, FunctionIsSeq
<1>7. p = Increasing(I, N)
  BY <1>3 DEF Places
<1> HIDE DEF p, t
<1>8. /\ AllInOrder(p, I, N) /\ t \in Seq(Range(shifted)) /\ Len(t) = Len(p)
      /\ \A k \in 1..Len(t) : p[k] \in 1..N /\ t[k] = shifted[p[k]]
  BY <1>5, <1>6, <1>7, ThoseFacts
<1>9. Len(t) \in Nat /\ DOMAIN t = 1..Len(t) /\ t = [k \in 1..Len(t) |-> t[k]]
  BY <1>8, LenProperties
<1>10. t \in Seq(Range(t)) /\ \A k \in 1..Len(t) : t[k] \in Range(t)
  BY <1>9, FunctionIsSeq
<1>11. \A k \in 1..Len(t) : p[k] \in 1..N /\ t[k] = Shifted(c, lines[p[k]]) /\ t[k] \in Range(t)
  BY <1>2, <1>8, <1>10
<1>12. ClippedFrom(c, lines, N, t, p)
  BY <1>3, <1>8, <1>9, <1>10, <1>11, Zenon DEF ClippedFrom
<1> QED BY <1>12 DEF p, t

LEMMA ClippedInClip ==
  ASSUME NEW c, c.start \in Nat, c.end \in Nat, NEW N \in Nat, NEW lines, LinesOf(lines, N)
  PROVE  \A x \in Range(Clipped(c, lines)) : InClip(c, x)
<1> DEFINE t == Clipped(c, lines)
           p == Places(c, lines, N)
<1>1. /\ AllInOrder(p, Kept(c, lines, N), N) /\ Len(t) = Len(p) /\ DOMAIN t = 1..Len(t)
      /\ \A k \in 1..Len(t) : p[k] \in 1..N /\ t[k] = Shifted(c, lines[p[k]])
  BY ClippedIs DEF ClippedFrom
<1> HIDE DEF t, p
<1>2. SUFFICES ASSUME NEW k \in 1..Len(t) PROVE InClip(c, t[k])
  BY <1>1 DEF Range, t
<1>3. p[k] \in Kept(c, lines, N) /\ p[k] \in 1..N /\ t[k] = Shifted(c, lines[p[k]])
  BY <1>1 DEF AllInOrder
<1> DEFINE x == lines[p[k]]
<1>4. IsLine(x) /\ t[k] = Shifted(c, x) /\ t[k].end > t[k].start
  BY <1>3 DEF LinesOf, Kept
<1> HIDE DEF x
<1>5. /\ t[k].start = (IF x.start >= c.start THEN x.start ELSE c.start) - c.start
      /\ t[k].end = (IF x.end <= c.end THEN x.end ELSE c.end) - c.start
      /\ t[k].chars = x.chars
  BY <1>4, ShiftedIs
<1>6. x.start \in Nat /\ x.end \in Nat /\ x.chars \in Int
  BY <1>4 DEF IsLine
<1>7. t[k].start \in Nat /\ t[k].end \in Int /\ t[k].end <= c.end - c.start
  BY <1>5, <1>6
<1> QED BY <1>4, <1>5, <1>6, <1>7 DEF InClip, Lasts

(* Lines with the same times are kept together.                            *)
LEMMA ClippedAlike ==
  ASSUME NEW c, c.start \in Nat, c.end \in Nat, NEW N \in Nat,
         NEW a, NEW b, LinesOf(a, N), LinesOf(b, N),
         \A n \in 1..N : a[n].start = b[n].start /\ a[n].end = b[n].end
  PROVE  DOMAIN Clipped(c, a) = DOMAIN Clipped(c, b)
<1>1. ASSUME NEW n \in 1..N
      PROVE  Shifted(c, a[n]).start = Shifted(c, b[n]).start /\ Shifted(c, a[n]).end = Shifted(c, b[n]).end
  BY ShiftedIs DEF LinesOf
<1>2. Kept(c, a, N) = Kept(c, b, N)
  BY <1>1 DEF Kept
<1>3. Places(c, a, N) = Places(c, b, N)
  BY <1>2 DEF Places
<1>4. /\ DOMAIN Clipped(c, a) = 1..Len(Clipped(c, a)) /\ Len(Clipped(c, a)) = Len(Places(c, a, N))
      /\ DOMAIN Clipped(c, b) = 1..Len(Clipped(c, b)) /\ Len(Clipped(c, b)) = Len(Places(c, b, N))
  BY ClippedIs DEF ClippedFrom
<1> QED BY <1>3, <1>4

-----------------------------------------------------------------------------
(* The lines of a clip.                                                    *)

LEMMA LengthIsWhole ==
  ASSUME NEW text, text \in Seq(Range(text)), \A f \in Range(text) : f.piece.size \in Int
  PROVE  Length(text) \in Int
<1> DEFINE sizes == [n \in DOMAIN text |-> text[n].piece.size]
<1>1. DOMAIN text = 1..Len(text) /\ Len(text) \in Nat /\ \A n \in DOMAIN text : text[n] \in Range(text)
  BY LenProperties DEF Range
<1>2. sizes \in [1..Len(text) -> Int]
  BY <1>1
<1>3. sizes \in Seq(Int)
  BY <1>1, <1>2, SeqDef
<1> HIDE DEF sizes
<1>4. SumOf(sizes) \in Int
  BY <1>3, SumIsWhole
<1> QED BY <1>4 DEF Length, sizes

LEMMA CharactersAreWhole ==
  ASSUME NEW cue, SaysSomething(cue)
  PROVE  Characters(cue) \in Int
<1>1. cue.pieces \in Seq(Range(cue.pieces)) /\ \A p \in Range(cue.pieces) : p.size \in Nat
  BY DEF SaysSomething
<1>2. /\ FragmentsOf(cue) \in Seq(Range(FragmentsOf(cue)))
      /\ \A f \in Range(FragmentsOf(cue)) : \E n \in 1..Len(cue.pieces) :
           f = [piece |-> cue.pieces[n], cue |-> cue.id, nth |-> n,
                start |-> At(cue, n - 1), end |-> At(cue, n)]
  BY <1>1, FragmentsFacts
<1>3. \A n \in 1..Len(cue.pieces) : cue.pieces[n].size \in Int
  BY <1>1, LenProperties DEF Range
<1>4. ASSUME NEW f \in Range(FragmentsOf(cue)) PROVE f.piece.size \in Int
  <2>1. PICK n \in 1..Len(cue.pieces) :
          f = [piece |-> cue.pieces[n], cue |-> cue.id, nth |-> n,
               start |-> At(cue, n - 1), end |-> At(cue, n)]
    BY <1>2
  <2>2. f.piece = cue.pieces[n]
    BY <2>1
  <2> QED BY <1>3, <2>2
<1>5. FragmentsOf(cue) \in Seq(Range(FragmentsOf(cue)))
  BY <1>2
<1> QED BY <1>4, <1>5, LengthIsWhole DEF Characters

LEMMA AllOfIsWhole ==
  ASSUME NEW cues, cues \in Seq(Range(cues)), \A x \in Range(cues) : SaysSomething(x)
  PROVE  AllOf(cues) \in Int
<1> DEFINE sizes == [n \in DOMAIN cues |-> Characters(cues[n])]
<1>1. DOMAIN cues = 1..Len(cues) /\ Len(cues) \in Nat /\ \A n \in DOMAIN cues : cues[n] \in Range(cues)
  BY LenProperties DEF Range
<1>2. \A n \in 1..Len(cues) : Characters(cues[n]) \in Int
  BY <1>1, CharactersAreWhole
<1>3. sizes \in [1..Len(cues) -> Int]
  BY <1>1, <1>2
<1>4. sizes \in Seq(Int)
  BY <1>1, <1>3, SeqDef
<1> HIDE DEF sizes
<1>5. SumOf(sizes) \in Int
  BY <1>4, SumIsWhole
<1> QED BY <1>5 DEF AllOf, sizes

LEMMA LineIsLine ==
  ASSUME NEW x, x.start \in Nat, x.end \in Nat, NEW for, NEW chars \in Int, NEW chinese
  PROVE  /\ IsLine(Line(x, for, chars, chinese))
         /\ Line(x, for, chars, chinese).start = x.start /\ Line(x, for, chars, chinese).end = x.end
         /\ Line(x, for, chars, chinese).for = for
BY DEF IsLine, Line

LEMMA CueLinesAre ==
  ASSUME NEW cues, cues \in Seq(Range(cues)), \A x \in Range(cues) : ValidCue(x)
  PROVE  LinesOf(Mapped(CueLine, cues), Len(cues)) /\ Len(cues) \in Nat
<1> DEFINE lines == [n \in DOMAIN cues |-> CueLine(cues[n])]
<1>1. DOMAIN cues = 1..Len(cues) /\ Len(cues) \in Nat /\ \A n \in DOMAIN cues : cues[n] \in Range(cues)
  BY LenProperties DEF Range
<1>2. ASSUME NEW n \in 1..Len(cues) PROVE IsLine(CueLine(cues[n]))
  <2>1. ValidCue(cues[n])
    BY <1>1
  <2>2. cues[n].start \in Nat /\ cues[n].end \in Nat /\ Characters(cues[n]) \in Int
    BY <2>1, CharactersAreWhole DEF ValidCue, ForSomeTime
  <2> QED BY <2>2, LineIsLine DEF CueLine
<1>3. Mapped(CueLine, cues) = lines
  BY DEF Mapped
<1>4. lines = [n \in 1..Len(cues) |-> lines[n]] /\ \A n \in 1..Len(cues) : lines[n] = CueLine(cues[n])
  BY <1>1
<1> HIDE DEF lines
<1> QED BY <1>1, <1>2, <1>3, <1>4 DEF LinesOf

SpanLines(c) == [n \in DOMAIN c.spans |-> SpanLine(c, c.spans[n])]
SourceLines(c) == [n \in DOMAIN c.units |-> SourceLine(c, c.units[n])]
TranslatedLines(c) == [n \in DOMAIN c.units |-> TranslatedLine(c.units[n])]

LEMMA SpanLinesAre ==
  ASSUME NEW c, Displayable(c)
  PROVE  LinesOf(SpanLines(c), Len(c.spans)) /\ Len(c.spans) \in Nat
<1>1. c.spans \in Seq(Range(c.spans)) /\ \A x \in Range(c.spans) : ValidText(x)
  BY DEF Displayable
<1>2. /\ DOMAIN c.spans = 1..Len(c.spans) /\ Len(c.spans) \in Nat
      /\ \A n \in DOMAIN c.spans : c.spans[n] \in Range(c.spans)
  BY <1>1, LenProperties DEF Range
<1>3. ASSUME NEW n \in 1..Len(c.spans) PROVE IsLine(SpanLine(c, c.spans[n]))
  <2> DEFINE s == c.spans[n]
  <2>1. ValidText(s)
    BY <1>1, <1>2
  <2> HIDE DEF s
  <2>2. s.start \in Nat /\ s.end \in Nat /\ s.text \in Seq(Range(s.text))
        /\ \A f \in Range(s.text) : f.piece.size \in Int
    BY <2>1 DEF ValidText, ForSomeTime
  <2>3. Length(s.text) \in Int
    BY <2>2, LengthIsWhole
  <2>4. IsLine(SpanLine(c, s))
    BY <2>2, <2>3, LineIsLine DEF SpanLine
  <2> QED BY <2>4 DEF s
<1> QED BY <1>2, <1>3 DEF LinesOf, SpanLines

LEMMA UnitLinesAre ==
  ASSUME NEW c, Displayable(c)
  PROVE  /\ LinesOf(SourceLines(c), Len(c.units)) /\ LinesOf(TranslatedLines(c), Len(c.units))
         /\ Len(c.units) \in Nat /\ DOMAIN c.units = 1..Len(c.units)
         /\ \A n \in 1..Len(c.units) :
              /\ SourceLines(c)[n].start = c.units[n].start /\ SourceLines(c)[n].end = c.units[n].end
              /\ TranslatedLines(c)[n].start = c.units[n].start
              /\ TranslatedLines(c)[n].end = c.units[n].end
              /\ SourceLines(c)[n].for = Range(c.units[n].cues)
<1>1. c.units \in Seq(Range(c.units)) /\ \A x \in Range(c.units) : ValidDisplay(x)
  BY DEF Displayable
<1>2. /\ DOMAIN c.units = 1..Len(c.units) /\ Len(c.units) \in Nat
      /\ \A n \in DOMAIN c.units : c.units[n] \in Range(c.units)
  BY <1>1, LenProperties DEF Range
<1>3. c.cues \in Seq(Range(c.cues)) /\ \A x \in Range(c.cues) : SaysSomething(x)
  BY DEF Displayable, ValidCue
<1>4. ASSUME NEW n \in 1..Len(c.units)
      PROVE  LET u == c.units[n] IN
             /\ IsLine(SourceLine(c, u)) /\ IsLine(TranslatedLine(u))
             /\ SourceLine(c, u).start = u.start /\ SourceLine(c, u).end = u.end
             /\ TranslatedLine(u).start = u.start /\ TranslatedLine(u).end = u.end
             /\ SourceLine(c, u).for = Range(u.cues)
  <2> DEFINE u == c.units[n]
             t == Those(c.cues, {k \in DOMAIN c.cues : c.cues[k].id \in Range(u.cues)})
  <2>1. ValidDisplay(u)
    BY <1>1, <1>2
  <2> HIDE DEF u
  <2>2. u.start \in Nat /\ u.end \in Nat /\ u.translated.chars \in Int
    BY <2>1 DEF ValidDisplay, ForSomeTime
  <2>3. t \in Seq(Range(c.cues))
    BY <1>3, ThoseFacts
  <2> HIDE DEF t
  <2>4. t \in Seq(Range(t)) /\ \A x \in Range(t) : x \in Range(c.cues)
    BY <2>3, LenProperties, FunctionIsSeq DEF Range
  <2>5. AllOf(t) \in Int
    BY <1>3, <2>4, AllOfIsWhole
  <2>6. /\ IsLine(SourceLine(c, u)) /\ SourceLine(c, u).start = u.start
        /\ SourceLine(c, u).end = u.end /\ SourceLine(c, u).for = Range(u.cues)
    <3> DEFINE chinese == \E cue \in Covered(c, Range(u.cues)) : cue.chinese
               for == Range(u.cues)
               chars == AllOf(t)
    <3>1. SourceLine(c, u) = Line(u, for, chars, chinese)
      BY DEF SourceLine, t
    <3>2. chars \in Int
      BY <2>5
    <3> HIDE DEF chinese, for, chars
    <3>3. /\ IsLine(Line(u, for, chars, chinese))
          /\ Line(u, for, chars, chinese).start = u.start /\ Line(u, for, chars, chinese).end = u.end
          /\ Line(u, for, chars, chinese).for = for
      BY <2>2, <3>2, LineIsLine
    <3> QED BY <3>1, <3>3 DEF for
  <2>7. IsLine(TranslatedLine(u)) /\ TranslatedLine(u).start = u.start /\ TranslatedLine(u).end = u.end
    BY <2>2, LineIsLine DEF TranslatedLine
  <2> QED BY <2>6, <2>7 DEF u
<1>5. /\ \A n \in 1..Len(c.units) : SourceLines(c)[n] = SourceLine(c, c.units[n])
      /\ \A n \in 1..Len(c.units) : TranslatedLines(c)[n] = TranslatedLine(c.units[n])
  BY <1>2 DEF SourceLines, TranslatedLines
<1>6. /\ SourceLines(c) = [n \in 1..Len(c.units) |-> SourceLines(c)[n]]
      /\ TranslatedLines(c) = [n \in 1..Len(c.units) |-> TranslatedLines(c)[n]]
  BY <1>2 DEF SourceLines, TranslatedLines
<1> QED BY <1>2, <1>4, <1>5, <1>6 DEF LinesOf

IsTrack(c, t) ==
  /\ t \in Seq(Range(t)) /\ DOMAIN t = 1..Len(t) /\ Len(t) \in Nat
  /\ \A x \in Range(t) : InClip(c, x)

LEMMA ClippedTrack ==
  ASSUME NEW c, c.start \in Nat, c.end \in Nat, NEW N \in Nat, NEW lines, LinesOf(lines, N)
  PROVE  IsTrack(c, Clipped(c, lines))
BY ClippedInClip, ClippedIs DEF ClippedFrom, IsTrack

(* The five tracks.                                                        *)
TracksGood(c, t) ==
  /\ IsTrack(c, t.source) /\ IsTrack(c, t.translated)
  /\ IsTrack(c, t.displaySource) /\ IsTrack(c, t.displayTranslated)
  /\ \A x \in Range(t.effective) : InClip(c, x)
  /\ DOMAIN t.displaySource = DOMAIN t.displayTranslated

LEMMA TracksAre ==
  ASSUME NEW c
  PROVE  /\ Tracks(c).source = Clipped(c, Mapped(CueLine, c.cues))
         /\ Tracks(c).effective = OrElse(Clipped(c, SpanLines(c)), Tracks(c).source)
         /\ Tracks(c).translated = Clipped(c, Mapped(CueLine, c.translated))
         /\ Tracks(c).displaySource = Clipped(c, SourceLines(c))
         /\ Tracks(c).displayTranslated = Clipped(c, TranslatedLines(c))
BY DEF Tracks, Mapped, SpanLines, SourceLines, TranslatedLines

LEMMA TracksAreGood ==
  ASSUME NEW c, Displayable(c)
  PROVE  TracksGood(c, Tracks(c))
<1>1. c.start \in Nat /\ c.end \in Nat
  BY DEF Displayable
<1>2. LinesOf(Mapped(CueLine, c.cues), Len(c.cues)) /\ Len(c.cues) \in Nat
  BY CueLinesAre DEF Displayable
<1>3. LinesOf(Mapped(CueLine, c.translated), Len(c.translated)) /\ Len(c.translated) \in Nat
  BY CueLinesAre DEF Displayable
<1>4. LinesOf(SpanLines(c), Len(c.spans)) /\ Len(c.spans) \in Nat
  BY SpanLinesAre
<1>5. /\ LinesOf(SourceLines(c), Len(c.units)) /\ LinesOf(TranslatedLines(c), Len(c.units))
      /\ Len(c.units) \in Nat
      /\ \A n \in 1..Len(c.units) : /\ SourceLines(c)[n].start = TranslatedLines(c)[n].start
                                    /\ SourceLines(c)[n].end = TranslatedLines(c)[n].end
  BY UnitLinesAre
<1> DEFINE a == Mapped(CueLine, c.cues)
           b == Mapped(CueLine, c.translated)
           d == Tracks(c)
<1>6. LinesOf(a, Len(c.cues)) /\ LinesOf(b, Len(c.translated))
  BY <1>2, <1>3
<1>7. /\ d.source = Clipped(c, a) /\ d.effective = OrElse(Clipped(c, SpanLines(c)), d.source)
      /\ d.translated = Clipped(c, b) /\ d.displaySource = Clipped(c, SourceLines(c))
      /\ d.displayTranslated = Clipped(c, TranslatedLines(c))
  BY TracksAre
<1> HIDE DEF a, b, d
<1>8. IsTrack(c, d.source)
  BY <1>1, <1>2, <1>6, <1>7, ClippedTrack
<1>9. IsTrack(c, d.translated)
  BY <1>1, <1>3, <1>6, <1>7, ClippedTrack
<1>10. \A x \in Range(d.effective) : InClip(c, x)
  <2>1. IsTrack(c, Clipped(c, SpanLines(c)))
    BY <1>1, <1>4, ClippedTrack
  <2> QED BY <1>7, <1>8, <2>1 DEF OrElse, IsTrack
<1>11. IsTrack(c, d.displaySource) /\ IsTrack(c, d.displayTranslated)
  BY <1>1, <1>5, <1>7, ClippedTrack
<1>12. DOMAIN d.displaySource = DOMAIN d.displayTranslated
  <2>1. DOMAIN Clipped(c, SourceLines(c)) = DOMAIN Clipped(c, TranslatedLines(c))
    BY <1>1, <1>5, ClippedAlike
  <2> QED BY <1>7, <2>1
<1> QED BY <1>8, <1>9, <1>10, <1>11, <1>12 DEF TracksGood, d

-----------------------------------------------------------------------------
(* What is written was checked.                                            *)
Checked(t, mode) ==
  (IF mode \in TranslatedModes THEN {} ELSE Range(CheckedSource(t, mode)))
    \cup (IF mode \in TranslatedModes \cup BilingualModes THEN Range(CheckedTranslation(t)) ELSE {})
WrittenFrom(lines, S) ==
  \A n \in DOMAIN lines : lines[n].source \in S /\ (lines[n].translation = None \/ lines[n].translation \in S)

LEMMA PairsAreFrom ==
  ASSUME NEW a, NEW b, DOMAIN a = DOMAIN b, NEW S, Range(a) \subseteq S, Range(b) \subseteq S
  PROVE  WrittenFrom(Pairs(a, b), S) /\ DOMAIN Pairs(a, b) = DOMAIN a
<1>1. \A n \in DOMAIN a : Pairs(a, b)[n].source = a[n] /\ Pairs(a, b)[n].translation = b[n]
  BY DEF Pairs
<1>2. DOMAIN Pairs(a, b) = DOMAIN a
  BY DEF Pairs
<1>3. \A n \in DOMAIN a : a[n] \in S /\ b[n] \in S
  BY DEF Range
<1> QED BY <1>1, <1>2, <1>3 DEF WrittenFrom

LEMMA SinglesAreFrom ==
  ASSUME NEW a, NEW S, Range(a) \subseteq S
  PROVE  WrittenFrom(Single(a), S)
<1>1. \A n \in DOMAIN a : Single(a)[n].source = a[n] /\ Single(a)[n].translation = None
  BY DEF Single
<1>2. DOMAIN Single(a) = DOMAIN a
  BY DEF Single
<1>3. \A n \in DOMAIN a : a[n] \in S
  BY DEF Range
<1> QED BY <1>1, <1>2, <1>3 DEF WrittenFrom

LEMMA EmptyTracks ==
  ASSUME NEW c, NEW t, TracksGood(c, t)
  PROVE  t.displaySource = <<>> <=> t.displayTranslated = <<>>
<1>1. Len(t.displaySource) = Len(t.displayTranslated)
  BY DEF TracksGood, IsTrack
<1> QED BY <1>1, EmptySeq DEF TracksGood, IsTrack

LEMMA WrittenIsChecked ==
  ASSUME NEW c, NEW t, TracksGood(c, t), NEW mode
  PROVE  WrittenFrom(ToWrite(t, mode), Checked(t, mode))
<1> DEFINE a == t.displaySource
           b == t.displayTranslated
           S == Checked(t, mode)
<1>1. a = <<>> <=> b = <<>>
  BY EmptyTracks
<1>2. DOMAIN a = DOMAIN b
  BY DEF TracksGood
<1>3. CASE mode \in BilingualModes
  <2>0. mode \notin TranslatedModes
    BY <1>3 DEF BilingualModes, TranslatedModes
  <2>1. S = Range(OrElse(a, t.source)) \cup Range(OrElse(b, t.translated))
    BY <1>3, <2>0 DEF Checked, CheckedSource, CheckedTranslation
  <2>2. CASE a # <<>>
    <3>1. S = Range(a) \cup Range(b) /\ ToWrite(t, mode) = Pairs(a, b)
      BY <1>1, <1>3, <2>1, <2>2 DEF OrElse, ToWrite
    <3> HIDE DEF a, b, S
    <3>2. Range(a) \subseteq S /\ Range(b) \subseteq S
      BY <3>1
    <3>3. WrittenFrom(Pairs(a, b), S)
      BY <1>2, <3>2, PairsAreFrom
    <3>4. WrittenFrom(ToWrite(t, mode), S)
      BY <3>1, <3>3
    <3> QED BY <3>4 DEF S
  <2>3. CASE a = <<>> /\ CanBePaired(t.source, t.translated)
    <3>1. /\ S = Range(t.source) \cup Range(t.translated)
          /\ ToWrite(t, mode) = Pairs(t.source, t.translated)
      BY <1>1, <1>3, <2>1, <2>3 DEF OrElse, ToWrite
    <3>2. DOMAIN t.source = DOMAIN t.translated
      BY <2>3 DEF CanBePaired, TracksGood, IsTrack
    <3> HIDE DEF S
    <3>3. Range(t.source) \subseteq S /\ Range(t.translated) \subseteq S
      BY <3>1
    <3>4. WrittenFrom(Pairs(t.source, t.translated), S)
      BY <3>2, <3>3, PairsAreFrom
    <3>5. WrittenFrom(ToWrite(t, mode), S)
      BY <3>1, <3>4
    <3> QED BY <3>5 DEF S
  <2>4. CASE a = <<>> /\ ~CanBePaired(t.source, t.translated)
    <3>1. ToWrite(t, mode) = <<>>
      BY <1>3, <2>4 DEF ToWrite
    <3> QED BY <3>1 DEF WrittenFrom
  <2> QED BY <2>2, <2>3, <2>4
<1>4. CASE mode \in TranslatedModes
  <2>0. mode \notin BilingualModes
    BY <1>4 DEF BilingualModes, TranslatedModes
  <2>1. S = Range(OrElse(b, t.translated)) /\ ToWrite(t, mode) = Single(OrElse(b, t.translated))
    BY <1>4, <2>0 DEF Checked, CheckedTranslation, ToWrite
  <2> HIDE DEF b, S
  <2>2. WrittenFrom(ToWrite(t, mode), S)
    BY <2>1, SinglesAreFrom
  <2> QED BY <2>2 DEF S
<1>5. CASE mode \notin TranslatedModes \cup BilingualModes
  <2>1. S = Range(OrElse(a, t.effective)) /\ ToWrite(t, mode) = Single(OrElse(a, t.effective))
    BY <1>5 DEF Checked, CheckedSource, ToWrite
  <2> HIDE DEF a, S
  <2>2. WrittenFrom(ToWrite(t, mode), S)
    BY <2>1, SinglesAreFrom
  <2> QED BY <2>2 DEF S
<1> QED BY <1>3, <1>4, <1>5

(* The result without an error: all the checks have passed.                *)
LEMMA ResultIs ==
  ASSUME NEW c, NEW spec, NEW host, spec.mode # "none", "error" \notin DOMAIN SubtitlesOf(c, spec, host)
  PROVE  /\ PassesReadability(c, spec.mode, spec.languages)
         /\ spec.mode \in TranslatedModes \cup BilingualModes =>
              HasProvenance(c, spec.providers) /\ CoversEachCue(c)
         /\ SubtitlesOf(c, spec, host).lines = ToWrite(Tracks(c), spec.mode)
         /\ ToWrite(Tracks(c), spec.mode) # <<>>
<1> DEFINE r == SubtitlesOf(c, spec, host)
<1>1. \A code : "error" \in DOMAIN Failure(code)
  BY DEF Failure
<1>2. PreflightSubtitles(c, spec) = None
  BY <1>1 DEF SubtitlesOf
<1>3. r = RenderSubtitles(c, spec, host)
  BY <1>2 DEF SubtitlesOf
<1>4. /\ PassesReadability(c, spec.mode, spec.languages)
      /\ spec.mode \in TranslatedModes \cup BilingualModes =>
           HasProvenance(c, spec.providers) /\ CoversEachCue(c)
  BY <1>2, NoneIsNoRefusal DEF PreflightSubtitles
<1> DEFINE lines == ToWrite(Tracks(c), spec.mode)
<1>5. lines # <<>>
  BY <1>1, <1>3 DEF RenderSubtitles
<1>6. r \in {[lines |-> lines, backend |-> None], [lines |-> lines, backend |-> Backend(host)]}
  BY <1>1, <1>3, <1>5 DEF RenderSubtitles
<1> HIDE DEF lines
<1>7. r.lines = lines
  BY <1>6
<1> QED BY <1>4, <1>5, <1>7 DEF lines

CanBeRead(c, x) ==
  /\ 0 <= x.start /\ x.start < x.end /\ x.end <= Lasts(c)
  /\ Lasts(x) <= LongestCue
  /\ x.chars <= Larger(FastChinese, FastEnglish) * Lasts(x)
  /\ x.chinese => x.chars <= FastChinese * Lasts(x)

LEMMA ReadableLines ==
  ASSUME NEW c, NEW language, NEW track, Readable(language, track),
         \A x \in Range(track) : InClip(c, x)
  PROVE  \A x \in Range(track) : CanBeRead(c, x)
<1> SUFFICES ASSUME NEW x \in Range(track) PROVE CanBeRead(c, x)
  OBVIOUS
<1>1. /\ x.start \in Nat /\ x.end \in Nat /\ x.chars \in Int
      /\ x.start < x.end /\ x.end <= Lasts(c)
  BY DEF InClip
<1>2. Lasts(x) <= LongestCue /\ x.chars <= SpeedLimit(language, x) * Lasts(x)
  BY DEF Readable
<1>3. Lasts(x) \in Nat
  BY <1>1 DEF Lasts
<1> DEFINE l == Lasts(x)
           big == Larger(FastChinese, FastEnglish)
<1>4. /\ big \in Nat /\ FastChinese <= big /\ FastEnglish <= big
      /\ FastChinese \in Nat /\ FastEnglish \in Nat
  BY SpeedConstants DEF Larger
<1>5. x.chars <= FastChinese * l \/ (~x.chinese /\ x.chars <= FastEnglish * l)
  BY <1>2 DEF SpeedLimit
<1>6. l \in Nat
  BY <1>3
<1> HIDE DEF l, big
<1>7. FastChinese * l <= big * l /\ FastEnglish * l <= big * l
  BY <1>4, <1>6, TimesMonotone
<1>8. FastChinese * l \in Nat /\ FastEnglish * l \in Nat /\ big * l \in Nat
  BY <1>4, <1>6
<1>9. x.chars <= big * l
  BY <1>1, <1>5, <1>7, <1>8
<1> QED BY <1>1, <1>2, <1>5, <1>9 DEF CanBeRead, l, big

LEMMA ShownCanBeRead ==
  ASSUME NEW c, Displayable(c), NEW spec, NEW host, spec.mode # "none",
         "error" \notin DOMAIN SubtitlesOf(c, spec, host)
  PROVE  LET lines == SubtitlesOf(c, spec, host).lines IN
         \A n \in DOMAIN lines : /\ CanBeRead(c, lines[n].source)
                                 /\ lines[n].translation = None \/ CanBeRead(c, lines[n].translation)
<1> DEFINE t == Tracks(c)
           mode == spec.mode
           source == CheckedSource(t, mode)
           translation == CheckedTranslation(t)
<1>1. TracksGood(c, t)
  BY TracksAreGood
<1>2. /\ mode \notin TranslatedModes => Readable(SourceLanguage(c, spec.languages.source), source)
      /\ mode \in TranslatedModes \cup BilingualModes =>
           Readable(TranslationLanguage(c, spec.languages.translation), translation)
  BY ResultIs DEF PassesReadability
<1>3. /\ \A x \in Range(source) : InClip(c, x)
      /\ \A x \in Range(translation) : InClip(c, x)
  BY <1>1 DEF CheckedSource, CheckedTranslation, OrElse, TracksGood, IsTrack
<1> HIDE DEF source, translation
<1>4. mode \notin TranslatedModes => \A x \in Range(source) : CanBeRead(c, x)
  BY <1>2, <1>3, ReadableLines
<1>5. mode \in TranslatedModes \cup BilingualModes => \A x \in Range(translation) : CanBeRead(c, x)
  BY <1>2, <1>3, ReadableLines
<1>6. \A x \in Checked(t, mode) : CanBeRead(c, x)
  BY <1>4, <1>5 DEF Checked, source, translation
<1>7. WrittenFrom(ToWrite(t, mode), Checked(t, mode))
  BY <1>1, WrittenIsChecked
<1>8. SubtitlesOf(c, spec, host).lines = ToWrite(t, mode)
  BY ResultIs
<1> QED BY <1>6, <1>7, <1>8 DEF WrittenFrom

-----------------------------------------------------------------------------
(* Display units that cover the cues of a clip: each cue in one line.      *)
CuesOfUnits(c) == [n \in 1..Len(c.units) |-> Range(c.units[n].cues)]

LEMMA UnitsShareNoCue ==
  ASSUME NEW c, Displayable(c), ValidCandidate(c), CoversEachCue(c)
  PROVE  /\ Together(CuesOfUnits(c), Len(c.units)) = {x.id : x \in Range(c.cues)}
         /\ \A k, l \in 1..Len(c.units) : k # l => CuesOfUnits(c)[k] \cap CuesOfUnits(c)[l] = {}
<1> DEFINE N == Len(c.units)
           R == CuesOfUnits(c)
           sizes == [n \in DOMAIN c.units |-> Len(c.units[n].cues)]
           ids == [n \in DOMAIN c.cues |-> c.cues[n].id]
<1>1. /\ DOMAIN c.units = 1..N /\ N \in Nat /\ Range(c.units) = {c.units[n] : n \in 1..N}
      /\ \A n \in 1..N : c.units[n].cues \in Seq(Range(c.units[n].cues))
  <2>1. c.units \in Seq(Range(c.units)) /\ \A u \in Range(c.units) : u.cues \in Seq(Range(u.cues))
    BY DEF Displayable, ValidDisplay
  <2>2. DOMAIN c.units = 1..N /\ N \in Nat
    BY <2>1, LenProperties
  <2>3. Range(c.units) = {c.units[n] : n \in 1..N}
    BY <2>2 DEF Range
  <2> QED BY <2>1, <2>2, <2>3
<1>2. \A n \in 1..N : R[n] = Range(c.units[n].cues) /\ sizes[n] = Len(c.units[n].cues)
  BY <1>1 DEF CuesOfUnits
<1>3. DOMAIN c.cues = 1..Len(c.cues) /\ Len(c.cues) \in Nat
  BY LenProperties DEF Displayable
<1>4. ids = [n \in 1..Len(c.cues) |-> ids[n]]
  BY <1>3
<1>5. Range(ids) = {x.id : x \in Range(c.cues)}
  BY DEF Range
<1>6. \A k, l \in DOMAIN c.cues : c.cues[k].id = c.cues[l].id => k = l
  BY DEF ValidCandidate, ValidCues, DistinctBy
<1>7. \A k, l \in 1..Len(c.cues) : ids[k] = ids[l] => k = l
  BY <1>3, <1>6
<1> HIDE DEF ids
<1>8. Cardinality(Range(ids)) = Len(c.cues)
  <2>1. ids \in Seq(Range(ids)) /\ Len(ids) = Len(c.cues)
    BY <1>3, <1>4, FunctionIsSeq
  <2> QED BY <1>7, <2>1, RangeCounted
<1>9. Together(R, N) = {x.id : x \in Range(c.cues)}
  <2>1. UNION {Range(u.cues) : u \in Range(c.units)} = {x.id : x \in Range(c.cues)}
    BY DEF CoversEachCue
  <2> HIDE DEF R, N
  <2>2. ASSUME NEW id PROVE (\E n \in 1..N : id \in R[n]) <=> \E u \in Range(c.units) : id \in Range(u.cues)
    <3>1. ASSUME NEW n \in 1..N, id \in R[n] PROVE \E u \in Range(c.units) : id \in Range(u.cues)
      BY <1>1, <1>2, <3>1
    <3>2. ASSUME NEW u \in Range(c.units), id \in Range(u.cues) PROVE \E n \in 1..N : id \in R[n]
      BY <1>1, <1>2, <3>2
    <3> QED BY <3>1, <3>2
  <2>3. Together(R, N) = UNION {Range(u.cues) : u \in Range(c.units)}
    BY <2>2 DEF Together
  <2> QED BY <2>1, <2>3
<1>10. SumOf(sizes) = Len(c.cues)
  BY DEF CoversEachCue
<1>11. \A n \in 1..N : /\ sizes[n] \in Nat
                       /\ IsFiniteSet(R[n]) /\ Cardinality(R[n]) <= sizes[n]
  BY <1>1, <1>2, RangeCounted, LenProperties
<1>12. sizes \in Seq(Nat) /\ Len(sizes) = N
  <2>1. sizes \in [1..N -> Nat]
    BY <1>1, <1>11
  <2> HIDE DEF sizes, N
  <2>2. \A n \in Nat : \A g \in [1..n -> Nat] : g \in Seq(Nat) /\ Len(g) = n
    OBVIOUS
  <2> QED BY <1>1, <2>1, <2>2
<1> HIDE DEF sizes, R, N
<1>13. Cardinality(Together(R, Len(sizes))) = SumOf(sizes)
  BY <1>5, <1>8, <1>9, <1>10, <1>12
<1>14. \A k, l \in 1..Len(sizes) : k # l => R[k] \cap R[l] = {}
  <2>1. \A k \in 1..Len(sizes) : IsFiniteSet(R[k]) /\ Cardinality(R[k]) <= sizes[k]
    BY <1>11, <1>12
  <2> QED BY <1>12, <1>13, <2>1, CountedOnce
<1> QED BY <1>9, <1>12, <1>14 DEF R, N

(* Nothing of the units is cut away.                                       *)
AlikeUnits(c, lines) ==
  /\ LinesOf(lines, Len(c.units))
  /\ \A n \in 1..Len(c.units) : /\ lines[n].start = c.units[n].start /\ lines[n].end = c.units[n].end
                                /\ lines[n].for = Range(c.units[n].cues)

LEMMA UnitsAreKept ==
  ASSUME NEW c, Displayable(c), ValidCandidate(c), NEW lines, AlikeUnits(c, lines)
  PROVE  Kept(c, lines, Len(c.units)) = 1..Len(c.units)
<1> SUFFICES ASSUME NEW n \in 1..Len(c.units)
             PROVE  Shifted(c, lines[n]).end > Shifted(c, lines[n]).start
  BY DEF Kept
<1> DEFINE u == c.units[n]
           x == lines[n]
<1>1. u \in Range(c.units)
  BY LenProperties DEF Displayable, Range
<1>2. Overlaps(u, c) /\ ForSomeTime(u) /\ c.end > c.start
  BY <1>1 DEF Displayable, ValidDisplay, ValidCandidate, ValidUnits, ValidUnit
<1>3. IsLine(x) /\ x.start = u.start /\ x.end = u.end
  BY DEF AlikeUnits, LinesOf
<1>4. c.start \in Nat /\ c.end \in Nat
  BY DEF Displayable
<1> HIDE DEF u, x
<1>5. /\ Shifted(c, x).start = (IF x.start >= c.start THEN x.start ELSE c.start) - c.start
      /\ Shifted(c, x).end = (IF x.end <= c.end THEN x.end ELSE c.end) - c.start
  BY <1>3, <1>4, ShiftedIs
<1>6. Shifted(c, x).end > Shifted(c, x).start
  BY <1>2, <1>3, <1>4, <1>5 DEF Overlaps, ForSomeTime
<1> QED BY <1>6 DEF x

LEMMA OneLineForEach ==
  ASSUME NEW c, Displayable(c), ValidCandidate(c), CoversEachCue(c),
         NEW lines, AlikeUnits(c, lines), NEW cue \in Range(c.cues)
  PROVE  LET t == Clipped(c, lines) IN Cardinality({n \in DOMAIN t : cue.id \in t[n].for}) = 1
<1> DEFINE N == Len(c.units)
           R == CuesOfUnits(c)
           t == Clipped(c, lines)
           p == Places(c, lines, N)
<1>1. N \in Nat /\ LinesOf(lines, N) /\ c.start \in Nat /\ c.end \in Nat
  BY LenProperties DEF AlikeUnits, Displayable
<1>2. Kept(c, lines, N) = 1..N
  BY UnitsAreKept
<1>3. /\ Together(R, N) = {x.id : x \in Range(c.cues)}
      /\ \A k, l \in 1..N : k # l => R[k] \cap R[l] = {}
  BY UnitsShareNoCue
<1>4. \A n \in 1..N : R[n] = lines[n].for
  BY DEF CuesOfUnits, AlikeUnits
<1>5. ClippedFrom(c, lines, N, t, p)
  BY <1>1, ClippedIs
<1> HIDE DEF N, R, t, p
<1>6. /\ p \in Seq(1..N) /\ Len(t) = Len(p) /\ DOMAIN t = 1..Len(p) /\ Len(p) \in Nat
      /\ \A k, l \in 1..Len(p) : k < l => p[k] < p[l]
      /\ \A m \in 1..N : \E k \in 1..Len(p) : p[k] = m
      /\ \A k \in 1..Len(p) : p[k] \in 1..N /\ t[k] = Shifted(c, lines[p[k]])
  BY <1>2, <1>5 DEF ClippedFrom, AllInOrder
<1>7. \A k \in 1..Len(p) : t[k].for = R[p[k]]
  <2> SUFFICES ASSUME NEW k \in 1..Len(p) PROVE t[k].for = R[p[k]]
    OBVIOUS
  <2>1. p[k] \in 1..N /\ t[k] = Shifted(c, lines[p[k]]) /\ IsLine(lines[p[k]])
    BY <1>1, <1>6 DEF LinesOf
  <2>2. t[k].for = lines[p[k]].for
    BY <1>1, <2>1, ShiftedIs
  <2> QED BY <1>4, <2>1, <2>2
<1>8. PICK m \in 1..N : cue.id \in R[m]
  BY <1>3 DEF Together
<1>9. PICK j \in 1..Len(p) : p[j] = m
  BY <1>6
<1>10. \A k \in 1..Len(p) : cue.id \in R[p[k]] => p[k] = m
  BY <1>3, <1>6, <1>8
<1>11. \A k \in 1..Len(p) : p[k] = m => k = j
  <2> SUFFICES ASSUME NEW k \in 1..Len(p), p[k] = m, k # j PROVE FALSE
    OBVIOUS
  <2>1. p[k] \in Int /\ k \in Int /\ j \in Int
    BY <1>1, <1>6
  <2>2. k < j \/ j < k
    BY <2>1
  <2> QED BY <1>6, <1>9, <2>1, <2>2
<1>12. {n \in DOMAIN t : cue.id \in t[n].for} = {j}
  BY <1>6, <1>7, <1>8, <1>9, <1>10, <1>11
<1>13. Cardinality({j}) = 1
  BY FS_Singleton
<1> QED BY <1>12, <1>13 DEF t

LEMMA EachCueInOneLine ==
  ASSUME NEW c, Displayable(c), c.units # <<>> => ValidCandidate(c),
         NEW spec, NEW host, spec.mode \in TranslatedModes \cup BilingualModes,
         "error" \notin DOMAIN SubtitlesOf(c, spec, host), NEW cue \in Range(c.cues)
  PROVE  LET lines == SubtitlesOf(c, spec, host).lines IN
         Cardinality({n \in DOMAIN lines : cue.id \in lines[n].source.for}) = 1
<1> DEFINE t == Tracks(c)
           lines == ToWrite(t, spec.mode)
           a == t.displaySource
           b == t.displayTranslated
<1>0. spec.mode # "none"
  BY DEF TranslatedModes, BilingualModes
<1>1. SubtitlesOf(c, spec, host).lines = lines /\ c.units # <<>> /\ CoversEachCue(c)
  BY <1>0, ResultIs DEF HasProvenance
<1>2. ValidCandidate(c)
  BY <1>1
<1>3. AlikeUnits(c, SourceLines(c))
  BY UnitLinesAre DEF AlikeUnits
<1>4. AlikeUnits(c, TranslatedLines(c))
  <2>1. \A n \in 1..Len(c.units) : TranslatedLines(c)[n].for = Range(c.units[n].cues)
    BY UnitLinesAre DEF TranslatedLines, TranslatedLine, Line
  <2> QED BY <2>1, UnitLinesAre DEF AlikeUnits
<1>5. a = Clipped(c, SourceLines(c)) /\ b = Clipped(c, TranslatedLines(c))
  BY TracksAre
<1>6. /\ Cardinality({n \in DOMAIN a : cue.id \in a[n].for}) = 1
      /\ Cardinality({n \in DOMAIN b : cue.id \in b[n].for}) = 1
  BY <1>1, <1>2, <1>3, <1>4, <1>5, OneLineForEach
<1>7. a # <<>> /\ b # <<>>
  <2>1. Cardinality({}) = 0
    BY FS_EmptySet
  <2>2. ASSUME NEW s, NEW A, A = {n \in DOMAIN s : cue.id \in s[n].for}, Cardinality(A) = 1 PROVE s # <<>>
    <3> SUFFICES ASSUME s = <<>> PROVE FALSE
      OBVIOUS
    <3>1. A = {}
      BY <2>2
    <3>2. Cardinality(A) = 1
      BY <2>2
    <3>3. Cardinality(A) = Cardinality({})
      BY <3>1
    <3> QED BY <2>1, <3>2, <3>3
  <2> HIDE DEF a, b
  <2> QED BY <1>6, <2>2
<1> DEFINE shows == {n \in DOMAIN lines : cue.id \in lines[n].source.for}
<1>8. CASE spec.mode \in BilingualModes
  <2>1. lines = Pairs(a, b)
    BY <1>7, <1>8 DEF ToWrite
  <2> HIDE DEF lines, a, b
  <2>2. DOMAIN lines = DOMAIN a /\ \A n \in DOMAIN a : lines[n].source = a[n]
    BY <2>1 DEF Pairs
  <2>3. shows = {n \in DOMAIN a : cue.id \in a[n].for}
    BY <2>2
  <2> QED BY <1>1, <1>6, <2>3
<1>9. CASE spec.mode \in TranslatedModes
  <2>1. lines = Single(b)
    BY <1>7, <1>9 DEF ToWrite, TranslatedModes, BilingualModes, OrElse
  <2> HIDE DEF lines, a, b
  <2>2. DOMAIN lines = DOMAIN b /\ \A n \in DOMAIN b : lines[n].source = b[n]
    BY <2>1 DEF Single
  <2>3. shows = {n \in DOMAIN b : cue.id \in b[n].for}
    BY <2>2
  <2> QED BY <1>1, <1>6, <2>3
<1> QED BY <1>8, <1>9

-----------------------------------------------------------------------------
(* What is planned of a lecture can be displayed.                          *)
LectureClip(c) ==
  /\ {"start", "end", "cues", "translated", "spans", "units"} \subseteq DOMAIN c
  /\ Displayable(c) /\ c.units = <<>>
Clips(s) == s \in Seq(Range(s)) /\ \A c \in Range(s) : LectureClip(c)
CanBeShown(c) == Displayable(c) /\ (c.units # <<>> => ValidCandidate(c))

LEMMA NoneOfNone ==
  ASSUME NEW I
  PROVE  Those(<<>>, I) = <<>>
<1>1. <<>> \in Seq({}) /\ Len(<<>>) = 0
  OBVIOUS
<1>2. Those(<<>>, I) \in Seq({})
  BY <1>1, ThoseFacts
<1> QED BY <1>2, EmptySeq

LEMMA TheseAre ==
  ASSUME NEW s, s \in Seq(Range(s)), NEW I
  PROVE  Those(s, I) \in Seq(Range(Those(s, I))) /\ \A x \in Range(Those(s, I)) : x \in Range(s)
<1> DEFINE t == Those(s, I)
<1>1. t \in Seq(Range(s))
  BY ThoseFacts
<1> HIDE DEF t
<1>2. DOMAIN t = 1..Len(t) /\ Len(t) \in Nat /\ t = [k \in 1..Len(t) |-> t[k]]
      /\ \A k \in 1..Len(t) : t[k] \in Range(s)
  BY <1>1, LenProperties
<1>3. t \in Seq(Range(t))
  BY <1>2, FunctionIsSeq
<1>4. \A x \in Range(t) : x \in Range(s)
  BY <1>2 DEF Range
<1> QED BY <1>3, <1>4 DEF t

LEMMA ClipOf ==
  ASSUME NEW d, {"start", "end", "cues", "translated", "spans", "units"} \subseteq DOMAIN d,
         d.start \in Nat, d.end \in Nat, d.translated = <<>>, d.units = <<>>,
         d.cues \in Seq(Range(d.cues)), \A x \in Range(d.cues) : ValidCue(x),
         d.spans \in Seq(Range(d.spans)), \A x \in Range(d.spans) : ValidText(x)
  PROVE  LectureClip(d)
<1>1. <<>> \in Seq(Range(<<>>)) /\ \A x \in Range(<<>>) : FALSE
  BY DEF Range
<1> QED BY <1>1 DEF LectureClip, Displayable

LEMMA SegmentIsClip ==
  ASSUME NEW cue, ValidCue(cue)
  PROVE  LectureClip(SegmentCandidate(cue))
<1> DEFINE d == SegmentCandidate(cue)
<1>1. /\ {"start", "end", "cues", "translated", "spans", "units"} \subseteq DOMAIN d
      /\ d.start = cue.start /\ d.end = cue.end /\ d.translated = <<>> /\ d.units = <<>>
      /\ d.cues = <<cue>> /\ d.spans = <<>>
  BY DEF SegmentCandidate
<1> HIDE DEF d
<1>2. cue.start \in Nat /\ cue.end \in Nat
  BY DEF ValidCue, ForSomeTime
<1>3. <<cue>> \in Seq(Range(<<cue>>)) /\ Range(<<cue>>) = {cue}
  BY DEF Range
<1>4. <<>> \in Seq(Range(<<>>)) /\ \A x \in Range(<<>>) : FALSE
  BY DEF Range
<1>5. LectureClip(d)
  BY <1>1, <1>2, <1>3, <1>4, ClipOf
<1> QED BY <1>5 DEF d

(* The spans of a lecture.                                                 *)
LEMMA FragmentsAreTimed ==
  ASSUME NEW cues, LectureCues(cues), NEW f \in AllFragments(cues)
  PROVE  /\ f.start \in Nat /\ f.end \in Nat
         /\ f.piece.size \in Nat /\ f.piece.stutters \in Nat /\ IsFiniteSet(f.piece.says)
<1>1. PICK n \in 1..Len(cues) : f \in Range(FragmentsOf(cues[n]))
  BY DEF AllFragments
<1> DEFINE cue == cues[n]
<1>2. ValidCue(cue)
  <2>1. cue \in Range(cues)
    BY CueFacts
  <2> QED BY <2>1 DEF LectureCues, InOrder, ValidCue
<1>3. f \in Range(FragmentsOf(cue))
  BY <1>1
<1> HIDE DEF cue
<1>4. /\ cue.pieces \in Seq(Range(cue.pieces))
      /\ \A p \in Range(cue.pieces) :
           p.size \in Nat /\ p.stutters \in Nat /\ IsFiniteSet(p.says)
  BY <1>2 DEF ValidCue, SaysSomething
<1>5. PICK k \in 1..Len(cue.pieces) :
        f = [piece |-> cue.pieces[k], cue |-> cue.id, nth |-> k,
             start |-> At(cue, k - 1), end |-> At(cue, k)]
  BY <1>3, <1>4, FragmentsFacts
<1>6. f.start = At(cue, k - 1) /\ f.end = At(cue, k) /\ f.piece = cue.pieces[k]
  BY <1>5
<1>7. k - 1 \in 0..Len(cue.pieces) /\ k \in 0..Len(cue.pieces) /\ cue.pieces[k] \in Range(cue.pieces)
  BY <1>4, LenProperties DEF Range
<1>8. At(cue, k - 1) \in Nat /\ At(cue, k) \in Nat
  BY <1>2, <1>7, AtFacts
<1> QED BY <1>4, <1>6, <1>7, <1>8

LEMMA SpansAreTexts ==
  ASSUME NEW cues, LectureCues(cues), SemanticSourceSpans(cues).valid
  PROVE  LET spans == SemanticSourceSpans(cues).spans IN
         /\ spans \in Seq(Range(spans)) /\ Len(spans) \in Nat /\ DOMAIN spans = 1..Len(spans)
         /\ \A s \in Range(spans) : ValidText(s)
<1> DEFINE G == Grouped(cues)
           C == AllFragments(cues)
           M == Len(G)
           spans == SemanticSourceSpans(cues).spans
<1>1. G \in Seq(Seq(C)) /\ \A p \in 1..M : G[p] \in Seq(C) /\ G[p] # <<>>
  BY GroupedIs DEF AllClosed, Closed, Grown
<1>2. DOMAIN G = 1..M /\ M \in Nat
  BY <1>1, LenProperties
<1>3. spans = [n \in 1..M |-> SpanOfText(G[n])]
  BY <1>2 DEF SemanticSourceSpans
<1>4. \A s \in Range(spans) : ValidSpan(s)
  BY DEF SemanticSourceSpans
<1> HIDE DEF G, M, spans
<1>5. spans \in Seq(Range(spans)) /\ Len(spans) = M /\ DOMAIN spans = 1..M
  <2>1. spans = [n \in 1..M |-> spans[n]] /\ DOMAIN spans = 1..M
    BY <1>3
  <2> QED BY <1>2, <2>1, FunctionIsSeq
<1>6. ASSUME NEW n \in 1..M PROVE ValidText(spans[n])
  <2> DEFINE g == G[n]
             s == spans[n]
  <2>1. g \in Seq(C) /\ g # <<>> /\ s = SpanOfText(g)
    BY <1>1, <1>3
  <2>2. ValidSpan(s)
    BY <1>4, <1>5 DEF Range
  <2> HIDE DEF g, s, C
  <2>3. /\ DOMAIN g = 1..Len(g) /\ Len(g) \in Nat \ {0} /\ \A k \in 1..Len(g) : g[k] \in C
        /\ g = [k \in 1..Len(g) |-> g[k]]
    BY <2>1, LenProperties, EmptySeq, ElementOfSeq
  <2>4. g \in Seq(Range(g)) /\ \A f \in Range(g) : f \in C
    BY <2>3, FunctionIsSeq DEF Range
  <2>5. s.text = g /\ s.start = g[1].start /\ s.end = g[Len(g)].end
    BY <2>1 DEF SpanOfText, Last
  <2>6. \A f \in C : /\ f.start \in Nat /\ f.end \in Nat
                      /\ f.piece.size \in Nat /\ f.piece.stutters \in Nat /\ IsFiniteSet(f.piece.says)
    BY FragmentsAreTimed DEF C
  <2>7. s.start \in Nat /\ s.end \in Nat
    BY <2>3, <2>5, <2>6
  <2>8. s.start < s.end
    BY <2>2, <2>7 DEF ValidSpan
  <2>9. ValidText(s)
    BY <2>4, <2>5, <2>6, <2>7, <2>8 DEF ValidText, ForSomeTime
  <2> QED BY <2>9 DEF s
<1>7. \A s \in Range(spans) : ValidText(s)
  BY <1>5, <1>6 DEF Range
<1> QED BY <1>2, <1>5, <1>7 DEF spans

(* The proposals.                                                          *)
LEMMA ProposedIsClip ==
  ASSUME NEW cues, LectureCues(cues), NEW spans, spans \in Seq(Range(spans)),
         \A s \in Range(spans) : ValidText(s), NEW n \in 1..Len(spans), NEW w \in Around(spans, n)
  PROVE  LectureClip(Proposed(cues, spans, n, w))
<1> DEFINE window == SubSeq(spans, w.first, w.last)
           covered == UNION {s.cues : s \in Range(window)}
           these == Those(cues, {k \in DOMAIN cues : cues[k].id \in covered})
           d == Proposed(cues, spans, n, w)
<1>1. /\ {"start", "end", "cues", "translated", "spans", "units"} \subseteq DOMAIN d
      /\ d.start = window[1].start /\ d.end = Last(window).end /\ d.translated = <<>>
      /\ d.units = <<>> /\ d.cues = these /\ d.spans = window
  BY DEF Proposed, Bare
<1>2. /\ w.first \in 1..Len(spans) /\ w.last \in 1..Len(spans) /\ w.first <= w.last
      /\ Len(spans) \in Nat
  BY LenProperties DEF Around
<1>3. \A k \in 1..Len(spans) : spans[k] \in Range(spans)
  BY LenProperties DEF Range
<1>4. \A k \in w.first..w.last : spans[k] \in Range(spans)
  BY <1>2, <1>3
<1>5. /\ window \in Seq(Range(spans)) /\ Len(window) = w.last - w.first + 1
  BY <1>2, <1>4, SubSeqProperties
<1> HIDE DEF window, d
<1>6. these \in Seq(Range(these)) /\ \A x \in Range(these) : x \in Range(cues)
  BY CueFacts, TheseAre
<1> HIDE DEF these
<1>7. \A x \in Range(these) : ValidCue(x)
  BY <1>6 DEF LectureCues, InOrder, ValidCue
<1>8. /\ Len(window) \in Nat \ {0} /\ DOMAIN window = 1..Len(window)
      /\ window = [k \in 1..Len(window) |-> window[k]]
      /\ \A k \in 1..Len(window) : window[k] \in Range(spans)
  BY <1>2, <1>5, LenProperties
<1>9. window \in Seq(Range(window)) /\ \A x \in Range(window) : ValidText(x)
  <2>1. \A x \in Range(window) : x \in Range(spans)
    BY <1>8 DEF Range
  <2>2. window \in Seq(Range(window))
    BY <1>8, FunctionIsSeq
  <2> QED BY <2>1, <2>2
<1>10. window[1].start \in Nat /\ Last(window).end \in Nat
  <2>1. \A s \in Range(spans) : s.start \in Nat /\ s.end \in Nat
    BY DEF ValidText, ForSomeTime
  <2>2. 1 \in 1..Len(window) /\ Len(window) \in 1..Len(window)
    BY <1>8
  <2> QED BY <1>8, <2>1, <2>2 DEF Last
<1>11. LectureClip(d)
  BY <1>1, <1>6, <1>7, <1>9, <1>10, ClipOf
<1> QED BY <1>11 DEF d

LEMMA ProposedAreClips ==
  ASSUME NEW cues, LectureCues(cues), NEW heard0, heard0 = SemanticSourceSpans(cues), heard0.valid
  PROVE  Clips(ProposedFrom(cues, heard0.spans, WindowsOf(heard0.spans)))
<1> DEFINE spans == heard0.spans
           windows == WindowsOf(spans)
           all == [n \in DOMAIN spans |-> Proposed(cues, spans, n, windows[n])]
           I == {n \in DOMAIN spans : HasStructure(all[n])}
<1>1. /\ spans \in Seq(Range(spans)) /\ Len(spans) \in Nat /\ DOMAIN spans = 1..Len(spans)
      /\ \A s \in Range(spans) : ValidText(s)
  BY SpansAreTexts
<1>2. ProposedFrom(cues, spans, windows) = Those(all, I)
  BY DEF ProposedFrom
<1> HIDE DEF spans, I
<1>3. ASSUME NEW n \in 1..Len(spans) PROVE LectureClip(all[n])
  <2>1. windows[n] = Window(spans, n)
    BY <1>1 DEF WindowsOf
  <2>2. Window(spans, n) \in Around(spans, n)
    BY <1>1, WindowIsWhole
  <2>3. LectureClip(Proposed(cues, spans, n, Window(spans, n)))
    BY <1>1, <2>2, ProposedIsClip
  <2>4. all[n] = Proposed(cues, spans, n, windows[n])
    BY <1>1
  <2> QED BY <2>1, <2>3, <2>4
<1>4. all = [n \in 1..Len(spans) |-> all[n]]
  BY <1>1
<1> HIDE DEF all
<1>5. all \in Seq(Range(all)) /\ \A x \in Range(all) : LectureClip(x)
  <2>1. \A x \in Range(all) : LectureClip(x)
    BY <1>3, <1>4 DEF Range
  <2> QED BY <1>1, <1>4, <2>1, FunctionIsSeq
<1>6. Clips(Those(all, I))
  BY <1>5, TheseAre DEF Clips
<1> QED BY <1>2, <1>6 DEF spans

(* A part of one that is too long.                                         *)
LEMMA PartIsClip ==
  ASSUME NEW c, LectureClip(c), NEW groups, NEW n, groups[n] \in NonEmpty(Range(c.cues))
  PROVE  LectureClip(PartOf(c, groups, n))
<1> DEFINE g == groups[n]
           p == PartOf(c, groups, n)
           I == {k \in DOMAIN c.units : /\ c.units[k].start >= g[1].start
                                        /\ c.units[k].end <= Last(g).end}
<1>1. {"start", "end", "cues", "translated", "spans", "units"} \subseteq DOMAIN c
      /\ Displayable(c) /\ c.units = <<>>
  BY DEF LectureClip
<1>2. DOMAIN p = DOMAIN c /\ p.start = g[1].start /\ p.end = Last(g).end /\ p.cues = g
      /\ p.translated = c.translated /\ p.spans = c.spans /\ p.units = Those(c.units, I)
  BY <1>1 DEF PartOf
<1> HIDE DEF p, I
<1>3. p.units = <<>>
  BY <1>1, <1>2, NoneOfNone
<1>4. g \in Seq(Range(c.cues)) /\ g # <<>>
  BY DEF NonEmpty
<1> HIDE DEF g
<1>5. /\ Len(g) \in Nat \ {0} /\ DOMAIN g = 1..Len(g) /\ g = [k \in 1..Len(g) |-> g[k]]
      /\ \A k \in 1..Len(g) : g[k] \in Range(c.cues)
  BY <1>4, LenProperties, EmptySeq
<1>6. \A x \in Range(c.cues) : ValidCue(x)
  BY <1>1 DEF Displayable
<1>7. g \in Seq(Range(g)) /\ \A x \in Range(g) : ValidCue(x)
  BY <1>5, <1>6, FunctionIsSeq DEF Range
<1>8. g[1].start \in Nat /\ Last(g).end \in Nat
  BY <1>5, <1>6 DEF ValidCue, ForSomeTime, Last
<1>9. Displayable(p)
  BY <1>1, <1>2, <1>3, <1>7, <1>8 DEF Displayable
<1>10. LectureClip(p)
  BY <1>1, <1>2, <1>3, <1>9 DEF LectureClip
<1> QED BY <1>10 DEF p

LEMMA PreparedIsClip ==
  ASSUME NEW c, LectureClip(c), NEW p, LectureClip(p), NEW whole
  PROVE  LectureClip(PreparedPart(c, p, whole))
<1> DEFINE I(x) == {k \in DOMAIN c.spans : /\ c.spans[k].start >= x.start
                                           /\ c.spans[k].end <= x.end}
           r == [p EXCEPT !.total = whole, !.profile = p.id,
                 !.words = @ + 3, !.stutters = IF p.index = whole THEN @ + 5 ELSE @,
                 !.snapshot = UNION {TopicsOf(CueText(x)) : x \in Range(p.cues)}]
           q == PartTexts(c, r)
           d == PreparedPart(c, p, whole)
<1>1. d = [q EXCEPT !.signals = SignalsIn(TextsOf(q), q.evidence)]
  BY DEF PreparedPart
<1>2. q = [r EXCEPT !.spans = Those(c.spans, I(r))]
  BY DEF PartTexts
<1> HIDE DEF I, q, d
<1>3. /\ {"start", "end", "cues", "translated", "spans", "units"} \subseteq DOMAIN p
      /\ Displayable(p) /\ p.units = <<>> /\ Displayable(c)
  BY DEF LectureClip
<1>4. /\ DOMAIN r = DOMAIN p /\ r.start = p.start /\ r.end = p.end /\ r.cues = p.cues
      /\ r.translated = p.translated /\ r.units = p.units
  BY <1>3
<1> HIDE DEF r
<1>5. /\ DOMAIN q = DOMAIN r /\ q.start = r.start /\ q.end = r.end /\ q.cues = r.cues
      /\ q.translated = r.translated /\ q.units = r.units /\ q.spans = Those(c.spans, I(r))
  BY <1>2, <1>3, <1>4
<1>6. /\ DOMAIN d = DOMAIN q /\ d.start = q.start /\ d.end = q.end /\ d.cues = q.cues
      /\ d.translated = q.translated /\ d.units = q.units /\ d.spans = q.spans
  BY <1>1, <1>3, <1>4, <1>5
<1>7. d.spans \in Seq(Range(d.spans)) /\ \A x \in Range(d.spans) : ValidText(x)
  <2>1. c.spans \in Seq(Range(c.spans)) /\ \A x \in Range(c.spans) : ValidText(x)
    BY <1>3 DEF Displayable
  <2> QED BY <1>5, <1>6, <2>1, TheseAre
<1>8. Displayable(d)
  BY <1>3, <1>4, <1>5, <1>6, <1>7 DEF Displayable
<1>9. LectureClip(d)
  BY <1>3, <1>4, <1>5, <1>6, <1>8 DEF LectureClip
<1> QED BY <1>9 DEF d

LEMMA OneClip ==
  ASSUME NEW c, LectureClip(c)
  PROVE  Clips(<<c>>)
<1>1. <<c>> \in Seq(Range(<<c>>)) /\ Range(<<c>>) = {c}
  BY DEF Range
<1> QED BY <1>1 DEF Clips

LEMMA SplitIsClips ==
  ASSUME NEW c, LectureClip(c)
  PROVE  Clips(SplitCandidate(c))
<1> DEFINE C == Range(c.cues)
           cues == CuesWithin(c)
           groups == CueGroups(cues)
           parts == PartsOf(c, groups)
<1>1. c.cues \in Seq(C)
  BY DEF LectureClip, Displayable
<1>2. groups \in Seq(NonEmpty(C))
  BY <1>1, CuesWithinAreSequences, CueGroupsAreOfCues DEF GroupsOf
<1>3. SplitCandidate(c) \in {<<c>>, parts}
  BY DEF SplitCandidate
<1> HIDE DEF C, groups
<1>4. DOMAIN groups = 1..Len(groups) /\ Len(groups) \in Nat
      /\ \A n \in 1..Len(groups) : groups[n] \in NonEmpty(C)
  BY <1>2, LenProperties
<1>5. parts = [n \in 1..Len(groups) |-> PartOf(c, groups, n)]
  BY <1>4 DEF PartsOf
<1> HIDE DEF parts
<1>6. \A n \in 1..Len(groups) : LectureClip(PartOf(c, groups, n))
  BY <1>4, PartIsClip DEF C
<1>7. Clips(parts)
  <2>1. parts = [n \in 1..Len(groups) |-> parts[n]]
    BY <1>5
  <2>2. \A x \in Range(parts) : LectureClip(x)
    BY <1>5, <1>6 DEF Range
  <2> QED BY <1>4, <2>1, <2>2, FunctionIsSeq DEF Clips
<1> QED BY <1>3, <1>7, OneClip

LEMMA PreparedAreClips ==
  ASSUME NEW c, LectureClip(c)
  PROVE  Clips(PrepareDuration(c))
<1> DEFINE parts == SplitCandidate(c)
           made == [n \in DOMAIN parts |-> PreparedPart(c, parts[n], Len(parts))]
           longer == [c EXCEPT !.extended = TRUE]
<1>1. PrepareDuration(c) \in {<<c>>, <<longer>>, made}
  BY DEF PrepareDuration
<1>2. LectureClip(longer)
  <2>1. /\ {"start", "end", "cues", "translated", "spans", "units"} \subseteq DOMAIN c
        /\ Displayable(c) /\ c.units = <<>>
    BY DEF LectureClip
  <2>2. DOMAIN longer = DOMAIN c /\ longer.start = c.start /\ longer.end = c.end
        /\ longer.cues = c.cues /\ longer.translated = c.translated /\ longer.spans = c.spans
        /\ longer.units = c.units
    BY <2>1
  <2> HIDE DEF longer
  <2>3. Displayable(longer)
    BY <2>1, <2>2 DEF Displayable
  <2> QED BY <2>1, <2>2, <2>3 DEF LectureClip
<1>3. Clips(parts)
  BY SplitIsClips
<1> HIDE DEF parts, longer
<1>4. DOMAIN parts = 1..Len(parts) /\ Len(parts) \in Nat
      /\ \A n \in 1..Len(parts) : LectureClip(parts[n])
  BY <1>3, LenProperties DEF Clips, Range
<1>5. \A n \in 1..Len(parts) : LectureClip(PreparedPart(c, parts[n], Len(parts)))
  BY <1>4, PreparedIsClip
<1>6. made = [n \in 1..Len(parts) |-> PreparedPart(c, parts[n], Len(parts))]
  BY <1>4
<1> HIDE DEF made
<1>7. Clips(made)
  <2>1. made = [n \in 1..Len(parts) |-> made[n]]
    BY <1>6
  <2>2. \A x \in Range(made) : LectureClip(x)
    BY <1>5, <1>6 DEF Range
  <2> QED BY <1>4, <2>1, <2>2, FunctionIsSeq DEF Clips
<1> QED BY <1>1, <1>2, <1>7, OneClip

LEMMA FlattenOf ==
  ASSUME NEW seqs, NEW N \in Nat, seqs = [n \in 1..N |-> seqs[n]],
         \A n \in 1..N : seqs[n] \in Seq(Range(seqs[n]))
  PROVE  FlattenSeq(seqs) \in Seq(UNION {Range(seqs[n]) : n \in 1..N})
<1> DEFINE U == UNION {Range(seqs[n]) : n \in 1..N}
<1>1. ASSUME NEW n \in 1..N PROVE seqs[n] \in Seq(U)
  <2>1. Range(seqs[n]) \subseteq U /\ seqs[n] \in Seq(Range(seqs[n]))
    OBVIOUS
  <2> HIDE DEF U
  <2> QED BY <2>1, SeqMonotonic
<1> HIDE DEF U
<1>2. seqs \in Seq(Seq(U)) /\ Len(seqs) = N
  <2>1. seqs \in [1..N -> Seq(U)]
    BY <1>1
  <2>2. \A S : \A f \in [1..N -> S] : f \in Seq(S) /\ Len(f) = N
    OBVIOUS
  <2> QED BY <2>1, <2>2
<1>3. CASE N = 0
  <2>1. seqs = <<>>
    BY <1>2, <1>3, EmptySeq
  <2>2. FlattenSeq(<<>>) = <<>>
    BY DEF FlattenSeq
  <2>3. FlattenSeq(seqs) = <<>> /\ <<>> \in Seq(U)
    BY <2>1, <2>2, EmptySeq, Zenon
  <2> QED BY <2>3 DEF U
<1>4. CASE N # 0
  <2>1. FlattenSeq(seqs) \in Seq(U)
    BY <1>2, <1>4, FlattenIsOf DEF FlatUpTo
  <2> QED BY <2>1 DEF U
<1> QED BY <1>3, <1>4

LEMMA AllPreparedAreClips ==
  ASSUME NEW candidates, Clips(candidates)
  PROVE  Clips(PrepareAll(candidates))
<1> DEFINE N == Len(candidates)
           seqs == [n \in DOMAIN candidates |-> PrepareDuration(candidates[n])]
           U == UNION {Range(seqs[n]) : n \in 1..N}
           t == FlattenSeq(seqs)
<1>1. DOMAIN candidates = 1..N /\ N \in Nat /\ \A n \in 1..N : LectureClip(candidates[n])
  BY LenProperties DEF Clips, Range
<1>2. PrepareAll(candidates) = t
  BY DEF PrepareAll
<1>3. \A n \in 1..N : Clips(seqs[n])
  BY <1>1, PreparedAreClips
<1>4. seqs = [n \in 1..N |-> seqs[n]]
  BY <1>1
<1> HIDE DEF seqs, N
<1>5. \A n \in 1..N : seqs[n] \in Seq(Range(seqs[n]))
  BY <1>3 DEF Clips
<1>6. t \in Seq(U)
  BY <1>1, <1>4, <1>5, FlattenOf
<1>7. \A x \in U : LectureClip(x)
  BY <1>3 DEF Clips
<1> HIDE DEF t, U
<1>8. DOMAIN t = 1..Len(t) /\ Len(t) \in Nat /\ t = [k \in 1..Len(t) |-> t[k]]
      /\ \A k \in 1..Len(t) : t[k] \in U
  BY <1>6, LenProperties
<1>9. Clips(t)
  <2>1. \A x \in Range(t) : LectureClip(x)
    BY <1>7, <1>8 DEF Range
  <2> QED BY <1>8, <2>1, FunctionIsSeq DEF Clips
<1> QED BY <1>2, <1>9 DEF t

LEMMA PlansAreOfClips ==
  ASSUME NEW p, NEW made, made = CutPlan(p), "error" \notin DOMAIN made
  PROVE  made = p
BY DEF CutPlan, Failure

LEMMA EducationalClips ==
  ASSUME NEW cues, NEW lasts, NEW found, NEW request,
         "error" \notin DOMAIN CreateEducationalPlan(cues, lasts, found, request)
  PROVE  /\ CreateEducationalPlan(cues, lasts, found, request).candidates = PrepareAll(found.candidates)
         /\ found.valid
<1> DEFINE made == CreateEducationalPlan(cues, lasts, found, request)
           prepared == PrepareAll(found.candidates)
           chosen == SelectForRequest(prepared, request)
           p == [candidates |-> prepared, lasts |-> lasts, segments |-> {x.id : x \in Range(cues)},
                 selected |-> [id \in {c.id : c \in Range(prepared)} |-> id \in Range(chosen.ids)]]
<1>1. \/ made = Failure("ValueError")
      \/ made = EducationalPlan(cues, lasts, prepared, request) /\ found.valid
  BY DEF CreateEducationalPlan
<1>2. EducationalPlan(cues, lasts, prepared, request) = CutPlan(p)
  BY DEF EducationalPlan, PlanOver
<1>3. p.candidates = prepared
  OBVIOUS
<1>4. "error" \in DOMAIN Failure("ValueError")
  BY DEF Failure
<1> HIDE DEF made, p, prepared
<1>5. "error" \notin DOMAIN made
  BY DEF made
<1>6. made = CutPlan(p) /\ found.valid
  BY <1>1, <1>2, <1>4, <1>5
<1>7. made.candidates = prepared
  BY <1>3, <1>5, <1>6, PlansAreOfClips
<1> QED BY <1>6, <1>7 DEF made, prepared

LEMMA TranscriptClips ==
  ASSUME NEW cues, LectureCues(cues), NEW lasts, "error" \notin DOMAIN TranscriptToPlan(cues, lasts)
  PROVE  Clips(TranscriptToPlan(cues, lasts).candidates)
<1> DEFINE made == TranscriptToPlan(cues, lasts)
           candidates == [n \in DOMAIN cues |-> SegmentCandidate(cues[n])]
           p == [candidates |-> candidates, lasts |-> lasts, segments |-> {x.id : x \in Range(cues)},
                 selected |-> [id \in {c.id : c \in Range(candidates)} |->
                                \E c \in Range(candidates) : c.id = id /\ SelectsSegment(c)]]
<1>1. made = CutPlan(p) /\ p.candidates = candidates
  BY DEF TranscriptToPlan, PlanOver
<1> HIDE DEF made, p
<1>2. "error" \notin DOMAIN made
  BY DEF made
<1>3. made.candidates = candidates
  BY <1>1, <1>2, PlansAreOfClips
<1>4. DOMAIN cues = 1..Len(cues) /\ Len(cues) \in Nat /\ \A n \in 1..Len(cues) : ValidCue(cues[n])
  BY CueFacts DEF LectureCues, InOrder, ValidCue
<1>5. candidates = [n \in 1..Len(cues) |-> SegmentCandidate(cues[n])]
  BY <1>4
<1>6. \A n \in 1..Len(cues) : LectureClip(SegmentCandidate(cues[n]))
  BY <1>4, SegmentIsClip
<1> HIDE DEF candidates
<1>7. Clips(candidates)
  <2>1. candidates = [n \in 1..Len(cues) |-> candidates[n]]
    BY <1>5
  <2>2. \A x \in Range(candidates) : LectureClip(x)
    BY <1>5, <1>6 DEF Range
  <2> QED BY <1>4, <2>1, <2>2, FunctionIsSeq DEF Clips
<1> QED BY <1>3, <1>7 DEF made

-----------------------------------------------------------------------------
(* What is proposed and planned of a lecture, and what is shown of a clip. *)
ShownFrom(s) ==
  s # None => CanBeShown(s.clip) /\ \E host : s.result = SubtitlesOf(s.clip, s.spec, host)
ShownInv ==
  /\ input \in Inputs
  /\ input.kind = "lecture" =>
       /\ heard # None => heard = SemanticSourceSpans(input.cues)
       /\ proposed # None => Clips(proposed.candidates)
       /\ Made(plan) => Clips(plan.made.candidates)
  /\ ShownFrom(shown)

LEMMA GivenClipsAreShown ==
  ASSUME NEW i \in Inputs, i.kind = "clip"
  PROVE  CanBeShown(i.clip)
<1> DEFINE c == i.clip
<1>1. /\ ForSomeTime(c) /\ ValidCandidate(c)
      /\ c.cues \in Seq({x \in Range(c.cues) : ValidCue(x)})
      /\ c.translated \in Seq({x \in Range(c.translated) : ValidCue(x)})
      /\ c.spans \in Seq({s \in Range(c.spans) : ValidText(s)})
      /\ c.units \in Seq({u \in Range(c.units) : ValidDisplay(u)})
  BY ClipConstants
<1> HIDE DEF c
<1>2. ASSUME NEW s, NEW S, S \subseteq Range(s), s \in Seq(S)
      PROVE  s \in Seq(Range(s)) /\ \A x \in Range(s) : x \in S
  <2>1. \A k \in DOMAIN s : s[k] \in S
    BY <1>2, LenProperties
  <2>2. s \in Seq(Range(s))
    BY <1>2, SeqMonotonic
  <2> QED BY <2>1, <2>2 DEF Range
<1>3. c.cues \in Seq(Range(c.cues)) /\ \A x \in Range(c.cues) : ValidCue(x)
  BY <1>1, <1>2
<1>4. c.translated \in Seq(Range(c.translated)) /\ \A x \in Range(c.translated) : ValidCue(x)
  BY <1>1, <1>2
<1>5. c.spans \in Seq(Range(c.spans)) /\ \A x \in Range(c.spans) : ValidText(x)
  BY <1>1, <1>2
<1>6. c.units \in Seq(Range(c.units)) /\ \A x \in Range(c.units) : ValidDisplay(x)
  BY <1>1, <1>2
<1>7. CanBeShown(c)
  BY <1>1, <1>3, <1>4, <1>5, <1>6 DEF CanBeShown, Displayable, ForSomeTime
<1> QED BY <1>7 DEF c

LEMMA ShownStep ==
  ASSUME ShownInv, [LibraryNext]_libraryVars
  PROVE  ShownInv'
<1>0. /\ input \in Inputs /\ ShownFrom(shown)
      /\ input.kind = "lecture" => LectureCues(input.cues)
      /\ input.kind = "lecture" =>
           /\ heard # None => heard = SemanticSourceSpans(input.cues)
           /\ proposed # None => Clips(proposed.candidates)
           /\ Made(plan) => Clips(plan.made.candidates)
  BY LectureConstants DEF ShownInv, LectureCues
<1>1. ASSUME ReadLecture PROVE ShownInv'
  <2>1. /\ input' = input /\ proposed' = proposed /\ plan' = plan /\ shown' = shown
        /\ heard' = SemanticSourceSpans(input.cues)
    BY <1>1 DEF ReadLecture
  <2>2. ShownFrom(shown)' /\ (Made(plan)' <=> Made(plan))
    BY <1>0, <2>1 DEF Made
  <2> QED BY <1>0, <2>1, <2>2 DEF ShownInv
<1>2. ASSUME ProposeEducational PROVE ShownInv'
  <2>1. input.kind = "lecture" /\ heard # None
        /\ input' = input /\ heard' = heard /\ plan' = plan /\ shown' = shown
    BY <1>2 DEF ProposeEducational
  <2>w. PICK windows \in {IF heard.valid THEN WindowsOf(heard.spans) ELSE <<>>} :
          \E valid \in {heard.valid /\ CanPropose(input.cues, heard.spans, windows)} :
            proposed' = [windows |-> windows, valid |-> valid,
                         candidates |-> IF valid
                           THEN ProposedFrom(input.cues, heard.spans, windows) ELSE <<>>]
    BY <1>2, Zenon DEF ProposeEducational
  <2>2. PICK valid \in {heard.valid /\ CanPropose(input.cues, heard.spans, windows)} :
          proposed' = [windows |-> windows, valid |-> valid,
                       candidates |-> IF valid
                         THEN ProposedFrom(input.cues, heard.spans, windows) ELSE <<>>]
    BY <2>w, Zenon
  <2>3. ASSUME heard.valid PROVE Clips(ProposedFrom(input.cues, heard.spans, windows))
    <3>1. windows = WindowsOf(heard.spans) /\ heard = SemanticSourceSpans(input.cues)
      BY <1>0, <2>1, <2>w, <2>3
    <3>2. Clips(ProposedFrom(input.cues, heard.spans, WindowsOf(heard.spans)))
      BY <1>0, <2>1, <2>3, <3>1, ProposedAreClips
    <3> QED BY <3>1, <3>2
  <2>4. Clips(<<>>)
    BY DEF Clips, Range
  <2>5. /\ proposed'.candidates = IF valid THEN ProposedFrom(input.cues, heard.spans, windows)
                                  ELSE <<>>
        /\ valid => heard.valid
    BY <2>2
  <2>6. Clips(proposed'.candidates)
    BY <2>3, <2>4, <2>5
  <2>7. ShownFrom(shown)' /\ (Made(plan)' <=> Made(plan))
    BY <1>0, <2>1 DEF Made
  <2> QED BY <1>0, <2>1, <2>6, <2>7 DEF ShownInv
<1>3. ASSUME NEW said \in Sayings, PlanEducational(said) PROVE ShownInv'
  <2>1. /\ input.kind = "lecture" /\ proposed # None
        /\ input' = input /\ heard' = heard /\ proposed' = proposed /\ shown' = shown
    BY <1>3 DEF PlanEducational
  <2>2. PICK request \in {Request(said.said, said.topics)} :
          plan' = [request |-> request,
                   made |-> CreateEducationalPlan(input.cues, input.lasts, proposed, request)]
    BY <1>3 DEF PlanEducational
  <2>3. plan'.made = CreateEducationalPlan(input.cues, input.lasts, proposed, request)
    BY <2>2
  <2>4. Clips(PrepareAll(proposed.candidates))
    BY <1>0, <2>1, AllPreparedAreClips
  <2>5. Made(plan)' => Clips(plan'.made.candidates)
    <3> SUFFICES ASSUME Made(plan)' PROVE Clips(plan'.made.candidates)
      OBVIOUS
    <3>1. "error" \notin DOMAIN plan'.made
      BY DEF Made
    <3>2. plan'.made.candidates = PrepareAll(proposed.candidates)
      BY <2>3, <3>1, EducationalClips
    <3> QED BY <2>4, <3>2
  <2>6. ShownFrom(shown)'
    BY <1>0, <2>1
  <2> QED BY <1>0, <2>1, <2>5, <2>6 DEF ShownInv
<1>4. ASSUME CreatePlan PROVE ShownInv'
  <2>1. /\ input.kind = "lecture"
        /\ input' = input /\ heard' = heard /\ proposed' = proposed /\ shown' = shown
        /\ plan'.made = TranscriptToPlan(input.cues, input.lasts)
    BY <1>4 DEF CreatePlan
  <2>2. Made(plan)' => Clips(plan'.made.candidates)
    <3> SUFFICES ASSUME Made(plan)' PROVE Clips(plan'.made.candidates)
      OBVIOUS
    <3>1. "error" \notin DOMAIN plan'.made
      BY DEF Made
    <3> QED BY <1>0, <2>1, <3>1, TranscriptClips
  <2>3. ShownFrom(shown)'
    BY <1>0, <2>1
  <2> QED BY <1>0, <2>1, <2>2, <2>3 DEF ShownInv
<1>5. ASSUME NEW c \in ClipsToShow, NEW spec \in SubtitleSpecs, NEW host \in Hosts,
             ProcessSubtitles(c, spec, host)
      PROVE  ShownInv'
  <2>1. /\ input' = input /\ heard' = heard /\ proposed' = proposed /\ plan' = plan
        /\ shown' = [clip |-> c, spec |-> spec, result |-> SubtitlesOf(c, spec, host)]
    BY <1>5 DEF ProcessSubtitles
  <2>2. CanBeShown(c)
    <3>1. CASE input.kind = "clip"
      BY <1>0, <3>1, GivenClipsAreShown DEF ClipsToShow
    <3>2. CASE input.kind # "clip"
      <4>1. input.kind = "lecture" /\ Made(plan) /\ c \in Range(plan.made.candidates)
        BY <3>2 DEF ClipsToShow
      <4>2. LectureClip(c)
        BY <1>0, <4>1 DEF Clips
      <4> QED BY <4>2 DEF LectureClip, CanBeShown
    <3> QED BY <3>1, <3>2
  <2>3. /\ shown'.clip = c /\ shown'.spec = spec /\ shown'.result = SubtitlesOf(c, spec, host)
    BY <2>1
  <2>4. ShownFrom(shown')
    BY <2>2, <2>3 DEF ShownFrom
  <2>5. Made(plan)' <=> Made(plan)
    BY <2>1 DEF Made
  <2> QED BY <1>0, <2>1, <2>4, <2>5 DEF ShownInv
<1>6. ASSUME input.kind # "lecture", input' = input, shown' = shown PROVE ShownInv'
  BY <1>0, <1>6 DEF ShownInv
<1>7. ASSUME UNCHANGED <<input, heard, proposed, plan, shown>> PROVE ShownInv'
  <2>1. ShownFrom(shown)' /\ (Made(plan)' <=> Made(plan))
    BY <1>0, <1>7 DEF Made
  <2> QED BY <1>0, <1>7, <2>1 DEF ShownInv
<1>8. ASSUME DetectSports \/ ProposeSports PROVE ShownInv'
  BY <1>6, <1>8 DEF DetectSports, ProposeSports
<1>9. ASSUME NEW said \in SportsSayings, PlanSports(said) PROVE ShownInv'
  <2>1. input.kind \in {"game", "commentary"} /\ input' = input /\ shown' = shown
    BY <1>9 DEF PlanSports
  <2> QED BY <1>6, <2>1
<1>10. ASSUME \/ \E frame \in Frames : Reframe(frame)
              \/ \E spec \in Resolutions : Resize(spec)
              \/ \E layout \in Layouts : LayOut(layout)
              \/ UNCHANGED libraryVars
       PROVE  ShownInv'
  BY <1>7, <1>10 DEF Reframe, Resize, LayOut, libraryVars
<1> QED BY <1>1, <1>2, <1>3, <1>4, <1>5, <1>8, <1>9, <1>10 DEF LibraryNext

LEMMA ShownStart == LibraryInit => ShownInv
BY DEF LibraryInit, ShownInv, ShownFrom, Made

(* The lines that are written are those that were checked: each lies in    *)
(* the clip and can be read in its time.                                   *)
THEOREM WrittenWasChecked == LibraryInit /\ [][LibraryNext]_libraryVars => []ShownWasChecked
<1>1. ShownInv /\ [LibraryNext]_libraryVars => ShownInv'
  BY ShownStep
<1>2. ShownInv => ShownWasChecked
  <2> SUFFICES ASSUME ShownInv, Showing, NEW x \in Lines PROVE CanBeRead(shown.clip, x)
    BY DEF ShownWasChecked, CanBeRead
  <2> DEFINE c == shown.clip
             lines == shown.result.lines
  <2>1. PICK host : shown.result = SubtitlesOf(c, shown.spec, host)
    BY DEF ShownInv, ShownFrom, Showing
  <2>2. Displayable(c) /\ shown.spec.mode # "none" /\ "error" \notin DOMAIN shown.result
    BY DEF ShownInv, ShownFrom, Showing, CanBeShown
  <2>3. \A n \in DOMAIN lines : /\ CanBeRead(c, lines[n].source)
                                /\ lines[n].translation = None \/ CanBeRead(c, lines[n].translation)
    BY <2>1, <2>2, ShownCanBeRead
  <2>4. \/ \E p \in Range(lines) : x = p.source
        \/ x # None /\ \E p \in Range(lines) : x = p.translation
    BY DEF Lines
  <2> HIDE DEF lines, c
  <2>5. \A p \in Range(lines) : \E n \in DOMAIN lines : p = lines[n]
    BY DEF Range
  <2>6. CanBeRead(c, x)
    BY <2>3, <2>4, <2>5
  <2> QED BY <2>6 DEF c
<1> QED BY <1>1, <1>2, ShownStart, PTL

(* With a translation in the subtitles, each cue is in exactly one line.   *)
THEOREM CuesAreShownOnce == LibraryInit /\ [][LibraryNext]_libraryVars => []EveryCueIsShown
<1>1. ShownInv /\ [LibraryNext]_libraryVars => ShownInv'
  BY ShownStep
<1>2. ShownInv => EveryCueIsShown
  <2> SUFFICES ASSUME ShownInv, Showing, shown.spec.mode \in TranslatedModes \cup BilingualModes,
                      NEW cue \in Range(shown.clip.cues)
               PROVE  Cardinality({n \in DOMAIN shown.result.lines :
                                     cue.id \in shown.result.lines[n].source.for}) = 1
    BY DEF EveryCueIsShown
  <2>1. PICK host : shown.result = SubtitlesOf(shown.clip, shown.spec, host)
    BY DEF ShownInv, ShownFrom, Showing
  <2>2. "error" \notin DOMAIN SubtitlesOf(shown.clip, shown.spec, host)
    BY <2>1 DEF ShownInv, ShownFrom, Showing, CanBeShown
  <2>3. Displayable(shown.clip) /\ (shown.clip.units # <<>> => ValidCandidate(shown.clip))
    BY <2>1 DEF ShownInv, ShownFrom, Showing, CanBeShown
  <2> DEFINE lines == SubtitlesOf(shown.clip, shown.spec, host).lines
  <2>4. Cardinality({n \in DOMAIN lines : cue.id \in lines[n].source.for}) = 1
    BY <2>2, <2>3, EachCueInOneLine
  <2>5. shown.result.lines = lines
    BY <2>1
  <2> HIDE DEF lines
  <2> QED BY <2>4, <2>5
<1> QED BY <1>1, <1>2, ShownStart, PTL
-----------------------------------------------------------------------------
(* The candidates of a plan can be validated again.                        *)
Fields == {"id", "start", "end", "evidence", "cues", "translated", "spans", "units", "records",
           "signals", "profile", "event", "series", "index", "total"}
Plain(c) ==   \* of a lecture: neither translated nor of an event
  /\ Fields \subseteq DOMAIN c /\ ForSomeTime(c)
  /\ c.translated = <<>> /\ c.units = <<>> /\ c.records = <<>> /\ c.event = None

LEMMA CuesAreValid ==
  ASSUME NEW c, NEW cues
  PROVE  ValidCues(c, cues) <=> /\ \A i, j \in DOMAIN cues : cues[i].id = cues[j].id => i = j
                                /\ \A x \in Range(cues) : Overlaps(x, c)
BY DEF ValidCues, DistinctBy

LEMMA PlainIsValid ==
  ASSUME NEW c, Plain(c), ValidCues(c, c.cues), ValidSpans(c), ValidSignals(c), ValidSeries(c)
  PROVE  ValidCandidate(c)
<1>1. DOMAIN <<>> = {} /\ Range(<<>>) = {}
  BY DEF Range
<1>2. ValidCues(c, c.translated)
  BY <1>1, CuesAreValid DEF Plain
<1>3. ValidUnits(c)
  BY <1>1 DEF Plain, ValidUnits, StartsInOrder
<1>4. ValidRecords(c)
  BY <1>1 DEF Plain, ValidRecords, DistinctBy
<1>5. ValidEvent(c)
  BY DEF Plain, ValidEvent
<1>6. c.end > c.start
  BY DEF Plain, ForSomeTime
<1> QED BY <1>2, <1>3, <1>4, <1>5, <1>6 DEF ValidCandidate

LEMMA SpansStayValid ==
  ASSUME NEW c, NEW d, d.spans = c.spans, d.cues = c.cues, d.start = c.start, ValidSpans(c)
  PROVE  ValidSpans(d)
BY DEF ValidSpans, Known, Covered

LEMMA CuesStayValid ==
  ASSUME NEW c, NEW d, d.start = c.start, d.end = c.end, NEW cues, ValidCues(c, cues)
  PROVE  ValidCues(d, cues)
BY CuesAreValid DEF Overlaps

(* A signal has the time of a text it was found in.                        *)
LEMMA SignalsAreOfTexts ==
  ASSUME NEW texts, NEW refs, NEW s \in SignalsIn(texts, refs)
  PROVE  s.refs = refs /\ \E n \in DOMAIN texts : s.start = texts[n].start /\ s.end = texts[n].end
BY DEF SignalsIn

LEMMA TextsAreWithin ==
  ASSUME NEW q, q.start \in Nat, q.end \in Nat,
         \A s \in Range(q.spans) : /\ {"start", "end"} \subseteq DOMAIN s /\ ForSomeTime(s)
                                   /\ q.start <= s.start /\ s.end <= q.end,
         \A x \in Range(q.cues) : Overlaps(x, q)
  PROVE  \A n \in DOMAIN TextsOf(q) : Overlaps(TextsOf(q)[n], q)
<1>1. CASE q.spans # <<>>
  <2>1. TextsOf(q) = [n \in DOMAIN q.spans |-> [q.spans[n] EXCEPT !.cues = {}]]
    BY <1>1 DEF TextsOf
  <2> SUFFICES ASSUME NEW n \in DOMAIN q.spans PROVE Overlaps(TextsOf(q)[n], q)
    BY <2>1
  <2>2. q.spans[n] \in Range(q.spans)
    BY DEF Range
  <2>3. TextsOf(q)[n] = [q.spans[n] EXCEPT !.cues = {}]
    BY <2>1
  <2>4. TextsOf(q)[n].start = q.spans[n].start /\ TextsOf(q)[n].end = q.spans[n].end
    BY <2>2, <2>3
  <2> QED BY <2>2, <2>4 DEF Overlaps, ForSomeTime
<1>2. CASE q.spans = <<>>
  <2>1. TextsOf(q) = [n \in DOMAIN q.cues |->
                        [text |-> CueText(q.cues[n]), start |-> q.cues[n].start,
                         end |-> q.cues[n].end, cues |-> {}]]
    BY <1>2 DEF TextsOf
  <2> QED BY <2>1 DEF Overlaps, Range
<1> QED BY <1>1, <1>2

(* What is known of a proposal, and of a part of it.                       *)
Rising(s) == \A k, l \in 1..Len(s) : k <= l => s[k].start <= s[l].start
Sound(c) ==
  /\ Plain(c) /\ ValidCandidate(c) /\ c.id \in Seq(Nat) /\ c.series = None /\ c.index = None
  /\ c.cues \in Seq(Range(c.cues)) /\ Sorted(c.cues) /\ \A x \in Range(c.cues) : ForSomeTime(x)
  /\ c.spans \in Seq(Range(c.spans)) /\ Rising(c.spans)
  /\ \A s \in Range(c.spans) :
       /\ {"start", "end"} \subseteq DOMAIN s /\ ForSomeTime(s)
       /\ \A x \in Range(c.cues) : x.id \in s.cues => Overlaps(x, s)
GoodPart(c, p, whole) ==
  /\ Plain(p) /\ ValidCues(p, p.cues)
  /\ (p.series = None <=> p.index = None) /\ (p.index # None => p.index <= whole)
  /\ \A s \in Range(c.spans) : p.start <= s.start /\ s.end <= p.end =>
       Known(p, s.cues) /\ Covered(p, s.cues) = Covered(c, s.cues)

(* The elements at some places are in the order of these.                  *)
InThatOrder(t, s, I) ==
  /\ Len(t) \in Nat /\ DOMAIN t = 1..Len(t)
  /\ \A k \in 1..Len(t) : \E m \in 1..Len(s) : m \in I /\ t[k] = s[m]
  /\ \A k, l \in 1..Len(t) : k < l => \E m, n \in 1..Len(s) : m < n /\ t[k] = s[m] /\ t[l] = s[n]

LEMMA ThoseAre ==
  ASSUME NEW s, s \in Seq(Range(s)), NEW I
  PROVE  InThatOrder(Those(s, I), s, I)
<1> DEFINE t == Those(s, I)
           a == Increasing(I, Len(s))
           S == Range(s)
<1> HIDE DEF S
<1>0. s \in Seq(S)
  BY DEF S
<1>1. /\ AllInOrder(a, I, Len(s)) /\ t \in Seq(S) /\ Len(t) = Len(a)
      /\ \A k \in 1..Len(t) : a[k] \in 1..Len(s) /\ t[k] = s[a[k]]
  BY <1>0, ThoseFacts
<1> HIDE DEF t, a
<1>2. Len(t) \in Nat /\ DOMAIN t = 1..Len(t)
  BY <1>1, LenProperties
<1>3. /\ \A k \in 1..Len(t) : a[k] \in I
      /\ \A k, l \in 1..Len(t) : k < l => a[k] < a[l]
  BY <1>1 DEF AllInOrder
<1>4. \A k \in 1..Len(t) : \E m \in 1..Len(s) : m \in I /\ t[k] = s[m]
  BY <1>1, <1>3
<1>5. ASSUME NEW k \in 1..Len(t), NEW l \in 1..Len(t), k < l
      PROVE  \E m, n \in 1..Len(s) : m < n /\ t[k] = s[m] /\ t[l] = s[n]
  <2>1. a[k] \in 1..Len(s) /\ t[k] = s[a[k]] /\ a[l] \in 1..Len(s) /\ t[l] = s[a[l]]
    BY <1>1
  <2>2. a[k] < a[l]
    BY <1>3, <1>5
  <2> QED BY <2>1, <2>2
<1>6. InThatOrder(t, s, I)
  BY <1>2, <1>4, <1>5 DEF InThatOrder
<1> QED BY <1>6 DEF t

LEMMA PreparedIsValid ==
  ASSUME NEW c, Sound(c), NEW p, NEW whole, GoodPart(c, p, whole)
  PROVE  ValidCandidate(PreparedPart(c, p, whole))
<1> DEFINE I(x) == {k \in DOMAIN c.spans : /\ c.spans[k].start >= x.start
                                           /\ c.spans[k].end <= x.end}
           r == [p EXCEPT !.total = whole, !.profile = p.id,
                 !.words = @ + 3, !.stutters = IF p.index = whole THEN @ + 5 ELSE @,
                 !.snapshot = UNION {TopicsOf(CueText(x)) : x \in Range(p.cues)}]
           q == PartTexts(c, r)
           d == PreparedPart(c, p, whole)
           kept == Those(c.spans, I(r))
<1>1. d = [q EXCEPT !.signals = SignalsIn(TextsOf(q), q.evidence)]
  BY DEF PreparedPart
<1>2. q = [r EXCEPT !.spans = kept]
  BY DEF PartTexts
<1> HIDE DEF q, d
<1>3. /\ Fields \subseteq DOMAIN p /\ ForSomeTime(p)
      /\ p.translated = <<>> /\ p.units = <<>> /\ p.records = <<>> /\ p.event = None
  BY DEF GoodPart, Plain
<1>4. /\ DOMAIN r = DOMAIN p /\ r.start = p.start /\ r.end = p.end /\ r.cues = p.cues
      /\ r.translated = p.translated /\ r.units = p.units /\ r.records = p.records
      /\ r.id = p.id /\ r.event = p.event /\ r.series = p.series /\ r.index = p.index
      /\ r.total = whole /\ r.profile = p.id
  BY <1>3 DEF Fields
<1> HIDE DEF r, kept
<1>5. /\ DOMAIN q = DOMAIN p /\ q.start = p.start /\ q.end = p.end /\ q.cues = p.cues
      /\ q.translated = p.translated /\ q.units = p.units /\ q.records = p.records
      /\ q.id = p.id /\ q.event = p.event /\ q.series = p.series /\ q.index = p.index
      /\ q.total = whole /\ q.profile = p.id /\ q.spans = kept
  BY <1>2, <1>3, <1>4 DEF Fields
<1>6. /\ DOMAIN d = DOMAIN p /\ d.start = p.start /\ d.end = p.end /\ d.cues = p.cues
      /\ d.translated = p.translated /\ d.units = p.units /\ d.records = p.records
      /\ d.id = p.id /\ d.event = p.event /\ d.series = p.series /\ d.index = p.index
      /\ d.total = whole /\ d.profile = p.id /\ d.spans = kept /\ d.evidence = q.evidence
      /\ d.signals = SignalsIn(TextsOf(q), q.evidence)
  BY <1>1, <1>3, <1>5 DEF Fields
<1>7. Plain(d)
  BY <1>3, <1>6 DEF Plain, ForSomeTime
<1>8. ValidCues(d, d.cues)
  BY <1>6, CuesStayValid DEF GoodPart
<1>9. /\ c.spans \in Seq(Range(c.spans)) /\ Len(c.spans) \in Nat /\ DOMAIN c.spans = 1..Len(c.spans)
  BY LenProperties DEF Sound
<1>10. /\ Len(kept) \in Nat /\ DOMAIN kept = 1..Len(kept)
       /\ \A k \in 1..Len(kept) : \E m \in 1..Len(c.spans) :
            /\ kept[k] = c.spans[m] /\ c.spans[m].start >= p.start /\ c.spans[m].end <= p.end
       /\ \A k, l \in 1..Len(kept) : k < l => \E m, n \in 1..Len(c.spans) :
            m < n /\ kept[k] = c.spans[m] /\ kept[l] = c.spans[n]
  <2> DEFINE J == I(r)
             s == c.spans
  <2>1. s \in Seq(Range(s)) /\ \A m \in J : s[m].start >= p.start /\ s[m].end <= p.end
    BY <1>4, <1>9
  <2>2. kept = Those(s, J)
    BY DEF kept
  <2> HIDE DEF J, s
  <2>3. InThatOrder(kept, s, J)
    BY <2>1, <2>2, ThoseAre
  <2> QED BY <2>1, <2>3 DEF s, InThatOrder
<1>11. ASSUME NEW s \in Range(kept)
       PROVE  s \in Range(c.spans) /\ p.start <= s.start /\ s.end <= p.end /\ ForSomeTime(s)
              /\ {"start", "end"} \subseteq DOMAIN s
  <2>1. PICK m \in 1..Len(c.spans) :
          s = c.spans[m] /\ c.spans[m].start >= p.start /\ c.spans[m].end <= p.end
    BY <1>10 DEF Range
  <2>2. s \in Range(c.spans)
    BY <1>9, <2>1 DEF Range
  <2>3. ForSomeTime(s) /\ {"start", "end"} \subseteq DOMAIN s
    BY <2>2 DEF Sound
  <2>4. p.start <= s.start /\ s.end <= p.end
    BY <1>3, <2>1, <2>3 DEF ForSomeTime
  <2> QED BY <2>2, <2>3, <2>4
<1>12. ValidSpans(d)
  <2>1. ASSUME NEW s \in Range(d.spans)
        PROVE  /\ Known(d, s.cues)
               /\ s.start >= FirstStart(Covered(d, s.cues))
               /\ s.end <= LastEnd(Covered(d, s.cues))
    <3>1. s \in Range(c.spans) /\ p.start <= s.start /\ s.end <= p.end
      BY <1>6, <1>11, <2>1
    <3>2. Known(p, s.cues) /\ Covered(p, s.cues) = Covered(c, s.cues)
      BY <3>1 DEF GoodPart
    <3>3. Known(d, s.cues) /\ Covered(d, s.cues) = Covered(c, s.cues)
      BY <1>6, <3>2 DEF Known, Covered
    <3>4. /\ s.start >= FirstStart(Covered(c, s.cues))
          /\ s.end <= LastEnd(Covered(c, s.cues))
      BY <3>1 DEF Sound, ValidCandidate, ValidSpans
    <3> QED BY <3>3, <3>4
  <2>2. ASSUME NEW n \in DOMAIN d.spans
        PROVE  d.spans[n].start >= (IF n = 1 THEN d.start ELSE d.spans[n - 1].start)
    <3>1. n \in 1..Len(kept) /\ kept[n] \in Range(kept)
      BY <1>6, <1>10 DEF Range
    <3>2. kept[n].start \in Nat /\ p.start <= kept[n].start /\ p.start \in Nat
      BY <1>3, <1>11, <3>1 DEF ForSomeTime
    <3>3. CASE n = 1
      BY <1>6, <3>2, <3>3
    <3>4. CASE n # 1
      <4>1. n - 1 \in 1..Len(kept) /\ n - 1 < n
        BY <1>10, <3>1, <3>4
      <4>2. PICK m, l \in 1..Len(c.spans) :
              m < l /\ kept[n - 1] = c.spans[m] /\ kept[n] = c.spans[l]
        BY <1>10, <3>1, <4>1
      <4>3. c.spans[m].start <= c.spans[l].start
        BY <4>2 DEF Sound, Rising
      <4>4. kept[n - 1].start \in Nat
        <5>1. kept[n - 1] \in Range(kept)
          BY <1>10, <4>1 DEF Range
        <5> QED BY <1>11, <5>1 DEF ForSomeTime
      <4> QED BY <1>6, <3>2, <3>4, <4>2, <4>3, <4>4
    <3> QED BY <3>3, <3>4
  <2> QED BY <2>1, <2>2 DEF ValidSpans, StartsInOrder
<1>13. ValidSignals(d)
  <2>1. \A x \in Range(q.cues) : Overlaps(x, q)
    BY <1>5, <1>6, <1>8, CuesAreValid DEF Overlaps
  <2>2. \A n \in DOMAIN TextsOf(q) : Overlaps(TextsOf(q)[n], q)
    <3>1. q.start \in Nat /\ q.end \in Nat
      BY <1>3, <1>5 DEF ForSomeTime
    <3>2. \A s \in Range(q.spans) : /\ {"start", "end"} \subseteq DOMAIN s /\ ForSomeTime(s)
                                    /\ q.start <= s.start /\ s.end <= q.end
      BY <1>5, <1>11
    <3> QED BY <2>1, <3>1, <3>2, TextsAreWithin
  <2>3. ASSUME NEW s \in d.signals
        PROVE  s.refs \subseteq d.evidence /\ Overlaps(s, d)
    <3>1. s \in SignalsIn(TextsOf(q), q.evidence)
      BY <1>6, <2>3
    <3>2. s.refs = q.evidence
      BY <3>1, SignalsAreOfTexts
    <3>3. PICK n \in DOMAIN TextsOf(q) :
            s.start = TextsOf(q)[n].start /\ s.end = TextsOf(q)[n].end
      BY <3>1, SignalsAreOfTexts
    <3>4. Overlaps(TextsOf(q)[n], q)
      BY <2>2
    <3> QED BY <1>5, <1>6, <3>2, <3>3, <3>4 DEF Overlaps
  <2> QED BY <1>6, <2>3 DEF ValidSignals
<1>14. ValidSeries(d)
  BY <1>6 DEF GoodPart, ValidSeries
<1>15. ValidCandidate(d)
  BY <1>7, <1>8, <1>12, <1>13, <1>14, PlainIsValid
<1> QED BY <1>15 DEF d

-----------------------------------------------------------------------------
(* A part of a proposal has the cues of the spans that lie in it.          *)
LEMMA ThoseAreSorted ==
  ASSUME NEW s, s \in Seq(Range(s)), Sorted(s), NEW I
  PROVE  Sorted(Those(s, I))
<1> DEFINE t == Those(s, I)
<1>1. InThatOrder(t, s, I)
  BY ThoseAre
<1> HIDE DEF t
<1> SUFFICES ASSUME NEW k \in 1..Len(t), NEW l \in 1..Len(t), k < l
             PROVE  t[k].end <= t[l].start
  BY DEF Sorted, t
<1>2. PICK m, n \in 1..Len(s) : m < n /\ t[k] = s[m] /\ t[l] = s[n]
  BY <1>1 DEF InThatOrder
<1> QED BY <1>2 DEF Sorted

Found(G, s, n) == \A a \in 1..Len(s) : \E p \in 1..n : \E k \in 1..Len(G[p]) : s[a] = G[p][k]
LEMMA EachInAPart ==
  ASSUME NEW C, NEW G \in Seq(Seq(C))
  PROVE  Found(G, FlattenSeq(G), Len(G))
<1> DEFINE N == Len(G)
           F(n) == FlattenSeq(SubSeq(G, 1, n))
           S == {n \in Nat : n <= N => Found(G, F(n), n)}
<1>1. N \in Nat /\ \A n \in 1..N : G[n] \in Seq(C)
  BY LenProperties, ElementOfSeq
<1>2. 0 \in S
  <2>1. SubSeq(G, 1, 0) = <<>> /\ FlattenSeq(<<>>) = <<>>
    BY WholeAndEmpty DEF FlattenSeq
  <2>2. Found(G, <<>>, 0)
    BY DEF Found
  <2>3. Found(G, F(0), 0)
    BY <2>1, <2>2
  <2> HIDE DEF F
  <2> QED BY <2>3
<1>3. ASSUME NEW n \in S PROVE n + 1 \in S
  <2> SUFFICES ASSUME n + 1 <= N PROVE Found(G, F(n + 1), n + 1)
    OBVIOUS
  <2> DEFINE a == F(n)  b == G[n + 1]  ab == F(n + 1)
  <2>1. n \in 0..(N - 1) /\ n \in Nat /\ n + 1 \in 1..N /\ Found(G, a, n)
    BY <1>1
  <2>2. a \in Seq(C) /\ b \in Seq(C) /\ ab = a \o b
    BY <1>1, <2>1, FlattenMore
  <2>b. b = G[n + 1]
    OBVIOUS
  <2> HIDE DEF a, b, ab
  <2>3. SortedParts(a, b, ab)
    <3>1. Both(C, a, b, ab)
      BY <2>2 DEF Both
    <3> QED BY <3>1, SortedBoth
  <2>4. ASSUME NEW c \in 1..Len(ab)
        PROVE  \E p \in 1..(n + 1) : \E k \in 1..Len(G[p]) : ab[c] = G[p][k]
    <3>1. CASE c \in 1..Len(a)
      <4>1. ab[c] = a[c]
        BY <2>3, <3>1 DEF SortedParts
      <4>2. PICK p \in 1..n : \E k \in 1..Len(G[p]) : a[c] = G[p][k]
        BY <2>1, <3>1 DEF Found
      <4>3. p \in 1..(n + 1)
        BY <2>1
      <4> QED BY <4>1, <4>2, <4>3
    <3>2. CASE c - Len(a) \in 1..Len(b) /\ c = Len(a) + (c - Len(a))
      <4>1. ab[c] = b[c - Len(a)]
        BY <2>3, <3>2 DEF SortedParts
      <4>2. n + 1 \in 1..(n + 1)
        BY <2>1
      <4> QED BY <2>b, <3>2, <4>1, <4>2
    <3> QED BY <2>3, <3>1, <3>2 DEF SortedParts
  <2>5. Found(G, ab, n + 1)
    BY <2>4 DEF Found
  <2> QED BY <2>5 DEF ab
<1> HIDE DEF S, F
<1>4. S = Nat
  <2>1. S \in SUBSET Nat
    BY DEF S
  <2> QED BY <1>2, <1>3, <2>1, Induct
<1>5. Found(G, F(N), N)
  BY <1>1, <1>4 DEF S
<1>6. SubSeq(G, 1, N) = G
  BY WholeAndEmpty
<1> QED BY <1>5, <1>6 DEF F

(* The groups of the cues of a proposal, all of which are within it.       *)
InGroups(c, groups) ==
  /\ Len(groups) \in Nat
  /\ \A n \in 1..Len(groups) : groups[n] \in NonEmpty(Range(c.cues))
  /\ Ordered(groups, Len(groups))
  /\ \A x \in Range(c.cues) : \E p \in 1..Len(groups) : \E k \in 1..Len(groups[p]) :
       x = groups[p][k]
LEMMA GroupsInOrder ==
  ASSUME NEW c, Sound(c), NEW groups, groups = CueGroups(CuesWithin(c))
  PROVE  InGroups(c, groups)
<1> DEFINE C == Range(c.cues)
           I == {n \in DOMAIN c.cues : Overlaps(c.cues[n], c)}
           kept == Those(c.cues, I)
           N == Len(groups)
<1>1. c.cues \in Seq(C) /\ c.cues \in Seq(Range(c.cues)) /\ Sorted(c.cues)
  BY DEF Sound
<1>2. Sorted(kept) /\ kept \in Seq(C) /\ Range(kept) = {c.cues[n] : n \in I \cap 1..Len(c.cues)}
  BY <1>1, ThoseAreSorted, ThoseFacts, ThoseHas
<1>3. kept = CuesWithin(c)
  BY DEF CuesWithin
<1>4. C \subseteq Range(kept)
  <2>1. DOMAIN c.cues = 1..Len(c.cues)
    BY <1>1, LenProperties
  <2>2. \A n \in 1..Len(c.cues) : n \in I
    <3>1. \A x \in C : Overlaps(x, c)
      BY CuesAreValid DEF Sound, ValidCandidate
    <3> QED BY <2>1, <3>1 DEF Range
  <2> HIDE DEF I, kept
  <2> QED BY <1>2, <2>1, <2>2 DEF Range
<1> HIDE DEF kept, C, I
<1>5. groups \in Seq(NonEmpty(C)) /\ FlattenSeq(groups) = kept
  <2>1. GroupsOf(C, groups, kept, Len(kept))
    BY <1>2, <1>3, CueGroupsAreOfCues
  <2> QED BY <1>2, <2>1, WholeAndEmpty DEF GroupsOf
<1>6. groups \in Seq(Seq(C)) /\ N \in Nat /\ \A n \in 1..N : groups[n] \in NonEmpty(C)
  BY <1>5, SeqMonotonic, LenProperties DEF NonEmpty
<1>7. PartsOrdered(groups, kept, N) /\ Found(groups, kept, N)
  BY <1>5, <1>6, PartsInOrder, EachInAPart
<1>8. Ordered(groups, N)
  BY <1>2, <1>7 DEF PartsOrdered
<1>9. ASSUME NEW x \in C PROVE \E p \in 1..N : \E k \in 1..Len(groups[p]) : x = groups[p][k]
  <2>1. PICK a \in 1..Len(kept) : x = kept[a]
    BY <1>2, <1>4, LenProperties DEF Range
  <2> QED BY <1>7, <2>1 DEF Found
<1> QED BY <1>6, <1>8, <1>9 DEF C, InGroups

LEMMA PartIsGood ==
  ASSUME NEW c, Sound(c), NEW groups, groups = CueGroups(CuesWithin(c)),
         NEW n \in 1..Len(groups)
  PROVE  GoodPart(c, PartOf(c, groups, n), Len(groups))
<1> DEFINE C == Range(c.cues)
           N == Len(groups)
           g == groups[n]
           m == Len(g)
           p == PartOf(c, groups, n)
           I == {k \in DOMAIN c.units : /\ c.units[k].start >= g[1].start
                                        /\ c.units[k].end <= Last(g).end}
<1>1. /\ N \in Nat /\ n \in Nat /\ n <= N /\ g \in NonEmpty(C) /\ Ordered(groups, N)
      /\ \A q \in 1..N : groups[q] \in NonEmpty(C)
      /\ \A x \in C : \E q \in 1..N : \E k \in 1..Len(groups[q]) : x = groups[q][k]
  <2>1. InGroups(c, groups)
    BY GroupsInOrder
  <2>2. /\ N \in Nat /\ Ordered(groups, N) /\ \A q \in 1..N : groups[q] \in NonEmpty(C)
        /\ \A x \in C : \E q \in 1..N : \E k \in 1..Len(groups[q]) : x = groups[q][k]
    BY <2>1, Zenon DEF InGroups
  <2> HIDE DEF C, N
  <2>3. n \in 1..N
    BY DEF N
  <2> QED BY <2>2, <2>3
<1>2. /\ Fields \subseteq DOMAIN c /\ c.translated = <<>> /\ c.units = <<>> /\ c.records = <<>>
      /\ c.event = None /\ c.id \in Seq(Nat)
  BY DEF Sound, Plain
<1>3. /\ DOMAIN p = DOMAIN c /\ p.start = g[1].start /\ p.end = Last(g).end /\ p.cues = g
      /\ p.translated = c.translated /\ p.records = c.records /\ p.event = c.event
      /\ p.units = Those(c.units, I) /\ p.series = c.id /\ p.index = n
  BY <1>2 DEF PartOf, Fields
<1> HIDE DEF p, I
<1>4. p.units = <<>>
  BY <1>2, <1>3, NoneOfNone
<1>g. g = groups[n]
  OBVIOUS
<1> HIDE DEF C, N, g
<1>5. /\ m \in Nat \ {0} /\ DOMAIN g = 1..m /\ \A k \in 1..m : g[k] \in C
  BY <1>1, LenProperties, EmptySeq DEF NonEmpty
<1>6. \A x \in C : x.start \in Nat /\ x.end \in Nat /\ x.start < x.end
  BY DEF Sound, ForSomeTime, C
<1>7. \A k, l \in 1..m : k < l => g[k].end <= g[l].start
  <2>1. Sorted(groups[n])
    BY <1>1 DEF Ordered, N
  <2> QED BY <1>g, <2>1 DEF Sorted
<1> HIDE DEF m
<1>8. 1 \in 1..m /\ m \in 1..m
  BY <1>5
<1>9. \A k \in 1..m : g[1].start <= g[k].start /\ g[k].end <= g[m].end
  <2> SUFFICES ASSUME NEW k \in 1..m PROVE g[1].start <= g[k].start /\ g[k].end <= g[m].end
    OBVIOUS
  <2>1. /\ g[1].start \in Nat /\ g[1].end \in Nat /\ g[1].start < g[1].end
        /\ g[k].start \in Nat /\ g[k].end \in Nat /\ g[k].start < g[k].end
        /\ g[m].start \in Nat /\ g[m].end \in Nat /\ g[m].start < g[m].end
    BY <1>5, <1>6, <1>8
  <2>2. k = 1 \/ 1 < k
    BY <1>5
  <2>3. k = m \/ k < m
    BY <1>5
  <2>4. g[1].start <= g[k].start
    BY <1>7, <1>8, <2>1, <2>2
  <2>5. g[k].end <= g[m].end
    BY <1>7, <1>8, <2>1, <2>3
  <2> QED BY <2>4, <2>5
<1>10. p.start = g[1].start /\ p.end = g[m].end
  BY <1>3 DEF Last, m
<1>11. ForSomeTime(p)
  <2>1. /\ g[1].start \in Nat /\ g[1].end \in Nat /\ g[1].start < g[1].end
        /\ g[m].end \in Nat /\ g[1].end <= g[m].end
    BY <1>5, <1>6, <1>8, <1>9
  <2> QED BY <1>10, <2>1 DEF ForSomeTime
<1>12. Plain(p)
  BY <1>2, <1>3, <1>4, <1>11 DEF Plain
<1>13. ValidCues(p, p.cues)
  <2>1. ASSUME NEW i \in 1..m, NEW j \in 1..m, g[i].id = g[j].id PROVE i = j
    <3>1. PICK a \in DOMAIN c.cues : g[i] = c.cues[a]
      BY <1>5 DEF C, Range
    <3>2. PICK b \in DOMAIN c.cues : g[j] = c.cues[b]
      BY <1>5 DEF C, Range
    <3>3. \A k, l \in DOMAIN c.cues : c.cues[k].id = c.cues[l].id => k = l
      BY CuesAreValid DEF Sound, ValidCandidate
    <3>4. g[i] = g[j]
      BY <2>1, <3>1, <3>2, <3>3
    <3>5. g[i].start \in Nat /\ g[i].end \in Nat /\ g[i].start < g[i].end
      BY <1>5, <1>6
    <3>6. ~(i < j) /\ ~(j < i)
      BY <1>7, <3>4, <3>5
    <3> QED BY <1>5, <3>6
  <2>2. ASSUME NEW k \in 1..m PROVE Overlaps(g[k], p)
    <3>1. /\ g[k].start \in Nat /\ g[k].end \in Nat /\ g[k].start < g[k].end
          /\ g[1].start \in Nat /\ g[m].end \in Nat
      BY <1>5, <1>6, <1>8
    <3> QED BY <1>9, <1>10, <3>1 DEF Overlaps
  <2>3. \A x \in Range(g) : Overlaps(x, p)
    BY <1>5, <2>2 DEF Range
  <2> QED BY <1>3, <1>5, <2>1, <2>3, CuesAreValid
<1>14. p.series # None /\ p.index # None /\ p.index <= N
  BY <1>1, <1>2, <1>3, NoneIsNoName
<1>15. ASSUME NEW s \in Range(c.spans), p.start <= s.start, s.end <= p.end
       PROVE  Known(p, s.cues) /\ Covered(p, s.cues) = Covered(c, s.cues)
  <2>1. /\ s.start \in Nat /\ s.end \in Nat /\ Known(c, s.cues)
        /\ \A x \in C : x.id \in s.cues => Overlaps(x, s)
    BY DEF Sound, ForSomeTime, ValidCandidate, ValidSpans, C
  <2>2. ASSUME NEW x \in C, x.id \in s.cues PROVE x \in Range(g)
    <3>1. x.end > s.start /\ x.start < s.end /\ x.start \in Nat /\ x.end \in Nat
      BY <1>6, <2>1, <2>2 DEF Overlaps
    <3>2. PICK q \in 1..N : \E k \in 1..Len(groups[q]) : x = groups[q][k]
      BY <1>1
    <3>3. PICK k \in 1..Len(groups[q]) : x = groups[q][k]
      BY <3>2
    <3>4. ~(q < n)
      <4> SUFFICES ASSUME q < n PROVE FALSE
        OBVIOUS
      <4>1. x.end <= g[1].start
        BY <1>1, <1>8, <1>g, <3>3 DEF Ordered, N, m
      <4>2. g[1].start \in Nat
        BY <1>5, <1>6, <1>8
      <4> QED BY <1>10, <1>15, <2>1, <3>1, <4>1, <4>2
    <3>5. ~(n < q)
      <4> SUFFICES ASSUME n < q PROVE FALSE
        OBVIOUS
      <4>1. g[m].end <= x.start
        BY <1>1, <1>8, <1>g, <3>3 DEF Ordered, N, m
      <4>2. g[m].end \in Nat
        BY <1>5, <1>6, <1>8
      <4> QED BY <1>10, <1>15, <2>1, <3>1, <4>1, <4>2
    <3>6. q = n
      BY <1>1, <3>4, <3>5
    <3> QED BY <1>5, <1>g, <3>3, <3>6 DEF Range, m
  <2>3. Range(g) \subseteq C
    BY <1>5 DEF Range
  <2>4. Known(p, s.cues)
    <3> SUFFICES ASSUME NEW id \in s.cues PROVE id \in {x.id : x \in Range(p.cues)}
      BY DEF Known
    <3>1. PICK x \in C : id = x.id
      BY <2>1 DEF Known, C
    <3> QED BY <1>3, <2>2, <3>1
  <2>5. Covered(p, s.cues) = Covered(c, s.cues)
    BY <1>3, <2>2, <2>3 DEF Covered, C
  <2> QED BY <2>4, <2>5
<1>16. GoodPart(c, p, N)
  BY <1>12, <1>13, <1>14, <1>15 DEF GoodPart
<1> QED BY <1>16 DEF p, N

-----------------------------------------------------------------------------
(* A span lasts while each of its cues does, where what is said takes time. *)
TakesTime(cues) ==
  \A n \in DOMAIN cues : \A f \in Range(FragmentsOf(cues[n])) : f.start < f.end

Lasting(x, f) ==
  /\ f.start \in Nat /\ f.end \in Nat /\ x.start \in Nat /\ x.end \in Nat
  /\ x.start <= f.start /\ f.start < f.end /\ f.end <= x.end

LEMMA BothLasting ==
  ASSUME NEW x, NEW s, NEW f, Lasting(x, f), Lasting(s, f)
  PROVE  Overlaps(x, s)
BY DEF Lasting, Overlaps

LEMMA FragmentInCue ==
  ASSUME NEW cues, LectureCues(cues), TakesTime(cues), NEW f \in AllFragments(cues),
         NEW n \in 1..Len(cues), f.cue = cues[n].id
  PROVE  Lasting(cues[n], f)
<1>1. PICK m \in 1..Len(cues) : f \in Range(FragmentsOf(cues[m]))
  BY DEF AllFragments
<1> DEFINE fs == FragmentsOf(cues[m])
<1>2. fs \in Seq(AllFragments(cues)) /\ \A k \in 1..Len(fs) : fs[k].cue = cues[m].id
  BY FragmentsOfCues
<1>3. /\ DOMAIN cues = 1..Len(cues) /\ cues[m] \in Range(cues)
      /\ cues[m].start \in Nat /\ cues[m].end \in Nat
      /\ \A k, l \in 1..Len(cues) : cues[k].id = cues[l].id => k = l
  BY CueFacts
<1>4. ValidCue(cues[m])
  BY <1>3 DEF LectureCues, InOrder, ValidCue
<1>5. Within(fs, cues[m].start, cues[m].end)
  BY <1>4, FragmentsSorted
<1>6. f.start < f.end
  BY <1>1, <1>3 DEF TakesTime
<1>7. PICK k \in DOMAIN fs : f = fs[k]
  BY <1>1 DEF Range
<1> HIDE DEF fs
<1>8. k \in 1..Len(fs)
  BY <1>2, <1>7, LenProperties
<1>9. m = n
  BY <1>2, <1>3, <1>7, <1>8
<1> QED BY <1>3, <1>5, <1>6, <1>7, <1>8, <1>9 DEF Within, Lasting

LEMMA SpansMeetTheirCues ==
  ASSUME NEW cues, LectureCues(cues), FollowOn(cues), TakesTime(cues),
         NEW p \in 1..Len(Grouped(cues)), NEW n \in 1..Len(cues),
         cues[n].id \in SpanOfText(Grouped(cues)[p]).cues
  PROVE  Overlaps(cues[n], SpanOfText(Grouped(cues)[p]))
<1> DEFINE G == Grouped(cues)
           C == AllFragments(cues)
           F == FlattenSeq(G)
           M == Len(G)
           g == G[p]
           s == SpanOfText(g)
<1>1. AllClosed(G, cues, Len(cues)) /\ FlattenSeq(G) = FlattenSeq(Texts(cues))
  BY GroupedIs
<1>2. G \in Seq(Seq(C)) /\ \A q \in 1..M : G[q] \in Seq(C) /\ G[q] # <<>>
  BY <1>1 DEF AllClosed, Closed, Grown
<1>3. Sorted(F) /\ TimedAll(F)
  <2>1. Sorted(FlattenSeq(Texts(cues))) /\ TimedAll(FlattenSeq(Texts(cues)))
    BY TextInTime
  <2> QED BY <1>1, <2>1
<1> HIDE DEF C
<1>4. PartsOrdered(G, F, M)
  BY <1>2, PartsInOrder
<1> HIDE DEF F
<1>5. Sorted(G[p])
  BY <1>3, <1>4 DEF PartsOrdered, Ordered
<1>6. \A k \in 1..Len(G[p]) : \E a \in 1..Len(F) : F[a] = G[p][k]
  BY <1>4 DEF PartsOrdered, Occur
<1>7. g \in Seq(C) /\ g # <<>> /\ Sorted(g) /\ \A k \in 1..Len(g) : \E a \in 1..Len(F) : F[a] = g[k]
  BY <1>2, <1>5, <1>6
<1>s. s = SpanOfText(g) /\ cues[n].id \in s.cues
  OBVIOUS
<1> HIDE DEF g, G, M
<1>8. /\ Len(g) \in Nat \ {0} /\ DOMAIN g = 1..Len(g) /\ \A k \in 1..Len(g) : g[k] \in C
  BY <1>7, LenProperties, EmptySeq
<1>9. s.start = g[1].start /\ s.end = g[Len(g)].end /\ s.cues = {f.cue : f \in Range(g)}
  BY DEF SpanOfText, Last
<1>10. PICK k \in 1..Len(g) : g[k].cue = cues[n].id
  BY <1>8, <1>9, <1>s DEF Range
<1> HIDE DEF s
<1>11. Lasting(cues[n], g[k])
  BY <1>8, <1>10, FragmentInCue DEF C
<1>12. \A j \in 1..Len(g) : g[j].start \in Nat /\ g[j].end \in Nat /\ g[j].start <= g[j].end
  BY <1>3, <1>7 DEF TimedAll
<1>m. PICK m \in Nat \ {0} : m = Len(g)
  BY <1>8
<1>13. 1 \in 1..m /\ m \in 1..m /\ k \in 1..m
  BY <1>m
<1>14. g[1].start <= g[k].start
  <2>1. k = 1 \/ 1 < k
    BY <1>13
  <2>2. 1 < k => g[1].end <= g[k].start
    BY <1>7, <1>m, <1>13 DEF Sorted
  <2> QED BY <1>m, <1>12, <1>13, <2>1, <2>2
<1>15. g[k].end <= g[m].end
  <2>1. k = m \/ k < m
    BY <1>13
  <2>2. k < m => g[k].end <= g[m].start
    BY <1>7, <1>m, <1>13 DEF Sorted
  <2> QED BY <1>m, <1>12, <1>13, <2>1, <2>2
<1>16. Lasting(s, g[k])
  <2>1. s.start = g[1].start /\ s.end = g[m].end
    BY <1>9, <1>m
  <2>2. g[1].start \in Nat /\ g[m].end \in Nat
    BY <1>12, <1>13, <1>m
  <2> QED BY <1>11, <1>14, <1>15, <2>1, <2>2 DEF Lasting
<1> QED BY <1>11, <1>16, BothLasting DEF s, g, G

(* What is proposed is sound if it is valid.                               *)
Meets(cues, spans) ==
  \A s \in Range(spans) : /\ {"start", "end"} \subseteq DOMAIN s
                          /\ \A x \in Range(cues) : x.id \in s.cues => Overlaps(x, s)

LEMMA ProposedIsSound ==
  ASSUME NEW cues, LectureCues(cues), FollowOn(cues), NEW spans, spans \in Seq(Range(spans)),
         \A s \in Range(spans) : ValidText(s), TimedSpans(spans), Meets(cues, spans),
         NEW n \in 1..Len(spans), NEW w \in Around(spans, n),
         ValidCandidate(Bare(cues, spans, n, w))
  PROVE  Sound(Proposed(cues, spans, n, w))
<1> DEFINE window == SubSeq(spans, w.first, w.last)
           covered == UNION {s.cues : s \in Range(window)}
           I == {k \in DOMAIN cues : cues[k].id \in covered}
           these == Those(cues, I)
           b == Bare(cues, spans, n, w)
           d == Proposed(cues, spans, n, w)
<1>1. /\ Fields \subseteq DOMAIN b /\ b.id = <<n>> /\ b.start = window[1].start
      /\ b.end = Last(window).end /\ b.translated = <<>> /\ b.units = <<>> /\ b.records = <<>>
      /\ b.evidence = {<<n>>} /\ b.event = None /\ b.series = None /\ b.index = None
      /\ b.cues = these /\ b.spans = window
  BY DEF Bare, Fields
<1>2. d = [b EXCEPT !.signals = SignalsIn(<<spans[n]>>, b.evidence), !.profile = b.id]
  BY DEF Proposed
<1>b. ValidCandidate(b)
  OBVIOUS
<1> HIDE DEF b, d, window, these
<1>3. /\ DOMAIN d = DOMAIN b /\ d.id = <<n>> /\ d.start = b.start /\ d.end = b.end
      /\ d.translated = <<>> /\ d.units = <<>> /\ d.records = <<>>
      /\ d.evidence = {<<n>>} /\ d.event = None /\ d.series = None /\ d.index = None
      /\ d.cues = these /\ d.spans = window /\ d.profile = <<n>>
      /\ d.signals = SignalsIn(<<spans[n]>>, d.evidence)
  BY <1>1, <1>2 DEF Fields
<1>4. /\ w.first \in 1..Len(spans) /\ w.last \in 1..Len(spans) /\ w.first <= n /\ n <= w.last
      /\ w.first <= w.last /\ Len(spans) \in Nat
  BY LenProperties DEF Around
<1>5. \A k \in 1..Len(spans) : spans[k] \in Range(spans)
  BY LenProperties DEF Range
<1>6. /\ window \in Seq(Range(spans)) /\ Len(window) = w.last - w.first + 1
      /\ \A k \in 1..(w.last - w.first + 1) : window[k] = spans[w.first + k - 1]
  BY <1>4, <1>5, SubSeqProperties DEF window
<1>7. /\ Len(window) \in Nat \ {0} /\ DOMAIN window = 1..Len(window)
      /\ window = [k \in 1..Len(window) |-> window[k]]
      /\ \A k \in 1..Len(window) : window[k] \in Range(spans)
  BY <1>4, <1>6, LenProperties
<1>8. window \in Seq(Range(window)) /\ \A x \in Range(window) : x \in Range(spans)
  <2>1. \A x \in Range(window) : x \in Range(spans)
    BY <1>7 DEF Range
  <2>2. window \in Seq(Range(window))
    BY <1>7, FunctionIsSeq
  <2> QED BY <2>1, <2>2
<1>9. \A s \in Range(spans) : ForSomeTime(s) /\ {"start", "end"} \subseteq DOMAIN s
  BY DEF ValidText, Meets
<1>10. ASSUME NEW k \in 1..Len(window), NEW l \in 1..Len(window), k <= l
       PROVE  window[k].start <= window[l].start
  <2>1. PICK i \in Nat, j \in Nat, N \in Nat : i = w.first /\ j = w.last /\ N = Len(spans)
    BY <1>4
  <2>2. i \in 1..N /\ j \in 1..N /\ i <= j /\ Len(window) = j - i + 1
    BY <1>4, <1>6, <2>1
  <2>3. k \in 1..(j - i + 1) /\ l \in 1..(j - i + 1)
    BY <2>2
  <2>4. i + k - 1 \in 1..N /\ i + l - 1 \in 1..N /\ i + k - 1 <= i + l - 1
    BY <1>10, <2>2, <2>3
  <2>5. window[k] = spans[i + k - 1] /\ window[l] = spans[i + l - 1]
    BY <1>6, <2>1, <2>3
  <2> QED BY <2>1, <2>4, <2>5 DEF TimedSpans
<1>11. /\ b.start = spans[w.first].start /\ b.end = spans[w.last].end
       /\ b.start \in Nat /\ b.end \in Nat
  <2>1. 1 \in 1..(w.last - w.first + 1) /\ w.last - w.first + 1 \in 1..(w.last - w.first + 1)
        /\ w.first + 1 - 1 = w.first /\ w.first + (w.last - w.first + 1) - 1 = w.last
    BY <1>4
  <2>2. window[1] = spans[w.first] /\ window[Len(window)] = spans[w.last]
    BY <1>6, <2>1
  <2>3. b.start = spans[w.first].start /\ b.end = spans[w.last].end
    BY <1>1, <2>2 DEF Last
  <2> QED BY <1>4, <1>5, <1>9, <2>3 DEF ForSomeTime
<1>12. ForSomeTime(d) /\ Plain(d)
  <2>1. b.end > b.start
    BY <1>b DEF ValidCandidate
  <2>2. ForSomeTime(d)
    BY <1>3, <1>11, <2>1 DEF ForSomeTime
  <2> QED BY <1>1, <1>3, <2>2 DEF Plain
<1>13. ValidCues(d, d.cues)
  <2>1. ValidCues(b, b.cues)
    BY <1>b DEF ValidCandidate
  <2> QED BY <1>1, <1>3, <2>1, CuesStayValid
<1>14. ValidSpans(d)
  <2>1. ValidSpans(b)
    BY <1>b DEF ValidCandidate
  <2> QED BY <1>1, <1>3, <2>1, SpansStayValid
<1>15. ValidSignals(d)
  <2>1. ASSUME NEW s \in d.signals PROVE s.refs \subseteq d.evidence /\ Overlaps(s, d)
    <3>1. s \in SignalsIn(<<spans[n]>>, d.evidence)
      BY <1>3, <2>1
    <3>2. s.refs = d.evidence
      BY <3>1, SignalsAreOfTexts
    <3>3. s.start = spans[n].start /\ s.end = spans[n].end
      <4>1. PICK k \in DOMAIN <<spans[n]>> :
              s.start = <<spans[n]>>[k].start /\ s.end = <<spans[n]>>[k].end
        BY <3>1, SignalsAreOfTexts
      <4> QED BY <4>1
    <3>4. /\ spans[n].start \in Nat /\ spans[n].end \in Nat /\ spans[n].start < spans[n].end
      BY <1>5, <1>9 DEF ForSomeTime
    <3>5. spans[w.first].start <= spans[n].start /\ spans[n].end <= spans[w.last].end
      BY <1>4 DEF TimedSpans
    <3> QED BY <1>3, <1>11, <3>2, <3>3, <3>4, <3>5 DEF Overlaps
  <2> QED BY <1>3, <2>1 DEF ValidSignals
<1>16. ValidSeries(d)
  BY <1>3 DEF ValidSeries
<1>17. ValidCandidate(d)
  BY <1>12, <1>13, <1>14, <1>15, <1>16, PlainIsValid
<1>18. /\ these \in Seq(Range(these)) /\ Sorted(these)
       /\ \A x \in Range(these) : x \in Range(cues) /\ ForSomeTime(x)
  <2>1. cues \in Seq(Range(cues)) /\ DOMAIN cues = 1..Len(cues)
    BY CueFacts
  <2>2. Sorted(cues)
    BY <2>1 DEF FollowOn, Sorted
  <2>3. \A x \in Range(cues) : ForSomeTime(x)
    BY DEF LectureCues, InOrder
  <2> HIDE DEF I
  <2> QED BY <2>1, <2>2, <2>3, TheseAre, ThoseAreSorted DEF these
<1>19. \A s \in Range(window) : \A x \in Range(these) : x.id \in s.cues => Overlaps(x, s)
  BY <1>8, <1>18 DEF Meets
<1>20. d.id \in Seq(Nat)
  BY <1>3, <1>4
<1>21. Sound(d)
  BY <1>3, <1>8, <1>9, <1>10, <1>12, <1>17, <1>18, <1>19, <1>20 DEF Sound, Rising
<1> QED BY <1>21 DEF d

-----------------------------------------------------------------------------
LEMMA ProposedAreSound ==
  ASSUME NEW cues, LectureCues(cues), FollowOn(cues), TakesTime(cues),
         NEW heard0, heard0 = SemanticSourceSpans(cues), heard0.valid,
         CanPropose(cues, heard0.spans, WindowsOf(heard0.spans))
  PROVE  \A c \in Range(ProposedFrom(cues, heard0.spans, WindowsOf(heard0.spans))) : Sound(c)
<1> DEFINE spans == heard0.spans
           windows == WindowsOf(spans)
           all == [n \in DOMAIN spans |-> Proposed(cues, spans, n, windows[n])]
           I == {n \in DOMAIN spans : HasStructure(all[n])}
           G == Grouped(cues)
<1>1. /\ spans \in Seq(Range(spans)) /\ Len(spans) \in Nat /\ DOMAIN spans = 1..Len(spans)
      /\ \A s \in Range(spans) : ValidText(s)
  BY SpansAreTexts
<1>2. spans = [n \in DOMAIN G |-> SpanOfText(G[n])]
  BY DEF SemanticSourceSpans
<1>3. TimedSpans(spans)
  BY <1>2, SpansAreTimed DEF SpansFrom
<1>4. ProposedFrom(cues, spans, windows) = Those(all, I)
  BY DEF ProposedFrom
<1>5. \A n \in DOMAIN spans : ValidCandidate(Bare(cues, spans, n, windows[n]))
  BY DEF CanPropose
<1> HIDE DEF spans, I, G
<1>6. Meets(cues, spans)
  <2> SUFFICES ASSUME NEW s \in Range(spans)
               PROVE  /\ {"start", "end"} \subseteq DOMAIN s
                      /\ \A x \in Range(cues) : x.id \in s.cues => Overlaps(x, s)
    BY DEF Meets
  <2>1. PICK p \in DOMAIN G : s = SpanOfText(G[p])
    BY <1>2 DEF Range
  <2>2. p \in 1..Len(G)
    BY GroupedIs, LenProperties DEF AllClosed, G
  <2>3. {"start", "end"} \subseteq DOMAIN s
    BY <2>1 DEF SpanOfText
  <2>4. ASSUME NEW x \in Range(cues), x.id \in s.cues PROVE Overlaps(x, s)
    <3>1. DOMAIN cues = 1..Len(cues)
      BY CueFacts
    <3>2. PICK n \in 1..Len(cues) : x = cues[n]
      BY <3>1 DEF Range
    <3> QED BY <2>1, <2>2, <2>4, <3>2, SpansMeetTheirCues DEF G
  <2> QED BY <2>3, <2>4
<1>7. ASSUME NEW n \in 1..Len(spans) PROVE Sound(all[n])
  <2>1. windows[n] = Window(spans, n)
    BY <1>1 DEF WindowsOf
  <2>2. Window(spans, n) \in Around(spans, n)
    BY <1>1, WindowIsWhole
  <2>3. ValidCandidate(Bare(cues, spans, n, Window(spans, n)))
    BY <1>1, <1>5, <2>1
  <2>4. Sound(Proposed(cues, spans, n, Window(spans, n)))
    BY <1>1, <1>3, <1>6, <2>2, <2>3, ProposedIsSound
  <2>5. all[n] = Proposed(cues, spans, n, windows[n])
    BY <1>1
  <2> QED BY <2>1, <2>4, <2>5
<1>8. all = [n \in 1..Len(spans) |-> all[n]]
  BY <1>1
<1> HIDE DEF all
<1>9. all \in Seq(Range(all)) /\ \A x \in Range(all) : Sound(x)
  <2>1. \A x \in Range(all) : Sound(x)
    BY <1>7, <1>8 DEF Range
  <2> QED BY <1>1, <1>8, <2>1, FunctionIsSeq
<1>10. \A c \in Range(Those(all, I)) : Sound(c)
  BY <1>9, TheseAre
<1> QED BY <1>4, <1>10 DEF spans

(* And so is what is prepared of it: itself, or its parts.                 *)
LEMMA LongerIsValid ==
  ASSUME NEW c, Sound(c)
  PROVE  ValidCandidate([c EXCEPT !.extended = TRUE])
<1> DEFINE d == [c EXCEPT !.extended = TRUE]
<1>1. /\ DOMAIN d = DOMAIN c /\ d.start = c.start /\ d.end = c.end /\ d.cues = c.cues
      /\ d.translated = c.translated /\ d.units = c.units /\ d.records = c.records
      /\ d.id = c.id /\ d.event = c.event /\ d.series = c.series /\ d.index = c.index
      /\ d.total = c.total /\ d.profile = c.profile /\ d.spans = c.spans
      /\ d.evidence = c.evidence /\ d.signals = c.signals
  BY DEF Sound, Plain, Fields
<1> HIDE DEF d
<1>2. Plain(c) /\ ValidCandidate(c)
  BY DEF Sound
<1>3. Plain(d)
  BY <1>1, <1>2 DEF Plain, ForSomeTime
<1>4. ValidCues(d, d.cues)
  BY <1>1, <1>2, CuesStayValid DEF ValidCandidate
<1>5. ValidSpans(d)
  BY <1>1, <1>2, SpansStayValid DEF ValidCandidate
<1>6. ValidSignals(d)
  BY <1>1, <1>2 DEF ValidCandidate, ValidSignals, Overlaps
<1>7. ValidSeries(d)
  BY <1>1, <1>2 DEF ValidCandidate, ValidSeries
<1>8. ValidCandidate(d)
  BY <1>3, <1>4, <1>5, <1>6, <1>7, PlainIsValid
<1> QED BY <1>8 DEF d

LEMMA WholeIsGood ==
  ASSUME NEW c, Sound(c)
  PROVE  GoodPart(c, c, 1)
<1>1. Plain(c) /\ ValidCandidate(c) /\ c.series = None /\ c.index = None
  BY DEF Sound
<1>2. \A s \in Range(c.spans) : Known(c, s.cues)
  BY <1>1 DEF ValidCandidate, ValidSpans
<1> QED BY <1>1, <1>2 DEF GoodPart, ValidCandidate

LEMMA PreparedAreValid ==
  ASSUME NEW c, Sound(c), NEW x \in Range(PrepareDuration(c))
  PROVE  ValidCandidate(x)
<1> DEFINE groups == CueGroups(CuesWithin(c))
           parts == SplitCandidate(c)
           made == [n \in DOMAIN parts |-> PreparedPart(c, parts[n], Len(parts))]
           longer == [c EXCEPT !.extended = TRUE]
<1>1. PrepareDuration(c) \in {<<c>>, <<longer>>, made}
  BY DEF PrepareDuration
<1>2. \A y : Range(<<y>>) = {y}
  BY DEF Range
<1>3. ValidCandidate(c)
  BY DEF Sound
<1>4. ValidCandidate(longer)
  BY LongerIsValid
<1> HIDE DEF longer
<1>5. \A n \in DOMAIN parts : GoodPart(c, parts[n], Len(parts))
  <2>1. CASE parts = <<c>>
    <3> DEFINE one == <<c>>
    <3>1. DOMAIN one = {1} /\ Len(one) = 1 /\ one[1] = c
      OBVIOUS
    <3> HIDE DEF one, parts
    <3>2. parts = one
      BY <2>1 DEF one
    <3> QED BY <3>1, <3>2, WholeIsGood
  <2>2. CASE parts = PartsOf(c, groups)
    <3>1. InGroups(c, groups)
      BY GroupsInOrder
    <3>2. groups \in Seq(NonEmpty(Range(c.cues)))
      <4>1. c.cues \in Seq(Range(c.cues))
        BY DEF Sound
      <4> QED BY <4>1, CuesWithinAreSequences, CueGroupsAreOfCues DEF GroupsOf
    <3>3. \A n \in 1..Len(groups) : GoodPart(c, PartOf(c, groups, n), Len(groups))
      BY PartIsGood
    <3> HIDE DEF parts, groups
    <3>4. DOMAIN groups = 1..Len(groups) /\ Len(groups) \in Nat
      BY <3>2, LenProperties
    <3>5. parts = [n \in 1..Len(groups) |-> PartOf(c, groups, n)]
      BY <2>2, <3>4 DEF PartsOf
    <3>6. parts = [n \in 1..Len(groups) |-> parts[n]]
      BY <3>5
    <3>7. Len(parts) = Len(groups)
      BY <3>4, <3>6, FunctionIsSeq
    <3> QED BY <3>3, <3>5, <3>7
  <2>3. parts = <<c>> \/ parts = PartsOf(c, groups)
    BY DEF SplitCandidate
  <2> QED BY <2>1, <2>2, <2>3
<1>6. ASSUME NEW y \in Range(made) PROVE ValidCandidate(y)
  <2>1. PICK n \in DOMAIN parts : y = PreparedPart(c, parts[n], Len(parts))
    BY <1>6 DEF Range
  <2> HIDE DEF parts
  <2>2. GoodPart(c, parts[n], Len(parts))
    BY <1>5
  <2> QED BY <2>1, <2>2, PreparedIsValid
<1> HIDE DEF made
<1> QED BY <1>1, <1>2, <1>3, <1>4, <1>6

LEMMA AllPreparedAreValid ==
  ASSUME NEW candidates, Clips(candidates), \A c \in Range(candidates) : Sound(c),
         NEW x \in Range(PrepareAll(candidates))
  PROVE  ValidCandidate(x)
<1> DEFINE N == Len(candidates)
           seqs == [n \in DOMAIN candidates |-> PrepareDuration(candidates[n])]
           t == FlattenSeq(seqs)
<1>1. /\ DOMAIN candidates = 1..N /\ N \in Nat
      /\ \A n \in 1..N : LectureClip(candidates[n]) /\ Sound(candidates[n])
  BY LenProperties DEF Clips, Range
<1>2. \A n \in 1..N : seqs[n] \in Seq(Range(seqs[n]))
  BY <1>1, PreparedAreClips DEF Clips
<1>3. \A n \in 1..N : \A y \in Range(seqs[n]) : ValidCandidate(y)
  BY <1>1, PreparedAreValid
<1>4. seqs = [n \in 1..N |-> seqs[n]]
  BY <1>1
<1>5. x \in Range(t)
  BY DEF PrepareAll
<1> HIDE DEF seqs, N
<1>6. t \in Seq(UNION {Range(seqs[n]) : n \in 1..N})
  BY <1>1, <1>2, <1>4, FlattenOf
<1> HIDE DEF t
<1>7. x \in UNION {Range(seqs[n]) : n \in 1..N}
  BY <1>5, <1>6, LenProperties DEF Range
<1> QED BY <1>3, <1>7

-----------------------------------------------------------------------------
(* The other plans.                                                        *)
LEMMA SegmentIsValid ==
  ASSUME NEW cue, ValidCue(cue)
  PROVE  ValidCandidate(SegmentCandidate(cue))
<1> DEFINE d == SegmentCandidate(cue)
<1>1. /\ Fields \subseteq DOMAIN d
      /\ d.start = cue.start /\ d.end = cue.end /\ d.translated = <<>> /\ d.units = <<>>
      /\ d.records = <<>> /\ d.cues = <<cue>> /\ d.spans = <<>> /\ d.signals = {}
      /\ d.profile = None /\ d.event = None /\ d.series = None /\ d.index = None
  BY DEF SegmentCandidate, Fields
<1> HIDE DEF d
<1>2. ForSomeTime(cue)
  BY DEF ValidCue
<1>3. Plain(d)
  BY <1>1, <1>2 DEF Plain, ForSomeTime
<1>4. ValidCues(d, d.cues)
  <2>1. DOMAIN <<cue>> = {1} /\ Range(<<cue>>) = {cue}
    BY DEF Range
  <2>2. Overlaps(cue, d)
    BY <1>1, <1>2 DEF Overlaps, ForSomeTime
  <2> QED BY <1>1, <2>1, <2>2, CuesAreValid
<1>5. ValidSpans(d)
  <2>1. DOMAIN <<>> = {} /\ Range(<<>>) = {}
    BY DEF Range
  <2> QED BY <1>1, <2>1 DEF ValidSpans, StartsInOrder
<1>6. ValidSignals(d) /\ ValidSeries(d)
  BY <1>1 DEF ValidSignals, ValidSeries
<1>7. ValidCandidate(d)
  BY <1>3, <1>4, <1>5, <1>6, PlainIsValid
<1> QED BY <1>7 DEF d

LEMMA TranscriptIsValid ==
  ASSUME NEW cues, LectureCues(cues), NEW lasts, "error" \notin DOMAIN TranscriptToPlan(cues, lasts),
         NEW x \in Range(TranscriptToPlan(cues, lasts).candidates)
  PROVE  ValidCandidate(x)
<1> DEFINE made == TranscriptToPlan(cues, lasts)
           candidates == [n \in DOMAIN cues |-> SegmentCandidate(cues[n])]
           p == [candidates |-> candidates, lasts |-> lasts, segments |-> {y.id : y \in Range(cues)},
                 selected |-> [id \in {c.id : c \in Range(candidates)} |->
                                \E c \in Range(candidates) : c.id = id /\ SelectsSegment(c)]]
<1>1. made = CutPlan(p) /\ p.candidates = candidates
  BY DEF TranscriptToPlan, PlanOver
<1> HIDE DEF made, p
<1>2. "error" \notin DOMAIN made /\ x \in Range(made.candidates)
  BY DEF made
<1>3. x \in Range(candidates)
  BY <1>1, <1>2, PlansAreOfClips
<1>4. PICK n \in DOMAIN cues : x = SegmentCandidate(cues[n])
  BY <1>3 DEF Range
<1>5. ValidCue(cues[n])
  BY DEF LectureCues, InOrder, ValidCue, Range
<1> QED BY <1>4, <1>5, SegmentIsValid

LEMMA SportsAreValid ==
  ASSUME NEW bundle, NEW refs, NEW lasts, NEW records, NEW request, NEW made,
         made = CreateSportsPlan(bundle, refs, lasts, records, request), "error" \notin DOMAIN made,
         NEW x \in Range(made.candidates)
  PROVE  ValidCandidate(x)
<1> DEFINE found == ProposeSportsCandidates(bundle, lasts)
           events == EventsOf(bundle)
           candidates == [n \in DOMAIN events |->
                            SportsCandidate(events[n], CandidateRange(events[n], lasts))]
           chosen == SelectSports(found.candidates, request)
           p == [candidates |-> found.candidates, lasts |-> lasts,
                 segments |-> {y.id : y \in Range(bundle)},
                 selected |-> [id \in {c.id : c \in Range(found.candidates)} |-> id \in chosen]]
<1>1. "error" \in DOMAIN Failure("ValueError")
  BY DEF Failure
<1>2. \/ found = Failure("ValueError")
      \/ found = [candidates |-> candidates] /\ \A c \in Range(candidates) : ValidCandidate(c)
  BY DEF ProposeSportsCandidates
<1> HIDE DEF candidates
<1>3. found.candidates = candidates \/ "error" \in DOMAIN found
  BY <1>1, <1>2
<1>4. "error" \notin DOMAIN found => \A c \in Range(found.candidates) : ValidCandidate(c)
  BY <1>1, <1>2
<1>5. \/ made = found /\ "error" \in DOMAIN found
      \/ made = Failure("ValueError")
      \/ made = CutPlan(p) /\ "error" \notin DOMAIN found
  BY DEF CreateSportsPlan, PlanOver
<1>6. p.candidates = found.candidates
  OBVIOUS
<1> HIDE DEF p, found
<1>7. made = CutPlan(p) /\ "error" \notin DOMAIN found
  BY <1>1, <1>5
<1>8. made.candidates = found.candidates
  BY <1>6, <1>7, PlansAreOfClips
<1> QED BY <1>4, <1>7, <1>8

-----------------------------------------------------------------------------
(* What is proposed of a lecture is sound, and what is planned is valid.   *)
PlanInv ==
  /\ ShownInv /\ PlansAreValid
  /\ input.kind = "lecture" /\ proposed # None =>
       \A c \in Range(proposed.candidates) : Sound(c)

LEMMA PlanStep ==
  ASSUME \A i \in Inputs : i.kind = "lecture" => FollowOn(i.cues) /\ TakesTime(i.cues),
         PlanInv, [LibraryNext]_libraryVars
  PROVE  PlanInv'
<1>1. ShownInv'
  BY ShownStep DEF PlanInv
<1>2. /\ input \in Inputs /\ input' = input
      /\ input.kind = "lecture" => /\ LectureCues(input.cues) /\ FollowOn(input.cues)
                                   /\ TakesTime(input.cues)
      /\ input.kind = "lecture" =>
           /\ heard # None => heard = SemanticSourceSpans(input.cues)
           /\ proposed # None => Clips(proposed.candidates)
           /\ proposed # None => \A c \in Range(proposed.candidates) : Sound(c)
  <2>1. input \in Inputs
    BY DEF PlanInv, ShownInv
  <2>2. input' = input
    BY DEF LibraryNext, libraryVars, ReadLecture, ProposeEducational, CreatePlan, PlanEducational,
           ProcessSubtitles, DetectSports, ProposeSports, PlanSports, Reframe, Resize, LayOut
  <2> QED BY <2>1, <2>2, LectureConstants DEF PlanInv, ShownInv, LectureCues
<1>3. ASSUME plan' = plan PROVE PlansAreValid'
  BY <1>3 DEF PlanInv, PlansAreValid, Made
<1>4. ASSUME input.kind = "lecture" => proposed' = proposed, PlansAreValid' PROVE PlanInv'
  BY <1>1, <1>2, <1>4 DEF PlanInv
<1>5. ASSUME ProposeEducational PROVE PlanInv'
  <2>1. input.kind = "lecture" /\ heard # None /\ plan' = plan
    BY <1>5 DEF ProposeEducational
  <2>w. PICK windows \in {IF heard.valid THEN WindowsOf(heard.spans) ELSE <<>>} :
          \E valid \in {heard.valid /\ CanPropose(input.cues, heard.spans, windows)} :
            proposed' = [windows |-> windows, valid |-> valid,
                         candidates |-> IF valid
                           THEN ProposedFrom(input.cues, heard.spans, windows) ELSE <<>>]
    BY <1>5, Zenon DEF ProposeEducational
  <2>2. PICK valid \in {heard.valid /\ CanPropose(input.cues, heard.spans, windows)} :
          proposed' = [windows |-> windows, valid |-> valid,
                       candidates |-> IF valid
                         THEN ProposedFrom(input.cues, heard.spans, windows) ELSE <<>>]
    BY <2>w, Zenon
  <2>3. ASSUME heard.valid, CanPropose(input.cues, heard.spans, windows)
        PROVE  \A c \in Range(ProposedFrom(input.cues, heard.spans, windows)) : Sound(c)
    <3>1. windows = WindowsOf(heard.spans)
      BY <2>w, <2>3
    <3> QED BY <1>2, <2>1, <2>3, <3>1, ProposedAreSound
  <2>4. Range(<<>>) = {}
    BY DEF Range
  <2>5. /\ proposed'.candidates = IF valid THEN ProposedFrom(input.cues, heard.spans, windows)
                                  ELSE <<>>
        /\ valid => heard.valid /\ CanPropose(input.cues, heard.spans, windows)
    BY <2>2
  <2>6. \A c \in Range(proposed'.candidates) : Sound(c)
    BY <2>3, <2>4, <2>5
  <2> QED BY <1>1, <1>3, <2>1, <2>6 DEF PlanInv
<1>6. ASSUME NEW said \in Sayings, PlanEducational(said) PROVE PlanInv'
  <2>1. input.kind = "lecture" /\ proposed # None /\ proposed' = proposed
    BY <1>6 DEF PlanEducational
  <2>2. PICK request \in {Request(said.said, said.topics)} :
          plan' = [request |-> request,
                   made |-> CreateEducationalPlan(input.cues, input.lasts, proposed, request)]
    BY <1>6 DEF PlanEducational
  <2>3. plan'.made = CreateEducationalPlan(input.cues, input.lasts, proposed, request)
    BY <2>2
  <2>4. ASSUME Made(plan)', NEW c \in Range(plan'.made.candidates) PROVE ValidCandidate(c)
    <3>1. "error" \notin DOMAIN plan'.made
      BY <2>4 DEF Made
    <3>2. plan'.made.candidates = PrepareAll(proposed.candidates)
      BY <2>3, <3>1, EducationalClips
    <3> QED BY <1>2, <2>1, <2>4, <3>2, AllPreparedAreValid
  <2>5. PlansAreValid'
    BY <2>4 DEF PlansAreValid
  <2> QED BY <1>4, <2>1, <2>5
<1>7. ASSUME CreatePlan PROVE PlanInv'
  <2>1. input.kind = "lecture" /\ proposed' = proposed
        /\ plan'.made = TranscriptToPlan(input.cues, input.lasts)
    BY <1>7 DEF CreatePlan
  <2>2. ASSUME Made(plan)', NEW c \in Range(plan'.made.candidates) PROVE ValidCandidate(c)
    <3>1. "error" \notin DOMAIN plan'.made
      BY <2>2 DEF Made
    <3> QED BY <1>2, <2>1, <2>2, <3>1, TranscriptIsValid
  <2>3. PlansAreValid'
    BY <2>2 DEF PlansAreValid
  <2> QED BY <1>4, <2>1, <2>3
<1>8. ASSUME NEW said \in SportsSayings, PlanSports(said) PROVE PlanInv'
  <2>1. input.kind # "lecture"
    BY <1>8 DEF PlanSports
  <2>2. PICK request \in {SportsRequest(said)} :
          plan' = [request |-> request,
                   made |-> IF "error" \in DOMAIN request THEN request
                            ELSE CreateSportsPlan(Observations, input.refs, input.lasts, Providers, request)]
    BY <1>8 DEF PlanSports
  <2>3. \/ plan'.made = request /\ "error" \in DOMAIN request
        \/ plan'.made = CreateSportsPlan(Observations, input.refs, input.lasts, Providers, request)
    BY <2>2
  <2>4. ASSUME Made(plan)', NEW c \in Range(plan'.made.candidates) PROVE ValidCandidate(c)
    <3>1. "error" \notin DOMAIN plan'.made
      BY <2>4 DEF Made
    <3>2. plan'.made = CreateSportsPlan(Observations, input.refs, input.lasts, Providers, request)
      BY <2>3, <3>1
    <3> QED BY <2>4, <3>1, <3>2, SportsAreValid
  <2>5. PlansAreValid'
    BY <2>4 DEF PlansAreValid
  <2> QED BY <1>4, <2>1, <2>5
<1>9. ASSUME \/ ReadLecture \/ DetectSports \/ ProposeSports
             \/ \E c \in ClipsToShow, spec \in SubtitleSpecs, host \in Hosts :
                  ProcessSubtitles(c, spec, host)
             \/ \E frame \in Frames : Reframe(frame)
             \/ \E spec \in Resolutions : Resize(spec)
             \/ \E layout \in Layouts : LayOut(layout)
             \/ UNCHANGED libraryVars
      PROVE  PlanInv'
  <2>1. plan' = plan /\ (input.kind = "lecture" => proposed' = proposed)
    BY <1>9 DEF ReadLecture, DetectSports, ProposeSports, ProcessSubtitles, Reframe, Resize,
                LayOut, libraryVars
  <2> QED BY <1>3, <1>4, <2>1
<1> QED BY <1>5, <1>6, <1>7, <1>8, <1>9 DEF LibraryNext

(* Every candidate of a plan that was made is one that can be validated    *)
(* again, so that the plan can be read again: those of a sports plan and   *)
(* of the segments of a transcript always, and, where the cues do not      *)
(* overlap and everything that is said takes time, those that are          *)
(* prepared of educational proposals, whichever of them were split.        *)
THEOREM PlansCanBeReadAgain ==
  ASSUME \A i \in Inputs : i.kind = "lecture" => FollowOn(i.cues) /\ TakesTime(i.cues)
  PROVE  LibraryInit /\ [][LibraryNext]_libraryVars => []PlansAreValid
<1>1. LibraryInit => PlanInv
  BY ShownStart DEF LibraryInit, PlanInv, PlansAreValid, Made
<1>2. PlanInv /\ [LibraryNext]_libraryVars => PlanInv'
  BY PlanStep
<1>3. PlanInv => PlansAreValid
  BY DEF PlanInv
<1> QED BY <1>1, <1>2, <1>3, PTL

-----------------------------------------------------------------------------
(* Games: what belongs to one moment has one key.                          *)
Timely(s) == s \in Seq(Range(s)) /\ \A o \in Range(s) : ForSomeTime(o)
Bundle(b) ==
  /\ Timely(b)
  /\ \A k, n \in DOMAIN b : b[k].id = b[n].id => k = n
Started(s) == \A k, l \in 1..Len(s) : k < l => s[k].start <= s[l].start

LEMMA SortedByStart ==
  ASSUME NEW b, Bundle(b)
  PROVE  Timely(ByStart(b)) /\ Range(ByStart(b)) = Range(b) /\ Started(ByStart(b))
<1> DEFINE I == 1..Len(b)
           R == EarlierIn(b)
           p == OrderedBy(I, R)
           s == [n \in DOMAIN p |-> b[p[n]]]
<1>1. /\ DOMAIN b = I /\ Len(b) \in Nat /\ IsFiniteSet(I)
      /\ \A n \in I : b[n] \in Range(b) /\ b[n].start \in Nat
  <2>1. DOMAIN b = I /\ Len(b) \in Nat
    BY LenProperties DEF Bundle, Timely
  <2>2. IsFiniteSet(I)
    BY <2>1, FS_Interval
  <2> QED BY <2>1, <2>2 DEF Bundle, Timely, Range, ForSomeTime
<1>2. ByStart(b) = s
  BY <1>1 DEF ByStart
<1>3. \A x, y \in I : <<x, y>> \in R <=>
       (b[x].start < b[y].start \/ (b[x].start = b[y].start /\ x < y))
  BY <1>1 DEF EarlierIn
<1>4. StrictOrder(R, I)
  <2> HIDE DEF R
  <2>1. \A x \in I : x \in Nat /\ b[x].start \in Nat
    BY <1>1
  <2> HIDE DEF I
  <2>2. \A x \in I : <<x, x>> \notin R
    BY <1>3, <2>1
  <2>3. \A x, y \in I : x # y => <<x, y>> \in R \/ <<y, x>> \in R
    BY <1>3, <2>1
  <2>4. ASSUME NEW x \in I, NEW y \in I, NEW z \in I, <<x, y>> \in R, <<y, z>> \in R
        PROVE  <<x, z>> \in R
    BY <1>3, <2>1, <2>4
  <2> QED BY <2>2, <2>3, <2>4 DEF StrictOrder
<1>5. /\ Taken(p, I, R, Cardinality(I)) /\ Cardinality(I) \in Nat
      /\ \A x \in I : \E k \in 1..Len(p) : p[k] = x
  <2> HIDE DEF R, I
  <2> QED BY <1>1, <1>4, OrderedFacts
<1> HIDE DEF p, R
<1>6. /\ p \in Seq(I) /\ Len(p) \in Nat /\ DOMAIN p = 1..Len(p) /\ \A k \in 1..Len(p) : p[k] \in I
      /\ \A k, l \in 1..Len(p) : k < l => <<p[k], p[l]>> \in R
  <2>1. p \in Seq(I) /\ Len(p) = Cardinality(I)
    BY <1>5 DEF Taken
  <2>2. DOMAIN p = 1..Len(p) /\ \A k \in 1..Len(p) : p[k] \in I
    BY <2>1, LenProperties, ElementOfSeq
  <2> QED BY <1>5, <2>1, <2>2 DEF Taken
<1>7. /\ s \in Seq(Range(b)) /\ Len(s) = Len(p)
      /\ \A k \in 1..Len(p) : s[k] = b[p[k]]
  <2>1. s \in [1..Len(p) -> Range(b)]
    BY <1>1, <1>6
  <2> HIDE DEF s
  <2>2. s \in Seq(Range(b)) /\ Len(s) = Len(p)
    BY <1>6, <2>1
  <2> QED BY <1>6, <2>2 DEF s
<1>8. Range(s) = Range(b)
  <2>1. DOMAIN s = 1..Len(p)
    BY <1>6
  <2>2. \A o \in Range(s) : o \in Range(b)
    BY <1>1, <1>6, <1>7, <2>1 DEF Range
  <2>3. ASSUME NEW o \in Range(b) PROVE o \in Range(s)
    <3>1. PICK x \in I : o = b[x]
      BY <1>1 DEF Range
    <3>2. PICK k \in 1..Len(p) : p[k] = x
      BY <1>5
    <3> QED BY <1>7, <2>1, <3>1, <3>2 DEF Range
  <2> QED BY <2>2, <2>3
<1>9. Started(s)
  <2> SUFFICES ASSUME NEW k \in 1..Len(p), NEW l \in 1..Len(p), k < l
               PROVE  s[k].start <= s[l].start
    BY <1>7 DEF Started
  <2>1. <<p[k], p[l]>> \in R /\ p[k] \in I /\ p[l] \in I
    BY <1>6
  <2>2. b[p[k]].start \in Nat /\ b[p[l]].start \in Nat
    BY <1>1, <2>1
  <2> QED BY <1>3, <1>7, <2>1, <2>2
<1> QED BY <1>2, <1>7, <1>8, <1>9 DEF Bundle, Timely

(* The keys up to n, the cluster that is open, and where it ends.          *)
Adding(s) == [clusters : Nat, end : Nat \cup {None}, keys : Seq(Int \cup {o.key : o \in Range(s)})]
Soon(s, i, j) == s[j].start <= s[i].end + ClusterGap
InClusters(a, s, n) ==
  /\ a \in Adding(s) /\ Len(a.keys) = n
  /\ n > 0 => a.end # None /\ \A k \in 1..n : s[k].end <= a.end
  /\ \A i \in 1..n : s[i].key = None =>
       a.keys[i] = -a.clusters \/ \E m \in 1..n : ~Soon(s, i, m)
  /\ \A i, j \in 1..n : i < j /\ s[i].key = None /\ s[j].key = None /\ Soon(s, i, j) =>
       a.keys[i] = a.keys[j]

LEMMA AddingStays ==
  ASSUME NEW s, Timely(s),
         NEW n \in 1..Len(s), NEW a \in Adding(s)
  PROVE  AddObservation(a, s[n]) \in Adding(s)
<1> DEFINE K == Int \cup {o.key : o \in Range(s)}
           o == s[n]
           opens == o.key = None /\ (a.end = None \/ o.start - a.end > ClusterGap)
           clusters == IF opens THEN a.clusters + 1 ELSE a.clusters
           end == IF a.end # None /\ a.end > o.end THEN a.end ELSE o.end
           key == IF o.key = None THEN -clusters ELSE o.key
<1>1. o \in Range(s) /\ o.end \in Nat /\ o.key \in K
  <2>1. o \in Range(s)
    BY ElementOfSeq DEF Timely
  <2> QED BY <2>1 DEF Timely, ForSomeTime
<1>2. a.clusters \in Nat /\ a.end \in Nat \cup {None} /\ a.keys \in Seq(K)
  BY DEF Adding
<1>3. clusters \in Nat /\ end \in Nat \cup {None}
  BY <1>1, <1>2
<1>4. key \in K
  BY <1>1, <1>3
<1>5. Append(a.keys, key) \in Seq(K)
  BY <1>2, <1>4, AppendProperties
<1>6. AddObservation(a, o) = [clusters |-> clusters, end |-> end, keys |-> Append(a.keys, key)]
  BY DEF AddObservation
<1> HIDE DEF clusters, end, key, K
<1> QED BY <1>3, <1>5, <1>6 DEF Adding, K

LEMMA StaysInClusters ==
  ASSUME NEW s, Timely(s), Started(s),
         NEW n \in Nat, n + 1 <= Len(s), NEW a, InClusters(a, s, n)
  PROVE  InClusters(AddObservation(a, s[n + 1]), s, n + 1)
<1> DEFINE K == Int \cup {o.key : o \in Range(s)}
           o == s[n + 1]
           opens == o.key = None /\ (a.end = None \/ o.start - a.end > ClusterGap)
           clusters == IF opens THEN a.clusters + 1 ELSE a.clusters
           end == IF a.end # None /\ a.end > o.end THEN a.end ELSE o.end
           key == IF o.key = None THEN -clusters ELSE o.key
           keys == Append(a.keys, key)
           b == AddObservation(a, o)
<1>1. Len(s) \in Nat /\ \A k \in 1..Len(s) : s[k].start \in Nat /\ s[k].end \in Nat
  <2>1. Len(s) \in Nat /\ \A k \in 1..Len(s) : s[k] \in Range(s)
    BY LenProperties, ElementOfSeq DEF Timely
  <2> QED BY <2>1 DEF Timely, ForSomeTime
<1>2. n + 1 \in 1..Len(s) /\ \A k \in 1..n : k \in 1..Len(s) /\ k < n + 1
  BY <1>1
<1>3. a \in Adding(s) /\ Len(a.keys) = n
  BY DEF InClusters
<1>4. b \in Adding(s)
  BY <1>2, <1>3, AddingStays
<1>5. a.clusters \in Nat /\ a.end \in Nat \cup {None} /\ a.keys \in Seq(K)
  BY <1>3 DEF Adding
<1>6. b = [clusters |-> clusters, end |-> end, keys |-> keys]
  BY DEF AddObservation
<1>7. key \in K
  <2>1. o \in Range(s)
    BY <1>2, ElementOfSeq DEF Timely
  <2> QED BY <1>5, <2>1
<1>8. Len(keys) = n + 1 /\ keys[n + 1] = key /\ \A k \in 1..n : keys[k] = a.keys[k]
  BY <1>3, <1>5, <1>7, AppendProperties
<1> HIDE DEF keys, key, b
<1>9. end # None /\ \A k \in 1..(n + 1) : s[k].end <= end
  <2>1. o.end \in Nat
    BY <1>1, <1>2
  <2>2. n > 0 => a.end # None /\ a.end \in Nat /\ \A k \in 1..n : s[k].end <= a.end
    BY <1>5 DEF InClusters
  <2>3. end \in Nat /\ o.end <= end
    BY <1>5, <2>1
  <2>4. ASSUME NEW k \in 1..n PROVE s[k].end <= end
    <3>1. s[k].end \in Nat /\ s[k].end <= a.end /\ a.end # None /\ a.end \in Nat
      BY <1>1, <1>2, <2>2
    <3>2. a.end <= end
      BY <2>1, <3>1
    <3> HIDE DEF end
    <3> QED BY <2>3, <3>1, <3>2
  <2>5. \A k \in 1..(n + 1) : k \in 1..n \/ k = n + 1
    OBVIOUS
  <2> HIDE DEF end
  <2> QED BY <2>3, <2>4, <2>5, NoneIsNoName
<1> HIDE DEF end
<1>10. ClusterGap \in Nat
  BY SportsConstants
<1>11. opens => \A i \in 1..n : ~Soon(s, i, n + 1)
  <2> SUFFICES ASSUME opens, NEW i \in 1..n PROVE ~Soon(s, i, n + 1)
    OBVIOUS
  <2>1. a.end \in Nat /\ s[i].end <= a.end
    BY <1>5 DEF InClusters
  <2>2. o.start - a.end > ClusterGap
    BY <2>1, NoneIsNoName
  <2> QED BY <1>1, <1>2, <1>10, <2>1, <2>2 DEF Soon
<1>12. ASSUME NEW i \in 1..(n + 1), s[i].key = None
       PROVE  keys[i] = -clusters \/ \E m \in 1..(n + 1) : ~Soon(s, i, m)
  <2>1. CASE i = n + 1
    BY <1>8, <1>12, <2>1 DEF key
  <2>2. CASE i \in 1..n
    <3>1. a.keys[i] = -a.clusters \/ \E m \in 1..n : ~Soon(s, i, m)
      BY <1>12, <2>2 DEF InClusters
    <3>2. CASE opens
      BY <1>11, <2>2, <3>2
    <3>3. CASE ~opens
      BY <1>8, <2>2, <3>1, <3>3
    <3> QED BY <3>2, <3>3
  <2> QED BY <2>1, <2>2
<1>13. ASSUME NEW i \in 1..(n + 1), NEW j \in 1..(n + 1), i < j,
              s[i].key = None, s[j].key = None, Soon(s, i, j)
       PROVE  keys[i] = keys[j]
  <2>1. i \in 1..n
    BY <1>13
  <2>2. CASE j \in 1..n
    <3>1. a.keys[i] = a.keys[j]
      BY <1>13, <2>1, <2>2 DEF InClusters
    <3> QED BY <1>8, <2>1, <2>2, <3>1
  <2>3. CASE j = n + 1
    <3>1. ~opens
      BY <1>11, <1>13, <2>1, <2>3
    <3>2. \A m \in 1..n : Soon(s, i, m)
      <4> SUFFICES ASSUME NEW m \in 1..n PROVE Soon(s, i, m)
        OBVIOUS
      <4>1. s[m].start <= s[n + 1].start
        BY <1>2 DEF Started
      <4> QED BY <1>1, <1>2, <1>10, <1>13, <2>1, <2>3, <4>1 DEF Soon
    <3>3. a.keys[i] = -a.clusters
      BY <1>13, <2>1, <3>2 DEF InClusters
    <3> QED BY <1>8, <1>13, <2>1, <2>3, <3>1, <3>3 DEF key
  <2> QED BY <2>2, <2>3
<1>14. b.keys = keys /\ b.end = end /\ b.clusters = clusters
  BY <1>6
<1> HIDE DEF clusters, opens
<1> QED BY <1>4, <1>8, <1>9, <1>12, <1>13, <1>14 DEF InClusters, b

LEMMA KeysAre ==
  ASSUME NEW s, Timely(s), Started(s)
  PROVE  LET keys == KeysOf(s) IN
         /\ keys \in Seq(Range(keys)) /\ Len(keys) = Len(s)
         /\ \A i, j \in 1..Len(s) : i < j /\ s[i].key = None /\ s[j].key = None /\ Soon(s, i, j) =>
              keys[i] = keys[j]
<1> DEFINE N == Len(s)
           D == Adding(s)
           step == [x \in D \X (1..N) |-> AddObservation(x[1], s[x[2]])]
           Is(g) == g = [n \in 0..N |-> IF n = 0 THEN NothingAdded ELSE AddObservation(g[n - 1], s[n])]
           h == CHOOSE h : Is(h)
<1>1. N \in Nat
  BY LenProperties DEF Timely
<1>2. NothingAdded \in D
  BY EmptySeq DEF NothingAdded, Adding
<1>3. step \in [D \X (1..N) -> D]
  BY AddingStays
<1>4. KeysOf(s) = h[N].keys
  BY DEF KeysOf
<1> HIDE DEF N, D
<1>5. PICK g : Steps(g, D, NothingAdded, step, N)
  BY <1>1, <1>2, <1>3, StepsExist
<1>6. ASSUME NEW k \in 1..N PROVE g[k] = AddObservation(g[k - 1], s[k])
  <2> HIDE DEF step
  <2>1. g[k - 1] \in D /\ g[k] = step[<<g[k - 1], k>>]
    BY <1>1, <1>5 DEF Steps
  <2>2. step[<<g[k - 1], k>>] = AddObservation(g[k - 1], s[k])
    BY <2>1 DEF step
  <2> QED BY <2>1, <2>2
<1> HIDE DEF step
<1>7. DOMAIN g = 0..N /\ g = [k \in DOMAIN g |-> g[k]] /\ g[0] = NothingAdded
  BY <1>5 DEF Steps
<1>8. \A k \in 0..N : g[k] = IF k = 0 THEN NothingAdded ELSE AddObservation(g[k - 1], s[k])
  BY <1>1, <1>6, <1>7
<1>9. Is(g)
  BY <1>7, <1>8
<1>10. Is(h)
  BY <1>9
<1> HIDE DEF h
<1>11. DOMAIN h = 0..N /\ h[0] = NothingAdded
  BY <1>1, <1>10
<1>12. ASSUME NEW k \in 1..N PROVE h[k] = AddObservation(h[k - 1], s[k])
  BY <1>1, <1>10
<1> DEFINE S == {n \in Nat : n <= N => InClusters(h[n], s, n)}
<1>13. 0 \in S
  <2>1. Len(<<>>) = 0 /\ NothingAdded.keys = <<>>
    BY DEF NothingAdded
  <2> QED BY <1>2, <1>11, <2>1 DEF InClusters, D
<1>14. ASSUME NEW n \in S PROVE n + 1 \in S
  <2> SUFFICES ASSUME n + 1 <= N PROVE InClusters(h[n + 1], s, n + 1)
    OBVIOUS
  <2>0. n \in Nat /\ InClusters(h[n], s, n)
    BY <1>1
  <2>1. PICK k \in 1..N : k = n + 1 /\ k - 1 = n
    BY <1>1
  <2>2. h[n + 1] = AddObservation(h[n], s[n + 1])
    BY <1>12, <2>1
  <2> QED BY <2>0, <2>2, StaysInClusters DEF N
<1> HIDE DEF S
<1>15. S = Nat
  <2>1. S \in SUBSET Nat
    BY DEF S
  <2> QED BY <1>13, <1>14, <2>1, Induct
<1>16. InClusters(h[N], s, N)
  BY <1>1, <1>15 DEF S
<1> DEFINE keys == KeysOf(s)
<1>17. keys = h[N].keys
  BY <1>4
<1> HIDE DEF keys
<1>18. keys \in Seq(Range(keys)) /\ Len(keys) = N
  <2>1. keys \in Seq(Int \cup {o.key : o \in Range(s)}) /\ Len(keys) = N
    BY <1>16, <1>17 DEF InClusters, Adding
  <2> QED BY <2>1 DEF Range
<1>19. \A i, j \in 1..N : i < j /\ s[i].key = None /\ s[j].key = None /\ Soon(s, i, j) =>
         keys[i] = keys[j]
  BY <1>16, <1>17 DEF InClusters
<1> QED BY <1>18, <1>19 DEF N, keys

KeysFor(keys, s) == keys \in Seq(Range(keys)) /\ Len(keys) = Len(s)
HoldsOne(e, o) == o.id \in e.seen /\ e.start <= o.start /\ o.end <= e.end

LEMMA EventHolds ==
  ASSUME NEW s, Timely(s), NEW keys, KeysFor(keys, s),
         NEW key \in Range(keys)
  PROVE  LET e == EventOf(s, keys, key) IN
         /\ e.start \in Nat /\ e.end \in Nat
         /\ \A n \in 1..Len(s) : keys[n] = key => HoldsOne(e, s[n])
         /\ \A id \in e.seen : \E n \in 1..Len(s) : keys[n] = key /\ s[n].id = id
<1> DEFINE I == {n \in DOMAIN keys : keys[n] = key}
           seen == Those(s, I)
           R == Range(seen)
           starts == {x.start : x \in R}
           ends == {x.end : x \in R}
           e == EventOf(s, keys, key)
<1>1. DOMAIN keys = 1..Len(s) /\ Len(s) \in Nat
  BY LenProperties DEF Timely, KeysFor
<1>2. R = {s[n] : n \in I \cap 1..Len(s)} /\ seen \in Seq(Range(s))
  BY ThoseHas, ThoseFacts DEF Timely
<1>3. I \cap 1..Len(s) = {n \in 1..Len(s) : keys[n] = key}
  BY <1>1
<1>4. IsFiniteSet(R)
  <2> HIDE DEF seen
  <2> QED BY <1>2, RangeCounted
<1>5. e.start = FirstStart(R) /\ e.end = LastEnd(R) /\ e.seen = {o.id : o \in R}
  BY DEF EventOf
<1>6. /\ R # {} /\ \A o \in R : o.start \in Nat /\ o.end \in Nat
  <2>1. PICK n \in 1..Len(s) : keys[n] = key
    BY <1>1 DEF Range
  <2>2. s[n] \in R
    BY <1>2, <1>3, <2>1
  <2>3. \A o \in R : o \in Range(s)
    BY <1>2, ElementOfSeq DEF Timely
  <2> HIDE DEF R
  <2> QED BY <2>2, <2>3 DEF Timely, ForSomeTime
<1>7. \A n \in 1..Len(s) : keys[n] = key => s[n] \in R
  BY <1>2, <1>3
<1>8. ASSUME NEW id \in {o.id : o \in R} PROVE \E n \in 1..Len(s) : keys[n] = key /\ s[n].id = id
  BY <1>2, <1>3
<1> HIDE DEF R, e, seen
<1>9. e.start \in starts /\ \A o \in R : e.start <= o.start
  <2>1. starts # {} /\ starts \in SUBSET Nat
    BY <1>6
  <2>2. \E t \in starts : \A x \in R : t <= x.start
    <3>1. PICK t \in starts : \A u \in starts : t <= u
      BY <2>1, HasLeast
    <3> QED BY <3>1
  <2> QED BY <1>5, <2>2 DEF FirstStart
<1>10. e.end \in ends /\ \A o \in R : o.end <= e.end
  <2>1. ends # {} /\ ends \in SUBSET Nat
    BY <1>6
  <2>2. IsFiniteSet(ends)
    <3> DEFINE f == [x \in R |-> x.end]
    <3>1. f \in Surjection(R, ends)
      BY DEF Surjection
    <3> HIDE DEF f, ends
    <3> QED BY <1>4, <3>1, FS_Surjection
  <2>3. \E t \in ends : \A x \in R : t >= x.end
    <3> HIDE DEF ends
    <3>1. PICK t \in ends : \A u \in ends : t >= u
      BY <2>1, <2>2, LargestOf
    <3> QED BY <3>1 DEF ends
  <2>4. e.end \in ends /\ \A x \in R : e.end >= x.end
    BY <1>5, <2>3 DEF LastEnd
  <2> QED BY <1>6, <2>1, <2>4
<1>11. e.start \in Nat /\ e.end \in Nat
  BY <1>6, <1>9, <1>10
<1>12. ASSUME NEW n \in 1..Len(s), keys[n] = key PROVE HoldsOne(e, s[n])
  <2>1. s[n] \in R
    BY <1>7, <1>12
  <2> QED BY <1>5, <1>9, <1>10, <2>1 DEF HoldsOne
<1> QED BY <1>5, <1>8, <1>11, <1>12 DEF e

LEMMA EventForEach ==
  ASSUME NEW s, Timely(s), NEW keys, KeysFor(keys, s)
  PROVE  LET events == EventsIn(s, keys) IN
         /\ \A e \in Range(events) : \E key \in Range(keys) : e = EventOf(s, keys, key)
         /\ \A key \in Range(keys) : EventOf(s, keys, key) \in Range(events)
<1> DEFINE I == {n \in DOMAIN keys : \A k \in 1..(n - 1) : keys[k] # keys[n]}
           N == Len(keys)
           first == Increasing(I, N)
           events == [n \in DOMAIN first |-> EventOf(s, keys, keys[first[n]])]
<1>1. DOMAIN keys = 1..N /\ N \in Nat
  BY LenProperties DEF KeysFor
<1>2. AllInOrder(first, I, N)
  BY <1>1, IncreasingFacts
<1> HIDE DEF first
<1>3. DOMAIN first = 1..Len(first) /\ \A k \in 1..Len(first) : first[k] \in 1..N
  <2>1. first \in Seq(1..N)
    BY <1>2 DEF AllInOrder
  <2> QED BY <2>1, LenProperties, ElementOfSeq
<1>4. EventsIn(s, keys) = events
  BY DEF EventsIn, first
<1>5. ASSUME NEW e \in Range(events) PROVE \E key \in Range(keys) : e = EventOf(s, keys, key)
  <2>1. PICK k \in DOMAIN first : e = EventOf(s, keys, keys[first[k]])
    BY DEF Range
  <2>2. keys[first[k]] \in Range(keys)
    BY <1>1, <1>3 DEF Range
  <2> QED BY <2>1, <2>2
<1>6. ASSUME NEW key \in Range(keys) PROVE EventOf(s, keys, key) \in Range(events)
  <2> DEFINE S == {n \in 1..N : keys[n] = key}
  <2>1. S \in SUBSET Nat /\ S # {}
    BY <1>1 DEF Range
  <2>2. PICK n \in S : \A m \in S : n <= m
    BY <2>1, HasLeast
  <2>3. n \in I
    <3> SUFFICES ASSUME NEW k \in 1..(n - 1), keys[k] = keys[n] PROVE FALSE
      BY <1>1
    <3>1. k \in S /\ k < n
      BY <1>1
    <3> QED BY <2>2, <3>1
  <2>4. PICK k \in 1..Len(first) : first[k] = n
    BY <1>2, <2>3 DEF AllInOrder
  <2>5. k \in DOMAIN events /\ events[k] = EventOf(s, keys, key)
    BY <1>3, <2>4
  <2> QED BY <2>5 DEF Range
<1> QED BY <1>4, <1>5, <1>6

LEMMA RangeShows ==
  ASSUME NEW e, e.start \in Nat, e.end \in Nat, NEW lasts \in Nat
  PROVE  LET r == CandidateRange(e, lasts) IN
         /\ r.start \in Nat /\ r.end \in Int /\ r.start <= e.start
         /\ r.end >= e.end \/ r.end >= lasts \/ r.end - r.start = MostClip
<1> DEFINE start == IF 0 >= e.start - Margin THEN 0 ELSE e.start - Margin
           end == IF lasts <= e.end + Margin THEN lasts ELSE e.end + Margin
           missing == IF 0 >= LeastClip - (end - start) THEN 0 ELSE LeastClip - (end - start)
           half == missing \div 2
           first == IF 0 >= start - half THEN 0 ELSE start - half
           last == IF lasts <= end + missing - half THEN lasts ELSE end + missing - half
           r == CandidateRange(e, lasts)
<1>0. Margin \in Nat /\ LeastClip \in Nat /\ MostClip \in Nat
  BY SportsConstants
<1>1. start \in Nat /\ start <= e.start /\ start = Max({0, e.start - Margin})
  BY <1>0, LargerOfTwo, SmallerOfTwo
<1>2. end \in Nat /\ end = Min({lasts, e.end + Margin}) /\ (end >= e.end \/ end = lasts)
  BY <1>0, LargerOfTwo, SmallerOfTwo
<1> HIDE DEF start, end
<1>3. missing \in Nat /\ missing = Max({0, LeastClip - (end - start)})
  <2>1. start \in Int /\ end \in Int /\ LeastClip - (end - start) \in Int
    BY <1>0, <1>1, <1>2
  <2> QED BY <2>1, LargerOfTwo
<1> HIDE DEF missing
<1>4. half \in Nat /\ half <= missing
  BY <1>3
<1> HIDE DEF half
<1>5. first \in Nat /\ first <= start /\ first = Max({0, start - half})
  <2>1. start \in Nat /\ half \in Nat /\ start - half \in Int
    BY <1>1, <1>4
  <2>2. first \in Nat /\ first <= start
    BY <2>1
  <2>3. first = Max({0, start - half})
    BY <2>1, LargerOfTwo
  <2> QED BY <2>2, <2>3
<1>6. /\ last \in Nat /\ last = Min({lasts, end + missing - half})
      /\ last >= end \/ last = lasts
  <2>1. /\ end \in Nat /\ half \in Nat /\ missing \in Nat /\ half <= missing
        /\ end + missing - half \in Nat /\ end + missing - half >= end
    BY <1>2, <1>3, <1>4
  <2>2. last \in Nat /\ (last >= end \/ last = lasts)
    BY <2>1
  <2>3. last = Min({lasts, end + missing - half})
    BY <2>1, SmallerOfTwo
  <2> QED BY <2>2, <2>3
<1> HIDE DEF first, last
<1>7. r = [start |-> first, end |-> IF last - first > MostClip THEN first + MostClip ELSE last]
  BY <1>1, <1>2, <1>3, <1>5, <1>6 DEF CandidateRange, half
<1>8. r.start = first /\ r.end = IF last - first > MostClip THEN first + MostClip ELSE last
  BY <1>7
<1> HIDE DEF r
<1>9. r.start \in Nat /\ r.start <= e.start
  BY <1>1, <1>5, <1>8
<1>10. r.end \in Int
  BY <1>0, <1>5, <1>6, <1>8
<1>11. CASE last - first > MostClip
  BY <1>0, <1>5, <1>8, <1>9, <1>10, <1>11 DEF r
<1>12. CASE ~(last - first > MostClip)
  BY <1>2, <1>6, <1>8, <1>9, <1>10, <1>12 DEF r
<1> QED BY <1>11, <1>12

IsShownBy(c, o) == o.id \in c.event.seen
LEMMA MomentsAreWhole ==
  ASSUME NEW b, Bundle(b), NEW lasts \in Nat,
         NEW found, found = ProposeSportsCandidates(b, lasts), "error" \notin DOMAIN found
  PROVE  /\ \A x, y \in {o \in Range(b) : o.key = None} :
              y.start \in x.start..(x.end + ClusterGap) =>
                \E c \in Range(found.candidates) : IsShownBy(c, x) /\ IsShownBy(c, y)
         /\ \A c \in Range(found.candidates) : \A o \in Range(b) : IsShownBy(c, o) =>
              c.start <= o.start /\ (c.end >= Min({o.end, lasts}) \/ Duration(c) = MostClip)
<1> DEFINE s == ByStart(b)
           keys == KeysOf(s)
           events == EventsIn(s, keys)
           candidates == [n \in DOMAIN events |->
                            SportsCandidate(events[n], CandidateRange(events[n], lasts))]
<1>1. found.candidates = candidates
  <2>1. "error" \in DOMAIN Failure("ValueError")
    BY DEF Failure
  <2>2. \/ found = Failure("ValueError")
        \/ found = [candidates |-> candidates]
    BY DEF ProposeSportsCandidates, EventsOf
  <2> HIDE DEF candidates
  <2> QED BY <2>1, <2>2
<1>2. Timely(s) /\ Range(s) = Range(b) /\ Started(s)
  BY SortedByStart
<1> HIDE DEF s
<1>3. /\ KeysFor(keys, s)
      /\ \A i, j \in 1..Len(s) : i < j /\ s[i].key = None /\ s[j].key = None /\ Soon(s, i, j) =>
           keys[i] = keys[j]
  BY <1>2, KeysAre DEF KeysFor
<1> HIDE DEF keys
<1>4. /\ DOMAIN s = 1..Len(s) /\ Len(s) \in Nat /\ DOMAIN keys = 1..Len(s)
      /\ \A n \in 1..Len(s) : s[n] \in Range(s) /\ keys[n] \in Range(keys)
      /\ \A n \in 1..Len(s) : s[n].start \in Nat /\ s[n].end \in Nat /\ s[n].start < s[n].end
  <2>1. DOMAIN s = 1..Len(s) /\ Len(s) \in Nat /\ DOMAIN keys = 1..Len(s)
    BY <1>2, <1>3, LenProperties DEF Timely, KeysFor
  <2>2. \A n \in 1..Len(s) : s[n] \in Range(s) /\ keys[n] \in Range(keys)
    BY <2>1 DEF Range
  <2> QED BY <1>2, <2>1, <2>2 DEF Timely, ForSomeTime
<1>5. /\ \A e \in Range(events) : \E key \in Range(keys) : e = EventOf(s, keys, key)
      /\ \A key \in Range(keys) : EventOf(s, keys, key) \in Range(events)
  BY <1>2, <1>3, EventForEach
<1> HIDE DEF events
<1>6. ASSUME NEW n \in DOMAIN events
      PROVE  /\ candidates[n].event = events[n]
             /\ candidates[n].start = CandidateRange(events[n], lasts).start
             /\ candidates[n].end = CandidateRange(events[n], lasts).end
  BY DEF SportsCandidate
<1>7. ASSUME NEW i \in 1..Len(s), NEW j \in 1..Len(s), keys[i] = keys[j]
      PROVE  \E c \in Range(candidates) : IsShownBy(c, s[i]) /\ IsShownBy(c, s[j])
  <2> DEFINE e == EventOf(s, keys, keys[i])
  <2>1. e \in Range(events) /\ s[i].id \in e.seen /\ s[j].id \in e.seen
    BY <1>2, <1>3, <1>4, <1>5, <1>7, EventHolds DEF HoldsOne
  <2> HIDE DEF e
  <2>2. PICK n \in DOMAIN events : e = events[n]
    BY <2>1 DEF Range
  <2>3. candidates[n] \in Range(candidates) /\ candidates[n].event = e
    BY <1>6, <2>2 DEF Range
  <2> QED BY <2>1, <2>3 DEF IsShownBy
<1>8. ASSUME NEW x \in Range(b), NEW y \in Range(b), x.key = None, y.key = None,
             y.start \in x.start..(x.end + ClusterGap)
      PROVE  \E c \in Range(candidates) : IsShownBy(c, x) /\ IsShownBy(c, y)
  <2>1. PICK i \in 1..Len(s), j \in 1..Len(s) : x = s[i] /\ y = s[j]
    BY <1>2, <1>4 DEF Range
  <2>2. ClusterGap \in Nat
    BY SportsConstants
  <2>3. x.start <= y.start /\ y.start <= x.end + ClusterGap
    BY <1>4, <2>1, <2>2, <1>8
  <2>4. keys[i] = keys[j]
    <3>1. CASE i = j
      BY <3>1
    <3>2. CASE i < j
      <4>1. Soon(s, i, j)
        BY <2>1, <2>3 DEF Soon
      <4> QED BY <1>3, <1>8, <2>1, <3>2, <4>1
    <3>3. CASE j < i
      <4>1. s[j].start <= s[i].start
        BY <1>2, <3>3 DEF Started
      <4>2. Soon(s, j, i)
        BY <1>4, <2>1, <2>2, <2>3, <4>1 DEF Soon
      <4> QED BY <1>3, <1>8, <2>1, <3>3, <4>2
    <3> QED BY <1>4, <3>1, <3>2, <3>3
  <2> QED BY <1>7, <2>1, <2>4
<1>9. ASSUME NEW c \in Range(candidates), NEW o \in Range(b), IsShownBy(c, o)
      PROVE  c.start <= o.start /\ (c.end >= Min({o.end, lasts}) \/ Duration(c) = MostClip)
  <2>1. PICK n \in DOMAIN events : c = candidates[n]
    BY DEF Range
  <2> DEFINE e == events[n]
             r == CandidateRange(e, lasts)
  <2>2. e \in Range(events)
    BY DEF Range
  <2>3. PICK key \in Range(keys) : e = EventOf(s, keys, key)
    BY <1>5, <2>2
  <2>4. c.event = e /\ c.start = r.start /\ c.end = r.end
    BY <1>6, <2>1
  <2> HIDE DEF e, r
  <2>5. /\ e.start \in Nat /\ e.end \in Nat
        /\ \A m \in 1..Len(s) : keys[m] = key => HoldsOne(e, s[m])
        /\ \A id \in e.seen : \E m \in 1..Len(s) : keys[m] = key /\ s[m].id = id
    BY <1>2, <1>3, <2>3, EventHolds
  <2>6. PICK m \in 1..Len(s) : keys[m] = key /\ s[m].id = o.id
    BY <1>9, <2>4, <2>5 DEF IsShownBy
  <2>7. s[m] = o
    <3>1. s[m] \in Range(b)
      BY <1>2, <1>4
    <3> QED BY <2>6, <3>1 DEF Bundle, Range
  <2>8. e.start <= o.start /\ o.end <= e.end /\ o.start \in Nat /\ o.end \in Nat
    BY <1>4, <2>5, <2>6, <2>7 DEF HoldsOne
  <2>9. /\ r.start \in Nat /\ r.end \in Int /\ r.start <= e.start
        /\ r.end >= e.end \/ r.end >= lasts \/ r.end - r.start = MostClip
    BY <2>5, RangeShows DEF r
  <2>10. Min({o.end, lasts}) = IF o.end <= lasts THEN o.end ELSE lasts
    BY <2>8, LargerOfTwo, SmallerOfTwo
  <2>11. Duration(c) = c.end - c.start
    BY DEF Duration
  <2> QED BY <2>4, <2>5, <2>8, <2>9, <2>10, <2>11
<1> QED BY <1>1, <1>8, <1>9

GameInv ==
  /\ input \in Inputs
  /\ input.kind = "game" /\ proposed # None =>
       proposed = ProposeSportsCandidates(input.bundle, input.lasts)

LEMMA GameStep ==
  ASSUME GameInv, [LibraryNext]_libraryVars
  PROVE  GameInv'
<1>1. CASE UNCHANGED <<input, proposed>>
  BY <1>1 DEF GameInv
<1>2. CASE ProposeEducational
  BY <1>2 DEF ProposeEducational, GameInv
<1>3. CASE ProposeSports
  BY <1>3 DEF ProposeSports, GameInv, Observations
<1>4. CASE UNCHANGED libraryVars
  BY <1>1, <1>4 DEF libraryVars
<1>5. CASE \/ ReadLecture \/ CreatePlan \/ DetectSports
           \/ \E said \in Sayings : PlanEducational(said)
           \/ \E said \in SportsSayings : PlanSports(said)
           \/ \E c \in ClipsToShow, spec \in SubtitleSpecs, host \in Hosts : ProcessSubtitles(c, spec, host)
           \/ \E frame \in Frames : Reframe(frame)
           \/ \E spec \in Resolutions : Resize(spec)
           \/ \E layout \in Layouts : LayOut(layout)
  BY <1>1, <1>5 DEF ReadLecture, CreatePlan, DetectSports, PlanEducational, PlanSports,
                    ProcessSubtitles, Reframe, Resize, LayOut
<1> QED
  BY <1>2, <1>3, <1>4, <1>5 DEF LibraryNext

(* Two texts of one moment are always shown by one candidate: two          *)
(* observations without a key of which the later starts before the gap     *)
(* after the earlier is over, whatever keyed ones lie between them.  And   *)
(* what a candidate was made of lies inside it, except behind the end of   *)
(* the game or of a clip that is as long as one may be.                    *)
THEOREM MomentsAreShownWhole ==
  LibraryInit /\ [][LibraryNext]_libraryVars => []MomentIsShownWhole
<1>1. LibraryInit => GameInv
  BY DEF LibraryInit, GameInv
<1>2. GameInv /\ [LibraryNext]_libraryVars => GameInv'
  BY GameStep
<1>3. ASSUME GameInv PROVE MomentIsShownWhole
  <2> SUFFICES ASSUME input.kind = "game", proposed # None, "error" \notin DOMAIN proposed
               PROVE  MomentIsShownWhole
    BY DEF MomentIsShownWhole
  <2>1. /\ proposed = ProposeSportsCandidates(input.bundle, input.lasts)
        /\ Bundle(input.bundle) /\ input.lasts \in Nat
    BY <1>3, GameConstants DEF GameInv, Bundle, Timely, ValidBundle
  <2>2. /\ \A x, y \in {o \in Range(input.bundle) : o.key = None} :
              y.start \in x.start..(x.end + ClusterGap) =>
                \E c \in Range(proposed.candidates) : IsShownBy(c, x) /\ IsShownBy(c, y)
        /\ \A c \in Range(proposed.candidates) : \A o \in Range(input.bundle) : IsShownBy(c, o) =>
              c.start <= o.start /\ (c.end >= Min({o.end, input.lasts}) \/ Duration(c) = MostClip)
    BY <2>1, MomentsAreWhole
  <2>3. Moments = {o \in Range(input.bundle) : o.key = None} /\ Observations = input.bundle
    BY DEF Moments, Observations
  <2> QED BY <2>2, <2>3 DEF MomentIsShownWhole, IsShownBy
<1> QED BY <1>1, <1>2, <1>3, PTL

-----------------------------------------------------------------------------
(* Lectures: a new type of statement goes first.  Which of the ranked ones *)
(* the greedy loop has picked of the first n: each brought something, and  *)
(* if there is room, there is nothing left to bring.                       *)
Ones(r, K) == {r[k] : k \in K}
Brought(r, K) == UNION {StructureOf(r[k]) : k \in K}
Picked(g, r, count, n, K) ==
  /\ K \subseteq 1..n /\ IsFiniteSet(K) /\ Cardinality(K) = Len(g)
  /\ g \in Seq(Range(r)) /\ Range(g) = Ones(r, K) /\ Len(g) <= count
  /\ \A i, j \in 1..Len(g) : g[i] = g[j] => i = j
  /\ \A k \in K : ~(StructureOf(r[k]) \subseteq Brought(r, {j \in K : j < k}))
  /\ Len(g) < count => \A k \in 1..n : StructureOf(r[k]) \subseteq Brought(r, K)

LEMMA BroughtBy ==
  ASSUME NEW g, NEW r, NEW K, Range(g) = Ones(r, K)
  PROVE  CoveredBy(g) = Brought(r, K)
BY DEF CoveredBy, Brought, Ones

LEMMA PicksOneMore ==
  ASSUME NEW r, r \in Seq(Range(r)), \A i, j \in 1..Len(r) : r[i] = r[j] => i = j,
         NEW count \in Nat, NEW n \in Nat, n + 1 <= Len(r),
         NEW g, NEW K, Picked(g, r, count, n, K)
  PROVE  \E L : Picked(Pick(g, r[n + 1], count), r, count, n + 1, L)
<1> DEFINE c == r[n + 1]
           L == K \cup {n + 1}
           h == Append(g, c)
<1>1. /\ K \subseteq 1..n /\ IsFiniteSet(K) /\ Cardinality(K) = Len(g)
      /\ g \in Seq(Range(r)) /\ Range(g) = Ones(r, K) /\ Len(g) <= count
      /\ \A i, j \in 1..Len(g) : g[i] = g[j] => i = j
      /\ \A k \in K : ~(StructureOf(r[k]) \subseteq Brought(r, {j \in K : j < k}))
      /\ Len(g) < count => \A k \in 1..n : StructureOf(r[k]) \subseteq Brought(r, K)
  BY DEF Picked
<1>2. /\ Len(r) \in Nat /\ DOMAIN r = 1..Len(r) /\ n + 1 \in 1..Len(r) /\ c \in Range(r)
      /\ Len(g) \in Nat /\ DOMAIN g = 1..Len(g)
      /\ \A k \in 1..(n + 1) : k \in 1..n \/ k = n + 1
  BY <1>1, LenProperties DEF Range
<1>3. CoveredBy(g) = Brought(r, K)
  BY <1>1, BroughtBy
<1>4. ASSUME Len(g) = count \/ StructureOf(c) \subseteq CoveredBy(g)
      PROVE  Picked(g, r, count, n + 1, K)
  <2>1. K \subseteq 1..(n + 1)
    BY <1>1
  <2>2. Len(g) < count => \A k \in 1..(n + 1) : StructureOf(r[k]) \subseteq Brought(r, K)
    BY <1>1, <1>2, <1>3, <1>4
  <2> QED BY <1>1, <2>1, <2>2 DEF Picked
<1>5. ASSUME Len(g) # count, ~(StructureOf(c) \subseteq CoveredBy(g))
      PROVE  Picked(h, r, count, n + 1, L)
  <2>1. /\ h \in Seq(Range(r)) /\ Len(h) = Len(g) + 1 /\ h[Len(g) + 1] = c
        /\ \A k \in 1..Len(g) : h[k] = g[k]
    BY <1>1, <1>2, AppendProperties
  <2>2. Range(h) = Range(g) \cup {c}
    BY <1>1, AppendedRange
  <2> HIDE DEF h
  <2>3. n + 1 \notin K
    BY <1>1
  <2>4. L \subseteq 1..(n + 1) /\ IsFiniteSet(L) /\ Cardinality(L) = Len(h)
    <3>1. L \subseteq 1..(n + 1)
      BY <1>1
    <3>2. IsFiniteSet(L) /\ Cardinality(L) = Cardinality(K) + 1
      BY <1>1, <2>3, FS_AddElement
    <3> QED BY <1>1, <2>1, <3>1, <3>2
  <2>5. Range(h) = Ones(r, L)
    BY <1>1, <2>2 DEF Ones
  <2>6. Len(h) <= count
    BY <1>1, <1>2, <1>5, <2>1
  <2>7. \A i \in 1..Len(g) : g[i] # c
    <3> SUFFICES ASSUME NEW i \in 1..Len(g), g[i] = c PROVE FALSE
      OBVIOUS
    <3>0. c \in Range(g)
      <4>1. i \in DOMAIN g
        BY <1>2
      <4> QED BY <4>1 DEF Range
    <3>1. c \in Ones(r, K)
      BY <1>1, <3>0
    <3>2. PICK k \in K : r[k] = c
      BY <3>1 DEF Ones
    <3>3. k \in 1..n
      BY <1>1
    <3>4. k \in 1..Len(r) /\ k # n + 1
      BY <1>2, <3>3
    <3> QED BY <1>2, <3>2, <3>4
  <2>8. ASSUME NEW i \in 1..Len(h), NEW j \in 1..Len(h), h[i] = h[j] PROVE i = j
    <3>1. (i \in 1..Len(g) \/ i = Len(g) + 1) /\ (j \in 1..Len(g) \/ j = Len(g) + 1)
      BY <1>2, <2>1
    <3>2. CASE i \in 1..Len(g) /\ j \in 1..Len(g)
      BY <1>1, <2>1, <2>8, <3>2
    <3>3. CASE i \in 1..Len(g) /\ j = Len(g) + 1
      BY <2>1, <2>7, <2>8, <3>3
    <3>4. CASE i = Len(g) + 1 /\ j \in 1..Len(g)
      BY <2>1, <2>7, <2>8, <3>4
    <3> QED BY <3>1, <3>2, <3>3, <3>4
  <2>9. ASSUME NEW k \in L PROVE ~(StructureOf(r[k]) \subseteq Brought(r, {j \in L : j < k}))
    <3>1. CASE k \in K
      <4>1. {j \in L : j < k} = {j \in K : j < k}
        BY <1>1, <3>1
      <4> QED BY <1>1, <3>1, <4>1
    <3>2. CASE k = n + 1
      <4>1. {j \in L : j < k} = K
        <5>1. K \subseteq 1..n
          BY <1>1
        <5>2. \A j \in K : j < k
          BY <3>2, <5>1
        <5>3. \A j \in L : j \in K \/ j = k
          BY <3>2
        <5>4. ~(k < k)
          BY <3>2
        <5> QED BY <5>2, <5>3, <5>4
      <4> QED BY <1>3, <1>5, <3>2, <4>1
    <3> QED BY <3>1, <3>2
  <2>10. ASSUME Len(h) < count, NEW k \in 1..(n + 1)
         PROVE  StructureOf(r[k]) \subseteq Brought(r, L)
    <3>1. CASE k \in 1..n
      <4>1. StructureOf(r[k]) \subseteq Brought(r, K)
        BY <1>1, <1>2, <2>1, <2>10, <3>1
      <4>2. Brought(r, K) \subseteq Brought(r, L)
        BY DEF Brought
      <4> QED BY <4>1, <4>2
    <3>2. CASE k = n + 1
      BY <3>2 DEF Brought
    <3> QED BY <1>2, <3>1, <3>2
  <2> QED BY <2>1, <2>4, <2>5, <2>6, <2>8, <2>9, <2>10 DEF Picked
<1>6. Pick(g, c, count) = IF Len(g) = count \/ StructureOf(c) \subseteq CoveredBy(g) THEN g ELSE h
  BY DEF Pick
<1> QED BY <1>4, <1>5, <1>6

LEMMA GreedyPicks ==
  ASSUME NEW r, r \in Seq(Range(r)), \A i, j \in 1..Len(r) : r[i] = r[j] => i = j,
         NEW count \in Nat
  PROVE  \E K : Picked(Greedy(r, count), r, count, Len(r), K)
<1> DEFINE N == Len(r)
           D == Seq(Range(r))
           step == [a \in D \X (1..N) |-> Pick(a[1], r[a[2]], count)]
           Is(f) == f = [n \in 0..N |-> IF n = 0 THEN <<>> ELSE Pick(f[n - 1], r[n], count)]
           f == CHOOSE f : Is(f)
           S == {n \in Nat : n <= N => \E K : Picked(f[n], r, count, n, K)}
<1>0. N \in Nat /\ DOMAIN r = 1..N /\ \A n \in 1..N : r[n] \in Range(r)
  BY LenProperties DEF Range
<1>1. Greedy(r, count) = f[N]
  BY DEF Greedy
<1>2. Is(f)
  <2>1. step \in [D \X (1..N) -> D] /\ <<>> \in D
    <3> SUFFICES ASSUME NEW q \in D, NEW n \in 1..N PROVE Pick(q, r[n], count) \in D
      BY EmptySeq
    <3>1. Append(q, r[n]) \in D
      BY <1>0, AppendProperties
    <3> HIDE DEF D
    <3> QED BY <3>1 DEF Pick
  <2> HIDE DEF D
  <2>2. PICK g : Steps(g, D, <<>>, step, N)
    BY <1>0, <2>1, StepsExist
  <2>3. ASSUME NEW k \in 1..N PROVE g[k] = Pick(g[k - 1], r[k], count)
    <3> HIDE DEF step
    <3>0. N \in Nat /\ k - 1 \in 0..N
      BY <1>0
    <3> HIDE DEF N
    <3>1. g[k - 1] \in D /\ g[k] = step[<<g[k - 1], k>>]
      BY <2>2, <3>0 DEF Steps
    <3>2. step[<<g[k - 1], k>>] = Pick(g[k - 1], r[k], count)
      BY <3>1 DEF step
    <3> QED BY <3>1, <3>2
  <2>4. DOMAIN g = 0..N /\ g = [k \in DOMAIN g |-> g[k]]
    BY <2>2 DEF Steps
  <2>5. ASSUME NEW k \in 0..N PROVE g[k] = IF k = 0 THEN <<>> ELSE Pick(g[k - 1], r[k], count)
    <3>1. k = 0 \/ k \in 1..N
      BY <1>0
    <3>2. g[0] = <<>>
      BY <2>2 DEF Steps
    <3> QED BY <2>3, <3>1, <3>2
  <2>6. Is(g)
    BY <2>4, <2>5
  <2> QED BY <2>6
<1> HIDE DEF f
<1>3. f[0] = <<>> /\ \A k \in 1..N : f[k] = Pick(f[k - 1], r[k], count)
  <2>a. \A k \in 0..N : f[k] = IF k = 0 THEN <<>> ELSE Pick(f[k - 1], r[k], count)
    BY <1>2
  <2>1. 0 \in 0..N
    BY <1>0
  <2>2. ASSUME NEW k \in 1..N PROVE k \in 0..N /\ k # 0
    BY <1>0
  <2> QED BY <2>a, <2>1, <2>2
<1>4. 0 \in S
  <2>1. Range(<<>>) = {} /\ Ones(r, {}) = {}
    BY DEF Range, Ones
  <2>2. <<>> \in Seq(Range(r)) /\ Len(<<>>) = 0
    OBVIOUS
  <2>3. /\ {} \subseteq 1..0 /\ IsFiniteSet({}) /\ Cardinality({}) = Len(<<>>)
        /\ Len(<<>>) <= count /\ 1..Len(<<>>) = {}
    BY <2>2, FS_EmptySet
  <2>4. \A k \in 1..0 : FALSE
    OBVIOUS
  <2>5. Picked(<<>>, r, count, 0, {})
    BY <2>1, <2>2, <2>3, <2>4, Zenon DEF Picked
  <2> QED BY <1>3, <2>5
<1>5. ASSUME NEW n \in S PROVE n + 1 \in S
  <2> SUFFICES ASSUME n + 1 <= N PROVE \E K : Picked(f[n + 1], r, count, n + 1, K)
    OBVIOUS
  <2>1. n \in Nat /\ n + 1 \in 1..N /\ n + 1 - 1 = n /\ n <= N
    BY <1>0
  <2>2. PICK K : Picked(f[n], r, count, n, K)
    BY <2>1
  <2>3. f[n + 1] = Pick(f[n], r[n + 1], count)
    BY <1>3, <2>1
  <2> HIDE DEF S
  <2> QED BY <2>1, <2>2, <2>3, PicksOneMore
<1> HIDE DEF S
<1>6. S = Nat
  <2>1. S \in SUBSET Nat
    BY DEF S
  <2> QED BY <1>4, <1>5, <2>1, Induct
<1>7. \E K : Picked(f[N], r, count, N, K)
  BY <1>0, <1>6 DEF S
<1> QED BY <1>1, <1>7

(* What is selected: as many as are needed and there are, each once; and   *)
(* while there is something left to bring, each brought something.         *)
Selects(s, r, count) ==
  LET U == {k \in 1..Len(r) : r[k] \in Range(s)} IN
  /\ s \in Seq(Range(r)) /\ Len(s) = Min({count, Len(r)})
  /\ \A i, j \in 1..Len(s) : s[i] = s[j] => i = j
  /\ (\E n \in (1..Len(r)) \ U : ~(StructureOf(r[n]) \subseteq Brought(r, U))) =>
       \A k \in U : ~(StructureOf(r[k]) \subseteq Brought(r, {j \in U : j < k}))

LEMMA FullSelection ==
  ASSUME NEW r, r \in Seq(Range(r)), \A i, j \in 1..Len(r) : r[i] = r[j] => i = j,
         NEW count \in Nat, NEW g, NEW K, Picked(g, r, count, Len(r), K), ~(Len(g) < count)
  PROVE  Selects(SubSeq(g, 1, Min({count, Len(g)})), r, count)
<1> DEFINE N == Len(r)
           U == {k \in 1..N : r[k] \in Range(g)}
<1>1. /\ K \subseteq 1..N /\ IsFiniteSet(K) /\ Cardinality(K) = Len(g)
      /\ g \in Seq(Range(r)) /\ Range(g) = Ones(r, K) /\ Len(g) <= count
      /\ \A i, j \in 1..Len(g) : g[i] = g[j] => i = j
      /\ \A k \in K : ~(StructureOf(r[k]) \subseteq Brought(r, {j \in K : j < k}))
  BY DEF Picked
<1>2. N \in Nat /\ Len(g) = count
  BY <1>1, LenProperties
<1>3. count <= N
  <2> HIDE DEF N
  <2>0. IsFiniteSet(1..N) /\ Cardinality(1..N) = IF 1 > N THEN 0 ELSE N - 1 + 1
    BY <1>2, FS_Interval
  <2>1. IsFiniteSet(1..N) /\ Cardinality(1..N) = N
    BY <1>2, <2>0
  <2>2. Cardinality(K) <= Cardinality(1..N)
    BY <1>1, <2>1, FS_Subset
  <2> QED BY <1>1, <1>2, <2>1, <2>2
<1>4. SubSeq(g, 1, Min({count, Len(g)})) = g
  <2>1. Min({count, Len(g)}) = Len(g)
    BY <1>2, SmallerOfTwo
  <2> QED BY <1>1, <2>1, WholeAndEmpty
<1>5. Len(g) = Min({count, N})
  BY <1>2, <1>3, SmallerOfTwo
<1>6. U = K
  <2>1. ASSUME NEW k \in U PROVE k \in K
    <3>1. PICK j \in K : r[j] = r[k]
      BY <1>1 DEF Ones
    <3>2. j \in 1..N
      BY <1>1
    <3> QED BY <3>1, <3>2
  <2>2. ASSUME NEW k \in K PROVE k \in U
    BY <1>1 DEF Ones
  <2> QED BY <2>1, <2>2
<1> HIDE DEF U
<1>7. \A k \in U : ~(StructureOf(r[k]) \subseteq Brought(r, {j \in U : j < k}))
  BY <1>1, <1>6
<1>8. Selects(g, r, count)
  BY <1>1, <1>5, <1>7 DEF Selects, U
<1> QED BY <1>4, <1>8

LEMMA RestSelection ==
  ASSUME NEW r, r \in Seq(Range(r)), \A i, j \in 1..Len(r) : r[i] = r[j] => i = j,
         NEW count \in Nat, NEW g, NEW K, Picked(g, r, count, Len(r), K), Len(g) < count,
         NEW rest, rest = Those(r, {n \in DOMAIN r : r[n] \notin Range(g)})
  PROVE  Selects(SubSeq(g \o rest, 1, Min({count, Len(g \o rest)})), r, count)
<1> DEFINE N == Len(r)
           T == {n \in DOMAIN r : r[n] \notin Range(g)}
           p == Increasing(T, N)
           all == g \o rest
           m == Min({count, N})
           s == SubSeq(all, 1, m)
           U == {k \in 1..N : r[k] \in Range(s)}
<1>1. /\ K \subseteq 1..N /\ g \in Seq(Range(r)) /\ Range(g) = Ones(r, K)
      /\ \A i, j \in 1..Len(g) : g[i] = g[j] => i = j
      /\ \A k \in 1..N : StructureOf(r[k]) \subseteq Brought(r, K)
  BY DEF Picked
<1>2. /\ N \in Nat /\ DOMAIN r = 1..N /\ \A n \in 1..N : r[n] \in Range(r)
      /\ Len(g) \in Nat /\ DOMAIN g = 1..Len(g) /\ \A n \in 1..Len(g) : g[n] \in Range(g)
  BY <1>1, LenProperties DEF Range
<1>3. /\ AllInOrder(p, T, N) /\ rest \in Seq(Range(r)) /\ Len(rest) = Len(p)
      /\ \A k \in 1..Len(rest) : p[k] \in 1..N /\ rest[k] = r[p[k]]
      /\ Range(rest) = {r[n] : n \in T \cap 1..N}
  BY ThoseFacts, ThoseHas
<1>4. Len(rest) \in Nat /\ DOMAIN rest = 1..Len(rest)
  BY <1>3, LenProperties
<1> HIDE DEF p
<1>5. \A i, j \in 1..Len(rest) : rest[i] = rest[j] => i = j
  <2> SUFFICES ASSUME NEW i \in 1..Len(rest), NEW j \in 1..Len(rest), rest[i] = rest[j], i < j
               PROVE  FALSE
    BY <1>4
  <2>1. p[i] = p[j]
    BY <1>3
  <2>2. p[i] < p[j]
    BY <1>3 DEF AllInOrder
  <2>3. p[i] \in Nat
    BY <1>3
  <2> QED BY <2>1, <2>2, <2>3
<1>6. \A i \in 1..Len(rest) : rest[i] \notin Range(g)
  BY <1>3 DEF AllInOrder
<1>7. /\ all \in Seq(Range(r)) /\ Len(all) = Len(g) + Len(rest)
      /\ \A i \in 1..(Len(g) + Len(rest)) : all[i] = IF i <= Len(g) THEN g[i] ELSE rest[i - Len(g)]
  BY <1>1, <1>3, ConcatProperties
<1>8. DOMAIN all = 1..Len(all) /\ Len(all) \in Nat
  BY <1>7, LenProperties
<1> HIDE DEF all, T, N
<1>9. /\ \A i \in 1..Len(g) : i \in 1..Len(all) /\ all[i] = g[i]
      /\ \A i \in 1..Len(rest) : i + Len(g) \in 1..Len(all) /\ all[i + Len(g)] = rest[i]
      /\ \A i \in 1..Len(all) : i \in 1..Len(g) \/ (i - Len(g)) \in 1..Len(rest)
  <2>1. ASSUME NEW i \in 1..Len(g) PROVE i \in 1..Len(all) /\ all[i] = g[i]
    BY <1>2, <1>4, <1>7
  <2>2. ASSUME NEW i \in 1..Len(rest)
        PROVE  i + Len(g) \in 1..Len(all) /\ all[i + Len(g)] = rest[i]
    <3>1. /\ i + Len(g) \in 1..(Len(g) + Len(rest)) /\ ~(i + Len(g) <= Len(g))
          /\ i + Len(g) - Len(g) = i
      BY <1>2, <1>4
    <3> QED BY <1>7, <3>1
  <2>3. \A i \in 1..Len(all) : i \in 1..Len(g) \/ (i - Len(g)) \in 1..Len(rest)
    BY <1>2, <1>4, <1>7
  <2> QED BY <2>1, <2>2, <2>3
<1>10. \A i, j \in 1..Len(all) : all[i] = all[j] => i = j
  <2> SUFFICES ASSUME NEW i \in 1..Len(all), NEW j \in 1..Len(all), all[i] = all[j], i < j
               PROVE  FALSE
    BY <1>8
  <2>1. CASE j \in 1..Len(g)
    <3>1. i \in 1..Len(g)
      BY <2>1
    <3> QED BY <1>1, <1>9, <2>1, <3>1
  <2>2. CASE j \notin 1..Len(g)
    <3>1. (j - Len(g)) \in 1..Len(rest) /\ all[j] = rest[j - Len(g)]
      BY <1>2, <1>7, <1>9, <2>2
    <3>2. CASE i \in 1..Len(g)
      BY <1>2, <1>6, <1>9, <3>1, <3>2
    <3>3. CASE i \notin 1..Len(g)
      <4>1. (i - Len(g)) \in 1..Len(rest) /\ all[i] = rest[i - Len(g)]
        BY <1>2, <1>7, <1>9, <3>3
      <4>2. i - Len(g) = j - Len(g)
        BY <1>5, <3>1, <4>1
      <4> QED BY <1>2, <1>8, <4>2
    <3> QED BY <3>2, <3>3
  <2> QED BY <2>1, <2>2
<1>11. Range(all) = Range(r)
  <2>1. ASSUME NEW n \in 1..N PROVE r[n] \in Range(all)
    <3>1. CASE r[n] \in Range(g)
      <4>1. PICK i \in 1..Len(g) : g[i] = r[n]
        BY <1>2, <3>1 DEF Range
      <4>2. i \in DOMAIN all /\ all[i] = r[n]
        BY <1>8, <1>9, <4>1
      <4> QED BY <4>2 DEF Range
    <3>2. CASE r[n] \notin Range(g)
      <4>1. r[n] \in Range(rest)
        BY <1>2, <1>3, <3>2 DEF T
      <4>2. PICK i \in 1..Len(rest) : rest[i] = r[n]
        BY <1>4, <4>1 DEF Range
      <4>3. i + Len(g) \in DOMAIN all /\ all[i + Len(g)] = r[n]
        BY <1>8, <1>9, <4>2
      <4> QED BY <4>3 DEF Range
    <3> QED BY <3>1, <3>2
  <2>2. \A x \in Range(all) : x \in Range(r)
    BY <1>7, <1>8, ElementOfSeq DEF Range
  <2> QED BY <1>2, <2>1, <2>2 DEF Range
<1>12. Len(all) = N
  <2>1. Cardinality(Range(all)) = Len(all)
    BY <1>7, <1>10, RangeCounted
  <2>2. Cardinality(Range(r)) = N
    BY RangeCounted DEF N
  <2> QED BY <1>11, <2>1, <2>2
<1>13. m \in 0..N /\ Len(g) <= m
  <2>1. m = IF count <= N THEN count ELSE N
    BY <1>2, SmallerOfTwo
  <2>2. Len(g) <= N
    BY <1>2, <1>4, <1>7, <1>12
  <2> QED BY <1>2, <2>1, <2>2
<1> HIDE DEF m
<1>14. s \in Seq(Range(r)) /\ Len(s) = m /\ \A k \in 1..m : s[k] = all[k]
  BY <1>7, <1>12, <1>13, FirstOnes
<1> HIDE DEF s
<1>15. DOMAIN s = 1..m
  BY <1>14, LenProperties
<1>16. \A i, j \in 1..m : s[i] = s[j] => i = j
  BY <1>2, <1>10, <1>12, <1>13, <1>14
<1>17. \A n \in 1..N : StructureOf(r[n]) \subseteq Brought(r, U)
  <2>1. ASSUME NEW k \in K PROVE k \in U
    <3>1. k \in 1..N /\ r[k] \in Range(g)
      BY <1>1 DEF Ones
    <3>2. PICK i \in 1..Len(g) : g[i] = r[k]
      BY <1>2, <3>1 DEF Range
    <3>3. i \in 1..m /\ s[i] = r[k]
      BY <1>2, <1>9, <1>13, <1>14, <3>2
    <3> QED BY <1>15, <3>1, <3>3 DEF Range
  <2>2. Brought(r, K) \subseteq Brought(r, U)
    BY <2>1 DEF Brought
  <2> QED BY <1>1, <2>2
<1>18. Selects(s, r, count)
  BY <1>14, <1>16, <1>17 DEF Selects, m, N
<1> QED BY <1>12, <1>18 DEF s, m, all

LEMMA SelectionIs ==
  ASSUME NEW r, r \in Seq(Range(r)), \A i, j \in 1..Len(r) : r[i] = r[j] => i = j,
         NEW count \in Nat
  PROVE  Selects(Selection(r, count), r, count)
<1> DEFINE g == Greedy(r, count)
           rest == Those(r, {n \in DOMAIN r : r[n] \notin Range(g)})
<1>1. PICK K : Picked(g, r, count, Len(r), K)
  BY GreedyPicks
<1>2. Selection(r, count) = LET all == IF Len(g) < count THEN g \o rest ELSE g
                            IN SubSeq(all, 1, Min({count, Len(all)}))
  BY DEF Selection
<1> HIDE DEF g
<1>3. CASE Len(g) < count
  <2>1. Selects(SubSeq(g \o rest, 1, Min({count, Len(g \o rest)})), r, count)
    BY <1>1, <1>3, RestSelection
  <2> HIDE DEF rest
  <2> QED BY <1>2, <1>3, <2>1
<1>4. CASE ~(Len(g) < count)
  <2>1. Selects(SubSeq(g, 1, Min({count, Len(g)})), r, count)
    BY <1>1, <1>4, FullSelection
  <2> HIDE DEF rest
  <2> QED BY <1>2, <1>4, <2>1
<1> QED BY <1>3, <1>4

(* The candidates are compared by five numbers, from first to last.        *)
Keys == [1..5 -> Int]
Above(a, b) == \E n \in 1..5 : a[n] > b[n] /\ \A k \in 1..(n - 1) : a[k] = b[k]

LEMMA AboveOrBelow ==
  ASSUME NEW a \in Keys, NEW b \in Keys, a # b
  PROVE  /\ Above(a, b) \/ Above(b, a)
         /\ Above(a, b) => ~Above(b, a)
         /\ (\A n \in FirstDifference(a, b) : a[n] > b[n]) <=> Above(a, b)
<1> DEFINE D == {n \in 1..5 : a[n] # b[n]}
<1>1. /\ DOMAIN a = 1..5 /\ DOMAIN b = 1..5
      /\ \A n \in 1..5 : a[n] \in Int /\ b[n] \in Int
  BY DEF Keys
<1>2. D # {}
  <2> SUFFICES ASSUME \A n \in 1..5 : a[n] = b[n] PROVE FALSE
    OBVIOUS
  <2> QED BY DEF Keys
<1>3. PICK n \in D : \A m \in D : n <= m
  <2>1. D \in SUBSET Nat
    OBVIOUS
  <2> HIDE DEF D
  <2> QED BY <1>2, <2>1, HasLeast
<1>4. n \in 1..5 /\ a[n] # b[n] /\ \A k \in 1..(n - 1) : a[k] = b[k]
  <2>1. \A k \in 1..(n - 1) : k \in 1..5 /\ ~(n <= k)
    OBVIOUS
  <2> QED BY <1>3, <2>1
<1>5. \A m \in 1..5 : (a[m] # b[m] /\ \A k \in 1..(m - 1) : a[k] = b[k]) => m = n
  <2> SUFFICES ASSUME NEW m \in 1..5, a[m] # b[m], \A k \in 1..(m - 1) : a[k] = b[k]
               PROVE  m = n
    OBVIOUS
  <2>1. n <= m
    BY <1>3
  <2>2. ~(n \in 1..(m - 1))
    BY <1>4
  <2> QED BY <1>4, <2>1, <2>2
<1> HIDE DEF D
<1>6. FirstDifference(a, b) = {n}
  BY <1>1, <1>4, <1>5 DEF FirstDifference
<1>7. Above(a, b) <=> a[n] > b[n]
  BY <1>1, <1>4, <1>5 DEF Above
<1>8. Above(b, a) <=> b[n] > a[n]
  BY <1>1, <1>4, <1>5 DEF Above
<1> QED BY <1>1, <1>4, <1>6, <1>7, <1>8

LEMMA AboveOfAbove ==
  ASSUME NEW a \in Keys, NEW b \in Keys, NEW c \in Keys, Above(a, b), Above(b, c)
  PROVE  Above(a, c) /\ a # c
<1>1. \A n \in 1..5 : a[n] \in Int /\ b[n] \in Int /\ c[n] \in Int
  BY DEF Keys
<1>2. PICK n \in 1..5 : a[n] > b[n] /\ \A k \in 1..(n - 1) : a[k] = b[k]
  BY DEF Above
<1>3. PICK m \in 1..5 : b[m] > c[m] /\ \A k \in 1..(m - 1) : b[k] = c[k]
  BY DEF Above
<1>4. PICK l \in 1..5 : l = (IF n <= m THEN n ELSE m) /\ l <= n /\ l <= m /\ (l = n \/ l = m)
  OBVIOUS
<1>5. \A k \in 1..(l - 1) : k \in 1..(n - 1) /\ k \in 1..(m - 1)
  BY <1>4
<1>6. (l = n \/ l \in 1..(n - 1)) /\ (l = m \/ l \in 1..(m - 1))
  BY <1>4
<1>7. a[l] > c[l]
  BY <1>1, <1>2, <1>3, <1>4, <1>6
<1>8. \A k \in 1..(l - 1) : a[k] = c[k]
  BY <1>2, <1>3, <1>5
<1>9. a # c
  BY <1>1, <1>7
<1> QED BY <1>7, <1>8, <1>9 DEF Above

Comparable(c) ==
  c.start \in Nat /\ c.end \in Nat /\ c.stutters \in Nat /\ IsFiniteSet(Types(c))

LEMMA KeysAreNumbers ==
  ASSUME NEW c, Comparable(c)
  PROVE  KeyOf(c) \in Keys
<1>1. Cardinality(Types(c)) \in Nat
  BY FS_CardinalityType DEF Comparable
<1>2. Min({c.stutters, 20}) \in Int
  BY SmallerOfTwo DEF Comparable
<1>3. c.start \in Int /\ Duration(c) \in Int
  BY DEF Comparable, Duration
<1> QED BY <1>1, <1>2, <1>3 DEF KeyOf, Keys

LEMMA RanksStrictly ==
  ASSUME NEW all, NEW I \in SUBSET Nat, \A n \in I : Comparable(all[n])
  PROVE  LET R == {p \in I \X I : RanksBefore(all, p[1], p[2])} IN
         /\ StrictOrder(R, I)
         /\ \A x, y \in I : <<x, y>> \in R <=> RanksBefore(all, x, y)
<1> DEFINE R == {p \in I \X I : RanksBefore(all, p[1], p[2])}
           K(n) == KeyOf(all[n])
<1>1. \A x, y \in I : <<x, y>> \in R <=> RanksBefore(all, x, y)
  OBVIOUS
<1>2. \A n \in I : K(n) \in Keys /\ n \in Nat
  BY KeysAreNumbers
<1>3. ASSUME NEW x \in I, NEW y \in I
      PROVE  RanksBefore(all, x, y) <=>
               IF K(x) = K(y) THEN x < y ELSE Above(K(x), K(y))
  <2>1. CASE K(x) = K(y)
    BY <2>1 DEF RanksBefore
  <2>2. CASE K(x) # K(y)
    <3>1. (\A n \in FirstDifference(K(x), K(y)) : K(x)[n] > K(y)[n]) <=> Above(K(x), K(y))
      BY <1>2, <2>2, AboveOrBelow
    <3> QED BY <2>2, <3>1 DEF RanksBefore
  <2> QED BY <2>1, <2>2
<1> HIDE DEF K, R
<1>4. \A x \in I : <<x, x>> \notin R
  BY <1>1, <1>2, <1>3
<1>5. ASSUME NEW x \in I, NEW y \in I, x # y PROVE <<x, y>> \in R \/ <<y, x>> \in R
  <2>1. CASE K(x) = K(y)
    BY <1>1, <1>2, <1>3, <1>5, <2>1
  <2>2. CASE K(x) # K(y)
    <3>1. Above(K(x), K(y)) \/ Above(K(y), K(x))
      BY <1>2, <2>2, AboveOrBelow
    <3> QED BY <1>1, <1>3, <2>2, <3>1
  <2> QED BY <2>1, <2>2
<1>6. ASSUME NEW x \in I, NEW y \in I, NEW z \in I, <<x, y>> \in R, <<y, z>> \in R
      PROVE  <<x, z>> \in R
  <2>1. RanksBefore(all, x, y) /\ RanksBefore(all, y, z)
    BY <1>1, <1>6
  <2>2. CASE K(x) = K(y)
    <3>1. x < y
      BY <1>3, <2>1, <2>2
    <3>2. CASE K(y) = K(z)
      BY <1>1, <1>2, <1>3, <2>1, <2>2, <3>1, <3>2
    <3>3. CASE K(y) # K(z)
      BY <1>1, <1>3, <2>1, <2>2, <3>3
    <3> QED BY <3>2, <3>3
  <2>3. CASE K(x) # K(y)
    <3>1. Above(K(x), K(y))
      BY <1>3, <2>1, <2>3
    <3>2. CASE K(y) = K(z)
      BY <1>1, <1>3, <2>3, <3>1, <3>2
    <3>3. CASE K(y) # K(z)
      <4>1. Above(K(y), K(z))
        BY <1>3, <2>1, <3>3
      <4>2. Above(K(x), K(z)) /\ K(x) # K(z)
        BY <1>2, <3>1, <4>1, AboveOfAbove
      <4> QED BY <1>1, <1>3, <4>2
    <3> QED BY <3>2, <3>3
  <2> QED BY <2>2, <2>3
<1>7. StrictOrder(R, I)
  BY <1>4, <1>5, <1>6 DEF StrictOrder
<1> QED BY <1>1, <1>7 DEF R

(* The good ones in the order of their ranks.                              *)
GoodOnes(all, request) == {n \in DOMAIN all : Qualified(all[n], request)}
RankedBy(r, p, all, request) ==
  LET good == GoodOnes(all, request)  M == Cardinality(good) IN
  /\ M \in Nat /\ r = [n \in 1..M |-> all[p[n]]]
  /\ \A n \in 1..M : p[n] \in good
  /\ \A n \in good : \E k \in 1..M : p[k] = n
  /\ \A k, l \in 1..M : p[k] = p[l] => k = l
  /\ \A k, l \in 1..M : RanksBefore(all, p[k], p[l]) <=> k < l

LEMMA RankedIs ==
  ASSUME NEW all, all \in Seq(Range(all)), \A n \in 1..Len(all) : Comparable(all[n]), NEW request
  PROVE  \E p : RankedBy(Ranked(all, request), p, all, request)
<1> DEFINE I == GoodOnes(all, request)
           R == {p \in I \X I : RanksBefore(all, p[1], p[2])}
           p == OrderedBy(I, R)
           M == Cardinality(I)
<1>1. DOMAIN all = 1..Len(all) /\ Len(all) \in Nat
  BY LenProperties
<1>2. I \in SUBSET Nat /\ IsFiniteSet(I) /\ \A n \in I : Comparable(all[n])
  <2>1. IsFiniteSet(1..Len(all))
    BY <1>1, FS_Interval
  <2>2. I \subseteq 1..Len(all)
    BY <1>1 DEF GoodOnes
  <2> QED BY <2>1, <2>2, FS_Subset
<1>3. Ranked(all, request) = [n \in DOMAIN p |-> all[p[n]]]
  BY DEF Ranked, GoodOnes
<1> HIDE DEF I
<1>4. StrictOrder(R, I) /\ \A x, y \in I : <<x, y>> \in R <=> RanksBefore(all, x, y)
  BY <1>2, RanksStrictly
<1> HIDE DEF R
<1>5. /\ Taken(p, I, R, M) /\ M \in Nat
      /\ \A x \in I : \E k \in 1..Len(p) : p[k] = x
      /\ \A k, l \in 1..Len(p) : p[k] = p[l] => k = l
  BY <1>2, <1>4, OrderedFacts
<1> HIDE DEF p, M
<1>6. /\ p \in Seq(I) /\ Len(p) = M /\ DOMAIN p = 1..M /\ \A k \in 1..M : p[k] \in I
      /\ \A k, l \in 1..M : k < l => <<p[k], p[l]>> \in R
  <2>1. p \in Seq(I) /\ Len(p) = M
    BY <1>5 DEF Taken
  <2>2. DOMAIN p = 1..M /\ \A k \in 1..M : p[k] \in I
    BY <2>1, LenProperties, ElementOfSeq
  <2> QED BY <1>5, <2>1, <2>2 DEF Taken
<1>7. ASSUME NEW k \in 1..M, NEW l \in 1..M
      PROVE  RanksBefore(all, p[k], p[l]) <=> k < l
  <2>1. RanksBefore(all, p[k], p[l]) <=> <<p[k], p[l]>> \in R
    BY <1>4, <1>6
  <2>2. k < l \/ k = l \/ l < k
    BY <1>5
  <2>3. ASSUME l < k, <<p[k], p[l]>> \in R PROVE FALSE
    <3>1. <<p[l], p[k]>> \in R
      BY <1>6, <2>3
    <3> QED BY <1>4, <1>6, <2>3, <3>1 DEF StrictOrder
  <2>4. ASSUME k = l, <<p[k], p[l]>> \in R PROVE FALSE
    BY <1>4, <1>6, <2>4 DEF StrictOrder
  <2>5. k < l => ~(l < k) /\ k # l
    BY <1>5
  <2> QED BY <1>6, <2>1, <2>2, <2>3, <2>4, <2>5
<1>8. RankedBy(Ranked(all, request), p, all, request)
  BY <1>3, <1>5, <1>6, <1>7 DEF RankedBy, I, M
<1> QED BY <1>8

(* Told by the places among all candidates.                                *)
HadBy(all, s) == UNION {StructureOf(all[k]) : k \in s}
FirstComesNew(all, request, chosen) ==
  LET good == GoodOnes(all, request)
      Better(n) == {k \in chosen : RanksBefore(all, k, n)}
  IN /\ chosen \subseteq good
     /\ Cardinality(chosen) = Min({RequiredCount(all, request), Cardinality(good)})
     /\ (\E n \in good \ chosen : ~(StructureOf(all[n]) \subseteq HadBy(all, chosen))) =>
          \A n \in chosen : ~(StructureOf(all[n]) \subseteq HadBy(all, Better(n)))

LEMMA SelectedAre ==
  ASSUME NEW all, all \in Seq(Range(all)), \A n \in 1..Len(all) : Comparable(all[n]),
         \A i, j \in 1..Len(all) : all[i].id = all[j].id => i = j,
         NEW request, RequiredCount(all, request) \in Nat,
         NEW chosen,
         chosen = {n \in DOMAIN all : all[n].id \in Range(SelectForRequest(all, request).ids)}
  PROVE  FirstComesNew(all, request, chosen)
<1> DEFINE N == Len(all)
           good == GoodOnes(all, request)
           M == Cardinality(good)
           r == Ranked(all, request)
           count == RequiredCount(all, request)
           s == Selection(r, count)
           ids == SelectForRequest(all, request).ids
           U == {k \in 1..M : r[k] \in Range(s)}
           Better(n) == {k \in chosen : RanksBefore(all, k, n)}
<1>1. DOMAIN all = 1..N /\ N \in Nat
  BY LenProperties
<1>2. PICK p : RankedBy(r, p, all, request)
  BY RankedIs
<1>3. ids = [n \in DOMAIN s |-> s[n].id]
  BY DEF SelectForRequest
<1> HIDE DEF r
<1>4. /\ M \in Nat /\ r = [n \in 1..M |-> all[p[n]]]
      /\ \A n \in 1..M : p[n] \in good
      /\ \A n \in good : \E k \in 1..M : p[k] = n
      /\ \A k, l \in 1..M : p[k] = p[l] => k = l
      /\ \A k, l \in 1..M : RanksBefore(all, p[k], p[l]) <=> k < l
  BY <1>2 DEF RankedBy
<1>5. good \subseteq 1..N
  BY <1>1 DEF GoodOnes
<1> HIDE DEF good, M
<1>6. /\ r \in Seq(Range(r)) /\ Len(r) = M /\ \A k \in 1..M : r[k] = all[p[k]] /\ r[k] \in Range(r)
      /\ DOMAIN r = 1..M
  <2>1. r = [k \in 1..M |-> r[k]]
    BY <1>4
  <2> QED BY <1>4, <2>1, FunctionIsSeq
<1>7. \A i, j \in 1..M : r[i] = r[j] => i = j
  <2> SUFFICES ASSUME NEW i \in 1..M, NEW j \in 1..M, r[i] = r[j] PROVE i = j
    OBVIOUS
  <2>1. p[i] \in 1..N /\ p[j] \in 1..N /\ all[p[i]].id = all[p[j]].id
    BY <1>4, <1>5, <1>6
  <2>2. p[i] = p[j]
    BY <2>1
  <2> QED BY <1>4, <2>2
<1>8. Selects(s, r, count)
  BY <1>6, <1>7, SelectionIs
<1> HIDE DEF s, count
<1>9. /\ s \in Seq(Range(r)) /\ Len(s) = Min({count, M})
      /\ \A i, j \in 1..Len(s) : s[i] = s[j] => i = j
      /\ (\E n \in (1..M) \ U : ~(StructureOf(r[n]) \subseteq Brought(r, U))) =>
           \A k \in U : ~(StructureOf(r[k]) \subseteq Brought(r, {j \in U : j < k}))
  BY <1>6, <1>8 DEF Selects
<1>10. DOMAIN s = 1..Len(s) /\ \A k \in 1..Len(s) : s[k] \in Range(r)
  BY <1>9, LenProperties
<1>11. \A x \in Range(s) : \E k \in 1..M : x = r[k]
  BY <1>6, <1>10 DEF Range
<1>12. chosen = {n \in 1..N : all[n] \in Range(s)}
  <2>1. ASSUME NEW n \in 1..N, all[n].id \in Range(ids) PROVE all[n] \in Range(s)
    <3>1. PICK k \in DOMAIN s : s[k].id = all[n].id
      BY <1>3, <2>1 DEF Range
    <3>2. s[k] \in Range(s)
      BY DEF Range
    <3>3. PICK j \in 1..M : s[k] = r[j]
      BY <1>11, <3>2
    <3>4. p[j] \in 1..N /\ s[k] = all[p[j]]
      BY <1>4, <1>5, <1>6, <3>3
    <3>5. p[j] = n
      BY <3>1, <3>4
    <3> QED BY <3>2, <3>4, <3>5
  <2>2. ASSUME NEW n \in 1..N, all[n] \in Range(s) PROVE all[n].id \in Range(ids)
    <3>1. PICK k \in DOMAIN s : s[k] = all[n]
      BY <2>2 DEF Range
    <3>2. k \in DOMAIN ids /\ ids[k] = all[n].id
      BY <1>3, <3>1
    <3> QED BY <3>2 DEF Range
  <2> QED BY <1>1, <2>1, <2>2
<1> HIDE DEF U, ids
<1>13. ASSUME NEW k \in 1..M PROVE p[k] \in chosen <=> k \in U
  <2>1. p[k] \in 1..N /\ r[k] = all[p[k]]
    BY <1>4, <1>5, <1>6
  <2> QED BY <1>12, <2>1 DEF U
<1>14. ASSUME NEW n \in chosen PROVE \E k \in U : p[k] = n
  <2>1. n \in 1..N /\ all[n] \in Range(s)
    BY <1>12
  <2>2. PICK k \in 1..M : all[n] = r[k]
    BY <1>11, <2>1
  <2>3. p[k] \in 1..N /\ all[n].id = all[p[k]].id
    BY <1>4, <1>5, <1>6, <2>2
  <2>4. p[k] = n
    BY <2>1, <2>3
  <2>5. k \in U
    BY <1>13, <2>4
  <2> QED BY <2>4, <2>5
<1>15. U \subseteq 1..M
  BY DEF U
<1>16. chosen \subseteq good
  BY <1>4, <1>14, <1>15
<1>17. Cardinality(chosen) = Min({count, M})
  <2>1. IsFiniteSet(chosen)
    <3>1. IsFiniteSet(1..N)
      BY <1>1, FS_Interval
    <3>2. chosen \subseteq 1..N
      BY <1>12
    <3> QED BY <3>1, <3>2, FS_Subset
  <2> DEFINE f == [n \in chosen |-> all[n]]
  <2>2. f \in [chosen -> Range(s)]
    BY <1>12
  <2>3. ASSUME NEW a \in chosen, NEW b \in chosen, f[a] = f[b] PROVE a = b
    <3>1. a \in 1..N /\ b \in 1..N /\ all[a].id = all[b].id
      BY <1>12, <2>3
    <3> QED BY <3>1
  <2>4. ASSUME NEW x \in Range(s) PROVE \E n \in chosen : f[n] = x
    <3>1. PICK k \in 1..M : x = r[k]
      BY <1>11
    <3>2. p[k] \in chosen /\ all[p[k]] = x
      BY <1>6, <1>13, <3>1 DEF U
    <3> QED BY <3>2
  <2> HIDE DEF f
  <2>5. f \in Bijection(chosen, Range(s))
    BY <2>2, <2>3, <2>4 DEF Bijection, Injection, Surjection, IsInjective
  <2>6. Cardinality(Range(s)) = Cardinality(chosen)
    BY <2>1, <2>5, FS_Bijection DEF ExistsBijection
  <2>7. Cardinality(Range(s)) = Len(s)
    BY <1>9, RangeCounted
  <2> QED BY <1>9, <2>6, <2>7
<1>18. \A k \in 1..M : StructureOf(r[k]) = StructureOf(all[p[k]])
  BY <1>6
<1>19. HadBy(all, chosen) = Brought(r, U)
  <2>1. ASSUME NEW n \in chosen PROVE StructureOf(all[n]) \subseteq Brought(r, U)
    <3>1. PICK k \in U : p[k] = n
      BY <1>14
    <3> QED BY <1>15, <1>18, <3>1 DEF Brought
  <2>2. ASSUME NEW k \in U PROVE StructureOf(r[k]) \subseteq HadBy(all, chosen)
    <3>1. p[k] \in chosen /\ StructureOf(r[k]) = StructureOf(all[p[k]])
      BY <1>13, <1>15, <1>18
    <3> QED BY <3>1 DEF HadBy
  <2>3. HadBy(all, chosen) \subseteq Brought(r, U)
    BY <2>1, Zenon DEF HadBy
  <2>4. Brought(r, U) \subseteq HadBy(all, chosen)
    BY <2>2, Zenon DEF Brought
  <2> QED BY <2>3, <2>4
<1>20. ASSUME NEW k \in U
       PROVE  HadBy(all, Better(p[k])) \subseteq Brought(r, {j \in U : j < k})
  <2> SUFFICES ASSUME NEW n \in chosen, RanksBefore(all, n, p[k])
               PROVE  StructureOf(all[n]) \subseteq Brought(r, {j \in U : j < k})
    BY DEF HadBy
  <2>1. PICK j \in U : p[j] = n
    BY <1>14
  <2>2. j < k /\ StructureOf(r[j]) = StructureOf(all[n])
    BY <1>4, <1>15, <1>18, <2>1
  <2> QED BY <2>2 DEF Brought
<1>21. ASSUME NEW n \in good \ chosen, ~(StructureOf(all[n]) \subseteq HadBy(all, chosen)),
              NEW m \in chosen
       PROVE  ~(StructureOf(all[m]) \subseteq HadBy(all, Better(m)))
  <2>1. PICK k \in 1..M : p[k] = n
    BY <1>4
  <2>2. k \in (1..M) \ U /\ ~(StructureOf(r[k]) \subseteq Brought(r, U))
    BY <1>13, <1>18, <1>19, <1>21, <2>1
  <2>3. PICK j \in U : p[j] = m
    BY <1>14
  <2>4. ~(StructureOf(r[j]) \subseteq Brought(r, {i \in U : i < j}))
    BY <1>9, <2>2
  <2>5. StructureOf(all[m]) = StructureOf(r[j])
    BY <1>15, <1>18, <2>3
  <2>6. HadBy(all, Better(m)) \subseteq Brought(r, {i \in U : i < j})
    BY <1>20, <2>3
  <2> HIDE DEF Better
  <2> QED BY <2>4, <2>5, <2>6
<1>22. FirstComesNew(all, request, chosen)
  BY <1>16, <1>17, <1>21 DEF FirstComesNew, good, M, count
<1> QED BY <1>22

(* What a candidate of a lecture is compared by.                           *)
Scored(c) ==
  {"id", "stutters", "signals"} \subseteq DOMAIN c /\ c.stutters \in Nat /\ IsFiniteSet(Types(c))
AllScored(s) == \A c \in Range(s) : Scored(c)
SaysFew(text) ==
  text \in Seq(Range(text)) /\ \A f \in Range(text) : IsFiniteSet(f.piece.says)

LEMMA FewTypes ==
  ASSUME NEW text, SaysFew(text)
  PROVE  IsFiniteSet(Says(text))
<1> DEFINE S == {f.piece.says : f \in Range(text)}
           g == [f \in Range(text) |-> f.piece.says]
<1>1. IsFiniteSet(Range(text))
  BY RangeCounted DEF SaysFew
<1>2. g \in Surjection(Range(text), S)
  BY DEF Surjection
<1>3. IsFiniteSet(S)
  BY <1>1, <1>2, FS_Surjection
<1>4. \A x \in S : IsFiniteSet(x)
  BY DEF SaysFew
<1> HIDE DEF S, g
<1>5. IsFiniteSet(UNION S)
  BY <1>3, <1>4, FS_UNION
<1>6. Says(text) = UNION S
  BY DEF Says, S
<1> QED BY <1>5, <1>6

LEMMA FewSignals ==
  ASSUME NEW texts, NEW N \in Nat, DOMAIN texts = 1..N,
         \A n \in 1..N : SaysFew(texts[n].text), NEW refs
  PROVE  IsFiniteSet({s.type : s \in SignalsIn(texts, refs)})
<1> DEFINE S == {Says(texts[n].text) : n \in 1..N}
           g == [n \in 1..N |-> Says(texts[n].text)]
           T == {s.type : s \in SignalsIn(texts, refs)}
<1>1. IsFiniteSet(1..N)
  BY FS_Interval
<1>2. g \in Surjection(1..N, S)
  BY DEF Surjection
<1>3. IsFiniteSet(S)
  BY <1>1, <1>2, FS_Surjection
<1>4. \A x \in S : IsFiniteSet(x)
  BY FewTypes
<1>5. T \subseteq UNION S
  <2> SUFFICES ASSUME NEW s \in SignalsIn(texts, refs) PROVE s.type \in UNION S
    OBVIOUS
  <2>0. PICK n \in 1..N : \E t \in NewIn(texts, n) :
          s = [type |-> t, roles |-> RolesOf(texts[n].text), start |-> texts[n].start,
               end |-> texts[n].end, refs |-> refs]
    BY DEF SignalsIn
  <2>1. PICK t \in NewIn(texts, n) :
          s = [type |-> t, roles |-> RolesOf(texts[n].text), start |-> texts[n].start,
               end |-> texts[n].end, refs |-> refs]
    BY <2>0
  <2>2. s.type = t /\ t \in Says(texts[n].text)
    BY <2>1 DEF NewIn
  <2> QED BY <2>2
<1> HIDE DEF S, g, T
<1>6. IsFiniteSet(UNION S)
  BY <1>3, <1>4, FS_UNION
<1>7. IsFiniteSet(T)
  BY <1>5, <1>6, FS_Subset
<1> QED BY <1>7 DEF T

LEMMA CueSaysFew ==
  ASSUME NEW cue, ValidCue(cue)
  PROVE  SaysFew(CueText(cue))
<1>1. cue.pieces \in Seq(Range(cue.pieces)) /\ \A p \in Range(cue.pieces) : IsFiniteSet(p.says)
  BY DEF ValidCue, SaysSomething
<1>2. FragmentsOf(cue) \in Seq(Range(FragmentsOf(cue)))
  BY <1>1, FragmentsFacts
<1>3. ASSUME NEW f \in Range(FragmentsOf(cue)) PROVE IsFiniteSet(f.piece.says)
  <2>1. PICK n \in 1..Len(cue.pieces) :
          f = [piece |-> cue.pieces[n], cue |-> cue.id, nth |-> n,
               start |-> At(cue, n - 1), end |-> At(cue, n)]
    BY <1>1, FragmentsFacts
  <2>2. f.piece = cue.pieces[n]
    BY <2>1
  <2>3. cue.pieces[n] \in Range(cue.pieces)
    BY <1>1, LenProperties DEF Range
  <2> QED BY <1>1, <2>2, <2>3
<1> QED BY <1>2, <1>3 DEF CueText, SaysFew

LEMMA ClipSaysFew ==
  ASSUME NEW c, LectureClip(c)
  PROVE  \E N \in Nat : DOMAIN TextsOf(c) = 1..N /\ \A n \in 1..N : SaysFew(TextsOf(c)[n].text)
<1>1. /\ c.cues \in Seq(Range(c.cues)) /\ \A x \in Range(c.cues) : ValidCue(x)
      /\ c.spans \in Seq(Range(c.spans)) /\ \A x \in Range(c.spans) : ValidText(x)
  BY DEF LectureClip, Displayable
<1>2. CASE c.spans # <<>>
  <2> DEFINE N == Len(c.spans)
             texts == [n \in DOMAIN c.spans |-> [c.spans[n] EXCEPT !.cues = {}]]
  <2>1. TextsOf(c) = texts
    BY <1>2 DEF TextsOf
  <2>2. DOMAIN c.spans = 1..N /\ N \in Nat /\ \A n \in 1..N : c.spans[n] \in Range(c.spans)
    BY <1>1, LenProperties DEF Range
  <2>3. ASSUME NEW n \in 1..N PROVE SaysFew(texts[n].text)
    <3>1. texts[n] = [c.spans[n] EXCEPT !.cues = {}]
      BY <2>2
    <3>2. ASSUME NEW s, ValidText(s) PROVE SaysFew(s.text) /\ SaysFew([s EXCEPT !.cues = {}].text)
      <4>1. [s EXCEPT !.cues = {}].text = s.text
        OBVIOUS
      <4> QED BY <3>2, <4>1 DEF ValidText, SaysFew
    <3> QED BY <1>1, <2>2, <3>1, <3>2
  <2> QED BY <2>1, <2>2, <2>3
<1>3. CASE c.spans = <<>>
  <2> DEFINE N == Len(c.cues)
             texts == [n \in DOMAIN c.cues |->
                         [text |-> CueText(c.cues[n]), start |-> c.cues[n].start,
                          end |-> c.cues[n].end, cues |-> {}]]
  <2>1. TextsOf(c) = texts
    BY <1>3 DEF TextsOf
  <2>2. DOMAIN c.cues = 1..N /\ N \in Nat /\ \A n \in 1..N : c.cues[n] \in Range(c.cues)
    BY <1>1, LenProperties DEF Range
  <2>3. ASSUME NEW n \in 1..N PROVE SaysFew(texts[n].text)
    <3>1. texts[n].text = CueText(c.cues[n])
      BY <2>2
    <3> QED BY <1>1, <2>2, <3>1, CueSaysFew
  <2> QED BY <2>1, <2>2, <2>3
<1> QED BY <1>2, <1>3

LEMMA StuttersAreWhole ==
  ASSUME NEW s, ValidText(s)
  PROVE  Stutters(s.text) \in Nat
<1> DEFINE text == s.text
           sizes == [n \in DOMAIN text |-> text[n].piece.stutters]
<1>1. text \in Seq(Range(text)) /\ \A f \in Range(text) : f.piece.stutters \in Nat
  BY DEF ValidText
<1> HIDE DEF text
<1>2. /\ DOMAIN text = 1..Len(text) /\ Len(text) \in Nat
      /\ \A n \in 1..Len(text) : text[n] \in Range(text)
  BY <1>1, LenProperties DEF Range
<1>3. sizes \in [1..Len(text) -> Nat]
  BY <1>1, <1>2
<1>4. sizes \in Seq(Nat)
  BY <1>2, <1>3, SeqDef
<1>5. Stutters(text) = SumOf(sizes)
  BY DEF Stutters
<1> HIDE DEF sizes
<1>6. sizes \in Seq(Int)
  BY <1>4
<1>7. PICK f : Sums(f, sizes, Len(sizes)) /\ SumOf(sizes) = f[Len(sizes)]
  BY <1>6, SumSteps
<1>8. f[Len(sizes)] \in Nat
  <2>1. Len(sizes) \in 0..Len(sizes)
    BY <1>4, LenProperties
  <2> QED BY <1>4, <1>7, <2>1, SumsGrow
<1> QED BY <1>5, <1>7, <1>8 DEF text

LEMMA ProposedIsScored ==
  ASSUME NEW cues, NEW spans, NEW n, ValidText(spans[n]), NEW w
  PROVE  Scored(Proposed(cues, spans, n, w))
<1> DEFINE bare == Bare(cues, spans, n, w)
           d == Proposed(cues, spans, n, w)
           texts == <<spans[n]>>
<1>1. {"id", "stutters", "signals", "profile", "evidence"} \subseteq DOMAIN bare
      /\ bare.stutters = Stutters(spans[n].text)
  BY DEF Bare
<1>2. d = [bare EXCEPT !.signals = SignalsIn(texts, bare.evidence), !.profile = bare.id]
  BY DEF Proposed
<1> HIDE DEF bare, d
<1>3. DOMAIN d = DOMAIN bare /\ d.stutters = bare.stutters
      /\ d.signals = SignalsIn(texts, bare.evidence)
  BY <1>1, <1>2
<1>4. IsFiniteSet({s.type : s \in SignalsIn(texts, bare.evidence)})
  <2>1. DOMAIN texts = 1..1 /\ texts[1] = spans[n]
    OBVIOUS
  <2>2. SaysFew(spans[n].text)
    BY DEF ValidText, SaysFew
  <2> HIDE DEF texts
  <2>3. \A k \in 1..1 : SaysFew(texts[k].text)
    BY <2>1, <2>2
  <2> QED BY <2>1, <2>3, FewSignals
<1>5. d.stutters \in Nat
  BY <1>1, <1>3, StuttersAreWhole
<1>6. Types(d) = {s.type : s \in SignalsIn(texts, bare.evidence)}
  BY <1>3 DEF Types
<1>7. Scored(d)
  BY <1>1, <1>3, <1>4, <1>5, <1>6 DEF Scored
<1> QED BY <1>7 DEF d

LEMMA ProposedAreScored ==
  ASSUME NEW cues, LectureCues(cues), NEW heard0, heard0 = SemanticSourceSpans(cues), heard0.valid
  PROVE  AllScored(ProposedFrom(cues, heard0.spans, WindowsOf(heard0.spans)))
<1> DEFINE spans == heard0.spans
           windows == WindowsOf(spans)
           all == [n \in DOMAIN spans |-> Proposed(cues, spans, n, windows[n])]
           I == {n \in DOMAIN spans : HasStructure(all[n])}
<1>1. /\ spans \in Seq(Range(spans)) /\ Len(spans) \in Nat /\ DOMAIN spans = 1..Len(spans)
      /\ \A s \in Range(spans) : ValidText(s)
  BY SpansAreTexts
<1>2. ProposedFrom(cues, spans, windows) = Those(all, I)
  BY DEF ProposedFrom
<1> HIDE DEF spans, I, windows
<1>3. ASSUME NEW n \in 1..Len(spans) PROVE Scored(all[n])
  <2>1. spans[n] \in Range(spans)
    BY <1>1 DEF Range
  <2>2. all[n] = Proposed(cues, spans, n, windows[n])
    BY <1>1
  <2> QED BY <1>1, <2>1, <2>2, ProposedIsScored
<1>4. all = [n \in 1..Len(spans) |-> all[n]]
  BY <1>1
<1> HIDE DEF all
<1>5. all \in Seq(Range(all)) /\ \A x \in Range(all) : Scored(x)
  <2>1. \A x \in Range(all) : Scored(x)
    BY <1>3, <1>4 DEF Range
  <2> QED BY <1>1, <1>4, <2>1, FunctionIsSeq
<1>6. \A x \in Range(Those(all, I)) : x \in Range(all)
  BY <1>5, TheseAre
<1> QED BY <1>2, <1>5, <1>6 DEF AllScored, spans, windows

LEMMA PartIsScored ==
  ASSUME NEW c, Scored(c), NEW groups, NEW n
  PROVE  Scored(PartOf(c, groups, n))
<1> DEFINE p == PartOf(c, groups, n)
<1>1. DOMAIN p = DOMAIN c /\ p.stutters = c.stutters /\ p.signals = c.signals
  BY DEF PartOf, Scored
<1> HIDE DEF p
<1>2. Scored(p)
  BY <1>1 DEF Scored, Types
<1> QED BY <1>2 DEF p

LEMMA PreparedIsScored ==
  ASSUME NEW c, LectureClip(c), NEW p, LectureClip(p), Scored(p), NEW whole
  PROVE  Scored(PreparedPart(c, p, whole))
<1> DEFINE I(x) == {k \in DOMAIN c.spans : /\ c.spans[k].start >= x.start
                                           /\ c.spans[k].end <= x.end}
           r == [p EXCEPT !.total = whole, !.profile = p.id,
                 !.words = @ + 3, !.stutters = IF p.index = whole THEN @ + 5 ELSE @,
                 !.snapshot = UNION {TopicsOf(CueText(x)) : x \in Range(p.cues)}]
           q == PartTexts(c, r)
           d == PreparedPart(c, p, whole)
<1>1. d = [q EXCEPT !.signals = SignalsIn(TextsOf(q), q.evidence)]
  BY DEF PreparedPart
<1>2. q = [r EXCEPT !.spans = Those(c.spans, I(r))]
  BY DEF PartTexts
<1> HIDE DEF I, q, d
<1>3. /\ {"start", "end", "cues", "translated", "spans", "units"} \subseteq DOMAIN p
      /\ {"id", "stutters", "signals"} \subseteq DOMAIN p /\ p.stutters \in Nat
  BY DEF LectureClip, Scored
<1>4. /\ DOMAIN r = DOMAIN p
      /\ r.stutters \in {p.stutters, p.stutters + 5}
  BY <1>3
<1> HIDE DEF r
<1>5. DOMAIN q = DOMAIN r /\ q.stutters = r.stutters
  BY <1>2, <1>3, <1>4
<1>6. /\ DOMAIN d = DOMAIN q /\ d.stutters = q.stutters
      /\ d.signals = SignalsIn(TextsOf(q), q.evidence)
      /\ d.cues = q.cues /\ d.spans = q.spans
  BY <1>1, <1>3, <1>4, <1>5
<1>7. LectureClip(d)
  BY PreparedIsClip DEF d
<1>8. TextsOf(q) = TextsOf(d)
  BY <1>6 DEF TextsOf
<1>9. PICK N \in Nat : DOMAIN TextsOf(d) = 1..N /\ \A n \in 1..N : SaysFew(TextsOf(d)[n].text)
  BY <1>7, ClipSaysFew
<1>10. IsFiniteSet({s.type : s \in SignalsIn(TextsOf(q), q.evidence)})
  BY <1>8, <1>9, FewSignals
<1>11. Types(d) = {s.type : s \in SignalsIn(TextsOf(q), q.evidence)}
  BY <1>6 DEF Types
<1>12. d.stutters \in Nat
  BY <1>3, <1>4, <1>5, <1>6
<1>13. Scored(d)
  BY <1>3, <1>4, <1>5, <1>6, <1>10, <1>11, <1>12 DEF Scored
<1> QED BY <1>13 DEF d

LEMMA PreparedAreScored ==
  ASSUME NEW c, LectureClip(c), Scored(c)
  PROVE  AllScored(PrepareDuration(c))
<1> DEFINE parts == SplitCandidate(c)
           made == [n \in DOMAIN parts |-> PreparedPart(c, parts[n], Len(parts))]
           longer == [c EXCEPT !.extended = TRUE]
<1>1. PrepareDuration(c) \in {<<c>>, <<longer>>, made}
  BY DEF PrepareDuration
<1>2. Scored(longer)
  <2>1. DOMAIN longer = DOMAIN c /\ longer.stutters = c.stutters /\ longer.signals = c.signals
    BY DEF Scored
  <2> HIDE DEF longer
  <2> QED BY <2>1 DEF Scored, Types
<1>3. Clips(parts)
  BY SplitIsClips
<1>4. \A x \in Range(parts) : Scored(x)
  <2> DEFINE groups == CueGroups(CuesWithin(c))
  <2>1. parts \in {<<c>>, PartsOf(c, groups)}
    BY DEF SplitCandidate
  <2> HIDE DEF parts, groups
  <2>2. Range(<<c>>) = {c}
    BY DEF Range
  <2>3. \A x \in Range(PartsOf(c, groups)) : Scored(x)
    BY PartIsScored DEF PartsOf, Range
  <2> QED BY <2>1, <2>2, <2>3
<1> HIDE DEF parts, longer
<1>5. \A n \in DOMAIN parts : Scored(PreparedPart(c, parts[n], Len(parts)))
  <2> SUFFICES ASSUME NEW n \in DOMAIN parts PROVE Scored(PreparedPart(c, parts[n], Len(parts)))
    OBVIOUS
  <2>1. parts[n] \in Range(parts)
    BY DEF Range
  <2> QED BY <1>3, <1>4, <2>1, PreparedIsScored DEF Clips
<1>6. \A x \in Range(made) : Scored(x)
  BY <1>5 DEF Range
<1> HIDE DEF made
<1>7. Range(<<c>>) = {c} /\ Range(<<longer>>) = {longer}
  BY DEF Range
<1> QED BY <1>1, <1>2, <1>6, <1>7 DEF AllScored

LEMMA AllPreparedAreScored ==
  ASSUME NEW candidates, Clips(candidates), AllScored(candidates)
  PROVE  AllScored(PrepareAll(candidates))
<1> DEFINE N == Len(candidates)
           seqs == [n \in DOMAIN candidates |-> PrepareDuration(candidates[n])]
           U == UNION {Range(seqs[n]) : n \in 1..N}
           t == FlattenSeq(seqs)
<1>1. DOMAIN candidates = 1..N /\ N \in Nat
      /\ \A n \in 1..N : LectureClip(candidates[n]) /\ Scored(candidates[n])
  BY LenProperties DEF Clips, AllScored, Range
<1>2. PrepareAll(candidates) = t
  BY DEF PrepareAll
<1>3. \A n \in 1..N : Clips(seqs[n]) /\ AllScored(seqs[n])
  BY <1>1, PreparedAreClips, PreparedAreScored
<1>4. seqs = [n \in 1..N |-> seqs[n]]
  BY <1>1
<1> HIDE DEF seqs, N
<1>5. \A n \in 1..N : seqs[n] \in Seq(Range(seqs[n]))
  BY <1>3 DEF Clips
<1>6. t \in Seq(U)
  BY <1>1, <1>4, <1>5, FlattenOf
<1>7. \A x \in U : Scored(x)
  BY <1>3 DEF AllScored
<1> HIDE DEF t, U
<1>8. DOMAIN t = 1..Len(t) /\ \A k \in 1..Len(t) : t[k] \in U
  BY <1>6, LenProperties
<1>9. AllScored(t)
  BY <1>7, <1>8 DEF AllScored, Range
<1> QED BY <1>2, <1>9 DEF t

LEMMA CountIsWhole ==
  ASSUME NEW all, all \in Seq(Range(all)), NEW said \in Sayings, NEW request,
         request = Request(said.said, said.topics)
  PROVE  RequiredCount(all, request) \in Nat
<1> DEFINE S == {n \in DOMAIN all : Eligible(all[n], request)}
<1>1. request.count = said.said.count
  BY DEF Request
<1>2. CASE request.count # None
  BY <1>1, <1>2, SayingConstants DEF RequiredCount
<1>3. CASE request.count = None
  <2>1. IsFiniteSet(S)
    <3>1. DOMAIN all = 1..Len(all) /\ Len(all) \in Nat
      BY LenProperties
    <3>2. IsFiniteSet(1..Len(all)) /\ S \subseteq 1..Len(all)
      BY <3>1, FS_Interval
    <3> HIDE DEF S
    <3> QED BY <3>2, FS_Subset
  <2>2. RequiredCount(all, request) = Max({1, Min({3, Cardinality(S)})})
    BY <1>3 DEF RequiredCount
  <2> HIDE DEF S
  <2>3. Cardinality(S) \in Nat
    BY <2>1, FS_CardinalityType
  <2>4. Min({3, Cardinality(S)}) \in Nat
    BY <2>3, SmallerOfTwo
  <2>5. \A m \in Nat : Max({1, m}) \in Nat
    BY LargerOfTwo
  <2>6. Max({1, Min({3, Cardinality(S)})}) \in Nat
    BY <2>4, <2>5, Zenon
  <2> QED BY <2>2, <2>6
<1> QED BY <1>2, <1>3

LEMMA DistinctMeans ==
  ASSUME NEW N \in Nat, NEW s, s = [n \in 1..N |-> s[n]], Distinct(s)
  PROVE  \A k, l \in 1..N : s[k] = s[l] => k = l
<1>1. s \in Seq(Range(s)) /\ Len(s) = N
  BY FunctionIsSeq
<1>2. IsFiniteSet(1..N) /\ Cardinality(1..N) = N
  BY FS_Interval
<1>3. s \in Surjection(1..N, Range(s))
  BY DEF Surjection, Range
<1>4. Cardinality(Range(s)) = Cardinality(1..N)
  BY <1>1, <1>2 DEF Distinct
<1>5. s \in Injection(1..N, Range(s))
  BY <1>2, <1>3, <1>4, FS_Surjection
<1> QED BY <1>5 DEF Injection, IsInjective

LEMMA EducationalIs ==
  ASSUME NEW cues, NEW lasts, NEW found, NEW request,
         NEW all, all = PrepareAll(found.candidates), Clips(all),
         NEW made, made = CreateEducationalPlan(cues, lasts, found, request),
         "error" \notin DOMAIN made
  PROVE  /\ made.candidates = all
         /\ \A i, j \in 1..Len(all) : all[i].id = all[j].id => i = j
         /\ \A n \in DOMAIN all :
              made.selected[all[n].id] <=> all[n].id \in Range(SelectForRequest(all, request).ids)
<1> DEFINE chosen == SelectForRequest(all, request)
           ids == [n \in DOMAIN all |-> all[n].id]
           selected == [id \in {c.id : c \in Range(all)} |-> id \in Range(chosen.ids)]
           p == [candidates |-> all, lasts |-> lasts, segments |-> {x.id : x \in Range(cues)},
                 selected |-> selected]
<1>1. \/ made = Failure("ValueError")
      \/ made = EducationalPlan(cues, lasts, all, request)
  BY DEF CreateEducationalPlan
<1>2. EducationalPlan(cues, lasts, all, request) = CutPlan(p)
  BY DEF EducationalPlan, PlanOver
<1>3. p.candidates = all /\ p.selected = selected
  OBVIOUS
<1>4. "error" \in DOMAIN Failure("ValueError")
  BY DEF Failure
<1>5. all \in Seq(Range(all))
  BY DEF Clips
<1> HIDE DEF p
<1>7. made = CutPlan(p)
  BY <1>1, <1>2, <1>4
<1>8. made = p
  BY <1>7, PlansAreOfClips
<1>9. ValidPlan(p)
  BY <1>4, <1>7 DEF CutPlan
<1>10. DOMAIN all = 1..Len(all) /\ Len(all) \in Nat
  BY <1>5, LenProperties
<1>11. Distinct(ids)
  BY <1>3, <1>9 DEF ValidPlan
<1>12. ids = [n \in 1..Len(all) |-> ids[n]] /\ \A n \in 1..Len(all) : ids[n] = all[n].id
  BY <1>10
<1> HIDE DEF ids
<1>13. \A i, j \in 1..Len(all) : all[i].id = all[j].id => i = j
  BY <1>10, <1>11, <1>12, DistinctMeans
<1>14. ASSUME NEW n \in DOMAIN all PROVE made.selected[all[n].id] <=> all[n].id \in Range(chosen.ids)
  <2>1. all[n].id \in {c.id : c \in Range(all)}
    BY DEF Range
  <2>2. made.selected = selected
    BY <1>3, <1>8
  <2>3. selected[all[n].id] = (all[n].id \in Range(chosen.ids))
    BY <2>1
  <2> QED BY <2>2, <2>3
<1> QED BY <1>3, <1>8, <1>13, <1>14

(* The best of the prepared candidates.                                    *)
LEMMA PreparedAreSelected ==
  ASSUME NEW cues, NEW lasts, NEW found, Clips(found.candidates), AllScored(found.candidates),
         NEW said \in Sayings, NEW request, request = Request(said.said, said.topics),
         NEW made, made = CreateEducationalPlan(cues, lasts, found, request),
         "error" \notin DOMAIN made,
         NEW chosen,
         chosen = {n \in DOMAIN made.candidates : made.selected[made.candidates[n].id]}
  PROVE  FirstComesNew(made.candidates, request, chosen)
<1> DEFINE all == PrepareAll(found.candidates)
           ids == SelectForRequest(all, request).ids
<1>1. Clips(all) /\ AllScored(all)
  BY AllPreparedAreClips, AllPreparedAreScored
<1>0. all = PrepareAll(found.candidates)
  OBVIOUS
<1> HIDE DEF all
<1>2. /\ made.candidates = all
      /\ \A i, j \in 1..Len(all) : all[i].id = all[j].id => i = j
      /\ \A n \in DOMAIN all : made.selected[all[n].id] <=> all[n].id \in Range(ids)
  BY <1>1, <1>0, EducationalIs
<1> HIDE DEF ids
<1>3. all \in Seq(Range(all)) /\ \A n \in 1..Len(all) : Comparable(all[n])
  <2>1. all \in Seq(Range(all)) /\ \A x \in Range(all) : LectureClip(x) /\ Scored(x)
    BY <1>1 DEF Clips, AllScored
  <2>2. \A n \in 1..Len(all) : all[n] \in Range(all)
    BY <2>1, LenProperties DEF Range
  <2> QED BY <2>1, <2>2 DEF LectureClip, Displayable, Scored, Comparable
<1>4. RequiredCount(all, request) \in Nat
  BY <1>3, CountIsWhole
<1>5. chosen = {n \in DOMAIN all : all[n].id \in Range(ids)}
  BY <1>2
<1>6. FirstComesNew(all, request, chosen)
  BY <1>2, <1>3, <1>4, <1>5, SelectedAre DEF ids
<1> QED BY <1>2, <1>6

(* A plan of what was proposed is made of the request it remembers; the    *)
(* other plan of a lecture is made before anything is read of it.          *)
PlannedAsSaid ==
  \E said \in Sayings :
    /\ plan.request = Request(said.said, said.topics)
    /\ plan.made = CreateEducationalPlan(input.cues, input.lasts, proposed, plan.request)
SelectInv ==
  /\ ShownInv
  /\ input.kind = "lecture" =>
       /\ proposed # None => heard # None /\ AllScored(proposed.candidates)
       /\ plan # None => heard = None \/ (proposed # None /\ PlannedAsSaid)

LEMMA SelectStep ==
  ASSUME SelectInv, [LibraryNext]_libraryVars
  PROVE  SelectInv'
<1>1. ShownInv'
  BY ShownStep DEF SelectInv
<1>2. /\ input \in Inputs /\ input' = input
      /\ input.kind = "lecture" => LectureCues(input.cues)
      /\ input.kind = "lecture" =>
           /\ heard # None => heard = SemanticSourceSpans(input.cues)
           /\ proposed # None => heard # None /\ AllScored(proposed.candidates)
           /\ plan # None => heard = None \/ (proposed # None /\ PlannedAsSaid)
  <2>1. input \in Inputs
    BY DEF SelectInv, ShownInv
  <2>2. input' = input
    BY DEF LibraryNext, libraryVars, ReadLecture, ProposeEducational, CreatePlan, PlanEducational,
           ProcessSubtitles, DetectSports, ProposeSports, PlanSports, Reframe, Resize, LayOut
  <2> QED BY <2>1, <2>2, LectureConstants DEF SelectInv, ShownInv, LectureCues
<1>3. ASSUME ReadLecture PROVE SelectInv'
  <2>1. /\ input.kind = "lecture" /\ heard = None /\ plan = None
        /\ heard' = SemanticSourceSpans(input.cues) /\ proposed' = proposed /\ plan' = plan
    BY <1>3 DEF ReadLecture
  <2> QED BY <1>1, <1>2, <2>1 DEF SelectInv
<1>4. ASSUME ProposeEducational PROVE SelectInv'
  <2>1. input.kind = "lecture" /\ heard # None /\ proposed = None /\ heard' = heard /\ plan' = plan
    BY <1>4 DEF ProposeEducational
  <2>w. PICK windows \in {IF heard.valid THEN WindowsOf(heard.spans) ELSE <<>>} :
          \E valid \in {heard.valid /\ CanPropose(input.cues, heard.spans, windows)} :
            proposed' = [windows |-> windows, valid |-> valid,
                         candidates |-> IF valid
                           THEN ProposedFrom(input.cues, heard.spans, windows) ELSE <<>>]
    BY <1>4, Zenon DEF ProposeEducational
  <2>2. PICK valid \in {heard.valid /\ CanPropose(input.cues, heard.spans, windows)} :
          proposed' = [windows |-> windows, valid |-> valid,
                       candidates |-> IF valid
                         THEN ProposedFrom(input.cues, heard.spans, windows) ELSE <<>>]
    BY <2>w, Zenon
  <2>3. ASSUME heard.valid PROVE AllScored(ProposedFrom(input.cues, heard.spans, windows))
    <3>1. windows = WindowsOf(heard.spans) /\ heard = SemanticSourceSpans(input.cues)
      BY <1>2, <2>1, <2>w, <2>3
    <3> QED BY <1>2, <2>1, <2>3, <3>1, ProposedAreScored
  <2>4. AllScored(<<>>)
    BY DEF AllScored, Range
  <2>5. /\ proposed'.candidates = IF valid THEN ProposedFrom(input.cues, heard.spans, windows)
                                  ELSE <<>>
        /\ valid => heard.valid
    BY <2>2
  <2>6. AllScored(proposed'.candidates)
    BY <2>3, <2>4, <2>5
  <2>7. plan = None
    BY <1>2, <2>1
  <2> QED BY <1>1, <1>2, <2>1, <2>6, <2>7 DEF SelectInv
<1>5. ASSUME NEW said \in Sayings, PlanEducational(said) PROVE SelectInv'
  <2>1. /\ input.kind = "lecture" /\ proposed # None
        /\ heard' = heard /\ proposed' = proposed
    BY <1>5 DEF PlanEducational
  <2>2. PICK request \in {Request(said.said, said.topics)} :
          plan' = [request |-> request,
                   made |-> CreateEducationalPlan(input.cues, input.lasts, proposed, request)]
    BY <1>5 DEF PlanEducational
  <2>3. /\ plan'.request = Request(said.said, said.topics)
        /\ plan'.made = CreateEducationalPlan(input.cues, input.lasts, proposed, plan'.request)
    BY <2>2
  <2>4. PlannedAsSaid'
    BY <1>2, <2>1, <2>3 DEF PlannedAsSaid
  <2> QED BY <1>1, <1>2, <2>1, <2>4 DEF SelectInv
<1>6. ASSUME CreatePlan PROVE SelectInv'
  <2>1. heard = None /\ heard' = heard /\ proposed' = proposed
    BY <1>6 DEF CreatePlan
  <2> QED BY <1>1, <1>2, <2>1 DEF SelectInv
<1>7. ASSUME input.kind # "lecture" PROVE SelectInv'
  BY <1>1, <1>2, <1>7 DEF SelectInv
<1>8. ASSUME heard' = heard, proposed' = proposed, plan' = plan PROVE SelectInv'
  <2>1. PlannedAsSaid' <=> PlannedAsSaid
    BY <1>2, <1>8 DEF PlannedAsSaid
  <2> QED BY <1>1, <1>2, <1>8, <2>1 DEF SelectInv
<1>9. ASSUME \/ DetectSports \/ \E said \in SportsSayings : PlanSports(said) PROVE SelectInv'
  BY <1>7, <1>9 DEF DetectSports, PlanSports
<1>10. ASSUME ProposeSports PROVE SelectInv'
  BY <1>7, <1>10 DEF ProposeSports
<1>11. ASSUME \/ \E c \in ClipsToShow, spec \in SubtitleSpecs, host \in Hosts :
                   ProcessSubtitles(c, spec, host)
              \/ \E frame \in Frames : Reframe(frame)
              \/ \E spec \in Resolutions : Resize(spec)
              \/ \E layout \in Layouts : LayOut(layout)
              \/ UNCHANGED libraryVars
       PROVE  SelectInv'
  BY <1>8, <1>11 DEF ProcessSubtitles, Reframe, Resize, LayOut, libraryVars
<1> QED BY <1>3, <1>4, <1>5, <1>6, <1>9, <1>10, <1>11 DEF LibraryNext

(* The clips of a request are qualified ones, as many as it needs or there *)
(* are; and while one that has a type of statement none of them has is     *)
(* left out, each of them brought a type that no better one had.           *)
THEOREM NewTypesGoFirst == LibraryInit /\ [][LibraryNext]_libraryVars => []NewTypesFirst
<1>1. LibraryInit => SelectInv
  BY ShownStart DEF LibraryInit, SelectInv
<1>2. SelectInv /\ [LibraryNext]_libraryVars => SelectInv'
  BY SelectStep
<1>3. SelectInv => NewTypesFirst
  <2> SUFFICES ASSUME SelectInv, input.kind = "lecture", proposed # None, Made(plan)
               PROVE  NewTypesFirst
    BY DEF NewTypesFirst
  <2> DEFINE all == plan.made.candidates
             request == plan.request
             chosen == {n \in DOMAIN all : plan.made.selected[all[n].id]}
  <2>1. Clips(proposed.candidates) /\ AllScored(proposed.candidates) /\ PlannedAsSaid
    BY DEF SelectInv, ShownInv, Made
  <2>2. PICK said \in Sayings :
          /\ request = Request(said.said, said.topics)
          /\ plan.made = CreateEducationalPlan(input.cues, input.lasts, proposed, request)
    BY <2>1 DEF PlannedAsSaid
  <2>3. "error" \notin DOMAIN plan.made
    BY DEF Made
  <2>4. FirstComesNew(all, request, chosen)
    BY <2>1, <2>2, <2>3, PreparedAreSelected
  <2> QED BY <2>4 DEF NewTypesFirst, FirstComesNew, GoodOnes, HadBy
<1> QED BY <1>1, <1>2, <1>3, PTL
===============================================================================
