---------------------------- MODULE MCHighlights ----------------------------
(* Requests and proposals for Highlights: candidates that overlap, repeat  *)
(* and exceed each other, tasks that ask for few, for some, for long ones. *)
(* The unit of time is 7.5 seconds; most lengths are given in twice that.  *)
EXTENDS Highlights

Cue(s, e) == [start |-> 2 * s, end |-> 2 * e]
Half == [start |-> 18, end |-> 19]
Shape(id, s, e, cues, gist, tracks) ==
  [id |-> id, start |-> 2 * s, end |-> 2 * e, cues |-> cues, gist |-> gist, evidence |-> {id},
   units |-> <<>>, extended |-> FALSE, series |-> None, index |-> None,
   types |-> {}, structure |-> {}, about |-> {}, tracks |-> tracks]

Short == [Shape(<<"c1">>, 0, 3, <<Cue(0, 3)>>, "g1", {"t1"}) EXCEPT !.types = {"definition"}]
Beside == [Shape(<<"c2">>, 2, 5, <<Cue(2, 5)>>, "g2", {"t2"}) EXCEPT !.types = {"definition"}]
Repeated == [Shape(<<"c3">>, 4, 7, <<Cue(4, 7)>>, "g1", {"t1"}) EXCEPT !.about = {"topic"}]
(* Parts of 4, 4, 3 and 3 units, the last one just over the minimum.       *)
Long == [Shape(<<"c4">>, 6, 21, <<Cue(6, 8), Cue(8, 10), Cue(10, 13), Cue(13, 14), Cue(14, 16),
                             Cue(16, 19), Cue(19, 20)>>, "g3", {"t2", "t3"}) EXCEPT
           !.types = {"story"}, !.structure = {"setup"}]
Unsplit == Shape(<<"c5">>, 8, 19, <<Cue(8, 9), Cue(9, 19)>>, "g4", {"t3"})
(* The second cue starts half a unit after the first.                      *)
Stuttering == Shape(<<"d2">>, 9, 19, <<Half, [Cue(10, 14) EXCEPT !.start = 19], Cue(14, 19)>>,
                    "g5", {"t1"})
NoCues == Shape(<<"c6">>, 9, 19, <<>>, "g5", {"t1"})
Extended == [Shape(<<"c7">>, 5, 11, <<Cue(5, 11)>>, "g6", {"t3"}) EXCEPT !.extended = TRUE,
               !.types = {"definition", "hook"}]
Plain == Shape(<<"c8">>, 5, 11, <<Cue(5, 11)>>, "g6", {"t3"})
Part1 == [Shape(<<"c9">>, 1, 4, <<Cue(1, 4)>>, "g1", {"t1"}) EXCEPT !.series = <<"s">>, !.index = 2]
Part2 == [Shape(<<"d1">>, 3, 5, <<Cue(3, 5)>>, "g1", {"t2"}) EXCEPT !.series = <<"s">>, !.index = 1]

Given(clarity, hook) == [d \in Dimensions |-> IF d = "clarity" THEN clarity
                                              ELSE IF d = "hook" THEN hook ELSE 1]
(* unseen: no dimension has a score, so nothing refers to evidence.        *)
Assess(c, a) == [scores |-> IF a = "unseen" THEN [d \in Dimensions |-> None]
                            ELSE IF a = "good" THEN Given(2, 2)
                            ELSE IF a = "poor" THEN Given(1, None) ELSE Given(1, 1),
                 refs |-> IF a = "unseen" THEN {} ELSE c.evidence, tracks |-> c.tracks]
Bundle(cs, as) == [candidates |-> cs,
                   assessed |-> [id \in {c.id : c \in Range(cs)} |->
                     LET n == CHOOSE n \in DOMAIN cs : cs[n].id = id IN Assess(cs[n], as[n])]]

Count(n) == [x \in {"target_count"} |-> n]
AtMost(n) == [x \in {"maximum_count"} |-> n]
Some == [x \in {"minimum_count", "maximum_count"} |-> IF x = "minimum_count" THEN 2 ELSE 3]
Lasting(n) == [x \in {"target_duration"} |-> 2 * n]
Under(n) == [x \in {"maximum_duration"} |-> 2 * n]
Over(n) == [x \in {"minimum_duration"} |-> 2 * n]

Intent(mode, limits) ==
  [mode |-> mode, limits |-> limits, policies |-> Empty, outcomes |-> {}, needs |-> {},
   include |-> {}, exclude |-> {}, order |-> None, diversity |-> None, requirements |-> None]
Lecture == [visual |-> FALSE, emphasized |-> {"clarity", "completion"}, narrative |-> FALSE,
            manyTracks |-> FALSE, objectives |-> {"value"}, limits |-> Empty]
Drama == [visual |-> TRUE, emphasized |-> {"clarity", "visual_independence"}, narrative |-> TRUE,
          manyTracks |-> TRUE, objectives |-> {"story"}, limits |-> Under(6)]
Demanding == [x \in {"hook"} |-> Policy("required", 2, 1)]
Requiring(d) == [Intent("guided", Empty) EXCEPT !.outcomes = {d}]

Request(intent, profile) == [intent |-> intent, profile |-> profile, preset |-> NoPreset]

MCOffered == [unavailable |-> {"tracking"}, longest |-> 30]

(* Ids in the order of their strings, a candidate before its parts.        *)
Names == <<"c1", "c2", "c3", "c4", "c5", "c6", "c7", "c8", "c9", "d1", "d2">>
Rank(id) == 10 * (CHOOSE n \in DOMAIN Names : Names[n] = id[1]) + (IF Len(id) = 1 THEN 0 ELSE id[2])
MCIdBefore(a, b) == Rank(a) < Rank(b)

MCMarkers == [m \in {"definition", "story", "three_second_hook"} |->
  [types |-> IF m = "three_second_hook" THEN {"hook"} ELSE {m}, structure |-> IF m = "story" THEN {"setup"} ELSE {}, forbidden |-> {},
   about |-> {}, sequence |-> IF m = "story" THEN {"chronological"} ELSE {}, count |-> 1]]

(* What a host may say; his candidates are added below.                    *)
Intents ==
  {Intent("auto", l) : l \in {Empty, Count(1), Some}}
  \cup {Intent("guided", l) : l \in {AtMost(2), Under(3), Over(4), Over(10)}}
  \cup {Intent("directed", l) : l \in {Count(2), Over(10), Under(12), Lasting(10), Lasting(16)}}
  \cup {[Intent("directed", AtMost(2)) EXCEPT !.policies = Demanding, !.diversity = TRUE,
                                              !.order = TRUE],
        [Requiring("three_second_hook") EXCEPT !.order = TRUE],
        Requiring("definition"), [Requiring("story") EXCEPT !.limits = Some],
        [Intent("guided", Empty) EXCEPT !.needs = {"tracking"}]}
Choosing(intent) ==
  {[intent EXCEPT !.include = p[1], !.exclude = p[2]] :
     p \in {p \in {{}, {<<"c1">>}, {<<"c2">>, <<"c3">>}} \X {{}, {<<"c2">>}} : p[1] \cap p[2] = {}}}

OneAsk == {<<Request(i, p)>> : i \in UNION {Choosing(j) : j \in Intents}, p \in {None, Lecture, Drama}}
TwoAsks == {<<Request(i, Lecture), Request(j, Lecture)>> :
  i \in {Intent("auto", Empty), Intent("auto", Count(1))},
  j \in {Intent("directed", Over(10)), [Intent("directed", AtMost(2)) EXCEPT !.policies = Demanding]}}
(* He insists on a long candidate, or on a part of it.                     *)
PartAsks == {<<Request([i EXCEPT !.include = {id}], Lecture)>> :
  i \in {Intent("auto", Empty), Intent("directed", Over(10)), [Requiring("story") EXCEPT !.limits = Some]},
  id \in {<<"c4">>, <<"c4", 2>>}}
MCAsks == OneAsk \cup TwoAsks \cup PartAsks

Bundled(css, ass) == {Bundle(cs, as) : cs \in css, as \in ass}
Ratings == {<<"good", "good", "good">>, <<"fair", "good", "poor">>, <<"poor", "fair", "good">>}
Proposed == {<<Short, Beside, Repeated>>, <<Short, Beside, Extended>>, <<Repeated, Beside, Plain>>,
             <<Short, Part1, Part2>>, <<Short, Beside, NoCues>>}
Splitting == {<<Short, Long>>, <<Beside, Long>>, <<Short, Unsplit>>, <<Short, Stuttering>>}
OneBundle == {<<b>> : b \in Bundled(Proposed, Ratings)
                        \cup Bundled(Splitting, {<<"good", "unseen">>, <<"unseen", "good">>})}
TwoBundles == {<<Bundle(<<Short, Long>>, <<"good", "unseen">>),
                 Bundle(<<Short, Beside>>, <<"fair", "good">>)>>}
MCBundles == OneBundle \cup TwoBundles
=============================================================================
