------------------------------ MODULE MCLibrary ------------------------------
(* Instances of what works on its input alone: the library's calls on a    *)
(* lecture, a clip, a game, a commentary or a picture, the capture of a    *)
(* stream, or the routing of tasks to models.  Times of lectures and clips *)
(* are in units of 2.5 seconds, those of games and commentaries in seconds. *)
EXTENDS Library, BoundedCapture, ModelRouting

Piece(ends, words, says) ==
  [ends |-> ends, size |-> 2 * words, bare |-> FALSE, lone |-> FALSE, words |-> words, says |-> says,
   opening |-> "plain", refers |-> FALSE, waits |-> FALSE, topics |-> {}, stutters |-> 0]
Blank == [Piece("blank", 0, {}) EXCEPT !.size = 1]

Definition == <<[Piece("sentence", 6, {"definition"}) EXCEPT !.topics = {"rest"}]>>
Mechanism == <<[Piece("sentence", 5, {"mechanism"}) EXCEPT !.opening = "therefore"]>>
Emphasis == <<[Piece("sentence", 5, {"definition", "teacher_emphasis", "example"}) EXCEPT
                 !.topics = {"motion"}, !.stutters = 1]>>
Example == <<Piece("sentence", 5, {"example"})>>
Stray == <<Piece("sentence", 2, {})>>
Two == <<Piece("sentence", 2, {}), Blank, [Piece("clause", 4, {"example"}) EXCEPT !.waits = TRUE]>>
Running == <<Piece("phrase", 5, {"definition"})>>
Clause == <<Piece("clause", 5, {"example"})>>
Silence == <<Blank>>
Dots == <<[Piece("sentence", 0, {}) EXCEPT !.size = 1, !.bare = TRUE]>>
Wordless == <<[Piece("phrase", 1, {}) EXCEPT !.lone = TRUE]>>

CueOf(n, start, end, speaker, pieces) ==
  [id |-> n, start |-> start, end |-> end, speaker |-> speaker, pieces |-> pieces,
   language |-> None, chinese |-> FALSE]

(* Cues of a length, a pause before some, speakers in turn.                *)
Lecture(texts, length, pauses, speakers) ==
  LET Start(n) == (n - 1) * length + 2 * Cardinality({k \in pauses : k <= n}) IN
  [kind |-> "lecture", lasts |-> None,
   cues |-> [n \in DOMAIN texts |->
     CueOf(n, Start(n), Start(n) + length, speakers[1 + (n % Len(speakers))], texts[n])]]

Lectures ==
  {Lecture(t, 3, {}, <<Nobody>>) :
     t \in [1..4 -> {Definition, Mechanism, Emphasis, Stray}]}
  \cup {Lecture(t, 3, {}, <<Nobody>>) : t \in [1..4 -> {Definition, Example, Emphasis}]}
  \cup {Lecture(t, 3, p, s) : t \in [1..4 -> {Definition, Two, Clause}],
                              p \in {{}, {3}}, s \in {<<"a", "b">>, <<"a", Nobody>>}}
  \cup {Lecture(t, 3, {}, <<"a">>) :
          t \in {t \in [1..6 -> {Running, Clause, Stray, Mechanism}] :
                   t[2] = Running /\ t[3] = Running /\ t[5] = Running}}
  \cup {[Lecture(<<Definition, Mechanism>>, 13, {}, <<"a">>) EXCEPT !.lasts = 10],
        Lecture(<<Definition, Silence, Wordless, Mechanism>>, 4, {}, <<"a">>),
        Lecture(<<Clause, Dots, Running, Emphasis>>, 4, {}, <<"a">>),
        Lecture(<<Definition, Silence, Emphasis>>, 4, {}, <<"a", "b">>)}

Said(names, count) == [names |-> names, count |-> count, maximum |-> None,
                       directed |-> count # None, otherWords |-> TRUE]
Names(t, negated) == [x \in {t} |-> {negated}]
Nothing == [x \in {} |-> {}]
MCSayings ==
  {[said |-> Said(Nothing, None), topics |-> {}],
   [said |-> Said(Names("mechanism", TRUE), 2), topics |-> {{"rest", "motion"}}],
   [said |-> [Said(Names("definition", FALSE), None) EXCEPT !.maximum = 9], topics |-> {}],
   [said |-> Said(Nothing, 2), topics |-> {}]}

-----------------------------------------------------------------------------
(* Clips of three cues, translated by records that cover one or two each.  *)
Text(ends, chars) == <<[Piece(ends, 4, {}) EXCEPT !.size = chars]>>
ClipCues(chars, ends) ==
  <<CueOf(1, 0, 3, "a", Text(ends, chars)), CueOf(2, 3, 5, "a", Text(ends, 4)),
    [CueOf(3, 5, 7, "a", Text(ends, 3)) EXCEPT !.chinese = TRUE, !.language = "zh"]>>
Translation(chars, zh) ==
  [chars |-> chars, chinese |-> zh, language |-> IF zh THEN "zh" ELSE "en"]
Record(id, cues, chars, zh) ==
  [id |-> id, cues |-> cues, text |-> cues, provider |-> IF id = "r9" THEN "unknown" ELSE "host",
   language |-> "en", translated |-> Translation(chars, zh)]
RecordsOf ==
  {<<>>, <<Record("r1", <<1>>, 6, TRUE), Record("r2", <<2, 3>>, 8, TRUE)>>,
   <<Record("r1", <<1, 2>>, 10, TRUE), Record("r2", <<3>>, 4, FALSE)>>,
   <<Record("r2", <<3>>, 4, FALSE), Record("r1", <<1>>, 6, TRUE)>>,
   <<Record("r1", <<1, 2, 3>>, 12, FALSE)>>, <<Record("r9", <<1>>, 6, TRUE), Record("r2", <<2, 3>>, 8, TRUE)>>,
   <<Record("r1", <<1, 3>>, 6, TRUE)>>}
TranslatedCues ==
  {<<>>, <<[CueOf(1, 0, 3, "a", Text("phrase", 5)) EXCEPT !.chinese = TRUE],
           [CueOf(2, 3, 5, "a", Text("phrase", 4)) EXCEPT !.chinese = TRUE],
           CueOf(3, 5, 7, "a", Text("phrase", 4))>>}
ClipWith(cues, records, translated, spans, end) ==
  [id |-> "clip", start |-> 0, end |-> end, cues |-> cues, translated |-> translated,
   spans |-> spans, units |-> MaterializeDisplayUnits(cues, records), records |-> records,
   evidence |-> {"e"}, signals |-> {}, profile |-> None, event |-> None,
   series |-> None, index |-> None, total |-> None]
CanBeUnits(cues, records) == \A k \in DOMAIN records : RecordFits(cues, records, k)
ClipTexts == {ClipCues(6, "phrase"), ClipCues(6, "sentence"), ClipCues(14, "phrase"), <<>>}
ClipsOf(cues) ==
  {ClipWith(cues, records, translated, spans, end) :
     records \in {r \in RecordsOf : CanBeUnits(cues, r)},
     translated \in TranslatedCues, end \in {6, 7},
     spans \in {<<>>, SemanticSourceSpans(ClipCues(6, "phrase")).spans,
               SemanticSourceSpans(ClipCues(6, "sentence")).spans}}
(* A document may have two units for the same cue and none for another.    *)
Doubled ==
  LET cues == SubSeq(ClipCues(6, "phrase"), 1, 2)
      records == <<Record("r1", <<1>>, 6, TRUE), Record("r2", <<1>>, 6, TRUE)>>
  IN [ClipWith(cues, <<>>, <<>>, <<>>, 5) EXCEPT
        !.records = records, !.units = [n \in 1..2 |-> UnitOf(cues, records[n])]]
Clips ==
  {c \in {Doubled} \cup UNION {ClipsOf(cues) : cues \in ClipTexts} : ValidCandidate(c)}

Spec3(mode, kind) ==
  [mode |-> mode, kind |-> kind, sized |-> TRUE, providers |-> {"host"},
   languages |-> [source |-> None, translation |-> None]]
MCSubtitleSpecs ==
  {Spec3(m, "video") : m \in SidecarModes \cup {"bilingual_burn_in", "burn_in", "none"}}
  \cup {Spec3("translated_burn_in", "audio"), [Spec3("source_burn_in", "video") EXCEPT !.sized = FALSE]}
MCHosts == {[ffmpeg |-> TRUE, libass |-> TRUE, darwin |-> FALSE, swift |-> FALSE],
            [ffmpeg |-> TRUE, libass |-> FALSE, darwin |-> TRUE, swift |-> TRUE],
            [ffmpeg |-> TRUE, libass |-> FALSE, darwin |-> FALSE, swift |-> FALSE]}

-----------------------------------------------------------------------------
(* Games of three or four observations, and what commentators say.         *)
Observation(id, start, end, role, modality, type, hint, key, replayOf) ==
  [id |-> id, start |-> start, end |-> end, role |-> role, modality |-> modality, type |-> type,
   confidence |-> 70 + 10 * id, hint |-> hint, cues |-> {}, key |-> key, replayOf |-> replayOf,
   provider |-> "detector"]
Action(id, s, e, key) ==
  Observation(id, s, e, "action", "video", "action", IF id = 2 THEN None ELSE "score", key, None)
Board(id, s, e, key) ==
  Observation(id, s, e, "outcome", "scoreboard", "scoreboard_change", "finish", key, None)
Replay(id, s, e, key, type) ==
  Observation(id, s, e, IF type = "replay" THEN "replay" ELSE "action", "video",
              IF type = "replay" THEN "replay_start" ELSE type, "score", key, 1)
Game(bundle, lasts) ==
  [kind |-> "game", bundle |-> bundle, refs |-> {"detector"}, lasts |-> lasts]
Bundles4 ==
  {<<Action(1, a, a + 9, k), Board(2, b, b + 2, None), Action(3, c, c + 1, None),
     Action(4, 50, 50 + d, 1)>> :
       a \in {0, 3}, b \in {2, 6, 14}, c \in {5, 9, 13, 30}, d \in {3, 70}, k \in {None, 1}}
  \cup {<<Action(1, 20, 23, 1), Board(2, 22, 24, k), Replay(3, s, s + 4, r, t)>> :
          k \in {None, 1, 2}, s \in {23, 28, 58}, r \in {None, 3, 1},
          t \in {"replay", "replay_end"}}
Games == {Game(b, lasts) : b \in {b \in Bundles4 : ValidBundle(b)}, lasts \in {21, 60, 200}}
  \cup {[Game(<<Action(1, 0, 9, 1)>>, 60) EXCEPT !.refs = {"detector", "nobody"}]}

Word(matches, rules, words, open) ==
  [matches |-> matches, rules |-> rules, words |-> words, open |-> open]
Rule(signal, type, strong) ==
  [signal |-> signal, type |-> type, strong |-> strong, confidence |-> IF strong THEN 88 ELSE 72,
   cues |-> IF signal = "decisive_score" THEN {"decisive"} ELSE {}]
Goal == Word({"explicit_result", "result_word"}, <<Rule("score", "score", TRUE)>>, {1, 2, 3, 4, 5}, FALSE)
GoalAgain == Word({"explicit_result", "result_word"}, <<Rule("score", "score", TRUE)>>, {1, 2, 3, 4}, FALSE)
Winner == Word({"result_word"}, <<Rule("decisive_score", "score", TRUE), Rule("score", "score", TRUE),
                                  Rule("finish", "finish", TRUE)>>, {6, 7}, FALSE)
Off == Word({"cancelled"}, <<>>, {8}, FALSE)
Earlier == Word({"retrospective"}, <<>>, {9}, TRUE)
IfOnly == Word({"conditional"}, <<Rule("attempt", "attempt", FALSE)>>, {10}, TRUE)
Missed == Word({"failed", "result_word"}, <<Rule("score", "score", TRUE)>>, {11}, FALSE)
Segments(texts, pause) ==
  [n \in DOMAIN texts |-> [id |-> n, start |-> n * (2 + pause), end |-> n * (2 + pause) + 2, text |-> texts[n]]]
Commentaries ==
  {[kind |-> "commentary", refs |-> {"sports_text"}, lasts |-> 100, segments |-> Segments(t, p)] :
     t \in [1..4 -> {Goal, GoalAgain, Winner, Off, IfOnly}], p \in {1, 5}}
  \cup {[kind |-> "commentary", refs |-> {"sports_text"}, lasts |-> 100, segments |-> Segments(t, p)] :
     t \in [1..3 -> {Goal, Off, Earlier, Missed, IfOnly}], p \in {1, 2}}

Mark(negated, narrow) == [negated |-> negated, narrow |-> narrow]
SportsSaid(names, replays, count) ==
  [names |-> names, cues |-> {}, replays |-> replays, count |-> count]
MCSportsSayings ==
  {SportsSaid(Nothing, "wanted", None),
   SportsSaid([x \in {"score"} |-> {Mark(TRUE, TRUE)}], "unsaid", None),
   [SportsSaid([x \in {"score"} |-> {Mark(FALSE, TRUE)}], "unsaid", 2) EXCEPT !.cues = {"decisive"}],
   SportsSaid([x \in {"finish"} |-> {Mark(TRUE, FALSE)}], "unsaid", None)}

-----------------------------------------------------------------------------
Pictures == {[kind |-> "picture", w |-> w, h |-> h] :
               w \in {2, 3, 16, 90, 256, 641, 1280}, h \in {2, 9, 101, 144, 360, 721, 1080}}
Size(w, h) == [w |-> w, h |-> h]
Points == {[x |-> x, y |-> y] : x \in {0, 333, 1000}, y \in {0, 480, 1000}}
Safe == {[left |-> 50, right |-> 50, top |-> 50, bottom |-> 50],
         [left |-> 120, right |-> 80, top |-> 100, bottom |-> 250]}
Frame(how, focus, safe, size, mode, upscale) ==
  [how |-> how, focus |-> focus, safe |-> safe, size |-> size, mode |-> mode, upscale |-> upscale]
MCFrames ==
  {Frame(how, NoSize, CHOOSE s \in Safe : TRUE, size, mode, upscale) :
     how \in {"center_crop", "fit_background", "tracked_focus"}, upscale \in BOOLEAN,
     size \in {NoSize, Size(90, 160), Size(91, 160)}, mode \in {"source", "p144"}}
  \cup {Frame("manual_focus", f, CHOOSE s \in Safe : TRUE, NoSize, "p720", FALSE) : f \in Points}
  \cup {Frame("fixed_subject", f, s, NoSize, "p720", TRUE) : f \in Points \cup {NoSize}, s \in Safe}
MCResolutions ==
  {Frame("none", NoSize, CHOOSE s \in Safe : TRUE, size, mode, upscale) :
     size \in {NoSize, Size(641, 400)}, mode \in {"source", "p720"}, upscale \in BOOLEAN}
MCTargetHeights == [m \in {"p144", "p720"} |-> IF m = "p144" THEN 144 ELSE 720]

Ratios == {[left |-> 30, right |-> 30, top |-> t, bottom |-> b] :
             t \in {0, 30, 450}, b \in {0, 30, 440}}
MCLayouts ==
  {[given |-> g, platform |-> p, font |-> 22, translationFont |-> f, bilingual |-> b, lines |-> 2,
    margin |-> m, atTop |-> t, sourceFirst |-> TRUE, width |-> 900] :
     g \in Ratios, p \in {[side |-> 0, top |-> 0, bottom |-> 0], [side |-> 75, top |-> 100, bottom |-> 250]},
     f \in {12, 72}, b \in BOOLEAN, m \in {0, 48, 300}, t \in BOOLEAN}

MCInputs ==
  Lectures \cup {[kind |-> "clip", clip |-> c] : c \in Clips} \cup Games \cup Commentaries
    \cup Pictures \cup {[kind |-> "stream"], [kind |-> "tasks"]}

-----------------------------------------------------------------------------
MCBaseTiers == [t \in {"media_execution", "title_draft", "content_profile", "final_quality_review"} |->
  IF t = "media_execution" THEN 0 ELSE IF t = "title_draft" THEN 1
  ELSE IF t = "content_profile" THEN 2 ELSE 3]

MCBudgets == {0, 1, Unlimited}

MCInit ==
  /\ LibraryInit /\ Init /\ RoutingInit
  /\ input.kind # "tasks" => budget = Unlimited
MCNext ==
  \/ LibraryNext /\ UNCHANGED <<vars, routingVars>>
  \/ input.kind = "stream" /\ Next /\ UNCHANGED <<libraryVars, routingVars>>
  \/ input.kind = "tasks" /\ RoutingNext /\ UNCHANGED <<libraryVars, vars>>
MCSpec == MCInit /\ [][MCNext]_<<libraryVars, vars, routingVars>>
=============================================================================
