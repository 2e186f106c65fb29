------------------------------- MODULE Library -------------------------------
(***************************************************************************)
(* The library calls that make plans, subtitles and layouts of what a host *)
(* hands in (application/sdk.py), in the order in which each uses what the *)
(* one before returned.  Nothing here touches a file.                      *)
(***************************************************************************)
EXTENDS TranscriptPlans, ClipSubtitles, SportsText, Rendering

CONSTANTS
  Inputs,         \* a lecture, a clip, a game, a commentary or a picture
  Sayings,        \* what a host says of a lecture: [said, topics]
  SportsSayings,  \* and of a game
  Providers,      \* the provider records he hands in
  SubtitleSpecs, Hosts,
  Frames, Resolutions, Layouts

(* What the validators of ReframeSpec, RenderSpec and SubtitleSpec let     *)
(* through, in thousandths, with the presets of both safe areas.           *)
Ratio(x) == x \in Nat /\ x <= 1000
Leaves(least, margins) ==
  /\ margins.left \in Nat /\ margins.right \in Nat /\ margins.top \in Nat /\ margins.bottom \in Nat
  /\ margins.left + margins.right <= 1000 - least /\ margins.top + margins.bottom <= 1000 - least
ValidFrame(f) ==
  /\ f.upscale \in BOOLEAN /\ Leaves(0, f.safe)
  /\ f.mode = "source" \/ f.mode \in DOMAIN TargetHeights
  /\ f.focus # NoSize => Ratio(f.focus.x) /\ Ratio(f.focus.y)
  /\ f.size # NoSize => f.size.w \in Nat \ {0} /\ f.size.h \in Nat \ {0}
ValidLayout(l) ==
  /\ l.bilingual \in BOOLEAN /\ l.atTop \in BOOLEAN
  /\ l.font \in Nat /\ l.translationFont \in Nat /\ l.lines \in Nat /\ l.margin \in Nat
  /\ Leaves(101, l.given)
  /\ l.given.left <= 450 /\ l.given.right <= 450 /\ l.given.top <= 450 /\ l.given.bottom <= 450
  /\ l.platform.side \in Nat /\ l.platform.top \in Nat /\ l.platform.bottom \in Nat
  /\ l.platform.side <= 75 /\ l.platform.top <= 120 /\ l.platform.bottom <= 250

(* The validators of a TranscriptSegment and of the segments of a          *)
(* TranscriptArtifact, of cues, semantic spans and display units, and of   *)
(* a bundle of rules.                                                      *)
ForSomeTime(x) == x.start \in Nat /\ x.end \in Nat /\ x.start < x.end
SaysSomething(cue) ==
  /\ cue.pieces \in Seq(Range(cue.pieces)) /\ cue.pieces # <<>>
  /\ \A p \in Range(cue.pieces) :
       p.size \in Nat \ {0} /\ p.stutters \in Nat /\ IsFiniteSet(p.says)
InOrder(segments) ==
  /\ segments \in Seq(Range(segments))
  /\ \A s \in Range(segments) : ForSomeTime(s)
  /\ \A k, n \in DOMAIN segments : k < n =>
       segments[k].id # segments[n].id /\ segments[k].start <= segments[n].start
ASSUME LectureConstants ==
  \A i \in Inputs : i.kind = "lecture" =>
    InOrder(i.cues) /\ \A cue \in Range(i.cues) : SaysSomething(cue)
ValidCue(cue) == ForSomeTime(cue) /\ SaysSomething(cue)
ValidText(s) ==
  /\ ForSomeTime(s) /\ s.text \in Seq(Range(s.text))
  /\ \A f \in Range(s.text) :
       f.piece.size \in Nat /\ f.piece.stutters \in Nat /\ IsFiniteSet(f.piece.says)
ValidDisplay(u) ==
  ForSomeTime(u) /\ u.cues \in Seq(Range(u.cues)) /\ u.translated.chars \in Nat
ASSUME ClipConstants ==
  \A i \in Inputs : i.kind = "clip" =>
    /\ ForSomeTime(i.clip) /\ ValidCandidate(i.clip)
    /\ i.clip.cues \in Seq({x \in Range(i.clip.cues) : ValidCue(x)})
    /\ i.clip.translated \in Seq({x \in Range(i.clip.translated) : ValidCue(x)})
    /\ i.clip.spans \in Seq({s \in Range(i.clip.spans) : ValidText(s)})
    /\ i.clip.units \in Seq({u \in Range(i.clip.units) : ValidDisplay(u)})
(* No rule of a profile has the signal of a cancellation.                  *)
ValidRules(rules) ==
  rules \in Seq(Range(rules)) /\ \A r \in Range(rules) : r.signal # "cancelled_score"
ASSUME CommentaryConstants ==
  \A i \in Inputs : i.kind = "commentary" =>
    /\ InOrder(i.segments) /\ \A s \in Range(i.segments) : ValidRules(s.text.rules)
    /\ "sports_text" \in i.refs

(* The validators of an educational request, and of the observations of a  *)
(* game.                                                                   *)
ASSUME SayingConstants ==
  \A s \in Sayings : s.said.count = None \/ s.said.count \in Nat \ {0}
ASSUME GameConstants ==
  \A i \in Inputs : i.kind = "game" =>
    /\ i.bundle \in Seq(Range(i.bundle)) /\ ValidBundle(i.bundle) /\ i.lasts \in Nat
    /\ {o.provider : o \in Range(i.bundle)} \subseteq i.refs
    /\ \A o \in Range(i.bundle) : ForSomeTime(o)

ASSUME PictureConstants ==
  /\ \A i \in Inputs : i.kind = "picture" => i.w \in Nat /\ i.h \in Nat
  /\ \A f \in Frames : ValidFrame(f)
  /\ \A l \in Layouts : ValidLayout(l)

VARIABLES
  input,
  heard,          \* semantic spans, or the observations of a commentary
  proposed, plan, shown, picture

libraryVars == <<input, heard, proposed, plan, shown, picture>>

Made(plans) == plans # None /\ "error" \notin DOMAIN plans.made
ClipsToShow ==
  IF input.kind = "clip" THEN {input.clip}
  ELSE IF Made(plan) /\ input.kind = "lecture"
       THEN {c \in Range(plan.made.candidates) : plan.made.selected[c.id]}
  ELSE {}
Observations == IF input.kind = "game" THEN input.bundle ELSE heard

LibraryInit ==
  /\ input \in Inputs
  /\ heard = None /\ proposed = None /\ plan = None /\ shown = None /\ picture = None

-----------------------------------------------------------------------------
(* plan_educational_content, which calls the first three, and create_plan. *)
ReadLecture ==
  /\ input.kind = "lecture" /\ heard = None /\ plan = None
  /\ heard' = SemanticSourceSpans(input.cues)
  /\ UNCHANGED <<input, proposed, plan, shown, picture>>

ProposeEducational ==
  /\ input.kind = "lecture" /\ heard # None /\ proposed = None
  /\ \E windows \in {IF heard.valid THEN WindowsOf(heard.spans) ELSE <<>>} :
     \E valid \in {heard.valid /\ CanPropose(input.cues, heard.spans, windows)} :
       proposed' = [windows |-> windows, valid |-> valid,
                    candidates |-> IF valid
                      THEN ProposedFrom(input.cues, heard.spans, windows) ELSE <<>>]
  /\ UNCHANGED <<input, heard, plan, shown, picture>>

PlanEducational(said) ==
  /\ input.kind = "lecture" /\ proposed # None /\ plan = None
  /\ \E request \in {Request(said.said, said.topics)} :
       plan' = [request |-> request,
                made |-> CreateEducationalPlan(input.cues, input.lasts, proposed, request)]
  /\ UNCHANGED <<input, heard, proposed, shown, picture>>

CreatePlan ==
  /\ input.kind = "lecture" /\ heard = None /\ plan = None
  /\ plan' = [request |-> None, made |-> TranscriptToPlan(input.cues, input.lasts)]
  /\ UNCHANGED <<input, heard, proposed, shown, picture>>

(* What execute_external_plan does with the subtitles of one clip.         *)
ProcessSubtitles(c, spec, host) ==
  /\ shown = None
  /\ shown' = [clip |-> c, spec |-> spec, result |-> SubtitlesOf(c, spec, host)]
  /\ UNCHANGED <<input, heard, proposed, plan, picture>>

-----------------------------------------------------------------------------
(* plan_sports_transcript and plan_sports_content.                         *)
DetectSports ==
  /\ input.kind = "commentary" /\ heard = None
  /\ heard' = Detect(input.segments)
  /\ UNCHANGED <<input, proposed, plan, shown, picture>>

ProposeSports ==
  /\ input.kind = "game" \/ (input.kind = "commentary" /\ heard # None)
  /\ proposed = None
  /\ proposed' = ProposeSportsCandidates(Observations, input.lasts)
  /\ UNCHANGED <<input, heard, plan, shown, picture>>

PlanSports(said) ==
  /\ input.kind \in {"game", "commentary"} /\ proposed # None /\ plan = None
  /\ \E request \in {SportsRequest(said)} :
       plan' = [request |-> request,
                made |-> IF "error" \in DOMAIN request THEN request
                         ELSE CreateSportsPlan(Observations, input.refs, input.lasts, Providers, request)]
  /\ UNCHANGED <<input, heard, proposed, shown, picture>>

-----------------------------------------------------------------------------
(* resolve_reframe and resolve_resolution, for the probed size.            *)
Reframe(frame) ==
  /\ input.kind = "picture" /\ picture = None
  /\ picture' = [does |-> "reframe", spec |-> frame,
                 result |-> ResolveReframe(frame, input.w, input.h)]
  /\ UNCHANGED <<input, heard, proposed, plan, shown>>

Resize(spec) ==
  /\ input.kind = "picture" /\ picture = None
  /\ picture' = [does |-> "resize", spec |-> spec,
                 result |-> ResolveResolution(spec, input.w, input.h)]
  /\ UNCHANGED <<input, heard, proposed, plan, shown>>

(* The area, the overlay and the lines of burned in subtitles.             *)
LayOut(layout) ==
  /\ input.kind = "picture" /\ picture = None
  /\ \E area \in {SafeArea(layout.given, layout.platform, input.w, input.h)} :
       picture' = [does |-> "layout", spec |-> layout, area |-> area,
                   overlay |-> OverlayHeight(layout, area, input.h),
                   edge |-> EdgeMargin(layout, area),
                   margins |-> AssMargins(layout, area, input.h),
                   sides |-> HorizontalMargin(layout, area, input.w)]
  /\ UNCHANGED <<input, heard, proposed, plan, shown>>

LibraryNext ==
  \/ ReadLecture \/ ProposeEducational \/ CreatePlan
  \/ \E said \in Sayings : PlanEducational(said)
  \/ \E c \in ClipsToShow, spec \in SubtitleSpecs, host \in Hosts : ProcessSubtitles(c, spec, host)
  \/ DetectSports \/ ProposeSports
  \/ \E said \in SportsSayings : PlanSports(said)
  \/ \E frame \in Frames : Reframe(frame)
  \/ \E spec \in Resolutions : Resize(spec)
  \/ \E layout \in Layouts : LayOut(layout)
-----------------------------------------------------------------------------
(* Semantic source spans say all that the cues say, in order; a sentence   *)
(* ends where a span ends; and no span reaches over a long pause or from   *)
(* one known speaker to the next cue of another.  Groups of whole cues     *)
(* hold each cue once, in order.                                           *)
Spoken(a, b) == a.speaker = b.speaker \/ Nobody \in {a.speaker, b.speaker}
SpansKeepTheText ==
  input.kind = "lecture" /\ heard # None =>
    LET cues == input.cues
        Reached(s) == {n \in DOMAIN cues : \E i, j \in DOMAIN cues :
                         i <= n /\ n < j /\ cues[i].id \in s.cues /\ cues[j].id \in s.cues}
    IN /\ FlattenSeq([n \in DOMAIN heard.spans |-> heard.spans[n].text])
            = FlattenSeq([n \in DOMAIN cues |-> FragmentsOf(cues[n])])
       /\ \A s \in Range(heard.spans) :
            /\ \A n \in 1..(Len(s.text) - 1) : s.text[n].piece.ends # "sentence"
            /\ \A n \in Reached(s) : /\ cues[n + 1].start - cues[n].end <= MaximumGap
                                    /\ Spoken(cues[n], cues[n + 1])
       /\ FlattenSeq(SemanticSourceGroups(cues)) = cues

(* An educational clip can be understood alone as far as its lecture       *)
(* allows: it holds the span it is for, is long enough, does not stop in a *)
(* few stray words, nor reaches back to some, and does not start with what *)
(* refers to something earlier that it could have taken in.                *)
WindowsAreWhole ==
  input.kind = "lecture" /\ proposed # None =>
    \A n \in DOMAIN proposed.windows :
      LET w == proposed.windows[n]  spans == heard.spans  final == Len(spans) IN
      /\ w.first <= n /\ n <= w.last
      /\ spans[w.last].end - spans[w.first].start >= EnoughTime \/ (w.first = 1 /\ w.last = final)
      /\ w.last = final \/ ~Weak(spans[w.last])
      /\ w.last = final \/ w.first = n \/ ~Weak(spans[w.first])
      /\ Dependent(spans[w.first]) => \A k \in 1..(w.first - 1) : Weak(spans[k])

(* A request gets as many clips as it needs and there are; and while one   *)
(* with a type of statement that none of them has is left out, each of     *)
(* them brought a type that no better one had.                             *)
NewTypesFirst ==
  input.kind = "lecture" /\ proposed # None /\ Made(plan) =>
    LET all == plan.made.candidates  request == plan.request
        good == {n \in DOMAIN all : Qualified(all[n], request)}
        chosen == {n \in DOMAIN all : plan.made.selected[all[n].id]}
        Better(n) == {k \in chosen : RanksBefore(all, k, n)}
        Had(s) == UNION {StructureOf(all[k]) : k \in s}
    IN /\ chosen \subseteq good
       /\ Cardinality(chosen) = Min({RequiredCount(all, request), Cardinality(good)})
       /\ (\E n \in good \ chosen : ~(StructureOf(all[n]) \subseteq Had(chosen))) =>
            \A n \in chosen : ~(StructureOf(all[n]) \subseteq Had(Better(n)))

(* The plan that was made can be saved and read again: model_copy, with    *)
(* which parts are cut and signals attached, leaves no candidate that the  *)
(* validator would refuse.  Cues do not overlap here.                      *)
PlansAreValid ==
  Made(plan) => \A c \in Range(plan.made.candidates) : ValidCandidate(c)

-----------------------------------------------------------------------------
Lines == {p.source : p \in Range(shown.result.lines)}
           \cup ({p.translation : p \in Range(shown.result.lines)} \ {None})
Showing == shown # None /\ shown.spec.mode # "none" /\ "error" \notin DOMAIN shown.result

(* The lines that are written are those that were checked, whichever of    *)
(* the cues, spans and display units they come from: each can be read in   *)
(* its time and lies in the clip.                                          *)
ShownWasChecked ==
  Showing => \A x \in Lines :
    /\ 0 <= x.start /\ x.start < x.end /\ x.end <= Lasts(shown.clip)
    /\ Lasts(x) <= LongestCue
    /\ x.chars <= Larger(FastChinese, FastEnglish) * Lasts(x)
    /\ x.chinese => x.chars <= FastChinese * Lasts(x)

(* No cue of a clip goes untranslated: with the translation in the         *)
(* subtitles, each cue is in exactly one line.                             *)
EveryCueIsShown ==
  Showing /\ shown.spec.mode \in TranslatedModes \cup BilingualModes =>
    \A cue \in Range(shown.clip.cues) :
      Cardinality({n \in DOMAIN shown.result.lines :
                     cue.id \in shown.result.lines[n].source.for}) = 1

-----------------------------------------------------------------------------
(* The crop of a reframed clip lies in the picture at even pixels, with    *)
(* the subject that the host points at in it; what comes out has even      *)
(* sides, and is not larger than what goes in unless that is allowed.      *)
Inside(at, length, of) == 0 <= at /\ at % 2 = 0 /\ at + length <= of
Near(point, at, length, of) ==
  1000 * (at - 2) <= point * of /\ point * of <= 1000 * (at + length + 2)
SubjectStaysInside ==
  /\ picture # None /\ picture.does = "reframe" /\ "error" \notin DOMAIN picture.result
  /\ input.w >= 2 /\ input.h >= 2
  =>
    LET r == picture.result  spec == picture.spec  focus == FocusOf(spec) IN
    /\ r.at # NoSize =>
         /\ Inside(r.at.x, r.crop.w, input.w) /\ Inside(r.at.y, r.crop.h, input.h)
         /\ spec.how # "center_crop" =>
              /\ Near(focus.x, r.at.x, r.crop.w, input.w)
              /\ Near(focus.y, r.at.y, r.crop.h, input.h)
    /\ r.size.w % 2 = 0 /\ r.size.h % 2 = 0
    /\ spec.upscale \/ (r.size.w <= input.w /\ r.size.h <= input.h)

(* The overlay that carries burned in subtitles where the system font is   *)
(* used stays in the safe area, above and below, in every picture of at    *)
(* least 144 lines and with a margin up to the default one.  Nothing is    *)
(* said of the lines of an ASS file, which ffmpeg places.                  *)
SubtitleStaysInSafeArea ==
  picture # None /\ picture.does = "layout" /\ input.h >= 144 /\ picture.spec.margin <= 48 =>
    LET inner == picture.edge  outer == picture.edge + picture.overlay
        near == IF picture.spec.atTop THEN picture.area.top ELSE picture.area.bottom
        far == IF picture.spec.atTop THEN picture.area.bottom ELSE picture.area.top
    IN near <= inner /\ outer <= input.h - far

-----------------------------------------------------------------------------
(* What belongs to one moment of a game is in one clip, however the        *)
(* observations overlap: of those without a key, all that start soon after *)
(* one of them ends; and the clip begins before the first and, unless it   *)
(* is too long or the media ends, lasts until the last has ended.          *)
Moments == {o \in Range(Observations) : o.key = None}
MomentIsShownWhole ==
  input.kind = "game" /\ proposed # None /\ "error" \notin DOMAIN proposed =>
    LET Shows(c, o) == o.id \in c.event.seen IN
    /\ \A a, b \in Moments : b.start \in a.start..(a.end + ClusterGap) =>
         \E c \in Range(proposed.candidates) : Shows(c, a) /\ Shows(c, b)
    /\ \A c \in Range(proposed.candidates) : \A o \in Range(Observations) : Shows(c, o) =>
         c.start <= o.start /\ (c.end >= Min({o.end, input.lasts}) \/ Duration(c) = MostClip)

(* What a commentary that ended with its n-th segment would report.        *)
UpTo(n) == Range(Detect(SubSeq(input.segments, 1, n)))
Told(o, report) == \E p \in report : p.id = o.id
TakesBack(n) == /\ Assertion(input.segments[n].text) = "cancelled"
                /\ "retrospective" \notin ContextOf(input.segments, n)

(* A segment that cancels takes back one result, of those still reported   *)
(* and within its reach the one said last, and takes it back for good;     *)
(* nothing that was reported is lost in any other way.                     *)
LatestResultTakenBack ==
  input.kind = "commentary" /\ heard # None =>
    \A n \in DOMAIN input.segments :
      LET reach == {o \in UpTo(n - 1) : /\ o.hint \in {"score", "finish"}
                                       /\ input.segments[n].start - o.end \in 0..Lookback}
          lost == {o \in UpTo(n - 1) : ~Told(o, UpTo(n))}
      IN IF TakesBack(n) /\ reach # {}
         THEN \E o \in reach : /\ lost = {o} /\ ~Told(o, Range(heard))
                               /\ \A r \in reach : r.start <= o.start
         ELSE lost = {}
=============================================================================
