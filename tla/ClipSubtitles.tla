---------------------------- MODULE ClipSubtitles ----------------------------
(***************************************************************************)
(* The subtitles of one clip: what execute_external_plan refuses before it *)
(* renders (media/executor.py, application/subtitle_readability.py) and    *)
(* what it then writes or burns in (media/subtitles.py).  A line of        *)
(* subtitles keeps its time, the cues it is for, how many characters it    *)
(* has and whether they are Chinese.                                       *)
(***************************************************************************)
EXTENDS CutCandidates, FiniteSetsExt

CONSTANTS
  LongestCue,       \* MAXIMUM_STANDARD_SUBTITLE_CUE_DURATION_MS
  FastChinese, FastEnglish   \* characters for a unit of time

ASSUME SpeedConstants == FastChinese \in Nat /\ FastEnglish \in Nat /\ LongestCue \in Nat
ASSUME NoneIsNoRefusal ==
  None \notin {"CAPABILITY_UNAVAILABLE", "PROVIDER_REQUIRED", "SUBTITLE_CUES_REQUIRED",
            "CAPABILITY_CONFLICT"}

SidecarModes == {"sidecar", "source_sidecar", "translated_sidecar", "bilingual_sidecar"}
BurnInModes == {"burn_in", "source_burn_in", "translated_burn_in", "bilingual_burn_in"}
BilingualModes == {"bilingual_sidecar", "bilingual_burn_in"}
TranslatedModes == {"translated_sidecar", "translated_burn_in"}

Length(text) == SumOf([n \in DOMAIN text |-> text[n].piece.size])
Characters(cue) == Length(FragmentsOf(cue))
AllOf(cues) == SumOf([n \in DOMAIN cues |-> Characters(cues[n])])

Line(x, for, chars, chinese) ==
  [start |-> x.start, end |-> x.end, for |-> for, chars |-> chars, chinese |-> chinese]
CueLine(cue) == Line(cue, {cue.id}, Characters(cue), cue.chinese)
SpanLine(c, s) ==
  Line(s, s.cues, Length(s.text), \E cue \in Covered(c, s.cues) : cue.chinese)
SourceLine(c, u) ==
  Line(u, Range(u.cues), AllOf(Those(c.cues, {n \in DOMAIN c.cues : c.cues[n].id \in Range(u.cues)})),
       \E cue \in Covered(c, Range(u.cues)) : cue.chinese)
TranslatedLine(u) == Line(u, Range(u.cues), u.translated.chars, u.translated.chinese)

(* clip_..._to_candidate: relative times, nothing of what lies outside.    *)
Shifted(c, x) ==
  [x EXCEPT !.start = Max({x.start, c.start}) - c.start, !.end = Min({x.end, c.end}) - c.start]
Clipped(c, lines) ==
  LET shifted == [n \in DOMAIN lines |-> Shifted(c, lines[n])]
  IN Those(shifted, {n \in DOMAIN lines : shifted[n].end > shifted[n].start})
Mapped(Op(_), s) == [n \in DOMAIN s |-> Op(s[n])]
OrElse(first, second) == IF first # <<>> THEN first ELSE second

(* _candidate_subtitle_tracks.                                             *)
Tracks(c) ==
  LET source == Clipped(c, Mapped(CueLine, c.cues))
      spans == Clipped(c, Mapped(LAMBDA s : SpanLine(c, s), c.spans))
  IN [source |-> source, effective |-> OrElse(spans, source),
      translated |-> Clipped(c, Mapped(CueLine, c.translated)),
      displaySource |-> Clipped(c, Mapped(LAMBDA u : SourceLine(c, u), c.units)),
      displayTranslated |-> Clipped(c, Mapped(TranslatedLine, c.units))]

(* _validate_cue_track_readability.                                        *)
SpeedLimit(language, x) == IF language = "zh" \/ x.chinese THEN FastChinese ELSE FastEnglish
Readable(language, track) ==
  \A x \in Range(track) :
    Lasts(x) <= LongestCue /\ x.chars <= SpeedLimit(language, x) * Lasts(x)

FirstLanguage(languages) ==   \* _first_language
  LET known == SelectSeq(languages, LAMBDA l : l # None) IN IF known = <<>> THEN None ELSE known[1]
Languages(s) == Mapped(LAMBDA x : x.language, s)
SpanLanguage(c, s) ==   \* of its first cue
  LET cue == CHOOSE cue \in Range(c.cues) : cue.id = s.text[1].cue
  IN IF cue.language = None THEN "und" ELSE cue.language
SourceLanguage(c, given) ==
  FirstLanguage(<<given>> \o Languages(c.units) \o Mapped(LAMBDA s : SpanLanguage(c, s), c.spans)
                  \o Languages(c.cues))
TranslationLanguage(c, given) ==
  FirstLanguage(<<given>> \o Mapped(LAMBDA u : u.translated.language, c.units)
                  \o Languages(c.translated))

(* _validate_candidate_subtitle_readability: the tracks that are checked.  *)
BadCheckedSource(t, mode) ==   \* the cues, whatever is shown
  t.source
CheckedSource(t, mode) ==
  OrElse(t.displaySource, IF mode \in BilingualModes THEN t.source ELSE t.effective)
CheckedTranslation(t) == OrElse(t.displayTranslated, t.translated)
PassesReadability(c, mode, languages) ==
  LET t == Tracks(c) IN
  mode # "none" =>
    /\ mode \notin TranslatedModes => Readable(SourceLanguage(c, languages.source), CheckedSource(t, mode))
    /\ mode \in TranslatedModes \cup BilingualModes =>
         Readable(TranslationLanguage(c, languages.translation), CheckedTranslation(t))

(* _validate_candidate_translation_provenance.                             *)
BadCoversEachCue(c) ==   \* a cue twice, another one never
  SumOf([n \in DOMAIN c.units |-> Len(c.units[n].cues)]) = Len(c.cues)
CoversEachCue(c) ==
  /\ c.cues # <<>>
  /\ UNION {Range(u.cues) : u \in Range(c.units)} = {x.id : x \in Range(c.cues)}
  /\ SumOf([n \in DOMAIN c.units |-> Len(c.units[n].cues)]) = Len(c.cues)
UsedRecords(c) == {r \in Range(c.records) : \E u \in Range(c.units) : u.translation = r.id}
HasProvenance(c, providers) ==
  /\ c.units # <<>> /\ c.records # <<>>
  /\ \A r \in UsedRecords(c) : r.provider \in providers

(* The checks before anything is rendered, in their order.                 *)
PreflightSubtitles(c, spec) ==
  IF spec.mode \in BurnInModes /\ spec.kind # "video" THEN "CAPABILITY_UNAVAILABLE"
  ELSE IF spec.mode \in TranslatedModes \cup BilingualModes /\ ~HasProvenance(c, spec.providers)
       THEN "PROVIDER_REQUIRED"
  ELSE IF spec.mode \in TranslatedModes \cup BilingualModes /\ ~CoversEachCue(c)
       THEN "SUBTITLE_CUES_REQUIRED"
  ELSE IF ~PassesReadability(c, spec.mode, spec.languages) THEN "CAPABILITY_CONFLICT"
  ELSE None

-----------------------------------------------------------------------------
(* pair_bilingual_cues: line by line, at equal times.                      *)
Pairs(source, translated) ==
  [n \in DOMAIN source |-> [source |-> source[n], translation |-> translated[n]]]
CanBePaired(source, translated) ==
  /\ Len(source) = Len(translated)
  /\ \A n \in DOMAIN source :
       source[n].start = translated[n].start /\ source[n].end = translated[n].end

Single(track) == [n \in DOMAIN track |-> [source |-> track[n], translation |-> None]]

(* What the loop hands to write_sidecar, write_bilingual_... and            *)
(* burn_in_subtitle: the lines in the order in which they are written.     *)
ToWrite(t, mode) ==
  IF mode \in BilingualModes
  THEN IF t.displaySource # <<>> THEN Pairs(t.displaySource, t.displayTranslated)
       ELSE IF CanBePaired(t.source, t.translated) THEN Pairs(t.source, t.translated)
       ELSE <<>>
  ELSE Single(IF mode \in TranslatedModes THEN OrElse(t.displayTranslated, t.translated)
              ELSE OrElse(t.displaySource, t.effective))

(* detect_subtitle_capabilities and burn_in_subtitle.                      *)
Backend(host) ==
  IF host.ffmpeg /\ host.libass THEN "ffmpeg-libass"
  ELSE IF host.darwin /\ host.swift THEN "macos-system-overlay"
  ELSE "unavailable"

(* The subtitles of a clip: the lines, or why there is no clip.  A burn-in *)
(* is not for a source whose probe gave no size.                           *)
Unpaired(t, mode) ==
  mode \in BilingualModes /\ t.displaySource = <<>> /\ ~CanBePaired(t.source, t.translated)
RenderSubtitles(c, spec, host) ==
  LET lines == ToWrite(Tracks(c), spec.mode) IN
  IF spec.mode = "none" THEN [lines |-> <<>>, backend |-> None]
  ELSE IF spec.mode \in BurnInModes /\ ~spec.sized /\ ~Unpaired(Tracks(c), spec.mode)
       THEN Failure("CAPABILITY_UNAVAILABLE")
  ELSE IF lines = <<>> THEN Failure("SUBTITLE_CUES_REQUIRED")
  ELSE IF spec.mode \in SidecarModes THEN [lines |-> lines, backend |-> None]
  ELSE IF Backend(host) = "unavailable" THEN Failure("CAPABILITY_UNAVAILABLE")
  ELSE [lines |-> lines, backend |-> Backend(host)]
SubtitlesOf(c, spec, host) ==
  LET refused == PreflightSubtitles(c, spec) IN
  IF refused # None THEN Failure(refused) ELSE RenderSubtitles(c, spec, host)
=============================================================================
